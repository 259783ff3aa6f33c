---------------------------- MODULE TreeWalkMemory ----------------------------
(***************************************************************************)
(* The memory model of the tree-walk interpreter: the simulated heap       *)
(* (HeapSimulator), the ownership tracker (OwnershipTracker), the scopes   *)
(* (Environment) and the interpreter's handlers that tie them together.    *)
(*                                                                         *)
(* A program is any sequence of evaluation steps.  `temps` is the C++      *)
(* stack of operands already evaluated and not yet consumed: while it is   *)
(* not empty, the operand evaluated next may be a call whose body runs any *)
(* statement - frees, moves, assignments - so that a reference may be used *)
(* long after it was read.  An expression form that consumes an operand    *)
(* consumes the newest one.                                                *)
(*                                                                         *)
(* Objects have at most one field.  Call frames, arrays and control flow   *)
(* are not part of this module; spans and the wording of descriptions are  *)
(* left out.                                                               *)
(***************************************************************************)
EXTENDS Integers, Sequences, FiniteSets

CONSTANTS
    Vars,        \* names a program uses for its variables
    Nil,         \* the value nil
    Num,         \* any other value that is not a heap reference
    Undefined,   \* what a scope holds for a name it does not bind
    NoField,     \* content of an object created without the field
    Pending,     \* "<pending>": owner of an object not yet bound by let
    NoCrash,     \* no CrashError is in flight
    MaxObjects,  \* bound on the number of allocations
    MaxTemps,    \* bound on the operands in flight
    MaxScopes,   \* bound on the nesting of blocks
    MaxEvents    \* bound on the events of all timelines together

ASSUME BoundsAssumption ==
    /\ MaxObjects \in Nat
    /\ MaxTemps \in Nat
    /\ MaxScopes \in Nat \ {0}
    /\ MaxEvents \in Nat

ASSUME NamesAssumption ==
    /\ Pending \notin Vars
    /\ {Nil, Num, Undefined, NoField} \cap Nat = {}
    /\ Undefined \notin {Nil, Num}
    /\ NoField \notin {Nil, Num}

VARIABLES
    scopes,      \* the chain of scopes, the global one first
    temps,       \* operands evaluated and not yet consumed
    nextId,      \* HeapSimulator::next_id_
    alive,       \* HeapObject::alive of every allocated object
    field,       \* HeapObject::fields
    owner,       \* OwnershipRecord::owner
    moved,       \* OwnershipRecord::moved
    timeline,    \* OwnershipRecord::timeline, the kinds only
    varToHeap,   \* OwnershipTracker::var_to_heap_
    crash,       \* the CrashError raised: its kind and related object
    repl         \* how main was called: TRUE for a session, FALSE for a file

heapVars == <<nextId, alive, field>>
ownershipVars == <<owner, moved, timeline, varToHeap>>
vars == <<scopes, temps, heapVars, ownershipVars, crash, repl>>

----------------------------------------------------------------------------
(* Values and the heap's objects. *)

Ids == 1 .. MaxObjects
Value == {Nil, Num} \cup Ids
Allocated == 1 .. nextId - 1
IsHeapRef(v) == v \in Ids

EventKind == {"Allocated", "Freed", "Moved", "Referenced", "Dereferenced",
              "FieldRead", "FieldWrite"}

CrashKind == {"UndefinedVariable", "TypeMismatch", "NullDereference",
              "InvalidFieldAccess", "InvalidOperation", "UseAfterFree",
              "DoubleFree", "OwnershipViolation"}

ASSUME NoCrashAssumption == NoCrash \notin [kind : CrashKind, object : Nat]

TypeOK ==
    /\ scopes \in Seq([Vars -> Value \cup {Undefined}])
    /\ Len(scopes) \in 1 .. MaxScopes
    /\ temps \in Seq(Value)
    /\ Len(temps) \in 0 .. MaxTemps
    /\ nextId \in 1 .. MaxObjects + 1
    /\ alive \in [Allocated -> BOOLEAN]
    /\ field \in [Allocated -> Value \cup {NoField}]
    /\ owner \in [Allocated -> Vars \cup {Pending}]
    /\ moved \in [Allocated -> BOOLEAN]
    /\ timeline \in [Allocated -> Seq(EventKind)]
    /\ varToHeap \in [Vars \cup {Pending} -> {0} \cup Ids]
    /\ crash \in [kind : CrashKind, object : {0} \cup Ids] \cup {NoCrash}

Init ==
    /\ scopes = << [x \in Vars |-> Undefined] >>
    /\ temps = << >>
    /\ nextId = 1
    /\ alive = [id \in Allocated |-> TRUE]
    /\ field = [id \in Allocated |-> NoField]
    /\ owner = [id \in Allocated |-> Pending]
    /\ moved = [id \in Allocated |-> FALSE]
    /\ timeline = [id \in Allocated |-> << >>]
    /\ varToHeap = [x \in Vars \cup {Pending} |-> 0]
    /\ crash = NoCrash
    /\ repl \in BOOLEAN

----------------------------------------------------------------------------
(* Operands, scopes, crashes. *)

Running == crash = NoCrash

Consume(n) == SubSeq(temps, 1, Len(temps) - n)
Operand == temps[Len(temps)]

(* The binding of x that get() and assign() find: the innermost one. *)
IsNearest(i, x) ==
    /\ i \in DOMAIN scopes
    /\ scopes[i][x] # Undefined
    /\ \A j \in DOMAIN scopes : j > i => scopes[j][x] = Undefined

IsDefined(x) == \E i \in DOMAIN scopes : scopes[i][x] # Undefined

Define(x, v) == scopes' = [scopes EXCEPT ![Len(scopes)][x] = v]

(* A CrashError unwinds every block and call down to the top level. *)
Raise(kind, v) ==
    /\ crash' = [kind |-> kind,
                 object |-> IF kind \in {"UndefinedVariable", "TypeMismatch",
                                         "NullDereference", "InvalidOperation"}
                            THEN 0 ELSE v]
    /\ temps' = << >>
    /\ scopes' = << scopes[1] >>

----------------------------------------------------------------------------
(* The checks the handlers make of an operand, in their order. *)

Ok == "ok"

IsAlive(v) == v \in Allocated /\ alive[v]
IsMoved(v) == v \in Allocated /\ moved[v]

(* Mutation of FreeError: a moved object counts as freed. *)
FreeErrorMovedIsFreed(v) ==
    CASE ~IsHeapRef(v)       -> "TypeMismatch"
      [] v \in Ids \ Allocated -> "InvalidOperation"
      [] v \in Allocated     -> IF alive[v] /\ ~moved[v] THEN Ok ELSE "DoubleFree"

(* Mutation of FreeError: the heap does not look at `alive`. *)
FreeErrorUnchecked(v) ==
    CASE ~IsHeapRef(v)       -> "TypeMismatch"
      [] v \in Ids \ Allocated -> "InvalidOperation"
      [] v \in Allocated     -> Ok

FreeError(v) ==
    CASE ~IsHeapRef(v)       -> "TypeMismatch"
      [] v \in Ids \ Allocated -> "InvalidOperation"
      [] v \in Allocated     -> IF alive[v] THEN Ok ELSE "DoubleFree"

(* Mutation of FieldError: the heap reads a freed object's fields. *)
FieldErrorUnchecked(v) ==
    CASE ~IsHeapRef(v)       -> "TypeMismatch"
      [] v \in Ids \ Allocated -> "InvalidOperation"
      [] v \in Allocated     -> IF field[v] = NoField THEN "InvalidFieldAccess" ELSE Ok

FieldError(v) ==
    CASE ~IsHeapRef(v)       -> "TypeMismatch"
      [] v \in Ids \ Allocated -> "InvalidOperation"
      [] v \in Allocated     -> IF ~alive[v] THEN "UseAfterFree"
                                ELSE IF field[v] = NoField THEN "InvalidFieldAccess"
                                ELSE Ok

RefError(v) ==
    CASE ~IsHeapRef(v)       -> "TypeMismatch"
      [] IsHeapRef(v)        -> IF IsAlive(v) THEN Ok ELSE "UseAfterFree"

DerefError(v) ==
    CASE v = Nil             -> "NullDereference"
      [] v # Nil             -> RefError(v)

MoveError(v) ==
    CASE ~IsHeapRef(v)       -> "TypeMismatch"
      [] IsHeapRef(v)        -> IF IsMoved(v) THEN "OwnershipViolation"
                                ELSE RefError(v)

----------------------------------------------------------------------------
(* The ownership tracker. *)

Recorded == UNION {{id} \X DOMAIN timeline[id] : id \in Allocated}

CanRecord == Cardinality(Recorded) < MaxEvents

RecordEvent(id, kind) ==
    /\ timeline' = [timeline EXCEPT ![id] = Append(@, kind)]
    /\ UNCHANGED <<owner, moved, varToHeap>>

RecordAllocation(id) ==
    /\ timeline' = [i \in 1 .. id |-> IF i = id THEN <<"Allocated">> ELSE timeline[i]]
    /\ owner' = [i \in 1 .. id |-> IF i = id THEN Pending ELSE owner[i]]
    /\ moved' = [i \in 1 .. id |-> IF i = id THEN FALSE ELSE moved[i]]
    /\ varToHeap' = [varToHeap EXCEPT ![Pending] = id]

(* from is empty for the source "<expr>", which names no variable. *)
RecordMove(id, from) ==
    /\ timeline' = [timeline EXCEPT ![id] = Append(@, "Moved")]
    /\ moved' = [moved EXCEPT ![id] = TRUE]
    /\ owner' = [owner EXCEPT ![id] = Pending]
    /\ varToHeap' = [x \in DOMAIN varToHeap |->
                        IF x = Pending THEN id
                        ELSE IF x \in from THEN 0 ELSE varToHeap[x]]

(* bind_variable followed by set_owner. *)
SetOwner(id, x) ==
    /\ owner' = [owner EXCEPT ![id] = x]
    /\ varToHeap' = [varToHeap EXCEPT ![owner[id]] = 0, ![x] = id]
    /\ UNCHANGED <<moved, timeline>>

----------------------------------------------------------------------------
(* Expressions. *)

EvalLiteral ==
    /\ Running /\ Len(temps) < MaxTemps
    /\ \E v \in {Nil, Num} : temps' = Append(temps, v)
    /\ UNCHANGED <<scopes, heapVars, ownershipVars, crash>>

EvalIdentifier(x) ==
    /\ Running /\ Len(temps) < MaxTemps
    /\ \/ /\ \E i \in DOMAIN scopes :
                IsNearest(i, x) /\ temps' = Append(temps, scopes[i][x])
          /\ UNCHANGED <<scopes, crash>>
       \/ ~IsDefined(x) /\ Raise("UndefinedVariable", 0)
    /\ UNCHANGED <<heapVars, ownershipVars>>

(* Mutation of EvalNew: the reference returned is the next object's. *)
EvalNewReturnsNext(content, rest) ==
    /\ Running /\ nextId < MaxObjects + 1 /\ CanRecord
    /\ nextId' = nextId + 1
    /\ alive' = [id \in 1 .. nextId |-> IF id = nextId THEN TRUE ELSE alive[id]]
    /\ field' = [id \in 1 .. nextId |-> IF id = nextId THEN content ELSE field[id]]
    /\ RecordAllocation(nextId)
    /\ temps' = Append(rest, nextId + 1)
    /\ UNCHANGED <<scopes, crash>>

(* new T { f: operand }, or new T { } when the object has no field. *)
EvalNew(content, rest) ==
    /\ Running /\ nextId <= MaxObjects /\ CanRecord
    /\ nextId' = nextId + 1
    /\ alive' = [id \in 1 .. nextId |-> IF id = nextId THEN TRUE ELSE alive[id]]
    /\ field' = [id \in 1 .. nextId |-> IF id = nextId THEN content ELSE field[id]]
    /\ RecordAllocation(nextId)
    /\ temps' = Append(rest, nextId)
    /\ UNCHANGED <<scopes, crash>>

EvalNewStruct ==
    \/ temps # << >> /\ EvalNew(Operand, Consume(1))
    \/ Len(temps) < MaxTemps /\ EvalNew(NoField, temps)

EvalRef ==
    /\ Running /\ temps # << >>
    /\ \/ /\ RefError(Operand) # Ok
          /\ Raise(RefError(Operand), Operand)
          /\ UNCHANGED ownershipVars
       \/ /\ RefError(Operand) = Ok /\ CanRecord
          /\ RecordEvent(Operand, "Referenced")
          /\ UNCHANGED <<temps, scopes, crash>>
    /\ UNCHANGED heapVars

EvalDeref ==
    /\ Running /\ temps # << >>
    /\ \/ /\ DerefError(Operand) # Ok
          /\ Raise(DerefError(Operand), Operand)
          /\ UNCHANGED ownershipVars
       \/ /\ DerefError(Operand) = Ok /\ CanRecord
          /\ RecordEvent(Operand, "Dereferenced")
          /\ UNCHANGED <<temps, scopes, crash>>
    /\ UNCHANGED heapVars

(* move(x): the source is set to nil in the environment. *)
EvalMoveIdentifier(x) ==
    /\ Running /\ Len(temps) < MaxTemps
    /\ \E i \in DOMAIN scopes :
        /\ IsNearest(i, x)
        /\ LET v == scopes[i][x] IN
            \/ /\ MoveError(v) # Ok
               /\ Raise(MoveError(v), v)
               /\ UNCHANGED ownershipVars
            \/ /\ MoveError(v) = Ok /\ CanRecord
               /\ RecordMove(v, {x})
               /\ scopes' = [scopes EXCEPT ![i][x] = Nil]
               /\ temps' = Append(temps, v)
               /\ UNCHANGED crash
    /\ UNCHANGED heapVars

(* Mutation of EvalMoveExpr: the move is recorded before it is checked. *)
EvalMoveExprRecordsFirst ==
    /\ Running /\ temps # << >> /\ CanRecord
    /\ IF Operand \in Allocated THEN RecordMove(Operand, {}) ELSE UNCHANGED ownershipVars
    /\ \/ MoveError(Operand) # Ok /\ Raise(MoveError(Operand), Operand)
       \/ MoveError(Operand) = Ok /\ UNCHANGED <<temps, scopes, crash>>
    /\ UNCHANGED heapVars

(* move(e) of any other expression: there is no source to invalidate. *)
EvalMoveExpr ==
    /\ Running /\ temps # << >>
    /\ \/ /\ MoveError(Operand) # Ok
          /\ Raise(MoveError(Operand), Operand)
          /\ UNCHANGED ownershipVars
       \/ /\ MoveError(Operand) = Ok /\ CanRecord
          /\ RecordMove(Operand, {})
          /\ UNCHANGED <<temps, scopes, crash>>
    /\ UNCHANGED heapVars

(* The access is recorded before the heap checks that the object is live. *)
EvalFieldAccess ==
    /\ Running /\ temps # << >> /\ CanRecord
    /\ IF IsHeapRef(Operand) THEN RecordEvent(Operand, "FieldRead")
                             ELSE UNCHANGED ownershipVars
    /\ \/ FieldError(Operand) # Ok /\ Raise(FieldError(Operand), Operand)
       \/ /\ FieldError(Operand) = Ok
          /\ temps' = Append(Consume(1), field[Operand])
          /\ UNCHANGED <<scopes, crash>>
    /\ UNCHANGED heapVars

----------------------------------------------------------------------------
(* Assignments: the value is evaluated first and is the result. *)

AssignIdentifier(x) ==
    /\ Running /\ temps # << >>
    /\ \/ /\ \E i \in DOMAIN scopes :
                /\ IsNearest(i, x)
                /\ scopes' = [scopes EXCEPT ![i][x] = Operand]
          /\ UNCHANGED <<temps, crash>>
       \/ ~IsDefined(x) /\ Raise("UndefinedVariable", 0)
    /\ UNCHANGED <<heapVars, ownershipVars>>

AssignField ==
    /\ Running /\ Len(temps) >= 2 /\ CanRecord
    /\ IF IsHeapRef(Operand) THEN RecordEvent(Operand, "FieldWrite")
                             ELSE UNCHANGED ownershipVars
    /\ \/ /\ FieldError(Operand) # Ok
          /\ Raise(FieldError(Operand), Operand)
          /\ UNCHANGED field
       \/ /\ FieldError(Operand) = Ok
          /\ field' = [field EXCEPT ![Operand] = temps[Len(temps) - 1]]
          /\ temps' = Consume(1)
          /\ UNCHANGED <<scopes, crash>>
    /\ UNCHANGED <<nextId, alive>>

----------------------------------------------------------------------------
(* Statements, calls and the top level. *)

ExecuteExprStmt ==
    /\ Running /\ temps # << >>
    /\ temps' = Consume(1)
    /\ UNCHANGED <<scopes, heapVars, ownershipVars, crash>>

ExecuteLet(x) ==
    /\ Running /\ temps # << >>
    /\ IF IsHeapRef(Operand) THEN SetOwner(Operand, x) ELSE UNCHANGED ownershipVars
    /\ Define(x, Operand)
    /\ temps' = Consume(1)
    /\ UNCHANGED <<heapVars, crash>>

(* Mutation of ExecuteFree: the tracker is not told. *)
ExecuteFreeUnrecorded ==
    /\ Running /\ temps # << >>
    /\ \/ /\ FreeError(Operand) # Ok
          /\ Raise(FreeError(Operand), Operand)
          /\ UNCHANGED alive
       \/ /\ FreeError(Operand) = Ok
          /\ alive' = [alive EXCEPT ![Operand] = FALSE]
          /\ temps' = Consume(1)
          /\ UNCHANGED <<scopes, crash>>
    /\ UNCHANGED <<nextId, field, ownershipVars>>

(* Mutation of ExecuteFree: the fields are wiped with the object. *)
ExecuteFreeWipes ==
    /\ Running /\ temps # << >>
    /\ \/ /\ FreeError(Operand) # Ok
          /\ Raise(FreeError(Operand), Operand)
          /\ UNCHANGED <<alive, field, ownershipVars>>
       \/ /\ FreeError(Operand) = Ok /\ CanRecord
          /\ alive' = [alive EXCEPT ![Operand] = FALSE]
          /\ field' = [field EXCEPT ![Operand] = NoField]
          /\ RecordEvent(Operand, "Freed")
          /\ temps' = Consume(1)
          /\ UNCHANGED <<scopes, crash>>
    /\ UNCHANGED nextId

ExecuteFree ==
    /\ Running /\ temps # << >>
    /\ \/ /\ FreeError(Operand) # Ok
          /\ Raise(FreeError(Operand), Operand)
          /\ UNCHANGED <<alive, ownershipVars>>
       \/ /\ FreeError(Operand) = Ok /\ CanRecord
          /\ alive' = [alive EXCEPT ![Operand] = FALSE]
          /\ RecordEvent(Operand, "Freed")
          /\ temps' = Consume(1)
          /\ UNCHANGED <<scopes, crash>>
    /\ UNCHANGED <<nextId, field>>

PushScope(scope) ==
    /\ Running /\ Len(scopes) < MaxScopes
    /\ scopes' = Append(scopes, scope)
    /\ UNCHANGED <<heapVars, ownershipVars, crash>>

EnterBlock == PushScope([y \in Vars |-> Undefined]) /\ UNCHANGED temps

(* A call of a lambda created at the call: its parameter aliases the     *)
(* argument, and the tracker is not told.                                *)
CallFunction(x) ==
    /\ temps # << >>
    /\ PushScope([y \in Vars |-> IF y = x THEN Operand ELSE Undefined])
    /\ temps' = Consume(1)

(* Mutation of PopScope: the global scope is popped as well. *)
PopScopeUnguarded ==
    /\ Running /\ Len(scopes) > 0
    /\ scopes' = SubSeq(scopes, 1, Len(scopes) - 1)
    /\ UNCHANGED <<temps, heapVars, ownershipVars, crash>>

(* The end of a block or of a call, whose result stays with the operands. *)
PopScope ==
    /\ Running /\ Len(scopes) > 1
    /\ scopes' = SubSeq(scopes, 1, Len(scopes) - 1)
    /\ UNCHANGED <<temps, heapVars, ownershipVars, crash>>

(* The REPL reports the crash and reads the next line; a file's run ends. *)
NextLine ==
    /\ repl /\ ~Running
    /\ crash' = NoCrash
    /\ UNCHANGED <<scopes, temps, heapVars, ownershipVars>>

Step ==
    \/ EvalLiteral \/ EvalNewStruct \/ EvalRef \/ EvalDeref
    \/ EvalMoveExpr \/ EvalFieldAccess \/ AssignField
    \/ \E x \in Vars :
        \/ EvalIdentifier(x) \/ EvalMoveIdentifier(x) \/ AssignIdentifier(x)
        \/ ExecuteLet(x) \/ CallFunction(x)
    \/ ExecuteExprStmt \/ ExecuteFree
    \/ EnterBlock \/ PopScope \/ NextLine

Next == Step /\ UNCHANGED repl

Spec == Init /\ [][Next]_vars

----------------------------------------------------------------------------
(* What must hold. *)

Occurs(id, kind) == \E n \in DOMAIN timeline[id] : timeline[id][n] = kind

(* Every reference the program can get hold of - from a variable of any    *)
(* scope, an operand in flight, a field of a live or freed object - and    *)
(* every entry of the tracker's variable map names an object that was      *)
(* allocated, so the "invalid heap reference" branches of free(),          *)
(* read_field() and write_field() are never taken.                         *)
NoInvalidReference ==
    /\ \A i \in DOMAIN scopes : \A x \in Vars :
            IsHeapRef(scopes[i][x]) => scopes[i][x] \in Allocated
    /\ \A n \in DOMAIN temps : IsHeapRef(temps[n]) => temps[n] \in Allocated
    /\ \A id \in Allocated : IsHeapRef(field[id]) => field[id] \in Allocated
    /\ \A x \in DOMAIN varToHeap : IsHeapRef(varToHeap[x]) => varToHeap[x] \in Allocated
    /\ crash # NoCrash =>
            /\ crash.kind # "InvalidOperation"
            /\ IsHeapRef(crash.object) => crash.object \in Allocated

(* The tracker's timeline and the heap never disagree although they are    *)
(* updated by separate calls: a timeline starts with the allocation and    *)
(* has no other, "free()" is in it exactly if the heap holds the object    *)
(* for dead, and "move()" exactly if the record says moved.                *)
TimelineAgreesWithHeap ==
    \A id \in Allocated :
        /\ timeline[id] # << >>
        /\ \A n \in DOMAIN timeline[id] : timeline[id][n] = "Allocated" <=> n = 1
        /\ alive[id] <=> ~Occurs(id, "Freed")
        /\ moved[id] <=> Occurs(id, "Moved")

(* A lifetime has one end: after "free()" a timeline holds field accesses  *)
(* only (the use-after-free the report points at), never a second free, a  *)
(* move, ref() or deref(); and there is at most one move.                  *)
OneLifetime ==
    \A id \in Allocated : \A m, n \in DOMAIN timeline[id] :
        m < n =>
            /\ timeline[id][m] = "Freed" => timeline[id][n] \in {"FieldRead", "FieldWrite"}
            /\ timeline[id][m] = "Moved" => timeline[id][n] # "Moved"

(* What the program can reach is an object, and what the tracker tells of   *)
(* an object is one lifetime: no alias outlives it unnoticed or revives it. *)
ReferencesAreSound == NoInvalidReference /\ OneLifetime

(* The crash report's evidence: the timeline of the related object shows   *)
(* the event that the kind of crash blames - for OwnershipViolation a move *)
(* of the object, through whichever name: that the name blamed gave it     *)
(* away is OwnersMayMove below - and InvalidFieldAccess blames an object   *)
(* that is live and lacks the field.                                       *)
CrashIsJustified ==
    crash # NoCrash =>
        LET id == crash.object IN
        /\ crash.kind = "DoubleFree" => Occurs(id, "Freed")
        /\ crash.kind = "UseAfterFree" => Occurs(id, "Freed")
        /\ crash.kind = "OwnershipViolation" => Occurs(id, "Moved")
        /\ crash.kind = "InvalidFieldAccess" =>
                alive[id] /\ field[id] = NoField /\ ~Occurs(id, "Freed")

(* README.md:235 has OwnershipViolation for "using a moved value after     *)
(* ownership transfer": move(x) may be refused to a variable that the      *)
(* object was moved from, never to the one the tracker itself records as   *)
(* the object's owner.  The moved flag is never reset, and so it is.       *)
OwnersMayMove ==
    [][\A x \in Vars, id \in Allocated :
            owner[id] = x /\ EvalMoveIdentifier(x) =>
                crash' # [kind |-> "OwnershipViolation", object |-> id]]_vars

(* In a file's run, a field access recorded after the free is the end of   *)
(* the run: it is the last event of that object, and the crash in flight   *)
(* is the use-after-free of that object.                                   *)
NoAccessSurvivesFree ==
    ~repl => \A id \in Allocated : \A m, n \in DOMAIN timeline[id] :
        timeline[id][m] = "Freed" /\ m < n =>
            /\ n = Len(timeline[id])
            /\ crash = [kind |-> "UseAfterFree", object |-> id]

(* A crash is raised before the first update of its handler: it leaves the *)
(* heap, the owners, the moved flags and the variable map as they were,    *)
(* and only the access that crashed is added to a timeline.                *)
CrashLeavesHeap ==
    [][crash = NoCrash /\ crash' # NoCrash =>
            UNCHANGED <<heapVars, owner, moved, varToHeap>>]_vars

----------------------------------------------------------------------------
(* The detailed heap implements the abstract one. *)

Abstract ==
    INSTANCE ObjectLifecycle
        WITH Content <- Value \cup {NoField},
             born <- nextId - 1,
             released <- {id \in Allocated : ~alive[id]},
             transferred <- {id \in Allocated : moved[id]},
             holds <- field

(* Every step of the interpreter is a step of an object's lifecycle or     *)
(* leaves all of them alone, crashes included.                             *)
Lifecycle == Abstract!Spec
=============================================================================
