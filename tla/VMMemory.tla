------------------------------ MODULE VMMemory ------------------------------
(***************************************************************************)
(* The memory instructions of the bytecode VM, in the order in which the   *)
(* compiler emits them, over the same simulated heap and tracker that the  *)
(* interpreter uses (TreeWalkMemory).                                      *)
(*                                                                         *)
(* A program is any sequence of instructions that compiled statements can  *)
(* amount to: while operands wait on the stack a call may run any other    *)
(* statement, and an instruction consumes the newest operands.  Variables  *)
(* are global ones; locals and frames are the subject of VMUpvalues.       *)
(* Objects have at most one field.  Of the tracker the VM uses             *)
(* record_allocation and record_free alone, so that of a record only the   *)
(* timeline changes.  The first crash ends the run.                        *)
(***************************************************************************)
EXTENDS Integers, Sequences

CONSTANTS
    Vars,        \* names a program uses for its variables
    Nil,         \* the value nil
    Num,         \* any other value that is not a heap reference
    Undefined,   \* what globals_ holds for a name it does not bind
    NoField,     \* content of an object created without the field
    NoCrash,     \* no CrashError has been thrown
    MaxObjects,  \* bound on the number of allocations
    MaxTemps     \* bound on the operands on the stack

ASSUME BoundsAssumption == MaxObjects \in Nat /\ MaxTemps \in Nat

ASSUME ValuesAssumption ==
    /\ {Nil, Num, Undefined, NoField} \cap Nat = {}
    /\ Undefined \notin {Nil, Num}
    /\ NoField \notin {Nil, Num}

VARIABLES
    globals,     \* VM::globals_
    stack,       \* the operands on VM::stack_
    nextId,      \* HeapSimulator::next_id_
    alive,       \* HeapObject::alive of every allocated object
    field,       \* HeapObject::fields
    timeline,    \* OwnershipRecord::timeline, the kinds only
    crash        \* the CrashError thrown: its kind and related object

heapVars == <<nextId, alive, field>>
vmVars == <<globals, stack, heapVars, timeline, crash>>

Ids == 1 .. MaxObjects
Value == {Nil, Num} \cup Ids
Allocated == 1 .. nextId - 1
IsHeapRef(v) == v \in Ids
IsAlive(v) == v \in Allocated /\ alive[v]

CrashKind == {"UndefinedVariable", "TypeMismatch", "NullDereference",
              "InvalidFieldAccess", "InvalidOperation", "UseAfterFree", "DoubleFree"}

ASSUME NoCrashAssumption == NoCrash \notin [kind : CrashKind, object : Nat]

Init ==
    /\ globals = [x \in Vars |-> Undefined]
    /\ stack = <<>>
    /\ nextId = 1
    /\ alive = [id \in Allocated |-> TRUE]
    /\ field = [id \in Allocated |-> NoField]
    /\ timeline = [id \in Allocated |-> <<>>]
    /\ crash = NoCrash

-----------------------------------------------------------------------------
(* The stack, and the errors of an operand in the order of their checks *)

Runs == crash = NoCrash

Peek == stack[Len(stack)]
Below == stack[Len(stack) - 1]
Pop(n) == SubSeq(stack, 1, Len(stack) - n)

Push(v) == Len(stack) < MaxTemps /\ stack' = Append(stack, v)

Throw(kind, v) ==
    /\ crash' = [kind |-> kind,
                 object |-> IF kind \in {"UndefinedVariable", "TypeMismatch",
                                         "NullDereference", "InvalidOperation"}
                            THEN 0 ELSE v]
    /\ stack' = <<>>

Ok == "ok"

\* Mutation of FieldError: the VM does not look whether the object is alive.
FieldErrorOfDead(v) ==
    CASE ~IsHeapRef(v) -> "TypeMismatch"
      [] IsHeapRef(v) /\ v \notin Allocated -> "UseAfterFree"
      [] v \in Allocated -> IF field[v] = NoField THEN "InvalidFieldAccess" ELSE Ok

\* Mutation of FieldError: the field is looked up before the object's state.
FieldErrorLooksUpFirst(v) ==
    CASE ~IsHeapRef(v) -> "TypeMismatch"
      [] v \in Allocated /\ field[v] = NoField -> "InvalidFieldAccess"
      [] OTHER -> IF IsAlive(v) THEN Ok ELSE "UseAfterFree"

\* is_alive() holds for no object that was never allocated.
FieldError(v) ==
    CASE ~IsHeapRef(v) -> "TypeMismatch"
      [] IsHeapRef(v) /\ ~IsAlive(v) -> "UseAfterFree"
      [] IsAlive(v) -> IF field[v] = NoField THEN "InvalidFieldAccess" ELSE Ok

RefError(v) == IF IsHeapRef(v) THEN Ok ELSE "TypeMismatch"

\* Mutation of DerefError: nil is not told apart.
DerefErrorOfNil(v) ==
    IF IsHeapRef(v) THEN IF IsAlive(v) THEN Ok ELSE "UseAfterFree" ELSE "TypeMismatch"

DerefError(v) ==
    CASE v = Nil -> "NullDereference"
      [] v # Nil /\ ~IsHeapRef(v) -> "TypeMismatch"
      [] IsHeapRef(v) -> IF IsAlive(v) THEN Ok ELSE "UseAfterFree"

FreeError(v) ==
    CASE ~IsHeapRef(v) -> "TypeMismatch"
      [] v \in Ids \ Allocated -> "InvalidOperation"
      [] v \in Allocated -> IF alive[v] THEN Ok ELSE "DoubleFree"

-----------------------------------------------------------------------------
(* Instructions *)

\* Nil and constants.
Constant(v) == Runs /\ Push(v) /\ UNCHANGED <<globals, heapVars, timeline, crash>>

GetGlobal(x) ==
    /\ Runs /\ Len(stack) < MaxTemps
    /\ \/ globals[x] = Undefined /\ Throw("UndefinedVariable", 0)
       \/ globals[x] # Undefined /\ Push(globals[x]) /\ UNCHANGED crash
    /\ UNCHANGED <<globals, heapVars, timeline>>

\* The value assigned stays on the stack: it is the value of the assignment.
SetGlobal(x) ==
    /\ Runs /\ stack # <<>>
    /\ \/ globals[x] = Undefined /\ Throw("UndefinedVariable", 0) /\ UNCHANGED globals
       \/ /\ globals[x] # Undefined
          /\ globals' = [globals EXCEPT ![x] = Peek]
          /\ UNCHANGED <<stack, crash>>
    /\ UNCHANGED <<heapVars, timeline>>

DefineGlobal(x) ==
    /\ Runs /\ stack # <<>>
    /\ globals' = [globals EXCEPT ![x] = Peek]
    /\ stack' = Pop(1)
    /\ UNCHANGED <<heapVars, timeline, crash>>

\* Mutation of Allocate: the reference on the stack is the next object's.
AllocateReturnsNext(content, rest) ==
    /\ Runs /\ nextId < MaxObjects
    /\ nextId' = nextId + 1
    /\ alive' = [id \in 1 .. nextId |-> IF id = nextId THEN TRUE ELSE alive[id]]
    /\ field' = [id \in 1 .. nextId |-> IF id = nextId THEN content ELSE field[id]]
    /\ timeline' = [id \in 1 .. nextId |->
                        IF id = nextId THEN <<"Allocated">> ELSE timeline[id]]
    /\ stack' = Append(rest, nextId + 1)
    /\ UNCHANGED <<globals, crash>>

Allocate(content, rest) ==
    /\ Runs /\ nextId <= MaxObjects
    /\ nextId' = nextId + 1
    /\ alive' = [id \in 1 .. nextId |-> IF id = nextId THEN TRUE ELSE alive[id]]
    /\ field' = [id \in 1 .. nextId |-> IF id = nextId THEN content ELSE field[id]]
    /\ timeline' = [id \in 1 .. nextId |->
                        IF id = nextId THEN <<"Allocated">> ELSE timeline[id]]
    /\ stack' = Append(rest, nextId)
    /\ UNCHANGED <<globals, crash>>

\* new T { f: value }, or new T { } of an object without the field.
NewStruct ==
    \/ stack # <<>> /\ Allocate(Peek, Pop(1))
    \/ Len(stack) < MaxTemps /\ Allocate(NoField, stack)

\* Mutation of GetField: the object stays below its field.
GetFieldKeepsObject ==
    /\ Runs /\ stack # <<>>
    /\ \/ FieldError(Peek) # Ok /\ Throw(FieldError(Peek), Peek)
       \/ /\ FieldError(Peek) = Ok
          /\ stack' = Append(stack, field[Peek])
          /\ UNCHANGED crash
    /\ UNCHANGED <<globals, heapVars, timeline>>

GetField ==
    /\ Runs /\ stack # <<>>
    /\ \/ FieldError(Peek) # Ok /\ Throw(FieldError(Peek), Peek)
       \/ /\ FieldError(Peek) = Ok
          /\ stack' = Append(Pop(1), field[Peek])
          /\ UNCHANGED crash
    /\ UNCHANGED <<globals, heapVars, timeline>>

\* o.f = v leaves v on the stack and o on top of it; the instruction takes
\* the top for the value and what is below for the object.
SetField ==
    /\ Runs /\ Len(stack) >= 2
    /\ LET val == Peek
           obj == Below
       IN  \/ FieldError(obj) # Ok /\ Throw(FieldError(obj), obj) /\ UNCHANGED field
           \/ /\ FieldError(obj) = Ok
              /\ field' = [field EXCEPT ![obj] = val]
              /\ stack' = Append(Pop(2), val)
              /\ UNCHANGED crash
    /\ UNCHANGED <<globals, nextId, alive, timeline>>

\* Ref asks for a reference, dead or alive.
Ref ==
    /\ Runs /\ stack # <<>>
    /\ \/ RefError(Peek) # Ok /\ Throw(RefError(Peek), Peek)
       \/ RefError(Peek) = Ok /\ UNCHANGED <<stack, crash>>
    /\ UNCHANGED <<globals, heapVars, timeline>>

Deref ==
    /\ Runs /\ stack # <<>>
    /\ \/ DerefError(Peek) # Ok /\ Throw(DerefError(Peek), Peek)
       \/ DerefError(Peek) = Ok /\ UNCHANGED <<stack, crash>>
    /\ UNCHANGED <<globals, heapVars, timeline>>

\* Move puts back what it pops, whatever it is, and the variable that was
\* read keeps it, too.
Move ==
    /\ Runs /\ stack # <<>>
    /\ stack' = Append(Pop(1), Peek)
    /\ UNCHANGED <<globals, heapVars, timeline, crash>>

\* Mutation of Free: the tracker is not told.
FreeUnrecorded ==
    /\ Runs /\ stack # <<>>
    /\ \/ FreeError(Peek) # Ok /\ Throw(FreeError(Peek), Peek) /\ UNCHANGED alive
       \/ /\ FreeError(Peek) = Ok
          /\ alive' = [alive EXCEPT ![Peek] = FALSE]
          /\ stack' = Pop(1)
          /\ UNCHANGED crash
    /\ UNCHANGED <<globals, nextId, field, timeline>>

Free ==
    /\ Runs /\ stack # <<>>
    /\ \/ FreeError(Peek) # Ok /\ Throw(FreeError(Peek), Peek) /\ UNCHANGED <<alive, timeline>>
       \/ /\ FreeError(Peek) = Ok
          /\ alive' = [alive EXCEPT ![Peek] = FALSE]
          /\ timeline' = [timeline EXCEPT ![Peek] = Append(@, "Freed")]
          /\ stack' = Pop(1)
          /\ UNCHANGED crash
    /\ UNCHANGED <<globals, nextId, field>>

\* The end of an expression statement.
PopOperand ==
    /\ Runs /\ stack # <<>>
    /\ stack' = Pop(1)
    /\ UNCHANGED <<globals, heapVars, timeline, crash>>

Next ==
    \/ \E v \in {Nil, Num} : Constant(v)
    \/ \E x \in Vars : GetGlobal(x) \/ SetGlobal(x) \/ DefineGlobal(x)
    \/ NewStruct \/ GetField \/ SetField \/ Ref \/ Deref \/ Move \/ Free \/ PopOperand

Spec == Init /\ [][Next]_vmVars

-----------------------------------------------------------------------------
(* Properties *)

TypeOK ==
    /\ globals \in [Vars -> Value \cup {Undefined}]
    /\ stack \in Seq(Value) /\ Len(stack) <= MaxTemps
    /\ nextId \in 1 .. MaxObjects + 1
    /\ alive \in [Allocated -> BOOLEAN]
    /\ field \in [Allocated -> Value \cup {NoField}]
    /\ timeline \in [Allocated -> Seq({"Allocated", "Freed"})]
    /\ crash \in [kind : CrashKind, object : {0} \cup Ids] \cup {NoCrash}

\* No variable, operand or field names an object that was not allocated, and
\* so no crash says InvalidOperation.
NoInvalidReference ==
    /\ \A x \in Vars : IsHeapRef(globals[x]) => globals[x] \in Allocated
    /\ \A n \in DOMAIN stack : IsHeapRef(stack[n]) => stack[n] \in Allocated
    /\ \A id \in Allocated : IsHeapRef(field[id]) => field[id] \in Allocated
    /\ crash # NoCrash =>
            /\ crash.kind # "InvalidOperation"
            /\ IsHeapRef(crash.object) => crash.object \in Allocated

\* The timeline, which the crash report prints, tells the same as the heap
\* although two calls update them: every object was allocated once, and its
\* free is there, once, exactly if the heap has the object for dead.
TimelineAgreesWithHeap ==
    \A id \in Allocated :
        timeline[id] = IF alive[id] THEN <<"Allocated">> ELSE <<"Allocated", "Freed">>

\* A crash that blames an object is backed by the state the object is in.
CrashIsJustified ==
    crash # NoCrash =>
        /\ crash.kind \in {"UseAfterFree", "DoubleFree"} => ~alive[crash.object]
        /\ crash.kind = "InvalidFieldAccess" =>
                alive[crash.object] /\ field[crash.object] = NoField

\* What the heap, the tracker and the crash say of an object is one story.
HeapIsSound ==
    TypeOK /\ NoInvalidReference /\ TimelineAgreesWithHeap /\ CrashIsJustified

Abstract ==
    INSTANCE ObjectLifecycle
        WITH Content <- Value \cup {NoField},
             born <- nextId - 1,
             released <- {id \in Allocated : ~alive[id]},
             transferred <- {},
             holds <- field

\* The VM, too, implements the lifecycle of objects: none is released twice
\* or written after its release, whatever the order of the instructions.
Lifecycle == Abstract!Spec
=============================================================================
