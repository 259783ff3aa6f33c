------------------------ MODULE TreeWalkMemory_proof ------------------------
(***************************************************************************)
(* Proofs about TreeWalkMemory for every set of variables and every bound. *)
(***************************************************************************)
EXTENDS TreeWalkMemory, SequenceTheorems, TLAPS

----------------------------------------------------------------------------
(* Facts about operands, and about what a check's verdict says. *)

LEMMA FrontOfSeq ==
    ASSUME NEW S, NEW s \in Seq(S), s # << >>
    PROVE  /\ s[Len(s)] \in S
           /\ SubSeq(s, 1, Len(s) - 1) \in Seq(S)
           /\ Len(SubSeq(s, 1, Len(s) - 1)) = Len(s) - 1
           /\ \A n \in 1 .. Len(s) - 1 : SubSeq(s, 1, Len(s) - 1)[n] = s[n]
  <1>1. Len(s) \in Nat /\ Len(s) # 0
    OBVIOUS
  <1>2. \A n \in 1 .. Len(s) : s[n] \in S
    OBVIOUS
  <1> DEFINE k == Len(s) - 1
  <1>3. k \in Nat /\ Len(s) = k + 1
    BY <1>1
  <1>4. \A n \in 1 .. k : s[n] \in S
    BY <1>2, <1>3
  <1>5. /\ SubSeq(s, 1, k) \in Seq(S)
        /\ Len(SubSeq(s, 1, k)) = IF 1 <= k THEN k - 1 + 1 ELSE 0
        /\ \A n \in 1 .. k - 1 + 1 : SubSeq(s, 1, k)[n] = s[1 + n - 1]
    <2> HIDE DEF k
    <2> QED BY <1>3, <1>4, SubSeqProperties
  <1>6. SubSeq(s, 1, k) = SubSeq(s, 1, Len(s) - 1)
    OBVIOUS
  <1> HIDE DEF k
  <1>7. Len(SubSeq(s, 1, k)) = k /\ \A n \in 1 .. k : SubSeq(s, 1, k)[n] = s[n]
    BY <1>3, <1>5
  <1> QED
    BY <1>2, <1>3, <1>5, <1>6, <1>7

LEMMA ConsumeType ==
    ASSUME TypeOK, temps # << >>
    PROVE  /\ Operand \in Value
           /\ Consume(1) \in Seq(Value)
           /\ Len(Consume(1)) = Len(temps) - 1
           /\ Len(temps) - 1 \in 0 .. MaxTemps
           /\ \A n \in DOMAIN Consume(1) : n \in DOMAIN temps /\ Consume(1)[n] = temps[n]
  <1>1. temps \in Seq(Value) /\ Len(temps) \in 0 .. MaxTemps /\ MaxTemps \in Nat
    BY BoundsAssumption DEF TypeOK
  <1>2. Len(temps) # 0
    BY <1>1
  <1>3. /\ Operand \in Value
        /\ Consume(1) \in Seq(Value)
        /\ Len(Consume(1)) = Len(temps) - 1
        /\ \A n \in 1 .. Len(temps) - 1 : Consume(1)[n] = temps[n]
    BY <1>1, FrontOfSeq DEF Operand, Consume
  <1> QED
    BY <1>1, <1>2, <1>3

LEMMA RaiseType ==
    ASSUME TypeOK,
           NEW kind \in CrashKind,
           NEW v,
           kind \notin {"UndefinedVariable", "TypeMismatch",
                        "NullDereference", "InvalidOperation"} => v \in Ids,
           Raise(kind, v)
    PROVE  /\ scopes' \in Seq([Vars -> Value \cup {Undefined}])
           /\ Len(scopes') \in 1 .. MaxScopes
           /\ temps' \in Seq(Value)
           /\ Len(temps') \in 0 .. MaxTemps
           /\ crash' \in [kind : CrashKind, object : {0} \cup Ids] \cup {NoCrash}
  BY BoundsAssumption DEF TypeOK, Raise

LEMMA AllocatedAreIds == ASSUME TypeOK PROVE Allocated \subseteq Ids
  BY BoundsAssumption DEF TypeOK, Allocated, Ids

(* What each check's verdict says of the operand. *)

LEMMA FreeVerdict ==
    ASSUME TypeOK, NEW v \in Value
    PROVE  /\ FreeError(v) \in {Ok, "TypeMismatch", "InvalidOperation", "DoubleFree"}
           /\ FreeError(v) = Ok => v \in Allocated /\ alive[v]
           /\ FreeError(v) = "DoubleFree" => v \in Allocated /\ ~alive[v]
           /\ FreeError(v) = "InvalidOperation" => v \in Ids \ Allocated
  <1>1. v \notin Ids \/ v \in Ids \ Allocated \/ v \in Allocated
    OBVIOUS
  <1> QED
    BY <1>1, AllocatedAreIds DEF TypeOK, FreeError, IsHeapRef, Ok

LEMMA FieldVerdict ==
    ASSUME TypeOK, NEW v \in Value
    PROVE  /\ FieldError(v) \in {Ok, "TypeMismatch", "InvalidOperation",
                                 "UseAfterFree", "InvalidFieldAccess"}
           /\ FieldError(v) = "TypeMismatch" <=> v \notin Ids
           /\ FieldError(v) = Ok => v \in Allocated /\ alive[v] /\ field[v] # NoField
           /\ FieldError(v) = "UseAfterFree" <=> v \in Allocated /\ ~alive[v]
           /\ FieldError(v) = "InvalidFieldAccess" =>
                    v \in Allocated /\ alive[v] /\ field[v] = NoField
           /\ FieldError(v) = "InvalidOperation" => v \in Ids \ Allocated
  <1>1. v \notin Ids \/ v \in Ids \ Allocated \/ v \in Allocated
    OBVIOUS
  <1> QED
    BY <1>1, AllocatedAreIds DEF TypeOK, FieldError, IsHeapRef, Ok

LEMMA RefVerdict ==
    ASSUME TypeOK, NEW v \in Value
    PROVE  /\ RefError(v) \in {Ok, "TypeMismatch", "UseAfterFree"}
           /\ DerefError(v) \in {Ok, "TypeMismatch", "NullDereference", "UseAfterFree"}
           /\ RefError(v) = Ok \/ DerefError(v) = Ok => v \in Allocated /\ alive[v]
           /\ RefError(v) = "UseAfterFree" \/ DerefError(v) = "UseAfterFree" =>
                    v \in Ids /\ ~IsAlive(v)
  BY AllocatedAreIds DEF TypeOK, RefError, DerefError, IsAlive, IsHeapRef, Ok

LEMMA MoveVerdict ==
    ASSUME TypeOK, NEW v \in Value
    PROVE  /\ MoveError(v) \in {Ok, "TypeMismatch", "OwnershipViolation", "UseAfterFree"}
           /\ MoveError(v) = Ok => v \in Allocated /\ alive[v] /\ ~moved[v]
           /\ MoveError(v) = "OwnershipViolation" => v \in Allocated /\ moved[v]
           /\ MoveError(v) = "UseAfterFree" => v \in Ids /\ ~IsAlive(v)
  BY AllocatedAreIds DEF TypeOK, MoveError, RefError, IsMoved, IsAlive, IsHeapRef, Ok

----------------------------------------------------------------------------
(* The parts of the state a handler updates keep their types. *)

Scope == [Vars -> Value \cup {Undefined}]

LEMMA BindType ==
    ASSUME TypeOK, NEW i \in DOMAIN scopes, NEW x \in Vars, NEW v \in Value
    PROVE  /\ [scopes EXCEPT ![i][x] = v] \in Seq(Scope)
           /\ Len([scopes EXCEPT ![i][x] = v]) = Len(scopes)
  <1>1. scopes \in Seq(Scope) /\ i \in 1 .. Len(scopes)
    BY DEF TypeOK, Scope
  <1>2. scopes[i] \in Scope
    BY <1>1
  <1>3. [scopes[i] EXCEPT ![x] = v] \in Scope
    BY <1>2 DEF Scope
  <1> QED
    BY <1>1, <1>3, ExceptSeq

LEMMA NearestType ==
    ASSUME TypeOK, NEW i, NEW x \in Vars, IsNearest(i, x)
    PROVE  i \in DOMAIN scopes /\ scopes[i][x] \in Value
  BY DEF TypeOK, IsNearest

LEMMA PushType ==
    ASSUME TypeOK, NEW v \in Value, Len(temps) < MaxTemps
    PROVE  /\ Append(temps, v) \in Seq(Value)
           /\ Len(Append(temps, v)) \in 0 .. MaxTemps
  BY BoundsAssumption DEF TypeOK

LEMMA ReplaceType ==
    ASSUME TypeOK, NEW v \in Value, temps # << >>
    PROVE  /\ Append(Consume(1), v) \in Seq(Value)
           /\ Len(Append(Consume(1), v)) \in 0 .. MaxTemps
  <1>1. /\ Consume(1) \in Seq(Value)
        /\ Len(Consume(1)) = Len(temps) - 1
        /\ Len(temps) \in 0 .. MaxTemps
        /\ MaxTemps \in Nat
        /\ Len(Consume(1)) \in Nat
    BY ConsumeType, BoundsAssumption DEF TypeOK
  <1>2. /\ Append(Consume(1), v) \in Seq(Value)
        /\ Len(Append(Consume(1), v)) = Len(Consume(1)) + 1
    BY <1>1, AppendProperties
  <1> QED
    BY <1>1, <1>2

LEMMA RecordType ==
    ASSUME TypeOK, NEW id \in Ids, NEW kind \in EventKind
    PROVE  [timeline EXCEPT ![id] = Append(@, kind)] \in [Allocated -> Seq(EventKind)]
  <1>1. timeline \in [Allocated -> Seq(EventKind)]
    BY DEF TypeOK
  <1>2. CASE id \in Allocated
    <2>1. Append(timeline[id], kind) \in Seq(EventKind)
      BY <1>1, <1>2, AppendProperties
    <2> QED
      BY <1>1, <2>1
  <1>3. CASE id \notin Allocated
    <2>1. [timeline EXCEPT ![id] = Append(@, kind)] = timeline
      BY <1>1, <1>3
    <2> QED
      BY <1>1, <2>1
  <1> QED
    BY <1>2, <1>3

LEMMA AllocateType ==
    ASSUME TypeOK, NEW content \in Value \cup {NoField}, NEW rest \in Seq(Value),
           Len(rest) < MaxTemps,
           EvalNew(content, rest)
    PROVE  TypeOK'
  <1>1. nextId \in Ids /\ nextId \in Nat /\ nextId' = nextId + 1 /\ nextId' \in 1 .. MaxObjects + 1
    BY BoundsAssumption DEF TypeOK, EvalNew, Ids
  <1>2. Allocated' = 1 .. nextId /\ \A id \in 1 .. nextId : id = nextId \/ id \in Allocated
    BY <1>1 DEF Allocated
  <1>3. /\ temps' \in Seq(Value)
        /\ Len(temps') \in 0 .. MaxTemps
    BY <1>1, BoundsAssumption DEF EvalNew, Value
  <1>4. /\ alive' \in [Allocated' -> BOOLEAN]
        /\ field' \in [Allocated' -> Value \cup {NoField}]
    BY <1>2 DEF EvalNew, TypeOK
  <1>5. /\ owner' \in [Allocated' -> Vars \cup {Pending}]
        /\ moved' \in [Allocated' -> BOOLEAN]
    BY <1>2 DEF EvalNew, RecordAllocation, TypeOK
  <1>6. timeline' \in [Allocated' -> Seq(EventKind)]
    <2>1. <<"Allocated">> \in Seq(EventKind)
      BY DEF EventKind
    <2> QED
      BY <1>2, <2>1 DEF EvalNew, RecordAllocation, TypeOK
  <1>7. varToHeap' \in [Vars \cup {Pending} -> {0} \cup Ids]
    BY <1>1 DEF EvalNew, RecordAllocation, TypeOK
  <1> QED
    BY <1>1, <1>3, <1>4, <1>5, <1>6, <1>7 DEF TypeOK, EvalNew, Ids, Value

----------------------------------------------------------------------------
(* Type correctness. *)

LEMMA InitType == Init => TypeOK
  BY BoundsAssumption DEF Init, TypeOK, Allocated, Value, Ids

LEMMA EvalType ==
    ASSUME TypeOK, NEW x,
           \/ EvalLiteral \/ EvalNewStruct \/ (x \in Vars /\ EvalIdentifier(x))
    PROVE  TypeOK'
  <1>1. CASE EvalLiteral
    BY <1>1, PushType DEF EvalLiteral, TypeOK, heapVars, ownershipVars, Allocated, Value, Ids
  <1>2. CASE x \in Vars /\ EvalIdentifier(x)
    <2> USE <1>2 DEF EvalIdentifier, heapVars, ownershipVars
    <2>1. CASE ~IsDefined(x) /\ Raise("UndefinedVariable", 0)
      BY <2>1, RaiseType DEF TypeOK, Allocated, CrashKind, Value, Ids
    <2>2. CASE UNCHANGED <<scopes, crash>> /\ \E i \in DOMAIN scopes :
                    IsNearest(i, x) /\ temps' = Append(temps, scopes[i][x])
      BY <2>2, NearestType, PushType DEF TypeOK, Allocated, Value, Ids
    <2> QED
      BY <2>1, <2>2
  <1>3. CASE EvalNewStruct
    <2>1. ASSUME temps # << >>, EvalNew(Operand, Consume(1))
          PROVE  TypeOK'
      <3>1. Len(temps) \in 0 .. MaxTemps /\ MaxTemps \in Nat
        BY BoundsAssumption DEF TypeOK
      <3>2. Operand \in Value /\ Consume(1) \in Seq(Value) /\ Len(Consume(1)) < MaxTemps
        BY <2>1, <3>1, ConsumeType
      <3> QED
        BY <2>1, <3>2, AllocateType
    <2>2. ASSUME Len(temps) < MaxTemps, EvalNew(NoField, temps)
          PROVE  TypeOK'
      BY <2>2, AllocateType DEF TypeOK
    <2> QED
      BY <1>3, <2>1, <2>2 DEF EvalNewStruct
  <1> QED
    BY <1>1, <1>2, <1>3

(* The five handlers that check an operand either raise or record. *)

Blames(kind, v) ==
    /\ kind \in CrashKind
    /\ kind \notin {"UndefinedVariable", "TypeMismatch",
                    "NullDereference", "InvalidOperation"} => v \in Ids

LEMMA VerdictBlames ==
    ASSUME TypeOK, NEW v \in Value
    PROVE  /\ FreeError(v) # Ok => Blames(FreeError(v), v)
           /\ FieldError(v) # Ok => Blames(FieldError(v), v)
           /\ RefError(v) # Ok => Blames(RefError(v), v)
           /\ DerefError(v) # Ok => Blames(DerefError(v), v)
           /\ MoveError(v) # Ok => Blames(MoveError(v), v)
  BY FreeVerdict, FieldVerdict, RefVerdict, MoveVerdict, AllocatedAreIds
     DEF Blames, CrashKind, Ok

LEMMA CrashType ==
    ASSUME TypeOK, NEW kind, NEW v, Blames(kind, v), Raise(kind, v),
           UNCHANGED <<heapVars, owner, moved, varToHeap>>,
           timeline' \in [Allocated -> Seq(EventKind)]
    PROVE  TypeOK'
  BY RaiseType DEF TypeOK, Blames, heapVars, Allocated

LEMMA RefType ==
    ASSUME TypeOK, EvalRef \/ EvalDeref
    PROVE  TypeOK'
  <1>1. Operand \in Value
    BY ConsumeType DEF EvalRef, EvalDeref
  <1>2. CASE /\ UNCHANGED <<heapVars, ownershipVars>>
             /\ \/ RefError(Operand) # Ok /\ Raise(RefError(Operand), Operand)
                \/ DerefError(Operand) # Ok /\ Raise(DerefError(Operand), Operand)
    BY <1>1, <1>2, VerdictBlames, CrashType DEF ownershipVars, TypeOK
  <1>3. CASE /\ UNCHANGED <<heapVars, temps, scopes, crash>>
             /\ RefError(Operand) = Ok \/ DerefError(Operand) = Ok
             /\ RecordEvent(Operand, "Referenced") \/ RecordEvent(Operand, "Dereferenced")
    <2>1. Operand \in Ids
      BY <1>1, <1>3, RefVerdict, AllocatedAreIds
    <2>2. timeline' \in [Allocated -> Seq(EventKind)]
      <3>1. "Referenced" \in EventKind /\ "Dereferenced" \in EventKind
        BY DEF EventKind
      <3>2. CASE RecordEvent(Operand, "Referenced")
        BY <3>1, <3>2, <2>1, RecordType DEF RecordEvent
      <3>3. CASE RecordEvent(Operand, "Dereferenced")
        BY <3>1, <3>3, <2>1, RecordType DEF RecordEvent
      <3> QED
        BY <1>3, <3>2, <3>3
    <2> QED
      BY <1>3, <2>2 DEF TypeOK, RecordEvent, heapVars, Allocated
  <1> QED
    BY <1>2, <1>3 DEF EvalRef, EvalDeref

LEMMA RecordMoveType ==
    ASSUME TypeOK, NEW id \in Ids, NEW from, RecordMove(id, from)
    PROVE  /\ owner' \in [Allocated -> Vars \cup {Pending}]
           /\ moved' \in [Allocated -> BOOLEAN]
           /\ timeline' \in [Allocated -> Seq(EventKind)]
           /\ varToHeap' \in [Vars \cup {Pending} -> {0} \cup Ids]
  BY RecordType DEF TypeOK, RecordMove, EventKind

LEMMA MoveType ==
    ASSUME TypeOK, NEW x, EvalMoveExpr \/ (x \in Vars /\ EvalMoveIdentifier(x))
    PROVE  TypeOK'
  <1>1. CASE x \in Vars /\ EvalMoveIdentifier(x)
    <2>1. PICK i \in DOMAIN scopes :
            /\ IsNearest(i, x)
            /\ \/ /\ MoveError(scopes[i][x]) # Ok
                  /\ Raise(MoveError(scopes[i][x]), scopes[i][x])
                  /\ UNCHANGED ownershipVars
               \/ /\ MoveError(scopes[i][x]) = Ok
                  /\ RecordMove(scopes[i][x], {x})
                  /\ scopes' = [scopes EXCEPT ![i][x] = Nil]
                  /\ temps' = Append(temps, scopes[i][x])
                  /\ UNCHANGED crash
      BY <1>1 DEF EvalMoveIdentifier
    <2> DEFINE v == scopes[i][x]
    <2>2. v \in Value /\ Nil \in Value
      BY <1>1, <2>1, NearestType DEF Value
    <2>3. UNCHANGED heapVars /\ Len(temps) < MaxTemps
      BY <1>1 DEF EvalMoveIdentifier
    <2>4. CASE MoveError(v) # Ok
      BY <2>1, <2>2, <2>3, <2>4, VerdictBlames, CrashType DEF ownershipVars, TypeOK
    <2>5. CASE MoveError(v) = Ok
      <3>1. v \in Ids
        BY <2>2, <2>5, MoveVerdict, AllocatedAreIds
      <3>2. scopes' = [scopes EXCEPT ![i][x] = Nil] /\ temps' = Append(temps, v)
        BY <2>1, <2>5
      <3>3. scopes' \in Seq(Scope) /\ Len(scopes') = Len(scopes)
        BY <1>1, <2>2, <3>2, BindType
      <3>4. temps' \in Seq(Value) /\ Len(temps') \in 0 .. MaxTemps
        BY <2>2, <2>3, <3>2, PushType
      <3> QED
        BY <2>1, <2>3, <2>5, <3>1, <3>3, <3>4, RecordMoveType
           DEF TypeOK, Scope, heapVars, Allocated
    <2> QED
      BY <2>4, <2>5
  <1>2. CASE EvalMoveExpr
    <2>1. Operand \in Value /\ UNCHANGED heapVars
      BY <1>2, ConsumeType DEF EvalMoveExpr
    <2>2. CASE MoveError(Operand) # Ok
      BY <1>2, <2>1, <2>2, VerdictBlames, CrashType DEF EvalMoveExpr, ownershipVars, TypeOK
    <2>3. CASE MoveError(Operand) = Ok
      BY <1>2, <2>1, <2>3, MoveVerdict, AllocatedAreIds, RecordMoveType
         DEF EvalMoveExpr, TypeOK, heapVars, Allocated
    <2> QED
      BY <2>2, <2>3
  <1> QED
    BY <1>1, <1>2

LEMMA FieldType ==
    ASSUME TypeOK, EvalFieldAccess \/ AssignField
    PROVE  TypeOK'
  <1> DEFINE v == Operand
  <1>1. temps # << >> /\ v \in Value
    BY ConsumeType DEF EvalFieldAccess, AssignField
  <1>2. /\ timeline' \in [Allocated -> Seq(EventKind)]
        /\ UNCHANGED <<nextId, alive, owner, moved, varToHeap>>
    <2>1. CASE v \in Ids
      BY <2>1, RecordType
         DEF EvalFieldAccess, AssignField, RecordEvent, IsHeapRef, heapVars, EventKind
    <2>2. CASE v \notin Ids
      BY <2>2 DEF EvalFieldAccess, AssignField, IsHeapRef, heapVars, ownershipVars, TypeOK
    <2> QED
      BY <2>1, <2>2
  <1>3. CASE FieldError(v) # Ok
    <2>1. Raise(FieldError(v), v) /\ UNCHANGED field
      BY <1>3 DEF EvalFieldAccess, AssignField, heapVars
    <2> QED
      BY <1>1, <1>2, <1>3, <2>1, VerdictBlames, CrashType DEF heapVars
  <1>4. CASE FieldError(v) = Ok
    <2>1. v \in Allocated /\ field[v] \in Value
      BY <1>1, <1>4, FieldVerdict DEF TypeOK
    <2>2. CASE EvalFieldAccess
      <3>1. temps' \in Seq(Value) /\ Len(temps') \in 0 .. MaxTemps
        BY <1>1, <1>4, <2>1, <2>2, ReplaceType DEF EvalFieldAccess
      <3> QED
        BY <1>2, <1>4, <2>2, <3>1 DEF EvalFieldAccess, TypeOK, heapVars, Allocated
    <2>3. CASE AssignField
      <3>1. temps' = Consume(1) /\ field' = [field EXCEPT ![v] = temps[Len(temps) - 1]]
        BY <1>4, <2>3 DEF AssignField
      <3>2. temps' \in Seq(Value) /\ Len(temps') \in 0 .. MaxTemps
        BY <1>1, <3>1, ConsumeType
      <3>3. temps[Len(temps) - 1] \in Value
        BY <2>3 DEF AssignField, TypeOK
      <3>4. field' \in [Allocated -> Value \cup {NoField}]
        BY <3>1, <3>3 DEF TypeOK
      <3> QED
        BY <1>2, <1>4, <2>3, <3>2, <3>4 DEF AssignField, TypeOK, Allocated
    <2> QED
      BY <2>2, <2>3
  <1> QED
    BY <1>3, <1>4

LEMMA AssignIdentifierType ==
    ASSUME TypeOK, NEW x \in Vars, AssignIdentifier(x)
    PROVE  TypeOK'
  <1>1. Operand \in Value /\ UNCHANGED <<heapVars, ownershipVars>>
    BY ConsumeType DEF AssignIdentifier
  <1>2. CASE ~IsDefined(x) /\ Raise("UndefinedVariable", 0)
    BY <1>1, <1>2, CrashType DEF Blames, CrashKind, TypeOK, ownershipVars
  <1>3. CASE UNCHANGED <<temps, crash>> /\ \E i \in DOMAIN scopes :
                /\ IsNearest(i, x) /\ scopes' = [scopes EXCEPT ![i][x] = Operand]
    <2>1. PICK i \in DOMAIN scopes : scopes' = [scopes EXCEPT ![i][x] = Operand]
      BY <1>3
    <2>2. scopes' \in Seq(Scope) /\ Len(scopes') = Len(scopes)
      BY <1>1, <2>1, BindType
    <2> QED
      BY <1>1, <1>3, <2>2 DEF TypeOK, Scope, heapVars, ownershipVars, Allocated
  <1> QED
    BY <1>2, <1>3 DEF AssignIdentifier

LEMMA LetType ==
    ASSUME TypeOK, NEW x \in Vars, ExecuteLet(x)
    PROVE  TypeOK'
  <1>1. /\ Operand \in Value /\ UNCHANGED <<heapVars, crash>>
        /\ temps' \in Seq(Value) /\ Len(temps') \in 0 .. MaxTemps
    BY ConsumeType DEF ExecuteLet
  <1>2. scopes' \in Seq(Scope) /\ Len(scopes') = Len(scopes)
    <2>1. Len(scopes) \in DOMAIN scopes
      BY DEF TypeOK
    <2> QED
      BY <1>1, <2>1, BindType DEF ExecuteLet, Define
  <1>3. CASE Operand \in Ids
    <2>1. SetOwner(Operand, x)
      BY <1>3 DEF ExecuteLet, IsHeapRef
    <2>2. /\ owner' \in [Allocated -> Vars \cup {Pending}]
          /\ UNCHANGED <<moved, timeline>>
      BY <2>1 DEF SetOwner, TypeOK
    <2>3. varToHeap' \in [Vars \cup {Pending} -> {0} \cup Ids]
      BY <1>3, <2>1 DEF SetOwner, TypeOK
    <2> QED
      BY <1>1, <1>2, <2>2, <2>3 DEF TypeOK, Scope, heapVars, Allocated
  <1>4. CASE Operand \notin Ids
    BY <1>1, <1>2, <1>4
       DEF ExecuteLet, IsHeapRef, TypeOK, Scope, heapVars, ownershipVars, Allocated
  <1> QED
    BY <1>3, <1>4

LEMMA FreeType ==
    ASSUME TypeOK, ExecuteFree
    PROVE  TypeOK'
  <1>1. /\ Operand \in Value /\ UNCHANGED <<nextId, field>>
        /\ Consume(1) \in Seq(Value) /\ Len(Consume(1)) \in 0 .. MaxTemps
    BY ConsumeType DEF ExecuteFree
  <1>2. CASE FreeError(Operand) # Ok
    BY <1>1, <1>2, VerdictBlames, CrashType DEF ExecuteFree, ownershipVars, heapVars, TypeOK
  <1>3. CASE FreeError(Operand) = Ok
    <2>1. Operand \in Ids /\ "Freed" \in EventKind
      BY <1>1, <1>3, FreeVerdict, AllocatedAreIds DEF EventKind
    <2>2. timeline' \in [Allocated -> Seq(EventKind)]
      BY <1>3, <2>1, RecordType DEF ExecuteFree, RecordEvent
    <2> QED
      BY <1>1, <1>3, <2>2 DEF ExecuteFree, RecordEvent, TypeOK, Allocated
  <1> QED
    BY <1>2, <1>3

LEMMA ScopeType ==
    ASSUME TypeOK, NEW x,
           EnterBlock \/ PopScope \/ (x \in Vars /\ CallFunction(x))
    PROVE  TypeOK'
  <1>1. UNCHANGED <<heapVars, ownershipVars, crash>>
    BY DEF EnterBlock, CallFunction, PopScope, PushScope
  <1>2. temps' \in Seq(Value) /\ Len(temps') \in 0 .. MaxTemps
    BY ConsumeType DEF EnterBlock, CallFunction, PopScope, TypeOK
  <1>3. scopes' \in Seq(Scope) /\ Len(scopes') \in 1 .. MaxScopes
    <2>1. ASSUME NEW scope \in Scope, PushScope(scope)
          PROVE  scopes' \in Seq(Scope) /\ Len(scopes') \in 1 .. MaxScopes
      BY <2>1, BoundsAssumption DEF PushScope, TypeOK, Scope
    <2>2. CASE EnterBlock
      BY <2>1, <2>2 DEF EnterBlock, Scope
    <2>3. CASE x \in Vars /\ CallFunction(x)
      BY <2>1, <2>3, ConsumeType DEF CallFunction, Scope
    <2>4. CASE PopScope
      <3>1. scopes \in Seq(Scope) /\ scopes # << >>
        BY <2>4 DEF PopScope, TypeOK, Scope
      <3> QED
        <4>1. Len(scopes) \in 1 .. MaxScopes /\ Len(scopes) > 1 /\ MaxScopes \in Nat
          BY <2>4, BoundsAssumption DEF PopScope, TypeOK
        <4>2. scopes' \in Seq(Scope) /\ Len(scopes') = Len(scopes) - 1
          BY <2>4, <3>1, FrontOfSeq DEF PopScope
        <4> QED
          BY <4>1, <4>2
    <2> QED
      BY <2>2, <2>3, <2>4
  <1> QED
    BY <1>1, <1>2, <1>3 DEF TypeOK, Scope, heapVars, ownershipVars, Allocated

LEMMA NextType ==
    ASSUME TypeOK, [Next]_vars
    PROVE  TypeOK'
  <1>1. CASE ExecuteExprStmt
    BY <1>1, ConsumeType DEF ExecuteExprStmt, TypeOK, heapVars, ownershipVars, Allocated
  <1>2. CASE NextLine \/ UNCHANGED vars
    BY <1>2 DEF NextLine, vars, TypeOK, heapVars, ownershipVars, Allocated
  <1>3. ASSUME NEW x \in Vars,
               \/ EvalIdentifier(x) \/ EvalMoveIdentifier(x) \/ AssignIdentifier(x)
               \/ ExecuteLet(x) \/ CallFunction(x)
        PROVE  TypeOK'
    BY <1>3, EvalType, MoveType, AssignIdentifierType, LetType, ScopeType
  <1>4. CASE EvalLiteral \/ EvalNewStruct \/ EvalMoveExpr \/ EnterBlock \/ PopScope
    BY <1>4, EvalType, MoveType, ScopeType
  <1> QED
    BY <1>1, <1>2, <1>3, <1>4, RefType, FieldType, FreeType DEF Next, Step

(* Every variable of the memory model keeps its type, however many         *)
(* variables, objects, scopes and operands there are.                      *)
THEOREM TypeCorrect == Spec => []TypeOK
  <1>1. Init => TypeOK
    BY InitType
  <1>2. TypeOK /\ [Next]_vars => TypeOK'
    BY NextType
  <1> QED
    BY <1>1, <1>2, PTL DEF Spec

----------------------------------------------------------------------------
(* No reference is invalid.  The invariant is inductive together with the  *)
(* types: a reference enters the state only through new, and only copies   *)
(* of references already held are made afterwards.                         *)

Held(v) == IsHeapRef(v) => v \in Allocated

LEMMA OperandHeld ==
    ASSUME TypeOK, NoInvalidReference, temps # << >>
    PROVE  /\ Held(Operand)
           /\ \A n \in DOMAIN Consume(1) : Held(Consume(1)[n])
  <1>1. Len(temps) \in DOMAIN temps
    BY DEF TypeOK
  <1> QED
    BY <1>1, ConsumeType DEF NoInvalidReference, Held, Operand

(* A raised crash drops every operand and every scope but the global one,  *)
(* and blames the operand, if anything.                                    *)
LEMMA RaiseHeld ==
    ASSUME TypeOK, NoInvalidReference, NEW kind, NEW v,
           Raise(kind, v), Held(v), kind # "InvalidOperation",
           UNCHANGED <<heapVars, owner, moved, varToHeap>>
    PROVE  NoInvalidReference'
  <1>1. 1 \in DOMAIN scopes
    BY DEF TypeOK
  <1>2. Allocated' = Allocated
    BY DEF heapVars, Allocated
  <1> QED
    BY <1>1, <1>2 DEF NoInvalidReference, Raise, Held, IsHeapRef, heapVars, Ids

LEMMA BindHeld ==
    ASSUME TypeOK, NoInvalidReference,
           NEW i \in DOMAIN scopes, NEW x \in Vars, NEW v, Held(v)
    PROVE  \A j \in DOMAIN [scopes EXCEPT ![i][x] = v] :
             \A y \in Vars : Held([scopes EXCEPT ![i][x] = v][j][y])
  BY DEF NoInvalidReference, TypeOK, Held

LEMMA PushHeld ==
    ASSUME NEW s \in Seq(Value), \A n \in DOMAIN s : Held(s[n]), NEW v \in Value, Held(v)
    PROVE  \A n \in DOMAIN Append(s, v) : Held(Append(s, v)[n])
  <1>1. \A n \in DOMAIN Append(s, v) : n \in DOMAIN s \/ n = Len(s) + 1
    BY AppendProperties
  <1> QED
    BY <1>1, AppendProperties

LEMMA VerdictHeld ==
    ASSUME TypeOK, NEW v \in Value, Held(v)
    PROVE  /\ FreeError(v) # "InvalidOperation"
           /\ FieldError(v) # "InvalidOperation"
           /\ RefError(v) # "InvalidOperation"
           /\ DerefError(v) # "InvalidOperation"
           /\ MoveError(v) # "InvalidOperation"
  BY FreeVerdict, FieldVerdict, RefVerdict, MoveVerdict DEF Held, IsHeapRef, Ok

LEMMA AllocateHeld ==
    ASSUME TypeOK, NoInvalidReference, NEW rest \in Seq(Value),
           \A n \in DOMAIN rest : Held(rest[n]),
           NEW content \in Value \cup {NoField}, Held(content),
           EvalNew(content, rest)
    PROVE  NoInvalidReference'
  <1>1. /\ nextId \in Nat /\ nextId \in Ids /\ nextId \in Value
        /\ Allocated' = Allocated \cup {nextId}
        /\ \A id \in Allocated' : id = nextId \/ id \in Allocated
        /\ nextId \notin Allocated
    BY BoundsAssumption DEF TypeOK, EvalNew, Allocated, Ids, Value
  <1>2. \A w : Held(w) => (IsHeapRef(w) => w \in Allocated')
    BY <1>1 DEF Held
  <1>3. \A n \in DOMAIN temps' : IsHeapRef(temps'[n]) => temps'[n] \in Allocated'
    <2>1. \A n \in DOMAIN temps' : n \in DOMAIN rest \/ n = Len(rest) + 1
      BY <1>1, AppendProperties DEF EvalNew
    <2>2. /\ \A n \in DOMAIN rest : temps'[n] = rest[n]
          /\ temps'[Len(rest) + 1] = nextId
      BY <1>1, AppendProperties DEF EvalNew
    <2> QED
      BY <1>1, <1>2, <2>1, <2>2
  <1>4. \A id \in Allocated' : IsHeapRef(field'[id]) => field'[id] \in Allocated'
    <2>1. \A id \in Allocated' : field'[id] = IF id = nextId THEN content ELSE field[id]
      BY <1>1 DEF EvalNew, Allocated
    <2> QED
      BY <1>1, <1>2, <2>1 DEF Held, NoInvalidReference
  <1>5. \A x \in DOMAIN varToHeap' :
            IsHeapRef(varToHeap'[x]) => varToHeap'[x] \in Allocated'
    <2>1. /\ DOMAIN varToHeap' = DOMAIN varToHeap
          /\ \A x \in DOMAIN varToHeap :
                varToHeap'[x] = nextId \/ varToHeap'[x] = varToHeap[x]
      BY DEF EvalNew, RecordAllocation, TypeOK
    <2> QED
      BY <1>1, <1>2, <2>1 DEF Held, NoInvalidReference
  <1> QED
    BY <1>1, <1>3, <1>4, <1>5 DEF NoInvalidReference, EvalNew

LEMMA MoveHeld ==
    ASSUME TypeOK, NoInvalidReference, NEW id \in Allocated, NEW from,
           RecordMove(id, from), UNCHANGED <<heapVars, crash>>,
           \A i \in DOMAIN scopes' : \A x \in Vars : Held(scopes'[i][x]),
           \A n \in DOMAIN temps' : Held(temps'[n])
    PROVE  NoInvalidReference'
  <1>1. /\ DOMAIN varToHeap' = DOMAIN varToHeap
        /\ \A x \in DOMAIN varToHeap : varToHeap'[x] \in {id, 0, varToHeap[x]}
    BY DEF RecordMove
  <1>2. \A x \in DOMAIN varToHeap' : Held(varToHeap'[x])
    BY <1>1 DEF NoInvalidReference, Held, IsHeapRef, Ids
  <1> QED
    BY <1>2 DEF NoInvalidReference, Held, heapVars, Allocated

LEMMA PushScopeHeld ==
    ASSUME TypeOK, NoInvalidReference, NEW scope \in [Vars -> Value \cup {Undefined}],
           \A y \in Vars : scope[y] # Undefined => Held(scope[y]),
           PushScope(scope),
           \A n \in DOMAIN temps' : Held(temps'[n])
    PROVE  NoInvalidReference'
  <1>1. ~IsHeapRef(Undefined)
    BY NamesAssumption DEF IsHeapRef, Ids
  <1>2. \A i \in DOMAIN scopes' : (i \in DOMAIN scopes /\ scopes'[i] = scopes[i]) \/ scopes'[i] = scope
    BY AppendProperties DEF PushScope, TypeOK
  <1> QED
    BY <1>1, <1>2 DEF NoInvalidReference, PushScope, Held, heapVars, ownershipVars, Allocated

LEMMA NextHeld ==
    ASSUME TypeOK, NoInvalidReference, [Next]_vars
    PROVE  NoInvalidReference'
  <1> DEFINE v == Operand
  <1>1. temps # << >> => v \in Value /\ Held(v)
    BY ConsumeType, OperandHeld
  <1>2. ASSUME NEW kind, NEW w \in Value, Held(w), Raise(kind, w), kind # "InvalidOperation",
               UNCHANGED <<heapVars, owner, moved, varToHeap>>
        PROVE  NoInvalidReference'
    BY <1>2, RaiseHeld
  <1>3. CASE EvalLiteral
    <2>1. ~IsHeapRef(Nil) /\ ~IsHeapRef(Num)
      BY NamesAssumption DEF IsHeapRef, Ids
    <2> QED
      BY <1>3, <2>1, PushHeld
         DEF EvalLiteral, NoInvalidReference, TypeOK, Held, Value, heapVars, ownershipVars, Allocated
  <1>4. CASE EvalNewStruct
    <2>1. ASSUME temps # << >>, EvalNew(v, Consume(1)) PROVE NoInvalidReference'
      BY <1>1, <2>1, ConsumeType, OperandHeld, AllocateHeld
    <2>2. ASSUME EvalNew(NoField, temps) PROVE NoInvalidReference'
      <3>1. Held(NoField)
        BY NamesAssumption DEF Held, IsHeapRef, Ids
      <3> QED
        BY <2>2, <3>1, AllocateHeld DEF NoInvalidReference, Held, TypeOK
    <2> QED
      BY <1>4, <2>1, <2>2 DEF EvalNewStruct
  <1>5. CASE EvalRef \/ EvalDeref
    BY <1>1, <1>5, VerdictHeld, RaiseHeld
       DEF EvalRef, EvalDeref, RecordEvent, NoInvalidReference, heapVars, ownershipVars, Allocated
  <1>6. CASE EvalMoveExpr
    <2>1. CASE MoveError(v) # Ok
      BY <1>1, <1>6, <2>1, VerdictHeld, RaiseHeld DEF EvalMoveExpr, ownershipVars
    <2>2. CASE MoveError(v) = Ok
      <3>1. v \in Allocated /\ RecordMove(v, {}) /\ UNCHANGED <<heapVars, temps, scopes, crash>>
        BY <1>1, <1>6, <2>2, MoveVerdict DEF EvalMoveExpr
      <3> QED
        BY <3>1, MoveHeld DEF NoInvalidReference, Held
    <2> QED
      BY <2>1, <2>2
  <1>7. CASE EvalFieldAccess
    <2>1. CASE FieldError(v) # Ok
      BY <1>1, <1>7, <2>1, VerdictHeld, RaiseHeld
         DEF EvalFieldAccess, RecordEvent, ownershipVars
    <2>2. CASE FieldError(v) = Ok
      <3>1. field[v] \in Value /\ Held(field[v])
        BY <1>1, <1>7, <2>2, FieldVerdict DEF EvalFieldAccess, NoInvalidReference, TypeOK, Held
      <3>2. \A n \in DOMAIN temps' : Held(temps'[n])
        BY <1>7, <2>2, <3>1, ConsumeType, OperandHeld, PushHeld DEF EvalFieldAccess
      <3>3. UNCHANGED <<heapVars, scopes, crash, varToHeap>>
        BY <1>7, <2>2 DEF EvalFieldAccess, RecordEvent, ownershipVars
      <3> QED
        BY <3>2, <3>3 DEF NoInvalidReference, Held, heapVars, Allocated
    <2> QED
      BY <2>1, <2>2
  <1>8. CASE AssignField
    <2>1. CASE FieldError(v) # Ok
      BY <1>1, <1>8, <2>1, VerdictHeld, RaiseHeld
         DEF AssignField, RecordEvent, heapVars, ownershipVars
    <2>2. CASE FieldError(v) = Ok
      <3>1. temps # << >> /\ Len(temps) - 1 \in DOMAIN temps
        BY <1>8 DEF AssignField, TypeOK
      <3>2. UNCHANGED <<nextId, scopes, crash, varToHeap>>
        BY <1>8, <2>2 DEF AssignField, RecordEvent, ownershipVars
      <3>3. \A n \in DOMAIN temps' : Held(temps'[n])
        BY <1>8, <2>2, <3>1, OperandHeld DEF AssignField
      <3>4. \A id \in Allocated : Held(field'[id])
        BY <1>8, <2>2, <3>1 DEF AssignField, NoInvalidReference, TypeOK, Held
      <3> QED
        BY <3>2, <3>3, <3>4 DEF NoInvalidReference, Held, Allocated
    <2> QED
      BY <2>1, <2>2
  <1>9. CASE ExecuteFree
    <2>1. CASE FreeError(v) # Ok
      BY <1>1, <1>9, <2>1, VerdictHeld, RaiseHeld
         DEF ExecuteFree, RecordEvent, heapVars, ownershipVars
    <2>2. CASE FreeError(v) = Ok
      BY <1>9, <2>2, OperandHeld
         DEF ExecuteFree, RecordEvent, NoInvalidReference, Held, Allocated
    <2> QED
      BY <2>1, <2>2
  <1>10. CASE ExecuteExprStmt
    BY <1>10, OperandHeld
       DEF ExecuteExprStmt, NoInvalidReference, Held, heapVars, ownershipVars, Allocated
  <1>11. ASSUME NEW x \in Vars, EvalIdentifier(x)
         PROVE  NoInvalidReference'
    <2>1. CASE Raise("UndefinedVariable", 0)
      BY <1>11, <2>1, RaiseHeld
         DEF EvalIdentifier, ownershipVars, Held, IsHeapRef, Ids
    <2>2. CASE UNCHANGED <<scopes, crash>> /\ \E i \in DOMAIN scopes :
                    IsNearest(i, x) /\ temps' = Append(temps, scopes[i][x])
      <3>1. PICK i \in DOMAIN scopes :
                    IsNearest(i, x) /\ temps' = Append(temps, scopes[i][x])
        BY <2>2
      <3>2. scopes[i][x] \in Value /\ Held(scopes[i][x])
        BY <3>1, NearestType DEF NoInvalidReference, Held
      <3>3. \A n \in DOMAIN temps' : Held(temps'[n])
        BY <3>1, <3>2, PushHeld DEF TypeOK, NoInvalidReference, Held
      <3> QED
        BY <1>11, <2>2, <3>3
           DEF EvalIdentifier, NoInvalidReference, Held, heapVars, ownershipVars, Allocated
    <2> QED
      BY <1>11, <2>1, <2>2 DEF EvalIdentifier
  <1>12. ASSUME NEW x \in Vars, EvalMoveIdentifier(x)
         PROVE  NoInvalidReference'
    <2>1. PICK i \in DOMAIN scopes :
            /\ IsNearest(i, x)
            /\ \/ /\ MoveError(scopes[i][x]) # Ok
                  /\ Raise(MoveError(scopes[i][x]), scopes[i][x])
                  /\ UNCHANGED ownershipVars
               \/ /\ MoveError(scopes[i][x]) = Ok
                  /\ RecordMove(scopes[i][x], {x})
                  /\ scopes' = [scopes EXCEPT ![i][x] = Nil]
                  /\ temps' = Append(temps, scopes[i][x])
                  /\ UNCHANGED crash
      BY <1>12 DEF EvalMoveIdentifier
    <2> DEFINE w == scopes[i][x]
    <2>2. w \in Value /\ Held(w) /\ UNCHANGED heapVars
      BY <1>12, <2>1, NearestType DEF NoInvalidReference, Held, EvalMoveIdentifier
    <2>3. CASE MoveError(w) # Ok
      BY <2>1, <2>2, <2>3, VerdictHeld, RaiseHeld DEF ownershipVars
    <2>4. CASE MoveError(w) = Ok
      <3>1. w \in Allocated /\ RecordMove(w, {x})
        BY <2>1, <2>2, <2>4, MoveVerdict
      <3>2. Held(Nil)
        BY NamesAssumption DEF Held, IsHeapRef, Ids
      <3>3. \A j \in DOMAIN scopes' : \A y \in Vars : Held(scopes'[j][y])
        <4>1. scopes' = [scopes EXCEPT ![i][x] = Nil]
          BY <2>1, <2>4
        <4> QED
          BY <3>2, <4>1, BindHeld
      <3>4. \A n \in DOMAIN temps' : Held(temps'[n])
        BY <2>1, <2>2, <2>4, PushHeld DEF TypeOK, NoInvalidReference, Held
      <3> QED
        BY <2>1, <2>2, <2>4, <3>1, <3>3, <3>4, MoveHeld
    <2> QED
      BY <2>3, <2>4
  <1>13. ASSUME NEW x \in Vars, AssignIdentifier(x)
         PROVE  NoInvalidReference'
    <2>1. CASE Raise("UndefinedVariable", 0)
      BY <1>13, <2>1, RaiseHeld
         DEF AssignIdentifier, ownershipVars, Held, IsHeapRef, Ids
    <2>2. CASE UNCHANGED <<temps, crash>> /\ \E i \in DOMAIN scopes :
                    scopes' = [scopes EXCEPT ![i][x] = v]
      <3>1. \A j \in DOMAIN scopes' : \A y \in Vars : Held(scopes'[j][y])
        BY <1>1, <1>13, <2>2, BindHeld DEF AssignIdentifier
      <3> QED
        BY <1>13, <2>2, <3>1
           DEF AssignIdentifier, NoInvalidReference, Held, heapVars, ownershipVars, Allocated
    <2> QED
      BY <1>13, <2>1, <2>2 DEF AssignIdentifier
  <1>14. ASSUME NEW x \in Vars, ExecuteLet(x)
         PROVE  NoInvalidReference'
    <2>1. /\ v \in Value /\ Held(v)
          /\ UNCHANGED <<heapVars, crash>>
          /\ \A n \in DOMAIN temps' : Held(temps'[n])
      BY <1>1, <1>14, OperandHeld DEF ExecuteLet
    <2>2. Len(scopes) \in DOMAIN scopes
      BY DEF TypeOK
    <2>3. \A j \in DOMAIN scopes' : \A y \in Vars : Held(scopes'[j][y])
      BY <1>14, <2>1, <2>2, BindHeld DEF ExecuteLet, Define
    <2>4. /\ DOMAIN varToHeap' = DOMAIN varToHeap
          /\ \A y \in DOMAIN varToHeap : varToHeap'[y] \in {v, 0, varToHeap[y]}
      BY <1>14 DEF ExecuteLet, SetOwner, ownershipVars, TypeOK
    <2>5. \A y \in DOMAIN varToHeap' : Held(varToHeap'[y])
      BY <2>1, <2>4 DEF NoInvalidReference, Held, IsHeapRef, Ids
    <2> QED
      BY <2>1, <2>3, <2>5 DEF NoInvalidReference, Held, heapVars, Allocated
  <1>15. ASSUME NEW x \in Vars, CallFunction(x)
         PROVE  NoInvalidReference'
    <2>1. temps # << >> /\ \A n \in DOMAIN temps' : Held(temps'[n])
      BY <1>15, OperandHeld DEF CallFunction
    <2>2. PushScope([y \in Vars |-> IF y = x THEN v ELSE Undefined])
      BY <1>15 DEF CallFunction
    <2> QED
      BY <1>1, <2>1, <2>2, PushScopeHeld
  <1>16. CASE EnterBlock
    BY <1>16, PushScopeHeld DEF EnterBlock, NoInvalidReference, Held
  <1>17. CASE PopScope
    <2>1. /\ scopes \in Seq(Scope) /\ scopes # << >>
          /\ scopes' = SubSeq(scopes, 1, Len(scopes) - 1)
          /\ UNCHANGED <<temps, crash, heapVars, varToHeap>>
      BY <1>17 DEF PopScope, TypeOK, Scope, ownershipVars
    <2>2. \A i \in DOMAIN scopes' : i \in DOMAIN scopes /\ scopes'[i] = scopes[i]
      BY <2>1, FrontOfSeq
    <2> QED
      BY <2>1, <2>2 DEF NoInvalidReference, heapVars, Allocated
  <1>18. CASE NextLine \/ UNCHANGED vars
    BY <1>18 DEF NextLine, vars, NoInvalidReference, heapVars, ownershipVars, Allocated
  <1> QED
    BY <1>3, <1>4, <1>5, <1>6, <1>7, <1>8, <1>9, <1>10, <1>11, <1>12, <1>13, <1>14,
       <1>15, <1>16, <1>17, <1>18 DEF Next, Step

LEMMA InitHeld == Init => NoInvalidReference
  BY NamesAssumption DEF Init, NoInvalidReference, IsHeapRef, Ids, Allocated

(* A program never holds a reference that was not allocated, so free(),    *)
(* read_field() and write_field() never take their "invalid heap           *)
(* reference" branch, whatever the program does.                           *)
THEOREM NoReferenceIsInvalid == Spec => []NoInvalidReference
  <1>1. Init => TypeOK /\ NoInvalidReference
    BY InitType, InitHeld
  <1>2. TypeOK /\ NoInvalidReference /\ [Next]_vars => TypeOK' /\ NoInvalidReference'
    BY NextType, NextHeld
  <1> QED
    BY <1>1, <1>2, PTL DEF Spec

----------------------------------------------------------------------------
(* The ownership tracker's timelines against the simulated heap.           *)
(*                                                                         *)
(* The inductive invariant says of each object that its timeline, its      *)
(* alive flag and its moved flag are sound together (SoundObject), and of  *)
(* the crash in flight that the object it blames deserves it.  Each step   *)
(* of the interpreter has one of three effects on the tracker: none, an    *)
(* allocation, or one event of one object (StepEffect).                    *)

(* One object. *)

Shows(tl, kind) == \E n \in DOMAIN tl : tl[n] = kind

Sound(tl, live, gone) ==
    /\ tl # << >>
    /\ \A n \in DOMAIN tl : tl[n] = "Allocated" <=> n = 1
    /\ live <=> ~Shows(tl, "Freed")
    /\ gone <=> Shows(tl, "Moved")
    /\ \A m, n \in DOMAIN tl :
        m < n => /\ tl[m] = "Freed" => tl[n] \in {"FieldRead", "FieldWrite"}
                 /\ tl[m] = "Moved" => tl[n] # "Moved"

(* The events a handler may add to the timeline of an object. *)
Admissible(kind, live, gone) ==
    /\ kind \in EventKind \ {"Allocated"}
    /\ live \/ kind \in {"FieldRead", "FieldWrite"}
    /\ kind = "Moved" => ~gone

LEMMA AppendSound ==
    ASSUME NEW tl \in Seq(EventKind), NEW live \in BOOLEAN, NEW gone \in BOOLEAN,
           Sound(tl, live, gone), NEW kind, Admissible(kind, live, gone)
    PROVE  Sound(Append(tl, kind), live /\ kind # "Freed", gone \/ kind = "Moved")
  <1> DEFINE new == Append(tl, kind)
  <1>1. /\ Len(tl) \in Nat /\ DOMAIN tl = 1 .. Len(tl)
        /\ DOMAIN new = 1 .. Len(tl) + 1
        /\ \A n \in DOMAIN tl : new[n] = tl[n]
        /\ new[Len(tl) + 1] = kind
        /\ new # << >>
    BY AppendProperties DEF Admissible
  <1> HIDE DEF new
  <1>2. \A n \in DOMAIN new : n \in DOMAIN tl \/ n = Len(tl) + 1
    BY <1>1
  <1>3. Len(tl) # 0 /\ Len(tl) + 1 # 1 /\ Len(tl) + 1 \notin DOMAIN tl
    BY <1>1 DEF Sound
  <1>4. \A k : Shows(new, k) <=> Shows(tl, k) \/ k = kind
    BY <1>1, <1>2 DEF Shows
  <1>5. \A n \in DOMAIN new : new[n] = "Allocated" <=> n = 1
    BY <1>1, <1>2, <1>3 DEF Sound, Admissible
  <1>6. /\ live /\ kind # "Freed" <=> ~Shows(new, "Freed")
        /\ gone \/ kind = "Moved" <=> Shows(new, "Moved")
    BY <1>4 DEF Sound
  <1>7. ASSUME NEW m \in DOMAIN new, NEW n \in DOMAIN new, m < n
        PROVE  /\ new[m] = "Freed" => new[n] \in {"FieldRead", "FieldWrite"}
               /\ new[m] = "Moved" => new[n] # "Moved"
    <2>1. m \in DOMAIN tl /\ new[m] = tl[m]
      BY <1>1, <1>2, <1>7
    <2>2. CASE n \in DOMAIN tl
      BY <1>1, <1>7, <2>1, <2>2 DEF Sound
    <2>3. CASE n = Len(tl) + 1
      <3>1. new[n] = kind
        BY <1>1, <2>3
      <3>2. /\ tl[m] = "Freed" => ~live
            /\ tl[m] = "Moved" => gone
        BY <2>1 DEF Sound, Shows
      <3> QED
        BY <2>1, <3>1, <3>2 DEF Admissible
    <2> QED
      BY <1>2, <2>2, <2>3
  <1>8. Sound(new, live /\ kind # "Freed", gone \/ kind = "Moved")
    BY <1>1, <1>5, <1>6, <1>7 DEF Sound
  <1> QED
    BY <1>8 DEF new

LEMMA FreshSound == Sound(<<"Allocated">>, TRUE, FALSE)
  BY DEF Sound, Shows

----------------------------------------------------------------------------
(* What a step does to the tracker and to the flags of the objects. *)

Untouched == UNCHANGED <<nextId, alive, moved, timeline>>

Born ==
    /\ nextId' = nextId + 1
    /\ alive' = [id \in 1 .. nextId |-> IF id = nextId THEN TRUE ELSE alive[id]]
    /\ moved' = [id \in 1 .. nextId |-> IF id = nextId THEN FALSE ELSE moved[id]]
    /\ timeline' = [id \in 1 .. nextId |-> IF id = nextId THEN <<"Allocated">> ELSE timeline[id]]

Event(id, kind) ==
    /\ Admissible(kind, alive[id], moved[id])
    /\ nextId' = nextId
    /\ timeline' = [timeline EXCEPT ![id] = Append(@, kind)]
    /\ alive' = [alive EXCEPT ![id] = @ /\ kind # "Freed"]
    /\ moved' = [moved EXCEPT ![id] = @ \/ kind = "Moved"]
    /\ ~alive[id] => crash' = [kind |-> "UseAfterFree", object |-> id]

(* The crash blames its object rightly. *)
Deserved ==
    crash # NoCrash =>
        LET id == crash.object IN
        /\ crash.kind = "DoubleFree" => id \in Allocated /\ ~alive[id]
        /\ crash.kind = "UseAfterFree" => id \in Allocated /\ ~alive[id]
        /\ crash.kind = "OwnershipViolation" => id \in Allocated /\ moved[id]
        /\ crash.kind = "InvalidFieldAccess" =>
                id \in Allocated /\ alive[id] /\ field[id] = NoField

LEMMA EventKeepsFlags ==
    ASSUME TypeOK, NEW id \in Allocated, NEW kind \in EventKind \ {"Allocated", "Freed", "Moved"}
    PROVE  /\ [alive EXCEPT ![id] = @ /\ kind # "Freed"] = alive
           /\ [moved EXCEPT ![id] = @ \/ kind = "Moved"] = moved
  <1>1. /\ alive \in [Allocated -> BOOLEAN] /\ moved \in [Allocated -> BOOLEAN]
        /\ kind # "Freed" /\ kind # "Moved"
    BY DEF TypeOK
  <1>2. alive[id] \in BOOLEAN /\ moved[id] \in BOOLEAN
    BY <1>1
  <1>3. (alive[id] /\ kind # "Freed") = alive[id] /\ (moved[id] \/ kind = "Moved") = moved[id]
    BY <1>1, <1>2
  <1>4. [alive EXCEPT ![id] = alive[id]] = alive /\ [moved EXCEPT ![id] = moved[id]] = moved
    BY <1>1
  <1> QED
    BY <1>3, <1>4

(* A handler that raises leaves the flags alone and blames rightly. *)
LEMMA RaiseDeserved ==
    ASSUME TypeOK, NEW kind, NEW v, Raise(kind, v), UNCHANGED <<heapVars, moved>>,
           kind \in {"DoubleFree", "UseAfterFree"} => v \in Allocated /\ ~alive[v],
           kind = "OwnershipViolation" => v \in Allocated /\ moved[v],
           kind = "InvalidFieldAccess" => v \in Allocated /\ alive[v] /\ field[v] = NoField
    PROVE  Deserved'
  BY DEF Raise, Deserved, heapVars, Allocated

LEMMA OperandOfCheck ==
    ASSUME TypeOK, NoInvalidReference, temps # << >>
    PROVE  Operand \in Value /\ (Operand \in Ids => Operand \in Allocated)
  BY ConsumeType, OperandHeld DEF Held, IsHeapRef

StepEffect ==
    /\ \/ Untouched
       \/ Born
       \/ \E id \in Allocated : \E kind \in EventKind : Event(id, kind)
    /\ Deserved'

LEMMA RefEffect ==
    ASSUME TypeOK, NoInvalidReference, EvalRef \/ EvalDeref
    PROVE  StepEffect
  <1>1. /\ Operand \in Value /\ (Operand \in Ids => Operand \in Allocated)
        /\ crash = NoCrash
    BY OperandOfCheck DEF EvalRef, EvalDeref, Running
  <1>2. CASE /\ UNCHANGED <<heapVars, ownershipVars>>
             /\ \/ RefError(Operand) # Ok /\ Raise(RefError(Operand), Operand)
                \/ DerefError(Operand) # Ok /\ Raise(DerefError(Operand), Operand)
    <2>1. Untouched
      BY <1>2 DEF Untouched, heapVars, ownershipVars
    <2>2. Deserved'
      BY <1>1, <1>2, RefVerdict, RaiseDeserved DEF ownershipVars, IsAlive
    <2> QED
      BY <2>1, <2>2 DEF StepEffect
  <1>3. ASSUME NEW kind \in {"Referenced", "Dereferenced"}, RecordEvent(Operand, kind),
               RefError(Operand) = Ok \/ DerefError(Operand) = Ok,
               UNCHANGED <<heapVars, temps, scopes, crash>>
        PROVE  StepEffect
    <2>1. Operand \in Allocated /\ alive[Operand]
      BY <1>1, <1>3, RefVerdict
    <2>2. kind \in EventKind \ {"Allocated", "Freed", "Moved"}
      BY <1>3 DEF EventKind
    <2>3. Event(Operand, kind)
      BY <1>3, <2>1, <2>2, EventKeepsFlags DEF Event, Admissible, RecordEvent, heapVars
    <2>4. Deserved'
      BY <1>1, <1>3 DEF Deserved
    <2> QED
      BY <2>1, <2>2, <2>3, <2>4 DEF StepEffect
  <1> QED
    BY <1>2, <1>3 DEF EvalRef, EvalDeref

LEMMA MoveEffect ==
    ASSUME TypeOK, NoInvalidReference, NEW v \in Value, Held(v), NEW from, Running,
           UNCHANGED heapVars,
           \/ MoveError(v) # Ok /\ Raise(MoveError(v), v) /\ UNCHANGED ownershipVars
           \/ MoveError(v) = Ok /\ RecordMove(v, from) /\ UNCHANGED crash
    PROVE  StepEffect
  <1>1. CASE MoveError(v) # Ok
    <2>1. Untouched
      BY <1>1 DEF Untouched, heapVars, ownershipVars
    <2>2. Deserved'
      BY <1>1, MoveVerdict, RaiseDeserved DEF ownershipVars, IsAlive, Held, IsHeapRef
    <2> QED
      BY <2>1, <2>2 DEF StepEffect
  <1>2. CASE MoveError(v) = Ok
    <2>1. /\ v \in Allocated /\ alive[v] /\ ~moved[v] /\ "Moved" \in EventKind
          /\ RecordMove(v, from) /\ UNCHANGED crash
      BY <1>2, MoveVerdict DEF EventKind
    <2>2. [alive EXCEPT ![v] = @ /\ "Moved" # "Freed"] = alive
      BY <2>1 DEF TypeOK
    <2>3. Event(v, "Moved")
      BY <2>1, <2>2 DEF Event, Admissible, RecordMove, EventKind, heapVars, TypeOK
    <2>4. Deserved'
      BY <2>1 DEF Deserved, Running
    <2> QED
      BY <2>1, <2>3, <2>4 DEF StepEffect
  <1> QED
    BY <1>1, <1>2

LEMMA FieldEffect ==
    ASSUME TypeOK, NoInvalidReference, EvalFieldAccess \/ AssignField
    PROVE  StepEffect
  <1> DEFINE v == Operand
  <1>1. /\ v \in Value /\ (v \in Ids => v \in Allocated)
        /\ crash = NoCrash
        /\ UNCHANGED <<nextId, alive, moved>>
    BY OperandOfCheck
       DEF EvalFieldAccess, AssignField, Running, RecordEvent, heapVars, ownershipVars
  <1>2. Deserved'
    <2>1. CASE FieldError(v) # Ok
      BY <1>1, <2>1, FieldVerdict, RaiseDeserved
         DEF EvalFieldAccess, AssignField, heapVars
    <2>2. CASE FieldError(v) = Ok
      BY <1>1, <2>2 DEF EvalFieldAccess, AssignField, Deserved
    <2> QED
      BY <2>1, <2>2
  <1>3. CASE v \notin Ids
    <2>1. Untouched
      BY <1>1, <1>3 DEF EvalFieldAccess, AssignField, IsHeapRef, ownershipVars, Untouched
    <2> QED
      BY <1>2, <2>1 DEF StepEffect
  <1>4. CASE v \in Ids
    <2>1. PICK kind \in {"FieldRead", "FieldWrite"} : RecordEvent(v, kind)
      BY <1>4 DEF EvalFieldAccess, AssignField, IsHeapRef
    <2>2. v \in Allocated /\ kind \in EventKind \ {"Allocated", "Freed", "Moved"}
      BY <1>1, <1>4 DEF EventKind
    <2>3. ~alive[v] => crash' = [kind |-> "UseAfterFree", object |-> v]
      <3>1. ~alive[v] => FieldError(v) = "UseAfterFree" /\ FieldError(v) # Ok
        BY <1>1, <2>2, FieldVerdict DEF Ok
      <3> QED
        BY <3>1 DEF EvalFieldAccess, AssignField, Raise
    <2>4. Event(v, kind)
      BY <1>1, <2>1, <2>2, <2>3, EventKeepsFlags DEF Event, Admissible, RecordEvent
    <2> QED
      BY <1>2, <2>2, <2>4 DEF StepEffect
  <1> QED
    BY <1>3, <1>4

LEMMA FreeEffect ==
    ASSUME TypeOK, NoInvalidReference, ExecuteFree
    PROVE  StepEffect
  <1> DEFINE v == Operand
  <1>1. /\ v \in Value /\ (v \in Ids => v \in Allocated)
        /\ crash = NoCrash
        /\ UNCHANGED <<nextId, field, moved>>
    BY OperandOfCheck DEF ExecuteFree, Running, RecordEvent, ownershipVars
  <1>2. CASE FreeError(v) # Ok
    <2>1. Untouched /\ UNCHANGED heapVars
      BY <1>1, <1>2 DEF ExecuteFree, Untouched, heapVars, ownershipVars
    <2>2. Deserved'
      BY <1>1, <1>2, <2>1, FreeVerdict, RaiseDeserved DEF ExecuteFree, Untouched
    <2> QED
      BY <2>1, <2>2 DEF StepEffect
  <1>3. CASE FreeError(v) = Ok
    <2>1. /\ v \in Allocated /\ alive[v] /\ "Freed" \in EventKind
          /\ alive' = [alive EXCEPT ![v] = FALSE]
          /\ RecordEvent(v, "Freed") /\ UNCHANGED crash
      BY <1>1, <1>3, FreeVerdict DEF ExecuteFree, EventKind
    <2>2. [moved EXCEPT ![v] = @ \/ "Freed" = "Moved"] = moved
      BY <2>1 DEF TypeOK
    <2>3. Event(v, "Freed")
      BY <1>1, <2>1, <2>2 DEF Event, Admissible, RecordEvent, EventKind
    <2>4. Deserved'
      BY <1>1, <2>1 DEF Deserved
    <2> QED
      BY <2>1, <2>3, <2>4 DEF StepEffect
  <1> QED
    BY <1>2, <1>3

(* The remaining handlers raise nothing but UndefinedVariable. *)
LEMMA QuietEffect ==
    ASSUME TypeOK, NoInvalidReference, Deserved, NEW x,
           \/ EvalLiteral \/ EvalIdentifier(x) \/ AssignIdentifier(x) \/ ExecuteExprStmt
           \/ ExecuteLet(x) \/ EnterBlock \/ CallFunction(x) \/ PopScope \/ NextLine
           \/ UNCHANGED vars
    PROVE  StepEffect
  <1>1. UNCHANGED <<heapVars, moved, timeline>>
    BY DEF EvalLiteral, EvalIdentifier, AssignIdentifier, ExecuteExprStmt, ExecuteLet, SetOwner,
           EnterBlock, CallFunction, PopScope, PushScope, NextLine, vars, ownershipVars
  <1>2. \/ crash' = NoCrash
        \/ crash' = crash
        \/ Raise("UndefinedVariable", 0)
    BY DEF EvalLiteral, EvalIdentifier, AssignIdentifier, ExecuteExprStmt, ExecuteLet,
           EnterBlock, CallFunction, PopScope, PushScope, NextLine, vars
  <1>3. Untouched
    BY <1>1 DEF Untouched, heapVars
  <1>4. CASE crash' = NoCrash \/ crash' = crash
    BY <1>1, <1>3, <1>4 DEF StepEffect, Deserved, heapVars, Allocated
  <1>5. CASE Raise("UndefinedVariable", 0)
    BY <1>1, <1>3, <1>5, RaiseDeserved DEF StepEffect
  <1> QED
    BY <1>2, <1>4, <1>5

LEMMA NewEffect ==
    ASSUME TypeOK, EvalNewStruct
    PROVE  StepEffect
  <1>1. PICK content, rest : EvalNew(content, rest)
    BY DEF EvalNewStruct
  <1>2. crash = NoCrash /\ crash' = crash
    BY <1>1 DEF EvalNew, Running
  <1>3. Born
    BY <1>1 DEF EvalNew, RecordAllocation, Born
  <1> QED
    BY <1>2, <1>3 DEF StepEffect, Deserved

LEMMA NextEffect ==
    ASSUME TypeOK, NoInvalidReference, Deserved, [Next]_vars
    PROVE  StepEffect
  <1>1. ASSUME NEW x \in Vars, EvalMoveIdentifier(x)
        PROVE  StepEffect
    <2>1. PICK i \in DOMAIN scopes :
            /\ IsNearest(i, x)
            /\ \/ /\ MoveError(scopes[i][x]) # Ok
                  /\ Raise(MoveError(scopes[i][x]), scopes[i][x])
                  /\ UNCHANGED ownershipVars
               \/ /\ MoveError(scopes[i][x]) = Ok
                  /\ RecordMove(scopes[i][x], {x})
                  /\ UNCHANGED crash
      BY <1>1 DEF EvalMoveIdentifier
    <2>2. /\ scopes[i][x] \in Value /\ Held(scopes[i][x])
          /\ Running /\ UNCHANGED heapVars
      BY <1>1, <2>1, NearestType DEF NoInvalidReference, Held, EvalMoveIdentifier
    <2> QED
      BY <2>1, <2>2, MoveEffect
  <1>2. CASE EvalMoveExpr
    <2>1. Operand \in Value /\ Held(Operand)
      BY <1>2, OperandOfCheck DEF EvalMoveExpr, Held, IsHeapRef
    <2> QED
      BY <1>2, <2>1, MoveEffect DEF EvalMoveExpr
  <1> QED
    BY <1>1, <1>2, NewEffect, RefEffect, FieldEffect, FreeEffect, QuietEffect DEF Next, Step

----------------------------------------------------------------------------
(* The invariant. *)

SoundObject(id) == Sound(timeline[id], alive[id], moved[id])

(* In a file's run the field access after a free is the last event.        *)
Survived(id) ==
    \A m, n \in DOMAIN timeline[id] :
        timeline[id][m] = "Freed" /\ m < n =>
            /\ n = Len(timeline[id])
            /\ crash = [kind |-> "UseAfterFree", object |-> id]

TimelineInv ==
    /\ TypeOK
    /\ NoInvalidReference
    /\ Deserved
    /\ \A id \in Allocated : SoundObject(id)
    /\ NoAccessSurvivesFree

LEMMA SoundStep ==
    ASSUME TypeOK, \A id \in Allocated : SoundObject(id), StepEffect
    PROVE  (\A id \in Allocated : SoundObject(id))'
  <1>1. CASE Untouched
    BY <1>1 DEF Untouched, SoundObject, Allocated
  <1>2. CASE Born
    <2>1. nextId \in Nat /\ Allocated' = 1 .. nextId
          /\ \A id \in 1 .. nextId : id = nextId \/ id \in Allocated
      BY <1>2, BoundsAssumption DEF TypeOK, Born, Allocated
    <2> QED
      BY <1>2, <2>1, FreshSound DEF Born, SoundObject
  <1>3. ASSUME NEW id \in Allocated, NEW kind \in EventKind, Event(id, kind)
        PROVE  (\A o \in Allocated : SoundObject(o))'
    <2>1. Allocated' = Allocated
      BY <1>3 DEF Event, Allocated
    <2>2. /\ timeline[id] \in Seq(EventKind)
          /\ alive[id] \in BOOLEAN /\ moved[id] \in BOOLEAN
      BY DEF TypeOK
    <2>3. Sound(Append(timeline[id], kind), alive[id] /\ kind # "Freed", moved[id] \/ kind = "Moved")
      BY <1>3, <2>2, AppendSound DEF SoundObject, Event
    <2>4. /\ timeline'[id] = Append(timeline[id], kind)
          /\ alive'[id] = (alive[id] /\ kind # "Freed")
          /\ moved'[id] = (moved[id] \/ kind = "Moved")
      BY <1>3 DEF Event, TypeOK
    <2>5. \A o \in Allocated \ {id} :
            timeline'[o] = timeline[o] /\ alive'[o] = alive[o] /\ moved'[o] = moved[o]
      BY <1>3 DEF Event, TypeOK
    <2> QED
      BY <2>1, <2>3, <2>4, <2>5 DEF SoundObject
  <1> QED
    BY <1>1, <1>2, <1>3 DEF StepEffect

(* Every handler waits for the absence of a crash. *)
LEMMA OnlyRunningSteps ==
    ASSUME ~repl, Next
    PROVE  crash = NoCrash
  BY DEF Next, Step, NextLine, EvalLiteral, EvalNewStruct, EvalNew, EvalRef, EvalDeref, EvalMoveExpr,
         EvalFieldAccess, AssignField, EvalIdentifier, EvalMoveIdentifier, AssignIdentifier,
         ExecuteLet, CallFunction, ExecuteExprStmt, ExecuteFree, EnterBlock, PopScope,
         PushScope, Running

LEMMA SurviveStep ==
    ASSUME TypeOK, NoAccessSurvivesFree, \A id \in Allocated : SoundObject(id),
           [Next]_vars, StepEffect
    PROVE  NoAccessSurvivesFree'
  <1> SUFFICES ASSUME ~repl, Next
               PROVE  (\A id \in Allocated : Survived(id))'
    <2>1. CASE UNCHANGED vars
      BY <2>1 DEF vars, heapVars, ownershipVars, NoAccessSurvivesFree, Allocated
    <2>2. repl' = repl
      BY DEF Next, vars
    <2> QED
      BY <2>1, <2>2 DEF NoAccessSurvivesFree, Survived
  <1>1. crash = NoCrash
    BY OnlyRunningSteps
  (* So far no object has an event after its free. *)
  <1>2. \A id \in Allocated : \A m, n \in DOMAIN timeline[id] :
            ~(timeline[id][m] = "Freed" /\ m < n)
    <2> SUFFICES ASSUME NEW id \in Allocated
                 PROVE  crash # [kind |-> "UseAfterFree", object |-> id]
      BY DEF NoAccessSurvivesFree
    <2>1. [kind |-> "UseAfterFree", object |-> id] \in [kind : CrashKind, object : Nat]
      BY BoundsAssumption DEF CrashKind, Allocated, TypeOK
    <2> QED
      BY <1>1, <2>1, NoCrashAssumption
  <1>3. CASE Untouched
    BY <1>2, <1>3 DEF Untouched, Survived, Allocated
  <1>4. CASE Born
    <2>1. nextId \in Nat /\ Allocated' = 1 .. nextId
          /\ \A id \in 1 .. nextId : id = nextId \/ id \in Allocated
      BY <1>4, BoundsAssumption DEF TypeOK, Born, Allocated
    <2>2. \A m \in DOMAIN <<"Allocated">> : <<"Allocated">>[m] # "Freed"
      OBVIOUS
    <2> QED
      BY <1>2, <1>4, <2>1, <2>2 DEF Born, Survived
  <1>5. ASSUME NEW id \in Allocated, NEW kind \in EventKind, Event(id, kind)
        PROVE  (\A o \in Allocated : Survived(o))'
    <2>1. /\ timeline'[id] = Append(timeline[id], kind)
          /\ \A o \in Allocated \ {id} : timeline'[o] = timeline[o]
          /\ Allocated' = Allocated
          /\ timeline[id] \in Seq(EventKind)
      BY <1>5 DEF Event, TypeOK, Allocated
    <2> DEFINE tl == timeline[id]
               new == timeline'[id]
    <2>2. /\ DOMAIN tl = 1 .. Len(tl) /\ Len(tl) \in Nat
          /\ DOMAIN new = 1 .. Len(tl) + 1 /\ Len(new) = Len(tl) + 1
          /\ \A n \in DOMAIN tl : new[n] = tl[n]
          /\ new[Len(tl) + 1] = kind
      BY <2>1, AppendProperties
    <2>3. ASSUME NEW m \in DOMAIN new, NEW n \in DOMAIN new, new[m] = "Freed", m < n
          PROVE  n = Len(new) /\ crash' = [kind |-> "UseAfterFree", object |-> id]
      <3>1. m \in DOMAIN tl /\ tl[m] = "Freed"
        BY <2>2, <2>3
      <3>2. n \notin DOMAIN tl
        BY <1>2, <2>3, <3>1
      <3>3. n = Len(new)
        BY <2>2, <2>3, <3>2
      <3>4. ~alive[id]
        BY <3>1 DEF SoundObject, Sound, Shows
      <3> QED
        BY <1>5, <3>3, <3>4 DEF Event
    <2> QED
      BY <1>2, <2>1, <2>3 DEF Survived
  <1> QED
    BY <1>3, <1>4, <1>5 DEF StepEffect

LEMMA TimelineInit == Init => TimelineInv
  <1> SUFFICES ASSUME Init PROVE TimelineInv
    OBVIOUS
  <1>1. Allocated = {}
    BY DEF Init, Allocated
  <1> QED
    BY <1>1, InitType, InitHeld DEF Init, TimelineInv, Deserved, NoAccessSurvivesFree

LEMMA TimelineStep ==
    ASSUME TimelineInv, [Next]_vars
    PROVE  TimelineInv'
  <1>1. TypeOK' /\ NoInvalidReference'
    BY NextType, NextHeld DEF TimelineInv
  <1>2. StepEffect
    BY NextEffect DEF TimelineInv
  <1>3. (\A id \in Allocated : SoundObject(id))'
    BY <1>2, SoundStep DEF TimelineInv
  <1>4. NoAccessSurvivesFree'
    BY <1>2, SurviveStep DEF TimelineInv
  <1> QED
    BY <1>1, <1>2, <1>3, <1>4 DEF TimelineInv, StepEffect

LEMMA TimelineConsequences ==
    ASSUME TimelineInv
    PROVE  /\ TimelineAgreesWithHeap
           /\ OneLifetime
           /\ CrashIsJustified
           /\ NoAccessSurvivesFree
  <1>1. TimelineAgreesWithHeap
    BY DEF TimelineInv, TimelineAgreesWithHeap, SoundObject, Sound, Shows, Occurs
  <1>2. OneLifetime
    BY DEF TimelineInv, OneLifetime, SoundObject, Sound
  <1>3. CrashIsJustified
    BY DEF TimelineInv, CrashIsJustified, Deserved, SoundObject, Sound, Shows, Occurs
  <1> QED
    BY <1>1, <1>2, <1>3 DEF TimelineInv

LEMMA TimelineInvariance == Spec => []TimelineInv
  <1>1. Init => TimelineInv
    BY TimelineInit
  <1>2. TimelineInv /\ [Next]_vars => TimelineInv'
    BY TimelineStep
  <1> QED
    BY <1>1, <1>2, PTL DEF Spec

(* The timeline in a crash report tells the object's life as the heap      *)
(* knows it: allocated first, freed exactly if dead, moved exactly if the  *)
(* record says so.                                                         *)
THEOREM TimelineIsTruthful == Spec => []TimelineAgreesWithHeap
  <1>1. TimelineInv => TimelineAgreesWithHeap
    BY TimelineConsequences
  <1> QED
    BY <1>1, TimelineInvariance, PTL

(* No object is freed or moved twice, and nothing but an access that       *)
(* crashes is recorded after its free.                                     *)
THEOREM LifetimeIsLinear == Spec => []OneLifetime
  <1>1. TimelineInv => OneLifetime
    BY TimelineConsequences
  <1> QED
    BY <1>1, TimelineInvariance, PTL

(* Every crash about an object has its cause in that object's timeline.    *)
THEOREM CrashesAreJustified == Spec => []CrashIsJustified
  <1>1. TimelineInv => CrashIsJustified
    BY TimelineConsequences
  <1> QED
    BY <1>1, TimelineInvariance, PTL

(* In a file's run nothing happens after an access to a freed object.      *)
THEOREM AccessAfterFreeIsLast == Spec => []NoAccessSurvivesFree
  <1>1. TimelineInv => NoAccessSurvivesFree
    BY TimelineConsequences
  <1> QED
    BY <1>1, TimelineInvariance, PTL

(* References name objects that were allocated, and each of these has one    *)
(* lifetime, however many aliases there are of it.                         *)
THEOREM ReferencesSound == Spec => []ReferencesAreSound
  <1>1. NoInvalidReference /\ OneLifetime => ReferencesAreSound
    BY DEF ReferencesAreSound
  <1> QED
    BY <1>1, NoReferenceIsInvalid, LifetimeIsLinear, PTL
----------------------------------------------------------------------------
(* The interpreter's memory implements ObjectLifecycle: its initial states *)
(* map to initial states and every step maps to an allocation, a release,  *)
(* a transfer, a write of a live object, or to a stutter.                  *)


LEMMA InitRefines == Init => Abstract!Init
  <1> SUFFICES ASSUME Init PROVE Abstract!Init
    OBVIOUS
  <1>1. nextId = 1 /\ Allocated = {} /\ Allocated = 1 .. 0
    BY DEF Init, Allocated
  <1>2. field = [id \in 1 .. 0 |-> NoField]
    BY <1>1 DEF Init
  <1>3. [id \in 1 .. 0 |-> NoField] = [id \in 1 .. 0 |-> 0]
    OBVIOUS
  <1> QED
    BY <1>1, <1>2, <1>3 DEF Abstract!Init

(* The objects the abstract specification calls released, transferred.     *)
Dead == {id \in Allocated : ~alive[id]}
Gone == {id \in Allocated : moved[id]}

absVars == <<nextId - 1, Dead, Gone, field>>

LEMMA NewRefines ==
    ASSUME TypeOK, EvalNewStruct
    PROVE  Abstract!Next
  <1>0. PICK content \in Value \cup {NoField} : \E rest : EvalNew(content, rest)
    BY ConsumeType DEF EvalNewStruct
  <1>1. PICK rest : EvalNew(content, rest)
    BY <1>0
  <1>2. nextId \in Nat \ {0} /\ MaxObjects \in Nat /\ nextId - 1 < MaxObjects /\ nextId' = nextId + 1
    BY <1>1, BoundsAssumption DEF TypeOK, EvalNew
  <1>3. /\ Allocated' = 1 .. nextId /\ Allocated = 1 .. nextId - 1
        /\ nextId \in Allocated' /\ nextId \notin Allocated
        /\ \A id \in Allocated' : id = nextId \/ id \in Allocated
        /\ Allocated \subseteq Allocated'
        /\ nextId - 1 + 1 = nextId
    <2>1. Allocated' = 1 .. nextId /\ Allocated = 1 .. nextId - 1
      BY <1>2 DEF Allocated
    <2> QED
      BY <1>2, <2>1
  <1>4. Dead' = Dead /\ Gone' = Gone
    BY <1>1, <1>3 DEF EvalNew, RecordAllocation, Dead, Gone
  <1>5. field' = [id \in 1 .. (nextId - 1) + 1 |->
                    IF id = (nextId - 1) + 1 THEN content ELSE field[id]]
    BY <1>1, <1>3 DEF EvalNew
  <1>6. Abstract!Allocate(content)
    BY <1>2, <1>4, <1>5 DEF Abstract!Allocate, Dead, Gone
  <1> QED
    BY <1>6 DEF Abstract!Next

LEMMA FieldEventRefines ==
    ASSUME TypeOK, EvalFieldAccess \/ AssignField
    PROVE  Abstract!Next \/ UNCHANGED absVars
  <1>1. UNCHANGED <<nextId, alive, moved>>
    BY DEF EvalFieldAccess, AssignField, RecordEvent, heapVars, ownershipVars
  <1>2. Dead' = Dead /\ Gone' = Gone /\ nextId' - 1 = nextId - 1
    BY <1>1 DEF Dead, Gone, Allocated
  <1>3. CASE UNCHANGED field
    BY <1>2, <1>3 DEF absVars
  <1>4. CASE AssignField /\ FieldError(Operand) = Ok
    <2>1. temps # << >> /\ Operand \in Value
      BY <1>4, ConsumeType DEF AssignField
    <2>2. Operand \in Allocated /\ alive[Operand]
      BY <1>4, <2>1, FieldVerdict
    <2>3. Operand \in Abstract!Live
      BY <2>2 DEF Abstract!Live, Allocated
    <2>4. PICK content \in Value : field' = [field EXCEPT ![Operand] = content]
      BY <1>4 DEF AssignField, TypeOK
    <2>5. Abstract!Write(Operand, content)
      BY <1>2, <2>4 DEF Abstract!Write, Dead, Gone
    <2> QED
      BY <2>3, <2>5 DEF Abstract!Next
  <1> QED
    BY <1>3, <1>4 DEF EvalFieldAccess, AssignField, heapVars

LEMMA FreeRefines ==
    ASSUME TypeOK, ExecuteFree
    PROVE  Abstract!Next \/ UNCHANGED absVars
  <1>1. /\ Operand \in Value /\ UNCHANGED <<nextId, field, moved>>
        /\ Gone' = Gone /\ nextId' - 1 = nextId - 1 /\ Allocated' = Allocated
    BY ConsumeType DEF ExecuteFree, RecordEvent, ownershipVars, Gone, Allocated
  <1>2. CASE FreeError(Operand) # Ok
    BY <1>1, <1>2 DEF ExecuteFree, absVars, Dead
  <1>3. CASE FreeError(Operand) = Ok
    <2>1. PICK v \in Allocated : alive[v] /\ alive' = [alive EXCEPT ![v] = FALSE]
      BY <1>1, <1>3, FreeVerdict DEF ExecuteFree
    <2>2. v \in Abstract!Live
      BY <2>1 DEF Abstract!Live, Allocated
    <2>3. Dead' = Dead \cup {v}
      BY <1>1, <2>1 DEF Dead, TypeOK
    <2>4. Abstract!Release(v)
      BY <1>1, <2>3 DEF Abstract!Release, Dead, Gone
    <2> QED
      BY <2>2, <2>4 DEF Abstract!Next
  <1> QED
    BY <1>2, <1>3

LEMMA MoveRefines ==
    ASSUME TypeOK, NEW v \in Value, NEW from, UNCHANGED heapVars,
           \/ UNCHANGED ownershipVars
           \/ MoveError(v) = Ok /\ RecordMove(v, from)
    PROVE  Abstract!Next \/ UNCHANGED absVars
  <1>1. /\ UNCHANGED <<nextId, field, alive>> /\ Dead' = Dead
        /\ nextId' - 1 = nextId - 1 /\ Allocated' = Allocated
    BY DEF heapVars, Dead, Allocated
  <1>2. CASE UNCHANGED ownershipVars
    BY <1>1, <1>2 DEF ownershipVars, absVars, Gone
  <1>3. CASE MoveError(v) = Ok /\ RecordMove(v, from)
    <2>1. /\ v \in Allocated /\ alive[v] /\ ~moved[v]
          /\ moved' = [moved EXCEPT ![v] = TRUE]
      BY <1>3, MoveVerdict DEF RecordMove
    <2>2. v \in Abstract!Live
      BY <2>1 DEF Abstract!Live, Allocated
    <2>3. Gone' = Gone \cup {v} /\ v \notin Gone
      BY <1>1, <2>1 DEF Gone, TypeOK
    <2>4. Abstract!Transfer(v)
      BY <1>1, <2>3 DEF Abstract!Transfer, Dead, Gone
    <2> QED
      BY <2>2, <2>4 DEF Abstract!Next
  <1> QED
    BY <1>2, <1>3

(* Every other step leaves the heap and the moved flags alone. *)
LEMMA QuietRefines ==
    ASSUME NEW x,
           \/ EvalLiteral \/ EvalIdentifier(x) \/ EvalRef \/ EvalDeref \/ AssignIdentifier(x)
           \/ ExecuteExprStmt \/ ExecuteLet(x) \/ EnterBlock \/ CallFunction(x) \/ PopScope
           \/ NextLine \/ UNCHANGED vars
    PROVE  UNCHANGED absVars
  <1>1. UNCHANGED <<nextId, alive, field, moved>>
    BY DEF EvalLiteral, EvalIdentifier, EvalRef, EvalDeref, RecordEvent, AssignIdentifier,
           ExecuteExprStmt, ExecuteLet, SetOwner, EnterBlock, CallFunction, PopScope, PushScope,
           NextLine, vars, heapVars, ownershipVars
  <1> QED
    BY <1>1 DEF absVars, Dead, Gone, Allocated

LEMMA StepRefines ==
    ASSUME TypeOK, [Next]_vars
    PROVE  Abstract!Next \/ UNCHANGED absVars
  <1>1. ASSUME NEW x \in Vars, EvalMoveIdentifier(x)
        PROVE  Abstract!Next \/ UNCHANGED absVars
    <2>1. PICK i \in DOMAIN scopes :
            /\ IsNearest(i, x)
            /\ \/ UNCHANGED ownershipVars
               \/ MoveError(scopes[i][x]) = Ok /\ RecordMove(scopes[i][x], {x})
      BY <1>1 DEF EvalMoveIdentifier
    <2> QED
      BY <1>1, <2>1, NearestType, MoveRefines DEF EvalMoveIdentifier
  <1>2. CASE EvalMoveExpr
    BY <1>2, ConsumeType, MoveRefines DEF EvalMoveExpr
  <1> QED
    BY <1>1, <1>2, NewRefines, FieldEventRefines, FreeRefines, QuietRefines DEF Next, Step

(* The simulated heap and the tracker implement the abstract lifecycle of  *)
(* objects: identifiers are never reused, a freed object stays dead and    *)
(* keeps its contents, and an object is moved at most once while live.     *)
THEOREM ImplementsLifecycle == Spec => Lifecycle
  <1>1. Init => Abstract!Init
    BY InitRefines
  <1>2. TypeOK /\ [Next]_vars => [Abstract!Next]_(Abstract!lifecycleVars)
    BY StepRefines DEF absVars, Dead, Gone, Abstract!lifecycleVars
  <1> QED
    BY <1>1, <1>2, TypeCorrect, PTL DEF Spec, Lifecycle, Abstract!Spec

(* Whatever kind of crash a handler raises, it raises it before its first  *)
(* update of the heap or of an ownership record.                           *)
THEOREM CrashesAreClean == Spec => CrashLeavesHeap
  <1>1. ASSUME Next, crash = NoCrash, crash' # NoCrash
        PROVE  UNCHANGED <<heapVars, owner, moved, varToHeap>>
    BY <1>1
       DEF Next, Step, NextLine, EvalLiteral, EvalNewStruct, EvalNew, EvalRef, EvalDeref, EvalMoveExpr,
           EvalFieldAccess, AssignField, EvalIdentifier, EvalMoveIdentifier, AssignIdentifier,
           ExecuteLet, CallFunction, ExecuteExprStmt, ExecuteFree, EnterBlock, PopScope,
           PushScope, RecordEvent, heapVars, ownershipVars
  <1>2. [Next]_vars => [crash = NoCrash /\ crash' # NoCrash =>
                            UNCHANGED <<heapVars, owner, moved, varToHeap>>]_vars
    BY <1>1
  <1> QED
    BY <1>2, PTL DEF Spec, CrashLeavesHeap
=============================================================================
