-------------------------- MODULE MemoryPaths_proof --------------------------
(***************************************************************************)
(* Proofs about the heap of the VM, for every set of variables and every   *)
(* bound; and the proof that the two execution paths cannot be told apart  *)
(* before a step that parts them, for every program and every length of    *)
(* the run.                                                                *)
(*                                                                         *)
(* The inductive invariant Sound of VMMemory says with one set, Known,     *)
(* what its TypeOK and NoInvalidReference say together: whatever the       *)
(* program holds is a value, and the references among the values were      *)
(* allocated.                                                              *)
(***************************************************************************)
EXTENDS MemoryPaths, SequenceTheorems, TLAPS

Known == {Nil, Num} \cup Allocated

Story(id) == IF alive[id] THEN <<"Allocated">> ELSE <<"Allocated", "Freed">>

(* A crash is backed by the heap, and never finds a reference unknown. *)
Deserved ==
    /\ crash \in [kind : CrashKind \ {"InvalidOperation"}, object : {0} \cup Allocated]
    /\ CrashIsJustified

Sound ==
    /\ nextId \in 1 .. MaxObjects + 1
    /\ globals \in [Vars -> Known \cup {Undefined}]
    /\ stack \in Seq(Known) /\ Len(stack) <= MaxTemps
    /\ alive \in [Allocated -> BOOLEAN]
    /\ field \in [Allocated -> Known \cup {NoField}]
    /\ timeline = [id \in Allocated |-> Story(id)]
    /\ crash = NoCrash \/ Deserved

----------------------------------------------------------------------------
(* Operands, and what a check's verdict says of one. *)

LEMMA AllocatedAreIds ==
    ASSUME Sound
    PROVE  Allocated \subseteq Ids /\ Ids \subseteq Nat /\ nextId \in Nat
  BY BoundsAssumption DEF Sound, Allocated, Ids

LEMMA PopType ==
    ASSUME Sound, stack # <<>>
    PROVE  /\ Peek \in Known
           /\ Pop(1) \in Seq(Known)
           /\ Len(Pop(1)) = Len(stack) - 1
           /\ Len(stack) \in Nat \ {0}
  <1>1. stack \in Seq(Known) /\ Len(stack) \in Nat \ {0}
    BY DEF Sound
  <1>2. Peek \in Known
    BY <1>1 DEF Peek
  <1> DEFINE k == Len(stack) - 1
  <1>3. k \in Nat /\ k + 1 = Len(stack) /\ \A n \in 1 .. k : stack[n] \in Known
    BY <1>1
  <1>4. SubSeq(stack, 1, k) \in Seq(Known)
        /\ Len(SubSeq(stack, 1, k)) = IF 1 <= k THEN k - 1 + 1 ELSE 0
    <2> HIDE DEF k
    <2> QED BY <1>3, SubSeqProperties
  <1>5. SubSeq(stack, 1, k) = Pop(1)
    BY DEF Pop
  <1> HIDE DEF k
  <1>6. Len(SubSeq(stack, 1, k)) = k
    BY <1>3, <1>4
  <1> QED
    BY <1>1, <1>2, <1>3, <1>4, <1>5, <1>6

LEMMA PushType ==
    ASSUME Sound, NEW v \in Known, NEW rest \in Seq(Known), Len(rest) < MaxTemps
    PROVE  Append(rest, v) \in Seq(Known) /\ Len(Append(rest, v)) <= MaxTemps
  <1>1. Len(rest) \in Nat /\ MaxTemps \in Nat
    BY BoundsAssumption
  <1>2. Append(rest, v) \in Seq(Known) /\ Len(Append(rest, v)) = Len(rest) + 1
    BY AppendProperties
  <1> QED
    BY <1>1, <1>2

LEMMA ReplaceType ==
    ASSUME Sound, stack # <<>>, NEW v \in Known
    PROVE  Append(Pop(1), v) \in Seq(Known) /\ Len(Append(Pop(1), v)) <= MaxTemps
  <1>1. Len(stack) <= MaxTemps /\ Len(stack) \in Nat /\ MaxTemps \in Nat
    BY BoundsAssumption DEF Sound
  <1> QED
    BY <1>1, PopType, PushType

(* Why a check may fail with this error on this operand. *)
Explains(kind, v) ==
    /\ kind \in {"TypeMismatch", "NullDereference", "UseAfterFree", "DoubleFree",
                 "InvalidFieldAccess"}
    /\ kind \in {"UseAfterFree", "DoubleFree"} => v \in Allocated /\ ~alive[v]
    /\ kind = "InvalidFieldAccess" => v \in Allocated /\ alive[v] /\ field[v] = NoField

LEMMA Verdicts ==
    ASSUME Sound, NEW v \in Known
    PROVE  /\ FieldError(v) # Ok => Explains(FieldError(v), v)
           /\ FieldError(v) = Ok => v \in Allocated /\ alive[v] /\ field[v] \in Known
           /\ RefError(v) # Ok => Explains(RefError(v), v)
           /\ DerefError(v) # Ok => Explains(DerefError(v), v)
           /\ FreeError(v) # Ok => Explains(FreeError(v), v)
           /\ FreeError(v) = Ok => v \in Allocated /\ alive[v]
  <1>1. v \notin Ids \/ v \in Allocated
    BY ValuesAssumption, AllocatedAreIds DEF Known
  <1>2. Allocated \subseteq Ids
    BY AllocatedAreIds
  <1>3. Nil \notin Ids
    BY ValuesAssumption, AllocatedAreIds
  <1>4. v \in Allocated => alive[v] \in BOOLEAN /\ field[v] \in Known \cup {NoField}
    BY DEF Sound
  <1>5. /\ FieldError(v) # Ok => Explains(FieldError(v), v)
        /\ FieldError(v) = Ok => v \in Allocated /\ alive[v] /\ field[v] \in Known
    BY <1>1, <1>2, <1>4 DEF FieldError, IsHeapRef, IsAlive, Explains, Ok
  <1>6. RefError(v) # Ok => Explains(RefError(v), v)
    BY DEF RefError, Explains, Ok
  <1>7. DerefError(v) # Ok => Explains(DerefError(v), v)
    BY <1>1, <1>2, <1>3, <1>4 DEF DerefError, IsHeapRef, IsAlive, Explains, Ok
  <1>8. /\ FreeError(v) # Ok => Explains(FreeError(v), v)
        /\ FreeError(v) = Ok => v \in Allocated /\ alive[v]
    BY <1>1, <1>2, <1>4 DEF FreeError, IsHeapRef, Explains, Ok
  <1> QED
    BY <1>5, <1>6, <1>7, <1>8

(* A crash that is thrown for a reason leaves a sound state. *)
LEMMA ThrowSound ==
    ASSUME Sound, NEW kind, NEW v,
           kind = "UndefinedVariable" \/ Explains(kind, v),
           Throw(kind, v), UNCHANGED <<globals, heapVars, timeline>>
    PROVE  Sound'
  <1>1. UNCHANGED <<nextId, alive, field, Allocated, Known>>
    BY DEF heapVars, Allocated, Known
  <1>2. stack' \in Seq(Known) /\ Len(stack') <= MaxTemps
    BY BoundsAssumption DEF Throw
  <1>3. crash' = [kind |-> kind, object |-> crash'.object] /\ crash'.kind = kind
    BY DEF Throw
  <1>4. /\ crash'.object \in {0} \cup Allocated
        /\ kind \in {"UseAfterFree", "DoubleFree", "InvalidFieldAccess"} => crash'.object = v
    BY DEF Throw, Explains
  <1>5. kind \in CrashKind \ {"InvalidOperation"}
    BY DEF Explains, CrashKind
  <1>6. Deserved'
    BY <1>1, <1>3, <1>4, <1>5 DEF Deserved, CrashIsJustified, Explains
  <1> QED
    BY <1>1, <1>2, <1>6 DEF Sound, Story

(* A step that changes operands and variables alone. *)
LEMMA QuietSound ==
    ASSUME Sound, UNCHANGED <<heapVars, timeline, crash>>,
           globals' \in [Vars -> Known \cup {Undefined}],
           stack' \in Seq(Known), Len(stack') <= MaxTemps
    PROVE  Sound'
  <1>1. UNCHANGED <<nextId, alive, field, Allocated, Known>>
    BY DEF heapVars, Allocated, Known
  <1> QED
    BY <1>1 DEF Sound, Story, Deserved, CrashIsJustified

----------------------------------------------------------------------------
(* One lemma for the instructions on variables, one for each on objects. *)

LEMMA VariablesSound ==
    ASSUME Sound, NEW x \in Vars, GetGlobal(x) \/ SetGlobal(x) \/ DefineGlobal(x)
    PROVE  Sound'
  <1>1. globals \in [Vars -> Known \cup {Undefined}] /\ stack \in Seq(Known) /\ Len(stack) <= MaxTemps
    BY DEF Sound
  <1>2. CASE GetGlobal(x)
    <2>1. CASE globals[x] # Undefined
      BY <1>1, <1>2, <2>1, PushType, QuietSound DEF GetGlobal, Push
    <2> QED
      BY <1>2, <2>1, ThrowSound DEF GetGlobal
  <1>3. CASE SetGlobal(x)
    <2>1. CASE globals[x] # Undefined
      BY <1>1, <1>3, <2>1, PopType, QuietSound DEF SetGlobal
    <2> QED
      BY <1>3, <2>1, ThrowSound DEF SetGlobal
  <1>4. CASE DefineGlobal(x)
    BY <1>1, <1>4, PopType, QuietSound, BoundsAssumption DEF DefineGlobal
  <1> QED
    BY <1>2, <1>3, <1>4

LEMMA OperandsSound ==
    ASSUME Sound, NEW v \in {Nil, Num}, Constant(v) \/ PopOperand \/ Move
    PROVE  Sound'
  <1>1. globals \in [Vars -> Known \cup {Undefined}] /\ stack \in Seq(Known) /\ Len(stack) <= MaxTemps
    BY DEF Sound
  <1>2. CASE Constant(v)
    BY <1>1, <1>2, PushType, QuietSound DEF Constant, Push, Known
  <1>3. CASE PopOperand
    BY <1>1, <1>3, PopType, QuietSound, BoundsAssumption DEF PopOperand
  <1>4. CASE Move
    BY <1>1, <1>4, PopType, ReplaceType, QuietSound DEF Move
  <1> QED
    BY <1>2, <1>3, <1>4

LEMMA AllocateSound ==
    ASSUME Sound, NEW content \in Known \cup {NoField},
           NEW rest \in Seq(Known), Len(rest) < MaxTemps, Allocate(content, rest)
    PROVE  Sound'
  <1>1. /\ nextId \in Nat /\ MaxObjects \in Nat /\ nextId' = nextId + 1
        /\ nextId' \in 1 .. MaxObjects + 1
    BY BoundsAssumption DEF Sound, Allocate
  <1>2. /\ Allocated' = 1 .. nextId
        /\ Allocated' = Allocated \cup {nextId} /\ nextId \notin Allocated
        /\ \A id \in 1 .. nextId : id = nextId \/ id \in Allocated
    BY <1>1 DEF Sound, Allocated
  <1>3. Known \subseteq Known' /\ nextId \in Known'
    BY <1>2 DEF Known
  <1>4. globals' \in [Vars -> Known' \cup {Undefined}]
    BY <1>3 DEF Sound, Allocate
  <1>5. stack' \in Seq(Known') /\ Len(stack') <= MaxTemps
    <2>1. rest \in Seq(Known')
      BY <1>3
    <2>2. stack' \in Seq(Known') /\ Len(stack') = Len(rest) + 1
      BY <1>3, <2>1, AppendProperties DEF Allocate
    <2> QED
      BY <2>2, BoundsAssumption
  <1>6. alive' \in [Allocated' -> BOOLEAN] /\ field' \in [Allocated' -> Known' \cup {NoField}]
    BY <1>2, <1>3 DEF Sound, Allocate
  <1>7. timeline' = [id \in Allocated' |-> Story(id)']
    BY <1>2 DEF Sound, Allocate, Story
  <1>8. crash' = NoCrash
    BY DEF Allocate, Runs
  <1> QED
    BY <1>1, <1>4, <1>5, <1>6, <1>7, <1>8 DEF Sound

LEMMA NewStructSound ==
    ASSUME Sound, NewStruct
    PROVE  Sound'
  <1>1. Len(stack) \in Nat /\ Len(stack) <= MaxTemps /\ MaxTemps \in Nat /\ stack \in Seq(Known)
    BY BoundsAssumption DEF Sound
  <1>2. CASE stack # <<>> /\ Allocate(Peek, Pop(1))
    BY <1>1, <1>2, PopType, AllocateSound
  <1>3. CASE Len(stack) < MaxTemps /\ Allocate(NoField, stack)
    BY <1>1, <1>3, AllocateSound
  <1> QED
    BY <1>2, <1>3 DEF NewStruct

LEMMA ChecksSound ==
    ASSUME Sound, GetField \/ Ref \/ Deref
    PROVE  Sound'
  <1>1. stack # <<>> /\ Peek \in Known /\ UNCHANGED <<globals, heapVars, timeline>>
    BY PopType DEF GetField, Ref, Deref
  <1>2. CASE GetField /\ FieldError(Peek) = Ok
    BY <1>1, <1>2, Verdicts, ReplaceType, QuietSound DEF GetField, Sound
  <1>3. CASE (Ref /\ RefError(Peek) = Ok) \/ (Deref /\ DerefError(Peek) = Ok)
    BY <1>1, <1>3, QuietSound DEF Ref, Deref, Sound
  <1> QED
    BY <1>1, <1>2, <1>3, Verdicts, ThrowSound DEF GetField, Ref, Deref

LEMMA SetFieldSound ==
    ASSUME Sound, SetField
    PROVE  Sound'
  <1>1. /\ stack \in Seq(Known) /\ Len(stack) \in Nat /\ Len(stack) >= 2 /\ stack # <<>>
        /\ Len(stack) <= MaxTemps /\ MaxTemps \in Nat
    BY BoundsAssumption DEF Sound, SetField
  <1>2. Below \in Known /\ Peek \in Known
    BY <1>1 DEF Below, Peek
  <1>3. CASE FieldError(Below) # Ok
    BY <1>2, <1>3, Verdicts, ThrowSound DEF SetField, heapVars
  <1>4. CASE FieldError(Below) = Ok
    <2>1. /\ field' = [field EXCEPT ![Below] = Peek]
          /\ stack' = Append(Pop(2), Peek)
          /\ UNCHANGED <<globals, nextId, alive, timeline, crash>> /\ crash = NoCrash
      BY <1>4 DEF SetField, Runs
    <2>2. UNCHANGED <<Allocated, Known>>
      BY <2>1 DEF Allocated, Known
    <2>3. field' \in [Allocated -> Known \cup {NoField}]
      BY <1>2, <2>1 DEF Sound
    <2>4. Pop(2) \in Seq(Known) /\ Len(Pop(2)) < MaxTemps
      <3> DEFINE k == Len(stack) - 2
      <3>1. k \in Nat /\ k + 2 = Len(stack) /\ \A n \in 1 .. k : stack[n] \in Known
        BY <1>1
      <3>2. /\ SubSeq(stack, 1, k) \in Seq(Known)
            /\ Len(SubSeq(stack, 1, k)) = IF 1 <= k THEN k - 1 + 1 ELSE 0
        <4> HIDE DEF k
        <4> QED BY <3>1, SubSeqProperties
      <3>3. SubSeq(stack, 1, k) = Pop(2)
        BY DEF Pop
      <3> HIDE DEF k
      <3> QED
        BY <1>1, <3>1, <3>2, <3>3
    <2>5. stack' \in Seq(Known) /\ Len(stack') <= MaxTemps
      BY <1>2, <2>1, <2>4, PushType
    <2> QED
      BY <2>1, <2>2, <2>3, <2>5 DEF Sound, Story
  <1> QED
    BY <1>3, <1>4

LEMMA FreeSound ==
    ASSUME Sound, Free
    PROVE  Sound'
  <1>1. stack # <<>> /\ Peek \in Known
    BY PopType DEF Free
  <1>2. CASE FreeError(Peek) # Ok
    BY <1>1, <1>2, Verdicts, ThrowSound DEF Free, heapVars
  <1>3. CASE FreeError(Peek) = Ok
    <2>1. /\ Peek \in Allocated /\ alive[Peek]
          /\ alive' = [alive EXCEPT ![Peek] = FALSE]
          /\ timeline' = [timeline EXCEPT ![Peek] = Append(@, "Freed")]
          /\ stack' = Pop(1)
          /\ UNCHANGED <<globals, nextId, field, crash>> /\ crash = NoCrash
      BY <1>1, <1>3, Verdicts DEF Free, Runs
    <2>2. UNCHANGED <<Allocated, Known>>
      BY <2>1 DEF Allocated, Known
    <2>3. alive' \in [Allocated -> BOOLEAN]
      BY <2>1 DEF Sound
    <2>4. timeline[Peek] = <<"Allocated">>
      BY <2>1 DEF Sound, Story
    <2>5. timeline' = [id \in Allocated |-> Story(id)']
      BY <2>1, <2>4 DEF Sound, Story
    <2>6. stack' \in Seq(Known) /\ Len(stack') <= MaxTemps
      BY <1>1, <2>1, PopType, BoundsAssumption DEF Sound
    <2> QED
      BY <2>1, <2>2, <2>3, <2>5, <2>6 DEF Sound
  <1> QED
    BY <1>2, <1>3

----------------------------------------------------------------------------
(* The invariant. *)

LEMMA InitSound == Init => Sound
  <1> SUFFICES ASSUME Init PROVE Sound
    OBVIOUS
  <1>1. Allocated = {} /\ nextId \in 1 .. MaxObjects + 1
    BY BoundsAssumption DEF Init, Allocated
  <1> QED
    BY <1>1, BoundsAssumption DEF Init, Sound

LEMMA NextSound == Sound /\ [Next]_vmVars => Sound'
  <1> SUFFICES ASSUME Sound, [Next]_vmVars PROVE Sound'
    OBVIOUS
  <1>1. CASE UNCHANGED vmVars
    BY <1>1, QuietSound DEF vmVars, Sound
  <1> QED
    BY <1>1, VariablesSound, OperandsSound, NewStructSound, ChecksSound, SetFieldSound, FreeSound
       DEF Next

LEMMA SoundMeans == Sound => HeapIsSound
  <1> SUFFICES ASSUME Sound PROVE HeapIsSound
    OBVIOUS
  <1>1. /\ Allocated \subseteq Ids /\ Ids \subseteq Nat
        /\ Known \subseteq Value
        /\ \A v \in Known \cup {Undefined, NoField} : IsHeapRef(v) => v \in Allocated
    BY AllocatedAreIds, ValuesAssumption DEF Known, Value, IsHeapRef
  <1>2. TypeOK
    <2>1. stack \in Seq(Value)
      BY <1>1 DEF Sound
    <2>2. timeline \in [Allocated -> Seq({"Allocated", "Freed"})]
      <3>1. /\ <<"Allocated">> \in Seq({"Allocated", "Freed"})
            /\ <<"Allocated", "Freed">> \in Seq({"Allocated", "Freed"})
        OBVIOUS
      <3>2. \A id \in Allocated : Story(id) \in Seq({"Allocated", "Freed"})
        BY <3>1 DEF Story
      <3> QED
        BY <3>2 DEF Sound
    <2>3. crash \in [kind : CrashKind, object : {0} \cup Ids] \cup {NoCrash}
      BY <1>1 DEF Sound, Deserved
    <2> QED
      BY <1>1, <2>1, <2>2, <2>3 DEF Sound, TypeOK
  <1>3. NoInvalidReference
    <2>1. /\ \A x \in Vars : globals[x] \in Known \cup {Undefined}
          /\ \A n \in DOMAIN stack : stack[n] \in Known
          /\ \A id \in Allocated : field[id] \in Known \cup {NoField}
      BY DEF Sound
    <2>2. crash # NoCrash => /\ crash.kind # "InvalidOperation"
                             /\ IsHeapRef(crash.object) => crash.object \in Allocated
      BY DEF Sound, Deserved, IsHeapRef, Ids
    <2> QED
      BY <1>1, <2>1, <2>2 DEF NoInvalidReference
  <1>4. TimelineAgreesWithHeap
    BY DEF Sound, TimelineAgreesWithHeap, Story
  <1>5. CrashIsJustified
    BY DEF Sound, Deserved, CrashIsJustified
  <1> QED
    BY <1>2, <1>3, <1>4, <1>5 DEF HeapIsSound

(* The invariant as it is used below, in every state of a run.             *)
THEOREM SoundAlways == Spec => []Sound
  BY InitSound, NextSound, PTL DEF Spec

(* Whatever instructions a program amounts to, the VM's heap, its tracker  *)
(* and its crash tell one story: every reference was allocated, timelines  *)
(* have exactly the events that happened, crashes blame an object rightly. *)
THEOREM HeapSound == Spec => []HeapIsSound
  BY SoundAlways, SoundMeans, PTL

----------------------------------------------------------------------------
(* The VM implements the lifecycle of objects. *)

Dead == {id \in Allocated : ~alive[id]}

absVars == <<nextId - 1, Dead, {}, field>>

LEMMA InitRefines == Init => Abstract!Init
  <1> SUFFICES ASSUME Init PROVE Abstract!Init
    OBVIOUS
  <1>1. nextId = 1 /\ Allocated = {} /\ Allocated = 1 .. 0
    BY DEF Init, Allocated
  <1>2. field = [id \in 1 .. 0 |-> NoField] /\ [id \in 1 .. 0 |-> NoField] = [id \in 1 .. 0 |-> 0]
    BY <1>1 DEF Init
  <1> QED
    BY <1>1, <1>2 DEF Abstract!Init

LEMMA AllocateRefines ==
    ASSUME Sound, NEW content \in Value \cup {NoField}, NEW rest, Allocate(content, rest)
    PROVE  Abstract!Next
  <1>1. nextId \in Nat /\ MaxObjects \in Nat /\ nextId - 1 < MaxObjects /\ nextId' = nextId + 1
    BY BoundsAssumption, AllocatedAreIds DEF Sound, Allocate
  <1>2. Allocated' = 1 .. nextId /\ Allocated = 1 .. nextId - 1
        /\ Allocated' = Allocated \cup {nextId} /\ nextId \notin Allocated
    BY <1>1 DEF Sound, Allocated
  <1>3. Dead' = Dead
    BY <1>2 DEF Allocate, Dead
  <1>4. nextId - 1 + 1 = nextId /\ nextId' - 1 = nextId - 1 + 1
    BY <1>1
  <1>5. field' = [id \in 1 .. (nextId - 1) + 1 |->
                    IF id = (nextId - 1) + 1 THEN content ELSE field[id]]
    BY <1>4 DEF Allocate
  <1>6. Abstract!Allocate(content)
    BY <1>1, <1>3, <1>4, <1>5 DEF Abstract!Allocate, Dead
  <1> QED
    BY <1>6 DEF Abstract!Next

LEMMA SetFieldRefines ==
    ASSUME Sound, SetField
    PROVE  Abstract!Next \/ UNCHANGED absVars
  <1>1. /\ UNCHANGED <<nextId, alive>> /\ Dead' = Dead
        /\ Below \in Known /\ Peek \in Known
    <2>1. stack \in Seq(Known) /\ Len(stack) \in Nat /\ Len(stack) >= 2
      BY DEF Sound, SetField
    <2> QED
      BY <2>1 DEF SetField, Dead, Allocated, Below, Peek
  <1>2. CASE FieldError(Below) # Ok
    BY <1>1, <1>2 DEF SetField, absVars
  <1>3. CASE FieldError(Below) = Ok
    <2>1. Below \in Abstract!Live /\ Peek \in Value
      BY <1>1, <1>3, Verdicts, AllocatedAreIds DEF Abstract!Live, Allocated, Known, Value
    <2>2. Abstract!Write(Below, Peek)
      BY <1>1, <1>3 DEF SetField, Abstract!Write, Dead
    <2> QED
      BY <2>1, <2>2 DEF Abstract!Next
  <1> QED
    BY <1>2, <1>3

LEMMA FreeRefines ==
    ASSUME Sound, Free
    PROVE  Abstract!Next \/ UNCHANGED absVars
  <1>1. Peek \in Known /\ UNCHANGED <<nextId, field>> /\ Allocated' = Allocated
    BY PopType DEF Free, Allocated
  <1>2. CASE FreeError(Peek) # Ok
    BY <1>1, <1>2 DEF Free, absVars, Dead
  <1>3. CASE FreeError(Peek) = Ok
    <2>1. PICK v \in Allocated : alive[v] /\ alive' = [alive EXCEPT ![v] = FALSE]
      BY <1>1, <1>3, Verdicts DEF Free
    <2>2. v \in Abstract!Live
      BY <2>1 DEF Abstract!Live, Allocated
    <2>3. Dead' = Dead \cup {v}
      BY <1>1, <2>1 DEF Dead, Sound
    <2>4. Abstract!Release(v)
      BY <1>1, <2>3 DEF Abstract!Release, Dead
    <2> QED
      BY <2>2, <2>4 DEF Abstract!Next
  <1> QED
    BY <1>2, <1>3

LEMMA StepRefines ==
    ASSUME Sound, [Next]_vmVars
    PROVE  Abstract!Next \/ UNCHANGED absVars
  <1>1. CASE UNCHANGED heapVars
    BY <1>1 DEF heapVars, absVars, Dead, Allocated
  <1>2. CASE NewStruct
    <2>1. Known \subseteq Value
      BY AllocatedAreIds DEF Known, Value
    <2> QED
      BY <1>2, <2>1, PopType, AllocateRefines DEF NewStruct
  <1>3. NewStruct \/ SetField \/ Free \/ UNCHANGED heapVars
    BY DEF Next, vmVars, heapVars, Constant, GetGlobal, SetGlobal, DefineGlobal, GetField, Ref,
           Deref, Move, PopOperand
  <1> QED
    BY <1>1, <1>2, <1>3, SetFieldRefines, FreeRefines

(* The VM's heap, too, releases no object twice, writes none after its     *)
(* release and hands out no identifier again.                              *)
THEOREM ImplementsLifecycle == Spec => Lifecycle
  <1>1. Init => Abstract!Init
    BY InitRefines
  <1>2. Sound /\ [Next]_vmVars => [Abstract!Next]_(Abstract!lifecycleVars)
    BY StepRefines DEF absVars, Dead, Abstract!lifecycleVars
  <1> QED
    BY <1>1, <1>2, SoundAlways, PTL DEF Spec, Lifecycle, Abstract!Spec

----------------------------------------------------------------------------
(* The VM of MemoryPaths behaves as VMMemory says. *)

LEMMA PathsStep == [PathsNext]_pathsVars => [Next]_vmVars
  <1> SUFFICES ASSUME PathsNext, ~UNCHANGED vmVars PROVE Next
    BY DEF pathsVars
  <1>1. CASE Together
    BY <1>1 DEF Together, Plain, Literal, New, Reference, MoveOperand, MoveVariable,
                AssignToField, NewStruct, Next
  <1>2. CASE Alone
    BY <1>2 DEF Alone
  <1> QED
    BY <1>1, <1>2 DEF PathsNext

(* Two paths that have not parted after a step had not before it. *)
LEMMA StillPaired ==
    ASSUME [PathsNext]_pathsVars, paired', ~parted'
    PROVE  paired /\ ~parted
  <1>1. CASE PathsNext
    BY <1>1 DEF PathsNext, Alone
  <1>2. CASE UNCHANGED pathsVars
    BY <1>2 DEF pathsVars
  <1> QED
    BY <1>1, <1>2

LEMMA PathsSound == PathsSpec => []Sound
  <1>1. PathsInit => Sound
    BY InitSound DEF PathsInit
  <1>2. Sound /\ [PathsNext]_pathsVars => Sound'
    BY PathsStep, NextSound
  <1> QED
    BY <1>1, <1>2, PTL DEF PathsSpec

----------------------------------------------------------------------------
(* In states that agree the two paths look at the same operands, and their *)
(* checks come to the same verdict.                                        *)

Same == Sound /\ ObservablesAgree

LEMMA SameOperands ==
    ASSUME ObservablesAgree
    PROVE  /\ W!Operand = Peek
           /\ W!Consume(1) = Pop(1)
           /\ W!Allocated = Allocated
           /\ W!Ids = Ids
           /\ W!Running <=> Runs
           /\ Len(wScopes) = 1 /\ DOMAIN wScopes = {1} /\ wScopes[1] = globals
  BY DEF ObservablesAgree, W!Operand, Peek, W!Consume, Pop, W!Allocated, Allocated, W!Ids, Ids,
         W!Running, Runs

LEMMA SameVerdicts ==
    ASSUME Same, NEW v \in Known
    PROVE  /\ W!FieldError(v) = FieldError(v)
           /\ W!DerefError(v) = DerefError(v)
           /\ W!FreeError(v) = FreeError(v)
           /\ ~IsHeapRef(v) \/ IsAlive(v) => W!RefError(v) = RefError(v)
           /\ W!Ok = Ok
  <1>1. /\ W!Allocated = Allocated /\ W!Ids = Ids /\ wAlive = alive /\ wField = field
        /\ v \notin Ids \/ v \in Allocated
        /\ Allocated \subseteq Ids
    BY SameOperands, ValuesAssumption, AllocatedAreIds DEF Same, ObservablesAgree, Known
  <1>2. W!FieldError(v) = FieldError(v)
    BY <1>1 DEF W!FieldError, FieldError, W!IsHeapRef, IsHeapRef, IsAlive, W!Ok, Ok, Sound, Same
  <1>3. W!FreeError(v) = FreeError(v)
    BY <1>1 DEF W!FreeError, FreeError, W!IsHeapRef, IsHeapRef, W!Ok, Ok
  <1>4. v = Nil => v \notin Ids
    BY ValuesAssumption, AllocatedAreIds DEF Same
  <1>5. W!DerefError(v) = DerefError(v)
    BY <1>1, <1>4 DEF W!DerefError, DerefError, W!RefError, W!IsHeapRef, IsHeapRef, W!IsAlive,
                      IsAlive, W!Ok, Ok
  <1>6. ~IsHeapRef(v) \/ IsAlive(v) => W!RefError(v) = RefError(v)
    BY <1>1 DEF W!RefError, RefError, W!IsHeapRef, IsHeapRef, W!IsAlive, IsAlive, W!Ok, Ok
  <1> QED
    BY <1>2, <1>3, <1>5, <1>6 DEF W!Ok, Ok

LEMMA NotAReference ==
    ASSUME Sound, NEW v, ~IsHeapRef(v)
    PROVE  FieldError(v) = "TypeMismatch"
  <1>1. ~IsAlive(v)
    BY AllocatedAreIds DEF IsHeapRef, IsAlive
  <1> QED
    BY <1>1 DEF FieldError

(* The interpreter's only scope is the VM's globals. *)
LEMMA SameBinding ==
    ASSUME Sound, wScopes = <<globals>>, NEW x \in Vars, NEW v,
           globals' = [globals EXCEPT ![x] = v],
           wScopes' = [wScopes EXCEPT ![1][x] = v]
    PROVE  wScopes' = <<globals'>>
  <1>1. wScopes[1] = globals /\ DOMAIN wScopes = {1}
    OBVIOUS
  <1>2. wScopes' = [wScopes EXCEPT ![1] = globals']
    BY <1>1
  <1> DEFINE S == {globals, globals'}
  <1>3. wScopes \in Seq(S) /\ <<globals'>> \in Seq(S) /\ Len(wScopes) = 1
    OBVIOUS
  <1>4. wScopes' \in Seq(S) /\ Len(wScopes') = 1 /\ wScopes'[1] = globals'
    BY <1>1, <1>2, <1>3, ExceptSeq
  <1>5. Len(<<globals'>>) = 1 /\ <<globals'>>[1] = globals'
    OBVIOUS
  <1> DEFINE t == <<globals'>>
  <1>6. t \in Seq(S) /\ Len(wScopes') = Len(t) /\ \A i \in 1 .. Len(wScopes') : wScopes'[i] = t[i]
    <2>1. t \in Seq(S) /\ Len(t) = 1 /\ t[1] = globals'
      BY <1>3, <1>5
    <2>2. \A i \in 1 .. Len(wScopes') : i = 1
      BY <1>4
    <2> HIDE DEF t, S
    <2> QED BY <1>4, <2>1, <2>2
  <1>7. wScopes' = t
    <2> HIDE DEF t, S
    <2> QED BY <1>4, <1>6, SeqEqual
  <1> QED
    BY <1>7

(* A crash that both paths raise for the same reason. *)
LEMMA SameCrash ==
    ASSUME ObservablesAgree, NEW kind, NEW v, Throw(kind, v), W!Raise(kind, v),
           UNCHANGED <<globals, nextId, alive, field, wNextId, wAlive, wField>>
    PROVE  ObservablesAgree'
  <1>1. stack' = wTemps' /\ crash' = wCrash'
    BY DEF Throw, W!Raise
  <1>2. wScopes' = <<globals'>>
    BY SameOperands DEF W!Raise
  <1> QED
    BY <1>1, <1>2 DEF ObservablesAgree

(* What move() leaves of the stack. *)
LEMMA PushBack ==
    ASSUME Sound, stack # <<>>
    PROVE  Append(Pop(1), Peek) = stack
  <1>1. stack \in Seq(Known) /\ Len(stack) \in Nat \ {0}
    BY DEF Sound
  <1>2. PICK s \in Seq(Known), e \in Known : stack = Append(s, e)
    BY <1>1, SequenceEmptyOrAppend
  <1>3. Len(stack) = Len(s) + 1 /\ Len(s) \in Nat /\ stack[Len(stack)] = e
    BY <1>2, AppendProperties
  <1>4. Len(stack) - 1 = Len(s) /\ Len(Pop(1)) = Len(s) /\ Pop(1) \in Seq(Known)
    BY <1>3, PopType
  <1>5. \A n \in 1 .. Len(s) : Pop(1)[n] = s[n]
    <2>1. \A n \in 1 .. Len(s) : stack[n] = s[n]
      BY <1>2, AppendProperties
    <2>2. \A n \in 1 .. Len(s) : SubSeq(stack, 1, Len(s))[n] = stack[n]
      BY <1>1, <1>3
    <2> QED
      BY <1>4, <2>1, <2>2 DEF Pop
  <1>6. Pop(1) = s
    BY <1>4, <1>5, SeqEqual
  <1> QED
    BY <1>2, <1>3, <1>6 DEF Peek

----------------------------------------------------------------------------
(* One lemma per kind of step. *)

LEMMA VariablesAgree ==
    ASSUME Same, NEW x \in Vars,
           \/ GetGlobal(x) /\ W!EvalIdentifier(x)
           \/ SetGlobal(x) /\ W!AssignIdentifier(x)
           \/ DefineGlobal(x) /\ W!ExecuteLet(x)
    PROVE  ObservablesAgree'
  <1>1. /\ UNCHANGED <<nextId, alive, field, wNextId, wAlive, wField>>
        /\ stack = wTemps /\ wScopes = <<globals>> /\ crash = wCrash
    BY DEF Same, ObservablesAgree, GetGlobal, SetGlobal, DefineGlobal, W!EvalIdentifier,
           W!AssignIdentifier, W!ExecuteLet, heapVars, W!heapVars
  <1>2. /\ W!IsDefined(x) <=> globals[x] # Undefined
        /\ \A i \in DOMAIN wScopes : W!IsNearest(i, x) <=> i = 1 /\ globals[x] # Undefined
    BY SameOperands DEF Same, W!IsDefined, W!IsNearest
  <1>3. CASE GetGlobal(x) /\ W!EvalIdentifier(x)
    <2>1. CASE globals[x] = Undefined
      <3>1. Throw("UndefinedVariable", 0) /\ W!Raise("UndefinedVariable", 0) /\ UNCHANGED globals
        BY <1>2, <1>3, <2>1 DEF GetGlobal, W!EvalIdentifier
      <3> QED
        BY <1>1, <3>1, SameCrash DEF Same
    <2>2. CASE globals[x] # Undefined
      <3>1. /\ stack' = Append(stack, globals[x]) /\ UNCHANGED <<globals, crash>>
            /\ wTemps' = Append(wTemps, wScopes[1][x]) /\ UNCHANGED <<wScopes, wCrash>>
        BY <1>2, <1>3, <2>2 DEF GetGlobal, Push, W!EvalIdentifier
      <3> QED
        BY <1>1, <3>1, SameOperands DEF Same, ObservablesAgree
    <2> QED
      BY <2>1, <2>2
  <1>4. CASE SetGlobal(x) /\ W!AssignIdentifier(x)
    <2>1. CASE globals[x] = Undefined
      <3>1. Throw("UndefinedVariable", 0) /\ W!Raise("UndefinedVariable", 0) /\ UNCHANGED globals
        BY <1>2, <1>4, <2>1 DEF SetGlobal, W!AssignIdentifier
      <3> QED
        BY <1>1, <3>1, SameCrash DEF Same
    <2>2. CASE globals[x] # Undefined
      <3>1. /\ globals' = [globals EXCEPT ![x] = Peek] /\ UNCHANGED <<stack, crash>>
            /\ wScopes' = [wScopes EXCEPT ![1][x] = W!Operand] /\ UNCHANGED <<wTemps, wCrash>>
        BY <1>2, <1>4, <2>2 DEF SetGlobal, W!AssignIdentifier
      <3>2. wScopes' = <<globals'>>
        BY <1>1, <3>1, SameOperands, SameBinding DEF Same
      <3> QED
        BY <1>1, <3>1, <3>2 DEF Same, ObservablesAgree
    <2> QED
      BY <2>1, <2>2
  <1>5. CASE DefineGlobal(x) /\ W!ExecuteLet(x)
    <2>1. /\ globals' = [globals EXCEPT ![x] = Peek] /\ stack' = Pop(1) /\ UNCHANGED crash
          /\ wScopes' = [wScopes EXCEPT ![1][x] = W!Operand] /\ wTemps' = W!Consume(1)
          /\ UNCHANGED wCrash
      BY <1>5, SameOperands DEF Same, DefineGlobal, W!ExecuteLet, W!Define
    <2>2. wScopes' = <<globals'>>
      BY <1>1, <2>1, SameOperands, SameBinding DEF Same
    <2> QED
      BY <1>1, <2>1, <2>2, SameOperands DEF Same, ObservablesAgree
  <1> QED
    BY <1>3, <1>4, <1>5

LEMMA NewAgrees ==
    ASSUME Same, New
    PROVE  ObservablesAgree'
  <1>1. ASSUME NEW content, NEW rest, Allocate(content, rest), W!EvalNew(content, rest)
        PROVE  ObservablesAgree'
    BY <1>1 DEF Same, Allocate, W!EvalNew, ObservablesAgree
  <1>2. CASE Allocate(Peek, Pop(1)) /\ W!EvalNew(W!Operand, W!Consume(1))
    BY <1>1, <1>2, SameOperands DEF Same
  <1>3. CASE Allocate(NoField, stack) /\ W!EvalNew(NoField, wTemps)
    <2>1. W!EvalNew(NoField, stack)
      BY <1>3 DEF Same, ObservablesAgree
    <2> QED
      BY <1>1, <1>3, <2>1
  <1> QED
    BY <1>2, <1>3 DEF New

LEMMA ReferencesAgree ==
    ASSUME Same, ~parted',
           Reference \/ MoveOperand \/ (Deref /\ W!EvalDeref)
    PROVE  ObservablesAgree'
  <1>1. /\ stack # <<>> /\ Peek \in Known /\ W!Operand = Peek
        /\ UNCHANGED <<globals, nextId, alive, field, wNextId, wAlive, wField>>
    BY PopType, SameOperands
       DEF Same, Reference, Ref, MoveOperand, Move, Deref, W!EvalRef, W!EvalMoveExpr, W!EvalDeref,
           heapVars, W!heapVars
  <1>2. CASE Reference
    <2>1. W!RefError(Peek) = RefError(Peek) /\ W!Ok = Ok
      BY <1>1, <1>2, SameVerdicts DEF Reference
    <2> QED
      BY <1>1, <1>2, <2>1, SameCrash DEF Same, Reference, Ref, W!EvalRef, ObservablesAgree
  <1>3. CASE Deref /\ W!EvalDeref
    <2>1. W!DerefError(Peek) = DerefError(Peek) /\ W!Ok = Ok
      BY <1>1, SameVerdicts
    <2> QED
      BY <1>1, <1>3, <2>1, SameCrash DEF Same, Deref, W!EvalDeref, ObservablesAgree
  <1>4. CASE MoveOperand
    <2>2. W!MoveError(W!Operand) = W!Ok
      BY <1>1, <1>4 DEF MoveOperand
    <2>3. UNCHANGED <<wTemps, wScopes, wCrash>>
      BY <1>1, <1>4, <2>2 DEF MoveOperand, W!EvalMoveExpr
    <2>4. stack' = stack /\ UNCHANGED crash
      BY <1>1, <1>4, PushBack DEF Same, MoveOperand, Move
    <2> QED
      BY <1>1, <2>3, <2>4 DEF Same, ObservablesAgree
  <1> QED
    BY <1>2, <1>3, <1>4

LEMMA FieldsAgree ==
    ASSUME Same, GetField /\ W!EvalFieldAccess
    PROVE  ObservablesAgree'
  <1>1. /\ stack # <<>> /\ Peek \in Known /\ W!Operand = Peek
        /\ UNCHANGED <<globals, nextId, alive, field, wNextId, wAlive, wField>>
        /\ W!FieldError(Peek) = FieldError(Peek) /\ W!Ok = Ok
    BY PopType, SameOperands, SameVerdicts
       DEF Same, GetField, W!EvalFieldAccess, heapVars, W!heapVars
  <1>2. CASE FieldError(Peek) # Ok
    BY <1>1, <1>2, SameCrash DEF Same, GetField, W!EvalFieldAccess
  <1>3. CASE FieldError(Peek) = Ok
    BY <1>1, <1>3, SameOperands DEF Same, GetField, W!EvalFieldAccess, ObservablesAgree
  <1> QED
    BY <1>2, <1>3

(* The two operands of the assignment are the same object, or none is one. *)
LEMMA AssignmentsAgree ==
    ASSUME Same, AssignToField, ~parted'
    PROVE  ObservablesAgree'
  <1>1. /\ stack \in Seq(Known) /\ Len(stack) \in Nat /\ Len(stack) >= 2 /\ stack # <<>>
        /\ SetField /\ W!AssignField
        /\ Peek = Below \/ (~IsHeapRef(Peek) /\ ~IsHeapRef(Below))
    <2>1. SetField /\ W!AssignField
          /\ parted' = (Peek # Below /\ (IsHeapRef(Peek) \/ IsHeapRef(Below)))
      BY DEF AssignToField
    <2>2. Peek = Below \/ (~IsHeapRef(Peek) /\ ~IsHeapRef(Below))
      BY <2>1
    <2>3. stack \in Seq(Known) /\ Len(stack) \in Nat /\ Len(stack) >= 2
      BY <2>1 DEF Same, Sound, SetField
    <2>4. stack # <<>>
      BY <2>3
    <2> QED BY <2>1, <2>2, <2>3, <2>4
  <1>2. /\ Peek \in Known /\ Below \in Known /\ W!Operand = Peek
        /\ W!FieldError(Peek) = FieldError(Peek) /\ W!Ok = Ok
        /\ UNCHANGED <<globals, nextId, alive, wNextId, wAlive>>
    BY <1>1, SameOperands, SameVerdicts DEF Same, Peek, Below, SetField, W!AssignField
  <1>3. FieldError(Below) = FieldError(Peek)
    BY <1>1, NotAReference DEF Same
  <1>4. CASE FieldError(Peek) # Ok
    <2>1. /\ Throw(FieldError(Peek), Below) /\ W!Raise(FieldError(Peek), Peek)
          /\ UNCHANGED <<field, wField>>
      BY <1>1, <1>2, <1>3, <1>4 DEF SetField, W!AssignField
    <2>2. CASE Peek = Below
      BY <1>2, <2>1, <2>2, SameCrash DEF Same
    <2>3. CASE ~IsHeapRef(Peek) /\ ~IsHeapRef(Below)
      <3>1. FieldError(Peek) = "TypeMismatch"
        BY <2>3, NotAReference DEF Same
      <3>2. Throw(FieldError(Peek), Peek)
        BY <2>1, <3>1 DEF Throw
      <3> QED
        BY <1>2, <2>1, <3>2, SameCrash DEF Same
    <2> QED
      BY <1>1, <2>2, <2>3
  <1>5. CASE FieldError(Peek) = Ok
    <2>1. IsHeapRef(Peek) /\ Peek = Below
      BY <1>1, <1>5, NotAReference DEF Same, Ok
    <2>2. /\ field' = [field EXCEPT ![Below] = Peek] /\ stack' = Append(Pop(2), Peek)
          /\ wField' = [wField EXCEPT ![Peek] = wTemps[Len(wTemps) - 1]] /\ wTemps' = W!Consume(1)
          /\ UNCHANGED <<crash, wScopes, wCrash>>
      <3>1. FieldError(Below) = Ok /\ W!FieldError(W!Operand) = W!Ok
        BY <1>2, <1>3, <1>5
      <3>2. /\ field' = [field EXCEPT ![Below] = Peek] /\ stack' = Append(Pop(2), Peek)
            /\ UNCHANGED crash
        BY <1>1, <3>1 DEF SetField
      <3>3. /\ wField' = [wField EXCEPT ![W!Operand] = wTemps[Len(wTemps) - 1]]
            /\ wTemps' = W!Consume(1) /\ UNCHANGED <<wScopes, wCrash>>
        BY <1>1, <3>1 DEF W!AssignField
      <3> QED
        BY <1>2, <3>2, <3>3
    <2>3. wTemps[Len(wTemps) - 1] = Below
      <3>1. wTemps = stack
        BY DEF Same, ObservablesAgree
      <3> QED
        BY <3>1 DEF Below
    <2>4. Append(Pop(2), Below) = Pop(1)
      <3> DEFINE k == Len(stack) - 1
      <3>1. k \in 1 .. Len(stack) /\ k - 1 = Len(stack) - 2 /\ k \in Nat
        BY <1>1
      <3>2. SubSeq(stack, 1, k) = SubSeq(stack, 1, k - 1) \o <<stack[k]>>
        <4> HIDE DEF k
        <4> QED BY <1>1, <3>1, SubSeqRecursiveSecond
      <3>3. Pop(2) \in Seq(Known)
        <4>1. \A n \in 1 .. k - 1 : stack[n] \in Known
          BY <1>1
        <4> HIDE DEF k
        <4>2. SubSeq(stack, 1, k - 1) \in Seq(Known)
          BY <3>1, <4>1, SubSeqProperties
        <4> QED
          BY <3>1, <4>2 DEF Pop
      <3>4. Append(Pop(2), Below) = Pop(2) \o <<Below>>
        BY <3>3, AppendIsConcat
      <3>5. Pop(1) = SubSeq(stack, 1, k) /\ Pop(2) = SubSeq(stack, 1, k - 1) /\ Below = stack[k]
        BY <3>1 DEF Pop, Below
      <3> HIDE DEF k
      <3> QED
        BY <3>2, <3>4, <3>5, Zenon
    <2>5. field' = wField' /\ crash' = wCrash' /\ <<globals'>> = wScopes'
      BY <1>2, <2>1, <2>2, <2>3 DEF Same, ObservablesAgree
    <2>6. stack' = wTemps'
      BY <2>1, <2>2, <2>4, SameOperands DEF Same
    <2>7. <<nextId', alive'>> = <<wNextId', wAlive'>>
      BY <1>2 DEF Same, ObservablesAgree
    <2> QED
      BY <2>5, <2>6, <2>7 DEF ObservablesAgree
  <1> QED
    BY <1>4, <1>5

LEMMA FreeAgrees ==
    ASSUME Same, Free /\ W!ExecuteFree
    PROVE  ObservablesAgree'
  <1>1. /\ stack # <<>> /\ Peek \in Known /\ W!Operand = Peek
        /\ UNCHANGED <<globals, nextId, field, wNextId, wField>>
        /\ W!FreeError(Peek) = FreeError(Peek) /\ W!Ok = Ok
    BY PopType, SameOperands, SameVerdicts DEF Same, Free, W!ExecuteFree
  <1>2. CASE FreeError(Peek) # Ok
    BY <1>1, <1>2, SameCrash DEF Same, Free, W!ExecuteFree
  <1>3. CASE FreeError(Peek) = Ok
    BY <1>1, <1>3, SameOperands DEF Same, Free, W!ExecuteFree, ObservablesAgree
  <1> QED
    BY <1>2, <1>3

LEMMA TogetherAgrees ==
    ASSUME Same, Together, ~parted'
    PROVE  ObservablesAgree'
  <1>1. ASSUME NEW v \in {Nil, Num}, Literal(v) PROVE ObservablesAgree'
    BY <1>1 DEF Same, Literal, Constant, Push, W!EvalLiteral, ObservablesAgree, heapVars, W!heapVars
  <1>2. CASE PopOperand /\ W!ExecuteExprStmt
    BY <1>2, SameOperands
       DEF Same, PopOperand, W!ExecuteExprStmt, ObservablesAgree, heapVars, W!heapVars
  <1> QED
    BY <1>1, <1>2, VariablesAgree, NewAgrees, ReferencesAgree, FieldsAgree, AssignmentsAgree,
       FreeAgrees DEF Together, Plain, MoveVariable

(* No program can tell the interpreter from the VM by any other steps than *)
(* those that set `parted`: whatever its length and however many objects   *)
(* it has, its variables, operands and objects are the same after every    *)
(* step up to the first of those, and it crashes on both paths with the    *)
(* same error, or on neither.                                              *)
THEOREM PathsIndistinguishable == PathsSpec => [](paired /\ ~parted => ObservablesAgree)
  <1> DEFINE Agree == paired /\ ~parted => ObservablesAgree
  <1>1. PathsInit => Agree
    <2> SUFFICES ASSUME PathsInit PROVE ObservablesAgree
      OBVIOUS
    <2>1. Init /\ W!Init
      BY DEF PathsInit
    <2>2. Allocated = {} /\ W!Allocated = {}
      BY <2>1 DEF Init, W!Init, Allocated, W!Allocated
    <2> QED
      BY <2>1, <2>2 DEF Init, W!Init, ObservablesAgree
  <1>2. Sound /\ Agree /\ [PathsNext]_pathsVars => Agree'
    <2> SUFFICES ASSUME Sound, Agree, [PathsNext]_pathsVars, paired', ~parted'
                 PROVE  ObservablesAgree'
      OBVIOUS
    <2>1. paired /\ ~parted /\ ObservablesAgree
      BY StillPaired
    <2>2. CASE UNCHANGED pathsVars
      BY <2>1, <2>2 DEF pathsVars, vmVars, heapVars, walkVars, ObservablesAgree
    <2>3. CASE PathsNext
      BY <2>1, <2>3, TogetherAgrees DEF PathsNext, Same
    <2> QED
      BY <2>2, <2>3
  <1> QED
    BY <1>1, <1>2, PathsSound, PTL DEF PathsSpec

----------------------------------------------------------------------------
(* The timelines.  Whatever a step records, it records nothing, an access  *)
(* on the interpreter's side alone, or the same event on both sides.       *)

LEMMA AppendedBoth ==
    ASSUME NEW A, NEW B, NEW short \in Seq(A), NEW long \in Seq(B),
           NEW kind \in Lifetime, KeepsLifetime(short, long)
    PROVE  KeepsLifetime(Append(short, kind), Append(long, kind))
  <1>1. PICK place \in [DOMAIN short -> DOMAIN long] :
            /\ \A m, n \in DOMAIN short : m < n => place[m] < place[n]
            /\ \A n \in DOMAIN short : short[n] \in Lifetime /\ long[place[n]] = short[n]
            /\ \A n \in DOMAIN long : long[n] \in Lifetime => \E m \in DOMAIN short : place[m] = n
    BY DEF KeepsLifetime
  <1>2. PICK s \in Nat, l \in Nat : /\ s = Len(short) /\ DOMAIN short = 1 .. s
                                  /\ l = Len(long) /\ DOMAIN long = 1 .. l
    BY LenProperties
  <1>3. /\ DOMAIN Append(short, kind) = 1 .. s + 1 /\ Append(short, kind)[s + 1] = kind
        /\ \A n \in 1 .. s : Append(short, kind)[n] = short[n]
        /\ DOMAIN Append(long, kind) = 1 .. l + 1 /\ Append(long, kind)[l + 1] = kind
        /\ \A n \in 1 .. l : Append(long, kind)[n] = long[n]
    <2>1. short \in Seq(A \cup {kind}) /\ long \in Seq(B \cup {kind}) /\ kind \in A \cup {kind}
          /\ kind \in B \cup {kind}
      OBVIOUS
    <2>2. /\ Append(short, kind) \in Seq(A \cup {kind}) /\ Len(Append(short, kind)) = s + 1
          /\ Append(long, kind) \in Seq(B \cup {kind}) /\ Len(Append(long, kind)) = l + 1
      BY <1>2, <2>1, AppendProperties
    <2>3. DOMAIN Append(short, kind) = 1 .. s + 1 /\ DOMAIN Append(long, kind) = 1 .. l + 1
      BY <2>2, LenProperties
    <2> QED
      BY <1>2, <2>1, <2>3, AppendProperties
  <1> DEFINE wider == [n \in 1 .. s + 1 |-> IF n = s + 1 THEN l + 1 ELSE place[n]]
  <1>4. /\ \A n \in 1 .. s : place[n] \in 1 .. l
        /\ \A m, n \in 1 .. s : m < n => place[m] < place[n]
        /\ \A n \in 1 .. s : short[n] \in Lifetime /\ long[place[n]] = short[n]
        /\ \A n \in 1 .. l : long[n] \in Lifetime => \E m \in 1 .. s : place[m] = n
    BY <1>1, <1>2
  <1>5. wider \in [1 .. s + 1 -> 1 .. l + 1]
    BY <1>2, <1>4
  <1>6. wider[s + 1] = l + 1 /\ \A n \in 1 .. s : wider[n] = place[n]
    BY <1>2
  <1> HIDE DEF wider
  <1>7. \A m, n \in 1 .. s + 1 : m < n => wider[m] < wider[n]
    <2> TAKE m, n \in 1 .. s + 1
    <2> HAVE m < n
    <2>1. m \in 1 .. s /\ (n = s + 1 \/ n \in 1 .. s)
      BY <1>2
    <2>2. CASE n = s + 1
      <3>1. place[m] \in 1 .. l /\ wider[m] = place[m] /\ wider[n] = l + 1
        BY <1>4, <1>6, <2>1, <2>2
      <3> QED BY <1>2, <3>1
    <2>3. CASE n \in 1 .. s
      <3>1. place[m] < place[n] /\ wider[m] = place[m] /\ wider[n] = place[n]
        BY <1>4, <1>6, <2>1, <2>3
      <3> QED BY <3>1
    <2> QED BY <2>1, <2>2, <2>3
  <1>8. \A n \in 1 .. s + 1 : Append(short, kind)[n] \in Lifetime
                              /\ Append(long, kind)[wider[n]] = Append(short, kind)[n]
    <2> TAKE n \in 1 .. s + 1
    <2>1. CASE n = s + 1
      BY <1>3, <1>6, <2>1
    <2>2. CASE n \in 1 .. s
      <3>1. /\ wider[n] = place[n] /\ place[n] \in 1 .. l
            /\ short[n] \in Lifetime /\ long[place[n]] = short[n]
        BY <1>4, <1>6, <2>2
      <3> QED BY <1>3, <2>2, <3>1
    <2>3. n = s + 1 \/ n \in 1 .. s
      BY <1>2
    <2> QED BY <2>1, <2>2, <2>3
  <1>9. \A n \in 1 .. l + 1 : Append(long, kind)[n] \in Lifetime => \E m \in 1 .. s + 1 : wider[m] = n
    <2> TAKE n \in 1 .. l + 1
    <2> HAVE Append(long, kind)[n] \in Lifetime
    <2>1. CASE n = l + 1
      BY <1>2, <1>6, <2>1
    <2>2. CASE n \in 1 .. l
      <3>1. PICK m \in 1 .. s : place[m] = n
        BY <1>3, <1>4, <2>2
      <3>2. m \in 1 .. s + 1 /\ wider[m] = n
        BY <1>2, <1>6, <3>1
      <3> QED BY <3>2
    <2>3. n = l + 1 \/ n \in 1 .. l
      BY <1>2
    <2> QED BY <2>1, <2>2, <2>3
  <1> DEFINE newShort == Append(short, kind)
             newLong == Append(long, kind)
  <1>10. DOMAIN newShort = 1 .. s + 1 /\ DOMAIN newLong = 1 .. l + 1
    BY <1>3
  <1>11. /\ \A n \in 1 .. s + 1 : newShort[n] \in Lifetime /\ newLong[wider[n]] = newShort[n]
         /\ \A n \in 1 .. l + 1 : newLong[n] \in Lifetime => \E m \in 1 .. s + 1 : wider[m] = n
    BY <1>8, <1>9
  <1> HIDE DEF newShort, newLong
  <1>12. KeepsLifetime(newShort, newLong)
    <2>1. /\ \A m, n \in DOMAIN newShort : m < n => wider[m] < wider[n]
          /\ \A n \in DOMAIN newShort : newShort[n] \in Lifetime /\ newLong[wider[n]] = newShort[n]
      BY <1>7, <1>10, <1>11
    <2>2. \A n \in DOMAIN newLong : newLong[n] \in Lifetime => \E m \in DOMAIN newShort : wider[m] = n
      BY <1>10, <1>11
    <2>3. wider \in [DOMAIN newShort -> DOMAIN newLong]
      BY <1>5, <1>10
    <2> QED
      BY ONLY <2>1, <2>2, <2>3, Zenon DEF KeepsLifetime
  <1> QED
    BY <1>12 DEF newShort, newLong

LEMMA AppendedAccess ==
    ASSUME NEW B, NEW short, NEW long \in Seq(B), NEW kind,
           kind \notin Lifetime, KeepsLifetime(short, long)
    PROVE  KeepsLifetime(short, Append(long, kind))
  <1>1. PICK place \in [DOMAIN short -> DOMAIN long] :
            /\ \A m, n \in DOMAIN short : m < n => place[m] < place[n]
            /\ \A n \in DOMAIN short : short[n] \in Lifetime /\ long[place[n]] = short[n]
            /\ \A n \in DOMAIN long : long[n] \in Lifetime => \E m \in DOMAIN short : place[m] = n
    BY DEF KeepsLifetime
  <1>2. PICK l \in Nat : l = Len(long) /\ DOMAIN long = 1 .. l
    BY LenProperties
  <1>3. /\ DOMAIN Append(long, kind) = 1 .. l + 1 /\ Append(long, kind)[l + 1] = kind
        /\ \A n \in 1 .. l : Append(long, kind)[n] = long[n]
    <2>1. long \in Seq(B \cup {kind}) /\ kind \in B \cup {kind}
      OBVIOUS
    <2>2. Append(long, kind) \in Seq(B \cup {kind}) /\ Len(Append(long, kind)) = l + 1
      BY <1>2, <2>1, AppendProperties
    <2> QED
      BY <1>2, <2>1, <2>2, LenProperties, AppendProperties
  <1>4. \A n \in DOMAIN short : place[n] \in 1 .. l
    BY <1>2
  <1>5. place \in [DOMAIN short -> 1 .. l + 1]
    BY <1>2, <1>4
  <1>6. \A n \in DOMAIN short : Append(long, kind)[place[n]] = short[n]
    BY <1>1, <1>3, <1>4
  <1>7. \A n \in 1 .. l + 1 : Append(long, kind)[n] \in Lifetime => n \in 1 .. l
    BY <1>2, <1>3
  <1>8. \A n \in DOMAIN Append(long, kind) :
            Append(long, kind)[n] \in Lifetime => \E m \in DOMAIN short : place[m] = n
    BY <1>1, <1>2, <1>3, <1>7
  <1> DEFINE newLong == Append(long, kind)
  <1>9. /\ DOMAIN newLong = 1 .. l + 1
        /\ \A n \in DOMAIN short : newLong[place[n]] = short[n]
        /\ \A n \in DOMAIN newLong : newLong[n] \in Lifetime => \E m \in DOMAIN short : place[m] = n
    BY <1>3, <1>6, <1>8
  <1> HIDE DEF newLong
  <1>10. KeepsLifetime(short, newLong)
    BY <1>1, <1>5, <1>9 DEF KeepsLifetime
  <1> QED
    BY <1>10 DEF newLong

(* What a step does to the timelines of both sides. *)
RecordsNothing == UNCHANGED <<nextId, timeline, wTimeline>>

RecordsAccess ==
    /\ \E id \in Allocated, kind \in W!EventKind \ Lifetime :
            wTimeline' = [wTimeline EXCEPT ![id] = Append(@, kind)]
    /\ UNCHANGED <<nextId, timeline>>

RecordsFree ==
    /\ \E id \in Allocated :
            /\ timeline' = [timeline EXCEPT ![id] = Append(@, "Freed")]
            /\ wTimeline' = [wTimeline EXCEPT ![id] = Append(@, "Freed")]
    /\ UNCHANGED nextId

Extended(lines) == [id \in 1 .. nextId |-> IF id = nextId THEN <<"Allocated">> ELSE lines[id]]

RecordsNew ==
    /\ nextId' = nextId + 1
    /\ timeline' = Extended(timeline)
    /\ wTimeline' = Extended(wTimeline)

LEMMA ReferencesWereAllocated ==
    ASSUME Sound, NEW v \in Known, IsHeapRef(v)
    PROVE  v \in Allocated
  BY ValuesAssumption, AllocatedAreIds DEF Known, IsHeapRef

(* A reference that a check accepts was allocated. *)
LEMMA AcceptedReferences ==
    ASSUME Same, W!Operand \in Known
    PROVE  /\ W!RefError(W!Operand) = W!Ok => W!Operand \in Allocated
           /\ W!DerefError(W!Operand) = W!Ok => W!Operand \in Allocated
           /\ W!MoveError(W!Operand) = W!Ok => W!Operand \in Allocated
           /\ W!IsHeapRef(W!Operand) => W!Operand \in Allocated
  <1>1. W!IsHeapRef(W!Operand) => W!Operand \in Allocated
    BY ReferencesWereAllocated, SameOperands DEF Same, W!IsHeapRef, IsHeapRef
  <1>2. W!RefError(W!Operand) = W!Ok => W!IsHeapRef(W!Operand)
    BY DEF W!RefError, W!Ok
  <1>3. W!DerefError(W!Operand) = W!Ok => W!IsHeapRef(W!Operand)
    BY <1>2 DEF W!DerefError, W!Ok
  <1>4. W!MoveError(W!Operand) = W!Ok => W!IsHeapRef(W!Operand)
    BY DEF W!MoveError, W!Ok
  <1> QED
    BY <1>1, <1>2, <1>3, <1>4

LEMMA TogetherRecords ==
    ASSUME Same, Together, ~parted'
    PROVE  RecordsNothing \/ RecordsAccess \/ RecordsFree \/ RecordsNew
  <1>1. \A kind \in {"Referenced", "Dereferenced", "FieldRead", "FieldWrite", "Moved"} :
            kind \in W!EventKind \ Lifetime
    BY DEF W!EventKind, Lifetime
  <1>2. ASSUME NEW v \in {Nil, Num}, Literal(v) PROVE RecordsNothing
    BY <1>2 DEF Literal, Constant, W!EvalLiteral, heapVars, W!ownershipVars, RecordsNothing
  <1>3. ASSUME NEW x \in Vars,
               \/ GetGlobal(x) /\ W!EvalIdentifier(x)
               \/ SetGlobal(x) /\ W!AssignIdentifier(x)
               \/ DefineGlobal(x) /\ W!ExecuteLet(x)
        PROVE  RecordsNothing
    BY <1>3 DEF GetGlobal, SetGlobal, DefineGlobal, W!EvalIdentifier, W!AssignIdentifier,
                W!ExecuteLet, W!SetOwner, heapVars, W!ownershipVars, RecordsNothing
  <1>4. CASE New
    BY <1>4 DEF New, Allocate, W!EvalNew, W!RecordAllocation, RecordsNew, Extended, Same,
                ObservablesAgree
  <1>5. CASE PopOperand /\ W!ExecuteExprStmt
    BY <1>5 DEF PopOperand, W!ExecuteExprStmt, heapVars, W!ownershipVars, RecordsNothing
  <1>6. CASE Reference \/ MoveOperand \/ (Deref /\ W!EvalDeref) \/ (GetField /\ W!EvalFieldAccess)
             \/ AssignToField
    <2>1. stack # <<>> /\ UNCHANGED <<nextId, timeline>>
      <3>1. CASE AssignToField
        <4>1. stack \in Seq(Known) /\ Len(stack) >= 2
          BY <3>1 DEF AssignToField, SetField, Same, Sound
        <4>2. stack # <<>>
          BY <4>1
        <4> QED BY <3>1, <4>2 DEF AssignToField, SetField
      <3> QED
        BY <1>6, <3>1 DEF Reference, Ref, MoveOperand, Move, Deref, GetField, heapVars
    <2>2. W!Operand \in Known
      BY <2>1, PopType, SameOperands DEF Same
    <2>3. CASE Reference
      BY <1>1, <2>1, <2>2, <2>3, AcceptedReferences
         DEF Reference, W!EvalRef, W!RecordEvent, W!ownershipVars, RecordsNothing, RecordsAccess
    <2>4. CASE MoveOperand
      BY <1>1, <2>1, <2>2, <2>4, AcceptedReferences
         DEF MoveOperand, W!EvalMoveExpr, W!RecordMove, W!ownershipVars, RecordsNothing,
             RecordsAccess
    <2>5. CASE Deref /\ W!EvalDeref
      BY <1>1, <2>1, <2>2, <2>5, AcceptedReferences
         DEF W!EvalDeref, W!RecordEvent, W!ownershipVars, RecordsNothing, RecordsAccess
    <2>6. CASE GetField /\ W!EvalFieldAccess
      BY <1>1, <2>1, <2>2, <2>6, AcceptedReferences
         DEF W!EvalFieldAccess, W!RecordEvent, W!ownershipVars, RecordsNothing, RecordsAccess
    <2>7. CASE AssignToField
      BY <1>1, <2>1, <2>2, <2>7, AcceptedReferences
         DEF AssignToField, W!AssignField, W!RecordEvent, W!ownershipVars, RecordsNothing,
             RecordsAccess
    <2> QED
      BY <1>6, <2>3, <2>4, <2>5, <2>6, <2>7
  <1>7. CASE Free /\ W!ExecuteFree
    <2>1. stack # <<>> /\ Peek \in Known /\ W!Operand = Peek /\ UNCHANGED nextId
          /\ W!FreeError(Peek) = FreeError(Peek) /\ W!Ok = Ok
      BY <1>7, PopType, SameOperands, SameVerdicts DEF Same, Free
    <2>2. CASE FreeError(Peek) # Ok
      BY <1>7, <2>1, <2>2 DEF Free, W!ExecuteFree, W!ownershipVars, RecordsNothing
    <2>3. CASE FreeError(Peek) = Ok
      <3>1. IsHeapRef(Peek)
        BY <2>3, AllocatedAreIds DEF Same, FreeError, Ok, IsHeapRef
      <3> QED
        BY <1>7, <2>1, <2>3, <3>1, ReferencesWereAllocated
           DEF Same, Free, W!ExecuteFree, W!RecordEvent, RecordsFree
    <2> QED
      BY <2>2, <2>3
  <1> QED
    BY <1>2, <1>3, <1>4, <1>5, <1>6, <1>7 DEF Together, Plain, MoveVariable

SameLifetimes ==
    /\ timeline \in [Allocated -> Seq(Lifetime)]
    /\ wTimeline \in [Allocated -> Seq(W!EventKind)]
    /\ TimelinesAgree

LEMMA LifetimesAgree ==
    ASSUME Same, SameLifetimes, RecordsNothing \/ RecordsAccess \/ RecordsFree \/ RecordsNew
    PROVE  SameLifetimes'
  <1>1. Lifetime \subseteq W!EventKind /\ nextId \in Nat \ {0}
    BY BoundsAssumption DEF Lifetime, W!EventKind, Same, Sound
  <1>2. CASE RecordsNothing
    BY <1>2 DEF RecordsNothing, SameLifetimes, TimelinesAgree, Allocated
  <1>3. CASE RecordsAccess
    <2>1. Allocated' = Allocated /\ timeline' = timeline
      BY <1>3 DEF RecordsAccess, Allocated
    <2>2. PICK id \in Allocated, kind \in W!EventKind \ Lifetime :
            wTimeline' = [wTimeline EXCEPT ![id] = Append(wTimeline[id], kind)]
      BY <1>3 DEF RecordsAccess
    <2>3. Append(wTimeline[id], kind) \in Seq(W!EventKind)
      BY AppendProperties DEF SameLifetimes
    <2>4. KeepsLifetime(timeline[id], Append(wTimeline[id], kind))
      BY AppendedAccess DEF SameLifetimes, TimelinesAgree
    <2>5. wTimeline' \in [Allocated -> Seq(W!EventKind)]
      BY <2>2, <2>3 DEF SameLifetimes
    <2>6. \A i \in Allocated : KeepsLifetime(timeline'[i], wTimeline'[i])
      BY <2>1, <2>2, <2>4 DEF SameLifetimes, TimelinesAgree
    <2> QED
      BY <2>1, <2>5, <2>6 DEF SameLifetimes, TimelinesAgree
  <1>4. CASE RecordsFree
    <2>1. Allocated' = Allocated
      BY <1>4 DEF RecordsFree, Allocated
    <2>2. PICK id \in Allocated :
            /\ timeline' = [timeline EXCEPT ![id] = Append(timeline[id], "Freed")]
            /\ wTimeline' = [wTimeline EXCEPT ![id] = Append(wTimeline[id], "Freed")]
      BY <1>4 DEF RecordsFree
    <2>3. "Freed" \in Lifetime
      BY DEF Lifetime
    <2>4. Append(timeline[id], "Freed") \in Seq(Lifetime)
          /\ Append(wTimeline[id], "Freed") \in Seq(W!EventKind)
      BY <1>1, <2>3, AppendProperties DEF SameLifetimes
    <2>5. KeepsLifetime(Append(timeline[id], "Freed"), Append(wTimeline[id], "Freed"))
      BY <2>3, AppendedBoth DEF SameLifetimes, TimelinesAgree
    <2>6. timeline' \in [Allocated -> Seq(Lifetime)] /\ wTimeline' \in [Allocated -> Seq(W!EventKind)]
      BY <2>2, <2>4 DEF SameLifetimes
    <2>7. \A i \in Allocated : KeepsLifetime(timeline'[i], wTimeline'[i])
      BY <2>2, <2>5 DEF SameLifetimes, TimelinesAgree
    <2> QED
      BY <2>1, <2>6, <2>7 DEF SameLifetimes, TimelinesAgree
  <1>5. CASE RecordsNew
    <2> DEFINE first == <<"Allocated">>
    <2>1. Allocated' = 1 .. nextId /\ \A id \in 1 .. nextId : id = nextId \/ id \in Allocated
      BY <1>1, <1>5 DEF RecordsNew, Allocated
    <2>2. first \in Seq(Lifetime) /\ first \in Seq(W!EventKind)
      BY <1>1 DEF Lifetime
    <2>3. KeepsLifetime(first, first)
      <3>1. Len(first) = 1 /\ DOMAIN first = {1} /\ first[1] = "Allocated"
        OBVIOUS
      <3> DEFINE same == [n \in {1} |-> 1]
      <3>2. same \in [{1} -> {1}] /\ same[1] = 1
        OBVIOUS
      <3> HIDE DEF first, same
      <3> QED
        BY <3>1, <3>2 DEF KeepsLifetime, Lifetime
    <2> HIDE DEF first
    <2>4. /\ timeline' = [id \in 1 .. nextId |-> IF id = nextId THEN first ELSE timeline[id]]
          /\ wTimeline' = [id \in 1 .. nextId |-> IF id = nextId THEN first ELSE wTimeline[id]]
      BY <1>5 DEF RecordsNew, Extended, first
    <2>5. timeline' \in [1 .. nextId -> Seq(Lifetime)] /\ wTimeline' \in [1 .. nextId -> Seq(W!EventKind)]
      BY <2>1, <2>2, <2>4 DEF SameLifetimes
    <2>6. \A i \in 1 .. nextId : KeepsLifetime(timeline'[i], wTimeline'[i])
      BY <2>1, <2>3, <2>4 DEF SameLifetimes, TimelinesAgree
    <2> QED
      BY <2>1, <2>5, <2>6 DEF SameLifetimes, TimelinesAgree
  <1> QED
    BY <1>2, <1>3, <1>4, <1>5

(* PathsAgree in full: until a step parts the paths, what a program can     *)
(* observe is the same after every step, and so are the lifetimes that the *)
(* reports show of its objects.                                            *)
THEOREM PathsAgreeAlways == PathsSpec => []PathsAgree
  <1> DEFINE Agree == paired /\ ~parted => ObservablesAgree
             Lives == paired /\ ~parted => SameLifetimes
  <1>1. PathsInit => Lives
    <2> SUFFICES ASSUME PathsInit PROVE SameLifetimes
      OBVIOUS
    <2>1. Allocated = {} /\ W!Allocated = {}
      BY DEF PathsInit, Init, W!Init, Allocated, W!Allocated
    <2> QED
      BY <2>1 DEF PathsInit, Init, W!Init, SameLifetimes, TimelinesAgree
  <1>2. Sound /\ Agree /\ Lives /\ [PathsNext]_pathsVars => Lives'
    <2> SUFFICES ASSUME Sound, Agree, Lives, [PathsNext]_pathsVars, paired', ~parted'
                 PROVE  SameLifetimes'
      OBVIOUS
    <2>1. paired /\ ~parted /\ Same /\ SameLifetimes
      BY StillPaired DEF Same
    <2>2. CASE UNCHANGED pathsVars
      BY <2>1, <2>2, LifetimesAgree DEF pathsVars, vmVars, heapVars, walkVars, RecordsNothing
    <2>3. CASE PathsNext
      BY <2>1, <2>3, TogetherRecords, LifetimesAgree DEF PathsNext
    <2> QED
      BY <2>2, <2>3
  <1>3. Agree /\ Lives => PathsAgree
    BY DEF PathsAgree, SameLifetimes
  <1> QED
    BY <1>1, <1>2, <1>3, PathsSound, PathsIndistinguishable, PTL DEF PathsSpec
=============================================================================
