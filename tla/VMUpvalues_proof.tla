--------------------------- MODULE VMUpvalues_proof ---------------------------
(***************************************************************************)
(* Closures in the VM follow lexical scoping, for every program that the   *)
(* compiler can emit and every size of the stack: whoever reads a variable *)
(* reads the value last assigned to it, wherever the variable lives.       *)
(*                                                                         *)
(* Inv adds to the properties what makes them inductive: that references   *)
(* to upvalues and variables are known ones, that the slots below a frame  *)
(* end where it begins, that no variable is in two slots, and that the     *)
(* variable of a closed upvalue is in none.                                *)
(***************************************************************************)
EXTENDS VMUpvalues, SequenceTheorems, TLAPS

UpRefs == Seq(1 .. MaxUpvalues)
FrameRecords == [base : Nat, ups : UpRefs, locals : Nat, fixed : Nat]

Types ==
    /\ stack \in Seq(Values) /\ Len(stack) <= StackMax
    /\ frames \in Seq(FrameRecords) /\ Len(frames) <= FramesMax
    /\ open \in UpRefs
    /\ position \in Seq(1 .. StackMax + 1) /\ Len(position) <= MaxUpvalues
    /\ isClosed \in Seq(BOOLEAN) /\ Len(isClosed) = Len(position)
    /\ closed \in Seq(Values) /\ Len(closed) = Len(position)
    /\ building \in UpRefs /\ Len(building) <= MaxCaptures
    /\ naming \in 0 .. MaxVars
    /\ status \in {"running", "returned", "crashed"}
    /\ slotVar \in Seq(0 .. MaxVars) /\ Len(slotVar) = Len(stack)
    /\ upVar \in Seq(1 .. MaxVars) /\ Len(upVar) = Len(position)
    /\ store \in Seq(Values) /\ Len(store) <= MaxVars

(* Whatever refers to upvalues refers to ones that have been created, and  *)
(* slots to variables that have been declared.                             *)
UpsKnown(ups, created) == \A i \in 1 .. Len(ups) : ups[i] <= created
Known(v, created) == IsFunction(v) => UpsKnown(v.ups, created)

KnownInv ==
    /\ \A f \in 1 .. Len(frames) : UpsKnown(frames[f].ups, Len(position))
    /\ UpsKnown(open, Len(position)) /\ UpsKnown(building, Len(position))
    /\ \A n \in 1 .. Len(stack) : Known(stack[n], Len(position))
    /\ \A uv \in Upvalues : Known(closed[uv], Len(position))
    /\ \A x \in Variables : Known(store[x], Len(position))
    /\ \A n \in 1 .. Len(stack) : slotVar[n] <= Len(store)

(* The frames, as long as there are any. *)
Live == status # "returned"

EndOf(f) == IF f = Len(frames) THEN Len(stack) ELSE frames[f + 1].base

FrameHolds(f) ==
    LET top == EndOf(f) IN
    /\ frames[f].base + frames[f].locals <= top
    /\ frames[f].fixed <= frames[f].locals /\ (f = 1 \/ frames[f].fixed > 0)
    /\ \A n \in frames[f].base + 1 .. top :
            slotVar[n] # 0 <=> /\ n <= frames[f].base + frames[f].locals
                               /\ f = 1 \/ n > frames[f].base + 1

FramesInv ==
    Live =>
        /\ Len(frames) > 0
        /\ \A f, g \in 1 .. Len(frames) :
               f < g => frames[f].base + frames[f].locals <= frames[g].base
        /\ \A f \in 1 .. Len(frames) : FrameHolds(f)

(* A variable that is being named does not exist yet, and is next to;     *)
(* nothing closes its upvalue meanwhile.                                   *)
NamingInv ==
    naming # 0 =>
        /\ naming = Len(store) + 1 /\ Live /\ Operands = 0
        /\ \A uv \in Upvalues : upVar[uv] = naming => ~isClosed[uv]

(* A variable lives in one slot; upvalues are of variables that exist. *)
VariablesInv ==
    /\ \A m, n \in 1 .. Len(stack) : slotVar[m] = slotVar[n] /\ slotVar[m] # 0 => m = n
    /\ \A uv \in Upvalues : upVar[uv] <= Len(store) \/ upVar[uv] = naming

(* The variable of a closed upvalue has left the stack. *)
ClosedGone ==
    Live => \A uv \in Upvalues : isClosed[uv] => \A n \in 1 .. Len(stack) : slotVar[n] # upVar[uv]

Chained(uv) == \E j \in 1 .. Len(open) : open[j] = uv

(* Where the variable of an open upvalue lives, or is about to. *)
LivesAt(uv, n) ==
    \/ n <= Len(stack) /\ slotVar[n] = upVar[uv]
    \/ naming # 0 /\ upVar[uv] = naming /\ n = Len(stack) + 1

ChainInv ==
    /\ \A j, k \in 1 .. Len(open) : j < k => position[open[j]] > position[open[k]]
    /\ \A uv \in Upvalues : ~isClosed[uv] <=> Chained(uv)
    /\ \A uv \in Upvalues : ~isClosed[uv] => LivesAt(uv, position[uv])
    /\ OneUpvaluePerVariable

ValuesInv ==
    /\ \A n \in 1 .. Len(stack) : slotVar[n] # 0 => stack[n] = store[slotVar[n]]
    /\ \A uv \in Upvalues : upVar[uv] # naming => UpvalueValue(uv) = store[upVar[uv]]

Inv ==
    /\ Types /\ KnownInv /\ FramesInv /\ NamingInv /\ VariablesInv
    /\ ClosedGone /\ ChainInv /\ ValuesInv

LEMMA InitInv == Init => Inv
<1> SUFFICES ASSUME Init PROVE Inv
    OBVIOUS
<1> USE SizesAssumption DEF Init
<1>1. Types
    BY DEF Types, FrameRecords, UpRefs
<1>2. KnownInv
    BY DEF KnownInv, UpsKnown, Known, Upvalues, Variables
<1>3. FramesInv
    BY DEF FramesInv, FrameHolds, EndOf
<1>4. NamingInv /\ VariablesInv /\ ClosedGone
    BY DEF NamingInv, VariablesInv, ClosedGone, Upvalues
<1>5. ChainInv /\ ValuesInv
    BY DEF ChainInv, ValuesInv, Chained, LivesAt, OneUpvaluePerVariable, Upvalues
<1> QED BY <1>1, <1>2, <1>3, <1>4, <1>5 DEF Inv

(* What Append and SubSeq do to a sequence. *)
LEMMA AppendFacts ==
    ASSUME NEW S, NEW s \in Seq(S), NEW e \in S
    PROVE  /\ Append(s, e) \in Seq(S)
           /\ Len(Append(s, e)) = Len(s) + 1
           /\ \A i \in 1 .. Len(s) : Append(s, e)[i] = s[i]
           /\ Append(s, e)[Len(s) + 1] = e
    OBVIOUS

LEMMA PrefixFacts ==
    ASSUME NEW S, NEW s \in Seq(S), NEW n \in 0 .. Len(s)
    PROVE  /\ SubSeq(s, 1, n) \in Seq(S)
           /\ Len(SubSeq(s, 1, n)) = n
           /\ \A i \in 1 .. n : SubSeq(s, 1, n)[i] = s[i]
    BY SubSeqProperties

LEMMA FunctionIsSeq ==
    ASSUME NEW S, NEW n \in Nat, NEW f \in [1 .. n -> S]
    PROVE  f \in Seq(S) /\ Len(f) = n
    OBVIOUS

LEMMA SuffixFacts ==
    ASSUME NEW S, NEW s \in Seq(S), NEW k \in 0 .. Len(s)
    PROVE  /\ SubSeq(s, k + 1, Len(s)) \in Seq(S)
           /\ Len(SubSeq(s, k + 1, Len(s))) = Len(s) - k
           /\ \A i \in 1 .. Len(s) - k : SubSeq(s, k + 1, Len(s))[i] = s[i + k]
<1>1. k + 1 \in Int /\ Len(s) \in Int /\ k + 1 <= Len(s) + 1
    OBVIOUS
<1>2. \A i \in 1 .. Len(s) - k : i + (k + 1) - 1 = i + k /\ i + k \in 1 .. Len(s)
    BY <1>1
<1> QED BY <1>1, <1>2, SubSeqProperties

(* The types of elements. *)
LEMMA Elements ==
    ASSUME Types
    PROVE  /\ Len(stack) \in Nat /\ Len(frames) \in Nat /\ Len(open) \in Nat
           /\ Len(position) \in Nat /\ Len(store) \in Nat
           /\ \A n \in 1 .. Len(stack) : slotVar[n] \in Nat /\ stack[n] \in Values
           /\ \A uv \in Upvalues : /\ position[uv] \in Nat \ {0} /\ upVar[uv] \in Nat \ {0}
                                   /\ isClosed[uv] \in BOOLEAN /\ closed[uv] \in Values
           /\ \A x \in Variables : store[x] \in Values
           /\ \A j \in 1 .. Len(open) : open[j] \in Nat \ {0}
           /\ \A f \in 1 .. Len(frames) : frames[f] \in FrameRecords
<1> USE SizesAssumption DEF Types, Upvalues, Variables
<1>1. /\ Len(stack) \in Nat /\ Len(frames) \in Nat /\ Len(open) \in Nat
      /\ Len(position) \in Nat /\ Len(store) \in Nat
    BY DEF UpRefs
<1>2. \A n \in 1 .. Len(stack) : slotVar[n] \in 0 .. MaxVars /\ stack[n] \in Values
    BY SMTT(30)
<1>3. ASSUME NEW uv \in Upvalues
      PROVE  /\ position[uv] \in Nat \ {0} /\ upVar[uv] \in Nat \ {0}
             /\ isClosed[uv] \in BOOLEAN /\ closed[uv] \in Values
  <2>1. position[uv] \in 1 .. StackMax + 1
    BY SMTT(30)
  <2>2. upVar[uv] \in 1 .. MaxVars
    <3>1. upVar \in Seq(1 .. MaxVars) /\ uv \in 1 .. Len(upVar)
      OBVIOUS
    <3> QED BY <3>1, ElementOfSeq DEF Types
  <2>3. isClosed[uv] \in BOOLEAN
    BY SMTT(30)
  <2>4. closed[uv] \in Values
    OBVIOUS
  <2>5. 1 .. StackMax + 1 \subseteq Nat \ {0} /\ 1 .. MaxVars \subseteq Nat \ {0}
    BY SMTT(30)
  <2> HIDE DEF Types, Upvalues, Variables
  <2> QED BY <2>1, <2>2, <2>3, <2>4, <2>5
<1>4. \A j \in 1 .. Len(open) : open[j] \in 1 .. MaxUpvalues
    BY SMTT(30) DEF UpRefs
<1>5. \A f \in 1 .. Len(frames) : frames[f] \in FrameRecords
    OBVIOUS
<1>6. \A n \in 1 .. Len(stack) : slotVar[n] \in Nat
    BY <1>2
<1>7. \A j \in 1 .. Len(open) : open[j] \in Nat \ {0}
    BY <1>4
<1>8. \A x \in Variables : store[x] \in Values
    OBVIOUS
<1> HIDE DEF Types, Upvalues, Variables
<1> QED BY <1>1, <1>2, <1>3, <1>5, <1>6, <1>7, <1>8

(* What the invariant says of the frame that runs. *)
TopHolds ==
    /\ Len(frames) > 0
    /\ LocalTop <= Len(stack) /\ Frame.fixed <= Frame.locals
    /\ Len(frames) = 1 \/ Frame.fixed > 0
    /\ \A n \in 1 .. Len(stack) :
            n > Frame.base =>
                (slotVar[n] # 0 <=> n <= LocalTop /\ (Len(frames) = 1 \/ n > Frame.base + 1))

LEMMA FrameType ==
    ASSUME Types, Len(frames) > 0
    PROVE  /\ Frame \in FrameRecords /\ Frame.ups \in UpRefs
           /\ Frame.base \in Nat /\ Frame.locals \in Nat /\ Frame.fixed \in Nat
           /\ Frame.base <= LocalTop /\ LocalTop \in Nat
<1>1. Frame \in FrameRecords
    BY DEF Types, Frame
<1> QED BY <1>1 DEF FrameRecords, LocalTop

LEMMA TopFrame ==
    ASSUME Inv, Live
    PROVE  /\ TopHolds
           /\ UpsKnown(Frame.ups, Len(position))
           /\ Operands = Len(stack) - LocalTop
           /\ \A n \in 1 .. Len(stack) : n > LocalTop => slotVar[n] = 0
           /\ \A n \in NamedLocals : n \in 1 .. Len(stack) /\ slotVar[n] \in Variables
<1>1. Types /\ KnownInv /\ Len(frames) \in 1 .. Len(frames) /\ FrameHolds(Len(frames))
    BY DEF Inv, Types, FramesInv
<1>2. Frame.base \in Nat /\ Frame.locals \in Nat /\ LocalTop \in Nat /\ Frame.base <= LocalTop
    BY <1>1, FrameType
<1>3. Len(stack) \in Nat /\ Len(frames) \in Nat
    BY <1>1 DEF Types
<1>4. TopHolds
  <2>1. /\ LocalTop <= Len(stack) /\ Frame.fixed <= Frame.locals
        /\ Len(frames) = 1 \/ Frame.fixed > 0
    BY <1>1 DEF FrameHolds, EndOf, Frame, LocalTop
  <2>2. ASSUME NEW n \in 1 .. Len(stack), n > Frame.base
        PROVE  slotVar[n] # 0 <=> n <= LocalTop /\ (Len(frames) = 1 \/ n > Frame.base + 1)
    <3>1. n \in Frame.base + 1 .. Len(stack)
      BY <1>2, <1>3, <2>2
    <3> QED BY <1>1, <3>1 DEF FrameHolds, EndOf, Frame, LocalTop
  <2>3. Len(frames) > 0
    BY <1>1, <1>3
  <2> QED BY <2>1, <2>2, <2>3 DEF TopHolds
<1>5. \A n \in 1 .. Len(stack) : slotVar[n] \in 0 .. Len(store)
    BY SMTT(30), <1>1, SizesAssumption DEF Types, KnownInv
<1>6. \A n \in 1 .. Len(stack) : n > LocalTop => slotVar[n] = 0
  <2> SUFFICES ASSUME NEW n \in 1 .. Len(stack), n > LocalTop PROVE slotVar[n] = 0
      OBVIOUS
  <2>1. n > Frame.base /\ ~(n <= LocalTop)
    BY <1>2, <1>3
  <2> QED BY <1>4, <2>1 DEF TopHolds
<1>7. \A n \in NamedLocals : n \in 1 .. Len(stack) /\ slotVar[n] # 0
    BY <1>2, <1>3, <1>4 DEF TopHolds, NamedLocals
<1>8. \A n \in NamedLocals : slotVar[n] \in Variables
    BY <1>1, <1>5, <1>7 DEF Variables, Types
<1>9. UpsKnown(Frame.ups, Len(position))
    BY <1>1 DEF KnownInv, Frame
<1> QED BY <1>4, <1>6, <1>7, <1>8, <1>9 DEF Operands

(* Frames below the running one keep their slots. *)
LEMMA FramesStep ==
    ASSUME Inv, Types', Live, NEW d \in Nat \ {0}, Len(frames') = d,
           \A f \in 1 .. d - 1 :
                /\ f <= Len(frames) /\ frames'[f] = frames[f]
                /\ frames'[f + 1].base <= EndOf(f)
                /\ frames[f].base + frames[f].locals <= frames'[d].base,
           \A n \in 1 .. frames'[d].base : slotVar'[n] = slotVar[n],
           FrameHolds(d)'
    PROVE  FramesInv'
<1>1. /\ \A f, g \in 1 .. Len(frames) :
            f < g => frames[f].base + frames[f].locals <= frames[g].base
      /\ \A f \in 1 .. Len(frames) : FrameHolds(f)
    BY DEF Inv, FramesInv
<1>2. /\ \A f \in 1 .. Len(frames) : frames[f].base \in Nat /\ frames[f].locals \in Nat
      /\ \A f \in 1 .. d : frames'[f].base \in Nat /\ frames'[f].locals \in Nat
  <2>1. \A f \in 1 .. Len(frames) : frames[f] \in FrameRecords
    BY DEF Inv, Types
  <2>2. \A f \in 1 .. d : frames'[f] \in FrameRecords
    BY DEF Types
  <2> QED BY <2>1, <2>2 DEF FrameRecords
<1>3. ASSUME NEW f \in 1 .. d, NEW g \in 1 .. d, f < g
      PROVE  frames'[f].base + frames'[f].locals <= frames'[g].base
  <2>1. f \in 1 .. d - 1 /\ f \in 1 .. Len(frames) /\ frames'[f] = frames[f]
    BY <1>3 DEF Inv, Types
  <2>2. CASE g = d
    BY <2>1, <2>2
  <2>3. CASE g < d
    BY SMTT(30), <1>1, <1>3, <2>1, <2>3
  <2> QED BY <2>2, <2>3
<1>4. ASSUME NEW f \in 1 .. d - 1 PROVE FrameHolds(f)'
  <2>1. f \in 1 .. Len(frames) /\ f + 1 \in 1 .. d /\ frames'[f] = frames[f] /\ FrameHolds(f)
    BY <1>1, <1>4
  <2>2. EndOf(f)' = frames'[f + 1].base /\ EndOf(f)' <= EndOf(f)
    BY <1>4 DEF EndOf
  <2>3. frames[f].base + frames[f].locals <= frames'[f + 1].base
    BY <1>3, <2>1
  <2>4. frames'[f + 1].base <= frames'[d].base
    <3>1. CASE f + 1 = d
      BY <1>2, <2>1, <3>1
    <3>2. CASE f + 1 < d
      <4>1. frames'[f + 1].base + frames'[f + 1].locals <= frames'[d].base
        BY <1>3, <2>1, <3>2
      <4> QED BY <1>2, <2>1, <4>1
    <3> QED BY <2>1, <3>1, <3>2
  <2>5. Len(stack) \in Nat /\ EndOf(f) \in Nat
    BY SMTT(30), <1>2, <2>1 DEF EndOf, Inv, Types
  <2>6. \A n \in frames[f].base + 1 .. frames'[f + 1].base :
            slotVar'[n] = slotVar[n] /\ n \in frames[f].base + 1 .. EndOf(f)
    BY SMTT(30), <1>2, <2>1, <2>2, <2>4, <2>5
  <2> QED BY <2>1, <2>2, <2>3, <2>6 DEF FrameHolds
<1> QED BY <1>3, <1>4 DEF FramesInv

(* A step that may change the running frame, but not where it begins. *)
LEMMA TopStep ==
    ASSUME Inv, Types', Live, Len(frames') = Len(frames),
           \A f \in 1 .. Len(frames) - 1 : frames'[f] = frames[f],
           Frame'.base = Frame.base,
           \A n \in 1 .. Frame.base : slotVar'[n] = slotVar[n],
           TopHolds'
    PROVE  FramesInv'
<1> DEFINE d == Len(frames)
<1>1. d \in Nat \ {0} /\ Types
    BY TopFrame DEF TopHolds, Inv, Types
<1>2. frames'[d].base = frames[d].base
    BY DEF Frame
<1>3. FrameHolds(d)'
  <2>1. Frame' = frames'[d] /\ EndOf(d)' = Len(stack')
    BY DEF Frame, EndOf
  <2>2. Len(stack') \in Nat /\ Frame'.base \in Nat
    BY <1>1, FrameType DEF Types
  <2>3. \A n \in Frame'.base + 1 .. Len(stack') : n \in 1 .. Len(stack') /\ n > Frame'.base
    BY <2>2
  <2>4. /\ Frame'.base + Frame'.locals <= Len(stack') /\ Frame'.fixed <= Frame'.locals
        /\ d = 1 \/ Frame'.fixed > 0
        /\ \A n \in 1 .. Len(stack') :
            n > Frame'.base =>
                (slotVar'[n] # 0 <=> /\ n <= Frame'.base + Frame'.locals
                                     /\ d = 1 \/ n > Frame'.base + 1)
    BY DEF TopHolds, LocalTop
  <2>6. d' = d
    OBVIOUS
  <2> HIDE DEF d
  <2>5. \A n \in frames'[d].base + 1 .. Len(stack') :
            slotVar'[n] # 0 <=> /\ n <= frames'[d].base + frames'[d].locals
                                /\ d = 1 \/ n > frames'[d].base + 1
    BY <2>1, <2>3, <2>4
  <2> QED BY <2>1, <2>4, <2>5, <2>6 DEF FrameHolds
<1>4. ASSUME NEW f \in 1 .. d - 1
      PROVE  /\ f <= Len(frames) /\ frames'[f] = frames[f]
             /\ frames'[f + 1].base <= EndOf(f)
             /\ frames[f].base + frames[f].locals <= frames'[d].base
  <2>1. f \in 1 .. d /\ f + 1 \in 1 .. d /\ d \in 1 .. d /\ f < d
    BY <1>1
  <2>2. frames[f].base + frames[f].locals <= frames'[d].base
    BY <1>2, <2>1 DEF Inv, FramesInv
  <2>3. frames'[f + 1].base = frames[f + 1].base
    <3>1. CASE f + 1 = d
      BY <1>2, <3>1
    <3>2. CASE f + 1 # d
      BY <2>1, <3>2
    <3> QED BY <3>1, <3>2
  <2>4. EndOf(f) = frames[f + 1].base /\ frames[f + 1].base \in Nat
    <3>1. frames[f + 1] \in FrameRecords
      BY <1>1, <2>1 DEF Types
    <3> QED BY <2>1, <3>1 DEF EndOf, FrameRecords
  <2> QED BY <2>1, <2>2, <2>3, <2>4
<1>5. \A n \in 1 .. frames'[d].base : slotVar'[n] = slotVar[n]
    BY <1>2 DEF Frame
<1> HIDE DEF d
<1> QED BY <1>1, <1>3, <1>4, <1>5, FramesStep DEF d

(* An error ends the run and changes nothing else. *)
LEMMA CrashStep ==
    ASSUME Inv, Live, status' = "crashed",
           UNCHANGED <<stack, frames, upvalueVars, building, naming, slotVar, store>>
    PROVE  Inv'
<1> USE DEF upvalueVars
<1>1. Types'
    BY DEF Inv, Types
<1>2. KnownInv'
    BY DEF Inv, KnownInv, Upvalues, Variables
<1>3. FramesInv'
    BY DEF Inv, FramesInv, Live, FrameHolds, EndOf
<1>4. NamingInv' /\ VariablesInv'
    BY DEF Inv, NamingInv, VariablesInv, Upvalues, Operands, LocalTop, Frame, Live
<1>5. ClosedGone'
    BY DEF Inv, ClosedGone, Live, Upvalues
<1>6. ChainInv'
    BY DEF Inv, ChainInv, Chained, LivesAt, OneUpvaluePerVariable, Upvalues
<1>7. ValuesInv'
    BY DEF Inv, ValuesInv, UpvalueValue, Upvalues
<1> QED BY <1>1, <1>2, <1>3, <1>4, <1>5, <1>6, <1>7 DEF Inv

(* An operand more. *)
LEMMA PushFacts ==
    ASSUME Inv, Live, naming = 0, NEW v \in Values, Known(v, Len(position)),
           CanPush, Push(v), building' \in {building, << >>},
           UNCHANGED <<frames, upvalueVars, naming, status, store>>
    PROVE  Inv'
<1>1. naming' = 0 /\ Upvalues' = Upvalues /\ Types
    BY DEF Upvalues, Inv, upvalueVars
<1>2. /\ UNCHANGED <<frames, open, position, isClosed, closed, upVar, store, status>>
      /\ UNCHANGED <<Frame, LocalTop, Variables>>
    BY DEF upvalueVars, Frame, LocalTop, Variables
<1>a. building' \in UpRefs /\ Len(building') <= MaxCaptures /\ UpsKnown(building', Len(position))
  <2>1. CASE building' = building
    BY <2>1 DEF Inv, Types, KnownInv
  <2>2. CASE building' = << >>
    BY <2>2, SizesAssumption DEF UpRefs, UpsKnown
  <2> QED BY <2>1, <2>2
<1>3. /\ Len(stack') = Len(stack) + 1 /\ Len(slotVar') = Len(stack) + 1
      /\ stack' \in Seq(Values) /\ slotVar' \in Seq(0 .. MaxVars)
      /\ \A n \in 1 .. Len(stack) : stack'[n] = stack[n] /\ slotVar'[n] = slotVar[n]
      /\ stack'[Len(stack) + 1] = v /\ slotVar'[Len(stack) + 1] = 0
  <2>1. 0 \in 0 .. MaxVars
    BY SizesAssumption
  <2> QED BY <1>1, <2>1, AppendFacts DEF Types, Push
<1>4. \A n \in 1 .. Len(stack') : n \in 1 .. Len(stack) \/ n = Len(stack) + 1
    BY <1>1, <1>3 DEF Types
<1>5. Types'
    BY <1>1, <1>2, <1>a, <1>3, SizesAssumption DEF Types, CanPush
<1>6. KnownInv'
  <2>1. 0 <= Len(store)
    BY <1>1, Elements
  <2> QED BY <1>1, <1>2, <1>a, <1>3, <1>4, <2>1 DEF Inv, KnownInv
<1>7. FramesInv'
  <2>1. TopHolds /\ \A n \in 1 .. Len(stack) : n > LocalTop => slotVar[n] = 0
    BY <1>1, TopFrame
  <2>2. Frame.base \in Nat /\ LocalTop \in Nat /\ Len(stack) \in Nat
    BY <1>1, <2>1, FrameType DEF Types, TopHolds
  <2>3. TopHolds'
    BY <1>2, <1>3, <1>4, <2>1, <2>2 DEF TopHolds
  <2>4. \A n \in 1 .. Frame.base : slotVar'[n] = slotVar[n]
    BY <1>1, <1>3, <2>1, <2>2, FrameType DEF TopHolds
  <2> QED BY <1>1, <1>2, <1>5, <2>3, <2>4, TopStep
<1>8. NamingInv'
    BY <1>1 DEF NamingInv
<1>9. VariablesInv'
    BY <1>1, <1>2, <1>3, <1>4 DEF Inv, VariablesInv
<1>10. ClosedGone'
    BY <1>1, <1>2, <1>3, <1>4, Elements DEF Inv, ClosedGone
<1>11. ChainInv'
  <2>1. \A uv \in Upvalues : LivesAt(uv, position[uv]) => LivesAt(uv, position[uv])'
    BY <1>1, <1>2, <1>3, Elements DEF LivesAt
  <2> QED BY <1>1, <1>2, <2>1 DEF Inv, ChainInv, Chained, OneUpvaluePerVariable
<1>12. ValuesInv'
  <2>1. \A uv \in Upvalues : UpvalueValue(uv)' = UpvalueValue(uv)
    BY <1>1, <1>2, <1>3, Elements DEF Inv, ChainInv, LivesAt, UpvalueValue
  <2> QED BY <1>1, <1>2, <1>3, <1>4, <2>1 DEF Inv, ValuesInv
<1> QED BY <1>5, <1>6, <1>7, <1>8, <1>9, <1>10, <1>11, <1>12 DEF Inv

(* An operand more, or an overflow. *)
LEMMA PushStep ==
    ASSUME Inv, Running, NEW v \in Values, Known(v, Len(position)), PushOperand(v)
    PROVE  Inv'
<1>1. Live /\ naming = 0
    BY DEF Running, Live
<1>2. CASE ~CanPush /\ Overflow
    BY <1>1, <1>2, CrashStep DEF PushOperand, Overflow
<1>3. CASE CanPush /\ Push(v) /\ UNCHANGED status
    BY <1>1, <1>3, PushFacts DEF PushOperand
<1> QED BY <1>2, <1>3 DEF PushOperand

(* Any statement that leaves an operand, and expression statements. *)
LEMMA ConstantStep == ASSUME Inv, Constant PROVE Inv'
<1>1. PICK v \in Data : PushOperand(v)
    BY DEF Constant
<1>2. v \in Values /\ Known(v, Len(position)) /\ Running
    BY DEF Constant, Values, Known, IsFunction
<1> QED BY <1>1, <1>2, PushStep

LEMMA GetLocalStep == ASSUME Inv, GetLocal PROVE Inv'
<1>1. PICK n \in NamedLocals : PushOperand(stack[n])
    BY DEF GetLocal
<1>2. Running /\ Live /\ Types
    BY DEF GetLocal, Running, Live, Inv
<1>3. n \in 1 .. Len(stack)
    BY <1>2, TopFrame
<1>4. stack[n] \in Values /\ Known(stack[n], Len(position))
    BY <1>2, <1>3, Elements DEF Inv, KnownInv
<1> QED BY <1>1, <1>2, <1>4, PushStep

(* The value of an upvalue, wherever it is. *)
LEMMA UpvalueValueFacts ==
    ASSUME Inv, naming = 0, NEW uv \in Upvalues
    PROVE  /\ UpvalueValue(uv) \in Values /\ Known(UpvalueValue(uv), Len(position))
           /\ ~isClosed[uv] => position[uv] \in 1 .. Len(stack) /\ slotVar[position[uv]] = upVar[uv]
<1>1. ~isClosed[uv] => position[uv] \in 1 .. Len(stack) /\ slotVar[position[uv]] = upVar[uv]
    BY Elements DEF Inv, ChainInv, LivesAt
<1> QED BY <1>1, Elements DEF Inv, KnownInv, UpvalueValue

LEMMA FrameUpvalues ==
    ASSUME Inv, Live, NEW i \in DOMAIN Frame.ups
    PROVE  Frame.ups[i] \in Upvalues
<1>1. Frame.ups \in UpRefs /\ UpsKnown(Frame.ups, Len(position)) /\ Len(position) \in Nat
    BY TopFrame, FrameType, Elements DEF Inv, TopHolds
<1> QED BY <1>1, SizesAssumption DEF UpRefs, UpsKnown, Upvalues

LEMMA GetUpvalueStep == ASSUME Inv, GetUpvalue PROVE Inv'
<1>1. PICK i \in DOMAIN Frame.ups : PushOperand(UpvalueValue(Frame.ups[i]))
    BY DEF GetUpvalue
<1>2. Running /\ Live /\ naming = 0
    BY DEF GetUpvalue, Running, Live
<1>3. Frame.ups[i] \in Upvalues
    BY <1>2, FrameUpvalues
<1> QED BY <1>1, <1>2, <1>3, UpvalueValueFacts, PushStep

(* The operand on top. *)
LEMMA TopOperand ==
    ASSUME Inv, Running, Operands > 0
    PROVE  /\ Len(stack) \in 1 .. Len(stack) /\ Len(stack) > LocalTop
           /\ Top \in Values /\ Known(Top, Len(position))
           /\ slotVar[Len(stack)] = 0
<1>1. /\ Live /\ Types /\ KnownInv /\ Operands = Len(stack) - LocalTop
      /\ TopHolds /\ \A n \in 1 .. Len(stack) : n > LocalTop => slotVar[n] = 0
    BY TopFrame DEF Running, Live, Inv
<1>2. LocalTop \in Nat /\ Len(stack) \in Nat
    BY <1>1, FrameType, Elements DEF TopHolds
<1>3. Len(stack) \in 1 .. Len(stack) /\ Len(stack) > LocalTop
    BY <1>1, <1>2
<1> QED BY <1>1, <1>3, Elements DEF Top, KnownInv

(* An assignment changes a variable where it lives, and nowhere else. *)
LEMMA AssignStep ==
    ASSUME Inv, Running, Operands > 0, NEW x \in Variables,
           stack' \in Seq(Values), Len(stack') = Len(stack),
           \A n \in 1 .. Len(stack) : stack'[n] = IF slotVar[n] = x THEN Top ELSE stack[n],
           closed' \in Seq(Values), Len(closed') = Len(closed),
           \A uv \in Upvalues : closed'[uv] \in {Top, closed[uv]},
           \A uv \in Upvalues :
                isClosed[uv] => closed'[uv] = IF upVar[uv] = x THEN Top ELSE closed[uv],
           store' = [store EXCEPT ![x] = Top],
           UNCHANGED <<frames, open, position, isClosed, upVar, building, naming, status, slotVar>>
    PROVE  Inv'
<1>0. /\ Live /\ naming = 0 /\ Types /\ KnownInv
      /\ Top \in Values /\ Known(Top, Len(position))
    BY TopOperand DEF Running, Live, Inv
<1>1. UNCHANGED <<Upvalues, Frame, LocalTop, Operands>>
    BY DEF Upvalues, Frame, LocalTop, Operands
<1>2. /\ store' \in Seq(Values) /\ Len(store') = Len(store) /\ Variables' = Variables
      /\ \A y \in Variables : store'[y] = IF y = x THEN Top ELSE store[y]
  <2>1. store \in Seq(Values) /\ x \in 1 .. Len(store)
    BY <1>0 DEF Types, Variables
  <2> QED BY <1>0, <2>1, ExceptSeq DEF Variables
<1>3. Types'
    BY <1>0, <1>2 DEF Types
<1>4. KnownInv'
    BY <1>0, <1>1, <1>2 DEF KnownInv
<1>5. FramesInv'
    BY <1>0 DEF Inv, FramesInv, Live, FrameHolds, EndOf
<1>6. NamingInv' /\ VariablesInv' /\ ClosedGone'
    BY <1>0, <1>1, <1>2 DEF Inv, NamingInv, VariablesInv, ClosedGone, Live
<1>7. ChainInv'
    BY <1>0, <1>1 DEF Inv, ChainInv, Chained, LivesAt, OneUpvaluePerVariable
<1>8. ValuesInv'
  <2>1. \A uv \in Upvalues : upVar[uv] \in Variables
    BY <1>0, Elements DEF Inv, VariablesInv, Variables
  <2>2. \A n \in 1 .. Len(stack) : slotVar[n] # 0 => slotVar[n] \in Variables
    BY <1>0, Elements DEF KnownInv, Variables
  <2>3. \A uv \in Upvalues :
            UpvalueValue(uv)' = IF upVar[uv] = x THEN Top ELSE UpvalueValue(uv)
    BY <1>0, UpvalueValueFacts DEF UpvalueValue
  <2>4. \A n \in 1 .. Len(stack) : slotVar[n] # 0 => stack'[n] = store'[slotVar[n]]
    BY <1>2, <2>2 DEF Inv, ValuesInv
  <2>5. \A uv \in Upvalues : UpvalueValue(uv)' = store'[upVar[uv]]
    BY <1>0, <1>2, <2>1, <2>3, Elements DEF Inv, ValuesInv
  <2> QED BY <1>1, <2>4, <2>5 DEF ValuesInv
<1> QED BY <1>3, <1>4, <1>5, <1>6, <1>7, <1>8 DEF Inv

LEMMA SetLocalStep == ASSUME Inv, SetLocal PROVE Inv'
<1>1. PICK n \in NamedLocals :
            stack' = [stack EXCEPT ![n] = Top] /\ store' = [store EXCEPT ![slotVar[n]] = Top]
    BY DEF SetLocal
<1>2. /\ Running /\ Operands > 0 /\ Live /\ Types /\ Top \in Values
      /\ UNCHANGED <<frames, open, position, isClosed, closed, upVar, building, naming, status,
                    slotVar>>
    BY TopOperand DEF SetLocal, Running, Live, Inv, upvalueVars
<1>3. n \in 1 .. Len(stack) /\ slotVar[n] \in Variables
    BY <1>2, TopFrame
<1>4. /\ stack' \in Seq(Values) /\ Len(stack') = Len(stack)
      /\ \A m \in 1 .. Len(stack) : stack'[m] = IF m = n THEN Top ELSE stack[m]
    BY <1>1, <1>2, <1>3, ExceptSeq DEF Types
<1>5. slotVar[n] # 0
    BY <1>2, <1>3, Elements DEF Variables
<1>6. \A m \in 1 .. Len(stack) : stack'[m] = IF slotVar[m] = slotVar[n] THEN Top ELSE stack[m]
    BY <1>3, <1>4, <1>5 DEF Inv, VariablesInv
<1>7. \A uv \in Upvalues : isClosed[uv] => upVar[uv] # slotVar[n]
    BY <1>2, <1>3 DEF Inv, ClosedGone
<1> QED BY <1>1, <1>2, <1>3, <1>4, <1>6, <1>7, AssignStep DEF Types

LEMMA SetUpvalueStep == ASSUME Inv, SetUpvalue PROVE Inv'
<1>1. PICK i \in DOMAIN Frame.ups :
        /\ \/ /\ isClosed[Frame.ups[i]]
              /\ closed' = [closed EXCEPT ![Frame.ups[i]] = Top]
              /\ UNCHANGED stack
           \/ /\ ~isClosed[Frame.ups[i]]
              /\ stack' = [stack EXCEPT ![position[Frame.ups[i]]] = Top]
              /\ UNCHANGED closed
        /\ store' = [store EXCEPT ![upVar[Frame.ups[i]]] = Top]
    BY DEF SetUpvalue
<1> DEFINE uv == Frame.ups[i]
<1>2. /\ Running /\ Operands > 0 /\ Live /\ Types /\ Top \in Values /\ naming = 0
      /\ UNCHANGED <<frames, open, position, isClosed, upVar, building, naming, status, slotVar>>
    BY TopOperand DEF SetUpvalue, Running, Live, Inv
<1>3. uv \in Upvalues
    BY <1>2, FrameUpvalues
<1>4. upVar[uv] \in Variables /\ upVar[uv] # 0
    BY <1>2, <1>3, Elements DEF Inv, VariablesInv, Variables
<1>5. store' = [store EXCEPT ![upVar[uv]] = Top]
    BY <1>1 DEF uv
<1> HIDE DEF uv
<1>6. CASE isClosed[uv]
  <2>1. closed' = [closed EXCEPT ![uv] = Top] /\ stack' = stack
    BY <1>1, <1>6 DEF uv
  <2>2. /\ closed' \in Seq(Values) /\ Len(closed') = Len(closed)
        /\ \A w \in Upvalues : closed'[w] = IF w = uv THEN Top ELSE closed[w]
    BY <1>2, <1>3, <2>1, ExceptSeq DEF Types, Upvalues
  <2>3. \A w \in Upvalues : upVar[w] = upVar[uv] => w = uv
    BY <1>3 DEF Inv, ChainInv, OneUpvaluePerVariable
  <2>4. \A n \in 1 .. Len(stack) : slotVar[n] # upVar[uv]
    BY <1>2, <1>3, <1>6 DEF Inv, ClosedGone
  <2>5. /\ \A w \in Upvalues : closed'[w] \in {Top, closed[w]}
        /\ \A w \in Upvalues :
               isClosed[w] => closed'[w] = IF upVar[w] = upVar[uv] THEN Top ELSE closed[w]
    BY <2>2, <2>3
  <2>6. \A n \in 1 .. Len(stack) : stack'[n] = IF slotVar[n] = upVar[uv] THEN Top ELSE stack[n]
    BY <2>1, <2>4
  <2>7. stack' \in Seq(Values) /\ Len(stack') = Len(stack)
    BY <1>2, <2>1 DEF Types
  <2> QED BY <1>2, <1>4, <1>5, <2>2, <2>5, <2>6, <2>7, AssignStep
<1>7. CASE ~isClosed[uv]
  <2> DEFINE p == position[uv]
  <2>1. stack' = [stack EXCEPT ![p] = Top] /\ closed' = closed
    BY <1>1, <1>7 DEF uv
  <2>2. p \in 1 .. Len(stack) /\ slotVar[p] = upVar[uv]
    BY <1>2, <1>3, <1>7, UpvalueValueFacts
  <2>3. /\ stack' \in Seq(Values) /\ Len(stack') = Len(stack)
        /\ \A n \in 1 .. Len(stack) : stack'[n] = IF n = p THEN Top ELSE stack[n]
    BY <1>2, <2>1, <2>2, ExceptSeq DEF Types
  <2>4. \A n \in 1 .. Len(stack) : slotVar[n] = upVar[uv] => n = p
    BY <1>4, <2>2 DEF Inv, VariablesInv
  <2>5. \A w \in Upvalues : isClosed[w] => upVar[w] # upVar[uv]
    BY <1>3, <1>7 DEF Inv, ChainInv, OneUpvaluePerVariable
  <2>6. /\ \A w \in Upvalues : closed'[w] \in {Top, closed[w]}
        /\ \A w \in Upvalues :
               isClosed[w] => closed'[w] = IF upVar[w] = upVar[uv] THEN Top ELSE closed[w]
    BY <2>1, <2>5
  <2>7. \A n \in 1 .. Len(stack) : stack'[n] = IF slotVar[n] = upVar[uv] THEN Top ELSE stack[n]
    BY <2>2, <2>3, <2>4
  <2>8. closed' \in Seq(Values) /\ Len(closed') = Len(closed)
    BY SMTT(30), <1>2, <2>1 DEF Types
  <2> QED BY <1>2, <1>4, <1>5, <2>3, <2>6, <2>7, <2>8, AssignStep
<1> QED BY <1>6, <1>7

(* The chain after the upvalues above slot h have been closed. *)
ClosedAbove(h) ==
    /\ open' \in UpRefs /\ UpsKnown(open', Len(position))
    /\ isClosed' \in Seq(BOOLEAN) /\ Len(isClosed') = Len(position)
    /\ closed' \in Seq(Values) /\ Len(closed') = Len(position)
    /\ position' = position /\ upVar' = upVar
    /\ \A j, k \in 1 .. Len(open') : j < k => position[open'[j]] > position[open'[k]]
    /\ \A uv \in Upvalues : ~isClosed'[uv] <=> \E j \in 1 .. Len(open') : open'[j] = uv
    /\ \A uv \in Upvalues : isClosed'[uv] <=> isClosed[uv] \/ position[uv] > h
    /\ \A uv \in Upvalues :
            closed'[uv] = IF ~isClosed[uv] /\ position[uv] > h THEN stack[position[uv]]
                                                             ELSE closed[uv]

LEMMA CloseFacts ==
    ASSUME Inv, naming = 0, NEW h \in Nat, CloseUpvalues(h + 1)
    PROVE  ClosedAbove(h)
<1>1. Types /\ ChainInv /\ KnownInv
    BY DEF Inv
<1>2. PICK k \in 0 .. Len(open) :
        /\ \A j \in 1 .. k : position[open[j]] > h
        /\ k < Len(open) => position[open[k + 1]] <= h
        /\ LET gone == {open[j] : j \in 1 .. k} IN
            /\ closed' = [uv \in Upvalues |->
                            IF uv \in gone THEN stack[position[uv]] ELSE closed[uv]]
            /\ isClosed' = [uv \in Upvalues |-> uv \in gone \/ isClosed[uv]]
        /\ open' = SubSeq(open, k + 1, Len(open))
        /\ UNCHANGED <<position, upVar>>
    BY DEF CloseUpvalues, LeadingAbove
<1>3. /\ Len(open) \in Nat /\ Len(position) \in Nat
      /\ \A j \in 1 .. Len(open) : open[j] \in Upvalues
      /\ \A uv \in Upvalues : position[uv] \in Nat
    BY <1>1, Elements DEF KnownInv, UpsKnown, Upvalues
<1>4. \A j \in 1 .. Len(open) : position[open[j]] > h <=> j <= k
  <2> SUFFICES ASSUME NEW j \in 1 .. Len(open), j > k PROVE position[open[j]] <= h
      BY <1>2, <1>3
  <2>1. k + 1 \in 1 .. Len(open) /\ position[open[k + 1]] <= h
    BY <1>2, <1>3
  <2>2. CASE j = k + 1
    BY <2>1, <2>2
  <2>3. CASE j > k + 1
    BY <1>1, <1>3, <2>1, <2>3 DEF ChainInv
  <2> QED BY <1>2, <2>2, <2>3
<1>5. \A uv \in Upvalues :
            (\E j \in 1 .. k : uv = open[j]) <=> ~isClosed[uv] /\ position[uv] > h
  <2> SUFFICES ASSUME NEW uv \in Upvalues
               PROVE  (\E j \in 1 .. k : uv = open[j]) <=> ~isClosed[uv] /\ position[uv] > h
      OBVIOUS
  <2>1. ~isClosed[uv] <=> \E j \in 1 .. Len(open) : open[j] = uv
    BY <1>1 DEF ChainInv, Chained
  <2> QED BY <1>2, <1>3, <1>4, <2>1
<1>6. \A uv \in Upvalues : isClosed'[uv] <=> isClosed[uv] \/ position[uv] > h
  <2> SUFFICES ASSUME NEW uv \in Upvalues
               PROVE  isClosed'[uv] <=> isClosed[uv] \/ position[uv] > h
      OBVIOUS
  <2>1. isClosed'[uv] = ((\E j \in 1 .. k : uv = open[j]) \/ isClosed[uv])
    BY <1>2
  <2> QED BY <1>5, <2>1
<1>7. \A uv \in Upvalues :
            closed'[uv] = IF ~isClosed[uv] /\ position[uv] > h THEN stack[position[uv]]
                                                             ELSE closed[uv]
    BY <1>2, <1>5
<1>8. /\ Len(open') = Len(open) - k
      /\ \A j \in 1 .. Len(open) - k : open'[j] = open[j + k]
      /\ open' \in UpRefs
  <2>1. open \in Seq(1 .. MaxUpvalues)
    BY <1>1 DEF Types, UpRefs
  <2> QED BY <1>2, <1>3, <2>1, SuffixFacts DEF UpRefs
<1>9. \A i, j \in 1 .. Len(open') : i < j => position[open'[i]] > position[open'[j]]
    BY SMTT(30), <1>1, <1>2, <1>3, <1>8 DEF ChainInv
<1>10. \A uv \in Upvalues : ~isClosed'[uv] <=> \E j \in 1 .. Len(open') : open'[j] = uv
  <2> SUFFICES ASSUME NEW uv \in Upvalues
               PROVE  ~isClosed'[uv] <=> \E j \in 1 .. Len(open') : open'[j] = uv
      OBVIOUS
  <2>1. ~isClosed[uv] <=> \E j \in 1 .. Len(open) : open[j] = uv
    BY <1>1 DEF ChainInv, Chained
  <2>2. ASSUME ~isClosed'[uv] PROVE \E j \in 1 .. Len(open') : open'[j] = uv
    <3>1. PICK j \in 1 .. Len(open) : open[j] = uv
      BY <1>6, <2>1, <2>2
    <3>2. j > k
      BY <1>2, <1>3, <1>4, <1>6, <2>2, <3>1
    <3>3. j - k \in 1 .. Len(open') /\ open'[j - k] = open[j]
      BY <1>2, <1>3, <1>8, <3>2
    <3> QED BY <3>1, <3>3
  <2>3. ASSUME NEW j \in 1 .. Len(open'), open'[j] = uv PROVE ~isClosed'[uv]
    <3>1. j + k \in 1 .. Len(open) /\ j + k > k /\ open[j + k] = uv
      BY <1>2, <1>3, <1>8, <2>3
    <3> QED BY <1>4, <1>6, <2>1, <3>1
  <2> QED BY <2>2, <2>3
<1>11. UpsKnown(open', Len(position))
    BY <1>1, <1>2, <1>3, <1>8 DEF UpsKnown, KnownInv
<1>12. /\ isClosed' \in [1 .. Len(position) -> BOOLEAN]
       /\ closed' \in [1 .. Len(position) -> Values]
  <2>1. \A uv \in Upvalues : ~isClosed[uv] => stack[position[uv]] \in Values
    BY <1>1, UpvalueValueFacts DEF UpvalueValue
  <2>2. \A uv \in Upvalues : closed[uv] \in Values
    BY <1>1, Elements
  <2>3. \A uv \in Upvalues : (\E j \in 1 .. k : uv = open[j]) => stack[position[uv]] \in Values
    BY <1>5, <2>1
  <2>4. closed' \in [Upvalues -> Values]
    BY <1>2, <2>2, <2>3
  <2>5. isClosed' \in [Upvalues -> BOOLEAN]
    BY <1>1, <1>2, Elements
  <2> QED BY <2>4, <2>5 DEF Upvalues
<1>13. /\ isClosed' \in Seq(BOOLEAN) /\ Len(isClosed') = Len(position)
       /\ closed' \in Seq(Values) /\ Len(closed') = Len(position)
    BY <1>3, <1>12, FunctionIsSeq
<1> QED BY ZenonT(60), <1>2, <1>6, <1>7, <1>8, <1>9, <1>10, <1>11, <1>13 DEF ClosedAbove

(* Cutting the stack back to slot h, and leaving at most a result there, is *)
(* safe once no upvalue above h is open.  The end of the run, which keeps  *)
(* the slots, closes the upvalues above c alone.                           *)
LEMMA CutStep ==
    ASSUME Inv, Running, NEW h \in 0 .. Len(stack), NEW c \in 0 .. h, Live' => c = h,
           Types', ClosedAbove(c),
           Len(stack') \in {h, h + 1},
           \A n \in 1 .. h : stack'[n] = stack[n] /\ slotVar'[n] = slotVar[n],
           Len(stack') = h + 1 =>
                slotVar'[h + 1] = 0 /\ Known(stack'[h + 1], Len(position)),
           UNCHANGED <<building, naming, store>>,
           Len(frames') <= Len(frames),
           \A f \in 1 .. Len(frames') : frames'[f].ups = frames[f].ups,
           FramesInv'
    PROVE  Inv'
<1>0. /\ Live /\ naming = 0 /\ Types /\ KnownInv
      /\ UNCHANGED <<Upvalues, Variables, position, upVar>>
    BY DEF Running, Live, Inv, ClosedAbove, Upvalues, Variables
<1>1. /\ Len(stack) \in Nat /\ Len(store) \in Nat
      /\ \A n \in 1 .. Len(stack) : slotVar[n] \in Nat
      /\ \A uv \in Upvalues : position[uv] \in Nat \ {0} /\ upVar[uv] \in Nat \ {0}
    BY <1>0, Elements
<1>2. \A n \in 1 .. Len(stack') : n \in 1 .. h \/ (n = h + 1 /\ Len(stack') = h + 1)
    BY <1>1
<1>3. 1 .. h \subseteq 1 .. Len(stack)
    BY <1>1
<1>4. \A uv \in Upvalues :
            ~isClosed'[uv] => ~isClosed[uv] /\ position[uv] \in 1 .. h
                              /\ slotVar[position[uv]] = upVar[uv]
    BY SMTT(30), <1>0, <1>1, UpvalueValueFacts DEF ClosedAbove
<1>5. KnownInv'
  <2>1. \A f \in 1 .. Len(frames') : UpsKnown(frames'[f].ups, Len(position'))
    BY <1>0, Elements DEF KnownInv
  <2>2. \A n \in 1 .. Len(stack') :
            Known(stack'[n], Len(position')) /\ slotVar'[n] <= Len(store')
    BY <1>0, <1>1, <1>2, <1>3 DEF KnownInv
  <2>3. \A uv \in Upvalues : ~isClosed[uv] => Known(stack[position[uv]], Len(position))
    BY <1>0, UpvalueValueFacts DEF UpvalueValue
  <2>4. \A uv \in Upvalues : Known(closed'[uv], Len(position'))
    BY <1>0, <2>3 DEF ClosedAbove, KnownInv
  <2>5. UpsKnown(open', Len(position')) /\ UpsKnown(building', Len(position'))
    BY <1>0 DEF ClosedAbove, KnownInv
  <2>6. \A x \in Variables' : Known(store'[x], Len(position'))
    BY <1>0 DEF KnownInv
  <2> QED BY <1>0, <2>1, <2>2, <2>4, <2>5, <2>6 DEF KnownInv
<1>6. NamingInv'
    BY <1>0 DEF NamingInv
<1>7. VariablesInv'
  <2>1. \A m, n \in 1 .. Len(stack') : slotVar'[m] = slotVar'[n] /\ slotVar'[m] # 0 => m = n
    BY <1>2, <1>3 DEF Inv, VariablesInv
  <2> QED BY <1>0, <2>1 DEF Inv, VariablesInv
<1>8. ClosedGone'
  <2> SUFFICES ASSUME Live', NEW uv \in Upvalues, isClosed'[uv], NEW n \in 1 .. h
               PROVE  slotVar[n] # upVar[uv]
      BY <1>0, <1>1, <1>2 DEF ClosedGone
  <2>1. CASE isClosed[uv]
    BY <1>0, <1>3, <2>1 DEF Inv, ClosedGone
  <2>2. CASE ~isClosed[uv]
    <3>1. /\ position[uv] > h /\ position[uv] \in 1 .. Len(stack)
          /\ slotVar[position[uv]] = upVar[uv]
      BY <1>0, <2>2, UpvalueValueFacts DEF ClosedAbove
    <3>2. upVar[uv] # 0 /\ n # position[uv] /\ n \in 1 .. Len(stack)
      BY <1>1, <1>3, <3>1
    <3> QED BY <3>1, <3>2 DEF Inv, VariablesInv
  <2> QED BY <2>1, <2>2
<1>9. ChainInv'
  <2>1. \A uv \in Upvalues : ~isClosed'[uv] => LivesAt(uv, position[uv])'
    BY SMTT(30), <1>0, <1>1, <1>4 DEF LivesAt
  <2>2. OneUpvaluePerVariable'
    BY <1>0 DEF Inv, ChainInv, OneUpvaluePerVariable
  <2> QED BY <1>0, <2>1, <2>2 DEF ChainInv, ClosedAbove, Chained
<1>10. ValuesInv'
  <2>1. \A uv \in Upvalues : UpvalueValue(uv)' = UpvalueValue(uv)
    BY <1>0, <1>4 DEF UpvalueValue, ClosedAbove
  <2>2. \A uv \in Upvalues : UpvalueValue(uv)' = store'[upVar[uv]]
    BY <1>0, <1>1, <2>1 DEF Inv, ValuesInv
  <2> QED BY <1>0, <1>2, <1>3, <2>2 DEF Inv, ValuesInv
<1> QED BY <1>5, <1>6, <1>7, <1>8, <1>9, <1>10 DEF Inv

LEMMA NoneAbove ==
    ASSUME Inv, UNCHANGED upvalueVars, NEW h \in Nat,
           \A uv \in Upvalues : ~isClosed[uv] => position[uv] <= h
    PROVE  ClosedAbove(h)
<1>1. Types /\ ChainInv /\ KnownInv
    BY DEF Inv
<1>2. /\ Len(position) \in Nat
      /\ \A uv \in Upvalues : position[uv] \in Nat /\ isClosed[uv] \in BOOLEAN
    BY <1>1, Elements
<1> QED BY <1>1, <1>2 DEF ClosedAbove, upvalueVars, Types, ChainInv, Chained, KnownInv

(* The running frame counts another number of locals. *)
LEMMA FrameUpdate ==
    ASSUME Types, Len(frames) > 0, NEW l \in Nat,
           frames' = [frames EXCEPT ![Len(frames)].locals = l]
    PROVE  /\ frames' \in Seq(FrameRecords) /\ Len(frames') = Len(frames)
           /\ \A f \in 1 .. Len(frames) - 1 : frames'[f] = frames[f]
           /\ \A f \in 1 .. Len(frames) : frames'[f].ups = frames[f].ups
           /\ Frame'.base = Frame.base /\ Frame'.fixed = Frame.fixed /\ Frame'.locals = l
           /\ LocalTop' = Frame.base + l
<1> DEFINE new == [Frame EXCEPT !.locals = l]
<1>1. frames' = [frames EXCEPT ![Len(frames)] = new] /\ Len(frames) \in 1 .. Len(frames)
    BY DEF Frame, Types
<1>2. /\ Frame \in FrameRecords /\ new \in FrameRecords
      /\ new.base = Frame.base /\ new.fixed = Frame.fixed /\ new.locals = l
      /\ new.ups = Frame.ups
    BY FrameType DEF FrameRecords
<1> HIDE DEF new
<1>3. /\ frames' \in Seq(FrameRecords) /\ Len(frames') = Len(frames)
      /\ \A f \in 1 .. Len(frames) : frames'[f] = IF f = Len(frames) THEN new ELSE frames[f]
  <2>1. frames \in Seq(FrameRecords)
    BY DEF Types
  <2> QED BY SMTT(30), <1>1, <1>2, <2>1, ExceptSeq
<1>4. Frame' = new
    BY <1>1, <1>3 DEF Frame
<1>5. \A f \in 1 .. Len(frames) : frames'[f].ups = frames[f].ups
    BY <1>2, <1>3 DEF Frame
<1>6. \A f \in 1 .. Len(frames) - 1 : frames'[f] = frames[f]
    BY <1>1, <1>3
<1> QED BY <1>2, <1>3, <1>4, <1>5, <1>6 DEF LocalTop

(* The stack without its topmost value. *)
LEMMA DropFacts ==
    ASSUME Types, Len(stack) > 0, Drop(1)
    PROVE  /\ stack' \in Seq(Values) /\ Len(stack') = Len(stack) - 1
           /\ slotVar' \in Seq(0 .. MaxVars) /\ Len(slotVar') = Len(stack) - 1
           /\ \A n \in 1 .. Len(stack) - 1 : stack'[n] = stack[n] /\ slotVar'[n] = slotVar[n]
<1>1. Len(stack) - 1 \in 0 .. Len(stack) /\ Len(slotVar) = Len(stack)
    BY DEF Types
<1>2. /\ stack' = SubSeq(stack, 1, Len(stack) - 1)
      /\ slotVar' = SubSeq(slotVar, 1, Len(stack) - 1)
    BY <1>1 DEF Drop
<1>3. stack \in Seq(Values) /\ slotVar \in Seq(0 .. MaxVars)
    BY DEF Types
<1> QED BY ZenonT(60), <1>1, <1>2, <1>3, PrefixFacts

LEMMA PopOperandStep == ASSUME Inv, PopOperand PROVE Inv'
<1> DEFINE h == Len(stack) - 1
<1>1. /\ Running /\ Operands > 0 /\ Drop(1) /\ Live /\ Types /\ naming = 0
      /\ UNCHANGED <<frames, upvalueVars, building, naming, status, store>>
    BY DEF PopOperand, Running, Live, Inv
<1>2. /\ Len(stack) \in 1 .. Len(stack) /\ Len(stack) > LocalTop /\ slotVar[Len(stack)] = 0
      /\ TopHolds /\ Len(stack) \in Nat
    BY <1>1, TopOperand, TopFrame, Elements
<1>3. h \in 0 .. Len(stack) /\ h \in Nat /\ h \in 0 .. h /\ Len(stack) > 0
    BY <1>2
<1>4. /\ stack' \in Seq(Values) /\ Len(stack') = h
      /\ slotVar' \in Seq(0 .. MaxVars) /\ Len(slotVar') = h
      /\ \A n \in 1 .. h : stack'[n] = stack[n] /\ slotVar'[n] = slotVar[n]
    BY <1>1, <1>3, DropFacts
<1>5. Types'
  <2>1. h <= StackMax
    BY <1>2, SizesAssumption DEF Types, Inv
  <2> HIDE DEF h
  <2> QED BY <1>1, <1>4, <2>1 DEF Types, upvalueVars
<1>6. ClosedAbove(h)
  <2>1. \A uv \in Upvalues : ~isClosed[uv] => position[uv] <= h
    BY <1>1, <1>2, UpvalueValueFacts, Elements
  <2> QED BY <1>1, <1>3, <2>1, NoneAbove
<1>7. FramesInv'
  <2>1. UNCHANGED <<Frame, LocalTop>> /\ Frame.base \in Nat /\ LocalTop \in Nat
        /\ Frame.base <= LocalTop
    BY <1>1, <1>2, FrameType DEF Frame, LocalTop, TopHolds
  <2>2. 1 .. h \subseteq 1 .. Len(stack) /\ 1 .. Frame.base \subseteq 1 .. h /\ LocalTop <= h
    BY <1>2, <2>1
  <2>3. TopHolds'
    BY <1>1, <1>2, <1>4, <2>1, <2>2 DEF TopHolds
  <2> QED BY <1>1, <1>4, <1>5, <2>1, <2>2, <2>3, TopStep
<1> HIDE DEF h
<1>8. h + 1 # h
    BY <1>3
<1> QED BY <1>1, <1>3, <1>4, <1>5, <1>6, <1>7, <1>8, CutStep

(* The newest variable of a block leaves, after its upvalue was closed. *)
LEMMA RemoveStep ==
    ASSUME Inv, BlockLocal, RemoveLocal, ClosedAbove(Len(stack) - 1)
    PROVE  Inv'
<1> DEFINE h == Len(stack) - 1
<1>1. /\ Running /\ Operands = 0 /\ Frame.locals > Frame.fixed /\ Live /\ Types
      /\ Drop(1) /\ UNCHANGED <<building, naming, status, store>>
      /\ frames' = [frames EXCEPT ![Len(frames)].locals = @ - 1]
    BY DEF BlockLocal, RemoveLocal, Running, Live, Inv
<1>2. /\ Len(stack) \in Nat /\ TopHolds /\ Len(stack) = LocalTop
      /\ Frame.base \in Nat /\ Frame.locals \in Nat /\ Frame.fixed \in Nat
      /\ LocalTop = Frame.base + Frame.locals
    BY <1>1, TopFrame, Elements, FrameType DEF TopHolds, LocalTop
<1>3. /\ h \in 0 .. Len(stack) /\ h \in Nat /\ h \in 0 .. h /\ Len(stack) > 0
      /\ Frame.locals - 1 \in Nat
    BY <1>2, <1>1
<1>4. /\ stack' \in Seq(Values) /\ Len(stack') = h
      /\ slotVar' \in Seq(0 .. MaxVars) /\ Len(slotVar') = h
      /\ \A n \in 1 .. h : stack'[n] = stack[n] /\ slotVar'[n] = slotVar[n]
    BY <1>1, <1>3, DropFacts
<1>5. frames' = [frames EXCEPT ![Len(frames)].locals = Frame.locals - 1]
    BY <1>1 DEF Frame
<1>6. /\ frames' \in Seq(FrameRecords) /\ Len(frames') = Len(frames)
      /\ \A f \in 1 .. Len(frames) - 1 : frames'[f] = frames[f]
      /\ \A f \in 1 .. Len(frames) : frames'[f].ups = frames[f].ups
      /\ Frame'.base = Frame.base /\ Frame'.fixed = Frame.fixed
      /\ Frame'.locals = Frame.locals - 1 /\ LocalTop' = Frame.base + (Frame.locals - 1)
    BY <1>1, <1>2, <1>3, <1>5, FrameUpdate DEF TopHolds
<1>7. Types'
    BY SMTT(30), <1>1, <1>3, <1>4, <1>6, SizesAssumption DEF Types, ClosedAbove
<1>8. FramesInv'
  <2>1. LocalTop' = h /\ Frame.base <= h
    BY <1>1, <1>2, <1>6
  <2>2. 1 .. h \subseteq 1 .. Len(stack) /\ 1 .. Frame.base \subseteq 1 .. h
    BY <1>2, <1>3, <2>1
  <2>3. TopHolds'
    <3>1. ASSUME NEW n \in 1 .. h, n > Frame.base
          PROVE  slotVar'[n] # 0 <=> (Len(frames) = 1 \/ n > Frame.base + 1)
      <4>1. n \in 1 .. Len(stack) /\ n <= LocalTop
        BY <1>2, <2>2, <3>1
      <4> QED BY <1>2, <1>4, <3>1, <4>1 DEF TopHolds
    <3>2. \A n \in 1 .. h : n <= LocalTop'
      BY <1>3, <2>1
    <3>3. /\ Frame'.fixed <= Frame'.locals /\ LocalTop' <= Len(stack') /\ Len(frames') > 0
          /\ Len(frames) = 1 \/ Frame'.fixed > 0
      BY <1>1, <1>2, <1>4, <1>6, <2>1 DEF TopHolds
    <3> HIDE DEF h
    <3> QED BY <1>4, <1>6, <3>1, <3>2, <3>3 DEF TopHolds
  <2> QED BY <1>1, <1>4, <1>6, <1>7, <2>1, <2>2, <2>3, TopStep
<1>9. ClosedAbove(h)
    OBVIOUS
<1> HIDE DEF h
<1>10. h + 1 # h
    BY <1>3
<1> QED BY <1>1, <1>3, <1>4, <1>6, <1>7, <1>8, <1>9, <1>10, CutStep

LEMMA CloseUpvalueStep == ASSUME Inv, CloseUpvalue PROVE Inv'
<1>1. BlockLocal /\ RemoveLocal /\ naming = 0 /\ CloseUpvalues(Len(stack))
    BY DEF CloseUpvalue, BlockLocal, Running
<1>2. Len(stack) - 1 \in Nat /\ Len(stack) = (Len(stack) - 1) + 1
  <2>1. /\ Types /\ Live /\ Frame.locals > Frame.fixed
    BY <1>1 DEF BlockLocal, Running, Live, Inv
  <2>2. TopHolds /\ Len(stack) \in Nat /\ Frame.base \in Nat /\ Frame.fixed \in Nat
        /\ Frame.locals \in Nat
    BY <2>1, TopFrame, FrameType, Elements DEF TopHolds
  <2> QED BY <2>1, <2>2 DEF TopHolds, LocalTop
<1>3. CloseUpvalues((Len(stack) - 1) + 1)
    BY <1>1, <1>2 DEF CloseUpvalues
<1> QED BY <1>1, <1>2, <1>3, CloseFacts, RemoveStep

LEMMA PopLocalStep == ASSUME Inv, PopLocal PROVE Inv'
<1>1. /\ BlockLocal /\ RemoveLocal /\ naming = 0 /\ UNCHANGED upvalueVars /\ Types
      /\ \A uv \in Upvalues : upVar[uv] # slotVar[Len(stack)]
    BY DEF PopLocal, BlockLocal, Running, Inv
<1>2. Len(stack) \in Nat /\ \A uv \in Upvalues : position[uv] \in Nat
    BY <1>1, Elements
<1>3. \A uv \in Upvalues : ~isClosed[uv] => position[uv] <= Len(stack) - 1
    BY <1>1, <1>2, UpvalueValueFacts
<1>4. Len(stack) - 1 \in Nat
  <2>1. Live /\ Frame.locals > Frame.fixed
    BY <1>1 DEF BlockLocal, Running, Live
  <2>2. TopHolds /\ Frame.base \in Nat /\ Frame.fixed \in Nat /\ Frame.locals \in Nat
    BY <1>1, <2>1, TopFrame, FrameType DEF TopHolds
  <2> QED BY <1>2, <2>1, <2>2 DEF TopHolds, LocalTop
<1> QED BY <1>1, <1>3, <1>4, NoneAbove, RemoveStep

(* The script returns: the run is over. *)
LEMMA ReturnFromScript == ASSUME Inv, Return, Len(frames) = 1 PROVE Inv'
<1> DEFINE h == Len(stack) - 1
<1> DEFINE c == Frame.base
<1>1. /\ Running /\ Operands > 0 /\ Live /\ Types /\ naming = 0
      /\ CloseUpvalues(c + 1) /\ frames' = SubSeq(frames, 1, Len(frames) - 1)
      /\ Drop(1) /\ status' = "returned"
      /\ UNCHANGED <<building, naming, store>>
    BY DEF Return, Running, Live, Inv
<1>2. /\ Len(stack) > LocalTop /\ TopHolds /\ Len(stack) \in Nat
      /\ c \in Nat /\ LocalTop \in Nat /\ c <= LocalTop
    BY <1>1, TopOperand, TopFrame, Elements, FrameType DEF TopHolds
<1>3. h \in 0 .. Len(stack) /\ c \in 0 .. h /\ Len(stack) > 0
    BY <1>2
<1>4. /\ stack' \in Seq(Values) /\ Len(stack') = h
      /\ slotVar' \in Seq(0 .. MaxVars) /\ Len(slotVar') = h
      /\ \A n \in 1 .. h : stack'[n] = stack[n] /\ slotVar'[n] = slotVar[n]
    BY <1>1, <1>3, DropFacts
<1>5. ClosedAbove(c)
    BY <1>1, <1>2, CloseFacts
<1>6. frames' \in Seq(FrameRecords) /\ Len(frames') = 0
  <2>1. frames \in Seq(FrameRecords) /\ 0 \in 0 .. Len(frames)
    BY <1>1 DEF Types
  <2> QED BY <1>1, <2>1, PrefixFacts
<1>7. Types'
  <2>1. h <= StackMax /\ 0 <= FramesMax
    BY <1>1, <1>2, SizesAssumption DEF Types
  <2> HIDE DEF h, c
  <2> QED BY <1>1, <1>4, <1>5, <1>6, <2>1 DEF Types, ClosedAbove
<1>8. FramesInv' /\ ~Live'
    BY <1>1 DEF FramesInv, Live
<1> HIDE DEF h, c
<1>9. h + 1 # h /\ 0 <= Len(frames) /\ \A f \in 1 .. Len(frames') : FALSE
    BY <1>3, <1>6
<1> QED BY <1>1, <1>3, <1>4, <1>5, <1>6, <1>7, <1>8, <1>9, CutStep

(* A function returns: its result lies where its callee was. *)
LEMMA ReturnToCaller == ASSUME Inv, Return, Len(frames) # 1 PROVE Inv'
<1>0. /\ Running /\ Operands > 0 /\ Live /\ Types /\ naming = 0
      /\ UNCHANGED <<status, building, naming, store>>
    BY DEF Return, Running, Live, Inv
<1>1. TopHolds /\ Len(frames) \in Nat /\ Frame.base \in Nat
    BY <1>0, TopFrame, Elements, FrameType DEF TopHolds
<1>2. PICK h \in Nat : h = Frame.base
    BY <1>1
<1>3. PICK d \in Nat : d = Len(frames) - 1
    BY <1>1 DEF TopHolds
<1>4. d \in Nat \ {0} /\ d \in 0 .. Len(frames) /\ d + 1 = Len(frames)
    BY <1>1, <1>3 DEF TopHolds
<1>5. /\ Len(stack) > LocalTop /\ Len(stack) \in Nat /\ LocalTop \in Nat /\ h <= LocalTop
      /\ Top \in Values /\ Known(Top, Len(position))
    BY <1>0, <1>1, <1>2, TopOperand, Elements, FrameType DEF TopHolds
<1>6. h \in 0 .. Len(stack) /\ h < Len(stack) /\ h \in 0 .. h
    BY <1>5
<1>7. /\ CloseUpvalues(h + 1) /\ frames' = SubSeq(frames, 1, d)
      /\ stack' = Append(SubSeq(stack, 1, h), Top)
      /\ slotVar' = Append(SubSeq(slotVar, 1, h), 0)
    BY <1>2, <1>3 DEF Return
<1>8. /\ frames' \in Seq(FrameRecords) /\ Len(frames') = d
      /\ \A f \in 1 .. d : frames'[f] = frames[f]
    BY <1>0, <1>4, <1>7, PrefixFacts DEF Types
<1>9. /\ stack' \in Seq(Values) /\ Len(stack') = h + 1
      /\ \A n \in 1 .. h : stack'[n] = stack[n]
      /\ stack'[h + 1] = Top
  <2>1. /\ SubSeq(stack, 1, h) \in Seq(Values) /\ Len(SubSeq(stack, 1, h)) = h
        /\ \A n \in 1 .. h : SubSeq(stack, 1, h)[n] = stack[n]
    BY <1>0, <1>6, PrefixFacts DEF Types
  <2> QED BY <1>5, <1>7, <2>1, AppendFacts
<1>10. /\ slotVar' \in Seq(0 .. MaxVars) /\ Len(slotVar') = h + 1
       /\ \A n \in 1 .. h : slotVar'[n] = slotVar[n]
       /\ slotVar'[h + 1] = 0
  <2>1. slotVar \in Seq(0 .. MaxVars) /\ h \in 0 .. Len(slotVar) /\ 0 \in 0 .. MaxVars
    BY <1>0, <1>6, SizesAssumption DEF Types
  <2>2. /\ SubSeq(slotVar, 1, h) \in Seq(0 .. MaxVars) /\ Len(SubSeq(slotVar, 1, h)) = h
        /\ \A n \in 1 .. h : SubSeq(slotVar, 1, h)[n] = slotVar[n]
    BY <2>1, PrefixFacts
  <2> QED BY <1>7, <2>1, <2>2, AppendFacts
<1>11. ClosedAbove(h)
    BY <1>0, <1>7, CloseFacts
<1>12. Types'
  <2>1. Len(stack) <= StackMax /\ Len(frames) <= FramesMax
    BY <1>0 DEF Types
  <2>2. h + 1 <= StackMax /\ d <= FramesMax
    BY <1>1, <1>4, <1>5, <1>6, <2>1, SizesAssumption
  <2> QED BY <1>0, <1>8, <1>9, <1>10, <1>11, <2>2 DEF Types, ClosedAbove
<1>13. FramesInv'
  <2>1. d \in 1 .. Len(frames) /\ d # Len(frames) /\ d + 1 \in 1 .. Len(frames)
    BY <1>1, <1>4
  <2>2. /\ \A f, g \in 1 .. Len(frames) :
             f < g => frames[f].base + frames[f].locals <= frames[g].base
        /\ FrameHolds(d) /\ frames[d] \in FrameRecords
    BY <1>0, <2>1, Elements DEF Inv, FramesInv
  <2>3. EndOf(d) = h /\ h = frames[d + 1].base
    BY <1>2, <1>4, <2>1 DEF EndOf, Frame
  <2>4. frames[d].base \in Nat /\ frames[d].locals \in Nat
    BY <2>2 DEF FrameRecords
  <2>5. /\ frames[d].base + frames[d].locals <= h
        /\ frames[d].fixed <= frames[d].locals /\ (d = 1 \/ frames[d].fixed > 0)
    BY <2>2, <2>3 DEF FrameHolds
  <2>6. EndOf(d)' = h + 1 /\ frames'[d] = frames[d]
    BY <1>4, <1>8, <1>9 DEF EndOf
  <2>7. \A n \in frames[d].base + 1 .. h + 1 :
            slotVar'[n] # 0 <=> /\ n <= frames[d].base + frames[d].locals
                                /\ d = 1 \/ n > frames[d].base + 1
    <3>1. \A n \in frames[d].base + 1 .. h :
            slotVar[n] # 0 <=> /\ n <= frames[d].base + frames[d].locals
                               /\ d = 1 \/ n > frames[d].base + 1
      BY <2>2, <2>3 DEF FrameHolds
    <3>2. \A n \in frames[d].base + 1 .. h + 1 :
             \/ n = h + 1 /\ slotVar'[n] = 0 /\ n > frames[d].base + frames[d].locals
             \/ n \in frames[d].base + 1 .. h /\ slotVar'[n] = slotVar[n]
      BY SMTT(30), <1>5, <1>10, <2>4, <2>5
    <3>3. \A n \in frames[d].base + 1 .. h + 1 : n = h + 1 =>
             ~(n <= frames[d].base + frames[d].locals)
      BY <1>5, <2>4, <2>5
    <3> QED BY <3>1, <3>2, <3>3
  <2>8. FrameHolds(d)'
    <3>1. frames[d].base + frames[d].locals <= h + 1
      BY <1>2, <2>4, <2>5
    <3> QED BY <2>5, <2>6, <2>7, <3>1 DEF FrameHolds
  <2>9. ASSUME NEW f \in 1 .. d - 1
        PROVE  /\ f <= Len(frames) /\ frames'[f] = frames[f]
               /\ frames'[f + 1].base <= EndOf(f)
               /\ frames[f].base + frames[f].locals <= frames'[d].base
    <3>1. f \in 1 .. d /\ f + 1 \in 1 .. d /\ d \in 1 .. d /\ f < d /\ f # Len(frames)
          /\ f \in 1 .. Len(frames) /\ f + 1 \in 1 .. Len(frames)
      BY <1>4
    <3>2. EndOf(f) = frames[f + 1].base /\ frames[f + 1].base \in Nat
      BY <1>0, <3>1, Elements DEF EndOf, FrameRecords
    <3>3. f <= Len(frames) /\ frames'[f] = frames[f] /\ frames'[f + 1] = frames[f + 1]
      BY <1>8, <3>1
    <3>4. frames[f].base + frames[f].locals <= frames'[d].base
      BY <2>1, <2>2, <2>6, <3>1
    <3> QED BY <3>2, <3>3, <3>4
  <2>10. \A n \in 1 .. frames'[d].base : slotVar'[n] = slotVar[n]
    BY <1>5, <1>10, <2>4, <2>5, <2>6
  <2> QED BY <1>0, <1>4, <1>8, <1>12, <2>8, <2>9, <2>10, FramesStep
<1>14. Len(frames') <= Len(frames) /\ \A f \in 1 .. Len(frames') : frames'[f].ups = frames[f].ups
    BY <1>1, <1>4, <1>8
<1> QED BY <1>0, <1>5, <1>6, <1>9, <1>10, <1>11, <1>12, <1>13, <1>14, CutStep

LEMMA ReturnStep == ASSUME Inv, Return PROVE Inv'
    BY ReturnFromScript, ReturnToCaller

LEMMA ConcatFacts ==
    ASSUME NEW S, NEW s \in Seq(S), NEW t \in Seq(S)
    PROVE  /\ s \o t \in Seq(S)
           /\ Len(s \o t) = Len(s) + Len(t)
           /\ \A i \in 1 .. Len(s) : (s \o t)[i] = s[i]
           /\ \A i \in 1 .. Len(t) : (s \o t)[Len(s) + i] = t[i]
<1>1. \A i \in 1 .. Len(t) : Len(s) + i \in 1 .. Len(s) + Len(t) /\ Len(s) + i > Len(s)
    OBVIOUS
<1> QED BY <1>1, ConcatProperties

(* A call gives the arguments names: each becomes a variable of its own.   *)
LEMMA AcceptedCall ==
    ASSUME Inv, Running, NEW c \in 1 .. Len(stack), c > LocalTop,
           IsFunction(stack[c]), Len(frames) < FramesMax,
           Len(store) + Len(stack) - c <= MaxVars,
           frames' = Append(frames, [base |-> c - 1, ups |-> stack[c].ups,
                                     locals |-> Len(stack) - c + 1,
                                     fixed |-> Len(stack) - c + 1]),
           slotVar' = [n \in DOMAIN slotVar |->
                         IF n > c THEN Len(store) + n - c ELSE slotVar[n]],
           store' = store \o SubSeq(stack, c + 1, Len(stack)),
           UNCHANGED <<stack, upvalueVars, building, naming, status>>
    PROVE  Inv'
<1>0. /\ Live /\ naming = 0 /\ Types /\ KnownInv
      /\ UNCHANGED <<open, position, isClosed, closed, upVar, Upvalues>>
    BY DEF Running, Live, Inv, upvalueVars, Upvalues
<1>1. /\ TopHolds /\ \A n \in 1 .. Len(stack) : n > LocalTop => slotVar[n] = 0
      /\ Len(stack) \in Nat /\ Len(frames) \in Nat /\ Len(store) \in Nat
      /\ \A n \in 1 .. Len(stack) : slotVar[n] \in Nat
    BY <1>0, TopFrame, Elements
<1>2. /\ LocalTop \in Nat /\ Frame.base \in Nat /\ Frame.locals \in Nat
      /\ LocalTop = Frame.base + Frame.locals
    BY <1>0, <1>1, FrameType DEF TopHolds, LocalTop
<1>3. c \in Nat /\ c - 1 \in Nat /\ c \in 0 .. Len(stack) /\ Len(stack) - c \in Nat
    BY <1>1
<1>4. stack[c].ups \in UpRefs /\ UpsKnown(stack[c].ups, Len(position))
  <2>1. stack[c] \in Closures
    BY <1>0, Elements DEF Values, IsFunction
  <2>2. Known(stack[c], Len(position))
    BY <1>0 DEF KnownInv
  <2> QED BY <2>1, <2>2 DEF Closures, UpRefs, Known
<1>5. PICK new \in FrameRecords :
            /\ new.base = c - 1 /\ new.ups = stack[c].ups
            /\ new.locals = Len(stack) - c + 1 /\ new.fixed = Len(stack) - c + 1
            /\ frames' = Append(frames, new)
    BY SMTT(30), <1>3, <1>4 DEF FrameRecords
<1>6. PICK d \in Nat : d = Len(frames) + 1
    BY <1>1
<1>7. /\ frames' \in Seq(FrameRecords) /\ Len(frames') = d /\ d \in Nat \ {0}
      /\ \A f \in 1 .. Len(frames) : frames'[f] = frames[f]
      /\ frames'[d] = new
    BY SMTT(30), <1>0, <1>1, <1>5, <1>6, AppendFacts DEF Types
<1>8. /\ store' \in Seq(Values) /\ Len(store') = Len(store) + (Len(stack) - c)
      /\ \A x \in 1 .. Len(store) : store'[x] = store[x]
      /\ \A n \in 1 .. Len(stack) : n > c => store'[Len(store) + n - c] = stack[n]
  <2>1. store \in Seq(Values) /\ stack \in Seq(Values)
    BY <1>0 DEF Types
  <2> DEFINE args == SubSeq(stack, c + 1, Len(stack))
  <2>2. /\ args \in Seq(Values) /\ Len(args) = Len(stack) - c
        /\ \A i \in 1 .. Len(stack) - c : args[i] = stack[i + c]
    BY <1>3, <2>1, SuffixFacts
  <2>3. store' = store \o args
    OBVIOUS
  <2> HIDE DEF args
  <2>4. /\ store \o args \in Seq(Values) /\ Len(store \o args) = Len(store) + Len(args)
        /\ \A x \in 1 .. Len(store) : (store \o args)[x] = store[x]
        /\ \A i \in 1 .. Len(args) : (store \o args)[Len(store) + i] = args[i]
    <3>1. store \in Seq(Values) /\ args \in Seq(Values)
      BY <2>1, <2>2
    <3> QED BY ONLY <3>1, ConcatFacts
  <2>5. ASSUME NEW n \in 1 .. Len(stack), n > c PROVE store'[Len(store) + n - c] = stack[n]
    <3>1. PICK i \in 1 .. Len(args) : n = i + c
      <4>1. n - c \in 1 .. Len(args)
        BY <1>1, <1>3, <2>2, <2>5
      <4>2. n = (n - c) + c
        BY <1>3
      <4> QED BY <4>1, <4>2
    <3>2. Len(store) + n - c = Len(store) + i
      BY <1>1, <1>3, <3>1
    <3> QED BY <2>2, <2>3, <2>4, <3>1, <3>2
  <2> QED BY <2>2, <2>3, <2>4, <2>5
<1>9. /\ slotVar' \in Seq(0 .. MaxVars) /\ Len(slotVar') = Len(stack)
      /\ \A n \in 1 .. Len(stack) :
            slotVar'[n] = IF n > c THEN Len(store) + n - c ELSE slotVar[n]
  <2>1. DOMAIN slotVar = 1 .. Len(stack)
    BY <1>0 DEF Types
  <2>2. \A n \in 1 .. Len(stack) : slotVar[n] \in 0 .. MaxVars
    <3>1. slotVar \in Seq(0 .. MaxVars) /\ Len(slotVar) = Len(stack)
      BY <1>0 DEF Types
    <3> QED BY <3>1, ElementOfSeq
  <2>3. \A n \in 1 .. Len(stack) : n > c => Len(store) + n - c \in 0 .. MaxVars
    BY <1>1, <1>3, SizesAssumption
  <2>4. slotVar' \in [1 .. Len(stack) -> 0 .. MaxVars]
    BY <2>1, <2>2, <2>3
  <2>5. slotVar' \in Seq(0 .. MaxVars) /\ Len(slotVar') = Len(stack)
    BY <1>1, <2>4, FunctionIsSeq
  <2> QED BY <2>1, <2>5
<1>10. Types'
  <2>1. Len(store') = Len(store) + (Len(stack) - c) /\ Len(frames') = d
    BY <1>7, <1>8
  <2>2. Len(store') <= MaxVars
    BY <1>1, <1>3, <2>1, SizesAssumption
  <2>3. Len(frames') <= FramesMax
    BY <1>1, <1>6, <2>1, SizesAssumption
  <2> QED BY <1>0, <1>7, <1>8, <1>9, <2>2, <2>3 DEF Types
<1>11. \A n \in 1 .. Len(stack) :
            \/ n > c /\ slotVar'[n] = Len(store) + n - c /\ slotVar'[n] > Len(store)
            \/ ~(n > c) /\ slotVar'[n] = slotVar[n] /\ slotVar[n] <= Len(store)
    BY <1>0, <1>1, <1>3, <1>9 DEF KnownInv
<1>12. KnownInv'
  <2>1. \A f \in 1 .. Len(frames') : UpsKnown(frames'[f].ups, Len(position))
    BY <1>0, <1>1, <1>4, <1>5, <1>6, <1>7 DEF KnownInv
  <2>2. ASSUME NEW n \in 1 .. Len(stack) PROVE slotVar'[n] <= Len(store')
    <3>1. Len(store') = Len(store) + (Len(stack) - c)
      BY <1>8
    <3>2. CASE n > c /\ slotVar'[n] = Len(store) + n - c
      BY <1>1, <1>3, <3>1, <3>2
    <3>3. CASE slotVar'[n] = slotVar[n] /\ slotVar[n] <= Len(store)
      BY <1>1, <1>3, <3>1, <3>3
    <3> QED BY <1>11, <3>2, <3>3
  <2>3. ASSUME NEW x \in 1 .. Len(store') PROVE Known(store'[x], Len(position))
    <3>1. CASE x \in 1 .. Len(store)
      BY <1>0, <1>8, <3>1 DEF KnownInv, Variables
    <3>2. CASE x \notin 1 .. Len(store)
      <4>1. PICK n \in 1 .. Len(stack) : n > c /\ x = Len(store) + n - c
        <5>1. x - Len(store) + c \in 1 .. Len(stack) /\ x - Len(store) + c > c
          BY <1>1, <1>3, <1>8, <3>2
        <5>2. x = Len(store) + (x - Len(store) + c) - c
          BY <1>1, <1>3
        <5> QED BY <5>1, <5>2
      <4> QED BY <1>0, <1>8, <4>1 DEF KnownInv
    <3> QED BY <3>1, <3>2
  <2> QED BY <1>0, <2>1, <2>2, <2>3 DEF KnownInv, Variables
<1>13. FramesInv'
  <2>1. /\ FramesInv /\ \A f \in 1 .. Len(frames) : frames[f].base \in Nat /\ frames[f].locals \in Nat
    BY <1>0, Elements DEF Inv, FrameRecords
  <2>2. FrameHolds(d)'
    <3>1. EndOf(d)' = Len(stack) /\ d # 1
      BY <1>1, <1>6, <1>7 DEF EndOf, TopHolds
    <3>2. new.base + new.locals = Len(stack) /\ new.fixed = new.locals
      <4>1. new.base = c - 1 /\ new.locals = Len(stack) - c + 1 /\ new.fixed = new.locals
        BY <1>5
      <4>2. c \in Nat /\ Len(stack) \in Nat
        BY <1>1
      <4> QED BY ONLY <4>1, <4>2
    <3>3. \A n \in new.base + 1 .. Len(stack) :
            n \in 1 .. Len(stack) /\ (n > c <=> n > new.base + 1) /\ (n > c \/ n = c)
      <4>1. new.base + 1 = c /\ c \in Nat \ {0} /\ Len(stack) \in Nat
        <5>1. new.base = c - 1
          BY <1>5
        <5>2. c \in 1 .. Len(stack) /\ Len(stack) \in Nat
          BY <1>1
        <5> QED BY ONLY <5>1, <5>2
      <4>2. \A n \in c .. Len(stack) : n \in 1 .. Len(stack) /\ (n > c \/ n = c)
        BY ONLY <4>1
      <4> QED BY <4>1, <4>2, Zenon
    <3>4. ASSUME NEW n \in new.base + 1 .. Len(stack)
          PROVE  slotVar'[n] # 0 <=> /\ n <= new.base + new.locals
                                     /\ d = 1 \/ n > new.base + 1
      <4>1. n \in 1 .. Len(stack) /\ n <= new.base + new.locals /\ (n > c <=> n > new.base + 1)
        BY <1>1, <3>2, <3>3
      <4>2. CASE n > c
        <5>1. slotVar'[n] > Len(store)
          BY <1>11, <4>1, <4>2
        <5> QED BY <1>1, <4>1, <4>2, <5>1
      <4>3. CASE ~(n > c)
        <5>1. n = c /\ slotVar'[n] = 0
          BY <1>1, <1>2, <1>11, <3>3, <4>1, <4>3
        <5> QED BY <3>1, <4>1, <4>3, <5>1
      <4> QED BY <4>2, <4>3
    <3>5. /\ frames'[d] = new /\ new.base + new.locals <= Len(stack)
          /\ new.fixed <= new.locals /\ new.fixed > 0
      BY <1>1, <1>3, <1>5, <1>7, <3>2
    <3> QED BY <3>1, <3>4, <3>5 DEF FrameHolds
  <2>3. ASSUME NEW f \in 1 .. d - 1
        PROVE  /\ f <= Len(frames) /\ frames'[f] = frames[f]
               /\ frames'[f + 1].base <= EndOf(f)
               /\ frames[f].base + frames[f].locals <= frames'[d].base
    <3>1. f \in 1 .. Len(frames) /\ Len(frames) \in 1 .. Len(frames)
      BY <1>1, <1>6 DEF TopHolds
    <3>2. frames'[d].base = c - 1 /\ LocalTop <= c - 1 /\ Frame.base <= c - 1
      <4>1. frames'[d].base = c - 1
        BY <1>5, <1>7
      <4>2. LocalTop <= c - 1
        BY <1>2, <1>3
      <4>3. Frame.base <= c - 1
        BY <1>2, <1>3, <4>2
      <4> QED BY <4>1, <4>2, <4>3
    <3>3. CASE f = Len(frames)
      <4>1. frames'[f + 1].base = c - 1 /\ EndOf(f) = Len(stack) /\ c - 1 <= Len(stack)
        BY <1>1, <1>3, <1>6, <3>2, <3>3 DEF EndOf
      <4>2. frames[f].base + frames[f].locals = LocalTop
        BY <3>3 DEF LocalTop, Frame
      <4> QED BY <1>7, <3>1, <3>2, <4>1, <4>2
    <3>4. CASE f # Len(frames)
      <4>1. f + 1 \in 1 .. Len(frames) /\ f < Len(frames)
        BY <1>1, <3>1, <3>4
      <4>2. frames'[f + 1].base = EndOf(f) /\ EndOf(f) \in Nat
        BY <1>7, <2>1, <3>4, <4>1 DEF EndOf
      <4>3. frames[f].base + frames[f].locals <= Frame.base
        BY <1>0, <2>1, <3>1, <4>1 DEF FramesInv, Frame
      <4>4. frames[f].base + frames[f].locals <= c - 1
        <5>1. frames[f].base \in Nat /\ frames[f].locals \in Nat
          BY <2>1, <3>1
        <5>2. Frame.base <= c - 1 /\ Frame.base \in Nat /\ c - 1 \in Nat
          BY <1>2, <1>3, <3>2
        <5>3. \A l, m, n, k \in Nat : l + m <= n /\ n <= k => l + m <= k
          OBVIOUS
        <5> QED BY <4>3, <5>1, <5>2, <5>3
      <4> QED BY <1>7, <3>1, <3>2, <4>2, <4>4
    <3> QED BY <3>3, <3>4
  <2>4. \A n \in 1 .. frames'[d].base : slotVar'[n] = slotVar[n]
    BY <1>1, <1>3, <1>5, <1>7, <1>9
  <2> QED BY <1>0, <1>7, <1>10, <2>2, <2>3, <2>4, FramesStep
<1>14. NamingInv'
    BY <1>0 DEF NamingInv
<1>15. VariablesInv'
  <2>1. \A m, n \in 1 .. Len(stack) : slotVar'[m] = slotVar'[n] /\ slotVar'[m] # 0 => m = n
    <3> SUFFICES ASSUME NEW m \in 1 .. Len(stack), NEW n \in 1 .. Len(stack),
                        slotVar'[m] = slotVar'[n], slotVar'[m] # 0
                 PROVE  m = n
        OBVIOUS
    <3>1. CASE m > c /\ n > c
      <4>1. Len(store) + m - c = Len(store) + n - c
        BY <1>11, <3>1
      <4> QED BY <1>1, <1>3, <4>1
    <3>2. CASE ~(m > c) /\ ~(n > c)
      BY <1>11, <3>2 DEF Inv, VariablesInv
    <3>3. ASSUME NEW i \in 1 .. Len(stack), NEW j \in 1 .. Len(stack), i > c, ~(j > c)
          PROVE  slotVar'[i] # slotVar'[j]
      <4>1. slotVar'[i] = Len(store) + i - c /\ slotVar'[j] = slotVar[j] /\ slotVar[j] <= Len(store)
        BY <1>11, <3>3
      <4> QED BY <1>1, <1>3, <3>3, <4>1
    <3> QED BY <3>1, <3>2, <3>3
  <2>2. \A uv \in Upvalues : upVar[uv] <= Len(store') \/ upVar[uv] = naming
    BY <1>0, <1>1, <1>3, <1>8, Elements DEF Inv, VariablesInv
  <2> QED BY <1>0, <2>1, <2>2 DEF VariablesInv
<1>16. \A uv \in Upvalues : upVar[uv] \in 1 .. Len(store)
    BY <1>0, <1>1, Elements DEF Inv, VariablesInv
<1>17. ClosedGone'
  <2> SUFFICES ASSUME NEW uv \in Upvalues, isClosed[uv], NEW n \in 1 .. Len(stack)
               PROVE  slotVar'[n] # upVar[uv]
    <3>1. stack' = stack /\ isClosed' = isClosed /\ upVar' = upVar /\ Upvalues' = Upvalues
      BY <1>0
    <3>2. \A x \in Upvalues, m \in 1 .. Len(stack) : isClosed[x] => slotVar'[m] # upVar[x]
      OBVIOUS
    <3> QED BY ONLY <3>1, <3>2 DEF ClosedGone
  <2>1. slotVar[n] # upVar[uv]
    BY <1>0 DEF Inv, ClosedGone
  <2>2. upVar[uv] \in 1 .. Len(store)
    BY <1>16
  <2>3. CASE n > c /\ slotVar'[n] > Len(store)
    BY SMTT(30), <1>1, <2>2, <2>3
  <2>4. CASE slotVar'[n] = slotVar[n]
    BY <2>1, <2>4
  <2> QED BY <1>11, <2>3, <2>4
<1>18. \A uv \in Upvalues :
            ~isClosed[uv] => position[uv] \in 1 .. Len(stack) /\ slotVar'[position[uv]] = upVar[uv]
  <2> SUFFICES ASSUME NEW uv \in Upvalues, ~isClosed[uv]
               PROVE  position[uv] \in 1 .. Len(stack) /\ slotVar'[position[uv]] = upVar[uv]
      OBVIOUS
  <2>1. position[uv] \in 1 .. Len(stack) /\ slotVar[position[uv]] = upVar[uv]
    BY <1>0, UpvalueValueFacts
  <2>2. ~(position[uv] > LocalTop)
    <3>1. upVar[uv] # 0
      BY <1>16
    <3> QED BY <1>1, <2>1, <3>1
  <2>3. ~(position[uv] > c)
    <3>1. position[uv] \in Nat
      BY <2>1
    <3> QED BY <1>2, <1>3, <2>2, <3>1
  <2> QED BY <1>11, <2>1, <2>3
<1>19. ChainInv'
  <2>1. \A uv \in Upvalues : ~isClosed[uv] => LivesAt(uv, position[uv])'
    BY <1>0, <1>1, <1>18 DEF LivesAt
  <2> QED BY <1>0, <2>1 DEF Inv, ChainInv, Chained, OneUpvaluePerVariable
<1>20. ValuesInv'
  <2>1. ASSUME NEW n \in 1 .. Len(stack), slotVar'[n] # 0
        PROVE  stack[n] = store'[slotVar'[n]]
    <3>1. CASE n > c /\ slotVar'[n] = Len(store) + n - c
      BY <1>8, <3>1
    <3>2. CASE slotVar'[n] = slotVar[n] /\ slotVar[n] <= Len(store)
      <4>1. slotVar[n] \in 1 .. Len(store) /\ stack[n] = store[slotVar[n]]
        BY <1>1, <2>1, <3>2 DEF Inv, ValuesInv
      <4> QED BY <1>8, <3>2, <4>1
    <3> QED BY <1>11, <3>1, <3>2
  <2>2. \A uv \in Upvalues : UpvalueValue(uv)' = UpvalueValue(uv)
    BY <1>0 DEF UpvalueValue
  <2>3. \A uv \in Upvalues : UpvalueValue(uv) = store[upVar[uv]]
    <3>1. \A uv \in Upvalues : upVar[uv] # naming
      BY <1>0, <1>16
    <3> QED BY <3>1 DEF Inv, ValuesInv
  <2>4. \A uv \in Upvalues : UpvalueValue(uv)' = store'[upVar[uv]]
    BY <1>8, <1>16, <2>2, <2>3
  <2> QED BY <1>0, <2>1, <2>4 DEF ValuesInv
<1> QED BY <1>10, <1>12, <1>13, <1>14, <1>15, <1>17, <1>19, <1>20 DEF Inv

LEMMA CallStep == ASSUME Inv, Call PROVE Inv'
<1>1. PICK argc \in 0 .. Operands - 1 :
        LET base == Len(stack) - argc - 1
            callee == stack[base + 1]
            accepted == IsFunction(callee) /\ argc = Arity /\ Len(frames) < FramesMax
        IN
        \/ /\ ~accepted
           /\ status' = "crashed"
           /\ UNCHANGED <<frames, slotVar, store>>
        \/ /\ accepted /\ Len(store) + argc <= MaxVars
           /\ frames' = Append(frames, [base |-> base, ups |-> callee.ups,
                                        locals |-> argc + 1, fixed |-> argc + 1])
           /\ slotVar' = [n \in DOMAIN slotVar |->
                            IF n > base + 1 THEN Len(store) + n - base - 1 ELSE slotVar[n]]
           /\ store' = store \o SubSeq(stack, base + 2, Len(stack))
           /\ UNCHANGED status
    BY DEF Call
<1>2. /\ Running /\ Live /\ Types /\ UNCHANGED <<stack, upvalueVars, building, naming>>
    BY DEF Call, Running, Live, Inv
<1>3. /\ Operands = Len(stack) - LocalTop /\ Len(stack) \in Nat /\ Len(store) \in Nat
      /\ LocalTop \in Nat
    BY <1>2, TopFrame, Elements, FrameType DEF TopHolds
<1>4. PICK c \in 1 .. Len(stack) : c = Len(stack) - argc /\ c > LocalTop
  <2>1. Len(stack) - argc \in 1 .. Len(stack) /\ Len(stack) - argc > LocalTop
    BY <1>3
  <2> QED BY <2>1
<1>5. /\ Len(stack) - argc - 1 = c - 1 /\ c - 1 + 1 = c /\ c - 1 + 2 = c + 1
      /\ argc + 1 = Len(stack) - c + 1 /\ Len(store) + argc = Len(store) + Len(stack) - c
    BY <1>3, <1>4
<1>6. CASE status' = "crashed" /\ UNCHANGED <<frames, slotVar, store>>
    BY <1>2, <1>6, CrashStep
<1>7. CASE /\ IsFunction(stack[c]) /\ Len(frames) < FramesMax
           /\ Len(store) + argc <= MaxVars
           /\ frames' = Append(frames, [base |-> c - 1, ups |-> stack[c].ups,
                                        locals |-> argc + 1, fixed |-> argc + 1])
           /\ slotVar' = [n \in DOMAIN slotVar |->
                            IF n > c THEN Len(store) + n - (c - 1) - 1 ELSE slotVar[n]]
           /\ store' = store \o SubSeq(stack, c + 1, Len(stack))
           /\ UNCHANGED status
  <2>1. \A n \in DOMAIN slotVar : Len(store) + n - (c - 1) - 1 = Len(store) + n - c
    BY <1>2, <1>3 DEF Types
  <2>2. slotVar' = [n \in DOMAIN slotVar |-> IF n > c THEN Len(store) + n - c ELSE slotVar[n]]
    BY <1>7, <2>1
  <2>3. Len(store) + Len(stack) - c <= MaxVars
    BY <1>5, <1>7
  <2>4. frames' = Append(frames, [base |-> c - 1, ups |-> stack[c].ups,
                                  locals |-> Len(stack) - c + 1, fixed |-> Len(stack) - c + 1])
    BY <1>5, <1>7
  <2> QED BY <1>2, <1>4, <1>7, <2>2, <2>3, <2>4, AcceptedCall
<1> QED BY <1>1, <1>5, <1>6, <1>7

(* A value that has its place on top of the locals gets a name, whether it *)
(* lies there already or is pushed.                                        *)
LEMMA NameStep ==
    ASSUME Inv, Live, NEW p \in Nat \ {0}, p = LocalTop + 1, p <= StackMax,
           NEW v \in Values, Known(v, Len(position)), Len(store) < MaxVars,
           stack' \in Seq(Values), Len(stack') = p, stack'[p] = v,
           slotVar' \in Seq(0 .. MaxVars), Len(slotVar') = p, slotVar'[p] = Len(store) + 1,
           \A n \in 1 .. p - 1 :
                n <= Len(stack) /\ stack'[n] = stack[n] /\ slotVar'[n] = slotVar[n],
           store' = Append(store, v), naming' = 0, building' = << >>,
           frames' = [frames EXCEPT ![Len(frames)].locals = @ + 1],
           UNCHANGED <<upvalueVars, status>>
    PROVE  Inv'
<1>0. /\ Types /\ KnownInv /\ Live' /\ UNCHANGED <<open, position, isClosed, closed, upVar, Upvalues>>
    BY DEF Inv, Live, upvalueVars, Upvalues
<1>1. /\ TopHolds /\ \A n \in 1 .. Len(stack) : n > LocalTop => slotVar[n] = 0
      /\ Len(stack) \in Nat /\ Len(store) \in Nat /\ Len(frames) \in Nat
      /\ \A n \in 1 .. Len(stack) : slotVar[n] \in Nat
    BY <1>0, TopFrame, Elements
<1>2. /\ LocalTop \in Nat /\ Frame.base \in Nat /\ Frame.locals \in Nat /\ Frame.fixed \in Nat
      /\ LocalTop = Frame.base + Frame.locals
    BY <1>0, <1>1, FrameType DEF TopHolds, LocalTop
<1>3. /\ store' \in Seq(Values) /\ Len(store') = Len(store) + 1
      /\ \A x \in 1 .. Len(store) : store'[x] = store[x]
      /\ store'[Len(store) + 1] = v
  <2>1. store \in Seq(Values)
    BY <1>0 DEF Types
  <2> QED BY <2>1, AppendFacts
<1>4. /\ frames' \in Seq(FrameRecords) /\ Len(frames') = Len(frames)
      /\ \A f \in 1 .. Len(frames) - 1 : frames'[f] = frames[f]
      /\ \A f \in 1 .. Len(frames) : frames'[f].ups = frames[f].ups
      /\ Frame'.base = Frame.base /\ Frame'.fixed = Frame.fixed
      /\ Frame'.locals = Frame.locals + 1 /\ LocalTop' = Frame.base + (Frame.locals + 1)
  <2>1. frames' = [frames EXCEPT ![Len(frames)].locals = Frame.locals + 1]
    BY DEF Frame
  <2>2. Frame.locals + 1 \in Nat
    <3>1. Frame.locals \in Nat
      BY <1>2
    <3> QED BY ONLY <3>1
  <2> QED BY <1>0, <1>1, <2>1, <2>2, FrameUpdate DEF TopHolds
<1>5. \A n \in 1 .. p : \/ n = p /\ slotVar'[n] = Len(store) + 1 /\ stack'[n] = v
                       \/ /\ n \in 1 .. Len(stack) /\ n \in 1 .. p - 1 /\ n # p
                          /\ stack'[n] = stack[n] /\ slotVar'[n] = slotVar[n]
    BY <1>1
<1>6. \A n \in 1 .. Len(stack) : slotVar[n] <= Len(store) /\ (slotVar[n] # 0 => n \in 1 .. p - 1)
  <2> SUFFICES ASSUME NEW n \in 1 .. Len(stack) PROVE slotVar[n] # 0 => n \in 1 .. p - 1
      BY <1>0 DEF KnownInv
  <2>1. slotVar[n] # 0 => ~(n > LocalTop)
    BY <1>1
  <2> QED BY <1>1, <1>2, <2>1
<1>7. naming # 0 => naming = Len(store) + 1 /\ Len(stack) = LocalTop /\ p = Len(stack) + 1
                    /\ \A uv \in Upvalues : upVar[uv] = naming => ~isClosed[uv]
    BY <1>1, <1>2 DEF Inv, NamingInv, Operands
<1>8. \A uv \in Upvalues : upVar[uv] \in 1 .. Len(store) \/ (naming # 0 /\ upVar[uv] = Len(store) + 1)
    BY <1>0, <1>1, <1>7, Elements DEF Inv, VariablesInv
<1>9. Types'
  <2>1. building' \in UpRefs /\ Len(building') <= MaxCaptures /\ naming' \in 0 .. MaxVars
    BY SizesAssumption DEF UpRefs
  <2>2. Len(store') <= MaxVars
    BY <1>1, <1>3, SizesAssumption
  <2> QED BY <1>0, <1>3, <1>4, <2>1, <2>2 DEF Types
<1>10. KnownInv'
  <2>1. \A f \in 1 .. Len(frames') : UpsKnown(frames'[f].ups, Len(position))
    BY <1>0, <1>4 DEF KnownInv
  <2>2. \A n \in 1 .. p : Known(stack'[n], Len(position))
    BY <1>0, <1>5 DEF KnownInv
  <2>3. ASSUME NEW n \in 1 .. p PROVE slotVar'[n] <= Len(store')
    <3>1. slotVar'[n] = Len(store) + 1 \/ (n \in 1 .. Len(stack) /\ slotVar'[n] = slotVar[n])
      BY <1>5
    <3>2. n \in 1 .. Len(stack) => slotVar[n] <= Len(store) /\ slotVar[n] \in Nat
      BY <1>1, <1>6
    <3> QED BY <1>1, <1>3, <3>1, <3>2
  <2>4. \A x \in 1 .. Len(store') : Known(store'[x], Len(position))
    <3>1. \A x \in 1 .. Len(store') : x \in 1 .. Len(store) \/ x = Len(store) + 1
      BY <1>1, <1>3
    <3> QED BY <1>0, <1>3, <3>1 DEF KnownInv, Variables
  <2>5. UpsKnown(building', Len(position))
    BY DEF UpsKnown
  <2> QED BY <1>0, <2>1, <2>2, <2>3, <2>4, <2>5 DEF KnownInv, Variables
<1>11. FramesInv'
  <2>1. LocalTop' = p /\ Frame.base < p
    BY <1>2, <1>4
  <2>2. Len(frames) = 1 \/ p > Frame.base + 1
    BY SMTT(30), <1>1, <1>2 DEF TopHolds
  <2>3. ASSUME NEW n \in 1 .. p, n > Frame.base
        PROVE  slotVar'[n] # 0 <=> Len(frames) = 1 \/ n > Frame.base + 1
    <3>1. CASE n = p /\ slotVar'[n] = Len(store) + 1
      BY <1>1, <2>2, <3>1
    <3>2. CASE n \in 1 .. Len(stack) /\ n \in 1 .. p - 1 /\ slotVar'[n] = slotVar[n]
      <4>1. n <= LocalTop
        BY <1>2, <3>2
      <4> QED BY <1>1, <2>3, <3>2, <4>1 DEF TopHolds
    <3> QED BY <1>5, <3>1, <3>2
  <2>4. TopHolds'
    <3>1. /\ Len(frames') > 0 /\ LocalTop' <= Len(stack')
          /\ Frame'.fixed <= Frame'.locals /\ (Len(frames') = 1 \/ Frame'.fixed > 0)
      BY SMTT(30), <1>1, <1>2, <1>4, <2>1 DEF TopHolds
    <3>2. \A n \in 1 .. p : n <= LocalTop'
      BY <2>1
    <3> QED BY <1>4, <2>3, <3>1, <3>2 DEF TopHolds
  <2>5. \A n \in 1 .. Frame.base : slotVar'[n] = slotVar[n]
    <3>1. 1 .. Frame.base \subseteq 1 .. p - 1
      BY <1>2, <2>1
    <3> QED BY <3>1
  <2> QED BY <1>4, <1>9, <2>4, <2>5, TopStep
<1>12. NamingInv'
    BY DEF NamingInv
<1>13. VariablesInv'
  <2>1. \A m, n \in 1 .. p : slotVar'[m] = slotVar'[n] /\ slotVar'[m] # 0 => m = n
    <3> SUFFICES ASSUME NEW m \in 1 .. p, NEW n \in 1 .. p,
                        slotVar'[m] = slotVar'[n], slotVar'[m] # 0
                 PROVE  m = n
        OBVIOUS
    <3>1. ASSUME NEW i \in 1 .. p, i # p PROVE slotVar'[i] # Len(store) + 1
      <4>1. slotVar'[i] = slotVar[i] /\ slotVar[i] \in Nat /\ slotVar[i] <= Len(store)
        BY <1>1, <1>5, <1>6, <3>1
      <4> QED BY <1>1, <4>1
    <3>2. CASE m = p \/ n = p
      BY <3>1, <3>2
    <3>3. CASE m # p /\ n # p
      BY <1>5, <3>3 DEF Inv, VariablesInv
    <3> QED BY <3>2, <3>3
  <2>2. \A uv \in Upvalues : upVar[uv] <= Len(store')
    BY <1>1, <1>3, <1>8
  <2> QED BY <1>0, <2>1, <2>2 DEF VariablesInv
<1>14. ClosedGone'
  <2> SUFFICES ASSUME NEW uv \in Upvalues, isClosed[uv], NEW n \in 1 .. p
               PROVE  slotVar'[n] # upVar[uv]
      BY <1>0 DEF ClosedGone
  <2>1. upVar[uv] \in 1 .. Len(store)
    BY <1>7, <1>8
  <2>2. CASE n = p
    BY <1>1, <2>1, <2>2
  <2>3. CASE n \in 1 .. Len(stack) /\ slotVar'[n] = slotVar[n]
    BY <2>3 DEF Inv, ClosedGone
  <2> QED BY <1>5, <2>2, <2>3
<1>15. \A uv \in Upvalues :
            ~isClosed[uv] => position[uv] \in 1 .. p /\ slotVar'[position[uv]] = upVar[uv]
  <2> SUFFICES ASSUME NEW uv \in Upvalues, ~isClosed[uv]
               PROVE  position[uv] \in 1 .. p /\ slotVar'[position[uv]] = upVar[uv]
      OBVIOUS
  <2>1. LivesAt(uv, position[uv]) /\ position[uv] \in Nat \ {0} /\ upVar[uv] # 0
    BY <1>0, Elements DEF Inv, ChainInv
  <2>2. CASE position[uv] <= Len(stack) /\ slotVar[position[uv]] = upVar[uv]
    <3>1. position[uv] \in 1 .. Len(stack)
      BY <1>1, <2>1, <2>2
    <3>2. position[uv] \in 1 .. p - 1
      BY <1>6, <2>1, <2>2, <3>1
    <3> QED BY <2>2, <3>2
  <2>3. CASE naming # 0 /\ upVar[uv] = naming /\ position[uv] = Len(stack) + 1
    BY <1>7, <2>3
  <2> QED BY <2>1, <2>2, <2>3 DEF LivesAt
<1>16. ChainInv'
  <2>1. \A uv \in Upvalues : ~isClosed[uv] => LivesAt(uv, position[uv])'
    BY <1>0, <1>15 DEF LivesAt
  <2> QED BY <1>0, <2>1 DEF Inv, ChainInv, Chained, OneUpvaluePerVariable
<1>17. ValuesInv'
  <2>1. ASSUME NEW n \in 1 .. p, slotVar'[n] # 0 PROVE stack'[n] = store'[slotVar'[n]]
    <3>1. CASE n = p
      BY <1>3, <3>1
    <3>2. CASE n \in 1 .. Len(stack) /\ stack'[n] = stack[n] /\ slotVar'[n] = slotVar[n]
      <4>1. slotVar[n] \in 1 .. Len(store) /\ stack[n] = store[slotVar[n]]
        BY <1>1, <1>6, <2>1, <3>2 DEF Inv, ValuesInv
      <4> QED BY <1>3, <3>2, <4>1
    <3> QED BY <1>5, <3>1, <3>2
  <2>2. ASSUME NEW uv \in Upvalues, ~isClosed[uv]
        PROVE  UpvalueValue(uv)' = store'[upVar[uv]]
    <3>1. position[uv] \in 1 .. p /\ slotVar'[position[uv]] = upVar[uv] /\ upVar[uv] # 0
      BY <1>0, <1>15, <2>2, Elements
    <3> QED BY <1>0, <2>1, <2>2, <3>1 DEF UpvalueValue
  <2>3. ASSUME NEW uv \in Upvalues, isClosed[uv]
        PROVE  UpvalueValue(uv)' = store'[upVar[uv]]
    <3>1. upVar[uv] \in 1 .. Len(store) /\ upVar[uv] # naming
      BY <1>1, <1>7, <1>8, <2>3
    <3>2. closed[uv] = store[upVar[uv]]
      BY <2>3, <3>1 DEF Inv, ValuesInv, UpvalueValue
    <3> QED BY <1>0, <1>3, <2>3, <3>1, <3>2 DEF UpvalueValue
  <2> QED BY <1>0, <2>1, <2>2, <2>3 DEF ValuesInv
<1> QED BY <1>9, <1>10, <1>11, <1>12, <1>13, <1>14, <1>16, <1>17 DEF Inv

LEMMA DeclareLocalStep == ASSUME Inv, DeclareLocal PROVE Inv'
<1>1. /\ Running /\ Operands = 1 /\ Len(store) < MaxVars /\ Live /\ Types
      /\ naming = 0 /\ naming' = 0 /\ building' = << >> /\ stack' = stack
      /\ frames' = [frames EXCEPT ![Len(frames)].locals = @ + 1]
      /\ store' = Append(store, Top)
      /\ slotVar' = [slotVar EXCEPT ![Len(stack)] = Len(store) + 1]
      /\ UNCHANGED <<upvalueVars, status>>
    BY DEF DeclareLocal, Running, Live, Inv
<1>2. /\ Operands = Len(stack) - LocalTop /\ Len(stack) \in Nat /\ LocalTop \in Nat
      /\ Len(store) \in Nat
    BY <1>1, TopFrame, FrameType, Elements DEF TopHolds
<1>3. PICK p \in Nat \ {0} : p = Len(stack) /\ p = LocalTop + 1
    BY <1>1, <1>2
<1>4. Top \in Values /\ Known(Top, Len(position)) /\ stack[p] = Top
    BY <1>1, <1>3, TopOperand DEF Top
<1>5. /\ stack' \in Seq(Values) /\ Len(stack') = p /\ p <= StackMax /\ stack'[p] = Top
      /\ \A n \in 1 .. p - 1 : n <= Len(stack) /\ stack'[n] = stack[n]
    BY <1>1, <1>3, <1>4 DEF Types
<1>6. /\ slotVar' \in Seq(0 .. MaxVars) /\ Len(slotVar') = p /\ slotVar'[p] = Len(store) + 1
      /\ \A n \in 1 .. p - 1 : slotVar'[n] = slotVar[n]
  <2>1. slotVar \in Seq(0 .. MaxVars) /\ Len(slotVar) = p /\ p \in 1 .. p
    BY <1>1, <1>3 DEF Types
  <2>2. Len(store) + 1 \in 0 .. MaxVars
    BY <1>1, <1>2, SizesAssumption
  <2>3. \A n \in 1 .. p - 1 : n \in 1 .. p /\ n # p
    OBVIOUS
  <2> QED BY <1>1, <1>3, <2>1, <2>2, <2>3, ExceptSeq
<1> QED BY <1>1, <1>3, <1>4, <1>5, <1>6, NameStep

(* A closure is an operand, or the value of the variable it initializes.   *)
LEMMA ClosureStep == ASSUME Inv, Closure PROVE Inv'
<1> DEFINE fn == [ups |-> building]
<1>1. Live /\ Types /\ KnownInv /\ UNCHANGED upvalueVars
    BY DEF Closure, Live, Inv
<1>2. fn \in Values /\ Known(fn, Len(position))
  <2>1. building \in UpRefs
    BY <1>1 DEF Types
  <2>2. fn \in Closures
    BY <2>1 DEF Closures, UpRefs
  <2> QED BY <1>1, <2>2 DEF Values, Known, KnownInv
<1> HIDE DEF fn
<1>3. CASE /\ CanPush /\ naming = 0 /\ Push(fn) /\ building' = << >>
           /\ UNCHANGED <<frames, naming, status, store>>
    BY <1>1, <1>2, <1>3, PushFacts
<1>4. CASE /\ CanPush /\ naming # 0
           /\ stack' = Append(stack, fn) /\ slotVar' = Append(slotVar, naming)
           /\ store' = Append(store, fn)
           /\ frames' = [frames EXCEPT ![Len(frames)].locals = @ + 1]
           /\ building' = << >> /\ naming' = 0 /\ UNCHANGED status
  <2>1. /\ naming = Len(store) + 1 /\ Operands = 0 /\ naming \in 0 .. MaxVars
        /\ Len(stack) \in Nat /\ LocalTop \in Nat /\ Len(store) \in Nat
    BY <1>1, <1>4, TopFrame, FrameType, Elements DEF Inv, NamingInv, TopHolds, Types
  <2>2. PICK p \in Nat \ {0} : p = Len(stack) + 1 /\ p = LocalTop + 1
    BY <2>1 DEF Operands
  <2>3. /\ stack' \in Seq(Values) /\ Len(stack') = p /\ stack'[p] = fn
        /\ \A n \in 1 .. p - 1 : stack'[n] = stack[n]
    <3>1. stack \in Seq(Values) /\ p - 1 = Len(stack)
      BY <1>1, <2>1, <2>2 DEF Types
    <3> QED BY <1>2, <1>4, <2>2, <3>1, AppendFacts
  <2>4. /\ slotVar' \in Seq(0 .. MaxVars) /\ Len(slotVar') = p /\ slotVar'[p] = Len(store) + 1
        /\ \A n \in 1 .. p - 1 : slotVar'[n] = slotVar[n]
    <3>1. slotVar \in Seq(0 .. MaxVars) /\ p - 1 = Len(slotVar) /\ p = Len(slotVar) + 1
      BY <1>1, <2>1, <2>2 DEF Types
    <3> QED BY <1>4, <2>1, <3>1, AppendFacts
  <2>5. p <= StackMax /\ Len(store) < MaxVars /\ \A n \in 1 .. p - 1 : n <= Len(stack)
    BY SMTT(30), <1>4, <2>1, <2>2, SizesAssumption DEF CanPush
  <2> QED BY <1>1, <1>2, <1>4, <2>2, <2>3, <2>4, <2>5, NameStep
<1>5. CASE ~CanPush /\ Overflow /\ UNCHANGED <<frames, building, naming, store>>
    BY <1>1, <1>5, CrashStep DEF Overflow
<1> QED BY <1>3, <1>4, <1>5 DEF Closure, fn

(* A closure under construction takes an upvalue that exists. *)
LEMMA BuildingStep ==
    ASSUME Inv, NEW uv \in Upvalues, Len(building) < MaxCaptures,
           building' = Append(building, uv),
           UNCHANGED <<stack, frames, upvalueVars, naming, status, slotVar, store>>
    PROVE  Inv'
<1>0. Types /\ KnownInv /\ UNCHANGED <<open, position, isClosed, closed, upVar, Upvalues, Variables>>
    BY DEF Inv, upvalueVars, Upvalues, Variables
<1>1. /\ building' \in UpRefs /\ Len(building') = Len(building) + 1
      /\ UpsKnown(building', Len(position)) /\ Len(building) \in Nat
  <2>1. building \in Seq(1 .. MaxUpvalues) /\ uv \in 1 .. MaxUpvalues /\ Len(position) \in Nat
        /\ UpsKnown(building, Len(position)) /\ uv <= Len(position) /\ Len(building) \in Nat
    BY SMTT(30), <1>0, SizesAssumption DEF Types, KnownInv, UpRefs, Upvalues
  <2>2. /\ building' \in Seq(1 .. MaxUpvalues) /\ Len(building') = Len(building) + 1
        /\ \A i \in 1 .. Len(building) : building'[i] = building[i]
        /\ building'[Len(building) + 1] = uv
    BY <2>1, AppendFacts
  <2>3. \A i \in 1 .. Len(building) + 1 : i \in 1 .. Len(building) \/ i = Len(building) + 1
    BY <2>1
  <2> QED BY <2>1, <2>2, <2>3 DEF UpRefs, UpsKnown
<1>2. Types'
    BY SMTT(30), <1>0, <1>1, SizesAssumption DEF Types
<1>3. KnownInv'
    BY <1>0, <1>1 DEF KnownInv
<1>4. FramesInv'
    BY DEF Inv, FramesInv, Live, FrameHolds, EndOf
<1>5. NamingInv' /\ VariablesInv'
    BY <1>0 DEF Inv, NamingInv, VariablesInv, Operands, LocalTop, Frame, Live
<1>6. ClosedGone'
    BY <1>0 DEF Inv, ClosedGone, Live
<1>7. ChainInv'
    BY <1>0 DEF Inv, ChainInv, Chained, LivesAt, OneUpvaluePerVariable
<1>8. ValuesInv'
    BY <1>0 DEF Inv, ValuesInv, UpvalueValue
<1> QED BY <1>2, <1>3, <1>4, <1>5, <1>6, <1>7, <1>8 DEF Inv

LEMMA CaptureEnclosingStep == ASSUME Inv, CaptureEnclosing PROVE Inv'
<1>1. PICK i \in DOMAIN Frame.ups : building' = Append(building, Frame.ups[i])
    BY DEF CaptureEnclosing
<1>2. Live /\ Len(building) < MaxCaptures
    BY DEF CaptureEnclosing, CanCapture, Live
<1>3. Frame.ups[i] \in Upvalues
    BY <1>2, FrameUpvalues
<1> QED BY <1>1, <1>2, <1>3, BuildingStep DEF CaptureEnclosing

Insert(s, k, e) == SubSeq(s, 1, k) \o <<e>> \o SubSeq(s, k + 1, Len(s))

Inserted(S, s, k, e, t) ==
    /\ t \in Seq(S) /\ Len(t) = Len(s) + 1
    /\ \A i \in 1 .. k : t[i] = s[i]
    /\ t[k + 1] = e
    /\ \A i \in k + 1 .. Len(s) : t[i + 1] = s[i]

LEMMA InsertFacts ==
    ASSUME NEW S, NEW s \in Seq(S), NEW k \in 0 .. Len(s), NEW e \in S
    PROVE  Inserted(S, s, k, e, Insert(s, k, e))
<1> DEFINE t == Insert(s, k, e)
<1> DEFINE a == SubSeq(s, 1, k)
<1> DEFINE b == SubSeq(s, k + 1, Len(s))
<1> DEFINE ae == a \o <<e>>
<1>1. a \in Seq(S) /\ Len(a) = k /\ \A i \in 1 .. k : a[i] = s[i]
    BY PrefixFacts
<1>2. b \in Seq(S) /\ Len(b) = Len(s) - k /\ \A i \in 1 .. Len(s) - k : b[i] = s[i + k]
    BY SuffixFacts
<1>3. <<e>> \in Seq(S) /\ Len(<<e>>) = 1 /\ <<e>>[1] = e
    OBVIOUS
<1>4. t = ae \o b
    BY DEF Insert
<1> HIDE DEF a, b, t
<1>5. /\ ae \in Seq(S) /\ Len(ae) = k + 1
      /\ \A i \in 1 .. k : ae[i] = s[i]
      /\ ae[k + 1] = e
  <2>1. /\ ae \in Seq(S) /\ Len(ae) = Len(a) + Len(<<e>>)
        /\ \A i \in 1 .. Len(a) : ae[i] = a[i]
        /\ \A i \in 1 .. Len(<<e>>) : ae[Len(a) + i] = <<e>>[i]
    BY <1>1, <1>3, ConcatFacts
  <2> HIDE DEF ae
  <2>2. 1 \in 1 .. Len(<<e>>)
    BY <1>3
  <2> QED BY <1>1, <1>3, <2>1, <2>2
<1> HIDE DEF ae
<1>6. /\ t \in Seq(S) /\ Len(t) = Len(ae) + Len(b)
      /\ \A i \in 1 .. Len(ae) : t[i] = ae[i]
      /\ \A i \in 1 .. Len(b) : t[Len(ae) + i] = b[i]
  <2>1. ae \in Seq(S) /\ b \in Seq(S)
    BY <1>2, <1>5
  <2>2. /\ ae \o b \in Seq(S) /\ Len(ae \o b) = Len(ae) + Len(b)
        /\ \A i \in 1 .. Len(ae) : (ae \o b)[i] = ae[i]
        /\ \A i \in 1 .. Len(b) : (ae \o b)[Len(ae) + i] = b[i]
    BY ONLY <2>1, ConcatFacts
  <2> QED BY <1>4, <2>2
<1>7. k \in Nat /\ Len(s) \in Nat /\ k <= Len(s)
    OBVIOUS
<1>8. \A i \in 1 .. k + 1 : t[i] = ae[i]
    BY <1>5, <1>6
<1>9. (\A i \in 1 .. k : t[i] = s[i]) /\ t[k + 1] = e
  <2>1. (\A i \in 1 .. k : i \in 1 .. k + 1) /\ k + 1 \in 1 .. k + 1
    BY <1>7
  <2> QED BY <1>5, <1>8, <2>1
<1>10. ASSUME NEW i \in k + 1 .. Len(s) PROVE t[i + 1] = s[i]
  <2>1. PICK j \in 1 .. Len(s) - k : i = j + k /\ i + 1 = k + 1 + j
    <3>1. i - k \in 1 .. Len(s) - k /\ i = (i - k) + k /\ i + 1 = k + 1 + (i - k)
      BY <1>7
    <3> QED BY <3>1
  <2>2. j \in 1 .. Len(b) /\ b[j] = s[j + k] /\ Len(ae) = k + 1
    BY <1>2, <1>5
  <2> QED BY <1>6, <2>1, <2>2
<1>11. Len(t) = Len(s) + 1
  <2>1. Len(t) = k + 1 + (Len(s) - k)
    BY <1>2, <1>5, <1>6
  <2> QED BY ONLY <1>7, <2>1
<1> QED BY <1>6, <1>9, <1>10, <1>11 DEF t, Inserted

(* The slot of the variable that a capture names: one that lives there, or *)
(* the one that is about to.                                               *)
Captured(n, var) ==
    \/ naming' = naming /\ n \in 1 .. Len(stack) /\ slotVar[n] = var
    \/ /\ naming = 0 /\ naming' = var /\ var = Len(store) + 1
       /\ n = Len(stack) + 1 /\ Operands = 0

(* No upvalue stands for a variable whose slot has none in the chain. *)
LEMMA NotCapturedYet ==
    ASSUME Inv, Live, NEW n \in Nat, NEW var \in Nat \ {0}, Captured(n, var),
           \A j \in 1 .. Len(open) : position[open[j]] # n
    PROVE  \A uv \in Upvalues : upVar[uv] # var
<1> SUFFICES ASSUME NEW uv \in Upvalues, upVar[uv] = var PROVE FALSE
    OBVIOUS
<1>0. Types /\ KnownInv /\ Len(store) \in Nat /\ Len(stack) \in Nat /\ position[uv] \in Nat \ {0}
    BY Elements DEF Inv
<1>1. upVar[uv] <= Len(store) \/ (naming # 0 /\ upVar[uv] = naming)
    BY <1>0, Elements DEF Inv, VariablesInv
<1>2. naming # 0 => naming = Len(store) + 1
    BY DEF Inv, NamingInv
<1>3. n \in 1 .. Len(stack) /\ slotVar[n] = var /\ var <= Len(store)
  <2>1. ~(naming = 0 /\ var = Len(store) + 1)
    BY <1>0, <1>1
  <2>2. n \in 1 .. Len(stack) /\ slotVar[n] = var
    BY <2>1 DEF Captured
  <2> QED BY <1>0, <2>2 DEF KnownInv
<1>4. ~isClosed[uv]
    BY <1>3 DEF Inv, ClosedGone
<1>5. LivesAt(uv, position[uv])
    BY <1>4 DEF Inv, ChainInv
<1>6. position[uv] \in 1 .. Len(stack) /\ slotVar[position[uv]] = var
    BY <1>0, <1>2, <1>3, <1>5 DEF LivesAt
<1>7. position[uv] = n
    BY <1>3, <1>6 DEF Inv, VariablesInv
<1>8. \E j \in 1 .. Len(open) : open[j] = uv
    BY <1>4 DEF Inv, ChainInv, Chained
<1> QED BY <1>7, <1>8

(* A capture adds the upvalue of a variable to the closure in progress,    *)
(* and to the chain if the variable had none.                              *)
LEMMA CaptureStep ==
    ASSUME Inv, Live, NEW n \in 1 .. StackMax + 1, NEW var \in 1 .. MaxVars,
           CaptureUpvalue(n, var), Captured(n, var), Len(building) < MaxCaptures,
           UNCHANGED <<stack, frames, status, slotVar, store>>
    PROVE  Inv'
<1>0. /\ Types /\ KnownInv /\ Live' /\ Variables' = Variables
      /\ n \in Nat \ {0} /\ var \in Nat \ {0}
    BY SizesAssumption DEF Inv, Live, Variables
<1>1. /\ Len(open) \in Nat /\ Len(position) \in Nat /\ Len(stack) \in Nat /\ Len(store) \in Nat
      /\ \A j \in 1 .. Len(open) : open[j] \in Upvalues
      /\ \A uv \in Upvalues : position[uv] \in Nat \ {0} /\ upVar[uv] \in Nat \ {0}
    BY <1>0, Elements DEF KnownInv, UpsKnown, Upvalues
<1>2. PICK k \in 0 .. Len(open) :
        /\ LeadingAbove(k, n)
        /\ \/ /\ k < Len(open) /\ position[open[k + 1]] = n
              /\ building' = Append(building, open[k + 1])
              /\ UNCHANGED upvalueVars
           \/ /\ ~(k < Len(open) /\ position[open[k + 1]] = n)
              /\ Len(position) < MaxUpvalues
              /\ LET uv == Len(position) + 1 IN
                    /\ open' = SubSeq(open, 1, k) \o <<uv>> \o SubSeq(open, k + 1, Len(open))
                    /\ building' = Append(building, uv)
              /\ position' = Append(position, n)
              /\ isClosed' = Append(isClosed, FALSE)
              /\ closed' = Append(closed, Nil)
              /\ upVar' = Append(upVar, var)
    BY DEF CaptureUpvalue
<1>3. CASE /\ k < Len(open) /\ position[open[k + 1]] = n
           /\ building' = Append(building, open[k + 1])
           /\ UNCHANGED upvalueVars
  <2>1. k + 1 \in 1 .. Len(open) /\ open[k + 1] \in Upvalues
    BY <1>1, <1>2, <1>3
  <2>2. ~isClosed[open[k + 1]]
    BY <2>1 DEF Inv, ChainInv, Chained
  <2>3. LivesAt(open[k + 1], n)
    BY <1>3, <2>1, <2>2 DEF Inv, ChainInv
  <2>4. naming' = naming
    BY <1>1, <2>3 DEF Captured, LivesAt
  <2> QED BY <1>3, <2>1, <2>4, BuildingStep
<1>4. CASE /\ ~(k < Len(open) /\ position[open[k + 1]] = n)
           /\ Len(position) < MaxUpvalues
           /\ open' = SubSeq(open, 1, k) \o <<Len(position) + 1>> \o SubSeq(open, k + 1, Len(open))
           /\ building' = Append(building, Len(position) + 1)
           /\ position' = Append(position, n)
           /\ isClosed' = Append(isClosed, FALSE)
           /\ closed' = Append(closed, Nil)
           /\ upVar' = Append(upVar, var)
  <2>1. PICK new \in Nat \ {0} : new = Len(position) + 1
    BY <1>1
  <2>2. new \in 1 .. MaxUpvalues /\ Upvalues' = 1 .. new /\ new - 1 = Len(position)
        /\ new \notin Upvalues
    <3>1. Len(position') = Len(position) + 1
      BY <1>0, <1>4, AppendFacts DEF Types
    <3> QED BY SMTT(30), <1>1, <1>4, <2>1, <3>1, SizesAssumption DEF Upvalues
  <2>3. /\ position' \in Seq(1 .. StackMax + 1) /\ Len(position') = new /\ position'[new] = n
        /\ \A uv \in Upvalues : position'[uv] = position[uv]
    BY <1>0, <1>4, <2>1, AppendFacts DEF Types, Upvalues
  <2>4. /\ isClosed' \in Seq(BOOLEAN) /\ Len(isClosed') = new /\ isClosed'[new] = FALSE
        /\ \A uv \in Upvalues : isClosed'[uv] = isClosed[uv]
    <3>1. isClosed \in Seq(BOOLEAN) /\ Len(isClosed) = Len(position) /\ FALSE \in BOOLEAN
      BY <1>0 DEF Types
    <3>2. /\ Append(isClosed, FALSE) \in Seq(BOOLEAN)
          /\ Len(Append(isClosed, FALSE)) = Len(isClosed) + 1
          /\ \A i \in 1 .. Len(isClosed) : Append(isClosed, FALSE)[i] = isClosed[i]
          /\ Append(isClosed, FALSE)[Len(isClosed) + 1] = FALSE
      BY ONLY <3>1, AppendFacts
    <3> QED BY <1>4, <2>1, <3>1, <3>2 DEF Upvalues
  <2>5. /\ closed' \in Seq(Values) /\ Len(closed') = new /\ closed'[new] = Nil
        /\ \A uv \in Upvalues : closed'[uv] = closed[uv]
    <3>1. closed \in Seq(Values) /\ Len(closed) = Len(position) /\ Nil \in Values
      BY <1>0, SizesAssumption DEF Types, Values
    <3> QED BY SMTT(30), <1>4, <2>1, <3>1, AppendFacts DEF Upvalues
  <2>6. /\ upVar' \in Seq(1 .. MaxVars) /\ Len(upVar') = new /\ upVar'[new] = var
        /\ \A uv \in Upvalues : upVar'[uv] = upVar[uv]
    <3>1. upVar \in Seq(1 .. MaxVars) /\ Len(upVar) = Len(position) /\ var \in 1 .. MaxVars
      BY <1>0 DEF Types
    <3>2. /\ Append(upVar, var) \in Seq(1 .. MaxVars)
          /\ Len(Append(upVar, var)) = Len(upVar) + 1
          /\ \A i \in 1 .. Len(upVar) : Append(upVar, var)[i] = upVar[i]
          /\ Append(upVar, var)[Len(upVar) + 1] = var
      BY ONLY <3>1, AppendFacts
    <3> QED BY <1>4, <2>1, <3>1, <3>2 DEF Upvalues
  <2>7. /\ building' \in UpRefs /\ Len(building') <= MaxCaptures
        /\ \A i \in 1 .. Len(building') : building'[i] <= new
    <3>1. building \in Seq(1 .. MaxUpvalues) /\ Len(building) \in Nat
          /\ \A i \in 1 .. Len(building) : building[i] <= Len(position) /\ building[i] \in Nat
      <4>1. building \in Seq(1 .. MaxUpvalues) /\ Len(building) \in Nat
        BY <1>0 DEF Types, UpRefs
      <4>2. \A i \in 1 .. Len(building) : building[i] \in 1 .. MaxUpvalues
        BY <4>1, ElementOfSeq
      <4>3. \A i \in 1 .. Len(building) : building[i] <= Len(position)
        BY <1>0 DEF KnownInv, UpsKnown
      <4> QED BY <4>1, <4>2, <4>3, SizesAssumption
    <3>2. /\ building' \in Seq(1 .. MaxUpvalues) /\ Len(building') = Len(building) + 1
          /\ \A i \in 1 .. Len(building) : building'[i] = building[i]
          /\ building'[Len(building) + 1] = new
      BY <1>4, <2>1, <2>2, <3>1, AppendFacts
    <3>3. \A i \in 1 .. Len(building) + 1 : i \in 1 .. Len(building) \/ i = Len(building) + 1
      BY <3>1
    <3>4. Len(building') <= MaxCaptures
      BY <3>1, <3>2, SizesAssumption
    <3>5. \A i \in 1 .. Len(building') : building'[i] <= new
      BY SMTT(30), <1>1, <2>1, <3>1, <3>2, <3>3
    <3> QED BY <3>2, <3>4, <3>5 DEF UpRefs
  <2>8. /\ open' \in UpRefs /\ Len(open') = Len(open) + 1
        /\ \A i \in 1 .. k : open'[i] = open[i]
        /\ open'[k + 1] = new
        /\ \A i \in k + 1 .. Len(open) : open'[i + 1] = open[i]
    <3>1. open \in Seq(1 .. MaxUpvalues) /\ new \in 1 .. MaxUpvalues /\ k \in 0 .. Len(open)
      BY <1>0, <2>2 DEF Types, UpRefs
    <3>2. open' = Insert(open, k, new)
      BY <1>4, <2>1 DEF Insert
    <3>3. /\ open' \in Seq(1 .. MaxUpvalues) /\ Len(open') = Len(open) + 1
          /\ \A i \in 1 .. k : open'[i] = open[i]
          /\ open'[k + 1] = new
          /\ \A i \in k + 1 .. Len(open) : open'[i + 1] = open[i]
      <4>1. Inserted(1 .. MaxUpvalues, open, k, new, Insert(open, k, new))
        BY ONLY <3>1, InsertFacts
      <4> QED BY <3>2, <4>1 DEF Inserted
    <3> QED BY <3>3 DEF UpRefs
  <2>9. \A i \in 1 .. Len(open') : \/ i \in 1 .. k /\ open'[i] = open[i] /\ i \in 1 .. Len(open)
                                   \/ i = k + 1 /\ open'[i] = new
                                   \/ /\ i > k + 1 /\ i - 1 \in 1 .. Len(open) /\ i - 1 > k
                                      /\ open'[i] = open[i - 1]
    <3> SUFFICES ASSUME NEW i \in 1 .. Len(open'), i > k + 1
                 PROVE  i - 1 \in 1 .. Len(open) /\ i - 1 > k /\ open'[i] = open[i - 1]
        BY <1>1, <2>8
    <3>1. i - 1 \in k + 1 .. Len(open) /\ (i - 1) + 1 = i
      BY <1>1, <2>8
    <3> QED BY <1>1, <2>8, <3>1
  <2>10. \A uv \in Upvalues' : uv \in Upvalues \/ uv = new
    BY <1>1, <2>1, <2>2 DEF Upvalues
  <2>11. Upvalues \subseteq Upvalues' /\ new \in Upvalues'
    BY <1>1, <2>1, <2>2 DEF Upvalues
  <2>12. /\ \A j \in 1 .. k : position[open[j]] > n
         /\ \A j \in 1 .. Len(open) : j > k => position[open[j]] < n
    <3>1. \A j \in 1 .. k : position[open[j]] > n
      BY <1>2 DEF LeadingAbove
    <3>2. ASSUME NEW j \in 1 .. Len(open), j > k PROVE position[open[j]] < n
      <4>1. k + 1 \in 1 .. Len(open) /\ position[open[k + 1]] <= n /\ position[open[k + 1]] # n
            /\ position[open[k + 1]] \in Nat
        BY SMTT(30), <1>1, <1>2, <1>4, <3>2 DEF LeadingAbove
      <4>2. CASE j = k + 1
        BY <1>0, <4>1, <4>2
      <4>3. CASE j > k + 1
        <5>1. position[open[k + 1]] > position[open[j]] /\ position[open[j]] \in Nat
          BY <1>1, <4>1, <4>3 DEF Inv, ChainInv
        <5> QED BY <1>0, <4>1, <5>1
      <4> QED BY <1>1, <1>2, <3>2, <4>2, <4>3
    <3> QED BY <3>1, <3>2
  <2>13. \A uv \in Upvalues : upVar[uv] # var
    <3>1. \A j \in 1 .. Len(open) : position[open[j]] # n
      <4> SUFFICES ASSUME NEW j \in 1 .. Len(open) PROVE position[open[j]] # n
          OBVIOUS
      <4>1. position[open[j]] \in Nat /\ (j \in 1 .. k \/ j > k)
        BY <1>1, <1>2
      <4> QED BY <1>0, <2>12, <4>1
    <3> QED BY <1>0, <3>1, NotCapturedYet
  <2>14. naming' \in 0 .. MaxVars
    <3>1. naming \in 0 .. MaxVars /\ var \in 0 .. MaxVars
      BY <1>0, SizesAssumption DEF Types
    <3> QED BY <3>1 DEF Captured
  <2>15. Types'
    BY <1>0, <1>4, <2>2, <2>3, <2>4, <2>5, <2>6, <2>7, <2>8, <2>14 DEF Types
  <2>16. KnownInv'
    <3>1. \A ups : UpsKnown(ups, Len(position)) /\ (\A i \in 1 .. Len(ups) : ups[i] \in Int)
                    => UpsKnown(ups, new)
      BY <1>1, <2>1 DEF UpsKnown
    <3>2. ASSUME NEW ups \in UpRefs, UpsKnown(ups, Len(position)) PROVE UpsKnown(ups, new)
      <4>1. \A i \in 1 .. Len(ups) : ups[i] \in 1 .. MaxUpvalues
        BY ElementOfSeq DEF UpRefs
      <4>2. \A i \in 1 .. Len(ups) : ups[i] \in Int
        BY <4>1, SizesAssumption
      <4> QED BY <3>1, <3>2, <4>2
    <3>3. ASSUME NEW v \in Values, Known(v, Len(position)) PROVE Known(v, new)
      <4>1. v \notin Data => v.ups \in UpRefs
        BY DEF Values, Closures, UpRefs
      <4> QED BY <3>2, <3>3, <4>1 DEF Known, IsFunction
    <3>4. \A f \in 1 .. Len(frames) : UpsKnown(frames[f].ups, new)
      <4> SUFFICES ASSUME NEW f \in 1 .. Len(frames) PROVE UpsKnown(frames[f].ups, new)
          OBVIOUS
      <4>1. frames[f].ups \in UpRefs
        BY <1>0, Elements DEF FrameRecords
      <4> QED BY <1>0, <3>2, <4>1 DEF KnownInv
    <3>5. UpsKnown(building', new)
      BY <2>7 DEF UpsKnown
    <3>6. UpsKnown(open', new)
      <4> SUFFICES ASSUME NEW i \in 1 .. Len(open') PROVE open'[i] <= new
          BY DEF UpsKnown
      <4>1. \A j \in 1 .. Len(open) : open[j] <= new
        BY <1>1, <2>1 DEF Upvalues
      <4> QED BY SMTT(30), <2>9, <4>1
    <3>7. \A m \in 1 .. Len(stack) : Known(stack[m], new)
      BY <1>0, <3>3, Elements DEF KnownInv
    <3>8. \A x \in Variables : Known(store[x], new)
      BY <1>0, <3>3, Elements DEF KnownInv
    <3>9. \A uv \in Upvalues' : Known(closed'[uv], new)
      <4>1. \A uv \in Upvalues : Known(closed[uv], new)
        BY <1>0, <3>3, Elements DEF KnownInv
      <4>2. Known(Nil, new)
        BY SizesAssumption DEF Known, IsFunction
      <4> QED BY <2>5, <2>10, <4>1, <4>2
    <3> QED BY <1>0, <2>3, <3>4, <3>5, <3>6, <3>7, <3>8, <3>9 DEF KnownInv
  <2>17. FramesInv'
    BY DEF Inv, FramesInv, Live, FrameHolds, EndOf
  <2>18. NamingInv'
    <3>1. Operands' = Operands /\ Len(store') = Len(store)
      BY DEF Operands, LocalTop, Frame
    <3>2. naming' # 0 => naming' = Len(store) + 1 /\ Operands = 0
      BY <1>0 DEF Captured, Inv, NamingInv
    <3>3. ASSUME naming' # 0, NEW uv \in Upvalues', upVar'[uv] = naming' PROVE ~isClosed'[uv]
      <4>1. CASE uv = new
        BY <2>4, <4>1
      <4>2. CASE uv \in Upvalues
        <5>1. upVar[uv] = naming' /\ isClosed'[uv] = isClosed[uv]
          BY <2>4, <2>6, <3>3, <4>2
        <5>2. naming' = naming
          BY <2>13, <4>2, <5>1 DEF Captured
        <5> QED BY <3>3, <4>2, <5>1, <5>2 DEF Inv, NamingInv
      <4> QED BY <2>10, <4>1, <4>2
    <3> QED BY <1>0, <3>1, <3>2, <3>3 DEF NamingInv
  <2>19. VariablesInv'
    <3>1. var <= Len(store) \/ var = naming'
      BY <1>0 DEF Captured, KnownInv
    <3>2. \A uv \in Upvalues : upVar[uv] <= Len(store) \/ upVar[uv] = naming'
      BY <1>1 DEF Captured, Inv, VariablesInv
    <3>3. \A uv \in Upvalues' : upVar'[uv] <= Len(store) \/ upVar'[uv] = naming'
      BY <2>6, <2>10, <3>1, <3>2
    <3> QED BY <3>3 DEF Inv, VariablesInv
  <2>20. ClosedGone'
    BY <2>4, <2>6, <2>10 DEF Inv, ClosedGone, Live
  <2>21. \A uv \in Upvalues' : ~isClosed'[uv] => LivesAt(uv, position[uv])'
    <3> SUFFICES ASSUME NEW uv \in Upvalues', ~isClosed'[uv]
                 PROVE  \/ position'[uv] <= Len(stack) /\ slotVar[position'[uv]] = upVar'[uv]
                        \/ naming' # 0 /\ upVar'[uv] = naming' /\ position'[uv] = Len(stack) + 1
        BY DEF LivesAt
    <3>1. CASE uv = new
      BY <1>0, <2>3, <2>6, <3>1 DEF Captured
    <3>2. CASE uv \in Upvalues
      <4>1. LivesAt(uv, position[uv])
        BY <2>4, <3>2 DEF Inv, ChainInv
      <4> QED BY <2>3, <2>6, <3>2, <4>1 DEF LivesAt, Captured
    <3> QED BY <2>10, <3>1, <3>2
  <2>22. \A uv \in Upvalues' : ~isClosed'[uv] <=> Chained(uv)'
    <3> SUFFICES ASSUME NEW uv \in Upvalues'
                 PROVE  ~isClosed'[uv] <=> \E j \in 1 .. Len(open') : open'[j] = uv
        BY DEF Chained
    <3>1. CASE uv = new
      <4>1. k + 1 \in 1 .. Len(open')
        BY <1>1, <1>2, <2>8
      <4> QED BY <2>4, <2>8, <3>1, <4>1
    <3>2. CASE uv \in Upvalues
      <4>1. ~isClosed'[uv] <=> \E j \in 1 .. Len(open) : open[j] = uv
        BY <2>4, <3>2 DEF Inv, ChainInv, Chained
      <4>2. ASSUME NEW j \in 1 .. Len(open), open[j] = uv
            PROVE  \E i \in 1 .. Len(open') : open'[i] = uv
        <5>1. CASE j \in 1 .. k
          <6>1. j \in 1 .. Len(open')
            BY <1>1, <2>8
          <6> QED BY <2>8, <4>2, <5>1, <6>1
        <5>2. CASE j \in k + 1 .. Len(open)
          <6>1. j + 1 \in 1 .. Len(open')
            BY <1>1, <2>8
          <6> QED BY <2>8, <4>2, <5>2, <6>1
        <5> QED BY <1>1, <5>1, <5>2
      <4>3. ASSUME NEW i \in 1 .. Len(open'), open'[i] = uv
            PROVE  \E j \in 1 .. Len(open) : open[j] = uv
        <5>1. open'[i] # new
          BY <2>2, <3>2, <4>3
        <5> QED BY <2>9, <4>3, <5>1
      <4> QED BY <4>1, <4>2, <4>3
    <3> QED BY <2>10, <3>1, <3>2
  <2>23. ASSUME NEW i \in 1 .. Len(open'), NEW j \in 1 .. Len(open'), i < j
         PROVE  position'[open'[i]] > position'[open'[j]]
    <3>1. \A m \in 1 .. Len(open) : position'[open[m]] = position[open[m]]
      BY <1>1, <2>3
    <3>2. \A l, m \in 1 .. Len(open) : l < m => position[open[l]] > position[open[m]]
      BY DEF Inv, ChainInv
    <3>3. position'[new] = n
      BY <2>3
    <3>4. CASE i \in 1 .. k /\ open'[i] = open[i] /\ i \in 1 .. Len(open)
      <4>1. CASE j \in 1 .. k /\ open'[j] = open[j] /\ j \in 1 .. Len(open)
        BY <2>23, <3>1, <3>2, <3>4, <4>1
      <4>2. CASE j = k + 1 /\ open'[j] = new
        BY <2>12, <3>1, <3>3, <3>4, <4>2
      <4>3. CASE j > k + 1 /\ j - 1 \in 1 .. Len(open) /\ j - 1 > k /\ open'[j] = open[j - 1]
        <5>1. i < j - 1
          BY <1>1, <3>4, <4>3
        <5> QED BY <3>1, <3>2, <3>4, <4>3, <5>1
      <4> QED BY <2>9, <4>1, <4>2, <4>3
    <3>5. CASE i = k + 1 /\ open'[i] = new
      <4>1. j > k + 1 /\ j - 1 \in 1 .. Len(open) /\ j - 1 > k /\ open'[j] = open[j - 1]
        BY <1>1, <2>9, <2>23, <3>5
      <4> QED BY <2>12, <3>1, <3>3, <3>5, <4>1
    <3>6. CASE i > k + 1 /\ i - 1 \in 1 .. Len(open) /\ i - 1 > k /\ open'[i] = open[i - 1]
      <4>1. j > k + 1 /\ j - 1 \in 1 .. Len(open) /\ j - 1 > k /\ open'[j] = open[j - 1]
        BY <1>1, <2>9, <2>23, <3>6
      <4>2. i - 1 < j - 1
        BY <2>23
      <4> QED BY <3>1, <3>2, <3>6, <4>1, <4>2
    <3> QED BY <2>9, <3>4, <3>5, <3>6
  <2>24. ChainInv'
    <3>1. OneUpvaluePerVariable'
      <4> SUFFICES ASSUME NEW u \in Upvalues', NEW w \in Upvalues', upVar'[u] = upVar'[w]
                   PROVE  u = w
          BY DEF OneUpvaluePerVariable
      <4>1. CASE u \in Upvalues /\ w \in Upvalues
        BY <2>6, <4>1 DEF Inv, ChainInv, OneUpvaluePerVariable
      <4> QED BY <2>6, <2>10, <2>13, <4>1
    <3> QED BY <2>21, <2>22, <2>23, <3>1 DEF ChainInv
  <2>25. ValuesInv'
    <3>1. ASSUME NEW uv \in Upvalues', upVar'[uv] # naming'
          PROVE  UpvalueValue(uv)' = store[upVar'[uv]]
      <4>1. CASE uv = new
        <5>1. n \in 1 .. Len(stack) /\ slotVar[n] = var /\ var # 0
          BY <1>0, <2>6, <3>1, <4>1 DEF Captured
        <5>2. UpvalueValue(uv)' = stack[n]
          BY <2>3, <2>4, <4>1 DEF UpvalueValue
        <5> QED BY <2>6, <4>1, <5>1, <5>2 DEF Inv, ValuesInv
      <4>2. CASE uv \in Upvalues
        <5>1. UpvalueValue(uv)' = UpvalueValue(uv)
          BY <2>3, <2>4, <2>5, <4>2 DEF UpvalueValue
        <5>2. upVar[uv] # naming
          BY <1>1, <2>6, <3>1, <4>2 DEF Captured
        <5> QED BY <2>6, <4>2, <5>1, <5>2 DEF Inv, ValuesInv
      <4> QED BY <2>10, <4>1, <4>2
    <3> QED BY <3>1 DEF Inv, ValuesInv
  <2> QED BY <2>15, <2>16, <2>17, <2>18, <2>19, <2>20, <2>24, <2>25 DEF Inv
<1> QED BY <1>2, <1>3, <1>4

LEMMA CaptureLocalStep == ASSUME Inv, CaptureLocal PROVE Inv'
<1>1. PICK n \in NamedLocals : CaptureUpvalue(n, slotVar[n])
    BY DEF CaptureLocal
<1>2. /\ Live /\ Types /\ Len(building) < MaxCaptures
      /\ UNCHANGED <<stack, frames, naming, status, slotVar, store>>
    BY DEF CaptureLocal, CanCapture, Live, Inv
<1>3. n \in 1 .. Len(stack) /\ slotVar[n] \in Variables
    BY <1>2, TopFrame
<1>4. n \in 1 .. StackMax + 1 /\ slotVar[n] \in 1 .. MaxVars
    BY <1>2, <1>3, SizesAssumption DEF Types, Variables
<1>5. Captured(n, slotVar[n])
    BY <1>2, <1>3 DEF Captured
<1> QED BY <1>1, <1>2, <1>4, <1>5, CaptureStep

LEMMA CaptureSelfStep == ASSUME Inv, CaptureSelf PROVE Inv'
<1>1. /\ Live /\ Types /\ Len(building) < MaxCaptures /\ naming = 0 /\ Operands = 0
      /\ Len(store) < MaxVars /\ CaptureUpvalue(LocalTop + 1, Len(store) + 1)
      /\ naming' = Len(store) + 1
      /\ UNCHANGED <<stack, frames, status, slotVar, store>>
    BY DEF CaptureSelf, CanCapture, Live, Inv
<1>2. /\ Operands = Len(stack) - LocalTop /\ Len(stack) \in Nat /\ LocalTop \in Nat
      /\ Len(store) \in Nat /\ Len(stack) <= StackMax
    BY <1>1, TopFrame, FrameType, Elements DEF TopHolds, Types
<1>3. LocalTop = Len(stack)
    BY <1>1, <1>2
<1>4. LocalTop + 1 \in 1 .. StackMax + 1 /\ Len(store) + 1 \in 1 .. MaxVars
    BY <1>1, <1>2, <1>3, SizesAssumption
<1>5. Captured(LocalTop + 1, Len(store) + 1)
    BY <1>1, <1>3 DEF Captured
<1> QED BY <1>1, <1>4, <1>5, CaptureStep

LEMMA InvInductive == Inv /\ [Next]_vars => Inv'
<1> SUFFICES ASSUME Inv, [Next]_vars PROVE Inv'
    OBVIOUS
<1>1. CASE UNCHANGED vars
  <2> USE <1>1 DEF vars, upvalueVars
  <2>1. Types' /\ KnownInv'
    BY DEF Inv, Types, KnownInv, Upvalues, Variables
  <2>2. FramesInv'
    BY DEF Inv, FramesInv, Live, FrameHolds, EndOf
  <2>3. NamingInv' /\ VariablesInv' /\ ClosedGone'
    BY DEF Inv, NamingInv, VariablesInv, ClosedGone, Upvalues, Operands, LocalTop, Frame, Live
  <2>4. ChainInv'
    BY DEF Inv, ChainInv, Chained, LivesAt, OneUpvaluePerVariable, Upvalues
  <2>5. ValuesInv'
    BY DEF Inv, ValuesInv, UpvalueValue, Upvalues
  <2> QED BY <2>1, <2>2, <2>3, <2>4, <2>5 DEF Inv
<1>2. CASE Next
    BY <1>2, ConstantStep, PopOperandStep, GetLocalStep, SetLocalStep, DeclareLocalStep,
       CaptureLocalStep, CaptureSelfStep, CaptureEnclosingStep, ClosureStep,
       GetUpvalueStep, SetUpvalueStep, CloseUpvalueStep, PopLocalStep, CallStep, ReturnStep
       DEF Next
<1> QED BY <1>1, <1>2

LEMMA InvHolds == Spec => []Inv
<1> QED BY InitInv, InvInductive, PTL DEF Spec

(* What refers to created upvalues only is a sequence of them. *)
LEMMA KnownUps ==
    ASSUME NEW ups \in UpRefs, NEW created \in Nat, UpsKnown(ups, created)
    PROVE  ups \in Seq(1 .. created)
<1>1. \A i \in 1 .. Len(ups) : ups[i] \in 1 .. MaxUpvalues
    BY ElementOfSeq DEF UpRefs
<1>2. \A i \in 1 .. Len(ups) : ups[i] \in 1 .. created
    BY <1>1, SizesAssumption DEF UpsKnown
<1>3. ups \in [1 .. Len(ups) -> 1 .. created] /\ Len(ups) \in Nat
    BY <1>2 DEF UpRefs
<1> QED BY <1>3, FunctionIsSeq

LEMMA SeqIsFunction ==
    ASSUME NEW S, NEW s \in Seq(S)
    PROVE  s \in [1 .. Len(s) -> S]
    OBVIOUS

LEMMA InvTypeOK == Inv => TypeOK
<1> SUFFICES ASSUME Inv PROVE TypeOK
    OBVIOUS
<1>1. Types /\ KnownInv /\ Len(position) \in Nat /\ Len(frames) \in Nat /\ Len(store) \in Nat
    BY Elements DEF Inv
<1>2. frames \in Seq([base : Nat, ups : Seq(Upvalues), locals : Nat, fixed : Nat])
  <2> DEFINE R == [base : Nat, ups : Seq(Upvalues), locals : Nat, fixed : Nat]
  <2>1. ASSUME NEW f \in 1 .. Len(frames) PROVE frames[f] \in R
    <3>1. frames[f] \in FrameRecords
      BY <1>1, Elements
    <3>2. frames[f].ups \in Seq(Upvalues)
      BY <1>1, <3>1, KnownUps DEF KnownInv, FrameRecords, Upvalues
    <3> QED BY <3>1, <3>2 DEF FrameRecords
  <2> HIDE DEF R
  <2>2. frames \in [1 .. Len(frames) -> R]
    BY <1>1, <2>1 DEF Types
  <2>3. frames \in Seq(R)
    BY <1>1, <2>2, FunctionIsSeq
  <2> QED BY <2>3 DEF R
<1>3. open \in Seq(Upvalues) /\ building \in Seq(Upvalues)
    BY <1>1, KnownUps DEF Types, KnownInv, Upvalues
<1>4. isClosed \in [Upvalues -> BOOLEAN]
    BY <1>1 DEF Types, Upvalues
<1>5. closed \in [Upvalues -> Values]
    BY <1>1 DEF Types, Upvalues
<1>6. upVar \in [Upvalues -> 1 .. MaxVars]
  <2>1. upVar \in Seq(1 .. MaxVars) /\ Len(upVar) = Len(position)
    BY <1>1 DEF Types
  <2>2. upVar \in [1 .. Len(upVar) -> 1 .. MaxVars]
    BY <2>1, SeqIsFunction
  <2> QED BY <2>1, <2>2 DEF Upvalues
<1>7. slotVar \in [DOMAIN stack -> 0 .. Len(store)]
  <2>1. DOMAIN slotVar = 1 .. Len(stack) /\ DOMAIN stack = 1 .. Len(stack)
    BY <1>1 DEF Types
  <2>2. slotVar \in [1 .. Len(stack) -> 0 .. MaxVars]
    <3>1. slotVar \in Seq(0 .. MaxVars) /\ Len(slotVar) = Len(stack)
      BY <1>1 DEF Types
    <3>2. slotVar \in [1 .. Len(slotVar) -> 0 .. MaxVars]
      BY <3>1, SeqIsFunction
    <3> QED BY <3>1, <3>2
  <2>3. \A n \in 1 .. Len(stack) : slotVar[n] \in 0 .. Len(store)
    BY <1>1, Elements DEF KnownInv
  <2> QED BY <2>1, <2>2, <2>3
<1> QED BY <1>1, <1>2, <1>3, <1>4, <1>5, <1>6, <1>7 DEF TypeOK, Types

LEMMA InvDomains ==
    ASSUME Inv
    PROVE  /\ DOMAIN stack = 1 .. Len(stack) /\ DOMAIN frames = 1 .. Len(frames)
           /\ DOMAIN open = 1 .. Len(open)
<1>1. stack \in Seq(Values) /\ frames \in Seq(FrameRecords) /\ open \in Seq(1 .. MaxUpvalues)
    BY DEF Inv, Types, UpRefs
<1> QED BY <1>1

LEMMA InvOpenChain == Inv => OpenChainIsTrue
<1> SUFFICES ASSUME Inv PROVE OpenChainIsTrue
    OBVIOUS
<1>1. ChainDescends
    BY InvDomains DEF Inv, ChainInv, ChainDescends
<1>2. \A uv \in Upvalues : ~isClosed[uv] <=> \E j \in DOMAIN open : open[j] = uv
    BY InvDomains DEF Inv, ChainInv, Chained
<1>3. \A uv \in Upvalues : ~isClosed[uv] =>
            \/ position[uv] \in DOMAIN stack /\ slotVar[position[uv]] = upVar[uv]
            \/ naming # 0 /\ upVar[uv] = naming /\ position[uv] = Len(stack) + 1
  <2> SUFFICES ASSUME NEW uv \in Upvalues, ~isClosed[uv], position[uv] <= Len(stack)
               PROVE  position[uv] \in DOMAIN stack
      BY DEF Inv, ChainInv, LivesAt
  <2> QED BY InvDomains, Elements DEF Inv
<1>4. OneUpvaluePerVariable
    BY DEF Inv, ChainInv
<1> QED BY <1>1, <1>2, <1>3, <1>4 DEF OpenChainIsTrue, OpenUpvaluesLive

(* Whatever program runs, the state has the types that the code counts on: *)
(* no sequence outgrows its bound, and frames and closures refer to        *)
(* upvalues that capture_upvalue has created.                              *)
THEOREM TypeCorrect == Spec => []TypeOK
<1> QED BY InvHolds, InvTypeOK, PTL

(* capture_upvalue and close_upvalues may trust the chain: it is sorted,   *)
(* it holds the open upvalues and only those, each points at the slot in   *)
(* which its variable lives, and no variable has two.                      *)
THEOREM OpenChainTrue == Spec => []OpenChainIsTrue
<1> QED BY InvHolds, InvOpenChain, PTL

(* Closures follow lexical scoping: slots and upvalues, open or closed,    *)
(* hold the value last assigned to the variable they stand for, through    *)
(* GetLocal, SetLocal, GetUpvalue and SetUpvalue of any closure.           *)
THEOREM LexicalScoping == Spec => []ReadsSeeLastWrite
<1>1. Inv => ReadsSeeLastWrite
    BY InvDomains DEF Inv, ValuesInv, ReadsSeeLastWrite
<1> QED BY <1>1, InvHolds, PTL

(* The frames partition the stack: call and return leave the caller's      *)
(* locals and operands where they were.                                    *)
THEOREM FramesPartitionStack == Spec => []FramesNested
<1>1. Inv => FramesNested
    BY InvDomains DEF Inv, FramesInv, FrameHolds, EndOf, Live, FramesNested
<1> QED BY <1>1, InvHolds, PTL

==============================================================================
