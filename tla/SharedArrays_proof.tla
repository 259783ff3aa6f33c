-------------------------- MODULE SharedArrays_proof --------------------------
(***************************************************************************)
(* Iterations over arrays that the program shares and resizes meanwhile,   *)
(* for arrays of any length and any depth of iterations: on the VM every   *)
(* read is of an element, in the interpreter every read of an iteration    *)
(* whose array nothing has moved or shortened so far, and whatever was     *)
(* done to the others' arrays, no iteration runs past its end.             *)
(*                                                                         *)
(* The inductive invariant says of each iteration in progress, whether it  *)
(* is the innermost or not, what keeps its iterators good (FrameSound): in *)
(* its body the position is before the end, and as long as it is steady    *)
(* its buffer is the array's and its end no further than the last element. *)
(***************************************************************************)
EXTENDS SharedArrays, SequenceTheorems, TLAPS

Readable == Items \cup {Garbage}

FrameRecords ==
    [construct : Constructs, array : Arrays, pos : 0 .. MaxLength, end : 0 .. MaxLength,
     buffer : Nat, arg : Readable, kept : Seq(Readable \X Readable), phase : {"header", "body"},
     steady : BOOLEAN]

FrameSound(f) ==
    /\ f.phase = "body" => f.pos < MaxLength
    /\ f.construct = "map" => Len(f.kept) = f.pos
    /\ path = "vm" => f.construct = "for" /\ f.steady
    /\ path = "tree walk" => f.pos <= f.end /\ (f.phase = "body" => f.pos < f.end)
    /\ path = "tree walk" /\ f.steady =>
            f.buffer = capacity[f.array] /\ f.end <= Len(elems[f.array])
    /\ f.steady =>
            /\ f.phase = "body" => f.arg \in Items
            /\ f.kept \in Seq(Items \X Items)

ArraysSound ==
    /\ elems \in [Arrays -> Seq(Items)]
    /\ capacity \in [Arrays -> Nat]
    /\ \A a \in Arrays : Len(elems[a]) <= MaxLength /\ Len(elems[a]) <= capacity[a]

FramesSound ==
    /\ frames \in Seq(FrameRecords)
    /\ Len(frames) <= MaxDepth
    /\ \A i \in 1 .. Len(frames) : FrameSound(frames[i])

Inv ==
    /\ path \in {"tree walk", "vm"}
    /\ ArraysSound
    /\ FramesSound

----------------------------------------------------------------------------
(* Sequences. *)

LEMMA Bounded ==
    ASSUME NEW S, NEW n \in Nat, NEW s
    PROVE  s \in BoundedSeq(S, n) <=> s \in Seq(S) /\ Len(s) <= n
<1>1. ASSUME s \in BoundedSeq(S, n) PROVE s \in Seq(S) /\ Len(s) <= n
  <2>1. PICK m \in 0 .. n : s \in [1 .. m -> S]
    BY <1>1 DEF BoundedSeq, SeqOf
  <2>2. m \in Nat /\ s \in Seq(S)
    BY <2>1, SeqDef
  <2>3. Len(s) \in Nat /\ DOMAIN s = 1 .. Len(s) /\ DOMAIN s = 1 .. m
    BY <2>1, <2>2, LenProperties
  <2>4. Len(s) = m
    <3>1. Len(s) <= m
      <4>1. Len(s) \in 1 .. Len(s) => Len(s) \in 1 .. m
        BY <2>3
      <4> QED BY ONLY <2>2, <2>3, <4>1
    <3>2. m <= Len(s)
      <4>1. m \in 1 .. m => m \in 1 .. Len(s)
        BY <2>3
      <4> QED BY ONLY <2>2, <2>3, <4>1
    <3>3. m \in Nat /\ Len(s) \in Nat
      BY <2>2, <2>3
    <3> QED BY ONLY <3>1, <3>2, <3>3
  <2> QED BY <2>1, <2>2, <2>4
<1>2. ASSUME s \in Seq(S), Len(s) <= n PROVE s \in BoundedSeq(S, n)
  <2>1. Len(s) \in 0 .. n /\ s \in [1 .. Len(s) -> S]
    BY <1>2, LenProperties
  <2> QED BY <2>1 DEF BoundedSeq, SeqOf
<1> QED BY <1>1, <1>2

LEMMA FrontFacts ==
    ASSUME NEW S, NEW s \in Seq(S), s # <<>>
    PROVE  /\ Front(s) \in Seq(S) /\ Len(Front(s)) = Len(s) - 1 /\ Len(s) \in Nat \ {0}
           /\ \A i \in 1 .. Len(s) - 1 : Front(s)[i] = s[i]
           /\ Last(s) = s[Len(s)] /\ Last(s) \in S
<1>1. Len(s) \in Nat \ {0} /\ s[Len(s)] \in S
    BY EmptySeq, ElementOfSeq, LenProperties
<1>2. PICK k \in Nat : k + 1 = Len(s)
    BY <1>1
<1>3. \A i \in 1 .. k : s[i] \in S
    BY <1>2
<1>4. SubSeq(s, 1, k) \in Seq(S) /\ Len(SubSeq(s, 1, k)) = k
      /\ \A i \in 1 .. k : SubSeq(s, 1, k)[i] = s[i]
    BY <1>2, <1>3, SubSeqProperties
<1>5. Front(s) = SubSeq(s, 1, k) /\ Len(s) - 1 = k
    BY <1>2 DEF Front
<1> QED BY <1>1, <1>4, <1>5 DEF Last

LEMMA AppendFacts ==
    ASSUME NEW S, NEW s \in Seq(S), NEW e \in S
    PROVE  /\ Append(s, e) \in Seq(S) /\ Len(Append(s, e)) = Len(s) + 1
           /\ \A i \in 1 .. Len(s) : Append(s, e)[i] = s[i]
           /\ Append(s, e)[Len(s) + 1] = e
BY AppendProperties

LEMMA Larger ==
    ASSUME NEW c \in Nat
    PROVE  Max({1, 2 * c}) \in Nat /\ Max({1, 2 * c}) >= c + 1
<1> DEFINE S == {1, 2 * c}
<1>1. \E x \in S : \A y \in S : x >= y
    OBVIOUS
<1>2. Max(S) \in S /\ \A y \in S : Max(S) >= y
    BY <1>1, Zenon DEF Max
<1>3. 1 \in S /\ 2 * c \in S /\ \A x \in S : x \in Nat
    OBVIOUS
<1> HIDE DEF S
<1>4. Max(S) \in Nat /\ Max(S) >= 1 /\ Max(S) >= 2 * c
    BY <1>2, <1>3
<1>5. Max(S) >= c + 1
    BY <1>4
<1> QED BY <1>4, <1>5 DEF S

----------------------------------------------------------------------------
(* What the frames need of a step that leaves them alone, replaces the     *)
(* innermost one, removes it or adds one.                                  *)

LEMMA SameFrames ==
    ASSUME FramesSound, frames' = frames,
           \A i \in 1 .. Len(frames) : FrameSound(frames[i])'
    PROVE  FramesSound'
BY DEF FramesSound

LEMMA TopFacts ==
    ASSUME FramesSound, frames # <<>>
    PROVE  /\ Top \in FrameRecords /\ FrameSound(Top) /\ Len(frames) \in Nat \ {0}
           /\ Front(frames) \in Seq(FrameRecords) /\ Len(Front(frames)) = Len(frames) - 1
           /\ \A i \in 1 .. Len(frames) - 1 : Front(frames)[i] = frames[i]
<1>1. frames \in Seq(FrameRecords)
    BY DEF FramesSound
<1>2. Len(frames) \in Nat \ {0}
    BY <1>1, FrontFacts
<1>3. Top = frames[Len(frames)] /\ Len(frames) \in 1 .. Len(frames)
    BY <1>2 DEF Top, Last
<1> QED BY <1>1, <1>2, <1>3, FrontFacts DEF FramesSound, Top

ArraysStay == UNCHANGED <<path, elems, capacity>>


LEMMA RemoveTop ==
    ASSUME FramesSound, frames # <<>>, ArraysStay, frames' = Front(frames)
    PROVE  FramesSound'
<1>1. /\ frames' \in Seq(FrameRecords) /\ Len(frames') = Len(frames) - 1
      /\ Len(frames) \in Nat \ {0}
      /\ \A i \in 1 .. Len(frames) - 1 : frames'[i] = frames[i]
    BY TopFacts
<1>2. \A i \in 1 .. Len(frames') : frames'[i] = frames[i] /\ i \in 1 .. Len(frames)
    BY <1>1
<1>3. Len(frames') <= MaxDepth
    BY <1>1, ParametersAssumption DEF FramesSound
<1>4. ASSUME NEW i \in 1 .. Len(frames') PROVE FrameSound(frames[i])'
    BY <1>2 DEF FramesSound, ArraysStay, FrameSound
<1> QED BY <1>1, <1>2, <1>3, <1>4 DEF FramesSound

LEMMA ReplaceTop ==
    ASSUME FramesSound, frames # <<>>, ArraysStay,
           NEW f \in FrameRecords, FrameSound(f), WithTop(f)
    PROVE  FramesSound'
<1>1. /\ Front(frames) \in Seq(FrameRecords) /\ Len(Front(frames)) = Len(frames) - 1
      /\ Len(frames) \in Nat \ {0}
      /\ \A i \in 1 .. Len(frames) - 1 : Front(frames)[i] = frames[i]
    BY TopFacts
<1>2. /\ frames' \in Seq(FrameRecords) /\ Len(frames') = Len(Front(frames)) + 1
      /\ \A i \in 1 .. Len(Front(frames)) : frames'[i] = Front(frames)[i]
      /\ frames'[Len(Front(frames)) + 1] = f
    BY <1>1, AppendFacts DEF WithTop
<1>3. Len(frames') = Len(frames)
    BY <1>1, <1>2
<1>4. \A i \in 1 .. Len(frames') : frames'[i] = frames[i] \/ frames'[i] = f
    BY <1>1, <1>2
<1>5. ASSUME NEW i \in 1 .. Len(frames') PROVE FrameSound(frames[i])'
    <2>1. FrameSound(frames[i])
      BY <1>3 DEF FramesSound
    <2>2. frames'[i] = frames[i] \/ frames'[i] = f
      BY <1>4
    <2>3. FrameSound(frames'[i])
      BY <2>1, <2>2
    <2> QED BY <2>3 DEF ArraysStay, FrameSound
<1> QED BY <1>2, <1>3, <1>5 DEF FramesSound

LEMMA AddTop ==
    ASSUME FramesSound, Len(frames) < MaxDepth, ArraysStay,
           NEW f \in FrameRecords, FrameSound(f), frames' = Append(frames, f)
    PROVE  FramesSound'
<1>1. frames \in Seq(FrameRecords) /\ Len(frames) \in Nat
    BY DEF FramesSound
<1>2. /\ frames' \in Seq(FrameRecords) /\ Len(frames') = Len(frames) + 1
      /\ \A i \in 1 .. Len(frames) : frames'[i] = frames[i]
      /\ frames'[Len(frames) + 1] = f
    BY <1>1, AppendFacts
<1>3. ASSUME NEW i \in 1 .. Len(frames') PROVE FrameSound(frames[i])'
    <2>1. i \in 1 .. Len(frames) \/ i = Len(frames) + 1
      BY <1>1, <1>2
    <2>2. FrameSound(frames'[i])
      BY <1>2, <2>1 DEF FramesSound
    <2> QED BY <2>2 DEF ArraysStay, FrameSound
<1>4. Len(frames') <= MaxDepth
    BY <1>1, <1>2, ParametersAssumption
<1> QED BY <1>2, <1>3, <1>4 DEF FramesSound

----------------------------------------------------------------------------
(* Steps of the program text. *)

LEMMA Disturbed ==
    ASSUME FramesSound, NEW a, Disturb(a)
    PROVE  /\ frames' \in Seq(FrameRecords) /\ Len(frames') = Len(frames)
           /\ \A i \in 1 .. Len(frames) :
                /\ frames[i] \in FrameRecords /\ FrameSound(frames[i])
                /\ frames'[i] = [frames[i] EXCEPT
                        !.steady = @ /\ (path = "vm" \/ frames[i].array # a)]
<1>1. frames \in Seq(FrameRecords) /\ Len(frames) \in Nat /\ DOMAIN frames = 1 .. Len(frames)
  <2>1. frames \in Seq(FrameRecords)
    BY DEF FramesSound
  <2> QED BY <2>1, LenProperties
<1>2. \A i \in 1 .. Len(frames) : frames[i] \in FrameRecords /\ FrameSound(frames[i])
    BY <1>1, ElementOfSeq DEF FramesSound
<1>3. /\ DOMAIN frames' = 1 .. Len(frames)
      /\ \A i \in 1 .. Len(frames) :
            frames'[i] = [frames[i] EXCEPT
                            !.steady = @ /\ (path = "vm" \/ frames[i].array # a)]
    BY <1>1 DEF Disturb
<1>4. ASSUME NEW i \in 1 .. Len(frames) PROVE frames'[i] \in FrameRecords
  <2>1. PICK f \in FrameRecords : f = frames[i]
    BY <1>2
  <2>2. PICK c \in BOOLEAN : c = (path = "vm" \/ f.array # a)
    OBVIOUS
  <2>3. PICK d \in BOOLEAN : d = (f.steady /\ c)
    BY Zenon
  <2>4. frames'[i] = [f EXCEPT !.steady = d]
    BY <1>3, <2>1, <2>2, <2>3
  <2> QED BY <2>4 DEF FrameRecords
<1>5. frames' \in [1 .. Len(frames) -> FrameRecords]
  <2>1. frames' = [i \in 1 .. Len(frames) |-> frames'[i]]
    BY <1>1 DEF Disturb
  <2> QED BY <1>4, <2>1
<1>6. frames' \in Seq(FrameRecords)
    BY <1>1, <1>5, SeqDef
<1>7. Len(frames') = Len(frames)
    BY <1>1, <1>5, <1>6, LenProperties
<1> QED BY <1>2, <1>3, <1>6, <1>7

(* An iteration notices nothing of an array that keeps its buffer and is   *)
(* not shorter than before, nor of an array that it does not iterate; one  *)
(* that has to notice is not steady any more.                              *)
LEMMA ArrayChanges ==
    ASSUME Inv, NEW a \in Arrays, path' = path, ArraysSound',
           \A b \in Arrays \ {a} : elems'[b] = elems[b] /\ capacity'[b] = capacity[b],
           \/ Disturb(a)
           \/ /\ frames' = frames
              /\ capacity'[a] = capacity[a] /\ Len(elems'[a]) >= Len(elems[a])
    PROVE  FramesSound'
<1>1. frames \in Seq(FrameRecords) /\ Len(frames) \in Nat
  <2>1. frames \in Seq(FrameRecords)
    BY DEF Inv, FramesSound
  <2> QED BY <2>1, LenProperties
<1>2. /\ frames' \in Seq(FrameRecords) /\ Len(frames') = Len(frames)
      /\ \A i \in 1 .. Len(frames) :
            /\ frames[i] \in FrameRecords /\ FrameSound(frames[i])
            /\ \/ /\ Disturb(a)
                  /\ frames'[i] = [frames[i] EXCEPT
                        !.steady = @ /\ (path = "vm" \/ frames[i].array # a)]
               \/ /\ frames'[i] = frames[i] /\ capacity'[a] = capacity[a]
                  /\ Len(elems'[a]) >= Len(elems[a])
  <2>1. CASE Disturb(a)
    BY <2>1, Disturbed DEF Inv
  <2>2. CASE ~Disturb(a)
    BY <1>1, <2>2, ElementOfSeq DEF Inv, FramesSound
  <2> QED BY <2>1, <2>2
<1>3. ASSUME NEW i \in 1 .. Len(frames) PROVE FrameSound(frames[i])'
  <2>1. PICK f \in FrameRecords : f = frames[i] /\ FrameSound(f)
    BY <1>2
  <2>2. PICK g : /\ g = frames'[i]
                 /\ \/ g = [f EXCEPT !.steady = @ /\ (path = "vm" \/ f.array # a)]
                    \/ /\ g = f /\ capacity'[a] = capacity[a]
                       /\ Len(elems'[a]) >= Len(elems[a])
    BY <1>2, <2>1
  <2>3. /\ g.phase = f.phase /\ g.pos = f.pos /\ g.end = f.end /\ g.construct = f.construct
        /\ g.kept = f.kept /\ g.arg = f.arg /\ g.buffer = f.buffer /\ g.array = f.array
    BY <2>2 DEF FrameRecords
  <2>4. /\ g.steady => f.steady
        /\ path = "vm" /\ f.steady => g.steady
        /\ g.steady => \/ path = "vm"
                       \/ f.array # a
                       \/ capacity'[a] = capacity[a] /\ Len(elems'[a]) >= Len(elems[a])
    <3>1. CASE g = [f EXCEPT !.steady = @ /\ (path = "vm" \/ f.array # a)]
      <4>1. g.steady = (f.steady /\ (path = "vm" \/ f.array # a))
        BY <3>1 DEF FrameRecords
      <4> QED BY <4>1, Zenon
    <3>2. CASE g = f /\ capacity'[a] = capacity[a] /\ Len(elems'[a]) >= Len(elems[a])
      BY <3>2
    <3> QED BY <2>2, <3>1, <3>2
  <2>5. f.array \in Arrays /\ f.end \in Nat
    BY ParametersAssumption DEF FrameRecords
  <2>6. Len(elems[f.array]) \in Nat /\ Len(elems'[f.array]) \in Nat
    <3>1. elems[f.array] \in Seq(Items) /\ elems'[f.array] \in Seq(Items)
      BY <2>5 DEF Inv, ArraysSound
    <3> QED BY <3>1, LenProperties
  <2>7. ASSUME path = "tree walk", g.steady
        PROVE  g.buffer = capacity'[g.array] /\ g.end <= Len(elems'[g.array])
    <3>1. f.buffer = capacity[f.array] /\ f.end <= Len(elems[f.array])
      BY <2>1, <2>4, <2>7 DEF FrameSound
    <3>2. capacity'[f.array] = capacity[f.array] /\ Len(elems'[f.array]) >= Len(elems[f.array])
      <4>1. CASE f.array # a
        <5>1. capacity'[f.array] = capacity[f.array] /\ elems'[f.array] = elems[f.array]
          BY <2>5, <4>1
        <5> QED BY <2>6, <5>1
      <4>2. CASE f.array = a
        <5>1. capacity'[a] = capacity[a] /\ Len(elems'[a]) >= Len(elems[a])
          BY <2>4, <2>7, <4>2
        <5> QED BY <4>2, <5>1, Zenon
      <4> QED BY <4>1, <4>2
    <3>3. PICK b, e : b = f.array /\ e = f.end
      OBVIOUS
    <3>4. e <= Len(elems'[b])
      <4>1. e \in Nat /\ Len(elems[b]) \in Nat /\ Len(elems'[b]) \in Nat
            /\ e <= Len(elems[b]) /\ Len(elems'[b]) >= Len(elems[b])
        BY <2>5, <2>6, <3>1, <3>2, <3>3
      <4> QED BY ONLY <4>1
    <3> QED BY <2>3, <3>1, <3>2, <3>3, <3>4, Zenon
  <2>8. /\ g.phase = "body" => g.pos < MaxLength
        /\ g.construct = "map" => Len(g.kept) = g.pos
        /\ path = "vm" => g.construct = "for" /\ g.steady
        /\ path = "tree walk" => g.pos <= g.end /\ (g.phase = "body" => g.pos < g.end)
        /\ g.steady =>
                /\ g.phase = "body" => g.arg \in Items
                /\ g.kept \in Seq(Items \X Items)
    BY <2>1, <2>3, <2>4 DEF FrameSound
  <2>9. FrameSound(g)'
    BY <2>7, <2>8 DEF FrameSound
  <2> QED BY <2>2, <2>9 DEF FrameSound
<1>4. Len(frames') <= MaxDepth
    BY <1>2 DEF Inv, FramesSound
<1> QED BY <1>2, <1>3, <1>4 DEF FramesSound

LEMMA BufferFacts ==
    ASSUME ArraysSound, NEW a \in Arrays
    PROVE  /\ elems \in [Arrays -> Seq(Items)] /\ capacity \in [Arrays -> Nat]
           /\ \A b \in Arrays : Len(elems[b]) <= MaxLength /\ Len(elems[b]) <= capacity[b]
           /\ Len(elems[a]) \in Nat /\ capacity[a] \in Nat /\ MaxLength \in Nat
<1>1. elems[a] \in Seq(Items) /\ capacity[a] \in Nat
    BY DEF ArraysSound
<1>2. Len(elems[a]) \in Nat
    BY <1>1, LenProperties
<1> QED BY <1>1, <1>2, ParametersAssumption DEF ArraysSound

LEMMA PushStep ==
    ASSUME Inv, path' = path, NEW args, CallPush(args)
    PROVE  ArraysSound' /\ FramesSound'
<1>1. CASE Crash
  BY <1>1 DEF Crash, Inv, ArraysSound, FramesSound, FrameSound
<1>2. CASE ~Crash
  <2>1. PICK a \in Arrays, v \in Items :
            /\ Len(elems[a]) < MaxLength /\ PushBack(a, v)
    BY <1>2 DEF CallPush
  <2>2. /\ elems \in [Arrays -> Seq(Items)] /\ capacity \in [Arrays -> Nat]
        /\ \A b \in Arrays : Len(elems[b]) <= MaxLength /\ Len(elems[b]) <= capacity[b]
        /\ Len(elems[a]) \in Nat /\ capacity[a] \in Nat /\ MaxLength \in Nat
    BY BufferFacts DEF Inv
  <2>3. Append(elems[a], v) \in Seq(Items) /\ Len(Append(elems[a], v)) = Len(elems[a]) + 1
    BY <2>2, AppendFacts
  <2>4. /\ elems' \in [Arrays -> Seq(Items)] /\ Len(elems'[a]) = Len(elems[a]) + 1
        /\ \A b \in Arrays \ {a} : elems'[b] = elems[b]
    BY <2>1, <2>2, <2>3 DEF PushBack
  <2>5. /\ capacity' \in [Arrays -> Nat] /\ Len(elems[a]) + 1 <= capacity'[a]
        /\ \A b \in Arrays \ {a} : capacity'[b] = capacity[b]
        /\ \/ capacity'[a] = capacity[a] /\ frames' = frames
           \/ Disturb(a)
    <3>1. CASE Len(elems[a]) < capacity[a]
      BY <2>1, <2>2, <3>1 DEF PushBack
    <3>2. CASE ~(Len(elems[a]) < capacity[a])
      <4>1. PICK c \in Nat : c = Max({1, 2 * capacity[a]}) /\ c >= capacity[a] + 1
        BY <2>2, Larger
      <4>2. capacity' = [capacity EXCEPT ![a] = c] /\ Disturb(a)
        BY <2>1, <3>2, <4>1 DEF PushBack
      <4>3. capacity[a] = Len(elems[a])
        BY <2>2, <3>2
      <4> QED BY <2>2, <4>1, <4>2, <4>3
    <3> QED BY <3>1, <3>2
  <2>6. ArraysSound'
    <3>1. ASSUME NEW b \in Arrays
          PROVE  Len(elems'[b]) <= MaxLength /\ Len(elems'[b]) <= capacity'[b]
      <4>1. CASE b # a
        BY <2>2, <2>4, <2>5, <4>1
      <4>2. CASE b = a
        BY <2>1, <2>2, <2>4, <2>5, <4>2
      <4> QED BY <4>1, <4>2
    <3> QED BY <2>4, <2>5, <3>1 DEF ArraysSound
  <2>7. \/ Disturb(a)
        \/ /\ frames' = frames
           /\ capacity'[a] = capacity[a] /\ Len(elems'[a]) >= Len(elems[a])
    BY <2>2, <2>4, <2>5
  <2> QED BY <2>1, <2>4, <2>5, <2>6, <2>7, ArrayChanges
<1> QED BY <1>1, <1>2

LEMMA PopStep ==
    ASSUME Inv, path' = path, NEW a \in Arrays, CallPop(a)
    PROVE  ArraysSound' /\ FramesSound'
<1>1. CASE Crash
  BY <1>1 DEF Crash, Inv, ArraysSound, FramesSound, FrameSound
<1>2. CASE ~Crash
  <2>1. /\ elems[a] # <<>> /\ elems' = [elems EXCEPT ![a] = Front(@)]
        /\ Disturb(a) /\ UNCHANGED capacity
    BY <1>2 DEF CallPop
  <2>2. /\ elems \in [Arrays -> Seq(Items)] /\ capacity \in [Arrays -> Nat]
        /\ \A b \in Arrays : Len(elems[b]) <= MaxLength /\ Len(elems[b]) <= capacity[b]
        /\ Len(elems[a]) \in Nat /\ capacity[a] \in Nat /\ MaxLength \in Nat
    BY BufferFacts DEF Inv
  <2>3. Front(elems[a]) \in Seq(Items) /\ Len(Front(elems[a])) = Len(elems[a]) - 1
    BY <2>1, <2>2, FrontFacts
  <2>4. /\ elems' \in [Arrays -> Seq(Items)] /\ Len(elems'[a]) = Len(elems[a]) - 1
        /\ \A b \in Arrays \ {a} : elems'[b] = elems[b]
    BY <2>1, <2>2, <2>3
  <2>5. ArraysSound'
    <3>1. ASSUME NEW b \in Arrays
          PROVE  Len(elems'[b]) <= MaxLength /\ Len(elems'[b]) <= capacity'[b]
      BY <2>1, <2>2, <2>4
    <3> QED BY <2>1, <2>2, <2>4, <3>1 DEF ArraysSound
  <2> QED BY <2>1, <2>4, <2>5, ArrayChanges
<1> QED BY <1>1, <1>2

LEMMA AssignStep ==
    ASSUME Inv, path' = path, NEW a \in Arrays, NEW v \in Items, NEW i, AssignIndex(a, i, v)
    PROVE  ArraysSound' /\ FramesSound'
<1>1. CASE Crash
  BY <1>1 DEF Crash, Inv, ArraysSound, FramesSound, FrameSound
<1>2. CASE ~Crash
  <2>1. /\ i \in DOMAIN elems[a] /\ elems' = [elems EXCEPT ![a][i] = v]
        /\ UNCHANGED <<capacity, frames>>
    BY <1>2 DEF AssignIndex
  <2>2. /\ elems \in [Arrays -> Seq(Items)] /\ capacity \in [Arrays -> Nat]
        /\ \A b \in Arrays : Len(elems[b]) <= MaxLength /\ Len(elems[b]) <= capacity[b]
        /\ elems[a] \in Seq(Items)
    BY DEF Inv, ArraysSound
  <2>3. PICK s : s = [elems[a] EXCEPT ![i] = v]
    OBVIOUS
  <2>4. s \in Seq(Items) /\ Len(s) = Len(elems[a])
    <3>1. i \in 1 .. Len(elems[a])
      BY <2>1, <2>2
    <3> QED BY <2>2, <2>3, <3>1, ExceptSeq
  <2>5. /\ elems' \in [Arrays -> Seq(Items)] /\ Len(elems'[a]) = Len(elems[a])
        /\ \A b \in Arrays \ {a} : elems'[b] = elems[b]
    <3>1. elems' = [elems EXCEPT ![a] = s]
      BY <2>1, <2>3
    <3> QED BY <2>2, <2>4, <3>1
  <2>6. ArraysSound'
    <3>1. ASSUME NEW b \in Arrays
          PROVE  Len(elems'[b]) <= MaxLength /\ Len(elems'[b]) <= capacity'[b]
      BY <2>1, <2>2, <2>5
    <3> QED BY <2>1, <2>2, <2>5, <3>1 DEF ArraysSound
  <2>7. Len(elems'[a]) >= Len(elems[a])
    BY <2>2, <2>5
  <2> QED BY <2>1, <2>5, <2>6, <2>7, ArrayChanges
<1> QED BY <1>1, <1>2

----------------------------------------------------------------------------
(* Steps of the iterations. *)

(* The element that an iterator stands for is there. *)
LEMMA ReadIsLive ==
    ASSUME Inv, NEW f \in FrameRecords, IsLive(f), NEW v \in Read(f)
    PROVE  v \in Items
<1>1. f.array \in Arrays /\ f.pos \in Nat
    BY ParametersAssumption DEF FrameRecords
<1>2. elems[f.array] \in Seq(Items) /\ Len(elems[f.array]) \in Nat
    BY <1>1, BufferFacts DEF Inv
<1>3. f.pos + 1 \in 1 .. Len(elems[f.array])
    BY <1>1, <1>2 DEF IsLive
<1>4. elems[f.array][f.pos + 1] \in Items
    BY <1>2, <1>3, ElementOfSeq
<1> QED BY <1>4 DEF Read

LEMMA ReadIsReadable ==
    ASSUME Inv, NEW f \in FrameRecords, NEW v \in Read(f)
    PROVE  v \in Readable
<1>1. CASE IsLive(f)
    BY <1>1, ReadIsLive DEF Readable
<1>2. CASE ~IsLive(f)
    BY <1>2 DEF Read, Readable
<1> QED BY <1>1, <1>2

LEMMA StartStep ==
    ASSUME Inv, path' = path, NEW c \in Constructs, NEW a \in Arrays, Start(c, a)
    PROVE  ArraysSound' /\ FramesSound'
<1>1. CASE Crash
  BY <1>1 DEF Crash, Inv, ArraysSound, FramesSound, FrameSound
<1>2. CASE ~Crash
  <2>1. /\ Len(frames) < MaxDepth /\ ArraysStay
        /\ path = "tree walk" \/ c = "for"
    BY <1>2 DEF Start, ArraysStay
  <2>2. PICK f : f = [construct |-> c, array |-> a, pos |-> 0, end |-> Len(elems[a]),
                      buffer |-> capacity[a], arg |-> Garbage, kept |-> <<>>,
                      phase |-> "header", steady |-> TRUE]
    OBVIOUS
  <2>3. frames' = Append(frames, f)
    BY <1>2, <2>2 DEF Start
  <2>4. Len(elems[a]) \in 0 .. MaxLength /\ capacity[a] \in Nat /\ 0 \in 0 .. MaxLength
    <3>1. /\ Len(elems[a]) \in Nat /\ Len(elems[a]) <= MaxLength
          /\ MaxLength \in Nat /\ capacity[a] \in Nat
      BY BufferFacts DEF Inv
    <3> QED BY ONLY <3>1
  <2>5. <<>> \in Seq(Items \X Items) /\ <<>> \in Seq(Readable \X Readable) /\ Len(<<>>) = 0
    BY EmptySeq
  <2>6. f \in FrameRecords
    BY <2>2, <2>4, <2>5 DEF FrameRecords, Readable
  <2>7. FrameSound(f)
    <3>1. /\ f.construct = c /\ f.array = a /\ f.pos = 0 /\ f.end = Len(elems[a])
          /\ f.buffer = capacity[a] /\ f.kept = <<>> /\ f.phase = "header" /\ f.steady
      BY <2>2
    <3>2. /\ f.end <= Len(elems[a]) /\ f.pos <= f.end /\ Len(f.kept) = f.pos
      BY <2>4, <2>5, <3>1
    <3> QED BY <2>1, <2>5, <3>1, <3>2 DEF FrameSound, Inv
  <2>8. FramesSound'
    BY <2>1, <2>3, <2>6, <2>7, AddTop DEF Inv
  <2> QED BY <2>1, <2>8 DEF ArraysStay, ArraysSound, Inv
<1> QED BY <1>1, <1>2

LEMMA EnterStep ==
    ASSUME Inv, path' = path, Enter
    PROVE  ArraysSound' /\ FramesSound'
<1>1. frames # <<>> /\ HasNext(Top) /\ ArraysStay /\ Top.phase = "header"
    BY DEF Enter, AtHeader, ArraysStay
<1>2. PICK top \in FrameRecords : top = Top /\ FrameSound(top)
    BY <1>1, TopFacts DEF Inv
<1>3. PICK v \in Read(top) : WithTop([top EXCEPT !.arg = v, !.phase = "body"])
    BY <1>2 DEF Enter
<1>4. /\ top.array \in Arrays /\ top.pos \in Nat /\ top.end \in Nat
      /\ Len(elems[top.array]) \in Nat /\ Len(elems[top.array]) <= MaxLength
    <2>1. top.array \in Arrays /\ top.pos \in Nat /\ top.end \in Nat
      BY ParametersAssumption DEF FrameRecords
    <2> QED BY <2>1, BufferFacts DEF Inv
<1>5. /\ path = "tree walk" => top.pos < top.end
      /\ top.steady => IsLive(top)
      /\ top.pos < MaxLength
  <2>1. CASE path = "vm"
    <3>1. top.pos < Len(elems[top.array])
      BY <1>1, <1>2, <2>1 DEF HasNext
    <3>2. top.pos < MaxLength
      BY <1>4, <3>1, ParametersAssumption
    <3> QED BY <2>1, <3>1, <3>2 DEF IsLive
  <2>2. CASE path = "tree walk"
    <3>1. top.pos <= top.end /\ top.pos # top.end
      BY <1>1, <1>2, <2>2 DEF FrameSound, HasNext
    <3>2. top.end \in 0 .. MaxLength
      BY DEF FrameRecords
    <3>3. top.pos < top.end /\ top.pos < MaxLength
      BY <1>4, <3>1, <3>2, ParametersAssumption
    <3>4. ASSUME top.steady PROVE IsLive(top)
      <4>1. top.buffer = capacity[top.array] /\ top.end <= Len(elems[top.array])
        BY <1>2, <2>2, <3>4 DEF FrameSound
      <4>2. top.pos < Len(elems[top.array])
        BY <1>4, <3>3, <4>1
      <4> QED BY <4>1, <4>2 DEF IsLive
    <3> QED BY <3>3, <3>4
  <2> QED BY <2>1, <2>2 DEF Inv
<1>6. v \in Readable /\ (top.steady => v \in Items)
    BY <1>3, <1>5, ReadIsLive, ReadIsReadable
<1>7. PICK f : f = [top EXCEPT !.arg = v, !.phase = "body"]
    OBVIOUS
<1>8. /\ f.arg = v /\ f.phase = "body" /\ f.construct = top.construct /\ f.kept = top.kept
      /\ f.pos = top.pos /\ f.end = top.end /\ f.buffer = top.buffer /\ f.array = top.array
      /\ f.steady = top.steady /\ f \in FrameRecords
    BY <1>6, <1>7 DEF FrameRecords
<1>9. FrameSound(f)
    BY <1>2, <1>5, <1>6, <1>8 DEF FrameSound
<1>10. FramesSound'
    BY <1>1, <1>3, <1>7, <1>8, <1>9, ReplaceTop DEF Inv
<1> QED BY <1>1, <1>10 DEF ArraysStay, ArraysSound, Inv

LEMMA LeaveStep ==
    ASSUME Inv, path' = path, Leave
    PROVE  ArraysSound' /\ FramesSound'
<1>1. frames # <<>> /\ ArraysStay /\ Top.phase = "body"
    BY DEF Leave, TextRuns, ArraysStay
<1>2. PICK top \in FrameRecords : top = Top /\ FrameSound(top) /\ top.phase = "body"
    BY <1>1, TopFacts DEF Inv
<1>3. /\ top.array \in Arrays /\ top.pos \in Nat /\ top.end \in Nat
      /\ Len(elems[top.array]) \in Nat /\ top.arg \in Readable /\ top.pos < MaxLength
      /\ top.kept \in Seq(Readable \X Readable) /\ MaxLength \in Nat
      /\ top.steady => top.arg \in Items /\ top.kept \in Seq(Items \X Items)
    <2>1. /\ top.array \in Arrays /\ top.pos \in Nat /\ top.end \in Nat
          /\ top.kept \in Seq(Readable \X Readable) /\ MaxLength \in Nat
          /\ top.arg \in Readable
      BY ParametersAssumption DEF FrameRecords
    <2>2. /\ top.pos < MaxLength
          /\ top.steady => top.arg \in Items /\ top.kept \in Seq(Items \X Items)
      BY <1>2 DEF FrameSound
    <2> QED BY <2>1, <2>2, BufferFacts DEF Inv
<1>4. PICK k \in Seq(Readable \X Readable) :
        /\ top.steady => k \in Seq(Items \X Items)
        /\ WithTop([top EXCEPT !.pos = @ + 1, !.phase = "header", !.kept = k])
        /\ top.construct = "map" => Len(k) = Len(top.kept) + 1
  <2>1. CASE top.construct \in {"for", "forEach", "filter"}
             /\ WithTop([top EXCEPT !.pos = @ + 1, !.phase = "header"])
    <3>1. [top EXCEPT !.pos = @ + 1, !.phase = "header", !.kept = top.kept]
            = [top EXCEPT !.pos = @ + 1, !.phase = "header"]
      BY DEF FrameRecords
    <3> QED BY <1>3, <2>1, <3>1
  <2>2. ASSUME NEW v \in Readable, top.steady => v \in Items,
               WithTop([[top EXCEPT !.pos = @ + 1, !.phase = "header"]
                            EXCEPT !.kept = Append(@, <<top.arg, v>>)])
        PROVE  \E k \in Seq(Readable \X Readable) :
                 /\ top.steady => k \in Seq(Items \X Items)
                 /\ WithTop([top EXCEPT !.pos = @ + 1, !.phase = "header", !.kept = k])
                 /\ top.construct = "map" => Len(k) = Len(top.kept) + 1
    <3>1. PICK k : k = Append(top.kept, <<top.arg, v>>)
      OBVIOUS
    <3>2. <<top.arg, v>> \in Readable \X Readable
      BY <1>3, <2>2
    <3>3. k \in Seq(Readable \X Readable) /\ Len(k) = Len(top.kept) + 1
      BY <1>3, <3>1, <3>2, AppendFacts
    <3>5. ASSUME top.steady PROVE k \in Seq(Items \X Items)
      <4>1. <<top.arg, v>> \in Items \X Items
        BY <1>3, <2>2, <3>5
      <4> QED BY <1>3, <3>1, <3>5, <4>1, AppendFacts
    <3>4. [[top EXCEPT !.pos = @ + 1, !.phase = "header"]
                EXCEPT !.kept = Append(@, <<top.arg, v>>)]
            = [top EXCEPT !.pos = @ + 1, !.phase = "header", !.kept = k]
      BY <3>1 DEF FrameRecords
    <3> QED BY <2>2, <3>3, <3>4, <3>5
  <2>3. CASE top.construct = "map"
             /\ WithTop([[top EXCEPT !.pos = @ + 1, !.phase = "header"]
                            EXCEPT !.kept = Append(@, <<top.arg, top.arg>>)])
    BY <1>3, <2>2, <2>3
  <2>4. ASSUME top.construct = "filter", NEW v \in Read(top),
               WithTop([[top EXCEPT !.pos = @ + 1, !.phase = "header"]
                            EXCEPT !.kept = Append(@, <<top.arg, v>>)])
        PROVE  v \in Readable /\ (top.steady => v \in Items)
    <3>1. path = "tree walk"
      BY <1>2, <2>4 DEF Inv, FrameSound
    <3>2. ASSUME top.steady PROVE IsLive(top)
      <4>1. top.buffer = capacity[top.array] /\ top.end <= Len(elems[top.array])
            /\ top.pos < top.end
        BY <1>2, <3>1, <3>2 DEF FrameSound
      <4> QED BY <1>3, <4>1 DEF IsLive
    <3> QED BY <2>4, <3>2, ReadIsLive, ReadIsReadable
  <2> QED BY <1>2, <2>1, <2>2, <2>3, <2>4 DEF Leave
<1>5. PICK f : f = [top EXCEPT !.pos = @ + 1, !.phase = "header", !.kept = k]
    OBVIOUS
<1>6. top.pos + 1 \in 0 .. MaxLength
    BY <1>3
<1>7. /\ f.arg = top.arg /\ f.phase = "header" /\ f.construct = top.construct /\ f.kept = k
      /\ f.pos = top.pos + 1 /\ f.end = top.end /\ f.buffer = top.buffer
      /\ f.array = top.array /\ f.steady = top.steady
      /\ f \in FrameRecords
    BY <1>5, <1>6 DEF FrameRecords
<1>8. FrameSound(f)
  <2>1. f.construct = "map" => Len(f.kept) = f.pos
    BY <1>2, <1>4, <1>7 DEF FrameSound
  <2>2. path = "vm" => f.construct = "for" /\ f.steady
    BY <1>2, <1>7 DEF FrameSound
  <2>3. ASSUME path = "tree walk" PROVE f.pos <= f.end
    <3>1. top.pos < top.end
      BY <1>2, <2>3 DEF FrameSound
    <3> QED BY <1>3, <1>7, <3>1
  <2>4. ASSUME path = "tree walk", f.steady
        PROVE  f.buffer = capacity[f.array] /\ f.end <= Len(elems[f.array])
    BY <1>2, <1>7, <2>4 DEF FrameSound
  <2> QED BY <1>4, <1>7, <2>1, <2>2, <2>3, <2>4 DEF FrameSound
<1>9. FramesSound'
    BY <1>1, <1>4, <1>5, <1>7, <1>8, ReplaceTop DEF Inv
<1> QED BY <1>1, <1>9 DEF ArraysStay, ArraysSound, Inv

LEMMA EndStep ==
    ASSUME Inv, path' = path, Finish \/ Abandon
    PROVE  ArraysSound' /\ FramesSound'
<1>1. frames # <<>> /\ ArraysStay /\ frames' = Front(frames)
    BY DEF Finish, Abandon, AtHeader, ArraysStay
<1>2. FramesSound'
    BY <1>1, RemoveTop DEF Inv
<1> QED BY <1>1, <1>2 DEF ArraysStay, ArraysSound, Inv

----------------------------------------------------------------------------

LEMMA InitInv == Init => Inv
<1> SUFFICES ASSUME Init PROVE ArraysSound /\ FramesSound
    BY DEF Init, Inv
<1>1. \A a \in Arrays : elems[a] \in Seq(Items) /\ Len(elems[a]) <= 2 /\ Len(elems[a]) \in Nat
    BY Bounded, LenProperties DEF Init
<1>2. ArraysSound
  <2>1. /\ elems \in [Arrays -> Seq(Items)] /\ capacity \in [Arrays -> Nat]
        /\ \A a \in Arrays : capacity[a] = Len(elems[a])
    BY <1>1 DEF Init
  <2>2. \A a \in Arrays : Len(elems[a]) <= MaxLength /\ Len(elems[a]) <= capacity[a]
    BY <1>1, <2>1, ParametersAssumption
  <2> QED BY <2>1, <2>2 DEF ArraysSound
<1>3. FramesSound
  <2>1. frames = <<>> /\ frames \in Seq(FrameRecords) /\ Len(frames) = 0
    BY EmptySeq DEF Init
  <2>2. 1 .. Len(frames) = {} /\ Len(frames) <= MaxDepth
    BY <2>1, ParametersAssumption
  <2> QED BY <2>1, <2>2 DEF FramesSound
<1> QED BY <1>2, <1>3

LEMMA NextInv == Inv /\ [Next]_vars => Inv'
<1> SUFFICES ASSUME Inv, [Next]_vars PROVE Inv'
    OBVIOUS
<1>1. path' = path
    BY DEF Next, vars
<1> SUFFICES ArraysSound' /\ FramesSound'
    BY <1>1 DEF Inv
<1>2. CASE Step
    BY <1>1, <1>2, PushStep, PopStep, AssignStep, StartStep, EnterStep, LeaveStep, EndStep
       DEF Step
<1>3. CASE UNCHANGED vars
    BY <1>3 DEF vars, Inv, ArraysSound, FramesSound, FrameSound
<1> QED BY <1>2, <1>3 DEF Next

LEMMA InvSound == Inv => IterationsAreSound
<1> SUFFICES ASSUME Inv PROVE IterationsAreSound
    OBVIOUS
<1>1. ASSUME NEW i \in DOMAIN frames
      PROVE  frames[i] \in FrameRecords /\ FrameSound(frames[i])
  <2>1. frames \in Seq(FrameRecords)
    BY DEF Inv, FramesSound
  <2>2. i \in 1 .. Len(frames)
    BY <1>1, <2>1, LenProperties
  <2> QED BY <2>1, <2>2, ElementOfSeq DEF Inv, FramesSound
<1>2. TypeOK
  <2>1. elems \in [Arrays -> BoundedSeq(Items, MaxLength)]
    BY Bounded, ParametersAssumption DEF Inv, ArraysSound
  <2>2. \A i \in DOMAIN frames :
            /\ frames[i].arg \in Items \cup {Garbage}
            /\ frames[i].pos \in 0 .. MaxLength
            /\ frames[i].construct \in Constructs /\ frames[i].phase \in {"header", "body"}
    BY <1>1 DEF FrameRecords, Readable
  <2> QED BY <2>1, <2>2 DEF TypeOK, Inv, ArraysSound, FramesSound
<1>3. ReadsAreLive
  <2> SUFFICES ASSUME NEW i \in DOMAIN frames, NEW f, f = frames[i], f.steady
               PROVE  /\ f.phase = "body" => f.arg # Garbage
                      /\ \A n \in DOMAIN f.kept : Garbage \notin {f.kept[n][1], f.kept[n][2]}
    BY DEF ReadsAreLive, ReadsElements
  <2>1. f \in FrameRecords /\ FrameSound(f)
    BY <1>1
  <2>2. f.phase = "body" => f.arg # Garbage
    BY <2>1, ParametersAssumption DEF FrameSound
  <2>3. ASSUME NEW n \in DOMAIN f.kept PROVE Garbage \notin {f.kept[n][1], f.kept[n][2]}
    <3>1. f.kept \in Seq(Items \X Items)
      BY <2>1 DEF FrameSound
    <3>2. f.kept[n] \in Items \X Items
      BY <2>3, <3>1, ElementOfSeq
    <3> QED BY <3>2, ParametersAssumption
  <2> QED BY <2>2, <2>3
<1>4. MapIsTotal
  <2> SUFFICES ASSUME frames # <<>>, Top.construct = "map", ~HasNext(Top)
               PROVE  Len(Top.kept) = Top.end
    BY DEF MapIsTotal, AtHeader
  <2>1. Top \in FrameRecords /\ FrameSound(Top)
    BY TopFacts DEF Inv
  <2>2. path # "vm" /\ Len(Top.kept) = Top.pos
    BY <2>1 DEF FrameSound
  <2> QED BY <2>2 DEF HasNext
<1> QED BY <1>2, <1>3, <1>4 DEF IterationsAreSound

(* However bodies and aliases resize the arrays: on the VM an iteration    *)
(* reads elements and nothing else, in the interpreter one does until its  *)
(* own array is moved or shortened, none leaves its array's bounds, and a  *)
(* map gives one result for each element there was.                        *)
THEOREM IterationsSound == Spec => []IterationsAreSound
<1>1. Spec => []Inv
    BY InitInv, NextInv, PTL DEF Spec
<1> QED BY <1>1, InvSound, PTL
=============================================================================
