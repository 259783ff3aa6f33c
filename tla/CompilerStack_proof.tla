------------------------ MODULE CompilerStack_proof ------------------------
(***************************************************************************)
(* Proofs that the compiler of CompilerSlots and the stack of the VM stay  *)
(* in step, for programs of every size, nesting and number of names, as    *)
(* long as they are regular.                                               *)
(***************************************************************************)
EXTENDS CompilerSlots_proof

----------------------------------------------------------------------------
(* Places that tasks lead to are places.                                   *)

LEMMA LoopShapeFacts ==
    ASSUME NEW ls \in Seq(LoopShapes)
    PROVE  /\ Len(ls) \in Nat /\ DOMAIN ls = 1 .. Len(ls)
           /\ \A i \in 1 .. Len(ls) : /\ ls[i] \in LoopShapes /\ ls[i].level \in Nat
                                      /\ ls[i].depth \in Nat /\ ls[i].vars \in Seq(Slots)
  <1>1. \A l \in LoopShapes : l.level \in Nat /\ l.depth \in Nat /\ l.vars \in Seq(Slots)
    BY DEF LoopShapes
  <1> QED
    BY <1>1

LEMMA FrameFacts ==
    ASSUME NEW s \in Seq(Frames)
    PROVE  /\ Len(s) \in Nat /\ DOMAIN s = 1 .. Len(s)
           /\ \A i \in 1 .. Len(s) : /\ s[i].vars \in Seq(Slots) /\ s[i].next \in Seq(Slots)
                                     /\ s[i].depth \in Nat /\ s[i].temps \in Nat
                                     /\ s[i].then \in {"mark", "other"}
  <1>1. \A f \in Frames : /\ f.vars \in Seq(Slots) /\ f.next \in Seq(Slots)
                          /\ f.depth \in Nat /\ f.temps \in Nat /\ f.then \in {"mark", "other"}
    BY DEF Frames
  <1> QED
    BY <1>1

(* Every place that another leads to, part by part.                        *)
LEMMA EndedParts ==
    ASSUME NEW p
    PROVE  /\ Ended(p).vars = Cut(p.vars, p.depth) /\ Ended(p).next = <<>>
           /\ Ended(p).depth = p.depth /\ Ended(p).ended = TRUE
           /\ Ended(p).saved = p.saved /\ Ended(p).loops = p.loops
  BY DEF Ended, Place

LEMMA InnerParts ==
    ASSUME NEW p
    PROVE  /\ Inner(p).vars = p.vars /\ Inner(p).next = p.next
           /\ Inner(p).depth = p.depth + 1 /\ Inner(p).ended = p.ended
           /\ Inner(p).saved = p.saved /\ Inner(p).loops = p.loops
  BY DEF Inner, Place

LEMMA OuterParts ==
    ASSUME NEW p
    PROVE  /\ Outer(p).vars = Cut(p.vars, p.depth) /\ Outer(p).next = <<>>
           /\ Outer(p).depth = p.depth - 1 /\ Outer(p).ended = FALSE
           /\ Outer(p).saved = p.saved /\ Outer(p).loops = p.loops
  BY DEF Outer, Place

LEMMA ExpectingParts ==
    ASSUME NEW p, NEW x
    PROVE  /\ Expecting(p, x).vars = p.vars /\ Expecting(p, x).next = <<x>>
           /\ Expecting(p, x).depth = p.depth /\ Expecting(p, x).ended = FALSE
           /\ Expecting(p, x).saved = p.saved /\ Expecting(p, x).loops = p.loops
  BY DEF Expecting, Place

LEMMA GainingParts ==
    ASSUME NEW p, NEW x
    PROVE  /\ Gaining(p, x).vars = Append(p.vars, x) /\ Gaining(p, x).next = <<>>
           /\ Gaining(p, x).depth = p.depth /\ Gaining(p, x).ended = FALSE
           /\ Gaining(p, x).saved = p.saved /\ Gaining(p, x).loops = p.loops
  BY DEF Gaining, Place

LEMMA LoopedParts ==
    ASSUME NEW p
    PROVE  /\ Looped(p).vars = p.vars /\ Looped(p).next = p.next
           /\ Looped(p).depth = p.depth /\ Looped(p).ended = p.ended
           /\ Looped(p).saved = p.saved /\ Looped(p).loops = Append(p.loops, LoopShape(p))
  BY DEF Looped, Place

LEMMA UnloopedParts ==
    ASSUME NEW p
    PROVE  /\ Unlooped(p).vars = p.vars /\ Unlooped(p).next = p.next
           /\ Unlooped(p).depth = p.depth /\ Unlooped(p).ended = p.ended
           /\ Unlooped(p).saved = p.saved /\ Unlooped(p).loops = Drop(p.loops, 1)
  BY DEF Unlooped, Place

LEMMA EmptyIsSeq ==
    ASSUME NEW T
    PROVE  <<>> \in Seq(T)
  OBVIOUS

(* A place of the same functions and loops is one when its slots are still *)
(* those of its loops.                                                     *)
LEMMA SameFunctions ==
    ASSUME NEW p \in Places, NEW vs \in Seq(Slots), NEW nx \in Seq(Slots), NEW d \in Nat,
           NEW e \in BOOLEAN, Within(vs, d),
           \A i \in 1 .. Len(p.loops) :
               p.loops[i].level = Len(p.saved) => Holds(vs, d, p.loops[i])
    PROVE  Place(vs, nx, d, e, p.saved, p.loops) \in Places
  <1>1. PICK q : q = Place(vs, nx, d, e, p.saved, p.loops)
    OBVIOUS
  <1>2. q.vars = vs /\ q.depth = d /\ q.saved = p.saved /\ q.loops = p.loops
    BY <1>1, PlaceFields
  <1>3. p.saved \in Seq(Frames) /\ p.loops \in Seq(LoopShapes) /\ Sound(p)
    BY PlaceFacts
  <1>4. \A i \in 1 .. Len(p.loops) : Keeps(p, p.loops[i])
    BY <1>3 DEF Sound
  <1>5. \A i \in 1 .. Len(q.loops) : Keeps(q, q.loops[i])
    BY <1>2, <1>4 DEF Keeps
  <1>6. Sound(q)
    BY <1>2, <1>3, <1>5 DEF Sound
  <1> QED
    BY <1>1, <1>3, <1>6, PlaceIs

LEMMA OwnLoops ==
    ASSUME NEW p \in Places, NEW i \in 1 .. Len(p.loops), p.loops[i].level = Len(p.saved)
    PROVE  /\ p.loops[i].depth \in Nat /\ p.loops[i].depth <= p.depth
           /\ p.loops[i].vars = Cut(p.vars, p.loops[i].depth + 1)
  <1>1. Keeps(p, p.loops[i]) /\ p.loops \in Seq(LoopShapes)
    BY PlaceFacts DEF Sound
  <1> QED
    BY <1>1, LoopShapeFacts DEF Keeps, Holds

LEMMA EndedPlace ==
    ASSUME NEW p \in Places, Roomy(p)
    PROVE  Ended(p) \in Places
  <1>1. p.vars \in Seq(Slots) /\ p.depth \in Nat /\ Within(p.vars, p.depth)
    BY PlaceFacts DEF Sound
  <1>2. PICK c : c = Cut(p.vars, p.depth)
    OBVIOUS
  <1>3. c \in Seq(Slots) /\ Within(c, p.depth)
    BY <1>1, <1>2, CutFacts, CutStays
  <1>4. ASSUME NEW i \in 1 .. Len(p.loops), p.loops[i].level = Len(p.saved)
        PROVE  Holds(c, p.depth, p.loops[i])
    <2>1. PICK l : l = p.loops[i]
      OBVIOUS
    <2>2. l.depth \in Nat /\ l.depth < p.depth /\ l.vars = Cut(p.vars, l.depth + 1)
      BY <1>4, <2>1, OwnLoops DEF Roomy
    <2>3. l.depth + 1 \in Nat /\ l.depth + 1 <= p.depth /\ l.depth <= p.depth
      BY <1>1, <2>2
    <2>4. Cut(c, l.depth + 1) = Cut(p.vars, l.depth + 1)
      BY <1>1, <1>2, <2>3, CutCut
    <2> QED BY <2>1, <2>2, <2>3, <2>4 DEF Holds
  <1>5. Place(c, <<>>, p.depth, TRUE, p.saved, p.loops) \in Places
    <2>1. <<>> \in Seq(Slots) /\ TRUE \in BOOLEAN
      OBVIOUS
    <2> QED BY ONLY <1>1, <1>3, <1>4, <2>1, SameFunctions, p \in Places
  <1> QED
    BY <1>2, <1>5 DEF Ended

LEMMA InnerPlace ==
    ASSUME NEW p \in Places
    PROVE  /\ Inner(p) \in Places /\ Roomy(Inner(p))
           /\ Inner(p).depth = p.depth + 1 /\ Inner(p).vars = p.vars /\ Inner(p).next = p.next
           /\ Inner(p).ended = p.ended
  <1>1. /\ p.vars \in Seq(Slots) /\ p.next \in Seq(Slots) /\ p.depth \in Nat
        /\ p.ended \in BOOLEAN /\ Within(p.vars, p.depth)
    BY PlaceFacts DEF Sound
  <1>2. Within(p.vars, p.depth + 1) /\ p.depth + 1 \in Nat
    BY <1>1, WithinMore
  <1>3. ASSUME NEW i \in 1 .. Len(p.loops), p.loops[i].level = Len(p.saved)
        PROVE  Holds(p.vars, p.depth + 1, p.loops[i]) /\ p.loops[i].depth < p.depth + 1
    BY <1>1, <1>3, OwnLoops DEF Holds
  <1>4. Inner(p) \in Places
    BY <1>1, <1>2, <1>3, SameFunctions DEF Inner
  <1>5. /\ Inner(p).depth = p.depth + 1 /\ Inner(p).vars = p.vars /\ Inner(p).next = p.next
        /\ Inner(p).ended = p.ended /\ Inner(p).saved = p.saved /\ Inner(p).loops = p.loops
    BY InnerParts
  <1>6. Roomy(Inner(p))
    BY <1>3, <1>5 DEF Roomy
  <1> QED
    BY <1>4, <1>5, <1>6

LEMMA OuterPlace ==
    ASSUME NEW p \in Places, Roomy(p), p.depth > 0
    PROVE  Outer(p) \in Places
  <1>1. p.vars \in Seq(Slots) /\ p.depth \in Nat /\ Within(p.vars, p.depth)
    BY PlaceFacts DEF Sound
  <1>2. PICK c : c = Cut(p.vars, p.depth)
    OBVIOUS
  <1>3. c \in Seq(Slots) /\ Within(c, p.depth - 1) /\ p.depth - 1 \in Nat
    <2>1. c \in Seq(Slots)
      BY <1>1, <1>2, CutFacts
    <2>2. Within(c, p.depth - 1)
      BY <1>1, <1>2, CutStays
    <2>3. p.depth - 1 \in Nat
      BY ONLY <1>1, p.depth > 0
    <2> QED BY ONLY <2>1, <2>2, <2>3
  <1>4. ASSUME NEW i \in 1 .. Len(p.loops), p.loops[i].level = Len(p.saved)
        PROVE  Holds(c, p.depth - 1, p.loops[i])
    <2>1. PICK l : l = p.loops[i]
      OBVIOUS
    <2>2. l.depth \in Nat /\ l.depth < p.depth /\ l.vars = Cut(p.vars, l.depth + 1)
      BY <1>4, <2>1, OwnLoops DEF Roomy
    <2>3. l.depth + 1 \in Nat /\ l.depth + 1 <= p.depth /\ l.depth <= p.depth - 1
      BY <1>1, <2>2
    <2>4. Cut(c, l.depth + 1) = Cut(p.vars, l.depth + 1)
      BY <1>1, <1>2, <2>3, CutCut
    <2> QED BY <2>1, <2>2, <2>3, <2>4 DEF Holds
  <1>5. Place(c, <<>>, p.depth - 1, FALSE, p.saved, p.loops) \in Places
    <2>1. <<>> \in Seq(Slots) /\ FALSE \in BOOLEAN
      OBVIOUS
    <2>2. PICK e \in Nat : e = p.depth - 1
      BY <1>3
    <2>3. Place(c, <<>>, e, FALSE, p.saved, p.loops) \in Places
      <3>1. Within(c, e) /\ \A i \in 1 .. Len(p.loops) :
                p.loops[i].level = Len(p.saved) => Holds(c, e, p.loops[i])
        BY ONLY <1>3, <1>4, <2>2
      <3> QED BY ONLY <1>3, <2>1, <3>1, e \in Nat, SameFunctions, p \in Places
    <2> QED BY ONLY <2>2, <2>3
  <1> QED
    BY <1>2, <1>5 DEF Outer

(* A scope that ends leaves what was there when it began.                  *)
LEMMA OuterOfInner ==
    ASSUME NEW p \in Places, ~p.ended, p.next = <<>>
    PROVE  Outer(Ended(Inner(p))) = p
  <1>1. p.vars \in Seq(Slots) /\ p.depth \in Nat /\ p.ended \in BOOLEAN /\ Within(p.vars, p.depth)
        /\ p = Place(p.vars, p.next, p.depth, p.ended, p.saved, p.loops)
    BY PlaceFacts DEF Sound
  <1>2. p.depth + 1 \in Nat /\ p.depth < p.depth + 1 /\ (p.depth + 1) - 1 = p.depth
    BY <1>1
  <1>3. Cut(p.vars, p.depth + 1) = p.vars
    BY <1>1, <1>2, CutWithin
  <1>4. Ended(Inner(p)) = Place(p.vars, <<>>, p.depth + 1, TRUE, p.saved, p.loops)
    BY <1>3, InnerParts DEF Ended
  <1>5. Outer(Ended(Inner(p))) = Place(p.vars, <<>>, p.depth, FALSE, p.saved, p.loops)
    <2>1. PICK q : q = Ended(Inner(p))
      OBVIOUS
    <2>2. /\ q.vars = p.vars /\ q.depth = p.depth + 1 /\ q.saved = p.saved /\ q.loops = p.loops
      <3>1. PICK r : r = Inner(p)
        OBVIOUS
      <3>2. r.vars = p.vars /\ r.depth = p.depth + 1 /\ r.saved = p.saved /\ r.loops = p.loops
        BY <3>1, InnerParts
      <3>3. q = Ended(r)
        BY <2>1, <3>1
      <3>4. q.vars = Cut(r.vars, r.depth) /\ q.depth = r.depth /\ q.saved = r.saved
            /\ q.loops = r.loops
        BY ONLY <3>3, EndedParts
      <3> QED BY ONLY <1>3, <3>2, <3>4
    <2>3. Outer(q) = Place(p.vars, <<>>, p.depth, FALSE, p.saved, p.loops)
      BY <1>2, <1>3, <2>2 DEF Outer
    <2> QED BY <2>1, <2>3
  <1>6. p.ended = FALSE
    BY <1>1
  <1> QED
    BY <1>1, <1>5, <1>6

(* Adding a local to a scope.                                              *)
LEMMA GainingPlace ==
    ASSUME NEW p \in Places, Roomy(p), NEW x \in Slots, x[2] = p.depth
    PROVE  /\ Gaining(p, x) \in Places /\ Roomy(Gaining(p, x))
           /\ Expecting(p, x) \in Places /\ Expecting(p, x).next = <<x>>
           /\ Gaining(Expecting(p, x), x) = Gaining(p, x)
           /\ Ended(Gaining(p, x)) = Ended(p)
           /\ Gaining(p, x).depth = p.depth /\ Gaining(p, x).next = <<>>
           /\ Gaining(p, x).ended = FALSE /\ Expecting(p, x).ended = FALSE
           /\ Gaining(p, x).vars = Append(p.vars, x)
  <1>1. /\ p.vars \in Seq(Slots) /\ p.depth \in Nat /\ Within(p.vars, p.depth)
        /\ Append(p.vars, x) \in Seq(Slots) /\ <<x>> \in Seq(Slots)
    BY PlaceFacts DEF Sound
  <1>2. Within(Append(p.vars, x), p.depth)
    BY <1>1, WithinMore
  <1>3. ASSUME NEW i \in 1 .. Len(p.loops), p.loops[i].level = Len(p.saved)
        PROVE  /\ Holds(Append(p.vars, x), p.depth, p.loops[i])
               /\ Holds(p.vars, p.depth, p.loops[i])
    <2>1. PICK l : l = p.loops[i]
      OBVIOUS
    <2>2. l.depth \in Nat /\ l.depth < p.depth /\ l.vars = Cut(p.vars, l.depth + 1)
      BY <1>3, <2>1, OwnLoops DEF Roomy
    <2>3. l.depth + 1 \in Nat /\ x[2] >= l.depth + 1 /\ l.depth <= p.depth
      BY <1>1, <2>2
    <2>4. Cut(Append(p.vars, x), l.depth + 1) = Cut(p.vars, l.depth + 1)
      BY <1>1, <2>3, CutAppend
    <2> QED BY <2>1, <2>2, <2>3, <2>4 DEF Holds
  <1>4. Gaining(p, x) \in Places
    <2>1. <<>> \in Seq(Slots) /\ FALSE \in BOOLEAN
      OBVIOUS
    <2> QED BY <1>1, <1>2, <1>3, <2>1, SameFunctions DEF Gaining
  <1>5. Expecting(p, x) \in Places
    BY <1>1, <1>3, SameFunctions DEF Expecting
  <1>6. /\ Expecting(p, x).next = <<x>> /\ Expecting(p, x).vars = p.vars
        /\ Expecting(p, x).depth = p.depth /\ Expecting(p, x).saved = p.saved
        /\ Expecting(p, x).loops = p.loops /\ Expecting(p, x).ended = FALSE
    BY ExpectingParts
  <1>7. Gaining(Expecting(p, x), x) = Gaining(p, x)
    BY <1>6 DEF Gaining
  <1>8. /\ Gaining(p, x).next = <<>> /\ Gaining(p, x).vars = Append(p.vars, x)
        /\ Gaining(p, x).depth = p.depth /\ Gaining(p, x).saved = p.saved
        /\ Gaining(p, x).loops = p.loops /\ Gaining(p, x).ended = FALSE
    BY GainingParts
  <1>9. Cut(Append(p.vars, x), p.depth) = Cut(p.vars, p.depth)
    <2>1. x[2] >= p.depth
      BY <1>1
    <2> QED BY <1>1, <2>1, CutAppend
  <1>10. Ended(Gaining(p, x)) = Ended(p)
    BY <1>8, <1>9 DEF Ended
  <1>11. Roomy(Gaining(p, x))
    BY <1>8 DEF Roomy
  <1> QED
    BY <1>4, <1>5, <1>6, <1>7, <1>8, <1>10, <1>11

(* Entering a loop and leaving it.                                         *)
LEMMA LoopedPlace ==
    ASSUME NEW p \in Places
    PROVE  /\ Looped(p) \in Places /\ Unlooped(Looped(p)) = p /\ AtLoop(Looped(p))
           /\ Looped(p).next = p.next /\ Looped(p).ended = p.ended /\ Looped(p).depth = p.depth
           /\ Looped(p).vars = p.vars
  <1>1. /\ p.vars \in Seq(Slots) /\ p.depth \in Nat /\ Within(p.vars, p.depth)
        /\ p.saved \in Seq(Frames) /\ p.loops \in Seq(LoopShapes)
        /\ p.next \in Seq(Slots) /\ p.ended \in BOOLEAN
        /\ p = Place(p.vars, p.next, p.depth, p.ended, p.saved, p.loops)
    BY PlaceFacts DEF Sound
  <1>2. PICK s : s = LoopShape(p)
    OBVIOUS
  <1>3. s.level = Len(p.saved) /\ s.depth = p.depth /\ s.vars = p.vars /\ s \in LoopShapes
    BY <1>1, <1>2, FrameFacts DEF LoopShape, LoopShapes
  <1>4. PICK ls : ls = Append(p.loops, s)
    OBVIOUS
  <1>5. PICK n \in Nat : n = Len(p.loops)
    BY <1>1
  <1>6. /\ ls \in Seq(LoopShapes) /\ Len(ls) = n + 1 /\ ls[n + 1] = s
        /\ \A i \in 1 .. n : ls[i] = p.loops[i]
    BY <1>1, <1>3, <1>4, <1>5
  <1>7. PICK q : q = Looped(p)
    OBVIOUS
  <1>8. /\ q.vars = p.vars /\ q.depth = p.depth /\ q.saved = p.saved /\ q.loops = ls
        /\ q.next = p.next /\ q.ended = p.ended
        /\ q = Place(p.vars, p.next, p.depth, p.ended, p.saved, ls)
    BY <1>2, <1>4, <1>7, LoopedParts DEF Looped
  <1>9. Holds(p.vars, p.depth, s)
    <2>1. p.depth + 1 \in Nat /\ p.depth < p.depth + 1 /\ p.depth <= p.depth
      BY <1>1
    <2>2. Cut(p.vars, p.depth + 1) = p.vars
      BY <1>1, <2>1, CutWithin
    <2> QED BY <1>3, <2>1, <2>2 DEF Holds
  <1>10. \A i \in 1 .. n : Keeps(p, p.loops[i])
    BY <1>5, PlaceFacts DEF Sound
  <1>11. \A i \in 1 .. n + 1 : Keeps(q, ls[i])
    <2> TAKE i \in 1 .. n + 1
    <2>1. i = n + 1 \/ i \in 1 .. n
      BY <1>5
    <2>2. CASE i = n + 1
      <3>1. Len(p.saved) \in Nat
        BY <1>1
      <3>2. Len(p.saved) <= Len(p.saved)
        BY ONLY <3>1
      <3> QED BY <1>3, <1>6, <1>8, <1>9, <2>2, <3>2 DEF Keeps
    <2>3. CASE i \in 1 .. n
      BY <1>6, <1>8, <1>10, <2>3 DEF Keeps
    <2> QED BY <2>1, <2>2, <2>3
  <1>12. Sound(q)
    BY <1>6, <1>8, <1>11, PlaceFacts DEF Sound
  <1>13. q \in Places
    BY <1>1, <1>6, <1>8, <1>12, PlaceIs
  <1>14. Drop(ls, 1) = p.loops
    <2>1. IsSequence(ls) /\ 1 \in 0 .. Len(ls) /\ (n + 1) - 1 = n
      BY <1>6 DEF IsSequence
    <2>2. PICK e : e = Drop(ls, 1)
      OBVIOUS
    <2>3. Len(e) = n /\ \A i \in 1 .. n : e[i] = ls[i]
      <3>1. Len(ls) - 1 = n
        BY <1>6, <2>1
      <3> QED BY ONLY <2>1, <2>2, <3>1, DropFacts
    <2>4. e \in Seq(LoopShapes)
      <3>1. 1 \in 1 .. Len(ls) + 1 /\ Len(ls) - 1 \in 0 .. Len(ls)
        BY <1>6
      <3> QED BY <1>6, <2>2, <3>1, SubSeqProperties DEF Drop
    <2>5. p.loops \in Seq(LoopShapes) /\ Len(e) = Len(p.loops)
          /\ \A i \in 1 .. Len(p.loops) : e[i] = p.loops[i]
      BY ONLY <1>1, <1>5, <1>6, <2>3
    <2>6. e = p.loops
      BY ONLY <2>4, <2>5, SeqEqual
    <2> QED BY <2>2, <2>6
  <1>15. Unlooped(q) = p
    BY <1>1, <1>8, <1>14, Zenon DEF Unlooped
  <1>16. AtLoop(q)
    BY <1>3, <1>6, <1>8 DEF AtLoop, LastOf
  <1> QED
    BY <1>7, <1>8, <1>13, <1>15, <1>16

LEMMA UnloopedPlace ==
    ASSUME NEW p \in Places, p.loops # <<>>
    PROVE  /\ Unlooped(p) \in Places
           /\ Roomy(p) => Roomy(Unlooped(p))
  <1>1. /\ p.vars \in Seq(Slots) /\ p.depth \in Nat /\ Within(p.vars, p.depth)
        /\ p.saved \in Seq(Frames) /\ p.loops \in Seq(LoopShapes)
        /\ p.next \in Seq(Slots) /\ p.ended \in BOOLEAN
    BY PlaceFacts DEF Sound
  <1>2. PICK ls : ls = Drop(p.loops, 1)
    OBVIOUS
  <1>3. PICK n \in Nat : n = Len(p.loops)
    BY <1>1
  <1>4. n > 0
    BY <1>1, <1>3
  <1>5. ls \in Seq(LoopShapes) /\ Len(ls) = n - 1 /\ \A i \in 1 .. n - 1 : ls[i] = p.loops[i]
    <2>1. IsSequence(p.loops) /\ 1 \in 0 .. Len(p.loops)
      BY <1>1, <1>3, <1>4 DEF IsSequence
    <2>2. 1 \in 1 .. Len(p.loops) + 1 /\ Len(p.loops) - 1 \in 0 .. Len(p.loops)
      BY <1>3, <1>4
    <2>3. SubSeq(p.loops, 1, Len(p.loops) - 1) \in Seq(LoopShapes)
      BY <1>1, <2>2, SubSeqProperties
    <2> QED BY <1>2, <1>3, <2>1, <2>3, DropFacts DEF Drop
  <1>6. PICK q : q = Unlooped(p)
    OBVIOUS
  <1>7. /\ q.vars = p.vars /\ q.depth = p.depth /\ q.saved = p.saved /\ q.loops = ls
        /\ q = Place(p.vars, p.next, p.depth, p.ended, p.saved, ls)
    BY <1>2, <1>6, UnloopedParts DEF Unlooped
  <1>8. \A i \in 1 .. n - 1 : i \in 1 .. n
    BY <1>3
  <1>9. \A i \in 1 .. n - 1 : Keeps(q, ls[i])
    <2>1. \A i \in 1 .. n : Keeps(p, p.loops[i])
      BY <1>3, PlaceFacts DEF Sound
    <2> QED BY <1>5, <1>7, <1>8, <2>1 DEF Keeps
  <1>10. Sound(q)
    BY <1>5, <1>7, <1>9, PlaceFacts DEF Sound
  <1>11. q \in Places
    BY <1>1, <1>5, <1>7, <1>10, PlaceIs
  <1>12. Roomy(p) => Roomy(q)
    BY <1>3, <1>5, <1>7, <1>8 DEF Roomy
  <1> QED
    BY <1>6, <1>11, <1>12

(* Functions: the place inside, and back.                                  *)
LEMMA EnteredParts ==
    ASSUME NEW p, NEW n, NEW w, NEW vs
    PROVE  /\ Entered(p, n, w, vs).vars = vs /\ Entered(p, n, w, vs).next = <<>>
           /\ Entered(p, n, w, vs).depth = 1 /\ Entered(p, n, w, vs).ended = FALSE
           /\ Entered(p, n, w, vs).saved = Append(p.saved, Frame(p, n, w))
           /\ Entered(p, n, w, vs).loops = p.loops
  BY DEF Entered, Place

LEMMA FrameParts ==
    ASSUME NEW p, NEW n, NEW w
    PROVE  /\ Frame(p, n, w).vars = p.vars /\ Frame(p, n, w).next = p.next
           /\ Frame(p, n, w).depth = p.depth /\ Frame(p, n, w).temps = n
           /\ Frame(p, n, w).then = w
  BY DEF Frame

LEMMA EnteredPlace ==
    ASSUME NEW p \in Places, NEW n \in Nat, NEW w \in {"mark", "other"}, NEW vs \in Seq(Slots),
           \A i \in 1 .. Len(vs) : vs[i][2] = 1
    PROVE  /\ Entered(p, n, w, vs) \in Places /\ Roomy(Entered(p, n, w, vs))
           /\ Ended(Entered(p, n, w, vs)) \in Places
           /\ LastOf(Ended(Entered(p, n, w, vs)).saved) = Frame(p, n, w)
           /\ Ended(Entered(p, n, w, vs)).saved # <<>>
           /\ ~p.ended => Resumed(Ended(Entered(p, n, w, vs))) = p
  <1>1. /\ p.vars \in Seq(Slots) /\ p.depth \in Nat /\ Within(p.vars, p.depth)
        /\ p.saved \in Seq(Frames) /\ p.loops \in Seq(LoopShapes)
        /\ p.next \in Seq(Slots) /\ p.ended \in BOOLEAN /\ Sound(p)
        /\ p = Place(p.vars, p.next, p.depth, p.ended, p.saved, p.loops)
    BY PlaceFacts DEF Sound
  <1>2. PICK f : f = Frame(p, n, w)
    OBVIOUS
  <1>3. f.vars = p.vars /\ f.next = p.next /\ f.depth = p.depth /\ f.temps = n /\ f.then = w
    BY <1>2, FrameParts
  <1>4. f \in Frames
    BY <1>1, <1>2 DEF Frame, Frames
  <1>5. PICK s : s = Append(p.saved, f)
    OBVIOUS
  <1>6. PICK k \in Nat : k = Len(p.saved)
    BY <1>1
  <1>7. /\ s \in Seq(Frames) /\ Len(s) = k + 1 /\ s[k + 1] = f
        /\ \A i \in 1 .. k : s[i] = p.saved[i]
    BY <1>1, <1>4, <1>5, <1>6
  <1>8. PICK q : q = Entered(p, n, w, vs)
    OBVIOUS
  <1>9. /\ q.vars = vs /\ q.next = <<>> /\ q.depth = 1 /\ q.ended = FALSE /\ q.saved = s
        /\ q.loops = p.loops
    BY ONLY <1>2, <1>5, <1>8 DEF Entered, Place
  <1>10. q = Place(vs, <<>>, 1, FALSE, s, p.loops)
    BY <1>2, <1>5, <1>8 DEF Entered
  <1>11. \A i \in 1 .. Len(p.loops) : p.loops[i].level \in Nat /\ p.loops[i].level <= k
    BY <1>1, <1>6, LoopShapeFacts DEF Sound, Keeps
  <1>12. \A i \in 1 .. Len(p.loops) : Keeps(q, p.loops[i])
    <2> TAKE i \in 1 .. Len(p.loops)
    <2>1. PICK l : l = p.loops[i]
      OBVIOUS
    <2>2. l.level \in Nat /\ l.level <= k /\ Keeps(p, l)
      BY <1>1, <1>11, <2>1 DEF Sound
    <2>3. l.level <= k + 1 /\ l.level # k + 1 /\ (l.level = k \/ l.level + 1 \in 1 .. k)
      BY ONLY <2>2, k \in Nat
    <2>4. CASE l.level = k
      <3>1. Holds(p.vars, p.depth, l)
        BY ONLY <1>6, <2>2, <2>4 DEF Keeps
      <3>2. Holds(s[l.level + 1].vars, s[l.level + 1].depth, l)
        BY ONLY <1>3, <1>7, <2>4, <3>1
      <3> QED BY ONLY <1>7, <1>9, <2>1, <2>3, <3>2 DEF Keeps
    <2>5. CASE l.level + 1 \in 1 .. k
      <3>1. l.level # k
        BY ONLY <2>2, <2>5, k \in Nat
      <3>2. Holds(p.saved[l.level + 1].vars, p.saved[l.level + 1].depth, l)
        BY ONLY <1>6, <2>2, <3>1 DEF Keeps
      <3>3. Holds(s[l.level + 1].vars, s[l.level + 1].depth, l)
        BY ONLY <1>7, <2>5, <3>2
      <3> QED BY ONLY <1>7, <1>9, <2>1, <2>3, <3>3 DEF Keeps
    <2> QED BY ONLY <2>3, <2>4, <2>5
  <1>13. Within(vs, 1)
    <2>1. \A i \in 1 .. Len(vs) : \A j \in i .. Len(vs) : j \in 1 .. Len(vs)
      BY SlotFacts
    <2> QED BY <2>1 DEF Within
  <1>14. \A i \in 1 .. k + 1 : Within(s[i].vars, s[i].depth)
    <2>1. \A i \in 1 .. k : Within(p.saved[i].vars, p.saved[i].depth)
      BY <1>1, <1>6 DEF Sound
    <2>2. \A i \in 1 .. k + 1 : i = k + 1 \/ i \in 1 .. k
      BY <1>6
    <2> QED BY <1>1, <1>3, <1>7, <2>1, <2>2
  <1>15. Sound(q)
    BY <1>7, <1>9, <1>12, <1>13, <1>14 DEF Sound
  <1>16. q \in Places
    <2>1. <<>> \in Seq(Slots) /\ FALSE \in BOOLEAN /\ 1 \in Nat
      OBVIOUS
    <2> QED BY <1>1, <1>7, <1>10, <1>15, <2>1, PlaceIs
  <1>17. Roomy(q)
    <2>1. \A i \in 1 .. Len(p.loops) : p.loops[i].level # k + 1
      BY <1>6, <1>11
    <2> QED BY <1>7, <1>9, <2>1 DEF Roomy
  <1>18. PICK e : e = Ended(q)
    OBVIOUS
  <1>19. e \in Places /\ e.saved = s /\ e.loops = p.loops
    BY <1>9, <1>16, <1>17, <1>18, EndedPlace, EndedParts
  <1>20. LastOf(s) = f /\ s # <<>>
    BY <1>6, <1>7 DEF LastOf
  <1>21. Drop(s, 1) = p.saved
    <2>1. IsSequence(s) /\ 1 \in 0 .. Len(s) /\ (k + 1) - 1 = k
      BY <1>7 DEF IsSequence
    <2>2. PICK d : d = Drop(s, 1)
      OBVIOUS
    <2>3. Len(d) = k /\ \A i \in 1 .. k : d[i] = s[i]
      <3>1. /\ Len(Drop(s, 1)) = Len(s) - 1
            /\ \A i \in 1 .. Len(s) - 1 : Drop(s, 1)[i] = s[i]
        BY ONLY <2>1, DropFacts
      <3> QED BY ONLY <1>7, <2>1, <2>2, <3>1
    <2>4. d \in Seq(Frames)
      <3>1. 1 \in 1 .. Len(s) + 1 /\ Len(s) - 1 \in 0 .. Len(s)
        BY <1>7
      <3> QED BY <1>7, <2>2, <3>1, SubSeqProperties DEF Drop
    <2>5. p.saved \in Seq(Frames) /\ Len(d) = Len(p.saved)
          /\ \A i \in 1 .. Len(p.saved) : d[i] = p.saved[i]
      BY ONLY <1>1, <1>6, <1>7, <2>3
    <2>6. d = p.saved
      BY ONLY <2>4, <2>5, SeqEqual
    <2> QED BY <2>2, <2>6
  <1>22. ASSUME ~p.ended PROVE Resumed(e) = p
    <2>1. p.ended = FALSE
      BY <1>1, <1>22
    <2>2. Resumed(e) = Place(f.vars, f.next, f.depth, FALSE, p.saved, p.loops)
      BY <1>19, <1>20, <1>21 DEF Resumed
    <2>3. Place(f.vars, f.next, f.depth, FALSE, p.saved, p.loops)
          = Place(p.vars, p.next, p.depth, p.ended, p.saved, p.loops)
      BY ONLY <1>3, <2>1
    <2> QED BY ONLY <1>1, <2>2, <2>3, Zenon
  <1> QED
    BY ONLY <1>2, <1>8, <1>16, <1>17, <1>18, <1>19, <1>20, <1>22, Zenon

----------------------------------------------------------------------------
(* Statements: what is left when their tasks are done is what was there.   *)

(* An expression, and an instruction that takes its value.                 *)
LEMMA LaidPopped ==
    ASSUME NEW p \in Places, ~p.ended, p.next = <<>>, NEW w, Loose(w),
           NEW js \in Seq(Piles)
    PROVE  Laid(<<Expr, Emit(1, 0)>>,
                Layout(p, 0, w, js), Layout(p, 0, "any", js))
  <1>1. Loose("any") /\ Loose(w)
    BY LooseWords
  <1>2. PICK c1 : c1 = Layout(p, 0, w, js)
    OBVIOUS
  <1>3. PICK c2 : c2 = Layout(p, 1, "any", js)
    OBVIOUS
  <1>4. PICK c3 : c3 = Layout(p, 0, "any", js)
    OBVIOUS
  <1>5. /\ c1 \in Layouts
        /\ c2 \in Layouts
        /\ c3 \in Layouts
    BY <1>2, <1>3, <1>4, LayoutIs, LooseWords
  <1>6. Yields(Expr, Layout(p, 0, w, js), Layout(p, 1, "any", js))
    <2>1. 0 \in Nat /\ 0 + 1 = 1
      OBVIOUS
    <2> QED BY <1>1, <2>1, ExprYields
  <1>7. Yields(Emit(1, 0), Layout(p, 1, "any", js), Layout(p, 0, "any", js))
    <2>1. 1 \in Nat /\ 1 \in 0 .. (1) /\ 0 \in Nat /\ 0 = ((1) - 1) + 0
      BY ONLY TRUE
    <2> QED BY ONLY <2>1, <1>1, EmitYields
  <1>8. Yields(Expr, c1, c2)
    BY ONLY <1>2, <1>3, <1>6
  <1>9. Yields(Emit(1, 0), c2, c3)
    BY ONLY <1>3, <1>4, <1>7
  <1>10. Laid(<<Expr, Emit(1, 0)>>, c1, c3)
    BY ONLY <1>5, <1>8, <1>9, Laid2
  <1> QED
    BY <1>10, <1>2, <1>4

(* An expression, whose value a local that was declared before it gets.    *)
LEMMA LaidDeclared ==
    ASSUME NEW p \in Places, Roomy(p), NEW x \in Slots, x[2] = p.depth, NEW w, Loose(w),
           NEW js \in Seq(Piles)
    PROVE  Laid(<<Expr, Do("mark")>>,
                Layout(Expecting(p, x), 0, w, js), Layout(Gaining(p, x), 0, "any", js))
  <1>1. Loose("any") /\ Loose(w)
    BY LooseWords
  <1>2. /\ Expecting(p, x) \in Places /\ Gaining(p, x) \in Places
        /\ ~Expecting(p, x).ended /\ Expecting(p, x).next = <<x>>
        /\ Gaining(Expecting(p, x), x) = Gaining(p, x)
    BY GainingPlace
  <1>3. PICK c1 : c1 = Layout(Expecting(p, x), 0, w, js)
    OBVIOUS
  <1>4. PICK c2 : c2 = Layout(Expecting(p, x), 1, "any", js)
    OBVIOUS
  <1>5. PICK c3 : c3 = Layout(Gaining(p, x), 0, "any", js)
    OBVIOUS
  <1>6. /\ c1 \in Layouts
        /\ c2 \in Layouts
        /\ c3 \in Layouts
    BY <1>3, <1>4, <1>5, <1>2, LayoutIs, LooseWords
  <1>7. Yields(Expr, Layout(Expecting(p, x), 0, w, js), Layout(Expecting(p, x), 1, "any", js))
    <2>1. Yields(Expr, Layout(Expecting(p, x), 0, w, js), Layout(Expecting(p, x), 0 + 1, "any", js))
      BY <1>2, <1>1, ExprYields
    <2> QED BY <2>1
  <1>8. Yields(Do("mark"), Layout(Expecting(p, x), 1, "any", js), Layout(Gaining(p, x), 0, "any", js))
    <2>1. Yields(Do("mark"), Layout(Expecting(p, x), 1, "any", js),
                 Layout(Gaining(Expecting(p, x), x), 0, "any", js))
      BY <1>2, MarkYields
    <2> QED BY <1>2, <2>1
  <1>9. Yields(Expr, c1, c2)
    BY ONLY <1>3, <1>4, <1>7
  <1>10. Yields(Do("mark"), c2, c3)
    BY ONLY <1>4, <1>5, <1>8
  <1>11. Laid(<<Expr, Do("mark")>>, c1, c3)
    BY ONLY <1>6, <1>9, <1>10, Laid2
  <1> QED
    BY <1>11, <1>3, <1>5

(* Statements in a scope of their own.                                     *)
LEMMA LaidBlock ==
    ASSUME NEW p \in Places, ~p.ended, p.next = <<>>, NEW w, Loose(w),
           NEW js \in Seq(Piles), NEW v \in {"any", "patch"}
    PROVE  Laid(<<Statements, Do("end")>>,
                Layout(Inner(p), 0, w, js), Layout(p, 0, v, js))
  <1>1. Loose("any") /\ Loose(w)
    BY LooseWords
  <1>2. /\ Inner(p) \in Places /\ Roomy(Inner(p)) /\ ~Inner(p).ended /\ Inner(p).next = <<>>
        /\ Ended(Inner(p)) \in Places /\ Ended(Inner(p)).next = <<>>
        /\ Ended(Inner(p)).depth > 0
    <2>1. /\ Inner(p) \in Places /\ Roomy(Inner(p)) /\ ~Inner(p).ended /\ Inner(p).next = <<>>
          /\ Inner(p).depth = p.depth + 1 /\ p.depth \in Nat
      BY InnerPlace, PlaceFacts
    <2>2. Ended(Inner(p)) \in Places
      BY <2>1, EndedPlace
    <2>3. Ended(Inner(p)).next = <<>> /\ Ended(Inner(p)).depth = Inner(p).depth
      BY EndedParts
    <2>4. Inner(p).depth > 0
      BY ONLY <2>1
    <2> QED BY <2>1, <2>2, <2>3, <2>4
  <1>3. Outer(Ended(Inner(p))) = p
    BY OuterOfInner
  <1>4. v \in Words
    BY DEF Words
  <1>5. PICK c1 : c1 = Layout(Inner(p), 0, w, js)
    OBVIOUS
  <1>6. PICK c2 : c2 = Layout(Ended(Inner(p)), 0, "any", js)
    OBVIOUS
  <1>7. PICK c3 : c3 = Layout(p, 0, v, js)
    OBVIOUS
  <1>8. /\ c1 \in Layouts
        /\ c2 \in Layouts
        /\ c3 \in Layouts
    BY <1>5, <1>6, <1>7, <1>2, <1>4, LayoutIs, LooseWords
  <1>9. Yields(Statements, Layout(Inner(p), 0, w, js), Layout(Ended(Inner(p)), 0, "any", js))
    BY <1>1, <1>2, StatementsYields
  <1>10. Yields(Do("end"), Layout(Ended(Inner(p)), 0, "any", js), Layout(p, 0, v, js))
    <2>1. Yields(Do("end"), Layout(Ended(Inner(p)), 0, "any", js),
                 Layout(Outer(Ended(Inner(p))), 0, v, js))
      BY <1>1, <1>2, EndYields
    <2> QED BY <1>3, <2>1
  <1>11. Yields(Statements, c1, c2)
    BY ONLY <1>5, <1>6, <1>9
  <1>12. Yields(Do("end"), c2, c3)
    BY ONLY <1>6, <1>7, <1>10
  <1>13. Laid(<<Statements, Do("end")>>, c1, c3)
    BY ONLY <1>8, <1>11, <1>12, Laid2
  <1> QED
    BY <1>13, <1>5, <1>7

(* An if without an else: a branch that comes to its end leaves no operand. *)
LEMMA LaidIf ==
    ASSUME NEW p \in Places, ~p.ended, p.next = <<>>, NEW w, Loose(w),
           NEW js \in Seq(Piles)
    PROVE  Laid(<<Expr, JumpIfFalse, Pop, Block, Patch(1), Pop>>,
                Layout(p, 0, w, js), Layout(p, 0, "any", js))
  <1>1. Loose("any") /\ Loose(w)
    BY LooseWords
  <1>2. Pile(p.vars, 0) \in Piles /\ Pile(p.vars, 1) \in Piles /\ 0 \in Nat /\ 1 \in Nat
    BY PileIs
  <1>3. /\ Append(js, Pile(p.vars, 1)) \in Seq(Piles) /\ Append(js, Pile(p.vars, 0)) \in Seq(Piles)
        /\ Append(Append(js, Pile(p.vars, 1)), Pile(p.vars, 0)) \in Seq(Piles)
        /\ Append(Append(js, Pile(p.vars, 1)), Pile(p.vars, 1)) \in Seq(Piles)
    BY <1>2
  <1>4. PICK c1 : c1 = Layout(p, 0, w, js)
    OBVIOUS
  <1>5. PICK c2 : c2 = Layout(p, 1, "any", js)
    OBVIOUS
  <1>6. PICK c3 : c3 = Layout(p, 1, "any", Append(js, Pile(p.vars, 1)))
    OBVIOUS
  <1>7. PICK c4 : c4 = Layout(p, 0, "any", Append(js, Pile(p.vars, 1)))
    OBVIOUS
  <1>8. PICK c5 : c5 = Layout(p, 0, "patch", Append(js, Pile(p.vars, 1)))
    OBVIOUS
  <1>9. PICK c6 : c6 = Layout(p, 1, "pop", js)
    OBVIOUS
  <1>10. PICK c7 : c7 = Layout(p, 0, "any", js)
    OBVIOUS
  <1>11. /\ c1 \in Layouts
        /\ c2 \in Layouts
        /\ c3 \in Layouts
        /\ c4 \in Layouts
        /\ c5 \in Layouts
        /\ c6 \in Layouts
        /\ c7 \in Layouts
    BY <1>4, <1>5, <1>6, <1>7, <1>8, <1>9, <1>10, <1>2, <1>3, LayoutIs, LooseWords
  <1>12. Yields(Expr, Layout(p, 0, w, js), Layout(p, 1, "any", js))
    <2>1. Yields(Expr, Layout(p, 0, w, js), Layout(p, 0 + 1, "any", js))
      BY <1>1, ExprYields
    <2> QED BY <2>1
  <1>13. Yields(JumpIfFalse, Layout(p, 1, "any", js), Layout(p, 1, "any", Append(js, Pile(p.vars, 1))))
    <2>1. 1 \in Nat /\ 1 > 0
      OBVIOUS
    <2> QED BY <1>1, <2>1, JumpIfFalseYields
  <1>14. Yields(Pop, Layout(p, 1, "any", Append(js, Pile(p.vars, 1))), Layout(p, 0, "any", Append(js, Pile(p.vars, 1))))
    <2>1. 1 \in Nat /\ 1 \in 0 .. (1) /\ 0 \in Nat /\ 0 = ((1) - 1) + 0
      BY ONLY TRUE
    <2> QED BY ONLY <2>1, <1>1, EmitYields DEF Pop
  <1>15. Yields(Block, Layout(p, 0, "any", Append(js, Pile(p.vars, 1))), Layout(p, 0, "patch", Append(js, Pile(p.vars, 1))))
    BY <1>1, BlockYields
  <1>16. Yields(Patch(1), Layout(p, 0, "patch", Append(js, Pile(p.vars, 1))), Layout(p, 1, "pop", js))
    BY <1>2, PatchBranchYields
  <1>17. Yields(Pop, Layout(p, 1, "pop", js), Layout(p, 0, "any", js))
    BY PopYields
  <1>18. Yields(Expr, c1, c2)
    BY ONLY <1>4, <1>5, <1>12
  <1>19. Yields(JumpIfFalse, c2, c3)
    BY ONLY <1>5, <1>6, <1>13
  <1>20. Yields(Pop, c3, c4)
    BY ONLY <1>6, <1>7, <1>14
  <1>21. Yields(Block, c4, c5)
    BY ONLY <1>7, <1>8, <1>15
  <1>22. Yields(Patch(1), c5, c6)
    BY ONLY <1>8, <1>9, <1>16
  <1>23. Yields(Pop, c6, c7)
    BY ONLY <1>9, <1>10, <1>17
  <1>24. Laid(<<Expr, JumpIfFalse, Pop, Block, Patch(1), Pop>>, c1, c7)
    BY ONLY <1>11, <1>18, <1>19, <1>20, <1>21, <1>22, <1>23, Laid6
  <1> QED
    BY <1>24, <1>4, <1>10

(* An if with an else.                                                     *)
LEMMA LaidIfElse ==
    ASSUME NEW p \in Places, ~p.ended, p.next = <<>>, NEW w, Loose(w),
           NEW js \in Seq(Piles), NEW else,
           Yields(else, Layout(p, 0, "any", Append(js, Pile(p.vars, 0))), Layout(p, 0, "any", Append(js, Pile(p.vars, 0))))
    PROVE  Laid(<<Expr, JumpIfFalse, Pop, Block, JumpAway, Patch(2), Pop, else, Patch(1)>>,
                Layout(p, 0, w, js), Layout(p, 0, "any", js))
  <1>1. Loose("any") /\ Loose(w)
    BY LooseWords
  <1>2. Pile(p.vars, 0) \in Piles /\ Pile(p.vars, 1) \in Piles /\ 0 \in Nat /\ 1 \in Nat
    BY PileIs
  <1>3. /\ Append(js, Pile(p.vars, 1)) \in Seq(Piles) /\ Append(js, Pile(p.vars, 0)) \in Seq(Piles)
        /\ Append(Append(js, Pile(p.vars, 1)), Pile(p.vars, 0)) \in Seq(Piles)
        /\ Append(Append(js, Pile(p.vars, 1)), Pile(p.vars, 1)) \in Seq(Piles)
    BY <1>2
  <1>4. PICK c1 : c1 = Layout(p, 0, w, js)
    OBVIOUS
  <1>5. PICK c2 : c2 = Layout(p, 1, "any", js)
    OBVIOUS
  <1>6. PICK c3 : c3 = Layout(p, 1, "any", Append(js, Pile(p.vars, 1)))
    OBVIOUS
  <1>7. PICK c4 : c4 = Layout(p, 0, "any", Append(js, Pile(p.vars, 1)))
    OBVIOUS
  <1>8. PICK c5 : c5 = Layout(p, 0, "any", Append(js, Pile(p.vars, 1)))
    OBVIOUS
  <1>9. PICK c6 : c6 = Layout(p, 1, "any", Append(Append(js, Pile(p.vars, 1)), Pile(p.vars, 0)))
    OBVIOUS
  <1>10. PICK c7 : c7 = Layout(p, 1, "any", Append(js, Pile(p.vars, 0)))
    OBVIOUS
  <1>11. PICK c8 : c8 = Layout(p, 0, "any", Append(js, Pile(p.vars, 0)))
    OBVIOUS
  <1>12. PICK c9 : c9 = Layout(p, 0, "any", Append(js, Pile(p.vars, 0)))
    OBVIOUS
  <1>13. PICK c10 : c10 = Layout(p, 0, "any", js)
    OBVIOUS
  <1>14. /\ c1 \in Layouts
        /\ c2 \in Layouts
        /\ c3 \in Layouts
        /\ c4 \in Layouts
        /\ c5 \in Layouts
        /\ c6 \in Layouts
        /\ c7 \in Layouts
        /\ c8 \in Layouts
        /\ c9 \in Layouts
        /\ c10 \in Layouts
    BY <1>4, <1>5, <1>6, <1>7, <1>8, <1>9, <1>10, <1>11, <1>12, <1>13, <1>2, <1>3, LayoutIs, LooseWords
  <1>15. Yields(Expr, Layout(p, 0, w, js), Layout(p, 1, "any", js))
    <2>1. Yields(Expr, Layout(p, 0, w, js), Layout(p, 0 + 1, "any", js))
      BY <1>1, ExprYields
    <2> QED BY <2>1
  <1>16. Yields(JumpIfFalse, Layout(p, 1, "any", js), Layout(p, 1, "any", Append(js, Pile(p.vars, 1))))
    <2>1. 1 \in Nat /\ 1 > 0
      OBVIOUS
    <2> QED BY <1>1, <2>1, JumpIfFalseYields
  <1>17. Yields(Pop, Layout(p, 1, "any", Append(js, Pile(p.vars, 1))), Layout(p, 0, "any", Append(js, Pile(p.vars, 1))))
    <2>1. 1 \in Nat /\ 1 \in 0 .. (1) /\ 0 \in Nat /\ 0 = ((1) - 1) + 0
      BY ONLY TRUE
    <2> QED BY ONLY <2>1, <1>1, EmitYields DEF Pop
  <1>18. Yields(Block, Layout(p, 0, "any", Append(js, Pile(p.vars, 1))), Layout(p, 0, "any", Append(js, Pile(p.vars, 1))))
    BY <1>1, BlockYields
  <1>19. Yields(JumpAway, Layout(p, 0, "any", Append(js, Pile(p.vars, 1))), Layout(p, 1, "any", Append(Append(js, Pile(p.vars, 1)), Pile(p.vars, 0))))
    BY <1>1, <1>2, JumpYields
  <1>20. Yields(Patch(2), Layout(p, 1, "any", Append(Append(js, Pile(p.vars, 1)), Pile(p.vars, 0))), Layout(p, 1, "any", Append(js, Pile(p.vars, 0))))
    BY <1>1, <1>2, PatchSecondYields
  <1>21. Yields(Pop, Layout(p, 1, "any", Append(js, Pile(p.vars, 0))), Layout(p, 0, "any", Append(js, Pile(p.vars, 0))))
    <2>1. 1 \in Nat /\ 1 \in 0 .. (1) /\ 0 \in Nat /\ 0 = ((1) - 1) + 0
      BY ONLY TRUE
    <2> QED BY ONLY <2>1, <1>1, EmitYields DEF Pop
  <1>22. Yields(else, Layout(p, 0, "any", Append(js, Pile(p.vars, 0))), Layout(p, 0, "any", Append(js, Pile(p.vars, 0))))
    OBVIOUS
  <1>23. Yields(Patch(1), Layout(p, 0, "any", Append(js, Pile(p.vars, 0))), Layout(p, 0, "any", js))
    BY <1>1, <1>2, PatchYields
  <1>24. Yields(Expr, c1, c2)
    BY ONLY <1>4, <1>5, <1>15
  <1>25. Yields(JumpIfFalse, c2, c3)
    BY ONLY <1>5, <1>6, <1>16
  <1>26. Yields(Pop, c3, c4)
    BY ONLY <1>6, <1>7, <1>17
  <1>27. Yields(Block, c4, c5)
    BY ONLY <1>7, <1>8, <1>18
  <1>28. Yields(JumpAway, c5, c6)
    BY ONLY <1>8, <1>9, <1>19
  <1>29. Yields(Patch(2), c6, c7)
    BY ONLY <1>9, <1>10, <1>20
  <1>30. Yields(Pop, c7, c8)
    BY ONLY <1>10, <1>11, <1>21
  <1>31. Yields(else, c8, c9)
    BY ONLY <1>11, <1>12, <1>22
  <1>32. Yields(Patch(1), c9, c10)
    BY ONLY <1>12, <1>13, <1>23
  <1>33. Laid(<<Expr, JumpIfFalse, Pop, Block, JumpAway, Patch(2), Pop, else, Patch(1)>>, c1, c10)
    BY ONLY <1>14, <1>24, <1>25, <1>26, <1>27, <1>28, <1>29, <1>30, <1>31, <1>32, Laid9
  <1> QED
    BY <1>33, <1>4, <1>13

(* A while.                                                                *)
LEMMA LaidWhile ==
    ASSUME NEW p \in Places, ~p.ended, p.next = <<>>, NEW w, Loose(w),
           NEW js \in Seq(Piles)
    PROVE  Laid(<<Expr, JumpIfFalse, Pop, Block, Do("loop"), Patch(1), Pop, Do("endLoop")>>,
                Layout(Looped(p), 0, w, js), Layout(p, 0, "any", js))
  <1>1. Loose("any") /\ Loose(w)
    BY LooseWords
  <1>2. /\ Looped(p) \in Places /\ ~Looped(p).ended /\ Looped(p).next = <<>>
        /\ AtLoop(Looped(p)) /\ Unlooped(Looped(p)) = p
    BY LoopedPlace
  <1>3. Pile(Looped(p).vars, 1) \in Piles /\ Append(js, Pile(Looped(p).vars, 1)) \in Seq(Piles)
        /\ 0 \in Nat /\ 1 \in Nat
    BY <1>2, PileIs
  <1>4. PICK c1 : c1 = Layout(Looped(p), 0, w, js)
    OBVIOUS
  <1>5. PICK c2 : c2 = Layout(Looped(p), 1, "any", js)
    OBVIOUS
  <1>6. PICK c3 : c3 = Layout(Looped(p), 1, "any", Append(js, Pile(Looped(p).vars, 1)))
    OBVIOUS
  <1>7. PICK c4 : c4 = Layout(Looped(p), 0, "any", Append(js, Pile(Looped(p).vars, 1)))
    OBVIOUS
  <1>8. PICK c5 : c5 = Layout(Looped(p), 0, "any", Append(js, Pile(Looped(p).vars, 1)))
    OBVIOUS
  <1>9. PICK c6 : c6 = Layout(Looped(p), 1, "any", Append(js, Pile(Looped(p).vars, 1)))
    OBVIOUS
  <1>10. PICK c7 : c7 = Layout(Looped(p), 1, "any", js)
    OBVIOUS
  <1>11. PICK c8 : c8 = Layout(Looped(p), 0, "any", js)
    OBVIOUS
  <1>12. PICK c9 : c9 = Layout(p, 0, "any", js)
    OBVIOUS
  <1>13. /\ c1 \in Layouts
        /\ c2 \in Layouts
        /\ c3 \in Layouts
        /\ c4 \in Layouts
        /\ c5 \in Layouts
        /\ c6 \in Layouts
        /\ c7 \in Layouts
        /\ c8 \in Layouts
        /\ c9 \in Layouts
    BY <1>4, <1>5, <1>6, <1>7, <1>8, <1>9, <1>10, <1>11, <1>12, <1>2, <1>3, LayoutIs, LooseWords
  <1>14. Yields(Expr, Layout(Looped(p), 0, w, js), Layout(Looped(p), 1, "any", js))
    <2>1. Yields(Expr, Layout(Looped(p), 0, w, js), Layout(Looped(p), 0 + 1, "any", js))
      BY <1>2, <1>1, ExprYields
    <2> QED BY <2>1
  <1>15. Yields(JumpIfFalse, Layout(Looped(p), 1, "any", js), Layout(Looped(p), 1, "any", Append(js, Pile(Looped(p).vars, 1))))
    <2>1. 1 \in Nat /\ 1 > 0
      OBVIOUS
    <2> QED BY <1>1, <1>2, <2>1, JumpIfFalseYields
  <1>16. Yields(Pop, Layout(Looped(p), 1, "any", Append(js, Pile(Looped(p).vars, 1))), Layout(Looped(p), 0, "any", Append(js, Pile(Looped(p).vars, 1))))
    <2>1. 1 \in Nat /\ 1 \in 0 .. (1) /\ 0 \in Nat /\ 0 = ((1) - 1) + 0
      BY ONLY TRUE
    <2> QED BY ONLY <2>1, <1>1, EmitYields DEF Pop
  <1>17. Yields(Block, Layout(Looped(p), 0, "any", Append(js, Pile(Looped(p).vars, 1))), Layout(Looped(p), 0, "any", Append(js, Pile(Looped(p).vars, 1))))
    BY <1>1, <1>2, BlockYields
  <1>18. Yields(Do("loop"), Layout(Looped(p), 0, "any", Append(js, Pile(Looped(p).vars, 1))), Layout(Looped(p), 1, "any", Append(js, Pile(Looped(p).vars, 1))))
    BY <1>1, <1>2, <1>3, ExitYields
  <1>19. Yields(Patch(1), Layout(Looped(p), 1, "any", Append(js, Pile(Looped(p).vars, 1))), Layout(Looped(p), 1, "any", js))
    BY <1>1, <1>2, <1>3, PatchYields
  <1>20. Yields(Pop, Layout(Looped(p), 1, "any", js), Layout(Looped(p), 0, "any", js))
    <2>1. 1 \in Nat /\ 1 \in 0 .. (1) /\ 0 \in Nat /\ 0 = ((1) - 1) + 0
      BY ONLY TRUE
    <2> QED BY ONLY <2>1, <1>1, EmitYields DEF Pop
  <1>21. Yields(Do("endLoop"), Layout(Looped(p), 0, "any", js), Layout(p, 0, "any", js))
    <2>1. Yields(Do("endLoop"), Layout(Looped(p), 0, "any", js),
                 Layout(Unlooped(Looped(p)), 0, "any", js))
      BY <1>1, <1>2, EndLoopYields
    <2> QED BY <1>2, <2>1
  <1>22. Yields(Expr, c1, c2)
    BY ONLY <1>4, <1>5, <1>14
  <1>23. Yields(JumpIfFalse, c2, c3)
    BY ONLY <1>5, <1>6, <1>15
  <1>24. Yields(Pop, c3, c4)
    BY ONLY <1>6, <1>7, <1>16
  <1>25. Yields(Block, c4, c5)
    BY ONLY <1>7, <1>8, <1>17
  <1>26. Yields(Do("loop"), c5, c6)
    BY ONLY <1>8, <1>9, <1>18
  <1>27. Yields(Patch(1), c6, c7)
    BY ONLY <1>9, <1>10, <1>19
  <1>28. Yields(Pop, c7, c8)
    BY ONLY <1>10, <1>11, <1>20
  <1>29. Yields(Do("endLoop"), c8, c9)
    BY ONLY <1>11, <1>12, <1>21
  <1>30. Laid(<<Expr, JumpIfFalse, Pop, Block, Do("loop"), Patch(1), Pop, Do("endLoop")>>, c1, c9)
    BY ONLY <1>13, <1>22, <1>23, <1>24, <1>25, <1>26, <1>27, <1>28, <1>29, Laid8
  <1> QED
    BY <1>30, <1>4, <1>12

(* A for, up to its hidden locals and the loop.                            *)
LEMMA LaidFor ==
    ASSUME NEW p \in Places, ~p.ended, p.next = <<>>, NEW w, Loose(w),
           NEW js \in Seq(Piles), NEW name \in AllNames
    PROVE  Laid(<<Expr, [do |-> "for", name |-> name], Do("end")>>,
                Layout(Inner(p), 0, w, js), Layout(p, 0, "any", js))
  <1>1. Loose("any") /\ Loose(w)
    BY LooseWords
  <1>2. /\ Inner(p) \in Places /\ Roomy(Inner(p)) /\ ~Inner(p).ended /\ Inner(p).next = <<>>
        /\ Ended(Inner(p)) \in Places /\ Ended(Inner(p)).next = <<>>
        /\ Ended(Inner(p)).depth > 0
    <2>1. /\ Inner(p) \in Places /\ Roomy(Inner(p)) /\ ~Inner(p).ended /\ Inner(p).next = <<>>
          /\ Inner(p).depth = p.depth + 1 /\ p.depth \in Nat
      BY InnerPlace, PlaceFacts
    <2>2. Ended(Inner(p)) \in Places
      BY <2>1, EndedPlace
    <2>3. Ended(Inner(p)).next = <<>> /\ Ended(Inner(p)).depth = Inner(p).depth
      BY EndedParts
    <2>4. Inner(p).depth > 0
      BY ONLY <2>1
    <2> QED BY <2>1, <2>2, <2>3, <2>4
  <1>3. Outer(Ended(Inner(p))) = p
    BY OuterOfInner
  <1>4. PICK c1 : c1 = Layout(Inner(p), 0, w, js)
    OBVIOUS
  <1>5. PICK c2 : c2 = Layout(Inner(p), 1, "any", js)
    OBVIOUS
  <1>6. PICK c3 : c3 = Layout(Ended(Inner(p)), 0, "any", js)
    OBVIOUS
  <1>7. PICK c4 : c4 = Layout(p, 0, "any", js)
    OBVIOUS
  <1>8. /\ c1 \in Layouts
        /\ c2 \in Layouts
        /\ c3 \in Layouts
        /\ c4 \in Layouts
    BY <1>4, <1>5, <1>6, <1>7, <1>2, LayoutIs, LooseWords
  <1>9. Yields(Expr, Layout(Inner(p), 0, w, js), Layout(Inner(p), 1, "any", js))
    <2>1. Yields(Expr, Layout(Inner(p), 0, w, js), Layout(Inner(p), 0 + 1, "any", js))
      BY <1>2, <1>1, ExprYields
    <2> QED BY <2>1
  <1>10. Yields([do |-> "for", name |-> name], Layout(Inner(p), 1, "any", js), Layout(Ended(Inner(p)), 0, "any", js))
    BY <1>1, <1>2, ForYields
  <1>11. Yields(Do("end"), Layout(Ended(Inner(p)), 0, "any", js), Layout(p, 0, "any", js))
    <2>1. Yields(Do("end"), Layout(Ended(Inner(p)), 0, "any", js),
                 Layout(Outer(Ended(Inner(p))), 0, "any", js))
      BY <1>1, <1>2, EndYields
    <2> QED BY <1>3, <2>1
  <1>12. Yields(Expr, c1, c2)
    BY ONLY <1>4, <1>5, <1>9
  <1>13. Yields([do |-> "for", name |-> name], c2, c3)
    BY ONLY <1>5, <1>6, <1>10
  <1>14. Yields(Do("end"), c3, c4)
    BY ONLY <1>6, <1>7, <1>11
  <1>15. Laid(<<Expr, [do |-> "for", name |-> name], Do("end")>>, c1, c4)
    BY ONLY <1>8, <1>12, <1>13, <1>14, Laid3
  <1> QED
    BY <1>15, <1>4, <1>7

(* A return, with a value or without.                                      *)
LEMMA LaidReturn ==
    ASSUME NEW p \in Places, ~p.ended, p.next = <<>>, NEW w, Loose(w),
           NEW js \in Seq(Piles), NEW value \in {Expr, Load}
    PROVE  Laid(<<value, Do("return")>>,
                Layout(p, 0, w, js), Layout(p, 0, "statements", js))
  <1>1. Loose("any") /\ Loose(w)
    BY LooseWords
  <1>2. PICK c1 : c1 = Layout(p, 0, w, js)
    OBVIOUS
  <1>3. PICK c2 : c2 = Layout(p, 1, "any", js)
    OBVIOUS
  <1>4. PICK c3 : c3 = Layout(p, 0, "statements", js)
    OBVIOUS
  <1>5. /\ c1 \in Layouts
        /\ c2 \in Layouts
        /\ c3 \in Layouts
    BY <1>2, <1>3, <1>4, LayoutIs, LooseWords
  <1>6. Yields(value, Layout(p, 0, w, js), Layout(p, 1, "any", js))
    <2>1. Yields(Load, Layout(p, 0, w, js), Layout(p, 1, "any", js))
      <3>1. 0 \in Nat /\ 0 \in 0 .. 0 /\ 1 \in Nat /\ 1 = (0 - 0) + 1
        OBVIOUS
      <3> QED BY ONLY <1>1, <3>1, EmitYields DEF Load
    <2>2. Yields(Expr, Layout(p, 0, w, js), Layout(p, 0 + 1, "any", js))
      BY <1>1, ExprYields
    <2> QED BY <2>1, <2>2
  <1>7. Yields(Do("return"), Layout(p, 1, "any", js), Layout(p, 0, "statements", js))
    BY <1>1, ReturnYields
  <1>8. Yields(value, c1, c2)
    BY ONLY <1>2, <1>3, <1>6
  <1>9. Yields(Do("return"), c2, c3)
    BY ONLY <1>3, <1>4, <1>7
  <1>10. Laid(<<value, Do("return")>>, c1, c3)
    BY ONLY <1>5, <1>8, <1>9, Laid2
  <1> QED
    BY <1>10, <1>2, <1>4

(* The code of a function.                                                 *)
LEMMA LaidFunction ==
    ASSUME NEW p \in Places, ~p.ended, NEW n \in Nat, NEW w \in {"mark", "other"},
           NEW vs \in Seq(Slots), \A i \in 1 .. Len(vs) : vs[i][2] = 1,
           NEW js \in Seq(Piles)
    PROVE  Laid(<<Statements, Load, Do("return"), Do("leaveFunction")>>,
                Layout(Entered(p, n, w, vs), 0, "any", js), Layout(p, n + 1, w, js))
  <1>1. Loose("any")
    BY LooseWords
  <1>2. /\ Entered(p, n, w, vs) \in Places /\ Roomy(Entered(p, n, w, vs))
        /\ Ended(Entered(p, n, w, vs)) \in Places
        /\ LastOf(Ended(Entered(p, n, w, vs)).saved) = Frame(p, n, w)
        /\ Ended(Entered(p, n, w, vs)).saved # <<>>
        /\ Resumed(Ended(Entered(p, n, w, vs))) = p
    BY EnteredPlace
  <1>3. /\ ~Entered(p, n, w, vs).ended /\ Entered(p, n, w, vs).next = <<>>
        /\ Ended(Entered(p, n, w, vs)).ended
    BY EndedParts DEF Entered, Place
  <1>4. Frame(p, n, w).temps = n /\ Frame(p, n, w).then = w
    BY FrameParts
  <1>5. w \in Words /\ n + 1 \in Nat
    BY DEF Words
  <1>6. PICK c1 : c1 = Layout(Entered(p, n, w, vs), 0, "any", js)
    OBVIOUS
  <1>7. PICK c2 : c2 = Layout(Ended(Entered(p, n, w, vs)), 0, "any", js)
    OBVIOUS
  <1>8. PICK c3 : c3 = Layout(Ended(Entered(p, n, w, vs)), 1, "any", js)
    OBVIOUS
  <1>9. PICK c4 : c4 = Layout(Ended(Entered(p, n, w, vs)), 0, "any", js)
    OBVIOUS
  <1>10. PICK c5 : c5 = Layout(p, n + 1, w, js)
    OBVIOUS
  <1>11. /\ c1 \in Layouts
        /\ c2 \in Layouts
        /\ c3 \in Layouts
        /\ c4 \in Layouts
        /\ c5 \in Layouts
    BY <1>6, <1>7, <1>8, <1>9, <1>10, <1>2, <1>5, LayoutIs, LooseWords
  <1>12. Yields(Statements, Layout(Entered(p, n, w, vs), 0, "any", js), Layout(Ended(Entered(p, n, w, vs)), 0, "any", js))
    BY <1>1, <1>2, <1>3, StatementsYields
  <1>13. Yields(Load, Layout(Ended(Entered(p, n, w, vs)), 0, "any", js), Layout(Ended(Entered(p, n, w, vs)), 1, "any", js))
    <2>1. 0 \in Nat /\ 0 \in 0 .. 0 /\ 1 \in Nat /\ 1 = (0 - 0) + 1
      OBVIOUS
    <2> QED BY ONLY <1>1, <2>1, EmitYields DEF Load
  <1>14. Yields(Do("return"), Layout(Ended(Entered(p, n, w, vs)), 1, "any", js), Layout(Ended(Entered(p, n, w, vs)), 0, "any", js))
    BY <1>1, <1>3, ReturnYields
  <1>15. Yields(Do("leaveFunction"), Layout(Ended(Entered(p, n, w, vs)), 0, "any", js), Layout(p, n + 1, w, js))
    <2>1. Yields(Do("leaveFunction"), Layout(Ended(Entered(p, n, w, vs)), 0, "any", js),
                 Layout(Resumed(Ended(Entered(p, n, w, vs))),
                        LastOf(Ended(Entered(p, n, w, vs)).saved).temps + 1,
                        LastOf(Ended(Entered(p, n, w, vs)).saved).then, js))
      BY <1>1, <1>2, LeaveYields
    <2> QED BY <1>2, <1>4, <2>1
  <1>16. Yields(Statements, c1, c2)
    BY ONLY <1>6, <1>7, <1>12
  <1>17. Yields(Load, c2, c3)
    BY ONLY <1>7, <1>8, <1>13
  <1>18. Yields(Do("return"), c3, c4)
    BY ONLY <1>8, <1>9, <1>14
  <1>19. Yields(Do("leaveFunction"), c4, c5)
    BY ONLY <1>9, <1>10, <1>15
  <1>20. Laid(<<Statements, Load, Do("return"), Do("leaveFunction")>>, c1, c5)
    BY ONLY <1>11, <1>16, <1>17, <1>18, <1>19, Laid4
  <1> QED
    BY <1>20, <1>6, <1>10


(* The loop of a for, with the locals of its scope already there.          *)
LEMMA OuterOfGaining ==
    ASSUME NEW p \in Places, ~p.ended, p.next = <<>>, NEW x \in Slots, x[2] = p.depth + 1
    PROVE  Outer(Gaining(Inner(p), x)) = p
  <1>1. p.vars \in Seq(Slots) /\ p.depth \in Nat /\ p.ended \in BOOLEAN /\ Within(p.vars, p.depth)
        /\ p = Place(p.vars, p.next, p.depth, p.ended, p.saved, p.loops)
    BY PlaceFacts DEF Sound
  <1>2. p.depth + 1 \in Nat /\ p.depth < p.depth + 1 /\ (p.depth + 1) - 1 = p.depth
        /\ x[2] >= p.depth + 1
    BY <1>1
  <1>3. Cut(Append(p.vars, x), p.depth + 1) = p.vars
    <2>1. Cut(p.vars, p.depth + 1) = p.vars
      BY <1>1, <1>2, CutWithin
    <2>2. Cut(Append(p.vars, x), p.depth + 1) = Cut(p.vars, p.depth + 1)
      BY <1>1, <1>2, CutAppend
    <2> QED BY <2>1, <2>2
  <1>4. PICK r : r = Inner(p)
    OBVIOUS
  <1>5. r.vars = p.vars /\ r.depth = p.depth + 1 /\ r.saved = p.saved /\ r.loops = p.loops
    BY <1>4, InnerParts
  <1>6. PICK q : q = Gaining(r, x)
    OBVIOUS
  <1>7. q.vars = Append(r.vars, x) /\ q.depth = r.depth /\ q.saved = r.saved /\ q.loops = r.loops
    BY ONLY <1>6, GainingParts
  <1>8. Outer(q) = Place(p.vars, <<>>, p.depth, FALSE, p.saved, p.loops)
    BY ONLY <1>2, <1>3, <1>5, <1>7 DEF Outer
  <1>9. p.ended = FALSE
    BY <1>1
  <1> QED
    BY <1>1, <1>4, <1>6, <1>8, <1>9

LEMMA LaidForTasks ==
    ASSUME NEW p \in Places, ~p.ended, p.next = <<>>, Roomy(p), NEW w, Loose(w),
           NEW js \in Seq(Piles), NEW name \in AllNames, NEW iter \in 1 .. Len(p.vars),
           NEW idx \in 1 .. Len(p.vars), NEW start, Is(start, p.vars)
    PROVE  Laid(ForTasks(name, iter, idx, start),
                Layout(p, 0, w, js), Layout(Ended(p), 0, "any", js))
  <1>1. Loose("any") /\ Loose(w)
    BY LooseWords
  <1>2. /\ Inner(p) \in Places /\ Roomy(Inner(p)) /\ ~Inner(p).ended /\ Inner(p).next = <<>>
        /\ Inner(p).vars = p.vars /\ Inner(p).depth = p.depth + 1 /\ p.depth \in Nat
    BY InnerPlace, PlaceFacts
  <1>3. LET v == Gaining(Inner(p), <<name, Inner(p).depth>>)
        IN v \in Places /\ ~v.ended /\ v.next = <<>> /\ v.depth > 0 /\ Outer(v) = p
    <2>1. PICK x : x = <<name, Inner(p).depth>>
      OBVIOUS
    <2>2. Inner(p).depth \in Nat /\ Inner(p).depth > 0
      BY ONLY <1>2
    <2>3. x \in Slots /\ x[2] = Inner(p).depth /\ x[2] = p.depth + 1
      BY <1>2, <2>1, <2>2 DEF Slots
    <2>4. PICK r \in Places : r = Inner(p) /\ Roomy(r) /\ x[2] = r.depth /\ r.depth > 0
      BY <1>2, <2>2, <2>3
    <2>5. /\ Gaining(r, x) \in Places /\ Gaining(r, x).depth = r.depth
          /\ Gaining(r, x).next = <<>> /\ Gaining(r, x).ended = FALSE
      BY <2>3, <2>4, GainingPlace
    <2>6. Outer(Gaining(Inner(p), x)) = p
      BY <2>3, OuterOfGaining
    <2> QED BY <2>1, <2>4, <2>5, <2>6
  <1>4. /\ Looped(p) \in Places /\ ~Looped(p).ended /\ Looped(p).next = <<>>
        /\ AtLoop(Looped(p)) /\ Unlooped(Looped(p)) = p /\ Looped(p).vars = p.vars
    BY LoopedPlace
  <1>5. /\ Pile(p.vars, 1) \in Piles /\ Append(js, Pile(p.vars, 1)) \in Seq(Piles)
        /\ 0 \in Nat /\ 1 \in Nat /\ 2 \in Nat /\ 3 \in Nat
    BY PileIs
  <1>6. Ended(p) \in Places
    BY EndedPlace
  <1>7. PICK c1 : c1 = Layout(p, 0, w, js)
    OBVIOUS
  <1>8. PICK c2 : c2 = Layout(p, 1, "any", js)
    OBVIOUS
  <1>9. PICK c3 : c3 = Layout(p, 2, "any", js)
    OBVIOUS
  <1>10. PICK c4 : c4 = Layout(p, 3, "any", js)
    OBVIOUS
  <1>11. PICK c5 : c5 = Layout(p, 2, "any", js)
    OBVIOUS
  <1>12. PICK c6 : c6 = Layout(p, 1, "any", js)
    OBVIOUS
  <1>13. PICK c7 : c7 = Layout(p, 1, "any", Append(js, Pile(p.vars, 1)))
    OBVIOUS
  <1>14. PICK c8 : c8 = Layout(p, 0, "any", Append(js, Pile(p.vars, 1)))
    OBVIOUS
  <1>15. PICK c9 : c9 = Layout(Inner(p), 0, "any", Append(js, Pile(p.vars, 1)))
    OBVIOUS
  <1>16. PICK c10 : c10 = Layout(Inner(p), 1, "any", Append(js, Pile(p.vars, 1)))
    OBVIOUS
  <1>17. PICK c11 : c11 = Layout(Inner(p), 2, "any", Append(js, Pile(p.vars, 1)))
    OBVIOUS
  <1>18. PICK c12 : c12 = Layout(Inner(p), 1, "any", Append(js, Pile(p.vars, 1)))
    OBVIOUS
  <1>19. PICK c13 : c13 = Layout(Gaining(Inner(p), <<name, Inner(p).depth>>), 0, "any", Append(js, Pile(p.vars, 1)))
    OBVIOUS
  <1>20. PICK c14 : c14 = Layout(Gaining(Inner(p), <<name, Inner(p).depth>>), 0, "any", Append(js, Pile(p.vars, 1)))
    OBVIOUS
  <1>21. PICK c15 : c15 = Layout(p, 0, "any", Append(js, Pile(p.vars, 1)))
    OBVIOUS
  <1>22. PICK c16 : c16 = Layout(Looped(p), 0, "any", Append(js, Pile(p.vars, 1)))
    OBVIOUS
  <1>23. PICK c17 : c17 = Layout(Looped(p), 1, "any", Append(js, Pile(p.vars, 1)))
    OBVIOUS
  <1>24. PICK c18 : c18 = Layout(Looped(p), 2, "any", Append(js, Pile(p.vars, 1)))
    OBVIOUS
  <1>25. PICK c19 : c19 = Layout(Looped(p), 1, "any", Append(js, Pile(p.vars, 1)))
    OBVIOUS
  <1>26. PICK c20 : c20 = Layout(Looped(p), 1, "any", Append(js, Pile(p.vars, 1)))
    OBVIOUS
  <1>27. PICK c21 : c21 = Layout(Looped(p), 0, "any", Append(js, Pile(p.vars, 1)))
    OBVIOUS
  <1>28. PICK c22 : c22 = Layout(Looped(p), 1, "any", Append(js, Pile(p.vars, 1)))
    OBVIOUS
  <1>29. PICK c23 : c23 = Layout(Looped(p), 1, "any", js)
    OBVIOUS
  <1>30. PICK c24 : c24 = Layout(Looped(p), 0, "any", js)
    OBVIOUS
  <1>31. PICK c25 : c25 = Layout(Ended(p), 0, "any", js)
    OBVIOUS
  <1>32. /\ c1 \in Layouts
        /\ c2 \in Layouts
        /\ c3 \in Layouts
        /\ c4 \in Layouts
        /\ c5 \in Layouts
        /\ c6 \in Layouts
        /\ c7 \in Layouts
        /\ c8 \in Layouts
        /\ c9 \in Layouts
        /\ c10 \in Layouts
        /\ c11 \in Layouts
        /\ c12 \in Layouts
        /\ c13 \in Layouts
        /\ c14 \in Layouts
        /\ c15 \in Layouts
        /\ c16 \in Layouts
        /\ c17 \in Layouts
        /\ c18 \in Layouts
        /\ c19 \in Layouts
        /\ c20 \in Layouts
        /\ c21 \in Layouts
        /\ c22 \in Layouts
        /\ c23 \in Layouts
        /\ c24 \in Layouts
        /\ c25 \in Layouts
    BY <1>7, <1>8, <1>9, <1>10, <1>11, <1>12, <1>13, <1>14, <1>15, <1>16, <1>17, <1>18, <1>19, <1>20, <1>21, <1>22, <1>23, <1>24, <1>25, <1>26, <1>27, <1>28, <1>29, <1>30, <1>31, <1>2, <1>3, <1>4, <1>5, <1>6, LayoutIs, LooseWords
  <1>33. Yields(Get(idx), Layout(p, 0, w, js), Layout(p, 1, "any", js))
    <2>1. Yields(Get(idx), Layout(p, 0, w, js), Layout(p, 0 + 1, "any", js))
      BY <1>1, SlotYields
    <2> QED BY <2>1
  <1>34. Yields(Load, Layout(p, 1, "any", js), Layout(p, 2, "any", js))
    <2>1. 1 \in Nat /\ 0 \in 0 .. (1) /\ 1 \in Nat /\ 2 = ((1) - 0) + 1
      BY ONLY TRUE
    <2> QED BY ONLY <2>1, <1>1, EmitYields DEF Load
  <1>35. Yields(Get(iter), Layout(p, 2, "any", js), Layout(p, 3, "any", js))
    <2>1. Yields(Get(iter), Layout(p, 2, "any", js), Layout(p, 2 + 1, "any", js))
      BY <1>1, SlotYields
    <2> QED BY <2>1
  <1>36. Yields(Call(1), Layout(p, 3, "any", js), Layout(p, 2, "any", js))
    <2>1. 3 \in Nat /\ 1 + 1 \in 0 .. 3 /\ 1 \in Nat /\ 2 = (3 - (1 + 1)) + 1
      OBVIOUS
    <2> QED BY ONLY <2>1, <1>1, EmitYields DEF Call
  <1>37. Yields(Arithmetic, Layout(p, 2, "any", js), Layout(p, 1, "any", js))
    <2>1. 2 \in Nat /\ 2 \in 0 .. (2) /\ 1 \in Nat /\ 1 = ((2) - 2) + 1
      BY ONLY TRUE
    <2> QED BY ONLY <2>1, <1>1, EmitYields DEF Arithmetic
  <1>38. Yields(JumpIfFalse, Layout(p, 1, "any", js), Layout(p, 1, "any", Append(js, Pile(p.vars, 1))))
    <2>1. 1 \in Nat /\ 1 > 0
      OBVIOUS
    <2> QED BY <1>1, <2>1, JumpIfFalseYields
  <1>39. Yields(Pop, Layout(p, 1, "any", Append(js, Pile(p.vars, 1))), Layout(p, 0, "any", Append(js, Pile(p.vars, 1))))
    <2>1. 1 \in Nat /\ 1 \in 0 .. (1) /\ 0 \in Nat /\ 0 = ((1) - 1) + 0
      BY ONLY TRUE
    <2> QED BY ONLY <2>1, <1>1, EmitYields DEF Pop
  <1>40. Yields(Do("begin"), Layout(p, 0, "any", Append(js, Pile(p.vars, 1))), Layout(Inner(p), 0, "any", Append(js, Pile(p.vars, 1))))
    BY <1>1, BeginYields
  <1>41. Yields(Get(iter), Layout(Inner(p), 0, "any", Append(js, Pile(p.vars, 1))), Layout(Inner(p), 1, "any", Append(js, Pile(p.vars, 1))))
    <2>1. Yields(Get(iter), Layout(Inner(p), 0, "any", Append(js, Pile(p.vars, 1))), Layout(Inner(p), 0 + 1, "any", Append(js, Pile(p.vars, 1))))
      BY <1>2, <1>1, SlotYields
    <2> QED BY <2>1
  <1>42. Yields(Get(idx), Layout(Inner(p), 1, "any", Append(js, Pile(p.vars, 1))), Layout(Inner(p), 2, "any", Append(js, Pile(p.vars, 1))))
    <2>1. Yields(Get(idx), Layout(Inner(p), 1, "any", Append(js, Pile(p.vars, 1))), Layout(Inner(p), 1 + 1, "any", Append(js, Pile(p.vars, 1))))
      BY <1>2, <1>1, SlotYields
    <2> QED BY <2>1
  <1>43. Yields(Index, Layout(Inner(p), 2, "any", Append(js, Pile(p.vars, 1))), Layout(Inner(p), 1, "any", Append(js, Pile(p.vars, 1))))
    <2>1. 2 \in Nat /\ 2 \in 0 .. (2) /\ 1 \in Nat /\ 1 = ((2) - 2) + 1
      BY ONLY TRUE
    <2> QED BY ONLY <2>1, <1>1, EmitYields DEF Index
  <1>44. Yields(Declare(name), Layout(Inner(p), 1, "any", Append(js, Pile(p.vars, 1))), Layout(Gaining(Inner(p), <<name, Inner(p).depth>>), 0, "any", Append(js, Pile(p.vars, 1))))
    BY <1>1, <1>2, DeclareYields
  <1>45. Yields(Block, Layout(Gaining(Inner(p), <<name, Inner(p).depth>>), 0, "any", Append(js, Pile(p.vars, 1))), Layout(Gaining(Inner(p), <<name, Inner(p).depth>>), 0, "any", Append(js, Pile(p.vars, 1))))
    BY <1>1, <1>3, BlockYields
  <1>46. Yields(Do("end"), Layout(Gaining(Inner(p), <<name, Inner(p).depth>>), 0, "any", Append(js, Pile(p.vars, 1))), Layout(p, 0, "any", Append(js, Pile(p.vars, 1))))
    <2>1. Yields(Do("end"), Layout(Gaining(Inner(p), <<name, Inner(p).depth>>), 0, "any", Append(js, Pile(p.vars, 1))),
                 Layout(Outer(Gaining(Inner(p), <<name, Inner(p).depth>>)), 0, "any", Append(js, Pile(p.vars, 1))))
      BY <1>1, <1>3, EndYields
    <2> QED BY <1>3, <2>1
  <1>47. Yields([do |-> "pushLoop", start |-> start], Layout(p, 0, "any", Append(js, Pile(p.vars, 1))), Layout(Looped(p), 0, "any", Append(js, Pile(p.vars, 1))))
    BY <1>1, PushLoopYields
  <1>48. Yields(Get(idx), Layout(Looped(p), 0, "any", Append(js, Pile(p.vars, 1))), Layout(Looped(p), 1, "any", Append(js, Pile(p.vars, 1))))
    <2>1. Yields(Get(idx), Layout(Looped(p), 0, "any", Append(js, Pile(p.vars, 1))), Layout(Looped(p), 0 + 1, "any", Append(js, Pile(p.vars, 1))))
      BY <1>4, <1>1, SlotYields
    <2> QED BY <2>1
  <1>49. Yields(Load, Layout(Looped(p), 1, "any", Append(js, Pile(p.vars, 1))), Layout(Looped(p), 2, "any", Append(js, Pile(p.vars, 1))))
    <2>1. 1 \in Nat /\ 0 \in 0 .. (1) /\ 1 \in Nat /\ 2 = ((1) - 0) + 1
      BY ONLY TRUE
    <2> QED BY ONLY <2>1, <1>1, EmitYields DEF Load
  <1>50. Yields(Arithmetic, Layout(Looped(p), 2, "any", Append(js, Pile(p.vars, 1))), Layout(Looped(p), 1, "any", Append(js, Pile(p.vars, 1))))
    <2>1. 2 \in Nat /\ 2 \in 0 .. (2) /\ 1 \in Nat /\ 1 = ((2) - 2) + 1
      BY ONLY TRUE
    <2> QED BY ONLY <2>1, <1>1, EmitYields DEF Arithmetic
  <1>51. Yields(Set(idx), Layout(Looped(p), 1, "any", Append(js, Pile(p.vars, 1))), Layout(Looped(p), 1, "any", Append(js, Pile(p.vars, 1))))
    <2>1. Yields(Set(idx), Layout(Looped(p), 1, "any", Append(js, Pile(p.vars, 1))), Layout(Looped(p), 1, "any", Append(js, Pile(p.vars, 1))))
      BY <1>4, <1>1, SlotYields
    <2> QED BY <2>1
  <1>52. Yields(Pop, Layout(Looped(p), 1, "any", Append(js, Pile(p.vars, 1))), Layout(Looped(p), 0, "any", Append(js, Pile(p.vars, 1))))
    <2>1. 1 \in Nat /\ 1 \in 0 .. (1) /\ 0 \in Nat /\ 0 = ((1) - 1) + 0
      BY ONLY TRUE
    <2> QED BY ONLY <2>1, <1>1, EmitYields DEF Pop
  <1>53. Yields(Do("loop"), Layout(Looped(p), 0, "any", Append(js, Pile(p.vars, 1))), Layout(Looped(p), 1, "any", Append(js, Pile(p.vars, 1))))
    BY <1>1, <1>4, <1>5, ExitYields
  <1>54. Yields(Patch(1), Layout(Looped(p), 1, "any", Append(js, Pile(p.vars, 1))), Layout(Looped(p), 1, "any", js))
    <2>1. Yields(Patch(1), Layout(Looped(p), 1, "any", Append(js, Pile(Looped(p).vars, 1))),
                 Layout(Looped(p), 1, "any", js))
      BY <1>1, <1>4, <1>5, PatchYields
    <2> QED BY <1>4, <2>1
  <1>55. Yields(Pop, Layout(Looped(p), 1, "any", js), Layout(Looped(p), 0, "any", js))
    <2>1. 1 \in Nat /\ 1 \in 0 .. (1) /\ 0 \in Nat /\ 0 = ((1) - 1) + 0
      BY ONLY TRUE
    <2> QED BY ONLY <2>1, <1>1, EmitYields DEF Pop
  <1>56. Yields(Do("endLoop"), Layout(Looped(p), 0, "any", js), Layout(Ended(p), 0, "any", js))
    <2>1. Yields(Do("endLoop"), Layout(Looped(p), 0, "any", js),
                 Layout(Ended(Unlooped(Looped(p))), 0, "any", js))
      BY <1>1, <1>4, EndLoopYields
    <2> QED BY <1>4, <2>1
  <1>57. Yields(Get(idx), c1, c2)
    BY ONLY <1>7, <1>8, <1>33
  <1>58. Yields(Load, c2, c3)
    BY ONLY <1>8, <1>9, <1>34
  <1>59. Yields(Get(iter), c3, c4)
    BY ONLY <1>9, <1>10, <1>35
  <1>60. Yields(Call(1), c4, c5)
    BY ONLY <1>10, <1>11, <1>36
  <1>61. Yields(Arithmetic, c5, c6)
    BY ONLY <1>11, <1>12, <1>37
  <1>62. Yields(JumpIfFalse, c6, c7)
    BY ONLY <1>12, <1>13, <1>38
  <1>63. Yields(Pop, c7, c8)
    BY ONLY <1>13, <1>14, <1>39
  <1>64. Yields(Do("begin"), c8, c9)
    BY ONLY <1>14, <1>15, <1>40
  <1>65. Yields(Get(iter), c9, c10)
    BY ONLY <1>15, <1>16, <1>41
  <1>66. Yields(Get(idx), c10, c11)
    BY ONLY <1>16, <1>17, <1>42
  <1>67. Yields(Index, c11, c12)
    BY ONLY <1>17, <1>18, <1>43
  <1>68. Yields(Declare(name), c12, c13)
    BY ONLY <1>18, <1>19, <1>44
  <1>69. Yields(Block, c13, c14)
    BY ONLY <1>19, <1>20, <1>45
  <1>70. Yields(Do("end"), c14, c15)
    BY ONLY <1>20, <1>21, <1>46
  <1>71. Yields([do |-> "pushLoop", start |-> start], c15, c16)
    BY ONLY <1>21, <1>22, <1>47
  <1>72. Yields(Get(idx), c16, c17)
    BY ONLY <1>22, <1>23, <1>48
  <1>73. Yields(Load, c17, c18)
    BY ONLY <1>23, <1>24, <1>49
  <1>74. Yields(Arithmetic, c18, c19)
    BY ONLY <1>24, <1>25, <1>50
  <1>75. Yields(Set(idx), c19, c20)
    BY ONLY <1>25, <1>26, <1>51
  <1>76. Yields(Pop, c20, c21)
    BY ONLY <1>26, <1>27, <1>52
  <1>77. Yields(Do("loop"), c21, c22)
    BY ONLY <1>27, <1>28, <1>53
  <1>78. Yields(Patch(1), c22, c23)
    BY ONLY <1>28, <1>29, <1>54
  <1>79. Yields(Pop, c23, c24)
    BY ONLY <1>29, <1>30, <1>55
  <1>80. Yields(Do("endLoop"), c24, c25)
    BY ONLY <1>30, <1>31, <1>56
  <1>81. PICK ts : ts = <<Get(idx), Load, Get(iter), Call(1), Arithmetic, JumpIfFalse, Pop,
                          Do("begin"), Get(iter), Get(idx), Index,
                          Declare(name), Block, Do("end"),
                          [do |-> "pushLoop", start |-> start], Get(idx), Load,
                          Arithmetic, Set(idx), Pop, Do("loop"), Patch(1), Pop,
                          Do("endLoop")>>
    OBVIOUS
  <1>82. IsSequence(ts) /\ Len(ts) = 24
    <2>1. ts \in Seq({Get(idx), Load, Get(iter), Call(1), Arithmetic, JumpIfFalse, Pop, Do("begin"),
                     Index, Declare(name), Block, Do("end"),
                     [do |-> "pushLoop", start |-> start], Set(idx), Do("loop"),
                     Patch(1), Do("endLoop")}) /\ Len(ts) = 24
      BY <1>81
    <2> QED BY <2>1 DEF IsSequence
  <1>83. PICK f : f = <<c1, c2, c3, c4, c5, c6, c7, c8, c9, c10, c11, c12, c13, c14, c15, c16, c17,
                         c18, c19, c20, c21, c22, c23, c24, c25>>
    OBVIOUS
  <1>84. f \in [1 .. 25 -> Layouts]
    BY ONLY <1>32, <1>83
  <1>85. \A i \in 1 .. 24 : Yields(ts[i], f[i], f[i + 1])
    <2> TAKE i \in 1 .. 24
    <2>1. ASSUME i = 1 PROVE Yields(ts[i], f[i], f[i + 1])
      <3>1. ts[1] = Get(idx) /\ f[1] = c1 /\ f[2] = c2
        BY ONLY <1>81, <1>83
      <3>2. i + 1 = 2
        BY ONLY <2>1
      <3> QED BY ONLY <2>1, <3>1, <3>2, <1>57, Zenon
    <2>2. ASSUME i = 2 PROVE Yields(ts[i], f[i], f[i + 1])
      <3>1. ts[2] = Load /\ f[2] = c2 /\ f[3] = c3
        BY ONLY <1>81, <1>83
      <3>2. i + 1 = 3
        BY ONLY <2>2
      <3> QED BY ONLY <2>2, <3>1, <3>2, <1>58, Zenon
    <2>3. ASSUME i = 3 PROVE Yields(ts[i], f[i], f[i + 1])
      <3>1. ts[3] = Get(iter) /\ f[3] = c3 /\ f[4] = c4
        BY ONLY <1>81, <1>83
      <3>2. i + 1 = 4
        BY ONLY <2>3
      <3> QED BY ONLY <2>3, <3>1, <3>2, <1>59, Zenon
    <2>4. ASSUME i = 4 PROVE Yields(ts[i], f[i], f[i + 1])
      <3>1. ts[4] = Call(1) /\ f[4] = c4 /\ f[5] = c5
        BY ONLY <1>81, <1>83
      <3>2. i + 1 = 5
        BY ONLY <2>4
      <3> QED BY ONLY <2>4, <3>1, <3>2, <1>60, Zenon
    <2>5. ASSUME i = 5 PROVE Yields(ts[i], f[i], f[i + 1])
      <3>1. ts[5] = Arithmetic /\ f[5] = c5 /\ f[6] = c6
        BY ONLY <1>81, <1>83
      <3>2. i + 1 = 6
        BY ONLY <2>5
      <3> QED BY ONLY <2>5, <3>1, <3>2, <1>61, Zenon
    <2>6. ASSUME i = 6 PROVE Yields(ts[i], f[i], f[i + 1])
      <3>1. ts[6] = JumpIfFalse /\ f[6] = c6 /\ f[7] = c7
        BY ONLY <1>81, <1>83
      <3>2. i + 1 = 7
        BY ONLY <2>6
      <3> QED BY ONLY <2>6, <3>1, <3>2, <1>62, Zenon
    <2>7. ASSUME i = 7 PROVE Yields(ts[i], f[i], f[i + 1])
      <3>1. ts[7] = Pop /\ f[7] = c7 /\ f[8] = c8
        BY ONLY <1>81, <1>83
      <3>2. i + 1 = 8
        BY ONLY <2>7
      <3> QED BY ONLY <2>7, <3>1, <3>2, <1>63, Zenon
    <2>8. ASSUME i = 8 PROVE Yields(ts[i], f[i], f[i + 1])
      <3>1. ts[8] = Do("begin") /\ f[8] = c8 /\ f[9] = c9
        BY ONLY <1>81, <1>83
      <3>2. i + 1 = 9
        BY ONLY <2>8
      <3> QED BY ONLY <2>8, <3>1, <3>2, <1>64, Zenon
    <2>9. ASSUME i = 9 PROVE Yields(ts[i], f[i], f[i + 1])
      <3>1. ts[9] = Get(iter) /\ f[9] = c9 /\ f[10] = c10
        BY ONLY <1>81, <1>83
      <3>2. i + 1 = 10
        BY ONLY <2>9
      <3> QED BY ONLY <2>9, <3>1, <3>2, <1>65, Zenon
    <2>10. ASSUME i = 10 PROVE Yields(ts[i], f[i], f[i + 1])
      <3>1. ts[10] = Get(idx) /\ f[10] = c10 /\ f[11] = c11
        BY ONLY <1>81, <1>83
      <3>2. i + 1 = 11
        BY ONLY <2>10
      <3> QED BY ONLY <2>10, <3>1, <3>2, <1>66, Zenon
    <2>11. ASSUME i = 11 PROVE Yields(ts[i], f[i], f[i + 1])
      <3>1. ts[11] = Index /\ f[11] = c11 /\ f[12] = c12
        BY ONLY <1>81, <1>83
      <3>2. i + 1 = 12
        BY ONLY <2>11
      <3> QED BY ONLY <2>11, <3>1, <3>2, <1>67, Zenon
    <2>12. ASSUME i = 12 PROVE Yields(ts[i], f[i], f[i + 1])
      <3>1. ts[12] = Declare(name) /\ f[12] = c12 /\ f[13] = c13
        BY ONLY <1>81, <1>83
      <3>2. i + 1 = 13
        BY ONLY <2>12
      <3> QED BY ONLY <2>12, <3>1, <3>2, <1>68, Zenon
    <2>13. ASSUME i = 13 PROVE Yields(ts[i], f[i], f[i + 1])
      <3>1. ts[13] = Block /\ f[13] = c13 /\ f[14] = c14
        BY ONLY <1>81, <1>83
      <3>2. i + 1 = 14
        BY ONLY <2>13
      <3> QED BY ONLY <2>13, <3>1, <3>2, <1>69, Zenon
    <2>14. ASSUME i = 14 PROVE Yields(ts[i], f[i], f[i + 1])
      <3>1. ts[14] = Do("end") /\ f[14] = c14 /\ f[15] = c15
        BY ONLY <1>81, <1>83
      <3>2. i + 1 = 15
        BY ONLY <2>14
      <3> QED BY ONLY <2>14, <3>1, <3>2, <1>70, Zenon
    <2>15. ASSUME i = 15 PROVE Yields(ts[i], f[i], f[i + 1])
      <3>1. ts[15] = [do |-> "pushLoop", start |-> start] /\ f[15] = c15 /\ f[16] = c16
        BY ONLY <1>81, <1>83
      <3>2. i + 1 = 16
        BY ONLY <2>15
      <3> QED BY ONLY <2>15, <3>1, <3>2, <1>71, Zenon
    <2>16. ASSUME i = 16 PROVE Yields(ts[i], f[i], f[i + 1])
      <3>1. ts[16] = Get(idx) /\ f[16] = c16 /\ f[17] = c17
        BY ONLY <1>81, <1>83
      <3>2. i + 1 = 17
        BY ONLY <2>16
      <3> QED BY ONLY <2>16, <3>1, <3>2, <1>72, Zenon
    <2>17. ASSUME i = 17 PROVE Yields(ts[i], f[i], f[i + 1])
      <3>1. ts[17] = Load /\ f[17] = c17 /\ f[18] = c18
        BY ONLY <1>81, <1>83
      <3>2. i + 1 = 18
        BY ONLY <2>17
      <3> QED BY ONLY <2>17, <3>1, <3>2, <1>73, Zenon
    <2>18. ASSUME i = 18 PROVE Yields(ts[i], f[i], f[i + 1])
      <3>1. ts[18] = Arithmetic /\ f[18] = c18 /\ f[19] = c19
        BY ONLY <1>81, <1>83
      <3>2. i + 1 = 19
        BY ONLY <2>18
      <3> QED BY ONLY <2>18, <3>1, <3>2, <1>74, Zenon
    <2>19. ASSUME i = 19 PROVE Yields(ts[i], f[i], f[i + 1])
      <3>1. ts[19] = Set(idx) /\ f[19] = c19 /\ f[20] = c20
        BY ONLY <1>81, <1>83
      <3>2. i + 1 = 20
        BY ONLY <2>19
      <3> QED BY ONLY <2>19, <3>1, <3>2, <1>75, Zenon
    <2>20. ASSUME i = 20 PROVE Yields(ts[i], f[i], f[i + 1])
      <3>1. ts[20] = Pop /\ f[20] = c20 /\ f[21] = c21
        BY ONLY <1>81, <1>83
      <3>2. i + 1 = 21
        BY ONLY <2>20
      <3> QED BY ONLY <2>20, <3>1, <3>2, <1>76, Zenon
    <2>21. ASSUME i = 21 PROVE Yields(ts[i], f[i], f[i + 1])
      <3>1. ts[21] = Do("loop") /\ f[21] = c21 /\ f[22] = c22
        BY ONLY <1>81, <1>83
      <3>2. i + 1 = 22
        BY ONLY <2>21
      <3> QED BY ONLY <2>21, <3>1, <3>2, <1>77, Zenon
    <2>22. ASSUME i = 22 PROVE Yields(ts[i], f[i], f[i + 1])
      <3>1. ts[22] = Patch(1) /\ f[22] = c22 /\ f[23] = c23
        BY ONLY <1>81, <1>83
      <3>2. i + 1 = 23
        BY ONLY <2>22
      <3> QED BY ONLY <2>22, <3>1, <3>2, <1>78, Zenon
    <2>23. ASSUME i = 23 PROVE Yields(ts[i], f[i], f[i + 1])
      <3>1. ts[23] = Pop /\ f[23] = c23 /\ f[24] = c24
        BY ONLY <1>81, <1>83
      <3>2. i + 1 = 24
        BY ONLY <2>23
      <3> QED BY ONLY <2>23, <3>1, <3>2, <1>79, Zenon
    <2>24. ASSUME i = 24 PROVE Yields(ts[i], f[i], f[i + 1])
      <3>1. ts[24] = Do("endLoop") /\ f[24] = c24 /\ f[25] = c25
        BY ONLY <1>81, <1>83
      <3>2. i + 1 = 25
        BY ONLY <2>24
      <3> QED BY ONLY <2>24, <3>1, <3>2, <1>80, Zenon
    <2>25. i = 1 \/ i = 2 \/ i = 3 \/ i = 4 \/ i = 5 \/ i = 6 \/ i = 7 \/ i = 8 \/
           i = 9 \/ i = 10 \/ i = 11 \/ i = 12 \/ i = 13 \/ i = 14 \/ i = 15 \/
           i = 16 \/ i = 17 \/ i = 18 \/ i = 19 \/ i = 20 \/ i = 21 \/ i = 22 \/
           i = 23 \/ i = 24
      BY ONLY i \in 1 .. 24
    <2> QED
      BY ONLY <2>1, <2>2, <2>3, <2>4, <2>5, <2>6, <2>7, <2>8, <2>9, <2>10, <2>11,
         <2>12, <2>13, <2>14, <2>15, <2>16, <2>17, <2>18, <2>19, <2>20, <2>21, <2>22,
         <2>23, <2>24, <2>25
  <1>86. f[1] = c1 /\ f[25] = c25
    BY ONLY <1>83
  <1>87. Laid(ts, c1, c25)
    <2>1. 24 + 1 = 25
      OBVIOUS
    <2> QED BY ONLY <1>82, <1>84, <1>85, <1>86, <2>1 DEF Laid, Chart
  <1> QED
    BY ONLY <1>81, <1>87, <1>7, <1>31 DEF ForTasks

----------------------------------------------------------------------------
(* Expressions: they leave one result.                                     *)

LEMMA LaidUnary ==
    ASSUME NEW p \in Places, ~p.ended, NEW n \in Nat, NEW w, Loose(w),
           NEW js \in Seq(Piles)
    PROVE  Laid(<<Expr, Emit(1, 1)>>,
                Layout(p, n, w, js), Layout(p, n + 1, "any", js))
  <1>1. Loose("any") /\ Loose(w)
    BY LooseWords
  <1>2. PICK n1 : n1 = n + 1
    OBVIOUS
  <1>3. PICK n2 : n2 = n1 + 1
    OBVIOUS
  <1>4. PICK n3 : n3 = n2 + 1
    OBVIOUS
  <1>5. /\ n1 \in Nat /\ n2 \in Nat /\ n3 \in Nat /\ n1 > 0 /\ 1 \in 0 .. n1 /\ 2 \in 0 .. n2
        /\ 3 \in 0 .. n3 /\ 0 \in Nat /\ 1 \in Nat
        /\ n1 = (n1 - 1) + 1 /\ n1 = (n2 - 2) + 1 /\ n1 = (n3 - 3) + 1 /\ n = (n1 - 1) + 0
    BY ONLY <1>2, <1>3, <1>4, n \in Nat
  <1>6. /\ Pile(p.vars, n1) \in Piles /\ Append(js, Pile(p.vars, n1)) \in Seq(Piles)
        /\ Append(Append(js, Pile(p.vars, n1)), Pile(p.vars, n1)) \in Seq(Piles)
    BY <1>5, PileIs
  <1>7. PICK c1 : c1 = Layout(p, n, w, js)
    OBVIOUS
  <1>8. PICK c2 : c2 = Layout(p, n1, "any", js)
    OBVIOUS
  <1>9. PICK c3 : c3 = Layout(p, n1, "any", js)
    OBVIOUS
  <1>10. /\ c1 \in Layouts
        /\ c2 \in Layouts
        /\ c3 \in Layouts
    BY <1>7, <1>8, <1>9, <1>5, <1>6, LayoutIs, LooseWords
  <1>11. Yields(Expr, Layout(p, n, w, js), Layout(p, n1, "any", js))
    <2>1. Yields(Expr, Layout(p, n, w, js), Layout(p, n + 1, "any", js))
      BY <1>1, <1>5, ExprYields
    <2> QED BY ONLY <2>1, <1>2
  <1>12. Yields(Emit(1, 1), Layout(p, n1, "any", js), Layout(p, n1, "any", js))
    BY ONLY <1>1, <1>5, EmitYields
  <1>13. Yields(Expr, c1, c2)
    BY ONLY <1>7, <1>8, <1>11
  <1>14. Yields(Emit(1, 1), c2, c3)
    BY ONLY <1>8, <1>9, <1>12
  <1>15. Laid(<<Expr, Emit(1, 1)>>, c1, c3)
    BY ONLY <1>10, <1>13, <1>14, Laid2
  <1> QED
    BY <1>15, <1>7, <1>9, <1>2

LEMMA LaidBinary ==
    ASSUME NEW p \in Places, ~p.ended, NEW n \in Nat, NEW w, Loose(w),
           NEW js \in Seq(Piles)
    PROVE  Laid(<<Expr, Expr, Emit(2, 1)>>,
                Layout(p, n, w, js), Layout(p, n + 1, "any", js))
  <1>1. Loose("any") /\ Loose(w)
    BY LooseWords
  <1>2. PICK n1 : n1 = n + 1
    OBVIOUS
  <1>3. PICK n2 : n2 = n1 + 1
    OBVIOUS
  <1>4. PICK n3 : n3 = n2 + 1
    OBVIOUS
  <1>5. /\ n1 \in Nat /\ n2 \in Nat /\ n3 \in Nat /\ n1 > 0 /\ 1 \in 0 .. n1 /\ 2 \in 0 .. n2
        /\ 3 \in 0 .. n3 /\ 0 \in Nat /\ 1 \in Nat
        /\ n1 = (n1 - 1) + 1 /\ n1 = (n2 - 2) + 1 /\ n1 = (n3 - 3) + 1 /\ n = (n1 - 1) + 0
    BY ONLY <1>2, <1>3, <1>4, n \in Nat
  <1>6. /\ Pile(p.vars, n1) \in Piles /\ Append(js, Pile(p.vars, n1)) \in Seq(Piles)
        /\ Append(Append(js, Pile(p.vars, n1)), Pile(p.vars, n1)) \in Seq(Piles)
    BY <1>5, PileIs
  <1>7. PICK c1 : c1 = Layout(p, n, w, js)
    OBVIOUS
  <1>8. PICK c2 : c2 = Layout(p, n1, "any", js)
    OBVIOUS
  <1>9. PICK c3 : c3 = Layout(p, n2, "any", js)
    OBVIOUS
  <1>10. PICK c4 : c4 = Layout(p, n1, "any", js)
    OBVIOUS
  <1>11. /\ c1 \in Layouts
        /\ c2 \in Layouts
        /\ c3 \in Layouts
        /\ c4 \in Layouts
    BY <1>7, <1>8, <1>9, <1>10, <1>5, <1>6, LayoutIs, LooseWords
  <1>12. Yields(Expr, Layout(p, n, w, js), Layout(p, n1, "any", js))
    <2>1. Yields(Expr, Layout(p, n, w, js), Layout(p, n + 1, "any", js))
      BY <1>1, <1>5, ExprYields
    <2> QED BY ONLY <2>1, <1>2
  <1>13. Yields(Expr, Layout(p, n1, "any", js), Layout(p, n2, "any", js))
    <2>1. Yields(Expr, Layout(p, n1, "any", js), Layout(p, n1 + 1, "any", js))
      BY <1>1, <1>5, ExprYields
    <2> QED BY ONLY <2>1, <1>3
  <1>14. Yields(Emit(2, 1), Layout(p, n2, "any", js), Layout(p, n1, "any", js))
    BY ONLY <1>1, <1>5, EmitYields
  <1>15. Yields(Expr, c1, c2)
    BY ONLY <1>7, <1>8, <1>12
  <1>16. Yields(Expr, c2, c3)
    BY ONLY <1>8, <1>9, <1>13
  <1>17. Yields(Emit(2, 1), c3, c4)
    BY ONLY <1>9, <1>10, <1>14
  <1>18. Laid(<<Expr, Expr, Emit(2, 1)>>, c1, c4)
    BY ONLY <1>11, <1>15, <1>16, <1>17, Laid3
  <1> QED
    BY <1>18, <1>7, <1>10, <1>2

LEMMA LaidTernary ==
    ASSUME NEW p \in Places, ~p.ended, NEW n \in Nat, NEW w, Loose(w),
           NEW js \in Seq(Piles)
    PROVE  Laid(<<Expr, Expr, Expr, Emit(3, 1)>>,
                Layout(p, n, w, js), Layout(p, n + 1, "any", js))
  <1>1. Loose("any") /\ Loose(w)
    BY LooseWords
  <1>2. PICK n1 : n1 = n + 1
    OBVIOUS
  <1>3. PICK n2 : n2 = n1 + 1
    OBVIOUS
  <1>4. PICK n3 : n3 = n2 + 1
    OBVIOUS
  <1>5. /\ n1 \in Nat /\ n2 \in Nat /\ n3 \in Nat /\ n1 > 0 /\ 1 \in 0 .. n1 /\ 2 \in 0 .. n2
        /\ 3 \in 0 .. n3 /\ 0 \in Nat /\ 1 \in Nat
        /\ n1 = (n1 - 1) + 1 /\ n1 = (n2 - 2) + 1 /\ n1 = (n3 - 3) + 1 /\ n = (n1 - 1) + 0
    BY ONLY <1>2, <1>3, <1>4, n \in Nat
  <1>6. /\ Pile(p.vars, n1) \in Piles /\ Append(js, Pile(p.vars, n1)) \in Seq(Piles)
        /\ Append(Append(js, Pile(p.vars, n1)), Pile(p.vars, n1)) \in Seq(Piles)
    BY <1>5, PileIs
  <1>7. PICK c1 : c1 = Layout(p, n, w, js)
    OBVIOUS
  <1>8. PICK c2 : c2 = Layout(p, n1, "any", js)
    OBVIOUS
  <1>9. PICK c3 : c3 = Layout(p, n2, "any", js)
    OBVIOUS
  <1>10. PICK c4 : c4 = Layout(p, n3, "any", js)
    OBVIOUS
  <1>11. PICK c5 : c5 = Layout(p, n1, "any", js)
    OBVIOUS
  <1>12. /\ c1 \in Layouts
        /\ c2 \in Layouts
        /\ c3 \in Layouts
        /\ c4 \in Layouts
        /\ c5 \in Layouts
    BY <1>7, <1>8, <1>9, <1>10, <1>11, <1>5, <1>6, LayoutIs, LooseWords
  <1>13. Yields(Expr, Layout(p, n, w, js), Layout(p, n1, "any", js))
    <2>1. Yields(Expr, Layout(p, n, w, js), Layout(p, n + 1, "any", js))
      BY <1>1, <1>5, ExprYields
    <2> QED BY ONLY <2>1, <1>2
  <1>14. Yields(Expr, Layout(p, n1, "any", js), Layout(p, n2, "any", js))
    <2>1. Yields(Expr, Layout(p, n1, "any", js), Layout(p, n1 + 1, "any", js))
      BY <1>1, <1>5, ExprYields
    <2> QED BY ONLY <2>1, <1>3
  <1>15. Yields(Expr, Layout(p, n2, "any", js), Layout(p, n3, "any", js))
    <2>1. Yields(Expr, Layout(p, n2, "any", js), Layout(p, n2 + 1, "any", js))
      BY <1>1, <1>5, ExprYields
    <2> QED BY ONLY <2>1, <1>4
  <1>16. Yields(Emit(3, 1), Layout(p, n3, "any", js), Layout(p, n1, "any", js))
    BY ONLY <1>1, <1>5, EmitYields
  <1>17. Yields(Expr, c1, c2)
    BY ONLY <1>7, <1>8, <1>13
  <1>18. Yields(Expr, c2, c3)
    BY ONLY <1>8, <1>9, <1>14
  <1>19. Yields(Expr, c3, c4)
    BY ONLY <1>9, <1>10, <1>15
  <1>20. Yields(Emit(3, 1), c4, c5)
    BY ONLY <1>10, <1>11, <1>16
  <1>21. Laid(<<Expr, Expr, Expr, Emit(3, 1)>>, c1, c5)
    BY ONLY <1>12, <1>17, <1>18, <1>19, <1>20, Laid4
  <1> QED
    BY <1>21, <1>7, <1>11, <1>2

LEMMA LaidAnd ==
    ASSUME NEW p \in Places, ~p.ended, NEW n \in Nat, NEW w, Loose(w),
           NEW js \in Seq(Piles)
    PROVE  Laid(<<Expr, JumpIfFalse, Pop, Expr, Patch(1)>>,
                Layout(p, n, w, js), Layout(p, n + 1, "any", js))
  <1>1. Loose("any") /\ Loose(w)
    BY LooseWords
  <1>2. PICK n1 : n1 = n + 1
    OBVIOUS
  <1>3. PICK n2 : n2 = n1 + 1
    OBVIOUS
  <1>4. PICK n3 : n3 = n2 + 1
    OBVIOUS
  <1>5. /\ n1 \in Nat /\ n2 \in Nat /\ n3 \in Nat /\ n1 > 0 /\ 1 \in 0 .. n1 /\ 2 \in 0 .. n2
        /\ 3 \in 0 .. n3 /\ 0 \in Nat /\ 1 \in Nat
        /\ n1 = (n1 - 1) + 1 /\ n1 = (n2 - 2) + 1 /\ n1 = (n3 - 3) + 1 /\ n = (n1 - 1) + 0
    BY ONLY <1>2, <1>3, <1>4, n \in Nat
  <1>6. /\ Pile(p.vars, n1) \in Piles /\ Append(js, Pile(p.vars, n1)) \in Seq(Piles)
        /\ Append(Append(js, Pile(p.vars, n1)), Pile(p.vars, n1)) \in Seq(Piles)
    BY <1>5, PileIs
  <1>7. PICK c1 : c1 = Layout(p, n, w, js)
    OBVIOUS
  <1>8. PICK c2 : c2 = Layout(p, n1, "any", js)
    OBVIOUS
  <1>9. PICK c3 : c3 = Layout(p, n1, "any", Append(js, Pile(p.vars, n1)))
    OBVIOUS
  <1>10. PICK c4 : c4 = Layout(p, n, "any", Append(js, Pile(p.vars, n1)))
    OBVIOUS
  <1>11. PICK c5 : c5 = Layout(p, n1, "any", Append(js, Pile(p.vars, n1)))
    OBVIOUS
  <1>12. PICK c6 : c6 = Layout(p, n1, "any", js)
    OBVIOUS
  <1>13. /\ c1 \in Layouts
        /\ c2 \in Layouts
        /\ c3 \in Layouts
        /\ c4 \in Layouts
        /\ c5 \in Layouts
        /\ c6 \in Layouts
    BY <1>7, <1>8, <1>9, <1>10, <1>11, <1>12, <1>5, <1>6, LayoutIs, LooseWords
  <1>14. Yields(Expr, Layout(p, n, w, js), Layout(p, n1, "any", js))
    <2>1. Yields(Expr, Layout(p, n, w, js), Layout(p, n + 1, "any", js))
      BY <1>1, <1>5, ExprYields
    <2> QED BY ONLY <2>1, <1>2
  <1>15. Yields(JumpIfFalse, Layout(p, n1, "any", js), Layout(p, n1, "any", Append(js, Pile(p.vars, n1))))
    BY <1>1, <1>5, JumpIfFalseYields
  <1>16. Yields(Pop, Layout(p, n1, "any", Append(js, Pile(p.vars, n1))), Layout(p, n, "any", Append(js, Pile(p.vars, n1))))
    BY ONLY <1>1, <1>5, EmitYields DEF Pop
  <1>17. Yields(Expr, Layout(p, n, "any", Append(js, Pile(p.vars, n1))), Layout(p, n1, "any", Append(js, Pile(p.vars, n1))))
    <2>1. Yields(Expr, Layout(p, n, "any", Append(js, Pile(p.vars, n1))), Layout(p, n + 1, "any", Append(js, Pile(p.vars, n1))))
      BY <1>1, <1>5, ExprYields
    <2> QED BY ONLY <2>1, <1>2
  <1>18. Yields(Patch(1), Layout(p, n1, "any", Append(js, Pile(p.vars, n1))), Layout(p, n1, "any", js))
    BY <1>1, <1>5, PatchYields
  <1>19. Yields(Expr, c1, c2)
    BY ONLY <1>7, <1>8, <1>14
  <1>20. Yields(JumpIfFalse, c2, c3)
    BY ONLY <1>8, <1>9, <1>15
  <1>21. Yields(Pop, c3, c4)
    BY ONLY <1>9, <1>10, <1>16
  <1>22. Yields(Expr, c4, c5)
    BY ONLY <1>10, <1>11, <1>17
  <1>23. Yields(Patch(1), c5, c6)
    BY ONLY <1>11, <1>12, <1>18
  <1>24. Laid(<<Expr, JumpIfFalse, Pop, Expr, Patch(1)>>, c1, c6)
    BY ONLY <1>13, <1>19, <1>20, <1>21, <1>22, <1>23, Laid5
  <1> QED
    BY <1>24, <1>7, <1>12, <1>2

LEMMA LaidOr ==
    ASSUME NEW p \in Places, ~p.ended, NEW n \in Nat, NEW w, Loose(w),
           NEW js \in Seq(Piles)
    PROVE  Laid(<<Expr, JumpIfFalse, JumpAway, Patch(2), Pop, Expr, Patch(1)>>,
                Layout(p, n, w, js), Layout(p, n + 1, "any", js))
  <1>1. Loose("any") /\ Loose(w)
    BY LooseWords
  <1>2. PICK n1 : n1 = n + 1
    OBVIOUS
  <1>3. PICK n2 : n2 = n1 + 1
    OBVIOUS
  <1>4. PICK n3 : n3 = n2 + 1
    OBVIOUS
  <1>5. /\ n1 \in Nat /\ n2 \in Nat /\ n3 \in Nat /\ n1 > 0 /\ 1 \in 0 .. n1 /\ 2 \in 0 .. n2
        /\ 3 \in 0 .. n3 /\ 0 \in Nat /\ 1 \in Nat
        /\ n1 = (n1 - 1) + 1 /\ n1 = (n2 - 2) + 1 /\ n1 = (n3 - 3) + 1 /\ n = (n1 - 1) + 0
    BY ONLY <1>2, <1>3, <1>4, n \in Nat
  <1>6. /\ Pile(p.vars, n1) \in Piles /\ Append(js, Pile(p.vars, n1)) \in Seq(Piles)
        /\ Append(Append(js, Pile(p.vars, n1)), Pile(p.vars, n1)) \in Seq(Piles)
    BY <1>5, PileIs
  <1>7. PICK c1 : c1 = Layout(p, n, w, js)
    OBVIOUS
  <1>8. PICK c2 : c2 = Layout(p, n1, "any", js)
    OBVIOUS
  <1>9. PICK c3 : c3 = Layout(p, n1, "any", Append(js, Pile(p.vars, n1)))
    OBVIOUS
  <1>10. PICK c4 : c4 = Layout(p, n1, "any", Append(Append(js, Pile(p.vars, n1)), Pile(p.vars, n1)))
    OBVIOUS
  <1>11. PICK c5 : c5 = Layout(p, n1, "any", Append(js, Pile(p.vars, n1)))
    OBVIOUS
  <1>12. PICK c6 : c6 = Layout(p, n, "any", Append(js, Pile(p.vars, n1)))
    OBVIOUS
  <1>13. PICK c7 : c7 = Layout(p, n1, "any", Append(js, Pile(p.vars, n1)))
    OBVIOUS
  <1>14. PICK c8 : c8 = Layout(p, n1, "any", js)
    OBVIOUS
  <1>15. /\ c1 \in Layouts
        /\ c2 \in Layouts
        /\ c3 \in Layouts
        /\ c4 \in Layouts
        /\ c5 \in Layouts
        /\ c6 \in Layouts
        /\ c7 \in Layouts
        /\ c8 \in Layouts
    BY <1>7, <1>8, <1>9, <1>10, <1>11, <1>12, <1>13, <1>14, <1>5, <1>6, LayoutIs, LooseWords
  <1>16. Yields(Expr, Layout(p, n, w, js), Layout(p, n1, "any", js))
    <2>1. Yields(Expr, Layout(p, n, w, js), Layout(p, n + 1, "any", js))
      BY <1>1, <1>5, ExprYields
    <2> QED BY ONLY <2>1, <1>2
  <1>17. Yields(JumpIfFalse, Layout(p, n1, "any", js), Layout(p, n1, "any", Append(js, Pile(p.vars, n1))))
    BY <1>1, <1>5, JumpIfFalseYields
  <1>18. Yields(JumpAway, Layout(p, n1, "any", Append(js, Pile(p.vars, n1))), Layout(p, n1, "any", Append(Append(js, Pile(p.vars, n1)), Pile(p.vars, n1))))
    BY <1>1, <1>5, JumpYields
  <1>19. Yields(Patch(2), Layout(p, n1, "any", Append(Append(js, Pile(p.vars, n1)), Pile(p.vars, n1))), Layout(p, n1, "any", Append(js, Pile(p.vars, n1))))
    BY <1>1, <1>5, <1>6, PatchSecondYields
  <1>20. Yields(Pop, Layout(p, n1, "any", Append(js, Pile(p.vars, n1))), Layout(p, n, "any", Append(js, Pile(p.vars, n1))))
    BY ONLY <1>1, <1>5, EmitYields DEF Pop
  <1>21. Yields(Expr, Layout(p, n, "any", Append(js, Pile(p.vars, n1))), Layout(p, n1, "any", Append(js, Pile(p.vars, n1))))
    <2>1. Yields(Expr, Layout(p, n, "any", Append(js, Pile(p.vars, n1))), Layout(p, n + 1, "any", Append(js, Pile(p.vars, n1))))
      BY <1>1, <1>5, ExprYields
    <2> QED BY ONLY <2>1, <1>2
  <1>22. Yields(Patch(1), Layout(p, n1, "any", Append(js, Pile(p.vars, n1))), Layout(p, n1, "any", js))
    BY <1>1, <1>5, PatchYields
  <1>23. Yields(Expr, c1, c2)
    BY ONLY <1>7, <1>8, <1>16
  <1>24. Yields(JumpIfFalse, c2, c3)
    BY ONLY <1>8, <1>9, <1>17
  <1>25. Yields(JumpAway, c3, c4)
    BY ONLY <1>9, <1>10, <1>18
  <1>26. Yields(Patch(2), c4, c5)
    BY ONLY <1>10, <1>11, <1>19
  <1>27. Yields(Pop, c5, c6)
    BY ONLY <1>11, <1>12, <1>20
  <1>28. Yields(Expr, c6, c7)
    BY ONLY <1>12, <1>13, <1>21
  <1>29. Yields(Patch(1), c7, c8)
    BY ONLY <1>13, <1>14, <1>22
  <1>30. Laid(<<Expr, JumpIfFalse, JumpAway, Patch(2), Pop, Expr, Patch(1)>>, c1, c8)
    BY ONLY <1>15, <1>23, <1>24, <1>25, <1>26, <1>27, <1>28, <1>29, Laid7
  <1> QED
    BY <1>30, <1>7, <1>14, <1>2

LEMMA LaidAssign ==
    ASSUME NEW p \in Places, ~p.ended, NEW n \in Nat, NEW w, Loose(w),
           NEW js \in Seq(Piles), NEW name
    PROVE  Laid(<<Expr, [do |-> "assign", name |-> name]>>,
                Layout(p, n, w, js), Layout(p, n + 1, "any", js))
  <1>1. Loose("any") /\ Loose(w)
    BY LooseWords
  <1>2. PICK n1 : n1 = n + 1
    OBVIOUS
  <1>3. PICK n2 : n2 = n1 + 1
    OBVIOUS
  <1>4. PICK n3 : n3 = n2 + 1
    OBVIOUS
  <1>5. /\ n1 \in Nat /\ n2 \in Nat /\ n3 \in Nat /\ n1 > 0 /\ 1 \in 0 .. n1 /\ 2 \in 0 .. n2
        /\ 3 \in 0 .. n3 /\ 0 \in Nat /\ 1 \in Nat
        /\ n1 = (n1 - 1) + 1 /\ n1 = (n2 - 2) + 1 /\ n1 = (n3 - 3) + 1 /\ n = (n1 - 1) + 0
    BY ONLY <1>2, <1>3, <1>4, n \in Nat
  <1>6. /\ Pile(p.vars, n1) \in Piles /\ Append(js, Pile(p.vars, n1)) \in Seq(Piles)
        /\ Append(Append(js, Pile(p.vars, n1)), Pile(p.vars, n1)) \in Seq(Piles)
    BY <1>5, PileIs
  <1>7. PICK c1 : c1 = Layout(p, n, w, js)
    OBVIOUS
  <1>8. PICK c2 : c2 = Layout(p, n1, "any", js)
    OBVIOUS
  <1>9. PICK c3 : c3 = Layout(p, n1, "any", js)
    OBVIOUS
  <1>10. /\ c1 \in Layouts
        /\ c2 \in Layouts
        /\ c3 \in Layouts
    BY <1>7, <1>8, <1>9, <1>5, <1>6, LayoutIs, LooseWords
  <1>11. Yields(Expr, Layout(p, n, w, js), Layout(p, n1, "any", js))
    <2>1. Yields(Expr, Layout(p, n, w, js), Layout(p, n + 1, "any", js))
      BY <1>1, <1>5, ExprYields
    <2> QED BY ONLY <2>1, <1>2
  <1>12. Yields([do |-> "assign", name |-> name], Layout(p, n1, "any", js), Layout(p, n1, "any", js))
    BY <1>1, <1>5, AssignYields
  <1>13. Yields(Expr, c1, c2)
    BY ONLY <1>7, <1>8, <1>11
  <1>14. Yields([do |-> "assign", name |-> name], c2, c3)
    BY ONLY <1>8, <1>9, <1>12
  <1>15. Laid(<<Expr, [do |-> "assign", name |-> name]>>, c1, c3)
    BY ONLY <1>10, <1>13, <1>14, Laid2
  <1> QED
    BY <1>15, <1>7, <1>9, <1>2

(* A match with nothing but a wildcard.                                    *)
LEMMA LaidWildcard ==
    ASSUME NEW p \in Places, ~p.ended, NEW n \in Nat, NEW w, Loose(w),
           NEW js \in Seq(Piles)
    PROVE  Laid(<<Expr, Pop, Expr>>,
                Layout(p, n, w, js), Layout(p, n + 1, "any", js))
  <1>1. Loose("any") /\ Loose(w)
    BY LooseWords
  <1>2. PICK n1 : n1 = n + 1
    OBVIOUS
  <1>3. PICK n2 : n2 = n1 + 1
    OBVIOUS
  <1>4. PICK n3 : n3 = n2 + 1
    OBVIOUS
  <1>5. /\ n1 \in Nat /\ n2 \in Nat /\ n3 \in Nat /\ n1 > 0 /\ 1 \in 0 .. n1 /\ 2 \in 0 .. n2
        /\ 3 \in 0 .. n3 /\ 0 \in Nat /\ 1 \in Nat
        /\ n1 = (n1 - 1) + 1 /\ n1 = (n2 - 2) + 1 /\ n1 = (n3 - 3) + 1 /\ n = (n1 - 1) + 0
    BY ONLY <1>2, <1>3, <1>4, n \in Nat
  <1>6. /\ Pile(p.vars, n1) \in Piles /\ Append(js, Pile(p.vars, n1)) \in Seq(Piles)
        /\ Append(Append(js, Pile(p.vars, n1)), Pile(p.vars, n1)) \in Seq(Piles)
    BY <1>5, PileIs
  <1>7. PICK c1 : c1 = Layout(p, n, w, js)
    OBVIOUS
  <1>8. PICK c2 : c2 = Layout(p, n1, "any", js)
    OBVIOUS
  <1>9. PICK c3 : c3 = Layout(p, n, "any", js)
    OBVIOUS
  <1>10. PICK c4 : c4 = Layout(p, n1, "any", js)
    OBVIOUS
  <1>11. /\ c1 \in Layouts
        /\ c2 \in Layouts
        /\ c3 \in Layouts
        /\ c4 \in Layouts
    BY <1>7, <1>8, <1>9, <1>10, <1>5, <1>6, LayoutIs, LooseWords
  <1>12. Yields(Expr, Layout(p, n, w, js), Layout(p, n1, "any", js))
    <2>1. Yields(Expr, Layout(p, n, w, js), Layout(p, n + 1, "any", js))
      BY <1>1, <1>5, ExprYields
    <2> QED BY ONLY <2>1, <1>2
  <1>13. Yields(Pop, Layout(p, n1, "any", js), Layout(p, n, "any", js))
    BY ONLY <1>1, <1>5, EmitYields DEF Pop
  <1>14. Yields(Expr, Layout(p, n, "any", js), Layout(p, n1, "any", js))
    <2>1. Yields(Expr, Layout(p, n, "any", js), Layout(p, n + 1, "any", js))
      BY <1>1, <1>5, ExprYields
    <2> QED BY ONLY <2>1, <1>2
  <1>15. Yields(Expr, c1, c2)
    BY ONLY <1>7, <1>8, <1>12
  <1>16. Yields(Pop, c2, c3)
    BY ONLY <1>8, <1>9, <1>13
  <1>17. Yields(Expr, c3, c4)
    BY ONLY <1>9, <1>10, <1>14
  <1>18. Laid(<<Expr, Pop, Expr>>, c1, c4)
    BY ONLY <1>11, <1>15, <1>16, <1>17, Laid3
  <1> QED
    BY <1>18, <1>7, <1>10, <1>2

(* The same task again and again, with one result each time.               *)
LEMMA LaidRepeat ==
    ASSUME NEW p \in Places, NEW n \in Nat, NEW w, Loose(w), NEW js \in Seq(Piles),
           NEW t, NEW k \in Nat, NEW ts, ts = [i \in 1 .. k |-> t],
           \A m \in Nat : \A v : Loose(v) => Yields(t, Layout(p, m, v, js),
                                                   Layout(p, m + 1, "any", js))
    PROVE  \E v : Loose(v) /\ Laid(ts, Layout(p, n, w, js), Layout(p, n + k, v, js))
  <1>1. IsSequence(ts) /\ Len(ts) = k /\ \A i \in 1 .. k : ts[i] = t
    <2>1. ts \in Seq({t}) /\ Len(ts) = k /\ \A i \in 1 .. k : ts[i] = t
      OBVIOUS
    <2> QED BY <2>1 DEF IsSequence
  <1>2. PICK v : v = [i \in 1 .. k + 1 |-> IF i = 1 THEN w ELSE "any"]
    OBVIOUS
  <1>3. \A i \in 1 .. k + 1 : Loose(v[i]) /\ v[i] \in Words /\ (i # 1 => v[i] = "any")
    BY <1>2, LooseWords
  <1>4. PICK f : f = [i \in 1 .. k + 1 |-> Layout(p, n + (i - 1), v[i], js)]
    OBVIOUS
  <1>5. \A i \in 1 .. k + 1 : n + (i - 1) \in Nat /\ f[i] = Layout(p, n + (i - 1), v[i], js)
    BY <1>4
  <1>6. \A i \in 1 .. k + 1 : f[i] \in Layouts
    <2> TAKE i \in 1 .. k + 1
    <2>1. PICK m \in Nat : m = n + (i - 1)
      BY <1>5
    <2>2. Layout(p, m, v[i], js) \in Layouts
      BY <1>3, LayoutIs
    <2> QED BY ONLY <1>5, <2>1, <2>2, i \in 1 .. k + 1
  <1>7. f \in [1 .. k + 1 -> Layouts]
    BY ONLY <1>4, <1>6
  <1>8. \A i \in 1 .. k : Yields(ts[i], f[i], f[i + 1])
    <2> TAKE i \in 1 .. k
    <2>1. i \in 1 .. k + 1 /\ i + 1 \in 1 .. k + 1 /\ i + 1 # 1
          /\ n + ((i + 1) - 1) = (n + (i - 1)) + 1
      OBVIOUS
    <2>2. PICK m \in Nat : m = n + (i - 1)
      BY <1>5, <2>1
    <2>3. f[i] = Layout(p, m, v[i], js) /\ Loose(v[i]) /\ v[i + 1] = "any"
      BY ONLY <1>3, <1>5, <2>1, <2>2
    <2>4. f[i + 1] = Layout(p, m + 1, "any", js)
      <3>1. f[i + 1] = Layout(p, n + ((i + 1) - 1), v[i + 1], js)
        BY ONLY <1>5, <2>1
      <3>2. n + ((i + 1) - 1) = m + 1
        BY ONLY <2>1, <2>2
      <3> QED BY ONLY <2>3, <3>1, <3>2
    <2>5. Yields(t, Layout(p, m, v[i], js), Layout(p, m + 1, "any", js))
      BY <2>3
    <2> QED BY ONLY <1>1, <2>3, <2>4, <2>5, i \in 1 .. k
  <1>9. f[1] = Layout(p, n, w, js) /\ f[k + 1] = Layout(p, n + k, v[k + 1], js)
    <2>1. 1 \in 1 .. k + 1 /\ k + 1 \in 1 .. k + 1 /\ n + (1 - 1) = n /\ n + ((k + 1) - 1) = n + k
      OBVIOUS
    <2>2. f[1] = Layout(p, n + (1 - 1), v[1], js) /\ v[1] = w
          /\ f[k + 1] = Layout(p, n + ((k + 1) - 1), v[k + 1], js)
      BY ONLY <1>2, <1>5, <2>1
    <2> QED BY ONLY <2>1, <2>2
  <1>10. Laid(ts, Layout(p, n, w, js), Layout(p, n + k, v[k + 1], js))
    BY <1>1, <1>7, <1>8, <1>9 DEF Laid, Chart
  <1>11. Loose(v[k + 1])
    BY <1>3
  <1> QED
    BY <1>10, <1>11

LEMMA LaidExprs ==
    ASSUME NEW p \in Places, ~p.ended, NEW n \in Nat, NEW w, Loose(w), NEW js \in Seq(Piles),
           NEW k \in Nat
    PROVE  \E v : Loose(v) /\ Laid(Exprs(k), Layout(p, n, w, js), Layout(p, n + k, v, js))
  <1>1. Exprs(k) = [i \in 1 .. k |-> Expr]
    BY DEF Exprs
  <1>2. \A m \in Nat : \A v : Loose(v) => Yields(Expr, Layout(p, m, v, js), Layout(p, m + 1, "any", js))
    BY ExprYields
  <1>3. PICK ts : ts = Exprs(k)
    OBVIOUS
  <1>4. PICK t : t = Expr
    OBVIOUS
  <1>5. \E v : Loose(v) /\ Laid(ts, Layout(p, n, w, js), Layout(p, n + k, v, js))
    BY <1>1, <1>2, <1>3, <1>4, LaidRepeat
  <1> QED
    BY <1>3, <1>5

LEMMA LaidLoads ==
    ASSUME NEW p \in Places, NEW n \in Nat, NEW w, Loose(w), NEW js \in Seq(Piles), NEW k \in Nat
    PROVE  \E v : Loose(v) /\ Laid([i \in 1 .. k |-> Load], Layout(p, n, w, js),
                                  Layout(p, n + k, v, js))
  <1>1. PICK t : t = Load
    OBVIOUS
  <1>2. ASSUME NEW m \in Nat, NEW v, Loose(v)
        PROVE  Yields(t, Layout(p, m, v, js), Layout(p, m + 1, "any", js))
    <2>1. PICK x : x = m + 1
      OBVIOUS
    <2>2. 0 \in 0 .. m /\ 1 \in Nat /\ x = (m - 0) + 1
      BY <2>1
    <2>3. Yields(t, Layout(p, m, v, js), Layout(p, x, "any", js))
      BY ONLY <1>1, <1>2, <2>2, EmitYields, m \in Nat DEF Load
    <2> QED BY <2>1, <2>3
  <1>3. PICK ts : ts = [i \in 1 .. k |-> t]
    OBVIOUS
  <1>4. \E v : Loose(v) /\ Laid(ts, Layout(p, n, w, js), Layout(p, n + k, v, js))
    BY <1>2, <1>3, LaidRepeat
  <1> QED
    BY <1>1, <1>3, <1>4

(* One instruction after a list.                                           *)
LEMMA LaidEmit ==
    ASSUME NEW p \in Places, NEW n \in Nat, NEW w, Loose(w), NEW js \in Seq(Piles),
           NEW k \in 0 .. n, NEW m \in Nat, NEW x, x = (n - k) + m
    PROVE  Laid(<<Emit(k, m)>>, Layout(p, n, w, js), Layout(p, x, "any", js))
  <1>1. x \in Nat
    OBVIOUS
  <1>2. PICK c : c = Layout(p, n, w, js)
    OBVIOUS
  <1>3. PICK d : d = Layout(p, x, "any", js)
    OBVIOUS
  <1>4. c \in Layouts /\ d \in Layouts
    BY <1>1, <1>2, <1>3, LayoutIs, LooseWords
  <1>5. Yields(Emit(k, m), c, d)
    BY <1>2, <1>3, EmitYields
  <1> QED
    BY <1>2, <1>3, <1>4, <1>5, Laid1


----------------------------------------------------------------------------
(* Expressions with lists of operands.                                     *)

LEMMA LaidPrint ==
    ASSUME NEW p \in Places, ~p.ended, NEW n \in Nat, NEW w, Loose(w), NEW js \in Seq(Piles),
           NEW k \in Nat
    PROVE  Laid(Exprs(k) \o <<PrintValues(k), Load>>,
                Layout(p, n, w, js), Layout(p, n + 1, "any", js))
  <1>1. PICK v : Loose(v) /\ Laid(Exprs(k), Layout(p, n, w, js), Layout(p, n + k, v, js))
    BY LaidExprs
  <1>2. PICK m \in Nat : m = n + k
    OBVIOUS
  <1>3. PICK x \in Nat : x = n + 1
    OBVIOUS
  <1>4. k \in 0 .. m /\ 0 \in Nat /\ n = (m - k) + 0 /\ 0 \in 0 .. n /\ 1 \in Nat /\ x = (n - 0) + 1
    BY <1>2, <1>3
  <1>5. PICK a : a = Layout(p, m, v, js)
    OBVIOUS
  <1>6. PICK b : b = Layout(p, n, "any", js)
    OBVIOUS
  <1>7. PICK c : c = Layout(p, x, "any", js)
    OBVIOUS
  <1>8. a \in Layouts /\ b \in Layouts /\ c \in Layouts
    BY <1>1, <1>5, <1>6, <1>7, LayoutIs, LooseWords
  <1>9. Yields(Emit(k, 0), a, b)
    BY <1>1, <1>4, <1>5, <1>6, EmitYields
  <1>10. Yields(Emit(0, 1), b, c)
    BY <1>4, <1>6, <1>7, EmitYields, LooseWords
  <1>11. Laid(<<PrintValues(k), Load>>, a, c)
    BY <1>8, <1>9, <1>10, Laid2 DEF PrintValues, Load
  <1>12. Laid(Exprs(k), Layout(p, n, w, js), a)
    BY <1>1, <1>2, <1>5
  <1>13. Laid(Exprs(k) \o <<PrintValues(k), Load>>, Layout(p, n, w, js), c)
    BY <1>11, <1>12, LaidConcat
  <1> QED
    BY <1>3, <1>7, <1>13

LEMMA LaidArray ==
    ASSUME NEW p \in Places, ~p.ended, NEW n \in Nat, NEW w, Loose(w), NEW js \in Seq(Piles),
           NEW k \in Nat
    PROVE  Laid(Exprs(k) \o <<MakeArray(k)>>,
                Layout(p, n, w, js), Layout(p, n + 1, "any", js))
  <1>1. PICK v : Loose(v) /\ Laid(Exprs(k), Layout(p, n, w, js), Layout(p, n + k, v, js))
    BY LaidExprs
  <1>2. PICK m \in Nat : m = n + k
    OBVIOUS
  <1>3. PICK x \in Nat : x = n + 1
    OBVIOUS
  <1>4. k \in 0 .. m /\ 1 \in Nat /\ x = (m - k) + 1
    BY <1>2, <1>3
  <1>5. Laid(<<Emit(k, 1)>>, Layout(p, m, v, js), Layout(p, x, "any", js))
    BY <1>1, <1>4, LaidEmit
  <1>6. Laid(Exprs(k) \o <<MakeArray(k)>>, Layout(p, n, w, js), Layout(p, x, "any", js))
    BY <1>1, <1>2, <1>5, LaidConcat DEF MakeArray
  <1> QED
    BY <1>3, <1>6

LEMMA LaidCall ==
    ASSUME NEW p \in Places, ~p.ended, NEW n \in Nat, NEW w, Loose(w), NEW js \in Seq(Piles),
           NEW k \in Nat
    PROVE  Laid(<<Expr>> \o Exprs(k) \o <<Call(k)>>,
                Layout(p, n, w, js), Layout(p, n + 1, "any", js))
  <1>1. PICK x \in Nat : x = n + 1
    OBVIOUS
  <1>2. Laid(<<Expr>>, Layout(p, n, w, js), Layout(p, x, "any", js))
    <2>1. Layout(p, n, w, js) \in Layouts /\ Layout(p, x, "any", js) \in Layouts
      BY LayoutIs, LooseWords
    <2>2. Yields(Expr, Layout(p, n, w, js), Layout(p, x, "any", js))
      BY <1>1, ExprYields
    <2> QED BY <2>1, <2>2, Laid1
  <1>3. PICK v : Loose(v) /\ Laid(Exprs(k), Layout(p, x, "any", js), Layout(p, x + k, v, js))
    BY LaidExprs, LooseWords
  <1>4. PICK m \in Nat : m = x + k
    OBVIOUS
  <1>5. PICK j \in Nat : j = k + 1
    OBVIOUS
  <1>6. j \in 0 .. m /\ 1 \in Nat /\ x = (m - j) + 1
    BY <1>1, <1>4, <1>5
  <1>7. Laid(<<Emit(j, 1)>>, Layout(p, m, v, js), Layout(p, x, "any", js))
    BY <1>3, <1>6, LaidEmit
  <1>8. Call(k) = Emit(j, 1)
    BY <1>5 DEF Call
  <1>9. Laid(<<Expr>> \o Exprs(k), Layout(p, n, w, js), Layout(p, m, v, js))
    BY <1>2, <1>3, <1>4, LaidConcat
  <1>10. Laid(<<Expr>> \o Exprs(k) \o <<Call(k)>>, Layout(p, n, w, js), Layout(p, x, "any", js))
    BY <1>7, <1>8, <1>9, LaidConcat
  <1> QED
    BY <1>1, <1>10

LEMMA LaidNew ==
    ASSUME NEW p \in Places, ~p.ended, NEW n \in Nat, NEW w, Loose(w), NEW js \in Seq(Piles),
           NEW k \in Nat
    PROVE  Laid(Exprs(k) \o [i \in 1 .. k |-> Load] \o <<NewStruct(k)>>,
                Layout(p, n, w, js), Layout(p, n + 1, "any", js))
  <1>1. PICK v : Loose(v) /\ Laid(Exprs(k), Layout(p, n, w, js), Layout(p, n + k, v, js))
    BY LaidExprs
  <1>2. PICK m \in Nat : m = n + k
    OBVIOUS
  <1>3. PICK u : Loose(u) /\ Laid([i \in 1 .. k |-> Load], Layout(p, m, v, js), Layout(p, m + k, u, js))
    BY <1>1, LaidLoads
  <1>4. PICK o \in Nat : o = m + k
    OBVIOUS
  <1>5. PICK x \in Nat : x = n + 1
    OBVIOUS
  <1>6. PICK j \in Nat : j = 2 * k
    OBVIOUS
  <1>7. j \in 0 .. o /\ 1 \in Nat /\ x = (o - j) + 1
    BY <1>2, <1>4, <1>5, <1>6
  <1>8. Laid(<<Emit(j, 1)>>, Layout(p, o, u, js), Layout(p, x, "any", js))
    BY <1>3, <1>7, LaidEmit
  <1>9. NewStruct(k) = Emit(j, 1)
    BY <1>6 DEF NewStruct
  <1>10. Laid(Exprs(k) \o [i \in 1 .. k |-> Load], Layout(p, n, w, js), Layout(p, o, u, js))
    BY <1>1, <1>2, <1>3, <1>4, LaidConcat
  <1>11. Laid(Exprs(k) \o [i \in 1 .. k |-> Load] \o <<NewStruct(k)>>, Layout(p, n, w, js),
              Layout(p, x, "any", js))
    BY <1>8, <1>9, <1>10, LaidConcat
  <1> QED
    BY <1>5, <1>11

----------------------------------------------------------------------------
(* A match with patterns: every arm leaves a jump to the end.              *)
LEMMA LaidArm ==
    ASSUME NEW q \in Places, ~q.ended, q.next = <<>>,
           \E i \in 1 .. Len(q.vars) : q.vars[i][1] = "$match", NEW w, Loose(w),
           NEW ks \in Seq(Piles)
    PROVE  Laid(Arm,
                Layout(q, 0, w, ks), Layout(q, 0, "any", Append(ks, Pile(q.vars, 1))))
  <1>1. Loose("any") /\ Loose(w)
    BY LooseWords
  <1>2. 0 \in Nat /\ 1 \in Nat /\ 2 \in Nat /\ 1 > 0 /\ 2 \in 0 .. 2 /\ 1 = (2 - 2) + 1
        /\ 1 \in 0 .. 1 /\ 0 = (1 - 1) + 0 /\ 0 + 1 = 1 /\ 1 + 1 = 2
    OBVIOUS
  <1>3. /\ Pile(q.vars, 1) \in Piles /\ Append(ks, Pile(q.vars, 1)) \in Seq(Piles)
        /\ Append(Append(ks, Pile(q.vars, 1)), Pile(q.vars, 1)) \in Seq(Piles)
    BY PileIs
  <1>4. PICK c1 : c1 = Layout(q, 0, w, ks)
    OBVIOUS
  <1>5. PICK c2 : c2 = Layout(q, 1, "any", ks)
    OBVIOUS
  <1>6. PICK c3 : c3 = Layout(q, 2, "any", ks)
    OBVIOUS
  <1>7. PICK c4 : c4 = Layout(q, 1, "any", ks)
    OBVIOUS
  <1>8. PICK c5 : c5 = Layout(q, 1, "any", Append(ks, Pile(q.vars, 1)))
    OBVIOUS
  <1>9. PICK c6 : c6 = Layout(q, 0, "any", Append(ks, Pile(q.vars, 1)))
    OBVIOUS
  <1>10. PICK c7 : c7 = Layout(q, 1, "any", Append(ks, Pile(q.vars, 1)))
    OBVIOUS
  <1>11. PICK c8 : c8 = Layout(q, 1, "any", Append(Append(ks, Pile(q.vars, 1)), Pile(q.vars, 1)))
    OBVIOUS
  <1>12. PICK c9 : c9 = Layout(q, 1, "any", Append(ks, Pile(q.vars, 1)))
    OBVIOUS
  <1>13. PICK c10 : c10 = Layout(q, 0, "any", Append(ks, Pile(q.vars, 1)))
    OBVIOUS
  <1>14. /\ c1 \in Layouts
        /\ c2 \in Layouts
        /\ c3 \in Layouts
        /\ c4 \in Layouts
        /\ c5 \in Layouts
        /\ c6 \in Layouts
        /\ c7 \in Layouts
        /\ c8 \in Layouts
        /\ c9 \in Layouts
        /\ c10 \in Layouts
    BY <1>4, <1>5, <1>6, <1>7, <1>8, <1>9, <1>10, <1>11, <1>12, <1>13, <1>2, <1>3, LayoutIs, LooseWords
  <1>15. Yields(Do("getMatch"), Layout(q, 0, w, ks), Layout(q, 1, "any", ks))
    <2>1. Yields(Do("getMatch"), Layout(q, 0, w, ks), Layout(q, 0 + 1, "any", ks))
      BY <1>1, <1>2, GetMatchYields
    <2> QED BY ONLY <2>1, <1>2
  <1>16. Yields(Expr, Layout(q, 1, "any", ks), Layout(q, 2, "any", ks))
    <2>1. Yields(Expr, Layout(q, 1, "any", ks), Layout(q, 1 + 1, "any", ks))
      BY <1>1, <1>2, ExprYields
    <2> QED BY ONLY <2>1, <1>2
  <1>17. Yields(Emit(2, 1), Layout(q, 2, "any", ks), Layout(q, 1, "any", ks))
    BY ONLY <1>1, <1>2, EmitYields
  <1>18. Yields(JumpIfFalse, Layout(q, 1, "any", ks), Layout(q, 1, "any", Append(ks, Pile(q.vars, 1))))
    BY <1>1, <1>2, JumpIfFalseYields
  <1>19. Yields(Emit(1, 0), Layout(q, 1, "any", Append(ks, Pile(q.vars, 1))), Layout(q, 0, "any", Append(ks, Pile(q.vars, 1))))
    BY ONLY <1>1, <1>2, EmitYields
  <1>20. Yields(Expr, Layout(q, 0, "any", Append(ks, Pile(q.vars, 1))), Layout(q, 1, "any", Append(ks, Pile(q.vars, 1))))
    <2>1. Yields(Expr, Layout(q, 0, "any", Append(ks, Pile(q.vars, 1))), Layout(q, 0 + 1, "any", Append(ks, Pile(q.vars, 1))))
      BY <1>1, <1>2, ExprYields
    <2> QED BY ONLY <2>1, <1>2
  <1>21. Yields(JumpAway, Layout(q, 1, "any", Append(ks, Pile(q.vars, 1))), Layout(q, 1, "any", Append(Append(ks, Pile(q.vars, 1)), Pile(q.vars, 1))))
    BY <1>1, <1>2, JumpYields
  <1>22. Yields(Patch(2), Layout(q, 1, "any", Append(Append(ks, Pile(q.vars, 1)), Pile(q.vars, 1))), Layout(q, 1, "any", Append(ks, Pile(q.vars, 1))))
    BY <1>1, <1>2, <1>3, PatchSecondYields
  <1>23. Yields(Emit(1, 0), Layout(q, 1, "any", Append(ks, Pile(q.vars, 1))), Layout(q, 0, "any", Append(ks, Pile(q.vars, 1))))
    BY ONLY <1>1, <1>2, EmitYields
  <1>24. Yields(Do("getMatch"), c1, c2)
    BY ONLY <1>4, <1>5, <1>15
  <1>25. Yields(Expr, c2, c3)
    BY ONLY <1>5, <1>6, <1>16
  <1>26. Yields(Emit(2, 1), c3, c4)
    BY ONLY <1>6, <1>7, <1>17
  <1>27. Yields(JumpIfFalse, c4, c5)
    BY ONLY <1>7, <1>8, <1>18
  <1>28. Yields(Emit(1, 0), c5, c6)
    BY ONLY <1>8, <1>9, <1>19
  <1>29. Yields(Expr, c6, c7)
    BY ONLY <1>9, <1>10, <1>20
  <1>30. Yields(JumpAway, c7, c8)
    BY ONLY <1>10, <1>11, <1>21
  <1>31. Yields(Patch(2), c8, c9)
    BY ONLY <1>11, <1>12, <1>22
  <1>32. Yields(Emit(1, 0), c9, c10)
    BY ONLY <1>12, <1>13, <1>23
  <1>33. Laid(<<Do("getMatch"), Expr, Emit(2, 1), JumpIfFalse, Emit(1, 0), Expr, JumpAway, Patch(2), Emit(1, 0)>>, c1, c10)
    BY ONLY <1>14, <1>24, <1>25, <1>26, <1>27, <1>28, <1>29, <1>30, <1>31, <1>32, Laid9
  <1> QED
    BY <1>33, <1>4, <1>13 DEF Arm, Arithmetic, Pop

(* The jumps of js, and n more.                                            *)
Branches(js, x, n) == js \o [i \in 1 .. n |-> x]

LEMMA BranchesAre ==
    ASSUME NEW js \in Seq(Piles), NEW x \in Piles, NEW n \in Nat
    PROVE  /\ Branches(js, x, n) \in Seq(Piles)
           /\ Append(Branches(js, x, n), x) = Branches(js, x, n + 1)
           /\ Branches(js, x, 0) = js
  <1>1. /\ [i \in 1 .. n |-> x] \in Seq(Piles) /\ [i \in 1 .. n + 1 |-> x] \in Seq(Piles)
        /\ [i \in 1 .. 0 |-> x] = <<>>
    OBVIOUS
  <1>2. [i \in 1 .. n + 1 |-> x] = Append([i \in 1 .. n |-> x], x)
    OBVIOUS
  <1>3. \A t \in Seq(Piles) : js \o Append(t, x) = Append(js \o t, x) /\ js \o t \in Seq(Piles)
    OBVIOUS
  <1>4. js \o <<>> = js
    OBVIOUS
  <1> QED
    BY <1>1, <1>2, <1>3, <1>4 DEF Branches

LEMMA LaidArms ==
    ASSUME NEW q \in Places, ~q.ended, q.next = <<>>,
           \E i \in 1 .. Len(q.vars) : q.vars[i][1] = "$match",
           NEW js \in Seq(Piles), NEW n \in Nat, NEW g, ArmsFrom(g, n), NEW x,
           x = Pile(q.vars, 1)
    PROVE  Laid(g[n], Layout(q, 0, "any", js), Layout(q, 0, "any", Branches(js, x, n)))
  <1> DEFINE T == {i \in 0 .. n : Laid(g[i], Layout(q, 0, "any", js),
                                       Layout(q, 0, "any", Branches(js, x, i)))}
  <1>1. x \in Piles
    BY PileIs
  <1>2. 0 \in T
    <2>1. g[0] = <<>> /\ Branches(js, x, 0) = js
      BY <1>1, BranchesAre DEF ArmsFrom
    <2>2. Layout(q, 0, "any", js) \in Layouts
      BY LayoutIs, LooseWords
    <2>3. Laid(g[0], Layout(q, 0, "any", js), Layout(q, 0, "any", Branches(js, x, 0)))
      BY <2>1, <2>2, LaidNone
    <2> QED BY <2>3
  <1>3. ASSUME NEW i \in 0 .. (n - 1), i \in T PROVE i + 1 \in T
    <2>1. i \in Nat /\ i + 1 \in 1 .. n /\ i + 1 \in 0 .. n /\ (i + 1) - 1 = i
      OBVIOUS
    <2>2. g[i + 1] = g[i] \o Arm
      BY ONLY <2>1, ArmsFrom(g, n) DEF ArmsFrom
    <2>3. PICK ks : ks = Branches(js, x, i)
      OBVIOUS
    <2>4. ks \in Seq(Piles) /\ Append(ks, x) = Branches(js, x, i + 1)
      BY ONLY <1>1, <2>1, <2>3, js \in Seq(Piles), BranchesAre
    <2>5. Laid(Arm, Layout(q, 0, "any", ks), Layout(q, 0, "any", Append(ks, x)))
      BY <2>4, LaidArm, LooseWords
    <2>6. Laid(g[i + 1], Layout(q, 0, "any", js), Layout(q, 0, "any", Branches(js, x, i + 1)))
      BY <1>3, <2>2, <2>3, <2>4, <2>5, LaidConcat
    <2> QED BY <2>1, <2>6
  <1>4. \A i \in 0 .. n : i \in T
    <2> HIDE DEF T
    <2> QED BY <1>2, <1>3, UpTo
  <1> QED
    BY <1>4

LEMMA LaidPatches ==
    ASSUME NEW q \in Places, ~q.ended, NEW js \in Seq(Piles), NEW n \in Nat, NEW x,
           x = Pile(q.vars, 1)
    PROVE  Laid([i \in 1 .. n |-> Patch(1)], Layout(q, 1, "any", Branches(js, x, n)),
                Layout(q, 1, "any", js))
  <1>1. x \in Piles
    BY PileIs
  <1>2. PICK ts : ts = [i \in 1 .. n |-> Patch(1)]
    OBVIOUS
  <1>3. IsSequence(ts) /\ Len(ts) = n /\ \A i \in 1 .. n : ts[i] = Patch(1)
    <2>1. ts \in Seq({Patch(1)}) /\ Len(ts) = n /\ \A i \in 1 .. n : ts[i] = Patch(1)
      BY <1>2
    <2> QED BY <2>1 DEF IsSequence
  <1>4. PICK f : f = [i \in 1 .. n + 1 |-> Layout(q, 1, "any", Branches(js, x, (n + 1) - i))]
    OBVIOUS
  <1>5. \A i \in 1 .. n + 1 : (n + 1) - i \in Nat
                              /\ f[i] = Layout(q, 1, "any", Branches(js, x, (n + 1) - i))
    BY <1>4
  <1>6. \A i \in 1 .. n + 1 : f[i] \in Layouts
    <2> TAKE i \in 1 .. n + 1
    <2>1. PICK m \in Nat : m = (n + 1) - i
      BY <1>5
    <2>2. Branches(js, x, m) \in Seq(Piles)
      BY <1>1, BranchesAre
    <2>3. Layout(q, 1, "any", Branches(js, x, m)) \in Layouts
      <3>1. 1 \in Nat
        OBVIOUS
      <3> QED BY <2>2, <3>1, LayoutIs, LooseWords
    <2> QED BY ONLY <1>5, <2>1, <2>3, i \in 1 .. n + 1
  <1>7. f \in [1 .. n + 1 -> Layouts]
    BY ONLY <1>4, <1>6
  <1>8. \A i \in 1 .. n : Yields(ts[i], f[i], f[i + 1])
    <2> TAKE i \in 1 .. n
    <2>1. PICK m \in Nat : m = (n + 1) - (i + 1)
      <3>1. (n + 1) - (i + 1) \in Nat
        OBVIOUS
      <3> QED BY <3>1
    <2>2. m + 1 \in Nat /\ (n + 1) - i = m + 1 /\ i \in 1 .. n + 1 /\ i + 1 \in 1 .. n + 1
      BY <2>1
    <2>3. /\ f[i] = Layout(q, 1, "any", Branches(js, x, m + 1))
          /\ f[i + 1] = Layout(q, 1, "any", Branches(js, x, m))
      BY ONLY <1>5, <2>1, <2>2
    <2>4. PICK ks : ks = Branches(js, x, m)
      OBVIOUS
    <2>5. ks \in Seq(Piles) /\ Append(ks, x) = Branches(js, x, m + 1)
      BY ONLY <1>1, <2>1, <2>4, js \in Seq(Piles), BranchesAre
    <2>6. Yields(Patch(1), Layout(q, 1, "any", Append(ks, x)), Layout(q, 1, "any", ks))
      <3>1. 1 \in Nat
        OBVIOUS
      <3> QED BY <2>5, <3>1, PatchYields, LooseWords
    <2>7. ts[i] = Patch(1)
      BY <1>3
    <2> QED BY ONLY <2>3, <2>4, <2>5, <2>6, <2>7
  <1>9. f[1] = Layout(q, 1, "any", Branches(js, x, n)) /\ f[n + 1] = Layout(q, 1, "any", js)
    <2>1. 1 \in 1 .. n + 1 /\ n + 1 \in 1 .. n + 1 /\ (n + 1) - 1 = n /\ (n + 1) - (n + 1) = 0
      OBVIOUS
    <2>2. /\ f[1] = Layout(q, 1, "any", Branches(js, x, (n + 1) - 1))
          /\ f[n + 1] = Layout(q, 1, "any", Branches(js, x, (n + 1) - (n + 1)))
      BY ONLY <1>5, <2>1
    <2>3. Branches(js, x, 0) = js
      BY <1>1, BranchesAre
    <2> QED BY ONLY <2>1, <2>2, <2>3
  <1>10. Laid(ts, Layout(q, 1, "any", Branches(js, x, n)), Layout(q, 1, "any", js))
    BY <1>3, <1>7, <1>8, <1>9 DEF Laid, Chart
  <1> QED
    BY <1>2, <1>10

(* The target becomes a local, which stays.                                *)
LEMMA LaidMatch ==
    ASSUME NEW p \in Places, ~p.ended, p.next = <<>>, Roomy(p), NEW w, Loose(w),
           NEW js \in Seq(Piles), NEW n \in Nat, n > 0, NEW last \in BOOLEAN
    PROVE  Laid(MatchTasks(n, FALSE, last), Layout(p, 0, w, js),
                Layout(Gaining(p, <<"$match", p.depth>>), 1, "any", js))
  <1>1. PICK y : y = <<"$match", p.depth>>
    OBVIOUS
  <1>2. y \in Slots /\ y[2] = p.depth /\ y[1] = "$match" /\ "$match" \in AllNames
    BY <1>1, PlaceFacts, HiddenKnown DEF Slots
  <1>3. PICK q : q = Gaining(p, y)
    OBVIOUS
  <1>4. /\ q \in Places /\ q.next = <<>> /\ ~q.ended /\ q.vars = Append(p.vars, y)
    BY <1>2, <1>3, GainingPlace
  <1>5. \E i \in 1 .. Len(q.vars) : q.vars[i][1] = "$match"
    <2>1. p.vars \in Seq(Slots)
      BY PlaceFacts
    <2>2. Len(p.vars) + 1 \in 1 .. Len(q.vars) /\ q.vars[Len(p.vars) + 1] = y
      BY <1>4, <2>1
    <2> QED BY <1>2, <2>2
  <1>6. PICK x : x = Pile(q.vars, 1)
    OBVIOUS
  <1>7. x \in Piles
    BY <1>4, <1>6, PileIs
  <1>8. PICK a : a = Layout(p, 0, w, js)
    OBVIOUS
  <1>9. PICK b : b = Layout(p, 1, "any", js)
    OBVIOUS
  <1>10. PICK c : c = Layout(q, 0, "any", js)
    OBVIOUS
  <1>11. PICK d : d = Layout(q, 0, "any", Branches(js, x, n))
    OBVIOUS
  <1>12. PICK e : e = Layout(q, 1, "any", Branches(js, x, n))
    OBVIOUS
  <1>13. a \in Layouts /\ b \in Layouts /\ c \in Layouts /\ d \in Layouts
    <2>1. 0 \in Nat /\ 1 \in Nat /\ Branches(js, x, n) \in Seq(Piles)
      BY <1>7, BranchesAre
    <2> QED BY <1>4, <1>8, <1>9, <1>10, <1>11, <2>1, LayoutIs, LooseWords
  <1>14. Laid(<<Expr>>, a, b)
    <2>1. Yields(Expr, Layout(p, 0, w, js), Layout(p, 0 + 1, "any", js))
      BY ExprYields
    <2>2. Yields(Expr, a, b)
      BY <1>8, <1>9, <2>1
    <2> QED BY <1>13, <2>2, Laid1
  <1>15. Laid(<<Declare("$match")>>, b, c)
    <2>1. Yields(Declare("$match"), Layout(p, 1, "any", js),
                 Layout(Gaining(p, <<"$match", p.depth>>), 0, "any", js))
      BY <1>2, DeclareYields, LooseWords
    <2>2. Yields(Declare("$match"), b, c)
      BY <1>1, <1>3, <1>9, <1>10, <2>1
    <2> QED BY <1>13, <2>2, Laid1
  <1>16. PICK g : /\ ArmsFrom(g, n)
                  /\ ArmTasks(n) = (IF n = 0 THEN <<>> ELSE <<Declare("$match")>>) \o g[n]
    BY ArmsAre
  <1>17. Laid(g[n], c, d)
    BY <1>4, <1>5, <1>6, <1>10, <1>11, <1>16, LaidArms
  <1>18. Laid(ArmTasks(n), b, d)
    <2>1. n # 0
      BY n > 0
    <2>2. ArmTasks(n) = <<Declare("$match")>> \o g[n]
      BY ONLY <1>16, <2>1, Zenon
    <2> QED BY <1>15, <1>17, <2>2, LaidConcat
  <1>19. Laid(<<Load>>, d, e)
    <2>1. 0 \in 0 .. 0 /\ 1 \in Nat /\ 0 \in Nat /\ 1 = (0 - 0) + 1
      OBVIOUS
    <2>2. Branches(js, x, n) \in Seq(Piles)
      BY <1>7, BranchesAre
    <2> QED BY <1>4, <1>11, <1>12, <2>1, <2>2, LaidEmit, LooseWords DEF Load
  <1>20. Laid([i \in 1 .. n |-> Patch(1)], e, Layout(q, 1, "any", js))
    BY <1>4, <1>6, <1>12, LaidPatches
  <1>21. Laid(<<>>, d, d)
    BY <1>13, LaidNone
  <1>22. Laid(<<Expr>> \o ArmTasks(n), a, d)
    BY <1>14, <1>18, LaidConcat
  <1>23. Laid(<<Expr>> \o ArmTasks(n) \o <<>>, a, d)
    BY <1>21, <1>22, LaidConcat
  <1>24. Laid(<<Expr>> \o ArmTasks(n) \o <<>> \o <<Load>>, a, e)
    BY <1>19, <1>23, LaidConcat
  <1>25. Laid(<<Expr>> \o ArmTasks(n) \o <<>> \o <<Load>> \o [i \in 1 .. n |-> Patch(1)], a,
              Layout(q, 1, "any", js))
    BY <1>20, <1>24, LaidConcat
  <1>26. MatchTasks(n, FALSE, last)
         = <<Expr>> \o ArmTasks(n) \o <<>> \o <<Load>> \o [i \in 1 .. n |-> Patch(1)]
    BY DEF MatchTasks
  <1> QED
    BY <1>1, <1>3, <1>8, <1>25, <1>26

----------------------------------------------------------------------------
(* What a layout that fits the first task says.                            *)
LEMMA NextLaid ==
    ASSUME NEW td, NEW a, NEW z, Laid(td, a, z), td # <<>>
    PROVE  /\ a \in Layouts /\ a.place \in Places /\ a.temps \in Nat /\ a.then \in Words
           /\ a.pending \in Seq(Piles)
           /\ \E b \in Layouts : Yields(Head(td), a, b) /\ Laid(Tail(td), b, z)
  BY LaidNext, LayoutFacts

LEMMA LaidBefore ==
    ASSUME NEW td, td # <<>>, IsSequence(td), NEW a \in Layouts, NEW b \in Layouts, NEW z,
           Yields(Head(td), a, b), Laid(Tail(td), b, z)
    PROVE  Laid(td, a, z)
  <1>1. PICK t : t = Head(td)
    OBVIOUS
  <1>2. PICK u : u = Tail(td)
    OBVIOUS
  <1>3. Laid(<<t>> \o u, a, z)
    BY <1>1, <1>2, Laid1, LaidConcat
  <1>4. <<t>> \o u = td
    <2>1. PICK T : td \in Seq(T)
      BY DEF IsSequence
    <2> QED BY <1>1, <1>2, <2>1
  <1> QED
    BY <1>3, <1>4

LEMMA LaidSequence ==
    ASSUME NEW td, NEW a, NEW z, Laid(td, a, z)
    PROVE  IsSequence(td)
  BY DEF Laid

(* Statements are next: nothing is on the stack but locals.  Others that   *)
(* lead to the same end may come first.                                    *)
LEMMA StatementFacts ==
    ASSUME NEW td, td # <<>>, Head(td).do = "statements", NEW a, NEW z, Laid(td, a, z)
    PROVE  /\ a \in Layouts /\ a.place \in Places /\ a.pending \in Seq(Piles)
           /\ Roomy(a.place) /\ ~a.place.ended /\ a.place.next = <<>> /\ a.temps = 0
           /\ a.then # "patch"
           /\ \A q \in Places : \A w \in {"any", "statements"} :
                  Roomy(q) /\ ~q.ended /\ q.next = <<>> /\ Ended(q) = Ended(a.place)
                  => Laid(td, Layout(q, 0, w, a.pending), z)
  <1>1. PICK b \in Layouts : Yields(Head(td), a, b) /\ Laid(Tail(td), b, z)
    BY NextLaid
  <1>2. PICK t : t = Head(td)
    OBVIOUS
  <1>3. /\ a \in Layouts /\ a.place \in Places /\ a.pending \in Seq(Piles)
    BY NextLaid
  <1>4. /\ Clear(a) /\ Roomy(a.place) /\ b = Moved(a, Ended(a.place)) /\ a.then # "patch"
    <2>1. Yields(t, a, b) /\ t.do = "statements"
      BY <1>1, <1>2
    <2>2. YieldsStatement(t, a, b)
      BY ONLY <2>1 DEF Yields, YieldsInstruction, YieldsOperand, YieldsFor, YieldsReturn,
         YieldsExit, YieldsJump, YieldsPatch, YieldsScope, YieldsLocal, YieldsLoop, YieldsFunction,
         Instructions, Do
    <2>3. a.then # "patch"
      BY <2>1 DEF Yields, Admits, Patch
    <2> QED BY ONLY <2>1, <2>2, <2>3 DEF YieldsStatement
  <1>5. ASSUME NEW q \in Places, NEW w \in {"any", "statements"}, Roomy(q), ~q.ended,
               q.next = <<>>, Ended(q) = Ended(a.place)
        PROVE  Laid(td, Layout(q, 0, w, a.pending), z)
    <2>1. PICK c : c = Layout(q, 0, w, a.pending)
      OBVIOUS
    <2>2. c.place = q /\ c.temps = 0 /\ c.then = w /\ c.pending = a.pending
      BY <2>1, LayoutFields
    <2>3. c \in Layouts
      BY <1>3, <2>1, LayoutIs DEF Words
    <2>4. b = Moved(c, Ended(c.place))
      BY <1>4, <1>5, <2>2 DEF Moved
    <2>5. YieldsStatement(t, c, b)
      BY <1>2, <1>5, <2>2, <2>4 DEF YieldsStatement, Clear
    <2>6. Admits(c.then, t)
      BY <1>2, <2>2 DEF Admits
    <2>7. Yields(t, c, b)
      BY <2>5, <2>6 DEF Yields
    <2> QED BY <1>1, <1>2, <2>1, <2>3, <2>7, LaidBefore, LaidSequence
  <1> QED
    BY <1>3, <1>4, <1>5 DEF Clear

(* An operand is next.                                                     *)
LEMMA OperandFacts ==
    ASSUME NEW td, td # <<>>, Head(td).do \in {"expr", "assign", "getMatch"}, NEW a, NEW z,
           Laid(td, a, z)
    PROVE  /\ a \in Layouts /\ a.place \in Places /\ a.pending \in Seq(Piles) /\ a.temps \in Nat
           /\ Loose(a.then) /\ ~a.place.ended /\ a = Layout(a.place, a.temps, a.then, a.pending)
           /\ Head(td).do = "expr"
              => Laid(Tail(td), Layout(a.place, a.temps + 1, "any", a.pending), z)
           /\ Head(td).do = "assign"
              => /\ a.temps > 0
                 /\ Laid(Tail(td), Layout(a.place, a.temps, "any", a.pending), z)
           /\ Head(td).do = "getMatch"
              => /\ a.place.next = <<>>
                 /\ \E i \in 1 .. Len(a.place.vars) : a.place.vars[i][1] = "$match"
                 /\ Laid(Tail(td), Layout(a.place, a.temps + 1, "any", a.pending), z)
  <1>1. PICK b \in Layouts : Yields(Head(td), a, b) /\ Laid(Tail(td), b, z)
    BY NextLaid
  <1>2. PICK t : t = Head(td)
    OBVIOUS
  <1>3. /\ a \in Layouts /\ a.place \in Places /\ a.pending \in Seq(Piles) /\ a.temps \in Nat
        /\ a = Layout(a.place, a.temps, a.then, a.pending) /\ a.then \in Words
    BY NextLaid, LayoutFacts
  <1>4. Yields(t, a, b) /\ t.do \in {"expr", "assign", "getMatch"}
    BY <1>1, <1>2
  <1>5. YieldsOperand(t, a, b)
    BY ONLY <1>4 DEF Yields, YieldsInstruction, YieldsStatement, YieldsFor, YieldsReturn,
       YieldsExit, YieldsJump, YieldsPatch, YieldsScope, YieldsLocal, YieldsLoop, YieldsFunction,
       Instructions, Do
  <1>6. Loose(a.then)
    BY <1>3, <1>4 DEF Yields, Admits, Words, Loose, Patch, Pop, Emit
  <1> QED
    BY <1>1, <1>2, <1>3, <1>5, <1>6 DEF YieldsOperand, With

----------------------------------------------------------------------------
(* The parts of the state that a step leaves alone.                        *)
LEMMA CurrentKept ==
    ASSUME NEW a, NEW vs, CurrentMatches(a, vs), NEW b, b.place.vars = a.place.vars,
           b.place.next = a.place.next, b.place.ended = a.place.ended,
           b.place.depth = a.place.depth, b.temps = a.temps, b.then # "patch",
           UNCHANGED <<locals, depth, point>>
    PROVE  CurrentMatches(b, vs)'
  BY DEF CurrentMatches

LEMMA OuterKept ==
    ASSUME NEW a, OuterMatches(a), NEW b, b.place.saved = a.place.saved, outer' = outer
    PROVE  OuterMatches(b)'
  BY DEF OuterMatches, FrameMatches

LEMMA LoopsKept ==
    ASSUME NEW a, LoopsMatch(a), NEW b, b.place.loops = a.place.loops, loops' = loops
    PROVE  LoopsMatch(b)'
  BY DEF LoopsMatch, LoopMatches

LEMMA JumpsKept ==
    ASSUME NEW a, JumpsMatch(a), NEW b, b.pending = a.pending, jumps' = jumps
    PROVE  JumpsMatch(b)'
  BY DEF JumpsMatch

LEMMA MatchesKept ==
    ASSUME NEW a, Matches(a), NEW p, p = a.place, NEW n, n = a.temps, NEW js, js = a.pending,
           NEW w, w # "patch", UNCHANGED <<locals, depth, outer, loops, point, jumps>>
    PROVE  Matches(Layout(p, n, w, js))'
  <1>1. PICK b : b = Layout(p, n, w, js)
    OBVIOUS
  <1>2. b.place = a.place /\ b.temps = a.temps /\ b.then # "patch" /\ b.pending = a.pending
    BY <1>1, LayoutFields
  <1>3. PICK vs \in Seq(Slots) : CurrentMatches(a, vs)
    BY DEF Matches
  <1>4. CurrentMatches(b, vs)'
    BY <1>2, <1>3, CurrentKept
  <1>5. OuterMatches(b)' /\ LoopsMatch(b)' /\ JumpsMatch(b)'
    BY <1>2, OuterKept, LoopsKept, JumpsKept DEF Matches
  <1>6. Matches(b)'
    BY <1>4, <1>5 DEF Matches
  <1> QED
    BY <1>1, <1>6

(* Statements that are replaced by tasks.                                  *)
LEMMA StatementStep ==
    ASSUME NEW a, NEW z, Laid(todo, a, z), Done(z), TaskIs("statements"),
           NEW ts, todo' = ts \o todo, NEW q \in Places, Roomy(q), ~q.ended, q.next = <<>>,
           Ended(q) = Ended(a.place), NEW w \in {"any", "statements"},
           NEW c, Laid(ts, c, Layout(q, 0, w, a.pending)), Matches(c)'
    PROVE  InStep'
  <1>1. Laid(todo, Layout(q, 0, w, a.pending), z)
    <2>1. todo # <<>> /\ Head(todo).do = "statements"
      BY DEF TaskIs, Task
    <2> QED BY <2>1, StatementFacts
  <1>2. Laid(todo', c, z)
    BY <1>1, LaidConcat
  <1> QED
    BY <1>2 DEF InStep

(* An expression or another operand that is replaced by tasks.             *)
LEMMA OperandStep ==
    ASSUME NEW a, NEW z, Laid(todo, a, z), Done(z), todo # <<>>,
           NEW ts, todo' = ts \o Tail(todo), NEW b, NEW c, Laid(Tail(todo), b, z),
           Laid(ts, c, b), Matches(c)'
    PROVE  InStep'
  BY LaidConcat DEF InStep

----------------------------------------------------------------------------
(* Statements without a scope of their own.                                *)
LEMMA PlainStatement ==
    ASSUME NEW a, NEW z, Laid(todo, a, z), Done(z), Matches(a), TaskIs("statements"),
           NEW ts, todo' = ts \o todo, UNCHANGED <<locals, depth, outer, loops, point, jumps>>,
           NEW w \in {"any", "statements"},
           \A p \in Places : \A js \in Seq(Piles) : ~p.ended /\ p.next = <<>>
               => Laid(ts, Layout(p, 0, "any", js), Layout(p, 0, w, js))
    PROVE  InStep'
  <1>1. todo # <<>> /\ Head(todo).do = "statements"
    BY DEF TaskIs, Task
  <1>2. /\ a.place \in Places /\ a.pending \in Seq(Piles) /\ Roomy(a.place) /\ ~a.place.ended
        /\ a.place.next = <<>> /\ a.temps = 0
    BY <1>1, StatementFacts
  <1>3. PICK p \in Places : p = a.place
    BY <1>2
  <1>4. PICK js \in Seq(Piles) : js = a.pending
    BY <1>2
  <1>5. PICK c : c = Layout(p, 0, "any", js)
    OBVIOUS
  <1>6. Laid(ts, c, Layout(p, 0, w, a.pending))
    BY <1>2, <1>3, <1>4, <1>5
  <1>7. Matches(c)'
    BY <1>2, <1>3, <1>4, <1>5, MatchesKept
  <1> QED
    BY <1>2, <1>3, <1>6, <1>7, StatementStep

LEMMA IfTasksLaid ==
    ASSUME NEW chain, NEW ts \in IfTasks(chain), NEW p \in Places, ~p.ended, p.next = <<>>,
           NEW js \in Seq(Piles)
    PROVE  Laid(ts, Layout(p, 0, "any", js), Layout(p, 0, "any", js))
  <1>1. CASE ts = <<Expr, JumpIfFalse, Pop, Block, Patch(1), Pop>>
    BY <1>1, LaidIf, LooseWords
  <1>2. ASSUME NEW else \in {Block, Do("elseIf")},
               ts = <<Expr, JumpIfFalse, Pop, Block, JumpAway, Patch(2), Pop, else, Patch(1)>>
        PROVE  Laid(ts, Layout(p, 0, "any", js), Layout(p, 0, "any", js))
    <2>1. Yields(else, Layout(p, 0, "any", Append(js, Pile(p.vars, 0))),
                 Layout(p, 0, "any", Append(js, Pile(p.vars, 0))))
      BY BlockYields, ElseIfYields, LooseWords
    <2> QED BY <1>2, <2>1, LaidIfElse, LooseWords
  <1>3. \/ ts = <<Expr, JumpIfFalse, Pop, Block, Patch(1), Pop>>
        \/ \E else \in {Block, Do("elseIf")} :
               ts = <<Expr, JumpIfFalse, Pop, Block, JumpAway, Patch(2), Pop, else, Patch(1)>>
    BY DEF IfTasks
  <1> QED
    BY <1>1, <1>2, <1>3

LEMMA SimpleStatementSteps ==
    ASSUME NEW a, NEW z, Laid(todo, a, z), Done(z), Matches(a),
           \/ CompileExprStmt \/ CompileReturn \/ CompileFree
           \/ CompileIf /\ TaskIs("statements")
    PROVE  InStep'
  <1>1. CASE CompileExprStmt \/ CompileFree
    <2>1. /\ TaskIs("statements") /\ todo' = <<Expr, Emit(1, 0)>> \o todo
          /\ UNCHANGED <<locals, depth, outer, loops, point, jumps>>
      BY <1>1 DEF CompileExprStmt, CompileFree, Statement, Pop, Free
    <2>2. \A p \in Places : \A js \in Seq(Piles) : ~p.ended /\ p.next = <<>>
              => Laid(<<Expr, Emit(1, 0)>>, Layout(p, 0, "any", js), Layout(p, 0, "any", js))
      BY LaidPopped, LooseWords
    <2> QED BY <2>1, <2>2, PlainStatement
  <1>2. CASE CompileReturn
    <2>1. PICK value \in {Expr, Load} :
              /\ TaskIs("statements") /\ todo' = <<value, Do("return")>> \o todo
              /\ UNCHANGED <<locals, depth, outer, loops, point, jumps>>
      BY <1>2 DEF CompileReturn, Statement
    <2>2. \A p \in Places : \A js \in Seq(Piles) : ~p.ended /\ p.next = <<>>
              => Laid(<<value, Do("return")>>, Layout(p, 0, "any", js),
                      Layout(p, 0, "statements", js))
      BY LaidReturn, LooseWords
    <2> QED BY <2>1, <2>2, PlainStatement
  <1>3. CASE CompileIf /\ TaskIs("statements")
    <2>1. PICK tasks \in IfTasks(nodes < MaxNodes) :
              /\ TaskIs("statements") /\ todo' = tasks \o todo
              /\ UNCHANGED <<locals, depth, outer, loops, point, jumps>>
      BY <1>3 DEF CompileIf, Statement, TaskIs
    <2>2. \A p \in Places : \A js \in Seq(Piles) : ~p.ended /\ p.next = <<>>
              => Laid(tasks, Layout(p, 0, "any", js), Layout(p, 0, "any", js))
      BY IfTasksLaid
    <2> QED BY <2>1, <2>2, PlainStatement
  <1> QED
    BY <1>1, <1>2, <1>3

(* An `else if` or a branch is next.                                       *)
LEMMA BranchFacts ==
    ASSUME NEW td, td # <<>>, Head(td).do \in {"elseIf", "block"}, NEW a, NEW z, Laid(td, a, z)
    PROVE  /\ a.place \in Places /\ a.pending \in Seq(Piles)
           /\ ~a.place.ended /\ a.place.next = <<>> /\ a.temps = 0
           /\ Head(td).do = "elseIf" => Laid(Tail(td), Layout(a.place, 0, "any", a.pending), z)
           /\ Head(td).do = "block"
              => \E v \in {"any", "patch"} : Laid(Tail(td), Layout(a.place, 0, v, a.pending), z)
  <1>1. PICK b \in Layouts : Yields(Head(td), a, b) /\ Laid(Tail(td), b, z)
    BY NextLaid
  <1>2. PICK t : t = Head(td)
    OBVIOUS
  <1>3. a.place \in Places /\ a.pending \in Seq(Piles)
    BY NextLaid
  <1>4. Yields(t, a, b) /\ t.do \in {"elseIf", "block"}
    BY <1>1, <1>2
  <1>5. YieldsStatement(t, a, b)
    BY ONLY <1>4 DEF Yields, YieldsInstruction, YieldsOperand, YieldsFor, YieldsReturn,
       YieldsExit, YieldsJump, YieldsPatch, YieldsScope, YieldsLocal, YieldsLoop, YieldsFunction,
       Instructions, Do
  <1> QED
    BY <1>1, <1>2, <1>3, <1>5 DEF YieldsStatement, With, Clear

LEMMA ElseIfStep ==
    ASSUME NEW a, NEW z, Laid(todo, a, z), Done(z), Matches(a), CompileIf, ~TaskIs("statements")
    PROVE  InStep'
  <1>1. PICK tasks \in IfTasks(nodes < MaxNodes) :
            /\ TaskIs("elseIf") /\ todo' = tasks \o Tail(todo)
            /\ UNCHANGED <<locals, depth, outer, loops, point, jumps>>
    BY DEF CompileIf, Statement
  <1>2. todo # <<>> /\ Head(todo).do = "elseIf"
    BY <1>1 DEF TaskIs, Task
  <1>3. /\ a.place \in Places /\ a.pending \in Seq(Piles) /\ ~a.place.ended
        /\ a.place.next = <<>> /\ a.temps = 0
        /\ Laid(Tail(todo), Layout(a.place, 0, "any", a.pending), z)
    BY <1>2, BranchFacts
  <1>4. PICK c : c = Layout(a.place, 0, "any", a.pending)
    OBVIOUS
  <1>5. Laid(tasks, c, c)
    BY <1>1, <1>3, <1>4, IfTasksLaid
  <1>6. Matches(c)'
    BY <1>1, <1>3, <1>4, MatchesKept
  <1> QED
    BY <1>1, <1>2, <1>3, <1>4, <1>5, <1>6, OperandStep

----------------------------------------------------------------------------
(* Statements with scopes, locals and loops of their own.                  *)
LEMMA DeeperMatches ==
    ASSUME NEW a, Matches(a), NEW p, p = a.place, NEW n, n = a.temps, NEW js, js = a.pending,
           NEW w, w # "patch", ~p.ended, depth' = depth + 1,
           UNCHANGED <<locals, outer, loops, point, jumps>>
    PROVE  Matches(Layout(Inner(p), n, w, js))'
  <1>1. PICK q : q = Inner(p)
    OBVIOUS
  <1>2. /\ q.vars = p.vars /\ q.next = p.next /\ q.depth = p.depth + 1 /\ q.ended = p.ended
        /\ q.saved = p.saved /\ q.loops = p.loops
    BY <1>1, InnerParts
  <1>3. PICK b : b = Layout(q, n, w, js)
    OBVIOUS
  <1>4. b.place = q /\ b.temps = n /\ b.then # "patch" /\ b.pending = js
    BY <1>3, LayoutFields
  <1>5. PICK vs \in Seq(Slots) : CurrentMatches(a, vs)
    BY DEF Matches
  <1>6. CurrentMatches(b, vs)'
    BY <1>2, <1>4, <1>5 DEF CurrentMatches
  <1>7. OuterMatches(b)' /\ LoopsMatch(b)' /\ JumpsMatch(b)'
    BY <1>2, <1>4, OuterKept, LoopsKept, JumpsKept DEF Matches
  <1>8. Matches(b)'
    BY <1>6, <1>7 DEF Matches
  <1> QED
    BY <1>1, <1>3, <1>8

LEMMA CompileBlockStep ==
    ASSUME NEW a, NEW z, Laid(todo, a, z), Done(z), Matches(a), CompileBlock
    PROVE  InStep'
  <1>1. depth' = depth + 1 /\ UNCHANGED <<locals, outer, loops, point, jumps>>
    BY DEF CompileBlock
  <1>2. PICK ts : ts = <<Statements, Do("end")>>
    OBVIOUS
  <1>3. CASE TaskIs("statements") /\ todo' = ts \o todo
    <2>1. todo # <<>> /\ Head(todo).do = "statements"
      BY <1>3 DEF TaskIs, Task
    <2>2. /\ a.place \in Places /\ a.pending \in Seq(Piles) /\ Roomy(a.place) /\ ~a.place.ended
          /\ a.place.next = <<>> /\ a.temps = 0
      BY <2>1, StatementFacts
    <2>3. PICK c : c = Layout(Inner(a.place), 0, "any", a.pending)
      OBVIOUS
    <2>4. Laid(ts, c, Layout(a.place, 0, "any", a.pending))
      BY <1>2, <2>2, <2>3, LaidBlock, LooseWords
    <2>5. Matches(c)'
      BY <1>1, <2>2, <2>3, DeeperMatches
    <2> QED BY <1>3, <2>2, <2>4, <2>5, StatementStep
  <1>4. CASE TaskIs("block") /\ todo' = ts \o Tail(todo)
    <2>1. todo # <<>> /\ Head(todo).do = "block"
      BY <1>4 DEF TaskIs, Task
    <2>2. /\ a.place \in Places /\ a.pending \in Seq(Piles) /\ ~a.place.ended
          /\ a.place.next = <<>> /\ a.temps = 0
      BY <2>1, BranchFacts
    <2>3. PICK v \in {"any", "patch"} : Laid(Tail(todo), Layout(a.place, 0, v, a.pending), z)
      BY <2>1, BranchFacts
    <2>4. PICK c : c = Layout(Inner(a.place), 0, "any", a.pending)
      OBVIOUS
    <2>5. Laid(ts, c, Layout(a.place, 0, v, a.pending))
      BY <1>2, <2>2, <2>4, LaidBlock, LooseWords
    <2>6. Matches(c)'
      BY <1>1, <2>2, <2>4, DeeperMatches
    <2> QED BY <1>4, <2>1, <2>3, <2>5, <2>6, OperandStep
  <1> QED
    BY <1>2, <1>3, <1>4 DEF CompileBlock, Statement

LEMMA KnownNames ==
    ASSUME language \in Languages
    PROVE  Names \subseteq AllNames /\ HiddenNames \subseteq AllNames
  <1>1. language.names \in {l.names : l \in Languages}
    OBVIOUS
  <1>2. Names \subseteq AllNames
    BY <1>1, Zenon DEF Names, AllNames
  <1> QED
    BY <1>2, HiddenKnown

LEMMA CompileForStep ==
    ASSUME NEW a, NEW z, Laid(todo, a, z), Done(z), Matches(a), language \in Languages, CompileFor
    PROVE  InStep'
  <1>1. PICK name \in Names :
            /\ TaskIs("statements")
            /\ todo' = <<Expr, [do |-> "for", name |-> name], Do("end")>> \o todo
            /\ depth' = depth + 1 /\ UNCHANGED <<locals, outer, loops, point, jumps>>
    BY DEF CompileFor, Statement
  <1>2. name \in AllNames
    BY KnownNames
  <1>3. todo # <<>> /\ Head(todo).do = "statements"
    BY <1>1 DEF TaskIs, Task
  <1>4. /\ a.place \in Places /\ a.pending \in Seq(Piles) /\ Roomy(a.place) /\ ~a.place.ended
        /\ a.place.next = <<>> /\ a.temps = 0
    BY <1>3, StatementFacts
  <1>5. PICK c : c = Layout(Inner(a.place), 0, "any", a.pending)
    OBVIOUS
  <1>6. PICK ts : ts = <<Expr, [do |-> "for", name |-> name], Do("end")>>
    OBVIOUS
  <1>7. Laid(ts, c, Layout(a.place, 0, "any", a.pending))
    BY <1>2, <1>4, <1>5, <1>6, LaidFor, LooseWords
  <1>8. Matches(c)'
    BY <1>1, <1>4, <1>5, DeeperMatches
  <1> QED
    BY <1>1, <1>4, <1>6, <1>7, <1>8, StatementStep

(* Slots of locals.                                                        *)
LEMMA SlotsOfIs ==
    ASSUME NEW T, NEW ls \in Seq(T)
    PROVE  /\ Len(ls) \in Nat /\ DOMAIN ls = 1 .. Len(ls)
           /\ SlotsOf(ls) = [i \in 1 .. Len(ls) |-> <<ls[i].name, ls[i].depth>>]
           /\ Len(SlotsOf(ls)) = Len(ls)
           /\ \A i \in 1 .. Len(ls) : SlotsOf(ls)[i] = <<ls[i].name, ls[i].depth>>
  <1>1. Len(ls) \in Nat /\ DOMAIN ls = 1 .. Len(ls)
    OBVIOUS
  <1>2. SlotsOf(ls) = [i \in 1 .. Len(ls) |-> <<ls[i].name, ls[i].depth>>]
    BY <1>1 DEF SlotsOf, Variable
  <1> QED
    BY <1>1, <1>2

LEMMA SlotsOfSame ==
    ASSUME NEW T, NEW ls \in Seq(T), NEW ms, Len(ms) = Len(ls), DOMAIN ms = DOMAIN ls,
           \A i \in DOMAIN ls : ms[i].name = ls[i].name /\ ms[i].depth = ls[i].depth
    PROVE  SlotsOf(ms) = SlotsOf(ls)
  BY DEF SlotsOf, Variable

LEMMA SlotsOfAppend ==
    ASSUME NEW T, NEW ls \in Seq(T), NEW l \in T, NEW vs \in Seq(Slots), NEW x \in Slots,
           SlotsOf(ls) = vs, x = Variable(l)
    PROVE  SlotsOf(Append(ls, l)) = Append(vs, x)
  <1>1. PICK n \in Nat : n = Len(ls)
    OBVIOUS
  <1>2. PICK m : m = Append(ls, l)
    OBVIOUS
  <1>3. /\ m \in Seq(T) /\ Len(m) = n + 1 /\ m[n + 1] = l /\ \A i \in 1 .. n : m[i] = ls[i]
    BY <1>1, <1>2
  <1>4. Len(vs) = n /\ \A i \in 1 .. n : vs[i] = Variable(ls[i])
    BY <1>1, SlotsOfIs DEF Variable
  <1>5. PICK u : u = SlotsOf(m)
    OBVIOUS
  <1>6. u = [i \in 1 .. n + 1 |-> Variable(m[i])]
    BY <1>3, <1>5, SlotsOfIs DEF Variable
  <1>7. \A i \in 1 .. n + 1 : u[i] = Append(vs, x)[i]
    <2> TAKE i \in 1 .. n + 1
    <2>1. CASE i \in 1 .. n
      BY <1>3, <1>4, <1>6, <2>1
    <2>2. CASE i = n + 1
      BY <1>3, <1>4, <1>6, <2>2
    <2>3. i \in 1 .. n \/ i = n + 1
      BY <1>1
    <2> QED BY <2>1, <2>2, <2>3
  <1>8. Append(vs, x) \in Seq(Slots) /\ Len(Append(vs, x)) = n + 1
    BY <1>4
  <1>9. u = Append(vs, x)
    <2>1. PICK v : v = Append(vs, x)
      OBVIOUS
    <2>2. v \in Seq(Slots) /\ Len(v) = n + 1 /\ \A i \in 1 .. n + 1 : u[i] = v[i]
      BY <1>7, <1>8, <2>1
    <2>3. v = [i \in 1 .. n + 1 |-> v[i]]
      BY ONLY <2>2
    <2>4. u = v
      BY ONLY <1>6, <2>2, <2>3
    <2> QED BY <2>1, <2>4
  <1> QED
    BY <1>2, <1>5, <1>9

LEMMA LocalFacts ==
    ASSUME IInv
    PROVE  /\ language \in Languages /\ depth \in Nat
           /\ locals \in Seq(LocalRecords(Names)) /\ LocalsOK(Names, locals, depth)
  BY FunctionFacts, DepthIsNat DEF IInv, LocalsOK, Ready

LEMMA LocalIs ==
    ASSUME NEW name \in Names \cup HiddenNames, NEW d \in Nat
    PROVE  /\ Local(name, d) \in LocalRecords(Names) /\ Variable(Local(name, d)) = <<name, d>>
           /\ ~Local(name, d).initialized
  BY DEF Local, LocalRecords, Variable

LEMMA CompileLetStep ==
    ASSUME IInv, NEW a, NEW z, Laid(todo, a, z), Done(z), Matches(a), CompileLet,
           hadError = "none", hadError' = "none"
    PROVE  InStep'
  <1>1. PICK name \in Names :
            /\ TaskIs("statements")
            /\ todo' = <<Expr, IF depth > 0 THEN Do("mark") ELSE DefineGlobal>> \o todo
            /\ hadError' = (IF depth > 0 /\ Redeclared(locals, name, depth)
                            THEN Complain("redeclared") ELSE hadError)
            /\ locals' = (IF depth > 0 /\ ~(depth > 0 /\ Redeclared(locals, name, depth))
                          THEN Append(locals, Local(name, depth)) ELSE locals)
            /\ UNCHANGED <<depth, outer, loops, point, jumps>>
    BY DEF CompileLet, Statement
  <1>2. ~(depth > 0 /\ Redeclared(locals, name, depth))
    BY <1>1 DEF Complain
  <1>3. CASE ~(depth > 0)
    <2>1. /\ TaskIs("statements") /\ todo' = <<Expr, Emit(1, 0)>> \o todo
          /\ UNCHANGED <<locals, depth, outer, loops, point, jumps>>
      BY <1>1, <1>3 DEF DefineGlobal
    <2>2. \A p \in Places : \A js \in Seq(Piles) : ~p.ended /\ p.next = <<>>
              => Laid(<<Expr, Emit(1, 0)>>, Layout(p, 0, "any", js), Layout(p, 0, "any", js))
      BY LaidPopped, LooseWords
    <2> QED BY <2>1, <2>2, PlainStatement
  <1>4. CASE depth > 0
    <2>1. /\ TaskIs("statements") /\ todo' = <<Expr, Do("mark")>> \o todo
          /\ locals' = Append(locals, Local(name, depth))
          /\ UNCHANGED <<depth, outer, loops, point, jumps>>
      BY <1>1, <1>2, <1>4
    <2>2. todo # <<>> /\ Head(todo).do = "statements"
      BY <1>1 DEF TaskIs, Task
    <2>3. /\ a.place \in Places /\ a.pending \in Seq(Piles) /\ Roomy(a.place) /\ ~a.place.ended
          /\ a.place.next = <<>> /\ a.temps = 0
      BY <2>2, StatementFacts
    <2>4. PICK p \in Places : p = a.place
      BY <2>3
    <2>5. PICK vs \in Seq(Slots) : CurrentMatches(a, vs)
      BY DEF Matches
    <2>6. /\ SlotsOf(locals) = vs /\ p.vars = vs /\ depth = p.depth /\ Is(point, StackOf(vs, 0))
      BY <2>3, <2>4, <2>5 DEF CurrentMatches
    <2>7. PICK x : x = <<name, depth>>
      OBVIOUS
    <2>8. x \in Slots /\ x[2] = p.depth
      BY <2>6, <2>7, KnownNames, LocalFacts DEF Slots
    <2>9. PICK c : c = Layout(Expecting(p, x), 0, "any", a.pending)
      OBVIOUS
    <2>10. Laid(<<Expr, Do("mark")>>, c, Layout(Gaining(p, x), 0, "any", a.pending))
      BY <2>3, <2>4, <2>8, <2>9, LaidDeclared, LooseWords
    <2>11. PICK q : q = Expecting(p, x)
      OBVIOUS
    <2>12. /\ q.vars = p.vars /\ q.next = <<x>> /\ q.depth = p.depth /\ q.ended = FALSE
           /\ q.saved = p.saved /\ q.loops = p.loops
      BY <2>11, ExpectingParts
    <2>13. c.place = q /\ c.temps = 0 /\ c.then = "any" /\ c.pending = a.pending
      BY <2>9, <2>11, LayoutFields
    <2>14. PICK l : l = Local(name, depth)
      OBVIOUS
    <2>15. l \in LocalRecords(Names) /\ Variable(l) = x /\ ~l.initialized
      BY <2>7, <2>14, LocalIs, LocalFacts
    <2>16. SlotsOf(locals') = vs \o <<x>>
      <3>1. SlotsOf(Append(locals, l)) = Append(vs, x)
        BY <2>6, <2>8, <2>15, SlotsOfAppend, LocalFacts
      <3>2. Append(vs, x) = vs \o <<x>>
        BY <2>8
      <3> QED BY <2>1, <2>14, <3>1, <3>2
    <2>17. ~LastOf(locals').initialized
      <3>1. LastOf(locals') = l
        BY <2>1, <2>14, <2>15, LocalFacts DEF LastOf
      <3> QED BY <2>15, <3>1
    <2>18. CurrentMatches(c, vs)'
      <3>1. Len(<<x>>) = 1
        OBVIOUS
      <3> QED BY <2>1, <2>6, <2>12, <2>13, <2>16, <2>17, <3>1 DEF CurrentMatches
    <2>19. OuterMatches(c)' /\ LoopsMatch(c)' /\ JumpsMatch(c)'
      BY <2>1, <2>4, <2>12, <2>13, OuterKept, LoopsKept, JumpsKept DEF Matches
    <2>20. Matches(c)'
      BY <2>18, <2>19 DEF Matches
    <2>21. /\ Gaining(p, x) \in Places /\ Roomy(Gaining(p, x)) /\ ~Gaining(p, x).ended
           /\ Gaining(p, x).next = <<>> /\ Ended(Gaining(p, x)) = Ended(p)
      BY <2>3, <2>4, <2>8, GainingPlace
    <2> QED BY <2>1, <2>4, <2>10, <2>20, <2>21, StatementStep
  <1> QED
    BY <1>3, <1>4

(* Points without results are those of the slots.                          *)
LEMMA StackOfNone ==
    ASSUME NEW vs \in Seq(Slots)
    PROVE  StackOf(vs, 0) = vs
  <1>1. [i \in 1 .. 0 |-> Temp] = <<>>
    OBVIOUS
  <1> QED
    BY <1>1 DEF StackOf

(* A loop that begins where a statement may begin.                         *)
LEMMA LoopedMatches ==
    ASSUME NEW a, Matches(a), NEW p \in Places, p = a.place, a.temps = 0, ~p.ended, p.next = <<>>,
           NEW js, js = a.pending, NEW w, w # "patch", NEW start, Is(start, p.vars), Shapes,
           loops' = Append(loops, Loop(start)), UNCHANGED <<locals, depth, outer, point, jumps>>
    PROVE  Matches(Layout(Looped(p), 0, w, js))'
  <1>1. PICK q : q = Looped(p)
    OBVIOUS
  <1>2. PICK s : s = LoopShape(p)
    OBVIOUS
  <1>3. /\ q.vars = p.vars /\ q.next = p.next /\ q.depth = p.depth /\ q.ended = p.ended
        /\ q.saved = p.saved /\ q.loops = Append(p.loops, s)
    BY <1>1, <1>2, LoopedParts
  <1>4. PICK b : b = Layout(q, 0, w, js)
    OBVIOUS
  <1>5. b.place = q /\ b.temps = 0 /\ b.then # "patch" /\ b.pending = js
    BY <1>4, LayoutFields
  <1>6. PICK vs \in Seq(Slots) : CurrentMatches(a, vs)
    BY DEF Matches
  <1>7. CurrentMatches(b, vs)'
    BY <1>3, <1>5, <1>6, CurrentKept
  <1>8. OuterMatches(b)' /\ JumpsMatch(b)'
    BY <1>3, <1>5, OuterKept, JumpsKept DEF Matches
  <1>9. depth = p.depth /\ Level = Len(p.saved)
    BY <1>6 DEF CurrentMatches, Matches, OuterMatches, Level
  <1>10. LoopsMatch(b)'
    <2>1. PICK l : l = Loop(start)
      OBVIOUS
    <2>2. l.level = Level /\ l.depth = depth /\ l.start = start /\ l.breaks = {}
      BY <2>1 DEF Loop
    <2>3. s.level = Len(p.saved) /\ s.depth = p.depth /\ s.vars = p.vars
      BY <1>2 DEF LoopShape
    <2>4. LoopMatches(l, s)
      BY <1>9, <2>2, <2>3 DEF LoopMatches
    <2>5. PICK n \in Nat : n = Len(loops)
      BY SequenceFacts DEF Shapes
    <2>6. /\ Len(p.loops) = n /\ p.loops \in Seq(LoopShapes)
          /\ \A i \in 1 .. n : LoopMatches(loops[i], p.loops[i])
      BY <2>5, PlaceFacts DEF Matches, LoopsMatch
    <2>7. Len(loops') = n + 1 /\ loops'[n + 1] = l /\ \A i \in 1 .. n : loops'[i] = loops[i]
      BY <2>1, <2>5, AppendFacts DEF Shapes
    <2>8. /\ Len(q.loops) = n + 1 /\ q.loops[n + 1] = s
          /\ \A i \in 1 .. n : q.loops[i] = p.loops[i]
      <3>1. IsSequence(p.loops)
        BY <2>6 DEF IsSequence
      <3> QED BY <1>3, <2>6, <3>1, AppendFacts
    <2>9. \A i \in 1 .. n + 1 : LoopMatches(loops'[i], q.loops[i])
      <3> TAKE i \in 1 .. n + 1
      <3>1. i = n + 1 \/ i \in 1 .. n
        BY <2>5
      <3> QED BY <2>4, <2>6, <2>7, <2>8, <3>1
    <2> QED BY <1>5, <2>7, <2>8, <2>9 DEF LoopsMatch, LoopMatches
  <1>11. Matches(b)'
    BY <1>7, <1>8, <1>10 DEF Matches
  <1> QED
    BY <1>1, <1>4, <1>11

LEMMA CompileWhileStep ==
    ASSUME Shapes, NEW a, NEW z, Laid(todo, a, z), Done(z), Matches(a), CompileWhile
    PROVE  InStep'
  <1>1. PICK ts : ts = <<Expr, JumpIfFalse, Pop, Block, Do("loop"), Patch(1), Pop, Do("endLoop")>>
    OBVIOUS
  <1>2. /\ TaskIs("statements") /\ todo' = ts \o todo
        /\ loops' = Append(loops, Loop(point))
        /\ UNCHANGED <<locals, depth, outer, point, jumps>>
    BY <1>1 DEF CompileWhile, Statement
  <1>3. todo # <<>> /\ Head(todo).do = "statements"
    BY <1>2 DEF TaskIs, Task
  <1>4. /\ a.place \in Places /\ a.pending \in Seq(Piles) /\ Roomy(a.place) /\ ~a.place.ended
        /\ a.place.next = <<>> /\ a.temps = 0
    BY <1>3, StatementFacts
  <1>5. PICK p \in Places : p = a.place
    BY <1>4
  <1>6. Is(point, p.vars)
    BY <1>4, <1>5, StackOfNone DEF Matches, CurrentMatches
  <1>7. PICK c : c = Layout(Looped(p), 0, "any", a.pending)
    OBVIOUS
  <1>8. Laid(ts, c, Layout(p, 0, "any", a.pending))
    BY <1>1, <1>4, <1>5, <1>7, LaidWhile, LooseWords
  <1>9. Matches(c)'
    BY <1>2, <1>4, <1>5, <1>6, <1>7, LoopedMatches
  <1> QED
    BY <1>2, <1>4, <1>5, <1>8, <1>9, StatementStep

----------------------------------------------------------------------------
(* Break and continue.                                                     *)
LEMMA OwnLoop ==
    ASSUME IInv, RegularJump, CompileBreak \/ CompileContinue, loops # <<>>
    PROVE  loops[Len(loops)].level = Level /\ ~LocalsToDrop
  <1>1. Around = "loop" /\ ~LocalsToDrop
    BY ONLY RegularJump, CompileBreak \/ CompileContinue, loops # <<>>, Zenon DEF RegularJump
  <1>2. PICK a, z : Typed(Names, todo, a, z) /\ Fits(a)
    BY DEF IInv, Ready, Annotated
  <1>3. a \in Contexts
    BY <1>2 DEF Typed, Annotates
  <1>4. TaskIs("statements")
    BY ONLY CompileBreak \/ CompileContinue, Zenon
    DEF CompileBreak, CompileContinue, CompileJump, Statement
  <1> QED
    BY ONLY <1>1, <1>2, <1>3, <1>4, LoopIsAround, InLoopFound

LEMMA JumpsAtLoop ==
    ASSUME IInv, RegularJump, CompileBreak \/ CompileContinue, loops # <<>>, NEW a, Matches(a),
           NEW p \in Places, p = a.place, ~p.ended, p.next = <<>>
    PROVE  AtLoop(p)
  <1>1. PICK n \in Nat : n = Len(loops)
    BY SequenceFacts DEF IInv, Shapes
  <1>2. n > 0
    BY <1>1, SequenceFacts DEF IInv, Shapes
  <1>3. loops[n].level = Level /\ ~LocalsToDrop
    BY ONLY <1>1, IInv, RegularJump, CompileBreak \/ CompileContinue, loops # <<>>, OwnLoop
  <1>4. /\ Len(p.loops) = n /\ p.loops \in Seq(LoopShapes)
        /\ p.loops[n].level = loops[n].level /\ p.loops[n].depth = loops[n].depth
    BY ONLY <1>1, <1>2, p \in Places, p = a.place, Matches(a), n \in Nat, PlaceFacts
    DEF Matches, LoopsMatch, LoopMatches
  <1>5. Level = Len(p.saved)
    BY ONLY p = a.place, Matches(a) DEF Matches, OuterMatches, Level
  <1>6. PICK l : l = p.loops[n]
    OBVIOUS
  <1>7. l.level = Len(p.saved) /\ l.depth \in Nat /\ l.vars = Cut(p.vars, l.depth + 1)
    BY <1>2, <1>3, <1>4, <1>5, <1>6, OwnLoops
  <1>8. SlotsOf(locals) = p.vars /\ p.vars \in Seq(Slots)
    <2>1. PICK vs \in Seq(Slots) : CurrentMatches(a, vs)
      BY DEF Matches
    <2> QED BY <2>1 DEF CurrentMatches
  <1>9. \A i \in 1 .. Len(p.vars) : p.vars[i][2] < l.depth + 1
    <2> TAKE i \in 1 .. Len(p.vars)
    <2>1. i \in DOMAIN locals /\ p.vars[i][2] = locals[i].depth
      BY <1>8, SlotsOfIs, LocalFacts
    <2>2. ~(locals[i].depth > l.depth)
      BY <1>1, <1>3, <1>4, <1>6, <2>1 DEF LocalsToDrop
    <2>3. p.vars[i][2] \in Nat
      BY <1>8, SlotFacts
    <2> QED BY <1>7, <2>1, <2>2, <2>3
  <1>10. Cut(p.vars, l.depth + 1) = p.vars
    <2>1. l.depth + 1 \in Nat
      BY <1>7
    <2> QED BY <1>8, <1>9, <2>1, CutNone
  <1> QED
    BY <1>2, <1>4, <1>6, <1>7, <1>10 DEF AtLoop, LastOf

LEMMA CompileJumpStep ==
    ASSUME IInv, RegularJump, NEW a, NEW z, Laid(todo, a, z), Done(z), Matches(a),
           CompileBreak \/ CompileContinue, hadError = "none", hadError' = "none"
    PROVE  InStep'
  <1>1. PICK t \in {Do("break"), Do("continue")} :
            /\ TaskIs("statements")
            /\ todo' = (IF loops = <<>> THEN <<>> ELSE <<t>>) \o todo
            /\ hadError' = (IF loops = <<>> THEN Complain("outsideLoop") ELSE hadError)
            /\ UNCHANGED <<locals, depth, outer, loops, point, jumps>>
    BY DEF CompileBreak, CompileContinue, CompileJump, Statement
  <1>2. loops # <<>>
    BY <1>1 DEF Complain
  <1>3. todo # <<>> /\ Head(todo).do = "statements"
    BY <1>1 DEF TaskIs, Task
  <1>4. /\ a.place \in Places /\ a.pending \in Seq(Piles) /\ Roomy(a.place) /\ ~a.place.ended
        /\ a.place.next = <<>> /\ a.temps = 0
    BY <1>3, StatementFacts
  <1>5. PICK p \in Places : p = a.place
    BY <1>4
  <1>6. AtLoop(p)
    BY <1>1, <1>2, <1>4, <1>5, JumpsAtLoop
  <1>7. PICK c : c = Layout(p, 0, "any", a.pending)
    OBVIOUS
  <1>8. Laid(<<t>>, c, c)
    <2>1. c \in Layouts
      BY <1>4, <1>7, LayoutIs, LooseWords
    <2>2. 0 \in Nat
      OBVIOUS
    <2>3. Yields(t, c, c)
      BY <1>4, <1>5, <1>6, <1>7, <2>2, ExitYields, LooseWords
    <2> QED BY <2>1, <2>3, Laid1
  <1>9. Matches(c)'
    BY <1>1, <1>4, <1>5, <1>7, MatchesKept
  <1>10. todo' = <<t>> \o todo
    BY <1>1, <1>2
  <1> QED
    BY <1>1, <1>4, <1>5, <1>7, <1>8, <1>9, <1>10, StatementStep


----------------------------------------------------------------------------
(* Functions.                                                              *)
LEMMA SlotsOfMarked ==
    ASSUME NEW ns, NEW ls \in Seq(LocalRecords(ns))
    PROVE  /\ SlotsOf(Marked(ls)) = SlotsOf(ls) /\ Marked(ls) \in Seq(LocalRecords(ns))
           /\ Len(Marked(ls)) = Len(ls)
  <1>1. CASE ls = <<>>
    BY <1>1 DEF Marked
  <1>2. CASE ls # <<>>
    <2>1. PICK n \in Nat : n = Len(ls) /\ n > 0
      BY <1>2
    <2>2. PICK m : m = [ls EXCEPT ![n].initialized = TRUE]
      OBVIOUS
    <2>3. n \in DOMAIN ls /\ ls[n] \in LocalRecords(ns)
      BY <2>1
    <2>4. PICK r : r = [ls[n] EXCEPT !.initialized = TRUE]
      OBVIOUS
    <2>5. r \in LocalRecords(ns) /\ r.name = ls[n].name /\ r.depth = ls[n].depth
      BY ONLY <2>3, <2>4 DEF LocalRecords
    <2>6. m = [ls EXCEPT ![n] = r]
      BY ONLY <2>2, <2>4
    <2>7. /\ m \in Seq(LocalRecords(ns)) /\ Len(m) = n /\ DOMAIN m = DOMAIN ls
          /\ \A i \in DOMAIN ls : m[i] = IF i = n THEN r ELSE ls[i]
      BY <2>1, <2>3, <2>5, <2>6
    <2>8. \A i \in DOMAIN ls : m[i].name = ls[i].name /\ m[i].depth = ls[i].depth
      BY <2>5, <2>7
    <2>9. SlotsOf(m) = SlotsOf(ls)
      BY <2>1, <2>7, <2>8, SlotsOfSame
    <2> QED BY <1>2, <2>1, <2>2, <2>7, <2>9 DEF Marked
  <1> QED
    BY <1>1, <1>2

(* A sequence is its first element and what comes after it.                *)
LEMMA FirstAndRest ==
    ASSUME NEW S, NEW v \in Seq(S), NEW u \in Seq(S), NEW n \in Nat, Len(v) = n + 1, Len(u) = n,
           \A i \in 1 .. n : u[i] = v[i + 1]
    PROVE  v = <<v[1]>> \o u
  <1>1. PICK h : h = <<v[1]>>
    OBVIOUS
  <1>2. h \in Seq(S) /\ Len(h) = 1 /\ h[1] = v[1]
    <2>1. v[1] \in S
      OBVIOUS
    <2> QED BY ONLY <1>1, <2>1
  <1>3. IsSequence(h) /\ IsSequence(u)
    BY ONLY <1>2, u \in Seq(S) DEF IsSequence
  <1>4. PICK w : w = h \o u
    OBVIOUS
  <1>5. w \in Seq(S)
    BY ONLY <1>2, <1>4, u \in Seq(S)
  <1>6. /\ Len(w) = 1 + n /\ w[1] = v[1] /\ \A i \in 1 .. n : w[1 + i] = u[i]
    <2>1. /\ Len(w) = Len(h) + Len(u) /\ \A i \in 1 .. Len(h) : w[i] = h[i]
          /\ \A i \in 1 .. Len(u) : w[Len(h) + i] = u[i]
      BY ONLY <1>3, <1>4, ConcatFacts
    <2> QED BY ONLY <1>2, <2>1, Len(u) = n
  <1>7. ASSUME NEW i \in 1 .. n + 1 PROVE w[i] = v[i]
    <2>1. i # 1 => i - 1 \in 1 .. n /\ 1 + (i - 1) = i /\ (i - 1) + 1 = i
      OBVIOUS
    <2>2. CASE i = 1
      BY ONLY <1>6, <2>2
    <2>3. CASE i # 1
      <3>1. w[1 + (i - 1)] = u[i - 1]
        BY ONLY <1>6, <2>1, <2>3
      <3>2. u[i - 1] = v[(i - 1) + 1]
        BY <2>1, <2>3
      <3> QED BY ONLY <2>1, <2>3, <3>1, <3>2
    <2> QED BY ONLY <2>2, <2>3
  <1>8. w = v
    BY ONLY <1>5, <1>6, <1>7, v \in Seq(S), Len(v) = n + 1, n \in Nat
  <1> QED
    BY ONLY <1>1, <1>4, <1>8, Zenon

LEMMA SlotsOfAdded ==
    ASSUME NEW ls \in Seq(LocalRecords(Names)), language \in Languages,
           NEW name \in Names \cup HiddenNames, NEW d \in Nat, NEW vs \in Seq(Slots),
           SlotsOf(ls) = vs
    PROVE  /\ SlotsOf(AddLocal(ls, name, d)) = Append(vs, <<name, d>>)
           /\ <<name, d>> \in Slots /\ Len(AddLocal(ls, name, d)) = Len(vs) + 1
  <1>1. PICK l : l = Local(name, d)
    OBVIOUS
  <1>2. PICK x : x = <<name, d>>
    OBVIOUS
  <1>3. l \in LocalRecords(Names) /\ Variable(l) = x
    BY <1>1, <1>2, LocalIs
  <1>4. x \in Slots
    BY <1>2, KnownNames DEF Slots
  <1>5. PICK m : m = Append(ls, l)
    OBVIOUS
  <1>6. m \in Seq(LocalRecords(Names)) /\ Len(m) = Len(ls) + 1
    BY <1>3, <1>5
  <1>7. SlotsOf(m) = Append(vs, x)
    BY <1>3, <1>4, <1>5, SlotsOfAppend
  <1>8. SlotsOf(Marked(m)) = SlotsOf(m) /\ Len(Marked(m)) = Len(m)
    BY <1>6, SlotsOfMarked
  <1>9. Len(vs) = Len(ls)
    BY SlotsOfIs
  <1> QED
    BY <1>1, <1>2, <1>4, <1>5, <1>6, <1>7, <1>8, <1>9 DEF AddLocal

(* Parameters have the slots after the callee's.                           *)
LEMMA ParameterSlots ==
    ASSUME NEW params \in Seq(Names), \A i, j \in DOMAIN params : params[i] = params[j] => i = j,
           language \in Languages, NEW vs,
           vs = <<Callee>> \o [i \in DOMAIN params |-> <<params[i], 1>>]
    PROVE  /\ SlotsOf(ParameterLocals(params)) = vs /\ vs \in Seq(Slots)
           /\ \A i \in 1 .. Len(vs) : vs[i][2] = 1
  <1> DEFINE V(n) == [i \in 1 .. n + 1 |-> IF i = 1 THEN Callee ELSE <<params[i - 1], 1>>]
  <1>1. PICK N \in Nat : N = Len(params) /\ DOMAIN params = 1 .. N
    OBVIOUS
  <1>2. PICK S : S = {ls \in Seq(LocalRecords(Names)) : LocalsOK(Names, ls, 1)}
    OBVIOUS
  <1>3. \A ls : ls \in S <=> LocalsOK(Names, ls, 1)
    BY <1>2 DEF LocalsOK
  <1>4. LocalsOK(Names, <<>>, 1)
    <2>1. <<>> \in Seq(LocalRecords(Names)) /\ \A i \in 1 .. Len(<<>>) : FALSE
      OBVIOUS
    <2> QED BY <2>1 DEF LocalsOK
  <1>5. NoName \in Names \cup HiddenNames /\ NoName \in AllNames /\ NoName \notin Names /\ 1 \in Nat
    <2>1. HiddenNames \cap Names = {}
      BY LanguageFacts
    <2>2. NoName \in HiddenNames
      BY DEF HiddenNames
    <2> QED BY <2>1, <2>2, HiddenKnown
  <1>6. AddLocal(<<>>, NoName, 1) \in S
    BY <1>3, <1>4, <1>5, LocalsAdded
  <1>7. ASSUME NEW n \in 1 .. Len(params), NEW ls \in S
        PROVE  AddParameter(ls, params[n]) \in S
    <2>1. LocalsOK(Names, ls, 1) /\ params[n] \in Names \cup HiddenNames
      BY <1>1, <1>3
    <2>2. LocalsOK(Names, Marked(ls), 1) /\ LocalsOK(Names, AddLocal(ls, params[n], 1), 1)
      BY <1>5, <2>1, LocalsAdded, LocalsMarked
    <2> QED BY <1>3, <2>2 DEF AddParameter
  <1>8. PICK g : /\ g[0] = AddLocal(<<>>, NoName, 1)
                 /\ \A n \in 0 .. N : g[n] \in S
                 /\ \A n \in 1 .. N : g[n] = AddParameter(g[n - 1], params[n])
                 /\ ParameterLocals(params) = g[N]
    <2>1. N = Len(params) /\ Len(params) \in Nat
      BY <1>1
    <2>2. \E h : /\ h[0] = AddLocal(<<>>, NoName, 1)
                 /\ \A n \in 0 .. Len(params) : h[n] \in S
                 /\ \A n \in 1 .. Len(params) : h[n] = AddParameter(h[n - 1], params[n])
                 /\ ParameterLocals(params) = h[Len(params)]
      BY ONLY <1>6, <1>7, <2>1, ParameterSteps
    <2> QED BY ONLY <2>1, <2>2
  <1>9. ASSUME NEW n \in 0 .. N
        PROVE  /\ V(n) \in Seq(Slots) /\ Len(V(n)) = n + 1 /\ V(n)[1] = Callee
               /\ \A i \in 1 .. n : V(n)[i + 1] = <<params[i], 1>>
               /\ \A i \in 1 .. n + 1 : V(n)[i][2] = 1
    <2>1. Callee \in Slots /\ Callee[2] = 1
      BY <1>5 DEF Callee, Slots
    <2>2. \A i \in 1 .. n + 1 : i # 1 => i - 1 \in 1 .. N /\ <<params[i - 1], 1>> \in Slots
      BY <1>1, KnownNames DEF Slots
    <2>3. V(n) \in [1 .. n + 1 -> Slots]
      BY <2>1, <2>2
    <2>4. \A i \in 1 .. n + 1 : V(n)[i] = IF i = 1 THEN Callee ELSE <<params[i - 1], 1>>
      OBVIOUS
    <2>5. \A i \in 1 .. n : V(n)[i + 1] = <<params[i], 1>>
      BY <2>4
    <2> HIDE DEF V
    <2>6. V(n) \in Seq(Slots) /\ Len(V(n)) = n + 1
      BY <2>3
    <2>7. V(n)[1] = Callee
      <3>1. 1 \in 1 .. n + 1
        BY <1>1
      <3> QED BY <2>4, <3>1
    <2>8. ASSUME NEW i \in 1 .. n + 1 PROVE V(n)[i][2] = 1
      <3>1. CASE i = 1
        BY <2>1, <2>4, <3>1
      <3>2. CASE i # 1
        <4>1. V(n)[i] = <<params[i - 1], 1>>
          BY <2>4, <3>2
        <4> QED BY <4>1
      <3> QED BY <3>1, <3>2
    <2> QED BY <2>5, <2>6, <2>7, <2>8
  <1> HIDE DEF V
  <1>10. PICK T : T = {n \in 0 .. N : SlotsOf(g[n]) = V(n)}
    OBVIOUS
  <1>11. 0 \in T
    <2>1. <<>> \in Seq(LocalRecords(Names)) /\ <<>> \in Seq(Slots) /\ SlotsOf(<<>>) = <<>>
      BY DEF SlotsOf
    <2>2. SlotsOf(g[0]) = Append(<<>>, <<NoName, 1>>)
      <3>1. PICK ls \in Seq(LocalRecords(Names)) : ls = <<>> /\ SlotsOf(ls) = <<>>
        BY <2>1
      <3>2. PICK us \in Seq(Slots) : us = <<>>
        BY <2>1
      <3>3. SlotsOf(AddLocal(ls, NoName, 1)) = Append(us, <<NoName, 1>>)
        BY <1>5, <3>1, <3>2, SlotsOfAdded
      <3> QED BY <1>8, <3>1, <3>2, <3>3
    <2>3. 0 \in 0 .. N
      BY <1>1
    <2>4. V(0) \in Seq(Slots) /\ Len(V(0)) = 1 /\ V(0)[1] = Callee
      BY <1>9, <2>3
    <2>5. V(0) = <<Callee>>
      BY <2>4
    <2> QED BY <1>10, <2>2, <2>3, <2>5 DEF Callee
  <1>12. ASSUME NEW n \in 0 .. (N - 1), n \in T PROVE n + 1 \in T
    <2>1. PICK m : m = n + 1
      OBVIOUS
    <2>2. m \in 1 .. N /\ m \in 0 .. N /\ m - 1 = n /\ n \in 0 .. N
      BY <1>1, <2>1
    <2>3. PICK ls : ls = g[n]
      OBVIOUS
    <2>4. ls \in Seq(LocalRecords(Names)) /\ SlotsOf(ls) = V(n) /\ g[m] = AddParameter(ls, params[m])
      BY <1>3, <1>8, <1>10, <1>12, <2>2, <2>3 DEF LocalsOK
    <2>5. params[m] \in Names
      BY <1>1, <2>2
    <2>6. ~Redeclared(ls, params[m], 1)
      <3>1. ASSUME NEW i \in DOMAIN ls
            PROVE  ls[i].name # params[m]
        <4>1. /\ Len(V(n)) = n + 1 /\ V(n)[1] = Callee
              /\ \A k \in 1 .. n : V(n)[k + 1] = <<params[k], 1>>
          BY <1>9, <2>2
        <4>2. /\ DOMAIN ls = 1 .. n + 1
              /\ \A k \in 1 .. n + 1 : V(n)[k] = <<ls[k].name, ls[k].depth>>
          BY <2>4, <4>1, SlotsOfIs
        <4>3. CASE i = 1
          <5>1. <<ls[1].name, ls[1].depth>> = Callee
            <6>1. 1 \in 1 .. n + 1
              BY <2>2
            <6> QED BY <4>1, <4>2, <6>1
          <5>2. ls[1].name = NoName
            BY <5>1 DEF Callee
          <5> QED BY <1>5, <2>5, <4>3, <5>2
        <4>4. CASE i # 1
          <5>1. PICK k \in 1 .. n : i = k + 1
            <6>1. i - 1 \in 1 .. n /\ i = (i - 1) + 1
              BY <4>2, <4>4
            <6> QED BY <6>1
          <5>2. ls[i].name = params[k]
            BY <4>1, <4>2, <5>1
          <5>3. k \in DOMAIN params /\ m \in DOMAIN params /\ k # m
            BY <1>1, <2>2, <5>1
          <5> QED BY <5>2, <5>3
        <4> QED BY <4>3, <4>4
      <3> QED BY <3>1 DEF Redeclared
    <2>7. g[m] = AddLocal(ls, params[m], 1)
      BY <2>4, <2>6 DEF AddParameter
    <2>8. V(n) \in Seq(Slots) /\ V(m) \in Seq(Slots) /\ Len(V(n)) = n + 1 /\ Len(V(m)) = m + 1
      BY <1>9, <2>2
    <2>9. PICK x : x = <<params[m], 1>>
      OBVIOUS
    <2>10. SlotsOf(g[m]) = Append(V(n), x) /\ x \in Slots
      <3>1. PICK w \in Seq(Slots) : w = V(n)
        BY <2>8
      <3>2. PICK name \in Names \cup HiddenNames : name = params[m]
        BY <2>5
      <3>3. PICK d \in Nat : d = 1
        OBVIOUS
      <3>4. SlotsOf(AddLocal(ls, name, d)) = Append(w, <<name, d>>) /\ <<name, d>> \in Slots
        <4>1. ls \in Seq(LocalRecords(Names)) /\ SlotsOf(ls) = w
          BY <2>4, <3>1
        <4> QED BY ONLY <4>1, language \in Languages, name \in Names \cup HiddenNames, d \in Nat,
                        w \in Seq(Slots), SlotsOfAdded
      <3> QED BY ONLY <2>7, <2>9, <3>1, <3>2, <3>3, <3>4, Zenon
    <2>11. Append(V(n), x) = V(m)
      <3>1. ASSUME NEW i \in 1 .. m + 1
            PROVE  Append(V(n), x)[i] = V(m)[i]
        <4>1. CASE i = 1
          BY <1>9, <2>2, <2>8, <2>10, <4>1
        <4>2. CASE i # 1 /\ i # m + 1
          <5>1. PICK k \in 1 .. n : i = k + 1
            <6>1. i - 1 \in 1 .. n /\ i = (i - 1) + 1
              BY <2>1, <2>2, <4>2
            <6> QED BY <6>1
          <5>2. k \in 1 .. m /\ V(n)[k + 1] = <<params[k], 1>> /\ V(m)[k + 1] = <<params[k], 1>>
            <6>1. k \in 1 .. m
              BY <2>1, <2>2, <5>1
            <6>2. \A j \in 1 .. n : V(n)[j + 1] = <<params[j], 1>>
              BY <1>9, <2>2
            <6>3. \A j \in 1 .. m : V(m)[j + 1] = <<params[j], 1>>
              BY <1>9, <2>2
            <6> QED BY <5>1, <6>1, <6>2, <6>3
          <5>3. Append(V(n), x)[k + 1] = V(n)[k + 1]
            BY <2>2, <2>8, <5>1
          <5> QED BY <5>1, <5>2, <5>3
        <4>3. CASE i = m + 1
          <5>1. V(m)[m + 1] = x
            <6>1. m \in 1 .. m
              BY <2>2
            <6>2. \A j \in 1 .. m : V(m)[j + 1] = <<params[j], 1>>
              BY <1>9, <2>2
            <6> QED BY <2>9, <6>1, <6>2
          <5>2. Append(V(n), x)[m + 1] = x
            BY <2>1, <2>2, <2>8
          <5> QED BY <4>3, <5>1, <5>2
        <4> QED BY <4>1, <4>2, <4>3
      <3>2. PICK u : u = Append(V(n), x)
        OBVIOUS
      <3>3. u \in Seq(Slots) /\ Len(u) = m + 1
        BY <2>1, <2>8, <2>10, <3>2
      <3>4. \A i \in 1 .. m + 1 : u[i] = V(m)[i]
        BY <3>1, <3>2
      <3>5. PICK v : v = V(m)
        OBVIOUS
      <3>6. u = v
        BY ONLY <3>3, <3>4, <3>5, <2>8
      <3> QED BY <3>2, <3>5, <3>6
    <2> QED BY <1>10, <2>1, <2>2, <2>10, <2>11
  <1>13. \A n \in 0 .. N : n \in T
    <2>1. 0 \in Nat
      OBVIOUS
    <2> QED BY ONLY <1>1, <1>11, <1>12, <2>1, UpTo
  <1>14. SlotsOf(ParameterLocals(params)) = V(N)
    BY <1>1, <1>8, <1>10, <1>13
  <1>15. V(N) = vs
    <2>1. PICK u : u = [i \in 1 .. N |-> <<params[i], 1>>]
      OBVIOUS
    <2>2. N \in 0 .. N
      BY <1>1
    <2>3. PICK v : v = V(N)
      OBVIOUS
    <2>4. /\ v \in Seq(Slots) /\ Len(v) = N + 1 /\ v[1] = Callee
          /\ \A i \in 1 .. N : v[i + 1] = <<params[i], 1>>
      BY <1>9, <2>2, <2>3
    <2>5. u \in Seq(Slots) /\ Len(u) = N /\ \A i \in 1 .. N : u[i] = v[i + 1]
      <3>1. \A i \in 1 .. N : u[i] = <<params[i], 1>> /\ v[i + 1] \in Slots
        BY <1>1, <2>1, <2>4
      <3>2. \A i \in 1 .. N : u[i] = v[i + 1]
        <4>1. \A i \in 1 .. N : u[i] = <<params[i], 1>>
          BY <2>1
        <4> QED BY ONLY <2>4, <4>1, Zenon
      <3>3. u \in [1 .. N -> Slots]
        BY <2>1, <3>1, <3>2
      <3>4. u \in Seq(Slots) /\ Len(u) = N
        BY ONLY <1>1, <3>3
      <3> QED BY <3>2, <3>4
    <2>6. v = <<v[1]>> \o u
      <3>1. Len(v) = N + 1 /\ Len(u) = N /\ (\A i \in 1 .. N : u[i] = v[i + 1]) /\ N \in Nat
            /\ v \in Seq(Slots) /\ u \in Seq(Slots)
        BY <1>1, <2>4, <2>5
      <3> QED BY ONLY <3>1, FirstAndRest
    <2> QED BY <1>1, <2>1, <2>3, <2>4, <2>6
  <1>16. N \in 0 .. N
    BY <1>1
  <1> QED
    BY <1>9, <1>14, <1>15, <1>16

(* A new function begins: the one around it waits with its results.        *)
LEMMA EnteredMatches ==
    ASSUME Shapes, NEW a, Matches(a), NEW p \in Places, p = a.place, ~p.ended, NEW n, n = a.temps,
           NEW js, js = a.pending, NEW w, NEW vs \in Seq(Slots), SlotsOf(locals') = vs,
           outer' = Append(outer, [locals |-> locals, upvalues |-> upvalues, depth |-> depth,
                                   point |-> point, open |-> open]),
           depth' = 1, point' = At(vs), UNCHANGED <<loops, jumps>>
    PROVE  Matches(Layout(Entered(p, n, w, vs), 0, "any", js))'
  <1>1. PICK q : q = Entered(p, n, w, vs)
    OBVIOUS
  <1>2. PICK f : f = Frame(p, n, w)
    OBVIOUS
  <1>3. /\ q.vars = vs /\ q.next = <<>> /\ q.depth = 1 /\ ~q.ended
        /\ q.saved = Append(p.saved, f) /\ q.loops = p.loops
    <2>1. /\ Entered(p, n, w, vs).vars = vs /\ Entered(p, n, w, vs).next = <<>>
          /\ Entered(p, n, w, vs).depth = 1 /\ Entered(p, n, w, vs).ended = FALSE
          /\ Entered(p, n, w, vs).saved = Append(p.saved, Frame(p, n, w))
          /\ Entered(p, n, w, vs).loops = p.loops
      BY ONLY TRUE DEF Entered, Place
    <2> QED BY ONLY <1>1, <1>2, <2>1
  <1>4. f.vars = p.vars /\ f.next = p.next /\ f.depth = p.depth /\ f.temps = n
    BY <1>2, FrameParts
  <1>5. PICK b : b = Layout(q, 0, "any", js)
    OBVIOUS
  <1>6. b.place = q /\ b.temps = 0 /\ b.then # "patch" /\ b.pending = js
    BY <1>5, LayoutFields
  <1>7. CurrentMatches(b, vs)'
    <2>1. StackOf(vs, 0) = vs /\ vs \o <<>> = vs
      BY StackOfNone
    <2> QED BY <1>3, <1>6, <2>1 DEF CurrentMatches, Is
  <1>8. LoopsMatch(b)' /\ JumpsMatch(b)'
    BY <1>3, <1>6, LoopsKept, JumpsKept DEF Matches
  <1>9. PICK us \in Seq(Slots) : CurrentMatches(a, us)
    BY DEF Matches
  <1>10. OuterMatches(b)'
    <2>1. PICK o : o = [locals |-> locals, upvalues |-> upvalues, depth |-> depth,
                        point |-> point, open |-> open]
      OBVIOUS
    <2>2. o.locals = locals /\ o.depth = depth /\ o.point = point
      BY <2>1
    <2>3. FrameMatches(o, f)
      BY <1>4, <1>9, <2>2 DEF CurrentMatches, FrameMatches
    <2>4. PICK m \in Nat : m = Len(outer)
      BY SequenceFacts DEF Shapes
    <2>5. /\ Len(p.saved) = m /\ p.saved \in Seq(Frames)
          /\ \A i \in 1 .. m : FrameMatches(outer[i], p.saved[i])
      BY <2>4, PlaceFacts DEF Matches, OuterMatches
    <2>6. Len(outer') = m + 1 /\ outer'[m + 1] = o /\ \A i \in 1 .. m : outer'[i] = outer[i]
      BY <2>1, <2>4, AppendFacts DEF Shapes
    <2>7. /\ Len(q.saved) = m + 1 /\ q.saved[m + 1] = f
          /\ \A i \in 1 .. m : q.saved[i] = p.saved[i]
      <3>1. IsSequence(p.saved)
        BY <2>5 DEF IsSequence
      <3> QED BY <1>3, <2>5, <3>1, AppendFacts
    <2>8. \A i \in 1 .. m + 1 : FrameMatches(outer'[i], q.saved[i])
      <3> TAKE i \in 1 .. m + 1
      <3>1. i = m + 1 \/ i \in 1 .. m
        BY <2>4
      <3> QED BY <2>3, <2>5, <2>6, <2>7, <3>1
    <2> QED BY <1>6, <2>6, <2>7, <2>8 DEF OuterMatches, FrameMatches
  <1>11. Matches(b)'
    BY <1>7, <1>8, <1>10 DEF Matches
  <1> QED
    BY <1>1, <1>5, <1>11

(* The task after a closure is made is a mark, or it is another one.       *)
LEMMA SameYields ==
    ASSUME NEW a, NEW b, NEW c, NEW t, c.place = a.place, c.temps = a.temps,
           c.pending = a.pending, a.then = "any", c.then # "patch", Admits(c.then, t),
           Yields(t, a, b)
    PROVE  Yields(t, c, b)
  <1>1. PICK p : p = a.place
    OBVIOUS
  <1>2. PICK n : n = a.temps
    OBVIOUS
  <1>3. PICK js : js = a.pending
    OBVIOUS
  <1>4. /\ a.place = p /\ c.place = p /\ a.temps = n /\ c.temps = n /\ a.pending = js
        /\ c.pending = js /\ a.then = "any" /\ c.then # "patch"
    BY <1>1, <1>2, <1>3
  <1>5. /\ \A x : With(c, x) = With(a, x)
        /\ \A q : Moved(c, q) = Moved(a, q)
        /\ Clear(c) <=> Clear(a)
    BY ONLY <1>4 DEF With, Moved, Clear
  <1>6. YieldsInstruction(t, a, b) => YieldsInstruction(t, c, b)
    BY ONLY <1>4, <1>5 DEF YieldsInstruction
  <1>7. YieldsOperand(t, a, b) => YieldsOperand(t, c, b)
    BY ONLY <1>4, <1>5 DEF YieldsOperand
  <1>8. YieldsStatement(t, a, b) => YieldsStatement(t, c, b)
    BY ONLY <1>4, <1>5 DEF YieldsStatement
  <1>9. YieldsFor(t, a, b) => YieldsFor(t, c, b)
    BY ONLY <1>4, <1>5 DEF YieldsFor
  <1>10. YieldsReturn(t, a, b) => YieldsReturn(t, c, b)
    BY ONLY <1>4, <1>5 DEF YieldsReturn
  <1>11. YieldsExit(t, a, b) => YieldsExit(t, c, b)
    BY ONLY <1>4, <1>5 DEF YieldsExit
  <1>12. YieldsJump(t, a, b) => YieldsJump(t, c, b)
    BY ONLY <1>4, <1>5 DEF YieldsJump
  <1>13. YieldsPatch(t, a, b) => YieldsPatch(t, c, b)
    BY ONLY <1>4, <1>5 DEF YieldsPatch
  <1>14. YieldsScope(t, a, b) => YieldsScope(t, c, b)
    BY ONLY <1>4, <1>5 DEF YieldsScope
  <1>15. YieldsLocal(t, a, b) => YieldsLocal(t, c, b)
    BY ONLY <1>4, <1>5 DEF YieldsLocal
  <1>16. YieldsLoop(t, a, b) => YieldsLoop(t, c, b)
    BY ONLY <1>4, <1>5 DEF YieldsLoop
  <1>17. YieldsFunction(t, a, b) => YieldsFunction(t, c, b)
    BY ONLY <1>4, <1>5 DEF YieldsFunction
  <1> QED
    BY <1>6, <1>7, <1>8, <1>9, <1>10, <1>11, <1>12, <1>13, <1>14, <1>15, <1>16, <1>17 DEF Yields

LEMMA ClosureIsNext ==
    ASSUME NEW td, NEW p \in Places, NEW n \in Nat, NEW js \in Seq(Piles), NEW z, Done(z),
           Laid(td, Layout(p, n + 1, "any", js), z)
    PROVE  /\ td # <<>>
           /\ \E w \in {"mark", "other"} :
                  /\ Laid(td, Layout(p, n + 1, w, js), z)
                  /\ w = "mark" <=> Head(td).do = "mark"
  <1>1. PICK a : a = Layout(p, n + 1, "any", js)
    OBVIOUS
  <1>2. a.place = p /\ a.temps = n + 1 /\ a.then = "any" /\ a.pending = js
    BY <1>1, LayoutFields
  <1>3. td # <<>>
    <2>1. ASSUME td = <<>> PROVE FALSE
      <3>1. PICK f : f[1] = a /\ f[Len(<<>>) + 1] = z
        BY <1>1, <2>1 DEF Laid, Chart
      <3>2. Len(<<>>) + 1 = 1
        OBVIOUS
      <3>3. a = z
        BY ONLY <3>1, <3>2
      <3> QED BY <1>2, <3>3 DEF Done
    <2> QED BY <2>1
  <1>4. PICK b \in Layouts : Yields(Head(td), a, b) /\ Laid(Tail(td), b, z)
    BY <1>1, <1>3, NextLaid
  <1>5. PICK w \in {"mark", "other"} : w = "mark" <=> Head(td).do = "mark"
    OBVIOUS
  <1>6. PICK c : c = Layout(p, n + 1, w, js)
    OBVIOUS
  <1>7. c.place = p /\ c.temps = n + 1 /\ c.then = w /\ c.pending = js
    BY <1>6, LayoutFields
  <1>8. c \in Layouts
    <2>1. n + 1 \in Nat /\ w \in Words
      BY DEF Words
    <2> QED BY <1>6, <2>1, LayoutIs
  <1>9. PICK t : t = Head(td)
    OBVIOUS
  <1>10. Admits(w, t)
    BY <1>5, <1>9 DEF Admits
  <1>11. Yields(t, a, b)
    BY <1>4, <1>9
  <1>12. w # "patch"
    OBVIOUS
  <1>13. Yields(t, c, b)
    BY ONLY <1>2, <1>7, <1>10, <1>11, <1>12, SameYields
  <1>14. Laid(td, c, z)
    BY <1>1, <1>3, <1>4, <1>8, <1>9, <1>13, LaidBefore, LaidSequence
  <1> QED
    BY <1>3, <1>5, <1>6, <1>14

LEMMA EnterFunctionStep ==
    ASSUME IInv, NEW a, Matches(a), NEW p \in Places, p = a.place, ~p.ended, NEW n \in Nat,
           n = a.temps, NEW js \in Seq(Piles), js = a.pending, NEW w \in {"mark", "other"},
           NEW rest, EnterFunction(rest), NEW z, Done(z), Laid(rest, Layout(p, n + 1, w, js), z),
           hadError = "none", hadError' = "none"
    PROVE  InStep'
  <1>1. PICK ts : ts = <<Statements, Load, Do("return"), Do("leaveFunction")>>
    OBVIOUS
  <1>2. PICK params \in ParameterLists :
            /\ todo' = ts \o rest
            /\ outer' = Append(outer, [locals |-> locals, upvalues |-> upvalues, depth |-> depth,
                                       point |-> point, open |-> open])
            /\ locals' = ParameterLocals(params) /\ depth' = 1
            /\ point' = At(<<Callee>> \o [i \in DOMAIN params |-> <<params[i], 1>>])
            /\ hadError' = (IF \E i, j \in DOMAIN params : i # j /\ params[i] = params[j]
                            THEN Complain("redeclared") ELSE hadError)
            /\ UNCHANGED <<loops, jumps>>
    BY <1>1 DEF EnterFunction
  <1>3. params \in Seq(Names)
    <2>1. PICK m \in 0 .. MaxArgs : params \in [1 .. m -> Names]
      BY DEF ParameterLists
    <2>2. m \in Nat
      BY LanguageFacts, LocalFacts
    <2> QED BY <2>1, <2>2
  <1>4. \A i, j \in DOMAIN params : params[i] = params[j] => i = j
    BY <1>2 DEF Complain
  <1>5. PICK vs : vs = <<Callee>> \o [i \in DOMAIN params |-> <<params[i], 1>>]
    OBVIOUS
  <1>6. /\ SlotsOf(ParameterLocals(params)) = vs /\ vs \in Seq(Slots)
        /\ \A i \in 1 .. Len(vs) : vs[i][2] = 1
    BY <1>3, <1>4, <1>5, LocalFacts, ParameterSlots
  <1>7. PICK c : c = Layout(Entered(p, n, w, vs), 0, "any", js)
    OBVIOUS
  <1>8. Laid(ts, c, Layout(p, n + 1, w, js))
    BY <1>1, <1>6, <1>7, LaidFunction
  <1>9. Laid(todo', c, z)
    BY <1>2, <1>8, LaidConcat
  <1>10. Matches(c)'
    <2>1. SlotsOf(locals') = vs /\ point' = At(vs) /\ Shapes
      BY <1>2, <1>5, <1>6 DEF IInv
    <2> QED BY <1>2, <1>6, <1>7, <2>1, EnteredMatches
  <1> QED
    BY <1>9, <1>10 DEF InStep

LEMMA CompileFnStep ==
    ASSUME IInv, NEW a, NEW z, Laid(todo, a, z), Done(z), Matches(a), CompileFn,
           hadError = "none", hadError' = "none"
    PROVE  InStep'
  <1>1. PICK name \in Names :
            /\ TaskIs("statements")
            /\ EnterFunction(<<IF depth > 0 THEN [do |-> "declareFn", name |-> name]
                               ELSE DefineGlobal>> \o todo)
    BY DEF CompileFn
  <1>2. todo # <<>> /\ Head(todo).do = "statements"
    BY <1>1 DEF TaskIs, Task
  <1>3. /\ a.place \in Places /\ a.pending \in Seq(Piles) /\ Roomy(a.place) /\ ~a.place.ended
        /\ a.place.next = <<>> /\ a.temps = 0
        /\ \A q \in Places : \A w \in {"any", "statements"} :
               Roomy(q) /\ ~q.ended /\ q.next = <<>> /\ Ended(q) = Ended(a.place)
               => Laid(todo, Layout(q, 0, w, a.pending), z)
    BY <1>2, StatementFacts
  <1>4. PICK p \in Places : p = a.place
    BY <1>3
  <1>5. PICK js \in Seq(Piles) : js = a.pending
    BY <1>3
  <1>6. depth = p.depth /\ depth \in Nat
    <2>1. PICK vs \in Seq(Slots) : CurrentMatches(a, vs)
      BY DEF Matches
    <2> QED BY <1>4, <2>1, LocalFacts DEF CurrentMatches
  <1>7. PICK t : t = IF depth > 0 THEN [do |-> "declareFn", name |-> name] ELSE DefineGlobal
    OBVIOUS
  <1>8. PICK b : b = Layout(p, 1, "other", js)
    OBVIOUS
  <1>9. Loose("other") /\ 1 \in Nat /\ 0 \in Nat
    BY DEF Loose
  <1>10. b \in Layouts
    BY <1>8, <1>9, LayoutIs, LooseWords
  <1>11. Laid(<<t>> \o todo, b, z)
    <2>1. CASE depth > 0
      <3>1. name \in AllNames
        BY LocalFacts, KnownNames
      <3>2. PICK x : x = <<name, p.depth>>
        OBVIOUS
      <3>3. x \in Slots /\ x[2] = p.depth
        BY <1>6, <3>1, <3>2 DEF Slots
      <3>4. PICK q : q = Gaining(p, x)
        OBVIOUS
      <3>5. q \in Places /\ Roomy(q) /\ ~q.ended /\ q.next = <<>> /\ Ended(q) = Ended(p)
        BY <1>3, <1>4, <3>3, <3>4, GainingPlace
      <3>6. PICK c : c = Layout(q, 0, "any", js)
        OBVIOUS
      <3>7. c \in Layouts
        BY <1>9, <3>5, <3>6, LayoutIs, LooseWords
      <3>8. Yields(t, b, c)
        BY <1>3, <1>4, <1>7, <1>8, <1>9, <2>1, <3>1, <3>2, <3>4, <3>6, DeclareYields
      <3>9. Laid(<<t>>, b, c)
        BY <1>10, <3>7, <3>8, Laid1
      <3>10. Laid(todo, c, z)
        BY <1>3, <1>4, <1>5, <3>5, <3>6
      <3> QED BY <3>9, <3>10, LaidConcat
    <2>2. CASE ~(depth > 0)
      <3>1. t = Emit(1, 0)
        BY <1>7, <2>2 DEF DefineGlobal
      <3>2. PICK c : c = Layout(p, 0, "any", js)
        OBVIOUS
      <3>3. 1 \in 0 .. 1 /\ 0 = (1 - 1) + 0
        OBVIOUS
      <3>4. Laid(<<Emit(1, 0)>>, b, c)
        BY <1>8, <1>9, <3>2, <3>3, LaidEmit
      <3>5. Laid(todo, c, z)
        BY <1>3, <1>4, <1>5, <3>2
      <3> QED BY <3>1, <3>4, <3>5, LaidConcat
    <2> QED BY <2>1, <2>2
  <1>12. EnterFunction(<<t>> \o todo)
    BY <1>1, <1>7
  <1>13. PICK rest : rest = <<t>> \o todo
    OBVIOUS
  <1>14. PICK n \in Nat : n = 0
    OBVIOUS
  <1>15. Laid(rest, Layout(p, n + 1, "other", js), z) /\ n = a.temps
    <2>1. n + 1 = 1
      BY <1>14
    <2>2. Layout(p, n + 1, "other", js) = b
      BY ONLY <1>8, <2>1
    <2> QED BY <1>3, <1>11, <1>13, <1>14, <2>2
  <1>16. EnterFunction(rest) /\ "other" \in {"mark", "other"} /\ ~p.ended
    BY <1>3, <1>4, <1>12, <1>13
  <1> QED
    BY <1>4, <1>5, <1>15, <1>16, EnterFunctionStep

LEMMA CompileLambdaStep ==
    ASSUME IInv, NEW a, NEW z, Laid(todo, a, z), Done(z), Matches(a), CompileLambda,
           hadError = "none", hadError' = "none"
    PROVE  InStep'
  <1>1. TaskIs("expr") /\ EnterFunction(Tail(todo))
    BY DEF CompileLambda
  <1>2. todo # <<>> /\ Head(todo).do = "expr"
    BY <1>1 DEF TaskIs, Task
  <1>3. /\ a.place \in Places /\ a.pending \in Seq(Piles) /\ a.temps \in Nat /\ ~a.place.ended
        /\ Laid(Tail(todo), Layout(a.place, a.temps + 1, "any", a.pending), z)
    BY <1>2, OperandFacts
  <1>4. PICK p \in Places : p = a.place
    BY <1>3
  <1>5. PICK n \in Nat : n = a.temps
    BY <1>3
  <1>6. PICK js \in Seq(Piles) : js = a.pending
    BY <1>3
  <1>7. PICK rest : rest = Tail(todo)
    OBVIOUS
  <1>8. Laid(rest, Layout(p, n + 1, "any", js), z)
    BY <1>3, <1>4, <1>5, <1>6, <1>7
  <1>9. PICK w \in {"mark", "other"} : Laid(rest, Layout(p, n + 1, w, js), z)
    BY <1>8, ClosureIsNext
  <1>10. EnterFunction(rest) /\ ~p.ended
    BY <1>1, <1>3, <1>4, <1>7
  <1> QED
    BY <1>4, <1>5, <1>6, <1>9, <1>10, EnterFunctionStep

----------------------------------------------------------------------------
(* Expressions.                                                            *)
LEMMA CompoundStep ==
    ASSUME NEW a, NEW z, Laid(todo, a, z), Done(z), Matches(a), NEW form, NEW ts,
           Compound(form, ts),
           \A p \in Places : \A n \in Nat : \A w : \A js \in Seq(Piles) :
               ~p.ended /\ Loose(w)
               => Laid(ts, Layout(p, n, w, js), Layout(p, n + 1, "any", js))
    PROVE  InStep'
  <1>1. /\ TaskIs("expr") /\ todo' = ts \o Tail(todo)
        /\ UNCHANGED <<locals, depth, outer, loops, point, jumps>>
    BY DEF Compound
  <1>2. todo # <<>> /\ Head(todo).do = "expr"
    BY <1>1 DEF TaskIs, Task
  <1>3. /\ a.place \in Places /\ a.pending \in Seq(Piles) /\ a.temps \in Nat /\ ~a.place.ended
        /\ Loose(a.then)
        /\ Laid(Tail(todo), Layout(a.place, a.temps + 1, "any", a.pending), z)
    BY <1>2, OperandFacts
  <1>4. PICK c : c = Layout(a.place, a.temps, a.then, a.pending)
    OBVIOUS
  <1>5. Laid(ts, c, Layout(a.place, a.temps + 1, "any", a.pending))
    BY <1>3, <1>4
  <1>6. Matches(c)'
    <2>1. a.then # "patch"
      BY <1>3 DEF Loose
    <2> QED BY <1>1, <1>4, <2>1, MatchesKept
  <1> QED
    BY <1>1, <1>2, <1>3, <1>5, <1>6, OperandStep

LEMMA FixedExpressionSteps ==
    ASSUME NEW a, NEW z, Laid(todo, a, z), Done(z), Matches(a),
           \/ CompileUnary \/ CompileBinary \/ CompileAnd \/ CompileOr \/ CompileIndex
           \/ CompileField
    PROVE  InStep'
  <1>1. CASE CompileUnary \/ CompileField
    <2>1. \E form : Compound(form, <<Expr, Emit(1, 1)>>)
      BY <1>1 DEF CompileUnary, CompileField, Convert, GetField
    <2> QED BY <2>1, CompoundStep, LaidUnary
  <1>2. CASE CompileBinary \/ CompileIndex
    <2>1. \E form : Compound(form, <<Expr, Expr, Emit(2, 1)>>)
      BY <1>2 DEF CompileBinary, CompileIndex, Arithmetic, Index
    <2> QED BY <2>1, CompoundStep, LaidBinary
  <1>3. CASE CompileAnd
    BY <1>3, CompoundStep, LaidAnd DEF CompileAnd
  <1>4. CASE CompileOr
    BY <1>4, CompoundStep, LaidOr DEF CompileOr
  <1> QED
    BY <1>1, <1>2, <1>3, <1>4

LEMMA ListExpressionSteps ==
    ASSUME IInv, NEW a, NEW z, Laid(todo, a, z), Done(z), Matches(a),
           CompilePrint \/ CompileCall \/ CompileArray \/ CompileNew
    PROVE  InStep'
  <1>1. 0 .. MaxArgs \subseteq Nat
    BY LanguageFacts, LocalFacts
  <1>2. CASE CompilePrint
    <2>1. PICK k \in Nat : Compound("print", Exprs(k) \o <<PrintValues(k), Load>>)
      BY <1>1, <1>2 DEF CompilePrint
    <2>2. PICK ts : ts = Exprs(k) \o <<PrintValues(k), Load>>
      OBVIOUS
    <2> QED BY <2>1, <2>2, CompoundStep, LaidPrint
  <1>3. CASE CompileCall
    <2>1. PICK k \in Nat : Compound("call", <<Expr>> \o Exprs(k) \o <<Call(k)>>)
      BY <1>1, <1>3 DEF CompileCall
    <2>2. PICK ts : ts = <<Expr>> \o Exprs(k) \o <<Call(k)>>
      OBVIOUS
    <2> QED BY <2>1, <2>2, CompoundStep, LaidCall
  <1>4. CASE CompileArray
    <2>1. PICK k \in Nat : Compound("array", Exprs(k) \o <<MakeArray(k)>>)
      BY <1>1, <1>4 DEF CompileArray
    <2>2. PICK ts : ts = Exprs(k) \o <<MakeArray(k)>>
      OBVIOUS
    <2> QED BY <2>1, <2>2, CompoundStep, LaidArray
  <1>5. CASE CompileNew
    <2>1. PICK k \in Nat :
              Compound("new", Exprs(k) \o [i \in 1 .. k |-> Load] \o <<NewStruct(k)>>)
      BY <1>1, <1>5 DEF CompileNew
    <2>2. PICK ts : ts = Exprs(k) \o [i \in 1 .. k |-> Load] \o <<NewStruct(k)>>
      OBVIOUS
    <2> QED BY <2>1, <2>2, CompoundStep, LaidNew
  <1> QED
    BY <1>2, <1>3, <1>4, <1>5

LEMMA CompileAssignStep ==
    ASSUME NEW a, NEW z, Laid(todo, a, z), Done(z), Matches(a), CompileAssign
    PROVE  InStep'
  <1>1. CASE \E name \in Names : Compound("assign", <<Expr, [do |-> "assign", name |-> name]>>)
    <2>1. PICK name : Compound("assign", <<Expr, [do |-> "assign", name |-> name]>>)
      BY <1>1
    <2>2. PICK ts : ts = <<Expr, [do |-> "assign", name |-> name]>>
      OBVIOUS
    <2> QED BY <2>1, <2>2, CompoundStep, LaidAssign
  <1>2. CASE Compound("assign", <<Expr, Expr, SetField>>)
    <2>1. Compound("assign", <<Expr, Expr, Emit(2, 1)>>)
      BY <1>2 DEF SetField
    <2> QED BY <2>1, CompoundStep, LaidBinary
  <1>3. CASE Compound("assign", <<Expr, Expr, Expr, SetIndex>>)
    <2>1. Compound("assign", <<Expr, Expr, Expr, Emit(3, 1)>>)
      BY <1>3 DEF SetIndex
    <2> QED BY <2>1, CompoundStep, LaidTernary
  <1> QED
    BY <1>1, <1>2, <1>3 DEF CompileAssign

LEMMA CompileLiteralStep ==
    ASSUME NEW a, NEW z, Laid(todo, a, z), Done(z), Matches(a), CompileLiteral
    PROVE  InStep'
  <1>1. /\ TaskIs("expr") /\ todo' = <<Load>> \o Tail(todo)
        /\ UNCHANGED <<locals, depth, outer, loops, point, jumps>>
    BY DEF CompileLiteral
  <1>2. todo # <<>> /\ Head(todo).do = "expr"
    BY <1>1 DEF TaskIs, Task
  <1>3. /\ a.place \in Places /\ a.pending \in Seq(Piles) /\ a.temps \in Nat
        /\ Loose(a.then)
        /\ Laid(Tail(todo), Layout(a.place, a.temps + 1, "any", a.pending), z)
    BY <1>2, OperandFacts
  <1>4. PICK c : c = Layout(a.place, a.temps, a.then, a.pending)
    OBVIOUS
  <1>5. Laid(<<Load>>, c, Layout(a.place, a.temps + 1, "any", a.pending))
    <2>1. PICK n \in Nat : n = a.temps
      BY <1>3
    <2>2. 0 \in 0 .. n /\ n + 1 = (n - 0) + 1 /\ 1 \in Nat
      BY <2>1
    <2> QED BY <1>3, <1>4, <2>1, <2>2, LaidEmit DEF Load
  <1>6. Matches(c)'
    <2>1. a.then # "patch"
      BY <1>3 DEF Loose
    <2> QED BY <1>1, <1>4, <2>1, MatchesKept
  <1> QED
    BY <1>1, <1>2, <1>3, <1>5, <1>6, OperandStep

(* match: a wildcard alone, or patterns with no operand pending.           *)
LEMMA WildcardStep ==
    ASSUME NEW a, NEW z, Laid(todo, a, z), Done(z), Matches(a),
           Compound("match", MatchTasks(0, TRUE, TRUE))
    PROVE  InStep'
  <1>1. ArmTasks(0) = <<>>
    <2>1. PICK g : ArmsFrom(g, 0) /\ ArmTasks(0) = (IF 0 = 0 THEN <<>> ELSE <<Declare("$match")>>) \o g[0]
      BY ArmsAre
    <2>2. g[0] = <<>>
      BY <2>1 DEF ArmsFrom
    <2> QED BY <2>1, <2>2
  <1>2. [i \in 1 .. 0 |-> Patch(1)] = <<>>
    OBVIOUS
  <1>3. MatchTasks(0, TRUE, TRUE) = <<Expr, Pop, Expr>>
    <2>1. PICK noPatches : noPatches = [i \in 1 .. 0 |-> Patch(1)]
      OBVIOUS
    <2>2. PICK noArms : noArms = ArmTasks(0)
      OBVIOUS
    <2>3. MatchTasks(0, TRUE, TRUE) = <<Expr>> \o noArms \o <<Pop, Expr>> \o <<>> \o noPatches
      BY <2>1, <2>2 DEF MatchTasks
    <2>4. noPatches = <<>> /\ noArms = <<>>
      BY <1>1, <1>2, <2>1, <2>2
    <2>5. <<Expr>> \o <<>> \o <<Pop, Expr>> \o <<>> \o <<>> = <<Expr, Pop, Expr>>
      <3>1. PICK e : e = Expr
        OBVIOUS
      <3>2. PICK o : o = Pop
        OBVIOUS
      <3>3. <<e>> \o <<>> = <<e>> /\ <<e>> \o <<o, e>> = <<e, o, e>>
        <4>1. <<e>> \o <<>> = <<e>>
          OBVIOUS
        <4>2. <<e>> \o <<o, e>> = <<e, o, e>>
          <5>1. PICK s : s = <<e>>
            OBVIOUS
          <5>2. PICK t : t = <<o, e>>
            OBVIOUS
          <5>3. PICK T : T = {e, o}
            OBVIOUS
          <5>4. /\ s \in Seq(T) /\ Len(s) = 1 /\ s[1] = e
                /\ t \in Seq(T) /\ Len(t) = 2 /\ t[1] = o /\ t[2] = e
            BY <5>1, <5>2, <5>3
          <5>5. PICK u : u = s \o t
            OBVIOUS
          <5>6. IsSequence(s) /\ IsSequence(t)
            BY ONLY <5>4 DEF IsSequence
          <5>7. /\ Len(u) = 1 + 2 /\ \A i \in 1 .. 1 : u[i] = s[i]
                /\ \A i \in 1 .. 2 : u[1 + i] = t[i]
            <6>1. Len(s) = 1 /\ Len(t) = 2
              BY ONLY <5>4
            <6>2. /\ Len(u) = Len(s) + Len(t) /\ \A i \in 1 .. Len(s) : u[i] = s[i]
                  /\ \A i \in 1 .. Len(t) : u[Len(s) + i] = t[i]
              BY ONLY <5>5, <5>6, ConcatFacts
            <6> QED BY ONLY <6>1, <6>2, Zenon
          <5>8. u[1] = s[1] /\ u[1 + 1] = t[1] /\ u[1 + 2] = t[2]
            BY ONLY <5>7
          <5>9. u \in Seq(T)
            BY ONLY <5>4, <5>5
          <5>10. u = <<e, o, e>>
            BY ONLY <5>4, <5>7, <5>8, <5>9
          <5> QED BY ONLY <5>1, <5>2, <5>5, <5>10
        <4> QED BY <4>1, <4>2
      <3>4. <<e, o, e>> \o <<>> = <<e, o, e>>
        OBVIOUS
      <3>5. <<e>> \o <<>> \o <<o, e>> \o <<>> \o <<>> = <<e, o, e>>
        BY ONLY <3>3, <3>4, Zenon
      <3> QED BY ONLY <3>1, <3>2, <3>5, Zenon
    <2> QED BY ONLY <2>3, <2>4, <2>5, Zenon
  <1> QED
    BY <1>3, CompoundStep, LaidWildcard

LEMMA PatternsNext ==
    ASSUME NEW after \in {<<Pop, Statements>>, <<Do("return")>>}, IsPrefix(<<Expr>> \o after, todo),
           IsSequence(todo)
    PROVE  /\ Tail(todo) # <<>> /\ Head(Tail(todo)) = after[1]
           /\ after = <<Pop, Statements>>
              => Tail(Tail(todo)) # <<>> /\ Head(Tail(Tail(todo))) = Statements
  <1>1. PICK T : todo \in Seq(T)
    BY DEF IsSequence
  <1>2. CASE after = <<Pop, Statements>>
    <2>1. PICK s : s = <<Expr, Pop, Statements>>
      OBVIOUS
    <2>2. s = <<Expr>> \o after /\ Len(s) = 3 /\ s[2] = Pop /\ s[3] = Statements
      BY <1>2, <2>1
    <2>3. 3 <= Len(todo) /\ SubSeq(s, 1, 3) = SubSeq(todo, 1, 3)
      BY <2>2 DEF IsPrefix
    <2>4. SubSeq(s, 1, 3)[2] = s[2] /\ SubSeq(s, 1, 3)[3] = s[3]
      BY <2>1
    <2>5. SubSeq(todo, 1, 3)[2] = todo[2] /\ SubSeq(todo, 1, 3)[3] = todo[3]
      BY <1>1, <2>3
    <2>6. todo[2] = Pop /\ todo[3] = Statements
      BY <2>2, <2>3, <2>4, <2>5
    <2>7. after[1] = Pop
      BY <1>2
    <2>8. /\ Tail(todo) # <<>> /\ Tail(Tail(todo)) # <<>>
          /\ Head(Tail(todo)) = todo[2] /\ Head(Tail(Tail(todo))) = todo[3]
      <3>1. /\ IsSequence(todo) /\ Len(todo) \in Nat /\ Len(todo) >= 3
            /\ 1 \in 1 .. Len(todo) - 1 /\ 2 \in 1 .. Len(todo) - 1 /\ 1 + 1 = 2 /\ 2 + 1 = 3
        BY ONLY <1>1, <2>3 DEF IsSequence
      <3>2. PICK u : u = Tail(todo)
        OBVIOUS
      <3>3. todo # <<>>
        BY ONLY <3>1, SequenceFacts
      <3>4. IsSequence(u) /\ Len(u) = Len(todo) - 1 /\ u[1] = todo[2] /\ u[2] = todo[3]
        BY ONLY <3>1, <3>2, <3>3, SequenceFacts
      <3>5. u # <<>> /\ Head(u) = u[1] /\ IsSequence(Tail(u)) /\ Len(Tail(u)) = Len(u) - 1
            /\ 1 \in 1 .. Len(u) - 1 /\ Tail(u)[1] = u[2]
        <4>1. Len(u) \in Nat /\ Len(u) > 0 /\ 1 \in 1 .. Len(u) - 1 /\ u[1 + 1] = u[2]
          BY ONLY <3>1, <3>4
        <4> QED BY ONLY <3>4, <4>1, SequenceFacts
      <3>6. Tail(u) # <<>> /\ Head(Tail(u)) = Tail(u)[1]
        <4>1. Len(Tail(u)) > 0
          BY ONLY <3>1, <3>4, <3>5
        <4> QED BY ONLY <3>5, <4>1, SequenceFacts
      <3> QED BY ONLY <3>2, <3>4, <3>5, <3>6, Zenon
    <2> QED BY ONLY <2>6, <2>7, <2>8
  <1>3. CASE after = <<Do("return")>>
    <2>1. PICK s : s = <<Expr, Do("return")>>
      OBVIOUS
    <2>2. s = <<Expr>> \o after /\ Len(s) = 2 /\ s[2] = Do("return")
      BY <1>3, <2>1
    <2>3. 2 <= Len(todo) /\ SubSeq(s, 1, 2) = SubSeq(todo, 1, 2)
      BY <2>2 DEF IsPrefix
    <2>4. SubSeq(s, 1, 2)[2] = s[2]
      BY <2>1
    <2>5. SubSeq(todo, 1, 2)[2] = todo[2]
      BY <1>1, <2>3
    <2>6. todo[2] = Do("return") /\ after[1] = Do("return") /\ after # <<Pop, Statements>>
      BY <1>3, <2>2, <2>3, <2>4, <2>5
    <2> QED BY <1>1, <2>3, <2>6
  <1> QED
    BY <1>2, <1>3

(* The statements that follow an expression on its own, or its return, do  *)
(* not mind another local below.                                           *)
LEMMA AfterPatterns ==
    ASSUME NEW td, td # <<>>, NEW p \in Places, ~p.ended, NEW n \in Nat, NEW js \in Seq(Piles),
           NEW z, Done(z), Laid(td, Layout(p, n + 1, "any", js), z),
           \/ Head(td) = Pop /\ Tail(td) # <<>> /\ Head(Tail(td)) = Statements
           \/ Head(td) = Do("return")
    PROVE  /\ n = 0 /\ p.next = <<>> /\ Roomy(p)
           /\ \A q \in Places : Roomy(q) /\ ~q.ended /\ q.next = <<>> /\ Ended(q) = Ended(p)
              => Laid(td, Layout(q, 1, "any", js), z)
  <1>1. PICK a : a = Layout(p, n + 1, "any", js)
    OBVIOUS
  <1>2. a.place = p /\ a.temps = n + 1 /\ a.then = "any" /\ a.pending = js
    BY <1>1, LayoutFields
  <1>3. PICK b \in Layouts : Yields(Head(td), a, b) /\ Laid(Tail(td), b, z)
    BY <1>1, NextLaid
  <1>4. PICK u : u = Tail(td)
    OBVIOUS
  <1>5. PICK t : t = Head(td)
    OBVIOUS
  <1>6. IsSequence(td)
    BY LaidSequence
  <1>7. \A w \in {"any", "statements"} : \A q \in Places :
            /\ u # <<>> /\ Head(u).do = "statements" /\ b = Layout(p, 0, w, js)
            /\ Roomy(q) /\ ~q.ended /\ q.next = <<>> /\ Ended(q) = Ended(p)
            => Laid(u, Layout(q, 0, w, js), z)
    <2> SUFFICES ASSUME NEW w \in {"any", "statements"}, NEW q \in Places,
                        u # <<>>, Head(u).do = "statements", b = Layout(p, 0, w, js),
                        Roomy(q), ~q.ended, q.next = <<>>, Ended(q) = Ended(p)
                 PROVE  Laid(u, Layout(q, 0, w, js), z)
      OBVIOUS
    <2>1. b.place = p /\ b.pending = js
      BY LayoutFields
    <2> QED BY <1>3, <1>4, <2>1, StatementFacts
  <1>8. CASE t = Pop /\ u # <<>> /\ Head(u) = Statements
    <2>1. Head(u).do = "statements"
      BY <1>8 DEF Statements, Do
    <2>2. /\ t.do = "emit" /\ t.pops = 1 /\ t.pushes = 0
      BY <1>8 DEF Pop, Emit
    <2>3. YieldsInstruction(t, a, b)
      BY <1>3, <1>5, <2>2 DEF Yields, YieldsOperand, YieldsStatement, YieldsFor, YieldsReturn,
         YieldsExit, YieldsJump, YieldsPatch, YieldsScope, YieldsLocal, YieldsLoop, YieldsFunction,
         Do
    <2>4. b = Layout(p, n, "any", js)
      <3>1. b = With(a, (a.temps - 1) + 0)
        BY <2>2, <2>3 DEF YieldsInstruction
      <3>2. (a.temps - 1) + 0 = n
        BY <1>2
      <3> QED BY <1>2, <3>1, <3>2 DEF With
    <2>5. Roomy(p) /\ p.next = <<>> /\ n = 0
      <3>1. b.place = p /\ b.temps = n
        BY <2>4, LayoutFields
      <3> QED BY <1>3, <1>4, <1>8, <2>1, <3>1, StatementFacts
    <2>6. ASSUME NEW q \in Places, Roomy(q), ~q.ended, q.next = <<>>, Ended(q) = Ended(p)
          PROVE  Laid(td, Layout(q, 1, "any", js), z)
      <3>1. PICK c : c = Layout(q, 1, "any", js)
        OBVIOUS
      <3>2. PICK d : d = Layout(q, 0, "any", js)
        OBVIOUS
      <3>3. Laid(u, d, z)
        BY <1>7, <1>8, <2>1, <2>4, <2>5, <2>6, <3>2
      <3>4. 1 \in Nat /\ 0 \in Nat /\ 1 \in 0 .. 1 /\ 0 = (1 - 1) + 0
        OBVIOUS
      <3>5. Yields(t, c, d)
        BY <1>8, <3>1, <3>2, <3>4, EmitYields, LooseWords DEF Pop
      <3>6. c \in Layouts /\ d \in Layouts
        BY <3>1, <3>2, <3>4, LayoutIs, LooseWords
      <3> QED BY <1>4, <1>5, <1>6, <3>1, <3>3, <3>5, <3>6, LaidBefore
    <2> QED BY <2>5, <2>6
  <1>9. CASE t = Do("return")
    <2>1. t.do = "return"
      BY <1>9 DEF Do
    <2>2. YieldsReturn(t, a, b)
      BY <1>3, <1>5, <2>1 DEF Yields, YieldsOperand, YieldsStatement, YieldsFor, YieldsInstruction,
         YieldsExit, YieldsJump, YieldsPatch, YieldsScope, YieldsLocal, YieldsLoop, YieldsFunction,
         Do, Instructions
    <2>3. n = 0 /\ b = Layout(p, 0, "statements", js)
      BY <1>2, <2>2 DEF YieldsReturn
    <2>4. b.place = p /\ b.temps = 0 /\ b.then = "statements" /\ b.pending = js
      BY <2>3, LayoutFields
    <2>5. u # <<>>
      <3>1. ASSUME u = <<>> PROVE FALSE
        <4>1. PICK f : f[1] = b /\ f[Len(<<>>) + 1] = z
          BY <1>3, <1>4, <3>1 DEF Laid, Chart
        <4>2. Len(<<>>) + 1 = 1
          OBVIOUS
        <4>3. b = z
          BY ONLY <4>1, <4>2
        <4> QED BY <2>4, <4>3 DEF Done
      <3> QED BY <3>1
    <2>6. Head(u).do = "statements"
      <3>1. PICK d \in Layouts : Yields(Head(u), b, d)
        BY <1>3, <1>4, <2>5, NextLaid
      <3> QED BY <2>4, <3>1 DEF Yields, Admits
    <2>7. Roomy(p) /\ p.next = <<>>
      BY <1>3, <1>4, <2>4, <2>5, <2>6, StatementFacts
    <2>8. ASSUME NEW q \in Places, Roomy(q), ~q.ended, q.next = <<>>, Ended(q) = Ended(p)
          PROVE  Laid(td, Layout(q, 1, "any", js), z)
      <3>1. PICK c : c = Layout(q, 1, "any", js)
        OBVIOUS
      <3>2. PICK d : d = Layout(q, 0, "statements", js)
        OBVIOUS
      <3>3. Laid(u, d, z)
        BY <1>7, <2>3, <2>5, <2>6, <2>8, <3>2
      <3>4. 1 \in Nat /\ 0 \in Nat
        OBVIOUS
      <3>5. Yields(t, c, d)
        BY <1>9, <2>8, <3>1, <3>2, ReturnYields, LooseWords
      <3>6. c \in Layouts /\ d \in Layouts
        BY <3>1, <3>2, <3>4, LayoutIs, LooseWords
      <3> QED BY <1>4, <1>5, <1>6, <3>1, <3>3, <3>5, <3>6, LaidBefore
    <2> QED BY <2>3, <2>7, <2>8
  <1> QED
    BY <1>4, <1>5, <1>8, <1>9

LEMMA CompileMatchStep ==
    ASSUME IInv, RegularMatch, NEW a, NEW z, Laid(todo, a, z), Done(z), Matches(a), CompileMatch
    PROVE  InStep'
  <1>1. PICK k \in 0 .. MaxArgs, wildcard \in BOOLEAN, last \in BOOLEAN :
            /\ Compound("match", MatchTasks(k, wildcard, last))
            /\ \/ k = 0 /\ wildcard /\ last
               \/ /\ k > 0 /\ ~wildcard
                  /\ \E after \in {<<Pop, Statements>>, <<Do("return")>>} :
                         IsPrefix(<<Expr>> \o after, todo)
    BY Zenon DEF RegularMatch, Match
  <1>2. k \in Nat
    BY LanguageFacts, LocalFacts
  <1>3. CASE k = 0 /\ wildcard /\ last
    <2>1. wildcard = TRUE /\ last = TRUE
      BY <1>3
    <2> QED BY <1>1, <1>3, <2>1, WildcardStep
  <1>4. CASE k > 0 /\ ~wildcard /\ \E after \in {<<Pop, Statements>>, <<Do("return")>>} :
                                       IsPrefix(<<Expr>> \o after, todo)
    <2>1. PICK ts : ts = MatchTasks(k, FALSE, last)
      OBVIOUS
    <2>2. /\ TaskIs("expr") /\ todo' = ts \o Tail(todo)
          /\ UNCHANGED <<locals, depth, outer, loops, point, jumps>>
      <3>1. wildcard = FALSE
        BY <1>4
      <3> QED BY <1>1, <2>1, <3>1 DEF Compound
    <2>3. todo # <<>> /\ Head(todo).do = "expr"
      BY <2>2 DEF TaskIs, Task
    <2>4. /\ a.place \in Places /\ a.pending \in Seq(Piles) /\ a.temps \in Nat /\ ~a.place.ended
          /\ Loose(a.then)
          /\ Laid(Tail(todo), Layout(a.place, a.temps + 1, "any", a.pending), z)
      BY <2>3, OperandFacts
    <2>5. PICK p \in Places : p = a.place
      BY <2>4
    <2>6. PICK n \in Nat : n = a.temps
      BY <2>4
    <2>7. PICK js \in Seq(Piles) : js = a.pending
      BY <2>4
    <2>8. PICK td : td = Tail(todo)
      OBVIOUS
    <2>9. /\ td # <<>>
          /\ \/ Head(td) = Pop /\ Tail(td) # <<>> /\ Head(Tail(td)) = Statements
             \/ Head(td) = Do("return")
      <3>1. PICK after \in {<<Pop, Statements>>, <<Do("return")>>} : IsPrefix(<<Expr>> \o after, todo)
        BY <1>4
      <3>2. /\ Tail(todo) # <<>> /\ Head(Tail(todo)) = after[1]
            /\ after = <<Pop, Statements>>
               => Tail(Tail(todo)) # <<>> /\ Head(Tail(Tail(todo))) = Statements
        BY <3>1, PatternsNext, LaidSequence
      <3>3. CASE after = <<Pop, Statements>>
        <4>1. after[1] = Pop
          BY <3>3
        <4> QED BY <2>8, <3>2, <3>3, <4>1
      <3>4. CASE after = <<Do("return")>>
        <4>1. after[1] = Do("return")
          BY <3>4
        <4> QED BY <2>8, <3>2, <4>1
      <3> QED BY <3>1, <3>3, <3>4
    <2>10. Laid(td, Layout(p, n + 1, "any", js), z) /\ ~p.ended
      BY <2>4, <2>5, <2>6, <2>7, <2>8
    <2>11. /\ n = 0 /\ p.next = <<>> /\ Roomy(p)
           /\ \A q \in Places : Roomy(q) /\ ~q.ended /\ q.next = <<>> /\ Ended(q) = Ended(p)
              => Laid(td, Layout(q, 1, "any", js), z)
      BY <2>9, <2>10, AfterPatterns
    <2>12. PICK x : x = <<"$match", p.depth>>
      OBVIOUS
    <2>13. x \in Slots /\ x[2] = p.depth
      <3>1. "$match" \in AllNames
        BY HiddenKnown
      <3>2. p.depth \in Nat
        BY PlaceFacts
      <3> QED BY <2>12, <3>1, <3>2 DEF Slots
    <2>14. PICK q : q = Gaining(p, x)
      OBVIOUS
    <2>15. q \in Places /\ Roomy(q) /\ ~q.ended /\ q.next = <<>> /\ Ended(q) = Ended(p)
      BY <2>11, <2>13, <2>14, GainingPlace
    <2>16. PICK b : b = Layout(q, 1, "any", js)
      OBVIOUS
    <2>17. Laid(td, b, z)
      BY <2>11, <2>15, <2>16
    <2>18. PICK c : c = Layout(p, 0, a.then, js)
      OBVIOUS
    <2>19. Laid(ts, c, b)
      BY <1>2, <1>4, <2>1, <2>4, <2>10, <2>11, <2>12, <2>14, <2>16, <2>18, LaidMatch
    <2>20. Matches(c)'
      <3>1. a.then # "patch"
        BY <2>4 DEF Loose
      <3> QED BY <2>2, <2>5, <2>6, <2>7, <2>11, <2>18, <3>1, MatchesKept
    <2>21. Laid(Tail(todo), b, z)
      BY <2>8, <2>17
    <2> QED BY ONLY <2>2, <2>3, <2>19, <2>20, <2>21, Laid(todo, a, z), Done(z), OperandStep
  <1> QED
    BY <1>1, <1>3, <1>4

----------------------------------------------------------------------------
(* Names.  A local that an instruction refers to is on the stack.          *)
LEMMA ResolvedSlot ==
    ASSUME NEW ns, NEW ls \in Seq(LocalRecords(ns)), NEW name, NEW i \in 1 .. Len(ls),
           ls[i].name = name
    PROVE  ResolveLocal(ls, name) # -1
  <1>1. PICK found : found = {k \in DOMAIN ls : ls[k].name = name}
    OBVIOUS
  <1>2. i \in found /\ found \subseteq 0 .. Len(ls) /\ Len(ls) \in Nat
    BY <1>1
  <1>3. PICK m \in found : \A k \in found : k <= m
    BY <1>2, Greatest
  <1>4. (CHOOSE k \in found : \A j \in found : j <= k) \in found
    BY <1>3
  <1>5. ResolveLocal(ls, name) \in found
    BY <1>1, <1>2, <1>4 DEF ResolveLocal
  <1> QED
    BY <1>2, <1>5

LEMMA SettledSlots ==
    ASSUME IInv, NEW a, NEW p \in Places, p = a.place, ~p.ended, Matches(a),
           NEW slot \in 1 .. Len(locals), p.next = <<>> \/ locals[slot].initialized
    PROVE  slot \in 1 .. Len(p.vars)
  <1>1. PICK vs \in Seq(Slots) : CurrentMatches(a, vs)
    BY DEF Matches
  <1>2. PICK nx \in Seq(Slots) : nx = p.next
    BY PlaceFacts
  <1>3. /\ SlotsOf(locals) = vs \o nx /\ p.vars = vs
        /\ nx # <<>> => Len(nx) = 1 /\ ~locals[Len(locals)].initialized
    BY <1>1, <1>2 DEF CurrentMatches, LastOf
  <1>4. PICK n \in Nat : n = Len(locals)
    BY LocalFacts
  <1>5. Len(vs \o nx) = n
    BY <1>3, <1>4, LocalFacts, SlotsOfIs
  <1>6. CASE nx = <<>>
    BY <1>3, <1>4, <1>5, <1>6
  <1>7. CASE nx # <<>>
    <2>1. Len(vs) + 1 = n
      <3>1. Len(vs \o nx) = Len(vs) + Len(nx) /\ Len(nx) = 1
        BY <1>2, <1>3, <1>7
      <3> QED BY ONLY <1>5, <3>1
    <2>2. slot # n
      BY <1>2, <1>3, <1>4, <1>7
    <2> QED BY <1>3, <1>4, <2>1, <2>2
  <1> QED
    BY <1>6, <1>7

LEMMA GetMatchStep ==
    ASSUME IInv, NEW a, NEW z, Laid(todo, a, z), Done(z), Matches(a), GetMatch
    PROVE  InStep'
  <1>1. PICK slot : slot = ResolveLocal(locals, "$match")
    OBVIOUS
  <1>2. /\ TaskIs("getMatch") /\ todo' = <<Get(slot)>> \o Tail(todo)
        /\ UNCHANGED <<locals, depth, outer, loops, point, jumps>>
    BY <1>1 DEF GetMatch
  <1>3. todo # <<>> /\ Head(todo).do = "getMatch"
    BY <1>2 DEF TaskIs, Task
  <1>4. /\ a.place \in Places /\ a.pending \in Seq(Piles) /\ a.temps \in Nat
        /\ Loose(a.then) /\ ~a.place.ended /\ a.place.next = <<>>
        /\ \E i \in 1 .. Len(a.place.vars) : a.place.vars[i][1] = "$match"
        /\ Laid(Tail(todo), Layout(a.place, a.temps + 1, "any", a.pending), z)
    BY <1>3, OperandFacts
  <1>5. PICK p \in Places : p = a.place
    BY <1>4
  <1>6. PICK n \in Nat : n = a.temps
    BY <1>4
  <1>7. slot \in 1 .. Len(p.vars)
    <2>1. PICK vs \in Seq(Slots) : CurrentMatches(a, vs)
      BY DEF Matches
    <2>2. SlotsOf(locals) = p.vars
      BY <1>4, <1>5, <2>1 DEF CurrentMatches
    <2>3. PICK i \in 1 .. Len(p.vars) : p.vars[i][1] = "$match"
      BY <1>4, <1>5
    <2>4. i \in 1 .. Len(locals) /\ locals[i].name = "$match"
      BY <2>2, <2>3, LocalFacts, SlotsOfIs
    <2>5. slot # -1
      BY <1>1, <2>4, LocalFacts, ResolvedSlot
    <2>6. slot \in 1 .. Len(locals)
      BY <1>1, <2>5, LocalFacts, ResolveLocalIs
    <2> QED BY <2>2, <2>6, LocalFacts, SlotsOfIs
  <1>8. PICK c : c = Layout(p, n, a.then, a.pending)
    OBVIOUS
  <1>9. PICK b : b = Layout(p, n + 1, "any", a.pending)
    OBVIOUS
  <1>10. Laid(<<Get(slot)>>, c, b)
    <2>1. c \in Layouts /\ b \in Layouts
      <3>1. n + 1 \in Nat
        OBVIOUS
      <3> QED BY <1>4, <1>8, <1>9, <3>1, LayoutIs, LooseWords
    <2>2. Yields(Get(slot), c, b)
      BY <1>4, <1>5, <1>7, <1>8, <1>9, SlotYields
    <2> QED BY <2>1, <2>2, Laid1
  <1>11. Matches(c)'
    <2>1. a.then # "patch"
      BY <1>4 DEF Loose
    <2> QED BY <1>2, <1>5, <1>6, <1>8, <2>1, MatchesKept
  <1>12. Laid(Tail(todo), b, z)
    BY <1>4, <1>5, <1>6, <1>9
  <1> QED
    BY ONLY <1>2, <1>3, <1>10, <1>11, <1>12, Laid(todo, a, z), Done(z), OperandStep

(* A variable that is captured keeps its name, depth and slot.             *)
LEMMA CaptureMatches ==
    ASSUME IInv, NEW a, OuterMatches(a), NEW b, b.place.saved = a.place.saved, NEW name,
           NEW home \in Nat, NEW resolved, outer' = MarkCaptured(name, home, resolved),
           home + 1 <= Level, ResolveLocal(LocalsOf(home), name) # -1
    PROVE  OuterMatches(b)'
  <1>1. PICK N \in Nat : N = Len(outer) /\ N = Level
    BY FunctionFacts DEF IInv
  <1>2. PICK slot : slot = ResolveLocal(LocalsOf(home), name)
    OBVIOUS
  <1>3. /\ Len(outer') = N
        /\ \A i \in 1 .. N : outer'[i].depth = outer[i].depth /\ outer'[i].point = outer[i].point
    BY <1>1, CaptureKeepsDepths DEF IInv
  <1>4. \A i \in 1 .. N :
           /\ i - 1 > home => outer'[i].locals = outer[i].locals
           /\ i - 1 = home => outer'[i].locals = [outer[i].locals EXCEPT ![slot].captured = TRUE]
           /\ i - 1 < home => outer'[i] = outer[i]
    BY <1>1, <1>2, CaptureFields DEF IInv
  <1>5. /\ \A i \in 1 .. N : outer[i].locals \in Seq(LocalRecords(Names))
        /\ LocalsOf(home) = outer[home + 1].locals
    BY <1>1, FunctionFacts DEF IInv, LocalsOK
  <1>6. ASSUME NEW i \in 1 .. N
        PROVE  /\ SlotsOf(outer'[i].locals) = SlotsOf(outer[i].locals)
               /\ LastOf(outer'[i].locals).initialized = LastOf(outer[i].locals).initialized
    <2>1. i - 1 > home \/ i - 1 = home \/ i - 1 < home
      OBVIOUS
    <2>2. CASE i - 1 > home
      BY <1>4, <2>2
    <2>3. CASE i - 1 < home
      BY <1>4, <2>3
    <2>4. CASE i - 1 = home
      <3>1. PICK ls \in Seq(LocalRecords(Names)) : ls = outer[i].locals
        BY <1>5
      <3>2. LocalsOf(home) = ls
        BY <1>5, <2>4, <3>1
      <3>3. slot \in 1 .. Len(ls) /\ Len(ls) \in Nat
        BY <1>2, <3>2, ResolveLocalIs
      <3>4. PICK m : m = [ls EXCEPT ![slot].captured = TRUE]
        OBVIOUS
      <3>5. m = outer'[i].locals
        BY <1>4, <2>4, <3>1, <3>4
      <3>6. PICK r : r = [ls[slot] EXCEPT !.captured = TRUE]
        OBVIOUS
      <3>7. /\ r.name = ls[slot].name /\ r.depth = ls[slot].depth
            /\ r.initialized = ls[slot].initialized
        BY <3>3, <3>6 DEF LocalRecords
      <3>8. /\ Len(m) = Len(ls) /\ DOMAIN m = DOMAIN ls
            /\ \A k \in 1 .. Len(ls) : m[k] = IF k = slot THEN r ELSE ls[k]
        <4>1. m = [ls EXCEPT ![slot] = r]
          BY ONLY <3>4, <3>6
        <4> QED BY ONLY <3>1, <3>3, <4>1
      <3>9. SlotsOf(m) = SlotsOf(ls)
        BY <3>7, <3>8, SlotsOfSame
      <3>10. LastOf(m).initialized = LastOf(ls).initialized
        BY <3>3, <3>7, <3>8 DEF LastOf
      <3> QED BY <3>1, <3>5, <3>9, <3>10
    <2> QED BY <2>1, <2>2, <2>3, <2>4
  <1>7. \A i \in 1 .. N : FrameMatches(outer'[i], a.place.saved[i])
    <2>1. \A i \in 1 .. N : FrameMatches(outer[i], a.place.saved[i])
      BY <1>1 DEF OuterMatches
    <2>2. \A i \in 1 .. N : outer'[i].depth = outer[i].depth /\ outer'[i].point = outer[i].point
      BY <1>3
    <2> TAKE i \in 1 .. N
    <2>3. PICK o : o = outer[i]
      OBVIOUS
    <2>4. PICK o2 : o2 = outer'[i]
      OBVIOUS
    <2>5. PICK f : f = a.place.saved[i]
      OBVIOUS
    <2>6. /\ SlotsOf(o2.locals) = SlotsOf(o.locals) /\ o2.depth = o.depth /\ o2.point = o.point
          /\ LastOf(o2.locals).initialized = LastOf(o.locals).initialized /\ FrameMatches(o, f)
      BY ONLY <1>6, <2>1, <2>2, <2>3, <2>4, <2>5, i \in 1 .. N, Zenon
    <2>7. FrameMatches(o2, f)
      BY ONLY <2>6 DEF FrameMatches
    <2> QED BY ONLY <2>4, <2>5, <2>7, Zenon
  <1> QED
    <2>1. Len(outer) = Len(a.place.saved)
      BY <1>1 DEF OuterMatches
    <2>2. Len(outer') = Len(b.place.saved) /\ Len(outer') = N /\ b.place.saved = a.place.saved
      BY ONLY <1>1, <1>3, <2>1, b.place.saved = a.place.saved
    <2> QED BY ONLY <1>7, <2>2 DEF OuterMatches, FrameMatches

LEMMA RegularLocal ==
    ASSUME RegularAccess, CompileIdentifier \/ AssignName, IsSequence(todo), todo # <<>>,
           NEW assigned, NEW slot, todo' = <<IF assigned THEN Set(slot) ELSE Get(slot)>> \o Tail(todo)
    PROVE  locals[slot].initialized
  <1>1. PICK t : t = IF assigned THEN Set(slot) ELSE Get(slot)
    OBVIOUS
  <1>2. Head(todo') = t
    BY <1>1, NewTask
  <1>3. t.do \in {"get", "set"} /\ t.slot = slot
    BY ONLY <1>1 DEF Get, Set
  <1> QED
    BY ONLY <1>2, <1>3, CompileIdentifier \/ AssignName, RegularAccess, Zenon DEF RegularAccess

LEMMA AccessStep ==
    ASSUME IInv, RegularAccess, CompileIdentifier \/ AssignName, NEW a, NEW z, Laid(todo, a, z), Done(z), Matches(a), todo # <<>>,
           NEW p \in Places, p = a.place, NEW n \in Nat, n = a.temps, NEW js \in Seq(Piles),
           js = a.pending, NEW w, Loose(w), w = a.then, ~p.ended, NEW name,
           NEW assigned \in BOOLEAN, Access(name, assigned), assigned => n > 0,
           NEW m, m = IF assigned THEN n ELSE n + 1,
           Laid(Tail(todo), Layout(p, m, "any", js), z)
    PROVE  InStep'
  <1>1. PICK slot : slot = ResolveLocal(locals, name)
    OBVIOUS
  <1>2. PICK home : home = Home(name)
    OBVIOUS
  <1>3. UNCHANGED <<locals, depth, loops, point, jumps>>
    BY DEF Access
  <1>4. PICK c : c = Layout(p, n, w, js)
    OBVIOUS
  <1>5. c.place = p /\ c.temps = n /\ c.then = w /\ c.pending = js /\ w # "patch"
    BY <1>4, LayoutFields DEF Loose
  <1>6. PICK b : b = Layout(p, m, "any", js)
    OBVIOUS
  <1>7. c \in Layouts /\ b \in Layouts /\ m \in Nat
    <2>1. m \in Nat
      OBVIOUS
    <2> QED BY <1>4, <1>6, <2>1, LayoutIs, LooseWords
  <1>8. Laid(Tail(todo), b, z)
    BY <1>6
  <1>9. /\ (outer' = outer => Matches(c)')
        /\ OuterMatches(c)' => Matches(c)'
    <2>1. outer' = outer => Matches(c)'
      BY <1>3, <1>4, <1>5, MatchesKept
    <2>2. PICK vs \in Seq(Slots) : CurrentMatches(a, vs)
      BY DEF Matches
    <2>3. CurrentMatches(c, vs)'
      BY <1>3, <1>5, <2>2, CurrentKept
    <2>4. LoopsMatch(c)' /\ JumpsMatch(c)'
      BY <1>3, <1>5, LoopsKept, JumpsKept DEF Matches
    <2> QED BY <2>1, <2>3, <2>4 DEF Matches
  <1>10. CASE /\ slot # -1 /\ outer' = outer
              /\ todo' = <<IF assigned THEN Set(slot) ELSE Get(slot)>> \o Tail(todo)
    <2>1. slot \in 1 .. Len(locals)
      BY <1>1, <1>10, LocalFacts, ResolveLocalIs
    <2>2. locals[slot].initialized
      BY <1>10, RegularLocal, LaidSequence
    <2>3. slot \in 1 .. Len(p.vars)
      BY <2>1, <2>2, SettledSlots
    <2>4. PICK t : t = IF assigned THEN Set(slot) ELSE Get(slot)
      OBVIOUS
    <2>5. Yields(t, c, b)
      BY <1>4, <1>6, <2>3, <2>4, SlotYields
    <2>6. Laid(<<t>>, c, b)
      BY <1>7, <2>5, Laid1
    <2>7. todo' = <<t>> \o Tail(todo) /\ Matches(c)'
      BY <1>9, <1>10, <2>4
    <2> QED BY ONLY <1>8, <2>6, <2>7, todo # <<>>, Laid(todo, a, z), Done(z), OperandStep
  <1>11. CASE /\ outer' = outer
              /\ todo' = <<IF assigned THEN SetName ELSE Load>> \o Tail(todo)
    <2>1. PICK t : t = IF assigned THEN SetName ELSE Load
      OBVIOUS
    <2>2. Yields(t, c, b)
      <3>1. CASE assigned
        <4>1. 1 \in 0 .. n /\ m = (n - 1) + 1 /\ 1 \in Nat /\ t = Emit(1, 1)
          BY <2>1, <3>1 DEF SetName
        <4> QED BY <1>4, <1>6, <4>1, EmitYields
      <3>2. CASE ~assigned
        <4>1. 0 \in 0 .. n /\ m = (n - 0) + 1 /\ 1 \in Nat /\ t = Emit(0, 1)
          BY <2>1, <3>2 DEF Load
        <4> QED BY <1>4, <1>6, <4>1, EmitYields
      <3> QED BY <3>1, <3>2
    <2>3. Laid(<<t>>, c, b)
      BY <1>7, <2>2, Laid1
    <2>4. todo' = <<t>> \o Tail(todo) /\ Matches(c)'
      BY <1>9, <1>11, <2>1
    <2> QED BY ONLY <1>8, <2>3, <2>4, todo # <<>>, Laid(todo, a, z), Done(z), OperandStep
  <1>12. CASE /\ home # -1
              /\ \E resolved :
                    /\ outer' = MarkCaptured(name, home, resolved)
                    /\ todo' = <<IF assigned THEN SetUpvalue(resolved[Level].index, name)
                                 ELSE GetUpvalue(resolved[Level].index, name)>> \o Tail(todo)
    <2>1. PICK resolved :
              /\ outer' = MarkCaptured(name, home, resolved)
              /\ todo' = <<IF assigned THEN SetUpvalue(resolved[Level].index, name)
                           ELSE GetUpvalue(resolved[Level].index, name)>> \o Tail(todo)
      BY <1>12
    <2>2. PICK k : k = resolved[Level].index
      OBVIOUS
    <2>3. PICK t : t = IF assigned THEN SetUpvalue(k, name) ELSE GetUpvalue(k, name)
      OBVIOUS
    <2>4. Yields(t, c, b)
      BY <1>4, <1>6, <2>3, UpvalueYields
    <2>5. Laid(<<t>>, c, b)
      BY <1>7, <2>4, Laid1
    <2>6. todo' = <<t>> \o Tail(todo)
      BY <2>1, <2>2, <2>3
    <2>7. OuterMatches(c)'
      <3>1. Level \in Nat
        BY FunctionFacts DEF IInv
      <3>2. home \in 0 .. (Level - 1) /\ ResolveLocal(LocalsOf(home), name) # -1
        BY <1>2, <1>12, <3>1, HomeIs
      <3>3. home \in Nat /\ home + 1 <= Level
        BY <3>1, <3>2
      <3>4. OuterMatches(a) /\ c.place.saved = a.place.saved
        BY <1>5 DEF Matches
      <3> QED BY <2>1, <3>2, <3>3, <3>4, CaptureMatches
    <2>8. Matches(c)'
      BY <1>9, <2>7
    <2> QED BY ONLY <1>8, <2>5, <2>6, <2>8, todo # <<>>, Laid(todo, a, z), Done(z), OperandStep
  <1> QED
    BY <1>1, <1>2, <1>10, <1>11, <1>12 DEF Access

LEMMA NameSteps ==
    ASSUME IInv, RegularAccess, NEW a, NEW z, Laid(todo, a, z), Done(z), Matches(a),
           CompileIdentifier \/ AssignName
    PROVE  InStep'
  <1>1. PICK td : td = Tail(todo)
    OBVIOUS
  <1>2. CASE CompileIdentifier
    <2>1. TaskIs("expr") /\ \E name : Access(name, FALSE)
      BY <1>2 DEF CompileIdentifier
    <2>2. todo # <<>> /\ Head(todo).do = "expr"
      BY <2>1 DEF TaskIs, Task
    <2>3. /\ a.place \in Places /\ a.pending \in Seq(Piles) /\ a.temps \in Nat
          /\ Loose(a.then) /\ ~a.place.ended
          /\ Laid(Tail(todo), Layout(a.place, a.temps + 1, "any", a.pending), z)
      BY <2>2, OperandFacts
    <2>4. PICK assigned \in BOOLEAN : assigned = FALSE
      OBVIOUS
    <2>5. PICK m : m = IF assigned THEN a.temps ELSE a.temps + 1
      OBVIOUS
    <2>6. Laid(Tail(todo), Layout(a.place, m, "any", a.pending), z)
      BY <2>3, <2>4, <2>5
    <2>7. \E name : Access(name, assigned)
      BY <2>1, <2>4
    <2> QED BY <2>2, <2>3, <2>4, <2>5, <2>6, <2>7, AccessStep
  <1>3. CASE AssignName
    <2>1. TaskIs("assign") /\ \E name : Access(name, TRUE)
      BY <1>3 DEF AssignName
    <2>2. todo # <<>> /\ Head(todo).do = "assign"
      BY <2>1 DEF TaskIs, Task
    <2>3. /\ a.place \in Places /\ a.pending \in Seq(Piles) /\ a.temps \in Nat
          /\ Loose(a.then) /\ ~a.place.ended /\ a.temps > 0
          /\ Laid(Tail(todo), Layout(a.place, a.temps, "any", a.pending), z)
      BY <2>2, OperandFacts
    <2>4. PICK assigned \in BOOLEAN : assigned = TRUE
      OBVIOUS
    <2>5. PICK m : m = IF assigned THEN a.temps ELSE a.temps + 1
      OBVIOUS
    <2>6. Laid(Tail(todo), Layout(a.place, m, "any", a.pending), z)
      BY <2>3, <2>4, <2>5
    <2>7. \E name : Access(name, assigned)
      BY <2>1, <2>4
    <2> QED BY <2>2, <2>3, <2>4, <2>5, <2>6, <2>7, AccessStep
  <1> QED
    BY <1>2, <1>3

----------------------------------------------------------------------------
(* Steps between the statements and operands.                              *)
LEMMA YieldsKinds ==
    ASSUME NEW t, NEW a, NEW b, Yields(t, a, b)
    PROVE  /\ t.do \in Instructions => YieldsInstruction(t, a, b)
           /\ t.do \in {"expr", "assign", "getMatch"} => YieldsOperand(t, a, b)
           /\ t.do \in {"statements", "elseIf", "block"} => YieldsStatement(t, a, b)
           /\ t.do = "for" => YieldsFor(t, a, b)
           /\ t.do = "return" => YieldsReturn(t, a, b)
           /\ t.do \in {"break", "loop", "continue"} => YieldsExit(t, a, b)
           /\ t.do \in {"jump", "jumpIfFalse"} => YieldsJump(t, a, b)
           /\ t.do = "patch" => YieldsPatch(t, a, b)
           /\ t.do \in {"begin", "end"} => YieldsScope(t, a, b)
           /\ t.do \in {"declare", "declareFn", "mark"} => YieldsLocal(t, a, b)
           /\ t.do \in {"pushLoop", "endLoop"} => YieldsLoop(t, a, b)
           /\ t.do = "leaveFunction" => YieldsFunction(t, a, b)
           /\ t.do # "patch" => a.then # "patch"
           /\ t.do # "emit" => a.then # "pop"
  <1>1. t.do \in Instructions => YieldsInstruction(t, a, b)
    BY ONLY Yields(t, a, b) DEF Yields, Do, Instructions, YieldsOperand, YieldsStatement, YieldsFor, YieldsReturn,
       YieldsExit, YieldsJump, YieldsPatch, YieldsScope, YieldsLocal,
       YieldsLoop, YieldsFunction
  <1>2. t.do \in {"expr", "assign", "getMatch"} => YieldsOperand(t, a, b)
    BY ONLY Yields(t, a, b) DEF Yields, Do, Instructions, YieldsInstruction, YieldsStatement, YieldsFor, YieldsReturn,
       YieldsExit, YieldsJump, YieldsPatch, YieldsScope, YieldsLocal,
       YieldsLoop, YieldsFunction
  <1>3. t.do \in {"statements", "elseIf", "block"} => YieldsStatement(t, a, b)
    BY ONLY Yields(t, a, b) DEF Yields, Do, Instructions, YieldsInstruction, YieldsOperand, YieldsFor, YieldsReturn,
       YieldsExit, YieldsJump, YieldsPatch, YieldsScope, YieldsLocal,
       YieldsLoop, YieldsFunction
  <1>4. t.do = "for" => YieldsFor(t, a, b)
    BY ONLY Yields(t, a, b) DEF Yields, Do, Instructions, YieldsInstruction, YieldsOperand, YieldsStatement, YieldsReturn,
       YieldsExit, YieldsJump, YieldsPatch, YieldsScope, YieldsLocal,
       YieldsLoop, YieldsFunction
  <1>5. t.do = "return" => YieldsReturn(t, a, b)
    BY ONLY Yields(t, a, b) DEF Yields, Do, Instructions, YieldsInstruction, YieldsOperand, YieldsStatement, YieldsFor,
       YieldsExit, YieldsJump, YieldsPatch, YieldsScope, YieldsLocal,
       YieldsLoop, YieldsFunction
  <1>6. t.do \in {"break", "loop", "continue"} => YieldsExit(t, a, b)
    BY ONLY Yields(t, a, b) DEF Yields, Do, Instructions, YieldsInstruction, YieldsOperand, YieldsStatement, YieldsFor,
       YieldsReturn, YieldsJump, YieldsPatch, YieldsScope, YieldsLocal,
       YieldsLoop, YieldsFunction
  <1>7. t.do \in {"jump", "jumpIfFalse"} => YieldsJump(t, a, b)
    BY ONLY Yields(t, a, b) DEF Yields, Do, Instructions, YieldsInstruction, YieldsOperand, YieldsStatement, YieldsFor,
       YieldsReturn, YieldsExit, YieldsPatch, YieldsScope, YieldsLocal,
       YieldsLoop, YieldsFunction
  <1>8. t.do = "patch" => YieldsPatch(t, a, b)
    BY ONLY Yields(t, a, b) DEF Yields, Do, Instructions, YieldsInstruction, YieldsOperand, YieldsStatement, YieldsFor,
       YieldsReturn, YieldsExit, YieldsJump, YieldsScope, YieldsLocal,
       YieldsLoop, YieldsFunction
  <1>9. t.do \in {"begin", "end"} => YieldsScope(t, a, b)
    BY ONLY Yields(t, a, b) DEF Yields, Do, Instructions, YieldsInstruction, YieldsOperand, YieldsStatement, YieldsFor,
       YieldsReturn, YieldsExit, YieldsJump, YieldsPatch, YieldsLocal,
       YieldsLoop, YieldsFunction
  <1>10. t.do \in {"declare", "declareFn", "mark"} => YieldsLocal(t, a, b)
    BY ONLY Yields(t, a, b) DEF Yields, Do, Instructions, YieldsInstruction, YieldsOperand, YieldsStatement, YieldsFor,
       YieldsReturn, YieldsExit, YieldsJump, YieldsPatch, YieldsScope,
       YieldsLoop, YieldsFunction
  <1>11. t.do \in {"pushLoop", "endLoop"} => YieldsLoop(t, a, b)
    BY ONLY Yields(t, a, b) DEF Yields, Do, Instructions, YieldsInstruction, YieldsOperand, YieldsStatement, YieldsFor,
       YieldsReturn, YieldsExit, YieldsJump, YieldsPatch, YieldsScope,
       YieldsLocal, YieldsFunction
  <1>12. t.do = "leaveFunction" => YieldsFunction(t, a, b)
    BY ONLY Yields(t, a, b) DEF Yields, Do, Instructions, YieldsInstruction, YieldsOperand, YieldsStatement, YieldsFor,
       YieldsReturn, YieldsExit, YieldsJump, YieldsPatch, YieldsScope,
       YieldsLocal, YieldsLoop
  <1>13. t.do # "patch" => a.then # "patch"
    BY DEF Yields, Admits, Patch
  <1>14. t.do # "emit" => a.then # "pop"
    BY DEF Yields, Admits, Pop, Emit
  <1> QED
    BY <1>1, <1>2, <1>3, <1>4, <1>5, <1>6, <1>7, <1>8, <1>9, <1>10, <1>11, <1>12, <1>13, <1>14

LEMMA PrimitiveStep ==
    ASSUME NEW b, NEW z, Laid(Tail(todo), b, z), Done(z), todo' = Tail(todo), Matches(b)'
    PROVE  InStep'
  BY DEF InStep

(* What a task needs and gives.                                            *)
LEMMA TaskFacts ==
    ASSUME NEW a, NEW z, Laid(todo, a, z), todo # <<>>, NEW t, t = Task
    PROVE  /\ a.place \in Places /\ a.temps \in Nat /\ a.then \in Words /\ a.pending \in Seq(Piles)
           /\ \E b \in Layouts : Yields(t, a, b) /\ Laid(Tail(todo), b, z)
  BY NextLaid DEF Task

LEMMA StackFacts ==
    ASSUME NEW vs \in Seq(Slots), NEW n \in Nat
    PROVE  /\ StackOf(vs, n) \in Seq(Slots \cup {Temp}) /\ Len(StackOf(vs, n)) = Len(vs) + n
           /\ \A i \in 1 .. Len(vs) : StackOf(vs, n)[i] = vs[i]
           /\ \A i \in (Len(vs) + 1) .. (Len(vs) + n) : StackOf(vs, n)[i] = Temp
  <1>1. PICK T : T = Slots \cup {Temp}
    OBVIOUS
  <1>2. PICK ws : ws = [i \in 1 .. n |-> Temp]
    OBVIOUS
  <1>3. vs \in Seq(T) /\ Temp \in T
    BY <1>1
  <1>4. ws \in Seq(T) /\ Len(ws) = n /\ \A i \in 1 .. n : ws[i] = Temp
    BY <1>2, <1>3
  <1>5. StackOf(vs, n) = vs \o ws
    BY <1>2 DEF StackOf
  <1>6. PICK m \in Nat : m = Len(vs)
    OBVIOUS
  <1>7. /\ vs \o ws \in Seq(T) /\ Len(vs \o ws) = m + n
        /\ \A i \in 1 .. m + n : (vs \o ws)[i] = IF i <= m THEN vs[i] ELSE ws[i - m]
    BY <1>3, <1>4, <1>6
  <1>8. \A i \in (m + 1) .. (m + n) : i - m \in 1 .. n /\ i \in 1 .. m + n /\ ~(i <= m)
    BY <1>6
  <1>9. \A i \in 1 .. m : i \in 1 .. m + n /\ i <= m
    BY <1>6
  <1> QED
    BY <1>1, <1>4, <1>5, <1>6, <1>7, <1>8, <1>9

LEMMA StackIs ==
    ASSUME NEW T, NEW s \in Seq(T), NEW vs \in Seq(Slots), NEW n \in Nat, Len(s) = Len(vs) + n,
           \A i \in 1 .. Len(vs) : s[i] = vs[i],
           \A i \in (Len(vs) + 1) .. (Len(vs) + n) : s[i] = Temp
    PROVE  s = StackOf(vs, n)
  <1>1. PICK u : u = StackOf(vs, n)
    OBVIOUS
  <1>2. PICK m \in Nat : m = Len(vs)
    OBVIOUS
  <1>3. /\ u \in Seq(Slots \cup {Temp}) /\ Len(u) = m + n
        /\ \A i \in 1 .. m : u[i] = vs[i]
        /\ \A i \in (m + 1) .. (m + n) : u[i] = Temp
    BY <1>1, <1>2, StackFacts
  <1>4. \A i \in 1 .. m + n : i \in 1 .. m \/ i \in (m + 1) .. (m + n)
    BY <1>2
  <1>5. \A i \in 1 .. m + n : s[i] = u[i]
    BY <1>2, <1>3, <1>4
  <1>6. u = [i \in 1 .. m + n |-> u[i]]
    BY <1>3
  <1>7. s = [i \in 1 .. m + n |-> s[i]]
    BY <1>2
  <1>8. s = u
    BY ONLY <1>5, <1>6, <1>7
  <1> QED
    BY <1>1, <1>8

LEMMA AfterIs ==
    ASSUME NEW vs \in Seq(Slots), NEW n \in Nat, NEW k \in 0 .. n, NEW m \in Nat, NEW e,
           e.pops = k, e.pushes = m, NEW q, Is(q, StackOf(vs, n)), NEW x, x = (n - k) + m
    PROVE  Is(After(q, e), StackOf(vs, x))
  <1>1. CASE q = Dead
    BY <1>1 DEF After, Dead, Is
  <1>2. CASE q = At(StackOf(vs, n))
    <2>1. PICK s : s = StackOf(vs, n)
      OBVIOUS
    <2>2. PICK T : T = Slots \cup {Temp}
      OBVIOUS
    <2>3. PICK h \in Nat : h = Len(vs)
      OBVIOUS
    <2>4. /\ s \in Seq(T) /\ Len(s) = h + n /\ Temp \in T
          /\ \A i \in 1 .. h : s[i] = vs[i]
          /\ \A i \in (h + 1) .. (h + n) : s[i] = Temp
      BY <2>1, <2>2, <2>3, StackFacts
    <2>5. PICK j \in Nat : j = n - k /\ j <= n
      OBVIOUS
    <2>6. PICK r : r = Drop(s, k)
      OBVIOUS
    <2>7. r \in Seq(T) /\ Len(r) = h + j /\ \A i \in 1 .. h + j : r[i] = s[i]
      <3>1. (h + n) - k = h + j /\ h + j \in 0 .. (h + n)
        BY <2>3, <2>5
      <3>2. r = SubSeq(s, 1, h + j)
        BY <2>4, <2>6, <3>1 DEF Drop
      <3> QED BY <2>4, <3>1, <3>2
    <2>8. PICK ws : ws = [i \in 1 .. m |-> Temp]
      OBVIOUS
    <2>9. ws \in Seq(T) /\ Len(ws) = m /\ \A i \in 1 .. m : ws[i] = Temp
      <3>1. Temp \in T
        BY <2>4
      <3> QED BY ONLY <2>8, <3>1, m \in Nat
    <2>10. PICK u : u = r \o ws
      OBVIOUS
    <2>11. /\ u \in Seq(T) /\ Len(u) = (h + j) + m
           /\ \A i \in 1 .. (h + j) + m : u[i] = IF i <= h + j THEN r[i] ELSE ws[i - (h + j)]
      <3>1. PICK g \in Nat : g = h + j
        <4>1. h + j \in Nat
          BY ONLY h \in Nat, j \in Nat
        <4> QED BY ONLY <4>1
      <3>2. r \in Seq(T) /\ Len(r) = g /\ ws \in Seq(T) /\ Len(ws) = m
        BY <2>7, <2>9, <3>1
      <3>3. /\ u \in Seq(T) /\ Len(u) = g + m
            /\ \A i \in 1 .. g + m : u[i] = IF i <= g THEN r[i] ELSE ws[i - g]
        <4>1. /\ r \o ws \in Seq(T) /\ Len(r \o ws) = g + m
              /\ \A i \in 1 .. g + m : (r \o ws)[i] = IF i <= g THEN r[i] ELSE ws[i - g]
          <5>1. IsSequence(r) /\ IsSequence(ws) /\ r \o ws \in Seq(T)
            BY ONLY <3>2 DEF IsSequence
          <5>2. /\ Len(r \o ws) = g + m /\ \A i \in 1 .. g : (r \o ws)[i] = r[i]
                /\ \A i \in 1 .. m : (r \o ws)[g + i] = ws[i]
            <6>1. Len(r) = g /\ Len(ws) = m
              BY ONLY <3>2
            <6>2. /\ Len(r \o ws) = Len(r) + Len(ws) /\ \A i \in 1 .. Len(r) : (r \o ws)[i] = r[i]
                  /\ \A i \in 1 .. Len(ws) : (r \o ws)[Len(r) + i] = ws[i]
              BY ONLY <5>1, ConcatFacts
            <6> QED BY ONLY <6>1, <6>2, Zenon
          <5>3. ASSUME NEW i \in 1 .. g + m, ~(i <= g) PROVE (r \o ws)[i] = ws[i - g]
            <6>1. i - g \in 1 .. m /\ g + (i - g) = i
              BY ONLY <5>3, g \in Nat, m \in Nat
            <6> QED BY ONLY <5>2, <6>1
          <5>4. ASSUME NEW i \in 1 .. g + m, i <= g PROVE (r \o ws)[i] = r[i]
            <6>1. i \in 1 .. g
              BY ONLY <5>4, g \in Nat, m \in Nat
            <6> QED BY ONLY <5>2, <6>1
          <5> QED BY ONLY <5>1, <5>2, <5>3, <5>4
        <4> QED BY ONLY <2>10, <4>1
      <3> QED BY <3>1, <3>3
    <2>12. x \in Nat /\ (h + j) + m = h + x
      BY <2>3, <2>5
    <2>13. \A i \in 1 .. h : u[i] = vs[i]
      <3> TAKE i \in 1 .. h
      <3>1. i \in 1 .. (h + j) + m /\ i <= h + j /\ i \in 1 .. h + j
        BY <2>3, <2>5
      <3> QED BY <2>4, <2>7, <2>11, <3>1
    <2>14. \A i \in (h + 1) .. (h + x) : u[i] = Temp
      <3> TAKE i \in (h + 1) .. (h + x)
      <3>1. i \in 1 .. (h + j) + m
        BY <2>3, <2>12
      <3>2. CASE i <= h + j
        <4>1. i \in 1 .. h + j /\ i \in (h + 1) .. (h + n)
          BY <2>3, <2>5, <2>12, <3>2
        <4> QED BY <2>4, <2>7, <2>11, <3>1, <3>2, <4>1
      <3>3. CASE ~(i <= h + j)
        <4>1. i - (h + j) \in 1 .. m
          BY <2>3, <2>5, <2>12, <3>3
        <4> QED BY <2>9, <2>11, <3>1, <3>3, <4>1
      <3> QED BY <3>2, <3>3
    <2>15. u = StackOf(vs, x)
      <3>1. u \in Seq(T) /\ x \in Nat /\ Len(u) = Len(vs) + x
        BY <2>3, <2>11, <2>12
      <3>2. /\ \A i \in 1 .. Len(vs) : u[i] = vs[i]
            /\ \A i \in (Len(vs) + 1) .. (Len(vs) + x) : u[i] = Temp
        BY <2>3, <2>13, <2>14
      <3> QED BY ONLY <3>1, <3>2, StackIs, vs \in Seq(Slots)
    <2>16. After(q, e) = At(u)
      <3>1. q.live /\ q.stack = s
        BY <1>2, <2>1 DEF At
      <3> QED BY <2>6, <2>8, <2>10, <3>1 DEF After
    <2> QED BY <2>15, <2>16 DEF Is
  <1> QED
    BY <1>1, <1>2 DEF Is

(* The value on top becomes a local.                                       *)
LEMMA SettledIs ==
    ASSUME NEW vs \in Seq(Slots), NEW x \in Slots, NEW ls, ls # <<>>, Variable(ls[Len(ls)]) = x,
           NEW q, Is(q, StackOf(vs, 1))
    PROVE  Is(Settled(q, ls), StackOf(Append(vs, x), 0)) /\ Is(Settled(q, ls), Append(vs, x))
  <1>1. StackOf(Append(vs, x), 0) = Append(vs, x)
    <2>1. Append(vs, x) \in Seq(Slots)
      OBVIOUS
    <2> QED BY <2>1, StackOfNone
  <1>2. CASE q = Dead
    BY <1>1, <1>2 DEF Settled, Dead, Is
  <1>3. CASE q = At(StackOf(vs, 1))
    <2>1. PICK s : s = StackOf(vs, 1)
      OBVIOUS
    <2>2. PICK T : T = Slots \cup {Temp}
      OBVIOUS
    <2>3. PICK h \in Nat : h = Len(vs)
      OBVIOUS
    <2>4. s \in Seq(T) /\ Len(s) = h + 1 /\ \A i \in 1 .. h : s[i] = vs[i]
      <3>1. 1 \in Nat
        OBVIOUS
      <3> QED BY <2>1, <2>2, <2>3, <3>1, StackFacts
    <2>5. PICK u : u = [s EXCEPT ![h + 1] = x]
      OBVIOUS
    <2>6. u = [i \in 1 .. h + 1 |-> IF i = h + 1 THEN x ELSE s[i]]
      <3>1. s = [i \in 1 .. h + 1 |-> s[i]]
        BY <2>4
      <3> QED BY ONLY <2>5, <3>1
    <2>7. PICK v : v = Append(vs, x)
      OBVIOUS
    <2>8. v \in Seq(Slots) /\ Len(v) = h + 1 /\ v[h + 1] = x /\ \A i \in 1 .. h : v[i] = vs[i]
      BY <2>3, <2>7
    <2>9. \A i \in 1 .. h + 1 : u[i] = v[i]
      <3> TAKE i \in 1 .. h + 1
      <3>1. i = h + 1 \/ (i \in 1 .. h /\ i # h + 1)
        BY <2>3
      <3> QED BY <2>4, <2>6, <2>8, <3>1
    <2>10. v = [i \in 1 .. h + 1 |-> v[i]]
      BY ONLY <2>8
    <2>11. u = v
      BY ONLY <2>6, <2>9, <2>10
    <2>12. Settled(q, ls) = At(u)
      <3>1. q.live /\ q.stack = s
        BY <1>3, <2>1 DEF At
      <3>2. s # <<>> /\ Len(s) = h + 1
        BY <2>3, <2>4
      <3> QED BY <2>5, <3>1, <3>2 DEF Settled
    <2> QED BY <1>1, <2>7, <2>11, <2>12 DEF Is
  <1> QED
    BY <1>2, <1>3 DEF Is

----------------------------------------------------------------------------
(* Instructions, jumps and the places they lead to.                        *)
LEMMA EmitInstructionStep ==
    ASSUME NEW a, NEW z, Laid(todo, a, z), Done(z), Matches(a), EmitInstruction
    PROVE  InStep'
  <1>1. PICK t : t = Task
    OBVIOUS
  <1>2. /\ todo # <<>> /\ t.do \in Instructions /\ point' = After(point, t) /\ todo' = Tail(todo)
        /\ UNCHANGED <<locals, depth, outer, loops, jumps>>
    BY <1>1 DEF EmitInstruction, Instructions
  <1>3. a.place \in Places /\ a.temps \in Nat /\ \E b \in Layouts : Yields(t, a, b) /\ Laid(Tail(todo), b, z)
    BY <1>1, <1>2, TaskFacts
  <1>4. PICK b \in Layouts : Yields(t, a, b) /\ Laid(Tail(todo), b, z)
    BY <1>3
  <1>5. YieldsInstruction(t, a, b)
    BY <1>2, <1>4, YieldsKinds
  <1>6. PICK x : x = (a.temps - t.pops) + t.pushes
    OBVIOUS
  <1>7. t.pops \in 0 .. a.temps /\ t.pushes \in Nat /\ b = With(a, x)
    BY <1>5, <1>6 DEF YieldsInstruction
  <1>8. b.place = a.place /\ b.temps = x /\ b.then = "any" /\ b.pending = a.pending
    BY <1>7, LayoutFields DEF With
  <1>9. PICK vs \in Seq(Slots) : CurrentMatches(a, vs)
    BY DEF Matches
  <1>10. Is(point', StackOf(vs, x))
    <2>1. Is(point, StackOf(vs, a.temps))
      BY <1>9 DEF CurrentMatches
    <2>2. Is(After(point, t), StackOf(vs, x))
      BY <1>3, <1>6, <1>7, <2>1, AfterIs
    <2> QED BY <1>2, <2>2
  <1>11. CurrentMatches(b, vs)'
    BY <1>2, <1>8, <1>9, <1>10 DEF CurrentMatches
  <1>12. OuterMatches(b)' /\ LoopsMatch(b)' /\ JumpsMatch(b)'
    BY <1>2, <1>8, OuterKept, LoopsKept, JumpsKept DEF Matches
  <1>13. Matches(b)'
    BY <1>11, <1>12 DEF Matches
  <1> QED
    BY <1>2, <1>4, <1>13, PrimitiveStep

(* Behind a jump or a return nothing is known of the stack.                *)
LEMMA DeadMatches ==
    ASSUME NEW a, Matches(a), NEW b, b.place = a.place, point' = Dead,
           UNCHANGED <<locals, depth, outer>>, LoopsMatch(b)', JumpsMatch(b)'
    PROVE  Matches(b)'
  <1>1. PICK vs \in Seq(Slots) : CurrentMatches(a, vs)
    BY DEF Matches
  <1>2. CurrentMatches(b, vs)'
    BY <1>1 DEF CurrentMatches, Is
  <1>3. OuterMatches(b)'
    BY OuterKept DEF Matches
  <1> QED
    BY <1>2, <1>3 DEF Matches

LEMMA EmitExitStep ==
    ASSUME NEW a, NEW z, Laid(todo, a, z), Done(z), Matches(a), EmitExit
    PROVE  InStep'
  <1>1. PICK t : t = Task
    OBVIOUS
  <1>2. /\ todo # <<>> /\ t.do \in {"return", "loop", "continue"} /\ point' = Dead /\ todo' = Tail(todo)
        /\ UNCHANGED <<locals, depth, outer, loops, jumps>>
    BY <1>1 DEF EmitExit, TaskIs
  <1>3. PICK b \in Layouts : Yields(t, a, b) /\ Laid(Tail(todo), b, z)
    BY <1>1, <1>2, TaskFacts
  <1>4. b.place = a.place /\ b.pending = a.pending
    <2>1. CASE t.do = "return"
      <3>1. YieldsReturn(t, a, b)
        BY <1>3, <2>1, YieldsKinds
      <3> QED BY <3>1, LayoutFields DEF YieldsReturn
    <2>2. CASE t.do \in {"loop", "continue"}
      <3>1. YieldsExit(t, a, b)
        BY <1>3, <2>2, YieldsKinds
      <3>2. \E n : b = With(a, n)
        BY <2>2, <3>1 DEF YieldsExit
      <3> QED BY <3>2, LayoutFields DEF With
    <2> QED BY <1>2, <2>1, <2>2
  <1>5. LoopsMatch(b)' /\ JumpsMatch(b)'
    BY <1>2, <1>4, LoopsKept, JumpsKept DEF Matches
  <1>6. Matches(b)'
    BY <1>2, <1>4, <1>5, DeadMatches
  <1> QED
    BY <1>2, <1>3, <1>6, PrimitiveStep

LEMMA EmitJumpStep ==
    ASSUME Shapes, NEW a, NEW z, Laid(todo, a, z), Done(z), Matches(a), EmitJump
    PROVE  InStep'
  <1>1. PICK t : t = Task
    OBVIOUS
  <1>2. /\ todo # <<>> /\ t.do \in {"jump", "jumpIfFalse"} /\ todo' = Tail(todo)
        /\ jumps' = Append(jumps, point) /\ point' = (IF t.do = "jump" THEN Dead ELSE point)
        /\ UNCHANGED <<locals, depth, outer, loops>>
    BY <1>1 DEF EmitJump, TaskIs
  <1>3. a.place \in Places /\ a.temps \in Nat /\ a.pending \in Seq(Piles)
    BY <1>1, <1>2, TaskFacts
  <1>4. PICK b \in Layouts : Yields(t, a, b) /\ Laid(Tail(todo), b, z)
    BY <1>1, <1>2, TaskFacts
  <1>5. YieldsJump(t, a, b)
    BY <1>2, <1>4, YieldsKinds
  <1>6. PICK x : x = Pile(a.place.vars, a.temps)
    OBVIOUS
  <1>7. PICK n \in Nat : /\ t.do = "jump" \/ n = a.temps
                         /\ b = Layout(a.place, n, "any", Append(a.pending, x))
    BY <1>5, <1>6 DEF YieldsJump
  <1>8. ~a.place.ended
    BY <1>5 DEF YieldsJump
  <1>9. b.place = a.place /\ b.temps = n /\ b.then = "any" /\ b.pending = Append(a.pending, x)
    <2>1. PICK js : js = Append(a.pending, x)
      OBVIOUS
    <2>2. b = Layout(a.place, n, "any", js)
      BY <1>7, <2>1
    <2> QED BY ONLY <2>1, <2>2 DEF Layout
  <1>10. PICK vs \in Seq(Slots) : CurrentMatches(a, vs)
    BY DEF Matches
  <1>11. CurrentMatches(b, vs)'
    <2>1. Is(point', StackOf(vs, n))
      BY <1>2, <1>7, <1>10 DEF CurrentMatches, Is
    <2> QED BY <1>2, <1>9, <1>10, <2>1 DEF CurrentMatches
  <1>12. JumpsMatch(b)'
    <2>1. x.vars = vs /\ x.temps = a.temps
      BY <1>6, <1>8, <1>10 DEF Pile, CurrentMatches
    <2>2. Is(point, StackOf(x.vars, x.temps))
      BY <1>10, <2>1 DEF CurrentMatches
    <2>3. PICK k \in Nat : k = Len(jumps)
      BY SequenceFacts DEF Shapes
    <2>4. /\ Len(a.pending) = k
          /\ \A i \in 1 .. k : Is(jumps[i], StackOf(a.pending[i].vars, a.pending[i].temps))
      BY <2>3 DEF Matches, JumpsMatch
    <2>5. Len(jumps') = k + 1 /\ jumps'[k + 1] = point /\ \A i \in 1 .. k : jumps'[i] = jumps[i]
      BY <1>2, <2>3, AppendFacts DEF Shapes
    <2>6. /\ Len(b.pending) = k + 1 /\ b.pending[k + 1] = x
          /\ \A i \in 1 .. k : b.pending[i] = a.pending[i]
      <3>1. IsSequence(a.pending)
        BY <1>3 DEF IsSequence
      <3> QED BY <1>9, <2>4, <3>1, AppendFacts
    <2>7. \A i \in 1 .. k + 1 : Is(jumps'[i], StackOf(b.pending[i].vars, b.pending[i].temps))
      <3> TAKE i \in 1 .. k + 1
      <3>1. i = k + 1 \/ i \in 1 .. k
        BY <2>3
      <3> QED BY <2>2, <2>4, <2>5, <2>6, <3>1
    <2> QED BY <2>5, <2>6, <2>7 DEF JumpsMatch
  <1>13. OuterMatches(b)' /\ LoopsMatch(b)'
    BY <1>2, <1>9, OuterKept, LoopsKept DEF Matches
  <1>14. Matches(b)'
    BY <1>11, <1>12, <1>13 DEF Matches
  <1> QED
    BY <1>2, <1>4, <1>14, PrimitiveStep

(* Where a jump arrives it brings the stack that the code before brings.   *)
LEMMA PatchFacts ==
    ASSUME Shapes, NEW a, NEW z, Laid(todo, a, z), Matches(a), TaskIs("patch")
    PROVE  /\ Patched \in 1 .. Len(jumps) /\ Len(a.pending) = Len(jumps)
           /\ a.pending \in Seq(Piles) /\ ~a.place.ended
           /\ \E n \in Nat :
                 /\ Is(jumps[Patched], StackOf(a.place.vars, n))
                 /\ point = Dead \/ n = a.temps
                 /\ Is(point, StackOf(a.place.vars, a.temps))
                 /\ \E w \in {"pop", "any"} : \E b \in Layouts :
                        /\ b = Layout(a.place, n, w, Without(a.pending, Patched))
                        /\ Laid(Tail(todo), b, z)
  <1>1. PICK t : t = Task
    OBVIOUS
  <1>2. todo # <<>> /\ t.do = "patch"
    BY <1>1 DEF TaskIs
  <1>3. a.pending \in Seq(Piles)
    BY <1>1, <1>2, TaskFacts
  <1>4. PICK b \in Layouts : Yields(t, a, b) /\ Laid(Tail(todo), b, z)
    BY <1>1, <1>2, TaskFacts
  <1>5. YieldsPatch(t, a, b)
    BY <1>2, <1>4, YieldsKinds
  <1>6. PICK k \in Nat : k = Len(jumps)
    BY SequenceFacts DEF Shapes
  <1>7. /\ Len(a.pending) = k
        /\ \A i \in 1 .. k : Is(jumps[i], StackOf(a.pending[i].vars, a.pending[i].temps))
    BY <1>6 DEF Matches, JumpsMatch
  <1>8. PICK c : c = (k + 1) - t.nth
    OBVIOUS
  <1>9. c = Patched
    <2>1. t.nth \in 1 .. k
      BY <1>5, <1>7 DEF YieldsPatch
    <2>2. Patched = k + (1 - t.nth)
      BY ONLY <1>1, <1>6, Zenon DEF Patched
    <2> QED BY <1>8, <2>1, <2>2
  <1>10. c \in 1 .. k /\ ~a.place.ended
    BY <1>5, <1>6, <1>7, <1>8 DEF YieldsPatch
  <1>11. PICK n \in Nat :
             /\ a.pending[c] = Pile(a.place.vars, n)
             /\ a.then # "patch" => n = a.temps
             /\ b = Layout(a.place, n, IF a.then = "patch" THEN "pop" ELSE "any",
                           Without(a.pending, c))
    BY <1>5, <1>7, <1>8 DEF YieldsPatch
  <1>12. Is(jumps[c], StackOf(a.place.vars, n))
    <2>1. a.pending[c].vars = a.place.vars /\ a.pending[c].temps = n
      BY <1>11 DEF Pile
    <2> QED BY <1>7, <1>10, <2>1
  <1>13. PICK vs \in Seq(Slots) : CurrentMatches(a, vs)
    BY DEF Matches
  <1>14. (point = Dead \/ n = a.temps) /\ Is(point, StackOf(a.place.vars, a.temps))
    BY <1>10, <1>11, <1>13 DEF CurrentMatches
  <1>15. \E w \in {"pop", "any"} : b = Layout(a.place, n, w, Without(a.pending, c))
    BY <1>11
  <1> QED
    BY <1>3, <1>4, <1>6, <1>7, <1>9, <1>10, <1>12, <1>14, <1>15

LEMMA PatchJumpStep ==
    ASSUME Shapes, NEW a, NEW z, Laid(todo, a, z), Done(z), Matches(a), PatchJump
    PROVE  InStep'
  <1>1. PICK c : c = Patched
    OBVIOUS
  <1>2. /\ TaskIs("patch") /\ point' = Join(point, jumps[c]) /\ todo' = Tail(todo)
        /\ jumps' = [i \in 1 .. (Len(jumps) - 1) |-> jumps[IF i < c THEN i ELSE i + 1]]
        /\ UNCHANGED <<locals, depth, outer, loops>>
    BY <1>1 DEF PatchJump
  <1>3. PICK k \in Nat : k = Len(jumps)
    BY SequenceFacts DEF Shapes
  <1>4. c \in 1 .. k /\ Len(a.pending) = k /\ a.pending \in Seq(Piles) /\ ~a.place.ended
    BY <1>1, <1>2, <1>3, PatchFacts
  <1>5. PICK n \in Nat :
            /\ Is(jumps[c], StackOf(a.place.vars, n)) /\ (point = Dead \/ n = a.temps)
            /\ Is(point, StackOf(a.place.vars, a.temps))
            /\ \E w \in {"pop", "any"} : \E b \in Layouts :
                   /\ b = Layout(a.place, n, w, Without(a.pending, c)) /\ Laid(Tail(todo), b, z)
    BY <1>1, <1>2, PatchFacts
  <1>6. PICK w \in {"pop", "any"}, b \in Layouts :
            b = Layout(a.place, n, w, Without(a.pending, c)) /\ Laid(Tail(todo), b, z)
    BY <1>5
  <1>7. /\ b.place = a.place /\ b.temps = n /\ b.then # "patch"
        /\ b.pending = Without(a.pending, c)
    BY <1>6, LayoutFields
  <1>8. PICK vs \in Seq(Slots) : CurrentMatches(a, vs)
    BY DEF Matches
  <1>9. a.place.vars = vs
    BY <1>4, <1>8 DEF CurrentMatches
  <1>10. Is(point', StackOf(vs, n))
    BY <1>2, <1>5, <1>9 DEF Join, Is, Dead, At
  <1>11. CurrentMatches(b, vs)'
    BY <1>2, <1>7, <1>8, <1>10 DEF CurrentMatches
  <1>12. JumpsMatch(b)'
    <2>1. \A i \in 1 .. k : Is(jumps[i], StackOf(a.pending[i].vars, a.pending[i].temps))
      BY <1>3 DEF Matches, JumpsMatch
    <2>2. b.pending = [i \in 1 .. (k - 1) |-> a.pending[IF i < c THEN i ELSE i + 1]]
      BY <1>4, <1>7 DEF Without
    <2>3. jumps' = [i \in 1 .. (k - 1) |-> jumps[IF i < c THEN i ELSE i + 1]]
      BY <1>2, <1>3
    <2>4. k - 1 \in Nat
      BY <1>4
    <2>5. Len(b.pending) = k - 1 /\ Len(jumps') = k - 1
      BY <2>2, <2>3, <2>4
    <2>6. \A i \in 1 .. (k - 1) : Is(jumps'[i], StackOf(b.pending[i].vars, b.pending[i].temps))
      <3> TAKE i \in 1 .. (k - 1)
      <3>1. PICK j \in 1 .. k : j = IF i < c THEN i ELSE i + 1
        BY <1>4
      <3>2. jumps'[i] = jumps[j] /\ b.pending[i] = a.pending[j]
        BY <2>2, <2>3, <3>1
      <3> QED BY <2>1, <3>2
    <2> QED BY <2>5, <2>6 DEF JumpsMatch
  <1>13. OuterMatches(b)' /\ LoopsMatch(b)'
    BY <1>2, <1>7, OuterKept, LoopsKept DEF Matches
  <1>14. Matches(b)'
    BY <1>11, <1>12, <1>13 DEF Matches
  <1> QED
    BY <1>2, <1>6, <1>14, PrimitiveStep

(* The innermost loop is the function's own, and breaks found its slots.   *)
LEMMA InnermostLoop ==
    ASSUME Shapes, NEW a, Matches(a), NEW p \in Places, p = a.place, AtLoop(p)
    PROVE  \E n \in Nat :
               /\ n > 0 /\ n = Len(loops) /\ Len(p.loops) = n /\ p.loops \in Seq(LoopShapes)
               /\ \A i \in 1 .. n : LoopMatches(loops[i], p.loops[i])
               /\ p.loops[n].level = Level /\ p.loops[n].vars = p.vars
               /\ loops[n].level = Level /\ Is(loops[n].start, p.vars)
               /\ \A b \in loops[n].breaks : b.level = Level /\ Is(b.at, p.vars)
  <1>1. PICK n \in Nat : n = Len(loops)
    BY SequenceFacts DEF Shapes
  <1>2. /\ Len(p.loops) = n /\ p.loops \in Seq(LoopShapes)
        /\ \A i \in 1 .. n : LoopMatches(loops[i], p.loops[i])
    BY <1>1, PlaceFacts DEF Matches, LoopsMatch
  <1>3. n > 0
    BY <1>2 DEF AtLoop
  <1>4. p.loops[n].level = Len(p.saved) /\ p.loops[n].vars = p.vars
    BY <1>2 DEF AtLoop, LastOf
  <1>5. Level = Len(p.saved)
    BY DEF Matches, OuterMatches, Level
  <1>6. LoopMatches(loops[n], p.loops[n])
    BY <1>2, <1>3
  <1>7. /\ loops[n].level = Level /\ Is(loops[n].start, p.vars)
        /\ \A b \in loops[n].breaks : b.level = Level /\ Is(b.at, p.vars)
    BY <1>4, <1>5, <1>6 DEF LoopMatches
  <1> QED
    BY <1>1, <1>2, <1>3, <1>4, <1>5, <1>7

LEMMA EmitBreakStep ==
    ASSUME Shapes, NEW a, NEW z, Laid(todo, a, z), Done(z), Matches(a), EmitBreak
    PROVE  InStep'
  <1>1. PICK t : t = Task
    OBVIOUS
  <1>2. PICK r : r = [level |-> Level, at |-> point]
    OBVIOUS
  <1>3. /\ todo # <<>> /\ t.do = "break" /\ point' = Dead /\ todo' = Tail(todo)
        /\ loops' = [loops EXCEPT ![Len(loops)].breaks = @ \cup {r}]
        /\ UNCHANGED <<locals, depth, outer, jumps>>
    BY <1>1, <1>2 DEF EmitBreak, TaskIs
  <1>4. PICK p \in Places : p = a.place
    BY <1>1, <1>3, TaskFacts
  <1>5. PICK b \in Layouts : Yields(t, a, b) /\ Laid(Tail(todo), b, z)
    BY <1>1, <1>3, TaskFacts
  <1>6. Clear(a) /\ AtLoop(p) /\ \E n : b = With(a, n)
    <2>1. YieldsExit(t, a, b)
      BY <1>3, <1>5, YieldsKinds
    <2> QED BY <1>4, <2>1 DEF YieldsExit
  <1>7. b.place = p /\ b.pending = a.pending
    BY <1>4, <1>6, LayoutFields DEF With
  <1>8. Is(point, p.vars)
    <2>1. PICK vs \in Seq(Slots) : CurrentMatches(a, vs)
      BY DEF Matches
    <2>2. p.vars = vs /\ Is(point, StackOf(vs, 0))
      BY <1>4, <1>6, <2>1 DEF CurrentMatches, Clear
    <2> QED BY <2>1, <2>2, StackOfNone
  <1>9. PICK n \in Nat : /\ n > 0 /\ n = Len(loops) /\ Len(p.loops) = n
                         /\ \A i \in 1 .. n : LoopMatches(loops[i], p.loops[i])
                         /\ p.loops[n].vars = p.vars /\ loops[n].level = Level
    BY <1>4, <1>6, InnermostLoop
  <1>10. LoopsMatch(b)'
    <2>1. /\ Len(loops') = n
          /\ \A i \in 1 .. n : /\ loops'[i].level = loops[i].level
                               /\ loops'[i].depth = loops[i].depth
                               /\ loops'[i].start = loops[i].start
                               /\ loops'[i].breaks \subseteq loops[i].breaks \cup {r}
                               /\ i # n => loops'[i] = loops[i]
      <3>1. PICK u : u = {r}
        OBVIOUS
      <3>2. loops' = [loops EXCEPT ![n].breaks = @ \cup u]
        BY <1>3, <1>9, <3>1
      <3>3. /\ Len(loops') = n
            /\ \A i \in 1 .. n : /\ loops'[i].level = loops[i].level
                                 /\ loops'[i].depth = loops[i].depth
                                 /\ loops'[i].start = loops[i].start
                                 /\ loops'[i].breaks \subseteq loops[i].breaks \cup u
        BY <1>9, <3>2, WithBreak
      <3>4. \A i \in 1 .. n : i # n => loops'[i] = loops[i]
        <4>1. DOMAIN loops = 1 .. n
          BY <1>9, SequenceFacts DEF Shapes
        <4> QED BY <3>2, <4>1
      <3> QED BY <3>1, <3>3, <3>4
    <2>2. r.level = Level /\ r.at = point
      BY <1>2
    <2>3. \A i \in 1 .. n : LoopMatches(loops'[i], p.loops[i])
      <3> TAKE i \in 1 .. n
      <3>1. LoopMatches(loops[i], p.loops[i])
        BY <1>9
      <3>2. CASE i # n
        BY <2>1, <3>1, <3>2
      <3>3. CASE i = n
        <4>1. \A x \in loops'[n].breaks : x \in loops[n].breaks \/ x = r
          BY <1>9, <2>1
        <4> QED BY <1>8, <1>9, <2>1, <2>2, <3>1, <3>3, <4>1 DEF LoopMatches
      <3> QED BY <3>2, <3>3
    <2> QED BY <1>7, <1>9, <2>1, <2>3 DEF LoopsMatch, LoopMatches
  <1>11. JumpsMatch(b)'
    BY <1>3, <1>7, JumpsKept DEF Matches
  <1>12. Matches(b)'
    BY <1>3, <1>4, <1>7, <1>10, <1>11, DeadMatches
  <1> QED
    BY <1>3, <1>5, <1>12, PrimitiveStep

LEMMA EndLoopStep ==
    ASSUME Shapes, NEW a, NEW z, Laid(todo, a, z), Done(z), Matches(a), EndLoop
    PROVE  InStep'
  <1>1. PICK t : t = Task
    OBVIOUS
  <1>2. /\ todo # <<>> /\ t.do = "endLoop" /\ todo' = Tail(todo) /\ loops' = Drop(loops, 1)
        /\ point' = (IF Breaks = {} THEN point ELSE Join(point, CHOOSE q \in Breaks : TRUE))
        /\ UNCHANGED <<locals, depth, outer, jumps>>
    BY <1>1 DEF EndLoop, TaskIs
  <1>3. PICK p \in Places : p = a.place
    BY <1>1, <1>2, TaskFacts
  <1>4. PICK b \in Layouts : Yields(t, a, b) /\ Laid(Tail(todo), b, z)
    BY <1>1, <1>2, TaskFacts
  <1>5. /\ Clear(a) /\ AtLoop(p)
        /\ b = Moved(a, Unlooped(p)) \/ b = Moved(a, Ended(Unlooped(p)))
    <2>1. YieldsLoop(t, a, b)
      BY <1>2, <1>4, YieldsKinds
    <2> QED BY <1>2, <1>3, <2>1 DEF YieldsLoop
  <1>6. ~p.ended /\ p.next = <<>> /\ a.temps = 0
    BY <1>3, <1>5 DEF Clear
  <1>7. PICK q : q = Unlooped(p)
    OBVIOUS
  <1>8. /\ q.vars = p.vars /\ q.next = p.next /\ q.depth = p.depth /\ q.ended = p.ended
        /\ q.saved = p.saved /\ q.loops = Drop(p.loops, 1)
    BY <1>7, UnloopedParts
  <1>9. /\ b.place.next = <<>> /\ b.place.depth = p.depth /\ b.place.saved = p.saved
        /\ b.place.loops = Drop(p.loops, 1) /\ b.temps = 0 /\ b.then = "any"
        /\ b.pending = a.pending
        /\ b.place.vars = IF b.place.ended THEN Cut(p.vars, p.depth) ELSE p.vars
    <2>1. CASE b = Moved(a, q)
      <3>1. b.place = q /\ b.temps = 0 /\ b.then = "any" /\ b.pending = a.pending
        BY <2>1, LayoutFields DEF Moved
      <3> QED BY <1>6, <1>8, <3>1
    <2>2. CASE b = Moved(a, Ended(q))
      <3>1. PICK e : e = Ended(q)
        OBVIOUS
      <3>2. b.place = e /\ b.temps = 0 /\ b.then = "any" /\ b.pending = a.pending
        BY <2>2, <3>1, LayoutFields DEF Moved
      <3>3. /\ e.vars = Cut(q.vars, q.depth) /\ e.next = <<>> /\ e.depth = q.depth
            /\ e.ended = TRUE /\ e.saved = q.saved /\ e.loops = q.loops
        BY <3>1, EndedParts
      <3> QED BY <1>8, <3>2, <3>3
    <2> QED BY <1>5, <1>7, <2>1, <2>2
  <1>10. PICK vs \in Seq(Slots) : CurrentMatches(a, vs)
    BY DEF Matches
  <1>11. p.vars = vs /\ Is(point, vs) /\ StackOf(vs, 0) = vs
    <2>1. p.vars = vs /\ Is(point, StackOf(vs, 0))
      BY <1>3, <1>6, <1>10 DEF CurrentMatches
    <2> QED BY <2>1, StackOfNone
  <1>12. PICK n \in Nat : /\ n > 0 /\ n = Len(loops) /\ Len(p.loops) = n
                          /\ p.loops \in Seq(LoopShapes)
                          /\ \A i \in 1 .. n : LoopMatches(loops[i], p.loops[i])
                          /\ \A c \in loops[n].breaks : c.level = Level /\ Is(c.at, p.vars)
    BY <1>3, <1>5, InnermostLoop
  <1>13. Is(point', vs)
    <2>1. CASE Breaks = {}
      BY <1>2, <1>11, <2>1
    <2>2. CASE Breaks # {}
      <3>1. PICK x : x = CHOOSE r \in Breaks : TRUE
        OBVIOUS
      <3>2. x \in Breaks
        BY <2>2, <3>1
      <3>3. PICK c \in loops[n].breaks : x = c.at
        BY <1>12, <3>2 DEF Breaks
      <3>4. Is(x, vs)
        BY <1>11, <1>12, <3>3
      <3>5. point' = Join(point, x)
        BY <1>2, <2>2, <3>1
      <3> QED BY <1>11, <3>4, <3>5 DEF Join
    <2> QED BY <2>1, <2>2
  <1>14. CurrentMatches(b, vs)'
    <2>1. /\ SlotsOf(locals') = vs \o b.place.next /\ b.place.next = <<>>
          /\ depth' = b.place.depth
      BY <1>2, <1>3, <1>6, <1>9, <1>10 DEF CurrentMatches
    <2>2. Is(point', StackOf(vs, b.temps)) /\ b.then # "patch"
      BY <1>9, <1>11, <1>13
    <2>3. b.place.vars = IF b.place.ended THEN Cut(vs, b.place.depth) ELSE vs
      BY <1>9, <1>11
    <2> QED BY <2>1, <2>2, <2>3 DEF CurrentMatches
  <1>15. LoopsMatch(b)'
    <2>1. 1 \in 0 .. n
      BY <1>12
    <2>2. Len(loops') = n - 1 /\ \A i \in 1 .. n - 1 : loops'[i] = loops[i]
      <3>1. /\ Len(Drop(loops, 1)) = n - 1
            /\ \A i \in 1 .. n - 1 : Drop(loops, 1)[i] = loops[i]
        <4>1. IsSequence(loops) /\ Len(loops) = n /\ n \in Nat
          BY <1>12 DEF Shapes
        <4> QED BY ONLY <2>1, <4>1, DropFacts
      <3> QED BY <1>2, <3>1
    <2>3. Len(b.place.loops) = n - 1 /\ \A i \in 1 .. n - 1 : b.place.loops[i] = p.loops[i]
      <3>1. IsSequence(p.loops)
        BY <1>12 DEF IsSequence
      <3>2. Len(Drop(p.loops, 1)) = n - 1 /\ \A i \in 1 .. n - 1 : Drop(p.loops, 1)[i] = p.loops[i]
        BY <1>12, <2>1, <3>1, DropFacts
      <3> QED BY <1>9, <3>2
    <2>4. \A i \in 1 .. n - 1 : LoopMatches(loops'[i], b.place.loops[i])
      BY <1>12, <2>2, <2>3
    <2> QED BY <2>2, <2>3, <2>4 DEF LoopsMatch, LoopMatches
  <1>16. OuterMatches(b)' /\ JumpsMatch(b)'
    BY <1>2, <1>3, <1>9, OuterKept, JumpsKept DEF Matches
  <1>17. Matches(b)'
    BY <1>14, <1>15, <1>16 DEF Matches
  <1> QED
    BY <1>2, <1>4, <1>17, PrimitiveStep

----------------------------------------------------------------------------
(* Scopes and the locals in them.                                          *)
LEMMA BeginScopeStep ==
    ASSUME NEW a, NEW z, Laid(todo, a, z), Done(z), Matches(a), BeginScope
    PROVE  InStep'
  <1>1. PICK t : t = Task
    OBVIOUS
  <1>2. /\ todo # <<>> /\ t.do = "begin" /\ todo' = Tail(todo) /\ depth' = depth + 1
        /\ UNCHANGED <<locals, outer, loops, point, jumps>>
    BY <1>1 DEF BeginScope, TaskIs
  <1>3. PICK b \in Layouts : Yields(t, a, b) /\ Laid(Tail(todo), b, z)
    BY <1>1, <1>2, TaskFacts
  <1>4. YieldsScope(t, a, b)
    BY <1>2, <1>3, YieldsKinds
  <1>5. Clear(a) /\ b = Layout(Inner(a.place), 0, "any", a.pending)
    BY <1>2, <1>4 DEF YieldsScope, Moved, Do
  <1>6. Matches(b)'
    BY <1>2, <1>5, DeeperMatches DEF Clear
  <1> QED
    BY <1>2, <1>3, <1>6, PrimitiveStep

(* A branch without an else ends where the Pop of the condition follows.   *)
LEMMA BranchEnd ==
    ASSUME NEW td, td # <<>>, IsSequence(td), Head(td) = Do("end"), NEW b, b.then = "patch",
           NEW z, Done(z), Laid(Tail(td), b, z)
    PROVE  IsPrefix(<<Do("end"), Patch(1), Pop>>, td)
  <1>1. PICK u : u = Tail(td)
    OBVIOUS
  <1>2. u # <<>>
    <2>1. ASSUME u = <<>> PROVE FALSE
      <3>1. PICK f : f[1] = b /\ f[Len(<<>>) + 1] = z
        BY <1>1, <2>1 DEF Laid, Chart
      <3>2. Len(<<>>) + 1 = 1
        OBVIOUS
      <3>3. b = z
        BY ONLY <3>1, <3>2
      <3> QED BY <3>3 DEF Done
    <2> QED BY <2>1
  <1>3. PICK c \in Layouts : Yields(Head(u), b, c) /\ Laid(Tail(u), c, z)
    BY <1>1, <1>2, NextLaid
  <1>4. Head(u) = Patch(1)
    BY <1>3 DEF Yields, Admits
  <1>5. c.then = "pop"
    <2>1. PICK t : t = Head(u)
      OBVIOUS
    <2>2. Yields(t, b, c) /\ t.do = "patch"
      BY <1>3, <1>4, <2>1 DEF Patch
    <2>3. YieldsPatch(t, b, c)
      BY <2>2, YieldsKinds
    <2>4. \E n : c = Layout(b.place, n, "pop", Without(b.pending, (Len(b.pending) + 1) - t.nth))
      BY <2>3 DEF YieldsPatch
    <2> QED BY <2>4 DEF Layout
  <1>6. PICK v : v = Tail(u)
    OBVIOUS
  <1>7. v # <<>>
    <2>1. ASSUME v = <<>> PROVE FALSE
      <3>1. PICK f : f[1] = c /\ f[Len(<<>>) + 1] = z
        BY <1>3, <1>6, <2>1 DEF Laid, Chart
      <3>2. Len(<<>>) + 1 = 1
        OBVIOUS
      <3>3. c = z
        BY ONLY <3>1, <3>2
      <3> QED BY <1>5, <3>3 DEF Done
    <2> QED BY <2>1
  <1>8. PICK d \in Layouts : Yields(Head(v), c, d)
    BY <1>3, <1>6, <1>7, NextLaid
  <1>9. Head(v) = Pop
    BY <1>5, <1>8 DEF Yields, Admits
  <1>10. PICK T : td \in Seq(T)
    BY DEF IsSequence
  <1>11. /\ 3 <= Len(td) /\ td[1] = Do("end") /\ td[2] = Patch(1) /\ td[3] = Pop
    <2>1. /\ 3 <= Len(td) /\ Head(td) = td[1] /\ Head(u) = td[2] /\ Head(v) = td[3]
      BY ONLY <1>1, <1>2, <1>6, <1>7, <1>10, td # <<>>
    <2> QED BY <1>4, <1>9, <2>1
  <1>12. PICK s : s = <<Do("end"), Patch(1), Pop>>
    OBVIOUS
  <1>13. Len(s) = 3 /\ s[1] = Do("end") /\ s[2] = Patch(1) /\ s[3] = Pop
    BY <1>12
  <1>14. PICK U : s \in Seq(U)
    <2>1. PICK e, f, g : e = Do("end") /\ f = Patch(1) /\ g = Pop
      OBVIOUS
    <2>2. s = <<e, f, g>>
      BY <1>12, <2>1
    <2>3. PICK U : e \in U /\ f \in U /\ g \in U
      <3>1. e \in {e, f, g} /\ f \in {e, f, g} /\ g \in {e, f, g}
        OBVIOUS
      <3> QED BY <3>1
    <2>4. s \in Seq(U)
      BY ONLY <2>2, <2>3
    <2> QED BY <2>4
  <1>15. SubSeq(s, 1, 3) = SubSeq(td, 1, 3)
    <2>1. SubSeq(s, 1, 3) = [i \in 1 .. 3 |-> s[i]]
      BY ONLY <1>13, <1>14
    <2>2. SubSeq(td, 1, 3) = [i \in 1 .. 3 |-> td[i]]
      BY ONLY <1>10, <1>11
    <2>3. \A i \in 1 .. 3 : s[i] = td[i]
      <3>1. \A i \in 1 .. 3 : i = 1 \/ i = 2 \/ i = 3
        OBVIOUS
      <3> QED BY <1>11, <1>13, <3>1
    <2> QED BY <2>1, <2>2, <2>3
  <1> QED
    BY <1>11, <1>12, <1>13, <1>15 DEF IsPrefix

LEMMA EndScopeStep ==
    ASSUME IInv, RegularIf, NEW a, NEW z, Laid(todo, a, z), Done(z), Matches(a), EndScope
    PROVE  InStep'
  <1>1. PICK t : t = Task
    OBVIOUS
  <1>2. /\ todo # <<>> /\ t.do = "end" /\ t = Head(todo) /\ todo' = Tail(todo)
        /\ depth' = depth - 1 /\ locals' = Outside(locals, depth)
        /\ point' = After(point, Emit(Len(locals) - Len(locals'), 0))
        /\ UNCHANGED <<outer, loops, jumps>>
    BY <1>1 DEF EndScope, TaskIs, Task
  <1>3. PICK p \in Places : p = a.place
    BY <1>1, <1>2, TaskFacts
  <1>4. PICK b \in Layouts : Yields(t, a, b) /\ Laid(Tail(todo), b, z)
    BY <1>1, <1>2, TaskFacts
  <1>5. PICK w \in {"any", "patch"} :
            /\ t = Do("end") /\ a.temps = 0 /\ p.next = <<>> /\ p.depth > 0
            /\ b = Layout(Outer(p), 0, w, a.pending)
    <2>1. YieldsScope(t, a, b)
      BY <1>2, <1>4, YieldsKinds
    <2> QED BY <1>2, <1>3, <2>1 DEF YieldsScope
  <1>6. PICK vs \in Seq(Slots) : CurrentMatches(a, vs)
    BY DEF Matches
  <1>7. /\ SlotsOf(locals) = vs /\ depth = p.depth /\ p.depth \in Nat
        /\ p.vars = (IF p.ended THEN Cut(vs, depth) ELSE vs)
        /\ Is(point, StackOf(vs, 0)) /\ StackOf(vs, 0) = vs
    <2>1. SlotsOf(locals) = vs \o p.next
      BY <1>3, <1>6 DEF CurrentMatches
    <2>2. vs \o <<>> = vs
      OBVIOUS
    <2> QED BY <1>3, <1>5, <1>6, <2>1, <2>2, PlaceFacts, StackOfNone DEF CurrentMatches
  <1>8. PICK q : q = Outer(p)
    OBVIOUS
  <1>9. /\ q.vars = Cut(p.vars, p.depth) /\ q.next = <<>> /\ q.depth = p.depth - 1
        /\ q.ended = FALSE /\ q.saved = p.saved /\ q.loops = p.loops
    BY <1>8, OuterParts
  <1>10. b.place = q /\ b.temps = 0 /\ b.then = w /\ b.pending = a.pending
    BY <1>5, <1>8, LayoutFields
  <1>11. PICK us : us = Cut(vs, depth)
    OBVIOUS
  <1>12. us \in Seq(Slots) /\ q.vars = us
    <2>1. us \in Seq(Slots)
      BY <1>7, <1>11, CutFacts
    <2>2. Cut(us, depth) = us
      <3>1. depth <= depth /\ depth \in Nat
        BY <1>7
      <3> QED BY <1>11, <3>1, CutCut
    <2> QED BY <1>7, <1>9, <1>11, <2>1, <2>2
  <1>13. PICK n \in 0 .. Len(locals) :
             /\ locals' = SubSeq(locals, 1, n)
             /\ n = 0 \/ locals[n].depth < depth
             /\ \A i \in (n + 1) .. Len(locals) : locals[i].depth >= depth
    <2>1. PICK d \in Nat : depth = d + 1
      <3>1. depth - 1 \in Nat /\ depth = (depth - 1) + 1
        BY <1>5, <1>7
      <3> QED BY <3>1
    <2>2. LocalsOK(Names, locals, d + 1)
      BY <2>1, LocalFacts
    <2> QED BY <1>2, <2>1, <2>2, OutsideIs
  <1>14. PICK m \in Nat : m = Len(locals)
    BY LocalFacts
  <1>15. Len(vs) = m /\ \A i \in 1 .. m : vs[i] = <<locals[i].name, locals[i].depth>>
    BY <1>7, <1>14, LocalFacts, SlotsOfIs
  <1>16. us = SubSeq(vs, 1, n) /\ Len(us) = n /\ \A i \in 1 .. n : us[i] = vs[i]
    <2>1. CutAt(vs, depth, n)
      <3>1. n = 0 \/ vs[n][2] < depth
        <4>1. n # 0 => n \in 1 .. m
          BY <1>14
        <4> QED BY <1>13, <1>15, <4>1
      <3>2. \A i \in (n + 1) .. m : vs[i][2] >= depth
        <4>1. \A i \in (n + 1) .. m : i \in 1 .. m
          BY <1>14
        <4> QED BY <1>13, <1>14, <1>15, <4>1
      <3> QED BY <1>15, <3>1, <3>2 DEF CutAt
    <2>2. n \in 0 .. Len(vs)
      BY <1>14, <1>15
    <2>3. us = SubSeq(vs, 1, n)
      BY <1>7, <1>11, <2>1, <2>2, CutIs
    <2> QED BY <2>2, <2>3
  <1>17. SlotsOf(locals') = us /\ Len(locals') = n
    <2>1. PICK R : R = LocalRecords(Names) /\ locals \in Seq(R)
      BY LocalFacts
    <2>2. PICK ls : ls = SubSeq(locals, 1, n)
      OBVIOUS
    <2>3. ls \in Seq(R) /\ Len(ls) = n /\ \A i \in 1 .. n : ls[i] = locals[i]
      BY <1>14, <2>1, <2>2
    <2>4. SlotsOf(ls) = [i \in 1 .. n |-> <<ls[i].name, ls[i].depth>>]
      BY <2>3, SlotsOfIs
    <2>5. \A i \in 1 .. n : us[i] = <<ls[i].name, ls[i].depth>>
      <3>1. \A i \in 1 .. n : i \in 1 .. m
        BY <1>14
      <3> QED BY <1>15, <1>16, <2>3, <3>1
    <2>6. us = [i \in 1 .. n |-> us[i]]
      BY <1>12, <1>16
    <2>7. SlotsOf(ls) = us
      BY ONLY <2>4, <2>5, <2>6
    <2> QED BY <1>13, <2>2, <2>3, <2>7
  <1>18. PICK k \in Nat : k = m - n
    <2>1. m - n \in Nat
      BY <1>14
    <2> QED BY <2>1
  <1>19. point' = After(point, Emit(k, 0))
    BY <1>2, <1>14, <1>17, <1>18
  <1>20. Is(point', us)
    <2>1. CASE point = Dead
      BY <1>19, <2>1 DEF After, Dead, Is
    <2>2. CASE point = At(vs)
      <3>1. m - k = n
        BY <1>14, <1>18
      <3>2. Drop(vs, k) = us
        BY <1>15, <1>16, <3>1 DEF Drop
      <3>3. [i \in 1 .. 0 |-> Temp] = <<>>
        OBVIOUS
      <3>4. us \o <<>> = us
        BY <1>12
      <3>5. point.live /\ point.stack = vs
        BY <2>2 DEF At
      <3>6. After(point, Emit(k, 0)) = At(Drop(vs, k) \o [i \in 1 .. 0 |-> Temp])
        BY <3>5 DEF After, Emit
      <3> QED BY <1>19, <3>2, <3>3, <3>4, <3>6 DEF Is
    <2> QED BY <1>7, <2>1, <2>2 DEF Is
  <1>21. w = "patch" => point' = Dead
    <2>1. ASSUME w = "patch" PROVE point = Dead
      <3>1. IsPrefix(<<Do("end"), Patch(1), Pop>>, todo)
        BY <1>2, <1>4, <1>5, <1>10, <2>1, BranchEnd, LaidSequence
      <3>2. ~point.live
        BY <3>1 DEF RegularIf
      <3> QED BY <1>7, <3>2 DEF Is, At
    <2> QED BY <1>19, <2>1 DEF After, Dead
  <1>22. CurrentMatches(b, us)'
    <2>1. us \o <<>> = us
      BY <1>12
    <2>2. StackOf(us, 0) = us
      BY <1>12, StackOfNone
    <2> QED BY <1>2, <1>7, <1>9, <1>10, <1>12, <1>17, <1>20, <1>21, <2>1, <2>2 DEF CurrentMatches
  <1>23. OuterMatches(b)' /\ LoopsMatch(b)' /\ JumpsMatch(b)'
    BY <1>2, <1>3, <1>9, <1>10, OuterKept, LoopsKept, JumpsKept DEF Matches
  <1>24. Matches(b)'
    BY <1>12, <1>22, <1>23 DEF Matches
  <1> QED
    BY <1>2, <1>4, <1>24, PrimitiveStep

LEMMA SlotsOfDeclared ==
    ASSUME NEW ls \in Seq(LocalRecords(Names)), language \in Languages, NEW name \in AllNames,
           NEW d \in Nat, NEW vs \in Seq(Slots), SlotsOf(ls) = vs
    PROVE  /\ SlotsOf(AddLocal(ls, name, d)) = Append(vs, <<name, d>>) /\ <<name, d>> \in Slots
           /\ AddLocal(ls, name, d) \in Seq(LocalRecords(AllNames))
  <1>1. PICK l : l = Local(name, d)
    OBVIOUS
  <1>2. PICK x : x = <<name, d>>
    OBVIOUS
  <1>3. l \in LocalRecords(AllNames) /\ Variable(l) = x
    BY <1>1, <1>2 DEF Local, LocalRecords, Variable
  <1>4. x \in Slots
    BY <1>2 DEF Slots
  <1>5. PICK R : R = LocalRecords(AllNames)
    OBVIOUS
  <1>6. LocalRecords(Names) \subseteq R
    BY <1>5, KnownNames DEF LocalRecords
  <1>7. ls \in Seq(R)
    BY <1>6
  <1>8. PICK m : m = Append(ls, l)
    OBVIOUS
  <1>9. m \in Seq(R)
    BY <1>3, <1>5, <1>7, <1>8
  <1>10. SlotsOf(m) = Append(vs, x)
    BY <1>3, <1>4, <1>5, <1>7, <1>8, SlotsOfAppend
  <1>11. SlotsOf(Marked(m)) = SlotsOf(m) /\ Marked(m) \in Seq(R)
    BY <1>5, <1>9, SlotsOfMarked
  <1> QED
    BY <1>1, <1>2, <1>4, <1>5, <1>8, <1>10, <1>11 DEF AddLocal

(* The result on top of the stack becomes the last of the locals.          *)
LEMMA GainingMatches ==
    ASSUME NEW a, Matches(a), NEW p \in Places, p = a.place, ~p.ended, a.temps = 1,
           NEW x \in Slots, NEW T, locals' \in Seq(T), SlotsOf(locals') = Append(p.vars, x),
           point' = Settled(point, locals'), UNCHANGED <<depth, outer, loops, jumps>>,
           NEW js, js = a.pending
    PROVE  Matches(Layout(Gaining(p, x), 0, "any", js))'
  <1>1. PICK q : q = Gaining(p, x)
    OBVIOUS
  <1>2. /\ q.vars = Append(p.vars, x) /\ q.next = <<>> /\ q.depth = p.depth /\ q.ended = FALSE
        /\ q.saved = p.saved /\ q.loops = p.loops
    BY ONLY <1>1 DEF Gaining, Place
  <1>3. PICK b : b = Layout(q, 0, "any", js)
    OBVIOUS
  <1>4. b.place = q /\ b.temps = 0 /\ b.then = "any" /\ b.pending = js
    BY <1>3, LayoutFields
  <1>5. PICK vs \in Seq(Slots) : CurrentMatches(a, vs)
    BY DEF Matches
  <1>6. p.vars = vs /\ depth = p.depth /\ Is(point, StackOf(vs, 1))
    BY <1>5 DEF CurrentMatches
  <1>7. PICK us : us = Append(vs, x)
    OBVIOUS
  <1>8. us \in Seq(Slots) /\ us \o <<>> = us
    <2>1. us \in Seq(Slots)
      BY <1>7
    <2> QED BY <2>1
  <1>9. PICK ls : ls = locals'
    OBVIOUS
  <1>10. ls # <<>> /\ Variable(ls[Len(ls)]) = x
    <2>1. ls \in Seq(T) /\ SlotsOf(ls) = us
      BY <1>6, <1>7, <1>9
    <2>2. PICK h \in Nat : h = Len(vs)
      OBVIOUS
    <2>3. Len(us) = h + 1 /\ us[h + 1] = x
      BY <1>7, <2>2
    <2>4. Len(ls) = h + 1
      BY <2>1, <2>3, SlotsOfIs
    <2>5. h + 1 \in 1 .. Len(ls)
      BY <2>2, <2>4
    <2>6. us[h + 1] = <<ls[h + 1].name, ls[h + 1].depth>>
      BY <2>1, <2>5, SlotsOfIs
    <2>7. ls # <<>>
      BY <2>1, <2>4, <2>2
    <2> QED BY <2>3, <2>4, <2>6, <2>7 DEF Variable
  <1>11. Is(Settled(point, ls), StackOf(us, 0))
    BY <1>6, <1>7, <1>10, SettledIs
  <1>12. Is(point', StackOf(us, 0))
    BY <1>9, <1>11
  <1>13. SlotsOf(locals') = us \o <<>>
    BY <1>6, <1>7, <1>8
  <1>14. CurrentMatches(b, us)'
    BY <1>2, <1>4, <1>6, <1>7, <1>12, <1>13 DEF CurrentMatches
  <1>15. OuterMatches(b)' /\ LoopsMatch(b)' /\ JumpsMatch(b)'
    BY <1>2, <1>4, OuterKept, LoopsKept, JumpsKept DEF Matches
  <1>16. Matches(b)'
    BY <1>8, <1>14, <1>15 DEF Matches
  <1> QED
    BY <1>1, <1>3, <1>16

LEMMA LocalSteps ==
    ASSUME IInv, NEW a, NEW z, Laid(todo, a, z), Done(z), Matches(a),
           DeclareLocal \/ DeclareFunction \/ MarkInitialized,
           hadError = "none", hadError' = "none"
    PROVE  InStep'
  <1>1. PICK t : t = Task
    OBVIOUS
  <1>2. /\ todo # <<>> /\ t.do \in {"declare", "declareFn", "mark"} /\ todo' = Tail(todo)
        /\ t.do \in {"declare", "declareFn"} => locals' = AddLocal(locals, t.name, depth)
        /\ t.do = "mark" => locals' = Marked(locals)
        /\ point' = Settled(point, locals')
        /\ UNCHANGED <<depth, outer, loops, jumps>>
    <2>1. CASE DeclareLocal
      BY <1>1, <2>1 DEF DeclareLocal, TaskIs
    <2>2. CASE DeclareFunction
      BY <1>1, <2>2 DEF DeclareFunction, TaskIs, Complain
    <2>3. CASE MarkInitialized
      BY <1>1, <2>3 DEF MarkInitialized, TaskIs
    <2> QED BY <2>1, <2>2, <2>3
  <1>3. PICK p \in Places : p = a.place
    BY <1>1, <1>2, TaskFacts
  <1>4. PICK b \in Layouts : Yields(t, a, b) /\ Laid(Tail(todo), b, z)
    BY <1>1, <1>2, TaskFacts
  <1>5. YieldsLocal(t, a, b)
    BY <1>2, <1>4, YieldsKinds
  <1>6. ~p.ended /\ a.temps = 1
    BY <1>3, <1>5 DEF YieldsLocal
  <1>7. PICK vs \in Seq(Slots) : CurrentMatches(a, vs)
    BY DEF Matches
  <1>8. /\ SlotsOf(locals) = vs \o p.next /\ p.vars = vs /\ depth = p.depth
    BY <1>3, <1>6, <1>7 DEF CurrentMatches
  <1>9. language \in Languages /\ depth \in Nat /\ locals \in Seq(LocalRecords(Names))
    BY LocalFacts
  <1>10. CASE t.do \in {"declare", "declareFn"}
    <2>1. /\ t.name \in AllNames /\ p.next = <<>>
          /\ b = Moved(a, Gaining(p, <<t.name, depth>>))
      BY <1>3, <1>5, <1>8, <1>10 DEF YieldsLocal
    <2>2. PICK x : x = <<t.name, depth>>
      OBVIOUS
    <2>3. SlotsOf(locals) = vs
      <3>1. vs \o <<>> = vs
        OBVIOUS
      <3> QED BY <1>8, <2>1, <3>1
    <2>4. PICK name \in AllNames : name = t.name
      BY <2>1
    <2>5. /\ SlotsOf(AddLocal(locals, name, depth)) = Append(vs, <<name, depth>>)
          /\ <<name, depth>> \in Slots
          /\ AddLocal(locals, name, depth) \in Seq(LocalRecords(AllNames))
      BY <1>9, <2>3, SlotsOfDeclared
    <2>6. /\ SlotsOf(locals') = Append(p.vars, x) /\ x \in Slots
          /\ locals' \in Seq(LocalRecords(AllNames))
      BY <1>2, <1>8, <1>10, <2>2, <2>4, <2>5
    <2>7. Matches(Layout(Gaining(p, x), 0, "any", a.pending))'
      BY <1>2, <1>3, <1>6, <2>6, GainingMatches
    <2>8. Matches(b)'
      BY <2>1, <2>2, <2>7 DEF Moved
    <2> QED BY <1>2, <1>4, <2>8, PrimitiveStep
  <1>11. CASE t.do = "mark"
    <2>1. Len(p.next) = 1 /\ b = Moved(a, Gaining(p, p.next[1]))
      BY <1>3, <1>5, <1>11 DEF YieldsLocal
    <2>2. PICK x : x = p.next[1]
      OBVIOUS
    <2>3. p.next \in Seq(Slots)
      BY PlaceFacts
    <2>4. x \in Slots /\ p.next = <<x>>
      BY <2>1, <2>2, <2>3
    <2>5. vs \o <<x>> = Append(vs, x)
      BY <2>4
    <2>6. SlotsOf(Marked(locals)) = SlotsOf(locals) /\ Marked(locals) \in Seq(LocalRecords(Names))
      BY <1>9, SlotsOfMarked
    <2>7. SlotsOf(locals') = Append(p.vars, x) /\ locals' \in Seq(LocalRecords(Names))
      BY <1>2, <1>8, <1>11, <2>4, <2>5, <2>6
    <2>8. Matches(Layout(Gaining(p, x), 0, "any", a.pending))'
      BY <1>2, <1>3, <1>6, <2>4, <2>7, GainingMatches
    <2>9. Matches(b)'
      BY <2>1, <2>2, <2>8 DEF Moved
    <2> QED BY <1>2, <1>4, <2>9, PrimitiveStep
  <1> QED
    BY <1>2, <1>10, <1>11

LEMMA PushLoopStep ==
    ASSUME Shapes, NEW a, NEW z, Laid(todo, a, z), Done(z), Matches(a), PushLoop
    PROVE  InStep'
  <1>1. PICK t : t = Task
    OBVIOUS
  <1>2. /\ todo # <<>> /\ t.do = "pushLoop" /\ todo' = Tail(todo)
        /\ loops' = Append(loops, Loop(t.start))
        /\ UNCHANGED <<locals, depth, outer, point, jumps>>
    BY <1>1 DEF PushLoop, TaskIs
  <1>3. PICK p \in Places : p = a.place
    BY <1>1, <1>2, TaskFacts
  <1>4. PICK b \in Layouts : Yields(t, a, b) /\ Laid(Tail(todo), b, z)
    BY <1>1, <1>2, TaskFacts
  <1>5. Clear(a) /\ Is(t.start, p.vars) /\ b = Layout(Looped(p), 0, "any", a.pending)
    <2>1. YieldsLoop(t, a, b)
      BY <1>2, <1>4, YieldsKinds
    <2> QED BY <1>2, <1>3, <2>1 DEF YieldsLoop, Moved
  <1>6. ~p.ended /\ p.next = <<>> /\ a.temps = 0
    BY <1>3, <1>5 DEF Clear
  <1>7. Matches(b)'
    BY <1>2, <1>3, <1>5, <1>6, LoopedMatches
  <1> QED
    BY <1>2, <1>4, <1>7, PrimitiveStep

LEMMA EndStatementsStep ==
    ASSUME NEW a, NEW z, Laid(todo, a, z), Done(z), Matches(a), EndStatements
    PROVE  InStep'
  <1>1. PICK t : t = Task
    OBVIOUS
  <1>2. /\ todo # <<>> /\ t.do = "statements" /\ todo' = Tail(todo)
        /\ UNCHANGED <<locals, depth, outer, loops, point, jumps>>
    BY <1>1 DEF EndStatements, TaskIs
  <1>3. PICK p \in Places : p = a.place
    BY <1>1, <1>2, TaskFacts
  <1>4. PICK b \in Layouts : Yields(t, a, b) /\ Laid(Tail(todo), b, z)
    BY <1>1, <1>2, TaskFacts
  <1>5. PICK e : e = Ended(p)
    OBVIOUS
  <1>6. Clear(a) /\ b = Layout(e, 0, "any", a.pending)
    <2>1. YieldsStatement(t, a, b)
      BY <1>2, <1>4, YieldsKinds
    <2> QED BY <1>2, <1>3, <1>5, <2>1 DEF YieldsStatement, Moved
  <1>7. ~p.ended /\ p.next = <<>> /\ a.temps = 0
    BY <1>3, <1>6 DEF Clear
  <1>8. b.place = e /\ b.temps = 0 /\ b.then = "any" /\ b.pending = a.pending
    BY <1>6, LayoutFields
  <1>9. /\ e.vars = Cut(p.vars, p.depth) /\ e.next = <<>> /\ e.depth = p.depth
        /\ e.ended = TRUE /\ e.saved = p.saved /\ e.loops = p.loops
    BY <1>5, EndedParts
  <1>10. PICK vs \in Seq(Slots) : CurrentMatches(a, vs)
    BY DEF Matches
  <1>11. CurrentMatches(b, vs)'
    BY <1>2, <1>3, <1>7, <1>8, <1>9, <1>10 DEF CurrentMatches
  <1>12. OuterMatches(b)' /\ LoopsMatch(b)' /\ JumpsMatch(b)'
    BY <1>2, <1>3, <1>8, <1>9, OuterKept, LoopsKept, JumpsKept DEF Matches
  <1>13. Matches(b)'
    BY <1>11, <1>12 DEF Matches
  <1> QED
    BY <1>2, <1>4, <1>13, PrimitiveStep

LEMMA LeaveFunctionStep ==
    ASSUME Shapes, NEW a, NEW z, Laid(todo, a, z), Done(z), Matches(a), LeaveFunction
    PROVE  InStep'
  <1>1. PICK t : t = Task
    OBVIOUS
  <1>2. PICK o : o = outer[Level]
    OBVIOUS
  <1>3. /\ todo # <<>> /\ t.do = "leaveFunction" /\ todo' = Tail(todo)
        /\ locals' = o.locals /\ depth' = o.depth /\ point' = After(o.point, Load)
        /\ outer' = Drop(outer, 1) /\ UNCHANGED <<loops, jumps>>
    BY <1>1, <1>2 DEF LeaveFunction, TaskIs
  <1>4. PICK p \in Places : p = a.place
    BY <1>1, <1>3, TaskFacts
  <1>5. PICK b \in Layouts : Yields(t, a, b) /\ Laid(Tail(todo), b, z)
    BY <1>1, <1>3, TaskFacts
  <1>6. PICK f : f = LastOf(p.saved)
    OBVIOUS
  <1>7. p.saved # <<>> /\ b = Layout(Resumed(p), f.temps + 1, f.then, a.pending)
    <2>1. YieldsFunction(t, a, b)
      BY <1>3, <1>5, YieldsKinds
    <2> QED BY <1>4, <1>6, <2>1 DEF YieldsFunction
  <1>8. PICK q : q = Resumed(p)
    OBVIOUS
  <1>9. /\ q.vars = f.vars /\ q.next = f.next /\ q.depth = f.depth /\ q.ended = FALSE
        /\ q.saved = Drop(p.saved, 1) /\ q.loops = p.loops
    BY <1>6, <1>8 DEF Resumed, Place
  <1>10. b.place = q /\ b.temps = f.temps + 1 /\ b.then = f.then /\ b.pending = a.pending
    <2>1. PICK n : n = f.temps + 1
      OBVIOUS
    <2>2. b = Layout(q, n, f.then, a.pending)
      BY <1>7, <1>8, <2>1
    <2> QED BY ONLY <2>1, <2>2 DEF Layout
  <1>11. PICK n \in Nat : n = Len(outer)
    BY SequenceFacts DEF Shapes
  <1>12. /\ Len(p.saved) = n /\ p.saved \in Seq(Frames)
         /\ \A i \in 1 .. n : FrameMatches(outer[i], p.saved[i])
    BY <1>4, <1>11, PlaceFacts DEF Matches, OuterMatches
  <1>13. n > 0 /\ f = p.saved[n] /\ o = outer[n]
    BY <1>2, <1>6, <1>7, <1>11, <1>12 DEF LastOf, Level
  <1>14. FrameMatches(o, f)
    BY <1>12, <1>13
  <1>15. f.vars \in Seq(Slots) /\ f.temps \in Nat /\ f.then # "patch"
    <2>1. n \in 1 .. Len(p.saved)
      BY <1>12, <1>13
    <2>2. f.then \in {"mark", "other"} /\ f.vars \in Seq(Slots) /\ f.temps \in Nat
      BY <1>12, <1>13, <2>1, FrameFacts
    <2> QED BY <2>2
  <1>16. Is(point', StackOf(f.vars, f.temps + 1))
    <2>1. PICK k \in Nat : k = f.temps
      BY <1>15
    <2>2. PICK vs \in Seq(Slots) : vs = f.vars
      BY <1>15
    <2>3. Is(o.point, StackOf(vs, k))
      BY <1>14, <2>1, <2>2 DEF FrameMatches
    <2>4. 0 \in 0 .. k /\ 1 \in Nat /\ k + 1 = (k - 0) + 1
      BY <2>1
    <2>5. Load.pops = 0 /\ Load.pushes = 1
      BY DEF Load, Emit
    <2>6. Is(After(o.point, Load), StackOf(vs, k + 1))
      BY <2>3, <2>4, <2>5, AfterIs
    <2> QED BY <1>3, <2>1, <2>2, <2>6
  <1>17. CurrentMatches(b, f.vars)'
    BY <1>3, <1>9, <1>10, <1>14, <1>15, <1>16 DEF CurrentMatches, FrameMatches
  <1>18. OuterMatches(b)'
    <2>1. 1 \in 0 .. n
      BY <1>13
    <2>2. Len(outer') = n - 1 /\ \A i \in 1 .. n - 1 : outer'[i] = outer[i]
      <3>1. /\ Len(Drop(outer, 1)) = n - 1
            /\ \A i \in 1 .. n - 1 : Drop(outer, 1)[i] = outer[i]
        BY <1>11, <2>1, DropFacts DEF Shapes
      <3> QED BY <1>3, <3>1
    <2>3. Len(q.saved) = n - 1 /\ \A i \in 1 .. n - 1 : q.saved[i] = p.saved[i]
      <3>1. IsSequence(p.saved)
        BY <1>12 DEF IsSequence
      <3>2. /\ Len(Drop(p.saved, 1)) = n - 1
            /\ \A i \in 1 .. n - 1 : Drop(p.saved, 1)[i] = p.saved[i]
        BY <1>12, <2>1, <3>1, DropFacts
      <3> QED BY <1>9, <3>2
    <2>4. \A i \in 1 .. n - 1 : FrameMatches(outer'[i], q.saved[i])
      <3> TAKE i \in 1 .. n - 1
      <3>1. i \in 1 .. n
        BY <1>11
      <3> QED BY <1>12, <2>2, <2>3, <3>1
    <2> QED BY <1>10, <2>2, <2>3, <2>4 DEF OuterMatches, FrameMatches
  <1>19. LoopsMatch(b)' /\ JumpsMatch(b)'
    BY <1>3, <1>4, <1>9, <1>10, LoopsKept, JumpsKept DEF Matches
  <1>20. Matches(b)'
    BY <1>15, <1>17, <1>18, <1>19 DEF Matches
  <1> QED
    BY <1>3, <1>5, <1>20, PrimitiveStep

LEMMA CompileForLoopStep ==
    ASSUME IInv, NEW a, NEW z, Laid(todo, a, z), Done(z), Matches(a), CompileForLoop
    PROVE  InStep'
  <1>1. PICK t : t = Task
    OBVIOUS
  <1>2. PICK ls1 : ls1 = AddLocal(locals, "$iter", depth)
    OBVIOUS
  <1>3. PICK ls2 : ls2 = AddLocal(ls1, "$idx", depth)
    OBVIOUS
  <1>4. PICK start : start = Settled(After(Settled(point, ls1), Load), ls2)
    OBVIOUS
  <1>5. PICK iter, idx : iter = ResolveLocal(ls2, "$iter") /\ idx = ResolveLocal(ls2, "$idx")
    OBVIOUS
  <1>6. /\ todo # <<>> /\ t.do = "for" /\ locals' = ls2 /\ point' = start
        /\ todo' = ForTasks(t.name, iter, idx, start) \o Tail(todo)
        /\ UNCHANGED <<depth, outer, loops, jumps>>
    BY <1>1, <1>2, <1>3, <1>4, <1>5 DEF CompileForLoop, TaskIs
  <1>7. PICK p \in Places : p = a.place
    BY <1>1, <1>6, TaskFacts
  <1>8. PICK b \in Layouts : Yields(t, a, b) /\ Laid(Tail(todo), b, z)
    BY <1>1, <1>6, TaskFacts
  <1>9. /\ t.name \in AllNames /\ ~p.ended /\ p.next = <<>> /\ a.temps = 1 /\ Roomy(p)
        /\ b = Moved(a, Ended(p))
    <2>1. YieldsFor(t, a, b)
      BY <1>6, <1>8, YieldsKinds
    <2> QED BY <1>7, <2>1 DEF YieldsFor
  <1>10. PICK js \in Seq(Piles) : js = a.pending
    BY <1>1, <1>6, TaskFacts
  <1>11. PICK vs \in Seq(Slots) : CurrentMatches(a, vs)
    BY DEF Matches
  <1>12. SlotsOf(locals) = vs /\ p.vars = vs /\ depth = p.depth /\ Is(point, StackOf(vs, 1))
    <2>1. SlotsOf(locals) = vs \o <<>>
      BY <1>7, <1>9, <1>11 DEF CurrentMatches
    <2>2. vs \o <<>> = vs
      OBVIOUS
    <2> QED BY <1>7, <1>9, <1>11, <2>1, <2>2 DEF CurrentMatches
  <1>13. PICK d \in Nat : d = depth
    BY LocalFacts
  <1>14. PICK x1, x2 : x1 = <<"$iter", d>> /\ x2 = <<"$idx", d>>
    OBVIOUS
  <1>15. PICK R : R = LocalRecords(AllNames)
    OBVIOUS
  <1>16. PICK us : us = Append(vs, x1)
    OBVIOUS
  <1>17. SlotsOf(ls1) = us /\ x1 \in Slots /\ ls1 \in Seq(R) /\ us \in Seq(Slots)
    <2>1. "$iter" \in AllNames /\ language \in Languages /\ locals \in Seq(LocalRecords(Names))
      BY HiddenKnown, LocalFacts
    <2>2. /\ SlotsOf(AddLocal(locals, "$iter", d)) = Append(vs, <<"$iter", d>>)
          /\ <<"$iter", d>> \in Slots
          /\ AddLocal(locals, "$iter", d) \in Seq(LocalRecords(AllNames))
      BY <1>12, <2>1, SlotsOfDeclared
    <2>3. SlotsOf(ls1) = us /\ x1 \in Slots /\ ls1 \in Seq(R)
      BY <1>2, <1>13, <1>14, <1>15, <1>16, <2>2
    <2> QED BY <1>16, <2>3
  <1>18. PICK ws : ws = Append(us, x2)
    OBVIOUS
  <1>19. SlotsOf(ls2) = ws /\ x2 \in Slots /\ ls2 \in Seq(R) /\ ws \in Seq(Slots)
    <2>1. PICK l : l = Local("$idx", d)
      OBVIOUS
    <2>2. l \in R /\ Variable(l) = x2 /\ x2 \in Slots
      BY <1>14, <1>15, <2>1, HiddenKnown DEF Local, LocalRecords, Variable, Slots
    <2>3. PICK m : m = Append(ls1, l)
      OBVIOUS
    <2>4. m \in Seq(R) /\ SlotsOf(m) = ws
      BY <1>17, <1>18, <2>2, <2>3, SlotsOfAppend
    <2>5. SlotsOf(Marked(m)) = SlotsOf(m) /\ Marked(m) \in Seq(R)
      BY <1>15, <2>4, SlotsOfMarked
    <2>6. ls2 = Marked(m)
      BY <1>3, <1>13, <2>1, <2>3 DEF AddLocal
    <2> QED BY <1>17, <1>18, <2>2, <2>4, <2>5, <2>6
  <1>20. PICK h \in Nat : h = Len(vs)
    OBVIOUS
  <1>21. /\ Len(us) = h + 1 /\ us[h + 1] = x1 /\ Len(ws) = h + 2 /\ ws[h + 1] = x1
         /\ ws[h + 2] = x2
    <2>1. Len(us) = h + 1 /\ us[h + 1] = x1
      BY <1>16, <1>20
    <2>2. Len(ws) = (h + 1) + 1 /\ ws[(h + 1) + 1] = x2 /\ ws[h + 1] = us[h + 1]
      BY <1>17, <1>18, <1>20, <2>1
    <2>3. (h + 1) + 1 = h + 2
      BY <1>20
    <2> QED BY <2>1, <2>2, <2>3
  <1>22. /\ ls1 # <<>> /\ Variable(ls1[Len(ls1)]) = x1
         /\ ls2 # <<>> /\ Variable(ls2[Len(ls2)]) = x2
         /\ Len(ls2) = h + 2 /\ ls2[h + 1].name = "$iter" /\ ls2[h + 2].name = "$idx"
    <2>1. Len(ls1) = h + 1 /\ us[h + 1] = <<ls1[h + 1].name, ls1[h + 1].depth>>
      <3>1. h + 1 \in 1 .. h + 1
        BY <1>20
      <3> QED BY <1>17, <1>21, <3>1, SlotsOfIs
    <2>2. /\ Len(ls2) = h + 2 /\ ws[h + 1] = <<ls2[h + 1].name, ls2[h + 1].depth>>
          /\ ws[h + 2] = <<ls2[h + 2].name, ls2[h + 2].depth>>
      <3>1. h + 1 \in 1 .. h + 2 /\ h + 2 \in 1 .. h + 2
        BY <1>20
      <3> QED BY <1>19, <1>21, <3>1, SlotsOfIs
    <2>3. ls1 # <<>> /\ ls2 # <<>>
      BY <1>20, <2>1, <2>2
    <2> QED BY <1>14, <1>21, <2>1, <2>2, <2>3 DEF Variable
  <1>23. Is(start, StackOf(ws, 0)) /\ Is(start, ws)
    <2>1. PICK q : q = Settled(point, ls1)
      OBVIOUS
    <2>2. Is(q, StackOf(us, 0))
      BY <1>12, <1>16, <1>17, <1>22, <2>1, SettledIs
    <2>3. PICK r : r = After(q, Load)
      OBVIOUS
    <2>4. Is(r, StackOf(us, 1))
      <3>1. 0 \in Nat /\ 0 \in 0 .. 0 /\ 1 \in Nat /\ 1 = (0 - 0) + 1
        OBVIOUS
      <3>2. Load.pops = 0 /\ Load.pushes = 1
        BY DEF Load, Emit
      <3>3. Is(After(q, Load), StackOf(us, 1))
        BY <1>17, <2>2, <3>1, <3>2, AfterIs
      <3> QED BY <2>3, <3>3
    <2>5. Is(Settled(r, ls2), StackOf(Append(us, x2), 0)) /\ Is(Settled(r, ls2), Append(us, x2))
      BY <1>17, <1>19, <1>22, <2>4, SettledIs
    <2> QED BY <1>4, <1>18, <2>1, <2>3, <2>5
  <1>24. PICK p1, p2 : p1 = Gaining(p, x1) /\ p2 = Gaining(p1, x2)
    OBVIOUS
  <1>25. /\ p1 \in Places /\ Roomy(p1) /\ p1.depth = p.depth /\ Ended(p1) = Ended(p)
    <2>1. x1[2] = p.depth
      BY <1>12, <1>13, <1>14
    <2> QED BY <1>9, <1>17, <1>24, <2>1, GainingPlace
  <1>26. /\ p2 \in Places /\ Roomy(p2) /\ ~p2.ended /\ p2.next = <<>> /\ Ended(p2) = Ended(p1)
    <2>1. x2[2] = p1.depth
      BY <1>12, <1>13, <1>14, <1>25
    <2> QED BY <1>19, <1>24, <1>25, <2>1, GainingPlace
  <1>27. /\ p2.vars = ws /\ p2.next = <<>> /\ p2.depth = p.depth /\ p2.ended = FALSE
         /\ p2.saved = p.saved /\ p2.loops = p.loops
    <2>1. /\ p1.vars = us /\ p1.depth = p.depth /\ p1.saved = p.saved /\ p1.loops = p.loops
      BY <1>12, <1>16, <1>24, GainingParts
    <2>2. /\ p2.vars = Append(p1.vars, x2) /\ p2.next = <<>> /\ p2.depth = p1.depth
          /\ p2.ended = FALSE /\ p2.saved = p1.saved /\ p2.loops = p1.loops
      BY <1>24, GainingParts
    <2> QED BY <1>18, <2>1, <2>2
  <1>28. iter \in 1 .. Len(p2.vars) /\ idx \in 1 .. Len(p2.vars)
    <2>1. h + 1 \in 1 .. Len(ls2) /\ h + 2 \in 1 .. Len(ls2)
      BY <1>20, <1>22
    <2>2. iter # -1 /\ idx # -1
      BY <1>5, <1>15, <1>19, <1>22, <2>1, ResolvedSlot
    <2>3. iter \in 1 .. Len(ls2) /\ idx \in 1 .. Len(ls2)
      BY <1>5, <1>19, <2>2, ResolveLocalIs
    <2> QED BY <1>21, <1>22, <1>27, <2>3
  <1>29. PICK c : c = Layout(p2, 0, "any", js)
    OBVIOUS
  <1>30. Laid(ForTasks(t.name, iter, idx, start), c, b)
    <2>1. Is(start, p2.vars)
      BY <1>23, <1>27
    <2>2. PICK name \in AllNames : name = t.name
      BY <1>9
    <2>3. Laid(ForTasks(name, iter, idx, start), Layout(p2, 0, "any", js),
               Layout(Ended(p2), 0, "any", js))
      BY <1>26, <1>28, <2>1, LaidForTasks, LooseWords
    <2>4. b = Layout(Ended(p2), 0, "any", js)
      BY <1>9, <1>10, <1>25, <1>26 DEF Moved
    <2> QED BY <1>29, <2>2, <2>3, <2>4
  <1>31. c.place = p2 /\ c.temps = 0 /\ c.then = "any" /\ c.pending = js
    BY <1>29, LayoutFields
  <1>32. CurrentMatches(c, ws)'
    <2>1. ws \o <<>> = ws
      BY <1>19
    <2>2. SlotsOf(locals') = ws \o <<>>
      BY <1>6, <1>19, <2>1
    <2>3. Is(point', StackOf(ws, 0))
      BY <1>6, <1>23
    <2> QED BY <1>6, <1>12, <1>27, <1>31, <2>2, <2>3 DEF CurrentMatches
  <1>33. OuterMatches(c)' /\ LoopsMatch(c)' /\ JumpsMatch(c)'
    BY <1>6, <1>7, <1>10, <1>27, <1>31, OuterKept, LoopsKept, JumpsKept DEF Matches
  <1>34. Matches(c)'
    BY <1>19, <1>32, <1>33 DEF Matches
  <1> QED
    BY <1>6, <1>8, <1>30, <1>34, OperandStep

----------------------------------------------------------------------------
(* Every step keeps compiler and stack in step.                            *)
LEMMA NextInStep ==
    ASSUME IInv, Regular, InStep, hadError = "none", hadError' = "none", CompileStep
    PROVE  InStep'
  <1>1. PICK a, z : Laid(todo, a, z) /\ Done(z) /\ Matches(a)
    BY DEF InStep
  <1>2. /\ Shapes /\ language \in Languages
        /\ RegularJump /\ RegularIf /\ RegularMatch /\ RegularAccess
    BY LocalFacts DEF IInv, Regular
  <1>3. CASE CompileExprStmt \/ CompileReturn \/ CompileFree \/ CompileIf
    BY <1>1, <1>3, SimpleStatementSteps, ElseIfStep
  <1>4. CASE CompileLet \/ CompileBlock \/ CompileWhile \/ CompileFor
    BY <1>1, <1>2, <1>4, CompileLetStep, CompileBlockStep, CompileWhileStep, CompileForStep
  <1>5. CASE CompileForLoop \/ PushLoop \/ CompileBreak \/ CompileContinue \/ EndStatements
    BY <1>1, <1>2, <1>5, CompileForLoopStep, PushLoopStep, CompileJumpStep, EndStatementsStep
  <1>6. CASE DeclareFunction \/ DeclareLocal \/ MarkInitialized
    BY <1>1, <1>6, LocalSteps
  <1>7. CASE \/ CompileUnary \/ CompileBinary \/ CompileAnd \/ CompileOr \/ CompileIndex
             \/ CompileField
    BY <1>1, <1>7, FixedExpressionSteps
  <1>8. CASE CompilePrint \/ CompileCall \/ CompileArray \/ CompileNew
    BY <1>1, <1>8, ListExpressionSteps
  <1>9. CASE CompileLiteral \/ CompileAssign \/ CompileMatch \/ GetMatch
    BY <1>1, <1>2, <1>9, CompileLiteralStep, CompileAssignStep, CompileMatchStep, GetMatchStep
  <1>10. CASE EmitInstruction \/ EmitExit \/ EmitJump \/ PatchJump \/ EmitBreak \/ EndLoop
    BY <1>1, <1>2, <1>10, EmitInstructionStep, EmitExitStep, EmitJumpStep, PatchJumpStep,
       EmitBreakStep, EndLoopStep
  <1>11. CASE BeginScope \/ EndScope
    BY <1>1, <1>2, <1>11, BeginScopeStep, EndScopeStep
  <1>12. CASE CompileFn \/ CompileLambda \/ LeaveFunction
    BY <1>1, <1>2, <1>12, CompileFnStep, CompileLambdaStep, LeaveFunctionStep
  <1>13. CASE CompileIdentifier \/ AssignName
    BY ONLY <1>1, <1>2, <1>13, IInv, NameSteps
  <1> QED
    BY <1>3, <1>4, <1>5, <1>6, <1>7, <1>8, <1>9, <1>10, <1>11, <1>12, <1>13
    DEF CompileStep, PlainStep, ClosureStep

(* An error is never taken back.                                           *)
LEMMA ErrorsStay ==
    ASSUME hadError # "none", CompileStep
    PROVE  hadError' = hadError
  BY Zenon DEF CompileStep, PlainStep, ClosureStep, Statement, Compound, Access, EnterFunction, CompileJump,
     CompileExprStmt, CompileLet, CompileBlock, CompileIf, CompileWhile, CompileFor,
     CompileForLoop, PushLoop, CompileReturn, CompileFree, CompileBreak, CompileContinue,
     EndStatements, DeclareFunction, CompileLiteral, CompileUnary, CompileBinary, CompileAnd,
     CompileOr, CompilePrint, CompileCall, CompileIndex, CompileField, CompileArray, CompileNew,
     CompileAssign, CompileMatch, Match, GetMatch, EmitInstruction, EmitExit, EmitJump, PatchJump,
     EmitBreak, EndLoop, BeginScope, DeclareLocal, MarkInitialized, CompileFn, CompileLambda,
     LeaveFunction, CompileIdentifier, AssignName, EndScope, Complain

LEMMA UnchangedInStep ==
    ASSUME InStep, UNCHANGED vars
    PROVE  InStep'
  <1>1. PICK a, z : Laid(todo, a, z) /\ Done(z) /\ Matches(a)
    BY DEF InStep
  <1>2. UNCHANGED <<todo, locals, depth, outer, loops, point, jumps>>
    BY DEF vars
  <1>3. PICK vs \in Seq(Slots) : CurrentMatches(a, vs)
    BY <1>1 DEF Matches
  <1>4. CurrentMatches(a, vs)'
    BY <1>2, <1>3 DEF CurrentMatches
  <1>5. OuterMatches(a)' /\ LoopsMatch(a)' /\ JumpsMatch(a)'
    BY <1>1, <1>2, OuterKept, LoopsKept, JumpsKept DEF Matches
  <1>6. Matches(a)'
    BY <1>4, <1>5 DEF Matches
  <1>7. Laid(todo', a, z)
    BY <1>1, <1>2
  <1> QED
    BY <1>1, <1>6, <1>7 DEF InStep

LEMMA InitInStep ==
    ASSUME Init
    PROVE  InStep
  <1>1. PICK e : e = <<>>
    OBVIOUS
  <1>2. e \in Seq(Slots) /\ e \in Seq(Frames) /\ e \in Seq(LoopShapes) /\ e \in Seq(Piles)
    BY <1>1, EmptyIsSeq
  <1>3. Len(e) = 0
    BY <1>1
  <1>4. PICK p : p = Place(e, e, 0, FALSE, e, e)
    OBVIOUS
  <1>5. /\ p.vars = e /\ p.next = e /\ p.depth = 0 /\ p.ended = FALSE /\ p.saved = e
        /\ p.loops = e
    BY ONLY <1>4 DEF Place
  <1>6. p \in Places
    <2>1. Sound(p)
      BY <1>3, <1>5 DEF Sound, Within
    <2>2. 0 \in Nat /\ FALSE \in BOOLEAN
      OBVIOUS
    <2> QED BY <1>2, <1>4, <2>1, <2>2, PlaceIs
  <1>7. Roomy(p)
    BY <1>3, <1>5 DEF Roomy
  <1>8. PICK a : a = Layout(p, 0, "any", e)
    OBVIOUS
  <1>9. PICK q : q = Ended(p)
    OBVIOUS
  <1>10. q \in Places /\ q.next = <<>>
    BY <1>6, <1>7, <1>9, EndedPlace, EndedParts
  <1>11. PICK z : z = Layout(q, 0, "any", e)
    OBVIOUS
  <1>12. a \in Layouts /\ z \in Layouts
    <2>1. 0 \in Nat
      OBVIOUS
    <2> QED BY <1>2, <1>6, <1>8, <1>10, <1>11, <2>1, LayoutIs, LooseWords
  <1>13. Yields(Statements, a, z)
    BY <1>1, <1>5, <1>7, <1>8, <1>9, <1>11, StatementsYields, LooseWords
  <1>14. Laid(<<Statements>>, a, z)
    BY <1>12, <1>13, Laid1
  <1>15. Done(z)
    BY <1>10, <1>11, LayoutFields DEF Done
  <1>16. a.place = p /\ a.temps = 0 /\ a.then = "any" /\ a.pending = e
    BY <1>8, LayoutFields
  <1>17. CurrentMatches(a, e)
    <2>1. SlotsOf(e) = e \o e
      <3>1. SlotsOf(e) = <<>>
        BY <1>1 DEF SlotsOf
      <3>2. <<>> \o <<>> = <<>>
        OBVIOUS
      <3> QED BY <1>1, <3>1, <3>2
    <2>2. StackOf(e, 0) = e
      BY <1>2, StackOfNone
    <2>3. locals = e /\ depth = 0 /\ point = At(e)
      BY <1>1 DEF Init
    <2> QED BY <1>1, <1>5, <1>16, <2>1, <2>2, <2>3 DEF CurrentMatches, Is
  <1>18. OuterMatches(a) /\ LoopsMatch(a) /\ JumpsMatch(a)
    <2>1. outer = e /\ loops = e /\ jumps = e
      BY <1>1 DEF Init
    <2> QED BY <1>3, <1>5, <1>16, <2>1 DEF OuterMatches, LoopsMatch, JumpsMatch
  <1>19. Matches(a)
    BY <1>2, <1>17, <1>18 DEF Matches
  <1>20. todo = <<Statements>>
    BY DEF Init
  <1> QED
    BY <1>14, <1>15, <1>19, <1>20 DEF InStep

(* The inductive invariant: that of CompilerSlots_proof and, as long as    *)
(* no error was reported and the program is regular, slots and stack in    *)
(* step.                                                                   *)
SInv == IInv /\ (hadError = "none" /\ regular => InStep)

LEMMA StepInvariant == Spec => []SInv
  <1>1. Init => SInv
    BY InitHolds, InitInStep DEF SInv
  <1>2. SInv /\ [Next]_vars => SInv'
    <2> SUFFICES ASSUME SInv, [Next]_vars PROVE SInv'
      OBVIOUS
    <2>1. IInv /\ IInv'
      BY NextHolds DEF SInv
    <2>2. ASSUME Next, hadError' = "none", regular' PROVE InStep'
      <3>1. regular /\ Regular /\ CompileStep
        BY <2>2, RegularStep
      <3>2. hadError = "none"
        BY <2>2, <3>1, ErrorsStay
      <3>3. InStep
        BY <3>1, <3>2 DEF SInv
      <3> QED BY ONLY <2>1, <2>2, <3>1, <3>2, <3>3, NextInStep
    <2>3. CASE UNCHANGED vars
      <3>1. hadError' = hadError /\ regular' = regular
        BY <2>3 DEF vars
      <3> QED BY <2>1, <2>3, <3>1, UnchangedInStep DEF SInv
    <2> QED BY <2>1, <2>2, <2>3 DEF SInv
  <1> QED
    BY <1>1, <1>2, PTL DEF Spec

----------------------------------------------------------------------------
(* What being in step says.                                                *)
LEMMA LaidEnds ==
    ASSUME NEW a, NEW z, Laid(<<>>, a, z)
    PROVE  a = z
  <1>1. PICK f : f[1] = a /\ f[Len(<<>>) + 1] = z
    BY DEF Laid, Chart
  <1>2. Len(<<>>) + 1 = 1
    OBVIOUS
  <1> QED
    BY ONLY <1>1, <1>2

LEMMA InStepHolds ==
    ASSUME IInv, InStep
    PROVE  StackHoldsLocals
  <1>1. PICK a, z : Laid(todo, a, z) /\ Done(z) /\ Matches(a)
    BY DEF InStep
  <1>2. PICK vs \in Seq(Slots) : CurrentMatches(a, vs)
    BY <1>1 DEF Matches
  <1>3. ASSUME a.temps = 0, a.place.next = <<>>, point.live
        PROVE  point.stack = SlotsOf(locals)
    <2>1. vs \o <<>> = vs
      OBVIOUS
    <2>2. SlotsOf(locals) = vs
      BY <1>2, <1>3, <2>1 DEF CurrentMatches
    <2>3. Is(point, vs)
      BY <1>2, <1>3, StackOfNone DEF CurrentMatches
    <2> QED BY <1>3, <2>2, <2>3 DEF Is, At, Dead
  <1>4. ASSUME todo = <<>> PROVE a.temps = 0 /\ a.place.next = <<>>
    BY <1>1, <1>4, LaidEnds DEF Done
  <1>5. ASSUME todo # <<>>, Task.do \in {"statements", "end", "endLoop"}
        PROVE  a.temps = 0 /\ a.place.next = <<>>
    <2>1. PICK t : t = Task
      OBVIOUS
    <2>2. PICK b \in Layouts : Yields(t, a, b)
      BY <1>1, <1>5, <2>1, TaskFacts
    <2>3. CASE t.do = "statements"
      <3>1. YieldsStatement(t, a, b)
        BY <2>2, <2>3, YieldsKinds
      <3> QED BY <3>1 DEF YieldsStatement, Clear
    <2>4. CASE t.do = "end"
      <3>1. YieldsScope(t, a, b)
        BY <2>2, <2>4, YieldsKinds
      <3> QED BY <2>4, <3>1 DEF YieldsScope
    <2>5. CASE t.do = "endLoop"
      <3>1. YieldsLoop(t, a, b)
        BY <2>2, <2>5, YieldsKinds
      <3> QED BY <3>1 DEF YieldsLoop, Clear
    <2> QED BY <1>5, <2>1, <2>3, <2>4, <2>5
  <1> QED
    BY <1>3, <1>4, <1>5 DEF StackHoldsLocals, Compiled

LEMMA InStepSpares ==
    ASSUME IInv, InStep
    PROVE  InstructionsSpareLocals
  <1>1. PICK a, z : Laid(todo, a, z) /\ Done(z) /\ Matches(a)
    BY DEF InStep
  <1>2. PICK vs \in Seq(Slots) : CurrentMatches(a, vs)
    BY <1>1 DEF Matches
  <1>3. PICK t : t = Task
    OBVIOUS
  <1>4. PICK used : used = CASE t.do \in {"emit", "get", "set"} -> t.pops
                             [] t.do \in {"jumpIfFalse", "return", "mark", "declareFn"} -> 1
                             [] OTHER -> 0
    OBVIOUS
  <1>5. SUFFICES ASSUME Compiled, todo # <<>>
                 PROVE  used <= Height /\ \A i \in 0 .. (used - 1) : point.stack[Height - i] = Temp
    BY <1>3, <1>4 DEF InstructionsSpareLocals
  <1>6. PICK b \in Layouts : Yields(t, a, b)
    BY <1>1, <1>3, <1>5, TaskFacts
  <1>7. PICK n \in Nat : n = a.temps
    BY <1>1, <1>3, <1>5, TaskFacts
  <1>8. used \in 0 .. n
    <2>1. CASE t.do \in {"emit", "get", "set"}
      <3>1. t.do \in Instructions
        BY <2>1 DEF Instructions
      <3>2. YieldsInstruction(t, a, b)
        BY <1>6, <3>1, YieldsKinds
      <3>3. used = t.pops
        BY <1>4, <2>1
      <3> QED BY <1>7, <3>2, <3>3 DEF YieldsInstruction
    <2>2. CASE t.do \in {"jumpIfFalse", "return", "mark", "declareFn"}
      <3>1. used = 1
        BY <1>4, <2>2
      <3>2. n > 0
        <4>1. CASE t.do = "jumpIfFalse"
          <5>1. YieldsJump(t, a, b)
            BY <1>6, <4>1, YieldsKinds
          <5> QED BY <1>7, <4>1, <5>1 DEF YieldsJump
        <4>2. CASE t.do = "return"
          <5>1. YieldsReturn(t, a, b)
            BY <1>6, <4>2, YieldsKinds
          <5> QED BY <1>7, <5>1 DEF YieldsReturn
        <4>3. CASE t.do \in {"mark", "declareFn"}
          <5>1. YieldsLocal(t, a, b)
            BY <1>6, <4>3, YieldsKinds
          <5> QED BY <1>7, <5>1 DEF YieldsLocal
        <4> QED BY <2>2, <4>1, <4>2, <4>3
      <3> QED BY <3>1, <3>2
    <2>3. CASE /\ t.do \notin {"emit", "get", "set"}
               /\ t.do \notin {"jumpIfFalse", "return", "mark", "declareFn"}
      <3>1. used = 0
        BY <1>4, <2>3
      <3> QED BY <3>1
    <2> QED BY <2>1, <2>2, <2>3
  <1>9. PICK s : s = StackOf(vs, n)
    OBVIOUS
  <1>10. PICK h \in Nat : h = Len(vs)
    OBVIOUS
  <1>11. Len(s) = h + n /\ \A i \in (h + 1) .. (h + n) : s[i] = Temp
    BY <1>9, <1>10, StackFacts
  <1>12. point.stack = s
    BY <1>2, <1>5, <1>7, <1>9 DEF CurrentMatches, Compiled, Is, At, Dead
  <1>13. Height = h + n
    BY <1>11, <1>12 DEF Height
  <1>14. \A i \in 0 .. (used - 1) : (h + n) - i \in (h + 1) .. (h + n)
    BY <1>8
  <1> QED
    BY <1>8, <1>11, <1>12, <1>13, <1>14

LEMMA SameAgree ==
    ASSUME NEW s, NEW q, Is(q, s), NEW r, Is(r, s)
    PROVE  Agree(q, r)
  <1>1. ~Dead.live
    BY DEF Dead
  <1> QED
    BY <1>1 DEF Agree, Is

LEMMA InStepJoins ==
    ASSUME IInv, InStep
    PROVE  JoinsAgree
  <1>1. PICK a, z : Laid(todo, a, z) /\ Done(z) /\ Matches(a)
    BY DEF InStep
  <1>2. Shapes
    BY DEF IInv
  <1>3. ASSUME todo # <<>>, Task.do = "patch"
        PROVE  Agree(point, jumps[Patched])
    <2>1. TaskIs("patch")
      BY <1>3 DEF TaskIs
    <2>2. PICK n \in Nat : /\ Is(jumps[Patched], StackOf(a.place.vars, n))
                           /\ point = Dead \/ n = a.temps
                           /\ Is(point, StackOf(a.place.vars, a.temps))
      BY <1>1, <1>2, <2>1, PatchFacts
    <2>3. Is(point, StackOf(a.place.vars, n))
      BY <2>2 DEF Is
    <2> QED BY <2>2, <2>3, SameAgree
  <1>4. ASSUME todo # <<>>, Task.do = "endLoop"
        PROVE  \A b \in loops[Len(loops)].breaks : b.level = Level /\ Agree(point, b.at)
    <2>1. PICK t : t = Task
      OBVIOUS
    <2>2. PICK p \in Places : p = a.place
      BY <1>1, <1>4, <2>1, TaskFacts
    <2>3. PICK c \in Layouts : Yields(t, a, c)
      BY <1>1, <1>4, <2>1, TaskFacts
    <2>4. Clear(a) /\ AtLoop(p)
      <3>1. YieldsLoop(t, a, c)
        BY <1>4, <2>1, <2>3, YieldsKinds
      <3> QED BY <1>4, <2>1, <2>2, <3>1 DEF YieldsLoop
    <2>5. PICK vs \in Seq(Slots) : CurrentMatches(a, vs)
      BY <1>1 DEF Matches
    <2>6. Is(point, p.vars)
      <3>1. p.vars = vs /\ Is(point, StackOf(vs, 0))
        BY <2>2, <2>4, <2>5 DEF CurrentMatches, Clear
      <3> QED BY <3>1, StackOfNone
    <2>7. \A b \in loops[Len(loops)].breaks : b.level = Level /\ Is(b.at, p.vars)
      BY <1>1, <1>2, <2>2, <2>4, InnermostLoop
    <2> QED BY <2>6, <2>7, SameAgree
  <1> QED
    BY <1>3, <1>4 DEF JoinsAgree

LEMMA InStepLoops ==
    ASSUME IInv, InStep
    PROVE  LoopsRestoreStack
  <1>1. PICK a, z : Laid(todo, a, z) /\ Done(z) /\ Matches(a)
    BY DEF InStep
  <1>2. Shapes
    BY DEF IInv
  <1>3. ASSUME TaskIs("loop") \/ TaskIs("continue")
        PROVE  /\ loops[Len(loops)].level = Level
               /\ Agree(point, loops[Len(loops)].start)
    <2>1. PICK t : t = Task
      OBVIOUS
    <2>2. todo # <<>> /\ t.do \in {"loop", "continue"}
      BY <1>3, <2>1 DEF TaskIs
    <2>3. PICK p \in Places : p = a.place
      BY <1>1, <2>1, <2>2, TaskFacts
    <2>4. PICK c \in Layouts : Yields(t, a, c)
      BY <1>1, <2>1, <2>2, TaskFacts
    <2>5. Clear(a) /\ AtLoop(p)
      <3>1. YieldsExit(t, a, c)
        BY <2>2, <2>4, YieldsKinds
      <3> QED BY <2>3, <3>1 DEF YieldsExit
    <2>6. PICK vs \in Seq(Slots) : CurrentMatches(a, vs)
      BY <1>1 DEF Matches
    <2>7. Is(point, p.vars)
      <3>1. p.vars = vs /\ Is(point, StackOf(vs, 0))
        BY <2>3, <2>5, <2>6 DEF CurrentMatches, Clear
      <3> QED BY <3>1, StackOfNone
    <2>8. loops[Len(loops)].level = Level /\ Is(loops[Len(loops)].start, p.vars)
      BY <1>1, <1>2, <2>3, <2>5, InnermostLoop
    <2> QED BY <2>7, <2>8, SameAgree
  <1> QED
    BY <1>3 DEF LoopsRestoreStack

LEMMA InStepSlots ==
    ASSUME IInv, InStep
    PROVE  SlotsFindVariable
  <1>1. PICK a, z : Laid(todo, a, z) /\ Done(z) /\ Matches(a)
    BY DEF InStep
  <1>2. PICK vs \in Seq(Slots) : CurrentMatches(a, vs)
    BY <1>1 DEF Matches
  <1>3. PICK t : t = Task
    OBVIOUS
  <1>4. SUFFICES ASSUME Compiled, todo # <<>>, t.do \in {"get", "set"}
                 PROVE  /\ t.slot \in DOMAIN locals /\ t.slot <= Height
                        /\ point.stack[t.slot] = Variable(locals[t.slot])
    BY <1>3 DEF SlotsFindVariable
  <1>5. PICK b \in Layouts : Yields(t, a, b)
    BY <1>1, <1>3, <1>4, TaskFacts
  <1>6. PICK p \in Places : p = a.place
    BY <1>1, <1>3, <1>4, TaskFacts
  <1>7. PICK n \in Nat : n = a.temps
    BY <1>1, <1>3, <1>4, TaskFacts
  <1>8. ~p.ended /\ t.slot \in 1 .. Len(p.vars)
    <2>1. t.do \in Instructions
      BY <1>4 DEF Instructions
    <2>2. YieldsInstruction(t, a, b)
      BY <1>5, <2>1, YieldsKinds
    <2> QED BY <1>4, <1>6, <2>2 DEF YieldsInstruction
  <1>9. PICK nx \in Seq(Slots) : nx = p.next
    BY PlaceFacts
  <1>10. p.vars = vs /\ SlotsOf(locals) = vs \o nx
    BY <1>2, <1>6, <1>8, <1>9 DEF CurrentMatches
  <1>11. PICK h, m \in Nat : h = Len(vs) /\ m = Len(nx)
    OBVIOUS
  <1>12. PICK k : k = t.slot
    OBVIOUS
  <1>13. k \in 1 .. h
    BY <1>8, <1>10, <1>11, <1>12
  <1>14. Len(vs \o nx) = h + m /\ (vs \o nx)[k] = vs[k]
    BY <1>11, <1>13
  <1>15. k \in DOMAIN locals /\ vs[k] = Variable(locals[k])
    <2>1. Len(locals) = h + m
      BY <1>10, <1>14, LocalFacts, SlotsOfIs
    <2>2. k \in 1 .. Len(locals)
      BY <1>11, <1>13, <2>1
    <2> QED BY <1>10, <1>14, <2>2, LocalFacts, SlotsOfIs DEF Variable
  <1>16. point.stack = StackOf(vs, n)
    BY <1>2, <1>4, <1>7 DEF CurrentMatches, Compiled, Is, At, Dead
  <1>17. Height = h + n /\ point.stack[k] = vs[k]
    <2>1. PICK s : s = StackOf(vs, n)
      OBVIOUS
    <2>2. Len(s) = h + n /\ s[k] = vs[k]
      BY <1>11, <1>13, <2>1, StackFacts
    <2> QED BY <1>16, <2>1, <2>2 DEF Height
  <1>18. k <= h + n
    BY <1>11, <1>13
  <1> QED
    BY <1>12, <1>15, <1>17, <1>18

(* The compiler's slots and the stack the VM will have agree at every      *)
(* statement, at the end of every scope and of every loop; jumps bring     *)
(* together equal stacks; and no instruction takes the slot of a local for *)
(* a result: however long and deep the program and whatever names it uses, *)
(* as long as it is regular.                                               *)
THEOREM StackIsDisciplined == Spec => []StackDiscipline
  <1>1. SInv => StackDiscipline
    <2> SUFFICES ASSUME SInv PROVE StackDiscipline
      OBVIOUS
    <2>1. IInv
      BY DEF SInv
    <2>2. TypeOK
      BY <2>1, InvariantTypes
    <2>3. CASE hadError = "none" /\ regular
      <3>1. InStep
        BY <2>3 DEF SInv
      <3> QED BY <2>1, <2>2, <3>1, InStepHolds, InStepSpares, InStepJoins, InStepLoops
          DEF StackDiscipline
    <2>4. CASE hadError # "none"
      BY <2>2, <2>4 DEF StackDiscipline, StackHoldsLocals, InstructionsSpareLocals, JoinsAgree,
         LoopsRestoreStack, Compiled
    <2>5. CASE ~regular
      BY <2>2, <2>5 DEF StackDiscipline
    <2> QED BY <2>3, <2>4, <2>5
  <1> QED
    BY <1>1, StepInvariant, PTL

(* The slot that resolve_local names in a GET_LOCAL or SET_LOCAL is on the *)
(* stack when the VM executes the instruction, and holds the variable the  *)
(* text's scopes give the name: as long as the program is regular.         *)
THEOREM SlotsAreFound == Spec => [](regular => SlotsFindVariable)
  <1>1. SInv => (regular => SlotsFindVariable)
    <2> SUFFICES ASSUME SInv, regular PROVE SlotsFindVariable
      OBVIOUS
    <2>1. CASE hadError = "none"
      BY <2>1, InStepSlots DEF SInv
    <2>2. CASE hadError # "none"
      BY <2>2 DEF SlotsFindVariable, Compiled
    <2> QED BY <2>1, <2>2
  <1> QED
    BY <1>1, StepInvariant, PTL

(* A local that is captured when its function ends is on the stack of the  *)
(* function around, or is the one whose value the closure becomes.         *)
LEMMA InStepCaptures ==
    ASSUME IInv, CapturesAwait, InStep
    PROVE  CapturesFindVariable
  <1>1. PICK a, z : Laid(todo, a, z) /\ Done(z) /\ Matches(a)
    BY DEF InStep
  <1>2. PICK t : t = Task
    OBVIOUS
  <1>3. PICK o : o = outer[Level]
    OBVIOUS
  <1>4. PICK ls : ls = LocalsOf(Level - 1)
    OBVIOUS
  <1>5. SUFFICES ASSUME todo # <<>>, t.do = "leaveFunction", o.point.live,
                        NEW u \in Range(upvalues), u.isLocal
                 PROVE  LET stack == o.point.stack
                        IN \/ u.index <= Len(stack) /\ stack[u.index] = Variable(ls[u.index])
                           \/ /\ u.index = Len(stack) + 1 /\ u.index = Len(ls)
                              /\ todo[2].do = "mark"
    BY <1>2, <1>3, <1>4 DEF CapturesFindVariable, TaskIs
  <1>6. PICK p \in Places : p = a.place
    BY <1>1, <1>2, <1>5, TaskFacts
  <1>7. PICK b \in Layouts : Yields(t, a, b) /\ Laid(Tail(todo), b, z)
    BY <1>1, <1>2, <1>5, TaskFacts
  <1>8. PICK f : f = LastOf(p.saved)
    OBVIOUS
  <1>9. p.saved # <<>> /\ b.temps = f.temps + 1
    <2>1. YieldsFunction(t, a, b)
      BY <1>5, <1>7, YieldsKinds
    <2>2. PICK n, q : n = f.temps + 1 /\ q = Resumed(p)
      OBVIOUS
    <2>3. p.saved # <<>> /\ b = Layout(q, n, f.then, a.pending)
      BY <1>6, <1>8, <2>1, <2>2 DEF YieldsFunction
    <2>4. b.temps = n
      BY ONLY <2>3, LayoutFields
    <2> QED BY <2>2, <2>3, <2>4
  <1>10. PICK N \in Nat : N = Level /\ N = Len(outer)
    BY FunctionFacts DEF IInv
  <1>11. /\ Len(p.saved) = N /\ p.saved \in Seq(Frames)
         /\ \A i \in 1 .. N : FrameMatches(outer[i], p.saved[i])
    BY <1>1, <1>6, <1>10, PlaceFacts DEF Matches, OuterMatches
  <1>12. N > 0 /\ N \in 1 .. N /\ f = p.saved[N] /\ o = outer[N]
    BY <1>3, <1>8, <1>9, <1>10, <1>11 DEF LastOf
  <1>13. FrameMatches(o, f)
    BY ONLY <1>11, <1>12
  <1>14. PICK vs, nx \in Seq(Slots), k \in Nat : vs = f.vars /\ nx = f.next /\ k = f.temps
    BY <1>11, <1>12, FrameFacts
  <1>15. ls = o.locals /\ CapturesOK(ls, upvalues) /\ upvalues = UpvaluesOf(N)
         /\ ls \in Seq(LocalRecords(Names))
    <2>1. N - 1 \in 0 .. N - 1 /\ (N - 1) + 1 = N
      BY <1>12
    <2>2. \A i \in 0 .. Level - 1 : LocalsOf(i) = outer[i + 1].locals
      BY FunctionFacts DEF IInv
    <2>3. ls = o.locals
      BY ONLY <1>4, <1>10, <1>12, <2>1, <2>2
    <2>4. UpvaluesOf(Level) = upvalues
      BY FunctionFacts DEF IInv
    <2>5. \A i \in 1 .. Level : CapturesOK(outer[i].locals, UpvaluesOf(i))
      BY FunctionFacts DEF IInv
    <2>6. \A i \in 1 .. Level : LocalsOK(Names, outer[i].locals, outer[i].depth)
      BY FunctionFacts DEF IInv
    <2>7. outer[N].locals \in Seq(LocalRecords(Names))
      BY ONLY <1>10, <1>12, <2>6 DEF LocalsOK
    <2> QED BY ONLY <1>10, <1>12, <2>3, <2>4, <2>5, <2>7
  <1>16. PICK i \in 1 .. Len(upvalues) : upvalues[i] = u
    <2>1. upvalues \in Seq(Upvalues)
      BY FunctionFacts DEF IInv
    <2> QED BY <1>5, <2>1 DEF Range
  <1>17. PICK x \in 1 .. Len(ls) : x = u.index
    BY ONLY <1>5, <1>15, <1>16 DEF CapturesOK, Captured
  <1>18. PICK h, m \in Nat : h = Len(vs) /\ m = Len(nx)
    OBVIOUS
  <1>19. /\ SlotsOf(ls) = vs \o nx
         /\ nx # <<>> => m = 1 /\ ~LastOf(ls).initialized
         /\ Is(o.point, StackOf(vs, k))
    BY ONLY <1>13, <1>14, <1>15, <1>18 DEF FrameMatches
  <1>20. Len(ls) = h + m /\ (x <= h => vs[x] = Variable(ls[x]))
    <2>1. /\ Len(ls) \in Nat /\ Len(SlotsOf(ls)) = Len(ls)
          /\ \A j \in 1 .. Len(ls) : SlotsOf(ls)[j] = <<ls[j].name, ls[j].depth>>
      BY ONLY <1>15, SlotsOfIs
    <2>2. Len(vs \o nx) = h + m /\ (x \in 1 .. h => (vs \o nx)[x] = vs[x])
      BY ONLY <1>18, vs \in Seq(Slots), nx \in Seq(Slots)
    <2>3. x <= h => x \in 1 .. h
      BY ONLY <1>18, <2>1, x \in 1 .. Len(ls), h \in Nat
    <2> QED BY ONLY <1>19, <2>1, <2>2, <2>3, x \in 1 .. Len(ls) DEF Variable
  <1>21. o.point.stack = StackOf(vs, k)
    BY ONLY <1>5, <1>19 DEF Is, At, Dead
  <1>22. PICK s : s = o.point.stack
    OBVIOUS
  <1>23. Len(s) = h + k /\ \A j \in 1 .. h : s[j] = vs[j]
    <2>1. PICK st : st = StackOf(vs, k)
      OBVIOUS
    <2>2. Len(st) = Len(vs) + k /\ \A j \in 1 .. Len(vs) : st[j] = vs[j]
      BY ONLY <2>1, vs \in Seq(Slots), k \in Nat, StackFacts
    <2>3. s = st
      BY ONLY <1>21, <1>22, <2>1
    <2> QED BY ONLY <1>18, <2>2, <2>3
  <1>24. CASE x <= h
    <2>1. x \in 1 .. h /\ x <= h + k
      BY <1>18, <1>24
    <2> QED BY ONLY <1>17, <1>20, <1>22, <1>23, <1>24, <2>1
  <1>25. CASE ~(x <= h)
    <2>1. nx # <<>> /\ m = 1 /\ x = h + 1 /\ x = Len(ls)
      <3>1. m > 0
        BY ONLY <1>20, <1>25, x \in 1 .. Len(ls), h \in Nat, m \in Nat
      <3>2. nx # <<>>
        BY ONLY <1>18, <3>1, nx \in Seq(Slots)
      <3>3. m = 1
        BY ONLY <1>19, <3>2
      <3> QED BY ONLY <1>20, <1>25, <3>2, <3>3, x \in 1 .. Len(ls), h \in Nat
    <2>2. ~ls[x].initialized
      BY ONLY <1>19, <2>1 DEF LastOf
    <2>3. IsSequence(todo) /\ todo[1].do = "leaveFunction"
      BY <1>1, <1>2, <1>5, SequenceFacts DEF Laid, Task
    <2>4. Awaited(todo, 1)
      <3>1. N \in 1 .. Level /\ (Level - N) + 1 = 1
        BY <1>10, <1>12
      <3>2. i \in 1 .. Len(UpvaluesOf(N)) /\ UpvaluesOf(N)[i].isLocal
        BY <1>5, <1>15, <1>16
      <3>3. \/ LocalsOf(N - 1)[UpvaluesOf(N)[i].index].initialized
            \/ Awaited(todo, (Level - N) + 1)
        BY ONLY CapturesAwait, <3>1, <3>2 DEF CapturesAwait
      <3>4. LocalsOf(N - 1) = ls /\ UpvaluesOf(N)[i].index = x
        BY <1>4, <1>10, <1>15, <1>16, <1>17
      <3> QED BY ONLY <2>2, <3>1, <3>3, <3>4
    <2>5. Len(todo) = 1 \/ todo[2].do = "mark"
      BY ONLY <1>5, <2>3, <2>4, AwaitedOne
    <2>6. Tail(todo) # <<>>
      <3> SUFFICES ASSUME Tail(todo) = <<>> PROVE FALSE
        OBVIOUS
      <3>1. b = z
        BY ONLY <1>7, Tail(todo) = <<>>, LaidEnds
      <3>2. b.temps = 0
        BY ONLY <1>1, <3>1 DEF Done
      <3> QED BY ONLY <1>9, <1>14, <3>2, k \in Nat
    <2>7. PICK w : w = Head(Tail(todo))
      OBVIOUS
    <2>8. Len(todo) # 1 /\ todo[2] = w
      <3>1. /\ Len(todo) \in Nat /\ IsSequence(Tail(todo)) /\ Len(Tail(todo)) = Len(todo) - 1
            /\ \A j \in 1 .. Len(todo) - 1 : Tail(todo)[j] = todo[j + 1]
        BY ONLY <1>5, <2>3, SequenceFacts
      <3>2. Len(Tail(todo)) > 0 /\ Head(Tail(todo)) = Tail(todo)[1]
        BY ONLY <2>6, <3>1, SequenceFacts
      <3>3. Len(todo) # 1 /\ 1 \in 1 .. Len(todo) - 1 /\ 1 + 1 = 2
        <4>1. PICK n, l : n = Len(todo) /\ l = Len(Tail(todo))
          OBVIOUS
        <4>2. n \in Nat /\ l = n - 1 /\ l > 0
          BY ONLY <3>1, <3>2, <4>1
        <4>3. n # 1 /\ 1 \in 1 .. n - 1
          BY ONLY <4>2
        <4> QED BY ONLY <4>1, <4>3
      <3> QED BY ONLY <2>7, <3>1, <3>2, <3>3
    <2>9. w.do = "mark"
      BY ONLY <2>5, <2>8
    <2>10. PICK c : Yields(w, b, c)
      BY ONLY <1>7, <2>6, <2>7, NextLaid
    <2>11. b.temps = 1
      <3>1. YieldsLocal(w, b, c)
        BY ONLY <2>9, <2>10, YieldsKinds
      <3> QED BY ONLY <3>1 DEF YieldsLocal
    <2>12. k = 0
      BY ONLY <1>9, <1>14, <2>11, k \in Nat
    <2>13. x = Len(s) + 1
      BY ONLY <1>18, <1>23, <2>1, <2>12
    <2> QED BY ONLY <1>17, <1>22, <2>1, <2>8, <2>9, <2>13
  <1> QED
    BY <1>24, <1>25

(* However a variable is named, by its own function or by closures nested  *)
(* in it, before or after its value is known, code reaches its slot: in    *)
(* every program through chains of upvalues, and as long as it is regular  *)
(* through local accesses and the captures of a new closure.               *)
THEOREM VariablesAreFound == Spec => []AccessesFindVariable
  <1>1. SInv /\ (regular => CapturesAwait) => (regular => CapturesFindVariable)
    <2> SUFFICES ASSUME SInv, CapturesAwait, regular PROVE CapturesFindVariable
      OBVIOUS
    <2>1. CASE hadError = "none"
      BY <2>1, InStepCaptures DEF SInv
    <2>2. CASE hadError # "none"
      BY <2>2 DEF CapturesFindVariable
    <2> QED BY <2>1, <2>2
  <1>2. Spec => [](regular => CapturesAwait)
    BY Captures
  <1>3. (regular => SlotsFindVariable) /\ UpvaluesFindVariable /\ (regular => CapturesFindVariable)
        => AccessesFindVariable
    BY DEF AccessesFindVariable
  <1>4. Spec => []SInv
    BY StepInvariant
  <1>5. Spec => [](regular => SlotsFindVariable)
    BY SlotsAreFound
  <1> QED
    BY <1>1, <1>2, <1>3, <1>4, <1>5, UpvaluesAreFound, PTL
=============================================================================
