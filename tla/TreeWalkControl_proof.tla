------------------------ MODULE TreeWalkControl_proof ------------------------
(***************************************************************************)
(* Proofs about TreeWalkControl for every bound and every call depth.      *)
(***************************************************************************)
EXTENDS TreeWalkControl, SequenceTheorems, FiniteSetTheorems, TLAPS

----------------------------------------------------------------------------
(* Facts about sequences. *)

LEMMA FrontOfSeq ==
    ASSUME NEW S, NEW s \in Seq(S), s # << >>
    PROVE  /\ Len(s) \in Nat \ {0}
           /\ s[Len(s)] \in S
           /\ SubSeq(s, 1, Len(s) - 1) \in Seq(S)
           /\ Len(SubSeq(s, 1, Len(s) - 1)) = Len(s) - 1
           /\ \A n \in 1 .. Len(s) - 1 : SubSeq(s, 1, Len(s) - 1)[n] = s[n]
  <1>1. Len(s) \in Nat /\ Len(s) # 0
    OBVIOUS
  <1>2. \A n \in 1 .. Len(s) : s[n] \in S
    OBVIOUS
  <1> DEFINE k == Len(s) - 1
  <1>3. k \in Nat /\ Len(s) = k + 1
    BY <1>1
  <1>4. \A n \in 1 .. k : s[n] \in S
    BY <1>2, <1>3
  <1>5. /\ SubSeq(s, 1, k) \in Seq(S)
        /\ Len(SubSeq(s, 1, k)) = IF 1 <= k THEN k - 1 + 1 ELSE 0
        /\ \A n \in 1 .. k - 1 + 1 : SubSeq(s, 1, k)[n] = s[1 + n - 1]
    <2> HIDE DEF k
    <2> QED BY <1>3, <1>4, SubSeqProperties
  <1>6. SubSeq(s, 1, k) = SubSeq(s, 1, Len(s) - 1)
    OBVIOUS
  <1> HIDE DEF k
  <1>7. Len(SubSeq(s, 1, k)) = k /\ \A n \in 1 .. k : SubSeq(s, 1, k)[n] = s[n]
    BY <1>3, <1>5
  <1> QED
    BY <1>1, <1>2, <1>3, <1>5, <1>6, <1>7

LEMMA SeqSubset ==
    ASSUME NEW S, NEW T, S \subseteq T, NEW s \in Seq(S)
    PROVE  s \in Seq(T)
  <1>1. s \in [1 .. Len(s) -> T] /\ Len(s) \in Nat
    OBVIOUS
  <1> QED
    BY <1>1

LEMMA SeqElement ==
    ASSUME NEW S, NEW s \in Seq(S), NEW k \in 1 .. Len(s)
    PROVE  s[k] \in S
  OBVIOUS

LEMMA OneMore ==
    ASSUME NEW n \in Nat, NEW k \in 1 .. n + 1
    PROVE  k \in 1 .. n \/ k = n + 1
  OBVIOUS

----------------------------------------------------------------------------
(* The frames on the stack. *)

FrameSet(n, m) == [kind : Kinds, entry : 1 .. n, trying : BOOLEAN, fn : 0 .. m]

(* A stack of frames stays one when scopes and functions are created. *)
LEMMA FrameSetGrows ==
    ASSUME NEW n \in Nat, NEW m \in Nat, NEW n2 \in Nat, NEW m2 \in Nat,
           n <= n2, m <= m2, NEW hs \in Seq(FrameSet(n, m))
    PROVE  hs \in Seq(FrameSet(n2, m2))
  <1>1. 1 .. n \subseteq 1 .. n2 /\ 0 .. m \subseteq 0 .. m2
    OBVIOUS
  <1>2. FrameSet(n, m) \subseteq FrameSet(n2, m2)
    BY <1>1 DEF FrameSet
  <1> QED
    BY <1>2, SeqSubset

(* What TypeOK says, in terms of lengths. *)
LEMMA TypeFacts ==
    ASSUME TypeOK
    PROVE  /\ parent \in Seq(Nat)
           /\ Len(parent) \in Nat
           /\ Len(parent) >= 1
           /\ Scopes = 1 .. Len(parent)
           /\ current \in 1 .. Len(parent)
           /\ Len(fns) \in Nat
           /\ Fns = 1 .. Len(fns)
           /\ handlers \in Seq(FrameSet(Len(parent), Len(fns)))
           /\ Depth \in Nat
           /\ handlers # <<>> => Depth # 0
  <1>1. parent \in Seq(Nat) /\ Len(parent) \in 1 .. MaxScopes
    BY DEF TypeOK
  <1>2. fns \in Seq([closure : Scopes, line : 1 .. MaxLines])
    BY DEF TypeOK
  <1>3. DOMAIN parent = 1 .. Len(parent) /\ DOMAIN fns = 1 .. Len(fns) /\ Len(fns) \in Nat
    BY <1>1, <1>2
  <1>4. Scopes = 1 .. Len(parent) /\ Fns = 1 .. Len(fns)
    BY <1>3 DEF Scopes, Fns
  <1>5. handlers \in Seq([kind : Kinds, entry : Scopes, trying : BOOLEAN,
                           fn : 0 .. Len(fns)])
    BY DEF TypeOK
  <1>6. handlers \in Seq(FrameSet(Len(parent), Len(fns)))
    BY <1>4, <1>5 DEF FrameSet
  <1>7. Depth \in Nat /\ (handlers # <<>> => Depth # 0)
    BY <1>6 DEF Depth
  <1>8. current \in 1 .. Len(parent)
    BY <1>4 DEF TypeOK
  <1> QED
    BY <1>1, <1>3, <1>4, <1>6, <1>7, <1>8, BoundsAssumption

LEMMA TopFacts ==
    ASSUME TypeOK, handlers # <<>>
    PROVE  /\ Depth \in Nat \ {0}
           /\ Top \in FrameSet(Len(parent), Len(fns))
           /\ Top.entry \in 1 .. Len(parent)
           /\ Below \in Seq(FrameSet(Len(parent), Len(fns)))
           /\ Len(Below) = Depth - 1
           /\ \A k \in 1 .. Depth - 1 : Below[k] = handlers[k]
  <1>1. handlers \in Seq(FrameSet(Len(parent), Len(fns)))
    BY TypeFacts
  <1>2. /\ Depth \in Nat \ {0}
        /\ Top \in FrameSet(Len(parent), Len(fns))
        /\ Below \in Seq(FrameSet(Len(parent), Len(fns)))
        /\ Len(Below) = Depth - 1
        /\ \A k \in 1 .. Depth - 1 : Below[k] = handlers[k]
    BY <1>1, FrontOfSeq DEF Depth, Top, Below
  <1> QED
    BY <1>2 DEF FrameSet

LEMMA SetTryingFacts ==
    ASSUME TypeOK, handlers # <<>>, NEW b \in BOOLEAN
    PROVE  /\ SetTrying(b) \in Seq(FrameSet(Len(parent), Len(fns)))
           /\ Len(SetTrying(b)) = Depth
           /\ \A k \in 1 .. Depth - 1 : SetTrying(b)[k] = handlers[k]
           /\ SetTrying(b)[Depth] = [Top EXCEPT !.trying = b]
           /\ SetTrying(b)[Depth].kind = Top.kind
           /\ SetTrying(b)[Depth].entry = Top.entry
           /\ SetTrying(b)[Depth].fn = Top.fn
           /\ SetTrying(b)[Depth].trying <=> b
  <1> DEFINE F == FrameSet(Len(parent), Len(fns))
  <1>1. handlers \in Seq(F) /\ Depth \in 1 .. Len(handlers) /\ Top \in F
    BY TypeFacts, TopFacts DEF Depth
  <1>2. [Top EXCEPT !.trying = b] \in F
    BY <1>1 DEF FrameSet
  <1>3. SetTrying(b) = [handlers EXCEPT ![Depth] = [Top EXCEPT !.trying = b]]
    BY DEF SetTrying, Top
  <1> HIDE DEF F
  <1>4. /\ SetTrying(b) \in Seq(F)
        /\ Len(SetTrying(b)) = Len(handlers)
        /\ \A k \in 1 .. Len(handlers) : SetTrying(b)[k]
                = IF k = Depth THEN [Top EXCEPT !.trying = b] ELSE handlers[k]
    BY <1>1, <1>2, <1>3, ExceptSeq
  <1>5. SetTrying(b)[Depth] = [Top EXCEPT !.trying = b]
    BY <1>1, <1>4
  <1> QED
    BY <1>1, <1>4, <1>5 DEF F, FrameSet, Depth

LEMMA PoppedScopeType ==
    ASSUME TypeOK
    PROVE  PoppedScope \in 1 .. Len(parent)
  <1>1. /\ current \in 1 .. Len(parent) /\ Len(parent) \in Nat
        /\ parent[current] \in Nat /\ parent[current] < current
    BY DEF TypeOK, Scopes
  <1> QED
    BY <1>1 DEF PoppedScope

----------------------------------------------------------------------------
(* What a step leaves behind. *)

(* PushBlock adds one scope and one frame, and keeps the others. *)
BlockPushed(ps, base, m, hs) ==
    /\ parent' \in Seq(Nat)
    /\ Len(parent') = Len(ps) + 1
    /\ Len(parent') \in 1 .. MaxScopes
    /\ \A s \in 1 .. Len(parent') : parent'[s] < s
    /\ \A s \in 1 .. Len(ps) : parent'[s] = ps[s]
    /\ current' = Len(ps) + 1
    /\ current' \in 1 .. Len(parent')
    /\ parent'[current'] = base
    /\ handlers' \in Seq(FrameSet(Len(parent'), m))
    /\ Len(handlers') = Len(hs) + 1
    /\ \A k \in 1 .. Len(hs) : handlers'[k] = hs[k]
    /\ handlers'[Len(hs) + 1] = Block(base)

LEMMA PushBlockFacts ==
    ASSUME NEW ps \in Seq(Nat),
           NEW base \in 1 .. Len(ps),
           NEW m \in Nat,
           NEW hs \in Seq(FrameSet(Len(ps), m)),
           \A s \in 1 .. Len(ps) : ps[s] < s,
           PushBlock(hs, ps, base)
    PROVE  BlockPushed(ps, base, m, hs)
  <1>1. /\ parent' = Append(ps, base) /\ current' = Len(ps) + 1
        /\ handlers' = Append(hs, Block(base)) /\ Len(ps) < MaxScopes
    BY DEF PushBlock
  <1>2. Len(ps) \in Nat /\ base \in Nat /\ MaxScopes \in Nat
    BY BoundsAssumption
  <1>3. /\ parent' \in Seq(Nat) /\ Len(parent') = Len(ps) + 1
        /\ \A s \in 1 .. Len(ps) : parent'[s] = ps[s]
        /\ parent'[Len(ps) + 1] = base
    BY <1>1, <1>2, AppendProperties
  <1>4. \A s \in 1 .. Len(parent') : parent'[s] < s
    <2> SUFFICES ASSUME NEW s \in 1 .. Len(ps) + 1
                 PROVE  parent'[s] < s
      BY <1>3
    <2>1. CASE s \in 1 .. Len(ps)
      BY <1>3, <2>1
    <2>2. CASE s = Len(ps) + 1
      <3>1. base < s
        BY <1>2, <2>2
      <3> QED
        BY <1>3, <2>2, <3>1
    <2>3. s \in 1 .. Len(ps) \/ s = Len(ps) + 1
      BY <1>2, OneMore
    <2> QED
      BY <2>1, <2>2, <2>3
  <1>5. Block(base) \in FrameSet(Len(ps) + 1, m)
    BY <1>2 DEF Block, Frame, FrameSet, Kinds
  <1>6. hs \in Seq(FrameSet(Len(ps) + 1, m))
    BY <1>2, FrameSetGrows
  <1>7. /\ handlers' \in Seq(FrameSet(Len(ps) + 1, m))
        /\ Len(handlers') = Len(hs) + 1
        /\ \A k \in 1 .. Len(hs) : handlers'[k] = hs[k]
        /\ handlers'[Len(hs) + 1] = Block(base)
    BY <1>1, <1>5, <1>6, AppendProperties
  <1> QED
    BY <1>1, <1>2, <1>3, <1>4, <1>7 DEF BlockPushed

(* A frame added by a loop or a call. *)
LEMMA AppendFrameFacts ==
    ASSUME NEW n \in Nat, NEW m \in Nat,
           NEW hs \in Seq(FrameSet(n, m)),
           NEW kind \in Kinds, NEW entry \in 1 .. n,
           NEW trying \in BOOLEAN, NEW f \in 0 .. m
    PROVE  LET h == Frame(kind, entry, trying, f) IN
           /\ h \in FrameSet(n, m)
           /\ Append(hs, h) \in Seq(FrameSet(n, m))
           /\ Len(Append(hs, h)) = Len(hs) + 1
           /\ \A k \in 1 .. Len(hs) : Append(hs, h)[k] = hs[k]
           /\ Append(hs, h)[Len(hs) + 1] = h
  <1>1. Frame(kind, entry, trying, f) \in FrameSet(n, m)
    BY DEF Frame, FrameSet
  <1> QED
    BY <1>1, AppendProperties

(* TypeOK of the next state, in terms of lengths. *)
LEMMA TypeNext ==
    ASSUME parent' \in Seq(Nat),
           Len(parent') \in 1 .. MaxScopes,
           \A s \in 1 .. Len(parent') : parent'[s] < s,
           current' \in 1 .. Len(parent'),
           handlers' \in Seq(FrameSet(Len(parent'), Len(fns'))),
           callStack' \in Seq(1 .. Len(fns')),
           Len(callStack') <= MaxCallDepth,
           signal' \in Signals \cup {"none"},
           fns' \in Seq([closure : 1 .. Len(parent'), line : 1 .. MaxLines]),
           Len(fns') <= MaxFns,
           line' \in 1 .. MaxLines,
           status' \in {"running", "done", "crashed", "aborted", "undefined"},
           target' \in Nat
    PROVE  TypeOK'
  <1>1. DOMAIN parent' = 1 .. Len(parent') /\ DOMAIN fns' = 1 .. Len(fns')
    OBVIOUS
  <1>2. Scopes' = 1 .. Len(parent') /\ Fns' = 1 .. Len(fns')
    BY <1>1 DEF Scopes, Fns
  <1> QED
    BY <1>2 DEF TypeOK, FrameSet

(* When no scope and no function is created, and the frames are typed. *)
LEMMA TypeKept ==
    ASSUME TypeOK,
           UNCHANGED <<parent, fns>>,
           current' \in 1 .. Len(parent),
           handlers' \in Seq(FrameSet(Len(parent), Len(fns))),
           \/ callStack' = callStack
           \/ callStack # <<>> /\ callStack' = SubSeq(callStack, 1, Len(callStack) - 1),
           signal' \in Signals \cup {"none"},
           line' \in 1 .. MaxLines,
           status' \in {"running", "done", "crashed", "aborted", "undefined"},
           target' \in Nat
    PROVE  TypeOK'
  <1>1. Scopes = 1 .. Len(parent) /\ Fns = 1 .. Len(fns)
    BY TypeFacts
  <1>2. callStack \in Seq(1 .. Len(fns)) /\ Len(callStack) <= MaxCallDepth /\ MaxCallDepth \in Nat
    BY <1>1, BoundsAssumption DEF TypeOK
  <1>3. callStack' \in Seq(1 .. Len(fns)) /\ Len(callStack') <= MaxCallDepth
    <2>1. CASE callStack' = callStack
      BY <1>2, <2>1
    <2>2. CASE callStack # <<>> /\ callStack' = SubSeq(callStack, 1, Len(callStack) - 1)
      <3>1. /\ Len(callStack) \in Nat \ {0}
            /\ callStack' \in Seq(1 .. Len(fns))
            /\ Len(callStack') = Len(callStack) - 1
        BY <1>2, <2>2, FrontOfSeq
      <3> QED
        BY <1>2, <3>1
    <2> QED
      BY <2>1, <2>2
  <1>4. /\ parent \in Seq(Nat) /\ Len(parent) \in 1 .. MaxScopes
        /\ \A s \in 1 .. Len(parent) : parent[s] < s
        /\ fns \in Seq([closure : 1 .. Len(parent), line : 1 .. MaxLines])
        /\ Len(fns) <= MaxFns
    BY <1>1 DEF TypeOK
  <1> QED
    BY <1>3, <1>4, TypeNext

----------------------------------------------------------------------------
(* The scopes follow the text. *)

FollowsText(h, inside, ps, fs) ==
    /\ h.kind = "block" => ps[inside] = h.entry
    /\ h.kind = "while" => inside = h.entry
    /\ h.kind = "for" /\ h.trying => ps[inside] = h.entry
    /\ h.kind = "for" /\ ~h.trying => inside = h.entry
    /\ h.kind = "call" => ps[inside] = fs[h.fn].closure

(* A call frame names the function that is called. *)
CallsNamed == \A k \in 1 .. Depth : handlers[k].kind = "call" => handlers[k].fn \in 1 .. Len(fns)

LEMMA FrameKinds ==
    ASSUME NEW n, NEW m, NEW h \in FrameSet(n, m)
    PROVE  /\ h.kind \in {"block", "while", "for", "call"}
           /\ h.trying \in BOOLEAN
           /\ h.entry \in 1 .. n
           /\ h.fn \in 0 .. m
  BY DEF FrameSet, Kinds

EveryFrameFollowsText ==
    /\ Inside(0) = Global
    /\ \A k \in 1 .. Depth : FollowsText(handlers[k], Inside(k), parent, fns)

LEMMA TextParts ==
    TypeOK => (ScopesFollowText <=> EveryFrameFollowsText)
  <1> SUFFICES ASSUME TypeOK
               PROVE  ScopesFollowText <=> EveryFrameFollowsText
    OBVIOUS
  <1>1. /\ DOMAIN handlers = 1 .. Depth
        /\ \A k \in 1 .. Depth : handlers[k] \in FrameSet(Len(parent), Len(fns))
    BY TypeFacts DEF Depth
  <1>2. ASSUME NEW k \in 1 .. Depth
        PROVE  LET h == handlers[k] IN
               (CASE h.kind = "block" -> parent[Inside(k)] = h.entry
                  [] h.kind = "while" -> Inside(k) = h.entry
                  [] h.kind = "for"   -> IF h.trying THEN parent[Inside(k)] = h.entry
                                                     ELSE Inside(k) = h.entry
                  [] h.kind = "call"  -> parent[Inside(k)] = fns[h.fn].closure)
               <=> FollowsText(h, Inside(k), parent, fns)
    BY <1>1, <1>2, FrameKinds DEF FollowsText
  <1> QED
    BY <1>1, <1>2 DEF ScopesFollowText, EveryFrameFollowsText

LEMMA TextPartsNext ==
    TypeOK' => (ScopesFollowText' <=> EveryFrameFollowsText')
  BY TextParts, PTL

(* The scope inside of a frame is one that exists. *)
LEMMA InsideType ==
    ASSUME TypeOK, NEW k \in 0 .. Depth
    PROVE  Inside(k) \in 1 .. Len(parent)
  <1>1. /\ current \in 1 .. Len(parent) /\ Depth \in Nat
        /\ \A j \in 1 .. Depth : handlers[j] \in FrameSet(Len(parent), Len(fns))
    BY TypeFacts DEF Depth
  <1>2. CASE k = Depth
    BY <1>1, <1>2 DEF Inside
  <1>3. CASE k # Depth
    <2>1. k + 1 \in 1 .. Depth
      BY <1>1, <1>3
    <2> QED
      BY <1>1, <1>3, <2>1 DEF Inside, FrameSet
  <1> QED
    BY <1>2, <1>3

LEMMA InsideKept ==
    ASSUME TypeOK, TypeOK',
           NEW d \in 0 .. Depth,
           d <= Len(handlers'),
           \A k \in 1 .. d : handlers'[k] = handlers[k],
           Inside(d)' = Inside(d)
    PROVE  \A k \in 0 .. d : Inside(k)' = Inside(k)
  <1> SUFFICES ASSUME NEW k \in 0 .. d, k # d
               PROVE  Inside(k)' = Inside(k)
    OBVIOUS
  <1>1. Depth \in Nat /\ Len(handlers') \in Nat
    BY TypeFacts DEF TypeOK
  <1>2. k + 1 \in 1 .. d /\ k # Depth /\ k # Len(handlers')
    BY <1>1
  <1> QED
    BY <1>1, <1>2 DEF Inside, Depth

(* A step that leaves the frames up to d alone, and what is inside of d,   *)
(* has to account for the frames above d only.                             *)
LEMMA TextStep ==
    ASSUME TypeOK, TypeOK', ScopesFollowText, CallsNamed,
           NEW d \in 0 .. Depth,
           d <= Len(handlers'),
           \A k \in 1 .. d : handlers'[k] = handlers[k],
           Inside(d)' = Inside(d),
           \A s \in 1 .. Len(parent) : parent'[s] = parent[s],
           \A f \in 1 .. Len(fns) : fns'[f] = fns[f],
           \A k \in d + 1 .. Len(handlers') :
                FollowsText(handlers'[k], Inside(k)', parent', fns')
    PROVE  ScopesFollowText'
  <1>1. Depth \in Nat /\ Len(handlers') \in Nat /\ Depth' = Len(handlers')
    BY TypeFacts DEF TypeOK, Depth
  <1>0. \A k \in 0 .. d : Inside(k)' = Inside(k)
    BY InsideKept
  <1>2. Inside(0)' = Global
    BY <1>0, <1>1, TextParts DEF EveryFrameFollowsText, Global
  <1>3. ASSUME NEW k \in 1 .. d
        PROVE  FollowsText(handlers'[k], Inside(k)', parent', fns')
    <2>1. FollowsText(handlers[k], Inside(k), parent, fns) /\ k \in 0 .. Depth /\ k \in 1 .. Depth
      BY <1>1, TextParts DEF EveryFrameFollowsText
    <2>2. handlers'[k] = handlers[k] /\ Inside(k)' = Inside(k)
      BY <1>0, <1>1
    <2>3. parent'[Inside(k)] = parent[Inside(k)]
      BY <2>1, InsideType
    <2>4. handlers[k].kind = "call" => fns'[handlers[k].fn] = fns[handlers[k].fn]
      BY <2>1 DEF CallsNamed
    <2> QED
      BY <2>1, <2>2, <2>3, <2>4 DEF FollowsText
  <1>4. \A k \in 1 .. Depth' : FollowsText(handlers'[k], Inside(k)', parent', fns')
    BY <1>1, <1>3
  <1> QED
    BY <1>2, <1>4, TextPartsNext DEF EveryFrameFollowsText

(* A frame that ends and gives back the scope it found. *)
LEMMA PopText ==
    ASSUME TypeOK, TypeOK', ScopesFollowText, CallsNamed,
           handlers # <<>>, handlers' = Below, current' = Top.entry,
           UNCHANGED <<parent, fns>>
    PROVE  ScopesFollowText'
  <1>1. /\ Depth \in Nat \ {0} /\ Len(handlers') = Depth - 1
        /\ \A k \in 1 .. Depth - 1 : handlers'[k] = handlers[k]
    BY TopFacts
  <1>2. PICK d \in 0 .. Depth : d = Depth - 1
    BY <1>1
  <1>3. Inside(d)' = Inside(d)
    <2>1. Inside(d)' = Top.entry
      BY <1>1, <1>2 DEF Inside, Depth
    <2>2. d # Depth /\ d + 1 = Depth
      BY <1>1, <1>2
    <2> QED
      BY <2>1, <2>2 DEF Inside, Top
  <1>4. /\ d <= Len(handlers')
        /\ \A k \in 1 .. d : handlers'[k] = handlers[k]
        /\ \A k \in d + 1 .. Len(handlers') :
                FollowsText(handlers'[k], Inside(k)', parent', fns')
    BY <1>1, <1>2
  <1> QED
    BY <1>3, <1>4, TextStep

LEMMA TopFollowsText ==
    ASSUME TypeOK, ScopesFollowText, handlers # <<>>
    PROVE  FollowsText(Top, current, parent, fns)
  <1>1. Depth \in 1 .. Depth
    BY TopFacts
  <1> QED
    BY <1>1, TextParts DEF EveryFrameFollowsText, Inside, Top

(* pop_scope gives back the scope that a block, or an iteration, found. *)
LEMMA PoppedIsEntry ==
    ASSUME TypeOK, ScopesFollowText, handlers # <<>>,
           TopIs("block") \/ (TopIs("for") /\ Top.trying)
    PROVE  PoppedScope = Top.entry
  <1>1. Top.entry \in 1 .. Len(parent) /\ Len(parent) \in Nat
    BY TopFacts, TypeFacts
  <1>2. FollowsText(Top, current, parent, fns)
    BY TopFollowsText
  <1>3. parent[current] = Top.entry
    BY <1>2 DEF FollowsText, TopIs
  <1> QED
    BY <1>1, <1>3 DEF PoppedScope

----------------------------------------------------------------------------
(* The call stack and the call frames. *)

CallsIn(hs, k) == {j \in 1 .. k : hs[j].kind = "call"}

LEMMA CallsCount ==
    ASSUME NEW hs, NEW k \in Nat
    PROVE  /\ IsFiniteSet(CallsIn(hs, k))
           /\ Cardinality(CallsIn(hs, k)) \in Nat
           /\ \A j \in 0 .. k : Cardinality(CallsIn(hs, j)) <= Cardinality(CallsIn(hs, k))
           /\ \A j \in CallsIn(hs, k) : Cardinality(CallsIn(hs, j)) >= 1
           /\ hs[k + 1].kind = "call" =>
                Cardinality(CallsIn(hs, k + 1)) = Cardinality(CallsIn(hs, k)) + 1
  <1>1. ASSUME NEW j \in Nat
        PROVE  IsFiniteSet(CallsIn(hs, j)) /\ Cardinality(CallsIn(hs, j)) \in Nat
    <2>1. IsFiniteSet(1 .. j)
      BY FS_Interval
    <2>2. CallsIn(hs, j) \subseteq 1 .. j
      BY DEF CallsIn
    <2> QED
      BY <2>1, <2>2, FS_Subset, FS_CardinalityType
  <1>2. ASSUME NEW j \in 0 .. k
        PROVE  Cardinality(CallsIn(hs, j)) <= Cardinality(CallsIn(hs, k))
    <2>1. CallsIn(hs, j) \subseteq CallsIn(hs, k)
      BY DEF CallsIn
    <2> QED
      BY <1>1, <2>1, FS_Subset
  <1>3. ASSUME NEW j \in CallsIn(hs, k)
        PROVE  Cardinality(CallsIn(hs, j)) >= 1
    <2>1. j \in Nat /\ j \in CallsIn(hs, j)
      BY DEF CallsIn
    <2>2. Cardinality(CallsIn(hs, j)) # 0
      BY <1>1, <2>1, FS_EmptySet
    <2> QED
      BY <1>1, <2>1, <2>2
  <1>4. ASSUME hs[k + 1].kind = "call"
        PROVE  Cardinality(CallsIn(hs, k + 1)) = Cardinality(CallsIn(hs, k)) + 1
    <2>1. CallsIn(hs, k + 1) = CallsIn(hs, k) \cup {k + 1} /\ k + 1 \notin CallsIn(hs, k)
      BY <1>4 DEF CallsIn
    <2> QED
      BY <1>1, <2>1, FS_AddElement
  <1> QED
    BY <1>1, <1>2, <1>3, <1>4

(* Frames other than calls come and go without a trace on the call stack. *)
LEMMA PlainFrames ==
    ASSUME TypeOK, TypeOK', CallsNamed, CallStackIsTrue,
           callStack' = callStack, Len(fns) <= Len(fns'),
           NEW d \in 0 .. Depth,
           d <= Len(handlers'),
           \A k \in 1 .. d : /\ handlers'[k].kind = handlers[k].kind
                             /\ handlers'[k].fn = handlers[k].fn,
           \A k \in d + 1 .. Depth : handlers[k].kind # "call",
           \A k \in d + 1 .. Len(handlers') : handlers'[k].kind # "call"
    PROVE  CallStackIsTrue' /\ CallsNamed'
  <1>1. /\ Depth \in Nat /\ Len(handlers') \in Nat /\ Depth' = Len(handlers')
        /\ Len(fns) \in Nat /\ Len(fns') \in Nat
    <2>1. /\ handlers \in Seq([kind : Kinds, entry : Scopes, trying : BOOLEAN,
                               fn : 0 .. Len(fns)])
          /\ fns \in Seq([closure : Scopes, line : 1 .. MaxLines])
      BY DEF TypeOK
    <2>2. /\ handlers' \in Seq([kind : Kinds, entry : Scopes', trying : BOOLEAN,
                                fn : 0 .. Len(fns')])
          /\ fns' \in Seq([closure : Scopes', line : 1 .. MaxLines])
      BY DEF TypeOK, Kinds
    <2>3. Len(handlers) \in Nat /\ Len(fns) \in Nat
      BY <2>1, LenProperties
    <2>4. Len(handlers') \in Nat /\ Len(fns') \in Nat
      BY <2>2, LenProperties
    <2> QED
      BY <2>3, <2>4 DEF Depth
  <1>2. CallsUpTo(Depth)' = CallsUpTo(Depth)
    BY <1>1 DEF CallsUpTo
  <1>3. \A k \in CallsUpTo(Depth) : k \in 1 .. d /\ CallsUpTo(k)' = CallsUpTo(k)
    BY <1>1 DEF CallsUpTo
  <1>4. CallStackIsTrue'
    BY <1>2, <1>3 DEF CallStackIsTrue
  <1>5. CallsNamed'
    BY <1>1 DEF CallsNamed
  <1> QED
    BY <1>4, <1>5

(* The call whose frame ends is the last of the call stack. *)
LEMMA EndedCall ==
    ASSUME TypeOK, CallStackIsTrue, TopIs("call")
    PROVE  /\ callStack # <<>>
           /\ Len(callStack) \in Nat \ {0}
           /\ Cardinality(CallsUpTo(Depth - 1)) = Len(callStack) - 1
  <1>1. Depth \in Nat \ {0} /\ handlers[Depth].kind = "call"
    BY TopFacts DEF TopIs, Top
  <1>2. PICK d \in Nat : Depth = d + 1
    <2>1. Depth - 1 \in Nat /\ Depth = (Depth - 1) + 1
      BY <1>1
    <2> QED
      BY <2>1
  <1>3. Cardinality(CallsIn(handlers, d + 1)) = Cardinality(CallsIn(handlers, d)) + 1
    BY <1>1, <1>2, CallsCount
  <1>4. Cardinality(CallsIn(handlers, d)) \in Nat
    BY CallsCount
  <1>5. Len(callStack) = Cardinality(CallsIn(handlers, d + 1))
    BY <1>2 DEF CallStackIsTrue, CallsUpTo, CallsIn
  <1>6. Cardinality(CallsUpTo(Depth - 1)) = Cardinality(CallsIn(handlers, d))
    <2>1. Depth - 1 = d
      BY <1>2
    <2> QED
      BY <2>1 DEF CallsUpTo, CallsIn
  <1> QED
    BY <1>3, <1>4, <1>5, <1>6

LEMMA CallEnds ==
    ASSUME TypeOK, TypeOK', CallsNamed, CallStackIsTrue, TopIs("call"),
           handlers' = Below, UNCHANGED fns,
           callStack' = SubSeq(callStack, 1, Len(callStack) - 1)
    PROVE  CallStackIsTrue' /\ CallsNamed'
  <1>1. /\ Depth \in Nat \ {0} /\ Depth' = Depth - 1 /\ Depth' \in Nat
        /\ \A k \in 1 .. Depth' : handlers'[k] = handlers[k]
    BY TopFacts DEF TopIs, Depth
  <1>2. /\ Len(callStack) \in Nat \ {0}
        /\ Cardinality(CallsUpTo(Depth - 1)) = Len(callStack) - 1
        /\ callStack # <<>>
    BY EndedCall
  <1>3. /\ Len(callStack') = Len(callStack) - 1
        /\ \A n \in 1 .. Len(callStack) - 1 : callStack'[n] = callStack[n]
    <2>1. callStack \in Seq(Fns)
      BY DEF TypeOK
    <2> QED
      BY <1>2, <2>1, FrontOfSeq
  <1>4. PICK d \in Nat : d = Depth'
    BY <1>1
  <1>5. \A k \in 0 .. d : CallsUpTo(k)' = CallsIn(handlers, k) /\ CallsUpTo(k) = CallsIn(handlers, k)
    BY <1>1, <1>4 DEF CallsUpTo, CallsIn
  <1>6. CallsUpTo(Depth)' = CallsIn(handlers, d) /\ CallsUpTo(Depth - 1) = CallsIn(handlers, d)
    BY <1>1, <1>4 DEF CallsUpTo, CallsIn
  <1>7. ASSUME NEW k \in CallsIn(handlers, d)
        PROVE  callStack'[Cardinality(CallsUpTo(k))'] = handlers'[k].fn
    <2>1. k \in 1 .. d /\ k \in 0 .. d /\ k \in CallsUpTo(Depth)
      BY <1>1, <1>4 DEF CallsIn, CallsUpTo
    <2>2. /\ Cardinality(CallsIn(handlers, k)) <= Cardinality(CallsIn(handlers, d))
          /\ Cardinality(CallsIn(handlers, k)) >= 1
          /\ Cardinality(CallsIn(handlers, k)) \in Nat
          /\ Cardinality(CallsIn(handlers, d)) \in Nat
      BY <2>1, CallsCount
    <2>3. Cardinality(CallsIn(handlers, k)) \in 1 .. Len(callStack) - 1
      BY <1>2, <1>6, <2>2
    <2>4. callStack[Cardinality(CallsIn(handlers, k))] = handlers[k].fn
      BY <1>5, <2>1 DEF CallStackIsTrue
    <2>5. Cardinality(CallsUpTo(k))' = Cardinality(CallsIn(handlers, k))
      BY <1>5, <2>1
    <2> QED
      BY <1>1, <1>3, <1>4, <2>1, <2>3, <2>4, <2>5
  <1>8. CallStackIsTrue'
    BY <1>2, <1>3, <1>6, <1>7 DEF CallStackIsTrue
  <1>9. CallsNamed'
    BY <1>1 DEF CallsNamed
  <1> QED
    BY <1>8, <1>9

(* A call adds its frame and its entry; the body's block adds none. *)
LEMMA CallStarts ==
    ASSUME TypeOK, TypeOK', CallsNamed, CallStackIsTrue, UNCHANGED fns,
           NEW f \in 1 .. Len(fns),
           callStack' = Append(callStack, f),
           Len(handlers') = Depth + 2,
           \A k \in 1 .. Depth : handlers'[k] = handlers[k],
           handlers'[Depth + 1].kind = "call",
           handlers'[Depth + 1].fn = f,
           handlers'[Depth + 2].kind = "block"
    PROVE  CallStackIsTrue' /\ CallsNamed'
  <1>1. Depth \in Nat /\ Depth' = Depth + 2
    BY TypeFacts DEF Depth
  <1>2. PICK d \in Nat : d = Depth
    BY <1>1
  <1>3. /\ CallsUpTo(Depth)' = CallsIn(handlers', d + 1)
        /\ d + 1 \in CallsIn(handlers', d + 1)
        /\ CallsIn(handlers', d) = CallsUpTo(Depth)
    <2>1. d + 1 # d + 2 /\ \A k \in 1 .. d + 2 : k \in 1 .. d \/ k = d + 1 \/ k = d + 2
      BY <1>2
    <2> QED
      BY <1>1, <1>2, <2>1 DEF CallsUpTo, CallsIn
  <1>4. /\ callStack \in Seq(Fns) /\ Len(callStack) \in Nat
        /\ f \in Fns
    <2>1. f \in Fns
      BY TypeFacts
    <2>2. callStack \in Seq(Fns)
      BY DEF TypeOK
    <2> QED
      BY <2>1, <2>2
  <1>5. /\ Len(callStack') = Len(callStack) + 1
        /\ \A n \in 1 .. Len(callStack) : callStack'[n] = callStack[n]
        /\ callStack'[Len(callStack) + 1] = f
    BY <1>4, AppendProperties
  <1>6. /\ Cardinality(CallsIn(handlers', d)) = Len(callStack)
        /\ Cardinality(CallsIn(handlers', d + 1)) = Len(callStack) + 1
    BY <1>2, <1>3, CallsCount DEF CallStackIsTrue
  <1>7. ASSUME NEW k \in CallsIn(handlers', d + 1)
        PROVE  callStack'[Cardinality(CallsUpTo(k))'] = handlers'[k].fn
    <2>1. Cardinality(CallsUpTo(k))' = Cardinality(CallsIn(handlers', k))
      BY DEF CallsUpTo, CallsIn
    <2>2. CASE k = d + 1
      BY <1>2, <1>5, <1>6, <2>1, <2>2
    <2>3. CASE k \in 1 .. d
      <3>1. k \in CallsIn(handlers', d) /\ k \in CallsUpTo(Depth)
        BY <1>3, <2>3 DEF CallsIn
      <3>2. CallsIn(handlers', k) = CallsUpTo(k)
        BY <1>2, <2>3 DEF CallsIn, CallsUpTo
      <3>3. callStack[Cardinality(CallsIn(handlers', k))] = handlers[k].fn
        BY <3>1, <3>2 DEF CallStackIsTrue
      <3>4. /\ Cardinality(CallsIn(handlers', k)) <= Cardinality(CallsIn(handlers', d))
            /\ Cardinality(CallsIn(handlers', k)) >= 1
            /\ Cardinality(CallsIn(handlers', k)) \in Nat
        BY <2>3, <3>1, CallsCount
      <3>5. Cardinality(CallsIn(handlers', k)) \in 1 .. Len(callStack)
        BY <1>4, <1>6, <3>4
      <3> QED
        BY <1>2, <1>5, <2>1, <2>3, <3>3, <3>5
    <2>4. k \in 1 .. d + 1
      BY DEF CallsIn
    <2> QED
      BY <2>2, <2>3, <2>4, OneMore
  <1>8. CallStackIsTrue'
    BY <1>3, <1>5, <1>6, <1>7 DEF CallStackIsTrue
  <1>9. CallsNamed'
    <2>1. \A k \in 1 .. d + 2 : k \in 1 .. d \/ k = d + 1 \/ k = d + 2
      BY <1>2
    <2> QED
      BY <1>1, <1>2, <2>1 DEF CallsNamed
  <1> QED
    BY <1>8, <1>9

----------------------------------------------------------------------------
(* The inductive invariant, and its preservation action by action. *)

IInv ==
    /\ TypeOK
    /\ CallsNamed
    /\ ScopesFollowText
    /\ CallStackIsTrue

(* Steps that touch neither frames nor scopes. *)
LEMMA QuietStep ==
    ASSUME IInv, TypeOK', UNCHANGED <<current, parent, handlers, callStack>>,
           Len(fns) <= Len(fns'),
           \A f \in 1 .. Len(fns) : fns'[f] = fns[f]
    PROVE  IInv'
  <1>1. /\ Depth \in Nat /\ Len(handlers') = Depth
        /\ TypeOK /\ CallsNamed /\ ScopesFollowText /\ CallStackIsTrue
    BY TypeFacts DEF IInv, Depth
  <1>2. PICK d \in 0 .. Depth : d = Depth
    BY <1>1
  <1>3. Inside(d)' = Inside(d)
    BY <1>1, <1>2 DEF Inside, Depth
  <1>4. /\ \A k \in 1 .. d : handlers'[k] = handlers[k]
        /\ ~ \E k \in d + 1 .. Depth : TRUE
        /\ \A s \in 1 .. Len(parent) : parent'[s] = parent[s]
    BY <1>1, <1>2
  <1>5. ScopesFollowText'
    BY <1>1, <1>2, <1>3, <1>4, TextStep
  <1>6. CallStackIsTrue' /\ CallsNamed'
    BY <1>1, <1>2, <1>4, PlainFrames
  <1> QED
    BY <1>5, <1>6 DEF IInv

(* A frame other than a call's ends. *)
LEMMA PlainPop ==
    ASSUME IInv, handlers # <<>>, Top.kind # "call",
           handlers' = Below, current' = Top.entry,
           UNCHANGED <<parent, fns, callStack, line, status, target>>,
           signal' \in Signals \cup {"none"}
    PROVE  IInv'
  <1>1. /\ Depth \in Nat \ {0} /\ Top.entry \in 1 .. Len(parent)
        /\ Below \in Seq(FrameSet(Len(parent), Len(fns)))
        /\ Len(Below) = Depth - 1
        /\ \A k \in 1 .. Depth - 1 : Below[k] = handlers[k]
        /\ TypeOK /\ CallsNamed /\ ScopesFollowText /\ CallStackIsTrue
    BY TopFacts DEF IInv
  <1>2. TypeOK'
    <2>1. /\ line \in 1 .. MaxLines /\ target \in Nat
          /\ status \in {"running", "done", "crashed", "aborted", "undefined"}
      BY <1>1 DEF TypeOK
    <2> QED
      BY <1>1, <2>1, TypeKept
  <1>3. ScopesFollowText'
    BY <1>1, <1>2, PopText
  <1>4. CallStackIsTrue' /\ CallsNamed'
    <2>1. PICK d \in 0 .. Depth : d = Depth - 1
      BY <1>1
    <2>2. /\ d <= Len(handlers')
          /\ \A k \in 1 .. d : handlers'[k].kind = handlers[k].kind /\ handlers'[k].fn = handlers[k].fn
          /\ \A k \in d + 1 .. Depth : handlers[k].kind # "call"
          /\ \A k \in d + 1 .. Len(handlers') : handlers'[k].kind # "call"
      <3>1. \A k \in d + 1 .. Depth : k = Depth
        BY <1>1, <2>1
      <3> QED
        BY <1>1, <2>1, <3>1 DEF Top
    <2>3. Len(fns) <= Len(fns')
      BY <1>1, TypeFacts
    <2> QED
      BY <1>1, <1>2, <2>2, <2>3, PlainFrames
  <1> QED
    BY <1>2, <1>3, <1>4 DEF IInv

(* A loop's iteration is over, and the loop goes on. *)
TopIsNotTrying == handlers' = SetTrying(FALSE)

LEMMA LoopsBack ==
    ASSUME IInv, handlers # <<>>, Top.kind \in {"while", "for"},
           TopIsNotTrying, current' = Top.entry,
           UNCHANGED <<parent, fns, callStack, line, status, target>>,
           signal' \in Signals \cup {"none"}
    PROVE  IInv'
  <1>1. TypeOK /\ CallsNamed /\ ScopesFollowText /\ CallStackIsTrue
    BY DEF IInv
  <1>2. Depth \in Nat \ {0} /\ Top.entry \in 1 .. Len(parent)
    BY <1>1, TopFacts
  <1>3. PICK hs : hs = handlers'
    OBVIOUS
  <1>4. hs = SetTrying(FALSE)
    BY <1>3, Zenon DEF TopIsNotTrying
  <1>5. /\ hs \in Seq(FrameSet(Len(parent), Len(fns)))
        /\ Len(hs) = Depth
        /\ \A k \in 1 .. Depth - 1 : hs[k] = handlers[k]
        /\ hs[Depth].kind = Top.kind
        /\ hs[Depth].entry = Top.entry
        /\ ~hs[Depth].trying
    BY <1>1, <1>4, SetTryingFacts, Zenon
  <1>6. /\ Depth \in Nat \ {0} /\ Top.entry \in 1 .. Len(parent)
        /\ handlers' \in Seq(FrameSet(Len(parent), Len(fns)))
        /\ Len(handlers') = Depth
        /\ \A k \in 1 .. Depth - 1 : handlers'[k] = handlers[k]
        /\ handlers'[Depth].kind = Top.kind
        /\ handlers'[Depth].entry = Top.entry
        /\ TypeOK /\ CallsNamed /\ ScopesFollowText /\ CallStackIsTrue
    BY <1>1, <1>2, <1>3, <1>5
  <1>7. ~handlers'[Depth].trying
    BY <1>3, <1>5, Zenon
  <1>8. TypeOK'
    <2>1. /\ line \in 1 .. MaxLines /\ target \in Nat
          /\ status \in {"running", "done", "crashed", "aborted", "undefined"}
      BY <1>6 DEF TypeOK
    <2> QED
      BY <1>6, <2>1, TypeKept
  <1>9. PICK d \in 0 .. Depth : d = Depth - 1
    BY <1>6
  <1>10. Inside(d)' = Inside(d)
    <2>1. d # Depth /\ d + 1 = Depth /\ Len(handlers') = Depth
      BY <1>6, <1>9
    <2> QED
      BY <1>6, <2>1 DEF Inside, Depth, Top
  <1>11. /\ d <= Len(handlers')
         /\ \A k \in 1 .. d : handlers'[k] = handlers[k]
         /\ Len(handlers') = Depth
    BY <1>6, <1>9
  <1>12. d + 1 .. Depth = {Depth}
    BY <1>6, <1>9
  <1>13. \A k \in d + 1 .. Len(handlers') :
            FollowsText(handlers'[k], Inside(k)', parent', fns')
    <2> SUFFICES ASSUME NEW k \in d + 1 .. Len(handlers')
                 PROVE  FollowsText(handlers'[k], Inside(k)', parent', fns')
      OBVIOUS
    <2>1. k = Depth /\ k = Len(handlers')
      <3>1. k \in d + 1 .. Depth
        BY <1>6, <1>11
      <3> QED
        BY <1>11, <1>12, <3>1, Zenon
    <2>2. Inside(k)' = Top.entry
      BY <2>1 DEF Inside, Depth
    <2>3. handlers'[k].kind = Top.kind /\ handlers'[k].entry = Top.entry
      BY <1>6, <2>1
    <2>4. ~handlers'[k].trying
      BY <1>7, <2>1, Zenon
    <2> QED
      BY <2>2, <2>3, <2>4 DEF FollowsText
  <1>14. ScopesFollowText'
    BY <1>6, <1>8, <1>10, <1>11, <1>13, TextStep
  <1>15. CallStackIsTrue' /\ CallsNamed'
    <2>1. \A k \in d + 1 .. Depth : handlers[k].kind # "call" /\ handlers'[k].kind # "call"
      <3>1. handlers[Depth].kind # "call" /\ handlers'[Depth].kind # "call"
        BY <1>6 DEF Top
      <3> QED
        BY <1>12, <3>1, Zenon
    <2>2. Len(fns) <= Len(fns')
      BY <1>6, TypeFacts
    <2> QED
      BY <1>6, <1>8, <1>11, <2>1, <2>2, PlainFrames
  <1> QED
    BY <1>8, <1>14, <1>15 DEF IInv

(* A call ends, one way or another. *)
LEMMA CallPop ==
    ASSUME IInv, TopIs("call"),
           handlers' = Below, current' = Top.entry,
           callStack' = SubSeq(callStack, 1, Len(callStack) - 1),
           UNCHANGED <<parent, fns, line, status, target>>,
           signal' \in Signals \cup {"none"}
    PROVE  IInv'
  <1>1. TypeOK /\ CallsNamed /\ ScopesFollowText /\ CallStackIsTrue /\ handlers # <<>>
    BY DEF IInv, TopIs
  <1>2. Top.entry \in 1 .. Len(parent) /\ Below \in Seq(FrameSet(Len(parent), Len(fns)))
    BY <1>1, TopFacts
  <1>3. callStack # <<>>
    BY <1>1, EndedCall
  <1>4. TypeOK'
    <2>1. /\ line \in 1 .. MaxLines /\ target \in Nat
          /\ status \in {"running", "done", "crashed", "aborted", "undefined"}
      BY <1>1 DEF TypeOK
    <2> QED
      BY <1>1, <1>2, <1>3, <2>1, TypeKept
  <1>5. ScopesFollowText'
    BY <1>1, <1>4, PopText
  <1>6. CallStackIsTrue' /\ CallsNamed'
    BY <1>1, <1>4, CallEnds
  <1> QED
    BY <1>4, <1>5, <1>6 DEF IInv

(* A frame other than a call's is added, or two of a call. *)
LEMMA PlainPush ==
    ASSUME IInv, TypeOK', Len(handlers') = Depth + 1,
           \A k \in 1 .. Depth : handlers'[k] = handlers[k],
           NEW h, handlers'[Depth + 1] = h,
           h.kind # "call", h.entry = current,
           FollowsText(h, current', parent', fns'),
           \A s \in 1 .. Len(parent) : parent'[s] = parent[s],
           UNCHANGED <<fns, callStack>>
    PROVE  IInv'
  <1>1. /\ Depth \in Nat
        /\ TypeOK /\ CallsNamed /\ ScopesFollowText /\ CallStackIsTrue
    BY TypeFacts DEF IInv
  <1>2. PICK d \in 0 .. Depth : d = Depth
    BY <1>1
  <1>3. d <= Len(handlers') /\ d + 1 .. Len(handlers') = {d + 1} /\ d + 1 .. Depth = {}
    BY <1>1, <1>2
  <1>4. Inside(d)' = Inside(d)
    <2>1. d # Len(handlers')
      BY <1>1, <1>2
    <2> QED
      BY <1>2, <2>1 DEF Inside, Depth
  <1>5. FollowsText(handlers'[d + 1], Inside(d + 1)', parent', fns')
    <2>1. d + 1 = Len(handlers')
      BY <1>1, <1>2
    <2>2. Inside(d + 1)' = current'
      BY <2>1 DEF Inside, Depth
    <2> QED
      BY <1>2, <2>2
  <1>6. ScopesFollowText'
    <2>1. \A k \in d + 1 .. Len(handlers') :
            FollowsText(handlers'[k], Inside(k)', parent', fns')
      BY <1>3, <1>5, Zenon
    <2>2. /\ d <= Len(handlers')
          /\ \A k \in 1 .. d : handlers'[k] = handlers[k]
          /\ \A f \in 1 .. Len(fns) : fns'[f] = fns[f]
      BY <1>2, <1>3
    <2> QED
      BY <1>1, <1>4, <2>1, <2>2, TextStep
  <1>7. CallStackIsTrue' /\ CallsNamed'
    <2>1. \A k \in d + 1 .. Len(handlers') : handlers'[k].kind # "call"
      BY <1>2, <1>3
    <2>2. Len(fns) <= Len(fns') /\ \A k \in d + 1 .. Depth : handlers[k].kind # "call"
      <3>1. Len(fns) \in Nat /\ fns' = fns
        BY <1>1, TypeFacts
      <3> QED
        BY <1>3, <3>1
    <2>3. \A k \in 1 .. d : /\ handlers'[k].kind = handlers[k].kind
                            /\ handlers'[k].fn = handlers[k].fn
      BY <1>2
    <2>4. d <= Len(handlers') /\ callStack' = callStack
      BY <1>3
    <2> QED
      BY <1>1, <2>1, <2>2, <2>3, <2>4, PlainFrames
  <1> QED
    BY <1>6, <1>7 DEF IInv

LEMMA EnterLoopStep ==
    ASSUME IInv, NEW kind \in {"while", "for"}, EnterLoop(kind)
    PROVE  IInv' /\ Len(handlers') > Depth
  <1> DEFINE h == Frame(kind, current, FALSE, 0)
  <1>1. /\ TypeOK
        /\ handlers' = Append(handlers, h)
        /\ UNCHANGED <<current, parent, callStack, signal, fns, line, status, target>>
    BY DEF IInv, EnterLoop
  <1>2. /\ Len(parent) \in Nat /\ Len(fns) \in Nat /\ current \in 1 .. Len(parent)
        /\ handlers \in Seq(FrameSet(Len(parent), Len(fns)))
        /\ Len(handlers) = Depth
    BY <1>1, TypeFacts DEF Depth
  <1>3. kind \in Kinds /\ 0 \in 0 .. Len(fns) /\ FALSE \in BOOLEAN
    BY <1>2 DEF Kinds
  <1>4. /\ handlers' \in Seq(FrameSet(Len(parent), Len(fns)))
        /\ Len(handlers') = Depth + 1
        /\ \A k \in 1 .. Depth : handlers'[k] = handlers[k]
        /\ handlers'[Depth + 1] = h
    <2>1. /\ h \in FrameSet(Len(parent), Len(fns))
          /\ Append(handlers, h) \in Seq(FrameSet(Len(parent), Len(fns)))
          /\ Len(Append(handlers, h)) = Len(handlers) + 1
          /\ \A k \in 1 .. Len(handlers) : Append(handlers, h)[k] = handlers[k]
          /\ Append(handlers, h)[Len(handlers) + 1] = h
      BY <1>2, <1>3, AppendFrameFacts, Zenon
    <2> QED
      BY <1>1, <1>2, <2>1, Zenon
  <1>5. h.kind = kind /\ h.entry = current /\ ~h.trying
    BY DEF Frame
  <1> HIDE DEF h
  <1>6. TypeOK'
    <2>1. /\ line \in 1 .. MaxLines /\ target \in Nat /\ signal \in Signals \cup {"none"}
          /\ status \in {"running", "done", "crashed", "aborted", "undefined"}
      BY <1>1 DEF TypeOK
    <2> QED
      BY <1>1, <1>2, <1>4, <2>1, TypeKept
  <1>7. FollowsText(h, current', parent', fns')
    BY <1>1, <1>5 DEF FollowsText
  <1>8. Len(handlers') > Depth
    BY <1>2, <1>4
  <1> QED
    BY <1>1, <1>4, <1>5, <1>6, <1>7, <1>8, PlainPush

(* What TypeOK keeps when a block is pushed; the rest is the block's. *)
LEMMA PushType ==
    ASSUME TypeOK,
           parent' \in Seq(Nat),
           Len(parent') \in 1 .. MaxScopes,
           Len(parent') >= Len(parent),
           \A s \in 1 .. Len(parent') : parent'[s] < s,
           current' \in 1 .. Len(parent'),
           handlers' \in Seq(FrameSet(Len(parent'), Len(fns))),
           callStack' \in Seq(1 .. Len(fns)),
           Len(callStack') <= MaxCallDepth,
           UNCHANGED <<signal, fns, line, status, target>>
    PROVE  TypeOK'
  <1>1. Scopes = 1 .. Len(parent) /\ Len(parent) \in Nat /\ Len(parent') \in Nat
    BY TypeFacts
  <1>2. 1 .. Len(parent) \subseteq 1 .. Len(parent')
    BY <1>1
  <1>3. [closure : 1 .. Len(parent), line : 1 .. MaxLines]
            \subseteq [closure : 1 .. Len(parent'), line : 1 .. MaxLines]
    BY <1>2
  <1>4. fns \in Seq([closure : 1 .. Len(parent), line : 1 .. MaxLines])
    BY <1>1 DEF TypeOK
  <1>5. fns \in Seq([closure : 1 .. Len(parent'), line : 1 .. MaxLines])
    <2>1. PICK S, T : /\ S = [closure : 1 .. Len(parent), line : 1 .. MaxLines]
                      /\ T = [closure : 1 .. Len(parent'), line : 1 .. MaxLines]
      BY Zenon
    <2>2. S \subseteq T
      BY <1>3, <2>1, Zenon
    <2>3. PICK g : g = fns
      BY Zenon
    <2>4. g \in Seq(S)
      BY <1>4, <2>1, <2>3, Zenon
    <2>5. g \in Seq(T)
      BY <2>2, <2>4, SeqSubset, Zenon
    <2> QED
      BY <2>1, <2>3, <2>5, Zenon
  <1>6. /\ line \in 1 .. MaxLines /\ target \in Nat /\ signal \in Signals \cup {"none"}
        /\ status \in {"running", "done", "crashed", "aborted", "undefined"}
        /\ Len(fns) <= MaxFns
    BY DEF TypeOK
  <1> QED
    BY <1>5, <1>6, TypeNext

LEMMA MoreTypeFacts ==
    ASSUME TypeOK
    PROVE  /\ \A s \in 1 .. Len(parent) : parent[s] < s
           /\ callStack \in Seq(1 .. Len(fns)) /\ Len(callStack) <= MaxCallDepth
           /\ \A f \in 1 .. Len(fns) : fns[f].closure \in 1 .. Len(parent)
  <1>1. Scopes = 1 .. Len(parent) /\ Fns = 1 .. Len(fns)
    BY TypeFacts
  <1>2. /\ \A s \in 1 .. Len(parent) : parent[s] < s
        /\ callStack \in Seq(1 .. Len(fns)) /\ Len(callStack) <= MaxCallDepth
        /\ fns \in Seq([closure : 1 .. Len(parent), line : 1 .. MaxLines])
    BY <1>1 DEF TypeOK
  <1>3. ASSUME NEW f \in 1 .. Len(fns)
        PROVE  fns[f].closure \in 1 .. Len(parent)
    <2>1. fns[f] \in [closure : 1 .. Len(parent), line : 1 .. MaxLines]
      BY <1>2, SeqElement
    <2> QED
      BY <2>1
  <1> QED
    BY <1>2, <1>3

LEMMA EnterBlockStep ==
    ASSUME IInv, EnterBlock
    PROVE  IInv' /\ Len(handlers') > Depth
  <1>1. TypeOK
    BY DEF IInv
  <1>2. /\ Len(parent) < MaxScopes
        /\ parent' = Append(parent, current)
        /\ current' = Len(parent) + 1
        /\ handlers' = Append(handlers, Block(current))
    BY DEF EnterBlock, PushBlock
  <1>3. UNCHANGED <<callStack, signal, fns, line, status, target>>
    BY DEF EnterBlock
  <1>4. /\ Len(fns) \in Nat /\ current \in 1 .. Len(parent) /\ parent \in Seq(Nat)
        /\ Len(parent) \in Nat
        /\ handlers \in Seq(FrameSet(Len(parent), Len(fns)))
        /\ Len(handlers) = Depth
        /\ \A s \in 1 .. Len(parent) : parent[s] < s
        /\ callStack \in Seq(1 .. Len(fns)) /\ Len(callStack) <= MaxCallDepth
    BY <1>1, TypeFacts, MoreTypeFacts DEF Depth
  <1>5. /\ parent' \in Seq(Nat)
        /\ Len(parent') = Len(parent) + 1
        /\ Len(parent') \in 1 .. MaxScopes
        /\ \A s \in 1 .. Len(parent') : parent'[s] < s
        /\ \A s \in 1 .. Len(parent) : parent'[s] = parent[s]
        /\ current' \in 1 .. Len(parent')
        /\ parent'[current'] = current
        /\ handlers' \in Seq(FrameSet(Len(parent'), Len(fns)))
        /\ Len(handlers') = Len(handlers) + 1
        /\ \A k \in 1 .. Len(handlers) : handlers'[k] = handlers[k]
        /\ handlers'[Len(handlers) + 1] = Block(current)
    <2>1. PICK hs, ps, base, m : hs = handlers /\ ps = parent /\ base = current /\ m = Len(fns)
      OBVIOUS
    <2>2. /\ ps \in Seq(Nat) /\ base \in 1 .. Len(ps) /\ m \in Nat
          /\ hs \in Seq(FrameSet(Len(ps), m))
          /\ \A s \in 1 .. Len(ps) : ps[s] < s
      BY <1>4, <2>1
    <2>3. PushBlock(hs, ps, base)
      BY <1>2, <2>1 DEF PushBlock
    <2>4. /\ parent' \in Seq(Nat)
          /\ Len(parent') = Len(ps) + 1
          /\ Len(parent') \in 1 .. MaxScopes
          /\ \A s \in 1 .. Len(parent') : parent'[s] < s
          /\ \A s \in 1 .. Len(ps) : parent'[s] = ps[s]
          /\ current' = Len(ps) + 1
          /\ current' \in 1 .. Len(parent')
          /\ parent'[current'] = base
          /\ handlers' \in Seq(FrameSet(Len(parent'), m))
          /\ Len(handlers') = Len(hs) + 1
          /\ \A k \in 1 .. Len(hs) : handlers'[k] = hs[k]
          /\ handlers'[Len(hs) + 1] = Block(base)
      <3>1. BlockPushed(ps, base, m, hs)
        BY <2>2, <2>3, PushBlockFacts
      <3> QED
        BY <3>1 DEF BlockPushed
    <2> QED
      BY <2>1, <2>4
  <1>6. TypeOK'
    <2>1. /\ Len(parent') >= Len(parent)
          /\ callStack' \in Seq(1 .. Len(fns)) /\ Len(callStack') <= MaxCallDepth
          /\ UNCHANGED <<signal, fns, line, status, target>>
      BY <1>3, <1>4, <1>5
    <2> QED
      BY <1>1, <1>5, <2>1, PushType
  <1>7. Block(current).kind = "block" /\ Block(current).entry = current
    BY DEF Block, Frame
  <1>8. FollowsText(Block(current), current', parent', fns')
    BY <1>5, <1>7 DEF FollowsText
  <1>9. Len(handlers') > Depth
    BY <1>4, <1>5
  <1> QED
    BY <1>3, <1>4, <1>5, <1>6, <1>7, <1>8, <1>9, PlainPush

(* An iteration: the loop's frame becomes g, and its body's block h is     *)
(* added.                                                                  *)
LEMMA IterationStarts ==
    ASSUME IInv, TypeOK', handlers # <<>>, Len(handlers') = Depth + 1,
           \A k \in 1 .. Depth - 1 : handlers'[k] = handlers[k],
           NEW g, handlers'[Depth] = g,
           NEW h, handlers'[Depth + 1] = h,
           Top.kind # "call", g.kind # "call", h.kind # "call",
           g.entry = Top.entry,
           FollowsText(g, h.entry, parent', fns'),
           FollowsText(h, current', parent', fns'),
           \A s \in 1 .. Len(parent) : parent'[s] = parent[s],
           UNCHANGED <<fns, callStack>>
    PROVE  IInv'
  <1>1. /\ Depth \in Nat \ {0}
        /\ TypeOK /\ CallsNamed /\ ScopesFollowText /\ CallStackIsTrue
    BY TopFacts DEF IInv
  <1>2. PICK d \in 0 .. Depth : d = Depth - 1
    BY <1>1
  <1>3. /\ d <= Len(handlers') /\ Len(handlers') = d + 2 /\ d + 1 = Depth /\ d # Depth
        /\ d + 1 .. Len(handlers') = {d + 1, d + 2} /\ d + 1 .. Depth = {d + 1}
    BY <1>1, <1>2
  <1>4. /\ handlers'[d + 1] = g /\ handlers'[d + 2] = h /\ handlers[d + 1] = Top
        /\ \A k \in 1 .. d : handlers'[k] = handlers[k]
    <2>1. d + 2 = Depth + 1
      BY <1>1, <1>2
    <2> QED
      BY <1>2, <1>3, <2>1 DEF Top
  <1>5. Inside(d)' = Inside(d)
    <2>1. d # Len(handlers')
      BY <1>2, <1>3
    <2> QED
      BY <1>3, <1>4, <2>1 DEF Inside, Depth
  <1>6. Inside(d + 1)' = h.entry
    <2>1. d + 1 # d + 2 /\ (d + 1) + 1 = d + 2
      BY <1>2
    <2> QED
      BY <1>3, <1>4, <2>1 DEF Inside, Depth
  <1>7. Inside(d + 2)' = current'
    BY <1>3 DEF Inside, Depth
  <1>8. ScopesFollowText'
    <2>1. \A k \in d + 1 .. Len(handlers') :
            FollowsText(handlers'[k], Inside(k)', parent', fns')
      <3>1. FollowsText(handlers'[d + 1], Inside(d + 1)', parent', fns')
        BY <1>4, <1>6, Zenon
      <3>2. FollowsText(handlers'[d + 2], Inside(d + 2)', parent', fns')
        BY <1>4, <1>7, Zenon
      <3> QED
        BY <1>3, <3>1, <3>2, Zenon
    <2> QED
      BY <1>1, <1>2, <1>3, <1>4, <1>5, <2>1, TextStep
  <1>9. CallStackIsTrue' /\ CallsNamed'
    <2>1. \A k \in d + 1 .. Len(handlers') : handlers'[k].kind # "call"
      BY <1>3, <1>4, Zenon
    <2>2. \A k \in d + 1 .. Depth : handlers[k].kind # "call"
      BY <1>3, <1>4, Zenon
    <2>3. Len(fns) <= Len(fns')
      BY <1>1, TypeFacts
    <2> QED
      BY <1>1, <1>2, <1>3, <1>4, <2>1, <2>2, <2>3, PlainFrames
  <1> QED
    BY <1>8, <1>9 DEF IInv

TopIsTrying(hs) == hs = SetTrying(TRUE)

LEMMA TryingFrames ==
    ASSUME TypeOK, handlers # <<>>, NEW hs, TopIsTrying(hs)
    PROVE  /\ hs \in Seq(FrameSet(Len(parent), Len(fns)))
           /\ Len(hs) = Depth
           /\ \A k \in 1 .. Depth - 1 : hs[k] = handlers[k]
           /\ hs[Depth].kind = Top.kind
           /\ hs[Depth].entry = Top.entry
           /\ hs[Depth].trying
  BY SetTryingFacts, Zenon DEF TopIsTrying

LEMMA WhileIterationStep ==
    ASSUME IInv, WhileIteration
    PROVE  IInv' /\ Len(handlers') > Depth
  <1>1. TypeOK /\ ScopesFollowText /\ handlers # <<>> /\ Top.kind = "while"
    BY DEF IInv, WhileIteration, TopIs
  <1>2. PICK hs, ps, base, m :
            TopIsTrying(hs) /\ ps = parent /\ base = current /\ m = Len(fns)
    BY Zenon DEF TopIsTrying
  <1>3. PushBlock(hs, ps, base)
    BY <1>2, Zenon DEF WhileIteration, PushBlock, TopIsTrying
  <1>4. UNCHANGED <<callStack, signal, fns, line, status, target>>
    BY DEF WhileIteration
  <1>5. /\ hs \in Seq(FrameSet(Len(parent), Len(fns)))
        /\ Len(hs) = Depth
        /\ \A k \in 1 .. Depth - 1 : hs[k] = handlers[k]
        /\ hs[Depth].kind = Top.kind
        /\ hs[Depth].entry = Top.entry
    BY <1>1, <1>2, TryingFrames
  <1>6. /\ ps \in Seq(Nat) /\ base \in 1 .. Len(ps) /\ m \in Nat /\ Len(ps) \in Nat
        /\ hs \in Seq(FrameSet(Len(ps), m))
        /\ \A s \in 1 .. Len(ps) : ps[s] < s
    BY <1>1, <1>2, <1>5, TypeFacts, MoreTypeFacts
  <1>7. /\ parent' \in Seq(Nat)
        /\ Len(parent') = Len(ps) + 1
        /\ Len(parent') \in 1 .. MaxScopes
        /\ \A s \in 1 .. Len(parent') : parent'[s] < s
        /\ \A s \in 1 .. Len(ps) : parent'[s] = ps[s]
        /\ current' \in 1 .. Len(parent')
        /\ parent'[current'] = base
        /\ handlers' \in Seq(FrameSet(Len(parent'), m))
        /\ Len(handlers') = Len(hs) + 1
        /\ \A k \in 1 .. Len(hs) : handlers'[k] = hs[k]
        /\ handlers'[Len(hs) + 1] = Block(base)
    <2>1. BlockPushed(ps, base, m, hs)
      BY <1>3, <1>6, PushBlockFacts
    <2> QED
      BY <2>1 DEF BlockPushed
  <1>8. TypeOK'
    <2>1. /\ Len(parent') >= Len(parent)
          /\ callStack' \in Seq(1 .. Len(fns)) /\ Len(callStack') <= MaxCallDepth
          /\ UNCHANGED <<signal, fns, line, status, target>>
      BY <1>1, <1>2, <1>4, <1>6, <1>7, MoreTypeFacts
    <2> QED
      BY <1>1, <1>2, <1>7, <2>1, PushType
  <1>9. current = Top.entry
    <2>1. FollowsText(Top, current, parent, fns)
      BY <1>1, TopFollowsText
    <2> QED
      BY <1>1, <2>1 DEF FollowsText
  <1>10. Block(base).kind = "block" /\ Block(base).entry = base
    BY DEF Block, Frame
  <1>11. FollowsText(hs[Depth], base, parent', fns')
    BY <1>1, <1>2, <1>5, <1>9 DEF FollowsText
  <1>12. FollowsText(Block(base), current', parent', fns')
    <2>1. parent'[current'] = base
      BY <1>7
    <2> QED
      BY <1>10, <2>1 DEF FollowsText
  <1>13. /\ Len(handlers') = Depth + 1
         /\ \A k \in 1 .. Depth - 1 : handlers'[k] = handlers[k]
         /\ handlers'[Depth] = hs[Depth]
         /\ handlers'[Depth + 1] = Block(base)
         /\ \A s \in 1 .. Len(parent) : parent'[s] = parent[s]
    <2>1. Depth \in Nat \ {0}
      BY <1>1, TopFacts
    <2> QED
      BY <1>2, <1>5, <1>6, <1>7, <2>1
  <1>14. Len(handlers') > Depth
    BY <1>1, <1>13, TopFacts
  <1> QED
    BY <1>1, <1>4, <1>5, <1>8, <1>14, <1>10, <1>11, <1>12, <1>13, IterationStarts

(* A scope for the variable of a for, or for a call's parameters. *)
OneMoreScope(ps, c) == ps = Append(parent, c)

LEMMA AddedScope ==
    ASSUME TypeOK, NEW c \in 1 .. Len(parent), NEW ps, OneMoreScope(ps, c)
    PROVE  /\ ps \in Seq(Nat)
           /\ Len(parent) \in Nat
           /\ Len(ps) = Len(parent) + 1
           /\ \A s \in 1 .. Len(parent) : ps[s] = parent[s]
           /\ ps[Len(parent) + 1] = c
           /\ \A s \in 1 .. Len(ps) : ps[s] < s
           /\ Seq(FrameSet(Len(parent), Len(fns))) \subseteq Seq(FrameSet(Len(ps), Len(fns)))
  <1>1. /\ parent \in Seq(Nat) /\ Len(parent) \in Nat /\ Len(fns) \in Nat /\ c \in Nat
        /\ \A s \in 1 .. Len(parent) : parent[s] < s
    BY TypeFacts, MoreTypeFacts
  <1>2. /\ ps \in Seq(Nat)
        /\ Len(ps) = Len(parent) + 1
        /\ \A s \in 1 .. Len(parent) : ps[s] = parent[s]
        /\ ps[Len(parent) + 1] = c
    BY <1>1, AppendProperties DEF OneMoreScope
  <1>3. ASSUME NEW s \in 1 .. Len(ps)
        PROVE  ps[s] < s
    <2>1. CASE s \in 1 .. Len(parent)
      BY <1>1, <1>2, <2>1
    <2>2. CASE s = Len(parent) + 1
      <3>1. c < s
        BY <1>1, <2>2
      <3> QED
        BY <1>2, <2>2, <3>1
    <2>3. s \in 1 .. Len(parent) \/ s = Len(parent) + 1
      BY <1>1, <1>2, OneMore
    <2> QED
      BY <2>1, <2>2, <2>3
  <1>4. Seq(FrameSet(Len(parent), Len(fns))) \subseteq Seq(FrameSet(Len(ps), Len(fns)))
    <2>1. Len(ps) \in Nat /\ Len(parent) <= Len(ps) /\ Len(fns) <= Len(fns)
      BY <1>1, <1>2
    <2> QED
      BY <1>1, <2>1, FrameSetGrows
  <1> QED
    BY <1>1, <1>2, <1>3, <1>4

LEMMA ForIterationStep ==
    ASSUME IInv, ForIteration
    PROVE  IInv' /\ Len(handlers') > Depth
  <1>1. TypeOK /\ ScopesFollowText /\ handlers # <<>> /\ Top.kind = "for" /\ ~Top.trying
    BY Zenon DEF IInv, ForIteration, TopIs
  <1>2. PICK hs, ps, base, m :
            /\ TopIsTrying(hs) /\ ps = Append(parent, current)
            /\ base = Len(parent) + 1 /\ m = Len(fns)
    BY Zenon DEF TopIsTrying
  <1>3. PushBlock(hs, ps, base)
    BY <1>2, Zenon DEF ForIteration, PushBlock, TopIsTrying
  <1>4. UNCHANGED <<callStack, signal, fns, line, status, target>>
    BY DEF ForIteration
  <1>5. /\ hs \in Seq(FrameSet(Len(parent), Len(fns)))
        /\ Len(hs) = Depth
        /\ \A k \in 1 .. Depth - 1 : hs[k] = handlers[k]
        /\ hs[Depth].kind = Top.kind
        /\ hs[Depth].entry = Top.entry
    BY <1>1, <1>2, TryingFrames
  <1>6. hs[Depth].trying
    BY <1>1, <1>2, TryingFrames
  <1>7. /\ current \in 1 .. Len(parent) /\ Len(fns) \in Nat
    BY <1>1, TypeFacts
  <1>8. /\ ps \in Seq(Nat)
        /\ Len(parent) \in Nat
        /\ Len(ps) = Len(parent) + 1
        /\ \A s \in 1 .. Len(parent) : ps[s] = parent[s]
        /\ ps[Len(parent) + 1] = current
        /\ \A s \in 1 .. Len(ps) : ps[s] < s
        /\ Seq(FrameSet(Len(parent), Len(fns))) \subseteq Seq(FrameSet(Len(ps), Len(fns)))
    <2>1. PICK c \in 1 .. Len(parent) : c = current
      BY <1>7
    <2>2. OneMoreScope(ps, c)
      BY <1>2, <2>1 DEF OneMoreScope
    <2>3. /\ ps \in Seq(Nat)
          /\ Len(parent) \in Nat
          /\ Len(ps) = Len(parent) + 1
          /\ \A s \in 1 .. Len(parent) : ps[s] = parent[s]
          /\ ps[Len(parent) + 1] = c
          /\ \A s \in 1 .. Len(ps) : ps[s] < s
          /\ Seq(FrameSet(Len(parent), Len(fns))) \subseteq Seq(FrameSet(Len(ps), Len(fns)))
      BY <1>1, <2>1, <2>2, AddedScope
    <2> QED
      BY <2>1, <2>3
  <1>9. /\ ps \in Seq(Nat) /\ base \in 1 .. Len(ps) /\ m \in Nat /\ Len(ps) \in Nat
        /\ hs \in Seq(FrameSet(Len(ps), m))
        /\ \A s \in 1 .. Len(ps) : ps[s] < s
    <2>1. base \in 1 .. Len(ps) /\ m \in Nat /\ Len(ps) \in Nat
      BY <1>2, <1>5, <1>8
    <2>2. hs \in Seq(FrameSet(Len(ps), m))
      BY <1>2, <1>5, <1>7, <1>8
    <2> QED
      BY <1>8, <2>1, <2>2
  <1>10. /\ parent' \in Seq(Nat)
         /\ Len(parent') = Len(ps) + 1
         /\ Len(parent') \in 1 .. MaxScopes
         /\ \A s \in 1 .. Len(parent') : parent'[s] < s
         /\ \A s \in 1 .. Len(ps) : parent'[s] = ps[s]
         /\ current' \in 1 .. Len(parent')
         /\ parent'[current'] = base
         /\ handlers' \in Seq(FrameSet(Len(parent'), m))
         /\ Len(handlers') = Len(hs) + 1
         /\ \A k \in 1 .. Len(hs) : handlers'[k] = hs[k]
         /\ handlers'[Len(hs) + 1] = Block(base)
    <2>1. BlockPushed(ps, base, m, hs)
      BY <1>3, <1>9, PushBlockFacts
    <2> QED
      BY <2>1 DEF BlockPushed
  <1>11. TypeOK'
    <2>1. /\ Len(parent') >= Len(parent)
          /\ callStack' \in Seq(1 .. Len(fns)) /\ Len(callStack') <= MaxCallDepth
          /\ UNCHANGED <<signal, fns, line, status, target>>
      BY <1>1, <1>4, <1>10, <1>8, MoreTypeFacts
    <2> QED
      BY <1>1, <1>2, <1>10, <2>1, PushType
  <1>12. current = Top.entry
    <2>1. FollowsText(Top, current, parent, fns)
      BY <1>1, TopFollowsText
    <2> QED
      BY <1>1, <2>1, Zenon DEF FollowsText
  <1>13. Block(base).kind = "block" /\ Block(base).entry = base
    BY DEF Block, Frame
  <1>14. FollowsText(hs[Depth], base, parent', fns')
    <2>1. parent'[base] = Top.entry
      <3>1. base \in 1 .. Len(ps) /\ base = Len(parent) + 1
        BY <1>2, <1>9
      <3>2. parent'[base] = ps[base]
        BY <1>10, <3>1
      <3> QED
        BY <1>8, <1>12, <3>1, <3>2, Zenon
    <2>2. hs[Depth].kind = "for" /\ hs[Depth].entry = Top.entry
      BY <1>1, <1>5
    <2> QED
      BY <1>6, <2>1, <2>2 DEF FollowsText
  <1>15. FollowsText(Block(base), current', parent', fns')
    <2>1. parent'[current'] = base
      BY <1>10, Zenon
    <2> QED
      BY <1>13, <2>1 DEF FollowsText
  <1>16. /\ Len(handlers') = Depth + 1
         /\ \A k \in 1 .. Depth - 1 : handlers'[k] = handlers[k]
         /\ handlers'[Depth] = hs[Depth]
         /\ handlers'[Depth + 1] = Block(base)
         /\ \A s \in 1 .. Len(parent) : parent'[s] = parent[s]
    <2>1. Depth \in Nat \ {0}
      BY <1>1, TopFacts
    <2>2. \A s \in 1 .. Len(parent) : s \in 1 .. Len(ps)
      BY <1>8
    <2> QED
      BY <1>2, <1>5, <1>9, <1>10, <1>8, <2>1, <2>2
  <1>17. /\ Top.kind # "call" /\ hs[Depth].kind # "call" /\ Block(base).kind # "call"
         /\ Block(base).entry = base /\ hs[Depth].entry = Top.entry
    BY <1>1, <1>5, <1>13
  <1>18. Len(handlers') > Depth
    <2>1. Depth \in Nat
      BY <1>1, TypeFacts
    <2> QED
      BY <1>16, <2>1
  <1> QED
    BY <1>1, <1>4, <1>11, <1>17, <1>18, <1>14, <1>15, <1>16, IterationStarts

LEMMA CallStep ==
    ASSUME IInv, NEW f \in Fns, Call(f)
    PROVE  IInv' /\ Len(handlers') > Depth
  <1>1. TypeOK /\ CallsNamed /\ ScopesFollowText /\ CallStackIsTrue
    BY DEF IInv
  <1>2. /\ current \in 1 .. Len(parent) /\ Len(fns) \in Nat /\ f \in 1 .. Len(fns)
        /\ Len(parent) \in Nat
        /\ handlers \in Seq(FrameSet(Len(parent), Len(fns)))
        /\ Len(handlers) = Depth /\ Depth \in Nat
    BY <1>1, TypeFacts DEF Depth
  <1>3. fns[f].closure \in 1 .. Len(parent)
    BY <1>1, <1>2, MoreTypeFacts
  <1>4. PICK entry, c, ps, base, m :
            /\ entry = current /\ c = fns[f].closure
            /\ OneMoreScope(ps, c)
            /\ base = Len(parent) + 1 /\ m = Len(fns)
    BY DEF OneMoreScope
  <1>5. PICK h, hs : h = CallOf(f, entry) /\ hs = Append(handlers, h)
    OBVIOUS
  <1>6. PushBlock(hs, ps, base)
    BY <1>4, <1>5 DEF Call, PushBlock, OneMoreScope
  <1>7. /\ UNCHANGED <<signal, fns, line, status, target>>
        /\ callStack' = Append(callStack, f)
        /\ Len(callStack) < MaxCallDepth
    BY DEF Call
  <1>8. h.kind = "call" /\ h.fn = f /\ h \in FrameSet(Len(parent), Len(fns))
    <2>1. h = [kind |-> "call", entry |-> entry, trying |-> TRUE, fn |-> f]
      BY <1>5 DEF CallOf, Frame
    <2>2. entry \in 1 .. Len(parent) /\ f \in 0 .. Len(fns)
      BY <1>2, <1>4
    <2> QED
      BY <2>1, <2>2 DEF FrameSet, Kinds
  <1>9. /\ hs \in Seq(FrameSet(Len(parent), Len(fns)))
        /\ Len(hs) = Depth + 1
        /\ \A k \in 1 .. Depth : hs[k] = handlers[k]
        /\ hs[Depth + 1] = h
    BY <1>2, <1>5, <1>8, AppendProperties
  <1>10. /\ ps \in Seq(Nat)
         /\ Len(ps) = Len(parent) + 1
         /\ \A s \in 1 .. Len(parent) : ps[s] = parent[s]
         /\ ps[Len(parent) + 1] = c
         /\ \A s \in 1 .. Len(ps) : ps[s] < s
         /\ Seq(FrameSet(Len(parent), Len(fns))) \subseteq Seq(FrameSet(Len(ps), Len(fns)))
    BY <1>1, <1>3, <1>4, AddedScope
  <1>11. /\ ps \in Seq(Nat) /\ base \in 1 .. Len(ps) /\ m \in Nat /\ Len(ps) \in Nat
         /\ hs \in Seq(FrameSet(Len(ps), m))
         /\ \A s \in 1 .. Len(ps) : ps[s] < s
    BY <1>2, <1>4, <1>9, <1>10
  <1>12. /\ parent' \in Seq(Nat)
         /\ Len(parent') = Len(ps) + 1
         /\ Len(parent') \in 1 .. MaxScopes
         /\ \A s \in 1 .. Len(parent') : parent'[s] < s
         /\ \A s \in 1 .. Len(ps) : parent'[s] = ps[s]
         /\ current' \in 1 .. Len(parent')
         /\ parent'[current'] = base
         /\ handlers' \in Seq(FrameSet(Len(parent'), m))
         /\ Len(handlers') = Len(hs) + 1
         /\ \A k \in 1 .. Len(hs) : handlers'[k] = hs[k]
         /\ handlers'[Len(hs) + 1] = Block(base)
    <2>1. BlockPushed(ps, base, m, hs)
      BY <1>6, <1>11, PushBlockFacts
    <2> QED
      BY <2>1 DEF BlockPushed
  <1>13. TypeOK'
    <2>1. callStack' \in Seq(1 .. Len(fns)) /\ Len(callStack') <= MaxCallDepth
      <3>1. callStack \in Seq(1 .. Len(fns)) /\ Len(callStack) \in Nat /\ MaxCallDepth \in Nat
        BY <1>1, MoreTypeFacts, BoundsAssumption
      <3>2. callStack' \in Seq(1 .. Len(fns)) /\ Len(callStack') = Len(callStack) + 1
        BY <1>2, <1>7, <3>1, AppendProperties
      <3> QED
        BY <1>7, <3>1, <3>2
    <2>2. Len(parent') >= Len(parent) /\ UNCHANGED <<signal, fns, line, status, target>>
      BY <1>2, <1>7, <1>10, <1>12
    <2> QED
      BY <1>1, <1>4, <1>12, <2>1, <2>2, PushType
  <1>14. PICK d \in 0 .. Depth : d = Depth
    BY <1>2
  <1>15. /\ d <= Len(handlers') /\ Len(handlers') = d + 2
         /\ d + 1 .. Len(handlers') = {d + 1, d + 2} /\ d # d + 2
         /\ \A k \in 1 .. d : handlers'[k] = handlers[k]
         /\ handlers'[d + 1] = h
         /\ handlers'[d + 2] = Block(base)
    <2>1. d \in Nat /\ Len(hs) = d + 1 /\ Len(handlers') = d + 2
      BY <1>2, <1>9, <1>12, <1>14
    <2>2. d + 1 .. d + 2 = {d + 1, d + 2} /\ d # d + 2 /\ d <= d + 2
      BY <2>1
    <2>3. \A k \in 1 .. d : handlers'[k] = handlers[k]
      <3>1. \A k \in 1 .. d : k \in 1 .. Len(hs) /\ k \in 1 .. Depth
        BY <1>14, <2>1
      <3> QED
        BY <1>9, <1>12, <3>1, Zenon
    <2>4. handlers'[d + 1] = h /\ handlers'[d + 2] = Block(base)
      <3>1. d + 1 \in 1 .. Len(hs) /\ Len(hs) + 1 = d + 2 /\ d + 1 = Depth + 1
        BY <1>14, <2>1
      <3> QED
        BY <1>9, <1>12, <3>1
    <2> QED
      BY <2>1, <2>2, <2>3, <2>4
  <1>16. Block(base).kind = "block" /\ Block(base).entry = base
    BY DEF Block, Frame
  <1>17. Inside(d)' = Inside(d)
    <2>1. handlers'[d + 1].entry = current
      BY <1>4, <1>5, <1>15 DEF CallOf, Frame
    <2> QED
      BY <1>14, <1>15, <2>1 DEF Inside, Depth
  <1>18. Inside(d + 1)' = base
    <2>1. d + 1 # d + 2 /\ (d + 1) + 1 = d + 2
      BY <1>14
    <2> QED
      BY <1>15, <1>16, <2>1 DEF Inside, Depth
  <1>19. Inside(d + 2)' = current'
    BY <1>15 DEF Inside, Depth
  <1>20. FollowsText(h, base, parent', fns')
    <2>1. parent'[base] = fns'[h.fn].closure
      BY <1>4, <1>7, <1>8, <1>10, <1>11, <1>12
    <2> QED
      BY <1>8, <2>1 DEF FollowsText
  <1>21. FollowsText(Block(base), current', parent', fns')
    <2>1. parent'[current'] = base
      BY <1>12
    <2> QED
      BY <1>16, <2>1 DEF FollowsText
  <1>22. \A k \in d + 1 .. Len(handlers') :
            FollowsText(handlers'[k], Inside(k)', parent', fns')
    <2>1. FollowsText(handlers'[d + 1], Inside(d + 1)', parent', fns')
      BY <1>15, <1>18, <1>20, Zenon
    <2>2. FollowsText(handlers'[d + 2], Inside(d + 2)', parent', fns')
      BY <1>15, <1>19, <1>21, Zenon
    <2> QED
      BY <1>15, <2>1, <2>2, Zenon
  <1>23. ScopesFollowText'
    <2>1. \A s \in 1 .. Len(parent) : parent'[s] = parent[s]
      <3>1. \A s \in 1 .. Len(parent) : s \in 1 .. Len(ps)
        BY <1>2, <1>10
      <3> QED
        BY <1>10, <1>12, <3>1, Zenon
    <2>2. \A g \in 1 .. Len(fns) : fns'[g] = fns[g]
      BY <1>7
    <2> QED
      BY <1>1, <1>13, <1>14, <1>15, <1>17, <1>22, <2>1, <2>2, TextStep
  <1>24. CallStackIsTrue' /\ CallsNamed'
    <2>1. /\ Len(handlers') = Depth + 2
          /\ \A k \in 1 .. Depth : handlers'[k] = handlers[k]
          /\ handlers'[Depth + 1].kind = "call" /\ handlers'[Depth + 1].fn = f
          /\ handlers'[Depth + 2].kind = "block"
      BY <1>8, <1>14, <1>15, <1>16, Zenon
    <2> QED
      BY <1>1, <1>2, <1>7, <1>13, <2>1, CallStarts
  <1>25. Len(handlers') > Depth
    BY <1>2, <1>14, <1>15
  <1> QED
    BY <1>13, <1>23, <1>24, <1>25 DEF IInv

LEMMA CreateFunctionStep ==
    ASSUME IInv, CreateFunction
    PROVE  IInv'
  <1>1. TypeOK
    BY DEF IInv
  <1>2. /\ Len(fns) < MaxFns
        /\ fns' = Append(fns, [closure |-> current, line |-> line])
        /\ UNCHANGED <<current, parent, handlers, callStack, signal, line, status, target>>
    BY DEF CreateFunction
  <1>3. Scopes = 1 .. Len(parent) /\ Fns = 1 .. Len(fns) /\ Len(fns) \in Nat /\ Len(parent) \in Nat
    BY <1>1, TypeFacts
  <1>4. /\ fns \in Seq([closure : 1 .. Len(parent), line : 1 .. MaxLines])
        /\ current \in 1 .. Len(parent) /\ line \in 1 .. MaxLines
        /\ MaxFns \in Nat
    BY <1>1, <1>3, BoundsAssumption DEF TypeOK
  <1>5. [closure |-> current, line |-> line] \in [closure : 1 .. Len(parent), line : 1 .. MaxLines]
    BY <1>4
  <1>6. /\ fns' \in Seq([closure : 1 .. Len(parent), line : 1 .. MaxLines])
        /\ Len(fns') = Len(fns) + 1
        /\ \A f \in 1 .. Len(fns) : fns'[f] = fns[f]
    BY <1>2, <1>4, <1>5, AppendProperties
  <1>7. TypeOK'
    <2>1. handlers' \in Seq(FrameSet(Len(parent'), Len(fns')))
      BY <1>1, <1>2, <1>3, <1>6, TypeFacts, FrameSetGrows
    <2>2. callStack' \in Seq(1 .. Len(fns')) /\ Len(callStack') <= MaxCallDepth
      <3>1. callStack \in Seq(1 .. Len(fns)) /\ Len(callStack) <= MaxCallDepth
        BY <1>1, MoreTypeFacts
      <3>2. 1 .. Len(fns) \subseteq 1 .. Len(fns')
        BY <1>3, <1>6
      <3> QED
        BY <1>2, <3>1, <3>2, SeqSubset
    <2>3. /\ parent' \in Seq(Nat) /\ Len(parent') \in 1 .. MaxScopes
          /\ \A s \in 1 .. Len(parent') : parent'[s] < s
          /\ line' \in 1 .. MaxLines /\ target' \in Nat /\ signal' \in Signals \cup {"none"}
          /\ status' \in {"running", "done", "crashed", "aborted", "undefined"}
      BY <1>1, <1>2, <1>3 DEF TypeOK
    <2>4. Len(fns') <= MaxFns /\ current' \in 1 .. Len(parent')
      BY <1>2, <1>3, <1>4, <1>6
    <2>5. fns' \in Seq([closure : 1 .. Len(parent'), line : 1 .. MaxLines])
      BY <1>2, <1>6
    <2> QED
      BY <2>1, <2>2, <2>3, <2>4, <2>5, TypeNext
  <1> QED
    BY <1>2, <1>3, <1>6, <1>7, QuietStep

(* Actions that touch neither frames nor scopes. *)
LEMMA QuietActions ==
    ASSUME IInv,
           \/ BreakContinueOrReturn \/ Crash
           \/ \E f \in Fns : CallStale(f)
           \/ NextLine \/ FileCrashes \/ Terminate
    PROVE  IInv'
  <1>1. TypeOK /\ handlers \in Seq(FrameSet(Len(parent), Len(fns)))
        /\ current \in 1 .. Len(parent) /\ Depth \in Nat /\ Len(fns) \in Nat
    BY TypeFacts DEF IInv
  <1>2. /\ UNCHANGED <<current, parent, handlers, callStack, fns>>
        /\ signal' \in Signals \cup {"none"}
        /\ line' \in 1 .. MaxLines
        /\ status' \in {"running", "done", "crashed", "aborted", "undefined"}
        /\ target' \in Nat
    <2>1. /\ line \in 1 .. MaxLines /\ target \in Nat /\ signal \in Signals \cup {"none"}
          /\ status \in {"running", "done", "crashed", "aborted", "undefined"}
      BY <1>1 DEF TypeOK
    <2>2. ASSUME NEW s \in Signals, Throw(s)
          PROVE  <1>2!1 /\ <1>2!2 /\ <1>2!3 /\ <1>2!4 /\ <1>2!5
      BY <1>1, <2>1, <2>2 DEF Throw
    <2>3. CASE BreakContinueOrReturn
      BY <2>2, <2>3 DEF BreakContinueOrReturn
    <2>4. CASE Crash
      BY <2>2, <2>4 DEF Crash, Signals
    <2>5. CASE \E f \in Fns : CallStale(f)
      BY <2>1, <2>5 DEF CallStale
    <2>6. CASE NextLine
      <3>1. line' \in 1 .. MaxLines
        BY <2>1, <2>6, BoundsAssumption DEF NextLine
      <3> QED
        BY <2>1, <2>6, <3>1 DEF NextLine
    <2>7. CASE FileCrashes
      BY <2>1, <2>7 DEF FileCrashes
    <2>8. CASE Terminate
      BY <2>1, <2>8 DEF Terminate
    <2> QED
      BY <2>3, <2>4, <2>5, <2>6, <2>7, <2>8
  <1>3. TypeOK'
    BY <1>1, <1>2, TypeKept
  <1> QED
    BY <1>1, <1>2, <1>3, QuietStep

(* Every action that takes a frame off the stack gives back its scope: by  *)
(* pop_scope, by previous_scope, or because a loop is between iterations.  *)
LEMMA EndingActions ==
    ASSUME IInv,
           \/ LeaveBlock \/ LeaveLoop \/ FinishCall
           \/ UnwindBlock \/ UnwindWhile \/ BreakWhile
           \/ UnwindFor \/ BreakFor \/ UnwindCall
    PROVE  /\ handlers # <<>> /\ handlers' = Below /\ current' = Top.entry
           /\ signal' \in Signals \cup {"none"}
           /\ UNCHANGED <<parent, fns, line, status, target>>
           /\ \/ Top.kind # "call" /\ callStack' = callStack
              \/ /\ Top.kind = "call"
                 /\ callStack' = SubSeq(callStack, 1, Len(callStack) - 1)
  <1>1. TypeOK /\ ScopesFollowText /\ signal \in Signals \cup {"none"}
    BY DEF IInv, TypeOK
  <1>2. ASSUME TopIs("block") \/ (TopIs("for") /\ Top.trying)
        PROVE  PoppedScope = Top.entry
    BY <1>1, <1>2, PoppedIsEntry, Zenon DEF TopIs
  <1>3. ASSUME TopIs("while") \/ (TopIs("for") /\ ~Top.trying)
        PROVE  current = Top.entry
    BY <1>1, <1>3, TopFollowsText, Zenon DEF TopIs, FollowsText
  <1>4. CASE LeaveBlock
    BY <1>1, <1>2, <1>4 DEF LeaveBlock, TopIs
  <1>5. CASE LeaveLoop
    <2>1. current = Top.entry
      BY <1>3, <1>5, Zenon DEF LeaveLoop
    <2> QED
      BY <1>1, <1>5, <2>1 DEF LeaveLoop, TopIs
  <1>6. CASE FinishCall
    BY <1>1, <1>6 DEF FinishCall, TopIs
  <1>7. CASE UnwindBlock
    BY <1>1, <1>2, <1>7 DEF UnwindBlock, TopIs
  <1>8. CASE UnwindWhile
    BY <1>1, <1>3, <1>8 DEF UnwindWhile, TopIs
  <1>9. CASE BreakWhile
    BY <1>1, <1>3, <1>9 DEF BreakWhile, TopIs
  <1>10. CASE UnwindFor
    <2>1. PoppedScope = Top.entry
      BY <1>2, <1>10, Zenon DEF UnwindFor
    <2> QED
      BY <1>1, <1>10, <2>1 DEF UnwindFor, TopIs
  <1>11. CASE BreakFor
    <2>1. PoppedScope = Top.entry
      BY <1>2, <1>11, Zenon DEF BreakFor
    <2> QED
      BY <1>1, <1>11, <2>1 DEF BreakFor, TopIs
  <1>12. CASE UnwindCall
    BY <1>1, <1>12 DEF UnwindCall, TopIs
  <1> QED
    BY <1>4, <1>5, <1>6, <1>7, <1>8, <1>9, <1>10, <1>11, <1>12

(* A loop goes on after an iteration: at its end, or because of continue. *)
LEMMA LoopingActions ==
    ASSUME IInv,
           WhileIterationEnds \/ ForIterationEnds \/ ContinueWhile \/ ContinueFor
    PROVE  IInv' /\ Len(handlers') = Depth
  <1>1. TypeOK /\ ScopesFollowText /\ signal \in Signals \cup {"none"}
    BY DEF IInv, TypeOK
  <1>2. ASSUME TopIs("for"), Top.trying
        PROVE  PoppedScope = Top.entry
    BY <1>1, <1>2, PoppedIsEntry, Zenon DEF TopIs
  <1>3. ASSUME TopIs("while")
        PROVE  current = Top.entry
    BY <1>1, <1>3, TopFollowsText, Zenon DEF TopIs, FollowsText
  <1>4. /\ handlers # <<>> /\ Top.kind \in {"while", "for"}
        /\ TopIsNotTrying /\ current' = Top.entry
        /\ UNCHANGED <<parent, fns, callStack, line, status, target>>
        /\ signal' \in Signals \cup {"none"}
    <2>1. CASE WhileIterationEnds
      BY <1>1, <1>3, <2>1, Zenon DEF WhileIterationEnds, TopIs, TopIsNotTrying
    <2>2. CASE ForIterationEnds
      BY <1>1, <1>2, <2>2, Zenon DEF ForIterationEnds, TopIs, TopIsNotTrying
    <2>3. CASE ContinueWhile
      BY <1>1, <1>3, <2>3, Zenon DEF ContinueWhile, TopIs, TopIsNotTrying
    <2>4. CASE ContinueFor
      BY <1>1, <1>2, <2>4, Zenon DEF ContinueFor, TopIs, TopIsNotTrying
    <2> QED
      BY <2>1, <2>2, <2>3, <2>4
  <1>5. Len(handlers') = Depth
    BY <1>1, <1>4, SetTryingFacts, Zenon DEF TopIsNotTrying
  <1> QED
    BY <1>4, <1>5, LoopsBack

(* What a step does to the frames: it keeps their number or adds to them,  *)
(* or it takes the innermost, with its scope.                              *)
FramesStep ==
    \/ Len(handlers') >= Depth
    \/ handlers # <<>> /\ handlers' = Below /\ current' = Top.entry

LEMMA InvariantStep ==
    ASSUME IInv, [Next]_vars
    PROVE  IInv' /\ FramesStep
  <1>1. TypeOK /\ Depth \in Nat
    BY TypeFacts DEF IInv
  <1>2. CASE UNCHANGED vars
    <2>1. IInv'
      BY <1>2 DEF vars, IInv, TypeOK, CallsNamed, ScopesFollowText, CallStackIsTrue,
                  CallsUpTo, Inside, Depth, Scopes, Fns
    <2> QED
      BY <1>1, <1>2, <2>1 DEF vars, FramesStep, Depth
  <1>3. CASE \/ LeaveBlock \/ LeaveLoop \/ FinishCall
             \/ UnwindBlock \/ UnwindWhile \/ BreakWhile
             \/ UnwindFor \/ BreakFor \/ UnwindCall
    <2>1. /\ handlers # <<>> /\ handlers' = Below /\ current' = Top.entry
          /\ signal' \in Signals \cup {"none"}
          /\ UNCHANGED <<parent, fns, line, status, target>>
          /\ \/ Top.kind # "call" /\ callStack' = callStack
             \/ /\ Top.kind = "call"
                /\ callStack' = SubSeq(callStack, 1, Len(callStack) - 1)
      BY <1>3, EndingActions
    <2>2. CASE Top.kind # "call"
      BY <2>1, <2>2, PlainPop DEF FramesStep
    <2>3. CASE Top.kind = "call"
      BY <2>1, <2>3, CallPop DEF FramesStep, TopIs
    <2> QED
      BY <2>2, <2>3
  <1>4. CASE WhileIterationEnds \/ ForIterationEnds \/ ContinueWhile \/ ContinueFor
    BY <1>1, <1>4, LoopingActions DEF FramesStep
  <1>5. CASE \/ BreakContinueOrReturn \/ Crash
             \/ \E f \in Fns : CallStale(f)
             \/ NextLine \/ FileCrashes \/ Terminate
    <2>1. handlers' = handlers
      BY <1>5 DEF BreakContinueOrReturn, Crash, Throw, CallStale, NextLine, FileCrashes, Terminate
    <2> QED
      BY <1>1, <1>5, <2>1, QuietActions DEF FramesStep, Depth
  <1>6. CASE CreateFunction
    <2>1. handlers' = handlers
      BY <1>6 DEF CreateFunction
    <2> QED
      BY <1>1, <1>6, <2>1, CreateFunctionStep DEF FramesStep, Depth
  <1>7. ASSUME IInv' /\ Len(handlers') > Depth
        PROVE  IInv' /\ FramesStep
    <2>1. Len(handlers') \in Nat
      BY <1>7 DEF IInv, TypeOK
    <2> QED
      BY <1>1, <1>7, <2>1 DEF FramesStep
  <1>8. CASE EnterBlock
    BY <1>7, <1>8, EnterBlockStep
  <1>9. CASE EnterWhile \/ EnterFor
    BY <1>7, <1>9, EnterLoopStep DEF EnterWhile, EnterFor
  <1>10. CASE WhileIteration
    BY <1>7, <1>10, WhileIterationStep
  <1>11. CASE ForIteration
    BY <1>7, <1>11, ForIterationStep
  <1>12. CASE \E f \in Fns : Call(f)
    BY <1>7, <1>12, CallStep
  <1> QED
    BY <1>2, <1>3, <1>4, <1>5, <1>6, <1>8, <1>9, <1>10, <1>11, <1>12
       DEF Next, Execute, Unwind

LEMMA InvariantInit ==
    Init => IInv
  <1> SUFFICES ASSUME Init
               PROVE  IInv
    OBVIOUS
  <1>1. /\ current = 1 /\ parent = <<0>> /\ handlers = <<>> /\ callStack = <<>>
        /\ signal = "none" /\ fns = <<>> /\ line = 1 /\ status = "running" /\ target = 0
    BY DEF Init, Global
  <1>2. Depth = 0 /\ Len(parent) = 1 /\ parent[1] = 0 /\ Scopes = {1}
        /\ Len(fns) = 0 /\ Len(callStack) = 0
    BY <1>1 DEF Depth, Scopes
  <1>3. TypeOK
    BY <1>1, <1>2, BoundsAssumption DEF TypeOK, Fns
  <1>4. CallsNamed
    BY <1>2 DEF CallsNamed
  <1>5. ScopesFollowText
    <2>1. Inside(0) = Global
      BY <1>1, <1>2 DEF Inside, Global
    <2>2. EveryFrameFollowsText
      BY <1>2, <2>1 DEF EveryFrameFollowsText
    <2> QED
      BY <1>3, <2>2, TextParts
  <1>6. CallStackIsTrue
    <2>1. CallsUpTo(Depth) = {}
      BY <1>2 DEF CallsUpTo
    <2> QED
      BY <1>2, <2>1, FS_EmptySet DEF CallStackIsTrue
  <1> QED
    BY <1>3, <1>4, <1>5, <1>6 DEF IInv

LEMMA Invariant == Spec => []IInv
  <1>1. IInv /\ [Next]_vars => IInv'
    BY InvariantStep
  <1> QED
    BY <1>1, InvariantInit, PTL DEF Spec

----------------------------------------------------------------------------
(* The theorems. *)

(* Every variable keeps its type, the call depth its limit, and every      *)
(* scope's parent is older: looking a name up ends.                        *)
THEOREM TypeCorrect == Spec => []TypeOK
  <1>1. IInv => TypeOK
    BY DEF IInv
  <1> QED
    BY <1>1, Invariant, PTL

(* Names are looked up where the program's text says, whatever was thrown, *)
(* caught and unwound before.                                              *)
THEOREM LexicalScoping == Spec => []ScopesFollowText
  <1>1. IInv => ScopesFollowText
    BY DEF IInv
  <1> QED
    BY <1>1, Invariant, PTL

(* The call stack in a crash report is the calls in progress. *)
THEOREM CallStackIsTruthful == Spec => []CallStackIsTrue
  <1>1. IInv => CallStackIsTrue
    BY DEF IInv
  <1> QED
    BY <1>1, Invariant, PTL

(* Every block, loop and call gives back the scope it found on every way   *)
(* out of it.                                                              *)
THEOREM ScopesAreRestored == Spec => FramesRestoreScope
  <1>1. IInv /\ [Next]_vars =>
            [Len(handlers') < Depth =>
                /\ handlers' = Below
                /\ current' = Top.entry]_vars
    <2> SUFFICES ASSUME IInv, [Next]_vars, Len(handlers') < Depth
                 PROVE  handlers' = Below /\ current' = Top.entry
      OBVIOUS
    <2>1. IInv' /\ FramesStep
      BY InvariantStep
    <2>2. Depth \in Nat /\ Len(handlers') \in Nat
      BY <2>1, TypeFacts DEF IInv, TypeOK
    <2> QED
      BY <2>1, <2>2 DEF FramesStep
  <1> QED
    BY <1>1, Invariant, PTL DEF Spec, FramesRestoreScope

----------------------------------------------------------------------------
(* Where signals stop. *)

TargetIsDue == signal # "none" => InnermostStopping(signal, target)

(* A frame that does not stop the signal is unwound: its target remains. *)
LEMMA TargetKept ==
    ASSUME IInv, TargetIsDue, signal # "none", handlers # <<>>,
           ~Stops(Top, signal), handlers' = Below,
           UNCHANGED <<signal, target>>
    PROVE  TargetIsDue'
  <1>1. /\ Depth \in Nat \ {0} /\ Len(handlers') = Depth - 1
        /\ \A k \in 1 .. Depth - 1 : handlers'[k] = handlers[k]
    BY TopFacts DEF IInv
  <1>2. /\ target \in 0 .. Depth
        /\ target # 0 => Stops(handlers[target], signal)
        /\ \A j \in target + 1 .. Depth : ~Stops(handlers[j], signal)
    BY DEF TargetIsDue, InnermostStopping
  <1>3. target # Depth
    <2>1. Depth # 0
      BY <1>1
    <2> QED
      BY <1>2, <2>1, Zenon DEF Top
  <1>4. target \in 0 .. Depth - 1
    BY <1>1, <1>2, <1>3
  <1>5. target # 0 => Stops(handlers'[target], signal)
    <2>1. target # 0 => target \in 1 .. Depth - 1
      BY <1>1, <1>4
    <2> QED
      BY <1>1, <1>2, <2>1, Zenon
  <1>6. \A j \in target + 1 .. Depth - 1 : ~Stops(handlers'[j], signal)
    <2>1. \A j \in target + 1 .. Depth - 1 : j \in target + 1 .. Depth /\ j \in 1 .. Depth - 1
      BY <1>1, <1>4
    <2> QED
      BY <1>1, <1>2, <2>1, Zenon
  <1>7. InnermostStopping(signal, target)'
    BY <1>1, <1>4, <1>5, <1>6 DEF InnermostStopping, Stops, Depth
  <1> QED
    BY <1>7 DEF TargetIsDue

LEMMA TargetMet ==
    ASSUME IInv, TargetIsDue, signal # "none", handlers # <<>>, Stops(Top, signal)
    PROVE  target = Depth /\ target # 0
  <1>1. Depth \in Nat \ {0}
    BY TopFacts DEF IInv
  <1>2. target \in 0 .. Depth /\ \A j \in target + 1 .. Depth : ~Stops(handlers[j], signal)
    BY DEF TargetIsDue, InnermostStopping
  <1>3. Depth \notin target + 1 .. Depth
    BY <1>2, Zenon DEF Top
  <1> QED
    BY <1>1, <1>2, <1>3

(* A signal that ends: at its target, which ends with it or loops on. *)
LandsAtTarget ==
    signal # "none" /\ signal' # signal =>
            /\ target = Depth
            /\ signal # "crash" => target # 0
            /\ signal = "continue" => /\ TopIs("while") \/ TopIs("for")
                                      /\ Len(handlers') = Depth
            /\ signal = "return" => Len(callStack') = Len(callStack) - 1

LEMMA TargetStep ==
    ASSUME IInv, TargetIsDue, [Next]_vars
    PROVE  TargetIsDue' /\ LandsAtTarget
  <1>1. TypeOK /\ CallStackIsTrue
    BY DEF IInv
  <1>2. CASE signal = "none"
    <2>1. \/ signal' = "none"
          \/ /\ InnermostStopping(signal', target')
             /\ handlers' = handlers
      BY <1>2 DEF Next, Execute, Unwind, EnterBlock, LeaveBlock, EnterWhile, EnterFor, EnterLoop,
           WhileIteration, WhileIterationEnds, ForIteration, ForIterationEnds, LeaveLoop,
           CreateFunction, Call, CallStale, FinishCall, BreakContinueOrReturn, Crash, Throw,
           NextLine, Unwinding, UnwindBlock, UnwindWhile, BreakWhile, ContinueWhile, UnwindFor,
           BreakFor, ContinueFor, UnwindCall, FileCrashes, Terminate, vars
    <2> QED
      BY <1>2, <2>1 DEF TargetIsDue, LandsAtTarget, InnermostStopping, Depth
  <1>3. CASE signal # "none" /\ UNCHANGED <<handlers, signal, target>>
    BY <1>3 DEF TargetIsDue, LandsAtTarget, InnermostStopping, Depth
  <1>4. CASE UnwindBlock
    <2>1. ~Stops(Top, signal) /\ signal # "none" /\ handlers # <<>>
      BY <1>4 DEF UnwindBlock, Unwinding, TopIs, Stops
    <2> QED
      BY <1>4, <2>1, TargetKept DEF UnwindBlock, LandsAtTarget
  <1>5. CASE UnwindWhile
    <2>1. ~Stops(Top, signal) /\ signal # "none" /\ handlers # <<>>
      BY <1>5, Zenon DEF UnwindWhile, Unwinding, TopIs, Stops
    <2> QED
      BY <1>5, <2>1, TargetKept DEF UnwindWhile, LandsAtTarget
  <1>6. CASE UnwindFor
    <2>1. ~Stops(Top, signal) /\ signal # "none" /\ handlers # <<>>
      BY <1>6, Zenon DEF UnwindFor, Unwinding, TopIs, Stops
    <2> QED
      BY <1>6, <2>1, TargetKept DEF UnwindFor, LandsAtTarget
  <1>7. CASE BreakWhile \/ BreakFor
    <2>1. Stops(Top, signal) /\ signal = "break" /\ signal' = "none" /\ handlers # <<>>
      BY <1>7, Zenon DEF BreakWhile, BreakFor, TopIs, Stops
    <2> QED
      BY <2>1, TargetMet DEF TargetIsDue, LandsAtTarget
  <1>8. CASE ContinueWhile \/ ContinueFor
    <2>1. /\ Stops(Top, signal) /\ signal = "continue" /\ signal' = "none" /\ handlers # <<>>
          /\ TopIs("while") \/ TopIs("for")
      BY <1>8, Zenon DEF ContinueWhile, ContinueFor, TopIs, Stops
    <2>2. Len(handlers') = Depth
      BY <1>8, LoopingActions
    <2> QED
      BY <2>1, <2>2, TargetMet DEF TargetIsDue, LandsAtTarget
  <1>9. CASE UnwindCall
    <2>1. /\ signal # "none" /\ handlers # <<>> /\ TopIs("call") /\ handlers' = Below
          /\ callStack' = SubSeq(callStack, 1, Len(callStack) - 1)
      BY <1>9 DEF UnwindCall, Unwinding, TopIs
    <2>2. CASE signal = "return"
      <3>1. Stops(Top, signal) /\ signal' = "none"
        BY <1>9, <2>1, <2>2 DEF UnwindCall, TopIs, Stops
      <3>2. Len(callStack') = Len(callStack) - 1
        <4>1. callStack # <<>> /\ callStack \in Seq(Fns)
          BY <1>1, <2>1, EndedCall DEF TypeOK
        <4> QED
          BY <2>1, <4>1, FrontOfSeq
      <3> QED
        BY <2>1, <2>2, <3>1, <3>2, TargetMet DEF TargetIsDue, LandsAtTarget
    <2>3. CASE signal # "return"
      <3>1. ~Stops(Top, signal) /\ UNCHANGED <<signal, target>>
        BY <1>9, <2>1, <2>3 DEF UnwindCall, TopIs, Stops
      <3> QED
        BY <2>1, <3>1, TargetKept DEF LandsAtTarget
    <2> QED
      BY <2>2, <2>3
  <1>10. CASE signal # "none" /\ NextLine
    <2>1. signal = "crash" /\ signal' = "none" /\ Depth = 0
      BY <1>10 DEF NextLine, Depth
    <2>2. target = 0
      BY <2>1 DEF TargetIsDue, InnermostStopping
    <2> QED
      BY <2>1, <2>2 DEF TargetIsDue, LandsAtTarget
  <1>11. signal # "none" =>
            \/ UNCHANGED <<handlers, signal, target>>
            \/ UnwindBlock \/ UnwindWhile \/ UnwindFor
            \/ BreakWhile \/ BreakFor \/ ContinueWhile \/ ContinueFor
            \/ UnwindCall
            \/ signal # "none" /\ NextLine
    BY DEF Next, Execute, Unwind, Running, AtStatement, AtExpression, EnterBlock, LeaveBlock,
           EnterWhile, EnterFor, EnterLoop, WhileIteration, WhileIterationEnds, ForIteration,
           ForIterationEnds, LeaveLoop, CreateFunction, Call, CallStale, FinishCall,
           BreakContinueOrReturn, Crash, FileCrashes, Terminate, vars
  <1> QED
    BY <1>2, <1>3, <1>4, <1>5, <1>6, <1>7, <1>8, <1>9, <1>10, <1>11

(* A signal stops at the frame that was its innermost target when it was   *)
(* thrown, and a return ends exactly that one call.                        *)
THEOREM SignalsStop == Spec => SignalsStopAtTarget
  <1>1. Init => TargetIsDue
    BY DEF Init, TargetIsDue
  <1>2. IInv /\ TargetIsDue /\ [Next]_vars => TargetIsDue'
    BY TargetStep
  <1>3. IInv /\ TargetIsDue /\ [Next]_vars =>
            [signal # "none" /\ signal' # signal =>
                /\ target = Depth
                /\ signal # "crash" => target # 0
                /\ signal = "continue" => /\ TopIs("while") \/ TopIs("for")
                                          /\ Len(handlers') = Depth
                /\ signal = "return" => Len(callStack') = Len(callStack) - 1]_vars
    BY TargetStep DEF LandsAtTarget
  <1> QED
    BY <1>1, <1>2, <1>3, Invariant, PTL DEF Spec, SignalsStopAtTarget
=============================================================================
