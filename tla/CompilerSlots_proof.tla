------------------------- MODULE CompilerSlots_proof -------------------------
(***************************************************************************)
(* Proofs about CompilerSlots for programs of every size, nesting and      *)
(* number of names.  First the types, the captured slots and the loops of  *)
(* jumps; then the upvalues; at the end the layouts of the stack on which  *)
(* CompilerStack_proof builds.                                             *)
(***************************************************************************)
EXTENDS CompilerSlots, SequenceTheorems, FiniteSetTheorems, FunctionTheorems,
        WellFoundedInduction, TLAPS

----------------------------------------------------------------------------
(* Induction over the naturals, stated of a set: the provers cannot        *)
(* instantiate the theorems of the library that are about an operator.     *)

LEMMA Least ==
    ASSUME NEW T, T \subseteq Nat, T # {}
    PROVE  \E x \in T : \A y \in T : x <= y
  <1>1. IsWellFoundedOn(OpToRel(<, Nat), Nat)
    BY NatLessThanWellFounded
  <1>2. PICK x \in T : \A y \in T : ~(<<y, x>> \in OpToRel(<, Nat))
    BY <1>1, WFMin
  <1>3. \A y \in T : x \in Nat /\ y \in Nat /\ ~(y < x)
    BY <1>2 DEF OpToRel
  <1>4. \A y \in T : x <= y
    BY <1>3
  <1> QED
    BY <1>4

LEMMA UpTo ==
    ASSUME NEW lo \in Nat, NEW hi \in Nat, NEW T, lo \in T,
           \A n \in lo .. (hi - 1) : n \in T => n + 1 \in T
    PROVE  \A n \in lo .. hi : n \in T
  <1> DEFINE U == {n \in lo .. hi : n \notin T}
  <1> SUFFICES ASSUME U # {} PROVE FALSE
    OBVIOUS
  <1>1. U \subseteq Nat
    OBVIOUS
  <1>2. PICK x \in U : \A y \in U : x <= y
    <2> HIDE DEF U
    <2> QED BY <1>1, Least
  <1>3. x \in Nat /\ x > lo /\ x <= hi /\ x \notin T
    BY <1>2
  <1>4. x - 1 \in lo .. (hi - 1) /\ x - 1 \in lo .. hi /\ x - 1 + 1 = x /\ ~(x <= x - 1)
    BY <1>3
  <1>5. x - 1 \in T
    BY <1>2, <1>4
  <1> QED
    BY <1>3, <1>4, <1>5

(* The value of f at lo is base, at every further n what next makes of the *)
(* one before.                                                             *)
Recurrence(f, base, next, lo, hi) ==
    /\ f[lo] = base
    /\ \A n \in (lo + 1) .. hi : f[n] = next[n][f[n - 1]]

(* There is a function that satisfies a recurrence.                        *)
LEMMA Recursion ==
    ASSUME NEW S, NEW base \in S, NEW lo \in Nat, NEW hi \in Nat, lo <= hi,
           NEW next \in [(lo + 1) .. hi -> [S -> S]]
    PROVE  \E f \in [lo .. hi -> S] : Recurrence(f, base, next, lo, hi)
  <1> USE DEF Recurrence
  <1> DEFINE Good(f, k) == f \in [lo .. k -> S] /\ Recurrence(f, base, next, lo, k)
             T == {k \in lo .. hi : \E f : Good(f, k)}
  <1>1. lo \in T
    <2> DEFINE g == [n \in lo .. lo |-> base]
    <2>1. g \in [lo .. lo -> S] /\ g[lo] = base /\ lo \in lo .. hi
      OBVIOUS
    <2>2. \A n \in (lo + 1) .. lo : FALSE
      OBVIOUS
    <2> HIDE DEF g
    <2>3. Good(g, lo)
      BY <2>1, <2>2
    <2> QED BY <2>1, <2>3
  <1>2. ASSUME NEW k \in lo .. (hi - 1), k \in T PROVE k + 1 \in T
    <2>1. PICK f : Good(f, k)
      BY <1>2
    <2>2. k \in Nat /\ k + 1 \in (lo + 1) .. hi /\ k + 1 \in lo .. hi /\ k \in lo .. k /\ k + 1 # lo
          /\ lo \in lo .. k /\ k + 1 - 1 = k
      OBVIOUS
    <2> DEFINE v == next[k + 1][f[k]]
               g == [n \in lo .. (k + 1) |-> IF n = k + 1 THEN v ELSE f[n]]
    <2>3. v \in S
      BY <2>1, <2>2
    <2> HIDE DEF v
    <2>4. g \in [lo .. (k + 1) -> S]
      BY <2>1, <2>2, <2>3
    <2>5. g[k + 1] = v /\ \A n \in lo .. k : g[n] = f[n]
      BY <2>2
    <2> HIDE DEF g
    <2>6. \A n \in (lo + 1) .. (k + 1) : g[n] = next[n][g[n - 1]]
      <3> TAKE n \in (lo + 1) .. (k + 1)
      <3>1. CASE n = k + 1
        BY <2>2, <2>5, <3>1 DEF v
      <3>2. CASE n \in (lo + 1) .. k
        <4>1. n \in lo .. k /\ n - 1 \in lo .. k
          BY <3>2
        <4> QED BY <2>1, <2>5, <3>2, <4>1
      <3> QED BY <2>2, <3>1, <3>2
    <2>7. g[lo] = base
      BY <2>1, <2>2, <2>5
    <2>8. Good(g, k + 1)
      BY <2>4, <2>6, <2>7
    <2> HIDE DEF Good
    <2> QED BY <2>2, <2>8
  <1>3. hi \in T
    <2> HIDE DEF T
    <2>1. \A n \in lo .. hi : n \in T
      BY <1>1, <1>2, UpTo
    <2> QED BY <2>1
  <1> QED
    BY <1>3

(* The locals of a function as its parameters are declared one by one.     *)
LEMMA ParameterSteps ==
    ASSUME NEW S, AddLocal(<<>>, NoName, 1) \in S, NEW params, Len(params) \in Nat,
           \A n \in 1 .. Len(params) : \A ls \in S : AddParameter(ls, params[n]) \in S
    PROVE  \E g : /\ g[0] = AddLocal(<<>>, NoName, 1)
                  /\ \A n \in 0 .. Len(params) : g[n] \in S
                  /\ \A n \in 1 .. Len(params) : g[n] = AddParameter(g[n - 1], params[n])
                  /\ ParameterLocals(params) = g[Len(params)]
  <1>1. PICK N : N = Len(params)
    OBVIOUS
  <1>2. PICK base : base = AddLocal(<<>>, NoName, 1)
    OBVIOUS
  <1>3. PICK next : next = [n \in (0 + 1) .. N |-> [ls \in S |-> AddParameter(ls, params[n])]]
    OBVIOUS
  <1>4. N \in Nat /\ base \in S /\ \A n \in 1 .. N : \A ls \in S : AddParameter(ls, params[n]) \in S
    BY Zenon, <1>1, <1>2
  <1>5. \A n \in (0 + 1) .. N : \A ls \in S : next[n][ls] = AddParameter(ls, params[n])
    BY ONLY <1>3
  <1>6. next \in [(0 + 1) .. N -> [S -> S]]
    BY ONLY <1>3, <1>4
  <1>7. PICK h \in [0 .. N -> S] :
            h[0] = base /\ \A n \in (0 + 1) .. N : h[n] = next[n][h[n - 1]]
    <2>1. PICK lo : lo = 0
      OBVIOUS
    <2>2. lo \in Nat /\ N \in Nat /\ lo <= N /\ base \in S
      BY ONLY <1>4, <2>1
    <2>3. next \in [(lo + 1) .. N -> [S -> S]]
      BY ONLY <1>6, <2>1, Zenon
    <2>4. \E h \in [lo .. N -> S] :
              Recurrence(h, base, next, lo, N)
      BY ONLY <2>2, <2>3, Recursion
    <2> QED BY ONLY <2>1, <2>4, Zenon DEF Recurrence
  <1>8. h = [n \in 0 .. N |-> IF n = 0 THEN base ELSE AddParameter(h[n - 1], params[n])]
    <2>1. ASSUME NEW n \in 0 .. N
          PROVE  h[n] = IF n = 0 THEN base ELSE AddParameter(h[n - 1], params[n])
      <3>1. CASE n = 0
        BY ONLY <1>7, <3>1
      <3>2. CASE n # 0
        <4>1. n \in (0 + 1) .. N /\ n - 1 \in 0 .. N
          BY ONLY n \in 0 .. N, <3>2, <1>4
        <4>2. h[n] = next[n][h[n - 1]] /\ h[n - 1] \in S
          BY ONLY <1>7, <4>1, h \in [0 .. N -> S]
        <4> QED BY ONLY <1>5, <3>2, <4>1, <4>2
      <3> QED BY <3>1, <3>2
    <2> QED BY ONLY <2>1, h \in [0 .. N -> S]
  <1> DEFINE f[n \in 0 .. Len(params)] ==
                 IF n = 0 THEN AddLocal(<<>>, NoName, 1) ELSE AddParameter(f[n - 1], params[n])
  <1>9. ParameterLocals(params) = f[Len(params)]
    BY ONLY Zenon DEF ParameterLocals
  <1>10. f = [n \in 0 .. N |-> IF n = 0 THEN base ELSE AddParameter(f[n - 1], params[n])]
    BY ONLY <1>1, <1>2, <1>8, Zenon
  <1> HIDE DEF f
  <1>11. PICK g : g = f
    OBVIOUS
  <1>12. \A n \in 0 .. N : g[n] = IF n = 0 THEN base ELSE AddParameter(g[n - 1], params[n])
    <2>1. PICK G : G = [n \in 0 .. N |-> IF n = 0 THEN base ELSE AddParameter(g[n - 1], params[n])]
      OBVIOUS
    <2>2. g = G
      BY ONLY <1>10, <1>11, <2>1, Zenon
    <2>3. \A n \in 0 .. N : G[n] = IF n = 0 THEN base ELSE AddParameter(g[n - 1], params[n])
      BY ONLY <2>1
    <2> QED BY ONLY <2>2, <2>3, Zenon
  <1>13. PICK T : T = {n \in 0 .. N : g[n] \in S}
    OBVIOUS
  <1>14. 0 \in T
    BY ONLY <1>4, <1>12, <1>13
  <1>15. ASSUME NEW n \in 0 .. (N - 1), n \in T PROVE n + 1 \in T
    <2>1. n + 1 \in 1 .. N /\ n + 1 # 0 /\ n + 1 - 1 = n /\ n + 1 \in 0 .. N
      BY ONLY <1>4, n \in 0 .. (N - 1)
    <2>2. PICK m : m = n + 1
      OBVIOUS
    <2>3. m \in 0 .. N /\ m # 0 /\ m - 1 = n /\ m \in 1 .. N
      BY ONLY <2>1, <2>2
    <2>4. g[m] = AddParameter(g[n], params[m])
      BY ONLY <1>12, <2>3, Zenon
    <2>5. g[n] \in S
      BY ONLY <1>13, <1>15
    <2>6. g[n + 1] \in S
      BY ONLY <1>4, <2>2, <2>3, <2>4, <2>5, Zenon
    <2> QED BY ONLY <1>13, <2>1, <2>6
  <1>16. \A n \in 0 .. N : n \in T
    <2>1. 0 \in Nat
      OBVIOUS
    <2> QED BY ONLY <1>4, <1>14, <1>15, <2>1, UpTo
  <1>17. \A n \in 0 .. N : g[n] \in S
    BY ONLY <1>13, <1>16
  <1>18. \A n \in 1 .. N : g[n] = AddParameter(g[n - 1], params[n])
    BY ONLY <1>4, <1>12
  <1>19. g[0] = base /\ ParameterLocals(params) = g[N]
    <2>1. 0 \in 0 .. N
      BY ONLY <1>4
    <2>2. g[0] = base
      BY ONLY <1>12, <2>1
    <2>3. ParameterLocals(params) = g[N]
      BY Zenon, <1>1, <1>9, <1>11
    <2> QED BY ONLY <2>2, <2>3
  <1> QED
    BY <1>1, <1>2, <1>17, <1>18, <1>19

(* What is true of the locals of a function as its parameters are declared *)
(* is true of them at the start of its body.                               *)
LEMMA ParameterLocalsIn ==
    ASSUME NEW S, AddLocal(<<>>, NoName, 1) \in S, NEW params, Len(params) \in Nat,
           \A n \in 1 .. Len(params) : \A ls \in S : AddParameter(ls, params[n]) \in S
    PROVE  ParameterLocals(params) \in S
  <1>1. Len(params) \in 0 .. Len(params)
    OBVIOUS
  <1> QED
    BY <1>1, ParameterSteps

----------------------------------------------------------------------------
(* Contexts: what the tasks still to do rely on, at each place among them. *)
(* depth and saved are the scope depths of the function being compiled and *)
(* of those around it, loops the functions whose loops loop_stack_ holds,  *)
(* pending the jumps not patched yet and chain the `else if`s to come;     *)
(* looped says that the code of the innermost loop has gone back to its    *)
(* start, which the rest of the compile_ function of that loop undoes.     *)
LoopsInside(levels, saves) == \A i \in 1 .. Len(levels) : levels[i] <= Len(saves)

Contexts ==
    {c \in [depth : Nat, saved : Seq(Nat), loops : Seq(Nat), looped : BOOLEAN,
            pending : Nat, chain : Nat] : LoopsInside(c.loops, c.saved)}

InLoop(c) == c.loops # <<>> /\ c.loops[Len(c.loops)] = Len(c.saved)

(* Tasks that leave the context as it is; those of the second kind become  *)
(* other tasks, which none does while a loop is being completed.           *)
Plain == {"emit", "get", "set", "getUpvalue", "setUpvalue", "declare", "mark", "declareFn",
          "return", "break", "continue"}
Composite == {"statements", "expr", "block", "for", "assign", "getMatch"}
Named == {"declare", "declareFn", "for", "assign"}

KeepsScopes(a, b) == b.depth = a.depth /\ b.saved = a.saved
KeepsLoops(a, b) == b.loops = a.loops /\ b.looped = a.looped
KeepsPlace(a, b) == KeepsScopes(a, b) /\ KeepsLoops(a, b)
KeepsCounts(a, b) == b.pending = a.pending /\ b.chain = a.chain

(* Task t, with names from ns, takes the context a to b.                   *)
Leads(ns, t, a, b) ==
    /\ t.do \in Named => t.name \in ns \cup {"$match"}
    /\ \/ t.do \in Plain /\ b = a
       \/ t.do \in Composite /\ ~a.looped /\ b = a
       \/ /\ t.do = "elseIf" /\ ~a.looped
          /\ KeepsPlace(a, b) /\ b.pending = a.pending /\ a.chain = b.chain + 1
       \/ /\ t.do \in {"jump", "jumpIfFalse"}
          /\ KeepsPlace(a, b) /\ b.pending = a.pending + 1 /\ b.chain = a.chain
       \/ /\ t.do = "patch" /\ t.nth \in 1 .. a.pending
          /\ KeepsPlace(a, b) /\ b.pending = a.pending - 1 /\ b.chain = a.chain
       \/ /\ t.do = "begin"
          /\ b.depth = a.depth + 1 /\ b.saved = a.saved /\ KeepsLoops(a, b) /\ KeepsCounts(a, b)
       \/ /\ t.do = "end" /\ a.depth = b.depth + 1
          /\ b.saved = a.saved /\ KeepsLoops(a, b) /\ KeepsCounts(a, b)
       \/ /\ t.do = "leaveFunction" /\ a.saved = Append(b.saved, b.depth)
          /\ KeepsLoops(a, b) /\ KeepsCounts(a, b)
       \/ /\ t.do = "pushLoop" /\ b.loops = Append(a.loops, Len(a.saved))
          /\ b.looped = a.looped /\ KeepsScopes(a, b) /\ KeepsCounts(a, b)
       \/ /\ t.do = "loop"
          /\ InLoop(a)
          /\ b.looped = a.looped \/ b.looped
          /\ b.loops = a.loops /\ KeepsScopes(a, b) /\ KeepsCounts(a, b)
       \/ /\ t.do = "endLoop" /\ a.looped /\ ~b.looped
          /\ a.loops = Append(b.loops, Len(a.saved))
          /\ KeepsScopes(a, b) /\ KeepsCounts(a, b)

IsSequence(s) == \E T : s \in Seq(T)

(* f gives the context at every place of ts, from a to b.                  *)
Annotates(f, ns, ts, a, b) ==
    /\ f \in [1 .. Len(ts) + 1 -> Contexts]
    /\ f[1] = a /\ f[Len(ts) + 1] = b
    /\ \A i \in 1 .. Len(ts) : Leads(ns, ts[i], f[i], f[i + 1])

Typed(ns, ts, a, b) == IsSequence(ts) /\ \E f : Annotates(f, ns, ts, a, b)

LEMMA SequenceFacts ==
    ASSUME NEW s, IsSequence(s)
    PROVE  /\ Len(s) \in Nat /\ DOMAIN s = 1 .. Len(s)
           /\ s # <<>> <=> Len(s) > 0
           /\ s # <<>> => /\ IsSequence(Tail(s)) /\ Len(Tail(s)) = Len(s) - 1 /\ Head(s) = s[1]
                          /\ \A i \in 1 .. Len(s) - 1 : Tail(s)[i] = s[i + 1]
  <1>1. PICK T : s \in Seq(T)
    BY DEF IsSequence
  <1>2. Len(s) \in Nat /\ DOMAIN s = 1 .. Len(s) /\ (s # <<>> <=> Len(s) > 0)
    BY <1>1
  <1>3. ASSUME s # <<>>
        PROVE  /\ Tail(s) \in Seq(T) /\ Len(Tail(s)) = Len(s) - 1 /\ Head(s) = s[1]
               /\ \A i \in 1 .. Len(s) - 1 : Tail(s)[i] = s[i + 1]
    BY <1>1, <1>3, HeadTailProperties
  <1> QED
    BY <1>2, <1>3 DEF IsSequence

LEMMA ConcatFacts ==
    ASSUME NEW s, NEW t, IsSequence(s), IsSequence(t)
    PROVE  /\ IsSequence(s \o t) /\ Len(s \o t) = Len(s) + Len(t)
           /\ \A i \in 1 .. Len(s) : (s \o t)[i] = s[i]
           /\ \A i \in 1 .. Len(t) : (s \o t)[Len(s) + i] = t[i]
  <1>1. PICK S : s \in Seq(S)
    BY DEF IsSequence
  <1>2. PICK T : t \in Seq(T)
    BY DEF IsSequence
  <1>3. s \in Seq(S \cup T) /\ t \in Seq(S \cup T)
    BY <1>1, <1>2
  <1>4. s \o t \in Seq(S \cup T) /\ Len(s \o t) = Len(s) + Len(t)
    BY <1>3
  <1>5. \A i \in 1 .. Len(s) : (s \o t)[i] = s[i]
    BY <1>3
  <1>6. \A i \in 1 .. Len(t) : (s \o t)[Len(s) + i] = t[i]
    BY <1>3
  <1> QED
    BY <1>4, <1>5, <1>6 DEF IsSequence

LEMMA TypedNone ==
    ASSUME NEW ns, NEW c \in Contexts
    PROVE  Typed(ns, <<>>, c, c)
  <1>1. <<>> \in Seq({}) /\ Annotates([i \in 1 .. 1 |-> c], ns, <<>>, c, c)
    BY DEF Annotates
  <1> QED
    BY <1>1 DEF Typed, IsSequence

LEMMA TypedFlat ==
    ASSUME NEW ns, NEW c \in Contexts, NEW ts, IsSequence(ts),
           \A i \in 1 .. Len(ts) : Leads(ns, ts[i], c, c)
    PROVE  Typed(ns, ts, c, c)
  <1> DEFINE f == [i \in 1 .. Len(ts) + 1 |-> c]
  <1>1. Len(ts) \in Nat
    BY SequenceFacts
  <1>2. f \in [1 .. Len(ts) + 1 -> Contexts] /\ f[1] = c /\ f[Len(ts) + 1] = c
    BY <1>1
  <1>3. \A i \in 1 .. Len(ts) : f[i] = c /\ f[i + 1] = c
    BY <1>1
  <1> HIDE DEF f
  <1>4. Annotates(f, ns, ts, c, c)
    BY <1>2, <1>3 DEF Annotates
  <1> QED
    BY <1>4 DEF Typed

LEMMA TypedConcat ==
    ASSUME NEW ns, NEW s, NEW t, NEW a, NEW b, NEW c, Typed(ns, s, a, b), Typed(ns, t, b, c)
    PROVE  Typed(ns, s \o t, a, c)
  <1>1. PICK f : Annotates(f, ns, s, a, b)
    BY DEF Typed
  <1>2. PICK g : Annotates(g, ns, t, b, c)
    BY DEF Typed
  <1>3. PICK m : m = Len(s)
    OBVIOUS
  <1>4. PICK n : n = Len(t)
    OBVIOUS
  <1>5. PICK u : u = s \o t
    OBVIOUS
  <1>6. /\ m \in Nat /\ n \in Nat /\ IsSequence(u) /\ Len(u) = m + n
        /\ \A i \in 1 .. m : u[i] = s[i]
        /\ \A i \in 1 .. n : u[m + i] = t[i]
    BY <1>3, <1>4, <1>5, ConcatFacts, SequenceFacts DEF Typed
  <1>7. /\ f \in [1 .. m + 1 -> Contexts] /\ f[1] = a /\ f[m + 1] = b
        /\ \A i \in 1 .. m : Leads(ns, s[i], f[i], f[i + 1])
    BY <1>1, <1>3 DEF Annotates
  <1>8. /\ g \in [1 .. n + 1 -> Contexts] /\ g[1] = b /\ g[n + 1] = c
        /\ \A i \in 1 .. n : Leads(ns, t[i], g[i], g[i + 1])
    BY <1>2, <1>4 DEF Annotates
  <1>9. PICK h : h = [i \in 1 .. (m + n) + 1 |-> IF i <= m THEN f[i] ELSE g[i - m]]
    OBVIOUS
  <1>10. h \in [1 .. (m + n) + 1 -> Contexts]
    <2>1. \A i \in 1 .. (m + n) + 1 : i <= m => i \in 1 .. m + 1
      BY ONLY <1>6
    <2>2. \A i \in 1 .. (m + n) + 1 : ~(i <= m) => i - m \in 1 .. n + 1
      BY ONLY <1>6
    <2> QED BY ONLY <1>7, <1>8, <1>9, <2>1, <2>2
  <1>11. \A i \in 1 .. m + 1 : h[i] = f[i]
    <2>1. \A i \in 1 .. m : i \in 1 .. (m + n) + 1 /\ i <= m
      BY ONLY <1>6
    <2>2. m + 1 \in 1 .. (m + n) + 1 /\ ~(m + 1 <= m) /\ m + 1 - m = 1
      BY ONLY <1>6
    <2>3. \A i \in 1 .. m : h[i] = f[i]
      BY ONLY <1>9, <2>1
    <2>4. h[m + 1] = f[m + 1]
      <3>1. PICK k : k = m + 1
        OBVIOUS
      <3>2. k \in 1 .. (m + n) + 1 /\ ~(k <= m) /\ k - m = 1
        BY ONLY <1>6, <2>2, <3>1
      <3>3. h[k] = g[k - m]
        BY ONLY <1>9, <3>2, Zenon
      <3> QED BY ONLY <1>7, <1>8, <3>1, <3>2, <3>3, Zenon
    <2>5. \A i \in 1 .. m + 1 : i \in 1 .. m \/ i = m + 1
      BY ONLY <1>6
    <2> QED BY ONLY <2>3, <2>4, <2>5
  <1>12. \A i \in 1 .. n + 1 : h[m + i] = g[i]
    <2>1. \A i \in 1 .. n + 1 : m + i \in 1 .. (m + n) + 1 /\ ~(m + i <= m) /\ m + i - m = i
      BY ONLY <1>6
    <2> TAKE i \in 1 .. n + 1
    <2>2. PICK k : k = m + i
      OBVIOUS
    <2>3. k \in 1 .. (m + n) + 1 /\ ~(k <= m) /\ k - m = i
      BY ONLY <1>6, <2>1, <2>2, i \in 1 .. n + 1
    <2>4. h[k] = g[k - m]
      BY ONLY <1>9, <2>3, Zenon
    <2> QED BY ONLY <2>2, <2>3, <2>4, Zenon
  <1>13. \A i \in 1 .. m + n : Leads(ns, u[i], h[i], h[i + 1])
    <2> TAKE i \in 1 .. m + n
    <2>1. CASE i <= m
      <3>1. i \in 1 .. m /\ i \in 1 .. m + 1 /\ i + 1 \in 1 .. m + 1
        BY <1>6, <2>1
      <3>2. u[i] = s[i] /\ h[i] = f[i] /\ h[i + 1] = f[i + 1]
        BY ONLY <1>6, <1>11, <3>1
      <3> QED BY <1>7, <3>1, <3>2
    <2>2. CASE ~(i <= m)
      <3>1. PICK j \in 1 .. n : i = m + j
        <4>1. i - m \in 1 .. n /\ i = m + (i - m)
          BY <1>6, <2>2
        <4> QED BY ONLY <4>1, Zenon
      <3>2. j \in 1 .. n + 1 /\ j + 1 \in 1 .. n + 1 /\ i + 1 = m + (j + 1)
        BY <1>6, <3>1
      <3>3. u[i] = t[j] /\ h[i] = g[j] /\ h[i + 1] = g[j + 1]
        BY ONLY <1>6, <1>12, <3>1, <3>2, Zenon
      <3> QED BY <1>8, <3>1, <3>3
    <2> QED BY <2>1, <2>2
  <1>14. h[1] = a /\ h[(m + n) + 1] = c
    <2>1. 1 \in 1 .. m + 1 /\ n + 1 \in 1 .. n + 1 /\ (m + n) + 1 = m + (n + 1)
      BY ONLY <1>6
    <2>2. h[1] = f[1] /\ h[m + (n + 1)] = g[n + 1]
      BY ONLY <1>11, <1>12, <2>1, Zenon
    <2>3. h[(m + n) + 1] = g[n + 1]
      BY ONLY <2>1, <2>2, Zenon
    <2> QED BY ONLY <1>7, <1>8, <2>2, <2>3, Zenon
  <1>15. Annotates(h, ns, u, a, c)
    BY <1>6, <1>10, <1>13, <1>14 DEF Annotates
  <1> QED
    BY <1>5, <1>6, <1>15 DEF Typed

LEMMA TypedNext ==
    ASSUME NEW ns, NEW ts, NEW a, NEW c, Typed(ns, ts, a, c), ts # <<>>
    PROVE  /\ a \in Contexts
           /\ \E b \in Contexts : Leads(ns, Head(ts), a, b) /\ Typed(ns, Tail(ts), b, c)
  <1>1. PICK f : Annotates(f, ns, ts, a, c)
    BY DEF Typed
  <1>2. PICK n : n = Len(ts)
    OBVIOUS
  <1>3. PICK u : u = Tail(ts)
    OBVIOUS
  <1>4. /\ n \in Nat /\ n > 0 /\ IsSequence(u) /\ Len(u) = n - 1 /\ Head(ts) = ts[1]
        /\ \A i \in 1 .. n - 1 : u[i] = ts[i + 1]
    BY <1>2, <1>3, SequenceFacts DEF Typed
  <1>5. /\ f \in [1 .. n + 1 -> Contexts] /\ f[1] = a /\ f[n + 1] = c
        /\ \A i \in 1 .. n : Leads(ns, ts[i], f[i], f[i + 1])
    BY <1>1, <1>2 DEF Annotates
  <1>6. PICK g : g = [i \in 1 .. n |-> f[i + 1]]
    OBVIOUS
  <1>7. \A i \in 1 .. n : g[i] = f[i + 1] /\ i + 1 \in 1 .. n + 1
    BY ONLY <1>4, <1>6
  <1>8. g \in [1 .. n -> Contexts]
    BY ONLY <1>5, <1>6, <1>7
  <1>9. \A i \in 1 .. n - 1 : Leads(ns, u[i], g[i], g[i + 1])
    <2> TAKE i \in 1 .. n - 1
    <2>1. i \in 1 .. n /\ i + 1 \in 1 .. n
      BY <1>4
    <2>2. g[i] = f[i + 1] /\ g[i + 1] = f[(i + 1) + 1] /\ u[i] = ts[i + 1]
      BY ONLY <1>4, <1>7, <2>1, i \in 1 .. n - 1
    <2> QED BY <1>5, <2>1, <2>2
  <1>10. 1 \in 1 .. n /\ n \in 1 .. n /\ 1 \in 1 .. n + 1 /\ (n - 1) + 1 = n /\ 1 + 1 \in 1 .. n + 1
    BY ONLY <1>4
  <1>11. g[1] = f[1 + 1] /\ g[n] = c
    BY ONLY <1>5, <1>7, <1>10
  <1>12. Annotates(g, ns, u, f[1 + 1], c)
    BY <1>4, <1>8, <1>9, <1>10, <1>11 DEF Annotates
  <1>13. Leads(ns, Head(ts), a, f[1 + 1]) /\ f[1 + 1] \in Contexts /\ a \in Contexts
    BY ONLY <1>4, <1>5, <1>10
  <1>14. Typed(ns, Tail(ts), f[1 + 1], c)
    BY <1>3, <1>4, <1>12 DEF Typed
  <1> QED
    BY <1>13, <1>14

----------------------------------------------------------------------------
(* The tasks that the compile_ functions leave.                            *)
Context(depths, saves, levels, l, p, e) ==
    [depth |-> depths, saved |-> saves, loops |-> levels, looped |-> l, pending |-> p, chain |-> e]

LEMMA ContextFields ==
    ASSUME NEW c \in Contexts
    PROVE  /\ c.depth \in Nat /\ c.saved \in Seq(Nat) /\ c.loops \in Seq(Nat)
           /\ c.looped \in BOOLEAN /\ c.pending \in Nat /\ c.chain \in Nat
           /\ LoopsInside(c.loops, c.saved)
  BY DEF Contexts

(* The context with one more jump to patch.                                *)
OneMore(c) == Context(c.depth, c.saved, c.loops, c.looped, c.pending + 1, c.chain)

LEMMA OneMoreContext ==
    ASSUME NEW c \in Contexts
    PROVE  /\ OneMore(c) \in Contexts
           /\ OneMore(c).depth = c.depth /\ OneMore(c).saved = c.saved
           /\ OneMore(c).loops = c.loops /\ OneMore(c).looped = c.looped
           /\ OneMore(c).pending = c.pending + 1 /\ OneMore(c).chain = c.chain
  <1>1. /\ c.depth \in Nat /\ c.saved \in Seq(Nat) /\ c.loops \in Seq(Nat)
        /\ c.looped \in BOOLEAN /\ c.pending \in Nat /\ c.chain \in Nat
        /\ LoopsInside(c.loops, c.saved)
    BY ContextFields
  <1>2. /\ c.depth \in Nat /\ c.saved \in Seq(Nat) /\ c.loops \in Seq(Nat)
        /\ c.looped \in BOOLEAN /\ c.pending + 1 \in Nat /\ c.chain \in Nat
    BY ONLY <1>1
  <1>3. LoopsInside(c.loops, c.saved)
    BY ONLY <1>1
  <1> QED
    BY ONLY <1>2, <1>3 DEF OneMore, Context, Contexts

(* In a scope of its own.                                                  *)
Deeper(c) == Context(c.depth + 1, c.saved, c.loops, c.looped, c.pending, c.chain)

LEMMA DeeperContext ==
    ASSUME NEW c \in Contexts
    PROVE  /\ Deeper(c) \in Contexts
           /\ Deeper(c).depth = c.depth + 1 /\ Deeper(c).saved = c.saved
           /\ Deeper(c).loops = c.loops /\ Deeper(c).looped = c.looped
           /\ Deeper(c).pending = c.pending /\ Deeper(c).chain = c.chain
  <1>1. /\ c.depth \in Nat /\ c.saved \in Seq(Nat) /\ c.loops \in Seq(Nat)
        /\ c.looped \in BOOLEAN /\ c.pending \in Nat /\ c.chain \in Nat
        /\ LoopsInside(c.loops, c.saved)
    BY ContextFields
  <1>2. /\ c.depth + 1 \in Nat /\ c.saved \in Seq(Nat) /\ c.loops \in Seq(Nat)
        /\ c.looped \in BOOLEAN /\ c.pending \in Nat /\ c.chain \in Nat
    BY ONLY <1>1
  <1>3. LoopsInside(c.loops, c.saved)
    BY ONLY <1>1
  <1> QED
    BY ONLY <1>2, <1>3 DEF Deeper, Context, Contexts

(* With one more `else if` to come.                                        *)
ElseIf(c) == Context(c.depth, c.saved, c.loops, c.looped, c.pending, c.chain + 1)

LEMMA ElseIfContext ==
    ASSUME NEW c \in Contexts
    PROVE  /\ ElseIf(c) \in Contexts
           /\ ElseIf(c).depth = c.depth /\ ElseIf(c).saved = c.saved
           /\ ElseIf(c).loops = c.loops /\ ElseIf(c).looped = c.looped
           /\ ElseIf(c).pending = c.pending /\ ElseIf(c).chain = c.chain + 1
  <1>1. /\ c.depth \in Nat /\ c.saved \in Seq(Nat) /\ c.loops \in Seq(Nat)
        /\ c.looped \in BOOLEAN /\ c.pending \in Nat /\ c.chain \in Nat
        /\ LoopsInside(c.loops, c.saved)
    BY ContextFields
  <1>2. /\ c.depth \in Nat /\ c.saved \in Seq(Nat) /\ c.loops \in Seq(Nat)
        /\ c.looped \in BOOLEAN /\ c.pending \in Nat /\ c.chain + 1 \in Nat
    BY ONLY <1>1
  <1>3. LoopsInside(c.loops, c.saved)
    BY ONLY <1>1
  <1> QED
    BY ONLY <1>2, <1>3 DEF ElseIf, Context, Contexts

(* In a loop of its own.                                                   *)
InNewLoop(c) == Context(c.depth, c.saved, Append(c.loops, Len(c.saved)), c.looped, c.pending, c.chain)

LEMMA InNewLoopContext ==
    ASSUME NEW c \in Contexts
    PROVE  /\ InNewLoop(c) \in Contexts
           /\ InNewLoop(c).depth = c.depth /\ InNewLoop(c).saved = c.saved
           /\ InNewLoop(c).loops = Append(c.loops, Len(c.saved)) /\ InNewLoop(c).looped = c.looped
           /\ InNewLoop(c).pending = c.pending /\ InNewLoop(c).chain = c.chain
  <1>1. /\ c.depth \in Nat /\ c.saved \in Seq(Nat) /\ c.loops \in Seq(Nat)
        /\ c.looped \in BOOLEAN /\ c.pending \in Nat /\ c.chain \in Nat
        /\ LoopsInside(c.loops, c.saved)
    BY ContextFields
  <1>2. /\ c.depth \in Nat /\ c.saved \in Seq(Nat) /\ Append(c.loops, Len(c.saved)) \in Seq(Nat)
        /\ c.looped \in BOOLEAN /\ c.pending \in Nat /\ c.chain \in Nat
    BY ONLY <1>1
  <1>3. LoopsInside(Append(c.loops, Len(c.saved)), c.saved)
    <2>1. PICK ls \in Seq(Nat) : ls = c.loops
      BY ONLY <1>1
    <2>2. PICK n \in Nat : n = Len(c.saved)
      BY ONLY <1>1
    <2>3. \A i \in 1 .. Len(ls) : ls[i] <= n
      BY ONLY <1>1, <2>1, <2>2 DEF LoopsInside
    <2>4. \A i \in 1 .. Len(Append(ls, n)) : Append(ls, n)[i] <= n
      BY ONLY <2>3, ls \in Seq(Nat), n \in Nat
    <2> QED BY ONLY <2>1, <2>2, <2>4 DEF LoopsInside
  <1> QED
    BY ONLY <1>2, <1>3 DEF InNewLoop, Context, Contexts

(* When the code of the loop has gone back to its start.                   *)
Looping(c) == Context(c.depth, c.saved, c.loops, TRUE, c.pending, c.chain)

LEMMA LoopingContext ==
    ASSUME NEW c \in Contexts
    PROVE  /\ Looping(c) \in Contexts
           /\ Looping(c).depth = c.depth /\ Looping(c).saved = c.saved
           /\ Looping(c).loops = c.loops /\ Looping(c).looped = TRUE
           /\ Looping(c).pending = c.pending /\ Looping(c).chain = c.chain
  <1>1. /\ c.depth \in Nat /\ c.saved \in Seq(Nat) /\ c.loops \in Seq(Nat)
        /\ c.looped \in BOOLEAN /\ c.pending \in Nat /\ c.chain \in Nat
        /\ LoopsInside(c.loops, c.saved)
    BY ContextFields
  <1>2. /\ c.depth \in Nat /\ c.saved \in Seq(Nat) /\ c.loops \in Seq(Nat)
        /\ TRUE \in BOOLEAN /\ c.pending \in Nat /\ c.chain \in Nat
    BY ONLY <1>1
  <1>3. LoopsInside(c.loops, c.saved)
    BY ONLY <1>1
  <1> QED
    BY ONLY <1>2, <1>3 DEF Looping, Context, Contexts

(* In a function of its own.                                               *)
InFunction(c) == Context(1, Append(c.saved, c.depth), c.loops, c.looped, c.pending, c.chain)

LEMMA InFunctionContext ==
    ASSUME NEW c \in Contexts
    PROVE  /\ InFunction(c) \in Contexts
           /\ InFunction(c).depth = 1 /\ InFunction(c).saved = Append(c.saved, c.depth)
           /\ InFunction(c).loops = c.loops /\ InFunction(c).looped = c.looped
           /\ InFunction(c).pending = c.pending /\ InFunction(c).chain = c.chain
  <1>1. /\ c.depth \in Nat /\ c.saved \in Seq(Nat) /\ c.loops \in Seq(Nat)
        /\ c.looped \in BOOLEAN /\ c.pending \in Nat /\ c.chain \in Nat
        /\ LoopsInside(c.loops, c.saved)
    BY ContextFields
  <1>2. /\ 1 \in Nat /\ Append(c.saved, c.depth) \in Seq(Nat) /\ c.loops \in Seq(Nat)
        /\ c.looped \in BOOLEAN /\ c.pending \in Nat /\ c.chain \in Nat
    BY ONLY <1>1
  <1>3. LoopsInside(c.loops, Append(c.saved, c.depth))
    BY ONLY <1>1 DEF LoopsInside
  <1> QED
    BY ONLY <1>2, <1>3 DEF InFunction, Context, Contexts

LEMMA FlatTasks ==
    ASSUME NEW ns, NEW c, NEW t, t.do \in Plain \cup Composite, ~c.looped,
           t.do \in Named => t.name \in ns
    PROVE  Leads(ns, t, c, c)
  BY DEF Leads, Plain, Composite

LEMMA ExprsAre ==
    ASSUME NEW n \in Nat
    PROVE  /\ IsSequence(Exprs(n)) /\ Len(Exprs(n)) = n
           /\ \A i \in 1 .. n : Exprs(n)[i] = Expr
  <1>1. Exprs(n) \in Seq({Expr}) /\ Len(Exprs(n)) = n /\ \A i \in 1 .. n : Exprs(n)[i] = Expr
    BY DEF Exprs
  <1> QED
    BY <1>1 DEF IsSequence

LEMMA TypedExprs ==
    ASSUME NEW ns, NEW c \in Contexts, ~c.looped, NEW n \in Nat
    PROVE  Typed(ns, Exprs(n), c, c)
  <1>1. Leads(ns, Expr, c, c)
    BY FlatTasks DEF Expr, Do, Plain, Composite, Named
  <1> QED
    BY <1>1, ExprsAre, TypedFlat

LEMMA TypedAnd ==
    ASSUME NEW ns, NEW c \in Contexts, ~c.looped
    PROVE  Typed(ns, <<Expr, JumpIfFalse, Pop, Expr, Patch(1)>>, c, c)
  <1>1. PICK ts : ts = <<Expr, JumpIfFalse, Pop, Expr, Patch(1)>>
    OBVIOUS
  <1>2. c.depth \in Nat /\ c.saved \in Seq(Nat) /\ c.pending \in Nat /\ c.chain \in Nat
        /\ c.loops \in Seq(Nat)
    BY ContextFields
  <1>3. PICK d \in Contexts : d = OneMore(c)
    BY OneMoreContext
  <1>4. /\ d.depth = c.depth /\ d.saved = c.saved
        /\ d.loops = c.loops /\ d.looped = c.looped
        /\ d.pending = c.pending + 1 /\ d.chain = c.chain
    BY OneMoreContext, <1>3
  <1>5. Leads(ns, Expr, c, c)
    BY <1>2 DEF Leads, Expr, Do, Plain, Composite, Named, InLoop,
       KeepsPlace, KeepsScopes, KeepsLoops, KeepsCounts
  <1>6. Leads(ns, JumpIfFalse, c, d)
    BY <1>2, <1>4 DEF Leads, JumpIfFalse, Do, Plain, Composite, Named, InLoop,
       KeepsPlace, KeepsScopes, KeepsLoops, KeepsCounts
  <1>7. Leads(ns, Pop, d, d)
    BY <1>2, <1>4 DEF Leads, Pop, Emit, Plain, Composite, Named, InLoop,
       KeepsPlace, KeepsScopes, KeepsLoops, KeepsCounts
  <1>8. Leads(ns, Expr, d, d)
    BY <1>2, <1>4 DEF Leads, Expr, Do, Plain, Composite, Named, InLoop,
       KeepsPlace, KeepsScopes, KeepsLoops, KeepsCounts
  <1>9. 1 \in 1 .. d.pending /\ c.pending = d.pending - 1
    <2>1. d.pending = c.pending + 1 /\ c.pending = c.pending /\ c.pending \in Nat
      BY ONLY <1>2, <1>4, Zenon
    <2> QED BY ONLY <2>1
  <1>10. Leads(ns, Patch(1), d, c)
    BY <1>2, <1>4, <1>9 DEF Leads, Patch, Plain, Composite, Named, InLoop,
       KeepsPlace, KeepsScopes, KeepsLoops, KeepsCounts
  <1>11. IsSequence(ts)
    <2>1. ts \in Seq({Expr, JumpIfFalse, Pop, Patch(1)})
      BY <1>1
    <2> QED BY <2>1 DEF IsSequence
  <1>12. Annotates(<<c, c, d, d, d, c>>, ns, ts, c, c)
    BY <1>1, <1>10, <1>5, <1>6, <1>7, <1>8 DEF Annotates
  <1> QED
    BY <1>1, <1>11, <1>12, <1>3 DEF Typed

LEMMA TypedOr ==
    ASSUME NEW ns, NEW c \in Contexts, ~c.looped
    PROVE  Typed(ns, <<Expr, JumpIfFalse, JumpAway, Patch(2), Pop, Expr, Patch(1)>>, c, c)
  <1>1. PICK ts : ts = <<Expr, JumpIfFalse, JumpAway, Patch(2), Pop, Expr, Patch(1)>>
    OBVIOUS
  <1>2. c.depth \in Nat /\ c.saved \in Seq(Nat) /\ c.pending \in Nat /\ c.chain \in Nat
        /\ c.loops \in Seq(Nat)
    BY ContextFields
  <1>3. PICK d \in Contexts : d = OneMore(c)
    BY OneMoreContext
  <1>4. /\ d.depth = c.depth /\ d.saved = c.saved
        /\ d.loops = c.loops /\ d.looped = c.looped
        /\ d.pending = c.pending + 1 /\ d.chain = c.chain
    BY OneMoreContext, <1>3
  <1>5. PICK e \in Contexts : e = OneMore(d)
    BY OneMoreContext
  <1>6. /\ e.depth = c.depth /\ e.saved = c.saved
        /\ e.loops = c.loops /\ e.looped = c.looped
        /\ e.pending = c.pending + 1 + 1 /\ e.chain = c.chain
    BY OneMoreContext, <1>5, <1>4
  <1>7. Leads(ns, Expr, c, c)
    BY <1>2 DEF Leads, Expr, Do, Plain, Composite, Named, InLoop,
       KeepsPlace, KeepsScopes, KeepsLoops, KeepsCounts
  <1>8. Leads(ns, JumpIfFalse, c, d)
    BY <1>2, <1>4 DEF Leads, JumpIfFalse, Do, Plain, Composite, Named, InLoop,
       KeepsPlace, KeepsScopes, KeepsLoops, KeepsCounts
  <1>9. Leads(ns, JumpAway, d, e)
    BY <1>2, <1>4, <1>6 DEF Leads, JumpAway, Do, Plain, Composite, Named, InLoop,
       KeepsPlace, KeepsScopes, KeepsLoops, KeepsCounts
  <1>10. 2 \in 1 .. e.pending /\ d.pending = e.pending - 1
    <2>1. e.pending = c.pending + 1 + 1 /\ d.pending = c.pending + 1 /\ c.pending \in Nat
      BY ONLY <1>2, <1>4, <1>6, Zenon
    <2> QED BY ONLY <2>1
  <1>11. Leads(ns, Patch(2), e, d)
    BY <1>10, <1>2, <1>4, <1>6 DEF Leads, Patch, Plain, Composite, Named, InLoop,
       KeepsPlace, KeepsScopes, KeepsLoops, KeepsCounts
  <1>12. Leads(ns, Pop, d, d)
    BY <1>2, <1>4 DEF Leads, Pop, Emit, Plain, Composite, Named, InLoop,
       KeepsPlace, KeepsScopes, KeepsLoops, KeepsCounts
  <1>13. Leads(ns, Expr, d, d)
    BY <1>2, <1>4 DEF Leads, Expr, Do, Plain, Composite, Named, InLoop,
       KeepsPlace, KeepsScopes, KeepsLoops, KeepsCounts
  <1>14. 1 \in 1 .. d.pending /\ c.pending = d.pending - 1
    <2>1. d.pending = c.pending + 1 /\ c.pending = c.pending /\ c.pending \in Nat
      BY ONLY <1>2, <1>4, Zenon
    <2> QED BY ONLY <2>1
  <1>15. Leads(ns, Patch(1), d, c)
    BY <1>14, <1>2, <1>4 DEF Leads, Patch, Plain, Composite, Named, InLoop,
       KeepsPlace, KeepsScopes, KeepsLoops, KeepsCounts
  <1>16. IsSequence(ts)
    <2>1. ts \in Seq({Expr, JumpIfFalse, JumpAway, Patch(2), Pop, Patch(1)})
      BY <1>1
    <2> QED BY <2>1 DEF IsSequence
  <1>17. Annotates(<<c, c, d, e, d, d, d, c>>, ns, ts, c, c)
    BY <1>1, <1>11, <1>12, <1>13, <1>15, <1>7, <1>8, <1>9 DEF Annotates
  <1> QED
    BY <1>1, <1>16, <1>17, <1>3, <1>5 DEF Typed

LEMMA TypedIf ==
    ASSUME NEW ns, NEW c \in Contexts, ~c.looped
    PROVE  Typed(ns, <<Expr, JumpIfFalse, Pop, Block, Patch(1), Pop>>, c, c)
  <1>1. PICK ts : ts = <<Expr, JumpIfFalse, Pop, Block, Patch(1), Pop>>
    OBVIOUS
  <1>2. c.depth \in Nat /\ c.saved \in Seq(Nat) /\ c.pending \in Nat /\ c.chain \in Nat
        /\ c.loops \in Seq(Nat)
    BY ContextFields
  <1>3. PICK d \in Contexts : d = OneMore(c)
    BY OneMoreContext
  <1>4. /\ d.depth = c.depth /\ d.saved = c.saved
        /\ d.loops = c.loops /\ d.looped = c.looped
        /\ d.pending = c.pending + 1 /\ d.chain = c.chain
    BY OneMoreContext, <1>3
  <1>5. Leads(ns, Expr, c, c)
    BY <1>2 DEF Leads, Expr, Do, Plain, Composite, Named, InLoop,
       KeepsPlace, KeepsScopes, KeepsLoops, KeepsCounts
  <1>6. Leads(ns, JumpIfFalse, c, d)
    BY <1>2, <1>4 DEF Leads, JumpIfFalse, Do, Plain, Composite, Named, InLoop,
       KeepsPlace, KeepsScopes, KeepsLoops, KeepsCounts
  <1>7. Leads(ns, Pop, d, d)
    BY <1>2, <1>4 DEF Leads, Pop, Emit, Plain, Composite, Named, InLoop,
       KeepsPlace, KeepsScopes, KeepsLoops, KeepsCounts
  <1>8. Leads(ns, Block, d, d)
    BY <1>2, <1>4 DEF Leads, Block, Do, Plain, Composite, Named, InLoop,
       KeepsPlace, KeepsScopes, KeepsLoops, KeepsCounts
  <1>9. 1 \in 1 .. d.pending /\ c.pending = d.pending - 1
    <2>1. d.pending = c.pending + 1 /\ c.pending = c.pending /\ c.pending \in Nat
      BY ONLY <1>2, <1>4, Zenon
    <2> QED BY ONLY <2>1
  <1>10. Leads(ns, Patch(1), d, c)
    BY <1>2, <1>4, <1>9 DEF Leads, Patch, Plain, Composite, Named, InLoop,
       KeepsPlace, KeepsScopes, KeepsLoops, KeepsCounts
  <1>11. Leads(ns, Pop, c, c)
    BY <1>2 DEF Leads, Pop, Emit, Plain, Composite, Named, InLoop,
       KeepsPlace, KeepsScopes, KeepsLoops, KeepsCounts
  <1>12. IsSequence(ts)
    <2>1. ts \in Seq({Expr, JumpIfFalse, Pop, Block, Patch(1)})
      BY <1>1
    <2> QED BY <2>1 DEF IsSequence
  <1>13. Annotates(<<c, c, d, d, d, c, c>>, ns, ts, c, c)
    BY <1>1, <1>10, <1>11, <1>5, <1>6, <1>7, <1>8 DEF Annotates
  <1> QED
    BY <1>1, <1>12, <1>13, <1>3 DEF Typed

LEMMA TypedIfElse ==
    ASSUME NEW ns, NEW c \in Contexts, ~c.looped
    PROVE  Typed(ns, <<Expr, JumpIfFalse, Pop, Block, JumpAway, Patch(2), Pop, Block,
      Patch(1)>>, c, c)
  <1>1. PICK ts : ts = <<Expr, JumpIfFalse, Pop, Block, JumpAway, Patch(2), Pop, Block, Patch(1)>>
    OBVIOUS
  <1>2. c.depth \in Nat /\ c.saved \in Seq(Nat) /\ c.pending \in Nat /\ c.chain \in Nat
        /\ c.loops \in Seq(Nat)
    BY ContextFields
  <1>3. PICK d \in Contexts : d = OneMore(c)
    BY OneMoreContext
  <1>4. /\ d.depth = c.depth /\ d.saved = c.saved
        /\ d.loops = c.loops /\ d.looped = c.looped
        /\ d.pending = c.pending + 1 /\ d.chain = c.chain
    BY OneMoreContext, <1>3
  <1>5. PICK e \in Contexts : e = OneMore(d)
    BY OneMoreContext
  <1>6. /\ e.depth = c.depth /\ e.saved = c.saved
        /\ e.loops = c.loops /\ e.looped = c.looped
        /\ e.pending = c.pending + 1 + 1 /\ e.chain = c.chain
    BY OneMoreContext, <1>5, <1>4
  <1>7. Leads(ns, Expr, c, c)
    BY <1>2 DEF Leads, Expr, Do, Plain, Composite, Named, InLoop,
       KeepsPlace, KeepsScopes, KeepsLoops, KeepsCounts
  <1>8. Leads(ns, JumpIfFalse, c, d)
    BY <1>2, <1>4 DEF Leads, JumpIfFalse, Do, Plain, Composite, Named, InLoop,
       KeepsPlace, KeepsScopes, KeepsLoops, KeepsCounts
  <1>9. Leads(ns, Pop, d, d)
    BY <1>2, <1>4 DEF Leads, Pop, Emit, Plain, Composite, Named, InLoop,
       KeepsPlace, KeepsScopes, KeepsLoops, KeepsCounts
  <1>10. Leads(ns, Block, d, d)
    BY <1>2, <1>4 DEF Leads, Block, Do, Plain, Composite, Named, InLoop,
       KeepsPlace, KeepsScopes, KeepsLoops, KeepsCounts
  <1>11. Leads(ns, JumpAway, d, e)
    BY <1>2, <1>4, <1>6 DEF Leads, JumpAway, Do, Plain, Composite, Named, InLoop,
       KeepsPlace, KeepsScopes, KeepsLoops, KeepsCounts
  <1>12. 2 \in 1 .. e.pending /\ d.pending = e.pending - 1
    <2>1. e.pending = c.pending + 1 + 1 /\ d.pending = c.pending + 1 /\ c.pending \in Nat
      BY ONLY <1>2, <1>4, <1>6, Zenon
    <2> QED BY ONLY <2>1
  <1>13. Leads(ns, Patch(2), e, d)
    BY <1>12, <1>2, <1>4, <1>6 DEF Leads, Patch, Plain, Composite, Named, InLoop,
       KeepsPlace, KeepsScopes, KeepsLoops, KeepsCounts
  <1>14. 1 \in 1 .. d.pending /\ c.pending = d.pending - 1
    <2>1. d.pending = c.pending + 1 /\ c.pending = c.pending /\ c.pending \in Nat
      BY ONLY <1>2, <1>4, Zenon
    <2> QED BY ONLY <2>1
  <1>15. Leads(ns, Patch(1), d, c)
    BY <1>14, <1>2, <1>4 DEF Leads, Patch, Plain, Composite, Named, InLoop,
       KeepsPlace, KeepsScopes, KeepsLoops, KeepsCounts
  <1>16. IsSequence(ts)
    <2>1. ts \in Seq({Expr, JumpIfFalse, Pop, Block, JumpAway, Patch(2), Patch(1)})
      BY <1>1
    <2> QED BY <2>1 DEF IsSequence
  <1>17. Annotates(<<c, c, d, d, d, e, d, d, d, c>>, ns, ts, c, c)
    BY <1>1, <1>10, <1>11, <1>13, <1>15, <1>7, <1>8, <1>9 DEF Annotates
  <1> QED
    BY <1>1, <1>16, <1>17, <1>3, <1>5 DEF Typed

LEMMA TypedIfChain ==
    ASSUME NEW ns, NEW c \in Contexts, ~c.looped
    PROVE  Typed(ns, <<Expr, JumpIfFalse, Pop, Block, JumpAway, Patch(2), Pop,
      Do("elseIf"), Patch(1)>>, ElseIf(c), c)
  <1>1. PICK ts : ts = <<Expr, JumpIfFalse, Pop, Block, JumpAway, Patch(2), Pop, Do("elseIf"),
            Patch(1)>>
    OBVIOUS
  <1>2. c.depth \in Nat /\ c.saved \in Seq(Nat) /\ c.pending \in Nat /\ c.chain \in Nat
        /\ c.loops \in Seq(Nat)
    BY ContextFields
  <1>3. PICK d \in Contexts : d = OneMore(c)
    BY OneMoreContext
  <1>4. /\ d.depth = c.depth /\ d.saved = c.saved
        /\ d.loops = c.loops /\ d.looped = c.looped
        /\ d.pending = c.pending + 1 /\ d.chain = c.chain
    BY OneMoreContext, <1>3
  <1>5. PICK a \in Contexts : a = ElseIf(c)
    BY ElseIfContext
  <1>6. /\ a.depth = c.depth /\ a.saved = c.saved
        /\ a.loops = c.loops /\ a.looped = c.looped
        /\ a.pending = c.pending /\ a.chain = c.chain + 1
    BY ElseIfContext, <1>5
  <1>7. PICK b \in Contexts : b = OneMore(a)
    BY OneMoreContext
  <1>8. /\ b.depth = c.depth /\ b.saved = c.saved
        /\ b.loops = c.loops /\ b.looped = c.looped
        /\ b.pending = c.pending + 1 /\ b.chain = c.chain + 1
    BY OneMoreContext, <1>7, <1>6
  <1>9. PICK e \in Contexts : e = OneMore(b)
    BY OneMoreContext
  <1>10. /\ e.depth = c.depth /\ e.saved = c.saved
        /\ e.loops = c.loops /\ e.looped = c.looped
        /\ e.pending = c.pending + 1 + 1 /\ e.chain = c.chain + 1
    BY OneMoreContext, <1>9, <1>8
  <1>11. Leads(ns, Expr, a, a)
    BY <1>2, <1>6 DEF Leads, Expr, Do, Plain, Composite, Named, InLoop,
       KeepsPlace, KeepsScopes, KeepsLoops, KeepsCounts
  <1>12. Leads(ns, JumpIfFalse, a, b)
    BY <1>2, <1>6, <1>8 DEF Leads, JumpIfFalse, Do, Plain, Composite, Named, InLoop,
       KeepsPlace, KeepsScopes, KeepsLoops, KeepsCounts
  <1>13. Leads(ns, Pop, b, b)
    BY <1>2, <1>8 DEF Leads, Pop, Emit, Plain, Composite, Named, InLoop,
       KeepsPlace, KeepsScopes, KeepsLoops, KeepsCounts
  <1>14. Leads(ns, Block, b, b)
    BY <1>2, <1>8 DEF Leads, Block, Do, Plain, Composite, Named, InLoop,
       KeepsPlace, KeepsScopes, KeepsLoops, KeepsCounts
  <1>15. Leads(ns, JumpAway, b, e)
    BY <1>10, <1>2, <1>8 DEF Leads, JumpAway, Do, Plain, Composite, Named, InLoop,
       KeepsPlace, KeepsScopes, KeepsLoops, KeepsCounts
  <1>16. 2 \in 1 .. e.pending /\ b.pending = e.pending - 1
    <2>1. e.pending = c.pending + 1 + 1 /\ b.pending = c.pending + 1 /\ c.pending \in Nat
      BY ONLY <1>10, <1>2, <1>8, Zenon
    <2> QED BY ONLY <2>1
  <1>17. Leads(ns, Patch(2), e, b)
    BY <1>10, <1>16, <1>2, <1>8 DEF Leads, Patch, Plain, Composite, Named, InLoop,
       KeepsPlace, KeepsScopes, KeepsLoops, KeepsCounts
  <1>18. Leads(ns, Do("elseIf"), b, d)
    BY <1>2, <1>4, <1>8 DEF Leads, Do, Plain, Composite, Named, InLoop,
       KeepsPlace, KeepsScopes, KeepsLoops, KeepsCounts
  <1>19. 1 \in 1 .. d.pending /\ c.pending = d.pending - 1
    <2>1. d.pending = c.pending + 1 /\ c.pending = c.pending /\ c.pending \in Nat
      BY ONLY <1>2, <1>4, Zenon
    <2> QED BY ONLY <2>1
  <1>20. Leads(ns, Patch(1), d, c)
    BY <1>19, <1>2, <1>4 DEF Leads, Patch, Plain, Composite, Named, InLoop,
       KeepsPlace, KeepsScopes, KeepsLoops, KeepsCounts
  <1>21. IsSequence(ts)
    <2>1. ts \in Seq({Expr, JumpIfFalse, Pop, Block, JumpAway, Patch(2), Do("elseIf"),
      Patch(1)})
      BY <1>1
    <2> QED BY <2>1 DEF IsSequence
  <1>22. Annotates(<<a, a, b, b, b, e, b, b, d, c>>, ns, ts, a, c)
    BY <1>1, <1>11, <1>12, <1>13, <1>14, <1>15, <1>17, <1>18, <1>20 DEF Annotates
  <1> QED
    BY <1>1, <1>21, <1>22, <1>3, <1>5, <1>7, <1>9 DEF Typed

LEMMA TypedBlock ==
    ASSUME NEW ns, NEW c \in Contexts, ~c.looped
    PROVE  Typed(ns, <<Statements, Do("end")>>, Deeper(c), c)
  <1>1. PICK ts : ts = <<Statements, Do("end")>>
    OBVIOUS
  <1>2. c.depth \in Nat /\ c.saved \in Seq(Nat) /\ c.pending \in Nat /\ c.chain \in Nat
        /\ c.loops \in Seq(Nat)
    BY ContextFields
  <1>3. PICK d \in Contexts : d = Deeper(c)
    BY DeeperContext
  <1>4. /\ d.depth = c.depth + 1 /\ d.saved = c.saved
        /\ d.loops = c.loops /\ d.looped = c.looped
        /\ d.pending = c.pending /\ d.chain = c.chain
    BY DeeperContext, <1>3
  <1>5. Leads(ns, Statements, d, d)
    BY <1>2, <1>4 DEF Leads, Statements, Do, Plain, Composite, Named, InLoop,
       KeepsPlace, KeepsScopes, KeepsLoops, KeepsCounts
  <1>6. Leads(ns, Do("end"), d, c)
    BY <1>2, <1>4 DEF Leads, Do, Plain, Composite, Named, InLoop,
       KeepsPlace, KeepsScopes, KeepsLoops, KeepsCounts
  <1>7. IsSequence(ts)
    <2>1. ts \in Seq({Statements, Do("end")})
      BY <1>1
    <2> QED BY <2>1 DEF IsSequence
  <1>8. Annotates(<<d, d, c>>, ns, ts, d, c)
    BY <1>1, <1>5, <1>6 DEF Annotates
  <1> QED
    BY <1>1, <1>7, <1>8, <1>3 DEF Typed

LEMMA TypedFor ==
    ASSUME NEW ns, NEW c \in Contexts, ~c.looped,
           NEW name \in ns
    PROVE  Typed(ns, <<Expr, [do |-> "for", name |-> name], Do("end")>>, Deeper(c), c)
  <1>1. PICK ts : ts = <<Expr, [do |-> "for", name |-> name], Do("end")>>
    OBVIOUS
  <1>2. c.depth \in Nat /\ c.saved \in Seq(Nat) /\ c.pending \in Nat /\ c.chain \in Nat
        /\ c.loops \in Seq(Nat)
    BY ContextFields
  <1>3. PICK d \in Contexts : d = Deeper(c)
    BY DeeperContext
  <1>4. /\ d.depth = c.depth + 1 /\ d.saved = c.saved
        /\ d.loops = c.loops /\ d.looped = c.looped
        /\ d.pending = c.pending /\ d.chain = c.chain
    BY DeeperContext, <1>3
  <1>5. Leads(ns, Expr, d, d)
    BY <1>2, <1>4 DEF Leads, Expr, Do, Plain, Composite, Named, InLoop,
       KeepsPlace, KeepsScopes, KeepsLoops, KeepsCounts
  <1>6. Leads(ns, [do |-> "for", name |-> name], d, d)
    BY <1>2, <1>4 DEF Leads, Plain, Composite, Named, InLoop,
       KeepsPlace, KeepsScopes, KeepsLoops, KeepsCounts
  <1>7. Leads(ns, Do("end"), d, c)
    BY <1>2, <1>4 DEF Leads, Do, Plain, Composite, Named, InLoop,
       KeepsPlace, KeepsScopes, KeepsLoops, KeepsCounts
  <1>8. IsSequence(ts)
    <2>1. ts \in Seq({Expr, [do |-> "for", name |-> name], Do("end")})
      BY <1>1
    <2> QED BY <2>1 DEF IsSequence
  <1>9. Annotates(<<d, d, d, c>>, ns, ts, d, c)
    BY <1>1, <1>5, <1>6, <1>7 DEF Annotates
  <1> QED
    BY <1>1, <1>8, <1>9, <1>3 DEF Typed

LEMMA TypedWhile ==
    ASSUME NEW ns, NEW c \in Contexts, ~c.looped
    PROVE  Typed(ns, <<Expr, JumpIfFalse, Pop, Block, Do("loop"), Patch(1), Pop,
      Do("endLoop")>>, InNewLoop(c), c)
  <1>1. PICK ts : ts = <<Expr, JumpIfFalse, Pop, Block, Do("loop"), Patch(1), Pop, Do("endLoop")>>
    OBVIOUS
  <1>2. c.depth \in Nat /\ c.saved \in Seq(Nat) /\ c.pending \in Nat /\ c.chain \in Nat
        /\ c.loops \in Seq(Nat)
    BY ContextFields
  <1>3. PICK l \in Contexts : l = InNewLoop(c)
    BY InNewLoopContext
  <1>4. /\ l.depth = c.depth /\ l.saved = c.saved
        /\ l.loops = Append(c.loops, Len(c.saved)) /\ l.looped = c.looped
        /\ l.pending = c.pending /\ l.chain = c.chain
    BY InNewLoopContext, <1>3
  <1>5. PICK d \in Contexts : d = OneMore(l)
    BY OneMoreContext
  <1>6. /\ d.depth = c.depth /\ d.saved = c.saved
        /\ d.loops = Append(c.loops, Len(c.saved)) /\ d.looped = c.looped
        /\ d.pending = c.pending + 1 /\ d.chain = c.chain
    BY OneMoreContext, <1>5, <1>4
  <1>7. PICK e \in Contexts : e = Looping(d)
    BY LoopingContext
  <1>8. /\ e.depth = c.depth /\ e.saved = c.saved
        /\ e.loops = Append(c.loops, Len(c.saved)) /\ e.looped = TRUE
        /\ e.pending = c.pending + 1 /\ e.chain = c.chain
    BY LoopingContext, <1>7, <1>6
  <1>9. PICK f \in Contexts : f = Looping(l)
    BY LoopingContext
  <1>10. /\ f.depth = c.depth /\ f.saved = c.saved
        /\ f.loops = Append(c.loops, Len(c.saved)) /\ f.looped = TRUE
        /\ f.pending = c.pending /\ f.chain = c.chain
    BY LoopingContext, <1>9, <1>4
  <1>11. Leads(ns, Expr, l, l)
    BY <1>2, <1>4 DEF Leads, Expr, Do, Plain, Composite, Named, InLoop,
       KeepsPlace, KeepsScopes, KeepsLoops, KeepsCounts
  <1>12. Leads(ns, JumpIfFalse, l, d)
    BY <1>2, <1>4, <1>6 DEF Leads, JumpIfFalse, Do, Plain, Composite, Named, InLoop,
       KeepsPlace, KeepsScopes, KeepsLoops, KeepsCounts
  <1>13. Leads(ns, Pop, d, d)
    BY <1>2, <1>6 DEF Leads, Pop, Emit, Plain, Composite, Named, InLoop,
       KeepsPlace, KeepsScopes, KeepsLoops, KeepsCounts
  <1>14. Leads(ns, Block, d, d)
    BY <1>2, <1>6 DEF Leads, Block, Do, Plain, Composite, Named, InLoop,
       KeepsPlace, KeepsScopes, KeepsLoops, KeepsCounts
  <1>15. Leads(ns, Do("loop"), d, e)
    <2>1. InLoop(d)
      <3>1. Len(c.saved) \in Nat /\ c.loops \in Seq(Nat)
        BY ONLY <1>2
      <3>2. /\ Append(c.loops, Len(c.saved)) # <<>>
            /\ Append(c.loops, Len(c.saved))[Len(Append(c.loops, Len(c.saved)))] = Len(c.saved)
        BY ONLY <3>1
      <3> QED BY ONLY <1>6, <3>2, Zenon DEF InLoop
    <2> QED BY <1>2, <1>6, <1>8, <2>1 DEF Leads, Do, Plain, Composite, Named,
       KeepsPlace, KeepsScopes, KeepsLoops, KeepsCounts
  <1>16. 1 \in 1 .. e.pending /\ f.pending = e.pending - 1
    <2>1. e.pending = c.pending + 1 /\ f.pending = c.pending /\ c.pending \in Nat
      BY ONLY <1>10, <1>2, <1>8, Zenon
    <2> QED BY ONLY <2>1
  <1>17. Leads(ns, Patch(1), e, f)
    BY <1>10, <1>16, <1>2, <1>8 DEF Leads, Patch, Plain, Composite, Named, InLoop,
       KeepsPlace, KeepsScopes, KeepsLoops, KeepsCounts
  <1>18. Leads(ns, Pop, f, f)
    BY <1>10, <1>2 DEF Leads, Pop, Emit, Plain, Composite, Named, InLoop,
       KeepsPlace, KeepsScopes, KeepsLoops, KeepsCounts
  <1>19. Leads(ns, Do("endLoop"), f, c)
    BY <1>10, <1>2 DEF Leads, Do, Plain, Composite, Named, InLoop,
       KeepsPlace, KeepsScopes, KeepsLoops, KeepsCounts
  <1>20. IsSequence(ts)
    <2>1. ts \in Seq({Expr, JumpIfFalse, Pop, Block, Do("loop"), Patch(1), Do("endLoop")})
      BY <1>1
    <2> QED BY <2>1 DEF IsSequence
  <1>21. Annotates(<<l, l, d, d, d, e, f, f, c>>, ns, ts, l, c)
    BY <1>1, <1>11, <1>12, <1>13, <1>14, <1>15, <1>17, <1>18, <1>19 DEF Annotates
  <1> QED
    BY <1>1, <1>20, <1>21, <1>3, <1>5, <1>7, <1>9 DEF Typed

LEMMA TypedFunction ==
    ASSUME NEW ns, NEW c \in Contexts, ~c.looped
    PROVE  Typed(ns, <<Statements, Load, Do("return"), Do("leaveFunction")>>,
      InFunction(c), c)
  <1>1. PICK ts : ts = <<Statements, Load, Do("return"), Do("leaveFunction")>>
    OBVIOUS
  <1>2. c.depth \in Nat /\ c.saved \in Seq(Nat) /\ c.pending \in Nat /\ c.chain \in Nat
        /\ c.loops \in Seq(Nat)
    BY ContextFields
  <1>3. PICK d \in Contexts : d = InFunction(c)
    BY InFunctionContext
  <1>4. /\ d.depth = 1 /\ d.saved = Append(c.saved, c.depth)
        /\ d.loops = c.loops /\ d.looped = c.looped
        /\ d.pending = c.pending /\ d.chain = c.chain
    BY InFunctionContext, <1>3
  <1>5. Leads(ns, Statements, d, d)
    BY <1>2, <1>4 DEF Leads, Statements, Do, Plain, Composite, Named, InLoop,
       KeepsPlace, KeepsScopes, KeepsLoops, KeepsCounts
  <1>6. Leads(ns, Load, d, d)
    BY <1>2, <1>4 DEF Leads, Load, Emit, Plain, Composite, Named, InLoop,
       KeepsPlace, KeepsScopes, KeepsLoops, KeepsCounts
  <1>7. Leads(ns, Do("return"), d, d)
    BY <1>2, <1>4 DEF Leads, Do, Plain, Composite, Named, InLoop,
       KeepsPlace, KeepsScopes, KeepsLoops, KeepsCounts
  <1>8. Leads(ns, Do("leaveFunction"), d, c)
    BY <1>2, <1>4 DEF Leads, Do, Plain, Composite, Named, InLoop,
       KeepsPlace, KeepsScopes, KeepsLoops, KeepsCounts
  <1>9. IsSequence(ts)
    <2>1. ts \in Seq({Statements, Load, Do("return"), Do("leaveFunction")})
      BY <1>1
    <2> QED BY <2>1 DEF IsSequence
  <1>10. Annotates(<<d, d, d, d, c>>, ns, ts, d, c)
    BY <1>1, <1>5, <1>6, <1>7, <1>8 DEF Annotates
  <1> QED
    BY <1>1, <1>9, <1>10, <1>3 DEF Typed
LEMMA TypedForTasks ==
    ASSUME NEW ns, NEW c \in Contexts, ~c.looped,
           NEW name \in ns \cup {"$match"}, NEW iter, NEW idx, NEW start
    PROVE  Typed(ns, ForTasks(name, iter, idx, start), c, c)
  <1>1. PICK ts : ts = <<Get(idx), Load, Get(iter), Call(1), Arithmetic, JumpIfFalse, Pop, Do("begin"),
            Get(iter), Get(idx), Index, Declare(name), Block, Do("end"),
            [do |-> "pushLoop", start |-> start], Get(idx), Load, Arithmetic, Set(idx),
            Pop, Do("loop"), Patch(1), Pop, Do("endLoop")>>
    OBVIOUS
  <1>2. c.depth \in Nat /\ c.saved \in Seq(Nat) /\ c.pending \in Nat /\ c.chain \in Nat
        /\ c.loops \in Seq(Nat)
    BY ContextFields
  <1>3. PICK d \in Contexts : d = OneMore(c)
    BY OneMoreContext
  <1>4. /\ d.depth = c.depth /\ d.saved = c.saved
        /\ d.loops = c.loops /\ d.looped = c.looped
        /\ d.pending = c.pending + 1 /\ d.chain = c.chain
    BY OneMoreContext, <1>3
  <1>5. PICK b \in Contexts : b = Deeper(d)
    BY DeeperContext
  <1>6. /\ b.depth = c.depth + 1 /\ b.saved = c.saved
        /\ b.loops = c.loops /\ b.looped = c.looped
        /\ b.pending = c.pending + 1 /\ b.chain = c.chain
    BY DeeperContext, <1>5, <1>4
  <1>7. PICK l \in Contexts : l = InNewLoop(d)
    BY InNewLoopContext
  <1>8. /\ l.depth = c.depth /\ l.saved = c.saved
        /\ l.loops = Append(c.loops, Len(c.saved)) /\ l.looped = c.looped
        /\ l.pending = c.pending + 1 /\ l.chain = c.chain
    BY InNewLoopContext, <1>7, <1>4
  <1>9. PICK e \in Contexts : e = Looping(l)
    BY LoopingContext
  <1>10. /\ e.depth = c.depth /\ e.saved = c.saved
        /\ e.loops = Append(c.loops, Len(c.saved)) /\ e.looped = TRUE
        /\ e.pending = c.pending + 1 /\ e.chain = c.chain
    BY LoopingContext, <1>9, <1>8
  <1>11. PICK m \in Contexts : m = InNewLoop(c)
    BY InNewLoopContext
  <1>12. /\ m.depth = c.depth /\ m.saved = c.saved
        /\ m.loops = Append(c.loops, Len(c.saved)) /\ m.looped = c.looped
        /\ m.pending = c.pending /\ m.chain = c.chain
    BY InNewLoopContext, <1>11
  <1>13. PICK f \in Contexts : f = Looping(m)
    BY LoopingContext
  <1>14. /\ f.depth = c.depth /\ f.saved = c.saved
        /\ f.loops = Append(c.loops, Len(c.saved)) /\ f.looped = TRUE
        /\ f.pending = c.pending /\ f.chain = c.chain
    BY LoopingContext, <1>13, <1>12
  <1>15. Leads(ns, Get(idx), c, c)
    BY <1>2 DEF Leads, Get, Plain, Composite, Named, InLoop,
       KeepsPlace, KeepsScopes, KeepsLoops, KeepsCounts
  <1>16. Leads(ns, Load, c, c)
    BY <1>2 DEF Leads, Load, Emit, Plain, Composite, Named, InLoop,
       KeepsPlace, KeepsScopes, KeepsLoops, KeepsCounts
  <1>17. Leads(ns, Get(iter), c, c)
    BY <1>2 DEF Leads, Get, Plain, Composite, Named, InLoop,
       KeepsPlace, KeepsScopes, KeepsLoops, KeepsCounts
  <1>18. Leads(ns, Call(1), c, c)
    BY <1>2 DEF Leads, Call, Emit, Plain, Composite, Named, InLoop,
       KeepsPlace, KeepsScopes, KeepsLoops, KeepsCounts
  <1>19. Leads(ns, Arithmetic, c, c)
    BY <1>2 DEF Leads, Arithmetic, Emit, Plain, Composite, Named, InLoop,
       KeepsPlace, KeepsScopes, KeepsLoops, KeepsCounts
  <1>20. Leads(ns, JumpIfFalse, c, d)
    BY <1>2, <1>4 DEF Leads, JumpIfFalse, Do, Plain, Composite, Named, InLoop,
       KeepsPlace, KeepsScopes, KeepsLoops, KeepsCounts
  <1>21. Leads(ns, Pop, d, d)
    BY <1>2, <1>4 DEF Leads, Pop, Emit, Plain, Composite, Named, InLoop,
       KeepsPlace, KeepsScopes, KeepsLoops, KeepsCounts
  <1>22. Leads(ns, Do("begin"), d, b)
    BY <1>2, <1>4, <1>6 DEF Leads, Do, Plain, Composite, Named, InLoop,
       KeepsPlace, KeepsScopes, KeepsLoops, KeepsCounts
  <1>23. Leads(ns, Get(iter), b, b)
    BY <1>2, <1>6 DEF Leads, Get, Plain, Composite, Named, InLoop,
       KeepsPlace, KeepsScopes, KeepsLoops, KeepsCounts
  <1>24. Leads(ns, Get(idx), b, b)
    BY <1>2, <1>6 DEF Leads, Get, Plain, Composite, Named, InLoop,
       KeepsPlace, KeepsScopes, KeepsLoops, KeepsCounts
  <1>25. Leads(ns, Index, b, b)
    BY <1>2, <1>6 DEF Leads, Index, Emit, Plain, Composite, Named, InLoop,
       KeepsPlace, KeepsScopes, KeepsLoops, KeepsCounts
  <1>26. Leads(ns, Declare(name), b, b)
    BY <1>2, <1>6 DEF Leads, Declare, Plain, Composite, Named, InLoop,
       KeepsPlace, KeepsScopes, KeepsLoops, KeepsCounts
  <1>27. Leads(ns, Block, b, b)
    BY <1>2, <1>6 DEF Leads, Block, Do, Plain, Composite, Named, InLoop,
       KeepsPlace, KeepsScopes, KeepsLoops, KeepsCounts
  <1>28. Leads(ns, Do("end"), b, d)
    BY <1>2, <1>4, <1>6 DEF Leads, Do, Plain, Composite, Named, InLoop,
       KeepsPlace, KeepsScopes, KeepsLoops, KeepsCounts
  <1>29. Leads(ns, [do |-> "pushLoop", start |-> start], d, l)
    BY <1>2, <1>4, <1>8 DEF Leads, Plain, Composite, Named, InLoop,
       KeepsPlace, KeepsScopes, KeepsLoops, KeepsCounts
  <1>30. Leads(ns, Get(idx), l, l)
    BY <1>2, <1>8 DEF Leads, Get, Plain, Composite, Named, InLoop,
       KeepsPlace, KeepsScopes, KeepsLoops, KeepsCounts
  <1>31. Leads(ns, Load, l, l)
    BY <1>2, <1>8 DEF Leads, Load, Emit, Plain, Composite, Named, InLoop,
       KeepsPlace, KeepsScopes, KeepsLoops, KeepsCounts
  <1>32. Leads(ns, Arithmetic, l, l)
    BY <1>2, <1>8 DEF Leads, Arithmetic, Emit, Plain, Composite, Named, InLoop,
       KeepsPlace, KeepsScopes, KeepsLoops, KeepsCounts
  <1>33. Leads(ns, Set(idx), l, l)
    BY <1>2, <1>8 DEF Leads, Set, Plain, Composite, Named, InLoop,
       KeepsPlace, KeepsScopes, KeepsLoops, KeepsCounts
  <1>34. Leads(ns, Pop, l, l)
    BY <1>2, <1>8 DEF Leads, Pop, Emit, Plain, Composite, Named, InLoop,
       KeepsPlace, KeepsScopes, KeepsLoops, KeepsCounts
  <1>35. Leads(ns, Do("loop"), l, e)
    <2>1. InLoop(l)
      <3>1. Len(c.saved) \in Nat /\ c.loops \in Seq(Nat)
        BY ONLY <1>2
      <3>2. /\ Append(c.loops, Len(c.saved)) # <<>>
            /\ Append(c.loops, Len(c.saved))[Len(Append(c.loops, Len(c.saved)))] = Len(c.saved)
        BY ONLY <3>1
      <3> QED BY ONLY <1>8, <3>2, Zenon DEF InLoop
    <2>2. KeepsScopes(l, e) /\ e.loops = l.loops /\ KeepsCounts(l, e) /\ e.looped
      BY ONLY <1>8, <1>10, Zenon DEF KeepsScopes, KeepsCounts
    <2> QED BY ONLY <2>1, <2>2 DEF Leads, Do, Named
  <1>36. 1 \in 1 .. e.pending /\ f.pending = e.pending - 1
    <2>1. e.pending = c.pending + 1 /\ f.pending = c.pending /\ c.pending \in Nat
      BY ONLY <1>10, <1>14, <1>2, Zenon
    <2> QED BY ONLY <2>1
  <1>37. Leads(ns, Patch(1), e, f)
    BY <1>10, <1>14, <1>2, <1>36 DEF Leads, Patch, Plain, Composite, Named, InLoop,
       KeepsPlace, KeepsScopes, KeepsLoops, KeepsCounts
  <1>38. Leads(ns, Pop, f, f)
    BY <1>14, <1>2 DEF Leads, Pop, Emit, Plain, Composite, Named, InLoop,
       KeepsPlace, KeepsScopes, KeepsLoops, KeepsCounts
  <1>39. Leads(ns, Do("endLoop"), f, c)
    BY <1>14, <1>2 DEF Leads, Do, Plain, Composite, Named, InLoop,
       KeepsPlace, KeepsScopes, KeepsLoops, KeepsCounts
  <1>40. IsSequence(ts)
    <2>1. ts \in Seq({Get(idx), Load, Get(iter), Call(1), Arithmetic, JumpIfFalse, Pop,
      Do("begin"), Index, Declare(name), Block, Do("end"), [do |-> "pushLoop",
      start |-> start], Set(idx), Do("loop"), Patch(1), Do("endLoop")})
      BY <1>1
    <2> QED BY <2>1 DEF IsSequence
  <1>41. Annotates(<<c, c, c, c, c, c, d, d, b, b, b, b, b, b, d, l, l, l, l, l, l, e, f, f, c>>, ns, ts, c, c)
    BY <1>1, <1>15, <1>16, <1>17, <1>18, <1>19, <1>20, <1>21, <1>22, <1>23, <1>24, <1>25,
      <1>26, <1>27, <1>28, <1>29, <1>30, <1>31, <1>32, <1>33, <1>34, <1>35, <1>37, <1>38,
      <1>39 DEF Annotates
  <1> QED
    BY <1>1, <1>40, <1>41, <1>3, <1>5, <1>7, <1>9, <1>11, <1>13 DEF Typed, ForTasks

LEMMA TypedArm ==
    ASSUME NEW ns, NEW c \in Contexts, ~c.looped
    PROVE  Typed(ns, Arm, c, OneMore(c))
  <1>1. PICK ts : ts = <<Do("getMatch"), Expr, Arithmetic, JumpIfFalse, Pop, Expr, JumpAway, Patch(2),
            Pop>>
    OBVIOUS
  <1>2. c.depth \in Nat /\ c.saved \in Seq(Nat) /\ c.pending \in Nat /\ c.chain \in Nat
        /\ c.loops \in Seq(Nat)
    BY ContextFields
  <1>3. PICK d \in Contexts : d = OneMore(c)
    BY OneMoreContext
  <1>4. /\ d.depth = c.depth /\ d.saved = c.saved
        /\ d.loops = c.loops /\ d.looped = c.looped
        /\ d.pending = c.pending + 1 /\ d.chain = c.chain
    BY OneMoreContext, <1>3
  <1>5. PICK e \in Contexts : e = OneMore(d)
    BY OneMoreContext
  <1>6. /\ e.depth = c.depth /\ e.saved = c.saved
        /\ e.loops = c.loops /\ e.looped = c.looped
        /\ e.pending = c.pending + 1 + 1 /\ e.chain = c.chain
    BY OneMoreContext, <1>5, <1>4
  <1>7. Leads(ns, Do("getMatch"), c, c)
    BY <1>2 DEF Leads, Do, Plain, Composite, Named, InLoop,
       KeepsPlace, KeepsScopes, KeepsLoops, KeepsCounts
  <1>8. Leads(ns, Expr, c, c)
    BY <1>2 DEF Leads, Expr, Do, Plain, Composite, Named, InLoop,
       KeepsPlace, KeepsScopes, KeepsLoops, KeepsCounts
  <1>9. Leads(ns, Arithmetic, c, c)
    BY <1>2 DEF Leads, Arithmetic, Emit, Plain, Composite, Named, InLoop,
       KeepsPlace, KeepsScopes, KeepsLoops, KeepsCounts
  <1>10. Leads(ns, JumpIfFalse, c, d)
    BY <1>2, <1>4 DEF Leads, JumpIfFalse, Do, Plain, Composite, Named, InLoop,
       KeepsPlace, KeepsScopes, KeepsLoops, KeepsCounts
  <1>11. Leads(ns, Pop, d, d)
    BY <1>2, <1>4 DEF Leads, Pop, Emit, Plain, Composite, Named, InLoop,
       KeepsPlace, KeepsScopes, KeepsLoops, KeepsCounts
  <1>12. Leads(ns, Expr, d, d)
    BY <1>2, <1>4 DEF Leads, Expr, Do, Plain, Composite, Named, InLoop,
       KeepsPlace, KeepsScopes, KeepsLoops, KeepsCounts
  <1>13. Leads(ns, JumpAway, d, e)
    BY <1>2, <1>4, <1>6 DEF Leads, JumpAway, Do, Plain, Composite, Named, InLoop,
       KeepsPlace, KeepsScopes, KeepsLoops, KeepsCounts
  <1>14. 2 \in 1 .. e.pending /\ d.pending = e.pending - 1
    <2>1. e.pending = c.pending + 1 + 1 /\ d.pending = c.pending + 1 /\ c.pending \in Nat
      BY ONLY <1>2, <1>4, <1>6, Zenon
    <2> QED BY ONLY <2>1
  <1>15. Leads(ns, Patch(2), e, d)
    BY <1>14, <1>2, <1>4, <1>6 DEF Leads, Patch, Plain, Composite, Named, InLoop,
       KeepsPlace, KeepsScopes, KeepsLoops, KeepsCounts
  <1>16. IsSequence(ts)
    <2>1. ts \in Seq({Do("getMatch"), Expr, Arithmetic, JumpIfFalse, Pop, JumpAway,
      Patch(2)})
      BY <1>1
    <2> QED BY <2>1 DEF IsSequence
  <1>17. Annotates(<<c, c, c, c, d, d, d, e, d, d>>, ns, ts, c, d)
    BY <1>1, <1>10, <1>11, <1>12, <1>13, <1>15, <1>7, <1>8, <1>9 DEF Annotates
  <1> QED
    BY <1>1, <1>16, <1>17, <1>3, <1>5 DEF Typed, Arm
(* With n more jumps to patch.                                             *)
More(c, n) == Context(c.depth, c.saved, c.loops, c.looped, c.pending + n, c.chain)

LEMMA MoreContext ==
    ASSUME NEW c \in Contexts, NEW n \in Nat
    PROVE  /\ More(c, n) \in Contexts
           /\ More(c, n).pending = c.pending + n
           /\ More(c, n).looped = c.looped
           /\ KeepsPlace(c, More(c, n)) /\ More(c, n).chain = c.chain
           /\ OneMore(More(c, n)) = More(c, n + 1)
           /\ More(c, 0) = c
  <1>1. /\ c.depth \in Nat /\ c.saved \in Seq(Nat) /\ c.loops \in Seq(Nat)
        /\ c.looped \in BOOLEAN /\ c.pending \in Nat /\ c.chain \in Nat
        /\ LoopsInside(c.loops, c.saved)
    BY ContextFields
  <1>2. c.pending + n \in Nat
    BY ONLY <1>1, n \in Nat
  <1>3. More(c, n) \in Contexts
    BY ONLY <1>1, <1>2 DEF More, Context, Contexts
  <1>4. /\ More(c, n).depth = c.depth /\ More(c, n).saved = c.saved
        /\ More(c, n).loops = c.loops /\ More(c, n).looped = c.looped
        /\ More(c, n).pending = c.pending + n /\ More(c, n).chain = c.chain
    BY ONLY DEF More, Context
  <1>5. OneMore(More(c, n)) = More(c, n + 1)
    <2>1. (c.pending + n) + 1 = c.pending + (n + 1)
      <3>1. c.pending \in Nat
        BY <1>1
      <3> QED BY ONLY <3>1, n \in Nat
    <2> QED BY ONLY <1>4, <2>1, Zenon DEF OneMore, More
  <1>6. More(c, 0) = c
    <2>1. c.pending + 0 = c.pending
      BY ONLY <1>1
    <2>2. c = Context(c.depth, c.saved, c.loops, c.looped, c.pending, c.chain)
      BY DEF Context, Contexts
    <2> QED BY ONLY <2>1, <2>2, Zenon DEF More
  <1> QED
    BY <1>3, <1>4, <1>5, <1>6 DEF KeepsPlace, KeepsScopes, KeepsLoops

ArmsFrom(g, n) == g[0] = <<>> /\ \A i \in 1 .. n : g[i] = g[i - 1] \o Arm

LEMMA ArmsAre ==
    ASSUME NEW n \in Nat
    PROVE  \E g : /\ ArmsFrom(g, n)
                  /\ ArmTasks(n) = (IF n = 0 THEN <<>> ELSE <<Declare("$match")>>) \o g[n]
  <1>1. PICK base : base = <<>>
    OBVIOUS
  <1>2. PICK arm : arm = Arm
    OBVIOUS
  <1>3. PICK S : arm \in Seq(S)
    <2>1. Arm \in Seq({Do("getMatch"), Expr, Arithmetic, JumpIfFalse, Pop, JumpAway, Patch(2)})
      BY DEF Arm
    <2> QED BY <1>2, <2>1
  <1>4. base \in Seq(S) /\ \A x \in Seq(S) : x \o arm \in Seq(S)
    BY <1>1, <1>3
  <1>5. PICK R : R = Seq(S)
    OBVIOUS
  <1>6. PICK lo : lo = 0
    OBVIOUS
  <1>7. PICK next : next = [i \in (lo + 1) .. n |-> [x \in R |-> x \o arm]]
    OBVIOUS
  <1>8. base \in R /\ lo \in Nat /\ lo <= n /\ next \in [(lo + 1) .. n -> [R -> R]]
    BY <1>4, <1>5, <1>6, <1>7
  <1>9. \A i \in (lo + 1) .. n : \A x \in R : next[i][x] = x \o arm
    BY ONLY <1>7
  <1>10. PICK h \in [lo .. n -> R] : Recurrence(h, base, next, lo, n)
    BY ONLY <1>8, n \in Nat, Recursion
  <1>11. h = [i \in 0 .. n |-> IF i = 0 THEN base ELSE h[i - 1] \o arm]
    <2>1. ASSUME NEW i \in 0 .. n
          PROVE  h[i] = IF i = 0 THEN base ELSE h[i - 1] \o arm
      <3>1. CASE i = 0
        BY <1>6, <1>10, <3>1 DEF Recurrence
      <3>2. CASE i # 0
        <4>1. i \in (lo + 1) .. n /\ i - 1 \in lo .. n
          BY ONLY <1>6, <3>2, i \in 0 .. n, n \in Nat
        <4>2. h[i] = next[i][h[i - 1]] /\ h[i - 1] \in R
          BY ONLY <1>10, <4>1, h \in [lo .. n -> R] DEF Recurrence
        <4> QED BY ONLY <1>9, <3>2, <4>1, <4>2
      <3> QED BY <3>1, <3>2
    <2>2. h \in [0 .. n -> R]
      BY ONLY <1>6, <1>10, Zenon
    <2> QED BY ONLY <2>1, <2>2
  <1> DEFINE arms[i \in 0..n] == IF i = 0 THEN <<>> ELSE arms[i - 1] \o Arm
  <1>12. ArmTasks(n) = (IF n = 0 THEN <<>> ELSE <<Declare("$match")>>) \o arms[n]
    BY ONLY Zenon DEF ArmTasks
  <1>13. arms = [i \in 0 .. n |-> IF i = 0 THEN base ELSE arms[i - 1] \o arm]
    BY ONLY <1>1, <1>2, <1>11, Zenon
  <1> HIDE DEF arms
  <1>14. PICK g : g = arms
    OBVIOUS
  <1>15. \A i \in 0 .. n : g[i] = IF i = 0 THEN base ELSE g[i - 1] \o arm
    <2>1. PICK G : G = [i \in 0 .. n |-> IF i = 0 THEN base ELSE g[i - 1] \o arm]
      OBVIOUS
    <2>2. g = G
      BY ONLY <1>13, <1>14, <2>1, Zenon
    <2>3. \A i \in 0 .. n : G[i] = IF i = 0 THEN base ELSE g[i - 1] \o arm
      BY ONLY <2>1, Zenon
    <2> QED BY ONLY <2>2, <2>3, Zenon
  <1>16. ArmsFrom(g, n)
    <2>1. g[0] = <<>>
      <3>1. 0 \in 0 .. n
        BY ONLY n \in Nat
      <3> QED BY ONLY <1>1, <1>15, <3>1, Zenon
    <2>2. ASSUME NEW i \in 1 .. n PROVE g[i] = g[i - 1] \o Arm
      <3>1. i \in 0 .. n /\ i # 0
        BY ONLY n \in Nat, i \in 1 .. n
      <3> QED BY ONLY <1>2, <1>15, <3>1, Zenon
    <2> QED BY <2>1, <2>2 DEF ArmsFrom
  <1> QED
    BY ONLY <1>12, <1>14, <1>16, Zenon

LEMMA TypedArms ==
    ASSUME NEW ns, NEW c \in Contexts, ~c.looped, NEW n \in Nat, NEW g, ArmsFrom(g, n)
    PROVE  Typed(ns, g[n], c, More(c, n))
  <1> DEFINE T == {i \in 0 .. n : Typed(ns, g[i], c, More(c, i))}
  <1>1. 0 \in T
    <2>1. g[0] = <<>> /\ More(c, 0) = c
      BY MoreContext DEF ArmsFrom
    <2>2. Typed(ns, g[0], c, More(c, 0))
      BY <2>1, TypedNone
    <2> QED BY <2>2
  <1>2. ASSUME NEW i \in 0 .. (n - 1), i \in T PROVE i + 1 \in T
    <2>1. i \in Nat /\ i + 1 \in 1 .. n /\ i + 1 \in 0 .. n /\ (i + 1) - 1 = i
      OBVIOUS
    <2>2. g[i + 1] = g[i] \o Arm
      BY ONLY <2>1, ArmsFrom(g, n) DEF ArmsFrom
    <2>3. /\ More(c, i) \in Contexts /\ ~More(c, i).looped
          /\ OneMore(More(c, i)) = More(c, i + 1)
      BY <2>1, MoreContext
    <2>4. Typed(ns, Arm, More(c, i), More(c, i + 1))
      BY <2>3, TypedArm
    <2>5. Typed(ns, g[i + 1], c, More(c, i + 1))
      BY <1>2, <2>2, <2>4, TypedConcat
    <2> QED BY <2>1, <2>5
  <1>3. \A i \in 0 .. n : i \in T
    <2> HIDE DEF T
    <2> QED BY <1>1, <1>2, UpTo
  <1> QED
    BY <1>3

LEMMA TypedPatches ==
    ASSUME NEW ns, NEW c \in Contexts, NEW n \in Nat
    PROVE  Typed(ns, [i \in 1 .. n |-> Patch(1)], More(c, n), c)
  <1>1. PICK ts : ts = [i \in 1 .. n |-> Patch(1)]
    OBVIOUS
  <1>2. ts \in Seq({Patch(1)}) /\ Len(ts) = n /\ \A i \in 1 .. n : ts[i] = Patch(1)
    BY <1>1
  <1>3. PICK f : f = [i \in 1 .. n + 1 |-> More(c, (n + 1) - i)]
    OBVIOUS
  <1>4. \A i \in 1 .. n + 1 : (n + 1) - i \in Nat
    OBVIOUS
  <1>5. \A i \in 1 .. n + 1 : f[i] = More(c, (n + 1) - i) /\ f[i] \in Contexts
    BY <1>3, <1>4, MoreContext
  <1>6. f \in [1 .. n + 1 -> Contexts]
    BY ONLY <1>3, <1>5
  <1>7. f[1] = More(c, n) /\ f[n + 1] = c
    <2>1. 1 \in 1 .. n + 1 /\ n + 1 \in 1 .. n + 1 /\ (n + 1) - 1 = n /\ (n + 1) - (n + 1) = 0
      OBVIOUS
    <2>2. f[1] = More(c, (n + 1) - 1) /\ f[n + 1] = More(c, (n + 1) - (n + 1))
      BY ONLY <1>5, <2>1
    <2> QED BY <2>1, <2>2, MoreContext
  <1>8. ASSUME NEW i \in 1 .. n PROVE Leads(ns, ts[i], f[i], f[i + 1])
    <2>1. PICK m \in Nat : m = (n + 1) - (i + 1)
      <3>1. (n + 1) - (i + 1) \in Nat
        OBVIOUS
      <3> QED BY <3>1
    <2>2. m + 1 \in Nat /\ (n + 1) - i = m + 1 /\ i \in 1 .. n + 1 /\ i + 1 \in 1 .. n + 1
      BY <2>1
    <2>3. f[i] = More(c, m + 1) /\ f[i + 1] = More(c, m)
      BY ONLY <1>5, <2>1, <2>2
    <2>4. /\ f[i].pending = c.pending + (m + 1) /\ f[i + 1].pending = c.pending + m
          /\ KeepsPlace(c, f[i]) /\ KeepsPlace(c, f[i + 1])
          /\ f[i].chain = c.chain /\ f[i + 1].chain = c.chain
      <3>1. \A k \in Nat : /\ More(c, k).pending = c.pending + k
                           /\ KeepsPlace(c, More(c, k)) /\ More(c, k).chain = c.chain
        BY MoreContext
      <3> QED BY ONLY <2>2, <2>3, <3>1, m \in Nat, Zenon
    <2>5. 1 \in 1 .. f[i].pending /\ f[i + 1].pending = f[i].pending - 1
      <3>1. c.pending \in Nat
        BY ContextFields
      <3>2. f[i].pending = c.pending + (m + 1) /\ f[i + 1].pending = c.pending + m
        BY <2>4
      <3> QED BY ONLY <3>1, <3>2, m \in Nat
    <2>6. KeepsPlace(f[i], f[i + 1]) /\ f[i + 1].chain = f[i].chain
      BY ONLY <2>4, Zenon DEF KeepsPlace, KeepsScopes, KeepsLoops
    <2>7. Leads(ns, Patch(1), f[i], f[i + 1])
      BY ONLY <2>5, <2>6 DEF Leads, Patch, Named
    <2> QED BY <1>2, <2>7
  <1>9. Annotates(f, ns, ts, More(c, n), c)
    BY <1>2, <1>6, <1>7, <1>8 DEF Annotates
  <1> QED
    BY <1>1, <1>2, <1>9 DEF Typed, IsSequence

LEMMA TypedMatch ==
    ASSUME NEW ns, NEW c \in Contexts, ~c.looped, NEW n \in Nat,
           NEW wildcard \in BOOLEAN, NEW last \in BOOLEAN
    PROVE  Typed(ns, MatchTasks(n, wildcard, last), c, c)
  <1>1. PICK d \in Contexts : d = More(c, n)
    BY MoreContext
  <1>2. ~d.looped
    BY <1>1, MoreContext
  <1>3. \A x \in Contexts : ~x.looped => Typed(ns, <<Expr>>, x, x) /\ Typed(ns, <<Pop, Expr>>, x, x)
    <2> TAKE x \in Contexts
    <2> HAVE ~x.looped
    <2>1. Leads(ns, Expr, x, x) /\ Leads(ns, Pop, x, x)
      BY FlatTasks DEF Expr, Do, Pop, Emit, Plain, Composite, Named
    <2>2. <<Expr>> \in Seq({Expr}) /\ <<Pop, Expr>> \in Seq({Pop, Expr})
      OBVIOUS
    <2>3. IsSequence(<<Expr>>) /\ IsSequence(<<Pop, Expr>>)
      BY <2>2 DEF IsSequence
    <2>4. /\ \A i \in 1 .. Len(<<Expr>>) : Leads(ns, <<Expr>>[i], x, x)
          /\ \A i \in 1 .. Len(<<Pop, Expr>>) : Leads(ns, <<Pop, Expr>>[i], x, x)
      BY <2>1
    <2> QED BY <2>3, <2>4, TypedFlat
  <1>4. Typed(ns, <<Load>>, d, d)
    <2>1. Leads(ns, Load, d, d)
      BY <1>2, FlatTasks DEF Load, Emit, Plain, Composite, Named
    <2>2. IsSequence(<<Load>>)
      <3>1. <<Load>> \in Seq({Load})
        OBVIOUS
      <3> QED BY <3>1 DEF IsSequence
    <2>3. \A i \in 1 .. Len(<<Load>>) : Leads(ns, <<Load>>[i], d, d)
      BY <2>1
    <2> QED BY <2>2, <2>3, TypedFlat
  <1>5. Typed(ns, ArmTasks(n), c, d)
    <2>1. PICK g : /\ ArmsFrom(g, n)
                   /\ ArmTasks(n) = (IF n = 0 THEN <<>> ELSE <<Declare("$match")>>) \o g[n]
      BY ArmsAre
    <2>2. Typed(ns, g[n], c, d)
      BY <1>1, <2>1, TypedArms
    <2>3. Typed(ns, IF n = 0 THEN <<>> ELSE <<Declare("$match")>>, c, c)
      <3>1. Leads(ns, Declare("$match"), c, c)
        BY DEF Leads, Declare, Plain, Named
      <3>2. IsSequence(<<Declare("$match")>>)
        <4>1. <<Declare("$match")>> \in Seq({Declare("$match")})
          OBVIOUS
        <4> QED BY <4>1 DEF IsSequence
      <3>3. \A i \in 1 .. Len(<<Declare("$match")>>) : Leads(ns, <<Declare("$match")>>[i], c, c)
        BY <3>1
      <3>4. Typed(ns, <<Declare("$match")>>, c, c)
        BY <3>2, <3>3, TypedFlat
      <3> QED BY <3>4, TypedNone
    <2> QED BY <2>1, <2>2, <2>3, TypedConcat
  <1>6. Typed(ns, IF wildcard THEN <<Pop, Expr>> ELSE <<>>, d, d)
    BY <1>2, <1>3, TypedNone
  <1>7. Typed(ns, IF wildcard /\ last THEN <<>> ELSE <<Load>>, d, d)
    BY <1>4, TypedNone
  <1>8. Typed(ns, [i \in 1 .. n |-> Patch(1)], d, c)
    BY <1>1, TypedPatches
  <1>9. Typed(ns, <<Expr>>, c, c)
    BY <1>3
  <1>10. Typed(ns, <<Expr>> \o ArmTasks(n), c, d)
    BY <1>5, <1>9, TypedConcat
  <1>11. Typed(ns, <<Expr>> \o ArmTasks(n) \o (IF wildcard THEN <<Pop, Expr>> ELSE <<>>), c, d)
    BY <1>6, <1>10, TypedConcat
  <1>12. Typed(ns, <<Expr>> \o ArmTasks(n) \o (IF wildcard THEN <<Pop, Expr>> ELSE <<>>)
                   \o (IF wildcard /\ last THEN <<>> ELSE <<Load>>), c, d)
    BY <1>7, <1>11, TypedConcat
  <1> QED
    BY <1>8, <1>12, TypedConcat DEF MatchTasks

----------------------------------------------------------------------------
(* What the tasks of each kind do to the context, read off a state.        *)
LEMMA CompositeKeeps ==
    ASSUME NEW ns, NEW t, NEW a, NEW b, Leads(ns, t, a, b), t.do \in Composite
    PROVE  b = a /\ ~a.looped /\ (t.do \in Named => t.name \in ns \cup {"$match"})
  BY DEF Leads, Plain, Composite

LEMMA PlainKeeps ==
    ASSUME NEW ns, NEW t, NEW a, NEW b, Leads(ns, t, a, b), t.do \in Plain
    PROVE  b = a /\ (t.do \in Named => t.name \in ns \cup {"$match"})
  BY DEF Leads, Plain, Composite

(* The state is what the context says.                                     *)
Fits(c) ==
    /\ depth = c.depth
    /\ Level = Len(c.saved) /\ \A i \in 1 .. Level : outer[i].depth = c.saved[i]
    /\ Len(loops) = Len(c.loops) /\ \A i \in 1 .. Len(loops) : loops[i].level = c.loops[i]
    /\ Len(jumps) = c.pending
    /\ c.chain <= nodes /\ nodes + c.chain <= 2 * MaxNodes

Annotated == \E a, z : Typed(Names, todo, a, z) /\ Fits(a)

LEMMA Begin ==
    ASSUME Annotated, todo # <<>>
    PROVE  \E a, b, z \in Contexts :
               /\ Fits(a) /\ Typed(Names, todo, a, z)
               /\ Leads(Names, Task, a, b) /\ Typed(Names, Tail(todo), b, z)
  <1>1. PICK a, z : Typed(Names, todo, a, z) /\ Fits(a)
    BY DEF Annotated
  <1>2. a \in Contexts
    BY <1>1, TypedNext
  <1>3. PICK b \in Contexts : Leads(Names, Head(todo), a, b) /\ Typed(Names, Tail(todo), b, z)
    BY <1>1, TypedNext
  <1>4. z \in Contexts
    <2>1. PICK f : Annotates(f, Names, todo, a, z)
      BY <1>1 DEF Typed
    <2>2. Len(todo) \in Nat
      BY <1>1, SequenceFacts DEF Typed
    <2> QED BY <2>1, <2>2 DEF Annotates
  <1> QED
    BY <1>1, <1>2, <1>3, <1>4 DEF Task

LEMMA Finish ==
    ASSUME NEW ns, NEW tasks, NEW rest, NEW a, NEW b, NEW z, Typed(ns, tasks, a, b),
           Typed(ns, rest, b, z), todo' = tasks \o rest, Names' = ns, Fits(a)'
    PROVE  Annotated'
  <1>1. Typed(ns, tasks \o rest, a, z)
    BY TypedConcat
  <1>2. \E x, y : Typed(Names', todo', x, y) /\ Fits(x)'
    BY <1>1
  <1> QED
    BY <1>2 DEF Annotated

LEMMA SameFits ==
    ASSUME NEW c, Fits(c), nodes' = nodes, UNCHANGED <<depth, outer, loops, jumps, language>>
    PROVE  Fits(c)'
  BY DEF Fits, Level, MaxNodes

LEMMA LanguageFacts ==
    ASSUME language \in Languages
    PROVE  MaxNodes \in Nat /\ MaxArgs \in Nat /\ HiddenNames \cap Names = {}
  BY ParametersAssumption DEF MaxNodes, MaxArgs, Names

(* One more statement or expression, where the bound still allows it.      *)
LEMMA OneMoreNode ==
    ASSUME NEW c \in Contexts, Fits(c), nodes \in Nat, language \in Languages, nodes < MaxNodes,
           nodes' = nodes + 1, UNCHANGED <<depth, outer, loops, jumps, language>>
    PROVE  Fits(c)'
  <1>1. c.chain \in Nat /\ MaxNodes \in Nat
    BY ContextFields, LanguageFacts
  <1>2. c.chain <= nodes' /\ nodes' + c.chain <= 2 * MaxNodes
    BY <1>1 DEF Fits
  <1> QED
    BY <1>2 DEF Fits, Level, MaxNodes

LEMMA CompoundAnnotates ==
    ASSUME Annotated, nodes \in Nat, language \in Languages, language' = language,
           NEW form, NEW tasks, Compound(form, tasks),
           \A c \in Contexts : ~c.looped => Typed(Names, tasks, c, c)
    PROVE  Annotated'
  <1>1. todo # <<>> /\ Task.do = "expr" /\ todo' = tasks \o Tail(todo)
    BY DEF Compound, TaskIs
  <1>2. PICK a, b, z \in Contexts :
            /\ Fits(a) /\ Typed(Names, todo, a, z)
            /\ Leads(Names, Task, a, b) /\ Typed(Names, Tail(todo), b, z)
    BY <1>1, Begin
  <1>3. b = a /\ ~a.looped
    BY <1>1, <1>2, CompositeKeeps DEF Composite
  <1>4. Fits(a)'
    BY <1>2, OneMoreNode DEF Compound
  <1>5. Typed(Names, tasks, a, b) /\ Names' = Names
    BY <1>3 DEF Names
  <1> QED
    BY <1>1, <1>2, <1>4, <1>5, Finish

LEMMA StatementAnnotates ==
    ASSUME Annotated, nodes \in Nat, language \in Languages, language' = language,
           NEW form, NEW tasks, Statement(form, tasks),
           UNCHANGED <<depth, outer, loops, jumps>>,
           \A c \in Contexts : ~c.looped => Typed(Names, tasks, c, c)
    PROVE  Annotated'
  <1>1. todo # <<>> /\ Task.do = "statements" /\ todo' = tasks \o todo
    BY DEF Statement, TaskIs
  <1>2. PICK a, b, z \in Contexts :
            /\ Fits(a) /\ Typed(Names, todo, a, z)
            /\ Leads(Names, Task, a, b) /\ Typed(Names, Tail(todo), b, z)
    BY <1>1, Begin
  <1>3. ~a.looped
    BY <1>1, <1>2, CompositeKeeps DEF Composite
  <1>4. Fits(a)'
    BY <1>2, OneMoreNode DEF Statement
  <1>5. Typed(Names, tasks, a, a) /\ Names' = Names
    BY <1>3 DEF Names
  <1> QED
    BY <1>1, <1>2, <1>4, <1>5, Finish

(* Tasks that leave the context as it is, whichever it is.                 *)
Flat(ns, t) == t.do \in Plain \cup Composite /\ (t.do \in Named => t.name \in ns)

LEMMA FlatTuples ==
    ASSUME NEW ns, NEW c \in Contexts, ~c.looped, NEW t, NEW u, NEW v, NEW w,
           Flat(ns, t), Flat(ns, u), Flat(ns, v), Flat(ns, w)
    PROVE  /\ Typed(ns, <<t>>, c, c) /\ Typed(ns, <<t, u>>, c, c)
           /\ Typed(ns, <<t, u, v>>, c, c) /\ Typed(ns, <<t, u, v, w>>, c, c)
  <1>1. Leads(ns, t, c, c) /\ Leads(ns, u, c, c) /\ Leads(ns, v, c, c) /\ Leads(ns, w, c, c)
    BY FlatTasks DEF Flat
  <1>2. /\ <<t>> \in Seq({t, u, v, w}) /\ <<t, u>> \in Seq({t, u, v, w})
        /\ <<t, u, v>> \in Seq({t, u, v, w}) /\ <<t, u, v, w>> \in Seq({t, u, v, w})
    OBVIOUS
  <1>3. IsSequence(<<t>>) /\ IsSequence(<<t, u>>) /\ IsSequence(<<t, u, v>>) /\ IsSequence(<<t, u, v, w>>)
    BY <1>2 DEF IsSequence
  <1>4. /\ \A i \in 1 .. Len(<<t>>) : Leads(ns, <<t>>[i], c, c)
        /\ \A i \in 1 .. Len(<<t, u>>) : Leads(ns, <<t, u>>[i], c, c)
        /\ \A i \in 1 .. Len(<<t, u, v>>) : Leads(ns, <<t, u, v>>[i], c, c)
        /\ \A i \in 1 .. Len(<<t, u, v, w>>) : Leads(ns, <<t, u, v, w>>[i], c, c)
    BY <1>1
  <1> QED
    BY <1>3, <1>4, TypedFlat

LEMMA FlatKinds ==
    ASSUME NEW ns
    PROVE  /\ Flat(ns, Expr) /\ Flat(ns, Statements) /\ Flat(ns, Do("mark")) /\ Flat(ns, Do("return"))
           /\ Flat(ns, Do("break")) /\ Flat(ns, Do("continue"))
           /\ \A pops, pushes : Flat(ns, Emit(pops, pushes))
           /\ \A name \in ns : Flat(ns, [do |-> "assign", name |-> name])
           /\ \A slot : Flat(ns, Get(slot)) /\ Flat(ns, Set(slot))
           /\ \A k, name : Flat(ns, GetUpvalue(k, name)) /\ Flat(ns, SetUpvalue(k, name))
  BY DEF Flat, Expr, Statements, Do, Emit, Plain, Composite, Named, Get, Set, GetUpvalue, SetUpvalue

LEMMA FlatEmits ==
    ASSUME NEW ns, NEW n
    PROVE  /\ Flat(ns, Load) /\ Flat(ns, Pop) /\ Flat(ns, DefineGlobal) /\ Flat(ns, Free)
           /\ Flat(ns, SetName) /\ Flat(ns, Convert) /\ Flat(ns, GetField) /\ Flat(ns, Arithmetic)
           /\ Flat(ns, Index) /\ Flat(ns, SetField) /\ Flat(ns, SetIndex) /\ Flat(ns, MakeArray(n))
           /\ Flat(ns, NewStruct(n)) /\ Flat(ns, PrintValues(n)) /\ Flat(ns, Call(n))
  BY FlatKinds DEF Load, Pop, DefineGlobal, Free, SetName, Convert, GetField, Arithmetic,
     Index, SetField, SetIndex, MakeArray, NewStruct, PrintValues, Call

LEMMA LoadsFlat ==
    ASSUME NEW ns, NEW c \in Contexts, ~c.looped, NEW n \in Nat
    PROVE  Typed(ns, [i \in 1 .. n |-> Load], c, c)
  <1>1. PICK ts : ts = [i \in 1 .. n |-> Load]
    OBVIOUS
  <1>2. ts \in Seq({Load}) /\ Len(ts) = n /\ \A i \in 1 .. n : ts[i] = Load
    BY <1>1
  <1>3. Leads(ns, Load, c, c)
    BY FlatTasks, FlatEmits DEF Flat
  <1>4. IsSequence(ts)
    BY <1>2 DEF IsSequence
  <1> QED
    BY <1>1, <1>2, <1>3, <1>4, TypedFlat

Ready == Annotated /\ nodes \in Nat /\ language \in Languages

LEMMA SimpleStatements ==
    ASSUME Ready, language' = language, CompileExprStmt \/ CompileReturn \/ CompileFree
    PROVE  Annotated'
  <1>1. \A c \in Contexts : ~c.looped =>
            /\ Typed(Names, <<Expr, Pop>>, c, c) /\ Typed(Names, <<Expr, Free>>, c, c)
            /\ \A v \in {Expr, Load} : Typed(Names, <<v, Do("return")>>, c, c)
    BY FlatTuples, FlatKinds, FlatEmits
  <1>2. CASE CompileExprStmt
    BY <1>1, <1>2, StatementAnnotates DEF Ready, CompileExprStmt
  <1>3. CASE CompileReturn
    <2>1. PICK v \in {Expr, Load} : Statement("return", <<v, Do("return")>>)
      BY <1>3 DEF CompileReturn
    <2>2. UNCHANGED <<depth, outer, loops, jumps>>
      BY <1>3 DEF CompileReturn
    <2>3. \A c \in Contexts : ~c.looped => Typed(Names, <<v, Do("return")>>, c, c)
      BY <1>1
    <2> QED BY <2>1, <2>2, <2>3, StatementAnnotates DEF Ready
  <1>4. CASE CompileFree
    BY <1>1, <1>4, StatementAnnotates DEF Ready, CompileFree
  <1> QED
    BY <1>2, <1>3, <1>4

LEMMA CompileLetAnnotates ==
    ASSUME Ready, language' = language, CompileLet
    PROVE  Annotated'
  <1>1. PICK name \in Names :
            /\ Statement("let", <<Expr, IF depth > 0 THEN Do("mark") ELSE DefineGlobal>>)
            /\ UNCHANGED <<depth, outer, loops, jumps>>
    BY DEF CompileLet
  <1>2. \A c \in Contexts : ~c.looped =>
            Typed(Names, <<Expr, IF depth > 0 THEN Do("mark") ELSE DefineGlobal>>, c, c)
    <2>1. \A c \in Contexts : ~c.looped => /\ Typed(Names, <<Expr, Do("mark")>>, c, c)
                                           /\ Typed(Names, <<Expr, DefineGlobal>>, c, c)
      BY FlatTuples, FlatKinds, FlatEmits
    <2> QED BY <2>1
  <1> QED
    BY <1>1, <1>2, StatementAnnotates DEF Ready

LEMMA SimpleExpressions ==
    ASSUME Ready, language' = language,
           \/ CompileUnary \/ CompileBinary \/ CompileAnd \/ CompileOr \/ CompileIndex
           \/ CompileField \/ CompileAssign
    PROVE  Annotated'
  <1>1. \A c \in Contexts : ~c.looped =>
            /\ Typed(Names, <<Expr, Convert>>, c, c) /\ Typed(Names, <<Expr, Expr, Arithmetic>>, c, c)
            /\ Typed(Names, <<Expr, Expr, Index>>, c, c) /\ Typed(Names, <<Expr, GetField>>, c, c)
            /\ Typed(Names, <<Expr, Expr, SetField>>, c, c)
            /\ Typed(Names, <<Expr, Expr, Expr, SetIndex>>, c, c)
            /\ \A name \in Names : Typed(Names, <<Expr, [do |-> "assign", name |-> name]>>, c, c)
    BY FlatTuples, FlatKinds, FlatEmits
  <1>2. CASE CompileUnary
    BY <1>1, <1>2, CompoundAnnotates DEF Ready, CompileUnary
  <1>3. CASE CompileBinary
    BY <1>1, <1>3, CompoundAnnotates DEF Ready, CompileBinary
  <1>4. CASE CompileAnd
    BY <1>4, CompoundAnnotates, TypedAnd DEF Ready, CompileAnd
  <1>5. CASE CompileOr
    BY <1>5, CompoundAnnotates, TypedOr DEF Ready, CompileOr
  <1>6. CASE CompileIndex
    BY <1>1, <1>6, CompoundAnnotates DEF Ready, CompileIndex
  <1>7. CASE CompileField
    BY <1>1, <1>7, CompoundAnnotates DEF Ready, CompileField
  <1>8. CASE CompileAssign
    <2>1. CASE \E name \in Names : Compound("assign", <<Expr, [do |-> "assign", name |-> name]>>)
      BY <1>1, <2>1, CompoundAnnotates DEF Ready
    <2>2. CASE Compound("assign", <<Expr, Expr, SetField>>)
      BY <1>1, <2>2, CompoundAnnotates DEF Ready
    <2>3. CASE Compound("assign", <<Expr, Expr, Expr, SetIndex>>)
      BY <1>1, <2>3, CompoundAnnotates DEF Ready
    <2> QED BY <1>8, <2>1, <2>2, <2>3 DEF CompileAssign
  <1> QED
    BY <1>2, <1>3, <1>4, <1>5, <1>6, <1>7, <1>8

LEMMA ListExpressions ==
    ASSUME Ready, language' = language,
           CompilePrint \/ CompileCall \/ CompileArray \/ CompileNew \/ CompileMatch
    PROVE  Annotated'
  <1>1. MaxArgs \in Nat /\ \A n \in 0 .. MaxArgs : n \in Nat
    BY LanguageFacts DEF Ready
  <1>2. \A c \in Contexts, n \in Nat : ~c.looped =>
            /\ Typed(Names, Exprs(n), c, c) /\ Typed(Names, [i \in 1 .. n |-> Load], c, c)
            /\ Typed(Names, <<Expr>>, c, c) /\ Typed(Names, <<PrintValues(n), Load>>, c, c)
            /\ Typed(Names, <<Call(n)>>, c, c) /\ Typed(Names, <<MakeArray(n)>>, c, c)
            /\ Typed(Names, <<NewStruct(n)>>, c, c)
    BY FlatTuples, FlatKinds, FlatEmits, TypedExprs, LoadsFlat
  <1>3. CASE CompilePrint
    <2>1. PICK n \in Nat : Compound("print", Exprs(n) \o <<PrintValues(n), Load>>)
      BY <1>1, <1>3 DEF CompilePrint
    <2>2. \A c \in Contexts : ~c.looped =>
              Typed(Names, Exprs(n) \o <<PrintValues(n), Load>>, c, c)
      BY <1>2, TypedConcat
    <2> QED BY <2>1, <2>2, CompoundAnnotates DEF Ready
  <1>4. CASE CompileCall
    <2>1. PICK n \in Nat : Compound("call", <<Expr>> \o Exprs(n) \o <<Call(n)>>)
      BY <1>1, <1>4 DEF CompileCall
    <2>2. \A c \in Contexts : ~c.looped => Typed(Names, <<Expr>> \o Exprs(n), c, c)
      BY <1>2, TypedConcat
    <2>3. \A c \in Contexts : ~c.looped =>
              Typed(Names, <<Expr>> \o Exprs(n) \o <<Call(n)>>, c, c)
      BY <1>2, <2>2, TypedConcat
    <2> QED BY <2>1, <2>3, CompoundAnnotates DEF Ready
  <1>5. CASE CompileArray
    <2>1. PICK n \in Nat : Compound("array", Exprs(n) \o <<MakeArray(n)>>)
      BY <1>1, <1>5 DEF CompileArray
    <2>2. \A c \in Contexts : ~c.looped => Typed(Names, Exprs(n) \o <<MakeArray(n)>>, c, c)
      BY <1>2, TypedConcat
    <2> QED BY <2>1, <2>2, CompoundAnnotates DEF Ready
  <1>6. CASE CompileNew
    <2>1. PICK n \in Nat :
              Compound("new", Exprs(n) \o [i \in 1..n |-> Load] \o <<NewStruct(n)>>)
      BY <1>1, <1>6 DEF CompileNew
    <2>2. \A c \in Contexts : ~c.looped => Typed(Names, Exprs(n) \o [i \in 1..n |-> Load], c, c)
      BY <1>2, TypedConcat
    <2>3. \A c \in Contexts : ~c.looped =>
              Typed(Names, Exprs(n) \o [i \in 1..n |-> Load] \o <<NewStruct(n)>>, c, c)
      BY <1>2, <2>2, TypedConcat
    <2> QED BY <2>1, <2>3, CompoundAnnotates DEF Ready
  <1>7. CASE CompileMatch
    <2>1. PICK n \in Nat, wildcard \in BOOLEAN, last \in BOOLEAN :
              Compound("match", MatchTasks(n, wildcard, last))
      BY <1>1, <1>7 DEF CompileMatch, Match
    <2>2. \A c \in Contexts : ~c.looped =>
              Typed(Names, MatchTasks(n, wildcard, last), c, c)
      BY TypedMatch
    <2> QED BY <2>1, <2>2, CompoundAnnotates DEF Ready
  <1> QED
    BY <1>3, <1>4, <1>5, <1>6, <1>7

----------------------------------------------------------------------------
(* A statement in a while of the source is in the innermost loop of        *)
(* loop_stack_.                                                            *)
LEMMA MarkFree ==
    ASSUME NEW ns, NEW t, NEW a, NEW b, Leads(ns, t, a, b), ~a.looped,
           t.do \notin {"loop", "pushLoop", "leaveFunction"}
    PROVE  ~b.looped /\ b.loops = a.loops /\ b.saved = a.saved
  BY DEF Leads, KeepsPlace, KeepsScopes, KeepsLoops, KeepsCounts

LEMMA LoopIsAround ==
    ASSUME NEW a, NEW z, Typed(Names, todo, a, z), TaskIs("statements"), Around = "loop"
    PROVE  InLoop(a)
  <1>1. PICK f : Annotates(f, Names, todo, a, z)
    BY DEF Typed
  <1>2. PICK n : n = Len(todo)
    OBVIOUS
  <1>3. n \in Nat /\ n > 0 /\ DOMAIN todo = 1 .. n /\ Head(todo) = todo[1]
    BY <1>2, SequenceFacts DEF Typed, TaskIs
  <1>4. f[1] = a /\ \A i \in 1 .. n : Leads(Names, todo[i], f[i], f[i + 1])
    BY <1>1, <1>2 DEF Annotates
  <1>5. ~a.looped
    <2>1. 1 \in 1 .. n
      BY <1>3
    <2>2. Leads(Names, todo[1], a, f[1 + 1]) /\ todo[1].do = "statements"
      BY <1>3, <1>4, <2>1 DEF TaskIs, Task
    <2> QED BY <2>2, CompositeKeeps DEF Composite
  <1>6. PICK marks : marks = {i \in DOMAIN todo :
                                  todo[i].do \in {"loop", "pushLoop", "leaveFunction"}}
    OBVIOUS
  <1>7. marks # {} /\ todo[CHOOSE i \in marks : \A j \in marks : i <= j].do = "loop"
    BY <1>6, Zenon DEF Around
  <1>8. PICK first : first = CHOOSE i \in marks : \A j \in marks : i <= j
    OBVIOUS
  <1>9. first \in marks /\ \A j \in marks : first <= j
    <2>1. marks \subseteq Nat
      BY <1>3, <1>6
    <2>2. \E i \in marks : \A j \in marks : i <= j
      BY <1>7, <2>1, Least
    <2> QED BY <1>8, <2>2, Zenon
  <1>10. first \in 1 .. n /\ todo[first].do = "loop"
    BY <1>3, <1>6, <1>7, <1>8, <1>9
  <1>11. PICK T : T = {i \in 1 .. n : ~f[i].looped /\ f[i].loops = a.loops /\ f[i].saved = a.saved}
    OBVIOUS
  <1>12. \A i \in 1 .. first : i \in T
    <2>1. 1 \in T
      BY <1>3, <1>4, <1>5, <1>11
    <2>2. ASSUME NEW i \in 1 .. (first - 1), i \in T PROVE i + 1 \in T
      <3>1. i \in 1 .. n /\ i + 1 \in 1 .. n /\ i < first
        BY <1>3, <1>10
      <3>2. i \notin marks
        <4>1. ~(first <= i)
          BY <1>3, <1>10, <3>1
        <4> QED BY ONLY <1>9, <4>1
      <3>3. todo[i].do \notin {"loop", "pushLoop", "leaveFunction"}
        BY <1>3, <1>6, <3>1, <3>2
      <3>4. ~f[i + 1].looped /\ f[i + 1].loops = f[i].loops /\ f[i + 1].saved = f[i].saved
        BY <1>4, <1>11, <2>2, <3>1, <3>3, MarkFree
      <3> QED BY <1>11, <2>2, <3>1, <3>4
    <2>3. 1 \in Nat /\ first \in Nat
      BY <1>10
    <2> QED BY <2>1, <2>2, <2>3, UpTo
  <1>13. Leads(Names, todo[first], f[first], f[first + 1]) /\ first \in T
    BY <1>4, <1>10, <1>12
  <1>14. InLoop(f[first])
    BY <1>10, <1>13 DEF Leads, Plain, Composite
  <1> QED
    BY <1>11, <1>13, <1>14 DEF InLoop

LEMMA InLoopFound ==
    ASSUME NEW a \in Contexts, Fits(a), InLoop(a)
    PROVE  loops # <<>> /\ loops[Len(loops)].level = Level
  <1>1. a.loops \in Seq(Nat) /\ a.saved \in Seq(Nat)
    BY ContextFields
  <1>2. Len(loops) = Len(a.loops) /\ Level = Len(a.saved)
        /\ \A i \in 1 .. Len(loops) : loops[i].level = a.loops[i]
    BY DEF Fits
  <1>3. Len(a.loops) \in Nat /\ Len(a.loops) > 0 /\ a.loops[Len(a.loops)] = Len(a.saved)
    BY <1>1 DEF InLoop
  <1>4. loops # <<>>
    BY <1>2, <1>3
  <1>5. Len(loops) \in 1 .. Len(loops)
    BY <1>2, <1>3
  <1> QED
    BY <1>2, <1>3, <1>4, <1>5

----------------------------------------------------------------------------
(* The other steps keep the tasks and their contexts in order.             *)
LEMMA TaskAnnotates ==
    ASSUME Ready, language' = language, todo # <<>>, Task.do \in Composite,
           NEW tasks, todo' = tasks \o Tail(todo),
           \A c \in Contexts : Fits(c) => Fits(c)',
           \A c \in Contexts : ~c.looped => Typed(Names, tasks, c, c)
    PROVE  Annotated'
  <1>1. PICK a, b, z \in Contexts :
            /\ Fits(a) /\ Typed(Names, todo, a, z)
            /\ Leads(Names, Task, a, b) /\ Typed(Names, Tail(todo), b, z)
    BY Begin DEF Ready
  <1>2. b = a /\ ~a.looped
    BY <1>1, CompositeKeeps
  <1>3. Typed(Names, tasks, a, b) /\ Names' = Names /\ Fits(a)'
    BY <1>1, <1>2 DEF Names
  <1> QED
    BY <1>1, <1>3, Finish

LEMMA Advance ==
    ASSUME Ready, language' = language, todo # <<>>, todo' = Tail(todo),
           \A a, b \in Contexts : Leads(Names, Task, a, b) /\ Fits(a) => Fits(b)'
    PROVE  Annotated'
  <1>1. PICK a, b, z \in Contexts :
            /\ Fits(a) /\ Typed(Names, todo, a, z)
            /\ Leads(Names, Task, a, b) /\ Typed(Names, Tail(todo), b, z)
    BY Begin DEF Ready
  <1>2. Fits(b)' /\ Typed(Names', todo', b, z)
    BY <1>1 DEF Names
  <1>3. \E x, y : Typed(Names', todo', x, y) /\ Fits(x)'
    BY <1>2
  <1> QED
    BY <1>3 DEF Annotated

LEMMA EndStatementsAnnotates ==
    ASSUME Ready, language' = language, EndStatements
    PROVE  Annotated'
  <1>1. todo # <<>> /\ Task.do = "statements" /\ todo' = Tail(todo)
    BY DEF EndStatements, TaskIs
  <1>2. \A a, b \in Contexts : Leads(Names, Task, a, b) => b = a
    BY <1>1, CompositeKeeps DEF Composite
  <1>3. \A c \in Contexts : Fits(c) => Fits(c)'
    BY SameFits DEF EndStatements
  <1> QED
    BY <1>1, <1>2, <1>3, Advance

(* The instructions, and the ends of declarations.                         *)
LEMMA PlainAnnotates ==
    ASSUME Ready, language' = language, todo # <<>>, Task.do \in Plain, todo' = Tail(todo),
           \A c \in Contexts : Fits(c) => Fits(c)'
    PROVE  Annotated'
  <1>1. \A a, b \in Contexts : Leads(Names, Task, a, b) => b = a
    BY PlainKeeps
  <1> QED
    BY <1>1, Advance

LEMMA SimpleTasks ==
    ASSUME Ready, language' = language,
           EmitInstruction \/ DeclareLocal \/ MarkInitialized \/ DeclareFunction
    PROVE  Annotated'
  <1>1. todo # <<>> /\ Task.do \in Plain /\ todo' = Tail(todo)
    BY DEF EmitInstruction, DeclareLocal, MarkInitialized, DeclareFunction, TaskIs, Plain
  <1>2. nodes' = nodes /\ UNCHANGED <<depth, outer, loops, jumps>>
    BY DEF EmitInstruction, DeclareLocal, MarkInitialized, DeclareFunction
  <1>3. \A c \in Contexts : Fits(c) => Fits(c)'
    BY <1>2, SameFits
  <1> QED
    BY <1>1, <1>3, PlainAnnotates

LEMMA EmitExitAnnotates ==
    ASSUME Ready, language' = language, EmitExit
    PROVE  Annotated'
  <1>1. todo # <<>> /\ Task.do \in {"return", "loop", "continue"} /\ todo' = Tail(todo)
    BY DEF EmitExit, TaskIs
  <1>2. \A c \in Contexts : Fits(c) => Fits(c)'
    BY SameFits DEF EmitExit
  <1>3. ASSUME NEW a \in Contexts, NEW b \in Contexts, Leads(Names, Task, a, b), Fits(a)
        PROVE  Fits(b)'
    <2>1. /\ b.loops = a.loops /\ KeepsScopes(a, b) /\ KeepsCounts(a, b)
      BY <1>1, <1>3 DEF Leads, Plain, Composite, KeepsScopes, KeepsCounts
    <2>2. Fits(a)'
      BY <1>2, <1>3
    <2>3. Fits(b)'
      BY <2>1, <2>2 DEF Fits, KeepsScopes, KeepsCounts
    <2> QED BY <2>3
  <1> QED
    BY <1>1, <1>3, Advance

LEMMA EmitJumpAnnotates ==
    ASSUME Ready, language' = language, IsSequence(jumps), EmitJump
    PROVE  Annotated'
  <1>1. todo # <<>> /\ Task.do \in {"jump", "jumpIfFalse"} /\ todo' = Tail(todo)
        /\ jumps' = Append(jumps, point) /\ UNCHANGED <<depth, outer, loops, nodes, language>>
    BY DEF EmitJump, TaskIs
  <1>2. Len(jumps') = Len(jumps) + 1
    <2>1. PICK T : jumps \in Seq(T)
      BY DEF IsSequence
    <2>2. jumps \in Seq(T \cup {point})
      BY <2>1
    <2> QED BY <1>1, <2>2
  <1>3. ASSUME NEW a \in Contexts, NEW b \in Contexts, Leads(Names, Task, a, b), Fits(a)
        PROVE  Fits(b)'
    <2>1. /\ b.loops = a.loops /\ KeepsScopes(a, b) /\ b.chain = a.chain
          /\ b.pending = a.pending + 1
      BY <1>1, <1>3 DEF Leads, Plain, Composite, KeepsPlace, KeepsScopes, KeepsLoops
    <2>2. Len(jumps') = b.pending
      BY <1>2, <1>3, <2>1 DEF Fits
    <2>3. MaxNodes' = MaxNodes /\ Level' = Level
      BY <1>1 DEF MaxNodes, Level
    <2> QED BY <1>1, <1>3, <2>1, <2>2, <2>3 DEF Fits, KeepsScopes
  <1> QED
    BY <1>1, <1>3, Advance

LEMMA PatchJumpAnnotates ==
    ASSUME Ready, language' = language, IsSequence(jumps), PatchJump
    PROVE  Annotated'
  <1>1. todo # <<>> /\ Task.do = "patch" /\ todo' = Tail(todo)
        /\ UNCHANGED <<depth, outer, loops, nodes, language>>
    BY DEF PatchJump, TaskIs
  <1>2. PICK p : p = Patched
    OBVIOUS
  <1>3. jumps' = [i \in 1..(Len(jumps) - 1) |-> jumps[IF i < p THEN i ELSE i + 1]]
    BY <1>2 DEF PatchJump
  <1>4. ASSUME NEW a \in Contexts, NEW b \in Contexts, Leads(Names, Task, a, b), Fits(a)
        PROVE  Fits(b)'
    <2>1. /\ b.loops = a.loops /\ KeepsScopes(a, b) /\ b.chain = a.chain
          /\ b.pending = a.pending - 1 /\ Task.nth \in 1 .. a.pending
      BY <1>1, <1>4 DEF Leads, Plain, Composite, KeepsPlace, KeepsScopes, KeepsLoops
    <2>2. Len(jumps) = a.pending /\ a.pending \in Nat
      BY <1>4, ContextFields DEF Fits
    <2>3. Len(jumps) - 1 \in Nat
      BY <2>1, <2>2
    <2>4. Len(jumps') = Len(jumps) - 1
      BY <1>3, <2>3
    <2>5. Len(jumps') = b.pending
      BY <2>1, <2>2, <2>4
    <2>6. MaxNodes' = MaxNodes /\ Level' = Level
      BY <1>1 DEF MaxNodes, Level
    <2> QED BY <1>1, <1>4, <2>1, <2>5, <2>6 DEF Fits, KeepsScopes
  <1> QED
    BY <1>1, <1>4, Advance

LEMMA BeginScopeAnnotates ==
    ASSUME Ready, language' = language, BeginScope
    PROVE  Annotated'
  <1>1. todo # <<>> /\ Task.do = "begin" /\ todo' = Tail(todo) /\ depth' = depth + 1
        /\ UNCHANGED <<jumps, outer, loops, nodes, language>>
    BY DEF BeginScope, TaskIs
  <1>2. ASSUME NEW a \in Contexts, NEW b \in Contexts, Leads(Names, Task, a, b), Fits(a)
        PROVE  Fits(b)'
    <2>1. /\ b.loops = a.loops /\ b.saved = a.saved /\ b.depth = a.depth + 1
          /\ b.pending = a.pending /\ b.chain = a.chain
      BY <1>1, <1>2 DEF Leads, Plain, Composite, KeepsLoops, KeepsCounts
    <2>2. MaxNodes' = MaxNodes /\ Level' = Level
      BY <1>1 DEF MaxNodes, Level
    <2> QED BY <1>1, <1>2, <2>1, <2>2 DEF Fits
  <1> QED
    BY <1>1, <1>2, Advance

LEMMA EndScopeAnnotates ==
    ASSUME Ready, language' = language, EndScope
    PROVE  Annotated'
  <1>1. todo # <<>> /\ Task.do = "end" /\ todo' = Tail(todo) /\ depth' = depth - 1
        /\ UNCHANGED <<jumps, outer, loops, nodes, language>>
    BY DEF EndScope, TaskIs
  <1>2. ASSUME NEW a \in Contexts, NEW b \in Contexts, Leads(Names, Task, a, b), Fits(a)
        PROVE  Fits(b)'
    <2>1. /\ b.loops = a.loops /\ b.saved = a.saved /\ a.depth = b.depth + 1
          /\ b.pending = a.pending /\ b.chain = a.chain
      BY <1>1, <1>2 DEF Leads, Plain, Composite, KeepsLoops, KeepsCounts
    <2>2. depth' = b.depth
      <3>1. b.depth \in Nat /\ depth = a.depth
        BY <1>2, ContextFields DEF Fits
      <3> QED BY <1>1, <2>1, <3>1
    <2>3. MaxNodes' = MaxNodes /\ Level' = Level
      BY <1>1 DEF MaxNodes, Level
    <2> QED BY <1>1, <1>2, <2>1, <2>2, <2>3 DEF Fits
  <1> QED
    BY <1>1, <1>2, Advance

----------------------------------------------------------------------------
(* Records keep their fields.                                              *)
IsLoop(l) == l = [level |-> l.level, depth |-> l.depth, start |-> l.start, breaks |-> l.breaks]
IsSaved(r) == r = [locals |-> r.locals, upvalues |-> r.upvalues, depth |-> r.depth,
                   point |-> r.point, open |-> r.open]

Shapes ==
    /\ IsSequence(outer) /\ IsSequence(loops) /\ IsSequence(jumps)
    /\ \A i \in DOMAIN outer : IsSaved(outer[i])
    /\ \A i \in DOMAIN loops : IsLoop(loops[i])

LEMMA AppendFacts ==
    ASSUME NEW s, IsSequence(s), NEW x
    PROVE  /\ IsSequence(Append(s, x)) /\ Len(Append(s, x)) = Len(s) + 1
           /\ \A i \in 1 .. Len(s) : Append(s, x)[i] = s[i]
           /\ Append(s, x)[Len(s) + 1] = x
  <1>1. PICK T : s \in Seq(T)
    BY DEF IsSequence
  <1>2. s \in Seq(T \cup {x}) /\ x \in T \cup {x}
    BY <1>1
  <1>3. /\ Append(s, x) \in Seq(T \cup {x}) /\ Len(Append(s, x)) = Len(s) + 1
        /\ \A i \in 1 .. Len(s) : Append(s, x)[i] = s[i]
        /\ Append(s, x)[Len(s) + 1] = x
    BY ONLY <1>2
  <1> QED
    BY <1>3 DEF IsSequence

LEMMA DropFacts ==
    ASSUME NEW s, IsSequence(s), NEW n \in 0 .. Len(s)
    PROVE  /\ IsSequence(Drop(s, n)) /\ Len(Drop(s, n)) = Len(s) - n
           /\ \A i \in 1 .. Len(s) - n : Drop(s, n)[i] = s[i]
  <1>1. PICK T : s \in Seq(T)
    BY DEF IsSequence
  <1>2. Len(s) - n \in 0 .. Len(s)
    BY <1>1
  <1>3. PICK m : m = Len(s) - n
    OBVIOUS
  <1>4. m \in 0 .. Len(s) /\ 1 \in 1 .. Len(s) + 1 /\ m \in Nat
    BY <1>1, <1>2, <1>3
  <1>5. SubSeq(s, 1, m) \in Seq(T) /\ Len(SubSeq(s, 1, m)) = m
        /\ \A i \in 1 .. m : SubSeq(s, 1, m)[i] = s[i]
    BY <1>1, <1>4, SubSeqProperties
  <1> QED
    BY <1>3, <1>5 DEF Drop, IsSequence

LEMMA WithBreak ==
    ASSUME Shapes, NEW u, NEW n,
           loops' = [loops EXCEPT ![n].breaks = @ \cup u]
    PROVE  /\ Len(loops') = Len(loops) /\ IsSequence(loops')
           /\ \A i \in 1 .. Len(loops) : /\ loops'[i].level = loops[i].level
                                         /\ loops'[i].depth = loops[i].depth
                                         /\ loops'[i].start = loops[i].start
                                         /\ loops'[i].breaks \subseteq loops[i].breaks \cup u
                                         /\ IsLoop(loops'[i])
  <1>1. PICK T : loops \in Seq(T)
    BY DEF Shapes, IsSequence
  <1>2. PICK v : v = loops'
    OBVIOUS
  <1>3. PICK m \in Nat : m = Len(loops)
    BY <1>1
  <1>4. PICK l : l = loops
    OBVIOUS
  <1>5. DOMAIN l = 1 .. m /\ \A i \in 1 .. m : IsLoop(l[i])
    BY <1>1, <1>3, <1>4 DEF Shapes
  <1>6. v = [i \in 1 .. m |-> IF i = n THEN [l[i] EXCEPT !.breaks = @ \cup u] ELSE l[i]]
    BY <1>1, <1>2, <1>4, <1>5
  <1>7. \A i \in 1 .. m : /\ v[i].level = l[i].level /\ v[i].depth = l[i].depth
                          /\ v[i].start = l[i].start /\ v[i].breaks \subseteq l[i].breaks \cup u
                          /\ IsLoop(v[i])
    <2> TAKE i \in 1 .. m
    <2>1. PICK r : r = l[i]
      OBVIOUS
    <2>2. r = [level |-> r.level, depth |-> r.depth, start |-> r.start, breaks |-> r.breaks]
      BY ONLY <1>5, <2>1, i \in 1 .. m, Zenon DEF IsLoop
    <2>3. PICK q : q = [r EXCEPT !.breaks = @ \cup u]
      OBVIOUS
    <2>4. /\ q = [level |-> r.level, depth |-> r.depth, start |-> r.start, breaks |-> r.breaks \cup u]
      BY ONLY <2>2, <2>3
    <2>5. /\ q.level = r.level /\ q.depth = r.depth /\ q.start = r.start /\ q.breaks = r.breaks \cup u
      BY ONLY <2>4
    <2>6. IsLoop(q)
      BY ONLY <2>4, <2>5, Zenon DEF IsLoop
    <2>7. v[i] = q \/ v[i] = r
      BY ONLY <1>6, <2>1, <2>3, i \in 1 .. m
    <2>8. CASE v[i] = q
      BY ONLY <2>1, <2>5, <2>6, <2>8
    <2>9. CASE v[i] = r
      <3>1. IsLoop(v[i])
        BY ONLY <1>5, <2>1, <2>9, i \in 1 .. m
      <3> QED BY ONLY <2>1, <2>9, <3>1
    <2> QED BY ONLY <2>7, <2>8, <2>9
  <1>8. Len(v) = m /\ IsSequence(v)
    <2>1. v \in Seq({v[i] : i \in 1 .. m})
      BY ONLY <1>6, m \in Nat
    <2>2. Len(v) = m
      BY ONLY <1>6, m \in Nat
    <2> QED BY <2>1, <2>2 DEF IsSequence
  <1> QED
    BY ONLY <1>2, <1>3, <1>4, <1>7, <1>8

LEMMA EmitBreakAnnotates ==
    ASSUME Ready, Shapes, language' = language, EmitBreak
    PROVE  Annotated'
  <1>1. todo # <<>> /\ Task.do \in Plain /\ todo' = Tail(todo)
        /\ UNCHANGED <<depth, outer, jumps, nodes, language>>
    BY DEF EmitBreak, TaskIs, Plain
  <1>2. Len(loops') = Len(loops) /\ \A i \in 1 .. Len(loops) : loops'[i].level = loops[i].level
    BY WithBreak DEF EmitBreak
  <1>3. MaxNodes' = MaxNodes /\ Level' = Level
    BY <1>1 DEF MaxNodes, Level
  <1>4. \A c \in Contexts : Fits(c) => Fits(c)'
    BY <1>1, <1>2, <1>3 DEF Fits
  <1> QED
    BY <1>1, <1>4, PlainAnnotates

LEMMA PushedLoop ==
    ASSUME Shapes, NEW start, loops' = Append(loops, Loop(start)),
           UNCHANGED <<depth, outer, jumps, language>>,
           NEW a \in Contexts, NEW b \in Contexts, Fits(a),
           b.loops = Append(a.loops, Len(a.saved)), KeepsScopes(a, b), KeepsCounts(a, b),
           a.chain <= nodes', nodes' + a.chain <= 2 * MaxNodes
    PROVE  Fits(b)'
  <1>1. /\ Len(loops') = Len(loops) + 1 /\ loops'[Len(loops) + 1].level = Level
        /\ \A i \in 1 .. Len(loops) : loops'[i] = loops[i]
    BY AppendFacts DEF Shapes, Loop
  <1>2. a.loops \in Seq(Nat) /\ Len(a.saved) \in Nat
    BY ContextFields
  <1>3. /\ Len(b.loops) = Len(a.loops) + 1 /\ b.loops[Len(a.loops) + 1] = Len(a.saved)
        /\ \A i \in 1 .. Len(a.loops) : b.loops[i] = a.loops[i]
    BY <1>2
  <1>4. Len(loops) \in Nat /\ Len(a.loops) = Len(loops) /\ Len(a.saved) = Level
    BY <1>2 DEF Fits
  <1>5. Len(loops') = Len(b.loops)
    BY <1>1, <1>3, <1>4
  <1>6. ASSUME NEW i \in 1 .. Len(loops') PROVE loops'[i].level = b.loops[i]
    <2>1. CASE i \in 1 .. Len(loops)
      BY <1>1, <1>3, <1>4, <2>1 DEF Fits
    <2>2. CASE i = Len(loops) + 1
      BY <1>1, <1>3, <1>4, <2>2
    <2> QED BY <1>1, <1>4, <2>1, <2>2
  <1>7. MaxNodes' = MaxNodes /\ Level' = Level
    BY DEF MaxNodes, Level
  <1> QED
    BY <1>5, <1>6, <1>7 DEF Fits, KeepsScopes, KeepsCounts

LEMMA PushLoopAnnotates ==
    ASSUME Ready, Shapes, language' = language, PushLoop
    PROVE  Annotated'
  <1>1. todo # <<>> /\ Task.do = "pushLoop" /\ todo' = Tail(todo)
        /\ loops' = Append(loops, Loop(Task.start)) /\ UNCHANGED <<depth, outer, jumps, nodes, language>>
    BY DEF PushLoop, TaskIs
  <1>2. ASSUME NEW a \in Contexts, NEW b \in Contexts, Leads(Names, Task, a, b), Fits(a)
        PROVE  Fits(b)'
    <2>1. b.loops = Append(a.loops, Len(a.saved)) /\ KeepsScopes(a, b) /\ KeepsCounts(a, b)
      BY <1>1, <1>2 DEF Leads, Plain, Composite
    <2>2. a.chain <= nodes' /\ nodes' + a.chain <= 2 * MaxNodes
      BY <1>1, <1>2 DEF Fits
    <2> QED BY <1>1, <1>2, <2>1, <2>2, PushedLoop
  <1> QED
    BY <1>1, <1>2, Advance

LEMMA EndLoopAnnotates ==
    ASSUME Ready, Shapes, language' = language, EndLoop
    PROVE  Annotated'
  <1>1. todo # <<>> /\ Task.do = "endLoop" /\ todo' = Tail(todo)
        /\ loops' = Drop(loops, 1) /\ UNCHANGED <<depth, outer, jumps, nodes, language>>
    BY DEF EndLoop, TaskIs
  <1>2. ASSUME NEW a \in Contexts, NEW b \in Contexts, Leads(Names, Task, a, b), Fits(a)
        PROVE  Fits(b)'
    <2>1. a.loops = Append(b.loops, Len(a.saved)) /\ KeepsScopes(a, b) /\ KeepsCounts(a, b)
      BY <1>1, <1>2 DEF Leads, Plain, Composite
    <2>2. b.loops \in Seq(Nat) /\ Len(a.saved) \in Nat /\ Len(b.loops) \in Nat
      BY <1>2, ContextFields
    <2>3. Len(a.loops) = Len(b.loops) + 1 /\ \A i \in 1 .. Len(b.loops) : a.loops[i] = b.loops[i]
      BY <2>1, <2>2
    <2>4. Len(loops) = Len(b.loops) + 1
      BY <1>2, <2>3 DEF Fits
    <2>5. 1 \in 0 .. Len(loops) /\ Len(loops) - 1 = Len(b.loops)
      BY <2>2, <2>4
    <2>6. Len(loops') = Len(b.loops) /\ \A i \in 1 .. Len(b.loops) : loops'[i] = loops[i]
      BY <1>1, <2>5, DropFacts DEF Shapes
    <2>7. \A i \in 1 .. Len(loops') : loops'[i].level = b.loops[i]
      BY <1>2, <2>2, <2>3, <2>4, <2>6 DEF Fits
    <2>8. MaxNodes' = MaxNodes /\ Level' = Level
      BY <1>1 DEF MaxNodes, Level
    <2> QED BY <1>1, <1>2, <2>1, <2>6, <2>7, <2>8 DEF Fits, KeepsScopes, KeepsCounts
  <1> QED
    BY <1>1, <1>2, Advance

LEMMA CompileWhileAnnotates ==
    ASSUME Ready, Shapes, language' = language, CompileWhile
    PROVE  Annotated'
  <1>1. PICK tasks : tasks = <<Expr, JumpIfFalse, Pop, Block, Do("loop"), Patch(1),
                               Pop, Do("endLoop")>>
    OBVIOUS
  <1>2. /\ todo # <<>> /\ Task.do = "statements" /\ todo' = tasks \o todo
        /\ nodes < MaxNodes /\ nodes' = nodes + 1
        /\ loops' = Append(loops, Loop(point)) /\ UNCHANGED <<depth, outer, jumps, language>>
    BY <1>1 DEF CompileWhile, Statement, TaskIs
  <1>3. PICK a, b, z \in Contexts :
            /\ Fits(a) /\ Typed(Names, todo, a, z)
            /\ Leads(Names, Task, a, b) /\ Typed(Names, Tail(todo), b, z)
    BY <1>2, Begin DEF Ready
  <1>4. ~a.looped
    BY <1>2, <1>3, CompositeKeeps DEF Composite
  <1>5. PICK l \in Contexts : l = InNewLoop(a)
    BY InNewLoopContext
  <1>6. Typed(Names, tasks, l, a) /\ Names' = Names
    BY <1>1, <1>2, <1>4, <1>5, TypedWhile DEF Names
  <1>7. l.loops = Append(a.loops, Len(a.saved)) /\ KeepsScopes(a, l) /\ KeepsCounts(a, l)
    BY <1>5, InNewLoopContext DEF KeepsScopes, KeepsCounts
  <1>8. a.chain <= nodes' /\ nodes' + a.chain <= 2 * MaxNodes
    <2>1. a.chain \in Nat /\ MaxNodes \in Nat /\ nodes \in Nat
      BY ContextFields, LanguageFacts DEF Ready
    <2>2. a.chain <= nodes
      BY <1>3 DEF Fits
    <2> QED BY <1>2, <2>1, <2>2
  <1>9. Fits(l)'
    BY <1>2, <1>3, <1>7, <1>8, PushedLoop
  <1> QED
    BY <1>2, <1>3, <1>6, <1>9, Finish

LEMMA DeeperFits ==
    ASSUME NEW a \in Contexts, Fits(a), depth' = depth + 1,
           UNCHANGED <<outer, loops, jumps, language>>,
           a.chain <= nodes', nodes' + a.chain <= 2 * MaxNodes
    PROVE  Fits(Deeper(a))'
  <1>1. PICK d : d = Deeper(a)
    OBVIOUS
  <1>2. /\ d.depth = a.depth + 1 /\ d.saved = a.saved /\ d.loops = a.loops
        /\ d.pending = a.pending /\ d.chain = a.chain
    BY <1>1, DeeperContext
  <1>3. MaxNodes' = MaxNodes /\ Level' = Level
    BY DEF MaxNodes, Level
  <1>4. Fits(d)'
    BY <1>2, <1>3 DEF Fits
  <1> QED
    BY <1>1, <1>4

LEMMA NodeCounts ==
    ASSUME Ready, NEW a \in Contexts, Fits(a),
           nodes' = nodes \/ (nodes < MaxNodes /\ nodes' = nodes + 1)
    PROVE  a.chain <= nodes' /\ nodes' + a.chain <= 2 * MaxNodes
  <1>1. a.chain \in Nat /\ MaxNodes \in Nat /\ nodes \in Nat
    BY ContextFields, LanguageFacts DEF Ready
  <1>2. a.chain <= nodes /\ nodes + a.chain <= 2 * MaxNodes
    BY DEF Fits
  <1> QED
    BY <1>1, <1>2

LEMMA CompileBlockAnnotates ==
    ASSUME Ready, Shapes, language' = language, CompileBlock
    PROVE  Annotated'
  <1>1. PICK tasks : tasks = <<Statements, Do("end")>>
    OBVIOUS
  <1>2. todo # <<>> /\ Task.do \in {"statements", "block"} /\ depth' = depth + 1
        /\ UNCHANGED <<outer, loops, jumps, language>>
        /\ (nodes' = nodes \/ (nodes < MaxNodes /\ nodes' = nodes + 1))
    BY DEF CompileBlock, Statement, TaskIs
  <1>3. \/ todo' = tasks \o todo
        \/ todo' = tasks \o Tail(todo)
    BY <1>1 DEF CompileBlock, Statement
  <1>4. PICK a, b, z \in Contexts :
            /\ Fits(a) /\ Typed(Names, todo, a, z)
            /\ Leads(Names, Task, a, b) /\ Typed(Names, Tail(todo), b, z)
    BY <1>2, Begin DEF Ready
  <1>5. b = a /\ ~a.looped
    BY <1>2, <1>4, CompositeKeeps DEF Composite
  <1>6. Typed(Names, tasks, Deeper(a), a) /\ Names' = Names
    BY <1>1, <1>2, <1>5, TypedBlock DEF Names
  <1>7. Fits(Deeper(a))'
    BY <1>2, <1>4, NodeCounts, DeeperFits
  <1>8. CASE todo' = tasks \o todo
    BY <1>4, <1>6, <1>7, <1>8, Finish
  <1>9. CASE todo' = tasks \o Tail(todo)
    BY <1>4, <1>5, <1>6, <1>7, <1>9, Finish
  <1> QED
    BY <1>3, <1>8, <1>9

LEMMA CompileForAnnotates ==
    ASSUME Ready, Shapes, language' = language, CompileFor
    PROVE  Annotated'
  <1>1. PICK name \in Names :
            /\ Statement("for", <<Expr, [do |-> "for", name |-> name], Do("end")>>)
            /\ depth' = depth + 1 /\ UNCHANGED <<outer, loops, jumps, language>>
    BY DEF CompileFor
  <1>2. PICK tasks : tasks = <<Expr, [do |-> "for", name |-> name], Do("end")>>
    OBVIOUS
  <1>3. todo # <<>> /\ Task.do = "statements" /\ todo' = tasks \o todo
        /\ nodes < MaxNodes /\ nodes' = nodes + 1
    BY <1>1, <1>2 DEF Statement, TaskIs
  <1>4. PICK a, b, z \in Contexts :
            /\ Fits(a) /\ Typed(Names, todo, a, z)
            /\ Leads(Names, Task, a, b) /\ Typed(Names, Tail(todo), b, z)
    BY <1>3, Begin DEF Ready
  <1>5. ~a.looped
    BY <1>3, <1>4, CompositeKeeps DEF Composite
  <1>6. Typed(Names, tasks, Deeper(a), a) /\ Names' = Names
    BY <1>1, <1>2, <1>5, TypedFor DEF Names
  <1>7. Fits(Deeper(a))'
    BY <1>1, <1>3, <1>4, NodeCounts, DeeperFits
  <1> QED
    BY <1>3, <1>4, <1>6, <1>7, Finish

LEMMA CompileForLoopAnnotates ==
    ASSUME Ready, Shapes, language' = language, CompileForLoop
    PROVE  Annotated'
  <1>1. todo # <<>> /\ Task.do = "for"
    BY DEF CompileForLoop, TaskIs
  <1>2. PICK iter, idx, start : todo' = ForTasks(Task.name, iter, idx, start) \o Tail(todo)
    BY DEF CompileForLoop
  <1>3. nodes' = nodes /\ UNCHANGED <<depth, outer, loops, jumps, language>>
    BY DEF CompileForLoop
  <1>4. PICK a, b, z \in Contexts :
            /\ Fits(a) /\ Typed(Names, todo, a, z)
            /\ Leads(Names, Task, a, b) /\ Typed(Names, Tail(todo), b, z)
    BY <1>1, Begin DEF Ready
  <1>5. b = a /\ ~a.looped /\ Task.name \in Names \cup {"$match"}
    BY <1>1, <1>4, CompositeKeeps DEF Composite, Named
  <1>6. Typed(Names, ForTasks(Task.name, iter, idx, start), a, a) /\ Names' = Names
    BY <1>3, <1>5, TypedForTasks DEF Names
  <1>7. Fits(a)'
    BY <1>3, <1>4, SameFits
  <1> QED
    BY <1>2, <1>4, <1>5, <1>6, <1>7, Finish

(* An `else if` to come is one more if than the bound counts.              *)
LEMMA ElseIfFits ==
    ASSUME Ready, NEW a \in Contexts, Fits(a), nodes < MaxNodes, nodes' = nodes + 1,
           UNCHANGED <<depth, outer, loops, jumps, language>>
    PROVE  Fits(ElseIf(a))'
  <1>1. PICK e : e = ElseIf(a)
    OBVIOUS
  <1>2. /\ e.depth = a.depth /\ e.saved = a.saved /\ e.loops = a.loops
        /\ e.pending = a.pending /\ e.chain = a.chain + 1
    BY <1>1, ElseIfContext
  <1>3. MaxNodes' = MaxNodes /\ Level' = Level
    BY DEF MaxNodes, Level
  <1>4. e.chain <= nodes' /\ nodes' + e.chain <= 2 * MaxNodes
    <2>1. a.chain \in Nat /\ MaxNodes \in Nat /\ nodes \in Nat
      BY ContextFields, LanguageFacts DEF Ready
    <2>2. a.chain <= nodes /\ nodes + a.chain <= 2 * MaxNodes
      BY DEF Fits
    <2>3. e.chain = a.chain + 1
      BY <1>2
    <2>4. e.chain <= nodes'
      BY ONLY <2>1, <2>2, <2>3, nodes' = nodes + 1
    <2>5. nodes' + e.chain <= 2 * MaxNodes
      BY ONLY <2>1, <2>2, <2>3, nodes' = nodes + 1, nodes < MaxNodes
    <2> QED BY <2>4, <2>5
  <1>5. Fits(e)'
    BY <1>2, <1>3, <1>4 DEF Fits
  <1> QED
    BY <1>1, <1>5

(* The tasks of an if leave one `else if` or none.                         *)
LEMMA IfTasksAre ==
    ASSUME NEW chain \in BOOLEAN, NEW tasks \in IfTasks(chain), NEW a \in Contexts, ~a.looped
    PROVE  \/ Typed(Names, tasks, a, a)
           \/ chain /\ Typed(Names, tasks, ElseIf(a), a)
  <1>1. \/ tasks = <<Expr, JumpIfFalse, Pop, Block, Patch(1), Pop>>
        \/ tasks = <<Expr, JumpIfFalse, Pop, Block, JumpAway, Patch(2), Pop, Block, Patch(1)>>
        \/ chain /\ tasks = <<Expr, JumpIfFalse, Pop, Block, JumpAway, Patch(2), Pop,
                              Do("elseIf"), Patch(1)>>
    <2>1. PICK base : base = <<Expr, JumpIfFalse, Pop, Block, Patch(1), Pop>>
      OBVIOUS
    <2>2. PICK with : with = [else \in {Block, Do("elseIf")} |->
              <<Expr, JumpIfFalse, Pop, Block, JumpAway, Patch(2), Pop, else, Patch(1)>>]
      OBVIOUS
    <2>3. CASE tasks \in {<<Expr, JumpIfFalse, Pop, Block, Patch(1), Pop>>}
      BY <2>3
    <2>4. CASE tasks \in
              {<<Expr, JumpIfFalse, Pop, Block, JumpAway, Patch(2), Pop, else, Patch(1)>> :
                   else \in {Block} \cup IF chain THEN {Do("elseIf")} ELSE {}}
      <3>1. PICK else \in {Block} \cup IF chain THEN {Do("elseIf")} ELSE {} :
                tasks = <<Expr, JumpIfFalse, Pop, Block, JumpAway, Patch(2), Pop, else, Patch(1)>>
        BY <2>4, Zenon
      <3>2. else = Block \/ (chain /\ else = Do("elseIf"))
        BY <3>1
      <3> QED BY <3>1, <3>2, Zenon
    <2> QED BY <2>3, <2>4, Zenon DEF IfTasks
  <1> QED
    BY <1>1, TypedIf, TypedIfElse, TypedIfChain

LEMMA CompileIfAnnotates ==
    ASSUME Ready, Shapes, language' = language, CompileIf
    PROVE  Annotated'
  <1>1. PICK chain \in BOOLEAN : chain <=> nodes < MaxNodes
    OBVIOUS
  <1>2. PICK tasks \in IfTasks(chain) :
            /\ \/ Statement("if", tasks)
               \/ /\ TaskIs("elseIf")
                  /\ todo' = tasks \o Tail(todo)
                  /\ nodes' = nodes + 1
            /\ UNCHANGED <<depth, outer, loops, jumps, language>>
    <2>1. PICK c : c = (nodes < MaxNodes)
      OBVIOUS
    <2>2. c = chain
      BY <1>1, <2>1
    <2> QED BY <2>1, <2>2 DEF CompileIf
  <1>3. todo # <<>> /\ nodes' = nodes + 1
    BY <1>2 DEF Statement, TaskIs
  <1>4. PICK a, b, z \in Contexts :
            /\ Fits(a) /\ Typed(Names, todo, a, z)
            /\ Leads(Names, Task, a, b) /\ Typed(Names, Tail(todo), b, z)
    BY <1>3, Begin DEF Ready
  <1>5. Names' = Names
    BY DEF Names
  <1>6. CASE Statement("if", tasks)
    <2>1. Task.do = "statements" /\ nodes < MaxNodes /\ todo' = tasks \o todo
      BY <1>6 DEF Statement, TaskIs
    <2>2. ~a.looped
      BY <1>4, <2>1, CompositeKeeps DEF Composite
    <2>3. CASE Typed(Names, tasks, a, a)
      <3>1. Fits(a)'
        BY <1>2, <1>3, <1>4, <2>1, OneMoreNode DEF Ready
      <3> QED BY <1>4, <1>5, <2>1, <2>3, <3>1, Finish
    <2>4. CASE Typed(Names, tasks, ElseIf(a), a)
      <3>1. Fits(ElseIf(a))'
        BY <1>2, <1>3, <1>4, <2>1, ElseIfFits
      <3> QED BY <1>4, <1>5, <2>1, <2>4, <3>1, Finish
    <2> QED BY <1>2, <2>2, <2>3, <2>4, IfTasksAre
  <1>7. CASE TaskIs("elseIf") /\ todo' = tasks \o Tail(todo)
    <2>1. Task.do = "elseIf"
      BY <1>7 DEF TaskIs
    <2>2. /\ ~a.looped /\ KeepsPlace(a, b) /\ b.pending = a.pending /\ a.chain = b.chain + 1
      BY <1>4, <2>1 DEF Leads, Plain, Composite
    <2>3. ~b.looped
      BY <2>2 DEF KeepsPlace, KeepsLoops
    <2>4. MaxNodes' = MaxNodes /\ Level' = Level
      BY <1>2 DEF MaxNodes, Level
    <2>5. /\ a.chain \in Nat /\ b.chain \in Nat /\ MaxNodes \in Nat /\ nodes \in Nat
          /\ a.chain <= nodes /\ nodes + a.chain <= 2 * MaxNodes
      BY <1>4, ContextFields, LanguageFacts DEF Ready, Fits
    <2>6. CASE Typed(Names, tasks, b, b)
      <3>1. b.chain <= nodes' /\ nodes' + b.chain <= 2 * MaxNodes
        BY <1>3, <2>2, <2>5
      <3>2. Fits(b)'
        BY <1>2, <1>4, <2>2, <2>4, <3>1 DEF Fits, KeepsPlace, KeepsScopes, KeepsLoops
      <3> QED BY <1>4, <1>5, <1>7, <2>6, <3>2, Finish
    <2>7. CASE chain /\ Typed(Names, tasks, ElseIf(b), b)
      <3>1. PICK e : e = ElseIf(b)
        OBVIOUS
      <3>2. /\ e.depth = b.depth /\ e.saved = b.saved /\ e.loops = b.loops
            /\ e.pending = b.pending /\ e.chain = b.chain + 1
        BY <3>1, ElseIfContext
      <3>3. nodes < MaxNodes
        BY <1>1, <2>7
      <3>4. e.chain <= nodes'
        BY <1>3, <2>2, <2>5, <3>2
      <3>5. nodes' + e.chain <= 2 * MaxNodes
        BY <1>3, <2>2, <2>5, <3>2, <3>3
      <3>6. Fits(e)'
        BY <1>2, <1>4, <2>2, <2>4, <3>2, <3>4, <3>5 DEF Fits, KeepsPlace, KeepsScopes, KeepsLoops
      <3> QED BY <1>4, <1>5, <1>7, <2>7, <3>1, <3>6, Finish
    <2> QED BY <1>2, <2>3, <2>6, <2>7, IfTasksAre
  <1> QED
    BY <1>2, <1>6, <1>7

LEMMA CompileJumpAnnotates ==
    ASSUME Ready, Shapes, language' = language, CompileBreak \/ CompileContinue
    PROVE  Annotated'
  <1>1. PICK task \in {Do("break"), Do("continue")} : \E form : CompileJump(form, task)
    BY DEF CompileBreak, CompileContinue
  <1>2. PICK tasks : tasks = IF loops = <<>> THEN <<>> ELSE <<task>>
    OBVIOUS
  <1>3. /\ TaskIs("statements") /\ todo' = tasks \o todo
        /\ nodes < MaxNodes /\ nodes' = nodes + 1
        /\ UNCHANGED <<depth, outer, loops, jumps, language>>
    BY <1>1, <1>2, Zenon DEF CompileJump, Statement
  <1>4. todo # <<>> /\ Task.do = "statements"
    BY <1>3 DEF TaskIs
  <1>5. PICK a, b, z \in Contexts :
            /\ Fits(a) /\ Typed(Names, todo, a, z)
            /\ Leads(Names, Task, a, b) /\ Typed(Names, Tail(todo), b, z)
    BY <1>4, Begin DEF Ready
  <1>6. ~a.looped
    BY <1>4, <1>5, CompositeKeeps DEF Composite
  <1>7. Typed(Names, tasks, a, a)
    <2>1. CASE loops = <<>>
      BY <1>2, <2>1, TypedNone
    <2>2. CASE loops # <<>>
      <3>1. Leads(Names, task, a, a)
        <4>1. Flat(Names, task)
          BY <1>1, FlatKinds
        <4> QED BY <4>1, <1>6, FlatTasks DEF Flat
      <3>2. IsSequence(<<task>>)
        <4>1. <<task>> \in Seq({task})
          OBVIOUS
        <4> QED BY <4>1 DEF IsSequence
      <3>3. \A i \in 1 .. Len(<<task>>) : Leads(Names, <<task>>[i], a, a)
        BY <3>1
      <3>4. Typed(Names, <<task>>, a, a)
        BY <3>2, <3>3, TypedFlat
      <3> QED BY <1>2, <2>2, <3>4
    <2> QED BY <2>1, <2>2
  <1>8. Fits(a)'
    BY <1>3, <1>5, OneMoreNode DEF Ready
  <1>9. Names' = Names
    BY DEF Names
  <1> QED
    BY <1>3, <1>5, <1>7, <1>8, <1>9, Finish

LEMMA OneInstruction ==
    ASSUME NEW c \in Contexts, ~c.looped, NEW k, NEW name
    PROVE  /\ Typed(Names, <<Load>>, c, c) /\ Typed(Names, <<SetName>>, c, c)
           /\ Typed(Names, <<Get(k)>>, c, c) /\ Typed(Names, <<Set(k)>>, c, c)
           /\ Typed(Names, <<GetUpvalue(k, name)>>, c, c)
           /\ Typed(Names, <<SetUpvalue(k, name)>>, c, c)
  <1>1. /\ Flat(Names, Load) /\ Flat(Names, SetName) /\ Flat(Names, Get(k)) /\ Flat(Names, Set(k))
        /\ Flat(Names, GetUpvalue(k, name)) /\ Flat(Names, SetUpvalue(k, name))
    BY FlatKinds, FlatEmits
  <1> QED
    BY <1>1, FlatTuples

LEMMA LiteralAndMatchTarget ==
    ASSUME Ready, language' = language, CompileLiteral \/ GetMatch
    PROVE  Annotated'
  <1>1. /\ todo # <<>> /\ Task.do \in Composite
        /\ nodes' = nodes /\ UNCHANGED <<depth, outer, loops, jumps>>
    BY DEF CompileLiteral, GetMatch, TaskIs, Composite
  <1>2. PICK tasks : /\ todo' = tasks \o Tail(todo)
                     /\ tasks = <<Load>> \/ \E k : tasks = <<Get(k)>>
    BY DEF CompileLiteral, GetMatch
  <1>3. \A c \in Contexts : ~c.looped => Typed(Names, tasks, c, c)
    BY <1>2, OneInstruction
  <1>4. \A c \in Contexts : Fits(c) => Fits(c)'
    BY <1>1, SameFits
  <1> QED
    BY <1>1, <1>2, <1>3, <1>4, TaskAnnotates

(* The functions around stay, whatever upvalues they get.                  *)
LEMMA CaptureKeepsDepths ==
    ASSUME Shapes, NEW name, NEW home, NEW resolved, outer' = MarkCaptured(name, home, resolved)
    PROVE  /\ IsSequence(outer') /\ Len(outer') = Len(outer)
           /\ \A i \in 1 .. Len(outer) : /\ IsSaved(outer'[i])
                                         /\ outer'[i].depth = outer[i].depth
                                         /\ outer'[i].point = outer[i].point
                                         /\ outer'[i].open = outer[i].open
  <1>1. PICK n \in Nat : n = Len(outer)
    BY SequenceFacts DEF Shapes
  <1>2. PICK o : o = outer
    OBVIOUS
  <1>3. PICK p : p = outer'
    OBVIOUS
  <1>4. DOMAIN o = 1 .. n /\ \A i \in 1 .. n : IsSaved(o[i])
    BY <1>1, <1>2, SequenceFacts DEF Shapes
  <1>5. PICK slot : slot = ResolveLocal(LocalsOf(home), name)
    OBVIOUS
  <1>6. p = [i \in 1 .. n |->
                CASE i - 1 > home -> [o[i] EXCEPT !.upvalues = resolved[i - 1].table]
                  [] i - 1 = home -> [o[i] EXCEPT !.locals[slot].captured = TRUE]
                  [] OTHER -> o[i]]
    <2>1. p = [i \in DOMAIN o |->
                CASE i - 1 > home -> [o[i] EXCEPT !.upvalues = resolved[i - 1].table]
                  [] i - 1 = home -> [o[i] EXCEPT !.locals[slot].captured = TRUE]
                  [] OTHER -> o[i]]
      BY <1>2, <1>3, <1>5 DEF MarkCaptured
    <2> QED BY ONLY <1>4, <2>1
  <1>7. \A i \in 1 .. n : /\ IsSaved(p[i]) /\ p[i].depth = o[i].depth
                          /\ p[i].point = o[i].point /\ p[i].open = o[i].open
    <2> TAKE i \in 1 .. n
    <2>1. PICK r : r = o[i]
      OBVIOUS
    <2>2. r = [locals |-> r.locals, upvalues |-> r.upvalues, depth |-> r.depth,
               point |-> r.point, open |-> r.open]
      BY ONLY <1>4, <2>1, i \in 1 .. n, Zenon DEF IsSaved
    <2>3. PICK t : t = resolved[i - 1].table
      OBVIOUS
    <2>4. PICK q : q = [r EXCEPT !.upvalues = t]
      OBVIOUS
    <2>5. q = [locals |-> r.locals, upvalues |-> t, depth |-> r.depth,
               point |-> r.point, open |-> r.open]
      BY ONLY <2>2, <2>4
    <2>6. PICK u : u = [r EXCEPT !.locals[slot].captured = TRUE]
      OBVIOUS
    <2>7. PICK ls : ls = [r.locals EXCEPT ![slot].captured = TRUE]
      OBVIOUS
    <2>8. u = [locals |-> ls, upvalues |-> r.upvalues, depth |-> r.depth,
               point |-> r.point, open |-> r.open]
      BY ONLY <2>2, <2>6, <2>7
    <2>9. p[i] = CASE i - 1 > home -> q [] i - 1 = home -> u [] OTHER -> r
      BY ONLY <1>6, <2>1, <2>3, <2>4, <2>6, i \in 1 .. n, Zenon
    <2>10. p[i] = q \/ p[i] = u \/ p[i] = r
      <3>1. CASE i - 1 > home
        <4>1. ~(i - 1 = home) \/ i - 1 = home
          OBVIOUS
        <4> QED BY ONLY <2>9, <3>1
      <3>2. CASE ~(i - 1 > home)
        BY ONLY <2>9, <3>2
      <3> QED BY <3>1, <3>2
    <2>11. /\ IsSaved(q) /\ q.depth = r.depth /\ q.point = r.point /\ q.open = r.open
      <3>1. q.locals = r.locals /\ q.upvalues = t /\ q.depth = r.depth /\ q.point = r.point
            /\ q.open = r.open
        BY ONLY <2>5
      <3>2. IsSaved(q)
        BY ONLY <2>5, <3>1, Zenon DEF IsSaved
      <3> QED BY <3>1, <3>2
    <2>12. /\ IsSaved(u) /\ u.depth = r.depth /\ u.point = r.point /\ u.open = r.open
      <3>1. u.locals = ls /\ u.upvalues = r.upvalues /\ u.depth = r.depth /\ u.point = r.point
            /\ u.open = r.open
        BY ONLY <2>8
      <3>2. IsSaved(u)
        BY ONLY <2>8, <3>1, Zenon DEF IsSaved
      <3> QED BY <3>1, <3>2
    <2>13. IsSaved(r)
      BY ONLY <1>4, <2>1, i \in 1 .. n
    <2> QED BY ONLY <2>1, <2>10, <2>11, <2>12, <2>13
  <1>8. IsSequence(p) /\ Len(p) = n
    <2>1. p \in Seq({p[i] : i \in 1 .. n}) /\ Len(p) = n
      BY ONLY <1>6, n \in Nat
    <2> QED BY <2>1 DEF IsSequence
  <1> QED
    BY ONLY <1>1, <1>2, <1>3, <1>7, <1>8

LEMMA AccessAnnotates ==
    ASSUME Ready, Shapes, language' = language, CompileIdentifier \/ AssignName
    PROVE  Annotated'
  <1>1. todo # <<>> /\ Task.do \in Composite
    BY DEF CompileIdentifier, AssignName, TaskIs, Composite
  <1>2. PICK name : \E assigned \in BOOLEAN : Access(name, assigned)
    BY DEF CompileIdentifier, AssignName
  <1>3. UNCHANGED <<locals, depth, loops, hadError, point, open, jumps>>
    BY <1>2 DEF Access
  <1>4. nodes' = nodes \/ (nodes < MaxNodes /\ nodes' = nodes + 1)
    BY DEF CompileIdentifier, AssignName
  <1>5. outer' = outer \/ \E home, resolved : outer' = MarkCaptured(name, home, resolved)
    BY <1>2 DEF Access
  <1>6. /\ Len(outer') = Len(outer)
        /\ \A i \in 1 .. Len(outer) : outer'[i].depth = outer[i].depth
    BY <1>5, CaptureKeepsDepths
  <1>7. ASSUME NEW c \in Contexts, Fits(c) PROVE Fits(c)'
    <2>1. c.chain <= nodes' /\ nodes' + c.chain <= 2 * MaxNodes
      BY <1>4, <1>7, NodeCounts
    <2>2. MaxNodes' = MaxNodes /\ Level' = Level
      BY <1>6 DEF MaxNodes, Level
    <2>3. Level = Len(outer)
      BY DEF Level
    <2> QED BY <1>3, <1>6, <1>7, <2>1, <2>2, <2>3 DEF Fits
  <1>8. PICK tasks : /\ todo' = tasks \o Tail(todo)
                     /\ \/ tasks = <<Load>> \/ tasks = <<SetName>>
                        \/ \E k : tasks = <<Get(k)>> \/ tasks = <<Set(k)>>
                        \/ \E k : tasks = <<GetUpvalue(k, name)>>
                        \/ \E k : tasks = <<SetUpvalue(k, name)>>
    <2> PICK assigned \in BOOLEAN : Access(name, assigned)
      BY <1>2
    <2>1. \/ todo' = <<IF assigned THEN SetName ELSE Load>> \o Tail(todo)
          \/ \E k : todo' = <<IF assigned THEN Set(k) ELSE Get(k)>> \o Tail(todo)
          \/ \E k : todo' = <<IF assigned THEN SetUpvalue(k, name) ELSE GetUpvalue(k, name)>>
                            \o Tail(todo)
      BY DEF Access
    <2> QED BY <2>1
  <1>9. \A c \in Contexts : ~c.looped => Typed(Names, tasks, c, c)
    BY <1>8, OneInstruction
  <1> QED
    BY <1>1, <1>7, <1>8, <1>9, TaskAnnotates

LEMMA InFunctionFits ==
    ASSUME NEW a \in Contexts, Fits(a), Shapes, NEW saved, outer' = Append(outer, saved),
           saved.depth = depth, depth' = 1, UNCHANGED <<loops, jumps, language>>,
           a.chain <= nodes', nodes' + a.chain <= 2 * MaxNodes
    PROVE  Fits(InFunction(a))'
  <1>1. PICK d : d = InFunction(a)
    OBVIOUS
  <1>2. /\ d.depth = 1 /\ d.saved = Append(a.saved, a.depth) /\ d.loops = a.loops
        /\ d.pending = a.pending /\ d.chain = a.chain
    BY <1>1, InFunctionContext
  <1>3. MaxNodes' = MaxNodes
    BY DEF MaxNodes
  <1>4. /\ Len(outer') = Len(outer) + 1 /\ outer'[Len(outer) + 1] = saved
        /\ \A i \in 1 .. Len(outer) : outer'[i] = outer[i]
    BY AppendFacts DEF Shapes
  <1>5. a.saved \in Seq(Nat) /\ Len(a.saved) \in Nat /\ a.depth \in Nat
    BY ContextFields
  <1>6. /\ Len(d.saved) = Len(a.saved) + 1 /\ d.saved[Len(a.saved) + 1] = a.depth
        /\ \A i \in 1 .. Len(a.saved) : d.saved[i] = a.saved[i]
    BY <1>2, <1>5
  <1>7. Len(outer) = Len(a.saved) /\ depth = a.depth
    BY DEF Fits, Level
  <1>8. Level' = Len(d.saved)
    BY <1>4, <1>6, <1>7 DEF Level
  <1>9. ASSUME NEW i \in 1 .. Len(outer') PROVE outer'[i].depth = d.saved[i]
    <2>1. CASE i \in 1 .. Len(outer)
      BY <1>4, <1>6, <1>7, <2>1 DEF Fits, Level
    <2>2. CASE i = Len(outer) + 1
      BY <1>4, <1>6, <1>7, <2>2
    <2> QED BY <1>4, <1>5, <1>7, <2>1, <2>2
  <1>10. Fits(d)'
    BY <1>2, <1>3, <1>8, <1>9 DEF Fits, Level
  <1> QED
    BY <1>1, <1>10

LEMMA EnterFunctionAnnotates ==
    ASSUME Ready, Shapes, language' = language, CompileFn \/ CompileLambda
    PROVE  Annotated'
  <1>1. /\ todo # <<>> /\ Task.do \in {"statements", "expr"}
        /\ nodes < MaxNodes /\ nodes' = nodes + 1
    BY DEF CompileFn, CompileLambda, TaskIs
  <1>2. PICK a, b, z \in Contexts :
            /\ Fits(a) /\ Typed(Names, todo, a, z)
            /\ Leads(Names, Task, a, b) /\ Typed(Names, Tail(todo), b, z)
    BY <1>1, Begin DEF Ready
  <1>3. b = a /\ ~a.looped
    BY <1>1, <1>2, CompositeKeeps DEF Composite
  <1>4. PICK rest : EnterFunction(rest) /\ Typed(Names, rest, a, z)
    <2>1. CASE CompileLambda
      BY <1>2, <1>3, <2>1 DEF CompileLambda
    <2>2. CASE CompileFn
      <3>1. PICK name \in Names :
                EnterFunction(<<IF depth > 0
                                THEN [do |-> "declareFn", name |-> name]
                                ELSE DefineGlobal>> \o todo)
        BY <2>2 DEF CompileFn
      <3>2. PICK task :
                /\ task = IF depth > 0 THEN [do |-> "declareFn", name |-> name] ELSE DefineGlobal
                /\ EnterFunction(<<task>> \o todo)
        BY <3>1
      <3>3. Flat(Names, task)
        <4>1. Flat(Names, [do |-> "declareFn", name |-> name])
          BY DEF Flat, Plain, Named
        <4> QED BY <3>2, <4>1, FlatEmits
      <3>4. Typed(Names, <<task>>, a, a)
        BY <1>3, <3>3, FlatTuples
      <3>5. Typed(Names, <<task>> \o todo, a, z)
        BY <1>2, <3>4, TypedConcat
      <3> QED BY <3>2, <3>5
    <2> QED BY <2>1, <2>2
  <1>5. PICK tasks : tasks = <<Statements, Load, Do("return"), Do("leaveFunction")>>
    OBVIOUS
  <1>6. PICK saved : saved = [locals |-> locals, upvalues |-> upvalues, depth |-> depth,
                              point |-> point, open |-> open]
    OBVIOUS
  <1>7. /\ todo' = tasks \o rest /\ outer' = Append(outer, saved) /\ depth' = 1
        /\ UNCHANGED <<loops, jumps, language>>
    BY <1>4, <1>5, <1>6 DEF EnterFunction
  <1>8. Typed(Names, tasks, InFunction(a), a) /\ Names' = Names
    BY <1>3, <1>5, TypedFunction DEF Names
  <1>9. Fits(InFunction(a))'
    <2>1. a.chain <= nodes' /\ nodes' + a.chain <= 2 * MaxNodes
      BY <1>1, <1>2, NodeCounts
    <2>2. saved.depth = depth
      BY <1>6
    <2> QED BY <1>2, <1>7, <2>1, <2>2, InFunctionFits
  <1> QED
    BY <1>4, <1>7, <1>8, <1>9, Finish

LEMMA LeaveFunctionAnnotates ==
    ASSUME Ready, Shapes, language' = language, LeaveFunction
    PROVE  Annotated'
  <1>1. todo # <<>> /\ Task.do = "leaveFunction" /\ todo' = Tail(todo)
        /\ outer' = Drop(outer, 1) /\ depth' = outer[Level].depth
        /\ UNCHANGED <<loops, jumps, nodes, language>>
    BY DEF LeaveFunction, TaskIs
  <1>2. ASSUME NEW a \in Contexts, NEW b \in Contexts, Leads(Names, Task, a, b), Fits(a)
        PROVE  Fits(b)'
    <2>1. a.saved = Append(b.saved, b.depth) /\ b.loops = a.loops /\ KeepsCounts(a, b)
      BY <1>1, <1>2 DEF Leads, Plain, Composite, KeepsLoops
    <2>2. b.saved \in Seq(Nat) /\ b.depth \in Nat /\ Len(b.saved) \in Nat
      BY <1>2, ContextFields
    <2>3. /\ Len(a.saved) = Len(b.saved) + 1 /\ \A i \in 1 .. Len(b.saved) : a.saved[i] = b.saved[i]
          /\ a.saved[Len(b.saved) + 1] = b.depth
      BY <2>1, <2>2
    <2>4. Level = Len(b.saved) + 1 /\ Level = Len(outer)
      BY <1>2, <2>3 DEF Fits, Level
    <2>5. 1 \in 0 .. Len(outer) /\ Len(outer) - 1 = Len(b.saved) /\ Level \in 1 .. Level
      BY <2>2, <2>4
    <2>6. depth' = b.depth
      BY <1>1, <1>2, <2>3, <2>4, <2>5 DEF Fits
    <2>7. Len(outer') = Len(b.saved) /\ \A i \in 1 .. Len(b.saved) : outer'[i] = outer[i]
      BY <1>1, <2>5, DropFacts DEF Shapes
    <2>8. \A i \in 1 .. Len(b.saved) : outer'[i].depth = b.saved[i]
      <3>1. \A i \in 1 .. Level : outer[i].depth = a.saved[i]
        BY <1>2 DEF Fits
      <3>2. \A i \in 1 .. Len(b.saved) : i \in 1 .. Level
        BY ONLY <2>2, <2>4
      <3> QED BY ONLY <2>3, <2>7, <3>1, <3>2
    <2>9. MaxNodes' = MaxNodes /\ Level' = Len(b.saved)
      BY <1>1, <2>7 DEF MaxNodes, Level
    <2> QED BY <1>1, <1>2, <2>1, <2>6, <2>8, <2>9 DEF Fits, KeepsCounts
  <1> QED
    BY <1>1, <1>2, Advance

(* Every step keeps the tasks in order.                                    *)
LEMMA NextAnnotates ==
    ASSUME Ready, Shapes, CompileStep
    PROVE  Annotated'
  <1>1. language' = language /\ IsSequence(jumps)
    BY DEF CompileStep, Shapes
  <1> QED
    BY <1>1, SimpleStatements, CompileLetAnnotates, SimpleExpressions, ListExpressions,
       EndStatementsAnnotates, SimpleTasks, EmitExitAnnotates, EmitJumpAnnotates,
       PatchJumpAnnotates, BeginScopeAnnotates, EndScopeAnnotates, EmitBreakAnnotates,
       PushLoopAnnotates, EndLoopAnnotates, CompileWhileAnnotates, CompileBlockAnnotates,
       CompileForAnnotates, CompileForLoopAnnotates, CompileIfAnnotates, CompileJumpAnnotates,
       LiteralAndMatchTarget, AccessAnnotates, EnterFunctionAnnotates, LeaveFunctionAnnotates
       DEF CompileStep, PlainStep, ClosureStep

----------------------------------------------------------------------------
(* The tables of the functions: their locals lie in scopes that only get   *)
(* deeper, and those that a closure refers to are marked as captured.      *)
LocalRecords(ns) ==
    [name : ns \cup HiddenNames, depth : Nat, initialized : BOOLEAN, captured : BOOLEAN]

LocalsOK(ns, ls, d) ==
    /\ ls \in Seq(LocalRecords(ns))
    /\ \A i \in 1 .. Len(ls) : ls[i].depth <= d
    /\ \A i \in 1 .. Len(ls) : \A j \in i .. Len(ls) : ls[i].depth <= ls[j].depth

Upvalues == [isLocal : BOOLEAN, index : Nat]
Captured(ls, k) == k \in 1 .. Len(ls) /\ ls[k].captured
OpenOK(ls, slots) == \A k \in slots : Captured(ls, k)
CapturesOK(ls, us) == \A k \in 1 .. Len(us) : us[k].isLocal => Captured(ls, us[k].index)
TablesOK(ns, ls, d, us, slots) == LocalsOK(ns, ls, d) /\ us \in Seq(Upvalues) /\ OpenOK(ls, slots)

FunctionsOK ==
    /\ TablesOK(Names, locals, depth, upvalues, open)
    /\ \A i \in 1 .. Level :
           TablesOK(Names, outer[i].locals, outer[i].depth, outer[i].upvalues, outer[i].open)
    /\ \A i \in 1 .. Level : CapturesOK(outer[i].locals, UpvaluesOf(i))

(* ls2 has the locals of ls, captured at least where they were.            *)
Grows(ls, ls2) ==
    /\ Len(ls) <= Len(ls2)
    /\ \A i \in 1 .. Len(ls) : ls[i].captured => ls2[i].captured

LEMMA CapturedGrows ==
    ASSUME NEW ls, NEW ls2, Len(ls) \in Nat, Len(ls2) \in Nat, Grows(ls, ls2), NEW k,
           Captured(ls, k)
    PROVE  Captured(ls2, k)
  <1>1. k \in 1 .. Len(ls) /\ ls[k].captured
    BY DEF Captured
  <1>2. k \in 1 .. Len(ls2) /\ ls2[k].captured
    BY <1>1 DEF Grows
  <1> QED
    BY <1>2 DEF Captured

LEMMA TablesGrow ==
    ASSUME NEW ls, NEW ls2, Len(ls) \in Nat, Len(ls2) \in Nat, Grows(ls, ls2)
    PROVE  /\ \A slots : OpenOK(ls, slots) => OpenOK(ls2, slots)
           /\ \A us : CapturesOK(ls, us) => CapturesOK(ls2, us)
  BY CapturedGrows DEF OpenOK, CapturesOK

LEMMA DeeperLocals ==
    ASSUME NEW ns, NEW ls, NEW d \in Nat, NEW e \in Nat, d <= e, LocalsOK(ns, ls, d)
    PROVE  LocalsOK(ns, ls, e)
  <1>1. \A i \in 1 .. Len(ls) : ls[i].depth \in Nat /\ ls[i].depth <= d
    <2>1. \A r \in LocalRecords(ns) : r.depth \in Nat
      BY DEF LocalRecords
    <2>2. ls \in Seq(LocalRecords(ns)) /\ \A i \in 1 .. Len(ls) : ls[i].depth <= d
      BY DEF LocalsOK
    <2> QED BY ONLY <2>1, <2>2
  <1>2. \A i \in 1 .. Len(ls) : ls[i].depth <= e
    BY <1>1
  <1> QED
    BY <1>2 DEF LocalsOK

LEMMA LocalsAppend ==
    ASSUME NEW ns, NEW ls, NEW d \in Nat, LocalsOK(ns, ls, d), NEW name \in ns \cup HiddenNames
    PROVE  /\ LocalsOK(ns, Append(ls, Local(name, d)), d)
           /\ Grows(ls, Append(ls, Local(name, d)))
           /\ Append(ls, Local(name, d)) # <<>>
  <1>1. PICK R : R = LocalRecords(ns)
    OBVIOUS
  <1>2. PICK l : l = Local(name, d)
    OBVIOUS
  <1>3. l \in R /\ l.depth = d
    BY <1>1, <1>2 DEF Local, LocalRecords
  <1>4. ls \in Seq(R) /\ \A r \in R : r.depth \in Nat
    BY <1>1 DEF LocalsOK, LocalRecords
  <1>5. PICK n \in Nat : n = Len(ls)
    BY <1>4
  <1>6. PICK m : m = Append(ls, l)
    OBVIOUS
  <1>7. /\ m \in Seq(R) /\ Len(m) = n + 1 /\ m[n + 1] = l
        /\ \A i \in 1 .. n : m[i] = ls[i]
    BY ONLY <1>3, <1>4, <1>5, <1>6
  <1>8. \A i \in 1 .. n : ls[i].depth <= d /\ ls[i].depth \in Nat
    BY <1>4, <1>5 DEF LocalsOK
  <1>9. \A i \in 1 .. n + 1 : m[i].depth <= d
    <2> TAKE i \in 1 .. n + 1
    <2>1. CASE i \in 1 .. n
      BY ONLY <1>7, <1>8, <2>1
    <2>2. CASE i = n + 1
      BY ONLY <1>3, <1>7, <2>2, d \in Nat
    <2> QED BY ONLY <2>1, <2>2, i \in 1 .. n + 1, n \in Nat
  <1>10. \A i \in 1 .. n + 1 : \A j \in i .. n + 1 : m[i].depth <= m[j].depth
    <2> TAKE i \in 1 .. n + 1
    <2> TAKE j \in i .. n + 1
    <2>1. CASE j \in 1 .. n
      <3>1. i \in 1 .. n /\ j \in i .. n
        BY ONLY <2>1, i \in 1 .. n + 1, j \in i .. n + 1, n \in Nat
      <3>2. ls[i].depth <= ls[j].depth
        BY <1>5, <3>1 DEF LocalsOK
      <3> QED BY ONLY <1>7, <3>1, <3>2, <2>1
    <2>2. CASE j = n + 1
      <3>1. m[j].depth = d
        BY ONLY <1>3, <1>7, <2>2
      <3> QED BY ONLY <1>9, <3>1, i \in 1 .. n + 1
    <2> QED BY ONLY <2>1, <2>2, i \in 1 .. n + 1, j \in i .. n + 1, n \in Nat
  <1>11. LocalsOK(ns, m, d)
    BY ONLY <1>1, <1>7, <1>9, <1>10 DEF LocalsOK
  <1>12. Grows(ls, m)
    BY ONLY <1>5, <1>7, n \in Nat DEF Grows
  <1>13. m # <<>>
    BY ONLY <1>7, n \in Nat
  <1> QED
    BY <1>2, <1>6, <1>11, <1>12, <1>13

LEMMA LocalsMarked ==
    ASSUME NEW ns, NEW ls, NEW d, LocalsOK(ns, ls, d)
    PROVE  LocalsOK(ns, Marked(ls), d) /\ Grows(ls, Marked(ls))
  <1>1. PICK R : R = LocalRecords(ns)
    OBVIOUS
  <1>2. PICK m : m = Marked(ls)
    OBVIOUS
  <1>3. ls \in Seq(R)
    BY <1>1 DEF LocalsOK
  <1>4. PICK n \in Nat : n = Len(ls)
    BY <1>3
  <1>5. CASE ls = <<>>
    <2>1. m = ls
      BY ONLY <1>2, <1>5 DEF Marked
    <2>2. Grows(ls, ls)
      BY ONLY <1>4, n \in Nat DEF Grows
    <2> QED BY <1>2, <2>1, <2>2
  <1>6. CASE ls # <<>>
    <2>1. n \in 1 .. n
      BY ONLY <1>3, <1>4, <1>6
    <2>2. PICK l : l = [ls[n] EXCEPT !.initialized = TRUE]
      OBVIOUS
    <2>3. ls[n] \in R
      BY ONLY <1>3, <1>4, <2>1
    <2>4. /\ l \in R /\ l.depth = ls[n].depth /\ l.captured = ls[n].captured
      <3>1. PICK r : r = ls[n]
        OBVIOUS
      <3>2. r \in LocalRecords(ns)
        BY ONLY <1>1, <2>3, <3>1
      <3>3. r = [name |-> r.name, depth |-> r.depth, initialized |-> r.initialized,
                 captured |-> r.captured]
        BY ONLY <3>2 DEF LocalRecords
      <3>4. l = [name |-> r.name, depth |-> r.depth, initialized |-> TRUE,
                 captured |-> r.captured]
        BY ONLY <2>2, <3>1, <3>3
      <3>5. l.depth = r.depth /\ l.captured = r.captured
        BY ONLY <3>4
      <3>6. r.name \in ns \cup HiddenNames /\ r.depth \in Nat /\ r.captured \in BOOLEAN
        BY ONLY <3>2 DEF LocalRecords
      <3>7. l \in LocalRecords(ns)
        BY ONLY <3>4, <3>6 DEF LocalRecords
      <3> QED BY ONLY <1>1, <3>1, <3>5, <3>7
    <2>5. m = [ls EXCEPT ![n] = l]
      BY <1>2, <1>4, <1>6, <2>2 DEF Marked
    <2>6. /\ m \in Seq(R) /\ Len(m) = n
          /\ \A i \in 1 .. n : m[i] = IF i = n THEN l ELSE ls[i]
      BY ONLY <1>3, <1>4, <2>1, <2>4, <2>5
    <2>7. \A i \in 1 .. n : m[i].depth = ls[i].depth /\ m[i].captured = ls[i].captured
      BY ONLY <2>4, <2>6
    <2>8. /\ \A i \in 1 .. n : ls[i].depth <= d
          /\ \A i \in 1 .. n : \A j \in i .. n : ls[i].depth <= ls[j].depth
      BY <1>4 DEF LocalsOK
    <2>9. \A i \in 1 .. n : m[i].depth <= d
      BY ONLY <2>7, <2>8
    <2>10. \A i \in 1 .. n : \A j \in i .. n : m[i].depth <= m[j].depth
      <3> TAKE i \in 1 .. n
      <3> TAKE j \in i .. n
      <3>1. j \in 1 .. n
        BY ONLY i \in 1 .. n, j \in i .. n, n \in Nat
      <3> QED BY ONLY <2>7, <2>8, <3>1, i \in 1 .. n, j \in i .. n
    <2>11. LocalsOK(ns, m, d)
      BY ONLY <1>1, <2>6, <2>9, <2>10 DEF LocalsOK
    <2>12. Grows(ls, m)
      BY ONLY <1>4, <2>6, <2>7, n \in Nat DEF Grows
    <2> QED BY <1>2, <2>11, <2>12
  <1> QED
    BY <1>5, <1>6

LEMMA GrowsOn ==
    ASSUME NEW a, NEW b, NEW c, Len(a) \in Nat, Len(b) \in Nat, Len(c) \in Nat,
           Grows(a, b), Grows(b, c)
    PROVE  Grows(a, c)
  BY DEF Grows

LEMMA LocalsAdded ==
    ASSUME NEW ns, NEW ls, NEW d \in Nat, LocalsOK(ns, ls, d), NEW name \in ns \cup HiddenNames
    PROVE  LocalsOK(ns, AddLocal(ls, name, d), d) /\ Grows(ls, AddLocal(ls, name, d))
  <1>1. PICK m : m = Append(ls, Local(name, d))
    OBVIOUS
  <1>2. LocalsOK(ns, m, d) /\ Grows(ls, m)
    BY <1>1, LocalsAppend
  <1>3. LocalsOK(ns, Marked(m), d) /\ Grows(m, Marked(m))
    BY <1>2, LocalsMarked
  <1>4. Len(ls) \in Nat /\ Len(m) \in Nat /\ Len(Marked(m)) \in Nat
    BY <1>2, <1>3 DEF LocalsOK
  <1>5. Grows(ls, Marked(m))
    BY <1>2, <1>3, <1>4, GrowsOn
  <1> QED
    BY <1>1, <1>3, <1>5 DEF AddLocal

(* The locals of a function at the start of its body.                      *)
LEMMA ParametersOK ==
    ASSUME NEW ns, NEW params, Len(params) \in Nat, \A n \in 1 .. Len(params) : params[n] \in ns
    PROVE  LocalsOK(ns, ParameterLocals(params), 1)
  <1>1. PICK S : S = {ls \in Seq(LocalRecords(ns)) : LocalsOK(ns, ls, 1)}
    OBVIOUS
  <1>2. \A ls : ls \in S <=> LocalsOK(ns, ls, 1)
    BY <1>1 DEF LocalsOK
  <1>3. LocalsOK(ns, <<>>, 1)
    <2>1. <<>> \in Seq(LocalRecords(ns)) /\ \A i \in 1 .. Len(<<>>) : FALSE
      OBVIOUS
    <2> QED BY <2>1 DEF LocalsOK
  <1>4. AddLocal(<<>>, NoName, 1) \in S
    <2>1. NoName \in ns \cup HiddenNames /\ 1 \in Nat
      BY DEF HiddenNames
    <2> QED BY <1>2, <1>3, <2>1, LocalsAdded
  <1>5. ASSUME NEW n \in 1 .. Len(params), NEW ls \in S
        PROVE  AddParameter(ls, params[n]) \in S
    <2>1. LocalsOK(ns, ls, 1) /\ params[n] \in ns \cup HiddenNames /\ 1 \in Nat
      BY <1>2
    <2>2. LocalsOK(ns, Marked(ls), 1) /\ LocalsOK(ns, AddLocal(ls, params[n], 1), 1)
      BY <2>1, LocalsAdded, LocalsMarked
    <2> QED BY <1>2, <2>2 DEF AddParameter
  <1>6. ParameterLocals(params) \in S
    BY <1>4, <1>5, ParameterLocalsIn
  <1> QED
    BY <1>2, <1>6

LEMMA Greatest ==
    ASSUME NEW n \in Nat, NEW T, T \subseteq 0 .. n, T # {}
    PROVE  \E x \in T : \A y \in T : y <= x
  <1>1. PICK U : U = {n - x : x \in T}
    OBVIOUS
  <1>2. U \subseteq Nat /\ U # {}
    <2>1. \A x \in T : n - x \in Nat
      OBVIOUS
    <2>2. U \subseteq Nat
      BY ONLY <1>1, <2>1
    <2>3. PICK x \in T : TRUE
      OBVIOUS
    <2>4. n - x \in U
      BY ONLY <1>1, <2>3
    <2> QED BY ONLY <2>2, <2>4
  <1>3. PICK u \in U : \A v \in U : u <= v
    BY <1>2, Least
  <1>4. PICK x \in T : u = n - x
    BY <1>1, <1>3
  <1>5. \A y \in T : n - y \in U
    BY <1>1
  <1>6. \A y \in T : y <= x
    BY <1>3, <1>4, <1>5
  <1> QED
    BY <1>6

(* end_scope leaves a part of the locals from the front, all of them in    *)
(* scopes around.                                                          *)
LEMMA OutsideIs ==
    ASSUME NEW ns, NEW ls, NEW d \in Nat, LocalsOK(ns, ls, d + 1)
    PROVE  \E n \in 0 .. Len(ls) : /\ Outside(ls, d + 1) = SubSeq(ls, 1, n)
                                   /\ n = 0 \/ ls[n].depth < d + 1
                                   /\ \A i \in (n + 1) .. Len(ls) : ls[i].depth >= d + 1
  <1>1. PICK m \in Nat : m = Len(ls)
    BY DEF LocalsOK
  <1>2. \A i \in 1 .. m : ls[i].depth \in Nat
    <2>1. \A r \in LocalRecords(ns) : r.depth \in Nat
      BY DEF LocalRecords
    <2>2. ls \in Seq(LocalRecords(ns))
      BY DEF LocalsOK
    <2> QED BY ONLY <1>1, <2>1, <2>2
  <1>3. PICK e \in Nat : e = d + 1
    OBVIOUS
  <1>4. PICK T : T = {n \in 0 .. m : n = 0 \/ ls[n].depth < e}
    OBVIOUS
  <1>5. T \subseteq 0 .. m /\ 0 \in T
    BY <1>4
  <1>6. PICK n \in T : \A k \in T : k <= n
    BY <1>5, Greatest
  <1>7. \A i \in (n + 1) .. m : ls[i].depth >= e
    <2> TAKE i \in (n + 1) .. m
    <2>1. n \in 0 .. m /\ i \in 1 .. m /\ i \in 0 .. m /\ ~(i <= n)
      BY ONLY <1>5, <1>6, i \in (n + 1) .. m, m \in Nat
    <2>2. i \notin T
      BY ONLY <1>6, <2>1
    <2>3. ~(ls[i].depth < e)
      BY ONLY <1>4, <2>1, <2>2
    <2> QED BY ONLY <1>2, <2>1, <2>3, e \in Nat
  <1>8. PICK p : p = CHOOSE k \in 0 .. m : /\ k = 0 \/ ls[k].depth < e
                                           /\ \A i \in (k + 1) .. m : ls[i].depth >= e
    OBVIOUS
  <1>9. p \in 0 .. m /\ (p = 0 \/ ls[p].depth < e) /\ \A i \in (p + 1) .. m : ls[i].depth >= e
    <2>1. \E k \in 0 .. m : /\ k = 0 \/ ls[k].depth < e
                            /\ \A i \in (k + 1) .. m : ls[i].depth >= e
      BY ONLY <1>4, <1>6, <1>7
    <2> QED BY ONLY <1>8, <2>1, Zenon
  <1>10. Outside(ls, d + 1) = SubSeq(ls, 1, p)
    BY ONLY <1>1, <1>3, <1>8, Zenon DEF Outside
  <1> QED
    BY ONLY <1>1, <1>3, <1>9, <1>10, Zenon

LEMMA OutsideOK ==
    ASSUME NEW ns, NEW ls, NEW d \in Nat, LocalsOK(ns, ls, d + 1)
    PROVE  /\ LocalsOK(ns, Outside(ls, d + 1), d)
           /\ Len(Outside(ls, d + 1)) <= Len(ls)
           /\ \A i \in 1 .. Len(Outside(ls, d + 1)) : Outside(ls, d + 1)[i] = ls[i]
  <1>1. PICK n \in 0 .. Len(ls) : /\ Outside(ls, d + 1) = SubSeq(ls, 1, n)
                                  /\ n = 0 \/ ls[n].depth < d + 1
    BY OutsideIs
  <1>2. PICK m : m = Outside(ls, d + 1)
    OBVIOUS
  <1>3. ls \in Seq(LocalRecords(ns)) /\ Len(ls) \in Nat
    BY DEF LocalsOK
  <1>4. 1 \in 1 .. Len(ls) + 1 /\ n \in Nat /\ n <= Len(ls)
    BY ONLY <1>3, n \in 0 .. Len(ls)
  <1>5. /\ m \in Seq(LocalRecords(ns)) /\ Len(m) = n /\ \A i \in 1 .. n : m[i] = ls[i]
    BY <1>1, <1>2, <1>3, <1>4, SubSeqProperties
  <1>6. \A i \in 1 .. n : m[i].depth <= d
    <2> TAKE i \in 1 .. n
    <2>1. n \in i .. Len(ls) /\ i \in 1 .. Len(ls) /\ n # 0 /\ n \in 1 .. n /\ n \in 1 .. Len(ls)
      BY ONLY <1>3, <1>4, i \in 1 .. n
    <2>2. ls[i].depth <= ls[n].depth /\ ls[n].depth < d + 1
      BY <1>1, <2>1 DEF LocalsOK
    <2>3. ls[i].depth \in Nat /\ ls[n].depth \in Nat
      <3>1. \A r \in LocalRecords(ns) : r.depth \in Nat
        BY DEF LocalRecords
      <3> QED BY ONLY <1>3, <2>1, <3>1
    <2> QED BY ONLY <1>5, <2>2, <2>3, d \in Nat, i \in 1 .. n
  <1>7. \A i \in 1 .. n : \A j \in i .. n : m[i].depth <= m[j].depth
    <2> TAKE i \in 1 .. n
    <2> TAKE j \in i .. n
    <2>1. i \in 1 .. Len(ls) /\ j \in i .. Len(ls) /\ j \in 1 .. n
      BY ONLY <1>3, <1>4, i \in 1 .. n, j \in i .. n
    <2>2. ls[i].depth <= ls[j].depth
      BY <2>1 DEF LocalsOK
    <2> QED BY ONLY <1>5, <2>1, <2>2, i \in 1 .. n
  <1>8. LocalsOK(ns, m, d)
    BY ONLY <1>5, <1>6, <1>7 DEF LocalsOK
  <1> QED
    BY <1>2, <1>4, <1>5, <1>8

(* resolve_local finds a local of that name, if there is one.              *)
LEMMA ResolveLocalIs ==
    ASSUME NEW ls, NEW name, Len(ls) \in Nat, DOMAIN ls = 1 .. Len(ls), ResolveLocal(ls, name) # -1
    PROVE  /\ ResolveLocal(ls, name) \in 1 .. Len(ls)
           /\ ls[ResolveLocal(ls, name)].name = name
           /\ \A i \in 1 .. Len(ls) : ls[i].name = name => i <= ResolveLocal(ls, name)
  <1>1. PICK found : found = {i \in DOMAIN ls : ls[i].name = name}
    OBVIOUS
  <1>2. found # {} /\ ResolveLocal(ls, name) = CHOOSE i \in found : \A j \in found : j <= i
    BY <1>1, Zenon DEF ResolveLocal
  <1>3. found \subseteq 0 .. Len(ls)
    BY <1>1
  <1>4. \E i \in found : \A j \in found : j <= i
    BY <1>2, <1>3, Greatest
  <1>5. PICK k : k = ResolveLocal(ls, name)
    OBVIOUS
  <1>6. k \in found /\ \A j \in found : j <= k
    BY <1>2, <1>4, <1>5, Zenon
  <1> QED
    BY <1>1, <1>5, <1>6

LEMMA HomeIs ==
    ASSUME NEW name, Level \in Nat, Home(name) # -1
    PROVE  Home(name) \in 0 .. (Level - 1) /\ ResolveLocal(LocalsOf(Home(name)), name) # -1
  <1>1. PICK levels : levels = {l \in 0..(Level - 1) : ResolveLocal(LocalsOf(l), name) # -1}
    OBVIOUS
  <1>2. levels # {} /\ Home(name) = CHOOSE l \in levels : \A m \in levels : m <= l
    BY <1>1, Zenon DEF Home
  <1>3. levels \subseteq 0 .. Level
    BY <1>1
  <1>4. \E l \in levels : \A m \in levels : m <= l
    BY <1>2, <1>3, Greatest
  <1>5. Home(name) \in levels
    BY <1>2, <1>4, Zenon
  <1> QED
    BY <1>1, <1>5

LEMMA AddUpvalueIs ==
    ASSUME NEW table \in Seq(Upvalues), NEW u \in Upvalues
    PROVE  /\ AddUpvalue(table, u) \in [table : Seq(Upvalues), index : Nat]
           /\ \A k \in 1 .. Len(AddUpvalue(table, u).table) :
                  \/ AddUpvalue(table, u).table[k] = u
                  \/ k \in 1 .. Len(table) /\ AddUpvalue(table, u).table[k] = table[k]
  <1>1. PICK with : with = IF Contains(table, u) THEN table ELSE Append(table, u)
    OBVIOUS
  <1>2. PICK index : index = CHOOSE i \in DOMAIN with : with[i] = u
    OBVIOUS
  <1>3. AddUpvalue(table, u) = [table |-> with, index |-> index]
    BY <1>1, <1>2, Zenon DEF AddUpvalue
  <1>4. CASE Contains(table, u)
    <2>1. with = table /\ \E i \in DOMAIN table : table[i] = u
      <3>1. \E i \in 1 .. Len(table) : table[i] = u
        BY <1>4 DEF Contains
      <3> QED BY <1>1, <1>4, <3>1
    <2>2. index \in DOMAIN table
      BY <1>2, <2>1, Zenon
    <2>3. index \in Nat
      BY <2>2
    <2> QED BY <1>3, <2>1, <2>3
  <1>5. CASE ~Contains(table, u)
    <2>1. with = Append(table, u)
      BY <1>1, <1>5
    <2>2. /\ with \in Seq(Upvalues) /\ Len(with) = Len(table) + 1 /\ with[Len(table) + 1] = u
          /\ \A k \in 1 .. Len(table) : with[k] = table[k]
      BY <2>1
    <2>3. Len(table) + 1 \in DOMAIN with
      BY <2>2
    <2>4. index \in DOMAIN with
      BY <1>2, <2>2, <2>3, Zenon
    <2>5. index \in Nat
      BY <2>2, <2>4
    <2>6. \A k \in 1 .. Len(with) : with[k] = u \/ (k \in 1 .. Len(table) /\ with[k] = table[k])
      BY <2>2
    <2> QED BY <1>3, <2>2, <2>5, <2>6
  <1> QED
    BY <1>4, <1>5

Resolutions == [table : Seq(Upvalues), index : Nat]

(* What a function's upvalues become: they keep those they had, and what   *)
(* is new captures a local of the home only next to it.                    *)
Resolved(r, us, first, slot) ==
    /\ r \in Resolutions
    /\ \A k \in 1 .. Len(r.table) :
           \/ k \in 1 .. Len(us) /\ r.table[k] = us[k]
           \/ r.table[k].isLocal => first /\ r.table[k].index = slot

LEMMA AddUpvalueResolves ==
    ASSUME NEW us \in Seq(Upvalues), NEW first \in BOOLEAN, NEW index \in Nat, NEW slot,
           first => index = slot
    PROVE  Resolved(AddUpvalue(us, [isLocal |-> first, index |-> index]), us, first, slot)
  <1>1. PICK u : u = [isLocal |-> first, index |-> index]
    OBVIOUS
  <1>2. u \in Upvalues /\ (u.isLocal <=> first) /\ u.index = index
    BY <1>1 DEF Upvalues
  <1>3. PICK r : r = AddUpvalue(us, u)
    OBVIOUS
  <1>4. /\ r \in Resolutions
        /\ \A k \in 1 .. Len(r.table) : r.table[k] = u \/ (k \in 1 .. Len(us) /\ r.table[k] = us[k])
    BY <1>2, <1>3, AddUpvalueIs DEF Resolutions
  <1>5. u.isLocal => first /\ u.index = slot
    BY <1>2
  <1>6. \A k \in 1 .. Len(r.table) :
            \/ k \in 1 .. Len(us) /\ r.table[k] = us[k]
            \/ r.table[k].isLocal => first /\ r.table[k].index = slot
    BY ONLY <1>4, <1>5
  <1>7. Resolved(r, us, first, slot)
    BY ONLY <1>4, <1>6 DEF Resolved
  <1> QED
    BY ONLY <1>1, <1>3, <1>7, Zenon

(* What an upvalue table becomes when the function in it is resolved.      *)
Step(us, lo, slot, l, x) ==
    AddUpvalue(us, [isLocal |-> l = lo, index |-> IF l = lo THEN slot ELSE x.index])

LEMMA StepResolves ==
    ASSUME NEW us \in Seq(Upvalues), NEW lo \in Nat, NEW l \in Nat, NEW slot \in Nat, NEW x,
           l = lo \/ x \in Resolutions
    PROVE  Resolved(Step(us, lo, slot, l, x), us, l = lo, slot)
  <1>1. PICK first \in BOOLEAN : first = (l = lo)
    OBVIOUS
  <1>2. PICK index : index = IF l = lo THEN slot ELSE x.index
    OBVIOUS
  <1>3. index \in Nat /\ (first => index = slot)
    BY <1>1, <1>2 DEF Resolutions
  <1>4. Resolved(AddUpvalue(us, [isLocal |-> first, index |-> index]), us, first, slot)
    BY <1>3, AddUpvalueResolves
  <1> QED
    BY ONLY <1>1, <1>2, <1>4, Zenon DEF Step

(* Every table is what the one further out makes of it.                    *)
LEMMA ResolveUpvalueSteps ==
    ASSUME NEW name, NEW home \in Nat, Level \in Nat, home + 1 <= Level,
           \A l \in 1 .. Level : UpvaluesOf(l) \in Seq(Upvalues),
           NEW slot \in Nat, slot = ResolveLocal(LocalsOf(home), name)
    PROVE  \A l \in (home + 1) .. Level :
               ResolveUpvalue(name, home)[l] =
                   Step(UpvaluesOf(l), home + 1, slot, l, ResolveUpvalue(name, home)[l - 1])
  <1>1. PICK lo \in Nat : lo = home + 1
    OBVIOUS
  <1>2. PICK N \in Nat : N = Level
    OBVIOUS
  <1>3. PICK us : us = [l \in 1 .. N |-> UpvaluesOf(l)]
    OBVIOUS
  <1>4. lo <= N /\ \A l \in 1 .. N : us[l] = UpvaluesOf(l) /\ us[l] \in Seq(Upvalues)
    BY <1>1, <1>2, <1>3
  <1>5. \A l \in lo .. N : l \in 1 .. N /\ l \in Nat
    BY ONLY <1>1, home \in Nat, N \in Nat
  <1>6. PICK S : S = Resolutions
    OBVIOUS
  <1>7. PICK base : base = Step(us[lo], lo, slot, lo, 0)
    OBVIOUS
  <1>8. base \in S
    <2>1. lo \in lo .. N
      BY ONLY <1>4, lo \in Nat, N \in Nat
    <2>2. us[lo] \in Seq(Upvalues)
      BY <1>4, <1>5, <2>1
    <2> QED BY <1>6, <1>7, <2>2, StepResolves DEF Resolved
  <1>9. PICK next : next = [l \in (lo + 1) .. N |-> [x \in S |-> Step(us[l], lo, slot, l, x)]]
    OBVIOUS
  <1>10. \A l \in (lo + 1) .. N : \A x \in S : Step(us[l], lo, slot, l, x) \in S
    <2> TAKE l \in (lo + 1) .. N
    <2> TAKE x \in S
    <2>1. l \in lo .. N
      BY ONLY lo \in Nat, N \in Nat, l \in (lo + 1) .. N
    <2>2. us[l] \in Seq(Upvalues) /\ l \in Nat
      BY <1>4, <1>5, <2>1
    <2> QED BY <1>6, <2>2, StepResolves DEF Resolved
  <1>11. \A l \in (lo + 1) .. N : \A x \in S : next[l][x] = Step(us[l], lo, slot, l, x)
    BY ONLY <1>9
  <1>12. next \in [(lo + 1) .. N -> [S -> S]]
    BY ONLY <1>9, <1>10
  <1>13. PICK h \in [lo .. N -> S] : Recurrence(h, base, next, lo, N)
    BY ONLY <1>4, <1>8, <1>12, lo \in Nat, N \in Nat, Recursion
  <1>14. \A l \in lo .. N : h[l] = Step(us[l], lo, slot, l, h[l - 1])
    <2> TAKE l \in lo .. N
    <2>1. CASE l = lo
      <3>1. h[lo] = base
        BY ONLY <1>13 DEF Recurrence
      <3>2. Step(us[lo], lo, slot, lo, 0) = Step(us[lo], lo, slot, lo, h[lo - 1])
        BY ONLY DEF Step
      <3> QED BY ONLY <1>7, <2>1, <3>1, <3>2, Zenon
    <2>2. CASE l # lo
      <3>1. l \in (lo + 1) .. N /\ l - 1 \in lo .. N
        BY ONLY <2>2, l \in lo .. N, lo \in Nat, N \in Nat
      <3>2. h[l] = next[l][h[l - 1]] /\ h[l - 1] \in S
        BY ONLY <1>13, <3>1, h \in [lo .. N -> S] DEF Recurrence
      <3> QED BY ONLY <1>11, <3>1, <3>2
    <2> QED BY <2>1, <2>2
  <1>15. \A l \in lo .. N : Step(us[l], lo, slot, l, h[l - 1]) =
             AddUpvalue(UpvaluesOf(l),
                        [isLocal |-> l = home + 1,
                         index |-> IF l = home + 1 THEN ResolveLocal(LocalsOf(home), name)
                                                   ELSE h[l - 1].index])
    <2> TAKE l \in lo .. N
    <2>1. us[l] = UpvaluesOf(l)
      BY <1>4, <1>5
    <2> QED BY ONLY <1>1, <2>1, slot = ResolveLocal(LocalsOf(home), name), Zenon DEF Step
  <1>16. h = [l \in (home + 1)..Level |->
                AddUpvalue(UpvaluesOf(l),
                           [isLocal |-> l = home + 1,
                            index |-> IF l = home + 1 THEN ResolveLocal(LocalsOf(home), name)
                                                      ELSE h[l - 1].index])]
    <2>1. PICK G : G = [l \in lo .. N |-> Step(us[l], lo, slot, l, h[l - 1])]
      OBVIOUS
    <2>2. h = G
      BY ONLY <1>14, <2>1, h \in [lo .. N -> S]
    <2>3. G = [l \in lo .. N |->
                 AddUpvalue(UpvaluesOf(l),
                           [isLocal |-> l = home + 1,
                            index |-> IF l = home + 1 THEN ResolveLocal(LocalsOf(home), name)
                                                      ELSE h[l - 1].index])]
      BY ONLY <1>15, <2>1, Zenon
    <2> QED BY ONLY <1>1, <1>2, <2>2, <2>3, Zenon
  <1> DEFINE added[l \in (home + 1)..Level] ==
                AddUpvalue(UpvaluesOf(l),
                           [isLocal |-> l = home + 1,
                            index |-> IF l = home + 1 THEN ResolveLocal(LocalsOf(home), name)
                                                      ELSE added[l - 1].index])
  <1>17. ResolveUpvalue(name, home) = added
    BY ONLY Zenon DEF ResolveUpvalue
  <1>18. added = [l \in (home + 1)..Level |->
                AddUpvalue(UpvaluesOf(l),
                           [isLocal |-> l = home + 1,
                            index |-> IF l = home + 1 THEN ResolveLocal(LocalsOf(home), name)
                                                      ELSE added[l - 1].index])]
    BY ONLY <1>16, Zenon
  <1> HIDE DEF added
  <1>19. PICK g : g = added
    OBVIOUS
  <1>20. \A l \in lo .. N : g[l] = Step(us[l], lo, slot, l, g[l - 1])
    <2>1. PICK G : G = [l \in (home + 1)..Level |->
                AddUpvalue(UpvaluesOf(l),
                           [isLocal |-> l = home + 1,
                            index |-> IF l = home + 1 THEN ResolveLocal(LocalsOf(home), name)
                                                      ELSE g[l - 1].index])]
      OBVIOUS
    <2>2. g = G
      BY ONLY <1>18, <1>19, <2>1, Zenon
    <2>3. \A l \in (home + 1)..Level : G[l] =
                AddUpvalue(UpvaluesOf(l),
                           [isLocal |-> l = home + 1,
                            index |-> IF l = home + 1 THEN ResolveLocal(LocalsOf(home), name)
                                                      ELSE g[l - 1].index])
      BY ONLY <2>1, Zenon
    <2> TAKE l \in lo .. N
    <2>4. us[l] = UpvaluesOf(l)
      BY <1>4, <1>5
    <2>5. l \in (home + 1)..Level
      BY ONLY <1>1, <1>2, l \in lo .. N, Zenon
    <2>6. Step(us[l], lo, slot, l, g[l - 1]) =
                AddUpvalue(UpvaluesOf(l),
                           [isLocal |-> l = home + 1,
                            index |-> IF l = home + 1 THEN ResolveLocal(LocalsOf(home), name)
                                                      ELSE g[l - 1].index])
      BY ONLY <1>1, <2>4, slot = ResolveLocal(LocalsOf(home), name), Zenon DEF Step
    <2> QED BY ONLY <2>2, <2>3, <2>5, <2>6, Zenon
  <1> TAKE l \in (home + 1) .. Level
  <1>21. l \in lo .. N
    BY ONLY <1>1, <1>2, l \in (home + 1) .. Level, Zenon
  <1>22. us[l] = UpvaluesOf(l)
    BY <1>4, <1>5, <1>21
  <1> QED
    BY ONLY <1>1, <1>17, <1>19, <1>20, <1>21, <1>22, Zenon

LEMMA ResolveUpvalueIs ==
    ASSUME NEW name, NEW home \in Nat, Level \in Nat, home + 1 <= Level,
           \A l \in 1 .. Level : UpvaluesOf(l) \in Seq(Upvalues),
           NEW slot \in Nat, slot = ResolveLocal(LocalsOf(home), name)
    PROVE  \A l \in (home + 1) .. Level :
               Resolved(ResolveUpvalue(name, home)[l], UpvaluesOf(l), l = home + 1, slot)
  <1>1. PICK lo \in Nat : lo = home + 1
    OBVIOUS
  <1>2. PICK N \in Nat : N = Level
    OBVIOUS
  <1>3. PICK us : us = [l \in 1 .. N |-> UpvaluesOf(l)]
    OBVIOUS
  <1>4. lo <= N /\ \A l \in 1 .. N : us[l] = UpvaluesOf(l) /\ us[l] \in Seq(Upvalues)
    BY <1>1, <1>2, <1>3
  <1>5. \A l \in lo .. N : l \in 1 .. N /\ l \in Nat
    BY ONLY <1>1, home \in Nat, N \in Nat
  <1>6. PICK g : g = ResolveUpvalue(name, home)
    OBVIOUS
  <1>7. \A l \in lo .. N : g[l] = Step(us[l], lo, slot, l, g[l - 1])
    <2> TAKE l \in lo .. N
    <2>1. l \in (home + 1) .. Level
      BY ONLY <1>1, <1>2, l \in lo .. N, Zenon
    <2>2. g[l] = Step(UpvaluesOf(l), home + 1, slot, l, g[l - 1])
      BY <1>6, <2>1, ResolveUpvalueSteps
    <2>3. us[l] = UpvaluesOf(l)
      BY <1>4, <1>5
    <2> QED BY ONLY <1>1, <2>2, <2>3, Zenon
  <1>8. PICK T : T = {l \in lo .. N : Resolved(g[l], us[l], l = lo, slot)}
    OBVIOUS
  <1>9. lo \in T
    <2>1. lo \in lo .. N
      BY ONLY <1>4, lo \in Nat, N \in Nat
    <2>2. Resolved(Step(us[lo], lo, slot, lo, g[lo - 1]), us[lo], lo = lo, slot)
      BY <1>4, <1>5, <2>1, StepResolves
    <2> QED BY ONLY <1>7, <1>8, <2>1, <2>2
  <1>10. ASSUME NEW l \in lo .. (N - 1), l \in T PROVE l + 1 \in T
    <2>1. PICK m \in Nat : m = l + 1
      <3>1. l + 1 \in Nat
        BY ONLY lo \in Nat, N \in Nat, l \in lo .. (N - 1)
      <3> QED BY <3>1
    <2>2. m \in lo .. N /\ m - 1 = l
      BY ONLY <2>1, lo \in Nat, N \in Nat, l \in lo .. (N - 1)
    <2>3. g[l] \in Resolutions
      BY ONLY <1>8, <1>10 DEF Resolved
    <2>4. us[m] \in Seq(Upvalues)
      BY <1>4, <1>5, <2>2
    <2>5. Resolved(Step(us[m], lo, slot, m, g[l]), us[m], m = lo, slot)
      BY <2>3, <2>4, StepResolves
    <2>6. g[m] = Step(us[m], lo, slot, m, g[l])
      BY ONLY <1>7, <2>2
    <2>7. Resolved(g[m], us[m], m = lo, slot)
      BY ONLY <2>5, <2>6, Zenon
    <2> QED BY ONLY <1>8, <2>1, <2>2, <2>7, Zenon
  <1>11. \A l \in lo .. N : l \in T
    BY <1>9, <1>10, UpTo
  <1>12. \A l \in lo .. N : Resolved(g[l], us[l], l = lo, slot)
    BY ONLY <1>8, <1>11, Zenon
  <1> TAKE l \in (home + 1) .. Level
  <1>13. l \in lo .. N
    BY ONLY <1>1, <1>2, l \in (home + 1) .. Level, Zenon
  <1>14. us[l] = UpvaluesOf(l)
    BY <1>4, <1>5, <1>13
  <1> QED
    BY ONLY <1>1, <1>6, <1>12, <1>13, <1>14, Zenon

(* A local that is captured by a closure is marked.                        *)
LEMMA LocalsCaptured ==
    ASSUME NEW ns, NEW ls, NEW d, LocalsOK(ns, ls, d), NEW slot \in 1 .. Len(ls),
           NEW m, m = [ls EXCEPT ![slot].captured = TRUE]
    PROVE  LocalsOK(ns, m, d) /\ Grows(ls, m) /\ Captured(m, slot) /\ Len(m) = Len(ls)
  <1>1. PICK R : R = LocalRecords(ns)
    OBVIOUS
  <1>2. ls \in Seq(R)
    BY <1>1 DEF LocalsOK
  <1>3. PICK n \in Nat : n = Len(ls)
    BY <1>2
  <1>4. PICK l : l = [ls[slot] EXCEPT !.captured = TRUE]
    OBVIOUS
  <1>5. /\ l \in R /\ l.depth = ls[slot].depth /\ l.captured = TRUE
    <2>1. PICK r : r = ls[slot]
      OBVIOUS
    <2>2. r \in LocalRecords(ns)
      BY ONLY <1>1, <1>2, <2>1, slot \in 1 .. Len(ls)
    <2>3. r = [name |-> r.name, depth |-> r.depth, initialized |-> r.initialized,
               captured |-> r.captured]
      BY ONLY <2>2 DEF LocalRecords
    <2>4. l = [name |-> r.name, depth |-> r.depth, initialized |-> r.initialized,
               captured |-> TRUE]
      BY ONLY <1>4, <2>1, <2>3
    <2>5. l.depth = r.depth /\ l.captured = TRUE
      BY ONLY <2>4
    <2>6. r.name \in ns \cup HiddenNames /\ r.depth \in Nat /\ r.initialized \in BOOLEAN
      BY ONLY <2>2 DEF LocalRecords
    <2>7. l \in LocalRecords(ns)
      BY ONLY <2>4, <2>6 DEF LocalRecords
    <2> QED BY ONLY <1>1, <2>1, <2>5, <2>7
  <1>6. m = [ls EXCEPT ![slot] = l]
    BY <1>4
  <1>7. /\ m \in Seq(R) /\ Len(m) = n
        /\ \A i \in 1 .. n : m[i] = IF i = slot THEN l ELSE ls[i]
    BY ONLY <1>2, <1>3, <1>5, <1>6, slot \in 1 .. Len(ls)
  <1>8. \A i \in 1 .. n : m[i].depth = ls[i].depth /\ (ls[i].captured => m[i].captured)
    <2> TAKE i \in 1 .. n
    <2>1. CASE i = slot
      BY ONLY <1>5, <1>7, <2>1, i \in 1 .. n
    <2>2. CASE i # slot
      BY ONLY <1>7, <2>2, i \in 1 .. n
    <2> QED BY ONLY <2>1, <2>2
  <1>9. /\ \A i \in 1 .. n : ls[i].depth <= d
        /\ \A i \in 1 .. n : \A j \in i .. n : ls[i].depth <= ls[j].depth
    BY <1>3 DEF LocalsOK
  <1>10. \A i \in 1 .. n : m[i].depth <= d
    BY ONLY <1>8, <1>9
  <1>11. \A i \in 1 .. n : \A j \in i .. n : m[i].depth <= m[j].depth
    <2> TAKE i \in 1 .. n
    <2> TAKE j \in i .. n
    <2>1. j \in 1 .. n
      BY ONLY i \in 1 .. n, j \in i .. n, n \in Nat
    <2> QED BY ONLY <1>8, <1>9, <2>1, i \in 1 .. n, j \in i .. n
  <1>12. LocalsOK(ns, m, d)
    BY ONLY <1>1, <1>7, <1>10, <1>11 DEF LocalsOK
  <1>13. Grows(ls, m)
    BY ONLY <1>3, <1>7, <1>8, n \in Nat DEF Grows
  <1>14. Captured(m, slot)
    BY ONLY <1>3, <1>5, <1>7, slot \in 1 .. Len(ls) DEF Captured
  <1> QED
    BY ONLY <1>3, <1>7, <1>12, <1>13, <1>14

LEMMA SavedWith ==
    ASSUME NEW r, IsSaved(r), NEW t, NEW slot
    PROVE  /\ [r EXCEPT !.upvalues = t].upvalues = t
           /\ [r EXCEPT !.upvalues = t].locals = r.locals
           /\ [r EXCEPT !.locals[slot].captured = TRUE].locals =
                  [r.locals EXCEPT ![slot].captured = TRUE]
           /\ [r EXCEPT !.locals[slot].captured = TRUE].upvalues = r.upvalues
  <1>1. r = [locals |-> r.locals, upvalues |-> r.upvalues, depth |-> r.depth,
             point |-> r.point, open |-> r.open]
    BY ONLY IsSaved(r), Zenon DEF IsSaved
  <1>2. PICK ls : ls = [r.locals EXCEPT ![slot].captured = TRUE]
    OBVIOUS
  <1>3. [r EXCEPT !.upvalues = t] =
            [locals |-> r.locals, upvalues |-> t, depth |-> r.depth,
             point |-> r.point, open |-> r.open]
    BY ONLY <1>1
  <1>4. PICK u : u = [r EXCEPT !.locals[slot].captured = TRUE]
    OBVIOUS
  <1>5. u = [locals |-> ls, upvalues |-> r.upvalues, depth |-> r.depth,
             point |-> r.point, open |-> r.open]
    BY ONLY <1>1, <1>2, <1>4
  <1>6. u.locals = ls /\ u.upvalues = r.upvalues
    BY ONLY <1>5
  <1> QED
    BY ONLY <1>2, <1>3, <1>4, <1>6

(* What capturing makes of the functions around.                           *)
LEMMA CaptureFields ==
    ASSUME Shapes, NEW name, NEW home \in Nat, NEW resolved,
           outer' = MarkCaptured(name, home, resolved),
           NEW slot, slot = ResolveLocal(LocalsOf(home), name), NEW i \in 1 .. Len(outer)
    PROVE  /\ i - 1 > home => /\ outer'[i].upvalues = resolved[i - 1].table
                              /\ outer'[i].locals = outer[i].locals
           /\ i - 1 = home => /\ outer'[i].locals = [outer[i].locals EXCEPT ![slot].captured = TRUE]
                              /\ outer'[i].upvalues = outer[i].upvalues
           /\ i - 1 < home => outer'[i] = outer[i]
  <1>1. DOMAIN outer = 1 .. Len(outer) /\ IsSaved(outer[i])
    BY SequenceFacts DEF Shapes
  <1>2. PICK o : o = outer
    OBVIOUS
  <1>3. PICK p : p = outer'
    OBVIOUS
  <1>4. p = [j \in DOMAIN o |->
                CASE j - 1 > home -> [o[j] EXCEPT !.upvalues = resolved[j - 1].table]
                  [] j - 1 = home -> [o[j] EXCEPT !.locals[slot].captured = TRUE]
                  [] OTHER -> o[j]]
    BY <1>2, <1>3 DEF MarkCaptured
  <1>5. i \in DOMAIN o /\ i - 1 \in Int
    BY <1>1, <1>2
  <1>6. p[i] = CASE i - 1 > home -> [o[i] EXCEPT !.upvalues = resolved[i - 1].table]
                 [] i - 1 = home -> [o[i] EXCEPT !.locals[slot].captured = TRUE]
                 [] OTHER -> o[i]
    BY ONLY <1>4, <1>5, Zenon
  <1>7. CASE i - 1 > home
    <2>1. ~(i - 1 = home) /\ ~(i - 1 < home)
      BY ONLY <1>5, <1>7, home \in Nat
    <2>2. p[i] = [o[i] EXCEPT !.upvalues = resolved[i - 1].table]
      BY ONLY <1>6, <1>7, <2>1
    <2> QED BY <1>1, <1>2, <1>3, <2>1, <2>2, SavedWith
  <1>8. CASE i - 1 = home
    <2>1. ~(i - 1 > home) /\ ~(i - 1 < home)
      BY ONLY <1>5, <1>8, home \in Nat
    <2>2. p[i] = [o[i] EXCEPT !.locals[slot].captured = TRUE]
      BY ONLY <1>6, <1>8, <2>1
    <2> QED BY <1>1, <1>2, <1>3, <2>1, <2>2, SavedWith
  <1>9. CASE i - 1 < home
    <2>1. ~(i - 1 > home) /\ ~(i - 1 = home)
      BY ONLY <1>5, <1>9, home \in Nat
    <2>2. p[i] = o[i]
      BY ONLY <1>6, <2>1
    <2> QED BY <1>2, <1>3, <2>1, <2>2
  <1> QED
    BY <1>5, <1>7, <1>8, <1>9

LEMMA FunctionFacts ==
    ASSUME FunctionsOK, Shapes
    PROVE  /\ Level \in Nat /\ Level = Len(outer) /\ LocalsOK(Names, locals, depth)
           /\ upvalues \in Seq(Upvalues) /\ OpenOK(locals, open)
           /\ \A i \in 1 .. Level : /\ LocalsOK(Names, outer[i].locals, outer[i].depth)
                                    /\ outer[i].upvalues \in Seq(Upvalues)
                                    /\ OpenOK(outer[i].locals, outer[i].open)
           /\ \A i \in 1 .. Level : CapturesOK(outer[i].locals, UpvaluesOf(i))
           /\ \A i \in 0 .. Level : UpvaluesOf(i) \in Seq(Upvalues)
           /\ \A i \in 0 .. Level - 1 : /\ LocalsOf(i) = outer[i + 1].locals
                                        /\ UpvaluesOf(i) = outer[i + 1].upvalues
           /\ LocalsOf(Level) = locals /\ UpvaluesOf(Level) = upvalues
  <1>1. Level \in Nat /\ Level = Len(outer)
    BY SequenceFacts DEF Shapes, Level
  <1>2. /\ LocalsOK(Names, locals, depth) /\ upvalues \in Seq(Upvalues) /\ OpenOK(locals, open)
        /\ \A i \in 1 .. Level : /\ LocalsOK(Names, outer[i].locals, outer[i].depth)
                                 /\ outer[i].upvalues \in Seq(Upvalues)
                                 /\ OpenOK(outer[i].locals, outer[i].open)
        /\ \A i \in 1 .. Level : CapturesOK(outer[i].locals, UpvaluesOf(i))
    BY DEF FunctionsOK, TablesOK
  <1>3. \A i \in 0 .. Level - 1 : i # Level /\ i + 1 \in 1 .. Level
    BY <1>1
  <1>4. /\ \A i \in 0 .. Level - 1 : /\ LocalsOf(i) = outer[i + 1].locals
                                     /\ UpvaluesOf(i) = outer[i + 1].upvalues
        /\ LocalsOf(Level) = locals /\ UpvaluesOf(Level) = upvalues
    BY <1>3 DEF LocalsOf, UpvaluesOf
  <1>5. \A i \in 0 .. Level : UpvaluesOf(i) \in Seq(Upvalues)
    <2> TAKE i \in 0 .. Level
    <2>1. CASE i = Level
      BY <1>2, <1>4, <2>1
    <2>2. CASE i \in 0 .. Level - 1
      BY <1>2, <1>3, <1>4, <2>2
    <2> QED BY <1>1, <2>1, <2>2
  <1> QED
    BY <1>1, <1>2, <1>4, <1>5

LEMMA CapturesGrow ==
    ASSUME NEW ls, NEW ls2, Len(ls) \in Nat, Len(ls2) \in Nat, Grows(ls, ls2),
           NEW us, CapturesOK(ls, us)
    PROVE  CapturesOK(ls2, us)
  BY TablesGrow

LEMMA OpenGrows ==
    ASSUME NEW ls, NEW ls2, Len(ls) \in Nat, Len(ls2) \in Nat, Grows(ls, ls2),
           NEW slots, OpenOK(ls, slots)
    PROVE  OpenOK(ls2, slots)
  BY TablesGrow

(* Resolving a name as an upvalue keeps every table in order: the local    *)
(* that is captured is marked, in the function whose local it is.          *)
LEMMA CaptureTables ==
    ASSUME Shapes, FunctionsOK, NEW name, NEW home \in Nat, home + 1 <= Level,
           ResolveLocal(LocalsOf(home), name) # -1,
           NEW resolved, resolved = ResolveUpvalue(name, home),
           outer' = MarkCaptured(name, home, resolved), upvalues' = resolved[Level].table,
           UNCHANGED <<locals, depth, open, language>>
    PROVE  FunctionsOK'
  <1>1. PICK N \in Nat : N = Level /\ N = Len(outer)
    BY FunctionFacts
  <1>2. /\ LocalsOK(Names, locals, depth) /\ upvalues \in Seq(Upvalues) /\ OpenOK(locals, open)
        /\ \A i \in 1 .. N : /\ LocalsOK(Names, outer[i].locals, outer[i].depth)
                             /\ outer[i].upvalues \in Seq(Upvalues)
                             /\ OpenOK(outer[i].locals, outer[i].open)
        /\ \A i \in 1 .. N : CapturesOK(outer[i].locals, UpvaluesOf(i))
    BY <1>1, FunctionFacts
  <1>3. /\ \A i \in 0 .. N : UpvaluesOf(i) \in Seq(Upvalues)
        /\ \A i \in 0 .. N - 1 : /\ LocalsOf(i) = outer[i + 1].locals
                                 /\ UpvaluesOf(i) = outer[i + 1].upvalues
    BY <1>1, FunctionFacts
  <1>4. home \in 0 .. N - 1 /\ home + 1 \in 1 .. N
    BY <1>1
  <1>5. PICK slot : slot = ResolveLocal(LocalsOf(home), name)
    OBVIOUS
  <1>6. LocalsOf(home) = outer[home + 1].locals /\ outer[home + 1].locals \in Seq(LocalRecords(Names))
    BY <1>2, <1>3, <1>4 DEF LocalsOK
  <1>7. slot \in 1 .. Len(outer[home + 1].locals) /\ slot \in Nat
    <2>1. Len(LocalsOf(home)) \in Nat /\ DOMAIN LocalsOf(home) = 1 .. Len(LocalsOf(home))
      BY <1>6
    <2>2. slot \in 1 .. Len(LocalsOf(home))
      BY <1>5, <2>1, ResolveLocalIs
    <2> QED BY <1>6, <2>1, <2>2
  <1>8. \A l \in (home + 1) .. N : Resolved(resolved[l], UpvaluesOf(l), l = home + 1, slot)
    <2>1. \A l \in 1 .. N : UpvaluesOf(l) \in Seq(Upvalues)
      BY <1>1, <1>3
    <2> QED BY <1>1, <1>5, <1>7, <2>1, ResolveUpvalueIs
  <1>9. /\ Len(outer') = N /\ \A i \in 1 .. N : /\ outer'[i].depth = outer[i].depth
                                                /\ outer'[i].open = outer[i].open
    BY <1>1, CaptureKeepsDepths
  <1>10. Level' = N /\ Names' = Names
    BY <1>9 DEF Level, Names
  <1>11. \A i \in 1 .. N :
           /\ i - 1 > home => /\ outer'[i].upvalues = resolved[i - 1].table
                              /\ outer'[i].locals = outer[i].locals
           /\ i - 1 = home => /\ outer'[i].locals = [outer[i].locals EXCEPT ![slot].captured = TRUE]
                              /\ outer'[i].upvalues = outer[i].upvalues
           /\ i - 1 < home => outer'[i] = outer[i]
    BY <1>1, <1>5, CaptureFields
  <1>12. ASSUME NEW i \in 1 .. N
         PROVE  /\ i - 1 # home => outer'[i].locals = outer[i].locals
                /\ ~(i - 1 > home) => outer'[i].upvalues = outer[i].upvalues
    <2>1. i - 1 > home \/ i - 1 = home \/ i - 1 < home
      OBVIOUS
    <2>2. CASE i - 1 > home
      <3>1. outer'[i].locals = outer[i].locals
        BY ONLY <1>11, <2>2, i \in 1 .. N, Zenon
      <3> QED BY ONLY <2>2, <3>1
    <2>3. CASE i - 1 = home
      <3>1. outer'[i].upvalues = outer[i].upvalues
        BY ONLY <1>11, <2>3, i \in 1 .. N, Zenon
      <3> QED BY ONLY <2>3, <3>1
    <2>4. CASE i - 1 < home
      <3>1. outer'[i] = outer[i]
        BY ONLY <1>11, <2>4, i \in 1 .. N, Zenon
      <3> QED BY ONLY <3>1, Zenon
    <2> QED BY ONLY <2>1, <2>2, <2>3, <2>4
  <1>13. PICK m : m = [outer[home + 1].locals EXCEPT ![slot].captured = TRUE]
    OBVIOUS
  <1>14. /\ LocalsOK(Names, m, outer[home + 1].depth) /\ Grows(outer[home + 1].locals, m)
         /\ Captured(m, slot)
    BY <1>2, <1>4, <1>7, <1>13, LocalsCaptured
  <1>15. \A i \in 1 .. N : /\ LocalsOK(Names, outer'[i].locals, outer[i].depth)
                           /\ Grows(outer[i].locals, outer'[i].locals)
    <2> TAKE i \in 1 .. N
    <2>1. CASE i - 1 = home
      <3>1. i = home + 1 /\ outer'[i].locals = m
        <4>1. i = home + 1
          BY ONLY <2>1, home \in Nat, i \in 1 .. N
        <4>2. outer'[i].locals = [outer[i].locals EXCEPT ![slot].captured = TRUE]
          BY ONLY <1>11, <2>1, i \in 1 .. N, Zenon
        <4> QED BY ONLY <1>13, <4>1, <4>2, Zenon
      <3> QED BY <1>14, <3>1
    <2>2. CASE i - 1 # home
      <3>1. outer'[i].locals = outer[i].locals
        BY <1>12, <2>2
      <3>2. Len(outer[i].locals) \in Nat
        BY <1>2 DEF LocalsOK
      <3>3. Grows(outer[i].locals, outer[i].locals)
        BY ONLY <3>2 DEF Grows
      <3> QED BY <1>2, <3>1, <3>3
    <2> QED BY <2>1, <2>2
  <1>16. \A i \in 1 .. N : Len(outer[i].locals) \in Nat /\ Len(outer'[i].locals) \in Nat
    BY <1>2, <1>15 DEF LocalsOK
  <1>17. \A i \in 1 .. N : OpenOK(outer'[i].locals, outer[i].open)
    BY <1>2, <1>15, <1>16, OpenGrows
  <1>18. \A i \in (home + 1) .. N : resolved[i].table \in Seq(Upvalues)
    BY <1>8 DEF Resolved, Resolutions
  <1>19. upvalues' \in Seq(Upvalues)
    BY <1>1, <1>4, <1>18
  <1>20. \A i \in 1 .. N : outer'[i].upvalues \in Seq(Upvalues)
    <2> TAKE i \in 1 .. N
    <2>1. CASE i - 1 > home
      <3>1. i - 1 \in (home + 1) .. N
        BY <2>1
      <3> QED BY <1>11, <1>18, <2>1, <3>1
    <2>2. CASE ~(i - 1 > home)
      <3>1. outer'[i].upvalues = outer[i].upvalues
        BY <1>12, <2>2
      <3> QED BY <1>2, <3>1
    <2> QED BY <2>1, <2>2
  <1>21. \A i \in 1 .. N : UpvaluesOf(i)' = IF i = N THEN upvalues' ELSE outer'[i + 1].upvalues
    BY <1>10 DEF UpvaluesOf
  <1>22. \A i \in (home + 1) .. N : UpvaluesOf(i)' = resolved[i].table
    <2> TAKE i \in (home + 1) .. N
    <2>1. CASE i = N
      BY <1>1, <1>4, <1>21, <2>1
    <2>2. CASE i # N
      <3>1. i + 1 \in 1 .. N /\ (i + 1) - 1 > home /\ (i + 1) - 1 = i /\ i \in 1 .. N
        BY <2>2
      <3>2. outer'[i + 1].upvalues = resolved[i].table
        BY <1>11, <3>1
      <3> QED BY <1>21, <2>2, <3>1, <3>2
    <2> QED BY <2>1, <2>2
  <1>23. \A i \in 1 .. home : UpvaluesOf(i)' = UpvaluesOf(i) /\ i \in 1 .. N
    <2> TAKE i \in 1 .. home
    <2>1. i + 1 \in 1 .. N /\ ~((i + 1) - 1 > home) /\ i \in 0 .. N - 1 /\ i # N /\ i \in 1 .. N
      BY <1>4
    <2>2. outer'[i + 1].upvalues = outer[i + 1].upvalues
      BY <1>12, <2>1
    <2> QED BY <1>3, <1>21, <2>1, <2>2
  <1>24. ASSUME NEW i \in 1 .. N PROVE CapturesOK(outer'[i].locals, UpvaluesOf(i)')
    <2>1. CASE i \in 1 .. home
      <3>1. UpvaluesOf(i)' = UpvaluesOf(i)
        BY <1>23, <2>1
      <3> QED BY <1>2, <1>15, <1>16, <3>1, CapturesGrow
    <2>2. CASE i \in (home + 1) .. N
      <3>1. PICK us : us = UpvaluesOf(i)
        OBVIOUS
      <3>2. PICK t : t = UpvaluesOf(i)'
        OBVIOUS
      <3>3. \A k \in 1 .. Len(t) : \/ k \in 1 .. Len(us) /\ t[k] = us[k]
                                   \/ t[k].isLocal => i = home + 1 /\ t[k].index = slot
        <4>1. t = resolved[i].table
          BY <1>22, <2>2, <3>2
        <4>2. Resolved(resolved[i], us, i = home + 1, slot)
          BY <1>8, <2>2, <3>1
        <4> QED BY ONLY <4>1, <4>2 DEF Resolved
      <3>4. CapturesOK(outer'[i].locals, us)
        BY <1>2, <1>15, <1>16, <3>1, CapturesGrow
      <3>5. i = home + 1 => Captured(outer'[i].locals, slot)
        <4>1. i = home + 1 => i - 1 = home
          BY <1>4
        <4> QED BY <1>11, <1>13, <1>14, <4>1
      <3>6. CapturesOK(outer'[i].locals, t)
        BY ONLY <3>3, <3>4, <3>5 DEF CapturesOK
      <3> QED BY <3>2, <3>6
    <2> QED BY <1>4, <2>1, <2>2
  <1>25. LocalsOK(Names, locals, depth)' /\ OpenOK(locals, open)'
    BY <1>2, <1>10
  <1>26. \A i \in 1 .. N : /\ LocalsOK(Names, outer'[i].locals, outer'[i].depth)
                           /\ OpenOK(outer'[i].locals, outer'[i].open)
    BY <1>9, <1>15, <1>17
  <1> QED
    BY <1>10, <1>19, <1>20, <1>24, <1>25, <1>26 DEF FunctionsOK, TablesOK

LEMMA TablesStep ==
    ASSUME FunctionsOK, Shapes, LocalsOK(Names, locals', depth'), Grows(locals, locals'),
           UNCHANGED <<upvalues, open, outer, language>>
    PROVE  FunctionsOK'
  <1>1. Len(locals) \in Nat /\ Len(locals') \in Nat
    BY FunctionFacts DEF LocalsOK
  <1>2. OpenOK(locals', open)
    BY <1>1, FunctionFacts, OpenGrows
  <1>3. Names' = Names /\ Level' = Level /\ \A i \in 1 .. Level : UpvaluesOf(i)' = UpvaluesOf(i)
    BY DEF Names, Level, UpvaluesOf
  <1>4. TablesOK(Names, locals, depth, upvalues, open)'
    BY <1>2, <1>3 DEF FunctionsOK, TablesOK
  <1>5. \A i \in 1 .. Level :
            TablesOK(Names, outer[i].locals, outer[i].depth, outer[i].upvalues, outer[i].open)'
    BY <1>3 DEF FunctionsOK
  <1>6. \A i \in 1 .. Level : CapturesOK(outer[i].locals, UpvaluesOf(i))'
    BY <1>3 DEF FunctionsOK
  <1> QED
    BY <1>3, <1>4, <1>5, <1>6 DEF FunctionsOK

LEMMA SameTables ==
    ASSUME FunctionsOK, Shapes, UNCHANGED <<locals, depth, upvalues, open, outer, language>>
    PROVE  FunctionsOK'
  <1>1. Len(locals) \in Nat /\ LocalsOK(Names, locals', depth')
    BY FunctionFacts DEF LocalsOK
  <1>2. Grows(locals, locals')
    BY <1>1 DEF Grows
  <1> QED
    BY <1>1, <1>2, TablesStep

LEMMA DepthIsNat ==
    ASSUME Annotated
    PROVE  depth \in Nat /\ \A i \in 1 .. Level : outer[i].depth \in Nat
  <1>1. PICK a, z : Typed(Names, todo, a, z) /\ Fits(a)
    BY DEF Annotated
  <1>2. PICK f : Annotates(f, Names, todo, a, z)
    BY <1>1 DEF Typed
  <1>3. Len(todo) \in Nat
    BY <1>1, SequenceFacts DEF Typed
  <1>4. a \in Contexts
    <2>1. 1 \in 1 .. Len(todo) + 1
      BY <1>3
    <2> QED BY <1>2, <2>1 DEF Annotates
  <1>5. a.depth \in Nat /\ a.saved \in Seq(Nat)
    BY <1>4, ContextFields
  <1> QED
    BY <1>1, <1>5 DEF Fits

(* The statements that open a scope.                                       *)
LEMMA DeeperTables ==
    ASSUME Ready, Shapes, FunctionsOK, depth' = depth + 1,
           UNCHANGED <<locals, upvalues, open, outer, language>>
    PROVE  FunctionsOK'
  <1>1. depth \in Nat
    BY DepthIsNat DEF Ready
  <1>2. depth + 1 \in Nat /\ depth <= depth + 1
    BY <1>1
  <1>3. LocalsOK(Names, locals', depth')
    BY <1>1, <1>2, FunctionFacts, DeeperLocals
  <1>4. Grows(locals, locals')
    <2>1. Len(locals) \in Nat
      BY FunctionFacts DEF LocalsOK
    <2> QED BY <2>1 DEF Grows
  <1> QED
    BY <1>3, <1>4, TablesStep

LEMMA TaskName ==
    ASSUME Ready, todo # <<>>, Task.do \in Named
    PROVE  Task.name \in Names \cup HiddenNames
  <1>1. PICK a, b : Leads(Names, Task, a, b)
    BY Begin DEF Ready
  <1> QED
    BY <1>1 DEF Leads, HiddenNames

LEMMA CompileLetTables ==
    ASSUME Ready, Shapes, FunctionsOK, CompileLet, UNCHANGED <<upvalues, open, language>>
    PROVE  FunctionsOK'
  <1>1. PICK name \in Names :
            locals' = IF depth > 0 /\ ~(depth > 0 /\ Redeclared(locals, name, depth))
                      THEN Append(locals, Local(name, depth))
                      ELSE locals
    BY DEF CompileLet
  <1>2. UNCHANGED <<depth, outer>> /\ depth \in Nat
    BY DepthIsNat DEF CompileLet, Ready
  <1>3. CASE locals' = Append(locals, Local(name, depth))
    <2>1. LocalsOK(Names, locals', depth') /\ Grows(locals, locals')
      BY <1>2, <1>3, FunctionFacts, LocalsAppend
    <2> QED BY <1>2, <2>1, TablesStep
  <1>4. CASE locals' = locals
    BY <1>2, <1>4, SameTables
  <1> QED
    BY <1>1, <1>3, <1>4

LEMMA DeclarationTables ==
    ASSUME Ready, Shapes, FunctionsOK, DeclareFunction \/ DeclareLocal \/ MarkInitialized,
           UNCHANGED <<upvalues, open, language>>
    PROVE  FunctionsOK'
  <1>1. UNCHANGED <<depth, outer>> /\ depth \in Nat
    BY DepthIsNat DEF DeclareFunction, DeclareLocal, MarkInitialized, Ready
  <1>2. \/ locals' = Marked(locals)
        \/ /\ locals' = AddLocal(locals, Task.name, depth)
           /\ Task.name \in Names \cup HiddenNames
    <2>1. todo # <<>> /\ Task.do \in Named => Task.name \in Names \cup HiddenNames
      BY TaskName
    <2>2. DeclareFunction \/ DeclareLocal => todo # <<>> /\ Task.do \in Named
      BY DEF DeclareFunction, DeclareLocal, TaskIs, Named
    <2> QED BY <2>1, <2>2 DEF DeclareFunction, DeclareLocal, MarkInitialized
  <1>3. LocalsOK(Names, locals', depth') /\ Grows(locals, locals')
    BY <1>1, <1>2, FunctionFacts, LocalsAdded, LocalsMarked
  <1> QED
    BY <1>1, <1>3, TablesStep

LEMMA ForLoopTables ==
    ASSUME Ready, Shapes, FunctionsOK, CompileForLoop, UNCHANGED <<upvalues, open, language>>
    PROVE  FunctionsOK'
  <1>1. UNCHANGED <<depth, outer>> /\ depth \in Nat
    BY DepthIsNat DEF CompileForLoop, Ready
  <1>2. PICK withIter : withIter = AddLocal(locals, "$iter", depth)
    OBVIOUS
  <1>3. locals' = AddLocal(withIter, "$idx", depth)
    BY <1>2 DEF CompileForLoop
  <1>4. "$iter" \in Names \cup HiddenNames /\ "$idx" \in Names \cup HiddenNames
    BY DEF HiddenNames
  <1>5. LocalsOK(Names, withIter, depth) /\ Grows(locals, withIter)
    BY <1>1, <1>2, <1>4, FunctionFacts, LocalsAdded
  <1>6. LocalsOK(Names, locals', depth) /\ Grows(withIter, locals')
    BY <1>1, <1>3, <1>4, <1>5, LocalsAdded
  <1>7. Len(locals) \in Nat /\ Len(withIter) \in Nat /\ Len(locals') \in Nat
    BY <1>5, <1>6, FunctionFacts DEF LocalsOK
  <1>8. Grows(locals, locals')
    BY <1>5, <1>6, <1>7, GrowsOn
  <1> QED
    BY <1>1, <1>6, <1>8, TablesStep

LEMMA EndScopeTables ==
    ASSUME Ready, Shapes, FunctionsOK, EndScope, language' = language
    PROVE  FunctionsOK'
  <1>1. PICK d \in Nat : depth = d + 1
    <2>1. todo # <<>> /\ Task.do = "end"
      BY DEF EndScope, TaskIs
    <2>2. PICK a, b \in Contexts : Fits(a) /\ Leads(Names, Task, a, b)
      BY <2>1, Begin DEF Ready
    <2>3. a.depth = b.depth + 1
      BY <2>1, <2>2 DEF Leads, Plain, Composite
    <2> QED BY <2>2, <2>3, ContextFields DEF Fits
  <1>2. /\ depth' = d /\ locals' = Outside(locals, d + 1)
        /\ open' = {i \in open : i <= Len(locals')}
        /\ UNCHANGED <<upvalues, outer, language>>
    BY <1>1 DEF EndScope
  <1>3. LocalsOK(Names, locals, d + 1) /\ OpenOK(locals, open) /\ Len(locals) \in Nat
    BY <1>1, FunctionFacts DEF LocalsOK
  <1>4. /\ LocalsOK(Names, locals', d) /\ Len(locals') <= Len(locals)
        /\ \A i \in 1 .. Len(locals') : locals'[i] = locals[i]
    BY <1>2, <1>3, OutsideOK
  <1>5. Len(locals') \in Nat
    BY <1>4 DEF LocalsOK
  <1>6. OpenOK(locals', open')
    <2> SUFFICES ASSUME NEW k \in open' PROVE Captured(locals', k)
      BY DEF OpenOK
    <2>1. k \in open /\ k <= Len(locals')
      BY <1>2
    <2>2. k \in 1 .. Len(locals) /\ locals[k].captured
      BY <1>3, <2>1 DEF OpenOK, Captured
    <2>3. k \in 1 .. Len(locals') /\ locals'[k].captured
      BY <1>3, <1>4, <1>5, <2>1, <2>2
    <2> QED BY <2>3 DEF Captured
  <1>7. Names' = Names /\ Level' = Level /\ \A i \in 1 .. Level : UpvaluesOf(i)' = UpvaluesOf(i)
    BY <1>2 DEF Names, Level, UpvaluesOf
  <1>8. TablesOK(Names, locals, depth, upvalues, open)'
    BY <1>2, <1>4, <1>6, <1>7 DEF FunctionsOK, TablesOK
  <1>9. \A i \in 1 .. Level :
            TablesOK(Names, outer[i].locals, outer[i].depth, outer[i].upvalues, outer[i].open)'
    BY <1>2, <1>7 DEF FunctionsOK
  <1>10. \A i \in 1 .. Level : CapturesOK(outer[i].locals, UpvaluesOf(i))'
    BY <1>2, <1>7 DEF FunctionsOK
  <1> QED
    BY <1>7, <1>8, <1>9, <1>10 DEF FunctionsOK

LEMMA EnterFunctionTables ==
    ASSUME Ready, Shapes, FunctionsOK, CompileFn \/ CompileLambda, language' = language
    PROVE  FunctionsOK'
  <1>1. PICK rest : EnterFunction(rest)
    BY DEF CompileFn, CompileLambda
  <1>2. PICK saved : saved = [locals |-> locals, upvalues |-> upvalues, depth |-> depth,
                              point |-> point, open |-> open]
    OBVIOUS
  <1>3. PICK params \in ParameterLists :
            /\ outer' = Append(outer, saved) /\ locals' = ParameterLocals(params)
            /\ upvalues' = <<>> /\ open' = {} /\ depth' = 1
    BY <1>1, <1>2 DEF EnterFunction
  <1>4. Len(params) \in Nat /\ \A n \in 1 .. Len(params) : params[n] \in Names
    <2>1. PICK n \in 0 .. MaxArgs : params \in [1 .. n -> Names]
      BY DEF ParameterLists
    <2>2. n \in Nat
      BY LanguageFacts DEF Ready
    <2>3. params \in Seq(Names)
      BY <2>1, <2>2
    <2> QED BY <2>3
  <1>5. LocalsOK(Names, locals', 1)
    BY <1>3, <1>4, ParametersOK
  <1>6. PICK N \in Nat : N = Level /\ N = Len(outer)
    BY FunctionFacts
  <1>7. /\ Len(outer') = N + 1 /\ outer'[N + 1] = saved
        /\ \A i \in 1 .. N : outer'[i] = outer[i]
    BY <1>3, <1>6, AppendFacts DEF Shapes
  <1>8. Level' = N + 1 /\ Names' = Names
    BY <1>7 DEF Level, Names
  <1>9. /\ saved.locals = locals /\ saved.upvalues = upvalues /\ saved.depth = depth
        /\ saved.open = open
    BY <1>2
  <1>10. TablesOK(Names, locals, depth, upvalues, open)'
    <2>1. <<>> \in Seq(Upvalues) /\ OpenOK(locals', {})
      BY DEF OpenOK
    <2> QED BY <1>3, <1>5, <1>8, <2>1 DEF TablesOK
  <1>11. ASSUME NEW i \in 1 .. N + 1
         PROVE  TablesOK(Names, outer'[i].locals, outer'[i].depth, outer'[i].upvalues, outer'[i].open)
    <2>1. CASE i \in 1 .. N
      BY <1>6, <1>7, <2>1 DEF FunctionsOK
    <2>2. CASE i = N + 1
      BY <1>7, <1>9, <2>2 DEF FunctionsOK
    <2> QED BY <2>1, <2>2
  <1>12. \A i \in 1 .. N + 1 : UpvaluesOf(i)' = IF i = N + 1 THEN <<>> ELSE outer'[i + 1].upvalues
    BY <1>3, <1>8 DEF UpvaluesOf
  <1>13. \A i \in 1 .. N : UpvaluesOf(i)' = UpvaluesOf(i)
    <2> TAKE i \in 1 .. N
    <2>1. i \in 1 .. N + 1 /\ i # N + 1
      OBVIOUS
    <2>2. CASE i = N
      <3>1. UpvaluesOf(i)' = saved.upvalues
        BY <1>7, <1>12, <2>1, <2>2
      <3>2. UpvaluesOf(i) = upvalues
        BY <1>6, <2>2 DEF UpvaluesOf
      <3> QED BY <1>9, <3>1, <3>2
    <2>3. CASE i # N
      <3>1. i + 1 \in 1 .. N
        BY <2>3
      <3> QED BY <1>6, <1>7, <1>12, <2>1, <2>3, <3>1 DEF UpvaluesOf
    <2> QED BY <2>2, <2>3
  <1>14. ASSUME NEW i \in 1 .. N + 1 PROVE CapturesOK(outer'[i].locals, UpvaluesOf(i)')
    <2>1. CASE i \in 1 .. N
      BY <1>6, <1>7, <1>13, <2>1, FunctionFacts
    <2>2. CASE i = N + 1
      <3>1. UpvaluesOf(i)' = <<>>
        BY <1>12, <2>2
      <3>2. \A k \in 1 .. Len(<<>>) : FALSE
        OBVIOUS
      <3> QED BY <3>1, <3>2 DEF CapturesOK
    <2> QED BY <2>1, <2>2
  <1> QED
    BY <1>8, <1>10, <1>11, <1>14 DEF FunctionsOK

LEMMA LeaveFunctionTables ==
    ASSUME Ready, Shapes, FunctionsOK, LeaveFunction, language' = language
    PROVE  FunctionsOK'
  <1>1. PICK N \in Nat : N = Level /\ N = Len(outer)
    BY FunctionFacts
  <1>2. N > 0
    <2>1. todo # <<>> /\ Task.do = "leaveFunction"
      BY DEF LeaveFunction, TaskIs
    <2>2. PICK a, b \in Contexts : Fits(a) /\ Leads(Names, Task, a, b)
      BY <2>1, Begin DEF Ready
    <2>3. a.saved = Append(b.saved, b.depth)
      BY <2>1, <2>2 DEF Leads, Plain, Composite
    <2>4. b.saved \in Seq(Nat) /\ b.depth \in Nat
      BY <2>2, ContextFields
    <2>5. Len(a.saved) > 0
      BY <2>3, <2>4
    <2> QED BY <1>1, <2>2, <2>5 DEF Fits
  <1>3. PICK m \in Nat : N = m + 1
    <2>1. N - 1 \in Nat /\ N = (N - 1) + 1
      BY <1>2
    <2> QED BY <2>1
  <1>4. PICK saved : saved = outer[N]
    OBVIOUS
  <1>5. /\ locals' = saved.locals /\ upvalues' = saved.upvalues /\ depth' = saved.depth
        /\ open' = saved.open \cup {u.index : u \in {v \in Range(upvalues) : v.isLocal}}
        /\ outer' = Drop(outer, 1)
    BY <1>1, <1>4 DEF LeaveFunction
  <1>6. Len(outer') = m /\ \A i \in 1 .. m : outer'[i] = outer[i]
    <2>1. 1 \in 0 .. Len(outer) /\ Len(outer) - 1 = m
      BY <1>1, <1>3
    <2> QED BY <1>5, <2>1, DropFacts DEF Shapes
  <1>7. Level' = m /\ Names' = Names
    BY <1>6 DEF Level, Names
  <1>8. /\ LocalsOK(Names, saved.locals, saved.depth) /\ saved.upvalues \in Seq(Upvalues)
        /\ OpenOK(saved.locals, saved.open) /\ CapturesOK(saved.locals, UpvaluesOf(N))
    <2>1. N \in 1 .. N
      BY <1>2
    <2> QED BY <1>1, <1>4, <2>1, FunctionFacts
  <1>9. UpvaluesOf(N) = upvalues /\ upvalues \in Seq(Upvalues)
    BY <1>1, FunctionFacts
  <1>10. OpenOK(locals', open')
    <2> SUFFICES ASSUME NEW k \in open' PROVE Captured(saved.locals, k)
      BY <1>5 DEF OpenOK
    <2>1. CASE k \in saved.open
      BY <1>8, <2>1 DEF OpenOK
    <2>2. CASE k \in {u.index : u \in {v \in Range(upvalues) : v.isLocal}}
      <3>1. PICK u \in Range(upvalues) : u.isLocal /\ k = u.index
        BY <2>2
      <3>2. PICK j \in 1 .. Len(upvalues) : u = upvalues[j]
        BY <1>9, <3>1 DEF Range
      <3> QED BY <1>8, <1>9, <3>1, <3>2 DEF CapturesOK
    <2> QED BY <1>5, <2>1, <2>2
  <1>11. TablesOK(Names, locals, depth, upvalues, open)'
    BY <1>5, <1>7, <1>8, <1>10 DEF TablesOK
  <1>12. ASSUME NEW i \in 1 .. m
         PROVE  TablesOK(Names, outer'[i].locals, outer'[i].depth, outer'[i].upvalues, outer'[i].open)
    BY <1>1, <1>3, <1>6 DEF FunctionsOK
  <1>13. \A i \in 1 .. m : UpvaluesOf(i)' = UpvaluesOf(i)
    <2> TAKE i \in 1 .. m
    <2>1. i # N /\ i + 1 \in 1 .. N /\ UpvaluesOf(i) = outer[i + 1].upvalues
      BY <1>1, <1>3 DEF UpvaluesOf
    <2>2. CASE i = m
      <3>1. UpvaluesOf(i)' = upvalues'
        BY <1>7, <2>2 DEF UpvaluesOf
      <3> QED BY <1>3, <1>4, <1>5, <2>1, <2>2, <3>1
    <2>3. CASE i # m
      <3>1. i + 1 \in 1 .. m
        BY <2>3
      <3> QED BY <1>6, <1>7, <2>1, <2>3, <3>1 DEF UpvaluesOf
    <2> QED BY <2>2, <2>3
  <1>14. ASSUME NEW i \in 1 .. m PROVE CapturesOK(outer'[i].locals, UpvaluesOf(i)')
    <2>1. i \in 1 .. N
      BY <1>3
    <2> QED BY <1>1, <1>6, <1>13, <2>1, FunctionFacts
  <1> QED
    BY <1>7, <1>11, <1>12, <1>14 DEF FunctionsOK

LEMMA AccessTables ==
    ASSUME Ready, Shapes, FunctionsOK, CompileIdentifier \/ AssignName, language' = language
    PROVE  FunctionsOK'
  <1>1. PICK name : \E assigned \in BOOLEAN : Access(name, assigned)
    BY DEF CompileIdentifier, AssignName
  <1>2. UNCHANGED <<locals, depth, open>>
    BY <1>1 DEF Access
  <1>3. \/ UNCHANGED <<outer, upvalues>>
        \/ \E home, resolved : /\ home = Home(name) /\ home # -1
                               /\ resolved = ResolveUpvalue(name, home)
                               /\ outer' = MarkCaptured(name, home, resolved)
                               /\ upvalues' = resolved[Level].table
    BY <1>1, Zenon DEF Access
  <1>4. CASE UNCHANGED <<outer, upvalues>>
    BY <1>2, <1>4, SameTables
  <1>5. ASSUME NEW home, NEW resolved,
               home = Home(name), home # -1, resolved = ResolveUpvalue(name, home),
               outer' = MarkCaptured(name, home, resolved), upvalues' = resolved[Level].table
        PROVE  FunctionsOK'
    <2>1. Level \in Nat
      BY FunctionFacts
    <2>2. home \in 0 .. (Level - 1) /\ ResolveLocal(LocalsOf(home), name) # -1
      BY <1>5, <2>1, HomeIs
    <2>3. home \in Nat /\ home + 1 <= Level
      BY <2>1, <2>2
    <2> QED BY <1>2, <1>5, <2>2, <2>3, CaptureTables
  <1> QED
    BY <1>3, <1>4, <1>5

(* Every step keeps the tables of the functions in order.                  *)
LEMMA NextTables ==
    ASSUME Ready, Shapes, FunctionsOK, CompileStep
    PROVE  FunctionsOK'
  <1>1. language' = language
    BY DEF CompileStep
  <1>2. CASE ClosureStep
    BY <1>1, <1>2, EnterFunctionTables, LeaveFunctionTables, AccessTables, EndScopeTables
       DEF ClosureStep
  <1>3. CASE PlainStep /\ UNCHANGED <<upvalues, open>>
    <2>1. CASE CompileLet
      BY <1>1, <1>3, <2>1, CompileLetTables
    <2>2. CASE DeclareFunction \/ DeclareLocal \/ MarkInitialized
      BY <1>1, <1>3, <2>2, DeclarationTables
    <2>3. CASE CompileForLoop
      BY <1>1, <1>3, <2>3, ForLoopTables
    <2>4. CASE CompileBlock \/ CompileFor \/ BeginScope
      <3>1. depth' = depth + 1 /\ UNCHANGED <<locals, outer>>
        BY <2>4 DEF CompileBlock, CompileFor, BeginScope
      <3> QED BY <1>1, <1>3, <3>1, DeeperTables
    <2>5. CASE \/ CompileExprStmt \/ CompileIf \/ CompileWhile \/ PushLoop \/ CompileReturn
               \/ CompileFree \/ CompileBreak \/ CompileContinue \/ EndStatements
               \/ CompileLiteral \/ GetMatch
      <3>1. UNCHANGED <<locals, depth, outer>>
        BY <2>5 DEF CompileExprStmt, CompileIf, CompileWhile, PushLoop, CompileReturn, CompileFree,
           CompileBreak, CompileContinue, CompileJump, EndStatements, CompileLiteral, GetMatch
      <3> QED BY <1>1, <1>3, <3>1, SameTables
    <2>6. CASE \/ CompileUnary \/ CompileBinary \/ CompileAnd \/ CompileOr \/ CompilePrint
               \/ CompileCall \/ CompileIndex \/ CompileField \/ CompileArray \/ CompileNew
               \/ CompileAssign \/ CompileMatch
      <3>1. \A form, tasks : Compound(form, tasks) => UNCHANGED <<locals, depth, outer>>
        BY DEF Compound
      <3>2. \E form, tasks : Compound(form, tasks)
        BY <2>6 DEF CompileUnary, CompileBinary, CompileAnd, CompileOr, CompilePrint, CompileCall,
           CompileIndex, CompileField, CompileArray, CompileNew, CompileAssign, CompileMatch, Match
      <3>3. UNCHANGED <<locals, depth, outer>>
        BY <3>1, <3>2
      <3> QED BY <1>1, <1>3, <3>3, SameTables
    <2>7. CASE EmitInstruction \/ EmitExit \/ EmitJump \/ PatchJump \/ EmitBreak \/ EndLoop
      <3>1. UNCHANGED <<locals, depth, outer>>
        BY <2>7 DEF EmitInstruction, EmitExit, EmitJump, PatchJump, EmitBreak, EndLoop
      <3> QED BY <1>1, <1>3, <3>1, SameTables
    <2> QED BY <1>3, <2>1, <2>2, <2>3, <2>4, <2>5, <2>6, <2>7 DEF PlainStep
  <1> QED
    BY <1>2, <1>3 DEF CompileStep

----------------------------------------------------------------------------
(* Points say whether they are reached.                                    *)
Live(p) == p.live \in BOOLEAN

PointsOK ==
    /\ Live(point)
    /\ \A i \in 1 .. Len(jumps) : Live(jumps[i])
    /\ \A i \in 1 .. Len(outer) : Live(outer[i].point)
    /\ \A i \in 1 .. Len(loops) : \A b \in loops[i].breaks : Live(b.at)

LEMMA LivePoints ==
    /\ Live(Dead) /\ \A s : Live(At(s))
    /\ \A p, e : Live(After(p, e))
    /\ \A p, q : Live(p) /\ Live(q) => Live(Join(p, q))
    /\ \A p, ls : Live(p) => Live(Settled(p, ls))
  <1>1. Live(Dead) /\ \A s : Live(At(s))
    BY DEF Live, Dead, At
  <1>2. \A p, e : Live(After(p, e))
    BY <1>1 DEF After
  <1>3. \A p, q : Live(p) /\ Live(q) => Live(Join(p, q))
    BY DEF Join
  <1>4. \A p, ls : Live(p) => Live(Settled(p, ls))
    BY <1>1 DEF Settled
  <1> QED
    BY <1>1, <1>2, <1>3, <1>4

LEMMA SamePoints ==
    ASSUME Shapes, PointsOK, UNCHANGED <<point, jumps, outer, loops>>
    PROVE  (Shapes /\ PointsOK)'
  BY DEF Shapes, PointsOK

LEMMA OtherPoint ==
    ASSUME Shapes, PointsOK, Live(point'), UNCHANGED <<jumps, outer, loops>>
    PROVE  (Shapes /\ PointsOK)'
  BY DEF Shapes, PointsOK

LEMMA InstructionPoints ==
    ASSUME Shapes, PointsOK,
           \/ CompileForLoop \/ EmitInstruction \/ EmitExit \/ DeclareLocal \/ MarkInitialized
           \/ DeclareFunction \/ EndScope
    PROVE  (Shapes /\ PointsOK)'
  <1>1. Live(point)
    BY DEF PointsOK
  <1>2. UNCHANGED <<jumps, outer, loops>>
    BY DEF CompileForLoop, EmitInstruction, EmitExit, DeclareLocal, MarkInitialized,
       DeclareFunction, EndScope
  <1>3. CASE CompileForLoop
    <2>1. PICK ls, p : point' = Settled(After(p, Load), ls)
      BY <1>3 DEF CompileForLoop
    <2>2. Live(point')
      BY <2>1, LivePoints
    <2> QED BY <1>2, <2>2, OtherPoint
  <1>4. CASE EmitInstruction \/ EmitExit \/ EndScope
    <2>1. point' = Dead \/ \E e : point' = After(point, e)
      BY <1>4 DEF EmitInstruction, EmitExit, EndScope
    <2>2. Live(point')
      BY <2>1, LivePoints
    <2> QED BY <1>2, <2>2, OtherPoint
  <1>5. CASE DeclareLocal \/ MarkInitialized \/ DeclareFunction
    <2>1. point' = Settled(point, locals')
      BY <1>5 DEF DeclareLocal, MarkInitialized, DeclareFunction
    <2>2. Live(point')
      BY <1>1, <2>1, LivePoints
    <2> QED BY <1>2, <2>2, OtherPoint
  <1> QED
    BY <1>3, <1>4, <1>5

LEMMA EmitJumpPoints ==
    ASSUME Shapes, PointsOK, EmitJump
    PROVE  (Shapes /\ PointsOK)'
  <1>1. jumps' = Append(jumps, point) /\ (point' = Dead \/ point' = point) /\ UNCHANGED <<outer, loops>>
    BY DEF EmitJump
  <1>2. Live(point) /\ Live(point')
    BY <1>1, LivePoints DEF PointsOK
  <1>3. /\ IsSequence(jumps') /\ Len(jumps') = Len(jumps) + 1 /\ jumps'[Len(jumps) + 1] = point
        /\ \A i \in 1 .. Len(jumps) : jumps'[i] = jumps[i]
    BY <1>1, AppendFacts DEF Shapes
  <1>4. Len(jumps) \in Nat
    BY SequenceFacts DEF Shapes
  <1>5. ASSUME NEW i \in 1 .. Len(jumps') PROVE Live(jumps'[i])
    <2>1. CASE i \in 1 .. Len(jumps)
      BY <1>3, <2>1 DEF PointsOK
    <2>2. CASE i = Len(jumps) + 1
      BY <1>2, <1>3, <2>2
    <2> QED BY <1>3, <1>4, <2>1, <2>2
  <1> QED
    BY <1>1, <1>2, <1>3, <1>5 DEF Shapes, PointsOK

LEMMA PatchJumpPoints ==
    ASSUME Ready, Shapes, PointsOK, PatchJump
    PROVE  (Shapes /\ PointsOK)'
  <1>1. PICK p : p = Patched
    OBVIOUS
  <1>2. /\ todo # <<>> /\ Task.do = "patch" /\ UNCHANGED <<outer, loops>>
        /\ point' = Join(point, jumps[p])
        /\ jumps' = [i \in 1..(Len(jumps) - 1) |-> jumps[IF i < p THEN i ELSE i + 1]]
    BY <1>1 DEF PatchJump, TaskIs
  <1>3. PICK n \in Nat : n = Len(jumps)
    BY SequenceFacts DEF Shapes
  <1>4. p \in 1 .. n
    <2>1. PICK a, b \in Contexts : Fits(a) /\ Leads(Names, Task, a, b)
      BY <1>2, Begin DEF Ready
    <2>2. Task.nth \in 1 .. a.pending /\ n = a.pending
      BY <1>2, <1>3, <2>1 DEF Leads, Plain, Composite, Fits
    <2>3. Task.nth \in 1 .. n /\ p = n + 1 - Task.nth
      BY <1>1, <1>3, <2>2 DEF Patched
    <2> QED BY <2>3
  <1>5. \A i \in 1 .. n : Live(jumps[i])
    BY <1>3 DEF PointsOK
  <1>6. Live(point')
    <2>1. Live(point)
      BY DEF PointsOK
    <2> QED BY <1>2, <1>4, <1>5, <2>1, LivePoints
  <1>7. PICK m \in Nat : n = m + 1
    <2>1. n - 1 \in Nat /\ n = (n - 1) + 1
      BY <1>4
    <2> QED BY <2>1
  <1>8. PICK js : js = jumps'
    OBVIOUS
  <1>9. js = [i \in 1 .. m |-> jumps[IF i < p THEN i ELSE i + 1]]
    <2>1. Len(jumps) - 1 = m
      BY <1>3, <1>7
    <2> QED BY <1>2, <1>8, <2>1
  <1>10. \A i \in 1 .. m : Live(js[i])
    <2> TAKE i \in 1 .. m
    <2>1. PICK k : k = IF i < p THEN i ELSE i + 1
      OBVIOUS
    <2>2. k \in 1 .. n
      BY <1>4, <1>7, <2>1
    <2>3. js[i] = jumps[k]
      BY ONLY <1>9, <2>1, i \in 1 .. m
    <2> QED BY <1>5, <2>2, <2>3
  <1>11. js \in Seq({js[i] : i \in 1 .. m}) /\ Len(js) = m
    BY ONLY <1>9, m \in Nat
  <1>12. IsSequence(js)
    BY <1>11 DEF IsSequence
  <1> QED
    BY <1>2, <1>6, <1>8, <1>10, <1>11, <1>12 DEF Shapes, PointsOK

LEMMA PushedPoints ==
    ASSUME Shapes, PointsOK, NEW start, loops' = Append(loops, Loop(start)),
           UNCHANGED <<point, jumps, outer>>
    PROVE  (Shapes /\ PointsOK)'
  <1>1. PICK l : l = Loop(start)
    OBVIOUS
  <1>2. l.breaks = {} /\ IsLoop(l)
    BY <1>1 DEF Loop, IsLoop
  <1>3. /\ IsSequence(loops') /\ Len(loops') = Len(loops) + 1 /\ loops'[Len(loops) + 1] = l
        /\ \A i \in 1 .. Len(loops) : loops'[i] = loops[i]
    BY <1>1, AppendFacts DEF Shapes
  <1>4. /\ Len(loops) \in Nat /\ DOMAIN loops = 1 .. Len(loops)
        /\ DOMAIN loops' = 1 .. Len(loops')
    BY <1>3, SequenceFacts DEF Shapes
  <1>5. ASSUME NEW i \in 1 .. Len(loops')
        PROVE  IsLoop(loops'[i]) /\ \A b \in loops'[i].breaks : Live(b.at)
    <2>1. CASE i \in 1 .. Len(loops)
      BY <1>3, <1>4, <2>1 DEF Shapes, PointsOK
    <2>2. CASE i = Len(loops) + 1
      BY <1>2, <1>3, <2>2
    <2> QED BY <1>3, <1>4, <2>1, <2>2
  <1> QED
    BY <1>3, <1>4, <1>5 DEF Shapes, PointsOK

LEMMA EmitBreakPoints ==
    ASSUME Shapes, PointsOK, EmitBreak
    PROVE  (Shapes /\ PointsOK)'
  <1>1. PICK u : u = {[level |-> Level, at |-> point]}
    OBVIOUS
  <1>2. \A b \in u : Live(b.at)
    BY <1>1 DEF PointsOK
  <1>3. PICK n : n = Len(loops)
    OBVIOUS
  <1>4. /\ loops' = [loops EXCEPT ![n].breaks = @ \cup u] /\ point' = Dead
        /\ UNCHANGED <<outer, jumps>>
    BY <1>1, <1>3 DEF EmitBreak
  <1>5. /\ Len(loops') = Len(loops) /\ IsSequence(loops')
        /\ \A i \in 1 .. Len(loops) : /\ loops'[i].breaks \subseteq loops[i].breaks \cup u
                                      /\ IsLoop(loops'[i])
    BY <1>4, WithBreak
  <1>6. DOMAIN loops' = 1 .. Len(loops')
    BY <1>5, SequenceFacts
  <1>7. ASSUME NEW i \in 1 .. Len(loops'), NEW b \in loops'[i].breaks PROVE Live(b.at)
    BY <1>2, <1>5 DEF PointsOK
  <1> QED
    BY <1>4, <1>5, <1>6, <1>7, LivePoints DEF Shapes, PointsOK

LEMMA EndLoopPoints ==
    ASSUME Ready, Shapes, PointsOK, EndLoop
    PROVE  (Shapes /\ PointsOK)'
  <1>1. todo # <<>> /\ Task.do = "endLoop" /\ loops' = Drop(loops, 1) /\ UNCHANGED <<outer, jumps>>
        /\ point' = IF Breaks = {} THEN point ELSE Join(point, CHOOSE p \in Breaks : TRUE)
    BY DEF EndLoop, TaskIs
  <1>2. PICK n \in Nat : Len(loops) = n + 1
    <2>1. PICK a, b \in Contexts : Fits(a) /\ Leads(Names, Task, a, b)
      BY <1>1, Begin DEF Ready
    <2>2. a.loops = Append(b.loops, Len(a.saved)) /\ b.loops \in Seq(Nat) /\ Len(a.saved) \in Nat
      BY <1>1, <2>1, ContextFields DEF Leads, Plain, Composite
    <2>3. Len(a.loops) = Len(b.loops) + 1 /\ Len(b.loops) \in Nat
      BY <2>2
    <2> QED BY <2>1, <2>3 DEF Fits
  <1>3. /\ IsSequence(loops') /\ Len(loops') = n /\ \A i \in 1 .. n : loops'[i] = loops[i]
    <2>1. 1 \in 0 .. Len(loops) /\ Len(loops) - 1 = n
      BY <1>2
    <2> QED BY <1>1, <2>1, DropFacts DEF Shapes
  <1>4. DOMAIN loops' = 1 .. n /\ DOMAIN loops = 1 .. n + 1
    BY <1>2, <1>3, SequenceFacts DEF Shapes
  <1>5. ASSUME NEW i \in 1 .. n
        PROVE  IsLoop(loops'[i]) /\ \A b \in loops'[i].breaks : Live(b.at)
    <2>1. i \in 1 .. n + 1
      OBVIOUS
    <2> QED BY <1>2, <1>3, <1>4, <2>1 DEF Shapes, PointsOK
  <1>6. Live(point')
    <2>1. \A p \in Breaks : Live(p)
      <3> SUFFICES ASSUME NEW b \in loops[Len(loops)].breaks PROVE Live(b.at)
        BY DEF Breaks
      <3>1. Len(loops) \in 1 .. Len(loops)
        BY <1>2
      <3> QED BY <3>1 DEF PointsOK
    <2>2. CASE Breaks = {}
      BY <1>1, <2>2 DEF PointsOK
    <2>3. CASE Breaks # {}
      <3>1. PICK p : p = CHOOSE q \in Breaks : TRUE
        OBVIOUS
      <3>2. p \in Breaks
        BY <2>3, <3>1, Zenon
      <3>3. point' = Join(point, p)
        BY <1>1, <2>3, <3>1
      <3> QED BY <2>1, <3>2, <3>3, LivePoints DEF PointsOK
    <2> QED BY <2>2, <2>3
  <1> QED
    BY <1>1, <1>3, <1>4, <1>5, <1>6 DEF Shapes, PointsOK

LEMMA EnterFunctionPoints ==
    ASSUME Shapes, PointsOK, CompileFn \/ CompileLambda
    PROVE  (Shapes /\ PointsOK)'
  <1>1. PICK rest : EnterFunction(rest)
    BY DEF CompileFn, CompileLambda
  <1>2. PICK saved : saved = [locals |-> locals, upvalues |-> upvalues, depth |-> depth,
                              point |-> point, open |-> open]
    OBVIOUS
  <1>3. /\ outer' = Append(outer, saved) /\ UNCHANGED <<loops, jumps>>
        /\ \E stack : point' = At(stack)
    BY <1>1, <1>2 DEF EnterFunction
  <1>4. IsSaved(saved) /\ Live(saved.point)
    BY <1>2 DEF IsSaved, PointsOK
  <1>5. /\ IsSequence(outer') /\ Len(outer') = Len(outer) + 1 /\ outer'[Len(outer) + 1] = saved
        /\ \A i \in 1 .. Len(outer) : outer'[i] = outer[i]
    BY <1>3, AppendFacts DEF Shapes
  <1>6. /\ Len(outer) \in Nat /\ DOMAIN outer = 1 .. Len(outer)
        /\ DOMAIN outer' = 1 .. Len(outer')
    BY <1>5, SequenceFacts DEF Shapes
  <1>7. ASSUME NEW i \in 1 .. Len(outer') PROVE IsSaved(outer'[i]) /\ Live(outer'[i].point)
    <2>1. CASE i \in 1 .. Len(outer)
      BY <1>5, <1>6, <2>1 DEF Shapes, PointsOK
    <2>2. CASE i = Len(outer) + 1
      BY <1>4, <1>5, <2>2
    <2> QED BY <1>5, <1>6, <2>1, <2>2
  <1> QED
    BY <1>3, <1>5, <1>6, <1>7, LivePoints DEF Shapes, PointsOK

LEMMA LeaveFunctionPoints ==
    ASSUME Ready, Shapes, PointsOK, LeaveFunction
    PROVE  (Shapes /\ PointsOK)'
  <1>1. todo # <<>> /\ Task.do = "leaveFunction" /\ outer' = Drop(outer, 1)
        /\ UNCHANGED <<loops, jumps>> /\ \E p : point' = After(p, Load)
    BY DEF LeaveFunction, TaskIs
  <1>2. PICK n \in Nat : Len(outer) = n + 1
    <2>1. PICK a, b \in Contexts : Fits(a) /\ Leads(Names, Task, a, b)
      BY <1>1, Begin DEF Ready
    <2>2. a.saved = Append(b.saved, b.depth) /\ b.saved \in Seq(Nat) /\ b.depth \in Nat
      BY <1>1, <2>1, ContextFields DEF Leads, Plain, Composite
    <2>3. Len(a.saved) = Len(b.saved) + 1 /\ Len(b.saved) \in Nat
      BY <2>2
    <2> QED BY <2>1, <2>3 DEF Fits, Level
  <1>3. /\ IsSequence(outer') /\ Len(outer') = n /\ \A i \in 1 .. n : outer'[i] = outer[i]
    <2>1. 1 \in 0 .. Len(outer) /\ Len(outer) - 1 = n
      BY <1>2
    <2> QED BY <1>1, <2>1, DropFacts DEF Shapes
  <1>4. DOMAIN outer' = 1 .. n /\ DOMAIN outer = 1 .. n + 1
    BY <1>2, <1>3, SequenceFacts DEF Shapes
  <1>5. ASSUME NEW i \in 1 .. n PROVE IsSaved(outer'[i]) /\ Live(outer'[i].point)
    <2>1. i \in 1 .. n + 1
      OBVIOUS
    <2> QED BY <1>2, <1>3, <1>4, <2>1 DEF Shapes, PointsOK
  <1> QED
    BY <1>1, <1>3, <1>4, <1>5, LivePoints DEF Shapes, PointsOK

LEMMA AccessPoints ==
    ASSUME Shapes, PointsOK, CompileIdentifier \/ AssignName
    PROVE  (Shapes /\ PointsOK)'
  <1>1. PICK name : \E assigned \in BOOLEAN : Access(name, assigned)
    BY DEF CompileIdentifier, AssignName
  <1>2. UNCHANGED <<loops, point, jumps>>
    BY <1>1 DEF Access
  <1>3. outer' = outer \/ \E home, resolved : outer' = MarkCaptured(name, home, resolved)
    BY <1>1, Zenon DEF Access
  <1>4. CASE outer' = outer
    BY <1>2, <1>4, SamePoints
  <1>5. ASSUME NEW home, NEW resolved, outer' = MarkCaptured(name, home, resolved)
        PROVE  (Shapes /\ PointsOK)'
    <2>1. /\ IsSequence(outer') /\ Len(outer') = Len(outer)
          /\ \A i \in 1 .. Len(outer) : IsSaved(outer'[i]) /\ outer'[i].point = outer[i].point
      BY <1>5, CaptureKeepsDepths
    <2>2. DOMAIN outer' = 1 .. Len(outer')
      BY <2>1, SequenceFacts
    <2> QED BY <1>2, <2>1, <2>2 DEF Shapes, PointsOK
  <1> QED
    BY <1>3, <1>4, <1>5

LEMMA NextPoints ==
    ASSUME Ready, Shapes, PointsOK, CompileStep
    PROVE  (Shapes /\ PointsOK)'
  <1>1. CASE ClosureStep
    BY <1>1, EnterFunctionPoints, LeaveFunctionPoints, AccessPoints, InstructionPoints
       DEF ClosureStep
  <1>2. CASE \/ CompileForLoop \/ EmitInstruction \/ EmitExit \/ DeclareLocal \/ MarkInitialized
             \/ DeclareFunction
    BY <1>2, InstructionPoints
  <1>3. CASE EmitJump \/ PatchJump \/ EmitBreak \/ EndLoop
    BY <1>3, EmitJumpPoints, PatchJumpPoints, EmitBreakPoints, EndLoopPoints
  <1>4. CASE CompileWhile \/ PushLoop
    <2>1. PICK start : loops' = Append(loops, Loop(start)) /\ UNCHANGED <<point, jumps, outer>>
      BY <1>4 DEF CompileWhile, PushLoop
    <2> QED BY <2>1, PushedPoints
  <1>5. CASE \/ CompileExprStmt \/ CompileLet \/ CompileBlock \/ CompileIf \/ CompileFor
             \/ CompileReturn \/ CompileFree \/ CompileBreak \/ CompileContinue \/ EndStatements
             \/ CompileLiteral \/ GetMatch \/ BeginScope
    <2>1. UNCHANGED <<point, jumps, outer, loops>>
      BY <1>5 DEF CompileExprStmt, CompileLet, CompileBlock, CompileIf, CompileFor,
         CompileReturn, CompileFree, CompileBreak, CompileContinue, CompileJump, EndStatements,
         CompileLiteral, GetMatch, BeginScope
    <2> QED BY <2>1, SamePoints
  <1>6. CASE \/ CompileUnary \/ CompileBinary \/ CompileAnd \/ CompileOr \/ CompilePrint
             \/ CompileCall \/ CompileIndex \/ CompileField \/ CompileArray \/ CompileNew
             \/ CompileAssign \/ CompileMatch
    <2>1. \A form, tasks : Compound(form, tasks) => UNCHANGED <<point, jumps, outer, loops>>
      BY DEF Compound
    <2>2. \E form, tasks : Compound(form, tasks)
      BY <1>6 DEF CompileUnary, CompileBinary, CompileAnd, CompileOr, CompilePrint, CompileCall,
         CompileIndex, CompileField, CompileArray, CompileNew, CompileAssign, CompileMatch, Match
    <2>3. UNCHANGED <<point, jumps, outer, loops>>
      BY <2>1, <2>2
    <2> QED BY <2>3, SamePoints
  <1> QED
    BY <1>1, <1>2, <1>3, <1>4, <1>5, <1>6 DEF CompileStep, PlainStep

----------------------------------------------------------------------------
(* The invariant as a whole.                                               *)
Errors == {"none", "redeclared", "outsideLoop"}

IInv == Ready /\ Shapes /\ FunctionsOK /\ PointsOK /\ hadError \in Errors

LEMMA NextCounts ==
    ASSUME nodes \in Nat, hadError \in Errors, language \in Languages, CompileStep
    PROVE  nodes' \in Nat /\ hadError' \in Errors /\ language' \in Languages
  <1>1. language' \in Languages
    BY Zenon DEF CompileStep
  <1>2. nodes' = nodes \/ nodes' = nodes + 1
    BY Zenon DEF CompileStep, PlainStep, ClosureStep, Statement, Compound, Access, EnterFunction, CompileJump,
       CompileExprStmt, CompileLet, CompileBlock, CompileIf, CompileWhile, CompileFor,
       CompileForLoop, PushLoop, CompileReturn, CompileFree, CompileBreak, CompileContinue,
       EndStatements, DeclareFunction, CompileLiteral, CompileUnary, CompileBinary, CompileAnd,
       CompileOr, CompilePrint, CompileCall, CompileIndex, CompileField, CompileArray, CompileNew,
       CompileAssign, CompileMatch, Match, GetMatch, EmitInstruction, EmitExit, EmitJump, PatchJump,
       EmitBreak, EndLoop, BeginScope, DeclareLocal, MarkInitialized, CompileFn, CompileLambda,
       LeaveFunction, CompileIdentifier, AssignName, EndScope
  <1>3. \/ hadError' = hadError
        \/ \E what \in {"redeclared", "outsideLoop"} : hadError' = Complain(what)
    BY Zenon DEF CompileStep, PlainStep, ClosureStep, Statement, Compound, Access, EnterFunction, CompileJump,
       CompileExprStmt, CompileLet, CompileBlock, CompileIf, CompileWhile, CompileFor,
       CompileForLoop, PushLoop, CompileReturn, CompileFree, CompileBreak, CompileContinue,
       EndStatements, DeclareFunction, CompileLiteral, CompileUnary, CompileBinary, CompileAnd,
       CompileOr, CompilePrint, CompileCall, CompileIndex, CompileField, CompileArray, CompileNew,
       CompileAssign, CompileMatch, Match, GetMatch, EmitInstruction, EmitExit, EmitJump, PatchJump,
       EmitBreak, EndLoop, BeginScope, DeclareLocal, MarkInitialized, CompileFn, CompileLambda,
       LeaveFunction, CompileIdentifier, AssignName, EndScope
  <1>4. hadError' \in Errors
    BY <1>3 DEF Complain, Errors
  <1>5. nodes' \in Nat
    BY <1>2
  <1> QED
    BY <1>1, <1>4, <1>5

LEMMA InitHolds ==
    ASSUME Init
    PROVE  IInv
  <1>1. language \in Languages /\ MaxNodes \in Nat
    BY LanguageFacts DEF Init
  <1>2. PICK c : c = Context(0, <<>>, <<>>, FALSE, 0, 0)
    OBVIOUS
  <1>3. /\ c.depth = 0 /\ c.saved = <<>> /\ c.loops = <<>> /\ ~c.looped
        /\ c.pending = 0 /\ c.chain = 0
    BY <1>2 DEF Context
  <1>4. c \in Contexts
    <2>1. LoopsInside(<<>>, <<>>)
      BY DEF LoopsInside
    <2> QED BY <1>2, <2>1 DEF Context, Contexts
  <1>5. Typed(Names, <<Statements>>, c, c)
    <2>1. Flat(Names, Statements)
      BY DEF Flat, Statements, Do, Composite, Named
    <2> QED BY <1>3, <1>4, <2>1, FlatTuples
  <1>6. Len(<<>>) = 0 /\ IsSequence(<<>>) /\ DOMAIN <<>> = {}
    <2>1. <<>> \in Seq({})
      OBVIOUS
    <2> QED BY <2>1 DEF IsSequence
  <1>7. Fits(c)
    <2>1. Len(outer) = 0 /\ Len(loops) = 0 /\ Len(jumps) = 0 /\ depth = 0 /\ nodes = 0
      BY DEF Init
    <2>2. Len(c.saved) = 0 /\ Len(c.loops) = 0
      BY <1>3
    <2> QED BY <1>1, <1>3, <2>1, <2>2 DEF Fits, Level
  <1>8. Ready
    <2>1. \E a, z : Typed(Names, todo, a, z) /\ Fits(a)
      BY <1>5, <1>7 DEF Init
    <2> QED BY <1>1, <2>1 DEF Ready, Annotated, Init
  <1>9. Shapes
    BY <1>6 DEF Init, Shapes
  <1>10. FunctionsOK
    <2>1. Level = 0
      BY DEF Init, Level
    <2>2. LocalsOK(Names, <<>>, 0)
      BY DEF LocalsOK
    <2>3. OpenOK(<<>>, {}) /\ <<>> \in Seq(Upvalues)
      BY DEF OpenOK
    <2> QED BY <2>1, <2>2, <2>3 DEF Init, FunctionsOK, TablesOK
  <1>11. PointsOK
    BY LivePoints DEF Init, PointsOK
  <1> QED
    BY <1>8, <1>9, <1>10, <1>11 DEF Init, IInv, Errors

LEMMA NextHolds ==
    ASSUME IInv, [Next]_vars
    PROVE  IInv'
  <1>1. CASE Next
    <2>1. Ready /\ Shapes /\ FunctionsOK /\ PointsOK /\ hadError \in Errors
      BY DEF IInv
    <2> CompileStep
      BY <1>1 DEF Next
    <2>2. Annotated' /\ (Shapes /\ PointsOK)' /\ FunctionsOK'
      BY <2>1, NextAnnotates, NextPoints, NextTables
    <2>3. nodes' \in Nat /\ hadError' \in Errors /\ language' \in Languages
      BY <2>1, NextCounts DEF Ready
    <2> QED BY <2>2, <2>3 DEF IInv, Ready
  <1>2. CASE UNCHANGED vars
    <2>1. Ready'
      <3>1. PICK a, z : Typed(Names, todo, a, z) /\ Fits(a)
        BY DEF IInv, Ready, Annotated
      <3>2. Fits(a)'
        BY <1>2, <3>1, SameFits DEF vars
      <3>3. Typed(Names', todo', a, z)
        BY <1>2, <3>1 DEF vars, Names
      <3>4. \E x, y : Typed(Names', todo', x, y) /\ Fits(x)'
        BY <3>2, <3>3
      <3> QED BY <1>2, <3>4 DEF IInv, Ready, Annotated, vars
    <2>2. (Shapes /\ PointsOK)'
      BY <1>2, SamePoints DEF IInv, vars
    <2>3. FunctionsOK'
      BY <1>2, SameTables DEF IInv, vars
    <2> QED BY <1>2, <2>1, <2>2, <2>3 DEF IInv, vars
  <1> QED
    BY <1>1, <1>2

LEMMA TasksAreKnown ==
    ASSUME Ready
    PROVE  \A i \in DOMAIN todo : todo[i].do \in TaskKinds
  <1>1. PICK a, z : Typed(Names, todo, a, z)
    BY DEF Ready, Annotated
  <1>2. PICK f : Annotates(f, Names, todo, a, z)
    BY <1>1 DEF Typed
  <1>3. DOMAIN todo = 1 .. Len(todo)
    BY <1>1, SequenceFacts DEF Typed
  <1>4. ASSUME NEW i \in DOMAIN todo PROVE todo[i].do \in TaskKinds
    <2>1. Leads(Names, todo[i], f[i], f[i + 1])
      BY <1>2, <1>3 DEF Annotates
    <2>2. todo[i].do \in Plain \cup Composite
              \cup {"elseIf", "jump", "jumpIfFalse", "patch", "begin", "end", "leaveFunction",
                    "pushLoop", "loop", "endLoop"}
      BY <2>1 DEF Leads
    <2> QED BY <2>2 DEF Plain, Composite, TaskKinds
  <1> QED
    BY <1>4

LEMMA InvariantTypes ==
    ASSUME IInv
    PROVE  TypeOK
  <1>1. Ready /\ Shapes /\ FunctionsOK /\ PointsOK /\ hadError \in Errors
    BY DEF IInv
  <1>2. PICK a, z : Typed(Names, todo, a, z) /\ Fits(a)
    BY <1>1 DEF Ready, Annotated
  <1>3. a \in Contexts
    BY <1>2 DEF Typed, Annotates
  <1>4. language \in Languages /\ nodes \in Nat /\ MaxNodes \in Nat
    BY <1>1, LanguageFacts DEF Ready
  <1>5. depth \in Nat /\ Level \in Nat /\ DOMAIN outer = 1 .. Level
    BY <1>1, DepthIsNat, SequenceFacts DEF Ready, Shapes, Level
  <1>6. \A i \in DOMAIN outer : outer[i].depth \in Nat
    <2>1. \A i \in 1 .. Level : outer[i].depth = a.saved[i]
      BY <1>2 DEF Fits
    <2>2. a.saved \in Seq(Nat) /\ Level = Len(a.saved)
      BY <1>2, <1>3, ContextFields DEF Fits
    <2> QED BY <1>5, <2>1, <2>2
  <1>7. \A i \in DOMAIN loops : loops[i].level \in 0 .. Level
    <2>1. DOMAIN loops = 1 .. Len(loops)
      BY <1>1, SequenceFacts DEF Shapes
    <2>2. a.loops \in Seq(Nat) /\ LoopsInside(a.loops, a.saved)
      BY <1>3, ContextFields
    <2>3. /\ Len(loops) = Len(a.loops) /\ Level = Len(a.saved)
          /\ \A i \in 1 .. Len(loops) : loops[i].level = a.loops[i]
      BY <1>2 DEF Fits
    <2>4. \A i \in 1 .. Len(a.loops) : a.loops[i] \in Nat /\ a.loops[i] <= Len(a.saved)
      BY <2>2 DEF LoopsInside
    <2> QED BY <1>5, <2>1, <2>3, <2>4
  <1>8. nodes \in 0 .. (2 * MaxNodes)
    <2>1. a.chain \in Nat /\ nodes + a.chain <= 2 * MaxNodes
      BY <1>2, <1>3, ContextFields DEF Fits
    <2> QED BY <1>4, <2>1
  <1>9. LocalsOK(Names, locals, depth) /\ OpenOK(locals, open)
    BY <1>1, FunctionFacts
  <1>10. ASSUME NEW i \in DOMAIN locals
         PROVE  /\ locals[i].name \in Names \cup HiddenNames
                /\ locals[i].depth \in 0 .. depth
                /\ locals[i].initialized \in BOOLEAN
    <2>1. i \in 1 .. Len(locals) /\ locals[i] \in LocalRecords(Names)
      BY <1>9 DEF LocalsOK
    <2>2. locals[i].depth \in Nat /\ locals[i].depth <= depth
      BY <1>9, <2>1 DEF LocalsOK, LocalRecords
    <2>3. locals[i].name \in Names \cup HiddenNames /\ locals[i].initialized \in BOOLEAN
      BY <2>1 DEF LocalRecords
    <2> QED BY <1>5, <2>2, <2>3
  <1>11. open \subseteq DOMAIN locals
    BY <1>9 DEF OpenOK, Captured, LocalsOK
  <1>12. \A i \in DOMAIN todo : todo[i].do \in TaskKinds
    BY <1>1, TasksAreKnown
  <1>13. hadError \in {"none", "redeclared", "outsideLoop"} /\ point.live \in BOOLEAN
    BY <1>1 DEF Errors, PointsOK, Live
  <1> QED
    BY <1>4, <1>5, <1>6, <1>7, <1>8, <1>10, <1>11, <1>12, <1>13 DEF TypeOK

LEMMA InvariantCloses ==
    ASSUME IInv
    PROVE  CapturedAreClosed
  <1>1. OpenOK(locals, open)
    BY FunctionFacts DEF IInv
  <1> QED
    BY <1>1 DEF CapturedAreClosed, OpenOK, Captured

LEMMA InvariantJumps ==
    ASSUME IInv
    PROVE  JumpsFindLoop
  <1> SUFFICES ASSUME TaskIs("statements"), Around = "loop"
               PROVE  loops # <<>> /\ loops[Len(loops)].level = Level
    BY DEF JumpsFindLoop
  <1>1. PICK a, z : Typed(Names, todo, a, z) /\ Fits(a)
    BY DEF IInv, Ready, Annotated
  <1>2. a \in Contexts
    BY <1>1 DEF Typed, Annotates
  <1> QED
    BY <1>1, <1>2, LoopIsAround, InLoopFound

----------------------------------------------------------------------------
LEMMA Invariant == Spec => []IInv
  <1>1. Init => IInv
    BY InitHolds
  <1>2. IInv /\ [Next]_vars => IInv'
    BY NextHolds
  <1> QED
    BY <1>1, <1>2, PTL DEF Spec

(* Whatever program is compiled, regular or not: the tasks left are those  *)
(* that the compile_ functions know, a local's scope is one of those that  *)
(* are open, the slots that closures refer to are locals still declared,   *)
(* every loop of loop_stack_ belongs to a function that is being compiled, *)
(* and an `else if` chain does not run past the bound on the nodes.        *)
THEOREM TypeCorrect == Spec => []TypeOK
  <1>1. IInv => TypeOK
    BY InvariantTypes
  <1> QED
    BY <1>1, Invariant, PTL

(* When a scope of the compiler ends, every local in it that a closure may *)
(* refer to has been marked, so that end_scope emits CloseUpvalue for it   *)
(* and not Pop.  It holds for irregular programs as well.                  *)
THEOREM CapturedClosed == Spec => []CapturedAreClosed
  <1>1. IInv => CapturedAreClosed
    BY InvariantCloses
  <1> QED
    BY <1>1, Invariant, PTL

(* In every program, wherever the loop of the source around a statement is *)
(* a while, loop_stack_ ends with a loop of the same function: break and   *)
(* continue are neither rejected nor taken for those of the loop around an *)
(* enclosing function.  The loop of a for is entered after its body only,  *)
(* so for its body the theorem promises nothing.                           *)
THEOREM JumpsFind == Spec => []JumpsFindLoop
  <1>1. IInv => JumpsFindLoop
    BY InvariantJumps
  <1> QED
    BY <1>1, Invariant, PTL

----------------------------------------------------------------------------
(* Accesses through upvalues.  They are tasks of their own, that nothing   *)
(* but the resolution of a name puts on the list, and nothing but the end  *)
(* of a function takes the function off it.                                *)
Accesses == {"getUpvalue", "setUpvalue"}
Bare(ts) == IsSequence(ts) /\ \A i \in 1 .. Len(ts) : ts[i].do \notin Accesses \cup {"leaveFunction"}

LEMMA BareConcat ==
    ASSUME NEW s, NEW t, Bare(s), Bare(t)
    PROVE  Bare(s \o t)
  <1>1. /\ IsSequence(s \o t) /\ Len(s \o t) = Len(s) + Len(t) /\ Len(s) \in Nat /\ Len(t) \in Nat
        /\ \A i \in 1 .. Len(s) : (s \o t)[i] = s[i]
        /\ \A i \in 1 .. Len(t) : (s \o t)[Len(s) + i] = t[i]
    BY ConcatFacts, SequenceFacts DEF Bare
  <1>2. ASSUME NEW i \in 1 .. Len(s) + Len(t)
        PROVE  (s \o t)[i].do \notin Accesses \cup {"leaveFunction"}
    <2>1. CASE i <= Len(s)
      BY <1>1, <2>1 DEF Bare
    <2>2. CASE i > Len(s)
      <3>1. PICK k \in 1 .. Len(t) : k = i - Len(s)
        BY <1>1, <2>2
      <3>2. i = Len(s) + k
        BY <1>1, <3>1
      <3> QED BY <1>1, <3>2 DEF Bare
    <2> QED BY <1>1, <2>1, <2>2
  <1> QED
    BY <1>1, <1>2 DEF Bare

LEMMA BareIn ==
    ASSUME NEW K, NEW ts \in Seq(K), \A t \in K : t.do \notin Accesses \cup {"leaveFunction"}
    PROVE  Bare(ts)
  <1>1. \A i \in 1 .. Len(ts) : ts[i] \in K
    OBVIOUS
  <1> QED
    BY <1>1 DEF Bare, IsSequence

LEMMA BareSame ==
    ASSUME NEW n \in Nat, NEW t, t.do \notin Accesses \cup {"leaveFunction"}
    PROVE  Bare([i \in 1 .. n |-> t])
  <1>1. PICK K : K = {t}
    OBVIOUS
  <1>2. [i \in 1 .. n |-> t] \in Seq(K)
    BY <1>1
  <1> QED
    BY <1>1, <1>2, BareIn

LEMMA BareNone == Bare(<<>>)
  BY DEF Bare, IsSequence

(* Kinds of the tasks that the compile_ functions leave.                   *)
LEMMA TaskKindsAre ==
    /\ Expr.do = "expr" /\ Statements.do = "statements" /\ Block.do = "block"
    /\ JumpAway.do = "jump" /\ JumpIfFalse.do = "jumpIfFalse"
    /\ \A k : Patch(k).do = "patch"
    /\ \A what : Do(what).do = what
    /\ \A k : Get(k).do = "get" /\ Set(k).do = "set"
    /\ \A name : Declare(name).do = "declare"
    /\ \A m, n : Emit(m, n).do = "emit"
  BY DEF Expr, Statements, Block, JumpAway, JumpIfFalse, Patch, Do, Get, Set, Declare, Emit

LEMMA InstructionKindsAre ==
    /\ Load.do = "emit" /\ Pop.do = "emit" /\ DefineGlobal.do = "emit" /\ Free.do = "emit"
    /\ SetName.do = "emit" /\ Convert.do = "emit" /\ GetField.do = "emit" /\ Arithmetic.do = "emit"
    /\ Index.do = "emit" /\ SetField.do = "emit" /\ SetIndex.do = "emit"
    /\ \A n : /\ MakeArray(n).do = "emit" /\ NewStruct(n).do = "emit" /\ PrintValues(n).do = "emit"
              /\ Call(n).do = "emit"
  BY TaskKindsAre DEF Load, Pop, DefineGlobal, Free, SetName, Convert, GetField, Arithmetic, Index,
     SetField, SetIndex, MakeArray, NewStruct, PrintValues, Call

(* Lists of tasks, given as a tuple.                                       *)
LEMMA BareTuples ==
    ASSUME NEW a, NEW b, NEW c, NEW d,
           {a.do, b.do, c.do, d.do} \cap (Accesses \cup {"leaveFunction"}) = {}
    PROVE  Bare(<<a>>) /\ Bare(<<a, b>>) /\ Bare(<<a, b, c>>) /\ Bare(<<a, b, c, d>>)
  <1>1. PICK K : K = {a, b, c, d}
    OBVIOUS
  <1>2. \A t \in K : t.do \notin Accesses \cup {"leaveFunction"}
    BY <1>1
  <1>3. /\ <<a>> \in Seq(K) /\ <<a, b>> \in Seq(K) /\ <<a, b, c>> \in Seq(K)
        /\ <<a, b, c, d>> \in Seq(K)
    BY <1>1
  <1> QED
    BY <1>2, <1>3, BareIn

LEMMA BareOne ==
    ASSUME NEW t, t.do \notin Accesses \cup {"leaveFunction"}
    PROVE  Bare(<<t>>)
  <1>1. PICK K : K = {t}
    OBVIOUS
  <1>2. <<t>> \in Seq(K)
    BY <1>1
  <1>3. \A u \in K : u.do \notin Accesses \cup {"leaveFunction"}
    BY <1>1
  <1> QED
    BY ONLY <1>2, <1>3, BareIn

(* The longer lists.                                                       *)
LEMMA BareLists ==
    /\ Bare(<<Expr, JumpIfFalse, Pop, Expr, Patch(1)>>)
    /\ Bare(<<Expr, JumpIfFalse, JumpAway, Patch(2), Pop, Expr, Patch(1)>>)
    /\ Bare(<<Expr, JumpIfFalse, Pop, Block, Patch(1), Pop>>)
    /\ Bare(<<Expr, JumpIfFalse, Pop, Block, JumpAway, Patch(2), Pop, Block, Patch(1)>>)
    /\ Bare(<<Expr, JumpIfFalse, Pop, Block, JumpAway, Patch(2), Pop, Do("elseIf"), Patch(1)>>)
    /\ Bare(<<Expr, JumpIfFalse, Pop, Block, Do("loop"), Patch(1), Pop, Do("endLoop")>>)
    /\ Bare(Arm)
  <1>1. PICK K : K = {Expr, JumpIfFalse, JumpAway, Pop, Block, Patch(1), Patch(2), Do("elseIf"),
                      Do("loop"), Do("endLoop"), Do("getMatch"), Arithmetic}
    OBVIOUS
  <1>2. \A t \in K : t.do \notin Accesses \cup {"leaveFunction"}
    BY <1>1, TaskKindsAre, InstructionKindsAre DEF Accesses
  <1>3. /\ <<Expr, JumpIfFalse, Pop, Expr, Patch(1)>> \in Seq(K)
        /\ <<Expr, JumpIfFalse, JumpAway, Patch(2), Pop, Expr, Patch(1)>> \in Seq(K)
        /\ <<Expr, JumpIfFalse, Pop, Block, Patch(1), Pop>> \in Seq(K)
    BY <1>1
  <1>4. <<Expr, JumpIfFalse, Pop, Block, JumpAway, Patch(2), Pop, Block, Patch(1)>> \in Seq(K)
    BY <1>1
  <1>5. <<Expr, JumpIfFalse, Pop, Block, JumpAway, Patch(2), Pop, Do("elseIf"), Patch(1)>>
            \in Seq(K)
    BY <1>1
  <1>6. <<Expr, JumpIfFalse, Pop, Block, Do("loop"), Patch(1), Pop, Do("endLoop")>> \in Seq(K)
    BY <1>1
  <1>7. Arm \in Seq(K)
    BY <1>1 DEF Arm
  <1> QED
    BY <1>2, <1>3, <1>4, <1>5, <1>6, <1>7, BareIn

LEMMA BareFor ==
    ASSUME NEW name, NEW iter, NEW idx, NEW start
    PROVE  Bare(ForTasks(name, iter, idx, start))
  <1>1. PICK first : first = [do |-> "pushLoop", start |-> start]
    OBVIOUS
  <1>2. PICK K : K = {Get(idx), Load, Get(iter), Call(1), Arithmetic, JumpIfFalse, Pop,
                      Do("begin"), Index, Declare(name), Block, Do("end"), first, Set(idx),
                      Do("loop"), Patch(1), Do("endLoop")}
    OBVIOUS
  <1>3. first.do = "pushLoop"
    BY <1>1
  <1>4. \A t \in K : t.do \notin Accesses \cup {"leaveFunction"}
    BY <1>2, <1>3, TaskKindsAre, InstructionKindsAre DEF Accesses
  <1>5. <<Get(idx), Load, Get(iter), Call(1), Arithmetic, JumpIfFalse, Pop,
          Do("begin"), Get(iter), Get(idx), Index, Declare(name), Block, Do("end"),
          first, Get(idx), Load, Arithmetic, Set(idx),
          Pop, Do("loop"), Patch(1), Pop, Do("endLoop")>> \in Seq(K)
    BY ONLY <1>2
  <1>6. ForTasks(name, iter, idx, start) \in Seq(K)
    BY ONLY <1>1, <1>5, Zenon DEF ForTasks
  <1> QED
    BY <1>4, <1>6, BareIn

LEMMA BareArms ==
    ASSUME NEW n \in Nat, NEW g, ArmsFrom(g, n)
    PROVE  Bare(g[n])
  <1> DEFINE T == {i \in 0 .. n : Bare(g[i])}
  <1>1. 0 \in T
    BY BareNone DEF ArmsFrom
  <1>2. ASSUME NEW i \in 0 .. (n - 1), i \in T PROVE i + 1 \in T
    <2>1. i + 1 \in 1 .. n /\ i + 1 \in 0 .. n /\ (i + 1) - 1 = i
      OBVIOUS
    <2>2. g[i + 1] = g[i] \o Arm
      BY ONLY <2>1, ArmsFrom(g, n) DEF ArmsFrom
    <2>3. Bare(g[i + 1])
      BY <1>2, <2>2, BareConcat, BareLists
    <2> QED BY <2>1, <2>3
  <1>3. \A i \in 0 .. n : i \in T
    <2> HIDE DEF T
    <2> QED BY <1>1, <1>2, UpTo
  <1> QED
    BY <1>3

LEMMA BareMatch ==
    ASSUME NEW n \in Nat, NEW wildcard \in BOOLEAN, NEW last \in BOOLEAN
    PROVE  Bare(MatchTasks(n, wildcard, last))
  <1>1. PICK g : /\ ArmsFrom(g, n)
                 /\ ArmTasks(n) = (IF n = 0 THEN <<>> ELSE <<Declare("$match")>>) \o g[n]
    BY ArmsAre
  <1>2. Bare(<<Expr>>) /\ Bare(<<Load>>) /\ Bare(<<Pop, Expr>>) /\ Bare(<<Declare("$match")>>)
    <2>1. PICK K : K = {Expr, Load, Pop, Declare("$match")}
      OBVIOUS
    <2>2. \A t \in K : t.do \notin Accesses \cup {"leaveFunction"}
      BY <2>1, TaskKindsAre, InstructionKindsAre DEF Accesses
    <2>3. /\ <<Expr>> \in Seq(K) /\ <<Load>> \in Seq(K) /\ <<Pop, Expr>> \in Seq(K)
          /\ <<Declare("$match")>> \in Seq(K)
      BY <2>1
    <2> QED BY <2>2, <2>3, BareIn
  <1>3. Bare([i \in 1 .. n |-> Patch(1)])
    BY TaskKindsAre, BareSame DEF Accesses
  <1>4. Bare(ArmTasks(n))
    BY <1>1, <1>2, BareNone, BareArms, BareConcat
  <1>5. /\ Bare(IF wildcard THEN <<Pop, Expr>> ELSE <<>>)
        /\ Bare(IF wildcard /\ last THEN <<>> ELSE <<Load>>)
    BY <1>2, BareNone
  <1>6. \A a, b, c, d, e : Bare(a) /\ Bare(b) /\ Bare(c) /\ Bare(d) /\ Bare(e)
                               => Bare(a \o b \o c \o d \o e)
    BY BareConcat
  <1> QED
    BY ONLY <1>2, <1>3, <1>4, <1>5, <1>6, Zenon DEF MatchTasks

(* What a step that neither enters nor leaves a function, nor accesses an  *)
(* upvalue, makes of the list.                                             *)
Onward ==
    \E p, r : /\ Bare(p) /\ todo' = p \o r
              /\ \/ r = Tail(todo)
                 \/ r = todo /\ TaskIs("statements")

LEMMA OnwardStatement ==
    ASSUME NEW form, NEW tasks, Statement(form, tasks), Bare(tasks)
    PROVE  Onward /\ todo # <<>> /\ Task.do # "leaveFunction"
  BY DEF Statement, TaskIs, Onward

LEMMA OnwardCompound ==
    ASSUME NEW form, NEW tasks, Compound(form, tasks), Bare(tasks)
    PROVE  Onward /\ todo # <<>> /\ Task.do # "leaveFunction"
  BY DEF Compound, TaskIs, Onward

LEMMA TailIsSequence ==
    ASSUME IsSequence(todo), todo # <<>>
    PROVE  Tail(todo) = <<>> \o Tail(todo)
  <1>1. PICK T : todo \in Seq(T)
    BY DEF IsSequence
  <1>2. Tail(todo) \in Seq(T)
    BY <1>1
  <1> QED
    BY <1>2

LEMMA OnwardTail ==
    ASSUME IsSequence(todo), todo # <<>>, todo' = Tail(todo)
    PROVE  Onward
  BY BareNone, TailIsSequence DEF Onward

LEMMA OnwardStatements ==
    ASSUME CompileExprStmt \/ CompileLet \/ CompileWhile \/ CompileFor \/ CompileReturn
           \/ CompileFree \/ CompileBreak \/ CompileContinue
    PROVE  Onward /\ todo # <<>> /\ Task.do # "leaveFunction"
  <1>1. ASSUME NEW t, NEW u, {t.do, u.do} \cap (Accesses \cup {"leaveFunction"}) = {}
        PROVE  Bare(<<t, u>>)
    BY <1>1, BareTuples
  <1>2. ASSUME NEW t, t.do \notin Accesses \cup {"leaveFunction"}
        PROVE  Bare(<<t>>)
    BY <1>2, BareTuples
  <1>3. CASE CompileExprStmt
    <2>1. Statement("expression", <<Expr, Pop>>)
      BY <1>3 DEF CompileExprStmt
    <2>2. Bare(<<Expr, Pop>>)
      BY <1>1, TaskKindsAre, InstructionKindsAre DEF Accesses
    <2> QED BY ONLY <2>1, <2>2, OnwardStatement
  <1>4. CASE CompileLet
    <2>1. PICK t : t = IF depth > 0 THEN Do("mark") ELSE DefineGlobal
      OBVIOUS
    <2>2. Statement("let", <<Expr, t>>)
      BY <1>4, <2>1 DEF CompileLet
    <2>3. Bare(<<Expr, t>>)
      BY <1>1, <2>1, TaskKindsAre, InstructionKindsAre DEF Accesses
    <2> QED BY ONLY <2>2, <2>3, OnwardStatement
  <1>5. CASE CompileWhile
    BY <1>5, BareLists, OnwardStatement DEF CompileWhile
  <1>6. CASE CompileFor
    <2>1. PICK name : Statement("for", <<Expr, [do |-> "for", name |-> name], Do("end")>>)
      BY <1>6 DEF CompileFor
    <2>2. PICK t : t = [do |-> "for", name |-> name]
      OBVIOUS
    <2>3. PICK K : K = {Expr, t, Do("end")}
      OBVIOUS
    <2>4. \A u \in K : u.do \notin Accesses \cup {"leaveFunction"}
      BY <2>2, <2>3, TaskKindsAre DEF Accesses
    <2>5. <<Expr, t, Do("end")>> \in Seq(K)
      BY <2>3
    <2>6. Bare(<<Expr, t, Do("end")>>)
      BY <2>4, <2>5, BareIn
    <2> QED BY ONLY <2>1, <2>2, <2>6, OnwardStatement
  <1>7. CASE CompileReturn
    <2>1. PICK t \in {Expr, Load} : Statement("return", <<t, Do("return")>>)
      BY <1>7 DEF CompileReturn
    <2>2. Bare(<<t, Do("return")>>)
      BY <1>1, TaskKindsAre, InstructionKindsAre DEF Accesses
    <2> QED BY ONLY <2>1, <2>2, OnwardStatement
  <1>8. CASE CompileFree
    <2>1. Statement("free", <<Expr, Free>>)
      BY <1>8 DEF CompileFree
    <2>2. Bare(<<Expr, Free>>)
      BY <1>1, TaskKindsAre, InstructionKindsAre DEF Accesses
    <2> QED BY ONLY <2>1, <2>2, OnwardStatement
  <1>9. CASE CompileBreak \/ CompileContinue
    <2>1. PICK form, t : CompileJump(form, t) /\ t \in {Do("break"), Do("continue")}
      BY <1>9 DEF CompileBreak, CompileContinue
    <2>2. PICK p : p = IF loops = <<>> THEN <<>> ELSE <<t>>
      OBVIOUS
    <2>3. Statement(form, p)
      BY <2>1, <2>2 DEF CompileJump
    <2>4. t.do \notin Accesses \cup {"leaveFunction"}
      BY <2>1, TaskKindsAre DEF Accesses
    <2>5. Bare(p)
      BY <1>2, <2>2, <2>4, BareNone
    <2> QED BY ONLY <2>3, <2>5, OnwardStatement
  <1> QED
    BY <1>3, <1>4, <1>5, <1>6, <1>7, <1>8, <1>9

LEMMA OnwardBlock ==
    ASSUME CompileBlock \/ CompileIf
    PROVE  Onward /\ todo # <<>> /\ Task.do # "leaveFunction"
  <1>1. CASE CompileBlock
    <2>1. PICK p : p = <<Statements, Do("end")>>
      OBVIOUS
    <2>2. Bare(p)
      <3>1. PICK K : K = {Statements, Do("end")}
        OBVIOUS
      <3>2. \A t \in K : t.do \notin Accesses \cup {"leaveFunction"}
        BY <3>1, TaskKindsAre DEF Accesses
      <3>3. p \in Seq(K)
        BY <2>1, <3>1
      <3> QED BY <3>2, <3>3, BareIn
    <2>3. CASE Statement("block", p)
      BY <2>2, <2>3, OnwardStatement
    <2>4. CASE TaskIs("block") /\ todo' = p \o Tail(todo)
      BY <2>2, <2>4 DEF Onward, TaskIs
    <2> QED BY <1>1, <2>1, <2>3, <2>4 DEF CompileBlock
  <1>2. CASE CompileIf
    <2>2. PICK p \in IfTasks(nodes < MaxNodes) :
              \/ Statement("if", p)
              \/ TaskIs("elseIf") /\ todo' = p \o Tail(todo)
      BY <1>2, Zenon DEF CompileIf
    <2>3. Bare(p)
      <3>1. \/ p = <<Expr, JumpIfFalse, Pop, Block, Patch(1), Pop>>
            \/ \E t \in {Block, Do("elseIf")} :
                   p = <<Expr, JumpIfFalse, Pop, Block, JumpAway, Patch(2), Pop, t, Patch(1)>>
        BY ONLY <2>2, Zenon DEF IfTasks
      <3> QED BY ONLY <3>1, BareLists
    <2>4. CASE Statement("if", p)
      BY <2>3, <2>4, OnwardStatement
    <2>5. CASE TaskIs("elseIf") /\ todo' = p \o Tail(todo)
      BY <2>3, <2>5 DEF Onward, TaskIs
    <2> QED BY <2>2, <2>4, <2>5
  <1> QED
    BY <1>1, <1>2

LEMMA OnwardExpressions ==
    ASSUME MaxArgs \in Nat,
           \/ CompileUnary \/ CompileBinary \/ CompileAnd \/ CompileOr \/ CompileIndex
           \/ CompileField \/ CompileAssign
           \/ CompilePrint \/ CompileCall \/ CompileArray \/ CompileNew \/ CompileMatch
    PROVE  Onward /\ todo # <<>> /\ Task.do # "leaveFunction"
  <1>1. \A form, p : Bare(p) /\ Compound(form, p)
                         => Onward /\ todo # <<>> /\ Task.do # "leaveFunction"
    BY OnwardCompound
  <1>2. CASE CompileUnary \/ CompileBinary \/ CompileIndex \/ CompileField \/ CompileAssign
    <2>1. PICK form, p, name : /\ Compound(form, p)
                               /\ \/ p = <<Expr, Convert>> \/ p = <<Expr, Expr, Arithmetic>>
                                  \/ p = <<Expr, Expr, Index>> \/ p = <<Expr, GetField>>
                                  \/ p = <<Expr, [do |-> "assign", name |-> name]>>
                                  \/ p = <<Expr, Expr, SetField>>
                                  \/ p = <<Expr, Expr, Expr, SetIndex>>
      BY ONLY <1>2, Zenon DEF CompileUnary, CompileBinary, CompileIndex, CompileField, CompileAssign
    <2>2. PICK t : t = [do |-> "assign", name |-> name]
      OBVIOUS
    <2>3. PICK K : K = {Expr, Convert, Arithmetic, Index, GetField, t, SetField, SetIndex}
      OBVIOUS
    <2>4. \A u \in K : u.do \notin Accesses \cup {"leaveFunction"}
      BY <2>2, <2>3, TaskKindsAre, InstructionKindsAre DEF Accesses
    <2>5. /\ <<Expr, Convert>> \in Seq(K) /\ <<Expr, Expr, Arithmetic>> \in Seq(K)
          /\ <<Expr, Expr, Index>> \in Seq(K) /\ <<Expr, GetField>> \in Seq(K)
          /\ <<Expr, t>> \in Seq(K) /\ <<Expr, Expr, SetField>> \in Seq(K)
          /\ <<Expr, Expr, Expr, SetIndex>> \in Seq(K)
      BY <2>3
    <2>6. p \in Seq(K)
      BY ONLY <2>1, <2>2, <2>5, Zenon
    <2>7. Bare(p)
      BY <2>4, <2>6, BareIn
    <2> QED BY ONLY <1>1, <2>1, <2>7
  <1>3. CASE CompileAnd \/ CompileOr
    BY <1>1, <1>3, BareLists DEF CompileAnd, CompileOr
  <1>4. ASSUME NEW n \in 0 .. MaxArgs
        PROVE  Bare(Exprs(n)) /\ Bare([i \in 1 .. n |-> Load])
    <2>1. n \in Nat
      OBVIOUS
    <2>2. /\ Expr.do \notin Accesses \cup {"leaveFunction"}
          /\ Load.do \notin Accesses \cup {"leaveFunction"}
      BY TaskKindsAre, InstructionKindsAre DEF Accesses
    <2>3. Bare([i \in 1 .. n |-> Expr]) /\ Bare([i \in 1 .. n |-> Load])
      BY ONLY <2>1, <2>2, BareSame
    <2> QED BY ONLY <2>3, Zenon DEF Exprs
  <1>5. ASSUME NEW n \in 0 .. MaxArgs
        PROVE  /\ Bare(<<PrintValues(n), Load>>) /\ Bare(<<Expr>>) /\ Bare(<<Call(n)>>)
               /\ Bare(<<MakeArray(n)>>) /\ Bare(<<NewStruct(n)>>)
    <2>1. PICK K : K = {PrintValues(n), Load, Expr, Call(n), MakeArray(n), NewStruct(n)}
      OBVIOUS
    <2>2. \A t \in K : t.do \notin Accesses \cup {"leaveFunction"}
      BY <2>1, TaskKindsAre, InstructionKindsAre DEF Accesses
    <2>3. /\ <<PrintValues(n), Load>> \in Seq(K) /\ <<Expr>> \in Seq(K) /\ <<Call(n)>> \in Seq(K)
          /\ <<MakeArray(n)>> \in Seq(K) /\ <<NewStruct(n)>> \in Seq(K)
      BY <2>1
    <2> QED BY <2>2, <2>3, BareIn
  <1>6. CASE CompilePrint
    <2>1. PICK n \in 0 .. MaxArgs : Compound("print", Exprs(n) \o <<PrintValues(n), Load>>)
      BY <1>6 DEF CompilePrint
    <2>2. Bare(Exprs(n) \o <<PrintValues(n), Load>>)
      BY <1>4, <1>5, BareConcat
    <2> QED BY ONLY <1>1, <2>1, <2>2
  <1>7. CASE CompileCall
    <2>1. PICK n \in 0 .. MaxArgs : Compound("call", <<Expr>> \o Exprs(n) \o <<Call(n)>>)
      BY <1>7 DEF CompileCall
    <2>2. Bare(<<Expr>> \o Exprs(n) \o <<Call(n)>>)
      BY <1>4, <1>5, BareConcat
    <2> QED BY ONLY <1>1, <2>1, <2>2
  <1>8. CASE CompileArray
    <2>1. PICK n \in 0 .. MaxArgs : Compound("array", Exprs(n) \o <<MakeArray(n)>>)
      BY <1>8 DEF CompileArray
    <2>2. Bare(Exprs(n) \o <<MakeArray(n)>>)
      BY <1>4, <1>5, BareConcat
    <2> QED BY ONLY <1>1, <2>1, <2>2
  <1>9. CASE CompileNew
    <2>1. PICK n \in 0 .. MaxArgs :
              Compound("new", Exprs(n) \o [i \in 1 .. n |-> Load] \o <<NewStruct(n)>>)
      BY <1>9 DEF CompileNew
    <2>2. Bare(Exprs(n) \o [i \in 1 .. n |-> Load] \o <<NewStruct(n)>>)
      BY <1>4, <1>5, BareConcat
    <2> QED BY ONLY <1>1, <2>1, <2>2
  <1>10. CASE CompileMatch
    <2>1. PICK n \in 0 .. MaxArgs, wildcard \in BOOLEAN, last \in BOOLEAN :
              Compound("match", MatchTasks(n, wildcard, last))
      BY <1>10 DEF CompileMatch, Match
    <2>2. Bare(MatchTasks(n, wildcard, last))
      BY BareMatch
    <2> QED BY ONLY <1>1, <2>1, <2>2
  <1> QED
    BY <1>2, <1>3, <1>6, <1>7, <1>8, <1>9, <1>10

LEMMA OnwardInstructions ==
    ASSUME IsSequence(todo),
           \/ CompileForLoop \/ PushLoop \/ EndStatements \/ DeclareFunction \/ CompileLiteral
           \/ GetMatch \/ EmitInstruction \/ EmitExit \/ EmitJump \/ PatchJump \/ EmitBreak
           \/ EndLoop \/ BeginScope \/ DeclareLocal \/ MarkInitialized \/ EndScope
    PROVE  Onward /\ todo # <<>> /\ Task.do # "leaveFunction"
  <1>1. CASE CompileForLoop
    <2>1. PICK name, iter, idx, start : todo' = ForTasks(name, iter, idx, start) \o Tail(todo)
      BY <1>1, Zenon DEF CompileForLoop
    <2> QED BY <1>1, <2>1, BareFor DEF Onward, CompileForLoop, TaskIs
  <1>2. CASE CompileLiteral
    <2>1. Bare(<<Load>>)
      BY BareOne, InstructionKindsAre DEF Accesses
    <2> QED BY <1>2, <2>1 DEF CompileLiteral, Onward, TaskIs
  <1>3. CASE GetMatch
    <2>1. PICK slot : todo' = <<Get(slot)>> \o Tail(todo)
      BY <1>3, Zenon DEF GetMatch
    <2>2. Bare(<<Get(slot)>>)
      BY BareOne, TaskKindsAre DEF Accesses
    <2> QED BY <1>3, <2>1, <2>2 DEF GetMatch, Onward, TaskIs
  <1>4. CASE \/ PushLoop \/ EndStatements \/ DeclareFunction \/ EmitInstruction \/ EmitExit
             \/ EmitJump \/ PatchJump \/ EmitBreak \/ EndLoop \/ BeginScope \/ DeclareLocal
             \/ MarkInitialized \/ EndScope
    <2>1. todo # <<>> /\ todo' = Tail(todo) /\ Task.do # "leaveFunction"
      BY <1>4 DEF PushLoop, EndStatements, DeclareFunction, EmitInstruction, EmitExit, EmitJump,
         PatchJump, EmitBreak, EndLoop, BeginScope, DeclareLocal, MarkInitialized, EndScope, TaskIs
    <2> QED BY <2>1, OnwardTail
  <1> QED
    BY <1>1, <1>2, <1>3, <1>4

(* A name that is a local's or global.                                     *)
Nearby(name, assigned) ==
    /\ todo' = <<IF ResolveLocal(locals, name) = -1
                 THEN IF assigned THEN SetName ELSE Load
                 ELSE IF assigned THEN Set(ResolveLocal(locals, name))
                                  ELSE Get(ResolveLocal(locals, name))>> \o Tail(todo)
    /\ UNCHANGED <<outer, upvalues>>

(* A name that is a local of a function around.                            *)
Distant(name, assigned) ==
    LET home == Home(name)
        resolved == ResolveUpvalue(name, home)
    IN /\ ResolveLocal(locals, name) = -1 /\ home # -1
       /\ outer' = MarkCaptured(name, home, resolved)
       /\ upvalues' = resolved[Level].table
       /\ todo' = <<IF assigned THEN SetUpvalue(resolved[Level].index, name)
                              ELSE GetUpvalue(resolved[Level].index, name)>> \o Tail(todo)

LEMMA AccessIs ==
    ASSUME CompileIdentifier \/ AssignName
    PROVE  /\ todo # <<>> /\ Task.do # "leaveFunction"
           /\ UNCHANGED <<locals, depth, open>>
           /\ \E name, assigned : Nearby(name, assigned) \/ Distant(name, assigned)
  <1>1. PICK name, assigned : Access(name, assigned)
    BY Zenon DEF CompileIdentifier, AssignName
  <1>2. todo # <<>> /\ Task.do # "leaveFunction"
    BY DEF CompileIdentifier, AssignName, TaskIs
  <1>3. UNCHANGED <<locals, depth, open>>
    BY <1>1 DEF Access
  <1>4. Nearby(name, assigned) \/ Distant(name, assigned)
    BY ONLY <1>1, Zenon DEF Access, Nearby, Distant
  <1> QED
    BY <1>2, <1>3, <1>4

LEMMA OnwardNearby ==
    ASSUME NEW name, NEW assigned, Nearby(name, assigned)
    PROVE  Onward
  <1>1. PICK t : /\ \E k : t \in {SetName, Load, Set(k), Get(k)}
                 /\ todo' = <<t>> \o Tail(todo)
    BY DEF Nearby
  <1>2. Bare(<<t>>)
    BY <1>1, BareOne, TaskKindsAre, InstructionKindsAre DEF Accesses
  <1> QED
    BY <1>1, <1>2 DEF Onward

(* add_upvalue keeps the table and finds the upvalue in it.                *)
LEMMA AddUpvalueAdds ==
    ASSUME NEW us \in Seq(Upvalues), NEW u \in Upvalues, NEW r, r = AddUpvalue(us, u)
    PROVE  /\ r.table \in Seq(Upvalues) /\ Len(us) <= Len(r.table)
           /\ r.index \in 1 .. Len(r.table) /\ r.table[r.index] = u
           /\ \A k \in 1 .. Len(us) : r.table[k] = us[k]
           /\ \A k \in 1 .. Len(r.table) : k \in 1 .. Len(us) \/ r.table[k] = u
  <1>1. PICK with : with = IF Contains(us, u) THEN us ELSE Append(us, u)
    OBVIOUS
  <1>2. PICK index : index = CHOOSE i \in DOMAIN with : with[i] = u
    OBVIOUS
  <1>3. r = [table |-> with, index |-> index]
    BY <1>1, <1>2, Zenon DEF AddUpvalue
  <1>4. r.table = with /\ r.index = index
    BY ONLY <1>3
  <1>5. CASE Contains(us, u)
    <2>1. with = us /\ \E i \in DOMAIN us : us[i] = u
      <3>1. \E i \in 1 .. Len(us) : us[i] = u
        BY <1>5 DEF Contains
      <3> QED BY <1>1, <1>5, <3>1
    <2>2. index \in DOMAIN us /\ us[index] = u
      BY <1>2, <2>1, Zenon
    <2> QED BY <1>4, <2>1, <2>2
  <1>6. CASE ~Contains(us, u)
    <2>1. with = Append(us, u)
      BY <1>1, <1>6
    <2>2. /\ with \in Seq(Upvalues) /\ Len(with) = Len(us) + 1 /\ with[Len(us) + 1] = u
          /\ \A k \in 1 .. Len(us) : with[k] = us[k]
      BY <2>1
    <2>3. Len(us) + 1 \in DOMAIN with
      BY <2>2
    <2>4. index \in DOMAIN with /\ with[index] = u
      BY <1>2, <2>2, <2>3, Zenon
    <2> QED BY <1>4, <2>2, <2>4
  <1> QED
    BY <1>5, <1>6

(* The upvalue that is added to us, and where it is put.                   *)
Added(r, us, lo, slot, l, x) ==
    /\ r.table \in Seq(Upvalues) /\ Len(us) <= Len(r.table)
    /\ r.index \in 1 .. Len(r.table)
    /\ \A k \in 1 .. Len(us) : r.table[k] = us[k]
    /\ \E u \in Upvalues :
           /\ u.isLocal = (l = lo) /\ u.index = IF l = lo THEN slot ELSE x.index
           /\ r.table[r.index] = u
           /\ \A k \in 1 .. Len(r.table) : k \in 1 .. Len(us) \/ r.table[k] = u

LEMMA StepAdds ==
    ASSUME NEW us \in Seq(Upvalues), NEW lo \in Nat, NEW l \in Nat, NEW slot \in Nat, NEW x,
           l = lo \/ x.index \in Nat, NEW r, r = Step(us, lo, slot, l, x)
    PROVE  Added(r, us, lo, slot, l, x)
  <1>1. PICK first \in BOOLEAN : first = (l = lo)
    OBVIOUS
  <1>2. PICK index : index = IF l = lo THEN slot ELSE x.index
    OBVIOUS
  <1>3. index \in Nat
    BY <1>2
  <1>4. PICK u : u = [isLocal |-> first, index |-> index]
    OBVIOUS
  <1>5. u \in Upvalues /\ u.isLocal = first /\ u.index = index
    BY <1>3, <1>4 DEF Upvalues
  <1>6. r = AddUpvalue(us, u)
    BY ONLY <1>1, <1>2, <1>4, r = Step(us, lo, slot, l, x), Zenon DEF Step
  <1>7. /\ r.table \in Seq(Upvalues) /\ Len(us) <= Len(r.table)
        /\ r.index \in 1 .. Len(r.table) /\ r.table[r.index] = u
        /\ \A k \in 1 .. Len(us) : r.table[k] = us[k]
        /\ \A k \in 1 .. Len(r.table) : k \in 1 .. Len(us) \/ r.table[k] = u
    BY ONLY us \in Seq(Upvalues), <1>5, <1>6, AddUpvalueAdds
  <1>8. u.isLocal = (l = lo) /\ u.index = IF l = lo THEN slot ELSE x.index
    BY ONLY <1>1, <1>2, <1>5, Zenon
  <1> QED
    BY ONLY <1>5, <1>7, <1>8, Zenon DEF Added

(* Locals that are as they were but for a mark of capture.                 *)
Kin(ls, ls2) ==
    /\ DOMAIN ls2 = DOMAIN ls
    /\ \A i \in DOMAIN ls : ls2[i].name = ls[i].name /\ ls2[i].initialized = ls[i].initialized

LEMMA KinResolve ==
    ASSUME NEW ls, NEW ls2, NEW name, Kin(ls, ls2)
    PROVE  ResolveLocal(ls2, name) = ResolveLocal(ls, name)
  <1>1. {i \in DOMAIN ls2 : ls2[i].name = name} = {i \in DOMAIN ls : ls[i].name = name}
    BY DEF Kin
  <1>2. PICK found : found = {i \in DOMAIN ls : ls[i].name = name}
    OBVIOUS
  <1>3. PICK k : k = IF found = {} THEN -1 ELSE CHOOSE i \in found : \A j \in found : j <= i
    OBVIOUS
  <1>4. ResolveLocal(ls, name) = k
    BY ONLY <1>2, <1>3 DEF ResolveLocal
  <1>5. ResolveLocal(ls2, name) = k
    <2>1. PICK others : others = {i \in DOMAIN ls2 : ls2[i].name = name}
      OBVIOUS
    <2>2. others = found
      BY ONLY <1>1, <1>2, <2>1
    <2>3. k = IF others = {} THEN -1 ELSE CHOOSE i \in others : \A j \in others : j <= i
      BY ONLY <1>3, <2>2
    <2> QED BY ONLY <2>1, <2>3 DEF ResolveLocal
  <1> QED
    BY ONLY <1>4, <1>5

LEMMA KinCaptured ==
    ASSUME NEW ns, NEW ls \in Seq(LocalRecords(ns)), NEW slot
    PROVE  Kin(ls, [ls EXCEPT ![slot].captured = TRUE])
  <1>1. PICK m : m = [ls EXCEPT ![slot].captured = TRUE]
    OBVIOUS
  <1>2. DOMAIN m = DOMAIN ls
    BY <1>1
  <1>3. ASSUME NEW i \in DOMAIN ls
        PROVE  m[i].name = ls[i].name /\ m[i].initialized = ls[i].initialized
    <2>1. PICK r : r = ls[i]
      OBVIOUS
    <2>2. r \in LocalRecords(ns)
      BY <2>1
    <2>3. CASE i = slot
      <3>1. m[i] = [r EXCEPT !.captured = TRUE]
        BY ONLY <1>1, <2>1, <2>3, i \in DOMAIN ls
      <3>2. r = [name |-> r.name, depth |-> r.depth, initialized |-> r.initialized,
                 captured |-> r.captured]
        BY ONLY <2>2 DEF LocalRecords
      <3>3. m[i] = [name |-> r.name, depth |-> r.depth, initialized |-> r.initialized,
                    captured |-> TRUE]
        BY ONLY <3>1, <3>2
      <3> QED BY ONLY <2>1, <3>3
    <2>4. CASE i # slot
      BY ONLY <1>1, <2>4, i \in DOMAIN ls
    <2> QED BY ONLY <2>3, <2>4
  <1> QED
    BY ONLY <1>1, <1>2, <1>3 DEF Kin

(* The functions after a name was resolved to a local of one around: the   *)
(* tables from there inwards are those that ResolveUpvalue makes.          *)
LEMMA DistantTables ==
    ASSUME Shapes, FunctionsOK, NEW name, NEW assigned, Distant(name, assigned),
           UNCHANGED locals
    PROVE  \E home, slot, N \in Nat : \E r :
               /\ N = Level /\ N = Level' /\ home + 1 <= N
               /\ home = Home(name) /\ slot = ResolveLocal(LocalsOf(home), name)
               /\ slot \in 1 .. Len(LocalsOf(home))
               /\ \E t : /\ todo' = <<t>> \o Tail(todo) /\ t.do \in Accesses
                         /\ t.slot = r[N].index /\ t.name = name
               /\ \A l \in (home + 1) .. N : /\ r[l] = Step(UpvaluesOf(l), home + 1, slot, l, r[l - 1])
                                             /\ UpvaluesOf(l)' = r[l].table
               /\ \A l \in 1 .. home : UpvaluesOf(l)' = UpvaluesOf(l)
               /\ \A l \in 0 .. N - 1 : Kin(LocalsOf(l), LocalsOf(l)')
  <1>1. PICK N \in Nat : N = Level /\ N = Len(outer)
    BY FunctionFacts
  <1>2. /\ \A i \in 1 .. N : LocalsOK(Names, outer[i].locals, outer[i].depth)
        /\ \A i \in 0 .. N : UpvaluesOf(i) \in Seq(Upvalues)
        /\ \A i \in 0 .. N - 1 : /\ LocalsOf(i) = outer[i + 1].locals
                                 /\ UpvaluesOf(i) = outer[i + 1].upvalues
    BY <1>1, FunctionFacts
  <1>3. PICK home : home = Home(name)
    OBVIOUS
  <1>4. home # -1
    BY <1>3 DEF Distant
  <1>5. home \in 0 .. (N - 1) /\ ResolveLocal(LocalsOf(home), name) # -1
    BY <1>1, <1>3, <1>4, HomeIs
  <1>6. home \in Nat /\ home + 1 <= N /\ home + 1 \in 1 .. N
    BY <1>5
  <1>7. PICK slot : slot = ResolveLocal(LocalsOf(home), name)
    OBVIOUS
  <1>8. LocalsOf(home) = outer[home + 1].locals /\ outer[home + 1].locals \in Seq(LocalRecords(Names))
    BY <1>2, <1>5, <1>6 DEF LocalsOK
  <1>9. slot \in 1 .. Len(LocalsOf(home)) /\ slot \in Nat
    <2>1. Len(LocalsOf(home)) \in Nat /\ DOMAIN LocalsOf(home) = 1 .. Len(LocalsOf(home))
      BY <1>8
    <2>2. slot \in 1 .. Len(LocalsOf(home))
      BY <1>5, <1>7, <2>1, ResolveLocalIs
    <2> QED BY <2>1, <2>2
  <1>10. PICK r : r = ResolveUpvalue(name, home)
    OBVIOUS
  <1>11. /\ outer' = MarkCaptured(name, home, r)
         /\ upvalues' = r[N].table
    BY ONLY <1>1, <1>3, <1>7, <1>10, Distant(name, assigned), Zenon DEF Distant
  <1>12. PICK t : t = IF assigned THEN SetUpvalue(r[N].index, name) ELSE GetUpvalue(r[N].index, name)
    OBVIOUS
  <1>13. todo' = <<t>> \o Tail(todo)
    BY ONLY <1>1, <1>3, <1>10, <1>12, Distant(name, assigned), Zenon DEF Distant
  <1>14. t.do \in Accesses /\ t.slot = r[N].index /\ t.name = name
    BY ONLY <1>12 DEF SetUpvalue, GetUpvalue, Accesses
  <1>15. \A l \in (home + 1) .. N : r[l] = Step(UpvaluesOf(l), home + 1, slot, l, r[l - 1])
    <2>1. \A l \in 1 .. N : UpvaluesOf(l) \in Seq(Upvalues)
      BY <1>1, <1>2
    <2> QED BY <1>1, <1>6, <1>7, <1>9, <1>10, <2>1, ResolveUpvalueSteps
  <1>16. Len(outer') = N
    BY <1>1, <1>11, CaptureKeepsDepths
  <1>17. Level' = N
    BY <1>16 DEF Level
  <1>18. \A i \in 1 .. N :
           /\ i - 1 > home => /\ outer'[i].upvalues = r[i - 1].table
                              /\ outer'[i].locals = outer[i].locals
           /\ i - 1 = home => /\ outer'[i].locals = [outer[i].locals EXCEPT ![slot].captured = TRUE]
                              /\ outer'[i].upvalues = outer[i].upvalues
           /\ i - 1 < home => outer'[i] = outer[i]
    <2>1. outer' = MarkCaptured(name, home, r)
      BY <1>11
    <2>2. ASSUME NEW i \in 1 .. Len(outer)
          PROVE  /\ i - 1 > home => /\ outer'[i].upvalues = r[i - 1].table
                                    /\ outer'[i].locals = outer[i].locals
                 /\ i - 1 = home => /\ outer'[i].locals = [outer[i].locals EXCEPT ![slot].captured = TRUE]
                                    /\ outer'[i].upvalues = outer[i].upvalues
                 /\ i - 1 < home => outer'[i] = outer[i]
      BY ONLY <1>6, <1>7, <2>1, Shapes, i \in 1 .. Len(outer), CaptureFields
    <2> QED BY ONLY <1>1, <2>2, Zenon
  <1>19. \A i \in 1 .. N : UpvaluesOf(i)' = IF i = N THEN upvalues' ELSE outer'[i + 1].upvalues
    BY <1>17 DEF UpvaluesOf
  <1>20. ASSUME NEW i \in (home + 1) .. N PROVE UpvaluesOf(i)' = r[i].table
    <2>1. CASE i = N
      BY <1>1, <1>6, <1>11, <1>19, <2>1
    <2>2. CASE i # N
      <3>1. i + 1 \in 1 .. N /\ (i + 1) - 1 > home /\ (i + 1) - 1 = i /\ i \in 1 .. N
        BY <1>6, <2>2
      <3>2. outer'[i + 1].upvalues = r[i].table
        BY <1>18, <3>1
      <3> QED BY <1>19, <2>2, <3>1, <3>2
    <2> QED BY <2>1, <2>2
  <1>21. ASSUME NEW i \in 1 .. home PROVE UpvaluesOf(i)' = UpvaluesOf(i)
    <2>1. /\ i + 1 \in 1 .. N /\ (i + 1) - 1 = i /\ i \in 0 .. N - 1 /\ i # N /\ i \in 1 .. N
          /\ i < home \/ i = home
      BY <1>5, <1>6
    <2>2. outer'[i + 1].upvalues = outer[i + 1].upvalues
      <3>1. CASE i < home
        BY <1>18, <2>1, <3>1
      <3>2. CASE i = home
        BY <1>18, <2>1, <3>2
      <3> QED BY <2>1, <3>1, <3>2
    <2> QED BY <1>2, <1>19, <2>1, <2>2
  <1>22. ASSUME NEW l \in 0 .. N - 1 PROVE Kin(LocalsOf(l), LocalsOf(l)')
    <2>1. /\ l + 1 \in 1 .. N /\ (l + 1) - 1 = l /\ l # N
          /\ l < home \/ l = home \/ l > home
      BY <1>5
    <2>2. LocalsOf(l) = outer[l + 1].locals /\ LocalsOf(l)' = outer'[l + 1].locals
      BY <1>2, <1>17, <2>1 DEF LocalsOf
    <2>3. CASE l = home
      <3>1. outer'[l + 1].locals = [outer[l + 1].locals EXCEPT ![slot].captured = TRUE]
        BY <1>18, <2>1, <2>3
      <3>2. outer[l + 1].locals \in Seq(LocalRecords(Names))
        BY <1>8, <2>3
      <3>3. PICK ls : ls = outer[l + 1].locals
        OBVIOUS
      <3>4. Kin(ls, [ls EXCEPT ![slot].captured = TRUE])
        BY ONLY <3>2, <3>3, KinCaptured
      <3> QED BY ONLY <2>2, <3>1, <3>3, <3>4, Zenon
    <2>4. CASE l # home
      <3>1. outer'[l + 1].locals = outer[l + 1].locals
        <4>1. CASE l > home
          BY <1>18, <2>1, <4>1
        <4>2. CASE l < home
          BY <1>18, <2>1, <4>2
        <4> QED BY <2>1, <2>4, <4>1, <4>2
      <3> QED BY <2>2, <3>1 DEF Kin
    <2> QED BY <2>3, <2>4
  <1>23. \E u : /\ todo' = <<u>> \o Tail(todo) /\ u.do \in Accesses
                /\ u.slot = r[N].index /\ u.name = name
    BY ONLY <1>13, <1>14, Zenon
  <1>24. \A l \in (home + 1) .. N : /\ r[l] = Step(UpvaluesOf(l), home + 1, slot, l, r[l - 1])
                                    /\ UpvaluesOf(l)' = r[l].table
    BY ONLY <1>15, <1>20, Zenon
  <1>25. /\ N = Level /\ N = Level' /\ home + 1 <= N
         /\ home = Home(name) /\ slot = ResolveLocal(LocalsOf(home), name)
         /\ slot \in 1 .. Len(LocalsOf(home))
    BY ONLY <1>1, <1>3, <1>6, <1>7, <1>9, <1>17
  <1>26. \A l \in 1 .. home : UpvaluesOf(l)' = UpvaluesOf(l)
    BY ONLY <1>21
  <1>27. \A l \in 0 .. N - 1 : Kin(LocalsOf(l), LocalsOf(l)')
    BY ONLY <1>22
  <1> DEFINE Tables(h, x, n, q) ==
               /\ n = Level /\ n = Level' /\ h + 1 <= n
               /\ h = Home(name) /\ x = ResolveLocal(LocalsOf(h), name)
               /\ x \in 1 .. Len(LocalsOf(h))
               /\ \E u : /\ todo' = <<u>> \o Tail(todo) /\ u.do \in Accesses
                         /\ u.slot = q[n].index /\ u.name = name
               /\ \A l \in (h + 1) .. n : /\ q[l] = Step(UpvaluesOf(l), h + 1, x, l, q[l - 1])
                                          /\ UpvaluesOf(l)' = q[l].table
               /\ \A l \in 1 .. h : UpvaluesOf(l)' = UpvaluesOf(l)
               /\ \A l \in 0 .. n - 1 : Kin(LocalsOf(l), LocalsOf(l)')
  <1>28. Tables(home, slot, N, r)
    BY ONLY <1>23, <1>24, <1>25, <1>26, <1>27
  <1>29. \E h, x, n \in Nat : \E q : Tables(h, x, n, q)
    <2> HIDE DEF Tables
    <2> QED BY ONLY <1>6, <1>9, <1>28, N \in Nat, Zenon
  <1> QED
    BY ONLY <1>29, Zenon

(* Every upvalue that is not a local's leads to one of the function around. *)
LinksOK ==
    \A l \in 1 .. Level : \A k \in 1 .. Len(UpvaluesOf(l)) :
        \/ UpvaluesOf(l)[k].isLocal
        \/ l > 1 /\ UpvaluesOf(l)[k].index \in 1 .. Len(UpvaluesOf(l - 1))

LEMMA DistantResolves ==
    ASSUME NEW home \in Nat, NEW slot \in Nat, NEW N \in Nat, home + 1 <= N, NEW r,
           NEW us, \A l \in 1 .. N : us[l] \in Seq(Upvalues),
           \A l \in (home + 1) .. N : r[l] = Step(us[l], home + 1, slot, l, r[l - 1])
    PROVE  \A l \in (home + 1) .. N : Added(r[l], us[l], home + 1, slot, l, r[l - 1])
  <1>1. PICK lo \in Nat : lo = home + 1
    OBVIOUS
  <1>2. \A l \in lo .. N : l \in Nat /\ l \in 1 .. N
    BY <1>1
  <1>3. ASSUME NEW l \in lo .. N, l = lo \/ r[l - 1].index \in Nat
        PROVE  Added(r[l], us[l], lo, slot, l, r[l - 1])
    <2>1. r[l] = Step(us[l], lo, slot, l, r[l - 1])
      BY <1>1
    <2>2. us[l] \in Seq(Upvalues) /\ l \in Nat
      BY <1>2
    <2>3. l = lo \/ r[l - 1].index \in Nat
      BY <1>3
    <2> QED BY ONLY <2>1, <2>2, <2>3, lo \in Nat, slot \in Nat, StepAdds
  <1>4. PICK T : T = {l \in lo .. N : r[l].index \in Nat}
    OBVIOUS
  <1>5. \A l \in lo .. N : Len(r[l].table) \in Nat => 1 .. Len(r[l].table) \subseteq Nat
    OBVIOUS
  <1>6. lo \in T
    <2>1. lo \in lo .. N
      BY <1>1
    <2>2. r[lo].table \in Seq(Upvalues) /\ r[lo].index \in 1 .. Len(r[lo].table)
      BY <1>3, <2>1 DEF Added
    <2> QED BY <1>4, <2>1, <2>2
  <1>7. ASSUME NEW l \in lo .. (N - 1), l \in T PROVE l + 1 \in T
    <2>1. l + 1 \in lo .. N /\ (l + 1) - 1 = l
      BY <1>1
    <2>2. r[l].index \in Nat
      BY <1>4, <1>7
    <2>3. r[(l + 1) - 1].index \in Nat
      BY ONLY <2>1, <2>2
    <2>4. r[l + 1].table \in Seq(Upvalues) /\ r[l + 1].index \in 1 .. Len(r[l + 1].table)
      BY ONLY <1>3, <2>1, <2>3 DEF Added
    <2> QED BY <1>4, <2>1, <2>4
  <1>8. \A l \in lo .. N : l \in T
    BY <1>1, <1>6, <1>7, UpTo
  <1>9. ASSUME NEW l \in lo .. N PROVE l = lo \/ r[l - 1].index \in Nat
    <2>1. l # lo => l - 1 \in lo .. N
      BY <1>1
    <2>2. l # lo => l - 1 \in T
      BY <1>8, <2>1
    <2> QED BY <1>4, <2>2
  <1> QED
    BY ONLY <1>1, <1>3, <1>9, Zenon

(* What an upvalue leads to, given what those of the function around do.   *)
Found(u, l, around) == IF u.isLocal THEN <<l - 1, u.index>> ELSE around[u.index]

HasPath(N, us) ==
    \E f : f = [l \in 1 .. N |-> [i \in DOMAIN us[l] |-> Found(us[l][i], l, f[l - 1])]]

LEMMA PathExists ==
    ASSUME NEW N \in Nat, 1 <= N, NEW us, \A l \in 1 .. N : us[l] \in Seq(Upvalues),
           \A l \in 1 .. N : \A k \in 1 .. Len(us[l]) :
               us[l][k].isLocal \/ (l > 1 /\ us[l][k].index \in 1 .. Len(us[l - 1]))
    PROVE  HasPath(N, us)
  <1>1. PICK S : S = Seq(Nat \X Nat)
    OBVIOUS
  <1>2. PICK lo \in Nat : lo = 1
    OBVIOUS
  <1>3. PICK other : other = <<0, 0>>
    OBVIOUS
  <1>4. other \in Nat \X Nat
    BY <1>3
  <1>5. PICK next : next = [l \in (lo + 1) .. N |-> [g \in S |-> [i \in 1 .. Len(us[l]) |->
                               IF us[l][i].isLocal THEN <<l - 1, us[l][i].index>>
                               ELSE IF us[l][i].index \in 1 .. Len(g) THEN g[us[l][i].index]
                               ELSE other]]]
    OBVIOUS
  <1>6. \A l \in 1 .. N : Len(us[l]) \in Nat /\ \A i \in 1 .. Len(us[l]) : us[l][i].index \in Nat
    <2> TAKE l \in 1 .. N
    <2>1. us[l] \in Seq(Upvalues)
      OBVIOUS
    <2>2. \A i \in 1 .. Len(us[l]) : us[l][i] \in Upvalues
      BY <2>1
    <2> QED BY <2>1, <2>2 DEF Upvalues
  <1>7. next \in [(lo + 1) .. N -> [S -> S]]
    <2>1. ASSUME NEW l \in (lo + 1) .. N, NEW g \in S
          PROVE  [i \in 1 .. Len(us[l]) |->
                               IF us[l][i].isLocal THEN <<l - 1, us[l][i].index>>
                               ELSE IF us[l][i].index \in 1 .. Len(g) THEN g[us[l][i].index]
                               ELSE other] \in S
      <3>1. l \in 1 .. N /\ l - 1 \in Nat
        BY <1>2
      <3>2. Len(us[l]) \in Nat
        BY <1>6, <3>1
      <3>3. ASSUME NEW i \in 1 .. Len(us[l])
            PROVE  (IF us[l][i].isLocal THEN <<l - 1, us[l][i].index>>
                    ELSE IF us[l][i].index \in 1 .. Len(g) THEN g[us[l][i].index]
                    ELSE other) \in Nat \X Nat
        <4>1. <<l - 1, us[l][i].index>> \in Nat \X Nat
          BY <1>6, <3>1
        <4>2. us[l][i].index \in 1 .. Len(g) => g[us[l][i].index] \in Nat \X Nat
          BY <1>1
        <4> QED BY <1>4, <4>1, <4>2
      <3> QED BY ONLY <1>1, <3>2, <3>3
    <2> QED BY ONLY <1>5, <2>1
  <1>8. PICK base : base = [i \in 1 .. Len(us[1]) |-> <<0, us[1][i].index>>]
    OBVIOUS
  <1>9. base \in S
    <2>1. 1 \in 1 .. N
      OBVIOUS
    <2>2. Len(us[1]) \in Nat /\ \A i \in 1 .. Len(us[1]) : <<0, us[1][i].index>> \in Nat \X Nat
      BY <1>6, <2>1
    <2> QED BY ONLY <1>1, <1>8, <2>2
  <1>10. PICK f \in [lo .. N -> S] : Recurrence(f, base, next, lo, N)
    BY ONLY <1>2, <1>7, <1>9, lo \in Nat, N \in Nat, 1 <= N, Recursion
  <1>11. PICK T : T = {l \in lo .. N : f[l] = [i \in 1 .. Len(us[l]) |-> Found(us[l][i], l, f[l - 1])]}
    OBVIOUS
  <1>12. lo \in T
    <2>1. f[lo] = base /\ lo \in lo .. N
      BY <1>2, <1>10 DEF Recurrence
    <2>2. ASSUME NEW i \in 1 .. Len(us[1]) PROVE <<0, us[1][i].index>> = Found(us[1][i], 1, f[1 - 1])
      BY <2>2, <1>2 DEF Found
    <2>3. f[1] = [i \in 1 .. Len(us[1]) |-> Found(us[1][i], 1, f[1 - 1])]
      BY ONLY <1>2, <1>8, <2>1, <2>2
    <2> QED BY ONLY <1>2, <1>11, <2>1, <2>3, Zenon
  <1>13. ASSUME NEW l \in lo .. (N - 1), l \in T PROVE l + 1 \in T
    <2>1. PICK m : m = l + 1
      OBVIOUS
    <2>2. m \in (lo + 1) .. N /\ m \in lo .. N /\ m - 1 = l /\ m \in 1 .. N /\ m # 1
      BY <1>2, <2>1
    <2>3. f[m] = next[m][f[l]] /\ f[l] \in S
      BY <1>10, <2>2 DEF Recurrence
    <2>4. f[m] = [i \in 1 .. Len(us[m]) |->
                               IF us[m][i].isLocal THEN <<m - 1, us[m][i].index>>
                               ELSE IF us[m][i].index \in 1 .. Len(f[l]) THEN f[l][us[m][i].index]
                               ELSE other]
      BY ONLY <1>5, <2>2, <2>3
    <2>5. Len(f[l]) = Len(us[l])
      <3>1. f[l] = [i \in 1 .. Len(us[l]) |-> Found(us[l][i], l, f[l - 1])]
        BY ONLY <1>11, <1>13, Zenon
      <3>2. DOMAIN f[l] = 1 .. Len(us[l])
        BY ONLY <3>1
      <3>3. DOMAIN f[l] = 1 .. Len(f[l]) /\ Len(f[l]) \in Nat
        BY ONLY <1>1, <2>3
      <3>4. Len(us[l]) \in Nat
        BY <1>2, <1>6
      <3> QED BY ONLY <3>2, <3>3, <3>4
    <2>6. ASSUME NEW i \in 1 .. Len(us[m])
          PROVE  (IF us[m][i].isLocal THEN <<m - 1, us[m][i].index>>
                  ELSE IF us[m][i].index \in 1 .. Len(f[l]) THEN f[l][us[m][i].index]
                  ELSE other) = Found(us[m][i], m, f[m - 1])
      <3>1. us[m][i].isLocal \/ us[m][i].index \in 1 .. Len(us[l])
        BY <2>2
      <3>2. CASE us[m][i].isLocal
        BY ONLY <3>2, Zenon DEF Found
      <3>3. CASE ~us[m][i].isLocal
        BY ONLY <2>2, <2>5, <3>1, <3>3 DEF Found
      <3> QED BY <3>2, <3>3
    <2>7. f[m] = [i \in 1 .. Len(us[m]) |-> Found(us[m][i], m, f[m - 1])]
      BY ONLY <2>4, <2>6
    <2> QED BY ONLY <1>11, <2>1, <2>2, <2>7, Zenon
  <1>14. \A l \in lo .. N : l \in T
    BY <1>2, <1>12, <1>13, UpTo
  <1>15. \A l \in 1 .. N : f[l] = [i \in DOMAIN us[l] |-> Found(us[l][i], l, f[l - 1])]
    <2> TAKE l \in 1 .. N
    <2>1. f[l] = [i \in 1 .. Len(us[l]) |-> Found(us[l][i], l, f[l - 1])]
      BY ONLY <1>2, <1>11, <1>14, l \in 1 .. N, Zenon
    <2>2. DOMAIN us[l] = 1 .. Len(us[l])
      OBVIOUS
    <2> QED BY ONLY <2>1, <2>2, Zenon
  <1>16. f = [l \in 1 .. N |-> [i \in DOMAIN us[l] |-> Found(us[l][i], l, f[l - 1])]]
    <2>1. PICK G : G = [l \in 1 .. N |-> [i \in DOMAIN us[l] |-> Found(us[l][i], l, f[l - 1])]]
      OBVIOUS
    <2>2. f \in [1 .. N -> S]
      BY ONLY <1>2, <1>10, Zenon
    <2>3. \A l \in 1 .. N : G[l] = f[l]
      BY ONLY <1>15, <2>1, Zenon
    <2>4. DOMAIN G = 1 .. N /\ G = [l \in 1 .. N |-> G[l]]
      BY ONLY <2>1
    <2> QED BY ONLY <2>1, <2>2, <2>3, <2>4
  <1> QED
    BY ONLY <1>16, Zenon DEF HasPath

(* Denoted follows the upvalues through the functions around.              *)
TablesLinked ==
    Level \in Nat /\ 1 <= Level /\ (\A l \in 1 .. Level : UpvaluesOf(l) \in Seq(Upvalues)) /\ LinksOK

Leading(f) ==
    \A l \in 1 .. Level : \A k \in 1 .. Len(UpvaluesOf(l)) :
        f[l][k] = Found(UpvaluesOf(l)[k], l, f[l - 1])

LEMMA DenotedIs ==
    TablesLinked => \E f : Leading(f) /\ \A l, k : Denoted(l, k) = f[l][k]
  <1> SUFFICES ASSUME TablesLinked PROVE \E f : Leading(f) /\ \A l, k : Denoted(l, k) = f[l][k]
    OBVIOUS
  <1>1. PICK N \in Nat : N = Level /\ 1 <= N
    BY DEF TablesLinked
  <1>2. PICK us : us = [l \in 1 .. N |-> UpvaluesOf(l)]
    OBVIOUS
  <1>3. \A l \in 1 .. N : us[l] = UpvaluesOf(l) /\ us[l] \in Seq(Upvalues)
    BY <1>1, <1>2 DEF TablesLinked
  <1>4. \A l \in 1 .. N : \A k \in 1 .. Len(us[l]) :
            us[l][k].isLocal \/ (l > 1 /\ us[l][k].index \in 1 .. Len(us[l - 1]))
    <2> TAKE l \in 1 .. N
    <2> TAKE k \in 1 .. Len(us[l])
    <2>1. UpvaluesOf(l)[k].isLocal \/ (l > 1 /\ UpvaluesOf(l)[k].index \in 1 .. Len(UpvaluesOf(l - 1)))
      BY <1>1, <1>3 DEF TablesLinked, LinksOK
    <2>2. l > 1 => l - 1 \in 1 .. N
      OBVIOUS
    <2> QED BY <1>3, <2>1, <2>2
  <1>5. PICK h : h = [l \in 1 .. N |-> [i \in DOMAIN us[l] |-> Found(us[l][i], l, h[l - 1])]]
    <2>1. HasPath(N, us)
      BY ONLY <1>1, <1>3, <1>4, N \in Nat, PathExists
    <2> QED BY ONLY <2>1, Zenon DEF HasPath
  <1>6. h = [m \in 1 .. Level |->
                [i \in DOMAIN UpvaluesOf(m) |->
                    LET u == UpvaluesOf(m)[i]
                    IN IF u.isLocal THEN <<m - 1, u.index>> ELSE h[m - 1][u.index]]]
    <2>1. PICK G : G = [m \in 1 .. N |->
                          [i \in DOMAIN UpvaluesOf(m) |-> Found(UpvaluesOf(m)[i], m, h[m - 1])]]
      OBVIOUS
    <2>2. \A l \in 1 .. N : [i \in DOMAIN us[l] |-> Found(us[l][i], l, h[l - 1])]
                          = [i \in DOMAIN UpvaluesOf(l) |-> Found(UpvaluesOf(l)[i], l, h[l - 1])]
      BY ONLY <1>3, Zenon
    <2>3. G = h
      BY ONLY <1>5, <2>1, <2>2
    <2>4. G = [m \in 1 .. N |->
                [i \in DOMAIN UpvaluesOf(m) |->
                    LET u == UpvaluesOf(m)[i]
                    IN IF u.isLocal THEN <<m - 1, u.index>> ELSE h[m - 1][u.index]]]
      BY ONLY <2>1, Zenon DEF Found
    <2> QED BY ONLY <1>1, <2>3, <2>4, Zenon
  <1> DEFINE found[m \in 1..Level] ==
                [i \in DOMAIN UpvaluesOf(m) |->
                    LET u == UpvaluesOf(m)[i]
                    IN IF u.isLocal THEN <<m - 1, u.index>> ELSE found[m - 1][u.index]]
  <1>7. \A l, k : Denoted(l, k) = found[l][k]
    BY ONLY Zenon DEF Denoted
  <1>8. found = [m \in 1 .. Level |->
                [i \in DOMAIN UpvaluesOf(m) |->
                    LET u == UpvaluesOf(m)[i]
                    IN IF u.isLocal THEN <<m - 1, u.index>> ELSE found[m - 1][u.index]]]
    BY ONLY <1>6, Zenon
  <1> HIDE DEF found
  <1>9. PICK f : f = found
    OBVIOUS
  <1>10. \A l \in 1 .. N : f[l] = [i \in DOMAIN UpvaluesOf(l) |-> Found(UpvaluesOf(l)[i], l, f[l - 1])]
    <2>1. PICK G : G = [m \in 1 .. Level |->
                [i \in DOMAIN UpvaluesOf(m) |->
                    LET u == UpvaluesOf(m)[i]
                    IN IF u.isLocal THEN <<m - 1, u.index>> ELSE f[m - 1][u.index]]]
      OBVIOUS
    <2>2. f = G
      BY ONLY <1>8, <1>9, <2>1, Zenon
    <2>3. \A l \in 1 .. Level : G[l] =
                [i \in DOMAIN UpvaluesOf(l) |->
                    LET u == UpvaluesOf(l)[i]
                    IN IF u.isLocal THEN <<l - 1, u.index>> ELSE f[l - 1][u.index]]
      BY ONLY <2>1, Zenon
    <2>4. \A l \in 1 .. Level : G[l] = [i \in DOMAIN UpvaluesOf(l) |-> Found(UpvaluesOf(l)[i], l, f[l - 1])]
      BY ONLY <2>3, Zenon DEF Found
    <2> QED BY ONLY <1>1, <2>2, <2>4, Zenon
  <1>11. Leading(f)
    <2> SUFFICES ASSUME NEW l \in 1 .. Level, NEW k \in 1 .. Len(UpvaluesOf(l))
                 PROVE  f[l][k] = Found(UpvaluesOf(l)[k], l, f[l - 1])
      BY DEF Leading
    <2>1. f[l] = [i \in DOMAIN UpvaluesOf(l) |-> Found(UpvaluesOf(l)[i], l, f[l - 1])]
      BY <1>1, <1>10
    <2>2. k \in DOMAIN UpvaluesOf(l)
      BY <1>1, <1>3
    <2> QED BY ONLY <2>1, <2>2, Zenon
  <1>12. \A l, k : Denoted(l, k) = f[l][k]
    BY ONLY <1>7, <1>9, Zenon
  <1> QED
    BY ONLY <1>11, <1>12

LEMMA DenotedNext ==
    (TablesLinked => \E f : Leading(f) /\ \A l, k : Denoted(l, k) = f[l][k])'
  BY DenotedIs, PTL

(* The tables of all functions, as one function of their level.            *)
Linked(us, N) ==
    \A l \in 1 .. N :
        /\ us[l] \in Seq(Upvalues)
        /\ \A k \in 1 .. Len(us[l]) :
               us[l][k].isLocal \/ (l > 1 /\ us[l][k].index \in 1 .. Len(us[l - 1]))

Widened(us, vs, r, home, slot, N) ==
    /\ \A l \in (home + 1) .. N : vs[l] = r[l].table /\ Added(r[l], us[l], home + 1, slot, l, r[l - 1])
    /\ \A l \in 1 .. home : vs[l] = us[l]

Beneath(home, slot, N) == home \in Nat /\ slot \in Nat /\ N \in Nat /\ home + 1 <= N

Follows(f, us, N) ==
    \A l \in 1 .. N : \A k \in 1 .. Len(us[l]) : f[l][k] = Found(us[l][k], l, f[l - 1])

(* Tables that have been widened are linked still.                         *)
LEMMA WidenedLinked ==
    ASSUME NEW home \in Nat, NEW slot \in Nat, NEW N \in Nat, home + 1 <= N, NEW r, NEW us, NEW vs,
           Linked(us, N), Widened(us, vs, r, home, slot, N)
    PROVE  Linked(vs, N)
  <1>1. ASSUME NEW l \in 1 .. N
        PROVE  /\ vs[l] \in Seq(Upvalues) /\ Len(us[l]) \in Nat /\ Len(vs[l]) \in Nat
               /\ Len(us[l]) <= Len(vs[l])
    <2>1. us[l] \in Seq(Upvalues)
      BY DEF Linked
    <2>2. CASE l \in 1 .. home
      <3>1. vs[l] = us[l]
        BY <2>2 DEF Widened
      <3> QED BY <2>1, <3>1
    <2>3. CASE l \in (home + 1) .. N
      <3>1. vs[l] = r[l].table /\ Added(r[l], us[l], home + 1, slot, l, r[l - 1])
        BY <2>3 DEF Widened
      <3>2. vs[l] \in Seq(Upvalues) /\ Len(us[l]) <= Len(vs[l])
        BY ONLY <3>1 DEF Added
      <3> QED BY <2>1, <3>2
    <2> QED BY <2>2, <2>3
  <1>2. ASSUME NEW l \in 1 .. N, l > 1 PROVE l - 1 \in 1 .. N
    BY <1>2
  <1>3. ASSUME NEW l \in 1 .. N, NEW k \in 1 .. Len(us[l])
        PROVE  us[l][k].isLocal \/ (l > 1 /\ us[l][k].index \in 1 .. Len(vs[l - 1]))
    <2>1. us[l][k].isLocal \/ (l > 1 /\ us[l][k].index \in 1 .. Len(us[l - 1]))
      BY DEF Linked
    <2>2. CASE l > 1
      <3>1. Len(us[l - 1]) \in Nat /\ Len(vs[l - 1]) \in Nat /\ Len(us[l - 1]) <= Len(vs[l - 1])
        BY <1>1, <1>2, <2>2
      <3> QED BY <2>1, <3>1
    <2> QED BY <2>1, <2>2
  <1>4. ASSUME NEW l \in 1 .. N, NEW k \in 1 .. Len(vs[l])
        PROVE  vs[l][k].isLocal \/ (l > 1 /\ vs[l][k].index \in 1 .. Len(vs[l - 1]))
    <2>1. CASE l \in 1 .. home
      <3>1. vs[l] = us[l]
        BY <2>1 DEF Widened
      <3> QED BY ONLY <1>3, <3>1, l \in 1 .. N, k \in 1 .. Len(vs[l])
    <2>2. CASE l \in (home + 1) .. N
      <3>1. vs[l] = r[l].table /\ Added(r[l], us[l], home + 1, slot, l, r[l - 1])
        BY <2>2 DEF Widened
      <3>2. \A j \in 1 .. Len(us[l]) : vs[l][j] = us[l][j]
        BY ONLY <3>1 DEF Added
      <3>3. PICK u \in Upvalues :
              /\ u.isLocal = (l = home + 1) /\ u.index = IF l = home + 1 THEN slot ELSE r[l - 1].index
              /\ \A j \in 1 .. Len(vs[l]) : j \in 1 .. Len(us[l]) \/ vs[l][j] = u
        BY ONLY <3>1 DEF Added
      <3>4. CASE k \in 1 .. Len(us[l])
        <4>1. vs[l][k] = us[l][k]
          BY ONLY <3>2, <3>4
        <4> QED BY ONLY <1>3, <3>4, <4>1, l \in 1 .. N
      <3>5. CASE vs[l][k] = u
        <4>1. CASE l = home + 1
          BY ONLY <3>3, <3>5, <4>1
        <4>2. CASE l # home + 1
          <5>1. l - 1 \in (home + 1) .. N /\ l > 1
            BY <2>2, <4>2
          <5>2. vs[l - 1] = r[l - 1].table /\ r[l - 1].index \in 1 .. Len(r[l - 1].table)
            BY ONLY <5>1, Widened(us, vs, r, home, slot, N) DEF Widened, Added
          <5>3. u.index = r[l - 1].index
            BY ONLY <3>3, <4>2
          <5> QED BY ONLY <3>5, <5>1, <5>2, <5>3, Zenon
        <4> QED BY <4>1, <4>2
      <3> QED BY <3>3, <3>4, <3>5
    <2> QED BY <2>1, <2>2
  <1> QED
    BY ONLY <1>1, <1>4, Zenon DEF Linked

(* From the function that asked, the new upvalues lead to the local.       *)
LEMMA WidenedLeads ==
    ASSUME NEW home, NEW slot, NEW N, NEW r, NEW us, NEW vs, NEW f,
           Beneath(home, slot, N), Widened(us, vs, r, home, slot, N), Follows(f, vs, N)
    PROVE  f[N][r[N].index] = <<home, slot>>
  <1>0. home \in Nat /\ slot \in Nat /\ N \in Nat /\ home + 1 <= N
    BY DEF Beneath
  <1> USE <1>0
  <1>1. PICK lo \in Nat : lo = home + 1
    OBVIOUS
  <1>2. ASSUME NEW l \in lo .. N
        PROVE  \E u : /\ u.isLocal = (l = lo) /\ u.index = IF l = lo THEN slot ELSE r[l - 1].index
                      /\ f[l][r[l].index] = Found(u, l, f[l - 1])
    <2>1. l \in (home + 1) .. N /\ l \in 1 .. N
      BY <1>1
    <2>2. vs[l] = r[l].table /\ Added(r[l], us[l], home + 1, slot, l, r[l - 1])
      BY ONLY <2>1, Widened(us, vs, r, home, slot, N) DEF Widened
    <2>3. r[l].index \in 1 .. Len(vs[l])
      BY ONLY <2>2 DEF Added
    <2>4. PICK u : /\ u.isLocal = (l = lo) /\ u.index = IF l = lo THEN slot ELSE r[l - 1].index
                   /\ vs[l][r[l].index] = u
      BY ONLY <1>1, <2>2 DEF Added
    <2>5. f[l][r[l].index] = Found(vs[l][r[l].index], l, f[l - 1])
      BY <2>1, <2>3 DEF Follows
    <2> QED BY ONLY <2>4, <2>5, Zenon
  <1>3. PICK T : T = {l \in lo .. N : f[l][r[l].index] = <<home, slot>>}
    OBVIOUS
  <1>4. lo \in T
    <2>1. lo \in lo .. N /\ lo - 1 = home
      BY <1>1
    <2>2. PICK u : /\ u.isLocal /\ u.index = slot
                   /\ f[lo][r[lo].index] = Found(u, lo, f[lo - 1])
      BY ONLY <1>2, <2>1
    <2>3. Found(u, lo, f[lo - 1]) = <<lo - 1, slot>>
      BY ONLY <2>2 DEF Found
    <2>4. f[lo][r[lo].index] = <<home, slot>>
      BY ONLY <2>1, <2>2, <2>3, Zenon
    <2> QED BY ONLY <1>3, <2>1, <2>4
  <1>5. ASSUME NEW l \in lo .. (N - 1), l \in T PROVE l + 1 \in T
    <2>1. PICK m : m = l + 1
      OBVIOUS
    <2>2. m \in lo .. N /\ m - 1 = l /\ m # lo
      BY <1>1, <2>1
    <2>3. PICK u : /\ u.isLocal = (m = lo) /\ u.index = r[m - 1].index
                   /\ f[m][r[m].index] = Found(u, m, f[m - 1])
      BY ONLY <1>2, <2>2
    <2>4. Found(u, m, f[m - 1]) = f[l][r[l].index]
      BY ONLY <2>2, <2>3 DEF Found
    <2>5. f[l][r[l].index] = <<home, slot>>
      BY ONLY <1>3, <1>5
    <2>6. f[m][r[m].index] = <<home, slot>>
      BY ONLY <2>3, <2>4, <2>5, Zenon
    <2> QED BY ONLY <1>3, <2>1, <2>2, <2>6
  <1>6. \A l \in lo .. N : l \in T
    BY ONLY <1>0, <1>1, <1>4, <1>5, lo \in Nat, UpTo
  <1>7. N \in lo .. N
    BY <1>1
  <1> QED
    BY ONLY <1>3, <1>6, <1>7

LEMMA FirstTask ==
    ASSUME NEW t, NEW s, IsSequence(s)
    PROVE  <<t>> \o s # <<>> /\ Head(<<t>> \o s) = t
  <1>1. PICK h : h = <<t>>
    OBVIOUS
  <1>2. IsSequence(h) /\ Len(h) = 1 /\ h[1] = t
    <2>1. h \in Seq({t}) /\ Len(h) = 1 /\ h[1] = t
      BY <1>1
    <2> QED BY <2>1 DEF IsSequence
  <1>3. PICK u : u = h \o s
    OBVIOUS
  <1>4. IsSequence(u) /\ Len(u) = Len(h) + Len(s) /\ \A i \in 1 .. Len(h) : u[i] = h[i]
    BY ONLY <1>2, <1>3, IsSequence(s), ConcatFacts
  <1>5. Len(s) \in Nat
    BY SequenceFacts
  <1>6. u # <<>> /\ Head(u) = u[1] /\ u[1] = t
    <2>1. Len(u) > 0 /\ 1 \in 1 .. Len(h)
      BY ONLY <1>2, <1>4, <1>5
    <2>2. u # <<>> /\ Head(u) = u[1]
      BY ONLY <1>4, <2>1, SequenceFacts
    <2> QED BY ONLY <1>2, <1>4, <2>1, <2>2
  <1> QED
    BY ONLY <1>1, <1>3, <1>6, Zenon

Holders(name) == {l \in 0 .. (Level - 1) : ResolveLocal(LocalsOf(l), name) # -1}

LEMMA HomeHolds ==
    \A name : /\ Holders(name) = {} => Home(name) = -1
              /\ Holders(name) # {} =>
                     Home(name) = CHOOSE l \in Holders(name) : \A m \in Holders(name) : m <= l
  <1> TAKE name
  <1>1. PICK levels : levels = {l \in 0..(Level - 1) : ResolveLocal(LocalsOf(l), name) # -1}
    OBVIOUS
  <1>2. levels # {} => Home(name) = CHOOSE l \in levels : \A m \in levels : m <= l
    BY <1>1, Zenon DEF Home
  <1>3. levels = {} => Home(name) = -1
    BY <1>1, Zenon DEF Home
  <1>4. levels = Holders(name)
    BY ONLY <1>1, Zenon DEF Holders
  <1> QED
    BY ONLY <1>2, <1>3, <1>4, Zenon

LEMMA HomeHoldsNext ==
    (\A name : /\ Holders(name) = {} => Home(name) = -1
               /\ Holders(name) # {} =>
                      Home(name) = CHOOSE l \in Holders(name) : \A m \in Holders(name) : m <= l)'
  BY HomeHolds, PTL

LEMMA HomeKept ==
    ASSUME Level \in Nat, Level' = Level, NEW name,
           \A l \in 0 .. Level - 1 : Kin(LocalsOf(l), LocalsOf(l)')
    PROVE  Home(name)' = Home(name)
  <1>1. \A l \in 0 .. Level - 1 : ResolveLocal(LocalsOf(l)', name) = ResolveLocal(LocalsOf(l), name)
    BY KinResolve
  <1>2. Holders(name)' = Holders(name)
    BY <1>1 DEF Holders
  <1>3. /\ Holders(name)' = {} => Home(name)' = -1
        /\ Holders(name)' # {} =>
               Home(name)' = CHOOSE l \in Holders(name)' : \A m \in Holders(name)' : m <= l
    BY ONLY HomeHoldsNext
  <1>4. /\ Holders(name) = {} => Home(name) = -1
        /\ Holders(name) # {} =>
               Home(name) = CHOOSE l \in Holders(name) : \A m \in Holders(name) : m <= l
    BY ONLY HomeHolds
  <1> QED
    BY ONLY <1>2, <1>3, <1>4, Zenon

(* A name that is an upvalue's: the tables stay linked, and the instruction *)
(* finds the variable.                                                     *)
LEMMA DistantFinds ==
    ASSUME Shapes, FunctionsOK, LinksOK, NEW name, NEW assigned, Distant(name, assigned),
           UNCHANGED locals, IsSequence(todo), todo # <<>>
    PROVE  LinksOK' /\ UpvaluesFindVariable'
  <1>1. PICK home, slot, N \in Nat : \E r :
               /\ N = Level /\ N = Level' /\ home + 1 <= N
               /\ home = Home(name) /\ slot = ResolveLocal(LocalsOf(home), name)
               /\ slot \in 1 .. Len(LocalsOf(home))
               /\ \E t : /\ todo' = <<t>> \o Tail(todo) /\ t.do \in Accesses
                         /\ t.slot = r[N].index /\ t.name = name
               /\ \A l \in (home + 1) .. N : /\ r[l] = Step(UpvaluesOf(l), home + 1, slot, l, r[l - 1])
                                             /\ UpvaluesOf(l)' = r[l].table
               /\ \A l \in 1 .. home : UpvaluesOf(l)' = UpvaluesOf(l)
               /\ \A l \in 0 .. N - 1 : Kin(LocalsOf(l), LocalsOf(l)')
    BY DistantTables
  <1>2. PICK r :
               /\ N = Level /\ N = Level' /\ home + 1 <= N
               /\ home = Home(name) /\ slot = ResolveLocal(LocalsOf(home), name)
               /\ slot \in 1 .. Len(LocalsOf(home))
               /\ \E t : /\ todo' = <<t>> \o Tail(todo) /\ t.do \in Accesses
                         /\ t.slot = r[N].index /\ t.name = name
               /\ \A l \in (home + 1) .. N : /\ r[l] = Step(UpvaluesOf(l), home + 1, slot, l, r[l - 1])
                                             /\ UpvaluesOf(l)' = r[l].table
               /\ \A l \in 1 .. home : UpvaluesOf(l)' = UpvaluesOf(l)
               /\ \A l \in 0 .. N - 1 : Kin(LocalsOf(l), LocalsOf(l)')
    BY <1>1
  <1>3. PICK us : us = [l \in 1 .. N |-> UpvaluesOf(l)]
    OBVIOUS
  <1>4. PICK vs : vs = [l \in 1 .. N |-> UpvaluesOf(l)']
    OBVIOUS
  <1>5. /\ \A l \in 1 .. N : us[l] = UpvaluesOf(l) /\ vs[l] = UpvaluesOf(l)'
        /\ \A l \in 1 .. N : us[l] \in Seq(Upvalues)
        /\ \A l \in 1 .. N : l > 1 => l - 1 \in 1 .. N
        /\ \A l \in (home + 1) .. N : l \in 1 .. N
        /\ \A l \in 1 .. home : l \in 1 .. N
    <2>1. \A l \in 1 .. N : us[l] = UpvaluesOf(l) /\ vs[l] = UpvaluesOf(l)'
      BY <1>3, <1>4
    <2>2. \A l \in 1 .. N : l \in 0 .. Level
      BY <1>2
    <2>3. \A l \in 1 .. N : UpvaluesOf(l) \in Seq(Upvalues)
      BY <2>2, FunctionFacts
    <2> QED BY <1>2, <2>1, <2>3
  <1>6. Linked(us, N)
    <2>1. \A l \in 1 .. N : \A k \in 1 .. Len(UpvaluesOf(l)) :
              \/ UpvaluesOf(l)[k].isLocal
              \/ l > 1 /\ UpvaluesOf(l)[k].index \in 1 .. Len(UpvaluesOf(l - 1))
      BY <1>2 DEF LinksOK
    <2> QED BY ONLY <1>5, <2>1 DEF Linked
  <1>7. Widened(us, vs, r, home, slot, N)
    <2>1. \A l \in (home + 1) .. N : r[l] = Step(us[l], home + 1, slot, l, r[l - 1])
      BY ONLY <1>2, <1>5
    <2>2. \A l \in (home + 1) .. N : Added(r[l], us[l], home + 1, slot, l, r[l - 1])
      BY ONLY <1>2, <1>5, <2>1, home \in Nat, slot \in Nat, N \in Nat, DistantResolves
    <2> QED BY ONLY <1>2, <1>5, <2>2 DEF Widened
  <1>8. Linked(vs, N)
    BY ONLY <1>2, <1>6, <1>7, home \in Nat, slot \in Nat, N \in Nat, WidenedLinked
  <1>9. LinksOK'
    <2>1. \A l \in 1 .. N : \A k \in 1 .. Len(UpvaluesOf(l)') :
              \/ UpvaluesOf(l)'[k].isLocal
              \/ l > 1 /\ UpvaluesOf(l)'[k].index \in 1 .. Len(UpvaluesOf(l - 1)')
      BY ONLY <1>5, <1>8 DEF Linked
    <2> QED BY ONLY <1>2, <2>1 DEF LinksOK
  <1>10. TablesLinked'
    <2>1. \A l \in 1 .. N : UpvaluesOf(l)' \in Seq(Upvalues)
      BY ONLY <1>5, <1>8 DEF Linked
    <2>2. Level' \in Nat /\ 1 <= Level' /\ \A l \in 1 .. Level' : UpvaluesOf(l)' \in Seq(Upvalues)
      BY ONLY <1>2, <2>1, home \in Nat, N \in Nat
    <2> QED BY ONLY <1>9, <2>2 DEF TablesLinked
  <1>11. PICK f : Leading(f)' /\ \A l, k : Denoted(l, k)' = f[l][k]
    BY ONLY <1>10, DenotedNext
  <1>12. f[N][r[N].index] = <<home, slot>>
    <2>1. \A l \in 1 .. N : \A k \in 1 .. Len(UpvaluesOf(l)') :
              f[l][k] = Found(UpvaluesOf(l)'[k], l, f[l - 1])
      BY ONLY <1>2, <1>11 DEF Leading
    <2>2. Follows(f, vs, N)
      BY ONLY <1>5, <2>1 DEF Follows
    <2>3. Beneath(home, slot, N)
      BY <1>2 DEF Beneath
    <2> QED BY ONLY <1>7, <2>2, <2>3, WidenedLeads
  <1>13. Home(name)' = home
    BY ONLY <1>2, N \in Nat, HomeKept
  <1>14. ResolveLocal(LocalsOf(home)', name) = slot
    <2>1. home \in 0 .. N - 1
      BY <1>2
    <2> QED BY ONLY <1>2, <2>1, KinResolve
  <1>15. PICK t : /\ todo' = <<t>> \o Tail(todo) /\ t.do \in Accesses
                  /\ t.slot = r[N].index /\ t.name = name
    BY <1>2
  <1>16. Task' = t
    <2>1. IsSequence(Tail(todo))
      BY SequenceFacts
    <2> QED BY ONLY <1>15, <2>1, FirstTask DEF Task
  <1>17. Denoted(Level, Task.slot)' = <<home, slot>>
    BY ONLY <1>2, <1>11, <1>12, <1>15, <1>16
  <1> QED
    BY ONLY <1>9, <1>13, <1>14, <1>15, <1>16, <1>17 DEF UpvaluesFindVariable

----------------------------------------------------------------------------
(* Only the next task accesses an upvalue: the access is compiled and      *)
(* emitted before anything else.                                           *)
AccessesNext == \A i \in 2 .. Len(todo) : todo[i].do \notin Accesses

Quiet(ts) == IsSequence(ts) /\ \A i \in 1 .. Len(ts) : ts[i].do \notin Accesses

LEMMA QuietConcat ==
    ASSUME NEW s, NEW t, Quiet(s), Quiet(t)
    PROVE  Quiet(s \o t)
  <1>1. PICK u : u = s \o t
    OBVIOUS
  <1>2. IsSequence(s) /\ IsSequence(t)
    BY DEF Quiet
  <1>3. /\ IsSequence(u) /\ Len(u) = Len(s) + Len(t) /\ \A i \in 1 .. Len(s) : u[i] = s[i]
        /\ \A i \in 1 .. Len(t) : u[Len(s) + i] = t[i]
    BY ONLY <1>1, <1>2, ConcatFacts
  <1>4. PICK m, n \in Nat : m = Len(s) /\ n = Len(t)
    <2>1. Len(s) \in Nat /\ Len(t) \in Nat
      BY ONLY <1>2, SequenceFacts
    <2> QED BY ONLY <2>1
  <1>5. ASSUME NEW i \in 1 .. m + n PROVE u[i].do \notin Accesses
    <2>1. CASE i \in 1 .. m
      BY <1>3, <1>4, <2>1 DEF Quiet
    <2>2. CASE i \notin 1 .. m
      <3>1. i - m \in 1 .. n /\ m + (i - m) = i
        BY <1>4, <2>2
      <3>2. u[m + (i - m)] = t[i - m]
        BY ONLY <1>3, <1>4, <3>1
      <3>3. t[i - m].do \notin Accesses
        BY <1>4, <3>1 DEF Quiet
      <3> QED BY ONLY <3>1, <3>2, <3>3
    <2> QED BY <2>1, <2>2
  <1> QED
    BY ONLY <1>1, <1>3, <1>4, <1>5 DEF Quiet

LEMMA BareIsQuiet ==
    ASSUME NEW ts, Bare(ts)
    PROVE  Quiet(ts)
  BY DEF Bare, Quiet

LEMMA QuietRest ==
    ASSUME IsSequence(todo), todo # <<>>, AccessesNext
    PROVE  Quiet(Tail(todo)) /\ (Task.do \notin Accesses => Quiet(todo))
  <1>1. PICK n \in Nat : n = Len(todo)
    BY SequenceFacts
  <1>2. PICK r : r = Tail(todo)
    OBVIOUS
  <1>3. /\ IsSequence(r) /\ Len(r) = n - 1 /\ Task = todo[1]
        /\ \A i \in 1 .. n - 1 : r[i] = todo[i + 1]
    BY <1>1, <1>2, SequenceFacts DEF Task
  <1>4. \A i \in 1 .. n - 1 : i + 1 \in 2 .. n
    BY <1>1
  <1>5. \A i \in 1 .. n : i = 1 \/ i \in 2 .. n
    BY <1>1
  <1>6. \A i \in 2 .. n : todo[i].do \notin Accesses
    BY <1>1 DEF AccessesNext
  <1>7. Quiet(r)
    BY ONLY <1>3, <1>4, <1>6 DEF Quiet
  <1>8. Task.do \notin Accesses => Quiet(todo)
    BY ONLY <1>1, <1>3, <1>5, <1>6, IsSequence(todo) DEF Quiet
  <1> QED
    BY ONLY <1>2, <1>7, <1>8

LEMMA QuietNext ==
    ASSUME Quiet(todo')
    PROVE  AccessesNext' /\ UpvaluesFindVariable'
  <1>1. Len(todo') \in Nat /\ \A i \in 2 .. Len(todo') : i \in 1 .. Len(todo')
    BY SequenceFacts DEF Quiet
  <1>2. AccessesNext'
    BY <1>1 DEF Quiet, AccessesNext
  <1>3. todo' # <<>> => Head(todo').do \notin Accesses
    <2> SUFFICES ASSUME todo' # <<>> PROVE Head(todo').do \notin Accesses
      OBVIOUS
    <2>1. Head(todo') = todo'[1] /\ Len(todo') > 0 /\ Len(todo') \in Nat
      BY SequenceFacts DEF Quiet
    <2>2. 1 \in 1 .. Len(todo')
      BY <2>1
    <2> QED BY <2>1, <2>2 DEF Quiet
  <1>4. UpvaluesFindVariable'
    BY ONLY <1>3 DEF UpvaluesFindVariable, Task, Accesses
  <1> QED
    BY <1>2, <1>4

LEMMA OnwardQuiet ==
    ASSUME IsSequence(todo), todo # <<>>, AccessesNext, Onward
    PROVE  Quiet(todo')
  <1>1. PICK p, r : /\ Bare(p) /\ todo' = p \o r
                    /\ \/ r = Tail(todo)
                       \/ r = todo /\ TaskIs("statements")
    BY DEF Onward
  <1>2. Quiet(r)
    BY <1>1, QuietRest DEF TaskIs, Accesses
  <1> QED
    BY ONLY <1>1, <1>2, BareIsQuiet, QuietConcat

LEMMA AccessQuiet ==
    ASSUME IsSequence(todo), todo # <<>>, AccessesNext, NEW t, todo' = <<t>> \o Tail(todo)
    PROVE  AccessesNext'
  <1>1. PICK h : h = <<t>>
    OBVIOUS
  <1>2. PICK r : r = Tail(todo)
    OBVIOUS
  <1>3. IsSequence(h) /\ Len(h) = 1
    <2>1. h \in Seq({t}) /\ Len(h) = 1
      BY <1>1
    <2> QED BY <2>1 DEF IsSequence
  <1>4. Quiet(r)
    BY <1>2, QuietRest
  <1>5. PICK u : u = h \o r
    OBVIOUS
  <1>6. Len(u) = 1 + Len(r) /\ \A i \in 1 .. Len(r) : u[1 + i] = r[i]
    <2>1. Len(u) = Len(h) + Len(r) /\ \A i \in 1 .. Len(r) : u[Len(h) + i] = r[i]
      <3>1. IsSequence(h) /\ IsSequence(r)
        BY ONLY <1>3, <1>4 DEF Quiet
      <3> QED BY ONLY <1>5, <3>1, ConcatFacts
    <2> QED BY ONLY <1>3, <2>1, Zenon
  <1>7. Len(r) \in Nat
    BY <1>4, SequenceFacts DEF Quiet
  <1>8. ASSUME NEW i \in 2 .. Len(u) PROVE u[i].do \notin Accesses
    <2>1. i - 1 \in 1 .. Len(r) /\ 1 + (i - 1) = i
      BY ONLY <1>6, <1>7, i \in 2 .. Len(u)
    <2>2. u[1 + (i - 1)] = r[i - 1] /\ r[i - 1].do \notin Accesses
      BY ONLY <1>4, <1>6, <2>1 DEF Quiet
    <2> QED BY ONLY <2>1, <2>2
  <1>9. todo' = u
    BY ONLY <1>1, <1>2, <1>5, todo' = <<t>> \o Tail(todo), Zenon
  <1> QED
    BY ONLY <1>8, <1>9 DEF AccessesNext

LEMMA LinksKept ==
    ASSUME LinksOK, NEW M \in Nat, Level \in Nat, M <= Level,
           \A i \in 1 .. M : UpvaluesOf(i)' = UpvaluesOf(i),
           \/ Level' = M
           \/ Level' = M + 1 /\ UpvaluesOf(M + 1)' = <<>>
    PROVE  LinksOK'
  <1>1. \A i \in 1 .. M : i \in 1 .. Level /\ (i > 1 => i - 1 \in 1 .. M)
    OBVIOUS
  <1>2. ASSUME NEW l \in 1 .. M, NEW k \in 1 .. Len(UpvaluesOf(l)')
        PROVE  \/ UpvaluesOf(l)'[k].isLocal
               \/ l > 1 /\ UpvaluesOf(l)'[k].index \in 1 .. Len(UpvaluesOf(l - 1)')
    <2>1. UpvaluesOf(l)' = UpvaluesOf(l) /\ (l > 1 => UpvaluesOf(l - 1)' = UpvaluesOf(l - 1))
      BY <1>1
    <2>2. \/ UpvaluesOf(l)[k].isLocal
          \/ l > 1 /\ UpvaluesOf(l)[k].index \in 1 .. Len(UpvaluesOf(l - 1))
      BY <1>1, <2>1 DEF LinksOK
    <2> QED BY ONLY <2>1, <2>2
  <1>3. \A k \in 1 .. Len(<<>>) : FALSE
    OBVIOUS
  <1>4. CASE Level' = M
    BY ONLY <1>2, <1>4 DEF LinksOK
  <1>5. CASE Level' = M + 1 /\ UpvaluesOf(M + 1)' = <<>>
    <2>1. \A l \in 1 .. M + 1 : l = M + 1 \/ l \in 1 .. M
      OBVIOUS
    <2>2. \A k \in 1 .. Len(UpvaluesOf(M + 1)') : FALSE
      BY ONLY <1>3, <1>5
    <2> QED BY ONLY <1>2, <1>5, <2>1, <2>2 DEF LinksOK
  <1> QED
    BY <1>4, <1>5

LEMMA SameLinks ==
    ASSUME LinksOK, UNCHANGED <<outer, upvalues>>
    PROVE  LinksOK'
  BY DEF LinksOK, UpvaluesOf, Level

LEMMA EnterFunctionFinds ==
    ASSUME IInv, LinksOK, AccessesNext, CompileFn \/ CompileLambda
    PROVE  LinksOK' /\ AccessesNext' /\ UpvaluesFindVariable'
  <1>1. Shapes /\ FunctionsOK /\ Ready
    BY DEF IInv
  <1>2. IsSequence(todo) /\ todo # <<>>
    BY <1>1 DEF Ready, Annotated, Typed, CompileFn, CompileLambda, TaskIs
  <1>3. PICK rest : EnterFunction(rest) /\ Quiet(rest)
    <2>1. CASE CompileLambda
      BY <1>2, <2>1, QuietRest DEF CompileLambda
    <2>2. CASE CompileFn
      <3>1. PICK t : /\ EnterFunction(<<t>> \o todo) /\ t.do \in {"declareFn", "emit"}
                     /\ TaskIs("statements")
        BY <2>2, InstructionKindsAre DEF CompileFn
      <3>2. Quiet(todo)
        BY <1>2, <3>1, QuietRest DEF TaskIs, Accesses
      <3>3. Quiet(<<t>>)
        BY <3>1, BareOne, BareIsQuiet DEF Accesses
      <3> QED BY <3>1, <3>2, <3>3, QuietConcat
    <2> QED BY <2>1, <2>2
  <1>4. PICK saved : saved = [locals |-> locals, upvalues |-> upvalues, depth |-> depth,
                              point |-> point, open |-> open]
    OBVIOUS
  <1>5. /\ todo' = <<Statements, Load, Do("return"), Do("leaveFunction")>> \o rest
        /\ outer' = Append(outer, saved) /\ upvalues' = <<>>
    BY <1>3, <1>4 DEF EnterFunction
  <1>6. Quiet(todo')
    <2>1. PICK a, b, c, d : a = Statements /\ b = Load /\ c = Do("return") /\ d = Do("leaveFunction")
      OBVIOUS
    <2>2. {a.do, b.do, c.do, d.do} \cap Accesses = {}
      BY <2>1, TaskKindsAre, InstructionKindsAre DEF Accesses
    <2>3. PICK ts : ts = <<a, b, c, d>>
      OBVIOUS
    <2>4. ts \in Seq({a, b, c, d})
      BY <2>3
    <2>5. Quiet(ts)
      <3>1. IsSequence(ts) /\ \A i \in 1 .. Len(ts) : ts[i] \in {a, b, c, d}
        BY ONLY <2>4 DEF IsSequence
      <3> QED BY ONLY <2>2, <3>1 DEF Quiet
    <2> QED BY ONLY <1>3, <1>5, <2>1, <2>3, <2>5, QuietConcat
  <1>7. PICK N \in Nat : N = Level /\ N = Len(outer)
    BY <1>1, FunctionFacts
  <1>8. /\ Len(outer') = N + 1 /\ outer'[N + 1] = saved
        /\ \A i \in 1 .. N : outer'[i] = outer[i]
    BY <1>1, <1>5, <1>7, AppendFacts DEF Shapes
  <1>9. Level' = N + 1 /\ saved.upvalues = upvalues
    BY <1>4, <1>8 DEF Level
  <1>10. UpvaluesOf(N + 1)' = <<>>
    BY <1>5, <1>9 DEF UpvaluesOf
  <1>11. ASSUME NEW i \in 1 .. N PROVE UpvaluesOf(i)' = UpvaluesOf(i)
    <2>1. i # Level' /\ (i # N => i + 1 \in 1 .. N)
      BY <1>9
    <2>2. UpvaluesOf(i)' = outer'[i + 1].upvalues
      BY <2>1 DEF UpvaluesOf
    <2> QED BY <1>7, <1>8, <1>9, <2>1, <2>2 DEF UpvaluesOf
  <1>12. LinksOK'
    BY ONLY <1>7, <1>9, <1>10, <1>11, N \in Nat, LinksOK, LinksKept
  <1> QED
    BY <1>6, <1>12, QuietNext

LEMMA LeaveFunctionFinds ==
    ASSUME IInv, LinksOK, AccessesNext, LeaveFunction
    PROVE  LinksOK' /\ AccessesNext' /\ UpvaluesFindVariable'
  <1>1. Shapes /\ FunctionsOK /\ Ready
    BY DEF IInv
  <1>2. IsSequence(todo) /\ todo # <<>> /\ Task.do = "leaveFunction"
    BY <1>1 DEF Ready, Annotated, Typed, LeaveFunction, TaskIs
  <1>3. PICK N \in Nat : N = Level /\ N = Len(outer)
    BY <1>1, FunctionFacts
  <1>4. N > 0
    <2>1. PICK a, b \in Contexts : Fits(a) /\ Leads(Names, Task, a, b)
      BY <1>1, <1>2, Begin DEF Ready
    <2>2. a.saved = Append(b.saved, b.depth)
      BY <1>2, <2>1 DEF Leads, Plain, Composite
    <2>3. b.saved \in Seq(Nat) /\ b.depth \in Nat
      BY <2>1, ContextFields
    <2>4. Len(a.saved) > 0
      BY <2>2, <2>3
    <2> QED BY <1>3, <2>1, <2>4 DEF Fits
  <1>5. PICK m \in Nat : N = m + 1
    <2>1. N - 1 \in Nat /\ N = (N - 1) + 1
      BY <1>4
    <2> QED BY <2>1
  <1>6. upvalues' = outer[N].upvalues /\ outer' = Drop(outer, 1) /\ todo' = Tail(todo)
    BY <1>3 DEF LeaveFunction
  <1>7. Len(outer') = m /\ \A i \in 1 .. m : outer'[i] = outer[i]
    <2>1. 1 \in 0 .. Len(outer) /\ Len(outer) - 1 = m
      BY <1>3, <1>5
    <2> QED BY <1>1, <1>6, <2>1, DropFacts DEF Shapes
  <1>8. Level' = m
    BY <1>7 DEF Level
  <1>9. ASSUME NEW i \in 1 .. m PROVE UpvaluesOf(i)' = UpvaluesOf(i)
    <2>1. i # N /\ UpvaluesOf(i) = outer[i + 1].upvalues
      BY <1>3, <1>5 DEF UpvaluesOf
    <2>2. CASE i = m
      BY <1>5, <1>6, <1>8, <2>1, <2>2 DEF UpvaluesOf
    <2>3. CASE i # m
      <3>1. i + 1 \in 1 .. m
        BY <2>3
      <3> QED BY <1>7, <1>8, <2>1, <2>3, <3>1 DEF UpvaluesOf
    <2> QED BY <2>2, <2>3
  <1>10. LinksOK'
    <2>1. m <= Level /\ Level \in Nat
      BY <1>3, <1>5
    <2> QED BY ONLY <1>8, <1>9, <2>1, m \in Nat, LinksOK, LinksKept
  <1>11. Quiet(todo')
    BY <1>2, <1>6, QuietRest
  <1> QED
    BY <1>10, <1>11, QuietNext

LEMMA PlainKeepsOuter ==
    ASSUME PlainStep
    PROVE  outer' = outer
  BY Zenon DEF PlainStep, Statement, Compound, CompileJump,
     CompileExprStmt, CompileLet, CompileBlock, CompileIf, CompileWhile, CompileFor,
     CompileForLoop, PushLoop, CompileReturn, CompileFree, CompileBreak, CompileContinue,
     EndStatements, DeclareFunction, CompileLiteral, CompileUnary, CompileBinary, CompileAnd,
     CompileOr, CompilePrint, CompileCall, CompileIndex, CompileField, CompileArray, CompileNew,
     CompileAssign, CompileMatch, Match, GetMatch, EmitInstruction, EmitExit, EmitJump, PatchJump,
     EmitBreak, EndLoop, BeginScope, DeclareLocal, MarkInitialized

LEMMA PlainOnward ==
    ASSUME IsSequence(todo), MaxArgs \in Nat, PlainStep \/ EndScope
    PROVE  Onward /\ todo # <<>> /\ Task.do # "leaveFunction"
  <1>1. CASE CompileExprStmt \/ CompileLet \/ CompileWhile \/ CompileFor \/ CompileReturn
             \/ CompileFree \/ CompileBreak \/ CompileContinue
    BY <1>1, OnwardStatements
  <1>2. CASE CompileBlock \/ CompileIf
    BY <1>2, OnwardBlock
  <1>3. CASE \/ CompileUnary \/ CompileBinary \/ CompileAnd \/ CompileOr \/ CompileIndex
             \/ CompileField \/ CompileAssign
             \/ CompilePrint \/ CompileCall \/ CompileArray \/ CompileNew \/ CompileMatch
    BY <1>3, OnwardExpressions
  <1>4. CASE \/ CompileForLoop \/ PushLoop \/ EndStatements \/ DeclareFunction \/ CompileLiteral
             \/ GetMatch \/ EmitInstruction \/ EmitExit \/ EmitJump \/ PatchJump \/ EmitBreak
             \/ EndLoop \/ BeginScope \/ DeclareLocal \/ MarkInitialized \/ EndScope
    BY <1>4, OnwardInstructions
  <1> QED
    BY <1>1, <1>2, <1>3, <1>4 DEF PlainStep

LEMMA NextFinds ==
    ASSUME IInv, LinksOK, AccessesNext, CompileStep
    PROVE  LinksOK' /\ AccessesNext' /\ UpvaluesFindVariable'
  <1>1. Shapes /\ FunctionsOK /\ Ready /\ IsSequence(todo) /\ MaxArgs \in Nat
    BY LanguageFacts DEF IInv, Ready, Annotated, Typed
  <1>2. CASE (PlainStep /\ UNCHANGED <<upvalues, open>>) \/ EndScope
    <2>1. outer' = outer /\ upvalues' = upvalues
      BY <1>2, PlainKeepsOuter DEF EndScope
    <2>2. Onward /\ todo # <<>>
      BY <1>1, <1>2, PlainOnward
    <2>3. Quiet(todo')
      BY <1>1, <2>2, OnwardQuiet
    <2> QED BY <2>1, <2>3, QuietNext, SameLinks
  <1>3. CASE CompileFn \/ CompileLambda
    BY <1>3, EnterFunctionFinds
  <1>4. CASE LeaveFunction
    BY <1>4, LeaveFunctionFinds
  <1>5. CASE CompileIdentifier \/ AssignName
    <2>1. /\ todo # <<>> /\ UNCHANGED <<locals, depth, open>>
          /\ \E name, assigned : Nearby(name, assigned) \/ Distant(name, assigned)
      BY <1>5, AccessIs
    <2>2. PICK name, assigned : Nearby(name, assigned) \/ Distant(name, assigned)
      BY <2>1
    <2>3. CASE Nearby(name, assigned)
      <3>1. UNCHANGED <<outer, upvalues>>
        BY <2>3 DEF Nearby
      <3>2. Quiet(todo')
        BY <1>1, <2>1, <2>3, OnwardNearby, OnwardQuiet
      <3> QED BY <3>1, <3>2, QuietNext, SameLinks
    <2>4. CASE Distant(name, assigned)
      <3>1. LinksOK' /\ UpvaluesFindVariable'
        BY <1>1, <2>1, <2>4, DistantFinds
      <3>2. PICK t : todo' = <<t>> \o Tail(todo)
        BY <2>4 DEF Distant
      <3>3. AccessesNext'
        BY <1>1, <2>1, <3>2, AccessQuiet
      <3> QED BY <3>1, <3>3
    <2> QED BY <2>2, <2>3, <2>4
  <1> QED
    BY <1>2, <1>3, <1>4, <1>5 DEF CompileStep, ClosureStep

Linking == LinksOK /\ AccessesNext /\ UpvaluesFindVariable

LEMMA InitLinks ==
    ASSUME Init
    PROVE  Linking
  <1>1. outer = <<>> /\ todo = <<Statements>>
    BY DEF Init
  <1>2. Level = 0 /\ Len(todo) = 1 /\ Task.do = "statements"
    BY <1>1, TaskKindsAre DEF Level, Task
  <1>3. LinksOK
    BY <1>2 DEF LinksOK
  <1>4. AccessesNext
    BY <1>2 DEF AccessesNext
  <1>5. UpvaluesFindVariable
    BY <1>2 DEF UpvaluesFindVariable
  <1> QED
    BY <1>3, <1>4, <1>5 DEF Linking

(* What upvalues lead to depends on the tables and on nothing else.        *)
DenotedIn(us, N, l, k) ==
    LET found[m \in 1..N] ==
            [i \in DOMAIN us[m] |->
                LET u == us[m][i]
                IN IF u.isLocal THEN <<m - 1, u.index>> ELSE found[m - 1][u.index]]
    IN found[l][k]

LEMMA DenotedTables ==
    \A us : (\A m \in 1 .. Level : us[m] = UpvaluesOf(m))
             => \A l, k : Denoted(l, k) = DenotedIn(us, Level, l, k)
  <1> SUFFICES ASSUME NEW us, \A m \in 1 .. Level : us[m] = UpvaluesOf(m), NEW l, NEW k
               PROVE  Denoted(l, k) = DenotedIn(us, Level, l, k)
    OBVIOUS
  <1>1. ASSUME NEW found
        PROVE  [m \in 1 .. Level |->
                   [i \in DOMAIN UpvaluesOf(m) |->
                       LET u == UpvaluesOf(m)[i]
                       IN IF u.isLocal THEN <<m - 1, u.index>> ELSE found[m - 1][u.index]]]
               = [m \in 1 .. Level |->
                   [i \in DOMAIN us[m] |->
                       LET u == us[m][i]
                       IN IF u.isLocal THEN <<m - 1, u.index>> ELSE found[m - 1][u.index]]]
    <2>1. PICK F : F = [m \in 1 .. Level |->
                   [i \in DOMAIN UpvaluesOf(m) |->
                       LET u == UpvaluesOf(m)[i]
                       IN IF u.isLocal THEN <<m - 1, u.index>> ELSE found[m - 1][u.index]]]
      OBVIOUS
    <2>2. PICK G : G = [m \in 1 .. Level |->
                   [i \in DOMAIN us[m] |->
                       LET u == us[m][i]
                       IN IF u.isLocal THEN <<m - 1, u.index>> ELSE found[m - 1][u.index]]]
      OBVIOUS
    <2>3. ASSUME NEW m \in 1 .. Level PROVE F[m] = G[m]
      <3>1. us[m] = UpvaluesOf(m)
        OBVIOUS
      <3>2. F[m] = [i \in DOMAIN UpvaluesOf(m) |->
                       LET u == UpvaluesOf(m)[i]
                       IN IF u.isLocal THEN <<m - 1, u.index>> ELSE found[m - 1][u.index]]
        BY ONLY <2>1, m \in 1 .. Level, Zenon
      <3>3. G[m] = [i \in DOMAIN us[m] |->
                       LET u == us[m][i]
                       IN IF u.isLocal THEN <<m - 1, u.index>> ELSE found[m - 1][u.index]]
        BY ONLY <2>2, m \in 1 .. Level, Zenon
      <3> QED BY ONLY <3>1, <3>2, <3>3, Zenon
    <2>4. /\ F = [m \in 1 .. Level |-> F[m]] /\ G = [m \in 1 .. Level |-> G[m]]
      BY ONLY <2>1, <2>2
    <2>5. F = G
      BY ONLY <2>3, <2>4
    <2> QED BY ONLY <2>1, <2>2, <2>5, Zenon
  <1> DEFINE one[m \in 1 .. Level] ==
                   [i \in DOMAIN UpvaluesOf(m) |->
                       LET u == UpvaluesOf(m)[i]
                       IN IF u.isLocal THEN <<m - 1, u.index>> ELSE one[m - 1][u.index]]
  <1> DEFINE other[m \in 1 .. Level] ==
                   [i \in DOMAIN us[m] |->
                       LET u == us[m][i]
                       IN IF u.isLocal THEN <<m - 1, u.index>> ELSE other[m - 1][u.index]]
  <1>2. one = other
    BY ONLY <1>1, Zenon
  <1>3. Denoted(l, k) = one[l][k]
    BY ONLY Zenon DEF Denoted
  <1>4. DenotedIn(us, Level, l, k) = other[l][k]
    BY ONLY Zenon DEF DenotedIn
  <1> HIDE DEF one, other
  <1> QED
    BY ONLY <1>2, <1>3, <1>4, Zenon

LEMMA DenotedTablesNext ==
    (\A us : (\A m \in 1 .. Level : us[m] = UpvaluesOf(m))
              => \A l, k : Denoted(l, k) = DenotedIn(us, Level, l, k))'
  BY DenotedTables, PTL

LEMMA StutterLinks ==
    ASSUME IInv, Linking, UNCHANGED vars
    PROVE  Linking'
  <1>1. Level' = Level /\ (\A l : UpvaluesOf(l)' = UpvaluesOf(l) /\ LocalsOf(l)' = LocalsOf(l))
    BY DEF vars, Level, UpvaluesOf, LocalsOf
  <1>2. todo' = todo /\ Task' = Task
    BY DEF vars, Task
  <1>3. LinksOK' /\ AccessesNext'
    BY <1>2, SameLinks DEF Linking, vars, AccessesNext
  <1>4. PICK us : us = [m \in 1 .. Level |-> UpvaluesOf(m)]
    OBVIOUS
  <1>5. \A m \in 1 .. Level : us[m] = UpvaluesOf(m)
    BY <1>4
  <1>6. \A l, k : Denoted(l, k) = DenotedIn(us, Level, l, k)
    BY ONLY <1>5, DenotedTables
  <1>7. \A l, k : Denoted(l, k)' = DenotedIn(us, Level', l, k)
    <2>1. \A m \in 1 .. Level' : us[m] = UpvaluesOf(m)'
      BY ONLY <1>1, <1>5
    <2> QED BY ONLY <2>1, DenotedTablesNext
  <1>8. \A l, k : Denoted(l, k)' = Denoted(l, k)
    BY ONLY <1>1, <1>6, <1>7, Zenon
  <1>9. \A name : Home(name)' = Home(name)
    <2>1. Level \in Nat
      BY FunctionFacts DEF IInv
    <2>2. \A l : Kin(LocalsOf(l), LocalsOf(l)')
      BY <1>1 DEF Kin
    <2> QED BY <1>1, <2>1, <2>2, HomeKept
  <1>10. Denoted(Level, Task.slot)' = Denoted(Level, Task.slot)
    BY ONLY <1>1, <1>2, <1>8
  <1>11. UpvaluesFindVariable'
    BY ONLY <1>1, <1>2, <1>9, <1>10, Linking DEF Linking, UpvaluesFindVariable
  <1> QED
    BY <1>3, <1>11 DEF Linking

LEMMA Links == Spec => []Linking
  <1>1. Init => Linking
    BY InitLinks
  <1>2. IInv /\ Linking /\ [Next]_vars => Linking'
    <2>1. Next => CompileStep
      BY DEF Next
    <2> QED BY <2>1, NextFinds, StutterLinks DEF Linking
  <1> QED
    BY <1>1, <1>2, Invariant, PTL DEF Spec

(* Whatever program is compiled, regular or not: an instruction that reads *)
(* or writes an upvalue reaches, through the upvalue tables of all the     *)
(* functions between, the innermost variable of that name, in the function *)
(* that declares it and in the slot of its number.                         *)
THEOREM UpvaluesAreFound == Spec => []UpvaluesFindVariable
  <1>1. Linking => UpvaluesFindVariable
    BY DEF Linking
  <1> QED
    BY <1>1, Links, PTL

----------------------------------------------------------------------------
(* Captures before the variable has its value.  The function that makes    *)
(* one ends in a closure that becomes this value: counted from the         *)
(* innermost function, it is the n-th to end.                              *)
Leaves(s, i) == {j \in 1 .. i : s[j].do = "leaveFunction"}
Awaited(s, n) ==
    \E i \in 1 .. Len(s) : /\ s[i].do = "leaveFunction" /\ Cardinality(Leaves(s, i)) = n
                           /\ i < Len(s) => s[i + 1].do = "mark"
Spares(ts) == IsSequence(ts) /\ \A i \in 1 .. Len(ts) : ts[i].do # "leaveFunction"

LEMMA LeavesFinite ==
    ASSUME NEW s, NEW i \in Nat
    PROVE  IsFiniteSet(Leaves(s, i)) /\ Cardinality(Leaves(s, i)) \in Nat
  <1>1. IsFiniteSet(1 .. i)
    BY FS_Interval
  <1>2. Leaves(s, i) \in SUBSET (1 .. i)
    BY DEF Leaves
  <1> QED
    BY <1>1, <1>2, FS_Subset, FS_CardinalityType

LEMMA ShiftedCount ==
    ASSUME NEW a \in Nat, NEW S \in SUBSET Nat, IsFiniteSet(S), NEW T, T = {a + j : j \in S}
    PROVE  IsFiniteSet(T) /\ Cardinality(T) = Cardinality(S)
  <1>1. PICK f : f = [j \in S |-> a + j]
    OBVIOUS
  <1>2. f \in [S -> T]
    BY <1>1
  <1>3. \A x, y \in S : f[x] = f[y] => x = y
    <2>1. \A x \in S : f[x] = a + x /\ x \in Nat
      BY <1>1
    <2> QED BY ONLY <2>1, a \in Nat
  <1>4. \A t \in T : \E x \in S : f[x] = t
    BY <1>1
  <1>5. f \in Bijection(S, T)
    BY ONLY <1>2, <1>3, <1>4, Fun_IsBij
  <1>6. ExistsBijection(S, T)
    BY ONLY <1>5, Fun_ExistsBij
  <1> QED
    BY ONLY <1>6, IsFiniteSet(S), FS_Bijection

(* A task that is taken off the list, and its part in the count.           *)
LEMMA LeavesRest ==
    ASSUME NEW s, IsSequence(s), s # <<>>, NEW i \in Nat, i + 1 <= Len(s)
    PROVE  Cardinality(Leaves(s, i + 1))
               = Cardinality(Leaves(Tail(s), i)) + IF s[1].do = "leaveFunction" THEN 1 ELSE 0
  <1>1. PICK r : r = Tail(s)
    OBVIOUS
  <1>2. /\ Len(s) \in Nat /\ Len(r) = Len(s) - 1
        /\ \A k \in 1 .. Len(s) - 1 : r[k] = s[k + 1]
    BY <1>1, SequenceFacts
  <1>3. PICK S : S = Leaves(r, i)
    OBVIOUS
  <1>4. PICK T : T = {1 + j : j \in S}
    OBVIOUS
  <1>5. S \in SUBSET (1 .. i)
    BY <1>3 DEF Leaves
  <1>6. IsFiniteSet(S) /\ Cardinality(S) \in Nat
    BY <1>3, LeavesFinite
  <1>7. IsFiniteSet(T) /\ Cardinality(T) = Cardinality(S)
    <2>1. PICK a \in Nat : a = 1
      OBVIOUS
    <2>2. S \in SUBSET Nat /\ T = {a + j : j \in S}
      BY <1>4, <1>5, <2>1
    <2> QED BY ONLY <1>6, <2>2, a \in Nat, ShiftedCount
  <1>8. \A j \in 1 .. i : s[1 + j] = r[j]
    BY <1>2
  <1>9. Leaves(s, i + 1) = T \cup (IF s[1].do = "leaveFunction" THEN {1} ELSE {})
    <2>1. ASSUME NEW k \in Leaves(s, i + 1)
          PROVE  k \in T \cup (IF s[1].do = "leaveFunction" THEN {1} ELSE {})
      <3>1. k \in 1 .. i + 1 /\ s[k].do = "leaveFunction"
        BY DEF Leaves
      <3>2. CASE k = 1
        BY <3>1, <3>2
      <3>3. CASE k # 1
        <4>1. PICK j \in 1 .. i : k = 1 + j
          <5>1. k - 1 \in 1 .. i /\ k = 1 + (k - 1)
            BY <3>1, <3>3
          <5> QED BY <5>1
        <4>2. r[j].do = "leaveFunction"
          BY ONLY <1>8, <3>1, <4>1
        <4>3. j \in S
          BY ONLY <1>3, <4>1, <4>2 DEF Leaves
        <4> QED BY ONLY <1>4, <4>1, <4>3
      <3> QED BY <3>2, <3>3
    <2>2. ASSUME NEW k \in T
          PROVE  k \in Leaves(s, i + 1)
      <3>1. PICK j \in S : k = 1 + j
        BY <1>4
      <3>2. j \in 1 .. i /\ r[j].do = "leaveFunction"
        BY <1>3, <3>1 DEF Leaves
      <3>3. s[k].do = "leaveFunction"
        BY ONLY <1>8, <3>1, <3>2
      <3>4. k \in 1 .. i + 1
        BY <3>1, <3>2
      <3> QED BY ONLY <3>3, <3>4 DEF Leaves
    <2>3. ASSUME NEW k \in (IF s[1].do = "leaveFunction" THEN {1} ELSE {})
          PROVE  k \in Leaves(s, i + 1)
      <3>1. k = 1 /\ s[1].do = "leaveFunction" /\ 1 \in 1 .. i + 1
        BY <2>3
      <3> QED BY ONLY <3>1 DEF Leaves
    <2> QED BY ONLY <2>1, <2>2, <2>3
  <1>10. 1 \notin T
    BY <1>4, <1>5
  <1>11. CASE s[1].do = "leaveFunction"
    <2>1. Leaves(s, i + 1) = T \cup {1}
      BY ONLY <1>9, <1>11
    <2>2. Cardinality(T \cup {1}) = Cardinality(T) + 1
      BY ONLY <1>7, <1>10, FS_AddElement
    <2> QED BY ONLY <1>1, <1>3, <1>7, <1>11, <2>1, <2>2
  <1>12. CASE s[1].do # "leaveFunction"
    <2>1. Leaves(s, i + 1) = T
      BY ONLY <1>9, <1>12
    <2>2. Cardinality(Leaves(s, i + 1)) = Cardinality(Leaves(r, i)) + 0
      BY ONLY <1>3, <1>6, <1>7, <2>1
    <2> QED BY ONLY <1>1, <1>12, <2>2
  <1> QED
    BY <1>11, <1>12

LEMMA AwaitedRest ==
    ASSUME NEW s, IsSequence(s), s # <<>>, NEW n \in Nat,
           \/ s[1].do # "leaveFunction" /\ Awaited(s, n)
           \/ s[1].do = "leaveFunction" /\ n > 0 /\ Awaited(s, n + 1)
    PROVE  Awaited(Tail(s), n)
  <1>1. PICK r, x : r = Tail(s) /\ x = (IF s[1].do = "leaveFunction" THEN 1 ELSE 0)
    OBVIOUS
  <1>2. /\ Len(s) \in Nat /\ Len(r) = Len(s) - 1
        /\ \A k \in 1 .. Len(s) - 1 : r[k] = s[k + 1]
    BY <1>1, SequenceFacts
  <1>3. x \in {0, 1} /\ (x = 1 => n > 0) /\ (x = 0 => s[1].do # "leaveFunction")
    BY <1>1
  <1>4. PICK i \in 1 .. Len(s) :
               /\ s[i].do = "leaveFunction" /\ Cardinality(Leaves(s, i)) = n + x
               /\ i < Len(s) => s[i + 1].do = "mark"
    <2>1. Awaited(s, n + x)
      <3>1. n + 0 = n
        OBVIOUS
      <3> QED BY ONLY <1>1, <3>1, \/ s[1].do # "leaveFunction" /\ Awaited(s, n)
                                  \/ s[1].do = "leaveFunction" /\ n > 0 /\ Awaited(s, n + 1)
    <2> QED BY ONLY <2>1 DEF Awaited
  <1>5. PICK j \in Nat : i = j + 1
    <2>1. i - 1 \in Nat /\ i = (i - 1) + 1
      BY <1>2
    <2> QED BY <2>1
  <1>6. Cardinality(Leaves(s, j + 1)) = Cardinality(Leaves(r, j)) + x
    <2>1. j + 1 <= Len(s)
      BY <1>2, <1>5
    <2> QED BY ONLY <1>1, <2>1, IsSequence(s), s # <<>>, j \in Nat, LeavesRest
  <1>7. Cardinality(Leaves(r, j)) = n
    <2>1. Cardinality(Leaves(r, j)) \in Nat
      BY LeavesFinite
    <2> QED BY ONLY <1>3, <1>4, <1>5, <1>6, <2>1, n \in Nat
  <1>8. j # 0
    <2> SUFFICES ASSUME j = 0 PROVE FALSE
      OBVIOUS
    <2>1. Leaves(r, j) = {}
      BY DEF Leaves
    <2>2. n = 0
      BY ONLY <1>7, <2>1, FS_EmptySet
    <2>3. i = 1
      BY <1>5
    <2> QED BY ONLY <1>3, <1>4, <2>2, <2>3
  <1>9. j \in 1 .. Len(r) /\ r[j] = s[i] /\ (j < Len(r) => i < Len(s) /\ r[j + 1] = s[i + 1])
    BY <1>2, <1>5, <1>8
  <1>10. Awaited(r, n)
    BY ONLY <1>4, <1>7, <1>9 DEF Awaited
  <1> QED
    BY ONLY <1>1, <1>10

(* Tasks that are put before the list.                                     *)
LEMMA AwaitedBehind ==
    ASSUME NEW p, NEW r, Spares(p), IsSequence(r), NEW n, Awaited(r, n)
    PROVE  Awaited(p \o r, n)
  <1>1. PICK u : u = p \o r
    OBVIOUS
  <1>2. /\ Len(u) = Len(p) + Len(r)
        /\ \A k \in 1 .. Len(p) : u[k] = p[k]
        /\ \A k \in 1 .. Len(r) : u[Len(p) + k] = r[k]
    BY ONLY <1>1, Spares(p), IsSequence(r), ConcatFacts DEF Spares
  <1>3. Len(p) \in Nat /\ Len(r) \in Nat
    BY SequenceFacts DEF Spares
  <1>4. PICK i \in 1 .. Len(r) :
               /\ r[i].do = "leaveFunction" /\ Cardinality(Leaves(r, i)) = n
               /\ i < Len(r) => r[i + 1].do = "mark"
    BY DEF Awaited
  <1>5. PICK a \in Nat : a = Len(p)
    BY <1>3
  <1>6. Leaves(u, a + i) = {a + j : j \in Leaves(r, i)}
    <2>1. ASSUME NEW k \in Leaves(u, a + i)
          PROVE  \E j \in Leaves(r, i) : k = a + j
      <3>1. k \in 1 .. a + i /\ u[k].do = "leaveFunction"
        BY DEF Leaves
      <3>2. k \notin 1 .. a
        BY <1>2, <1>5, <3>1 DEF Spares
      <3>3. k - a \in 1 .. i /\ k = a + (k - a) /\ k - a \in 1 .. Len(r)
        BY <1>3, <3>1, <3>2
      <3>4. r[k - a].do = "leaveFunction"
        BY ONLY <1>2, <1>5, <3>1, <3>3
      <3> QED BY ONLY <3>3, <3>4 DEF Leaves
    <2>2. ASSUME NEW j \in Leaves(r, i)
          PROVE  a + j \in Leaves(u, a + i)
      <3>1. j \in 1 .. i /\ r[j].do = "leaveFunction"
        BY DEF Leaves
      <3>2. j \in 1 .. Len(r) /\ a + j \in 1 .. a + i
        BY <1>3, <3>1
      <3>3. u[a + j] = r[j]
        BY ONLY <1>2, <1>5, <3>2
      <3> QED BY ONLY <3>1, <3>2, <3>3 DEF Leaves
    <2> QED BY ONLY <2>1, <2>2
  <1>7. Cardinality(Leaves(u, a + i)) = n
    <2>1. i \in Nat
      BY <1>3
    <2>2. IsFiniteSet(Leaves(r, i))
      BY ONLY <2>1, LeavesFinite
    <2>3. Leaves(r, i) \in SUBSET Nat
      BY DEF Leaves
    <2>4. Cardinality(Leaves(u, a + i)) = Cardinality(Leaves(r, i))
      BY ONLY <1>6, <2>2, <2>3, a \in Nat, ShiftedCount
    <2> QED BY ONLY <1>4, <2>4
  <1>8. /\ a + i \in 1 .. Len(u) /\ u[a + i] = r[i]
        /\ a + i < Len(u) => i < Len(r) /\ u[(a + i) + 1] = r[i + 1]
    <2>1. i < Len(r) => i + 1 \in 1 .. Len(r) /\ (a + i) + 1 = a + (i + 1)
      BY <1>3
    <2>2. a + i \in 1 .. Len(u) /\ (a + i < Len(u) => i < Len(r))
      BY <1>2, <1>3, <1>5
    <2> QED BY ONLY <1>2, <1>5, <2>1, <2>2, i \in 1 .. Len(r)
  <1>9. Awaited(u, n)
    BY ONLY <1>4, <1>7, <1>8 DEF Awaited
  <1> QED
    BY ONLY <1>1, <1>9

LEMMA AwaitedAfter ==
    ASSUME NEW t, t.do = "leaveFunction", NEW r, IsSequence(r), NEW n, Awaited(r, n)
    PROVE  Awaited(<<t>> \o r, n + 1)
  <1>1. PICK u, h : u = h \o r /\ h = <<t>>
    OBVIOUS
  <1>2. IsSequence(h) /\ Len(h) = 1 /\ h[1] = t
    <2>1. h \in Seq({t}) /\ Len(h) = 1 /\ h[1] = t
      BY <1>1
    <2> QED BY <2>1 DEF IsSequence
  <1>3. /\ IsSequence(u) /\ Len(u) = 1 + Len(r) /\ u[1] = t
        /\ \A k \in 1 .. Len(r) : u[1 + k] = r[k]
    <2>1. /\ IsSequence(u) /\ Len(u) = Len(h) + Len(r)
          /\ \A k \in 1 .. Len(h) : u[k] = h[k]
          /\ \A k \in 1 .. Len(r) : u[Len(h) + k] = r[k]
      BY ONLY <1>1, <1>2, IsSequence(r), ConcatFacts
    <2>2. 1 \in 1 .. 1
      OBVIOUS
    <2> QED BY ONLY <1>2, <2>1, <2>2
  <1>4. Len(r) \in Nat
    BY SequenceFacts
  <1>5. u # <<>> /\ Tail(u) = r
    <2>1. PICK T : r \in Seq(T)
      BY DEF IsSequence
    <2>2. h \in Seq({t} \cup T) /\ r \in Seq({t} \cup T)
      BY <1>1, <2>1
    <2> QED BY ONLY <1>1, <2>1, <2>2
  <1>6. PICK i \in 1 .. Len(r) :
               /\ r[i].do = "leaveFunction" /\ Cardinality(Leaves(r, i)) = n
               /\ i < Len(r) => r[i + 1].do = "mark"
    BY DEF Awaited
  <1>7. Cardinality(Leaves(u, i + 1)) = n + 1
    <2>1. i \in Nat /\ i + 1 <= Len(u)
      BY <1>3, <1>4
    <2>2. Cardinality(Leaves(u, i + 1))
              = Cardinality(Leaves(Tail(u), i)) + IF u[1].do = "leaveFunction" THEN 1 ELSE 0
      BY ONLY <1>3, <1>5, <2>1, LeavesRest
    <2> QED BY ONLY <1>3, <1>5, <1>6, <2>2, t.do = "leaveFunction"
  <1>8. /\ i + 1 \in 1 .. Len(u) /\ u[i + 1] = r[i]
        /\ i + 1 < Len(u) => i < Len(r) /\ u[(i + 1) + 1] = r[i + 1]
    <2>1. i + 1 = 1 + i /\ (i < Len(r) => i + 1 \in 1 .. Len(r) /\ (i + 1) + 1 = 1 + (i + 1))
      BY <1>4
    <2>2. i + 1 \in 1 .. Len(u) /\ (i + 1 < Len(u) => i < Len(r))
      BY <1>3, <1>4
    <2> QED BY ONLY <1>3, <2>1, <2>2, i \in 1 .. Len(r)
  <1>9. Awaited(u, n + 1)
    BY ONLY <1>6, <1>7, <1>8 DEF Awaited
  <1> QED
    BY ONLY <1>1, <1>9

LEMMA AwaitedOne ==
    ASSUME NEW s, IsSequence(s), s # <<>>, s[1].do = "leaveFunction", Awaited(s, 1)
    PROVE  Len(s) = 1 \/ s[2].do = "mark"
  <1>1. PICK r : r = Tail(s)
    OBVIOUS
  <1>2. /\ Len(s) \in Nat /\ Len(s) > 0
        /\ \A k \in 1 .. Len(s) - 1 : r[k] = s[k + 1]
    BY <1>1, SequenceFacts
  <1>3. PICK i \in 1 .. Len(s) :
               /\ s[i].do = "leaveFunction" /\ Cardinality(Leaves(s, i)) = 1
               /\ i < Len(s) => s[i + 1].do = "mark"
    BY ONLY Awaited(s, 1) DEF Awaited
  <1>4. CASE i = 1
    <2>1. PICK n \in Nat : n = Len(s) /\ n > 0
      BY ONLY <1>2
    <2>2. i < n \/ n = 1
      BY ONLY <1>4, <2>1
    <2>3. i + 1 = 2
      BY <1>4
    <2> QED BY ONLY <1>3, <2>1, <2>2, <2>3
  <1>5. CASE i # 1
    <2>1. PICK j \in Nat : i = j + 1 /\ j \in 1 .. Len(s) - 1 /\ j + 1 <= Len(s)
      <3>1. i - 1 \in Nat /\ i = (i - 1) + 1 /\ i - 1 \in 1 .. Len(s) - 1 /\ (i - 1) + 1 <= Len(s)
        BY <1>2, <1>5
      <3> QED BY ONLY <3>1
    <2>2. Cardinality(Leaves(s, j + 1)) = Cardinality(Leaves(r, j)) + 1
      BY ONLY <1>1, <2>1, IsSequence(s), s # <<>>, s[1].do = "leaveFunction", LeavesRest
    <2>3. IsFiniteSet(Leaves(r, j)) /\ Cardinality(Leaves(r, j)) \in Nat
      BY ONLY LeavesFinite, j \in Nat
    <2>4. Cardinality(Leaves(r, j)) = 0
      BY ONLY <1>3, <2>1, <2>2, <2>3
    <2>5. Leaves(r, j) = {}
      BY ONLY <2>3, <2>4, FS_EmptySet
    <2>6. j \in 1 .. j /\ r[j].do = "leaveFunction"
      <3>1. j \in 1 .. j
        BY ONLY <2>1
      <3>2. r[j] = s[i]
        BY ONLY <1>2, <2>1
      <3> QED BY ONLY <1>3, <3>1, <3>2
    <2> QED BY ONLY <2>5, <2>6 DEF Leaves
  <1> QED
    BY <1>4, <1>5

CapturesAwait ==
    \A l \in 1 .. Level : \A k \in 1 .. Len(UpvaluesOf(l)) : UpvaluesOf(l)[k].isLocal =>
        \/ LocalsOf(l - 1)[UpvaluesOf(l)[k].index].initialized
        \/ Awaited(todo, (Level - l) + 1)

LEMMA CapturesKept ==
    ASSUME CapturesAwait, Level \in Nat, NEW M \in Nat, M <= Level,
           \A l \in 1 .. M : UpvaluesOf(l)' = UpvaluesOf(l) /\ LocalsOf(l - 1)' = LocalsOf(l - 1),
           \A l \in 1 .. M : Awaited(todo, (Level - l) + 1) => Awaited(todo', (Level' - l) + 1),
           \/ Level' = M
           \/ Level' = M + 1 /\ UpvaluesOf(M + 1)' = <<>>
    PROVE  CapturesAwait'
  <1>1. ASSUME NEW l \in 1 .. M, NEW k \in 1 .. Len(UpvaluesOf(l)'), UpvaluesOf(l)'[k].isLocal
        PROVE  \/ LocalsOf(l - 1)'[UpvaluesOf(l)'[k].index].initialized
               \/ Awaited(todo', (Level' - l) + 1)
    <2>1. UpvaluesOf(l)' = UpvaluesOf(l) /\ LocalsOf(l - 1)' = LocalsOf(l - 1)
      OBVIOUS
    <2>2. l \in 1 .. Level
      OBVIOUS
    <2>3. \/ LocalsOf(l - 1)[UpvaluesOf(l)[k].index].initialized
          \/ Awaited(todo, (Level - l) + 1)
      BY ONLY <1>1, <2>1, <2>2, CapturesAwait DEF CapturesAwait
    <2>4. Awaited(todo, (Level - l) + 1) => Awaited(todo', (Level' - l) + 1)
      OBVIOUS
    <2> QED BY ONLY <2>1, <2>3, <2>4
  <1>2. CASE Level' = M
    BY ONLY <1>1, <1>2 DEF CapturesAwait
  <1>3. CASE Level' = M + 1 /\ UpvaluesOf(M + 1)' = <<>>
    <2>1. \A l \in 1 .. M + 1 : l = M + 1 \/ l \in 1 .. M
      OBVIOUS
    <2>2. \A k \in 1 .. Len(<<>>) : FALSE
      OBVIOUS
    <2>3. \A k \in 1 .. Len(UpvaluesOf(M + 1)') : FALSE
      BY ONLY <1>3, <2>2
    <2> QED BY ONLY <1>1, <1>3, <2>1, <2>3 DEF CapturesAwait
  <1> QED
    BY <1>2, <1>3

LEMMA RestAwaits ==
    ASSUME IsSequence(todo), todo # <<>>, Task.do # "leaveFunction"
    PROVE  \A n \in Nat : Awaited(todo, n) => Awaited(Tail(todo), n)
  <1>1. todo[1].do # "leaveFunction"
    BY SequenceFacts DEF Task
  <1> QED
    BY <1>1, AwaitedRest

LEMMA OnwardAwaits ==
    ASSUME IsSequence(todo), todo # <<>>, Task.do # "leaveFunction", Onward
    PROVE  \A n \in Nat : Awaited(todo, n) => Awaited(todo', n)
  <1> SUFFICES ASSUME NEW n \in Nat, Awaited(todo, n) PROVE Awaited(todo', n)
    OBVIOUS
  <1>1. PICK p, r : /\ Bare(p) /\ todo' = p \o r
                    /\ \/ r = Tail(todo)
                       \/ r = todo /\ TaskIs("statements")
    BY DEF Onward
  <1>2. IsSequence(r) /\ Awaited(r, n)
    BY <1>1, RestAwaits, SequenceFacts
  <1>3. Spares(p)
    BY <1>1 DEF Bare, Spares
  <1> QED
    BY ONLY <1>1, <1>2, <1>3, AwaitedBehind

LEMMA FunctionsStay ==
    ASSUME UNCHANGED <<outer, upvalues>>, Level \in Nat
    PROVE  /\ Level' = Level
           /\ \A l \in 1 .. Level : /\ UpvaluesOf(l)' = UpvaluesOf(l)
                                    /\ LocalsOf(l - 1)' = LocalsOf(l - 1)
  <1>1. Level' = Level
    BY DEF Level
  <1>2. \A l \in 1 .. Level : l - 1 # Level
    OBVIOUS
  <1>3. \A l \in 1 .. Level : UpvaluesOf(l)' = UpvaluesOf(l)
    BY <1>1 DEF UpvaluesOf
  <1>4. \A l \in 1 .. Level : LocalsOf(l - 1)' = LocalsOf(l - 1)
    BY <1>1, <1>2 DEF LocalsOf
  <1> QED
    BY <1>1, <1>3, <1>4

LEMMA OnwardCaptures ==
    ASSUME IInv, CapturesAwait, todo # <<>>, Task.do # "leaveFunction", Onward,
           UNCHANGED <<outer, upvalues>>
    PROVE  CapturesAwait'
  <1>1. IsSequence(todo) /\ Level \in Nat
    BY FunctionFacts DEF IInv, Ready, Annotated, Typed
  <1>2. \A l \in 1 .. Level : (Level - l) + 1 \in Nat
    BY <1>1
  <1>3. \A n \in Nat : Awaited(todo, n) => Awaited(todo', n)
    BY <1>1, OnwardAwaits
  <1>4. /\ Level' = Level
        /\ \A l \in 1 .. Level : /\ UpvaluesOf(l)' = UpvaluesOf(l)
                                 /\ LocalsOf(l - 1)' = LocalsOf(l - 1)
    BY <1>1, FunctionsStay
  <1>5. Level <= Level
    BY <1>1
  <1>6. \A l \in 1 .. Level : Awaited(todo, (Level - l) + 1) => Awaited(todo', (Level' - l) + 1)
    BY ONLY <1>2, <1>3, <1>4
  <1> QED
    BY ONLY CapturesAwait, <1>1, <1>4, <1>5, <1>6, CapturesKept

LEMMA EnterFunctionCaptures ==
    ASSUME IInv, CapturesAwait, CompileFn \/ CompileLambda
    PROVE  CapturesAwait'
  <1>1. Shapes /\ FunctionsOK /\ Ready
    BY DEF IInv
  <1>2. IsSequence(todo) /\ todo # <<>> /\ Task.do # "leaveFunction"
    BY <1>1 DEF Ready, Annotated, Typed, CompileFn, CompileLambda, TaskIs
  <1>3. \A n \in Nat : Awaited(todo, n) => Awaited(Tail(todo), n)
    BY <1>2, RestAwaits
  <1>4. PICK rest : /\ EnterFunction(rest) /\ IsSequence(rest)
                    /\ \A n \in Nat : Awaited(todo, n) => Awaited(rest, n)
    <2>1. CASE CompileLambda
      BY <1>2, <1>3, <2>1, SequenceFacts DEF CompileLambda
    <2>2. CASE CompileFn
      <3>1. PICK t : EnterFunction(<<t>> \o todo) /\ t.do \in {"declareFn", "emit"}
        <4>1. PICK name, t : /\ t = IF depth > 0 THEN [do |-> "declareFn", name |-> name]
                                                 ELSE DefineGlobal
                             /\ EnterFunction(<<t>> \o todo)
          BY ONLY <2>2, Zenon DEF CompileFn
        <4>2. t.do \in {"declareFn", "emit"}
          BY ONLY <4>1, InstructionKindsAre
        <4> QED BY ONLY <4>1, <4>2
      <3>2. Spares(<<t>>)
        BY <3>1, BareOne DEF Accesses, Bare, Spares
      <3>3. IsSequence(<<t>> \o todo)
        BY ONLY <1>2, <3>2, ConcatFacts DEF Spares
      <3>4. \A n \in Nat : Awaited(todo, n) => Awaited(<<t>> \o todo, n)
        BY ONLY <1>2, <3>2, AwaitedBehind
      <3> QED BY ONLY <3>1, <3>3, <3>4
    <2> QED BY <2>1, <2>2
  <1>5. PICK saved : saved = [locals |-> locals, upvalues |-> upvalues, depth |-> depth,
                              point |-> point, open |-> open]
    OBVIOUS
  <1>6. /\ todo' = <<Statements, Load, Do("return"), Do("leaveFunction")>> \o rest
        /\ outer' = Append(outer, saved) /\ upvalues' = <<>>
    BY <1>4, <1>5 DEF EnterFunction
  <1>7. \A n \in Nat : Awaited(rest, n) => Awaited(todo', n + 1)
    <2>1. PICK a, b, c, d : a = Statements /\ b = Load /\ c = Do("return") /\ d = Do("leaveFunction")
      OBVIOUS
    <2>2. /\ d.do = "leaveFunction"
          /\ {a.do, b.do, c.do} \cap (Accesses \cup {"leaveFunction"}) = {}
      BY <2>1, TaskKindsAre, InstructionKindsAre DEF Accesses
    <2>3. PICK ts, h, u : ts = <<a, b, c>> /\ h = <<d>> /\ u = <<d>> \o rest
      OBVIOUS
    <2>4. Spares(ts)
      <3>1. ts \in Seq({a, b, c})
        BY <2>3
      <3>2. Bare(ts)
        BY ONLY <2>2, <3>1, BareIn
      <3> QED BY ONLY <3>2 DEF Bare, Spares
    <2>5. IsSequence(h)
      <3>1. h \in Seq({d})
        BY <2>3
      <3> QED BY ONLY <3>1 DEF IsSequence
    <2>6. IsSequence(u)
      BY ONLY <1>4, <2>3, <2>5, ConcatFacts
    <2>7. todo' = ts \o u
      <3>1. PICK T : rest \in Seq(T)
        BY <1>4 DEF IsSequence
      <3>2. <<a, b, c, d>> \o rest = <<a, b, c>> \o (<<d>> \o rest)
        <4>1. PICK V : V = {a, b, c, d} \cup T
          OBVIOUS
        <4>2. rest \in Seq(V) /\ <<a, b, c>> \in Seq(V) /\ <<d>> \in Seq(V)
          BY <3>1, <4>1
        <4>3. <<a, b, c, d>> = <<a, b, c>> \o <<d>>
          OBVIOUS
        <4>4. \A x, y, z \in Seq(V) : (x \o y) \o z = x \o (y \o z)
          OBVIOUS
        <4> QED BY ONLY <4>2, <4>3, <4>4
      <3> QED BY ONLY <1>6, <2>1, <2>3, <3>2, Zenon
    <2>8. \A n \in Nat : Awaited(rest, n) => Awaited(u, n + 1)
      BY ONLY <1>4, <2>2, <2>3, AwaitedAfter
    <2> QED BY ONLY <2>4, <2>6, <2>7, <2>8, AwaitedBehind
  <1>8. PICK N \in Nat : N = Level /\ N = Len(outer)
    BY <1>1, FunctionFacts
  <1>9. /\ Len(outer') = N + 1 /\ outer'[N + 1] = saved
        /\ \A i \in 1 .. N : outer'[i] = outer[i]
    BY <1>1, <1>6, <1>8, AppendFacts DEF Shapes
  <1>10. Level' = N + 1 /\ saved.upvalues = upvalues
    BY <1>5, <1>9 DEF Level
  <1>11. UpvaluesOf(N + 1)' = <<>>
    BY <1>6, <1>10 DEF UpvaluesOf
  <1>12. ASSUME NEW i \in 1 .. N
         PROVE  UpvaluesOf(i)' = UpvaluesOf(i) /\ LocalsOf(i - 1)' = LocalsOf(i - 1)
    <2>1. /\ i # Level' /\ (i # N => i + 1 \in 1 .. N)
          /\ i - 1 # Level' /\ i - 1 # Level /\ (i - 1) + 1 = i
      BY <1>8, <1>10
    <2>2. UpvaluesOf(i)' = outer'[i + 1].upvalues
      BY <2>1 DEF UpvaluesOf
    <2>3. LocalsOf(i - 1)' = outer'[i].locals /\ LocalsOf(i - 1) = outer[i].locals
      BY <2>1 DEF LocalsOf
    <2> QED BY <1>8, <1>9, <1>10, <2>1, <2>2, <2>3 DEF UpvaluesOf
  <1>13. \A l \in 1 .. N : Awaited(todo, (Level - l) + 1) => Awaited(todo', (Level' - l) + 1)
    <2>1. \A l \in 1 .. N : (N - l) + 1 \in Nat /\ ((N + 1) - l) + 1 = ((N - l) + 1) + 1
      OBVIOUS
    <2> QED BY ONLY <1>4, <1>7, <1>8, <1>10, <2>1
  <1>14. N <= Level
    BY <1>8
  <1> QED
    BY ONLY <1>8, <1>10, <1>11, <1>12, <1>13, <1>14, N \in Nat, CapturesAwait, CapturesKept

LEMMA LeaveFunctionCaptures ==
    ASSUME IInv, CapturesAwait, LeaveFunction
    PROVE  CapturesAwait'
  <1>1. Shapes /\ FunctionsOK /\ Ready
    BY DEF IInv
  <1>2. IsSequence(todo) /\ todo # <<>> /\ Task.do = "leaveFunction"
    BY <1>1 DEF Ready, Annotated, Typed, LeaveFunction, TaskIs
  <1>3. PICK N \in Nat : N = Level /\ N = Len(outer)
    BY <1>1, FunctionFacts
  <1>4. N > 0
    <2>1. PICK a, b \in Contexts : Fits(a) /\ Leads(Names, Task, a, b)
      BY <1>1, <1>2, Begin DEF Ready
    <2>2. a.saved = Append(b.saved, b.depth)
      BY <1>2, <2>1 DEF Leads, Plain, Composite
    <2>3. b.saved \in Seq(Nat) /\ b.depth \in Nat
      BY <2>1, ContextFields
    <2>4. Len(a.saved) > 0
      BY <2>2, <2>3
    <2> QED BY <1>3, <2>1, <2>4 DEF Fits
  <1>5. PICK m \in Nat : N = m + 1
    <2>1. N - 1 \in Nat /\ N = (N - 1) + 1
      BY <1>4
    <2> QED BY <2>1
  <1>6. upvalues' = outer[N].upvalues /\ outer' = Drop(outer, 1) /\ todo' = Tail(todo)
    BY <1>3 DEF LeaveFunction
  <1>7. Len(outer') = m /\ \A i \in 1 .. m : outer'[i] = outer[i]
    <2>1. 1 \in 0 .. Len(outer) /\ Len(outer) - 1 = m
      BY <1>3, <1>5
    <2> QED BY <1>1, <1>6, <2>1, DropFacts DEF Shapes
  <1>8. Level' = m
    BY <1>7 DEF Level
  <1>9. ASSUME NEW i \in 1 .. m
        PROVE  UpvaluesOf(i)' = UpvaluesOf(i) /\ LocalsOf(i - 1)' = LocalsOf(i - 1)
    <2>1. i # N /\ UpvaluesOf(i) = outer[i + 1].upvalues
      BY <1>3, <1>5 DEF UpvaluesOf
    <2>2. UpvaluesOf(i)' = UpvaluesOf(i)
      <3>1. CASE i = m
        BY <1>5, <1>6, <1>8, <2>1, <3>1 DEF UpvaluesOf
      <3>2. CASE i # m
        <4>1. i + 1 \in 1 .. m
          BY <3>2
        <4> QED BY <1>7, <1>8, <2>1, <3>2, <4>1 DEF UpvaluesOf
      <3> QED BY <3>1, <3>2
    <2>3. i - 1 # m /\ i - 1 # N /\ (i - 1) + 1 = i
      BY <1>5
    <2>4. LocalsOf(i - 1)' = outer'[i].locals /\ LocalsOf(i - 1) = outer[i].locals
      BY <1>3, <1>8, <2>3 DEF LocalsOf
    <2> QED BY <1>7, <2>2, <2>4
  <1>10. \A l \in 1 .. m : Awaited(todo, (Level - l) + 1) => Awaited(todo', (Level' - l) + 1)
    <2>1. \A l \in 1 .. m : /\ (m - l) + 1 \in Nat /\ (m - l) + 1 > 0
                            /\ (N - l) + 1 = ((m - l) + 1) + 1
      BY <1>5
    <2>2. todo[1].do = "leaveFunction"
      BY <1>2, SequenceFacts DEF Task
    <2>3. \A n \in Nat : n > 0 /\ Awaited(todo, n + 1) => Awaited(todo', n)
      BY ONLY <1>2, <1>6, <2>2, AwaitedRest
    <2> QED BY ONLY <1>3, <1>8, <2>1, <2>3
  <1>11. m <= Level /\ Level \in Nat
    BY <1>3, <1>5
  <1> QED
    BY ONLY <1>8, <1>9, <1>10, <1>11, m \in Nat, CapturesAwait, CapturesKept

LEMMA NewTask ==
    ASSUME IsSequence(todo), todo # <<>>, NEW t, todo' = <<t>> \o Tail(todo)
    PROVE  Head(todo') = t
  BY ONLY IsSequence(todo), todo # <<>>, todo' = <<t>> \o Tail(todo), FirstTask, SequenceFacts

(* The variable that is captured has its value, or is to get that of the   *)
(* closure: this is what HasValue asks for.                                *)
LEMMA RegularDistant ==
    ASSUME IsSequence(todo), todo # <<>>, NEW name, NEW assigned, Distant(name, assigned),
           CompileIdentifier \/ AssignName, RegularAccess
    PROVE  HasValue(Home(name), ResolveLocal(LocalsOf(Home(name)), name))
  <1>1. PICK k, t : /\ t = IF assigned THEN SetUpvalue(k, name) ELSE GetUpvalue(k, name)
                    /\ todo' = <<t>> \o Tail(todo)
    BY Zenon DEF Distant
  <1>2. t.do \in {"getUpvalue", "setUpvalue"} /\ t.name = name
    BY ONLY <1>1 DEF SetUpvalue, GetUpvalue
  <1>3. Head(todo') = t
    BY ONLY <1>1, IsSequence(todo), todo # <<>>, NewTask
  <1> QED
    BY ONLY <1>2, <1>3, CompileIdentifier \/ AssignName, RegularAccess, Zenon DEF RegularAccess

LEMMA DistantCaptures ==
    ASSUME IInv, CapturesAwait, todo # <<>>,
           Task.do # "leaveFunction", NEW name, NEW assigned, Distant(name, assigned),
           HasValue(Home(name), ResolveLocal(LocalsOf(Home(name)), name)), UNCHANGED locals
    PROVE  CapturesAwait'
  <1>0. Shapes /\ FunctionsOK /\ IsSequence(todo)
    BY DEF IInv, Ready, Annotated, Typed
  <1>1. PICK home, slot, N \in Nat : \E r :
               /\ N = Level /\ N = Level' /\ home + 1 <= N
               /\ home = Home(name) /\ slot = ResolveLocal(LocalsOf(home), name)
               /\ slot \in 1 .. Len(LocalsOf(home))
               /\ \E t : /\ todo' = <<t>> \o Tail(todo) /\ t.do \in Accesses
                         /\ t.slot = r[N].index /\ t.name = name
               /\ \A l \in (home + 1) .. N : /\ r[l] = Step(UpvaluesOf(l), home + 1, slot, l, r[l - 1])
                                             /\ UpvaluesOf(l)' = r[l].table
               /\ \A l \in 1 .. home : UpvaluesOf(l)' = UpvaluesOf(l)
               /\ \A l \in 0 .. N - 1 : Kin(LocalsOf(l), LocalsOf(l)')
    BY ONLY <1>0, Distant(name, assigned), UNCHANGED locals, DistantTables
  <1>2. PICK r :
               /\ N = Level /\ N = Level' /\ home + 1 <= N
               /\ home = Home(name) /\ slot = ResolveLocal(LocalsOf(home), name)
               /\ slot \in 1 .. Len(LocalsOf(home))
               /\ \E t : /\ todo' = <<t>> \o Tail(todo) /\ t.do \in Accesses
                         /\ t.slot = r[N].index /\ t.name = name
               /\ \A l \in (home + 1) .. N : /\ r[l] = Step(UpvaluesOf(l), home + 1, slot, l, r[l - 1])
                                             /\ UpvaluesOf(l)' = r[l].table
               /\ \A l \in 1 .. home : UpvaluesOf(l)' = UpvaluesOf(l)
               /\ \A l \in 0 .. N - 1 : Kin(LocalsOf(l), LocalsOf(l)')
    BY <1>1
  <1>3. PICK us : us = [l \in 1 .. N |-> UpvaluesOf(l)]
    OBVIOUS
  <1>4. /\ \A l \in 1 .. N : us[l] = UpvaluesOf(l) /\ us[l] \in Seq(Upvalues)
        /\ \A l \in (home + 1) .. N : l \in 1 .. N
        /\ \A l \in 1 .. N : l \in 1 .. home \/ l \in (home + 1) .. N
        /\ \A l \in 1 .. N : DOMAIN LocalsOf(l - 1) = 1 .. Len(LocalsOf(l - 1))
        /\ \A l \in 1 .. N : CapturesOK(LocalsOf(l - 1), UpvaluesOf(l))
    <2>1. \A l \in 1 .. N : us[l] = UpvaluesOf(l)
      BY <1>3
    <2>2. \A l \in 1 .. N : l \in 0 .. Level /\ l \in 1 .. Level
      BY <1>2
    <2>3. \A l \in 1 .. N : UpvaluesOf(l) \in Seq(Upvalues)
      BY <1>0, <2>2, FunctionFacts
    <2>4. \A l \in 1 .. N : LocalsOf(l - 1) = outer[l].locals
      <3>1. \A l \in 1 .. N : l - 1 \in 0 .. Level - 1 /\ (l - 1) + 1 = l
        <4>1. N = Level
          BY <1>2
        <4> QED BY ONLY <4>1, N \in Nat
      <3>2. \A i \in 0 .. Level - 1 : LocalsOf(i) = outer[i + 1].locals
        BY <1>0, FunctionFacts
      <3> QED BY ONLY <3>1, <3>2
    <2>5. \A l \in 1 .. N : LocalsOK(Names, outer[l].locals, outer[l].depth)
      BY <1>0, <2>2, FunctionFacts
    <2>6. \A l \in 1 .. N : CapturesOK(outer[l].locals, UpvaluesOf(l))
      BY <1>0, <2>2, FunctionFacts
    <2>7. \A l \in 1 .. N : DOMAIN outer[l].locals = 1 .. Len(outer[l].locals)
      BY <2>5 DEF LocalsOK
    <2>8. \A l \in (home + 1) .. N : l \in 1 .. N
      BY ONLY home \in Nat, N \in Nat
    <2>9. \A l \in 1 .. N : l \in 1 .. home \/ l \in (home + 1) .. N
      BY ONLY home \in Nat, N \in Nat
    <2> QED BY ONLY <2>1, <2>3, <2>4, <2>6, <2>7, <2>8, <2>9
  <1>5. \A l \in (home + 1) .. N : Added(r[l], us[l], home + 1, slot, l, r[l - 1])
    <2>1. \A l \in (home + 1) .. N : r[l] = Step(us[l], home + 1, slot, l, r[l - 1])
      BY ONLY <1>2, <1>4
    <2> QED BY ONLY <1>2, <1>4, <2>1, home \in Nat, slot \in Nat, N \in Nat, DistantResolves
  <1>6. \A n \in Nat : Awaited(todo, n) => Awaited(todo', n)
    <2>1. PICK t : todo' = <<t>> \o Tail(todo) /\ t.do \in Accesses
      BY <1>2
    <2>2. Spares(<<t>>)
      <3>1. PICK h : h = <<t>>
        OBVIOUS
      <3>2. h \in Seq({t}) /\ \A i \in 1 .. Len(h) : h[i] = t
        BY <3>1
      <3>3. t.do # "leaveFunction"
        BY <2>1 DEF Accesses
      <3> QED BY ONLY <3>1, <3>2, <3>3 DEF Spares, IsSequence
    <2>3. \A n \in Nat : Awaited(todo, n) => Awaited(Tail(todo), n)
      BY <1>0, RestAwaits
    <2>4. IsSequence(Tail(todo))
      BY <1>0, SequenceFacts
    <2> QED BY ONLY <2>1, <2>2, <2>3, <2>4, AwaitedBehind
  <1> DEFINE Held(l, x) == /\ x \in 1 .. Len(LocalsOf(l - 1))
                           /\ \/ LocalsOf(l - 1)[x].initialized
                              \/ Awaited(todo, (N - l) + 1)
  <1>7. ASSUME NEW l \in 1 .. N, NEW x, Held(l, x)
        PROVE  LocalsOf(l - 1)'[x].initialized \/ Awaited(todo', (N - l) + 1)
    <2>1. (N - l) + 1 \in Nat /\ l - 1 \in 0 .. N - 1
      OBVIOUS
    <2>2. LocalsOf(l - 1)'[x].initialized = LocalsOf(l - 1)[x].initialized
      <3>1. Kin(LocalsOf(l - 1), LocalsOf(l - 1)')
        BY <1>2, <2>1
      <3>2. x \in DOMAIN LocalsOf(l - 1)
        BY <1>4, <1>7
      <3> QED BY ONLY <3>1, <3>2 DEF Kin
    <2> QED BY ONLY <1>6, <1>7, <2>1, <2>2
  <1>8. ASSUME NEW l \in 1 .. N, NEW k \in 1 .. Len(UpvaluesOf(l)), UpvaluesOf(l)[k].isLocal
        PROVE  Held(l, UpvaluesOf(l)[k].index)
    <2>1. l \in 1 .. Level
      BY <1>2
    <2>2. \/ LocalsOf(l - 1)[UpvaluesOf(l)[k].index].initialized
          \/ Awaited(todo, (N - l) + 1)
      BY ONLY <1>2, <1>8, <2>1, CapturesAwait DEF CapturesAwait
    <2>3. UpvaluesOf(l)[k].index \in 1 .. Len(LocalsOf(l - 1))
      BY ONLY <1>4, <1>8, l \in 1 .. N DEF CapturesOK, Captured
    <2> QED BY ONLY <2>2, <2>3
  <1>9. Held(home + 1, slot)
    <2>1. (home + 1) - 1 = home /\ (N - (home + 1)) + 1 = N - home
      BY ONLY home \in Nat, N \in Nat
    <2>2. \/ LocalsOf(home)[slot].initialized
          \/ \E i \in DOMAIN todo :
                 /\ todo[i].do = "leaveFunction" /\ todo[i + 1].do = "mark"
                 /\ Cardinality({j \in 1..i : todo[j].do = "leaveFunction"}) = N - home
      <3>1. HasValue(home, slot)
        BY ONLY <1>2, HasValue(Home(name), ResolveLocal(LocalsOf(Home(name)), name)), Zenon
      <3> QED BY ONLY <1>2, <3>1, Zenon DEF HasValue
    <2>3. LocalsOf(home)[slot].initialized \/ Awaited(todo, N - home)
      <3>1. DOMAIN todo = 1 .. Len(todo)
        BY <1>0, SequenceFacts
      <3> QED BY ONLY <2>2, <3>1, Zenon DEF Awaited, Leaves
    <2> QED BY ONLY <1>2, <2>1, <2>3
  <1>10. ASSUME NEW l \in 1 .. N, NEW k \in 1 .. Len(UpvaluesOf(l)'), UpvaluesOf(l)'[k].isLocal
         PROVE  Held(l, UpvaluesOf(l)'[k].index)
    <2>1. CASE l \in 1 .. home
      <3>1. UpvaluesOf(l)' = UpvaluesOf(l)
        BY <1>2, <2>1
      <3> HIDE DEF Held
      <3> QED BY ONLY <1>8, <1>10, <3>1, l \in 1 .. N, k \in 1 .. Len(UpvaluesOf(l)')
    <2>2. CASE l \in (home + 1) .. N
      <3>1. UpvaluesOf(l)' = r[l].table /\ Added(r[l], us[l], home + 1, slot, l, r[l - 1])
        BY ONLY <1>2, <1>5, <2>2
      <3>2. us[l] = UpvaluesOf(l)
        BY <1>4
      <3>3. CASE k \in 1 .. Len(us[l])
        <4>1. UpvaluesOf(l)'[k] = UpvaluesOf(l)[k]
          BY ONLY <3>1, <3>2, <3>3 DEF Added
        <4> HIDE DEF Held
        <4> QED BY ONLY <1>8, <1>10, <3>2, <3>3, <4>1, l \in 1 .. N
      <3>4. CASE k \notin 1 .. Len(us[l])
        <4>1. PICK u : /\ u.isLocal = (l = home + 1)
                       /\ u.index = IF l = home + 1 THEN slot ELSE r[l - 1].index
                       /\ UpvaluesOf(l)'[k] = u
          BY ONLY <3>1, <3>4, k \in 1 .. Len(UpvaluesOf(l)') DEF Added
        <4>2. l = home + 1 /\ u.index = slot
          BY ONLY <1>10, <4>1
        <4> HIDE DEF Held
        <4> QED BY ONLY <1>9, <4>1, <4>2
      <3> QED BY <3>3, <3>4
    <2> QED BY <1>4, <2>1, <2>2
  <1> HIDE DEF Held
  <1> QED
    BY ONLY <1>2, <1>7, <1>10 DEF CapturesAwait

(* A program is regular as long as its steps are.                          *)
LEMMA RegularStep ==
    ASSUME Next, regular'
    PROVE  regular /\ Regular /\ CompileStep
  BY Zenon DEF Next

LEMMA NextCaptures ==
    ASSUME IInv, CapturesAwait, RegularAccess, CompileStep
    PROVE  CapturesAwait'
  <1>1. IsSequence(todo) /\ MaxArgs \in Nat
    BY LanguageFacts DEF IInv, Ready, Annotated, Typed
  <1>2. CASE (PlainStep /\ UNCHANGED <<upvalues, open>>) \/ EndScope
    <2>1. outer' = outer /\ upvalues' = upvalues
      BY <1>2, PlainKeepsOuter DEF EndScope
    <2>2. Onward /\ todo # <<>> /\ Task.do # "leaveFunction"
      BY <1>1, <1>2, PlainOnward
    <2> QED BY <2>1, <2>2, OnwardCaptures
  <1>3. CASE CompileFn \/ CompileLambda
    BY <1>3, EnterFunctionCaptures
  <1>4. CASE LeaveFunction
    BY <1>4, LeaveFunctionCaptures
  <1>5. CASE CompileIdentifier \/ AssignName
    <2>1. /\ todo # <<>> /\ Task.do # "leaveFunction" /\ UNCHANGED <<locals, depth, open>>
          /\ \E name, assigned : Nearby(name, assigned) \/ Distant(name, assigned)
      BY <1>5, AccessIs
    <2>2. PICK name, assigned : Nearby(name, assigned) \/ Distant(name, assigned)
      BY <2>1
    <2>3. CASE Nearby(name, assigned)
      <3>1. UNCHANGED <<outer, upvalues>>
        BY <2>3 DEF Nearby
      <3>2. Onward
        BY <2>3, OnwardNearby
      <3> QED BY <2>1, <3>1, <3>2, OnwardCaptures
    <2>4. CASE Distant(name, assigned)
      <3>1. HasValue(Home(name), ResolveLocal(LocalsOf(Home(name)), name))
        BY <1>1, <1>5, <2>1, <2>4, RegularDistant
      <3> QED BY <2>1, <2>4, <3>1, DistantCaptures
    <2> QED BY <2>2, <2>3, <2>4
  <1> QED
    BY <1>2, <1>3, <1>4, <1>5 DEF CompileStep, ClosureStep

LEMMA Captures == Spec => [](regular => CapturesAwait)
  <1>1. Init => (regular => CapturesAwait)
    <2>1. Init => Level = 0
      BY DEF Init, Level
    <2> QED BY <2>1 DEF CapturesAwait
  <1>2. IInv /\ (regular => CapturesAwait) /\ [Next]_vars => (regular => CapturesAwait)'
    <2>1. ASSUME IInv, regular => CapturesAwait, Next, regular' PROVE CapturesAwait'
      <3>1. regular /\ RegularAccess /\ CompileStep
        BY <2>1, RegularStep DEF Regular
      <3> QED BY <2>1, <3>1, NextCaptures
    <2>2. ASSUME IInv, CapturesAwait, UNCHANGED vars PROVE CapturesAwait'
      <3>1. UNCHANGED <<outer, upvalues, todo, locals>>
        BY <2>2 DEF vars
      <3>2. Level \in Nat
        BY <2>2, FunctionFacts DEF IInv
      <3>3. /\ Level' = Level /\ Level <= Level
            /\ \A l \in 1 .. Level : /\ UpvaluesOf(l)' = UpvaluesOf(l)
                                     /\ LocalsOf(l - 1)' = LocalsOf(l - 1)
        BY <3>1, <3>2, FunctionsStay
      <3>4. \A n : Awaited(todo, n) => Awaited(todo', n)
        BY <3>1
      <3> QED BY ONLY <2>2, <3>2, <3>3, <3>4, CapturesKept
    <2>3. UNCHANGED vars => regular' = regular
      BY DEF vars
    <2> QED BY <2>1, <2>2, <2>3
  <1> QED
    BY <1>1, <1>2, Invariant, PTL DEF Spec

----------------------------------------------------------------------------
(* Layouts: what locals and stack look like at each place among the tasks  *)
(* still to do.  A pile is the stack of a function: the slots of locals,   *)
(* then the results of expressions.                                        *)
AllNames == HiddenNames \cup UNION {l.names : l \in Languages}
Slots == AllNames \X Nat

Pile(vs, n) == [vars |-> vs, temps |-> n]
Piles == [vars : Seq(Slots), temps : Nat]
StackOf(vs, n) == vs \o [i \in 1 .. n |-> Temp]

(* What is left of vs without the slots of depth d and more at its end.    *)
CutAt(vs, d, n) ==
    /\ n = 0 \/ vs[n][2] < d
    /\ \A i \in (n + 1) .. Len(vs) : vs[i][2] >= d

Cut(vs, d) == SubSeq(vs, 1, CHOOSE n \in 0 .. Len(vs) : CutAt(vs, d, n))

(* A place: the slots of the function being compiled, the local declared   *)
(* whose value is not on the stack yet, the depth of the scope, whether    *)
(* the statements of that scope are behind (then its own slots are not     *)
(* listed), the functions around, and the loops of loop_stack_.            *)
Frames == [vars : Seq(Slots), next : Seq(Slots), depth : Nat, temps : Nat,
           then : {"mark", "other"}]
LoopShapes == [level : Nat, depth : Nat, vars : Seq(Slots)]

Place(vs, nx, d, e, s, ls) ==
    [vars |-> vs, next |-> nx, depth |-> d, ended |-> e, saved |-> s, loops |-> ls]

Within(vs, d) == \A i \in 1 .. Len(vs) :
                     vs[i][2] <= d /\ \A j \in i .. Len(vs) : vs[i][2] <= vs[j][2]
Holds(vs, d, l) == l.depth <= d /\ Cut(vs, l.depth + 1) = l.vars

(* The slots of a loop are those of its function that the scopes inside    *)
(* the loop have not added.                                                *)
Keeps(p, l) ==
    /\ l.level <= Len(p.saved)
    /\ IF l.level = Len(p.saved)
       THEN Holds(p.vars, p.depth, l)
       ELSE Holds(p.saved[l.level + 1].vars, p.saved[l.level + 1].depth, l)

Sound(p) ==
    /\ Within(p.vars, p.depth)
    /\ \A i \in 1 .. Len(p.saved) : Within(p.saved[i].vars, p.saved[i].depth)
    /\ \A i \in 1 .. Len(p.loops) : Keeps(p, p.loops[i])

PlaceRecords == [vars : Seq(Slots), next : Seq(Slots), depth : Nat, ended : BOOLEAN,
                 saved : Seq(Frames), loops : Seq(LoopShapes)]
Places == {p \in PlaceRecords : Sound(p)}

(* A layout: the place, the results above the slots, what the next task    *)
(* has to be, and the piles of the jumps not patched yet.                  *)
Words == {"any", "other", "mark", "patch", "pop", "statements"}
Layout(p, n, w, js) == [place |-> p, temps |-> n, then |-> w, pending |-> js]
Layouts == [place : Places, temps : Nat, then : Words, pending : Seq(Piles)]

Admits(w, t) ==
    /\ w = "other" => t.do # "mark"
    /\ w = "mark" => t.do = "mark"
    /\ w = "patch" => t = Patch(1)
    /\ w = "pop" => t = Pop
    /\ w = "statements" => t.do = "statements"

(* Places that a task leads to.                                            *)
Ended(p) == Place(Cut(p.vars, p.depth), <<>>, p.depth, TRUE, p.saved, p.loops)
Inner(p) == Place(p.vars, p.next, p.depth + 1, p.ended, p.saved, p.loops)
Outer(p) == Place(Cut(p.vars, p.depth), <<>>, p.depth - 1, FALSE, p.saved, p.loops)
Expecting(p, x) == Place(p.vars, <<x>>, p.depth, FALSE, p.saved, p.loops)
Gaining(p, x) == Place(Append(p.vars, x), <<>>, p.depth, FALSE, p.saved, p.loops)
LoopShape(p) == [level |-> Len(p.saved), depth |-> p.depth, vars |-> p.vars]
Looped(p) == Place(p.vars, p.next, p.depth, p.ended, p.saved, Append(p.loops, LoopShape(p)))
Unlooped(p) == Place(p.vars, p.next, p.depth, p.ended, p.saved, Drop(p.loops, 1))
Frame(p, n, w) == [vars |-> p.vars, next |-> p.next, depth |-> p.depth, temps |-> n, then |-> w]
Entered(p, n, w, vs) ==
    Place(vs, <<>>, 1, FALSE, Append(p.saved, Frame(p, n, w)), p.loops)
LastOf(s) == s[Len(s)]
Resumed(p) ==
    Place(LastOf(p.saved).vars, LastOf(p.saved).next, LastOf(p.saved).depth, FALSE,
          Drop(p.saved, 1), p.loops)

(* No loop of the function is in the scope itself: a local may be declared. *)
Roomy(p) == \A i \in 1 .. Len(p.loops) :
                p.loops[i].level = Len(p.saved) => p.loops[i].depth < p.depth

(* The stack is that of the innermost loop, which is the function's own.   *)
AtLoop(p) ==
    p.loops # <<>> /\ LastOf(p.loops).level = Len(p.saved) /\ LastOf(p.loops).vars = p.vars

(* Nothing but the slots of the locals is on the stack.                    *)
Clear(a) == ~a.place.ended /\ a.place.next = <<>> /\ a.temps = 0
With(a, n) == Layout(a.place, n, "any", a.pending)
Moved(a, p) == Layout(p, 0, "any", a.pending)
Without(js, k) == [i \in 1 .. (Len(js) - 1) |-> js[IF i < k THEN i ELSE i + 1]]
Is(point_, s) == point_ = At(s) \/ point_ = Dead

Instructions == {"emit", "get", "set", "getUpvalue", "setUpvalue"}
YieldsInstruction(t, a, b) ==
    /\ t.do \in Instructions
    /\ t.pops \in 0 .. a.temps /\ t.pushes \in Nat
    /\ t.do \in {"get", "set"} => ~a.place.ended /\ t.slot \in 1 .. Len(a.place.vars)
    /\ b = With(a, (a.temps - t.pops) + t.pushes)
YieldsOperand(t, a, b) ==
    /\ ~a.place.ended
    /\ \/ t.do = "expr" /\ b = With(a, a.temps + 1)
       \/ t.do = "assign" /\ a.temps > 0 /\ b = With(a, a.temps)
       \/ /\ t.do = "getMatch" /\ a.place.next = <<>>
          /\ \E i \in 1 .. Len(a.place.vars) : a.place.vars[i][1] = "$match"
          /\ b = With(a, a.temps + 1)
YieldsStatement(t, a, b) ==
    /\ Clear(a)
    /\ \/ t.do = "statements" /\ Roomy(a.place) /\ b = Moved(a, Ended(a.place))
       \/ t.do = "elseIf" /\ b = With(a, 0)
       \/ t.do = "block" /\ (b = With(a, 0) \/ b = Layout(a.place, 0, "patch", a.pending))
YieldsFor(t, a, b) ==
    /\ t.do = "for" /\ t.name \in AllNames
    /\ ~a.place.ended /\ a.place.next = <<>> /\ a.temps = 1 /\ Roomy(a.place)
    /\ b = Moved(a, Ended(a.place))
YieldsReturn(t, a, b) ==
    /\ t.do = "return" /\ a.temps = 1
    /\ b = Layout(a.place, 0, IF a.place.ended THEN "any" ELSE "statements", a.pending)
YieldsExit(t, a, b) ==
    /\ Clear(a) /\ AtLoop(a.place)
    /\ \/ t.do = "break" /\ b = With(a, 0)
       \/ t.do \in {"loop", "continue"} /\ \E n \in Nat : b = With(a, n)
YieldsJump(t, a, b) ==
    /\ ~a.place.ended
    /\ \E n \in Nat :
           /\ \/ t.do = "jump"
              \/ t.do = "jumpIfFalse" /\ a.temps > 0 /\ n = a.temps
           /\ b = Layout(a.place, n, "any", Append(a.pending, Pile(a.place.vars, a.temps)))
YieldsPatch(t, a, b) ==
    /\ t.do = "patch" /\ ~a.place.ended /\ t.nth \in 1 .. Len(a.pending)
    /\ \E n \in Nat :
           /\ a.pending[(Len(a.pending) + 1) - t.nth] = Pile(a.place.vars, n)
           /\ a.then # "patch" => n = a.temps
           /\ b = Layout(a.place, n, IF a.then = "patch" THEN "pop" ELSE "any",
                         Without(a.pending, (Len(a.pending) + 1) - t.nth))
YieldsScope(t, a, b) ==
    \/ t.do = "begin" /\ Clear(a) /\ b = Moved(a, Inner(a.place))
    \/ /\ t = Do("end") /\ a.temps = 0 /\ a.place.next = <<>> /\ a.place.depth > 0
       /\ \E w \in {"any", "patch"} : b = Layout(Outer(a.place), 0, w, a.pending)
YieldsLocal(t, a, b) ==
    /\ ~a.place.ended /\ a.temps = 1
    /\ \/ /\ t.do \in {"declare", "declareFn"} /\ t.name \in AllNames /\ a.place.next = <<>>
          /\ b = Moved(a, Gaining(a.place, <<t.name, a.place.depth>>))
       \/ /\ t.do = "mark" /\ Len(a.place.next) = 1
          /\ b = Moved(a, Gaining(a.place, a.place.next[1]))
YieldsLoop(t, a, b) ==
    /\ Clear(a)
    /\ \/ t.do = "pushLoop" /\ Is(t.start, a.place.vars) /\ b = Moved(a, Looped(a.place))
       \/ /\ t.do = "endLoop" /\ AtLoop(a.place)
          /\ \/ b = Moved(a, Unlooped(a.place))
             \/ b = Moved(a, Ended(Unlooped(a.place)))
YieldsFunction(t, a, b) ==
    /\ t.do = "leaveFunction" /\ a.place.saved # <<>>
    /\ b = Layout(Resumed(a.place), LastOf(a.place.saved).temps + 1,
                  LastOf(a.place.saved).then, a.pending)

(* Task t takes the layout a to b.                                         *)
Yields(t, a, b) ==
    /\ Admits(a.then, t)
    /\ \/ YieldsInstruction(t, a, b) \/ YieldsOperand(t, a, b) \/ YieldsStatement(t, a, b)
       \/ YieldsFor(t, a, b) \/ YieldsReturn(t, a, b) \/ YieldsExit(t, a, b)
       \/ YieldsJump(t, a, b) \/ YieldsPatch(t, a, b) \/ YieldsScope(t, a, b)
       \/ YieldsLocal(t, a, b) \/ YieldsLoop(t, a, b) \/ YieldsFunction(t, a, b)

(* f gives the layout at every place of ts, from a to b.                   *)
Chart(f, ts, a, b) ==
    /\ f \in [1 .. Len(ts) + 1 -> Layouts]
    /\ f[1] = a /\ f[Len(ts) + 1] = b
    /\ \A i \in 1 .. Len(ts) : Yields(ts[i], f[i], f[i + 1])

Laid(ts, a, b) == IsSequence(ts) /\ \E f : Chart(f, ts, a, b)

(* The state is what the layout says.                                      *)
FrameMatches(o, f) ==
    /\ SlotsOf(o.locals) = f.vars \o f.next
    /\ f.next # <<>> => Len(f.next) = 1 /\ ~LastOf(o.locals).initialized
    /\ o.depth = f.depth
    /\ Is(o.point, StackOf(f.vars, f.temps))

LoopMatches(l, s) ==
    /\ l.level = s.level /\ l.depth = s.depth /\ Is(l.start, s.vars)
    /\ \A b \in l.breaks : b.level = l.level /\ Is(b.at, s.vars)

(* The function being compiled has the slots vs, with those of the scope   *)
(* whose statements are behind.                                            *)
CurrentMatches(a, vs) ==
    /\ SlotsOf(locals) = vs \o a.place.next
    /\ a.place.next # <<>> => Len(a.place.next) = 1 /\ ~LastOf(locals).initialized
    /\ a.place.vars = IF a.place.ended THEN Cut(vs, a.place.depth) ELSE vs
    /\ depth = a.place.depth
    /\ Is(point, StackOf(vs, a.temps))
    /\ a.then = "patch" => point = Dead

OuterMatches(a) ==
    /\ Len(outer) = Len(a.place.saved)
    /\ \A i \in 1 .. Len(outer) : FrameMatches(outer[i], a.place.saved[i])
LoopsMatch(a) ==
    /\ Len(loops) = Len(a.place.loops)
    /\ \A i \in 1 .. Len(loops) : LoopMatches(loops[i], a.place.loops[i])
JumpsMatch(a) ==
    /\ Len(jumps) = Len(a.pending)
    /\ \A i \in 1 .. Len(jumps) : Is(jumps[i], StackOf(a.pending[i].vars, a.pending[i].temps))

Matches(a) ==
    /\ \E vs \in Seq(Slots) : CurrentMatches(a, vs)
    /\ OuterMatches(a) /\ LoopsMatch(a) /\ JumpsMatch(a)

(* Nothing is left over at the end.                                        *)
Done(z) == z.temps = 0 /\ z.place.next = <<>> /\ z.then = "any"

InStep == \E a, z : Laid(todo, a, z) /\ Done(z) /\ Matches(a)

LEMMA LaidNone ==
    ASSUME NEW c \in Layouts
    PROVE  Laid(<<>>, c, c)
  <1>1. <<>> \in Seq({}) /\ Chart([i \in 1 .. 1 |-> c], <<>>, c, c)
    BY DEF Chart
  <1> QED
    BY <1>1 DEF Laid, IsSequence

LEMMA LaidConcat ==
    ASSUME NEW s, NEW t, NEW a, NEW b, NEW c, Laid(s, a, b), Laid(t, b, c)
    PROVE  Laid(s \o t, a, c)
  <1>1. PICK f : Chart(f, s, a, b)
    BY DEF Laid
  <1>2. PICK g : Chart(g, t, b, c)
    BY DEF Laid
  <1>3. PICK m : m = Len(s)
    OBVIOUS
  <1>4. PICK n : n = Len(t)
    OBVIOUS
  <1>5. PICK u : u = s \o t
    OBVIOUS
  <1>6. /\ m \in Nat /\ n \in Nat /\ IsSequence(u) /\ Len(u) = m + n
        /\ \A i \in 1 .. m : u[i] = s[i]
        /\ \A i \in 1 .. n : u[m + i] = t[i]
    BY <1>3, <1>4, <1>5, ConcatFacts, SequenceFacts DEF Laid
  <1>7. /\ f \in [1 .. m + 1 -> Layouts] /\ f[1] = a /\ f[m + 1] = b
        /\ \A i \in 1 .. m : Yields(s[i], f[i], f[i + 1])
    BY <1>1, <1>3 DEF Chart
  <1>8. /\ g \in [1 .. n + 1 -> Layouts] /\ g[1] = b /\ g[n + 1] = c
        /\ \A i \in 1 .. n : Yields(t[i], g[i], g[i + 1])
    BY <1>2, <1>4 DEF Chart
  <1>9. PICK h : h = [i \in 1 .. (m + n) + 1 |-> IF i <= m THEN f[i] ELSE g[i - m]]
    OBVIOUS
  <1>10. h \in [1 .. (m + n) + 1 -> Layouts]
    <2>1. \A i \in 1 .. (m + n) + 1 : i <= m => i \in 1 .. m + 1
      BY ONLY <1>6
    <2>2. \A i \in 1 .. (m + n) + 1 : ~(i <= m) => i - m \in 1 .. n + 1
      BY ONLY <1>6
    <2> QED BY ONLY <1>7, <1>8, <1>9, <2>1, <2>2
  <1>11. \A i \in 1 .. m + 1 : h[i] = f[i]
    <2>1. \A i \in 1 .. m : i \in 1 .. (m + n) + 1 /\ i <= m
      BY ONLY <1>6
    <2>2. m + 1 \in 1 .. (m + n) + 1 /\ ~(m + 1 <= m) /\ m + 1 - m = 1
      BY ONLY <1>6
    <2>3. \A i \in 1 .. m : h[i] = f[i]
      BY ONLY <1>9, <2>1
    <2>4. h[m + 1] = f[m + 1]
      <3>1. PICK k : k = m + 1
        OBVIOUS
      <3>2. k \in 1 .. (m + n) + 1 /\ ~(k <= m) /\ k - m = 1
        BY ONLY <1>6, <2>2, <3>1
      <3>3. h[k] = g[k - m]
        BY ONLY <1>9, <3>2, Zenon
      <3> QED BY ONLY <1>7, <1>8, <3>1, <3>2, <3>3, Zenon
    <2>5. \A i \in 1 .. m + 1 : i \in 1 .. m \/ i = m + 1
      BY ONLY <1>6
    <2> QED BY ONLY <2>3, <2>4, <2>5
  <1>12. \A i \in 1 .. n + 1 : h[m + i] = g[i]
    <2>1. \A i \in 1 .. n + 1 : m + i \in 1 .. (m + n) + 1 /\ ~(m + i <= m) /\ m + i - m = i
      BY ONLY <1>6
    <2> TAKE i \in 1 .. n + 1
    <2>2. PICK k : k = m + i
      OBVIOUS
    <2>3. k \in 1 .. (m + n) + 1 /\ ~(k <= m) /\ k - m = i
      BY ONLY <1>6, <2>1, <2>2, i \in 1 .. n + 1
    <2>4. h[k] = g[k - m]
      BY ONLY <1>9, <2>3, Zenon
    <2> QED BY ONLY <2>2, <2>3, <2>4, Zenon
  <1>13. \A i \in 1 .. m + n : Yields(u[i], h[i], h[i + 1])
    <2> TAKE i \in 1 .. m + n
    <2>1. CASE i <= m
      <3>1. i \in 1 .. m /\ i \in 1 .. m + 1 /\ i + 1 \in 1 .. m + 1
        BY <1>6, <2>1
      <3>2. u[i] = s[i] /\ h[i] = f[i] /\ h[i + 1] = f[i + 1]
        BY ONLY <1>6, <1>11, <3>1
      <3> QED BY <1>7, <3>1, <3>2
    <2>2. CASE ~(i <= m)
      <3>1. PICK j \in 1 .. n : i = m + j
        <4>1. i - m \in 1 .. n /\ i = m + (i - m)
          BY <1>6, <2>2
        <4> QED BY ONLY <4>1, Zenon
      <3>2. j \in 1 .. n + 1 /\ j + 1 \in 1 .. n + 1 /\ i + 1 = m + (j + 1)
        BY <1>6, <3>1
      <3>3. u[i] = t[j] /\ h[i] = g[j] /\ h[i + 1] = g[j + 1]
        BY ONLY <1>6, <1>12, <3>1, <3>2, Zenon
      <3> QED BY <1>8, <3>1, <3>3
    <2> QED BY <2>1, <2>2
  <1>14. h[1] = a /\ h[(m + n) + 1] = c
    <2>1. 1 \in 1 .. m + 1 /\ n + 1 \in 1 .. n + 1 /\ (m + n) + 1 = m + (n + 1)
      BY ONLY <1>6
    <2>2. h[1] = f[1] /\ h[m + (n + 1)] = g[n + 1]
      BY ONLY <1>11, <1>12, <2>1, Zenon
    <2>3. h[(m + n) + 1] = g[n + 1]
      BY ONLY <2>1, <2>2, Zenon
    <2> QED BY ONLY <1>7, <1>8, <2>2, <2>3, Zenon
  <1>15. Chart(h, u, a, c)
    BY <1>6, <1>10, <1>13, <1>14 DEF Chart
  <1> QED
    BY <1>5, <1>6, <1>15 DEF Laid

LEMMA LaidNext ==
    ASSUME NEW ts, NEW a, NEW c, Laid(ts, a, c), ts # <<>>
    PROVE  /\ a \in Layouts
           /\ \E b \in Layouts : Yields(Head(ts), a, b) /\ Laid(Tail(ts), b, c)
  <1>1. PICK f : Chart(f, ts, a, c)
    BY DEF Laid
  <1>2. PICK n : n = Len(ts)
    OBVIOUS
  <1>3. PICK u : u = Tail(ts)
    OBVIOUS
  <1>4. /\ n \in Nat /\ n > 0 /\ IsSequence(u) /\ Len(u) = n - 1 /\ Head(ts) = ts[1]
        /\ \A i \in 1 .. n - 1 : u[i] = ts[i + 1]
    BY <1>2, <1>3, SequenceFacts DEF Laid
  <1>5. /\ f \in [1 .. n + 1 -> Layouts] /\ f[1] = a /\ f[n + 1] = c
        /\ \A i \in 1 .. n : Yields(ts[i], f[i], f[i + 1])
    BY <1>1, <1>2 DEF Chart
  <1>6. PICK g : g = [i \in 1 .. n |-> f[i + 1]]
    OBVIOUS
  <1>7. \A i \in 1 .. n : g[i] = f[i + 1] /\ i + 1 \in 1 .. n + 1
    BY ONLY <1>4, <1>6
  <1>8. g \in [1 .. n -> Layouts]
    BY ONLY <1>5, <1>6, <1>7
  <1>9. \A i \in 1 .. n - 1 : Yields(u[i], g[i], g[i + 1])
    <2> TAKE i \in 1 .. n - 1
    <2>1. i \in 1 .. n /\ i + 1 \in 1 .. n
      BY <1>4
    <2>2. g[i] = f[i + 1] /\ g[i + 1] = f[(i + 1) + 1] /\ u[i] = ts[i + 1]
      BY ONLY <1>4, <1>7, <2>1, i \in 1 .. n - 1
    <2> QED BY <1>5, <2>1, <2>2
  <1>10. 1 \in 1 .. n /\ n \in 1 .. n /\ 1 \in 1 .. n + 1 /\ (n - 1) + 1 = n /\ 1 + 1 \in 1 .. n + 1
    BY ONLY <1>4
  <1>11. g[1] = f[1 + 1] /\ g[n] = c
    BY ONLY <1>5, <1>7, <1>10
  <1>12. Chart(g, u, f[1 + 1], c)
    BY <1>4, <1>8, <1>9, <1>10, <1>11 DEF Chart
  <1>13. Yields(Head(ts), a, f[1 + 1]) /\ f[1 + 1] \in Layouts /\ a \in Layouts
    BY ONLY <1>4, <1>5, <1>10
  <1>14. Laid(Tail(ts), f[1 + 1], c)
    BY <1>3, <1>4, <1>12 DEF Laid
  <1> QED
    BY <1>13, <1>14


----------------------------------------------------------------------------
(* Records of layouts and places.                                          *)
Loose(w) == w \in {"any", "other"}

LEMMA LayoutIs ==
    ASSUME NEW p \in Places, NEW n \in Nat, NEW w \in Words, NEW js \in Seq(Piles)
    PROVE  Layout(p, n, w, js) \in Layouts
  BY DEF Layout, Layouts

LEMMA LayoutFields ==
    ASSUME NEW p, NEW n, NEW w, NEW js
    PROVE  /\ Layout(p, n, w, js).place = p /\ Layout(p, n, w, js).temps = n
           /\ Layout(p, n, w, js).then = w /\ Layout(p, n, w, js).pending = js
  BY DEF Layout

LEMMA LayoutFacts ==
    ASSUME NEW a \in Layouts
    PROVE  /\ a.place \in Places /\ a.temps \in Nat /\ a.then \in Words
           /\ a.pending \in Seq(Piles)
           /\ a = Layout(a.place, a.temps, a.then, a.pending)
  BY DEF Layout, Layouts

LEMMA PlaceFacts ==
    ASSUME NEW p \in Places
    PROVE  /\ p.vars \in Seq(Slots) /\ p.next \in Seq(Slots) /\ p.depth \in Nat
           /\ p.ended \in BOOLEAN /\ p.saved \in Seq(Frames) /\ p.loops \in Seq(LoopShapes)
           /\ p = Place(p.vars, p.next, p.depth, p.ended, p.saved, p.loops)
           /\ Sound(p)
  BY DEF Place, Places, PlaceRecords

LEMMA PlaceFields ==
    ASSUME NEW vs, NEW nx, NEW d, NEW e, NEW s, NEW ls
    PROVE  /\ Place(vs, nx, d, e, s, ls).vars = vs /\ Place(vs, nx, d, e, s, ls).next = nx
           /\ Place(vs, nx, d, e, s, ls).depth = d /\ Place(vs, nx, d, e, s, ls).ended = e
           /\ Place(vs, nx, d, e, s, ls).saved = s /\ Place(vs, nx, d, e, s, ls).loops = ls
  BY DEF Place

LEMMA PlaceIs ==
    ASSUME NEW vs \in Seq(Slots), NEW nx \in Seq(Slots), NEW d \in Nat, NEW e \in BOOLEAN,
           NEW s \in Seq(Frames), NEW ls \in Seq(LoopShapes),
           Sound(Place(vs, nx, d, e, s, ls))
    PROVE  Place(vs, nx, d, e, s, ls) \in Places
  BY DEF Place, Places, PlaceRecords

(* Words and piles of known kinds.                                         *)
LEMMA LooseWords ==
    /\ Loose("any") /\ \A w : Loose(w) => w \in Words
    /\ "any" \in Words /\ "patch" \in Words /\ "pop" \in Words /\ "statements" \in Words
  BY DEF Loose, Words

LEMMA PileIs ==
    ASSUME NEW p \in Places, NEW n \in Nat
    PROVE  Pile(p.vars, n) \in Piles
  BY PlaceFacts DEF Pile, Piles

----------------------------------------------------------------------------
(* Sequences of tasks, one after the other.                                *)

LEMMA Laid1 ==
    ASSUME NEW t1, NEW c1 \in Layouts, NEW c2 \in Layouts, Yields(t1, c1, c2)
    PROVE  Laid(<<t1>>, c1, c2)
  <1>1. PICK ts : ts = <<t1>>
    OBVIOUS
  <1>2. IsSequence(ts)
    <2>1. ts \in Seq({t1})
      BY <1>1
    <2> QED BY <2>1 DEF IsSequence
  <1>3. Chart(<<c1, c2>>, ts, c1, c2)
    BY <1>1 DEF Chart
  <1> QED
    BY <1>1, <1>2, <1>3 DEF Laid

LEMMA Laid2 ==
    ASSUME NEW t1, NEW t2, NEW c1 \in Layouts, NEW c2 \in Layouts,
           NEW c3 \in Layouts, Yields(t1, c1, c2), Yields(t2, c2, c3)
    PROVE  Laid(<<t1, t2>>, c1, c3)
  <1>1. PICK ts : ts = <<t1, t2>>
    OBVIOUS
  <1>2. IsSequence(ts)
    <2>1. ts \in Seq({t1, t2})
      BY <1>1
    <2> QED BY <2>1 DEF IsSequence
  <1>3. Chart(<<c1, c2, c3>>, ts, c1, c3)
    BY <1>1 DEF Chart
  <1> QED
    BY <1>1, <1>2, <1>3 DEF Laid

LEMMA Laid3 ==
    ASSUME NEW t1, NEW t2, NEW t3, NEW c1 \in Layouts, NEW c2 \in Layouts,
           NEW c3 \in Layouts, NEW c4 \in Layouts, Yields(t1, c1, c2),
           Yields(t2, c2, c3), Yields(t3, c3, c4)
    PROVE  Laid(<<t1, t2, t3>>, c1, c4)
  <1>1. PICK ts : ts = <<t1, t2, t3>>
    OBVIOUS
  <1>2. IsSequence(ts)
    <2>1. ts \in Seq({t1, t2, t3})
      BY <1>1
    <2> QED BY <2>1 DEF IsSequence
  <1>3. Chart(<<c1, c2, c3, c4>>, ts, c1, c4)
    BY <1>1 DEF Chart
  <1> QED
    BY <1>1, <1>2, <1>3 DEF Laid

LEMMA Laid4 ==
    ASSUME NEW t1, NEW t2, NEW t3, NEW t4, NEW c1 \in Layouts,
           NEW c2 \in Layouts, NEW c3 \in Layouts, NEW c4 \in Layouts,
           NEW c5 \in Layouts, Yields(t1, c1, c2), Yields(t2, c2, c3),
           Yields(t3, c3, c4), Yields(t4, c4, c5)
    PROVE  Laid(<<t1, t2, t3, t4>>, c1, c5)
  <1>1. PICK ts : ts = <<t1, t2, t3, t4>>
    OBVIOUS
  <1>2. IsSequence(ts)
    <2>1. ts \in Seq({t1, t2, t3, t4})
      BY <1>1
    <2> QED BY <2>1 DEF IsSequence
  <1>3. Chart(<<c1, c2, c3, c4, c5>>, ts, c1, c5)
    BY <1>1 DEF Chart
  <1> QED
    BY <1>1, <1>2, <1>3 DEF Laid

LEMMA Laid5 ==
    ASSUME NEW t1, NEW t2, NEW t3, NEW t4, NEW t5, NEW c1 \in Layouts,
           NEW c2 \in Layouts, NEW c3 \in Layouts, NEW c4 \in Layouts,
           NEW c5 \in Layouts, NEW c6 \in Layouts, Yields(t1, c1, c2),
           Yields(t2, c2, c3), Yields(t3, c3, c4), Yields(t4, c4, c5),
           Yields(t5, c5, c6)
    PROVE  Laid(<<t1, t2, t3, t4, t5>>, c1, c6)
  <1>1. PICK ts : ts = <<t1, t2, t3, t4, t5>>
    OBVIOUS
  <1>2. IsSequence(ts)
    <2>1. ts \in Seq({t1, t2, t3, t4, t5})
      BY <1>1
    <2> QED BY <2>1 DEF IsSequence
  <1>3. Chart(<<c1, c2, c3, c4, c5, c6>>, ts, c1, c6)
    BY <1>1 DEF Chart
  <1> QED
    BY <1>1, <1>2, <1>3 DEF Laid

LEMMA Laid6 ==
    ASSUME NEW t1, NEW t2, NEW t3, NEW t4, NEW t5, NEW t6, NEW c1 \in Layouts,
           NEW c2 \in Layouts, NEW c3 \in Layouts, NEW c4 \in Layouts,
           NEW c5 \in Layouts, NEW c6 \in Layouts, NEW c7 \in Layouts,
           Yields(t1, c1, c2), Yields(t2, c2, c3), Yields(t3, c3, c4),
           Yields(t4, c4, c5), Yields(t5, c5, c6), Yields(t6, c6, c7)
    PROVE  Laid(<<t1, t2, t3, t4, t5, t6>>, c1, c7)
  <1>1. PICK ts : ts = <<t1, t2, t3, t4, t5, t6>>
    OBVIOUS
  <1>2. IsSequence(ts)
    <2>1. ts \in Seq({t1, t2, t3, t4, t5, t6})
      BY <1>1
    <2> QED BY <2>1 DEF IsSequence
  <1>3. Chart(<<c1, c2, c3, c4, c5, c6, c7>>, ts, c1, c7)
    BY <1>1 DEF Chart
  <1> QED
    BY <1>1, <1>2, <1>3 DEF Laid

LEMMA Laid7 ==
    ASSUME NEW t1, NEW t2, NEW t3, NEW t4, NEW t5, NEW t6, NEW t7,
           NEW c1 \in Layouts, NEW c2 \in Layouts, NEW c3 \in Layouts,
           NEW c4 \in Layouts, NEW c5 \in Layouts, NEW c6 \in Layouts,
           NEW c7 \in Layouts, NEW c8 \in Layouts, Yields(t1, c1, c2),
           Yields(t2, c2, c3), Yields(t3, c3, c4), Yields(t4, c4, c5),
           Yields(t5, c5, c6), Yields(t6, c6, c7), Yields(t7, c7, c8)
    PROVE  Laid(<<t1, t2, t3, t4, t5, t6, t7>>, c1, c8)
  <1>1. PICK ts : ts = <<t1, t2, t3, t4, t5, t6, t7>>
    OBVIOUS
  <1>2. IsSequence(ts)
    <2>1. ts \in Seq({t1, t2, t3, t4, t5, t6, t7})
      BY <1>1
    <2> QED BY <2>1 DEF IsSequence
  <1>3. Chart(<<c1, c2, c3, c4, c5, c6, c7, c8>>, ts, c1, c8)
    BY <1>1 DEF Chart
  <1> QED
    BY <1>1, <1>2, <1>3 DEF Laid

LEMMA Laid8 ==
    ASSUME NEW t1, NEW t2, NEW t3, NEW t4, NEW t5, NEW t6, NEW t7, NEW t8,
           NEW c1 \in Layouts, NEW c2 \in Layouts, NEW c3 \in Layouts,
           NEW c4 \in Layouts, NEW c5 \in Layouts, NEW c6 \in Layouts,
           NEW c7 \in Layouts, NEW c8 \in Layouts, NEW c9 \in Layouts,
           Yields(t1, c1, c2), Yields(t2, c2, c3), Yields(t3, c3, c4),
           Yields(t4, c4, c5), Yields(t5, c5, c6), Yields(t6, c6, c7),
           Yields(t7, c7, c8), Yields(t8, c8, c9)
    PROVE  Laid(<<t1, t2, t3, t4, t5, t6, t7, t8>>, c1, c9)
  <1>1. PICK ts : ts = <<t1, t2, t3, t4, t5, t6, t7, t8>>
    OBVIOUS
  <1>2. IsSequence(ts)
    <2>1. ts \in Seq({t1, t2, t3, t4, t5, t6, t7, t8})
      BY <1>1
    <2> QED BY <2>1 DEF IsSequence
  <1>3. Chart(<<c1, c2, c3, c4, c5, c6, c7, c8, c9>>, ts, c1, c9)
    BY <1>1 DEF Chart
  <1> QED
    BY <1>1, <1>2, <1>3 DEF Laid

LEMMA Laid9 ==
    ASSUME NEW t1, NEW t2, NEW t3, NEW t4, NEW t5, NEW t6, NEW t7, NEW t8,
           NEW t9, NEW c1 \in Layouts, NEW c2 \in Layouts, NEW c3 \in Layouts,
           NEW c4 \in Layouts, NEW c5 \in Layouts, NEW c6 \in Layouts,
           NEW c7 \in Layouts, NEW c8 \in Layouts, NEW c9 \in Layouts,
           NEW c10 \in Layouts, Yields(t1, c1, c2), Yields(t2, c2, c3),
           Yields(t3, c3, c4), Yields(t4, c4, c5), Yields(t5, c5, c6),
           Yields(t6, c6, c7), Yields(t7, c7, c8), Yields(t8, c8, c9),
           Yields(t9, c9, c10)
    PROVE  Laid(<<t1, t2, t3, t4, t5, t6, t7, t8, t9>>, c1, c10)
  <1>1. PICK ts : ts = <<t1, t2, t3, t4, t5, t6, t7, t8, t9>>
    OBVIOUS
  <1>2. IsSequence(ts)
    <2>1. ts \in Seq({t1, t2, t3, t4, t5, t6, t7, t8, t9})
      BY <1>1
    <2> QED BY <2>1 DEF IsSequence
  <1>3. Chart(<<c1, c2, c3, c4, c5, c6, c7, c8, c9, c10>>, ts, c1, c10)
    BY <1>1 DEF Chart
  <1> QED
    BY <1>1, <1>2, <1>3 DEF Laid

(* Names that the compiler gives to its own locals.                        *)
LEMMA HiddenKnown ==
    /\ HiddenNames \subseteq AllNames
    /\ "$iter" \in AllNames /\ "$idx" \in AllNames /\ "$match" \in AllNames
    /\ NoName \in AllNames
  <1>1. HiddenNames \subseteq AllNames
    BY Zenon DEF AllNames
  <1>2. /\ "$iter" \in HiddenNames /\ "$idx" \in HiddenNames /\ "$match" \in HiddenNames
        /\ NoName \in HiddenNames
    BY DEF HiddenNames
  <1> QED
    BY <1>1, <1>2, Zenon

----------------------------------------------------------------------------
(* What the tasks yield, at a place and with jumps that stay the same.     *)

LEMMA LooseAdmits ==
    ASSUME NEW w, Loose(w), NEW t, t.do # "mark"
    PROVE  Admits(w, t)
  BY DEF Loose, Admits

LEMMA EmitYields ==
    ASSUME NEW p, NEW n \in Nat, NEW w, Loose(w), NEW js, NEW k \in 0 .. n, NEW m \in Nat,
           NEW x, x = (n - k) + m
    PROVE  Yields(Emit(k, m), Layout(p, n, w, js), Layout(p, x, "any", js))
  <1>1. PICK t : t = Emit(k, m)
    OBVIOUS
  <1>2. t.do = "emit" /\ t.pops = k /\ t.pushes = m
    BY <1>1 DEF Emit
  <1>3. Admits(w, t)
    BY <1>2, LooseAdmits
  <1>4. PICK a : a = Layout(p, n, w, js)
    OBVIOUS
  <1>5. a.place = p /\ a.temps = n /\ a.then = w /\ a.pending = js
    BY <1>4, LayoutFields
  <1>6. YieldsInstruction(t, a, With(a, (n - k) + m))
    BY <1>2, <1>5 DEF YieldsInstruction, Instructions
  <1>7. With(a, (n - k) + m) = Layout(p, x, "any", js)
    BY <1>5 DEF With
  <1> QED
    BY <1>1, <1>3, <1>4, <1>5, <1>6, <1>7 DEF Yields

(* A Pop is what the second word after a branch asks for.                  *)
LEMMA PopYields ==
    ASSUME NEW p, NEW js
    PROVE  Yields(Pop, Layout(p, 1, "pop", js), Layout(p, 0, "any", js))
  <1>1. PICK t : t = Pop
    OBVIOUS
  <1>2. t.do = "emit" /\ t.pops = 1 /\ t.pushes = 0
    BY <1>1 DEF Pop, Emit
  <1>4. PICK a : a = Layout(p, 1, "pop", js)
    OBVIOUS
  <1>5. a.place = p /\ a.temps = 1 /\ a.then = "pop" /\ a.pending = js
    BY <1>4, LayoutFields
  <1>3. Admits("pop", t)
    BY <1>1 DEF Admits
  <1>6. YieldsInstruction(t, a, With(a, (1 - 1) + 0))
    BY <1>2, <1>5 DEF YieldsInstruction, Instructions
  <1>7. With(a, (1 - 1) + 0) = Layout(p, 0, "any", js)
    BY <1>5 DEF With
  <1> QED
    BY <1>1, <1>3, <1>4, <1>5, <1>6, <1>7 DEF Yields

LEMMA SlotYields ==
    ASSUME NEW p, ~p.ended, NEW n \in Nat, NEW w, Loose(w), NEW js, NEW slot \in 1 .. Len(p.vars)
    PROVE  /\ Yields(Get(slot), Layout(p, n, w, js), Layout(p, n + 1, "any", js))
           /\ Yields(Set(slot), Layout(p, n, w, js), Layout(p, n, "any", js))
  <1>1. PICK t : t = Get(slot)
    OBVIOUS
  <1>2. t.do = "get" /\ t.pops = 0 /\ t.pushes = 1 /\ t.slot = slot
    BY <1>1 DEF Get
  <1>3. PICK u : u = Set(slot)
    OBVIOUS
  <1>4. u.do = "set" /\ u.pops = 0 /\ u.pushes = 0 /\ u.slot = slot
    BY <1>3 DEF Set
  <1>5. Admits(w, t) /\ Admits(w, u)
    BY <1>2, <1>4, LooseAdmits
  <1>6. PICK a : a = Layout(p, n, w, js)
    OBVIOUS
  <1>7. a.place = p /\ a.temps = n /\ a.then = w /\ a.pending = js
    BY <1>6, LayoutFields
  <1>8. YieldsInstruction(t, a, With(a, (n - 0) + 1))
    BY <1>2, <1>7 DEF YieldsInstruction, Instructions
  <1>9. YieldsInstruction(u, a, With(a, (n - 0) + 0))
    BY <1>4, <1>7 DEF YieldsInstruction, Instructions
  <1>10. With(a, (n - 0) + 1) = Layout(p, n + 1, "any", js)
    BY <1>7 DEF With
  <1>11. With(a, (n - 0) + 0) = Layout(p, n, "any", js)
    BY <1>7 DEF With
  <1> QED
    BY <1>1, <1>3, <1>5, <1>6, <1>7, <1>8, <1>9, <1>10, <1>11 DEF Yields

LEMMA UpvalueYields ==
    ASSUME NEW p, NEW n \in Nat, NEW w, Loose(w), NEW js, NEW k, NEW name
    PROVE  /\ Yields(GetUpvalue(k, name), Layout(p, n, w, js), Layout(p, n + 1, "any", js))
           /\ Yields(SetUpvalue(k, name), Layout(p, n, w, js), Layout(p, n, "any", js))
  <1>1. PICK t : t = GetUpvalue(k, name)
    OBVIOUS
  <1>2. t.do = "getUpvalue" /\ t.pops = 0 /\ t.pushes = 1
    BY <1>1 DEF GetUpvalue
  <1>3. PICK u : u = SetUpvalue(k, name)
    OBVIOUS
  <1>4. u.do = "setUpvalue" /\ u.pops = 0 /\ u.pushes = 0
    BY <1>3 DEF SetUpvalue
  <1>5. Admits(w, t) /\ Admits(w, u)
    BY <1>2, <1>4, LooseAdmits
  <1>6. PICK a : a = Layout(p, n, w, js)
    OBVIOUS
  <1>7. a.place = p /\ a.temps = n /\ a.then = w /\ a.pending = js
    BY <1>6, LayoutFields
  <1>8. YieldsInstruction(t, a, With(a, (n - 0) + 1))
    BY <1>2, <1>7 DEF YieldsInstruction, Instructions
  <1>9. YieldsInstruction(u, a, With(a, (n - 0) + 0))
    BY <1>4, <1>7 DEF YieldsInstruction, Instructions
  <1>10. With(a, (n - 0) + 1) = Layout(p, n + 1, "any", js)
    BY <1>7 DEF With
  <1>11. With(a, (n - 0) + 0) = Layout(p, n, "any", js)
    BY <1>7 DEF With
  <1> QED
    BY <1>1, <1>3, <1>5, <1>6, <1>7, <1>8, <1>9, <1>10, <1>11 DEF Yields

LEMMA ExprYields ==
    ASSUME NEW p, ~p.ended, NEW n \in Nat, NEW w, Loose(w), NEW js
    PROVE  Yields(Expr, Layout(p, n, w, js), Layout(p, n + 1, "any", js))
  BY LayoutFields, LooseAdmits DEF Yields, YieldsOperand, Expr, Do, With

LEMMA AssignYields ==
    ASSUME NEW p, ~p.ended, NEW n \in Nat, n > 0, NEW w, Loose(w), NEW js, NEW name
    PROVE  Yields([do |-> "assign", name |-> name], Layout(p, n, w, js), Layout(p, n, "any", js))
  BY LayoutFields, LooseAdmits DEF Yields, YieldsOperand, With

LEMMA GetMatchYields ==
    ASSUME NEW p, ~p.ended, p.next = <<>>, NEW n \in Nat, NEW w, Loose(w), NEW js,
           \E i \in 1 .. Len(p.vars) : p.vars[i][1] = "$match"
    PROVE  Yields(Do("getMatch"), Layout(p, n, w, js), Layout(p, n + 1, "any", js))
  BY LayoutFields, LooseAdmits DEF Yields, YieldsOperand, Do, With

LEMMA StatementsYields ==
    ASSUME NEW p, ~p.ended, p.next = <<>>, Roomy(p), NEW w, Loose(w) \/ w = "statements", NEW js
    PROVE  Yields(Statements, Layout(p, 0, w, js), Layout(Ended(p), 0, "any", js))
  <1>1. Statements.do = "statements"
    BY DEF Statements, Do
  <1>2. Admits("statements", Statements)
    BY <1>1 DEF Admits
  <1>3. Admits(w, Statements)
    BY <1>1, <1>2, LooseAdmits
  <1> QED
    BY <1>1, <1>3, LayoutFields DEF Yields, YieldsStatement, Clear, Moved

LEMMA ElseIfYields ==
    ASSUME NEW p, ~p.ended, p.next = <<>>, NEW w, Loose(w), NEW js
    PROVE  Yields(Do("elseIf"), Layout(p, 0, w, js), Layout(p, 0, "any", js))
  BY LayoutFields, LooseAdmits DEF Yields, YieldsStatement, Clear, Do, With

LEMMA BlockYields ==
    ASSUME NEW p, ~p.ended, p.next = <<>>, NEW w, Loose(w), NEW js
    PROVE  /\ Yields(Block, Layout(p, 0, w, js), Layout(p, 0, "any", js))
           /\ Yields(Block, Layout(p, 0, w, js), Layout(p, 0, "patch", js))
  BY LayoutFields, LooseAdmits DEF Yields, YieldsStatement, Clear, Block, Do, With

LEMMA ForYields ==
    ASSUME NEW p, ~p.ended, p.next = <<>>, Roomy(p), NEW name \in AllNames,
           NEW w, Loose(w), NEW js
    PROVE  Yields([do |-> "for", name |-> name], Layout(p, 1, w, js),
                  Layout(Ended(p), 0, "any", js))
  BY LayoutFields, LooseAdmits DEF Yields, YieldsFor, Moved

LEMMA ReturnYields ==
    ASSUME NEW p, NEW w, Loose(w), NEW js
    PROVE  /\ p.ended => Yields(Do("return"), Layout(p, 1, w, js), Layout(p, 0, "any", js))
           /\ ~p.ended => Yields(Do("return"), Layout(p, 1, w, js),
                                 Layout(p, 0, "statements", js))
  BY LayoutFields, LooseAdmits DEF Yields, YieldsReturn, Do

LEMMA ExitYields ==
    ASSUME NEW p, ~p.ended, p.next = <<>>, AtLoop(p), NEW w, Loose(w), NEW js, NEW n \in Nat
    PROVE  /\ Yields(Do("break"), Layout(p, 0, w, js), Layout(p, 0, "any", js))
           /\ Yields(Do("loop"), Layout(p, 0, w, js), Layout(p, n, "any", js))
           /\ Yields(Do("continue"), Layout(p, 0, w, js), Layout(p, 0, "any", js))
  BY LayoutFields, LooseAdmits DEF Yields, YieldsExit, Do, Clear, With

LEMMA JumpYields ==
    ASSUME NEW p, ~p.ended, NEW n \in Nat, NEW w, Loose(w), NEW js, NEW m \in Nat
    PROVE  Yields(JumpAway, Layout(p, n, w, js), Layout(p, m, "any", Append(js, Pile(p.vars, n))))
  BY LayoutFields, LooseAdmits DEF Yields, YieldsJump, JumpAway, Do

LEMMA JumpIfFalseYields ==
    ASSUME NEW p, ~p.ended, NEW n \in Nat, n > 0, NEW w, Loose(w), NEW js
    PROVE  Yields(JumpIfFalse, Layout(p, n, w, js),
                  Layout(p, n, "any", Append(js, Pile(p.vars, n))))
  BY LayoutFields, LooseAdmits DEF Yields, YieldsJump, JumpIfFalse, Do

(* The last of the pending jumps, or the one before it, comes in.          *)
LEMMA WithoutLast ==
    ASSUME NEW T, NEW js \in Seq(T), NEW x \in T
    PROVE  /\ Len(Append(js, x)) \in Nat /\ (Len(Append(js, x)) + 1) - 1 = Len(js) + 1
           /\ 1 \in 1 .. Len(Append(js, x)) /\ Append(js, x)[Len(js) + 1] = x
           /\ Without(Append(js, x), Len(js) + 1) = js
  BY DEF Without

LEMMA WithoutSecond ==
    ASSUME NEW T, NEW js \in Seq(T), NEW x \in T, NEW y \in T
    PROVE  /\ (Len(Append(Append(js, x), y)) + 1) - 2 = Len(js) + 1
           /\ 2 \in 1 .. Len(Append(Append(js, x), y))
           /\ Append(Append(js, x), y)[Len(js) + 1] = x
           /\ Without(Append(Append(js, x), y), Len(js) + 1) = Append(js, y)
  <1>1. PICK s : s = Append(Append(js, x), y)
    OBVIOUS
  <1>2. PICK n : n = Len(js)
    OBVIOUS
  <1>3. n \in Nat /\ Len(s) = n + 2 /\ s[n + 1] = x /\ s[n + 2] = y
        /\ \A i \in 1 .. n : s[i] = js[i]
    BY <1>1, <1>2
  <1>4. PICK u : u = Without(s, n + 1)
    OBVIOUS
  <1>5. u = [i \in 1 .. (n + 2) - 1 |-> s[IF i < n + 1 THEN i ELSE i + 1]]
    BY <1>3, <1>4 DEF Without
  <1>6. \A i \in 1 .. n : i \in 1 .. (n + 2) - 1 /\ i < n + 1
    BY ONLY <1>3
  <1>7. n + 1 \in 1 .. (n + 2) - 1 /\ ~(n + 1 < n + 1) /\ (n + 2) - 1 = n + 1
    BY ONLY <1>3
  <1>8. \A i \in 1 .. n : u[i] = js[i]
    BY ONLY <1>3, <1>5, <1>6
  <1>9. u[n + 1] = y
    <2>1. u[n + 1] = s[(n + 1) + 1] /\ (n + 1) + 1 = n + 2
      BY ONLY <1>3, <1>5, <1>7
    <2> QED BY ONLY <1>3, <2>1
  <1>10. DOMAIN u = 1 .. n + 1 /\ u = [i \in 1 .. n + 1 |-> u[i]]
    BY ONLY <1>5, <1>7
  <1>11. u \in Seq(T)
    <2>1. \A i \in 1 .. n + 1 : u[i] \in T
      <3>1. \A i \in 1 .. n : js[i] \in T
        BY <1>2
      <3>2. \A i \in 1 .. n + 1 : i \in 1 .. n \/ i = n + 1
        BY ONLY <1>3
      <3> QED BY <1>8, <1>9, <3>1, <3>2
    <2>2. PICK m : m = n + 1
      OBVIOUS
    <2>3. m \in Nat /\ u = [i \in 1 .. m |-> u[i]] /\ \A i \in 1 .. m : u[i] \in T
      BY ONLY <1>3, <1>10, <2>1, <2>2
    <2>4. u \in [1 .. m -> T]
      BY ONLY <2>3, Zenon
    <2> QED BY ONLY <2>3, <2>4
  <1>12. u = Append(js, y)
    <2>1. Append(js, y) \in Seq(T) /\ Len(Append(js, y)) = n + 1 /\ Append(js, y)[n + 1] = y
          /\ \A i \in 1 .. n : Append(js, y)[i] = js[i]
      BY <1>2
    <2>2. Len(u) = n + 1
      BY ONLY <1>3, <1>10, <1>11
    <2>3. \A i \in 1 .. n + 1 : i \in 1 .. n \/ i = n + 1
      BY ONLY <1>3
    <2>4. \A i \in 1 .. n + 1 : u[i] = Append(js, y)[i]
      BY ONLY <1>8, <1>9, <2>1, <2>3
    <2> QED BY ONLY <1>11, <2>1, <2>2, <2>4, SeqEqual
  <1>13. (Len(s) + 1) - 2 = n + 1 /\ 2 \in 1 .. Len(s)
    BY ONLY <1>3
  <1> QED
    BY ONLY <1>1, <1>2, <1>3, <1>4, <1>12, <1>13, Zenon

LEMMA PatchYields ==
    ASSUME NEW p \in Places, ~p.ended, NEW n \in Nat, NEW w, Loose(w), NEW js \in Seq(Piles)
    PROVE  Yields(Patch(1), Layout(p, n, w, Append(js, Pile(p.vars, n))),
                  Layout(p, n, "any", js))
  <1>1. PICK ks : ks = Append(js, Pile(p.vars, n))
    OBVIOUS
  <1>2. /\ 1 \in 1 .. Len(ks) /\ ks[(Len(ks) + 1) - 1] = Pile(p.vars, n)
        /\ Without(ks, (Len(ks) + 1) - 1) = js
    BY <1>1, PileIs, WithoutLast
  <1>3. PICK a : a = Layout(p, n, w, ks)
    OBVIOUS
  <1>4. a.place = p /\ a.temps = n /\ a.then = w /\ a.pending = ks
    BY <1>3, LayoutFields
  <1>5. PICK t : t = Patch(1)
    OBVIOUS
  <1>6. t.do = "patch" /\ t.nth = 1
    BY <1>5 DEF Patch
  <1>7. w # "patch" /\ Admits(w, t)
    BY <1>6, LooseAdmits DEF Loose
  <1>8. YieldsPatch(t, a, Layout(p, n, "any", js))
    BY <1>2, <1>4, <1>6, <1>7 DEF YieldsPatch
  <1> QED
    BY <1>1, <1>3, <1>4, <1>5, <1>7, <1>8 DEF Yields

LEMMA PatchSecondYields ==
    ASSUME NEW p \in Places, ~p.ended, NEW n \in Nat, NEW w, Loose(w), NEW js \in Seq(Piles),
           NEW x \in Piles
    PROVE  Yields(Patch(2), Layout(p, n, w, Append(Append(js, Pile(p.vars, n)), x)),
                  Layout(p, n, "any", Append(js, x)))
  <1>1. PICK ks : ks = Append(Append(js, Pile(p.vars, n)), x)
    OBVIOUS
  <1>2. /\ 2 \in 1 .. Len(ks) /\ ks[(Len(ks) + 1) - 2] = Pile(p.vars, n)
        /\ Without(ks, (Len(ks) + 1) - 2) = Append(js, x)
    BY <1>1, PileIs, WithoutSecond
  <1>3. PICK a : a = Layout(p, n, w, ks)
    OBVIOUS
  <1>4. a.place = p /\ a.temps = n /\ a.then = w /\ a.pending = ks
    BY <1>3, LayoutFields
  <1>5. PICK t : t = Patch(2)
    OBVIOUS
  <1>6. t.do = "patch" /\ t.nth = 2
    BY <1>5 DEF Patch
  <1>7. w # "patch" /\ Admits(w, t)
    BY <1>6, LooseAdmits DEF Loose
  <1>8. YieldsPatch(t, a, Layout(p, n, "any", Append(js, x)))
    BY <1>2, <1>4, <1>6, <1>7 DEF YieldsPatch
  <1> QED
    BY <1>1, <1>3, <1>4, <1>5, <1>7, <1>8 DEF Yields

(* After a branch that has no else, the jump brings the condition.         *)
LEMMA PatchBranchYields ==
    ASSUME NEW p \in Places, ~p.ended, NEW n \in Nat, NEW m \in Nat, NEW js \in Seq(Piles)
    PROVE  Yields(Patch(1), Layout(p, n, "patch", Append(js, Pile(p.vars, m))),
                  Layout(p, m, "pop", js))
  <1>1. PICK ks : ks = Append(js, Pile(p.vars, m))
    OBVIOUS
  <1>2. /\ 1 \in 1 .. Len(ks) /\ ks[(Len(ks) + 1) - 1] = Pile(p.vars, m)
        /\ Without(ks, (Len(ks) + 1) - 1) = js
    BY <1>1, PileIs, WithoutLast
  <1>3. PICK a : a = Layout(p, n, "patch", ks)
    OBVIOUS
  <1>4. a.place = p /\ a.temps = n /\ a.then = "patch" /\ a.pending = ks
    BY <1>3, LayoutFields
  <1>5. PICK t : t = Patch(1)
    OBVIOUS
  <1>6. t.do = "patch" /\ t.nth = 1
    BY <1>5 DEF Patch
  <1>7. Admits("patch", t)
    BY <1>5 DEF Admits
  <1>8. YieldsPatch(t, a, Layout(p, m, "pop", js))
    BY <1>2, <1>4, <1>6, <1>7 DEF YieldsPatch
  <1> QED
    BY <1>1, <1>3, <1>4, <1>5, <1>7, <1>8 DEF Yields

LEMMA BeginYields ==
    ASSUME NEW p, ~p.ended, p.next = <<>>, NEW w, Loose(w), NEW js
    PROVE  Yields(Do("begin"), Layout(p, 0, w, js), Layout(Inner(p), 0, "any", js))
  BY LayoutFields, LooseAdmits DEF Yields, YieldsScope, Clear, Do, Moved

LEMMA EndYields ==
    ASSUME NEW p, p.next = <<>>, p.depth > 0, NEW w, Loose(w), NEW js,
           NEW v \in {"any", "patch"}
    PROVE  Yields(Do("end"), Layout(p, 0, w, js), Layout(Outer(p), 0, v, js))
  <1>1. Do("end").do = "end"
    BY DEF Do
  <1> QED
    BY <1>1, LayoutFields, LooseAdmits DEF Yields, YieldsScope

LEMMA DeclareYields ==
    ASSUME NEW p, ~p.ended, p.next = <<>>, NEW w, Loose(w), NEW js, NEW name \in AllNames
    PROVE  /\ Yields(Declare(name), Layout(p, 1, w, js),
                     Layout(Gaining(p, <<name, p.depth>>), 0, "any", js))
           /\ Yields([do |-> "declareFn", name |-> name], Layout(p, 1, w, js),
                     Layout(Gaining(p, <<name, p.depth>>), 0, "any", js))
  BY LayoutFields, LooseAdmits DEF Yields, YieldsLocal, Declare, Moved

LEMMA MarkYields ==
    ASSUME NEW p, ~p.ended, NEW x, p.next = <<x>>, NEW w, w \in {"any", "mark"}, NEW js
    PROVE  Yields(Do("mark"), Layout(p, 1, w, js), Layout(Gaining(p, x), 0, "any", js))
  <1>1. PICK t : t = Do("mark")
    OBVIOUS
  <1>2. t.do = "mark"
    BY <1>1 DEF Do
  <1>3. Admits(w, t)
    BY <1>2 DEF Admits
  <1>4. PICK a : a = Layout(p, 1, w, js)
    OBVIOUS
  <1>5. a.place = p /\ a.temps = 1 /\ a.then = w /\ a.pending = js
    BY <1>4, LayoutFields
  <1>6. Len(p.next) = 1 /\ p.next[1] = x
    OBVIOUS
  <1>7. YieldsLocal(t, a, Layout(Gaining(p, x), 0, "any", js))
    BY <1>2, <1>5, <1>6 DEF YieldsLocal, Moved
  <1> QED
    BY <1>1, <1>3, <1>4, <1>5, <1>7 DEF Yields

LEMMA PushLoopYields ==
    ASSUME NEW p, ~p.ended, p.next = <<>>, NEW w, Loose(w), NEW js, NEW start,
           Is(start, p.vars)
    PROVE  Yields([do |-> "pushLoop", start |-> start], Layout(p, 0, w, js),
                  Layout(Looped(p), 0, "any", js))
  BY LayoutFields, LooseAdmits DEF Yields, YieldsLoop, Clear, Moved

LEMMA EndLoopYields ==
    ASSUME NEW p, ~p.ended, p.next = <<>>, AtLoop(p), NEW w, Loose(w), NEW js
    PROVE  /\ Yields(Do("endLoop"), Layout(p, 0, w, js), Layout(Unlooped(p), 0, "any", js))
           /\ Yields(Do("endLoop"), Layout(p, 0, w, js),
                     Layout(Ended(Unlooped(p)), 0, "any", js))
  BY LayoutFields, LooseAdmits DEF Yields, YieldsLoop, Clear, Do, Moved

LEMMA LeaveYields ==
    ASSUME NEW p, p.saved # <<>>, NEW n \in Nat, NEW w, Loose(w), NEW js
    PROVE  Yields(Do("leaveFunction"), Layout(p, n, w, js),
                  Layout(Resumed(p), LastOf(p.saved).temps + 1, LastOf(p.saved).then, js))
  BY LayoutFields, LooseAdmits DEF Yields, YieldsFunction, Do

----------------------------------------------------------------------------
(* Slots that are left when a scope ends.                                  *)

LEMMA SlotFacts ==
    ASSUME NEW vs \in Seq(Slots)
    PROVE  /\ Len(vs) \in Nat /\ DOMAIN vs = 1 .. Len(vs)
           /\ \A i \in 1 .. Len(vs) : vs[i] \in Slots /\ vs[i][2] \in Nat /\ vs[i][1] \in AllNames
  <1>1. \A x \in Slots : x[1] \in AllNames /\ x[2] \in Nat
    BY DEF Slots
  <1> QED
    BY <1>1

LEMMA CutExists ==
    ASSUME NEW vs \in Seq(Slots), NEW d \in Nat
    PROVE  \E n \in 0 .. Len(vs) : CutAt(vs, d, n)
  <1>1. PICK m \in Nat : m = Len(vs)
    BY SlotFacts
  <1>2. \A i \in 1 .. m : vs[i][2] \in Nat
    BY <1>1, SlotFacts
  <1>3. PICK T : T = {n \in 0 .. m : n = 0 \/ vs[n][2] < d}
    OBVIOUS
  <1>4. T \subseteq 0 .. m /\ 0 \in T
    BY <1>3
  <1>5. PICK n \in T : \A k \in T : k <= n
    BY <1>4, Greatest
  <1>6. \A i \in (n + 1) .. m : vs[i][2] >= d
    <2> TAKE i \in (n + 1) .. m
    <2>1. n \in 0 .. m /\ i \in 1 .. m /\ i \in 0 .. m /\ ~(i <= n)
      BY ONLY <1>4, <1>5, i \in (n + 1) .. m, m \in Nat
    <2>2. i \notin T
      BY ONLY <1>5, <2>1
    <2>3. ~(vs[i][2] < d)
      BY ONLY <1>3, <2>1, <2>2
    <2> QED BY ONLY <1>2, <2>1, <2>3, d \in Nat
  <1>7. CutAt(vs, d, n)
    BY ONLY <1>1, <1>3, <1>6, n \in T DEF CutAt
  <1> QED
    BY ONLY <1>1, <1>4, <1>7, n \in T

LEMMA CutUnique ==
    ASSUME NEW vs \in Seq(Slots), NEW d \in Nat, NEW n \in 0 .. Len(vs), NEW m \in 0 .. Len(vs),
           CutAt(vs, d, n), CutAt(vs, d, m)
    PROVE  n = m
  <1>1. PICK k \in Nat : k = Len(vs)
    BY SlotFacts
  <1>2. \A i \in 1 .. k : vs[i][2] \in Nat
    BY <1>1, SlotFacts
  <1>3. /\ n \in 0 .. k /\ m \in 0 .. k
        /\ n = 0 \/ vs[n][2] < d
        /\ m = 0 \/ vs[m][2] < d
        /\ \A i \in (n + 1) .. k : vs[i][2] >= d
        /\ \A i \in (m + 1) .. k : vs[i][2] >= d
    BY ONLY <1>1, n \in 0 .. Len(vs), m \in 0 .. Len(vs), CutAt(vs, d, n), CutAt(vs, d, m)
       DEF CutAt
  <1>4. ASSUME n < m PROVE FALSE
    <2>1. m \in (n + 1) .. k /\ m \in 1 .. k /\ m # 0
      BY ONLY <1>3, <1>4, k \in Nat
    <2> QED BY ONLY <1>2, <1>3, <2>1, d \in Nat
  <1>5. ASSUME m < n PROVE FALSE
    <2>1. n \in (m + 1) .. k /\ n \in 1 .. k /\ n # 0
      BY ONLY <1>3, <1>5, k \in Nat
    <2> QED BY ONLY <1>2, <1>3, <2>1, d \in Nat
  <1>6. n \in Nat /\ m \in Nat
    BY ONLY <1>3
  <1> QED
    BY ONLY <1>4, <1>5, <1>6

LEMMA CutIs ==
    ASSUME NEW vs \in Seq(Slots), NEW d \in Nat, NEW n \in 0 .. Len(vs), CutAt(vs, d, n)
    PROVE  Cut(vs, d) = SubSeq(vs, 1, n)
  <1>1. PICK m : m = CHOOSE k \in 0 .. Len(vs) : CutAt(vs, d, k)
    OBVIOUS
  <1>2. m \in 0 .. Len(vs) /\ CutAt(vs, d, m)
    BY ONLY <1>1, n \in 0 .. Len(vs), CutAt(vs, d, n), Zenon
  <1>3. m = n
    BY <1>2, CutUnique
  <1> QED
    BY ONLY <1>1, <1>3, Zenon DEF Cut

LEMMA CutFacts ==
    ASSUME NEW vs \in Seq(Slots), NEW d \in Nat
    PROVE  \E n \in 0 .. Len(vs) :
               /\ CutAt(vs, d, n) /\ Cut(vs, d) = SubSeq(vs, 1, n)
               /\ Cut(vs, d) \in Seq(Slots) /\ Len(Cut(vs, d)) = n
               /\ \A i \in 1 .. n : Cut(vs, d)[i] = vs[i]
  <1>1. PICK n \in 0 .. Len(vs) : CutAt(vs, d, n)
    BY CutExists
  <1>2. PICK c : c = Cut(vs, d)
    OBVIOUS
  <1>3. c = SubSeq(vs, 1, n)
    BY <1>1, <1>2, CutIs
  <1>4. Len(vs) \in Nat /\ 1 \in 1 .. Len(vs) + 1 /\ n \in 0 .. Len(vs) /\ n \in Nat
    BY SlotFacts
  <1>5. c \in Seq(Slots) /\ Len(c) = n /\ \A i \in 1 .. n : c[i] = vs[i]
    BY <1>3, <1>4, SubSeqProperties
  <1> QED
    BY ONLY <1>1, <1>2, <1>3, <1>5, n \in 0 .. Len(vs), Zenon

LEMMA CutNone ==
    ASSUME NEW vs \in Seq(Slots), NEW d \in Nat, \A i \in 1 .. Len(vs) : vs[i][2] < d
    PROVE  Cut(vs, d) = vs
  <1>1. PICK m \in Nat : m = Len(vs)
    BY SlotFacts
  <1>2. CutAt(vs, d, m) /\ m \in 0 .. Len(vs)
    <2>1. m = 0 \/ m \in 1 .. m
      OBVIOUS
    <2>2. \A i \in (m + 1) .. m : FALSE
      OBVIOUS
    <2>3. m = 0 \/ vs[m][2] < d
      BY <1>1, <2>1
    <2>4. m \in 0 .. m
      OBVIOUS
    <2> QED BY ONLY <1>1, <2>2, <2>3, <2>4 DEF CutAt
  <1>3. Cut(vs, d) = SubSeq(vs, 1, m)
    BY <1>2, CutIs
  <1>4. SubSeq(vs, 1, m) = vs
    <2>1. PICK c : c = SubSeq(vs, 1, m)
      OBVIOUS
    <2>2. 1 \in 1 .. Len(vs) + 1 /\ m \in 0 .. Len(vs)
      BY ONLY <1>1, m \in Nat
    <2>3. c \in Seq(Slots) /\ Len(c) = m /\ \A i \in 1 .. m : c[i] = vs[i]
      BY <1>1, <2>1, <2>2, SubSeqProperties
    <2>4. c = vs
      BY ONLY <1>1, <2>3, vs \in Seq(Slots), SeqEqual
    <2> QED BY ONLY <2>1, <2>4, Zenon
  <1> QED
    BY ONLY <1>3, <1>4, Zenon

LEMMA CutWithin ==
    ASSUME NEW vs \in Seq(Slots), NEW d \in Nat, NEW e \in Nat, Within(vs, d), d < e
    PROVE  Cut(vs, e) = vs
  <1>1. \A i \in 1 .. Len(vs) : vs[i][2] < e
    <2> TAKE i \in 1 .. Len(vs)
    <2>1. vs[i][2] \in Nat
      BY SlotFacts
    <2>2. vs[i][2] <= d
      BY DEF Within
    <2> QED BY ONLY <2>1, <2>2, d < e, d \in Nat, e \in Nat
  <1> QED
    BY <1>1, CutNone

LEMMA CutAppend ==
    ASSUME NEW vs \in Seq(Slots), NEW d \in Nat, NEW x \in Slots, x[2] >= d
    PROVE  Cut(Append(vs, x), d) = Cut(vs, d)
  <1>1. PICK k \in Nat : k = Len(vs)
    BY SlotFacts
  <1>2. PICK u : u = Append(vs, x)
    OBVIOUS
  <1>3. u \in Seq(Slots) /\ Len(u) = k + 1 /\ u[k + 1] = x /\ \A i \in 1 .. k : u[i] = vs[i]
    BY <1>1, <1>2
  <1>4. PICK n \in 0 .. Len(vs) : CutAt(vs, d, n) /\ Cut(vs, d) = SubSeq(vs, 1, n)
    BY CutFacts
  <1>5. n \in 0 .. k /\ n \in 0 .. k + 1 /\ n \in Nat
    BY ONLY <1>1, n \in 0 .. Len(vs), k \in Nat
  <1>6. CutAt(u, d, n)
    <2>1. n = 0 \/ n \in 1 .. k
      BY ONLY <1>5, k \in Nat
    <2>2. n = 0 \/ u[n][2] < d
      BY ONLY <1>3, <1>4, <2>1 DEF CutAt
    <2>3. \A i \in (n + 1) .. (k + 1) : u[i][2] >= d
      <3> TAKE i \in (n + 1) .. (k + 1)
      <3>1. i = k + 1 \/ (i \in (n + 1) .. k /\ i \in 1 .. k)
        BY ONLY <1>5, i \in (n + 1) .. (k + 1), k \in Nat
      <3>2. CASE i = k + 1
        BY ONLY <1>3, <3>2, x[2] >= d
      <3>3. CASE i \in (n + 1) .. k /\ i \in 1 .. k
        BY ONLY <1>1, <1>3, <1>4, <3>3 DEF CutAt
      <3> QED BY ONLY <3>1, <3>2, <3>3
    <2> QED BY ONLY <1>3, <2>2, <2>3 DEF CutAt
  <1>7. Cut(u, d) = SubSeq(u, 1, n)
    BY <1>3, <1>5, <1>6, CutIs
  <1>8. SubSeq(u, 1, n) = SubSeq(vs, 1, n)
    <2>1. PICK c : c = SubSeq(u, 1, n)
      OBVIOUS
    <2>2. PICK e : e = SubSeq(vs, 1, n)
      OBVIOUS
    <2>3. /\ 1 \in 1 .. Len(u) + 1 /\ n \in 0 .. Len(u)
          /\ 1 \in 1 .. Len(vs) + 1 /\ n \in 0 .. Len(vs)
      BY ONLY <1>1, <1>3, <1>5, k \in Nat
    <2>4. c \in Seq(Slots) /\ Len(c) = n /\ \A i \in 1 .. n : c[i] = u[i]
      BY <1>3, <1>5, <2>1, <2>3, SubSeqProperties
    <2>5. e \in Seq(Slots) /\ Len(e) = n /\ \A i \in 1 .. n : e[i] = vs[i]
      BY <1>5, <2>2, <2>3, SubSeqProperties
    <2>6. \A i \in 1 .. n : i \in 1 .. k
      BY ONLY <1>5, k \in Nat
    <2>7. \A i \in 1 .. n : c[i] = e[i]
      BY ONLY <1>3, <2>4, <2>5, <2>6
    <2>8. c = e
      BY ONLY <2>4, <2>5, <2>7, SeqEqual
    <2> QED BY ONLY <2>1, <2>2, <2>8, Zenon
  <1> QED
    BY ONLY <1>2, <1>4, <1>7, <1>8, Zenon

LEMMA CutCut ==
    ASSUME NEW vs \in Seq(Slots), NEW d \in Nat, NEW e \in Nat, e <= d
    PROVE  Cut(Cut(vs, d), e) = Cut(vs, e)
  <1>1. PICK k \in Nat : k = Len(vs)
    BY SlotFacts
  <1>2. PICK c : c = Cut(vs, d)
    OBVIOUS
  <1>3. PICK n \in 0 .. Len(vs) :
            /\ CutAt(vs, d, n) /\ c \in Seq(Slots) /\ Len(c) = n
            /\ \A i \in 1 .. n : c[i] = vs[i]
    BY <1>2, CutFacts
  <1>4. PICK m \in 0 .. Len(vs) :
            /\ CutAt(vs, e, m) /\ Cut(vs, e) = SubSeq(vs, 1, m)
    BY CutFacts
  <1>5. n \in 0 .. k /\ m \in 0 .. k /\ n \in Nat /\ m \in Nat
    BY ONLY <1>1, n \in 0 .. Len(vs), m \in 0 .. Len(vs), k \in Nat
  <1>6. \A i \in 1 .. k : vs[i][2] \in Nat
    BY <1>1, SlotFacts
  <1>7. m <= n
    <2>1. ASSUME n < m PROVE FALSE
      <3>1. m \in (n + 1) .. k /\ m \in 1 .. k /\ m # 0
        BY ONLY <1>5, <2>1, k \in Nat
      <3>2. vs[m][2] >= d /\ vs[m][2] < e
        BY ONLY <1>1, <1>3, <1>4, <3>1 DEF CutAt
      <3> QED BY ONLY <1>6, <3>1, <3>2, e <= d, e \in Nat, d \in Nat
    <2> QED BY ONLY <1>5, <2>1
  <1>8. CutAt(c, e, m)
    <2>1. m = 0 \/ m \in 1 .. n
      BY ONLY <1>5, <1>7
    <2>2. m = 0 \/ c[m][2] < e
      BY ONLY <1>3, <1>4, <2>1 DEF CutAt
    <2>3. \A i \in (m + 1) .. n : i \in (m + 1) .. k /\ i \in 1 .. n
      BY ONLY <1>5, k \in Nat
    <2>4. \A i \in (m + 1) .. n : c[i][2] >= e
      BY ONLY <1>1, <1>3, <1>4, <2>3 DEF CutAt
    <2> QED BY ONLY <1>3, <2>2, <2>4 DEF CutAt
  <1>9. m \in 0 .. Len(c)
    BY ONLY <1>3, <1>5, <1>7
  <1>10. Cut(c, e) = SubSeq(c, 1, m)
    BY <1>3, <1>8, <1>9, CutIs
  <1>11. SubSeq(c, 1, m) = SubSeq(vs, 1, m)
    <2>1. PICK f : f = SubSeq(c, 1, m)
      OBVIOUS
    <2>2. PICK g : g = SubSeq(vs, 1, m)
      OBVIOUS
    <2>3. /\ 1 \in 1 .. Len(c) + 1 /\ m \in 0 .. Len(c)
          /\ 1 \in 1 .. Len(vs) + 1 /\ m \in 0 .. Len(vs)
      BY ONLY <1>1, <1>3, <1>5, <1>9, k \in Nat
    <2>4. f \in Seq(Slots) /\ Len(f) = m /\ \A i \in 1 .. m : f[i] = c[i]
      BY <1>3, <1>5, <2>1, <2>3, SubSeqProperties
    <2>5. g \in Seq(Slots) /\ Len(g) = m /\ \A i \in 1 .. m : g[i] = vs[i]
      BY <1>5, <2>2, <2>3, SubSeqProperties
    <2>6. \A i \in 1 .. m : i \in 1 .. n
      BY ONLY <1>5, <1>7
    <2>7. \A i \in 1 .. m : f[i] = g[i]
      BY ONLY <1>3, <2>4, <2>5, <2>6
    <2>8. f = g
      BY ONLY <2>4, <2>5, <2>7, SeqEqual
    <2> QED BY ONLY <2>1, <2>2, <2>8, Zenon
  <1> QED
    BY ONLY <1>2, <1>4, <1>10, <1>11, Zenon

(* What a scope leaves lies within the scopes around it.                   *)
LEMMA CutStays ==
    ASSUME NEW vs \in Seq(Slots), NEW d \in Nat, NEW e \in Nat, Within(vs, e)
    PROVE  /\ Within(Cut(vs, d), e)
           /\ d > 0 => Within(Cut(vs, d), d - 1)
  <1>1. PICK k \in Nat : k = Len(vs)
    BY SlotFacts
  <1>2. PICK c : c = Cut(vs, d)
    OBVIOUS
  <1>3. PICK n \in 0 .. Len(vs) :
            /\ CutAt(vs, d, n) /\ c \in Seq(Slots) /\ Len(c) = n
            /\ \A i \in 1 .. n : c[i] = vs[i]
    BY <1>2, CutFacts
  <1>4. n \in 0 .. k /\ n \in Nat
    BY ONLY <1>1, n \in 0 .. Len(vs), k \in Nat
  <1>5. \A i \in 1 .. k : vs[i][2] \in Nat
    BY <1>1, SlotFacts
  <1>6. \A i \in 1 .. n : i \in 1 .. k /\ \A j \in i .. n : j \in i .. k /\ j \in 1 .. n
    BY ONLY <1>4, k \in Nat
  <1>7. \A i \in 1 .. n : c[i][2] <= e /\ \A j \in i .. n : c[i][2] <= c[j][2]
    <2>1. \A i \in 1 .. k : vs[i][2] <= e /\ \A j \in i .. k : vs[i][2] <= vs[j][2]
      BY <1>1 DEF Within
    <2> QED BY ONLY <1>3, <1>6, <2>1
  <1>8. ASSUME d > 0, NEW i \in 1 .. n PROVE c[i][2] <= d - 1
    <2>1. n # 0 /\ n \in i .. n /\ n \in 1 .. n /\ i \in 1 .. k /\ n \in 1 .. k
      BY ONLY <1>4, <1>8, k \in Nat
    <2>2. vs[n][2] < d
      BY ONLY <1>3, <2>1 DEF CutAt
    <2>3. c[i][2] <= c[n][2] /\ c[n] = vs[n] /\ c[i] = vs[i]
      BY ONLY <1>3, <1>7, <1>8, <2>1
    <2>4. PICK x \in Nat : x = vs[n][2]
      BY <1>5, <2>1
    <2>5. PICK y \in Nat : y = vs[i][2]
      BY <1>5, <2>1
    <2>6. y <= x /\ x < d
      BY ONLY <2>2, <2>3, <2>4, <2>5
    <2>7. y <= d - 1
      BY ONLY <2>6, x \in Nat, y \in Nat, d \in Nat
    <2> QED BY ONLY <2>3, <2>5, <2>7
  <1>9. Within(c, e) /\ (d > 0 => Within(c, d - 1))
    BY ONLY <1>3, <1>7, <1>8 DEF Within
  <1> QED
    BY ONLY <1>2, <1>9, Zenon

LEMMA WithinMore ==
    ASSUME NEW vs \in Seq(Slots), NEW d \in Nat, Within(vs, d)
    PROVE  /\ Within(vs, d + 1)
           /\ \A x \in Slots : x[2] = d => Within(Append(vs, x), d)
  <1>1. PICK k \in Nat : k = Len(vs)
    BY SlotFacts
  <1>2. \A i \in 1 .. k : vs[i][2] \in Nat /\ vs[i][2] <= d /\ \A j \in i .. k : vs[i][2] <= vs[j][2]
    BY <1>1, SlotFacts DEF Within
  <1>3. Within(vs, d + 1)
    <2>1. \A i \in 1 .. k : vs[i][2] <= d + 1
      BY ONLY <1>2, d \in Nat
    <2> QED BY ONLY <1>1, <1>2, <2>1 DEF Within
  <1>4. ASSUME NEW x \in Slots, x[2] = d PROVE Within(Append(vs, x), d)
    <2>1. PICK u : u = Append(vs, x)
      OBVIOUS
    <2>2. Len(u) = k + 1 /\ u[k + 1] = x /\ \A i \in 1 .. k : u[i] = vs[i]
      BY <1>1, <2>1
    <2>3. \A i \in 1 .. k + 1 : u[i][2] <= d
      <3>1. \A i \in 1 .. k + 1 : i = k + 1 \/ i \in 1 .. k
        BY ONLY k \in Nat
      <3>2. d <= d
        BY ONLY d \in Nat
      <3> QED BY ONLY <1>2, <1>4, <2>2, <3>1, <3>2
    <2>4. \A i \in 1 .. k + 1 : \A j \in i .. k + 1 : u[i][2] <= u[j][2]
      <3> TAKE i \in 1 .. k + 1
      <3> TAKE j \in i .. k + 1
      <3>1. (j = k + 1) \/ (i \in 1 .. k /\ j \in i .. k /\ j \in 1 .. k)
        BY ONLY i \in 1 .. k + 1, j \in i .. k + 1, k \in Nat
      <3>2. CASE j = k + 1
        BY ONLY <1>4, <2>2, <2>3, <3>2, i \in 1 .. k + 1
      <3>3. CASE i \in 1 .. k /\ j \in i .. k /\ j \in 1 .. k
        BY ONLY <1>2, <2>2, <3>3
      <3> QED BY ONLY <3>1, <3>2, <3>3
    <2>5. Within(u, d)
      BY ONLY <2>2, <2>3, <2>4 DEF Within
    <2> QED BY ONLY <2>1, <2>5, Zenon
  <1> QED
    BY <1>3, <1>4
=============================================================================
