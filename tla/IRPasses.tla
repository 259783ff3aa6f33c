------------------------------ MODULE IRPasses ------------------------------
(***************************************************************************)
(* The passes over the register IR (src/src/ir_passes.cpp) up to the live  *)
(* intervals that LinearScan starts from.  They are functions of the       *)
(* blocks; IRBuilder supplies every function small enough.                 *)
(***************************************************************************)
EXTENDS IRBuilder, FiniteSetsExt

-----------------------------------------------------------------------------
(* What an instruction reads and writes, as the passes see it *)

\* Mutation of InstrUses: the condition of a branch is forgotten.
InstrUsesWithoutCondition(i) ==
    CASE i.op \in {"op", "copy", "ret"} -> ToSet(i.srcs)
      [] i.op = "call" /\ i.srcs # <<>> -> {i.srcs[1] + k : k \in 0 .. Len(i.srcs) - 1}
      [] OTHER -> {}

\* Of a call only src1 and call_argc are kept: its arguments are taken to be
\* in consecutive registers.
InstrUses(i) ==
    CASE i.op \in {"op", "copy", "ret", "brif"} -> ToSet(i.srcs)
      [] i.op = "call" /\ i.srcs # <<>> -> {i.srcs[1] + k : k \in 0 .. Len(i.srcs) - 1}
      [] OTHER -> {}

InstrDef(i) == IF i.op \in Terminators THEN {} ELSE {i.dst}

-----------------------------------------------------------------------------
(* Dead code elimination *)

AllUses(bs) ==
    UNION {InstrUses(bs[b].instrs[n]) :
              <<b, n>> \in UNION {{b} \X (DOMAIN bs[b].instrs) : b \in DOMAIN bs}}

HasSideEffect(i) == i.op \in Terminators \cup {"call"}

Removable(i, used) == InstrDef(i) # {} /\ ~HasSideEffect(i) /\ InstrDef(i) \cap used = {}

RECURSIVE DeadCodeElimination(_)
DeadCodeElimination(bs) ==
    LET used == AllUses(bs)
        kept == [b \in DOMAIN bs |->
                   [bs[b] EXCEPT !.instrs = SelectSeq(@, LAMBDA i : ~Removable(i, used))]]
    IN  IF kept = bs THEN bs ELSE DeadCodeElimination(kept)

-----------------------------------------------------------------------------
(* Liveness: rounds over the blocks, last to first, until nothing changes *)

\* Mutation of LiveBefore: the walk runs forward.
LiveBeforeForward(is, out) ==
    FoldLeft(LAMBDA live, i : (live \ InstrDef(i)) \cup InstrUses(i), out, is)

LiveBefore(is, out) ==
    FoldRight(LAMBDA i, live : (live \ InstrDef(i)) \cup InstrUses(i), is, out)

UpdateBlock(bs, live, b) ==
    LET out == UNION {live[s].in : s \in bs[b].succ}
    IN  [live EXCEPT ![b] = [in |-> LiveBefore(bs[b].instrs, out), out |-> out]]

RECURSIVE LivenessFrom(_, _)
LivenessFrom(bs, live) ==
    LET next == FoldRight(LAMBDA b, l : UpdateBlock(bs, l, b),
                          [b \in DOMAIN bs |-> b], live)
    IN  IF next = live THEN live ELSE LivenessFrom(bs, next)

ComputeLiveness(bs) ==
    LivenessFrom(bs, [b \in DOMAIN bs |-> [in |-> {}, out |-> {}]])

-----------------------------------------------------------------------------
(* Live intervals, over positions counted through the blocks in layout order *)

Mentioning(i) == InstrDef(i) \cup InstrUses(i)

Layout(bs) == FlattenSeq([b \in DOMAIN bs |-> bs[b].instrs])

\* From the first instruction that defines or uses a register to the last.
Intervals(bs) ==
    LET instrs == Layout(bs)
        at(r) == {p \in DOMAIN instrs : r \in Mentioning(instrs[p])}
    IN  [r \in UNION {Mentioning(instrs[p]) : p \in DOMAIN instrs} |->
            [start |-> Min(at(r)), end |-> Max(at(r))]]

-----------------------------------------------------------------------------
(* Properties *)

Consecutive(rs) == \A i \in DOMAIN rs : rs[i] = rs[1] + i - 1

\* The arguments of every call were lowered into registers in a row.
ArgumentsInARow ==
    \A b \in DOMAIN blocks : \A i \in ToSet(blocks[b].instrs) :
        i.op = "call" => Consecutive(i.srcs)

\* Dead code elimination leaves the control flow and the calls alone, and an
\* operand that was written on every path still is.
EliminationIsSound ==
    LET after == DeadCodeElimination(blocks)
    IN  /\ WrittenBeforeRead(blocks) \subseteq WrittenBeforeRead(after)
        /\ \A b \in DOMAIN blocks :
              SelectSeq(after[b].instrs, HasSideEffect)
                  = SelectSeq(blocks[b].instrs, HasSideEffect)

\* What dead code elimination removes was dead, in every function whose calls
\* have their arguments in a row of registers, as the pass takes them to be.
EliminatesOnlyDeadCode == Done /\ ArgumentsInARow => EliminationIsSound

\* Only instructions that define unused registers are removed, as the comment
\* in the code has it, arguments of calls being used.  Not the case: of a call
\* the pass knows the first argument's register and their number.
RemovesOnlyUnused == Done => EliminationIsSound

\* Where register r is read before it is written, from the start of block b.
ReadFirst(bs, b, r) ==
    \E n \in DOMAIN bs[b].instrs :
        /\ r \in InstrUses(bs[b].instrs[n])
        /\ \A k \in 1 .. n - 1 : r \notin InstrDef(bs[b].instrs[k])

Written(bs, b, r) == \E n \in DOMAIN bs[b].instrs : r \in InstrDef(bs[b].instrs[n])

RECURSIVE PathsFrom(_, _, _)
PathsFrom(bs, S, Open) ==
    LET next == S \cup UNION {bs[b].succ : b \in S \cap Open}
    IN  IF next = S THEN S ELSE PathsFrom(bs, next, Open)

\* The fixpoint is the meaning of liveness: a register is live at the start
\* of a block when some path from there reads it before any write to it.
LivenessIsExact ==
    Done => LET live == ComputeLiveness(blocks)
                Unwritten(r) == {b \in DOMAIN blocks : ~Written(blocks, b, r)}
            IN  \A b \in DOMAIN blocks, r \in Reg :
                   r \in live[b].in <=>
                       \E c \in PathsFrom(blocks, {b}, Unwritten(r)) : ReadFirst(blocks, c, r)

\* A register's interval covers every place where it is live, which is what
\* makes it a live interval.  Not the case where control goes back in the
\* layout: at the end of a loop, and of a branch inside of another branch.
IntervalsCoverLiveness ==
    Done => LET live == ComputeLiveness(blocks)
                intervals == Intervals(blocks)
                before(b) == MapThenSumSet(LAMBDA c : Len(blocks[c].instrs), 1 .. b - 1)
            IN  \A b \in DOMAIN blocks :
                   /\ \A r \in live[b].in : intervals[r].end > before(b)
                   /\ \A r \in live[b].out :
                         /\ intervals[r].start <= before(b + 1)
                         /\ intervals[r].end >= before(b + 1)
=============================================================================
