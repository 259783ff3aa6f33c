------------------------------ MODULE LinearScan ------------------------------
(***************************************************************************)
(* allocate_registers: the intervals of the virtual registers of a         *)
(* function, collected from its instructions in layout order, and the      *)
(* linear scan that gives each interval a physical register or spills it.  *)
(*                                                                         *)
(* The instructions are any instructions: an action of the first phase     *)
(* reads one, with the register it defines and the registers it uses.      *)
(* Of an interval only its ends matter to the scan, so that the code is    *)
(* not kept.  std::sort leaves the order of intervals with one start open, *)
(* and the model takes every order; among active intervals with the same   *)
(* furthest end it may spill any, where the code spills the first.         *)
(***************************************************************************)
EXTENDS Integers, FiniteSets

CONSTANTS
    VRegs,            \* the virtual registers of the function
    NoReg,            \* NO_REG: the instruction defines nothing
    NumPhysicalRegs,  \* num_physical_regs
    MaxInstrs         \* bound on the length of the function

ASSUME RegsAssumption ==
    /\ IsFiniteSet(VRegs)
    /\ NoReg \notin VRegs
    /\ NumPhysicalRegs \in Nat
    /\ MaxInstrs \in Nat

VARIABLES
    pos,         \* position of the next instruction
    start, end,  \* the intervals of the registers seen so far
    scanning,    \* FALSE while the intervals are collected
    pending,     \* the intervals the scan has not come to
    active,      \* the intervals that hold a register
    allocation,  \* RegAllocResult::allocation
    spilled,     \* RegAllocResult::spilled
    physFree,    \* the registers with phys_free set
    used         \* RegAllocResult::physical_regs_used

intervalVars == <<pos, start, end>>
resultVars == <<pending, active, allocation, spilled, physFree, used>>
vars == <<intervalVars, scanning, resultVars>>

PhysRegs == 0 .. NumPhysicalRegs - 1

Init ==
    /\ pos = 0
    /\ start = [v \in {} |-> 0]
    /\ end = [v \in {} |-> 0]
    /\ scanning = FALSE
    /\ pending = {}
    /\ active = {}
    /\ allocation = [v \in {} |-> 0]
    /\ spilled = {}
    /\ physFree = PhysRegs
    /\ used = 0

----------------------------------------------------------------------------
(* Live intervals: from the first mention of a register to the last. *)

Seen == DOMAIN start

ReadInstr ==
    /\ ~scanning /\ pos < MaxInstrs
    /\ \E def \in VRegs \cup {NoReg}, uses \in SUBSET VRegs :
        LET mentioned == uses \cup ({def} \ {NoReg}) IN
        /\ start' = [v \in Seen \cup mentioned |-> IF v \in Seen THEN start[v] ELSE pos]
        /\ end' = [v \in Seen \cup mentioned |-> IF v \in mentioned THEN pos ELSE end[v]]
    /\ pos' = pos + 1
    /\ UNCHANGED <<scanning, resultVars>>

SortIntervals ==
    /\ ~scanning
    /\ scanning' = TRUE
    /\ pending' = Seen
    /\ UNCHANGED <<intervalVars, active, allocation, spilled, physFree, used>>

----------------------------------------------------------------------------
(* The scan: one step per interval, in the order of their starts. *)

IsNext(iv) == iv \in pending /\ \A other \in pending : start[iv] <= start[other]

(* Mutation of Expired: an interval expires where another starts. *)
ExpiredTooEarly(iv) == {v \in active : end[v] <= start[iv]}

(* expire_old(iv.start) *)
Expired(iv) == {v \in active : end[v] < start[iv]}
Live(iv) == active \ Expired(iv)
(* Mutations of FreeFor: expire_old forgets phys_free; the search for a    *)
(* free register starts at 1.                                              *)
FreeForLeaks(iv) == physFree
FreeForSkipsFirst(iv) == (physFree \cup {allocation[v] : v \in Expired(iv)}) \ {0}

FreeFor(iv) == physFree \cup {allocation[v] : v \in Expired(iv)}

Without(f, v) == [u \in DOMAIN f \ {v} |-> f[u]]
With(f, v, p) == [u \in DOMAIN f \cup {v} |-> IF u = v THEN p ELSE f[u]]

(* Mutation of TakeFreeRegister: the highest free register. *)
TakeHighestRegister(iv) ==
    \E chosen \in FreeFor(iv) :
        /\ \A p \in FreeFor(iv) : chosen >= p
        /\ allocation' = With(allocation, iv, chosen)
        /\ physFree' = FreeFor(iv) \ {chosen}
        /\ active' = Live(iv) \cup {iv}
        /\ used' = IF chosen + 1 > used THEN chosen + 1 ELSE used
        /\ UNCHANGED spilled

(* The lowest free register. *)
TakeFreeRegister(iv) ==
    \E chosen \in FreeFor(iv) :
        /\ \A p \in FreeFor(iv) : chosen <= p
        /\ allocation' = With(allocation, iv, chosen)
        /\ physFree' = FreeFor(iv) \ {chosen}
        /\ active' = Live(iv) \cup {iv}
        /\ used' = IF chosen + 1 > used THEN chosen + 1 ELSE used
        /\ UNCHANGED spilled

IsLongest(v, iv) == v \in Live(iv) /\ \A u \in Live(iv) : end[u] <= end[v]

(* Mutation of SpillLongest: the spilled register keeps its allocation. *)
SpillLongestNoErase(iv) ==
    /\ FreeFor(iv) = {}
    /\ \E longest \in Live(iv) :
        /\ IsLongest(longest, iv)
        /\ end[longest] > end[iv]
        /\ spilled' = spilled \cup {longest}
        /\ allocation' = With(allocation, iv, allocation[longest])
        /\ active' = (Live(iv) \ {longest}) \cup {iv}
    /\ physFree' = {}
    /\ UNCHANGED used

(* No register is free: the longest active interval gives up its own. *)
SpillLongest(iv) ==
    /\ FreeFor(iv) = {}
    /\ \E longest \in Live(iv) :
        /\ IsLongest(longest, iv)
        /\ end[longest] > end[iv]
        /\ spilled' = spilled \cup {longest}
        /\ allocation' = With(Without(allocation, longest), iv, allocation[longest])
        /\ active' = (Live(iv) \ {longest}) \cup {iv}
    /\ physFree' = {}
    /\ UNCHANGED used

(* Mutation of SpillInterval: the spilled interval becomes active. *)
SpillIntervalActive(iv) ==
    /\ FreeFor(iv) = {}
    /\ \A u \in Live(iv) : end[u] <= end[iv]
    /\ spilled' = spilled \cup {iv}
    /\ active' = Live(iv) \cup {iv}
    /\ physFree' = {}
    /\ UNCHANGED <<allocation, used>>

(* ... or the interval itself ends last (or there is no register at all). *)
SpillInterval(iv) ==
    /\ FreeFor(iv) = {}
    /\ \A u \in Live(iv) : end[u] <= end[iv]
    /\ spilled' = spilled \cup {iv}
    /\ active' = Live(iv)
    /\ physFree' = {}
    /\ UNCHANGED <<allocation, used>>

Scan(iv) ==
    /\ scanning /\ IsNext(iv)
    /\ TakeFreeRegister(iv) \/ SpillLongest(iv) \/ SpillInterval(iv)
    /\ pending' = pending \ {iv}
    /\ UNCHANGED <<intervalVars, scanning>>

Next == ReadInstr \/ SortIntervals \/ \E iv \in VRegs : Scan(iv)

Spec == Init /\ [][Next]_vars

----------------------------------------------------------------------------
(* What must hold. *)

TypeOK ==
    /\ pos \in 0 .. MaxInstrs
    /\ Seen \subseteq VRegs
    /\ start \in [Seen -> 0 .. MaxInstrs]
    /\ end \in [Seen -> 0 .. MaxInstrs]
    /\ scanning \in BOOLEAN
    /\ pending \subseteq Seen
    /\ spilled \subseteq Seen
    /\ DOMAIN allocation \subseteq Seen
    /\ allocation \in [DOMAIN allocation -> PhysRegs]
    /\ active \subseteq DOMAIN allocation
    /\ physFree \subseteq PhysRegs
    /\ used \in 0 .. NumPhysicalRegs

Overlap(u, v) == start[u] <= end[v] /\ start[v] <= end[u]

Covering(p) == {v \in Seen : start[v] <= p /\ p <= end[v]}

(* Two virtual registers whose intervals meet never have one physical      *)
(* register, although registers are given back, handed on by a spill and   *)
(* taken again in between.                                                 *)
NoSharedRegister ==
    \A u, v \in DOMAIN allocation :
        u # v /\ Overlap(u, v) => allocation[u] # allocation[v]

(* phys_free and the active intervals tell the same: a register is free    *)
(* exactly if no active interval holds it, so none leaks and none is       *)
(* handed out twice.                                                       *)
FreeIffUnheld == physFree = PhysRegs \ {allocation[v] : v \in active}

(* Every interval ends with a register or spilled, never with both (the    *)
(* register of a spilled interval is taken back) and never with neither.   *)
EachPlacedOnce ==
    /\ DOMAIN allocation \cap spilled = {}
    /\ scanning => DOMAIN allocation \cup spilled = Seen \ pending

(* Every value has a place of its own as long as it is needed, and no       *)
(* register is lost between expiry and the next interval that takes it.     *)
AllocationIsSound == TypeOK /\ NoSharedRegister /\ FreeIffUnheld /\ EachPlacedOnce

(* A spill is forced: a spilled register has a position where as many      *)
(* other intervals lie as there are physical registers.                    *)
SpillsAreForced ==
    \A v \in spilled : \E p \in start[v] .. end[v] :
        Cardinality(Covering(p) \ {v}) >= NumPhysicalRegs

(* The registers that codegen declares are all there are in the result,    *)
(* and no more are declared than intervals lie over one position.          *)
DeclaredRegistersSuffice ==
    /\ \A v \in DOMAIN allocation : allocation[v] < used
    /\ used > 0 => \E p \in 0 .. pos : Cardinality(Covering(p)) >= used

(* The allocation spills and declares no more than the intervals require. *)
AllocationIsTight == SpillsAreForced /\ DeclaredRegistersSuffice
=============================================================================
