--------------------------- MODULE LinearScan_proof ---------------------------
(***************************************************************************)
(* No two virtual registers whose intervals meet get one physical          *)
(* register, for every set of virtual registers, every number of physical  *)
(* registers and every function.                                           *)
(*                                                                         *)
(* ScanInv adds to the properties what makes them inductive: active        *)
(* intervals hold different registers, and an interval that is no longer   *)
(* active but keeps its place in the result ends before any interval the   *)
(* scan has still to come to starts.                                       *)
(***************************************************************************)
EXTENDS LinearScan, FiniteSetTheorems, TLAPS

ActiveApart ==
    \A u, v \in active : u # v => allocation[u] # allocation[v]

InactiveIsPast ==
    \A v \in DOMAIN allocation \ active : \A iv \in pending : end[v] < start[iv]

NothingPlacedYet ==
    ~scanning => pending = {} /\ active = {} /\ DOMAIN allocation = {} /\ spilled = {}

ScanInv ==
    /\ TypeOK
    /\ NothingPlacedYet
    /\ EachPlacedOnce
    /\ FreeIffUnheld
    /\ ActiveApart
    /\ InactiveIsPast
    /\ NoSharedRegister

LEMMA InitScan == Init => ScanInv
<1> SUFFICES ASSUME Init PROVE ScanInv
    OBVIOUS
<1> USE RegsAssumption DEF Init, Seen, PhysRegs
<1>1. TypeOK
  <2>1. start \in [Seen -> 0 .. MaxInstrs] /\ end \in [Seen -> 0 .. MaxInstrs]
    OBVIOUS
  <2>2. DOMAIN allocation = {} /\ allocation \in [DOMAIN allocation -> PhysRegs]
    OBVIOUS
  <2>3. 0 \in 0 .. MaxInstrs /\ 0 \in 0 .. NumPhysicalRegs
    OBVIOUS
  <2> QED BY <2>1, <2>2, <2>3 DEF TypeOK
<1>2. NothingPlacedYet /\ EachPlacedOnce
    BY DEF NothingPlacedYet, EachPlacedOnce
<1>3. FreeIffUnheld
    BY DEF FreeIffUnheld
<1>4. ActiveApart /\ InactiveIsPast /\ NoSharedRegister
    BY DEF ActiveApart, InactiveIsPast, NoSharedRegister
<1> QED BY <1>1, <1>2, <1>3, <1>4 DEF ScanInv

(* Collecting intervals touches nothing of the result. *)
LEMMA ReadInstrStep ==
    ASSUME ScanInv, ReadInstr
    PROVE  ScanInv'
<1> USE RegsAssumption DEF ScanInv, ReadInstr, NothingPlacedYet, intervalVars, resultVars
<1>1. TypeOK'
  <2>1. PICK def \in VRegs \cup {NoReg}, uses \in SUBSET VRegs :
            LET mentioned == uses \cup ({def} \ {NoReg}) IN
            /\ start' = [v \in Seen \cup mentioned |-> IF v \in Seen THEN start[v] ELSE pos]
            /\ end' = [v \in Seen \cup mentioned |-> IF v \in mentioned THEN pos ELSE end[v]]
    OBVIOUS
  <2> DEFINE mentioned == uses \cup ({def} \ {NoReg})
  <2>2. mentioned \subseteq VRegs
    OBVIOUS
  <2>3. Seen' = Seen \cup mentioned
    BY <2>1 DEF Seen
  <2>4. start' \in [Seen' -> 0 .. MaxInstrs] /\ end' \in [Seen' -> 0 .. MaxInstrs]
    BY <2>1, <2>3 DEF TypeOK
  <2>5. Seen' \subseteq VRegs /\ pos' \in 0 .. MaxInstrs
    BY <2>2, <2>3 DEF TypeOK
  <2> QED BY <2>4, <2>5 DEF TypeOK, PhysRegs
<1>2. NothingPlacedYet' /\ EachPlacedOnce'
    BY DEF EachPlacedOnce
<1>3. FreeIffUnheld'
    BY DEF FreeIffUnheld, PhysRegs
<1>4. ActiveApart' /\ InactiveIsPast' /\ NoSharedRegister'
    BY DEF ActiveApart, InactiveIsPast, NoSharedRegister
<1> QED BY <1>1, <1>2, <1>3, <1>4

LEMMA SortIntervalsStep ==
    ASSUME ScanInv, SortIntervals
    PROVE  ScanInv'
<1> USE DEF ScanInv, SortIntervals, NothingPlacedYet, intervalVars
<1>1. TypeOK'
    BY DEF TypeOK, Seen, PhysRegs
<1>2. NothingPlacedYet' /\ EachPlacedOnce'
    BY DEF EachPlacedOnce, Seen
<1>3. FreeIffUnheld'
    BY DEF FreeIffUnheld, PhysRegs
<1>4. ActiveApart' /\ InactiveIsPast' /\ NoSharedRegister'
    BY DEF ActiveApart, InactiveIsPast, NoSharedRegister
<1> QED BY <1>1, <1>2, <1>3, <1>4

----------------------------------------------------------------------------
(* What a step of the scan may rely on. *)

(* Whoever keeps a place in the result and is not live at the start of the *)
(* next interval has ended before it.                                      *)
LEMMA OthersArePast ==
    ASSUME ScanInv, NEW iv \in VRegs, IsNext(iv),
           NEW v \in DOMAIN allocation, v \notin Live(iv)
    PROVE  end[v] < start[iv]
BY DEF ScanInv, InactiveIsPast, IsNext, Live, Expired

(* A register that is free for the next interval is not a live one's. *)
LEMMA FreeIsNotLive ==
    ASSUME ScanInv, NEW iv \in VRegs, NEW p \in FreeFor(iv),
           NEW v \in Live(iv)
    PROVE  allocation[v] # p
BY DEF ScanInv, ActiveApart, FreeIffUnheld, FreeFor, Live, Expired

(* When none is free, nothing has expired. *)
LEMMA NoneFree ==
    ASSUME NEW iv \in VRegs, FreeFor(iv) = {}
    PROVE  physFree = {} /\ Live(iv) = active
BY DEF FreeFor, Live

----------------------------------------------------------------------------
(* The three outcomes of a step of the scan. *)

ScanStep(iv) == scanning /\ IsNext(iv) /\ pending' = pending \ {iv}
                /\ UNCHANGED <<intervalVars, scanning>>

LEMMA TakeStep ==
    ASSUME ScanInv, NEW iv \in VRegs, ScanStep(iv), TakeFreeRegister(iv)
    PROVE  ScanInv'
<1> USE RegsAssumption DEF ScanInv, ScanStep, intervalVars
<1>1. PICK chosen \in FreeFor(iv) :
        /\ allocation' = With(allocation, iv, chosen)
        /\ physFree' = FreeFor(iv) \ {chosen}
        /\ active' = Live(iv) \cup {iv}
        /\ used' = IF chosen + 1 > used THEN chosen + 1 ELSE used
        /\ spilled' = spilled
    BY DEF TakeFreeRegister
<1>2. iv \in pending /\ iv \in Seen /\ iv \notin DOMAIN allocation /\ iv \notin spilled
    BY DEF IsNext, EachPlacedOnce, TypeOK
<1>3. Live(iv) \subseteq active /\ active \subseteq DOMAIN allocation
    BY DEF Live, TypeOK
<1>4. FreeFor(iv) \subseteq PhysRegs
    BY DEF FreeFor, Expired, TypeOK
<1>5. /\ DOMAIN allocation' = DOMAIN allocation \cup {iv}
      /\ allocation'[iv] = chosen
      /\ \A v \in DOMAIN allocation : allocation'[v] = allocation[v]
    BY <1>1, <1>2 DEF With
<1>6. TypeOK'
  <2>1. allocation' \in [DOMAIN allocation' -> PhysRegs]
    BY <1>1, <1>4, <1>5 DEF TypeOK, With
  <2>2. used' \in 0 .. NumPhysicalRegs
    BY <1>1, <1>4 DEF TypeOK, PhysRegs
  <2> QED BY <1>1, <1>2, <1>3, <1>4, <1>5, <2>1, <2>2 DEF TypeOK, Seen, PhysRegs
<1>7. NothingPlacedYet'
    BY DEF NothingPlacedYet
<1>8. EachPlacedOnce'
    BY <1>1, <1>2, <1>5 DEF EachPlacedOnce, Seen
<1>9. FreeIffUnheld'
  <2>1. \A p \in PhysRegs :
            p \in FreeFor(iv) <=> \A v \in Live(iv) : allocation[v] # p
    BY FreeIsNotLive DEF FreeIffUnheld, FreeFor, Live
  <2>2. {allocation'[v] : v \in active'} = {allocation[v] : v \in Live(iv)} \cup {chosen}
    BY <1>1, <1>3, <1>5
  <2>3. FreeFor(iv) = PhysRegs \ {allocation[v] : v \in Live(iv)}
    BY <1>4, <2>1
  <2> QED BY <1>1, <2>2, <2>3 DEF FreeIffUnheld, PhysRegs
<1>10. ActiveApart'
    BY <1>1, <1>2, <1>3, <1>5, FreeIsNotLive DEF ActiveApart
<1>11. InactiveIsPast'
  <2> SUFFICES ASSUME NEW v \in DOMAIN allocation \ Live(iv), NEW next \in pending \ {iv}
               PROVE  end[v] < start[next]
    BY <1>1, <1>5 DEF InactiveIsPast
  <2>1. end[v] < start[iv] /\ start[iv] <= start[next]
    BY OthersArePast DEF IsNext
  <2> QED BY <1>2, <2>1 DEF TypeOK
<1>12. NoSharedRegister'
  <2>1. \A v \in DOMAIN allocation : ~Overlap(v, iv) \/ allocation[v] # chosen
    BY OthersArePast, FreeIsNotLive, <1>2 DEF Overlap, TypeOK
  <2>2. \A u, v : Overlap(u, v)' <=> Overlap(u, v)
    BY DEF Overlap
  <2>3. \A v \in DOMAIN allocation : ~Overlap(iv, v) \/ allocation[v] # chosen
    BY <2>1 DEF Overlap
  <2> QED BY <1>5, <2>1, <2>2, <2>3 DEF NoSharedRegister
<1> QED BY <1>6, <1>7, <1>8, <1>9, <1>10, <1>11, <1>12

LEMMA SpillLongestStep ==
    ASSUME ScanInv, NEW iv \in VRegs, ScanStep(iv), SpillLongest(iv)
    PROVE  ScanInv'
<1> USE RegsAssumption DEF ScanInv, ScanStep, intervalVars
<1>1. physFree = {} /\ Live(iv) = active
    BY NoneFree DEF SpillLongest
<1>2. PICK longest \in active :
        /\ spilled' = spilled \cup {longest}
        /\ allocation' = With(Without(allocation, longest), iv, allocation[longest])
        /\ active' = (active \ {longest}) \cup {iv}
        /\ physFree' = {}
        /\ used' = used
    BY <1>1 DEF SpillLongest
<1>3. iv \in pending /\ iv \in Seen /\ iv \notin DOMAIN allocation /\ iv \notin spilled
    BY DEF IsNext, EachPlacedOnce, TypeOK
<1>4. active \subseteq DOMAIN allocation /\ longest \in DOMAIN allocation
      /\ longest \notin spilled /\ longest # iv /\ longest \in Seen
    BY <1>3 DEF TypeOK, EachPlacedOnce
<1>5. /\ DOMAIN allocation' = (DOMAIN allocation \ {longest}) \cup {iv}
      /\ allocation'[iv] = allocation[longest]
      /\ \A v \in DOMAIN allocation \ {longest} : allocation'[v] = allocation[v]
    BY <1>2, <1>3 DEF With, Without
<1>6. TypeOK'
  <2>1. allocation' \in [DOMAIN allocation' -> PhysRegs]
    BY <1>2, <1>4, <1>5 DEF TypeOK, With, Without
  <2> QED BY <1>2, <1>3, <1>4, <1>5, <2>1 DEF TypeOK, Seen, PhysRegs
<1>7. NothingPlacedYet'
    BY DEF NothingPlacedYet
<1>8. EachPlacedOnce'
    BY <1>2, <1>3, <1>4, <1>5 DEF EachPlacedOnce, Seen
<1>9. FreeIffUnheld'
  <2>1. \A p \in PhysRegs : \E v \in active : allocation[v] = p
    BY <1>1 DEF FreeIffUnheld
  <2>2. \A p \in PhysRegs : \E v \in active' : allocation'[v] = p
    BY <1>2, <1>4, <1>5, <2>1
  <2> QED BY <1>2, <2>2 DEF FreeIffUnheld, PhysRegs
<1>10. ActiveApart'
    BY <1>2, <1>3, <1>4, <1>5 DEF ActiveApart
<1>11. InactiveIsPast'
  <2> SUFFICES ASSUME NEW v \in DOMAIN allocation \ active, NEW next \in pending \ {iv}
               PROVE  end[v] < start[next]
    BY <1>2, <1>5 DEF InactiveIsPast
  <2> QED BY DEF InactiveIsPast
<1>12. NoSharedRegister'
  <2>1. \A v \in DOMAIN allocation \ {longest} :
            ~Overlap(v, iv) \/ allocation[v] # allocation[longest]
    BY OthersArePast, <1>1, <1>3, <1>4 DEF Overlap, TypeOK, ActiveApart
  <2>2. \A u, v : Overlap(u, v)' <=> Overlap(u, v)
    BY DEF Overlap
  <2>3. \A v \in DOMAIN allocation \ {longest} :
            ~Overlap(iv, v) \/ allocation[v] # allocation[longest]
    BY <2>1 DEF Overlap
  <2> QED BY <1>5, <2>1, <2>2, <2>3 DEF NoSharedRegister
<1> QED BY <1>6, <1>7, <1>8, <1>9, <1>10, <1>11, <1>12

LEMMA SpillIntervalStep ==
    ASSUME ScanInv, NEW iv \in VRegs, ScanStep(iv), SpillInterval(iv)
    PROVE  ScanInv'
<1> USE RegsAssumption DEF ScanInv, ScanStep, SpillInterval, intervalVars
<1>1. physFree = {} /\ Live(iv) = active
    BY NoneFree
<1>2. iv \in pending /\ iv \in Seen /\ iv \notin DOMAIN allocation /\ iv \notin spilled
    BY DEF IsNext, EachPlacedOnce, TypeOK
<1>3. TypeOK'
    BY <1>1, <1>2 DEF TypeOK, Seen, PhysRegs
<1>4. NothingPlacedYet' /\ EachPlacedOnce'
    BY <1>1, <1>2 DEF NothingPlacedYet, EachPlacedOnce, Seen
<1>5. FreeIffUnheld' /\ ActiveApart'
    BY <1>1 DEF FreeIffUnheld, ActiveApart, PhysRegs
<1>6. InactiveIsPast'
    BY <1>1 DEF InactiveIsPast
<1>7. NoSharedRegister'
    BY DEF NoSharedRegister, Overlap
<1> QED BY <1>3, <1>4, <1>5, <1>6, <1>7

LEMMA NextScan == ScanInv /\ [Next]_vars => ScanInv'
<1> SUFFICES ASSUME ScanInv, [Next]_vars PROVE ScanInv'
    OBVIOUS
<1>1. CASE ReadInstr
    BY <1>1, ReadInstrStep
<1>2. CASE SortIntervals
    BY <1>2, SortIntervalsStep
<1>3. ASSUME NEW iv \in VRegs, Scan(iv) PROVE ScanInv'
  <2>1. ScanStep(iv)
    BY <1>3 DEF Scan, ScanStep
  <2>2. CASE TakeFreeRegister(iv)
    BY <2>1, <2>2, TakeStep
  <2>3. CASE SpillLongest(iv)
    BY <2>1, <2>3, SpillLongestStep
  <2>4. CASE SpillInterval(iv)
    BY <2>1, <2>4, SpillIntervalStep
  <2> QED BY <1>3, <2>2, <2>3, <2>4 DEF Scan
<1>4. CASE UNCHANGED vars
  <2> USE <1>4 DEF vars, intervalVars, resultVars, ScanInv
  <2>1. TypeOK'
    BY DEF TypeOK, Seen, PhysRegs
  <2>2. NothingPlacedYet' /\ EachPlacedOnce' /\ FreeIffUnheld'
    BY DEF NothingPlacedYet, EachPlacedOnce, FreeIffUnheld, Seen, PhysRegs
  <2>3. ActiveApart' /\ InactiveIsPast' /\ NoSharedRegister'
    BY DEF ActiveApart, InactiveIsPast, NoSharedRegister, Overlap
  <2> QED BY <2>1, <2>2, <2>3
<1> QED BY <1>1, <1>2, <1>3, <1>4 DEF Next

----------------------------------------------------------------------------

(* The invariant holds of every scan, whatever function it allocates. *)
THEOREM ScanIsSound == Spec => []ScanInv
BY InitScan, NextScan, PTL DEF Spec

(* The scan keeps its tables within the registers there are. *)
THEOREM TypeCorrect == Spec => []TypeOK
<1>1. ScanInv => TypeOK
    BY DEF ScanInv
<1> QED BY <1>1, ScanIsSound, PTL

(* Registers whose intervals meet never share a physical register.  *)
THEOREM OverlappingApart == Spec => []NoSharedRegister
<1>1. ScanInv => NoSharedRegister
    BY DEF ScanInv
<1> QED BY <1>1, ScanIsSound, PTL

(* phys_free and the active list never disagree, and every interval ends  *)
(* with a register or spilled, never both and never neither.               *)
THEOREM TablesAgree == Spec => [](FreeIffUnheld /\ EachPlacedOnce)
<1>1. ScanInv => FreeIffUnheld /\ EachPlacedOnce
    BY DEF ScanInv
<1> QED BY <1>1, ScanIsSound, PTL

(* The allocation is sound at every step of the scan.                      *)
THEOREM AllocationSound == Spec => []AllocationIsSound
<1>1. TypeOK /\ NoSharedRegister /\ FreeIffUnheld /\ EachPlacedOnce => AllocationIsSound
    BY DEF AllocationIsSound
<1> QED BY <1>1, TypeCorrect, OverlappingApart, TablesAgree, PTL

----------------------------------------------------------------------------
(* Tightness.  Whoever is live at the start of the next interval covers    *)
(* it, so that what the live intervals hold is a lower bound on how many   *)
(* intervals lie over that position.                                       *)

IntervalsOrdered == \A v \in Seen : start[v] <= end[v] /\ end[v] <= pos

NothingUsedYet == ~scanning => used = 0

ActiveStarted == \A v \in active, iv \in pending : start[v] <= start[iv]

TightInv ==
    /\ ScanInv
    /\ IntervalsOrdered
    /\ NothingUsedYet
    /\ ActiveStarted
    /\ SpillsAreForced
    /\ DeclaredRegistersSuffice

(* Counting: intervals that hold all the registers below n are at least n. *)
LEMMA HoldersAreMany ==
    ASSUME NEW S, IsFiniteSet(S), NEW n \in Nat, NEW f,
           \A p \in 0 .. n - 1 : \E v \in S : f[v] = p
    PROVE  Cardinality(S) \in Nat /\ Cardinality(S) >= n
<1> DEFINE P == 0 .. n - 1
           H == {v \in S : f[v] \in P}
           g == [v \in H |-> f[v]]
<1>1. IsFiniteSet(H) /\ Cardinality(H) <= Cardinality(S)
    BY FS_Subset, H \in SUBSET S
<1>2. g \in Surjection(H, P)
    BY DEF Surjection
<1>3. Cardinality(P) <= Cardinality(H)
    BY <1>1, <1>2, FS_Surjection
<1>4. Cardinality(P) = n
    BY FS_Interval, 0 \in Int, n - 1 \in Int
<1>5. Cardinality(S) \in Nat /\ Cardinality(H) \in Nat
    BY <1>1, FS_CardinalityType
<1> HIDE DEF P, H, g
<1> QED BY <1>1, <1>3, <1>4, <1>5

LEMMA CoveringIsFinite ==
    ASSUME TypeOK, NEW p, NEW S \in SUBSET Covering(p)
    PROVE  /\ IsFiniteSet(Covering(p)) /\ Cardinality(Covering(p)) \in Nat
           /\ IsFiniteSet(S) /\ Cardinality(S) \in Nat
           /\ Cardinality(S) <= Cardinality(Covering(p))
<1>1. Covering(p) \in SUBSET VRegs
    BY DEF Covering, TypeOK
<1>2. IsFiniteSet(Covering(p))
    BY <1>1, RegsAssumption, FS_Subset
<1> QED BY <1>2, FS_Subset, FS_CardinalityType

(* The live intervals and the next one lie over its start. *)
LEMMA LiveCoverStart ==
    ASSUME TightInv, NEW iv \in VRegs, IsNext(iv)
    PROVE  /\ iv \in Seen /\ iv \notin active
           /\ start[iv] \in Nat /\ start[iv] <= end[iv] /\ start[iv] \in 0 .. pos
           /\ Live(iv) \cup {iv} \subseteq Covering(start[iv])
<1> USE DEF TightInv, ScanInv
<1>1. iv \in pending /\ iv \in Seen /\ iv \notin active
    BY DEF IsNext, EachPlacedOnce, TypeOK, NothingPlacedYet
<1>2. start[iv] \in Nat /\ end[iv] \in Nat /\ pos \in Nat
    BY <1>1 DEF TypeOK
<1>3. start[iv] <= end[iv] /\ start[iv] \in 0 .. pos
    BY <1>1, <1>2 DEF IntervalsOrdered
<1>4. ASSUME NEW v \in Live(iv) PROVE v \in Covering(start[iv])
  <2>1. v \in active /\ v \in Seen /\ ~(end[v] < start[iv])
    BY <1>4 DEF Live, Expired, TypeOK
  <2>2. start[v] <= start[iv]
    BY <1>1, <2>1 DEF ActiveStarted
  <2>3. end[v] \in Nat
    BY <2>1 DEF TypeOK
  <2> QED BY <1>2, <2>1, <2>2, <2>3 DEF Covering
<1>5. iv \in Covering(start[iv])
    BY <1>1, <1>2, <1>3 DEF Covering
<1> QED BY <1>1, <1>2, <1>3, <1>4, <1>5

(* A register that is not free for the next interval is a live one's. *)
LEMMA NotFreeIsLive ==
    ASSUME ScanInv, NEW iv \in VRegs, NEW p \in PhysRegs, p \notin FreeFor(iv)
    PROVE  \E v \in Live(iv) : allocation[v] = p
BY DEF ScanInv, FreeIffUnheld, FreeFor, Live

(* What a step of the scan leaves alone. *)
LEMMA ScanKeepsIntervals ==
    ASSUME TightInv, NEW iv \in VRegs, ScanStep(iv)
    PROVE  /\ IntervalsOrdered' /\ NothingUsedYet'
           /\ Seen' = Seen /\ start' = start /\ end' = end /\ pos' = pos
           /\ \A p : Covering(p)' = Covering(p)
BY DEF TightInv, ScanStep, intervalVars, IntervalsOrdered, NothingUsedYet, Seen, Covering

LEMMA ActiveStartedStep ==
    ASSUME TightInv, NEW iv \in VRegs, ScanStep(iv), active' \subseteq active \cup {iv}
    PROVE  ActiveStarted'
BY ScanKeepsIntervals DEF TightInv, ScanStep, IsNext, ActiveStarted

LEMMA TakeIsTight ==
    ASSUME TightInv, NEW iv \in VRegs, ScanStep(iv), TakeFreeRegister(iv)
    PROVE  TightInv'
<1> USE RegsAssumption
<1>0. ScanInv /\ TypeOK /\ IsNext(iv)
    BY DEF TightInv, ScanInv, ScanStep
<1>1. PICK chosen \in FreeFor(iv) :
        /\ \A p \in FreeFor(iv) : chosen <= p
        /\ allocation' = With(allocation, iv, chosen)
        /\ active' = Live(iv) \cup {iv}
        /\ used' = IF chosen + 1 > used THEN chosen + 1 ELSE used
        /\ spilled' = spilled
    BY DEF TakeFreeRegister
<1>2. chosen \in PhysRegs /\ chosen \in Nat /\ used \in Nat
    BY <1>0 DEF FreeFor, Expired, TypeOK, PhysRegs
<1>3. ScanInv'
    BY <1>0, TakeStep
<1>4. ActiveStarted'
    BY <1>1, ActiveStartedStep DEF Live
<1>5. SpillsAreForced'
    BY <1>1, ScanKeepsIntervals DEF SpillsAreForced, TightInv
<1>6. Cardinality(Covering(start[iv])) \in Nat
      /\ Cardinality(Covering(start[iv])) >= chosen + 1
  <2>1. Live(iv) \in SUBSET Covering(start[iv])
        /\ Live(iv) \cup {iv} \in SUBSET Covering(start[iv]) /\ iv \notin Live(iv)
    BY <1>0, LiveCoverStart DEF Live
  <2>2. ASSUME NEW p \in 0 .. chosen - 1 PROVE \E v \in Live(iv) : allocation[v] = p
    <3>1. p \in PhysRegs /\ p < chosen
        BY <1>2 DEF PhysRegs
    <3>2. p \notin FreeFor(iv)
        BY <1>1, <1>2, <3>1
    <3> QED BY <1>0, <3>1, <3>2, NotFreeIsLive
  <2>3. IsFiniteSet(Live(iv))
    BY <1>0, <2>1, CoveringIsFinite
  <2>4. Cardinality(Live(iv)) \in Nat /\ Cardinality(Live(iv)) >= chosen
    BY <1>2, <2>2, <2>3, HoldersAreMany
  <2>5. Cardinality(Live(iv) \cup {iv}) = Cardinality(Live(iv)) + 1
    BY <2>1, <2>3, FS_AddElement
  <2>6. Cardinality(Live(iv) \cup {iv}) <= Cardinality(Covering(start[iv]))
        /\ Cardinality(Covering(start[iv])) \in Nat
    BY <1>0, <2>1, CoveringIsFinite
  <2> QED BY <1>2, <2>4, <2>5, <2>6
<1>7. DeclaredRegistersSuffice'
  <2>1. start[iv] \in 0 .. pos
    BY <1>0, LiveCoverStart
  <2>2. used' \in Nat /\ used' >= used /\ used' >= chosen + 1
        /\ (used' = used \/ used' = chosen + 1)
    BY <1>1, <1>2
  <2>3. ASSUME NEW v \in DOMAIN allocation' PROVE allocation'[v] < used'
    <3>1. CASE v = iv
        BY <1>1, <1>2, <2>2, <3>1 DEF With
    <3>2. CASE v # iv
      <4>1. v \in DOMAIN allocation /\ allocation'[v] = allocation[v]
        BY <1>1, <2>3, <3>2 DEF With
      <4>2. allocation[v] < used /\ allocation[v] \in Nat
        BY <1>0, <4>1 DEF TightInv, DeclaredRegistersSuffice, TypeOK, PhysRegs
      <4> QED BY <1>2, <2>2, <4>1, <4>2
    <3> QED BY <3>1, <3>2
  <2>4. ASSUME used' > 0 PROVE \E p \in 0 .. pos : Cardinality(Covering(p)) >= used'
    <3>1. CASE used' = used
        BY <2>4, <3>1 DEF TightInv, DeclaredRegistersSuffice
    <3>2. CASE used' = chosen + 1
        BY <1>6, <2>1, <3>2
    <3> QED BY <2>2, <3>1, <3>2
  <2> QED BY <2>3, <2>4, ScanKeepsIntervals DEF DeclaredRegistersSuffice
<1> QED BY <1>3, <1>4, <1>5, <1>7, ScanKeepsIntervals DEF TightInv

(* When no register is free, the active intervals hold them all. *)
LEMMA AllAreHeld ==
    ASSUME TightInv, NEW iv \in VRegs, IsNext(iv), FreeFor(iv) = {}
    PROVE  /\ Live(iv) = active /\ IsFiniteSet(active)
           /\ Cardinality(active) \in Nat /\ Cardinality(active) >= NumPhysicalRegs
<1>1. ScanInv /\ TypeOK
    BY DEF TightInv, ScanInv
<1>2. Live(iv) = active
    BY NoneFree
<1>3. IsFiniteSet(active)
    BY <1>1, <1>2, LiveCoverStart, CoveringIsFinite
<1>4. \A p \in 0 .. NumPhysicalRegs - 1 : \E v \in active : allocation[v] = p
    BY <1>1, <1>2, NotFreeIsLive DEF PhysRegs
<1> QED BY <1>2, <1>3, <1>4, HoldersAreMany, RegsAssumption

LEMMA SpillLongestIsTight ==
    ASSUME TightInv, NEW iv \in VRegs, ScanStep(iv), SpillLongest(iv)
    PROVE  TightInv'
<1> USE RegsAssumption
<1>0. ScanInv /\ TypeOK /\ IsNext(iv) /\ FreeFor(iv) = {}
    BY DEF TightInv, ScanInv, ScanStep, SpillLongest
<1>1. PICK longest \in active :
        /\ spilled' = spilled \cup {longest}
        /\ allocation' = With(Without(allocation, longest), iv, allocation[longest])
        /\ active' = (active \ {longest}) \cup {iv}
        /\ used' = used
    BY <1>0, AllAreHeld DEF SpillLongest
<1>2. ScanInv'
    BY <1>0, SpillLongestStep
<1>3. ActiveStarted'
    BY <1>1, ActiveStartedStep
<1>4. iv \notin active /\ active \cup {iv} \subseteq Covering(start[iv])
      /\ start[iv] \in Nat
    BY <1>0, LiveCoverStart, AllAreHeld
<1>5. Cardinality(Covering(start[iv]) \ {longest}) >= NumPhysicalRegs
  <2> DEFINE S == (active \ {longest}) \cup {iv}
             C == Covering(start[iv]) \ {longest}
  <2>1. Cardinality(active) \in Nat /\ Cardinality(active) >= NumPhysicalRegs
        /\ IsFiniteSet(active)
    BY <1>0, AllAreHeld
  <2>2. IsFiniteSet(active \ {longest})
        /\ Cardinality(active \ {longest}) = Cardinality(active) - 1
    BY <2>1, FS_RemoveElement
  <2>3. Cardinality(S) = Cardinality(active \ {longest}) + 1
    BY <1>4, <2>2, FS_AddElement
  <2>4. IsFiniteSet(Covering(start[iv]))
    BY <1>0, CoveringIsFinite
  <2>5. IsFiniteSet(C) /\ S \in SUBSET C
    BY <1>4, <2>4, FS_RemoveElement
  <2>6. Cardinality(S) <= Cardinality(C) /\ Cardinality(C) \in Nat
    BY <2>5, FS_Subset, FS_CardinalityType
  <2> HIDE DEF S, C
  <2>7. Cardinality(C) >= NumPhysicalRegs
    BY <2>1, <2>2, <2>3, <2>6
  <2> QED BY <2>7 DEF C
<1>6. start[iv] \in start[longest] .. end[longest]
  <2>1. longest \in Covering(start[iv]) /\ longest \in Seen
    BY <1>1, <1>4 DEF Covering
  <2>2. start[longest] \in Nat /\ end[longest] \in Nat
    BY <1>0, <2>1 DEF TypeOK
  <2> QED BY <1>4, <2>1, <2>2 DEF Covering
<1>7. SpillsAreForced'
    BY <1>1, <1>5, <1>6, ScanKeepsIntervals DEF SpillsAreForced, TightInv
<1>8. DeclaredRegistersSuffice'
  <2>1. longest \in DOMAIN allocation
    BY <1>0 DEF TypeOK
  <2>2. \A v \in DOMAIN allocation : allocation[v] < used
    BY DEF TightInv, DeclaredRegistersSuffice
  <2>3. \A v \in DOMAIN allocation' : \E u \in DOMAIN allocation : allocation'[v] = allocation[u]
    BY <1>1, <2>1 DEF With, Without
  <2> QED BY <1>1, <2>2, <2>3, ScanKeepsIntervals DEF TightInv, DeclaredRegistersSuffice
<1> QED BY <1>2, <1>3, <1>7, <1>8, ScanKeepsIntervals DEF TightInv

LEMMA SpillIntervalIsTight ==
    ASSUME TightInv, NEW iv \in VRegs, ScanStep(iv), SpillInterval(iv)
    PROVE  TightInv'
<1> USE RegsAssumption
<1>0. ScanInv /\ TypeOK /\ IsNext(iv) /\ FreeFor(iv) = {}
    BY DEF TightInv, ScanInv, ScanStep, SpillInterval
<1>1. spilled' = spilled \cup {iv} /\ active' = Live(iv) /\ Live(iv) = active
      /\ allocation' = allocation /\ used' = used
    BY <1>0, AllAreHeld DEF SpillInterval
<1>2. ScanInv'
    BY <1>0, SpillIntervalStep
<1>3. ActiveStarted'
    BY <1>1, ActiveStartedStep
<1>4. iv \in Seen /\ iv \notin active /\ active \cup {iv} \subseteq Covering(start[iv])
      /\ start[iv] \in Nat /\ start[iv] <= end[iv]
    BY <1>0, <1>1, LiveCoverStart
<1>5. Cardinality(Covering(start[iv]) \ {iv}) >= NumPhysicalRegs
  <2> DEFINE C == Covering(start[iv]) \ {iv}
  <2>1. Cardinality(active) \in Nat /\ Cardinality(active) >= NumPhysicalRegs
    BY <1>0, AllAreHeld
  <2>2. IsFiniteSet(C)
    BY <1>0, CoveringIsFinite, FS_RemoveElement
  <2>3. active \in SUBSET C
    BY <1>4
  <2>4. Cardinality(active) <= Cardinality(C) /\ Cardinality(C) \in Nat
    BY <2>2, <2>3, FS_Subset, FS_CardinalityType
  <2> HIDE DEF C
  <2>5. Cardinality(C) >= NumPhysicalRegs
    BY <2>1, <2>4
  <2> QED BY <2>5 DEF C
<1>6. start[iv] \in start[iv] .. end[iv]
    BY <1>0, <1>4 DEF TypeOK
<1>7. SpillsAreForced'
    BY <1>1, <1>5, <1>6, ScanKeepsIntervals DEF SpillsAreForced, TightInv
<1>8. DeclaredRegistersSuffice'
    BY <1>1, ScanKeepsIntervals DEF TightInv, DeclaredRegistersSuffice
<1> QED BY <1>2, <1>3, <1>7, <1>8, ScanKeepsIntervals DEF TightInv

LEMMA InitIsTight == Init => TightInv
<1> SUFFICES ASSUME Init PROVE TightInv
    OBVIOUS
<1>1. ScanInv
    BY InitScan
<1>2. Seen = {} /\ active = {} /\ spilled = {} /\ DOMAIN allocation = {} /\ used = 0
    BY DEF Init, Seen
<1> QED BY <1>1, <1>2 DEF TightInv, IntervalsOrdered, NothingUsedYet, ActiveStarted,
                          SpillsAreForced, DeclaredRegistersSuffice

(* Before the scan there is nothing to be tight. *)
LEMMA CollectingIsTight ==
    ASSUME TightInv, ReadInstr \/ SortIntervals
    PROVE  TightInv'
<1>0. ScanInv /\ TypeOK /\ ~scanning
    BY DEF TightInv, ScanInv, ReadInstr, SortIntervals
<1>1. ScanInv'
    BY <1>0, ReadInstrStep, SortIntervalsStep
<1>2. active = {} /\ spilled = {} /\ DOMAIN allocation = {} /\ used = 0
    BY <1>0 DEF ScanInv, NothingPlacedYet, TightInv, NothingUsedYet
<1>3. active' = {} /\ spilled' = {} /\ DOMAIN allocation' = {} /\ used' = 0
    BY <1>2 DEF ReadInstr, SortIntervals, resultVars
<1>4. IntervalsOrdered'
  <2>1. CASE ReadInstr
    <3>1. PICK def \in VRegs \cup {NoReg}, uses \in SUBSET VRegs :
            LET mentioned == uses \cup ({def} \ {NoReg}) IN
            /\ start' = [v \in Seen \cup mentioned |-> IF v \in Seen THEN start[v] ELSE pos]
            /\ end' = [v \in Seen \cup mentioned |-> IF v \in mentioned THEN pos ELSE end[v]]
        BY <2>1 DEF ReadInstr
    <3>2. PICK mentioned : mentioned = uses \cup ({def} \ {NoReg})
        OBVIOUS
    <3>3. Seen' = Seen \cup mentioned
        BY <3>1, <3>2 DEF Seen
    <3>4. pos \in Nat /\ pos' = pos + 1
        BY <1>0, <2>1 DEF TypeOK, ReadInstr
    <3>5. \A v \in Seen : start[v] \in Nat /\ end[v] \in Nat /\ start[v] <= end[v] /\ end[v] <= pos
        BY <1>0 DEF TypeOK, TightInv, IntervalsOrdered
    <3>6. ASSUME NEW v \in Seen' PROVE start'[v] <= end'[v] /\ end'[v] <= pos'
      <4>1. start'[v] = (IF v \in Seen THEN start[v] ELSE pos)
            /\ end'[v] = (IF v \in mentioned THEN pos ELSE end[v])
        BY <3>1, <3>2, <3>3, <3>6
      <4> QED BY <3>3, <3>4, <3>5, <3>6, <4>1
    <3> QED BY <3>6 DEF IntervalsOrdered
  <2>2. CASE SortIntervals
    BY <2>2 DEF SortIntervals, intervalVars, TightInv, IntervalsOrdered, Seen
  <2> QED BY <2>1, <2>2
<1> QED BY <1>1, <1>3, <1>4 DEF TightInv, NothingUsedYet, ActiveStarted,
                               SpillsAreForced, DeclaredRegistersSuffice

LEMMA NextIsTight == TightInv /\ [Next]_vars => TightInv'
<1> SUFFICES ASSUME TightInv, [Next]_vars PROVE TightInv'
    OBVIOUS
<1>1. CASE ReadInstr \/ SortIntervals
    BY <1>1, CollectingIsTight
<1>2. ASSUME NEW iv \in VRegs, Scan(iv) PROVE TightInv'
  <2>1. ScanStep(iv)
    BY <1>2 DEF Scan, ScanStep
  <2> QED BY <1>2, <2>1, TakeIsTight, SpillLongestIsTight, SpillIntervalIsTight DEF Scan
<1>3. CASE UNCHANGED vars
  <2>1. ScanInv'
    BY NextScan DEF TightInv
  <2> QED BY <1>3, <2>1 DEF vars, intervalVars, resultVars, TightInv, IntervalsOrdered,
          NothingUsedYet, ActiveStarted, SpillsAreForced, DeclaredRegistersSuffice,
          Covering, Seen
<1> QED BY <1>1, <1>2, <1>3 DEF Next

(* No register is spilled and none is declared that the intervals do not   *)
(* require: at some position as many intervals lie over one another.       *)
THEOREM AllocationTight == Spec => []AllocationIsTight
<1>1. TightInv => AllocationIsTight
    BY DEF TightInv, AllocationIsTight
<1> QED BY <1>1, InitIsTight, NextIsTight, PTL DEF Spec
=============================================================================
