----------------------------- MODULE UserProofs -----------------------------
(***************************************************************************)
(* Theorems about UserProcesses, for every number of processes, pages,     *)
(* frames and TLB entries.                                                 *)
(*                                                                         *)
(* First its types, who waits for whom on masterSem, and who is in the     *)
(* pager.  They need each other: the types of the pager need that the swap *)
(* table and frameIndexToReplace stay as they are between the two          *)
(* transfers of a replacement, and so that nobody else is in the pager.    *)
(*                                                                         *)
(* Then what holds as long as no process ends inside alloc_supp (~raced):  *)
(* each process has its own support structure, the three places that keep  *)
(* a translation agree, and, while no structure is used twice (~reused),   *)
(* the pages hold what was written to them.                                *)
(***************************************************************************)
EXTENDS UserProcesses, FiniteSetTheorems, WellFoundedInduction, TLAPS

LEMMA Constants ==
  /\ UPROCMAX \in Nat \ {0} /\ MAXPAGES \in Nat \ {0} /\ POOLSIZE \in Nat \ {0}
  /\ TLBSIZE \in Nat \ {0} /\ FRAMEPOOLSTART \in Nat
  /\ NULL \notin Supp /\ NULL \notin Asid
BY LifecycleAssumption, PagerAssumption DEF Supp, Asid

(* Every set of numbers has a least element: the form induction takes      *)
(* here.                                                                   *)
LEMMA LeastExists ==
  ASSUME NEW S \in SUBSET Nat, S # {}
  PROVE  \E m \in S : \A n \in S : m <= n
<1> DEFINE R == {ss \in Nat \X Nat : ss[1] < ss[2]}
<1>1. \A m, n \in Nat : n < m => <<n, m>> \in R
  OBVIOUS
<1>2. PICK m \in S : \A n \in S : ~(<<n, m>> \in R)
  <2> HIDE DEF R
  <2>1. IsWellFoundedOn(R, Nat)
    BY NatLessThanWellFounded DEF R, OpToRel
  <2> QED  BY <2>1, WFMin, Zenon
<1> HIDE DEF R
<1>3. \A n \in S : ~(n < m)
  BY <1>1, <1>2
<1> QED  BY <1>3

----------------------------------------------------------------------------
(* The life cycle                                                          *)

LifeTypes ==
  /\ freeSupp_tp \in Supp \cup {NULL}
  /\ prev_supp \in [Supp -> Supp \cup {NULL}]
  /\ sup_asid \in [Supp -> 0 .. UPROCMAX]
  /\ at \in {"alloc", "take", "step", "store", "last", "clear", "init", "create", "wait",
             "blocked", "end", "done", "fault"}
  /\ supp \in Supp \cup {NULL} /\ below \in Supp \cup {NULL}
  /\ started \in 0 .. UPROCMAX /\ awaited \in 0 .. UPROCMAX
  /\ masterSem \in Int
  /\ uproc \in [Asid -> {"none", "alive", "ended", "killed"}]
  /\ p_supportStruct \in [Asid -> Supp \cup {NULL}]
  /\ raced \in BOOLEAN /\ reused \in BOOLEAN

Creating == {"alloc", "take", "step", "store", "last", "clear", "init", "create", "fault"}

(* Where test_phase_3 stands, and what that says of its variables.         *)
LifeControl ==
  /\ at \in Creating => started < UPROCMAX /\ awaited = 0
  /\ at \notin Creating => started = UPROCMAX
  /\ at \in {"take", "step"} => freeSupp_tp # NULL
  /\ at \in {"step", "store", "last", "clear", "init", "create"} => supp # NULL
  /\ at \in {"wait", "blocked"} => awaited < UPROCMAX
  /\ at \in {"end", "done"} => awaited = UPROCMAX
  /\ \A a \in Asid : uproc[a] = "none" <=> a > started
  /\ \A a \in Asid : uproc[a] # "none" => p_supportStruct[a] # NULL

Ended == {a \in Asid : uproc[a] = "ended"}

(* masterSem counts the processes that have ended and were not waited for. *)
MasterCounts ==
  /\ masterSem = Cardinality(Ended) - awaited - (IF at = "blocked" THEN 1 ELSE 0)
  /\ IF at = "blocked" THEN masterSem = -1 ELSE masterSem >= 0

LifeInv == LifeTypes /\ LifeControl /\ MasterCounts

LEMMA EndedFacts ==
  /\ IsFiniteSet(Asid) /\ Cardinality(Asid) = UPROCMAX
  /\ IsFiniteSet(Ended) /\ Cardinality(Ended) \in Nat /\ Cardinality(Ended) <= UPROCMAX
  /\ Cardinality(Ended) = UPROCMAX => Ended = Asid
<1>1. IsFiniteSet(Asid) /\ Cardinality(Asid) = UPROCMAX
  BY Constants, FS_Interval DEF Asid
<1>2. Ended \in SUBSET Asid
  BY DEF Ended
<1> QED  BY <1>1, <1>2, FS_Subset, FS_CardinalityType

LEMMA LifeInitial == LifeInit => LifeInv
<1> SUFFICES ASSUME LifeInit PROVE LifeInv
  OBVIOUS
<1>1. LifeTypes
  <2>1. UPROCMAX - 1 \in Supp /\ \A n \in Supp : n # 0 => n - 1 \in Supp
    BY Constants DEF Supp
  <2>2. prev_supp \in [Supp -> Supp \cup {NULL}]
    <3>1. \A n \in Supp : (IF n = 0 THEN NULL ELSE n - 1) \in Supp \cup {NULL}
      BY <2>1
    <3>2. prev_supp = [n \in Supp |-> IF n = 0 THEN NULL ELSE n - 1]
      BY DEF LifeInit
    <3> QED  BY <3>1, <3>2
  <2>3. started \in 0 .. UPROCMAX /\ awaited \in 0 .. UPROCMAX /\ 0 \in 0 .. UPROCMAX
    BY Constants DEF LifeInit
  <2>4. /\ sup_asid \in [Supp -> 0 .. UPROCMAX]
        /\ uproc \in [Asid -> {"none", "alive", "ended", "killed"}]
        /\ p_supportStruct \in [Asid -> Supp \cup {NULL}]
    BY <2>3 DEF LifeInit
  <2>5. freeSupp_tp \in Supp /\ at = "alloc" /\ supp = NULL /\ below = NULL /\ masterSem \in Int
    BY <2>1 DEF LifeInit
  <2>6. raced \in BOOLEAN /\ reused \in BOOLEAN
    BY DEF LifeInit
  <2> QED  BY <2>2, <2>3, <2>4, <2>5, <2>6 DEF LifeTypes
<1>2. LifeControl
  BY Constants DEF LifeInit, LifeControl, Creating, Asid
<1>3. MasterCounts
  <2>1. Ended = {}
    BY DEF LifeInit, Ended
  <2> QED  BY <2>1, FS_EmptySet DEF LifeInit, MasterCounts
<1> QED  BY <1>1, <1>2, <1>3 DEF LifeInv

LEMMA LifeKept == LifeInv /\ UNCHANGED lifeVars => LifeInv'
BY DEF LifeInv, LifeTypes, LifeControl, MasterCounts, Ended, lifeVars

LEMMA LifeAlloc == LifeInv /\ alloc_supp => LifeInv'
<1> SUFFICES ASSUME LifeInv, alloc_supp PROVE LifeInv'
  OBVIOUS
<1> USE Constants DEF LifeInv
<1>1. UNCHANGED <<sup_asid, started, awaited, masterSem, uproc, p_supportStruct, raced>>
  BY DEF alloc_supp, TestEmpty, TakeTop, ReadBelow, StoreTop, ClearLinks
<1>2. /\ at \in {"alloc", "take", "step", "store", "last", "clear"}
      /\ at' \in {"fault", "take", "step", "last", "store", "clear", "init"}
  BY DEF alloc_supp, TestEmpty, TakeTop, ReadBelow, StoreTop, ClearLinks
<1>3. LifeTypes'
  <2>1. CASE TestEmpty
    BY <1>1, <1>2, <2>1 DEF LifeTypes, TestEmpty
  <2>2. CASE TakeTop
    BY <1>1, <1>2, <2>2 DEF LifeTypes, TakeTop
  <2>3. CASE ReadBelow
    BY <1>1, <1>2, <2>3 DEF LifeTypes, LifeControl, ReadBelow
  <2>4. CASE StoreTop
    BY <1>1, <1>2, <2>4 DEF LifeTypes, StoreTop
  <2>5. CASE ClearLinks
    BY <1>1, <1>2, <2>5 DEF LifeTypes, LifeControl, ClearLinks
  <2> QED  BY <2>1, <2>2, <2>3, <2>4, <2>5 DEF alloc_supp
<1>4. LifeControl'
  <2>1. started < UPROCMAX /\ awaited = 0
    BY <1>2 DEF LifeControl, Creating
  <2>2. /\ at' \in {"take", "step"} => freeSupp_tp' # NULL
        /\ at' \in {"step", "store", "last", "clear", "init"} => supp' # NULL
    BY DEF LifeControl, alloc_supp, TestEmpty, TakeTop, ReadBelow, StoreTop, ClearLinks
  <2> QED  BY <1>1, <1>2, <2>1, <2>2 DEF LifeControl, Creating
<1>5. MasterCounts'
  BY <1>1, <1>2 DEF MasterCounts, Ended
<1> QED  BY <1>3, <1>4, <1>5

LEMMA LifeCreate == LifeInv /\ (init_uproc_support \/ create_Process) => LifeInv'
<1> SUFFICES ASSUME LifeInv, init_uproc_support \/ create_Process PROVE LifeInv'
  OBVIOUS
<1> USE Constants DEF LifeInv
<1>1. CASE init_uproc_support
  <2>1. started + 1 \in 0 .. UPROCMAX /\ supp \in Supp
    BY <1>1 DEF init_uproc_support, LifeTypes, LifeControl, Creating
  <2>2. LifeTypes'
    BY <1>1, <2>1 DEF init_uproc_support, LifeTypes
  <2>3. LifeControl' /\ MasterCounts'
    BY <1>1, <2>1 DEF init_uproc_support, LifeControl, Creating, MasterCounts, Ended
  <2> QED  BY <2>2, <2>3
<1>2. CASE create_Process
  <2>1. /\ at = "create" /\ started + 1 \in Asid /\ supp \in Supp /\ awaited = 0
        /\ started < UPROCMAX /\ started \in Nat
    BY <1>2 DEF create_Process, LifeTypes, LifeControl, Creating, Asid
  <2>2. LifeTypes'
    BY <1>2, <2>1 DEF create_Process, LifeTypes, Asid
  <2>3. LifeControl'
    <3>1. uproc' = [uproc EXCEPT ![started + 1] = "alive"] /\ started' = started + 1
      BY <1>2 DEF create_Process
    <3>2. p_supportStruct' = [p_supportStruct EXCEPT ![started + 1] = supp]
      BY <1>2 DEF create_Process
    <3>3. at' = IF started' < UPROCMAX THEN "alloc" ELSE "wait"
      BY <1>2 DEF create_Process
    <3>4. \A a \in Asid : uproc'[a] = "none" <=> a > started'
      BY <2>1, <3>1 DEF LifeTypes, LifeControl, Asid
    <3>5. \A a \in Asid : uproc'[a] # "none" => p_supportStruct'[a] # NULL
      BY <2>1, <3>1, <3>2 DEF LifeTypes, LifeControl
    <3>6. awaited' = awaited
      BY <1>2 DEF create_Process
    <3> QED  BY <2>1, <3>1, <3>3, <3>4, <3>5, <3>6 DEF LifeControl, Creating
  <2>4. Ended' = Ended
    <3>1. uproc[started + 1] = "none"
      BY <2>1 DEF LifeControl
    <3> QED  BY <1>2, <2>1, <3>1 DEF create_Process, LifeTypes, Ended
  <2>5. MasterCounts'
    BY <1>2, <2>1, <2>4 DEF create_Process, MasterCounts
  <2> QED  BY <2>2, <2>3, <2>5
<1> QED  BY <1>1, <1>2

LEMMA LifeWait == LifeInv /\ (waitForUprocs \/ EndInstantiator) => LifeInv'
<1> SUFFICES ASSUME LifeInv, waitForUprocs \/ EndInstantiator PROVE LifeInv'
  OBVIOUS
<1> USE Constants DEF LifeInv
<1>1. CASE waitForUprocs
  <2>1. /\ UNCHANGED <<freeSupp_tp, prev_supp, sup_asid, supp, below, started, uproc,
                       p_supportStruct, raced, reused>>
        /\ at = "wait" /\ masterSem' = masterSem - 1
        /\ awaited \in Nat /\ awaited < UPROCMAX
    BY <1>1 DEF waitForUprocs, LifeTypes, LifeControl
  <2>2. \/ masterSem' < 0 /\ at' = "blocked" /\ awaited' = awaited
        \/ /\ ~(masterSem' < 0) /\ awaited' = awaited + 1
           /\ at' = IF awaited' = UPROCMAX THEN "end" ELSE "wait"
    BY <1>1 DEF waitForUprocs, afterP
  <2>3. LifeTypes'
    BY <2>1, <2>2 DEF LifeTypes
  <2>4. LifeControl'
    BY <2>1, <2>2 DEF LifeControl, Creating
  <2>5. Ended' = Ended
    BY <2>1 DEF Ended
  <2>6. MasterCounts'
    BY <2>1, <2>2, <2>5, EndedFacts DEF MasterCounts, LifeTypes
  <2> QED  BY <2>3, <2>4, <2>6
<1>2. CASE EndInstantiator
  <2>1. LifeTypes'
    BY <1>2 DEF EndInstantiator, LifeTypes
  <2>2. LifeControl'
    BY <1>2 DEF EndInstantiator, LifeTypes, LifeControl, Creating
  <2>3. Ended' = Ended
    BY <1>2 DEF EndInstantiator, LifeTypes, Ended
  <2>4. MasterCounts'
    BY <1>2, <2>3 DEF EndInstantiator, MasterCounts
  <2> QED  BY <2>1, <2>2, <2>4
<1> QED  BY <1>1, <1>2

LEMMA LifeEnds ==
  ASSUME LifeInv, NEW a \in Asid, terminate_support(a) \/ getMissingPage_NotFound(a)
  PROVE  LifeInv'
<1> USE Constants DEF LifeInv
<1>0. uproc[a] = "alive" /\ p_supportStruct[a] \in Supp
  BY DEF terminate_support, getMissingPage_NotFound, LifeTypes, LifeControl
<1>1. CASE terminate_support(a)
  <2>1. /\ UNCHANGED <<sup_asid, supp, below, started, p_supportStruct, reused>>
        /\ freeSupp_tp' = p_supportStruct[a]
        /\ prev_supp' = [prev_supp EXCEPT ![p_supportStruct[a]] = freeSupp_tp]
        /\ raced' = (raced \/ InWindow)
        /\ uproc' = [uproc EXCEPT ![a] = "ended"] /\ masterSem' = masterSem + 1
    BY <1>1 DEF terminate_support, notifyTerminated
  <2>2. \/ at # "blocked" /\ at' = at /\ awaited' = awaited
        \/ /\ at = "blocked" /\ awaited' = awaited + 1
           /\ at' = IF awaited' = UPROCMAX THEN "end" ELSE "wait"
    BY <1>1 DEF terminate_support, notifyTerminated, afterP
  <2>3. at = "blocked" => awaited < UPROCMAX
    BY DEF LifeControl
  <2>4. LifeTypes'
    <3>1. /\ freeSupp_tp' \in Supp \cup {NULL} /\ prev_supp' \in [Supp -> Supp \cup {NULL}]
          /\ uproc' \in [Asid -> {"none", "alive", "ended", "killed"}]
          /\ masterSem' \in Int /\ raced' \in BOOLEAN
      BY <1>0, <2>1 DEF LifeTypes, InWindow
    <3>2. awaited' \in 0 .. UPROCMAX
      BY <2>2, <2>3 DEF LifeTypes
    <3> QED  BY <2>1, <2>2, <3>1, <3>2 DEF LifeTypes
  <2>5. LifeControl'
    BY <1>0, <2>1, <2>2, <2>3 DEF LifeTypes, LifeControl, Creating
  <2>6. a \notin Ended /\ Ended' = Ended \cup {a}
    BY <1>0, <2>1 DEF Ended, LifeTypes
  <2>7. Cardinality(Ended') = Cardinality(Ended) + 1
    BY <2>6, EndedFacts, FS_AddElement
  <2>8. MasterCounts'
    BY <2>1, <2>2, <2>3, <2>7, EndedFacts DEF MasterCounts, LifeTypes
  <2> QED  BY <2>4, <2>5, <2>8
<1>2. CASE getMissingPage_NotFound(a)
  <2>1. LifeTypes'
    BY <1>2 DEF getMissingPage_NotFound, LifeTypes
  <2>2. LifeControl'
    BY <1>0, <1>2 DEF getMissingPage_NotFound, LifeTypes, LifeControl
  <2>3. Ended' = Ended
    BY <1>0, <1>2 DEF getMissingPage_NotFound, LifeTypes, Ended
  <2>4. MasterCounts'
    BY <1>2, <2>3 DEF getMissingPage_NotFound, MasterCounts
  <2> QED  BY <2>1, <2>2, <2>4
<1> QED  BY <1>1, <1>2

LEMMA LifeStep == LifeInv /\ [Next]_vars => LifeInv'
<1> SUFFICES ASSUME LifeInv, [Next]_vars PROVE LifeInv'
  OBVIOUS
<1>1. CASE Instantiator
  BY <1>1, LifeAlloc, LifeCreate, LifeWait DEF Instantiator, InitSupport
<1>2. ASSUME NEW a \in Asid, Ends(a) \/ Strays(a) PROVE LifeInv'
  BY <1>2, LifeEnds DEF Ends, Strays
<1>3. ASSUME NEW a \in Asid, PagerStep(a) PROVE LifeInv'
  BY <1>3, LifeKept DEF PagerStep, handleTLBInvalid, writeFromPoolToDev, writeFromDevToPool
<1>4. ASSUME NEW a \in Asid, NEW v \in Page,
             uTLB_RefillHandler(a, v) \/ Write(a, v) \/ EnterPager(a, v)
      PROVE  LifeInv'
  BY <1>4, LifeKept DEF uTLB_RefillHandler, Write, EnterPager
<1>5. CASE UNCHANGED vars
  BY <1>5, LifeKept DEF vars
<1> QED  BY <1>1, <1>2, <1>3, <1>4, <1>5 DEF Next, Stay

(* test_phase_3 ends after all of the processes have, and while it waits   *)
(* there is one that has not (p3test.c:43), however many there are and     *)
(* however they end.                                                       *)
THEOREM InstantiatorOutlives == Spec => []OutlivesItsProcesses
<1>1. LifeInv => OutlivesItsProcesses
  <2> SUFFICES ASSUME LifeInv PROVE OutlivesItsProcesses
    OBVIOUS
  <2> USE DEF LifeInv
  <2>1. ASSUME at = "done" PROVE \A a \in Asid : uproc[a] = "ended"
    <3>1. Cardinality(Ended) = UPROCMAX
      BY <2>1, EndedFacts, Constants DEF MasterCounts, LifeControl, LifeTypes
    <3> QED  BY <3>1, EndedFacts DEF Ended
  <2>2. ASSUME at = "blocked" PROVE \E a \in Asid : uproc[a] \in {"alive", "killed"}
    <3>1. Cardinality(Ended) # UPROCMAX
      BY <2>2, EndedFacts, Constants DEF MasterCounts, LifeControl, LifeTypes
    <3>2. PICK a \in Asid : uproc[a] # "ended"
      BY <3>1, EndedFacts DEF Ended
    <3>3. uproc[a] # "none"
      BY <2>2, Constants DEF LifeControl, Creating, Asid
    <3> QED  BY <3>2, <3>3 DEF LifeTypes
  <2> QED  BY <2>1, <2>2 DEF OutlivesItsProcesses
<1>2. Init => LifeInv
  BY LifeInitial DEF Init
<1> QED  BY <1>1, <1>2, LifeStep, PTL DEF Spec
----------------------------------------------------------------------------
(* The pager: types                                                        *)

Entry == [asid : 0 .. UPROCMAX, page : Page, pfn : Nat, valid : BOOLEAN]
SwapEntry == [sw_asid : 0 .. UPROCMAX, sw_pte : Supp \X Page]

MemTypes ==
  /\ pgTbl \in [Supp -> [Page -> Entry]]
  /\ swapTable \in [Frame -> {Unused} \cup SwapEntry]
  /\ frameIndexToReplace \in Frame
  /\ tlb \in [0 .. TLBSIZE - 1 -> Entry]
  /\ tlbIndex \in 0 .. TLBSIZE - 1
  /\ swapSem \in Int /\ swapQueue \in Seq(Asid)
  /\ step \in [Asid -> {"user", "queue", "pager", "out", "in"}]
  /\ missing \in [Asid -> Page]
  /\ written \in [Asid -> [Page -> Nat]]
  /\ lost \subseteq Asid \X Page

LEMMA TypesSplit == TypeOK <=> LifeTypes /\ MemTypes
BY DEF TypeOK, LifeTypes, MemTypes, Entry, SwapEntry

(* The processes in the pager, and those that wait for it.                 *)
Turns ==
  \/ InPager = {} /\ swapSem = 1 /\ swapQueue = <<>>
  \/ \E x \in Asid : InPager = {x} /\ swapSem = 0 - Len(swapQueue)

Queued ==
  /\ \A i \in 1 .. Len(swapQueue) : step[swapQueue[i]] = "queue"
  /\ \A i, j \in 1 .. Len(swapQueue) : swapQueue[i] = swapQueue[j] => i = j

PagerControl ==
  /\ \A a \in Asid : uproc[a] = "none" => step[a] = "user"
  /\ \A a \in Asid : step[a] = "out" => frameIsOccupied(frameIndexToReplace)
  /\ Turns
  /\ Queued

UserInv == LifeInv /\ MemTypes /\ PagerControl

LEMMA InitialEntry == NoEntry \in Entry
BY Constants DEF NoEntry, Entry, Page

LEMMA UserInitial == Init => UserInv
<1> SUFFICES ASSUME Init PROVE UserInv
  OBVIOUS
<1>1. LifeInv
  BY LifeInitial DEF Init
<1>2. MemTypes
  <2>1. 0 \in Page /\ 0 \in Frame /\ 0 \in 0 .. TLBSIZE - 1
    BY Constants DEF Page, Frame
  <2>2. pgTbl \in [Supp -> [Page -> Entry]] /\ tlb \in [0 .. TLBSIZE - 1 -> Entry]
    BY InitialEntry DEF Init
  <2>3. swapTable \in [Frame -> {Unused} \cup SwapEntry]
    BY DEF Init
  <2>4. written \in [Asid -> [Page -> Nat]] /\ missing \in [Asid -> Page]
    BY <2>1 DEF Init
  <2>5. /\ step \in [Asid -> {"user", "queue", "pager", "out", "in"}]
        /\ swapSem \in Int /\ swapQueue \in Seq(Asid) /\ lost = {}
        /\ frameIndexToReplace = 0 /\ tlbIndex = 0
    BY DEF Init
  <2> QED  BY <2>1, <2>2, <2>3, <2>4, <2>5 DEF MemTypes
<1>3. PagerControl
  BY DEF Init, PagerControl, Turns, Queued, InPager
<1> QED  BY <1>1, <1>2, <1>3 DEF UserInv

(* The processes move, the memory does not.                                *)
LEMMA PagerKept ==
  ASSUME UserInv, LifeInv', UNCHANGED memVars,
         \A a \in Asid : uproc'[a] = "none" => uproc[a] = "none"
  PROVE  UserInv'
<1>1. MemTypes'
  BY DEF UserInv, MemTypes, memVars
<1>2. PagerControl'
  BY DEF UserInv, PagerControl, Turns, Queued, InPager, frameIsOccupied, memVars
<1> QED  BY <1>1, <1>2 DEF UserInv

(* The memory changes, and nobody moves.                                   *)
LEMMA TurnsKept ==
  ASSUME UserInv, MemTypes', UNCHANGED <<lifeVars, swapSem, swapQueue, step,
                                         swapTable, frameIndexToReplace>>
  PROVE  UserInv'
<1>1. LifeInv'
  BY LifeKept DEF UserInv
<1>2. PagerControl'
  BY DEF UserInv, PagerControl, Turns, Queued, InPager, frameIsOccupied, lifeVars
<1> QED  BY <1>1, <1>2 DEF UserInv

LEMMA UserInstantiator == UserInv /\ LifeInv' /\ Instantiator => UserInv'
<1> SUFFICES ASSUME UserInv, LifeInv', Instantiator PROVE UserInv'
  OBVIOUS
<1>1. CASE (alloc_supp \/ waitForUprocs \/ EndInstantiator) /\ UNCHANGED memVars
  <2>1. \A a \in Asid : uproc'[a] = "none" => uproc[a] = "none"
    BY <1>1 DEF alloc_supp, TestEmpty, TakeTop, ReadBelow, StoreTop, ClearLinks, waitForUprocs,
       EndInstantiator, UserInv, LifeInv, LifeTypes
  <2> QED  BY <1>1, <2>1, PagerKept
<1>2. CASE create_Process /\ UNCHANGED memVars
  <2>1. \A a \in Asid : uproc'[a] = "none" => uproc[a] = "none"
    BY <1>2 DEF create_Process, UserInv, LifeInv, LifeTypes
  <2> QED  BY <1>2, <2>1, PagerKept
<1>3. CASE InitSupport
  <2>1. supp \in Supp /\ sup_asid'[supp] \in 0 .. UPROCMAX
    BY <1>3 DEF InitSupport, init_uproc_support, UserInv, LifeInv, LifeTypes, LifeControl
  <2>2. /\ UNCHANGED <<swapTable, frameIndexToReplace, tlb, tlbIndex, swapSem, swapQueue, step,
                       missing, ram, flash, written, lost, uproc>>
        /\ pgTbl' = [pgTbl EXCEPT ![supp] =
                       [v \in Page |-> [asid |-> sup_asid'[supp], page |-> v, pfn |-> 0,
                                        valid |-> FALSE]]]
    BY <1>3 DEF InitSupport, init_uproc_support
  <2>3. [v \in Page |-> [asid |-> sup_asid'[supp], page |-> v, pfn |-> 0, valid |-> FALSE]]
        \in [Page -> Entry]
    BY <2>1 DEF Entry
  <2>4. pgTbl' \in [Supp -> [Page -> Entry]]
    BY <2>1, <2>2, <2>3 DEF UserInv, MemTypes
  <2>5. MemTypes'
    BY <2>2, <2>4 DEF UserInv, MemTypes
  <2>6. PagerControl'
    BY <2>2 DEF UserInv, PagerControl, Turns, Queued, InPager, frameIsOccupied
  <2> QED  BY <2>5, <2>6 DEF UserInv
<1> QED  BY <1>1, <1>2, <1>3 DEF Instantiator

LEMMA UserEnds ==
  ASSUME UserInv, LifeInv', NEW a \in Asid, Ends(a) \/ Strays(a)
  PROVE  UserInv'
<1>1. \A b \in Asid : uproc'[b] = "none" => uproc[b] = "none"
  BY DEF Ends, Strays, terminate_support, getMissingPage_NotFound, UserInv, LifeInv, LifeTypes
<1> QED  BY <1>1, PagerKept DEF Ends, Strays

(* A live process has a page table.                                        *)
LEMMA TableType ==
  ASSUME UserInv, NEW a \in Asid, uproc[a] # "none", NEW v \in Page
  PROVE  p_supportStruct[a] \in Supp /\ tableOf(a)[v] \in Entry
BY DEF UserInv, LifeInv, LifeTypes, LifeControl, MemTypes, tableOf

LEMMA UserRefill ==
  ASSUME UserInv, NEW a \in Asid, NEW v \in Page, uTLB_RefillHandler(a, v)
  PROVE  UserInv'
<1>1. tableOf(a)[v] \in Entry
  BY TableType DEF uTLB_RefillHandler, InProgram
<1>2. tlbIndex' \in 0 .. TLBSIZE - 1
  BY Constants DEF uTLB_RefillHandler, updateTLBIndex, UserInv, MemTypes
<1>3. tlb' \in [0 .. TLBSIZE - 1 -> Entry]
  BY <1>1 DEF uTLB_RefillHandler, UserInv, MemTypes
<1>4. MemTypes'
  BY <1>2, <1>3 DEF uTLB_RefillHandler, UserInv, MemTypes
<1> QED  BY <1>4, TurnsKept DEF uTLB_RefillHandler

LEMMA UserWrite ==
  ASSUME UserInv, NEW a \in Asid, NEW v \in Page, Write(a, v)
  PROVE  UserInv'
<1>1. written' \in [Asid -> [Page -> Nat]]
  BY DEF Write, UserInv, MemTypes
<1>2. MemTypes'
  BY <1>1 DEF Write, UserInv, MemTypes
<1> QED  BY <1>2, TurnsKept DEF Write
----------------------------------------------------------------------------
(* The pager: its handlers                                                 *)

(* Whoever is in the pager is there alone.                                 *)
LEMMA AloneInPager ==
  ASSUME UserInv, NEW a \in Asid, step[a] \in {"pager", "out", "in"}
  PROVE  /\ InPager = {a} /\ swapSem = 0 - Len(swapQueue)
         /\ uproc[a] # "none"
         /\ \A b \in Asid : step[b] \in {"pager", "out", "in"} => b = a
<1>1. a \in InPager
  BY DEF InPager
<1>2. PICK x \in Asid : InPager = {x} /\ swapSem = 0 - Len(swapQueue)
  BY <1>1 DEF UserInv, PagerControl, Turns
<1> QED  BY <1>1, <1>2 DEF UserInv, PagerControl, InPager

(* Somebody moves who does not wait.                                       *)
LEMMA QueuedKept ==
  ASSUME UserInv, NEW a \in Asid, step[a] # "queue", NEW here,
         step' = [step EXCEPT ![a] = here], swapQueue' = swapQueue
  PROVE  Queued'
<1>0. /\ swapQueue \in Seq(Asid) /\ Queued
      /\ step \in [Asid -> {"user", "queue", "pager", "out", "in"}]
  BY DEF UserInv, MemTypes, PagerControl
<1>1. \A i \in 1 .. Len(swapQueue) : swapQueue[i] \in Asid /\ swapQueue[i] # a
  BY <1>0 DEF Queued
<1>2. \A b \in Asid : b # a => step'[b] = step[b]
  BY <1>0
<1> QED  BY <1>0, <1>1, <1>2 DEF Queued

LEMMA TurnsStay ==
  ASSUME UserInv, UNCHANGED <<swapQueue, swapSem>>, InPager' = InPager
  PROVE  Turns'
BY DEF UserInv, PagerControl, Turns

LEMMA UserEnter ==
  ASSUME UserInv, NEW a \in Asid, NEW v \in Page, EnterPager(a, v)
  PROVE  UserInv'
<1>1. /\ step[a] = "user" /\ uproc[a] = "alive"
      /\ UNCHANGED <<lifeVars, pgTbl, swapTable, frameIndexToReplace, tlb, tlbIndex, ram, flash,
                     written, lost>>
      /\ missing' = [missing EXCEPT ![a] = v] /\ swapSem' = swapSem - 1
  BY DEF EnterPager, InProgram
<1>2. LifeInv'
  BY <1>1, LifeKept DEF UserInv
<1> DEFINE Steps == {"user", "queue", "pager", "out", "in"}
<1>3. /\ swapQueue \in Seq(Asid) /\ swapSem \in Int /\ Len(swapQueue) \in Nat
      /\ step \in [Asid -> Steps] /\ Queued /\ Turns
  BY DEF UserInv, MemTypes, PagerControl
<1>4. CASE swapSem' < 0
  <2>1. step' = [step EXCEPT ![a] = "queue"] /\ swapQueue' = Append(swapQueue, a)
    BY <1>4 DEF EnterPager
  <2>2. /\ swapQueue' \in Seq(Asid) /\ Len(swapQueue') = Len(swapQueue) + 1
        /\ \A i \in 1 .. Len(swapQueue) + 1 :
             swapQueue'[i] = IF i = Len(swapQueue) + 1 THEN a ELSE swapQueue[i]
    BY <1>3, <2>1
  <2>3. \A i \in 1 .. Len(swapQueue) : swapQueue[i] # a
    BY <1>1, <1>3 DEF Queued
  <2>4. Queued'
    <3>1. step'[a] = "queue" /\ \A b \in Asid : b # a => step'[b] = step[b]
      BY <1>3, <2>1
    <3>2. \A i \in 1 .. Len(swapQueue) + 1 : step'[swapQueue'[i]] = "queue"
      BY <1>3, <2>2, <2>3, <3>1 DEF Queued
    <3>3. \A i, j \in 1 .. Len(swapQueue) + 1 : swapQueue'[i] = swapQueue'[j] => i = j
      BY <1>3, <2>2, <2>3 DEF Queued
    <3> QED  BY <2>2, <3>2, <3>3 DEF Queued
  <2>5. InPager' = InPager
    BY <1>1, <1>3, <2>1 DEF InPager
  <2>6. PICK x \in Asid : InPager = {x} /\ swapSem = 0 - Len(swapQueue)
    BY <1>1, <1>3, <1>4 DEF Turns
  <2>7. Turns'
    BY <1>1, <1>3, <2>2, <2>5, <2>6 DEF Turns
  <2>8. MemTypes'
    <3>1. step' \in [Asid -> Steps] /\ missing' \in [Asid -> Page]
      BY <1>1, <1>3, <2>1 DEF UserInv, MemTypes
    <3>2. swapQueue' \in Seq(Asid) /\ swapSem' \in Int
      BY <1>1, <1>3, <2>2
    <3> QED  BY <1>1, <3>1, <3>2 DEF UserInv, MemTypes
  <2>9. PagerControl'
    BY <1>1, <1>3, <2>1, <2>4, <2>7 DEF UserInv, PagerControl, frameIsOccupied, lifeVars
  <2> QED  BY <1>2, <2>8, <2>9 DEF UserInv
<1>5. CASE ~(swapSem' < 0)
  <2>1. step' = [step EXCEPT ![a] = "pager"] /\ swapQueue' = swapQueue
    BY <1>5 DEF EnterPager
  <2>2. InPager = {} /\ swapSem = 1 /\ swapQueue = <<>>
    BY <1>1, <1>3, <1>5 DEF Turns
  <2>3. InPager' = {a}
    BY <1>3, <2>1, <2>2 DEF InPager
  <2>4. Queued'
    BY <1>1, <2>1, QueuedKept
  <2>5. Turns'
    <3>1. Len(swapQueue') = 0 /\ swapSem' = 0
      BY <1>1, <2>1, <2>2
    <3> QED  BY <2>3, <3>1 DEF Turns
  <2>6. MemTypes'
    <3>1. step' \in [Asid -> Steps] /\ missing' \in [Asid -> Page]
      BY <1>1, <1>3, <2>1 DEF UserInv, MemTypes
    <3> QED  BY <1>1, <1>3, <2>1, <3>1 DEF UserInv, MemTypes
  <2>7. PagerControl'
    BY <1>1, <1>3, <2>1, <2>4, <2>5 DEF UserInv, PagerControl, frameIsOccupied, lifeVars
  <2> QED  BY <1>2, <2>6, <2>7 DEF UserInv
<1> QED  BY <1>4, <1>5

LEMMA FrameChosen ==
  ASSUME UserInv
  PROVE  updateFrameIndexToReplace \in Frame
<1> DEFINE free == {f \in Frame : swapTable[f].sw_asid = -1}
<1>1. CASE free # {}
  <2>1. free \in SUBSET Nat
    BY DEF Frame
  <2>2. \E f \in free : \A g \in free : f <= g
    BY <1>1, <2>1, LeastExists
  <2> HIDE DEF free
  <2>3. (CHOOSE f \in free : \A g \in free : f <= g) \in free
    BY <2>2
  <2> QED  BY <1>1, <2>3 DEF free, updateFrameIndexToReplace
<1>2. CASE free = {}
  <2>1. updateFrameIndexToReplace = (frameIndexToReplace + 1) % POOLSIZE
    BY <1>2 DEF updateFrameIndexToReplace
  <2> QED  BY <2>1, Constants DEF UserInv, MemTypes, Frame
<1> QED  BY <1>1, <1>2

LEMMA OccupiedType ==
  ASSUME MemTypes, NEW f \in Frame, frameIsOccupied(f)
  PROVE  swapTable[f].sw_asid \in Asid /\ swapTable[f] \in SwapEntry
<1>1. swapTable[f].sw_asid \in Asid
  BY DEF frameIsOccupied
<1>2. swapTable[f].sw_asid # -1
  BY <1>1, Constants DEF Asid
<1>3. swapTable[f] # Unused
  BY <1>2 DEF Unused
<1> QED  BY <1>1, <1>3 DEF MemTypes

LEMMA InvalidEntry ==
  ASSUME NEW e \in Entry
  PROVE  [e EXCEPT !.valid = FALSE] \in Entry
BY DEF Entry

LEMMA MarkedTypes ==
  ASSUME MemTypes, NEW pte \in Supp \X Page, markInvalid(pte)
  PROVE  pgTbl' \in [Supp -> [Page -> Entry]] /\ tlb' \in [0 .. TLBSIZE - 1 -> Entry]
<1> USE DEF MemTypes
<1>1. pgTbl[pte[1]] \in [Page -> Entry] /\ pgTbl[pte[1]][pte[2]] \in Entry
  OBVIOUS
<1>2. [pgTbl[pte[1]] EXCEPT ![pte[2]] = [pgTbl[pte[1]][pte[2]] EXCEPT !.valid = FALSE]]
        \in [Page -> Entry]
  BY <1>1, InvalidEntry
<1>3. pgTbl' = [pgTbl EXCEPT ![pte[1]] =
                  [pgTbl[pte[1]] EXCEPT ![pte[2]] = [pgTbl[pte[1]][pte[2]] EXCEPT !.valid = FALSE]]]
  BY DEF markInvalid
<1>4. pgTbl' \in [Supp -> [Page -> Entry]]
  BY <1>2, <1>3
<1> DEFINE i == TLBP(tlb, entryAt(pte).asid, entryAt(pte).page)
<1>5. tlb' = IF i = NULL THEN tlb ELSE [tlb EXCEPT ![i] = [tlb[i] EXCEPT !.valid = FALSE]]
  BY DEF markInvalid, markTLBEntryNotValid
<1> HIDE DEF i
<1>6. tlb' \in [0 .. TLBSIZE - 1 -> Entry]
  <2>1. CASE i \in 0 .. TLBSIZE - 1
    BY <1>5, <2>1, InvalidEntry
  <2>2. CASE i \notin 0 .. TLBSIZE - 1
    BY <1>5, <2>2
  <2> QED  BY <2>1, <2>2
<1> QED  BY <1>4, <1>6

LEMMA UserHandle ==
  ASSUME UserInv, NEW a \in Asid, handleTLBInvalid(a)
  PROVE  UserInv'
<1> DEFINE f == frameIndexToReplace'
<1>1. /\ step[a] = "pager" /\ f \in Frame
      /\ UNCHANGED <<lifeVars, swapTable, tlbIndex, swapSem, swapQueue, missing, ram, flash,
                     written, lost>>
  BY FrameChosen DEF handleTLBInvalid
<1>2. LifeInv'
  BY <1>1, LifeKept DEF UserInv
<1>3. \/ /\ frameIsOccupied(f) /\ markInvalid(swapTable[f].sw_pte)
         /\ step' = [step EXCEPT ![a] = "out"]
      \/ ~frameIsOccupied(f) /\ step' = [step EXCEPT ![a] = "in"] /\ UNCHANGED <<pgTbl, tlb>>
  BY DEF handleTLBInvalid
<1>4. pgTbl' \in [Supp -> [Page -> Entry]] /\ tlb' \in [0 .. TLBSIZE - 1 -> Entry]
  <2>1. CASE frameIsOccupied(f)
    <3>1. swapTable[f].sw_pte \in Supp \X Page
      BY <1>1, <2>1, OccupiedType DEF UserInv, SwapEntry
    <3> QED  BY <1>3, <2>1, <3>1, MarkedTypes DEF UserInv
  <2>2. CASE ~frameIsOccupied(f)
    BY <1>3, <2>2 DEF UserInv, MemTypes
  <2> QED  BY <2>1, <2>2
<1>5. MemTypes'
  BY <1>1, <1>3, <1>4 DEF UserInv, MemTypes
<1>6. InPager' = InPager
  BY <1>1, <1>3 DEF InPager, UserInv, MemTypes
<1>7. \A b \in Asid : step'[b] = "out" => b = a /\ frameIsOccupied(f)
  BY <1>1, <1>3, AloneInPager DEF UserInv, MemTypes
<1>8. Turns' /\ Queued'
  BY <1>1, <1>3, <1>6, QueuedKept, TurnsStay
<1>9. PagerControl'
  <2>1. \A b \in Asid : uproc'[b] = "none" => step'[b] = "user"
    BY <1>1, <1>3, AloneInPager DEF UserInv, MemTypes, PagerControl, lifeVars
  <2>2. \A b \in Asid : step'[b] = "out" => frameIsOccupied(frameIndexToReplace)'
    BY <1>1, <1>7 DEF frameIsOccupied
  <2> QED  BY <1>8, <2>1, <2>2 DEF PagerControl
<1> QED  BY <1>2, <1>5, <1>9 DEF UserInv

LEMMA UserWriteOut ==
  ASSUME UserInv, NEW a \in Asid, writeFromPoolToDev(a)
  PROVE  UserInv'
<1> DEFINE victim == swapTable[frameIndexToReplace]
<1>1. /\ step[a] = "out" /\ step' = [step EXCEPT ![a] = "in"]
      /\ lost' \subseteq lost \cup {<<victim.sw_asid, victim.sw_pte[2]>>}
      /\ UNCHANGED <<lifeVars, pgTbl, swapTable, frameIndexToReplace, tlb, tlbIndex, swapSem,
                     swapQueue, missing, ram, written>>
  BY DEF writeFromPoolToDev
<1>2. LifeInv'
  BY <1>1, LifeKept DEF UserInv
<1>3. victim.sw_asid \in Asid /\ victim.sw_pte[2] \in Page
  <2>1. frameIndexToReplace \in Frame /\ frameIsOccupied(frameIndexToReplace)
    BY <1>1 DEF UserInv, MemTypes, PagerControl
  <2>2. victim \in SwapEntry /\ victim.sw_asid \in Asid
    BY <2>1, OccupiedType DEF UserInv
  <2> QED  BY <2>2 DEF SwapEntry
<1>4. MemTypes'
  BY <1>1, <1>3 DEF UserInv, MemTypes
<1>5. InPager' = InPager
  BY <1>1 DEF InPager, UserInv, MemTypes
<1>6. Turns' /\ Queued'
  BY <1>1, <1>5, QueuedKept, TurnsStay
<1>7. PagerControl'
  BY <1>1, <1>6, AloneInPager DEF UserInv, MemTypes, PagerControl, frameIsOccupied, lifeVars
<1> QED  BY <1>2, <1>4, <1>7 DEF UserInv
LEMMA UserReadIn ==
  ASSUME UserInv, NEW a \in Asid, writeFromDevToPool(a)
  PROVE  UserInv'
<1> DEFINE pte   == <<p_supportStruct[a], missing[a]>>
           entry == [entryAt(pte) EXCEPT !.pfn = FRAMEPOOLSTART + frameIndexToReplace, !.valid = TRUE]
           Steps == {"user", "queue", "pager", "out", "in"}
<1>1. /\ step[a] = "in" /\ updateSwapTableEntry(pte)
      /\ pgTbl' = [pgTbl EXCEPT ![pte[1]][pte[2]] = entry]
      /\ tlb' = updateEntryInTLB(tlb, entry)
      /\ missing' = [missing EXCEPT ![a] = 0]
      /\ leavePager(a)
      /\ UNCHANGED <<lifeVars, frameIndexToReplace, tlbIndex, flash, written, lost>>
  BY DEF writeFromDevToPool
<1>2. LifeInv'
  BY <1>1, LifeKept DEF UserInv
<1>3. /\ swapQueue \in Seq(Asid) /\ swapSem \in Int /\ Len(swapQueue) \in Nat
      /\ step \in [Asid -> Steps] /\ Queued
  BY DEF UserInv, MemTypes, PagerControl
<1>4. /\ InPager = {a} /\ swapSem = 0 - Len(swapQueue) /\ uproc[a] # "none"
      /\ \A b \in Asid : step[b] \in {"pager", "out", "in"} => b = a
  BY <1>1, AloneInPager
<1>5. pte \in Supp \X Page /\ entry \in Entry /\ entryAt(pte).asid \in 0 .. UPROCMAX
  <2>1. p_supportStruct[a] \in Supp /\ missing[a] \in Page
    BY <1>4 DEF UserInv, LifeInv, LifeTypes, LifeControl, MemTypes
  <2>2. entryAt(pte) \in Entry
    BY <2>1 DEF UserInv, MemTypes, entryAt
  <2>3. FRAMEPOOLSTART + frameIndexToReplace \in Nat
    BY Constants DEF UserInv, MemTypes, Frame
  <2> QED  BY <2>1, <2>2, <2>3 DEF Entry
<1> HIDE DEF pte, entry
<1>6. swapTable' \in [Frame -> {Unused} \cup SwapEntry]
  BY <1>1, <1>5 DEF updateSwapTableEntry, SwapEntry, UserInv, MemTypes
<1>7. pgTbl' \in [Supp -> [Page -> Entry]] /\ tlb' \in [0 .. TLBSIZE - 1 -> Entry]
  BY <1>1, <1>5 DEF updateEntryInTLB, UserInv, MemTypes
<1>8. missing' \in [Asid -> Page]
  BY <1>1, Constants DEF UserInv, MemTypes, Page
<1>9. CASE swapQueue = <<>>
  <2>1. step' = [step EXCEPT ![a] = "user"] /\ swapQueue' = swapQueue /\ swapSem' = swapSem + 1
    BY <1>1, <1>9 DEF leavePager
  <2>2. step' \in [Asid -> Steps] /\ swapSem' = 1
    BY <1>3, <1>4, <1>9, <2>1
  <2>3. MemTypes'
    BY <1>1, <1>6, <1>7, <1>8, <2>1, <2>2 DEF UserInv, MemTypes
  <2>4. InPager' = {}
    BY <1>3, <1>4, <2>1 DEF InPager
  <2>5. Turns' /\ Queued'
    BY <1>1, <1>9, <2>1, <2>2, <2>4, QueuedKept DEF Turns
  <2>6. PagerControl'
    BY <1>1, <1>3, <1>4, <2>1, <2>5 DEF UserInv, PagerControl, lifeVars
  <2> QED  BY <1>2, <2>3, <2>6 DEF UserInv
<1>10. CASE swapQueue # <<>>
  <2> DEFINE next == Head(swapQueue)
  <2>1. /\ step' = [step EXCEPT ![a] = "user", ![next] = "pager"]
        /\ swapQueue' = Tail(swapQueue) /\ swapSem' = swapSem + 1
    BY <1>1, <1>10 DEF leavePager
  <2>2. /\ next \in Asid /\ next = swapQueue[1] /\ swapQueue' \in Seq(Asid)
        /\ Len(swapQueue') = Len(swapQueue) - 1 /\ Len(swapQueue) > 0
        /\ \A i \in 1 .. Len(swapQueue) - 1 : swapQueue'[i] = swapQueue[i + 1]
    BY <1>3, <1>10, <2>1
  <2> HIDE DEF next
  <2>3. step[next] = "queue" /\ next # a /\ uproc[next] # "none"
    BY <1>1, <1>3, <2>2 DEF Queued, UserInv, PagerControl
  <2>4. /\ step'[a] = "user" /\ step'[next] = "pager" /\ step' \in [Asid -> Steps]
        /\ \A b \in Asid : b # a /\ b # next => step'[b] = step[b]
    BY <1>3, <2>1, <2>2, <2>3
  <2>5. MemTypes'
    <3>1. swapSem' \in Int
      BY <1>3, <2>1
    <3> QED  BY <1>1, <1>6, <1>7, <1>8, <2>2, <2>4, <3>1 DEF UserInv, MemTypes
  <2>6. InPager' = {next}
    BY <1>4, <2>2, <2>3, <2>4 DEF InPager
  <2>7. Turns'
    <3>1. swapSem' = 0 - Len(swapQueue')
      BY <1>3, <1>4, <2>1, <2>2
    <3> QED  BY <2>2, <2>6, <3>1 DEF Turns
  <2>8. Queued'
    <3>1. \A i \in 1 .. Len(swapQueue) - 1 :
            swapQueue'[i] \in Asid /\ swapQueue'[i] # next /\ step[swapQueue'[i]] = "queue"
      BY <1>3, <2>2 DEF Queued
    <3>2. \A i \in 1 .. Len(swapQueue) - 1 : step'[swapQueue'[i]] = "queue"
      BY <1>1, <2>4, <3>1
    <3>3. \A i, j \in 1 .. Len(swapQueue) - 1 : swapQueue'[i] = swapQueue'[j] => i = j
      BY <1>3, <2>2 DEF Queued
    <3> QED  BY <2>2, <3>2, <3>3 DEF Queued
  <2>9. PagerControl'
    <3>1. \A b \in Asid : uproc'[b] = "none" => step'[b] = "user"
      BY <1>1, <2>3, <2>4 DEF UserInv, PagerControl, lifeVars
    <3>2. \A b \in Asid : step'[b] # "out"
      BY <1>4, <2>4
    <3> QED  BY <2>7, <2>8, <3>1, <3>2 DEF PagerControl
  <2> QED  BY <1>2, <2>5, <2>9 DEF UserInv
<1> QED  BY <1>9, <1>10

LEMMA UserStep == UserInv /\ [Next]_vars => UserInv'
<1> SUFFICES ASSUME UserInv, [Next]_vars PROVE UserInv'
  OBVIOUS
<1>1. LifeInv'
  BY LifeStep DEF UserInv
<1>2. CASE Instantiator
  BY <1>1, <1>2, UserInstantiator
<1>3. ASSUME NEW a \in Asid, Ends(a) \/ Strays(a) PROVE UserInv'
  BY <1>1, <1>3, UserEnds
<1>4. ASSUME NEW a \in Asid, PagerStep(a) PROVE UserInv'
  BY <1>4, UserHandle, UserWriteOut, UserReadIn DEF PagerStep
<1>5. ASSUME NEW a \in Asid, NEW v \in Page,
             uTLB_RefillHandler(a, v) \/ Write(a, v) \/ EnterPager(a, v)
      PROVE  UserInv'
  BY <1>5, UserRefill, UserWrite, UserEnter
<1>6. CASE UNCHANGED vars
  BY <1>1, <1>6, PagerKept DEF vars, lifeVars
<1> QED  BY <1>2, <1>3, <1>4, <1>5, <1>6 DEF Next, Stay

(* Every variable of the user processes has its type: no index leaves the  *)
(* TLB, the swap table or a page table, and no process is without its      *)
(* structure in the pager.                                                 *)
THEOREM UserTypeOK == Spec => []TypeOK
<1>1. UserInv => TypeOK
  BY TypesSplit DEF UserInv, LifeInv
<1> QED  BY UserInitial, UserStep, <1>1, PTL DEF Spec

(* The pager is for one process at a time, and nobody waits for a pager    *)
(* that is free (vmSupport.c:134, 136), whatever processes do and however  *)
(* they end.                                                               *)
THEOREM PagerExclusive == Spec => []OneInPager
<1>1. UserInv => OneInPager
  <2> SUFFICES ASSUME UserInv PROVE OneInPager
    OBVIOUS
  <2>1. swapQueue \in Seq(Asid) /\ Len(swapQueue) \in Nat
    BY DEF UserInv, MemTypes
  <2>2. CASE InPager = {} /\ swapSem = 1 /\ swapQueue = <<>>
    BY <2>2, FS_EmptySet DEF OneInPager
  <2>3. ASSUME NEW x \in Asid, InPager = {x}, swapSem = 0 - Len(swapQueue)
        PROVE  OneInPager
    <3>1. Cardinality(InPager) = 1
      BY <2>3, FS_Singleton
    <3> QED  BY <2>1, <2>3, <3>1 DEF OneInPager
  <2> QED  BY <2>2, <2>3 DEF UserInv, PagerControl, Turns
<1> QED  BY UserInitial, UserStep, <1>1, PTL DEF Spec

----------------------------------------------------------------------------
(* The stack of free structures                                            *)

Holders == {a \in Asid : uproc[a] \in {"alive", "killed"}}
Held == {p_supportStruct[a] : a \in Holders}

(* f lists the n structures on the stack, from the bottom.                 *)
Chain(n, f) ==
  /\ \A i, j \in 1 .. n : f[i] = f[j] => i = j
  /\ freeSupp_tp = IF n = 0 THEN NULL ELSE f[n]
  /\ \A i \in 1 .. n : prev_supp[f[i]] = IF i = 1 THEN NULL ELSE f[i - 1]

Listed(n, f) == {f[i] : i \in 1 .. n}

(* Every structure is listed, held, or in hand, and in one way only.       *)
Divided(n, f) ==
  /\ Held \cap (Listed(n, f) \cup InHand) = {} /\ Listed(n, f) \cap InHand = {}
  /\ Supp = Held \cup Listed(n, f) \cup InHand

OwnStructure ==
  /\ \A a \in Holders : sup_asid[p_supportStruct[a]] = a
  /\ \A a, b \in Holders : p_supportStruct[a] = p_supportStruct[b] => a = b

(* What alloc_supp has read is still so, and what it has written.          *)
Reading ==
  /\ at \in {"step", "store", "last"} => supp = freeSupp_tp
  /\ at = "store" => below = prev_supp[freeSupp_tp]
  /\ at = "last" => prev_supp[freeSupp_tp] = NULL
  /\ at = "create" => sup_asid[supp] = started + 1
  /\ at # "fault"

SuppOK ==
  /\ \E n \in Nat : \E f \in [1 .. n -> Supp] : Chain(n, f) /\ Divided(n, f)
  /\ OwnStructure
  /\ Reading

SuppInv == ~raced => SuppOK

(* The chain is the stack: from a structure that a downward closed set     *)
(* lacks there would be a first one below the top.                         *)
LEMMA ChainIsStack ==
  ASSUME NEW n \in Nat, NEW f \in [1 .. n -> Supp], Chain(n, f)
  PROVE  FreeStack = Listed(n, f)
<1>1. Listed(n, f) \in SUBSET Supp
  BY DEF Listed
<1>2. Downward(Listed(n, f))
  <2>1. freeSupp_tp \in Listed(n, f) \cup {NULL}
    BY DEF Chain, Listed
  <2>2. ASSUME NEW i \in 1 .. n PROVE prev_supp[f[i]] \in Listed(n, f) \cup {NULL}
    <3>1. CASE i = 1
      BY <3>1 DEF Chain
    <3>2. CASE i # 1
      <4>1. i - 1 \in 1 .. n /\ prev_supp[f[i]] = f[i - 1]
        BY <3>2 DEF Chain
      <4> QED  BY <4>1 DEF Listed
    <3> QED  BY <3>1, <3>2
  <2>3. \A s \in Listed(n, f) : \E i \in 1 .. n : s = f[i]
    BY DEF Listed
  <2> QED  BY <2>1, <2>2, <2>3 DEF Downward
<1>3. ASSUME NEW C \in SUBSET Supp, Downward(C), NEW k \in 1 .. n PROVE f[k] \in C
  <2> DEFINE missed == {i \in 0 .. n - 1 : f[n - i] \notin C}
  <2>1. SUFFICES ASSUME f[k] \notin C PROVE FALSE
    OBVIOUS
  <2>2. n - k \in missed
    <3>1. n - k \in 0 .. n - 1 /\ n - (n - k) = k
      OBVIOUS
    <3> QED  BY <2>1, <3>1
  <2>3. missed \in SUBSET Nat
    OBVIOUS
  <2>4. PICK m \in missed : \A i \in missed : m <= i
    BY <2>2, <2>3, LeastExists
  <2>5. m \in 0 .. n - 1 /\ f[n - m] \notin C
    BY <2>4
  <2>6. n # 0 /\ f[n] \in C
    BY <1>3, Constants DEF Downward, Chain
  <2>7. m # 0
    BY <2>5, <2>6
  <2>8. m - 1 \in 0 .. n - 1 /\ m - 1 \notin missed
    BY <2>4, <2>5, <2>7
  <2>9. f[n - (m - 1)] \in C
    BY <2>8
  <2>10. n - (m - 1) \in 1 .. n /\ n - (m - 1) # 1 /\ (n - (m - 1)) - 1 = n - m
    BY <2>5, <2>7
  <2>11. prev_supp[f[n - (m - 1)]] = f[n - m]
    BY <2>10 DEF Chain
  <2>12. f[n - m] \in Supp
    BY <2>5
  <2> QED  BY <2>5, <2>9, <2>11, <2>12, <1>3, Constants DEF Downward
<1> QED  BY <1>1, <1>2, <1>3 DEF FreeStack, Listed

LEMMA SuppInvHolds ==
  ASSUME SuppInv
  PROVE  OwnSupport
<1>1. SUFFICES ASSUME ~raced, SuppOK PROVE OwnSupport
  BY DEF SuppInv, OwnSupport
<1>2. PICK n \in Nat : \E f \in [1 .. n -> Supp] : Chain(n, f) /\ Divided(n, f)
  BY <1>1 DEF SuppOK
<1>3. PICK f \in [1 .. n -> Supp] : Chain(n, f) /\ Divided(n, f)
  BY <1>2
<1>4. FreeStack = Listed(n, f)
  BY <1>3, ChainIsStack
<1>5. Held = {p_supportStruct[a] : a \in {b \in Asid : uproc[b] \in {"alive", "killed"}}}
  BY DEF Held, Holders
<1>6. \A a, b \in Asid : {uproc[a], uproc[b]} \cap {"alive", "killed"} = {uproc[a], uproc[b]} =>
        a \in Holders /\ b \in Holders
  BY DEF Holders
<1>7. /\ \A a \in Holders : sup_asid[p_supportStruct[a]] = a
      /\ \A a, b \in Holders : p_supportStruct[a] = p_supportStruct[b] => a = b
      /\ at # "fault"
  BY <1>1 DEF SuppOK, OwnStructure, Reading
<1>8. /\ Held \cap (FreeStack \cup InHand) = {} /\ FreeStack \cap InHand = {}
      /\ Supp = Held \cup FreeStack \cup InHand
  BY <1>3, <1>4 DEF Divided
<1> QED  BY <1>5, <1>6, <1>7, <1>8 DEF OwnSupport

LEMMA SuppInitial == Init => SuppInv
<1> SUFFICES ASSUME Init PROVE SuppOK
  BY DEF SuppInv
<1> DEFINE f == [i \in 1 .. UPROCMAX |-> i - 1]
<1>1. UPROCMAX \in Nat /\ f \in [1 .. UPROCMAX -> Supp]
  BY Constants DEF Supp
<1>2. Chain(UPROCMAX, f)
  <2>1. \A i \in 1 .. UPROCMAX : f[i] \in Supp /\ prev_supp[f[i]] = IF i = 1 THEN NULL ELSE f[i - 1]
    BY Constants DEF Init, LifeInit, Supp
  <2>2. freeSupp_tp = f[UPROCMAX] /\ UPROCMAX # 0
    BY Constants DEF Init, LifeInit
  <2> QED  BY <2>1, <2>2 DEF Chain
<1>3. Holders = {} /\ InHand = {}
  BY DEF Init, LifeInit, Holders, InHand
<1>4. Listed(UPROCMAX, f) = Supp
  <2>1. \A s \in Supp : s + 1 \in 1 .. UPROCMAX /\ f[s + 1] = s
    BY Constants DEF Supp
  <2> QED  BY <1>1, <2>1 DEF Listed
<1>5. Divided(UPROCMAX, f)
  BY <1>3, <1>4 DEF Divided, Held
<1>6. OwnStructure /\ Reading
  BY <1>3 DEF OwnStructure, Reading, Init, LifeInit
<1> QED  BY <1>1, <1>2, <1>5, <1>6 DEF SuppOK
(* The structures stay where they are.                                     *)
LEMMA SuppStays ==
  ASSUME SuppOK, UNCHANGED <<freeSupp_tp, prev_supp, sup_asid, p_supportStruct>>,
         Holders' = Holders, InHand' = InHand, Reading'
  PROVE  SuppOK'
<1>1. PICK n \in Nat : \E f \in [1 .. n -> Supp] : Chain(n, f) /\ Divided(n, f)
  BY DEF SuppOK
<1>2. PICK f \in [1 .. n -> Supp] : Chain(n, f) /\ Divided(n, f)
  BY <1>1
<1>3. Held' = Held
  BY DEF Held
<1>4. Chain(n, f)' /\ Divided(n, f)'
  BY <1>2, <1>3 DEF Chain, Divided, Listed
<1>5. OwnStructure'
  BY DEF SuppOK, OwnStructure
<1> QED  BY <1>4, <1>5 DEF SuppOK

(* While a process is to be created there is a structure for it: there are *)
(* fewer processes than structures.                                        *)
LEMMA StackNotEmpty ==
  ASSUME LifeInv, SuppOK, at = "alloc"
  PROVE  freeSupp_tp # NULL
<1>1. PICK n \in Nat : \E f \in [1 .. n -> Supp] : Chain(n, f) /\ Divided(n, f)
  BY DEF SuppOK
<1>2. PICK f \in [1 .. n -> Supp] : Chain(n, f) /\ Divided(n, f)
  BY <1>1
<1>3. SUFFICES ASSUME n = 0 PROVE FALSE
  <2>1. n # 0 => f[n] \in Supp
    OBVIOUS
  <2> QED  BY <1>2, <2>1, Constants DEF Chain
<1>4. Supp = Held
  <2>1. Listed(n, f) = {} /\ InHand = {}
    BY <1>3 DEF Listed, InHand
  <2> QED  BY <1>2, <2>1 DEF Divided
<1>5. started \in Nat /\ started < UPROCMAX
  BY DEF LifeInv, LifeTypes, LifeControl, Creating
<1>6. IsFiniteSet(Holders) /\ Cardinality(Holders) <= started /\ Cardinality(Holders) \in Nat
  <2>1. Holders \in SUBSET (1 .. started)
    BY <1>5, Constants DEF LifeInv, LifeControl, Holders, Asid
  <2>2. IsFiniteSet(1 .. started) /\ Cardinality(1 .. started) = started
    BY <1>5, FS_Interval
  <2>3. IsFiniteSet(Holders) /\ Cardinality(Holders) <= Cardinality(1 .. started)
    <3> HIDE DEF Holders
    <3> QED  BY <2>1, <2>2, FS_Subset
  <2>4. Cardinality(Holders) \in Nat
    BY <2>3, FS_CardinalityType
  <2> QED  BY <2>2, <2>3, <2>4
<1> DEFINE g == [a \in Holders |-> p_supportStruct[a]]
<1>7. g \in Surjection(Holders, Held)
  BY DEF Surjection, Held
<1>8. Cardinality(Held) <= Cardinality(Holders)
  BY <1>6, <1>7, FS_Surjection
<1>9. Cardinality(Supp) = UPROCMAX
  <2>1. 0 \in Int /\ UPROCMAX - 1 \in Int /\ ~(0 > UPROCMAX - 1)
    BY Constants
  <2>2. Cardinality(0 .. UPROCMAX - 1) = (UPROCMAX - 1) - 0 + 1
    BY <2>1, FS_Interval
  <2> QED  BY <2>2, Constants DEF Supp
<1> QED  BY <1>4, <1>5, <1>6, <1>8, <1>9, Constants

LEMMA SuppAlloc ==
  ASSUME LifeInv, SuppOK, TestEmpty \/ TakeTop \/ ReadBelow
  PROVE  SuppOK'
<1>1. UNCHANGED <<freeSupp_tp, prev_supp, sup_asid, p_supportStruct, uproc, started>>
  BY DEF TestEmpty, TakeTop, ReadBelow
<1>2. Holders' = Holders
  BY <1>1 DEF Holders
<1>3. InHand' = InHand
  BY DEF TestEmpty, TakeTop, ReadBelow, InHand
<1>4. Reading'
  BY StackNotEmpty DEF SuppOK, Reading, TestEmpty, TakeTop, ReadBelow
<1> QED  BY <1>1, <1>2, <1>3, <1>4, SuppStays

(* Off the stack, into the hand.                                           *)
LEMMA SuppStore ==
  ASSUME LifeInv, SuppOK, StoreTop
  PROVE  SuppOK'
<1>1. PICK n \in Nat : \E f \in [1 .. n -> Supp] : Chain(n, f) /\ Divided(n, f)
  BY DEF SuppOK
<1>2. PICK f \in [1 .. n -> Supp] : Chain(n, f) /\ Divided(n, f)
  BY <1>1
<1>3. /\ UNCHANGED <<prev_supp, sup_asid, supp, started, uproc, p_supportStruct>>
      /\ at \in {"store", "last"} /\ at' = "clear"
      /\ freeSupp_tp' = IF at = "store" THEN below ELSE NULL
  BY DEF StoreTop
<1>4. supp = freeSupp_tp /\ supp \in Supp
  BY <1>3 DEF SuppOK, Reading, LifeInv, LifeTypes, LifeControl
<1>5. n # 0 /\ supp = f[n]
  BY <1>2, <1>4, Constants DEF Chain
<1>6. freeSupp_tp' = prev_supp[supp]
  BY <1>3, <1>4 DEF SuppOK, Reading
<1> DEFINE m == n - 1
           g == [i \in 1 .. m |-> f[i]]
<1>7. m \in Nat /\ g \in [1 .. m -> Supp]
  BY <1>5
<1>8. Chain(m, g)'
  <2>1. prev_supp[f[n]] = IF n = 1 THEN NULL ELSE f[n - 1]
    BY <1>2, <1>5 DEF Chain
  <2>2. freeSupp_tp' = IF m = 0 THEN NULL ELSE g[m]
    BY <1>5, <1>6, <2>1
  <2>3. \A i, j \in 1 .. m : g[i] = g[j] => i = j
    BY <1>2, <1>5 DEF Chain
  <2>4. \A i \in 1 .. m : prev_supp'[g[i]] = IF i = 1 THEN NULL ELSE g[i - 1]
    BY <1>2, <1>3, <1>5 DEF Chain
  <2> QED  BY <2>2, <2>3, <2>4 DEF Chain
<1>9. Listed(n, f) = Listed(m, g) \cup {supp} /\ supp \notin Listed(m, g)
  <2>1. \A i \in 1 .. n : i = n \/ i \in 1 .. m
    OBVIOUS
  <2>2. \A i \in 1 .. m : g[i] = f[i] /\ f[i] # f[n] /\ i \in 1 .. n
    BY <1>2, <1>5 DEF Chain
  <2> QED  BY <1>5, <2>1, <2>2 DEF Listed
<1>10. Held' = Held /\ Holders' = Holders /\ InHand = {} /\ InHand' = {supp}
  BY <1>3 DEF Held, Holders, InHand
<1>11. Divided(m, g)'
  <2>1. Listed(m, g)' = Listed(m, g)
    BY <1>3 DEF Listed
  <2> QED  BY <1>2, <1>9, <1>10, <2>1 DEF Divided
<1>12. OwnStructure' /\ Reading'
  BY <1>3, <1>10 DEF SuppOK, OwnStructure, Reading
<1> HIDE DEF m, g
<1> QED  BY <1>7, <1>8, <1>11, <1>12 DEF SuppOK

LEMMA SuppPrepare ==
  ASSUME LifeInv, SuppOK, ClearLinks \/ init_uproc_support
  PROVE  SuppOK'
<1>1. PICK n \in Nat : \E f \in [1 .. n -> Supp] : Chain(n, f) /\ Divided(n, f)
  BY DEF SuppOK
<1>2. PICK f \in [1 .. n -> Supp] : Chain(n, f) /\ Divided(n, f)
  BY <1>1
<1>3. /\ UNCHANGED <<freeSupp_tp, supp, started, uproc, p_supportStruct>>
      /\ at \in {"clear", "init"} /\ at' \in {"init", "create"}
  BY DEF ClearLinks, init_uproc_support
<1>4. supp \in Supp /\ InHand = {supp} /\ InHand' = {supp} /\ Held' = Held /\ Holders' = Holders
  BY <1>3 DEF LifeInv, LifeTypes, LifeControl, InHand, Held, Holders
<1>5. supp \notin Held /\ supp \notin Listed(n, f)
  BY <1>2, <1>4 DEF Divided
<1>6. \A i \in 1 .. n : f[i] \in Supp /\ prev_supp'[f[i]] = prev_supp[f[i]]
  <2>1. \A i \in 1 .. n : f[i] # supp
    BY <1>5 DEF Listed
  <2> QED  BY <2>1 DEF ClearLinks, init_uproc_support, LifeInv, LifeTypes
<1>7. Chain(n, f)'
  BY <1>2, <1>3, <1>6 DEF Chain
<1>8. Divided(n, f)'
  BY <1>2, <1>4 DEF Divided, Listed
<1>9. \A a \in Holders : p_supportStruct[a] \in Held
  BY DEF Held
<1>10. \A s \in Supp : s # supp => sup_asid'[s] = sup_asid[s]
  BY DEF ClearLinks, init_uproc_support, LifeInv, LifeTypes
<1>11. Held \subseteq Supp
  BY <1>2 DEF Divided
<1>12. OwnStructure'
  BY <1>3, <1>4, <1>5, <1>9, <1>10, <1>11 DEF SuppOK, OwnStructure
<1>13. at' = "create" => sup_asid'[supp] = started + 1
  BY <1>4 DEF ClearLinks, init_uproc_support, LifeInv, LifeTypes
<1>14. Reading'
  BY <1>3, <1>13 DEF Reading
<1> QED  BY <1>7, <1>8, <1>12, <1>14 DEF SuppOK

(* Out of the hand, to the new process.                                    *)
LEMMA SuppCreate ==
  ASSUME LifeInv, SuppOK, create_Process
  PROVE  SuppOK'
<1>1. PICK n \in Nat : \E f \in [1 .. n -> Supp] : Chain(n, f) /\ Divided(n, f)
  BY DEF SuppOK
<1>2. PICK f \in [1 .. n -> Supp] : Chain(n, f) /\ Divided(n, f)
  BY <1>1
<1> DEFINE new == started + 1
<1>3. /\ UNCHANGED <<freeSupp_tp, prev_supp, sup_asid>>
      /\ at = "create" /\ at' \in {"alloc", "wait"}
      /\ uproc' = [uproc EXCEPT ![new] = "alive"]
      /\ p_supportStruct' = [p_supportStruct EXCEPT ![new] = supp]
  BY DEF create_Process
<1>4. new \in Asid /\ supp \in Supp /\ uproc[new] = "none"
  BY <1>3, Constants DEF LifeInv, LifeTypes, LifeControl, Creating, Asid
<1>5. /\ Holders' = Holders \cup {new} /\ new \notin Holders
      /\ \A a \in Holders : a \in Asid /\ p_supportStruct'[a] = p_supportStruct[a]
      /\ p_supportStruct'[new] = supp
  BY <1>3, <1>4 DEF LifeInv, LifeTypes, Holders
<1> HIDE DEF new
<1>6. Held' = Held \cup {supp} /\ InHand = {supp} /\ InHand' = {}
  BY <1>3, <1>5 DEF Held, InHand
<1>7. supp \notin Held /\ supp \notin Listed(n, f)
  BY <1>2, <1>6 DEF Divided
<1>8. Chain(n, f)' /\ Divided(n, f)'
  <2>1. Listed(n, f)' = Listed(n, f)
    BY DEF Listed
  <2> QED  BY <1>2, <1>3, <1>6, <1>7, <2>1 DEF Chain, Divided
<1>9. \A a \in Holders : p_supportStruct[a] \in Held
  BY DEF Held
<1>10. sup_asid[supp] = new
  BY <1>3 DEF SuppOK, Reading, new
<1>11. OwnStructure'
  BY <1>3, <1>5, <1>7, <1>9, <1>10 DEF SuppOK, OwnStructure
<1>12. Reading'
  BY <1>3 DEF Reading
<1> QED  BY <1>8, <1>11, <1>12 DEF SuppOK
(* Back on the stack, while nobody is about to change its top.             *)
LEMMA SuppEnds ==
  ASSUME LifeInv, SuppOK, NEW a \in Asid, terminate_support(a), ~raced'
  PROVE  SuppOK'
<1>1. PICK n \in Nat : \E f \in [1 .. n -> Supp] : Chain(n, f) /\ Divided(n, f)
  BY DEF SuppOK
<1>2. PICK f \in [1 .. n -> Supp] : Chain(n, f) /\ Divided(n, f)
  BY <1>1
<1>a. PICK s \in Supp : s = p_supportStruct[a]
  BY DEF terminate_support, LifeInv, LifeTypes, LifeControl
<1>3. /\ UNCHANGED <<sup_asid, supp, started, p_supportStruct>>
      /\ freeSupp_tp' = s /\ prev_supp' = [prev_supp EXCEPT ![s] = freeSupp_tp]
      /\ uproc' = [uproc EXCEPT ![a] = "ended"] /\ uproc[a] = "alive"
      /\ at \notin {"step", "store", "last"}
      /\ at' = at \/ (at = "blocked" /\ at' \in {"wait", "end"})
  BY <1>a DEF terminate_support, notifyTerminated, afterP, InWindow
<1>4. a \in Holders /\ Holders' = Holders \ {a}
  BY <1>3 DEF Holders, LifeInv, LifeTypes
<1>5. s \in Held /\ s \notin Listed(n, f) /\ s \notin InHand
  <2>1. s \in Held
    BY <1>4, <1>a DEF Held
  <2> QED  BY <1>2, <2>1 DEF Divided
<1>6. Held' = Held \ {s}
  <2>1. \A b \in Holders \ {a} : p_supportStruct[b] # s
    BY <1>4, <1>a DEF SuppOK, OwnStructure
  <2> QED  BY <1>3, <1>4, <1>a, <2>1 DEF Held
<1>7. InHand' = InHand
  BY <1>3 DEF InHand
<1> DEFINE m == n + 1
           g == [i \in 1 .. m |-> IF i = m THEN s ELSE f[i]]
<1>8. m \in Nat /\ g \in [1 .. m -> Supp]
  BY <1>4
<1>9. \A i \in 1 .. n : f[i] \in Supp /\ f[i] # s /\ g[i] = f[i]
  BY <1>5 DEF Listed
<1>10. g[m] = s
  OBVIOUS
<1>11. Chain(m, g)'
  <2>1. \A i, j \in 1 .. m : g[i] = g[j] => i = j
    <3>1. \A i, j \in 1 .. n : f[i] = f[j] => i = j
      BY <1>2 DEF Chain
    <3>2. \A i \in 1 .. m : i = m \/ i \in 1 .. n
      OBVIOUS
    <3> HIDE DEF m, g
    <3> QED  BY <1>9, <1>10, <3>1, <3>2
  <2>2. freeSupp_tp' = IF m = 0 THEN NULL ELSE g[m]
    BY <1>3, <1>10
  <2>3. prev_supp'[s] = IF m = 1 THEN NULL ELSE g[m - 1]
    <3>1. prev_supp'[s] = freeSupp_tp
      BY <1>3, <1>4 DEF LifeInv, LifeTypes
    <3>2. freeSupp_tp = IF n = 0 THEN NULL ELSE f[n]
      BY <1>2 DEF Chain
    <3>3. m - 1 = n /\ (m = 1 <=> n = 0) /\ (n # 0 => g[n] = f[n])
      BY <1>9
    <3> QED  BY <3>1, <3>2, <3>3
  <2>4. ASSUME NEW i \in 1 .. n
        PROVE  prev_supp'[g[i]] = IF i = 1 THEN NULL ELSE g[i - 1]
    <3>1. prev_supp'[f[i]] = prev_supp[f[i]]
      BY <1>3, <1>9 DEF LifeInv, LifeTypes
    <3>2. prev_supp[f[i]] = IF i = 1 THEN NULL ELSE f[i - 1]
      BY <1>2 DEF Chain
    <3>3. i # 1 => g[i - 1] = f[i - 1]
      BY <1>9
    <3> QED  BY <1>9, <3>1, <3>2, <3>3
  <2>5. \A i \in 1 .. m : i = m \/ i \in 1 .. n
    OBVIOUS
  <2> HIDE DEF m, g
  <2>6. \A i \in 1 .. m : prev_supp'[g[i]] = IF i = 1 THEN NULL ELSE g[i - 1]
    BY <2>3, <2>4, <2>5, <1>10
  <2> QED  BY <2>1, <2>2, <2>6 DEF Chain
<1>12. Listed(m, g) = Listed(n, f) \cup {s}
  <2>1. \A i \in 1 .. m : i = m \/ i \in 1 .. n
    OBVIOUS
  <2>2. m \in 1 .. m /\ \A i \in 1 .. n : i \in 1 .. m
    OBVIOUS
  <2> QED  BY <1>9, <1>10, <2>1, <2>2 DEF Listed
<1>13. Divided(m, g)'
  <2>1. Listed(m, g)' = Listed(m, g)
    BY <1>3 DEF Listed
  <2> QED  BY <1>2, <1>5, <1>6, <1>7, <1>12, <2>1 DEF Divided
<1>14. OwnStructure'
  BY <1>3, <1>4 DEF SuppOK, OwnStructure
<1>15. Reading'
  BY <1>3 DEF SuppOK, Reading
<1> HIDE DEF m, g
<1> QED  BY <1>8, <1>11, <1>13, <1>14, <1>15 DEF SuppOK

LEMMA SuppOthers ==
  ASSUME LifeInv, SuppOK,
         \/ waitForUprocs \/ EndInstantiator
         \/ \E a \in Asid : getMissingPage_NotFound(a)
         \/ UNCHANGED lifeVars
  PROVE  SuppOK'
<1>1. UNCHANGED <<freeSupp_tp, prev_supp, sup_asid, supp, below, started, p_supportStruct>>
  BY DEF waitForUprocs, EndInstantiator, getMissingPage_NotFound, lifeVars
<1>2. Holders' = Holders
  BY DEF waitForUprocs, EndInstantiator, getMissingPage_NotFound, lifeVars, Holders,
     LifeInv, LifeTypes
<1>3. at' = at \/ (at \in {"wait", "end"} /\ at' \in {"wait", "blocked", "end", "done"})
  BY DEF waitForUprocs, EndInstantiator, getMissingPage_NotFound, lifeVars, afterP
<1>4. InHand' = InHand
  BY <1>1, <1>3 DEF InHand
<1>5. Reading'
  BY <1>1, <1>3 DEF SuppOK, Reading
<1> QED  BY <1>1, <1>2, <1>4, <1>5, SuppStays

LEMMA SuppStep == LifeInv /\ SuppInv /\ [Next]_vars => SuppInv'
<1> SUFFICES ASSUME LifeInv, SuppInv, [Next]_vars, ~raced' PROVE SuppOK'
  BY DEF SuppInv
<1>1. \/ Instantiator
      \/ \E a \in Asid : terminate_support(a) \/ getMissingPage_NotFound(a)
      \/ UNCHANGED lifeVars
  BY DEF Next, Ends, Strays, PagerStep, handleTLBInvalid, writeFromPoolToDev, writeFromDevToPool,
     uTLB_RefillHandler, Write, EnterPager, Stay, vars
<1>2. ~raced
  BY <1>1 DEF Instantiator, InitSupport, alloc_supp, TestEmpty, TakeTop, ReadBelow, StoreTop,
     ClearLinks, init_uproc_support, create_Process, waitForUprocs, EndInstantiator,
     terminate_support, getMissingPage_NotFound, lifeVars
<1>3. SuppOK
  BY <1>2 DEF SuppInv
<1>4. CASE Instantiator
  BY <1>3, <1>4, SuppAlloc, SuppStore, SuppPrepare, SuppCreate, SuppOthers
  DEF Instantiator, InitSupport, alloc_supp
<1>5. CASE \E a \in Asid : terminate_support(a) \/ getMissingPage_NotFound(a)
  BY <1>3, <1>5, SuppEnds, SuppOthers
<1>6. CASE UNCHANGED lifeVars
  BY <1>3, <1>6, SuppOthers
<1> QED  BY <1>1, <1>4, <1>5, <1>6

(* Every process has a support structure of its own, and no structure is   *)
(* lost (pandos_types.h:33, initSupp.c:17), for any number of processes,   *)
(* as long as none ends between the two reads of the top of the stack.     *)
THEOREM SupportIsOwn == Spec => []OwnSupport
<1>1. Init => LifeInv
  BY LifeInitial DEF Init
<1> QED  BY <1>1, LifeStep, SuppInitial, SuppStep, SuppInvHolds, PTL DEF Spec
----------------------------------------------------------------------------
(* Translations                                                            *)

(* Nobody ends in the pager, or while waiting for it.                      *)
WorkInv == \A a \in Asid : step[a] # "user" => uproc[a] = "alive"

LEMMA WorkStep == UserInv /\ WorkInv /\ [Next]_vars => WorkInv'
<1> SUFFICES ASSUME UserInv, WorkInv, [Next]_vars PROVE WorkInv'
  OBVIOUS
<1>0. /\ uproc \in [Asid -> {"none", "alive", "ended", "killed"}]
      /\ step \in [Asid -> {"user", "queue", "pager", "out", "in"}]
  BY DEF UserInv, LifeInv, LifeTypes, MemTypes
<1>1. CASE Instantiator
  <2>1. UNCHANGED step
    BY <1>1 DEF Instantiator, InitSupport, memVars
  <2>2. CASE EndInstantiator
    <3>1. Cardinality(Ended) = UPROCMAX
      BY <2>2, EndedFacts, Constants
      DEF EndInstantiator, UserInv, LifeInv, MasterCounts, LifeControl, LifeTypes
    <3>2. \A a \in Asid : uproc[a] = "ended"
      BY <3>1, EndedFacts DEF Ended
    <3> QED  BY <2>1, <3>2 DEF WorkInv
  <2>3. CASE create_Process
    BY <1>0, <2>1, <2>3 DEF create_Process, WorkInv
  <2>4. CASE alloc_supp \/ waitForUprocs \/ InitSupport
    BY <2>1, <2>4 DEF WorkInv, alloc_supp, TestEmpty, TakeTop, ReadBelow, StoreTop, ClearLinks,
       waitForUprocs, InitSupport, init_uproc_support
  <2> QED  BY <1>1, <2>2, <2>3, <2>4 DEF Instantiator
<1>2. ASSUME NEW a \in Asid, Ends(a) \/ Strays(a) PROVE WorkInv'
  BY <1>0, <1>2 DEF Ends, Strays, InProgram, memVars, terminate_support, getMissingPage_NotFound,
     WorkInv
<1>3. ASSUME NEW a \in Asid, handleTLBInvalid(a) \/ writeFromPoolToDev(a) PROVE WorkInv'
  BY <1>0, <1>3 DEF handleTLBInvalid, writeFromPoolToDev, lifeVars, WorkInv
<1>4. ASSUME NEW a \in Asid, writeFromDevToPool(a) PROVE WorkInv'
  <2>1. UNCHANGED uproc /\ leavePager(a) /\ step[a] = "in"
    BY <1>4 DEF writeFromDevToPool, lifeVars
  <2>2. CASE swapQueue = <<>>
    BY <1>0, <2>1, <2>2 DEF leavePager, WorkInv
  <2>3. CASE swapQueue # <<>>
    <3>1. step' = [step EXCEPT ![a] = "user", ![Head(swapQueue)] = "pager"]
      BY <2>1, <2>3 DEF leavePager
    <3>2. swapQueue \in Seq(Asid) /\ Queued
      BY DEF UserInv, MemTypes, PagerControl
    <3>3. 1 \in 1 .. Len(swapQueue) /\ Head(swapQueue) = swapQueue[1] /\ Head(swapQueue) \in Asid
      BY <2>3, <3>2
    <3>4. step[Head(swapQueue)] = "queue"
      BY <3>2, <3>3 DEF Queued
    <3> QED  BY <1>0, <2>1, <3>1, <3>4 DEF WorkInv
  <2> QED  BY <2>2, <2>3
<1>5. ASSUME NEW a \in Asid, NEW v \in Page,
             uTLB_RefillHandler(a, v) \/ Write(a, v) \/ EnterPager(a, v)
      PROVE  WorkInv'
  BY <1>0, <1>5 DEF uTLB_RefillHandler, Write, EnterPager, InProgram, lifeVars, WorkInv
<1>6. CASE UNCHANGED vars
  BY <1>6 DEF vars, lifeVars, memVars, WorkInv
<1> QED  BY <1>1, <1>2, <1>3, <1>4, <1>5, <1>6 DEF Next, Stay, PagerStep

Own(a, v) == [sw_asid |-> a, sw_pte |-> <<p_supportStruct[a], v>>]

(* Whose the entries are: those of a live process, those of a process to   *)
(* be created, and any other.                                              *)
EntriesNamed ==
  /\ \A a \in Alive, v \in Page : tableOf(a)[v].asid = a /\ tableOf(a)[v].page = v
  /\ at = "create" =>
       \A v \in Page : /\ pgTbl[supp][v].asid = started + 1 /\ pgTbl[supp][v].page = v
                       /\ ~pgTbl[supp][v].valid
  /\ \A s \in Supp, v \in Page :
       pgTbl[s][v].asid \in Alive => p_supportStruct[pgTbl[s][v].asid] = s
  /\ \A s \in Supp, v \in Page :
       pgTbl[s][v].asid <= started \/ (at = "create" /\ s = supp)

TLBAgrees ==
  /\ \A i \in 0 .. TLBSIZE - 1 : tlb[i].asid <= started
  /\ \A i \in 0 .. TLBSIZE - 1 :
       tlb[i].asid \in Alive => tlb[i] = tableOf(tlb[i].asid)[tlb[i].page]
  /\ \A i, j \in 0 .. TLBSIZE - 1 :
       tlb[i].asid \in Alive /\ tlb[i].asid = tlb[j].asid /\ tlb[i].page = tlb[j].page => i = j

FramesAgree ==
  \A a \in Alive, v \in Page :
    tableOf(a)[v].valid =>
      frameOf(tableOf(a)[v]) \in Frame /\ swapTable[frameOf(tableOf(a)[v])] = Own(a, v)

(* A frame that is being replaced holds no page that counts.               *)
VictimInvalid ==
  (\E b \in Asid : step[b] \in {"out", "in"}) =>
    \A a \in Alive, v \in Page :
      tableOf(a)[v].valid => frameOf(tableOf(a)[v]) # frameIndexToReplace

AgreeOK == EntriesNamed /\ TLBAgrees /\ FramesAgree /\ VictimInvalid
AgreeInv == ~raced => AgreeOK

LEMMA AgreeHolds == UserInv /\ AgreeInv => TranslationsAgree
<1> SUFFICES ASSUME UserInv, AgreeOK, ~raced PROVE TranslationsAgree
  BY DEF AgreeInv, TranslationsAgree
<1>1. DOMAIN tlb = 0 .. TLBSIZE - 1
  BY DEF UserInv, MemTypes
<1> QED  BY <1>1 DEF AgreeOK, TLBAgrees, FramesAgree, Own, TranslationsAgree

LEMMA AgreeInitial == Init => AgreeOK
<1> SUFFICES ASSUME Init PROVE AgreeOK
  OBVIOUS
<1>1. Alive = {} /\ started = 0 /\ at = "alloc"
  BY DEF Init, LifeInit, Alive
<1>2. \A s \in Supp, v \in Page : pgTbl[s][v].asid = 0
  BY DEF Init, NoEntry
<1>3. \A i \in 0 .. TLBSIZE - 1 : tlb[i].asid = 0
  BY DEF Init, NoEntry
<1> QED
  BY <1>1, <1>2, <1>3 DEF AgreeOK, EntriesNamed, TLBAgrees, FramesAgree, VictimInvalid

LEMMA TLBPFacts ==
  ASSUME tlb \in [0 .. TLBSIZE - 1 -> Entry], NEW a, NEW v
  PROVE  \/ /\ TLBP(tlb, a, v) = NULL
            /\ \A i \in 0 .. TLBSIZE - 1 : ~(tlb[i].asid = a /\ tlb[i].page = v)
         \/ /\ TLBP(tlb, a, v) # NULL /\ TLBP(tlb, a, v) \in 0 .. TLBSIZE - 1
            /\ tlb[TLBP(tlb, a, v)].asid = a /\ tlb[TLBP(tlb, a, v)].page = v
<1>1. CASE \E i \in 0 .. TLBSIZE - 1 : tlb[i].asid = a /\ tlb[i].page = v
  <2> DEFINE j == CHOOSE i \in 0 .. TLBSIZE - 1 : tlb[i].asid = a /\ tlb[i].page = v
  <2>1. j \in 0 .. TLBSIZE - 1 /\ tlb[j].asid = a /\ tlb[j].page = v
    BY <1>1
  <2>2. TLBP(tlb, a, v) = j
    BY <1>1 DEF TLBP
  <2>3. j # NULL
    BY <2>1, LifecycleAssumption
  <2> QED  BY <2>1, <2>2, <2>3
<1>2. CASE ~\E i \in 0 .. TLBSIZE - 1 : tlb[i].asid = a /\ tlb[i].page = v
  <2>1. TLBP(tlb, a, v) = NULL
    BY <1>2 DEF TLBP
  <2> QED  BY <1>2, <2>1
<1> QED  BY <1>1, <1>2
(* Live processes have different structures, and none that is in hand.     *)
LEMMA OwnFacts ==
  ASSUME UserInv, SuppOK
  PROVE  /\ \A a \in Alive : a \in Asid /\ a <= started /\ p_supportStruct[a] \in Supp
         /\ \A a, b \in Alive : p_supportStruct[a] = p_supportStruct[b] => a = b
         /\ at \in {"clear", "init", "create"} =>
              supp \in Supp /\ \A a \in Alive : p_supportStruct[a] # supp
<1>1. \A a \in Alive : a \in Holders /\ p_supportStruct[a] \in Held
  BY DEF Alive, Holders, Held
<1>2. \A a \in Alive : a \in Asid /\ a <= started /\ p_supportStruct[a] \in Supp
  BY Constants DEF Alive, UserInv, LifeInv, LifeTypes, LifeControl, Asid
<1>3. \A a, b \in Alive : p_supportStruct[a] = p_supportStruct[b] => a = b
  BY <1>1 DEF SuppOK, OwnStructure
<1>4. Held \cap InHand = {}
  BY DEF SuppOK, Divided
<1>5. at \in {"clear", "init", "create"} => supp \in InHand /\ supp \in Supp
  BY DEF InHand, UserInv, LifeInv, LifeTypes, LifeControl
<1> QED  BY <1>1, <1>2, <1>3, <1>4, <1>5

(* Processes end and test_phase_3 moves, nothing is created.               *)
LEMMA AgreeShrinks ==
  ASSUME AgreeOK, UNCHANGED memVars, UNCHANGED <<p_supportStruct, started>>,
         Alive' \subseteq Alive,
         (at' = "create" <=> at = "create"), at = "create" => supp' = supp
  PROVE  AgreeOK'
<1>1. \A a : tableOf(a)' = tableOf(a)
  BY DEF tableOf, memVars
<1>2. UNCHANGED <<pgTbl, swapTable, frameIndexToReplace, tlb, step>>
  BY DEF memVars
<1>3. EntriesNamed'
  BY <1>1, <1>2 DEF AgreeOK, EntriesNamed
<1>4. TLBAgrees'
  BY <1>1, <1>2 DEF AgreeOK, TLBAgrees
<1>5. FramesAgree' /\ VictimInvalid'
  BY <1>1, <1>2 DEF AgreeOK, FramesAgree, VictimInvalid, frameOf, Own
<1> QED  BY <1>3, <1>4, <1>5 DEF AgreeOK

(* Memory and processes change, translations do not.                       *)
LEMMA AgreeKept ==
  ASSUME AgreeOK, UNCHANGED <<lifeVars, pgTbl, swapTable, frameIndexToReplace, tlb>>,
         (\E b \in Asid : step'[b] \in {"out", "in"}) => \E b \in Asid : step[b] \in {"out", "in"}
  PROVE  AgreeOK'
<1>1. /\ UNCHANGED <<p_supportStruct, started, at, supp>> /\ Alive' = Alive
      /\ \A a : tableOf(a)' = tableOf(a)
  BY DEF lifeVars, Alive, tableOf
<1>2. EntriesNamed'
  BY <1>1 DEF AgreeOK, EntriesNamed
<1>3. TLBAgrees'
  BY <1>1 DEF AgreeOK, TLBAgrees
<1>4. FramesAgree' /\ VictimInvalid'
  BY <1>1 DEF AgreeOK, FramesAgree, VictimInvalid, frameOf, Own
<1> QED  BY <1>2, <1>3, <1>4 DEF AgreeOK

LEMMA AgreeCreate ==
  ASSUME UserInv, SuppOK, AgreeOK, create_Process, UNCHANGED memVars
  PROVE  AgreeOK'
<1>0. started \in Nat /\ started + 1 \in Asid /\ uproc[started + 1] = "none" /\ supp \in Supp
  BY Constants
  DEF create_Process, UserInv, LifeInv, LifeTypes, LifeControl, Creating, Asid
<1>a. PICK new \in Asid : new = started + 1
  BY <1>0
<1>1. /\ at = "create" /\ at' \in {"alloc", "wait"} /\ started' = new
      /\ uproc' = [uproc EXCEPT ![new] = "alive"]
      /\ p_supportStruct' = [p_supportStruct EXCEPT ![new] = supp]
      /\ UNCHANGED <<pgTbl, swapTable, frameIndexToReplace, tlb, step>>
  BY <1>a DEF create_Process, memVars
<1>2. new > started /\ new \in Nat /\ started \in Nat /\ uproc[new] = "none"
  BY <1>0, <1>a, Constants DEF Asid
<1>3. Alive' = Alive \cup {new} /\ new \notin Alive /\ Alive \subseteq Asid
  BY <1>1, <1>2 DEF Alive, UserInv, LifeInv, LifeTypes
<1>4. p_supportStruct'[new] = supp /\ \A a \in Alive : p_supportStruct'[a] = p_supportStruct[a]
  BY <1>1, <1>2, <1>3 DEF UserInv, LifeInv, LifeTypes
<1>5. tableOf(new)' = pgTbl[supp] /\ \A a \in Alive : tableOf(a)' = tableOf(a)
  BY <1>1, <1>4 DEF tableOf
<1>6. \A v \in Page : /\ pgTbl[supp][v].asid = new /\ pgTbl[supp][v].page = v
                      /\ ~pgTbl[supp][v].valid
  BY <1>1, <1>a DEF AgreeOK, EntriesNamed
<1>7. EntriesNamed'
  <2>1. \A a \in Alive', v \in Page : tableOf(a)'[v].asid = a /\ tableOf(a)'[v].page = v
    BY <1>3, <1>5, <1>6 DEF AgreeOK, EntriesNamed
  <2>2. \A s \in Supp, v \in Page : pgTbl[s][v].asid \in Nat
    BY Constants DEF UserInv, MemTypes, Entry
  <2>3. \A s \in Supp, v \in Page : pgTbl[s][v].asid <= started \/ s = supp
    BY DEF AgreeOK, EntriesNamed
  <2>4. \A s \in Supp, v \in Page :
          pgTbl[s][v].asid \in Alive' => p_supportStruct'[pgTbl[s][v].asid] = s
    BY <1>2, <1>3, <1>4, <2>2, <2>3 DEF AgreeOK, EntriesNamed
  <2>5. \A s \in Supp, v \in Page : pgTbl[s][v].asid <= new
    BY <1>2, <1>6, <2>2, <2>3
  <2> QED  BY <1>1, <2>1, <2>4, <2>5 DEF EntriesNamed
<1>8. TLBAgrees'
  <2>1. \A i \in 0 .. TLBSIZE - 1 : tlb[i].asid <= started /\ tlb[i].asid \in Nat
    BY Constants DEF AgreeOK, TLBAgrees, UserInv, MemTypes, Entry
  <2>2. \A i \in 0 .. TLBSIZE - 1 : tlb[i].asid \in Alive' => tlb[i].asid \in Alive
    BY <1>2, <1>3, <2>1
  <2>3. \A i \in 0 .. TLBSIZE - 1 : tlb[i].asid <= new
    BY <1>2, <2>1
  <2> QED  BY <1>1, <1>5, <2>2, <2>3 DEF AgreeOK, TLBAgrees
<1>9. FramesAgree' /\ VictimInvalid'
  <2>1. \A a \in Alive', v \in Page : tableOf(a)'[v].valid =>
          a \in Alive /\ tableOf(a)'[v] = tableOf(a)[v] /\ Own(a, v)' = Own(a, v)
    BY <1>3, <1>4, <1>5, <1>6 DEF Own
  <2> QED  BY <1>1, <2>1 DEF AgreeOK, FramesAgree, VictimInvalid, frameOf
<1> QED  BY <1>7, <1>8, <1>9 DEF AgreeOK

LEMMA AgreeInitSupport ==
  ASSUME UserInv, SuppOK, AgreeOK, InitSupport
  PROVE  AgreeOK'
<1>1. /\ at = "init" /\ at' = "create" /\ UNCHANGED <<supp, started, uproc, p_supportStruct>>
      /\ sup_asid' = [sup_asid EXCEPT ![supp] = started + 1]
      /\ UNCHANGED <<swapTable, frameIndexToReplace, tlb, step>>
      /\ pgTbl' = [pgTbl EXCEPT ![supp] =
                     [v \in Page |-> [asid |-> sup_asid'[supp], page |-> v, pfn |-> 0,
                                      valid |-> FALSE]]]
  BY DEF InitSupport, init_uproc_support
<1>2. /\ supp \in Supp /\ \A a \in Alive : p_supportStruct[a] # supp
      /\ \A a \in Alive : a <= started /\ p_supportStruct[a] \in Supp
  BY <1>1, OwnFacts
<1>3. sup_asid'[supp] = started + 1
  BY <1>1, <1>2 DEF UserInv, LifeInv, LifeTypes
<1>4. /\ \A s \in Supp : s # supp => pgTbl'[s] = pgTbl[s]
      /\ \A v \in Page : /\ pgTbl'[supp][v].asid = started + 1 /\ pgTbl'[supp][v].page = v
                         /\ ~pgTbl'[supp][v].valid
  BY <1>1, <1>2, <1>3 DEF UserInv, MemTypes
<1>5. Alive' = Alive /\ \A a \in Alive : tableOf(a)' = tableOf(a)
  BY <1>1, <1>2, <1>4 DEF Alive, tableOf
<1>6. started \in Nat /\ started + 1 \notin Alive
  BY <1>2, Constants DEF UserInv, LifeInv, LifeTypes
<1>7. EntriesNamed'
  <2>1. \A s \in Supp, v \in Page :
          /\ pgTbl'[s][v].asid \in Alive => p_supportStruct[pgTbl'[s][v].asid] = s
          /\ pgTbl'[s][v].asid <= started \/ s = supp
    <3> SUFFICES ASSUME NEW s \in Supp, NEW v \in Page
                 PROVE  /\ pgTbl'[s][v].asid \in Alive => p_supportStruct[pgTbl'[s][v].asid] = s
                        /\ pgTbl'[s][v].asid <= started \/ s = supp
      OBVIOUS
    <3>1. CASE s = supp
      BY <1>4, <1>6, <3>1
    <3>2. CASE s # supp
      BY <1>1, <1>4, <3>2 DEF AgreeOK, EntriesNamed
    <3> QED  BY <3>1, <3>2
  <2>2. \A a \in Alive, v \in Page : tableOf(a)'[v].asid = a /\ tableOf(a)'[v].page = v
    BY <1>5 DEF AgreeOK, EntriesNamed
  <2> QED  BY <1>1, <1>4, <1>5, <2>1, <2>2 DEF EntriesNamed
<1>8. TLBAgrees'
  BY <1>1, <1>5 DEF AgreeOK, TLBAgrees
<1>9. FramesAgree' /\ VictimInvalid'
  BY <1>1, <1>5 DEF AgreeOK, FramesAgree, VictimInvalid, frameOf, Own
<1> QED  BY <1>7, <1>8, <1>9 DEF AgreeOK

(* An entry of a page table is replaced, and the TLB's with it.            *)
LEMMA EntryReplaced ==
  ASSUME UserInv, SuppOK, AgreeOK, UNCHANGED lifeVars,
         NEW s \in Supp, NEW v \in Page, NEW new \in Entry, NEW stored \in Entry, NEW i,
         new.asid = pgTbl[s][v].asid, new.page = pgTbl[s][v].page,
         stored.asid = new.asid, stored.page = new.page, new.asid \in Alive => stored = new,
         at = "create" /\ s = supp => ~new.valid,
         i = TLBP(tlb, new.asid, new.page),
         pgTbl' = [pgTbl EXCEPT ![s][v] = new],
         tlb' = IF i = NULL THEN tlb ELSE [tlb EXCEPT ![i] = stored]
  PROVE  EntriesNamed' /\ TLBAgrees'
<1>1. /\ UNCHANGED <<p_supportStruct, started, at, supp>> /\ Alive' = Alive
      /\ pgTbl \in [Supp -> [Page -> Entry]] /\ tlb \in [0 .. TLBSIZE - 1 -> Entry]
  BY DEF lifeVars, Alive, UserInv, MemTypes
<1>2. \A r \in Supp, w \in Page : pgTbl'[r][w] = IF r = s /\ w = v THEN new ELSE pgTbl[r][w]
  BY <1>1
<1>3. \A b \in Alive, w \in Page :
        tableOf(b)'[w] = IF p_supportStruct[b] = s /\ w = v THEN new ELSE tableOf(b)[w]
  BY <1>1, <1>2, OwnFacts DEF tableOf
<1>4. \A r \in Supp, w \in Page : /\ pgTbl'[r][w].asid = pgTbl[r][w].asid
                                  /\ pgTbl'[r][w].page = pgTbl[r][w].page
  BY <1>2
<1>5. \A b \in Alive, w \in Page : /\ tableOf(b)'[w].asid = tableOf(b)[w].asid
                                   /\ tableOf(b)'[w].page = tableOf(b)[w].page
  BY <1>3 DEF tableOf
<1>e. /\ \A b \in Alive, w \in Page : tableOf(b)[w].asid = b /\ tableOf(b)[w].page = w
      /\ \A r \in Supp, w \in Page :
           pgTbl[r][w].asid \in Alive => p_supportStruct[pgTbl[r][w].asid] = r
      /\ at = "create" =>
           \A w \in Page : /\ pgTbl[supp][w].asid = started + 1 /\ pgTbl[supp][w].page = w
                           /\ ~pgTbl[supp][w].valid
      /\ \A r \in Supp, w \in Page :
           pgTbl[r][w].asid <= started \/ (at = "create" /\ r = supp)
  BY DEF AgreeOK, EntriesNamed
<1>6. EntriesNamed'
  <2>1. \A b \in Alive, w \in Page : tableOf(b)'[w].asid = b /\ tableOf(b)'[w].page = w
    BY <1>5, <1>e
  <2>2. at = "create" =>
          \A w \in Page : /\ pgTbl'[supp][w].asid = started + 1 /\ pgTbl'[supp][w].page = w
                          /\ ~pgTbl'[supp][w].valid
    <3>1. at = "create" => supp \in Supp
      BY OwnFacts
    <3> QED  BY <1>2, <1>4, <1>e, <3>1
  <2>3. \A r \in Supp, w \in Page :
          /\ pgTbl'[r][w].asid \in Alive => p_supportStruct[pgTbl'[r][w].asid] = r
          /\ pgTbl'[r][w].asid <= started \/ (at = "create" /\ r = supp)
    BY <1>4, <1>e
  <2> QED  BY <1>1, <2>1, <2>2, <2>3 DEF EntriesNamed
<1>7. \/ i = NULL /\ \A k \in 0 .. TLBSIZE - 1 : ~(tlb[k].asid = new.asid /\ tlb[k].page = new.page)
      \/ /\ i # NULL /\ i \in 0 .. TLBSIZE - 1
         /\ tlb[i].asid = new.asid /\ tlb[i].page = new.page
  <2>1. PICK b, w : b = new.asid /\ w = new.page
    OBVIOUS
  <2>2. i = TLBP(tlb, b, w)
    BY <2>1
  <2>3. \/ /\ TLBP(tlb, b, w) = NULL
           /\ \A k \in 0 .. TLBSIZE - 1 : ~(tlb[k].asid = b /\ tlb[k].page = w)
        \/ /\ TLBP(tlb, b, w) # NULL /\ TLBP(tlb, b, w) \in 0 .. TLBSIZE - 1
           /\ tlb[TLBP(tlb, b, w)].asid = b /\ tlb[TLBP(tlb, b, w)].page = w
    BY <1>1, TLBPFacts
  <2> QED  BY <2>1, <2>2, <2>3, Zenon
<1>8. \A k \in 0 .. TLBSIZE - 1 : /\ tlb'[k] = IF k = i THEN stored ELSE tlb[k]
                                  /\ tlb'[k].asid = tlb[k].asid /\ tlb'[k].page = tlb[k].page
  BY <1>1, <1>7, LifecycleAssumption
<1>9. ASSUME NEW k \in 0 .. TLBSIZE - 1, tlb[k].asid \in Alive
      PROVE  tlb'[k] = tableOf(tlb[k].asid)'[tlb[k].page]
  <2>0. tlb[k] = tableOf(tlb[k].asid)[tlb[k].page] /\ tlb[k].page \in Page
    BY <1>1, <1>9 DEF AgreeOK, TLBAgrees, Entry
  <2>1. CASE k = i
    <3>1. new.asid = tlb[k].asid /\ new.page = tlb[k].page /\ tlb'[k] = new
      BY <1>7, <1>8, <1>9, <2>1, LifecycleAssumption
    <3>2. p_supportStruct[new.asid] = s
      <4>1. pgTbl[s][v].asid \in Alive
        BY <1>9, <3>1
      <4>2. p_supportStruct[pgTbl[s][v].asid] = s
        BY <1>e, <4>1
      <4> QED  BY <4>2
    <3>3. new.page = v
      BY <1>9, <1>e, <3>1, <3>2 DEF tableOf
    <3> QED  BY <1>3, <1>9, <3>1, <3>2, <3>3
  <2>2. CASE k # i
    <3>1. SUFFICES ASSUME p_supportStruct[tlb[k].asid] = s, tlb[k].page = v PROVE FALSE
      BY <1>3, <1>8, <1>9, <2>0, <2>2
    <3>2. new.asid = tlb[k].asid /\ new.page = tlb[k].page
      BY <2>0, <3>1 DEF tableOf
    <3>3. i \in 0 .. TLBSIZE - 1 /\ tlb[i].asid = tlb[k].asid /\ tlb[i].page = tlb[k].page
      BY <1>7, <3>2
    <3> QED  BY <1>9, <2>2, <3>3 DEF AgreeOK, TLBAgrees
  <2> QED  BY <2>1, <2>2
<1>10. TLBAgrees'
  BY <1>1, <1>8, <1>9 DEF AgreeOK, TLBAgrees
<1> QED  BY <1>6, <1>10

(* The victim's page becomes invalid, and it was the only one in the       *)
(* frame; a frame that is not occupied has none.                           *)
LEMMA AgreeHandle ==
  ASSUME UserInv, SuppOK, AgreeOK, NEW a \in Asid, handleTLBInvalid(a)
  PROVE  AgreeOK'
<1>a. PICK f \in Frame : frameIndexToReplace' = f
  BY FrameChosen DEF handleTLBInvalid
<1>1. UNCHANGED lifeVars /\ UNCHANGED swapTable
  BY DEF handleTLBInvalid
<1>2. UNCHANGED p_supportStruct /\ Alive' = Alive
  BY <1>1 DEF lifeVars, Alive
<1>3. CASE frameIsOccupied(f)
  <2>1. swapTable[f] \in SwapEntry /\ markInvalid(swapTable[f].sw_pte)
    BY <1>3, <1>a, OccupiedType DEF handleTLBInvalid, UserInv
  <2>2. PICK s \in Supp, v \in Page : swapTable[f].sw_pte = <<s, v>>
    BY <2>1 DEF SwapEntry
  <2>3. PICK new \in Entry : new = [pgTbl[s][v] EXCEPT !.valid = FALSE]
    BY InvalidEntry DEF UserInv, MemTypes
  <2>4. pgTbl[s][v] \in Entry /\ tlb \in [0 .. TLBSIZE - 1 -> Entry]
    BY DEF UserInv, MemTypes
  <2>5. /\ new.asid = pgTbl[s][v].asid /\ new.page = pgTbl[s][v].page /\ ~new.valid
        /\ new.pfn = pgTbl[s][v].pfn
    BY <2>3, <2>4 DEF Entry
  <2>6. /\ pgTbl' = [pgTbl EXCEPT ![s][v] = new]
        /\ tlb' = markTLBEntryNotValid(tlb, pgTbl[s][v])
    BY <2>1, <2>2, <2>3 DEF markInvalid, entryAt
  <2>7. EntriesNamed' /\ TLBAgrees'
    <3>1. PICK i : i = TLBP(tlb, new.asid, new.page)
      OBVIOUS
    <3>2. CASE i = NULL
      <4>1. tlb' = tlb
        BY <2>5, <2>6, <3>1, <3>2 DEF markTLBEntryNotValid
      <4> QED  BY <1>1, <2>5, <2>6, <3>1, <3>2, <4>1, EntryReplaced
    <3>3. CASE i # NULL
      <4>1. i \in 0 .. TLBSIZE - 1 /\ tlb[i].asid = new.asid /\ tlb[i].page = new.page
        <5>1. PICK b, w : b = new.asid /\ w = new.page
          OBVIOUS
        <5>2. i = TLBP(tlb, b, w)
          BY <3>1, <5>1
        <5>3. /\ TLBP(tlb, b, w) # NULL => TLBP(tlb, b, w) \in 0 .. TLBSIZE - 1
              /\ TLBP(tlb, b, w) # NULL =>
                   tlb[TLBP(tlb, b, w)].asid = b /\ tlb[TLBP(tlb, b, w)].page = w
          BY <2>4, TLBPFacts
        <5> QED  BY <3>3, <5>1, <5>2, <5>3, Zenon
      <4>2. PICK stored \in Entry : stored = [tlb[i] EXCEPT !.valid = FALSE]
        BY <2>4, <4>1, InvalidEntry
      <4>3. stored.asid = new.asid /\ stored.page = new.page
        BY <2>4, <4>1, <4>2 DEF Entry
      <4>4. tlb' = [tlb EXCEPT ![i] = stored]
        BY <2>5, <2>6, <3>1, <3>3, <4>2 DEF markTLBEntryNotValid
      <4>5. ASSUME new.asid \in Alive PROVE stored = new
        <5>1. p_supportStruct[new.asid] = s
          BY <2>5, <4>5 DEF AgreeOK, EntriesNamed
        <5>2. new.page = v
          BY <2>5, <4>5, <5>1 DEF AgreeOK, EntriesNamed, tableOf
        <5>3. tlb[i] = pgTbl[s][v]
          BY <4>1, <4>5, <5>1, <5>2 DEF AgreeOK, TLBAgrees, tableOf
        <5> QED  BY <2>3, <4>2, <5>3
      <4> QED  BY <1>1, <2>5, <2>6, <3>1, <3>3, <4>3, <4>4, <4>5, EntryReplaced
    <3> QED  BY <3>2, <3>3
  <2>8. \A b \in Alive, w \in Page : tableOf(b)'[w].valid =>
          tableOf(b)'[w] = tableOf(b)[w] /\ ~(p_supportStruct[b] = s /\ w = v)
    BY <1>2, <2>5, <2>6, OwnFacts DEF tableOf, UserInv, MemTypes
  <2>9. FramesAgree'
    BY <1>1, <1>2, <2>8 DEF AgreeOK, FramesAgree, frameOf, Own
  <2>10. ASSUME NEW b \in Alive, NEW w \in Page, tableOf(b)'[w].valid, frameOf(tableOf(b)'[w]) = f
         PROVE  FALSE
    <3>1. /\ tableOf(b)[w].valid /\ frameOf(tableOf(b)[w]) = f
          /\ ~(p_supportStruct[b] = s /\ w = v)
      BY <2>8, <2>10
    <3>2. swapTable[f] = Own(b, w)
      BY <3>1 DEF AgreeOK, FramesAgree
    <3> QED  BY <2>2, <3>1, <3>2 DEF Own
  <2>11. VictimInvalid'
    BY <1>2, <1>a, <2>10 DEF VictimInvalid, frameOf
  <2> QED  BY <2>7, <2>9, <2>11 DEF AgreeOK
<1>4. CASE ~frameIsOccupied(f)
  <2>1. UNCHANGED <<pgTbl, tlb>>
    BY <1>4, <1>a DEF handleTLBInvalid
  <2>2. \A b \in Alive : tableOf(b)' = tableOf(b)
    BY <1>2, <2>1 DEF tableOf
  <2>3. ASSUME NEW b \in Alive, NEW w \in Page, tableOf(b)[w].valid, frameOf(tableOf(b)[w]) = f
        PROVE  FALSE
    <3>1. swapTable[f] = Own(b, w)
      BY <2>3 DEF AgreeOK, FramesAgree
    <3> QED  BY <1>4, <3>1, OwnFacts DEF Own, frameIsOccupied
  <2>4. EntriesNamed' /\ TLBAgrees'
    BY <1>1, <1>2, <2>1, <2>2 DEF AgreeOK, EntriesNamed, TLBAgrees, lifeVars
  <2>5. FramesAgree'
    BY <1>1, <1>2, <2>2 DEF AgreeOK, FramesAgree, frameOf, Own
  <2>6. VictimInvalid'
    BY <1>2, <1>a, <2>2, <2>3 DEF VictimInvalid, frameOf
  <2> QED  BY <2>4, <2>5, <2>6 DEF AgreeOK
<1> QED  BY <1>3, <1>4

(* The page goes into the frame nobody has a valid page in.                *)
LEMMA AgreeReadIn ==
  ASSUME UserInv, WorkInv, SuppOK, AgreeOK, NEW a \in Asid, writeFromDevToPool(a)
  PROVE  AgreeOK'
<1>1. /\ step[a] = "in" /\ leavePager(a)
      /\ UNCHANGED lifeVars /\ UNCHANGED frameIndexToReplace
  BY DEF writeFromDevToPool
<1>2. a \in Alive /\ UNCHANGED p_supportStruct /\ Alive' = Alive
  BY <1>1 DEF WorkInv, Alive, lifeVars
<1>3. PICK s \in Supp, v \in Page : s = p_supportStruct[a] /\ v = missing[a]
  BY <1>2, OwnFacts DEF UserInv, MemTypes
<1>4. PICK f \in Frame : frameIndexToReplace = f
  BY DEF UserInv, MemTypes
<1>5. pgTbl[s][v] \in Entry /\ pgTbl[s][v].asid = a /\ pgTbl[s][v].page = v
  BY <1>2, <1>3 DEF UserInv, MemTypes, AgreeOK, EntriesNamed, tableOf
<1>6. PICK new \in Entry :
        new = [pgTbl[s][v] EXCEPT !.pfn = FRAMEPOOLSTART + f, !.valid = TRUE]
  <2>1. FRAMEPOOLSTART + f \in Nat
    BY Constants DEF Frame
  <2> QED  BY <1>5, <2>1 DEF Entry
<1>7. /\ new.asid = pgTbl[s][v].asid /\ new.page = pgTbl[s][v].page
      /\ frameOf(new) = f
  BY <1>5, <1>6, Constants DEF Entry, frameOf, Frame
<1>8. /\ pgTbl' = [pgTbl EXCEPT ![s][v] = new]
      /\ tlb' = updateEntryInTLB(tlb, new)
      /\ swapTable' = [swapTable EXCEPT ![f] = [sw_asid |-> a, sw_pte |-> <<s, v>>]]
  BY <1>3, <1>4, <1>5, <1>6 DEF writeFromDevToPool, updateSwapTableEntry, entryAt
<1>9. EntriesNamed' /\ TLBAgrees'
  <2>1. PICK i : i = TLBP(tlb, new.asid, new.page)
    OBVIOUS
  <2>2. tlb' = IF i = NULL THEN tlb ELSE [tlb EXCEPT ![i] = new]
    BY <1>8, <2>1 DEF updateEntryInTLB
  <2>3. ~(at = "create" /\ s = supp)
    BY <1>2, <1>3, OwnFacts
  <2> QED  BY <1>1, <1>7, <1>8, <2>1, <2>2, <2>3, EntryReplaced
<1>10. \A b \in Alive, w \in Page :
         /\ b = a /\ w = v => tableOf(b)'[w] = new
         /\ ~(b = a /\ w = v) => tableOf(b)'[w] = tableOf(b)[w]
  BY <1>2, <1>3, <1>8, OwnFacts DEF tableOf, UserInv, MemTypes
<1>11. \A b \in Alive, w \in Page :
         tableOf(b)[w].valid => /\ frameOf(tableOf(b)[w]) \in Frame \ {f}
                                /\ swapTable[frameOf(tableOf(b)[w])] = Own(b, w)
  BY <1>1, <1>4 DEF AgreeOK, VictimInvalid, FramesAgree
<1>12. FramesAgree'
  <2>1. \A g \in Frame : swapTable'[g] = IF g = f THEN Own(a, v) ELSE swapTable[g]
    BY <1>3, <1>8 DEF Own, UserInv, MemTypes
  <2>2. \A b, w : Own(b, w)' = Own(b, w)
    BY <1>2 DEF Own
  <2> QED  BY <1>2, <1>7, <1>10, <1>11, <2>1, <2>2 DEF FramesAgree, frameOf
<1>13. VictimInvalid'
  <2>1. \A b \in Asid : step'[b] \notin {"out", "in"}
    BY <1>1, AloneInPager DEF leavePager, UserInv, MemTypes
  <2> QED  BY <2>1 DEF VictimInvalid
<1> QED  BY <1>9, <1>12, <1>13 DEF AgreeOK

(* A page the TLB has no entry of gets one.                                *)
LEMMA AgreeRefill ==
  ASSUME UserInv, SuppOK, AgreeOK, NEW a \in Asid, NEW v \in Page, uTLB_RefillHandler(a, v)
  PROVE  AgreeOK'
<1>1. /\ a \in Alive /\ TLBP(tlb, a, v) = NULL
      /\ tlb' = [tlb EXCEPT ![tlbIndex] = tableOf(a)[v]]
      /\ UNCHANGED lifeVars /\ UNCHANGED <<pgTbl, swapTable, frameIndexToReplace, step>>
  BY DEF uTLB_RefillHandler, InProgram, Alive
<1>2. /\ UNCHANGED <<p_supportStruct, started, at, supp>> /\ Alive' = Alive
      /\ \A b : tableOf(b)' = tableOf(b)
  BY <1>1 DEF lifeVars, Alive, tableOf
<1>3. tlb \in [0 .. TLBSIZE - 1 -> Entry] /\ tlbIndex \in 0 .. TLBSIZE - 1
  BY DEF UserInv, MemTypes
<1>4. tableOf(a)[v].asid = a /\ tableOf(a)[v].page = v /\ a <= started
  BY <1>1, OwnFacts DEF AgreeOK, EntriesNamed
<1>5. \A k \in 0 .. TLBSIZE - 1 : ~(tlb[k].asid = a /\ tlb[k].page = v)
  BY <1>1, <1>3, TLBPFacts
<1>6. \A k \in 0 .. TLBSIZE - 1 : tlb'[k] = IF k = tlbIndex THEN tableOf(a)[v] ELSE tlb[k]
  BY <1>1, <1>3
<1>7. TLBAgrees'
  BY <1>2, <1>4, <1>5, <1>6 DEF AgreeOK, TLBAgrees
<1>8. EntriesNamed' /\ FramesAgree' /\ VictimInvalid'
  BY <1>1, <1>2 DEF AgreeOK, EntriesNamed, FramesAgree, VictimInvalid, frameOf, Own
<1> QED  BY <1>7, <1>8 DEF AgreeOK

LEMMA AgreeStep ==
  ASSUME UserInv, WorkInv, SuppInv, AgreeInv, LifeInv', SuppInv', [Next]_vars
  PROVE  AgreeInv'
<1> SUFFICES ASSUME ~raced' PROVE AgreeOK'
  BY DEF AgreeInv
<1>1. ~raced
  BY DEF Next, Stay, Ends, Strays, PagerStep, handleTLBInvalid, writeFromPoolToDev,
     writeFromDevToPool, uTLB_RefillHandler, Write, EnterPager, vars, Instantiator, InitSupport,
     alloc_supp, TestEmpty, TakeTop, ReadBelow, StoreTop, ClearLinks, init_uproc_support,
     create_Process, waitForUprocs, EndInstantiator, terminate_support, getMissingPage_NotFound,
     lifeVars
<1>2. SuppOK /\ AgreeOK
  BY <1>1 DEF SuppInv, AgreeInv
<1>3. CASE (alloc_supp \/ waitForUprocs \/ EndInstantiator) /\ UNCHANGED memVars
  <2>1. UNCHANGED <<p_supportStruct, started>> /\ Alive' \subseteq Alive
    BY <1>3 DEF alloc_supp, TestEmpty, TakeTop, ReadBelow, StoreTop, ClearLinks, waitForUprocs,
       EndInstantiator, Alive
  <2>2. at # "create" /\ at' # "create"
    BY <1>3 DEF alloc_supp, TestEmpty, TakeTop, ReadBelow, StoreTop, ClearLinks, waitForUprocs,
       EndInstantiator, afterP
  <2> QED  BY <1>2, <1>3, <2>1, <2>2, AgreeShrinks
<1>4. CASE InitSupport
  BY <1>2, <1>4, AgreeInitSupport
<1>5. CASE create_Process /\ UNCHANGED memVars
  BY <1>2, <1>5, AgreeCreate
<1>6. ASSUME NEW a \in Asid, Ends(a) \/ Strays(a) PROVE AgreeOK'
  <2>1. UNCHANGED <<p_supportStruct, started, supp>> /\ Alive' \subseteq Alive
    BY <1>6 DEF Ends, Strays, terminate_support, getMissingPage_NotFound, Alive, UserInv, LifeInv,
       LifeTypes
  <2>2. at' = "create" <=> at = "create"
    BY <1>6 DEF Ends, Strays, terminate_support, notifyTerminated, afterP, getMissingPage_NotFound
  <2> QED  BY <1>2, <1>6, <2>1, <2>2, AgreeShrinks DEF Ends, Strays
<1>7. ASSUME NEW a \in Asid, PagerStep(a) PROVE AgreeOK'
  <2>1. CASE writeFromPoolToDev(a)
    BY <1>2, <2>1, AgreeKept DEF writeFromPoolToDev
  <2> QED  BY <1>2, <1>7, <2>1, AgreeHandle, AgreeReadIn DEF PagerStep
<1>8. ASSUME NEW a \in Asid, NEW v \in Page, Write(a, v) \/ EnterPager(a, v) PROVE AgreeOK'
  <2>1. (\E b \in Asid : step'[b] \in {"out", "in"}) => \E b \in Asid : step[b] \in {"out", "in"}
    BY <1>8 DEF Write, EnterPager, UserInv, MemTypes
  <2> QED  BY <1>2, <1>8, <2>1, AgreeKept DEF Write, EnterPager
<1>9. ASSUME NEW a \in Asid, NEW v \in Page, uTLB_RefillHandler(a, v) PROVE AgreeOK'
  BY <1>2, <1>9, AgreeRefill
<1>10. CASE UNCHANGED vars
  BY <1>2, <1>10, AgreeKept DEF vars, memVars
<1> QED
  BY <1>3, <1>4, <1>5, <1>6, <1>7, <1>8, <1>9, <1>10 DEF Next, Stay, Instantiator

(* TLB, page tables and swap table agree about every live process          *)
(* (vmSupport.c:163, 196; sysSupport.c:34), for any number of processes,   *)
(* pages, frames and TLB entries, as long as no process ends between the   *)
(* two reads of the top of the stack of structures.                        *)
THEOREM TranslationsKept == Spec => []TranslationsAgree
<1>1. Init => LifeInv /\ WorkInv /\ AgreeInv
  BY LifeInitial, AgreeInitial DEF Init, WorkInv, AgreeInv
<1>2. UserInv => LifeInv
  BY DEF UserInv
<1>3. UserInv /\ WorkInv /\ SuppInv /\ AgreeInv /\ LifeInv' /\ SuppInv' /\ [Next]_vars => AgreeInv'
  BY AgreeStep
<1> QED
  BY <1>1, <1>2, <1>3, UserInitial, UserStep, WorkStep, LifeStep, SuppInitial, SuppStep, AgreeHolds,
     PTL DEF Spec

----------------------------------------------------------------------------
(* What the pages hold                                                     *)

(* The structure that alloc_supp has taken was nobody's.                   *)
Fresh ==
  at \in {"step", "store", "last", "clear", "init", "create"} =>
    \A a \in Asid : p_supportStruct[a] # supp

(* No write ever reaches a flash device (vmSupport.c:244).                 *)
Untouched ==
  /\ flash = [a \in Asid |-> [v \in Page |-> Content(a, v, 0)]]
  /\ ram = [f \in Frame |-> ram[f]]
  /\ \A a \in Asid : uproc[a] = "none" => \A v \in Page : written[a][v] = 0

(* A frame is entered under the page whose entry has its number, though    *)
(* the page may be another process's that has ended.                       *)
FrameOfPage(f, a, v) ==
  /\ uproc[a] # "none" /\ swapTable[f] = Own(a, v)
  /\ tableOf(a)[v].asid = a /\ tableOf(a)[v].pfn = FRAMEPOOLSTART + f

FramesNamed ==
  \A f \in Frame : swapTable[f] # Unused => \E a \in Asid, v \in Page : FrameOfPage(f, a, v)

Replacing == \E b \in Asid : step[b] \in {"out", "in"}

(* A page of a live process is invalid in a frame only while it is         *)
(* replaced, and a process handles the fault of an invalid page.           *)
InvalidLeaves ==
  \A f \in Frame, a \in Alive, v \in Page :
    swapTable[f] = Own(a, v) /\ ~tableOf(a)[v].valid => f = frameIndexToReplace /\ Replacing

MissingInvalid == \A a \in Asid : step[a] # "user" => ~tableOf(a)[missing[a]].valid

(* What the frame, or else the block, of a page holds.                     *)
InFrame(a, v, f) ==
  \/ ram[f] = Content(a, v, written[a][v])
  \/ <<a, v>> \in lost /\ ram[f].asid = a /\ ram[f].page = v

InBlock(a, v) ==
  \/ written[a][v] = 0
  \/ <<a, v>> \in lost
  \/ /\ \E b \in Asid : step[b] = "out"
     /\ swapTable[frameIndexToReplace] = Own(a, v)
     /\ ram[frameIndexToReplace] = Content(a, v, written[a][v])

Stored(a, v) ==
  IF tableOf(a)[v].valid THEN InFrame(a, v, frameOf(tableOf(a)[v])) ELSE InBlock(a, v)

PagesStored == \A a \in Alive, v \in Page : Stored(a, v)

MemOK ==
  Fresh /\ Untouched /\ FramesNamed /\ InvalidLeaves /\ MissingInvalid /\ PagesStored

MemInv == ~raced /\ ~reused => MemOK

LEMMA OwnNames ==
  ASSUME NEW a \in Asid, NEW v
  PROVE  /\ Own(a, v).sw_asid = a /\ Own(a, v).sw_pte = <<p_supportStruct[a], v>>
         /\ Own(a, v) # Unused
         /\ \A b, w : Own(a, v) = Own(b, w) => a = b /\ v = w
<1>1. Own(a, v).sw_asid = a /\ Own(a, v).sw_pte = <<p_supportStruct[a], v>>
  BY DEF Own
<1>2. Own(a, v) # Unused
  BY <1>1, Constants DEF Unused, Asid
<1>3. \A b, w : Own(a, v) = Own(b, w) => a = b /\ v = w
  BY DEF Own
<1> QED  BY <1>1, <1>2, <1>3

LEMMA MemHolds == UserInv /\ AgreeInv /\ MemInv => MemoryKept
<1> SUFFICES ASSUME UserInv, AgreeOK, MemOK, ~raced, NEW a \in Alive, NEW v \in Page
             PROVE  LET entry == tableOf(a)[v]
                        content == IF entry.valid THEN ram[frameOf(entry)] ELSE flash[a][v]
                        moving == \E b \in Asid : step[b] = "out"
                                    /\ swapTable[frameIndexToReplace].sw_pte = <<p_supportStruct[a], v>>
                    IN  \/ content = Content(a, v, written[a][v])
                        \/ moving /\ ram[frameIndexToReplace] = Content(a, v, written[a][v])
                        \/ <<a, v>> \in lost /\ content.asid = a /\ content.page = v
  BY DEF MemoryKept, MemInv, AgreeInv
<1>1. a \in Asid /\ Stored(a, v)
  BY DEF MemOK, PagesStored, Alive
<1>2. flash[a][v] = Content(a, v, 0) /\ Content(a, v, 0).asid = a /\ Content(a, v, 0).page = v
  BY <1>1 DEF MemOK, Untouched, Content
<1>3. CASE tableOf(a)[v].valid
  BY <1>1, <1>3 DEF Stored, InFrame
<1>4. CASE ~tableOf(a)[v].valid
  <2>1. CASE written[a][v] = 0
    BY <1>2, <1>4, <2>1
  <2>2. CASE <<a, v>> \in lost
    BY <1>2, <1>4, <2>2
  <2>3. CASE /\ \E b \in Asid : step[b] = "out"
             /\ swapTable[frameIndexToReplace] = Own(a, v)
             /\ ram[frameIndexToReplace] = Content(a, v, written[a][v])
    BY <1>1, <2>3, OwnNames
  <2> QED  BY <1>1, <1>4, <2>1, <2>2, <2>3 DEF Stored, InBlock
<1> QED  BY <1>3, <1>4

LEMMA MemInitial == Init => MemOK
<1> SUFFICES ASSUME Init PROVE MemOK
  OBVIOUS
<1>1. Fresh /\ Alive = {}
  BY DEF Init, LifeInit, Fresh, Alive
<1>2. Untouched
  BY DEF Init, Untouched
<1>3. FramesNamed /\ MissingInvalid
  BY DEF Init, FramesNamed, MissingInvalid
<1> QED  BY <1>1, <1>2, <1>3 DEF MemOK, InvalidLeaves, PagesStored

----------------------------------------------------------------------------
(* The life cycle                                                          *)

LEMMA FreshStep ==
  ASSUME MemOK, ~reused',
         \/ alloc_supp \/ create_Process \/ waitForUprocs \/ EndInstantiator
         \/ InitSupport \/ UNCHANGED lifeVars
         \/ \E a \in Asid : terminate_support(a) \/ getMissingPage_NotFound(a)
  PROVE  Fresh'
<1>1. CASE alloc_supp
  BY <1>1 DEF alloc_supp, TestEmpty, TakeTop, ReadBelow, StoreTop, ClearLinks, MemOK, Fresh
<1>2. CASE create_Process \/ waitForUprocs \/ EndInstantiator
  BY <1>2 DEF create_Process, waitForUprocs, EndInstantiator, afterP, Fresh
<1>3. CASE InitSupport \/ UNCHANGED lifeVars
  BY <1>3 DEF InitSupport, init_uproc_support, lifeVars, MemOK, Fresh
<1>4. CASE \E a \in Asid : terminate_support(a) \/ getMissingPage_NotFound(a)
  BY <1>4 DEF terminate_support, notifyTerminated, getMissingPage_NotFound, afterP, MemOK, Fresh
<1> QED  BY <1>1, <1>2, <1>3, <1>4

(* Nothing happens to the pages.                                           *)
LEMMA MemStays ==
  ASSUME MemOK, Fresh', Alive' \subseteq Alive,
         \A a \in Asid : uproc'[a] = "none" <=> uproc[a] = "none",
         UNCHANGED <<pgTbl, swapTable, frameIndexToReplace, step, missing, ram, flash, written,
                     lost, p_supportStruct>>
  PROVE  MemOK'
<1>1. /\ \A a : tableOf(a)' = tableOf(a)
      /\ \A a, v : Own(a, v)' = Own(a, v)
  BY DEF tableOf, Own
<1>2. Untouched'
  BY DEF MemOK, Untouched
<1>3. FramesNamed'
  BY <1>1 DEF MemOK, FramesNamed, FrameOfPage
<1>4. InvalidLeaves' /\ MissingInvalid'
  BY <1>1 DEF MemOK, InvalidLeaves, MissingInvalid, Replacing
<1>5. PagesStored'
  BY <1>1 DEF MemOK, PagesStored, Stored, InFrame, InBlock, frameOf
<1> QED  BY <1>2, <1>3, <1>4, <1>5 DEF MemOK

LEMMA MemCreate ==
  ASSUME UserInv, WorkInv, AgreeOK, MemOK, create_Process, UNCHANGED memVars, ~reused'
  PROVE  MemOK'
<1>0. started \in Nat /\ started + 1 \in Asid /\ uproc[started + 1] = "none"
  BY Constants
  DEF create_Process, UserInv, LifeInv, LifeTypes, LifeControl, Creating, Asid
<1>a. PICK new \in Asid : new = started + 1
  BY <1>0
<1>1. /\ at = "create" /\ uproc' = [uproc EXCEPT ![new] = "alive"] /\ uproc[new] = "none"
      /\ p_supportStruct' = [p_supportStruct EXCEPT ![new] = supp]
      /\ UNCHANGED <<pgTbl, swapTable, frameIndexToReplace, step, missing, ram, flash, written,
                     lost>>
  BY <1>0, <1>a DEF create_Process, memVars
<1>2. /\ \A a \in Asid : a # new => uproc'[a] = uproc[a] /\ p_supportStruct'[a] = p_supportStruct[a]
      /\ p_supportStruct'[new] = supp /\ uproc'[new] = "alive"
  BY <1>1 DEF UserInv, LifeInv, LifeTypes
<1>3. \A a \in Asid : a # new => /\ tableOf(a)' = tableOf(a)
                                 /\ \A v : Own(a, v)' = Own(a, v)
  BY <1>1, <1>2 DEF tableOf, Own
<1>4. \A v \in Page : ~tableOf(new)'[v].valid
  BY <1>1, <1>2 DEF tableOf, AgreeOK, EntriesNamed
<1>5. Alive' = Alive \cup {new} /\ new \notin Alive /\ Alive \subseteq Asid
  BY <1>1, <1>2 DEF Alive
<1>6. Fresh'
  BY FreshStep
<1>7. Untouched'
  BY <1>1, <1>2 DEF MemOK, Untouched
<1>8. FramesNamed'
  <2> SUFFICES ASSUME NEW f \in Frame, swapTable[f] # Unused
               PROVE  \E a \in Asid, v \in Page : FrameOfPage(f, a, v)'
    BY <1>1 DEF FramesNamed
  <2>1. PICK a \in Asid, v \in Page : FrameOfPage(f, a, v)
    BY DEF MemOK, FramesNamed
  <2>2. a # new
    BY <1>1, <2>1 DEF FrameOfPage
  <2> QED  BY <1>1, <1>2, <1>3, <2>1, <2>2 DEF FrameOfPage
<1>9. ASSUME NEW f \in Frame, NEW v \in Page, swapTable[f] = Own(new, v)' PROVE FALSE
  <2>1. swapTable[f].sw_asid = new
    BY <1>9 DEF Own
  <2>2. swapTable[f] # Unused
    BY <2>1, Constants DEF Unused, Asid
  <2>3. PICK a \in Asid, w \in Page : FrameOfPage(f, a, w)
    BY <2>2 DEF MemOK, FramesNamed
  <2>4. a = new
    BY <2>1, <2>3, OwnNames DEF FrameOfPage
  <2> QED  BY <1>1, <2>3, <2>4 DEF FrameOfPage
<1>10. InvalidLeaves'
  <2>1. Replacing' = Replacing
    BY <1>1 DEF Replacing
  <2> QED  BY <1>1, <1>3, <1>5, <1>9, <2>1 DEF MemOK, InvalidLeaves
<1>11. MissingInvalid'
  BY <1>1, <1>3 DEF MemOK, MissingInvalid, WorkInv
<1>12. PagesStored'
  <2>1. \A v \in Page : Stored(new, v)'
    BY <1>1, <1>4 DEF Stored, InBlock, MemOK, Untouched
  <2>2. \A a \in Alive, v \in Page : Stored(a, v)'
    BY <1>1, <1>3, <1>5 DEF MemOK, PagesStored, Stored, InFrame, InBlock, frameOf
  <2> QED  BY <1>5, <2>1, <2>2 DEF PagesStored
<1> QED  BY <1>6, <1>7, <1>8, <1>10, <1>11, <1>12 DEF MemOK

LEMMA MemInitSupport ==
  ASSUME UserInv, WorkInv, MemOK, InitSupport, ~reused'
  PROVE  MemOK'
<1>1. /\ at = "init" /\ UNCHANGED <<uproc, p_supportStruct>>
      /\ UNCHANGED <<swapTable, frameIndexToReplace, step, missing, ram, flash, written, lost>>
      /\ \A s \in Supp : s # supp => pgTbl'[s] = pgTbl[s]
  BY DEF InitSupport, init_uproc_support, UserInv, MemTypes
<1>2. \A a \in Asid : uproc[a] # "none" => p_supportStruct[a] \in Supp /\ p_supportStruct[a] # supp
  <2>1. \A a \in Asid : p_supportStruct[a] # supp
    BY <1>1 DEF MemOK, Fresh
  <2> QED  BY <2>1 DEF UserInv, LifeInv, LifeTypes, LifeControl
<1>3. /\ \A a \in Asid : uproc[a] # "none" => tableOf(a)' = tableOf(a)
      /\ \A a, v : Own(a, v)' = Own(a, v)
  BY <1>1, <1>2 DEF tableOf, Own
<1>4. Fresh'
  BY FreshStep
<1>5. Untouched'
  BY <1>1 DEF MemOK, Untouched
<1>6. FramesNamed'
  BY <1>1, <1>3 DEF MemOK, FramesNamed, FrameOfPage
<1>7. Alive' = Alive /\ \A a \in Alive : a \in Asid /\ uproc[a] # "none"
  BY <1>1 DEF Alive
<1>8. InvalidLeaves' /\ MissingInvalid'
  BY <1>1, <1>3, <1>7 DEF MemOK, InvalidLeaves, MissingInvalid, Replacing, WorkInv
<1>9. PagesStored'
  <2>1. \A a \in Alive : tableOf(a)' = tableOf(a)
    BY <1>3, <1>7
  <2>2. \A a \in Alive, v \in Page : Stored(a, v)'
    BY <1>1, <1>3, <2>1 DEF MemOK, PagesStored, Stored, InFrame, InBlock, frameOf
  <2> QED  BY <1>7, <2>2 DEF PagesStored
<1> QED  BY <1>4, <1>5, <1>6, <1>8, <1>9 DEF MemOK

----------------------------------------------------------------------------
(* The pager                                                               *)

(* A page that is in a frame is in one frame.                              *)
LEMMA FrameFacts ==
  ASSUME UserInv, AgreeOK, MemOK
  PROVE  /\ \A f \in Frame, a \in Alive, v \in Page :
              swapTable[f] = Own(a, v) => tableOf(a)[v].pfn = FRAMEPOOLSTART + f
         /\ \A f \in Frame, a \in Asid, b \in Alive, v \in Page :
              FrameOfPage(f, a, v) /\ p_supportStruct[a] = p_supportStruct[b] => a = b
<1>1. ASSUME NEW f \in Frame, NEW a \in Alive, NEW v \in Page, swapTable[f] = Own(a, v)
      PROVE  tableOf(a)[v].pfn = FRAMEPOOLSTART + f
  <2>1. a \in Asid
    BY DEF Alive
  <2>2. swapTable[f] # Unused
    BY <1>1, <2>1, OwnNames
  <2>3. PICK b \in Asid, w \in Page : FrameOfPage(f, b, w)
    BY <2>2 DEF MemOK, FramesNamed
  <2>4. a = b /\ v = w
    <3>1. Own(a, v) = Own(b, w)
      BY <1>1, <2>3 DEF FrameOfPage
    <3> QED  BY <2>1, <3>1, OwnNames
  <2> QED  BY <2>3, <2>4 DEF FrameOfPage
<1>2. \A f \in Frame, a \in Asid, b \in Alive, v \in Page :
        FrameOfPage(f, a, v) /\ p_supportStruct[a] = p_supportStruct[b] => a = b
  BY DEF FrameOfPage, tableOf, AgreeOK, EntriesNamed
<1> QED  BY <1>1, <1>2

LEMMA MemHandle ==
  ASSUME UserInv, WorkInv, AgreeOK, MemOK, NEW a \in Asid, handleTLBInvalid(a)
  PROVE  MemOK'
<1>a. PICK f \in Frame : frameIndexToReplace' = f
  BY FrameChosen DEF handleTLBInvalid
<1>1. /\ step[a] = "pager" /\ UNCHANGED lifeVars
      /\ UNCHANGED <<swapTable, missing, ram, flash, written, lost>>
  BY DEF handleTLBInvalid
<1>2. /\ UNCHANGED <<p_supportStruct, uproc>> /\ Alive' = Alive
      /\ \A b, v : Own(b, v)' = Own(b, v)
      /\ \A b \in Alive : b \in Asid /\ uproc[b] # "none"
  BY <1>1 DEF lifeVars, Alive, Own
<1>3. ~Replacing
  BY <1>1, AloneInPager DEF Replacing
<1>4. /\ step' \in [Asid -> {"user", "queue", "pager", "out", "in"}]
      /\ \A b \in Asid : step'[b] # "user" => step[b] # "user"
  BY <1>1 DEF handleTLBInvalid, UserInv, MemTypes
<1>5. \A b \in Alive, v \in Page : ~tableOf(b)[v].valid => written[b][v] = 0 \/ <<b, v>> \in lost
  BY <1>3 DEF MemOK, PagesStored, Stored, InBlock, Replacing
<1>6. Fresh' /\ Untouched'
  BY <1>1, <1>2 DEF MemOK, Fresh, Untouched, lifeVars
<1>7. CASE frameIsOccupied(f)
  <2>1. /\ swapTable[f] # Unused /\ markInvalid(swapTable[f].sw_pte)
        /\ step' = [step EXCEPT ![a] = "out"]
    <3>1. swapTable[f] # Unused
      BY <1>7, Constants DEF frameIsOccupied, Unused, Asid
    <3> QED  BY <1>7, <1>a, <3>1 DEF handleTLBInvalid
  <2>2. PICK b \in Asid, v \in Page : FrameOfPage(f, b, v)
    BY <2>1 DEF MemOK, FramesNamed
  <2>3. PICK s \in Supp : s = p_supportStruct[b]
    BY <2>2 DEF FrameOfPage, UserInv, LifeInv, LifeTypes, LifeControl
  <2>4. swapTable[f].sw_pte = <<s, v>>
    BY <2>2, <2>3, OwnNames DEF FrameOfPage
  <2>5. pgTbl \in [Supp -> [Page -> Entry]]
    BY DEF UserInv, MemTypes
  <2>6. pgTbl' = [pgTbl EXCEPT ![s][v] = [pgTbl[s][v] EXCEPT !.valid = FALSE]]
    BY <2>1, <2>4 DEF markInvalid
  <2>7. \A r \in Supp, w \in Page :
          /\ r = s /\ w = v => ~pgTbl'[r][w].valid
          /\ ~(r = s /\ w = v) => pgTbl'[r][w] = pgTbl[r][w]
          /\ pgTbl'[r][w].asid = pgTbl[r][w].asid /\ pgTbl'[r][w].pfn = pgTbl[r][w].pfn
    BY <2>5, <2>6 DEF Entry
  <2>8. \A c \in Asid, w \in Page : uproc[c] # "none" =>
          /\ p_supportStruct[c] = s /\ w = v => ~tableOf(c)'[w].valid
          /\ ~(p_supportStruct[c] = s /\ w = v) => tableOf(c)'[w] = tableOf(c)[w]
          /\ tableOf(c)'[w].asid = tableOf(c)[w].asid /\ tableOf(c)'[w].pfn = tableOf(c)[w].pfn
    BY <1>2, <2>7, TableType DEF tableOf
  <2>9. \A c \in Alive, w \in Page : p_supportStruct[c] = s /\ w = v => c = b
    BY <2>2, <2>3, FrameFacts
  <2>10. FramesNamed'
    BY <1>1, <1>2, <2>8 DEF MemOK, FramesNamed, FrameOfPage
  <2>11. InvalidLeaves'
    <3>1. Replacing'
      BY <2>1 DEF Replacing, UserInv, MemTypes
    <3> SUFFICES ASSUME NEW g \in Frame, NEW c \in Alive, NEW w \in Page,
                        swapTable[g] = Own(c, w), ~tableOf(c)'[w].valid
                 PROVE  g = f
      BY <1>1, <1>2, <1>a, <3>1 DEF InvalidLeaves
    <3>2. ~tableOf(c)[w].valid => Replacing
      BY DEF MemOK, InvalidLeaves
    <3>3. p_supportStruct[c] = s /\ w = v
      BY <1>2, <1>3, <2>8, <3>2
    <3>4. tableOf(c)[w].pfn = FRAMEPOOLSTART + g /\ tableOf(c)[w].pfn = FRAMEPOOLSTART + f
      BY <2>2, <2>9, <3>3, FrameFacts DEF FrameOfPage
    <3> QED  BY <3>4, Constants DEF Frame
  <2>12. MissingInvalid'
    <3>1. \A c \in Asid : step[c] # "user" => uproc[c] # "none" /\ missing[c] \in Page
      BY DEF WorkInv, UserInv, MemTypes
    <3>2. \A c \in Asid, w \in Page :
            uproc[c] # "none" /\ ~tableOf(c)[w].valid => ~tableOf(c)'[w].valid
      BY <2>8
    <3> QED  BY <1>1, <1>4, <3>1, <3>2 DEF MemOK, MissingInvalid
  <2>13. PagesStored'
    <3> SUFFICES ASSUME NEW c \in Alive, NEW w \in Page PROVE Stored(c, w)'
      BY <1>2 DEF PagesStored
    <3>1. Stored(c, w)
      BY DEF MemOK, PagesStored
    <3>2. CASE tableOf(c)'[w].valid
      <4>1. tableOf(c)'[w] = tableOf(c)[w]
        BY <1>2, <2>8, <3>2
      <4> QED  BY <1>1, <3>1, <3>2, <4>1 DEF Stored, InFrame, frameOf
    <3>3. CASE ~tableOf(c)[w].valid
      BY <1>1, <1>2, <1>5, <2>8, <3>3 DEF Stored, InBlock
    <3>4. CASE tableOf(c)[w].valid /\ ~tableOf(c)'[w].valid
      <4>1. p_supportStruct[c] = s /\ w = v /\ c = b
        BY <1>2, <2>8, <2>9, <3>4
      <4>2. frameOf(tableOf(c)[w]) = f /\ swapTable[f] = Own(c, w)
        BY <2>2, <4>1, Constants DEF FrameOfPage, frameOf, Frame
      <4>3. InFrame(c, w, f)
        BY <3>1, <3>4, <4>2 DEF Stored
      <4>4. \E d \in Asid : step'[d] = "out"
        BY <2>1 DEF UserInv, MemTypes
      <4> QED  BY <1>1, <1>2, <1>a, <3>4, <4>2, <4>3, <4>4 DEF Stored, InBlock, InFrame
    <3> QED  BY <3>2, <3>3, <3>4
  <2> QED  BY <1>6, <2>10, <2>11, <2>12, <2>13 DEF MemOK
<1>8. CASE ~frameIsOccupied(f)
  <2>1. UNCHANGED pgTbl
    BY <1>8, <1>a DEF handleTLBInvalid
  <2>2. \A b : tableOf(b)' = tableOf(b)
    BY <1>2, <2>1 DEF tableOf
  <2>3. FramesNamed'
    BY <1>1, <1>2, <2>2 DEF MemOK, FramesNamed, FrameOfPage
  <2>4. InvalidLeaves'
    BY <1>1, <1>2, <1>3, <2>2 DEF MemOK, InvalidLeaves
  <2>5. MissingInvalid'
    BY <1>1, <1>4, <2>2 DEF MemOK, MissingInvalid
  <2>6. PagesStored'
    BY <1>1, <1>2, <1>5, <2>2 DEF MemOK, PagesStored, Stored, InFrame, InBlock, frameOf
  <2> QED  BY <1>6, <2>3, <2>4, <2>5, <2>6 DEF MemOK
<1> QED  BY <1>7, <1>8

(* The device finds nothing at the address it is given: the block stays.   *)
LEMMA MemWriteOut ==
  ASSUME UserInv, WorkInv, AgreeOK, MemOK, NEW a \in Asid, writeFromPoolToDev(a)
  PROVE  MemOK'
<1>a. PICK f \in Frame : frameIndexToReplace = f
  BY DEF UserInv, MemTypes
<1>1. /\ step[a] = "out" /\ step' = [step EXCEPT ![a] = "in"] /\ UNCHANGED lifeVars
      /\ UNCHANGED <<pgTbl, swapTable, frameIndexToReplace, missing, ram, written>>
  BY DEF writeFromPoolToDev
<1>2. /\ UNCHANGED <<p_supportStruct, uproc>> /\ Alive' = Alive
      /\ \A b, v : Own(b, v)' = Own(b, v)
      /\ \A b : tableOf(b)' = tableOf(b)
  BY <1>1 DEF lifeVars, Alive, Own, tableOf
<1>3. PICK b \in Asid, v \in Page : FrameOfPage(f, b, v)
  <2>1. frameIsOccupied(f)
    BY <1>1, <1>a DEF UserInv, PagerControl
  <2>2. swapTable[f] # Unused
    BY <2>1, Constants DEF frameIsOccupied, Unused, Asid
  <2> QED  BY <2>2 DEF MemOK, FramesNamed
<1>4. /\ swapTable[f].sw_asid = b /\ swapTable[f].sw_pte[2] = v
      /\ entryAt(swapTable[f].sw_pte).pfn = FRAMEPOOLSTART + f
  BY <1>3, OwnNames DEF FrameOfPage, entryAt, tableOf
<1>5. flash[b][v] = Content(b, v, 0) /\ flash = [flash EXCEPT ![b][v] = flash[b][v]]
  BY DEF MemOK, Untouched
<1>6. Transferred(FRAMEPOOLSTART + (FRAMEPOOLSTART + f), flash[b][v]) = flash[b][v]
  <2>1. (FRAMEPOOLSTART + (FRAMEPOOLSTART + f)) - FRAMEPOOLSTART \notin Frame
    BY PagerAssumption DEF Frame
  <2> QED  BY <2>1 DEF Transferred
<1>7. /\ flash' = flash
      /\ lost' = IF Content(b, v, 0) = Content(b, v, written[b][v]) THEN lost ELSE lost \cup {<<b, v>>}
  BY <1>4, <1>5, <1>6, <1>a DEF writeFromPoolToDev
<1>8. lost \subseteq lost' /\ (written[b][v] = 0 \/ <<b, v>> \in lost')
  BY <1>7 DEF Content
<1>9. Fresh' /\ Untouched' /\ FramesNamed'
  BY <1>1, <1>2, <1>7 DEF MemOK, Fresh, Untouched, FramesNamed, FrameOfPage, lifeVars
<1>10. InvalidLeaves' /\ MissingInvalid'
  <2>1. Replacing' /\ \A c \in Asid : step'[c] # "user" => step[c] # "user"
    BY <1>1 DEF Replacing, UserInv, MemTypes
  <2> QED  BY <1>1, <1>2, <2>1 DEF MemOK, InvalidLeaves, MissingInvalid
<1>11. PagesStored'
  <2> SUFFICES ASSUME NEW c \in Alive, NEW w \in Page PROVE Stored(c, w)'
    BY <1>2 DEF PagesStored
  <2>1. Stored(c, w) /\ c \in Asid
    BY DEF MemOK, PagesStored, Alive
  <2>2. CASE tableOf(c)[w].valid
    BY <1>1, <1>2, <1>8, <2>1, <2>2 DEF Stored, InFrame, frameOf
  <2>3. CASE ~tableOf(c)[w].valid
    <3>1. swapTable[f] = Own(c, w) => c = b /\ w = v
      <4>1. swapTable[f] = Own(c, w) => Own(b, v) = Own(c, w)
        BY <1>3 DEF FrameOfPage
      <4> QED  BY <4>1, OwnNames
    <3> QED  BY <1>1, <1>2, <1>8, <1>a, <2>1, <2>3, <3>1 DEF Stored, InBlock
  <2> QED  BY <2>2, <2>3
<1> QED  BY <1>9, <1>10, <1>11 DEF MemOK

(* The page is read in: from a block that nobody has written to.           *)
LEMMA MemReadIn ==
  ASSUME UserInv, WorkInv, SuppOK, AgreeOK, MemOK, NEW a \in Asid, writeFromDevToPool(a)
  PROVE  MemOK'
<1>1. /\ step[a] = "in" /\ leavePager(a)
      /\ missing' = [missing EXCEPT ![a] = 0]
      /\ UNCHANGED lifeVars /\ UNCHANGED <<frameIndexToReplace, flash, written, lost>>
  BY DEF writeFromDevToPool
<1>2. /\ a \in Alive /\ UNCHANGED <<p_supportStruct, uproc>> /\ Alive' = Alive
      /\ \A b, w : Own(b, w)' = Own(b, w)
      /\ \A b \in Alive : b \in Asid /\ uproc[b] # "none"
  BY <1>1 DEF WorkInv, Alive, lifeVars, Own
<1>3. PICK s \in Supp, v \in Page : s = p_supportStruct[a] /\ v = missing[a]
  BY <1>2, OwnFacts DEF UserInv, MemTypes
<1>4. PICK f \in Frame : frameIndexToReplace = f
  BY DEF UserInv, MemTypes
<1>5. pgTbl[s][v] \in Entry /\ pgTbl[s][v].asid = a
  BY <1>2, <1>3 DEF UserInv, MemTypes, AgreeOK, EntriesNamed, tableOf
<1>6. /\ swapTable' = [swapTable EXCEPT ![f] = Own(a, v)]
      /\ pgTbl' = [pgTbl EXCEPT ![s][v] =
                     [pgTbl[s][v] EXCEPT !.pfn = FRAMEPOOLSTART + f, !.valid = TRUE]]
      /\ ram' = [ram EXCEPT ![f] = flash[a][v]]
  BY <1>3, <1>4, <1>5 DEF writeFromDevToPool, updateSwapTableEntry, entryAt, Own, Entry
<1>7. \A r \in Supp, w \in Page :
        /\ r = s /\ w = v => /\ pgTbl'[r][w].valid /\ pgTbl'[r][w].asid = a
                             /\ pgTbl'[r][w].pfn = FRAMEPOOLSTART + f
        /\ ~(r = s /\ w = v) => pgTbl'[r][w] = pgTbl[r][w]
  BY <1>5, <1>6 DEF UserInv, MemTypes, Entry
<1>8. \A c \in Asid, w \in Page : uproc[c] # "none" =>
        /\ p_supportStruct[c] = s /\ w = v => /\ tableOf(c)'[w].valid /\ tableOf(c)'[w].asid = a
                                              /\ tableOf(c)'[w].pfn = FRAMEPOOLSTART + f
        /\ ~(p_supportStruct[c] = s /\ w = v) => tableOf(c)'[w] = tableOf(c)[w]
  BY <1>2, <1>7, TableType DEF tableOf
<1>9. \A c \in Alive : p_supportStruct[c] = s => c = a
  BY <1>2, <1>3, OwnFacts
<1>10. /\ \A g \in Frame : /\ g = f => swapTable'[g] = Own(a, v)
                           /\ g # f => swapTable'[g] = swapTable[g]
       /\ ram'[f] = Content(a, v, 0) /\ \A g \in Frame : g # f => ram'[g] = ram[g]
       /\ ram' = [g \in Frame |-> ram'[g]]
  BY <1>6 DEF MemOK, Untouched, UserInv, MemTypes
<1>11. /\ \A b \in Asid : step[b] # "out" /\ (step[b] = "in" => b = a)
       /\ \A b \in Asid : step'[b] # "user" => b # a /\ step[b] # "user"
  <2>1. step'[a] = "user" /\ \A b \in Asid : step'[b] # "user" => step[b] # "user"
    <3>1. CASE swapQueue = <<>>
      BY <1>1, <3>1 DEF leavePager, UserInv, MemTypes
    <3>2. CASE swapQueue # <<>>
      <4>1. step' = [step EXCEPT ![a] = "user", ![Head(swapQueue)] = "pager"]
        BY <1>1, <3>2 DEF leavePager
      <4>2. swapQueue \in Seq(Asid) /\ Queued
        BY DEF UserInv, MemTypes, PagerControl
      <4>3. 1 \in 1 .. Len(swapQueue) /\ Head(swapQueue) = swapQueue[1] /\ Head(swapQueue) \in Asid
        BY <3>2, <4>2
      <4>4. step[Head(swapQueue)] = "queue" /\ Head(swapQueue) # a
        BY <1>1, <4>2, <4>3 DEF Queued
      <4> QED  BY <4>1, <4>3, <4>4 DEF UserInv, MemTypes
    <3> QED  BY <3>1, <3>2
  <2>2. \A b \in Asid : step[b] \in {"pager", "out", "in"} => b = a
    BY <1>1, AloneInPager
  <2> QED  BY <1>1, <2>1, <2>2
<1>12. ~tableOf(a)[v].valid
  BY <1>1, <1>3 DEF MemOK, MissingInvalid
<1>13. Fresh' /\ Untouched'
  BY <1>1, <1>2, <1>10 DEF MemOK, Fresh, Untouched, lifeVars
<1>14. FramesNamed'
  <2> SUFFICES ASSUME NEW g \in Frame, swapTable'[g] # Unused
               PROVE  \E b \in Asid, w \in Page : FrameOfPage(g, b, w)'
    BY DEF FramesNamed
  <2>1. CASE g = f
    <3>1. FrameOfPage(g, a, v)'
      BY <1>2, <1>3, <1>8, <1>10, <2>1 DEF FrameOfPage
    <3> QED  BY <3>1
  <2>2. CASE g # f
    <3>1. PICK b \in Asid, w \in Page : FrameOfPage(g, b, w)
      BY <1>10, <2>2 DEF MemOK, FramesNamed
    <3>2. ~(p_supportStruct[b] = s /\ w = v)
      <4>1. SUFFICES ASSUME p_supportStruct[b] = s, w = v PROVE FALSE
        OBVIOUS
      <4>2. b = a
        BY <1>2, <1>3, <3>1, <4>1, FrameFacts
      <4>3. swapTable[g] = Own(a, v)
        BY <3>1, <4>1, <4>2 DEF FrameOfPage
      <4> QED  BY <1>2, <1>4, <1>12, <2>2, <4>3 DEF MemOK, InvalidLeaves
    <3>3. FrameOfPage(g, b, w)'
      BY <1>2, <1>8, <1>10, <2>2, <3>1, <3>2 DEF FrameOfPage
    <3> QED  BY <3>3
  <2> QED  BY <2>1, <2>2
<1>15. InvalidLeaves'
  <2> SUFFICES ASSUME NEW g \in Frame, NEW c \in Alive, NEW w \in Page,
                      swapTable'[g] = Own(c, w), ~tableOf(c)'[w].valid
               PROVE  FALSE
    BY <1>2 DEF InvalidLeaves
  <2>1. tableOf(c)'[w] = tableOf(c)[w] /\ ~(c = a /\ w = v)
    BY <1>2, <1>3, <1>8
  <2>2. g # f
    <3>1. Own(a, v) = Own(c, w) => a = c /\ v = w
      BY OwnNames
    <3> QED  BY <1>10, <2>1, <3>1
  <2> QED  BY <1>4, <1>10, <2>1, <2>2 DEF MemOK, InvalidLeaves
<1>16. MissingInvalid'
  <2> SUFFICES ASSUME NEW c \in Asid, step'[c] # "user" PROVE ~tableOf(c)'[missing'[c]].valid
    BY DEF MissingInvalid
  <2>1. c # a /\ step[c] # "user" /\ c \in Alive /\ missing[c] \in Page
    BY <1>11 DEF WorkInv, Alive, UserInv, MemTypes
  <2>2. missing'[c] = missing[c] /\ p_supportStruct[c] # s
    BY <1>1, <1>9, <2>1 DEF UserInv, MemTypes
  <2> QED  BY <1>2, <1>8, <2>1, <2>2 DEF MemOK, MissingInvalid
<1>17. PagesStored'
  <2> SUFFICES ASSUME NEW c \in Alive, NEW w \in Page PROVE Stored(c, w)'
    BY <1>2 DEF PagesStored
  <2>1. Stored(c, w)
    BY DEF MemOK, PagesStored
  <2>2. CASE c = a /\ w = v
    <3>1. tableOf(c)'[w].valid /\ frameOf(tableOf(c)'[w]) = f
      BY <1>2, <1>3, <1>8, <2>2, Constants DEF frameOf, Frame
    <3>2. written[a][v] = 0 \/ <<a, v>> \in lost
      BY <1>11, <1>12, <2>1, <2>2 DEF Stored, InBlock
    <3>3. ram'[f].asid = a /\ ram'[f].page = v
      BY <1>10 DEF Content
    <3> QED  BY <1>1, <1>10, <2>2, <3>1, <3>2, <3>3 DEF Stored, InFrame, frameOf
  <2>3. CASE ~(c = a /\ w = v)
    <3>1. tableOf(c)'[w] = tableOf(c)[w]
      BY <1>2, <1>8, <1>9, <2>3
    <3>2. CASE tableOf(c)[w].valid
      <4>1. frameOf(tableOf(c)[w]) \in Frame /\ frameOf(tableOf(c)[w]) # f
        BY <1>1, <1>4, <3>2 DEF AgreeOK, VictimInvalid, FramesAgree
      <4> QED  BY <1>1, <1>10, <2>1, <3>1, <3>2, <4>1 DEF Stored, InFrame, frameOf
    <3>3. CASE ~tableOf(c)[w].valid
      BY <1>1, <1>11, <2>1, <3>1, <3>3 DEF Stored, InBlock
    <3> QED  BY <3>2, <3>3
  <2> QED  BY <2>2, <2>3
<1> QED  BY <1>13, <1>14, <1>15, <1>16, <1>17 DEF MemOK

----------------------------------------------------------------------------
(* The programs                                                            *)

(* A valid entry of the TLB leads to the page's own frame.                 *)
LEMMA MemWrite ==
  ASSUME UserInv, AgreeOK, MemOK, NEW a \in Asid, NEW v \in Page, Write(a, v)
  PROVE  MemOK'
<1>1. /\ a \in Alive /\ Translated(a, v) /\ UNCHANGED lifeVars
      /\ written' = [written EXCEPT ![a][v] = written[a][v] + 1]
      /\ UNCHANGED <<pgTbl, swapTable, frameIndexToReplace, step, missing, flash, lost>>
  BY DEF Write, InProgram, Alive
<1>2. /\ UNCHANGED <<p_supportStruct, uproc>> /\ Alive' = Alive
      /\ \A b, w : Own(b, w)' = Own(b, w)
      /\ \A b : tableOf(b)' = tableOf(b)
  BY <1>1 DEF lifeVars, Alive, Own, tableOf
<1>3. PICK i : i = TLBP(tlb, a, v)
  OBVIOUS
<1>4. i \in 0 .. TLBSIZE - 1 /\ tlb[i].asid = a /\ tlb[i].page = v /\ tlb[i].valid
  BY <1>1, <1>3, TLBPFacts DEF Translated, UserInv, MemTypes
<1>5. tlb[i] = tableOf(a)[v] /\ tableOf(a)[v].valid
  BY <1>1, <1>4 DEF AgreeOK, TLBAgrees
<1>6. PICK f \in Frame : f = frameOf(tableOf(a)[v]) /\ swapTable[f] = Own(a, v)
  BY <1>1, <1>5 DEF AgreeOK, FramesAgree
<1>7. ram' = [ram EXCEPT ![f] = IF ram[f] = Content(a, v, written[a][v])
                                THEN Content(a, v, written[a][v] + 1) ELSE Content(a, v, -1)]
  BY <1>3, <1>5, <1>6 DEF Write
<1>8. /\ ram' = [g \in Frame |-> ram'[g]] /\ \A g \in Frame : g # f => ram'[g] = ram[g]
      /\ ram'[f] = IF ram[f] = Content(a, v, written[a][v])
                   THEN Content(a, v, written[a][v] + 1) ELSE Content(a, v, -1)
  BY <1>7 DEF MemOK, Untouched
<1>9. /\ written'[a][v] = written[a][v] + 1
      /\ \A c \in Asid, w \in Page : ~(c = a /\ w = v) => written'[c][w] = written[c][w]
  BY <1>1 DEF UserInv, MemTypes
<1>10. Fresh' /\ Untouched'
  BY <1>1, <1>2, <1>8, <1>9 DEF MemOK, Fresh, Untouched, lifeVars, Alive
<1>11. FramesNamed'
  BY <1>1, <1>2 DEF MemOK, FramesNamed, FrameOfPage
<1>12. InvalidLeaves' /\ MissingInvalid'
  BY <1>1, <1>2 DEF MemOK, InvalidLeaves, MissingInvalid, Replacing
<1>13. PagesStored'
  <2> SUFFICES ASSUME NEW c \in Alive, NEW w \in Page PROVE Stored(c, w)'
    BY <1>2 DEF PagesStored
  <2>1. Stored(c, w) /\ c \in Asid
    BY DEF MemOK, PagesStored, Alive
  <2>2. CASE c = a /\ w = v
    <3>1. InFrame(a, v, f)
      BY <1>5, <1>6, <2>1, <2>2 DEF Stored
    <3>2. ram'[f].asid = a /\ ram'[f].page = v
      BY <1>8 DEF Content
    <3>3. InFrame(a, v, f)'
      BY <1>1, <1>8, <1>9, <3>1, <3>2 DEF InFrame
    <3> QED  BY <1>2, <1>5, <1>6, <2>2, <3>3 DEF Stored, frameOf
  <2>3. CASE ~(c = a /\ w = v)
    <3>1. CASE tableOf(c)[w].valid
      <4>1. /\ frameOf(tableOf(c)[w]) \in Frame
            /\ swapTable[frameOf(tableOf(c)[w])] = Own(c, w)
        BY <3>1 DEF AgreeOK, FramesAgree
      <4>2. Own(a, v) = Own(c, w) => a = c /\ v = w
        BY OwnNames
      <4>3. frameOf(tableOf(c)[w]) # f
        BY <1>6, <2>3, <4>1, <4>2
      <4> QED  BY <1>1, <1>2, <1>8, <1>9, <2>1, <2>3, <3>1, <4>1, <4>3 DEF Stored, InFrame, frameOf
    <3>2. CASE ~tableOf(c)[w].valid
      <4>1. (\E b \in Asid : step[b] = "out") => frameIndexToReplace # f
        BY <1>1, <1>5, <1>6 DEF AgreeOK, VictimInvalid
      <4>2. frameIndexToReplace \in Frame
        BY DEF UserInv, MemTypes
      <4> QED  BY <1>1, <1>2, <1>8, <1>9, <2>1, <2>3, <3>2, <4>1, <4>2 DEF Stored, InBlock
    <3> QED  BY <3>1, <3>2
  <2> QED  BY <2>2, <2>3
<1> QED  BY <1>10, <1>11, <1>12, <1>13 DEF MemOK

(* An invalid entry of the TLB is one of the page table.                   *)
LEMMA MemEnter ==
  ASSUME UserInv, AgreeOK, MemOK, NEW a \in Asid, NEW v \in Page, EnterPager(a, v)
  PROVE  MemOK'
<1>1. /\ a \in Alive /\ TLBP(tlb, a, v) # NULL /\ ~tlb[TLBP(tlb, a, v)].valid
      /\ UNCHANGED lifeVars /\ missing' = [missing EXCEPT ![a] = v]
      /\ UNCHANGED <<pgTbl, swapTable, frameIndexToReplace, ram, flash, written, lost>>
  BY DEF EnterPager, InProgram, Alive
<1>2. /\ UNCHANGED <<p_supportStruct, uproc>> /\ Alive' = Alive
      /\ \A b, w : Own(b, w)' = Own(b, w)
      /\ \A b : tableOf(b)' = tableOf(b)
  BY <1>1 DEF lifeVars, Alive, Own, tableOf
<1>3. PICK i : i = TLBP(tlb, a, v)
  OBVIOUS
<1>4. i \in 0 .. TLBSIZE - 1 /\ tlb[i].asid = a /\ tlb[i].page = v /\ ~tlb[i].valid
  BY <1>1, <1>3, TLBPFacts DEF UserInv, MemTypes
<1>5. ~tableOf(a)[v].valid
  BY <1>1, <1>4 DEF AgreeOK, TLBAgrees
<1>6. \A b \in Asid : /\ step'[b] = "out" <=> step[b] = "out"
                      /\ step'[b] = "in" <=> step[b] = "in"
                      /\ b # a => step'[b] = step[b] /\ missing'[b] = missing[b]
  BY <1>1 DEF EnterPager, InProgram, UserInv, MemTypes
<1>7. Fresh' /\ Untouched' /\ FramesNamed'
  BY <1>1, <1>2 DEF MemOK, Fresh, Untouched, lifeVars, FramesNamed, FrameOfPage
<1>8. InvalidLeaves'
  BY <1>1, <1>2, <1>6 DEF MemOK, InvalidLeaves, Replacing
<1>9. MissingInvalid'
  <2>1. missing'[a] = v
    BY <1>1 DEF UserInv, MemTypes
  <2> QED  BY <1>2, <1>5, <1>6, <2>1 DEF MemOK, MissingInvalid
<1>10. PagesStored'
  BY <1>1, <1>2, <1>6 DEF MemOK, PagesStored, Stored, InFrame, InBlock, frameOf
<1> QED  BY <1>7, <1>8, <1>9, <1>10 DEF MemOK

LEMMA MemStep ==
  ASSUME UserInv, WorkInv, SuppInv, AgreeInv, MemInv, [Next]_vars
  PROVE  MemInv'
<1> SUFFICES ASSUME ~raced', ~reused' PROVE MemOK'
  BY DEF MemInv
<1>0. \/ Instantiator
      \/ \E a \in Asid : terminate_support(a) \/ getMissingPage_NotFound(a)
      \/ UNCHANGED lifeVars
  BY DEF Next, Ends, Strays, PagerStep, handleTLBInvalid, writeFromPoolToDev, writeFromDevToPool,
     uTLB_RefillHandler, Write, EnterPager, Stay, vars
<1>1. ~raced /\ ~reused
  <2>1. CASE TakeTop
    BY <2>1 DEF TakeTop
  <2>2. CASE ~TakeTop
    <3>1. ~reused
      BY <1>0, <2>2 DEF Instantiator, InitSupport, alloc_supp, TestEmpty, ReadBelow, StoreTop,
         ClearLinks, init_uproc_support, create_Process, waitForUprocs, EndInstantiator,
         terminate_support, getMissingPage_NotFound, lifeVars
    <3>2. ~raced
      BY <1>0, <2>2 DEF Instantiator, InitSupport, alloc_supp, TestEmpty, ReadBelow, StoreTop,
         ClearLinks, init_uproc_support, create_Process, waitForUprocs, EndInstantiator,
         terminate_support, getMissingPage_NotFound, lifeVars
    <3> QED  BY <3>1, <3>2
  <2> QED  BY <2>1, <2>2
<1>2. SuppOK /\ AgreeOK /\ MemOK
  BY <1>1 DEF SuppInv, AgreeInv, MemInv
<1>3. CASE (alloc_supp \/ waitForUprocs \/ EndInstantiator) /\ UNCHANGED memVars
  <2>1. /\ UNCHANGED p_supportStruct /\ Alive' \subseteq Alive
        /\ \A a \in Asid : uproc'[a] = "none" <=> uproc[a] = "none"
    BY <1>3 DEF alloc_supp, TestEmpty, TakeTop, ReadBelow, StoreTop, ClearLinks, waitForUprocs,
       EndInstantiator, Alive
  <2>2. Fresh'
    BY <1>2, <1>3, FreshStep
  <2> QED  BY <1>2, <1>3, <2>1, <2>2, MemStays DEF memVars
<1>4. CASE InitSupport
  BY <1>2, <1>4, MemInitSupport
<1>5. CASE create_Process /\ UNCHANGED memVars
  BY <1>2, <1>5, MemCreate
<1>6. ASSUME NEW a \in Asid, Ends(a) \/ Strays(a) PROVE MemOK'
  <2>1. /\ UNCHANGED p_supportStruct /\ Alive' \subseteq Alive
        /\ \A b \in Asid : uproc'[b] = "none" <=> uproc[b] = "none"
    BY <1>6 DEF Ends, Strays, terminate_support, getMissingPage_NotFound, Alive, UserInv, LifeInv,
       LifeTypes
  <2>2. Fresh'
    BY <1>2, <1>6, FreshStep DEF Ends, Strays
  <2> QED  BY <1>2, <1>6, <2>1, <2>2, MemStays DEF Ends, Strays, memVars
<1>7. ASSUME NEW a \in Asid, PagerStep(a) PROVE MemOK'
  BY <1>2, <1>7, MemHandle, MemWriteOut, MemReadIn DEF PagerStep
<1>8. ASSUME NEW a \in Asid, NEW v \in Page, Write(a, v) \/ EnterPager(a, v) PROVE MemOK'
  BY <1>2, <1>8, MemWrite, MemEnter
<1>9. ASSUME \/ UNCHANGED vars
             \/ \E a \in Asid, v \in Page : uTLB_RefillHandler(a, v)
      PROVE  MemOK'
  <2>1. UNCHANGED lifeVars /\ UNCHANGED <<pgTbl, swapTable, frameIndexToReplace, step, missing,
                                          ram, flash, written, lost>>
    BY <1>9 DEF vars, memVars, uTLB_RefillHandler
  <2>2. Alive' = Alive /\ UNCHANGED <<uproc, p_supportStruct>> /\ Fresh'
    BY <1>2, <2>1, FreshStep DEF lifeVars, Alive
  <2> QED  BY <1>2, <2>1, <2>2, MemStays
<1> QED
  BY <1>3, <1>4, <1>5, <1>6, <1>7, <1>8, <1>9 DEF Next, Stay, Instantiator

(* Every page of a live process reads as the process last wrote it, but    *)
(* for the writes that a replacement dropped (vmSupport.c:244), for any    *)
(* number of processes, pages, frames and TLB entries: as long as no       *)
(* structure is used twice (vmSupport.c:180, initSupp.c:22).               *)
THEOREM MemoryIsKept == Spec => []MemoryKept
<1>1. Init => LifeInv /\ WorkInv /\ AgreeInv /\ MemInv
  BY LifeInitial, AgreeInitial, MemInitial DEF Init, WorkInv, AgreeInv, MemInv
<1>2. UserInv => LifeInv
  BY DEF UserInv
<1>3. UserInv /\ WorkInv /\ SuppInv /\ AgreeInv /\ LifeInv' /\ SuppInv' /\ [Next]_vars => AgreeInv'
  BY AgreeStep
<1>4. UserInv /\ WorkInv /\ SuppInv /\ AgreeInv /\ MemInv /\ [Next]_vars => MemInv'
  BY MemStep
<1> QED
  BY <1>1, <1>2, <1>3, <1>4, UserInitial, UserStep, WorkStep, LifeStep, SuppInitial, SuppStep,
     MemHolds, PTL DEF Spec
=============================================================================
