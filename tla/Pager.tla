------------------------------- MODULE Pager --------------------------------
(***************************************************************************)
(* The memory of the user processes, over their life cycle: page tables,   *)
(* TLB, swap pool and flash devices (vmSupport.c, and the refill handler   *)
(* of sysSupport.c).                                                       *)
(*                                                                         *)
(* The handlers run with all interrupt lines masked (p3test.c:87 has no    *)
(* IMON): each stretch between two points where a handler may block is one *)
(* action.  Between accesses a user process may be preempted at any time.  *)
(*                                                                         *)
(* What the refill handler resumes is in SupportCalls; here the access is  *)
(* repeated.                                                               *)
(***************************************************************************)
EXTENDS Lifecycle

CONSTANTS
  MAXPAGES,          \* pages per process
  POOLSIZE,          \* frames of the swap pool
  TLBSIZE,
  FRAMEPOOLSTART,    \* number of the first frame of the pool in the machine
  DataPage,          \* the pages programs write to; the others hold their text
  MaxWrites          \* bound: writes to a page

ASSUME PagerAssumption ==
  /\ {MAXPAGES, POOLSIZE, TLBSIZE} \subseteq Nat \ {0}
  /\ FRAMEPOOLSTART \in Nat /\ FRAMEPOOLSTART > POOLSIZE
  /\ DataPage \subseteq 0 .. MAXPAGES - 1
  /\ MaxWrites \in Nat

Page == 0 .. MAXPAGES - 1
Frame == 0 .. POOLSIZE - 1

VARIABLES
  pgTbl,             \* sup_privatePgTbl of every support structure
  swapTable,
  frameIndexToReplace,
  tlb, tlbIndex,
  swapSem, swapQueue,
  step,              \* where each process stands in handlePageFault
  missing,           \* the page it handles the fault of
  ram,               \* what each frame of the pool holds
  flash,             \* what each block of each flash device holds
  written,           \* history: how often each page was written
  lost               \* history: pages whose writes were dropped

memVars == <<pgTbl, swapTable, frameIndexToReplace, tlb, tlbIndex, swapSem, swapQueue,
             step, missing, ram, flash, written, lost>>
vars == <<lifeVars, memVars>>

(* A page's content: whose it is, and how many of its writes it has.       *)
Content(a, v, n) == [asid |-> a, page |-> v, writes |-> n]

(* Page table and TLB entries; entryLO keeps the frame number when the     *)
(* valid bit is cleared.                                                   *)
NoEntry == [asid |-> 0, page |-> 0, pfn |-> 0, valid |-> FALSE]

Unused == [sw_asid |-> -1, sw_pte |-> NULL]

(* initSwapStructs, and one page table per structure, not yet initialised. *)
Init ==
  /\ LifeInit
  /\ pgTbl = [s \in Supp |-> [v \in Page |-> NoEntry]]
  /\ swapTable = [f \in Frame |-> Unused]
  /\ frameIndexToReplace = 0
  /\ tlb = [i \in 0 .. TLBSIZE - 1 |-> NoEntry] /\ tlbIndex = 0
  /\ swapSem = 1 /\ swapQueue = <<>>
  /\ step = [a \in Asid |-> "user"] /\ missing = [a \in Asid |-> 0]
  /\ ram = [f \in Frame |-> NULL]
  /\ flash = [a \in Asid |-> [v \in Page |-> Content(a, v, 0)]]
  /\ written = [a \in Asid |-> [v \in Page |-> 0]]
  /\ lost = {}

----------------------------------------------------------------------------
(* The TLB                                                                 *)

(* Defect: the ASID is left out of the comparison.                         *)
TLBP_AnyAsid(t, a, v) ==
  IF \E i \in DOMAIN t : t[i].asid # 0 /\ t[i].page = v
  THEN CHOOSE i \in DOMAIN t : t[i].asid # 0 /\ t[i].page = v
  ELSE NULL

(* The index of the entry for a page, or NULL.                             *)
TLBP(t, a, v) ==
  IF \E i \in DOMAIN t : t[i].asid = a /\ t[i].page = v
  THEN CHOOSE i \in DOMAIN t : t[i].asid = a /\ t[i].page = v
  ELSE NULL

(* Defect: the TLB keeps the old entry.                                    *)
updateEntryInTLB_Not(t, entry) == t

(* The entry of a page, replaced where the TLB has one.                    *)
updateEntryInTLB(t, entry) ==
  LET i == TLBP(t, entry.asid, entry.page)
  IN  IF i = NULL THEN t ELSE [t EXCEPT ![i] = entry]

(* Defect: only the page table is told.                                    *)
markTLBEntryNotValid_Not(t, entry) == t

markTLBEntryNotValid(t, entry) ==
  LET i == TLBP(t, entry.asid, entry.page)
  IN  IF i = NULL THEN t ELSE [t EXCEPT ![i].valid = FALSE]

tableOf(a) == pgTbl[p_supportStruct[a]]

(* A process at an instruction of its program.                             *)
InProgram(a) == uproc[a] = "alive" /\ step[a] = "user" /\ at # "fault"

(* Defect: the index runs out of the TLB.                                  *)
updateTLBIndex_NoModulo == tlbIndex + 1

updateTLBIndex == (tlbIndex + 1) % TLBSIZE

(* No entry: the handler writes the page's at the next index.              *)
uTLB_RefillHandler(a, v) ==
  /\ InProgram(a)
  /\ TLBP(tlb, a, v) = NULL
  /\ tlb' = [tlb EXCEPT ![tlbIndex] = tableOf(a)[v]]
  /\ tlbIndex' = updateTLBIndex
  /\ UNCHANGED <<lifeVars, pgTbl, swapTable, frameIndexToReplace, swapSem, swapQueue,
                 step, missing, ram, flash, written, lost>>

Translated(a, v) == TLBP(tlb, a, v) # NULL /\ tlb[TLBP(tlb, a, v)].valid

frameOf(entry) == entry.pfn - FRAMEPOOLSTART

(* The program writes to a page: one more write on what the frame holds.   *)
Write(a, v) ==
  /\ InProgram(a) /\ v \in DataPage /\ Translated(a, v) /\ written[a][v] < MaxWrites
  /\ LET f == frameOf(tlb[TLBP(tlb, a, v)])
     IN  ram' = [ram EXCEPT ![f] =
                   IF @ = Content(a, v, written[a][v])
                   THEN Content(a, v, written[a][v] + 1) ELSE Content(a, v, -1)]
  /\ written' = [written EXCEPT ![a][v] = @ + 1]
  /\ UNCHANGED <<lifeVars, pgTbl, swapTable, frameIndexToReplace, tlb, tlbIndex, swapSem,
                 swapQueue, step, missing, flash, lost>>

----------------------------------------------------------------------------
(* handlePageFault                                                         *)

(* Defect: the P does not exclude anybody.                                 *)
EnterPager_NoP(a, v) ==
  /\ InProgram(a)
  /\ TLBP(tlb, a, v) # NULL /\ ~tlb[TLBP(tlb, a, v)].valid
  /\ missing' = [missing EXCEPT ![a] = v]
  /\ step' = [step EXCEPT ![a] = "pager"]
  /\ UNCHANGED <<lifeVars, pgTbl, swapTable, frameIndexToReplace, tlb, tlbIndex, swapSem,
                 swapQueue, ram, flash, written, lost>>

(* An entry that is not valid: passed up to handlePageFault, and P.        *)
EnterPager(a, v) ==
  /\ InProgram(a)
  /\ TLBP(tlb, a, v) # NULL /\ ~tlb[TLBP(tlb, a, v)].valid
  /\ missing' = [missing EXCEPT ![a] = v]
  /\ swapSem' = swapSem - 1
  /\ IF swapSem' < 0
     THEN step' = [step EXCEPT ![a] = "queue"] /\ swapQueue' = Append(swapQueue, a)
     ELSE step' = [step EXCEPT ![a] = "pager"] /\ UNCHANGED swapQueue
  /\ UNCHANGED <<lifeVars, pgTbl, swapTable, frameIndexToReplace, tlb, tlbIndex,
                 ram, flash, written, lost>>

(* The first free frame, or the one after the last that was replaced.      *)
updateFrameIndexToReplace ==
  LET free == {f \in Frame : swapTable[f].sw_asid = -1}
  IN  IF free # {}
      THEN CHOOSE f \in free : \A g \in free : f <= g
      ELSE (frameIndexToReplace + 1) % POOLSIZE

frameIsOccupied(f) == swapTable[f].sw_asid \in Asid

entryAt(pte) == pgTbl[pte[1]][pte[2]]

(* markPTEntryNotValid and markTLBEntryNotValid.                           *)
markInvalid(pte) ==
  /\ pgTbl' = [pgTbl EXCEPT ![pte[1]][pte[2]].valid = FALSE]
  /\ tlb' = markTLBEntryNotValid(tlb, entryAt(pte))

(* The start of handleTLBInvalid, up to the IOWAIT of its first transfer.  *)
handleTLBInvalid(a) ==
  /\ step[a] = "pager" /\ at # "fault"
  /\ frameIndexToReplace' = updateFrameIndexToReplace
  /\ IF frameIsOccupied(frameIndexToReplace')
     THEN /\ markInvalid(swapTable[frameIndexToReplace'].sw_pte)
          /\ step' = [step EXCEPT ![a] = "out"]
     ELSE /\ step' = [step EXCEPT ![a] = "in"]
          /\ UNCHANGED <<pgTbl, tlb>>
  /\ UNCHANGED <<lifeVars, swapTable, tlbIndex, swapSem, swapQueue, missing, ram, flash,
                 written, lost>>

(* What a device finds at a frame of the machine: the pool's content, or   *)
(* nothing it can read, since the addresses writeFromPoolToDev computes    *)
(* are above the RAM of phase3Config.  The block then stays as it is, and  *)
(* nobody looks at the device's status.                                    *)
Transferred(frame, block) ==
  IF frame - FRAMEPOOLSTART \in Frame THEN ram[frame - FRAMEPOOLSTART] ELSE block

(* The victim's frame to its block.  The address adds FRAMEPOOLSTART to a  *)
(* frame number that counts from the start of the memory already.          *)
writeFromPoolToDev(a) ==
  LET victim == swapTable[frameIndexToReplace]
      dev    == victim.sw_asid
      block  == victim.sw_pte[2]
      saved  == Transferred(FRAMEPOOLSTART + entryAt(victim.sw_pte).pfn, flash[dev][block])
  IN  /\ step[a] = "out" /\ at # "fault"
      /\ flash' = [flash EXCEPT ![dev][block] = saved]
      /\ lost' = IF saved = Content(dev, block, written[dev][block])
                 THEN lost ELSE lost \cup {<<dev, block>>}
      /\ step' = [step EXCEPT ![a] = "in"]
      /\ UNCHANGED <<lifeVars, pgTbl, swapTable, frameIndexToReplace, tlb, tlbIndex, swapSem,
                     swapQueue, missing, ram, written>>

(* Defect: the frame is entered under the page that was there before.      *)
updateSwapTableEntry_Stays(pte) == UNCHANGED swapTable

updateSwapTableEntry(pte) ==
  swapTable' = [swapTable EXCEPT ![frameIndexToReplace] =
                  [sw_asid |-> entryAt(pte).asid, sw_pte |-> pte]]

(* Defect: the next process is not woken.                                  *)
leavePager_NoWake(a) ==
  /\ swapSem' = swapSem + 1
  /\ step' = [step EXCEPT ![a] = "user"]
  /\ UNCHANGED swapQueue

(* V on swapSem, and back to the instruction that faulted.                 *)
leavePager(a) ==
  /\ swapSem' = swapSem + 1
  /\ IF swapQueue = <<>>
     THEN step' = [step EXCEPT ![a] = "user"] /\ UNCHANGED swapQueue
     ELSE /\ step' = [step EXCEPT ![a] = "user", ![Head(swapQueue)] = "pager"]
          /\ swapQueue' = Tail(swapQueue)

(* The missing page's block into the frame, and the rest of the handler.   *)
writeFromDevToPool(a) ==
  LET pte   == <<p_supportStruct[a], missing[a]>>
      entry == [entryAt(pte) EXCEPT !.pfn = FRAMEPOOLSTART + frameIndexToReplace, !.valid = TRUE]
  IN  /\ step[a] = "in" /\ at # "fault"
      /\ ram' = [ram EXCEPT ![frameIndexToReplace] = flash[entry.asid][missing[a]]]
      /\ updateSwapTableEntry(pte)
      /\ pgTbl' = [pgTbl EXCEPT ![pte[1]][pte[2]] = entry]
      /\ tlb' = updateEntryInTLB(tlb, entry)
      /\ missing' = [missing EXCEPT ![a] = 0]
      /\ leavePager(a)
      /\ UNCHANGED <<lifeVars, frameIndexToReplace, tlbIndex, flash, written, lost>>
=============================================================================
