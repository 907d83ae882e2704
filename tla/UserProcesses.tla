---------------------------- MODULE UserProcesses ---------------------------
(***************************************************************************)
(* The user processes: their life cycle (Lifecycle) and their memory       *)
(* (Pager) together, and what the two promise each other.                  *)
(***************************************************************************)
EXTENDS Pager

(* init_uproc_support, with the page table: entryHI from the ASID in the   *)
(* structure, no page valid.                                               *)
InitSupport ==
  /\ init_uproc_support
  /\ pgTbl' = [pgTbl EXCEPT ![supp] =
                 [v \in Page |-> [asid |-> sup_asid'[supp], page |-> v, pfn |-> 0, valid |-> FALSE]]]
  /\ UNCHANGED <<swapTable, frameIndexToReplace, tlb, tlbIndex, swapSem, swapQueue, step,
                 missing, ram, flash, written, lost>>

(* A process ends at an instruction of its program; the swap table and the *)
(* TLB are not told.                                                       *)
Ends(a) == InProgram(a) /\ terminate_support(a) /\ UNCHANGED memVars
Strays(a) == InProgram(a) /\ getMissingPage_NotFound(a) /\ UNCHANGED memVars

Instantiator ==
  \/ (alloc_supp \/ create_Process \/ waitForUprocs \/ EndInstantiator) /\ UNCHANGED memVars
  \/ InitSupport

PagerStep(a) == handleTLBInvalid(a) \/ writeFromPoolToDev(a) \/ writeFromDevToPool(a)

(* HALT, PANIC or the null pointer.                                        *)
Stay == (at = "fault" \/ (at \in {"blocked", "done"} /\ Alive = {})) /\ UNCHANGED vars

Next ==
  \/ Instantiator
  \/ \E a \in Asid : PagerStep(a) \/ Ends(a) \/ Strays(a)
  \/ \E a \in Asid, v \in Page : uTLB_RefillHandler(a, v) \/ Write(a, v) \/ EnterPager(a, v)
  \/ Stay

Spec == Init /\ [][Next]_vars

(* A process in the pager gets the processor again and again, and the      *)
(* flash devices finish.  Nothing is assumed of the programs, and nothing  *)
(* of test_phase_3.                                                        *)
Fairness == \A a \in Asid : WF_vars(PagerStep(a))

FairSpec == Spec /\ Fairness

----------------------------------------------------------------------------

InPager == {a \in Asid : step[a] \in {"pager", "out", "in"}}

(* Type invariant.                                                         *)
TypeOK ==
  /\ freeSupp_tp \in Supp \cup {NULL}
  /\ prev_supp \in [Supp -> Supp \cup {NULL}]
  /\ sup_asid \in [Supp -> 0 .. UPROCMAX]
  /\ at \in {"alloc", "take", "step", "store", "last", "clear", "init", "create", "wait",
             "blocked", "end", "done", "fault"}
  /\ {supp, below} \subseteq Supp \cup {NULL}
  /\ started \in 0 .. UPROCMAX /\ awaited \in 0 .. UPROCMAX
  /\ masterSem \in Int
  /\ uproc \in [Asid -> {"none", "alive", "ended", "killed"}]
  /\ p_supportStruct \in [Asid -> Supp \cup {NULL}]
  /\ {raced, reused} \subseteq BOOLEAN
  /\ pgTbl \in [Supp -> [Page -> [asid : 0 .. UPROCMAX, page : Page, pfn : Nat, valid : BOOLEAN]]]
  /\ swapTable \in [Frame -> {Unused} \cup [sw_asid : 0 .. UPROCMAX, sw_pte : Supp \X Page]]
  /\ frameIndexToReplace \in Frame
  /\ tlb \in [0 .. TLBSIZE - 1 -> [asid : 0 .. UPROCMAX, page : Page, pfn : Nat, valid : BOOLEAN]]
  /\ tlbIndex \in 0 .. TLBSIZE - 1
  /\ swapSem \in Int /\ swapQueue \in Seq(Asid)
  /\ step \in [Asid -> {"user", "queue", "pager", "out", "in"}]
  /\ missing \in [Asid -> Page]
  /\ written \in [Asid -> [Page -> Nat]]
  /\ lost \subseteq Asid \X Page

(* The swap table, frameIndexToReplace and the transfers belong to one     *)
(* process at a time (vmSupport.c:134), swapSem tells how many wait, and   *)
(* nobody waits for a pager that is free.                                  *)
OneInPager ==
  /\ Cardinality(InPager) <= 1
  /\ swapSem = 1 - Cardinality(InPager) - Len(swapQueue)
  /\ swapQueue # <<>> => InPager # {}

(* TLB, page tables and swap table agree about every live process: an      *)
(* entry of the TLB is the page table's, a page has one at most, and a     *)
(* valid page is in the frame the swap table has it in, so that whoever    *)
(* replaces the frame invalidates the page first (vmSupport.c:163).        *)
TranslationsAgree ==
  ~raced =>
    /\ \A i \in DOMAIN tlb : tlb[i].asid \in Alive => tlb[i] = tableOf(tlb[i].asid)[tlb[i].page]
    /\ \A i, j \in DOMAIN tlb :
         tlb[i].asid \in Alive /\ tlb[i].asid = tlb[j].asid /\ tlb[i].page = tlb[j].page => i = j
    /\ \A a \in Alive, v \in Page :
         tableOf(a)[v].valid =>
           swapTable[frameOf(tableOf(a)[v])] = [sw_asid |-> a, sw_pte |-> <<p_supportStruct[a], v>>]

(* Every page of a live process, in its frame or else in its block, is its *)
(* own and as the process last wrote it, but for the writes that a         *)
(* replacement dropped (vmSupport.c:244): as long as no process got a      *)
(* structure that was another's before (vmSupport.c:180).                  *)
MemoryKept ==
  ~raced /\ ~reused =>
    \A a \in Alive, v \in Page :
      LET entry == tableOf(a)[v]
          content == IF entry.valid THEN ram[frameOf(entry)] ELSE flash[a][v]
          moving == \E b \in Asid : step[b] = "out" /\ swapTable[frameIndexToReplace].sw_pte
                                                        = <<p_supportStruct[a], v>>
      IN  \/ content = Content(a, v, written[a][v])
          \/ moving /\ ram[frameIndexToReplace] = Content(a, v, written[a][v])
          \/ <<a, v>> \in lost /\ content.asid = a /\ content.page = v

(* A process whose page is not in memory goes on in the end, however many  *)
(* others fault meanwhile: swapSem serves in order (vmSupport.c:134, 136). *)
FaultServed == \A a \in Asid : step[a] # "user" ~> (step[a] = "user" \/ at = "fault")
=============================================================================
