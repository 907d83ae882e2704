----------------------------- MODULE ProcQueues -----------------------------
(***************************************************************************)
(* The process queues and the free list of src/pcb.c as the code keeps     *)
(* them: two link fields per block and one pointer per list.  The callers  *)
(* are the nucleus functions: they free or insert only a block they hold,  *)
(* and may ask any queue for any block (outProcQ searches).                *)
(*                                                                         *)
(* Blocks are the indices of pcbFree_table.                                *)
(***************************************************************************)
EXTENDS PcbLinks

CONSTANTS MAXPROC,   \* the length of pcbFree_table
          Queue      \* the tail pointers: readyQueue and the s_procQ fields

ASSUME PcbAssumption == MAXPROC \in Nat \ {0} /\ Pcb = 0 .. MAXPROC - 1

VARIABLES links,         \* p_next and p_prev of every block
          pcbFree_h,     \* the head of the free list
          tail,          \* the tail pointer of each queue
          held,          \* the blocks some caller has taken out
          processCount,
          answer         \* the last call, and what it returned

vars == <<links, pcbFree_h, tail, held, processCount, answer>>

(* mkEmptyProcQ, and what emptyProcQ tests for.                            *)
mkEmptyProcQ == NULL

(* Defect: the ring is not closed.                                         *)
initPcbs_NoModulo == [next |-> [i \in Pcb |-> i + 1], prev |-> [i \in Pcb |-> i - 1]]

initPcbs == [next |-> [i \in Pcb |-> (i + 1) % MAXPROC],
             prev |-> [i \in Pcb |-> (i + MAXPROC - 1) % MAXPROC]]

Init == /\ links = initPcbs
        /\ pcbFree_h = 0
        /\ tail = [q \in Queue |-> mkEmptyProcQ]
        /\ held = {}
        /\ processCount = 0
        /\ answer = <<>>

allocPcb == /\ IF pcbFree_h = NULL
               THEN UNCHANGED <<links, pcbFree_h, held, processCount>>
               ELSE /\ pcbFree_h' = allocHead(links, pcbFree_h)
                    /\ links' = unlinkPCB(links, pcbFree_h)
                    /\ held' = held \cup {pcbFree_h}
                    /\ processCount' = processCount + 1
            /\ answer' = <<"allocPcb", pcbFree_h>>
            /\ UNCHANGED tail

freePcb(p) == /\ p \in held
              /\ links' = freeLinks(links, pcbFree_h, p)
              /\ pcbFree_h' = freeHead(pcbFree_h, p)
              /\ held' = held \ {p}
              /\ processCount' = processCount - 1
              /\ answer' = <<"freePcb", p>>
              /\ UNCHANGED tail

Insert(q, p) == /\ p \in held
                /\ links' = insertProcQ(links, tail[q], p)
                /\ tail' = [tail EXCEPT ![q] = p]
                /\ held' = held \ {p}
                /\ answer' = <<"insertProcQ", p>>
                /\ UNCHANGED <<pcbFree_h, processCount>>

(* A removal with the given result; the block returned goes to the caller. *)
TakeOut(q, result) == /\ links' = result.links
                      /\ tail' = [tail EXCEPT ![q] = result.tail]
                      /\ held' = held \cup ({result.ret} \ {NULL})
                      /\ UNCHANGED <<pcbFree_h, processCount>>

RemoveOldest(q) == LET result == removeProcQ(links, tail[q])
                   IN  TakeOut(q, result) /\ answer' = <<"removeProcQ", result.ret>>

Out(q, p) == LET result == outProcQ(links, tail[q], p)
             IN  TakeOut(q, result) /\ answer' = <<"outProcQ", p, result.ret>>

Next == \/ allocPcb
        \/ \E p \in Pcb : freePcb(p)
        \/ \E q \in Queue : \/ RemoveOldest(q)
                            \/ \E p \in Pcb : Insert(q, p) \/ Out(q, p)

Spec == Init /\ [][Next]_vars

----------------------------------------------------------------------------

Answers == {<<>>} \cup ({"allocPcb", "removeProcQ"} \X PcbOrNull)
                  \cup ({"freePcb", "insertProcQ"} \X Pcb)
                  \cup ({"outProcQ"} \X Pcb \X PcbOrNull)

(* Type invariant: the link fields, the list pointers and the counter.     *)
TypeOK == /\ links \in Links
          /\ pcbFree_h \in PcbOrNull
          /\ tail \in [Queue -> PcbOrNull]
          /\ held \subseteq Pcb
          /\ processCount \in 0 .. MAXPROC
          /\ answer \in Answers

(* The blocks on the ring that holds p; none when p is NULL.               *)
Ring(p) == Reachable(links.next, p)

(* Every list of pcb.c stays a ring that reads the same in both directions *)
(* whatever is inserted, removed from the front or searched out: a pointer *)
(* that a removal forgets would break the next removal, not this one.      *)
RingsReadBothWays ==
  \A p \in Pcb \ held : /\ links.next[p] \in Pcb /\ links.prev[links.next[p]] = p
                        /\ links.prev[p] \in Pcb /\ links.next[links.prev[p]] = p

(* The free list, the queues and the callers' hands partition the blocks:  *)
(* none is lost, none is on two lists, and processCount counts exactly the *)
(* blocks that are not free (init.h:11).                                   *)
EveryBlockInOnePlace ==
  LET lists == [q \in Queue |-> Ring(tail[q])]
  IN  /\ Pcb = Ring(pcbFree_h) \cup held \cup UNION {lists[q] : q \in Queue}
      /\ MAXPROC = Cardinality(Ring(pcbFree_h)) + processCount
      /\ \A q \in Queue : lists[q] \cap (held \cup Ring(pcbFree_h)) = {}
      /\ \A q, r \in Queue : q # r => lists[q] \cap lists[r] = {}

(***************************************************************************)
(* The refinement: read each ring from its oldest block on.                *)
(***************************************************************************)
Fifo == INSTANCE FifoQueues
          WITH free <- Walk(links.next, pcbFree_h),
               queue <- [q \in Queue |-> Walk(links.next, headProcQ(links, tail[q]))]

(* pcb.c keeps the promise of FifoQueues, answers included: each list      *)
(* hands out its blocks in the order they came in, and outProcQ takes out  *)
(* the one asked for and leaves the others in their order.                 *)
KeepsFifoOrder == Fifo!Spec
=============================================================================
