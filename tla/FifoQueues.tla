----------------------------- MODULE FifoQueues -----------------------------
(***************************************************************************)
(* What src/pcb.c promises its callers about process queues and about the  *)
(* free list, with no pointer in sight.  Every process control block is in *)
(* exactly one place: the free list, one of the queues, or the hands of    *)
(* the caller that took it out.  A queue hands its elements out in the     *)
(* order they came in, and so does the free list.  The answer is what the  *)
(* last call returned, and to whom: which call it was, and of what.        *)
(***************************************************************************)
EXTENDS SequencesExt

CONSTANTS Pcb,    \* the process control blocks
          Queue,  \* the queues built from them
          NULL    \* the answer that there is no such block

VARIABLES free,          \* the free list, oldest first
          queue,         \* the elements of each queue, oldest first
          held,          \* the blocks that are in nobody's queue
          processCount,  \* how many blocks are allocated
          answer         \* what the last call returned

vars == <<free, queue, held, processCount, answer>>

Init == /\ free \in {s \in [1 .. Cardinality(Pcb) -> Pcb] : IsInjective(s)}
        /\ queue = [q \in Queue |-> <<>>]
        /\ held = {}
        /\ processCount = 0
        /\ answer = <<>>

Alloc == /\ free # <<>>
         /\ free' = Tail(free)
         /\ held' = held \cup {Head(free)}
         /\ processCount' = processCount + 1
         /\ answer' = <<"allocPcb", Head(free)>>
         /\ UNCHANGED queue

NoneFree == /\ free = <<>>
            /\ answer' = <<"allocPcb", NULL>>
            /\ UNCHANGED <<free, queue, held, processCount>>

Free(p) == /\ p \in held
           /\ free' = Append(free, p)
           /\ held' = held \ {p}
           /\ processCount' = processCount - 1
           /\ answer' = <<"freePcb", p>>
           /\ UNCHANGED queue

Insert(q, p) == /\ p \in held
                /\ queue' = [queue EXCEPT ![q] = Append(@, p)]
                /\ held' = held \ {p}
                /\ answer' = <<"insertProcQ", p>>
                /\ UNCHANGED <<free, processCount>>

(* A removal answers with the block removed, or with NULL and no change.   *)
RemoveOldest(q) ==
  /\ IF queue[q] = <<>>
     THEN answer' = <<"removeProcQ", NULL>> /\ UNCHANGED <<queue, held>>
     ELSE /\ answer' = <<"removeProcQ", Head(queue[q])>>
          /\ queue' = [queue EXCEPT ![q] = Tail(@)]
          /\ held' = held \cup {Head(queue[q])}
  /\ UNCHANGED <<free, processCount>>

Out(q, p) ==
  /\ IF Contains(queue[q], p)
     THEN /\ answer' = <<"outProcQ", p, p>>
          /\ queue' = [queue EXCEPT ![q] = RemoveFirst(@, p)]
          /\ held' = held \cup {p}
     ELSE answer' = <<"outProcQ", p, NULL>> /\ UNCHANGED <<queue, held>>
  /\ UNCHANGED <<free, processCount>>

Next == \/ Alloc \/ NoneFree
        \/ \E p \in Pcb : Free(p)
        \/ \E q \in Queue : \/ RemoveOldest(q)
                            \/ \E p \in Pcb : Insert(q, p) \/ Out(q, p)

Spec == Init /\ [][Next]_vars
=============================================================================
