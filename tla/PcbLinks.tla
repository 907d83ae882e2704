------------------------------ MODULE PcbLinks ------------------------------
(***************************************************************************)
(* The pointer manipulations of src/pcb.c, as operators on the link fields *)
(* of the process control blocks.  A "links" value holds the fields the    *)
(* queues use (p_next, p_prev); a "tree" value holds the fields the        *)
(* process tree uses (p_prnt, p_child, p_next_sib, p_prev_sib).  The two   *)
(* groups are disjoint, and no function of pcb.c other than allocPcb       *)
(* touches both.                                                           *)
(*                                                                         *)
(* An operator named after a C function returns what the function leaves   *)
(* in the fields it may write; assignments of the C text appear in an      *)
(* EXCEPT in their order.  The C loops that chase a pointer are stated     *)
(* with Reachable: the loop visits exactly the nodes the pointer reaches.  *)
(*                                                                         *)
(* A definition marked "Defect:" is a wrong variant of the one after it,   *)
(* kept to show that some property notices it; no specification uses one.  *)
(* The other modules follow the same convention.                           *)
(***************************************************************************)
EXTENDS Naturals, FiniteSets

CONSTANTS Pcb,   \* the elements of pcbFree_table
          NULL   \* the null pointer

ASSUME NullAssumption == NULL \notin Pcb

PcbOrNull == Pcb \cup {NULL}

(***************************************************************************)
(* The nodes a chase of pointer f meets when it starts at x: the least set *)
(* that holds x and is closed under f; none when x is NULL.                *)
(***************************************************************************)
Reachable(f, x) ==
  {q \in DOMAIN f : \A S \in SUBSET DOMAIN f :
      ((x \in DOMAIN f => x \in S) /\ \A y \in S : f[y] \in DOMAIN f => f[y] \in S) => q \in S}

(* The same nodes in the order in which the chase meets them.              *)
Walk(f, x) ==
  LET walk[i \in 1 .. Cardinality(Reachable(f, x))] ==
        IF i = 1 THEN x ELSE f[walk[i - 1]]
  IN  walk

----------------------------------------------------------------------------
(* Process queues: circular, doubly linked, known by a pointer to the tail *)

Links == [next : [Pcb -> PcbOrNull], prev : [Pcb -> PcbOrNull]]

(* Defect: the node after p keeps pointing back to p.                      *)
unlinkPCB_OneWay(lk, p) ==
  [next |-> [lk.next EXCEPT ![lk.prev[p]] = lk.next[p], ![p] = NULL],
   prev |-> [lk.prev EXCEPT ![p] = NULL]]

unlinkPCB(lk, p) ==
  [next |-> [lk.next EXCEPT ![lk.prev[p]] = lk.next[p], ![p] = NULL],
   prev |-> [lk.prev EXCEPT ![lk.next[p]] = lk.prev[p], ![p] = NULL]]

insertProcQ(lk, tp, p) ==
  IF tp = NULL
  THEN [next |-> [lk.next EXCEPT ![p] = p], prev |-> [lk.prev EXCEPT ![p] = p]]
  ELSE [next |-> [lk.next EXCEPT ![p] = lk.next[tp], ![tp] = p],
        prev |-> [lk.prev EXCEPT ![p] = tp, ![lk.next[tp]] = p]]

headProcQ(lk, tp) == IF tp = NULL THEN NULL ELSE lk.next[tp]

(* What removeProcQ and outProcQ leave behind: the links, the new value of *)
(* the tail pointer, and the pcb handed to the caller (or NULL).           *)
QueueResult(lk, tp, p) == [links |-> lk, tail |-> tp, ret |-> p]

removeProcQ(lk, tp) ==
  IF tp = NULL
  THEN QueueResult(lk, NULL, NULL)
  ELSE LET head == headProcQ(lk, tp)
       IN  QueueResult(unlinkPCB(lk, head), IF head = tp THEN NULL ELSE tp, head)

(* Defect: removing the tail leaves the tail pointer as it is.             *)
outProcQ_TailStays(lk, tp, p) ==
  IF tp # NULL /\ p \in Reachable(lk.next, lk.next[tp])
  THEN QueueResult(unlinkPCB(lk, p), tp, p)
  ELSE QueueResult(lk, tp, NULL)

(* Defect: the new tail is the oldest node, not the one before the tail.   *)
outProcQ_TailToHead(lk, tp, p) ==
  IF tp = NULL
  THEN QueueResult(lk, NULL, NULL)
  ELSE IF tp = p
       THEN QueueResult(unlinkPCB(lk, p), IF lk.prev[tp] = tp THEN NULL ELSE lk.next[tp], p)
       ELSE IF p \in Reachable(lk.next, lk.next[tp])
            THEN QueueResult(unlinkPCB(lk, p), tp, p)
            ELSE QueueResult(lk, tp, NULL)

outProcQ(lk, tp, p) ==
  IF tp = NULL
  THEN QueueResult(lk, NULL, NULL)
  ELSE IF tp = p
       THEN QueueResult(unlinkPCB(lk, p), IF lk.prev[tp] = tp THEN NULL ELSE lk.prev[tp], p)
       ELSE IF p \in Reachable(lk.next, lk.next[tp])
            THEN QueueResult(unlinkPCB(lk, p), tp, p)
            ELSE QueueResult(lk, tp, NULL)

----------------------------------------------------------------------------
(* The free list: the same ring, known by a pointer to its head            *)

(* freePcb: p goes to the end of the list whose head is free.              *)
freeLinks(lk, free, p) ==
  IF free = NULL
  THEN [next |-> [lk.next EXCEPT ![p] = p], prev |-> [lk.prev EXCEPT ![p] = p]]
  ELSE [next |-> [lk.next EXCEPT ![p] = free, ![lk.prev[free]] = p],
        prev |-> [lk.prev EXCEPT ![p] = lk.prev[free], ![free] = p]]

freeHead(free, p) == IF free = NULL THEN p ELSE free

(* allocPcb: the head of the list leaves it; the next node becomes head.   *)
allocHead(lk, free) == IF lk.next[free] = free THEN NULL ELSE lk.next[free]

----------------------------------------------------------------------------
(* The process tree: each parent points to a NULL-terminated sibling list  *)

Trees == [prnt : [Pcb -> PcbOrNull], child : [Pcb -> PcbOrNull],
          nsib : [Pcb -> PcbOrNull], psib  : [Pcb -> PcbOrNull]]

(* The tree fields of p as allocPcb hands it out.                          *)
allocTree(t, p) ==
  [prnt |-> [t.prnt EXCEPT ![p] = NULL], child |-> [t.child EXCEPT ![p] = NULL],
   nsib |-> [t.nsib EXCEPT ![p] = NULL], psib  |-> [t.psib EXCEPT ![p] = NULL]]

emptyChild(t, p) == t.child[p] = NULL

(* The node at which insertChild's loop over the siblings of c stops.      *)
IsLastSibling(t, c, q) == q \in Reachable(t.nsib, c) /\ t.nsib[q] = NULL

(* Defect: the last sibling is found and not linked to p.                  *)
insertChild_OneWay(t, prnt, p) ==
  IF emptyChild(t, prnt)
  THEN [t EXCEPT !.prnt[p] = prnt, !.child[prnt] = p]
  ELSE [t EXCEPT !.prnt[p] = prnt,
                 !.psib[p] = CHOOSE q \in Pcb : IsLastSibling(t, t.child[prnt], q)]

insertChild(t, prnt, p) ==
  IF emptyChild(t, prnt)
  THEN [prnt  |-> [t.prnt EXCEPT ![p] = prnt],
        child |-> [t.child EXCEPT ![prnt] = p],
        nsib  |-> [t.nsib EXCEPT ![p] = NULL],
        psib  |-> [t.psib EXCEPT ![p] = NULL]]
  ELSE LET last == CHOOSE q \in Pcb : IsLastSibling(t, t.child[prnt], q)
       IN  [prnt  |-> [t.prnt EXCEPT ![p] = prnt],
            child |-> t.child,
            nsib  |-> [t.nsib EXCEPT ![p] = NULL, ![last] = p],
            psib  |-> [t.psib EXCEPT ![p] = last]]

(* Defect: p is not cut off from its next sibling.                         *)
unlinkChild_KeepsNext(t, p) ==
  [t EXCEPT !.prnt[p] = NULL, !.psib[p] = NULL]

(* unlinkChild clears p_prev_sib of p before it copies it into the next    *)
(* sibling, so the next sibling always loses its back pointer.             *)
unlinkChild(t, p) ==
  LET before == t.psib[p]
      after  == t.nsib[p]
  IN  [prnt  |-> [t.prnt EXCEPT ![p] = NULL],
       child |-> t.child,
       nsib  |-> IF before = NULL
                 THEN [t.nsib EXCEPT ![p] = NULL]
                 ELSE [t.nsib EXCEPT ![before] = after, ![p] = NULL],
       psib  |-> IF after = NULL
                 THEN [t.psib EXCEPT ![p] = NULL]
                 ELSE [t.psib EXCEPT ![p] = NULL, ![after] = NULL]]

(* Defect: the parent forgets the younger siblings of the child removed.   *)
removeChild_DropsSiblings(t, p) ==
  unlinkChild([t EXCEPT !.child[p] = NULL], t.child[p])

(* removeChild of a process with a child; the child removed is t.child[p]. *)
removeChild(t, p) ==
  LET c == t.child[p]
  IN  unlinkChild([t EXCEPT !.child[p] = t.nsib[c]], c)

(* outChild; a first child hands its parent its own p_prev_sib.            *)
outChild(t, p) ==
  LET q == t.prnt[p]
  IN  IF q = NULL THEN t
      ELSE IF t.child[q] = p
           THEN unlinkChild([t EXCEPT !.child[q] = t.psib[p]], p)
           ELSE unlinkChild(t, p)
=============================================================================
