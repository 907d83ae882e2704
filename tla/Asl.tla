--------------------------------- MODULE Asl --------------------------------
(***************************************************************************)
(* The active semaphore list of src/asl.c: a singly linked list of         *)
(* semaphore descriptors sorted by address, between a sentinel at address  *)
(* 0 and one at MAXADD, and a stack of free descriptors.  The queue of     *)
(* each descriptor is a sequence here: ProcQueues shows that the rings of  *)
(* pcb.c implement it.                                                     *)
(*                                                                         *)
(* Addresses are compared as unsigned numbers, and one above MAXADD is     *)
(* possible; address 0 (NULL) and MAXADD (odd) are nobody's semaphore.     *)
(***************************************************************************)
EXTENDS PcbLinks, SequencesExt

CONSTANTS Descriptors,   \* descriptors beside the sentinels (MAXPROC in the code)
          MAXADD,        \* the address of the upper sentinel
          Address        \* the semaphore addresses in use

ASSUME AslAssumption == /\ Descriptors \in Nat \ {0}
                        /\ MAXADD \in Nat \ {0}
                        /\ Address \subseteq Nat \ {0, MAXADD}
                        /\ NULL \notin Nat

Semd == 0 .. Descriptors + 1   \* the indices of semd_table

VARIABLES s_next, s_semAdd, s_procQ,   \* the fields of the descriptors
          semdFree_h,                  \* the head of the free descriptors
          p_semAdd,                    \* where each process is blocked
          answer                       \* the last call, and what it returned

vars == <<s_next, s_semAdd, s_procQ, semdFree_h, p_semAdd, answer>>

semd_h == 0   \* the lower sentinel, never moved

(* Defect: the free stack is linked towards the end of the table.          *)
initASL_Upwards ==
  [i \in Semd |-> IF i = 0 THEN 1 ELSE IF i = 1 THEN NULL ELSE i + 1]

(* initASL pushes the descriptors 2, 3, ... on the free stack.             *)
initASL ==
  [i \in Semd |-> IF i = 0 THEN 1 ELSE IF i \in {1, 2} THEN NULL ELSE i - 1]

Init == /\ s_next = initASL
        /\ s_semAdd = [i \in Semd |-> IF i = 1 THEN MAXADD ELSE 0]
        /\ s_procQ = [i \in Semd |-> <<>>]
        /\ semdFree_h = Descriptors + 1
        /\ p_semAdd = [p \in Pcb |-> NULL]
        /\ answer = <<>>

(* Defect: the search passes the descriptor it looks for.                  *)
StopsAt_Above(d, semAdd) == \/ s_semAdd[s_next[d]] > semAdd
                            \/ s_semAdd[s_next[d]] = MAXADD

(* The first descriptor whose successor is not below semAdd, or is the     *)
(* upper sentinel.                                                         *)
StopsAt(d, semAdd) == \/ s_semAdd[s_next[d]] >= semAdd
                      \/ s_semAdd[s_next[d]] = MAXADD

findSemInActiveList(semAdd) ==
  CHOOSE d \in Reachable(s_next, semd_h) :
    /\ s_next[d] # NULL /\ StopsAt(d, semAdd)
    /\ \A e \in Reachable(s_next, semd_h) \ {d} :
         d \in Reachable(s_next, e) => ~StopsAt(e, semAdd)

(* Take the descriptor after d out of the list and push it on the free     *)
(* stack, its fields cleared.                                              *)
freeSemdAfter(d) ==
  LET freed == s_next[d]
  IN  /\ s_next' = [s_next EXCEPT ![d] = s_next[freed], ![freed] = semdFree_h]
      /\ s_semAdd' = [s_semAdd EXCEPT ![freed] = 0]
      /\ semdFree_h' = freed

(* Defect: a descriptor stays in the list when its queue is empty.         *)
Shrink_NeverFrees(d, queue) ==
  /\ s_procQ' = [s_procQ EXCEPT ![s_next[d]] = queue]
  /\ UNCHANGED <<s_next, s_semAdd, semdFree_h>>

(* Leave queue in the descriptor after d, or free it when it is empty.     *)
Shrink(d, queue) ==
  /\ s_procQ' = [s_procQ EXCEPT ![s_next[d]] = queue]
  /\ IF queue = <<>> THEN freeSemdAfter(d) ELSE UNCHANGED <<s_next, s_semAdd, semdFree_h>>

insertBlocked(semAdd, p) ==
  LET d == findSemInActiveList(semAdd)
  IN  IF s_semAdd[s_next[d]] = semAdd
      THEN /\ p_semAdd' = [p_semAdd EXCEPT ![p] = semAdd]
           /\ s_procQ' = [s_procQ EXCEPT ![s_next[d]] = Append(@, p)]
           /\ answer' = <<"insertBlocked", FALSE>>
           /\ UNCHANGED <<s_next, s_semAdd, semdFree_h>>
      ELSE IF semdFree_h = NULL
      THEN /\ answer' = <<"insertBlocked", TRUE>>
           /\ UNCHANGED <<s_next, s_semAdd, s_procQ, semdFree_h, p_semAdd>>
      ELSE /\ semdFree_h' = s_next[semdFree_h]
           /\ s_next' = [s_next EXCEPT ![semdFree_h] = s_next[d], ![d] = semdFree_h]
           /\ s_semAdd' = [s_semAdd EXCEPT ![semdFree_h] = semAdd]
           /\ s_procQ' = [s_procQ EXCEPT ![semdFree_h] = <<p>>]
           /\ p_semAdd' = [p_semAdd EXCEPT ![p] = semAdd]
           /\ answer' = <<"insertBlocked", FALSE>>

(* Defect: the process removed keeps its p_semAdd.                         *)
removeBlocked_SemAddStays(semAdd) ==
  LET d == findSemInActiveList(semAdd)
  IN  /\ IF s_semAdd[s_next[d]] = semAdd
         THEN Shrink(d, Tail(s_procQ[s_next[d]]))
         ELSE UNCHANGED <<s_next, s_semAdd, s_procQ, semdFree_h>>
      /\ answer' = <<"removeBlocked",
                     IF s_semAdd[s_next[d]] = semAdd THEN Head(s_procQ[s_next[d]]) ELSE NULL>>
      /\ UNCHANGED p_semAdd

(* Defect: the youngest process is removed, not the oldest.                *)
removeBlocked_Youngest(semAdd) ==
  LET d == findSemInActiveList(semAdd)
      queue == s_procQ[s_next[d]]
  IN  IF s_semAdd[s_next[d]] = semAdd
      THEN /\ Shrink(d, Front(queue))
           /\ p_semAdd' = [p_semAdd EXCEPT ![Last(queue)] = NULL]
           /\ answer' = <<"removeBlocked", Last(queue)>>
      ELSE /\ answer' = <<"removeBlocked", NULL>>
           /\ UNCHANGED <<s_next, s_semAdd, s_procQ, semdFree_h, p_semAdd>>

removeBlocked(semAdd) ==
  LET d == findSemInActiveList(semAdd)
      queue == s_procQ[s_next[d]]
  IN  IF s_semAdd[s_next[d]] = semAdd
      THEN /\ Shrink(d, Tail(queue))
           /\ p_semAdd' = [p_semAdd EXCEPT ![Head(queue)] = NULL]
           /\ answer' = <<"removeBlocked", Head(queue)>>
      ELSE /\ answer' = <<"removeBlocked", NULL>>
           /\ UNCHANGED <<s_next, s_semAdd, s_procQ, semdFree_h, p_semAdd>>

(* outBlocked takes for granted that the descriptor it finds is p's.       *)
outBlocked(p) ==
  LET d == findSemInActiveList(p_semAdd[p])
      queue == s_procQ[s_next[d]]
  IN  IF Contains(queue, p)
      THEN /\ Shrink(d, RemoveFirst(queue, p))
           /\ p_semAdd' = [p_semAdd EXCEPT ![p] = NULL]
           /\ answer' = <<"outBlocked", p>>
      ELSE /\ answer' = <<"outBlocked", NULL>>
           /\ UNCHANGED <<s_next, s_semAdd, s_procQ, semdFree_h, p_semAdd>>

(* The nucleus blocks a process that is not blocked, and calls outBlocked  *)
(* for one whose p_semAdd is not NULL.                                     *)
Next == \/ \E p \in Pcb : \/ p_semAdd[p] # NULL /\ outBlocked(p)
                          \/ \E a \in Address : p_semAdd[p] = NULL /\ insertBlocked(a, p)
        \/ \E a \in Address : removeBlocked(a)

Spec == Init /\ [][Next]_vars

----------------------------------------------------------------------------

Answers == {<<>>} \cup ({"insertBlocked"} \X BOOLEAN)
                  \cup ({"removeBlocked", "outBlocked"} \X PcbOrNull)

(* Type invariant: descriptor fields, list heads and p_semAdd.             *)
TypeOK == /\ s_next \in [Semd -> Semd \cup {NULL}]
          /\ s_semAdd \in [Semd -> Address \cup {0, MAXADD}]
          /\ s_procQ \in [Semd -> Seq(Pcb)]
          /\ semdFree_h \in Semd \cup {NULL}
          /\ p_semAdd \in [Pcb -> Address \cup {NULL}]
          /\ answer \in Answers

Listed == Reachable(s_next, semd_h)

(* "Semd_h is kept ordered in ascending order with respect to semAdd"      *)
(* (README.md:17) as far as the upper sentinel, addresses above MAXADD     *)
(* included; a descriptor out of order would never be found again.         *)
AscendingToSentinel ==
  \A d \in Listed : s_next[d] \in Semd \ {1} => s_semAdd[d] < s_semAdd[s_next[d]]

(* Every descriptor beside the sentinels is either listed with somebody    *)
(* waiting or free, never both: a descriptor that leaks here turns a later *)
(* insertBlocked away.                                                     *)
NoDescriptorLost ==
  LET free == Reachable(s_next, semdFree_h)
  IN  /\ Semd = Listed \cup free
      /\ Listed \cap free = {}
      /\ {0, 1} \subseteq Listed
      /\ \A d \in Semd : s_procQ[d] # <<>> <=> d \in Listed \ {0, 1}

(* p_semAdd and the queues agree: a process whose p_semAdd is set waits in *)
(* the queue of that address, where outBlocked will look for it.           *)
BlockedWhereItSays ==
  \A p \in Pcb, a \in Address :
    p_semAdd[p] = a <=> \E d \in Listed : s_semAdd[d] = a /\ Contains(s_procQ[d], p)

(***************************************************************************)
(* The refinement: the queue of the listed descriptor for each address.    *)
(***************************************************************************)
QueueAt(a) == IF \E d \in Listed : s_semAdd[d] = a
              THEN s_procQ[CHOOSE d \in Listed : s_semAdd[d] = a]
              ELSE <<>>

Queues == INSTANCE BlockedQueues WITH waiting <- [a \in Address |-> QueueAt(a)]

(* asl.c keeps the promise of BlockedQueues, answers included: the oldest  *)
(* is the one removed, and insertBlocked refuses only when it must.        *)
KeepsBlockedQueues == Queues!Spec
=============================================================================
