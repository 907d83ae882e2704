---------------------------- MODULE BlockedQueues ---------------------------
(***************************************************************************)
(* What the active semaphore list of src/asl.c promises: every semaphore   *)
(* address has a FIFO queue of blocked processes, a process is in at most  *)
(* one of them, and a process is turned away only when it would be the     *)
(* first to wait at its address while as many addresses as there are       *)
(* descriptors already have somebody waiting.                              *)
(***************************************************************************)
EXTENDS SequencesExt

CONSTANTS Pcb,         \* the processes
          Address,     \* the semaphore addresses
          Descriptors, \* how many semaphore descriptors there are
          NULL         \* the answer that nobody was removed

VARIABLES waiting,   \* the processes blocked at each address, oldest first
          answer     \* the last call, and what it returned

vars == <<waiting, answer>>

Active == {a \in Address : waiting[a] # <<>>}

IsBlocked(p) == \E a \in Address : Contains(waiting[a], p)

Full(a) == waiting[a] = <<>> /\ Cardinality(Active) >= Descriptors

Init == waiting = [a \in Address |-> <<>>] /\ answer = <<>>

Insert(a, p) == /\ ~IsBlocked(p)
                /\ answer' = <<"insertBlocked", Full(a)>>
                /\ waiting' = IF Full(a) THEN waiting
                              ELSE [waiting EXCEPT ![a] = Append(@, p)]

RemoveOldest(a) ==
  IF waiting[a] = <<>>
  THEN answer' = <<"removeBlocked", NULL>> /\ UNCHANGED waiting
  ELSE /\ answer' = <<"removeBlocked", Head(waiting[a])>>
       /\ waiting' = [waiting EXCEPT ![a] = Tail(@)]

Out(p) == /\ IsBlocked(p)
          /\ answer' = <<"outBlocked", p>>
          /\ waiting' = [a \in Address |-> RemoveFirst(waiting[a], p)]

Next == \/ \E a \in Address : \/ RemoveOldest(a)
                              \/ \E p \in Pcb : Insert(a, p)
        \/ \E p \in Pcb : Out(p)

Spec == Init /\ [][Next]_vars
=============================================================================
