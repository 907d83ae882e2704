----------------------------- MODULE ChildLists -----------------------------
(***************************************************************************)
(* What the process tree of src/pcb.c promises: every process has a list   *)
(* of children in the order of their creation; insertChild adds at its     *)
(* end, removeChild takes its first element, outChild takes one process    *)
(* out of its parent's list and leaves the rest of the tree alone; the two *)
(* answer with the process they took, or with NULL when there is none.     *)
(***************************************************************************)
EXTENDS SequencesExt

CONSTANTS Pcb, NULL

VARIABLES children,  \* the children of every process, oldest first
          answer     \* the last call, and what it returned

vars == <<children, answer>>

IsChild(p) == \E q \in Pcb : Contains(children[q], p)

Init == children = [q \in Pcb |-> <<>>] /\ answer = <<>>

Insert(q, p) == /\ p # q /\ ~IsChild(p) /\ children[p] = <<>>
                /\ children' = [children EXCEPT ![q] = Append(@, p)]
                /\ answer' = <<"insertChild", q, p>>

RemoveOldest(q) ==
  IF children[q] = <<>>
  THEN answer' = <<"removeChild", q, NULL>> /\ UNCHANGED children
  ELSE /\ answer' = <<"removeChild", q, Head(children[q])>>
       /\ children' = [children EXCEPT ![q] = Tail(@)]

Out(p) ==
  /\ answer' = <<"outChild", p, IF IsChild(p) THEN p ELSE NULL>>
  /\ children' = [q \in Pcb |-> RemoveFirst(children[q], p)]

Next == \E q \in Pcb : \/ RemoveOldest(q) \/ Out(q)
                       \/ \E p \in Pcb : Insert(q, p)

Spec == Init /\ [][Next]_vars
=============================================================================
