------------------------------ MODULE ProcTree ------------------------------
(***************************************************************************)
(* The process tree of src/pcb.c as the code keeps it: p_prnt, p_child,    *)
(* p_next_sib and p_prev_sib.  The callers are create_Process, which hangs *)
(* a block fresh from allocPcb under the running process, and              *)
(* terminate_Process_rec, which takes processes out by outChild (the one   *)
(* that terminates) and by removeChild (its progeny).                      *)
(*                                                                         *)
(* outChild may be asked for any process.  Asked for one with a younger    *)
(* sibling it damages the tree: it loses the siblings of a first child     *)
(* (pcb.c:219 stores the p_prev_sib of the child as the new p_child), and  *)
(* it leaves the next sibling of another without its p_prev_sib (pcb.c:245 *)
(* clears the field that line 249 copies).  The history variable severed   *)
(* tells when that has happened: the properties hold until then, and that  *)
(* very call breaks one of the first two (SeveringBreaks in TreeProofs).   *)
(***************************************************************************)
EXTENDS PcbLinks

VARIABLES tree,
          answer,   \* the last call, and what it returned
          severed   \* history: outChild was asked for one with a younger sibling

vars == <<tree, answer, severed>>

Init == /\ answer = <<>>
        /\ severed = FALSE
        /\ tree = [prnt |-> [p \in Pcb |-> NULL], child |-> [p \in Pcb |-> NULL],
                   nsib |-> [p \in Pcb |-> NULL], psib  |-> [p \in Pcb |-> NULL]]

(* A process that is in no hierarchy, as far as its own fields tell.       *)
Detached(p) == tree.prnt[p] = NULL

Insert(q, p) == /\ p # q /\ Detached(p) /\ emptyChild(tree, p)
                /\ ~emptyChild(tree, q) => \E last \in Pcb : IsLastSibling(tree, tree.child[q], last)
                /\ tree' = insertChild(allocTree(tree, p), q, p)
                /\ answer' = <<"insertChild", q, p>>
                /\ UNCHANGED severed

RemoveOldest(q) == /\ tree' = IF emptyChild(tree, q) THEN tree ELSE removeChild(tree, q)
                   /\ answer' = <<"removeChild", q, tree.child[q]>>
                   /\ UNCHANGED severed

Out(p) == /\ tree' = outChild(tree, p)
          /\ answer' = <<"outChild", p, IF Detached(p) THEN NULL ELSE p>>
          /\ severed' = (severed \/ tree.nsib[p] # NULL)

Next == \E q \in Pcb : \/ RemoveOldest(q)
                       \/ Out(q)
                       \/ \E p \in Pcb : Insert(q, p)

Spec == Init /\ [][Next]_vars

----------------------------------------------------------------------------

(* The children of q that a walk from p_child finds.                       *)
ChildrenOf(q) == Reachable(tree.nsib, tree.child[q])

(* Both ends of the parent link agree: q finds p among its children        *)
(* exactly when p names q as its parent, so outChild looks for p where it  *)
(* is.                                                                     *)
Agree == \A p, q \in Pcb : p \in ChildrenOf(q) <=> tree.prnt[p] = q
ParentsAgree == ~severed => Agree

(* The sibling list is "a doubly linked, NUll-terminated list"             *)
(* (README.md:11): the two directions say the same.                        *)
BothWays == \A p, q \in Pcb : tree.nsib[p] = q <=> tree.psib[q] = p
SiblingsReadBothWays == ~severed => BothWays

(***************************************************************************)
(* The refinement: follow p_next_sib from p_child.                         *)
(***************************************************************************)
Lists == INSTANCE ChildLists WITH children <- [q \in Pcb |-> Walk(tree.nsib, tree.child[q])]

(* The pointers keep the promise of ChildLists, answers included: children *)
(* in the order of creation, and nobody but the process asked for leaves   *)
(* the tree; up to the first outChild of a process with a younger sibling. *)
KeepsChildLists ==
  Lists!Init /\ [][~severed' => Lists!Next \/ UNCHANGED Lists!vars]_vars
=============================================================================
