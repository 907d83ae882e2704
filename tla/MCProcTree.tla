----------------------------- MODULE MCProcTree ----------------------------
(***************************************************************************)
(* The instance of ProcTree for TLC.  Blocks are interchangeable.  A       *)
(* damaged tree is reached and not followed further, since the properties  *)
(* claim nothing of it.                                                    *)
(***************************************************************************)
EXTENDS ProcTree, TLC

Symmetry == Permutations(Pcb)

Intact == ~severed
=============================================================================
