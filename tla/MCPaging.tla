------------------------------ MODULE MCPaging ------------------------------
(***************************************************************************)
(* Paging on a small machine: fewer frames than two processes can ask for,  *)
(* so that a load fails half way, a fault finds no frame and frames are     *)
(* handed from one process to another.                                      *)
(***************************************************************************)
EXTENDS Paging, TLC

Simetria == Permutations(Processos)
=============================================================================
