------------------------------- MODULE MCDisk -------------------------------
(***************************************************************************)
(* Disk with two files whose bytes all differ, fewer ids than opens.         *)
(***************************************************************************)
EXTENDS Disk

MCConteudo == [a \in Arquivos |-> [k \in 1 .. 3 |-> <<a, k>>]]
=============================================================================
