--------------------------- MODULE MCEscalonador ----------------------------
(***************************************************************************)
(* Escalonador with idle and two or three more processes.  The addresses    *)
(* are alike, but for the one idle gets at boot.                            *)
(***************************************************************************)
EXTENDS Escalonador, TLC

Simetria == Permutations(Processos \ {Idle})
=============================================================================
