----------------------------- MODULE MCComputer -----------------------------
(***************************************************************************)
(* Computer with a few keys, short counts of the timer and a window of two   *)
(* rows of three: lines wrap, the window rolls under them, and the longest   *)
(* line fits in it with its prompt.                                         *)
(***************************************************************************)
EXTENDS Computer

CONSTANT a

MCSaidas == {<<>>, <<TAB, LF>>}
MCMenu   == <<a, LF>>
=============================================================================
