------------------------------- MODULE Listas -------------------------------
(***************************************************************************)
(* The loops of os/process_manager.cpp over its std::list of processes that  *)
(* keep some of the elements, in their order.                               *)
(***************************************************************************)
EXTENDS Integers, SequencesExt

\* t, with e at its end if it is in A.
Mais(t, e, A) == IF e \in A THEN Append(t, e) ELSE t

\* The elements of s that are in A, among its first i, for each i.
Filtradas(s, A) ==
    LET ate[i \in 0 .. Len(s)] == IF i = 0 THEN <<>> ELSE Mais(ate[i - 1], s[i], A)
    IN  ate

\* The elements of s that are in A.
Filtra(s, A) == Filtradas(s, A)[Len(s)]
=============================================================================
