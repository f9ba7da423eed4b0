--------------------------- MODULE MemoriaPrivada ---------------------------
(***************************************************************************)
(* What virtual memory promises to the processes of the system: each live  *)
(* process has a memory of its own.  A page of it holds a value or is not   *)
(* mapped; it reads as zeros until its owner writes it, it changes only     *)
(* when its owner writes it, and it goes away only when its owner releases  *)
(* the area it belongs to or ends.  Frames, page tables and page faults do  *)
(* not appear here: module Paging is shown to implement this module.        *)
(***************************************************************************)
EXTENDS Integers

CONSTANTS
    Processos,     \* the processes
    ptes_per_table, \* pages of a virtual address space
    Valores,       \* what a page can hold
    Zero,          \* the contents of a page nobody has written
    NaoMapeada     \* stands for the contents of a page that is not mapped

VARIABLES
    vivas,   \* the processes that exist
    mem,     \* mem[p][v]: the contents of page v of process p
    areas,   \* areas[p][s]: pages of the area p obtained at page s, or 0
    escrita  \* the store just executed, <<p, v, x>>, or <<>>

vars == <<vivas, mem, areas, escrita>>

Paginas == 0 .. ptes_per_table - 1

Init ==
    /\ vivas = {}
    /\ mem = [p \in Processos |-> [v \in Paginas |-> NaoMapeada]]
    /\ areas = [p \in Processos |-> [v \in Paginas |-> 0]]
    /\ escrita = <<>>

\* A new process sees its program in its first n pages and nothing else.
Cria(p, n, codigo) ==
    /\ p \notin vivas
    /\ vivas' = vivas \cup {p}
    /\ mem' = [mem EXCEPT ![p] = [v \in Paginas |->
                  IF v < n THEN codigo[v] ELSE NaoMapeada]]
    /\ areas' = [areas EXCEPT ![p] = [v \in Paginas |-> 0]]
    /\ escrita' = <<>>

Escreve(p, v, x) ==
    /\ p \in vivas
    /\ mem[p][v] # NaoMapeada
    /\ mem' = [mem EXCEPT ![p][v] = x]
    /\ escrita' = <<p, v, x>>
    /\ UNCHANGED <<vivas, areas>>

\* An allocation takes n consecutive pages that are not mapped, wherever they
\* are, and they read as zeros.
Aloca(p, s, n) ==
    /\ p \in vivas
    /\ areas[p][s] = 0
    /\ \A v \in s .. s + n - 1 : v \in Paginas /\ mem[p][v] = NaoMapeada
    /\ mem' = [mem EXCEPT ![p] = [v \in Paginas |->
                  IF v \in s .. s + n - 1 THEN Zero ELSE mem[p][v]]]
    /\ areas' = [areas EXCEPT ![p][s] = n]
    /\ UNCHANGED vivas
    /\ escrita' = <<>>

\* A release takes away exactly the area that was obtained at page s.
Desaloca(p, s) ==
    /\ p \in vivas
    /\ areas[p][s] # 0
    /\ mem' = [mem EXCEPT ![p] = [v \in Paginas |->
                  IF v \in s .. s + areas[p][s] - 1 THEN NaoMapeada ELSE mem[p][v]]]
    /\ areas' = [areas EXCEPT ![p][s] = 0]
    /\ UNCHANGED vivas
    /\ escrita' = <<>>

Encerra(p) ==
    /\ p \in vivas
    /\ vivas' = vivas \ {p}
    /\ mem' = [mem EXCEPT ![p] = [v \in Paginas |-> NaoMapeada]]
    /\ areas' = [areas EXCEPT ![p] = [v \in Paginas |-> 0]]
    /\ escrita' = <<>>

\* Whatever else goes on is seen by no process.
Interno ==
    /\ escrita' = <<>>
    /\ UNCHANGED <<vivas, mem, areas>>

Next ==
    \/ Interno
    \/ \E p \in Processos :
        \/ \E n \in 0 .. ptes_per_table : \E codigo \in [0 .. n - 1 -> Valores] : Cria(p, n, codigo)
        \/ \E v \in Paginas, x \in Valores : Escreve(p, v, x)
        \/ \E s \in Paginas, n \in 1 .. ptes_per_table : Aloca(p, s, n)
        \/ \E s \in Paginas : Desaloca(p, s)
        \/ Encerra(p)

Spec == Init /\ [][Next]_vars
=============================================================================
