------------------------------ MODULE MCKernel -------------------------------
(***************************************************************************)
(* The kernel on a machine of 32 words of virtual memory in 4 pages, with 3  *)
(* registers, and fewer frames than two processes can use.                   *)
(***************************************************************************)
EXTENDS Kernel, TLC

Simetria == Permutations(Processos \ {Idle})

Ins(op, dest, op1, op2, imed) ==
    [op |-> op, dest |-> dest, op1 |-> op1, op2 |-> op2, imed |-> imed]
Mov(r, imed) == Ins("Mov", r, 0, 0, imed)
Jump(imed)   == Ins("Jump", 0, 0, 0, imed)

\* Word w is the instruction Tabela[w + 1]; 0 is add r0, r0, r0 as in the code.
Tabela == <<
    Ins("Add", 0, 0, 0, 0), Mov(0, 1), Mov(0, 4), Mov(0, 5), Mov(0, 6), Mov(0, 7),  \* 0-5
    Mov(1, 1), Mov(1, 9), Mov(1, 8), Mov(1, 25), Mov(0, 0),                    \* 6-10
    Ins("Syscall", 0, 0, 0, 0),                                              \* 11
    Ins("Store", 0, 2, 1, 0), Ins("Load", 1, 2, 0, 0),                       \* 12-13
    Jump(1), Jump(8), Ins("Invalida", 0, 0, 0, 0),                           \* 14-16
    Ins("Div", 1, 0, 2, 0), Ins("Cmp_equal", 2, 0, 1, 0),                    \* 17-18
    Ins("Jump_cond", 1, 0, 0, 6), Mov(0, 3), Mov(0, 2), Mov(1, 16), Mov(0, 20),      \* 19-23
    Ins("Sub", 1, 1, 2, 0), Ins("Mul", 1, 1, 1, 0), Ins("Cmp_neq", 2, 0, 1, 0)>>     \* 24-26

MCDecodifica == [w \in Palavras |->
    IF w < Len(Tabela) THEN Tabela[w + 1] ELSE Ins("Invalida", 0, 0, 0, 0)]

\* Obtains a page, writes and reads it, releases it and ends.
Aloca == <<0, 2, 8, 11, 12, 13, 3, 22, 11, 10, 11>>
\* Asks for nothing, then for more than there is, and writes where it was told to.
SemLugar == <<0, 2, 11, 9, 11, 12>>
\* Obtains two pages and jumps into the first.
ExecutaDados == <<0, 2, 7, 11, 15>>
\* Sleeps a second, asks for its age, prints the word that follows and divides by 0.
Dorme == <<0, 4, 6, 11, 5, 11, 1, 7, 11, 17, 0>>
\* Prints a number and the end of a line, and is no instruction any more.
Imprime3 == <<0, 20, 11, 21, 11, 23, 11, 16>>

MCProgramas == {Aloca, SemLugar, ExecutaDados, Dorme, Imprime3, <<>>}
MCPaginam   == {Aloca, ExecutaDados}
MCSoAlocam  == {SemLugar}
MCIdleBin   == <<0, 14>>
=============================================================================
