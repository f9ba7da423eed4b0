--------------------------- MODULE MaquinaPrivada ---------------------------
(***************************************************************************)
(* What the kernel promises to the processes of the system: each has a      *)
(* machine of its own.  A step is one instruction, or one system call, of    *)
(* one process, and what it does depends on nothing but the registers and    *)
(* the memory of that process.  Frames, page faults, the timer, the queue    *)
(* and the other processes do not appear: module Kernel is shown to          *)
(* implement this module.                                                    *)
(***************************************************************************)
EXTENDS Cpu

CONSTANTS
    Processos,
    Programas,    \* the programs, as sequences of words
    CHAR_MOD,     \* number of different characters
    NaoMapeada    \* stands for a page that is not mapped

VARIABLES
    existe,   \* the processes that exist
    ctx,      \* pc and registers of each
    mem,      \* mem[p][v]: page v of p, or NaoMapeada
    areas,    \* areas[p][s]: pages of the area p obtained at page s, or 0
    saida     \* what the step printed, <<process, system call, text>>, or <<>>

vars == <<existe, ctx, mem, areas, saida>>

Paginas == 0 .. ptes_per_table - 1
Vazia   == [v \in Paginas |-> NaoMapeada]
SemArea == [v \in Paginas |-> 0]

Init ==
    /\ existe = {}
    /\ ctx = [p \in Processos |-> ContextoNovo]
    /\ mem = [p \in Processos |-> Vazia]
    /\ areas = [p \in Processos |-> SemArea]
    /\ saida = <<>>

\* A program is in the first pages, and the process starts at its second word.
Cria(p, codigo) ==
    /\ p \notin existe
    /\ existe' = existe \cup {p}
    /\ mem' = [mem EXCEPT ![p] = [v \in Paginas |->
                  IF v < paginas_necessarias(Len(codigo)) THEN PaginaDeCodigo(codigo, v)
                  ELSE NaoMapeada]]
    /\ saida' = <<>>
    /\ UNCHANGED <<ctx, areas>>

Encerra(p) ==
    /\ p \in existe
    /\ existe' = existe \ {p}
    /\ ctx' = [ctx EXCEPT ![p] = ContextoNovo]
    /\ mem' = [mem EXCEPT ![p] = Vazia]
    /\ areas' = [areas EXCEPT ![p] = SemArea]
    /\ saida' = <<>>

Desliga ==
    /\ existe' = {}
    /\ ctx' = [p \in Processos |-> ContextoNovo]
    /\ mem' = [p \in Processos |-> Vazia]
    /\ areas' = [p \in Processos |-> SemArea]
    /\ saida' = <<>>

-----------------------------------------------------------------------------
EmArea(p, v) == \E s \in Paginas : v \in s .. s + areas[p][s] - 1

\* The word of p at vaddr.
Em(p, vaddr) == Palavra(mem[p][Pagina(vaddr)], vaddr)

\* p can execute the word at its pc.
Executavel(p) ==
    LET v == Pagina(ctx[p].pc) IN
    p \in existe /\ mem[p][v] # NaoMapeada /\ ~EmArea(p, v)

Comum(p, i) ==
    LET c == ctx[p]  a == c.gprs[i.op1] IN
    /\ i.op # "Invalida" /\ ~DivideZero(c, i)
    /\ i.op \in {"Load", "Store"} => mem[p][Pagina(a)] # NaoMapeada
    /\ ctx' = [ctx EXCEPT ![p] =
                  Executada(c, i, IF i.op = "Load" THEN Em(p, a) ELSE 0)]
    /\ mem' = IF i.op # "Store" THEN mem
              ELSE [mem EXCEPT ![p][Pagina(a)] = ComPalavra(@, a, c.gprs[i.op2])]
    /\ UNCHANGED <<existe, areas>>

\* What a system call answers with, in r1 and r2.
Responde(p, r1, r2) == ctx' = [ctx EXCEPT ![p] = ComReg(ComReg(Seguinte(@), 1, r1), 2, r2)]

\* The first place of n pages that are not mapped.
Lugar(p, s, n) ==
    LET Cabe(t) == t + n <= ptes_per_table /\ \A v \in t .. t + n - 1 : mem[p][v] = NaoMapeada
    IN  Cabe(s) /\ \A t \in 0 .. s - 1 : ~Cabe(t)

\* 4: an area filled with zeros, at the first place where it fits.  When there is none
\* the answer is the largest address.
Aloca(p) ==
    LET c == ctx[p]  n == (c.gprs[1] + page_size - 1) \div page_size IN
    \/ /\ n = 0
       /\ Responde(p, 0, c.gprs[2])
       /\ UNCHANGED <<mem, areas>>
    \/ /\ n > 0
       /\ \A s \in Paginas : ~Lugar(p, s, n)
       /\ Responde(p, 1, virtual_mem_size - 1)
       /\ UNCHANGED <<mem, areas>>
    \/ \E s \in Paginas :
       /\ n > 0 /\ Lugar(p, s, n)
       /\ Responde(p, 1, s * page_size)
       /\ areas' = [areas EXCEPT ![p][s] = n]
       /\ mem' = [mem EXCEPT ![p] = [v \in Paginas |->
                     IF v \in s .. s + n - 1 THEN PaginaZero ELSE mem[p][v]]]

\* 5: the area whose first address is r1 goes away, and nothing else.
Desaloca(p) ==
    LET c == ctx[p]  s == Pagina(c.gprs[1]) IN
    IF Desloc(c.gprs[1]) = 0 /\ areas[p][s] # 0
    THEN /\ Responde(p, 1, c.gprs[2])
         /\ areas' = [areas EXCEPT ![p][s] = 0]
         /\ mem' = [mem EXCEPT ![p] = [v \in Paginas |->
                       IF v \in s .. s + areas[p][s] - 1 THEN NaoMapeada ELSE mem[p][v]]]
    ELSE Responde(p, 0, c.gprs[2]) /\ UNCHANGED <<mem, areas>>

\* The text at vaddr: it goes on to the first zero, or page without an area or a program.
Texto(p, vaddr) ==
    LET Onde(n) == (vaddr + n) % virtual_mem_size
        Letra(n) == IF mem[p][Pagina(Onde(n))] = NaoMapeada THEN 0
                    ELSE Em(p, Onde(n)) % CHAR_MOD
        n == CHOOSE n \in Palavras : Letra(n) = 0 /\ \A m \in 0 .. n - 1 : Letra(m) # 0
    IN  [m \in 1 .. n |-> Letra(m - 1)]

\* 7 answers with a time; the others that do not end the process change no register.
Chamada(p) ==
    LET c == ctx[p]  codigo == c.gprs[0] IN
    /\ CASE codigo = 4 -> Aloca(p)
         [] codigo = 5 -> Desaloca(p)
         [] codigo = 7 -> /\ \E x \in Palavras : Responde(p, x, c.gprs[2])
                          /\ UNCHANGED <<mem, areas>>
         [] OTHER      -> /\ codigo # 0
                          /\ ctx' = [ctx EXCEPT ![p] = Seguinte(@)]
                          /\ UNCHANGED <<mem, areas>>
    /\ saida' = CASE codigo = 1 -> <<p, 1, Texto(p, c.gprs[1])>>
                  [] codigo = 2 -> <<p, 2, <<>>>>
                  [] codigo = 3 -> <<p, 3, <<c.gprs[1]>>>>
                  [] OTHER      -> <<>>
    /\ UNCHANGED existe

Instrucao(p) ==
    /\ Executavel(p)
    /\ LET i == Decodifica[Em(p, ctx[p].pc)] IN
       IF i.op = "Syscall" THEN Chamada(p) ELSE Comum(p, i) /\ saida' = <<>>

\* Whatever else goes on prints nothing, and no process sees it.
Interno == saida' = <<>> /\ UNCHANGED <<existe, ctx, mem, areas>>

Next ==
    \/ \E p \in Processos :
          \/ \E codigo \in Programas : Cria(p, codigo)
          \/ Encerra(p)
          \/ Instrucao(p)
    \/ Desliga
    \/ Interno

Spec == Init /\ [][Next]_vars
=============================================================================
