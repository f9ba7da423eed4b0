--------------------------------- MODULE Cpu ---------------------------------
(***************************************************************************)
(* The instructions of arch/cpu.cpp: what each makes of the registers, which *)
(* words of memory it touches, and which exception it raises.  Which word    *)
(* stands for which instruction is the parameter Decodifica, so that a       *)
(* machine with few different words can be checked.                          *)
(***************************************************************************)
EXTENDS Integers, Sequences

CONSTANTS
    page_size,        \* words of a page
    ptes_per_table,   \* pages of the virtual memory
    nregs,
    Decodifica        \* the instruction each word encodes

\* One word more than the largest address, and than the largest word (2^16 in the code).
virtual_mem_size == page_size * ptes_per_table

Palavras      == 0 .. virtual_mem_size - 1
Registradores == 0 .. nregs - 1

OpcodeUla  == {"Add", "Sub", "Mul", "Div", "Cmp_equal", "Cmp_neq"}
OpcodeR    == OpcodeUla \cup {"Load", "Store", "Syscall"}
OpcodeI    == {"Jump", "Jump_cond", "Mov"}
Instrucoes == [op : OpcodeR \cup OpcodeI \cup {"Invalida"},
               dest : Registradores, op1 : Registradores, op2 : Registradores,
               imed : Palavras]

ASSUME CpuAssumption ==
    /\ page_size \in Nat \ {0} /\ ptes_per_table \in Nat \ {0}
    /\ virtual_mem_size > 1
    /\ nregs \in Nat /\ nregs > 2
    /\ Decodifica \in [Palavras -> Instrucoes]

\* What salvar_contexto keeps of the CPU, and what a new process starts with.
Contextos    == [pc : Palavras, gprs : [Registradores -> Palavras]]
ContextoNovo == [pc |-> 1, gprs |-> [r \in Registradores |-> 0]]

Pagina(vaddr) == vaddr \div page_size
Desloc(vaddr) == vaddr % page_size

-----------------------------------------------------------------------------
(* Registers *)

Seguinte(c)     == [c EXCEPT !.pc = (@ + 1) % virtual_mem_size]
ComReg(c, r, x) == [c EXCEPT !.gprs[r] = x]

\* The result of an instruction of arithmetic, cut to the width of a register.
Ula(op, a, b) ==
    CASE op = "Add"       -> (a + b) % virtual_mem_size
      [] op = "Sub"       -> (a - b) % virtual_mem_size
      [] op = "Mul"       -> (a * b) % virtual_mem_size
      [] op = "Div"       -> a \div b
      [] op = "Cmp_equal" -> IF a = b THEN 1 ELSE 0
      [] op = "Cmp_neq"   -> IF a # b THEN 1 ELSE 0

\* A division by zero, which the host does not survive.
DivideZero(c, i) == i.op = "Div" /\ c.gprs[i.op2] = 0

\* The context after instruction i when it raises nothing; lido is the word it loads.
Executada(c, i, lido) ==
    CASE i.op \in OpcodeUla ->
            ComReg(Seguinte(c), i.dest, Ula(i.op, c.gprs[i.op1], c.gprs[i.op2]))
      [] i.op = "Load"      -> ComReg(Seguinte(c), i.dest, lido)
      [] i.op = "Mov"       -> ComReg(Seguinte(c), i.dest, i.imed)
      [] i.op = "Jump"      -> [c EXCEPT !.pc = i.imed]
      [] i.op = "Jump_cond" -> IF c.gprs[i.dest] = 1 THEN [c EXCEPT !.pc = i.imed]
                               ELSE Seguinte(c)
      [] i.op \in {"Store", "Syscall"} -> Seguinte(c)

-----------------------------------------------------------------------------
(* Memory.  An access is the page entry it goes through and what it needs of it. *)

\* The words instruction i reads or writes, as <<address, permission>>.
Acessos(c, i) ==
    IF i.op = "Load" THEN {<<c.gprs[i.op1], "Readable">>}
    ELSE IF i.op = "Store" THEN {<<c.gprs[i.op1], "Writable">>}
    ELSE {}

NaoPode == [Readable   |-> "VmemGPFnotReadable",
            Writable   |-> "VmemGPFnotWritable",
            Executable |-> "VmemGPFnotExecutable"]

\* vmem_to_phys: what an access through a page table entry raises.
Protecao(entrada, permissao) ==
    IF ~entrada.Present THEN "VmemPageFault"
    ELSE IF permissao \notin entrada.perms THEN NaoPode[permissao]
    ELSE "nenhuma"

\* vmem_to_phys: the word of page frame that vaddr is.
Palavra(quadro, vaddr) == quadro[Desloc(vaddr)]

\* The page after word vaddr of it is set.
ComPalavra(quadro, vaddr, x) == [quadro EXCEPT ![Desloc(vaddr)] = x]

-----------------------------------------------------------------------------
(* Programs *)

\* Pages of a program: its length was cut to the width of a register.
paginas_necessarias(palavras) ==
    ((palavras % virtual_mem_size) + page_size - 1) \div page_size

PaginaZero == [o \in 0 .. page_size - 1 |-> 0]

\* carregar_codigo_direto: page v of a program, filled with zeros to its end.
PaginaDeCodigo(codigo, v) ==
    [o \in 0 .. page_size - 1 |->
        IF v * page_size + o < Len(codigo) THEN codigo[v * page_size + o + 1] ELSE 0]
=============================================================================
