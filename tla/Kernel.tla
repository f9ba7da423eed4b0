------------------------------- MODULE Kernel --------------------------------
(***************************************************************************)
(* os/os.cpp with all it drives: each handler is what it does to the         *)
(* processes (Escalonador) together with what it does to their memory        *)
(* (Paging), on a CPU that executes the instructions of Cpu.  An action is   *)
(* one CPU cycle, one interrupt or one command, run to its end.              *)
(*                                                                           *)
(* idle.bin is taken not to fail: what its failure does is in Escalonador.   *)
(***************************************************************************)
EXTENDS Cpu, FiniteSets

CONSTANTS
    PAGINAS_TOTAIS,   \* frames of the physical memory
    NaoMapeada,       \* stands for a page that is not mapped
    Processos, Idle, NULL, PID_MOD, Numeros, MAX_CARGAS, MAX_TEMPO, \* see Escalonador
    Programas,        \* the programs a user can load, as sequences of words
    IdleBin,          \* the program idle.bin
    CHAR_MOD          \* number of different characters (2^8 in the code)

VARIABLES
    vivos, idle_bin, pid, estado, dormir_ate, contexto, idle,
    processo_rodando_no_momento, processos_rodando_novo, processos_dormindo,
    cpu_contexto, cpu_tabela, proximo_pid, agora, ligado, falha, feito, prazo,
    paginas_livres, prox_pag_livre, paginas_em_uso, vivas, tabela, alocacoes, pmem, escrita,
    tempo_criacao,    \* when each process was created
    saida             \* what the step printed, <<process, system call, text>>, or <<>>

E == INSTANCE Escalonador WITH
        TEMPO_MOD <- virtual_mem_size, TEMPO32_MOD <- virtual_mem_size * virtual_mem_size,
        COMECO <- 0, Segundos <- Palavras,
        Contextos <- Contextos, Novo <- ContextoNovo, IdleInvalida <- FALSE

P == INSTANCE Paging WITH
        Valores <- [0 .. page_size - 1 -> Palavras], Zero <- PaginaZero

ASSUME KernelAssumption ==
    /\ PAGINAS_TOTAIS \in Nat \ {0}
    /\ NaoMapeada \notin [0 .. page_size - 1 -> Palavras]
    /\ Idle \in Processos /\ NULL \notin Processos
    /\ PID_MOD \in Nat \ {0} /\ Numeros \subseteq Nat
    /\ MAX_CARGAS \in Nat /\ MAX_TEMPO \in Nat
    /\ CHAR_MOD \in Nat \ {0}
    /\ Programas \cup {IdleBin} \subseteq Seq(Palavras)
    /\ paginas_necessarias(Len(IdleBin)) <= PAGINAS_TOTAIS

processosVars ==
    <<vivos, idle_bin, pid, estado, dormir_ate, contexto, idle,
      processo_rodando_no_momento, processos_rodando_novo, processos_dormindo,
      cpu_contexto, cpu_tabela, proximo_pid, agora, ligado, falha, feito, prazo>>
memoriaVars ==
    <<paginas_livres, prox_pag_livre, paginas_em_uso, vivas, tabela, alocacoes, pmem, escrita>>
vars == <<processosVars, memoriaVars, tempo_criacao, saida>>

rodando     == processo_rodando_no_momento
funcionando == E!funcionando
Paginas     == 0 .. ptes_per_table - 1

SemPaginacao == UNCHANGED memoriaVars

-----------------------------------------------------------------------------
(* The cycle of the CPU *)

\* The entry and the word of vaddr in the table the CPU translates with.
Entrada(vaddr) == tabela[cpu_tabela][Pagina(vaddr)]
Memoria(vaddr) == Palavra(pmem[Entrada(vaddr).PhyFrameID], vaddr)

pc        == cpu_contexto.pc
gpr(r)    == cpu_contexto.gprs[r]
instrucao == Decodifica[Memoria(pc)]

\* What an access raises, and the address the exception holds: nothing, or one.
AcessoFalha(vaddr, permissao) ==
    {e \in {[tipo |-> Protecao(Entrada(vaddr), permissao), vaddr |-> vaddr]} :
        e.tipo # "nenhuma"}

\* What the next cycle raises: the fetch, the decoding, the access to data.
excecoes ==
    IF AcessoFalha(pc, "Executable") # {} THEN AcessoFalha(pc, "Executable")
    ELSE IF instrucao.op = "Invalida"
    THEN {[tipo |-> "GPFinvalidInstruction", vaddr |-> pc]}
    ELSE UNION {AcessoFalha(a[1], a[2]) : a \in Acessos(cpu_contexto, instrucao)}

\* The CPU executes the instruction op, which raises nothing.
Cumpre(op) == funcionando /\ excecoes = {} /\ instrucao.op = op

Executa ==
    /\ \E op \in OpcodeUla \cup OpcodeI \cup {"Load"} : Cumpre(op)
    /\ ~DivideZero(cpu_contexto, instrucao)
    /\ E!Executa(Executada(cpu_contexto, instrucao,
                           IF instrucao.op = "Load" THEN Memoria(gpr(instrucao.op1)) ELSE 0))
    /\ SemPaginacao

Store ==
    LET vaddr == gpr(instrucao.op1) IN
    /\ Cumpre("Store")
    /\ E!Executa(Executada(cpu_contexto, instrucao, 0))
    /\ P!vmem_write(cpu_tabela, Pagina(vaddr),
                    ComPalavra(pmem[Entrada(vaddr).PhyFrameID], vaddr, gpr(instrucao.op2)))

\* The host does not survive the division.
DivisaoPorZero ==
    /\ Cumpre("Div")
    /\ DivideZero(cpu_contexto, instrucao)
    /\ E!ComandoComExcecao
    /\ SemPaginacao

-----------------------------------------------------------------------------
(* Exceptions *)

\* page_fault gives a frame to the page.
Serve(e) ==
    /\ e.tipo = "VmemPageFault"
    /\ tabela[rodando][Pagina(e.vaddr)].Foo /\ ~tabela[rodando][Pagina(e.vaddr)].Present
    /\ paginas_livres # {}

\* Fault: the program counter is past the instruction that failed.
FaltaServida_sem_voltar ==
    \E e \in excecoes :
        /\ funcionando
        /\ Serve(e)
        /\ P!page_fault(rodando, Pagina(e.vaddr))
        /\ E!Executa(Seguinte(cpu_contexto))

\* Fault: the frame goes to the page of the instruction, not to that of the data.
FaltaServida_no_pc ==
    \E e \in excecoes :
        /\ funcionando
        /\ Serve(e)
        /\ P!page_fault(rodando, Pagina(pc))
        /\ UNCHANGED processosVars

\* The page comes, and the program counter is back at the instruction.
FaltaServida ==
    \E e \in excecoes :
        /\ funcionando
        /\ Serve(e)
        /\ P!page_fault(rodando, Pagina(e.vaddr))
        /\ UNCHANGED processosVars

\* Fault: the page table of a process that ends is left.
LiberaNada(p) == SemPaginacao

Libera(p) == P!libera_tabela_paginas(p)

\* Any other exception ends the process.
ExcecaoFatal ==
    \E e \in excecoes :
        /\ funcionando
        /\ ~Serve(e)
        /\ E!tratar_excecao(e.tipo)
        /\ Libera(E!Alvo(pid[rodando]))

-----------------------------------------------------------------------------
(* System calls.  The program counter is past the instruction when they run. *)

Chamada(codigo) == Cumpre("Syscall") /\ gpr(0) = codigo

\* The instruction leaves r1 and r2 in the registers of these numbers.
Responde(r1, r2) == E!Executa(ComReg(ComReg(Seguinte(cpu_contexto), 1, r1), 2, r2))

syscall_0_fechar_processo ==
    /\ Chamada(0)
    /\ E!syscall_0_fechar_processo
    /\ Libera(rodando)

\* What is left of the text: where it ends there is a zero, or a page that is absent.
Fim(vaddr) ==
    LET entrada == tabela[rodando][Pagina(vaddr)] IN
    ~entrada.Present \/ Palavra(pmem[entrada.PhyFrameID], vaddr) % CHAR_MOD = 0

Caractere(vaddr) ==
    Palavra(pmem[tabela[rodando][Pagina(vaddr)].PhyFrameID], vaddr) % CHAR_MOD

\* 1, 2 and 3 print: a text of n characters, the end of a line, a number.
Imprime(codigo, texto) ==
    /\ E!Executa(Seguinte(cpu_contexto))
    /\ SemPaginacao
    /\ saida' = <<rodando, codigo, texto>>

syscall_1_imprimir_string ==
    LET Em(n) == (gpr(1) + n) % virtual_mem_size IN
    \E n \in Palavras :
        /\ Chamada(1)
        /\ Fim(Em(n)) /\ \A m \in 0 .. n - 1 : ~Fim(Em(m))
        /\ Imprime(1, [m \in 1 .. n |-> Caractere(Em(m - 1))])

ImprimeOutra ==
    \/ Chamada(2) /\ Imprime(2, <<>>)
    \/ Chamada(3) /\ Imprime(3, <<gpr(1)>>)

\* Fault: the address of a failure has one bit more.
SemEndereco_largo == virtual_mem_size

\* DEU_RUIM_ALOCAR_PAGINA
SemEndereco == virtual_mem_size - 1

\* A place that is not found is answered as if it were the page at the last address:
\* the comparison with -1 that should tell it is of 16 bits with 32.
syscall_4_alocar_memoria ==
    LET n == paginas_necessarias(gpr(1)) IN
    /\ Chamada(4)
    /\ \/ n = 0 /\ Responde(0, gpr(2)) /\ SemPaginacao
       \/ \E s \in Paginas : /\ n # 0 /\ P!aloca_dinamicamente(rodando, s, n)
                             /\ Responde(1, s * page_size)
       \/ /\ n # 0 /\ \A s \in Paginas : ~P!Cabe(rodando, s, n)
          /\ Responde(1, SemEndereco)
          /\ SemPaginacao

\* obter_alocacao finds an area by its first address only.
NaArea(vaddr) == Desloc(vaddr) = 0 /\ alocacoes[rodando][Pagina(vaddr)] # 0

syscall_5_desalocar_memoria ==
    /\ Chamada(5)
    /\ IF NaArea(gpr(1))
       THEN /\ P!desaloca_a_partir_de_tal_endereco(rodando, Pagina(gpr(1)))
            /\ Responde(1, gpr(2))
       ELSE Responde(0, gpr(2)) /\ SemPaginacao

syscall_6_dormir_processo ==
    /\ Chamada(6)
    /\ E!syscall_6_dormir_processo(gpr(1), Seguinte(cpu_contexto))
    /\ SemPaginacao

syscall_7_retornar_tempo_iniciacao ==
    /\ Chamada(7)
    /\ Responde((E!tempo_sistema - tempo_criacao[rodando]) % virtual_mem_size, gpr(2))
    /\ SemPaginacao

syscall_desconhecida ==
    /\ Cumpre("Syscall") /\ gpr(0) \notin 0 .. 7
    /\ E!Executa(Seguinte(cpu_contexto))
    /\ SemPaginacao

-----------------------------------------------------------------------------
(* Commands *)

Codigo(codigo) == [v \in 0 .. paginas_necessarias(Len(codigo)) - 1 |-> PaginaDeCodigo(codigo, v)]

\* criar_e_configurar_processo finds a frame for each page, or gives back those it took.
ComandoLoad(codigo) ==
    LET n == paginas_necessarias(Len(codigo)) IN
    \/ \E p \in Processos : E!ComandoLoad(p) /\ P!CarregaCodigo(p, n, Codigo(codigo))
    \/ E!ComandoLoadFalha /\ P!CarregaCodigoSemQuadros(n, Codigo(codigo))

\* kill n; nothing happens when n is the pid of idle or of no process.
ComandoKill ==
    \/ \E n \in Numeros : E!kill_process_pid(n) /\ Libera(E!Alvo(n))
    \/ E!kill_process /\ Libera(E!Alvo(pid[rodando]))

\* The allocator goes away with the frames, and so does what uses it.
ComandoFim == (E!ComandoExit \/ E!ComandoComExcecao) /\ SemPaginacao

tratar_timer == E!tratar_timer /\ SemPaginacao
PassaSegundo == E!PassaSegundo /\ SemPaginacao

-----------------------------------------------------------------------------
\* What boot leaves: the pages of idle.bin in the first frames.
Init ==
    LET n == paginas_necessarias(Len(IdleBin)) IN
    /\ E!Init
    /\ paginas_livres = P!Quadros \ 0 .. n - 1
    /\ prox_pag_livre = n /\ paginas_em_uso = n
    /\ vivas = {Idle}
    /\ tabela = [p \in Processos |-> [v \in Paginas |->
                    IF p = Idle /\ v < n THEN P!EntradaCodigo(v) ELSE P!EntradaNula]]
    /\ alocacoes = [p \in Processos |-> [v \in Paginas |-> 0]]
    /\ pmem = [f \in P!Quadros |-> IF f < n THEN PaginaDeCodigo(IdleBin, f) ELSE PaginaZero]
    /\ escrita = <<>>
    /\ tempo_criacao = [p \in Processos |-> 0]
    /\ saida = <<>>

\* A cycle of the CPU that prints nothing.
CicloMudo ==
    \/ Executa \/ Store \/ DivisaoPorZero \/ FaltaServida \/ ExcecaoFatal
    \/ syscall_0_fechar_processo \/ syscall_4_alocar_memoria
    \/ syscall_5_desalocar_memoria \/ syscall_6_dormir_processo
    \/ syscall_7_retornar_tempo_iniciacao \/ syscall_desconhecida

Ciclo ==
    \/ CicloMudo /\ saida' = <<>>
    \/ syscall_1_imprimir_string \/ ImprimeOutra

Comando == (\E codigo \in Programas : ComandoLoad(codigo)) \/ ComandoKill \/ ComandoFim

\* set_tempo_criacao: the time when a process is created goes with it.
Criados ==
    tempo_criacao' = [p \in Processos |-> IF p \notin vivos' THEN 0
                                          ELSE IF p \in vivos THEN tempo_criacao[p]
                                          ELSE E!tempo_sistema % virtual_mem_size]

Next ==
    /\ \/ Ciclo
       \/ (Comando \/ tratar_timer \/ PassaSegundo) /\ saida' = <<>>
    /\ Criados

Spec == Init /\ [][Next]_vars

\* The timer and the clock go on; and as a quantum is of one cycle at least, a process
\* that is given the CPU again and again executes again and again.
SpecJusta ==
    /\ Spec
    /\ WF_vars(tratar_timer /\ saida' = <<>> /\ Criados)
    /\ \A p \in Processos : SF_vars(rodando = p /\ Ciclo /\ Criados)

-----------------------------------------------------------------------------
(* Properties *)

\* Types of the variables.
TypeOK ==
    /\ E!TypeOK /\ P!TypeOK
    /\ tempo_criacao \in [Processos -> Palavras]

\* A process has a page table for as long as it exists and the CPU never uses another's:
\* whatever way it ends, system call, exception or kill, its frames go back, and a load
\* that fails leaves neither a process nor a frame (os.cpp, paging.cpp).
TabelaEnquantoVive ==
    funcionando =>
        /\ vivas = vivos /\ cpu_tabela = rodando /\ rodando \in vivas
        /\ P!Quadros \ paginas_livres = UNION {P!QuadrosDe(p, Paginas) : p \in vivos}

\* Each process has a machine of its own: timers, sleeps, page faults, frames that are
\* taken and given back, loads and kills of others never change its registers, its memory
\* or what it prints.  idle is left out, with what it prints: load_program does not save
\* its context.
usuarios == IF ligado THEN vivos \ {Idle} ELSE {}

Maquina == INSTANCE MaquinaPrivada WITH
    existe <- usuarios,
    ctx    <- [p \in Processos |-> IF p \notin usuarios THEN ContextoNovo
                                   ELSE IF p = rodando THEN cpu_contexto ELSE contexto[p]],
    mem    <- [p \in Processos |-> IF p \in usuarios THEN P!Leitura[p]
                                   ELSE [v \in Paginas |-> NaoMapeada]],
    areas  <- [p \in Processos |-> IF p \in usuarios THEN alocacoes[p]
                                   ELSE [v \in Paginas |-> 0]],
    saida  <- IF saida # <<>> /\ saida[1] = Idle THEN <<>> ELSE saida
MaquinaVirtual == Maquina!Spec

\* p has the CPU and its instruction waits for a page.
Falta(p) == funcionando /\ rodando = p /\ \E e \in excecoes : e.tipo = "VmemPageFault"

\* An instruction that waits for a page does not wait for ever: it gets the page or its
\* process ends, though it is repeated from its beginning and other processes take frames.
FaltaResolvida ==
    \A p \in Processos :
        Falta(p) ~> (rodando = p /\ ~Falta(p)) \/ p \notin vivos \/ ~funcionando

\* An allocation that obtains nothing answers 0 in r1.
AlocacaoQueFalhaAvisa ==
    [][Chamada(4) /\ feito'[rodando] # feito[rodando] /\ alocacoes' = alocacoes
         => feito'[rodando].gprs[1] = 0]_vars
=============================================================================
