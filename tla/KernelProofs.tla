---------------------------- MODULE KernelProofs ----------------------------
(***************************************************************************)
(* Proofs about module Kernel.  A step of the kernel is a step of            *)
(* Escalonador, or none, and a step of Paging, or none, so what              *)
(* EscalonadorProofs and PagingProofs show of them holds of the kernel; the  *)
(* proofs here show that its steps are theirs, and that the processes and    *)
(* the page tables stay in step.                                             *)
(***************************************************************************)
EXTENDS Kernel, FiniteSetTheorems, TLAPS

EP == INSTANCE EscalonadorProofs WITH
        TEMPO_MOD <- virtual_mem_size, TEMPO32_MOD <- virtual_mem_size * virtual_mem_size,
        COMECO <- 0, Segundos <- Palavras,
        Contextos <- Contextos, Novo <- ContextoNovo, IdleInvalida <- FALSE

PP == INSTANCE PagingProofs WITH
        Valores <- [0 .. page_size - 1 -> Palavras], Zero <- PaginaZero

Valores == [0 .. page_size - 1 -> Palavras]

-----------------------------------------------------------------------------
(* Arithmetic *)

\* A word has a place in a page of the table.
LEMMA Tamanho ==
    /\ page_size \in Nat \ {0} /\ ptes_per_table \in Nat \ {0}
    /\ virtual_mem_size \in Nat /\ virtual_mem_size > 1
    /\ virtual_mem_size = page_size * ptes_per_table
<1>1. \A a, b \in Nat : a * b \in Nat
  OBVIOUS
<1>2. QED BY <1>1, CpuAssumption DEF virtual_mem_size

LEMMA Restos ==
    ASSUME NEW a \in Int, NEW n \in Nat \ {0}
    PROVE  a % n \in 0 .. n - 1
OBVIOUS

\* A number cut to the width of a register is a word.
LEMMA Corta ==
    ASSUME NEW a \in Int
    PROVE  a % virtual_mem_size \in Palavras
<1>1. virtual_mem_size \in Nat \ {0}
  BY Tamanho
<1>2. QED BY <1>1, Restos DEF Palavras

\* Division: the quotient is the n with d * n <= a < d * (n + 1).
LEMMA Quociente ==
    ASSUME NEW a \in Nat, NEW d \in Nat \ {0}, NEW n \in Nat, a < d * n
    PROVE  a \div d \in 0 .. n - 1
<1> DEFINE q == a \div d
<1>1. q \in Nat /\ d * q <= a
  OBVIOUS
<1> HIDE DEF q
<1>2. ASSUME q >= n PROVE FALSE
  <2>1. q - n \in Nat
    BY <1>1, <1>2
  <2>2. d * (q - n) \in Nat
    <3>1. \A x, y \in Nat : x * y \in Nat
      OBVIOUS
    <3>2. QED BY <2>1, <3>1
  <2>3. d * q = d * n + d * (q - n)
    BY <1>1
  <2>4. QED BY <1>1, <2>2, <2>3
<1>3. q \in 0 .. n - 1
  BY <1>1, <1>2
<1>4. QED BY <1>3 DEF q

LEMMA Enderecos ==
    ASSUME NEW vaddr \in Palavras
    PROVE  /\ Pagina(vaddr) \in Paginas
           /\ Desloc(vaddr) \in 0 .. page_size - 1
<1>1. vaddr \in Nat /\ vaddr < page_size * ptes_per_table
  BY Tamanho DEF Palavras
<1>2. Pagina(vaddr) \in Paginas
  BY <1>1, Tamanho, Quociente DEF Pagina, Paginas
<1>3. Desloc(vaddr) \in 0 .. page_size - 1
  BY <1>1, Tamanho, Restos DEF Desloc
<1>4. QED BY <1>2, <1>3

\* No program needs more pages than the table has.
LEMMA PaginasDeCodigo ==
    ASSUME NEW palavras \in Nat
    PROVE  paginas_necessarias(palavras) \in 0 .. ptes_per_table
<1> DEFINE m == palavras % virtual_mem_size
           a == m + page_size - 1
<1>1. m \in Palavras
  BY Corta
<1>2. a \in Nat /\ a < virtual_mem_size + page_size
  BY <1>1, Tamanho DEF Palavras
<1>3. page_size * (ptes_per_table + 1) = virtual_mem_size + page_size
  BY Tamanho
<1>4. ptes_per_table + 1 \in Nat
  BY Tamanho
<1> HIDE DEF m, a
<1>5. a \div page_size \in 0 .. (ptes_per_table + 1) - 1
  BY <1>2, <1>3, <1>4, Tamanho, Quociente
<1>6. QED BY <1>5, Tamanho DEF paginas_necessarias, a, m

\* The first address of a page is a word.
LEMMA PrimeiroEndereco ==
    ASSUME NEW s \in Paginas
    PROVE  s * page_size \in Palavras
<1>1. s \in Nat /\ ptes_per_table - 1 - s \in Nat /\ s * page_size \in Nat
  <2>1. s \in Nat /\ ptes_per_table - 1 - s \in Nat
    BY Tamanho DEF Paginas
  <2>2. \A x, y \in Nat : x * y \in Nat
    OBVIOUS
  <2>3. QED BY <2>1, <2>2, Tamanho
<1>2. (ptes_per_table - 1 - s) * page_size \in Nat
  <2>1. \A x, y \in Nat : x * y \in Nat
    OBVIOUS
  <2>2. QED BY <1>1, <2>1, Tamanho
<1>3. virtual_mem_size = s * page_size + (ptes_per_table - 1 - s) * page_size + page_size
  BY <1>1, Tamanho
<1>4. QED BY <1>1, <1>2, <1>3, Tamanho DEF Palavras

-----------------------------------------------------------------------------
(* The modules Kernel is made of *)

LEMMA ContextoNovoTipo == ContextoNovo \in Contextos
<1>1. 0 \in Palavras /\ 1 \in Palavras
  BY Tamanho DEF Palavras
<1>2. QED BY <1>1 DEF ContextoNovo, Contextos

LEMMA EscalonadorVale == EP!EscalonadorAssumption
<1>1. virtual_mem_size * virtual_mem_size \in Nat
      /\ virtual_mem_size * virtual_mem_size >= virtual_mem_size
  <2>1. \A n \in Nat : n > 1 => n * n \in Nat /\ n * n >= n
    OBVIOUS
  <2>2. QED BY <2>1, Tamanho
<1>2. QED
  BY <1>1, Tamanho, ContextoNovoTipo, KernelAssumption DEF EP!EscalonadorAssumption, Palavras

LEMMA PagingVale == PP!PagingAssumption
<1>1. PaginaZero \in Valores
  <2>1. 0 \in Palavras
    BY Tamanho DEF Palavras
  <2>2. QED BY <2>1 DEF PaginaZero, Valores
<1>2. QED
  BY <1>1, Tamanho, KernelAssumption DEF PP!PagingAssumption, Valores

-----------------------------------------------------------------------------
(* The CPU *)

\* A register is a word, and setting one leaves a context.
LEMMA Registrador ==
    ASSUME NEW c \in Contextos, NEW r \in Registradores
    PROVE  /\ c.gprs[r] \in Palavras
           /\ \A x \in Palavras : ComReg(c, r, x) \in Contextos
<1>1. c.gprs \in [Registradores -> Palavras] /\ c.pc \in Palavras
  BY DEF Contextos
<1>2. \A x \in Palavras : [c.gprs EXCEPT ![r] = x] \in [Registradores -> Palavras]
  BY <1>1
<1>3. c = [pc |-> c.pc, gprs |-> c.gprs]
  BY DEF Contextos
<1>4. \A x \in Palavras : ComReg(c, r, x) = [pc |-> c.pc, gprs |-> [c.gprs EXCEPT ![r] = x]]
  BY <1>3 DEF ComReg, Contextos
<1>5. QED BY <1>1, <1>2, <1>4 DEF Contextos

LEMMA SaltaTipo ==
    ASSUME NEW c \in Contextos, NEW x \in Palavras
    PROVE  [c EXCEPT !.pc = x] \in Contextos
BY DEF Contextos

LEMMA SeguinteTipo ==
    ASSUME NEW c \in Contextos
    PROVE  Seguinte(c) \in Contextos
<1>1. c.pc + 1 \in Int
  BY DEF Contextos, Palavras
<1>2. (c.pc + 1) % virtual_mem_size \in Palavras
  BY <1>1, Corta
<1>3. QED BY <1>2 DEF Seguinte, Contextos

\* The result of arithmetic is a word.
LEMMA UlaTipo ==
    ASSUME NEW op \in OpcodeUla, NEW a \in Palavras, NEW b \in Palavras,
           op = "Div" => b # 0
    PROVE  Ula(op, a, b) \in Palavras
<1>1. a \in Nat /\ b \in Nat /\ a < virtual_mem_size
  BY Tamanho DEF Palavras
<1>2. a + b \in Int /\ a - b \in Int /\ a * b \in Int
  <2>1. \A x, y \in Nat : x * y \in Int
    OBVIOUS
  <2>2. QED BY <1>1, <2>1
<1>3. /\ (a + b) % virtual_mem_size \in Palavras
      /\ (a - b) % virtual_mem_size \in Palavras
      /\ (a * b) % virtual_mem_size \in Palavras
  BY <1>2, Corta
<1>4. ASSUME b # 0 PROVE a \div b \in Palavras
  <2>1. b * virtual_mem_size >= virtual_mem_size
    <3>1. \A x, y \in Nat : x # 0 => x * y >= y
      OBVIOUS
    <3>2. QED BY <1>1, <1>4, <3>1, Tamanho
  <2>2. a < b * virtual_mem_size /\ b \in Nat \ {0}
    <3>1. \A x, y \in Nat : x * y \in Nat
      OBVIOUS
    <3>2. QED BY <1>1, <1>4, <2>1, <3>1, Tamanho
  <2>3. QED BY <1>1, <2>2, Quociente, Tamanho DEF Palavras
<1>5. 0 \in Palavras /\ 1 \in Palavras
  BY Tamanho DEF Palavras
<1>6. CASE op = "Add"
  BY <1>3, <1>6 DEF Ula
<1>7. CASE op = "Sub"
  BY <1>3, <1>7 DEF Ula
<1>8. CASE op = "Mul"
  BY <1>3, <1>8 DEF Ula
<1>9. CASE op = "Div"
  BY <1>4, <1>9 DEF Ula
<1>10. CASE op = "Cmp_equal"
  BY <1>5, <1>10 DEF Ula
<1>11. CASE op = "Cmp_neq"
  BY <1>5, <1>11 DEF Ula
<1>12. QED BY <1>6, <1>7, <1>8, <1>9, <1>10, <1>11 DEF OpcodeUla

\* An instruction that raises nothing leaves a context.
LEMMA ExecutadaTipo ==
    ASSUME NEW c \in Contextos, NEW i \in Instrucoes, NEW lido \in Palavras,
           i.op \in OpcodeUla \cup OpcodeI \cup {"Load", "Store"}, ~ DivideZero(c, i)
    PROVE  Executada(c, i, lido) \in Contextos
<1>1. /\ i.dest \in Registradores /\ i.op1 \in Registradores /\ i.op2 \in Registradores
      /\ i.imed \in Palavras
  BY DEF Instrucoes
<1>2. Seguinte(c) \in Contextos
  BY SeguinteTipo
<1>3. CASE i.op \in OpcodeUla
  <2>1. c.gprs[i.op1] \in Palavras /\ c.gprs[i.op2] \in Palavras
    BY <1>1, Registrador
  <2>2. Ula(i.op, c.gprs[i.op1], c.gprs[i.op2]) \in Palavras
    BY <1>3, <2>1, UlaTipo DEF DivideZero
  <2>3. Executada(c, i, lido)
          = ComReg(Seguinte(c), i.dest, Ula(i.op, c.gprs[i.op1], c.gprs[i.op2]))
    BY <1>3 DEF Executada, OpcodeUla
  <2>4. QED BY <1>1, <1>2, <2>2, <2>3, Registrador
<1>4. CASE i.op = "Load"
  <2>1. Executada(c, i, lido) = ComReg(Seguinte(c), i.dest, lido)
    BY <1>4 DEF Executada, OpcodeUla
  <2>2. QED BY <1>1, <1>2, <2>1, Registrador
<1>5. CASE i.op = "Mov"
  <2>1. Executada(c, i, lido) = ComReg(Seguinte(c), i.dest, i.imed)
    BY <1>5 DEF Executada, OpcodeUla
  <2>2. QED BY <1>1, <1>2, <2>1, Registrador
<1>6. CASE i.op = "Jump"
  <2>1. Executada(c, i, lido) = [c EXCEPT !.pc = i.imed]
    BY <1>6 DEF Executada, OpcodeUla
  <2>2. QED BY <1>1, <2>1, SaltaTipo
<1>7. CASE i.op = "Jump_cond"
  <2>1. Executada(c, i, lido) \in {[c EXCEPT !.pc = i.imed], Seguinte(c)}
    BY <1>7 DEF Executada, OpcodeUla
  <2>2. QED BY <1>1, <1>2, <2>1, SaltaTipo
<1>8. CASE i.op = "Store"
  <2>1. Executada(c, i, lido) = Seguinte(c)
    BY <1>8 DEF Executada, OpcodeUla
  <2>2. QED BY <1>2, <2>1
<1>9. QED BY <1>3, <1>4, <1>5, <1>6, <1>7, <1>8 DEF OpcodeI

\* The pages of a program hold words.
LEMMA CodigoTipo ==
    ASSUME NEW codigo \in Seq(Palavras), NEW v \in Nat
    PROVE  PaginaDeCodigo(codigo, v) \in Valores
<1>1. ASSUME NEW o \in 0 .. page_size - 1
      PROVE  (IF v * page_size + o < Len(codigo) THEN codigo[v * page_size + o + 1] ELSE 0)
                \in Palavras
  <2>1. 0 \in Palavras
    BY Tamanho DEF Palavras
  <2>2. v * page_size \in Nat
    <3>1. \A x, y \in Nat : x * y \in Nat
      OBVIOUS
    <3>2. QED BY <3>1, Tamanho
  <2>3. o \in Nat /\ Len(codigo) \in Nat
    BY Tamanho
  <2>4. ASSUME v * page_size + o < Len(codigo)
        PROVE  v * page_size + o + 1 \in 1 .. Len(codigo)
    BY <2>2, <2>3, <2>4
  <2>5. QED BY <2>1, <2>4
<1>2. QED BY <1>1 DEF PaginaDeCodigo, Valores

\* What the CPU finds in memory when the page is there.
LEMMA MemoriaTipo ==
    ASSUME PP!TypeOK, cpu_tabela \in Processos, NEW vaddr \in Palavras
    PROVE  /\ Memoria(vaddr) \in Palavras
           /\ Entrada(vaddr) \in PP!PageTableEntry
           /\ pmem[Entrada(vaddr).PhyFrameID] \in Valores
<1>1. Pagina(vaddr) \in Paginas /\ Desloc(vaddr) \in 0 .. page_size - 1
  BY Enderecos
<1>2. Entrada(vaddr) \in PP!PageTableEntry
  BY <1>1 DEF PP!TypeOK, Entrada, PP!Paginas, Paginas
<1>3. Entrada(vaddr).PhyFrameID \in PP!Quadros
  BY <1>2 DEF PP!PageTableEntry
<1>4. pmem[Entrada(vaddr).PhyFrameID] \in Valores
  BY <1>3 DEF PP!TypeOK, Valores
<1>5. Memoria(vaddr) \in Palavras
  BY <1>1, <1>4 DEF Memoria, Palavra, Valores
<1>6. QED BY <1>2, <1>4, <1>5

\* Setting a word of a page leaves a page.
LEMMA ComPalavraTipo ==
    ASSUME NEW quadro \in Valores, NEW vaddr \in Palavras, NEW x \in Palavras
    PROVE  ComPalavra(quadro, vaddr, x) \in Valores
BY Enderecos DEF ComPalavra, Valores

\* The CPU decodes an instruction, and what it raises is about an address.
LEMMA CicloTipo ==
    ASSUME PP!TypeOK, cpu_tabela \in Processos, cpu_contexto \in Contextos
    PROVE  /\ instrucao \in Instrucoes
           /\ \A r \in Registradores : gpr(r) \in Palavras
           /\ \A e \in excecoes : e.vaddr \in Palavras
<1>1. pc \in Palavras
  BY DEF pc, Contextos
<1>2. instrucao \in Instrucoes
  <2>1. Memoria(pc) \in Palavras
    BY <1>1, MemoriaTipo
  <2>2. QED BY <2>1, CpuAssumption DEF instrucao
<1>3. \A r \in Registradores : gpr(r) \in Palavras
  BY Registrador DEF gpr
<1>4. \A vaddr, permissao : \A e \in AcessoFalha(vaddr, permissao) : e.vaddr = vaddr
  BY DEF AcessoFalha
<1>5. ASSUME NEW a \in Acessos(cpu_contexto, instrucao)
      PROVE  a[1] \in Palavras
  <2>1. instrucao.op1 \in Registradores
    BY <1>2 DEF Instrucoes
  <2>2. cpu_contexto.gprs[instrucao.op1] \in Palavras
    BY <2>1, Registrador
  <2>3. QED BY <1>5, <2>2 DEF Acessos
<1>6. ASSUME NEW e \in excecoes
      PROVE  e.vaddr \in Palavras
  <2>1. CASE AcessoFalha(pc, "Executable") # {}
    BY <1>1, <1>4, <1>6, <2>1 DEF excecoes
  <2>2. CASE AcessoFalha(pc, "Executable") = {} /\ instrucao.op = "Invalida"
    BY <1>1, <1>6, <2>2 DEF excecoes
  <2>3. CASE AcessoFalha(pc, "Executable") = {} /\ instrucao.op # "Invalida"
    <3>1. excecoes = UNION {AcessoFalha(a[1], a[2]) : a \in Acessos(cpu_contexto, instrucao)}
      BY <2>3 DEF excecoes
    <3>2. PICK a \in Acessos(cpu_contexto, instrucao) : e \in AcessoFalha(a[1], a[2])
      BY <1>6, <3>1
    <3>3. QED BY <1>4, <1>5, <3>2
  <2>4. QED BY <2>1, <2>2, <2>3
<1>7. QED BY <1>2, <1>3, <1>6

-----------------------------------------------------------------------------
(***************************************************************************)
(* The definitions of Escalonador and Paging that Kernel uses are those the *)
(* proofs are about: E and EP, P and PP, are the same modules with the same *)
(* parameters.                                                              *)
(***************************************************************************)

LEMMA MesmasListas ==
    /\ E!rodando = EP!rodando /\ E!funcionando = EP!funcionando
    /\ E!tempo_sistema = EP!tempo_sistema
    /\ \A s, A : E!Filtra(s, A) = EP!Filtra(s, A)
    /\ \A s : E!ToSet(s) = EP!ToSet(s)
    /\ \A s, e : E!RemoveFirst(s, e) = EP!RemoveFirst(s, e)
    /\ \A p : E!Acorda(p) = EP!Acorda(p)
    /\ \A n : E!Alvo(n) = EP!Alvo(n)
<1>1. E!rodando = EP!rodando
  BY DEF E!rodando, EP!rodando
<1>2. E!funcionando = EP!funcionando
  BY DEF E!funcionando, EP!funcionando
<1>3. E!tempo_sistema = EP!tempo_sistema
  BY DEF E!tempo_sistema, EP!tempo_sistema
<1>4. \A s, A : E!Filtradas(s, A) = EP!Filtradas(s, A)
  BY DEF E!Filtradas, EP!Filtradas, E!Mais, EP!Mais
<1>5. \A s, A : E!Filtra(s, A) = EP!Filtra(s, A)
  BY <1>4 DEF E!Filtra, EP!Filtra
<1>6. \A s : E!ToSet(s) = EP!ToSet(s)
  BY DEF E!ToSet, EP!ToSet
<1>7. \A s, e : E!RemoveFirst(s, e) = EP!RemoveFirst(s, e)
  BY DEF E!RemoveFirst, EP!RemoveFirst, E!RemoveAt, EP!RemoveAt, E!SelectInSeq, EP!SelectInSeq,
         E!Min, EP!Min
<1>8. \A p : E!Acorda(p) = EP!Acorda(p)
  BY <1>3 DEF E!Acorda, EP!Acorda
<1>9. \A n : E!encontrar_por_pid(n) = EP!encontrar_por_pid(n)
  BY <1>5 DEF E!encontrar_por_pid, EP!encontrar_por_pid
<1>10. \A n : E!Alvo(n) = EP!Alvo(n)
  BY <1>1, <1>9 DEF E!Alvo, EP!Alvo
<1>11. QED BY <1>1, <1>2, <1>3, <1>5, <1>6, <1>7, <1>8, <1>10

\* What the steps of Escalonador have in common.
LEMMA MesmasTrocas ==
    /\ \A novos, estados, atual, salvos, ficam :
          E!configurar_proximo_processo(novos, estados, atual, salvos, ficam)
             = EP!configurar_proximo_processo(novos, estados, atual, salvos, ficam)
    /\ \A novos, dormindo, atual, ficam :
          E!tratar_timer_com(novos, dormindo, atual, ficam)
             = EP!tratar_timer_com(novos, dormindo, atual, ficam)
    /\ \A p, nome, atual, novos, ficam :
          E!load_program(p, nome, atual, novos, ficam)
             = EP!load_program(p, nome, atual, novos, ficam)
    /\ \A p : E!Apaga(p) = EP!Apaga(p)
<1>1. \A novos, estados, atual, salvos, ficam :
          E!configurar_proximo_processo(novos, estados, atual, salvos, ficam)
             = EP!configurar_proximo_processo(novos, estados, atual, salvos, ficam)
  BY DEF E!configurar_proximo_processo, EP!configurar_proximo_processo, E!fila_com, EP!fila_com,
         E!salvar_contexto, EP!salvar_contexto
<1>2. \A a : E!estados_acordados(a) = EP!estados_acordados(a)
  BY MesmasListas DEF E!estados_acordados, EP!estados_acordados
<1>3. \A novos, dormindo, atual, ficam :
          E!tratar_timer_com(novos, dormindo, atual, ficam)
             = EP!tratar_timer_com(novos, dormindo, atual, ficam)
  BY MesmasListas, <1>1, <1>2 DEF E!tratar_timer_com, EP!tratar_timer_com,
     E!acordados_no_fim, EP!acordados_no_fim
<1>4. \A p, nome, atual, novos, ficam :
          E!load_program(p, nome, atual, novos, ficam)
             = EP!load_program(p, nome, atual, novos, ficam)
  BY DEF E!load_program, EP!load_program, E!pid_novo, EP!pid_novo, E!cpu_livre, EP!cpu_livre
<1>5. \A p : E!Apaga(p) = EP!Apaga(p)
  BY DEF E!Apaga, EP!Apaga
<1>6. QED BY <1>1, <1>3, <1>4, <1>5

\* The steps of Escalonador.
LEMMA MesmosPassos ==
    /\ \A c : E!Executa(c) => EP!Executa(c)
    /\ E!tratar_timer => EP!tratar_timer
    /\ E!PassaSegundo => EP!PassaSegundo
    /\ E!syscall_0_fechar_processo => EP!syscall_0_fechar_processo
    /\ \A s, c : E!syscall_6_dormir_processo(s, c) => EP!syscall_6_dormir_processo(s, c)
    /\ \A p : E!ComandoLoad(p) => EP!ComandoLoad(p)
    /\ E!ComandoLoadFalha => EP!ComandoLoadFalha
    /\ E!ComandoComExcecao => EP!ComandoComExcecao
    /\ \A n : E!kill_process_pid(n) => EP!kill_process_pid(n)
    /\ E!kill_process => EP!kill_process
    /\ E!ComandoExit => EP!ComandoExit
<1>1. \A c : E!Executa(c) => EP!Executa(c)
  BY MesmasListas DEF E!Executa, EP!Executa
<1>2. E!tratar_timer => EP!tratar_timer
  BY MesmasListas, MesmasTrocas DEF E!tratar_timer, EP!tratar_timer
<1>3. E!PassaSegundo => EP!PassaSegundo
  BY DEF E!PassaSegundo, EP!PassaSegundo
<1>4. E!syscall_0_fechar_processo => EP!syscall_0_fechar_processo
  BY MesmasListas, MesmasTrocas DEF E!syscall_0_fechar_processo, EP!syscall_0_fechar_processo,
     E!remover_processo, EP!remover_processo
<1>5. \A s, c : E!syscall_6_dormir_processo(s, c) => EP!syscall_6_dormir_processo(s, c)
  BY MesmasListas, MesmasTrocas DEF E!syscall_6_dormir_processo, EP!syscall_6_dormir_processo,
     E!ate, EP!ate
<1>6. \A p : E!ComandoLoad(p) => EP!ComandoLoad(p)
  BY MesmasListas, MesmasTrocas DEF E!ComandoLoad, EP!ComandoLoad
<1>7. E!ComandoLoadFalha => EP!ComandoLoadFalha
  BY MesmasListas DEF E!ComandoLoadFalha, EP!ComandoLoadFalha, E!pid_novo, EP!pid_novo
<1>8. E!ComandoComExcecao => EP!ComandoComExcecao
  BY MesmasListas DEF E!ComandoComExcecao, EP!ComandoComExcecao
<1>9. \A n : E!kill_process_pid(n) => EP!kill_process_pid(n)
  BY MesmasListas, MesmasTrocas DEF E!kill_process_pid, EP!kill_process_pid,
     E!remover_processo, EP!remover_processo
<1>10. E!kill_process => EP!kill_process
  BY MesmasListas, <1>9 DEF E!kill_process, EP!kill_process
<1>11. E!ComandoExit => EP!ComandoExit
  BY MesmasListas DEF E!ComandoExit, EP!ComandoExit
<1>12. QED BY <1>1, <1>2, <1>3, <1>4, <1>5, <1>6, <1>7, <1>8, <1>9, <1>10, <1>11

\* The tables and the frames.
LEMMA MesmosQuadros ==
    /\ P!Quadros = PP!Quadros /\ P!Paginas = PP!Paginas /\ P!EntradaNula = PP!EntradaNula
    /\ PP!Paginas = Paginas
    /\ \A f : P!EntradaCodigo(f) = PP!EntradaCodigo(f)
    /\ \A p, S : P!QuadrosDe(p, S) = PP!QuadrosDe(p, S)
    /\ \A p, S : P!TabelaSem(p, S) = PP!TabelaSem(p, S)
    /\ \A S : P!Cardinality(S) = PP!Cardinality(S)
    /\ \A f : P!Ordem(f) = PP!Ordem(f)
    /\ \A S : P!libera_paginas(S) = PP!libera_paginas(S)
    /\ \A n, fr : P!aloca_paginas(n, fr) = PP!aloca_paginas(n, fr)
    /\ \A p, s, n : P!Cabe(p, s, n) = PP!Cabe(p, s, n)
<1>1. P!Quadros = PP!Quadros /\ P!Paginas = PP!Paginas /\ P!EntradaNula = PP!EntradaNula
      /\ PP!Paginas = Paginas
  BY DEF P!Quadros, PP!Quadros, P!Paginas, PP!Paginas, P!EntradaNula, PP!EntradaNula, Paginas
<1>2. \A f : P!EntradaCodigo(f) = PP!EntradaCodigo(f)
  BY DEF P!EntradaCodigo, PP!EntradaCodigo, P!Permissoes, PP!Permissoes
<1>3. \A p, S : P!QuadrosDe(p, S) = PP!QuadrosDe(p, S)
  BY DEF P!QuadrosDe, PP!QuadrosDe
<1>4. \A p, S : P!TabelaSem(p, S) = PP!TabelaSem(p, S)
  BY <1>1 DEF P!TabelaSem, PP!TabelaSem
<1>5. \A f, g : P!Antes(f, g) = PP!Antes(f, g)
  BY DEF P!Antes, PP!Antes
<1>6. \A S : P!Cardinality(S) = PP!Cardinality(S)
  BY DEF P!Cardinality, PP!Cardinality
<1>7. \A f : P!Ordem(f) = PP!Ordem(f)
  BY <1>5, <1>6 DEF P!Ordem, PP!Ordem
<1>8. \A S : P!libera_paginas(S) = PP!libera_paginas(S)
  BY <1>6 DEF P!libera_paginas, PP!libera_paginas
<1>9. \A n, fr : P!aloca_paginas(n, fr) = PP!aloca_paginas(n, fr)
  BY <1>7 DEF P!aloca_paginas, PP!aloca_paginas
<1>10. \A p, s, n : P!Cabe(p, s, n) = PP!Cabe(p, s, n)
  BY DEF P!Cabe, PP!Cabe
<1>11. QED BY <1>1, <1>2, <1>3, <1>4, <1>6, <1>8, <1>9, <1>10, <1>7

\* The steps of Paging.
LEMMA MesmasPaginas ==
    /\ \A p, n, codigo : P!CarregaCodigo(p, n, codigo) => PP!CarregaCodigo(p, n, codigo)
    /\ \A n, codigo : P!CarregaCodigoSemQuadros(n, codigo)
                         => PP!CarregaCodigoSemQuadros(n, codigo)
    /\ \A p : P!libera_tabela_paginas(p) => PP!libera_tabela_paginas(p)
    /\ \A p, v, x : P!vmem_write(p, v, x) => PP!vmem_write(p, v, x)
    /\ \A p, v : P!page_fault(p, v) => PP!page_fault(p, v)
    /\ \A p, s, n : P!aloca_dinamicamente(p, s, n) => PP!aloca_dinamicamente(p, s, n)
    /\ \A p, s : P!desaloca_a_partir_de_tal_endereco(p, s)
                    => PP!desaloca_a_partir_de_tal_endereco(p, s)
<1>1. \A n, codigo : P!MemoriaCarregada(n, codigo) = PP!MemoriaCarregada(n, codigo)
  BY MesmosQuadros DEF P!MemoriaCarregada, PP!MemoriaCarregada
<1>2. \A p, n, codigo : P!CarregaCodigo(p, n, codigo) => PP!CarregaCodigo(p, n, codigo)
  BY MesmosQuadros, <1>1 DEF P!CarregaCodigo, PP!CarregaCodigo, P!EntradaCodigo,
     PP!EntradaCodigo, P!Permissoes, PP!Permissoes, P!EntradaNula, PP!EntradaNula, P!Paginas,
     PP!Paginas
<1>3. \A n, codigo : P!CarregaCodigoSemQuadros(n, codigo)
                        => PP!CarregaCodigoSemQuadros(n, codigo)
  BY MesmosQuadros, <1>1 DEF P!CarregaCodigoSemQuadros, PP!CarregaCodigoSemQuadros
<1>4. \A p : P!libera_tabela_paginas(p) => PP!libera_tabela_paginas(p)
  BY MesmosQuadros DEF P!libera_tabela_paginas, PP!libera_tabela_paginas
<1>5. \A p, v, x : P!vmem_write(p, v, x) => PP!vmem_write(p, v, x)
  BY DEF P!vmem_write, PP!vmem_write, P!quadrosVars, PP!quadrosVars
<1>6. \A p, v : P!page_fault(p, v) => PP!page_fault(p, v)
  BY MesmosQuadros DEF P!page_fault, PP!page_fault, P!ComQuadro, PP!ComQuadro
<1>7. \A p, s, n : P!aloca_dinamicamente(p, s, n) => PP!aloca_dinamicamente(p, s, n)
  BY MesmosQuadros DEF P!aloca_dinamicamente, PP!aloca_dinamicamente, P!EntradaDados,
     PP!EntradaDados, P!quadrosVars, PP!quadrosVars
<1>8. \A p, s : P!desaloca_a_partir_de_tal_endereco(p, s)
                   => PP!desaloca_a_partir_de_tal_endereco(p, s)
  BY MesmosQuadros DEF P!desaloca_a_partir_de_tal_endereco,
     PP!desaloca_a_partir_de_tal_endereco, P!AreaDe, PP!AreaDe
<1>9. QED BY <1>2, <1>3, <1>4, <1>5, <1>6, <1>7, <1>8

-----------------------------------------------------------------------------
(* The inductive invariant *)

\* The processes that have a page table are those that exist.
VivasSaoVivos == funcionando => vivas = vivos

IdadeTipo == tempo_criacao \in [Processos -> Palavras]

KInv == EP!FirmeInv /\ PP!IInv /\ VivasSaoVivos /\ IdadeTipo

\* What a step of the kernel is to its parts.
Simula ==
    /\ EP!Next \/ UNCHANGED EP!vars
    /\ PP!Next \/ UNCHANGED PP!vars
    /\ funcionando' => vivas' = vivos'

\* What is known when the CPU or the kernel runs.
LEMMA Rodando ==
    ASSUME KInv, funcionando
    PROVE  /\ rodando \in Processos /\ cpu_tabela = rodando /\ rodando \in vivas
           /\ cpu_contexto \in Contextos
           /\ PP!TypeOK /\ vivas = vivos /\ vivas \subseteq Processos
           /\ agora \in Nat /\ pid \in [Processos -> Nat]
<1>1. EP!funcionando
  BY MesmasListas DEF funcionando
<1>2. EP!FirmeInv /\ PP!TypeOK
  BY DEF KInv, PP!IInv
<1>3. /\ EP!rodando \in Processos /\ EP!rodando \in vivos /\ EP!rodando = cpu_tabela
      /\ cpu_contexto \in Contextos
  BY <1>1, <1>2, EscalonadorVale, EP!Fatos
<1>4. rodando = EP!rodando
  BY DEF rodando, EP!rodando
<1>5. vivas = vivos
  BY DEF KInv, VivasSaoVivos
<1>6. EP!TypeOK
  BY <1>2 DEF EP!FirmeInv, EP!GInv
<1>7. agora \in Nat /\ pid \in [Processos -> Nat]
  <2>1. agora \in 0 .. MAX_TEMPO /\ pid \in [Processos -> 0 .. PID_MOD - 1]
    BY <1>6 DEF EP!TypeOK
  <2>2. QED BY <2>1, KernelAssumption
<1>8. vivas \subseteq Processos
  BY <1>2 DEF PP!TypeOK
<1>9. QED BY <1>2, <1>3, <1>4, <1>5, <1>7, <1>8

LEMMA Numeradas == 0 \in Registradores /\ 1 \in Registradores /\ 2 \in Registradores
                   /\ 0 \in Palavras /\ 1 \in Palavras
BY CpuAssumption, Tamanho DEF Registradores, Palavras

\* What the CPU reads is typed.
LEMMA Lendo ==
    ASSUME KInv, funcionando
    PROVE  /\ instrucao \in Instrucoes
           /\ \A r \in Registradores : gpr(r) \in Palavras
           /\ \A e \in excecoes : e.vaddr \in Palavras
           /\ Seguinte(cpu_contexto) \in Contextos
           /\ \A vaddr \in Palavras : /\ Memoria(vaddr) \in Palavras
                                      /\ pmem[Entrada(vaddr).PhyFrameID] \in Valores
           /\ \A i \in {1, 2, 0} : gpr(i) \in Palavras
<1>1. PP!TypeOK /\ cpu_tabela \in Processos /\ cpu_contexto \in Contextos
  BY Rodando
<1>2. /\ instrucao \in Instrucoes
      /\ \A r \in Registradores : gpr(r) \in Palavras
      /\ \A e \in excecoes : e.vaddr \in Palavras
  BY <1>1, CicloTipo
<1>3. Seguinte(cpu_contexto) \in Contextos
  BY <1>1, SeguinteTipo
<1>4. \A vaddr \in Palavras : /\ Memoria(vaddr) \in Palavras
                              /\ pmem[Entrada(vaddr).PhyFrameID] \in Valores
  BY <1>1, MemoriaTipo
<1>5. QED BY <1>2, <1>3, <1>4, Numeradas

LEMMA RespostaTipo ==
    ASSUME NEW c \in Contextos, NEW r1 \in Palavras, NEW r2 \in Palavras
    PROVE  ComReg(ComReg(Seguinte(c), 1, r1), 2, r2) \in Contextos
<1>1. Seguinte(c) \in Contextos
  BY SeguinteTipo
<1>2. ComReg(Seguinte(c), 1, r1) \in Contextos
  BY <1>1, Numeradas, Registrador
<1>3. QED BY <1>2, Numeradas, Registrador

LEMMA SemMudar ==
    /\ SemPaginacao => UNCHANGED PP!vars /\ vivas' = vivas
    /\ UNCHANGED processosVars => UNCHANGED EP!vars /\ vivos' = vivos
<1>1. SemPaginacao => UNCHANGED PP!vars /\ vivas' = vivas
  BY DEF SemPaginacao, memoriaVars, PP!vars
<1>2. UNCHANGED processosVars => UNCHANGED EP!vars /\ vivos' = vivos
  BY DEF processosVars, EP!vars
<1>3. QED BY <1>1, <1>2

\* An instruction is a step of Escalonador.
LEMMA ExecutaPasso ==
    ASSUME NEW c \in Contextos, E!Executa(c)
    PROVE  EP!Next /\ vivos' = vivos
<1>1. EP!Executa(c)
  BY MesmosPassos
<1>2. EP!Next
  BY <1>1 DEF EP!Next
<1>3. vivos' = vivos
  BY DEF E!Executa
<1>4. QED BY <1>2, <1>3

\* So is the answer of a system call.
LEMMA RespondePasso ==
    ASSUME KInv, funcionando, NEW r1 \in Palavras, NEW r2 \in Palavras, Responde(r1, r2)
    PROVE  EP!Next /\ vivos' = vivos
<1> DEFINE c == ComReg(ComReg(Seguinte(cpu_contexto), 1, r1), 2, r2)
<1>1. cpu_contexto \in Contextos
  BY Rodando
<1>2. c \in Contextos
  BY <1>1, RespostaTipo
<1>3. E!Executa(c)
  BY DEF Responde
<1> HIDE DEF c
<1>4. QED BY <1>2, <1>3, ExecutaPasso

\* The end of a process gives its page table back, a step of Paging.
LEMMA LiberaPasso ==
    ASSUME KInv, NEW p, P!libera_tabela_paginas(p)
    PROVE  PP!Next /\ vivas' = vivas \ {p} /\ p \in vivas
<1>1. PP!libera_tabela_paginas(p)
  BY MesmasPaginas
<1>2. p \in vivas /\ vivas' = vivas \ {p}
  BY <1>1 DEF PP!libera_tabela_paginas
<1>3. p \in Processos
  BY <1>2 DEF KInv, PP!IInv, PP!TypeOK
<1>4. PP!Next
  BY <1>1, <1>3 DEF PP!Next
<1>5. QED BY <1>2, <1>4

\* kill is a step of Escalonador that ends the process it finds.
LEMMA KillPasso ==
    ASSUME NEW n, E!kill_process_pid(n), n \in Numeros \/ E!kill_process
    PROVE  EP!Next /\ vivos' = vivos \ {E!Alvo(n)}
<1>1. EP!kill_process_pid(n)
  BY MesmosPassos
<1>2. ASSUME n \in Numeros PROVE EP!Next
  BY <1>1, <1>2 DEF EP!Next
<1>3. ASSUME E!kill_process PROVE EP!Next
  <2>1. EP!kill_process
    BY <1>3, MesmosPassos
  <2>2. QED BY <2>1 DEF EP!Next
<1>4. vivos' = vivos \ {E!Alvo(n)}
  BY DEF E!kill_process_pid, E!Apaga
<1>5. EP!Next
  BY <1>2, <1>3
<1>6. QED BY <1>4, <1>5

\* The instructions that are not system calls.
LEMMA InstrucaoSimula ==
    ASSUME KInv, Executa \/ Store \/ DivisaoPorZero
    PROVE  Simula
<1>0. funcionando
  BY DEF Executa, Store, DivisaoPorZero, Cumpre
<1>1. /\ instrucao \in Instrucoes /\ instrucao.op1 \in Registradores
      /\ instrucao.op2 \in Registradores /\ cpu_contexto \in Contextos
      /\ gpr(instrucao.op1) \in Palavras /\ gpr(instrucao.op2) \in Palavras
  <2>1. instrucao \in Instrucoes /\ cpu_contexto \in Contextos
    BY <1>0, Lendo, Rodando
  <2>2. instrucao.op1 \in Registradores /\ instrucao.op2 \in Registradores
    BY <2>1 DEF Instrucoes
  <2>3. QED BY <1>0, <2>1, <2>2, Lendo
<1>2. CASE Executa
  <2> DEFINE lido == IF instrucao.op = "Load" THEN Memoria(gpr(instrucao.op1)) ELSE 0
             c == Executada(cpu_contexto, instrucao, lido)
  <2>1. lido \in Palavras
    BY <1>0, <1>1, Lendo, Numeradas
  <2>2. /\ instrucao.op \in OpcodeUla \cup OpcodeI \cup {"Load", "Store"}
        /\ ~ DivideZero(cpu_contexto, instrucao)
        /\ E!Executa(c) /\ SemPaginacao
    BY <1>2 DEF Executa, Cumpre
  <2> HIDE DEF lido
  <2>3. c \in Contextos
    BY <1>1, <2>1, <2>2, ExecutadaTipo
  <2> HIDE DEF c
  <2>4. EP!Next /\ vivos' = vivos
    BY <2>2, <2>3, ExecutaPasso
  <2>5. QED BY <1>0, <2>2, <2>4, SemMudar, Rodando DEF Simula
<1>3. CASE Store
  <2> DEFINE c == Executada(cpu_contexto, instrucao, 0)
             vaddr == gpr(instrucao.op1)
             x == ComPalavra(pmem[Entrada(vaddr).PhyFrameID], vaddr, gpr(instrucao.op2))
  <2>1. /\ instrucao.op \in OpcodeUla \cup OpcodeI \cup {"Load", "Store"}
        /\ ~ DivideZero(cpu_contexto, instrucao)
        /\ E!Executa(c) /\ P!vmem_write(cpu_tabela, Pagina(vaddr), x)
    BY <1>3 DEF Store, Cumpre, DivideZero
  <2>2. c \in Contextos
    BY <1>1, <2>1, Numeradas, ExecutadaTipo
  <2>3. vaddr \in Palavras /\ Pagina(vaddr) \in PP!Paginas
    BY <1>1, Enderecos, MesmosQuadros
  <2>4. x \in Valores
    <3>1. pmem[Entrada(vaddr).PhyFrameID] \in Valores
      BY <1>0, <2>3, Lendo
    <3>2. QED BY <1>1, <3>1, ComPalavraTipo
  <2> HIDE DEF c, vaddr, x
  <2>5. EP!Next /\ vivos' = vivos
    BY <2>1, <2>2, ExecutaPasso
  <2>6. PP!vmem_write(cpu_tabela, Pagina(vaddr), x)
    BY <2>1, MesmasPaginas
  <2>7. PP!Next
    BY <1>0, <2>3, <2>4, <2>6, Rodando DEF PP!Next, Valores
  <2>8. vivas' = vivas
    BY <2>6 DEF PP!vmem_write
  <2>9. QED BY <1>0, <2>5, <2>7, <2>8, Rodando DEF Simula
<1>4. CASE DivisaoPorZero
  <2>1. E!ComandoComExcecao /\ SemPaginacao
    BY <1>4 DEF DivisaoPorZero
  <2>2. EP!Next
    BY <2>1, MesmosPassos DEF EP!Next
  <2>3. vivos' = vivos
    BY <2>1 DEF E!ComandoComExcecao
  <2>4. QED BY <1>0, <2>1, <2>2, <2>3, SemMudar, Rodando DEF Simula
<1>5. QED BY <1>2, <1>3, <1>4

\* A page fault that is served is a step of Paging alone.
LEMMA FaltaSimula ==
    ASSUME KInv, FaltaServida
    PROVE  Simula
<1>1. PICK e \in excecoes : /\ funcionando
                            /\ P!page_fault(rodando, Pagina(e.vaddr))
                            /\ UNCHANGED processosVars
  BY DEF FaltaServida
<1>2. PP!page_fault(rodando, Pagina(e.vaddr))
  BY <1>1, MesmasPaginas
<1>3. Pagina(e.vaddr) \in PP!Paginas
  BY <1>1, Lendo, Enderecos, MesmosQuadros
<1>4. PP!Next
  BY <1>1, <1>2, <1>3, Rodando DEF PP!Next
<1>5. vivas' = vivas
  BY <1>2 DEF PP!page_fault
<1>6. QED BY <1>1, <1>4, <1>5, SemMudar, Rodando DEF Simula

\* An exception that ends the process: the object and the page table are of the same one.
LEMMA FatalSimula ==
    ASSUME KInv, ExcecaoFatal
    PROVE  Simula
<1>1. PICK e \in excecoes : /\ funcionando
                            /\ E!tratar_excecao(e.tipo)
                            /\ Libera(E!Alvo(pid[rodando]))
  BY DEF ExcecaoFatal
<1>2. E!kill_process
  BY <1>1 DEF E!tratar_excecao
<1>3. E!kill_process_pid(pid[rodando])
  BY <1>2 DEF E!kill_process, E!rodando, rodando
<1>4. EP!Next /\ vivos' = vivos \ {E!Alvo(pid[rodando])}
  BY <1>2, <1>3, KillPasso
<1>5. PP!Next /\ vivas' = vivas \ {E!Alvo(pid[rodando])}
  BY <1>1, LiberaPasso DEF Libera
<1>6. QED BY <1>1, <1>4, <1>5, Rodando DEF Simula

\* A system call runs while the kernel does.
LEMMA ChamadaRoda ==
    ASSUME KInv, NEW codigo, Chamada(codigo)
    PROVE  funcionando
BY DEF Chamada, Cumpre

LEMMA FechaSimula ==
    ASSUME KInv, syscall_0_fechar_processo
    PROVE  Simula
<1>1. funcionando /\ E!syscall_0_fechar_processo /\ P!libera_tabela_paginas(rodando)
  BY ChamadaRoda DEF syscall_0_fechar_processo, Libera
<1>2. EP!Next
  BY <1>1, MesmosPassos DEF EP!Next
<1>3. vivos' = vivos \ {rodando}
  BY <1>1 DEF E!syscall_0_fechar_processo, E!Apaga, E!rodando, rodando
<1>4. PP!Next /\ vivas' = vivas \ {rodando}
  BY <1>1, LiberaPasso
<1>5. QED BY <1>1, <1>2, <1>3, <1>4, Rodando DEF Simula

\* Printing leaves the memory and the processes as they are.
LEMMA ImprimeSimula ==
    ASSUME KInv, syscall_1_imprimir_string \/ ImprimeOutra
    PROVE  Simula
<1>1. funcionando
  BY ChamadaRoda DEF syscall_1_imprimir_string, ImprimeOutra
<1>2. E!Executa(Seguinte(cpu_contexto)) /\ SemPaginacao
  BY DEF syscall_1_imprimir_string, ImprimeOutra, Imprime
<1>3. EP!Next /\ vivos' = vivos
  BY <1>1, <1>2, Lendo, ExecutaPasso
<1>4. QED BY <1>1, <1>2, <1>3, SemMudar, Rodando DEF Simula

LEMMA AlocaSimula ==
    ASSUME KInv, syscall_4_alocar_memoria
    PROVE  Simula
<1> DEFINE n == paginas_necessarias(gpr(1))
<1>1. funcionando
  BY ChamadaRoda DEF syscall_4_alocar_memoria
<1>2. gpr(1) \in Palavras /\ gpr(2) \in Palavras /\ n \in 0 .. ptes_per_table
  <2>1. gpr(1) \in Palavras /\ gpr(2) \in Palavras
    BY <1>1, Lendo
  <2>2. gpr(1) \in Nat
    BY <2>1 DEF Palavras
  <2>3. QED BY <2>1, <2>2, PaginasDeCodigo
<1>3. SemEndereco \in Palavras
  BY Tamanho DEF SemEndereco, Palavras
<1>4. \/ \E r1, r2 \in Palavras : Responde(r1, r2) /\ SemPaginacao
      \/ \E s \in Paginas : /\ n # 0 /\ P!aloca_dinamicamente(rodando, s, n)
                            /\ Responde(1, s * page_size)
  BY <1>2, <1>3, Numeradas DEF syscall_4_alocar_memoria
<1> HIDE DEF n
<1>5. CASE \E r1, r2 \in Palavras : Responde(r1, r2) /\ SemPaginacao
  <2>1. EP!Next /\ vivos' = vivos /\ SemPaginacao
    BY <1>1, <1>5, RespondePasso
  <2>2. QED BY <1>1, <2>1, SemMudar, Rodando DEF Simula
<1>6. ASSUME NEW s \in Paginas, n # 0, P!aloca_dinamicamente(rodando, s, n),
             Responde(1, s * page_size)
      PROVE  Simula
  <2>1. s * page_size \in Palavras
    BY PrimeiroEndereco
  <2>2. EP!Next /\ vivos' = vivos
    BY <1>1, <1>6, <2>1, Numeradas, RespondePasso
  <2>3. PP!aloca_dinamicamente(rodando, s, n)
    BY <1>6, MesmasPaginas
  <2>4. n \in 1 .. ptes_per_table /\ s \in PP!Paginas
    BY <1>2, <1>6, Tamanho, MesmosQuadros
  <2>5. PP!Next
    BY <1>1, <2>3, <2>4, Rodando DEF PP!Next
  <2>6. vivas' = vivas
    BY <2>3 DEF PP!aloca_dinamicamente
  <2>7. QED BY <1>1, <2>2, <2>5, <2>6, Rodando DEF Simula
<1>7. QED BY <1>4, <1>5, <1>6

LEMMA DesalocaSimula ==
    ASSUME KInv, syscall_5_desalocar_memoria
    PROVE  Simula
<1>1. funcionando
  BY ChamadaRoda DEF syscall_5_desalocar_memoria
<1>2. gpr(1) \in Palavras /\ gpr(2) \in Palavras
  BY <1>1, Lendo
<1>3. CASE NaArea(gpr(1))
  <2>1. /\ P!desaloca_a_partir_de_tal_endereco(rodando, Pagina(gpr(1)))
        /\ Responde(1, gpr(2))
    BY <1>3 DEF syscall_5_desalocar_memoria
  <2>2. PP!desaloca_a_partir_de_tal_endereco(rodando, Pagina(gpr(1)))
    BY <2>1, MesmasPaginas
  <2>3. Pagina(gpr(1)) \in PP!Paginas
    BY <1>2, Enderecos, MesmosQuadros
  <2>4. PP!Next
    BY <1>1, <2>2, <2>3, Rodando DEF PP!Next
  <2>5. vivas' = vivas
    BY <2>2 DEF PP!desaloca_a_partir_de_tal_endereco
  <2>6. EP!Next /\ vivos' = vivos
    BY <1>1, <1>2, <2>1, Numeradas, RespondePasso
  <2>7. QED BY <1>1, <2>4, <2>5, <2>6, Rodando DEF Simula
<1>4. CASE ~NaArea(gpr(1))
  <2>1. Responde(0, gpr(2)) /\ SemPaginacao
    BY <1>4 DEF syscall_5_desalocar_memoria
  <2>2. EP!Next /\ vivos' = vivos
    BY <1>1, <1>2, <2>1, Numeradas, RespondePasso
  <2>3. QED BY <1>1, <2>1, <2>2, SemMudar, Rodando DEF Simula
<1>5. QED BY <1>3, <1>4

LEMMA DormeSimula ==
    ASSUME KInv, syscall_6_dormir_processo
    PROVE  Simula
<1>1. /\ funcionando /\ SemPaginacao
      /\ E!syscall_6_dormir_processo(gpr(1), Seguinte(cpu_contexto))
  BY ChamadaRoda DEF syscall_6_dormir_processo
<1>2. gpr(1) \in Palavras /\ Seguinte(cpu_contexto) \in Contextos
  BY <1>1, Lendo
<1>3. EP!syscall_6_dormir_processo(gpr(1), Seguinte(cpu_contexto))
  BY <1>1, MesmosPassos
<1>4. EP!Next
  BY <1>2, <1>3 DEF EP!Next
<1>5. vivos' = vivos
  BY <1>1 DEF E!syscall_6_dormir_processo
<1>6. QED BY <1>1, <1>4, <1>5, SemMudar, Rodando DEF Simula

\* The time of the system is an integer, and the time when a process was created a word.
LEMMA TempoTipo ==
    ASSUME agora \in Nat
    PROVE  E!tempo_sistema \in Int
<1> DEFINE m == virtual_mem_size * virtual_mem_size
           a == ((agora + 0) % virtual_mem_size) - 0
<1>1. m \in Nat \ {0}
  <2>1. \A x \in Nat \ {0} : x * x \in Nat \ {0}
    OBVIOUS
  <2>2. QED BY <2>1, Tamanho
<1>2. a \in Int
  <2>1. (agora + 0) % virtual_mem_size \in Palavras
    BY Corta
  <2>2. QED BY <2>1 DEF Palavras
<1>3. E!tempo_sistema = a % m
  BY DEF E!tempo_sistema
<1> HIDE DEF a, m
<1>4. a % m \in 0 .. m - 1
  BY <1>1, <1>2, Restos
<1>5. QED BY <1>1, <1>3, <1>4

LEMMA TempoSimula ==
    ASSUME KInv, syscall_7_retornar_tempo_iniciacao
    PROVE  Simula
<1>1. /\ funcionando /\ SemPaginacao
      /\ Responde((E!tempo_sistema - tempo_criacao[rodando]) % virtual_mem_size, gpr(2))
  BY ChamadaRoda DEF syscall_7_retornar_tempo_iniciacao
<1>2. rodando \in Processos /\ agora \in Nat
  BY <1>1, Rodando
<1>3. E!tempo_sistema - tempo_criacao[rodando] \in Int
  BY <1>2, TempoTipo DEF KInv, IdadeTipo, Palavras
<1>4. (E!tempo_sistema - tempo_criacao[rodando]) % virtual_mem_size \in Palavras
  BY <1>3, Corta
<1>5. gpr(2) \in Palavras
  BY <1>1, Lendo
<1>6. EP!Next /\ vivos' = vivos
  BY <1>1, <1>4, <1>5, RespondePasso
<1>7. QED BY <1>1, <1>6, SemMudar, Rodando DEF Simula

LEMMA DesconhecidaSimula ==
    ASSUME KInv, syscall_desconhecida
    PROVE  Simula
<1>1. funcionando /\ SemPaginacao /\ E!Executa(Seguinte(cpu_contexto))
  BY DEF syscall_desconhecida, Cumpre
<1>2. EP!Next /\ vivos' = vivos
  BY <1>1, Lendo, ExecutaPasso
<1>3. QED BY <1>1, <1>2, SemMudar, Rodando DEF Simula

\* A load that succeeds creates the process and its page table; one that fails neither.
LEMMA LoadSimula ==
    ASSUME KInv, NEW codigo \in Programas, ComandoLoad(codigo)
    PROVE  Simula
<1> DEFINE n == paginas_necessarias(Len(codigo))
<1>1. codigo \in Seq(Palavras)
  BY KernelAssumption
<1>2. n \in 0 .. ptes_per_table
  <2>1. Len(codigo) \in Nat
    BY <1>1
  <2>2. QED BY <2>1, PaginasDeCodigo
<1>3. Codigo(codigo) \in PP!Codigos(n)
  <2>1. \A v \in 0 .. n - 1 : PaginaDeCodigo(codigo, v) \in Valores
    <3>1. \A v \in 0 .. n - 1 : v \in Nat
      BY <1>2
    <3>2. QED BY <1>1, <3>1, CodigoTipo
  <2>2. QED BY <2>1 DEF Codigo, PP!Codigos, Valores
<1>4. \/ \E p \in Processos : E!ComandoLoad(p) /\ P!CarregaCodigo(p, n, Codigo(codigo))
      \/ E!ComandoLoadFalha /\ P!CarregaCodigoSemQuadros(n, Codigo(codigo))
  BY DEF ComandoLoad
<1> HIDE DEF n
<1>5. ASSUME NEW p \in Processos, E!ComandoLoad(p), P!CarregaCodigo(p, n, Codigo(codigo))
      PROVE  Simula
  <2>1. EP!ComandoLoad(p) /\ PP!CarregaCodigo(p, n, Codigo(codigo))
    BY <1>5, MesmosPassos, MesmasPaginas
  <2>2. EP!Next
    BY <2>1 DEF EP!Next
  <2>3. PP!Next
    BY <1>2, <1>3, <2>1 DEF PP!Next
  <2>4. funcionando /\ vivos' = vivos \cup {p}
    BY <1>5 DEF E!ComandoLoad, E!load_program, funcionando
  <2>5. vivas' = vivas \cup {p}
    BY <2>1 DEF PP!CarregaCodigo
  <2>6. QED BY <2>2, <2>3, <2>4, <2>5, Rodando DEF Simula
<1>6. ASSUME E!ComandoLoadFalha, P!CarregaCodigoSemQuadros(n, Codigo(codigo))
      PROVE  Simula
  <2>1. EP!ComandoLoadFalha /\ PP!CarregaCodigoSemQuadros(n, Codigo(codigo))
    BY <1>6, MesmosPassos, MesmasPaginas
  <2>2. EP!Next
    BY <2>1 DEF EP!Next
  <2>3. PP!Next
    BY <1>2, <1>3, <2>1 DEF PP!Next
  <2>4. funcionando /\ vivos' = vivos
    BY <1>6 DEF E!ComandoLoadFalha, funcionando
  <2>5. vivas' = vivas
    BY <2>1 DEF PP!CarregaCodigoSemQuadros
  <2>6. QED BY <2>2, <2>3, <2>4, <2>5, Rodando DEF Simula
<1>7. QED BY <1>4, <1>5, <1>6

LEMMA KillSimula ==
    ASSUME KInv, ComandoKill
    PROVE  Simula
<1>1. PICK n : /\ E!kill_process_pid(n) /\ Libera(E!Alvo(n))
               /\ n \in Numeros \/ E!kill_process
  <2>1. CASE \E n \in Numeros : E!kill_process_pid(n) /\ Libera(E!Alvo(n))
    BY <2>1
  <2>2. CASE E!kill_process /\ Libera(E!Alvo(pid[rodando]))
    <3>1. E!kill_process_pid(pid[rodando])
      BY <2>2 DEF E!kill_process, E!rodando, rodando
    <3>2. QED BY <2>2, <3>1
  <2>3. QED BY <2>1, <2>2 DEF ComandoKill
<1>2. funcionando
  BY <1>1 DEF E!kill_process_pid, funcionando
<1>3. EP!Next /\ vivos' = vivos \ {E!Alvo(n)}
  BY <1>1, KillPasso
<1>4. PP!Next /\ vivas' = vivas \ {E!Alvo(n)}
  BY <1>1, LiberaPasso DEF Libera
<1>5. QED BY <1>2, <1>3, <1>4, Rodando DEF Simula

\* The end of the program, the timer and the clock.
LEMMA DemaisSimulam ==
    ASSUME KInv, ComandoFim \/ tratar_timer \/ PassaSegundo
    PROVE  Simula
<1>1. CASE ComandoFim
  <2>1. (E!ComandoExit \/ E!ComandoComExcecao) /\ SemPaginacao
    BY <1>1 DEF ComandoFim
  <2>2. EP!Next
    BY <2>1, MesmosPassos DEF EP!Next
  <2>3. ligado' = FALSE
    BY <2>1 DEF E!ComandoExit, E!ComandoComExcecao
  <2>4. ~ funcionando'
    BY <2>3 DEF funcionando, E!funcionando
  <2>5. QED BY <2>1, <2>2, <2>4, SemMudar DEF Simula
<1>2. CASE tratar_timer
  <2>1. E!tratar_timer /\ SemPaginacao
    BY <1>2 DEF tratar_timer
  <2>2. EP!Next
    BY <2>1, MesmosPassos DEF EP!Next
  <2>3. funcionando /\ vivos' = vivos
    BY <2>1 DEF E!tratar_timer, funcionando
  <2>4. QED BY <2>1, <2>2, <2>3, SemMudar, Rodando DEF Simula
<1>3. CASE PassaSegundo
  <2>1. E!PassaSegundo /\ SemPaginacao
    BY <1>3 DEF PassaSegundo
  <2>2. EP!Next
    BY <2>1, MesmosPassos DEF EP!Next
  <2>3. vivos' = vivos /\ (funcionando' => funcionando)
    BY <2>1 DEF E!PassaSegundo, funcionando, E!funcionando
  <2>4. QED BY <2>1, <2>2, <2>3, SemMudar, Rodando DEF Simula
<1>4. QED BY <1>1, <1>2, <1>3

\* Every step of the kernel is a step of its parts.
LEMMA PassoSimula ==
    ASSUME KInv, [Next]_vars
    PROVE  Simula
<1>1. CASE UNCHANGED vars
  <2>1. UNCHANGED processosVars /\ SemPaginacao
    BY <1>1 DEF vars, SemPaginacao
  <2>2. ligado' = ligado /\ falha' = falha
    BY <2>1 DEF processosVars
  <2>3. funcionando' => funcionando
    BY <2>2 DEF funcionando, E!funcionando
  <2>4. QED BY <2>1, <2>3, SemMudar, Rodando DEF Simula
<1>2. CASE CicloMudo
  BY <1>2, InstrucaoSimula, FaltaSimula, FatalSimula, FechaSimula, AlocaSimula, DesalocaSimula,
     DormeSimula, TempoSimula, DesconhecidaSimula DEF CicloMudo
<1>3. CASE Ciclo
  BY <1>2, <1>3, ImprimeSimula DEF Ciclo
<1>4. CASE Comando
  BY <1>4, LoadSimula, KillSimula, DemaisSimulam DEF Comando
<1>5. QED BY <1>1, <1>3, <1>4, DemaisSimulam DEF Next

\* A process that is created gets a word for its time.
LEMMA IdadePasso ==
    ASSUME KInv, [Next]_vars
    PROVE  IdadeTipo'
<1>1. CASE UNCHANGED vars
  BY <1>1 DEF KInv, IdadeTipo, vars
<1>2. CASE Criados
  <2>1. agora \in Nat
    <3>1. EP!TypeOK
      BY DEF KInv, EP!FirmeInv, EP!GInv
    <3>2. QED BY <3>1, KernelAssumption DEF EP!TypeOK
  <2>2. E!tempo_sistema % virtual_mem_size \in Palavras
    BY <2>1, TempoTipo, Corta
  <2>3. 0 \in Palavras
    BY Numeradas
  <2>4. QED BY <1>2, <2>2, <2>3 DEF KInv, IdadeTipo, Criados
<1>3. QED BY <1>1, <1>2 DEF Next

LEMMA KInvPasso == KInv /\ [Next]_vars => KInv'
<1> SUFFICES ASSUME KInv, [Next]_vars PROVE KInv'
  OBVIOUS
<1>1. /\ [EP!Next]_(EP!vars) /\ [PP!Next]_(PP!vars)
      /\ funcionando' => vivas' = vivos'
  BY PassoSimula DEF Simula
<1>2. EP!FirmeInv'
  <2>1. EP!FirmeInv /\ [EP!Next]_(EP!vars) => EP!FirmeInv'
    BY EscalonadorVale, EP!FirmePasso
  <2>2. QED BY <1>1, <2>1 DEF KInv
<1>3. PP!IInv'
  <2>1. PP!IInv /\ [PP!Next]_(PP!vars) => PP!IInv'
    BY PagingVale, PP!PassoIInv
  <2>2. QED BY <1>1, <2>1 DEF KInv
<1>4. VivasSaoVivos'
  BY <1>1 DEF VivasSaoVivos
<1>5. QED BY <1>2, <1>3, <1>4, IdadePasso DEF KInv

\* The pages of idle.bin are in the first frames.
LEMMA InitPaginas == Init => PP!IInv
<1> SUFFICES ASSUME Init PROVE PP!IInv
  OBVIOUS
<1> DEFINE n == paginas_necessarias(Len(IdleBin))
           Prim == 0 .. n - 1
<1>1. /\ n \in Nat /\ n <= ptes_per_table /\ n <= PAGINAS_TOTAIS
      /\ ptes_per_table \in Nat \ {0} /\ PAGINAS_TOTAIS \in Nat \ {0}
  <2>1. IdleBin \in Seq(Palavras)
    BY KernelAssumption
  <2>2. Len(IdleBin) \in Nat
    BY <2>1
  <2>3. n \in 0 .. ptes_per_table
    BY <2>2, PaginasDeCodigo
  <2>4. QED BY <2>3, Tamanho, KernelAssumption
<1>2. /\ paginas_livres = PP!Quadros \ Prim
      /\ prox_pag_livre = n /\ paginas_em_uso = n
      /\ vivas = {Idle}
      /\ tabela = [p \in Processos |-> [v \in PP!Paginas |->
                      IF p = Idle /\ v < n THEN PP!EntradaCodigo(v) ELSE PP!EntradaNula]]
      /\ alocacoes = [p \in Processos |-> [v \in PP!Paginas |-> 0]]
      /\ pmem = [f \in PP!Quadros |-> IF f < n THEN PaginaDeCodigo(IdleBin, f) ELSE PaginaZero]
      /\ escrita = <<>>
  <2>1. \A f : P!EntradaCodigo(f) = PP!EntradaCodigo(f)
    BY MesmosQuadros
  <2>2. P!Quadros = PP!Quadros /\ P!EntradaNula = PP!EntradaNula /\ PP!Paginas = Paginas
    BY MesmosQuadros
  <2>3. QED BY <2>1, <2>2 DEF Init
<1> HIDE DEF n
<1>3. /\ PP!Quadros = 0 .. PAGINAS_TOTAIS - 1 /\ PP!Paginas = 0 .. ptes_per_table - 1
      /\ Prim \subseteq PP!Quadros
  BY <1>1 DEF PP!Quadros, PP!Paginas
<1>4. PP!EntradaNula \in PP!PageTableEntry /\ ~ PP!EntradaNula.Present /\ ~ PP!EntradaNula.Foo
  BY PagingVale, PP!Entradas
<1>5. ASSUME NEW f \in Prim
      PROVE  /\ PP!EntradaCodigo(f) \in PP!PageTableEntry /\ PP!EntradaCodigo(f).Present
             /\ ~ PP!EntradaCodigo(f).Foo /\ PP!EntradaCodigo(f).PhyFrameID = f
  BY <1>3, <1>5 DEF PP!EntradaCodigo, PP!PageTableEntry
<1>6. ASSUME NEW p \in Processos, NEW v \in PP!Paginas
      PROVE  /\ tabela[p][v] \in PP!PageTableEntry /\ ~ tabela[p][v].Foo
             /\ tabela[p][v].Present <=> p = Idle /\ v \in Prim
             /\ tabela[p][v].Present => tabela[p][v].PhyFrameID = v
             /\ p # Idle => tabela[p][v] = PP!EntradaNula
  <2>1. CASE p = Idle /\ v < n
    <3>1. v \in Prim
      BY <1>1, <1>3, <2>1
    <3>2. tabela[p][v] = PP!EntradaCodigo(v)
      BY <1>2, <2>1
    <3>3. QED BY <1>5, <2>1, <3>1, <3>2
  <2>2. CASE ~ (p = Idle /\ v < n)
    <3>1. tabela[p][v] = PP!EntradaNula
      BY <1>2, <2>2
    <3>2. ~ (p = Idle /\ v \in Prim)
      BY <1>1, <2>2
    <3>3. QED BY <1>4, <3>1, <3>2
  <2>3. QED BY <2>1, <2>2
<1>7. PP!TypeOK
  <2>1. /\ paginas_livres \in SUBSET PP!Quadros /\ prox_pag_livre \in 0 .. PAGINAS_TOTAIS
        /\ paginas_em_uso \in 0 .. PAGINAS_TOTAIS
    BY <1>1, <1>2
  <2>2. vivas \in SUBSET Processos
    BY <1>2, KernelAssumption
  <2>3. tabela \in [Processos -> [PP!Paginas -> PP!PageTableEntry]]
    BY <1>2, <1>6
  <2>4. alocacoes \in [Processos -> [PP!Paginas -> 0 .. ptes_per_table]]
    BY <1>1, <1>2
  <2>5. pmem \in [PP!Quadros -> Valores]
    <3>1. PaginaZero \in Valores
      BY PagingVale DEF PP!PagingAssumption, Valores
    <3>2. IdleBin \in Seq(Palavras)
      BY KernelAssumption
    <3>3. \A f \in PP!Quadros : PaginaDeCodigo(IdleBin, f) \in Valores
      BY <1>3, <3>2, CodigoTipo
    <3>4. QED BY <1>2, <3>1, <3>3
  <2>6. escrita \in PP!Escritas
    BY <1>2, PagingVale, PP!EscritasTipo
  <2>7. QED BY <2>1, <2>2, <2>3, <2>4, <2>5, <2>6 DEF PP!TypeOK, Valores
<1>8. PP!QuadroExclusivo
  BY <1>6 DEF PP!QuadroExclusivo
<1>9. PP!LivresExatos
  <2>1. ASSUME NEW f \in PP!Quadros
        PROVE  PP!Mapeado(f) <=> f \in Prim
    <3>1. ASSUME f \in Prim
          PROVE  Idle \in Processos /\ f \in PP!Paginas
      BY <1>1, <1>3, <3>1, KernelAssumption
    <3>2. QED BY <1>6, <3>1 DEF PP!Mapeado
  <2>2. QED BY <1>2, <2>1 DEF PP!LivresExatos
<1>10. PP!ContadorExato
  <2>1. PP!Quadros \ paginas_livres = Prim
    BY <1>2, <1>3
  <2>2. Cardinality(Prim) = n
    <3>1. Cardinality(0 .. n - 1) = IF 0 > n - 1 THEN 0 ELSE n - 1 - 0 + 1
      BY <1>1, FS_Interval
    <3>2. QED BY <1>1, <3>1
  <2>3. PP!Cardinality(Prim) = Cardinality(Prim)
    BY DEF PP!Cardinality, Cardinality
  <2>4. QED BY <1>2, <2>1, <2>2, <2>3 DEF PP!ContadorExato
<1>11. PP!SoVivasMapeiam
  BY <1>2, <1>6 DEF PP!SoVivasMapeiam
<1>12. PP!DicaExata
  BY <1>1, <1>2, <1>3 DEF PP!DicaExata
<1>13. PP!AreasCoerentes
  <2>1. ASSUME NEW p \in Processos, NEW s \in PP!Paginas
        PROVE  PP!AreaDe(p, s) = {}
    <3>1. alocacoes[p][s] = 0
      BY <1>2
    <3>2. QED BY <1>3, <3>1 DEF PP!AreaDe
  <2>2. QED BY <1>6, <2>1 DEF PP!AreasCoerentes
<1>14. QED
  BY <1>7, <1>8, <1>9, <1>10, <1>11, <1>12, <1>13 DEF PP!IInv

LEMMA InitEscalona == Init => EP!Init
<1> SUFFICES ASSUME Init PROVE EP!Init
  OBVIOUS
<1>1. E!Init
  BY DEF Init
<1>2. QED BY <1>1 DEF E!Init, EP!Init

LEMMA InitKInv == Init => KInv
<1> SUFFICES ASSUME Init PROVE KInv
  OBVIOUS
<1>1. EP!FirmeInv
  <2>1. EP!Init => EP!FirmeInv
    BY EscalonadorVale, EP!InitFirme
  <2>2. QED BY <2>1, InitEscalona
<1>2. PP!IInv
  BY InitPaginas
<1>3. VivasSaoVivos
  BY DEF VivasSaoVivos, Init, E!Init
<1>4. IdadeTipo
  BY Numeradas DEF IdadeTipo, Init
<1>5. QED BY <1>1, <1>2, <1>3, <1>4 DEF KInv

-----------------------------------------------------------------------------
(* Theorems *)

\* The inductive invariant: the lists and the page tables are coherent, and the processes
\* that have a page table are those that exist, after every handler of os.cpp.
THEOREM KernelInvariante == Spec => []KInv
BY InitKInv, KInvPasso, PTL DEF Spec

\* The variables of the kernel, of its processes and of its memory keep their types.
THEOREM TiposDoKernel == Spec => []TypeOK
<1>1. KInv => TypeOK
  <2> SUFFICES ASSUME KInv PROVE TypeOK
    OBVIOUS
  <2>1. EP!TypeOK
    BY DEF KInv, EP!FirmeInv, EP!GInv
  <2>2. E!TypeOK
    BY <2>1 DEF EP!TypeOK, E!TypeOK, EP!rodando, E!rodando
  <2>3. PP!TypeOK
    BY DEF KInv, PP!IInv
  <2>4. P!TypeOK
    BY <2>3 DEF PP!TypeOK, P!TypeOK, PP!Quadros, P!Quadros, PP!Paginas, P!Paginas,
       PP!PageTableEntry, P!PageTableEntry, PP!Permissoes, P!Permissoes, PP!Escritas, P!Escritas
  <2>5. QED BY <2>2, <2>4 DEF TypeOK, KInv, IdadeTipo
<1>2. QED BY <1>1, KernelInvariante, PTL

\* A process has a page table exactly while it exists, the CPU translates with that of
\* the one that runs, and the frames in use are those the tables of the processes map: a
\* process that ends, by system call, exception or kill, and a load that fails half way
\* leave neither a table nor a frame behind (os.cpp, process_manager.cpp, paging.cpp).
THEOREM TabelasDosVivos == Spec => []TabelaEnquantoVive
<1>1. KInv => TabelaEnquantoVive
  <2> SUFFICES ASSUME KInv, funcionando
      PROVE  /\ vivas = vivos /\ cpu_tabela = rodando /\ rodando \in vivas
             /\ P!Quadros \ paginas_livres = UNION {P!QuadrosDe(p, Paginas) : p \in vivos}
    BY DEF TabelaEnquantoVive
  <2>1. vivas = vivos /\ cpu_tabela = rodando /\ rodando \in vivas
    BY Rodando
  <2>2. PP!SemVazamento
    <3>1. PP!IInv => PP!SemVazamento
      BY PagingVale, PP!QuadrosEmUso
    <3>2. QED BY <3>1 DEF KInv
  <2>3. PP!Quadros \ paginas_livres = UNION {PP!QuadrosDe(p, PP!Paginas) : p \in vivas}
    BY <2>2 DEF PP!SemVazamento
  <2>4. P!Quadros = PP!Quadros /\ PP!Paginas = Paginas
    BY MesmosQuadros
  <2>5. \A p \in vivos : P!QuadrosDe(p, Paginas) = PP!QuadrosDe(p, PP!Paginas)
    BY <2>4, MesmosQuadros
  <2>6. {P!QuadrosDe(p, Paginas) : p \in vivos} = {PP!QuadrosDe(p, PP!Paginas) : p \in vivas}
    BY <2>1, <2>5
  <2>7. QED BY <2>1, <2>3, <2>4, <2>6
<1>2. QED BY <1>1, KernelInvariante, PTL

\* The kernel runs processes as module Escalonador says, so what is proved of it holds
\* of the kernel: system calls that touch memory, page faults that are served and loads
\* that find no frame are, to the lists of os.cpp, plain instructions or nothing.
THEOREM KernelEscalona == Spec => EP!Spec
<1>1. KInv /\ [Next]_vars => [EP!Next]_(EP!vars)
  BY PassoSimula DEF Simula
<1>2. Spec => EP!Init /\ [][EP!Next]_(EP!vars)
  BY <1>1, InitEscalona, KernelInvariante, PTL DEF Spec
<1>3. QED BY <1>2 DEF EP!Spec

\* In the whole kernel too a process gets the CPU only as the first of those that
\* waited, whatever its system calls and its page faults (configurar_proximo_processo).
THEOREM KernelPorOrdem == Spec => EP!OrdemDeChegada
<1>1. EP!Spec => EP!OrdemDeChegada
  BY EscalonadorVale, EP!PorOrdemDeChegada
<1>2. QED BY <1>1, KernelEscalona

\* The kernel uses memory only as module Paging says, from a boot that has loaded idle.bin:
\* whatever it runs, no frame is mapped by two entries, none is lost, a search never misses
\* a free frame, and the areas of a process do not overlap (os.cpp, paging.cpp).
THEOREM KernelPagina ==
    Spec => /\ [](PP!QuadroExclusivo /\ PP!SemVazamento /\ PP!DicaExata /\ PP!AreasCoerentes)
            /\ [][PP!Next]_(PP!vars)
<1>1. KInv => PP!QuadroExclusivo /\ PP!SemVazamento /\ PP!DicaExata /\ PP!AreasCoerentes
  <2>1. PP!IInv => PP!SemVazamento
    BY PagingVale, PP!QuadrosEmUso
  <2>2. QED BY <2>1 DEF KInv, PP!IInv
<1>2. KInv /\ [Next]_vars => [PP!Next]_(PP!vars)
  BY PassoSimula DEF Simula
<1>3. QED BY <1>1, <1>2, KernelInvariante, PTL DEF Spec

=============================================================================
