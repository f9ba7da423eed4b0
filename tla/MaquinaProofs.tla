---------------------------- MODULE MaquinaProofs ----------------------------
(***************************************************************************)
(* The kernel gives each process a machine of its own: Kernel implements     *)
(* MaquinaPrivada.  What a process sees of its registers is where its last   *)
(* instruction left it (ContextoPreservado, from EscalonadorProofs), and     *)
(* what it sees of its memory is what MemoriaPrivada says of Paging (from    *)
(* PagingProofs); the proofs here are about the instructions themselves.     *)
(***************************************************************************)
EXTENDS KernelProofs

-----------------------------------------------------------------------------
(* The mapping *)

\* What the variables of MaquinaPrivada stand for.
Ctx == [p \in Processos |-> IF p \notin usuarios THEN ContextoNovo
                            ELSE IF p = rodando THEN cpu_contexto ELSE contexto[p]]
Mem == [p \in Processos |-> IF p \in usuarios THEN P!Leitura[p]
                            ELSE [v \in Paginas |-> NaoMapeada]]
Areas == [p \in Processos |-> IF p \in usuarios THEN alocacoes[p]
                              ELSE [v \in Paginas |-> 0]]
Saida == IF saida # <<>> /\ saida[1] = Idle THEN <<>> ELSE saida

Vazia   == [v \in Paginas |-> NaoMapeada]
SemArea == [v \in Paginas |-> 0]

\* The operators of Cpu mean the same in both modules.
LEMMA MesmaCpu ==
    /\ Maquina!virtual_mem_size = virtual_mem_size /\ Maquina!Palavras = Palavras
    /\ Maquina!Paginas = Paginas /\ Maquina!PaginaZero = PaginaZero
    /\ Maquina!ContextoNovo = ContextoNovo
    /\ \A x : Maquina!Pagina(x) = Pagina(x) /\ Maquina!Desloc(x) = Desloc(x)
    /\ \A q, x : Maquina!Palavra(q, x) = Palavra(q, x)
    /\ \A q, x, y : Maquina!ComPalavra(q, x, y) = ComPalavra(q, x, y)
    /\ \A c : Maquina!Seguinte(c) = Seguinte(c)
    /\ \A c, r, x : Maquina!ComReg(c, r, x) = ComReg(c, r, x)
    /\ \A c, i : Maquina!DivideZero(c, i) = DivideZero(c, i)
    /\ \A c, i, l : Maquina!Executada(c, i, l) = Executada(c, i, l)
    /\ \A n : Maquina!paginas_necessarias(n) = paginas_necessarias(n)
    /\ \A codigo, v : Maquina!PaginaDeCodigo(codigo, v) = PaginaDeCodigo(codigo, v)
<1>1. Maquina!virtual_mem_size = virtual_mem_size /\ Maquina!Palavras = Palavras
      /\ Maquina!Paginas = Paginas /\ Maquina!PaginaZero = PaginaZero
  BY DEF Maquina!virtual_mem_size, virtual_mem_size, Maquina!Palavras, Palavras, Maquina!Paginas,
         Paginas, Maquina!PaginaZero, PaginaZero
<1>2. Maquina!ContextoNovo = ContextoNovo
  BY DEF Maquina!ContextoNovo, ContextoNovo, Maquina!Registradores, Registradores
<1>3. \A x : Maquina!Pagina(x) = Pagina(x) /\ Maquina!Desloc(x) = Desloc(x)
  BY DEF Maquina!Pagina, Pagina, Maquina!Desloc, Desloc
<1>4. \A q, x : Maquina!Palavra(q, x) = Palavra(q, x)
  BY <1>3 DEF Maquina!Palavra, Palavra
<1>5. \A q, x, y : Maquina!ComPalavra(q, x, y) = ComPalavra(q, x, y)
  BY <1>3 DEF Maquina!ComPalavra, ComPalavra
<1>6. \A c : Maquina!Seguinte(c) = Seguinte(c)
  BY <1>1 DEF Maquina!Seguinte, Seguinte
<1>7. \A c, r, x : Maquina!ComReg(c, r, x) = ComReg(c, r, x)
  BY DEF Maquina!ComReg, ComReg
<1>8. \A c, i : Maquina!DivideZero(c, i) = DivideZero(c, i)
  BY DEF Maquina!DivideZero, DivideZero
<1>9. \A op, a, b : Maquina!Ula(op, a, b) = Ula(op, a, b)
  BY <1>1 DEF Maquina!Ula, Ula
<1>10. \A c, i, l : Maquina!Executada(c, i, l) = Executada(c, i, l)
  BY <1>6, <1>7, <1>9 DEF Maquina!Executada, Executada, Maquina!OpcodeUla, OpcodeUla
<1>11. \A n : Maquina!paginas_necessarias(n) = paginas_necessarias(n)
  BY <1>1 DEF Maquina!paginas_necessarias, paginas_necessarias
<1>12. \A codigo, v : Maquina!PaginaDeCodigo(codigo, v) = PaginaDeCodigo(codigo, v)
  BY DEF Maquina!PaginaDeCodigo, PaginaDeCodigo
<1>13. QED
  BY <1>1, <1>2, <1>3, <1>4, <1>5, <1>6, <1>7, <1>8, <1>10, <1>11, <1>12

\* What each step of MaquinaPrivada is under the mapping.
LEMMA FormaCria ==
    ASSUME NEW p, NEW codigo, p \notin usuarios, usuarios' = usuarios \cup {p},
           Mem' = [Mem EXCEPT ![p] = [v \in Paginas |->
                      IF v < paginas_necessarias(Len(codigo)) THEN PaginaDeCodigo(codigo, v)
                      ELSE NaoMapeada]],
           Saida' = <<>>, Ctx' = Ctx, Areas' = Areas
    PROVE  Maquina!Cria(p, codigo)
<1>1. /\ Maquina!Paginas = Paginas
      /\ \A n : Maquina!paginas_necessarias(n) = paginas_necessarias(n)
      /\ \A v : Maquina!PaginaDeCodigo(codigo, v) = PaginaDeCodigo(codigo, v)
  BY MesmaCpu
<1>2. [v \in Maquina!Paginas |->
          IF v < Maquina!paginas_necessarias(Len(codigo)) THEN Maquina!PaginaDeCodigo(codigo, v)
          ELSE NaoMapeada]
      = [v \in Paginas |->
          IF v < paginas_necessarias(Len(codigo)) THEN PaginaDeCodigo(codigo, v)
          ELSE NaoMapeada]
  BY <1>1
<1>3. QED BY <1>2 DEF Maquina!Cria, Ctx, Mem, Areas, Saida

LEMMA FormaEncerra ==
    ASSUME NEW p, p \in usuarios, usuarios' = usuarios \ {p},
           Ctx' = [Ctx EXCEPT ![p] = ContextoNovo], Mem' = [Mem EXCEPT ![p] = Vazia],
           Areas' = [Areas EXCEPT ![p] = SemArea], Saida' = <<>>
    PROVE  Maquina!Encerra(p)
<1>1. /\ Maquina!Vazia = Vazia /\ Maquina!SemArea = SemArea
      /\ Maquina!ContextoNovo = ContextoNovo
  BY MesmaCpu DEF Maquina!Vazia, Maquina!SemArea, Vazia, SemArea
<1>2. QED BY <1>1 DEF Maquina!Encerra, Ctx, Mem, Areas, Saida

LEMMA FormaDesliga ==
    ASSUME usuarios' = {}, Ctx' = [p \in Processos |-> ContextoNovo],
           Mem' = [p \in Processos |-> Vazia], Areas' = [p \in Processos |-> SemArea],
           Saida' = <<>>
    PROVE  Maquina!Desliga
<1>1. /\ Maquina!Vazia = Vazia /\ Maquina!SemArea = SemArea
      /\ Maquina!ContextoNovo = ContextoNovo
  BY MesmaCpu DEF Maquina!Vazia, Maquina!SemArea, Vazia, SemArea
<1>2. QED BY <1>1 DEF Maquina!Desliga, Ctx, Mem, Areas, Saida

LEMMA FormaInterno ==
    ASSUME usuarios' = usuarios, Ctx' = Ctx, Mem' = Mem, Areas' = Areas, Saida' = <<>>
    PROVE  Maquina!Interno
BY DEF Maquina!Interno, Ctx, Mem, Areas, Saida

\* The instructions that are not system calls.
LEMMA FormaComum ==
    ASSUME NEW p, NEW i, NEW a, a = Ctx[p].gprs[i.op1],
           i.op # "Invalida", ~ DivideZero(Ctx[p], i),
           i.op \in {"Load", "Store"} => Mem[p][Pagina(a)] # NaoMapeada,
           Ctx' = [Ctx EXCEPT ![p] =
               Executada(Ctx[p], i, IF i.op = "Load" THEN Palavra(Mem[p][Pagina(a)], a) ELSE 0)],
           Mem' = IF i.op # "Store" THEN Mem
                  ELSE [Mem EXCEPT ![p][Pagina(a)] = ComPalavra(@, a, Ctx[p].gprs[i.op2])],
           usuarios' = usuarios, Areas' = Areas
    PROVE  Maquina!Comum(p, i)
<1>1. /\ \A x : Maquina!Pagina(x) = Pagina(x)
      /\ \A q, x : Maquina!Palavra(q, x) = Palavra(q, x)
      /\ \A q, x, y : Maquina!ComPalavra(q, x, y) = ComPalavra(q, x, y)
      /\ \A c : Maquina!DivideZero(c, i) = DivideZero(c, i)
      /\ \A c, l : Maquina!Executada(c, i, l) = Executada(c, i, l)
  BY MesmaCpu
<1> DEFINE lido == IF i.op = "Load" THEN Maquina!Em(p, a) ELSE 0
<1>2. Maquina!Em(p, a) = Palavra(Mem[p][Pagina(a)], a)
  BY <1>1 DEF Maquina!Em, Mem
<1>3. Ctx' = [Ctx EXCEPT ![p] = Maquina!Executada(Ctx[p], i, lido)]
  BY <1>1, <1>2
<1>4. Mem' = IF i.op # "Store" THEN Mem
             ELSE [Mem EXCEPT ![p][Maquina!Pagina(a)] =
                      Maquina!ComPalavra(@, a, Ctx[p].gprs[i.op2])]
  BY <1>1
<1>5. ~ Maquina!DivideZero(Ctx[p], i)
  BY <1>1
<1>6. i.op \in {"Load", "Store"} => Mem[p][Maquina!Pagina(a)] # NaoMapeada
  BY <1>1
<1>7. Maquina!Comum(p, i) <=>
         LET c == Ctx[p]  b == c.gprs[i.op1] IN
         /\ i.op # "Invalida" /\ ~ Maquina!DivideZero(c, i)
         /\ i.op \in {"Load", "Store"} => Mem[p][Maquina!Pagina(b)] # NaoMapeada
         /\ Ctx' = [Ctx EXCEPT ![p] =
                Maquina!Executada(c, i, IF i.op = "Load" THEN Maquina!Em(p, b) ELSE 0)]
         /\ Mem' = IF i.op # "Store" THEN Mem
                   ELSE [Mem EXCEPT ![p][Maquina!Pagina(b)] =
                            Maquina!ComPalavra(@, b, c.gprs[i.op2])]
         /\ usuarios' = usuarios /\ Areas' = Areas
  BY DEF Maquina!Comum, Ctx, Mem, Areas
<1>8. QED BY <1>3, <1>4, <1>5, <1>6, <1>7

LEMMA FormaResponde ==
    ASSUME NEW p, NEW r1, NEW r2,
           Ctx' = [Ctx EXCEPT ![p] = ComReg(ComReg(Seguinte(@), 1, r1), 2, r2)]
    PROVE  Maquina!Responde(p, r1, r2)
BY MesmaCpu DEF Maquina!Responde, Ctx

\* The system calls: which they are and what they print.
LEMMA FormaChamada ==
    ASSUME NEW p, NEW codigo, codigo = Ctx[p].gprs[0], codigo # 0, usuarios' = usuarios,
           \/ codigo = 4 /\ Maquina!Aloca(p)
           \/ codigo = 5 /\ Maquina!Desaloca(p)
           \/ /\ codigo = 7 /\ Mem' = Mem /\ Areas' = Areas
              /\ \E x \in Palavras : Maquina!Responde(p, x, Ctx[p].gprs[2])
           \/ /\ codigo \notin {4, 5, 7} /\ Mem' = Mem /\ Areas' = Areas
              /\ Ctx' = [Ctx EXCEPT ![p] = Seguinte(@)],
           \/ codigo = 1 /\ Saida' = <<p, 1, Maquina!Texto(p, Ctx[p].gprs[1])>>
           \/ codigo = 2 /\ Saida' = <<p, 2, <<>>>>
           \/ codigo = 3 /\ Saida' = <<p, 3, <<Ctx[p].gprs[1]>>>>
           \/ codigo \notin {1, 2, 3} /\ Saida' = <<>>
    PROVE  Maquina!Chamada(p)
<1>1. Maquina!Chamada(p) <=>
         LET c == Ctx[p]  cod == c.gprs[0] IN
         /\ CASE cod = 4 -> Maquina!Aloca(p)
              [] cod = 5 -> Maquina!Desaloca(p)
              [] cod = 7 -> /\ \E x \in Maquina!Palavras : Maquina!Responde(p, x, c.gprs[2])
                            /\ Mem' = Mem /\ Areas' = Areas
              [] OTHER   -> /\ cod # 0
                            /\ Ctx' = [Ctx EXCEPT ![p] = Maquina!Seguinte(@)]
                            /\ Mem' = Mem /\ Areas' = Areas
         /\ Saida' = CASE cod = 1 -> <<p, 1, Maquina!Texto(p, c.gprs[1])>>
                       [] cod = 2 -> <<p, 2, <<>>>>
                       [] cod = 3 -> <<p, 3, <<c.gprs[1]>>>>
                       [] OTHER   -> <<>>
         /\ usuarios' = usuarios
  BY DEF Maquina!Chamada, Ctx, Mem, Areas, Saida
<1>2. Maquina!Palavras = Palavras /\ Maquina!Seguinte(Ctx[p]) = Seguinte(Ctx[p])
  BY MesmaCpu
<1>3. Saida' = CASE codigo = 1 -> <<p, 1, Maquina!Texto(p, Ctx[p].gprs[1])>>
                 [] codigo = 2 -> <<p, 2, <<>>>>
                 [] codigo = 3 -> <<p, 3, <<Ctx[p].gprs[1]>>>>
                 [] OTHER   -> <<>>
  OBVIOUS
<1>4. CASE codigo = 4
  BY <1>1, <1>3, <1>4
<1>5. CASE codigo = 5
  BY <1>1, <1>3, <1>5
<1>6. CASE codigo = 7
  BY <1>1, <1>2, <1>3, <1>6
<1>7. CASE codigo \notin {4, 5, 7}
  BY <1>1, <1>2, <1>3, <1>7
<1>8. QED BY <1>4, <1>5, <1>6, <1>7

\* A step of a process is one of an instruction that it can fetch.
LEMMA FormaInstrucao ==
    ASSUME NEW p, NEW i, NEW pv, pv = Ctx[p].pc,
           p \in usuarios, Mem[p][Pagina(pv)] # NaoMapeada, ~ Maquina!EmArea(p, Pagina(pv)),
           i = Decodifica[Palavra(Mem[p][Pagina(pv)], pv)],
           IF i.op = "Syscall" THEN Maquina!Chamada(p) ELSE Maquina!Comum(p, i) /\ Saida' = <<>>
    PROVE  Maquina!Instrucao(p)
<1>1. Maquina!Pagina(pv) = Pagina(pv) /\ Maquina!Palavra(Mem[p][Pagina(pv)], pv)
         = Palavra(Mem[p][Pagina(pv)], pv)
  BY MesmaCpu
<1>2. Maquina!Executavel(p) <=>
         LET v == Maquina!Pagina(Ctx[p].pc) IN
         p \in usuarios /\ Mem[p][v] # NaoMapeada /\ ~ Maquina!EmArea(p, v)
  BY DEF Maquina!Executavel, Ctx, Mem
<1>3. Maquina!Em(p, pv) = Palavra(Mem[p][Pagina(pv)], pv)
  BY <1>1 DEF Maquina!Em, Mem
<1> DEFINE Comum(j) ==
         LET c == Ctx[p]  b == c.gprs[j.op1] IN
         /\ j.op # "Invalida" /\ ~ Maquina!DivideZero(c, j)
         /\ j.op \in {"Load", "Store"} => Mem[p][Maquina!Pagina(b)] # NaoMapeada
         /\ Ctx' = [Ctx EXCEPT ![p] =
                Maquina!Executada(c, j, IF j.op = "Load" THEN Maquina!Em(p, b) ELSE 0)]
         /\ Mem' = IF j.op # "Store" THEN Mem
                   ELSE [Mem EXCEPT ![p][Maquina!Pagina(b)] =
                            Maquina!ComPalavra(@, b, c.gprs[j.op2])]
         /\ usuarios' = usuarios /\ Areas' = Areas
<1>4. Maquina!Instrucao(p) <=>
         /\ Maquina!Executavel(p)
         /\ LET j == Decodifica[Maquina!Em(p, Ctx[p].pc)] IN
            IF j.op = "Syscall" THEN Maquina!Chamada(p) ELSE Comum(j) /\ Saida' = <<>>
  BY DEF Maquina!Instrucao, Maquina!Comum, Ctx, Mem, Areas, Saida
<1>5. Maquina!Executavel(p)
  BY <1>1, <1>2
<1>6. Maquina!Comum(p, i) <=> Comum(i)
  BY DEF Maquina!Comum, Ctx, Mem, Areas
<1>7. i = Decodifica[Maquina!Em(p, Ctx[p].pc)]
  BY <1>3
<1>8. QED BY <1>4, <1>5, <1>6, <1>7

-----------------------------------------------------------------------------
(* What a process sees *)

\* The pages of data are never fetched from.
MInv == KInv /\ PP!DadosNaoExecutam

\* A user has the context its last instruction left, wherever it is.
LEMMA CtxFeito ==
    KInv => Ctx = [p \in Processos |-> IF p \in usuarios THEN feito[p] ELSE ContextoNovo]
<1> SUFFICES ASSUME KInv, NEW p \in Processos, p \in usuarios
             PROVE  (IF p = rodando THEN cpu_contexto ELSE contexto[p]) = feito[p]
  BY DEF Ctx
<1>1. ligado /\ p \in vivos \ {Idle}
  BY DEF usuarios
<1>2. EP!FirmeInv
  BY DEF KInv
<1>3. EP!funcionando
  BY <1>1, <1>2 DEF EP!FirmeInv, EP!IdleFirme, EP!funcionando
<1>4. idle = Idle /\ \A q \in vivos \ {idle} :
                 feito[q] = IF q = EP!rodando THEN cpu_contexto ELSE contexto[q]
  BY <1>2, <1>3, EscalonadorVale, EP!Fatos
<1>5. EP!rodando = rodando
  BY DEF EP!rodando, rodando
<1>6. QED BY <1>1, <1>4, <1>5

\* What the mapping is before and after a step.
LEMMA Visao ==
    /\ KInv => Ctx = [p \in Processos |-> IF p \in usuarios THEN feito[p] ELSE ContextoNovo]
    /\ KInv' => Ctx' = [p \in Processos |-> IF p \in usuarios' THEN feito'[p] ELSE ContextoNovo]
    /\ Mem = [p \in Processos |-> IF p \in usuarios THEN PP!Leitura[p] ELSE Vazia]
    /\ Mem' = [p \in Processos |-> IF p \in usuarios' THEN PP!Leitura'[p] ELSE Vazia]
    /\ Areas = [p \in Processos |-> IF p \in usuarios THEN alocacoes[p] ELSE SemArea]
    /\ Areas' = [p \in Processos |-> IF p \in usuarios' THEN alocacoes'[p] ELSE SemArea]
<1>1. KInv => Ctx = [p \in Processos |-> IF p \in usuarios THEN feito[p] ELSE ContextoNovo]
  BY CtxFeito
<1>2. KInv' => Ctx' = [p \in Processos |-> IF p \in usuarios' THEN feito'[p] ELSE ContextoNovo]
  <2>1. (KInv => Ctx = [p \in Processos |-> IF p \in usuarios THEN feito[p] ELSE ContextoNovo])'
    BY CtxFeito, PTL
  <2>2. QED BY <2>1
<1>3. P!Leitura = PP!Leitura /\ P!Leitura' = PP!Leitura'
  BY DEF P!Leitura, PP!Leitura, P!Paginas, PP!Paginas
<1>4. /\ Mem = [p \in Processos |-> IF p \in usuarios THEN PP!Leitura[p] ELSE Vazia]
      /\ Mem' = [p \in Processos |-> IF p \in usuarios' THEN PP!Leitura'[p] ELSE Vazia]
  BY <1>3 DEF Mem, Vazia
<1>5. /\ Areas = [p \in Processos |-> IF p \in usuarios THEN alocacoes[p] ELSE SemArea]
      /\ Areas' = [p \in Processos |-> IF p \in usuarios' THEN alocacoes'[p] ELSE SemArea]
  BY DEF Areas, SemArea
<1>6. QED BY <1>1, <1>2, <1>4, <1>5

\* The step leaves what q sees as it was.
Igual(q) == feito'[q] = feito[q] /\ PP!Leitura'[q] = PP!Leitura[q] /\ alocacoes'[q] = alocacoes[q]

LEMMA Usuarios == KInv => usuarios \subseteq Processos /\ Idle \notin usuarios
<1> SUFFICES ASSUME KInv PROVE usuarios \subseteq Processos /\ Idle \notin usuarios
  OBVIOUS
<1>1. vivos \subseteq Processos
  BY DEF KInv, EP!FirmeInv, EP!GInv, EP!TypeOK
<1>2. QED BY <1>1 DEF usuarios

\* A step that no process sees.
LEMMA NinguemVe ==
    ASSUME KInv, KInv', usuarios' = usuarios, Saida' = <<>>, \A q \in usuarios : Igual(q)
    PROVE  Maquina!Interno
<1>1. Ctx' = Ctx
  BY Visao DEF Igual
<1>2. Mem' = Mem
  BY Visao DEF Igual
<1>3. Areas' = Areas
  BY Visao DEF Igual
<1>4. QED BY <1>1, <1>2, <1>3, FormaInterno

\* A step of one process.
LEMMA SoUmVe ==
    ASSUME KInv, KInv', NEW p, p \in usuarios, usuarios' = usuarios,
           \A q \in usuarios \ {p} : Igual(q)
    PROVE  /\ Ctx' = [Ctx EXCEPT ![p] = feito'[p]]
           /\ Mem' = [Mem EXCEPT ![p] = PP!Leitura'[p]]
           /\ Areas' = [Areas EXCEPT ![p] = alocacoes'[p]]
<1>1. p \in Processos
  BY Usuarios
<1>2. Ctx' = [Ctx EXCEPT ![p] = feito'[p]]
  BY <1>1, Visao DEF Igual
<1>3. Mem' = [Mem EXCEPT ![p] = PP!Leitura'[p]]
  BY <1>1, Visao DEF Igual
<1>4. Areas' = [Areas EXCEPT ![p] = alocacoes'[p]]
  BY <1>1, Visao DEF Igual
<1>5. QED BY <1>2, <1>3, <1>4

\* A process ends.
LEMMA UmSai ==
    ASSUME KInv, KInv', NEW p, p \in usuarios, usuarios' = usuarios \ {p}, Saida' = <<>>,
           \A q \in usuarios \ {p} : Igual(q)
    PROVE  Maquina!Encerra(p)
<1>1. p \in Processos
  BY Usuarios
<1>2. Ctx' = [Ctx EXCEPT ![p] = ContextoNovo]
  BY <1>1, Visao DEF Igual
<1>3. Mem' = [Mem EXCEPT ![p] = Vazia]
  BY <1>1, Visao DEF Igual
<1>4. Areas' = [Areas EXCEPT ![p] = SemArea]
  BY <1>1, Visao DEF Igual
<1>5. QED BY <1>2, <1>3, <1>4, FormaEncerra

\* A process is created.
LEMMA UmEntra ==
    ASSUME KInv, KInv', NEW p \in Processos, NEW codigo, p \notin usuarios,
           usuarios' = usuarios \cup {p}, Saida' = <<>>, \A q \in usuarios : Igual(q),
           feito'[p] = ContextoNovo, alocacoes'[p] = SemArea,
           PP!Leitura'[p] = [v \in Paginas |->
               IF v < paginas_necessarias(Len(codigo)) THEN PaginaDeCodigo(codigo, v)
               ELSE NaoMapeada]
    PROVE  Maquina!Cria(p, codigo)
<1> DEFINE m == [v \in Paginas |->
               IF v < paginas_necessarias(Len(codigo)) THEN PaginaDeCodigo(codigo, v)
               ELSE NaoMapeada]
<1>1. PP!Leitura'[p] = m
  OBVIOUS
<1> HIDE DEF m
<1>2. Ctx' = Ctx
  BY Visao DEF Igual
<1>3. Mem' = [Mem EXCEPT ![p] = m]
  BY <1>1, Visao DEF Igual
<1>4. Areas' = Areas
  BY Visao DEF Igual
<1> USE DEF m
<1>5. QED BY <1>2, <1>3, <1>4, FormaCria

\* The machine stops.
LEMMA TodosSaem ==
    ASSUME KInv', usuarios' = {}, Saida' = <<>>
    PROVE  Maquina!Desliga
<1>1. /\ Ctx' = [p \in Processos |-> ContextoNovo] /\ Mem' = [p \in Processos |-> Vazia]
      /\ Areas' = [p \in Processos |-> SemArea]
  BY Visao
<1>2. QED BY <1>1, FormaDesliga

-----------------------------------------------------------------------------
(* What the steps of Paging do to what a process sees: MemoriaPrivada *)

\* The step changes the memory of no process but p.
SoDe(p) == \A q \in Processos \ {p} :
               PP!Leitura'[q] = PP!Leitura[q] /\ alocacoes'[q] = alocacoes[q]

LEMMA MesmaPrivada == PP!Privada!Paginas = Paginas
BY DEF PP!Privada!Paginas, Paginas

LEMMA LeituraTipos ==
    ASSUME KInv
    PROVE  /\ PP!Leitura \in [Processos -> [Paginas -> Valores \cup {NaoMapeada}]]
           /\ alocacoes \in [Processos -> [Paginas -> Nat]]
<1>1. PP!TypeOK /\ PP!Paginas = Paginas
  BY MesmosQuadros DEF KInv, PP!IInv
<1>2. PP!Leitura \in [Processos -> [PP!Paginas -> Valores \cup {NaoMapeada}]]
  BY <1>1, PagingVale, PP!LeituraTipo DEF Valores
<1>3. alocacoes \in [Processos -> [PP!Paginas -> 0 .. ptes_per_table]]
  BY <1>1 DEF PP!TypeOK
<1>4. QED BY <1>1, <1>2, <1>3, Tamanho

LEMMA SemPaginacaoVe ==
    ASSUME SemPaginacao
    PROVE  PP!Leitura' = PP!Leitura /\ alocacoes' = alocacoes
BY DEF SemPaginacao, memoriaVars, PP!Leitura

LEMMA EscritaVe ==
    ASSUME KInv, NEW p \in Processos, NEW v \in Paginas, NEW x \in Valores,
           PP!vmem_write(p, v, x)
    PROVE  /\ PP!Leitura' = [PP!Leitura EXCEPT ![p][v] = x]
           /\ alocacoes' = alocacoes
           /\ SoDe(p)
<1>1. PP!Privada!Escreve(p, v, x)
  <2>1. PP!IInv /\ v \in PP!Paginas
    BY MesmosQuadros DEF KInv
  <2>2. QED BY <2>1, PagingVale, PP!EscritaEscreve DEF Valores
<1>2. PP!Leitura' = [PP!Leitura EXCEPT ![p][v] = x] /\ alocacoes' = alocacoes
  BY <1>1 DEF PP!Privada!Escreve
<1>3. SoDe(p)
  BY <1>2, LeituraTipos DEF SoDe
<1>4. QED BY <1>2, <1>3

LEMMA FaltaVe ==
    ASSUME KInv, NEW p \in Processos, NEW v \in Paginas, PP!page_fault(p, v)
    PROVE  PP!Leitura' = PP!Leitura /\ alocacoes' = alocacoes
<1>1. PP!Privada!Interno
  <2>1. PP!IInv /\ v \in PP!Paginas
    BY MesmosQuadros DEF KInv
  <2>2. QED BY <2>1, PagingVale, PP!PageFaultNaoMuda
<1>2. QED BY <1>1 DEF PP!Privada!Interno

LEMMA AlocaVe ==
    ASSUME KInv, NEW p \in Processos, NEW s \in Paginas, NEW n \in 1 .. ptes_per_table,
           PP!aloca_dinamicamente(p, s, n)
    PROVE  /\ PP!Leitura' = [PP!Leitura EXCEPT ![p] = [v \in Paginas |->
                  IF v \in s .. s + n - 1 THEN PaginaZero ELSE PP!Leitura[p][v]]]
           /\ alocacoes' = [alocacoes EXCEPT ![p][s] = n]
           /\ SoDe(p)
<1>1. PP!Privada!Aloca(p, s, n)
  <2>1. PP!IInv /\ s \in PP!Paginas
    BY MesmosQuadros DEF KInv
  <2>2. QED BY <2>1, PagingVale, PP!AlocaAloca
<1>2. /\ PP!Leitura' = [PP!Leitura EXCEPT ![p] = [v \in PP!Privada!Paginas |->
            IF v \in s .. s + n - 1 THEN PaginaZero ELSE PP!Leitura[p][v]]]
      /\ alocacoes' = [alocacoes EXCEPT ![p][s] = n]
  BY <1>1 DEF PP!Privada!Aloca
<1>3. SoDe(p)
  BY <1>2, LeituraTipos DEF SoDe
<1>4. QED BY <1>2, <1>3, MesmaPrivada

LEMMA DesalocaVe ==
    ASSUME KInv, NEW p \in Processos, NEW s \in Paginas,
           PP!desaloca_a_partir_de_tal_endereco(p, s)
    PROVE  /\ PP!Leitura' = [PP!Leitura EXCEPT ![p] = [v \in Paginas |->
                  IF v \in s .. s + alocacoes[p][s] - 1 THEN NaoMapeada ELSE PP!Leitura[p][v]]]
           /\ alocacoes' = [alocacoes EXCEPT ![p][s] = 0]
           /\ SoDe(p)
<1>1. PP!Privada!Desaloca(p, s)
  <2>1. PP!IInv /\ s \in PP!Paginas
    BY MesmosQuadros DEF KInv
  <2>2. QED BY <2>1, PagingVale, PP!DesalocaDesaloca
<1>2. /\ PP!Leitura' = [PP!Leitura EXCEPT ![p] = [v \in PP!Privada!Paginas |->
            IF v \in s .. s + alocacoes[p][s] - 1 THEN NaoMapeada ELSE PP!Leitura[p][v]]]
      /\ alocacoes' = [alocacoes EXCEPT ![p][s] = 0]
  BY <1>1 DEF PP!Privada!Desaloca
<1>3. SoDe(p)
  BY <1>2, LeituraTipos DEF SoDe
<1>4. QED BY <1>2, <1>3, MesmaPrivada

LEMMA LiberaVe ==
    ASSUME KInv, NEW p \in Processos, PP!libera_tabela_paginas(p)
    PROVE  SoDe(p)
<1>1. PP!Privada!Encerra(p)
  <2>1. PP!IInv
    BY DEF KInv
  <2>2. QED BY <2>1, PagingVale, PP!LiberaEncerra
<1>2. /\ PP!Leitura' = [PP!Leitura EXCEPT ![p] = [v \in PP!Privada!Paginas |-> NaoMapeada]]
      /\ alocacoes' = [alocacoes EXCEPT ![p] = [v \in PP!Privada!Paginas |-> 0]]
  BY <1>1 DEF PP!Privada!Encerra
<1>3. QED BY <1>2, LeituraTipos DEF SoDe

LEMMA CarregaVe ==
    ASSUME KInv, NEW p \in Processos, NEW n \in 0 .. ptes_per_table, NEW codigo,
           codigo \in PP!Codigos(n), PP!CarregaCodigo(p, n, codigo)
    PROVE  /\ PP!Leitura'[p] = [v \in Paginas |-> IF v < n THEN codigo[v] ELSE NaoMapeada]
           /\ alocacoes'[p] = SemArea
           /\ SoDe(p)
<1>1. PP!Privada!Cria(p, n, codigo)
  <2>1. PP!IInv
    BY DEF KInv
  <2>2. QED BY <2>1, PagingVale, PP!CarregaCria
<1>2. /\ PP!Leitura' = [PP!Leitura EXCEPT ![p] = [v \in PP!Privada!Paginas |->
                           IF v < n THEN codigo[v] ELSE NaoMapeada]]
      /\ alocacoes' = [alocacoes EXCEPT ![p] = [v \in PP!Privada!Paginas |-> 0]]
  BY <1>1 DEF PP!Privada!Cria
<1>3. SoDe(p)
  BY <1>2, LeituraTipos DEF SoDe
<1>4. QED BY <1>2, <1>3, LeituraTipos, MesmaPrivada DEF SemArea

LEMMA SemQuadrosVe ==
    ASSUME KInv, NEW n \in 0 .. ptes_per_table, NEW codigo, codigo \in PP!Codigos(n),
           PP!CarregaCodigoSemQuadros(n, codigo)
    PROVE  PP!Leitura' = PP!Leitura /\ alocacoes' = alocacoes
<1>1. PP!Privada!Interno
  <2>1. PP!IInv
    BY DEF KInv
  <2>2. QED BY <2>1, PagingVale, PP!SemQuadrosNaoMuda
<1>2. QED BY <1>1 DEF PP!Privada!Interno

-----------------------------------------------------------------------------
(* The inductive invariant, and what it says of the instruction that runs *)

LEMMA InitMInv == Init => MInv
<1> SUFFICES ASSUME Init PROVE MInv
  OBVIOUS
<1>1. KInv
  BY InitKInv
<1>2. PP!DadosNaoExecutam
  <2>1. PP!AreasCoerentes /\ PP!Paginas = Paginas
    BY <1>1, MesmosQuadros DEF KInv, PP!IInv
  <2>2. ASSUME NEW p \in Processos, NEW v \in Paginas
        PROVE  ~ tabela[p][v].Foo
    <3>1. \A s \in Paginas : PP!AreaDe(p, s) = {}
      <4>1. \A s \in Paginas : alocacoes[p][s] = 0
        BY DEF Init
      <4>2. \A s \in Paginas : s \in Nat
        BY DEF Paginas
      <4>3. QED BY <4>1, <4>2 DEF PP!AreaDe
    <3>2. QED BY <2>1, <3>1 DEF PP!AreasCoerentes
  <2>3. QED BY <2>1, <2>2 DEF PP!DadosNaoExecutam
<1>3. QED BY <1>1, <1>2 DEF MInv

LEMMA MInvPasso == MInv /\ [Next]_vars => MInv'
<1> SUFFICES ASSUME MInv, [Next]_vars PROVE MInv'
  OBVIOUS
<1>1. KInv /\ KInv'
  BY KInvPasso DEF MInv
<1>2. PP!DadosNaoExecutam'
  <2>1. [PP!Next]_(PP!vars)
    BY <1>1, PassoSimula DEF Simula
  <2>2. PP!TypeOK /\ PP!DadosNaoExecutam
    BY <1>1 DEF MInv, KInv, PP!IInv
  <2>3. PP!TypeOK /\ PP!DadosNaoExecutam /\ [PP!Next]_(PP!vars) => PP!DadosNaoExecutam'
    BY PagingVale, PP!DadosPasso
  <2>4. QED BY <2>1, <2>2, <2>3
<1>3. QED BY <1>1, <1>2 DEF MInv

\* While something runs, the users are the processes but idle.
LEMMA Ligado ==
    ASSUME KInv, funcionando
    PROVE  /\ usuarios = vivos \ {Idle} /\ rodando \in Processos
           /\ rodando # Idle => rodando \in usuarios
<1>1. rodando \in Processos /\ rodando \in vivos
  BY Rodando
<1>2. ligado
  BY DEF funcionando, E!funcionando
<1>3. QED BY <1>1, <1>2 DEF usuarios

\* The kernel works on until it is turned off.
LEMMA SegueLigado ==
    ASSUME KInv, ligado
    PROVE  funcionando /\ Idle \in vivos
<1>1. EP!IdleFirme
  BY DEF KInv, EP!FirmeInv
<1>2. QED BY <1>1 DEF EP!IdleFirme, funcionando, E!funcionando

\* What the process that runs sees is what the CPU has.
LEMMA QuemRoda ==
    ASSUME KInv, funcionando, rodando # Idle
    PROVE  /\ rodando \in usuarios /\ rodando \in Processos
           /\ Ctx[rodando] = cpu_contexto
           /\ Mem[rodando] = PP!Leitura[rodando] /\ Areas[rodando] = alocacoes[rodando]
           /\ cpu_tabela = rodando
<1>1. rodando \in usuarios /\ rodando \in Processos /\ cpu_tabela = rodando
  BY Ligado, Rodando
<1>2. Ctx[rodando] = cpu_contexto
  BY <1>1 DEF Ctx
<1>3. QED BY <1>1, <1>2, Visao

\* A page that is present reads as its frame.
LEMMA Presente ==
    ASSUME KInv, funcionando, rodando # Idle, NEW vaddr \in Palavras, Entrada(vaddr).Present
    PROVE  /\ Mem[rodando][Pagina(vaddr)] = pmem[Entrada(vaddr).PhyFrameID]
           /\ Mem[rodando][Pagina(vaddr)] # NaoMapeada
<1>1. Pagina(vaddr) \in Paginas /\ PP!Paginas = Paginas
  BY Enderecos, MesmosQuadros
<1>2. rodando \in Processos /\ Mem[rodando] = PP!Leitura[rodando] /\ cpu_tabela = rodando
  BY QuemRoda
<1>3. Mem[rodando][Pagina(vaddr)] = pmem[Entrada(vaddr).PhyFrameID]
  BY <1>1, <1>2 DEF PP!Leitura, Entrada
<1>4. pmem[Entrada(vaddr).PhyFrameID] \in Valores
  BY Lendo
<1>5. QED BY <1>3, <1>4, KernelAssumption DEF Valores

\* An instruction that raises nothing was fetched from a page of the program.
LEMMA SemExcecao ==
    ASSUME excecoes = {}
    PROVE  /\ Entrada(pc).Present /\ "Executable" \in Entrada(pc).perms
           /\ instrucao.op # "Invalida"
           /\ instrucao.op \in {"Load", "Store"} => Entrada(gpr(instrucao.op1)).Present
<1>1. ASSUME NEW vaddr, NEW permissao \in {"Readable", "Writable", "Executable"},
             AcessoFalha(vaddr, permissao) = {}
      PROVE  Entrada(vaddr).Present /\ permissao \in Entrada(vaddr).perms
  <2>1. Protecao(Entrada(vaddr), permissao) = "nenhuma"
    <3> DEFINE e == [tipo |-> Protecao(Entrada(vaddr), permissao), vaddr |-> vaddr]
    <3>1. e \notin AcessoFalha(vaddr, permissao)
      BY <1>1
    <3>2. e.tipo = "nenhuma"
      BY <3>1 DEF AcessoFalha
    <3>3. QED BY <3>2
  <2>2. NaoPode[permissao] # "nenhuma"
    BY DEF NaoPode
  <2>3. QED BY <2>1, <2>2 DEF Protecao
<1>2. AcessoFalha(pc, "Executable") = {}
  BY DEF excecoes
<1>3. instrucao.op # "Invalida"
  BY <1>2 DEF excecoes
<1>4. ASSUME instrucao.op \in {"Load", "Store"}
      PROVE  Entrada(gpr(instrucao.op1)).Present
  <2>1. PICK permissao \in {"Readable", "Writable"} :
            <<gpr(instrucao.op1), permissao>> \in Acessos(cpu_contexto, instrucao)
    BY <1>4 DEF Acessos, gpr
  <2> DEFINE a == <<gpr(instrucao.op1), permissao>>
  <2>2. AcessoFalha(a[1], a[2]) = {}
    BY <1>2, <1>3, <2>1 DEF excecoes
  <2>3. AcessoFalha(gpr(instrucao.op1), permissao) = {}
    BY <2>2
  <2>4. QED BY <1>1, <2>3
<1>5. QED BY <1>1, <1>2, <1>3, <1>4

LEMMA Busca ==
    ASSUME MInv, funcionando, rodando # Idle, excecoes = {}
    PROVE  /\ Mem[rodando][Pagina(pc)] # NaoMapeada
           /\ ~ Maquina!EmArea(rodando, Pagina(pc))
           /\ instrucao = Decodifica[Palavra(Mem[rodando][Pagina(pc)], pc)]
           /\ pc = Ctx[rodando].pc
<1>0. KInv
  BY DEF MInv
<1>1. pc \in Palavras
  BY <1>0, Rodando DEF pc, Contextos
<1>2. Entrada(pc).Present /\ "Executable" \in Entrada(pc).perms
  BY SemExcecao
<1>3. Mem[rodando][Pagina(pc)] = pmem[Entrada(pc).PhyFrameID]
      /\ Mem[rodando][Pagina(pc)] # NaoMapeada
  BY <1>0, <1>1, <1>2, Presente
<1>4. instrucao = Decodifica[Palavra(Mem[rodando][Pagina(pc)], pc)]
  BY <1>3 DEF instrucao, Memoria
<1>5. ~ Maquina!EmArea(rodando, Pagina(pc))
  <2>1. Pagina(pc) \in Paginas /\ PP!Paginas = Paginas /\ Maquina!Paginas = Paginas
    BY <1>1, Enderecos, MesmosQuadros, MesmaCpu
  <2>2. rodando \in Processos /\ cpu_tabela = rodando /\ Areas[rodando] = alocacoes[rodando]
    BY <1>0, QuemRoda
  <2>3. ~ tabela[rodando][Pagina(pc)].Foo
    BY <1>2, <2>1, <2>2 DEF MInv, PP!DadosNaoExecutam, Entrada
  <2>4. \A s \in Paginas : Pagina(pc) \notin s .. s + alocacoes[rodando][s] - 1
    <3>1. PP!AreasCoerentes
      BY <1>0 DEF KInv, PP!IInv
    <3>2. QED BY <2>1, <2>2, <2>3, <3>1 DEF PP!AreasCoerentes, PP!AreaDe
  <2>5. Maquina!EmArea(rodando, Pagina(pc)) <=>
           \E s \in Maquina!Paginas : Pagina(pc) \in s .. s + Areas[rodando][s] - 1
    BY DEF Maquina!EmArea, Areas
  <2>6. QED BY <2>1, <2>2, <2>4, <2>5
<1>6. pc = Ctx[rodando].pc
  BY <1>0, QuemRoda DEF pc
<1>7. QED BY <1>3, <1>4, <1>5, <1>6

-----------------------------------------------------------------------------
(* What the steps of Escalonador do to what a process sees *)

\* The process that runs has its registers at c, and the others are as they were.
FezUm(c) ==
    /\ funcionando /\ usuarios' = usuarios /\ feito'[rodando] = c
    /\ \A q \in Processos \ {rodando} : feito'[q] = feito[q]

LEMMA FeitoTipo ==
    ASSUME KInv, funcionando
    PROVE  feito \in [Processos -> Contextos]
<1>1. EP!funcionando
  BY MesmasListas DEF funcionando
<1>2. EP!FirmeInv
  BY DEF KInv
<1>3. QED BY <1>1, <1>2, EscalonadorVale, EP!Fatos

LEMMA ExecutaFez ==
    ASSUME KInv, NEW c, E!Executa(c)
    PROVE  FezUm(c)
<1>1. /\ funcionando /\ feito' = [feito EXCEPT ![rodando] = c]
      /\ vivos' = vivos /\ ligado' = ligado
  BY DEF E!Executa, E!rodando, rodando, funcionando
<1>2. feito \in [Processos -> Contextos] /\ rodando \in Processos
  BY <1>1, FeitoTipo, Rodando
<1>3. usuarios' = usuarios
  BY <1>1 DEF usuarios
<1>4. QED BY <1>1, <1>2, <1>3 DEF FezUm

LEMMA DormeFez ==
    ASSUME KInv, NEW s, NEW c, E!syscall_6_dormir_processo(s, c)
    PROVE  FezUm(c)
<1>1. /\ funcionando /\ feito' = [feito EXCEPT ![rodando] = c]
      /\ vivos' = vivos /\ ligado' = ligado
  BY DEF E!syscall_6_dormir_processo, E!rodando, rodando, funcionando
<1>2. feito \in [Processos -> Contextos] /\ rodando \in Processos
  BY <1>1, FeitoTipo, Rodando
<1>3. usuarios' = usuarios
  BY <1>1 DEF usuarios
<1>4. QED BY <1>1, <1>2, <1>3 DEF FezUm

\* What idle does is seen by no one.
LEMMA IdleRoda ==
    ASSUME KInv, KInv', NEW c, FezUm(c), SoDe(rodando), rodando = Idle, Saida' = <<>>
    PROVE  Maquina!Interno
<1>1. usuarios \subseteq Processos /\ Idle \notin usuarios
  BY Usuarios
<1>2. \A q \in usuarios : Igual(q)
  BY <1>1 DEF FezUm, SoDe, Igual
<1>3. QED BY <1>2, NinguemVe DEF FezUm

\* What another process does is seen by it.
LEMMA UsuarioRoda ==
    ASSUME KInv, KInv', NEW p, p = rodando, NEW c, FezUm(c), SoDe(p), p # Idle
    PROVE  /\ p \in usuarios /\ p \in Processos /\ usuarios' = usuarios
           /\ Ctx[p] = cpu_contexto /\ cpu_tabela = p
           /\ Mem[p] = PP!Leitura[p] /\ Areas[p] = alocacoes[p]
           /\ Ctx' = [Ctx EXCEPT ![p] = c]
           /\ Mem' = [Mem EXCEPT ![p] = PP!Leitura'[p]]
           /\ Areas' = [Areas EXCEPT ![p] = alocacoes'[p]]
<1>1. funcionando /\ rodando # Idle /\ usuarios' = usuarios
      /\ feito'[p] = c /\ \A q \in Processos \ {p} : feito'[q] = feito[q]
  BY DEF FezUm
<1>2. /\ p \in usuarios /\ p \in Processos /\ Ctx[p] = cpu_contexto /\ cpu_tabela = p
      /\ Mem[p] = PP!Leitura[p] /\ Areas[p] = alocacoes[p]
  BY <1>1, QuemRoda
<1>3. usuarios \subseteq Processos
  BY Usuarios
<1>4. \A q \in usuarios \ {p} : Igual(q)
  BY <1>1, <1>3 DEF SoDe, Igual
<1>5. /\ Ctx' = [Ctx EXCEPT ![p] = feito'[p]]
      /\ Mem' = [Mem EXCEPT ![p] = PP!Leitura'[p]]
      /\ Areas' = [Areas EXCEPT ![p] = alocacoes'[p]]
  BY <1>1, <1>2, <1>4, SoUmVe
<1>6. QED BY <1>1, <1>2, <1>5

\* When it does not touch the memory, only its registers change.
LEMMA UsuarioSoRegistradores ==
    ASSUME KInv, KInv', NEW p, p = rodando, NEW c, FezUm(c), SemPaginacao, p # Idle
    PROVE  /\ p \in usuarios /\ p \in Processos /\ usuarios' = usuarios
           /\ Ctx[p] = cpu_contexto /\ cpu_tabela = p
           /\ Mem[p] = PP!Leitura[p] /\ Areas[p] = alocacoes[p]
           /\ Ctx' = [Ctx EXCEPT ![p] = c] /\ Mem' = Mem /\ Areas' = Areas
<1>1. PP!Leitura' = PP!Leitura /\ alocacoes' = alocacoes
  BY SemPaginacaoVe
<1>2. SoDe(p)
  BY <1>1 DEF SoDe
<1>3. /\ p \in usuarios /\ p \in Processos /\ usuarios' = usuarios
      /\ Ctx[p] = cpu_contexto /\ cpu_tabela = p
      /\ Mem[p] = PP!Leitura[p] /\ Areas[p] = alocacoes[p]
      /\ Ctx' = [Ctx EXCEPT ![p] = c]
  BY <1>2, UsuarioRoda
<1>4. Mem' = Mem /\ Areas' = Areas
  BY <1>1, <1>3, Visao
<1>5. QED BY <1>3, <1>4

\* The instruction that the process executes is one of its machine.
LEMMA InstrucaoDe ==
    ASSUME MInv, funcionando, excecoes = {}, NEW p \in usuarios, p = rodando, p # Idle,
           NEW i, i = instrucao,
           IF i.op = "Syscall" THEN Maquina!Chamada(p) ELSE Maquina!Comum(p, i) /\ Saida' = <<>>
    PROVE  Maquina!Next
<1>1. PICK pv : pv = Ctx[p].pc
  OBVIOUS
<1>2. rodando # Idle /\ KInv
  BY DEF MInv
<1>3. /\ Mem[rodando][Pagina(pc)] # NaoMapeada /\ ~ Maquina!EmArea(rodando, Pagina(pc))
      /\ instrucao = Decodifica[Palavra(Mem[rodando][Pagina(pc)], pc)]
      /\ pc = Ctx[rodando].pc
  BY <1>2, Busca
<1>4. pv = pc
  BY <1>1, <1>3
<1>5. ~ Maquina!EmArea(p, Pagina(pv))
  BY <1>3, <1>4 DEF Maquina!EmArea
<1>6. /\ Mem[p][Pagina(pv)] # NaoMapeada
      /\ i = Decodifica[Palavra(Mem[p][Pagina(pv)], pv)]
  BY <1>3, <1>4
<1>7. Maquina!Instrucao(p)
  BY <1>1, <1>5, <1>6, FormaInstrucao
<1>8. p \in Processos
  BY <1>2, Usuarios
<1>9. QED BY <1>7, <1>8 DEF Maquina!Next

LEMMA InternoPassa == Maquina!Interno => Maquina!Next
BY DEF Maquina!Next

-----------------------------------------------------------------------------
(* Each step of the kernel is one of the machines, or none *)

LEMMA ExecutaPassa ==
    ASSUME MInv, KInv', Executa, saida' = <<>>
    PROVE  Maquina!Next
<1>0. KInv /\ Saida' = <<>>
  BY DEF MInv, Saida
<1>1. PICK p : p = rodando
  OBVIOUS
<1>2. PICK i : i = instrucao
  OBVIOUS
<1>3. PICK a : a = gpr(i.op1)
  OBVIOUS
<1>4. PICK c : c = Executada(cpu_contexto, i, IF i.op = "Load" THEN Memoria(a) ELSE 0)
  OBVIOUS
<1>5. /\ funcionando /\ excecoes = {}
      /\ i.op \in OpcodeUla \cup OpcodeI \cup {"Load"}
      /\ ~ DivideZero(cpu_contexto, i) /\ SemPaginacao
  BY <1>2 DEF Executa, Cumpre
<1>6. E!Executa(c)
  BY <1>2, <1>3, <1>4 DEF Executa, E!Executa
<1>7. FezUm(c)
  BY <1>0, <1>6, ExecutaFez
<1>8. CASE p = Idle
  <2>1. SoDe(rodando)
    BY <1>5, SemPaginacaoVe DEF SoDe
  <2>2. Maquina!Interno
    BY <1>0, <1>1, <1>7, <1>8, <2>1, IdleRoda
  <2>3. QED BY <2>2, InternoPassa
<1>9. CASE p # Idle
  <2>1. /\ p \in usuarios /\ usuarios' = usuarios /\ Ctx[p] = cpu_contexto
        /\ Ctx' = [Ctx EXCEPT ![p] = c] /\ Mem' = Mem /\ Areas' = Areas
    BY <1>0, <1>1, <1>5, <1>7, <1>9, UsuarioSoRegistradores
  <2>2. ASSUME i.op = "Load"
        PROVE  Mem[p][Pagina(a)] # NaoMapeada /\ Memoria(a) = Palavra(Mem[p][Pagina(a)], a)
    <3>1. Entrada(a).Present
      BY <1>2, <1>3, <1>5, <2>2, SemExcecao
    <3>2. i.op1 \in Registradores
      BY <1>0, <1>2, <1>5, Lendo DEF Instrucoes
    <3>3. a \in Palavras
      BY <1>0, <1>3, <1>5, <3>2, Lendo
    <3>4. /\ Mem[rodando][Pagina(a)] = pmem[Entrada(a).PhyFrameID]
          /\ Mem[rodando][Pagina(a)] # NaoMapeada
      BY <1>0, <1>1, <1>5, <1>9, <3>1, <3>3, Presente
    <3>5. QED BY <1>1, <3>4 DEF Memoria
  <2>3. i.op \notin {"Store", "Syscall", "Invalida"}
    BY <1>5 DEF OpcodeUla, OpcodeI
  <2>4. Ctx' = [Ctx EXCEPT ![p] =
               Executada(Ctx[p], i, IF i.op = "Load" THEN Palavra(Mem[p][Pagina(a)], a) ELSE 0)]
    BY <1>4, <2>1, <2>2
  <2>5. a = Ctx[p].gprs[i.op1]
    BY <1>3, <2>1 DEF gpr
  <2>6. Maquina!Comum(p, i)
    BY <1>5, <2>1, <2>2, <2>3, <2>4, <2>5, FormaComum
  <2>7. QED BY <1>0, <1>1, <1>2, <1>5, <1>9, <2>1, <2>3, <2>6, InstrucaoDe
<1>10. QED BY <1>8, <1>9

LEMMA StorePassa ==
    ASSUME MInv, KInv', Store, saida' = <<>>
    PROVE  Maquina!Next
<1>0. KInv /\ Saida' = <<>>
  BY DEF MInv, Saida
<1>1. PICK p : p = rodando
  OBVIOUS
<1>2. PICK i : i = instrucao
  OBVIOUS
<1>3. PICK a : a = gpr(i.op1)
  OBVIOUS
<1>4. PICK c : c = Executada(cpu_contexto, i, 0)
  OBVIOUS
<1>5. PICK x : x = ComPalavra(pmem[Entrada(a).PhyFrameID], a, gpr(i.op2))
  OBVIOUS
<1>6. funcionando /\ excecoes = {} /\ i.op = "Store"
  BY <1>2 DEF Store, Cumpre
<1>7. E!Executa(c)
  BY <1>2, <1>4 DEF Store, E!Executa
<1>8. FezUm(c)
  BY <1>0, <1>7, ExecutaFez
<1>9. i \in Instrucoes /\ cpu_tabela = rodando /\ p \in Processos
  BY <1>0, <1>1, <1>2, <1>6, Lendo, Rodando
<1>10. a \in Palavras /\ gpr(i.op2) \in Palavras
  <2>1. i.op1 \in Registradores /\ i.op2 \in Registradores
    BY <1>9 DEF Instrucoes
  <2>2. QED BY <1>0, <1>3, <1>6, <2>1, Lendo
<1>11. Pagina(a) \in Paginas
  BY <1>10, Enderecos
<1>12. x \in Valores
  <2>1. pmem[Entrada(a).PhyFrameID] \in Valores
    BY <1>0, <1>6, <1>10, Lendo
  <2>2. QED BY <1>5, <1>10, <2>1, ComPalavraTipo
<1>13. /\ PP!Leitura' = [PP!Leitura EXCEPT ![p][Pagina(a)] = x]
       /\ alocacoes' = alocacoes /\ SoDe(p)
  <2>1. PICK v \in Paginas : v = Pagina(a)
    BY <1>11
  <2>2. P!vmem_write(p, v, x)
    BY <1>1, <1>2, <1>3, <1>5, <1>9, <2>1 DEF Store, P!vmem_write
  <2>3. PP!vmem_write(p, v, x)
    BY <2>2, MesmasPaginas
  <2>4. PP!Leitura' = [PP!Leitura EXCEPT ![p][v] = x] /\ alocacoes' = alocacoes /\ SoDe(p)
    BY <1>0, <1>9, <1>12, <2>3, EscritaVe
  <2>5. QED BY <2>1, <2>4
<1>14. CASE p = Idle
  <2>1. SoDe(rodando)
    BY <1>1, <1>13 DEF SoDe
  <2>2. Maquina!Interno
    BY <1>0, <1>1, <1>8, <1>14, <2>1, IdleRoda
  <2>3. QED BY <2>2, InternoPassa
<1>15. CASE p # Idle
  <2>1. /\ p \in usuarios /\ usuarios' = usuarios /\ Ctx[p] = cpu_contexto
        /\ Mem[p] = PP!Leitura[p] /\ Areas[p] = alocacoes[p]
        /\ Ctx' = [Ctx EXCEPT ![p] = c]
        /\ Mem' = [Mem EXCEPT ![p] = PP!Leitura'[p]]
        /\ Areas' = [Areas EXCEPT ![p] = alocacoes'[p]]
    BY <1>0, <1>1, <1>8, <1>13, <1>15, UsuarioRoda
  <2>2. Mem[p][Pagina(a)] = pmem[Entrada(a).PhyFrameID] /\ Mem[p][Pagina(a)] # NaoMapeada
    <3>1. Entrada(a).Present
      BY <1>2, <1>3, <1>6, SemExcecao
    <3>2. /\ Mem[rodando][Pagina(a)] = pmem[Entrada(a).PhyFrameID]
          /\ Mem[rodando][Pagina(a)] # NaoMapeada
      BY <1>0, <1>1, <1>6, <1>10, <1>15, <3>1, Presente
    <3>3. QED BY <1>1, <3>2
  <2>3. Mem' = [Mem EXCEPT ![p][Pagina(a)] = ComPalavra(@, a, Ctx[p].gprs[i.op2])]
    <3>1. PP!Leitura'[p] = [PP!Leitura[p] EXCEPT ![Pagina(a)] = x]
      BY <1>0, <1>9, <1>13, LeituraTipos
    <3>2. x = ComPalavra(Mem[p][Pagina(a)], a, Ctx[p].gprs[i.op2])
      BY <1>5, <2>1, <2>2 DEF gpr
    <3>3. Mem' = [Mem EXCEPT ![p] = [Mem[p] EXCEPT ![Pagina(a)] = x]]
      BY <2>1, <3>1
    <3>4. QED BY <3>2, <3>3
  <2>4. Areas' = Areas
    BY <1>13, <2>1, Visao
  <2>5. a = Ctx[p].gprs[i.op1]
    BY <1>3, <2>1 DEF gpr
  <2>6. ~ DivideZero(Ctx[p], i)
    BY <1>6 DEF DivideZero
  <2>7. Ctx' = [Ctx EXCEPT ![p] =
               Executada(Ctx[p], i, IF i.op = "Load" THEN Palavra(Mem[p][Pagina(a)], a) ELSE 0)]
    BY <1>4, <1>6, <2>1
  <2>8. Mem' = IF i.op # "Store" THEN Mem
               ELSE [Mem EXCEPT ![p][Pagina(a)] = ComPalavra(@, a, Ctx[p].gprs[i.op2])]
    BY <1>6, <2>3
  <2>9. /\ i.op # "Invalida" /\ Mem[p][Pagina(a)] # NaoMapeada
        /\ usuarios' = usuarios
    BY <1>6, <2>1, <2>2
  <2>10. Maquina!Comum(p, i)
    BY <2>4, <2>5, <2>6, <2>7, <2>8, <2>9, FormaComum
  <2>11. QED BY <1>0, <1>1, <1>2, <1>6, <1>15, <2>1, <2>10, InstrucaoDe
<1>16. QED BY <1>14, <1>15

\* The host stops, and nothing exists.
LEMMA FimPassa ==
    ASSUME MInv, KInv', DivisaoPorZero \/ ComandoFim, saida' = <<>>
    PROVE  Maquina!Next
<1>1. ligado' = FALSE
  BY DEF DivisaoPorZero, ComandoFim, E!ComandoExit, E!ComandoComExcecao
<1>2. usuarios' = {} /\ Saida' = <<>>
  BY <1>1 DEF usuarios, Saida
<1>3. Maquina!Desliga
  BY <1>2, TodosSaem
<1>4. QED BY <1>3 DEF Maquina!Next

\* A page fault that is served, the timer and the clock.
LEMMA InternosPassam ==
    ASSUME MInv, KInv', FaltaServida \/ tratar_timer \/ PassaSegundo, saida' = <<>>
    PROVE  Maquina!Next
<1>0. KInv /\ Saida' = <<>>
  BY DEF MInv, Saida
<1>1. vivos' = vivos /\ ligado' = ligado /\ feito' = feito
  BY DEF FaltaServida, tratar_timer, PassaSegundo, processosVars, E!tratar_timer,
     E!PassaSegundo
<1>2. PP!Leitura' = PP!Leitura /\ alocacoes' = alocacoes
  <2>1. CASE FaltaServida
    <3>1. PICK e \in excecoes : funcionando /\ P!page_fault(rodando, Pagina(e.vaddr))
      BY <2>1 DEF FaltaServida
    <3>2. PICK p, v : p = rodando /\ v = Pagina(e.vaddr)
      OBVIOUS
    <3>3. p \in Processos /\ v \in Paginas
      BY <1>0, <3>1, <3>2, Lendo, Rodando, Enderecos
    <3>4. P!page_fault(p, v)
      BY <3>1, <3>2 DEF P!page_fault
    <3>5. PP!page_fault(p, v)
      BY <3>4, MesmasPaginas
    <3>6. QED BY <1>0, <3>3, <3>5, FaltaVe
  <2>2. CASE tratar_timer \/ PassaSegundo
    BY <2>2, SemPaginacaoVe DEF tratar_timer, PassaSegundo
  <2>3. QED BY <2>1, <2>2
<1>3. usuarios' = usuarios
  BY <1>1 DEF usuarios
<1>4. \A q \in usuarios : Igual(q)
  BY <1>1, <1>2 DEF Igual
<1>5. Maquina!Interno
  BY <1>0, <1>3, <1>4, NinguemVe
<1>6. QED BY <1>5, InternoPassa

\* The end of a process is seen by it alone.
LEMMA ApagaPassa ==
    ASSUME KInv, KInv', NEW p \in Processos, funcionando, PP!libera_tabela_paginas(p),
           vivos' = vivos \ {p}, feito' = [feito EXCEPT ![p] = ContextoNovo],
           ligado' = ligado, p \in vivos, saida' = <<>>
    PROVE  Maquina!Next
<1>1. ligado /\ ligado'
  BY DEF funcionando, E!funcionando
<1>2. p # Idle
  <2>1. Idle \in vivos'
    <3>1. EP!IdleFirme'
      BY DEF KInv, EP!FirmeInv
    <3>2. QED BY <1>1, <3>1 DEF EP!IdleFirme
  <2>2. QED BY <2>1
<1>3. p \in usuarios /\ usuarios' = usuarios \ {p} /\ Saida' = <<>>
  BY <1>1, <1>2 DEF usuarios, Saida
<1>4. SoDe(p)
  BY LiberaVe
<1>5. \A q \in usuarios \ {p} : Igual(q)
  <2>1. feito \in [Processos -> Contextos]
    BY FeitoTipo
  <2>2. usuarios \subseteq Processos
    BY Usuarios
  <2>3. QED BY <1>4, <2>1, <2>2 DEF SoDe, Igual
<1>6. Maquina!Encerra(p)
  BY <1>3, <1>5, UmSai
<1>7. QED BY <1>6 DEF Maquina!Next

\* kill, and what the kernel kills.
LEMMA MataPassa ==
    ASSUME MInv, KInv', NEW n, E!kill_process_pid(n), Libera(E!Alvo(n)), saida' = <<>>
    PROVE  Maquina!Next
<1>1. PICK p : p = E!Alvo(n)
  OBVIOUS
<1>2. /\ funcionando /\ vivos' = vivos \ {p} /\ ligado' = ligado
      /\ feito' = [feito EXCEPT ![p] = ContextoNovo]
  BY <1>1 DEF E!kill_process_pid, E!Apaga, funcionando
<1>3. P!libera_tabela_paginas(p)
  BY <1>1 DEF Libera, P!libera_tabela_paginas
<1>4. PP!libera_tabela_paginas(p)
  BY <1>3, MesmasPaginas
<1>5. KInv
  BY DEF MInv
<1>6. p \in vivos /\ p \in Processos
  <2>1. p \in vivas
    BY <1>4 DEF PP!libera_tabela_paginas
  <2>2. QED BY <1>2, <1>5, <2>1, Rodando
<1>7. QED BY <1>2, <1>4, <1>5, <1>6, ApagaPassa

LEMMA SaidasPassam ==
    ASSUME MInv, KInv', ExcecaoFatal \/ ComandoKill \/ syscall_0_fechar_processo, saida' = <<>>
    PROVE  Maquina!Next
<1>1. CASE ExcecaoFatal
  <2>1. PICK n : n = pid[rodando]
    OBVIOUS
  <2>2. E!kill_process /\ Libera(E!Alvo(pid[rodando]))
    BY <1>1 DEF ExcecaoFatal, E!tratar_excecao
  <2>3. E!kill_process_pid(n) /\ Libera(E!Alvo(n))
    BY <2>1, <2>2 DEF E!kill_process, E!kill_process_pid, E!rodando, rodando, Libera
  <2>4. QED BY <2>3, MataPassa
<1>2. CASE ComandoKill
  <2>1. ASSUME NEW n \in Numeros, E!kill_process_pid(n), Libera(E!Alvo(n))
        PROVE  Maquina!Next
    BY <2>1, MataPassa
  <2>2. CASE E!kill_process /\ Libera(E!Alvo(pid[rodando]))
    <3>1. PICK n : n = pid[rodando]
      OBVIOUS
    <3>2. E!kill_process_pid(n) /\ Libera(E!Alvo(n))
      BY <2>2, <3>1 DEF E!kill_process, E!kill_process_pid, E!rodando, rodando, Libera
    <3>3. QED BY <3>2, MataPassa
  <2>3. QED BY <1>2, <2>1, <2>2 DEF ComandoKill
<1>3. CASE syscall_0_fechar_processo
  <2>1. PICK p : p = rodando
    OBVIOUS
  <2>2. /\ funcionando /\ vivos' = vivos \ {p} /\ ligado' = ligado
        /\ feito' = [feito EXCEPT ![p] = ContextoNovo]
    BY <1>3, <2>1 DEF syscall_0_fechar_processo, E!syscall_0_fechar_processo, E!Apaga,
       funcionando, E!rodando, rodando
  <2>3. P!libera_tabela_paginas(p)
    BY <1>3, <2>1 DEF syscall_0_fechar_processo, Libera, P!libera_tabela_paginas
  <2>4. PP!libera_tabela_paginas(p)
    BY <2>3, MesmasPaginas
  <2>5. KInv
    BY DEF MInv
  <2>6. p \in vivos /\ p \in Processos
    BY <2>1, <2>2, <2>5, Rodando
  <2>7. QED BY <2>2, <2>4, <2>5, <2>6, ApagaPassa
<1>4. QED BY <1>1, <1>2, <1>3

\* A load that succeeds creates a machine; one that fails is seen by no one.
LEMMA LoadPassa ==
    ASSUME MInv, KInv', NEW codigo \in Programas, ComandoLoad(codigo), saida' = <<>>
    PROVE  Maquina!Next
<1> DEFINE n == paginas_necessarias(Len(codigo))
<1>0. KInv /\ Saida' = <<>>
  BY DEF MInv, Saida
<1>1. codigo \in Seq(Palavras)
  BY KernelAssumption
<1>2. n \in 0 .. ptes_per_table
  <2>1. Len(codigo) \in Nat
    BY <1>1
  <2>2. QED BY <2>1, PaginasDeCodigo
<1>3. Codigo(codigo) \in PP!Codigos(n)
  <2>1. \A v \in 0 .. n - 1 : PaginaDeCodigo(codigo, v) \in Valores
    <3>1. \A v \in 0 .. n - 1 : v \in Nat
      BY <1>2
    <3>2. QED BY <1>1, <3>1, CodigoTipo
  <2>2. QED BY <2>1 DEF Codigo, PP!Codigos, Valores
<1>4. \/ \E p \in Processos : E!ComandoLoad(p) /\ P!CarregaCodigo(p, n, Codigo(codigo))
      \/ E!ComandoLoadFalha /\ P!CarregaCodigoSemQuadros(n, Codigo(codigo))
  BY DEF ComandoLoad
<1>5. \A v \in Paginas : v < n => Codigo(codigo)[v] = PaginaDeCodigo(codigo, v)
  <2>1. \A v \in Paginas : v < n => v \in 0 .. n - 1
    BY <1>2, Tamanho DEF Paginas
  <2>2. QED BY <2>1 DEF Codigo
<1>6. [v \in Paginas |-> IF v < n THEN Codigo(codigo)[v] ELSE NaoMapeada]
      = [v \in Paginas |-> IF v < paginas_necessarias(Len(codigo)) THEN PaginaDeCodigo(codigo, v)
                           ELSE NaoMapeada]
  BY <1>5
<1> HIDE DEF n
<1>7. ASSUME NEW p \in Processos, E!ComandoLoad(p), P!CarregaCodigo(p, n, Codigo(codigo))
      PROVE  Maquina!Next
  <2>1. PP!CarregaCodigo(p, n, Codigo(codigo))
    BY <1>7, MesmasPaginas
  <2>2. /\ PP!Leitura'[p] = [v \in Paginas |-> IF v < n THEN Codigo(codigo)[v] ELSE NaoMapeada]
        /\ alocacoes'[p] = SemArea /\ SoDe(p)
    BY <1>0, <1>2, <1>3, <2>1, CarregaVe
  <2>3. /\ funcionando /\ p \notin vivos /\ vivos' = vivos \cup {p} /\ ligado' = ligado
        /\ feito' = [q \in Processos |-> IF q \in vivos THEN feito[q] ELSE ContextoNovo]
    BY <1>7 DEF E!ComandoLoad, E!load_program, funcionando
  <2>4. usuarios' = usuarios \cup {p} /\ p \notin usuarios
    <3>1. ligado /\ Idle \in vivos
      BY <1>0, <2>3, SegueLigado DEF funcionando, E!funcionando
    <3>2. QED BY <2>3, <3>1 DEF usuarios
  <2>5. \A q \in usuarios : Igual(q)
    <3>1. usuarios \subseteq Processos /\ usuarios \subseteq vivos
      BY <1>0, Usuarios DEF usuarios
    <3>2. QED BY <2>2, <2>3, <2>4, <3>1 DEF SoDe, Igual
  <2>6. feito'[p] = ContextoNovo
    BY <2>3
  <2>7. Maquina!Cria(p, codigo)
    BY <1>0, <1>6, <2>2, <2>4, <2>5, <2>6, UmEntra
  <2>8. QED BY <2>7 DEF Maquina!Next
<1>8. ASSUME E!ComandoLoadFalha, P!CarregaCodigoSemQuadros(n, Codigo(codigo))
      PROVE  Maquina!Next
  <2>1. PP!CarregaCodigoSemQuadros(n, Codigo(codigo))
    BY <1>8, MesmasPaginas
  <2>2. PP!Leitura' = PP!Leitura /\ alocacoes' = alocacoes
    BY <1>0, <1>2, <1>3, <2>1, SemQuadrosVe
  <2>3. vivos' = vivos /\ ligado' = ligado /\ feito' = feito
    BY <1>8 DEF E!ComandoLoadFalha
  <2>4. usuarios' = usuarios /\ \A q \in usuarios : Igual(q)
    BY <2>2, <2>3 DEF usuarios, Igual
  <2>5. Maquina!Interno
    BY <1>0, <2>4, NinguemVe
  <2>6. QED BY <2>5, InternoPassa
<1>9. QED BY <1>4, <1>7, <1>8

-----------------------------------------------------------------------------
(* System calls *)

\* What a process reads at a page tells what its table has there.
LEMMA LeituraVe ==
    ASSUME KInv, NEW p \in Processos, NEW v \in Paginas
    PROVE  /\ PP!Leitura[p][v] = IF tabela[p][v].Present THEN pmem[tabela[p][v].PhyFrameID]
                                 ELSE IF tabela[p][v].Foo THEN PaginaZero ELSE NaoMapeada
           /\ PP!Leitura[p][v] = NaoMapeada <=> ~ tabela[p][v].Foo /\ ~ tabela[p][v].Present
<1>1. v \in PP!Paginas /\ PP!TypeOK
  BY MesmosQuadros DEF KInv, PP!IInv
<1>2. PP!Leitura[p][v] = IF tabela[p][v].Present THEN pmem[tabela[p][v].PhyFrameID]
                         ELSE IF tabela[p][v].Foo THEN PaginaZero ELSE NaoMapeada
  BY <1>1 DEF PP!Leitura
<1>3. tabela[p][v].Present => pmem[tabela[p][v].PhyFrameID] # NaoMapeada
  <2>1. tabela[p][v] \in PP!PageTableEntry
    BY <1>1 DEF PP!TypeOK
  <2>2. tabela[p][v].PhyFrameID \in PP!Quadros
    BY <2>1 DEF PP!PageTableEntry
  <2>3. pmem[tabela[p][v].PhyFrameID] \in Valores
    BY <1>1, <2>2 DEF PP!TypeOK, Valores
  <2>4. QED BY <2>3, KernelAssumption DEF Valores
<1>4. PaginaZero # NaoMapeada
  BY PagingVale, KernelAssumption DEF PP!PagingAssumption
<1>5. QED BY <1>2, <1>3, <1>4

\* A system call that only goes on, and prints or not.
LEMMA SeguePassa ==
    ASSUME MInv, KInv', NEW codigo, Chamada(codigo), codigo \notin {0, 4, 5, 7},
           FezUm(Seguinte(cpu_contexto)), SemPaginacao, NEW p, p = rodando,
           p = Idle => saida' = <<>> \/ saida'[1] = Idle,
           p # Idle =>
              \/ codigo = 1 /\ saida' = <<p, 1, Maquina!Texto(p, Ctx[p].gprs[1])>>
              \/ codigo = 2 /\ saida' = <<p, 2, <<>>>>
              \/ codigo = 3 /\ saida' = <<p, 3, <<Ctx[p].gprs[1]>>>>
              \/ codigo \notin {1, 2, 3} /\ saida' = <<>>
    PROVE  Maquina!Next
<1>0. KInv
  BY DEF MInv
<1>1. PICK c : c = Seguinte(cpu_contexto)
  OBVIOUS
<1>2. FezUm(c)
  BY <1>1 DEF FezUm
<1>3. PICK i : i = instrucao
  OBVIOUS
<1>4. funcionando /\ excecoes = {} /\ i.op = "Syscall" /\ gpr(0) = codigo
  BY <1>3 DEF Chamada, Cumpre
<1>5. CASE p = Idle
  <2>1. SoDe(rodando)
    BY SemPaginacaoVe DEF SoDe
  <2>2. Saida' = <<>>
    BY <1>5 DEF Saida
  <2>3. Maquina!Interno
    BY <1>0, <1>2, <1>5, <2>1, <2>2, IdleRoda
  <2>4. QED BY <2>3, InternoPassa
<1>6. CASE p # Idle
  <2>1. /\ p \in usuarios /\ usuarios' = usuarios /\ Ctx[p] = cpu_contexto
        /\ Ctx' = [Ctx EXCEPT ![p] = c] /\ Mem' = Mem /\ Areas' = Areas
    BY <1>0, <1>2, <1>6, UsuarioSoRegistradores
  <2>2. PICK texto, r : texto = Maquina!Texto(p, Ctx[p].gprs[1]) /\ r = <<Ctx[p].gprs[1]>>
    OBVIOUS
  <2>3. \/ codigo = 1 /\ saida' = <<p, 1, texto>>
        \/ codigo = 2 /\ saida' = <<p, 2, <<>>>>
        \/ codigo = 3 /\ saida' = <<p, 3, r>>
        \/ codigo \notin {1, 2, 3} /\ saida' = <<>>
    BY <1>6, <2>2
  <2>4. Saida' = saida'
    <3>1. ASSUME NEW k, NEW x, saida' = <<p, k, x>> PROVE saida'[1] # Idle
      BY <1>6, <3>1
    <3>2. saida' = <<>> \/ saida'[1] # Idle
      BY <2>3, <3>1
    <3>3. QED BY <3>2 DEF Saida
  <2>5. Ctx' = [Ctx EXCEPT ![p] = Seguinte(@)]
    BY <1>1, <2>1
  <2>6. codigo = Ctx[p].gprs[0]
    BY <1>4, <2>1 DEF gpr
  <2>7. \/ codigo = 1 /\ Saida' = <<p, 1, Maquina!Texto(p, Ctx[p].gprs[1])>>
        \/ codigo = 2 /\ Saida' = <<p, 2, <<>>>>
        \/ codigo = 3 /\ Saida' = <<p, 3, <<Ctx[p].gprs[1]>>>>
        \/ codigo \notin {1, 2, 3} /\ Saida' = <<>>
    BY <2>2, <2>3, <2>4
  <2>8. Maquina!Chamada(p)
    BY <2>1, <2>5, <2>6, <2>7, FormaChamada
  <2>9. QED BY <1>3, <1>4, <1>6, <2>1, <2>8, InstrucaoDe
<1>7. QED BY <1>5, <1>6

\* Sleeping changes what the process sees of nothing but its program counter.
LEMMA SilenciosasPassam ==
    ASSUME MInv, KInv', syscall_6_dormir_processo \/ syscall_desconhecida, saida' = <<>>
    PROVE  Maquina!Next
<1>0. KInv
  BY DEF MInv
<1>1. PICK p : p = rodando
  OBVIOUS
<1>2. PICK codigo : codigo = gpr(0)
  OBVIOUS
<1>3. PICK c : c = Seguinte(cpu_contexto)
  OBVIOUS
<1>4. Chamada(codigo) /\ codigo \notin {0, 1, 2, 3, 4, 5, 7} /\ SemPaginacao
  BY <1>2 DEF syscall_6_dormir_processo, syscall_desconhecida, Chamada
<1>5. FezUm(c)
  <2>1. CASE syscall_6_dormir_processo
    <3>1. PICK s : s = gpr(1)
      OBVIOUS
    <3>2. E!syscall_6_dormir_processo(s, c)
      BY <1>3, <2>1, <3>1 DEF syscall_6_dormir_processo, E!syscall_6_dormir_processo
    <3>3. QED BY <1>0, <3>2, DormeFez
  <2>2. CASE syscall_desconhecida
    <3>1. E!Executa(c)
      BY <1>3, <2>2 DEF syscall_desconhecida, E!Executa
    <3>2. QED BY <1>0, <3>1, ExecutaFez
  <2>3. QED BY <2>1, <2>2
<1>6. FezUm(Seguinte(cpu_contexto))
  BY <1>3, <1>5 DEF FezUm
<1>7. QED BY <1>1, <1>4, <1>6, SeguePassa

\* The text that is printed is the one the process has in its memory.
LEMMA TextoDe ==
    ASSUME KInv, funcionando, NEW p, p = rodando, p # Idle,
           NEW a \in Palavras, NEW n \in Palavras, Fim((a + n) % virtual_mem_size),
           \A m \in 0 .. n - 1 : ~ Fim((a + m) % virtual_mem_size)
    PROVE  Maquina!Texto(p, a)
              = [m \in 1 .. n |-> Caractere((a + (m - 1)) % virtual_mem_size)]
<1> DEFINE Onde(m) == (a + m) % virtual_mem_size
           Letra(m) == IF Mem[p][Pagina(Onde(m))] = NaoMapeada THEN 0
                       ELSE Palavra(Mem[p][Pagina(Onde(m))], Onde(m)) % CHAR_MOD
           Acaba(j) == Letra(j) = 0 /\ \A m \in 0 .. j - 1 : Letra(m) # 0
           k == CHOOSE j \in Palavras : Acaba(j)
<1>1. Maquina!Texto(p, a) = [m \in 1 .. k |-> Letra(m - 1)]
  BY DEF Maquina!Texto, Maquina!Em, Maquina!Pagina, Pagina, Maquina!Palavra, Palavra,
         Maquina!Desloc, Desloc, Maquina!virtual_mem_size, virtual_mem_size,
         Maquina!Palavras, Palavras, Mem
<1>2. ASSUME NEW m \in Palavras
      PROVE  /\ Letra(m) = 0 <=> Fim(Onde(m))
             /\ ~ Fim(Onde(m)) => Letra(m) = Caractere(Onde(m))
  <2>1. PICK v : v = Onde(m)
    OBVIOUS
  <2>2. v \in Palavras
    <3>1. a + m \in Int
      BY DEF Palavras
    <3>2. QED BY <2>1, <3>1, Corta
  <2>3. Pagina(v) \in Paginas
    BY <2>2, Enderecos
  <2>4. p \in Processos /\ Mem[p] = PP!Leitura[p]
    BY QuemRoda
  <2>5. Mem[p][Pagina(v)] = IF tabela[p][Pagina(v)].Present
                            THEN pmem[tabela[p][Pagina(v)].PhyFrameID]
                            ELSE IF tabela[p][Pagina(v)].Foo THEN PaginaZero ELSE NaoMapeada
    BY <2>3, <2>4, LeituraVe
  <2>6. Mem[p][Pagina(v)] = NaoMapeada
           <=> ~ tabela[p][Pagina(v)].Foo /\ ~ tabela[p][Pagina(v)].Present
    BY <2>3, <2>4, LeituraVe
  <2>7. Letra(m) = IF Mem[p][Pagina(v)] = NaoMapeada THEN 0
                   ELSE Palavra(Mem[p][Pagina(v)], v) % CHAR_MOD
    BY <2>1
  <2>8. Palavra(PaginaZero, v) % CHAR_MOD = 0
    <3>1. Desloc(v) \in 0 .. page_size - 1
      BY <2>2, Enderecos
    <3>2. Palavra(PaginaZero, v) = 0
      BY <3>1 DEF Palavra, PaginaZero
    <3>3. \A x \in Nat \ {0} : 0 % x = 0
      OBVIOUS
    <3>4. QED BY <3>2, <3>3, KernelAssumption
  <2>9. /\ Fim(v) <=> ~ tabela[p][Pagina(v)].Present
                      \/ Palavra(pmem[tabela[p][Pagina(v)].PhyFrameID], v) % CHAR_MOD = 0
        /\ Caractere(v) = Palavra(pmem[tabela[p][Pagina(v)].PhyFrameID], v) % CHAR_MOD
    BY DEF Fim, Caractere
  <2> HIDE DEF Letra, Onde
  <2>10. CASE tabela[p][Pagina(v)].Present
    <3>1. Letra(m) = Palavra(pmem[tabela[p][Pagina(v)].PhyFrameID], v) % CHAR_MOD
      BY <2>5, <2>6, <2>7, <2>10
    <3>2. QED BY <2>1, <2>9, <2>10, <3>1
  <2>11. CASE ~ tabela[p][Pagina(v)].Present
    <3>1. Letra(m) = 0
      BY <2>5, <2>6, <2>7, <2>8, <2>11
    <3>2. QED BY <2>1, <2>9, <2>11, <3>1
  <2>12. QED BY <2>10, <2>11
<1>3. n \in Nat /\ \A j \in Palavras : j \in Nat /\ 0 .. j - 1 \subseteq Palavras
  BY Tamanho DEF Palavras
<1>4. \A m \in 0 .. n - 1 : m \in Palavras /\ ~ Fim(Onde(m))
  BY <1>3
<1>5. Fim(Onde(n))
  OBVIOUS
<1> HIDE DEF Letra, Onde
<1>6. Letra(n) = 0 /\ \A m \in 0 .. n - 1 : Letra(m) # 0 /\ Letra(m) = Caractere(Onde(m))
  BY <1>2, <1>4, <1>5
<1>7. k = n
  <2>1. Acaba(n)
    BY <1>6
  <2>2. k \in Palavras /\ Acaba(k)
    BY <2>1
  <2> HIDE DEF k
  <2>3. ~ (k < n) /\ ~ (n < k)
    <3>1. ASSUME k < n PROVE FALSE
      <4>1. k \in 0 .. n - 1
        BY <1>3, <2>2, <3>1
      <4>2. QED BY <1>6, <2>2, <4>1
    <3>2. ASSUME n < k PROVE FALSE
      <4>1. n \in 0 .. k - 1
        BY <1>3, <2>2, <3>2
      <4>2. QED BY <1>6, <2>2, <4>1
    <3>3. QED BY <3>1, <3>2
  <2>4. QED BY <1>3, <2>2, <2>3
<1> HIDE DEF k
<1>8. \A m \in 1 .. n : Letra(m - 1) = Caractere(Onde(m - 1))
  <2>1. \A m \in 1 .. n : m - 1 \in 0 .. n - 1
    BY <1>3
  <2>2. QED BY <1>6, <2>1
<1>9. [m \in 1 .. k |-> Letra(m - 1)] = [m \in 1 .. n |-> Caractere(Onde(m - 1))]
  BY <1>7, <1>8
<1>10. QED BY <1>1, <1>9 DEF Onde

LEMMA ImprimePassa ==
    ASSUME MInv, KInv', syscall_1_imprimir_string \/ ImprimeOutra
    PROVE  Maquina!Next
<1>0. KInv
  BY DEF MInv
<1>1. PICK p : p = rodando
  OBVIOUS
<1>2. PICK c : c = Seguinte(cpu_contexto)
  OBVIOUS
<1>3. PICK a : a = gpr(1)
  OBVIOUS
<1>4. E!Executa(c) /\ SemPaginacao
  BY <1>2 DEF syscall_1_imprimir_string, ImprimeOutra, Imprime, E!Executa
<1>5. FezUm(Seguinte(cpu_contexto)) /\ funcionando
  <2>1. FezUm(c)
    BY <1>0, <1>4, ExecutaFez
  <2>2. QED BY <1>2, <2>1 DEF FezUm
<1>6. ASSUME p # Idle
      PROVE  Ctx[p] = cpu_contexto /\ Ctx[p].gprs[1] = a
  <2>1. Ctx[p] = cpu_contexto
    BY <1>0, <1>1, <1>5, <1>6, QuemRoda
  <2>2. QED BY <1>3, <2>1 DEF gpr
<1>7. CASE syscall_1_imprimir_string
  <2>1. PICK n \in Palavras :
            /\ Fim((a + n) % virtual_mem_size)
            /\ \A m \in 0 .. n - 1 : ~ Fim((a + m) % virtual_mem_size)
            /\ saida' = <<p, 1, [m \in 1 .. n |->
                                    Caractere((a + (m - 1)) % virtual_mem_size)]>>
    BY <1>1, <1>3, <1>7 DEF syscall_1_imprimir_string, Imprime
  <2>2. a \in Palavras
    BY <1>0, <1>3, <1>5, Lendo
  <2>3. ASSUME p # Idle
        PROVE  saida' = <<p, 1, Maquina!Texto(p, Ctx[p].gprs[1])>>
    <3>1. Maquina!Texto(p, a)
             = [m \in 1 .. n |-> Caractere((a + (m - 1)) % virtual_mem_size)]
      BY <1>0, <1>1, <1>5, <2>1, <2>2, <2>3, TextoDe
    <3>2. saida' = <<p, 1, Maquina!Texto(p, a)>>
      BY <2>1, <3>1
    <3>3. Maquina!Texto(p, Ctx[p].gprs[1]) = Maquina!Texto(p, a)
      BY <1>6, <2>3
    <3>4. QED BY <3>2, <3>3
  <2>4. saida'[1] = p /\ Chamada(1)
    BY <1>7, <2>1 DEF syscall_1_imprimir_string
  <2>5. QED BY <1>1, <1>4, <1>5, <2>3, <2>4, SeguePassa
<1>8. CASE Chamada(2) /\ Imprime(2, <<>>)
  <2>1. saida' = <<p, 2, <<>>>>
    BY <1>1, <1>8 DEF Imprime
  <2>2. saida'[1] = p
    BY <2>1
  <2>3. QED BY <1>1, <1>4, <1>5, <1>8, <2>1, <2>2, SeguePassa
<1>9. CASE Chamada(3) /\ Imprime(3, <<gpr(1)>>)
  <2>1. saida' = <<p, 3, <<a>>>>
    BY <1>1, <1>3, <1>9 DEF Imprime
  <2>2. saida'[1] = p
    BY <2>1
  <2>3. p # Idle => saida' = <<p, 3, <<Ctx[p].gprs[1]>>>>
    BY <1>6, <2>1
  <2>4. QED BY <1>1, <1>4, <1>5, <1>9, <2>2, <2>3, SeguePassa
<1>10. QED BY <1>7, <1>8, <1>9 DEF ImprimeOutra

\* The system calls that answer.
LEMMA RespostaPassa ==
    ASSUME MInv, KInv', NEW codigo \in {4, 5, 7}, Chamada(codigo), NEW p, p = rodando,
           NEW c, FezUm(c), SoDe(p), saida' = <<>>,
           p # Idle =>
              \/ codigo = 4 /\ Maquina!Aloca(p)
              \/ codigo = 5 /\ Maquina!Desaloca(p)
              \/ /\ codigo = 7 /\ Mem' = Mem /\ Areas' = Areas
                 /\ \E x \in Palavras : Maquina!Responde(p, x, Ctx[p].gprs[2])
    PROVE  Maquina!Next
<1>0. KInv /\ Saida' = <<>>
  BY DEF MInv, Saida
<1>1. PICK i : i = instrucao
  OBVIOUS
<1>2. funcionando /\ excecoes = {} /\ i.op = "Syscall" /\ gpr(0) = codigo
  BY <1>1 DEF Chamada, Cumpre
<1>3. CASE p = Idle
  <2>1. SoDe(rodando)
    BY DEF SoDe
  <2>2. Maquina!Interno
    BY <1>0, <1>3, <2>1, IdleRoda
  <2>3. QED BY <2>2, InternoPassa
<1>4. CASE p # Idle
  <2>1. p \in usuarios /\ usuarios' = usuarios /\ Ctx[p] = cpu_contexto
    BY <1>0, <1>4, UsuarioRoda
  <2>2. codigo = Ctx[p].gprs[0]
    BY <1>2, <2>1 DEF gpr
  <2>3. Maquina!Chamada(p)
    BY <1>0, <1>4, <2>1, <2>2, FormaChamada
  <2>4. QED BY <1>1, <1>2, <1>4, <2>1, <2>3, InstrucaoDe
<1>5. QED BY <1>3, <1>4

\* What an answer does to the registers.
LEMMA RespondeFez ==
    ASSUME KInv, NEW r1, NEW r2, Responde(r1, r2)
    PROVE  \E c : c = ComReg(ComReg(Seguinte(cpu_contexto), 1, r1), 2, r2) /\ FezUm(c)
<1>1. PICK c : c = ComReg(ComReg(Seguinte(cpu_contexto), 1, r1), 2, r2)
  OBVIOUS
<1>2. E!Executa(c)
  BY <1>1 DEF Responde, E!Executa
<1>3. FezUm(c)
  BY <1>2, ExecutaFez
<1>4. QED BY <1>1, <1>3

LEMMA TempoPassa ==
    ASSUME MInv, KInv', syscall_7_retornar_tempo_iniciacao, saida' = <<>>
    PROVE  Maquina!Next
<1>0. KInv
  BY DEF MInv
<1>1. PICK p : p = rodando
  OBVIOUS
<1>2. PICK x : x = (E!tempo_sistema - tempo_criacao[rodando]) % virtual_mem_size
  OBVIOUS
<1>3. PICK r : r = gpr(2)
  OBVIOUS
<1>4. Chamada(7) /\ SemPaginacao /\ funcionando
  BY DEF syscall_7_retornar_tempo_iniciacao, Chamada, Cumpre
<1>5. Responde(x, r)
  BY <1>2, <1>3 DEF syscall_7_retornar_tempo_iniciacao, Responde, E!Executa
<1>6. PICK c : c = ComReg(ComReg(Seguinte(cpu_contexto), 1, x), 2, r) /\ FezUm(c)
  BY <1>0, <1>5, RespondeFez
<1>7. x \in Palavras
  <2>1. rodando \in Processos /\ agora \in Nat
    BY <1>0, <1>4, Rodando
  <2>2. E!tempo_sistema - tempo_criacao[rodando] \in Int
    BY <1>0, <2>1, TempoTipo DEF KInv, IdadeTipo, Palavras
  <2>3. QED BY <1>2, <2>2, Corta
<1>8. SoDe(p)
  BY <1>4, SemPaginacaoVe DEF SoDe
<1>9. ASSUME p # Idle
      PROVE  Mem' = Mem /\ Areas' = Areas
             /\ \E y \in Palavras : Maquina!Responde(p, y, Ctx[p].gprs[2])
  <2>1. Ctx[p] = cpu_contexto /\ Ctx' = [Ctx EXCEPT ![p] = c] /\ Mem' = Mem /\ Areas' = Areas
    BY <1>0, <1>1, <1>4, <1>6, <1>9, UsuarioSoRegistradores
  <2>2. r = Ctx[p].gprs[2]
    BY <1>3, <2>1 DEF gpr
  <2>3. Ctx' = [Ctx EXCEPT ![p] = ComReg(ComReg(Seguinte(@), 1, x), 2, r)]
    BY <1>6, <2>1
  <2>4. Maquina!Responde(p, x, r)
    BY <2>3, FormaResponde
  <2>5. Maquina!Responde(p, x, Ctx[p].gprs[2])
    BY <2>2, <2>4 DEF Maquina!Responde
  <2>6. QED BY <1>7, <2>1, <2>5
<1>10. QED BY <1>1, <1>4, <1>6, <1>8, <1>9, RespostaPassa

\* Where an area fits is the same seen from the process and from its page table.
LEMMA CabeVe ==
    ASSUME KInv, funcionando, NEW p, p = rodando, p # Idle, NEW n \in Nat, NEW s \in Nat
    PROVE  PP!Cabe(p, s, n) <=> /\ s + n <= ptes_per_table
                                /\ \A v \in s .. s + n - 1 : Mem[p][v] = NaoMapeada
<1>1. p \in Processos /\ Mem[p] = PP!Leitura[p]
  BY QuemRoda
<1>2. s + n <= ptes_per_table => \A v \in s .. s + n - 1 : v \in Paginas
  BY Tamanho DEF Paginas
<1>3. \A v \in Paginas : Mem[p][v] = NaoMapeada
                            <=> ~ tabela[p][v].Foo /\ ~ tabela[p][v].Present
  BY <1>1, LeituraVe
<1>4. QED BY <1>2, <1>3 DEF PP!Cabe

LEMMA FormaLugar ==
    ASSUME NEW p, NEW s, NEW n
    PROVE  Maquina!Lugar(p, s, n) <=>
              LET Cabe(t) == /\ t + n <= ptes_per_table
                             /\ \A v \in t .. t + n - 1 : Mem[p][v] = NaoMapeada
              IN  Cabe(s) /\ \A t \in 0 .. s - 1 : ~ Cabe(t)
BY DEF Maquina!Lugar, Mem

\* The area goes to the place that the machine says.
LEMMA LugarVe ==
    ASSUME KInv, funcionando, NEW p, p = rodando, p # Idle, NEW n \in Nat, NEW s \in Paginas
    PROVE  Maquina!Lugar(p, s, n) <=>
              PP!Cabe(p, s, n) /\ \A t \in Paginas : t < s => ~ PP!Cabe(p, t, n)
<1>1. s \in Nat /\ \A t : t \in 0 .. s - 1 <=> t \in Paginas /\ t < s
  BY Tamanho DEF Paginas
<1>2. \A t \in Nat : PP!Cabe(p, t, n) <=> /\ t + n <= ptes_per_table
                                /\ \A v \in t .. t + n - 1 : Mem[p][v] = NaoMapeada
  BY CabeVe
<1>3. \A t \in 0 .. s - 1 : t \in Nat
  BY <1>1
<1>4. Maquina!Lugar(p, s, n) <=> PP!Cabe(p, s, n) /\ \A t \in 0 .. s - 1 : ~ PP!Cabe(p, t, n)
  BY <1>1, <1>2, <1>3, FormaLugar
<1>5. QED BY <1>1, <1>4

\* When an area fits nowhere the machine has no place for it.
LEMMA SemLugarVe ==
    ASSUME KInv, funcionando, NEW p, p = rodando, p # Idle, NEW n \in Nat,
           \A s \in Paginas : ~ PP!Cabe(p, s, n)
    PROVE  \A s \in Paginas : ~ Maquina!Lugar(p, s, n)
BY LugarVe

\* The three answers of an allocation.
LEMMA FormaAloca ==
    ASSUME NEW p, NEW n, n = (Ctx[p].gprs[1] + page_size - 1) \div page_size, NEW r2,
           r2 = Ctx[p].gprs[2],
           \/ /\ n = 0 /\ Ctx' = [Ctx EXCEPT ![p] = ComReg(ComReg(Seguinte(@), 1, 0), 2, r2)]
              /\ Mem' = Mem /\ Areas' = Areas
           \/ /\ n > 0 /\ \A s \in Paginas : ~ Maquina!Lugar(p, s, n)
              /\ Ctx' = [Ctx EXCEPT ![p] =
                            ComReg(ComReg(Seguinte(@), 1, 1), 2, virtual_mem_size - 1)]
              /\ Mem' = Mem /\ Areas' = Areas
           \/ \E s \in Paginas :
              /\ n > 0 /\ Maquina!Lugar(p, s, n)
              /\ Ctx' = [Ctx EXCEPT ![p] =
                            ComReg(ComReg(Seguinte(@), 1, 1), 2, s * page_size)]
              /\ Areas' = [Areas EXCEPT ![p][s] = n]
              /\ Mem' = [Mem EXCEPT ![p] = [v \in Paginas |->
                            IF v \in s .. s + n - 1 THEN PaginaZero ELSE Mem[p][v]]]
    PROVE  Maquina!Aloca(p)
<1> DEFINE Deixa(r1, r3) == Ctx' = [Ctx EXCEPT ![p] = ComReg(ComReg(Seguinte(@), 1, r1), 2, r3)]
           Cabe(t, m) == /\ t + m <= ptes_per_table
                         /\ \A v \in t .. t + m - 1 : Mem[p][v] = NaoMapeada
           Lugar(s, m) == Cabe(s, m) /\ \A t \in 0 .. s - 1 : ~ Cabe(t, m)
<1>1. Maquina!Aloca(p) <=>
         LET c == Ctx[p]  m == (c.gprs[1] + page_size - 1) \div page_size IN
         \/ m = 0 /\ Deixa(0, c.gprs[2]) /\ Mem' = Mem /\ Areas' = Areas
         \/ /\ m > 0 /\ \A s \in Paginas : ~ Lugar(s, m)
            /\ Deixa(1, virtual_mem_size - 1)
            /\ Mem' = Mem /\ Areas' = Areas
         \/ \E s \in Paginas :
            /\ m > 0 /\ Lugar(s, m)
            /\ Deixa(1, s * page_size)
            /\ Areas' = [Areas EXCEPT ![p][s] = m]
            /\ Mem' = [Mem EXCEPT ![p] = [v \in Paginas |->
                          IF v \in s .. s + m - 1 THEN PaginaZero ELSE Mem[p][v]]]
  BY DEF Maquina!Aloca, Maquina!Responde, Maquina!Lugar, Maquina!Paginas, Paginas,
         Maquina!PaginaZero, PaginaZero, Maquina!ComReg, ComReg, Maquina!Seguinte, Seguinte,
         Maquina!virtual_mem_size, virtual_mem_size, Ctx, Mem, Areas
<1>2. \A s : Maquina!Lugar(p, s, n) <=> Lugar(s, n)
  BY FormaLugar
<1>3. \/ n = 0 /\ Deixa(0, r2) /\ Mem' = Mem /\ Areas' = Areas
      \/ /\ n > 0 /\ \A s \in Paginas : ~ Lugar(s, n)
         /\ Deixa(1, virtual_mem_size - 1)
         /\ Mem' = Mem /\ Areas' = Areas
      \/ \E s \in Paginas :
         /\ n > 0 /\ Lugar(s, n)
         /\ Deixa(1, s * page_size)
         /\ Areas' = [Areas EXCEPT ![p][s] = n]
         /\ Mem' = [Mem EXCEPT ![p] = [v \in Paginas |->
                       IF v \in s .. s + n - 1 THEN PaginaZero ELSE Mem[p][v]]]
  BY <1>2
<1>4. CASE n = 0 /\ Deixa(0, r2) /\ Mem' = Mem /\ Areas' = Areas
  BY <1>1, <1>4
<1>5. CASE /\ n > 0 /\ \A s \in Paginas : ~ Lugar(s, n)
           /\ Deixa(1, virtual_mem_size - 1)
           /\ Mem' = Mem /\ Areas' = Areas
  <2>1. \A s \in Paginas : ~ Lugar(s, (Ctx[p].gprs[1] + page_size - 1) \div page_size)
    BY <1>5
  <2> HIDE DEF Lugar
  <2>2. QED BY <1>1, <1>5, <2>1
<1>6. ASSUME NEW s \in Paginas, n > 0, Lugar(s, n), Deixa(1, s * page_size),
             Areas' = [Areas EXCEPT ![p][s] = n],
             Mem' = [Mem EXCEPT ![p] = [v \in Paginas |->
                           IF v \in s .. s + n - 1 THEN PaginaZero ELSE Mem[p][v]]]
      PROVE  Maquina!Aloca(p)
  <2>1. [v \in Paginas |-> IF v \in s .. s + n - 1 THEN PaginaZero ELSE Mem[p][v]]
        = [v \in Paginas |->
              IF v \in s .. s + ((Ctx[p].gprs[1] + page_size - 1) \div page_size) - 1
              THEN PaginaZero ELSE Mem[p][v]]
    OBVIOUS
  <2>2. Lugar(s, (Ctx[p].gprs[1] + page_size - 1) \div page_size)
    BY <1>6
  <2> HIDE DEF Lugar
  <2>3. QED BY <1>1, <1>6, <2>1, <2>2
<1>7. QED BY <1>3, <1>4, <1>5, <1>6

\* The two answers of a release.
LEMMA FormaDesaloca ==
    ASSUME NEW p, NEW s, s = Pagina(Ctx[p].gprs[1]),
           \/ /\ Desloc(Ctx[p].gprs[1]) = 0 /\ Areas[p][s] # 0
              /\ Ctx' = [Ctx EXCEPT ![p] =
                            ComReg(ComReg(Seguinte(@), 1, 1), 2, Ctx[p].gprs[2])]
              /\ Areas' = [Areas EXCEPT ![p][s] = 0]
              /\ Mem' = [Mem EXCEPT ![p] = [v \in Paginas |->
                     IF v \in s .. s + Areas[p][s] - 1 THEN NaoMapeada ELSE Mem[p][v]]]
           \/ /\ ~ (Desloc(Ctx[p].gprs[1]) = 0 /\ Areas[p][s] # 0)
              /\ Ctx' = [Ctx EXCEPT ![p] =
                            ComReg(ComReg(Seguinte(@), 1, 0), 2, Ctx[p].gprs[2])]
              /\ Mem' = Mem /\ Areas' = Areas
    PROVE  Maquina!Desaloca(p)
<1> DEFINE Deixa(r1, r3) == Ctx' = [Ctx EXCEPT ![p] = ComReg(ComReg(Seguinte(@), 1, r1), 2, r3)]
<1>1. Maquina!Desaloca(p) <=>
         LET c == Ctx[p]  t == Pagina(c.gprs[1]) IN
         IF Desloc(c.gprs[1]) = 0 /\ Areas[p][t] # 0
         THEN /\ Deixa(1, c.gprs[2])
              /\ Areas' = [Areas EXCEPT ![p][t] = 0]
              /\ Mem' = [Mem EXCEPT ![p] = [v \in Paginas |->
                            IF v \in t .. t + Areas[p][t] - 1 THEN NaoMapeada ELSE Mem[p][v]]]
         ELSE Deixa(0, c.gprs[2]) /\ Mem' = Mem /\ Areas' = Areas
  BY DEF Maquina!Desaloca, Maquina!Responde, Maquina!Paginas, Paginas, Maquina!Pagina, Pagina,
         Maquina!Desloc, Desloc, Maquina!ComReg, ComReg, Maquina!Seguinte, Seguinte,
         Maquina!virtual_mem_size, virtual_mem_size, Ctx, Mem, Areas
<1>2. ASSUME Desloc(Ctx[p].gprs[1]) = 0 /\ Areas[p][s] # 0
      PROVE  Maquina!Desaloca(p)
  <2>1. Deixa(1, Ctx[p].gprs[2]) /\ Areas' = [Areas EXCEPT ![p][Pagina(Ctx[p].gprs[1])] = 0]
    BY <1>2
  <2>2. [v \in Paginas |-> IF v \in s .. s + Areas[p][s] - 1 THEN NaoMapeada ELSE Mem[p][v]]
        = [v \in Paginas |->
              IF v \in Pagina(Ctx[p].gprs[1])
                       .. Pagina(Ctx[p].gprs[1]) + Areas[p][Pagina(Ctx[p].gprs[1])] - 1
              THEN NaoMapeada ELSE Mem[p][v]]
    OBVIOUS
  <2>3. QED BY <1>1, <1>2, <2>1, <2>2
<1>3. ASSUME ~ (Desloc(Ctx[p].gprs[1]) = 0 /\ Areas[p][s] # 0)
      PROVE  Maquina!Desaloca(p)
  BY <1>1, <1>3
<1>4. QED BY <1>2, <1>3

LEMMA AlocaPassa ==
    ASSUME MInv, KInv', syscall_4_alocar_memoria, saida' = <<>>
    PROVE  Maquina!Next
<1>0. KInv
  BY DEF MInv
<1>1. PICK p : p = rodando
  OBVIOUS
<1>2. PICK r : r = gpr(2)
  OBVIOUS
<1>3. PICK n : n = paginas_necessarias(gpr(1))
  OBVIOUS
<1>4. Chamada(4) /\ funcionando /\ p \in Processos
  <2>1. Chamada(4) /\ funcionando
    BY DEF syscall_4_alocar_memoria, Chamada, Cumpre
  <2>2. QED BY <1>0, <1>1, <2>1, Rodando
<1>5. n \in 0 .. ptes_per_table /\ n = (gpr(1) + page_size - 1) \div page_size
  <2>1. gpr(1) \in Palavras
    BY <1>0, <1>4, Lendo
  <2>2. gpr(1) \in Nat /\ gpr(1) % virtual_mem_size = gpr(1)
    BY <2>1, Tamanho DEF Palavras
  <2>3. QED BY <1>3, <2>2, PaginasDeCodigo DEF paginas_necessarias
<1>6. p # Idle => Ctx[p] = cpu_contexto
  BY <1>0, <1>1, <1>4, QuemRoda
<1>7. \/ n = 0 /\ Responde(0, r) /\ SemPaginacao
      \/ /\ n # 0 /\ \A s \in Paginas : ~ PP!Cabe(p, s, n)
         /\ Responde(1, SemEndereco) /\ SemPaginacao
      \/ \E s \in Paginas : /\ n # 0 /\ PP!aloca_dinamicamente(p, s, n)
                            /\ Responde(1, s * page_size)
  <2>1. CASE n = 0 /\ Responde(0, gpr(2)) /\ SemPaginacao
    BY <1>2, <2>1 DEF Responde, E!Executa
  <2>2. CASE /\ n # 0 /\ \A s \in Paginas : ~ P!Cabe(rodando, s, n)
             /\ Responde(1, SemEndereco) /\ SemPaginacao
    <3>1. \A s \in Paginas : ~ P!Cabe(p, s, n)
      BY <1>1, <2>2 DEF P!Cabe
    <3>2. \A s \in Paginas : ~ PP!Cabe(p, s, n)
      BY <3>1, MesmosQuadros
    <3>3. QED BY <2>2, <3>2
  <2>3. ASSUME NEW s \in Paginas, n # 0, P!aloca_dinamicamente(rodando, s, n),
               Responde(1, s * page_size)
        PROVE  n # 0 /\ PP!aloca_dinamicamente(p, s, n) /\ Responde(1, s * page_size)
    <3>1. P!aloca_dinamicamente(p, s, n)
      BY <1>1, <2>3 DEF P!aloca_dinamicamente, P!Cabe
    <3>2. QED BY <2>3, <3>1, MesmasPaginas
  <2>4. \/ n = 0 /\ Responde(0, gpr(2)) /\ SemPaginacao
        \/ /\ n # 0 /\ \A s \in Paginas : ~ P!Cabe(rodando, s, n)
           /\ Responde(1, SemEndereco) /\ SemPaginacao
        \/ \E s \in Paginas : /\ n # 0 /\ P!aloca_dinamicamente(rodando, s, n)
                              /\ Responde(1, s * page_size)
    <3>1. syscall_4_alocar_memoria <=>
            LET m == paginas_necessarias(gpr(1)) IN
            /\ Chamada(4)
            /\ \/ m = 0 /\ Responde(0, gpr(2)) /\ SemPaginacao
               \/ \E s \in Paginas : /\ m # 0 /\ P!aloca_dinamicamente(rodando, s, m)
                                     /\ Responde(1, s * page_size)
               \/ /\ m # 0 /\ \A s \in Paginas : ~P!Cabe(rodando, s, m)
                  /\ Responde(1, SemEndereco)
                  /\ SemPaginacao
      BY DEF syscall_4_alocar_memoria
    <3>2. QED BY <1>3, <3>1 DEF P!aloca_dinamicamente, P!Cabe
  <2>5. QED BY <2>1, <2>2, <2>3, <2>4
<1>8. CASE n = 0 /\ Responde(0, r) /\ SemPaginacao
  <2>1. PICK c : c = ComReg(ComReg(Seguinte(cpu_contexto), 1, 0), 2, r) /\ FezUm(c)
    BY <1>0, <1>8, RespondeFez
  <2>2. SoDe(p)
    BY <1>8, SemPaginacaoVe DEF SoDe
  <2>3. ASSUME p # Idle PROVE Maquina!Aloca(p)
    <3>1. Ctx[p] = cpu_contexto /\ Ctx' = [Ctx EXCEPT ![p] = c] /\ Mem' = Mem /\ Areas' = Areas
      BY <1>0, <1>1, <1>8, <2>1, <2>3, UsuarioSoRegistradores
    <3>2. /\ n = (Ctx[p].gprs[1] + page_size - 1) \div page_size /\ r = Ctx[p].gprs[2]
          /\ Ctx' = [Ctx EXCEPT ![p] = ComReg(ComReg(Seguinte(@), 1, 0), 2, r)]
      BY <1>2, <1>5, <2>1, <3>1 DEF gpr
    <3>3. QED BY <1>8, <3>1, <3>2, FormaAloca
  <2>4. QED BY <1>1, <1>4, <2>1, <2>2, <2>3, RespostaPassa
<1>9. CASE /\ n # 0 /\ \A s \in Paginas : ~ PP!Cabe(p, s, n)
           /\ Responde(1, SemEndereco) /\ SemPaginacao
  <2>1. PICK c : c = ComReg(ComReg(Seguinte(cpu_contexto), 1, 1), 2, SemEndereco) /\ FezUm(c)
    BY <1>0, <1>9, RespondeFez DEF SemEndereco
  <2>2. SoDe(p)
    BY <1>9, SemPaginacaoVe DEF SoDe
  <2>3. ASSUME p # Idle PROVE Maquina!Aloca(p)
    <3>1. Ctx[p] = cpu_contexto /\ Ctx' = [Ctx EXCEPT ![p] = c] /\ Mem' = Mem /\ Areas' = Areas
      BY <1>0, <1>1, <1>9, <2>1, <2>3, UsuarioSoRegistradores
    <3>2. PICK r2 : r2 = Ctx[p].gprs[2]
      OBVIOUS
    <3>3. n = (Ctx[p].gprs[1] + page_size - 1) \div page_size
      BY <1>5, <3>1 DEF gpr
    <3>4. Ctx' = [Ctx EXCEPT ![p] =
                     ComReg(ComReg(Seguinte(@), 1, 1), 2, virtual_mem_size - 1)]
      BY <2>1, <3>1 DEF SemEndereco
    <3>5. n > 0 /\ \A s \in Paginas : ~ Maquina!Lugar(p, s, n)
      <4>1. n \in Nat /\ n > 0
        BY <1>5, <1>9, Tamanho
      <4>2. QED BY <1>0, <1>1, <1>4, <1>9, <2>3, <4>1, SemLugarVe
    <3>6. QED BY <3>1, <3>2, <3>3, <3>4, <3>5, FormaAloca
  <2>4. QED BY <1>1, <1>4, <2>1, <2>2, <2>3, RespostaPassa
<1>10. ASSUME NEW s \in Paginas, n # 0, PP!aloca_dinamicamente(p, s, n),
              Responde(1, s * page_size)
       PROVE  Maquina!Next
  <2>1. PICK c : c = ComReg(ComReg(Seguinte(cpu_contexto), 1, 1), 2, s * page_size) /\ FezUm(c)
    BY <1>0, <1>10, RespondeFez
  <2>2. n \in 1 .. ptes_per_table /\ n \in Nat /\ n > 0
    BY <1>5, <1>10, Tamanho
  <2>3. /\ PP!Leitura' = [PP!Leitura EXCEPT ![p] = [v \in Paginas |->
               IF v \in s .. s + n - 1 THEN PaginaZero ELSE PP!Leitura[p][v]]]
        /\ alocacoes' = [alocacoes EXCEPT ![p][s] = n]
        /\ SoDe(p)
    BY <1>0, <1>4, <1>10, <2>2, AlocaVe
  <2>4. ASSUME p # Idle PROVE Maquina!Aloca(p)
    <3>1. /\ Ctx[p] = cpu_contexto /\ Ctx' = [Ctx EXCEPT ![p] = c]
          /\ Mem[p] = PP!Leitura[p] /\ Areas[p] = alocacoes[p]
          /\ Mem' = [Mem EXCEPT ![p] = PP!Leitura'[p]]
          /\ Areas' = [Areas EXCEPT ![p] = alocacoes'[p]]
      BY <1>0, <1>1, <2>1, <2>3, <2>4, UsuarioRoda
    <3>2. PICK r2 : r2 = Ctx[p].gprs[2]
      OBVIOUS
    <3>3. n = (Ctx[p].gprs[1] + page_size - 1) \div page_size
      BY <1>5, <3>1 DEF gpr
    <3>4. Ctx' = [Ctx EXCEPT ![p] = ComReg(ComReg(Seguinte(@), 1, 1), 2, s * page_size)]
      BY <2>1, <3>1
    <3>5. Maquina!Lugar(p, s, n)
      <4>1. PP!Cabe(p, s, n) /\ \A t \in Paginas : t < s => ~ PP!Cabe(p, t, n)
        BY <1>10, MesmosQuadros DEF PP!aloca_dinamicamente
      <4>2. QED BY <1>0, <1>1, <1>4, <2>2, <2>4, <4>1, LugarVe
    <3>6. Areas' = [Areas EXCEPT ![p][s] = n]
      BY <1>0, <1>4, <2>3, <3>1, LeituraTipos
    <3>7. Mem' = [Mem EXCEPT ![p] = [v \in Paginas |->
                     IF v \in s .. s + n - 1 THEN PaginaZero ELSE Mem[p][v]]]
      <4>1. PP!Leitura'[p] = [v \in Paginas |->
               IF v \in s .. s + n - 1 THEN PaginaZero ELSE PP!Leitura[p][v]]
        BY <1>0, <1>4, <2>3, LeituraTipos
      <4>2. [v \in Paginas |-> IF v \in s .. s + n - 1 THEN PaginaZero ELSE PP!Leitura[p][v]]
            = [v \in Paginas |-> IF v \in s .. s + n - 1 THEN PaginaZero ELSE Mem[p][v]]
        BY <3>1
      <4>3. QED BY <3>1, <4>1, <4>2
    <3>8. QED BY <2>2, <3>2, <3>3, <3>4, <3>5, <3>6, <3>7, FormaAloca
  <2>5. QED BY <1>1, <1>4, <2>1, <2>3, <2>4, RespostaPassa
<1>11. QED BY <1>7, <1>8, <1>9, <1>10

LEMMA DesalocaPassa ==
    ASSUME MInv, KInv', syscall_5_desalocar_memoria, saida' = <<>>
    PROVE  Maquina!Next
<1>0. KInv
  BY DEF MInv
<1>1. PICK p : p = rodando
  OBVIOUS
<1>2. PICK r : r = gpr(2)
  OBVIOUS
<1>3. PICK a : a = gpr(1)
  OBVIOUS
<1>4. Chamada(5) /\ funcionando /\ p \in Processos
  <2>1. Chamada(5) /\ funcionando
    BY DEF syscall_5_desalocar_memoria, Chamada, Cumpre
  <2>2. QED BY <1>0, <1>1, <2>1, Rodando
<1>5. PICK s \in Paginas : s = Pagina(a)
  BY <1>0, <1>3, <1>4, Lendo, Enderecos
<1>6. PICK k : k = alocacoes[p][s]
  OBVIOUS
<1>7. NaArea(gpr(1)) <=> Desloc(a) = 0 /\ k # 0
  BY <1>1, <1>3, <1>5, <1>6 DEF NaArea
<1>8. ASSUME p # Idle
      PROVE  /\ Ctx[p] = cpu_contexto /\ Areas[p] = alocacoes[p] /\ Mem[p] = PP!Leitura[p]
             /\ a = Ctx[p].gprs[1] /\ r = Ctx[p].gprs[2] /\ k = Areas[p][s]
  <2>1. Ctx[p] = cpu_contexto /\ Areas[p] = alocacoes[p] /\ Mem[p] = PP!Leitura[p]
    BY <1>0, <1>1, <1>4, <1>8, QuemRoda
  <2>2. QED BY <1>2, <1>3, <1>6, <2>1 DEF gpr
<1>9. CASE NaArea(gpr(1))
  <2>1. PP!desaloca_a_partir_de_tal_endereco(p, s) /\ Responde(1, r)
    <3>1. P!desaloca_a_partir_de_tal_endereco(rodando, Pagina(gpr(1))) /\ Responde(1, gpr(2))
      BY <1>9 DEF syscall_5_desalocar_memoria
    <3>2. P!desaloca_a_partir_de_tal_endereco(p, s)
      BY <1>1, <1>3, <1>5, <3>1 DEF P!desaloca_a_partir_de_tal_endereco, P!AreaDe,
         P!QuadrosDe, P!TabelaSem
    <3>3. Responde(1, r)
      BY <1>2, <3>1 DEF Responde, E!Executa
    <3>4. QED BY <3>2, <3>3, MesmasPaginas
  <2>2. PICK c : c = ComReg(ComReg(Seguinte(cpu_contexto), 1, 1), 2, r) /\ FezUm(c)
    BY <1>0, <2>1, RespondeFez
  <2>3. /\ PP!Leitura' = [PP!Leitura EXCEPT ![p] = [v \in Paginas |->
               IF v \in s .. s + alocacoes[p][s] - 1 THEN NaoMapeada ELSE PP!Leitura[p][v]]]
        /\ alocacoes' = [alocacoes EXCEPT ![p][s] = 0]
        /\ SoDe(p)
    BY <1>0, <1>4, <2>1, DesalocaVe
  <2>4. ASSUME p # Idle PROVE Maquina!Desaloca(p)
    <3>1. /\ Ctx' = [Ctx EXCEPT ![p] = c] /\ Mem' = [Mem EXCEPT ![p] = PP!Leitura'[p]]
          /\ Areas' = [Areas EXCEPT ![p] = alocacoes'[p]]
      BY <1>0, <1>1, <2>2, <2>3, <2>4, UsuarioRoda
    <3>2. Ctx' = [Ctx EXCEPT ![p] = ComReg(ComReg(Seguinte(@), 1, 1), 2, Ctx[p].gprs[2])]
      BY <1>8, <2>2, <2>4, <3>1
    <3>3. Areas' = [Areas EXCEPT ![p][s] = 0]
      BY <1>0, <1>4, <1>8, <2>3, <2>4, <3>1, LeituraTipos
    <3>4. Mem' = [Mem EXCEPT ![p] = [v \in Paginas |->
                     IF v \in s .. s + Areas[p][s] - 1 THEN NaoMapeada ELSE Mem[p][v]]]
      <4>1. PP!Leitura'[p] = [v \in Paginas |->
               IF v \in s .. s + alocacoes[p][s] - 1 THEN NaoMapeada ELSE PP!Leitura[p][v]]
        BY <1>0, <1>4, <2>3, LeituraTipos
      <4>2. [v \in Paginas |->
               IF v \in s .. s + alocacoes[p][s] - 1 THEN NaoMapeada ELSE PP!Leitura[p][v]]
            = [v \in Paginas |->
                  IF v \in s .. s + Areas[p][s] - 1 THEN NaoMapeada ELSE Mem[p][v]]
        BY <1>8, <2>4
      <4>3. QED BY <3>1, <4>1, <4>2
    <3>5. /\ s = Pagina(Ctx[p].gprs[1])
          /\ Desloc(Ctx[p].gprs[1]) = 0 /\ Areas[p][s] # 0
      BY <1>5, <1>7, <1>8, <1>9, <2>4
    <3>6. QED BY <3>2, <3>3, <3>4, <3>5, FormaDesaloca
  <2>5. QED BY <1>1, <1>4, <2>2, <2>3, <2>4, RespostaPassa
<1>10. CASE ~ NaArea(gpr(1))
  <2>1. Responde(0, r) /\ SemPaginacao
    BY <1>2, <1>10 DEF syscall_5_desalocar_memoria, Responde, E!Executa
  <2>2. PICK c : c = ComReg(ComReg(Seguinte(cpu_contexto), 1, 0), 2, r) /\ FezUm(c)
    BY <1>0, <2>1, RespondeFez
  <2>3. SoDe(p)
    BY <2>1, SemPaginacaoVe DEF SoDe
  <2>4. ASSUME p # Idle PROVE Maquina!Desaloca(p)
    <3>1. Ctx' = [Ctx EXCEPT ![p] = c] /\ Mem' = Mem /\ Areas' = Areas
      BY <1>0, <1>1, <2>1, <2>2, <2>4, UsuarioSoRegistradores
    <3>2. Ctx' = [Ctx EXCEPT ![p] = ComReg(ComReg(Seguinte(@), 1, 0), 2, Ctx[p].gprs[2])]
      BY <1>8, <2>2, <2>4, <3>1
    <3>3. /\ s = Pagina(Ctx[p].gprs[1])
          /\ ~ (Desloc(Ctx[p].gprs[1]) = 0 /\ Areas[p][s] # 0)
      BY <1>5, <1>7, <1>8, <1>10, <2>4
    <3>4. QED BY <3>1, <3>2, <3>3, FormaDesaloca
  <2>5. QED BY <1>1, <1>4, <2>2, <2>3, <2>4, RespostaPassa
<1>11. QED BY <1>9, <1>10

-----------------------------------------------------------------------------
(* The refinement *)

LEMMA InitMaquina == Init => Maquina!Init
<1> SUFFICES ASSUME Init PROVE Maquina!Init
  OBVIOUS
<1>1. usuarios = {}
  BY DEF usuarios, Init, E!Init
<1>2. saida = <<>>
  BY DEF Init
<1>3. /\ Maquina!Vazia = Vazia /\ Maquina!SemArea = SemArea
      /\ Maquina!ContextoNovo = ContextoNovo
  BY MesmaCpu DEF Maquina!Vazia, Maquina!SemArea, Vazia, SemArea
<1>4. /\ Ctx = [p \in Processos |-> ContextoNovo] /\ Mem = [p \in Processos |-> Vazia]
      /\ Areas = [p \in Processos |-> SemArea] /\ Saida = <<>>
  BY <1>1, <1>2 DEF Ctx, Mem, Areas, Saida, Vazia, SemArea
<1>5. Maquina!Init <=> /\ usuarios = {}
                       /\ Ctx = [p \in Processos |-> Maquina!ContextoNovo]
                       /\ Mem = [p \in Processos |-> Maquina!Vazia]
                       /\ Areas = [p \in Processos |-> Maquina!SemArea]
                       /\ Saida = <<>>
  BY DEF Maquina!Init, Ctx, Mem, Areas, Saida
<1>6. QED BY <1>1, <1>3, <1>4, <1>5

\* Every step of the kernel is a step of the machines of its processes.
LEMMA PassoMaquina == MInv /\ KInv' /\ [Next]_vars => [Maquina!Next]_(Maquina!vars)
<1> SUFFICES ASSUME MInv, KInv', [Next]_vars PROVE [Maquina!Next]_(Maquina!vars)
  OBVIOUS
<1>1. CASE UNCHANGED vars
  <2>1. /\ UNCHANGED processosVars /\ UNCHANGED memoriaVars /\ saida' = saida
    BY <1>1 DEF vars
  <2>2. /\ vivos' = vivos /\ ligado' = ligado /\ cpu_contexto' = cpu_contexto
        /\ contexto' = contexto /\ rodando' = rodando
    BY <2>1 DEF processosVars, rodando
  <2>3. usuarios' = usuarios
    BY <2>2 DEF usuarios
  <2>4. P!Leitura' = P!Leitura /\ alocacoes' = alocacoes
    BY <2>1 DEF memoriaVars, P!Leitura
  <2>5. Ctx' = Ctx /\ Mem' = Mem /\ Areas' = Areas /\ Saida' = Saida
    BY <2>1, <2>2, <2>3, <2>4 DEF Ctx, Mem, Areas, Saida
  <2>6. UNCHANGED Maquina!vars
    BY <2>3, <2>5 DEF Maquina!vars, Ctx, Mem, Areas, Saida
  <2>7. QED BY <2>6
<1>2. CASE CicloMudo /\ saida' = <<>>
  BY <1>2, ExecutaPassa, StorePassa, FimPassa, InternosPassam, SaidasPassam, AlocaPassa,
     DesalocaPassa, SilenciosasPassam, TempoPassa DEF CicloMudo
<1>3. CASE Ciclo
  BY <1>2, <1>3, ImprimePassa DEF Ciclo
<1>4. CASE Comando /\ saida' = <<>>
  BY <1>4, LoadPassa, SaidasPassam, FimPassa DEF Comando
<1>5. CASE (tratar_timer \/ PassaSegundo) /\ saida' = <<>>
  BY <1>5, InternosPassam
<1>6. QED BY <1>1, <1>3, <1>4, <1>5 DEF Next

\* Each process has a machine of its own: whatever the timer, the sleepers, page faults,
\* the frames taken and given back and the loads, kills and ends of other processes do,
\* every step of the kernel is one instruction or system call of one process, which
\* depends on its own registers and memory only, or the creation or the end of a process,
\* or nothing that a process sees (os.cpp, process_manager.cpp, paging.cpp, cpu.cpp).
THEOREM MaquinaImplementada == Spec => MaquinaVirtual
<1>1. Spec => []MInv
  BY InitMInv, MInvPasso, PTL DEF Spec
<1>2. MInv /\ KInv' /\ [Next]_vars => [Maquina!Next]_(Maquina!vars)
  BY PassoMaquina
<1>3. Spec => Maquina!Init /\ [][Maquina!Next]_(Maquina!vars)
  BY <1>1, <1>2, InitMaquina, KernelInvariante, PTL DEF Spec
<1>4. MaquinaVirtual <=> Maquina!Init /\ [][Maquina!Next]_(Maquina!vars)
  BY DEF MaquinaVirtual, Maquina!Spec
<1>5. QED BY <1>3, <1>4
=============================================================================
