------------------------------- MODULE Paging -------------------------------
(***************************************************************************)
(* os/paging.cpp: the allocator of physical frames, the page tables, the    *)
(* loading of a program, demand paging, and the areas a process obtains and *)
(* releases.  An action is one call of the kernel, run to its end: the      *)
(* kernel is never preempted.  A page holds one value: the offset inside a  *)
(* page goes through the translation unchanged.  The bits Dirty and         *)
(* Accessed are left out, nothing reads them.                               *)
(***************************************************************************)
EXTENDS Integers, FiniteSets

CONSTANTS
    PAGINAS_TOTAIS,   \* frames of the physical memory
    ptes_per_table,   \* entries of a page table
    Processos,        \* Process objects; each owns at most one page table
    Valores,          \* what a page can hold
    Zero,             \* the contents of a page filled with zeros
    NaoMapeada        \* stands for the contents of a page that is not mapped

ASSUME PagingAssumption ==
    /\ PAGINAS_TOTAIS \in Nat \ {0}
    /\ ptes_per_table \in Nat \ {0}
    /\ Zero \in Valores
    /\ NaoMapeada \notin Valores

Quadros == 0 .. PAGINAS_TOTAIS - 1
Paginas == 0 .. ptes_per_table - 1

Permissoes == {"Readable", "Writable", "Executable"}
PageTableEntry == [Present    : BOOLEAN,
                   Foo        : BOOLEAN,
                   PhyFrameID : Quadros,
                   perms      : SUBSET Permissoes]

VARIABLES
    paginas_livres,   \* the frames whose flag in paginas_livres is true
    prox_pag_livre,   \* where the search for a free frame starts
    paginas_em_uso,   \* counter of frames in use
    vivas,            \* processes that have a page table
    tabela,           \* tabela[p]: the page table of p
    alocacoes,        \* alocacoes[p][s]: pages of the area at page s, 0 if none
    pmem,             \* the contents of each frame
    escrita           \* the store just executed, <<p, v, x>>, or <<>> (history)

quadrosVars == <<paginas_livres, prox_pag_livre, paginas_em_uso>>
vars == <<paginas_livres, prox_pag_livre, paginas_em_uso,
          vivas, tabela, alocacoes, pmem, escrita>>

EntradaNula == [Present |-> FALSE, Foo |-> FALSE, PhyFrameID |-> 0, perms |-> {}]
EntradaCodigo(f) == [Present |-> TRUE, Foo |-> FALSE, PhyFrameID |-> f,
                     perms |-> Permissoes]
ComQuadro(entrada, f) == [entrada EXCEPT !.Present = TRUE, !.PhyFrameID = f]
EntradaDados == [Present |-> FALSE, Foo |-> TRUE, PhyFrameID |-> 0,
                 perms |-> {"Readable", "Writable"}]

\* Fault: the entries lose Foo but stay present.
TabelaSoSemFoo(p, S) ==
    [tabela EXCEPT ![p] = [v \in Paginas |->
        IF v \in S THEN [tabela[p][v] EXCEPT !.Foo = FALSE] ELSE tabela[p][v]]]

\* The page tables with p's entries in S replaced by zeros.
TabelaSem(p, S) ==
    [tabela EXCEPT ![p] = [v \in Paginas |->
        IF v \in S THEN EntradaNula ELSE tabela[p][v]]]

\* The frames p's present entries in S refer to.
QuadrosDe(p, S) ==
    {tabela[p][v].PhyFrameID : v \in {u \in S : tabela[p][u].Present}}

-----------------------------------------------------------------------------
(* Frames *)

\* The search looks at prox_pag_livre and above first, then starts over at 0.
Antes(g, f) ==
    IF (g >= prox_pag_livre) = (f >= prox_pag_livre)
    THEN g < f
    ELSE g >= prox_pag_livre

\* How many calls of aloca_pagina_fisica_livre return before the one that
\* returns the free frame f.
Ordem(f) == Cardinality({g \in paginas_livres : Antes(g, f)})

\* n calls of aloca_pagina_fisica_livre; fr[j] is what call j returns.
aloca_paginas(n, fr) ==
    /\ \A j \in 0 .. n - 1 : Ordem(fr[j]) = j
    /\ paginas_livres' = paginas_livres \ {fr[j] : j \in 0 .. n - 1}
    /\ paginas_em_uso' = paginas_em_uso + n
    /\ prox_pag_livre' = IF n = 0 THEN prox_pag_livre ELSE fr[n - 1] + 1

\* Fault: the hint is left where it was.
libera_sem_dica(S) ==
    /\ paginas_livres' = paginas_livres \cup S
    /\ paginas_em_uso' = paginas_em_uso - Cardinality(S \ paginas_livres)
    /\ UNCHANGED prox_pag_livre

\* Fault: the counter is not decremented.
libera_sem_contar(S) ==
    /\ paginas_livres' = paginas_livres \cup S
    /\ prox_pag_livre' \in {prox_pag_livre} \cup S
    /\ \A f \in {prox_pag_livre} \cup S : prox_pag_livre' <= f
    /\ UNCHANGED paginas_em_uso

\* libera_pagina for each frame of S; a frame that is already free is skipped.
libera_paginas(S) ==
    LET ocupadas == S \ paginas_livres IN
    /\ paginas_livres' = paginas_livres \cup S
    /\ paginas_em_uso' = paginas_em_uso - Cardinality(ocupadas)
    /\ prox_pag_livre' \in {prox_pag_livre} \cup ocupadas
    /\ \A f \in {prox_pag_livre} \cup ocupadas : prox_pag_livre' <= f

-----------------------------------------------------------------------------
(* Programs *)

\* The value of the frames after the pages of codigo were copied to the first
\* n free frames, in the order the allocator hands them out.
MemoriaCarregada(n, codigo) ==
    [f \in Quadros |-> IF f \in paginas_livres /\ Ordem(f) < n
                       THEN codigo[Ordem(f)] ELSE pmem[f]]

\* cria_tabela_paginas, then mapeia_e_carrega_codigo with a frame for every page.
CarregaCodigo(p, n, codigo) ==
    /\ p \notin vivas
    /\ n <= ptes_per_table
    /\ \E fr \in [0 .. n - 1 -> paginas_livres] :
          /\ aloca_paginas(n, fr)
          /\ tabela' = [tabela EXCEPT ![p] = [v \in Paginas |->
                           IF v < n THEN EntradaCodigo(fr[v]) ELSE EntradaNula]]
    /\ pmem' = MemoriaCarregada(n, codigo)
    /\ alocacoes' = [alocacoes EXCEPT ![p] = [v \in Paginas |-> 0]]
    /\ vivas' = vivas \cup {p}
    /\ escrita' = <<>>

\* Fault: the frames taken before the failure are not given back.
CarregaSemDevolver(n, codigo) ==
    /\ n <= ptes_per_table
    /\ n > Cardinality(paginas_livres)
    /\ pmem' = MemoriaCarregada(n, codigo)
    /\ paginas_livres' = {}
    /\ paginas_em_uso' = PAGINAS_TOTAIS
    /\ UNCHANGED <<prox_pag_livre, vivas, tabela, alocacoes>>
    /\ escrita' = <<>>

\* The frames run out: those taken so far (every free one) were loaded and are
\* given back, each pulling prox_pag_livre down; the process is not created.
CarregaCodigoSemQuadros(n, codigo) ==
    /\ n <= ptes_per_table
    /\ n > Cardinality(paginas_livres)
    /\ pmem' = MemoriaCarregada(n, codigo)
    /\ IF paginas_livres = {}
       THEN UNCHANGED prox_pag_livre
       ELSE /\ prox_pag_livre' \in paginas_livres
            /\ \A f \in paginas_livres : prox_pag_livre' <= f
    /\ UNCHANGED <<paginas_livres, paginas_em_uso, vivas, tabela, alocacoes>>
    /\ escrita' = <<>>

libera_tabela_paginas(p) ==
    /\ p \in vivas
    /\ libera_paginas(QuadrosDe(p, Paginas))
    /\ tabela' = TabelaSem(p, Paginas)
    /\ alocacoes' = [alocacoes EXCEPT ![p] = [v \in Paginas |-> 0]]
    /\ vivas' = vivas \ {p}
    /\ UNCHANGED pmem
    /\ escrita' = <<>>

-----------------------------------------------------------------------------
(* Memory accesses *)

\* A store to a page that is present and writable.
vmem_write(p, v, x) ==
    /\ p \in vivas
    /\ tabela[p][v].Present
    /\ "Writable" \in tabela[p][v].perms
    /\ pmem' = [pmem EXCEPT ![tabela[p][v].PhyFrameID] = x]
    /\ escrita' = <<p, v, x>>
    /\ UNCHANGED <<quadrosVars, vivas, tabela, alocacoes>>

\* Fault: the frame keeps what it held.
page_fault_sem_zerar(p, v) ==
    /\ p \in vivas
    /\ tabela[p][v].Foo
    /\ ~tabela[p][v].Present
    /\ \E fr \in [0 .. 0 -> paginas_livres] :
          /\ aloca_paginas(1, fr)
          /\ tabela' = [tabela EXCEPT ![p][v] = ComQuadro(@, fr[0])]
    /\ UNCHANGED <<vivas, alocacoes, pmem>>
    /\ escrita' = <<>>

\* The first access to a page of an area: it gets a frame filled with zeros.
page_fault(p, v) ==
    /\ p \in vivas
    /\ tabela[p][v].Foo
    /\ ~tabela[p][v].Present
    /\ \E fr \in [0 .. 0 -> paginas_livres] :
          /\ aloca_paginas(1, fr)
          /\ tabela' = [tabela EXCEPT ![p][v] = ComQuadro(@, fr[0])]
          /\ pmem' = [pmem EXCEPT ![fr[0]] = Zero]
    /\ UNCHANGED <<vivas, alocacoes>>
    /\ escrita' = <<>>

-----------------------------------------------------------------------------
(* Areas *)

\* Fault: a page counts as free until its first access.
CabeSemFoo(p, s, n) ==
    /\ s + n <= ptes_per_table
    /\ \A v \in s .. s + n - 1 : ~tabela[p][v].Present

\* Pages s .. s + n - 1 of p are in the table and not in use.
Cabe(p, s, n) ==
    /\ s + n <= ptes_per_table
    /\ \A v \in s .. s + n - 1 : ~tabela[p][v].Foo /\ ~tabela[p][v].Present

\* The area goes to the first place where it fits; no frame is taken yet.
aloca_dinamicamente(p, s, n) ==
    /\ p \in vivas
    /\ Cabe(p, s, n)
    /\ \A t \in Paginas : t < s => ~Cabe(p, t, n)
    /\ tabela' = [tabela EXCEPT ![p] = [v \in Paginas |->
                     IF v \in s .. s + n - 1 THEN EntradaDados ELSE tabela[p][v]]]
    /\ alocacoes' = [alocacoes EXCEPT ![p][s] = IF @ = 0 THEN n ELSE @]
    /\ UNCHANGED <<quadrosVars, vivas, pmem>>
    /\ escrita' = <<>>

AreaDe(p, s) == s .. s + alocacoes[p][s] - 1

desaloca_a_partir_de_tal_endereco(p, s) ==
    /\ p \in vivas
    /\ alocacoes[p][s] # 0
    /\ libera_paginas(QuadrosDe(p, AreaDe(p, s) \cap Paginas))
    /\ tabela' = TabelaSem(p, AreaDe(p, s))
    /\ alocacoes' = [alocacoes EXCEPT ![p][s] = 0]
    /\ UNCHANGED <<vivas, pmem>>
    /\ escrita' = <<>>

-----------------------------------------------------------------------------
Init ==
    /\ paginas_livres = Quadros
    /\ prox_pag_livre = 0
    /\ paginas_em_uso = 0
    /\ vivas = {}
    /\ tabela = [p \in Processos |-> [v \in Paginas |-> EntradaNula]]
    /\ alocacoes = [p \in Processos |-> [v \in Paginas |-> 0]]
    /\ pmem = [f \in Quadros |-> Zero]
    /\ escrita = <<>>

\* The programs a user can load: a page for each page of the table, or fewer.
Codigos(n) == [0 .. n - 1 -> Valores]

Next ==
    \/ \E n \in 0 .. ptes_per_table : \E codigo \in Codigos(n) :
          \/ \E p \in Processos : CarregaCodigo(p, n, codigo)
          \/ CarregaCodigoSemQuadros(n, codigo)
    \/ \E p \in Processos :
          \/ libera_tabela_paginas(p)
          \/ \E v \in Paginas, x \in Valores : vmem_write(p, v, x)
          \/ \E v \in Paginas : page_fault(p, v)
          \/ \E s \in Paginas, n \in 1 .. ptes_per_table : aloca_dinamicamente(p, s, n)
          \/ \E s \in Paginas : desaloca_a_partir_de_tal_endereco(p, s)

Spec == Init /\ [][Next]_vars

-----------------------------------------------------------------------------
(* Properties *)

Escritas == {<<>>} \cup (Processos \X Paginas \X Valores)

\* Types of the variables; the counter of frames in use stays between its bounds.
TypeOK ==
    /\ paginas_livres \in SUBSET Quadros
    /\ prox_pag_livre \in 0 .. PAGINAS_TOTAIS
    /\ paginas_em_uso \in 0 .. PAGINAS_TOTAIS
    /\ vivas \in SUBSET Processos
    /\ tabela \in [Processos -> [Paginas -> PageTableEntry]]
    /\ alocacoes \in [Processos -> [Paginas -> 0 .. ptes_per_table]]
    /\ pmem \in [Quadros -> Valores]
    /\ escrita \in Escritas

\* No two present entries, of the same process or of different ones, refer to
\* the same frame: paging.cpp frees a frame through the entry that holds it and
\* hands it out again, so a second entry would let two processes share it.
QuadroExclusivo ==
    \A p, q \in Processos : \A u, v \in Paginas :
        /\ tabela[p][u].Present
        /\ tabela[q][v].Present
        /\ tabela[p][u].PhyFrameID = tabela[q][v].PhyFrameID
        => p = q /\ u = v

\* The frames that are not free are exactly those a live process maps, and
\* paginas_em_uso counts them: no path (end of a process, release of an area,
\* load that fails half way) leaks a frame or frees one still mapped.
SemVazamento ==
    /\ Quadros \ paginas_livres = UNION {QuadrosDe(p, Paginas) : p \in vivas}
    /\ paginas_em_uso = Cardinality(Quadros \ paginas_livres)

\* No free frame lies below prox_pag_livre, so the first loop of
\* aloca_pagina_fisica_livre finds a frame whenever there is one, and the
\* allocator always returns the lowest free frame.
DicaExata == \A f \in paginas_livres : prox_pag_livre <= f

\* The pages marked Foo are those of the areas recorded in alocacoes, and no
\* page is in two areas: releasing an area takes its own pages and no others.
AreasCoerentes ==
    \A p \in Processos :
        /\ \A v \in Paginas : tabela[p][v].Foo <=> \E s \in Paginas : v \in AreaDe(p, s)
        /\ \A s, t \in Paginas : s # t => AreaDe(p, s) \cap AreaDe(p, t) = {}
        /\ \A s \in Paginas : AreaDe(p, s) \subseteq Paginas

\* What process p reads at page v: the frame behind a present page, zeros for a
\* page of an area not touched yet, nothing elsewhere.
Leitura == [p \in Processos |-> [v \in Paginas |->
    IF tabela[p][v].Present THEN pmem[tabela[p][v].PhyFrameID]
    ELSE IF tabela[p][v].Foo THEN Zero ELSE NaoMapeada]]

\* Paging implements a memory private to each process: loading, paging on
\* demand, allocation, release and the end of other processes never change what
\* a process reads, and a new page reads as zeros whatever its frame held.
Privada == INSTANCE MemoriaPrivada WITH mem <- Leitura, areas <- alocacoes
MemoriaIsolada == Privada!Spec
=============================================================================
