---------------------------- MODULE PagingProofs ----------------------------
(***************************************************************************)
(* Proofs about module Paging, for every number of frames, pages, processes *)
(* and values.                                                              *)
(***************************************************************************)
EXTENDS Paging, FiniteSetTheorems, FunctionTheorems, TLAPS

-----------------------------------------------------------------------------
(* The inductive invariant *)

\* Some entry of some table refers to frame f.
Mapeado(f) ==
    \E p \in Processos, v \in Paginas :
        tabela[p][v].Present /\ tabela[p][v].PhyFrameID = f

\* SemVazamento, without mentioning which processes are alive.
LivresExatos == \A f \in Quadros : f \in paginas_livres <=> ~Mapeado(f)

ContadorExato == paginas_em_uso = Cardinality(Quadros \ paginas_livres)

\* A process without a page table has nothing mapped and no areas.
SoVivasMapeiam ==
    \A p \in Processos : p \notin vivas =>
        \A v \in Paginas : tabela[p][v] = EntradaNula /\ alocacoes[p][v] = 0

IInv == /\ TypeOK
        /\ QuadroExclusivo
        /\ LivresExatos
        /\ ContadorExato
        /\ SoVivasMapeiam
        /\ DicaExata
        /\ AreasCoerentes

-----------------------------------------------------------------------------
(* Frames *)

\* The values of escrita are the stores and none.
LEMMA EscritasTipo ==
    /\ <<>> \in Escritas
    /\ \A p \in Processos, v \in Paginas, x \in Valores : <<p, v, x>> \in Escritas
  BY DEF Escritas

\* The frames are finitely many.
LEMMA QuadrosFinito ==
    /\ IsFiniteSet(Quadros)
    /\ Cardinality(Quadros) = PAGINAS_TOTAIS
    /\ Quadros \subseteq Nat
BY FS_Interval, PagingAssumption DEF Quadros

\* Sets of frames are finite and have no more than PAGINAS_TOTAIS elements.
LEMMA ConjuntoDeQuadros ==
    ASSUME NEW A \in SUBSET Quadros
    PROVE  /\ IsFiniteSet(A)
           /\ Cardinality(A) \in Nat
           /\ Cardinality(A) \in 0 .. PAGINAS_TOTAIS
<1>1. IsFiniteSet(A) /\ Cardinality(A) <= Cardinality(Quadros)
  BY QuadrosFinito, FS_Subset
<1>2. Cardinality(A) \in Nat
  BY <1>1, FS_CardinalityType
<1> QED BY <1>1, <1>2, QuadrosFinito, PagingAssumption

\* Cardinality of a set of frames split in two.
LEMMA UniaoDisjunta ==
    ASSUME NEW A \in SUBSET Quadros, NEW B \in SUBSET Quadros, A \cap B = {}
    PROVE  Cardinality(A \cup B) = Cardinality(A) + Cardinality(B)
<1>1. Cardinality(A \cup B) = Cardinality(A) + Cardinality(B) - Cardinality(A \cap B)
  BY ConjuntoDeQuadros, FS_Union
<1>2. Cardinality(A) \in Nat /\ Cardinality(B) \in Nat /\ Cardinality(A \cap B) = 0
  BY ConjuntoDeQuadros, FS_EmptySet
<1> QED BY <1>1, <1>2

\* The entries the kernel writes are page table entries.
LEMMA Entradas ==
    /\ EntradaNula \in PageTableEntry
    /\ ~EntradaNula.Present /\ ~EntradaNula.Foo
    /\ EntradaDados \in PageTableEntry
    /\ ~EntradaDados.Present /\ EntradaDados.Foo
    /\ \A f \in Quadros : /\ EntradaCodigo(f) \in PageTableEntry
                           /\ EntradaCodigo(f).Present /\ ~EntradaCodigo(f).Foo
                           /\ EntradaCodigo(f).PhyFrameID = f
    /\ \A e \in PageTableEntry, f \in Quadros :
          /\ ComQuadro(e, f) \in PageTableEntry
          /\ ComQuadro(e, f).Present /\ ComQuadro(e, f).Foo = e.Foo
          /\ ComQuadro(e, f).PhyFrameID = f
<1>1. EntradaNula \in PageTableEntry /\ ~EntradaNula.Present /\ ~EntradaNula.Foo
  BY PagingAssumption DEF EntradaNula, PageTableEntry, Quadros
<1>2. EntradaDados \in PageTableEntry /\ ~EntradaDados.Present /\ EntradaDados.Foo
  <2>1. {"Readable", "Writable"} \in SUBSET Permissoes
    BY DEF Permissoes
  <2> QED BY <2>1, PagingAssumption DEF EntradaDados, PageTableEntry, Quadros
<1>3. ASSUME NEW f \in Quadros
      PROVE  /\ EntradaCodigo(f) \in PageTableEntry
             /\ EntradaCodigo(f).Present /\ ~EntradaCodigo(f).Foo
             /\ EntradaCodigo(f).PhyFrameID = f
  BY DEF EntradaCodigo, PageTableEntry
<1>4. ASSUME NEW e \in PageTableEntry, NEW f \in Quadros
      PROVE  /\ ComQuadro(e, f) \in PageTableEntry
             /\ ComQuadro(e, f).Present /\ ComQuadro(e, f).Foo = e.Foo
             /\ ComQuadro(e, f).PhyFrameID = f
  BY DEF ComQuadro, PageTableEntry
<1> QED BY <1>1, <1>2, <1>3, <1>4

\* Two free frames are never handed out by the same call: the order in which the
\* allocator returns them is total.
LEMMA OrdemInjetiva ==
    ASSUME TypeOK, DicaExata, NEW f \in paginas_livres, NEW g \in paginas_livres,
           f < g
    PROVE  Ordem(f) < Ordem(g)
<1> DEFINE A(h) == {k \in paginas_livres : Antes(k, h)}
<1>1. \A h \in paginas_livres : A(h) = {k \in paginas_livres : k < h}
  BY PagingAssumption DEF TypeOK, DicaExata, Antes, Quadros
<1>2. A(f) \subseteq A(g) /\ f \in A(g) /\ f \notin A(f)
  <2>1. paginas_livres \subseteq Int
    BY PagingAssumption DEF TypeOK, Quadros
  <2>2. f \in Int /\ g \in Int
    BY <2>1
  <2>3. \A k \in Int : k < f => k < g
    BY <2>2
  <2>4. ~(f < f)
    BY <2>2
  <2>5. \A k, h \in paginas_livres : k \in A(h) <=> k < h
    BY <1>1
  <2>6. A(f) \subseteq paginas_livres
    OBVIOUS
  <2> HIDE DEF A
  <2> QED BY <2>1, <2>3, <2>4, <2>5, <2>6
<1>3. IsFiniteSet(A(g))
  BY QuadrosFinito, FS_Subset DEF TypeOK
<1>4. Cardinality(A(f)) <= Cardinality(A(g)) /\ Cardinality(A(f)) # Cardinality(A(g))
      /\ IsFiniteSet(A(f))
  <2> HIDE DEF A
  <2> QED BY <1>2, <1>3, FS_Subset
<1>5. Cardinality(A(f)) \in Nat /\ Cardinality(A(g)) \in Nat
  BY <1>3, <1>4, FS_CardinalityType
<1> QED BY <1>4, <1>5 DEF Ordem

\* What n calls of the allocator do to the frames.
LEMMA AlocaQuadros ==
    ASSUME IInv, NEW n \in Nat, NEW fr \in [0 .. n - 1 -> paginas_livres],
           aloca_paginas(n, fr)
    PROVE  /\ paginas_livres' \in SUBSET Quadros
           /\ \A f \in Quadros : f \in paginas_livres' <=>
                 f \in paginas_livres /\ \A j \in 0 .. n - 1 : fr[j] # f
           /\ \A i, j \in 0 .. n - 1 : fr[i] = fr[j] => i = j
           /\ prox_pag_livre' \in 0 .. PAGINAS_TOTAIS
           /\ paginas_em_uso' \in 0 .. PAGINAS_TOTAIS
           /\ ContadorExato'
           /\ DicaExata'
<1> DEFINE T == {fr[j] : j \in 0 .. n - 1}
<1> USE DEF aloca_paginas
<1>0. /\ T \subseteq paginas_livres
      /\ paginas_livres \in SUBSET Quadros
      /\ \A f \in paginas_livres : f \in Int
  BY QuadrosFinito DEF IInv, TypeOK
<1>1. /\ paginas_livres' \in SUBSET Quadros
      /\ \A f \in Quadros : f \in paginas_livres' <=>
                 f \in paginas_livres /\ \A j \in 0 .. n - 1 : fr[j] # f
  BY <1>0
<1>2. \A i, j \in 0 .. n - 1 : fr[i] = fr[j] => i = j
  OBVIOUS
<1>3. prox_pag_livre' \in 0 .. PAGINAS_TOTAIS
  <2>1. CASE n = 0
    BY <2>1 DEF IInv, TypeOK
  <2>2. CASE n # 0
    <3>1. fr[n - 1] \in Quadros
      BY <1>0, <2>2
    <3> QED BY <2>2, <3>1, PagingAssumption DEF Quadros
  <2> QED BY <2>1, <2>2
<1>4. IsFiniteSet(T) /\ Cardinality(T) = n
  <2>1. IsFiniteSet(0 .. n - 1) /\ Cardinality(0 .. n - 1) = n
    BY FS_Interval
  <2>2. fr \in Surjection(0 .. n - 1, T) /\ fr \in Injection(0 .. n - 1, T)
    <3>1. fr \in [0 .. n - 1 -> T]
      OBVIOUS
    <3> QED BY <1>2, <3>1 DEF Surjection, Injection, IsInjective
  <2> HIDE DEF T
  <2> QED BY <2>1, <2>2, FS_Surjection
<1>5. Cardinality(Quadros \ paginas_livres') \in 0 .. PAGINAS_TOTAIS
  BY ConjuntoDeQuadros
<1>6. Cardinality(Quadros \ paginas_livres') = Cardinality(Quadros \ paginas_livres) + n
  <2>1. Quadros \ paginas_livres' = (Quadros \ paginas_livres) \cup T
    BY <1>0
  <2>2. (Quadros \ paginas_livres) \cap T = {} /\ T \in SUBSET Quadros
    BY <1>0
  <2>3. Cardinality((Quadros \ paginas_livres) \cup T)
          = Cardinality(Quadros \ paginas_livres) + Cardinality(T)
    <3> HIDE DEF T
    <3> QED BY <2>2, UniaoDisjunta
  <2> HIDE DEF T
  <2> QED BY <1>4, <2>1, <2>3
<1>7. ContadorExato' /\ paginas_em_uso' \in 0 .. PAGINAS_TOTAIS
  BY <1>5, <1>6 DEF IInv, ContadorExato, Quadros
<1>8. DicaExata'
  <2>1. CASE n = 0
    BY <2>1 DEF IInv, DicaExata
  <2>2. CASE n # 0
    <3> SUFFICES ASSUME NEW f \in paginas_livres', f < fr[n - 1] + 1
                 PROVE  FALSE
      BY <1>0, <1>1, <1>3, <2>2, PagingAssumption DEF DicaExata, Quadros
    <3>1. fr[n - 1] \in paginas_livres /\ f \in paginas_livres /\ f # fr[n - 1]
      BY <1>1, <2>2
    <3>2. f < fr[n - 1]
      <4>1. f \in Int /\ fr[n - 1] \in Int
        BY <1>0, <3>1
      <4> QED BY <3>1, <4>1
    <3>3. Ordem(f) < n - 1
      BY <2>2, <3>1, <3>2, OrdemInjetiva DEF IInv
    <3>4. Ordem(f) \in Nat
      <4>1. {k \in paginas_livres : Antes(k, f)} \in SUBSET Quadros
        BY <1>0
      <4> QED BY <4>1, QuadrosFinito, FS_Subset, FS_CardinalityType DEF Ordem
    <3>5. PICK k \in 0 .. n - 1 : k = Ordem(f)
      BY <3>3, <3>4
    <3>6. fr[k] \in paginas_livres /\ Ordem(fr[k]) = Ordem(f) /\ fr[k] # f
      BY <1>1, <3>5
    <3>7. fr[k] < f \/ f < fr[k]
      <4>1. f \in Int /\ fr[k] \in Int
        BY <1>0, <3>1, <3>6
      <4> QED BY <3>6, <4>1
    <3>8. Ordem(fr[k]) \in Nat
      BY <3>4, <3>6
    <3> QED BY <3>1, <3>4, <3>6, <3>7, <3>8, OrdemInjetiva DEF IInv
  <2> QED BY <2>1, <2>2
<1> QED BY <1>1, <1>2, <1>3, <1>7, <1>8

\* What freeing a set of frames in use does to the frames.
LEMMA LiberaQuadros ==
    ASSUME IInv, NEW S \in SUBSET (Quadros \ paginas_livres), libera_paginas(S)
    PROVE  /\ paginas_livres' \in SUBSET Quadros
           /\ paginas_livres' = paginas_livres \cup S
           /\ prox_pag_livre' \in 0 .. PAGINAS_TOTAIS
           /\ paginas_em_uso' \in 0 .. PAGINAS_TOTAIS
           /\ ContadorExato'
           /\ DicaExata'
<1>1. S \ paginas_livres = S
  OBVIOUS
<1>2. /\ paginas_livres' \in SUBSET Quadros
      /\ paginas_livres' = paginas_livres \cup S
  BY DEF libera_paginas, IInv, TypeOK
<1>3. prox_pag_livre' \in 0 .. PAGINAS_TOTAIS
  <2>1. \A f \in Quadros : f \in 0 .. PAGINAS_TOTAIS
    BY PagingAssumption DEF Quadros
  <2> QED BY <2>1 DEF libera_paginas, IInv, TypeOK
<1>4. DicaExata'
  <2> SUFFICES ASSUME NEW f \in paginas_livres'
               PROVE  prox_pag_livre' <= f
    BY DEF DicaExata
  <2>1. CASE f \in S
    BY <2>1, <1>1 DEF libera_paginas
  <2>2. CASE f \in paginas_livres
    <3>1. prox_pag_livre' <= prox_pag_livre /\ prox_pag_livre <= f
      BY <2>2 DEF libera_paginas, IInv, DicaExata
    <3>2. prox_pag_livre' \in Int /\ prox_pag_livre \in Int /\ f \in Int
      BY <1>2, <1>3, QuadrosFinito DEF IInv, TypeOK
    <3> QED BY <3>1, <3>2
  <2> QED BY <1>2, <2>1, <2>2
<1>5. Cardinality(Quadros \ paginas_livres') \in 0 .. PAGINAS_TOTAIS /\ Cardinality(S) \in Nat
  BY ConjuntoDeQuadros
<1>6. Cardinality(Quadros \ paginas_livres)
        = Cardinality(Quadros \ paginas_livres') + Cardinality(S)
  <2> DEFINE U == Quadros \ paginas_livres'
  <2>1. Quadros \ paginas_livres = U \cup S /\ U \cap S = {}
    BY <1>2
  <2>2. U \in SUBSET Quadros /\ S \in SUBSET Quadros
    OBVIOUS
  <2> HIDE DEF U
  <2>3. Cardinality(U \cup S) = Cardinality(U) + Cardinality(S)
    BY <2>1, <2>2, UniaoDisjunta
  <2> QED BY <2>1, <2>3 DEF U
<1>7. ContadorExato' /\ paginas_em_uso' \in 0 .. PAGINAS_TOTAIS
  <2>1. paginas_em_uso' = Cardinality(Quadros \ paginas_livres) - Cardinality(S)
    BY <1>1 DEF libera_paginas, IInv, ContadorExato
  <2>2. paginas_em_uso' = Cardinality(Quadros \ paginas_livres')
    BY <1>5, <1>6, <2>1
  <2> QED BY <1>5, <2>2 DEF ContadorExato, Quadros
<1> QED BY <1>2, <1>3, <1>4, <1>7

-----------------------------------------------------------------------------
(* Each action preserves the inductive invariant *)

\* The position of a frame in the search of the allocator is a number.
LEMMA OrdemNatural ==
    ASSUME TypeOK, NEW f
    PROVE  Ordem(f) \in Nat
<1>1. {k \in paginas_livres : Antes(k, f)} \in SUBSET Quadros
  BY DEF TypeOK
<1> QED BY <1>1, ConjuntoDeQuadros DEF Ordem

\* Loading a program leaves a value in every frame.
LEMMA MemoriaCarregadaTipo ==
    ASSUME TypeOK, NEW n \in Nat, NEW codigo \in [0 .. n - 1 -> Valores]
    PROVE  MemoriaCarregada(n, codigo) \in [Quadros -> Valores]
<1> SUFFICES ASSUME NEW f \in Quadros, Ordem(f) < n
             PROVE  codigo[Ordem(f)] \in Valores
  BY DEF MemoriaCarregada, TypeOK
<1>1. Ordem(f) \in 0 .. n - 1
  BY OrdemNatural
<1> QED BY <1>1

\* Only entries of p change, those of the pages in P: they become null and their
\* frames are freed.
LEMMA ApagaEntradas ==
    ASSUME IInv, NEW p \in Processos, NEW P \in SUBSET Paginas,
           libera_paginas(QuadrosDe(p, P)), tabela' = TabelaSem(p, P)
    PROVE  /\ paginas_livres' \in SUBSET Quadros
           /\ prox_pag_livre' \in 0 .. PAGINAS_TOTAIS
           /\ paginas_em_uso' \in 0 .. PAGINAS_TOTAIS
           /\ tabela' \in [Processos -> [Paginas -> PageTableEntry]]
           /\ QuadroExclusivo' /\ LivresExatos' /\ ContadorExato' /\ DicaExata'
           /\ \A q \in Processos, v \in Paginas :
                 tabela'[q][v] = IF q = p /\ v \in P THEN EntradaNula ELSE tabela[q][v]
<1> DEFINE S == QuadrosDe(p, P)
<1> USE DEF IInv
<1>1. \A f : f \in S <=> \E v \in P : tabela[p][v].Present /\ tabela[p][v].PhyFrameID = f
  BY DEF QuadrosDe
<1>2. tabela \in [Processos -> [Paginas -> PageTableEntry]]
  BY DEF TypeOK
<1>3. \A q \in Processos, v \in Paginas :
         tabela[q][v].Present => /\ tabela[q][v].PhyFrameID \in Quadros
                                 /\ tabela[q][v].PhyFrameID \notin paginas_livres
  BY <1>2 DEF LivresExatos, Mapeado, PageTableEntry
<1>4. S \in SUBSET (Quadros \ paginas_livres)
  BY <1>1, <1>3
<1>5. /\ paginas_livres' \in SUBSET Quadros
      /\ paginas_livres' = paginas_livres \cup S
      /\ prox_pag_livre' \in 0 .. PAGINAS_TOTAIS
      /\ paginas_em_uso' \in 0 .. PAGINAS_TOTAIS
      /\ ContadorExato'
      /\ DicaExata'
  <2> HIDE DEF IInv
  <2> QED BY <1>4, LiberaQuadros
<1>6. tabela' \in [Processos -> [Paginas -> PageTableEntry]]
  BY <1>2, Entradas DEF TabelaSem
<1>7. \A q \in Processos, v \in Paginas :
         tabela'[q][v] = IF q = p /\ v \in P THEN EntradaNula ELSE tabela[q][v]
  BY <1>2 DEF TabelaSem
<1>8. \A q \in Processos, v \in Paginas :
         tabela'[q][v].Present => tabela'[q][v] = tabela[q][v] /\ ~(q = p /\ v \in P)
  BY <1>7 DEF EntradaNula
<1>9. QuadroExclusivo'
  BY <1>8 DEF QuadroExclusivo
<1>10. LivresExatos'
  <2> SUFFICES ASSUME NEW f \in Quadros
               PROVE  f \in paginas_livres' <=> ~Mapeado(f)'
    BY DEF LivresExatos
  <2>1. ASSUME f \in paginas_livres, Mapeado(f)'
        PROVE  FALSE
    BY <1>8, <2>1 DEF LivresExatos, Mapeado
  <2>2. ASSUME f \in S, Mapeado(f)'
        PROVE  FALSE
    <3>1. PICK v \in P : tabela[p][v].Present /\ tabela[p][v].PhyFrameID = f
      BY <1>1, <2>2
    <3>2. PICK q \in Processos, u \in Paginas :
             tabela'[q][u].Present /\ tabela'[q][u].PhyFrameID = f
      BY <2>2 DEF Mapeado
    <3> QED BY <1>8, <3>1, <3>2 DEF QuadroExclusivo
  <2>3. ASSUME f \notin paginas_livres, f \notin S
        PROVE  Mapeado(f)'
    <3>1. PICK q \in Processos, u \in Paginas :
             tabela[q][u].Present /\ tabela[q][u].PhyFrameID = f
      BY <2>3 DEF LivresExatos, Mapeado
    <3>2. ~(q = p /\ u \in P)
      BY <1>1, <2>3, <3>1
    <3> QED BY <1>7, <3>1, <3>2 DEF Mapeado
  <2> QED BY <1>5, <2>1, <2>2, <2>3
<1> QED BY <1>5, <1>6, <1>7, <1>9, <1>10

\* AreasCoerentes, for one process.
AreasDe(p) ==
    /\ \A v \in Paginas : tabela[p][v].Foo <=> \E s \in Paginas : v \in AreaDe(p, s)
    /\ \A s, t \in Paginas : s # t => AreaDe(p, s) \cap AreaDe(p, t) = {}
    /\ \A s \in Paginas : AreaDe(p, s) \subseteq Paginas

\* AreasCoerentes, one process at a time.
LEMMA AreasPorProcesso == AreasCoerentes => \A p \in Processos : AreasDe(p)
BY DEF AreasCoerentes, AreasDe

\* The areas of a process whose table keeps its marks stay coherent.
LEMMA AreasInalteradas ==
    ASSUME NEW p, AreasDe(p), alocacoes'[p] = alocacoes[p],
           \A v \in Paginas : tabela'[p][v].Foo = tabela[p][v].Foo
    PROVE  AreasDe(p)'
<1>1. \A s \in Paginas : AreaDe(p, s)' = AreaDe(p, s)
  BY DEF AreaDe
<1>2. /\ \A v \in Paginas :
            tabela'[p][v].Foo <=> \E s \in Paginas : v \in AreaDe(p, s)'
      /\ \A s, t \in Paginas : s # t => AreaDe(p, s)' \cap AreaDe(p, t)' = {}
      /\ \A s \in Paginas : AreaDe(p, s)' \subseteq Paginas
  BY <1>1 DEF AreasDe
<1> QED BY <1>2 DEF AreasDe

\* A process without areas, none of whose pages is marked Foo.
LEMMA SemAreas ==
    ASSUME NEW p, \A v \in Paginas : ~tabela'[p][v].Foo /\ alocacoes'[p][v] = 0
    PROVE  AreasDe(p)'
<1>1. \A s \in Paginas : AreaDe(p, s)' = {}
  BY PagingAssumption DEF AreaDe, Paginas
<1> QED BY <1>1 DEF AreasDe

\* mapeia_e_carrega_codigo with enough frames keeps the invariant.
LEMMA CarregaMantem ==
    ASSUME IInv, NEW p \in Processos, NEW n \in 0 .. ptes_per_table,
           NEW codigo \in Codigos(n), CarregaCodigo(p, n, codigo)
    PROVE  IInv'
<1> n \in Nat
  BY PagingAssumption
<1> USE DEF IInv
<1>1. PICK fr \in [0 .. n - 1 -> paginas_livres] :
         /\ aloca_paginas(n, fr)
         /\ tabela' = [tabela EXCEPT ![p] = [v \in Paginas |->
                          IF v < n THEN EntradaCodigo(fr[v]) ELSE EntradaNula]]
  BY DEF CarregaCodigo
<1>2. /\ paginas_livres' \in SUBSET Quadros
      /\ \A f \in Quadros : f \in paginas_livres' <=>
                 f \in paginas_livres /\ \A j \in 0 .. n - 1 : fr[j] # f
      /\ \A i, j \in 0 .. n - 1 : fr[i] = fr[j] => i = j
      /\ prox_pag_livre' \in 0 .. PAGINAS_TOTAIS
      /\ paginas_em_uso' \in 0 .. PAGINAS_TOTAIS
      /\ ContadorExato'
      /\ DicaExata'
  <2> HIDE DEF IInv
  <2> QED BY <1>1, AlocaQuadros
<1>3. \A v \in Paginas : v < n <=> v \in 0 .. n - 1
  BY PagingAssumption DEF Paginas
<1>4. /\ tabela \in [Processos -> [Paginas -> PageTableEntry]]
      /\ alocacoes \in [Processos -> [Paginas -> 0 .. ptes_per_table]]
      /\ paginas_livres \in SUBSET Quadros
  BY DEF TypeOK
<1>5. /\ alocacoes' = [alocacoes EXCEPT ![p] = [v \in Paginas |-> 0]]
      /\ vivas' = vivas \cup {p}
      /\ pmem' = MemoriaCarregada(n, codigo)
      /\ p \notin vivas
  BY DEF CarregaCodigo
<1>6. \A q \in Processos, v \in Paginas : tabela'[q][v] =
         IF q = p THEN IF v \in 0 .. n - 1 THEN EntradaCodigo(fr[v]) ELSE EntradaNula
         ELSE tabela[q][v]
  BY <1>1, <1>3, <1>4
<1>7. TypeOK'
  <2>1. pmem' \in [Quadros -> Valores]
    <3>1. codigo \in [0 .. n - 1 -> Valores]
      BY DEF Codigos
    <3> QED BY <1>5, <3>1, MemoriaCarregadaTipo
  <2>2. tabela' \in [Processos -> [Paginas -> PageTableEntry]]
    BY <1>1, <1>3, <1>4, Entradas
  <2>3. alocacoes' \in [Processos -> [Paginas -> 0 .. ptes_per_table]]
    BY <1>4, <1>5, PagingAssumption
  <2>4. escrita' \in Escritas
    BY EscritasTipo DEF CarregaCodigo
  <2> QED BY <1>2, <1>5, <2>1, <2>2, <2>3, <2>4 DEF TypeOK
<1>8. \A q \in Processos, v \in Paginas : tabela'[q][v].Present =>
         \/ q = p /\ v \in 0 .. n - 1 /\ tabela'[q][v].PhyFrameID = fr[v]
         \/ q # p /\ tabela'[q][v] = tabela[q][v]
              /\ tabela[q][v].PhyFrameID \in Quadros \ paginas_livres
  <2> SUFFICES ASSUME NEW q \in Processos, NEW v \in Paginas, tabela'[q][v].Present
               PROVE  \/ q = p /\ v \in 0 .. n - 1 /\ tabela'[q][v].PhyFrameID = fr[v]
                      \/ q # p /\ tabela'[q][v] = tabela[q][v]
                           /\ tabela[q][v].PhyFrameID \in Quadros \ paginas_livres
    OBVIOUS
  <2>1. CASE q = p
    BY <1>4, <1>6, <2>1, Entradas
  <2>2. CASE q # p
    BY <1>4, <1>6, <2>2 DEF LivresExatos, Mapeado, PageTableEntry
  <2> QED BY <2>1, <2>2
<1>9. QuadroExclusivo'
  <2> SUFFICES ASSUME NEW q \in Processos, NEW r \in Processos,
                      NEW u \in Paginas, NEW v \in Paginas,
                      tabela'[q][u].Present, tabela'[r][v].Present,
                      tabela'[q][u].PhyFrameID = tabela'[r][v].PhyFrameID
               PROVE  q = r /\ u = v
    BY DEF QuadroExclusivo
  <2>1. CASE q = p /\ r = p
    BY <1>2, <1>8, <2>1
  <2>2. CASE q # p /\ r # p
    BY <1>8, <2>2 DEF QuadroExclusivo
  <2>3. CASE (q = p) # (r = p)
    BY <1>8, <2>3
  <2> QED BY <2>1, <2>2, <2>3
<1>10. LivresExatos'
  <2> SUFFICES ASSUME NEW f \in Quadros
               PROVE  f \in paginas_livres' <=> ~Mapeado(f)'
    BY DEF LivresExatos
  <2>1. ASSUME f \in paginas_livres', Mapeado(f)' PROVE FALSE
    <3>1. PICK q \in Processos, v \in Paginas :
             tabela'[q][v].Present /\ tabela'[q][v].PhyFrameID = f
      BY <2>1 DEF Mapeado
    <3> QED BY <1>2, <1>8, <2>1, <3>1
  <2>2. ASSUME f \in paginas_livres, f \notin paginas_livres' PROVE Mapeado(f)'
    <3>1. PICK j \in 0 .. n - 1 : fr[j] = f
      BY <1>2, <2>2
    <3>2. j \in Paginas
      BY PagingAssumption DEF Paginas
    <3>3. tabela'[p][j] = EntradaCodigo(f)
      BY <1>6, <3>1, <3>2
    <3>4. tabela'[p][j].Present /\ tabela'[p][j].PhyFrameID = f
      BY <3>3 DEF EntradaCodigo
    <3> QED BY <3>2, <3>4 DEF Mapeado
  <2>3. ASSUME f \notin paginas_livres PROVE Mapeado(f)'
    <3>1. PICK q \in Processos, v \in Paginas :
             tabela[q][v].Present /\ tabela[q][v].PhyFrameID = f
      BY <2>3 DEF LivresExatos, Mapeado
    <3>2. q # p
      BY <1>5, <3>1 DEF SoVivasMapeiam, EntradaNula
    <3>3. tabela'[q][v] = tabela[q][v]
      BY <1>6, <3>2
    <3> QED BY <3>1, <3>3 DEF Mapeado
  <2> QED BY <2>1, <2>2, <2>3
<1>11. SoVivasMapeiam'
  BY <1>4, <1>5, <1>6 DEF SoVivasMapeiam
<1>12. AreasCoerentes'
  <2> SUFFICES ASSUME NEW q \in Processos
               PROVE  AreasDe(q)'
    BY DEF AreasCoerentes, AreasDe
  <2>1. CASE q = p
    <3>1. \A v \in Paginas : ~tabela'[q][v].Foo
      <4> SUFFICES ASSUME NEW v \in Paginas PROVE ~tabela'[q][v].Foo
        OBVIOUS
      <4>1. \/ tabela'[q][v] = EntradaCodigo(fr[v])
            \/ tabela'[q][v] = EntradaNula
        BY <1>6, <2>1
      <4>2. ~EntradaCodigo(fr[v]).Foo
        BY DEF EntradaCodigo
      <4>3. ~EntradaNula.Foo
        BY DEF EntradaNula
      <4> QED BY <4>1, <4>2, <4>3
    <3>2. \A v \in Paginas : alocacoes'[q][v] = 0
      BY <1>4, <1>5, <2>1
    <3> QED BY <3>1, <3>2, SemAreas
  <2>2. CASE q # p
    BY <1>4, <1>5, <1>6, <2>2, AreasInalteradas, AreasPorProcesso
  <2> QED BY <2>1, <2>2
<1> QED BY <1>2, <1>7, <1>9, <1>10, <1>11, <1>12

\* A load that runs out of frames, and gives back those it took, keeps it.
LEMMA CarregaSemQuadrosMantem ==
    ASSUME IInv, NEW n \in 0 .. ptes_per_table, NEW codigo \in Codigos(n),
           CarregaCodigoSemQuadros(n, codigo)
    PROVE  IInv'
<1> n \in Nat
  BY PagingAssumption
<1> USE DEF IInv
<1>1. /\ UNCHANGED <<paginas_livres, paginas_em_uso, vivas, tabela, alocacoes>>
      /\ pmem' = MemoriaCarregada(n, codigo)
  BY DEF CarregaCodigoSemQuadros
<1>2. prox_pag_livre' \in 0 .. PAGINAS_TOTAIS /\ DicaExata'
  <2>1. \A f \in Quadros : f \in 0 .. PAGINAS_TOTAIS
    BY PagingAssumption DEF Quadros
  <2> QED BY <1>1, <2>1 DEF CarregaCodigoSemQuadros, TypeOK, DicaExata
<1>3. pmem' \in [Quadros -> Valores]
  <2>1. codigo \in [0 .. n - 1 -> Valores]
    BY DEF Codigos
  <2> QED BY <1>1, <2>1, MemoriaCarregadaTipo
<1>4. TypeOK'
  <2>1. escrita' \in Escritas
    BY EscritasTipo DEF CarregaCodigoSemQuadros
  <2> QED BY <1>1, <1>2, <1>3, <2>1 DEF TypeOK
<1>5. QuadroExclusivo' /\ LivresExatos' /\ ContadorExato' /\ SoVivasMapeiam'
  BY <1>1 DEF QuadroExclusivo, LivresExatos, Mapeado, ContadorExato, SoVivasMapeiam
<1>6. AreasCoerentes'
  BY <1>1 DEF AreasCoerentes, AreaDe
<1> QED BY <1>2, <1>4, <1>5, <1>6

\* libera_tabela_paginas keeps the invariant.
LEMMA LiberaTabelaMantem ==
    ASSUME IInv, NEW p \in Processos, libera_tabela_paginas(p)
    PROVE  IInv'
<1>1. /\ paginas_livres' \in SUBSET Quadros
      /\ prox_pag_livre' \in 0 .. PAGINAS_TOTAIS
      /\ paginas_em_uso' \in 0 .. PAGINAS_TOTAIS
      /\ tabela' \in [Processos -> [Paginas -> PageTableEntry]]
      /\ QuadroExclusivo' /\ LivresExatos' /\ ContadorExato' /\ DicaExata'
      /\ \A q \in Processos, v \in Paginas :
            tabela'[q][v] = IF q = p /\ v \in Paginas THEN EntradaNula ELSE tabela[q][v]
  BY ApagaEntradas DEF libera_tabela_paginas
<1>2. /\ alocacoes' = [alocacoes EXCEPT ![p] = [v \in Paginas |-> 0]]
      /\ vivas' = vivas \ {p}
      /\ pmem' = pmem
  BY DEF libera_tabela_paginas
<1> USE DEF IInv
<1>3. alocacoes \in [Processos -> [Paginas -> 0 .. ptes_per_table]]
  BY DEF TypeOK
<1>4. TypeOK'
  <2>1. alocacoes' \in [Processos -> [Paginas -> 0 .. ptes_per_table]]
    BY <1>2, <1>3, PagingAssumption
  <2>2. escrita' \in Escritas
    BY EscritasTipo DEF libera_tabela_paginas
  <2> QED BY <1>1, <1>2, <2>1, <2>2 DEF TypeOK
<1>5. SoVivasMapeiam'
  BY <1>1, <1>2, <1>3 DEF SoVivasMapeiam
<1>6. AreasCoerentes'
  <2> SUFFICES ASSUME NEW q \in Processos
               PROVE  AreasDe(q)'
    BY DEF AreasCoerentes, AreasDe
  <2>1. CASE q = p
    BY <1>1, <1>2, <1>3, <2>1, Entradas, SemAreas
  <2>2. CASE q # p
    BY <1>1, <1>2, <1>3, <2>2, AreasInalteradas, AreasPorProcesso
  <2> QED BY <2>1, <2>2
<1> QED BY <1>1, <1>4, <1>5, <1>6

\* A store keeps the invariant.
LEMMA EscritaMantem ==
    ASSUME IInv, NEW p \in Processos, NEW v \in Paginas, NEW x \in Valores,
           vmem_write(p, v, x)
    PROVE  IInv'
<1> USE DEF IInv
<1>1. UNCHANGED <<paginas_livres, prox_pag_livre, paginas_em_uso, vivas, tabela, alocacoes>>
  BY DEF vmem_write, quadrosVars
<1>2. pmem' \in [Quadros -> Valores]
  BY DEF vmem_write, TypeOK
<1>3. escrita' \in Escritas
  BY EscritasTipo DEF vmem_write
<1> QED BY <1>1, <1>2, <1>3
        DEF TypeOK, QuadroExclusivo, LivresExatos, Mapeado, ContadorExato,
            SoVivasMapeiam, DicaExata, AreasCoerentes, AreaDe

\* Serving a page fault keeps the invariant.
LEMMA PageFaultMantem ==
    ASSUME IInv, NEW p \in Processos, NEW v \in Paginas, page_fault(p, v)
    PROVE  IInv'
<1> USE DEF IInv
<1>0. 1 - 1 = 0
  OBVIOUS
<1>1. PICK fr \in [0 .. 0 -> paginas_livres] :
         /\ aloca_paginas(1, fr)
         /\ tabela' = [tabela EXCEPT ![p][v] = ComQuadro(@, fr[0])]
         /\ pmem' = [pmem EXCEPT ![fr[0]] = Zero]
  BY DEF page_fault
<1> DEFINE g == fr[0]
<1>2. /\ paginas_livres' \in SUBSET Quadros
      /\ \A f \in Quadros : f \in paginas_livres' <=>
                 f \in paginas_livres /\ \A j \in 0 .. 0 : fr[j] # f
      /\ prox_pag_livre' \in 0 .. PAGINAS_TOTAIS
      /\ paginas_em_uso' \in 0 .. PAGINAS_TOTAIS
      /\ ContadorExato'
      /\ DicaExata'
  <2> HIDE DEF IInv
  <2>1. fr \in [0 .. 1 - 1 -> paginas_livres]
    BY <1>0
  <2>2. \A j \in 0 .. 0 : j \in 0 .. 1 - 1
    BY <1>0
  <2> QED BY <1>1, <2>1, <2>2, AlocaQuadros
<1>3. /\ tabela \in [Processos -> [Paginas -> PageTableEntry]]
      /\ g \in Quadros /\ g \in paginas_livres
      /\ \A f \in Quadros : f \in paginas_livres' <=> f \in paginas_livres /\ f # g
  BY <1>2 DEF TypeOK
<1>4. /\ p \in vivas /\ UNCHANGED <<vivas, alocacoes>>
      /\ ~tabela[p][v].Present
  BY DEF page_fault
<1>5. \A q \in Processos, u \in Paginas : tabela'[q][u] =
         IF q = p /\ u = v THEN ComQuadro(tabela[p][v], g) ELSE tabela[q][u]
  BY <1>1, <1>3
<1>6. /\ ComQuadro(tabela[p][v], g) \in PageTableEntry
      /\ ComQuadro(tabela[p][v], g).Present
      /\ ComQuadro(tabela[p][v], g).PhyFrameID = g
      /\ ComQuadro(tabela[p][v], g).Foo = tabela[p][v].Foo
  BY <1>3, Entradas
<1> HIDE DEF g
<1>7. TypeOK'
  <2>1. pmem' \in [Quadros -> Valores]
    BY <1>1, PagingAssumption DEF TypeOK
  <2>2. tabela' \in [Processos -> [Paginas -> PageTableEntry]]
    BY <1>1, <1>3, <1>6 DEF g
  <2>3. escrita' \in Escritas
    BY EscritasTipo DEF page_fault
  <2> QED BY <1>2, <1>4, <2>1, <2>2, <2>3 DEF TypeOK
<1>8. \A q \in Processos, u \in Paginas : tabela[q][u].Present =>
         /\ tabela[q][u].PhyFrameID # g
         /\ tabela[q][u].PhyFrameID \in Quadros
         /\ ~(q = p /\ u = v)
  BY <1>3, <1>4 DEF LivresExatos, Mapeado, PageTableEntry
<1>9. QuadroExclusivo'
  BY <1>5, <1>6, <1>8 DEF QuadroExclusivo
<1>10. LivresExatos'
  <2> SUFFICES ASSUME NEW f \in Quadros
               PROVE  f \in paginas_livres' <=> ~Mapeado(f)'
    BY DEF LivresExatos
  <2>1. Mapeado(f)' <=> Mapeado(f) \/ f = g
    BY <1>4, <1>5, <1>6 DEF Mapeado
  <2> QED BY <1>3, <2>1 DEF LivresExatos
<1>11. SoVivasMapeiam'
  BY <1>4, <1>5 DEF SoVivasMapeiam
<1>12. AreasCoerentes'
  <2> SUFFICES ASSUME NEW q \in Processos
               PROVE  AreasDe(q)'
    BY DEF AreasCoerentes, AreasDe
  <2> QED BY <1>4, <1>5, <1>6, AreasInalteradas, AreasPorProcesso
<1> QED BY <1>2, <1>7, <1>9, <1>10, <1>11, <1>12

\* aloca_dinamicamente keeps the invariant.
LEMMA AlocaMantem ==
    ASSUME IInv, NEW p \in Processos, NEW s \in Paginas, NEW n \in 1 .. ptes_per_table,
           aloca_dinamicamente(p, s, n)
    PROVE  IInv'
<1> USE DEF IInv
<1>1. /\ UNCHANGED <<paginas_livres, prox_pag_livre, paginas_em_uso, vivas, pmem>>
      /\ p \in vivas
      /\ s + n <= ptes_per_table
      /\ \A v \in s .. s + n - 1 : ~tabela[p][v].Foo /\ ~tabela[p][v].Present
  BY DEF aloca_dinamicamente, quadrosVars, Cabe
<1>2. /\ tabela \in [Processos -> [Paginas -> PageTableEntry]]
      /\ alocacoes \in [Processos -> [Paginas -> 0 .. ptes_per_table]]
      /\ s \in Nat /\ n \in Nat /\ n > 0 /\ ptes_per_table \in Nat
  BY PagingAssumption DEF TypeOK, Paginas
<1>3. s .. s + n - 1 \subseteq Paginas /\ s \in s .. s + n - 1
  BY <1>1, <1>2 DEF Paginas
<1>4. alocacoes[p][s] = 0
  <2>1. alocacoes[p][s] # 0 => s \in AreaDe(p, s)
    BY <1>2 DEF AreaDe
  <2>2. ~tabela[p][s].Foo
    BY <1>1, <1>3
  <2> QED BY <2>1, <2>2 DEF AreasCoerentes
<1>5. \A q \in Processos, v \in Paginas :
         /\ tabela'[q][v] = IF q = p /\ v \in s .. s + n - 1
                            THEN EntradaDados ELSE tabela[q][v]
         /\ alocacoes'[q][v] = IF q = p /\ v = s THEN n ELSE alocacoes[q][v]
  BY <1>2, <1>4 DEF aloca_dinamicamente
<1>6. TypeOK'
  <2>1. tabela' \in [Processos -> [Paginas -> PageTableEntry]]
    BY <1>2, Entradas DEF aloca_dinamicamente
  <2>2. alocacoes' \in [Processos -> [Paginas -> 0 .. ptes_per_table]]
    BY <1>2, <1>4 DEF aloca_dinamicamente
  <2>3. escrita' \in Escritas
    BY EscritasTipo DEF aloca_dinamicamente
  <2> QED BY <1>1, <2>1, <2>2, <2>3 DEF TypeOK
<1>7. \A q \in Processos, v \in Paginas :
         /\ tabela'[q][v].Present = tabela[q][v].Present
         /\ tabela[q][v].Present => tabela'[q][v] = tabela[q][v]
  <2> SUFFICES ASSUME NEW q \in Processos, NEW v \in Paginas
               PROVE  /\ tabela'[q][v].Present = tabela[q][v].Present
                      /\ tabela[q][v].Present => tabela'[q][v] = tabela[q][v]
    OBVIOUS
  <2>1. CASE q = p /\ v \in s .. s + n - 1
    <3>1. tabela[q][v].Present = FALSE /\ tabela'[q][v].Present = FALSE
      BY <1>1, <1>5, <2>1 DEF EntradaDados
    <3> QED BY <3>1
  <2>2. CASE ~(q = p /\ v \in s .. s + n - 1)
    BY <1>5, <2>2
  <2> QED BY <2>1, <2>2
<1>8. QuadroExclusivo'
  BY <1>7 DEF QuadroExclusivo
<1>9. LivresExatos' /\ ContadorExato' /\ DicaExata'
  <2>1. \A f \in Quadros : Mapeado(f)' <=> Mapeado(f)
    BY <1>7 DEF Mapeado
  <2> QED BY <1>1, <2>1 DEF LivresExatos, ContadorExato, DicaExata
<1>10. SoVivasMapeiam'
  BY <1>1, <1>5 DEF SoVivasMapeiam
<1>11. AreasCoerentes'
  <2> SUFFICES ASSUME NEW q \in Processos
               PROVE  AreasDe(q)'
    BY DEF AreasCoerentes, AreasDe
  <2>1. CASE q # p
    <3>1. alocacoes'[q] = alocacoes[q]
      BY <1>2, <2>1 DEF aloca_dinamicamente
    <3>2. \A v \in Paginas : tabela'[q][v].Foo = tabela[q][v].Foo
      BY <1>5, <2>1
    <3> QED BY <3>1, <3>2, AreasInalteradas, AreasPorProcesso
  <2>2. CASE q = p
    <3>1. AreasDe(p)
      BY AreasPorProcesso
    <3>2. AreaDe(p, s)' = s .. s + n - 1
      BY <1>2, <1>5 DEF AreaDe
    <3>3. \A t \in Paginas : t # s => AreaDe(p, t)' = AreaDe(p, t)
      BY <1>5 DEF AreaDe
    <3>4. AreaDe(p, s) = {}
      BY <1>2, <1>4 DEF AreaDe
    <3>5. \A t \in Paginas : AreaDe(p, t) \cap (s .. s + n - 1) = {}
      BY <1>1, <1>3, <3>1 DEF AreasDe
    <3>6. ASSUME NEW v \in Paginas
          PROVE  tabela'[p][v].Foo <=> \E t \in Paginas : v \in AreaDe(p, t)'
      <4>1. CASE v \in s .. s + n - 1
        <5>1. tabela'[p][v].Foo
          BY <1>5, <4>1, Entradas
        <5> QED BY <3>2, <4>1, <5>1
      <4>2. CASE v \notin s .. s + n - 1
        <5>1. tabela'[p][v].Foo = tabela[p][v].Foo
          BY <1>5, <4>2
        <5>2. \A t \in Paginas : v \in AreaDe(p, t)' <=> v \in AreaDe(p, t)
          BY <3>2, <3>3, <3>4, <4>2
        <5> QED BY <3>1, <5>1, <5>2 DEF AreasDe
      <4> QED BY <4>1, <4>2
    <3>7. \A t, u \in Paginas : t # u => AreaDe(p, t)' \cap AreaDe(p, u)' = {}
      <4> SUFFICES ASSUME NEW t \in Paginas, NEW u \in Paginas, t # u
                   PROVE  AreaDe(p, t)' \cap AreaDe(p, u)' = {}
        OBVIOUS
      <4>1. CASE t = s
        <5>1. AreaDe(p, u)' = AreaDe(p, u) /\ AreaDe(p, u) \cap (s .. s + n - 1) = {}
          BY <3>3, <3>5, <4>1
        <5> QED BY <3>2, <4>1, <5>1
      <4>2. CASE u = s
        <5>1. AreaDe(p, t)' = AreaDe(p, t) /\ AreaDe(p, t) \cap (s .. s + n - 1) = {}
          BY <3>3, <3>5, <4>2
        <5> QED BY <3>2, <4>2, <5>1
      <4>3. CASE t # s /\ u # s
        BY <3>1, <3>3, <4>3 DEF AreasDe
      <4> QED BY <4>1, <4>2, <4>3
    <3>8. \A t \in Paginas : AreaDe(p, t)' \subseteq Paginas
      BY <1>3, <3>1, <3>2, <3>3 DEF AreasDe
    <3> QED BY <2>2, <3>6, <3>7, <3>8 DEF AreasDe
  <2> QED BY <2>1, <2>2
<1> QED BY <1>6, <1>8, <1>9, <1>10, <1>11

\* desaloca_a_partir_de_tal_endereco keeps the invariant.
LEMMA DesalocaMantem ==
    ASSUME IInv, NEW p \in Processos, NEW s \in Paginas,
           desaloca_a_partir_de_tal_endereco(p, s)
    PROVE  IInv'
<1>1. AreasDe(p) /\ AreaDe(p, s) \in SUBSET Paginas /\ AreaDe(p, s) \cap Paginas = AreaDe(p, s)
  BY AreasPorProcesso DEF IInv, AreasDe
<1>2. /\ paginas_livres' \in SUBSET Quadros
      /\ prox_pag_livre' \in 0 .. PAGINAS_TOTAIS
      /\ paginas_em_uso' \in 0 .. PAGINAS_TOTAIS
      /\ tabela' \in [Processos -> [Paginas -> PageTableEntry]]
      /\ QuadroExclusivo' /\ LivresExatos' /\ ContadorExato' /\ DicaExata'
      /\ \A q \in Processos, v \in Paginas : tabela'[q][v] =
            IF q = p /\ v \in AreaDe(p, s) THEN EntradaNula ELSE tabela[q][v]
  <2> DEFINE P == AreaDe(p, s)
  <2>1. libera_paginas(QuadrosDe(p, P)) /\ tabela' = TabelaSem(p, P) /\ P \in SUBSET Paginas
    BY <1>1 DEF desaloca_a_partir_de_tal_endereco
  <2> HIDE DEF P
  <2>2. /\ paginas_livres' \in SUBSET Quadros
        /\ prox_pag_livre' \in 0 .. PAGINAS_TOTAIS
        /\ paginas_em_uso' \in 0 .. PAGINAS_TOTAIS
        /\ tabela' \in [Processos -> [Paginas -> PageTableEntry]]
        /\ QuadroExclusivo' /\ LivresExatos' /\ ContadorExato' /\ DicaExata'
        /\ \A q \in Processos, v \in Paginas : tabela'[q][v] =
              IF q = p /\ v \in P THEN EntradaNula ELSE tabela[q][v]
    BY <2>1, ApagaEntradas
  <2> QED BY <2>2 DEF P
<1> USE DEF IInv
<1>3. /\ alocacoes' = [alocacoes EXCEPT ![p][s] = 0]
      /\ UNCHANGED <<vivas, pmem>>
      /\ p \in vivas
  BY DEF desaloca_a_partir_de_tal_endereco
<1>4. /\ alocacoes \in [Processos -> [Paginas -> 0 .. ptes_per_table]]
      /\ s \in Nat
  BY PagingAssumption DEF TypeOK, Paginas
<1>5. TypeOK'
  <2>1. alocacoes' \in [Processos -> [Paginas -> 0 .. ptes_per_table]]
    BY <1>3, <1>4, PagingAssumption
  <2>2. escrita' \in Escritas
    BY EscritasTipo DEF desaloca_a_partir_de_tal_endereco
  <2> QED BY <1>2, <1>3, <2>1, <2>2 DEF TypeOK
<1>6. SoVivasMapeiam'
  <2> SUFFICES ASSUME NEW q \in Processos, q \notin vivas, NEW v \in Paginas
               PROVE  tabela'[q][v] = EntradaNula /\ alocacoes'[q][v] = 0
    BY <1>3 DEF SoVivasMapeiam
  <2>1. q # p /\ tabela[q][v] = EntradaNula /\ alocacoes[q][v] = 0
    BY <1>3 DEF SoVivasMapeiam
  <2>2. tabela'[q][v] = EntradaNula
    BY <1>2, <2>1
  <2>3. alocacoes'[q][v] = 0
    BY <1>3, <1>4, <2>1
  <2> QED BY <2>2, <2>3
<1>7. AreasCoerentes'
  <2> SUFFICES ASSUME NEW q \in Processos
               PROVE  AreasDe(q)'
    BY DEF AreasCoerentes, AreasDe
  <2>1. CASE q # p
    <3>1. alocacoes'[q] = alocacoes[q]
      BY <1>3, <1>4, <2>1
    <3>2. \A v \in Paginas : tabela'[q][v].Foo = tabela[q][v].Foo
      BY <1>2, <2>1
    <3> QED BY <3>1, <3>2, AreasInalteradas, AreasPorProcesso
  <2>2. CASE q = p
    <3>1. AreaDe(p, s)' = {}
      BY <1>3, <1>4 DEF AreaDe
    <3>2. \A t \in Paginas : t # s => AreaDe(p, t)' = AreaDe(p, t)
      BY <1>3, <1>4 DEF AreaDe
    <3>3. ASSUME NEW v \in Paginas
          PROVE  tabela'[p][v].Foo <=> \E t \in Paginas : v \in AreaDe(p, t)'
      <4>1. CASE v \in AreaDe(p, s)
        <5>1. ~tabela'[p][v].Foo
          BY <1>2, <4>1, Entradas
        <5>2. \A t \in Paginas : v \notin AreaDe(p, t)'
          BY <1>1, <3>1, <3>2, <4>1 DEF AreasDe
        <5> QED BY <5>1, <5>2
      <4>2. CASE v \notin AreaDe(p, s)
        <5>1. tabela'[p][v].Foo = tabela[p][v].Foo
          BY <1>2, <4>2
        <5>2. \A t \in Paginas : v \in AreaDe(p, t)' <=> v \in AreaDe(p, t)
          BY <3>1, <3>2, <4>2
        <5> QED BY <1>1, <5>1, <5>2 DEF AreasDe
      <4> QED BY <4>1, <4>2
    <3>4. \A t, u \in Paginas : t # u => AreaDe(p, t)' \cap AreaDe(p, u)' = {}
      BY <1>1, <3>1, <3>2 DEF AreasDe
    <3>5. \A t \in Paginas : AreaDe(p, t)' \subseteq Paginas
      BY <1>1, <3>1, <3>2 DEF AreasDe
    <3> QED BY <2>2, <3>3, <3>4, <3>5 DEF AreasDe
  <2> QED BY <2>1, <2>2
<1> QED BY <1>2, <1>5, <1>6, <1>7

-----------------------------------------------------------------------------
(* Theorems *)

\* The constructor of Paging establishes the invariant.
LEMMA InitIInv == Init => IInv
<1> SUFFICES ASSUME Init PROVE IInv
  OBVIOUS
<1> USE DEF Init
<1>1. TypeOK
  BY PagingAssumption, Entradas, EscritasTipo DEF TypeOK, Quadros
<1>2. \A p \in Processos, v \in Paginas :
         tabela[p][v] = EntradaNula /\ alocacoes[p][v] = 0
  OBVIOUS
<1>3. QuadroExclusivo /\ LivresExatos /\ SoVivasMapeiam
  BY <1>2, Entradas DEF QuadroExclusivo, LivresExatos, Mapeado, SoVivasMapeiam
<1>4. ContadorExato
  <2>1. Quadros \ paginas_livres = {}
    OBVIOUS
  <2> QED BY <2>1, FS_EmptySet DEF ContadorExato
<1>5. DicaExata
  BY QuadrosFinito DEF DicaExata
<1>6. AreasCoerentes
  <2>1. \A p \in Processos, s \in Paginas : AreaDe(p, s) = {}
    BY <1>2, PagingAssumption DEF AreaDe, Paginas
  <2> QED BY <1>2, <2>1, Entradas DEF AreasCoerentes
<1> QED BY <1>1, <1>3, <1>4, <1>5, <1>6 DEF IInv

\* Every step keeps the invariant.
LEMMA PassoIInv == IInv /\ [Next]_vars => IInv'
<1> SUFFICES ASSUME IInv, [Next]_vars PROVE IInv'
  OBVIOUS
<1>1. ASSUME NEW n \in 0 .. ptes_per_table, NEW codigo \in Codigos(n),
             NEW p \in Processos, CarregaCodigo(p, n, codigo)
      PROVE  IInv'
  BY <1>1, CarregaMantem
<1>2. ASSUME NEW n \in 0 .. ptes_per_table, NEW codigo \in Codigos(n),
             CarregaCodigoSemQuadros(n, codigo)
      PROVE  IInv'
  BY <1>2, CarregaSemQuadrosMantem
<1>3. ASSUME NEW p \in Processos, libera_tabela_paginas(p)
      PROVE  IInv'
  BY <1>3, LiberaTabelaMantem
<1>4. ASSUME NEW p \in Processos, NEW v \in Paginas, NEW x \in Valores,
             vmem_write(p, v, x)
      PROVE  IInv'
  BY <1>4, EscritaMantem
<1>5. ASSUME NEW p \in Processos, NEW v \in Paginas, page_fault(p, v)
      PROVE  IInv'
  BY <1>5, PageFaultMantem
<1>6. ASSUME NEW p \in Processos, NEW s \in Paginas, NEW n \in 1 .. ptes_per_table,
             aloca_dinamicamente(p, s, n)
      PROVE  IInv'
  BY <1>6, AlocaMantem
<1>7. ASSUME NEW p \in Processos, NEW s \in Paginas,
             desaloca_a_partir_de_tal_endereco(p, s)
      PROVE  IInv'
  BY <1>7, DesalocaMantem
<1>8. CASE UNCHANGED vars
  BY <1>8
     DEF vars, IInv, TypeOK, QuadroExclusivo, LivresExatos, Mapeado, ContadorExato,
         SoVivasMapeiam, DicaExata, AreasCoerentes, AreaDe
<1> QED BY <1>1, <1>2, <1>3, <1>4, <1>5, <1>6, <1>7, <1>8 DEF Next

\* Every reachable state of the allocator satisfies the inductive invariant.
THEOREM Invariante == Spec => []IInv
BY InitIInv, PassoIInv, PTL DEF Spec

\* The variables of paging.cpp keep their types: the counter of frames in use and
\* the search hint stay between 0 and the number of frames.
THEOREM TipoCorreto == Spec => []TypeOK
<1>1. IInv => TypeOK
  BY DEF IInv
<1> QED BY <1>1, Invariante, PTL

\* Two processes never share a frame, and no process maps a frame twice, whatever
\* the order of loads, faults, allocations, releases and ends of processes.
THEOREM IsolamentoDosQuadros == Spec => []QuadroExclusivo
<1>1. IInv => QuadroExclusivo
  BY DEF IInv
<1> QED BY <1>1, Invariante, PTL

\* The frames in use are those that live processes map.
LEMMA QuadrosEmUso == IInv => SemVazamento
<1> SUFFICES ASSUME IInv PROVE SemVazamento
  OBVIOUS
<1> USE DEF IInv
<1>1. \A f \in Quadros : f \notin paginas_livres <=>
         \E p \in vivas, v \in Paginas :
            tabela[p][v].Present /\ tabela[p][v].PhyFrameID = f
  <2>1. \A p \in Processos, v \in Paginas : tabela[p][v].Present => p \in vivas
    BY Entradas DEF SoVivasMapeiam
  <2>2. vivas \in SUBSET Processos
    BY DEF TypeOK
  <2> QED BY <2>1, <2>2 DEF LivresExatos, Mapeado
<1>2. \A p \in vivas, v \in Paginas : tabela[p][v].PhyFrameID \in Quadros
  BY DEF TypeOK, PageTableEntry
<1>3. Quadros \ paginas_livres = UNION {QuadrosDe(p, Paginas) : p \in vivas}
  BY <1>1, <1>2 DEF QuadrosDe
<1> QED BY <1>3 DEF SemVazamento, ContadorExato

\* Frames are neither lost nor freed while mapped, and paginas_em_uso is exact:
\* a load that fails half way and the end of a process give back every frame.
THEOREM FramesConservados == Spec => []SemVazamento
BY QuadrosEmUso, Invariante, PTL

\* The hint of the search never skips a free frame: the second loop of
\* aloca_pagina_fisica_livre never finds one.
THEOREM DicaNuncaErra == Spec => []DicaExata
<1>1. IInv => DicaExata
  BY DEF IInv
<1> QED BY <1>1, Invariante, PTL

\* The areas of a process are disjoint, lie in its table and are exactly the pages
\* marked Foo: releasing one area never takes a page of another.
THEOREM AreasDisjuntas == Spec => []AreasCoerentes
<1>1. IInv => AreasCoerentes
  BY DEF IInv
<1> QED BY <1>1, Invariante, PTL

\* The pages of areas hold data: the CPU never executes their words (EntradaDados).
DadosNaoExecutam ==
    \A p \in Processos, v \in Paginas :
        tabela[p][v].Foo => "Executable" \notin tabela[p][v].perms

LEMMA DadosPasso == TypeOK /\ DadosNaoExecutam /\ [Next]_vars => DadosNaoExecutam'
<1> SUFFICES ASSUME TypeOK, DadosNaoExecutam, [Next]_vars,
                    NEW q \in Processos, NEW u \in Paginas,
                    tabela'[q][u].Foo, "Executable" \in tabela'[q][u].perms
             PROVE  FALSE
  BY DEF DadosNaoExecutam
<1>1. tabela \in [Processos -> [Paginas -> PageTableEntry]]
      /\ tabela[q][u] \in PageTableEntry
  BY DEF TypeOK
<1>2. ~ EntradaNula.Foo /\ EntradaDados.perms = {"Readable", "Writable"}
      /\ \A f : ~ EntradaCodigo(f).Foo
  BY DEF EntradaNula, EntradaDados, EntradaCodigo
<1>3. ASSUME tabela'[q][u] = tabela[q][u]
      PROVE  FALSE
  BY <1>3 DEF DadosNaoExecutam
<1>4. ASSUME NEW n \in 0 .. ptes_per_table, NEW codigo, NEW p \in Processos,
             CarregaCodigo(p, n, codigo)
      PROVE  FALSE
  <2>1. PICK fr : tabela' = [tabela EXCEPT ![p] = [v \in Paginas |->
                                IF v < n THEN EntradaCodigo(fr[v]) ELSE EntradaNula]]
    BY <1>4 DEF CarregaCodigo
  <2>2. CASE q = p
    <3>1. tabela'[q][u] = IF u < n THEN EntradaCodigo(fr[u]) ELSE EntradaNula
      BY <1>1, <2>1, <2>2
    <3>2. QED BY <1>2, <3>1
  <2>3. CASE q # p
    BY <1>1, <1>3, <2>1, <2>3
  <2>4. QED BY <2>2, <2>3
<1>5. ASSUME NEW n, NEW codigo, CarregaCodigoSemQuadros(n, codigo)
      PROVE  FALSE
  BY <1>3, <1>5 DEF CarregaCodigoSemQuadros
<1>6. ASSUME NEW p \in Processos, NEW S, tabela' = TabelaSem(p, S)
      PROVE  FALSE
  <2>1. CASE q = p /\ u \in S
    <3>1. tabela'[q][u] = EntradaNula
      BY <1>1, <1>6, <2>1 DEF TabelaSem
    <3>2. QED BY <1>2, <3>1
  <2>2. CASE ~ (q = p /\ u \in S)
    BY <1>1, <1>3, <1>6, <2>2 DEF TabelaSem
  <2>3. QED BY <2>1, <2>2
<1>7. ASSUME NEW p \in Processos, libera_tabela_paginas(p)
      PROVE  FALSE
  BY <1>6, <1>7 DEF libera_tabela_paginas
<1>8. ASSUME NEW p \in Processos, NEW s, desaloca_a_partir_de_tal_endereco(p, s)
      PROVE  FALSE
  BY <1>6, <1>8 DEF desaloca_a_partir_de_tal_endereco
<1>9. ASSUME NEW p, NEW v, NEW x, vmem_write(p, v, x)
      PROVE  FALSE
  BY <1>3, <1>9 DEF vmem_write
<1>10. ASSUME NEW p \in Processos, NEW v \in Paginas, page_fault(p, v)
       PROVE  FALSE
  <2>1. PICK f : tabela' = [tabela EXCEPT ![p][v] = ComQuadro(@, f)]
    BY <1>10 DEF page_fault
  <2>2. CASE q = p /\ u = v
    <3>1. tabela'[q][u] = ComQuadro(tabela[q][u], f)
      BY <1>1, <2>1, <2>2
    <3>2. /\ ComQuadro(tabela[q][u], f).Foo = tabela[q][u].Foo
          /\ ComQuadro(tabela[q][u], f).perms = tabela[q][u].perms
      BY <1>1 DEF ComQuadro, PageTableEntry
    <3>3. QED BY <3>1, <3>2 DEF DadosNaoExecutam
  <2>3. CASE ~ (q = p /\ u = v)
    BY <1>1, <1>3, <2>1, <2>3
  <2>4. QED BY <2>2, <2>3
<1>11. ASSUME NEW p \in Processos, NEW s, NEW n, aloca_dinamicamente(p, s, n)
       PROVE  FALSE
  <2>1. tabela' = [tabela EXCEPT ![p] = [v \in Paginas |->
                      IF v \in s .. s + n - 1 THEN EntradaDados ELSE tabela[p][v]]]
    BY <1>11 DEF aloca_dinamicamente
  <2>2. tabela'[q][u] \in {EntradaDados, tabela[q][u]}
    BY <1>1, <2>1
  <2>3. QED BY <1>2, <1>3, <2>2
<1>12. CASE UNCHANGED vars
  BY <1>3, <1>12 DEF vars
<1>13. QED
  BY <1>4, <1>5, <1>7, <1>8, <1>9, <1>10, <1>11, <1>12 DEF Next

-----------------------------------------------------------------------------
(* Each process has a memory of its own *)

\* A page reads as a value or is not mapped.
LEMMA LeituraTipo ==
    ASSUME TypeOK
    PROVE  /\ Leitura \in [Processos -> [Paginas -> Valores \cup {NaoMapeada}]]
           /\ \A p \in Processos, v \in Paginas : tabela[p][v].Present =>
                 /\ tabela[p][v].PhyFrameID \in Quadros
                 /\ Leitura[p][v] = pmem[tabela[p][v].PhyFrameID]
                 /\ Leitura[p][v] \in Valores
           /\ \A p \in Processos, v \in Paginas : ~tabela[p][v].Present =>
                 Leitura[p][v] = IF tabela[p][v].Foo THEN Zero ELSE NaoMapeada
<1>1. \A p \in Processos, v \in Paginas :
         tabela[p][v].PhyFrameID \in Quadros /\ pmem[tabela[p][v].PhyFrameID] \in Valores
  BY DEF TypeOK, PageTableEntry
<1> QED BY <1>1, PagingAssumption DEF Leitura

\* The value of Leitura in the next state, at one page.
LEMMA LeituraDepois ==
    ASSUME NEW q \in Processos, NEW v \in Paginas
    PROVE  Leitura'[q][v] = IF tabela'[q][v].Present THEN pmem'[tabela'[q][v].PhyFrameID]
                            ELSE IF tabela'[q][v].Foo THEN Zero ELSE NaoMapeada
BY DEF Leitura

\* Leitura' differs from Leitura at process p only.
LEMMA LeituraDeUm ==
    ASSUME NEW p \in Processos, NEW m, m = [v \in Paginas |-> m[v]],
           \A v \in Paginas : Leitura'[p][v] = m[v],
           \A q \in Processos, v \in Paginas : q # p => Leitura'[q][v] = Leitura[q][v]
    PROVE  Leitura' = [Leitura EXCEPT ![p] = m]
<1>1. Leitura = [q \in Processos |-> Leitura[q]] /\ Leitura' = [q \in Processos |-> Leitura'[q]]
  BY DEF Leitura
<1>2. \A q \in Processos : /\ Leitura[q] = [v \in Paginas |-> Leitura[q][v]]
                           /\ Leitura'[q] = [v \in Paginas |-> Leitura'[q][v]]
  BY DEF Leitura
<1>3. \A q \in Processos : Leitura'[q] = IF q = p THEN m ELSE Leitura[q]
  BY <1>2
<1> QED BY <1>1, <1>3

\* A page whose entry does not change, and whose frame does not either, reads the
\* same; so does one whose entry is absent before and after with the same Foo.
LEMMA LeituraConservada ==
    ASSUME TypeOK, NEW q \in Processos, NEW v \in Paginas,
           tabela'[q][v] = tabela[q][v],
           tabela[q][v].Present =>
              pmem'[tabela[q][v].PhyFrameID] = pmem[tabela[q][v].PhyFrameID]
    PROVE  Leitura'[q][v] = Leitura[q][v]
BY LeituraTipo, LeituraDepois

\* Frames in use keep their contents when programs are loaded in free ones.
LEMMA MapeadosIntactos ==
    ASSUME IInv, NEW n, NEW codigo, NEW q \in Processos, NEW v \in Paginas,
           tabela[q][v].Present
    PROVE  MemoriaCarregada(n, codigo)[tabela[q][v].PhyFrameID]
             = pmem[tabela[q][v].PhyFrameID]
<1>1. tabela[q][v].PhyFrameID \in Quadros \ paginas_livres
  BY LeituraTipo DEF IInv, LivresExatos, Mapeado
<1> QED BY <1>1 DEF MemoriaCarregada

\* Loading a program is the creation of a private memory.
LEMMA CarregaCria ==
    ASSUME IInv, NEW p \in Processos, NEW n \in 0 .. ptes_per_table,
           NEW codigo \in Codigos(n), CarregaCodigo(p, n, codigo)
    PROVE  Privada!Cria(p, n, codigo)
<1> n \in Nat
  BY PagingAssumption
<1>1. PICK fr \in [0 .. n - 1 -> paginas_livres] :
         /\ aloca_paginas(n, fr)
         /\ tabela' = [tabela EXCEPT ![p] = [v \in Paginas |->
                          IF v < n THEN EntradaCodigo(fr[v]) ELSE EntradaNula]]
  BY DEF CarregaCodigo
<1>2. /\ alocacoes' = [alocacoes EXCEPT ![p] = [v \in Paginas |-> 0]]
      /\ vivas' = vivas \cup {p}
      /\ pmem' = MemoriaCarregada(n, codigo)
      /\ p \notin vivas
  BY DEF CarregaCodigo
<1>3. /\ TypeOK
      /\ tabela \in [Processos -> [Paginas -> PageTableEntry]]
      /\ paginas_livres \in SUBSET Quadros
  BY DEF IInv, TypeOK
<1>4. ASSUME NEW v \in Paginas
      PROVE  Leitura'[p][v] = IF v < n THEN codigo[v] ELSE NaoMapeada
  <2>1. tabela'[p][v] = IF v < n THEN EntradaCodigo(fr[v]) ELSE EntradaNula
    BY <1>1, <1>3
  <2>2. CASE v < n
    <3>1. v \in 0 .. n - 1
      BY <2>2, PagingAssumption DEF Paginas
    <3>2. fr[v] \in paginas_livres /\ fr[v] \in Quadros /\ Ordem(fr[v]) = v
      BY <1>1, <1>3, <3>1 DEF aloca_paginas
    <3>3. pmem'[fr[v]] = codigo[v]
      BY <1>2, <2>2, <3>2 DEF MemoriaCarregada
    <3> QED BY <2>1, <2>2, <3>2, <3>3, Entradas, LeituraDepois
  <2>3. CASE ~(v < n)
    BY <2>1, <2>3, Entradas, LeituraDepois
  <2> QED BY <2>2, <2>3
<1>5. ASSUME NEW q \in Processos, NEW v \in Paginas, q # p
      PROVE  Leitura'[q][v] = Leitura[q][v]
  <2>1. tabela'[q][v] = tabela[q][v]
    BY <1>1, <1>3, <1>5
  <2>2. tabela[q][v].Present =>
           pmem'[tabela[q][v].PhyFrameID] = pmem[tabela[q][v].PhyFrameID]
    BY <1>2, MapeadosIntactos
  <2> QED BY <1>3, <2>1, <2>2, LeituraConservada
<1> DEFINE m == [v \in Paginas |-> IF v < n THEN codigo[v] ELSE NaoMapeada]
<1>6. Leitura' = [Leitura EXCEPT ![p] = m]
  <2>1. m = [v \in Paginas |-> m[v]] /\ \A v \in Paginas : Leitura'[p][v] = m[v]
    BY <1>4
  <2> HIDE DEF m
  <2> QED BY <1>5, <2>1, LeituraDeUm
<1>7. escrita' = <<>>
  BY DEF CarregaCodigo
<1> QED BY <1>2, <1>6, <1>7 DEF Privada!Cria, Privada!Paginas, Paginas

\* Releasing a page table is the end of a private memory.
LEMMA LiberaEncerra ==
    ASSUME IInv, NEW p \in Processos, libera_tabela_paginas(p)
    PROVE  Privada!Encerra(p)
<1>1. /\ alocacoes' = [alocacoes EXCEPT ![p] = [v \in Paginas |-> 0]]
      /\ vivas' = vivas \ {p} /\ pmem' = pmem /\ p \in vivas
      /\ tabela' = TabelaSem(p, Paginas)
  BY DEF libera_tabela_paginas
<1>2. TypeOK /\ tabela \in [Processos -> [Paginas -> PageTableEntry]]
  BY DEF IInv, TypeOK
<1>3. \A v \in Paginas : Leitura'[p][v] = NaoMapeada
  <2>1. \A v \in Paginas : tabela'[p][v] = EntradaNula
    BY <1>1, <1>2 DEF TabelaSem
  <2> QED BY <2>1, Entradas, LeituraDepois
<1>4. \A q \in Processos, v \in Paginas : q # p => Leitura'[q][v] = Leitura[q][v]
  <2>1. \A q \in Processos, v \in Paginas : q # p => tabela'[q][v] = tabela[q][v]
    BY <1>1, <1>2 DEF TabelaSem
  <2> QED BY <1>1, <1>2, <2>1, LeituraConservada
<1> DEFINE m == [v \in Paginas |-> NaoMapeada]
<1>5. Leitura' = [Leitura EXCEPT ![p] = m]
  <2>1. m = [v \in Paginas |-> m[v]] /\ \A v \in Paginas : Leitura'[p][v] = m[v]
    BY <1>3
  <2> HIDE DEF m
  <2> QED BY <1>4, <2>1, LeituraDeUm
<1>6. escrita' = <<>>
  BY DEF libera_tabela_paginas
<1> QED BY <1>1, <1>5, <1>6 DEF Privada!Encerra, Privada!Paginas, Paginas

\* A store changes one page of the memory of its process, and of no other.
LEMMA EscritaEscreve ==
    ASSUME IInv, NEW p \in Processos, NEW v \in Paginas, NEW x \in Valores,
           vmem_write(p, v, x)
    PROVE  Privada!Escreve(p, v, x)
<1> DEFINE f == tabela[p][v].PhyFrameID
<1>1. /\ UNCHANGED <<vivas, tabela, alocacoes>> /\ p \in vivas
      /\ tabela[p][v].Present
      /\ pmem' = [pmem EXCEPT ![f] = x]
  BY DEF vmem_write
<1>2. TypeOK /\ pmem \in [Quadros -> Valores] /\ f \in Quadros
  BY <1>1, LeituraTipo DEF IInv, TypeOK
<1>3. Leitura[p][v] # NaoMapeada
  BY <1>1, <1>2, LeituraTipo, PagingAssumption
<1>4. ASSUME NEW q \in Processos, NEW u \in Paginas
      PROVE  Leitura'[q][u] = IF q = p /\ u = v THEN x ELSE Leitura[q][u]
  <2>1. CASE q = p /\ u = v
    BY <1>1, <1>2, <2>1, LeituraDepois
  <2>2. CASE ~(q = p /\ u = v)
    <3>1. tabela[q][u].Present => tabela[q][u].PhyFrameID \in Quadros \ {f}
      BY <1>1, <1>2, <2>2, LeituraTipo DEF IInv, QuadroExclusivo
    <3>2. tabela[q][u].Present =>
             pmem'[tabela[q][u].PhyFrameID] = pmem[tabela[q][u].PhyFrameID]
      BY <1>1, <1>2, <3>1
    <3>3. tabela'[q][u] = tabela[q][u]
      BY <1>1
    <3>4. Leitura'[q][u] = Leitura[q][u]
      BY <1>2, <3>2, <3>3, LeituraConservada
    <3> QED BY <2>2, <3>4
  <2> QED BY <2>1, <2>2
<1> DEFINE m == [Leitura[p] EXCEPT ![v] = x]
<1>5. Leitura' = [Leitura EXCEPT ![p] = m]
  <2>1. Leitura[p] = [u \in Paginas |-> Leitura[p][u]]
    BY DEF Leitura
  <2>2. m = [u \in Paginas |-> m[u]] /\ \A u \in Paginas : Leitura'[p][u] = m[u]
    BY <1>4, <2>1
  <2> HIDE DEF m
  <2> QED BY <1>4, <2>2, LeituraDeUm
<1>6. Leitura' = [Leitura EXCEPT ![p][v] = x]
  BY <1>5
<1>7. escrita' = <<p, v, x>>
  BY DEF vmem_write
<1> QED BY <1>1, <1>3, <1>6, <1>7 DEF Privada!Escreve

\* A page of an area reads as zeros before its first access and after it.
LEMMA PageFaultNaoMuda ==
    ASSUME IInv, NEW p \in Processos, NEW v \in Paginas, page_fault(p, v)
    PROVE  Privada!Interno
<1>1. PICK f \in paginas_livres :
         /\ tabela' = [tabela EXCEPT ![p][v] = ComQuadro(@, f)]
         /\ pmem' = [pmem EXCEPT ![f] = Zero]
  <2>1. PICK fr \in [0 .. 0 -> paginas_livres] :
           /\ tabela' = [tabela EXCEPT ![p][v] = ComQuadro(@, fr[0])]
           /\ pmem' = [pmem EXCEPT ![fr[0]] = Zero]
    BY DEF page_fault
  <2>2. fr[0] \in paginas_livres
    OBVIOUS
  <2> QED BY <2>1, <2>2
<1>2. /\ TypeOK /\ tabela \in [Processos -> [Paginas -> PageTableEntry]]
      /\ pmem \in [Quadros -> Valores] /\ f \in Quadros
  BY DEF IInv, TypeOK
<1>3. tabela[p][v].Foo /\ ~tabela[p][v].Present /\ UNCHANGED <<vivas, alocacoes>>
  BY DEF page_fault
<1>4. ASSUME NEW q \in Processos, NEW u \in Paginas
      PROVE  Leitura'[q][u] = Leitura[q][u]
  <2>1. CASE q = p /\ u = v
    <3>1. tabela'[p][v] = ComQuadro(tabela[p][v], f) /\ pmem'[f] = Zero
      BY <1>1, <1>2
    <3>2. tabela'[p][v].Present /\ tabela'[p][v].PhyFrameID = f
      BY <1>2, <3>1, Entradas
    <3>3. Leitura'[p][v] = Zero
      BY <3>1, <3>2, LeituraDepois
    <3>4. Leitura[p][v] = Zero
      BY <1>2, <1>3, LeituraTipo
    <3> QED BY <2>1, <3>3, <3>4
  <2>2. CASE ~(q = p /\ u = v)
    <3>1. tabela'[q][u] = tabela[q][u]
      BY <1>1, <1>2, <2>2
    <3>2. tabela[q][u].Present => tabela[q][u].PhyFrameID \in Quadros \ {f}
      BY <1>2, LeituraTipo DEF IInv, LivresExatos, Mapeado
    <3>3. tabela[q][u].Present =>
             pmem'[tabela[q][u].PhyFrameID] = pmem[tabela[q][u].PhyFrameID]
      BY <1>1, <1>2, <3>2
    <3> QED BY <1>2, <3>1, <3>3, LeituraConservada
  <2> QED BY <2>1, <2>2
<1>5. Leitura' = Leitura
  <2>1. /\ Leitura = [q \in Processos |-> [u \in Paginas |-> Leitura[q][u]]]
        /\ Leitura' = [q \in Processos |-> [u \in Paginas |-> Leitura'[q][u]]]
    BY DEF Leitura
  <2> QED BY <1>4, <2>1
<1>6. escrita' = <<>>
  BY DEF page_fault
<1> QED BY <1>3, <1>5, <1>6 DEF Privada!Interno

\* A load that fails writes only free frames: nobody sees it.
LEMMA SemQuadrosNaoMuda ==
    ASSUME IInv, NEW n \in 0 .. ptes_per_table, NEW codigo \in Codigos(n),
           CarregaCodigoSemQuadros(n, codigo)
    PROVE  Privada!Interno
<1>1. UNCHANGED <<vivas, tabela, alocacoes>> /\ pmem' = MemoriaCarregada(n, codigo)
  BY DEF CarregaCodigoSemQuadros
<1>2. TypeOK
  BY DEF IInv
<1>3. ASSUME NEW q \in Processos, NEW u \in Paginas
      PROVE  Leitura'[q][u] = Leitura[q][u]
  <2>1. tabela[q][u].Present =>
           pmem'[tabela[q][u].PhyFrameID] = pmem[tabela[q][u].PhyFrameID]
    BY <1>1, MapeadosIntactos
  <2>2. tabela'[q][u] = tabela[q][u]
    BY <1>1
  <2> QED BY <1>2, <2>1, <2>2, LeituraConservada
<1>4. Leitura' = Leitura
  <2>1. /\ Leitura = [q \in Processos |-> [u \in Paginas |-> Leitura[q][u]]]
        /\ Leitura' = [q \in Processos |-> [u \in Paginas |-> Leitura'[q][u]]]
    BY DEF Leitura
  <2> QED BY <1>3, <2>1
<1>5. escrita' = <<>>
  BY DEF CarregaCodigoSemQuadros
<1> QED BY <1>1, <1>4, <1>5 DEF Privada!Interno

\* An allocation adds pages of zeros to the memory of its process.
LEMMA AlocaAloca ==
    ASSUME IInv, NEW p \in Processos, NEW s \in Paginas, NEW n \in 1 .. ptes_per_table,
           aloca_dinamicamente(p, s, n)
    PROVE  Privada!Aloca(p, s, n)
<1> DEFINE I == s .. s + n - 1
<1>1. /\ UNCHANGED <<vivas, pmem>>
      /\ p \in vivas
      /\ s + n <= ptes_per_table
      /\ \A v \in I : ~tabela[p][v].Foo /\ ~tabela[p][v].Present
      /\ tabela' = [tabela EXCEPT ![p] = [v \in Paginas |->
                       IF v \in I THEN EntradaDados ELSE tabela[p][v]]]
      /\ alocacoes' = [alocacoes EXCEPT ![p][s] = IF @ = 0 THEN n ELSE @]
  BY DEF aloca_dinamicamente, Cabe
<1>2. /\ TypeOK /\ tabela \in [Processos -> [Paginas -> PageTableEntry]]
      /\ alocacoes \in [Processos -> [Paginas -> 0 .. ptes_per_table]]
      /\ s \in Nat /\ n \in Nat /\ n > 0 /\ ptes_per_table \in Nat
  BY PagingAssumption DEF IInv, TypeOK, Paginas
<1>3. I \subseteq Paginas /\ s \in I
  BY <1>1, <1>2 DEF Paginas
<1> HIDE DEF I
<1>4. alocacoes[p][s] = 0
  <2>1. alocacoes[p][s] # 0 => s \in AreaDe(p, s)
    BY <1>2 DEF AreaDe
  <2> QED BY <1>1, <1>3, <2>1 DEF IInv, AreasCoerentes
<1>5. \A v \in I : v \in Paginas /\ Leitura[p][v] = NaoMapeada
  BY <1>1, <1>2, <1>3, LeituraTipo
<1>6. ASSUME NEW q \in Processos, NEW v \in Paginas
      PROVE  Leitura'[q][v] = IF q = p /\ v \in I THEN Zero ELSE Leitura[q][v]
  <2>1. CASE q = p /\ v \in I
    <3>1. tabela'[q][v] = EntradaDados
      BY <1>1, <1>2, <2>1
    <3> QED BY <2>1, <3>1, Entradas, LeituraDepois
  <2>2. CASE ~(q = p /\ v \in I)
    <3>1. tabela'[q][v] = tabela[q][v]
      BY <1>1, <1>2, <2>2
    <3>2. Leitura'[q][v] = Leitura[q][v]
      BY <1>1, <1>2, <3>1, LeituraConservada
    <3> QED BY <2>2, <3>2
  <2> QED BY <2>1, <2>2
<1> DEFINE m == [v \in Paginas |-> IF v \in I THEN Zero ELSE Leitura[p][v]]
<1>7. Leitura' = [Leitura EXCEPT ![p] = m]
  <2>1. m = [v \in Paginas |-> m[v]] /\ \A v \in Paginas : Leitura'[p][v] = m[v]
    BY <1>6
  <2> HIDE DEF m
  <2> QED BY <1>6, <2>1, LeituraDeUm
<1>8. alocacoes' = [alocacoes EXCEPT ![p][s] = n]
  BY <1>1, <1>2, <1>4
<1>9. escrita' = <<>>
  BY DEF aloca_dinamicamente
<1> QED BY <1>1, <1>4, <1>5, <1>7, <1>8, <1>9 DEF Privada!Aloca, Privada!Paginas, Paginas, I

\* A release takes one area away from the memory of its process.
LEMMA DesalocaDesaloca ==
    ASSUME IInv, NEW p \in Processos, NEW s \in Paginas,
           desaloca_a_partir_de_tal_endereco(p, s)
    PROVE  Privada!Desaloca(p, s)
<1> DEFINE I == s .. s + alocacoes[p][s] - 1
<1>1. /\ UNCHANGED <<vivas, pmem>>
      /\ p \in vivas
      /\ alocacoes[p][s] # 0
      /\ tabela' = TabelaSem(p, I)
      /\ alocacoes' = [alocacoes EXCEPT ![p][s] = 0]
  BY DEF desaloca_a_partir_de_tal_endereco, AreaDe
<1>2. TypeOK /\ tabela \in [Processos -> [Paginas -> PageTableEntry]]
  BY DEF IInv, TypeOK
<1> HIDE DEF I
<1>3. ASSUME NEW q \in Processos, NEW v \in Paginas
      PROVE  Leitura'[q][v] = IF q = p /\ v \in I THEN NaoMapeada ELSE Leitura[q][v]
  <2>1. CASE q = p /\ v \in I
    <3>1. tabela'[q][v] = EntradaNula
      BY <1>1, <1>2, <2>1 DEF TabelaSem
    <3> QED BY <2>1, <3>1, Entradas, LeituraDepois
  <2>2. CASE ~(q = p /\ v \in I)
    <3>1. tabela'[q][v] = tabela[q][v]
      BY <1>1, <1>2, <2>2 DEF TabelaSem
    <3>2. Leitura'[q][v] = Leitura[q][v]
      BY <1>1, <1>2, <3>1, LeituraConservada
    <3> QED BY <2>2, <3>2
  <2> QED BY <2>1, <2>2
<1> DEFINE m == [v \in Paginas |-> IF v \in I THEN NaoMapeada ELSE Leitura[p][v]]
<1>4. Leitura' = [Leitura EXCEPT ![p] = m]
  <2>1. m = [v \in Paginas |-> m[v]] /\ \A v \in Paginas : Leitura'[p][v] = m[v]
    BY <1>3
  <2> HIDE DEF m
  <2> QED BY <1>3, <2>1, LeituraDeUm
<1>5. escrita' = <<>>
  BY DEF desaloca_a_partir_de_tal_endereco
<1> QED BY <1>1, <1>4, <1>5 DEF Privada!Desaloca, Privada!Paginas, Paginas, I

\* With no process there is no private memory.
LEMMA InitPrivada == Init => Privada!Init
<1> SUFFICES ASSUME Init PROVE Privada!Init
  OBVIOUS
<1>1. \A p \in Processos, v \in Paginas : tabela[p][v] = EntradaNula
  BY DEF Init
<1>2. Leitura = [p \in Processos |-> [v \in Paginas |-> NaoMapeada]]
  BY <1>1, Entradas DEF Leitura
<1> QED BY <1>2 DEF Init, Privada!Init, Privada!Paginas, Paginas

\* Every step of Paging is a step of the private memory, or none.
LEMMA PassoPrivada == IInv /\ [Next]_vars => [Privada!Next]_(Privada!vars)
<1> SUFFICES ASSUME IInv, [Next]_vars PROVE [Privada!Next]_(Privada!vars)
  OBVIOUS
<1> USE DEF Privada!vars
<1>0. Privada!Paginas = Paginas
  BY DEF Privada!Paginas, Paginas
<1>1. ASSUME NEW n \in 0 .. ptes_per_table, NEW codigo \in Codigos(n),
             NEW p \in Processos, CarregaCodigo(p, n, codigo)
      PROVE  Privada!Next
  BY <1>1, CarregaCria DEF Privada!Next, Codigos
<1>2. ASSUME NEW n \in 0 .. ptes_per_table, NEW codigo \in Codigos(n),
             CarregaCodigoSemQuadros(n, codigo)
      PROVE  Privada!Next
  BY <1>2, SemQuadrosNaoMuda DEF Privada!Next
<1>3. ASSUME NEW p \in Processos, libera_tabela_paginas(p)
      PROVE  Privada!Next
  BY <1>3, LiberaEncerra DEF Privada!Next
<1>4. ASSUME NEW p \in Processos, NEW v \in Paginas, NEW x \in Valores,
             vmem_write(p, v, x)
      PROVE  Privada!Next
  BY <1>0, <1>4, EscritaEscreve DEF Privada!Next
<1>5. ASSUME NEW p \in Processos, NEW v \in Paginas, page_fault(p, v)
      PROVE  Privada!Next
  BY <1>5, PageFaultNaoMuda DEF Privada!Next
<1>6. ASSUME NEW p \in Processos, NEW s \in Paginas, NEW n \in 1 .. ptes_per_table,
             aloca_dinamicamente(p, s, n)
      PROVE  Privada!Next
  BY <1>0, <1>6, AlocaAloca DEF Privada!Next
<1>7. ASSUME NEW p \in Processos, NEW s \in Paginas,
             desaloca_a_partir_de_tal_endereco(p, s)
      PROVE  Privada!Next
  BY <1>0, <1>7, DesalocaDesaloca DEF Privada!Next
<1>8. CASE UNCHANGED vars
  BY <1>8 DEF vars, Leitura
<1> QED BY <1>1, <1>2, <1>3, <1>4, <1>5, <1>6, <1>7, <1>8 DEF Next

\* paging.cpp implements a memory private to each process: what a process reads at
\* a page is what it last wrote there, its program or zeros, never what another
\* process, or an earlier owner of the frame, left behind.
THEOREM MemoriaPrivadaImplementada == Spec => MemoriaIsolada
<1>1. MemoriaIsolada <=> Privada!Init /\ [][Privada!Next]_(Privada!vars)
  BY DEF MemoriaIsolada, Privada!Spec
<1> QED BY <1>1, Invariante, InitPrivada, PassoPrivada, PTL DEF Spec
=============================================================================
