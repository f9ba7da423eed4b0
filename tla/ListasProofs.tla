---------------------------- MODULE ListasProofs ----------------------------
(***************************************************************************)
(* What the proofs of the project use of lists: the least number principle,  *)
(* by which they go from one element to a list of any length, the elements   *)
(* of a list after each operation, and that none is in it twice.            *)
(***************************************************************************)
EXTENDS Listas, SequenceTheorems, FiniteSetTheorems, WellFoundedInduction, TLAPS

\* A set of natural numbers has a least one.
LEMMA MenorNumero ==
    ASSUME NEW S, S \subseteq Nat, S # {}
    PROVE  \E m \in S : \A k \in S : m <= k
<1> DEFINE Ate(n) == 0 .. n - 1
           T == {Ate(n) : n \in S}
<1>1. T \subseteq FiniteSubsetsOf(Nat)
  <2>1. \A n \in S : Ate(n) \in SUBSET Nat /\ IsFiniteSet(Ate(n))
    BY FS_Interval
  <2>2. QED BY <2>1 DEF FiniteSubsetsOf
<1>2. PICK x \in T : \A y \in T : ~ (<<y, x>> \in StrictSubsetOrdering(Nat))
  <2>1. IsWellFoundedOn(StrictSubsetOrdering(Nat), FiniteSubsetsOf(Nat))
    BY FS_StrictSubsetOrderingWellFounded
  <2>2. T # {}
    OBVIOUS
  <2> HIDE DEF T
  <2>3. QED BY <1>1, <2>1, <2>2, WFMin
<1>3. PICK m \in S : x = Ate(m)
  BY <1>2
<1>4. ASSUME NEW k \in S, ~(m <= k)
      PROVE  FALSE
  <2>1. Ate(k) \subseteq Ate(m) /\ Ate(k) # Ate(m) /\ Ate(m) \subseteq Nat
    <3>1. k \in Ate(m) /\ k \notin Ate(k)
      BY <1>4
    <3>2. QED BY <1>4, <3>1
  <2>2. <<Ate(k), Ate(m)>> \in StrictSubsetOrdering(Nat)
    BY <2>1 DEF StrictSubsetOrdering
  <2>3. QED BY <1>2, <1>3, <2>2
<1>5. QED BY <1>4

-----------------------------------------------------------------------------
(* The filter *)

\* The recursive definition of Filtradas has a solution, whatever the list.
LEMMA FiltradasDefinidas ==
    ASSUME NEW s, NEW A, Len(s) \in Nat
    PROVE  /\ Filtradas(s, A)[0] = <<>>
           /\ \A i \in 1 .. Len(s) :
                 Filtradas(s, A)[i] = Mais(Filtradas(s, A)[i - 1], s[i], A)
<1> DEFINE L == Len(s)
           Passo(g, n) ==
               [i \in 0 .. n |-> IF i = 0 THEN <<>> ELSE Mais(g[i - 1], s[i], A)]
           Faltam == {n \in 0 .. L : ~ \E g : g = Passo(g, n)}
<1>1. Faltam = {}
  <2>1. SUFFICES ASSUME Faltam # {} PROVE FALSE
    OBVIOUS
  <2>2. PICK m \in Faltam : \A k \in Faltam : m <= k
    <3>1. Faltam \subseteq Nat
      OBVIOUS
    <3> HIDE DEF Faltam
    <3>2. QED BY <2>1, <3>1, MenorNumero
  <2>3. CASE m = 0
    <3> DEFINE h == [i \in 0 .. 0 |-> <<>>]
    <3>1. h = Passo(h, 0)
      OBVIOUS
    <3>2. QED BY <2>2, <2>3, <3>1
  <2>4. CASE m # 0
    <3>1. m - 1 \in 0 .. L /\ m \in Nat /\ ~(m <= m - 1)
      BY <2>4
    <3>2. PICK g : g = Passo(g, m - 1)
      BY <2>2, <3>1
    <3> DEFINE h == [i \in 0 .. m |-> IF i < m THEN g[i] ELSE Mais(g[m - 1], s[m], A)]
    <3>3. ASSUME NEW i \in 0 .. m
          PROVE  h[i] = IF i = 0 THEN <<>> ELSE Mais(h[i - 1], s[i], A)
      <4>1. CASE i = 0
        <5>1. h[i] = g[0] /\ 0 \in 0 .. m - 1
          BY <2>4, <3>1, <4>1
        <5>2. g[0] = <<>>
          BY <3>2, <5>1
        <5>3. QED BY <4>1, <5>1, <5>2
      <4>2. CASE i # 0 /\ i < m
        <5>1. h[i] = g[i] /\ h[i - 1] = g[i - 1] /\ i \in 0 .. m - 1
          BY <3>1, <4>2
        <5>2. g[i] = Mais(g[i - 1], s[i], A)
          BY <3>2, <4>2, <5>1
        <5>3. QED BY <4>2, <5>1, <5>2
      <4>3. CASE i # 0 /\ ~(i < m)
        <5>1. i = m /\ h[i - 1] = g[m - 1]
          BY <3>1, <4>3
        <5>2. QED BY <4>3, <5>1
      <4>4. QED BY <4>1, <4>2, <4>3
    <3>4. h = Passo(h, m)
      BY <3>3
    <3>5. QED BY <2>2, <3>4
  <2>5. QED BY <2>3, <2>4
<1>2. \E g : g = Passo(g, L)
  <2>1. L \in 0 .. L
    OBVIOUS
  <2>2. QED BY <1>1, <2>1
<1>3. Filtradas(s, A) = Passo(Filtradas(s, A), L)
  BY <1>2 DEF Filtradas
<1>4. \A i \in 0 .. L : Filtradas(s, A)[i] =
          IF i = 0 THEN <<>> ELSE Mais(Filtradas(s, A)[i - 1], s[i], A)
  BY <1>3
<1> HIDE DEF Passo
<1>5. QED BY <1>4

-----------------------------------------------------------------------------
(* The elements of a list *)

\* An element is somewhere in the list.
LEMMA Elemento ==
    ASSUME NEW S, NEW s \in Seq(S), NEW x
    PROVE  x \in ToSet(s) <=> \E i \in 1 .. Len(s) : s[i] = x
BY DEF ToSet

LEMMA ElementosEmS ==
    ASSUME NEW S, NEW s \in Seq(S)
    PROVE  ToSet(s) \subseteq S
BY DEF ToSet

\* No element is twice in the list.
LEMMA SemRepetir ==
    ASSUME NEW S, NEW s \in Seq(S)
    PROVE  IsInjective(s) <=> \A i, j \in 1 .. Len(s) : s[i] = s[j] => i = j
BY DEF IsInjective

LEMMA ListaVazia ==
    /\ ToSet(<<>>) = {} /\ IsInjective(<<>>)
    /\ \A S : \A s \in Seq(S) : ToSet(s) = {} => s = <<>>
<1>1. ToSet(<<>>) = {} /\ IsInjective(<<>>)
  BY DEF ToSet, IsInjective
<1>2. ASSUME NEW S, NEW s \in Seq(S), ToSet(s) = {}, s # <<>> PROVE FALSE
  <2>1. 1 \in DOMAIN s
    BY <1>2
  <2>2. QED BY <1>2, <2>1 DEF ToSet
<1>3. QED BY <1>1, <1>2

\* One more at the end.
LEMMA ComMais ==
    ASSUME NEW S, NEW s \in Seq(S), NEW x \in S
    PROVE  /\ Append(s, x) \in Seq(S) /\ Append(s, x) # <<>>
           /\ ToSet(Append(s, x)) = ToSet(s) \cup {x}
           /\ IsInjective(s) /\ x \notin ToSet(s) => IsInjective(Append(s, x))
<1> DEFINE t == Append(s, x)
<1>1. /\ t \in Seq(S) /\ t # <<>> /\ Len(t) = Len(s) + 1 /\ Len(s) \in Nat
      /\ \A i \in 1 .. Len(s) : t[i] = s[i]
      /\ t[Len(s) + 1] = x
  OBVIOUS
<1> HIDE DEF t
<1>2. ToSet(t) = ToSet(s) \cup {x}
  <2>1. ASSUME NEW y \in ToSet(t) PROVE y \in ToSet(s) \cup {x}
    <3>1. PICK i \in 1 .. Len(s) + 1 : t[i] = y
      BY <1>1, Elemento
    <3>2. CASE i = Len(s) + 1
      BY <1>1, <3>1, <3>2
    <3>3. CASE i # Len(s) + 1
      <4>1. i \in 1 .. Len(s) /\ s[i] = y
        BY <1>1, <3>1, <3>3
      <4>2. QED BY <4>1, Elemento
    <3>4. QED BY <3>2, <3>3
  <2>2. ASSUME NEW y \in ToSet(s) PROVE y \in ToSet(t)
    <3>1. PICK i \in 1 .. Len(s) : s[i] = y
      BY Elemento
    <3>2. i \in 1 .. Len(t) /\ t[i] = y
      BY <1>1, <3>1
    <3>3. QED BY <1>1, <3>2, Elemento
  <2>3. x \in ToSet(t)
    <3>1. Len(s) + 1 \in 1 .. Len(t) /\ t[Len(s) + 1] = x
      BY <1>1
    <3>2. QED BY <1>1, <3>1, Elemento
  <2>4. QED BY <2>1, <2>2, <2>3
<1>3. ASSUME IsInjective(s), x \notin ToSet(s) PROVE IsInjective(t)
  <2>1. \A i \in 1 .. Len(s) : s[i] # x
    BY <1>3, Elemento
  <2>2. \A i, j \in 1 .. Len(s) : s[i] = s[j] => i = j
    BY <1>3, SemRepetir
  <2>3. ASSUME NEW i \in 1 .. Len(t), NEW j \in 1 .. Len(t), t[i] = t[j] PROVE i = j
    <3>1. CASE i \in 1 .. Len(s) /\ j \in 1 .. Len(s)
      BY <1>1, <2>2, <2>3, <3>1
    <3>2. CASE i \notin 1 .. Len(s) \/ j \notin 1 .. Len(s)
      BY <1>1, <2>1, <2>3, <3>2
    <3>3. QED BY <3>1, <3>2
  <2>4. QED BY <1>1, <2>3, SemRepetir
<1>4. QED BY <1>1, <1>2, <1>3 DEF t

\* Two lists, one after the other.
LEMMA Juntas ==
    ASSUME NEW S, NEW s \in Seq(S), NEW t \in Seq(S)
    PROVE  /\ s \o t \in Seq(S)
           /\ ToSet(s \o t) = ToSet(s) \cup ToSet(t)
           /\ IsInjective(s) /\ IsInjective(t) /\ ToSet(s) \cap ToSet(t) = {}
                => IsInjective(s \o t)
<1> DEFINE u == s \o t
<1>1. /\ u \in Seq(S) /\ Len(u) = Len(s) + Len(t) /\ Len(s) \in Nat /\ Len(t) \in Nat
      /\ \A i \in 1 .. Len(s) + Len(t) : u[i] = IF i <= Len(s) THEN s[i] ELSE t[i - Len(s)]
  BY ConcatProperties
<1> HIDE DEF u
<1>2. ToSet(u) = ToSet(s) \cup ToSet(t)
  <2>1. ASSUME NEW y \in ToSet(u) PROVE y \in ToSet(s) \cup ToSet(t)
    <3>1. PICK i \in 1 .. Len(u) : u[i] = y
      BY <1>1, Elemento
    <3>2. CASE i <= Len(s)
      <4>1. i \in 1 .. Len(s) /\ s[i] = y
        BY <1>1, <3>1, <3>2
      <4>2. QED BY <4>1, Elemento
    <3>3. CASE ~(i <= Len(s))
      <4>1. i - Len(s) \in 1 .. Len(t) /\ t[i - Len(s)] = y
        BY <1>1, <3>1, <3>3
      <4>2. QED BY <4>1, Elemento
    <3>4. QED BY <3>2, <3>3
  <2>2. ASSUME NEW y \in ToSet(s) PROVE y \in ToSet(u)
    <3>1. PICK i \in 1 .. Len(s) : s[i] = y
      BY Elemento
    <3>2. i \in 1 .. Len(u) /\ u[i] = y
      BY <1>1, <3>1
    <3>3. QED BY <1>1, <3>2, Elemento
  <2>3. ASSUME NEW y \in ToSet(t) PROVE y \in ToSet(u)
    <3>1. PICK i \in 1 .. Len(t) : t[i] = y
      BY Elemento
    <3>2. Len(s) + i \in 1 .. Len(u) /\ u[Len(s) + i] = y
      BY <1>1, <3>1
    <3>3. QED BY <1>1, <3>2, Elemento
  <2>4. QED BY <2>1, <2>2, <2>3
<1>3. ASSUME IsInjective(s), IsInjective(t), ToSet(s) \cap ToSet(t) = {}
      PROVE  IsInjective(u)
  <2>1. /\ \A i, j \in 1 .. Len(s) : s[i] = s[j] => i = j
        /\ \A i, j \in 1 .. Len(t) : t[i] = t[j] => i = j
    BY <1>3, SemRepetir
  <2>2. \A i \in 1 .. Len(s), j \in 1 .. Len(t) : s[i] # t[j]
    BY <1>3 DEF ToSet
  <2>3. ASSUME NEW i \in 1 .. Len(u), NEW j \in 1 .. Len(u), u[i] = u[j] PROVE i = j
    <3>1. CASE i <= Len(s) /\ j <= Len(s)
      BY <1>1, <2>1, <2>3, <3>1
    <3>2. CASE ~(i <= Len(s)) /\ ~(j <= Len(s))
      <4>1. i - Len(s) \in 1 .. Len(t) /\ j - Len(s) \in 1 .. Len(t)
            /\ t[i - Len(s)] = t[j - Len(s)]
        BY <1>1, <2>3, <3>2
      <4>2. QED BY <1>1, <2>1, <4>1
    <3>3. CASE i <= Len(s) /\ ~(j <= Len(s))
      <4>1. i \in 1 .. Len(s) /\ j - Len(s) \in 1 .. Len(t) /\ s[i] = t[j - Len(s)]
        BY <1>1, <2>3, <3>3
      <4>2. QED BY <2>2, <4>1
    <3>4. CASE ~(i <= Len(s)) /\ j <= Len(s)
      <4>1. j \in 1 .. Len(s) /\ i - Len(s) \in 1 .. Len(t) /\ s[j] = t[i - Len(s)]
        BY <1>1, <2>3, <3>4
      <4>2. QED BY <2>2, <4>1
    <3>5. QED BY <3>1, <3>2, <3>3, <3>4
  <2>4. QED BY <1>1, <2>3, SemRepetir
<1>4. QED BY <1>1, <1>2, <1>3 DEF u

\* The first and the others.
LEMMA PrimeiroEResto ==
    ASSUME NEW S, NEW s \in Seq(S), s # <<>>
    PROVE  /\ Head(s) \in S /\ Tail(s) \in Seq(S)
           /\ ToSet(s) = {Head(s)} \cup ToSet(Tail(s))
           /\ IsInjective(s) => IsInjective(Tail(s)) /\ Head(s) \notin ToSet(Tail(s))
<1> DEFINE t == Tail(s)
<1>1. /\ Head(s) \in S /\ Head(s) = s[1] /\ t \in Seq(S) /\ Len(s) \in Nat /\ Len(s) > 0
      /\ Len(t) = Len(s) - 1
      /\ \A i \in 1 .. Len(t) : t[i] = s[i + 1]
  BY HeadTailProperties
<1> HIDE DEF t
<1>2. ToSet(s) = {Head(s)} \cup ToSet(t)
  <2>1. ASSUME NEW y \in ToSet(s) PROVE y \in {Head(s)} \cup ToSet(t)
    <3>1. PICK i \in 1 .. Len(s) : s[i] = y
      BY Elemento
    <3>2. CASE i = 1
      BY <1>1, <3>1, <3>2
    <3>3. CASE i # 1
      <4>1. i - 1 \in 1 .. Len(t) /\ t[i - 1] = y
        BY <1>1, <3>1, <3>3
      <4>2. QED BY <1>1, <4>1, Elemento
    <3>4. QED BY <3>2, <3>3
  <2>2. ASSUME NEW y \in ToSet(t) PROVE y \in ToSet(s)
    <3>1. PICK i \in 1 .. Len(t) : t[i] = y
      BY <1>1, Elemento
    <3>2. i + 1 \in 1 .. Len(s) /\ s[i + 1] = y
      BY <1>1, <3>1
    <3>3. QED BY <3>2, Elemento
  <2>3. Head(s) \in ToSet(s)
    <3>1. 1 \in 1 .. Len(s) /\ s[1] = Head(s)
      BY <1>1
    <3>2. QED BY <3>1, Elemento
  <2>4. QED BY <2>1, <2>2, <2>3
<1>3. ASSUME IsInjective(s) PROVE IsInjective(t) /\ Head(s) \notin ToSet(t)
  <2>1. \A i, j \in 1 .. Len(s) : s[i] = s[j] => i = j
    BY <1>3, SemRepetir
  <2>2. ASSUME NEW i \in 1 .. Len(t), NEW j \in 1 .. Len(t), t[i] = t[j] PROVE i = j
    <3>1. i + 1 \in 1 .. Len(s) /\ j + 1 \in 1 .. Len(s) /\ s[i + 1] = s[j + 1]
      BY <1>1, <2>2
    <3>2. i + 1 = j + 1
      BY <2>1, <3>1
    <3>3. QED BY <1>1, <3>2
  <2>3. ASSUME Head(s) \in ToSet(t) PROVE FALSE
    <3>1. PICK i \in 1 .. Len(t) : t[i] = Head(s)
      BY <1>1, <2>3, Elemento
    <3>2. i + 1 \in 1 .. Len(s) /\ 1 \in 1 .. Len(s) /\ s[i + 1] = s[1] /\ i + 1 # 1
      BY <1>1, <3>1
    <3>3. QED BY <2>1, <3>2
  <2>4. QED BY <1>1, <2>2, <2>3, SemRepetir
<1>4. QED BY <1>1, <1>2, <1>3 DEF t

-----------------------------------------------------------------------------
(* The elements that the filter keeps *)

\* The filter keeps the elements of s that are in A, each as often as s has it.
LEMMA FiltraElementos ==
    ASSUME NEW S, NEW s \in Seq(S), NEW A
    PROVE  /\ Filtra(s, A) \in Seq(S)
           /\ ToSet(Filtra(s, A)) = ToSet(s) \cap A
           /\ IsInjective(s) => IsInjective(Filtra(s, A))
<1> DEFINE F == Filtradas(s, A)
           Ate(i) == {s[j] : j \in 1 .. i}
           Certo(i) == /\ F[i] \in Seq(S)
                       /\ ToSet(F[i]) = Ate(i) \cap A
                       /\ IsInjective(s) => IsInjective(F[i])
           Errados == {i \in 0 .. Len(s) : ~ Certo(i)}
<1>1. F[0] = <<>> /\ \A i \in 1 .. Len(s) : F[i] = Mais(F[i - 1], s[i], A)
  BY FiltradasDefinidas
<1> HIDE DEF F
<1>2. Certo(0)
  BY <1>1, ListaVazia
<1>3. ASSUME NEW i \in 1 .. Len(s), Certo(i - 1) PROVE Certo(i)
  <2>1. F[i] = Mais(F[i - 1], s[i], A) /\ s[i] \in S
    BY <1>1
  <2>2. Ate(i) = Ate(i - 1) \cup {s[i]}
    OBVIOUS
  <2>3. IsInjective(s) => s[i] \notin Ate(i - 1)
    BY SemRepetir
  <2> HIDE DEF Ate
  <2>4. CASE s[i] \in A
    <3>1. F[i] = Append(F[i - 1], s[i])
      BY <2>1, <2>4 DEF Mais
    <3>2. /\ F[i] \in Seq(S) /\ ToSet(F[i]) = ToSet(F[i - 1]) \cup {s[i]}
          /\ IsInjective(F[i - 1]) /\ s[i] \notin ToSet(F[i - 1]) => IsInjective(F[i])
      BY <1>3, <2>1, <3>1, ComMais
    <3>3. QED BY <1>3, <2>2, <2>3, <2>4, <3>2
  <2>5. CASE s[i] \notin A
    <3>1. F[i] = F[i - 1]
      BY <2>1, <2>5 DEF Mais
    <3>2. QED BY <1>3, <2>2, <2>5, <3>1
  <2>6. QED BY <2>4, <2>5
<1>4. Errados = {}
  <2>1. SUFFICES ASSUME Errados # {} PROVE FALSE
    OBVIOUS
  <2> HIDE DEF Certo
  <2>2. PICK m \in Errados : \A k \in Errados : m <= k
    <3>1. Errados \subseteq Nat
      OBVIOUS
    <3> HIDE DEF Errados
    <3>2. QED BY <2>1, <3>1, MenorNumero
  <2>3. m # 0
    BY <1>2, <2>2
  <2>4. m - 1 \in 0 .. Len(s) /\ m \in 1 .. Len(s) /\ ~(m <= m - 1)
    BY <2>3
  <2>5. Certo(m - 1)
    BY <2>2, <2>4
  <2>6. QED BY <1>3, <2>2, <2>4, <2>5
<1>5. Certo(Len(s))
  <2>1. Len(s) \in 0 .. Len(s)
    OBVIOUS
  <2> HIDE DEF Certo
  <2>2. QED BY <1>4, <2>1
<1>6. Ate(Len(s)) = ToSet(s)
  BY DEF ToSet
<1>7. QED BY <1>5, <1>6 DEF Filtra, F

\* What the filter gives depends only on which elements of s are in A.
LEMMA FiltraIgual ==
    ASSUME NEW S, NEW s \in Seq(S), NEW A, NEW B, ToSet(s) \cap A = ToSet(s) \cap B
    PROVE  Filtra(s, A) = Filtra(s, B)
<1> DEFINE F == Filtradas(s, A)
           G == Filtradas(s, B)
           Errados == {i \in 0 .. Len(s) : F[i] # G[i]}
<1>1. /\ F[0] = <<>> /\ \A i \in 1 .. Len(s) : F[i] = Mais(F[i - 1], s[i], A)
      /\ G[0] = <<>> /\ \A i \in 1 .. Len(s) : G[i] = Mais(G[i - 1], s[i], B)
  BY FiltradasDefinidas
<1> HIDE DEF F, G
<1>2. \A i \in 1 .. Len(s) : s[i] \in A <=> s[i] \in B
  <2>1. \A i \in 1 .. Len(s) : s[i] \in ToSet(s)
    BY DEF ToSet
  <2>2. QED BY <2>1
<1>3. Errados = {}
  <2>1. SUFFICES ASSUME Errados # {} PROVE FALSE
    OBVIOUS
  <2>2. PICK m \in Errados : \A k \in Errados : m <= k
    <3>1. Errados \subseteq Nat
      OBVIOUS
    <3> HIDE DEF Errados
    <3>2. QED BY <2>1, <3>1, MenorNumero
  <2>3. m # 0
    BY <1>1, <2>2
  <2>4. m - 1 \in 0 .. Len(s) /\ m \in 1 .. Len(s) /\ ~(m <= m - 1)
    BY <2>3
  <2>5. F[m - 1] = G[m - 1]
    BY <2>2, <2>4
  <2>6. F[m] = G[m]
    BY <1>1, <1>2, <2>4, <2>5 DEF Mais
  <2>7. QED BY <2>2, <2>6
<1>4. F[Len(s)] = G[Len(s)]
  BY <1>3
<1>5. QED BY <1>4 DEF Filtra, F, G

\* A filter that keeps everything changes nothing.
LEMMA FiltraTudo ==
    ASSUME NEW S, NEW s \in Seq(S), NEW A, ToSet(s) \subseteq A
    PROVE  Filtra(s, A) = s
<1> DEFINE F == Filtradas(s, A)
           Certo(i) == /\ F[i] \in Seq(S) /\ Len(F[i]) = i
                       /\ \A j \in 1 .. i : F[i][j] = s[j]
           Errados == {i \in 0 .. Len(s) : ~ Certo(i)}
<1>1. F[0] = <<>> /\ \A i \in 1 .. Len(s) : F[i] = Mais(F[i - 1], s[i], A)
  BY FiltradasDefinidas
<1> HIDE DEF F
<1>2. Certo(0)
  BY <1>1
<1>3. ASSUME NEW i \in 1 .. Len(s), Certo(i - 1) PROVE Certo(i)
  <2>1. s[i] \in ToSet(s) /\ s[i] \in S
    BY DEF ToSet
  <2>2. F[i] = Append(F[i - 1], s[i])
    BY <1>1, <2>1 DEF Mais
  <2>3. /\ F[i] \in Seq(S) /\ Len(F[i]) = Len(F[i - 1]) + 1
        /\ \A j \in 1 .. Len(F[i - 1]) : F[i][j] = F[i - 1][j]
        /\ F[i][Len(F[i - 1]) + 1] = s[i]
    BY <1>3, <2>1, <2>2, AppendProperties
  <2>4. QED BY <1>3, <2>3
<1>4. Errados = {}
  <2>1. SUFFICES ASSUME Errados # {} PROVE FALSE
    OBVIOUS
  <2> HIDE DEF Certo
  <2>2. PICK m \in Errados : \A k \in Errados : m <= k
    <3>1. Errados \subseteq Nat
      OBVIOUS
    <3> HIDE DEF Errados
    <3>2. QED BY <2>1, <3>1, MenorNumero
  <2>3. m # 0
    BY <1>2, <2>2
  <2>4. m - 1 \in 0 .. Len(s) /\ m \in 1 .. Len(s) /\ ~(m <= m - 1)
    BY <2>3
  <2>5. Certo(m - 1)
    BY <2>2, <2>4
  <2>6. QED BY <1>3, <2>2, <2>4, <2>5
<1>5. Certo(Len(s))
  <2>1. Len(s) \in 0 .. Len(s)
    OBVIOUS
  <2> HIDE DEF Certo
  <2>2. QED BY <1>4, <2>1
<1>6. F[Len(s)] = s
  BY <1>5, SeqEqual
<1>7. QED BY <1>6 DEF Filtra, F

-----------------------------------------------------------------------------
(* The removal of the first that is p *)

\* Only p goes away, if it was there once; nothing does if it was not there.
LEMMA TiraPrimeiro ==
    ASSUME NEW S, NEW s \in Seq(S), NEW p
    PROVE  /\ RemoveFirst(s, p) \in Seq(S)
           /\ p \notin ToSet(s) => RemoveFirst(s, p) = s
           /\ IsInjective(s) => /\ ToSet(RemoveFirst(s, p)) = ToSet(s) \ {p}
                                /\ IsInjective(RemoveFirst(s, p))
<1>1. CASE p \notin ToSet(s)
  <2>1. RemoveFirst(s, p) = s
    <3>1. ~ \E i \in 1 .. Len(s) : s[i] = p
      BY <1>1, Elemento
    <3>2. QED BY <3>1 DEF RemoveFirst
  <2>2. QED BY <1>1, <2>1
<1>2. CASE p \in ToSet(s)
  <2> DEFINE k == SelectInSeq(s, LAMBDA v : v = p)
             t == RemoveFirst(s, p)
  <2>1. k \in 1 .. Len(s) /\ s[k] = p
    <3> DEFINE I == {i \in 1 .. Len(s) : s[i] = p}
    <3>1. I # {} /\ I \subseteq Nat
      BY <1>2, Elemento
    <3>2. k = Min(I)
      BY <3>1 DEF SelectInSeq
    <3> HIDE DEF I, k
    <3>3. \E m \in I : \A j \in I : m <= j
      BY <3>1, MenorNumero
    <3>4. Min(I) \in I
      BY <3>3 DEF Min
    <3>5. QED BY <3>2, <3>4 DEF I
  <2>2. t = SubSeq(s, 1, k - 1) \o SubSeq(s, k + 1, Len(s))
    BY <1>2, Elemento DEF RemoveFirst, RemoveAt
  <2> HIDE DEF k, t
  <2>3. /\ t \in Seq(S) /\ Len(t) = Len(s) - 1 /\ Len(s) \in Nat
        /\ \A i \in 1 .. Len(t) : t[i] = IF i < k THEN s[i] ELSE s[i + 1]
    <3> DEFINE a == SubSeq(s, 1, k - 1)
               b == SubSeq(s, k + 1, Len(s))
    <3>1. a \in Seq(S) /\ Len(a) = k - 1 /\ \A i \in 1 .. k - 1 : a[i] = s[i]
      BY <2>1
    <3>2. b \in Seq(S) /\ Len(b) = Len(s) - k /\ \A i \in 1 .. Len(s) - k : b[i] = s[i + k]
      BY <2>1
    <3> HIDE DEF a, b
    <3>3. t = a \o b
      BY <2>2 DEF a, b
    <3>4. /\ t \in Seq(S) /\ Len(t) = Len(a) + Len(b)
          /\ \A i \in 1 .. Len(a) + Len(b) : t[i] = IF i <= Len(a) THEN a[i] ELSE b[i - Len(a)]
      BY <3>1, <3>2, <3>3, ConcatProperties
    <3>5. Len(t) = Len(s) - 1 /\ Len(s) \in Nat
      BY <2>1, <3>1, <3>2, <3>4
    <3>6. ASSUME NEW i \in 1 .. Len(t) PROVE t[i] = IF i < k THEN s[i] ELSE s[i + 1]
      <4>1. CASE i < k
        BY <2>1, <3>1, <3>2, <3>4, <3>5, <4>1
      <4>2. CASE ~(i < k)
        <5>1. t[i] = b[i - (k - 1)] /\ i - (k - 1) \in 1 .. Len(s) - k
          BY <2>1, <3>1, <3>2, <3>4, <3>5, <4>2
        <5>2. b[i - (k - 1)] = s[i - (k - 1) + k]
          BY <3>2, <5>1
        <5>3. i - (k - 1) + k = i + 1
          BY <2>1
        <5>4. QED BY <4>2, <5>1, <5>2, <5>3
      <4>3. QED BY <4>1, <4>2
    <3>7. QED BY <3>4, <3>5, <3>6
  <2>4. ASSUME IsInjective(s)
        PROVE  ToSet(t) = ToSet(s) \ {p} /\ IsInjective(t)
    <3>1. \A i, j \in 1 .. Len(s) : s[i] = s[j] => i = j
      BY <2>4, SemRepetir
    <3>2. ASSUME NEW y \in ToSet(t) PROVE y \in ToSet(s) \ {p}
      <4>1. PICK i \in 1 .. Len(t) : t[i] = y
        BY <2>3, Elemento
      <4>2. PICK j \in 1 .. Len(s) : s[j] = y /\ j # k
        BY <2>1, <2>3, <4>1
      <4>3. y \in ToSet(s) /\ y # p
        BY <2>1, <3>1, <4>2, Elemento
      <4>4. QED BY <4>3
    <3>3. ASSUME NEW y \in ToSet(s) \ {p} PROVE y \in ToSet(t)
      <4>1. PICK j \in 1 .. Len(s) : s[j] = y
        BY Elemento
      <4>2. j # k
        BY <2>1, <4>1
      <4>3. \E i \in 1 .. Len(t) : t[i] = y
        <5>1. CASE j < k
          <6>1. j \in 1 .. Len(t) /\ t[j] = y
            BY <2>1, <2>3, <4>1, <5>1
          <6>2. QED BY <6>1
        <5>2. CASE j > k
          <6>1. j - 1 \in 1 .. Len(t) /\ t[j - 1] = y
            BY <2>1, <2>3, <4>1, <5>2
          <6>2. QED BY <6>1
        <5>3. QED BY <2>1, <4>2, <5>1, <5>2
      <4>4. QED BY <2>3, <4>3, Elemento
    <3>4. ASSUME NEW i \in 1 .. Len(t), NEW j \in 1 .. Len(t), t[i] = t[j] PROVE i = j
      BY <2>1, <2>3, <3>1, <3>4
    <3>5. QED BY <2>3, <3>2, <3>3, <3>4, SemRepetir
  <2>5. QED BY <1>2, <2>3, <2>4 DEF t
<1>3. QED BY <1>1, <1>2

-----------------------------------------------------------------------------
(* What comes first *)

\* What is put at the end changes neither the first nor the order of the others.
LEMMA NoFim ==
    ASSUME NEW S, NEW s \in Seq(S), NEW t \in Seq(S)
    PROVE  /\ IsPrefix(s, s \o t)
           /\ s # <<>> => /\ s \o t # <<>>
                          /\ Head(s \o t) = Head(s)
                          /\ Tail(s \o t) = Tail(s) \o t
<1> DEFINE u == s \o t
<1>1. /\ u \in Seq(S) /\ Len(u) = Len(s) + Len(t) /\ Len(s) \in Nat /\ Len(t) \in Nat
      /\ \A i \in 1 .. Len(s) + Len(t) : u[i] = IF i <= Len(s) THEN s[i] ELSE t[i - Len(s)]
  BY ConcatProperties
<1> HIDE DEF u
<1>2. IsPrefix(s, u)
  <2>1. /\ SubSeq(u, 1, Len(s)) \in Seq(S) /\ Len(SubSeq(u, 1, Len(s))) = Len(s)
        /\ \A i \in 1 .. Len(s) : SubSeq(u, 1, Len(s))[i] = s[i]
    BY <1>1
  <2>2. SubSeq(u, 1, Len(s)) = s
    BY <2>1, SeqEqual
  <2>3. SubSeq(s, 1, Len(s)) = s
    BY SubSeqFull
  <2>4. QED BY <1>1, <2>2, <2>3 DEF IsPrefix
<1>3. ASSUME s # <<>>
      PROVE  u # <<>> /\ Head(u) = Head(s) /\ Tail(u) = Tail(s) \o t
  <2>1. Len(s) > 0 /\ u # <<>> /\ u[1] = s[1]
    BY <1>1, <1>3
  <2>2. Head(u) = Head(s)
    BY <1>1, <1>3, <2>1
  <2> DEFINE r == Tail(s)
  <2>3. /\ r \in Seq(S) /\ Len(r) = Len(s) - 1
        /\ \A i \in 1 .. Len(r) : r[i] = s[i + 1]
    BY <1>3, HeadTailProperties
  <2>4. /\ Tail(u) \in Seq(S) /\ Len(Tail(u)) = Len(u) - 1
        /\ \A i \in 1 .. Len(Tail(u)) : Tail(u)[i] = u[i + 1]
    BY <1>1, <2>1, HeadTailProperties
  <2> HIDE DEF r
  <2>5. /\ r \o t \in Seq(S) /\ Len(r \o t) = Len(r) + Len(t)
        /\ \A i \in 1 .. Len(r) + Len(t) :
              (r \o t)[i] = IF i <= Len(r) THEN r[i] ELSE t[i - Len(r)]
    BY <2>3, ConcatProperties
  <2>6. Len(Tail(u)) = Len(r \o t)
    BY <1>1, <2>3, <2>4, <2>5
  <2>7. ASSUME NEW i \in 1 .. Len(Tail(u)) PROVE Tail(u)[i] = (r \o t)[i]
    <3>1. Tail(u)[i] = u[i + 1] /\ i + 1 \in 1 .. Len(s) + Len(t)
      BY <1>1, <2>4
    <3>2. CASE i <= Len(r)
      <4>1. u[i + 1] = s[i + 1] /\ r[i] = s[i + 1] /\ (r \o t)[i] = r[i]
        BY <1>1, <2>1, <2>3, <2>4, <2>5, <3>1, <3>2
      <4>2. QED BY <3>1, <4>1
    <3>3. CASE ~(i <= Len(r))
      <4>1. /\ u[i + 1] = t[i + 1 - Len(s)] /\ (r \o t)[i] = t[i - Len(r)]
            /\ i + 1 - Len(s) = i - Len(r)
        BY <1>1, <2>1, <2>3, <2>4, <2>5, <3>1, <3>3
      <4>2. QED BY <3>1, <4>1
    <3>4. QED BY <3>2, <3>3
  <2>8. Tail(u) = r \o t
    BY <2>4, <2>5, <2>6, <2>7, SeqEqual
  <2>9. QED BY <2>1, <2>2, <2>8 DEF r
<1>4. QED BY <1>2, <1>3 DEF u
=============================================================================
