----------------------------- MODULE VideoProofs -----------------------------
(***************************************************************************)
(* What is proved of a window of any size, for a text of any length.  The    *)
(* induction over the text is the least number principle: of the characters  *)
(* that break something, if any, there is a first.                          *)
(***************************************************************************)
EXTENDS VideoOutput, ListasProofs

-----------------------------------------------------------------------------
(* A window in order: what is drawn, the cursor in it, and nothing after it. *)

Buffers(S) == [Linhas -> [Colunas -> S]]
Desenho(S) == [buffer : Buffers(S), x : 0 .. ncols, y : Linhas]

EmOrdem(S, t) == t \in Desenho(S) /\ LimpaDepois(t)

\* In order, said of a window by its parts.
LEMMA Partes ==
    ASSUME NEW S, NEW b \in Buffers(S), NEW x \in 0 .. ncols, NEW y \in Linhas,
           \A lin \in Linhas, col \in Colunas :
              lin > y \/ (lin = y /\ col >= x) => b[lin][col] = BRANCO
    PROVE  EmOrdem(S, Tela(b, x, y))
BY DEF EmOrdem, Desenho, LimpaDepois, Tela

\* A new window is in order.
LEMMA NovaEmOrdem ==
    ASSUME NEW S, BRANCO \in S
    PROVE  EmOrdem(S, TelaNova)
<1> DEFINE b == [lin \in Linhas |-> LinhaVazia]
<1>1. b \in Buffers(S) /\ 0 \in Linhas /\ 0 \in 0 .. ncols
  BY VideoAssumption DEF Buffers, LinhaVazia, Linhas
<1>2. \A lin \in Linhas, col \in Colunas : b[lin][col] = BRANCO
  BY DEF LinhaVazia
<1>3. QED BY <1>1, <1>2, Partes DEF TelaNova

\* The next row, with the roll if there is none, when nothing is below row y.
LEMMA ProximaEmOrdem ==
    ASSUME NEW S, BRANCO \in S, NEW b \in Buffers(S), NEW y \in Linhas,
           \A lin \in Linhas, col \in Colunas : lin > y => b[lin][col] = BRANCO
    PROVE  EmOrdem(S, ProximaLinha(b, y)) /\ ProximaLinha(b, y).x = 0
<1>1. CASE y + 1 < nrows
  <2>1. y + 1 \in Linhas /\ 0 \in 0 .. ncols
    BY <1>1, VideoAssumption DEF Linhas
  <2>2. \A lin \in Linhas, col \in Colunas :
           lin > y + 1 \/ (lin = y + 1 /\ col >= 0) => b[lin][col] = BRANCO
    BY DEF Linhas
  <2>3. EmOrdem(S, Tela(b, 0, y + 1))
    BY <2>1, <2>2, Partes
  <2>4. QED BY <1>1, <2>3 DEF ProximaLinha, Tela
<1>2. CASE ~(y + 1 < nrows)
  <2>1. y = nrows - 1 /\ 0 \in 0 .. ncols
    BY <1>2, VideoAssumption DEF Linhas
  <2>2. LinhaVazia \in [Colunas -> S]
    BY DEF LinhaVazia
  <2>3. roll(b) \in Buffers(S)
    <3>1. \A lin \in Linhas : lin # nrows - 1 => b[lin + 1] \in [Colunas -> S]
      BY VideoAssumption DEF Buffers, Linhas
    <3>2. QED BY <2>2, <3>1 DEF Buffers, roll
  <2>4. \A lin \in Linhas, col \in Colunas :
           lin > y \/ (lin = y /\ col >= 0) => roll(b)[lin][col] = BRANCO
    BY <2>1, VideoAssumption DEF roll, LinhaVazia, Linhas
  <2>5. EmOrdem(S, Tela(roll(b), 0, y))
    BY <2>1, <2>3, <2>4, Partes
  <2>6. QED BY <1>2, <2>5 DEF ProximaLinha, Tela
<1>3. QED BY <1>1, <1>2

\* A row made blank from the cursor, or from before it.
LEMMA LimpaEmOrdem ==
    ASSUME NEW S, BRANCO \in S, NEW b \in Buffers(S), NEW y \in Linhas, NEW x \in 0 .. ncols,
           \A lin \in Linhas, col \in Colunas : lin > y => b[lin][col] = BRANCO
    PROVE  /\ LimpaLinha(b, x, y) \in Buffers(S)
           /\ \A lin \in Linhas, col \in Colunas :
                 lin > y \/ (lin = y /\ col >= x) => LimpaLinha(b, x, y)[lin][col] = BRANCO
<1> DEFINE r == [col \in Colunas |-> IF col < x THEN b[y][col] ELSE BRANCO]
<1>1. r \in [Colunas -> S]
  BY DEF Buffers
<1>2. LimpaLinha(b, x, y) \in Buffers(S)
  BY <1>1 DEF LimpaLinha, Buffers
<1>3. ASSUME NEW lin \in Linhas, NEW col \in Colunas, lin > y \/ (lin = y /\ col >= x)
      PROVE  LimpaLinha(b, x, y)[lin][col] = BRANCO
  <2>1. CASE lin = y
    <3>1. LimpaLinha(b, x, y)[lin] = r /\ ~(col < x)
      BY <1>3, <2>1 DEF LimpaLinha, Buffers, Linhas, Colunas
    <3>2. QED BY <3>1
  <2>2. CASE lin # y
    <3>1. LimpaLinha(b, x, y)[lin] = b[lin]
      BY <2>2 DEF LimpaLinha, Buffers
    <3>2. QED BY <1>3, <2>2, <3>1
  <2>3. QED BY <2>1, <2>2
<1>4. QED BY <1>2, <1>3

\* A full row is left, so the cursor is at a place of its row.
LEMMA ComLugarEmOrdem ==
    ASSUME NEW S, BRANCO \in S, NEW tela, EmOrdem(S, tela)
    PROVE  EmOrdem(S, ComLugar(tela)) /\ ComLugar(tela).x < ncols
<1>1. CASE tela.x >= ncols
  <2>1. EmOrdem(S, ProximaLinha(tela.buffer, tela.y)) /\ ProximaLinha(tela.buffer, tela.y).x = 0
    BY ProximaEmOrdem DEF EmOrdem, Desenho, LimpaDepois
  <2>2. QED BY <1>1, <2>1, VideoAssumption DEF ComLugar
<1>2. CASE ~(tela.x >= ncols)
  BY <1>2, VideoAssumption DEF ComLugar, EmOrdem, Desenho
<1>3. QED BY <1>1, <1>2

\* Whatever the character, the window is in order after it: print never writes outside
\* the buffer, and leaves nothing after the cursor.
LEMMA CaractereEmOrdem ==
    ASSUME NEW S, BRANCO \in S, NEW tela, EmOrdem(S, tela), NEW c \in S \cup {LF, CR}
    PROVE  EmOrdem(S, Caractere(tela, c))
<1> DEFINE t == ComLugar(tela)
<1>1. EmOrdem(S, t) /\ t.x < ncols
  BY ComLugarEmOrdem
<1> HIDE DEF t
<1>2. /\ t.buffer \in Buffers(S) /\ t.y \in Linhas /\ t.x \in 0 .. ncols
      /\ \A lin \in Linhas, col \in Colunas :
            lin > t.y \/ (lin = t.y /\ col >= t.x) => t.buffer[lin][col] = BRANCO
  BY <1>1 DEF EmOrdem, Desenho, LimpaDepois
<1>3. LF # CR
  BY DEF LF, CR
<1>4. CASE c = LF
  <2> DEFINE b == LimpaLinha(t.buffer, t.x, t.y)
  <2>1. b \in Buffers(S) /\ \A lin \in Linhas, col \in Colunas : lin > t.y => b[lin][col] = BRANCO
    BY <1>2, LimpaEmOrdem
  <2> HIDE DEF b
  <2>2. EmOrdem(S, ProximaLinha(b, t.y))
    BY <1>2, <2>1, ProximaEmOrdem
  <2>3. QED BY <1>3, <1>4, <2>2 DEF Caractere, t, b
<1>5. CASE c = CR
  <2> DEFINE b == LimpaLinha(t.buffer, 0, t.y)
  <2>1. /\ b \in Buffers(S) /\ 0 \in 0 .. ncols
        /\ \A lin \in Linhas, col \in Colunas :
              lin > t.y \/ (lin = t.y /\ col >= 0) => b[lin][col] = BRANCO
    <3>1. 0 \in 0 .. ncols
      BY VideoAssumption
    <3>2. QED BY <1>2, <3>1, LimpaEmOrdem
  <2> HIDE DEF b
  <2>2. EmOrdem(S, Tela(b, 0, t.y))
    BY <1>2, <2>1, Partes
  <2>3. QED BY <1>3, <1>5, <2>2 DEF Caractere, t, b
<1>6. CASE c \notin {LF, CR}
  <2> DEFINE b == [t.buffer EXCEPT ![t.y][t.x] = c]
  <2>1. t.x \in Colunas /\ t.x + 1 \in 0 .. ncols /\ c \in S
    BY <1>1, <1>2, <1>6, VideoAssumption DEF Colunas
  <2>2. [t.buffer[t.y] EXCEPT ![t.x] = c] \in [Colunas -> S]
    BY <1>2, <2>1 DEF Buffers
  <2>3. b \in Buffers(S)
    BY <1>2, <2>2 DEF Buffers
  <2>4. ASSUME NEW lin \in Linhas, NEW col \in Colunas,
               lin > t.y \/ (lin = t.y /\ col >= t.x + 1)
        PROVE  b[lin][col] = BRANCO
    <3>1. b[lin][col] = t.buffer[lin][col]
      BY <1>2, <2>1, <2>4 DEF Buffers, Linhas, Colunas
    <3>2. lin > t.y \/ (lin = t.y /\ col >= t.x)
      BY <1>2, <2>4 DEF Colunas
    <3>3. QED BY <1>2, <3>1, <3>2
  <2> HIDE DEF b
  <2>5. EmOrdem(S, Tela(b, t.x + 1, t.y))
    BY <1>2, <2>1, <2>3, <2>4, Partes
  <2>6. QED BY <1>6, <2>5 DEF Caractere, t, b
<1>7. QED BY <1>4, <1>5, <1>6

-----------------------------------------------------------------------------
(* Of a character to a text of any length. *)

\* The recursive definition of Telas has a solution, whatever the text.
LEMMA TelasDefinidas ==
    ASSUME NEW tela, NEW texto, Len(texto) \in Nat
    PROVE  /\ Telas(tela, texto)[0] = tela
           /\ \A i \in 1 .. Len(texto) :
                 Telas(tela, texto)[i] = Caractere(Telas(tela, texto)[i - 1], texto[i])
<1> DEFINE L == Len(texto)
           Passo(g, n) ==
               [i \in 0 .. n |-> IF i = 0 THEN tela ELSE Caractere(g[i - 1], texto[i])]
           Faltam == {n \in 0 .. L : ~ \E g : g = Passo(g, n)}
<1>1. Faltam = {}
  <2>1. SUFFICES ASSUME Faltam # {} PROVE FALSE
    OBVIOUS
  <2>2. PICK m \in Faltam : \A k \in Faltam : m <= k
    <3>1. Faltam \subseteq Nat
      OBVIOUS
    <3> HIDE DEF Faltam
    <3>2. QED BY <2>1, <3>1, MenorNumero
  <2>3. CASE m = 0
    <3> DEFINE h == [i \in 0 .. 0 |-> tela]
    <3>1. h = Passo(h, 0)
      OBVIOUS
    <3>2. QED BY <2>2, <2>3, <3>1
  <2>4. CASE m # 0
    <3>1. m - 1 \in 0 .. L /\ m \in Nat /\ ~(m <= m - 1)
      BY <2>4
    <3>2. PICK g : g = Passo(g, m - 1)
      BY <2>2, <3>1
    <3> DEFINE h == [i \in 0 .. m |-> IF i < m THEN g[i] ELSE Caractere(g[m - 1], texto[m])]
    <3>3. ASSUME NEW i \in 0 .. m
          PROVE  h[i] = IF i = 0 THEN tela ELSE Caractere(h[i - 1], texto[i])
      <4>1. CASE i = 0
        <5>1. h[i] = g[0] /\ 0 \in 0 .. m - 1
          BY <2>4, <3>1, <4>1
        <5>2. g[0] = tela
          BY <3>2, <5>1
        <5>3. QED BY <4>1, <5>1, <5>2
      <4>2. CASE i # 0 /\ i < m
        <5>1. h[i] = g[i] /\ h[i - 1] = g[i - 1] /\ i \in 0 .. m - 1
          BY <3>1, <4>2
        <5>2. g[i] = Caractere(g[i - 1], texto[i])
          BY <3>2, <4>2, <5>1
        <5>3. QED BY <4>2, <5>1, <5>2
      <4>3. CASE i # 0 /\ ~(i < m)
        <5>1. i = m /\ h[i - 1] = g[m - 1]
          BY <3>1, <4>3
        <5>2. QED BY <4>3, <5>1
      <4>4. QED BY <4>1, <4>2, <4>3
    <3>4. h = Passo(h, m)
      BY <3>3
    <3>5. QED BY <2>2, <3>4
  <2>5. QED BY <2>3, <2>4
<1>2. \E g : g = Passo(g, L)
  <2>1. L \in 0 .. L
    OBVIOUS
  <2>2. QED BY <1>1, <2>1
<1>3. Telas(tela, texto) = Passo(Telas(tela, texto), L)
  BY <1>2 DEF Telas
<1>4. \A i \in 0 .. L : Telas(tela, texto)[i] =
          IF i = 0 THEN tela ELSE Caractere(Telas(tela, texto)[i - 1], texto[i])
  BY <1>3
<1> HIDE DEF Passo
<1>5. QED BY <1>4

\* The window is in order after each character of a text.
LEMMA TelasEmOrdem ==
    ASSUME NEW S, BRANCO \in S, NEW tela, EmOrdem(S, tela), NEW texto \in Seq(S \cup {LF, CR})
    PROVE  \A n \in 0 .. Len(texto) : EmOrdem(S, Telas(tela, texto)[n])
<1> DEFINE T == Telas(tela, texto)
           Fora == {n \in 0 .. Len(texto) : ~ EmOrdem(S, T[n])}
<1>1. /\ T[0] = tela
      /\ \A i \in 1 .. Len(texto) : T[i] = Caractere(T[i - 1], texto[i])
  BY TelasDefinidas
<1> HIDE DEF T
<1>2. Fora = {}
  <2>1. SUFFICES ASSUME Fora # {} PROVE FALSE
    OBVIOUS
  <2>2. PICK m \in Fora : \A k \in Fora : m <= k
    <3>1. Fora \subseteq Nat
      OBVIOUS
    <3> HIDE DEF Fora
    <3>2. QED BY <2>1, <3>1, MenorNumero
  <2>3. m # 0
    BY <1>1, <2>2
  <2>4. m - 1 \in 0 .. Len(texto) /\ m \in 1 .. Len(texto) /\ ~(m <= m - 1)
    BY <2>3
  <2>5. EmOrdem(S, T[m - 1])
    BY <2>2, <2>4
  <2>6. texto[m] \in S \cup {LF, CR}
    BY <2>4
  <2>7. EmOrdem(S, T[m])
    BY <1>1, <2>4, <2>5, <2>6, CaractereEmOrdem
  <2>8. QED BY <2>2, <2>7
<1>3. QED BY <1>2 DEF T

\* Whatever is printed, the cursor stays in the window and nothing is left after it.
THEOREM PrintEmOrdem ==
    ASSUME NEW S, BRANCO \in S, NEW tela, EmOrdem(S, tela), NEW texto \in Seq(S \cup {LF, CR})
    PROVE  EmOrdem(S, print(tela, texto))
<1>1. Len(texto) \in 0 .. Len(texto)
  OBVIOUS
<1>2. QED BY <1>1, TelasEmOrdem DEF print

-----------------------------------------------------------------------------
(* What a text leaves before the cursor *)

\* Division by the length of a row.
LEMMA Divisao ==
    ASSUME NEW a \in Nat, NEW d \in Nat \ {0}
    PROVE  a \div d \in Nat /\ a % d \in 0 .. d - 1 /\ a = d * (a \div d) + (a % d)
OBVIOUS

LEMMA Crescente ==
    ASSUME NEW d \in Nat \ {0}
    PROVE  \A x, y \in Nat : x < y => d * y >= d * x + d
<1> SUFFICES ASSUME NEW x \in Nat, NEW y \in Nat, x < y PROVE d * y >= d * x + d
  OBVIOUS
<1>1. PICK k \in Nat : y = x + 1 + k
  <2>1. y - x - 1 \in Nat /\ y = x + 1 + (y - x - 1)
    OBVIOUS
  <2>2. QED BY <2>1
<1>2. d * y = d * x + d + d * k
  BY <1>1
<1>3. d * k \in Nat /\ d * x \in Nat
  OBVIOUS
<1>4. QED BY <1>2, <1>3

\* A place before the first of row n is in a row before n.
LEMMA LinhaAntes ==
    ASSUME NEW d \in Nat \ {0}, NEW q \in Nat, NEW r \in Nat, NEW n \in Nat, d * q + r < d * n
    PROVE  q < n
<1>1. d * q \in Nat /\ d * n \in Nat
  OBVIOUS
<1>2. ~(n < q)
  BY <1>1, Crescente
<1>3. q # n
  BY <1>1
<1>4. QED BY <1>2, <1>3

\* A place before one of row n is in no row after n.
LEMMA NaoDepois ==
    ASSUME NEW d \in Nat \ {0}, NEW q \in Nat, NEW r \in Nat, NEW n \in Nat, NEW m \in 0 .. d - 1,
           d * q + r < d * n + m
    PROVE  q <= n
<1>1. d * q \in Nat /\ d * n \in Nat
  OBVIOUS
<1>2. ~(n < q)
  BY <1>1, Crescente
<1>3. QED BY <1>2

LEMMA DivisaoUnica ==
    ASSUME NEW d \in Nat \ {0}, NEW q \in Nat, NEW r \in 0 .. d - 1,
           NEW n \in Nat, NEW m \in 0 .. d - 1, d * q + r = d * n + m
    PROVE  q = n /\ r = m
<1>1. \A x, y \in Nat : x < y => d * y >= d * x + d
  BY Crescente
<1>2. d * q \in Nat /\ d * n \in Nat
  OBVIOUS
<1>3. ~(q < n) /\ ~(n < q)
  BY <1>1, <1>2
<1>4. q = n
  BY <1>3
<1>5. QED BY <1>2, <1>4

\* The place at row q and column r.
LEMMA LugarDe ==
    ASSUME NEW q \in Nat, NEW r \in Colunas
    PROVE  /\ q * ncols + r \in Nat
           /\ (q * ncols + r) \div ncols = q /\ (q * ncols + r) % ncols = r
<1> DEFINE a == q * ncols + r
<1>1. ncols \in Nat \ {0} /\ r \in 0 .. ncols - 1
  BY VideoAssumption DEF Colunas
<1>2. q * ncols \in Nat /\ q * ncols = ncols * q
  BY <1>1
<1>3. a \in Nat
  BY <1>1, <1>2
<1>4. a = ncols * q + r
  BY <1>2
<1> HIDE DEF a
<1>5. a \div ncols \in Nat /\ a % ncols \in 0 .. ncols - 1
      /\ a = ncols * (a \div ncols) + (a % ncols)
  BY <1>1, <1>3, Divisao
<1>6. ncols * q + r = ncols * (a \div ncols) + (a % ncols)
  BY <1>4, <1>5
<1>7. q = a \div ncols /\ r = a % ncols
  BY <1>1, <1>5, <1>6, DivisaoUnica
<1>8. QED BY <1>3, <1>7 DEF a

\* The place of the cursor, counted row after row, and what is drawn at a place.
Lugares(tela)      == tela.y * ncols + tela.x
Desenhado(tela, i) == tela.buffer[i \div ncols][i % ncols]

\* linha is what is drawn before the cursor, from its last character backwards, to its
\* first or to the top of the window, which then has rolled.
Mostra(tela, linha) ==
    /\ \A k \in Nat : k < Lugares(tela) /\ k < Len(linha) =>
          Desenhado(tela, Lugares(tela) - 1 - k) = linha[Len(linha) - k]
    /\ Len(linha) <= Lugares(tela) \/ tela.y = nrows - 1

\* Places of a window in order.
LEMMA LugaresTipo ==
    ASSUME NEW S, NEW tela, EmOrdem(S, tela)
    PROVE  /\ Lugares(tela) \in Nat /\ tela.y \in Linhas /\ tela.x \in 0 .. ncols
           /\ tela.y * ncols \in Nat /\ tela.buffer \in Buffers(S)
<1>1. tela.y \in Linhas /\ tela.x \in 0 .. ncols /\ tela.buffer \in Buffers(S)
  BY DEF EmOrdem, Desenho
<1>2. tela.y \in Nat /\ ncols \in Nat
  BY <1>1, VideoAssumption DEF Linhas
<1>3. tela.y * ncols \in Nat
  BY <1>2
<1>4. QED BY <1>1, <1>2, <1>3 DEF Lugares

\* The cursor goes to the next row when its own is full: nothing drawn moves but for the
\* roll, which takes the first row away.
LEMMA ComLugarMostra ==
    ASSUME NEW S, BRANCO \in S, NEW tela, EmOrdem(S, tela), NEW linha, Len(linha) \in Nat,
           Mostra(tela, linha)
    PROVE  Mostra(ComLugar(tela), linha)
<1> DEFINE t == ComLugar(tela)
           n == Lugares(tela)
<1>1. CASE ~(tela.x >= ncols)
  BY <1>1 DEF ComLugar
<1>2. CASE tela.x >= ncols
  <2>1. /\ n \in Nat /\ tela.y \in Nat /\ tela.y < nrows /\ nrows \in Nat /\ ncols \in Nat \ {0}
        /\ tela.x = ncols /\ n = tela.y * ncols + ncols /\ tela.y * ncols \in Nat
    BY <1>2, LugaresTipo, VideoAssumption DEF Lugares, Linhas
  <2>2. t = ProximaLinha(tela.buffer, tela.y)
    BY <1>2 DEF ComLugar
  <2>3. CASE tela.y + 1 < nrows
    <3>1. t.buffer = tela.buffer /\ t.x = 0 /\ t.y = tela.y + 1
      BY <2>2, <2>3 DEF ProximaLinha, Tela
    <3>2. Lugares(t) = n
      <4>1. (tela.y + 1) * ncols + 0 = tela.y * ncols + ncols
        BY <2>1
      <4>2. QED BY <2>1, <3>1, <4>1 DEF Lugares
    <3>3. \A i : Desenhado(t, i) = Desenhado(tela, i)
      BY <3>1 DEF Desenhado
    <3>4. Len(linha) <= n
      BY <2>1, <2>3 DEF Mostra
    <3> HIDE DEF t, n
    <3>5. QED BY <3>2, <3>3, <3>4 DEF Mostra, n, t
  <2>4. CASE ~(tela.y + 1 < nrows)
    <3>1. t.buffer = roll(tela.buffer) /\ t.x = 0 /\ t.y = tela.y /\ tela.y = nrows - 1
      BY <2>1, <2>2, <2>4 DEF ProximaLinha, Tela
    <3>2. Lugares(t) \in Nat /\ n = Lugares(t) + ncols
      BY <2>1, <3>1 DEF Lugares
    <3>6. Lugares(t) = ncols * (nrows - 1)
      <4>1. tela.y * ncols + 0 = ncols * (nrows - 1)
        BY <2>1, <3>1
      <4>2. QED BY <3>1, <4>1 DEF Lugares
    <3>7. n \in Nat /\ nrows - 1 \in Nat /\ ncols \in Nat \ {0}
      BY <2>1, <3>1
    <3> HIDE DEF t, n
    <3>3. ASSUME NEW i \in Nat, i < Lugares(t)
          PROVE  Desenhado(t, i) = Desenhado(tela, i + ncols)
      <4> DEFINE q == i \div ncols
                 r == i % ncols
      <4>1. q \in Nat /\ r \in 0 .. ncols - 1 /\ i = ncols * q + r
        BY <2>1, Divisao
      <4> HIDE DEF q, r
      <4>2. q < nrows - 1
        <5>1. ncols * q + r < ncols * (nrows - 1) /\ r \in Nat
          BY <3>3, <3>6, <4>1
        <5>2. QED BY <3>7, <4>1, <5>1, LinhaAntes
      <4>3. i + ncols = (q + 1) * ncols + r
        BY <2>1, <4>1
      <4>4. (i + ncols) \div ncols = q + 1 /\ (i + ncols) % ncols = r
        <5>1. q + 1 \in Nat /\ r \in Colunas
          BY <4>1 DEF Colunas
        <5>2. QED BY <4>3, <5>1, LugarDe
      <4>5. roll(tela.buffer)[q] = tela.buffer[q + 1]
        BY <2>1, <4>1, <4>2 DEF roll, Linhas
      <4>6. Desenhado(t, i) = t.buffer[q][r]
        BY DEF Desenhado, q, r
      <4>7. QED BY <3>1, <4>4, <4>5, <4>6 DEF Desenhado
    <3>4. ASSUME NEW k \in Nat, k < Lugares(t), k < Len(linha)
          PROVE  Desenhado(t, Lugares(t) - 1 - k) = linha[Len(linha) - k]
      <4> DEFINE i == Lugares(t) - 1 - k
      <4>1. i \in Nat /\ i < Lugares(t) /\ i + ncols = n - 1 - k /\ k < n
        BY <3>2, <3>4, <3>7
      <4> HIDE DEF i
      <4>2. Desenhado(t, i) = Desenhado(tela, n - 1 - k)
        BY <3>3, <4>1
      <4>3. Desenhado(tela, n - 1 - k) = linha[Len(linha) - k]
        BY <3>4, <4>1 DEF Mostra, n
      <4>4. QED BY <4>2, <4>3 DEF i
    <3>5. QED BY <3>1, <3>4 DEF Mostra, t
  <2>5. QED BY <2>3, <2>4
<1>3. QED BY <1>1, <1>2

\* One character more drawn is one more of the line.
LEMMA CaractereMostra ==
    ASSUME NEW S, BRANCO \in S, NEW tela, EmOrdem(S, tela), NEW c, c \notin {LF, CR},
           NEW linha, NEW R, linha \in Seq(R), c \in R, Mostra(tela, linha)
    PROVE  Mostra(Caractere(tela, c), Append(linha, c))
<1> DEFINE t == ComLugar(tela)
           n == Lugares(t)
           u == Caractere(tela, c)
           mais == Append(linha, c)
<1>1. EmOrdem(S, t) /\ t.x < ncols
  BY ComLugarEmOrdem
<1>2. Len(linha) \in Nat
  OBVIOUS
<1>3. Mostra(t, linha)
  BY <1>2, ComLugarMostra
<1>4. Len(mais) = Len(linha) + 1 /\ mais[Len(linha) + 1] = c
      /\ \A i \in 1 .. Len(linha) : mais[i] = linha[i]
  OBVIOUS
<1>5. u = Tela([t.buffer EXCEPT ![t.y][t.x] = c], t.x + 1, t.y)
  BY DEF Caractere
<1> HIDE DEF t, n, u, mais
<1>6. /\ n \in Nat /\ t.y \in Linhas /\ t.x \in Colunas /\ t.y * ncols \in Nat
      /\ t.buffer \in Buffers(S) /\ n = t.y * ncols + t.x /\ t.y \in Nat
  <2>1. t.x \in 0 .. ncols /\ t.y \in Nat
    BY <1>1, LugaresTipo, VideoAssumption DEF Linhas
  <2>2. t.x \in Colunas
    BY <1>1, <2>1, VideoAssumption DEF Colunas
  <2>3. QED BY <1>1, <2>1, <2>2, LugaresTipo DEF n, Lugares
<1>7. u.buffer = [t.buffer EXCEPT ![t.y][t.x] = c] /\ u.x = t.x + 1 /\ u.y = t.y
  BY <1>5 DEF Tela
<1>8. Lugares(u) = n + 1
  BY <1>6, <1>7 DEF Lugares, Colunas
<1>9. Desenhado(u, n) = c
  <2>1. n \div ncols = t.y /\ n % ncols = t.x
    BY <1>6, LugarDe
  <2>2. u.buffer[t.y][t.x] = c
    BY <1>6, <1>7 DEF Buffers
  <2>3. QED BY <2>1, <2>2 DEF Desenhado
<1>10. ASSUME NEW i \in Nat, i < n
       PROVE  Desenhado(u, i) = Desenhado(t, i)
  <2> DEFINE q == i \div ncols
             r == i % ncols
  <2>1. q \in Nat /\ r \in 0 .. ncols - 1 /\ i = ncols * q + r
    BY VideoAssumption, Divisao
  <2> HIDE DEF q, r
  <2>2. ncols * t.y = t.y * ncols /\ n = ncols * t.y + t.x
    BY <1>6, VideoAssumption
  <2>3. ~(q = t.y /\ r = t.x)
    BY <1>6, <1>10, <2>1, <2>2
  <2>4. u.buffer[q][r] = t.buffer[q][r]
    <3>1. q \in Linhas
      <4>1. t.y \in Nat /\ ncols \in Nat \ {0} /\ t.x \in 0 .. ncols - 1 /\ r \in Nat
        BY <1>6, <2>1, VideoAssumption DEF Colunas
      <4>2. ncols * q + r < ncols * t.y + t.x
        BY <1>10, <2>1, <2>2
      <4>3. q <= t.y
        BY <2>1, <4>1, <4>2, NaoDepois
      <4>4. t.y \in Linhas
        BY <1>6
      <4>5. QED BY <2>1, <4>3, <4>4, VideoAssumption DEF Linhas
    <3>2. r \in Colunas
      BY <2>1 DEF Colunas
    <3>3. QED BY <1>6, <1>7, <2>3, <3>1, <3>2 DEF Buffers
  <2>5. QED BY <2>4 DEF Desenhado, q, r
<1>11. ASSUME NEW k \in Nat, k < Lugares(u), k < Len(mais)
       PROVE  Desenhado(u, Lugares(u) - 1 - k) = mais[Len(mais) - k]
  <2>1. CASE k = 0
    BY <1>2, <1>4, <1>6, <1>8, <1>9, <2>1
  <2>2. CASE k # 0
    <3>1. /\ k - 1 \in Nat /\ k - 1 < n /\ k - 1 < Len(linha)
          /\ Lugares(u) - 1 - k = n - 1 - (k - 1) /\ n - 1 - (k - 1) \in Nat /\ n - 1 - (k - 1) < n
          /\ Len(mais) - k = Len(linha) - (k - 1) /\ Len(linha) - (k - 1) \in 1 .. Len(linha)
      BY <1>2, <1>4, <1>6, <1>8, <1>11, <2>2
    <3>2. Desenhado(t, n - 1 - (k - 1)) = linha[Len(linha) - (k - 1)]
      BY <1>3, <3>1 DEF Mostra, n
    <3>3. QED BY <1>4, <1>10, <3>1, <3>2
  <2>3. QED BY <2>1, <2>2
<1>12. Len(mais) <= Lugares(u) \/ u.y = nrows - 1
  BY <1>2, <1>3, <1>4, <1>6, <1>7, <1>8 DEF Mostra, n
<1>13. QED BY <1>11, <1>12 DEF Mostra, u, mais

\* The end of a text, if no row ends in it, is drawn before the cursor.
LEMMA PrintMostra ==
    ASSUME NEW S, BRANCO \in S, NEW tela, EmOrdem(S, tela), NEW texto \in Seq(S \cup {LF, CR}),
           NEW j \in 0 .. Len(texto), \A i \in j + 1 .. Len(texto) : texto[i] \notin {LF, CR}
    PROVE  Mostra(print(tela, texto), SubSeq(texto, j + 1, Len(texto)))
<1> DEFINE T == Telas(tela, texto)
           L == Len(texto)
           R == S \cup {LF, CR}
           Fora == {n \in j .. L : ~ Mostra(T[n], SubSeq(texto, j + 1, n))}
<1>1. \A i \in 1 .. L : T[i] = Caractere(T[i - 1], texto[i])
  BY TelasDefinidas
<1>2. \A i \in 0 .. L : EmOrdem(S, T[i])
  BY TelasEmOrdem
<1>3. L \in Nat /\ \A i \in 1 .. L : texto[i] \in R
  OBVIOUS
<1>4. \A n \in j .. L : SubSeq(texto, j + 1, n) \in Seq(R) /\ Len(SubSeq(texto, j + 1, n)) = n - j
  BY <1>3
<1>5. \A n \in j + 1 .. L : SubSeq(texto, j + 1, n) = Append(SubSeq(texto, j + 1, n - 1), texto[n])
  BY <1>3
<1> HIDE DEF T, L, R
<1>6. Fora = {}
  <2>1. SUFFICES ASSUME Fora # {} PROVE FALSE
    OBVIOUS
  <2>2. PICK m \in Fora : \A k \in Fora : m <= k
    <3>1. Fora \subseteq Nat
      BY <1>3
    <3> HIDE DEF Fora
    <3>2. QED BY <2>1, <3>1, MenorNumero
  <2>3. m # j
    <3>1. Len(SubSeq(texto, j + 1, j)) = 0 /\ j \in 0 .. L
      BY <1>3, <1>4 DEF L
    <3>2. Lugares(T[j]) \in Nat
      BY <1>2, <3>1, LugaresTipo
    <3>3. Mostra(T[j], SubSeq(texto, j + 1, j))
      BY <3>1, <3>2 DEF Mostra
    <3>4. QED BY <2>2, <3>3
  <2>4. m - 1 \in j .. L /\ m \in j + 1 .. L /\ m \in 1 .. L /\ m - 1 \in 0 .. L /\ ~(m <= m - 1)
    BY <1>3, <2>2, <2>3 DEF L
  <2>5. Mostra(T[m - 1], SubSeq(texto, j + 1, m - 1))
    BY <2>2, <2>4
  <2>6. texto[m] \in R /\ texto[m] \notin {LF, CR}
    BY <1>3, <2>4 DEF L
  <2>7. SubSeq(texto, j + 1, m - 1) \in Seq(R) /\ EmOrdem(S, T[m - 1])
    BY <1>2, <1>4, <2>4
  <2>8. Mostra(Caractere(T[m - 1], texto[m]), Append(SubSeq(texto, j + 1, m - 1), texto[m]))
    BY <2>5, <2>6, <2>7, CaractereMostra
  <2>9. QED BY <1>1, <1>5, <2>2, <2>4, <2>8
<1>7. Mostra(T[L], SubSeq(texto, j + 1, L))
  BY <1>3, <1>6 DEF L
<1>8. QED BY <1>7 DEF print, T, L
\* A list is the end of another when they agree from their last elements backwards.
LEMMA Sufixo ==
    ASSUME NEW A, NEW s \in Seq(A), NEW t \in Seq(A), Len(s) <= Len(t),
           \A k \in 0 .. Len(s) - 1 : s[Len(s) - k] = t[Len(t) - k]
    PROVE  IsSuffix(s, t)
<1> DEFINE n == Len(s)
           rs == Reverse(s)
           rt == Reverse(t)
<1>1. n \in Nat /\ Len(t) \in Nat
  OBVIOUS
<1>2. /\ rs \in Seq(A) /\ Len(rs) = n /\ rt \in Seq(A) /\ Len(rt) = Len(t)
      /\ \A i \in 1 .. n : rs[i] = s[n - i + 1]
      /\ \A i \in 1 .. Len(t) : rt[i] = t[Len(t) - i + 1]
  BY DEF Reverse
<1> HIDE DEF rs, rt
<1>3. ASSUME NEW i \in 1 .. n PROVE rs[i] = rt[i]
  <2>1. i - 1 \in 0 .. Len(s) - 1 /\ i \in 1 .. Len(t)
        /\ n - i + 1 = Len(s) - (i - 1) /\ Len(t) - i + 1 = Len(t) - (i - 1)
    BY <1>1
  <2>2. s[Len(s) - (i - 1)] = t[Len(t) - (i - 1)]
    BY <2>1
  <2>3. QED BY <1>2, <2>1, <2>2
<1>4. SubSeq(rs, 1, n) = SubSeq(rt, 1, n)
  <2>1. /\ SubSeq(rs, 1, n) \in Seq(A) /\ SubSeq(rt, 1, n) \in Seq(A)
        /\ Len(SubSeq(rs, 1, n)) = n /\ Len(SubSeq(rt, 1, n)) = n
        /\ \A i \in 1 .. n : SubSeq(rs, 1, n)[i] = rs[i] /\ SubSeq(rt, 1, n)[i] = rt[i]
    BY <1>1, <1>2
  <2> DEFINE x == SubSeq(rs, 1, n)
             y == SubSeq(rt, 1, n)
  <2> HIDE DEF x, y
  <2>2. /\ x \in Seq(A) /\ y \in Seq(A) /\ Len(x) = Len(y) /\ \A i \in 1 .. Len(x) : x[i] = y[i]
    BY <1>3, <2>1 DEF x, y
  <2>3. x = y
    BY <2>2, SeqEqual
  <2>4. QED BY <2>3 DEF x, y
<1>5. QED BY <1>2, <1>4 DEF IsSuffix, IsPrefix, rs, rt

\* Mostra, said of lists: the line is the end of what is seen, or what is seen, up to the
\* last row, is the end of the line.
LEMMA MostraSufixo ==
    ASSUME NEW S, NEW tela, EmOrdem(S, tela), NEW R, NEW linha \in Seq(R), Mostra(tela, linha)
    PROVE  \/ IsSuffix(linha, AntesDoCursor(tela))
           \/ IsSuffix(AntesDoCursor(tela), linha) /\ tela.y = nrows - 1
<1> DEFINE visto == AntesDoCursor(tela)
           n == Lugares(tela)
           A == R \cup {Desenhado(tela, i) : i \in Nat}
<1>1. n \in Nat /\ Len(linha) \in Nat
  BY LugaresTipo
<1>2. visto = [i \in 1 .. n |-> Desenhado(tela, i - 1)]
  BY DEF AntesDoCursor, Lugares, Desenhado
<1>3. linha \in Seq(A)
  OBVIOUS
<1>4. \A i \in 1 .. n : Desenhado(tela, i - 1) \in A
  <2>1. \A i \in 1 .. n : i - 1 \in Nat
    BY <1>1
  <2>2. QED BY <2>1
<1> HIDE DEF visto, n, A
<1>5. visto \in Seq(A) /\ Len(visto) = n /\ \A i \in 1 .. n : visto[i] = Desenhado(tela, i - 1)
  BY <1>1, <1>2, <1>4
<1>6. ASSUME NEW k \in Nat, k < n, k < Len(linha)
      PROVE  visto[Len(visto) - k] = linha[Len(linha) - k]
  <2>1. n - k \in 1 .. n /\ (n - k) - 1 = n - 1 - k
    BY <1>1, <1>6
  <2>2. visto[n - k] = Desenhado(tela, n - 1 - k)
    BY <1>5, <2>1
  <2>3. Desenhado(tela, n - 1 - k) = linha[Len(linha) - k]
    BY <1>6 DEF Mostra, n
  <2>4. QED BY <1>5, <2>2, <2>3
<1>7. CASE Len(linha) <= n
  <2>1. \A k \in 0 .. Len(linha) - 1 : linha[Len(linha) - k] = visto[Len(visto) - k]
    BY <1>1, <1>6, <1>7
  <2>2. IsSuffix(linha, visto)
    BY <1>3, <1>5, <1>7, <2>1, Sufixo
  <2>3. QED BY <2>2 DEF visto
<1>8. CASE ~(Len(linha) <= n)
  <2>1. ASSUME NEW k \in 0 .. Len(visto) - 1
        PROVE  visto[Len(visto) - k] = linha[Len(linha) - k]
    <3>1. k \in Nat /\ k < n /\ k < Len(linha)
      BY <1>1, <1>5, <1>8
    <3>2. QED BY <1>6, <3>1
  <2>2. Len(visto) <= Len(linha)
    BY <1>1, <1>5, <1>8
  <2>3. IsSuffix(visto, linha)
    BY <1>3, <1>5, <2>1, <2>2, Sufixo
  <2>4. tela.y = nrows - 1
    BY <1>8 DEF Mostra, n
  <2>5. QED BY <2>3, <2>4 DEF visto
<1>9. QED BY <1>7, <1>8
=============================================================================
