----------------------------- MODULE DiskProofs -----------------------------
(***************************************************************************)
(* Proofs about module Disk, for any files, amounts, ids and cycles.         *)
(***************************************************************************)
EXTENDS Disk, ListasProofs

-----------------------------------------------------------------------------
(* The inductive invariant *)

\* The bytes the driver got of id are the first of its file.
Lido(id) ==
    /\ Len(entregue[id]) <= Len(Conteudo[arquivo[id]])
    /\ \A i \in 1 .. Len(entregue[id]) : entregue[id][i] = Conteudo[arquivo[id]][i]

\* The bytes still in the buffer are the next ones of id.
Seguem(id) ==
    /\ posicao[id] = Len(entregue[id]) + Len(buffer) - count
    /\ \A j \in count + 1 .. Len(buffer) :
          buffer[j] = Conteudo[arquivo[id]][Len(entregue[id]) + j - count]

\* ArquivoExato, byte by byte.
ByteAByte ==
    \A id \in abertos :
        /\ Lido(id)
        /\ posicao[id] <= Len(Conteudo[arquivo[id]])
        /\ IF state = "UploadingFile" /\ fonte = id THEN Seguem(id)
           ELSE posicao[id] = Len(entregue[id])

\* Ids that were not spent yet have read nothing.
PorUsar == \A id \in Ids : id >= next_id => posicao[id] = 0 /\ entregue[id] = <<>>

NomesCertos ==
    /\ \A id \in abertos : arquivo[id] \in Arquivos
    /\ \A i, j \in abertos : arquivo[i] = arquivo[j] => i = j
    /\ atual # NULL => atual \in abertos

\* While it uploads there is a byte left, of a file that is open.
EnvioCoerente == state = "UploadingFile" => count < Len(buffer) /\ fonte \in abertos

\* While it waits, the counter is the time.
EsperaCoerente == state = "ReadingFile" => count = espera

DInv == /\ TypeOK
        /\ ByteAByte
        /\ PorUsar
        /\ NomesCertos
        /\ EnvioCoerente
        /\ EsperaCoerente
        /\ SemByteAMais

-----------------------------------------------------------------------------
(* Bytes *)

LEMMA Constantes ==
    /\ UINT16_MAX \in Nat /\ UINT16_MAX > 100
    /\ Tamanhos \subseteq Nat /\ disk_interrupt_cycles \in Nat
    /\ Ausente \notin Arquivos
    /\ \A a \in Arquivos : Conteudo[a] \in Seq(Bytes)
BY DiskAssumption DEF Bytes

\* The smaller of two numbers.
LEMMA OMenor ==
    ASSUME NEW a \in Nat, NEW b \in Nat
    PROVE  Min({a, b}) = IF a <= b THEN a ELSE b
<1>1. \E x \in {a, b} : \A y \in {a, b} : x =< y
  OBVIOUS
<1>2. Min({a, b}) \in {a, b} /\ \A y \in {a, b} : Min({a, b}) =< y
  BY <1>1 DEF Min
<1>3. QED BY <1>2

\* The length of a file is cut to 16 bits.
LEMMA Cortado ==
    ASSUME NEW a \in Nat
    PROVE  a % (UINT16_MAX + 1) \in 0 .. UINT16_MAX
<1>1. UINT16_MAX + 1 \in Nat \ {0}
  BY Constantes
<1> DEFINE n == UINT16_MAX + 1
<1>2. \A m \in Nat \ {0} : a % m \in 0 .. m - 1
  OBVIOUS
<1>3. a % n \in 0 .. n - 1
  BY <1>1, <1>2
<1>4. QED BY <1>3, Constantes

LEMMA AbertosSaoIds ==
    ASSUME TypeOK
    PROVE  abertos \subseteq Ids
BY Constantes DEF TypeOK, Ids

\* What a read obtains: the bytes of the file that come next, at most n of them.
LEMMA LidosSeguem ==
    ASSUME TypeOK, NomesCertos, NEW n \in Nat, atual \in abertos,
           posicao[atual] <= Len(Conteudo[arquivo[atual]])
    PROVE  /\ Lidos(n) \in Seq(Bytes)
           /\ Len(Lidos(n)) \in Nat
           /\ posicao[atual] + Len(Lidos(n)) <= Len(Conteudo[arquivo[atual]])
           /\ \A j \in 1 .. Len(Lidos(n)) :
                 Lidos(n)[j] = Conteudo[arquivo[atual]][posicao[atual] + j]
<1> DEFINE F == Conteudo[arquivo[atual]]
           k == posicao[atual]
           fim == IF k + n <= Len(F) THEN k + n ELSE Len(F)
<1>1. F \in Seq(Bytes) /\ Len(F) \in Nat
  BY Constantes DEF NomesCertos
<1>2. k \in Nat /\ k <= Len(F)
  BY AbertosSaoIds DEF TypeOK
<1>3. CASE falhou[atual]
  <2>1. Lidos(n) = <<>>
    BY <1>3 DEF Lidos
  <2>2. <<>> \in Seq(Bytes) /\ Len(<<>>) = 0
    OBVIOUS
  <2>3. QED BY <1>1, <1>2, <2>1, <2>2
<1>4. CASE ~falhou[atual]
  <2>1. Min({k + n, Len(F)}) = fim
    BY <1>1, <1>2, OMenor
  <2>2. Lidos(n) = SubSeq(F, k + 1, fim)
    BY <1>4, <2>1 DEF Lidos
  <2>3. fim \in Nat /\ k <= fim /\ fim <= Len(F)
    BY <1>1, <1>2
  <2>4. \A i \in k + 1 .. fim : F[i] \in Bytes
    BY <1>1, <1>2, <2>3, ElementOfSeq
  <2> HIDE DEF F, k, fim
  <2>5. /\ SubSeq(F, k + 1, fim) \in Seq(Bytes)
        /\ Len(SubSeq(F, k + 1, fim)) = IF k + 1 <= fim THEN fim - (k + 1) + 1 ELSE 0
        /\ \A i \in 1 .. fim - (k + 1) + 1 : SubSeq(F, k + 1, fim)[i] = F[k + 1 + i - 1]
    BY <1>2, <2>3, <2>4, SubSeqProperties
  <2>6. Len(Lidos(n)) = fim - k
    BY <1>2, <2>2, <2>3, <2>5
  <2>7. \A i \in 1 .. fim - k : Lidos(n)[i] = F[k + i]
    BY <1>2, <2>2, <2>3, <2>5
  <2>8. Lidos(n) \in Seq(Bytes)
    BY <2>2, <2>5
  <2>9. Len(Lidos(n)) \in Nat /\ k + Len(Lidos(n)) <= Len(F)
    BY <1>1, <1>2, <2>3, <2>6
  <2>10. \A j \in 1 .. Len(Lidos(n)) : Lidos(n)[j] = F[k + j]
    BY <2>6, <2>7
  <2>11. QED BY <2>8, <2>9, <2>10 DEF F, k
<1>5. QED BY <1>3, <1>4

-----------------------------------------------------------------------------
(* Steps *)

\* Initially nothing was read.
LEMMA DInvInit == Init => DInv
<1> SUFFICES ASSUME Init PROVE DInv
  OBVIOUS
<1> USE DEF Init
<1>1. TypeOK
  <2>1. <<>> \in Seq(Bytes)
    OBVIOUS
  <2>2. QED BY <2>1, Constantes DEF TypeOK, Ids, atual, Estados, Erros
<1>2. ByteAByte /\ NomesCertos
  BY DEF ByteAByte, NomesCertos, atual
<1>3. PorUsar /\ EnvioCoerente /\ EsperaCoerente /\ SemByteAMais
  BY DEF PorUsar, EnvioCoerente, EsperaCoerente, SemByteAMais
<1>4. QED BY <1>1, <1>2, <1>3 DEF DInv

\* A step that reads nothing and opens nothing keeps what was read.
LEMMA NadaLido ==
    ASSUME DInv, UNCHANGED <<abertos, arquivo, posicao, entregue, next_id>>,
           \/ UNCHANGED <<state, buffer, count, fonte>>
           \/ state # "UploadingFile" /\ state' # "UploadingFile"
    PROVE  ByteAByte' /\ PorUsar'
<1>1. PorUsar'
  BY DEF DInv, PorUsar
<1>2. \A id \in abertos : Lido(id)' <=> Lido(id)
  BY DEF Lido
<1>3. CASE UNCHANGED <<state, buffer, count, fonte>>
  <2>1. \A id \in abertos : Seguem(id)' <=> Seguem(id)
    BY <1>3 DEF Seguem
  <2>2. QED BY <1>1, <1>2, <1>3, <2>1 DEF DInv, ByteAByte
<1>4. CASE state # "UploadingFile" /\ state' # "UploadingFile"
  BY <1>1, <1>2, <1>4 DEF DInv, ByteAByte
<1>5. QED BY <1>3, <1>4

\* Opening a file that is not open: the id is one that was not spent.
LEMMA AbreArquivo ==
    ASSUME DInv, OpenFile
    PROVE  DInv'
<1>1. next_id \in Ids /\ next_id' = next_id + 1 /\ next_id \in Nat /\ next_id \notin abertos
  BY Constantes DEF DInv, TypeOK, Ids, OpenFile, id_seguinte
<1>2. /\ UNCHANGED <<state, count, posicao, falhou, data_written, data_result, buffer>>
      /\ UNCHANGED <<excecao, fonte, entregue, espera>>
      /\ state = "Idle" /\ fname' = Ausente
      /\ \A id \in abertos : arquivo[id] # fname
  BY DEF OpenFile, Comando, JaAberto, fluxoVars, dadosVars, historiaVars
<1>3. /\ Existe(fname) => /\ abertos' = abertos \cup {next_id}
                          /\ arquivo' = [arquivo EXCEPT ![next_id] = fname]
                          /\ atual' = next_id
                          /\ error' = "NoError"
      /\ ~Existe(fname) => /\ atual' = NULL
                           /\ error' = "CannotOpenFile"
                           /\ UNCHANGED <<abertos, arquivo>>
  BY DEF OpenFile, atual
<1>4. PorUsar'
  BY <1>1, <1>2 DEF DInv, PorUsar, Ids
<1>5. (EnvioCoerente /\ EsperaCoerente /\ SemByteAMais)'
  BY <1>2 DEF DInv, EnvioCoerente, EsperaCoerente, SemByteAMais
<1>6. next_id' \in 100 .. UINT16_MAX
  BY <1>1, Constantes DEF Ids
<1>7. CASE Existe(fname)
  <2>1. /\ abertos' = abertos \cup {next_id}
        /\ arquivo' = [arquivo EXCEPT ![next_id] = fname]
        /\ atual' = next_id /\ error' = "NoError"
        /\ fname \in Arquivos
    BY <1>3, <1>7 DEF Existe
  <2>2. abertos' \subseteq 100 .. next_id' - 1
    BY <1>1, <2>1 DEF DInv, TypeOK, Ids
  <2>3. arquivo' \in [Ids -> Arquivos \cup {Ausente}]
    BY <1>1, <2>1 DEF DInv, TypeOK
  <2>4. TypeOK'
    BY <1>1, <1>2, <1>6, <2>1, <2>2, <2>3 DEF DInv, TypeOK, Erros
  <2>5. arquivo'[next_id] = fname /\ \A id \in abertos : arquivo'[id] = arquivo[id]
    BY <1>1, <2>1 DEF DInv, TypeOK, Ids
  <2>6. ByteAByte'
    <3>1. ASSUME NEW id \in abertos
          PROVE  Lido(id)' /\ posicao'[id] <= Len(Conteudo[arquivo'[id]])
                 /\ posicao'[id] = Len(entregue'[id])
      BY <1>2, <2>5 DEF DInv, ByteAByte, Lido
    <3>2. posicao'[next_id] = 0 /\ entregue'[next_id] = <<>> /\ Len(<<>>) = 0
      BY <1>1, <1>2 DEF DInv, PorUsar
    <3>3. Len(Conteudo[fname]) \in Nat
      BY <2>1, Constantes
    <3>4. Len(entregue'[next_id]) = 0
      BY <3>2
    <3>5. ASSUME NEW id, id = next_id
          PROVE  Lido(id)' /\ posicao'[id] <= Len(Conteudo[arquivo'[id]])
                 /\ posicao'[id] = Len(entregue'[id])
      <4>1. Len(entregue'[id]) = 0 /\ posicao'[id] = 0 /\ arquivo'[id] = fname
        BY <2>5, <3>2, <3>4, <3>5
      <4>2. QED BY <3>3, <4>1 DEF Lido
    <3>6. ASSUME NEW id \in abertos'
          PROVE  Lido(id)' /\ posicao'[id] <= Len(Conteudo[arquivo'[id]])
                 /\ posicao'[id] = Len(entregue'[id])
      BY <2>1, <3>1, <3>5
    <3>7. QED BY <1>2, <3>6 DEF ByteAByte
  <2>7. NomesCertos'
    <3>1. \A id \in abertos' : arquivo'[id] \in Arquivos
      BY <2>1, <2>5 DEF DInv, NomesCertos
    <3>2. \A i, j \in abertos' : arquivo'[i] = arquivo'[j] => i = j
      BY <1>2, <2>1, <2>5 DEF DInv, NomesCertos
    <3>3. QED BY <2>1, <3>1, <3>2 DEF NomesCertos
  <2>8. QED BY <1>4, <1>5, <2>4, <2>6, <2>7 DEF DInv
<1>8. CASE ~Existe(fname)
  <2>1. atual' = NULL /\ error' = "CannotOpenFile" /\ UNCHANGED <<abertos, arquivo>>
    BY <1>3, <1>8
  <2>2. abertos' \subseteq 100 .. next_id' - 1
    BY <1>1, <2>1 DEF DInv, TypeOK, Ids
  <2>3. TypeOK'
    BY <1>2, <1>6, <2>1, <2>2 DEF DInv, TypeOK, Erros
  <2>4. \A id \in abertos : Lido(id)' <=> Lido(id)
    BY <1>2, <2>1 DEF Lido
  <2>5. ByteAByte'
    BY <1>2, <2>1, <2>4 DEF DInv, ByteAByte
  <2>6. NomesCertos'
    BY <2>1 DEF DInv, NomesCertos
  <2>7. QED BY <1>4, <1>5, <2>3, <2>5, <2>6 DEF DInv
<1>9. QED BY <1>7, <1>8

\* The first read after the wait: the bytes are taken from the file that is current.
LEMMA LeDoArquivo ==
    ASSUME DInv, LeTamanhoLido
    PROVE  DInv'
<1>1. /\ UNCHANGED <<next_id, fname, abertos, arquivo, atual, data_written, data_result>>
      /\ UNCHANGED <<excecao, entregue, espera>>
      /\ state = "UploadingFileSize"
  BY DEF LeTamanhoLido, atual
<1>2. CASE atual = NULL
  <2>1. /\ UNCHANGED <<state, count, posicao, falhou, buffer, fonte>>
        /\ error' = "InvalidFileDescriptor"
    BY <1>2 DEF LeTamanhoLido, SemDescritor
  <2>2. TypeOK'
    BY <1>1, <2>1 DEF DInv, TypeOK, Erros
  <2>3. ByteAByte' /\ PorUsar'
    BY <1>1, <2>1, NadaLido
  <2>4. NomesCertos' /\ (EnvioCoerente /\ EsperaCoerente /\ SemByteAMais)'
    BY <1>1, <2>1 DEF DInv, NomesCertos, EnvioCoerente, EsperaCoerente, SemByteAMais
  <2>5. QED BY <2>2, <2>3, <2>4 DEF DInv
<1>3. CASE atual # NULL
  <2> DEFINE L == Lidos(data_written)
             F == Conteudo[arquivo[atual]]
             k == posicao[atual]
  <2>1. /\ buffer' = L
        /\ posicao' = [posicao EXCEPT ![atual] = @ + Len(L)]
        /\ falhou' = [falhou EXCEPT ![atual] = @ \/ Len(L) < data_written]
        /\ fonte' = atual
        /\ error' = "NoError"
        /\ state' = IF L # <<>> THEN "UploadingFile" ELSE "Idle"
        /\ count' = IF L # <<>> THEN 0 ELSE count
    BY <1>3 DEF LeTamanhoLido
  <2>2. atual \in abertos /\ abertos \subseteq Ids /\ data_written \in Nat
    BY <1>3, AbertosSaoIds, Constantes DEF DInv, NomesCertos, TypeOK
  <2>3. k <= Len(F) /\ k \in Nat /\ k = Len(entregue[atual])
    BY <1>1, <2>2 DEF DInv, ByteAByte, TypeOK
  <2>4. /\ L \in Seq(Bytes) /\ Len(L) \in Nat /\ k + Len(L) <= Len(F)
        /\ \A j \in 1 .. Len(L) : L[j] = F[k + j]
    BY <2>2, <2>3, LidosSeguem DEF DInv
  <2> HIDE DEF L
  <2>5. posicao'[atual] = k + Len(L) /\ \A id \in Ids \ {atual} : posicao'[id] = posicao[id]
    BY <2>1, <2>2 DEF DInv, TypeOK
  <2>6. posicao' \in [Ids -> Nat] /\ falhou' \in [Ids -> BOOLEAN]
    <3>1. k + Len(L) \in Nat
      BY <2>3, <2>4
    <3>2. posicao' \in [Ids -> Nat]
      BY <2>1, <2>2, <3>1 DEF DInv, TypeOK
    <3>3. falhou' \in [Ids -> BOOLEAN]
      BY <2>1, <2>2 DEF DInv, TypeOK
    <3>4. QED BY <3>2, <3>3
  <2>7. TypeOK'
    BY <1>1, <2>1, <2>2, <2>4, <2>6 DEF DInv, TypeOK, Erros, Estados
  <2>8. L # <<>> => Len(L) > 0
    BY <2>4
  <2>9. ByteAByte'
    <3>1. ASSUME NEW id \in abertos'
          PROVE  /\ Lido(id)'
                 /\ posicao'[id] <= Len(Conteudo[arquivo'[id]])
                 /\ IF state' = "UploadingFile" /\ fonte' = id THEN Seguem(id)'
                    ELSE posicao'[id] = Len(entregue'[id])
      <4>1. id \in abertos /\ id \in Ids
        BY <1>1, <2>2, <3>1
      <4>2. Lido(id)'
        BY <1>1, <4>1 DEF DInv, ByteAByte, Lido
      <4>3. CASE id # atual
        <5>1. posicao'[id] = posicao[id] /\ fonte' # id
          BY <2>1, <2>5, <4>1, <4>3
        <5>2. QED BY <1>1, <4>1, <4>2, <5>1 DEF DInv, ByteAByte
      <4>4. CASE id = atual
        <5>1. posicao'[id] = k + Len(L) /\ Conteudo[arquivo'[id]] = F
          BY <1>1, <2>5, <4>4
        <5>2. CASE L = <<>>
          <6>1. state' = "Idle" /\ Len(L) = 0
            BY <2>1, <5>2
          <6>2. posicao'[id] = Len(entregue'[id])
            BY <1>1, <2>3, <4>4, <5>1, <6>1
          <6>3. QED BY <2>4, <4>2, <5>1, <6>1, <6>2
        <5>3. CASE L # <<>>
          <6>1. count' = 0 /\ buffer' = L /\ state' = "UploadingFile"
            BY <2>1, <5>3
          <6>2. Len(entregue'[id]) = k
            BY <1>1, <2>3, <4>4
          <6>3. posicao'[id] = Len(entregue'[id]) + Len(buffer') - count'
            BY <2>3, <2>4, <5>1, <6>1, <6>2
          <6>4. \A j \in count' + 1 .. Len(buffer') :
                   buffer'[j] = Conteudo[arquivo'[id]][Len(entregue'[id]) + j - count']
            <7>1. ASSUME NEW j \in 1 .. Len(L) PROVE L[j] = F[k + j - 0]
              BY <2>3, <2>4
            <7>2. QED BY <5>1, <6>1, <6>2, <7>1
          <6>5. Seguem(id)'
            BY <6>3, <6>4 DEF Seguem
          <6>6. fonte' = id
            BY <2>1, <4>4
          <6>7. posicao'[id] <= Len(Conteudo[arquivo'[id]])
            BY <2>4, <5>1
          <6>8. QED BY <4>2, <6>1, <6>5, <6>6, <6>7
        <5>4. QED BY <5>2, <5>3
      <4>5. QED BY <4>3, <4>4
    <3>2. QED BY <3>1 DEF ByteAByte
  <2>10. PorUsar'
    <3>1. \A id \in Ids : id >= next_id => id # atual
      BY <2>2, Constantes DEF DInv, TypeOK, Ids
    <3>2. QED BY <1>1, <2>5, <3>1 DEF DInv, PorUsar
  <2>11. NomesCertos'
    BY <1>1 DEF DInv, NomesCertos
  <2>12. (EnvioCoerente /\ EsperaCoerente /\ SemByteAMais)'
    BY <1>1, <2>1, <2>2, <2>8 DEF DInv, EnvioCoerente, EsperaCoerente, SemByteAMais
  <2>13. QED BY <2>7, <2>9, <2>10, <2>11, <2>12 DEF DInv
<1>4. QED BY <1>2, <1>3

\* A byte goes from the buffer to the driver.
LEMMA EntregaByte ==
    ASSUME DInv, LeByte
    PROVE  DInv'
<1>1. /\ UNCHANGED <<next_id, fname, abertos, arquivo, posicao, falhou, atual>>
      /\ UNCHANGED <<data_written, data_result, buffer, error, fonte, espera>>
      /\ state = "UploadingFile"
  BY DEF LeByte, arquivoVars, fluxoVars, dadosVars
<1>2. count < Len(buffer) /\ fonte \in abertos /\ abertos \subseteq Ids /\ count \in Nat
      /\ buffer \in Seq(Bytes) /\ Len(buffer) \in Nat
  BY <1>1, AbertosSaoIds DEF DInv, EnvioCoerente, TypeOK
<1>3. /\ count' = count + 1
      /\ entregue' = [entregue EXCEPT ![fonte] = Append(@, buffer[count + 1])]
      /\ state' = IF count + 1 = Len(buffer) THEN "Idle" ELSE state
      /\ UNCHANGED excecao
  BY <1>2 DEF LeByte
<1> DEFINE b == buffer[count + 1]
           e == entregue[fonte]
<1>4. b \in Bytes /\ e \in Seq(Bytes) /\ Len(e) \in Nat
  BY <1>2 DEF DInv, TypeOK
<1>5. /\ Append(e, b) \in Seq(Bytes) /\ Len(Append(e, b)) = Len(e) + 1
      /\ \A i \in 1 .. Len(e) : Append(e, b)[i] = e[i]
      /\ Append(e, b)[Len(e) + 1] = b
  BY <1>4, AppendProperties
<1>6. /\ entregue' \in [Ids -> Seq(Bytes)]
      /\ entregue'[fonte] = Append(e, b)
      /\ \A id \in Ids \ {fonte} : entregue'[id] = entregue[id]
  BY <1>2, <1>3, <1>5 DEF DInv, TypeOK
<1>7. TypeOK'
  BY <1>1, <1>2, <1>3, <1>6 DEF DInv, TypeOK, Estados
<1>8. ByteAByte'
  <2>1. ASSUME NEW id \in abertos'
        PROVE  /\ Lido(id)'
               /\ posicao'[id] <= Len(Conteudo[arquivo'[id]])
               /\ IF state' = "UploadingFile" /\ fonte' = id THEN Seguem(id)'
                  ELSE posicao'[id] = Len(entregue'[id])
    <3>1. id \in abertos /\ id \in Ids
      BY <1>1, <1>2, <2>1
    <3>2. posicao'[id] <= Len(Conteudo[arquivo'[id]])
      BY <1>1, <3>1 DEF DInv, ByteAByte
    <3>3. CASE id # fonte
      <4>1. entregue'[id] = entregue[id] /\ fonte' # id
        BY <1>1, <1>6, <3>1, <3>3
      <4>2. Lido(id)' /\ posicao'[id] = Len(entregue'[id])
        BY <1>1, <3>1, <3>3, <4>1 DEF DInv, ByteAByte, Lido
      <4>3. QED BY <3>2, <4>1, <4>2
    <3>4. CASE id = fonte
      <4> DEFINE F == Conteudo[arquivo[id]]
      <4>1. /\ Len(e) <= Len(F) /\ \A i \in 1 .. Len(e) : e[i] = F[i]
            /\ posicao[id] = Len(e) + Len(buffer) - count /\ posicao[id] <= Len(F)
            /\ \A j \in count + 1 .. Len(buffer) : buffer[j] = F[Len(e) + j - count]
        BY <1>1, <3>1, <3>4 DEF DInv, ByteAByte, Lido, Seguem
      <4>2. F \in Seq(Bytes) /\ Len(F) \in Nat
        BY <3>1, Constantes DEF DInv, NomesCertos
      <4>3. Conteudo[arquivo'[id]] = F /\ entregue'[id] = Append(e, b)
            /\ posicao'[id] = posicao[id] /\ buffer' = buffer
        BY <1>1, <1>6, <3>4
      <4> HIDE DEF F, e
      <4>4. b = F[Len(e) + 1]
        <5>1. count + 1 \in count + 1 .. Len(buffer)
              /\ Len(e) + (count + 1) - count = Len(e) + 1
          BY <1>2, <1>4
        <5>2. QED BY <4>1, <5>1
      <4> HIDE DEF b
      <4>5. Lido(id)'
        <5>1. Len(e) + 1 <= Len(F)
          BY <1>2, <1>4, <4>1, <4>2
        <5>2. \A i \in 1 .. Len(e) + 1 : Append(e, b)[i] = F[i]
          BY <1>4, <1>5, <4>1, <4>4
        <5>3. QED BY <1>5, <4>3, <5>1, <5>2 DEF Lido
      <4>6. Seguem(id)'
        <5>1. posicao[id] = (Len(e) + 1) + Len(buffer) - (count + 1)
          BY <1>2, <1>4, <4>1
        <5>2. ASSUME NEW j \in (count + 1) + 1 .. Len(buffer)
              PROVE  buffer[j] = F[(Len(e) + 1) + j - (count + 1)]
          <6>1. j \in count + 1 .. Len(buffer)
                /\ (Len(e) + 1) + j - (count + 1) = Len(e) + j - count
            BY <1>2, <1>4
          <6>2. QED BY <4>1, <6>1
        <5>3. QED BY <1>3, <1>5, <4>3, <5>1, <5>2 DEF Seguem
      <4>7. state' # "UploadingFile" => posicao'[id] = Len(entregue'[id])
        <5>1. ASSUME state' # "UploadingFile" PROVE count + 1 = Len(buffer)
          BY <1>1, <1>3, <5>1
        <5>2. ASSUME count + 1 = Len(buffer) PROVE posicao[id] = Len(e) + 1
          BY <1>2, <1>4, <4>1, <5>2
        <5>3. Len(entregue'[id]) = Len(e) + 1
          BY <1>5, <4>3
        <5>4. QED BY <4>3, <5>1, <5>2, <5>3
      <4>8. QED BY <1>1, <3>2, <3>4, <4>5, <4>6, <4>7
    <3>5. QED BY <3>3, <3>4
  <2>2. QED BY <2>1 DEF ByteAByte
<1>9. PorUsar'
  <2>1. \A id \in Ids : id >= next_id => id # fonte
    BY <1>2, Constantes DEF DInv, TypeOK, Ids
  <2>2. QED BY <1>1, <1>6, <2>1 DEF DInv, PorUsar
<1>10. NomesCertos'
  BY <1>1 DEF DInv, NomesCertos, atual
<1>11. (EnvioCoerente /\ EsperaCoerente /\ SemByteAMais)'
  BY <1>1, <1>2, <1>3 DEF DInv, EnvioCoerente, EsperaCoerente, SemByteAMais
<1>12. QED BY <1>7, <1>8, <1>9, <1>10, <1>11 DEF DInv
\* The steps that read nothing and open nothing.
LEMMA DemaisPassos ==
    ASSUME DInv,
           \/ Disk_run_cycle \/ SetFname \/ OpenFile_aberto \/ CloseFile \/ ReadFile
           \/ GetFileSize \/ \E id \in Ids : EscreveFileID(id)
           \/ LeFileID \/ \E n \in Tamanhos : EscreveTamanho(n)
           \/ \E nome \in Arquivos \cup {Ausente} : EscreveNome(nome)
           \/ \E qual \in {"estado", "comando", "id"} : Excecao(qual)
    PROVE  DInv'
<1> USE DEF arquivoVars, dadosVars, historiaVars, fluxoVars, atual, Comando, SemDescritor
<1>1. CASE Disk_run_cycle
  <2> USE <1>1 DEF Disk_run_cycle
  <2>1. TypeOK'
    BY DEF DInv, TypeOK, Estados
  <2>2. ByteAByte' /\ PorUsar'
    BY NadaLido
  <2>3. NomesCertos' /\ (EnvioCoerente /\ EsperaCoerente /\ SemByteAMais)'
    BY DEF DInv, TypeOK, NomesCertos, EnvioCoerente, EsperaCoerente, SemByteAMais
  <2>4. QED BY <2>1, <2>2, <2>3 DEF DInv
<1>2. CASE SetFname
  <2> USE <1>2 DEF SetFname
  <2>1. TypeOK'
    BY DEF DInv, TypeOK, Estados
  <2>2. ByteAByte' /\ PorUsar'
    BY NadaLido
  <2>3. NomesCertos' /\ (EnvioCoerente /\ EsperaCoerente /\ SemByteAMais)'
    BY DEF DInv, NomesCertos, EnvioCoerente, EsperaCoerente, SemByteAMais
  <2>4. QED BY <2>1, <2>2, <2>3 DEF DInv
<1>3. CASE OpenFile_aberto
  <2> USE <1>3 DEF OpenFile_aberto
  <2>1. TypeOK'
    BY DEF DInv, TypeOK, Erros
  <2>2. ByteAByte' /\ PorUsar'
    BY NadaLido
  <2>3. NomesCertos' /\ (EnvioCoerente /\ EsperaCoerente /\ SemByteAMais)'
    BY DEF DInv, NomesCertos, EnvioCoerente, EsperaCoerente, SemByteAMais
  <2>4. QED BY <2>1, <2>2, <2>3 DEF DInv
<1>4. CASE CloseFile
  <2> USE <1>4 DEF CloseFile
  <2>1. /\ abertos' \subseteq abertos
        /\ UNCHANGED <<state, count, next_id, arquivo, posicao, entregue, fonte, espera>>
        /\ UNCHANGED <<fname, falhou, data_written, data_result, buffer, excecao>>
        /\ state = "Idle"
    OBVIOUS
  <2>2. error' \in Erros /\ atual' \in {NULL}
    BY DEF Erros
  <2>3. TypeOK'
    BY <2>1, <2>2 DEF DInv, TypeOK
  <2>4. \A id \in abertos : Lido(id)' <=> Lido(id)
    BY <2>1 DEF Lido
  <2>5. ByteAByte' /\ PorUsar'
    BY <2>1, <2>4 DEF DInv, ByteAByte, PorUsar
  <2>6. NomesCertos' /\ (EnvioCoerente /\ EsperaCoerente /\ SemByteAMais)'
    BY <2>1, <2>2 DEF DInv, NomesCertos, EnvioCoerente, EsperaCoerente, SemByteAMais
  <2>7. QED BY <2>3, <2>5, <2>6 DEF DInv
<1>5. CASE ReadFile
  <2> USE <1>5 DEF ReadFile
  <2>1. TypeOK'
    BY DEF DInv, TypeOK, Estados, Erros
  <2>2. ByteAByte' /\ PorUsar'
    BY NadaLido
  <2>3. NomesCertos' /\ (EnvioCoerente /\ EsperaCoerente /\ SemByteAMais)'
    BY DEF DInv, NomesCertos, EnvioCoerente, EsperaCoerente, SemByteAMais
  <2>4. QED BY <2>1, <2>2, <2>3 DEF DInv
<1>6. CASE GetFileSize
  <2> USE <1>6 DEF GetFileSize
  <2>1. data_result' \in 0 .. UINT16_MAX
    <3>1. CASE atual = NULL
      BY <3>1 DEF DInv, TypeOK
    <3>2. CASE atual # NULL
      <4> DEFINE F == Conteudo[arquivo[atual]]
      <4>1. Len(F) \in Nat
        BY <3>2, Constantes DEF DInv, NomesCertos
      <4>2. Len(F) % (UINT16_MAX + 1) \in 0 .. UINT16_MAX
        BY <4>1, Cortado
      <4>3. UINT16_MAX \in 0 .. UINT16_MAX
        BY Constantes
      <4>4. QED BY <3>2, <4>2, <4>3
    <3>3. QED BY <3>1, <3>2
  <2>2. TypeOK'
    BY <2>1 DEF DInv, TypeOK, Erros
  <2>3. ByteAByte' /\ PorUsar'
    BY NadaLido
  <2>4. NomesCertos' /\ (EnvioCoerente /\ EsperaCoerente /\ SemByteAMais)'
    BY DEF DInv, NomesCertos, EnvioCoerente, EsperaCoerente, SemByteAMais
  <2>5. QED BY <2>2, <2>3, <2>4 DEF DInv
<1>7. ASSUME NEW id \in Ids, EscreveFileID(id) PROVE DInv'
  <2> USE <1>7 DEF EscreveFileID
  <2>1. TypeOK'
    BY DEF DInv, TypeOK, Erros
  <2>2. ByteAByte' /\ PorUsar'
    BY NadaLido
  <2>3. NomesCertos' /\ (EnvioCoerente /\ EsperaCoerente /\ SemByteAMais)'
    BY DEF DInv, NomesCertos, EnvioCoerente, EsperaCoerente, SemByteAMais
  <2>4. QED BY <2>1, <2>2, <2>3 DEF DInv
<1>8. CASE LeFileID
  <2> USE <1>8 DEF LeFileID
  <2>1. TypeOK'
    BY DEF DInv, TypeOK, Erros
  <2>2. ByteAByte' /\ PorUsar'
    BY NadaLido
  <2>3. NomesCertos' /\ (EnvioCoerente /\ EsperaCoerente /\ SemByteAMais)'
    BY DEF DInv, NomesCertos, EnvioCoerente, EsperaCoerente, SemByteAMais
  <2>4. QED BY <2>1, <2>2, <2>3 DEF DInv
<1>9. ASSUME NEW n \in Tamanhos, EscreveTamanho(n) PROVE DInv'
  <2> USE <1>9 DEF EscreveTamanho
  <2>1. TypeOK'
    BY DEF DInv, TypeOK
  <2>2. ByteAByte' /\ PorUsar'
    BY NadaLido
  <2>3. NomesCertos' /\ (EnvioCoerente /\ EsperaCoerente /\ SemByteAMais)'
    BY DEF DInv, NomesCertos, EnvioCoerente, EsperaCoerente, SemByteAMais
  <2>4. QED BY <2>1, <2>2, <2>3 DEF DInv
<1>10. ASSUME NEW nome \in Arquivos \cup {Ausente}, EscreveNome(nome) PROVE DInv'
  <2> USE <1>10 DEF EscreveNome
  <2>1. TypeOK'
    BY DEF DInv, TypeOK, Estados
  <2>2. ByteAByte' /\ PorUsar'
    BY NadaLido
  <2>3. NomesCertos' /\ (EnvioCoerente /\ EsperaCoerente /\ SemByteAMais)'
    BY DEF DInv, NomesCertos, EnvioCoerente, EsperaCoerente, SemByteAMais
  <2>4. QED BY <2>1, <2>2, <2>3 DEF DInv
<1>11. ASSUME NEW qual \in {"estado", "comando", "id"}, Excecao(qual) PROVE DInv'
  <2> USE <1>11 DEF Excecao
  <2>1. TypeOK'
    BY DEF DInv, TypeOK
  <2>2. ByteAByte' /\ PorUsar'
    BY NadaLido
  <2>3. NomesCertos' /\ (EnvioCoerente /\ EsperaCoerente /\ SemByteAMais)'
    BY DEF DInv, NomesCertos, EnvioCoerente, EsperaCoerente, SemByteAMais
  <2>4. QED BY <2>1, <2>2, <2>3 DEF DInv
<1>12. QED BY <1>1, <1>2, <1>3, <1>4, <1>5, <1>6, <1>7, <1>8, <1>9, <1>10, <1>11

\* Every step keeps the invariant.
LEMMA DInvNext == DInv /\ [Next]_vars => DInv'
<1> SUFFICES ASSUME DInv, [Next]_vars PROVE DInv'
  OBVIOUS
<1>1. CASE OpenFile
  BY <1>1, AbreArquivo
<1>2. CASE LeTamanhoLido
  BY <1>2, LeDoArquivo
<1>3. CASE LeByte
  BY <1>3, EntregaByte
<1>4. CASE UNCHANGED vars
  <2>1. /\ UNCHANGED <<state, count, next_id, fname, abertos, arquivo, posicao, falhou>>
        /\ UNCHANGED <<atual, data_written, data_result, buffer, error, excecao>>
        /\ UNCHANGED <<fonte, entregue, espera>>
    BY <1>4 DEF vars, arquivoVars, fluxoVars, dadosVars, historiaVars, atual
  <2>2. TypeOK'
    BY <2>1 DEF DInv, TypeOK
  <2>3. ByteAByte' /\ PorUsar'
    BY <2>1, NadaLido
  <2>4. NomesCertos' /\ (EnvioCoerente /\ EsperaCoerente /\ SemByteAMais)'
    BY <2>1 DEF DInv, NomesCertos, EnvioCoerente, EsperaCoerente, SemByteAMais
  <2>5. QED BY <2>2, <2>3, <2>4 DEF DInv
<1>5. CASE Next /\ ~OpenFile /\ ~LeTamanhoLido /\ ~LeByte
  BY <1>5, DemaisPassos DEF Next
<1>6. QED BY <1>1, <1>2, <1>3, <1>4, <1>5

\* The inductive invariant: the descriptors, the read in progress and the bytes handed out
\* so far agree, whatever order the ports of disk.cpp are used in.
THEOREM DInvSempre == Spec => []DInv
<1>1. Init => DInv
  BY DInvInit
<1>2. DInv /\ [Next]_vars => DInv'
  BY DInvNext
<1>3. QED BY <1>1, <1>2, PTL DEF Spec

-----------------------------------------------------------------------------
(* The properties *)

\* The type invariant of the disk, whatever order its ports are used in.
THEOREM TiposDoDisco == Spec => []TypeOK
<1>1. DInv => TypeOK
  BY DEF DInv
<1>2. QED BY <1>1, DInvSempre, PTL

\* No byte is asked of a buffer that has none (the assertion of process_data_read).
THEOREM BufferTemByte == Spec => []SemByteAMais
<1>1. DInv => SemByteAMais
  BY DEF DInv
<1>2. QED BY <1>1, DInvSempre, PTL

\* No file is open twice and the current descriptor is one that is open.
THEOREM DescritoresValem == Spec => []DescritoresCoerentes
<1>1. DInv => DescritoresCoerentes
  BY DEF DInv, NomesCertos, DescritoresCoerentes, IsInjective
<1>2. QED BY <1>1, DInvSempre, PTL

\* A sequence that agrees with F byte by byte is the beginning of F.
LEMMA Comeco ==
    ASSUME NEW S, NEW F \in Seq(S), NEW s \in Seq(S), Len(s) <= Len(F),
           \A i \in 1 .. Len(s) : s[i] = F[i]
    PROVE  IsPrefix(s, F)
<1>1. Len(s) \in Nat /\ Len(F) \in Nat
  OBVIOUS
<1>2. \A i \in 1 .. Len(s) : s[i] \in S /\ F[i] \in S
  BY <1>1
<1>3. /\ SubSeq(s, 1, Len(s)) \in Seq(S)
      /\ Len(SubSeq(s, 1, Len(s))) = Len(s)
      /\ \A i \in 1 .. Len(s) : SubSeq(s, 1, Len(s))[i] = s[i]
  BY <1>1, <1>2, SubSeqProperties
<1>4. /\ SubSeq(F, 1, Len(s)) \in Seq(S)
      /\ Len(SubSeq(F, 1, Len(s))) = Len(s)
      /\ \A i \in 1 .. Len(s) : SubSeq(F, 1, Len(s))[i] = F[i]
  BY <1>1, <1>2, SubSeqProperties
<1>5. SubSeq(s, 1, Len(s)) = SubSeq(F, 1, Len(s))
  BY <1>3, <1>4, SeqEqual
<1>6. QED BY <1>5 DEF IsPrefix

\* What a driver got of a file, with what the buffer holds of it, is its beginning.
THEOREM NenhumBytePerdido == Spec => []ArquivoExato
<1>1. DInv => ArquivoExato
  <2> SUFFICES ASSUME DInv, NEW id \in abertos
               PROVE  LET resto == IF state = "UploadingFile" /\ fonte = id
                                   THEN SubSeq(buffer, count + 1, Len(buffer)) ELSE <<>>
                      IN  /\ IsPrefix(entregue[id] \o resto, Conteudo[arquivo[id]])
                          /\ Len(entregue[id] \o resto) = posicao[id]
    BY DEF ArquivoExato
  <2> DEFINE F == Conteudo[arquivo[id]]
             e == entregue[id]
             resto == IF state = "UploadingFile" /\ fonte = id
                      THEN SubSeq(buffer, count + 1, Len(buffer)) ELSE <<>>
             n == posicao[id] - Len(e)
  <2>1. F \in Seq(Bytes) /\ Len(F) \in Nat
    BY Constantes DEF DInv, NomesCertos
  <2>2. id \in Ids /\ e \in Seq(Bytes) /\ Len(e) \in Nat /\ buffer \in Seq(Bytes)
        /\ Len(buffer) \in Nat /\ count \in Nat
    BY AbertosSaoIds DEF DInv, TypeOK
  <2>3. /\ Len(e) <= Len(F) /\ \A i \in 1 .. Len(e) : e[i] = F[i]
        /\ posicao[id] <= Len(F)
    BY DEF DInv, ByteAByte, Lido
  <2>4. /\ resto \in Seq(Bytes) /\ n \in Nat /\ Len(resto) = n
        /\ \A i \in 1 .. n : resto[i] = F[Len(e) + i]
    <3>1. CASE state = "UploadingFile" /\ fonte = id
      <4>1. /\ count < Len(buffer) /\ posicao[id] = Len(e) + Len(buffer) - count
            /\ \A j \in count + 1 .. Len(buffer) : buffer[j] = F[Len(e) + j - count]
        BY <3>1 DEF DInv, ByteAByte, Seguem, EnvioCoerente
      <4>2. \A j \in count + 1 .. Len(buffer) : buffer[j] \in Bytes
        BY <2>2
      <4>3. resto = SubSeq(buffer, count + 1, Len(buffer))
        BY <3>1
      <4> HIDE DEF resto, F, e
      <4>4. /\ resto \in Seq(Bytes) /\ Len(resto) = Len(buffer) - (count + 1) + 1
            /\ \A i \in 1 .. Len(buffer) - (count + 1) + 1 : resto[i] = buffer[count + 1 + i - 1]
        BY <2>2, <4>1, <4>2, <4>3, SubSeqProperties
      <4>5. n = Len(buffer) - count /\ n \in Nat
        BY <2>2, <4>1
      <4> HIDE DEF n
      <4>6. ASSUME NEW i \in 1 .. n PROVE resto[i] = F[Len(e) + i]
        <5>1. resto[i] = buffer[count + i] /\ count + i \in count + 1 .. Len(buffer)
          BY <2>2, <4>4, <4>5
        <5>2. buffer[count + i] = F[Len(e) + (count + i) - count]
          BY <4>1, <5>1
        <5>3. Len(e) + (count + i) - count = Len(e) + i
          BY <2>2, <4>5
        <5>4. QED BY <5>1, <5>2, <5>3
      <4>7. Len(resto) = n
        BY <2>2, <4>4, <4>5
      <4>8. QED BY <4>4, <4>5, <4>6, <4>7
    <3>2. CASE ~(state = "UploadingFile" /\ fonte = id)
      <4>1. posicao[id] = Len(e)
        BY <3>2 DEF DInv, ByteAByte
      <4>2. resto = <<>>
        BY <3>2
      <4>3. <<>> \in Seq(Bytes) /\ Len(<<>>) = 0
        OBVIOUS
      <4>4. n = 0
        BY <2>2, <4>1
      <4> HIDE DEF n, resto, F, e
      <4>5. Len(resto) = 0
        BY <4>2, <4>3
      <4>6. QED BY <4>2, <4>3, <4>4, <4>5
    <3>3. QED BY <3>1, <3>2
  <2> HIDE DEF resto, F, e, n
  <2>5. /\ e \o resto \in Seq(Bytes) /\ Len(e \o resto) = Len(e) + n
        /\ \A i \in 1 .. Len(e) + n :
              (e \o resto)[i] = IF i <= Len(e) THEN e[i] ELSE resto[i - Len(e)]
    BY <2>2, <2>4, ConcatProperties
  <2>6. Len(e) + n = posicao[id] /\ posicao[id] \in Nat
    BY <2>2 DEF n, DInv, TypeOK
  <2>7. \A i \in 1 .. Len(e \o resto) : (e \o resto)[i] = F[i]
    <3>1. ASSUME NEW i \in 1 .. Len(e) + n PROVE (e \o resto)[i] = F[i]
      <4>1. CASE i <= Len(e)
        BY <2>2, <2>3, <2>4, <2>5, <4>1
      <4>2. CASE i > Len(e)
        <5>1. i - Len(e) \in 1 .. n /\ Len(e) + (i - Len(e)) = i
          BY <2>2, <2>4, <4>2
        <5>2. resto[i - Len(e)] = F[Len(e) + (i - Len(e))]
          BY <2>4, <5>1
        <5>3. (e \o resto)[i] = resto[i - Len(e)]
          BY <2>2, <2>4, <2>5, <4>2
        <5>4. QED BY <5>1, <5>2, <5>3
      <4>3. QED BY <2>2, <2>4, <4>1, <4>2
    <3>2. QED BY <2>5, <3>1
  <2>8. IsPrefix(e \o resto, F)
    BY <2>1, <2>3, <2>5, <2>6, <2>7, Comeco
  <2>9. QED BY <2>5, <2>6, <2>8 DEF e, resto, F
<1>2. QED BY <1>1, DInvSempre, PTL

\* A step that leaves the wait, of which TempoDeDisco speaks.
Espera == state = "ReadingFile" /\ state' # "ReadingFile" => espera >= disk_interrupt_cycles

\* The data come only after the cycles of the configuration.
THEOREM LeituraEspera == Spec => TempoDeDisco
<1>1. DInv /\ [Next]_vars => [Espera]_vars
  <2> SUFFICES ASSUME DInv, Next, state = "ReadingFile", state' # "ReadingFile"
               PROVE  espera >= disk_interrupt_cycles
    BY DEF Espera
  <2>1. Disk_run_cycle
    BY DEF Next, SetFname, OpenFile_aberto, OpenFile, CloseFile, ReadFile, GetFileSize,
           EscreveFileID, LeFileID, EscreveTamanho, EscreveNome, LeTamanhoLido, LeByte,
           Excecao, Comando
  <2>2. count >= disk_interrupt_cycles
    BY <2>1 DEF Disk_run_cycle
  <2>3. QED BY <2>2 DEF DInv, EsperaCoerente
<1>2. Spec => [][Espera]_vars
  BY <1>1, DInvSempre, PTL DEF Spec
<1>3. QED BY <1>2 DEF TempoDeDisco, Espera
=============================================================================
