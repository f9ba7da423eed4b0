-------------------------------- MODULE Disk --------------------------------
(***************************************************************************)
(* arch/disk.cpp: the disk, seen from its ports.  A driver gives a command,  *)
(* waits for the state to change and moves the bytes of a file one by one.   *)
(* The kernel of this repository has no driver: any order of reads and       *)
(* writes of the ports is allowed here, those the disk answers with an       *)
(* exception included.  A name is written to the data port with its          *)
(* terminating zero in one action; ports whose reading changes nothing       *)
(* (DiskState, DiskError) are left out.                                      *)
(***************************************************************************)
EXTENDS Integers, SequencesExt, FiniteSetsExt

CONSTANTS
    Arquivos,               \* names of files that can be opened
    Ausente,                \* a name no file has, the empty one included
    Conteudo,               \* Conteudo[a]: the bytes of file a
    Tamanhos,               \* the amounts a driver can ask for
    disk_interrupt_cycles,
    UINT16_MAX,             \* largest uint16_t, which is not a valid id
    NULL                    \* nullptr

ASSUME DiskAssumption ==
    /\ Ausente \notin Arquivos
    /\ \A a \in Arquivos : Conteudo[a] \in Seq(UNION {ToSet(Conteudo[b]) : b \in Arquivos})
    /\ Tamanhos \subseteq Nat /\ Tamanhos # {} /\ disk_interrupt_cycles \in Nat
    /\ UINT16_MAX \in Nat /\ UINT16_MAX > 100

Ids == 100 .. UINT16_MAX - 1

VARIABLES
    state,
    count,           \* cycles waited, and later bytes uploaded
    next_id, fname,
    abertos,         \* the ids in file_descriptors
    arquivo, posicao, falhou,   \* of each descriptor: its name, how far it was read,
                                \* and whether its stream is in a failed state
    current_file_descriptor,
    data_written, data_result, buffer, error,
    excecao,         \* the exception that ended the machine
    fonte,           \* whose bytes the buffer holds (history)
    entregue,        \* bytes of each descriptor the driver got (history)
    espera           \* cycles since the command to read (history)

fluxoVars   == <<posicao, falhou>>
arquivoVars == <<next_id, fname, abertos, arquivo, fluxoVars>>
dadosVars   == <<data_written, data_result, buffer>>
historiaVars == <<fonte, entregue, espera>>
vars == <<state, count, arquivoVars, current_file_descriptor, dadosVars, error, excecao,
          historiaVars>>

atual == current_file_descriptor
ligado == excecao = "nenhuma"

\* The file system: a name can be opened if a file has it.
Existe(nome) == nome \in Arquivos

-----------------------------------------------------------------------------
(* The cycles of the disk *)

\* While it waits, it counts; after that it asks for an interrupt in every cycle until
\* the CPU accepts it, which is the only step that leaves the state.
Disk_run_cycle ==
    /\ ligado
    /\ state = "ReadingFile"
    /\ IF count >= disk_interrupt_cycles
       THEN count' = 0 /\ state' = "UploadingFileSize" /\ UNCHANGED espera
       ELSE count' = count + 1 /\ espera' = espera + 1 /\ UNCHANGED state
    /\ UNCHANGED <<arquivoVars, atual, dadosVars, error, excecao, fonte, entregue>>

-----------------------------------------------------------------------------
(* Commands: ignored unless the disk is idle *)

Comando == ligado /\ state = "Idle"

SetFname ==
    /\ Comando
    /\ fname' = Ausente
    /\ state' = "SettingFname"
    /\ UNCHANGED <<count, next_id, abertos, arquivo, fluxoVars, atual, dadosVars, error,
                   excecao, historiaVars>>

\* Fault: the name is compared with that of the current file only.
JaAberto_so_atual == atual # NULL /\ arquivo[atual] = fname

JaAberto == \E id \in abertos : arquivo[id] = fname

OpenFile_aberto ==
    /\ Comando
    /\ JaAberto
    /\ current_file_descriptor' = NULL
    /\ error' = "FileAlreadyOpen"
    /\ UNCHANGED <<state, count, arquivoVars, dadosVars, excecao, historiaVars>>

\* Fault: a file that opens does not spend its id.
id_seguinte_se_falha == IF Existe(fname) THEN next_id ELSE next_id + 1

id_seguinte == next_id + 1

\* An id is spent and the name is moved away, whether the file opens or not.
OpenFile ==
    /\ Comando
    /\ ~JaAberto
    /\ next_id < UINT16_MAX
    /\ next_id' = id_seguinte
    /\ fname' = Ausente
    /\ IF Existe(fname)
       THEN /\ abertos' = abertos \cup {next_id}
            /\ arquivo' = [arquivo EXCEPT ![next_id] = fname]
            /\ current_file_descriptor' = next_id
            /\ error' = "NoError"
       ELSE /\ current_file_descriptor' = NULL
            /\ error' = "CannotOpenFile"
            /\ UNCHANGED <<abertos, arquivo>>
    /\ UNCHANGED <<state, count, fluxoVars, dadosVars, excecao, historiaVars>>

SemDescritor ==
    /\ atual = NULL
    /\ error' = "InvalidFileDescriptor"

CloseFile ==
    /\ Comando
    /\ IF atual = NULL
       THEN SemDescritor /\ UNCHANGED <<abertos, atual>>
       ELSE /\ abertos' = abertos \ {atual}
            /\ current_file_descriptor' = NULL
            /\ error' = "NoError"
    /\ UNCHANGED <<state, count, next_id, fname, arquivo, fluxoVars, dadosVars, excecao,
                   historiaVars>>

\* Fault: the count of the bytes uploaded last is not cleared.
ReadFile_sem_zerar ==
    /\ Comando
    /\ IF atual = NULL
       THEN SemDescritor /\ UNCHANGED <<state, count, espera>>
       ELSE /\ state' = "ReadingFile"
            /\ error' = "NoError"
            /\ espera' = 0
            /\ UNCHANGED count
    /\ UNCHANGED <<arquivoVars, atual, dadosVars, excecao, fonte, entregue>>

ReadFile ==
    /\ Comando
    /\ IF atual = NULL
       THEN SemDescritor /\ UNCHANGED <<state, count, espera>>
       ELSE /\ state' = "ReadingFile"
            /\ count' = 0
            /\ error' = "NoError"
            /\ espera' = 0
    /\ UNCHANGED <<arquivoVars, atual, dadosVars, excecao, fonte, entregue>>

\* Of a stream that failed, tellg is -1.
GetFileSize ==
    /\ Comando
    /\ IF atual = NULL
       THEN SemDescritor /\ UNCHANGED data_result
       ELSE /\ data_result' = IF falhou[atual] THEN UINT16_MAX
                           ELSE Len(Conteudo[arquivo[atual]]) % (UINT16_MAX + 1)
            /\ error' = "NoError"
    /\ UNCHANGED <<state, count, arquivoVars, atual, data_written, buffer, excecao,
                   historiaVars>>

-----------------------------------------------------------------------------
(* The port DiskFileID *)

\* Writing it changes the current file in any state, in the middle of a read too.
EscreveFileID(id) ==
    /\ ligado
    /\ IF id \in abertos
       THEN current_file_descriptor' = id /\ error' = "NoError"
       ELSE current_file_descriptor' = NULL /\ error' = "InvalidFileDescriptor"
    /\ UNCHANGED <<state, count, arquivoVars, dadosVars, excecao, historiaVars>>

LeFileID ==
    /\ ligado
    /\ IF atual = NULL THEN SemDescritor ELSE error' = "NoError"
    /\ UNCHANGED <<state, count, arquivoVars, atual, dadosVars, excecao, historiaVars>>

-----------------------------------------------------------------------------
(* The port DiskData *)

EscreveTamanho(n) ==
    /\ Comando
    /\ data_written' = n
    /\ UNCHANGED <<state, count, arquivoVars, atual, data_result, buffer, error, excecao,
                   historiaVars>>

EscreveNome(nome) ==
    /\ ligado
    /\ state = "SettingFname"
    /\ fname' = nome
    /\ state' = "Idle"
    /\ UNCHANGED <<count, next_id, abertos, arquivo, fluxoVars, atual, dadosVars, error,
                   excecao, historiaVars>>

\* Fault: every read starts at the first byte.
Lidos_do_inicio(n) ==
    LET bytes == Conteudo[arquivo[atual]] IN
    IF falhou[atual] THEN <<>> ELSE SubSeq(bytes, 1, Min({n, Len(bytes)}))

\* Bytes a read of n gets: none once the stream has failed.
Lidos(n) ==
    LET bytes == Conteudo[arquivo[atual]] IN
    IF falhou[atual] THEN <<>>
    ELSE SubSeq(bytes, posicao[atual] + 1, Min({posicao[atual] + n, Len(bytes)}))

\* The first read of DiskData after the wait: the file is read now, from the file that
\* is current now, and the driver learns how many bytes there are.
LeTamanhoLido ==
    /\ ligado
    /\ state = "UploadingFileSize"
    /\ IF atual = NULL
       THEN SemDescritor /\ UNCHANGED <<state, count, posicao, falhou, buffer, fonte>>
       ELSE LET lidos == Lidos(data_written) IN
            /\ buffer' = lidos
            /\ posicao' = [posicao EXCEPT ![atual] = @ + Len(lidos)]
            /\ falhou' = [falhou EXCEPT ![atual] = @ \/ Len(lidos) < data_written]
            /\ fonte' = atual
            /\ error' = "NoError"
            /\ state' = IF lidos # <<>> THEN "UploadingFile" ELSE "Idle"
            /\ count' = IF lidos # <<>> THEN 0 ELSE count
    /\ UNCHANGED <<next_id, fname, abertos, arquivo, atual, data_written, data_result,
                   excecao, entregue, espera>>

\* Fault: the disk goes on uploading after the last byte.
LeByte_sem_fim ==
    /\ ligado
    /\ state = "UploadingFile"
    /\ IF count < Len(buffer)
       THEN /\ count' = count + 1
            /\ entregue' = [entregue EXCEPT ![fonte] = Append(@, buffer[count + 1])]
            /\ UNCHANGED <<state, excecao>>
       ELSE excecao' = "buffer" /\ UNCHANGED <<state, count, entregue>>
    /\ UNCHANGED <<arquivoVars, atual, dadosVars, error, fonte, espera>>

LeByte ==
    /\ ligado
    /\ state = "UploadingFile"
    /\ IF count < Len(buffer)
       THEN /\ count' = count + 1
            /\ entregue' = [entregue EXCEPT ![fonte] = Append(@, buffer[count + 1])]
            /\ state' = IF count + 1 = Len(buffer) THEN "Idle" ELSE state
            /\ UNCHANGED excecao
       ELSE excecao' = "buffer" /\ UNCHANGED <<state, count, entregue>>
    /\ UNCHANGED <<arquivoVars, atual, dadosVars, error, fonte, espera>>

\* What the disk answers with an exception, which ends the program: data read or
\* written in a state that has none, the commands WriteFile and SeekFilePos, which are
\* declared but not implemented, and an id out of range.
Excecao(qual) ==
    /\ ligado
    /\ \/ qual = "estado" /\ state # "Idle"
       \/ qual = "comando" /\ state = "Idle"
       \/ qual = "id" /\ state = "Idle" /\ ~JaAberto /\ next_id >= UINT16_MAX
    /\ excecao' = qual
    /\ UNCHANGED <<state, count, arquivoVars, atual, dadosVars, error, historiaVars>>

-----------------------------------------------------------------------------
\* The amount to read and the result are not initialized.
Init ==
    /\ state = "Idle"
    /\ count = 0
    /\ next_id = 100
    /\ fname = Ausente
    /\ abertos = {}
    /\ arquivo = [id \in Ids |-> Ausente]
    /\ posicao = [id \in Ids |-> 0]
    /\ falhou = [id \in Ids |-> FALSE]
    /\ current_file_descriptor = NULL
    /\ data_written \in Tamanhos
    /\ data_result = 0
    /\ buffer = <<>>
    /\ error = "NoError"
    /\ excecao = "nenhuma"
    /\ fonte = NULL
    /\ entregue = [id \in Ids |-> <<>>]
    /\ espera = 0

Next ==
    \/ Disk_run_cycle
    \/ SetFname
    \/ OpenFile_aberto
    \/ OpenFile
    \/ CloseFile
    \/ ReadFile
    \/ GetFileSize
    \/ \E id \in Ids : EscreveFileID(id)
    \/ LeFileID
    \/ \E n \in Tamanhos : EscreveTamanho(n)
    \/ \E nome \in Arquivos \cup {Ausente} : EscreveNome(nome)
    \/ LeTamanhoLido
    \/ LeByte
    \/ \E qual \in {"estado", "comando", "id"} : Excecao(qual)

Spec == Init /\ [][Next]_vars

-----------------------------------------------------------------------------
(* Properties *)

Estados == {"Idle", "SettingFname", "ReadingFile", "UploadingFileSize", "UploadingFile"}
Erros   == {"NoError", "CannotOpenFile", "FileAlreadyOpen", "InvalidFileDescriptor"}
Bytes   == UNION {ToSet(Conteudo[a]) : a \in Arquivos}

\* Types of the variables.
TypeOK ==
    /\ state \in Estados /\ error \in Erros /\ count \in Nat
    /\ next_id \in 100 .. UINT16_MAX /\ fname \in Arquivos \cup {Ausente}
    /\ abertos \subseteq 100 .. next_id - 1
    /\ arquivo \in [Ids -> Arquivos \cup {Ausente}]
    /\ posicao \in [Ids -> Nat] /\ falhou \in [Ids -> BOOLEAN]
    /\ atual \in Ids \cup {NULL} /\ fonte \in Ids \cup {NULL}
    /\ data_written \in Tamanhos /\ data_result \in 0 .. UINT16_MAX
    /\ buffer \in Seq(Bytes) /\ entregue \in [Ids -> Seq(Bytes)] /\ espera \in Nat
    /\ excecao \in {"nenhuma", "estado", "comando", "id", "buffer"}

\* Whatever order the ports are used in (reads cut short, another file made current
\* in the middle of a read, a file closed and opened again), what a driver got of a
\* descriptor, with what the buffer still holds of it, is the beginning of its file:
\* no byte is skipped, doubled or taken from another file (process_data_read).
ArquivoExato ==
    \A id \in abertos :
        LET resto == IF state = "UploadingFile" /\ fonte = id
                     THEN SubSeq(buffer, count + 1, Len(buffer)) ELSE <<>>
        IN  /\ IsPrefix(entregue[id] \o resto, Conteudo[arquivo[id]])
            /\ Len(entregue[id] \o resto) = posicao[id]

\* No file is open twice, and the pointer to the current descriptor is never left
\* pointing to one that was erased (process_cmd, write to DiskFileID).
DescritoresCoerentes ==
    /\ IsInjective([id \in abertos |-> arquivo[id]])
    /\ atual # NULL => atual \in abertos

\* The assertion of process_data_read holds: a byte is asked of the buffer only while
\* there is one, although count is also the counter of the cycles waited.
SemByteAMais == excecao # "buffer"

\* A read takes its time: the disk never offers the data before it has waited the
\* cycles of the configuration since the command, whatever count was used for before.
TempoDeDisco ==
    [][state = "ReadingFile" /\ state' # "ReadingFile" => espera >= disk_interrupt_cycles]_vars
=============================================================================
