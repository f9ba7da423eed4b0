---------------------------- MODULE Escalonador -----------------------------
(***************************************************************************)
(* The life of processes: os/process_manager.cpp, os/process.cpp and the    *)
(* part of os/os.cpp that creates, schedules, puts to sleep and ends them.   *)
(* An action is one instruction, one interrupt or one command, run to its    *)
(* end: interrupts are taken between instructions and the kernel is not      *)
(* preempted.  Page tables appear only as "the table of process p".          *)
(*                                                                           *)
(* A Process object is identified by its address.  An address is free again  *)
(* once the object is deleted, and a later object may get it: this is how a  *)
(* pointer that was not updated can dangle or name another process.          *)
(***************************************************************************)
EXTENDS Listas

CONSTANTS
    Processos,     \* addresses of Process objects
    Idle,          \* the address of the idle process created by boot
    NULL,          \* nullptr
    PID_MOD,       \* number of different pids (2^16 in the code)
    TEMPO_MOD,     \* number of different values of a time (2^16 in the code)
    TEMPO32_MOD,   \* number of different values of a difference of times (2^32)
    COMECO,        \* seconds of the clock when the kernel boots
    Contextos,     \* what pc and registers can be
    Novo,          \* the context of a new process
    Numeros,       \* the numbers a user can give to the command kill
    Segundos,      \* the times a process can ask to sleep
    MAX_CARGAS,    \* bound: processes created after boot
    MAX_TEMPO,     \* bound: seconds since boot
    IdleInvalida   \* whether idle.bin can execute an invalid instruction

ASSUME EscalonadorAssumption ==
    /\ Idle \in Processos /\ NULL \notin Processos
    /\ PID_MOD \in Nat \ {0} /\ TEMPO_MOD \in Nat \ {0}
    /\ TEMPO32_MOD \in Nat /\ TEMPO32_MOD >= TEMPO_MOD /\ COMECO \in 0 .. TEMPO_MOD - 1
    /\ Novo \in Contextos
    /\ Numeros \subseteq Nat /\ Segundos \subseteq 0 .. TEMPO_MOD - 1
    /\ MAX_CARGAS \in Nat /\ MAX_TEMPO \in Nat
    /\ IdleInvalida \in BOOLEAN

VARIABLES
    vivos,             \* addresses that hold an object
    idle_bin,          \* objects whose name is idle.bin
    pid, estado, dormir_ate,
    contexto,          \* pc and registers saved in the object
    idle,              \* the global pointer idle
    processo_rodando_no_momento,
    processos_rodando_novo,
    processos_dormindo,
    cpu_contexto,      \* pc and registers of the CPU
    cpu_tabela,        \* whose page table the CPU translates with; NULL if it was deleted
    proximo_pid,
    agora,             \* seconds since boot
    ligado,            \* the computer runs
    falha,             \* an object used after it was deleted, or deleted twice
    feito,             \* where the last instruction of each process left it (history)
    prazo              \* when each sleeper has slept enough (history)

vars == <<vivos, idle_bin, pid, estado, dormir_ate, contexto, idle,
          processo_rodando_no_momento, processos_rodando_novo, processos_dormindo,
          cpu_contexto, cpu_tabela, proximo_pid, agora, ligado, falha, feito, prazo>>

rodando == processo_rodando_no_momento

\* get_tempo_sistema: the clock is read through a 16-bit port, and the difference is of
\* 32 bits: once the clock starts again from 0 it is larger than any time.
tempo_sistema == (((agora + COMECO) % TEMPO_MOD) - COMECO) % TEMPO32_MOD

-----------------------------------------------------------------------------
(* The ready list *)

\* Fault: nothing is saved.
salvar_nada(salvos, p) == salvos

\* salvar_contexto
salvar_contexto(salvos, p) == [salvos EXCEPT ![p] = cpu_contexto]

\* Fault: the process that leaves the CPU goes to the front.
fila_com_na_frente(novos, atual) ==
    IF atual \in {NULL, idle} THEN novos ELSE <<atual>> \o novos

\* The ready list when atual leaves the CPU; idle is never in it.
fila_com(novos, atual) == IF atual \in {NULL, idle} THEN novos ELSE Append(novos, atual)

\* configurar_proximo_processo: novos and estados are the ready list and the states
\* when it is called, atual is the process to take off the CPU, or NULL, and salvos
\* the contexts saved so far; ficam are the objects that exist.
configurar_proximo_processo(novos, estados, atual, salvos, ficam) ==
    LET fila     == fila_com(novos, atual)
        proximo  == IF fila = <<>> THEN idle ELSE Head(fila)
        contextos == IF atual = NULL THEN salvos ELSE salvar_contexto(salvos, atual)
    IN
    /\ processos_rodando_novo' = IF fila = <<>> THEN <<>> ELSE Tail(fila)
    /\ processo_rodando_no_momento' = proximo
    /\ estado' = [p \in Processos |-> IF p = proximo THEN "running"
                                      ELSE IF p = atual \/ p \notin ficam THEN "ready"
                                      ELSE estados[p]]
    /\ contexto' = [p \in Processos |-> IF p \in ficam THEN contextos[p] ELSE Novo]
    /\ cpu_contexto' = contextos[proximo]
    /\ cpu_tabela' = proximo
    /\ falha' = IF proximo \in ficam THEN "nenhuma" ELSE "idle_pendente"

\* Fault: a sleeper wakes one second early.
AcordaAntes(p) == dormir_ate[p] <= tempo_sistema + 1

\* Fault: sleepers are looked at only when idle has the CPU.
AcordaSoEmIdle(p) == rodando = idle /\ dormir_ate[p] <= tempo_sistema

Acorda(p) == dormir_ate[p] <= tempo_sistema

\* Fault: those that wake are put in front of those that were waiting.
acordados_na_frente(novos, acordados) == acordados \o novos

\* The ready list and the states after acordar_processos_dormindo.
acordados_no_fim(novos, acordados) == novos \o acordados

\* Fault: those that wake keep the state of a sleeper.
estados_iguais(acordados) == estado

estados_acordados(acordados) ==
    [p \in Processos |-> IF p \in ToSet(acordados) THEN "ready" ELSE estado[p]]

\* acordar_processos_dormindo, then configurar_proximo_processo.
tratar_timer_com(novos, dormindo, atual, ficam) ==
    LET acordados == Filtra(dormindo, {p \in Processos : Acorda(p)}) IN
    /\ processos_dormindo' = Filtra(dormindo, {p \in Processos : ~Acorda(p)})
    /\ configurar_proximo_processo(acordados_no_fim(novos, acordados),
                                   estados_acordados(acordados), atual, contexto, ficam)

\* Fault: the list keeps the process.
remover_nada(lista, p) == lista

\* remover_processo on the ready list; of the sleepers it removes the first that is p.
remover_processo(lista, p) == Filtra(lista, Processos \ {p})

funcionando == ligado /\ falha = "nenhuma"

\* Deleting p: what it held becomes what an address without an object holds.
Apaga(p) ==
    /\ vivos' = vivos \ {p}
    /\ idle_bin' = idle_bin \ {p}
    /\ pid' = [pid EXCEPT ![p] = 0]
    /\ dormir_ate' = [dormir_ate EXCEPT ![p] = 0]
    /\ feito' = [feito EXCEPT ![p] = Novo]
    /\ prazo' = [prazo EXCEPT ![p] = 0]

-----------------------------------------------------------------------------
(* The CPU *)

\* An instruction that takes the context to c, and does not change the processes.
Executa(c) ==
    /\ funcionando
    /\ rodando # NULL
    /\ cpu_contexto' = c
    /\ feito' = [feito EXCEPT ![rodando] = c]
    /\ UNCHANGED <<vivos, idle_bin, pid, estado, dormir_ate, contexto, idle,
                   processo_rodando_no_momento, processos_rodando_novo,
                   processos_dormindo, cpu_tabela, proximo_pid, agora, ligado, falha, prazo>>

\* With nothing running the CPU goes on with the page table of a process that ended.
ExecutaSemProcesso ==
    /\ funcionando
    /\ rodando = NULL /\ cpu_tabela = NULL
    /\ falha' = "tabela_liberada"
    /\ UNCHANGED <<vivos, idle_bin, pid, estado, dormir_ate, contexto, idle,
                   processo_rodando_no_momento, processos_rodando_novo,
                   processos_dormindo, cpu_contexto, cpu_tabela, proximo_pid, agora,
                   ligado, feito, prazo>>

tratar_timer ==
    /\ funcionando
    /\ tratar_timer_com(processos_rodando_novo, processos_dormindo, rodando, vivos)
    /\ UNCHANGED <<vivos, idle_bin, pid, dormir_ate, idle, proximo_pid, agora, ligado,
                   feito, prazo>>

\* The clock, which the kernel only reads.
PassaSegundo ==
    /\ ligado
    /\ agora < MAX_TEMPO
    /\ agora' = agora + 1
    /\ UNCHANGED <<vivos, idle_bin, pid, estado, dormir_ate, contexto, idle,
                   processo_rodando_no_momento, processos_rodando_novo,
                   processos_dormindo, cpu_contexto, cpu_tabela, proximo_pid, ligado,
                   falha, feito, prazo>>

-----------------------------------------------------------------------------
(* System calls; idle.bin makes none *)

syscall_0_fechar_processo ==
    /\ funcionando
    /\ rodando \notin {NULL} \cup idle_bin
    /\ Apaga(rodando)
    /\ processos_dormindo' = RemoveFirst(processos_dormindo, rodando)
    /\ configurar_proximo_processo(remover_processo(processos_rodando_novo, rodando),
                                   estado, NULL, contexto, vivos \ {rodando})
    /\ UNCHANGED <<idle, proximo_pid, agora, ligado>>

\* Fault: the time is not cut to 16 bits.
ate_sem_cortar(segundos) == tempo_sistema + segundos

\* dormir_processo keeps the time to wake in 16 bits.
ate(segundos) == (tempo_sistema + segundos) % TEMPO_MOD

\* The context saved is c, that with the program counter past the instruction.
syscall_6_dormir_processo(segundos, c) ==
    /\ funcionando
    /\ rodando \notin {NULL} \cup idle_bin
    /\ dormir_ate' = [dormir_ate EXCEPT ![rodando] = ate(segundos)]
    /\ prazo' = [prazo EXCEPT ![rodando] = agora + segundos]
    /\ feito' = [feito EXCEPT ![rodando] = c]
    /\ processos_dormindo' = Append(processos_dormindo, rodando)
    /\ configurar_proximo_processo(
          RemoveFirst(processos_rodando_novo, rodando),
          [estado EXCEPT ![rodando] = "sleeping"], NULL,
          [contexto EXCEPT ![rodando] = c], vivos)
    /\ UNCHANGED <<vivos, idle_bin, pid, idle, proximo_pid, agora, ligado>>

-----------------------------------------------------------------------------
(* Loading *)

\* Fault: the counter of pids does not move.
pid_novo_igual == proximo_pid

pid_novo == (proximo_pid + 1) % PID_MOD

\* Fault: a process that is loaded waits even when idle has the CPU.
cpu_nunca_livre(atual) == FALSE

cpu_livre(atual) == atual = idle

\* criar_e_configurar_processo at address p, then load_program.  The new process is
\* put at the end of the ready list; when idle has the CPU the first of the list
\* becomes the running process, while the CPU gets the context of the new one.  The
\* command load refuses idle.bin.
load_program(p, nome, atual, novos, ficam) ==
    LET fila == Append(novos, p) IN
    /\ p \notin ficam
    /\ proximo_pid < MAX_CARGAS + 2
    /\ proximo_pid' = pid_novo
    /\ pid' = [q \in Processos |-> IF q = p THEN pid_novo
                                 ELSE IF q \in ficam THEN pid[q] ELSE 0]
    /\ idle_bin' = (idle_bin \cap ficam) \cup (IF nome = "idle.bin" THEN {p} ELSE {})
    /\ vivos' = ficam \cup {p}
    /\ LET Limpo(f, nada) == [q \in Processos |-> IF q \in ficam THEN f[q] ELSE nada] IN
       /\ contexto' = Limpo(contexto, Novo)
       /\ dormir_ate' = Limpo(dormir_ate, 0)
       /\ feito' = Limpo(feito, Novo)
       /\ prazo' = Limpo(prazo, 0)
    /\ IF cpu_livre(atual)
       THEN /\ processo_rodando_no_momento' = Head(fila)
            /\ processos_rodando_novo' = Tail(fila)
            /\ estado' = [estado EXCEPT ![p] = "running"]
            /\ cpu_contexto' = Novo
            /\ cpu_tabela' = p
       ELSE /\ processo_rodando_no_momento' = atual
            /\ processos_rodando_novo' = fila
            /\ estado' = [estado EXCEPT ![p] = "ready"]
            /\ UNCHANGED cpu_contexto
            /\ cpu_tabela' = IF cpu_tabela \in ficam THEN cpu_tabela ELSE NULL

\* At the address a pointer idle that dangles still holds, the new process would be
\* taken for idle: the model stops there.
ComandoLoad(p) ==
    /\ funcionando
    /\ load_program(p, "outro.bin", rodando, processos_rodando_novo, vivos)
    /\ falha' = IF p = idle THEN "idle_trocada" ELSE "nenhuma"
    /\ UNCHANGED <<idle, processos_dormindo, agora, ligado>>

\* There are not enough frames: the pid is spent.
ComandoLoadFalha ==
    /\ funcionando
    /\ proximo_pid < MAX_CARGAS + 2
    /\ proximo_pid' = pid_novo
    /\ UNCHANGED <<vivos, idle_bin, pid, estado, dormir_ate, contexto, idle,
                   processo_rodando_no_momento, processos_rodando_novo,
                   processos_dormindo, cpu_contexto, cpu_tabela, agora, ligado, falha,
                   feito, prazo>>

\* load of a file that cannot be read, kill or timer with what is not a number: the
\* exception reaches main, which ends the program.
ComandoComExcecao ==
    /\ funcionando
    /\ ligado' = FALSE
    /\ UNCHANGED <<vivos, idle_bin, pid, estado, dormir_ate, contexto, idle,
                   processo_rodando_no_momento, processos_rodando_novo,
                   processos_dormindo, cpu_contexto, cpu_tabela, proximo_pid, agora,
                   falha, feito, prazo>>

-----------------------------------------------------------------------------
(* Ending processes *)

\* encontrar_por_pid: the ready list first, then the sleepers.  Its parameter has 16
\* bits, while the command compares 32.
encontrar_por_pid(n) ==
    LET achados == Filtra(processos_rodando_novo \o processos_dormindo,
                          {p \in Processos : pid[p] = n % PID_MOD})
    IN  IF achados = <<>> THEN NULL ELSE Head(achados)

\* Fault: idle is not spared.
AlvoComIdle(n) ==
    IF rodando # NULL /\ pid[rodando] = n THEN rodando ELSE encontrar_por_pid(n)

\* The process that ends when the user, or the kernel, kills pid n.
Alvo(n) ==
    IF pid[idle] = n THEN NULL
    ELSE IF rodando # NULL /\ pid[rodando] = n THEN rodando
    ELSE encontrar_por_pid(n)

kill_process_pid(n) ==
    LET alvo == Alvo(n) IN
    /\ funcionando
    /\ idle \in vivos
    /\ alvo # NULL
    /\ Apaga(alvo)
    /\ tratar_timer_com(remover_processo(processos_rodando_novo, alvo),
                        RemoveFirst(processos_dormindo, alvo),
                        IF alvo = rodando THEN NULL ELSE rodando, vivos \ {alvo})
    /\ UNCHANGED <<idle, proximo_pid, agora, ligado>>

\* Any kill reads the pid of idle first, also of an idle that was deleted.
kill_process_pid_sem_idle ==
    /\ funcionando
    /\ idle \notin vivos
    /\ falha' = "idle_pendente"
    /\ UNCHANGED <<vivos, idle_bin, pid, estado, dormir_ate, contexto, idle,
                   processo_rodando_no_momento, processos_rodando_novo,
                   processos_dormindo, cpu_contexto, cpu_tabela, proximo_pid, agora,
                   ligado, feito, prazo>>

\* The command kill without a number, and the fatal exceptions of a process.
kill_process ==
    /\ rodando \notin {NULL, idle}
    /\ kill_process_pid(pid[rodando])

\* A page fault that cannot be served and an invalid instruction end any process but
\* idle.bin; a protection fault ends any process but the one idle points to.
tratar_excecao(tipo) ==
    /\ rodando # NULL
    /\ tipo \in {"VmemPageFault", "GPFinvalidInstruction"} => rodando \notin idle_bin
    /\ kill_process

\* An invalid instruction of idle.bin: the object is deleted and the file loaded
\* again, as one more process; the pointer idle is not updated, and nothing is
\* running until the next interrupt of the timer.
RecarregaIdle(p) ==
    /\ funcionando
    /\ IdleInvalida
    /\ rodando \in idle_bin
    /\ processos_dormindo' = RemoveFirst(processos_dormindo, rodando)
    /\ load_program(p, "idle.bin", NULL, remover_processo(processos_rodando_novo, rodando),
                    vivos \ {rodando})
    /\ UNCHANGED <<idle, agora, ligado, falha>>

\* shutdown: idle is deleted first and its pointer cleared, so that the comparison
\* with idle that should spare a second deletion does not.
ComandoExit ==
    /\ funcionando
    /\ ligado' = FALSE
    /\ vivos' = {}
    /\ idle' = NULL
    /\ processo_rodando_no_momento' = NULL
    /\ processos_rodando_novo' = <<>>
    /\ processos_dormindo' = <<>>
    /\ falha' = IF idle \notin vivos THEN "idle_pendente"
                ELSE IF rodando = idle THEN "liberacao_dupla" ELSE "nenhuma"
    /\ UNCHANGED <<idle_bin, pid, estado, dormir_ate, contexto, cpu_contexto, cpu_tabela,
                   proximo_pid, agora, feito, prazo>>

-----------------------------------------------------------------------------
\* boot: the first pid is 2.
Init ==
    /\ vivos = {Idle}
    /\ idle_bin = {Idle}
    /\ pid = [p \in Processos |-> IF p = Idle THEN 2 % PID_MOD ELSE 0]
    /\ estado = [p \in Processos |-> IF p = Idle THEN "running" ELSE "ready"]
    /\ dormir_ate = [p \in Processos |-> 0]
    /\ contexto = [p \in Processos |-> Novo]
    /\ idle = Idle
    /\ processo_rodando_no_momento = Idle
    /\ processos_rodando_novo = <<>>
    /\ processos_dormindo = <<>>
    /\ cpu_contexto = Novo
    /\ cpu_tabela = Idle
    /\ proximo_pid = 2 % PID_MOD
    /\ agora = 0
    /\ ligado = TRUE
    /\ falha = "nenhuma"
    /\ feito = [p \in Processos |-> Novo]
    /\ prazo = [p \in Processos |-> 0]

Excecoes == {"VmemPageFault", "VmemGPFnotReadable", "VmemGPFnotWritable",
             "VmemGPFnotExecutable", "GPFinvalidInstruction"}

Next ==
    \/ \E c \in Contextos : Executa(c)
    \/ ExecutaSemProcesso
    \/ tratar_timer
    \/ PassaSegundo
    \/ syscall_0_fechar_processo
    \/ \E s \in Segundos, c \in Contextos : syscall_6_dormir_processo(s, c)
    \/ \E p \in Processos : ComandoLoad(p)
    \/ ComandoLoadFalha
    \/ ComandoComExcecao
    \/ \E n \in Numeros : kill_process_pid(n)
    \/ kill_process_pid_sem_idle
    \/ kill_process
    \/ \E tipo \in Excecoes : tratar_excecao(tipo)
    \/ \E p \in Processos : RecarregaIdle(p)
    \/ ComandoExit

Spec == Init /\ [][Next]_vars
SpecJusta == Spec /\ WF_vars(tratar_timer) /\ WF_vars(PassaSegundo)

-----------------------------------------------------------------------------
(* Properties *)

prontos   == ToSet(processos_rodando_novo)
dormentes == ToSet(processos_dormindo)

\* Types of the variables.
TypeOK ==
    /\ vivos \subseteq Processos /\ idle_bin \subseteq Processos
    /\ pid \in [Processos -> 0 .. PID_MOD - 1] /\ proximo_pid \in 0 .. PID_MOD - 1
    /\ estado \in [Processos -> {"ready", "running", "sleeping"}]
    /\ dormir_ate \in [Processos -> 0 .. TEMPO_MOD - 1]
    /\ contexto \in [Processos -> Contextos] /\ cpu_contexto \in Contextos
    /\ idle \in Processos \cup {NULL} /\ rodando \in Processos \cup {NULL}
    /\ processos_rodando_novo \in Seq(Processos) /\ processos_dormindo \in Seq(Processos)
    /\ cpu_tabela \in Processos \cup {NULL}
    /\ agora \in 0 .. MAX_TEMPO /\ ligado \in BOOLEAN
    /\ falha \in {"nenhuma", "idle_pendente", "idle_trocada", "tabela_liberada",
                 "liberacao_dupla"}
    /\ feito \in [Processos -> Contextos] /\ prazo \in [Processos -> Nat]

\* Whatever mix of timers, sleeps, loads and kills, no process is lost or held twice:
\* each object but idle is in exactly one place, the CPU, the ready list or the list
\* of sleepers, once, and no list keeps a deleted object (remover_processo,
\* configurar_proximo_processo, acordar_processos_dormindo, load_program).
UmLugarSo ==
    funcionando =>
        /\ IsInjective(processos_rodando_novo) /\ IsInjective(processos_dormindo)
        /\ prontos \cap dormentes = {}
        /\ prontos \cup dormentes = vivos \ {rodando, idle}
        /\ {rodando, idle} \cap (prontos \cup dormentes) = {}

\* The state a process has says where it is; of idle only that it runs when it does
\* (load_program leaves idle "running" when it takes the CPU from it).
EstadoCoerente ==
    funcionando =>
        /\ \A p \in prontos : estado[p] = "ready"
        /\ \A p \in dormentes : estado[p] = "sleeping"
        /\ rodando # NULL => estado[rodando] = "running"

\* A process taken off the CPU, by the timer, a sleep, a load or the kill of another,
\* goes on exactly where it was, and the CPU always translates with the page table of
\* the process that runs.
ContextoPreservado ==
    funcionando =>
        /\ rodando = cpu_tabela
        /\ \A p \in vivos \ {idle} :
              feito[p] = IF p = rodando THEN cpu_contexto ELSE contexto[p]

\* idle has the CPU only when no process is ready.  load_program needs it: it takes
\* the first of the ready list but gives the CPU the context of the new process.
IdleSoSemProntos == funcionando /\ rodando = idle => processos_rodando_novo = <<>>

\* The object idle points to exists while the computer runs, and no deleted object is
\* used: idle is never killed, whatever number is killed.
IdleVivo == ligado => idle \in vivos /\ falha = "nenhuma"

\* What the kernel holds exists: no list, nor the CPU, has a deleted object.
ListasVivas == funcionando => prontos \cup dormentes \cup ({rodando} \ {NULL}) \subseteq vivos

\* kill_process, by which a process that failed ends, ends that process: its pid is
\* not the pid of idle.  (If idle was deleted the pid read is that of no object.)
MataQuemFalhou ==
    funcionando /\ idle \in vivos /\ rodando \notin {NULL, idle} => Alvo(pid[rodando]) = rodando

\* After an invalid instruction of idle.bin the kernel has an idle again: the pointer idle
\* is to a process that exists.
IdleRecarregada == ligado => idle \in vivos

\* No step deletes twice the same object (shutdown).
DesligaSemLiberarDuasVezes == falha # "liberacao_dupla"

\* First come, first served, also across kills, sleeps and loads: a process gets the
\* CPU only as the first of those that waited, and the others keep their order.
OrdemDeChegada ==
    [][LET ficam == Filtra(processos_rodando_novo, vivos') IN
       ligado' /\ ficam # <<>> =>
          \/ rodando' = rodando /\ IsPrefix(ficam, processos_rodando_novo')
          \/ rodando' = Head(ficam) /\ IsPrefix(Tail(ficam), processos_rodando_novo')]_vars

\* p, that was asleep, wakes in this step.
Desperta(p) == p \in dormentes /\ ligado' /\ p \in vivos' /\ p \notin ToSet(processos_dormindo')

\* A process that sleeps is not awake before the time it asked for has passed.
NaoAcordaCedo == [][\A p \in Processos : Desperta(p) => agora >= prazo[p]]_vars

\* A process whose time to wake fits in 16 bits is not awake before it, though others
\* asleep with it have times that were cut and wake at once.
SonoInteiro ==
    [][\A p \in Processos : Desperta(p) /\ prazo[p] < TEMPO_MOD => agora >= prazo[p]]_vars

\* A process that waits gets the CPU, unless it is killed first.
VezChega ==
    \A p \in Processos : p \in prontos ~> rodando = p \/ p \notin vivos \/ ~funcionando

\* A process that sleeps does not sleep for ever.
AcordaUmDia == \A p \in Processos : p \in dormentes ~> p \notin dormentes \/ ~funcionando
=============================================================================
