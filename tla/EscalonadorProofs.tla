------------------------- MODULE EscalonadorProofs --------------------------
(***************************************************************************)
(* Proofs about Escalonador: the life of processes.                         *)
(***************************************************************************)
EXTENDS Escalonador, ListasProofs

Estados == {"ready", "running", "sleeping"}

(***************************************************************************)
(* What configurar_proximo_processo leaves: one lemma for the list and the  *)
(* process that runs, one for the states and the contexts.                  *)
(***************************************************************************)

\* The processes that compete for the CPU.
Candidatos(novos, atual) == ToSet(novos) \cup ({atual} \ {NULL, idle})

LEMMA FilaCom ==
    ASSUME NEW novos \in Seq(Processos), NEW atual \in Processos \cup {NULL}
    PROVE  /\ fila_com(novos, atual) \in Seq(Processos)
           /\ ToSet(fila_com(novos, atual)) = Candidatos(novos, atual)
           /\ IsInjective(novos) /\ atual \notin ToSet(novos)
                => IsInjective(fila_com(novos, atual))
<1>1. CASE atual \in {NULL, idle}
  <2>1. fila_com(novos, atual) = novos
    BY <1>1 DEF fila_com
  <2>2. Candidatos(novos, atual) = ToSet(novos)
    BY <1>1 DEF Candidatos
  <2>3. QED BY <2>1, <2>2
<1>2. CASE atual \notin {NULL, idle}
  <2>1. fila_com(novos, atual) = Append(novos, atual)
    BY <1>2 DEF fila_com
  <2>2. Candidatos(novos, atual) = ToSet(novos) \cup {atual}
    BY <1>2 DEF Candidatos
  <2>3. atual \in Processos
    BY <1>2
  <2>4. QED BY <2>1, <2>2, <2>3, ComMais
<1>3. QED BY <1>1, <1>2

LEMMA ConfiguraFila ==
    ASSUME NEW novos \in Seq(Processos), NEW estados, NEW atual \in Processos \cup {NULL},
           NEW salvos, NEW ficam, idle \in Processos,
           configurar_proximo_processo(novos, estados, atual, salvos, ficam)
    PROVE  /\ rodando' \in Processos /\ processos_rodando_novo' \in Seq(Processos)
           /\ Candidatos(novos, atual) = {} =>
                 rodando' = idle /\ processos_rodando_novo' = <<>>
           /\ Candidatos(novos, atual) # {} =>
                 Candidatos(novos, atual) = {rodando'} \cup prontos'
           /\ IsInjective(novos) /\ atual \notin ToSet(novos) =>
                 /\ IsInjective(processos_rodando_novo')
                 /\ Candidatos(novos, atual) # {} => rodando' \notin prontos'
           /\ cpu_tabela' = rodando'
           /\ falha' = IF rodando' \in ficam THEN "nenhuma" ELSE "idle_pendente"
<1> DEFINE fila == fila_com(novos, atual)
<1>1. /\ processos_rodando_novo' = IF fila = <<>> THEN <<>> ELSE Tail(fila)
      /\ processo_rodando_no_momento' = IF fila = <<>> THEN idle ELSE Head(fila)
      /\ cpu_tabela' = IF fila = <<>> THEN idle ELSE Head(fila)
      /\ falha' = IF (IF fila = <<>> THEN idle ELSE Head(fila)) \in ficam
                  THEN "nenhuma" ELSE "idle_pendente"
  BY DEF configurar_proximo_processo
<1>2. /\ fila \in Seq(Processos)
      /\ ToSet(fila) = Candidatos(novos, atual)
      /\ IsInjective(novos) /\ atual \notin ToSet(novos) => IsInjective(fila)
  BY FilaCom
<1> HIDE DEF fila
<1>3. ToSet(<<>>) = {} /\ IsInjective(<<>>) /\ (ToSet(fila) = {} => fila = <<>>)
  BY <1>2, ListaVazia
<1>4. fila # <<>> => /\ Head(fila) \in Processos /\ Tail(fila) \in Seq(Processos)
                     /\ ToSet(fila) = {Head(fila)} \cup ToSet(Tail(fila))
                     /\ IsInjective(fila) => /\ IsInjective(Tail(fila))
                                             /\ Head(fila) \notin ToSet(Tail(fila))
  BY <1>2, PrimeiroEResto
<1>5. <<>> \in Seq(Processos)
  OBVIOUS
<1>6. CASE fila = <<>>
  BY <1>1, <1>2, <1>3, <1>5, <1>6 DEF rodando, prontos
<1>7. CASE fila # <<>>
  <2>1. processos_rodando_novo' = Tail(fila) /\ rodando' = Head(fila)
    BY <1>1, <1>7 DEF rodando
  <2>2. cpu_tabela' = rodando' /\ falha' = IF rodando' \in ficam THEN "nenhuma" ELSE "idle_pendente"
    BY <1>1, <1>7 DEF rodando
  <2>3. Candidatos(novos, atual) # {}
    BY <1>2, <1>4, <1>7
  <2>4. prontos' = ToSet(Tail(fila))
    BY <2>1 DEF prontos
  <2>5. QED BY <1>2, <1>4, <1>7, <2>1, <2>2, <2>3, <2>4
<1>8. QED BY <1>6, <1>7

\* The context p was left with: that of the CPU, if p is the one taken off it.
Deixado(atual, salvos, p) == IF p = atual THEN cpu_contexto ELSE salvos[p]

\* What configurar_proximo_processo leaves in the states and the contexts.
Configurados(estados, atual, salvos, ficam) ==
    /\ \A p \in Processos :
          estado'[p] = IF p = rodando' THEN "running"
                       ELSE IF p = atual \/ p \notin ficam THEN "ready"
                       ELSE estados[p]
    /\ \A p \in Processos : p \in ficam => contexto'[p] = Deixado(atual, salvos, p)
    /\ cpu_contexto' = Deixado(atual, salvos, rodando')

LEMMA ConfiguraContextos ==
    ASSUME NEW novos \in Seq(Processos), NEW estados \in [Processos -> Estados],
           NEW atual \in Processos \cup {NULL}, NEW salvos \in [Processos -> Contextos],
           NEW ficam, idle \in Processos, cpu_contexto \in Contextos,
           configurar_proximo_processo(novos, estados, atual, salvos, ficam)
    PROVE  /\ estado' \in [Processos -> Estados]
           /\ contexto' \in [Processos -> Contextos] /\ cpu_contexto' \in Contextos
           /\ Configurados(estados, atual, salvos, ficam)
<1> DEFINE contextos == IF atual = NULL THEN salvos ELSE salvar_contexto(salvos, atual)
<1>1. rodando' \in Processos
  BY ConfiguraFila
<1>2. /\ estado' = [p \in Processos |-> IF p = rodando' THEN "running"
                                        ELSE IF p = atual \/ p \notin ficam THEN "ready"
                                        ELSE estados[p]]
      /\ contexto' = [p \in Processos |-> IF p \in ficam THEN contextos[p] ELSE Novo]
      /\ cpu_contexto' = contextos[rodando']
  BY DEF configurar_proximo_processo, rodando
<1>3. Novo \in Contextos /\ NULL \notin Processos
  BY EscalonadorAssumption
<1>4. /\ contextos \in [Processos -> Contextos]
      /\ \A p \in Processos : contextos[p] = Deixado(atual, salvos, p)
  BY <1>3 DEF salvar_contexto, Deixado
<1> HIDE DEF contextos
<1>5. /\ estado' \in [Processos -> Estados]
      /\ \A p \in Processos :
            estado'[p] = IF p = rodando' THEN "running"
                         ELSE IF p = atual \/ p \notin ficam THEN "ready"
                         ELSE estados[p]
  BY <1>2 DEF Estados
<1>6. /\ contexto' \in [Processos -> Contextos] /\ cpu_contexto' \in Contextos
      /\ \A p \in Processos : p \in ficam => contexto'[p] = Deixado(atual, salvos, p)
      /\ cpu_contexto' = Deixado(atual, salvos, rodando')
  BY <1>1, <1>2, <1>3, <1>4
<1>7. QED BY <1>5, <1>6 DEF Configurados

\* acordar_processos_dormindo puts each sleeper in one of two lists.
LEMMA Timer ==
    ASSUME NEW novos \in Seq(Processos), NEW dormindo \in Seq(Processos),
           NEW atual, NEW ficam, estado \in [Processos -> Estados],
           tratar_timer_com(novos, dormindo, atual, ficam)
    PROVE  /\ processos_dormindo' \in Seq(Processos)
           /\ IsInjective(dormindo) => IsInjective(processos_dormindo')
           /\ \E acordados \in Seq(Processos) :
                 /\ ToSet(acordados) \cap dormentes' = {}
                 /\ ToSet(acordados) \cup dormentes' = ToSet(dormindo)
                 /\ IsInjective(dormindo) => IsInjective(acordados)
                 /\ \A p \in ToSet(acordados) : Acorda(p)
                 /\ estados_acordados(acordados) \in [Processos -> Estados]
                 /\ configurar_proximo_processo(novos \o acordados,
                       estados_acordados(acordados), atual, contexto, ficam)
<1> DEFINE Sim == {p \in Processos : Acorda(p)}
           Nao == {p \in Processos : ~ Acorda(p)}
           acordados == Filtra(dormindo, Sim)
<1>1. /\ processos_dormindo' = Filtra(dormindo, Nao)
      /\ configurar_proximo_processo(novos \o acordados, estados_acordados(acordados),
                                     atual, contexto, ficam)
  BY DEF tratar_timer_com, acordados_no_fim
<1>2. /\ acordados \in Seq(Processos) /\ ToSet(acordados) = ToSet(dormindo) \cap Sim
      /\ IsInjective(dormindo) => IsInjective(acordados)
  BY FiltraElementos
<1>3. /\ Filtra(dormindo, Nao) \in Seq(Processos)
      /\ ToSet(Filtra(dormindo, Nao)) = ToSet(dormindo) \cap Nao
      /\ IsInjective(dormindo) => IsInjective(Filtra(dormindo, Nao))
  BY FiltraElementos
<1>4. ToSet(dormindo) \subseteq Processos
  BY ElementosEmS
<1>5. dormentes' = ToSet(dormindo) \cap Nao
  BY <1>1, <1>3 DEF dormentes
<1>6. estados_acordados(acordados) \in [Processos -> Estados]
  <2> HIDE DEF acordados
  <2>1. QED BY DEF estados_acordados, Estados
<1>7. /\ ToSet(acordados) \cap dormentes' = {}
      /\ ToSet(acordados) \cup dormentes' = ToSet(dormindo)
      /\ \A p \in ToSet(acordados) : Acorda(p)
  <2> HIDE DEF acordados
  <2>1. QED BY <1>2, <1>4, <1>5
<1> HIDE DEF acordados, Sim, Nao
<1>8. QED BY <1>1, <1>2, <1>3, <1>6, <1>7

-----------------------------------------------------------------------------
(***************************************************************************)
(* What holds whatever idle.bin does: the types, and that the kernel holds  *)
(* each object at most once and no deleted one.                             *)
(***************************************************************************)

\* shutdown clears the pointer idle and is the only one that does.
IdleNaoNulo == ligado => idle # NULL

\* No object is held twice, nor after it is deleted.  A pointer idle that dangles may
\* name a process by its address only if that process is idle.bin, which never sleeps:
\* so what idle points to, taken when no process is ready, is not in a list either.
ListasCoerentes ==
    funcionando =>
        /\ IsInjective(processos_rodando_novo) /\ IsInjective(processos_dormindo)
        /\ prontos \cap dormentes = {}
        /\ rodando \notin prontos \cup dormentes
        /\ prontos \cup dormentes \cup ({rodando} \ {NULL}) \subseteq vivos
        /\ idle \in vivos => idle \in idle_bin
        /\ dormentes \cap idle_bin = {}
        /\ idle_bin \subseteq vivos

GInv == TypeOK /\ IdleNaoNulo /\ ListasCoerentes

\* The lists after a process is taken off the CPU or another is put on it.
LEMMA TrocaListas ==
    ASSUME NEW novos \in Seq(Processos), NEW estados, NEW atual \in Processos \cup {NULL},
           NEW salvos, idle \in Processos, idle' = idle,
           configurar_proximo_processo(novos, estados, atual, salvos, vivos'),
           IsInjective(novos), IsInjective(processos_dormindo'),
           ToSet(novos) \cap dormentes' = {}, atual \notin ToSet(novos) \cup dormentes',
           ToSet(novos) \cup dormentes' \cup ({atual} \ {NULL}) \subseteq vivos',
           idle \in vivos' => idle \in idle_bin',
           dormentes' \cap idle_bin' = {}, idle_bin' \subseteq vivos'
    PROVE  ListasCoerentes'
<1> DEFINE C == Candidatos(novos, atual)
<1>1. /\ rodando' \in Processos
      /\ C = {} => rodando' = idle /\ processos_rodando_novo' = <<>>
      /\ C # {} => C = {rodando'} \cup prontos' /\ rodando' \notin prontos'
      /\ IsInjective(processos_rodando_novo')
      /\ falha' = IF rodando' \in vivos' THEN "nenhuma" ELSE "idle_pendente"
  BY ConfiguraFila
<1>2. C \subseteq vivos' /\ C \cap dormentes' = {}
  BY DEF Candidatos
<1> HIDE DEF C
<1>3. ToSet(<<>>) = {}
  BY ListaVazia
<1>4. SUFFICES ASSUME rodando' \in vivos'
               PROVE  /\ prontos' \cap dormentes' = {}
                      /\ rodando' \notin prontos' \cup dormentes'
                      /\ prontos' \cup dormentes' \cup ({rodando'} \ {NULL}) \subseteq vivos'
  BY <1>1 DEF ListasCoerentes, funcionando
<1>5. CASE C = {}
  <2>1. prontos' = {} /\ rodando' = idle
    BY <1>1, <1>3, <1>5 DEF prontos
  <2>2. rodando' \notin dormentes'
    BY <1>4, <2>1
  <2>3. QED BY <1>4, <2>1, <2>2
<1>6. CASE C # {}
  BY <1>1, <1>2, <1>4, <1>6
<1>7. QED BY <1>5, <1>6

\* The ready list when p is loaded, and may get the CPU from idle.
ComNovo(novos, p) == ToSet(novos) \cup {p}

\* The objects after a load.
LEMMA CargaObjetos ==
    ASSUME NEW p \in Processos, NEW nome, NEW atual, NEW novos, NEW ficam,
           load_program(p, nome, atual, novos, ficam)
    PROVE  /\ p \notin ficam /\ vivos' = ficam \cup {p}
           /\ idle_bin' = (idle_bin \cap ficam) \cup (IF nome = "idle.bin" THEN {p} ELSE {})
BY DEF load_program

\* The lists after a load: the new process waits, or gets the CPU from idle.
LEMMA Carga ==
    ASSUME NEW p \in Processos, NEW nome, NEW atual \in Processos \cup {NULL},
           NEW novos \in Seq(Processos), NEW ficam,
           load_program(p, nome, atual, novos, ficam)
    PROVE  /\ processos_rodando_novo' \in Seq(Processos) /\ rodando' \in Processos \cup {NULL}
           /\ atual # idle => /\ rodando' = atual /\ prontos' = ComNovo(novos, p)
                              /\ processos_rodando_novo' = Append(novos, p)
           /\ atual = idle => /\ ComNovo(novos, p) = {rodando'} \cup prontos'
                              /\ processos_rodando_novo' = Tail(Append(novos, p))
                              /\ rodando' = Head(Append(novos, p))
                              /\ novos = <<>> => rodando' = p /\ processos_rodando_novo' = <<>>
           /\ IsInjective(novos) /\ p \notin ToSet(novos) =>
                 /\ IsInjective(processos_rodando_novo')
                 /\ atual = idle => rodando' \notin prontos'
<1> DEFINE fila == Append(novos, p)
<1>1. /\ fila \in Seq(Processos) /\ fila # <<>>
      /\ ToSet(fila) = ComNovo(novos, p)
      /\ IsInjective(novos) /\ p \notin ToSet(novos) => IsInjective(fila)
  BY ComMais DEF ComNovo
<1>2. novos = <<>> => Head(fila) = p /\ Tail(fila) = <<>>
  OBVIOUS
<1>3. /\ atual = idle => rodando' = Head(fila) /\ processos_rodando_novo' = Tail(fila)
      /\ atual # idle => rodando' = atual /\ processos_rodando_novo' = fila
  BY DEF load_program, cpu_livre, rodando
<1> HIDE DEF fila
<1>4. /\ Head(fila) \in Processos /\ Tail(fila) \in Seq(Processos)
      /\ ToSet(fila) = {Head(fila)} \cup ToSet(Tail(fila))
      /\ IsInjective(fila) => /\ IsInjective(Tail(fila))
                              /\ Head(fila) \notin ToSet(Tail(fila))
  BY <1>1, PrimeiroEResto
<1>5. CASE atual = idle
  <2>1. prontos' = ToSet(Tail(fila))
    BY <1>3, <1>5 DEF prontos
  <2>2. QED BY <1>1, <1>2, <1>3, <1>4, <1>5, <2>1 DEF fila
<1>6. CASE atual # idle
  <2>1. prontos' = ToSet(fila)
    BY <1>3, <1>6 DEF prontos
  <2>2. QED BY <1>1, <1>3, <1>6, <2>1 DEF fila
<1>7. QED BY <1>5, <1>6

-----------------------------------------------------------------------------
(* Types *)

LEMMA Restos ==
    /\ \A a \in Int, b \in Nat \ {0} : a % b \in 0 .. b - 1
    /\ \A b \in Nat : \A a \in 0 .. b - 1 : a % b = a
OBVIOUS

LEMMA Numericos ==
    ASSUME TypeOK
    PROVE  /\ pid_novo \in 0 .. PID_MOD - 1
           /\ tempo_sistema \in Nat
           /\ \A s \in Segundos : ate(s) \in 0 .. TEMPO_MOD - 1
<1>1. /\ PID_MOD \in Nat \ {0} /\ TEMPO_MOD \in Nat \ {0} /\ TEMPO32_MOD \in Nat \ {0}
      /\ COMECO \in Int /\ Segundos \subseteq Int
  BY EscalonadorAssumption
<1>2. /\ agora + COMECO \in Int /\ proximo_pid + 1 \in Int
  <2>1. agora \in Int /\ proximo_pid \in Int
    BY EscalonadorAssumption DEF TypeOK
  <2>2. QED BY <1>1, <2>1
<1>3. pid_novo \in 0 .. PID_MOD - 1
  BY <1>1, <1>2, Restos DEF pid_novo
<1>4. tempo_sistema \in Nat
  <2>1. (agora + COMECO) % TEMPO_MOD \in Int
    BY <1>1, <1>2, Restos
  <2>2. ((agora + COMECO) % TEMPO_MOD) - COMECO \in Int
    BY <1>1, <2>1
  <2>3. tempo_sistema \in 0 .. TEMPO32_MOD - 1
    BY <1>1, <2>2, Restos DEF tempo_sistema
  <2>4. QED BY <2>3
<1>5. ASSUME NEW s \in Segundos PROVE ate(s) \in 0 .. TEMPO_MOD - 1
  <2>1. tempo_sistema + s \in Int
    BY <1>1, <1>4
  <2>2. QED BY <1>1, <2>1, Restos DEF ate
<1>6. QED BY <1>3, <1>4, <1>5

\* Whom a kill ends is running, ready or sleeping.
LEMMA AlvoAchado ==
    ASSUME TypeOK, NEW n, Alvo(n) # NULL
    PROVE  /\ Alvo(n) \in Processos
           /\ Alvo(n) \in ({rodando} \ {NULL}) \cup prontos \cup dormentes
           /\ Alvo(n) # idle \/ idle \in prontos \cup dormentes
<1> DEFINE todos == processos_rodando_novo \o processos_dormindo
           achados == Filtra(todos, {p \in Processos : pid[p] = n % PID_MOD})
<1>1. /\ processos_rodando_novo \in Seq(Processos) /\ processos_dormindo \in Seq(Processos)
      /\ rodando \in Processos \cup {NULL}
  BY DEF TypeOK
<1>2. todos \in Seq(Processos) /\ ToSet(todos) = prontos \cup dormentes
  BY <1>1, Juntas DEF prontos, dormentes
<1>3. \/ Alvo(n) = rodando /\ rodando # NULL /\ pid[rodando] = n
      \/ achados # <<>> /\ Alvo(n) = Head(achados)
  BY DEF Alvo, encontrar_por_pid
<1>4. pid[idle] # n
  BY DEF Alvo
<1> HIDE DEF todos
<1>5. achados \in Seq(Processos) /\ ToSet(achados) = ToSet(todos) \cap {p \in Processos : pid[p] = n % PID_MOD}
  BY <1>2, FiltraElementos
<1> HIDE DEF achados
<1>6. achados # <<>> => Head(achados) \in Processos /\ Head(achados) \in ToSet(achados)
  BY <1>5, PrimeiroEResto
<1>7. CASE Alvo(n) = rodando /\ rodando # NULL /\ pid[rodando] = n
  BY <1>1, <1>4, <1>7
<1>8. CASE achados # <<>> /\ Alvo(n) = Head(achados)
  BY <1>2, <1>5, <1>6, <1>8
<1>9. QED BY <1>3, <1>7, <1>8

LEMMA ApagaTipos ==
    ASSUME TypeOK, NEW p \in Processos, Apaga(p)
    PROVE  /\ vivos' \subseteq Processos /\ idle_bin' \subseteq Processos
           /\ pid' \in [Processos -> 0 .. PID_MOD - 1]
           /\ dormir_ate' \in [Processos -> 0 .. TEMPO_MOD - 1]
           /\ feito' \in [Processos -> Contextos] /\ prazo' \in [Processos -> Nat]
<1>1. /\ 0 \in 0 .. PID_MOD - 1 /\ 0 \in 0 .. TEMPO_MOD - 1 /\ 0 \in 0 .. MAX_TEMPO
      /\ Novo \in Contextos
  BY EscalonadorAssumption
<1>2. QED BY <1>1 DEF TypeOK, Apaga

LEMMA CargaTipos ==
    ASSUME TypeOK, NEW p \in Processos, NEW nome, NEW atual \in Processos \cup {NULL},
           NEW novos \in Seq(Processos), NEW ficam \in SUBSET Processos,
           load_program(p, nome, atual, novos, ficam),
           idle' = idle, agora' = agora, ligado' = ligado,
           processos_dormindo' \in Seq(Processos),
           falha' \in {"nenhuma", "idle_trocada"}
    PROVE  TypeOK'
<1>1. /\ 0 \in 0 .. PID_MOD - 1 /\ 0 \in 0 .. TEMPO_MOD - 1 /\ 0 \in 0 .. MAX_TEMPO
      /\ Novo \in Contextos
  BY EscalonadorAssumption
<1>2. /\ processos_rodando_novo' \in Seq(Processos) /\ rodando' \in Processos \cup {NULL}
  BY Carga
<1>8. vivos' \subseteq Processos /\ idle_bin' \subseteq Processos
  <2>1. /\ vivos' = ficam \cup {p}
        /\ idle_bin' = (idle_bin \cap ficam) \cup (IF nome = "idle.bin" THEN {p} ELSE {})
    BY CargaObjetos
  <2>2. QED BY <2>1 DEF TypeOK
<1>3. /\ pid' \in [Processos -> 0 .. PID_MOD - 1] /\ proximo_pid' \in 0 .. PID_MOD - 1
  <2>1. pid_novo \in 0 .. PID_MOD - 1
    BY Numericos
  <2>2. /\ proximo_pid' = pid_novo
        /\ pid' = [q \in Processos |-> IF q = p THEN pid_novo
                                       ELSE IF q \in ficam THEN pid[q] ELSE 0]
    BY DEF load_program
  <2>3. QED BY <1>1, <2>1, <2>2 DEF TypeOK
<1>4. /\ contexto' \in [Processos -> Contextos] /\ feito' \in [Processos -> Contextos]
      /\ dormir_ate' \in [Processos -> 0 .. TEMPO_MOD - 1]
      /\ prazo' \in [Processos -> Nat]
  BY <1>1 DEF load_program, TypeOK
<1>5. /\ estado' \in [Processos -> {"ready", "running", "sleeping"}]
      /\ cpu_contexto' \in Contextos /\ cpu_tabela' \in Processos \cup {NULL}
  BY <1>1 DEF load_program, TypeOK
<1>6. /\ idle' \in Processos \cup {NULL} /\ agora' \in 0 .. MAX_TEMPO /\ ligado' \in BOOLEAN
  BY DEF TypeOK
<1>7. QED
  BY <1>2, <1>3, <1>4, <1>5, <1>6, <1>8 DEF TypeOK

\* The types after a process is taken off the CPU or another is put on it.
LEMMA TrocaTipos ==
    ASSUME TypeOK, NEW novos \in Seq(Processos), NEW estados \in [Processos -> Estados],
           NEW atual \in Processos \cup {NULL}, NEW salvos \in [Processos -> Contextos],
           NEW ficam, idle \in Processos,
           configurar_proximo_processo(novos, estados, atual, salvos, ficam),
           vivos' \subseteq Processos, idle_bin' \subseteq Processos,
           pid' \in [Processos -> 0 .. PID_MOD - 1],
           dormir_ate' \in [Processos -> 0 .. TEMPO_MOD - 1],
           processos_dormindo' \in Seq(Processos),
           feito' \in [Processos -> Contextos], prazo' \in [Processos -> Nat],
           idle' = idle, proximo_pid' = proximo_pid, agora' = agora, ligado' = ligado
    PROVE  TypeOK'
<1>1. cpu_contexto \in Contextos
  BY DEF TypeOK
<1>2. /\ rodando' \in Processos /\ processos_rodando_novo' \in Seq(Processos)
      /\ cpu_tabela' \in Processos
      /\ falha' = IF rodando' \in ficam THEN "nenhuma" ELSE "idle_pendente"
  BY ConfiguraFila
<1>3. /\ estado' \in [Processos -> Estados] /\ contexto' \in [Processos -> Contextos]
      /\ cpu_contexto' \in Contextos
  BY <1>1, ConfiguraContextos
<1>4. QED BY <1>2, <1>3 DEF TypeOK, Estados

LEMMA KillTipos ==
    ASSUME TypeOK, IdleNaoNulo, NEW n, kill_process_pid(n)
    PROVE  TypeOK'
<1> DEFINE alvo  == Alvo(n)
           novos == remover_processo(processos_rodando_novo, alvo)
           dorme == RemoveFirst(processos_dormindo, alvo)
           atual == IF alvo = rodando THEN NULL ELSE rodando
<1>1. /\ funcionando /\ alvo # NULL /\ Apaga(alvo)
      /\ tratar_timer_com(novos, dorme, atual, vivos \ {alvo})
      /\ idle' = idle /\ proximo_pid' = proximo_pid /\ agora' = agora /\ ligado' = ligado
  BY DEF kill_process_pid
<1>2. alvo \in Processos
  BY <1>1, AlvoAchado
<1>3. /\ processos_rodando_novo \in Seq(Processos) /\ processos_dormindo \in Seq(Processos)
      /\ rodando \in Processos \cup {NULL} /\ idle \in Processos
      /\ estado \in [Processos -> Estados] /\ contexto \in [Processos -> Contextos]
  BY <1>1 DEF TypeOK, IdleNaoNulo, funcionando, Estados
<1> HIDE DEF alvo
<1>4. novos \in Seq(Processos) /\ dorme \in Seq(Processos) /\ atual \in Processos \cup {NULL}
  <2>1. novos \in Seq(Processos)
    BY <1>3, FiltraElementos DEF remover_processo
  <2>2. dorme \in Seq(Processos)
    BY <1>3, TiraPrimeiro
  <2>3. QED BY <1>3, <2>1, <2>2
<1> HIDE DEF novos, dorme, atual
<1>5. /\ processos_dormindo' \in Seq(Processos)
      /\ \E a \in Seq(Processos) :
            /\ estados_acordados(a) \in [Processos -> Estados]
            /\ configurar_proximo_processo(novos \o a, estados_acordados(a), atual,
                                           contexto, vivos \ {alvo})
  BY <1>1, <1>3, <1>4, Timer
<1>6. PICK a \in Seq(Processos) :
         /\ estados_acordados(a) \in [Processos -> Estados]
         /\ configurar_proximo_processo(novos \o a, estados_acordados(a), atual,
                                        contexto, vivos \ {alvo})
  BY <1>5
<1>7. novos \o a \in Seq(Processos)
  BY <1>4
<1>8. /\ vivos' \subseteq Processos /\ idle_bin' \subseteq Processos
      /\ pid' \in [Processos -> 0 .. PID_MOD - 1]
      /\ dormir_ate' \in [Processos -> 0 .. TEMPO_MOD - 1]
      /\ feito' \in [Processos -> Contextos] /\ prazo' \in [Processos -> Nat]
  BY <1>1, <1>2, ApagaTipos
<1>9. QED BY <1>1, <1>3, <1>4, <1>5, <1>6, <1>7, <1>8, TrocaTipos

\* Every step keeps the types.
LEMMA NextTipos ==
    ASSUME TypeOK, IdleNaoNulo, Next
    PROVE  TypeOK'
<1>1. /\ processos_rodando_novo \in Seq(Processos) /\ processos_dormindo \in Seq(Processos)
      /\ rodando \in Processos \cup {NULL} /\ (ligado => idle \in Processos)
      /\ estado \in [Processos -> Estados] /\ contexto \in [Processos -> Contextos]
      /\ vivos \subseteq Processos /\ idle_bin \subseteq Processos
      /\ pid \in [Processos -> 0 .. PID_MOD - 1]
      /\ dormir_ate \in [Processos -> 0 .. TEMPO_MOD - 1]
      /\ feito \in [Processos -> Contextos] /\ prazo \in [Processos -> Nat]
      /\ agora \in 0 .. MAX_TEMPO /\ MAX_TEMPO \in Nat
  BY EscalonadorAssumption DEF TypeOK, IdleNaoNulo, Estados
<1>2. ASSUME NEW c \in Contextos, Executa(c) PROVE TypeOK'
  <2>1. feito' \in [Processos -> Contextos]
    BY <1>1, <1>2 DEF Executa
  <2>2. QED BY <1>2, <2>1 DEF Executa, TypeOK, rodando
<1>3. ASSUME ExecutaSemProcesso PROVE TypeOK'
  BY <1>3 DEF ExecutaSemProcesso, TypeOK, rodando
<1>4. ASSUME tratar_timer PROVE TypeOK'
  <2>1. /\ tratar_timer_com(processos_rodando_novo, processos_dormindo, rodando, vivos)
        /\ ligado
        /\ idle' = idle /\ proximo_pid' = proximo_pid /\ agora' = agora /\ ligado' = ligado
        /\ vivos' = vivos /\ idle_bin' = idle_bin /\ pid' = pid
        /\ dormir_ate' = dormir_ate /\ feito' = feito /\ prazo' = prazo
    BY <1>4 DEF tratar_timer, funcionando
  <2>2. /\ processos_dormindo' \in Seq(Processos)
        /\ \E a \in Seq(Processos) :
              /\ estados_acordados(a) \in [Processos -> Estados]
              /\ configurar_proximo_processo(processos_rodando_novo \o a,
                    estados_acordados(a), rodando, contexto, vivos)
    BY <1>1, <2>1, Timer
  <2>3. PICK a \in Seq(Processos) :
           /\ estados_acordados(a) \in [Processos -> Estados]
           /\ configurar_proximo_processo(processos_rodando_novo \o a,
                 estados_acordados(a), rodando, contexto, vivos)
    BY <2>2
  <2>4. processos_rodando_novo \o a \in Seq(Processos)
    BY <1>1
  <2>5. QED BY <1>1, <2>1, <2>2, <2>3, <2>4, TrocaTipos
<1>5. ASSUME PassaSegundo PROVE TypeOK'
  <2>1. agora' \in 0 .. MAX_TEMPO
    BY <1>1, <1>5 DEF PassaSegundo
  <2>2. QED BY <1>5, <2>1 DEF PassaSegundo, TypeOK, rodando
<1>6. ASSUME syscall_0_fechar_processo PROVE TypeOK'
  <2> DEFINE novos == remover_processo(processos_rodando_novo, rodando)
  <2>1. /\ rodando \in Processos /\ Apaga(rodando) /\ ligado
        /\ processos_dormindo' = RemoveFirst(processos_dormindo, rodando)
        /\ configurar_proximo_processo(novos, estado, NULL, contexto, vivos \ {rodando})
        /\ idle' = idle /\ proximo_pid' = proximo_pid /\ agora' = agora /\ ligado' = ligado
    BY <1>1, <1>6 DEF syscall_0_fechar_processo, funcionando
  <2>2. novos \in Seq(Processos)
    BY <1>1, FiltraElementos DEF remover_processo
  <2>3. processos_dormindo' \in Seq(Processos)
    BY <1>1, <2>1, TiraPrimeiro
  <2>4. /\ vivos' \subseteq Processos /\ idle_bin' \subseteq Processos
        /\ pid' \in [Processos -> 0 .. PID_MOD - 1]
        /\ dormir_ate' \in [Processos -> 0 .. TEMPO_MOD - 1]
        /\ feito' \in [Processos -> Contextos] /\ prazo' \in [Processos -> Nat]
    BY <2>1, ApagaTipos
  <2> HIDE DEF novos
  <2>5. QED BY <1>1, <2>1, <2>2, <2>3, <2>4, TrocaTipos
<1>7. ASSUME NEW s \in Segundos, NEW c \in Contextos, syscall_6_dormir_processo(s, c)
      PROVE  TypeOK'
  <2> DEFINE novos   == RemoveFirst(processos_rodando_novo, rodando)
             estados == [estado EXCEPT ![rodando] = "sleeping"]
             salvos  == [contexto EXCEPT ![rodando] = c]
  <2>1. /\ rodando \in Processos /\ ligado
        /\ processos_dormindo' = Append(processos_dormindo, rodando)
        /\ dormir_ate' = [dormir_ate EXCEPT ![rodando] = ate(s)]
        /\ prazo' = [prazo EXCEPT ![rodando] = agora + s]
        /\ feito' = [feito EXCEPT ![rodando] = c]
        /\ configurar_proximo_processo(novos, estados, NULL, salvos, vivos)
        /\ vivos' = vivos /\ idle_bin' = idle_bin /\ pid' = pid
        /\ idle' = idle /\ proximo_pid' = proximo_pid /\ agora' = agora /\ ligado' = ligado
    BY <1>1, <1>7 DEF syscall_6_dormir_processo, funcionando
  <2>2. novos \in Seq(Processos)
    BY <1>1, TiraPrimeiro
  <2>3. estados \in [Processos -> Estados] /\ salvos \in [Processos -> Contextos]
    BY <1>1 DEF Estados
  <2>4. processos_dormindo' \in Seq(Processos)
    BY <1>1, <2>1
  <2>5. ate(s) \in 0 .. TEMPO_MOD - 1 /\ agora + s \in Nat
    <3>1. s \in Nat
      BY EscalonadorAssumption
    <3>2. QED BY <1>1, <2>1, <3>1, Numericos
  <2>6. /\ dormir_ate' \in [Processos -> 0 .. TEMPO_MOD - 1]
        /\ feito' \in [Processos -> Contextos] /\ prazo' \in [Processos -> Nat]
    BY <1>1, <2>1, <2>5
  <2> HIDE DEF novos, estados, salvos
  <2>7. QED BY <1>1, <2>1, <2>2, <2>3, <2>4, <2>6, TrocaTipos
<1>8. ASSUME NEW p \in Processos, ComandoLoad(p) PROVE TypeOK'
  <2>1. /\ load_program(p, "outro.bin", rodando, processos_rodando_novo, vivos)
        /\ falha' \in {"nenhuma", "idle_trocada"}
        /\ idle' = idle /\ processos_dormindo' = processos_dormindo
        /\ agora' = agora /\ ligado' = ligado
    BY <1>8 DEF ComandoLoad
  <2>2. vivos \in SUBSET Processos
    BY <1>1
  <2>3. processos_dormindo' \in Seq(Processos)
    BY <1>1, <2>1
  <2>4. QED BY <1>1, <2>1, <2>2, <2>3, CargaTipos
<1>9. ASSUME ComandoLoadFalha PROVE TypeOK'
  <2>1. pid_novo \in 0 .. PID_MOD - 1
    BY Numericos
  <2>2. QED BY <1>9, <2>1 DEF ComandoLoadFalha, TypeOK, rodando
<1>10. ASSUME ComandoComExcecao PROVE TypeOK'
  BY <1>10 DEF ComandoComExcecao, TypeOK, rodando
<1>11. ASSUME NEW n, kill_process_pid(n) PROVE TypeOK'
  BY <1>11, KillTipos
<1>11a. ASSUME kill_process_pid_sem_idle PROVE TypeOK'
  BY <1>11a DEF kill_process_pid_sem_idle, TypeOK, rodando
<1>12. ASSUME kill_process PROVE TypeOK'
  BY <1>12, KillTipos DEF kill_process
<1>13. ASSUME NEW tipo \in Excecoes, tratar_excecao(tipo) PROVE TypeOK'
  BY <1>12, <1>13 DEF tratar_excecao
<1>14. ASSUME NEW p \in Processos, RecarregaIdle(p) PROVE TypeOK'
  <2> DEFINE novos == remover_processo(processos_rodando_novo, rodando)
             ficam == vivos \ {rodando}
  <2>1. /\ load_program(p, "idle.bin", NULL, novos, ficam)
        /\ falha = "nenhuma" /\ falha' = falha
        /\ processos_dormindo' = RemoveFirst(processos_dormindo, rodando)
        /\ idle' = idle /\ agora' = agora /\ ligado' = ligado
    BY <1>14 DEF RecarregaIdle, funcionando
  <2>2. NULL \in Processos \cup {NULL} /\ ficam \in SUBSET Processos
    BY <1>1
  <2>3. novos \in Seq(Processos)
    BY <1>1, FiltraElementos DEF remover_processo
  <2>4. processos_dormindo' \in Seq(Processos)
    BY <1>1, <2>1, TiraPrimeiro
  <2> HIDE DEF novos, ficam
  <2>5. QED BY <1>1, <2>1, <2>2, <2>3, <2>4, CargaTipos
<1>15. ASSUME ComandoExit PROVE TypeOK'
  <2>1. /\ ligado' \in BOOLEAN /\ vivos' \subseteq Processos
        /\ idle' \in Processos \cup {NULL} /\ rodando' \in Processos \cup {NULL}
        /\ processos_rodando_novo' \in Seq(Processos)
        /\ processos_dormindo' \in Seq(Processos)
    <3>1. /\ ligado' = FALSE /\ vivos' = {} /\ idle' = NULL /\ rodando' = NULL
          /\ processos_rodando_novo' = <<>> /\ processos_dormindo' = <<>>
      BY <1>15 DEF ComandoExit, rodando
    <3>2. <<>> \in Seq(Processos)
      OBVIOUS
    <3>3. QED BY <3>1, <3>2
  <2>2. falha' \in {"nenhuma", "idle_pendente", "idle_trocada", "tabela_liberada",
                    "liberacao_dupla"}
    BY <1>15 DEF ComandoExit
  <2>3. QED BY <1>15, <2>1, <2>2 DEF ComandoExit, TypeOK
<1>16. QED
  BY <1>2, <1>3, <1>4, <1>5, <1>6, <1>7, <1>8, <1>9, <1>10, <1>11, <1>11a, <1>12, <1>13, <1>14,
     <1>15 DEF Next

-----------------------------------------------------------------------------
(* The lists *)

LEMMA CargaListas ==
    ASSUME NEW p \in Processos, NEW nome, NEW atual \in Processos \cup {NULL},
           NEW novos \in Seq(Processos), NEW ficam \in SUBSET Processos,
           load_program(p, nome, atual, novos, ficam), idle' = idle,
           IsInjective(novos), IsInjective(processos_dormindo'),
           ToSet(novos) \cap dormentes' = {}, atual \notin ToSet(novos) \cup dormentes',
           ToSet(novos) \cup dormentes' \cup ({atual} \ {NULL}) \subseteq ficam,
           idle \in ficam => idle \in idle_bin, dormentes' \cap idle_bin = {},
           p = idle => nome = "idle.bin" \/ falha' # "nenhuma"
    PROVE  ListasCoerentes'
<1>1. /\ p \notin ficam /\ vivos' = ficam \cup {p}
      /\ idle_bin' = (idle_bin \cap ficam) \cup (IF nome = "idle.bin" THEN {p} ELSE {})
  BY CargaObjetos
<1>2. /\ atual # idle => rodando' = atual /\ prontos' = ComNovo(novos, p)
      /\ atual = idle => ComNovo(novos, p) = {rodando'} \cup prontos'
      /\ IsInjective(processos_rodando_novo')
      /\ atual = idle => rodando' \notin prontos'
  <2>1. p \notin ToSet(novos)
    BY <1>1
  <2>2. QED BY <2>1, Carga
<1>3. NULL \notin Processos
  BY EscalonadorAssumption
<1>4. /\ prontos' \cap dormentes' = {}
      /\ rodando' \notin prontos' \cup dormentes'
      /\ prontos' \cup dormentes' \cup ({rodando'} \ {NULL}) \subseteq vivos'
  <2>1. CASE atual = idle
    BY <1>1, <1>2, <2>1 DEF ComNovo
  <2>2. CASE atual # idle
    BY <1>1, <1>2, <1>3, <2>2 DEF ComNovo
  <2>3. QED BY <2>1, <2>2
<1>5. /\ dormentes' \cap idle_bin' = {} /\ idle_bin' \subseteq vivos'
      /\ falha' = "nenhuma" /\ idle \in vivos' => idle \in idle_bin'
  BY <1>1
<1>6. QED BY <1>2, <1>4, <1>5 DEF ListasCoerentes, funcionando

\* A process that is killed leaves both lists, and the others stay where they were or
\* wake: what configurar_proximo_processo gets.
LEMMA KillTroca ==
    ASSUME GInv, NEW n, kill_process_pid(n)
    PROVE  \E alvo \in ({rodando} \ {NULL}) \cup prontos \cup dormentes,
              novos \in Seq(Processos), a \in Seq(Processos) :
              LET atual == IF alvo = rodando THEN NULL ELSE rodando IN
              /\ alvo = Alvo(n) /\ alvo \in Processos /\ Apaga(alvo)
              /\ novos = remover_processo(processos_rodando_novo, alvo) \o a
              /\ ToSet(novos) = (prontos \ {alvo}) \cup ToSet(a)
              /\ ToSet(a) \cap dormentes' = {}
              /\ ToSet(a) \cup dormentes' = dormentes \ {alvo}
              /\ IsInjective(novos) /\ IsInjective(processos_dormindo')
              /\ processos_dormindo' \in Seq(Processos)
              /\ \A p \in ToSet(a) : Acorda(p)
              /\ estados_acordados(a) \in [Processos -> Estados]
              /\ configurar_proximo_processo(novos, estados_acordados(a), atual, contexto,
                                             vivos \ {alvo})
<1> DEFINE alvo  == Alvo(n)
           lista == remover_processo(processos_rodando_novo, alvo)
           dorme == RemoveFirst(processos_dormindo, alvo)
           atual == IF alvo = rodando THEN NULL ELSE rodando
<1>1. /\ funcionando /\ alvo # NULL /\ Apaga(alvo)
      /\ tratar_timer_com(lista, dorme, atual, vivos \ {alvo})
  BY DEF kill_process_pid
<1>2. /\ alvo \in Processos /\ alvo \in ({rodando} \ {NULL}) \cup prontos \cup dormentes
  BY <1>1, AlvoAchado DEF GInv
<1>3. /\ processos_rodando_novo \in Seq(Processos) /\ processos_dormindo \in Seq(Processos)
      /\ estado \in [Processos -> Estados]
      /\ IsInjective(processos_rodando_novo) /\ IsInjective(processos_dormindo)
      /\ prontos \cap dormentes = {} /\ prontos \subseteq Processos
  <2>1. processos_rodando_novo \in Seq(Processos) /\ processos_dormindo \in Seq(Processos)
    BY DEF GInv, TypeOK
  <2>2. prontos \subseteq Processos
    BY <2>1, ElementosEmS DEF prontos
  <2>3. QED BY <1>1, <2>1, <2>2 DEF GInv, TypeOK, ListasCoerentes, Estados
<1> HIDE DEF alvo
<1>4. /\ lista \in Seq(Processos) /\ ToSet(lista) = prontos \ {alvo} /\ IsInjective(lista)
  <2>1. /\ lista \in Seq(Processos)
        /\ ToSet(lista) = ToSet(processos_rodando_novo) \cap (Processos \ {alvo})
        /\ IsInjective(lista)
    BY <1>3, FiltraElementos DEF remover_processo
  <2>2. QED BY <1>3, <2>1 DEF prontos
<1>5. /\ dorme \in Seq(Processos) /\ ToSet(dorme) = dormentes \ {alvo} /\ IsInjective(dorme)
  BY <1>3, TiraPrimeiro DEF dormentes
<1> HIDE DEF lista, dorme, atual
<1>6. /\ processos_dormindo' \in Seq(Processos)
      /\ IsInjective(processos_dormindo')
      /\ \E a \in Seq(Processos) :
            /\ ToSet(a) \cap dormentes' = {}
            /\ ToSet(a) \cup dormentes' = ToSet(dorme)
            /\ IsInjective(dorme) => IsInjective(a)
            /\ \A p \in ToSet(a) : Acorda(p)
            /\ estados_acordados(a) \in [Processos -> Estados]
            /\ configurar_proximo_processo(lista \o a, estados_acordados(a), atual,
                                           contexto, vivos \ {alvo})
  BY <1>1, <1>3, <1>4, <1>5, Timer
<1>7. PICK a \in Seq(Processos) :
            /\ ToSet(a) \cap dormentes' = {}
            /\ ToSet(a) \cup dormentes' = ToSet(dorme)
            /\ IsInjective(dorme) => IsInjective(a)
            /\ \A p \in ToSet(a) : Acorda(p)
            /\ estados_acordados(a) \in [Processos -> Estados]
            /\ configurar_proximo_processo(lista \o a, estados_acordados(a), atual,
                                           contexto, vivos \ {alvo})
  BY <1>6
<1>8. /\ lista \o a \in Seq(Processos)
      /\ ToSet(lista \o a) = ToSet(lista) \cup ToSet(a)
      /\ IsInjective(lista) /\ IsInjective(a) /\ ToSet(lista) \cap ToSet(a) = {}
           => IsInjective(lista \o a)
  BY <1>4, Juntas
<1>9. ToSet(lista) \cap ToSet(a) = {}
  BY <1>3, <1>4, <1>5, <1>7
<1>10. /\ ToSet(lista \o a) = (prontos \ {alvo}) \cup ToSet(a)
       /\ ToSet(a) \cup dormentes' = dormentes \ {alvo}
       /\ IsInjective(lista \o a)
  BY <1>4, <1>5, <1>7, <1>8, <1>9
<1>11. QED
  BY <1>1, <1>2, <1>6, <1>7, <1>8, <1>10 DEF alvo, lista, atual

\* Every step keeps the lists coherent.
LEMMA NextListas ==
    ASSUME GInv, Next
    PROVE  ListasCoerentes'
<1> SUFFICES ASSUME ligado, falha = "nenhuma" PROVE ListasCoerentes'
  <2>1. ~ funcionando => falha' = falha \/ ~ ligado'
    BY DEF Next, Executa, ExecutaSemProcesso, tratar_timer, PassaSegundo,
           syscall_0_fechar_processo, syscall_6_dormir_processo, ComandoLoad,
           ComandoLoadFalha, ComandoComExcecao, kill_process_pid,
           kill_process_pid_sem_idle, kill_process,
           tratar_excecao, RecarregaIdle, ComandoExit
  <2>2. ~ funcionando => ~ funcionando'
    BY <2>1 DEF funcionando, Next, Executa, ExecutaSemProcesso, tratar_timer, PassaSegundo,
           syscall_0_fechar_processo, syscall_6_dormir_processo, ComandoLoad,
           ComandoLoadFalha, ComandoComExcecao, kill_process_pid,
           kill_process_pid_sem_idle, kill_process,
           tratar_excecao, RecarregaIdle, ComandoExit
  <2>3. QED BY <2>2 DEF ListasCoerentes, funcionando
<1>1. /\ processos_rodando_novo \in Seq(Processos) /\ processos_dormindo \in Seq(Processos)
      /\ rodando \in Processos \cup {NULL} /\ idle \in Processos
      /\ estado \in [Processos -> Estados]
      /\ vivos \subseteq Processos /\ NULL \notin Processos
  BY EscalonadorAssumption DEF GInv, TypeOK, IdleNaoNulo, Estados
<1>2. /\ IsInjective(processos_rodando_novo) /\ IsInjective(processos_dormindo)
      /\ prontos \cap dormentes = {}
      /\ rodando \notin prontos \cup dormentes
      /\ prontos \cup dormentes \cup ({rodando} \ {NULL}) \subseteq vivos
      /\ idle \in vivos => idle \in idle_bin
      /\ dormentes \cap idle_bin = {}
      /\ idle_bin \subseteq vivos
  BY DEF GInv, ListasCoerentes, funcionando
<1>3. ASSUME processos_rodando_novo' = processos_rodando_novo, rodando' = rodando,
             processos_dormindo' = processos_dormindo, vivos' = vivos, idle' = idle,
             idle_bin' = idle_bin
      PROVE  ListasCoerentes'
  BY <1>2, <1>3 DEF ListasCoerentes, prontos, dormentes
<1>4. ASSUME NEW c \in Contextos, Executa(c) PROVE ListasCoerentes'
  BY <1>3, <1>4 DEF Executa, rodando
<1>5. ASSUME ExecutaSemProcesso PROVE ListasCoerentes'
  BY <1>3, <1>5 DEF ExecutaSemProcesso, rodando
<1>6. ASSUME tratar_timer PROVE ListasCoerentes'
  <2>1. /\ tratar_timer_com(processos_rodando_novo, processos_dormindo, rodando, vivos)
        /\ vivos' = vivos /\ idle' = idle /\ idle_bin' = idle_bin
    BY <1>6 DEF tratar_timer
  <2>2. /\ IsInjective(processos_dormindo')
        /\ \E a \in Seq(Processos) :
              /\ ToSet(a) \cap dormentes' = {}
              /\ ToSet(a) \cup dormentes' = dormentes
              /\ IsInjective(a)
              /\ configurar_proximo_processo(processos_rodando_novo \o a,
                    estados_acordados(a), rodando, contexto, vivos)
    BY <1>1, <1>2, <2>1, Timer DEF dormentes
  <2>3. PICK a \in Seq(Processos) :
              /\ ToSet(a) \cap dormentes' = {}
              /\ ToSet(a) \cup dormentes' = dormentes
              /\ IsInjective(a)
              /\ configurar_proximo_processo(processos_rodando_novo \o a,
                    estados_acordados(a), rodando, contexto, vivos)
    BY <2>2
  <2>4. /\ processos_rodando_novo \o a \in Seq(Processos)
        /\ ToSet(processos_rodando_novo \o a) = prontos \cup ToSet(a)
        /\ IsInjective(processos_rodando_novo \o a)
    <3>1. prontos \cap ToSet(a) = {}
      BY <1>2, <2>3
    <3>2. QED BY <1>1, <1>2, <2>3, <3>1, Juntas DEF prontos
  <2> DEFINE novos == processos_rodando_novo \o a
  <2>5. /\ ToSet(novos) \cap dormentes' = {} /\ rodando \notin ToSet(novos) \cup dormentes'
        /\ ToSet(novos) \cup dormentes' \cup ({rodando} \ {NULL}) \subseteq vivos'
        /\ dormentes' \cap idle_bin' = {}
    BY <1>2, <2>1, <2>3, <2>4
  <2>6. configurar_proximo_processo(novos, estados_acordados(a), rodando, contexto, vivos')
    BY <2>1, <2>3
  <2> HIDE DEF novos
  <2>7. QED BY <1>1, <1>2, <2>1, <2>2, <2>4, <2>5, <2>6, TrocaListas DEF novos
<1>7. ASSUME PassaSegundo PROVE ListasCoerentes'
  BY <1>3, <1>7 DEF PassaSegundo, rodando
<1>8. ASSUME syscall_0_fechar_processo PROVE ListasCoerentes'
  <2> DEFINE novos == remover_processo(processos_rodando_novo, rodando)
  <2>1. /\ rodando \in Processos /\ Apaga(rodando) /\ idle' = idle
        /\ processos_dormindo' = RemoveFirst(processos_dormindo, rodando)
        /\ configurar_proximo_processo(novos, estado, NULL, contexto, vivos \ {rodando})
    BY <1>1, <1>8 DEF syscall_0_fechar_processo
  <2>2. novos \in Seq(Processos) /\ IsInjective(novos) /\ ToSet(novos) \subseteq prontos
    BY <1>1, <1>2, FiltraElementos DEF remover_processo, prontos
  <2>3. IsInjective(processos_dormindo') /\ dormentes' = dormentes \ {rodando}
    BY <1>1, <1>2, <2>1, TiraPrimeiro DEF dormentes
  <2>4. vivos' = vivos \ {rodando} /\ idle_bin' = idle_bin \ {rodando}
    BY <2>1 DEF Apaga
  <2>5. configurar_proximo_processo(novos, estado, NULL, contexto, vivos')
    BY <2>1, <2>4
  <2> HIDE DEF novos
  <2>6. /\ ToSet(novos) \cap dormentes' = {} /\ NULL \notin ToSet(novos) \cup dormentes'
        /\ ToSet(novos) \cup dormentes' \cup ({NULL} \ {NULL}) \subseteq vivos'
        /\ dormentes' \cap idle_bin' = {} /\ idle_bin' \subseteq vivos'
        /\ idle \in vivos' => idle \in idle_bin'
    BY <1>1, <1>2, <2>2, <2>3, <2>4
  <2>7. NULL \in Processos \cup {NULL}
    OBVIOUS
  <2>8. QED BY <1>1, <2>1, <2>2, <2>3, <2>5, <2>6, <2>7, TrocaListas
<1>9. ASSUME NEW s \in Segundos, NEW c \in Contextos, syscall_6_dormir_processo(s, c)
      PROVE  ListasCoerentes'
  <2> DEFINE novos   == RemoveFirst(processos_rodando_novo, rodando)
             estados == [estado EXCEPT ![rodando] = "sleeping"]
             salvos  == [contexto EXCEPT ![rodando] = c]
  <2>1. /\ rodando \in Processos /\ rodando \notin idle_bin
        /\ processos_dormindo' = Append(processos_dormindo, rodando)
        /\ configurar_proximo_processo(novos, estados, NULL, salvos, vivos)
        /\ vivos' = vivos /\ idle_bin' = idle_bin /\ idle' = idle
    BY <1>1, <1>9 DEF syscall_6_dormir_processo
  <2>2. /\ novos \in Seq(Processos) /\ IsInjective(novos)
        /\ ToSet(novos) = prontos \ {rodando}
    BY <1>1, <1>2, TiraPrimeiro DEF prontos
  <2>3. IsInjective(processos_dormindo') /\ dormentes' = dormentes \cup {rodando}
    <3>1. rodando \notin ToSet(processos_dormindo)
      BY <1>2 DEF dormentes
    <3>2. QED BY <1>1, <1>2, <2>1, <3>1, ComMais DEF dormentes
  <2> HIDE DEF novos, estados, salvos
  <2>4. /\ ToSet(novos) \cap dormentes' = {} /\ NULL \notin ToSet(novos) \cup dormentes'
        /\ ToSet(novos) \cup dormentes' \cup ({NULL} \ {NULL}) \subseteq vivos'
        /\ dormentes' \cap idle_bin' = {} /\ idle_bin' \subseteq vivos'
        /\ idle \in vivos' => idle \in idle_bin'
    BY <1>1, <1>2, <2>1, <2>2, <2>3
  <2>5. configurar_proximo_processo(novos, estados, NULL, salvos, vivos')
    BY <2>1
  <2>6. NULL \in Processos \cup {NULL}
    OBVIOUS
  <2>7. QED BY <1>1, <2>1, <2>2, <2>3, <2>4, <2>5, <2>6, TrocaListas
<1>10. ASSUME NEW p \in Processos, ComandoLoad(p) PROVE ListasCoerentes'
  <2>1. /\ load_program(p, "outro.bin", rodando, processos_rodando_novo, vivos)
        /\ p = idle => falha' # "nenhuma"
        /\ idle' = idle /\ processos_dormindo' = processos_dormindo
    BY <1>10 DEF ComandoLoad
  <2>2. /\ ToSet(processos_rodando_novo) = prontos /\ dormentes' = dormentes
        /\ IsInjective(processos_dormindo') /\ vivos \in SUBSET Processos
    BY <1>1, <1>2, <2>1 DEF prontos, dormentes
  <2>3. /\ ToSet(processos_rodando_novo) \cap dormentes' = {}
        /\ rodando \notin ToSet(processos_rodando_novo) \cup dormentes'
        /\ ToSet(processos_rodando_novo) \cup dormentes' \cup ({rodando} \ {NULL})
             \subseteq vivos
        /\ idle \in vivos => idle \in idle_bin
        /\ dormentes' \cap idle_bin = {}
    BY <1>2, <2>2
  <2>4. QED BY <1>1, <1>2, <2>1, <2>2, <2>3, CargaListas
<1>11. ASSUME ComandoLoadFalha PROVE ListasCoerentes'
  BY <1>3, <1>11 DEF ComandoLoadFalha, rodando
<1>12. ASSUME ComandoComExcecao PROVE ListasCoerentes'
  BY <1>12 DEF ComandoComExcecao, ListasCoerentes, funcionando
<1>13. ASSUME NEW n, kill_process_pid(n) PROVE ListasCoerentes'
  <2>1. PICK alvo \in ({rodando} \ {NULL}) \cup prontos \cup dormentes,
              novos \in Seq(Processos), a \in Seq(Processos) :
              LET atual == IF alvo = rodando THEN NULL ELSE rodando IN
              /\ alvo \in Processos /\ Apaga(alvo)
              /\ ToSet(novos) = (prontos \ {alvo}) \cup ToSet(a)
              /\ ToSet(a) \cap dormentes' = {}
              /\ ToSet(a) \cup dormentes' = dormentes \ {alvo}
              /\ IsInjective(novos) /\ IsInjective(processos_dormindo')
              /\ configurar_proximo_processo(novos, estados_acordados(a), atual, contexto,
                                             vivos \ {alvo})
    BY <1>13, KillTroca
  <2> DEFINE atual == IF alvo = rodando THEN NULL ELSE rodando
  <2>2. /\ vivos' = vivos \ {alvo} /\ idle_bin' = idle_bin \ {alvo} /\ idle' = idle
    BY <1>13, <2>1 DEF Apaga, kill_process_pid
  <2>3. configurar_proximo_processo(novos, estados_acordados(a), atual, contexto, vivos')
    BY <2>1, <2>2
  <2>4. /\ atual \in Processos \cup {NULL} /\ atual # alvo /\ atual \in {rodando, NULL}
    BY <1>1, <2>1
  <2> HIDE DEF atual
  <2>5. /\ ToSet(novos) \cap dormentes' = {} /\ atual \notin ToSet(novos) \cup dormentes'
        /\ ToSet(novos) \cup dormentes' \cup ({atual} \ {NULL}) \subseteq vivos'
        /\ dormentes' \cap idle_bin' = {} /\ idle_bin' \subseteq vivos'
        /\ idle \in vivos' => idle \in idle_bin'
    BY <1>1, <1>2, <2>1, <2>2, <2>4
  <2>6. QED BY <1>1, <2>1, <2>2, <2>3, <2>4, <2>5, TrocaListas
<1>13a. ASSUME kill_process_pid_sem_idle PROVE ListasCoerentes'
  BY <1>13a DEF kill_process_pid_sem_idle, ListasCoerentes, funcionando
<1>14. ASSUME kill_process PROVE ListasCoerentes'
  BY <1>13, <1>14 DEF kill_process
<1>15. ASSUME NEW tipo \in Excecoes, tratar_excecao(tipo) PROVE ListasCoerentes'
  BY <1>14, <1>15 DEF tratar_excecao
<1>16. ASSUME NEW p \in Processos, RecarregaIdle(p) PROVE ListasCoerentes'
  <2> DEFINE novos == remover_processo(processos_rodando_novo, rodando)
             ficam == vivos \ {rodando}
  <2>1. /\ load_program(p, "idle.bin", NULL, novos, ficam)
        /\ processos_dormindo' = RemoveFirst(processos_dormindo, rodando)
        /\ idle' = idle
    BY <1>16 DEF RecarregaIdle
  <2>2. novos \in Seq(Processos) /\ IsInjective(novos) /\ ToSet(novos) \subseteq prontos
    BY <1>1, <1>2, FiltraElementos DEF remover_processo, prontos
  <2>3. IsInjective(processos_dormindo') /\ dormentes' = dormentes \ {rodando}
    BY <1>1, <1>2, <2>1, TiraPrimeiro DEF dormentes
  <2> HIDE DEF novos
  <2>4. /\ ToSet(novos) \cap dormentes' = {} /\ NULL \notin ToSet(novos) \cup dormentes'
        /\ ToSet(novos) \cup dormentes' \cup ({NULL} \ {NULL}) \subseteq ficam
        /\ idle \in ficam => idle \in idle_bin
        /\ dormentes' \cap idle_bin = {}
    BY <1>1, <1>2, <2>2, <2>3
  <2>5. ficam \in SUBSET Processos /\ NULL \in Processos \cup {NULL}
    BY <1>1
  <2> HIDE DEF ficam
  <2>6. QED BY <1>1, <2>1, <2>2, <2>3, <2>4, <2>5, CargaListas
<1>17. ASSUME ComandoExit PROVE ListasCoerentes'
  BY <1>17 DEF ComandoExit, ListasCoerentes, funcionando
<1>18. QED
  BY <1>4, <1>5, <1>6, <1>7, <1>8, <1>9, <1>10, <1>11, <1>12, <1>13, <1>14, <1>15, <1>16,
     <1>17, <1>13a DEF Next

LEMMA InitGeral == Init => GInv
<1> SUFFICES ASSUME Init PROVE GInv
  OBVIOUS
<1>1. /\ Idle \in Processos /\ NULL \notin Processos /\ Novo \in Contextos
      /\ 0 \in 0 .. TEMPO_MOD - 1 /\ 0 \in 0 .. MAX_TEMPO /\ 0 \in 0 .. PID_MOD - 1
  BY EscalonadorAssumption
<1>2. 2 % PID_MOD \in 0 .. PID_MOD - 1
  <2>1. PID_MOD \in Nat \ {0} /\ 2 \in Int
    BY EscalonadorAssumption
  <2>2. QED BY <2>1, Restos
<1>3. <<>> \in Seq(Processos)
  OBVIOUS
<1>4. TypeOK
  BY <1>1, <1>2, <1>3 DEF Init, TypeOK, rodando
<1>5. ToSet(<<>>) = {} /\ IsInjective(<<>>)
  BY ListaVazia
<1>6. QED BY <1>1, <1>4, <1>5 DEF Init, GInv, IdleNaoNulo, ListasCoerentes, rodando, prontos,
                                dormentes

LEMMA NextGeral == GInv /\ [Next]_vars => GInv'
<1> SUFFICES ASSUME GInv, [Next]_vars PROVE GInv'
  OBVIOUS
<1>1. CASE Next
  <2>1. TypeOK'
    BY <1>1, NextTipos DEF GInv
  <2>2. ListasCoerentes'
    BY <1>1, NextListas
  <2>3. ligado' => ligado /\ idle' = idle
    BY <1>1 DEF Next, Executa, ExecutaSemProcesso, tratar_timer, PassaSegundo, funcionando,
           syscall_0_fechar_processo, syscall_6_dormir_processo, ComandoLoad,
           ComandoLoadFalha, ComandoComExcecao, kill_process_pid,
           kill_process_pid_sem_idle, kill_process,
           tratar_excecao, RecarregaIdle, ComandoExit
  <2>4. QED BY <2>1, <2>2, <2>3 DEF GInv, IdleNaoNulo
<1>2. CASE UNCHANGED vars
  BY <1>2 DEF vars, GInv, TypeOK, IdleNaoNulo, ListasCoerentes, funcionando, rodando, prontos,
              dormentes
<1>3. QED BY <1>1, <1>2

LEMMA GeralSempre == Spec => []GInv
<1>1. Init => GInv
  BY InitGeral
<1>2. GInv /\ [Next]_vars => GInv'
  BY NextGeral
<1>3. QED BY <1>1, <1>2, PTL DEF Spec

\* The variables of the kernel's scheduler have their types, whatever processes, idle.bin
\* and the user do.
THEOREM TiposCertos == Spec => []TypeOK
<1>1. GInv => TypeOK
  BY DEF GInv
<1>2. QED BY <1>1, GeralSempre, PTL

\* No list, nor the CPU, holds a Process that was deleted, even after idle.bin was
\* deleted and loaded again (remover_processo, kill_process_pid,
\* syscall_0_fechar_processo, tratar_interrupcao_GPFinvalidInstruction).
THEOREM NenhumApagado == Spec => []ListasVivas
<1>1. GInv => ListasVivas
  BY DEF GInv, ListasCoerentes, ListasVivas
<1>2. QED BY <1>1, GeralSempre, PTL

-----------------------------------------------------------------------------
(***************************************************************************)
(* What holds when idle.bin executes no invalid instruction, as the one of  *)
(* the repository does not: otherwise IdleRecarregada is violated, and with *)
(* it the others.                                                           *)
(***************************************************************************)

\* The pointer idle never moves, and something always runs.
IdleFirme ==
    ligado => /\ idle = Idle /\ Idle \in vivos /\ idle_bin = {Idle}
              /\ falha = "nenhuma" /\ rodando # NULL

FirmeInv ==
    GInv /\ IdleFirme /\ UmLugarSo /\ EstadoCoerente /\ ContextoPreservado /\ IdleSoSemProntos

\* What configurar_proximo_processo needs of the lists, the states and the contexts it
\* is called with, and what it leaves.
LEMMA TrocaFirme ==
    ASSUME NEW novos \in Seq(Processos), NEW estados \in [Processos -> Estados],
           NEW atual \in Processos \cup {NULL}, NEW salvos \in [Processos -> Contextos],
           idle \in Processos, idle' = idle, cpu_contexto \in Contextos,
           vivos' \subseteq Processos, idle \in vivos',
           configurar_proximo_processo(novos, estados, atual, salvos, vivos'),
           IsInjective(novos), IsInjective(processos_dormindo'),
           ToSet(novos) \cap dormentes' = {}, atual \notin ToSet(novos) \cup dormentes',
           idle \notin ToSet(novos) \cup dormentes',
           ToSet(novos) \cup dormentes' \cup ({atual} \ {NULL, idle}) = vivos' \ {idle},
           \A p \in ToSet(novos) : estados[p] = "ready",
           \A p \in dormentes' : estados[p] = "sleeping",
           \A p \in vivos' \ {idle} : feito'[p] = Deixado(atual, salvos, p)
    PROVE  /\ UmLugarSo' /\ EstadoCoerente' /\ ContextoPreservado' /\ IdleSoSemProntos'
           /\ falha' = "nenhuma" /\ rodando' # NULL
<1> DEFINE C == Candidatos(novos, atual)
<1>1. /\ rodando' \in Processos
      /\ C = {} => rodando' = idle /\ processos_rodando_novo' = <<>>
      /\ C # {} => C = {rodando'} \cup prontos' /\ rodando' \notin prontos'
      /\ IsInjective(processos_rodando_novo')
      /\ cpu_tabela' = rodando'
      /\ falha' = IF rodando' \in vivos' THEN "nenhuma" ELSE "idle_pendente"
  BY ConfiguraFila
<1>2. /\ \A p \in Processos :
            estado'[p] = IF p = rodando' THEN "running"
                         ELSE IF p = atual \/ p \notin vivos' THEN "ready"
                         ELSE estados[p]
      /\ \A p \in Processos : p \in vivos' => contexto'[p] = Deixado(atual, salvos, p)
      /\ cpu_contexto' = Deixado(atual, salvos, rodando')
  <2>1. Configurados(estados, atual, salvos, vivos')
    BY ConfiguraContextos
  <2>2. QED BY <2>1 DEF Configurados
<1>3. C = ToSet(novos) \cup ({atual} \ {NULL, idle})
  BY DEF Candidatos
<1> HIDE DEF C
<1>4. NULL \notin Processos /\ ToSet(<<>>) = {}
  BY EscalonadorAssumption, ListaVazia
<1>5. /\ C = {} => prontos' = {} /\ rodando' = idle
      /\ rodando' \in vivos'
      /\ rodando' # idle => rodando' \in C
      /\ prontos' = C \ {rodando'}
  <2>1. CASE C = {}
    BY <1>1, <1>4, <2>1 DEF prontos
  <2>2. CASE C # {}
    BY <1>1, <1>3, <2>2
  <2>3. QED BY <2>1, <2>2
<1>6. falha' = "nenhuma" /\ rodando' # NULL
  BY <1>1, <1>4, <1>5
<1>7. IdleSoSemProntos'
  <2>1. rodando' = idle => C = {}
    BY <1>1, <1>3
  <2>2. QED BY <1>1, <2>1 DEF IdleSoSemProntos
<1>8. UmLugarSo'
  <2>1. /\ prontos' \cap dormentes' = {}
        /\ prontos' \cup dormentes' = vivos' \ {rodando', idle}
        /\ {rodando', idle} \cap (prontos' \cup dormentes') = {}
    <3>1. C \cap dormentes' = {} /\ C \cup dormentes' = vivos' \ {idle} /\ idle \notin C
      BY <1>3
    <3>2. rodando' \notin dormentes'
      BY <1>5, <3>1
    <3>3. QED BY <1>5, <3>1, <3>2
  <2>2. QED BY <1>1, <2>1 DEF UmLugarSo
<1>9. EstadoCoerente'
  <2>1. ASSUME NEW p \in prontos' PROVE estado'[p] = "ready"
    <3>1. p \in Processos /\ p # rodando' /\ (p = atual \/ p \in ToSet(novos))
      BY <1>3, <1>5
    <3>2. QED BY <1>2, <3>1
  <2>2. ASSUME NEW p \in dormentes' PROVE estado'[p] = "sleeping"
    <3>1. p \in Processos /\ p # rodando' /\ p # atual /\ p \in vivos'
      BY <1>3, <1>5
    <3>2. QED BY <1>2, <3>1
  <2>3. estado'[rodando'] = "running"
    BY <1>1, <1>2
  <2>4. QED BY <2>1, <2>2, <2>3 DEF EstadoCoerente
<1>10. ContextoPreservado'
  <2>1. ASSUME NEW p \in vivos' \ {idle}
        PROVE  feito'[p] = IF p = rodando' THEN cpu_contexto' ELSE contexto'[p]
    BY <1>2
  <2>2. QED BY <1>1, <2>1 DEF ContextoPreservado
<1>11. QED BY <1>6, <1>7, <1>8, <1>9, <1>10

LEMMA KillFirme ==
    ASSUME FirmeInv, NEW n, kill_process_pid(n)
    PROVE  /\ UmLugarSo' /\ EstadoCoerente' /\ ContextoPreservado' /\ IdleSoSemProntos'
           /\ IdleFirme'
<1>1. PICK alvo \in ({rodando} \ {NULL}) \cup prontos \cup dormentes,
            novos \in Seq(Processos), a \in Seq(Processos) :
            LET atual == IF alvo = rodando THEN NULL ELSE rodando IN
            /\ alvo = Alvo(n) /\ alvo \in Processos /\ Apaga(alvo)
            /\ ToSet(novos) = (prontos \ {alvo}) \cup ToSet(a)
            /\ ToSet(a) \cap dormentes' = {}
            /\ ToSet(a) \cup dormentes' = dormentes \ {alvo}
            /\ IsInjective(novos) /\ IsInjective(processos_dormindo')
            /\ estados_acordados(a) \in [Processos -> Estados]
            /\ configurar_proximo_processo(novos, estados_acordados(a), atual, contexto,
                                           vivos \ {alvo})
  BY KillTroca DEF FirmeInv
<1>2. /\ funcionando /\ idle' = idle /\ ligado' = ligado
      /\ vivos' = vivos \ {alvo} /\ idle_bin' = idle_bin \ {alvo}
      /\ feito' = [feito EXCEPT ![alvo] = Novo]
  BY <1>1 DEF kill_process_pid, Apaga
<1>3. /\ idle = Idle /\ idle \in Processos /\ idle \in vivos /\ idle_bin = {idle}
      /\ rodando \in Processos /\ vivos \subseteq Processos /\ NULL \notin Processos
      /\ cpu_contexto \in Contextos /\ contexto \in [Processos -> Contextos]
      /\ feito \in [Processos -> Contextos]
  BY <1>2, EscalonadorAssumption DEF FirmeInv, GInv, IdleFirme, TypeOK, funcionando
<1>4. /\ prontos \cap dormentes = {}
      /\ prontos \cup dormentes = vivos \ {rodando, idle}
      /\ {rodando, idle} \cap (prontos \cup dormentes) = {}
  BY <1>2 DEF FirmeInv, UmLugarSo
<1>5. /\ \A p \in prontos : estado[p] = "ready"
      /\ \A p \in dormentes : estado[p] = "sleeping"
      /\ \A p \in vivos \ {idle} : feito[p] = IF p = rodando THEN cpu_contexto ELSE contexto[p]
  BY <1>2 DEF FirmeInv, EstadoCoerente, ContextoPreservado
<1>6. alvo # idle
  <2>1. Alvo(n) # NULL /\ TypeOK
    BY <1>1, <1>3 DEF FirmeInv, GInv
  <2>2. QED BY <1>1, <1>3, <1>4, <2>1, AlvoAchado
<1> DEFINE atual   == IF alvo = rodando THEN NULL ELSE rodando
           estados == estados_acordados(a)
<1>7. /\ configurar_proximo_processo(novos, estados, atual, contexto, vivos')
      /\ estados \in [Processos -> Estados]
  BY <1>1, <1>2
<1>8. \A p \in Processos : estados[p] = IF p \in ToSet(a) THEN "ready" ELSE estado[p]
  BY DEF estados_acordados
<1>9. /\ atual \in Processos \cup {NULL} /\ atual # alvo
      /\ alvo # rodando => atual = rodando
      /\ alvo = rodando => atual = NULL
  BY <1>1, <1>3
<1> HIDE DEF atual, estados
<1>10. /\ ToSet(novos) \cap dormentes' = {} /\ atual \notin ToSet(novos) \cup dormentes'
       /\ idle \notin ToSet(novos) \cup dormentes'
       /\ ToSet(novos) \cup dormentes' \cup ({atual} \ {NULL, idle}) = vivos' \ {idle}
       /\ idle \in vivos'
  <2>1. ToSet(novos) \cap dormentes' = {} /\ ToSet(novos) \cup dormentes' = (prontos \cup dormentes) \ {alvo}
    BY <1>1, <1>4
  <2>2. CASE alvo = rodando
    BY <1>2, <1>3, <1>4, <1>6, <1>9, <2>1, <2>2
  <2>3. CASE alvo # rodando
    <3>1. atual = rodando /\ alvo \in prontos \cup dormentes
      BY <1>1, <1>9, <2>3
    <3>2. ToSet(novos) \cup dormentes' \cup ({atual} \ {NULL, idle}) = vivos' \ {idle}
      <4>1. {atual} \ {NULL, idle} = {rodando} \ {idle}
        BY <1>3, <3>1
      <4>2. ((prontos \cup dormentes) \ {alvo}) \cup ({rodando} \ {idle}) = vivos' \ {idle}
        <5>1. prontos \cup dormentes \cup ({rodando} \ {idle}) = vivos \ {idle}
          <6>1. rodando \in vivos
            BY <1>2, <1>3 DEF FirmeInv, GInv, ListasCoerentes
          <6>2. QED BY <1>4, <6>1
        <5>2. QED BY <1>2, <2>3, <5>1
      <4>3. QED BY <2>1, <4>1, <4>2
    <3>3. atual \notin ToSet(novos) \cup dormentes' /\ idle \notin ToSet(novos) \cup dormentes'
      BY <1>4, <2>1, <3>1
    <3>4. QED BY <1>2, <1>3, <1>6, <2>1, <3>2, <3>3
  <2>4. QED BY <2>2, <2>3
<1>11. \A p \in ToSet(novos) : estados[p] = "ready"
  BY <1>1, <1>3, <1>4, <1>5, <1>8
<1>12. \A p \in dormentes' : estados[p] = "sleeping"
  BY <1>1, <1>3, <1>4, <1>5, <1>8
<1>13. \A p \in vivos' \ {idle} : feito'[p] = Deixado(atual, contexto, p)
  BY <1>2, <1>3, <1>5, <1>9 DEF Deixado
<1>14. vivos' \subseteq Processos
  BY <1>2, <1>3
<1>15. /\ UmLugarSo' /\ EstadoCoerente' /\ ContextoPreservado' /\ IdleSoSemProntos'
       /\ falha' = "nenhuma" /\ rodando' # NULL
  BY <1>1, <1>2, <1>3, <1>7, <1>9, <1>10, <1>11, <1>12, <1>13, <1>14, TrocaFirme
<1>16. IdleFirme'
  BY <1>2, <1>3, <1>6, <1>15 DEF IdleFirme
<1>17. QED BY <1>15, <1>16

\* The facts every step starts from.
LEMMA Fatos ==
    ASSUME FirmeInv, funcionando
    PROVE  /\ idle = Idle /\ idle \in Processos /\ idle \in vivos /\ idle_bin = {idle}
           /\ rodando \in Processos /\ rodando \in vivos
           /\ vivos \subseteq Processos /\ NULL \notin Processos
           /\ processos_rodando_novo \in Seq(Processos) /\ processos_dormindo \in Seq(Processos)
           /\ cpu_contexto \in Contextos /\ contexto \in [Processos -> Contextos]
           /\ feito \in [Processos -> Contextos] /\ estado \in [Processos -> Estados]
           /\ IsInjective(processos_rodando_novo) /\ IsInjective(processos_dormindo)
           /\ prontos \cap dormentes = {}
           /\ prontos \cup dormentes = vivos \ {rodando, idle}
           /\ {rodando, idle} \cap (prontos \cup dormentes) = {}
           /\ \A p \in prontos : estado[p] = "ready"
           /\ \A p \in dormentes : estado[p] = "sleeping"
           /\ estado[rodando] = "running"
           /\ rodando = cpu_tabela
           /\ \A p \in vivos \ {idle} :
                 feito[p] = IF p = rodando THEN cpu_contexto ELSE contexto[p]
<1>1. /\ idle = Idle /\ idle \in Processos /\ idle \in vivos /\ idle_bin = {idle}
      /\ rodando \in Processos /\ rodando \in vivos
      /\ vivos \subseteq Processos /\ NULL \notin Processos
  BY EscalonadorAssumption
  DEF FirmeInv, GInv, IdleFirme, TypeOK, funcionando, ListasCoerentes
<1>2. /\ processos_rodando_novo \in Seq(Processos) /\ processos_dormindo \in Seq(Processos)
      /\ cpu_contexto \in Contextos /\ contexto \in [Processos -> Contextos]
      /\ feito \in [Processos -> Contextos] /\ estado \in [Processos -> Estados]
  BY DEF FirmeInv, GInv, TypeOK, Estados
<1>3. /\ IsInjective(processos_rodando_novo) /\ IsInjective(processos_dormindo)
      /\ prontos \cap dormentes = {}
      /\ prontos \cup dormentes = vivos \ {rodando, idle}
      /\ {rodando, idle} \cap (prontos \cup dormentes) = {}
  BY DEF FirmeInv, UmLugarSo
<1>4. /\ \A p \in prontos : estado[p] = "ready"
      /\ \A p \in dormentes : estado[p] = "sleeping"
      /\ estado[rodando] = "running"
      /\ rodando = cpu_tabela
      /\ \A p \in vivos \ {idle} :
            feito[p] = IF p = rodando THEN cpu_contexto ELSE contexto[p]
  BY <1>1 DEF FirmeInv, EstadoCoerente, ContextoPreservado
<1>5. QED BY <1>1, <1>2, <1>3, <1>4

Firmes == UmLugarSo /\ EstadoCoerente /\ ContextoPreservado /\ IdleSoSemProntos /\ IdleFirme

LEMMA TimerFirme ==
    ASSUME FirmeInv, tratar_timer
    PROVE  Firmes'
<1>1. /\ funcionando /\ FirmeInv
      /\ tratar_timer_com(processos_rodando_novo, processos_dormindo, rodando, vivos)
      /\ vivos' = vivos /\ idle' = idle /\ idle_bin' = idle_bin /\ feito' = feito
      /\ ligado' = ligado
  BY DEF tratar_timer
<1>2. /\ idle = Idle /\ idle \in Processos /\ idle \in vivos /\ idle_bin = {idle}
      /\ rodando \in Processos /\ rodando \in vivos
      /\ vivos \subseteq Processos /\ NULL \notin Processos
      /\ processos_rodando_novo \in Seq(Processos) /\ processos_dormindo \in Seq(Processos)
      /\ cpu_contexto \in Contextos /\ contexto \in [Processos -> Contextos]
      /\ estado \in [Processos -> Estados]
      /\ IsInjective(processos_rodando_novo) /\ IsInjective(processos_dormindo)
  BY <1>1, Fatos
<1>3. /\ prontos \cap dormentes = {}
      /\ prontos \cup dormentes = vivos \ {rodando, idle}
      /\ {rodando, idle} \cap (prontos \cup dormentes) = {}
      /\ \A p \in prontos : estado[p] = "ready"
      /\ \A p \in dormentes : estado[p] = "sleeping"
      /\ \A p \in vivos \ {idle} :
            feito[p] = IF p = rodando THEN cpu_contexto ELSE contexto[p]
  BY <1>1, Fatos
<1>4. /\ IsInjective(processos_dormindo')
      /\ \E a \in Seq(Processos) :
            /\ ToSet(a) \cap dormentes' = {}
            /\ ToSet(a) \cup dormentes' = dormentes
            /\ IsInjective(a)
            /\ estados_acordados(a) \in [Processos -> Estados]
            /\ configurar_proximo_processo(processos_rodando_novo \o a,
                  estados_acordados(a), rodando, contexto, vivos)
  BY <1>1, <1>2, Timer DEF dormentes
<1>5. PICK a \in Seq(Processos) :
            /\ ToSet(a) \cap dormentes' = {}
            /\ ToSet(a) \cup dormentes' = dormentes
            /\ IsInjective(a)
            /\ estados_acordados(a) \in [Processos -> Estados]
            /\ configurar_proximo_processo(processos_rodando_novo \o a,
                  estados_acordados(a), rodando, contexto, vivos)
  BY <1>4
<1> DEFINE novos   == processos_rodando_novo \o a
           estados == estados_acordados(a)
<1>6. /\ novos \in Seq(Processos) /\ ToSet(novos) = prontos \cup ToSet(a)
      /\ IsInjective(novos)
  <2>1. prontos \cap ToSet(a) = {}
    BY <1>3, <1>5
  <2>2. QED BY <1>2, <1>5, <2>1, Juntas DEF prontos
<1>7. /\ configurar_proximo_processo(novos, estados, rodando, contexto, vivos')
      /\ estados \in [Processos -> Estados]
  BY <1>1, <1>5
<1>8. \A p \in Processos : estados[p] = IF p \in ToSet(a) THEN "ready" ELSE estado[p]
  BY DEF estados_acordados
<1> HIDE DEF novos, estados
<1>9. /\ ToSet(novos) \cap dormentes' = {} /\ rodando \notin ToSet(novos) \cup dormentes'
      /\ idle \notin ToSet(novos) \cup dormentes' /\ idle \in vivos'
      /\ ToSet(novos) \cup dormentes' \cup ({rodando} \ {NULL, idle}) = vivos' \ {idle}
  <2>1. ToSet(novos) \cap dormentes' = {} /\ ToSet(novos) \cup dormentes' = prontos \cup dormentes
    BY <1>3, <1>5, <1>6
  <2>2. {rodando} \ {NULL, idle} = {rodando} \ {idle}
    BY <1>2
  <2>3. QED BY <1>1, <1>2, <1>3, <2>1, <2>2
<1>10. \A p \in ToSet(novos) : estados[p] = "ready"
  BY <1>2, <1>3, <1>5, <1>6, <1>8
<1>11. \A p \in dormentes' : estados[p] = "sleeping"
  BY <1>2, <1>3, <1>5, <1>8
<1>12. \A p \in vivos' \ {idle} : feito'[p] = Deixado(rodando, contexto, p)
  BY <1>1, <1>3 DEF Deixado
<1>13. rodando \in Processos \cup {NULL} /\ vivos' \subseteq Processos
  BY <1>1, <1>2
<1>14. /\ UmLugarSo' /\ EstadoCoerente' /\ ContextoPreservado' /\ IdleSoSemProntos'
       /\ falha' = "nenhuma" /\ rodando' # NULL
  BY <1>1, <1>2, <1>4, <1>6, <1>7, <1>9, <1>10, <1>11, <1>12, <1>13, TrocaFirme
<1>15. QED BY <1>1, <1>2, <1>14 DEF Firmes, IdleFirme

LEMMA FechaFirme ==
    ASSUME FirmeInv, syscall_0_fechar_processo
    PROVE  Firmes'
<1> DEFINE novos == remover_processo(processos_rodando_novo, rodando)
<1>1. /\ funcionando /\ FirmeInv /\ rodando \notin idle_bin /\ Apaga(rodando)
      /\ processos_dormindo' = RemoveFirst(processos_dormindo, rodando)
      /\ configurar_proximo_processo(novos, estado, NULL, contexto, vivos \ {rodando})
      /\ idle' = idle /\ ligado' = ligado
  BY DEF syscall_0_fechar_processo
<1>2. /\ idle = Idle /\ idle \in Processos /\ idle \in vivos /\ idle_bin = {idle}
      /\ rodando \in Processos /\ rodando \in vivos
      /\ vivos \subseteq Processos /\ NULL \notin Processos
      /\ processos_rodando_novo \in Seq(Processos) /\ processos_dormindo \in Seq(Processos)
      /\ cpu_contexto \in Contextos /\ contexto \in [Processos -> Contextos]
      /\ estado \in [Processos -> Estados] /\ feito \in [Processos -> Contextos]
      /\ IsInjective(processos_rodando_novo) /\ IsInjective(processos_dormindo)
  BY <1>1, Fatos
<1>3. /\ prontos \cap dormentes = {}
      /\ prontos \cup dormentes = vivos \ {rodando, idle}
      /\ {rodando, idle} \cap (prontos \cup dormentes) = {}
      /\ \A p \in prontos : estado[p] = "ready"
      /\ \A p \in dormentes : estado[p] = "sleeping"
      /\ \A p \in vivos \ {idle} :
            feito[p] = IF p = rodando THEN cpu_contexto ELSE contexto[p]
  BY <1>1, Fatos
<1>4. /\ vivos' = vivos \ {rodando} /\ idle_bin' = idle_bin \ {rodando}
      /\ feito' = [feito EXCEPT ![rodando] = Novo]
      /\ rodando # idle
  BY <1>1, <1>2 DEF Apaga
<1>5. novos \in Seq(Processos) /\ IsInjective(novos) /\ ToSet(novos) = prontos
  <2>1. /\ novos \in Seq(Processos) /\ IsInjective(novos)
        /\ ToSet(novos) = prontos \cap (Processos \ {rodando})
    BY <1>2, FiltraElementos DEF remover_processo, prontos
  <2>2. QED BY <1>2, <1>3, <2>1
<1>6. processos_dormindo' = processos_dormindo /\ dormentes' = dormentes
  BY <1>1, <1>2, <1>3, TiraPrimeiro DEF dormentes
<1>7. configurar_proximo_processo(novos, estado, NULL, contexto, vivos')
  BY <1>1, <1>4
<1> HIDE DEF novos
<1>8. /\ ToSet(novos) \cap dormentes' = {} /\ NULL \notin ToSet(novos) \cup dormentes'
      /\ idle \notin ToSet(novos) \cup dormentes' /\ idle \in vivos'
      /\ ToSet(novos) \cup dormentes' \cup ({NULL} \ {NULL, idle}) = vivos' \ {idle}
  BY <1>2, <1>3, <1>4, <1>5, <1>6
<1>9. \A p \in ToSet(novos) : estado[p] = "ready"
  BY <1>3, <1>5
<1>10. \A p \in dormentes' : estado[p] = "sleeping"
  BY <1>3, <1>6
<1>11. \A p \in vivos' \ {idle} : feito'[p] = Deixado(NULL, contexto, p)
  BY <1>2, <1>3, <1>4 DEF Deixado
<1>12. /\ NULL \in Processos \cup {NULL} /\ vivos' \subseteq Processos
       /\ IsInjective(processos_dormindo')
  BY <1>2, <1>4, <1>6
<1>13. /\ UmLugarSo' /\ EstadoCoerente' /\ ContextoPreservado' /\ IdleSoSemProntos'
       /\ falha' = "nenhuma" /\ rodando' # NULL
  BY <1>1, <1>2, <1>5, <1>7, <1>8, <1>9, <1>10, <1>11, <1>12, TrocaFirme
<1>14. QED BY <1>1, <1>2, <1>4, <1>13 DEF Firmes, IdleFirme

LEMMA DormeFirme ==
    ASSUME FirmeInv, NEW s \in Segundos, NEW c \in Contextos, syscall_6_dormir_processo(s, c)
    PROVE  Firmes'
<1> DEFINE novos   == RemoveFirst(processos_rodando_novo, rodando)
           estados == [estado EXCEPT ![rodando] = "sleeping"]
           salvos  == [contexto EXCEPT ![rodando] = c]
<1>1. /\ funcionando /\ FirmeInv /\ rodando \notin idle_bin
      /\ processos_dormindo' = Append(processos_dormindo, rodando)
      /\ feito' = [feito EXCEPT ![rodando] = c]
      /\ configurar_proximo_processo(novos, estados, NULL, salvos, vivos)
      /\ vivos' = vivos /\ idle_bin' = idle_bin /\ idle' = idle /\ ligado' = ligado
  BY DEF syscall_6_dormir_processo
<1>2. /\ idle = Idle /\ idle \in Processos /\ idle \in vivos /\ idle_bin = {idle}
      /\ rodando \in Processos /\ rodando \in vivos
      /\ vivos \subseteq Processos /\ NULL \notin Processos
      /\ processos_rodando_novo \in Seq(Processos) /\ processos_dormindo \in Seq(Processos)
      /\ cpu_contexto \in Contextos /\ contexto \in [Processos -> Contextos]
      /\ estado \in [Processos -> Estados] /\ feito \in [Processos -> Contextos]
      /\ IsInjective(processos_rodando_novo) /\ IsInjective(processos_dormindo)
  BY <1>1, Fatos
<1>3. /\ prontos \cap dormentes = {}
      /\ prontos \cup dormentes = vivos \ {rodando, idle}
      /\ {rodando, idle} \cap (prontos \cup dormentes) = {}
      /\ \A p \in prontos : estado[p] = "ready"
      /\ \A p \in dormentes : estado[p] = "sleeping"
      /\ \A p \in vivos \ {idle} :
            feito[p] = IF p = rodando THEN cpu_contexto ELSE contexto[p]
  BY <1>1, Fatos
<1>4. novos \in Seq(Processos) /\ IsInjective(novos) /\ ToSet(novos) = prontos
  <2>1. rodando \notin ToSet(processos_rodando_novo)
    BY <1>3 DEF prontos
  <2>2. novos = processos_rodando_novo
    BY <1>2, <2>1, TiraPrimeiro
  <2>3. QED BY <1>2, <2>2 DEF prontos
<1>5. IsInjective(processos_dormindo') /\ dormentes' = dormentes \cup {rodando}
  <2>1. rodando \notin ToSet(processos_dormindo)
    BY <1>3 DEF dormentes
  <2>2. QED BY <1>1, <1>2, <2>1, ComMais DEF dormentes
<1>6. /\ estados \in [Processos -> Estados] /\ salvos \in [Processos -> Contextos]
      /\ \A p \in Processos : estados[p] = IF p = rodando THEN "sleeping" ELSE estado[p]
      /\ \A p \in Processos : salvos[p] = IF p = rodando THEN c ELSE contexto[p]
      /\ \A p \in Processos : feito'[p] = IF p = rodando THEN c ELSE feito[p]
  BY <1>1, <1>2 DEF Estados
<1>7. configurar_proximo_processo(novos, estados, NULL, salvos, vivos')
  BY <1>1
<1> HIDE DEF novos, estados, salvos
<1>8. /\ ToSet(novos) \cap dormentes' = {} /\ NULL \notin ToSet(novos) \cup dormentes'
      /\ idle \notin ToSet(novos) \cup dormentes' /\ idle \in vivos'
      /\ ToSet(novos) \cup dormentes' \cup ({NULL} \ {NULL, idle}) = vivos' \ {idle}
  <2>1. rodando # idle
    BY <1>1, <1>2
  <2>2. QED BY <1>1, <1>2, <1>3, <1>4, <1>5, <2>1
<1>9. \A p \in ToSet(novos) : estados[p] = "ready"
  BY <1>2, <1>3, <1>4, <1>6
<1>10. \A p \in dormentes' : estados[p] = "sleeping"
  BY <1>2, <1>3, <1>5, <1>6
<1>11. \A p \in vivos' \ {idle} : feito'[p] = Deixado(NULL, salvos, p)
  BY <1>1, <1>2, <1>3, <1>6 DEF Deixado
<1>12. NULL \in Processos \cup {NULL} /\ vivos' \subseteq Processos
  BY <1>1, <1>2
<1>13. /\ UmLugarSo' /\ EstadoCoerente' /\ ContextoPreservado' /\ IdleSoSemProntos'
       /\ falha' = "nenhuma" /\ rodando' # NULL
  BY <1>1, <1>2, <1>4, <1>5, <1>6, <1>7, <1>8, <1>9, <1>10, <1>11, <1>12, TrocaFirme
<1>14. QED BY <1>1, <1>2, <1>13 DEF Firmes, IdleFirme

\* load_program gives the CPU the context of the process it loads: right only because
\* idle has the CPU when no process is ready, so that the first of the list is that one.
LEMMA CargaFirme ==
    ASSUME FirmeInv, NEW p \in Processos, ComandoLoad(p)
    PROVE  Firmes'
<1>1. /\ funcionando /\ FirmeInv /\ p \notin vivos
      /\ load_program(p, "outro.bin", rodando, processos_rodando_novo, vivos)
      /\ falha' = IF p = idle THEN "idle_trocada" ELSE "nenhuma"
      /\ idle' = idle /\ ligado' = ligado /\ dormentes' = dormentes
      /\ processos_dormindo' = processos_dormindo
  BY DEF ComandoLoad, load_program, dormentes
<1>2. /\ idle = Idle /\ idle \in Processos /\ idle \in vivos /\ idle_bin = {idle}
      /\ rodando \in Processos /\ rodando \in vivos
      /\ vivos \subseteq Processos /\ NULL \notin Processos
      /\ processos_rodando_novo \in Seq(Processos) /\ processos_dormindo \in Seq(Processos)
      /\ cpu_contexto \in Contextos /\ contexto \in [Processos -> Contextos]
      /\ estado \in [Processos -> Estados] /\ feito \in [Processos -> Contextos]
      /\ IsInjective(processos_rodando_novo) /\ IsInjective(processos_dormindo)
  BY <1>1, Fatos
<1>3. /\ prontos \cap dormentes = {}
      /\ prontos \cup dormentes = vivos \ {rodando, idle}
      /\ {rodando, idle} \cap (prontos \cup dormentes) = {}
      /\ \A q \in prontos : estado[q] = "ready"
      /\ \A q \in dormentes : estado[q] = "sleeping"
      /\ estado[rodando] = "running" /\ rodando = cpu_tabela
      /\ \A q \in vivos \ {idle} :
            feito[q] = IF q = rodando THEN cpu_contexto ELSE contexto[q]
  BY <1>1, Fatos
<1>4. vivos' = vivos \cup {p} /\ idle_bin' = idle_bin /\ p # idle /\ falha' = "nenhuma"
  <2>1. /\ vivos' = vivos \cup {p}
        /\ idle_bin' = (idle_bin \cap vivos) \cup (IF "outro.bin" = "idle.bin" THEN {p} ELSE {})
    BY <1>1, CargaObjetos
  <2>2. idle_bin' = idle_bin
    BY <1>2, <2>1
  <2>3. QED BY <1>1, <1>2, <2>1, <2>2
<1>5. IsInjective(processos_rodando_novo')
  <2>1. p \notin ToSet(processos_rodando_novo)
    BY <1>1, <1>2, <1>3 DEF prontos
  <2>2. rodando \in Processos \cup {NULL}
    BY <1>2
  <2>3. QED BY <1>1, <1>2, <2>1, <2>2, Carga
<1>6. \/ /\ rodando = idle /\ prontos = {} /\ rodando' = p
         /\ prontos' = {} /\ processos_rodando_novo' = <<>>
      \/ /\ rodando # idle /\ rodando' = rodando
         /\ prontos' = prontos \cup {p}
  <2>1. rodando \in Processos \cup {NULL}
    BY <1>2
  <2>2. ToSet(<<>>) = {}
    BY ListaVazia
  <2>3. CASE rodando = idle
    <3>1. processos_rodando_novo = <<>> /\ prontos = {}
      BY <1>1, <2>2, <2>3 DEF FirmeInv, IdleSoSemProntos, prontos
    <3>2. rodando' = p /\ processos_rodando_novo' = <<>>
      BY <1>1, <1>2, <2>1, <2>3, <3>1, Carga
    <3>3. QED BY <2>2, <2>3, <3>1, <3>2 DEF prontos
  <2>4. CASE rodando # idle
    <3>1. rodando' = rodando /\ prontos' = ComNovo(processos_rodando_novo, p)
      BY <1>1, <1>2, <2>1, <2>4, Carga
    <3>2. QED BY <2>4, <3>1 DEF ComNovo, prontos
  <2>5. QED BY <2>3, <2>4
<1>7. /\ \A q \in Processos : contexto'[q] = IF q \in vivos THEN contexto[q] ELSE Novo
      /\ \A q \in Processos : feito'[q] = IF q \in vivos THEN feito[q] ELSE Novo
  BY <1>1 DEF load_program
<1>8. /\ \A q \in Processos : estado'[q] = IF q # p THEN estado[q]
                                           ELSE IF rodando = idle THEN "running" ELSE "ready"
      /\ cpu_contexto' = IF rodando = idle THEN Novo ELSE cpu_contexto
      /\ cpu_tabela' = IF rodando = idle THEN p ELSE cpu_tabela
  <2>1. cpu_tabela \in vivos
    BY <1>2, <1>3
  <2>2. QED BY <1>1, <1>2, <2>1 DEF load_program, cpu_livre
<1>9. UmLugarSo'
  <2>1. /\ prontos' \cap dormentes' = {}
        /\ prontos' \cup dormentes' = vivos' \ {rodando', idle}
        /\ {rodando', idle} \cap (prontos' \cup dormentes') = {}
    <3>1. CASE rodando = idle
      BY <1>1, <1>2, <1>3, <1>4, <1>6, <3>1
    <3>2. CASE rodando # idle
      BY <1>1, <1>2, <1>3, <1>4, <1>6, <3>2
    <3>3. QED BY <3>1, <3>2
  <2>2. IsInjective(processos_dormindo')
    BY <1>1, <1>2
  <2>3. QED BY <1>1, <1>5, <2>1, <2>2 DEF UmLugarSo
<1>10. EstadoCoerente'
  <2>1. \A q \in prontos' : estado'[q] = "ready"
    BY <1>1, <1>2, <1>3, <1>6, <1>8
  <2>2. \A q \in dormentes' : estado'[q] = "sleeping"
    BY <1>1, <1>2, <1>3, <1>8
  <2>3. estado'[rodando'] = "running"
    BY <1>1, <1>2, <1>3, <1>6, <1>8
  <2>4. QED BY <2>1, <2>2, <2>3 DEF EstadoCoerente
<1>11. ContextoPreservado'
  <2>1. rodando' = cpu_tabela'
    BY <1>3, <1>6, <1>8
  <2>2. ASSUME NEW q \in vivos' \ {idle}
        PROVE  feito'[q] = IF q = rodando' THEN cpu_contexto' ELSE contexto'[q]
    <3>1. CASE q = p
      BY <1>1, <1>2, <1>6, <1>7, <1>8, <3>1
    <3>2. CASE q # p
      <4>1. /\ q \in vivos \ {idle} /\ q \in Processos
            /\ feito'[q] = feito[q] /\ contexto'[q] = contexto[q]
        BY <1>2, <1>4, <1>7, <2>2, <3>2
      <4>2. QED BY <1>3, <1>6, <1>8, <3>2, <4>1
    <3>3. QED BY <3>1, <3>2
  <2>3. QED BY <1>1, <2>1, <2>2 DEF ContextoPreservado
<1>12. IdleSoSemProntos'
  BY <1>1, <1>4, <1>6 DEF IdleSoSemProntos
<1>13. IdleFirme'
  <2>1. rodando' # NULL
    BY <1>2, <1>6
  <2>2. QED BY <1>1, <1>2, <1>4, <2>1 DEF IdleFirme
<1>14. QED BY <1>9, <1>10, <1>11, <1>12, <1>13 DEF Firmes

LEMMA NextFirme ==
    ASSUME ~ IdleInvalida, FirmeInv, Next
    PROVE  Firmes'
<1>1. funcionando
  BY DEF FirmeInv, IdleFirme, funcionando, Next, Executa, ExecutaSemProcesso, tratar_timer,
         PassaSegundo, syscall_0_fechar_processo, syscall_6_dormir_processo, ComandoLoad,
         ComandoLoadFalha, ComandoComExcecao, kill_process_pid,
           kill_process_pid_sem_idle, kill_process,
         tratar_excecao, RecarregaIdle, ComandoExit
<1>2. /\ rodando \in Processos /\ feito \in [Processos -> Contextos]
      /\ UmLugarSo /\ EstadoCoerente /\ ContextoPreservado /\ IdleSoSemProntos /\ IdleFirme
  BY <1>1, Fatos DEF FirmeInv
<1>3. ASSUME NEW c \in Contextos, Executa(c) PROVE Firmes'
  <2>1. /\ cpu_contexto' = c /\ rodando' = rodando /\ cpu_tabela' = cpu_tabela
        /\ contexto' = contexto /\ vivos' = vivos /\ idle' = idle
        /\ \A p \in Processos : feito'[p] = IF p = rodando THEN c ELSE feito[p]
    BY <1>2, <1>3 DEF Executa, rodando
  <2>2. ContextoPreservado'
    <3>1. vivos \subseteq Processos
      BY <1>1, Fatos
    <3>2. ASSUME NEW p \in vivos' \ {idle'}
          PROVE  feito'[p] = IF p = rodando' THEN cpu_contexto' ELSE contexto'[p]
      BY <1>1, <1>2, <2>1, <3>1, <3>2 DEF ContextoPreservado
    <3>3. QED BY <1>1, <1>2, <2>1, <3>2 DEF ContextoPreservado
  <2>3. QED
    BY <1>2, <1>3, <2>2 DEF Executa, Firmes, UmLugarSo, EstadoCoerente, IdleSoSemProntos,
       IdleFirme, funcionando, rodando, prontos, dormentes
<1>4. ASSUME ExecutaSemProcesso PROVE Firmes'
  BY <1>1, <1>2, <1>4 DEF ExecutaSemProcesso, IdleFirme, funcionando
<1>5. ASSUME tratar_timer PROVE Firmes'
  BY <1>5, TimerFirme
<1>6. ASSUME PassaSegundo PROVE Firmes'
  BY <1>2, <1>6 DEF PassaSegundo, Firmes, UmLugarSo, EstadoCoerente, ContextoPreservado,
     IdleSoSemProntos, IdleFirme, funcionando, rodando, prontos, dormentes
<1>7. ASSUME syscall_0_fechar_processo PROVE Firmes'
  BY <1>7, FechaFirme
<1>8. ASSUME NEW s \in Segundos, NEW c \in Contextos, syscall_6_dormir_processo(s, c)
      PROVE  Firmes'
  BY <1>8, DormeFirme
<1>9. ASSUME NEW p \in Processos, ComandoLoad(p) PROVE Firmes'
  BY <1>9, CargaFirme
<1>10. ASSUME ComandoLoadFalha PROVE Firmes'
  BY <1>2, <1>10 DEF ComandoLoadFalha, Firmes, UmLugarSo, EstadoCoerente, ContextoPreservado,
     IdleSoSemProntos, IdleFirme, funcionando, rodando, prontos, dormentes
<1>11. ASSUME ComandoComExcecao PROVE Firmes'
  BY <1>11 DEF ComandoComExcecao, Firmes, UmLugarSo, EstadoCoerente, ContextoPreservado,
     IdleSoSemProntos, IdleFirme, funcionando
<1>12. ASSUME NEW n, kill_process_pid(n) PROVE Firmes'
  BY <1>12, KillFirme DEF Firmes
<1>12a. ASSUME kill_process_pid_sem_idle PROVE Firmes'
  BY <1>1, <1>2, <1>12a DEF kill_process_pid_sem_idle, IdleFirme, funcionando
<1>13. ASSUME kill_process PROVE Firmes'
  BY <1>12, <1>13 DEF kill_process
<1>14. ASSUME NEW tipo \in Excecoes, tratar_excecao(tipo) PROVE Firmes'
  BY <1>13, <1>14 DEF tratar_excecao
<1>15. ASSUME NEW p \in Processos, RecarregaIdle(p) PROVE Firmes'
  BY <1>15 DEF RecarregaIdle
<1>16. ASSUME ComandoExit PROVE Firmes'
  BY <1>16 DEF ComandoExit, Firmes, UmLugarSo, EstadoCoerente, ContextoPreservado,
     IdleSoSemProntos, IdleFirme, funcionando
<1>17. QED
  BY <1>3, <1>4, <1>5, <1>6, <1>7, <1>8, <1>9, <1>10, <1>11, <1>12, <1>13, <1>14, <1>15,
     <1>16, <1>12a DEF Next

LEMMA InitFirme == Init => FirmeInv
<1> SUFFICES ASSUME Init PROVE FirmeInv
  OBVIOUS
<1>1. Idle \in Processos /\ NULL \notin Processos
  BY EscalonadorAssumption
<1>2. ToSet(<<>>) = {} /\ IsInjective(<<>>) /\ GInv
  BY ListaVazia, InitGeral
<1>3. UmLugarSo /\ IdleSoSemProntos /\ IdleFirme
  BY <1>1, <1>2 DEF Init, UmLugarSo, IdleSoSemProntos, IdleFirme, rodando, prontos, dormentes
<1>4. EstadoCoerente /\ ContextoPreservado
  BY <1>1, <1>2 DEF Init, EstadoCoerente, ContextoPreservado, rodando, prontos, dormentes
<1>5. QED BY <1>2, <1>3, <1>4 DEF FirmeInv

\* Every step keeps the invariant.
LEMMA FirmePasso ==
    ASSUME ~ IdleInvalida
    PROVE  FirmeInv /\ [Next]_vars => FirmeInv'
<1> SUFFICES ASSUME FirmeInv, [Next]_vars PROVE FirmeInv'
  OBVIOUS
<1>1. GInv'
  BY NextGeral DEF FirmeInv
<1>2. CASE Next
  BY <1>1, <1>2, NextFirme DEF FirmeInv, Firmes
<1>3. CASE UNCHANGED vars
  BY <1>1, <1>3 DEF vars, FirmeInv, UmLugarSo, EstadoCoerente, ContextoPreservado,
     IdleSoSemProntos, IdleFirme, funcionando, rodando, prontos, dormentes
<1>4. QED BY <1>2, <1>3

LEMMA FirmeSempre ==
    ASSUME ~ IdleInvalida
    PROVE  Spec => []FirmeInv
<1>1. Init => FirmeInv
  BY InitFirme
<1>2. FirmeInv /\ [Next]_vars => FirmeInv'
  BY FirmePasso
<1>3. QED BY <1>1, <1>2, PTL DEF Spec

\* No process is lost or held twice: each one but idle is in exactly one of the CPU, the
\* ready list and the list of sleepers, once, however the timer, the system calls, the
\* loads and the kills follow one another (ProcessManager).
THEOREM CadaUmEmUmLugar ==
    ASSUME ~ IdleInvalida
    PROVE  Spec => []UmLugarSo
<1>1. FirmeInv => UmLugarSo
  BY DEF FirmeInv
<1>2. QED BY <1>1, FirmeSempre, PTL

\* The state in the Process agrees with the list that holds it (set_estado in
\* configurar_proximo_processo, acordar_processos_dormindo, dormir_processo, load_program).
THEOREM EstadoDizOnde ==
    ASSUME ~ IdleInvalida
    PROVE  Spec => []EstadoCoerente
<1>1. FirmeInv => EstadoCoerente
  BY DEF FirmeInv
<1>2. QED BY <1>1, FirmeSempre, PTL

\* A process goes on where its last instruction left it, with its own page table
\* (salvar_contexto and restaurar_contexto, called by every interrupt and system call).
THEOREM ContinuaDeOndeParou ==
    ASSUME ~ IdleInvalida
    PROVE  Spec => []ContextoPreservado
<1>1. FirmeInv => ContextoPreservado
  BY DEF FirmeInv
<1>2. QED BY <1>1, FirmeSempre, PTL

\* idle has the CPU only when the ready list is empty: what load_program takes for
\* granted when it gives the CPU the context of the process it loads.
THEOREM IdleSoNoOcio ==
    ASSUME ~ IdleInvalida
    PROVE  Spec => []IdleSoSemProntos
<1>1. FirmeInv => IdleSoSemProntos
  BY DEF FirmeInv
<1>2. QED BY <1>1, FirmeSempre, PTL

\* idle is never ended, nor any deleted object used, while the computer runs: no number
\* given to the command kill finds idle, also when pids repeat (kill_process_pid).
THEOREM IdleNuncaMorre ==
    ASSUME ~ IdleInvalida
    PROVE  Spec => []IdleVivo
<1>1. FirmeInv => IdleVivo
  BY DEF FirmeInv, IdleFirme, IdleVivo
<1>2. QED BY <1>1, FirmeSempre, PTL

-----------------------------------------------------------------------------
(* First come, first served *)

\* What is behind those that waited does not change which of them is next.
LEMMA ConfiguraOrdem ==
    ASSUME NEW s \in Seq(Processos), NEW t \in Seq(Processos), s # <<>>, NEW estados,
           NEW atual \in Processos \cup {NULL}, NEW salvos, NEW ficam,
           configurar_proximo_processo(s \o t, estados, atual, salvos, ficam)
    PROVE  rodando' = Head(s) /\ IsPrefix(Tail(s), processos_rodando_novo')
<1> DEFINE fila == fila_com(s \o t, atual)
<1>1. PICK u \in Seq(Processos) : fila = s \o u
  <2>1. CASE atual \in {NULL, idle}
    <3>1. fila = s \o t
      BY <2>1 DEF fila_com
    <3>2. QED BY <3>1
  <2>2. CASE atual \notin {NULL, idle}
    <3>1. fila = Append(s \o t, atual) /\ atual \in Processos
      BY <2>2 DEF fila_com
    <3>2. Append(t, atual) \in Seq(Processos) /\ s \o t \in Seq(Processos)
      BY <3>1
    <3>3. Append(s \o t, atual) = s \o Append(t, atual)
      <4>1. Append(s \o t, atual) = (s \o t) \o <<atual>>
        BY <3>1, <3>2, AppendIsConcat
      <4>2. Append(t, atual) = t \o <<atual>> /\ <<atual>> \in Seq(Processos)
        BY <3>1, AppendIsConcat
      <4>3. (s \o t) \o <<atual>> = s \o (t \o <<atual>>)
        BY <4>2, ConcatAssociative
      <4>4. QED BY <4>1, <4>2, <4>3
    <3>4. QED BY <3>1, <3>2, <3>3
  <2>3. QED BY <2>1, <2>2
<1>2. /\ processos_rodando_novo' = IF fila = <<>> THEN <<>> ELSE Tail(fila)
      /\ rodando' = IF fila = <<>> THEN idle ELSE Head(fila)
  BY DEF configurar_proximo_processo, rodando
<1> HIDE DEF fila
<1>3. fila # <<>> /\ Head(fila) = Head(s) /\ Tail(fila) = Tail(s) \o u
  BY <1>1, NoFim
<1>4. Tail(s) \in Seq(Processos)
  BY PrimeiroEResto
<1>5. IsPrefix(Tail(s), Tail(s) \o u)
  BY <1>1, <1>4, NoFim
<1>6. QED BY <1>2, <1>3, <1>5

\* What OrdemDeChegada says of a step.
PassoEmOrdem ==
    LET ficam == Filtra(processos_rodando_novo, vivos') IN
    ligado' /\ ficam # <<>> =>
       \/ rodando' = rodando /\ IsPrefix(ficam, processos_rodando_novo')
       \/ rodando' = Head(ficam) /\ IsPrefix(Tail(ficam), processos_rodando_novo')

LEMMA PassoIgual ==
    ASSUME FirmeInv, funcionando, prontos \subseteq vivos', NEW t \in Seq(Processos),
           rodando' = rodando, processos_rodando_novo' = processos_rodando_novo \o t
    PROVE  PassoEmOrdem
<1>1. processos_rodando_novo \in Seq(Processos)
  BY Fatos
<1>2. Filtra(processos_rodando_novo, vivos') = processos_rodando_novo
  BY <1>1, FiltraTudo DEF prontos
<1>3. IsPrefix(processos_rodando_novo, processos_rodando_novo \o t)
  BY <1>1, NoFim
<1>4. QED BY <1>2, <1>3 DEF PassoEmOrdem

LEMMA PassoTroca ==
    ASSUME FirmeInv, funcionando,
           NEW t \in Seq(Processos), NEW estados, NEW atual \in Processos \cup {NULL},
           NEW salvos, NEW ficam,
           configurar_proximo_processo(Filtra(processos_rodando_novo, vivos') \o t, estados,
                                       atual, salvos, ficam)
    PROVE  PassoEmOrdem
<1> DEFINE s == Filtra(processos_rodando_novo, vivos')
<1>1. s \in Seq(Processos)
  <2>1. processos_rodando_novo \in Seq(Processos)
    BY Fatos
  <2>2. QED BY <2>1, FiltraElementos
<1>2. configurar_proximo_processo(s \o t, estados, atual, salvos, ficam)
  OBVIOUS
<1> HIDE DEF s
<1>3. s # <<>> => rodando' = Head(s) /\ IsPrefix(Tail(s), processos_rodando_novo')
  BY <1>1, <1>2, ConfiguraOrdem
<1>4. QED BY <1>3 DEF PassoEmOrdem, s

LEMMA KillOrdem ==
    ASSUME FirmeInv, NEW n, kill_process_pid(n)
    PROVE  PassoEmOrdem
<1>1. funcionando /\ GInv
  BY DEF kill_process_pid, FirmeInv
<1>2. PICK alvo \in ({rodando} \ {NULL}) \cup prontos \cup dormentes,
            novos \in Seq(Processos), a \in Seq(Processos) :
            LET atual == IF alvo = rodando THEN NULL ELSE rodando IN
            /\ Apaga(alvo)
            /\ novos = remover_processo(processos_rodando_novo, alvo) \o a
            /\ configurar_proximo_processo(novos, estados_acordados(a), atual, contexto,
                                           vivos \ {alvo})
  BY <1>1, KillTroca
<1> DEFINE atual == IF alvo = rodando THEN NULL ELSE rodando
<1>3. /\ processos_rodando_novo \in Seq(Processos) /\ prontos \subseteq vivos
      /\ prontos \subseteq Processos
      /\ atual \in Processos \cup {NULL}
  BY <1>1, Fatos
<1>4. vivos' = vivos \ {alvo}
  BY <1>2 DEF Apaga
<1>5. Filtra(processos_rodando_novo, Processos \ {alvo})
         = Filtra(processos_rodando_novo, vivos')
  <2>1. ToSet(processos_rodando_novo) \cap (Processos \ {alvo})
           = ToSet(processos_rodando_novo) \cap vivos'
    BY <1>3, <1>4 DEF prontos
  <2>2. QED BY <1>3, <2>1, FiltraIgual
<1>6. novos = Filtra(processos_rodando_novo, vivos') \o a
  BY <1>2, <1>5 DEF remover_processo
<1>7. configurar_proximo_processo(Filtra(processos_rodando_novo, vivos') \o a,
         estados_acordados(a), atual, contexto, vivos \ {alvo})
  BY <1>2, <1>6
<1> HIDE DEF atual
<1>8. QED BY <1>1, <1>3, <1>7, PassoTroca

LEMMA NextEmOrdem ==
    ASSUME ~ IdleInvalida, FirmeInv, Next
    PROVE  PassoEmOrdem
<1>1. funcionando
  BY DEF FirmeInv, IdleFirme, funcionando, Next, Executa, ExecutaSemProcesso, tratar_timer,
         PassaSegundo, syscall_0_fechar_processo, syscall_6_dormir_processo, ComandoLoad,
         ComandoLoadFalha, ComandoComExcecao, kill_process_pid,
           kill_process_pid_sem_idle, kill_process,
         tratar_excecao, RecarregaIdle, ComandoExit
<1>2. /\ processos_rodando_novo \in Seq(Processos) /\ processos_dormindo \in Seq(Processos)
      /\ rodando \in Processos /\ rodando \in vivos /\ idle \in Processos
      /\ prontos \subseteq vivos /\ rodando \notin prontos
      /\ vivos \subseteq Processos /\ NULL \notin Processos
      /\ estado \in [Processos -> Estados]
  BY <1>1, Fatos
<1>3. ASSUME rodando' = rodando, processos_rodando_novo' = processos_rodando_novo,
             vivos' = vivos
      PROVE  PassoEmOrdem
  <2>1. /\ processos_rodando_novo \o <<>> = processos_rodando_novo
        /\ <<>> \in Seq(Processos)
    BY <1>2
  <2>2. QED BY <1>1, <1>2, <1>3, <2>1, PassoIgual
<1>4. ASSUME NEW novos \in Seq(Processos), NEW estados, NEW atual \in Processos \cup {NULL},
             NEW salvos, NEW ficam,
             configurar_proximo_processo(novos, estados, atual, salvos, ficam),
             novos = Filtra(processos_rodando_novo, vivos')
      PROVE  PassoEmOrdem
  <2>1. novos \o <<>> = novos /\ <<>> \in Seq(Processos)
    BY <1>4
  <2>2. configurar_proximo_processo(Filtra(processos_rodando_novo, vivos') \o <<>>, estados,
                                    atual, salvos, ficam)
    BY <1>4, <2>1
  <2>3. QED BY <1>1, <1>4, <2>1, <2>2, PassoTroca
<1>5. ASSUME tratar_timer PROVE PassoEmOrdem
  <2>1. /\ tratar_timer_com(processos_rodando_novo, processos_dormindo, rodando, vivos)
        /\ vivos' = vivos
    BY <1>5 DEF tratar_timer
  <2>2. PICK a \in Seq(Processos) :
           configurar_proximo_processo(processos_rodando_novo \o a,
              estados_acordados(a), rodando, contexto, vivos)
    BY <1>2, <2>1, Timer
  <2>3. Filtra(processos_rodando_novo, vivos') = processos_rodando_novo
    BY <1>2, <2>1, FiltraTudo DEF prontos
  <2>4. configurar_proximo_processo(Filtra(processos_rodando_novo, vivos') \o a,
              estados_acordados(a), rodando, contexto, vivos)
    BY <2>2, <2>3
  <2>5. rodando \in Processos \cup {NULL}
    BY <1>2
  <2>6. QED BY <1>1, <2>4, <2>5, PassoTroca
<1>6. ASSUME syscall_0_fechar_processo PROVE PassoEmOrdem
  <2> DEFINE novos == remover_processo(processos_rodando_novo, rodando)
  <2>1. /\ vivos' = vivos \ {rodando}
        /\ configurar_proximo_processo(novos, estado, NULL, contexto, vivos \ {rodando})
    BY <1>6 DEF syscall_0_fechar_processo, Apaga
  <2>2. novos \in Seq(Processos) /\ novos = Filtra(processos_rodando_novo, vivos')
    <3>1. ToSet(processos_rodando_novo) \cap (Processos \ {rodando})
             = ToSet(processos_rodando_novo) \cap vivos'
      BY <1>2, <2>1 DEF prontos
    <3>2. Filtra(processos_rodando_novo, Processos \ {rodando})
             = Filtra(processos_rodando_novo, vivos')
      BY <1>2, <3>1, FiltraIgual
    <3>3. Filtra(processos_rodando_novo, Processos \ {rodando}) \in Seq(Processos)
      BY <1>2, FiltraElementos
    <3>4. QED BY <3>2, <3>3 DEF remover_processo
  <2> HIDE DEF novos
  <2>3. NULL \in Processos \cup {NULL}
    OBVIOUS
  <2>4. QED BY <1>4, <2>1, <2>2, <2>3
<1>7. ASSUME NEW s \in Segundos, NEW c \in Contextos, syscall_6_dormir_processo(s, c)
      PROVE  PassoEmOrdem
  <2>1. /\ vivos' = vivos
        /\ configurar_proximo_processo(RemoveFirst(processos_rodando_novo, rodando),
              [estado EXCEPT ![rodando] = "sleeping"], NULL,
              [contexto EXCEPT ![rodando] = c], vivos)
    BY <1>7 DEF syscall_6_dormir_processo
  <2>2. RemoveFirst(processos_rodando_novo, rodando) = processos_rodando_novo
    BY <1>2, TiraPrimeiro DEF prontos
  <2>3. Filtra(processos_rodando_novo, vivos') = processos_rodando_novo
    BY <1>2, <2>1, FiltraTudo DEF prontos
  <2>4. NULL \in Processos \cup {NULL}
    OBVIOUS
  <2>5. configurar_proximo_processo(processos_rodando_novo,
              [estado EXCEPT ![rodando] = "sleeping"], NULL,
              [contexto EXCEPT ![rodando] = c], vivos)
    BY <2>1, <2>2
  <2>6. QED BY <1>2, <1>4, <2>3, <2>4, <2>5
<1>8. ASSUME NEW p \in Processos, ComandoLoad(p) PROVE PassoEmOrdem
  <2>1. /\ load_program(p, "outro.bin", rodando, processos_rodando_novo, vivos)
        /\ rodando \in Processos \cup {NULL}
    BY <1>2, <1>8 DEF ComandoLoad
  <2>2. prontos \subseteq vivos'
    BY <1>2, <2>1, CargaObjetos
  <2>3. CASE rodando = idle
    <3>1. processos_rodando_novo = <<>>
      BY <1>1, <2>3 DEF FirmeInv, IdleSoSemProntos
    <3>2. Filtra(processos_rodando_novo, vivos') = processos_rodando_novo
      BY <1>2, <2>2, FiltraTudo DEF prontos
    <3>3. QED BY <3>1, <3>2 DEF PassoEmOrdem
  <2>4. CASE rodando # idle
    <3>1. rodando' = rodando /\ processos_rodando_novo' = Append(processos_rodando_novo, p)
      BY <1>2, <2>1, <2>4, Carga
    <3>2. Append(processos_rodando_novo, p) = processos_rodando_novo \o <<p>>
      BY <1>2, AppendIsConcat
    <3>3. <<p>> \in Seq(Processos)
      OBVIOUS
    <3>4. QED BY <1>1, <2>2, <3>1, <3>2, <3>3, PassoIgual
  <2>5. QED BY <2>3, <2>4
<1>9. ASSUME NEW n, kill_process_pid(n) PROVE PassoEmOrdem
  BY <1>9, KillOrdem
<1>10. ASSUME kill_process PROVE PassoEmOrdem
  BY <1>9, <1>10 DEF kill_process
<1>11. ASSUME NEW tipo \in Excecoes, tratar_excecao(tipo) PROVE PassoEmOrdem
  BY <1>10, <1>11 DEF tratar_excecao
<1>12. ASSUME ComandoComExcecao \/ ComandoExit PROVE PassoEmOrdem
  BY <1>12 DEF ComandoComExcecao, ComandoExit, PassoEmOrdem
<1>13. ASSUME \/ \E c \in Contextos : Executa(c)
              \/ ExecutaSemProcesso \/ PassaSegundo \/ ComandoLoadFalha
       PROVE  PassoEmOrdem
  BY <1>3, <1>13 DEF Executa, ExecutaSemProcesso, PassaSegundo, ComandoLoadFalha, rodando
<1>14. ASSUME NEW p \in Processos, RecarregaIdle(p) PROVE PassoEmOrdem
  BY <1>14 DEF RecarregaIdle
<1>15. ASSUME kill_process_pid_sem_idle PROVE PassoEmOrdem
  BY <1>1, <1>15 DEF kill_process_pid_sem_idle, FirmeInv, IdleFirme, funcionando
<1>16. QED
  BY <1>5, <1>6, <1>7, <1>8, <1>9, <1>10, <1>11, <1>12, <1>13, <1>14, <1>15 DEF Next

\* First come, first served: a step that gives the CPU to one of those that waited gives it
\* to the first of those that still exist, and the others keep their order.  It needs that
\* the list has no deleted process, and that idle runs only when the list is empty.
THEOREM PorOrdemDeChegada ==
    ASSUME ~ IdleInvalida
    PROVE  Spec => OrdemDeChegada
<1>1. FirmeInv /\ [Next]_vars => [PassoEmOrdem]_vars
  BY NextEmOrdem
<1>2. Spec => [][PassoEmOrdem]_vars
  BY <1>1, FirmeSempre, PTL DEF Spec
<1>3. QED BY <1>2 DEF OrdemDeChegada, PassoEmOrdem

-----------------------------------------------------------------------------
(***************************************************************************)
(* Sleeping.  The time a sleeper wakes at is kept, and the clock read, in   *)
(* 16 bits.  While the clock has not started again from 0, a process whose  *)
(* time fits sleeps in full, whatever idle.bin does and whoever sleeps with *)
(* it; the run sono shows that one whose time was cut wakes at once.        *)
(***************************************************************************)

RelogioNaoVolta == MAX_TEMPO + COMECO < TEMPO_MOD

LEMMA TempoCerto ==
    ASSUME RelogioNaoVolta, TypeOK
    PROVE  /\ tempo_sistema = agora
           /\ \A s \in Segundos : agora + s < TEMPO_MOD => ate(s) = agora + s
<1>1. /\ TEMPO_MOD \in Nat /\ TEMPO32_MOD \in Nat /\ TEMPO32_MOD >= TEMPO_MOD
      /\ COMECO \in Nat /\ MAX_TEMPO \in Nat /\ Segundos \subseteq Nat
      /\ agora \in Nat /\ agora <= MAX_TEMPO
  BY EscalonadorAssumption DEF TypeOK
<1>2. MAX_TEMPO + COMECO < TEMPO_MOD
  BY DEF RelogioNaoVolta
<1>3. (agora + COMECO) % TEMPO_MOD = agora + COMECO
  <2>1. agora + COMECO \in 0 .. TEMPO_MOD - 1
    BY <1>1, <1>2
  <2>2. QED BY <1>1, <2>1, Restos
<1>4. tempo_sistema = agora
  <2>1. agora \in 0 .. TEMPO32_MOD - 1 /\ (agora + COMECO) - COMECO = agora
    BY <1>1, <1>2
  <2>2. agora % TEMPO32_MOD = agora
    BY <1>1, <2>1, Restos
  <2>3. QED BY <1>3, <2>1, <2>2 DEF tempo_sistema
<1>5. ASSUME NEW s \in Segundos, agora + s < TEMPO_MOD PROVE ate(s) = agora + s
  <2>1. agora + s \in 0 .. TEMPO_MOD - 1
    BY <1>1, <1>2, <1>5
  <2>2. (agora + s) % TEMPO_MOD = agora + s
    BY <1>1, <2>1, Restos
  <2>3. QED BY <1>4, <2>2 DEF ate
<1>6. QED BY <1>4, <1>5

\* Those that sleep after a step: they slept before, or have just gone to sleep.
AindaDorme(p) == p \in dormentes /\ dormir_ate'[p] = dormir_ate[p] /\ prazo'[p] = prazo[p]

AcabaDeDormir(p) ==
    \E s \in Segundos : dormir_ate'[p] = ate(s) /\ prazo'[p] = agora + s

\* What a step does with those that sleep.
PassoDoSono ==
    /\ \A p \in dormentes' : AindaDorme(p) \/ AcabaDeDormir(p)
    /\ \A p \in dormentes : p \in dormentes' \/ p \notin vivos' \/ ~ ligado' \/ Acorda(p)

LEMMA NextSono ==
    ASSUME GInv, funcionando, Next
    PROVE  PassoDoSono
<1>1. /\ processos_rodando_novo \in Seq(Processos) /\ processos_dormindo \in Seq(Processos)
      /\ rodando \in Processos \cup {NULL} /\ dormentes \subseteq Processos
      /\ dormir_ate \in [Processos -> 0 .. TEMPO_MOD - 1]
      /\ prazo \in [Processos -> Nat]
      /\ estado \in [Processos -> Estados] /\ vivos \subseteq Processos
  <2>1. processos_dormindo \in Seq(Processos)
    BY DEF GInv, TypeOK
  <2>2. dormentes \subseteq Processos
    BY <2>1, ElementosEmS DEF dormentes
  <2>3. QED BY <2>1, <2>2 DEF GInv, TypeOK, Estados
<1>2. /\ IsInjective(processos_dormindo) /\ dormentes \subseteq vivos
      /\ rodando \notin dormentes
  BY DEF GInv, ListasCoerentes
<1>3. ASSUME processos_dormindo' = processos_dormindo, dormir_ate' = dormir_ate, prazo' = prazo
      PROVE  PassoDoSono
  BY <1>3 DEF PassoDoSono, AindaDorme, dormentes
<1>4. ASSUME tratar_timer PROVE PassoDoSono
  <2>1. /\ tratar_timer_com(processos_rodando_novo, processos_dormindo, rodando, vivos)
        /\ dormir_ate' = dormir_ate /\ prazo' = prazo
    BY <1>4 DEF tratar_timer
  <2>2. \E a \in Seq(Processos) : /\ ToSet(a) \cup dormentes' = dormentes
                                  /\ \A p \in ToSet(a) : Acorda(p)
    BY <1>1, <2>1, Timer DEF dormentes
  <2>3. QED BY <2>1, <2>2 DEF PassoDoSono, AindaDorme
<1>5. ASSUME syscall_0_fechar_processo PROVE PassoDoSono
  <2>1. /\ processos_dormindo' = RemoveFirst(processos_dormindo, rodando)
        /\ dormir_ate' = [dormir_ate EXCEPT ![rodando] = 0]
        /\ prazo' = [prazo EXCEPT ![rodando] = 0]
    BY <1>5 DEF syscall_0_fechar_processo, Apaga
  <2>2. dormentes' = dormentes
    BY <1>1, <1>2, <2>1, TiraPrimeiro DEF dormentes
  <2>3. QED BY <1>1, <1>2, <2>1, <2>2 DEF PassoDoSono, AindaDorme
<1>6. ASSUME NEW s \in Segundos, NEW c \in Contextos, syscall_6_dormir_processo(s, c)
      PROVE  PassoDoSono
  <2>1. /\ processos_dormindo' = Append(processos_dormindo, rodando)
        /\ dormir_ate' = [dormir_ate EXCEPT ![rodando] = ate(s)]
        /\ prazo' = [prazo EXCEPT ![rodando] = agora + s]
        /\ rodando \in Processos
    BY <1>1, <1>6 DEF syscall_6_dormir_processo
  <2>2. dormentes' = dormentes \cup {rodando}
    BY <1>1, <2>1, ComMais DEF dormentes
  <2>3. ASSUME NEW p \in dormentes' PROVE AindaDorme(p) \/ AcabaDeDormir(p)
    <3>1. CASE p = rodando
      BY <1>1, <2>1, <3>1 DEF AcabaDeDormir
    <3>2. CASE p # rodando
      BY <1>1, <2>1, <2>2, <3>2 DEF AindaDorme
    <3>3. QED BY <3>1, <3>2
  <2>4. QED BY <2>2, <2>3 DEF PassoDoSono
<1>7. ASSUME NEW p \in Processos, NEW nome, NEW atual, NEW novos, NEW ficam,
             load_program(p, nome, atual, novos, ficam),
             processos_dormindo' = processos_dormindo, dormentes \subseteq ficam
      PROVE  PassoDoSono
  <2>1. /\ \A q \in Processos : dormir_ate'[q] = IF q \in ficam THEN dormir_ate[q] ELSE 0
        /\ \A q \in Processos : prazo'[q] = IF q \in ficam THEN prazo[q] ELSE 0
    BY <1>7 DEF load_program
  <2>2. dormentes' = dormentes
    BY <1>7 DEF dormentes
  <2>3. QED BY <1>1, <1>7, <2>1, <2>2 DEF PassoDoSono, AindaDorme
<1>8. ASSUME NEW p \in Processos, ComandoLoad(p) PROVE PassoDoSono
  BY <1>2, <1>7, <1>8 DEF ComandoLoad
<1>9. ASSUME NEW p \in Processos, RecarregaIdle(p) PROVE PassoDoSono
  <2>1. /\ processos_dormindo' = RemoveFirst(processos_dormindo, rodando)
        /\ load_program(p, "idle.bin", NULL, remover_processo(processos_rodando_novo, rodando),
                        vivos \ {rodando})
    BY <1>9 DEF RecarregaIdle
  <2>2. processos_dormindo' = processos_dormindo
    BY <1>1, <1>2, <2>1, TiraPrimeiro DEF dormentes
  <2>3. dormentes \subseteq vivos \ {rodando}
    BY <1>2
  <2>4. QED BY <1>7, <2>1, <2>2, <2>3
<1>10. ASSUME NEW n, kill_process_pid(n) PROVE PassoDoSono
  <2>1. PICK alvo \in ({rodando} \ {NULL}) \cup prontos \cup dormentes,
              novos \in Seq(Processos), a \in Seq(Processos) :
              /\ alvo \in Processos /\ Apaga(alvo)
              /\ ToSet(a) \cup dormentes' = dormentes \ {alvo}
              /\ \A p \in ToSet(a) : Acorda(p)
    BY <1>10, KillTroca
  <2>2. /\ dormir_ate' = [dormir_ate EXCEPT ![alvo] = 0]
        /\ prazo' = [prazo EXCEPT ![alvo] = 0] /\ vivos' = vivos \ {alvo}
    BY <2>1 DEF Apaga
  <2>3. ASSUME NEW p \in dormentes' PROVE AindaDorme(p)
    BY <1>1, <2>1, <2>2 DEF AindaDorme
  <2>4. ASSUME NEW p \in dormentes PROVE p \in dormentes' \/ p \notin vivos' \/ Acorda(p)
    BY <2>1, <2>2
  <2>5. QED BY <2>3, <2>4 DEF PassoDoSono
<1>11. ASSUME kill_process PROVE PassoDoSono
  BY <1>10, <1>11 DEF kill_process
<1>12. ASSUME NEW tipo \in Excecoes, tratar_excecao(tipo) PROVE PassoDoSono
  BY <1>11, <1>12 DEF tratar_excecao
<1>13. ASSUME ComandoExit PROVE PassoDoSono
  <2>1. dormentes' = {} /\ ~ ligado'
    BY <1>13, ListaVazia DEF ComandoExit, dormentes
  <2>2. QED BY <2>1 DEF PassoDoSono
<1>14. ASSUME \/ \E c \in Contextos : Executa(c)
              \/ ExecutaSemProcesso \/ PassaSegundo \/ ComandoLoadFalha \/ ComandoComExcecao
              \/ kill_process_pid_sem_idle
       PROVE  PassoDoSono
  BY <1>3, <1>14 DEF Executa, ExecutaSemProcesso, PassaSegundo, ComandoLoadFalha,
     ComandoComExcecao, kill_process_pid_sem_idle
<1>15. QED
  BY <1>4, <1>5, <1>6, <1>8, <1>9, <1>10, <1>11, <1>12, <1>13, <1>14 DEF Next

\* Of a time that fits, the 16 bits the process keeps are the whole of it.
PrazoGuardado ==
    funcionando => \A p \in dormentes : prazo[p] < TEMPO_MOD => dormir_ate[p] = prazo[p]

\* What SonoInteiro says of a step.
PassoSonoInteiro ==
    \A p \in Processos : Desperta(p) /\ prazo[p] < TEMPO_MOD => agora >= prazo[p]

\* Once an object was used after it was deleted, or the computer is off, only the clock goes on.
LEMMA SoORelogio ==
    ASSUME Next, ~ funcionando
    PROVE  PassaSegundo /\ ~ funcionando'
BY DEF funcionando, Next, Executa, ExecutaSemProcesso, tratar_timer, PassaSegundo,
       syscall_0_fechar_processo, syscall_6_dormir_processo, ComandoLoad, ComandoLoadFalha,
       ComandoComExcecao, kill_process_pid, kill_process_pid_sem_idle, kill_process,
       tratar_excecao, RecarregaIdle, ComandoExit

LEMMA PassoSemAcordarCedo ==
    ASSUME RelogioNaoVolta, GInv, PrazoGuardado, Next
    PROVE  PrazoGuardado' /\ PassoSonoInteiro
<1>1. CASE ~ funcionando
  <2>1. PassaSegundo /\ ~ funcionando'
    BY <1>1, SoORelogio
  <2>2. dormentes = ToSet(processos_dormindo')
    BY <2>1 DEF PassaSegundo, dormentes
  <2>3. QED BY <2>1, <2>2 DEF PrazoGuardado, PassoSonoInteiro, Desperta
<1>2. CASE funcionando
  <2>1. /\ PassoDoSono
        /\ \A p \in dormentes : prazo[p] < TEMPO_MOD => dormir_ate[p] = prazo[p]
    BY <1>2, NextSono DEF PrazoGuardado
  <2>2. /\ tempo_sistema = agora
        /\ \A s \in Segundos : agora + s < TEMPO_MOD => ate(s) = agora + s
    BY TempoCerto DEF GInv
  <2>3. ASSUME NEW p \in dormentes', prazo'[p] < TEMPO_MOD PROVE dormir_ate'[p] = prazo'[p]
    <3>1. CASE AindaDorme(p)
      BY <2>1, <2>3, <3>1 DEF AindaDorme
    <3>2. CASE AcabaDeDormir(p)
      BY <2>2, <2>3, <3>2 DEF AcabaDeDormir
    <3>3. QED BY <2>1, <3>1, <3>2 DEF PassoDoSono
  <2>4. ASSUME NEW p \in Processos, Desperta(p), prazo[p] < TEMPO_MOD
        PROVE  agora >= prazo[p]
    <3>1. Acorda(p) /\ p \in dormentes
      BY <2>1, <2>4 DEF PassoDoSono, Desperta, dormentes
    <3>2. dormir_ate[p] <= agora /\ dormir_ate[p] = prazo[p]
      BY <2>1, <2>2, <2>4, <3>1 DEF Acorda
    <3>3. prazo[p] \in Nat /\ agora \in Nat
      BY EscalonadorAssumption DEF GInv, TypeOK
    <3>4. QED BY <3>2, <3>3
  <2>5. PassoSonoInteiro
    BY <2>4 DEF PassoSonoInteiro
  <2>6. QED BY <2>3, <2>5 DEF PrazoGuardado
<1>3. QED BY <1>1, <1>2

\* A process whose time to wake fits in 16 bits sleeps in full, however it is interleaved
\* with timers, kills, loads and sleepers whose time was cut, as long as the clock the
\* kernel reads has not started again from 0 (acordar_processos_dormindo, dormir_processo).
THEOREM NinguemAcordaCedo ==
    ASSUME RelogioNaoVolta
    PROVE  Spec => SonoInteiro
<1>1. Init => PrazoGuardado
  <2>1. ToSet(<<>>) = {}
    BY ListaVazia
  <2>2. QED BY <2>1 DEF Init, PrazoGuardado, dormentes
<1>2. GInv /\ PrazoGuardado /\ [Next]_vars => PrazoGuardado'
  <2>1. ASSUME PrazoGuardado, UNCHANGED vars PROVE PrazoGuardado'
    BY <2>1 DEF vars, PrazoGuardado, funcionando, dormentes
  <2>2. QED BY <2>1, PassoSemAcordarCedo
<1>3. GInv /\ PrazoGuardado /\ [Next]_vars => [PassoSonoInteiro]_vars
  BY PassoSemAcordarCedo
<1>4. Spec => [][PassoSonoInteiro]_vars
  BY <1>1, <1>2, <1>3, GeralSempre, PTL DEF Spec
<1>5. QED BY <1>4 DEF SonoInteiro, PassoSonoInteiro

-----------------------------------------------------------------------------
(***************************************************************************)
(* Pids.  They have 16 bits, and after 2^16 loads start again from 0: two   *)
(* processes may then have the same, and a process that fails may have that *)
(* of idle.  Before that no two have.                                       *)
(***************************************************************************)

PidsNaoVoltam == MAX_CARGAS + 2 < PID_MOD

PidsUnicos ==
    /\ \A p \in vivos : pid[p] <= proximo_pid
    /\ \A p, q \in vivos : pid[p] = pid[q] => p = q

LEMMA PidNovo ==
    ASSUME PidsNaoVoltam, TypeOK, proximo_pid < MAX_CARGAS + 2
    PROVE  pid_novo = proximo_pid + 1
<1>1. PID_MOD \in Nat /\ MAX_CARGAS \in Nat /\ proximo_pid \in Nat
  BY EscalonadorAssumption DEF TypeOK
<1>2. proximo_pid + 1 \in 0 .. PID_MOD - 1
  BY <1>1 DEF PidsNaoVoltam
<1>3. QED BY <1>1, <1>2, Restos DEF pid_novo

LEMMA CargaPids ==
    ASSUME PidsNaoVoltam, TypeOK, PidsUnicos, NEW p \in Processos, NEW nome, NEW atual,
           NEW novos, NEW ficam \in SUBSET vivos,
           load_program(p, nome, atual, novos, ficam)
    PROVE  PidsUnicos'
<1>1. /\ proximo_pid < MAX_CARGAS + 2 /\ proximo_pid' = pid_novo
      /\ pid' = [q \in Processos |-> IF q = p THEN pid_novo
                                     ELSE IF q \in ficam THEN pid[q] ELSE 0]
      /\ p \notin ficam /\ vivos' = ficam \cup {p}
  BY DEF load_program
<1>2. pid_novo = proximo_pid + 1
  BY <1>1, PidNovo
<1>3. /\ proximo_pid \in Nat /\ vivos \subseteq Processos
      /\ pid \in [Processos -> 0 .. PID_MOD - 1] /\ PID_MOD \in Nat
  <2>1. PID_MOD \in Nat /\ proximo_pid \in Nat
    BY EscalonadorAssumption DEF TypeOK
  <2>2. QED BY <2>1 DEF TypeOK
<1>4. ASSUME NEW q \in ficam
      PROVE  pid'[q] = pid[q] /\ pid[q] \in Nat /\ pid[q] <= proximo_pid
  <2>1. q \in Processos /\ q \in vivos /\ q # p
    BY <1>1, <1>3
  <2>2. QED BY <1>1, <1>3, <2>1 DEF PidsUnicos
<1>5. pid'[p] = proximo_pid + 1
  BY <1>1, <1>2
<1>6. ASSUME NEW q \in vivos' PROVE pid'[q] <= proximo_pid'
  <2>1. CASE q = p
    BY <1>1, <1>2, <1>3, <1>5, <2>1
  <2>2. CASE q # p
    <3>1. q \in ficam
      BY <1>1, <2>2
    <3>2. pid'[q] \in Nat /\ pid'[q] <= proximo_pid
      BY <1>4, <3>1
    <3>3. QED BY <1>1, <1>2, <1>3, <3>2
  <2>3. QED BY <2>1, <2>2
<1>7. ASSUME NEW q \in vivos', NEW r \in vivos', pid'[q] = pid'[r] PROVE q = r
  <2>1. CASE q = p /\ r \in ficam
    BY <1>3, <1>4, <1>5, <1>7, <2>1
  <2>2. CASE r = p /\ q \in ficam
    BY <1>3, <1>4, <1>5, <1>7, <2>2
  <2>3. CASE q \in ficam /\ r \in ficam
    BY <1>4, <1>7, <2>3 DEF PidsUnicos
  <2>4. QED BY <1>1, <2>1, <2>2, <2>3
<1>8. QED BY <1>6, <1>7 DEF PidsUnicos

LEMMA ApagaPids ==
    ASSUME TypeOK, PidsUnicos, NEW p, Apaga(p), proximo_pid' = proximo_pid
    PROVE  PidsUnicos'
<1>1. /\ vivos' = vivos \ {p} /\ pid' = [pid EXCEPT ![p] = 0]
      /\ pid \in [Processos -> 0 .. PID_MOD - 1] /\ vivos \subseteq Processos
  BY DEF Apaga, TypeOK
<1>2. \A q \in vivos' : q \in vivos /\ pid'[q] = pid[q]
  BY <1>1
<1>3. QED BY <1>2 DEF PidsUnicos

LEMMA NextPids ==
    ASSUME PidsNaoVoltam, GInv, PidsUnicos, Next
    PROVE  PidsUnicos'
<1>1. TypeOK
  BY DEF GInv
<1>2. ASSUME vivos' = vivos, pid' = pid, proximo_pid' = proximo_pid PROVE PidsUnicos'
  BY <1>2 DEF PidsUnicos
<1>3. ASSUME ComandoLoadFalha PROVE PidsUnicos'
  <2>1. /\ vivos' = vivos /\ pid' = pid /\ proximo_pid' = pid_novo
        /\ proximo_pid < MAX_CARGAS + 2
    BY <1>3 DEF ComandoLoadFalha
  <2>2. proximo_pid' = proximo_pid + 1
    BY <1>1, <2>1, PidNovo
  <2>3. ASSUME NEW p \in vivos PROVE pid[p] <= proximo_pid + 1
    <3>1. pid[p] \in Nat /\ proximo_pid \in Nat
      BY <1>1, EscalonadorAssumption DEF TypeOK
    <3>2. QED BY <3>1 DEF PidsUnicos
  <2>4. QED BY <2>1, <2>2, <2>3 DEF PidsUnicos
<1>4. ASSUME NEW p \in Processos, ComandoLoad(p) PROVE PidsUnicos'
  <2>1. load_program(p, "outro.bin", rodando, processos_rodando_novo, vivos)
    BY <1>4 DEF ComandoLoad
  <2>2. vivos \in SUBSET vivos
    OBVIOUS
  <2>3. QED BY <1>1, <2>1, <2>2, CargaPids
<1>5. ASSUME NEW p \in Processos, RecarregaIdle(p) PROVE PidsUnicos'
  <2>1. load_program(p, "idle.bin", NULL, remover_processo(processos_rodando_novo, rodando),
                     vivos \ {rodando})
    BY <1>5 DEF RecarregaIdle
  <2>2. vivos \ {rodando} \in SUBSET vivos
    OBVIOUS
  <2>3. QED BY <1>1, <2>1, <2>2, CargaPids
<1>6. ASSUME syscall_0_fechar_processo PROVE PidsUnicos'
  BY <1>1, <1>6, ApagaPids DEF syscall_0_fechar_processo
<1>7. ASSUME NEW n, kill_process_pid(n) PROVE PidsUnicos'
  <2>1. Apaga(Alvo(n)) /\ proximo_pid' = proximo_pid
    BY <1>7 DEF kill_process_pid
  <2>2. QED BY <1>1, <2>1, ApagaPids
<1>8. ASSUME kill_process PROVE PidsUnicos'
  BY <1>7, <1>8 DEF kill_process
<1>9. ASSUME NEW tipo \in Excecoes, tratar_excecao(tipo) PROVE PidsUnicos'
  BY <1>8, <1>9 DEF tratar_excecao
<1>10. ASSUME ComandoExit PROVE PidsUnicos'
  BY <1>10 DEF ComandoExit, PidsUnicos
<1>11. ASSUME \/ \E c \in Contextos : Executa(c)
              \/ \E s \in Segundos, c \in Contextos : syscall_6_dormir_processo(s, c)
              \/ ExecutaSemProcesso \/ tratar_timer \/ PassaSegundo \/ ComandoComExcecao
              \/ kill_process_pid_sem_idle
       PROVE  PidsUnicos'
  BY <1>2, <1>11 DEF Executa, syscall_6_dormir_processo, ExecutaSemProcesso, tratar_timer,
     PassaSegundo, ComandoComExcecao, kill_process_pid_sem_idle
<1>12. QED
  BY <1>3, <1>4, <1>5, <1>6, <1>7, <1>8, <1>9, <1>10, <1>11 DEF Next

\* A process that fails is the one that ends: kill_process, which kills by pid, finds the
\* running process and no other, as long as the pids have not started again from 0 and
\* the object idle points to exists.  If idle.bin failed and was loaded again elsewhere,
\* a kill first reads the pid of a deleted object, and nothing is claimed of it
\* (kill_process_pid, tratar_excecao).
THEOREM QuemFalhaTermina ==
    ASSUME PidsNaoVoltam
    PROVE  Spec => []MataQuemFalhou
<1>1. Init => PidsUnicos
  <2>1. 2 % PID_MOD \in Nat
    <3>1. PID_MOD \in Nat \ {0} /\ 2 \in Int
      BY EscalonadorAssumption
    <3>2. QED BY <3>1, Restos
  <2>2. QED BY <2>1, EscalonadorAssumption DEF Init, PidsUnicos
<1>2. GInv /\ PidsUnicos /\ [Next]_vars => PidsUnicos'
  <2>1. ASSUME PidsUnicos, UNCHANGED vars PROVE PidsUnicos'
    BY <2>1 DEF vars, PidsUnicos
  <2>2. QED BY <2>1, NextPids
<1>3. GInv /\ PidsUnicos => MataQuemFalhou
  <2> SUFFICES ASSUME GInv, PidsUnicos, funcionando, idle \in vivos,
                      rodando \notin {NULL, idle}
               PROVE  Alvo(pid[rodando]) = rodando
    BY DEF MataQuemFalhou
  <2>1. rodando \in vivos
    BY DEF GInv, ListasCoerentes
  <2>2. pid[idle] # pid[rodando]
    BY <2>1 DEF PidsUnicos
  <2>3. QED BY <2>2 DEF Alvo
<1>4. QED BY <1>1, <1>2, <1>3, GeralSempre, PTL DEF Spec
=============================================================================
