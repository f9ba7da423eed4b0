--------------------------- MODULE ComputerProofs ---------------------------
(***************************************************************************)
(* What is proved of Computer for every set of keys, count, bound and size   *)
(* of the window.                                                          *)
(***************************************************************************)
EXTENDS Computer, VideoProofs

\* The pending interrupt by the place in the cycle: none when the terminal runs, the
\* keyboard's after it if there is a key, and the timer's only after the timer.
Pendente ==
    /\ vez = 1 => ~has_char /\ ~has_interrupt
    /\ has_char => has_interrupt /\ interrupt_code = "Keyboard"
    /\ vez \in {2, 3} /\ has_interrupt => interrupt_code = "Keyboard"
    /\ has_interrupt /\ interrupt_code = "Keyboard" => has_char

\* Until the CPU runs, the count is ahead of the cycles by the one that is going on.
Adiantado ==
    /\ TimerNoPrazo
    /\ vez \in {4, 5} /\ ~has_interrupt => desde_timer + 1 <= count + teclas_desde

\* Bounds of the histories.
Historia == teclas_desde <= Len(digitado) - (IF has_char THEN 1 ELSE 0)

IInv == TypeOK /\ Pendente /\ Adiantado /\ Historia

\* The positions of the devices, which the provers do not compute from the tuple.
LEMMA Ordem ==
    /\ Len(devices) = 5
    /\ devices[1] = "terminal" /\ devices[2] = "disk" /\ devices[3] = "timer"
    /\ devices[4] = "memory" /\ devices[5] = "cpu"
BY DEF devices

\* Which device runs says where the cycle is, and which device is next.
LEMMA Vez ==
    ASSUME TypeOK, NEW d, Roda(d)
    PROVE  /\ d = "terminal" => vez = 1 /\ vez' = 2
           /\ d = "disk" => vez = 2 /\ vez' = 3
           /\ d = "timer" => vez = 3 /\ vez' = 4
           /\ d = "memory" => vez = 4 /\ vez' = 5
           /\ d = "cpu" => vez = 5 /\ vez' = 1
BY Ordem DEF TypeOK, Roda

\* A line stays a sequence of printable characters.
LEMMA EditaTipo ==
    ASSUME NEW linha \in Seq(Letras), NEW tecla
    PROVE  Edita(linha, tecla) \in Seq(Letras)
<1>1. CASE tecla \in Letras
  BY <1>1 DEF Edita
<1>2. CASE tecla \notin Letras /\ linha = <<>>
  BY <1>2 DEF Edita
<1>3. CASE tecla \notin Letras /\ linha # <<>>
  <2>1. Front(linha) \in Seq(Letras)
    BY <1>3 DEF Front
  <2>2. QED BY <1>3, <2>1 DEF Edita
<1>4. QED BY <1>1, <1>2, <1>3

\* The boot state satisfies the invariant.
LEMMA Inicio == Init => IInv
<1> SUFFICES ASSUME Init PROVE IInv
  OBVIOUS
<1>1. timer_interrupt_cycles \in 0 .. CICLOS_MOD - 1 /\ count \in 0 .. CICLOS_MOD - 1
  BY ComputerAssumption DEF Init
<1>2. TypeOK
  <2>1. /\ alive \in BOOLEAN /\ has_interrupt \in BOOLEAN /\ has_char \in BOOLEAN
        /\ executou \in BOOLEAN
    BY Zenon DEF Init
  <2>2. command_buffer \in Seq(Letras) /\ digitado \in Seq(Teclas) /\ Len(digitado) = 0
    BY DEF Init
  <2>3. vez \in 1 .. Len(devices) /\ desde_timer \in Nat /\ teclas_desde \in 0 .. MAX_TECLAS
    BY ComputerAssumption, Ordem DEF Init
  <2>4. interrupt_code \in {"Keyboard", "Timer"} /\ typed_char \in Teclas
    BY DEF Init
  <2>5. QED BY <1>1, <2>1, <2>2, <2>3, <2>4, ComputerAssumption DEF TypeOK
<1>3. Pendente /\ Adiantado /\ Historia
  BY DEF Init, Pendente, Adiantado, TimerNoPrazo, Historia
<1>4. QED BY <1>2, <1>3 DEF IInv

\* A cycle of the terminal, with or without a key.
LEMMA PassoTerminal ==
    ASSUME IInv, (\E tecla \in Teclas : Terminal_run_cycle_tecla(tecla))
                    \/ Terminal_run_cycle_sem_tecla
    PROVE  IInv'
<1>1. vez = 1 /\ vez' = 2 /\ ~has_char /\ ~has_interrupt
  BY Vez DEF IInv, Pendente, Terminal_run_cycle_tecla, Terminal_run_cycle_sem_tecla
<1>2. CASE \E tecla \in Teclas : Terminal_run_cycle_tecla(tecla)
  <2>1. PICK tecla \in Teclas : Terminal_run_cycle_tecla(tecla)
    BY <1>2
  <2>2. /\ digitado' \in Seq(Teclas) /\ Len(digitado') = Len(digitado) + 1
        /\ Len(digitado') <= MAX_TECLAS
    BY <2>1, ComputerAssumption DEF IInv, TypeOK, Terminal_run_cycle_tecla
  <2>3. /\ has_interrupt' = TRUE /\ interrupt_code' = "Keyboard" /\ has_char' = TRUE
        /\ typed_char' = tecla
        /\ UNCHANGED <<alive, count, timer_interrupt_cycles, command_buffer, executou,
                       desde_timer, teclas_desde>>
    BY <1>1, <2>1 DEF Terminal_run_cycle_tecla, interrupt, timerVars, historiaVars
  <2>4. TypeOK'
    BY <1>1, <2>2, <2>3, Ordem DEF IInv, TypeOK
  <2>5. Pendente' /\ Adiantado'
    BY <1>1, <2>3 DEF IInv, Pendente, Adiantado, TimerNoPrazo
  <2>6. Historia'
    BY <1>1, <2>2, <2>3 DEF IInv, TypeOK, Historia
  <2>7. QED BY <2>4, <2>5, <2>6 DEF IInv
<1>3. CASE Terminal_run_cycle_sem_tecla
  <2>1. UNCHANGED <<alive, cpuVars, terminalVars, timerVars, command_buffer, historiaVars>>
    BY <1>1, <1>3 DEF Terminal_run_cycle_sem_tecla
  <2>2. QED BY <1>1, <2>1, Ordem DEF IInv, TypeOK, Pendente, Adiantado, TimerNoPrazo,
             Historia, cpuVars, terminalVars, timerVars, historiaVars
<1>4. QED BY <1>2, <1>3

\* A cycle of the disk or of the memory.
LEMMA PassoOcioso == IInv /\ Ocioso => IInv'
<1> SUFFICES ASSUME IInv, Ocioso PROVE IInv'
  OBVIOUS
<1>1. (vez = 2 /\ vez' = 3) \/ (vez = 4 /\ vez' = 5)
  <2>1. CASE Roda("disk")
    <3>1. vez = 2 /\ vez' = 3
      BY <2>1, Vez DEF IInv
    <3>2. QED BY <3>1
  <2>2. CASE Roda("memory")
    <3>1. vez = 4 /\ vez' = 5
      BY <2>2, Vez DEF IInv
    <3>2. QED BY <3>1
  <2>3. QED BY <2>1, <2>2 DEF Ocioso
<1>2. QED
  BY <1>1, Ordem DEF IInv, Ocioso, TypeOK, Pendente, Adiantado, TimerNoPrazo, Historia,
     cpuVars, terminalVars, timerVars, historiaVars

\* A cycle of the timer: it counts, or asks for its interrupt.
LEMMA PassoTimer == IInv /\ Timer_run_cycle => IInv'
<1> SUFFICES ASSUME IInv, Timer_run_cycle PROVE IInv'
  OBVIOUS
<1>1. vez = 3 /\ vez' = 4
  BY Vez DEF IInv, Timer_run_cycle
<1>2. /\ UNCHANGED <<alive, has_char, typed_char, digitado, timer_interrupt_cycles,
                     command_buffer, executou, desde_timer, teclas_desde>>
      /\ \/ /\ count < timer_interrupt_cycles /\ count' = count + 1
            /\ UNCHANGED <<has_interrupt, interrupt_code>>
         \/ /\ has_interrupt /\ count' = count
            /\ UNCHANGED <<has_interrupt, interrupt_code>>
         \/ /\ ~has_interrupt /\ count' = 0
            /\ has_interrupt' = TRUE /\ interrupt_code' = "Timer"
  <2>1. UNCHANGED <<alive, has_char, typed_char, digitado, timer_interrupt_cycles,
                    command_buffer, executou, desde_timer, teclas_desde>>
    BY DEF Timer_run_cycle, terminalVars, historiaVars
  <2>2. CASE count >= timer_interrupt_cycles
    <3>1. PICK aceita \in BOOLEAN :
             interrupt("Timer", aceita) /\ count' = IF aceita THEN 0 ELSE count
      BY <2>2 DEF Timer_run_cycle
    <3>2. CASE has_interrupt
      <4>1. aceita = FALSE /\ has_interrupt = TRUE
        BY <3>1, <3>2, Zenon DEF IInv, TypeOK, interrupt
      <4>2. has_interrupt' = has_interrupt /\ interrupt_code' = interrupt_code
        BY <3>1, <4>1, Zenon DEF interrupt
      <4>3. count' = count
        BY <3>1, <4>1
      <4>4. QED BY <2>1, <3>2, <4>2, <4>3
    <3>3. CASE ~has_interrupt
      <4>1. aceita = TRUE /\ has_interrupt' = TRUE
        BY <3>1, <3>3, Zenon DEF IInv, TypeOK, interrupt
      <4>2. interrupt_code' = "Timer"
        BY <3>1, <3>3 DEF interrupt
      <4>3. count' = 0
        BY <3>1, <4>1
      <4>4. QED BY <2>1, <3>3, <4>1, <4>2, <4>3
    <3>4. QED BY <2>1, <3>2, <3>3
  <2>3. CASE ~(count >= timer_interrupt_cycles)
    BY <2>1, <2>3, ComputerAssumption DEF IInv, TypeOK, Timer_run_cycle, cpuVars
  <2>4. QED BY <2>2, <2>3
<1>3. TypeOK'
  <2>1. count' \in 0 .. CICLOS_MOD - 1
    BY <1>2, ComputerAssumption DEF IInv, TypeOK
  <2>2. has_interrupt' \in BOOLEAN /\ interrupt_code' \in {"Keyboard", "Timer"}
    BY <1>2, Zenon DEF IInv, TypeOK
  <2>3. QED BY <1>1, <1>2, <2>1, <2>2, Ordem DEF IInv, TypeOK
<1>4. Pendente' /\ Historia'
  BY <1>1, <1>2 DEF IInv, Pendente, Historia
<1>5. Adiantado'
  BY <1>1, <1>2 DEF IInv, TypeOK, Pendente, Adiantado, TimerNoPrazo
<1>6. QED BY <1>3, <1>4, <1>5 DEF IInv

\* The CPU takes the interrupt of the timer.
LEMMA PassoAtendeTimer == IInv /\ Cpu_atende_timer => IInv'
<1> SUFFICES ASSUME IInv, Cpu_atende_timer PROVE IInv'
  OBVIOUS
<1>1. vez = 5 /\ vez' = 1 /\ ~has_char
  BY Vez DEF IInv, Pendente, Cpu_atende_timer, Atende
<1>2. /\ has_interrupt' = FALSE /\ executou' = FALSE
      /\ desde_timer' = 0 /\ teclas_desde' = 0
      /\ UNCHANGED <<interrupt_code, alive, has_char, typed_char, digitado, count,
                     timer_interrupt_cycles, command_buffer>>
  BY DEF Cpu_atende_timer, Atende, terminalVars, timerVars
<1>3. TypeOK'
  <2>1. has_interrupt' \in BOOLEAN /\ executou' \in BOOLEAN
    BY <1>2, Zenon
  <2>2. QED BY <1>1, <1>2, <2>1, Ordem, ComputerAssumption DEF IInv, TypeOK
<1>4. Pendente' /\ Adiantado'
  BY <1>1, <1>2, ComputerAssumption DEF IInv, TypeOK, Pendente, Adiantado, TimerNoPrazo
<1>5. Historia'
  BY <1>1, <1>2 DEF IInv, TypeOK, Historia
<1>6. QED BY <1>3, <1>4, <1>5 DEF IInv

\* The CPU takes the interrupt of the keyboard.
LEMMA PassoAtendeTeclado == IInv /\ Cpu_atende_teclado => IInv'
<1> SUFFICES ASSUME IInv, Cpu_atende_teclado PROVE IInv'
  OBVIOUS
<1>1. vez = 5 /\ vez' = 1 /\ has_char
  BY Vez DEF IInv, Pendente, Cpu_atende_teclado, Atende
<1>2. /\ has_char' = FALSE /\ has_interrupt' = FALSE /\ executou' = FALSE
      /\ desde_timer' = desde_timer + 1 /\ teclas_desde' = teclas_desde + 1
      /\ UNCHANGED <<interrupt_code, typed_char, digitado, count>>
  BY DEF Cpu_atende_teclado, Atende
<1>3. command_buffer' \in Seq(Letras)
  BY EditaTipo DEF IInv, TypeOK, Cpu_atende_teclado
<1>4. timer_interrupt_cycles' \in 0 .. CICLOS_MOD - 1 /\ alive' \in BOOLEAN
  <2>1. \A n \in Ciclos : n % CICLOS_MOD \in 0 .. CICLOS_MOD - 1
    <3>1. \A n, m \in Nat : m # 0 => n % m \in 0 .. m - 1
      OBVIOUS
    <3>2. QED BY <3>1, ComputerAssumption
  <2>2. QED BY <2>1 DEF IInv, TypeOK, Cpu_atende_teclado, processar_comandos
<1>5. Historia' /\ teclas_desde' \in 0 .. MAX_TECLAS
  BY <1>1, <1>2, ComputerAssumption DEF IInv, TypeOK, Historia
<1>6. TypeOK'
  <2>1. has_interrupt' \in BOOLEAN /\ executou' \in BOOLEAN /\ has_char' \in BOOLEAN
    BY <1>2, Zenon
  <2>2. QED BY <1>1, <1>2, <1>3, <1>4, <1>5, <2>1, Ordem DEF IInv, TypeOK
<1>7. Pendente' /\ Adiantado'
  BY <1>1, <1>2 DEF IInv, TypeOK, Pendente, Adiantado, TimerNoPrazo
<1>8. QED BY <1>5, <1>6, <1>7 DEF IInv

\* The CPU executes an instruction.
LEMMA PassoExecuta == IInv /\ Cpu_executa => IInv'
<1> SUFFICES ASSUME IInv, Cpu_executa PROVE IInv'
  OBVIOUS
<1>1. vez = 5 /\ vez' = 1 /\ ~has_interrupt /\ ~has_char
  BY Vez DEF IInv, Pendente, Cpu_executa
<1>2. QED
  BY <1>1, Ordem DEF IInv, Cpu_executa, TypeOK, Pendente, Adiantado, TimerNoPrazo,
     Historia, cpuVars, terminalVars, timerVars

\* The invariant holds in every reachable state, for every set of keys, every default
\* count and every bound: what the terminal, the timer and the CPU rely on of each other.
THEOREM InvarianteDaMaquina == Spec => []IInv
<1>1. IInv /\ [Next]_vars => IInv'
  <2> SUFFICES ASSUME IInv, [Next]_vars PROVE IInv'
    OBVIOUS
  <2>1. CASE \E tecla \in Teclas : Terminal_run_cycle_tecla(tecla)
    BY <2>1, PassoTerminal
  <2>2. CASE Terminal_run_cycle_sem_tecla
    BY <2>2, PassoTerminal
  <2>3. CASE Ocioso
    BY <2>3, PassoOcioso
  <2>4. CASE Timer_run_cycle
    BY <2>4, PassoTimer
  <2>5. CASE Cpu_atende_timer
    BY <2>5, PassoAtendeTimer
  <2>6. CASE Cpu_atende_teclado
    BY <2>6, PassoAtendeTeclado
  <2>7. CASE Cpu_executa
    BY <2>7, PassoExecuta
  <2>8. CASE UNCHANGED vars
    BY <2>8 DEF IInv, TypeOK, Pendente, Adiantado, TimerNoPrazo, Historia, vars, cpuVars,
       terminalVars, timerVars, historiaVars
  <2>9. QED BY <2>1, <2>2, <2>3, <2>4, <2>5, <2>6, <2>7, <2>8 DEF Next
<1>2. QED BY Inicio, <1>1, PTL DEF Spec

\* The registers of the devices keep their ranges (run_cycle of the timer never passes
\* the 16 bits of its count).
THEOREM TiposDaMaquina == Spec => []TypeOK
<1>1. IInv => TypeOK
  BY DEF IInv
<1>2. QED BY InvarianteDaMaquina, <1>1, PTL

\* No typed character is overwritten before the kernel reads it, in whatever cycle the
\* keys and the timer come.
THEOREM NenhumaTeclaPerdida == Spec => []SemTeclaPerdida
<1>1. IInv => SemTeclaPerdida
  BY Ordem DEF IInv, TypeOK, Pendente, SemTeclaPerdida
<1>2. QED BY InvarianteDaMaquina, <1>1, PTL

\* Refused interrupts of the timer are asked again and never counted anew, so that a
\* quantum lasts no longer than its count and the keys handled meanwhile.
THEOREM QuantumLimitado == Spec => []TimerNoPrazo
<1>1. IInv => TimerNoPrazo
  BY DEF IInv, Adiantado
<1>2. QED BY InvarianteDaMaquina, <1>1, PTL

-----------------------------------------------------------------------------
(* The line *)

\* The recursive definition of Edicoes has a solution, whatever the keys.
LEMMA EdicoesDefinidas ==
    ASSUME NEW teclas, Len(teclas) \in Nat
    PROVE  /\ Edicoes(teclas)[0] = <<>>
           /\ \A i \in 1 .. Len(teclas) :
                 Edicoes(teclas)[i] = Edita(Edicoes(teclas)[i - 1], teclas[i])
<1> DEFINE L == Len(teclas)
           Passo(g, n) ==
               [i \in 0 .. n |-> IF i = 0 THEN <<>> ELSE Edita(g[i - 1], teclas[i])]
           Faltam == {n \in 0 .. L : ~ \E g : g = Passo(g, n)}
<1>1. Faltam = {}
  <2>1. SUFFICES ASSUME Faltam # {} PROVE FALSE
    OBVIOUS
  <2>2. PICK m \in Faltam : \A k \in Faltam : m <= k
    <3>1. Faltam \subseteq Nat
      OBVIOUS
    <3> HIDE DEF Faltam
    <3>2. QED BY <2>1, <3>1, MenorNumero
  <2>3. CASE m = 0
    <3> DEFINE h == [i \in 0 .. 0 |-> <<>>]
    <3>1. h = Passo(h, 0)
      OBVIOUS
    <3>2. QED BY <2>2, <2>3, <3>1
  <2>4. CASE m # 0
    <3>1. m - 1 \in 0 .. L /\ m \in Nat /\ ~(m <= m - 1)
      BY <2>4
    <3>2. PICK g : g = Passo(g, m - 1)
      BY <2>2, <3>1
    <3> DEFINE h == [i \in 0 .. m |-> IF i < m THEN g[i] ELSE Edita(g[m - 1], teclas[m])]
    <3>3. ASSUME NEW i \in 0 .. m
          PROVE  h[i] = IF i = 0 THEN <<>> ELSE Edita(h[i - 1], teclas[i])
      <4>1. CASE i = 0
        <5>1. h[i] = g[0] /\ 0 \in 0 .. m - 1
          BY <2>4, <3>1, <4>1
        <5>2. g[0] = <<>>
          BY <3>2, <5>1
        <5>3. QED BY <4>1, <5>1, <5>2
      <4>2. CASE i # 0 /\ i < m
        <5>1. h[i] = g[i] /\ h[i - 1] = g[i - 1] /\ i \in 0 .. m - 1
          BY <3>1, <4>2
        <5>2. g[i] = Edita(g[i - 1], teclas[i])
          BY <3>2, <4>2, <5>1
        <5>3. QED BY <4>2, <5>1, <5>2
      <4>3. CASE i # 0 /\ ~(i < m)
        <5>1. i = m /\ h[i - 1] = g[m - 1]
          BY <3>1, <4>3
        <5>2. QED BY <4>3, <5>1
      <4>4. QED BY <4>1, <4>2, <4>3
    <3>4. h = Passo(h, m)
      BY <3>3
    <3>5. QED BY <2>2, <3>4
  <2>5. QED BY <2>3, <2>4
<1>2. \E g : g = Passo(g, L)
  <2>1. L \in 0 .. L
    OBVIOUS
  <2>2. QED BY <1>1, <2>1
<1>3. Edicoes(teclas) = Passo(Edicoes(teclas), L)
  BY <1>2 DEF Edicoes
<1>4. \A i \in 0 .. L : Edicoes(teclas)[i] =
          IF i = 0 THEN <<>> ELSE Edita(Edicoes(teclas)[i - 1], teclas[i])
  BY <1>3
<1> HIDE DEF Passo
<1>5. QED BY <1>4

\* One key more is one edit more.
LEMMA MaisUmaTecla ==
    ASSUME NEW S, NEW teclas \in Seq(S), NEW tecla \in S
    PROVE  LinhaDigitada(Append(teclas, tecla)) = Edita(LinhaDigitada(teclas), tecla)
<1> DEFINE mais == Append(teclas, tecla)
           L == Len(teclas)
           Diferem == {n \in 0 .. L : Edicoes(mais)[n] # Edicoes(teclas)[n]}
<1>1. /\ L \in Nat /\ Len(mais) = L + 1 /\ mais[L + 1] = tecla
      /\ \A i \in 1 .. L : mais[i] = teclas[i]
  OBVIOUS
<1> HIDE DEF mais
<1>2. /\ Edicoes(teclas)[0] = <<>>
      /\ \A i \in 1 .. L : Edicoes(teclas)[i] = Edita(Edicoes(teclas)[i - 1], teclas[i])
  BY EdicoesDefinidas
<1>3. /\ Edicoes(mais)[0] = <<>>
      /\ \A i \in 1 .. L + 1 : Edicoes(mais)[i] = Edita(Edicoes(mais)[i - 1], mais[i])
  <2>1. Len(mais) \in Nat
    BY <1>1
  <2>2. /\ Edicoes(mais)[0] = <<>>
        /\ \A i \in 1 .. Len(mais) : Edicoes(mais)[i] = Edita(Edicoes(mais)[i - 1], mais[i])
    BY <2>1, EdicoesDefinidas
  <2>3. QED BY <1>1, <2>2
<1> HIDE DEF L
<1>4. Diferem = {}
  <2>1. SUFFICES ASSUME Diferem # {} PROVE FALSE
    OBVIOUS
  <2>2. PICK m \in Diferem : \A k \in Diferem : m <= k
    <3>1. Diferem \subseteq Nat
      BY <1>1
    <3> HIDE DEF Diferem
    <3>2. QED BY <2>1, <3>1, MenorNumero
  <2>3. m # 0
    BY <1>2, <1>3, <2>2
  <2>4. m - 1 \in 0 .. L /\ m \in 1 .. L /\ m \in 1 .. L + 1 /\ ~(m <= m - 1)
    BY <1>1, <2>3
  <2>5. Edicoes(mais)[m - 1] = Edicoes(teclas)[m - 1]
    BY <2>2, <2>4
  <2>6. Edicoes(mais)[m] = Edicoes(teclas)[m]
    BY <1>1, <1>2, <1>3, <2>4, <2>5
  <2>7. QED BY <2>2, <2>6
<1>5. Edicoes(mais)[L] = Edicoes(teclas)[L]
  BY <1>1, <1>4
<1>6. Edicoes(mais)[L + 1] = Edita(Edicoes(mais)[L], tecla)
  <2>1. L + 1 \in 1 .. L + 1 /\ (L + 1) - 1 = L
    BY <1>1
  <2>2. QED BY <1>1, <1>3, <2>1
<1>7. QED BY <1>1, <1>5, <1>6 DEF LinhaDigitada, mais, L

\* However many keys, and whatever interrupts come between them: the line in the kernel
\* is what all of them make of it, but for the one the terminal still holds.
THEOREM LinhaDeTodasAsTeclas == Spec => []LinhaExata
<1>1. Init => LinhaExata
  <2> SUFFICES ASSUME Init PROVE LinhaExata
    OBVIOUS
  <2>1. digitado = <<>> /\ Len(digitado) = 0 /\ command_buffer = <<>> /\ ~has_char
    BY DEF Init
  <2>2. Edicoes(digitado)[0] = <<>>
    BY <2>1, EdicoesDefinidas
  <2>3. QED BY <2>1, <2>2 DEF LinhaExata, LinhaDigitada
<1>2. IInv /\ LinhaExata /\ [Next]_vars => LinhaExata'
  <2> SUFFICES ASSUME IInv, LinhaExata, [Next]_vars PROVE LinhaExata'
    OBVIOUS
  <2>1. CASE \E tecla \in Teclas : Terminal_run_cycle_tecla(tecla)
    <3>1. PICK tecla \in Teclas : Terminal_run_cycle_tecla(tecla)
      BY <2>1
    <3>2. ~has_char
      BY <3>1, Vez DEF IInv, Pendente, Terminal_run_cycle_tecla
    <3>3. digitado' = Append(digitado, tecla) /\ has_char' /\ typed_char' = tecla
          /\ command_buffer' = command_buffer
      BY <3>1 DEF Terminal_run_cycle_tecla
    <3>4. digitado \in Seq(Teclas)
      BY DEF IInv, TypeOK
    <3>5. LinhaDigitada(digitado') = Edita(LinhaDigitada(digitado), tecla)
      BY <3>3, <3>4, MaisUmaTecla
    <3>6. QED BY <3>2, <3>3, <3>5 DEF LinhaExata
  <2>2. CASE Cpu_atende_teclado
    <3>1. has_char
      BY <2>2, Vez DEF IInv, Pendente, Cpu_atende_teclado, Atende
    <3>2. ~has_char' /\ digitado' = digitado
          /\ command_buffer' = Edita(command_buffer, typed_char)
      BY <2>2 DEF Cpu_atende_teclado
    <3>3. QED BY <3>1, <3>2 DEF LinhaExata
  <2>3. CASE UNCHANGED <<digitado, has_char, typed_char, command_buffer>>
    BY <2>3 DEF LinhaExata
  <2>4. QED
    BY <2>1, <2>2, <2>3 DEF Next, Terminal_run_cycle_sem_tecla, Ocioso,
       Timer_run_cycle, Cpu_atende_timer, Cpu_executa, vars, terminalVars
<1>3. QED BY InvarianteDaMaquina, <1>1, <1>2, PTL DEF Spec

-----------------------------------------------------------------------------
(* The window for commands *)

\* What the window may show.
Visiveis == Letras \cup {TAB, PROMPT}

VideoEmOrdem == EmOrdem(Visiveis, video)

\* The handler of the keyboard prints nothing but what can be seen and ends of lines.
LEMMA EcoTipo ==
    ASSUME NEW linha \in Seq(Letras), NEW tecla, NEW saida \in Saidas
    PROVE  Eco(linha, tecla, saida) \in Seq(Visiveis \cup {LF, CR})
<1> DEFINE S == Visiveis \cup {LF, CR}
<1>1. LF \in S /\ CR \in S /\ PROMPT \in S /\ Letras \subseteq S /\ Letras \cup {TAB, LF} \subseteq S
  BY DEF Visiveis
<1>2. linha \in Seq(S) /\ saida \in Seq(S)
  <2>1. saida \in Seq(Letras \cup {TAB, LF})
    BY ComputerAssumption
  <2> HIDE DEF S
  <2>2. \A A : A \subseteq S => Seq(A) \subseteq Seq(S)
    OBVIOUS
  <2>3. QED BY <1>1, <2>1, <2>2
<1> HIDE DEF S
<1>3. CASE tecla \in Letras
  <2>1. tecla \in S
    BY <1>1, <1>3
  <2>2. <<tecla>> \in Seq(S)
    BY <2>1
  <2>3. QED BY <1>3, <2>2 DEF Eco, S
<1>4. CASE tecla \notin Letras /\ tecla = BACKSPACE /\ linha # <<>>
  <2>1. Front(linha) \in Seq(S)
    BY <1>2, <1>4 DEF Front
  <2>2. <<CR, PROMPT>> \o Front(linha) \in Seq(S)
    BY <1>1, <2>1
  <2>3. QED BY <1>4, <2>2 DEF Eco, S
<1>5. CASE tecla \notin Letras /\ ~(tecla = BACKSPACE /\ linha # <<>>) /\ tecla = ENTER
  <2> DEFINE r == IF Vazia(linha) THEN <<>> ELSE Append(saida, LF)
  <2>1. r \in Seq(S)
    BY <1>1, <1>2
  <2> HIDE DEF r
  <2>2. r \o <<PROMPT>> \in Seq(S)
    BY <1>1, <2>1
  <2>3. QED BY <1>5, <2>2 DEF Eco, S, r
<1>6. CASE tecla \notin Letras /\ ~(tecla = BACKSPACE /\ linha # <<>>) /\ tecla # ENTER
  <2>1. Eco(linha, tecla, saida) = <<>>
    BY <1>6 DEF Eco
  <2>2. QED BY <2>1 DEF S
<1>7. QED BY <1>3, <1>4, <1>5, <1>6

\* The window is in order after every step.
LEMMA VideoSempreEmOrdem == Spec => []VideoEmOrdem
<1>1. BRANCO \in Visiveis
  BY ComputerAssumption DEF Visiveis
<1>2. Init => VideoEmOrdem
  <2> SUFFICES ASSUME Init PROVE VideoEmOrdem
    OBVIOUS
  <2>1. Menu \in Seq(Letras \cup {TAB, LF}) /\ Letras \cup {TAB, LF} \subseteq Visiveis \cup {LF, CR}
    BY ComputerAssumption DEF Visiveis
  <2>2. \A A, B : A \subseteq B => Seq(A) \subseteq Seq(B)
    OBVIOUS
  <2>3. Menu \in Seq(Visiveis \cup {LF, CR})
    BY <2>1, <2>2
  <2>4. PROMPT \in Visiveis \cup {LF, CR}
    BY DEF Visiveis
  <2>5. Append(Menu, PROMPT) \in Seq(Visiveis \cup {LF, CR})
    BY <2>3, <2>4
  <2>6. EmOrdem(Visiveis, TelaNova)
    BY <1>1, NovaEmOrdem
  <2>7. EmOrdem(Visiveis, print(TelaNova, Append(Menu, PROMPT)))
    BY <1>1, <2>5, <2>6, PrintEmOrdem
  <2>8. QED BY <2>7 DEF Init, VideoEmOrdem
<1>3. IInv /\ VideoEmOrdem /\ [Next]_vars => VideoEmOrdem'
  <2> SUFFICES ASSUME IInv, VideoEmOrdem, [Next]_vars PROVE VideoEmOrdem'
    OBVIOUS
  <2>1. CASE Cpu_atende_teclado
    <3>1. PICK saida \in Saidas : video' = print(video, Eco(command_buffer, typed_char, saida))
      BY <2>1 DEF Cpu_atende_teclado
    <3>2. command_buffer \in Seq(Letras)
      BY DEF IInv, TypeOK
    <3>3. Eco(command_buffer, typed_char, saida) \in Seq(Visiveis \cup {LF, CR})
      BY <3>2, EcoTipo
    <3>4. EmOrdem(Visiveis, video)
      BY DEF VideoEmOrdem
    <3>5. EmOrdem(Visiveis, print(video, Eco(command_buffer, typed_char, saida)))
      BY <1>1, <3>3, <3>4, PrintEmOrdem
    <3>6. QED BY <3>1, <3>5 DEF VideoEmOrdem
  <2>2. CASE video' = video
    BY <2>2 DEF VideoEmOrdem
  <2>3. QED
    BY <2>1, <2>2 DEF Next, Terminal_run_cycle_tecla, Terminal_run_cycle_sem_tecla, Ocioso,
       Timer_run_cycle, Cpu_atende_timer, Cpu_executa, vars, terminalVars
<1>4. QED BY InvarianteDaMaquina, <1>2, <1>3, PTL DEF Spec

\* Of a window of any size: whatever is typed and answered, nothing stays on the screen
\* after the cursor, and the cursor never leaves the window.
THEOREM NadaDepoisDoCursor == Spec => [](TelaSemRestos /\ CursorDentro(video))
<1>1. VideoEmOrdem => TelaSemRestos /\ CursorDentro(video)
  BY DEF VideoEmOrdem, EmOrdem, Desenho, TelaSemRestos, CursorDentro
<1>2. QED BY VideoSempreEmOrdem, <1>1, PTL

-----------------------------------------------------------------------------
(* The line on the screen *)

Linha(cb) == <<PROMPT>> \o cb

VideoMostra == Mostra(video, Linha(command_buffer))

LEMMA PromptVisivel ==
    /\ BRANCO \in Visiveis /\ PROMPT \in Visiveis
    /\ \A c \in Visiveis : c \notin {LF, CR}
<1>1. PROMPT \notin {LF, CR} /\ TAB \notin {LF, CR}
  BY DEF PROMPT, TAB, LF, CR
<1>2. QED BY <1>1, ComputerAssumption DEF Visiveis

\* A text of one character, and an empty one.
LEMMA PrintUm ==
    ASSUME NEW tela, NEW c
    PROVE  print(tela, <<c>>) = Caractere(tela, c) /\ print(tela, <<>>) = tela
<1>1. Len(<<c>>) = 1 /\ <<c>>[1] = c /\ Len(<<>>) = 0
  OBVIOUS
<1>2. Telas(tela, <<c>>)[0] = tela /\ Telas(tela, <<c>>)[1] = Caractere(Telas(tela, <<c>>)[0], c)
  <2> DEFINE texto == <<c>>
  <2>1. Len(texto) = 1 /\ texto[1] = c
    OBVIOUS
  <2> HIDE DEF texto
  <2>2. /\ Telas(tela, texto)[0] = tela
        /\ \A i \in 1 .. Len(texto) :
              Telas(tela, texto)[i] = Caractere(Telas(tela, texto)[i - 1], texto[i])
    BY <2>1, TelasDefinidas
  <2>3. QED BY <2>1, <2>2 DEF texto
<1>3. Telas(tela, <<>>)[0] = tela
  BY <1>1, TelasDefinidas
<1>4. QED BY <1>1, <1>2, <1>3 DEF print

\* The last of a list.
LEMMA Ultimo ==
    ASSUME NEW A, NEW s \in Seq(A), NEW e \in A
    PROVE  /\ Append(s, e) \in Seq(A) /\ Append(s, e) = s \o <<e>>
           /\ Len(s) \in Nat /\ Len(Append(s, e)) = Len(s) + 1 /\ Append(s, e)[Len(s) + 1] = e
           /\ SubSeq(Append(s, e), Len(s) + 1, Len(Append(s, e))) = <<e>>
<1> DEFINE t == Append(s, e)
<1>1. /\ Len(s) \in Nat /\ t \in Seq(A) /\ Len(t) = Len(s) + 1 /\ t[Len(s) + 1] = e
      /\ t = s \o <<e>>
  OBVIOUS
<1> HIDE DEF t
<1> DEFINE u == SubSeq(t, Len(s) + 1, Len(t))
<1>2. u \in Seq(A) /\ Len(u) = 1 /\ u[1] = e
  BY <1>1
<1> HIDE DEF u
<1>3. u = <<e>>
  <2>1. /\ <<e>> \in Seq(A) /\ Len(u) = Len(<<e>>)
        /\ \A i \in 1 .. Len(u) : u[i] = <<e>>[i]
    BY <1>2
  <2>2. QED BY <1>2, <2>1, SeqEqual
<1>4. QED BY <1>1, <1>3 DEF t, u

\* What the handler prints for a key ends with the prompt and the line that the key makes
\* of the one there was, or is what has to come after it.
LEMMA EcoMostra ==
    ASSUME NEW tela, EmOrdem(Visiveis, tela), NEW cb \in Seq(Letras), Mostra(tela, Linha(cb)),
           NEW tecla, NEW saida \in Saidas
    PROVE  Mostra(print(tela, Eco(cb, tecla, saida)), Linha(Edita(cb, tecla)))
<1> DEFINE V == Visiveis \cup {LF, CR}
<1>1. cb \in Seq(Visiveis)
  <2>1. Letras \subseteq Visiveis
    BY DEF Visiveis
  <2>2. \A A, B : A \subseteq B => Seq(A) \subseteq Seq(B)
    OBVIOUS
  <2>3. QED BY <2>1, <2>2
<1>2. Eco(cb, tecla, saida) \in Seq(V)
  BY EcoTipo
<1> HIDE DEF V
<1>3. CASE tecla \in Letras
  <2>1. print(tela, Eco(cb, tecla, saida)) = Caractere(tela, tecla)
    BY <1>3, PrintUm DEF Eco
  <2>2. Linha(Edita(cb, tecla)) = Append(Linha(cb), tecla) /\ Linha(cb) \in Seq(Visiveis)
    <3>1. PROMPT \in Visiveis /\ tecla \in Visiveis
      BY <1>3 DEF Visiveis
    <3>2. <<PROMPT>> \o Append(cb, tecla) = Append(<<PROMPT>> \o cb, tecla)
      BY <1>1, <3>1
    <3>3. QED BY <1>1, <1>3, <3>1, <3>2 DEF Edita, Linha
  <2>3. tecla \in Visiveis /\ tecla \notin {LF, CR}
    BY <1>3, PromptVisivel DEF Visiveis
  <2>4. Mostra(Caractere(tela, tecla), Append(Linha(cb), tecla))
    BY <2>2, <2>3, PromptVisivel, CaractereMostra
  <2>5. QED BY <2>1, <2>2, <2>4
<1>4. CASE tecla \notin Letras /\ tecla = BACKSPACE /\ cb # <<>>
  <2> DEFINE f == Front(cb)
             texto == <<CR, PROMPT>> \o f
  <2>1. f \in Seq(Visiveis) /\ Edita(cb, tecla) = f /\ Eco(cb, tecla, saida) = texto
    BY <1>1, <1>4 DEF Front, Edita, Eco
  <2> HIDE DEF f
  <2>2. /\ Len(f) \in Nat /\ Len(texto) = Len(f) + 2 /\ texto[2] = PROMPT
        /\ \A i \in 1 .. Len(f) : texto[i + 2] = f[i] /\ f[i] \in Visiveis
    BY <2>1
  <2>3. ASSUME NEW i \in 1 + 1 .. Len(texto) PROVE texto[i] \in Visiveis
    <3>1. CASE i = 2
      BY <2>2, <3>1, PromptVisivel
    <3>2. CASE i # 2
      <4>1. i - 2 \in 1 .. Len(f) /\ (i - 2) + 2 = i
        BY <2>2, <3>2
      <4>2. QED BY <2>2, <4>1
    <3>3. QED BY <3>1, <3>2
  <2>4. SubSeq(texto, 1 + 1, Len(texto)) = Linha(f)
    <3>1. texto = <<CR>> \o Linha(f) /\ Linha(f) \in Seq(Visiveis)
      BY <2>1, PromptVisivel DEF Linha
    <3>2. QED BY <3>1
  <2>5. 1 \in 0 .. Len(texto) /\ texto \in Seq(V)
    BY <1>2, <2>1, <2>2
  <2> HIDE DEF texto
  <2>6. \A i \in 1 + 1 .. Len(texto) : texto[i] \notin {LF, CR}
    BY <2>3, PromptVisivel
  <2>7. Mostra(print(tela, texto), SubSeq(texto, 1 + 1, Len(texto)))
    BY <2>5, <2>6, PromptVisivel, PrintMostra DEF V
  <2>8. QED BY <2>1, <2>4, <2>7
<1>5. CASE tecla \notin Letras /\ ~(tecla = BACKSPACE /\ cb # <<>>) /\ tecla = ENTER
  <2> DEFINE r == IF Vazia(cb) THEN <<>> ELSE Append(saida, LF)
             texto == r \o <<PROMPT>>
  <2>1. Edita(cb, tecla) = <<>> /\ Eco(cb, tecla, saida) = texto
    BY <1>5 DEF Edita, Eco
  <2>2. r \in Seq(V)
    <3>1. saida \in Seq(Letras \cup {TAB, LF}) /\ Letras \cup {TAB, LF} \subseteq V
      BY ComputerAssumption DEF V, Visiveis
    <3>2. LF \in V
      BY <3>1
    <3>3. saida \in Seq(V)
      BY <3>1
    <3>4. QED BY <3>2, <3>3
  <2> HIDE DEF r
  <2>3. PROMPT \in V
    BY PromptVisivel DEF V
  <2>4. /\ Len(r) \in Nat /\ Len(texto) = Len(r) + 1 /\ texto[Len(r) + 1] = PROMPT
        /\ SubSeq(texto, Len(r) + 1, Len(texto)) = <<PROMPT>>
    <3>1. /\ Append(r, PROMPT) = r \o <<PROMPT>> /\ Len(r) \in Nat
          /\ Len(Append(r, PROMPT)) = Len(r) + 1 /\ Append(r, PROMPT)[Len(r) + 1] = PROMPT
          /\ SubSeq(Append(r, PROMPT), Len(r) + 1, Len(Append(r, PROMPT))) = <<PROMPT>>
      BY <2>2, <2>3, Ultimo
    <3>2. texto = Append(r, PROMPT)
      BY <3>1
    <3> HIDE DEF texto
    <3>3. QED BY <3>1, <3>2
  <2>5. Linha(<<>>) = <<PROMPT>>
    BY DEF Linha
  <2> HIDE DEF texto
  <2>6. \A i \in Len(r) + 1 .. Len(texto) : texto[i] \notin {LF, CR}
    <3>1. \A i \in Len(r) + 1 .. Len(texto) : i = Len(r) + 1
      BY <2>4
    <3>2. QED BY <2>4, <3>1, PromptVisivel
  <2>7. Len(r) \in 0 .. Len(texto) /\ texto \in Seq(V)
    BY <1>2, <2>1, <2>4
  <2>8. Mostra(print(tela, texto), SubSeq(texto, Len(r) + 1, Len(texto)))
    BY <2>6, <2>7, PromptVisivel, PrintMostra DEF V
  <2>9. QED BY <2>1, <2>4, <2>5, <2>8
<1>6. CASE tecla \notin Letras /\ ~(tecla = BACKSPACE /\ cb # <<>>) /\ tecla # ENTER
  <2>1. Edita(cb, tecla) = cb /\ Eco(cb, tecla, saida) = <<>>
    BY <1>6 DEF Edita, Eco
  <2>2. QED BY <2>1, PrintUm
<1>7. QED BY <1>3, <1>4, <1>5, <1>6

\* The user sees the line that Enter will run, in a window of any size: through rows that
\* end, a screen that rolls, lines drawn again and what commands answer.
THEOREM UsuarioVeALinha == Spec => []TelaMostraLinha
<1>1. Init => VideoMostra
  <2> SUFFICES ASSUME Init PROVE VideoMostra
    OBVIOUS
  <2> DEFINE V == Visiveis \cup {LF, CR}
             texto == Append(Menu, PROMPT)
  <2>1. Menu \in Seq(V) /\ PROMPT \in V
    <3>1. Menu \in Seq(Letras \cup {TAB, LF}) /\ Letras \cup {TAB, LF} \subseteq V
      BY ComputerAssumption DEF Visiveis
    <3> HIDE DEF V
    <3>2. Menu \in Seq(V)
      BY <3>1
    <3>3. QED BY <3>2, PromptVisivel DEF V
  <2> HIDE DEF V
  <2>2. /\ texto \in Seq(V) /\ Len(Menu) \in 0 .. Len(texto)
        /\ SubSeq(texto, Len(Menu) + 1, Len(texto)) = <<PROMPT>>
        /\ Len(texto) = Len(Menu) + 1 /\ Len(Menu) \in Nat /\ texto[Len(Menu) + 1] = PROMPT
    <3> HIDE DEF texto
    <3>1. /\ texto \in Seq(V) /\ Len(Menu) \in Nat /\ Len(texto) = Len(Menu) + 1
          /\ texto[Len(Menu) + 1] = PROMPT /\ SubSeq(texto, Len(Menu) + 1, Len(texto)) = <<PROMPT>>
      BY <2>1, Ultimo DEF texto
    <3>2. QED BY <3>1
  <2> HIDE DEF texto
  <2>3. \A i \in Len(Menu) + 1 .. Len(texto) : texto[i] \notin {LF, CR}
    <3>1. \A i \in Len(Menu) + 1 .. Len(texto) : i = Len(Menu) + 1
      BY <2>2
    <3>2. QED BY <2>2, <3>1, PromptVisivel
  <2>4. EmOrdem(Visiveis, TelaNova)
    BY PromptVisivel, NovaEmOrdem
  <2>5. Mostra(print(TelaNova, texto), SubSeq(texto, Len(Menu) + 1, Len(texto)))
    BY <2>2, <2>3, <2>4, PromptVisivel, PrintMostra DEF V
  <2>6. video = print(TelaNova, texto) /\ Linha(command_buffer) = <<PROMPT>>
    BY DEF Init, Linha, texto
  <2>7. QED BY <2>2, <2>5, <2>6 DEF VideoMostra
<1>2. IInv /\ VideoEmOrdem /\ VideoMostra /\ [Next]_vars => VideoMostra'
  <2> SUFFICES ASSUME IInv, VideoEmOrdem, VideoMostra, [Next]_vars PROVE VideoMostra'
    OBVIOUS
  <2>1. CASE Cpu_atende_teclado
    <3>1. PICK saida \in Saidas : video' = print(video, Eco(command_buffer, typed_char, saida))
      BY <2>1 DEF Cpu_atende_teclado
    <3>2. command_buffer \in Seq(Letras) /\ command_buffer' = Edita(command_buffer, typed_char)
      BY <2>1 DEF IInv, TypeOK, Cpu_atende_teclado
    <3>3. Mostra(print(video, Eco(command_buffer, typed_char, saida)),
                 Linha(Edita(command_buffer, typed_char)))
      BY <3>2, EcoMostra DEF VideoEmOrdem, VideoMostra
    <3>4. QED BY <3>1, <3>2, <3>3 DEF VideoMostra
  <2>2. CASE video' = video /\ command_buffer' = command_buffer
    BY <2>2 DEF VideoMostra
  <2>3. QED
    BY <2>1, <2>2 DEF Next, Terminal_run_cycle_tecla, Terminal_run_cycle_sem_tecla, Ocioso,
       Timer_run_cycle, Cpu_atende_timer, Cpu_executa, vars, terminalVars
<1>3. IInv /\ VideoEmOrdem /\ VideoMostra => TelaMostraLinha
  <2> SUFFICES ASSUME IInv, VideoEmOrdem, VideoMostra PROVE TelaMostraLinha
    OBVIOUS
  <2>1. CursorDentro(video)
    BY DEF VideoEmOrdem, EmOrdem, Desenho, CursorDentro
  <2>2. Linha(command_buffer) \in Seq(Letras \cup {PROMPT})
    <3>1. command_buffer \in Seq(Letras)
      BY DEF IInv, TypeOK
    <3>2. QED BY <3>1 DEF Linha
  <2>3. \/ IsSuffix(Linha(command_buffer), AntesDoCursor(video))
        \/ IsSuffix(AntesDoCursor(video), Linha(command_buffer)) /\ video.y = nrows - 1
    BY <2>2, MostraSufixo DEF VideoEmOrdem, VideoMostra
  <2>4. QED BY <2>1, <2>3 DEF TelaMostraLinha, Linha
<1>4. QED BY InvarianteDaMaquina, VideoSempreEmOrdem, <1>1, <1>2, <1>3, PTL DEF Spec
=============================================================================
