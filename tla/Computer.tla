------------------------------ MODULE Computer ------------------------------
(***************************************************************************)
(* The machine: arch/arch.cpp runs the devices in turn, arch/terminal.cpp   *)
(* and arch/timer.cpp ask for interrupts, arch/cpu.cpp holds one pending     *)
(* interrupt and takes it instead of an instruction, os/os.cpp handles the   *)
(* keyboard and writes what was typed, and what a command answers, in the    *)
(* terminal's window for commands.  An action is run_cycle of one device.    *)
(* What the timer's interrupt and the instructions do to processes is in     *)
(* Escalonador.                                                             *)
(***************************************************************************)
EXTENDS VideoOutput

CONSTANTS
    Letras,            \* printable characters, BRANCO among them
    Saidas,            \* what commands print in the window, with its new lines
    Menu,              \* what boot prints there
    OUTRA,             \* any character that is neither printable nor below
    CICLOS_MOD,        \* number of values of a 16-bit number of cycles
    timer_default_interrupt_cycles,
    Ciclos,            \* the numbers a user can give to the command timer
    MAX_TECLAS         \* bound: keys typed

BACKSPACE == "backspace"
ENTER     == "enter"
PROMPT    == ">"
TAB       == "tab"   \* in the list of processes; in the buffer a character like any other
Teclas    == Letras \cup {OUTRA, BACKSPACE, ENTER}

ASSUME ComputerAssumption ==
    /\ CICLOS_MOD \in Nat \ {0} /\ MAX_TECLAS \in Nat
    /\ timer_default_interrupt_cycles \in 0 .. CICLOS_MOD - 1
    /\ Ciclos \subseteq Nat
    /\ {OUTRA, BACKSPACE, ENTER, LF, CR} \cap Letras = {} /\ OUTRA \notin {BACKSPACE, ENTER}
    /\ BRANCO \in Letras /\ Saidas \cup {Menu} \subseteq Seq(Letras \cup {TAB, LF})

VARIABLES
    vez,                       \* which device runs next
    alive,
    has_interrupt, interrupt_code,      \* the CPU's pending interrupt
    has_char, typed_char,               \* the terminal
    count, timer_interrupt_cycles,      \* the timer
    command_buffer,                     \* the kernel
    video,                              \* the window for commands
    executou,                  \* the CPU's last cycle went to an instruction
    digitado,                  \* keys typed since boot (history)
    desde_timer,               \* cycles since the last timer interrupt (history)
    teclas_desde               \* of them, those that handled a key (history)

cpuVars      == <<has_interrupt, interrupt_code>>
terminalVars == <<has_char, typed_char, digitado, video>>
timerVars    == <<count, timer_interrupt_cycles>>
historiaVars == <<executou, desde_timer, teclas_desde>>
vars == <<vez, alive, cpuVars, terminalVars, timerVars, command_buffer, historiaVars>>

\* Fault: the timer runs before the terminal.
devices_timer_antes == <<"timer", "terminal", "disk", "memory", "cpu">>

\* The order in which the constructor of Computer lists the devices.
devices == <<"terminal", "disk", "timer", "memory", "cpu">>

Roda(d) ==
    /\ devices[vez] = d
    /\ alive \/ vez > 1
    /\ vez' = (vez % Len(devices)) + 1

-----------------------------------------------------------------------------
\* Cpu::interrupt: one interrupt is pending at most; aceita says whether it is this one.
interrupt(codigo, aceita) ==
    /\ aceita = ~has_interrupt
    /\ has_interrupt' = TRUE
    /\ interrupt_code' = IF has_interrupt THEN interrupt_code ELSE codigo

\* A key was typed: a character the kernel has not read is overwritten.
Terminal_run_cycle_tecla(tecla) ==
    /\ Roda("terminal")
    /\ Len(digitado) < MAX_TECLAS
    /\ digitado' = Append(digitado, tecla)
    /\ has_char' = TRUE
    /\ typed_char' = tecla
    /\ \E aceita \in BOOLEAN : interrupt("Keyboard", aceita)
    /\ UNCHANGED <<alive, video, timerVars, command_buffer, historiaVars>>

Terminal_run_cycle_sem_tecla ==
    /\ Roda("terminal")
    /\ IF has_char THEN \E aceita \in BOOLEAN : interrupt("Keyboard", aceita)
                   ELSE UNCHANGED cpuVars
    /\ UNCHANGED <<alive, terminalVars, timerVars, command_buffer, historiaVars>>

\* Fault: the count restarts even when the CPU refuses the interrupt.
Timer_esquece ==
    /\ Roda("timer")
    /\ IF count >= timer_interrupt_cycles
       THEN \E aceita \in BOOLEAN : interrupt("Timer", aceita) /\ count' = 0
       ELSE count' = count + 1 /\ UNCHANGED cpuVars
    /\ UNCHANGED <<alive, terminalVars, timer_interrupt_cycles, command_buffer, historiaVars>>

\* Fault: the count goes on when the CPU refuses the interrupt.
Timer_conta_sempre ==
    /\ Roda("timer")
    /\ IF count >= timer_interrupt_cycles
       THEN \E aceita \in BOOLEAN :
               interrupt("Timer", aceita) /\ count' = IF aceita THEN 0 ELSE count + 1
       ELSE count' = count + 1 /\ UNCHANGED cpuVars
    /\ UNCHANGED <<alive, terminalVars, timer_interrupt_cycles, command_buffer, historiaVars>>

Timer_run_cycle ==
    /\ Roda("timer")
    /\ IF count >= timer_interrupt_cycles
       THEN \E aceita \in BOOLEAN :
               interrupt("Timer", aceita) /\ count' = IF aceita THEN 0 ELSE count
       ELSE count' = count + 1 /\ UNCHANGED cpuVars
    /\ UNCHANGED <<alive, terminalVars, timer_interrupt_cycles, command_buffer, historiaVars>>

\* The disk waits for a command, which the kernel never gives; the memory does nothing.
Ocioso ==
    /\ Roda("disk") \/ Roda("memory")
    /\ UNCHANGED <<alive, cpuVars, terminalVars, timerVars, command_buffer, historiaVars>>

-----------------------------------------------------------------------------
(* Cpu::run_cycle *)

Atende(codigo) ==
    /\ Roda("cpu")
    /\ has_interrupt
    /\ interrupt_code = codigo
    /\ has_interrupt' = FALSE
    /\ executou' = FALSE
    /\ UNCHANGED interrupt_code

Cpu_atende_timer ==
    /\ Atende("Timer")
    /\ desde_timer' = 0
    /\ teclas_desde' = 0
    /\ UNCHANGED <<alive, terminalVars, timerVars, command_buffer>>

\* tratar_interrupcao_teclado on the buffer: what a character makes of the line.
Edita(linha, tecla) ==
    IF tecla \in Letras THEN Append(linha, tecla)
    ELSE IF tecla = BACKSPACE /\ linha # <<>> THEN Front(linha)
    ELSE IF tecla = ENTER THEN <<>>
    ELSE linha

\* process_command does nothing with a line of spaces.
Vazia(linha) == \A i \in DOMAIN linha : linha[i] = BRANCO

\* Fault: an erased character leaves the screen and the prompt with it.
Eco_sem_prompt(linha, tecla, saida) ==
    IF tecla \in Letras THEN <<tecla>>
    ELSE IF tecla = BACKSPACE /\ linha # <<>> THEN <<CR>> \o Front(linha)
    ELSE IF tecla = ENTER THEN (IF Vazia(linha) THEN <<>> ELSE Append(saida, LF)) \o <<PROMPT>>
    ELSE <<>>

\* What the handler prints: the character; the line again without its last; or what the
\* command answers and a prompt, with a new line only if there was a command.
Eco(linha, tecla, saida) ==
    IF tecla \in Letras THEN <<tecla>>
    ELSE IF tecla = BACKSPACE /\ linha # <<>> THEN <<CR, PROMPT>> \o Front(linha)
    ELSE IF tecla = ENTER THEN (IF Vazia(linha) THEN <<>> ELSE Append(saida, LF)) \o <<PROMPT>>
    ELSE <<>>

\* Fault: the timer gets one cycle less than was asked.
comandos_um_a_menos ==
    \/ \E n \in Ciclos : /\ timer_interrupt_cycles' = (n - 1) % CICLOS_MOD
                         /\ UNCHANGED alive
    \/ alive' = FALSE /\ UNCHANGED timer_interrupt_cycles
    \/ UNCHANGED <<alive, timer_interrupt_cycles>>

\* What a command can do to the machine: timer n, with n cut to 16 bits and used even
\* when it is 0; exit, or a number or file that ends the program; or nothing.
processar_comandos ==
    \/ \E n \in Ciclos : /\ timer_interrupt_cycles' = n % CICLOS_MOD
                         /\ UNCHANGED alive
    \/ alive' = FALSE /\ UNCHANGED timer_interrupt_cycles
    \/ UNCHANGED <<alive, timer_interrupt_cycles>>

\* Fault: the character stays in the terminal after the kernel read it.
Cpu_atende_sem_ler ==
    /\ Atende("Keyboard")
    /\ command_buffer' = Edita(command_buffer, typed_char)
    /\ \E saida \in Saidas : video' = print(video, Eco(command_buffer, typed_char, saida))
    /\ IF typed_char = ENTER /\ ~Vazia(command_buffer)
       THEN processar_comandos
       ELSE UNCHANGED <<alive, timer_interrupt_cycles>>
    /\ desde_timer' = desde_timer + 1
    /\ teclas_desde' = teclas_desde + 1
    /\ UNCHANGED <<has_char, typed_char, digitado, count>>

\* Reading the port empties the terminal.
Cpu_atende_teclado ==
    /\ Atende("Keyboard")
    /\ has_char' = FALSE
    /\ command_buffer' = Edita(command_buffer, typed_char)
    /\ \E saida \in Saidas : video' = print(video, Eco(command_buffer, typed_char, saida))
    /\ IF typed_char = ENTER /\ ~Vazia(command_buffer)
       THEN processar_comandos
       ELSE UNCHANGED <<alive, timer_interrupt_cycles>>
    /\ desde_timer' = desde_timer + 1
    /\ teclas_desde' = teclas_desde + 1
    /\ UNCHANGED <<typed_char, digitado, count>>

\* One instruction, with the exception it may raise and the system call it may be.
Cpu_executa ==
    /\ Roda("cpu")
    /\ ~has_interrupt
    /\ executou' = TRUE
    /\ desde_timer' = desde_timer + 1
    /\ UNCHANGED <<alive, cpuVars, terminalVars, timerVars, command_buffer, teclas_desde>>

-----------------------------------------------------------------------------
\* boot writes the default number of cycles to the timer before the first cycle.  The
\* code and the character are not initialized, and not read before they are written.
Init ==
    /\ vez = 1
    /\ alive = TRUE
    /\ has_interrupt = FALSE /\ interrupt_code \in {"Keyboard", "Timer"}
    /\ has_char = FALSE /\ typed_char \in Teclas
    /\ count = 0
    /\ timer_interrupt_cycles = timer_default_interrupt_cycles
    /\ command_buffer = <<>>
    /\ video = print(TelaNova, Append(Menu, PROMPT))
    /\ executou = FALSE
    /\ digitado = <<>>
    /\ desde_timer = 0 /\ teclas_desde = 0

Next ==
    \/ \E tecla \in Teclas : Terminal_run_cycle_tecla(tecla)
    \/ Terminal_run_cycle_sem_tecla
    \/ Ocioso
    \/ Timer_run_cycle
    \/ Cpu_atende_timer
    \/ Cpu_atende_teclado
    \/ Cpu_executa

Spec == Init /\ [][Next]_vars

\* The loop of Computer::run never waits; getch does not block.
SpecJusta == Spec /\ WF_vars(Next)

-----------------------------------------------------------------------------
(* Properties *)

\* Types of the variables; the count never passes what 16 bits hold.
TypeOK ==
    /\ vez \in 1 .. Len(devices) /\ alive \in BOOLEAN
    /\ has_interrupt \in BOOLEAN /\ interrupt_code \in {"Keyboard", "Timer"}
    /\ has_char \in BOOLEAN /\ typed_char \in Teclas
    /\ count \in 0 .. CICLOS_MOD - 1 /\ timer_interrupt_cycles \in 0 .. CICLOS_MOD - 1
    /\ command_buffer \in Seq(Letras) /\ executou \in BOOLEAN
    /\ digitado \in Seq(Teclas) /\ Len(digitado) <= MAX_TECLAS
    /\ desde_timer \in Nat /\ teclas_desde \in 0 .. MAX_TECLAS

\* The lines that keys make one after the other, from an empty one.
Edicoes(teclas) ==
    LET depois[i \in 0 .. Len(teclas)] ==
            IF i = 0 THEN <<>> ELSE Edita(depois[i - 1], teclas[i])
    IN  depois

LinhaDigitada(teclas) == Edicoes(teclas)[Len(teclas)]

\* No key is lost, doubled or taken out of order on its way through the terminal, the
\* single pending interrupt and the handler: the line is what all the keys typed make
\* of it, but for the one the terminal still holds.
LinhaExata ==
    LinhaDigitada(digitado) = IF has_char THEN Edita(command_buffer, typed_char) ELSE command_buffer

\* The user sees the line that Enter will run: what is drawn before the cursor ends with
\* the prompt and command_buffer, or is all of it that fits, through rows that end, the
\* screen that rolls, lines drawn again and answers of commands.
TelaMostraLinha ==
    /\ CursorDentro(video)
    /\ LET visto == AntesDoCursor(video)
           linha == <<PROMPT>> \o command_buffer
       IN  \/ IsSuffix(linha, visto)
           \/ IsSuffix(visto, linha) /\ video.y = nrows - 1

\* Nothing that was erased, drawn again or rolled away stays on the screen after the
\* cursor, where the user would take it for text of the line.
TelaSemRestos == LimpaDepois(video)

\* A character that waits is never overwritten: the kernel reads each one in the cycle
\* in which it was typed, because the terminal runs when no interrupt is pending.
SemTeclaPerdida ==
    /\ devices[vez] = "terminal" => ~has_char /\ ~has_interrupt
    /\ has_char => has_interrupt /\ interrupt_code = "Keyboard"

\* An interrupt of the timer that is refused is neither lost nor counted again: since
\* the last one the cycles are those it counted and those that handled a key, so that
\* a quantum is never longer than the count asked for and the keys typed meanwhile.
TimerNoPrazo ==
    ~ (has_interrupt /\ interrupt_code = "Timer") => desde_timer <= count + teclas_desde

\* The processor does not spend all its cycles on interrupts: it executes instructions
\* for as long as the machine runs.
CpuExecuta == []<>executou \/ <>~alive
=============================================================================
