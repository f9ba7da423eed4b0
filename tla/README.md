# os_bao in TLA+

A verification project for the simulator and teaching kernel of this repository: a 16-bit machine
(`src/arch`) and an operating system that runs on it (`src/os`). Names of modules' operators are the
names of the code wherever one operator stands for one function.

## 1. Inventory

### The machine

| part | state | operations | correct when |
|---|---|---|---|
| `Computer` (`arch/arch.cpp`, `computer.h`, `device.cpp`) | the list of devices, the table of I/O ports, `alive` | `run` calls `run_cycle` of terminal, disk, timer, memory, cpu, in this order, until `turn_off` | each device sees the others in a consistent order |
| `Cpu` (`arch/cpu.cpp`) | pc, registers, page table pointer, one pending interrupt | `run_cycle`: take the pending interrupt, or execute an instruction; an exception restores pc and enters the kernel | no interrupt is lost, instructions go on being executed, an address reaches the frame of its own process |
| `Timer` | `count`, `timer_interrupt_cycles`, the clock | count, ask for an interrupt, ask again if refused | quantum bounded |
| `Terminal` | `has_char`, `typed_char`, four windows (`VideoOutput`: a buffer and a cursor each) | poll the keyboard, ask for an interrupt; print, roll | no key lost or doubled; the line seen is the line that Enter runs |
| `Disk` | descriptors, current one, state, `count`, buffer | commands and data through ports, a wait in cycles, an interrupt | the bytes a driver gets are those of its file |
| `Memory` | 16-bit words | read, write (run_cycle does nothing) | - |

### The kernel

| part | state | operations | correct when |
|---|---|---|---|
| `Paging` | free flags, search hint, counter; a page table per process; areas per process | take and give a frame, create and release a table, load, fault, allocate, release | frames exclusive, none leaked, memory private |
| `Process`, `ProcessManager` | objects; ready list, list of sleepers | save/restore, switch, sleep, wake, remove, find | a process in one place, its context kept, FIFO |
| `os.cpp` | running process, `idle`, `proximo_pid`, command buffer | interrupts, exceptions, system calls 0-7, commands load, kill, timer, exit | no deleted object used, idle always there; each process runs as on a machine of its own |
| `MemoryManager`, `Utils`, `lib.cpp`, `arq-sim.cpp`, `config` | - | created and not used; printing; file input; start up | - |

Never called: `aloca_pagina_fisica`, `rerodar_idle`, `free_processo`, `find_idle`, `contador_timer`,
`MemoryManager::allocate_memory_for_process`. `docs/fifo.md` describes page replacement, which the
code does not have: when frames run out the process that needs one is ended.

### How they interact

Devices call `Cpu::interrupt`, which holds one request and refuses the rest. The CPU calls
`OS::interrupt` and `OS::syscall` synchronously; the kernel runs to its end inside one CPU cycle and is
never preempted. The kernel calls back into the machine: it sets pc, registers and page table,
reads the keyboard and clock ports, sets the timer. So there is no data race; what interleaves is the
*order* of instructions, timers, keys (commands), faults and system calls, and the objects the
kernel's pointers name across them.

### What is hard

A single interrupt shared by the devices; a context switch reached from a timer, a sleep, an exit, a
fault and a kill of *another* process; processes deleted while several pointers name them (list,
running, idle, CPU page table); loads that fail half way; frames and addresses that are used again;
16-bit numbers (time, pid, cycles, addresses). `PROJECT.json` lists each hazard at its line, with the
properties that would catch it.

## 2. Modules

| module | models | used by |
|---|---|---|
| `Paging` | `os/paging.cpp`, stores through a page table | `Kernel` (INSTANCE), `MCPaging`, `PagingProofs` |
| `MemoriaPrivada` | what virtual memory promises a process (abstract) | `Paging` (INSTANCE, refinement) |
| `Listas` | the loops of `process_manager.cpp` that keep some elements of a list | `Escalonador`, `ListasProofs` |
| `Escalonador` | `process.cpp`, `process_manager.cpp`, process life in `os.cpp` | `Kernel` (INSTANCE), `MCEscalonador`, `EscalonadorProofs` |
| `Cpu` | instructions, exceptions and translation of `arch/cpu.cpp`, without state | `Kernel`, `MaquinaPrivada` |
| `Kernel` | `os/os.cpp`: Escalonador, Paging and Cpu together | `MCKernel`, `KernelProofs` |
| `MaquinaPrivada` | what the kernel promises a process: a machine of its own (abstract) | `Kernel` (INSTANCE, refinement) |
| `VideoOutput` | a window of `arch/terminal.cpp`, without state of its own | `Computer`, `VideoProofs` |
| `Computer` | loop, pending interrupt, timer, keyboard, command line and its echo | `MCComputer`, `ComputerProofs` |
| `Disk` | `arch/disk.cpp` at its ports | `MCDisk`, `DiskProofs` |
| `ListasProofs` | lemmas on `Listas` and the least number principle | the proofs below |
| `PagingProofs`, `EscalonadorProofs`, `DiskProofs`, `VideoProofs`, `ComputerProofs` | theorems about the module each is named for | `KernelProofs` (INSTANCE of the first two) |
| `KernelProofs` | the kernel's steps are steps of its parts | `MaquinaProofs` |
| `MaquinaProofs` | `Kernel` implements `MaquinaPrivada` | - |

Operators commented *Fault:* are wrong versions of the definition that follows them. No action uses
them: they stand for a plausible bug, and each property is known to fail when one takes the place of
the right definition (`mutants` in `PROJECT.json`).

### Paging

`paginas_livres` is the set of frames whose flag is true; `tabela[p]` the page table as records of
`PteField`; `alocacoes[p][s]` the map of areas, 0 for no entry; `pmem[f]` one value per frame, as the
offset goes through translation unchanged. Loops that call the allocator n times are one step
(`aloca_paginas`): `Ordem` says which free frame call j returns, from the two loops of
`aloca_pagina_fisica_livre` (from the hint up, then from 0). `libera_paginas` is `libera_pagina` on each
frame of a set: the hint ends at the least of itself and the frames freed. A load that runs out of
frames has taken, and written, every free frame before it gives them back
(`CarregaCodigoSemQuadros`). `Foo` is the mark of a page reserved and not yet backed by a frame.

A page fault that cannot be served changes nothing here: the end of the process that follows is
`libera_tabela_paginas`. Reads are in the mapping `Leitura`. `escrita` (history) is the store just executed: with
it the abstract memory changes the contents of a page only in a step that is a store of the owner to that
page, so that a fault which brought in old contents is not taken for a store.

### Escalonador

A `Process` is its address. Deleting it makes the address free, and a later object may get it, so
that pointers that were not updated dangle as they do in C++. `estado`, `contexto`, `dormir_ate` and
`pid` are the fields; `contexto` and `cpu_contexto` are pc and registers, members of `Contextos`, and an
instruction may leave any member of it; `feito[p]` (history) is where the last instruction of p left it, so
that "the context was kept" can be said. Each action is one instruction, interrupt or command, run to its
end: `kill_process_pid`, for one, contains the removal from the lists, the deletion, the wake of
sleepers and the switch of context, because the code calls `tratar_timer` there. Page tables appear
as "the table of p" (`cpu_tabela`). They are objects of their own: when p is deleted its table is too, and
`cpu_tabela` is NULL if the CPU still translates with it, also when the address of p is used again.

`falha` records the first use of a deleted object; the model stops there, as C++ promises nothing
beyond. With `IdleInvalida` the program idle.bin may execute an invalid instruction, which
deletes and reloads it; the idle.bin of a correct installation never does, so the run `escalonador` has it
FALSE and `vivo` and `idle` have it TRUE. If the reload gets another address, `idle` dangles. What may come next
is a cycle of the CPU, with the deleted page table (`ExecutaSemProcesso`); a switch to `idle`, or any kill, which
first reads the pid of `idle` (`os.cpp:134`, `kill_process_pid_sem_idle`), or exit: each is a use of a
deleted object. A load that gets the very address `idle` still holds is a failure of its own (`idle_trocada`): what
follows depends on the allocator of the host. If the reload gets the old address, `idle` names the new process.

`agora` counts seconds since boot, `COMECO` what the clock showed then, and `tempo_sistema` is their difference
as the code computes it: the clock read through a 16-bit port (`TEMPO_MOD`), the subtraction in 32 bits
(`TEMPO32_MOD`), so that once the clock wraps the difference is larger than any time. `prazo[p]`
(history) is when p has slept enough, as a number that is not cut, while `dormir_ate` is cut to `TEMPO_MOD`. A process may
ask for any time of `Segundos` at any second: only the clock is bounded (`MAX_TEMPO`). `Desperta(p)` is a step in which p,
asleep and not killed, wakes. `NaoAcordaCedo` says that no process wakes before `prazo`, which the code does not give (run
`sono`); `SonoInteiro` says it of those whose `prazo` fits in 16 bits, among others whose time was cut. `ComandoLoadFalha` may happen at any time here; in `Kernel` it
happens when frames are missing.

### Cpu and Kernel

`Cpu` gives, for an instruction, the context after it (`Executada`), the words it touches with the permission it
needs (`Acessos`) and the exception translation raises (`Protecao`, in the order of the tests of `vmem_to_phys`: a page
that is not present, then a permission that is missing). Arithmetic is cut to the width of a
word. `Decodifica` gives the instruction of each word: the layout of the bits is data that no
property depends on, and as a parameter it lets a machine of 32 words have every instruction.

`Kernel` has the variables of `Escalonador` and of `Paging` and uses both through INSTANCE: an action joins what a
handler does to processes (`E!...`) with what it does to their memory (`P!...`). A frame holds a function from offsets to
words. A cycle of the CPU is one action: the instruction, the exception with its handler (`FaltaServida`,
`ExcecaoFatal`), the system call with its answer in registers, or the end of the host on a division by zero. pc is
left on an instruction that faulted, and is past a system call when the kernel runs, as in `Cpu::run_cycle`.
`tempo_criacao` is the field system call 7 reads; `saida` is what the step printed.

`MaquinaPrivada` is the promise: a process has registers, memory and areas that only its own instructions
and system calls change, each of which does what it would on a machine where nothing else runs.
`MaquinaVirtual` says that `Kernel` implements it: the mapping takes the registers of the running process from the
CPU and those of the others from their objects, and memory through the page table with zeros where a page
is reserved and not yet there. Page faults, timers, wakes and failed loads become `Interno`. idle is not
in the mapping, nor is what it prints, because a load that takes the CPU from it does not save its registers
(`os.cpp:514`); idle.bin keeps nothing in them.

### Computer and VideoOutput

`vez` is the device whose turn it is; an action is its `run_cycle`. `interrupt(codigo, aceita)` is
`Cpu::interrupt` and its result. A character is a member of `Letras`, backspace, enter or any other.
`processar_comandos` is what a line can do to the *machine*: set the timer, end it, or nothing; what it does to
processes is in `Escalonador`. Uninitialized `interrupt_code` and `typed_char` start with any value.

`video` is the window for commands: `buffer`, `x` and `y` as in the class. `print` is the loop over the characters of a
text, `Caractere` its body. Column `ncols` is a place of the cursor: a full row is left only when one more
character comes. A tab, which the list of processes has, is put in the buffer as one character; what curses makes
of it on the screen is not modelled. `Eco` is what the handler of the keyboard prints for a character: itself, or `\r`, the prompt and
the line for a backspace, or for enter what the command answered (any member of `Saidas`) and a new prompt.
`TelaMostraLinha` says that the user sees the line that enter will run.

### Disk

No driver exists in the kernel, so any port may be used at any time, also in ways answered by an
exception, which ends the machine. Ids start at 100 as in the code. `data_written` is not initialized: any value.
A name is written in one action. A refused interrupt leaves the disk as it was, which is a stutter.

## 3. Runs

| run | bounds | why they are enough |
|---|---|---|
| `paging` | 2 frames, 3 pages per table, 2 processes (symmetric), values zero and a | two programs can ask for 6 frames of 2, so loads fail half way, faults find no frame and frames move between processes; areas have room to leave gaps; one value other than zero tells what a frame kept from an earlier owner |
| `escalonador` | idle and 3 processes (symmetric), 8 pids, 3 loads, a clock modulo 3 that reads 0, 1, 2, sleeps of 2 seconds, kills of 2 to 5 and of 8 more than 2 and 3 | three processes fill CPU, ready list and sleepers at once; a sleep asked at second 0 fits, and one asked later is cut, so sleepers of both kinds are in the list together; a number above the pids is cut only where the code cuts it. Clock and pids do not start again from 0 |
| `vivo` | idle, which may fail, and 2 processes, sleeps of 0, 1 and 2 seconds, a clock modulo 5 that reads 1, 2, 3, 4 and then 0, fair | the clock starts again from 0 with processes asleep: some whose time was cut, and some whose time the clock does not reach before; no symmetry, as properties are temporal |
| `kernel` | pages of 8 words, 4 pages, 3 registers, 5 frames, idle and 2 processes (symmetric), 6 programs, 2 loads, 1 second | programs obtain, write, read and release pages, ask for none and for too many, execute data, sleep, print, divide by zero and fail, two at a time; two that obtain pages need more frames than there are, so loads fail and faults end a process |
| `kernel_vivo` | the two programs that obtain pages, no clock, fair | a fault of one while the other holds frames or is loaded |
| `computador` | a letter and the space, 4 keys, cycles modulo 4, a window of 2 rows of 3 | both interrupts pend in every order; a count is at, below and above its limit; a prompt with its line wraps, and the window rolls under them |
| `disco` | 2 files of 3 bytes, 2 ids, reads of 0, 2 and 3 bytes | short, exact and empty reads; a second open of one file; an open with no id left |

`computador` was also run once with 5 keys (about a million states), and with a window of 2 x 2 in which the line does
not fit. `Escalonador` and `Paging` have larger instances of what `Kernel` joins, because a state of `Kernel` is large.

What the passing runs show is the comment of each property in its module. In short: `QuadroExclusivo`,
`SemVazamento`, `DicaExata`, `AreasCoerentes`, `MemoriaIsolada` (memory); `UmLugarSo`, `EstadoCoerente`,
`ContextoPreservado`, `IdleSoSemProntos`, `IdleVivo`, `MataQuemFalhou`, `ListasVivas`, `OrdemDeChegada`,
`SonoInteiro`, `VezChega`, `AcordaUmDia` (processes); `TabelaEnquantoVive`, `MaquinaVirtual`, `FaltaResolvida` (the kernel
as a whole); `LinhaExata`, `TelaMostraLinha`, `TelaSemRestos`, `SemTeclaPerdida`, `TimerNoPrazo`,
`CpuExecuta` (machine and screen); `ArquivoExato`, `DescritoresCoerentes`, `SemByteAMais`, `TempoDeDisco` (disk).

`CHECK_DEADLOCK FALSE` is in every configuration because the system may stop: the command `exit`
turns the machine off, an uncaught exception ends the program, and `Paging` is idle when
nothing is asked of it (a full machine has no more loads).

### Disagreements with the code's own words

- `aloca`: `os.cpp:416` compares a `uint16_t` with -1, which is never true: an allocation that finds no place answers 1
  in r1 and 65535 in r2, although `os.cpp:417` says the answer is then 0. `Kernel` and `MaquinaPrivada` have
  the answer the code gives.
- `sono`: `dormir_ate` is 16 bits wide; `process_manager.cpp:77` cuts the sum, so that a sleep that passes
  the limit ends at the next timer interrupt, although `os.cpp:456` announces the number of seconds.
  With `TEMPO_MOD` 3 the wrap comes after 3 seconds; in the code after 65536.
- `idle`: at `os.cpp:273-280` ("RELODANDO IDLE") the object of idle.bin is deleted and the file loaded as one more
  process, in the ready list, while the pointer `idle` is not changed. In TLC's trace, of one step, the new object is at
  another address: `idle` is to no object that exists, nothing is running, and the CPU's page table was deleted.
- `desliga`: `os.cpp:605-609` clears `idle` before comparing with it; exit while idle runs deletes it twice.
- `timer_zero`: `os.cpp:193` says 0 is not allowed, and sets it: the CPU then only takes interrupts.

### Fairness

`Escalonador`: WF of `tratar_timer` and of the clock. The loop of `Computer::run` never waits, and the
timer keeps its request until it is accepted (`TimerNoPrazo`), so a timer interrupt always comes again;
the clock is `steady_clock`. In `vivo` the clock stops where it reads less than at boot, and `tempo_sistema` is larger than any
time; a clock that goes on reads so for `COMECO` seconds of every 65536 (or, if it started at 0, reads the largest time for one),
and `AcordaUmDia` takes for granted that a timer interrupt comes in them. No fairness is assumed of processes, commands or system calls.
`Kernel`: WF of `tratar_timer`, and SF of the cycles of each process: a quantum is at least one cycle of the
CPU when the timer is not 0, so that a process that gets the CPU again and again executes in some of its
quanta. The fairness is strong because the timer may take the CPU from it before any given cycle.
`Computer`: WF of `Next`, that is, of the loop; `getch` does not block. Keys are bounded by `MAX_TECLAS`:
a person who typed a key in every cycle would keep the CPU from executing, which is how it is.

## 4. Proofs

TLC checks the instances above; the theorems hold for every value of the constants that meets the assumption
named in each module (`PagingAssumption`, `EscalonadorAssumption`, `CpuAssumption`, `KernelAssumption`, `DiskAssumption`,
`ComputerAssumption`, `VideoAssumption`). They say that sizes, widths and bounds are numbers, that NULL is not a process, that programs are sequences of words, that
idle.bin fits in the frames there are, and the like. `CpuAssumption` asks nothing of the encoding of instructions, so the
theorems about the kernel hold of any.
Every invariant and every action property of a passing run is the statement of a theorem, and so are the two refinements.

`PagingProofs`. `SemVazamento` is not inductive by itself: that a frame taken is not mapped needs the converse
for each frame, and that a counter moves by the number of frames freed needs the frames of a process
to be distinct. `IInv` joins `TypeOK`, `QuadroExclusivo`, `LivresExatos` (a frame is free exactly when no
present entry maps it), `ContadorExato`, `SoVivasMapeiam` (only live processes have marks or areas),
`DicaExata` and `AreasCoerentes`. Lemmas on the allocator (`OrdemInjetiva`, `AlocaQuadros`: n calls return n distinct
free frames and nothing else changes; `LiberaQuadros`) and on tables (`ApagaEntradas`) are used by one lemma per
action, then `Invariante`. `MemoriaPrivadaImplementada` shows step by step that each action is, under `Leitura`,
a step of `MemoriaPrivada` or a stutter; a page fault and a load that fails are `Interno`, which no process
sees, because the frame is zeroed and was free.

`VideoProofs`. `PrintEmOrdem`: whatever text is printed in a window of whatever size, the buffer keeps its shape, the cursor
stays in it and only spaces follow it. The part of one character (`CaractereEmOrdem`) is a case split on the
character and on whether the row is full or the last one. The part of the text is an induction, which the
library's theorems do not offer to these provers because they take a predicate as a parameter. It is replaced by the
least number principle, `MenorNumero` of `ListasProofs`, obtained from the well-foundedness of finite subsets: were there a
character after which the window is out of order, there would be a first one, and the step before it
contradicts that. The same argument shows that the recursive function `Telas` exists (`TelasDefinidas`).

`ComputerProofs`. `SemTeclaPerdida` needs to know, for each turn of the loop, what may be pending (`Pendente`: at
the terminal's turn nothing is, at the timer's only a key), and `TimerNoPrazo` needs the cycle in progress
accounted for (`Adiantado`). The argument is a case split on `vez`, with the order of `devices` expanded.
`LinhaExata` needs that one key more is one edit more (`MaisUmaTecla`), by the least number principle over the
keys; then that a key is appended only when the terminal is empty. `TelaSemRestos` follows from `PrintEmOrdem`, once
what the handler prints is shown to be text (`EcoTipo`). `TelaMostraLinha` speaks of suffixes, which a roll and an echo
both change; `Mostra` (`VideoProofs`) says the same backwards from the cursor, character by character, in which a roll
changes nothing that is left (`ComLugarMostra`) and a character adds one (`CaractereMostra`). So the end of a text in which no row
ends is drawn before the cursor (`PrintMostra`, by the least number principle), and what is left to
show is that what the handler prints for each key ends with the prompt and the new line (`EcoMostra`).

`ListasProofs`. What `Filtra` keeps of a list: its elements (`FiltraElementos`), none twice if none was, the whole list if
nothing leaves it (`FiltraTudo`), and the list without its first element if that is the one that leaves (`TiraPrimeiro`,
`NoFim`). These are inductions over the list, by `MenorNumero`. The loops of the code are written with `Filtra`, a
recursive function, because the standard SelectSeq is a RECURSIVE operator.

`EscalonadorProofs`. Two inductive invariants. `GInv` holds whatever idle.bin does: types, that a pointer idle that
dangles names no user's object, and that the CPU and the lists hold objects that exist, each once
(`ListasCoerentes`). `FirmeInv` adds what holds while idle.bin does not fail (`~ IdleInvalida`): idle exists and is
the first object, nothing deleted was used, and `UmLugarSo`, `EstadoCoerente`, `ContextoPreservado` and `IdleSoSemProntos`
together, because none is inductive alone: a load does not save the CPU's registers when idle runs
(`os.cpp:514`), which keeps contexts only because idle runs when nothing is ready. All that switch
processes go through `configurar_proximo_processo`, so the proof has one lemma for what it leaves of the lists (`TrocaListas`,
`TrocaFirme`), used by one lemma per action. The hypotheses are where the code stops being right:
`~ IdleInvalida` (run `idle`); `RelogioNaoVolta`, that the clock the kernel reads does not
start again from 0, for `SonoInteiro`. That hypothesis says nothing of the times asked: the theorem is of the processes whose time fits
in 16 bits, and the invariant `PrazoGuardado` is that what is kept of such a time is the whole of it; the others may wake
at once (run `sono`). `PidsNaoVoltam`, that there are fewer loads than pids, is for
`MataQuemFalhou`, as `kill_process_pid` looks a process up by its pid; that property speaks of states in which the object `idle`
points to exists, which is always so while idle.bin does not fail (`IdleNuncaMorre`). `TiposCertos` and `NenhumApagado` have no hypothesis.

`DiskProofs`. `ArquivoExato` compares a sequence with a prefix of a file; `DInv` says it byte by byte (`ByteAByte`),
with the place of the stream: what was delivered, then what is left of the buffer, then what was not
read. It needs that two descriptors are never of the same file and that the current one is open (`NomesCertos`), that a
buffer being sent has a byte left and its file is open (`EnvioCoerente`), that ids not yet given out have
read nothing (`PorUsar`), and for `TempoDeDisco` that the counter is the time waited (`EsperaCoerente`).

`KernelProofs`. `Escalonador` and `Paging` are instantiated with their proofs, and `Simula` is the claim that each step of
the kernel is a step of each of them or a stutter of it, and that tables are released exactly when objects
are. Its lemmas, one per kind of cycle and per command, find that step; most of the work is that
what the kernel asks of a part is in that part's range (an address has a page, a program fits in a
table, an instruction leaves a context). The invariant `KInv` is `FirmeInv`, the `IInv` of Paging, and `VivasSaoVivos`, that
a table exists exactly while its process does. `KernelEscalona` (`Spec => EP!Spec`) carries every theorem about Escalonador over to the kernel; `KernelPorOrdem` is
one of them, spelled out. `KernelPagina` does the same for Paging, whose invariants hold and whose steps are the only ones; the boot has
loaded idle.bin, so the kernel starts where Paging is after its first load (`InitPaginas`). In
the kernel idle.bin fails in no step, because `Kernel` leaves the failures of idle.bin to `Escalonador`.

`MaquinaProofs`. `MaquinaImplementada`: under the mapping of `MaquinaVirtual` each step of the kernel is the step of one
process in `MaquinaPrivada`, or `Interno`, or no step. Registers come from `ContextoPreservado`, which
says that wherever a process is, its context is where its last instruction left it (`CtxFeito`), so a step
changes the mapped registers only of the process that `feito` changes for. Memory comes from the refinement proved
in `PagingProofs`: a step of `MemoriaPrivada` changes one page of one process, or none. What is proved here is
that the CPU's translation reads the same words as the private memory (`LoadPassa`, `TextoDe`), that its
protection allows what the abstract machine does, that areas found in the kernel's table are
places the private machine could choose (`AlocaPassa`), and that a fault, a timer or the end of another process
changes nothing of the mapping. It needs one more invariant, `DadosNaoExecutam`: pages of areas are never
executable, so an instruction is never fetched from a page not yet backed by a frame.

Only model-checked, and why:

- liveness (`VezChega`, `AcordaUmDia`, `FaltaResolvida`, `CpuExecuta`): the prover supports neither fairness
  nor ENABLED;
- that the disagreements of section 3 happen: a counterexample is shown by a run.

## 5. Not modelled, and the plan

Not modelled, and why:

- the drawing of a window (curses) and the three other windows, which get the same `print`; the colours; `terminal.cpp:132`
  builds the windows in an order that is not that of the numbers the kernel uses for them (a hazard of the
  list, of which only where text appears depends);
- `lista_processos`, `Utils` and messages: printing that no property is about;
- `MemoryManager`, `aloca_pagina_fisica`, `rerodar_idle`, `free_processo`, `find_idle`: never called;
- reading a file into words, `main` and the signal handler: input and output of the host;
- the translation modes Disabled and BaseLimit: boot sets the mode of page tables before the first instruction;
- Dirty and Accessed, which nothing reads; the bits of an instruction (`Decodifica` stands for them);
- memory of the host, which leaks where a load fails (`os.cpp:73`).

Order followed: Paging and its promise (1), its proofs (2), Escalonador (3), Computer and its proofs (4), Disk (5),
Cpu, MaquinaPrivada and Kernel (6), VideoOutput with the echo and its proofs (7), the proofs of Escalonador (8),
of Disk (9), of Kernel from those of its parts (10), and of its promise (11). Next: a joint model
of `Computer` and `Kernel`, in which the timer and the keyboard interrupt the cycles of programs.
