SPECIFICATION SpecJusta
CONSTANTS
    Letras = {a, branco}
    Saidas <- MCSaidas
    Menu <- MCMenu
    nrows = 2
    ncols = 3
    BRANCO = branco
    a = a
    OUTRA = outra
    CICLOS_MOD = 4
    timer_default_interrupt_cycles = 2
    Ciclos = {1, 2, 3}
    MAX_TECLAS = 4
INVARIANTS TypeOK LinhaExata TelaMostraLinha TelaSemRestos SemTeclaPerdida TimerNoPrazo
PROPERTIES CpuExecuta
CHECK_DEADLOCK FALSE
