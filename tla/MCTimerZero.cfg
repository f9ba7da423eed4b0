SPECIFICATION SpecJusta
CONSTANTS
    Letras = {a, branco}
    Saidas <- MCSaidas
    Menu <- MCMenu
    nrows = 2
    ncols = 3
    BRANCO = branco
    a = a
    OUTRA = outra
    CICLOS_MOD = 4
    timer_default_interrupt_cycles = 2
    Ciclos = {0, 1}
    MAX_TECLAS = 3
PROPERTIES CpuExecuta
CHECK_DEADLOCK FALSE
