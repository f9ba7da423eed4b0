SPECIFICATION SpecJusta
CONSTANTS
    page_size = 8
    ptes_per_table = 4
    nregs = 3
    Decodifica <- MCDecodifica
    PAGINAS_TOTAIS = 5
    NaoMapeada = NaoMapeada
    Processos = {i, p1, p2}
    Idle = i
    NULL = NULL
    PID_MOD = 8
    Numeros = {3}
    MAX_CARGAS = 2
    MAX_TEMPO = 0
    Programas <- MCPaginam
    IdleBin <- MCIdleBin
    CHAR_MOD = 16
CHECK_DEADLOCK FALSE
PROPERTIES FaltaResolvida
