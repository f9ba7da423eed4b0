SPECIFICATION Spec
CONSTANTS
    page_size = 8
    ptes_per_table = 4
    nregs = 3
    Decodifica <- MCDecodifica
    PAGINAS_TOTAIS = 5
    NaoMapeada = NaoMapeada
    Processos = {i, p1, p2}
    Idle = i
    NULL = NULL
    PID_MOD = 8
    Numeros = {3}
    MAX_CARGAS = 2
    MAX_TEMPO = 1
    Programas <- MCProgramas
    IdleBin <- MCIdleBin
    CHAR_MOD = 16
SYMMETRY Simetria
INVARIANTS TypeOK TabelaEnquantoVive
CHECK_DEADLOCK FALSE
PROPERTIES MaquinaVirtual
