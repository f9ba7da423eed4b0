SPECIFICATION SpecJusta
CONSTANTS
    Processos = {idle, p1, p2}
    Idle = idle
    NULL = NULL
    PID_MOD = 8
    TEMPO_MOD = 5
    TEMPO32_MOD = 25
    COMECO = 1
    Contextos = {novo}
    Novo = novo
    Numeros = {2, 3, 4, 5}
    Segundos = {0, 1, 2}
    MAX_CARGAS = 3
    MAX_TEMPO = 4
    IdleInvalida = TRUE
INVARIANTS ListasVivas
PROPERTIES VezChega AcordaUmDia
CHECK_DEADLOCK FALSE
