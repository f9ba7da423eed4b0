SPECIFICATION Spec
CONSTANTS
    Processos = {idle, p1}
    Idle = idle
    NULL = NULL
    PID_MOD = 8
    TEMPO_MOD = 3
    TEMPO32_MOD = 9
    COMECO = 1
    Contextos = {novo}
    Novo = novo
    Numeros = {3}
    Segundos = {0, 1, 2}
    MAX_CARGAS = 1
    MAX_TEMPO = 4
    IdleInvalida = FALSE
PROPERTIES NaoAcordaCedo
CHECK_DEADLOCK FALSE
