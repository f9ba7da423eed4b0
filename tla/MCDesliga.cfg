SPECIFICATION Spec
CONSTANTS
    Processos = {idle, p1}
    Idle = idle
    NULL = NULL
    PID_MOD = 8
    TEMPO_MOD = 3
    TEMPO32_MOD = 9
    COMECO = 0
    Contextos = {novo}
    Novo = novo
    Numeros = {2, 3}
    Segundos = {}
    MAX_CARGAS = 1
    MAX_TEMPO = 1
    IdleInvalida = FALSE
INVARIANTS DesligaSemLiberarDuasVezes
CHECK_DEADLOCK FALSE
