SPECIFICATION Spec
CONSTANTS
    Processos = {idle, p1, p2, p3}
    Idle = idle
    NULL = NULL
    PID_MOD = 8
    TEMPO_MOD = 3
    TEMPO32_MOD = 9
    COMECO = 0
    Contextos = {novo, c1}
    Novo = novo
    Numeros = {2, 3, 4, 5, 10, 11}
    Segundos = {2}
    MAX_CARGAS = 3
    MAX_TEMPO = 2
    IdleInvalida = FALSE
SYMMETRY Simetria
INVARIANTS TypeOK UmLugarSo EstadoCoerente ContextoPreservado IdleSoSemProntos IdleVivo MataQuemFalhou
PROPERTIES OrdemDeChegada SonoInteiro
CHECK_DEADLOCK FALSE
