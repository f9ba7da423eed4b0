SPECIFICATION Spec
CONSTANTS
    Arquivos = {fa, fb}
    Ausente = ausente
    Conteudo <- MCConteudo
    Tamanhos = {0, 2, 3}
    disk_interrupt_cycles = 2
    UINT16_MAX = 102
    NULL = NULL
INVARIANTS TypeOK ArquivoExato DescritoresCoerentes SemByteAMais
PROPERTIES TempoDeDisco
CHECK_DEADLOCK FALSE
