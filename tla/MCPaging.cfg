SPECIFICATION Spec
CONSTANTS
    PAGINAS_TOTAIS = 2
    ptes_per_table = 3
    Processos = {p1, p2}
    Valores = {zero, a}
    Zero = zero
    NaoMapeada = NaoMapeada
SYMMETRY Simetria
INVARIANTS TypeOK QuadroExclusivo SemVazamento DicaExata AreasCoerentes
PROPERTIES MemoriaIsolada
CHECK_DEADLOCK FALSE
