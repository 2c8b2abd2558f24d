CONSTANTS
    PID = {p1, p2}
    CantMarcos = 3
    TamPagina = 2
    Bytes = {0, 1}
    Configs <- ConfigsTLB
    Tamanios = {1}
    MaxInstrucciones = 5
    Nadie = Nadie
CHECK_DEADLOCK FALSE
SYMMETRY MemSimetria
SPECIFICATION MemSpec
INVARIANTS
    TraduccionVigente
