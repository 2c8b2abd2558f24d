CONSTANTS
    PID = {p1, p2}
    CantMarcos = 3
    TamPagina = 2
    Bytes = {0, 1}
    Configs <- ConfigsSTDIN
    Tamanios = {2}
    MaxInstrucciones = 4
    Nadie = Nadie
CHECK_DEADLOCK FALSE
SYMMETRY MemSimetria
SPECIFICATION MemSpec
INVARIANTS
    MarcosMarcados
