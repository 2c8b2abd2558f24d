CONSTANTS
    PID = {p1, p2}
    Nadie = Nadie
    FinCola = FinCola
    Algoritmo = "FIFO"
    QUANTUM = 1
    GradoInicial = 1
    Grados = {1, 2}
    CantRecursos = 1
    InstanciasIniciales <- UnaInstancia
    Ifaces = {}
    MaxFichas = 4
    MaxTenencia = 3
    MaxInstancias = 2
    Comandos <- Todos
    MaxFin = 1
    MaxFines = 1
    MaxSyscalls = 2
    Instrucciones <- ConRecursos
    SenalLibre = FALSE
SYMMETRY Simetria
CHECK_DEADLOCK FALSE
SPECIFICATION Spec
INVARIANTS
    ColasContadas
    NadieOlvidado
    GradoExacto
PROPERTIES
    UsaRecursos
    RespetaCiclo
    UsaMultiprogramacion
