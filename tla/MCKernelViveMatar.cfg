CONSTANTS
    PID = {p1, p2}
    Nadie = Nadie
    FinCola = FinCola
    Algoritmo = "RR"
    QUANTUM = 1
    GradoInicial = 2
    Grados = {}
    CantRecursos = 0
    InstanciasIniciales <- SinRecursos
    Ifaces = {}
    MaxFichas = 4
    MaxTenencia = 3
    MaxInstancias = 2
    Comandos <- CrearYMatar
    MaxFin = 1
    MaxFines = 1
    MaxSyscalls = 1
    Instrucciones <- SoloCpu
    SenalLibre = FALSE
CHECK_DEADLOCK FALSE
SPECIFICATION SpecJusta
PROPERTIES
    ImplementaCiclo
    TodosTerminan
