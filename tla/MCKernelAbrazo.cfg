CONSTANTS
    PID = {p1, p2}
    Nadie = Nadie
    FinCola = FinCola
    Algoritmo = "RR"
    QUANTUM = 1
    GradoInicial = 2
    Grados = {}
    CantRecursos = 1
    InstanciasIniciales <- UnaInstancia
    Ifaces = {}
    MaxFichas = 4
    MaxTenencia = 3
    MaxInstancias = 2
    Comandos <- CrearYMatar
    MaxFin = 1
    MaxFines = 1
    MaxSyscalls = 2
    Instrucciones <- ConRecursos
    SenalLibre = FALSE
SYMMETRY Simetria
CHECK_DEADLOCK FALSE
SPECIFICATION Spec
INVARIANTS
    SinAbrazo
