CONSTANTS
    PID = {p1, p2}
    Nadie = Nadie
    FinCola = FinCola
    Algoritmo = "FIFO"
    QUANTUM = 1
    GradoInicial = 2
    Grados = {}
    CantRecursos = 1
    InstanciasIniciales <- UnaInstancia
    Ifaces = {i1}
    MaxFichas = 4
    MaxTenencia = 3
    MaxInstancias = 2
    Comandos <- SoloCrear
    MaxFin = 1
    MaxFines = 1
    MaxSyscalls = 1
    Instrucciones <- ConWaitIO
    SenalLibre = FALSE
CHECK_DEADLOCK FALSE
SPECIFICATION SpecJusta
PROPERTIES
    TodosTerminan
