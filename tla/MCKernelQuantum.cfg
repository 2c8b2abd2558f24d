CONSTANTS
    PID = {p1, p2}
    Nadie = Nadie
    FinCola = FinCola
    Algoritmo = "VRR"
    QUANTUM = 2
    GradoInicial = 2
    Grados = {}
    CantRecursos = 0
    InstanciasIniciales <- SinRecursos
    Ifaces = {i1}
    MaxFichas = 4
    MaxTenencia = 3
    MaxInstancias = 2
    Comandos <- SoloCrear
    MaxFin = 1
    MaxFines = 1
    MaxSyscalls = 1
    Instrucciones <- ConIO
    SenalLibre = FALSE
SYMMETRY Simetria
CHECK_DEADLOCK FALSE
SPECIFICATION Spec
INVARIANTS
    TypeOK
    ReadyEnCola
    QuantumCoherente
    RespuestaEsperada
    MemoriaVigente
    DevolucionValida
