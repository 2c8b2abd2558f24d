CONSTANTS
    GradoInicial = 2
    Grados <- MCGrados
    MaxFichas = 4
    PID = {p1, p2, p3}
    CantRecursos = 1
    InstanciasIniciales <- MCInstancias
    MaxTenencia = 2
    MaxInstancias = 2
    Nombres = {"a", "b", "c"}
    CantBloques = 5
    TamBloque = 1
    TamMaximo = 2
    Datos = {0, 1}
    MaxPedidos = 5
    MaxReinicios = 1
    MaxModulos = 3
    MaxLibres = 2
    MaxAccesos = 1
    Programas = {q1, q2, q3}
    Nadie = Nadie
    RegByte = {"AX"}
    RegInt = {"PC", "EAX"}
    BitsByte = 2
    BitsInt = 3
    Inmediatos <- MCInmediatos
    MaxEjecutadas = 2
CHECK_DEADLOCK FALSE
SPECIFICATION PiezasSpec
INVARIANTS
    TiposOK
    SinPlazaPerdida
    ColaSegunInstancias
    EsperaAsignada
    SinInstanciaPerdida
PROPERTIES
    NoExcedeGrado
    ImplementaAdmision
    CompactarConserva
    SinBloquePerdido
    CaidaSana
    CorteExplicado
    RespuestaPropia
    TodosAtendidos
    RegistrosPrivados
