SPECIFICATION Spec
CONSTANTS
    Leads = {c1, n1}
    Criticos = {c1}
    Listagens = {b1, b2}
    Patches = {p1}
    Logins = {s1}
    Logouts = {o1}
    MaxMortes = 1
    Nulo = Nulo
SYMMETRY MCSimetria
INVARIANTS
    TypeOK
    CriticoNotificado
    IndicadorNaoPreso
    EspelhoOffline
    SaidaCompleta
PROPERTIES
    SomeSoTratado
CHECK_DEADLOCK FALSE
