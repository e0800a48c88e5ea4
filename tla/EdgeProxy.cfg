SPECIFICATION Spec
CONSTANTS
    Compras = {c1, c2}
    Patches = {p1}
    Aquecimentos = {w1, w2}
    Cpfs = {cpf1, cpf2}
    Vins = {vin1, vin2}
    Classificacoes = {"FIEL", "ABANDONO"}
    StatusPedidos = {"AGENDADO"}
    MaxReinicios = 1
    Nulo = Nulo
SYMMETRY MCSimetria
INVARIANTS
    TypeOK
    SucessoAuditado
    AuditoriaFundada
    RetryConclusivo
    UmAquecimentoPorVez
PROPERTIES
    RecusaFinal
CHECK_DEADLOCK FALSE
