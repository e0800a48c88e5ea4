SPECIFICATION Spec
CONSTANTS
    Compras = {c1, c2}
    Patches = {p1}
    Cpfs = {cpf1, cpf2}
    Vins = {vin1, vin2}
    Nulo = Nulo
    obs = obs
    PoolSize = 2
    RespostasMl <- MCRespostasMl
    Corpos <- MCCorposPadrao
INVARIANTS
    TypeOK
    UnicidadeCpfVin
    ConexoesCorretas
    RespostaFiel
    AuditoriaCompleta
    LeadCoerente
PROPERTIES
    ClassificacaoImutavel
    TodaRequisicaoRespondida
    RefinaRegistro
