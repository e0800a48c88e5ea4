SPECIFICATION Spec
CONSTANTS
    c1 = c1 c2 = c2 c3 = c3 a1 = a1 a2 = a2 p1 = p1 p2 = p2 p3 = p3 p4 = p4
    d1 = d1 u1 = u1 u2 = u2 l1 = l1 l2 = l2 j1 = j1 j2 = j2 k1 = k1
    cpf1 = cpf1 cpf2 = cpf2 cpf3 = cpf3 vin1 = vin1 vin2 = vin2 vin3 = vin3 vin4 = vin4
    obs = obs gerente = gerente admin = admin demo1 = demo1 demo2 = demo2 emissor = emissor publico = publico segredo = segredo
    Nulo = Nulo
    Compras = {c1, c2, c3}
    Antigos = {a1, a2}
    Vencidos = {a1, a2}
    Patches = {p1, p2, p3, p4}
    Detalhes = {d1}
    Auditores = {u1, u2}
    Leitores = {l1, l2}
    Jobs = {j1, j2}
    DryRun = {}
    Comandos = {k1}
    Ambientes <- MCAmbientes
    jwt_access_ttl = 1
    jwt_refresh_ttl = 3
    core_internal_token_ttl = 1
    MAX_SKEW = 1
    jwt_issuer = emissor
    jwt_audience = publico
    JWT_SECRET = segredo
    MaxQuedas = 1
    MaxTempo = 2
    window = 1
    PER_PAGE = 1
    MASS_QUERY_THRESHOLD = 2
    CpfDe <- MCCpfDe
    VinDe <- MCVinDe
    ContatoDe <- MCContatoDe
    DigestDe <- MCDigestDe
    CriadoEm <- MCCriadoEm
    DigitosDe <- MCDigitosDe
    AcaoDe <- MCAcaoDe
    LeadDe <- MCLeadDe
    CorpoDe <- MCCorpoDe
    FiltroDe <- MCFiltroDe
    PrincipalDe <- MCPrincipalDe
    AdminInicial <- MCAdminInicial
    DEFAULT_USERS <- MCDEFAULT_USERS
    PedidoDe <- MCPedidoDe
    Cenarios <- MCCenarios
INVARIANTS
    TypeOK
    UnicidadeCpfVin
    RespostaVerdadeira
    AuditoriaDominio
    AlertaDeConsulta
    ListagemCompleta
    BootCompleto
PROPERTIES
    AnonimizacaoDefinitiva
    TodoPedidoTermina
