SPECIFICATION Spec
CONSTANTS
    Logins = {l1, l2}
    Refreshes = {r1, r2, r3}
    Logouts = {o1}
    Emails = {e1, e2}
    Threads = 2
    LOCKOUT_MAX_FAILURES = 5
    FALHAS_DO_ALERTA = 5
    LOCKOUT_DURATION = 2
    JANELA = 1
    REFRESH_TTL = 1
    MaxTempo = 1
    MaxReinicios = 1
    Nulo = Nulo
SYMMETRY MCSimetria
INVARIANTS
    TypeOK
    LimiteDeUsos
    SessaoEncadeada
PROPERTIES
    DenyListDefinitiva
CHECK_DEADLOCK FALSE
