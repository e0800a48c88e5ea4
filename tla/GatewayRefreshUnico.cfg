SPECIFICATION Spec
CONSTANTS
    Logins = {l1}
    Refreshes = {r1, r2}
    Logouts = {}
    Emails = {e1}
    Threads = 2
    LOCKOUT_MAX_FAILURES = 5
    FALHAS_DO_ALERTA = 5
    LOCKOUT_DURATION = 2
    JANELA = 1
    REFRESH_TTL = 1
    MaxTempo = 1
    MaxReinicios = 0
    Nulo = Nulo
SYMMETRY MCSimetria
INVARIANTS
    RefreshUsoUnico
CHECK_DEADLOCK FALSE
