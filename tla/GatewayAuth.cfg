SPECIFICATION Spec
CONSTANTS
    Logins = {l1, l2, l3, l4}
    Refreshes = {}
    Logouts = {}
    Emails = {e1}
    Threads = 2
    LOCKOUT_MAX_FAILURES = 2
    FALHAS_DO_ALERTA = 2
    LOCKOUT_DURATION = 2
    JANELA = 1
    REFRESH_TTL = 2
    MaxTempo = 4
    MaxReinicios = 1
    Nulo = Nulo
SYMMETRY MCSimetria
INVARIANTS
    LoginDeixaRastro
    LimiteDeTentativas
    AlertaDeForcaBruta
CHECK_DEADLOCK FALSE
