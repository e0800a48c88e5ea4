SPECIFICATION Spec
CONSTANTS
    Leads = {c1}
    Criticos = {c1}
    Listagens = {b1, b2}
    Patches = {}
    Logins = {s1}
    Logouts = {}
    MaxMortes = 1
    Nulo = Nulo
PROPERTIES
    NotificaSoNovo
CHECK_DEADLOCK FALSE
