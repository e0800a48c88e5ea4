SPECIFICATION Spec
CONSTANTS
    Compras = {c1}
    Patches = {p1, p2}
    Cpfs = {cpf1}
    Vins = {vin1}
    Nulo = Nulo
    obs = obs
    PoolSize = 3
    RespostasMl <- MCRespostasMl
    Corpos <- MCCorposPadrao
PROPERTIES
    PatchParcial
