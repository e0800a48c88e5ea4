SPECIFICATION Spec
CONSTANTS
    a = a  b = b  r1 = r1  r2 = r2  x1 = x1
    Nulo = Nulo  Nenhum = Nenhum
    CustomerIDs <- MCCustomerIDs
    Carrinhos <- MCCarrinhos
    Rotulacoes <- MCRotulacoes
    Extrato <- MCExtrato
    MaxFaturas = 3
    Externos <- MCExternos
    DatasetsFord <- MCDatasetsFord
    Pedidos = {r1, r2}
    MaxPublicacoes = 2
    Hashes <- MCHashes
    Curtos = {4}
    VinDe <- MCVinDe
    CpfDe <- MCCpfDe
    Dealers = {x1}
    DigestDe <- MCDigestDe
    Datas <- MCDatas
    Amostras = {0, 1, 2}
    MaxLinhas = 5
    MaxVersoes = 2
\* The extract of sales ends at MaxFaturas.
CHECK_DEADLOCK FALSE
INVARIANTS TreinoFordGrava
