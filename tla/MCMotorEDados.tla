--------------------------- MODULE MCMotorEDados ---------------------------
(* Two customers who buy, for Base 2; an extract of twenty-four for the     *)
(* notebook; four vehicles and samples of none, one and two for the seed.  *)
EXTENDS MotorEDados

CONSTANTS a, b, r1, r2, x1

MCCustomerIDs == {a, b}
Item(q, p, k) == [qtd |-> q, preco |-> p, sku |-> k]
\* Two products, a return beside a sale, a line twice.
MCCarrinhos ==
    {<<Item(1, 2, 1), Item(2, 1, 2)>>, <<Item(-1, 2, 1), Item(1, 1, 2)>>, <<Item(1, 2, 1), Item(1, 2, 1)>>}
\* Twenty-four customers, six of each kind: once and long ago, often and much, often and little,
\* once and dear.  Every third bought twice, the second time on the last days.
Tipo(c1) == (c1 - 1) % 4
Preco(c1) == CASE Tipo(c1) = 0 -> 3 [] Tipo(c1) = 1 -> 9 [] Tipo(c1) = 2 -> 1 [] Tipo(c1) = 3 -> 6
Compra(c1, fatura, dia) ==
    [cliente |-> c1, fatura |-> fatura, dia |-> dia, qtd |-> 1 + (c1 % 2), preco |-> Preco(c1), sku |-> 1]
MCExtrato ==
    [n \in 1..24 |-> Compra(n, n, n)] \o
    [n \in 1..8 |-> Compra(3 * n, 24 + n, 24 + n)]
\* The same groups, numbered in two ways.
MCRotulacoes == {[c1 \in 1..24 |-> Tipo(c1)], [c1 \in 1..24 |-> (Tipo(c1) + 2) % 4]}

Modelo(origem, expoe, features, classes, proba, emite) ==
    [origem |-> origem, expoe |-> expoe, features |-> features, classes |-> classes,
     proba |-> proba, emite |-> emite]
\* No feature names; a post-sale feature; the classes of the contract over the notebook's features;
\* an estimator without classes_ that answers with a label of its own; one that was trained well.
MCExternos ==
    {Modelo("sem_nomes", FALSE, {}, {}, TRUE, {}),
     Modelo("vazado", TRUE, D0 \cup {"recency"}, ALLOWED_PERFIS, TRUE, ALLOWED_PERFIS),
     Modelo("proxy", TRUE, FEATURES_D0_PROXY, ALLOWED_PERFIS, TRUE, ALLOWED_PERFIS),
     Modelo("sem_classes", TRUE, D0, {}, FALSE, {"VIP", "FIEL"}),
     Modelo("bom", TRUE, D0, {"FIEL", "ABANDONO"}, TRUE, {"FIEL", "ABANDONO"})}
MCDatasetsFord ==
    {[colunas |-> TRUE, classes |-> ALLOWED_PERFIS], [colunas |-> TRUE, classes |-> Nulo],
     [colunas |-> FALSE, classes |-> Nulo]}

MCHashes == 1..4
MCVinDe  == [h \in MCHashes |-> h]
MCCpfDe  == [h \in MCHashes |-> h]
MCDigestDe == [h \in MCHashes |-> [x \in {x1} |-> <<(h * 67) % 256, 60 * h>>]]
MCDatas == {[tipo |-> "texto", a |-> 13, b |-> 4], [tipo |-> "outro", a |-> 0, b |-> 0]}
=============================================================================
