------------------------------ MODULE Caderno ------------------------------
(***************************************************************************)
(* The notebook previoPLS_ml.ipynb, which build_notebook.py writes.  It    *)
(* groups customers by what they did after the purchase (Base 1, RFM),     *)
(* names the groups, describes every customer by the first purchase only   *)
(* (Base 2, D0), trains three classifiers of the group and exports the     *)
(* best.  A notebook is a kernel and cells: a person runs them in any      *)
(* order and again, and a cell whose inputs are missing raises.            *)
(*                                                                         *)
(* K-Means is data: one labelling of the customers with the four clusters, *)
(* the same at every run (random_state is fixed).                          *)
(***************************************************************************)
EXTENDS Integers, SequencesExt

CONSTANTS
    CustomerIDs,
    Carrinhos,        \* what an invoice may hold: sequences of [qtd, preco, sku]
    MaxFaturas,       \* bound of the invoices
    Extrato,          \* the sales in the file the notebook reads
    Rotulacoes,       \* the labels K-Means may give to its customers
    Nulo

\* An invoice holds lines: a number of items at a price, of a product named by a number.
ASSUME CarrinhosDeItens == Carrinhos \subseteq Seq([qtd : Int, preco : Int, sku : Nat])

VARIABLES
    vendas,      \* the sales so far: lines [cliente, fatura, dia, qtd, preco, sku]
    rotulos,     \* the labels K-Means gives
    kernel,      \* the names the cells define
    artefato     \* the ml_model.pkl the last cell wrote, or Nulo

varsCaderno == <<vendas, rotulos, kernel, artefato>>

-----------------------------------------------------------------------------
(* The sales *)

NumFaturas(s) == Cardinality({s[n].fatura : n \in DOMAIN s})
UltimoDia(s)  == IF s = <<>> THEN 0 ELSE Last(s).dia

\* An invoice is issued, today or on a later day; its lines are recorded together.
Faturar ==
    /\ NumFaturas(vendas) < MaxFaturas
    /\ \E c \in CustomerIDs \cup {Nulo}, itens \in Carrinhos, espera \in {0, 1} :
          vendas' = vendas \o
              [k \in 1..Len(itens) |->
                  [cliente |-> c, fatura |-> NumFaturas(vendas) + 1,
                   dia |-> UltimoDia(vendas) + espera, qtd |-> itens[k].qtd,
                   preco |-> itens[k].preco, sku |-> itens[k].sku]]
    /\ UNCHANGED <<rotulos, kernel, artefato>>

\* df: no line without a customer, no return, no free item, no exact copy of a line above.
Limpo(s, n) ==
    /\ s[n].cliente # Nulo /\ s[n].qtd > 0 /\ s[n].preco > 0
    /\ \A k \in 1..(n - 1) : s[k] # s[n]
Limpas(s)   == {n \in DOMAIN s : Limpo(s, n)}
DoCliente(s, c) == {n \in Limpas(s) : s[n].cliente = c}
Clientes(s) == {s[n].cliente : n \in Limpas(s)}

TotalPrice(s, n) == s[n].qtd * s[n].preco
Somatorio(f)     == MapThenSumSet(LAMBDA n : f[n], DOMAIN f)
Soma(s, N)       == Somatorio([n \in N |-> TotalPrice(s, n)])

-----------------------------------------------------------------------------
(* Base 1: rfm *)

snapshot_date(s) == CHOOSE d \in {s[n].dia + 1 : n \in Limpas(s)} : \A n \in Limpas(s) : s[n].dia < d

\* AvgOrderValue is the mean over the lines; ESCALA makes it whole for up to six of them.
ESCALA == 60
rfm(s) ==
    [c \in Clientes(s) |->
        LET N == DoCliente(s, c) IN
        [Recency       |-> snapshot_date(s) - (CHOOSE d \in {s[n].dia : n \in N} : \A n \in N : s[n].dia <= d),
         Frequency     |-> Cardinality({s[n].fatura : n \in N}),
         Monetary      |-> Soma(s, N),
         AvgOrderValue |-> (ESCALA * Soma(s, N)) \div Cardinality(N)]]

Clusters == 0..3

\* The k-th value of a column over S, in ascending order; twice the median.
enesimo(f, S, k) ==
    CHOOSE v \in {f[c] : c \in S} :
        /\ Cardinality({c \in S : f[c] < v}) < k
        /\ k <= Cardinality({c \in S : f[c] <= v})
mediana2(f, S) ==
    enesimo(f, S, (Cardinality(S) + 1) \div 2) + enesimo(f, S, Cardinality(S) \div 2 + 1)

cluster_summary(r, cluster) ==
    [i \in Clusters |->
        LET S == {c \in DOMAIN r : cluster[c] = i} IN
        [recency_mediana  |-> mediana2([c \in S |-> r[c].Recency], S),
         monetary_mediano |-> mediana2([c \in S |-> r[c].Monetary], S),
         aov_mediano      |-> mediana2([c \in S |-> r[c].AvgOrderValue], S)]]

Personas == {"Abandono", "Fiel", "Economico", "Esquecido"}

\* The first index that holds the extreme, as pandas has it.
idxmax(f, S) == CHOOSE i \in S : \A j \in S : f[j] < f[i] \/ (f[j] = f[i] /\ i <= j)
idxmin(f, S) == CHOOSE i \in S : \A j \in S : f[j] > f[i] \/ (f[j] = f[i] /\ i <= j)

map_clusters_to_personas(summary) ==
    LET aband == idxmax([i \in Clusters |-> summary[i].recency_mediana], Clusters)
        s2    == Clusters \ {aband}
        fiel  == idxmax([i \in Clusters |-> summary[i].monetary_mediano], s2)
        s3    == s2 \ {fiel}
        econ  == idxmin([i \in Clusters |-> summary[i].aov_mediano], s3) IN
    [i \in Clusters |-> CASE i = aband -> "Abandono" [] i = fiel -> "Fiel"
                          [] i = econ -> "Economico" [] OTHER -> "Esquecido"]

\* The run the repository keeps: the table of section 11, in cents, and the personas printed.
resumo_gravado ==
    [i \in Clusters |->
        CASE i = 0 -> [recency_mediana |-> 24600, monetary_mediano |->  29806, aov_mediano |->  1796]
          [] i = 1 -> [recency_mediana |->  2300, monetary_mediano |-> 189094, aov_mediano |->  1995]
          [] i = 2 -> [recency_mediana |->  3900, monetary_mediano |->  40437, aov_mediano |->  1179]
          [] i = 3 -> [recency_mediana |->  6400, monetary_mediano |-> 130404, aov_mediano |-> 10158]]

personas_gravadas ==
    [i \in Clusters |-> CASE i = 0 -> "Abandono" [] i = 1 -> "Fiel" [] i = 2 -> "Economico" [] i = 3 -> "Esquecido"]

ASSUME PersonasConferem == map_clusters_to_personas(resumo_gravado) = personas_gravadas

-----------------------------------------------------------------------------
(* Base 2: what is known at the first purchase *)

\* sort by CustomerID and InvoiceDate (a stable sort), first line of each customer.
first_line(s, c) ==
    CHOOSE n \in DoCliente(s, c) : \A k \in DoCliente(s, c) :
        s[n].dia < s[k].dia \/ (s[n].dia = s[k].dia /\ n <= k)

\* Mutant of df_first: every line of the customer, not the first invoice alone.
df_first_SemFiltro(s, c) == DoCliente(s, c)

df_first(s, c) == {n \in DoCliente(s, c) : s[n].fatura = s[first_line(s, c)].fatura}

base2(s) ==
    [c \in Clientes(s) |->
        LET N == df_first(s, c) IN
        [first_order_value           |-> Soma(s, N),
         first_order_quantity        |-> Somatorio([n \in N |-> s[n].qtd]),
         first_order_unique_products |-> Cardinality({s[n].sku : n \in N}),
         first_order_dow             |-> s[first_line(s, c)].dia % 7]]

FEATURES_D0_PROXY == {"first_country", "first_order_value", "first_order_quantity",
                      "first_order_unique_products", "first_order_avg_unit_price",
                      "first_order_month", "first_order_dow", "first_order_hour"}

-----------------------------------------------------------------------------
(* The kernel *)

RFM    == rfm(Extrato)
RESUMO == [r \in Rotulacoes |-> cluster_summary(RFM, r)]

\* K-Means leaves no group empty, so that each has its three medians, and they are numbers.
ASSUME ResumosNumericos ==
    RESUMO \in [Rotulacoes -> [Clusters -> [recency_mediana : Int, monetary_mediano : Int, aov_mediano : Int]]]

\* nomes: the names without a field of their own.  colunas: what was added to rfm.  base2, X and
\* auditadas are columns.
KernelNovo ==
    [nomes |-> {}, colunas |-> {}, resumo |-> Nulo, personas |-> Nulo,
     base2 |-> Nulo, auditadas |-> Nulo, X |-> Nulo, results |-> {}, best |-> Nulo]

Definido(nomes) == nomes \subseteq kernel.nomes

Celula(k) == kernel' = k /\ UNCHANGED <<vendas, rotulos, artefato>>

\* The imports and RANDOM_STATE, without which nothing else runs.
Setup == Celula([kernel EXCEPT !.nomes = @ \cup {"RANDOM_STATE"}])

\* The file is there or is downloaded; else the cell raises.
Carregar == Definido({"RANDOM_STATE"}) /\ Celula([kernel EXCEPT !.nomes = @ \cup {"df_raw"}])

Limpeza == Definido({"df_raw"}) /\ Celula([kernel EXCEPT !.nomes = @ \cup {"df"}])

\* A new data frame: what was added to the old one is gone.
Base1 ==
    /\ Definido({"df"})
    /\ Celula([kernel EXCEPT !.nomes = @ \cup {"rfm"}, !.colunas = {}])

rfm_log == Definido({"rfm"}) /\ Celula([kernel EXCEPT !.nomes = @ \cup {"rfm_log"}])

Escala == Definido({"rfm", "rfm_log"}) /\ Celula([kernel EXCEPT !.nomes = @ \cup {"X_cluster"}])

\* K-Means asks for as many customers as clusters.
Pronto == Definido({"rfm", "X_cluster"}) /\ Cardinality(DOMAIN RFM) >= Cardinality(Clusters)
KMeans == Pronto /\ Celula([kernel EXCEPT !.colunas = @ \cup {"cluster_kmeans"}])
DBSCAN == Pronto /\ Celula([kernel EXCEPT !.colunas = @ \cup {"cluster_dbscan"}])
Ward   == Pronto /\ Celula([kernel EXCEPT !.colunas = @ \cup {"cluster_hier"}])

Candidatas == {"cluster_kmeans", "cluster_dbscan", "cluster_hier"}

\* The assignment comes before the drop, which raises when one of the three is missing.
Escolha ==
    /\ "cluster_kmeans" \in kernel.colunas
    /\ LET com == kernel.colunas \cup {"cluster_id"} IN
       Celula([kernel EXCEPT !.colunas = IF Candidatas \subseteq com THEN com \ Candidatas ELSE com])

Resumir ==
    /\ "cluster_id" \in kernel.colunas
    /\ Celula([kernel EXCEPT !.resumo = RESUMO[rotulos]])

\* It needs rfm for its last line only: PERSONA_MAP is there before.
Nomear ==
    /\ kernel.resumo # Nulo
    /\ Celula([kernel EXCEPT
          !.personas = map_clusters_to_personas(kernel.resumo),
          !.colunas  = IF "cluster_id" \in @ THEN @ \cup {"persona"} ELSE @])

PrimeiraCompra == Definido({"df"}) /\ Celula([kernel EXCEPT !.nomes = @ \cup {"df_first"}])

\* Mutant of colunas_base2: the merge takes all of rfm.
colunas_base2_SemRecorte ==
    FEATURES_D0_PROXY \cup {"CustomerID", "Recency", "Frequency", "Monetary"} \cup kernel.colunas

colunas_base2 == FEATURES_D0_PROXY \cup {"CustomerID", "cluster_id", "persona"}

Base2 ==
    /\ Definido({"df_first"}) /\ {"cluster_id", "persona"} \subseteq kernel.colunas
    /\ Celula([kernel EXCEPT !.base2 = colunas_base2])

\* The columns of rfm and Base 2 whose name holds one of BANNED_TOKENS.
Vazamentos(features) == features \cap ({"Recency", "Frequency", "Monetary"} \cup Candidatas)

\* The check of section 14 raises, and stops whoever runs the cells in order; nothing asks for it.
features_in ==
    /\ kernel.base2 # Nulo
    /\ LET features == kernel.base2 \ {"CustomerID", "cluster_id", "persona"} IN
       /\ Vazamentos(features) = {}
       /\ Celula([kernel EXCEPT !.auditadas = features])

\* A stratified quarter for the test: two customers of each group, and room for every group.
Estratificavel ==
    /\ (Cardinality(DOMAIN RFM) + 3) \div 4 >= Cardinality(Clusters)
    /\ \A i \in Clusters : Cardinality({c \in DOMAIN RFM : rotulos[c] = i}) >= 2

\* The split, and X without the identifier and the target.
Dividir ==
    /\ kernel.base2 # Nulo /\ Estratificavel
    /\ Celula([kernel EXCEPT !.X = kernel.base2 \ {"CustomerID", "cluster_id", "persona"}])

Preparar == Definido({"RANDOM_STATE"}) /\ Celula([kernel EXCEPT !.nomes = @ \cup {"preprocessor"}])

\* cv, and a results without models
Validacao ==
    /\ Definido({"RANDOM_STATE"})
    /\ Celula([kernel EXCEPT !.nomes = @ \cup {"results"}, !.results = {}])

Modelos == {"LogReg", "RandomForest", "XGBoost"}

\* One cell per candidate: a grid search over the training half.
Treinar(m) ==
    /\ Definido({"preprocessor", "results"}) /\ kernel.X # Nulo
    /\ FEATURES_D0_PROXY \subseteq kernel.X
    /\ Celula([kernel EXCEPT !.results = @ \cup {m}])

best_name(f1) == CHOOSE m \in DOMAIN f1 : \A k \in DOMAIN f1 : f1[k] <= f1[m]

\* The test_f1_macro the repository keeps, in thousandths, and the model printed as chosen.
f1_gravado == [m \in Modelos |-> CASE m = "LogReg" -> 591 [] m = "RandomForest" -> 617 [] m = "XGBoost" -> 643]

ASSUME EscolhaConfere == best_name(f1_gravado) = "XGBoost"

\* The target is cluster_id, so the classes are the numbers of the clusters.
Classificador(algoritmo, X) ==
    [origem |-> algoritmo, expoe |-> TRUE, features |-> X, classes |-> {"0", "1", "2", "3"},
     proba |-> TRUE, emite |-> {"0", "1", "2", "3"}]

\* best_model is set before label_map asks for PERSONA_MAP.
Escolher ==
    /\ kernel.results # {}
    /\ \E f1 \in [kernel.results -> {0, 1}] :
          Celula([kernel EXCEPT !.best = Classificador(best_name(f1), kernel.X)])

Exportar ==
    /\ kernel.best # Nulo
    /\ artefato' = kernel.best
    /\ UNCHANGED <<vendas, rotulos, kernel>>

\* build_notebook.py writes the notebook anew, without outputs: the next kernel is empty.
Gerar == kernel # KernelNovo /\ Celula(KernelNovo)

NextCaderno ==
    \/ Setup \/ Carregar \/ Limpeza \/ Base1 \/ rfm_log \/ Escala \/ KMeans \/ DBSCAN \/ Ward \/ Escolha \/ Resumir \/ Nomear
    \/ PrimeiraCompra \/ Base2 \/ features_in \/ Dividir \/ Preparar \/ Validacao
    \/ \E m \in Modelos : Treinar(m)
    \/ Escolher \/ Exportar \/ Gerar

-----------------------------------------------------------------------------
(* Properties *)

\* What Base 2 says of a customer is what was known at the first purchase: no invoice issued
\* later, of the same day included, changes it (build_notebook.py, "Base 2", US02).
D0Imutavel ==
    [][\A c \in Clientes(vendas) : base2(vendas')[c] = base2(vendas)[c]]_vendas
=============================================================================
