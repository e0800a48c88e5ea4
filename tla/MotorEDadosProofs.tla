-------------------------- MODULE MotorEDadosProofs --------------------------
(***************************************************************************)
(* Proofs about MotorEDados: the sales and what Base 2 says of them, for   *)
(* any customers and invoices; the notebook, for any labels of K-Means;    *)
(* the models, for any files put in place; and the seed of the Core, for   *)
(* any spreadsheet, sample size and order of the commands.                 *)
(***************************************************************************)
EXTENDS MotorEDados, FiniteSetTheorems, FunctionTheorems, SequenceTheorems, TLAPS

-----------------------------------------------------------------------------
(* The personas *)

\* A total order of the clusters has a first element in every group of them.
LEMMA Primeiro ==
  ASSUME NEW R \in SUBSET (Clusters \X Clusters),
         \A i, j \in Clusters : <<i, j>> \in R \/ <<j, i>> \in R,
         \A i, j, k \in Clusters : <<i, j>> \in R /\ <<j, k>> \in R => <<i, k>> \in R,
         NEW S \in SUBSET Clusters, S # {}
  PROVE  \E i \in S : \A j \in S : <<i, j>> \in R
<1> DEFINE Tem(T) == T # {} => \E i \in T : \A j \in T : <<i, j>> \in R
<1>1. ASSUME NEW T \in SUBSET Clusters, Tem(T), NEW x \in Clusters
      PROVE  Tem(T \cup {x})
  <2>1. CASE T = {}
    BY <2>1
  <2>2. CASE T # {}
    <3>1. PICK i \in T : \A j \in T : <<i, j>> \in R
      BY <1>1, <2>2
    <3>2. CASE <<i, x>> \in R
      BY <3>1, <3>2
    <3>3. CASE <<x, i>> \in R
      <4>1. \A j \in T : <<x, j>> \in R
        BY <3>1, <3>3
      <4>2. <<x, x>> \in R
        OBVIOUS
      <4>3. QED  BY <4>1, <4>2
    <3>4. QED  BY <3>2, <3>3
  <2>3. QED  BY <2>1, <2>2
<1>2. ASSUME NEW T \in SUBSET Clusters, Tem(T), NEW x \in Clusters
      PROVE  Tem(T \cup (S \cap {x}))
  <2>1. S \cap {x} = {x} \/ S \cap {x} = {}
    OBVIOUS
  <2> HIDE DEF Tem
  <2>2. CASE S \cap {x} = {x}
    BY <1>1, <1>2, <2>2
  <2>3. CASE S \cap {x} = {}
    <3>1. T \cup (S \cap {x}) = T
      BY <2>3
    <3>2. QED  BY <1>2, <3>1
  <2>4. QED  BY <2>1, <2>2, <2>3
<1>3. Tem({})
  OBVIOUS
<1> HIDE DEF Tem
<1>4. Clusters = {0, 1, 2, 3}
  BY DEF Clusters
<1>5. Tem({} \cup (S \cap {0}))
  BY <1>2, <1>3, <1>4
<1>6. Tem({} \cup (S \cap {0}) \cup (S \cap {1}))
  BY <1>2, <1>4, <1>5
<1>7. Tem({} \cup (S \cap {0}) \cup (S \cap {1}) \cup (S \cap {2}))
  BY <1>2, <1>4, <1>6
<1>8. Tem({} \cup (S \cap {0}) \cup (S \cap {1}) \cup (S \cap {2}) \cup (S \cap {3}))
  BY <1>2, <1>4, <1>7
<1>9. {} \cup (S \cap {0}) \cup (S \cap {1}) \cup (S \cap {2}) \cup (S \cap {3}) = S
  BY <1>4
<1>10. Tem(S)
  BY <1>8, <1>9
<1>11. QED  BY <1>10 DEF Tem

\* Among at most four numbers one is the greatest and the first of those, one the least.
LEMMA Extremos ==
  ASSUME NEW f \in [Clusters -> Int], NEW S \in SUBSET Clusters, S # {}
  PROVE  idxmax(f, S) \in S /\ idxmin(f, S) \in S
<1> DEFINE D(p) == f[p[2]] < f[p[1]] \/ (f[p[2]] = f[p[1]] /\ p[1] <= p[2])
           C(p) == f[p[2]] > f[p[1]] \/ (f[p[2]] = f[p[1]] /\ p[1] <= p[2])
           Desce == {p \in Clusters \X Clusters : D(p)}
           Cresce == {p \in Clusters \X Clusters : C(p)}
<1>1. Clusters \subseteq Int /\ \A i \in Clusters : f[i] \in Int
  BY DEF Clusters
<1>2. \A i, j \in Clusters : /\ <<i, j>> \in Desce <=> f[j] < f[i] \/ (f[j] = f[i] /\ i <= j)
                             /\ <<i, j>> \in Cresce <=> f[j] > f[i] \/ (f[j] = f[i] /\ i <= j)
  OBVIOUS
<1> HIDE DEF Desce, Cresce, C, D
<1>3. \E i \in S : \A j \in S : <<i, j>> \in Desce
  <2>1. Desce \subseteq Clusters \X Clusters
    BY DEF Desce
  <2>2. ASSUME NEW i \in Clusters, NEW j \in Clusters
        PROVE  <<i, j>> \in Desce \/ <<j, i>> \in Desce
    <3>1. {f[i], f[j], i, j} \subseteq Int
      BY <1>1
    <3>2. QED  BY <1>2, <3>1
  <2>3. ASSUME NEW i \in Clusters, NEW j \in Clusters, NEW k \in Clusters,
               <<i, j>> \in Desce, <<j, k>> \in Desce
        PROVE  <<i, k>> \in Desce
    <3>1. {f[i], f[j], f[k], i, j, k} \subseteq Int
      BY <1>1
    <3>2. QED  BY <1>2, <2>3, <3>1
  <2>4. QED  BY <2>1, <2>2, <2>3, Primeiro
<1>4. \E i \in S : \A j \in S : <<i, j>> \in Cresce
  <2>1. Cresce \subseteq Clusters \X Clusters
    BY DEF Cresce
  <2>2. ASSUME NEW i \in Clusters, NEW j \in Clusters
        PROVE  <<i, j>> \in Cresce \/ <<j, i>> \in Cresce
    <3>1. {f[i], f[j], i, j} \subseteq Int
      BY <1>1
    <3>2. QED  BY <1>2, <3>1
  <2>3. ASSUME NEW i \in Clusters, NEW j \in Clusters, NEW k \in Clusters,
               <<i, j>> \in Cresce, <<j, k>> \in Cresce
        PROVE  <<i, k>> \in Cresce
    <3>1. {f[i], f[j], f[k], i, j, k} \subseteq Int
      BY <1>1
    <3>2. QED  BY <1>2, <2>3, <3>1
  <2>4. QED  BY <2>1, <2>2, <2>3, Primeiro
<1>5. /\ \E i \in S : \A j \in S : f[j] < f[i] \/ (f[j] = f[i] /\ i <= j)
      /\ \E i \in S : \A j \in S : f[j] > f[i] \/ (f[j] = f[i] /\ i <= j)
  BY <1>2, <1>3, <1>4
<1>6. QED  BY <1>5 DEF idxmax, idxmin

\* The four groups get the four personas, whatever their medians.
LEMMA CadaPersona ==
  ASSUME NEW s \in [Clusters -> [recency_mediana : Int, monetary_mediano : Int, aov_mediano : Int]]
  PROVE  {map_clusters_to_personas(s)[i] : i \in Clusters} = Personas
<1> DEFINE aband == idxmax([i \in Clusters |-> s[i].recency_mediana], Clusters)
           s2    == Clusters \ {aband}
           fiel  == idxmax([i \in Clusters |-> s[i].monetary_mediano], s2)
           s3    == s2 \ {fiel}
           econ  == idxmin([i \in Clusters |-> s[i].aov_mediano], s3)
<1>1. Clusters = {0, 1, 2, 3}
  BY DEF Clusters
<1>2. /\ [i \in Clusters |-> s[i].recency_mediana] \in [Clusters -> Int]
      /\ [i \in Clusters |-> s[i].monetary_mediano] \in [Clusters -> Int]
      /\ [i \in Clusters |-> s[i].aov_mediano] \in [Clusters -> Int]
  OBVIOUS
<1>3. aband \in Clusters
  BY <1>1, <1>2, Extremos
<1> HIDE DEF aband
<1>4. fiel \in Clusters /\ fiel # aband
  BY <1>1, <1>2, <1>3, Extremos
<1> HIDE DEF fiel
<1>5. econ \in Clusters /\ econ # aband /\ econ # fiel
  BY <1>1, <1>2, <1>3, <1>4, Extremos
<1>6. map_clusters_to_personas(s) =
        [i \in Clusters |-> CASE i = aband -> "Abandono" [] i = fiel -> "Fiel"
                              [] i = econ -> "Economico" [] OTHER -> "Esquecido"]
  BY DEF map_clusters_to_personas, aband, fiel
<1> HIDE DEF econ
<1>7. PICK q \in Clusters : q \notin {aband, fiel, econ}
  BY <1>1, <1>3, <1>4, <1>5
<1>8. QED  BY <1>3, <1>4, <1>5, <1>6, <1>7 DEF Personas

-----------------------------------------------------------------------------
(* The notebook and the models *)

KernelInv ==
    /\ kernel = [nomes |-> kernel.nomes, colunas |-> kernel.colunas, resumo |-> kernel.resumo,
                 personas |-> kernel.personas, base2 |-> kernel.base2, auditadas |-> kernel.auditadas,
                 X |-> kernel.X, results |-> kernel.results, best |-> kernel.best]
    /\ rotulos \in Rotulacoes
    /\ kernel.resumo # Nulo => \E r \in Rotulacoes : kernel.resumo = RESUMO[r]
    /\ kernel.personas # Nulo => {kernel.personas[i] : i \in Clusters} = Personas
    /\ kernel.base2 \in {Nulo, colunas_base2}
    /\ kernel.auditadas \in {Nulo, FEATURES_D0_PROXY} /\ kernel.X \in {Nulo, FEATURES_D0_PROXY}
    /\ kernel.results # {} => kernel.X = FEATURES_D0_PROXY
    /\ kernel.best # Nulo => kernel.best.features = FEATURES_D0_PROXY
    /\ artefato # Nulo => artefato.features = FEATURES_D0_PROXY

ServicoInv ==
    /\ pedidoML = [r \in Pedidos |-> pedidoML[r]]
    /\ api.fase = "no_ar" =>
          /\ api.modelo.expoe /\ api.modelo.features \cap BANNED = {}
          /\ api.modelo.classes \subseteq ALLOWED_PERFIS
    /\ \A r \in Pedidos : pedidoML[r].resposta # Nulo /\ pedidoML[r].resposta.codigo = 200 =>
          /\ pedidoML[r].resposta.perfil \in ALLOWED_PERFIS
          /\ pedidoML[r].resposta.por.features \subseteq D0

\* No cell, in whatever order, lets a column past the first purchase into a model.
LEMMA KernelStep == KernelInv /\ [Next]_varsMotorEDados => KernelInv'
<1> SUFFICES ASSUME KernelInv, [Next]_varsMotorEDados
             PROVE  KernelInv'
  OBVIOUS
<1> USE DEF KernelInv
\* A cell that defines names, or columns of rfm.
<1>n. ASSUME NEW N, NEW C, kernel' = [kernel EXCEPT !.nomes = N, !.colunas = C],
             UNCHANGED <<rotulos, artefato>>
      PROVE  KernelInv'
  BY <1>n
<1>f. colunas_base2 \ {"CustomerID", "cluster_id", "persona"} = FEATURES_D0_PROXY
  BY DEF colunas_base2, FEATURES_D0_PROXY
<1>1. CASE Setup \/ Carregar \/ Limpeza \/ rfm_log \/ Escala \/ PrimeiraCompra \/ Preparar
  <2>1. PICK N : kernel' = [kernel EXCEPT !.nomes = N] /\ UNCHANGED <<rotulos, artefato>>
    BY <1>1 DEF Setup, Carregar, Limpeza, rfm_log, Escala, PrimeiraCompra, Preparar, Celula
  <2>2. QED  BY <2>1
<1>2. CASE Base1
  BY <1>2, <1>n DEF Base1, Celula
<1>3. CASE KMeans \/ DBSCAN \/ Ward \/ Escolha
  <2>1. PICK C : kernel' = [kernel EXCEPT !.colunas = C] /\ UNCHANGED <<rotulos, artefato>>
    BY <1>3 DEF KMeans, DBSCAN, Ward, Escolha, Celula
  <2>2. QED  BY <2>1
<1>4. CASE Resumir
  BY <1>4 DEF Resumir, Celula
<1>5. CASE Nomear
  <2>1. PICK r \in Rotulacoes : kernel.resumo = RESUMO[r]
    BY <1>5 DEF Nomear
  <2>2. RESUMO[r] \in [Clusters -> [recency_mediana : Int, monetary_mediano : Int, aov_mediano : Int]]
    BY ResumosNumericos
  <2> DEFINE p == map_clusters_to_personas(kernel.resumo)
  <2>3. {p[i] : i \in Clusters} = Personas
    BY <2>1, <2>2, CadaPersona
  <2> HIDE DEF p
  <2>4. PICK C : kernel' = [kernel EXCEPT !.personas = p, !.colunas = C] /\ UNCHANGED <<rotulos, artefato>>
    BY <1>5 DEF Nomear, Celula, p
  <2>5. QED  BY <2>3, <2>4
<1>6. CASE Base2
  BY <1>6 DEF Base2, Celula
<1>7. CASE features_in
  BY <1>7, <1>f DEF features_in, Celula
<1>8. CASE Dividir
  BY <1>8, <1>f DEF Dividir, Celula
<1>9. CASE Validacao
  BY <1>9 DEF Validacao, Celula
<1>10. ASSUME NEW m \in Modelos, Treinar(m)  PROVE KernelInv'
  BY <1>10 DEF Treinar, Celula
<1>11. CASE Escolher
  <2>1. kernel.X = FEATURES_D0_PROXY
    BY <1>11 DEF Escolher
  <2>2. PICK m : kernel' = [kernel EXCEPT !.best = m] /\ m.features = FEATURES_D0_PROXY
                 /\ UNCHANGED <<rotulos, artefato>>
    BY <1>11, <2>1 DEF Escolher, Celula, Classificador
  <2>3. QED  BY <2>2
<1>12. CASE Exportar
  BY <1>12 DEF Exportar
<1>13. CASE Gerar
  BY <1>13 DEF Gerar, Celula, KernelNovo
<1>14. CASE UNCHANGED <<rotulos, kernel, artefato>>
  BY <1>14
<1>15. CASE Celulas
  BY <1>1, <1>2, <1>3, <1>4, <1>5, <1>6, <1>7, <1>8, <1>9, <1>10, <1>11, <1>12, <1>13, <1>15
     DEF Celulas, NextCaderno
<1>16. CASE Motor
  BY <1>14, <1>16 DEF Motor, NextModelos, varsCaderno, Publicar, Construir, load_model, Reiniciar, train,
                      ReceberPredict, post_predict
<1>17. QED
  BY <1>14, <1>15, <1>16 DEF Next, Vendas, Faturar, Semente, varsMotorEDados, varsMotor, varsCaderno

\* What is served passed the checks of the start, and every 200 the checks of the answer.
LEMMA ServicoStep == ServicoInv /\ [Next]_varsMotorEDados => ServicoInv'
<1> SUFFICES ASSUME ServicoInv, [Next]_varsMotorEDados
             PROVE  ServicoInv'
  OBVIOUS
<1> USE DEF ServicoInv
\* A stop of the process loses the requests under way.
<1>p. ASSUME api' = [fase |-> "parada", modelo |-> Nulo],
             pedidoML' = [r \in Pedidos |-> IF pedidoML[r].fase = "predict"
                                            THEN [fase |-> "fim", resposta |-> Nulo] ELSE pedidoML[r]]
      PROVE  ServicoInv'
  BY <1>p
<1>1. CASE UNCHANGED <<api, pedidoML>>
  BY <1>1
<1>2. CASE Construir \/ Reiniciar
  BY <1>2, <1>p DEF Construir, Reiniciar
<1>3. CASE load_model
  BY <1>3 DEF load_model, _check_anti_leakage, _validate_classes
<1>4. ASSUME NEW r \in Pedidos, ReceberPredict(r)  PROVE ServicoInv'
  BY <1>4 DEF ReceberPredict
<1>5. ASSUME NEW r \in Pedidos, post_predict(r)  PROVE ServicoInv'
  <2>1. PICK perfil \in predict(api.modelo) :
            pedidoML' = [pedidoML EXCEPT ![r] =
                [fase |-> "fim",
                 resposta |-> IF PredictResponse(perfil) = 200
                              THEN [codigo |-> 200, perfil |-> perfil, por |-> api.modelo]
                              ELSE [codigo |-> 500, perfil |-> Nulo, por |-> Nulo]]]
    BY <1>5 DEF post_predict
  <2>2. PredictResponse(perfil) = 200 =>
            perfil \in ALLOWED_PERFIS /\ api.modelo.features \subseteq D0
    BY NuloNaoEPerfil DEF PredictResponse, predict
  <2>3. UNCHANGED api
    BY <1>5 DEF post_predict
  <2>4. CASE PredictResponse(perfil) = 200
    BY <2>1, <2>2, <2>3, <2>4
  <2>5. CASE PredictResponse(perfil) # 200
    BY <2>1, <2>3, <2>5
  <2>6. QED  BY <2>4, <2>5
<1>6. CASE Motor
  BY <1>1, <1>2, <1>3, <1>4, <1>5, <1>6 DEF Motor, NextModelos, Publicar, train
<1>7. QED
  BY <1>1, <1>6 DEF Next, Vendas, Celulas, Semente, varsMotorEDados, varsMotor, varsServico

\* Whatever file is put in place and in whatever order the cells run, what the notebook exports
\* is trained on the first purchase only, and what ml-api serves passed the checks of its boot
\* and answers with a known perfil from those columns (build_notebook.py, main.py, predictor.py).
THEOREM ContratoMantido == Spec => []SoContrato
<1>1. Init => KernelInv /\ ServicoInv
  <2> SUFFICES ASSUME Init  PROVE KernelInv /\ ServicoInv
    OBVIOUS
  <2>1. rotulos \in Rotulacoes /\ kernel = KernelNovo
    BY DEF Init
  <2>2. artefato # Nulo => artefato.features = FEATURES_D0_PROXY
    BY DEF Init, Classificador
  <2>3. KernelInv
    BY <2>1, <2>2 DEF KernelInv, KernelNovo
  <2>4. ServicoInv
    BY DEF Init, InitMotor, ServicoInv
  <2>5. QED  BY <2>3, <2>4
<1>2. KernelInv /\ ServicoInv => SoContrato
  BY DEF KernelInv, ServicoInv, SoContrato
<1>3. QED  BY KernelStep, ServicoStep, <1>1, <1>2, PTL DEF Spec

-----------------------------------------------------------------------------
(* The sales *)

Venda == [cliente : CustomerIDs \cup {Nulo}, fatura : Nat, dia : Nat, qtd : Int, preco : Int, sku : Nat]

\* The days never go back, and the invoices are numbered from one without a gap.
EmOrdem(s)    == \A m, n \in 1..Len(s) : m <= n => s[m].dia <= s[n].dia
Numeradas(s)  == \E F \in Nat : {s[n].fatura : n \in DOMAIN s} = 1..F

VendasInv == vendas \in Seq(Venda) /\ EmOrdem(vendas) /\ Numeradas(vendas)

\* t goes on from s with lines of other invoices.
Continua(s, t) ==
    /\ Len(s) <= Len(t) /\ \A n \in 1..Len(s) : t[n] = s[n]
    /\ \A n \in (Len(s) + 1)..Len(t) : \A k \in 1..Len(s) : t[n].fatura # s[k].fatura

\* Every non-empty set of natural numbers has a least element.
LEMMA MenorNatural ==
  ASSUME NEW S \in SUBSET Nat, S # {}
  PROVE  \E m \in S : \A k \in S : m <= k
<1> DEFINE T == {1..k : k \in S}
<1>1. T \subseteq FiniteSubsetsOf(Nat) /\ T # {}
  <2>1. ASSUME NEW k \in S  PROVE 1..k \in SUBSET Nat /\ IsFiniteSet(1..k)
    BY FS_Interval
  <2>2. QED  BY <2>1 DEF FiniteSubsetsOf
<1>2. PICK x \in T : \A y \in T : ~ (<<y, x>> \in StrictSubsetOrdering(Nat))
  BY <1>1, WFMin, FS_StrictSubsetOrderingWellFounded
<1>3. PICK m \in S : x = 1..m
  OBVIOUS
<1>4. ASSUME NEW k \in S, k < m  PROVE FALSE
  <2>1. 1..k \in T /\ 1..k \subseteq 1..m /\ m \in 1..m /\ m \notin 1..k
    BY <1>4
  <2>2. <<1..k, 1..m>> \in (SUBSET Nat) \X (SUBSET Nat)
    OBVIOUS
  <2>3. <<1..k, 1..m>> \in StrictSubsetOrdering(Nat)
    BY <2>1, <2>2, ZenonT(30) DEF StrictSubsetOrdering
  <2>4. QED  BY <1>2, <1>3, <2>1, <2>3
<1>5. QED  BY <1>4

\* In sales that are in order, the first line of a customer is the first recorded.
LEMMA PrimeiraLinha ==
  ASSUME NEW s \in Seq(Venda), EmOrdem(s), NEW c,
         NEW m \in DoCliente(s, c), \A k \in DoCliente(s, c) : m <= k
  PROVE  first_line(s, c) = m
<1>1. DoCliente(s, c) \subseteq 1..Len(s) /\ 1..Len(s) \subseteq Nat
  BY DEF DoCliente, Limpas
<1>2. \A n \in 1..Len(s) : s[n].dia \in Nat
  <2>1. \A n \in 1..Len(s) : s[n] \in Venda
    OBVIOUS
  <2>2. QED  BY <2>1 DEF Venda
<1>3. \A k \in DoCliente(s, c) : s[m].dia <= s[k].dia
  BY <1>1 DEF EmOrdem
<1>4. \A k \in DoCliente(s, c) : s[m].dia < s[k].dia \/ (s[m].dia = s[k].dia /\ m <= k)
  BY <1>1, <1>2, <1>3
<1>5. ASSUME NEW n \in DoCliente(s, c), s[n].dia < s[m].dia \/ (s[n].dia = s[m].dia /\ n <= m)
      PROVE  n = m
  <2>1. s[m].dia <= s[n].dia /\ m <= n /\ {s[m].dia, s[n].dia, m, n} \subseteq Nat
    BY <1>1, <1>2, <1>3
  <2>2. QED  BY <1>5, <2>1
<1>6. QED  BY <1>4, <1>5 DEF first_line

\* Lines of other invoices, added at the end, change no row of Base 2 that was there.
LEMMA Base2Estavel ==
  ASSUME NEW s \in Seq(Venda), NEW t \in Seq(Venda), EmOrdem(t), Continua(s, t),
         NEW c \in Clientes(s)
  PROVE  c \in Clientes(t) /\ base2(t)[c] = base2(s)[c]
<1> DEFINE N == df_first(s, c)
<1>1. 1..Len(s) \subseteq 1..Len(t) /\ \A n \in 1..Len(s) : t[n] = s[n]
  BY DEF Continua
<1>2. \A n \in 1..Len(s) : Limpo(t, n) <=> Limpo(s, n)
  <2>1. ASSUME NEW n \in 1..Len(s)  PROVE 1..(n - 1) \subseteq 1..Len(s)
    OBVIOUS
  <2>2. QED  BY <1>1, <2>1 DEF Limpo
<1>3. /\ DoCliente(s, c) \subseteq 1..Len(s)
      /\ DoCliente(s, c) = DoCliente(t, c) \cap 1..Len(s)
      /\ DoCliente(t, c) \subseteq 1..Len(t)
  BY <1>1, <1>2 DEF DoCliente, Limpas
<1>4. DoCliente(s, c) # {}
  BY DEF Clientes, DoCliente
<1>5. PICK m \in DoCliente(s, c) : \A k \in DoCliente(s, c) : m <= k
  <2>1. DoCliente(s, c) \subseteq Nat
    BY <1>3
  <2>2. QED  BY <1>4, <2>1, MenorNatural
<1>6. m \in DoCliente(t, c) /\ \A k \in DoCliente(t, c) : m <= k
  <2>1. m \in DoCliente(t, c) /\ m \in 1..Len(s)
    BY <1>3
  <2>2. ASSUME NEW k \in DoCliente(t, c)  PROVE m <= k
    <3>1. k \in DoCliente(s, c) \/ (k \notin 1..Len(s) /\ k \in 1..Len(t))
      BY <1>3
    <3>2. QED  BY <1>5, <2>1, <3>1
  <2>3. QED  BY <2>1, <2>2
<1>7. EmOrdem(s)
  BY <1>1 DEF EmOrdem
<1>8. first_line(s, c) = m /\ first_line(t, c) = m
  BY <1>5, <1>6, <1>7, PrimeiraLinha
<1>9. m \in 1..Len(s) /\ t[m] = s[m]
  BY <1>1, <1>3
<1>10. df_first(t, c) = N
  <2>1. N = {n \in DoCliente(s, c) : s[n].fatura = s[m].fatura}
    BY <1>8 DEF df_first
  <2>2. df_first(t, c) = {n \in DoCliente(t, c) : t[n].fatura = s[m].fatura}
    BY <1>8, <1>9 DEF df_first
  <2>3. ASSUME NEW n \in DoCliente(t, c), t[n].fatura = s[m].fatura  PROVE n \in 1..Len(s)
    <3>1. n \in 1..Len(t) /\ (n \in 1..Len(s) \/ n \in (Len(s) + 1)..Len(t))
      BY <1>3
    <3>2. QED  BY <1>9, <2>3, <3>1 DEF Continua
  <2>4. QED  BY <1>1, <1>3, <2>1, <2>2, <2>3
<1> HIDE DEF N
<1>11. \A n \in N : t[n] = s[n]
  BY <1>1, <1>3 DEF N, df_first
<1>12. /\ [n \in N |-> TotalPrice(t, n)] = [n \in N |-> TotalPrice(s, n)]
       /\ [n \in N |-> t[n].qtd] = [n \in N |-> s[n].qtd]
       /\ {t[n].sku : n \in N} = {s[n].sku : n \in N}
  BY <1>11 DEF TotalPrice
<1>13. c \in Clientes(t)
  BY <1>6 DEF Clientes, DoCliente
<1>14. base2(s)[c] = [first_order_value           |-> Somatorio([n \in N |-> TotalPrice(s, n)]),
                      first_order_quantity        |-> Somatorio([n \in N |-> s[n].qtd]),
                      first_order_unique_products |-> Cardinality({s[n].sku : n \in N}),
                      first_order_dow             |-> s[m].dia % 7]
  BY <1>8 DEF base2, N, Soma
<1>15. base2(t)[c] = [first_order_value           |-> Somatorio([n \in N |-> TotalPrice(t, n)]),
                      first_order_quantity        |-> Somatorio([n \in N |-> t[n].qtd]),
                      first_order_unique_products |-> Cardinality({t[n].sku : n \in N}),
                      first_order_dow             |-> t[m].dia % 7]
  BY <1>8, <1>10, <1>13 DEF base2, Soma
<1>16. QED  BY <1>9, <1>12, <1>13, <1>14, <1>15

\* An invoice goes on from the sales so far, and keeps them in order and numbered.
LEMMA FaturarContinua ==
  ASSUME VendasInv, Faturar
  PROVE  VendasInv' /\ Continua(vendas, vendas')
<1>1. PICK F \in Nat : {vendas[n].fatura : n \in DOMAIN vendas} = 1..F
  BY DEF VendasInv, Numeradas
<1>2. NumFaturas(vendas) = F
  <2>1. Cardinality(1..F) = F
    BY FS_Interval
  <2>2. QED  BY <1>1, <2>1 DEF NumFaturas
<1>3. PICK c \in CustomerIDs \cup {Nulo}, itens \in Carrinhos, espera \in {0, 1} :
        vendas' = vendas \o
              [k \in 1..Len(itens) |->
                  [cliente |-> c, fatura |-> F + 1,
                   dia |-> UltimoDia(vendas) + espera, qtd |-> itens[k].qtd,
                   preco |-> itens[k].preco, sku |-> itens[k].sku]]
  BY <1>2 DEF Faturar
<1>4. itens \in Seq([qtd : Int, preco : Int, sku : Nat])
  BY CarrinhosDeItens
<1> DEFINE s == vendas
           D == UltimoDia(vendas) + espera
           novas == [k \in 1..Len(itens) |->
                        [cliente |-> c, fatura |-> F + 1, dia |-> D, qtd |-> itens[k].qtd,
                         preco |-> itens[k].preco, sku |-> itens[k].sku]]
<1>5. s \in Seq(Venda) /\ EmOrdem(s) /\ DOMAIN s = 1..Len(s) /\ Len(s) \in Nat
  BY DEF VendasInv
<1>6. D \in Nat /\ \A n \in 1..Len(s) : s[n].dia <= D /\ s[n].dia \in Nat
  <2>1. CASE s = <<>>
    BY <1>3, <2>1 DEF UltimoDia
  <2>2. CASE s # <<>>
    <3>1. Len(s) \in 1..Len(s) /\ UltimoDia(s) = s[Len(s)].dia
      BY <1>5, <2>2 DEF UltimoDia, Last
    <3>2. \A n \in 1..Len(s) : s[n].dia \in Nat
      <4>1. \A n \in 1..Len(s) : s[n] \in Venda
        BY <1>5
      <4>2. QED  BY <4>1 DEF Venda
    <3>3. \A n \in 1..Len(s) : s[n].dia <= s[Len(s)].dia
      BY <1>5, <3>1 DEF EmOrdem
    <3>4. s[Len(s)].dia \in Nat /\ D = s[Len(s)].dia + espera
      BY <3>1, <3>2
    <3>5. QED  BY <3>2, <3>3, <3>4
  <2>3. QED  BY <2>1, <2>2
<1> HIDE DEF D
<1>7. /\ novas \in Seq(Venda) /\ Len(novas) = Len(itens)
      /\ \A k \in 1..Len(itens) : novas[k].fatura = F + 1 /\ novas[k].dia = D
  <2>1. ASSUME NEW k \in 1..Len(itens)  PROVE novas[k] \in Venda
    <3>1. itens[k] \in [qtd : Int, preco : Int, sku : Nat]
      BY <1>4, ElementOfSeq
    <3>2. itens[k].qtd \in Int /\ itens[k].preco \in Int /\ itens[k].sku \in Nat
      BY <3>1
    <3>3. F + 1 \in Nat
      OBVIOUS
    <3>4. QED  BY <1>6, <3>2, <3>3 DEF Venda
  <2>2. Len(itens) \in Nat
    BY <1>4
  <2>3. QED  BY <2>1, <2>2
<1>8. vendas' = s \o novas
  BY <1>3 DEF D
<1> HIDE DEF novas
<1> DEFINE t == vendas'
<1>9. /\ t \in Seq(Venda) /\ Len(t) = Len(s) + Len(novas) /\ DOMAIN t = 1..Len(t)
      /\ \A n \in 1..Len(s) : t[n] = s[n]
      /\ \A n \in 1..Len(novas) : t[Len(s) + n] = novas[n]
  <2>1. /\ t \in Seq(Venda) /\ Len(t) = Len(s) + Len(novas)
        /\ \A n \in 1..(Len(s) + Len(novas)) :
              t[n] = IF n <= Len(s) THEN s[n] ELSE novas[n - Len(s)]
    <3>1. /\ s \o novas \in Seq(Venda) /\ Len(s \o novas) = Len(s) + Len(novas)
          /\ \A n \in 1..(Len(s) + Len(novas)) :
                (s \o novas)[n] = IF n <= Len(s) THEN s[n] ELSE novas[n - Len(s)]
      <4>1. s \in Seq(Venda) /\ novas \in Seq(Venda)
        BY <1>5, <1>7
      <4>2. QED  BY <4>1, ConcatProperties, Zenon
    <3>2. QED  BY <1>8, <3>1
  <2>2. Len(s) \in Nat /\ Len(novas) \in Nat
    BY <1>5, <1>7
  <2>3. ASSUME NEW n \in 1..Len(s)  PROVE t[n] = s[n]
    <3>1. n \in 1..(Len(s) + Len(novas)) /\ n <= Len(s)
      BY <2>2
    <3>2. QED  BY <2>1, <3>1
  <2>4. ASSUME NEW n \in 1..Len(novas)  PROVE t[Len(s) + n] = novas[n]
    <3>1. /\ Len(s) + n \in 1..(Len(s) + Len(novas)) /\ ~(Len(s) + n <= Len(s))
          /\ (Len(s) + n) - Len(s) = n
      BY <2>2
    <3>2. QED  BY <2>1, <3>1
  <2>5. DOMAIN t = 1..Len(t)
    BY <2>1
  <2> HIDE DEF t
  <2>6. QED  BY <2>1, <2>3, <2>4, <2>5
<1>10. \A n \in (Len(s) + 1)..Len(t) : t[n].fatura = F + 1 /\ t[n].dia = D
  <2>1. ASSUME NEW n \in (Len(s) + 1)..Len(t)  PROVE t[n].fatura = F + 1 /\ t[n].dia = D
    <3>1. n - Len(s) \in 1..Len(novas) /\ n = Len(s) + (n - Len(s))
      BY <1>5, <1>7, <1>9
    <3>2. t[n] = novas[n - Len(s)]
      BY <1>9, <3>1
    <3>3. QED  BY <1>7, <3>1, <3>2
  <2>2. QED  BY <2>1
<1> HIDE DEF t
<1>11. \A n \in 1..Len(t) : n \in 1..Len(s) \/ n \in (Len(s) + 1)..Len(t)
  BY <1>5, <1>7, <1>9
<1>12. \A k \in 1..Len(s) : s[k].fatura \in 1..F
  BY <1>1, <1>5
<1>13. Continua(s, t)
  BY <1>5, <1>7, <1>9, <1>10, <1>12 DEF Continua
<1>14. EmOrdem(t)
  <2>1. ASSUME NEW m \in 1..Len(t), NEW n \in 1..Len(t), m <= n  PROVE t[m].dia <= t[n].dia
    <3>1. CASE n \in 1..Len(s)
      <4>1. m \in 1..Len(s)
        BY <2>1, <3>1
      <4>2. QED  BY <1>5, <1>9, <2>1, <3>1, <4>1 DEF EmOrdem
    <3>2. CASE n \in (Len(s) + 1)..Len(t)
      <4>1. t[n].dia = D
        BY <1>10, <3>2
      <4>2. t[m].dia <= D
        BY <1>6, <1>9, <1>10, <1>11
      <4>3. QED  BY <4>1, <4>2
    <3>3. QED  BY <1>11, <3>1, <3>2
  <2>2. QED  BY <2>1 DEF EmOrdem
<1>15. Numeradas(t)
  <2>1. CASE Len(novas) = 0
    <3>1. DOMAIN t = DOMAIN s /\ \A n \in DOMAIN s : t[n] = s[n]
      BY <1>5, <1>9, <2>1
    <3>2. {t[n].fatura : n \in DOMAIN t} = 1..F
      BY <1>1, <3>1
    <3>3. QED  BY <3>2 DEF Numeradas
  <2>2. CASE Len(novas) # 0
    <3>1. Len(t) \in (Len(s) + 1)..Len(t) /\ Len(t) \in DOMAIN t /\ F + 1 \in Nat
      BY <1>5, <1>7, <1>9, <2>2
    <3>2. \A n \in DOMAIN t : t[n].fatura \in 1..(F + 1)
      BY <1>9, <1>10, <1>11, <1>12
    <3>3. ASSUME NEW k \in 1..F  PROVE \E n \in DOMAIN t : t[n].fatura = k
      <4>1. PICK n \in DOMAIN s : s[n].fatura = k
        BY <1>1
      <4>2. n \in DOMAIN t /\ t[n] = s[n]
        BY <1>5, <1>7, <1>9
      <4>3. QED  BY <4>1, <4>2
    <3>4. t[Len(t)].fatura = F + 1
      BY <1>10, <3>1
    <3>5. \A k \in 1..(F + 1) : k \in 1..F \/ k = F + 1
      OBVIOUS
    <3>6. {t[n].fatura : n \in DOMAIN t} = 1..(F + 1)
      BY <3>1, <3>2, <3>3, <3>4, <3>5
    <3>7. QED  BY <3>1, <3>6 DEF Numeradas
  <2>3. QED  BY <2>1, <2>2
<1>16. QED  BY <1>9, <1>13, <1>14, <1>15 DEF VendasInv, t

\* What Base 2 says of a customer never changes with a later invoice (df_first and base2 of the
\* notebook).
THEOREM PrimeiraCompraFixa == Spec => D0Imutavel
<1>1. Init => VendasInv
  <2> SUFFICES ASSUME Init  PROVE VendasInv
    OBVIOUS
  <2>1. vendas = <<>> /\ 0 \in Nat /\ 1..0 = {}
    BY DEF Init
  <2>2. DOMAIN vendas = {} /\ Len(vendas) = 0 /\ vendas \in Seq(Venda)
    BY <2>1
  <2>3. {vendas[n].fatura : n \in DOMAIN vendas} = 1..0
    BY <2>1, <2>2
  <2>4. QED  BY <2>1, <2>2, <2>3 DEF VendasInv, EmOrdem, Numeradas
<1>2. [Next]_varsMotorEDados => Faturar \/ UNCHANGED vendas
  <2> SUFFICES ASSUME [Next]_varsMotorEDados, ~Faturar  PROVE UNCHANGED vendas
    OBVIOUS
  <2>1. CASE UNCHANGED varsMotorEDados \/ Semente
    BY <2>1 DEF Semente, varsMotorEDados, varsMotor, varsCaderno
  <2>2. CASE Celulas
    BY <2>2 DEF Celulas, NextCaderno, Setup, Carregar, Limpeza, rfm_log, Escala, PrimeiraCompra, Preparar,
                Base1, KMeans, DBSCAN, Ward, Escolha, Resumir, Nomear, Base2, features_in, Dividir,
                Validacao, Treinar, Escolher, Exportar, Gerar, Celula
  <2>3. CASE Motor
    BY <2>3 DEF Motor, NextModelos, varsCaderno, Publicar, Construir, load_model, Reiniciar, train,
                ReceberPredict, post_predict
  <2>4. QED  BY <2>1, <2>2, <2>3 DEF Next, Vendas
<1>3. VendasInv /\ [Next]_varsMotorEDados => VendasInv'
  BY <1>2, FaturarContinua DEF VendasInv, EmOrdem, Numeradas
<1>4. VendasInv /\ [Next]_varsMotorEDados =>
        [\A c \in Clientes(vendas) : base2(vendas')[c] = base2(vendas)[c]]_vendas
  <2> SUFFICES ASSUME VendasInv, Faturar, NEW c \in Clientes(vendas)
               PROVE  base2(vendas')[c] = base2(vendas)[c]
    BY <1>2
  <2>1. VendasInv' /\ Continua(vendas, vendas')
    BY FaturarContinua
  <2>2. vendas \in Seq(Venda) /\ vendas' \in Seq(Venda) /\ EmOrdem(vendas')
    BY <2>1 DEF VendasInv
  <2>3. QED  BY <2>1, <2>2, Base2Estavel
<1>5. QED  BY <1>1, <1>3, <1>4, PTL DEF Spec, D0Imutavel

-----------------------------------------------------------------------------
(* The seed of the Core *)

\* Every step-th position of a list of K, cut at n: as many as the smaller of the two, inside
\* the list and each once.
LEMMA Passadas ==
  ASSUME NEW K \in Nat, NEW n \in Nat, n > 0, NEW step, step = step_de(K, n)
  PROVE  /\ step \in Nat
         /\ Menor(n, Passos(K, step)) = Menor(n, K)
         /\ \A k \in 1..Menor(n, K) : (k - 1) * step + 1 \in 1..K
         /\ \A j, k \in 1..Menor(n, K) : (j - 1) * step + 1 = (k - 1) * step + 1 => j = k
<1>1. CASE K < n
  <2>1. step = 1
    <3>1. K \div n = 0
      BY <1>1
    <3>2. QED  BY <3>1 DEF step_de, Maior
  <2>2. Passos(K, step) = K
    <3>1. (K + 1 - 1) \div 1 = K
      OBVIOUS
    <3>2. QED  BY <2>1, <3>1 DEF Passos
  <2>3. Menor(n, K) = K /\ Menor(n, Passos(K, step)) = K
    BY <1>1, <2>2 DEF Menor
  <2>4. QED  BY <2>1, <2>3
<1>2. CASE n <= K
  <2> DEFINE q == K \div n
  <2>1. q \in Nat /\ 1 <= q
    BY <1>2
  <2>2. n * q <= K
    OBVIOUS
  <2> HIDE DEF q
  <2>3. step = q
    BY <2>1 DEF step_de, Maior, q
  <2>4. n <= Passos(K, step)
    <3>1. n * q <= K + q - 1 /\ K + q - 1 \in Nat
      BY <2>1, <2>2
    <3>2. n <= (K + q - 1) \div q
      BY <2>1, <3>1
    <3>3. QED  BY <2>3, <3>2 DEF Passos
  <2>5. Passos(K, step) \in Int
    BY <2>1, <2>3 DEF Passos
  <2>6. Menor(n, K) = n /\ Menor(n, Passos(K, step)) = n
    BY <1>2, <2>4, <2>5 DEF Menor
  <2>7. ASSUME NEW k \in 1..n  PROVE (k - 1) * q + 1 \in 1..K
    <3>1. k - 1 \in Nat /\ n - 1 \in Nat /\ k - 1 <= n - 1
      OBVIOUS
    <3>2. (k - 1) * q <= (n - 1) * q /\ (k - 1) * q \in Nat
      BY <2>1, <3>1
    <3>3. (n - 1) * q + q = n * q /\ (n - 1) * q \in Nat /\ n * q \in Nat
      BY <2>1, <3>1
    <3>4. QED  BY <2>1, <2>2, <3>2, <3>3
  <2>8. ASSUME NEW j \in 1..n, NEW k \in 1..n, j < k  PROVE (j - 1) * q < (k - 1) * q
    <3>1. j - 1 \in Nat /\ k - 1 \in Nat /\ j - 1 < k - 1
      BY <2>8
    <3>2. QED  BY <2>1, <3>1
  <2>9. ASSUME NEW j \in 1..n, NEW k \in 1..n, (j - 1) * q + 1 = (k - 1) * q + 1  PROVE j = k
    <3>1. (j - 1) * q \in Int /\ (k - 1) * q \in Int
      BY <2>1
    <3>2. ~(j < k) /\ ~(k < j)
      BY <2>8, <2>9, <3>1
    <3>3. QED  BY <3>2
  <2>10. QED  BY <2>1, <2>3, <2>6, <2>7, <2>9
<1>3. QED  BY <1>1, <1>2

\* The k-th vehicle in the order of the hashes: each has a place of its own.
LEMMA ListaDosVistos ==
  ASSUME NEW V \in SUBSET Nat, IsFiniteSet(V)
  PROVE  /\ vin_list(V) \in [1..Cardinality(V) -> V]
         /\ \A j, k \in 1..Cardinality(V) : vin_list(V)[j] = vin_list(V)[k] => j = k
<1> DEFINE K == Cardinality(V)
           Ate(h) == {x \in V : x <= h}
           posto == [h \in V |-> Cardinality(Ate(h))]
<1>1. K \in Nat
  BY FS_CardinalityType
<1>2. ASSUME NEW h \in V
      PROVE  IsFiniteSet(Ate(h)) /\ Cardinality(Ate(h)) \in 1..K
  <2>1. Ate(h) \in SUBSET V /\ h \in Ate(h)
    OBVIOUS
  <2>2. IsFiniteSet(Ate(h)) /\ Cardinality(Ate(h)) <= K
    BY <2>1, FS_Subset
  <2>3. Cardinality(Ate(h)) \in Nat /\ Cardinality(Ate(h)) # 0
    BY <2>1, <2>2, FS_CardinalityType, FS_EmptySet
  <2>4. QED  BY <1>1, <2>2, <2>3
<1>3. ASSUME NEW h \in V, NEW g \in V, h < g
      PROVE  Cardinality(Ate(h)) # Cardinality(Ate(g))
  <2> h \in Nat /\ g \in Nat /\ \A x \in V : x \in Nat
    OBVIOUS
  <2>1. Ate(h) \in SUBSET Ate(g) /\ g \in Ate(g) /\ g \notin Ate(h)
    <3>1. g <= g /\ ~(g <= h)
      BY <1>3
    <3>2. \A x \in V : x <= h => x <= g
      BY <1>3
    <3>3. QED  BY <3>1, <3>2
  <2>2. IsFiniteSet(Ate(g)) /\ Ate(h) # Ate(g)
    BY <1>2, <2>1
  <2>3. QED  BY <2>1, <2>2, FS_Subset
<1> HIDE DEF Ate, K
<1>4. posto \in Injection(V, 1..K)
  <2>1. posto \in [V -> 1..K]
    BY <1>2
  <2>2. ASSUME NEW h \in V, NEW g \in V, posto[h] = posto[g]  PROVE h = g
    <3>1. Cardinality(Ate(h)) = Cardinality(Ate(g))
      BY <2>2
    <3>2. ~(h < g) /\ ~(g < h) /\ h \in Nat /\ g \in Nat
      BY <1>3, <3>1
    <3>3. QED  BY <3>2
  <2>3. QED  BY <2>1, <2>2 DEF Injection, IsInjective
<1>5. posto \in Surjection(V, 1..K)
  <2>1. IsFiniteSet(1..K) /\ Cardinality(1..K) = K
    BY <1>1, FS_Interval
  <2>2. QED  BY <1>4, <2>1, FS_Injection DEF K
<1>6. ASSUME NEW k \in 1..K  PROVE \E h \in V : Cardinality(Ate(h)) = k
  BY <1>5 DEF Surjection
<1>7. vin_list(V) = [k \in 1..K |-> CHOOSE h \in V : Cardinality(Ate(h)) = k]
  BY DEF vin_list, Ate, K
<1>8. ASSUME NEW k \in 1..K
      PROVE  vin_list(V)[k] \in V /\ Cardinality(Ate(vin_list(V)[k])) = k
  BY <1>6, <1>7
<1>9. QED  BY <1>7, <1>8 DEF K

\* The sample: the smaller of what was asked for and what was seen, all of it seen.
LEMMA TamanhoDaAmostra ==
  ASSUME NEW V \in SUBSET Nat, IsFiniteSet(V), NEW n \in Nat, n > 0,
         NEW A, A = ToSet(sampled(vin_list(V), n))
  PROVE  A \subseteq V /\ IsFiniteSet(A) /\ Cardinality(A) = Menor(n, Cardinality(V))
<1> DEFINE K == Cardinality(V)
           L == vin_list(V)
           step == step_de(K, n)
           M == Menor(n, K)
           f == [k \in 1..M |-> L[(k - 1) * step + 1]]
<1>1. K \in Nat
  BY FS_CardinalityType
<1>2. L \in [1..K -> V] /\ \A j, k \in 1..K : L[j] = L[k] => j = k
  BY ListaDosVistos
<1>3. Len(L) = K
  BY <1>1, <1>2, LenProperties, IsASeq
<1>4. /\ step \in Nat
      /\ Menor(n, Passos(K, step)) = M
      /\ \A k \in 1..M : (k - 1) * step + 1 \in 1..K
      /\ \A j, k \in 1..M : (j - 1) * step + 1 = (k - 1) * step + 1 => j = k
  BY <1>1, Passadas
<1>5. M \in Nat
  BY <1>1 DEF Menor
<1> HIDE DEF L, K, step, M
<1>6. sampled(L, n) = f
  BY <1>3, <1>4 DEF sampled, Fatia, step
<1>7. A = {f[k] : k \in 1..M}
  BY <1>6 DEF ToSet, L
<1>8. f \in [1..M -> A]
  BY <1>7
<1>9. ASSUME NEW j \in 1..M, NEW k \in 1..M, f[j] = f[k]  PROVE j = k
  BY <1>2, <1>4, <1>9
<1>10. A \subseteq V
  BY <1>2, <1>4, <1>7
<1> HIDE DEF f
<1>11. f \in Bijection(1..M, A)
  BY <1>7, <1>8, <1>9 DEF Bijection, Injection, Surjection, IsInjective
<1>12. Cardinality(A) = M
  BY <1>5, <1>11, FS_CountingElements DEF ExistsBijection
<1>13. IsFiniteSet(A)
  BY <1>10, FS_Subset
<1>14. QED  BY <1>10, <1>12, <1>13 DEF M, K

\* What the three INSERTs hold of a sample.
LEMMA OsTresInserts ==
  ASSUME NEW hs, IsFiniteSet(hs)
  PROVE  /\ Cardinality(clientes_rows(hs)) = Cardinality(hs)
         /\ {c.hash : c \in clientes_rows(hs)} = hs /\ {v.hash : v \in veiculos_rows(hs)} = hs
         /\ {l.hash : l \in leads_rows(clientes_rows(hs))} =
                {c.hash : c \in {c \in clientes_rows(hs) : c.perfil \in {"ABANDONO", "ESQUECIDO"}}}
<1> DEFINE C == clientes_rows(hs)
           linha(h) == [hash |-> h, cpf |-> CpfDe[h], perfil |-> Classe(h).perfil, score |-> Classe(h).score]
           g == [h \in hs |-> linha(h)]
<1>1. C = {linha(h) : h \in hs} /\ \A h \in hs : linha(h).hash = h
  BY DEF clientes_rows
<1> HIDE DEF linha, C
<1>2. g \in Bijection(hs, C)
  <2>1. g \in [hs -> C] /\ \A c \in C : \E h \in hs : g[h] = c
    BY <1>1
  <2>2. ASSUME NEW h \in hs, NEW k \in hs, g[h] = g[k]  PROVE h = k
    BY <1>1, <2>2
  <2> HIDE DEF g
  <2>3. QED  BY <2>1, <2>2 DEF Bijection, Injection, Surjection, IsInjective
<1>3. Cardinality(C) = Cardinality(hs)
  BY <1>2, FS_Bijection DEF ExistsBijection
<1>4. {c.hash : c \in C} = hs
  BY <1>1
<1>5. {v.hash : v \in veiculos_rows(hs)} = hs
  <2> DEFINE veiculo(h) == [hash |-> h, vin |-> VinDe[h], data |-> gerador.vistos[h].data,
                            dealer |-> gerador.vistos[h].dealer]
  <2>1. veiculos_rows(hs) = {veiculo(h) : h \in hs} /\ \A h \in hs : veiculo(h).hash = h
    BY DEF veiculos_rows
  <2> HIDE DEF veiculo
  <2>2. QED  BY <2>1
<1>6. {l.hash : l \in leads_rows(C)} = {c.hash : c \in {c \in C : c.perfil \in {"ABANDONO", "ESQUECIDO"}}}
  <2> DEFINE lead(c) == [hash |-> c.hash, score |-> c.score, prioridade |-> derivar_prioridade(c.score)]
             Risco   == {c \in C : c.perfil \in {"ABANDONO", "ESQUECIDO"}}
  <2>1. leads_rows(C) = {lead(c) : c \in Risco} /\ \A c \in Risco : lead(c).hash = c.hash
    BY DEF leads_rows, PERFIS_GERAM_LEAD
  <2> HIDE DEF lead, Risco
  <2>2. {l.hash : l \in leads_rows(C)} = {c.hash : c \in Risco}
    BY <2>1
  <2>3. QED  BY <2>2 DEF Risco
<1>7. QED  BY <1>3, <1>4, <1>5, <1>6 DEF C

GeradorInv ==
    /\ gerador = [fase |-> gerador.fase, n_samples |-> gerador.n_samples, lidas |-> gerador.lidas,
                  vistos |-> gerador.vistos]
    /\ gerador.n_samples \in Nat
    /\ gerador.vistos = [h \in Hashes |-> gerador.vistos[h]]
    /\ IsFiniteSet(Vistos(gerador.vistos))
    /\ gerador.fase = "escrito" => AmostraCerta(script, Vistos(gerador.vistos))

\* A version is the number of a file, and Flyway recorded one that was written.
FlywayInv ==
    /\ core = [fase |-> core.fase, aplicada |-> core.aplicada, tabelas |-> core.tabelas]
    /\ versoes \in Nat
    /\ script # Nenhum => versoes > 0
    /\ versoes > 0 => script.versao = versoes
    /\ core.aplicada # Nenhum =>
          /\ core.aplicada \in 1..versoes
          /\ Carrega(core.tabelas) /\ core.aplicada = core.tabelas.versao
    /\ core.fase = "no_ar" => core.aplicada # Nenhum
    /\ core.fase = "recusado" /\ core.aplicada # Nenhum => versoes > core.aplicada

\* A run of the generator writes what it sampled, however the rows came.
LEMMA GeradorStep == GeradorInv /\ [Next]_varsMotorEDados => GeradorInv'
<1> SUFFICES ASSUME GeradorInv, [Next]_varsMotorEDados
             PROVE  GeradorInv'
  OBVIOUS
<1> USE DEF GeradorInv
<1> DEFINE V == Vistos(gerador.vistos)
<1>1. CASE LerLinha
  <2>0. PICK linha \in Linhas : \E fase \in {"amostrar", "lendo"} :
          gerador' = [gerador EXCEPT !.fase = fase, !.lidas = @ + 1, !.vistos =
                        IF Entra(linha)
                        THEN [gerador.vistos EXCEPT ![linha.hash] =
                                [dealer |-> linha.dealer, data |-> parse_sales_date(linha.data)]]
                        ELSE gerador.vistos]
    BY <1>1 DEF LerLinha
  <2> DEFINE vistos == IF Entra(linha)
                       THEN [gerador.vistos EXCEPT ![linha.hash] =
                               [dealer |-> linha.dealer, data |-> parse_sales_date(linha.data)]]
                       ELSE gerador.vistos
  <2>1. PICK fase \in {"amostrar", "lendo"} :
          gerador' = [gerador EXCEPT !.fase = fase, !.lidas = @ + 1, !.vistos = vistos]
    BY <2>0
  <2>2. /\ gerador' = [fase |-> fase, n_samples |-> gerador.n_samples, lidas |-> gerador.lidas + 1,
                       vistos |-> vistos]
        /\ vistos = [h \in Hashes |-> vistos[h]]
    BY <2>1
  <2>3. Vistos(vistos) \subseteq V \cup {linha.hash}
    BY <2>1 DEF Vistos
  <2>4. IsFiniteSet(Vistos(vistos))
    BY <2>3, FS_AddElement, FS_Subset
  <2>5. QED  BY <2>1, <2>2, <2>4
<1>2. CASE FimDaPlanilha
  BY <1>2 DEF FimDaPlanilha
<1>3. CASE Escrever
  <2>1. CASE gerador' = [gerador EXCEPT !.fase = "erro"]
    BY <2>1
  <2>2. CASE gerador.n_samples # 0 /\ script' = Script(Amostra)
             /\ gerador' = [gerador EXCEPT !.fase = "escrito"]
    <3>1. V \in SUBSET Nat /\ IsFiniteSet(V) /\ gerador.n_samples > 0
      BY <2>2, ConstantesSemente DEF Vistos
    <3>2. Amostra = ToSet(sampled(vin_list(V), gerador.n_samples))
      BY DEF Amostra
    <3>3. Amostra \subseteq V /\ IsFiniteSet(Amostra)
          /\ Cardinality(Amostra) = Menor(gerador.n_samples, Cardinality(V))
      BY <3>1, <3>2, TamanhoDaAmostra
    <3> DEFINE s == Script(Amostra)
    <3>4. /\ s.clientes = clientes_rows(Amostra) /\ s.veiculos = veiculos_rows(Amostra)
          /\ s.leads = leads_rows(clientes_rows(Amostra))
      BY DEF Script
    <3> HIDE DEF s
    <3>5. AmostraCerta(s, V)
      <4>1. /\ Cardinality(s.clientes) = Cardinality(Amostra)
            /\ {c.hash : c \in s.clientes} = Amostra /\ {v.hash : v \in s.veiculos} = Amostra
            /\ {l.hash : l \in s.leads} =
                   {c.hash : c \in {c \in s.clientes : c.perfil \in {"ABANDONO", "ESQUECIDO"}}}
        BY <3>3, <3>4, OsTresInserts
      <4>2. QED  BY <3>3, <4>1 DEF AmostraCerta
    <3>6. gerador'.n_samples = gerador.n_samples /\ gerador'.vistos = gerador.vistos
          /\ Vistos(gerador.vistos)' = V /\ script' = s
      BY <2>2 DEF Vistos, s
    <3>7. AmostraCerta(script, Vistos(gerador.vistos))'
      BY <3>5, <3>6 DEF AmostraCerta
    <3>8. QED  BY <2>2, <3>6, <3>7
  <2>3. QED  BY <1>3, <2>1, <2>2 DEF Escrever
<1>4. CASE Regenerar
  <2>1. PICK n \in Amostras : gerador' = Comeco(n)
    BY <1>4 DEF Regenerar
  <2>2. /\ gerador' = [fase |-> "lendo", n_samples |-> n, lidas |-> 0, vistos |-> [h \in Hashes |-> Nenhum]]
        /\ n \in Nat
    BY <2>1, ConstantesSemente DEF Comeco
  <2>3. Vistos(gerador'.vistos) = {}
    BY <2>2 DEF Vistos
  <2>4. QED  BY <2>2, <2>3, FS_EmptySet
<1>5. CASE UNCHANGED <<gerador, script>>
  BY <1>5 DEF AmostraCerta, Vistos
<1>6. CASE Semente
  BY <1>1, <1>2, <1>3, <1>4, <1>5, <1>6 DEF Semente, NextSemente, SubirCore, PararCore
<1>7. QED
  BY <1>5, <1>6 DEF Next, Vendas, Celulas, Motor, varsMotorEDados, varsSemente

\* Flyway applies one file, and refuses only one written after it.
LEMMA FlywayStep == FlywayInv /\ [Next]_varsMotorEDados => FlywayInv'
<1> SUFFICES ASSUME FlywayInv, [Next]_varsMotorEDados
             PROVE  FlywayInv'
  OBVIOUS
<1> USE DEF FlywayInv
<1>1. CASE Escrever
  <2>1. CASE UNCHANGED <<script, versoes, core>>
    BY <2>1 DEF Carrega
  <2>2. CASE script' = Script(Amostra) /\ versoes' = versoes + 1 /\ UNCHANGED core
    <3>1. script'.versao = versoes' /\ versoes' \in Nat /\ versoes' > 0
      BY <2>2 DEF Script
    <3>2. Carrega(core.tabelas)' = Carrega(core.tabelas)
      BY <2>2 DEF Carrega
    <3>3. core.aplicada # Nenhum => core.aplicada \in 1..versoes' /\ versoes' > core.aplicada
      BY <2>2
    <3>4. QED  BY <2>2, <3>1, <3>2, <3>3
  <2>3. QED  BY <1>1, <2>1, <2>2 DEF Escrever
<1>2. CASE SubirCore
  <2>1. versoes > 0 /\ script.versao = versoes /\ UNCHANGED <<script, versoes>>
    BY <1>2 DEF SubirCore
  <2>2. CASE core.aplicada = Nenhum /\ Carrega(script)
    <3>1. core' = [fase |-> "no_ar", aplicada |-> script.versao, tabelas |-> script]
      BY <1>2, <2>2 DEF SubirCore
    <3>2. Carrega(core'.tabelas)
      BY <2>2, <3>1
    <3>3. script.versao # Nenhum /\ script.versao \in 1..versoes
      BY <2>1, ConstantesSemente
    <3>4. QED  BY <2>1, <3>1, <3>2, <3>3 DEF Carrega
  <2>3. CASE ~(core.aplicada = Nenhum /\ Carrega(script))
    <3>1. core' = [core EXCEPT !.fase = IF core.aplicada = script.versao THEN "no_ar" ELSE "recusado"]
      BY <1>2, <2>3 DEF SubirCore
    <3>2. core'.aplicada = core.aplicada /\ core'.tabelas = core.tabelas
          /\ core'.fase = IF core.aplicada = script.versao THEN "no_ar" ELSE "recusado"
      BY <3>1
    <3>3. script.versao # Nenhum
      BY <2>1, ConstantesSemente
    <3>4. QED  BY <2>1, <3>1, <3>2, <3>3 DEF Carrega
  <2>4. QED  BY <2>2, <2>3
<1>3. CASE PararCore
  BY <1>3 DEF PararCore, Carrega
<1>4. CASE UNCHANGED <<script, versoes, core>>
  BY <1>4 DEF Carrega
<1>5. CASE Semente
  BY <1>1, <1>2, <1>3, <1>4, <1>5 DEF Semente, NextSemente, LerLinha, FimDaPlanilha, Regenerar
<1>6. QED
  BY <1>4, <1>5 DEF Next, Vendas, Celulas, Motor, varsMotorEDados, varsSemente

\* A file build_seed.py wrote holds the sample whole, with its leads and no key twice, and the
\* Core comes up on all of one file or not at all (the V3 migration and Flyway's history).
THEOREM SementeInteira == Spec => []SementeCarrega
<1>1. Init => GeradorInv /\ FlywayInv
  <2> SUFFICES ASSUME Init  PROVE GeradorInv /\ FlywayInv
    OBVIOUS
  <2>1. PICK n \in Amostras : gerador = Comeco(n)
    BY DEF Init, InitSemente
  <2>2. /\ gerador = [fase |-> "lendo", n_samples |-> n, lidas |-> 0, vistos |-> [h \in Hashes |-> Nenhum]]
        /\ n \in Nat
    BY <2>1, ConstantesSemente DEF Comeco
  <2>3. Vistos(gerador.vistos) = {}
    BY <2>2 DEF Vistos
  <2>4. GeradorInv
    BY <2>2, <2>3, FS_EmptySet DEF GeradorInv
  <2>5. FlywayInv
    BY DEF Init, InitSemente, FlywayInv
  <2>6. QED  BY <2>4, <2>5
<1>2. GeradorInv /\ FlywayInv => SementeCarrega
  BY DEF GeradorInv, FlywayInv, SementeCarrega
<1>3. QED  BY GeradorStep, FlywayStep, <1>1, <1>2, PTL DEF Spec

=============================================================================
