--------------------------- MODULE MotorPreditivo ---------------------------
(***************************************************************************)
(* The predictive engine, from a file with a model to an answer of POST    *)
(* /predict.  The notebook exports a classifier (Caderno), train.py        *)
(* retrains on the Ford data, build_default_model.py stands in when there  *)
(* is no model, the image of ml-api carries one file, and ml-api checks it *)
(* when it starts.  A model is what its file shows: the features it names, *)
(* its classes, whether it gives probabilities, the labels it answers with.*)
(***************************************************************************)
EXTENDS Caderno

CONSTANTS
    Externos,         \* models brought from outside, as the Dockerfile invites to
    DatasetsFord,     \* [colunas, classes] spreadsheets; classes is Nulo without a Perfil column
    Pedidos,          \* requests POST /predict
    MaxPublicacoes    \* bound of the files put in place

VARIABLES
    treino,      \* [fase, dataset]: a run of train.py
    arquivo,     \* models/ml_model.pkl of the repository, or Nulo
    imagem,      \* the one inside the image, or Nulo before the first build
    publicacoes,
    api,         \* [fase, modelo]: the ml-api process
    pedidoML     \* [fase, resposta]: a request; resposta is [codigo, perfil, por], por the model that answered

varsServico == <<treino, arquivo, imagem, publicacoes, api, pedidoML>>
varsMotor   == <<varsCaderno, varsServico>>

D0 == {"regiao", "modelo", "ano", "valor_compra", "concessionaria_id"}
ALLOWED_PERFIS == {"FIEL", "ABANDONO", "ESQUECIDO", "ECONOMICO"}

ASSUME NuloNaoEPerfil == Nulo \notin ALLOWED_PERFIS

-----------------------------------------------------------------------------
(* train.py, on the Ford data *)

\* It ends the process whatever it is given.
_derive_perfil(d) == "SystemExit"

\* The default of df.get is an argument: it is computed whether or not there is a Perfil column.
load_ford_dataset(d) ==
    CASE ~d.colunas                          -> "ValueError"
      [] _derive_perfil(d) = "SystemExit"    -> "SystemExit"
      [] OTHER                               -> "ok"

ModeloFord(d) ==
    [origem |-> "ford", expoe |-> TRUE, features |-> D0, classes |-> d.classes,
     proba |-> TRUE, emite |-> d.classes]

train(d) ==
    /\ treino.fase = "novo"
    /\ IF load_ford_dataset(d) = "ok"
       THEN arquivo' = ModeloFord(d) /\ treino' = [fase |-> "gravado", dataset |-> d]
       ELSE UNCHANGED arquivo /\ treino' = [fase |-> "erro", dataset |-> d]
    /\ UNCHANGED <<varsCaderno, imagem, publicacoes, api, pedidoML>>

-----------------------------------------------------------------------------
(* The file, the image and the process *)

\* Somebody puts the notebook's model, or another, where the build looks for it.
Publicar ==
    /\ publicacoes < MaxPublicacoes
    /\ \E m \in (Externos \cup {artefato}) \ {Nulo} : arquivo' = m
    /\ publicacoes' = publicacoes + 1
    /\ UNCHANGED <<varsCaderno, treino, imagem, api, pedidoML>>

build_default_model ==
    [origem |-> "default", expoe |-> TRUE, features |-> D0, classes |-> ALLOWED_PERFIS,
     proba |-> TRUE, emite |-> ALLOWED_PERFIS]

\* docker build: COPY models/, or generate the default.  Replaces the container.
Construir ==
    /\ imagem' = IF arquivo = Nulo THEN build_default_model ELSE arquivo
    /\ imagem' # imagem
    /\ api' = [fase |-> "parada", modelo |-> Nulo]
    /\ pedidoML' = [r \in Pedidos |-> IF pedidoML[r].fase = "predict"
                                      THEN [fase |-> "fim", resposta |-> Nulo] ELSE pedidoML[r]]
    /\ UNCHANGED <<varsCaderno, treino, arquivo, publicacoes>>

BANNED == {"recency", "frequency", "monetary", "tenure", "r_score", "f_score", "m_score"}
_check_anti_leakage(features) == features \cap BANNED = {}

_validate_classes(classes) == classes \subseteq ALLOWED_PERFIS

\* A model that exposes no feature names, leaks or leaves the contract stops the process.
load_model ==
    /\ api.fase = "parada" /\ imagem # Nulo
    /\ api' = IF imagem.expoe /\ _check_anti_leakage(imagem.features) /\ _validate_classes(imagem.classes)
              THEN [fase |-> "no_ar", modelo |-> imagem]
              ELSE [fase |-> "morta", modelo |-> Nulo]
    /\ UNCHANGED <<varsCaderno, treino, arquivo, imagem, publicacoes, pedidoML>>

\* restart: unless-stopped, or the restart of the retraining script: the image is the same.
Reiniciar ==
    /\ api.fase \in {"no_ar", "morta"}
    /\ api' = [fase |-> "parada", modelo |-> Nulo]
    /\ pedidoML' = [r \in Pedidos |-> IF pedidoML[r].fase = "predict"
                                      THEN [fase |-> "fim", resposta |-> Nulo] ELSE pedidoML[r]]
    /\ UNCHANGED <<varsCaderno, treino, arquivo, imagem, publicacoes>>

ReceberPredict(r) ==
    /\ api.fase = "no_ar" /\ pedidoML[r].fase = "novo"
    /\ \E valido \in BOOLEAN :
          pedidoML' = [pedidoML EXCEPT ![r] = IF valido
                          THEN [fase |-> "predict", resposta |-> Nulo]
                          ELSE [fase |-> "fim", resposta |-> [codigo |-> 422, perfil |-> Nulo, por |-> Nulo]]]
    /\ UNCHANGED <<varsCaderno, treino, arquivo, imagem, publicacoes, api>>

\* What predict may return: a perfil, or Nulo for an exception.
predict(m) ==
    IF ~(m.features \subseteq D0) THEN {Nulo}             \* to_features_frame
    ELSE IF ~m.proba THEN m.emite                         \* predict alone: any label it emits
    ELSE IF m.classes = {} THEN {Nulo}                    \* classes[argmax] of nothing
    ELSE m.classes

PredictResponse(perfil) == IF perfil \in ALLOWED_PERFIS THEN 200 ELSE 500

post_predict(r) ==
    /\ pedidoML[r].fase = "predict"
    /\ \E perfil \in predict(api.modelo) :
          pedidoML' = [pedidoML EXCEPT ![r] =
              [fase |-> "fim",
               resposta |-> IF PredictResponse(perfil) = 200
                            THEN [codigo |-> 200, perfil |-> perfil, por |-> api.modelo]
                            ELSE [codigo |-> 500, perfil |-> Nulo, por |-> Nulo]]]
    /\ UNCHANGED <<varsCaderno, treino, arquivo, imagem, publicacoes, api>>

InitMotor ==
    /\ treino = [fase |-> "novo", dataset |-> Nulo]
    /\ arquivo = Nulo /\ imagem = Nulo /\ publicacoes = 0
    /\ api = [fase |-> "parada", modelo |-> Nulo]
    /\ pedidoML = [r \in Pedidos |-> [fase |-> "novo", resposta |-> Nulo]]

NextModelos ==
    \/ Publicar \/ Construir \/ load_model \/ Reiniciar
    \/ \E d \in DatasetsFord : train(d)
    \/ \E r \in Pedidos : ReceberPredict(r) \/ post_predict(r)

-----------------------------------------------------------------------------
(* Properties *)

\* Whatever file the build, the notebook, train.py or a person puts in the image, a process that
\* is up serves a model whose features are known and not post-sale and whose classes are perfis;
\* and every 200 that ever left carries one of the four perfis and comes from features a
\* purchase has at D0 (predictor.load_model, predict; main.post_predict).  The four clusters of the
\* notebook get the four personas, whatever K-Means numbered them (map_clusters_to_personas), and
\* in whatever order the cells were run, the check of the features included or left out, the
\* exported model knows the first purchase only.
SoContrato ==
    /\ kernel.personas # Nulo => {kernel.personas[i] : i \in Clusters} = Personas
    /\ {kernel.auditadas, kernel.X} \subseteq {Nulo, FEATURES_D0_PROXY}
    /\ artefato # Nulo => artefato.features = FEATURES_D0_PROXY
    /\ api.fase = "no_ar" =>
          /\ api.modelo.expoe /\ api.modelo.features \cap BANNED = {}
          /\ api.modelo.classes \subseteq ALLOWED_PERFIS
    /\ \A r \in Pedidos : pedidoML[r].resposta # Nulo /\ pedidoML[r].resposta.codigo = 200 =>
          /\ pedidoML[r].resposta.perfil \in ALLOWED_PERFIS
          /\ pedidoML[r].resposta.por.features \subseteq D0

\* What the documentation of train.py says of a labelled dataset with the expected columns:
\* the run writes the model and does not stop (train.py:5, scripts/retrain-with-ford-data.sh:14).
TreinoFordGrava ==
    treino.fase = "erro" => ~treino.dataset.colunas \/ treino.dataset.classes = Nulo
=============================================================================
