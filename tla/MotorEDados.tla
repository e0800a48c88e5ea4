---------------------------- MODULE MotorEDados ----------------------------
(***************************************************************************)
(* What surrounds the services: the sales, the notebook over an extract of *)
(* them, the models published and served, and the seed of the Core.  The   *)
(* four run on different days and share no state: a behaviour follows one *)
(* of them, chosen when it starts.                                         *)
(***************************************************************************)
EXTENDS MotorPreditivo, SementeDemo

VARIABLE frente   \* "vendas", "caderno", "modelos" or "semente"

varsMotorEDados == <<varsMotor, varsSemente, frente>>

Init ==
    /\ frente \in {"vendas", "caderno", "modelos", "semente"}
    /\ InitMotor /\ InitSemente /\ rotulos \in Rotulacoes /\ kernel = KernelNovo /\ vendas = <<>>
    \* The model of the notebook the repository keeps, whose cells were run.
    /\ artefato = IF frente = "modelos" THEN Classificador("XGBoost", FEATURES_D0_PROXY) ELSE Nulo
    /\ frente # "semente" => gerador = Comeco(0)
    /\ frente # "caderno" => rotulos = CHOOSE r \in Rotulacoes : TRUE

Vendas  == frente = "vendas"  /\ Faturar     /\ UNCHANGED <<varsServico, varsSemente, frente>>
Celulas == frente = "caderno" /\ NextCaderno /\ UNCHANGED <<varsServico, varsSemente, frente>>
Motor   == frente = "modelos" /\ NextModelos /\ UNCHANGED <<varsSemente, frente>>
Semente == frente = "semente" /\ NextSemente /\ UNCHANGED <<varsMotor, frente>>

Next == Vendas \/ Celulas \/ Motor \/ Semente

Spec == Init /\ [][Next]_varsMotorEDados
=============================================================================
