--------------------------- MODULE RegistroCompras ---------------------------
(***************************************************************************)
(* What the Core promises to its callers, with every operation atomic: a   *)
(* purchase (POST /v1/clientes) is either registered as a whole - cliente, *)
(* veiculo and, for a risk profile, an open lead - or refused with nothing *)
(* left behind; a lead keeps the profile it was created for and only its   *)
(* status moves (PATCH /v1/leads/{id}).                                    *)
(*                                                                         *)
(* CoreDomain implements this registry with transactions that read, wait   *)
(* for the classifier, audit and commit; EdgeProxy uses it as its Core.    *)
(***************************************************************************)
CONSTANTS Compras,    \* the purchase requests; a cliente is named by the request that creates it
          Cpfs, Vins, \* the natural keys that must stay unique
          Nulo        \* "no row yet" and "no answer yet"

Perfis     == {"FIEL", "ABANDONO", "ESQUECIDO", "ECONOMICO"}
StatusLead == {"ABERTO", "AGENDADO", "RECUSADO", "SEM_CONTATO"}

VARIABLES vendas,    \* vendas[c]: what purchase c registered, or Nulo
          lead,      \* lead[c]: the status of the lead of purchase c, or Nulo
          respostas  \* respostas[c]: the HTTP status purchase c was answered with, or Nulo

vars == <<vendas, lead, respostas>>

Venda == [cpf : Cpfs, vin : Vins, perfil : Perfis]

Registradas == {c \in Compras : vendas[c] # Nulo}

Conflita(cpf, vin) ==
    \E c \in Registradas : vendas[c].cpf = cpf \/ vendas[c].vin = vin

GeraLead(perfil) == perfil \in {"ABANDONO", "ESQUECIDO"}

Init ==
    /\ vendas = [c \in Compras |-> Nulo]
    /\ lead = [c \in Compras |-> Nulo]
    /\ respostas = [c \in Compras |-> Nulo]

\* 201: nobody holds the CPF or the VIN; cliente, veiculo and lead appear at once.
Registrar(c) ==
    /\ respostas[c] = Nulo
    /\ \E v \in Venda :
          /\ ~ Conflita(v.cpf, v.vin)
          /\ vendas' = [vendas EXCEPT ![c] = v]
          /\ lead' = [lead EXCEPT ![c] = IF GeraLead(v.perfil) THEN "ABERTO" ELSE Nulo]
    /\ respostas' = [respostas EXCEPT ![c] = 201]

\* 409: some registered purchase holds the CPF or the VIN.
Recusar(c) ==
    /\ respostas[c] = Nulo
    /\ \E cpf \in Cpfs, vin \in Vins : Conflita(cpf, vin)
    /\ respostas' = [respostas EXCEPT ![c] = 409]
    /\ UNCHANGED <<vendas, lead>>

\* 500: an internal error; nothing is registered.
Falhar(c) ==
    /\ respostas[c] = Nulo
    /\ respostas' = [respostas EXCEPT ![c] = 500]
    /\ UNCHANGED <<vendas, lead>>

MudarStatus(c) ==
    /\ lead[c] # Nulo
    /\ \E s \in StatusLead : lead' = [lead EXCEPT ![c] = s]
    /\ UNCHANGED <<vendas, respostas>>

Next == \E c \in Compras : Registrar(c) \/ Recusar(c) \/ Falhar(c) \/ MudarStatus(c)

Spec == Init /\ [][Next]_vars
=============================================================================
