------------------------------- MODULE EdgeProxy -------------------------------
(***************************************************************************)
(* The Gateway in front of the Core (services/gateway with CORE_API_URL):  *)
(* POST /v1/clientes and PATCH /v1/leads/{id} are forwarded by             *)
(* CoreClient.forward, which gives up after core_timeout_seconds while the *)
(* Core may still be working; a success is audited once more at the edge,  *)
(* in the Gateway's own database, and only then passed on.  The Core is    *)
(* the atomic registry RegistroCompras, which CoreDomain implements.       *)
(*                                                                         *)
(* A Core that is suspended, down or slow, and a call or an answer lost on *)
(* the way, all look the same from here: a call that is not answered.      *)
(* Each login and the boot start the single-flight warm_up_core.           *)
(* Callers may send the same purchase again at any time: nothing tells a   *)
(* retry from a new purchase but its CPF and VIN.                          *)
(***************************************************************************)
EXTENDS Integers, FiniteSets

CONSTANTS Compras, Patches, \* the requests the Gateway receives
          Aquecimentos,     \* the calls to warm_up_core
          Cpfs, Vins,
          Classificacoes,   \* the perfis the Core may give to a purchase
          StatusPedidos,    \* the statuses the patches ask for
          MaxReinicios,     \* bound: restarts of the Gateway
          Nulo

ASSUME RequisicoesDistintas == Compras \cap Patches = {}
ASSUME LimiteNatural == MaxReinicios \in Nat

Requisicoes == Compras \cup Patches

VARIABLES
    vendas, lead, respostas, \* the Core: its registry and what it answered to each purchase
    chamada,         \* the call to the Core made for each request
    upstream,        \* the HTTP status the Core gave that call
    pedido, pc, resposta,
    audit_logs,      \* audit_logs of the Gateway: [action, req]
    warmup_running,  \* the flag _warmup_running
    aquecimento,     \* where each call to warm_up_core, and the thread it starts, is
    reinicios

registro == <<vendas, lead, respostas>>
edge     == <<pedido, pc, resposta, audit_logs>>
warmup   == <<warmup_running, aquecimento>>
vars     == <<registro, chamada, upstream, edge, warmup, reinicios>>

Core == INSTANCE RegistroCompras

Pedidos == [cpf : Cpfs, vin : Vins] \cup [lead : Compras, status : StatusPedidos]

ASSUME NuloDistinto ==
    Nulo \notin Core!Venda \cup Core!StatusLead \cup Pedidos \cup {200, 201, 401, 404, 409, 500, 502, 503, 599}

Evento(acao, r) == [action |-> acao, req |-> r]

\* What nginx answers when the Gateway dies under a request.
PERDIDA == 599

Responder(r, codigo) ==
    /\ pc' = [pc EXCEPT ![r] = "respondida"]
    /\ resposta' = [resposta EXCEPT ![r] = codigo]

-----------------------------------------------------------------------------
(* The handlers criar_cliente and atualizar, up to the call *)

\* HMAC, token, role and schema are checked before; nothing is kept of a refusal here.
\* The call leaves, or the connection fails (httpx.HTTPError, connect=2.0).
Encaminhar(r) ==
    /\ pc[r] = "nova"
    /\ IF r \in Compras
       THEN \E cpf \in Cpfs, vin \in Vins : pedido' = [pedido EXCEPT ![r] = [cpf |-> cpf, vin |-> vin]]
       ELSE \E c \in Compras, s \in StatusPedidos :
               pedido' = [pedido EXCEPT ![r] = [lead |-> c, status |-> s]]
    /\ \/ /\ pc' = [pc EXCEPT ![r] = "aguardando"]
          /\ chamada' = [chamada EXCEPT ![r] = "enviada"]
          /\ UNCHANGED resposta
       \/ Responder(r, 503) /\ UNCHANGED chamada
    /\ UNCHANGED <<registro, upstream, audit_logs, warmup, reinicios>>

\* Mutant of CoreIndisponivel: the timeout is not caught and ends in handle_unexpected.
CoreIndisponivel_SemExcept(r) ==
    /\ pc[r] = "aguardando"
    /\ Responder(r, 500)
    /\ UNCHANGED <<registro, chamada, upstream, pedido, audit_logs, warmup, reinicios>>

\* httpx.HTTPError: no answer in time - not even one that is on its way.  What was sent
\* stays sent.
CoreIndisponivel(r) ==
    /\ pc[r] = "aguardando"
    /\ Responder(r, 503)
    /\ UNCHANGED <<registro, chamada, upstream, pedido, audit_logs, warmup, reinicios>>

-----------------------------------------------------------------------------
(* The Core, at its own pace *)

Atendida(r, codigo) ==
    /\ chamada[r] = "enviada"
    /\ chamada' = [chamada EXCEPT ![r] = "atendida"]
    /\ upstream' = [upstream EXCEPT ![r] = codigo]
    /\ UNCHANGED <<edge, warmup, reinicios>>

\* Mutant of CoreAtendeCompra: the Core neither looks for the CPF and the VIN nor has the
\* unique indexes.
CoreAtendeCompra_SemChaves(c) ==
    /\ Atendida(c, 201)
    /\ vendas' = [vendas EXCEPT ![c] = [cpf |-> pedido[c].cpf, vin |-> pedido[c].vin, perfil |-> "FIEL"]]
    /\ respostas' = [respostas EXCEPT ![c] = 201]
    /\ UNCHANGED lead

CoreAtendeCompra(c) ==
    \/ /\ Atendida(c, 201)
       /\ Core!Registrar(c)
       /\ vendas'[c].cpf = pedido[c].cpf /\ vendas'[c].vin = pedido[c].vin
       /\ vendas'[c].perfil \in Classificacoes
    \/ /\ Atendida(c, 409)
       /\ Core!Conflita(pedido[c].cpf, pedido[c].vin)
       /\ Core!Recusar(c)
    \/ Atendida(c, 500) /\ Core!Falhar(c)

CoreAtendePatch(p) ==
    LET l == pedido[p].lead IN
    \/ /\ Atendida(p, 200)
       /\ Core!MudarStatus(l)
       /\ lead'[l] = pedido[p].status
    \/ Atendida(p, 404) /\ lead[l] = Nulo /\ UNCHANGED registro
    \/ Atendida(p, 500) /\ UNCHANGED registro

\* JwtAuthFilter refuses the internal token: the secrets or the clocks disagree.
CoreRecusaToken(r) ==
    /\ Atendida(r, 401)
    /\ UNCHANGED registro

-----------------------------------------------------------------------------
(* The handlers, once the Core has answered *)

Sucesso(r) == IF r \in Compras THEN 201 ELSE 200

\* Mutant of ReceberDoCore: whatever is not an error of the network is audited.
ReceberDoCore_SemStatus(r) ==
    /\ pc[r] = "aguardando" /\ chamada[r] = "atendida"
    /\ pc' = [pc EXCEPT ![r] = "auditar"]
    /\ UNCHANGED <<registro, chamada, upstream, pedido, resposta, audit_logs, warmup, reinicios>>

\* Mutant of ReceberDoCore: the 401 of the Core is passed on.
ReceberDoCore_Repassa401(r) ==
    /\ pc[r] = "aguardando" /\ chamada[r] = "atendida"
    /\ IF upstream[r] = Sucesso(r)
       THEN pc' = [pc EXCEPT ![r] = "auditar"] /\ UNCHANGED resposta
       ELSE Responder(r, upstream[r])
    /\ UNCHANGED <<registro, chamada, upstream, pedido, audit_logs, warmup, reinicios>>

\* 401 becomes 502 CORE_AUTH_MISMATCH, a success goes on to be audited, the rest is
\* passed on as it came.
ReceberDoCore(r) ==
    /\ pc[r] = "aguardando" /\ chamada[r] = "atendida"
    /\ IF upstream[r] = Sucesso(r)
       THEN pc' = [pc EXCEPT ![r] = "auditar"] /\ UNCHANGED resposta
       ELSE Responder(r, IF upstream[r] = 401 THEN 502 ELSE upstream[r])
    /\ UNCHANGED <<registro, chamada, upstream, pedido, audit_logs, warmup, reinicios>>

EventosDe(r) ==
    IF r \in Patches THEN {Evento("LEAD_PATCHED", r)}
    ELSE {Evento("CLIENTE_CREATED", r)}
            \cup (IF vendas[r] # Nulo /\ Core!GeraLead(vendas[r].perfil)
                  THEN {Evento("LEAD_CREATED", r)} ELSE {})

\* Mutant of AuditarNaBorda: the failure to commit is swallowed.
AuditarNaBorda_EngoleErro(r) ==
    /\ pc[r] = "auditar"
    /\ \/ audit_logs' = audit_logs \cup EventosDe(r)
       \/ UNCHANGED audit_logs
    /\ Responder(r, upstream[r])
    /\ UNCHANGED <<registro, chamada, upstream, pedido, warmup, reinicios>>

\* _audit_created and commit, which may fail: handle_db answers 500, and the Core keeps
\* what it did.
AuditarNaBorda(r) ==
    /\ pc[r] = "auditar"
    /\ \/ audit_logs' = audit_logs \cup EventosDe(r) /\ Responder(r, upstream[r])
       \/ Responder(r, 500) /\ UNCHANGED audit_logs
    /\ UNCHANGED <<registro, chamada, upstream, pedido, warmup, reinicios>>

-----------------------------------------------------------------------------
(* warm_up_core *)

FaseDe(w, fase) == aquecimento' = [aquecimento EXCEPT ![w] = fase]

\* Mutant of MarcarAquecimento: the flag is set outside the lock, only when the thread starts.
MarcarAquecimento_SemMarcar(w) ==
    /\ aquecimento[w] = "novo"
    /\ FaseDe(w, IF warmup_running THEN "fim" ELSE "iniciar")
    /\ UNCHANGED <<warmup_running, registro, chamada, upstream, edge, reinicios>>

\* Test and set of the flag, under _warmup_lock.
MarcarAquecimento(w) ==
    /\ aquecimento[w] = "novo"
    /\ FaseDe(w, IF warmup_running THEN "fim" ELSE "iniciar")
    /\ warmup_running' = TRUE
    /\ UNCHANGED <<registro, chamada, upstream, edge, reinicios>>

\* Mutant of IniciarThread: the failure to start is only logged.
IniciarThread_SemLiberar(w) ==
    /\ aquecimento[w] = "iniciar"
    /\ FaseDe(w, "rodando") \/ FaseDe(w, "fim")
    /\ UNCHANGED <<warmup_running, registro, chamada, upstream, edge, reinicios>>

IniciarThread(w) ==
    /\ aquecimento[w] = "iniciar"
    /\ \/ FaseDe(w, "rodando") /\ UNCHANGED warmup_running
       \/ FaseDe(w, "fim") /\ warmup_running' = FALSE
    /\ UNCHANGED <<registro, chamada, upstream, edge, reinicios>>

\* GET /health is answered, fails or runs out of core_warmup_seconds; finally, the flag.
TerminarAquecimento(w) ==
    /\ aquecimento[w] = "rodando"
    /\ FaseDe(w, "fim")
    /\ warmup_running' = FALSE
    /\ UNCHANGED <<registro, chamada, upstream, edge, reinicios>>

-----------------------------------------------------------------------------
\* The Gateway dies and comes back; the Core goes on with what it was sent.
Reiniciar ==
    LET vivas == {r \in Requisicoes : pc[r] \in {"aguardando", "auditar"}} IN
    /\ reinicios < MaxReinicios
    /\ reinicios' = reinicios + 1
    /\ pc' = [r \in Requisicoes |-> IF r \in vivas THEN "respondida" ELSE pc[r]]
    /\ resposta' = [r \in Requisicoes |-> IF r \in vivas THEN PERDIDA ELSE resposta[r]]
    /\ warmup_running' = FALSE
    /\ aquecimento' = [w \in Aquecimentos |->
                          IF aquecimento[w] \in {"iniciar", "rodando"} THEN "fim" ELSE aquecimento[w]]
    /\ UNCHANGED <<registro, chamada, upstream, pedido, audit_logs>>

Init ==
    /\ Core!Init
    /\ chamada = [r \in Requisicoes |-> "nenhuma"]
    /\ upstream = [r \in Requisicoes |-> Nulo]
    /\ pedido = [r \in Requisicoes |-> Nulo]
    /\ pc = [r \in Requisicoes |-> "nova"]
    /\ resposta = [r \in Requisicoes |-> Nulo]
    /\ audit_logs = {}
    /\ warmup_running = FALSE
    /\ aquecimento = [w \in Aquecimentos |-> "novo"]
    /\ reinicios = 0

Handler(r) == CoreIndisponivel(r) \/ ReceberDoCore(r) \/ AuditarNaBorda(r)

Aquecimento(w) == MarcarAquecimento(w) \/ IniciarThread(w) \/ TerminarAquecimento(w)

CoreAtende(r) ==
    \/ r \in Compras /\ CoreAtendeCompra(r)
    \/ r \in Patches /\ CoreAtendePatch(r)
    \/ CoreRecusaToken(r)

Next ==
    \/ \E r \in Requisicoes : Encaminhar(r) \/ Handler(r) \/ CoreAtende(r)
    \/ \E w \in Aquecimentos : Aquecimento(w)
    \/ Reiniciar

Spec == Init /\ [][Next]_vars

-----------------------------------------------------------------------------
(* Properties *)

TypeOK ==
    /\ vendas \in [Compras -> Core!Venda \cup {Nulo}]
    /\ lead \in [Compras -> Core!StatusLead \cup {Nulo}]
    /\ respostas \in [Compras -> {201, 409, 500, Nulo}]
    /\ chamada \in [Requisicoes -> {"nenhuma", "enviada", "atendida"}]
    /\ upstream \in [Requisicoes -> {200, 201, 401, 404, 409, 500, Nulo}]
    /\ pedido \in [Requisicoes -> Pedidos \cup {Nulo}]
    /\ pc \in [Requisicoes -> {"nova", "aguardando", "auditar", "respondida"}]
    /\ resposta \in [Requisicoes -> {200, 201, 404, 409, 500, 502, 503, PERDIDA, Nulo}]
    /\ audit_logs \subseteq [action : {"CLIENTE_CREATED", "LEAD_CREATED", "LEAD_PATCHED"},
                             req : Requisicoes]
    /\ warmup_running \in BOOLEAN
    /\ aquecimento \in [Aquecimentos -> {"novo", "iniciar", "rodando", "fim"}]
    /\ reinicios \in Nat

\* A success the caller sees is true and audited at the edge: the Core holds that very
\* purchase, and the LEAD_CREATED event is there exactly when a lead is; a patch
\* answered 200 was applied and is audited.
SucessoAuditado ==
    /\ \A c \in Compras : resposta[c] = 201 =>
          /\ vendas[c] # Nulo
          /\ vendas[c].cpf = pedido[c].cpf /\ vendas[c].vin = pedido[c].vin
          /\ Evento("CLIENTE_CREATED", c) \in audit_logs
          /\ Evento("LEAD_CREATED", c) \in audit_logs <=> lead[c] # Nulo
    /\ \A p \in Patches : resposta[p] = 200 =>
          lead[pedido[p].lead] # Nulo /\ Evento("LEAD_PATCHED", p) \in audit_logs

\* The trail of the edge never tells what the Core did not do, though it is written in
\* another database, after the fact, and may be lost.
AuditoriaFundada ==
    \A e \in audit_logs :
        CASE e.action = "CLIENTE_CREATED" -> vendas[e.req] # Nulo
          [] e.action = "LEAD_CREATED"    -> lead[e.req] # Nulo
          [] e.action = "LEAD_PATCHED"    -> upstream[e.req] = 200

\* Retrying a purchase after any failure is safe: once one of its attempts is answered
\* 201 or 409, it is registered, and only once - even by an attempt that was answered
\* 503 and reached the Core late.
RetryConclusivo ==
    \A c \in Compras :
        LET mesma == {d \in Compras : pedido[d] = pedido[c]}
            outras == {d \in Compras \ mesma : pedido[d] # Nulo} IN
        /\ resposta[c] \in {201, 409}
        /\ \A d \in outras : pedido[d].cpf # pedido[c].cpf /\ pedido[d].vin # pedido[c].vin
        => Cardinality({d \in mesma : vendas[d] # Nulo}) = 1

\* An answer other than 503, or a connection lost with the Gateway, is final: what was
\* refused is never registered afterwards by a call still under way.
RecusaFinal ==
    [][\A c \in Compras : vendas[c] = Nulo /\ vendas'[c] # Nulo =>
          resposta[c] \in {Nulo, 503, PERDIDA}]_vars

\* At most one warm-up is under way, and the flag says so: a thread that could not start
\* or a Gateway that restarted leaves it free.
UmAquecimentoPorVez ==
    LET ativos == {w \in Aquecimentos : aquecimento[w] \in {"iniciar", "rodando"}} IN
    Cardinality(ativos) <= 1 /\ (warmup_running <=> ativos # {})
=============================================================================
