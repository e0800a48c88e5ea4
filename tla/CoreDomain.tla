------------------------------ MODULE CoreDomain ------------------------------
(***************************************************************************)
(* The domain service (services/core): concurrent HTTP requests, each in a *)
(* thread of its own, run ClienteService.cadastrarCompra and               *)
(* LeadService.atualizarStatus against one PostgreSQL database through one *)
(* HikariCP pool.  Both methods are @Transactional and call                *)
(* AuditService.log, whose REQUIRES_NEW transaction takes a SECOND         *)
(* connection from that pool and commits before the business transaction.  *)
(*                                                                         *)
(* Tables are what is committed.  What a transaction holds in its          *)
(* persistence context is kept apart (resultado, copia) until it commits.  *)
(* A row is named by the request that creates it, as UUIDs are fresh.      *)
(* A score is an integer in hundredths.                                    *)
(***************************************************************************)
EXTENDS Integers, FiniteSets

CONSTANTS Compras,      \* POST /v1/clientes requests
          Patches,      \* PATCH /v1/leads/{id} requests
          Cpfs, Vins,   \* the CPFs and VINs the purchases may carry
          RespostasMl,  \* what the call to ml-api may give: [perfil, score], or Nulo for no usable answer
          Corpos,       \* the PATCH bodies considered: [status, observacao]
          PoolSize,     \* HikariCP maximumPoolSize
          Nulo          \* SQL NULL, a missing row, a missing value

Requisicoes == Compras \cup Patches

Perfis      == {"FIEL", "ABANDONO", "ESQUECIDO", "ECONOMICO"}
Prioridades == {"BAIXA", "MEDIA", "ALTA", "CRITICA"}
StatusLead  == {"ABERTO", "AGENDADO", "RECUSADO", "SEM_CONTATO"}
Observacoes == {c.observacao : c \in Corpos} \cup {Nulo}
Scores      == {m.score : m \in RespostasMl \ {Nulo}} \cup {50}

VARIABLES
    clientes,     \* table clientes: clientes[c] is the row purchase c committed, or Nulo
    veiculos,     \* table veiculos: veiculos[c] is the VIN of the row of purchase c, or Nulo
    leads,        \* table leads: leads[c] is the lead row of purchase c, or Nulo
    audit_logs,   \* table audit_logs: the events written so far
    emUso,        \* pool connections in use: <<request, "negocio" or "auditoria">>
    pc,           \* the step each request is about to take
    pedido,       \* the body of each request
    resultado,    \* what MlService.classificar returned to a purchase
    copia,        \* the managed Lead entity a patch loaded and changed
    anterior,     \* the status that patch read
    resposta      \* the HTTP status a request was answered with

tabelas  == <<clientes, veiculos, leads>>
contexto == <<pedido, resultado, copia, anterior>>
vars     == <<tabelas, audit_logs, emUso, pc, contexto, resposta>>

PedidoCompra == [cpf : Cpfs, vin : Vins]
PedidoPatch  == [lead : Compras, status : StatusLead, observacao : Observacoes]
Resultado    == [perfil : Perfis, score : Scores]
Cliente      == [cpf : Cpfs, perfil : Perfis, score : Scores]
Lead         == [score : Scores, prioridade : Prioridades, script : Perfis,
                 status : StatusLead, observacao : Observacoes]
Venda        == [cpf : Cpfs, vin : Vins, perfil : Perfis]
Evento       == [action : {"CLIENTE_CREATED", "LEAD_CREATED", "LEAD_PATCHED"}, entity : Compras,
                 req : Requisicoes, de : StatusLead \cup {Nulo}, para : StatusLead \cup {Nulo}]

ASSUME RequisicoesDistintas == Compras \cap Patches = {}
ASSUME PoolNaoVazio == PoolSize \in Nat \ {0}
ASSUME NuloDistinto ==
    Nulo \notin Vins \cup Cliente \cup Lead \cup StatusLead \cup Venda \cup {200, 201, 404, 409, 500}
ASSUME ScoresInteiros == \A m \in RespostasMl \ {Nulo} : m.score \in Int
ASSUME CorposValidos == \A c \in Corpos : c.status \in StatusLead

FasesAuditoria == {"auditCliente", "auditLead", "auditPatch"}
Fases == {"nova", "getConnection", "existsByCpf", "existsByVin", "classificar", "findById",
          "commit", "respondida"} \cup FasesAuditoria

-----------------------------------------------------------------------------
(* MlService *)

PERFIS_GERAM_LEAD == {"ABANDONO", "ESQUECIDO"}

fallback == [perfil |-> "ESQUECIDO", score |-> 50]

\* Mutant of classificar: PerfilUso.valueOf left out, any perfil is taken as it comes.
classificar_SemEnum(m) ==
    IF m # Nulo THEN [perfil |-> m.perfil, score |-> m.score] ELSE fallback

\* An unreachable ml-api, an incomplete body and a perfil outside the enum all
\* end in the fallback; a score is taken as it comes.
classificar(m) ==
    IF m # Nulo /\ m.perfil \in Perfis THEN [perfil |-> m.perfil, score |-> m.score] ELSE fallback

\* Mutant of derivarPrioridade: neither of the two upper bands has their limit.
derivarPrioridade_SemLimite(score) ==
    CASE score > 85 -> "CRITICA"
      [] score >= 65 /\ score < 85 -> "ALTA"
      [] score >= 40 /\ score < 65 -> "MEDIA"
      [] OTHER -> "BAIXA"

derivarPrioridade(score) ==
    CASE score >= 85 -> "CRITICA"
      [] score >= 65 /\ score < 85 -> "ALTA"
      [] score >= 40 /\ score < 65 -> "MEDIA"
      [] OTHER -> "BAIXA"

-----------------------------------------------------------------------------
(* The connection pool and the end of a request *)

Conexoes(r) == {r} \X {"negocio", "auditoria"}

ConexaoLivre == Cardinality(emUso) < PoolSize

AguardaConexao(r) ==
    \/ pc[r] = "getConnection"
    \/ pc[r] \in FasesAuditoria /\ <<r, "auditoria">> \notin emUso

\* Leaving the service method, normally or by an exception, ends its
\* transaction: the connection goes back to the pool and the controller or the
\* GlobalExceptionHandler answers.
Responder(r, codigo) ==
    /\ pc' = [pc EXCEPT ![r] = "respondida"]
    /\ resposta' = [resposta EXCEPT ![r] = codigo]
    /\ emUso' = emUso \ Conexoes(r)

Seguir(r, fase) ==
    /\ pc' = [pc EXCEPT ![r] = fase]
    /\ UNCHANGED <<emUso, resposta>>

ReceberCompra(r) ==
    /\ pc[r] = "nova"
    /\ \E p \in PedidoCompra : pedido' = [pedido EXCEPT ![r] = p]
    /\ Seguir(r, "getConnection")
    /\ UNCHANGED <<tabelas, audit_logs, resultado, copia, anterior>>

ReceberPatch(r) ==
    /\ pc[r] = "nova"
    /\ \E l \in Compras, c \in Corpos :
          pedido' = [pedido EXCEPT ![r] = [lead |-> l, status |-> c.status,
                                           observacao |-> c.observacao]]
    /\ Seguir(r, "getConnection")
    /\ UNCHANGED <<tabelas, audit_logs, resultado, copia, anterior>>

\* @Transactional: the transaction manager borrows a connection before the body runs.
AbrirTransacao(r) ==
    /\ pc[r] = "getConnection"
    /\ ConexaoLivre
    /\ emUso' = emUso \cup {<<r, "negocio">>}
    /\ pc' = [pc EXCEPT ![r] = IF r \in Compras THEN "existsByCpf" ELSE "findById"]
    /\ UNCHANGED <<tabelas, audit_logs, contexto, resposta>>

\* Mutant of EsgotarEspera: the open transaction is not rolled back and keeps its connection.
EsgotarEspera_SemRollback(r) ==
    /\ AguardaConexao(r)
    /\ ~ ConexaoLivre
    /\ pc' = [pc EXCEPT ![r] = "respondida"]
    /\ resposta' = [resposta EXCEPT ![r] = 500]
    /\ UNCHANGED <<tabelas, audit_logs, emUso, contexto>>

\* Mutant of EsgotarEspera: only the wait for the first connection has a limit.
EsgotarEspera_SoPrimeira(r) ==
    /\ pc[r] = "getConnection"
    /\ ~ ConexaoLivre
    /\ Responder(r, 500)
    /\ UNCHANGED <<tabelas, audit_logs, contexto>>

\* connectionTimeout: nobody gave a connection back in time; the exception rolls
\* back whatever transaction the request already has open (handleUnexpected).
EsgotarEspera(r) ==
    /\ AguardaConexao(r)
    /\ ~ ConexaoLivre
    /\ Responder(r, 500)
    /\ UNCHANGED <<tabelas, audit_logs, contexto>>

-----------------------------------------------------------------------------
(* ClienteService.cadastrarCompra *)

CpfCadastrado(cpf) == \E c \in Compras : clientes[c] # Nulo /\ clientes[c].cpf = cpf
VinCadastrado(vin) == \E c \in Compras : veiculos[c] # Nulo /\ veiculos[c] = vin

ExistsByCpf(r) ==
    /\ pc[r] = "existsByCpf"
    /\ IF CpfCadastrado(pedido[r].cpf) THEN Responder(r, 409) ELSE Seguir(r, "existsByVin")
    /\ UNCHANGED <<tabelas, audit_logs, contexto>>

ExistsByVin(r) ==
    /\ pc[r] = "existsByVin"
    /\ IF VinCadastrado(pedido[r].vin) THEN Responder(r, 409) ELSE Seguir(r, "classificar")
    /\ UNCHANGED <<tabelas, audit_logs, contexto>>

\* save(cliente) and save(veiculo) only fill the persistence context; the
\* remote call runs with the transaction open.
Classificar(r) ==
    /\ pc[r] = "classificar"
    /\ \E m \in RespostasMl \cup {Nulo} : resultado' = [resultado EXCEPT ![r] = classificar(m)]
    /\ Seguir(r, "auditCliente")
    /\ UNCHANGED <<tabelas, audit_logs, pedido, copia, anterior>>

LeadNovo(r) ==
    [score |-> resultado[r].score, prioridade |-> derivarPrioridade(resultado[r].score),
     script |-> resultado[r].perfil, status |-> "ABERTO", observacao |-> Nulo]

\* Mutant of ViolaUnicidade: the migration forgets UNIQUE on veiculos.vin.
ViolaUnicidade_SemVin(p) == CpfCadastrado(p.cpf)

\* The unique indexes on clientes.cpf and veiculos.vin.
ViolaUnicidade(p) == CpfCadastrado(p.cpf) \/ VinCadastrado(p.vin)

\* Mutant of CommitCompra: the constraint violation is swallowed and 201 answered.
CommitCompra_EngoleErro(r) ==
    LET p == pedido[r] IN
    /\ r \in Compras
    /\ pc[r] = "commit"
    /\ Responder(r, 201)
    /\ IF ViolaUnicidade(p)
       THEN UNCHANGED tabelas
       ELSE /\ clientes' = [clientes EXCEPT ![r] = [cpf |-> p.cpf, perfil |-> resultado[r].perfil,
                                                    score |-> resultado[r].score]]
            /\ veiculos' = [veiculos EXCEPT ![r] = p.vin]
            /\ leads' = [leads EXCEPT ![r] = IF resultado[r].perfil \in PERFIS_GERAM_LEAD
                                             THEN LeadNovo(r) ELSE Nulo]
    /\ UNCHANGED <<audit_logs, contexto>>

\* The INSERTs are flushed and committed on return.  The indexes decide
\* between concurrent purchases: the loser gets a DataIntegrityViolationException
\* (handleDb) and nothing of it remains.
CommitCompra(r) ==
    LET p == pedido[r] IN
    /\ r \in Compras
    /\ pc[r] = "commit"
    /\ IF ViolaUnicidade(p)
       THEN Responder(r, 500) /\ UNCHANGED tabelas
       ELSE /\ Responder(r, 201)
            /\ clientes' = [clientes EXCEPT ![r] = [cpf |-> p.cpf, perfil |-> resultado[r].perfil,
                                                    score |-> resultado[r].score]]
            /\ veiculos' = [veiculos EXCEPT ![r] = p.vin]
            /\ leads' = [leads EXCEPT ![r] = IF resultado[r].perfil \in PERFIS_GERAM_LEAD
                                             THEN LeadNovo(r) ELSE Nulo]
    /\ UNCHANGED <<audit_logs, contexto>>

-----------------------------------------------------------------------------
(* LeadService.atualizarStatus *)

\* Mutant of Alterado: a new entity, with the defaults of Lead.java, saved under the same id.
Alterado_EntidadeNova(lead, p) ==
    [score |-> lead.score, prioridade |-> "MEDIA", script |-> lead.script,
     status |-> p.status, observacao |-> p.observacao]

Alterado(lead, p) ==
    [lead EXCEPT !.status = p.status,
                 !.observacao = IF p.observacao # Nulo THEN p.observacao ELSE @]

FindByIdWithDetails(r) ==
    LET lead == leads[pedido[r].lead] IN
    /\ pc[r] = "findById"
    /\ IF lead = Nulo
       THEN Responder(r, 404) /\ UNCHANGED <<copia, anterior>>
       ELSE /\ Seguir(r, "auditPatch")
            /\ copia' = [copia EXCEPT ![r] = Alterado(lead, pedido[r])]
            /\ anterior' = [anterior EXCEPT ![r] = lead.status]
    /\ UNCHANGED <<tabelas, audit_logs, pedido, resultado>>

\* Lead has neither @Version nor @DynamicUpdate: the UPDATE writes every column
\* from the entity, whatever the row has become since it was read.
CommitPatch(r) ==
    /\ r \in Patches
    /\ pc[r] = "commit"
    /\ leads' = [leads EXCEPT ![pedido[r].lead] = copia[r]]
    /\ Responder(r, 200)
    /\ UNCHANGED <<clientes, veiculos, audit_logs, contexto>>

-----------------------------------------------------------------------------
(* AuditService.log: a transaction of its own *)

AbrirAuditoria(r) ==
    /\ pc[r] \in FasesAuditoria
    /\ <<r, "auditoria">> \notin emUso
    /\ ConexaoLivre
    /\ emUso' = emUso \cup {<<r, "auditoria">>}
    /\ UNCHANGED <<tabelas, audit_logs, pc, contexto, resposta>>

EventoDe(r) ==
    CASE pc[r] = "auditCliente" -> [action |-> "CLIENTE_CREATED", entity |-> r, req |-> r,
                                    de |-> Nulo, para |-> Nulo]
      [] pc[r] = "auditLead"    -> [action |-> "LEAD_CREATED", entity |-> r, req |-> r,
                                    de |-> Nulo, para |-> Nulo]
      [] pc[r] = "auditPatch"   -> [action |-> "LEAD_PATCHED", entity |-> pedido[r].lead, req |-> r,
                                    de |-> anterior[r], para |-> pedido[r].status]

\* Mutant of DepoisDaAuditoria: LEAD_CREATED is not logged.
DepoisDaAuditoria_SemLead(r) == "commit"

DepoisDaAuditoria(r) ==
    IF pc[r] = "auditCliente" /\ resultado[r].perfil \in PERFIS_GERAM_LEAD
    THEN "auditLead" ELSE "commit"

GravarAuditoria(r) ==
    /\ pc[r] \in FasesAuditoria
    /\ <<r, "auditoria">> \in emUso
    /\ audit_logs' = audit_logs \cup {EventoDe(r)}
    /\ emUso' = emUso \ {<<r, "auditoria">>}
    /\ pc' = [pc EXCEPT ![r] = DepoisDaAuditoria(r)]
    /\ UNCHANGED <<tabelas, contexto, resposta>>

-----------------------------------------------------------------------------
Init ==
    /\ clientes = [c \in Compras |-> Nulo]
    /\ veiculos = [c \in Compras |-> Nulo]
    /\ leads = [c \in Compras |-> Nulo]
    /\ audit_logs = {}
    /\ emUso = {}
    /\ pc = [r \in Requisicoes |-> "nova"]
    /\ pedido = [r \in Requisicoes |-> Nulo]
    /\ resultado = [c \in Compras |-> Nulo]
    /\ copia = [p \in Patches |-> Nulo]
    /\ anterior = [p \in Patches |-> Nulo]
    /\ resposta = [r \in Requisicoes |-> Nulo]

PassoCompra(r) ==
    ExistsByCpf(r) \/ ExistsByVin(r) \/ Classificar(r) \/ CommitCompra(r)

PassoPatch(r) == FindByIdWithDetails(r) \/ CommitPatch(r)

PassoComum(r) ==
    AbrirTransacao(r) \/ AbrirAuditoria(r) \/ GravarAuditoria(r) \/ EsgotarEspera(r)

Atendimento(r) ==
    \/ PassoComum(r)
    \/ r \in Compras /\ PassoCompra(r)
    \/ r \in Patches /\ PassoPatch(r)

\* Nothing is left to serve.
Ocioso ==
    /\ \A r \in Requisicoes : pc[r] = "respondida"
    /\ UNCHANGED vars

Next ==
    \/ \E r \in Compras : ReceberCompra(r)
    \/ \E r \in Patches : ReceberPatch(r)
    \/ \E r \in Requisicoes : Atendimento(r)
    \/ Ocioso

\* A thread that can run runs; a wait for a connection or for ml-api is bounded
\* by connectionTimeout and by CLIENT_TIMEOUT.  Clients need not send anything.
Spec == Init /\ [][Next]_vars /\ \A r \in Requisicoes : WF_vars(Atendimento(r))

-----------------------------------------------------------------------------
(* Properties *)

TypeOK ==
    /\ clientes \in [Compras -> Cliente \cup {Nulo}]
    /\ veiculos \in [Compras -> Vins \cup {Nulo}]
    /\ leads \in [Compras -> Lead \cup {Nulo}]
    /\ audit_logs \subseteq Evento
    /\ emUso \subseteq Requisicoes \X {"negocio", "auditoria"}
    /\ pc \in [Requisicoes -> Fases]
    /\ pedido \in [Requisicoes -> PedidoCompra \cup PedidoPatch \cup {Nulo}]
    /\ resultado \in [Compras -> Resultado \cup {Nulo}]
    /\ copia \in [Patches -> Lead \cup {Nulo}]
    /\ anterior \in [Patches -> StatusLead \cup {Nulo}]
    /\ resposta \in [Requisicoes -> {200, 201, 404, 409, 500, Nulo}]

Cadastrada(c) == clientes[c] # Nulo

\* However many purchases race past existsByCpf and existsByVin, no CPF and no
\* VIN is ever registered twice, and no cliente is without its veiculo.
UnicidadeCpfVin ==
    /\ \A c \in Compras : Cadastrada(c) <=> veiculos[c] # Nulo
    /\ \A c, d \in Compras :
          Cadastrada(c) /\ Cadastrada(d) /\ c # d =>
              clientes[c].cpf # clientes[d].cpf /\ veiculos[c] # veiculos[d]

\* The pool is never overdrawn and never leaks: a request holds the business
\* connection exactly while its transaction is open, and the second one only
\* inside AuditService.log - on the exception paths too.
ConexoesCorretas ==
    /\ Cardinality(emUso) <= PoolSize
    /\ \A r \in Requisicoes :
          /\ <<r, "negocio">> \in emUso <=> pc[r] \notin {"nova", "getConnection", "respondida"}
          /\ <<r, "auditoria">> \in emUso => pc[r] \in FasesAuditoria

\* The status code tells the caller what the database holds: 201 exactly for a
\* purchase that is registered, 409 only when some OTHER registered purchase
\* holds the CPF or the VIN, 200 only for a lead that exists.
RespostaFiel ==
    /\ \A c \in Compras : resposta[c] = 201 <=> Cadastrada(c)
    /\ \A c \in Compras : resposta[c] = 409 =>
          \E d \in Compras \ {c} :
              /\ Cadastrada(d)
              /\ clientes[d].cpf = pedido[c].cpf \/ veiculos[d] = pedido[c].vin
    /\ \A p \in Patches : resposta[p] = 200 => leads[pedido[p].lead] # Nulo

\* No committed change escapes the audit trail, although the trail is written by
\* other transactions: every cliente and lead has its creation event, every
\* status that is not the initial one has the patch that set it, and every
\* patch answered 200 has an event of its own.
AuditoriaCompleta ==
    /\ \A c \in Compras : Cadastrada(c) =>
          \E e \in audit_logs : e.action = "CLIENTE_CREATED" /\ e.entity = c
    /\ \A c \in Compras : leads[c] # Nulo =>
          /\ \E e \in audit_logs : e.action = "LEAD_CREATED" /\ e.entity = c
          /\ leads[c].status = "ABERTO" \/
                \E e \in audit_logs : /\ e.action = "LEAD_PATCHED"
                                      /\ e.entity = c /\ e.para = leads[c].status
    /\ \A p \in Patches : resposta[p] = 200 =>
          \E e \in audit_logs : /\ e.action = "LEAD_PATCHED" /\ e.req = p
                                /\ e.entity = pedido[p].lead /\ e.para = pedido[p].status

Peso == [BAIXA |-> 0, MEDIA |-> 1, ALTA |-> 2, CRITICA |-> 3]

\* A lead exists exactly for a cliente at risk, carries that cliente's score and
\* script through every patch, and a riskier cliente is never ranked below a
\* safer one.
LeadCoerente ==
    /\ \A c \in Compras :
          leads[c] # Nulo <=> Cadastrada(c) /\ clientes[c].perfil \in {"ABANDONO", "ESQUECIDO"}
    /\ \A c \in Compras : leads[c] # Nulo =>
          leads[c].score = clientes[c].score /\ leads[c].script = clientes[c].perfil
    /\ \A c, d \in Compras :
          leads[c] # Nulo /\ leads[d] # Nulo /\ leads[c].score <= leads[d].score =>
              Peso[leads[c].prioridade] <= Peso[leads[d].prioridade]

\* A row, once committed, is never lost, and neither a cliente nor the
\* classification of a lead ever changes, although a patch rewrites every column.
ClassificacaoImutavel ==
    [][\A c \in Compras :
          /\ Cadastrada(c) => clientes'[c] = clientes[c] /\ veiculos'[c] = veiculos[c]
          /\ leads[c] # Nulo =>
                /\ leads'[c] # Nulo
                /\ leads'[c].score = leads[c].score
                /\ leads'[c].prioridade = leads[c].prioridade
                /\ leads'[c].script = leads[c].script]_tabelas

\* A PATCH that carries no observacao leaves the observacao of the lead as it is
\* (services/core/README.md: "PATCH (parcial)").  Two concurrent patches break
\* it: the one without observacao writes back the value it read.
PatchParcial ==
    [][\A p \in Patches :
          resposta'[p] = 200 /\ resposta[p] = Nulo /\ pedido[p].observacao = Nulo =>
              leads'[pedido[p].lead].observacao = leads[pedido[p].lead].observacao]_vars

\* Every request is answered: nobody waits for ever for a connection, even when
\* the open business transactions hold the whole pool and all wait for a second
\* connection.
TodaRequisicaoRespondida ==
    \A r \in Requisicoes : pc[r] # "nova" ~> pc[r] = "respondida"

-----------------------------------------------------------------------------
(* The atomic registry the callers see *)

vendasDoRegistro ==
    [c \in Compras |-> IF Cadastrada(c)
                       THEN [cpf |-> clientes[c].cpf, vin |-> veiculos[c],
                             perfil |-> clientes[c].perfil]
                       ELSE Nulo]

statusDoRegistro == [c \in Compras |-> IF leads[c] = Nulo THEN Nulo ELSE leads[c].status]

respostasDoRegistro == [c \in Compras |-> resposta[c]]

Registro == INSTANCE RegistroCompras
            WITH vendas <- vendasDoRegistro, lead <- statusDoRegistro,
                 respostas <- respostasDoRegistro

\* Seen from outside, every purchase and every status change is atomic.
RefinaRegistro == Registro!Spec
=============================================================================
