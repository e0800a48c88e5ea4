--------------------------- MODULE GatewayDominio ---------------------------
(***************************************************************************)
(* The Gateway standing alone (no CORE_API_URL): it keeps clientes,        *)
(* veiculos, leads and the audit trail in its own database.  One action    *)
(* per statement or commit of a handler, beside a retention job in another *)
(* process, the mass-query counter in memory and a process that may die    *)
(* and come up again (GatewayBoot).                                        *)
(*                                                                         *)
(* The database is READ COMMITTED: a SELECT sees what is committed; an     *)
(* INSERT that meets an uncommitted equal key, or an UPDATE of a row that  *)
(* another transaction changed, waits for that transaction to end.         *)
(***************************************************************************)
EXTENDS GatewayBoot, ClassificadorLocal, SequencesExt

CONSTANTS
    Compras, Patches,        \* requests POST /v1/clientes and PATCH /v1/leads/{id}
    Detalhes,                \* requests GET /v1/leads/{id}
    Auditores,               \* clients that page through GET /v1/admin/audit-log
    Leitores,                \* clients that page through GET /v1/leads
    Jobs,                    \* runs of anonymize_expired, in processes of their own
    Antigos, Vencidos,       \* clientes registered before; those past the retention cutoff
    CpfDe, VinDe, DigestDe,  \* per purchase: its keys and the digest of its features
    ContatoDe,               \* per purchase: which of email and telefone it gives, if any
    CriadoEm,                \* per purchase: when the INSERT of its lead read the clock
    LeadDe,                  \* per patch and detail: the lead, by its purchase
    CorpoDe,                 \* per patch: the body
    AcaoDe,                  \* per auditor: the action filter, or Nulo
    DigitosDe,               \* per cliente: the decimal digits of its pseudonym
    FiltroDe, PrincipalDe,   \* per reader: the status filter (or Nulo) and who reads
    DryRun,                  \* the jobs run with dry_run
    PER_PAGE, MASS_QUERY_THRESHOLD, window,
    MaxTempo,                \* bound of the clock
    Cenarios                 \* which actors take part in a behaviour; "arranque" and "queda" too

Ids    == Compras \cup Antigos
Reqs   == Compras \cup Patches \cup Detalhes \cup Auditores
Status == {"aberto", "agendado", "recusado", "sem_contato"}

ASSUME ConstantesDominio ==
    /\ Vencidos \subseteq Antigos /\ Compras \cap Antigos = {} /\ Compras \cap Patches = {}
    /\ (Compras \cup Patches) \cap (Detalhes \cup Auditores) = {} /\ Detalhes \cap Auditores = {}
    /\ LeadDe \in [Patches \cup Detalhes -> Ids] /\ DigitosDe \in [Ids -> 0..16] /\ DryRun \subseteq Jobs
    /\ DigestDe \in [Ids -> Byte \X Byte] /\ ContatoDe \in [Ids -> SUBSET {"email", "telefone"}]
    /\ PER_PAGE \in Nat \ {0} /\ {MASS_QUERY_THRESHOLD, window, MaxTempo} \subseteq Nat

\* Purchases of one dealer, model and region share digest and score; no two inserts read
\* the same microsecond, so criado_em breaks the ties of the listing.
ASSUME CriadoEmDistintos ==
    /\ CriadoEm \in [Ids -> Nat]
    /\ \A i, j \in Ids : i # j => CriadoEm[i] # CriadoEm[j]

\* The rows there were before are finitely many and respect the unique keys; a CPF is never a
\* pseudonym.  A patch always names a status (the observacao may be missing, Nulo).
ASSUME ChavesDosClientes ==
    /\ IsFiniteSet(Antigos)
    /\ \A i, k \in Antigos : i # k => CpfDe[i] # CpfDe[k] /\ VinDe[i] # VinDe[k]
    /\ \A i, k \in Ids : CpfDe[i] # <<"pseudo", k>>
\* A behaviour that does not show the boot begins in an environment that has the demo users.
ASSUME AmbienteNoAr ==
    (\E atores \in Cenarios : "arranque" \notin atores) => \E s \in Ambientes : should_seed_default_users(s)
ASSUME CorposDosPatches == \A p \in Patches : CorpoDe[p].status \in Status

VARIABLES
    clientes,   \* committed rows: [cpf, cpf_hash, contato, perfil, score, anonimizado_em], or Nulo;
                \* contato is the columns of email and telefone that are not NULL, anonimizado_em
                \* the job whose write it is: each has a date and a new ciphertext of its own
    leads,      \* committed rows: [score, prioridade, status, observacao], or Nulo
    trilha,     \* audit_logs: committed events
    ordem,      \* audit_logs by occurred_at, what is flushed and not committed included; kept
                \* only in the behaviours in which an auditor reads it
    pedido,     \* [fase, resposta, lido] of each request; lido is the lead a patch read, the
                \* detail a GET answers with, the pages an auditor has seen
    leitura,    \* [fase, agora, contas, vistos, desde, resposta] of each reader
    consultas,  \* _query_counter: the timestamps of each principal
    tempo,
    job,        \* [fase, fila, feitos]: the rows to anonymise, in order, and how many are done
    ativos      \* the actors of this behaviour

tabelas == <<clientes, leads, trilha, ordem>>
vars    == <<varsBoot, tabelas, pedido, leitura, consultas, tempo, job, ativos>>

PERDIDA == 502   \* the process died before the answer left: the proxy answers

Evento(acao, autor, alvo, de) == [acao |-> acao, autor |-> autor, alvo |-> alvo, de |-> de]

\* AuditService.log_event: the flush gives each event the next occurred_at.
log_event(eventos) == ordem' = IF Auditores \cap ativos # {} THEN ordem \o eventos ELSE ordem

pseudonymize(i) == <<"pseudo", i>>

Executando(r) == pedido[r].fase \notin {"novo", "enviar", "fim"}

Responder(r, codigo) ==
    pedido' = [pedido EXCEPT ![r].fase = "enviar", ![r].resposta = codigo]

Seguir(r, fase) == pedido' = [pedido EXCEPT ![r].fase = fase]

-----------------------------------------------------------------------------
(* The door: dependencies run before the body is validated.                *)

PapeisDe(r) ==
    CASE r \in Compras   -> {"admin"}              [] r \in Patches  -> {"consultor", "admin"}
      [] r \in Auditores -> {"admin", "analista"}  [] r \in Detalhes -> Papeis

PrimeiraFase(r) ==
    CASE r \in Compras -> "cpf" [] r \in Patches -> "carregar"
      [] r \in Detalhes -> "obter" [] r \in Auditores -> "trilha"

\* What the caller sends: a signature, a token and a body that is valid, breaks the schema
\* or is not JSON.  Tokens and timestamps are of now or as old as a token may get, of this
\* key pair or of another (priv counts generations).
Instantes   == {tempo, tempo - jwt_access_ttl}
Credenciais ==
    {Nulo} \cup {create_access_token("u", papel, par, t) :
                    papel \in Papeis, par \in {priv, priv + 1}, t \in Instantes}
           \cup {create_refresh_token("u", papel, priv, t) : papel \in Papeis, t \in Instantes}
           \cup {create_internal_token("u", papel, t) : papel \in Papeis, t \in Instantes}
Assinaturas == [integra : BOOLEAN, timestamp : {tempo, tempo - MAX_SKEW, tempo - MAX_SKEW - 1}]
Corpos      == {"valido", "esquema", "json"}

\* What is left of them once they were checked.
Portas == [assinada : {Assinada(a, tempo) : a \in Assinaturas},
           papel    : {current_principal(t, pub, tempo) : t \in Credenciais},
           corpo    : Corpos]

\* 0 when every dependency lets the request through.
CodigoDaPorta(r, p) ==
    IF p.corpo = "json" /\ r \in Compras \cup Patches THEN 422
    ELSE IF r \in Compras /\ ~p.assinada THEN 401
    ELSE IF p.papel = Nulo THEN 401
    ELSE IF p.papel \notin PapeisDe(r) THEN 403
    ELSE IF p.corpo = "esquema" THEN 422
    ELSE 0

\* A refused role is audited on the spot, unless the audit itself fails.
Receber(r) ==
    /\ NoAr /\ r \in ativos /\ pedido[r].fase = "novo"
    /\ \E codigo \in {CodigoDaPorta(r, p) : p \in Portas} :
          /\ IF codigo = 0
             THEN Seguir(r, PrimeiraFase(r))
             ELSE pedido' = [pedido EXCEPT ![r].fase = "fim", ![r].resposta = codigo]
          /\ \/ /\ codigo = 403
                /\ trilha' = trilha \cup {Evento("FORBIDDEN_ACCESS", r, Nulo, Nulo)}
                /\ log_event(<<Evento("FORBIDDEN_ACCESS", r, Nulo, Nulo)>>)
             \/ UNCHANGED <<trilha, ordem>>
    /\ UNCHANGED <<varsBoot, clientes, leads, leitura, consultas, tempo, job, ativos>>

-----------------------------------------------------------------------------
(* ClienteService.cadastrar_compra *)

Gravados == {i \in Ids : clientes[i] # Nulo}

\* Mutant of CpfGravado: a dirty read, it takes an uncommitted row for a client.
CpfGravado_Sujo(c) ==
    \/ \E i \in Gravados : clientes[i].cpf_hash = CpfDe[c]
    \/ \E d \in Compras \ {c} : CpfDe[d] = CpfDe[c] /\ pedido[d].fase \in {"inserir_veiculo", "commit"}

CpfGravado(c) == \E i \in Gravados : clientes[i].cpf_hash = CpfDe[c]
VinGravado(c) == \E i \in Gravados : VinDe[i] = VinDe[c]

feitos(j) == {job[j].fila[n] : n \in 1..job[j].feitos}

\* Uncommitted inserts of other purchases, and uncommitted updates of a job.
CpfEmDisputa(c) ==
    \/ \E d \in Compras \ {c} : CpfDe[d] = CpfDe[c] /\ pedido[d].fase \in {"inserir_veiculo", "commit"}
    \/ \E j \in Jobs : \E i \in feitos(j) : clientes[i].cpf_hash = CpfDe[c]
VinEmDisputa(c) ==
    \E d \in Compras \ {c} : VinDe[d] = VinDe[c] /\ pedido[d].fase = "commit"

\* One statement of a purchase: refused when the key is taken, else on to the next.
Instrucao(c, fase, tomado, proxima) ==
    /\ pedido[c].fase = fase
    /\ IF tomado THEN Responder(c, 409) ELSE Seguir(c, proxima)
    /\ UNCHANGED <<varsBoot, tabelas, leitura, consultas, tempo, job, ativos>>

SelectCpf(c) == Instrucao(c, "cpf", CpfGravado(c), "vin")
SelectVin(c) == Instrucao(c, "vin", VinGravado(c), "inserir_cliente")

\* Mutant of FlushCliente: cpf_hash is not a unique key.
FlushCliente_SemUnico(c) == Instrucao(c, "inserir_cliente", FALSE, "inserir_veiculo")

\* IntegrityError: 409 too, and the transaction is rolled back.
FlushCliente(c) ==
    /\ ~CpfEmDisputa(c)
    /\ Instrucao(c, "inserir_cliente", CpfGravado(c), "inserir_veiculo")
FlushVeiculo(c) ==
    /\ ~VinEmDisputa(c)
    /\ Instrucao(c, "inserir_veiculo", VinGravado(c), "commit")

ClienteNovo(c) ==
    LET r == classificar(DigestDe[c]) IN
    [cpf |-> CpfDe[c], cpf_hash |-> CpfDe[c], contato |-> ContatoDe[c], anonimizado_em |-> Nulo,
     perfil |-> r.perfil, score |-> r.score]

GeraLead(c) == classificar(DigestDe[c]).perfil \in PERFIS_GERAM_LEAD

\* Mutant of LeadNovo: the priority is left for later.
LeadNovo_SemPrioridade(c) ==
    [score |-> classificar(DigestDe[c]).score, prioridade |-> Nulo, status |-> "aberto",
     observacao |-> Nulo]

LeadNovo(c) ==
    LET s == classificar(DigestDe[c]).score IN
    [score |-> s, prioridade |-> derivar_prioridade(s), status |-> "aberto", observacao |-> Nulo]

EventosDaCompra(c) ==
    <<Evento("CLIENTE_CREATED", c, c, Nulo)>> \o
    (IF GeraLead(c) THEN <<Evento("LEAD_CREATED", c, c, Nulo)>> ELSE <<>>)

\* Cliente, classification, lead and events in one commit.  When the connection breaks
\* in the COMMIT the caller gets a 500 for a purchase that is stored.
CommitCompra(c) ==
    /\ pedido[c].fase = "commit"
    /\ clientes' = [clientes EXCEPT ![c] = ClienteNovo(c)]
    /\ leads' = [leads EXCEPT ![c] = IF GeraLead(c) THEN LeadNovo(c) ELSE Nulo]
    /\ trilha' = trilha \cup ToSet(EventosDaCompra(c))
    /\ log_event(EventosDaCompra(c))
    /\ \E codigo \in {201, 500} : Responder(c, codigo)
    /\ UNCHANGED <<varsBoot, leitura, consultas, tempo, job, ativos>>

-----------------------------------------------------------------------------
(* LeadService.atualizar_status *)

\* The columns the UPDATE carries: those that differ from what the session loaded.
Alterado(p) ==
    {campo \in {"status", "observacao"} :
        CorpoDe[p][campo] \notin {pedido[p].lido[campo], Nulo}}

Carregar(p) ==
    /\ pedido[p].fase = "carregar"
    /\ IF leads[LeadDe[p]] = Nulo
       THEN Responder(p, 404)
       ELSE pedido' = [pedido EXCEPT ![p].fase = "atualizar", ![p].lido = leads[LeadDe[p]]]
    /\ UNCHANGED <<varsBoot, tabelas, leitura, consultas, tempo, job, ativos>>

\* Mutant of LeadTravado: the SELECT takes a shared lock, which the UPDATE has to upgrade.
LeadTravado_DesdeALeitura(p) ==
    \E q \in Patches \ {p} :
        LeadDe[q] = LeadDe[p] /\ pedido[q].fase \in {"atualizar", "commit_patch"}

LeadTravado(p) ==
    \E q \in Patches \ {p} :
        LeadDe[q] = LeadDe[p] /\ pedido[q].fase = "commit_patch" /\ Alterado(q) # {}

EventoDoPatch(p) == Evento("LEAD_PATCHED", p, LeadDe[p], pedido[p].lido.status)

\* The flush of log_event: an UPDATE only when some column changed, then the event.
FlushPatch(p) ==
    /\ pedido[p].fase = "atualizar"
    /\ Alterado(p) # {} => ~LeadTravado(p)
    /\ Seguir(p, "commit_patch")
    /\ log_event(<<EventoDoPatch(p)>>)
    /\ UNCHANGED <<varsBoot, clientes, leads, trilha, leitura, consultas, tempo, job, ativos>>

CommitPatch(p) ==
    /\ pedido[p].fase = "commit_patch"
    /\ leads' = [leads EXCEPT ![LeadDe[p]] =
                    [campo \in DOMAIN @ |-> IF campo \in Alterado(p) THEN CorpoDe[p][campo] ELSE @[campo]]]
    /\ trilha' = trilha \cup {EventoDoPatch(p)}
    /\ \E codigo \in {200, 500} : Responder(p, codigo)
    /\ UNCHANGED <<varsBoot, clientes, ordem, leitura, consultas, tempo, job, ativos>>

-----------------------------------------------------------------------------
(* LeadService.obter: one SELECT, and the cliente with its PII masked *)

\* What is decrypted is the CPF, eleven digits, or the pseudonym that took its place.
Digitos(texto) == IF texto \in {CpfDe[i] : i \in Ids} THEN 11 ELSE DigitosDe[texto[2]]

MASCARADO == <<"mascara">>

\* A text with any other number of digits is shown as it is.
mask_cpf(texto) == IF Digitos(texto) = 11 THEN MASCARADO ELSE texto

cliente_to_output(i) ==
    [cpf_masked |-> mask_cpf(clientes[i].cpf), perfil |-> clientes[i].perfil,
     contato_masked |-> [campo \in {"email", "telefone"} |->
                           IF campo \in clientes[i].contato THEN MASCARADO ELSE Nulo]]

obter(d) ==
    /\ pedido[d].fase = "obter"
    /\ IF leads[LeadDe[d]] = Nulo
       THEN Responder(d, 404)
       ELSE pedido' = [pedido EXCEPT ![d] =
                [fase |-> "enviar", resposta |-> 200,
                 lido |-> [lead |-> leads[LeadDe[d]], cliente |-> cliente_to_output(LeadDe[d])]]]
    /\ UNCHANGED <<varsBoot, tabelas, leitura, consultas, tempo, job, ativos>>

-----------------------------------------------------------------------------
(* list_audit_log, called for one page after the other: newest event first *)

NaConsulta(a) == {e \in trilha : AcaoDe[a] \in {Nulo, e.acao}}

\* The rows it selects, by their place in the table, and the place of one among them.
Selecionadas(a)       == {n \in DOMAIN ordem : ordem[n] \in NaConsulta(a)}
PosicaoNaTrilha(a, n) == Cardinality({k \in Selecionadas(a) : k >= n})

\* offset((page - 1) * per_page).limit(per_page)
NaPagina(page) == (page - 1) * PER_PAGE + 1 .. page * PER_PAGE

PaginaDaTrilha(a, page) == {n \in Selecionadas(a) : PosicaoNaTrilha(a, n) \in NaPagina(page)}

list_audit_log(a) ==
    LET visto == pedido[a].lido
        rows  == PaginaDaTrilha(a, visto.page + 1) IN
    /\ pedido[a].fase = "trilha"
    /\ pedido' = [pedido EXCEPT ![a] =
                    [fase |-> IF Cardinality(rows) = PER_PAGE THEN "novo" ELSE "enviar",
                     resposta |-> IF Cardinality(rows) = PER_PAGE THEN Nulo ELSE 200,
                     lido |-> [page |-> visto.page + 1, vistos |-> visto.vistos \cup {ordem[n] : n \in rows},
                               desde |-> IF visto.page = 0 THEN NaConsulta(a) ELSE visto.desde]]]
    /\ UNCHANGED <<varsBoot, tabelas, leitura, consultas, tempo, job, ativos>>

-----------------------------------------------------------------------------
(* What may happen to any request *)

\* The database fails before the commit: 500, rolled back.
Falhar(r) ==
    /\ Executando(r)
    /\ Responder(r, 500)
    /\ UNCHANGED <<varsBoot, tabelas, leitura, consultas, tempo, job, ativos>>

Enviar(r) ==
    /\ pedido[r].fase = "enviar"
    /\ Seguir(r, "fim")
    /\ UNCHANGED <<varsBoot, tabelas, leitura, consultas, tempo, job, ativos>>

-----------------------------------------------------------------------------
(* LeadService.listar, called for one page after the other *)

ExisteLead == {i \in Ids : leads[i] # Nulo}
NoFiltro(l) == {i \in ExisteLead : FiltroDe[l] \in {Nulo, leads[i].status}}

_PRIORIDADE_ORDER(i) ==
    CASE leads[i].prioridade = "CRITICA" -> 0 [] leads[i].prioridade = "ALTA" -> 1
      [] leads[i].prioridade = "MEDIA" -> 2   [] leads[i].prioridade = "BAIXA" -> 3

\* Mutant of Antes: leads nobody approached come first.
Antes_AbertosPrimeiro(i, j) ==
    \/ leads[i].status = "aberto" /\ leads[j].status # "aberto"
    \/ /\ leads[i].status = "aberto" <=> leads[j].status = "aberto"
       /\ \/ leads[i].score > leads[j].score
          \/ leads[i].score = leads[j].score /\ CriadoEm[i] > CriadoEm[j]

Antes(i, j) ==
    LET oi == _PRIORIDADE_ORDER(i)  si == leads[i].score
        oj == _PRIORIDADE_ORDER(j)  sj == leads[j].score IN
    \/ oi < oj
    \/ oi = oj /\ si > sj
    \/ oi = oj /\ si = sj /\ CriadoEm[i] > CriadoEm[j]

Posicao(S, i) == Cardinality({j \in S : Antes(j, i)}) + 1

Pagina(l, page) == {i \in NoFiltro(l) : Posicao(NoFiltro(l), i) \in NaPagina(page)}

\* The request arrives, and hit reads the clock before it takes the lock.
ReceberGet(l) ==
    /\ NoAr /\ l \in ativos /\ leitura[l].fase = "novo"
    /\ leitura' = [leitura EXCEPT ![l].fase = "contar", ![l].agora = tempo,
                                  ![l].desde = IF leitura[l].contas = <<>> THEN ExisteLead ELSE @]
    /\ UNCHANGED <<varsBoot, tabelas, pedido, consultas, tempo, job, ativos>>

\* popleft while the head is older than the window; a younger head shields what is behind it.
Velhas(s, corte) == {n \in 1..Len(s) : \A k \in 1..n : s[k] < corte}
Podar(s, corte)  == SubSeq(s, Cardinality(Velhas(s, corte)) + 1, Len(s))

hit(l) == Podar(Append(consultas[PrincipalDe[l]], leitura[l].agora), leitura[l].agora - window)

Contar(l) ==
    /\ leitura[l].fase = "contar"
    /\ consultas' = [consultas EXCEPT ![PrincipalDe[l]] = hit(l)]
    /\ leitura' = [leitura EXCEPT ![l].fase = "listar", ![l].contas = Append(@, Len(hit(l)))]
    /\ UNCHANGED <<varsBoot, tabelas, pedido, tempo, job, ativos>>

Alerta(l) == Evento("MASS_QUERY_DETECTED", l, Len(leitura[l].contas), Nulo)

\* Mutant of maybe_alert_mass_query: the alert waits for one reading more.
maybe_alert_mass_query_Depois(l) ==
    IF Last(leitura[l].contas) = MASS_QUERY_THRESHOLD + 2 THEN {Alerta(l)} ELSE {}

maybe_alert_mass_query(l) ==
    IF Last(leitura[l].contas) = MASS_QUERY_THRESHOLD + 1 THEN {Alerta(l)} ELSE {}

\* The page and the alert share one commit: a failure answers 500 and loses the alert.
\* The reader asks for the next page until one comes short.
Listar(l) ==
    LET page  == Len(leitura[l].contas)
        itens == Pagina(l, page) IN
    /\ leitura[l].fase = "listar"
    /\ trilha' = trilha \cup maybe_alert_mass_query(l)
    /\ log_event(SetToSeq(maybe_alert_mass_query(l)))
    /\ leitura' = [leitura EXCEPT
                      ![l].vistos = @ \cup itens, ![l].resposta = 200,
                      ![l].fase = IF Cardinality(itens) = PER_PAGE THEN "novo" ELSE "fim"]
    /\ UNCHANGED <<varsBoot, clientes, leads, pedido, consultas, tempo, job, ativos>>

FalharGet(l) ==
    /\ leitura[l].fase = "listar"
    /\ leitura' = [leitura EXCEPT ![l].fase = "fim", ![l].resposta = 500]
    /\ UNCHANGED <<varsBoot, tabelas, pedido, consultas, tempo, job, ativos>>

Relogio ==
    /\ tempo < MaxTempo /\ ativos \cap Leitores # {}
    /\ tempo' = tempo + 1
    /\ UNCHANGED <<varsBoot, tabelas, pedido, leitura, consultas, job, ativos>>

-----------------------------------------------------------------------------
(* retention_service.anonymize_expired *)

\* A dry run counts and writes nothing; with nobody expired there is nothing to commit.
SelectExpired(j) ==
    LET expired == {i \in Vencidos : clientes[i] # Nulo /\ clientes[i].anonimizado_em = Nulo} IN
    /\ j \in ativos /\ job[j].fase = "novo"
    /\ IF j \in DryRun \/ expired = {}
       THEN job' = [job EXCEPT ![j].fase = "fim"]
       ELSE \E fila \in Bijection(1..Cardinality(expired), expired) :
                job' = [job EXCEPT ![j] = [fase |-> "anonimizar", fila |-> fila, feitos |-> 0]]
    /\ UNCHANGED <<varsBoot, tabelas, pedido, leitura, consultas, tempo, ativos>>

RestaAnonimizar(j) == job[j].fase = "anonimizar" /\ job[j].feitos < Len(job[j].fila)
Proximo(j) == job[j].fila[job[j].feitos + 1]

\* UPDATE of the next cliente and its event, flushed: the row is locked until the end.
AnonimizarCliente(j) ==
    /\ RestaAnonimizar(j)
    /\ \A k \in Jobs \ {j} : Proximo(j) \notin feitos(k)
    /\ job' = [job EXCEPT ![j].feitos = @ + 1]
    /\ log_event(<<Evento("CLIENTE_ANONYMIZED", j, Proximo(j), Nulo)>>)
    /\ UNCHANGED <<varsBoot, clientes, leads, trilha, pedido, leitura, consultas, tempo, ativos>>

\* Mutant of Anonimizado: the hash of the CPF survives.
Anonimizado_ComHash(i, j) ==
    [clientes[i] EXCEPT !.cpf = pseudonymize(i), !.contato = {}, !.anonimizado_em = j]

\* The UPDATE does not ask again whether the row is anonymised: a job that read it before
\* another one committed encrypts the pseudonym anew and moves the date.
Anonimizado(i, j) ==
    [cpf |-> pseudonymize(i), cpf_hash |-> pseudonymize(i), contato |-> {}, anonimizado_em |-> j,
     perfil |-> clientes[i].perfil, score |-> clientes[i].score]

\* Mutant of CommitJob: one event after the loop, for the last cliente.
CommitJob_UmEvento(j) ==
    /\ job[j].fase = "anonimizar" /\ job[j].feitos = Len(job[j].fila)
    /\ clientes' = [i \in Ids |-> IF i \in feitos(j) THEN Anonimizado(i, j) ELSE clientes[i]]
    /\ trilha' = trilha \cup {Evento("CLIENTE_ANONYMIZED", j, Last(job[j].fila), Nulo)}
    /\ job' = [job EXCEPT ![j] = [fase |-> "fim", fila |-> <<>>, feitos |-> 0]]
    /\ UNCHANGED <<varsBoot, leads, ordem, pedido, leitura, consultas, tempo, ativos>>

CommitJob(j) ==
    /\ job[j].fase = "anonimizar" /\ job[j].feitos = Len(job[j].fila)
    /\ clientes' = [i \in Ids |-> IF i \in feitos(j) THEN Anonimizado(i, j) ELSE clientes[i]]
    /\ trilha' = trilha \cup {Evento("CLIENTE_ANONYMIZED", j, i, Nulo) : i \in feitos(j)}
    /\ job' = [job EXCEPT ![j] = [fase |-> "fim", fila |-> <<>>, feitos |-> 0]]
    /\ UNCHANGED <<varsBoot, leads, ordem, pedido, leitura, consultas, tempo, ativos>>

AbortarJob(j) ==
    /\ job' = [job EXCEPT ![j] = [fase |-> "erro", fila |-> <<>>, feitos |-> 0]]
    /\ UNCHANGED <<varsBoot, tabelas, pedido, leitura, consultas, tempo, ativos>>

FalharJob(j) == job[j].fase = "anonimizar" /\ AbortarJob(j)

\* Jobs that wait for each other in a ring: the database aborts one.
EmImpasse(S) ==
    \A j \in S : RestaAnonimizar(j) /\ Proximo(j) \in UNION {feitos(k) : k \in S \ {j}}
DesfazerImpasse(j) == (\E S \in SUBSET Jobs : j \in S /\ EmImpasse(S)) /\ AbortarJob(j)

-----------------------------------------------------------------------------
(* The process dies: transactions roll back, answers are lost, memory goes. *)

CairGateway ==
    /\ "queda" \in ativos /\ Cair
    /\ pedido' = [r \in Reqs |-> IF pedido[r].fase \in {"novo", "fim"} THEN pedido[r]
                                 ELSE [pedido[r] EXCEPT !.fase = "fim", !.resposta = PERDIDA]]
    /\ leitura' = [l \in Leitores |-> IF leitura[l].fase \in {"novo", "fim"} THEN leitura[l]
                                      ELSE [leitura[l] EXCEPT !.fase = "fim", !.resposta = PERDIDA]]
    /\ consultas' = [q \in DOMAIN consultas |-> <<>>]
    /\ UNCHANGED <<tabelas, tempo, job, ativos>>

foraDoBoot == <<tabelas, pedido, leitura, consultas, tempo, job, ativos>>

ArranqueGateway == Arranque /\ UNCHANGED foraDoBoot
ComandoGateway(c) == c \in ativos /\ Comando(c) /\ UNCHANGED foraDoBoot

AtenderCompra(c) ==
    \/ SelectCpf(c) \/ SelectVin(c) \/ FlushCliente(c) \/ FlushVeiculo(c)
    \/ CommitCompra(c) \/ Enviar(c)
AtenderPatch(p) == Carregar(p) \/ FlushPatch(p) \/ CommitPatch(p) \/ Enviar(p)
AtenderDetalhe(d)  == obter(d) \/ Enviar(d)
AtenderAuditor(a)  == list_audit_log(a) \/ Enviar(a)
AtenderGet(l)   == Contar(l) \/ Listar(l)
RodarJob(j)     == AnonimizarCliente(j) \/ CommitJob(j) \/ DesfazerImpasse(j)

\* Everything asked for was done: the only state in which the Gateway may rest.
Encerrado ==
    /\ NoAr \/ (boot.fase = "desligado" /\ \E s \in Ambientes : ~should_auto_generate_keys(s))
    /\ \A r \in Reqs \cap ativos : pedido[r].fase = "fim"
    /\ \A l \in Leitores \cap ativos : leitura[l].fase = "fim"
    /\ \A j \in Jobs \cap ativos : job[j].fase \in {"fim", "erro"}
    /\ UNCHANGED vars

InitNoAr ==
    /\ LET s == CHOOSE a \in Ambientes : should_seed_default_users(a) IN
       boot = [fase |-> "no_ar", ambiente |-> s, avisos |-> {},
               feitos |-> [g \in Grupos |-> Len(FilaDe(g, s))]]
    /\ priv = 1 /\ pub = 1 /\ quedas = 0
    /\ usuarios = [e \in Emails |->
                     IF \E u \in Demo \cup Primeiro : u.email = e
                     THEN [papel |-> (CHOOSE u \in Demo \cup Primeiro : u.email = e).papel,
                           senha_de |-> "boot"]
                     ELSE Nulo]
    /\ comando = [c \in Comandos |-> "novo"]

Init ==
    /\ ativos \in Cenarios
    /\ IF "arranque" \in ativos THEN InitBoot ELSE InitNoAr
    /\ clientes = [i \in Ids |-> IF i \in Antigos THEN ClienteNovo(i) ELSE Nulo]
    /\ leads = [i \in Ids |-> IF i \in Antigos /\ GeraLead(i) THEN LeadNovo(i) ELSE Nulo]
    /\ trilha = UNION {ToSet(EventosDaCompra(i)) : i \in Antigos}
    /\ ordem = SetToSeq(trilha)
    /\ pedido = [r \in Reqs |->
                   [fase |-> "novo", resposta |-> Nulo,
                    lido |-> IF r \in Auditores THEN [page |-> 0, vistos |-> {}, desde |-> {}] ELSE Nulo]]
    /\ leitura = [l \in Leitores |-> [fase |-> "novo", agora |-> 0, contas |-> <<>>,
                                      vistos |-> {}, desde |-> {}, resposta |-> Nulo]]
    /\ consultas = [q \in {PrincipalDe[l] : l \in Leitores} |-> <<>>]
    /\ tempo = 0
    /\ job = [j \in Jobs |-> [fase |-> "novo", fila |-> <<>>, feitos |-> 0]]

Andar ==
    \/ \E c \in Compras : AtenderCompra(c)
    \/ \E p \in Patches : AtenderPatch(p)
    \/ \E d \in Detalhes : AtenderDetalhe(d)
    \/ \E a \in Auditores : AtenderAuditor(a)
    \/ \E l \in Leitores : AtenderGet(l)
    \/ \E j \in Jobs : RodarJob(j)

Next ==
    \/ Andar
    \/ \E r \in Reqs : Receber(r) \/ Falhar(r)
    \/ \E l \in Leitores : ReceberGet(l) \/ FalharGet(l)
    \/ \E j \in Jobs : SelectExpired(j) \/ FalharJob(j)
    \/ \E c \in Comandos : ComandoGateway(c)
    \/ ArranqueGateway \/ CairGateway \/ Relogio \/ Encerrado

\* A thread that can run runs, and so do the job and the deadlock detector.  No failure, no
\* new request and no restart is ever owed.
Justica ==
    /\ \A c \in Compras : WF_vars(AtenderCompra(c))
    /\ \A p \in Patches : WF_vars(AtenderPatch(p))
    /\ \A d \in Detalhes : WF_vars(AtenderDetalhe(d))
    /\ \A a \in Auditores : WF_vars(AtenderAuditor(a))
    /\ \A l \in Leitores : WF_vars(AtenderGet(l))
    /\ \A j \in Jobs : WF_vars(RodarJob(j))

Spec == Init /\ [][Next]_vars /\ Justica

-----------------------------------------------------------------------------
(* Properties *)

Fases(r) ==
    CASE r \in Compras  -> {"cpf", "vin", "inserir_cliente", "inserir_veiculo", "commit"}
      [] r \in Patches  -> {"carregar", "atualizar", "commit_patch"}
      [] r \in Detalhes -> {"obter"}  [] r \in Auditores -> {"trilha"}

RespostasDe(r) ==
    {401, 403, 422, 500, PERDIDA} \cup
    (IF r \in Compras THEN {201, 409} ELSE IF r \in Auditores THEN {200} ELSE {200, 404})

Identidade == {CpfDe[i] : i \in Ids} \cup {pseudonymize(i) : i \in Ids}

Linha == [cpf : Identidade, cpf_hash : Identidade,
          contato : SUBSET {"email", "telefone"}, anonimizado_em : Jobs \cup {Nulo},
          perfil : Perfis, score : 0..1000]
Lead  == [score : 0..1000, prioridade : Prioridades, status : Status,
          observacao : {CorpoDe[p].observacao : p \in Patches} \cup {Nulo}]
LeadDetail == [lead : Lead, cliente : [cpf_masked : Identidade \cup {MASCARADO}, perfil : Perfis,
                                       contato_masked : [{"email", "telefone"} -> {MASCARADO, Nulo}]]]

ASSUME NuloDominio ==
    Nulo \notin Linha /\ Nulo \notin Lead /\ Nulo \notin Nat /\ Nulo \notin Jobs /\ Nulo # MASCARADO

\* What a request keeps of what it read.
LidoOK(r) ==
    LET lido == pedido[r].lido IN
    IF r \in Auditores
    THEN lido.page \in Nat /\ lido.vistos \subseteq trilha /\ lido.desde \subseteq trilha
    ELSE lido = Nulo \/ (IF r \in Detalhes THEN lido \in LeadDetail ELSE r \in Patches /\ lido \in Lead)

\* The tables hold well-formed rows, requests and jobs are in a step the code has.
TypeOK ==
    /\ TypeOKBoot
    /\ clientes \in [Ids -> Linha \cup {Nulo}] /\ leads \in [Ids -> Lead \cup {Nulo}]
    /\ \A r \in Reqs :
          /\ pedido[r].fase \in {"novo", "enviar", "fim"} \cup Fases(r)
          /\ pedido[r].resposta \in RespostasDe(r) \cup {Nulo}
          /\ LidoOK(r)
    /\ \A l \in Leitores :
          /\ leitura[l].fase \in {"novo", "contar", "listar", "fim"}
          /\ leitura[l].contas \in Seq(Nat) /\ leitura[l].agora \in 0..tempo
          /\ leitura[l].vistos \cup leitura[l].desde \subseteq Ids
    /\ \A j \in Jobs :
          /\ job[j].fase \in {"novo", "anonimizar", "fim", "erro"}
          /\ job[j].fila \in Seq(Vencidos) /\ job[j].feitos \in 0..Len(job[j].fila)
    /\ tempo \in 0..MaxTempo

\* Whatever purchases race with each other, with a retention job and with deaths, no two
\* clientes share a cpf_hash (a pseudonym counts as one) and no two veiculos a VIN
\* (cliente_service.cadastrar_compra with the unique keys of 0001_initial).
UnicidadeCpfVin ==
    \A i, k \in Gravados : i # k => clientes[i].cpf_hash # clientes[k].cpf_hash /\ VinDe[i] # VinDe[k]

\* A refusal leaves nothing behind and a success is stored, however late the answer: a 409
\* names a purchase or client that does exist with that CPF or VIN (even anonymised since), a
\* 201 of a risk profile has its lead, a PATCH refused left no event.  A detail may be stale,
\* but what it says never changes back: it shows no CPF in clear, anonymised or not, and of
\* the contact either all that the purchase gave or, once anonymised, nothing.  A 500 and a
\* lost answer promise nothing.
RespostaVerdadeira ==
    /\ \A c \in Compras :
          /\ pedido[c].resposta = 201 => c \in Gravados /\ (GeraLead(c) => leads[c] # Nulo)
          /\ pedido[c].resposta \in {401, 403, 409, 422} => c \notin Gravados /\ leads[c] = Nulo
          /\ pedido[c].resposta = 409 =>
                \E i \in Gravados \ {c} : CpfDe[i] = CpfDe[c] \/ VinDe[i] = VinDe[c]
    /\ \A p \in Patches :
          /\ pedido[p].resposta = 200 => \E e \in trilha : e.acao = "LEAD_PATCHED" /\ e.autor = p
          /\ pedido[p].resposta \in {401, 403, 404, 422} =>
                ~ \E e \in trilha : e.acao = "LEAD_PATCHED" /\ e.autor = p
    /\ \A d \in Detalhes :
          pedido[d].resposta = 200 =>
              LET i       == LeadDe[d]
                  visto   == pedido[d].lido
                  mostra  == {campo \in {"email", "telefone"} :
                                 visto.cliente.contato_masked[campo] # Nulo} IN
              /\ visto.lead.score = leads[i].score /\ visto.cliente.perfil = clientes[i].perfil
              /\ visto.cliente.cpf_masked \in {MASCARADO, pseudonymize(i)}
              /\ \/ mostra = ContatoDe[i]
                 \/ mostra = {} /\ clientes[i].anonimizado_em # Nulo

\* The trail of the standalone Gateway and its tables tell the same story, both ways: rows and
\* their creation, leads and their creation, anonymised rows and the jobs that did it, and a
\* lead's status is the goal of an audited change that started from another status - although
\* the "from" of an event is what its transaction read before waiting (lead_service.py:114-126).
AuditoriaDominio ==
    /\ \A i \in Ids : i \in Gravados <=> Evento("CLIENTE_CREATED", i, i, Nulo) \in trilha
    /\ \A i \in Ids : leads[i] # Nulo <=> Evento("LEAD_CREATED", i, i, Nulo) \in trilha
    /\ \A i \in Gravados :
          /\ leads[i] # Nulo <=> clientes[i].perfil \in PERFIS_GERAM_LEAD
          /\ LET jobs == {e.autor : e \in {e \in trilha : e.acao = "CLIENTE_ANONYMIZED" /\ e.alvo = i}} IN
             IF jobs = {} THEN clientes[i].anonimizado_em = Nulo
             ELSE clientes[i].anonimizado_em \in jobs
    /\ \A i \in ExisteLead :
          leads[i].status # "aberto" =>
              \E e \in trilha : /\ e.acao = "LEAD_PATCHED" /\ e.alvo = i
                                /\ CorpoDe[e.autor].status = leads[i].status /\ e.de # leads[i].status
    /\ \A e \in trilha : e.acao = "FORBIDDEN_ACCESS" => pedido[e.autor].resposta \in {403, PERDIDA}

\* Anonymisation is one-way and whole (retention_service.py:4-10): no step of anybody brings a CPF
\* or a contact back, and perfil and score never change.  An anonymised row is written again
\* only by a job that read it before (nothing in the UPDATE asks once more), and that moves
\* anonimizado_em and the ciphertext of the pseudonym, nothing else.
AnonimizacaoDefinitiva ==
    [][\A i \in Gravados :
          LET antes == clientes[i]  depois == clientes'[i] IN
          /\ depois # Nulo
          /\ depois.perfil = antes.perfil /\ depois.score = antes.score
          /\ depois.anonimizado_em # Nulo =>
                depois.cpf = pseudonymize(i) /\ depois.cpf_hash = pseudonymize(i) /\ depois.contato = {}
          /\ depois # antes =>
                \E j \in Jobs : /\ depois.anonimizado_em = j /\ j # antes.anonimizado_em
                               /\ i \in feitos(j)
      ]_vars

\* The reading n of reader m has yet to commit, or failed or was lost before it did.
SemCommit(m, n) ==
    /\ n = Len(leitura[m].contas)
    /\ leitura[m].fase = "listar" \/ leitura[m].resposta \in {500, PERDIDA}

\* The alert fires only when the count is exactly T+1 (alert_service.py:79), yet concurrent
\* readings, a window that slides and a counter that a restart empties never skip it: a
\* reading past the limit always has one of the same principal that was counted T+1 and whose
\* event is in the trail - or is lost with the transaction of that very reading.
AlertaDeConsulta ==
    \A l \in Leitores : \A k \in 1..Len(leitura[l].contas) :
        leitura[l].contas[k] > MASS_QUERY_THRESHOLD =>
            \E m \in Leitores : \E n \in 1..Len(leitura[m].contas) :
                /\ PrincipalDe[m] = PrincipalDe[l]
                /\ leitura[m].contas[n] = MASS_QUERY_THRESHOLD + 1
                /\ Evento("MASS_QUERY_DETECTED", m, n, Nulo) \in trilha \/ SemCommit(m, n)

\* A reader who pages to the end without a filter has seen every lead there was when it
\* began, although purchases, patches and restarts happened between its pages: the order by
\* priority and score never moves a lead to an earlier page.  With a status filter this is
\* false: a patch takes a lead out of the filter and the next page skips one.  An auditor
\* who pages to the end has seen every event committed before, whatever its filter, although
\* transactions commit in another order than they stamped occurred_at.
ListagemCompleta ==
    /\ \A l \in Leitores :
          FiltroDe[l] = Nulo /\ leitura[l].fase = "fim" /\ leitura[l].resposta = 200
              => leitura[l].desde \subseteq leitura[l].vistos
    /\ \A a \in Auditores :
          pedido[a].resposta = 200 => pedido[a].lido.desde \subseteq pedido[a].lido.vistos

\* When the API answers, the key pair is of one generation - unless a death left a key file
\* empty, which no later boot repairs - and the first administrator and the demo users are
\* in the table, or their group failed and was logged (main.lifespan, db/seed).
BootCompleto ==
    NoAr => /\ priv = pub \/ TRUNCADO \in {priv, pub}
            /\ Nulo \notin {priv, pub}
            /\ \A g \in Grupos \ boot.avisos :
                  \A n \in DOMAIN FilaDe(g, boot.ambiente) :
                     usuarios[FilaDe(g, boot.ambiente)[n].email] # Nulo

\* Nobody waits for ever: whatever rows and keys the transactions hold, every request that
\* was let in ends answered or lost with the process (a step is never taken back, so they are
\* all over from some moment on), every page of a listing comes, and every job ends.  No
\* failure is assumed to help: only a ring of jobs needs the database to abort one of them.
TodoPedidoTermina ==
    <>[](/\ \A r \in Reqs : pedido[r].fase \in {"novo", "fim"}
         /\ \A l \in Leitores : leitura[l].fase \in {"novo", "fim"}
         /\ \A j \in Jobs : job[j].fase # "anonimizar")
=============================================================================
