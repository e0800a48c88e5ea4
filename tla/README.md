# PrevioPLS: specification and proofs

TLA+ models of the state-changing parts of PrevioPLS, the configurations that
check them with TLC, and machine-checked proofs of the theorems about the
services. Names of variables, actions and operators are those of the code, in its
own language, wherever TLA+ allows it. Every definition that stands for code is
listed in `PROJECT.json` under `map`, with its file and lines.

## 1. The system

PrevioPLS predicts which buyers of a car will abandon the dealer's workshop, opens
a *lead* for each of them and gives the leads to consultants.

```
 consultor-mobile ─┐                      ┌── ml-api (classifier) <── notebook, train.py
                   ├─> Gateway ──HTTP──> Core
 admin-web ────────┘   (FastAPI)          (Spring Boot) <── V3 seed (build_seed.py)
                         │ own DB           │ own DB, HikariCP pool
```

| component | state it keeps | operations that change it | what is hard | modules |
|---|---|---|---|---|
| **Core, purchases and leads** (`services/core`: `ClienteService`, `LeadService`, `MlService`, `AuditService`) | clientes, veiculos, leads, audit_logs; connections of the pool; each transaction's persistence context | `cadastrarCompra`, `atualizarStatus`, the `REQUIRES_NEW` audit | check-then-insert races; a second connection taken while holding one; an audit that commits before what it tells of; a remote call inside a transaction; whole-row updates without a version | `RegistroCompras`, `CoreDomain` |
| **Core, login and filters** | login_attempts, fixed-window counters, request context | login, count and refuse | counters of concurrent threads | token check in `GatewayTokens`; the rest not modelled |
| **Gateway, sessions** (`auth_service`, `lockout_service`, `alert_service`) | refresh_tokens, login_attempts, audit_logs; counters in memory | `login`, `refresh`, `logout` | read-then-write of `revoked` under READ COMMITTED; lockout read before bcrypt; a refusal is an exception and skips the commit; restarts forget the counters | `GatewayAuth` |
| **Gateway, proxy** (`core_client`, handlers of clientes and leads) | audit_logs at the edge, `_warmup_running` | `forward`, audit after success, `warm_up_core` | a timeout whose call still reaches the Core; an edge commit that fails after the Core's succeeded; retries; single flight with a thread that may not start | `EdgeProxy` |
| **Gateway, standalone domain** (`cliente_service`, `lead_service`, `ml_service`, `audit_service`, mass-query alert) | clientes, veiculos, leads, audit_logs in the Gateway's database; the query counter | purchases, patches, details, listings, the audit listing | INSERTs that wait for each other; a decision on what was read before a wait; pages over an order that changes; a process that dies | `GatewayDominio`, `ClassificadorLocal` |
| **Gateway, retention** (`retention_service`) | the same tables, from a process of its own | `anonymize_expired` | row locks in a ring of two jobs; purchases of a CPF that is being anonymised | `GatewayDominio` |
| **Gateway, door and boot** (`security`, `hmac_signing`, `config`, `seed`, `main.lifespan`) | two key files, usuarios | token and signature checks, roles; `ensure_jwt_keys`, first administrator, demo users, the seed command | three kinds of token that must not be confused; a death between two key files | `GatewayTokens`, `GatewayBoot` |
| **ml-api** (`main.py`, `predictor.py`, `build_default_model.py`) | the model file, the image, the process | load and check, `predict` | what a file shows of the model in it | `MotorPreditivo` |
| **Training and notebook** (`previoPLS_ml.ipynb`, `build_notebook.py`, `train.py`) | sales, kernel, exported model | cells, in any order; a training run | leakage of later purchases; cells skipped or run twice | `Caderno`, `MotorPreditivo` |
| **Demonstration data** (`build_seed.py`) | the V3 migration, Flyway's history | generate, load at start | sampling at its limits; a file generated again | `SementeDemo` |
| **consultor-mobile** (`store/`, `lib/`) | list in memory and in AsyncStorage, known critical ids, token in SecureStore and in memory | hydrate, fetch, refresh, patch, login, logout, 401 | every `await` lets another operation in: late answers, two writes that are not one | `ConsultorMobile` |
| **admin-web** (`backend-error-card.tsx`, API routes, pages) | retry countdown, session cookies | retry, login, logout | nothing that its own code decides | not modelled |
| field encryption, LLM assistant, screens, middleware, deployment | none, or none of the system's | – | – | not modelled |

Interactions: mobile and web call the Gateway over HTTP. With `CORE_API_URL` set the
Gateway forwards purchases and patches to the Core with a short-lived internal token
and keeps only sessions and its own audit trail; without it, it serves the domain
from its own database. The Core calls ml-api synchronously, inside the purchase's
transaction; the standalone Gateway classifies with a stub of its own. Nothing is shared
between services but those calls and, inside the Gateway, its database, two in-memory
counters and the key files. The retention job runs outside the server against the same tables.

Correctness, component by component:

- *Core*: CPF and VIN are unique and a purchase is all or nothing; what a caller was
  told stays true; nothing committed lacks its audit event; a lead exists exactly for
  risk profiles and no patch changes how it was classified; connections are never
  leaked or overdrawn; every request is answered.
- *Gateway, sessions*: no login goes without trail; a bounded number of passwords per
  lockout window; a burst raises the alert; what was revoked stays revoked and every
  token is chained to the login of the same user.
- *Gateway, proxy*: a success is true and audited; the edge trail tells nothing that
  did not happen; a retry is safe; a refusal is final; one warm-up at a time.
- *Gateway, standalone and retention*: unique CPF and VIN against purchases and
  pseudonyms alike; answers that are true and stay true; trail and tables tell the same
  story both ways; anonymisation is one-way and whole; nobody waits for ever; a
  complete listing misses nothing; reading beyond the limit raises the alert.
- *Gateway, door and boot*: a token opens one door only, for its lifetime; what serves
  has a matching key pair and its users.
- *ml-api, training, seed*: only known perfis from features a purchase has at D0; Base 2
  never learns of a later purchase; the Core comes up on all of one seed or not at all.
- *consultor-mobile*: no critical lead is shown that was not notified; no spinner is
  left on; the offline copy is the list; a card vanishes only if its lead was handled;
  a logout is complete.

`PROJECT.json` lists, under `hazards`, each place of the code that is hard to test, the
properties that would catch it going wrong, and why the few others have none.

## 2. Modules

| module | models | kind |
|---|---|---|
| `RegistroCompras` | what the Core promises: each operation atomic | abstract specification |
| `CoreDomain` | the Core's purchases and patches, step by step | component |
| `EdgeProxy` | the Gateway in front of the Core, composed with `RegistroCompras` (`Core == INSTANCE RegistroCompras`), and `warm_up_core` | composition |
| `GatewayAuth` | login, refresh, logout, lockout and alert of the Gateway | component |
| `GatewayTokens` | the three kinds of token, who accepts which, the signed body | operators |
| `GatewayBoot` | key pair, first users, seed command, deaths; uses `GatewayTokens` | component |
| `ClassificadorLocal` | the classifier stub and the priority of a score | operators |
| `GatewayDominio` | the standalone Gateway over `GatewayBoot` and `ClassificadorLocal`, with retention jobs | composition |
| `Caderno` | the sales, the notebook's cells and its export | component |
| `MotorPreditivo` | from a model file to an answer of `/predict`; over `Caderno` | component |
| `SementeDemo` | the generator of the demonstration data and Flyway; uses `ClassificadorLocal` | component |
| `MotorEDados` | one of sales, notebook, models or seed per behaviour | composition |
| `ConsultorMobile` | the app's leads store, offline cache, notifications and session | component |
| `CoreDomainProofs`, `EdgeProxyProofs`, `GatewayAuthProofs`, `GatewayBaseProofs` (tokens, classifier, boot), `GatewayDominioProofs`, `GatewayLeituraProofs`, `MotorEDadosProofs`, `ConsultorMobileProofs` | theorems | proofs |
| `MCCoreDomain`, `MCGatewayAuth`, `MCEdgeProxy`, `MCGatewayDominio`, `MCMotorEDados`, `MCConsultorMobile` | values and symmetry for TLC | model checking |

`CoreDomain` implements `RegistroCompras` (checked by `core_domain`, proved by
`CoreImplementaRegistro`), and `EdgeProxy` builds on `RegistroCompras`: what it says of the
edge holds over the real Core as far as the registry goes.

### CoreDomain

A request is a process with a `pc`. Its steps are the points where others can come
in between: borrowing a connection, each SELECT, the call to ml-api, the two halves
of an audit, the commit.

| action | code |
|---|---|
| `AbrirTransacao` | `@Transactional` borrows a connection |
| `ExistsByCpf`, `ExistsByVin` | the two checks of `cadastrarCompra`, 409 |
| `Classificar` | `MlService.classificar`, any answer or none, with its fallback |
| `AbrirAuditoria`, `GravarAuditoria` | `AuditService.log`, `REQUIRES_NEW`: second connection, insert, commit |
| `CommitCompra` | flush and commit; the unique indexes decide, 500 for the loser |
| `FindByIdWithDetails`, `CommitPatch` | `atualizarStatus`: load, change the managed entity, write the whole row |
| `EsgotarEspera` | `connectionTimeout`: exception, rollback, 500 |

What a transaction has read or saved but not committed is in `resultado`, `copia` and
`anterior`, never in the tables. PostgreSQL makes a conflicting INSERT wait for the
other transaction; as the INSERTs are flushed at the end, wait and commit are one
step here, decided by what is committed then. Rows are named by the request that
creates them, since ids are fresh UUIDs. Scores are integers in hundredths.

### GatewayAuth

The handlers are plain functions, run by FastAPI in a pool of `Threads` threads, each
with a database session whose writes exist for the others from its commit on. Steps:
`IsLocked`, `VerifyPassword` (bcrypt, then the in-memory counter), `CommitLogin`,
`LerRefresh`, `CommitRefresh`, `LerLogout`, `CommitLogout`, and `Enviar`, the answer
reaching the client. The limit of the alert is a constant of its own, `FALHAS_DO_ALERTA`: the code has the
literal 5 there (`alert_service.py:64`), beside the setting `lockout_max_failures` of the lock.
`Reiniciar` kills the process at any point: transactions, answers
on their way and counters are lost, tables are kept. `Tick` moves the clock, so
lockout windows and token expiry are explored at their limits.

### EdgeProxy

`Encaminhar` sends the call (or fails to connect), the Core serves it at its own pace
(`CoreAtendeCompra`, `CoreAtendePatch`, `CoreRecusaToken`) even after
`CoreIndisponivel` - the timeout - has answered 503 to the caller, `ReceberDoCore`
maps the answer (401 becomes 502) and `AuditarNaBorda` commits the edge audit, or fails
to. `MarcarAquecimento`, `IniciarThread`, `TerminarAquecimento` are the three steps of
`warm_up_core`. `Reiniciar` loses the requests in flight; the Core goes on.

### GatewayTokens, GatewayBoot

A signature is the key that made it and a token the record of its claims; a claim the
code does not emit is not in its domain. `create_access_token`, `create_refresh_token`
and `create_internal_token` build them, `decode_token`, `current_principal` and `parse`
(the Core's `JwtService`) accept them, `Assinada` is the HMAC check with its clock skew.

`GatewayBoot` is `main.lifespan`: `Ligar` reads this start's settings, `ensure_jwt_keys`
and `gravar_pub` write the two files one after the other, `SelectUsuario` and
`InserirUsuario` run through the first administrator and the demo users: two queues
(`FilaDe`), each with the number of users dealt with (`boot.feitos`), and a group that
fails is logged and skipped (`FalharSeed`, `Abandonar`). `Subir` starts serving. `Cair`
may come anywhere, between opening a key file and filling it included; `Comando` is the
command line that creates users in the same table.

### GatewayDominio

One action per statement or commit of a handler, under READ COMMITTED: a SELECT sees
what is committed, an INSERT of a key another transaction holds or an UPDATE of its row
waits (a guard on what others have flushed).

| action | code |
|---|---|
| `Receber` | the dependencies, in their order: JSON, signature, token, role (refused and audited), schema |
| `SelectCpf`, `SelectVin`, `FlushCliente`, `FlushVeiculo`, `CommitCompra` | `cadastrar_compra`: two SELECTs, two flushes that may meet a key, one commit of cliente, classification, lead and events |
| `Carregar`, `FlushPatch`, `CommitPatch` | `atualizar_status`: load, flush of the columns that differ and of the event, commit |
| `obter` | one lead with its cliente, PII masked |
| `ReceberGet`, `Contar`, `Listar` | a page of leads: the counter with its sliding window, the SELECT and the alert in one commit |
| `list_audit_log` | a page of the trail, newest first; `ordem` is the order of `occurred_at`, which uncommitted events have too |
| `SelectExpired`, `AnonimizarCliente`, `CommitJob` | `anonymize_expired`: SELECT in any order, one locked row after the other, one commit |
| `DesfazerImpasse` | the database aborts a job of a ring |
| `Falhar`, `FalharGet`, `FalharJob`, `CairGateway`, `Enviar`, `Relogio` | failures before the commit, the death of the process, answers, time |

A `500` may also answer a commit that did happen (the connection broke in the COMMIT).

A row of `clientes` keeps which of email and telefone it has (`ContatoDe`: both are optional, so a live
cliente may have none) and, in `anonimizado_em`, the job that anonymised it, which stands for that date
and for the ciphertext written with it. The UPDATE of a job does not ask again whether the row was
anonymised since its SELECT, so a second job may write it once more (`Anonimizado(i, j)`).

### ClassificadorLocal, Caderno, MotorPreditivo, SementeDemo, MotorEDados

`ClassificadorLocal` computes perfil, score in thousandths and priority from the two
digest bytes the stub looks at. `Caderno` has the sales (`Faturar`), `base2` - the first
purchase of each customer - and one action per cell of the notebook with the names it
needs and defines; K-Means may number its clusters as it likes.
`map_clusters_to_personas` and the choice of the best model are evaluated on the
outputs the notebook keeps (`PersonasConferem`, `EscolhaConfere`).
`MotorPreditivo` publishes a file (notebook, `train`, `build_default_model`, or a model
from outside), builds the image, boots (`load_model` with `_check_anti_leakage` and
`_validate_classes`) and answers (`predict`, `post_predict`). `SementeDemo` reads rows
(`LerLinha`) until four times the sample is seen, samples every `step`-th hash, writes the
three INSERTs (`Escrever`) and lets the Core apply them (`SubirCore`). The four subjects share
no state, so `MotorEDados` follows one of them (`frente`) in each behaviour.

### ConsultorMobile

One JavaScript thread: each operation (`Listagens` for `fetchLeads` and `refreshLeads`,
`Patches`, `Logins`, `Logouts`) has a `pc` that names the await it is suspended at and a
record of its local variables; what lies between two awaits is one action. A listing goes
`Montar` - `LerCache` - `Hidratar` (or starts at `IniciarFetch`, `IniciarRefresh`), then
`Enviar` (the interceptor reads the token), the server's answer, `Notificar` once per new
critical lead, `ConcluirListagem` (the `set`) and `Gravar` (the cache). `Falhar` is the
catch and the finally. A 401 takes an operation through the two removals of
`clearSession` and `Esquecer` (AUTH_EXPIRED) to its catch; `logout` shares those steps. The detail screen
of a lead reads it first (`AbrirDetalhe`, `AtenderDetalhe`), through the same interceptors and so with the
same 401, and its button then sends the patch (`IniciarPatch`, `AtenderPatch`).
`AsyncStorage` serves its calls in order, so pending writes are a queue, and any call of
it may fail; `SecureStore` is taken not to fail. `Reabrir` is the kill of the app and its next
`bootstrap`: memory, pending writes and suspended operations are gone.

## 3. Runs

| run | question | bounds |
|---|---|---|
| `core_domain` | tables, answers, trail and connections under races and exhausted waits; every request answered; callers see an atomic registry | 2 purchases, 1 patch, 2 CPFs, 2 VINs, pool of 2, three classifier answers and none |
| `core_patch_parcial` (violation) | is a PATCH partial? | 1 purchase, 2 patches |
| `gateway_lockout` | trail, limit of attempts, alert | 4 logins of one account, 2 threads, limit 2, lock 2 and window 1 ticks, 5 instants, 1 restart |
| `gateway_sessoes` | tokens: chained, revoked for good, spent a limited number of times | 2 logins, 3 refreshes, 1 logout, 2 accounts, 2 threads, expiry after 1 tick, 1 restart |
| `gateway_refresh_unico` (violation) | is a refresh token used once? | 1 login, 2 refreshes |
| `gateway_rajada` (violation) | is the lock set only by a burst? | as `gateway_lockout`, no restart |
| `edge_proxy` | what timeouts, failed commits and restarts do to answers, edge trail and retries | 2 purchases, 1 patch, 2 CPFs, 2 VINs, 2 warm-ups, 1 restart |
| `gateway_dominio` | the standalone Gateway: keys, answers, trail, anonymisation, listings, mass-query alert, boot, and that nobody waits for ever | eleven scenarios of two to four actors, 1 death, 3 instants, pages of one row, query limit 2 |
| `motor_preditivo` | what ml-api may serve, what Base 2 may know, what the Core loads as a seed | sales: 3 invoices of 2 customers; notebook: an extract of 24 customers, two labellings; models: 2 files put in place, 2 requests; seed: 4 vehicles, 5 rows, samples of 0, 1, 2, 2 files |
| `ml_treino_ford` (violation) | does train.py write a model from a labelled dataset? | as `motor_preditivo` |
| `mobile_leads` | notifications, spinners, offline copy and session under overlapping operations, failures and a kill | one critical and one other lead, 2 listings, 1 patch, 1 login, 1 logout, 1 kill |
| `mobile_notifica_novo` (violation) | is only a lead that is not in the cache notified? | 1 critical lead, 2 listings, 1 kill |

What the passing runs check:

- `core_domain`: `TypeOK`, `UnicidadeCpfVin`, `ConexoesCorretas`, `RespostaFiel`, `AuditoriaCompleta`,
  `LeadCoerente`, `ClassificacaoImutavel`, the liveness `TodaRequisicaoRespondida` and the refinement
  `RefinaRegistro`.
- `gateway_lockout`: `LoginDeixaRastro`, `LimiteDeTentativas`, `AlertaDeForcaBruta`.
  `gateway_sessoes`: `TypeOK`, `LimiteDeUsos`, `SessaoEncadeada`, `DenyListDefinitiva`.
- `edge_proxy`: `TypeOK`, `SucessoAuditado`, `AuditoriaFundada`, `RetryConclusivo`,
  `UmAquecimentoPorVez`, `RecusaFinal`.
- `gateway_dominio`: `TypeOK`, `UnicidadeCpfVin`, `RespostaVerdadeira`, `AuditoriaDominio`,
  `AlertaDeConsulta`, `ListagemCompleta`, `BootCompleto`, `AnonimizacaoDefinitiva` and the liveness
  `TodoPedidoTermina`.
- `motor_preditivo`: `SoContrato`, `SementeCarrega`, `D0Imutavel`.
- `mobile_leads`: `TypeOK`, `CriticoNotificado`, `IndicadorNaoPreso`, `EspelhoOffline`, `SaidaCompleta`,
  `SomeSoTratado`.

Why the bounds are enough. Races in this code are between two requests: two on one
key, one row or one flag; the third party is always the database, the pool or the
Core. A pool of 2 with three requests lets all connections be held by open
transactions that want a second one, the state in which nobody can go on. Four
logins with a limit of two leave two attempts beyond the limit: one for the other
thread and one that must be refused. With three refreshes a token can be used twice and
its descendant once more. In `edge_proxy` a purchase and its retry are the two
purchases; the patch hits either's lead. In `mobile_leads` two listings overlap each
other, the patch and the end of the session; a third would meet the same shared
variables (list, known ids, two flags, cache queue) in a state the first two can
already produce.

In `gateway_dominio` the states of actors that do not meet only multiply, so each behaviour
follows one scenario of `MCCenarios`, chosen at the start:

| actors | what meets |
|---|---|
| `c1 c2 c3 j1` | three purchases with a CPF and a VIN in common, one of them with the CPF of a row that a job is anonymising |
| `c3 j1 j2`, death | that purchase between two jobs, which may lock each other out |
| `p1 p2 p3` | three patches of one lead, one of them with the status it already has |
| `c1 p4`, death | a purchase and a patch that needs its lead |
| `l1 l2` | two readers of one user, unfiltered and filtered, with the clock |
| `l1 c1 p4` | a reader between a purchase and a patch of the new lead |
| `l1`, death | a counter that is forgotten |
| `d1 p1 j1`, death | a detail beside a patch and the anonymisation of its cliente |
| `u1 p1 p2` | an auditor of everything beside two patches, stamped and committed in different orders |
| `u2 c1` | an auditor with a filter beside a purchase |
| boot, `k1`, death | a first boot, the seed command, a death and the next boot, in three environments |

Pages hold one row and the query limit is two, so that a reader passes the limit with its
third page, and the pseudonym of `a1` has eleven digits, which `mask_cpf` takes for a
CPF. One purchase gives an email, one a telefone and one neither; of the two rows from before one has both and one a telefone. In
`core_domain` ml-api answers with scores at the limits of the bands (0.85 and 0.84, beside 0.20). The theorems lift these bounds for everything the passing runs check but liveness: section 4 says under which
assumptions.

Symmetry is declared in the MC modules only over requests of one kind and over
CPFs, VINs, accounts: no operator compares or orders them. No run that checks liveness
declares symmetry, and neither `gateway_dominio` nor `motor_preditivo` does.

Bounds inside the modules, all in guards: `MaxTempo` (clocks), `MaxReinicios` and
`MaxQuedas` (deaths of the Gateway), `MaxMortes` (kills of the app), `MaxFaturas` (sales),
`MaxPublicacoes` (model files), `MaxLinhas` and `MaxVersoes` (rows read and files written by
the generator). A page of the app's list holds every lead (`per_page` 100).

Deadlock. `CoreDomain` ends in the explicit step `Ocioso` and `GatewayDominio` in
`Encerrado` - all that was asked for is done, and the process serves or was stopped by
its configuration - so any other state without a successor is reported. `GatewayAuth`,
`EdgeProxy` and `ConsultorMobile` stop when the finite requests are served and the clock is
at its bound, and `MotorEDados` when the extract of sales ends; their cfgs say
`CHECK_DEADLOCK FALSE`.

Fairness. `CoreDomain!Spec` has weak fairness for each request's service steps
(`Atendimento(r)`) and none for arrivals: a servlet thread that can run is scheduled by
the operating system, a wait for a connection ends by `connectionTimeout`, and the call
to ml-api by `CLIENT_TIMEOUT`, so a step that stays possible is taken. No strong fairness is
assumed: a request waiting for a connection while others keep taking them may time out
and is then answered 500, which is what the code does. `GatewayDominio!Justica` is weak
fairness for the steps of each request that was let in, of each reader and of each job,
the deadlock detector included (PostgreSQL runs it after `deadlock_timeout`): a transaction that
waits for a row is resumed by the database when the holder ends. No arrival, failure, death or
restart is fair, so termination never rests on one. `GatewayAuth`, `EdgeProxy`,
`MotorEDados` and `ConsultorMobile` state no fairness, for they are checked for safety only.

Each property of a passing run has a mutant in `PROJECT.json`: a changed definition,
kept beside the original and marked "Mutant of", that a plausible bug would
produce and that the run then rejects.

### Where code and documents disagree

1. **A patch is not partial** (`core_patch_parcial`). `services/core/README.md:412` calls
   it "PATCH (parcial)", and a body without `observacao` does leave the setter uncalled,
   but `Lead` has neither `@Version` nor `@DynamicUpdate`: the UPDATE writes every
   column from the entity read before, and an `observacao` committed in between is lost.
2. **A refresh token can be used more than once** (`gateway_refresh_unico`).
   `docs/threat-model.md:47`: "Refresh usado é revogado; tentar usar 2x → 401". Two
   requests that read the row before either commits are both answered 200. What
   holds is `LimiteDeUsos`: at most one use per thread, logouts included.
3. **The lock is not set by a 60 s burst** (`gateway_rajada`).
   `services/gateway/README.md:92`: "Lockout: 5 falhas/60s → 15 min de bloqueio".
   `is_locked` counts over `lockout_duration_seconds`; `lockout_window_seconds` is
   read nowhere.
4. **A lead of the cache is notified again** (`mobile_notifica_novo`).
   `apps/consultor-mobile/README.md:125`: "um lead novo com `prioridade === 'critica'` que ainda
   não estava no cache". The code compares with ids kept in memory, not with the cache.
5. **Retraining never writes a model** (`ml_treino_ford`). `services/ml/api/app/train.py:5`: "O modelo
   gerado substitui o ml_model.pkl atual", and `scripts/retrain-with-ford-data.sh:14` says it
   overwrites the previous one. `train.py:46` passes `_derive_perfil(features)` as the default of
   `df.get("Perfil", ...)`; Python computes it whether or not the column is there, and it raises
   `SystemExit`.

Observed while modelling, each part of a module but without a run of its own:

- *Models.* The notebook exports integer classes and `first_*` features, and ml-api refuses
  that file when it boots. `BANNED_TOKENS` does not name every column of Base 1
  (`AvgOrderValue`, `UniqueProducts`). A model whose features are not all among D0 passes the
  boot checks, answers 500 to every request, and the Core falls back in silence. The restart at the end of the
  retraining script finds the image it had. The notebook's text expects an F1 of 0.7 to
  0.85; its recorded output is 0.643.
- *Seed.* `parse_sales_date` tries the American format first, so 03/04 is the fourth of
  March. A V3 generated again is refused by Flyway once the first one was applied.
- *Gateway.* A logout revokes the token it is given: a rotation of the same token that read it before
  commits after it, and its descendant stays alive (up to `Threads` - 1 of them). A second retention job that
  read a row before the first committed writes it again: `anonimizado_em` and the ciphertext move, nothing comes
  back, and the trail has one event of each job. A key file left empty by a death is never generated again. The global rate limit of the
  README is not applied: only login, refresh and the LLM stub carry a decorator. The
  events `SIGNATURE_REJECTED` and those of the LLM are never written. A filtered
  listing may skip a lead that a patch moved out of the filter. A 500 may answer a purchase whose COMMIT
  reached the database. `mask_cpf` shows a pseudonym as it is unless it happens to have
  eleven digits, when it looks like a masked CPF. A signed body has no nonce: it can be sent again
  within twice the allowed skew, and then meets the unique CPF.
- *App.* A kill between the two writes of `setSession` or the two removals of `clearSession` leaves a token without its
  role or a role without its token; the role is read nowhere outside the store, so half a session behaves as a whole one
  or as none.

## 4. Proofs

Eight modules, for any finite or infinite sets of requests, keys and values within the named
assumptions. The theorems in `PROJECT.json`:

| module | theorems (property) |
|---|---|
| `CoreDomainProofs` | `TipoCorreto` (`TypeOK`), `UnicidadeGarantida` (`UnicidadeCpfVin`), `PoolCorreto` (`ConexoesCorretas`), `RespostaGarantida` (`RespostaFiel`), `AuditoriaGarantida` (`AuditoriaCompleta`), `LeadsCoerentes` (`LeadCoerente`), `ClassificacaoGarantida` (`ClassificacaoImutavel`), `CoreImplementaRegistro` (`RefinaRegistro`) |
| `GatewayAuthProofs` | `TipoCorreto` (`TypeOK`), `RastroGarantido` (`LoginDeixaRastro`), `UsosLimitados` (`LimiteDeUsos`), `SessaoSegura` (`SessaoEncadeada`), `RevogacaoDefinitiva` (`DenyListDefinitiva`), `TentativasLimitadas` (`LimiteDeTentativas`), `AlertaGarantido` (`AlertaDeForcaBruta`) |
| `EdgeProxyProofs` | `TipoCorreto` (`TypeOK`), `SucessoGarantido` (`SucessoAuditado`), `TrilhaFundada` (`AuditoriaFundada`), `AquecimentoUnico` (`UmAquecimentoPorVez`), `RecusaGarantida` (`RecusaFinal`), `RetryGarantido` (`RetryConclusivo`) |
| `GatewayDominioProofs` | `UnicidadeGarantida` (`UnicidadeCpfVin`), `AnonimizacaoGarantida` (`AnonimizacaoDefinitiva`), `RespostaGarantida` (`RespostaVerdadeira`), `AuditoriaGarantida` (`AuditoriaDominio`) |
| `GatewayLeituraProofs` | `AlertaGarantido` (`AlertaDeConsulta`), `ListagemGarantida` (`ListagemCompleta`), `TiposDoDominio` (`TypeOK`) |
| `GatewayBaseProofs` | `BootGarantido` (`BootCompleto`); tokens: `CadaTokenUmaPorta`, `AcessoSoComoAcesso`, `RefreshSoComoRefresh`, `InternoExpira`, `JanelaDeRepeticao`; classifier: `ClassificarTipo` (the perfis and the band of scores of each, 0.1 to 1 in all), `PrioridadeSegueOPerfil`, `PrioridadeMonotona` |
| `MotorEDadosProofs` | `ContratoMantido` (`SoContrato`), `PrimeiraCompraFixa` (`D0Imutavel`), `SementeInteira` (`SementeCarrega`) |
| `ConsultorMobileProofs` | `TiposDoApp` (`TypeOK`), `IndicadorTemDono` (`IndicadorNaoPreso`), `NotificadoAntes` (`CriticoNotificado`), `CopiaDaTela` (`EspelhoOffline`), `NadaFicaDepoisDeSair` (`SaidaCompleta`), `SomeComMotivo` (`SomeSoTratado`) |

Assumptions are named, stand in the module that declares the constants and are evaluated by TLC
in every run of it. `Nulo` is none of the values it stands beside
(`NuloDistinto`, `NuloDominio`, `NuloNaoEPerfil`; `Nenhum` is no version of a seed); requests of different kinds are different; the pool and the
threads are at least one; times, limits and counters of restarts are naturals, and the limit of the alert at least one; scores of ml-api are
integers and bodies of patches ask for known statuses. `GatewayAuth` takes its requests to be
finitely many (failures are counted). `GatewayDominio` takes the rows that existed before to respect the
unique keys (`ChavesDosClientes`), the contact of a purchase to be among email and telefone, no job to be `Nulo`, the expired ones to be finitely many and no CPF to be a
pseudonym, and tells the leads of a listing apart by `criado_em` (`CriadoEmDistintos`); a behaviour of it that
does not begin with the boot begins in an environment that has the demo users (`AmbienteNoAr`). `Caderno`
takes invoices to be sequences of lines with whole quantities and prices (`CarrinhosDeItens`) and K-Means to
leave no cluster empty, so that the medians it is named by are numbers (`ResumosNumericos`): that they are
computed from sums over sets of lines is a recursion over data, which the prover cannot follow.

Almost none of the properties is inductive alone. Each proof module has an invariant made of named parts,
each with an `...Init` and a `...Step` lemma with one step per action; in the larger modules `Indutivo` puts
them together (`IInv`), and the theorems follow.

**CoreDomain**: `TipoInv /\ ConexoesInv /\ RegistroInv /\ LeadInv /\ AuditoriaInv`.

- `TipoInv` adds to `TypeOK` what each `pc` has already filled in: a request beyond
  `nova` has a body of its kind, one past the classifier a result, a loaded patch an
  entity. Without it the types of the rows a commit writes are unknown.
- `ConexoesInv` adds that the pool's set is finite and which steps hold which
  connection, so that each exit gives back exactly what was taken.
- `RegistroInv` ties answers to rows: 201 exactly for those whose three rows are
  there, and keys of rows differ, which the commit's test keeps.
- `LeadInv` says that the entity a patch holds agrees with the row in everything a
  patch may not change; that is why writing the whole row back harms only status and
  observacao, whatever happened in between.
- `AuditoriaInv` places each event with the step that has passed it, before the commit
  that needs it.

The refinement maps the three tables to one registry entry; only commits, exceptional answers and
refusals change it, each by one abstract action, and every other step stutters.

**GatewayAuth**: `TipoInv /\ SessaoInv /\ RastroInv /\ SaidaInv /\ UsosInv /\ TentativaInv /\ TentativasInv /\ AlertaInv`.

- `UsosInv` counts, for a token, the rotations and logouts that have spent it and those that have read it
  alive and are about to commit (`Gasto`). That a logout, once committed, has left its token revoked is `SaidaInv`. While it is unrevoked each of these holds a thread, so
  there are at most as many as threads; once it is revoked nobody new joins.
- `TentativasInv` does the same for passwords: `Visados` are the failures of a window that are
  recorded or may still be recorded in it, by a request that has passed `is_locked`.
- `AlertaInv` follows the in-memory deque: while no failure in it has raised the alert it is
  shorter than the limit, in whatever order the threads append and prune (`Silenciosas`).
- `SessaoInv` and `RastroInv` place tokens and events with the step that has written them.

**EdgeProxy**: `BordaInv /\ AquecimentoInv /\ RegistroInv /\ TrilhaInv`. `BordaInv` knows what a call under way
may still be answered; `RegistroInv` ties what the Core holds to the call that put it there, even one
whose caller was told 503; `TrilhaInv` ties the edge trail to both.

**GatewayDominio**: `PedidoInv /\ JobInv /\ LinhaInv /\ UmaVezInv /\ LeadInv /\ ChaveInv /\ RespostaInv /\ TrilhaInv`.

- `LinhaInv`: a row is absent, as its purchase wrote it, or as the anonymisation of some job leaves it, and a
  purchase that is not answered has none. From this a job that reads a row, waits and
  writes it changes only `anonimizado_em` and the ciphertext of a row that another job wrote meanwhile.
- `UmaVezInv`: a row that bears the date of a job is of a job that is over, so that a commit which
  changes a row always gives it a new date.
- `ChaveInv`: past its first INSERT a purchase owns its CPF - against committed rows and against
  others past theirs - and past the second its VIN. The unique key alone is not
  inductive: what keeps it is who waits for whom.
- `RespostaInv` speaks only of what never changes back, so that an answer on its way or long
  delivered stays true; `Patchados`, the patches of the trail, are those answered 200 or whose
  answer was spoilt.
- `TrilhaInv`: each creation, each anonymised row and each status other than `aberto` with its event. A
  patch writes a status only if it differs from the one it read, and its event carries the one it read.

**Boot** (`IInvBoot`): `EstadoInv /\ ParInv /\ GrupoInv /\ InserirInv`. `ParInv` says in which order
the two key files come to be and that only an incomplete pair is written again, so whole files of two
generations never meet; `GrupoInv` that the users of a group before its position are in the
table unless the group was given up, and that serving means both positions are at the end. Deaths reset the
positions, never the table or the files.

**Readers** (`GatewayLeituraProofs`), each invariant on top of the one it needs:

- `LeitorInv` types the readings and the counters. `AlertaDominioInv` then says that a counter
  past the threshold, or a reading told so, has a reading of the same principal that was told exactly one past it
  (`Cruzou`): a hit makes a counter longer by one at most, pruning and restarts only make it shorter, so it
  cannot jump over the threshold however threads interleave; and the reading told so writes the event in
  its own commit.
- `ListagemInv`: once `n` pages are read, every lead there from the start whose place is within
  `n * PER_PAGE` was seen (`PaginasLidas`). The place of a lead counts the leads at or before it in the order by priority, score
  and creation (`OrdemTotal`), and only grows, for leads are only added and their keys never change;
  a short page ends the reading with nothing behind it (`PaginaCheia`).
- `OrdemInv` and `TrilhaLidaInv` do the same for auditors: what is committed was flushed before, so
  it has a place in `ordem`; `ordem` only grows at its end, so that a row's place among the newest first only
  grows, whatever order transactions commit in.
- `TiposDoDominio` adds what the others do not need: `EtapaInv` (the phase and the answer of a request are those of
  its handler, and what it read is a lead, a masked detail or events of the trail), `FaseDoJobInv` and `RelogioInv` (no
  reader has read a clock ahead of `tempo`); the users and key files are `TipoDoBoot` of `GatewayBaseProofs`.

**ConsultorMobile**: `AppInv == TipoInv /\ FaseInv /\ FilaInv` says where each kind of operation may be
suspended, and that a pending write belongs to an operation that waits for it and has no other; each property then
has an invariant of its own over it.

- `IndicadorInv`: a spinner that is on has a fetch or refresh that will still take it down, its catch and the 401 path
  included.
- `CriticoInv` follows a critical lead wherever it can be - the list, the copy on disk, each pending write, the
  ids in memory, the ids a listing carries over its awaits, a hydrate that has read and not yet set - and asks that
  the consultant was notified of it.
- `EspelhoOffline` is inductive over `AppInv`: the last write asked for (`NoDisco`) is the list, as each step that
  sets one queues the other before anybody else runs.
- `SessaoInv`: one login at a time and only without a session, and after a logout each of its removals stays done,
  because nothing but a login writes what it removed.
- `PatchInv`: a patch whose answer arrived is one the server applied.

**MotorEDados**, one invariant per subject:

- `KernelInv` gives, for every name the kernel may hold, the one value a cell can have bound to it; that is why
  order and repetition do no harm. That four clusters always get four personas (`CadaPersona`) rests on
  `idxmax` and `idxmin` finding an element in each set of numbers (`Extremos`). `ServicoInv` is the contract of a served file.
- `VendasInv`: days never go back and invoices are numbered without gaps. An invoice issued later continues the sales
  (`FaturarContinua`) and leaves the first line, and so the first invoice, of every customer as it was
  (`PrimeiraLinha`, `Base2Estavel`).
- `GeradorInv` and `FlywayInv`: what is written is the sample, of the right size (`TamanhoDaAmostra`: every `step`-th of the
  hashes in order, `Passadas`, each once, `ListaDosVistos`) and consistent in its three INSERTs (`OsTresInserts`); versions only
  grow, so a checksum that differs is of a later file.

**GatewayTokens, ClassificadorLocal**: lemmas on operators, with no state: a token built for one
door is refused at the others at every instant; a signed body is taken for two clock skews at most;
the bands of the scores and the limits of the priorities agree.

Only model-checked:

- liveness (`TodaRequisicaoRespondida`, `TodoPedidoTermina`): `ENABLED` and fairness are out of the
  prover's reach;
- the values of sums and medians (`ResumosNumericos`, `PersonasConferem`, `EscolhaConfere`), which TLC evaluates on
  the data of the runs;
- the absence of deadlock of `CoreDomain` and `GatewayDominio`, which speaks of `ENABLED` too;
- the violations of section 3, which are counterexamples.

## 5. Not modelled, and why

- **Byte-level work**: AES-GCM of columns, the bytes of HMAC and JWT, bcrypt, SHA-256 of the features,
  HTML escaping. They are pure functions of strings; a signature is the key that made it, a password right or
  wrong, a digest a constant.
- **Reads through the proxy and of the Core** (lists, details, statistics): they change nothing. Those of the
  standalone Gateway are modelled, for the mass-query counter and the paging.
- **The Core's own login, lockout, rate limiter and filters**: behind the Gateway nobody calls
  that login, which repeats the Gateway's without refresh tokens, and the limiter sees one
  address, the Gateway's. **The Gateway's middleware**: headers, log lines and slowapi's counters, which live in a
  library.
- **The retry card of admin-web**: whether its countdown survives `router.refresh()` is decided by React and
  Next, not by code of the repository. **Screens and pages**: rendering.
- **The LLM assistant**: a stub with a fixed answer. **Deployment files**: configuration; nginx
  is present as the answer a caller gets when the Gateway dies (`PERDIDA`).
- **Notebook cells without a consequence for the export**: exploration, the search for k, the k-distance plot,
  DBSCAN's and Ward's clusters beyond the column they add, plots, the evaluation table, the confusion matrix, importances and SHAP.
- **A failing audit inside the Core**: `AuditService.log` failing for lack of a
  connection is `EsgotarEspera`; a failing INSERT of it is not modelled.
- **Unhandled exceptions of a client**: a caller that disconnects is one whose answer is not read; the handlers run on.

## 6. What is left

1. Reads through the proxy, which feed the same counter as the standalone listing.
2. The Core's login and fixed-window limiter, should it ever be exposed without the Gateway.
3. Proofs: that the k-th value of a column exists in every finite set (`enesimo`), which would leave only the
   sums in `ResumosNumericos`.
