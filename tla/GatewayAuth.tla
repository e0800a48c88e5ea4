------------------------------ MODULE GatewayAuth ------------------------------
(***************************************************************************)
(* Sessions at the edge (services/gateway): AuthService.login, refresh and *)
(* logout, the LockoutService they consult and the brute-force alert.      *)
(* The handlers are plain functions, so FastAPI runs them in a thread pool *)
(* and up to Threads of them interleave.  Each has one database session,   *)
(* READ COMMITTED, and what it adds exists for the others only after its   *)
(* db.commit(); an exception that comes before the commit rolls it back.   *)
(*                                                                         *)
(* The process may die and come back: requests in flight are lost with     *)
(* their transactions, and so are the in-memory counters.                  *)
(* A refresh token (jti) is named by the request that issued it.           *)
(***************************************************************************)
EXTENDS Integers, FiniteSets

CONSTANTS Logins, Refreshes, Logouts,  \* the requests, by endpoint
          Emails,
          Threads,                     \* size of the thread pool that runs the handlers
          LOCKOUT_MAX_FAILURES,        \* lockout_max_failures
          LOCKOUT_DURATION,            \* lockout_duration_seconds, the window is_locked looks at
          FALHAS_DO_ALERTA,            \* the 5 of maybe_alert_login_brute_force
          JANELA,                      \* the 60 s of _login_failures
          REFRESH_TTL,                 \* jwt_refresh_ttl_days
          MaxTempo, MaxReinicios,      \* bounds: the clock, the restarts of the process
          Nulo

Requisicoes == Logins \cup Refreshes \cup Logouts
Jtis        == Logins \cup Refreshes   \* who may issue a token

ASSUME RequisicoesSeparadas ==
    Logins \cap Refreshes = {} /\ Logins \cap Logouts = {} /\ Refreshes \cap Logouts = {}
ASSUME ThreadsPositivo == Threads \in Nat \ {0} /\ IsFiniteSet(Requisicoes)
ASSUME TemposNaturais ==
    /\ {LOCKOUT_MAX_FAILURES, FALHAS_DO_ALERTA} \subseteq Nat \ {0}
    /\ {LOCKOUT_DURATION, JANELA, REFRESH_TTL, MaxTempo, MaxReinicios} \subseteq Nat

VARIABLES
    agora,           \* the clock
    login_attempts,  \* table: [req, email, success, attempted_at]
    refresh_tokens,  \* table: refresh_tokens[jti] is [usuario, expires_at, revoked], or Nulo
    audit_logs,      \* table: [action, req]
    login_failures,  \* alert_service._login_failures, in memory: [req, email, em]
    pc,              \* the step each request is about to take
    pedido,          \* its body
    instante,        \* when the handler wrote what it is about to commit
    achado,          \* what it decided from what it read: senha certa, conta a alertar, token a revogar
    resposta,        \* its HTTP status
    reinicios

banco   == <<login_attempts, refresh_tokens, audit_logs>>
sessao  == <<pedido, instante, achado>>
vars    == <<agora, banco, login_failures, pc, sessao, resposta, reinicios>>

Token     == [usuario : Emails, expires_at : Nat, revoked : BOOLEAN]
Tentativa == [req : Logins, email : Emails, success : BOOLEAN, attempted_at : Nat]
Acoes     == {"LOGIN_SUCCESS", "LOGIN_FAILED", "LOGIN_LOCKED", "ALERTA", "TOKEN_REFRESHED", "LOGOUT"}

ASSUME NuloDistinto == Nulo \notin Token \cup {200, 204, 401, 502}

\* What the reverse proxy answers when the process dies under a request.
PERDIDA == 502

\* The brute-force alert is audited as a second LOGIN_LOCKED event; ALERTA tells it apart.
Evento(acao, r) == [action |-> acao, req |-> r]

EmAndamento == {r \in Requisicoes : pc[r] \notin {"nova", "respondida"}}
Executando  == {r \in EmAndamento : pc[r] # "enviar"}   \* those that hold a thread

\* The handler returns or raises, its work committed or rolled back; the answer has
\* yet to reach the client.
Responder(r, codigo) ==
    /\ pc' = [pc EXCEPT ![r] = "enviar"]
    /\ resposta' = [resposta EXCEPT ![r] = codigo]

Seguir(r, fase) ==
    /\ pc' = [pc EXCEPT ![r] = fase]
    /\ UNCHANGED resposta

-----------------------------------------------------------------------------
(* Arrivals: a login carries an email and a right or wrong password, the   *)
(* other two a token the client was given.                                 *)

HaThread == Cardinality(Executando) < Threads

ReceberLogin(r) ==
    /\ pc[r] = "nova" /\ HaThread
    /\ \E e \in Emails, certa \in BOOLEAN :
          pedido' = [pedido EXCEPT ![r] = [email |-> e, senhaCerta |-> certa]]
    /\ Seguir(r, "is_locked")
    /\ UNCHANGED <<agora, banco, login_failures, instante, achado, reinicios>>

ReceberToken(r) ==
    /\ pc[r] = "nova" /\ HaThread
    /\ \E j \in Jtis : /\ resposta[j] = 200 /\ pc[j] = "respondida"
                       /\ pedido' = [pedido EXCEPT ![r] = [jti |-> j]]
    /\ Seguir(r, "ler_token")
    /\ UNCHANGED <<agora, banco, login_failures, instante, achado, reinicios>>

-----------------------------------------------------------------------------
(* AuthService.login *)

Falhas(e) == {a \in login_attempts : a.email = e /\ ~ a.success}

FalhasRecentes(e) == {a \in Falhas(e) : a.attempted_at >= agora - LOCKOUT_DURATION}

\* Mutant of is_locked: one failure too many is tolerated.
is_locked_Maior(e) == Cardinality(FalhasRecentes(e)) > LOCKOUT_MAX_FAILURES

is_locked(e) == Cardinality(FalhasRecentes(e)) >= LOCKOUT_MAX_FAILURES

\* The refusal is audited and committed on the spot, and is not an attempt.
IsLocked(r) ==
    /\ pc[r] = "is_locked"
    /\ IF is_locked(pedido[r].email)
       THEN /\ Responder(r, 401)
            /\ audit_logs' = audit_logs \cup {Evento("LOGIN_LOCKED", r)}
       ELSE /\ Seguir(r, "verify_password")
            /\ UNCHANGED audit_logs
    /\ UNCHANGED <<agora, login_attempts, refresh_tokens, login_failures, sessao, reinicios>>

\* Mutant of hit: the window is subtracted in the wrong unit and is practically zero.
hit_JanelaZero(r) ==
    {h \in login_failures : h.email # pedido[r].email \/ h.em >= agora}
        \cup {[req |-> r, email |-> pedido[r].email, em |-> agora]}

\* _SlidingCounter.hit: what is left in the window with this failure in it.
hit(r) ==
    {h \in login_failures : h.email # pedido[r].email \/ h.em >= agora - JANELA}
        \cup {[req |-> r, email |-> pedido[r].email, em |-> agora]}

\* bcrypt takes its time, then the attempt and the audit are flushed, not committed.
\* The counter of the alert is memory: it moves now, whatever becomes of the transaction.
VerifyPassword(r) ==
    LET e == pedido[r].email IN
    /\ pc[r] = "verify_password"
    /\ instante' = [instante EXCEPT ![r] = agora]
    /\ IF pedido[r].senhaCerta
       THEN UNCHANGED <<login_failures, achado>>
       ELSE /\ login_failures' = hit(r)
            /\ achado' = [achado EXCEPT ![r] =
                             Cardinality({h \in hit(r) : h.email = e}) >= FALHAS_DO_ALERTA]
    /\ Seguir(r, "commit_login")
    /\ UNCHANGED <<agora, banco, pedido, reinicios>>

\* Mutant of TokenNovo: expires_at is left NULL.
TokenNovo_SemValidade(r, usuario) ==
    [usuario |-> usuario, expires_at |-> Nulo, revoked |-> FALSE]

TokenNovo(r, usuario) ==
    [usuario |-> usuario, expires_at |-> instante[r] + REFRESH_TTL, revoked |-> FALSE]

\* Mutant of CommitLogin: the failed login is left to the handler's commit, which the
\* exception skips.
CommitLogin_SemCommitNaFalha(r) ==
    LET e == pedido[r].email
        ok == pedido[r].senhaCerta IN
    /\ pc[r] = "commit_login"
    /\ IF ok
       THEN /\ login_attempts' = login_attempts \cup
                  {[req |-> r, email |-> e, success |-> ok, attempted_at |-> instante[r]]}
            /\ refresh_tokens' = [refresh_tokens EXCEPT ![r] = TokenNovo(r, e)]
            /\ audit_logs' = audit_logs \cup {Evento("LOGIN_SUCCESS", r)}
            /\ Responder(r, 200)
       ELSE Responder(r, 401) /\ UNCHANGED banco
    /\ UNCHANGED <<agora, login_failures, sessao, reinicios>>

CommitLogin(r) ==
    LET e == pedido[r].email
        ok == pedido[r].senhaCerta IN
    /\ pc[r] = "commit_login"
    /\ login_attempts' = login_attempts \cup
          {[req |-> r, email |-> e, success |-> ok, attempted_at |-> instante[r]]}
    /\ IF ok
       THEN /\ refresh_tokens' = [refresh_tokens EXCEPT ![r] = TokenNovo(r, e)]
            /\ audit_logs' = audit_logs \cup {Evento("LOGIN_SUCCESS", r)}
            /\ Responder(r, 200)
       ELSE /\ audit_logs' = audit_logs \cup {Evento("LOGIN_FAILED", r)}
                                        \cup (IF achado[r] THEN {Evento("ALERTA", r)} ELSE {})
            /\ Responder(r, 401)
            /\ UNCHANGED refresh_tokens
    /\ UNCHANGED <<agora, login_failures, sessao, reinicios>>

-----------------------------------------------------------------------------
(* AuthService.refresh *)

Expirado(j) == refresh_tokens[j].expires_at <= agora

\* decode_token and the row say no: 401.  The UNAUTHORIZED_ACCESS event is only
\* flushed, and the exception rolls it back.
LerRefresh(r) ==
    LET j == pedido[r].jti IN
    /\ pc[r] = "ler_token"
    /\ IF Expirado(j) \/ refresh_tokens[j].revoked
       THEN Responder(r, 401) /\ UNCHANGED instante
       ELSE /\ Seguir(r, "commit_refresh")
            /\ instante' = [instante EXCEPT ![r] = agora]
    /\ UNCHANGED <<agora, banco, login_failures, pedido, achado, reinicios>>

\* Mutant of CommitRefresh: the token used is not revoked.
CommitRefresh_SemRevogar(r) ==
    /\ pc[r] = "commit_refresh"
    /\ refresh_tokens' = [refresh_tokens EXCEPT
                            ![r] = TokenNovo(r, refresh_tokens[pedido[r].jti].usuario)]
    /\ audit_logs' = audit_logs \cup {Evento("TOKEN_REFRESHED", r)}
    /\ Responder(r, 200)
    /\ UNCHANGED <<agora, login_attempts, login_failures, sessao, reinicios>>

\* Rotation.  UPDATE ... SET revoked = true WHERE id = ...: nothing in it asks whether
\* the row is still as it was read.
CommitRefresh(r) ==
    LET j == pedido[r].jti IN
    /\ pc[r] = "commit_refresh"
    /\ refresh_tokens' = [refresh_tokens EXCEPT ![j].revoked = TRUE,
                                                ![r] = TokenNovo(r, refresh_tokens[j].usuario)]
    /\ audit_logs' = audit_logs \cup {Evento("TOKEN_REFRESHED", r)}
    /\ Responder(r, 200)
    /\ UNCHANGED <<agora, login_attempts, login_failures, sessao, reinicios>>

-----------------------------------------------------------------------------
(* AuthService.logout *)

\* The access token is checked first (current_principal); a refresh token that is
\* unusable still logs out.
LerLogout(r) ==
    LET j == pedido[r].jti IN
    /\ pc[r] = "ler_token"
    /\ \/ Responder(r, 401) /\ UNCHANGED achado
       \/ /\ Seguir(r, "commit_logout")
          /\ achado' = [achado EXCEPT ![r] = ~ Expirado(j) /\ ~ refresh_tokens[j].revoked]
    /\ UNCHANGED <<agora, banco, login_failures, pedido, instante, reinicios>>

\* Mutant of CommitLogout: the row is deleted rather than marked.
CommitLogout_Apaga(r) ==
    /\ pc[r] = "commit_logout"
    /\ refresh_tokens' = [refresh_tokens EXCEPT ![pedido[r].jti] = IF achado[r] THEN Nulo ELSE @]
    /\ audit_logs' = audit_logs \cup {Evento("LOGOUT", r)}
    /\ Responder(r, 204)
    /\ UNCHANGED <<agora, login_attempts, login_failures, sessao, reinicios>>

CommitLogout(r) ==
    /\ pc[r] = "commit_logout"
    /\ IF achado[r]
       THEN refresh_tokens' = [refresh_tokens EXCEPT ![pedido[r].jti].revoked = TRUE]
       ELSE UNCHANGED refresh_tokens
    /\ audit_logs' = audit_logs \cup {Evento("LOGOUT", r)}
    /\ Responder(r, 204)
    /\ UNCHANGED <<agora, login_attempts, login_failures, sessao, reinicios>>

-----------------------------------------------------------------------------
Enviar(r) ==
    /\ pc[r] = "enviar"
    /\ Seguir(r, "respondida")
    /\ UNCHANGED <<agora, banco, login_failures, sessao, reinicios>>

Tick ==
    /\ agora < MaxTempo
    /\ agora' = agora + 1
    /\ UNCHANGED <<banco, login_failures, pc, sessao, resposta, reinicios>>

\* The process dies and is started again.
Reiniciar ==
    /\ reinicios < MaxReinicios
    /\ reinicios' = reinicios + 1
    /\ login_failures' = {}
    /\ pc' = [r \in Requisicoes |-> IF r \in EmAndamento THEN "respondida" ELSE pc[r]]
    /\ resposta' = [r \in Requisicoes |-> IF r \in EmAndamento THEN PERDIDA ELSE resposta[r]]
    /\ UNCHANGED <<agora, banco, sessao>>

Init ==
    /\ agora = 0
    /\ login_attempts = {} /\ audit_logs = {} /\ login_failures = {}
    /\ refresh_tokens = [j \in Jtis |-> Nulo]
    /\ pc = [r \in Requisicoes |-> "nova"]
    /\ pedido = [r \in Requisicoes |-> Nulo]
    /\ instante = [r \in Jtis |-> 0]
    /\ achado = [r \in Logins \cup Logouts |-> FALSE]
    /\ resposta = [r \in Requisicoes |-> Nulo]
    /\ reinicios = 0

Login(r)   == IsLocked(r) \/ VerifyPassword(r) \/ CommitLogin(r)
Refresh(r) == LerRefresh(r) \/ CommitRefresh(r)
Logout(r)  == LerLogout(r) \/ CommitLogout(r)

Next ==
    \/ \E r \in Logins : ReceberLogin(r) \/ Login(r)
    \/ \E r \in Refreshes : ReceberToken(r) \/ Refresh(r)
    \/ \E r \in Logouts : ReceberToken(r) \/ Logout(r)
    \/ \E r \in Requisicoes : Enviar(r)
    \/ Tick
    \/ Reiniciar

Spec == Init /\ [][Next]_vars

-----------------------------------------------------------------------------
(* Properties *)

TypeOK ==
    /\ agora \in Nat /\ reinicios \in Nat
    /\ login_attempts \subseteq Tentativa
    /\ refresh_tokens \in [Jtis -> Token \cup {Nulo}]
    /\ audit_logs \subseteq [action : Acoes, req : Requisicoes]
    /\ login_failures \subseteq [req : Logins, email : Emails, em : Nat]
    /\ pc \in [Requisicoes -> {"nova", "is_locked", "verify_password", "commit_login", "ler_token",
                               "commit_refresh", "commit_logout", "enviar", "respondida"}]
    /\ pedido \in [Requisicoes -> [email : Emails, senhaCerta : BOOLEAN] \cup [jti : Jtis] \cup {Nulo}]
    /\ instante \in [Jtis -> Nat]
    /\ achado \in [Logins \cup Logouts -> BOOLEAN]
    /\ resposta \in [Requisicoes -> {200, 204, 401, PERDIDA, Nulo}]

Auditado(acao, r) == Evento(acao, r) \in audit_logs

\* No login is answered without leaving its trail, although two of its three answers
\* are exceptions: a refusal for a wrong password counts for the lockout, a refusal
\* for lockout does not (so insisting never prolongs it), a success has its token -
\* and a token has its trail even when its answer was lost.
LoginDeixaRastro ==
    \A r \in Logins :
        LET tentou == \E a \in login_attempts : a.req = r IN
        /\ resposta[r] = 200 => tentou /\ Auditado("LOGIN_SUCCESS", r) /\ refresh_tokens[r] # Nulo
        /\ resposta[r] = 401 => \/ tentou /\ Auditado("LOGIN_FAILED", r)
                                \/ ~ tentou /\ Auditado("LOGIN_LOCKED", r)
        /\ refresh_tokens[r] # Nulo => tentou /\ Auditado("LOGIN_SUCCESS", r)

\* is_locked reads before bcrypt and the attempt is committed after it, so requests
\* that run together pass the check together; but no more passwords are tried in a
\* lockout window than the limit and one per further thread - not even across restarts.
LimiteDeTentativas ==
    \A e \in Emails, t \in 0..MaxTempo :
        Cardinality({a \in Falhas(e) : a.attempted_at \in (t - LOCKOUT_DURATION)..t})
            <= LOCKOUT_MAX_FAILURES - 1 + Threads

\* Whenever the failures of one account within a minute reach the limit, one of those
\* very requests raises the alert (while the process lives: the counter is memory).
AlertaDeForcaBruta ==
    reinicios = 0 =>
        \A e \in Emails, t \in 0..MaxTempo :
            LET rajada == {a \in Falhas(e) : a.attempted_at \in (t - JANELA)..t} IN
            Cardinality(rajada) >= FALHAS_DO_ALERTA =>
                \E a \in rajada : Auditado("ALERTA", a.req)

UsosDe(j) == {r \in Refreshes : refresh_tokens[r] # Nulo /\ pedido[r].jti = j}

\* The logouts that found the token alive and are committed.
EncerradoPor(j) == {o \in Logouts : achado[o] /\ pedido[o].jti = j /\ Auditado("LOGOUT", o)}

\* A refresh token is spent at most as many times as there are threads to use it at the
\* same moment, by rotations and logouts together: with one thread once, and a logout
\* that revokes it leaves at most Threads - 1 descendants of it alive behind its back.
LimiteDeUsos == \A j \in Jtis : Cardinality(UsosDe(j) \cup EncerradoPor(j)) <= Threads

\* What was rotated or logged out stays revoked, whoever else writes the row, and no
\* token changes hands or is given a longer life.
DenyListDefinitiva ==
    [][\A j \in Jtis : refresh_tokens[j] # Nulo =>
          /\ refresh_tokens'[j] # Nulo
          /\ refresh_tokens[j].revoked => refresh_tokens'[j].revoked
          /\ refresh_tokens'[j].usuario = refresh_tokens[j].usuario
          /\ refresh_tokens'[j].expires_at = refresh_tokens[j].expires_at]_refresh_tokens

\* A token that bought another one is revoked, and a session can be followed from any
\* of its tokens to the login that began it, all of one user.
SessaoEncadeada ==
    \A r \in Refreshes : refresh_tokens[r] # Nulo =>
        LET pai == refresh_tokens[pedido[r].jti] IN
        /\ pai # Nulo /\ pai.revoked
        /\ pai.usuario = refresh_tokens[r].usuario
        /\ pai.expires_at <= refresh_tokens[r].expires_at

\* docs/threat-model.md, A3: "Refresh usado é revogado; tentar usar 2x → 401".  Two
\* requests that read the row before either commits are both answered 200.
RefreshUsoUnico == \A j \in Jtis : Cardinality(UsosDe(j)) <= 1

\* services/gateway/README.md: "Lockout: 5 falhas/60s → 15 min de bloqueio".  is_locked
\* counts over the 15 minutes, so failures spread over them lock the account too.
BloqueioSoPorRajada ==
    \A r \in Logins : Auditado("LOGIN_LOCKED", r) =>
        \E t \in 0..agora :
            Cardinality({a \in Falhas(pedido[r].email) : a.attempted_at \in (t - JANELA)..t})
                >= LOCKOUT_MAX_FAILURES
=============================================================================
