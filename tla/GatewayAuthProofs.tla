-------------------------- MODULE GatewayAuthProofs --------------------------
(***************************************************************************)
(* Proofs about GatewayAuth for any number of requests, accounts, threads, *)
(* ticks and restarts, and any limit, window and lifetime.                 *)
(***************************************************************************)
EXTENDS GatewayAuth, FiniteSetTheorems, TLAPS

PedidoLogin == [email : Emails, senhaCerta : BOOLEAN]
PedidoToken == [jti : Jtis]

FasesLogin   == {"nova", "is_locked", "verify_password", "commit_login", "enviar", "respondida"}
FasesRefresh == {"nova", "ler_token", "commit_refresh", "enviar", "respondida"}
FasesLogout  == {"nova", "ler_token", "commit_logout", "enviar", "respondida"}

\* The types, with what each kind of request carries and the token it names.
TipoInv ==
    /\ TypeOK
    /\ \A r \in Logins :
          /\ pc[r] \in FasesLogin
          /\ pc[r] # "nova" => pedido[r] \in PedidoLogin
    /\ \A r \in Refreshes \cup Logouts :
          /\ pc[r] \in FasesRefresh \cup FasesLogout
          /\ pc[r] # "nova" => pedido[r] \in PedidoToken /\ refresh_tokens[pedido[r].jti] # Nulo
    /\ \A r \in Refreshes : pc[r] \in FasesRefresh
    /\ \A r \in Logouts : pc[r] \in FasesLogout
    /\ \A r \in Requisicoes : pc[r] \notin {"enviar", "respondida"} => resposta[r] = Nulo
    /\ \A j \in Jtis : resposta[j] = 200 => refresh_tokens[j] # Nulo

\* Every step of Next, one disjunct per action.
LEMMA PassosDeNext ==
  ASSUME Next
  PROVE  \/ \E r \in Logins : ReceberLogin(r) \/ IsLocked(r) \/ VerifyPassword(r) \/ CommitLogin(r)
         \/ \E r \in Refreshes : LerRefresh(r) \/ CommitRefresh(r)
         \/ \E r \in Logouts : LerLogout(r) \/ CommitLogout(r)
         \/ \E r \in Refreshes \cup Logouts : ReceberToken(r)
         \/ \E r \in Requisicoes : Enviar(r)
         \/ Tick
         \/ Reiniciar
  BY DEF Next, Login, Refresh, Logout

\* What a successful login or refresh inserts is a token.
LEMMA TokenNovoTipo ==
  ASSUME TypeOK, NEW r \in Jtis, NEW u \in Emails
  PROVE  TokenNovo(r, u) \in Token /\ TokenNovo(r, u) # Nulo
<1>1. instante[r] + REFRESH_TTL \in Nat
  BY TemposNaturais DEF TypeOK
<1>2. TokenNovo(r, u) \in Token
  BY <1>1, Zenon DEF TokenNovo, Token
<1>3. QED  BY <1>2, NuloDistinto

\* Writing a Boolean keeps a function Boolean.
LEMMA BooleanoTrocado ==
  ASSUME NEW S, NEW f \in [S -> BOOLEAN], NEW x, NEW b \in BOOLEAN
  PROVE  [f EXCEPT ![x] = b] \in [S -> BOOLEAN] /\ (x \in S => [f EXCEPT ![x] = b][x] = b)
  OBVIOUS

\* A token marked as revoked is a token, and differs in nothing else.
LEMMA Revogado ==
  ASSUME NEW t \in Token
  PROVE  LET u == [t EXCEPT !.revoked = TRUE] IN
         /\ u \in Token /\ u # Nulo /\ u.revoked = TRUE
         /\ u.usuario = t.usuario /\ u.expires_at = t.expires_at
<1>1. [t EXCEPT !.revoked = TRUE] \in Token
  BY Zenon DEF Token
<1>2. QED  BY <1>1, NuloDistinto, ZenonT(30) DEF Token

LEMMA TipoInit == Init => TipoInv
  BY NuloDistinto DEF Init, TipoInv, TypeOK, Requisicoes, Jtis, FasesLogin, FasesRefresh, FasesLogout

\* No step of a handler, no tick and no restart breaks the types.
LEMMA TipoStep == TipoInv /\ [Next]_vars => TipoInv'
<1> SUFFICES ASSUME TipoInv, [Next]_vars
             PROVE  TipoInv'
  OBVIOUS
<1> USE RequisicoesSeparadas, NuloDistinto
        DEF TipoInv, TypeOK, Requisicoes, Jtis, FasesLogin, FasesRefresh, FasesLogout, banco, sessao
<1>1. ASSUME NEW r \in Logins, ReceberLogin(r)  PROVE TipoInv'
  BY <1>1 DEF ReceberLogin, Seguir, PedidoLogin
<1>2. ASSUME NEW r \in Logins, IsLocked(r)  PROVE TipoInv'
  BY <1>2 DEF IsLocked, Seguir, Responder, Evento, Acoes
<1>3. ASSUME NEW r \in Logins, VerifyPassword(r)  PROVE TipoInv'
  <2>1. pedido[r] \in PedidoLogin /\ pedido[r].email \in Emails
    BY <1>3 DEF VerifyPassword, PedidoLogin
  <2>2. hit(r) \subseteq [req : Logins, email : Emails, em : Nat]
    BY <2>1 DEF hit
  <2>3. /\ login_failures' \subseteq [req : Logins, email : Emails, em : Nat]
        /\ instante' \in [Jtis -> Nat]
    BY <1>3, <2>2 DEF VerifyPassword
  <2>4. achado' \in [Logins \cup Logouts -> BOOLEAN]
    <3>1. CASE pedido[r].senhaCerta
      BY <1>3, <3>1 DEF VerifyPassword
    <3>2. CASE ~ pedido[r].senhaCerta
      <4> DEFINE b == Cardinality({h \in hit(r) : h.email = pedido[r].email}) >= FALHAS_DO_ALERTA
      <4>1. achado' = [achado EXCEPT ![r] = b]
        BY <1>3, <3>2, Zenon DEF VerifyPassword
      <4>2. b \in BOOLEAN
        OBVIOUS
      <4> HIDE DEF b
      <4>3. QED  BY <4>1, <4>2, BooleanoTrocado
    <3>3. QED  BY <3>1, <3>2
  <2>5. QED  BY <1>3, <2>3, <2>4 DEF VerifyPassword, Seguir
<1>4. ASSUME NEW r \in Logins, CommitLogin(r)  PROVE TipoInv'
  <2>1. /\ pedido[r].email \in Emails /\ pedido[r].senhaCerta \in BOOLEAN /\ instante[r] \in Nat
    <3>1. pedido[r] \in PedidoLogin /\ instante[r] \in Nat
      BY <1>4 DEF CommitLogin
    <3>2. QED  BY <3>1, ZenonT(30) DEF PedidoLogin
  <2>2. login_attempts' \subseteq Tentativa
    <3>1. [req |-> r, email |-> pedido[r].email, success |-> pedido[r].senhaCerta,
           attempted_at |-> instante[r]] \in Tentativa
      BY <2>1, ZenonT(30) DEF Tentativa
    <3>2. QED  BY <1>4, <3>1 DEF CommitLogin
  <2>3. CASE pedido[r].senhaCerta
    <3>1. TokenNovo(r, pedido[r].email) \in Token /\ TokenNovo(r, pedido[r].email) # Nulo
      BY <2>1, TokenNovoTipo
    <3>2. /\ refresh_tokens' = [refresh_tokens EXCEPT ![r] = TokenNovo(r, pedido[r].email)]
          /\ audit_logs' = audit_logs \cup {Evento("LOGIN_SUCCESS", r)} /\ Responder(r, 200)
      BY <1>4, <2>3, ZenonT(30) DEF CommitLogin
    <3>3. QED  BY <1>4, <2>2, <3>1, <3>2 DEF CommitLogin, Responder, Evento, Acoes
  <2>4. CASE ~ pedido[r].senhaCerta
    <3>1. /\ audit_logs' \subseteq audit_logs \cup {Evento("LOGIN_FAILED", r), Evento("ALERTA", r)}
          /\ Responder(r, 401) /\ UNCHANGED refresh_tokens
      BY <1>4, <2>4 DEF CommitLogin
    <3>2. audit_logs' \subseteq [action : Acoes, req : Requisicoes]
      BY <3>1 DEF Evento, Acoes
    <3>3. QED  BY <1>4, <2>2, <3>1, <3>2 DEF CommitLogin, Responder
  <2>5. QED  BY <2>3, <2>4
<1>5. ASSUME NEW r \in Refreshes, LerRefresh(r)  PROVE TipoInv'
  BY <1>5 DEF LerRefresh, Seguir, Responder
<1>6. ASSUME NEW r \in Refreshes, CommitRefresh(r)  PROVE TipoInv'
  <2> DEFINE j == pedido[r].jti
             velho == [refresh_tokens[j] EXCEPT !.revoked = TRUE]
             novo == TokenNovo(r, refresh_tokens[j].usuario)
  <2>1. j \in Jtis /\ refresh_tokens[j] \in Token /\ refresh_tokens[j] # Nulo
    BY <1>6 DEF CommitRefresh, PedidoToken
  <2>2. refresh_tokens[j].usuario \in Emails
    BY <2>1, Zenon DEF Token
  <2>3. velho \in Token /\ velho # Nulo
    BY <2>1, Revogado
  <2>4. novo \in Token /\ novo # Nulo
    BY <2>2, TokenNovoTipo
  <2>5. refresh_tokens' = [refresh_tokens EXCEPT ![j] = velho, ![r] = novo]
    BY <1>6 DEF CommitRefresh
  <2> HIDE DEF j, velho, novo
  <2>6. /\ refresh_tokens' \in [Jtis -> Token \cup {Nulo}] /\ refresh_tokens'[r] # Nulo
        /\ \A k \in Jtis : refresh_tokens[k] # Nulo => refresh_tokens'[k] # Nulo
    BY <2>1, <2>3, <2>4, <2>5
  <2>7. audit_logs' \subseteq [action : Acoes, req : Requisicoes]
    BY <1>6 DEF CommitRefresh, Evento, Acoes
  <2>8. /\ pc' = [pc EXCEPT ![r] = "enviar"] /\ resposta' = [resposta EXCEPT ![r] = 200]
        /\ UNCHANGED <<agora, login_attempts, login_failures, sessao, reinicios>>
    BY <1>6 DEF CommitRefresh, Responder
  <2>9. \A k \in Jtis : resposta'[k] = 200 => refresh_tokens'[k] # Nulo
    BY <2>6, <2>8
  <2>10. \A q \in Refreshes \cup Logouts : pc'[q] # "nova" =>
            pedido'[q] \in PedidoToken /\ refresh_tokens'[pedido'[q].jti] # Nulo
    <3> SUFFICES ASSUME NEW q \in Refreshes \cup Logouts, pc'[q] # "nova"
                 PROVE  pedido'[q] \in PedidoToken /\ refresh_tokens'[pedido'[q].jti] # Nulo
      OBVIOUS
    <3>1. pc[q] # "nova" /\ pedido' = pedido
      BY <1>6, <2>8 DEF CommitRefresh
    <3>2. pedido[q] \in PedidoToken /\ pedido[q].jti \in Jtis /\ refresh_tokens[pedido[q].jti] # Nulo
      BY <3>1 DEF PedidoToken
    <3>3. QED  BY <2>6, <3>1, <3>2
  <2>11. /\ \A q \in Logins : pc'[q] \in FasesLogin /\ (pc'[q] # "nova" => pedido'[q] \in PedidoLogin)
         /\ \A q \in Requisicoes : pc'[q] \notin {"enviar", "respondida"} => resposta'[q] = Nulo
    BY <2>8
  <2>12. TypeOK'
    BY <2>6, <2>7, <2>8
  <2>13. QED  BY <1>6, <2>8, <2>9, <2>10, <2>11, <2>12
<1>7. ASSUME NEW r \in Logouts, LerLogout(r)  PROVE TipoInv'
  <2>1. achado' \in [Logins \cup Logouts -> BOOLEAN]
    <3>1. CASE UNCHANGED achado
      BY <3>1
    <3>2. CASE achado' = [achado EXCEPT ![r] = ~ Expirado(pedido[r].jti) /\ ~ refresh_tokens[pedido[r].jti].revoked]
      <4> DEFINE b == ~ Expirado(pedido[r].jti) /\ ~ refresh_tokens[pedido[r].jti].revoked
      <4>1. achado' = [achado EXCEPT ![r] = b] /\ b \in BOOLEAN
        BY <3>2, Zenon
      <4> HIDE DEF b
      <4>2. QED  BY <4>1, BooleanoTrocado
    <3>3. QED  BY <1>7, <3>1, <3>2 DEF LerLogout
  <2>2. QED  BY <1>7, <2>1 DEF LerLogout, Seguir, Responder
<1>8. ASSUME NEW r \in Logouts, CommitLogout(r)  PROVE TipoInv'
  <2> DEFINE j == pedido[r].jti
             velho == [refresh_tokens[j] EXCEPT !.revoked = TRUE]
  <2>1. j \in Jtis /\ refresh_tokens[j] \in Token
    BY <1>8 DEF CommitLogout, PedidoToken
  <2>2. velho \in Token /\ velho # Nulo
    BY <2>1, Revogado
  <2>3. refresh_tokens' = [refresh_tokens EXCEPT ![j] = velho] \/ UNCHANGED refresh_tokens
    BY <1>8 DEF CommitLogout
  <2> HIDE DEF j, velho
  <2>4. /\ refresh_tokens' \in [Jtis -> Token \cup {Nulo}]
        /\ \A k \in Jtis : refresh_tokens[k] # Nulo => refresh_tokens'[k] # Nulo
    BY <2>1, <2>2, <2>3
  <2>5. audit_logs' \subseteq [action : Acoes, req : Requisicoes]
    BY <1>8 DEF CommitLogout, Evento, Acoes
  <2>6. QED  BY <1>8, <2>4, <2>5 DEF CommitLogout, Responder, PedidoToken
<1>9. ASSUME NEW r \in Refreshes \cup Logouts, ReceberToken(r)  PROVE TipoInv'
  BY <1>9 DEF ReceberToken, Seguir, PedidoToken
<1>10. ASSUME NEW r \in Requisicoes, Enviar(r)  PROVE TipoInv'
  BY <1>10 DEF Enviar, Seguir
<1>11. CASE Tick
  BY <1>11 DEF Tick
<1>12. CASE Reiniciar
  BY <1>12 DEF Reiniciar, PERDIDA, EmAndamento
<1>13. CASE UNCHANGED vars
  BY <1>13 DEF vars
<1>14. QED
  BY <1>1, <1>2, <1>3, <1>4, <1>5, <1>6, <1>7, <1>8, <1>9, <1>10, <1>11, <1>12, <1>13, PassosDeNext

-----------------------------------------------------------------------------
(* How the table of tokens moves *)

Acabou(r) == pc[r] \in {"enviar", "respondida"}

\* Which rows each commit writes: a rotation marks one and inserts one, a logout marks one.
LEMMA EscritaDeToken ==
  ASSUME TipoInv, Next
  PROVE  \/ UNCHANGED refresh_tokens
         \/ \E r \in Logins : /\ CommitLogin(r) /\ pedido[r].email \in Emails
                              /\ refresh_tokens' = [refresh_tokens EXCEPT ![r] = TokenNovo(r, pedido[r].email)]
         \/ \E r \in Refreshes : CommitRefresh(r)
         \/ \E r \in Logouts : /\ CommitLogout(r)
                               /\ refresh_tokens' = [refresh_tokens EXCEPT ![pedido[r].jti].revoked = TRUE]
<1>1. ASSUME NEW r \in Logins, CommitLogin(r), ~ UNCHANGED refresh_tokens
      PROVE  /\ pedido[r].email \in Emails
             /\ refresh_tokens' = [refresh_tokens EXCEPT ![r] = TokenNovo(r, pedido[r].email)]
  <2>1. pedido[r] \in PedidoLogin
    BY <1>1 DEF CommitLogin, TipoInv
  <2>2. pedido[r].email \in Emails
    BY <2>1, Zenon DEF PedidoLogin
  <2>3. refresh_tokens' = [refresh_tokens EXCEPT ![r] = TokenNovo(r, pedido[r].email)]
    BY <1>1 DEF CommitLogin
  <2>4. QED  BY <2>2, <2>3
<1>2. QED
  BY <1>1, PassosDeNext
     DEF ReceberLogin, IsLocked, VerifyPassword, LerRefresh, LerLogout, CommitLogout, ReceberToken,
         Enviar, Tick, Reiniciar, banco

\* The token a rotation or a logout uses is a row of the table, and not its own.
LEMMA TokenUsado ==
  ASSUME TipoInv, NEW r \in Refreshes \cup Logouts, pc[r] # "nova"
  PROVE  /\ pedido[r].jti \in Jtis
         /\ refresh_tokens[pedido[r].jti] \in Token /\ refresh_tokens[pedido[r].jti] # Nulo
  BY DEF TipoInv, TypeOK, PedidoToken

\* No step forgets a token, takes a revocation back, or changes whose it is and how long it lasts.
LEMMA TokenPermanece ==
  ASSUME TipoInv, Next, NEW j \in Jtis, refresh_tokens[j] # Nulo,
         \A r \in Jtis : refresh_tokens[r] # Nulo => Acabou(r)
  PROVE  /\ refresh_tokens'[j] # Nulo
         /\ refresh_tokens[j].revoked => refresh_tokens'[j].revoked
         /\ refresh_tokens'[j].usuario = refresh_tokens[j].usuario
         /\ refresh_tokens'[j].expires_at = refresh_tokens[j].expires_at
<1>0. refresh_tokens \in [Jtis -> Token \cup {Nulo}] /\ refresh_tokens[j] \in Token
  BY DEF TipoInv, TypeOK
<1>1. ASSUME NEW r \in Logins, CommitLogin(r),
             refresh_tokens' = [refresh_tokens EXCEPT ![r] = TokenNovo(r, pedido[r].email)]
      PROVE  refresh_tokens'[j] = refresh_tokens[j]
  BY <1>1, <1>0 DEF CommitLogin, Acabou
<1>2. ASSUME NEW k \in Jtis, refresh_tokens[k] \in Token, k = j
      PROVE  LET u == [refresh_tokens[k] EXCEPT !.revoked = TRUE] IN
             /\ u # Nulo /\ (refresh_tokens[j].revoked => u.revoked)
             /\ u.usuario = refresh_tokens[j].usuario /\ u.expires_at = refresh_tokens[j].expires_at
  BY <1>2, Revogado
<1>3. ASSUME NEW r \in Refreshes, CommitRefresh(r)
      PROVE  refresh_tokens'[j] \in {refresh_tokens[j], [refresh_tokens[pedido[r].jti] EXCEPT !.revoked = TRUE]}
             /\ (j # pedido[r].jti => refresh_tokens'[j] = refresh_tokens[j])
  BY <1>3, <1>0 DEF CommitRefresh, Acabou, Jtis
<1>4. ASSUME NEW r \in Logouts, refresh_tokens' = [refresh_tokens EXCEPT ![pedido[r].jti].revoked = TRUE]
      PROVE  refresh_tokens'[j] \in {refresh_tokens[j], [refresh_tokens[pedido[r].jti] EXCEPT !.revoked = TRUE]}
             /\ (j # pedido[r].jti => refresh_tokens'[j] = refresh_tokens[j])
  BY <1>4, <1>0
<1>5. QED
  <2>1. CASE refresh_tokens'[j] = refresh_tokens[j]
    BY <2>1
  <2>2. CASE refresh_tokens'[j] # refresh_tokens[j]
    <3>1. refresh_tokens'[j] = [refresh_tokens[j] EXCEPT !.revoked = TRUE]
      BY <2>2, <1>1, <1>3, <1>4, EscritaDeToken
    <3>2. QED  BY <3>1, <1>0, <1>2
  <2>3. QED  BY <2>1, <2>2

-----------------------------------------------------------------------------
(* Sessions *)

\* When each token was issued, what a rotation under way may rely on, and the chain itself.
SessaoInv ==
    /\ \A j \in Jtis :
          /\ instante[j] <= agora
          /\ refresh_tokens[j] # Nulo =>
                Acabou(j) /\ refresh_tokens[j].expires_at = instante[j] + REFRESH_TTL
    /\ \A r \in Refreshes : pc[r] = "commit_refresh" =>
          refresh_tokens[pedido[r].jti].expires_at <= instante[r] + REFRESH_TTL
    /\ SessaoEncadeada

LEMMA SessaoInit == Init => SessaoInv
  BY NuloDistinto DEF Init, SessaoInv, SessaoEncadeada, Jtis, Requisicoes

\* A rotation extends the chain at its end, and every other step leaves its links alone.
LEMMA SessaoStep == TipoInv /\ SessaoInv /\ [Next]_vars => SessaoInv'
<1> SUFFICES ASSUME TipoInv, SessaoInv, [Next]_vars
             PROVE  SessaoInv'
  OBVIOUS
<1>0. /\ refresh_tokens \in [Jtis -> Token \cup {Nulo}] /\ instante \in [Jtis -> Nat] /\ agora \in Nat
      /\ pc \in [Requisicoes -> FasesLogin \cup FasesRefresh \cup FasesLogout]
      /\ REFRESH_TTL \in Nat
  BY TemposNaturais DEF TipoInv, TypeOK, FasesLogin, FasesRefresh, FasesLogout
<1> USE RequisicoesSeparadas, NuloDistinto DEF Jtis, Requisicoes
\* A step that issues no token, and neither lets nor keeps a rotation past what it read.
<1>a. ASSUME Next,
             \A j \in Jtis : refresh_tokens[j] = Nulo => refresh_tokens'[j] = Nulo,
             agora' \in Nat /\ agora <= agora',
             \A j \in Jtis : instante'[j] <= agora'
                             /\ (Acabou(j) => Acabou(j)' /\ instante'[j] = instante[j]),
             \A r \in Refreshes : pc'[r] = "commit_refresh" =>
                 /\ refresh_tokens[pedido'[r].jti].expires_at <= instante'[r] + REFRESH_TTL
                 /\ pedido'[r].jti \in Jtis /\ refresh_tokens[pedido'[r].jti] # Nulo,
             \A r \in Refreshes : Acabou(r) => pedido'[r] = pedido[r]
      PROVE  SessaoInv'
  <2>1. \A j \in Jtis : refresh_tokens[j] # Nulo =>
           /\ refresh_tokens'[j] # Nulo
           /\ refresh_tokens[j].revoked => refresh_tokens'[j].revoked
           /\ refresh_tokens'[j].usuario = refresh_tokens[j].usuario
           /\ refresh_tokens'[j].expires_at = refresh_tokens[j].expires_at
    BY <1>a, TokenPermanece DEF SessaoInv
  <2>2. SessaoEncadeada'
    <3> SUFFICES ASSUME NEW r \in Refreshes, refresh_tokens'[r] # Nulo
                 PROVE  /\ refresh_tokens'[pedido'[r].jti] # Nulo /\ refresh_tokens'[pedido'[r].jti].revoked
                        /\ refresh_tokens'[pedido'[r].jti].usuario = refresh_tokens'[r].usuario
                        /\ refresh_tokens'[pedido'[r].jti].expires_at <= refresh_tokens'[r].expires_at
      BY DEF SessaoEncadeada
    <3>1. refresh_tokens[r] # Nulo /\ Acabou(r) /\ pedido'[r] = pedido[r]
      BY <1>a DEF SessaoInv
    <3>2. pedido[r].jti \in Jtis
      BY <3>1, TokenUsado DEF Acabou
    <3>3. /\ refresh_tokens[pedido[r].jti] # Nulo /\ refresh_tokens[pedido[r].jti].revoked
          /\ refresh_tokens[pedido[r].jti].usuario = refresh_tokens[r].usuario
          /\ refresh_tokens[pedido[r].jti].expires_at <= refresh_tokens[r].expires_at
      BY <3>1 DEF SessaoInv, SessaoEncadeada
    <3>4. QED  BY <2>1, <3>1, <3>2, <3>3
  <2>3. \A j \in Jtis : refresh_tokens'[j] # Nulo =>
           Acabou(j)' /\ refresh_tokens'[j].expires_at = instante'[j] + REFRESH_TTL
    BY <1>a, <2>1 DEF SessaoInv
  <2>4. \A r \in Refreshes : pc'[r] = "commit_refresh" =>
           refresh_tokens'[pedido'[r].jti].expires_at <= instante'[r] + REFRESH_TTL
    BY <1>a, <2>1
  <2>5. QED  BY <1>a, <2>2, <2>3, <2>4 DEF SessaoInv
<1>b. \A r \in Refreshes : pc[r] # "nova" =>
         pedido[r].jti \in Jtis /\ refresh_tokens[pedido[r].jti] \in Token /\ refresh_tokens[pedido[r].jti] # Nulo
  BY TokenUsado
<1>1. ASSUME NEW r \in Logins, ReceberLogin(r), Next  PROVE SessaoInv'
  BY <1>0, <1>1, <1>a, <1>b DEF ReceberLogin, Seguir, SessaoInv, Acabou, banco
<1>2. ASSUME NEW r \in Logins, IsLocked(r), Next  PROVE SessaoInv'
  BY <1>0, <1>2, <1>a, <1>b DEF IsLocked, Seguir, Responder, SessaoInv, Acabou, sessao
<1>3. ASSUME NEW r \in Logins, VerifyPassword(r), Next  PROVE SessaoInv'
  BY <1>0, <1>3, <1>a, <1>b DEF VerifyPassword, Seguir, SessaoInv, Acabou, banco
<1>5. ASSUME NEW r \in Refreshes, LerRefresh(r), Next  PROVE SessaoInv'
  <2>1. pedido[r].jti \in Jtis /\ instante[pedido[r].jti] <= agora
        /\ refresh_tokens[pedido[r].jti].expires_at <= agora + REFRESH_TTL
    <3>1. pedido[r].jti \in Jtis /\ refresh_tokens[pedido[r].jti] # Nulo
      BY <1>5, <1>b DEF LerRefresh
    <3>2. QED  BY <1>0, <3>1 DEF SessaoInv
  <2>2. QED  BY <1>0, <1>5, <1>a, <1>b, <2>1 DEF LerRefresh, Seguir, Responder, SessaoInv, Acabou, banco
<1>7. ASSUME NEW r \in Logouts, LerLogout(r), Next  PROVE SessaoInv'
  BY <1>0, <1>7, <1>a, <1>b DEF LerLogout, Seguir, Responder, SessaoInv, Acabou, banco
<1>9. ASSUME NEW r \in Refreshes \cup Logouts, ReceberToken(r), Next  PROVE SessaoInv'
  BY <1>0, <1>9, <1>a, <1>b DEF ReceberToken, Seguir, SessaoInv, Acabou, banco
<1>10. ASSUME NEW r \in Requisicoes, Enviar(r), Next  PROVE SessaoInv'
  BY <1>0, <1>10, <1>a, <1>b DEF Enviar, Seguir, SessaoInv, Acabou, banco, sessao
<1>11. CASE Tick
  BY <1>0, <1>11, <1>a, <1>b DEF Next, Tick, SessaoInv, Acabou, banco, sessao
<1>12. CASE Reiniciar
  BY <1>0, <1>12, <1>a, <1>b DEF Next, Reiniciar, EmAndamento, SessaoInv, Acabou, banco, sessao
<1>4. ASSUME NEW r \in Logins, CommitLogin(r), Next  PROVE SessaoInv'
  <2>1. /\ pc[r] = "commit_login" /\ refresh_tokens[r] = Nulo
        /\ UNCHANGED <<agora, pedido, instante>>
        /\ pc' = [pc EXCEPT ![r] = "enviar"]
    BY <1>0, <1>4 DEF CommitLogin, Responder, sessao, SessaoInv, Acabou
  <2>2. CASE UNCHANGED refresh_tokens
    BY <1>0, <2>1, <2>2, <1>4, <1>a, <1>b DEF SessaoInv, Acabou
  <2>3. CASE ~ UNCHANGED refresh_tokens
    <3> DEFINE novo == TokenNovo(r, pedido[r].email)
    <3>1. pedido[r].email \in Emails /\ refresh_tokens' = [refresh_tokens EXCEPT ![r] = novo]
      <4>1. pedido[r] \in PedidoLogin
        BY <2>1 DEF TipoInv
      <4>2. QED  BY <1>4, <2>3, <4>1, ZenonT(30) DEF CommitLogin, PedidoLogin
    <3>2. novo # Nulo /\ novo.expires_at = instante[r] + REFRESH_TTL
      BY <3>1, TokenNovoTipo DEF TokenNovo, TipoInv
    <3> HIDE DEF novo
    <3>3. \A j \in Jtis : refresh_tokens'[j] = IF j = r THEN novo ELSE refresh_tokens[j]
      BY <1>0, <3>1
    <3>4. \A q \in Refreshes : pc[q] # "nova" => pedido[q].jti # r
      BY <1>b, <2>1
    <3>5. SessaoEncadeada'
      <4> SUFFICES ASSUME NEW q \in Refreshes, refresh_tokens'[q] # Nulo
                   PROVE  refresh_tokens'[q] = refresh_tokens[q]
                          /\ refresh_tokens'[pedido[q].jti] = refresh_tokens[pedido[q].jti]
        BY <2>1 DEF SessaoInv, SessaoEncadeada
      <4>1. refresh_tokens'[q] = refresh_tokens[q] /\ pc[q] # "nova"
        BY <3>3 DEF SessaoInv, Acabou
      <4>2. QED  BY <1>b, <3>3, <3>4, <4>1
    <3>6. QED  BY <1>0, <1>b, <2>1, <3>2, <3>3, <3>4, <3>5 DEF SessaoInv, Acabou
  <2>4. QED  BY <2>2, <2>3
<1>6. ASSUME NEW r \in Refreshes, CommitRefresh(r), Next  PROVE SessaoInv'
  <2> DEFINE j == pedido[r].jti
             velho == [refresh_tokens[j] EXCEPT !.revoked = TRUE]
             novo == TokenNovo(r, refresh_tokens[j].usuario)
  <2>1. /\ pc[r] = "commit_refresh" /\ refresh_tokens[r] = Nulo
        /\ UNCHANGED <<agora, pedido, instante>>
        /\ pc' = [pc EXCEPT ![r] = "enviar"]
        /\ refresh_tokens' = [refresh_tokens EXCEPT ![j] = velho, ![r] = novo]
    BY <1>0, <1>6 DEF CommitRefresh, Responder, sessao, SessaoInv, Acabou
  <2>2. /\ j \in Jtis /\ j # r /\ refresh_tokens[j] \in Token /\ refresh_tokens[j] # Nulo
        /\ refresh_tokens[j].usuario \in Emails
    <3>1. j \in Jtis /\ refresh_tokens[j] \in Token /\ refresh_tokens[j] # Nulo
      BY <1>b, <2>1
    <3>2. refresh_tokens[j].usuario \in Emails
      BY <3>1, Zenon DEF Token
    <3>3. QED  BY <2>1, <3>1, <3>2
  <2>3. /\ velho # Nulo /\ velho.revoked /\ velho.usuario = refresh_tokens[j].usuario
        /\ velho.expires_at = refresh_tokens[j].expires_at
    BY <2>2, Revogado
  <2>4. novo # Nulo /\ novo.expires_at = instante[r] + REFRESH_TTL /\ novo.usuario = refresh_tokens[j].usuario
    BY <2>2, TokenNovoTipo DEF TokenNovo, TipoInv
  <2>5. refresh_tokens[j].expires_at <= instante[r] + REFRESH_TTL
    BY <2>1 DEF SessaoInv
  <2> HIDE DEF velho, novo
  <2>6. \A k \in Jtis : refresh_tokens'[k] = IF k = r THEN novo ELSE IF k = j THEN velho ELSE refresh_tokens[k]
    BY <1>0, <2>1, <2>2
  <2>7. SessaoEncadeada'
    <3> SUFFICES ASSUME NEW q \in Refreshes, refresh_tokens'[q] # Nulo
                 PROVE  /\ refresh_tokens'[pedido'[q].jti] # Nulo /\ refresh_tokens'[pedido'[q].jti].revoked
                        /\ refresh_tokens'[pedido'[q].jti].usuario = refresh_tokens'[q].usuario
                        /\ refresh_tokens'[pedido'[q].jti].expires_at <= refresh_tokens'[q].expires_at
      BY DEF SessaoEncadeada
    <3>1. CASE q = r
      <4>1. pedido'[q].jti = j
        BY <2>1, <3>1
      <4>2. refresh_tokens'[j] = velho /\ refresh_tokens'[q] = novo
        BY <2>2, <2>6, <3>1
      <4>3. /\ instante[r] \in Nat /\ refresh_tokens[j].expires_at <= instante[r] + REFRESH_TTL
        BY <1>0, <2>5
      <4> HIDE DEF j
      <4>4. QED  BY <2>3, <2>4, <4>1, <4>2, <4>3
    <3>2. CASE q # r
      <4> DEFINE k == pedido[q].jti
      <4>1. /\ refresh_tokens[q] # Nulo /\ pc[q] # "nova"
        BY <2>2, <2>6, <3>2 DEF SessaoInv, Acabou
      <4>2. /\ k \in Jtis /\ refresh_tokens[k] # Nulo /\ refresh_tokens[k].revoked
            /\ refresh_tokens[k].usuario = refresh_tokens[q].usuario
            /\ refresh_tokens[k].expires_at <= refresh_tokens[q].expires_at
        BY <1>b, <4>1 DEF SessaoInv, SessaoEncadeada
      <4>3. k # r
        BY <2>1, <4>2
      <4> HIDE DEF k
      <4>4. /\ refresh_tokens'[q].usuario = refresh_tokens[q].usuario
            /\ refresh_tokens'[q].expires_at = refresh_tokens[q].expires_at
        BY <2>3, <2>6, <3>2
      <4>5. /\ refresh_tokens'[k] # Nulo /\ refresh_tokens'[k].revoked
            /\ refresh_tokens'[k].usuario = refresh_tokens[k].usuario
            /\ refresh_tokens'[k].expires_at = refresh_tokens[k].expires_at
        BY <2>3, <2>6, <4>2, <4>3
      <4>6. pedido'[q].jti = k
        BY <2>1 DEF k
      <4>7. QED  BY <4>2, <4>4, <4>5, <4>6
    <3>3. QED  BY <3>1, <3>2
  <2>8. \A k \in Jtis : refresh_tokens'[k] # Nulo =>
           Acabou(k)' /\ refresh_tokens'[k].expires_at = instante'[k] + REFRESH_TTL
    BY <1>0, <2>1, <2>2, <2>3, <2>4, <2>6 DEF SessaoInv, Acabou
  <2>9. \A q \in Refreshes : pc'[q] = "commit_refresh" =>
           refresh_tokens'[pedido'[q].jti].expires_at <= instante'[q] + REFRESH_TTL
    BY <1>0, <1>b, <2>1, <2>3, <2>6 DEF SessaoInv
  <2>10. QED  BY <2>1, <2>7, <2>8, <2>9, ZenonT(30) DEF SessaoInv
<1>8. ASSUME NEW r \in Logouts, CommitLogout(r), Next  PROVE SessaoInv'
  <2>1. /\ UNCHANGED <<agora, pedido, instante>>
        /\ pc[r] = "commit_logout" /\ pc' = [pc EXCEPT ![r] = "enviar"]
    BY <1>8 DEF CommitLogout, Responder, sessao
  <2>2. pedido[r].jti \in Jtis /\ refresh_tokens[pedido[r].jti] # Nulo
    BY <2>1, TokenUsado
  <2>3. \A k \in Jtis : refresh_tokens[k] = Nulo => refresh_tokens'[k] = Nulo
    BY <1>0, <1>8, <2>2 DEF CommitLogout
  <2>4. QED  BY <1>0, <1>8, <1>a, <1>b, <2>1, <2>3 DEF SessaoInv, Acabou
<1>13. CASE UNCHANGED vars
  BY <1>13 DEF vars, SessaoInv, SessaoEncadeada, Acabou, banco, sessao
<1>14. QED
  BY <1>1, <1>2, <1>3, <1>4, <1>5, <1>6, <1>7, <1>8, <1>9, <1>10, <1>11, <1>12, <1>13, PassosDeNext

-----------------------------------------------------------------------------
(* The trail of the logins *)

Tentou(r) == \E a \in login_attempts : a.req = r

RastroInv ==
    \A r \in Logins :
        /\ Tentou(r) => Acabou(r)
        /\ resposta[r] = 200 => Tentou(r) /\ Auditado("LOGIN_SUCCESS", r) /\ refresh_tokens[r] # Nulo
        /\ resposta[r] = 401 => \/ Tentou(r) /\ Auditado("LOGIN_FAILED", r)
                                \/ ~ Tentou(r) /\ Auditado("LOGIN_LOCKED", r)
        /\ refresh_tokens[r] # Nulo => Tentou(r) /\ Auditado("LOGIN_SUCCESS", r)

LEMMA RastroInit == Init => RastroInv
  BY NuloDistinto DEF Init, RastroInv, Requisicoes, Jtis, Tentou

\* Only a login writes its own trail, and each of its answers comes with one.
LEMMA RastroStep == TipoInv /\ SessaoInv /\ RastroInv /\ [Next]_vars => RastroInv'
<1> SUFFICES ASSUME TipoInv, SessaoInv, RastroInv, [Next]_vars
             PROVE  RastroInv'
  OBVIOUS
<1>0. /\ refresh_tokens \in [Jtis -> Token \cup {Nulo}]
      /\ pc \in [Requisicoes -> FasesLogin \cup FasesRefresh \cup FasesLogout]
      /\ resposta \in [Requisicoes -> {200, 204, 401, PERDIDA, Nulo}]
      /\ \A r \in Requisicoes : ~ Acabou(r) => resposta[r] = Nulo
  BY DEF TipoInv, TypeOK, FasesLogin, FasesRefresh, FasesLogout, Acabou
<1> USE RequisicoesSeparadas, NuloDistinto DEF Jtis, Requisicoes, Auditado, PERDIDA
\* A step that is not the answer of a login.
<1>a. ASSUME UNCHANGED login_attempts, audit_logs \subseteq audit_logs',
             \A r \in Logins : /\ refresh_tokens'[r] # Nulo <=> refresh_tokens[r] # Nulo
                               /\ Acabou(r) => Acabou(r)'
                               /\ resposta'[r] \in {200, 401} => resposta'[r] = resposta[r]
      PROVE  RastroInv'
  BY <1>a DEF RastroInv, Tentou
<1>1. ASSUME NEW r \in Logins, ReceberLogin(r)  PROVE RastroInv'
  BY <1>0, <1>1, <1>a DEF ReceberLogin, Seguir, Acabou, banco
<1>2. ASSUME NEW r \in Logins, IsLocked(r)  PROVE RastroInv'
  <2>1. CASE is_locked(pedido[r].email)
    <3>1. /\ audit_logs' = audit_logs \cup {Evento("LOGIN_LOCKED", r)}
          /\ resposta' = [resposta EXCEPT ![r] = 401] /\ pc' = [pc EXCEPT ![r] = "enviar"]
          /\ UNCHANGED <<login_attempts, refresh_tokens>> /\ pc[r] = "is_locked"
      BY <1>2, <2>1 DEF IsLocked, Responder
    <3>2. ~ Tentou(r)
      BY <3>1 DEF RastroInv, Acabou
    <3>3. QED  BY <1>0, <3>1, <3>2 DEF RastroInv, Tentou, Acabou
  <2>2. CASE ~ is_locked(pedido[r].email)
    BY <1>0, <1>2, <2>2, <1>a DEF IsLocked, Seguir, Acabou
  <2>3. QED  BY <2>1, <2>2
<1>3. ASSUME NEW r \in Logins, VerifyPassword(r)  PROVE RastroInv'
  BY <1>0, <1>3, <1>a DEF VerifyPassword, Seguir, Acabou, banco
<1>4. ASSUME NEW r \in Logins, CommitLogin(r)  PROVE RastroInv'
  <2>1. /\ pc[r] = "commit_login" /\ pc' = [pc EXCEPT ![r] = "enviar"]
        /\ \E a : a.req = r /\ login_attempts' = login_attempts \cup {a}
    BY <1>4 DEF CommitLogin, Responder
  <2>2. \A q \in Logins : /\ Tentou(q)' <=> q = r \/ Tentou(q)
                          /\ Acabou(q)' <=> q = r \/ Acabou(q)
    BY <1>0, <2>1 DEF Tentou, Acabou
  <2>3. CASE pedido[r].senhaCerta
    <3>1. /\ refresh_tokens' = [refresh_tokens EXCEPT ![r] = TokenNovo(r, pedido[r].email)]
          /\ audit_logs' = audit_logs \cup {Evento("LOGIN_SUCCESS", r)}
          /\ resposta' = [resposta EXCEPT ![r] = 200]
      BY <1>4, <2>3 DEF CommitLogin, Responder
    <3>2. TokenNovo(r, pedido[r].email) # Nulo
      <4>1. pedido[r].email \in Emails
        BY <2>1, Zenon DEF TipoInv, PedidoLogin
      <4>2. QED  BY <4>1, TokenNovoTipo DEF TipoInv
    <3>3. QED  BY <1>0, <2>2, <3>1, <3>2 DEF RastroInv
  <2>4. CASE ~ pedido[r].senhaCerta
    <3>1. /\ UNCHANGED refresh_tokens /\ resposta' = [resposta EXCEPT ![r] = 401]
          /\ audit_logs \subseteq audit_logs' /\ Evento("LOGIN_FAILED", r) \in audit_logs'
      BY <1>4, <2>4 DEF CommitLogin, Responder
    <3>2. QED  BY <1>0, <2>1, <2>2, <3>1 DEF RastroInv, SessaoInv, Acabou
  <2>5. QED  BY <2>3, <2>4
<1>5. ASSUME NEW r \in Refreshes, LerRefresh(r)  PROVE RastroInv'
  BY <1>0, <1>5, <1>a DEF LerRefresh, Seguir, Responder, Acabou, banco
<1>6. ASSUME NEW r \in Refreshes, CommitRefresh(r)  PROVE RastroInv'
  <2>1. pedido[r].jti \in Jtis /\ refresh_tokens[pedido[r].jti] \in Token /\ refresh_tokens[pedido[r].jti] # Nulo
    BY <1>6, TokenUsado DEF CommitRefresh
  <2>2. [refresh_tokens[pedido[r].jti] EXCEPT !.revoked = TRUE] # Nulo
    BY <2>1, Revogado
  <2>3. QED  BY <1>0, <1>6, <1>a, <2>1, <2>2 DEF CommitRefresh, Responder, Acabou
<1>7. ASSUME NEW r \in Logouts, LerLogout(r)  PROVE RastroInv'
  BY <1>0, <1>7, <1>a DEF LerLogout, Seguir, Responder, Acabou, banco
<1>8. ASSUME NEW r \in Logouts, CommitLogout(r)  PROVE RastroInv'
  <2>1. pedido[r].jti \in Jtis /\ refresh_tokens[pedido[r].jti] \in Token /\ refresh_tokens[pedido[r].jti] # Nulo
    BY <1>8, TokenUsado DEF CommitLogout
  <2>2. [refresh_tokens[pedido[r].jti] EXCEPT !.revoked = TRUE] # Nulo
    BY <2>1, Revogado
  <2>3. QED  BY <1>0, <1>8, <1>a, <2>1, <2>2 DEF CommitLogout, Responder, Acabou
<1>9. ASSUME NEW r \in Refreshes \cup Logouts, ReceberToken(r)  PROVE RastroInv'
  BY <1>0, <1>9, <1>a DEF ReceberToken, Seguir, Acabou, banco
<1>10. ASSUME NEW r \in Requisicoes, Enviar(r)  PROVE RastroInv'
  BY <1>0, <1>10, <1>a DEF Enviar, Seguir, Acabou, banco
<1>11. CASE Tick
  BY <1>11, <1>a DEF Tick, Acabou, banco
<1>12. CASE Reiniciar
  BY <1>0, <1>12, <1>a DEF Reiniciar, EmAndamento, Acabou, banco
<1>13. CASE UNCHANGED vars
  BY <1>13, <1>a DEF vars, Acabou, banco
<1>14. QED
  BY <1>1, <1>2, <1>3, <1>4, <1>5, <1>6, <1>7, <1>8, <1>9, <1>10, <1>11, <1>12, <1>13, PassosDeNext

-----------------------------------------------------------------------------
(* How often a refresh token can be used *)

\* A logout that is committed is over, and has revoked the token it found alive.
SaidaInv ==
    \A o \in Logouts : Auditado("LOGOUT", o) =>
        Acabou(o) /\ (achado[o] => refresh_tokens[pedido[o].jti].revoked)

LEMMA SaidaInit == Init => SaidaInv
  BY DEF Init, SaidaInv, Auditado

\* Only the commit of a logout writes its event.
LEMMA EventoDeSaida ==
  ASSUME [Next]_vars, NEW o \in Logouts, Auditado("LOGOUT", o)'
  PROVE  Auditado("LOGOUT", o) \/ CommitLogout(o)
<1>1. ASSUME NEW r, NEW acao \in {"LOGIN_LOCKED", "LOGIN_SUCCESS", "LOGIN_FAILED", "ALERTA", "TOKEN_REFRESHED"}
      PROVE  Evento(acao, r) # Evento("LOGOUT", o)
  BY DEF Evento
<1>2. \A r : Evento("LOGOUT", r) = Evento("LOGOUT", o) => r = o
  BY DEF Evento
<1> USE DEF Auditado
<1>3. ASSUME NEW r \in Logins, ReceberLogin(r) \/ IsLocked(r) \/ VerifyPassword(r) \/ CommitLogin(r)
      PROVE  Auditado("LOGOUT", o)
  BY <1>1, <1>3 DEF ReceberLogin, IsLocked, VerifyPassword, CommitLogin, banco
<1>4. ASSUME NEW r \in Refreshes, LerRefresh(r) \/ CommitRefresh(r)
      PROVE  Auditado("LOGOUT", o)
  BY <1>1, <1>4 DEF LerRefresh, CommitRefresh, banco
<1>5. ASSUME NEW r \in Logouts, LerLogout(r) \/ CommitLogout(r)
      PROVE  Auditado("LOGOUT", o) \/ r = o
  BY <1>2, <1>5 DEF LerLogout, CommitLogout, banco
<1>6. ASSUME \/ \E r \in Refreshes \cup Logouts : ReceberToken(r)
             \/ \E r \in Requisicoes : Enviar(r)
             \/ Tick \/ Reiniciar \/ UNCHANGED vars
      PROVE  Auditado("LOGOUT", o)
  BY <1>6 DEF ReceberToken, Enviar, Tick, Reiniciar, vars, banco
<1>7. ASSUME LerLogout(o)  PROVE Auditado("LOGOUT", o)
  BY <1>7 DEF LerLogout, banco
<1>8. QED  BY <1>3, <1>4, <1>5, <1>6, <1>7, PassosDeNext

\* The password of a login decides nothing about a logout.
LEMMA AchadoDaSaida ==
  ASSUME TipoInv, NEW r \in Logins, VerifyPassword(r)
  PROVE  \A o \in Logouts : achado'[o] = achado[o]
<1>1. \A o \in Logouts : o # r
  BY RequisicoesSeparadas
<1>2. achado \in [Logins \cup Logouts -> BOOLEAN]
  BY DEF TipoInv, TypeOK
<1>3. UNCHANGED achado \/ \E b : achado' = [achado EXCEPT ![r] = b]
  BY Zenon DEF VerifyPassword
<1>4. QED  BY <1>1, <1>2, <1>3

\* It is written with the revocation, and neither is ever taken back.
LEMMA SaidaStep == TipoInv /\ SessaoInv /\ SaidaInv /\ [Next]_vars => SaidaInv'
<1> SUFFICES ASSUME TipoInv, SessaoInv, SaidaInv, [Next]_vars,
                    NEW o \in Logouts, Auditado("LOGOUT", o)'
             PROVE  Acabou(o)' /\ (achado'[o] => refresh_tokens'[pedido'[o].jti].revoked)
  BY DEF SaidaInv
<1> USE RequisicoesSeparadas DEF Requisicoes, Jtis
<1>0. /\ pc \in [Requisicoes -> FasesLogin \cup FasesRefresh \cup FasesLogout]
      /\ achado \in [Logins \cup Logouts -> BOOLEAN] /\ refresh_tokens \in [Jtis -> Token \cup {Nulo}]
      /\ DOMAIN pedido = Requisicoes
  BY DEF TipoInv, TypeOK, FasesLogin, FasesRefresh, FasesLogout
<1>b. ASSUME Auditado("LOGOUT", o), Next
      PROVE  Acabou(o)' /\ achado'[o] = achado[o] /\ pedido'[o] = pedido[o]
  <2>1. Acabou(o)
    BY <1>b DEF SaidaInv
  <2> USE <1>0, <1>b, <2>1 DEF Acabou
  <2>2. ASSUME NEW r \in Logins, ReceberLogin(r) \/ IsLocked(r) \/ VerifyPassword(r) \/ CommitLogin(r)
        PROVE  Acabou(o)' /\ achado'[o] = achado[o] /\ pedido'[o] = pedido[o]
    <3>1. achado'[o] = achado[o]
      BY <2>2, AchadoDaSaida DEF ReceberLogin, IsLocked, CommitLogin, sessao
    <3>2. (\E fase : pc' = [pc EXCEPT ![r] = fase]) /\ pedido'[o] = pedido[o]
      <4>1. CASE VerifyPassword(r)
        BY <4>1 DEF VerifyPassword, Seguir
      <4>2. CASE ~ VerifyPassword(r)
        BY <2>2, <4>2 DEF ReceberLogin, IsLocked, CommitLogin, Seguir, Responder, sessao
      <4>3. QED  BY <4>1, <4>2
    <3>3. QED  BY <3>1, <3>2
  <2>3. ASSUME NEW r \in Refreshes, LerRefresh(r) \/ CommitRefresh(r)
        PROVE  Acabou(o)' /\ achado'[o] = achado[o] /\ pedido'[o] = pedido[o]
    BY <2>3 DEF LerRefresh, CommitRefresh, Seguir, Responder, sessao
  <2>4. ASSUME NEW r \in Logouts, LerLogout(r) \/ CommitLogout(r)
        PROVE  Acabou(o)' /\ achado'[o] = achado[o] /\ pedido'[o] = pedido[o]
    BY <2>4 DEF LerLogout, CommitLogout, Seguir, Responder, sessao
  <2>5. ASSUME NEW r \in Refreshes \cup Logouts, ReceberToken(r)
        PROVE  Acabou(o)' /\ achado'[o] = achado[o] /\ pedido'[o] = pedido[o]
    BY <2>5 DEF ReceberToken, Seguir
  <2>6. ASSUME NEW r \in Requisicoes, Enviar(r)
        PROVE  Acabou(o)' /\ achado'[o] = achado[o] /\ pedido'[o] = pedido[o]
    BY <2>6 DEF Enviar, Seguir, sessao
  <2>7. ASSUME Tick \/ Reiniciar
        PROVE  Acabou(o)' /\ achado'[o] = achado[o] /\ pedido'[o] = pedido[o]
    BY <2>7 DEF Tick, Reiniciar, EmAndamento, sessao
  <2>8. QED  BY <2>2, <2>3, <2>4, <2>5, <2>6, <2>7, PassosDeNext
<1>1. ASSUME Auditado("LOGOUT", o), Next
      PROVE  Acabou(o)' /\ (achado'[o] => refresh_tokens'[pedido'[o].jti].revoked)
  <2>1. SUFFICES ASSUME achado[o]  PROVE refresh_tokens'[pedido[o].jti].revoked
    BY <1>1, <1>b
  <2>2. Acabou(o) /\ refresh_tokens[pedido[o].jti].revoked
    BY <1>1, <2>1 DEF SaidaInv
  <2>3. pedido[o].jti \in Jtis /\ refresh_tokens[pedido[o].jti] # Nulo
    BY <2>2, TokenUsado DEF Acabou
  <2>4. QED  BY <1>1, <2>2, <2>3, TokenPermanece DEF SessaoInv
<1>2. ASSUME CommitLogout(o)
      PROVE  Acabou(o)' /\ (achado'[o] => refresh_tokens'[pedido'[o].jti].revoked)
  <2>1. pedido[o].jti \in Jtis /\ refresh_tokens[pedido[o].jti] \in Token
    BY <1>2, TokenUsado DEF CommitLogout
  <2>2. [refresh_tokens[pedido[o].jti] EXCEPT !.revoked = TRUE].revoked = TRUE
    BY <2>1, Revogado
  <2>3. Acabou(o)' /\ UNCHANGED <<achado, pedido>>
    BY <1>0, <1>2 DEF CommitLogout, Responder, Acabou, sessao
  <2>4. achado[o] => refresh_tokens' =
           [refresh_tokens EXCEPT ![pedido[o].jti] = [refresh_tokens[pedido[o].jti] EXCEPT !.revoked = TRUE]]
    BY <1>2 DEF CommitLogout
  <2>5. QED  BY <1>0, <2>1, <2>2, <2>3, <2>4
<1>3. CASE UNCHANGED vars
  BY <1>3 DEF vars, banco, sessao, SaidaInv, Auditado, Acabou
<1>4. QED  BY <1>1, <1>2, <1>3, EventoDeSaida

\* The rotations and the logouts that are past their reading of a token.
Pendentes(j) == {r \in Refreshes : pc[r] = "commit_refresh" /\ pedido[r].jti = j}
                    \cup {o \in Logouts : pc[o] = "commit_logout" /\ achado[o] /\ pedido[o].jti = j}

\* Those that have spent a token, and those that will whatever happens to it.
Gasto(j) == UsosDe(j) \cup EncerradoPor(j) \cup Pendentes(j)

UsosInv ==
    /\ Cardinality(Executando) <= Threads
    /\ \A j \in Jtis : Cardinality(Gasto(j)) <= Threads

\* Sets of requests are finite and a part is no larger than the whole.
LEMMA ParteMenor ==
  ASSUME NEW S, NEW T, S \subseteq T, T \subseteq Requisicoes
  PROVE  /\ IsFiniteSet(S) /\ IsFiniteSet(T)
         /\ Cardinality(S) \in Nat /\ Cardinality(T) \in Nat /\ Cardinality(S) <= Cardinality(T)
<1>1. IsFiniteSet(T)
  BY ThreadsPositivo, FS_Subset
<1>2. IsFiniteSet(S) /\ Cardinality(S) <= Cardinality(T)
  BY <1>1, FS_Subset
<1>3. QED  BY <1>1, <1>2, FS_CardinalityType

LEMMA UsosInit == Init => UsosInv
<1> SUFFICES ASSUME Init  PROVE UsosInv
  OBVIOUS
<1>1. Executando = {} /\ \A j \in Jtis : Gasto(j) = {}
  BY NuloDistinto DEF Init, Executando, EmAndamento, Gasto, UsosDe, EncerradoPor, Auditado, Pendentes,
                         Requisicoes, Jtis
<1>2. QED  BY <1>1, FS_EmptySet, ThreadsPositivo DEF UsosInv

\* A thread is taken by a new request when there is one, and only given back otherwise.
LEMMA ThreadsStep ==
  ASSUME TipoInv, Cardinality(Executando) <= Threads, [Next]_vars
  PROVE  Cardinality(Executando') <= Threads
<1>0. Executando \subseteq Requisicoes /\ pc \in [Requisicoes -> FasesLogin \cup FasesRefresh \cup FasesLogout]
  BY DEF Executando, EmAndamento, TipoInv, TypeOK, FasesLogin, FasesRefresh, FasesLogout
<1>a. ASSUME Executando' \subseteq Executando  PROVE Cardinality(Executando') <= Threads
  BY <1>0, <1>a, ParteMenor, ThreadsPositivo
<1>b. ASSUME NEW r \in Requisicoes, NEW fase, HaThread, pc' = [pc EXCEPT ![r] = fase]
      PROVE  Cardinality(Executando') <= Threads
  <2>1. Executando' \subseteq Executando \cup {r}
    BY <1>0, <1>b DEF Executando, EmAndamento
  <2>2. Executando \cup {r} \subseteq Requisicoes /\ IsFiniteSet(Executando) /\ Cardinality(Executando) \in Nat
    BY <1>0, ParteMenor
  <2>3. Cardinality(Executando \cup {r}) <= Cardinality(Executando) + 1
    BY <2>2, FS_AddElement
  <2>4. Cardinality(Executando') <= Cardinality(Executando \cup {r}) /\ Cardinality(Executando') \in Nat
        /\ Cardinality(Executando \cup {r}) \in Nat
    BY <2>1, <2>2, ParteMenor
  <2>5. QED  BY <1>b, <2>2, <2>3, <2>4, ThreadsPositivo DEF HaThread
\* A step that moves one running request on.
<1>c. ASSUME NEW r \in Requisicoes, NEW fase, pc[r] # "nova", pc[r] # "enviar", pc[r] # "respondida",
             pc' = [pc EXCEPT ![r] = fase]
      PROVE  Cardinality(Executando') <= Threads
  BY <1>0, <1>a, <1>c DEF Executando, EmAndamento
<1> USE DEF Requisicoes
<1>1. ASSUME NEW r \in Logins, ReceberLogin(r)  PROVE Cardinality(Executando') <= Threads
  BY <1>1, <1>b DEF ReceberLogin, Seguir
<1>2. ASSUME NEW r \in Logins, IsLocked(r)  PROVE Cardinality(Executando') <= Threads
  BY <1>2, <1>c DEF IsLocked, Seguir, Responder
<1>3. ASSUME NEW r \in Logins, VerifyPassword(r)  PROVE Cardinality(Executando') <= Threads
  BY <1>3, <1>c DEF VerifyPassword, Seguir
<1>4. ASSUME NEW r \in Logins, CommitLogin(r)  PROVE Cardinality(Executando') <= Threads
  BY <1>4, <1>c DEF CommitLogin, Responder
<1>5. ASSUME NEW r \in Refreshes, LerRefresh(r) \/ CommitRefresh(r)  PROVE Cardinality(Executando') <= Threads
  BY <1>5, <1>c DEF LerRefresh, CommitRefresh, Seguir, Responder
<1>6. ASSUME NEW r \in Logouts, LerLogout(r) \/ CommitLogout(r)  PROVE Cardinality(Executando') <= Threads
  BY <1>6, <1>c DEF LerLogout, CommitLogout, Seguir, Responder
<1>7. ASSUME NEW r \in Refreshes \cup Logouts, ReceberToken(r)  PROVE Cardinality(Executando') <= Threads
  <2>1. r \in Requisicoes /\ HaThread /\ pc' = [pc EXCEPT ![r] = "ler_token"]
    BY <1>7 DEF ReceberToken, Seguir
  <2>2. QED  BY <2>1, <1>b
<1>8. ASSUME NEW r \in Requisicoes, Enviar(r)  PROVE Cardinality(Executando') <= Threads
  BY <1>0, <1>8, <1>a DEF Enviar, Seguir, Executando, EmAndamento
<1>9. CASE Tick
  BY <1>9, <1>a DEF Tick, Executando, EmAndamento
<1>10. CASE Reiniciar
  BY <1>0, <1>10, <1>a DEF Reiniciar, Executando, EmAndamento
<1>11. CASE UNCHANGED vars
  BY <1>11, <1>a DEF vars, Executando, EmAndamento
<1>12. QED
  BY <1>1, <1>2, <1>3, <1>4, <1>5, <1>6, <1>7, <1>8, <1>9, <1>10, <1>11, PassosDeNext

\* A token can be spent by those that read it before the first of them revoked it, and they
\* all held a thread at that moment.
LEMMA UsosStep == TipoInv /\ SessaoInv /\ SaidaInv /\ UsosInv /\ [Next]_vars => UsosInv'
<1> SUFFICES ASSUME TipoInv, SessaoInv, SaidaInv, UsosInv, [Next]_vars, NEW j \in Jtis
             PROVE  Cardinality(Gasto(j)') <= Threads
  BY ThreadsStep DEF UsosInv
<1>0. /\ pc \in [Requisicoes -> FasesLogin \cup FasesRefresh \cup FasesLogout]
      /\ refresh_tokens \in [Jtis -> Token \cup {Nulo}]
      /\ achado \in [Logins \cup Logouts -> BOOLEAN]
      /\ Gasto(j) \subseteq Requisicoes /\ Cardinality(Gasto(j)) <= Threads
      /\ \A r \in Refreshes : refresh_tokens[r] # Nulo => Acabou(r)
      /\ \A o \in Logouts : Auditado("LOGOUT", o) => Acabou(o)
  BY DEF TipoInv, TypeOK, FasesLogin, FasesRefresh, FasesLogout, UsosInv, Gasto, UsosDe, EncerradoPor,
         Pendentes, Requisicoes, SessaoInv, SaidaInv, Jtis
<1>g. \A o \in Logouts : Auditado("LOGOUT", o)' => Auditado("LOGOUT", o) \/ pc[o] = "commit_logout"
  BY EventoDeSaida DEF CommitLogout
\* A step that lets no further request past the reading of a token.
<1>a. ASSUME \A r \in Refreshes :
                /\ pc'[r] = "commit_refresh" => pc[r] = "commit_refresh" /\ pedido'[r] = pedido[r]
                /\ refresh_tokens'[r] # Nulo =>
                      /\ refresh_tokens[r] # Nulo \/ pc[r] = "commit_refresh"
                      /\ pedido'[r] = pedido[r],
             \A o \in Logouts :
                /\ pc'[o] = "commit_logout" => pc[o] = "commit_logout"
                /\ pc[o] = "commit_logout" \/ Acabou(o) =>
                      achado'[o] = achado[o] /\ pedido'[o] = pedido[o]
      PROVE  Cardinality(Gasto(j)') <= Threads
  <2>1. UsosDe(j)' \cup Pendentes(j)' \subseteq Gasto(j)
    BY <1>a DEF Gasto, UsosDe, Pendentes
  <2>2. EncerradoPor(j)' \subseteq Gasto(j)
    BY <1>0, <1>a, <1>g DEF Gasto, EncerradoPor, Pendentes
  <2>3. Gasto(j)' \subseteq Gasto(j)
    BY <2>1, <2>2 DEF Gasto
  <2>4. QED  BY <1>0, <2>3, ParteMenor, ThreadsPositivo
<1> USE RequisicoesSeparadas DEF Requisicoes, Jtis
\* Nobody has spent a token that is not revoked.
<1>e. ASSUME ~ refresh_tokens[j].revoked
      PROVE  UsosDe(j) = {} /\ EncerradoPor(j) = {}
  BY <1>e DEF SessaoInv, SessaoEncadeada, SaidaInv, UsosDe, EncerradoPor
\* Those past their reading of it, and the one that reads it now, all hold a thread.
<1>f. ASSUME ~ refresh_tokens[j].revoked, NEW r \in Requisicoes, pc[r] = "ler_token",
             Gasto(j)' \subseteq Gasto(j) \cup {r}
      PROVE  Cardinality(Gasto(j)') <= Threads
  <2>1. Gasto(j)' \subseteq Executando
    BY <1>e, <1>f DEF Gasto, Pendentes, Executando, EmAndamento
  <2>2. Executando \subseteq Requisicoes /\ Cardinality(Executando) <= Threads
    BY DEF Executando, EmAndamento, UsosInv
  <2>3. QED  BY <2>1, <2>2, ParteMenor, ThreadsPositivo
<1>1. ASSUME NEW r \in Logins, ReceberLogin(r)  PROVE Cardinality(Gasto(j)') <= Threads
  BY <1>0, <1>1, <1>a DEF ReceberLogin, Seguir, banco, Acabou
<1>2. ASSUME NEW r \in Logins, IsLocked(r)  PROVE Cardinality(Gasto(j)') <= Threads
  BY <1>0, <1>2, <1>a DEF IsLocked, Seguir, Responder, sessao, Acabou
<1>3. ASSUME NEW r \in Logins, VerifyPassword(r)  PROVE Cardinality(Gasto(j)') <= Threads
  <2>1. /\ UNCHANGED <<refresh_tokens, pedido>> /\ pc' = [pc EXCEPT ![r] = "commit_login"]
        /\ \A o \in Logouts : achado'[o] = achado[o]
    BY <1>3, AchadoDaSaida DEF VerifyPassword, Seguir, banco
  <2>2. QED  BY <1>0, <2>1, <1>a DEF Acabou
<1>4. ASSUME NEW r \in Logins, CommitLogin(r)  PROVE Cardinality(Gasto(j)') <= Threads
  BY <1>0, <1>4, <1>a DEF CommitLogin, Responder, sessao, Acabou
<1>5. ASSUME NEW r \in Refreshes, LerRefresh(r)  PROVE Cardinality(Gasto(j)') <= Threads
  <2>0. UNCHANGED <<pedido, refresh_tokens, achado, audit_logs>> /\ pc[r] = "ler_token"
    BY <1>5 DEF LerRefresh, banco
  <2>1. CASE pc' = [pc EXCEPT ![r] = "enviar"]
    BY <1>0, <2>0, <2>1, <1>a DEF Acabou
  <2>2. CASE pc' = [pc EXCEPT ![r] = "commit_refresh"] /\ ~ refresh_tokens[pedido[r].jti].revoked
    <3>1. Gasto(j)' \subseteq IF pedido[r].jti = j THEN Gasto(j) \cup {r} ELSE Gasto(j)
      BY <1>0, <2>0, <2>2 DEF Gasto, UsosDe, EncerradoPor, Auditado, Pendentes
    <3>2. CASE pedido[r].jti = j
      BY <2>0, <2>2, <3>1, <3>2, <1>f
    <3>3. CASE pedido[r].jti # j
      BY <1>0, <3>1, <3>3, ParteMenor, ThreadsPositivo
    <3>4. QED  BY <3>2, <3>3
  <2>3. QED  BY <1>5, <2>1, <2>2 DEF LerRefresh, Seguir, Responder
<1>6. ASSUME NEW r \in Refreshes, CommitRefresh(r)  PROVE Cardinality(Gasto(j)') <= Threads
  <2>1. pedido[r].jti \in Jtis /\ refresh_tokens[pedido[r].jti] # Nulo /\ pc[r] = "commit_refresh"
    BY <1>6, TokenUsado DEF CommitRefresh
  <2>2. QED  BY <1>0, <1>6, <1>a, <2>1 DEF CommitRefresh, Responder, sessao, Acabou
<1>7. ASSUME NEW r \in Logouts, LerLogout(r)  PROVE Cardinality(Gasto(j)') <= Threads
  <2> DEFINE vivo == ~ Expirado(pedido[r].jti) /\ ~ refresh_tokens[pedido[r].jti].revoked
  <2>0. UNCHANGED <<pedido, refresh_tokens, audit_logs>> /\ pc[r] = "ler_token"
    BY <1>7 DEF LerLogout, banco
  <2>1. CASE pc' = [pc EXCEPT ![r] = "enviar"] /\ UNCHANGED achado
    BY <1>0, <2>0, <2>1, <1>a DEF Acabou
  <2>2. CASE pc' = [pc EXCEPT ![r] = "commit_logout"] /\ achado' = [achado EXCEPT ![r] = vivo]
    <3>0. ~ Auditado("LOGOUT", r)
      BY <1>0, <2>0 DEF Acabou
    <3>a. vivo \in BOOLEAN
      OBVIOUS
    <3>1. Gasto(j)' \subseteq IF vivo /\ pedido[r].jti = j THEN Gasto(j) \cup {r} ELSE Gasto(j)
      <4> HIDE DEF vivo
      <4>1. UsosDe(j)' \cup EncerradoPor(j)' \subseteq Gasto(j)
        BY <1>0, <2>0, <2>2, <3>0 DEF Gasto, UsosDe, EncerradoPor, Auditado
      <4>2. Pendentes(j)' \subseteq IF vivo /\ pedido[r].jti = j THEN Pendentes(j) \cup {r} ELSE Pendentes(j)
        <5>1. /\ \A o \in Logouts : pc'[o] = "commit_logout" => o = r \/ pc[o] = "commit_logout"
              /\ \A q \in Refreshes : pc'[q] = pc[q]
              /\ \A o \in Logouts : o # r => achado'[o] = achado[o]
          BY <1>0, <2>2
        <5>2. achado'[r] = vivo
          BY <1>0, <2>2, <3>a, BooleanoTrocado
        <5>3. QED  BY <2>0, <5>1, <5>2 DEF Pendentes
      <4>3. QED  BY <4>1, <4>2 DEF Gasto
    <3>2. CASE vivo /\ pedido[r].jti = j
      BY <2>0, <3>1, <3>2, <1>f
    <3>3. CASE ~ (vivo /\ pedido[r].jti = j)
      BY <1>0, <3>1, <3>3, ParteMenor, ThreadsPositivo
    <3>4. QED  BY <3>2, <3>3
  <2>3. QED  BY <1>7, <2>1, <2>2 DEF LerLogout, Seguir, Responder
<1>8. ASSUME NEW r \in Logouts, CommitLogout(r)  PROVE Cardinality(Gasto(j)') <= Threads
  <2>1. pedido[r].jti \in Jtis /\ refresh_tokens[pedido[r].jti] # Nulo
    BY <1>8, TokenUsado DEF CommitLogout
  <2>2. QED  BY <1>0, <1>8, <1>a, <2>1 DEF CommitLogout, Responder, sessao, Acabou
<1>9. ASSUME NEW r \in Refreshes \cup Logouts, ReceberToken(r)  PROVE Cardinality(Gasto(j)') <= Threads
  BY <1>0, <1>9, <1>a DEF ReceberToken, Seguir, banco, Acabou
<1>10. ASSUME NEW r \in Requisicoes, Enviar(r)  PROVE Cardinality(Gasto(j)') <= Threads
  BY <1>0, <1>10, <1>a DEF Enviar, Seguir, banco, sessao, Acabou
<1>11. CASE Tick
  BY <1>11, <1>a DEF Tick, banco, sessao, Acabou
<1>12. CASE Reiniciar
  BY <1>0, <1>12, <1>a DEF Reiniciar, EmAndamento, banco, sessao, Acabou
<1>13. CASE UNCHANGED vars
  BY <1>13, <1>a DEF vars, banco, sessao, Acabou
<1>14. QED
  BY <1>1, <1>2, <1>3, <1>4, <1>5, <1>6, <1>7, <1>8, <1>9, <1>10, <1>11, <1>12, <1>13, PassosDeNext

-----------------------------------------------------------------------------
(* How many passwords are tried, and when the alert is raised *)

\* One attempt per request, dated when its handler wrote it.
TentativaInv ==
    /\ IsFiniteSet(login_attempts) /\ IsFiniteSet(login_failures)
    /\ \A a, b \in login_attempts : a.req = b.req => a = b
    /\ \A a \in login_attempts : a.attempted_at = instante[a.req]

LEMMA TentativaInit == Init => TentativaInv
  BY FS_EmptySet DEF Init, TentativaInv

\* The only step that dates a login and the only one that records it come in this order.
LEMMA TentativaStep == TipoInv /\ RastroInv /\ TentativaInv /\ [Next]_vars => TentativaInv'
<1> SUFFICES ASSUME TipoInv, RastroInv, TentativaInv, [Next]_vars
             PROVE  TentativaInv'
  OBVIOUS
<1>0. instante \in [Jtis -> Nat] /\ login_attempts \subseteq Tentativa
  BY DEF TipoInv, TypeOK
<1> USE RequisicoesSeparadas DEF Jtis, Requisicoes
\* A step that records nothing and dates no request that is recorded.
<1>a. ASSUME UNCHANGED login_attempts, IsFiniteSet(login_failures'),
             \A a \in login_attempts : instante'[a.req] = instante[a.req]
      PROVE  TentativaInv'
  BY <1>a DEF TentativaInv
<1>b. IsFiniteSet(login_failures)
  BY DEF TentativaInv
<1>1. ASSUME NEW r \in Logins, ReceberLogin(r)  PROVE TentativaInv'
  BY <1>1, <1>a, <1>b DEF ReceberLogin, banco
<1>2. ASSUME NEW r \in Logins, IsLocked(r)  PROVE TentativaInv'
  BY <1>2, <1>a, <1>b DEF IsLocked, sessao
<1>3. ASSUME NEW r \in Logins, VerifyPassword(r)  PROVE TentativaInv'
  <2>1. IsFiniteSet(hit(r))
    <3> DEFINE M == {h \in login_failures : h.email # pedido[r].email \/ h.em >= agora - JANELA}
    <3>1. IsFiniteSet(M)
      BY <1>b, FS_Subset
    <3> HIDE DEF M
    <3>2. \A x : IsFiniteSet(M \cup {x})
      BY <3>1, FS_AddElement
    <3>3. QED  BY <3>2 DEF hit, M
  <2>2. IsFiniteSet(login_failures')
    BY <1>3, <1>b, <2>1 DEF VerifyPassword
  <2>3. \A a \in login_attempts : a.req # r
    BY <1>3 DEF VerifyPassword, RastroInv, Tentou, Acabou
  <2>4. UNCHANGED login_attempts /\ instante' = [instante EXCEPT ![r] = agora]
    BY <1>3 DEF VerifyPassword, banco
  <2>5. \A a \in login_attempts : instante'[a.req] = instante[a.req]
    BY <1>0, <2>3, <2>4 DEF Tentativa
  <2>6. QED  BY <1>a, <2>2, <2>4, <2>5
<1>4. ASSUME NEW r \in Logins, CommitLogin(r)  PROVE TentativaInv'
  <2>1. PICK a : /\ a.req = r /\ a.attempted_at = instante[r]
                 /\ login_attempts' = login_attempts \cup {a}
    BY <1>4 DEF CommitLogin
  <2>2. UNCHANGED <<login_failures, instante>>
    BY <1>4 DEF CommitLogin, sessao
  <2>3. \A b \in login_attempts : b.req # r
    BY <1>4 DEF CommitLogin, RastroInv, Tentou, Acabou
  <2>4. IsFiniteSet(login_attempts')
    BY <2>1, FS_AddElement DEF TentativaInv
  <2>5. QED  BY <2>1, <2>2, <2>3, <2>4 DEF TentativaInv
<1>5. ASSUME NEW r \in Refreshes, LerRefresh(r)  PROVE TentativaInv'
  <2>1. \A q \in Logins : instante'[q] = instante[q]
    BY <1>0, <1>5 DEF LerRefresh
  <2>2. UNCHANGED <<login_attempts, login_failures>>
    BY <1>5 DEF LerRefresh, banco
  <2>3. QED  BY <1>0, <1>a, <1>b, <2>1, <2>2 DEF Tentativa
<1>6. ASSUME NEW r \in Refreshes, CommitRefresh(r)  PROVE TentativaInv'
  BY <1>6, <1>a, <1>b DEF CommitRefresh, sessao
<1>7. ASSUME NEW r \in Logouts, LerLogout(r)  PROVE TentativaInv'
  BY <1>7, <1>a, <1>b DEF LerLogout, banco
<1>8. ASSUME NEW r \in Logouts, CommitLogout(r)  PROVE TentativaInv'
  BY <1>8, <1>a, <1>b DEF CommitLogout, sessao
<1>9. ASSUME NEW r \in Refreshes \cup Logouts, ReceberToken(r)  PROVE TentativaInv'
  BY <1>9, <1>a, <1>b DEF ReceberToken, banco
<1>10. ASSUME NEW r \in Requisicoes, Enviar(r)  PROVE TentativaInv'
  BY <1>10, <1>a, <1>b DEF Enviar, banco, sessao
<1>11. CASE Tick
  BY <1>11, <1>a, <1>b DEF Tick, banco, sessao
<1>12. CASE Reiniciar
  BY <1>12, <1>a, FS_EmptySet DEF Reiniciar, banco, sessao
<1>13. CASE UNCHANGED vars
  BY <1>13, <1>a, <1>b DEF vars, banco, sessao
<1>14. QED
  BY <1>1, <1>2, <1>3, <1>4, <1>5, <1>6, <1>7, <1>8, <1>9, <1>10, <1>11, <1>12, <1>13, PassosDeNext

\* The requests behind a finite set of rows are no more than the rows, and as many when no
\* two rows are of one request.
LEMMA RequisicoesDasLinhas ==
  ASSUME NEW A, IsFiniteSet(A)
  PROVE  LET R == {a.req : a \in A} IN
         /\ IsFiniteSet(R) /\ Cardinality(R) <= Cardinality(A)
         /\ (\A a, b \in A : a.req = b.req => a = b) => Cardinality(R) = Cardinality(A)
<1> DEFINE R == {a.req : a \in A}
           f == [a \in A |-> a.req]
<1>1. f \in Surjection(A, R)
  BY DEF Surjection
<1>2. IsFiniteSet(R) /\ Cardinality(R) <= Cardinality(A)
        /\ (Cardinality(R) = Cardinality(A) <=> f \in Injection(A, R))
  BY <1>1, FS_Surjection
<1>3. (\A a, b \in A : a.req = b.req => a = b) => f \in Injection(A, R)
  BY DEF Injection, IsInjective
<1>4. QED  BY <1>2, <1>3

FalhasEm(e, t) == {a \in Falhas(e) : a.attempted_at \in (t - LOCKOUT_DURATION)..t}

\* Those whose failure is, or may yet be, recorded in the window that ends at t.
Visados(e, t) ==
    {a.req : a \in FalhasEm(e, t)} \cup
    {r \in Logins : /\ pc[r] \in {"verify_password", "commit_login"} /\ pedido[r].email = e
                    /\ pc[r] = "verify_password" => agora <= t
                    /\ pc[r] = "commit_login" => instante[r] \in (t - LOCKOUT_DURATION)..t}

TentativasInv ==
    \A e \in Emails, t \in Nat :
        Cardinality(Visados(e, t)) <= LOCKOUT_MAX_FAILURES - 1 + Threads

LEMMA TentativasInit == Init => TentativasInv
<1> SUFFICES ASSUME Init, NEW e \in Emails, NEW t \in Nat
             PROVE  Cardinality(Visados(e, t)) <= LOCKOUT_MAX_FAILURES - 1 + Threads
  BY DEF TentativasInv
<1>1. Visados(e, t) = {}
  BY DEF Init, Visados, FalhasEm, Falhas, Requisicoes
<1>2. QED  BY <1>1, FS_EmptySet, ThreadsPositivo, TemposNaturais

\* Whoever passes is_locked saw less failures than the limit; whoever else may still add one to
\* the same window holds a thread at that moment.
LEMMA TentativasStep ==
  TipoInv /\ RastroInv /\ UsosInv /\ UsosInv' /\ TentativaInv /\ TentativasInv /\ [Next]_vars => TentativasInv'
<1> SUFFICES ASSUME TipoInv, RastroInv, UsosInv, UsosInv', TentativaInv, TentativasInv, [Next]_vars,
                    NEW e \in Emails, NEW t \in Nat
             PROVE  Cardinality(Visados(e, t)') <= LOCKOUT_MAX_FAILURES - 1 + Threads
  BY DEF TentativasInv
<1>0. /\ pc \in [Requisicoes -> FasesLogin \cup FasesRefresh \cup FasesLogout] /\ agora \in Nat
      /\ instante \in [Jtis -> Nat] /\ login_attempts \subseteq Tentativa
      /\ LOCKOUT_DURATION \in Nat /\ LOCKOUT_MAX_FAILURES \in Nat /\ Threads \in Nat
  BY ThreadsPositivo, TemposNaturais DEF TipoInv, TypeOK, FasesLogin, FasesRefresh, FasesLogout
<1>1. Visados(e, t) \subseteq Requisicoes /\ Cardinality(Visados(e, t)) <= LOCKOUT_MAX_FAILURES - 1 + Threads
  BY <1>0 DEF TentativasInv, Visados, FalhasEm, Falhas, Tentativa, Requisicoes
\* A step that lets nobody further past is_locked.
<1>a. ASSUME Visados(e, t)' \subseteq Visados(e, t)
      PROVE  Cardinality(Visados(e, t)') <= LOCKOUT_MAX_FAILURES - 1 + Threads
  BY <1>0, <1>1, <1>a, ParteMenor
<1>b. ASSUME UNCHANGED login_attempts, agora' >= agora, agora' \in Nat,
             \A r \in Logins : pc'[r] \in {"verify_password", "commit_login"} =>
                pc'[r] = pc[r] /\ pedido'[r] = pedido[r] /\ instante'[r] = instante[r]
      PROVE  Visados(e, t)' \subseteq Visados(e, t)
  BY <1>0, <1>b DEF Visados, FalhasEm, Falhas
<1> USE RequisicoesSeparadas DEF Jtis, Requisicoes
<1>2. ASSUME NEW r \in Logins, ReceberLogin(r)  PROVE Visados(e, t)' \subseteq Visados(e, t)
  BY <1>0, <1>2, <1>b DEF ReceberLogin, Seguir, banco
<1>3. ASSUME NEW r \in Logins, IsLocked(r)
      PROVE  Cardinality(Visados(e, t)') <= LOCKOUT_MAX_FAILURES - 1 + Threads
  <2>0. UNCHANGED <<agora, login_attempts, pedido, instante>> /\ pc[r] = "is_locked"
    BY <1>3 DEF IsLocked, sessao
  <2>1. CASE is_locked(pedido[r].email) \/ pedido[r].email # e \/ t < agora
    <3>1. \A q \in Logins : pc'[q] \in {"verify_password", "commit_login"} =>
             pc'[q] = pc[q] \/ (q = r /\ pc'[r] = "verify_password" /\ (pedido[r].email # e \/ t < agora))
      BY <1>0, <1>3, <2>1 DEF IsLocked, Responder, Seguir
    <3>2. Visados(e, t)' \subseteq Visados(e, t)
      BY <1>0, <2>0, <3>1 DEF Visados, FalhasEm, Falhas
    <3>3. QED  BY <3>2, <1>a
  <2>2. CASE ~ is_locked(pedido[r].email) /\ pedido[r].email = e /\ t >= agora
    <3>1. Cardinality(FalhasRecentes(e)) < LOCKOUT_MAX_FAILURES /\ IsFiniteSet(FalhasRecentes(e))
          /\ Cardinality(FalhasRecentes(e)) \in Nat
      <4>1. IsFiniteSet(FalhasRecentes(e))
        BY FS_Subset DEF TentativaInv, FalhasRecentes, Falhas
      <4>2. Cardinality(FalhasRecentes(e)) \in Nat
        BY <4>1, FS_CardinalityType
      <4>3. QED  BY <1>0, <4>1, <4>2, <2>2 DEF is_locked
    <3>2. FalhasEm(e, t) \subseteq FalhasRecentes(e)
      BY <1>0, <2>2 DEF FalhasEm, FalhasRecentes, Falhas, Tentativa
    <3> DEFINE R == {a.req : a \in FalhasRecentes(e)}
    <3>3. R \subseteq Requisicoes /\ IsFiniteSet(R) /\ Cardinality(R) <= Cardinality(FalhasRecentes(e))
      <4>1. R \subseteq Requisicoes
        BY <1>0 DEF FalhasRecentes, Falhas, Tentativa
      <4>2. QED  BY <3>1, <4>1, RequisicoesDasLinhas
    <3>4. Visados(e, t)' \subseteq R \cup Executando'
      BY <2>0, <3>2 DEF Visados, FalhasEm, Falhas, Executando, EmAndamento
    <3>5. Executando' \subseteq Requisicoes /\ Cardinality(Executando') <= Threads
      BY DEF Executando, EmAndamento, UsosInv
    <3> HIDE DEF R
    <3>6. IsFiniteSet(Executando') /\ Cardinality(Executando') \in Nat
      BY <3>5, ParteMenor
    <3>7. Cardinality(R \cup Executando') <= Cardinality(R) + Cardinality(Executando')
      <4>1. /\ Cardinality(R \cup Executando') = Cardinality(R) + Cardinality(Executando') - Cardinality(R \cap Executando')
            /\ Cardinality(R \cap Executando') \in Nat
        BY <3>3, <3>6, FS_Union, FS_Intersection, FS_CardinalityType
      <4>2. Cardinality(R) \in Nat
        BY <3>3, FS_CardinalityType
      <4>3. QED  BY <3>6, <4>1, <4>2
    <3>8. /\ Cardinality(Visados(e, t)') <= Cardinality(R \cup Executando') /\ Cardinality(Visados(e, t)') \in Nat
          /\ Cardinality(R \cup Executando') \in Nat /\ Cardinality(R) \in Nat
      BY <3>3, <3>4, <3>5, ParteMenor
    <3>9. QED  BY <1>0, <3>1, <3>3, <3>5, <3>6, <3>7, <3>8
  <2>3. QED  BY <1>0, <2>1, <2>2
<1>4. ASSUME NEW r \in Logins, VerifyPassword(r)  PROVE Visados(e, t)' \subseteq Visados(e, t)
  <2>1. /\ pc[r] = "verify_password" /\ pc' = [pc EXCEPT ![r] = "commit_login"]
        /\ instante' = [instante EXCEPT ![r] = agora]
        /\ UNCHANGED <<agora, login_attempts, pedido>>
    BY <1>4 DEF VerifyPassword, Seguir, banco
  <2>2. QED  BY <1>0, <2>1 DEF Visados, FalhasEm, Falhas
<1>5. ASSUME NEW r \in Logins, CommitLogin(r)  PROVE Visados(e, t)' \subseteq Visados(e, t)
  <2>1. PICK a : /\ a.req = r /\ a.attempted_at = instante[r] /\ a.email = pedido[r].email
                 /\ login_attempts' = login_attempts \cup {a}
    BY <1>5 DEF CommitLogin
  <2>2. /\ pc[r] = "commit_login" /\ pc' = [pc EXCEPT ![r] = "enviar"]
        /\ UNCHANGED <<agora, pedido, instante>>
    BY <1>5 DEF CommitLogin, Responder, sessao
  <2>3. QED  BY <1>0, <2>1, <2>2 DEF Visados, FalhasEm, Falhas
<1>6. ASSUME NEW r \in Refreshes, LerRefresh(r) \/ CommitRefresh(r)  PROVE Visados(e, t)' \subseteq Visados(e, t)
  BY <1>0, <1>6, <1>b DEF LerRefresh, CommitRefresh, Seguir, Responder, banco, sessao
<1>7. ASSUME NEW r \in Logouts, LerLogout(r) \/ CommitLogout(r)  PROVE Visados(e, t)' \subseteq Visados(e, t)
  BY <1>0, <1>7, <1>b DEF LerLogout, CommitLogout, Seguir, Responder, banco, sessao
<1>8. ASSUME NEW r \in Refreshes \cup Logouts, ReceberToken(r)  PROVE Visados(e, t)' \subseteq Visados(e, t)
  BY <1>0, <1>8, <1>b DEF ReceberToken, Seguir, banco
<1>9. ASSUME NEW r \in Requisicoes, Enviar(r)  PROVE Visados(e, t)' \subseteq Visados(e, t)
  BY <1>0, <1>9, <1>b DEF Enviar, Seguir, banco, sessao
<1>10. CASE Tick
  BY <1>0, <1>10, <1>a, <1>b DEF Tick, banco, sessao
<1>11. CASE Reiniciar
  BY <1>0, <1>11, <1>a, <1>b DEF Reiniciar, EmAndamento, banco, sessao
<1>12. CASE UNCHANGED vars
  BY <1>0, <1>12, <1>a, <1>b DEF vars, banco, sessao
<1>13. QED
  BY <1>2, <1>3, <1>4, <1>5, <1>6, <1>7, <1>8, <1>9, <1>10, <1>11, <1>12, <1>a, PassosDeNext

\* The failures of e that reached the counter between t - JANELA and t and found it below the
\* limit: those committed without an alert, and those about to be.
Silenciosas(e, t) ==
    {r \in Logins :
        /\ instante[r] \in (t - JANELA)..t
        /\ \/ pc[r] = "commit_login" /\ pedido[r].email = e /\ ~ pedido[r].senhaCerta /\ ~ achado[r]
           \/ (\E a \in Falhas(e) : a.req = r) /\ ~ Auditado("ALERTA", r)}

\* The failures of e, committed or about to be.
Falharam(e) ==
    {r \in Logins : \/ pc[r] = "commit_login" /\ pedido[r].email = e /\ ~ pedido[r].senhaCerta
                    \/ \E a \in Falhas(e) : a.req = r}

\* As long as the counter was never lost, it holds what the window needs, and no window holds
\* the limit in silence.
AlertaInv ==
    reinicios = 0 =>
        \A e \in Emails :
            /\ \A r \in Falharam(e) : instante[r] >= agora - JANELA =>
                  [req |-> r, email |-> e, em |-> instante[r]] \in login_failures
            /\ \A t \in Nat : Cardinality(Silenciosas(e, t)) < FALHAS_DO_ALERTA

LEMMA AlertaInit == Init => AlertaInv
<1> SUFFICES ASSUME Init, NEW e \in Emails
             PROVE  /\ Falharam(e) = {}
                    /\ \A t \in Nat : Cardinality(Silenciosas(e, t)) < FALHAS_DO_ALERTA
  BY DEF AlertaInv
<1>1. Falharam(e) = {} /\ \A t \in Nat : Silenciosas(e, t) = {}
  BY DEF Init, Falharam, Silenciosas, Falhas, Requisicoes
<1>2. QED  BY <1>1, FS_EmptySet, TemposNaturais

\* A failure that finds the counter below the limit finds in it all the failures of its window;
\* the failures that found it at the limit raise the alert with their own commit.
LEMMA AlertaStep ==
  TipoInv /\ RastroInv /\ TentativaInv /\ TentativaInv' /\ AlertaInv /\ [Next]_vars => AlertaInv'
<1> SUFFICES ASSUME TipoInv, RastroInv, TentativaInv, TentativaInv', AlertaInv, [Next]_vars,
                    reinicios' = 0, NEW e \in Emails
             PROVE  /\ \A r \in Falharam(e)' : instante'[r] >= agora' - JANELA =>
                          [req |-> r, email |-> e, em |-> instante'[r]] \in login_failures'
                    /\ \A t \in Nat : Cardinality(Silenciosas(e, t)') < FALHAS_DO_ALERTA
  BY DEF AlertaInv
<1> DEFINE Meta == /\ \A r \in Falharam(e)' : instante'[r] >= agora' - JANELA =>
                          [req |-> r, email |-> e, em |-> instante'[r]] \in login_failures'
                   /\ \A t \in Nat : Cardinality(Silenciosas(e, t)') < FALHAS_DO_ALERTA
<1>0. /\ pc \in [Requisicoes -> FasesLogin \cup FasesRefresh \cup FasesLogout] /\ agora \in Nat
      /\ instante \in [Jtis -> Nat] /\ login_attempts \subseteq Tentativa /\ reinicios \in Nat
      /\ achado \in [Logins \cup Logouts -> BOOLEAN]
      /\ JANELA \in Nat /\ FALHAS_DO_ALERTA \in Nat
  BY TemposNaturais DEF TipoInv, TypeOK, FasesLogin, FasesRefresh, FasesLogout
<1>1. reinicios = 0 =>
         /\ \A r \in Falharam(e) : instante[r] >= agora - JANELA =>
               [req |-> r, email |-> e, em |-> instante[r]] \in login_failures
         /\ \A t \in Nat : Cardinality(Silenciosas(e, t)) < FALHAS_DO_ALERTA
  BY DEF AlertaInv
<1>b. \A t \in Nat : Silenciosas(e, t) \subseteq Requisicoes
  BY DEF Silenciosas, Requisicoes
\* Windows that hold no more silent failures than before.
<1>c. ASSUME reinicios = 0, NEW t \in Nat, Silenciosas(e, t)' \subseteq Silenciosas(e, t)
      PROVE  Cardinality(Silenciosas(e, t)') < FALHAS_DO_ALERTA
  <2>1. Cardinality(Silenciosas(e, t)) < FALHAS_DO_ALERTA
    BY <1>1, <1>c
  <2>2. /\ Cardinality(Silenciosas(e, t)') \in Nat /\ Cardinality(Silenciosas(e, t)) \in Nat
        /\ Cardinality(Silenciosas(e, t)') <= Cardinality(Silenciosas(e, t))
    BY <1>b, <1>c, ParteMenor
  <2>3. QED  BY <1>0, <2>1, <2>2
\* A step that is not of a login's password or commit.
<1>d. ASSUME UNCHANGED <<login_attempts, login_failures, reinicios>>, agora' >= agora, agora' \in Nat,
             audit_logs \subseteq audit_logs',
             \A r \in Logins : /\ instante'[r] = instante[r]
                               /\ pc'[r] = "commit_login" =>
                                     /\ pc[r] = "commit_login" /\ achado'[r] = achado[r]
                                     /\ pedido'[r] = pedido[r]
      PROVE  Meta
  <2>1. \A r \in Falharam(e)' : r \in Falharam(e) /\ r \in Logins
    BY <1>d DEF Falharam, Falhas
  <2>2. \A r \in Falharam(e)' : instante'[r] >= agora' - JANELA => instante[r] >= agora - JANELA
    BY <1>0, <1>d, <2>1 DEF Jtis
  <2>3. \A r \in Falharam(e)' : instante'[r] >= agora' - JANELA =>
           [req |-> r, email |-> e, em |-> instante'[r]] \in login_failures'
    BY <1>1, <1>d, <2>1, <2>2
  <2>4. \A t \in Nat : Silenciosas(e, t)' \subseteq Silenciosas(e, t)
    BY <1>d DEF Silenciosas, Falhas, Auditado
  <2>5. QED  BY <1>c, <1>d, <2>3, <2>4
<1> USE RequisicoesSeparadas DEF Jtis, Requisicoes
<1>2. ASSUME NEW r \in Logins, ReceberLogin(r)  PROVE Meta
  BY <1>0, <1>2, <1>d DEF ReceberLogin, Seguir, banco
<1>3. ASSUME NEW r \in Logins, IsLocked(r)  PROVE Meta
  BY <1>0, <1>3, <1>d DEF IsLocked, Responder, Seguir, sessao
<1>4. ASSUME NEW r \in Logins, VerifyPassword(r)  PROVE Meta
  <2>0. /\ pc[r] = "verify_password" /\ pc' = [pc EXCEPT ![r] = "commit_login"]
        /\ instante' = [instante EXCEPT ![r] = agora] /\ reinicios = 0
        /\ UNCHANGED <<agora, login_attempts, audit_logs, pedido, reinicios>>
    BY <1>4 DEF VerifyPassword, Seguir, banco
  <2>1. \A a \in login_attempts : a.req # r
    BY <2>0 DEF RastroInv, Tentou, Acabou
  <2>2. CASE pedido[r].senhaCerta \/ pedido[r].email # e
    <3>1. Falharam(e)' \subseteq Falharam(e) /\ r \notin Falharam(e)'
      BY <1>0, <2>0, <2>1, <2>2 DEF Falharam, Falhas
    <3>2. \A h \in login_failures : h.email = e => h \in login_failures'
      BY <1>4, <2>2 DEF VerifyPassword, hit
    <3>3. \A q \in Falharam(e)' : q \in Logins /\ instante'[q] = instante[q]
      BY <1>0, <2>0, <3>1 DEF Falharam
    <3>4. \A q \in Falharam(e)' : instante'[q] >= agora' - JANELA =>
             [req |-> q, email |-> e, em |-> instante'[q]] \in login_failures'
      BY <1>1, <2>0, <3>1, <3>2, <3>3
    <3>5. \A q \in Logins : q # r => achado'[q] = achado[q]
      BY <1>0, <1>4 DEF VerifyPassword
    <3>6. \A t \in Nat : Silenciosas(e, t)' \subseteq Silenciosas(e, t)
      BY <1>0, <2>0, <2>1, <2>2, <3>5 DEF Silenciosas, Falhas, Auditado
    <3>7. QED  BY <1>c, <2>0, <3>4, <3>6
  <2>3. CASE ~ pedido[r].senhaCerta /\ pedido[r].email = e
    <3> DEFINE meus == {h \in hit(r) : h.email = e}
               cheio == Cardinality(meus) >= FALHAS_DO_ALERTA
    <3>1. login_failures' = hit(r) /\ achado' = [achado EXCEPT ![r] = cheio]
      BY <1>4, <2>3, Zenon DEF VerifyPassword
    <3>2. Falharam(e)' \subseteq Falharam(e) \cup {r}
      BY <1>0, <2>0 DEF Falharam, Falhas
    <3>3. \A q \in Falharam(e)' : q \in Logins
      BY DEF Falharam
    <3>4. \A q \in Falharam(e)' : instante'[q] >= agora - JANELA =>
             [req |-> q, email |-> e, em |-> instante'[q]] \in meus
      <4> SUFFICES ASSUME NEW q \in Falharam(e)', instante'[q] >= agora - JANELA
                   PROVE  [req |-> q, email |-> e, em |-> instante'[q]] \in hit(r)
        BY Zenon
      <4>1. CASE q = r
        BY <1>0, <2>0, <2>3, <4>1 DEF hit
      <4>2. CASE q # r
        <5>1. q \in Falharam(e) /\ instante'[q] = instante[q]
          BY <1>0, <2>0, <3>2, <3>3, <4>2
        <5>2. [req |-> q, email |-> e, em |-> instante[q]] \in login_failures
          BY <1>1, <2>0, <5>1
        <5>3. QED  BY <5>1, <5>2 DEF hit
      <4>3. QED  BY <4>1, <4>2
    <3>5. ASSUME NEW t \in Nat  PROVE Cardinality(Silenciosas(e, t)') < FALHAS_DO_ALERTA
      <4>1. \A q \in Logins : q # r => achado'[q] = achado[q] /\ instante'[q] = instante[q]
        BY <1>0, <2>0, <3>1
      <4>2. CASE cheio \/ agora \notin (t - JANELA)..t
        <5>1. r \notin Silenciosas(e, t)'
          <6>1. \A a \in login_attempts' : a.req # r
            BY <2>0, <2>1
          <6>2. instante'[r] = agora /\ (cheio => achado'[r])
            BY <1>0, <2>0, <3>1
          <6>3. QED  BY <4>2, <6>1, <6>2 DEF Silenciosas, Falhas
        <5>2. Silenciosas(e, t)' \subseteq Silenciosas(e, t)
          BY <1>0, <2>0, <4>1, <5>1 DEF Silenciosas, Falhas, Auditado
        <5>3. QED  BY <1>c, <2>0, <5>2
      <4>3. CASE ~ cheio /\ agora \in (t - JANELA)..t
        <5> DEFINE R == {h.req : h \in meus}
        <5>1. Silenciosas(e, t)' \subseteq Falharam(e)'
          BY DEF Silenciosas, Falharam
        <5>2. \A q \in Silenciosas(e, t)' : instante'[q] >= agora - JANELA
          BY <1>0, <2>0, <4>3 DEF Silenciosas
        <5>3. Silenciosas(e, t)' \subseteq R
          <6> SUFFICES ASSUME NEW q \in Silenciosas(e, t)'  PROVE q \in R
            OBVIOUS
          <6> DEFINE falha == [req |-> q, email |-> e, em |-> instante'[q]]
          <6>1. falha \in meus
            <7> HIDE DEF meus, R
            <7>1. QED  BY <3>4, <5>1, <5>2
          <6>2. falha.req = q
            OBVIOUS
          <6> HIDE DEF meus, falha
          <6>3. QED  BY <6>1, <6>2
        <5>4. IsFiniteSet(meus)
          BY <3>1, FS_Subset DEF TentativaInv
        <5> HIDE DEF meus
        <5>5. IsFiniteSet(R) /\ Cardinality(R) <= Cardinality(meus)
          BY <5>4, RequisicoesDasLinhas
        <5>6. Cardinality(meus) \in Nat /\ Cardinality(R) \in Nat
          BY <5>4, <5>5, FS_CardinalityType
        <5> HIDE DEF R
        <5>7. Cardinality(Silenciosas(e, t)') <= Cardinality(R) /\ Cardinality(Silenciosas(e, t)') \in Nat
          BY <5>3, <5>5, FS_Subset, FS_CardinalityType
        <5>8. QED  BY <1>0, <4>3, <5>5, <5>6, <5>7
      <4>4. QED  BY <4>2, <4>3
    <3>6. QED
      <4>1. login_failures' = hit(r) /\ meus \subseteq hit(r) /\ agora' = agora
        BY <2>0, <3>1
      <4> HIDE DEF meus
      <4>2. QED  BY <3>4, <3>5, <4>1
  <2>4. QED  BY <2>2, <2>3
<1>5. ASSUME NEW r \in Logins, CommitLogin(r)  PROVE Meta
  <2>1. PICK a : /\ a.req = r /\ a.email = pedido[r].email /\ a.success = pedido[r].senhaCerta
                 /\ login_attempts' = login_attempts \cup {a}
    BY <1>5 DEF CommitLogin
  <2>2. /\ pc[r] = "commit_login" /\ pc' = [pc EXCEPT ![r] = "enviar"]
        /\ UNCHANGED <<agora, pedido, instante, achado, login_failures, reinicios>>
    BY <1>5 DEF CommitLogin, Responder, sessao
  <2>3. audit_logs \subseteq audit_logs'
    BY <1>5 DEF CommitLogin
  <2>4. ~ pedido[r].senhaCerta /\ achado[r] => Evento("ALERTA", r) \in audit_logs'
    BY <1>5 DEF CommitLogin
  <2>5. Falharam(e)' \subseteq Falharam(e)
    BY <1>0, <2>1, <2>2 DEF Falharam, Falhas
  <2>6. \A t \in Nat : Silenciosas(e, t)' \subseteq Silenciosas(e, t)
    BY <1>0, <2>1, <2>2, <2>3, <2>4 DEF Silenciosas, Falhas, Auditado
  <2>7. QED  BY <1>1, <1>c, <2>2, <2>5, <2>6
<1>6. ASSUME NEW r \in Refreshes, LerRefresh(r) \/ CommitRefresh(r)  PROVE Meta
  BY <1>0, <1>6, <1>d DEF LerRefresh, CommitRefresh, Seguir, Responder, banco, sessao
<1>7. ASSUME NEW r \in Logouts, LerLogout(r) \/ CommitLogout(r)  PROVE Meta
  BY <1>0, <1>7, <1>d DEF LerLogout, CommitLogout, Seguir, Responder, banco, sessao
<1>8. ASSUME NEW r \in Refreshes \cup Logouts, ReceberToken(r)  PROVE Meta
  BY <1>0, <1>8, <1>d DEF ReceberToken, Seguir, banco
<1>9. ASSUME NEW r \in Requisicoes, Enviar(r)  PROVE Meta
  BY <1>0, <1>9, <1>d DEF Enviar, Seguir, banco, sessao
<1>10. CASE Tick
  BY <1>0, <1>10, <1>d DEF Tick, banco, sessao
<1>11. CASE Reiniciar
  BY <1>0, <1>11 DEF Reiniciar
<1>12. CASE UNCHANGED vars
  BY <1>0, <1>12, <1>d DEF vars, banco, sessao
<1>13. QED
  BY <1>2, <1>3, <1>4, <1>5, <1>6, <1>7, <1>8, <1>9, <1>10, <1>11, <1>12, PassosDeNext

-----------------------------------------------------------------------------
(* The theorems *)

IInv == TipoInv /\ SessaoInv /\ RastroInv /\ SaidaInv /\ UsosInv /\ TentativaInv /\ TentativasInv /\ AlertaInv

LEMMA Indutivo == Spec => []IInv
<1>1. Init => IInv
  BY TipoInit, SessaoInit, RastroInit, SaidaInit, UsosInit, TentativaInit, TentativasInit, AlertaInit DEF IInv
<1>2. IInv /\ [Next]_vars => IInv'
  BY TipoStep, SessaoStep, RastroStep, SaidaStep, UsosStep, TentativaStep, TentativasStep, AlertaStep DEF IInv
<1>3. QED  BY <1>1, <1>2, PTL DEF Spec

\* Tables, counters and requests in flight keep their types.
THEOREM TipoCorreto == Spec => []TypeOK
<1>1. IInv => TypeOK
  BY DEF IInv, TipoInv
<1>2. QED  BY <1>1, Indutivo, PTL

\* AuthService.login: whatever it answers, and also when the answer is lost in a restart,
\* the attempt, the audit event and the refresh token are committed together or not at all.
THEOREM RastroGarantido == Spec => []LoginDeixaRastro
<1>1. IInv => LoginDeixaRastro
  BY DEF IInv, RastroInv, LoginDeixaRastro, Tentou
<1>2. QED  BY <1>1, Indutivo, PTL

\* AuthService.refresh and logout read, then write without asking again, so a token can be
\* spent more than once - but never by more requests, rotations and logouts, than there are
\* threads.
THEOREM UsosLimitados == Spec => []LimiteDeUsos
<1>1. ASSUME IInv, NEW j \in Jtis  PROVE Cardinality(UsosDe(j) \cup EncerradoPor(j)) <= Threads
  <2>1. UsosDe(j) \cup EncerradoPor(j) \subseteq Gasto(j) /\ Gasto(j) \subseteq Requisicoes
    BY DEF Gasto, UsosDe, EncerradoPor, Pendentes, Requisicoes
  <2>2. Cardinality(Gasto(j)) <= Threads
    BY <1>1 DEF IInv, UsosInv
  <2>3. QED  BY <2>1, <2>2, ParteMenor, ThreadsPositivo
<1>2. IInv => LimiteDeUsos
  BY <1>1 DEF LimiteDeUsos
<1>3. QED  BY <1>2, Indutivo, PTL

\* AuthService.refresh: every token of a session leads back, through revoked ones of the same
\* user, to the login that began it.
THEOREM SessaoSegura == Spec => []SessaoEncadeada
<1>1. IInv => SessaoEncadeada
  BY DEF IInv, SessaoInv
<1>2. QED  BY <1>1, Indutivo, PTL

\* RefreshTokenRepository: no rotation, logout or restart revives a revoked token, and none
\* gives a token to another user or a longer life.
THEOREM RevogacaoDefinitiva == Spec => DenyListDefinitiva
<1> DEFINE Permanece ==
       \A j \in Jtis : refresh_tokens[j] # Nulo =>
          /\ refresh_tokens'[j] # Nulo
          /\ refresh_tokens[j].revoked => refresh_tokens'[j].revoked
          /\ refresh_tokens'[j].usuario = refresh_tokens[j].usuario
          /\ refresh_tokens'[j].expires_at = refresh_tokens[j].expires_at
<1>1. IInv /\ Next => Permanece
  BY TokenPermanece DEF IInv, SessaoInv
<1>2. UNCHANGED vars => UNCHANGED refresh_tokens
  BY DEF vars, banco
<1>3. IInv /\ [Next]_vars => [Permanece]_refresh_tokens
  BY <1>1, <1>2
<1> HIDE DEF Permanece
<1>4. Spec => [][Permanece]_refresh_tokens
  BY <1>3, Indutivo, PTL DEF Spec
<1>5. QED  BY <1>4 DEF DenyListDefinitiva, Permanece

\* LockoutService.is_locked: however many requests pass the check together and however often
\* the process restarts, no lockout window holds more failed passwords of an account than the
\* limit and one per further thread.
THEOREM TentativasLimitadas == Spec => []LimiteDeTentativas
<1>1. ASSUME IInv, NEW e \in Emails, NEW t \in 0..MaxTempo
      PROVE  Cardinality({a \in Falhas(e) : a.attempted_at \in (t - LOCKOUT_DURATION)..t})
                <= LOCKOUT_MAX_FAILURES - 1 + Threads
  <2> DEFINE R == {a.req : a \in FalhasEm(e, t)}
  <2>1. IsFiniteSet(FalhasEm(e, t)) /\ \A a, b \in FalhasEm(e, t) : a.req = b.req => a = b
    BY <1>1, FS_Subset DEF IInv, TentativaInv, FalhasEm, Falhas
  <2>2. Cardinality(R) = Cardinality(FalhasEm(e, t))
    BY <2>1, RequisicoesDasLinhas
  <2>3. R \subseteq Visados(e, t)
    BY DEF Visados
  <2>4. Visados(e, t) \subseteq Requisicoes
    BY <1>1 DEF IInv, TipoInv, TypeOK, Visados, FalhasEm, Falhas, Tentativa, Requisicoes
  <2>5. t \in Nat
    OBVIOUS
  <2>6. Cardinality(Visados(e, t)) <= LOCKOUT_MAX_FAILURES - 1 + Threads
    BY <1>1, <2>5 DEF IInv, TentativasInv
  <2> HIDE DEF R
  <2>7. /\ Cardinality(R) <= Cardinality(Visados(e, t))
        /\ Cardinality(R) \in Nat /\ Cardinality(Visados(e, t)) \in Nat
    BY <2>3, <2>4, ParteMenor
  <2>8. Cardinality(FalhasEm(e, t)) <= LOCKOUT_MAX_FAILURES - 1 + Threads
    BY <2>2, <2>6, <2>7, ThreadsPositivo, TemposNaturais
  <2>9. QED  BY <2>8 DEF FalhasEm
<1>2. IInv => LimiteDeTentativas
  BY <1>1 DEF LimiteDeTentativas
<1>3. QED  BY <1>2, Indutivo, PTL

\* alert_service: in whatever order threads reach the counter and commit, a burst that reaches
\* the limit within the window raises the alert with one of its own failures, until a restart
\* empties the counter.
THEOREM AlertaGarantido == Spec => []AlertaDeForcaBruta
<1>1. ASSUME IInv, reinicios = 0, NEW e \in Emails, NEW t \in 0..MaxTempo,
             NEW B, B = {a \in Falhas(e) : a.attempted_at \in (t - JANELA)..t},
             Cardinality(B) >= FALHAS_DO_ALERTA, \A a \in B : ~ Auditado("ALERTA", a.req)
      PROVE  FALSE
  <2> DEFINE R == {a.req : a \in B}
  <2>1. IsFiniteSet(B) /\ \A a, b \in B : a.req = b.req => a = b
    BY <1>1, FS_Subset DEF IInv, TentativaInv, Falhas
  <2>2. Cardinality(R) = Cardinality(B) /\ Cardinality(B) \in Nat
    BY <2>1, RequisicoesDasLinhas, FS_CardinalityType
  <2>3. R \subseteq Silenciosas(e, t)
    BY <1>1 DEF IInv, TipoInv, TypeOK, TentativaInv, Silenciosas, Falhas, Tentativa
  <2>4. Silenciosas(e, t) \subseteq Requisicoes /\ t \in Nat
    BY DEF Silenciosas, Requisicoes
  <2>5. Cardinality(Silenciosas(e, t)) < FALHAS_DO_ALERTA
    BY <1>1, <2>4 DEF IInv, AlertaInv
  <2> HIDE DEF R
  <2>6. /\ Cardinality(R) <= Cardinality(Silenciosas(e, t))
        /\ Cardinality(R) \in Nat /\ Cardinality(Silenciosas(e, t)) \in Nat
    BY <2>3, <2>4, ParteMenor
  <2>7. QED  BY <1>1, <2>2, <2>5, <2>6, TemposNaturais
<1>2. IInv => AlertaDeForcaBruta
  BY <1>1 DEF AlertaDeForcaBruta
<1>3. QED  BY <1>2, Indutivo, PTL
=============================================================================
