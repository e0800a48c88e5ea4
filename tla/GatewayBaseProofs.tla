-------------------------- MODULE GatewayBaseProofs --------------------------
(***************************************************************************)
(* Proofs about what the standalone Gateway stands on: which token opens   *)
(* which door, for every key, secret, lifetime, issuer and audience        *)
(* (core/security.py and the Core's JwtService); what the stub classifier  *)
(* answers, for each of its 65536 digests (ml_service.py); and that the    *)
(* Gateway only serves once its boot is complete, for any demo users,      *)
(* commands, environments and number of deaths.                            *)
(***************************************************************************)
EXTENDS GatewayDominio, SequenceTheorems, TLAPS

-----------------------------------------------------------------------------
(* The tokens *)

\* decode_token accepts an access token exactly as an access token, under its own key, from
\* the moment it is issued until jwt_access_ttl later, that moment excluded.
THEOREM AcessoSoComoAcesso ==
  ASSUME NEW s, NEW p, NEW par, NEW chave, NEW t \in Nat, NEW agora \in Nat, NEW tipo \in TokenType,
         create_access_token(s, p, par, t) # Nulo
  PROVE  decode_token(create_access_token(s, p, par, t), tipo, chave, agora)
            <=> /\ tipo = "access" /\ par = chave
                /\ t <= agora /\ agora < t + jwt_access_ttl
  BY DEF create_access_token, decode_token, EXIGIDAS, TokenType

\* The same for a refresh token: it never stands for an access token, so a stolen one opens
\* no endpoint but /auth/refresh.
THEOREM RefreshSoComoRefresh ==
  ASSUME NEW s, NEW p, NEW par, NEW chave, NEW t \in Nat, NEW agora \in Nat, NEW tipo \in TokenType,
         create_refresh_token(s, p, par, t) # Nulo
  PROVE  decode_token(create_refresh_token(s, p, par, t), tipo, chave, agora)
            <=> /\ tipo = "refresh" /\ par = chave
                /\ t <= agora /\ agora < t + jwt_refresh_ttl
  BY DEF create_refresh_token, create_access_token, decode_token, EXIGIDAS, TokenType

\* One token opens one door, whoever made it and at whatever moments it is tried: what the Gateway takes for an
\* access token it never takes for a refresh token, and neither of them is taken by the Core,
\* nor the Core's token by the Gateway, although all three name the same user and issuer.
THEOREM CadaTokenUmaPorta ==
  ASSUME NEW t, NEW chave, NEW a1, NEW a2
  PROVE  /\ ~ (decode_token(t, "access", chave, a1) /\ decode_token(t, "refresh", chave, a2))
         /\ \A tipo \in TokenType :
               ~ (decode_token(t, tipo, chave, a1) /\ parse(t, JWT_SECRET, a2))
<1>1. ~ (decode_token(t, "access", chave, a1) /\ decode_token(t, "refresh", chave, a2))
  BY DEF decode_token
<1>2. ASSUME NEW tipo \in TokenType
      PROVE  ~ (decode_token(t, tipo, chave, a1) /\ parse(t, JWT_SECRET, a2))
  BY DEF decode_token, parse
<1>3. QED  BY <1>1, <1>2

\* The Core takes an internal token under the shared secret for exactly its short lifetime,
\* the last moment included, and under no other secret.
THEOREM InternoExpira ==
  ASSUME NEW s, NEW p, NEW t \in Nat, NEW agora \in Nat, NEW segredo,
         create_internal_token(s, p, t) # Nulo
  PROVE  parse(create_internal_token(s, p, t), segredo, agora)
            <=> segredo = JWT_SECRET /\ agora <= t + core_internal_token_ttl
  BY DEF create_internal_token, parse

\* require_hmac_signature keeps no nonce, so a signed purchase can be sent again; but never
\* later than two clock skews after it was first taken.
THEOREM JanelaDeRepeticao ==
  ASSUME NEW a, a.timestamp \in Int, NEW t1 \in Nat, NEW t2 \in Nat,
         Assinada(a, t1), Assinada(a, t2)
  PROVE  t2 - t1 \in (-2 * MAX_SKEW) .. (2 * MAX_SKEW)
  BY ValidadesNaturais DEF Assinada

-----------------------------------------------------------------------------
(* The stub classifier *)

Digest == Byte \X Byte

\* The rank of a priority, to compare two of them.
Ordem(prioridade) ==
    CASE prioridade = "BAIXA" -> 0 [] prioridade = "MEDIA"   -> 1
      [] prioridade = "ALTA"  -> 2 [] prioridade = "CRITICA" -> 3

\* Which score each perfil can have: rounding never leaves the band.
LEMMA ScorePorPerfil ==
  ASSUME NEW d \in Byte
  PROVE  /\ score_do_perfil("FIEL", d)      \in 100 .. 300
         /\ score_do_perfil("ECONOMICO", d) \in 300 .. 550
         /\ score_do_perfil("ESQUECIDO", d) \in 550 .. 750
         /\ score_do_perfil("ABANDONO", d)  \in 780 .. 1000
<1>1. Milesimos(100, 200, d) \in 100 .. 300
  BY DEF Milesimos, Byte
<1>2. Milesimos(300, 250, d) \in 300 .. 550
  BY DEF Milesimos, Byte
<1>3. Milesimos(550, 200, d) \in 550 .. 750
  BY DEF Milesimos, Byte
<1>4. Milesimos(780, 220, d) \in 780 .. 1000
  BY DEF Milesimos, Byte
<1>5. QED  BY <1>1, <1>2, <1>3, <1>4 DEF score_do_perfil

\* The four perfis a balde can lead to.
LEMMA PerfilDoBalde ==
  ASSUME NEW balde \in Int
  PROVE  perfil_do_balde(balde) \in Perfis
  BY DEF perfil_do_balde, Perfis

\* Every answer of the stub is one the tables of the Gateway accept, whatever the digest: a
\* perfil of theirs and a score between 0.1 and 1, inside the band of that perfil
\* (ml_service.py; the rounding never leaves the band).
THEOREM ClassificarTipo ==
  ASSUME NEW d \in Digest
  PROVE  LET r == classificar(d) IN
         /\ r \in [perfil : Perfis, score : 100..1000]
         /\ r.perfil = "FIEL"      => r.score \in 100 .. 300
         /\ r.perfil = "ECONOMICO" => r.score \in 300 .. 550
         /\ r.perfil = "ESQUECIDO" => r.score \in 550 .. 750
         /\ r.perfil = "ABANDONO"  => r.score \in 780 .. 1000
<1> DEFINE perfil == perfil_do_balde(d[1] % 100)
           score  == score_do_perfil(perfil, d[2])
<1>1. d[1] \in Byte /\ d[2] \in Byte
  BY DEF Digest
<1>2. perfil \in Perfis
  <2>1. d[1] % 100 \in Int
    BY <1>1 DEF Byte
  <2>2. QED  BY <2>1, PerfilDoBalde
<1>3. classificar(d) = [perfil |-> perfil, score |-> score]
  BY DEF classificar
<1> HIDE DEF perfil
<1>4. /\ perfil = "FIEL"      => score \in 100 .. 300
      /\ perfil = "ECONOMICO" => score \in 300 .. 550
      /\ perfil = "ESQUECIDO" => score \in 550 .. 750
      /\ perfil = "ABANDONO"  => score \in 780 .. 1000
  BY <1>1, <1>2, ScorePorPerfil
<1> HIDE DEF score
<1>5. score \in 100 .. 1000
  BY <1>2, <1>4 DEF Perfis
<1>6. QED  BY <1>2, <1>3, <1>4, <1>5

\* The bands of the scores and the limits of the priorities are written in two functions, and
\* they agree: a lead is never ranked BAIXA, one of ABANDONO always ALTA or CRITICA, and a
\* client that generates no lead would never be ranked above MEDIA.
THEOREM PrioridadeSegueOPerfil ==
  ASSUME NEW d \in Digest
  PROVE  LET r == classificar(d)  p == derivar_prioridade(r.score) IN
         /\ r.perfil \in PERFIS_GERAM_LEAD => p # "BAIXA"
         /\ r.perfil = "ABANDONO" => p \in {"ALTA", "CRITICA"}
         /\ r.perfil \notin PERFIS_GERAM_LEAD => p \in {"BAIXA", "MEDIA"}
  BY ClassificarTipo DEF derivar_prioridade, PERFIS_GERAM_LEAD, Perfis

\* A riskier score is never ranked below a safer one.
THEOREM PrioridadeMonotona ==
  ASSUME NEW s \in Int, NEW t \in Int, s <= t
  PROVE  Ordem(derivar_prioridade(s)) <= Ordem(derivar_prioridade(t))
<1>1. \A x \in Int :
         Ordem(derivar_prioridade(x)) = IF x >= 850 THEN 3 ELSE IF x >= 650 THEN 2
                                        ELSE IF x >= 400 THEN 1 ELSE 0
  BY DEF Ordem, derivar_prioridade
<1>2. QED  BY <1>1

-----------------------------------------------------------------------------
(* The boot *)

\* The private file is written first, and nothing is rewritten but a pair of which a file is
\* missing: two files that are whole and of two generations never meet.
ParInv ==
    /\ priv = Nulo => pub = Nulo
    /\ pub # Nulo => priv = pub \/ TRUNCADO \in {priv, pub}
    /\ boot.fase = "gravar_pub" => priv # Nulo /\ pub = Nulo
    /\ boot.fase \in {"seed", "inserir", "no_ar"} => pub # Nulo
    /\ quedas \in Nat

EstadoInv ==
    /\ boot = [fase |-> boot.fase, ambiente |-> boot.ambiente, feitos |-> boot.feitos,
               avisos |-> boot.avisos]
    /\ boot.feitos = [g \in Grupos |-> boot.feitos[g]]
    /\ usuarios = [e \in Emails |-> usuarios[e]]

\* The users of a group dealt with are in the table, unless the group was given up.
GrupoInv ==
    boot.fase # "desligado" => \A g \in Grupos :
        LET fila == FilaDe(g, boot.ambiente) IN
        /\ boot.feitos[g] \in 0..Len(fila)
        /\ g \notin boot.avisos => \A n \in 1..boot.feitos[g] : usuarios[fila[n].email] # Nulo
        /\ boot.fase = "no_ar" => boot.feitos[g] = Len(fila)

InserirInv == boot.fase = "inserir" => Resta(Vez)

IInvBoot == EstadoInv /\ ParInv /\ GrupoInv /\ InserirInv

-----------------------------------------------------------------------------
(* The users to ensure *)

\* The queue of each group is one of well-formed users, whatever the settings.
LEMMA Filas ==
  ASSUME NEW g \in Grupos, NEW s
  PROVE  /\ FilaDe(g, s) \in Seq([email : Emails, papel : Papeis])
         /\ Len(FilaDe(g, s)) \in Nat /\ DOMAIN FilaDe(g, s) = 1..Len(FilaDe(g, s))
         /\ \A n \in 1..Len(FilaDe(g, s)) : FilaDe(g, s)[n] \in [email : Emails, papel : Papeis]
  <1>1. FilaDe(g, s) \in Seq([email : Emails, papel : Papeis])
    BY Contas DEF FilaDe
  <1>2. QED  BY <1>1, LenProperties, ElementOfSeq

\* So is each user of the two groups.
LEMMA UsuariosDoSeed ==
  ASSUME NEW u \in Demo \cup Primeiro
  PROVE  u \in [email : Emails, papel : Papeis]
  <1>1. /\ AdminInicial \in Seq([email : Emails, papel : Papeis])
        /\ DEFAULT_USERS \in Seq([email : Emails, papel : Papeis])
    BY Contas
  <1>2. CASE u \in Primeiro
    <2>1. PICK n \in 1..Len(AdminInicial) : u = AdminInicial[n]  BY <1>2 DEF Primeiro
    <2>2. QED  BY <1>1, <2>1, ElementOfSeq
  <1>3. CASE u \in Demo
    <2>1. PICK n \in 1..Len(DEFAULT_USERS) : u = DEFAULT_USERS[n]  BY <1>3 DEF Demo
    <2>2. QED  BY <1>1, <2>1, ElementOfSeq
  <1>4. QED  BY <1>2, <1>3

\* A row is never mistaken for its absence.
LEMMA LinhaDeUsuario ==
  ASSUME NEW u \in [email : Emails, papel : Papeis], NEW quem \in Comandos \cup {"boot"}
  PROVE  [papel |-> u.papel, senha_de |-> quem] # Nulo
  BY Contas DEF Usuario

\* Where the seed stands when a user is left.
LEMMA QuemFalta ==
  ASSUME GrupoInv, boot.fase \in {"seed", "inserir"}, Resta(Vez)
  PROVE  /\ Vez \in Grupos /\ boot.feitos[Vez] + 1 \in 1..Len(FilaDe(Vez, boot.ambiente))
         /\ DaVez = FilaDe(Vez, boot.ambiente)[boot.feitos[Vez] + 1]
         /\ DaVez \in [email : Emails, papel : Papeis]
  <1>1. Vez \in Grupos  BY DEF Vez, Grupos
  <1>2. boot.feitos[Vez] \in 0..Len(FilaDe(Vez, boot.ambiente))
    BY <1>1 DEF GrupoInv
  <1>3. boot.feitos[Vez] < Len(FilaDe(Vez, boot.ambiente))
    BY DEF Resta
  <1>4. boot.feitos[Vez] + 1 \in 1..Len(FilaDe(Vez, boot.ambiente))
    BY <1>1, <1>2, <1>3, Filas
  <1>5. QED  BY <1>1, <1>4, Filas DEF DaVez

-----------------------------------------------------------------------------
(* The first state *)

\* Before the first boot nothing is there; a scenario that starts served starts complete.
LEMMA PrimeiroArranque ==
  ASSUME Init PROVE IInvBoot
  <1>1. CASE InitBoot
    <2>1. /\ boot.fase = "desligado" /\ priv = Nulo /\ pub = Nulo /\ quedas = 0
          /\ EstadoInv
      BY <1>1 DEF InitBoot, EstadoInv
    <2>2. QED  BY <2>1 DEF IInvBoot, ParInv, GrupoInv, InserirInv
  <1>2. CASE InitNoAr
    <2> DEFINE s == CHOOSE a \in Ambientes : should_seed_default_users(a)
    <2>1. boot = [fase |-> "no_ar", ambiente |-> s, avisos |-> {},
                  feitos |-> [g \in Grupos |-> Len(FilaDe(g, s))]]
      BY <1>2 DEF InitNoAr
    <2>2. usuarios = [e \in Emails |->
                        IF \E u \in Demo \cup Primeiro : u.email = e
                        THEN [papel |-> (CHOOSE u \in Demo \cup Primeiro : u.email = e).papel,
                              senha_de |-> "boot"]
                        ELSE Nulo]
      BY <1>2 DEF InitNoAr
    <2>3. EstadoInv  BY <2>1, <2>2 DEF EstadoInv
    <2>4. ParInv
      BY <1>2, <2>1, Contas DEF InitNoAr, ParInv
    <2>5. ASSUME NEW g \in Grupos, NEW n \in 1..Len(FilaDe(g, s))
          PROVE  usuarios[FilaDe(g, s)[n].email] # Nulo
      <3> DEFINE v == FilaDe(g, s)[n]
                 u == CHOOSE w \in Demo \cup Primeiro : w.email = v.email
      <3>1. v \in Demo \cup Primeiro
        BY <2>5 DEF FilaDe, Demo, Primeiro
      <3>2. v \in [email : Emails, papel : Papeis]  BY <2>5, Filas
      <3>3. u \in Demo \cup Primeiro  BY <3>1
      <3>4. u \in [email : Emails, papel : Papeis]
        BY <3>3, UsuariosDoSeed
      <3>5. usuarios[v.email] = [papel |-> u.papel, senha_de |-> "boot"]
        BY <2>2, <3>1, <3>2
      <3>6. QED  BY <3>4, <3>5, LinhaDeUsuario
    <2>6. GrupoInv
      BY <2>1, <2>5, Filas DEF GrupoInv
    <2>7. QED  BY <2>1, <2>3, <2>4, <2>6 DEF IInvBoot, InserirInv
  <1>3. QED  BY <1>1, <1>2 DEF Init

-----------------------------------------------------------------------------
(* The steps *)

\* A step that leaves the boot alone and takes no user out of the table.
LEMMA ForaDoBoot ==
  ASSUME IInvBoot, UNCHANGED <<boot, priv, pub, quedas>>,
         usuarios' = [e \in Emails |-> usuarios'[e]],
         \A e \in Emails : usuarios[e] # Nulo => usuarios'[e] # Nulo
  PROVE  IInvBoot'
  <1>1. EstadoInv' /\ ParInv' /\ InserirInv'
    BY DEF IInvBoot, EstadoInv, ParInv, InserirInv, Resta, Vez
  <1>2. ASSUME NEW g \in Grupos, NEW n \in 1..boot.feitos[g], boot.fase # "desligado"
        PROVE  FilaDe(g, boot.ambiente)[n].email \in Emails
    BY <1>2, Filas DEF IInvBoot, GrupoInv
  <1>3. GrupoInv'
    BY <1>2 DEF IInvBoot, GrupoInv
  <1>4. QED  BY <1>1, <1>3 DEF IInvBoot

\* A start forgets what the last one had done.
LEMMA Ligado ==
  ASSUME IInvBoot, Ligar PROVE IInvBoot'
  <1>1. PICK s \in Ambientes :
          boot' = [fase |-> "chaves", ambiente |-> s, feitos |-> [g \in Grupos |-> 0], avisos |-> {}]
    BY DEF Ligar
  <1>2. UNCHANGED <<priv, pub, usuarios, quedas>>  BY DEF Ligar
  <1>3. EstadoInv' /\ ParInv' /\ InserirInv'
    BY <1>1, <1>2 DEF IInvBoot, EstadoInv, ParInv, InserirInv
  <1>4. GrupoInv'  BY <1>1, <1>2, Filas DEF GrupoInv
  <1>5. QED  BY <1>3, <1>4 DEF IInvBoot

\* Only the phase moves, to one where no user is inserted and nothing is served yet.
LEMMA SoAFase ==
  ASSUME IInvBoot, NEW f \in {"gravar_pub", "seed", "desligado"}, Passar(f), UNCHANGED usuarios,
         boot.fase # "desligado"
  PROVE  EstadoInv' /\ GrupoInv' /\ InserirInv' /\ boot'.fase = f
  <1>1. boot' = [boot EXCEPT !.fase = f] /\ UNCHANGED usuarios  BY DEF Passar
  <1>2. /\ boot'.fase = f /\ boot'.ambiente = boot.ambiente /\ boot'.feitos = boot.feitos
        /\ boot'.avisos = boot.avisos /\ EstadoInv'
    BY <1>1 DEF IInvBoot, EstadoInv
  <1>3. GrupoInv'  BY <1>1, <1>2 DEF IInvBoot, GrupoInv
  <1>4. QED  BY <1>2, <1>3 DEF InserirInv

\* A pair is kept whole, or its private half is written anew while there is no public one.
LEMMA ChavesGarantidas ==
  ASSUME IInvBoot, ensure_jwt_keys PROVE IInvBoot'
  <1>1. boot.fase = "chaves" /\ UNCHANGED <<pub, usuarios, quedas>>  BY DEF ensure_jwt_keys
  <1>2. CASE ~FaltaChave /\ Passar("seed") /\ UNCHANGED priv
    <2>1. EstadoInv' /\ GrupoInv' /\ InserirInv' /\ boot'.fase = "seed"  BY <1>1, <1>2, SoAFase
    <2>2. ParInv'  BY <1>1, <1>2, <2>1 DEF IInvBoot, ParInv, FaltaChave
    <2>3. QED  BY <2>1, <2>2 DEF IInvBoot
  <1>3. CASE FaltaChave /\ priv' = quedas + 1 /\ Passar("gravar_pub")
    <2>1. EstadoInv' /\ GrupoInv' /\ InserirInv' /\ boot'.fase = "gravar_pub"
      BY <1>1, <1>3, SoAFase
    <2>2. pub = Nulo  BY <1>3 DEF IInvBoot, ParInv, FaltaChave
    <2>3. priv' # Nulo  BY <1>3, Contas DEF IInvBoot, ParInv
    <2>4. ParInv'  BY <1>1, <2>1, <2>2, <2>3 DEF IInvBoot, ParInv
    <2>5. QED  BY <2>1, <2>4 DEF IInvBoot
  <1>4. CASE FaltaChave /\ Passar("desligado") /\ UNCHANGED priv
    <2>1. EstadoInv' /\ GrupoInv' /\ InserirInv' /\ boot'.fase = "desligado"
      BY <1>1, <1>4, SoAFase
    <2>2. ParInv'  BY <1>1, <1>4, <2>1 DEF IInvBoot, ParInv
    <2>3. QED  BY <2>1, <2>2 DEF IInvBoot
  <1>5. QED  BY <1>2, <1>3, <1>4 DEF ensure_jwt_keys

\* The public half is that of the private one just written.
LEMMA ParGravado ==
  ASSUME IInvBoot, gravar_pub PROVE IInvBoot'
  <1>1. boot.fase = "gravar_pub" /\ pub' = priv /\ Passar("seed") /\ UNCHANGED <<priv, usuarios, quedas>>
    BY DEF gravar_pub
  <1>2. EstadoInv' /\ GrupoInv' /\ InserirInv' /\ boot'.fase = "seed"  BY <1>1, SoAFase
  <1>3. ParInv'  BY <1>1, <1>2 DEF IInvBoot, ParInv
  <1>4. QED  BY <1>2, <1>3 DEF IInvBoot

\* The file the process was writing when it died stays empty.
LEMMA Caido ==
  ASSUME IInvBoot, Cair PROVE IInvBoot'
  <1>1. boot.fase # "desligado" /\ quedas' = quedas + 1 /\ Passar("desligado") /\ UNCHANGED usuarios
    BY DEF Cair
  <1>2. EstadoInv' /\ GrupoInv' /\ InserirInv' /\ boot'.fase = "desligado"  BY <1>1, SoAFase
  <1>3. TRUNCADO # Nulo /\ quedas' \in Nat  BY <1>1, Contas DEF TRUNCADO, IInvBoot, ParInv
  <1>4. CASE FaltaChave /\ priv' = TRUNCADO /\ UNCHANGED pub
    BY <1>2, <1>3, <1>4 DEF IInvBoot, ParInv
  <1>5. CASE boot.fase = "gravar_pub" /\ pub' = TRUNCADO /\ UNCHANGED priv
    BY <1>2, <1>3, <1>5 DEF IInvBoot, ParInv
  <1>6. CASE UNCHANGED <<priv, pub>>
    BY <1>2, <1>3, <1>6 DEF IInvBoot, ParInv
  <1>7. QED  BY <1>4, <1>5, <1>6 DEF Cair

\* The user at hand is in the table when the next one is taken up.
LEMMA Avanca ==
  ASSUME IInvBoot, boot.fase \in {"seed", "inserir"}, Resta(Vez), Avancar,
         UNCHANGED <<priv, pub, quedas>>,
         usuarios' = [e \in Emails |-> usuarios'[e]],
         \A e \in Emails : usuarios[e] # Nulo => usuarios'[e] # Nulo,
         usuarios'[DaVez.email] # Nulo
  PROVE  IInvBoot'
  <1> DEFINE fila(g) == FilaDe(g, boot.ambiente)
  <1>1. boot' = [boot EXCEPT !.fase = "seed", !.feitos[Vez] = @ + 1]  BY DEF Avancar
  <1>2. /\ Vez \in Grupos /\ boot.feitos[Vez] + 1 \in 1..Len(fila(Vez))
        /\ DaVez = fila(Vez)[boot.feitos[Vez] + 1]
    BY QuemFalta DEF IInvBoot
  <1>3. /\ boot'.fase = "seed" /\ boot'.ambiente = boot.ambiente /\ boot'.avisos = boot.avisos
        /\ boot'.feitos = [boot.feitos EXCEPT ![Vez] = @ + 1] /\ EstadoInv'
    BY <1>1, <1>2 DEF IInvBoot, EstadoInv
  <1>4. ParInv' /\ InserirInv'  BY <1>3 DEF IInvBoot, ParInv, InserirInv
  <1>5. ASSUME NEW g \in Grupos
        PROVE  /\ boot'.feitos[g] \in 0..Len(fila(g))
               /\ g \notin boot.avisos => \A n \in 1..boot'.feitos[g] : usuarios'[fila(g)[n].email] # Nulo
    <2>1. boot.feitos[g] \in 0..Len(fila(g))  BY DEF IInvBoot, GrupoInv
    <2>2. ASSUME g \notin boot.avisos, NEW n \in 1..boot.feitos[g]
          PROVE  usuarios'[fila(g)[n].email] # Nulo
      <3>1. usuarios[fila(g)[n].email] # Nulo  BY <2>2 DEF IInvBoot, GrupoInv
      <3>2. fila(g)[n].email \in Emails  BY <2>1, Filas
      <3>3. QED  BY <3>1, <3>2
    <2>3. CASE g = Vez
      <3>1. boot'.feitos[g] = boot.feitos[g] + 1  BY <1>2, <1>3, <2>3 DEF IInvBoot, EstadoInv
      <3>2. \A n \in 1..boot'.feitos[g] : n \in 1..boot.feitos[g] \/ n = boot.feitos[g] + 1
        BY <2>1, <3>1
      <3>3. usuarios'[fila(g)[boot.feitos[g] + 1].email] # Nulo  BY <1>2, <2>3
      <3>4. QED  BY <1>2, <2>2, <2>3, <3>1, <3>2, <3>3
    <2>4. CASE g # Vez
      <3>1. boot'.feitos[g] = boot.feitos[g]  BY <1>3, <2>4 DEF IInvBoot, EstadoInv
      <3>2. QED  BY <2>1, <2>2, <3>1
    <2>5. QED  BY <2>3, <2>4
  <1>6. GrupoInv'  BY <1>3, <1>5 DEF GrupoInv
  <1>7. QED  BY <1>3, <1>4, <1>6 DEF IInvBoot

\* A group given up owes its users no more, and is in the log.
LEMMA Abandonado ==
  ASSUME IInvBoot, boot.fase \in {"seed", "inserir"}, Resta(Vez), Abandonar,
         UNCHANGED <<priv, pub, usuarios, quedas>>
  PROVE  IInvBoot'
  <1> DEFINE fila(g) == FilaDe(g, boot.ambiente)
  <1>1. boot' = [boot EXCEPT !.fase = "seed", !.avisos = @ \cup {Vez}, !.feitos[Vez] = Len(fila(Vez))]
    BY DEF Abandonar
  <1>2. Vez \in Grupos  BY DEF Vez, Grupos
  <1>3. /\ boot'.fase = "seed" /\ boot'.ambiente = boot.ambiente /\ boot'.avisos = boot.avisos \cup {Vez}
        /\ boot'.feitos = [boot.feitos EXCEPT ![Vez] = Len(fila(Vez))] /\ EstadoInv'
    BY <1>1, <1>2 DEF IInvBoot, EstadoInv
  <1>4. ParInv' /\ InserirInv'  BY <1>3 DEF IInvBoot, ParInv, InserirInv
  <1>5. ASSUME NEW g \in Grupos
        PROVE  /\ boot'.feitos[g] \in 0..Len(fila(g))
               /\ g \notin boot'.avisos => \A n \in 1..boot'.feitos[g] : usuarios[fila(g)[n].email] # Nulo
    <2>1. CASE g = Vez
      <3>1. boot'.feitos[g] = Len(fila(g)) /\ g \in boot'.avisos
        BY <1>2, <1>3, <2>1 DEF IInvBoot, EstadoInv
      <3>2. QED  BY <3>1, Filas
    <2>2. CASE g # Vez
      <3>1. boot'.feitos[g] = boot.feitos[g]  BY <1>3, <2>2 DEF IInvBoot, EstadoInv
      <3>2. QED  BY <1>3, <3>1 DEF IInvBoot, GrupoInv
    <2>3. QED  BY <2>1, <2>2
  <1>6. GrupoInv'  BY <1>3, <1>5 DEF GrupoInv
  <1>7. QED  BY <1>3, <1>4, <1>6 DEF IInvBoot

\* A user found needs nothing more; one not found is to be inserted.
LEMMA Consultado ==
  ASSUME IInvBoot, SelectUsuario PROVE IInvBoot'
  <1>1. boot.fase = "seed" /\ Resta(Vez) /\ UNCHANGED <<priv, pub, usuarios, quedas>>
    BY DEF SelectUsuario
  <1>2. CASE usuarios[DaVez.email] # Nulo /\ Avancar
    BY <1>1, <1>2, Avanca DEF IInvBoot, EstadoInv
  <1>3. CASE Passar("inserir")
    <2>1. /\ boot'.fase = "inserir" /\ boot'.ambiente = boot.ambiente /\ boot'.feitos = boot.feitos
          /\ boot'.avisos = boot.avisos /\ EstadoInv'
      BY <1>1, <1>3 DEF Passar, IInvBoot, EstadoInv
    <2>2. ParInv'  BY <1>1, <2>1 DEF IInvBoot, ParInv
    <2>3. GrupoInv'  BY <1>1, <2>1 DEF IInvBoot, GrupoInv
    <2>4. InserirInv'  BY <1>1, <2>1 DEF InserirInv, Resta, Vez
    <2>5. QED  BY <2>1, <2>2, <2>3, <2>4 DEF IInvBoot
  <1>4. QED  BY <1>2, <1>3 DEF SelectUsuario

\* The unique email decides: the user is in the table afterwards, or the group is given up.
LEMMA Inserido ==
  ASSUME IInvBoot, InserirUsuario PROVE IInvBoot'
  <1>1. boot.fase = "inserir" /\ Resta(Vez) /\ UNCHANGED <<priv, pub, quedas>>
    BY DEF InserirUsuario, IInvBoot, InserirInv
  <1>2. CASE Abandonar /\ UNCHANGED usuarios
    BY <1>1, <1>2, Abandonado
  <1>3. CASE /\ usuarios' = [usuarios EXCEPT ![DaVez.email] = [papel |-> DaVez.papel, senha_de |-> "boot"]]
             /\ Avancar
    <2>1. DaVez \in [email : Emails, papel : Papeis]  BY <1>1, QuemFalta DEF IInvBoot
    <2>2. [papel |-> DaVez.papel, senha_de |-> "boot"] # Nulo  BY <2>1, LinhaDeUsuario
    <2>3. /\ usuarios' = [e \in Emails |-> usuarios'[e]] /\ usuarios'[DaVez.email] # Nulo
          /\ \A e \in Emails : usuarios[e] # Nulo => usuarios'[e] # Nulo
      BY <1>3, <2>1, <2>2 DEF IInvBoot, EstadoInv
    <2>4. QED  BY <1>1, <1>3, <2>3, Avanca
  <1>4. QED  BY <1>2, <1>3 DEF InserirUsuario

\* Nobody is left to ensure.
LEMMA Subido ==
  ASSUME IInvBoot, Subir PROVE IInvBoot'
  <1>1. /\ boot.fase = "seed" /\ Passar("no_ar") /\ UNCHANGED <<priv, pub, usuarios, quedas>>
        /\ \A g \in Grupos : ~ boot.feitos[g] < Len(FilaDe(g, boot.ambiente))
    BY DEF Subir, Resta
  <1>2. /\ boot'.fase = "no_ar" /\ boot'.ambiente = boot.ambiente /\ boot'.feitos = boot.feitos
        /\ boot'.avisos = boot.avisos /\ EstadoInv'
    BY <1>1 DEF Passar, IInvBoot, EstadoInv
  <1>3. ParInv' /\ InserirInv'  BY <1>1, <1>2 DEF IInvBoot, ParInv, InserirInv
  <1>4. \A g \in Grupos : boot.feitos[g] = Len(FilaDe(g, boot.ambiente))
    BY <1>1, Filas DEF IInvBoot, GrupoInv
  <1>5. GrupoInv'  BY <1>1, <1>2, <1>4 DEF IInvBoot, GrupoInv
  <1>6. QED  BY <1>2, <1>3, <1>5 DEF IInvBoot

\* A command only adds its user.
LEMMA Comandado ==
  ASSUME IInvBoot, NEW c \in Comandos, Comando(c) PROVE IInvBoot'
  <1>1. UNCHANGED <<boot, priv, pub, quedas>>
    BY DEF Comando, ConsultarComando, InserirComando
  <1>2. CASE UNCHANGED usuarios
    BY <1>1, <1>2, ForaDoBoot DEF IInvBoot, EstadoInv
  <1>3. CASE usuarios' = [usuarios EXCEPT ![PedidoDe[c].email] =
                            [papel |-> PedidoDe[c].papel, senha_de |-> c]]
    <2>1. PedidoDe[c] \in [email : Emails, papel : Papeis]  BY Contas
    <2>2. [papel |-> PedidoDe[c].papel, senha_de |-> c] # Nulo  BY <2>1, LinhaDeUsuario
    <2>3. /\ usuarios' = [e \in Emails |-> usuarios'[e]]
          /\ \A e \in Emails : usuarios[e] # Nulo => usuarios'[e] # Nulo
      BY <1>3, <2>1, <2>2 DEF IInvBoot, EstadoInv
    <2>4. QED  BY <1>1, <2>3, ForaDoBoot
  <1>4. QED  BY <1>2, <1>3 DEF Comando, ConsultarComando, InserirComando

\* No handler, job or reader writes to the boot.
LEMMA Atendimento ==
  ASSUME Andar \/ (\E r \in Reqs : Receber(r) \/ Falhar(r)) \/ (\E l \in Leitores : ReceberGet(l) \/ FalharGet(l))
           \/ (\E j \in Jobs : SelectExpired(j) \/ FalharJob(j)) \/ Relogio \/ Encerrado
  PROVE  UNCHANGED varsBoot
  <1>1. ASSUME NEW r \in Reqs, Receber(r) \/ Falhar(r) PROVE UNCHANGED varsBoot
    BY <1>1 DEF Receber, Falhar
  <1>2. ASSUME NEW l \in Leitores, ReceberGet(l) \/ FalharGet(l) PROVE UNCHANGED varsBoot
    BY <1>2 DEF ReceberGet, FalharGet
  <1>3. ASSUME NEW j \in Jobs, SelectExpired(j) \/ FalharJob(j) PROVE UNCHANGED varsBoot
    <2>1. CASE SelectExpired(j)  BY <2>1 DEF SelectExpired
    <2>2. CASE FalharJob(j)  BY <2>2 DEF FalharJob, AbortarJob
    <2>3. QED  BY <1>3, <2>1, <2>2
  <1>4. ASSUME Relogio \/ Encerrado PROVE UNCHANGED varsBoot
    BY <1>4 DEF Relogio, Encerrado, vars
  <1>5. ASSUME NEW c \in Compras, AtenderCompra(c) PROVE UNCHANGED varsBoot
    <2>1. CASE SelectCpf(c)  BY <2>1 DEF SelectCpf, Instrucao
    <2>2. CASE SelectVin(c)  BY <2>2 DEF SelectVin, Instrucao
    <2>3. CASE FlushCliente(c)  BY <2>3 DEF FlushCliente, Instrucao
    <2>4. CASE FlushVeiculo(c)  BY <2>4 DEF FlushVeiculo, Instrucao
    <2>5. CASE CommitCompra(c)  BY <2>5 DEF CommitCompra
    <2>6. CASE Enviar(c)  BY <2>6 DEF Enviar
    <2>7. QED  BY <1>5, <2>1, <2>2, <2>3, <2>4, <2>5, <2>6 DEF AtenderCompra
  <1>6. ASSUME NEW p \in Patches, AtenderPatch(p) PROVE UNCHANGED varsBoot
    BY <1>6 DEF AtenderPatch, Carregar, FlushPatch, CommitPatch, Enviar
  <1>7. ASSUME NEW d \in Detalhes, AtenderDetalhe(d) PROVE UNCHANGED varsBoot
    BY <1>7 DEF AtenderDetalhe, obter, Enviar
  <1>8. ASSUME NEW a \in Auditores, AtenderAuditor(a) PROVE UNCHANGED varsBoot
    BY <1>8 DEF AtenderAuditor, list_audit_log, Enviar
  <1>9. ASSUME NEW l \in Leitores, AtenderGet(l) PROVE UNCHANGED varsBoot
    BY <1>9 DEF AtenderGet, Contar, Listar
  <1>10. ASSUME NEW j \in Jobs, RodarJob(j) PROVE UNCHANGED varsBoot
    <2>1. CASE AnonimizarCliente(j)  BY <2>1 DEF AnonimizarCliente
    <2>2. CASE CommitJob(j)  BY <2>2 DEF CommitJob
    <2>3. CASE DesfazerImpasse(j)  BY <2>3 DEF DesfazerImpasse, AbortarJob
    <2>4. QED  BY <1>10, <2>1, <2>2, <2>3 DEF RodarJob
  <1>11. QED
    BY <1>1, <1>2, <1>3, <1>4, <1>5, <1>6, <1>7, <1>8, <1>9, <1>10 DEF Andar

\* Every step keeps the invariant.
LEMMA PassoDoBoot ==
  ASSUME IInvBoot, [Next]_vars PROVE IInvBoot'
  <1>1. CASE UNCHANGED varsBoot
    BY <1>1, ForaDoBoot DEF varsBoot, IInvBoot, EstadoInv
  <1>2. CASE ArranqueGateway
    BY <1>2, Ligado, ChavesGarantidas, ParGravado, Consultado, Inserido, Abandonado, Subido
    DEF ArranqueGateway, Arranque, FalharSeed
  <1>3. CASE CairGateway
    BY <1>3, Caido DEF CairGateway
  <1>4. ASSUME NEW c \in Comandos, ComandoGateway(c) PROVE IInvBoot'
    BY <1>4, Comandado DEF ComandoGateway
  <1>5. QED  BY <1>1, <1>2, <1>3, <1>4, Atendimento DEF Next, vars

\* When the API answers its key pair is whole and of one generation - unless a death left a
\* file empty - and every user of the seed is in the table or its group was logged as failed
\* (main.lifespan, security.ensure_jwt_keys, db/seed), whatever a command adds meanwhile and
\* however many boots died on the way.
THEOREM BootGarantido == Spec => []BootCompleto
  <1>1. IInvBoot => BootCompleto
    <2> SUFFICES ASSUME IInvBoot, NoAr PROVE BootCompleto
      BY DEF BootCompleto
    <2>1. boot.fase = "no_ar"  BY DEF NoAr
    <2>2. priv = pub \/ TRUNCADO \in {priv, pub}  BY <2>1 DEF IInvBoot, ParInv
    <2>3. Nulo \notin {priv, pub}  BY <2>1 DEF IInvBoot, ParInv
    <2>4. ASSUME NEW g \in Grupos \ boot.avisos, NEW n \in DOMAIN FilaDe(g, boot.ambiente)
          PROVE  usuarios[FilaDe(g, boot.ambiente)[n].email] # Nulo
      BY <2>1, <2>4, Filas DEF IInvBoot, GrupoInv
    <2>5. QED  BY <2>2, <2>3, <2>4 DEF BootCompleto
  <1>2. QED  BY <1>1, PrimeiroArranque, PassoDoBoot, PTL DEF Spec

\* The boot, the key files and the users are what the code may leave: the part of TypeOK about
\* GatewayBoot.
LEMMA TipoDoBootInit == Init => TypeOKBoot
<1> SUFFICES ASSUME Init  PROVE TypeOKBoot
  OBVIOUS
<1>1. CASE "arranque" \in ativos
  <2>1. InitBoot
    BY <1>1 DEF Init
  <2>2. QED  BY <2>1, MaxQuedasNatural DEF InitBoot, TypeOKBoot
<1>2. CASE "arranque" \notin ativos
  <2> DEFINE s == CHOOSE a \in Ambientes : should_seed_default_users(a)
  <2>1. InitNoAr /\ s \in Ambientes
    BY <1>2, AmbienteNoAr DEF Init
  <2>2. boot = [fase |-> "no_ar", ambiente |-> s, avisos |-> {},
                feitos |-> [g \in Grupos |-> Len(FilaDe(g, s))]]
    BY <2>1 DEF InitNoAr
  <2> HIDE DEF s
  <2>3. [g \in Grupos |-> Len(FilaDe(g, s))] \in [Grupos -> Nat]
    BY Filas
  <2>4. ASSUME NEW e \in Emails  PROVE usuarios[e] \in Usuario \cup {Nulo}
    <3> DEFINE u == CHOOSE w \in Demo \cup Primeiro : w.email = e
    <3>1. usuarios[e] = IF \E w \in Demo \cup Primeiro : w.email = e
                        THEN [papel |-> u.papel, senha_de |-> "boot"] ELSE Nulo
      BY <2>1 DEF InitNoAr
    <3>2. CASE \E w \in Demo \cup Primeiro : w.email = e
      <4>1. u \in Demo \cup Primeiro
        BY <3>2
      <4>2. u \in [email : Emails, papel : Papeis]
        BY <4>1, UsuariosDoSeed
      <4> HIDE DEF u
      <4>3. QED  BY <3>1, <3>2, <4>2 DEF Usuario
    <3>3. QED  BY <3>1, <3>2
  <2>5. usuarios \in [Emails -> Usuario \cup {Nulo}]
    <3>1. usuarios = [e \in Emails |-> usuarios[e]]
      BY <2>1 DEF InitNoAr
    <3>2. QED  BY <2>4, <3>1
  <2>6. {priv, pub} \subseteq Nat \cup {Nulo} /\ quedas \in 0..MaxQuedas
        /\ comando \in [Comandos -> {"novo", "inserir", "ja_existia", "criado", "erro"}]
    BY <2>1, MaxQuedasNatural DEF InitNoAr
  <2>7. QED  BY <2>1, <2>2, <2>3, <2>5, <2>6 DEF TypeOKBoot
<1>3. QED  BY <1>1, <1>2

LEMMA TipoDoBootStep ==
  ASSUME IInvBoot, TypeOKBoot, [Next]_vars
  PROVE  TypeOKBoot'
<1> DEFINE FB == {"desligado", "chaves", "gravar_pub", "seed", "inserir", "no_ar"}
           Boots == [fase : FB, ambiente : Ambientes \cup {Nulo}, feitos : [Grupos -> Nat], avisos : SUBSET Grupos]
<1>0. boot \in Boots /\ Vez \in Grupos /\ quedas \in 0..MaxQuedas /\ MaxQuedas \in Nat
  BY MaxQuedasNatural DEF TypeOKBoot, Vez, Grupos
<1>a. \A f \in FB : Passar(f) => boot' \in Boots
  BY <1>0 DEF Passar
<1>b. Avancar => boot' \in Boots
  <2> SUFFICES ASSUME Avancar  PROVE boot' \in Boots
    OBVIOUS
  <2>1. boot' = [boot EXCEPT !.fase = "seed", !.feitos = [boot.feitos EXCEPT ![Vez] = @ + 1]]
    BY <1>0 DEF Avancar
  <2>2. [boot.feitos EXCEPT ![Vez] = @ + 1] \in [Grupos -> Nat]
    BY <1>0
  <2>3. QED  BY <1>0, <2>1, <2>2
<1>c. Abandonar => boot' \in Boots
  <2> SUFFICES ASSUME Abandonar  PROVE boot' \in Boots
    OBVIOUS
  <2> DEFINE n == Len(FilaDe(Vez, boot.ambiente))
  <2>1. n \in Nat
    BY <1>0, Filas
  <2>2. boot' = [boot EXCEPT !.fase = "seed", !.avisos = @ \cup {Vez},
                             !.feitos = [boot.feitos EXCEPT ![Vez] = n]]
    BY <1>0 DEF Abandonar
  <2> HIDE DEF n
  <2>3. [boot.feitos EXCEPT ![Vez] = n] \in [Grupos -> Nat]
    BY <1>0, <2>1
  <2>4. QED  BY <1>0, <2>2, <2>3
<1>u. ASSUME NEW u \in [email : Emails, papel : Papeis], NEW quem \in Comandos \cup {"boot"},
             usuarios' = [usuarios EXCEPT ![u.email] = [papel |-> u.papel, senha_de |-> quem]]
      PROVE  usuarios' \in [Emails -> Usuario \cup {Nulo}]
  BY <1>u DEF TypeOKBoot, Usuario
<1>1. CASE UNCHANGED varsBoot
  BY <1>1 DEF varsBoot, TypeOKBoot
<1>2. CASE Ligar
  <2>1. boot' \in Boots
    BY <1>2 DEF Ligar
  <2>2. QED  BY <1>2, <2>1 DEF Ligar, TypeOKBoot
<1>3. CASE ensure_jwt_keys
  <2>1. boot' \in Boots
    BY <1>3, <1>a DEF ensure_jwt_keys
  <2>2. priv' \in Nat \cup {Nulo}
    BY <1>0, <1>3 DEF ensure_jwt_keys, TypeOKBoot
  <2>3. QED  BY <1>3, <2>1, <2>2 DEF ensure_jwt_keys, TypeOKBoot
<1>4. CASE gravar_pub
  <2>1. boot' \in Boots
    BY <1>4, <1>a DEF gravar_pub
  <2>2. QED  BY <1>4, <2>1 DEF gravar_pub, TypeOKBoot
<1>5. CASE SelectUsuario \/ FalharSeed \/ Subir
  <2>1. boot' \in Boots
    BY <1>5, <1>a, <1>b, <1>c DEF SelectUsuario, FalharSeed, Subir
  <2>2. UNCHANGED <<priv, pub, usuarios, comando, quedas>>
    BY <1>5 DEF SelectUsuario, FalharSeed, Subir
  <2>3. QED  BY <2>1, <2>2 DEF TypeOKBoot
<1>6. CASE InserirUsuario
  <2>1. boot' \in Boots /\ UNCHANGED <<priv, pub, comando, quedas>>
    BY <1>6, <1>b, <1>c DEF InserirUsuario
  <2>2. DaVez \in [email : Emails, papel : Papeis]
    BY <1>6, QuemFalta DEF InserirUsuario, IInvBoot, InserirInv
  <2>3. usuarios' \in [Emails -> Usuario \cup {Nulo}]
    <3>1. CASE UNCHANGED usuarios
      BY <3>1 DEF TypeOKBoot
    <3>2. CASE usuarios' = [usuarios EXCEPT ![DaVez.email] = [papel |-> DaVez.papel, senha_de |-> "boot"]]
      BY <1>u, <2>2, <3>2
    <3>3. QED  BY <1>6, <3>1, <3>2 DEF InserirUsuario
  <2>4. QED  BY <2>1, <2>3 DEF TypeOKBoot
<1>7. CASE Cair
  <2>1. boot' \in Boots
    BY <1>7, <1>a DEF Cair
  <2>2. quedas' \in 0..MaxQuedas
    BY <1>0, <1>7 DEF Cair
  <2>3. {priv', pub'} \subseteq Nat \cup {Nulo} /\ UNCHANGED <<usuarios, comando>>
    BY <1>7 DEF Cair, TRUNCADO, TypeOKBoot
  <2>4. QED  BY <2>1, <2>2, <2>3 DEF TypeOKBoot
<1>8. ASSUME NEW c \in Comandos, Comando(c)  PROVE TypeOKBoot'
  <2>1. PedidoDe[c] \in [email : Emails, papel : Papeis]
    BY Contas
  <2>2. UNCHANGED <<boot, priv, pub, quedas>>
    BY <1>8 DEF Comando, ConsultarComando, InserirComando
  <2>3. comando' \in [Comandos -> {"novo", "inserir", "ja_existia", "criado", "erro"}]
    BY <1>8 DEF Comando, ConsultarComando, InserirComando, TypeOKBoot
  <2>4. usuarios' \in [Emails -> Usuario \cup {Nulo}]
    <3>1. CASE UNCHANGED usuarios
      BY <3>1 DEF TypeOKBoot
    <3>2. CASE usuarios' = [usuarios EXCEPT ![PedidoDe[c].email] =
                               [papel |-> PedidoDe[c].papel, senha_de |-> c]]
      BY <1>u, <2>1, <3>2
    <3>3. QED  BY <1>8, <3>1, <3>2 DEF Comando, ConsultarComando, InserirComando
  <2>5. QED  BY <2>2, <2>3, <2>4 DEF TypeOKBoot
<1>9. QED
  BY <1>1, <1>2, <1>3, <1>4, <1>5, <1>6, <1>7, <1>8, Atendimento
     DEF Next, vars, ArranqueGateway, Arranque, CairGateway, ComandoGateway

LEMMA TipoDoBoot == Spec => []TypeOKBoot
<1>1. QED
  BY PrimeiroArranque, PassoDoBoot, TipoDoBootInit, TipoDoBootStep, PTL DEF Spec
=============================================================================
