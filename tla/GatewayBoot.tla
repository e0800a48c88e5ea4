---------------------------- MODULE GatewayBoot ----------------------------
(***************************************************************************)
(* How a Gateway process comes up (main.lifespan): the RSA pair of the JWT *)
(* (core/security.ensure_jwt_keys), the first administrator and the demo   *)
(* users (db/seed), beside the command line that creates users in the same *)
(* table, and a process that may die at any moment, in the middle of       *)
(* writing a key file included.                                            *)
(***************************************************************************)
EXTENDS GatewayTokens, Sequences, FiniteSets

CONSTANTS
    Ambientes,       \* environments a start may find: each start reads its own Settings
    AdminInicial,    \* bootstrap_admin: <<[email, papel]>>, or <<>> when not configured
    DEFAULT_USERS,   \* the demo users: <<[email, papel], ...>>
    Comandos,        \* runs of python -m app.db.seed
    PedidoDe,        \* the user each of them asks for
    MaxQuedas        \* bound: how many times the process dies

\* The settings that steer the boot: app_env is what strip and lower leave, an optional one
\* that is not given is Nulo, an empty core_api_url is the standalone Gateway.
Settings ==
    [app_env : {"development", "testing", "production", "prod"},
     jwt_auto_generate_keys : BOOLEAN \cup {Nulo}, seed_default_users : BOOLEAN \cup {Nulo},
     core_api_url : {"", "http://core:8080"}]

is_prod(s)            == s.app_env \in {"production", "prod"}
core_proxy_enabled(s) == s.core_api_url # ""

\* Keys are generated and demo users created by default, but never by default in production.
should_seed_default_users(s) ==
    IF s.seed_default_users = Nulo THEN ~is_prod(s) ELSE s.seed_default_users
should_auto_generate_keys(s) ==
    IF s.jwt_auto_generate_keys = Nulo THEN ~is_prod(s) ELSE s.jwt_auto_generate_keys

ASSUME SemCore == Ambientes \subseteq Settings /\ \A s \in Ambientes : ~core_proxy_enabled(s)

ASSUME MaxQuedasNatural == MaxQuedas \in Nat

VARIABLES
    boot,       \* [fase, ambiente, feitos, avisos]: the step, the Settings this start read, how
                \* many users of each group are dealt with, the groups that failed
    priv, pub,  \* the two files of the pair: Nulo, the generation that wrote it, or TRUNCADO
    usuarios,   \* table: usuarios[email] is [papel, senha_de], or Nulo
    comando,    \* the step of each command
    quedas

varsBoot == <<boot, priv, pub, usuarios, comando, quedas>>

TRUNCADO  == 0                              \* a file opened for writing and never filled
Demo      == {DEFAULT_USERS[i] : i \in 1..Len(DEFAULT_USERS)}
Primeiro  == {AdminInicial[i] : i \in 1..Len(AdminInicial)}
Emails    == {u.email : u \in Demo \cup Primeiro \cup {PedidoDe[c] : c \in Comandos}}
Usuario   == [papel : Papeis, senha_de : Comandos \cup {"boot"}]

ASSUME Contas ==
    /\ {AdminInicial, DEFAULT_USERS} \subseteq Seq([email : Emails, papel : Papeis])
    /\ PedidoDe \in [Comandos -> [email : Emails, papel : Papeis]]
    /\ Nulo \notin Usuario /\ Nulo \notin Nat

\* The two try blocks of the lifespan, and the users each of them ensures, in order.
Grupos == {"admin", "demo"}
FilaDe(g, s) ==
    IF g = "admin" THEN AdminInicial
    ELSE IF should_seed_default_users(s) THEN DEFAULT_USERS ELSE <<>>

Resta(g) == boot.feitos[g] < Len(FilaDe(g, boot.ambiente))
Vez      == IF Resta("admin") THEN "admin" ELSE "demo"
DaVez    == FilaDe(Vez, boot.ambiente)[boot.feitos[Vez] + 1]

NoAr       == boot.fase = "no_ar"
\* Mutant of FaltaChave: only the private file is looked at.
FaltaChave_SoPrivada == priv = Nulo

FaltaChave == Nulo \in {priv, pub}
Passar(fase) == boot' = [boot EXCEPT !.fase = fase]

Ligar ==
    /\ boot.fase = "desligado"
    /\ \E s \in Ambientes :
          boot' = [fase |-> "chaves", ambiente |-> s, feitos |-> [g \in Grupos |-> 0],
                   avisos |-> {}]
    /\ UNCHANGED <<priv, pub, usuarios, comando, quedas>>

\* ensure_jwt_keys: keep a pair that is whole, else generate one (generations are counted
\* by the deaths before it), the private file first.  Without permission the boot fails.
ensure_jwt_keys ==
    /\ boot.fase = "chaves"
    /\ \/ ~FaltaChave /\ Passar("seed") /\ UNCHANGED priv
       \/ FaltaChave /\ should_auto_generate_keys(boot.ambiente) /\ priv' = quedas + 1 /\ Passar("gravar_pub")
       \/ FaltaChave /\ ~should_auto_generate_keys(boot.ambiente) /\ Passar("desligado") /\ UNCHANGED priv
    /\ UNCHANGED <<pub, usuarios, comando, quedas>>

gravar_pub ==
    /\ boot.fase = "gravar_pub"
    /\ pub' = priv
    /\ Passar("seed")
    /\ UNCHANGED <<priv, usuarios, comando, quedas>>

\* The user at hand is dealt with.
Avancar == boot' = [boot EXCEPT !.fase = "seed", !.feitos[Vez] = @ + 1]

\* An exception inside bootstrap_admin or seed_default_users is logged and ends that group.
Abandonar ==
    boot' = [boot EXCEPT !.fase = "seed", !.avisos = @ \cup {Vez},
                         !.feitos[Vez] = Len(FilaDe(Vez, boot.ambiente))]

\* ensure_user in two statements: the SELECT by email, then (after bcrypt) the INSERT.
SelectUsuario ==
    /\ boot.fase = "seed" /\ Resta(Vez)
    /\ IF usuarios[DaVez.email] # Nulo THEN Avancar ELSE Passar("inserir")
    /\ UNCHANGED <<priv, pub, usuarios, comando, quedas>>

InserirUsuario ==
    /\ boot.fase = "inserir"
    /\ LET u == DaVez IN
       \/ /\ usuarios[u.email] # Nulo       \* the unique email was taken meanwhile
          /\ Abandonar /\ UNCHANGED usuarios
       \/ /\ usuarios[u.email] = Nulo
          /\ usuarios' = [usuarios EXCEPT ![u.email] = [papel |-> u.papel, senha_de |-> "boot"]]
          /\ Avancar
    /\ UNCHANGED <<priv, pub, comando, quedas>>

\* The database fails during the seed: it does not bring the API down.
FalharSeed ==
    /\ boot.fase \in {"seed", "inserir"} /\ Resta(Vez)
    /\ Abandonar
    /\ UNCHANGED <<priv, pub, usuarios, comando, quedas>>

Subir ==
    /\ boot.fase = "seed" /\ \A g \in Grupos : ~Resta(g)
    /\ Passar("no_ar")
    /\ UNCHANGED <<priv, pub, usuarios, comando, quedas>>

\* The death of the process, maybe between opening a key file and filling it.
Cair ==
    /\ boot.fase # "desligado" /\ quedas < MaxQuedas
    /\ quedas' = quedas + 1
    /\ Passar("desligado")
    /\ \/ /\ boot.fase = "chaves" /\ FaltaChave /\ should_auto_generate_keys(boot.ambiente)
          /\ priv' = TRUNCADO /\ UNCHANGED pub
       \/ boot.fase = "gravar_pub" /\ pub' = TRUNCADO /\ UNCHANGED priv
       \/ UNCHANGED <<priv, pub>>
    /\ UNCHANGED <<usuarios, comando>>

\* The command line, in a process of its own: the same two statements.
ConsultarComando(c) ==
    /\ comando[c] = "novo"
    /\ comando' = [comando EXCEPT
                     ![c] = IF usuarios[PedidoDe[c].email] # Nulo THEN "ja_existia" ELSE "inserir"]
    /\ UNCHANGED <<boot, priv, pub, usuarios, quedas>>

InserirComando(c) ==
    /\ comando[c] = "inserir"
    /\ LET u == PedidoDe[c] IN
       \/ /\ usuarios[u.email] = Nulo
          /\ usuarios' = [usuarios EXCEPT ![u.email] = [papel |-> u.papel, senha_de |-> c]]
          /\ comando' = [comando EXCEPT ![c] = "criado"]
       \/ comando' = [comando EXCEPT ![c] = "erro"] /\ UNCHANGED usuarios
    /\ UNCHANGED <<boot, priv, pub, quedas>>

Comando(c) == ConsultarComando(c) \/ InserirComando(c)

Arranque ==
    \/ Ligar \/ ensure_jwt_keys \/ gravar_pub
    \/ SelectUsuario \/ InserirUsuario \/ FalharSeed \/ Subir

InitBoot ==
    /\ boot = [fase |-> "desligado", ambiente |-> Nulo, feitos |-> [g \in Grupos |-> 0], avisos |-> {}]
    /\ priv = Nulo /\ pub = Nulo
    /\ usuarios = [e \in Emails |-> Nulo]
    /\ comando = [c \in Comandos |-> "novo"]
    /\ quedas = 0

TypeOKBoot ==
    /\ boot \in [fase : {"desligado", "chaves", "gravar_pub", "seed", "inserir", "no_ar"},
                 ambiente : Ambientes \cup {Nulo},
                 feitos : [Grupos -> Nat], avisos : SUBSET Grupos]
    /\ {priv, pub} \subseteq Nat \cup {Nulo}
    /\ usuarios \in [Emails -> Usuario \cup {Nulo}]
    /\ comando \in [Comandos -> {"novo", "inserir", "ja_existia", "criado", "erro"}]
    /\ quedas \in 0..MaxQuedas
=============================================================================
