---------------------------- MODULE ConsultorMobile ----------------------------
(***************************************************************************)
(* The consultant's app (apps/consultor-mobile): the store of leads with   *)
(* its offline cache and its notifications of critical leads, and the      *)
(* session kept in memory and in SecureStore.  There is one JavaScript     *)
(* thread: what is between two awaits is one step here, and at each await  *)
(* - a read or write of storage, an HTTP call, a notification - any other  *)
(* operation may go on.  The operating system may kill the app at any      *)
(* point; storage survives, memory and pending writes do not.              *)
(*                                                                         *)
(* Of the server only the status of the leads and the validity of the      *)
(* tokens matter.  The app lists with its default filter, status aberto.   *)
(***************************************************************************)
EXTENDS Integers, Sequences

CONSTANTS Leads, Criticos,   \* the leads, those of prioridade critica
          Listagens,         \* runs of fetchLeads and refreshLeads
          Patches,           \* runs of patchStatus, to a status other than aberto
          Logins, Logouts,   \* runs of login and logout; a token is named by its login
          MaxMortes,         \* bound: times the app is killed
          Nulo

Operacoes == Listagens \cup Patches \cup Logins \cup Logouts

ASSUME CriticosSaoLeads == Criticos \subseteq Leads
ASSUME OperacoesSeparadas ==
    /\ Listagens \cap (Patches \cup Logins \cup Logouts) = {}
    /\ Patches \cap (Logins \cup Logouts) = {} /\ Logins \cap Logouts = {}
ASSUME NuloDistinto == Nulo \notin Logins \cup Logouts
ASSUME MaxMortesNatural == MaxMortes \in Nat

VARIABLES
    servidor,          \* the status of each lead at the server
    expirados,         \* tokens the server no longer accepts
    items, knownCriticalIds, loading, refreshing, error,  \* useLeadsStore
    token,             \* useAuthStore, once bootstrapped
    montada,           \* the list screen is mounted
    jwt, role,         \* SecureStore
    cache,             \* AsyncStorage, key leads:items:v1
    gravacoes,         \* Cache.set calls not yet done; AsyncStorage does them in order
    notificacoes,      \* notifications shown, ever: [op, lead]
    pc, local,         \* each operation: its next step, its local variables
    ultima,            \* the last of login and logout to begin
    divergiu,          \* storage failed, or hydrate set a list no longer on disk
    mortes

mundo   == <<servidor, expirados>>
lista   == <<items, knownCriticalIds, loading, refreshing, error>>
sessao  == <<token, montada, jwt, role, ultima>>
disco   == <<cache, gravacoes, divergiu>>
vars    == <<mundo, lista, sessao, disco, notificacoes, pc, local, mortes>>

\* What an operation remembers across its awaits: how a list was asked for or which of its
\* two calls a detail screen makes, the known ids it read, the leads it carries (answered,
\* hydrated or patched), the token it sent.
Vias  == {"montagem", "retry", "refresh", "detalhe", "patch"}
Local == [via : Vias, known : SUBSET Criticos,
          leads : SUBSET Leads, token : Logins \cup {Nulo}]

Vazio == [via |-> "patch", known |-> {}, leads |-> {}, token |-> Nulo]

Paradas == {"nova", "fim"}
EmCurso(o) == pc[o] \notin Paradas

Ir(o, fase) == pc' = [pc EXCEPT ![o] = fase]

\* The function returns or throws, and its local variables are gone.
Terminar(o) ==
    /\ Ir(o, "fim")
    /\ local' = [local EXCEPT ![o] = Vazio]

EhFetch(o) == local[o].via \in {"montagem", "retry"}

-----------------------------------------------------------------------------
(* hydrate, fetchLeads and refreshLeads, up to the answer *)

\* useEffect of the list screen, when it is mounted for a session: hydrate, then fetchLeads.
Montar(o) ==
    /\ pc[o] = "nova" /\ token # Nulo /\ ~ montada
    /\ montada' = TRUE
    /\ local' = [local EXCEPT ![o] = [Vazio EXCEPT !.via = "montagem"]]
    /\ Ir(o, "Cache.get")
    /\ UNCHANGED <<mundo, lista, token, jwt, role, ultima, disco, notificacoes, mortes>>

\* Cache.get, after the writes asked for before it.  An empty or missing cache is not used;
\* a read that fails leaves the effect, and nothing is fetched.
LerCache(o) ==
    /\ pc[o] = "Cache.get"
    /\ gravacoes = <<>>
    /\ \/ local' = [local EXCEPT ![o].leads = cache] /\ Ir(o, "hidratar") /\ UNCHANGED divergiu
       \/ Terminar(o) /\ divergiu' = TRUE
    /\ UNCHANGED <<mundo, lista, sessao, cache, gravacoes, notificacoes, mortes>>

NoDisco == IF gravacoes = <<>> THEN cache ELSE gravacoes[Len(gravacoes)].leads

\* set({ items: cached }) and, right after it, the first step of fetchLeads.
Hidratar(o) ==
    /\ pc[o] = "hidratar"
    /\ items' = IF local[o].leads # {} THEN local[o].leads ELSE items
    /\ divergiu' = (divergiu \/ items' # NoDisco)
    /\ loading' = (items' = {})
    /\ error' = FALSE
    /\ local' = [local EXCEPT ![o].known = knownCriticalIds]
    /\ Ir(o, "getToken")
    /\ UNCHANGED <<mundo, knownCriticalIds, refreshing, sessao, cache, gravacoes, notificacoes, mortes>>

\* "Tentar novamente" is shown on an empty list with an error.
IniciarFetch(o) ==
    /\ pc[o] = "nova" /\ montada
    /\ items = {} /\ error /\ ~ loading
    /\ loading' = TRUE
    /\ error' = FALSE
    /\ local' = [local EXCEPT ![o] = [Vazio EXCEPT !.via = "retry", !.known = knownCriticalIds]]
    /\ Ir(o, "getToken")
    /\ UNCHANGED <<mundo, items, knownCriticalIds, refreshing, sessao, disco, notificacoes, mortes>>

\* The pull on a list that is not refreshing, or "Atualizar" on an empty one.
IniciarRefresh(o) ==
    /\ pc[o] = "nova" /\ montada
    /\ IF items = {} THEN ~ loading /\ ~ error ELSE ~ refreshing
    /\ refreshing' = TRUE
    /\ error' = FALSE
    /\ local' = [local EXCEPT ![o] = [Vazio EXCEPT !.via = "refresh", !.known = knownCriticalIds]]
    /\ Ir(o, "getToken")
    /\ UNCHANGED <<mundo, items, knownCriticalIds, loading, sessao, disco, notificacoes, mortes>>

\* The detail screen of a card of the list, and its GET.
AbrirDetalhe(o) ==
    /\ pc[o] = "nova" /\ montada
    /\ \E l \in items : local' = [local EXCEPT ![o] = [Vazio EXCEPT !.via = "detalhe", !.leads = {l}]]
    /\ Ir(o, "getToken")
    /\ UNCHANGED <<mundo, lista, sessao, disco, notificacoes, mortes>>

\* handleAction, once the consultant confirms.
IniciarPatch(o) ==
    /\ pc[o] = "detalhe" /\ montada
    /\ local' = [local EXCEPT ![o].via = "patch"]
    /\ Ir(o, "getToken")
    /\ UNCHANGED <<mundo, lista, sessao, disco, notificacoes, mortes>>

\* The request interceptor reads the token from storage, never from memory.
Enviar(o) ==
    /\ pc[o] = "getToken"
    /\ local' = [local EXCEPT ![o].token = jwt]
    /\ Ir(o, "enviada")
    /\ UNCHANGED <<mundo, lista, sessao, disco, notificacoes, mortes>>

-----------------------------------------------------------------------------
(* The server, and the others who use it *)

Recusado(o) == local[o].token = Nulo \/ local[o].token \in expirados

AtenderListagem(o) ==
    /\ pc[o] = "enviada" /\ ~ Recusado(o)
    /\ local' = [local EXCEPT ![o].leads = {l \in Leads : servidor[l] = "aberto"}]
    /\ Ir(o, "chegou")
    /\ UNCHANGED <<mundo, lista, sessao, disco, notificacoes, mortes>>

\* The lead is on the screen with its buttons.
AtenderDetalhe(o) ==
    /\ pc[o] = "enviada" /\ ~ Recusado(o)
    /\ local[o].via = "detalhe"
    /\ Ir(o, "detalhe")
    /\ UNCHANGED <<mundo, lista, sessao, disco, notificacoes, local, mortes>>

\* The answer of a patch that was applied may still be lost.
AtenderPatch(o) ==
    /\ pc[o] = "enviada" /\ ~ Recusado(o)
    /\ local[o].via = "patch"
    /\ servidor' = [l \in Leads |-> IF l \in local[o].leads THEN "tratado" ELSE servidor[l]]
    /\ Ir(o, "chegou") \/ Ir(o, "falhou")
    /\ UNCHANGED <<expirados, lista, sessao, disco, notificacoes, local, mortes>>

Recusar(o) ==
    /\ pc[o] = "enviada" /\ Recusado(o)
    /\ Ir(o, "rm_jwt")
    /\ UNCHANGED <<mundo, lista, sessao, disco, notificacoes, local, mortes>>

\* No network, no answer in 15 s, or any status but 2xx and 401.
Perder(o) ==
    /\ pc[o] = "enviada"
    /\ Ir(o, "falhou")
    /\ UNCHANGED <<mundo, lista, sessao, disco, notificacoes, local, mortes>>

Surgir(l) ==
    /\ servidor[l] = "ausente"
    /\ servidor' = [servidor EXCEPT ![l] = "aberto"]
    /\ UNCHANGED <<expirados, lista, sessao, disco, notificacoes, pc, local, mortes>>

\* Another consultant handles it.
TratarFora(l) ==
    /\ servidor[l] = "aberto"
    /\ servidor' = [servidor EXCEPT ![l] = "tratado"]
    /\ UNCHANGED <<expirados, lista, sessao, disco, notificacoes, pc, local, mortes>>

Expirar(t) ==
    /\ t \notin expirados /\ t \in {jwt, token}
    /\ expirados' = expirados \cup {t}
    /\ UNCHANGED <<servidor, lista, sessao, disco, notificacoes, pc, local, mortes>>

-----------------------------------------------------------------------------
(* fetchLeads and refreshLeads, from the answer on *)

ANotificar(o) == (local[o].leads \cap Criticos) \ local[o].known

\* Mutant of Notificar: a failure to notify is swallowed, and the lead counts as known.
Notificar_EngoleErro(o) ==
    /\ o \in Listagens /\ pc[o] = "chegou"
    /\ \E l \in ANotificar(o) :
          /\ local' = [local EXCEPT ![o].known = @ \cup {l}]
          /\ \/ notificacoes' = notificacoes \cup {[op |-> o, lead |-> l]}
             \/ UNCHANGED notificacoes
    /\ UNCHANGED <<mundo, lista, sessao, disco, pc, mortes>>

\* detectAndNotify awaits one notification after the other; one that fails ends in the catch.
Notificar(o) ==
    /\ o \in Listagens /\ pc[o] = "chegou"
    /\ \E l \in ANotificar(o) :
          \/ /\ notificacoes' = notificacoes \cup {[op |-> o, lead |-> l]}
             /\ local' = [local EXCEPT ![o].known = @ \cup {l}]
             /\ UNCHANGED pc
          \/ /\ Ir(o, "falhou")
             /\ UNCHANGED <<notificacoes, local>>
    /\ UNCHANGED <<mundo, lista, sessao, disco, mortes>>

CacheSet(o, leads) == gravacoes' = Append(gravacoes, [op |-> o, leads |-> leads])

\* Mutant of ConcluirListagem: every id of the answer is remembered, whatever its prioridade.
ConcluirListagem_TodosIds(o) ==
    /\ o \in Listagens /\ pc[o] = "chegou"
    /\ ANotificar(o) = {}
    /\ items' = local[o].leads
    /\ knownCriticalIds' = local[o].known \cup local[o].leads
    /\ loading' = (loading /\ ~ EhFetch(o))
    /\ CacheSet(o, local[o].leads)
    /\ Ir(o, "Cache.set")
    /\ UNCHANGED <<mundo, refreshing, error, sessao, cache, divergiu, notificacoes, local, mortes>>

\* The answer replaces the list, and the ids read before the request those known now.
ConcluirListagem(o) ==
    /\ o \in Listagens /\ pc[o] = "chegou"
    /\ ANotificar(o) = {}
    /\ items' = local[o].leads
    /\ knownCriticalIds' = local[o].known \cup (local[o].leads \cap Criticos)
    /\ loading' = (loading /\ ~ EhFetch(o))
    /\ CacheSet(o, local[o].leads)
    /\ Ir(o, "Cache.set")
    /\ UNCHANGED <<mundo, refreshing, error, sessao, cache, divergiu, notificacoes, local, mortes>>

\* Mutant of ConcluirPatch: the list written is the one without what was removed meanwhile.
ConcluirPatch_GravaAntes(o) ==
    /\ o \in Patches /\ pc[o] = "chegou"
    /\ items' = items \ local[o].leads
    /\ CacheSet(o, items)
    /\ Ir(o, "Cache.set")
    /\ UNCHANGED <<mundo, knownCriticalIds, loading, refreshing, error, sessao, cache, divergiu,
                   notificacoes, local, mortes>>

ConcluirPatch(o) ==
    /\ o \in Patches /\ pc[o] = "chegou"
    /\ items' = items \ local[o].leads
    /\ CacheSet(o, items')
    /\ Ir(o, "Cache.set")
    /\ UNCHANGED <<mundo, knownCriticalIds, loading, refreshing, error, sessao, cache, divergiu,
                   notificacoes, local, mortes>>

\* The catch, and the finally of refreshLeads.  A patch leaves its error to the screen.
Capturar(o) ==
    /\ error' = (error \/ o \in Listagens)
    /\ loading' = (loading /\ ~ EhFetch(o))
    /\ refreshing' = (refreshing /\ local[o].via # "refresh")

\* Mutant of Falhar: refreshLeads clears refreshing where fetchLeads clears loading, not in a finally.
Falhar_SemFinally(o) ==
    /\ pc[o] = "falhou"
    /\ error' = (error \/ o \in Listagens)
    /\ loading' = (loading /\ ~ EhFetch(o))
    /\ Terminar(o)
    /\ UNCHANGED <<mundo, items, knownCriticalIds, refreshing, sessao, disco, notificacoes, mortes>>

\* Mutant of Falhar: a failed patch takes its lead off the list all the same.
Falhar_Otimista(o) ==
    /\ pc[o] = "falhou"
    /\ Capturar(o)
    /\ items' = IF o \in Patches THEN items \ local[o].leads ELSE items
    /\ Terminar(o)
    /\ UNCHANGED <<mundo, knownCriticalIds, sessao, disco, notificacoes, mortes>>

Falhar(o) ==
    /\ pc[o] = "falhou"
    /\ Capturar(o)
    /\ Terminar(o)
    /\ UNCHANGED <<mundo, items, knownCriticalIds, sessao, disco, notificacoes, mortes>>

\* AsyncStorage does the oldest write, or fails it: then the catch, with the list already set.
Gravar ==
    LET g == Head(gravacoes) IN
    /\ gravacoes # <<>>
    /\ gravacoes' = Tail(gravacoes)
    /\ \/ /\ cache' = g.leads
          /\ Terminar(g.op)
          /\ refreshing' = (refreshing /\ local[g.op].via # "refresh")
          /\ UNCHANGED <<loading, error, divergiu>>
       \/ /\ divergiu' = TRUE
          /\ Terminar(g.op)
          /\ Capturar(g.op)
          /\ UNCHANGED cache
    /\ UNCHANGED <<mundo, items, knownCriticalIds, sessao, notificacoes, mortes>>

-----------------------------------------------------------------------------
(* The session; SecureStore is taken not to fail. *)

FasesDeSessao == {"postar", "set_jwt", "set_role", "entrar", "rm_jwt", "rm_role", "esquecer"}

\* The button is disabled while a login is under way.
IniciarLogin(o) ==
    /\ pc[o] = "nova" /\ token = Nulo
    /\ \A s \in Logins : ~ EmCurso(s)
    /\ ultima' = o
    /\ Ir(o, "postar")
    /\ UNCHANGED <<mundo, lista, token, montada, jwt, role, disco, notificacoes, local, mortes>>

\* POST /v1/auth/login gives a token, or the screen shows an error.
Postar(o) ==
    /\ pc[o] = "postar"
    /\ Ir(o, "set_jwt") \/ Ir(o, "fim")
    /\ UNCHANGED <<mundo, lista, sessao, disco, notificacoes, local, mortes>>

\* setSession: two writes.
GravarJwt(o) ==
    /\ pc[o] = "set_jwt"
    /\ jwt' = o
    /\ Ir(o, "set_role")
    /\ UNCHANGED <<mundo, lista, token, montada, role, ultima, disco, notificacoes, local, mortes>>

GravarRole(o) ==
    /\ pc[o] = "set_role"
    /\ role' = o
    /\ Ir(o, "entrar")
    /\ UNCHANGED <<mundo, lista, token, montada, jwt, ultima, disco, notificacoes, local, mortes>>

Entrar(o) ==
    /\ pc[o] = "entrar"
    /\ token' = o
    /\ Ir(o, "fim")
    /\ UNCHANGED <<mundo, lista, montada, jwt, role, ultima, disco, notificacoes, local, mortes>>

\* "Sair"; the button stays enabled.
IniciarLogout(o) ==
    /\ pc[o] = "nova" /\ montada
    /\ ultima' = o
    /\ Ir(o, "rm_jwt")
    /\ UNCHANGED <<mundo, lista, token, montada, jwt, role, disco, notificacoes, local, mortes>>

\* clearSession, of a logout or of the interceptor that saw a 401: two removals.
RemoverJwt(o) ==
    /\ pc[o] = "rm_jwt"
    /\ jwt' = Nulo
    /\ Ir(o, "rm_role")
    /\ UNCHANGED <<mundo, lista, token, montada, role, ultima, disco, notificacoes, local, mortes>>

\* Mutant of RemoverRole: only the token is removed, the role stays.
RemoverRole_SoJwt(o) ==
    /\ pc[o] = "rm_role"
    /\ Ir(o, "esquecer")
    /\ UNCHANGED <<mundo, lista, sessao, disco, notificacoes, local, mortes>>

RemoverRole(o) ==
    /\ pc[o] = "rm_role"
    /\ role' = Nulo
    /\ Ir(o, "esquecer")
    /\ UNCHANGED <<mundo, lista, token, montada, jwt, ultima, disco, notificacoes, local, mortes>>

\* logout's set, or AUTH_EXPIRED and its listener; the guard of (app)/_layout leaves for the
\* login screen.  A 401 then goes on to the caller's catch.
Esquecer(o) ==
    /\ pc[o] = "esquecer"
    /\ token' = Nulo
    /\ montada' = FALSE
    /\ Ir(o, IF o \in Logouts THEN "fim" ELSE "falhou")
    /\ UNCHANGED <<mundo, lista, jwt, role, ultima, disco, notificacoes, local, mortes>>

\* The system kills the app; it is opened again and bootstrap reads the session from storage.
Reabrir ==
    /\ mortes < MaxMortes
    /\ mortes' = mortes + 1
    /\ items' = {} /\ knownCriticalIds' = {}
    /\ loading' = FALSE /\ refreshing' = FALSE /\ error' = FALSE
    /\ token' = jwt /\ montada' = FALSE
    /\ ultima' = IF \E o \in Operacoes : pc[o] \in FasesDeSessao THEN Nulo ELSE ultima
    /\ gravacoes' = <<>>
    /\ pc' = [o \in Operacoes |-> IF EmCurso(o) THEN "fim" ELSE pc[o]]
    /\ local' = [o \in Operacoes |-> Vazio]
    /\ UNCHANGED <<mundo, jwt, role, cache, divergiu, notificacoes>>

-----------------------------------------------------------------------------
Init ==
    /\ servidor = [l \in Leads |-> "ausente"]
    /\ expirados = {}
    /\ items = {} /\ knownCriticalIds = {}
    /\ loading = FALSE /\ refreshing = FALSE /\ error = FALSE
    /\ token = Nulo /\ montada = FALSE /\ jwt = Nulo /\ role = Nulo /\ ultima = Nulo
    /\ cache = {} /\ gravacoes = <<>> /\ divergiu = FALSE
    /\ notificacoes = {}
    /\ pc = [o \in Operacoes |-> "nova"]
    /\ local = [o \in Operacoes |-> Vazio]
    /\ mortes = 0

Chamada(o) ==
    Enviar(o) \/ Recusar(o) \/ Perder(o) \/ RemoverJwt(o) \/ RemoverRole(o) \/ Esquecer(o) \/ Falhar(o)

Listagem(o) ==
    \/ Montar(o) \/ LerCache(o) \/ Hidratar(o) \/ IniciarFetch(o) \/ IniciarRefresh(o)
    \/ AtenderListagem(o) \/ Notificar(o) \/ ConcluirListagem(o) \/ Chamada(o)

Patch(o) ==
    \/ AbrirDetalhe(o) \/ AtenderDetalhe(o) \/ IniciarPatch(o) \/ AtenderPatch(o)
    \/ ConcluirPatch(o) \/ Chamada(o)

Login(o) == IniciarLogin(o) \/ Postar(o) \/ GravarJwt(o) \/ GravarRole(o) \/ Entrar(o)

Logout(o) == IniciarLogout(o) \/ RemoverJwt(o) \/ RemoverRole(o) \/ Esquecer(o)

Next ==
    \/ \E o \in Listagens : Listagem(o)
    \/ \E o \in Patches : Patch(o)
    \/ \E o \in Logins : Login(o)
    \/ \E o \in Logouts : Logout(o)
    \/ \E l \in Leads : Surgir(l) \/ TratarFora(l)
    \/ \E t \in Logins : Expirar(t)
    \/ Gravar
    \/ Reabrir

Spec == Init /\ [][Next]_vars

-----------------------------------------------------------------------------
(* Properties *)

Fases == {"nova", "Cache.get", "hidratar", "detalhe", "getToken", "enviada", "chegou", "falhou",
          "Cache.set", "fim"} \cup FasesDeSessao

TypeOK ==
    /\ servidor \in [Leads -> {"ausente", "aberto", "tratado"}]
    /\ expirados \subseteq Logins
    /\ items \subseteq Leads /\ knownCriticalIds \subseteq Criticos
    /\ {loading, refreshing, error, montada, divergiu} \subseteq BOOLEAN
    /\ {token, jwt, role} \subseteq Logins \cup {Nulo}
    /\ ultima \in Logins \cup Logouts \cup {Nulo}
    /\ cache \subseteq Leads
    /\ gravacoes \in Seq([op : Listagens \cup Patches, leads : SUBSET Leads])
    /\ notificacoes \subseteq [op : Listagens, lead : Criticos]
    /\ pc \in [Operacoes -> Fases]
    /\ local \in [Operacoes -> Local]
    /\ mortes \in Nat

\* No critical lead gets on the screen, into the cache or among the known ids before the
\* consultant was notified of it, whichever operations overlap and wherever one of them
\* stops: a notification that fails leaves the lead to be notified by the next.
CriticoNotificado ==
    LET gravando == UNION {gravacoes[i].leads : i \in 1..Len(gravacoes)} IN
    (items \cup cache \cup gravando \cup knownCriticalIds) \cap Criticos
        \subseteq {n.lead : n \in notificacoes}

\* No spinner outlives the operation that started it, whichever of two overlapping
\* operations ends first and however it ends.
IndicadorNaoPreso ==
    /\ loading => \E o \in Listagens : EmCurso(o) /\ EhFetch(o)
    /\ refreshing => \E o \in Listagens : EmCurso(o) /\ local[o].via = "refresh"

\* Once the pending writes are done the offline copy is the list on the screen, although
\* fetches and patches write it at different moments - until storage fails or a hydrate sets
\* what it read before another operation wrote.
EspelhoOffline ==
    montada /\ ~ divergiu /\ (\A o \in Listagens : pc[o] \notin {"Cache.get", "hidratar"})
        => NoDisco = items

\* A lead leaves the list because it was handled, or because an answer without it came:
\* never by a patch the server refused or did not get.
SomeSoTratado ==
    [][\A l \in items \ items' :
          \/ servidor[l] = "tratado"
          \/ mortes' # mortes
          \/ \E o \in Listagens : pc[o] \in {"hidratar", "chegou"} /\ pc'[o] # pc[o]]_vars

\* "Sair" leaves nothing behind: when the logout was the last to begin and nothing is
\* clearing or writing the session any more, neither storage nor memory has one, whatever
\* 401s came in the meantime (an app killed in the middle of it has not logged out).
SaidaCompleta ==
    /\ ultima \in Logouts
    /\ \A o \in Operacoes : pc[o] \notin FasesDeSessao
    => token = Nulo /\ jwt = Nulo /\ role = Nulo

\* apps/consultor-mobile/README.md: a critical lead is notified if it "ainda não estava no
\* cache".  The cache is not asked: the known ids are kept in memory and read before the
\* request, so after a restart, or when two listings overlap, leads of the cache are
\* notified again.
NotificaSoNovo ==
    [][\A n \in notificacoes' \ notificacoes : n.lead \notin cache]_vars
=============================================================================
