------------------------ MODULE ConsultorMobileProofs ------------------------
(***************************************************************************)
(* Proofs about ConsultorMobile for any number of leads, of operations     *)
(* under way at once and of kills of the app.                              *)
(***************************************************************************)
EXTENDS ConsultorMobile, SequenceTheorems, TLAPS

Gravacao == [op : Listagens \cup Patches, leads : SUBSET Leads]

TipoInv ==
    /\ servidor \in [Leads -> {"ausente", "aberto", "tratado"}]
    /\ expirados \subseteq Logins
    /\ items \subseteq Leads /\ knownCriticalIds \subseteq Criticos
    /\ loading \in BOOLEAN /\ refreshing \in BOOLEAN /\ error \in BOOLEAN
    /\ montada \in BOOLEAN /\ divergiu \in BOOLEAN
    /\ token \in Logins \cup {Nulo} /\ jwt \in Logins \cup {Nulo} /\ role \in Logins \cup {Nulo}
    /\ ultima \in Logins \cup Logouts \cup {Nulo}
    /\ cache \subseteq Leads
    /\ gravacoes \in Seq(Gravacao)
    /\ notificacoes \subseteq [op : Listagens, lead : Criticos]
    /\ pc \in [Operacoes -> Fases]
    /\ local \in [Operacoes -> Local]
    /\ mortes \in Nat

\* The steps each kind of operation goes through; the screen mounts before a list is hydrated.
FaseInv ==
    /\ \A o \in Listagens : pc[o] \in {"nova", "Cache.get", "hidratar", "getToken", "enviada", "chegou",
                                       "falhou", "rm_jwt", "rm_role", "esquecer", "Cache.set", "fim"}
    /\ \A o \in Patches : pc[o] \in {"nova", "detalhe", "getToken", "enviada", "chegou",
                                     "falhou", "rm_jwt", "rm_role", "esquecer", "Cache.set", "fim"}
    /\ \A o \in Logins : pc[o] \in {"nova", "postar", "set_jwt", "set_role", "entrar", "fim"}
    /\ \A o \in Logouts : pc[o] \in {"nova", "rm_jwt", "rm_role", "esquecer", "fim"}
    /\ \A o \in Listagens : pc[o] \in {"Cache.get", "hidratar"} => local[o].via = "montagem"

\* A pending write is of an operation that waits for it, and no operation has two.
FilaInv ==
    /\ \A i \in 1..Len(gravacoes) : pc[gravacoes[i].op] = "Cache.set"
    /\ \A i, j \in 1..Len(gravacoes) : gravacoes[i].op = gravacoes[j].op => i = j

AppInv == TipoInv /\ FaseInv /\ FilaInv

\* Every step of Next, one disjunct per action.
LEMMA PassosDeNext ==
  ASSUME Next
  PROVE  \/ \E o \in Listagens : \/ Montar(o) \/ LerCache(o) \/ Hidratar(o)
                                 \/ IniciarFetch(o) \/ IniciarRefresh(o)
                                 \/ AtenderListagem(o) \/ Notificar(o) \/ ConcluirListagem(o)
         \/ \E o \in Patches : \/ AbrirDetalhe(o) \/ AtenderDetalhe(o) \/ IniciarPatch(o)
                               \/ AtenderPatch(o) \/ ConcluirPatch(o)
         \/ \E o \in Listagens \cup Patches : Enviar(o) \/ Recusar(o) \/ Perder(o) \/ Falhar(o)
         \/ \E o \in Listagens \cup Patches \cup Logouts : RemoverJwt(o) \/ RemoverRole(o) \/ Esquecer(o)
         \/ \E o \in Logins : \/ IniciarLogin(o) \/ Postar(o) \/ GravarJwt(o)
                              \/ GravarRole(o) \/ Entrar(o)
         \/ \E o \in Logouts : IniciarLogout(o)
         \/ \E l \in Leads : Surgir(l) \/ TratarFora(l)
         \/ \E t \in Logins : Expirar(t)
         \/ Gravar
         \/ Reabrir
<1> USE DEF Chamada
<1>1. ASSUME NEW o \in Listagens, Listagem(o)
      PROVE  \/ Montar(o) \/ LerCache(o) \/ Hidratar(o) \/ IniciarFetch(o) \/ IniciarRefresh(o)
             \/ AtenderListagem(o) \/ Notificar(o) \/ ConcluirListagem(o)
             \/ Enviar(o) \/ Recusar(o) \/ Perder(o) \/ Falhar(o)
             \/ RemoverJwt(o) \/ RemoverRole(o) \/ Esquecer(o)
  BY <1>1, Zenon DEF Listagem
<1>2. ASSUME NEW o \in Patches, Patch(o)
      PROVE  \/ AbrirDetalhe(o) \/ AtenderDetalhe(o) \/ IniciarPatch(o) \/ AtenderPatch(o) \/ ConcluirPatch(o)
             \/ Enviar(o) \/ Recusar(o) \/ Perder(o) \/ Falhar(o)
             \/ RemoverJwt(o) \/ RemoverRole(o) \/ Esquecer(o)
  BY <1>2, Zenon DEF Patch
<1>3. QED  BY <1>1, <1>2 DEF Next, Login, Logout

-----------------------------------------------------------------------------
(* Types, phases and the queue of writes *)

\* Nothing is under way, stored or shown at the first start.
LEMMA AppInit == Init => AppInv
<1> SUFFICES ASSUME Init  PROVE AppInv
  OBVIOUS
<1> USE OperacoesSeparadas, CriticosSaoLeads, MaxMortesNatural DEF Init, Operacoes
<1>1. Vazio \in Local /\ "nova" \in Fases
  BY DEF Vazio, Local, Vias, Fases
<1>2. TipoInv
  <2>1. gravacoes \in Seq(Gravacao)
    BY EmptySeq
  <2>2. pc \in [Operacoes -> Fases] /\ local \in [Operacoes -> Local]
    BY <1>1
  <2>3. QED  BY <2>1, <2>2 DEF TipoInv
<1>3. FaseInv
  BY DEF FaseInv
<1>4. FilaInv
  BY DEF FilaInv
<1>5. QED  BY <1>2, <1>3, <1>4 DEF AppInv

\* The local variables an action leaves behind are of their type.
LEMMA LocalTipado ==
  ASSUME AppInv, NEW o \in Operacoes
  PROVE  /\ Vazio \in Local
         /\ local[o] \in Local /\ local[o].via \in Vias
         /\ local[o].known \subseteq Criticos /\ local[o].leads \subseteq Leads
         /\ local[o].token \in Logins \cup {Nulo}
  BY DEF AppInv, TipoInv, Local, Vias, Vazio

\* The oldest pending write, and what is left once it is done.
LEMMA PrimeiraGravacao ==
  ASSUME AppInv, gravacoes # <<>>
  PROVE  /\ Head(gravacoes) = gravacoes[1] /\ 1 \in 1..Len(gravacoes)
         /\ Head(gravacoes).op \in Listagens \cup Patches /\ pc[Head(gravacoes).op] = "Cache.set"
         /\ Head(gravacoes).leads \subseteq Leads
         /\ Tail(gravacoes) \in Seq(Gravacao)
         /\ Len(gravacoes) \in Nat /\ Len(Tail(gravacoes)) = Len(gravacoes) - 1
         /\ \A i \in 1..Len(gravacoes) - 1 : Tail(gravacoes)[i] = gravacoes[i + 1]
<1>1. gravacoes \in Seq(Gravacao) /\ Len(gravacoes) \in Nat /\ Len(gravacoes) # 0
  BY LenProperties, EmptySeq DEF AppInv, TipoInv
<1>2. /\ Head(gravacoes) = gravacoes[1] /\ Head(gravacoes) \in Gravacao
      /\ Tail(gravacoes) \in Seq(Gravacao) /\ Len(Tail(gravacoes)) = Len(gravacoes) - 1
      /\ \A i \in 1..Len(Tail(gravacoes)) : Tail(gravacoes)[i] = gravacoes[i + 1]
  BY <1>1, HeadTailProperties
<1>3. pc[gravacoes[1].op] = "Cache.set"
  BY <1>1 DEF AppInv, FilaInv
<1>4. QED  BY <1>1, <1>2, <1>3 DEF Gravacao

\* No step takes a value out of its type.
LEMMA TipoStep == AppInv /\ [Next]_vars => TipoInv'
<1> SUFFICES ASSUME AppInv, [Next]_vars
             PROVE  TipoInv'
  OBVIOUS
<1> USE OperacoesSeparadas, CriticosSaoLeads, MaxMortesNatural
        DEF TipoInv, mundo, lista, sessao, disco, Operacoes, Ir
<1>0. TipoInv /\ FaseInv /\ FilaInv
  BY DEF AppInv
<1>f. {"nova", "Cache.get", "hidratar", "detalhe", "getToken", "enviada", "chegou", "falhou", "Cache.set",
       "fim", "postar", "set_jwt", "set_role", "entrar", "rm_jwt", "rm_role", "esquecer"} = Fases
  BY DEF Fases, FasesDeSessao
<1>v. Vazio \in Local /\ local \in [Operacoes -> Local]
  BY <1>0 DEF Vazio, Local, Vias
<1>t. \A o \in Operacoes : /\ local[o].known \subseteq Criticos /\ local[o].leads \subseteq Leads
                           /\ local[o].via \in Vias
                           /\ local[o].token \in Logins \cup {Nulo}
  BY <1>0 DEF Local
<1>1. ASSUME NEW o \in Listagens, Montar(o)  PROVE TipoInv'
  BY <1>0, <1>f, <1>1 DEF Montar, Vazio, Local, Vias
<1>2. ASSUME NEW o \in Listagens, LerCache(o)  PROVE TipoInv'
  <2>1. local' \in [Operacoes -> Local]
    <3>1. CASE local' = [local EXCEPT ![o].leads = cache]
      BY <3>1, <1>0 DEF Local
    <3>2. CASE local' = [local EXCEPT ![o] = Vazio]
      BY <3>2, <1>0, <1>v
    <3>3. QED  BY <3>1, <3>2, <1>2 DEF LerCache, Terminar
  <2>2. pc' \in [Operacoes -> Fases] /\ divergiu' \in BOOLEAN
    BY <1>0, <1>f, <1>2 DEF LerCache, Terminar
  <2>3. QED  BY <2>1, <2>2, <1>0, <1>2 DEF LerCache
<1>3. ASSUME NEW o \in Listagens, Hidratar(o)  PROVE TipoInv'
  <2>1. local' \in [Operacoes -> Local]
    <3>1. [local[o] EXCEPT !.known = knownCriticalIds] \in Local
      BY <1>0, <1>v DEF Local
    <3>2. QED  BY <1>v, <1>3, <3>1 DEF Hidratar
  <2>2. pc' \in [Operacoes -> Fases] /\ items' \subseteq Leads
    BY <1>0, <1>f, <1>t, <1>3 DEF Hidratar
  <2>3. loading' \in BOOLEAN /\ divergiu' \in BOOLEAN /\ error' \in BOOLEAN
    BY <1>3, Zenon DEF Hidratar
  <2>4. QED  BY <2>1, <2>2, <2>3, <1>0, <1>3 DEF Hidratar
<1>4. ASSUME NEW o \in Listagens, IniciarFetch(o)  PROVE TipoInv'
  BY <1>0, <1>f, <1>4 DEF IniciarFetch, Vazio, Local, Vias
<1>5. ASSUME NEW o \in Listagens, IniciarRefresh(o)  PROVE TipoInv'
  BY <1>0, <1>f, <1>5 DEF IniciarRefresh, Vazio, Local, Vias
<1>6. ASSUME NEW o \in Listagens, AtenderListagem(o)  PROVE TipoInv'
  <2>1. [local[o] EXCEPT !.leads = {l \in Leads : servidor[l] = "aberto"}] \in Local
    BY <1>v DEF Local
  <2>2. local' \in [Operacoes -> Local]
    BY <1>v, <1>6, <2>1 DEF AtenderListagem
  <2>3. QED  BY <1>0, <1>f, <1>6, <2>2 DEF AtenderListagem
<1>7. ASSUME NEW o \in Listagens, Notificar(o)  PROVE TipoInv'
  <2>1. PICK l \in ANotificar(o) :
           \/ /\ notificacoes' = notificacoes \cup {[op |-> o, lead |-> l]}
              /\ local' = [local EXCEPT ![o].known = @ \cup {l}] /\ UNCHANGED pc
           \/ pc' = [pc EXCEPT ![o] = "falhou"] /\ UNCHANGED <<notificacoes, local>>
    BY <1>7 DEF Notificar
  <2>2. l \in Criticos
    BY <1>t DEF ANotificar
  <2>3. [local[o] EXCEPT !.known = @ \cup {l}] \in Local
    BY <1>v, <2>2 DEF Local
  <2>4. local' \in [Operacoes -> Local]
    BY <1>v, <2>1, <2>3
  <2>5. QED  BY <1>0, <1>f, <1>7, <2>1, <2>2, <2>4 DEF Notificar
<1>8. ASSUME NEW o \in Listagens, ConcluirListagem(o)  PROVE TipoInv'
  <2>1. [op |-> o, leads |-> local[o].leads] \in Gravacao
    BY <1>t DEF Gravacao
  <2>2. gravacoes' \in Seq(Gravacao)
    BY <2>1, <1>0, <1>8 DEF ConcluirListagem, CacheSet
  <2>3. QED  BY <2>2, <1>0, <1>f, <1>t, <1>8 DEF ConcluirListagem
<1>9. ASSUME NEW o \in Patches, AbrirDetalhe(o)  PROVE TipoInv'
  <2>1. \A l \in items : [Vazio EXCEPT !.via = "detalhe", !.leads = {l}] \in Local
    BY <1>0 DEF Vazio, Local, Vias
  <2>2. local' \in [Operacoes -> Local]
    BY <1>v, <1>9, <2>1 DEF AbrirDetalhe
  <2>3. QED  BY <1>0, <1>f, <1>9, <2>2 DEF AbrirDetalhe
<1>10. ASSUME NEW o \in Patches, IniciarPatch(o)  PROVE TipoInv'
  BY <1>0, <1>f, <1>10 DEF IniciarPatch, Local, Vias
<1>11. ASSUME NEW o \in Patches, AtenderDetalhe(o) \/ AtenderPatch(o)  PROVE TipoInv'
  BY <1>0, <1>f, <1>11 DEF AtenderDetalhe, AtenderPatch
<1>12. ASSUME NEW o \in Patches, ConcluirPatch(o)  PROVE TipoInv'
  <2>1. [op |-> o, leads |-> items'] \in Gravacao
    BY <1>0, <1>12 DEF Gravacao, ConcluirPatch
  <2>2. gravacoes' \in Seq(Gravacao)
    BY <2>1, <1>0, <1>12 DEF ConcluirPatch, CacheSet
  <2>3. QED  BY <2>2, <1>0, <1>f, <1>12 DEF ConcluirPatch
<1>13. ASSUME NEW o \in Listagens \cup Patches, Enviar(o)  PROVE TipoInv'
  <2>1. local' \in [Operacoes -> Local]
    BY <1>0, <1>13 DEF Enviar, Local
  <2>2. QED  BY <1>0, <1>f, <2>1, <1>13 DEF Enviar
<1>14. ASSUME NEW o \in Listagens \cup Patches, Recusar(o) \/ Perder(o)  PROVE TipoInv'
  BY <1>0, <1>f, <1>14 DEF Recusar, Perder
<1>15. ASSUME NEW o \in Listagens \cup Patches, Falhar(o)  PROVE TipoInv'
  BY <1>0, <1>f, <1>v, <1>15 DEF Falhar, Capturar, Terminar
<1>16. ASSUME NEW o \in Listagens \cup Patches \cup Logouts, RemoverJwt(o) \/ RemoverRole(o) \/ Esquecer(o)
       PROVE TipoInv'
  BY <1>0, <1>f, <1>16 DEF RemoverJwt, RemoverRole, Esquecer
<1>17. ASSUME NEW o \in Logins,
              IniciarLogin(o) \/ Postar(o) \/ GravarJwt(o) \/ GravarRole(o) \/ Entrar(o)  PROVE TipoInv'
  BY <1>0, <1>f, <1>17 DEF IniciarLogin, Postar, GravarJwt, GravarRole, Entrar
<1>18. ASSUME NEW o \in Logouts, IniciarLogout(o)  PROVE TipoInv'
  BY <1>0, <1>f, <1>18 DEF IniciarLogout
<1>19. ASSUME NEW l \in Leads, Surgir(l) \/ TratarFora(l)  PROVE TipoInv'
  BY <1>0, <1>19 DEF Surgir, TratarFora
<1>20. ASSUME NEW t \in Logins, Expirar(t)  PROVE TipoInv'
  BY <1>0, <1>20 DEF Expirar
<1>21. CASE Gravar
  <2>1. /\ Head(gravacoes).op \in Listagens \cup Patches /\ Head(gravacoes).leads \subseteq Leads
        /\ Tail(gravacoes) \in Seq(Gravacao)
    BY <1>21, PrimeiraGravacao DEF Gravar
  <2>3. pc' \in [Operacoes -> Fases] /\ local' \in [Operacoes -> Local]
    <3>1. /\ pc' = [pc EXCEPT ![Head(gravacoes).op] = "fim"]
          /\ local' = [local EXCEPT ![Head(gravacoes).op] = Vazio]
      BY <1>21 DEF Gravar, Terminar
    <3>2. QED  BY <2>1, <3>1, <1>0, <1>f, <1>v
  <2>4. cache' \subseteq Leads
    BY <1>0, <1>21, <2>1 DEF Gravar
  <2>5. loading' \in BOOLEAN /\ refreshing' \in BOOLEAN /\ error' \in BOOLEAN /\ divergiu' \in BOOLEAN
    BY <1>0, <1>21 DEF Gravar, Capturar
  <2>6. gravacoes' \in Seq(Gravacao)
    BY <1>21, <2>1 DEF Gravar
  <2>7. QED  BY <2>3, <2>4, <2>5, <2>6, <1>0, <1>21 DEF Gravar
<1>22. CASE Reabrir
  <2>1. gravacoes' \in Seq(Gravacao)
    BY <1>22, EmptySeq DEF Reabrir
  <2>2. pc' \in [Operacoes -> Fases] /\ local' \in [Operacoes -> Local]
    BY <1>0, <1>f, <1>v, <1>22 DEF Reabrir
  <2>3. ultima' \in Logins \cup Logouts \cup {Nulo} /\ mortes' \in Nat
    BY <1>0, <1>22 DEF Reabrir
  <2>4. QED  BY <2>1, <2>2, <2>3, <1>0, <1>22 DEF Reabrir
<1>23. CASE UNCHANGED vars
  BY <1>0, <1>23 DEF vars
<1>24. QED
  BY <1>1, <1>2, <1>3, <1>4, <1>5, <1>6, <1>7, <1>8, <1>9, <1>10, <1>11, <1>12, <1>13, <1>14, <1>15, <1>16,
     <1>17, <1>18, <1>19, <1>20, <1>21, <1>22, <1>23, PassosDeNext

\* Each kind of operation goes on through its own steps.
LEMMA FaseStep == AppInv /\ [Next]_vars => FaseInv'
<1> SUFFICES ASSUME AppInv, [Next]_vars
             PROVE  FaseInv'
  OBVIOUS
<1> USE OperacoesSeparadas DEF FaseInv, Operacoes, disco, Ir
<1>0. /\ FaseInv /\ pc \in [Operacoes -> Fases] /\ local \in [Operacoes -> Local]
  BY DEF AppInv, TipoInv
<1>1. ASSUME NEW o \in Listagens, \/ Montar(o) \/ LerCache(o) \/ Hidratar(o)
                                  \/ IniciarFetch(o) \/ IniciarRefresh(o)  PROVE FaseInv'
  <2>1. CASE Montar(o)
    BY <1>0, <2>1 DEF Montar, Vazio
  <2>2. CASE LerCache(o)
    BY <1>0, <2>2 DEF LerCache, Terminar, Local
  <2>3. CASE Hidratar(o)
    BY <1>0, <2>3 DEF Hidratar, Local
  <2>4. CASE IniciarFetch(o)
    BY <1>0, <2>4 DEF IniciarFetch
  <2>5. CASE IniciarRefresh(o)
    BY <1>0, <2>5 DEF IniciarRefresh
  <2>6. QED  BY <1>1, <2>1, <2>2, <2>3, <2>4, <2>5
<1>2. ASSUME NEW o \in Listagens, AtenderListagem(o) \/ Notificar(o) \/ ConcluirListagem(o)  PROVE FaseInv'
  BY <1>0, <1>2 DEF AtenderListagem, Notificar, ConcluirListagem
<1>3. ASSUME NEW o \in Patches,
             AbrirDetalhe(o) \/ AtenderDetalhe(o) \/ IniciarPatch(o) \/ AtenderPatch(o) \/ ConcluirPatch(o)
      PROVE  FaseInv'
  BY <1>0, <1>3 DEF AbrirDetalhe, AtenderDetalhe, IniciarPatch, AtenderPatch, ConcluirPatch
<1>4. ASSUME NEW o \in Listagens \cup Patches, Enviar(o) \/ Recusar(o) \/ Perder(o) \/ Falhar(o)
      PROVE FaseInv'
  BY <1>0, <1>4 DEF Enviar, Recusar, Perder, Falhar, Terminar
<1>5. ASSUME NEW o \in Listagens \cup Patches \cup Logouts, RemoverJwt(o) \/ RemoverRole(o) \/ Esquecer(o)
      PROVE FaseInv'
  BY <1>0, <1>5 DEF RemoverJwt, RemoverRole, Esquecer
<1>6. ASSUME NEW o \in Logins,
             IniciarLogin(o) \/ Postar(o) \/ GravarJwt(o) \/ GravarRole(o) \/ Entrar(o)  PROVE FaseInv'
  BY <1>0, <1>6 DEF IniciarLogin, Postar, GravarJwt, GravarRole, Entrar
<1>7. ASSUME NEW o \in Logouts, IniciarLogout(o)  PROVE FaseInv'
  BY <1>0, <1>7 DEF IniciarLogout
<1>8. CASE Gravar
  <2>1. Head(gravacoes).op \in Listagens \cup Patches
    BY <1>8, PrimeiraGravacao DEF Gravar
  <2>2. /\ pc' = [pc EXCEPT ![Head(gravacoes).op] = "fim"]
        /\ local' = [local EXCEPT ![Head(gravacoes).op] = Vazio]
    BY <1>8 DEF Gravar, Terminar
  <2>3. QED  BY <1>0, <2>1, <2>2
<1>9. CASE Reabrir
  BY <1>0, <1>9 DEF Reabrir, EmCurso, Paradas
<1>10. CASE UNCHANGED <<pc, local>>
  BY <1>0, <1>10
<1>11. QED
  BY <1>1, <1>2, <1>3, <1>4, <1>5, <1>6, <1>7, <1>8, <1>9, <1>10, PassosDeNext
     DEF vars, Surgir, TratarFora, Expirar

\* Writes are asked for by an operation that was not waiting for one, and done in order.
LEMMA FilaStep == AppInv /\ [Next]_vars => FilaInv'
<1> SUFFICES ASSUME AppInv, [Next]_vars
             PROVE  FilaInv'
  OBVIOUS
<1> USE DEF FilaInv, Operacoes, disco, Ir
<1>0. /\ FilaInv /\ pc \in [Operacoes -> Fases] /\ gravacoes \in Seq(Gravacao)
      /\ \A i \in 1..Len(gravacoes) : gravacoes[i].op \in Operacoes
  <2>1. /\ FilaInv /\ pc \in [Operacoes -> Fases] /\ gravacoes \in Seq(Gravacao)
    BY DEF AppInv, TipoInv
  <2>2. \A i \in 1..Len(gravacoes) : gravacoes[i] \in Gravacao
    BY <2>1, ElementOfSeq
  <2>3. QED  BY <2>1, <2>2 DEF Gravacao
<1>m. ASSUME NEW o \in Operacoes, pc[o] # "Cache.set", NEW f, pc' = [pc EXCEPT ![o] = f],
             UNCHANGED gravacoes
      PROVE  FilaInv'
  BY <1>0, <1>m
<1>e. ASSUME NEW o \in Operacoes, pc[o] # "Cache.set", pc' = [pc EXCEPT ![o] = "Cache.set"],
             NEW g \in Gravacao, g.op = o, gravacoes' = Append(gravacoes, g)
      PROVE  FilaInv'
  <2>1. /\ Len(gravacoes') = Len(gravacoes) + 1 /\ gravacoes'[Len(gravacoes) + 1] = g
        /\ \A i \in 1..Len(gravacoes) : gravacoes'[i] = gravacoes[i]
    BY <1>0, <1>e, AppendProperties
  <2>2. \A i \in 1..Len(gravacoes) : gravacoes[i].op # o
    BY <1>0, <1>e
  <2>3. Len(gravacoes) \in Nat
    BY <1>0, LenProperties
  <2>4. \A i \in 1..Len(gravacoes') : i \in 1..Len(gravacoes) \/ i = Len(gravacoes) + 1
    BY <2>1, <2>3
  <2>5. QED  BY <1>0, <1>e, <2>1, <2>2, <2>3, <2>4
<1>1. ASSUME NEW o \in Listagens, \/ Montar(o) \/ LerCache(o) \/ Hidratar(o)
                                  \/ IniciarFetch(o) \/ IniciarRefresh(o) \/ AtenderListagem(o)
      PROVE FilaInv'
  <2>1. PICK f : /\ pc[o] # "Cache.set" /\ UNCHANGED gravacoes
                 /\ pc' = [pc EXCEPT ![o] = f]
    BY <1>1 DEF Montar, LerCache, Hidratar, IniciarFetch, IniciarRefresh, AtenderListagem, Terminar
  <2>2. o \in Operacoes
    OBVIOUS
  <2>3. QED  BY <2>1, <2>2, <1>m
<1>2. ASSUME NEW o \in Listagens, Notificar(o)  PROVE FilaInv'
  <2>1. CASE UNCHANGED pc
    BY <1>0, <1>2, <2>1 DEF Notificar
  <2>2. CASE pc' = [pc EXCEPT ![o] = "falhou"]
    BY <1>2, <2>2, <1>m DEF Notificar
  <2>3. QED  BY <1>2, <2>1, <2>2 DEF Notificar
<1>3. ASSUME NEW o \in Listagens, ConcluirListagem(o)  PROVE FilaInv'
  <2>1. [op |-> o, leads |-> local[o].leads] \in Gravacao
    BY LocalTipado DEF Gravacao
  <2>2. QED  BY <1>3, <2>1, <1>e DEF ConcluirListagem, CacheSet
<1>4. ASSUME NEW o \in Patches, ConcluirPatch(o)  PROVE FilaInv'
  <2>1. [op |-> o, leads |-> items'] \in Gravacao
    BY <1>4 DEF Gravacao, ConcluirPatch, AppInv, TipoInv
  <2>2. QED  BY <1>4, <2>1, <1>e DEF ConcluirPatch, CacheSet
<1>5. ASSUME NEW o \in Patches, AbrirDetalhe(o) \/ AtenderDetalhe(o) \/ IniciarPatch(o) \/ AtenderPatch(o)
      PROVE  FilaInv'
  <2>1. PICK f : /\ pc[o] # "Cache.set" /\ UNCHANGED gravacoes
                 /\ pc' = [pc EXCEPT ![o] = f]
    BY <1>5 DEF AbrirDetalhe, AtenderDetalhe, IniciarPatch, AtenderPatch
  <2>2. o \in Operacoes
    OBVIOUS
  <2>3. QED  BY <2>1, <2>2, <1>m
<1>6. ASSUME NEW o \in Operacoes,
             \/ Enviar(o) \/ Recusar(o) \/ Perder(o) \/ Falhar(o)
             \/ RemoverJwt(o) \/ RemoverRole(o) \/ Esquecer(o)
             \/ IniciarLogin(o) \/ Postar(o) \/ GravarJwt(o) \/ GravarRole(o) \/ Entrar(o)
             \/ IniciarLogout(o)
      PROVE FilaInv'
  <2>1. PICK f : /\ pc[o] # "Cache.set" /\ UNCHANGED gravacoes
                 /\ pc' = [pc EXCEPT ![o] = f]
    BY <1>6 DEF Enviar, Recusar, Perder, Falhar, Terminar, RemoverJwt, RemoverRole, Esquecer,
                IniciarLogin, Postar, GravarJwt, GravarRole, Entrar, IniciarLogout
  <2>2. o \in Operacoes
    OBVIOUS
  <2>3. QED  BY <2>1, <2>2, <1>m
<1>7. CASE Gravar
  <2> DEFINE g == Head(gravacoes)
  <2>1. /\ gravacoes' = Tail(gravacoes) /\ gravacoes # <<>>
        /\ pc' = [pc EXCEPT ![g.op] = "fim"]
    BY <1>7 DEF Gravar, Terminar
  <2>2. /\ g = gravacoes[1] /\ Len(gravacoes') = Len(gravacoes) - 1 /\ Len(gravacoes) \in Nat
        /\ 1 \in 1..Len(gravacoes)
        /\ \A i \in 1..Len(gravacoes') : gravacoes'[i] = gravacoes[i + 1]
    BY <2>1, PrimeiraGravacao
  <2>3. \A i \in 1..Len(gravacoes') : i + 1 \in 1..Len(gravacoes) /\ gravacoes'[i].op # g.op
    BY <1>0, <2>2
  <2>4. QED  BY <1>0, <2>1, <2>2, <2>3
<1>8. CASE Reabrir
  BY <1>8 DEF Reabrir
<1>9. CASE UNCHANGED <<pc, gravacoes>>
  BY <1>0, <1>9
<1>10. QED
  BY <1>1, <1>2, <1>3, <1>4, <1>5, <1>6, <1>7, <1>8, <1>9, PassosDeNext
     DEF vars, Surgir, TratarFora, Expirar

\* Values keep their types, operations the steps between their awaits, and the queue of
\* AsyncStorage its order, in every state, however the operations of the two stores overlap.
THEOREM AppInvariante == Spec => []AppInv
<1>1. AppInv /\ [Next]_vars => AppInv'
  BY TipoStep, FaseStep, FilaStep DEF AppInv
<1>2. QED  BY AppInit, <1>1, PTL DEF Spec

\* List, flags, session, copy on disk and local variables keep their types (store/leads.ts,
\* store/auth.ts, lib/auth.ts).
THEOREM TiposDoApp == Spec => []TypeOK
<1>1. AppInv => TypeOK
  <2> SUFFICES ASSUME AppInv  PROVE TypeOK
    OBVIOUS
  <2>1. {loading, refreshing, error, montada, divergiu} \subseteq BOOLEAN
    BY Zenon DEF AppInv, TipoInv
  <2>2. QED  BY <2>1 DEF AppInv, TipoInv, TypeOK, Gravacao
<1>2. QED  BY AppInvariante, <1>1, PTL

-----------------------------------------------------------------------------
(* The spinners *)

\* A fetch from the moment it shows the spinner until its answer is in the list.
Carregando(o) ==
    /\ EhFetch(o)
    /\ pc[o] \in {"getToken", "enviada", "chegou", "falhou", "rm_jwt", "rm_role", "esquecer"}

IndicadorInv ==
    /\ loading => \E o \in Listagens : Carregando(o)
    /\ refreshing => \E o \in Listagens : EmCurso(o) /\ local[o].via = "refresh"

\* Each operation that ends takes down its own spinner and leaves the others' up.
LEMMA IndicadorStep == AppInv /\ IndicadorInv /\ [Next]_vars => IndicadorInv'
<1> SUFFICES ASSUME AppInv, IndicadorInv, [Next]_vars
             PROVE  IndicadorInv'
  OBVIOUS
<1> USE OperacoesSeparadas
        DEF IndicadorInv, Carregando, EhFetch, EmCurso, Paradas, Operacoes, lista, sessao, disco, Ir
<1>0. /\ IndicadorInv /\ FaseInv /\ FilaInv
      /\ pc \in [Operacoes -> Fases] /\ local \in [Operacoes -> Local]
      /\ loading \in BOOLEAN /\ refreshing \in BOOLEAN
  BY DEF AppInv, TipoInv
\* A step that takes an operation to its next phase and touches no spinner.
<1>m. ASSUME NEW o \in Operacoes, NEW f \in Fases, pc' = [pc EXCEPT ![o] = f],
             local'[o].via = local[o].via,
             \A p \in Operacoes \ {o} : local'[p] = local[p],
             o \in Listagens => /\ Carregando(o) => f \in {"getToken", "enviada", "chegou", "falhou",
                                                           "rm_jwt", "rm_role", "esquecer"}
                                /\ EmCurso(o) => f \notin Paradas,
             UNCHANGED <<loading, refreshing>>
      PROVE  IndicadorInv'
  <2>1. \A p \in Listagens : Carregando(p) => Carregando(p)'
    BY <1>0, <1>m
  <2>2. \A p \in Listagens : EmCurso(p) /\ local[p].via = "refresh"
                                => (EmCurso(p) /\ local[p].via = "refresh")'
    BY <1>0, <1>m
  <2>3. QED  BY <1>0, <1>m, <2>1, <2>2, Zenon
<1>1. ASSUME NEW o \in Listagens, Montar(o)  PROVE IndicadorInv'
  BY <1>0, <1>1 DEF Montar, Vazio
<1>2. ASSUME NEW o \in Listagens, LerCache(o)  PROVE IndicadorInv'
  <2>1. local[o].via = "montagem"
    BY <1>0, <1>2 DEF FaseInv, LerCache
  <2>2. \A p \in Listagens \ {o} : pc'[p] = pc[p] /\ local'[p] = local[p]
    BY <1>0, <1>2 DEF LerCache, Terminar
  <2>3. QED  BY <1>0, <1>2, <2>1, <2>2 DEF LerCache
<1>3. ASSUME NEW o \in Listagens, Hidratar(o)  PROVE IndicadorInv'
  <2>1. local[o].via = "montagem" /\ local'[o].via = "montagem" /\ pc'[o] = "getToken"
    BY <1>0, <1>3 DEF FaseInv, Hidratar, Local
  <2>2. \A p \in Listagens \ {o} : pc'[p] = pc[p] /\ local'[p] = local[p]
    BY <1>0, <1>3 DEF Hidratar
  <2>3. Carregando(o)'
    BY <2>1
  <2>4. QED  BY <1>0, <1>3, <2>1, <2>2, <2>3 DEF Hidratar
<1>4. ASSUME NEW o \in Listagens, IniciarFetch(o)  PROVE IndicadorInv'
  <2>1. Carregando(o)'
    BY <1>0, <1>4 DEF IniciarFetch, Vazio
  <2>2. \A p \in Listagens \ {o} : pc'[p] = pc[p] /\ local'[p] = local[p]
    BY <1>0, <1>4 DEF IniciarFetch
  <2>3. QED  BY <1>0, <1>4, <2>1, <2>2 DEF IniciarFetch
<1>5. ASSUME NEW o \in Listagens, IniciarRefresh(o)  PROVE IndicadorInv'
  <2>1. (EmCurso(o) /\ local[o].via = "refresh")'
    BY <1>0, <1>5 DEF IniciarRefresh, Vazio
  <2>2. \A p \in Listagens \ {o} : pc'[p] = pc[p] /\ local'[p] = local[p]
    BY <1>0, <1>5 DEF IniciarRefresh
  <2>3. QED  BY <1>0, <1>5, <2>1, <2>2 DEF IniciarRefresh
<1>6. ASSUME NEW o \in Listagens, AtenderListagem(o)  PROVE IndicadorInv'
  BY <1>0, <1>6, <1>m DEF AtenderListagem, Local, Fases
<1>7. ASSUME NEW o \in Listagens, Notificar(o)  PROVE IndicadorInv'
  <2>1. CASE UNCHANGED pc
    BY <1>0, <1>7, <2>1 DEF Notificar, Local
  <2>2. CASE pc' = [pc EXCEPT ![o] = "falhou"] /\ UNCHANGED local
    BY <1>0, <1>7, <2>2, <1>m DEF Notificar, Fases
  <2>3. QED  BY <1>7, <2>1, <2>2 DEF Notificar
<1>8. ASSUME NEW o \in Listagens, ConcluirListagem(o)  PROVE IndicadorInv'
  <2>1. \A p \in Listagens \ {o} : pc'[p] = pc[p] /\ local'[p] = local[p]
    BY <1>0, <1>8 DEF ConcluirListagem
  <2>2. pc'[o] = "Cache.set" /\ local'[o] = local[o]
    BY <1>0, <1>8 DEF ConcluirListagem
  <2>3. QED  BY <1>0, <1>8, <2>1, <2>2 DEF ConcluirListagem
<1>9. ASSUME NEW o \in Patches,
             AbrirDetalhe(o) \/ AtenderDetalhe(o) \/ IniciarPatch(o) \/ AtenderPatch(o) \/ ConcluirPatch(o)
      PROVE  IndicadorInv'
  <2>1. \A p \in Listagens : pc'[p] = pc[p] /\ local'[p] = local[p]
    BY <1>0, <1>9 DEF AbrirDetalhe, AtenderDetalhe, IniciarPatch, AtenderPatch, ConcluirPatch
  <2>2. UNCHANGED <<loading, refreshing>>
    BY <1>9 DEF AbrirDetalhe, AtenderDetalhe, IniciarPatch, AtenderPatch, ConcluirPatch
  <2>3. QED  BY <1>0, <2>1, <2>2
<1>10. ASSUME NEW o \in Listagens \cup Patches, Enviar(o) \/ Recusar(o) \/ Perder(o)  PROVE IndicadorInv'
  BY <1>0, <1>10, <1>m DEF Enviar, Recusar, Perder, Local, Fases, FasesDeSessao
<1>11. ASSUME NEW o \in Listagens \cup Patches, Falhar(o)  PROVE IndicadorInv'
  <2>1. \A p \in Listagens \ {o} : pc'[p] = pc[p] /\ local'[p] = local[p]
    BY <1>0, <1>11 DEF Falhar, Terminar
  <2>2. /\ loading' = (loading /\ ~ EhFetch(o))
        /\ refreshing' = (refreshing /\ local[o].via # "refresh")
    BY <1>11 DEF Falhar, Capturar
  <2>3. QED  BY <1>0, <2>1, <2>2
<1>12. ASSUME NEW o \in Listagens \cup Patches \cup Logouts, RemoverJwt(o) \/ RemoverRole(o) \/ Esquecer(o)
       PROVE IndicadorInv'
  BY <1>0, <1>12, <1>m DEF RemoverJwt, RemoverRole, Esquecer, Fases, FasesDeSessao
<1>13. ASSUME NEW o \in Logins \cup Logouts,
              \/ IniciarLogin(o) \/ Postar(o) \/ GravarJwt(o) \/ GravarRole(o) \/ Entrar(o)
              \/ IniciarLogout(o)
       PROVE IndicadorInv'
  <2>1. \A p \in Listagens : pc'[p] = pc[p] /\ local'[p] = local[p]
    BY <1>0, <1>13 DEF IniciarLogin, Postar, GravarJwt, GravarRole, Entrar, IniciarLogout
  <2>2. QED
    BY <1>0, <1>13, <2>1 DEF IniciarLogin, Postar, GravarJwt, GravarRole, Entrar, IniciarLogout
<1>14. CASE Gravar
  <2> DEFINE o == Head(gravacoes).op
  <2>1. pc[o] = "Cache.set" /\ o \in Listagens \cup Patches
    BY <1>14, PrimeiraGravacao DEF Gravar
  <2>2. \A p \in Listagens \ {o} : pc'[p] = pc[p] /\ local'[p] = local[p]
    BY <1>0, <1>14 DEF Gravar, Terminar
  <2>3. /\ loading' = loading \/ loading' = (loading /\ ~ EhFetch(o))
        /\ refreshing' = (refreshing /\ local[o].via # "refresh")
    BY <1>14 DEF Gravar, Capturar
  <2>4. \A p \in Listagens : Carregando(p) => p # o
    BY <2>1
  <2>5. loading' => \E p \in Listagens : Carregando(p)'
    BY <1>0, <2>2, <2>3, <2>4
  <2>6. refreshing' => \E p \in Listagens : EmCurso(p)' /\ local'[p].via = "refresh"
    BY <1>0, <2>2, <2>3
  <2>7. QED  BY <2>5, <2>6, Zenon
<1>15. CASE Reabrir
  BY <1>15 DEF Reabrir
<1>16. CASE UNCHANGED <<loading, refreshing, pc, local>>
  BY <1>0, <1>16
<1>17. QED
  BY <1>1, <1>2, <1>3, <1>4, <1>5, <1>6, <1>7, <1>8, <1>9, <1>10, <1>11, <1>12, <1>13, <1>14, <1>15, <1>16,
     PassosDeNext DEF vars, Surgir, TratarFora, Expirar

\* No spinner outlives the operations that show it, wherever they stop: token, network, 401,
\* notification, cache (loading and refreshing of store/leads.ts).
THEOREM IndicadorTemDono == Spec => []IndicadorNaoPreso
<1>1. Init => IndicadorInv
  BY DEF Init, IndicadorInv
<1>2. AppInv /\ IndicadorInv => IndicadorNaoPreso
  BY Zenon DEF IndicadorInv, IndicadorNaoPreso, Carregando, EmCurso, Paradas
<1>3. QED  BY AppInvariante, IndicadorStep, <1>1, <1>2, PTL DEF Spec

-----------------------------------------------------------------------------
(* The notifications *)

Notificados == {n.lead : n \in notificacoes}

CriticoInv ==
    /\ items \cap Criticos \subseteq Notificados
    /\ cache \cap Criticos \subseteq Notificados
    /\ knownCriticalIds \subseteq Notificados
    /\ \A i \in 1..Len(gravacoes) : gravacoes[i].leads \cap Criticos \subseteq Notificados
    /\ \A o \in Listagens : /\ local[o].known \subseteq Notificados
                            /\ pc[o] = "hidratar" => local[o].leads \cap Criticos \subseteq Notificados

\* What a listing knows it notified, or read from ids notified before.
LEMMA CriticoStep == AppInv /\ CriticoInv /\ [Next]_vars => CriticoInv'
<1> SUFFICES ASSUME AppInv, CriticoInv, [Next]_vars
             PROVE  CriticoInv'
  OBVIOUS
<1> USE OperacoesSeparadas DEF CriticoInv, Operacoes, lista, sessao, disco, Ir
<1>0. /\ CriticoInv /\ FaseInv
      /\ pc \in [Operacoes -> Fases] /\ local \in [Operacoes -> Local]
      /\ gravacoes \in Seq(Gravacao) /\ items \subseteq Leads /\ Len(gravacoes) \in Nat
  BY LenProperties DEF AppInv, TipoInv
<1>n. UNCHANGED notificacoes => Notificados' = Notificados
  BY DEF Notificados
\* A step that leaves the list, the disk and what a listing knows as they were.
<1>m. ASSUME UNCHANGED <<items, knownCriticalIds, cache, gravacoes, notificacoes>>,
             \A o \in Listagens : /\ local'[o].known \subseteq local[o].known \cup knownCriticalIds
                                  /\ pc'[o] = "hidratar" => local'[o].leads = local[o].leads
                                                            /\ pc[o] = "hidratar"
      PROVE  CriticoInv'
  BY <1>0, <1>n, <1>m
\* A step that puts one more list in the queue and on the screen.
<1>g. ASSUME NEW g \in Gravacao, g.leads \cap Criticos \subseteq Notificados,
             gravacoes' = Append(gravacoes, g),
             knownCriticalIds' \subseteq Notificados, items' \subseteq g.leads,
             UNCHANGED <<cache, notificacoes, local>>,
             \A o \in Listagens : pc'[o] = "hidratar" => pc[o] = "hidratar"
      PROVE  CriticoInv'
  <2>1. /\ Len(gravacoes') = Len(gravacoes) + 1 /\ gravacoes'[Len(gravacoes) + 1] = g
        /\ \A i \in 1..Len(gravacoes) : gravacoes'[i] = gravacoes[i]
    BY <1>0, <1>g, AppendProperties
  <2>2. \A i \in 1..Len(gravacoes') : i \in 1..Len(gravacoes) \/ i = Len(gravacoes) + 1
    BY <1>0, <2>1
  <2>3. \A i \in 1..Len(gravacoes') : gravacoes'[i].leads \cap Criticos \subseteq Notificados
    BY <1>0, <1>g, <2>1, <2>2
  <2>4. QED  BY <1>0, <1>n, <1>g, <2>3
<1>1. ASSUME NEW o \in Listagens, Montar(o)  PROVE CriticoInv'
  BY <1>0, <1>m, <1>1 DEF Montar, Vazio
<1>2. ASSUME NEW o \in Listagens, LerCache(o)  PROVE CriticoInv'
  <2>1. CASE local' = [local EXCEPT ![o].leads = cache]
    <3>1. \A p \in Listagens : /\ local'[p].known = local[p].known
                               /\ pc'[p] = "hidratar" => p = o \/ pc[p] = "hidratar"
                               /\ local'[p].leads = IF p = o THEN cache ELSE local[p].leads
      BY <1>0, <1>2, <2>1 DEF LerCache, Terminar, Local
    <3>2. UNCHANGED <<items, knownCriticalIds, cache, gravacoes, notificacoes>>
      BY <1>2 DEF LerCache
    <3>3. \A p \in Listagens : pc'[p] = "hidratar" => local'[p].leads \cap Criticos \subseteq Notificados
      BY <1>0, <3>1
    <3>4. QED  BY <1>0, <1>n, <3>1, <3>2, <3>3
  <2>2. CASE Terminar(o)
    BY <1>0, <1>m, <1>2, <2>2 DEF LerCache, Terminar, Vazio
  <2>3. QED  BY <1>2, <2>1, <2>2 DEF LerCache
<1>3. ASSUME NEW o \in Listagens, Hidratar(o)  PROVE CriticoInv'
  <2>1. items' \cap Criticos \subseteq Notificados
    BY <1>0, <1>3 DEF Hidratar
  <2>2. \A p \in Listagens : /\ local'[p].known \subseteq local[p].known \cup knownCriticalIds
                             /\ local'[p].leads = local[p].leads
                             /\ pc'[p] = "hidratar" => pc[p] = "hidratar"
    BY <1>0, <1>3 DEF Hidratar, Local
  <2>3. QED  BY <1>0, <1>n, <1>3, <2>1, <2>2 DEF Hidratar
<1>4. ASSUME NEW o \in Listagens, IniciarFetch(o) \/ IniciarRefresh(o)  PROVE CriticoInv'
  <2>1. PICK v \in {"retry", "refresh"} :
            local' = [local EXCEPT ![o] = [Vazio EXCEPT !.via = v, !.known = knownCriticalIds]]
    BY <1>4 DEF IniciarFetch, IniciarRefresh
  <2>2. \A p \in Listagens : local'[p].known \subseteq local[p].known \cup knownCriticalIds
    BY <1>0, <2>1 DEF Vazio
  <2>3. \A p \in Listagens : pc'[p] = "hidratar" => local'[p] = local[p] /\ pc[p] = "hidratar"
    BY <1>0, <1>4, <2>1 DEF IniciarFetch, IniciarRefresh
  <2>4. UNCHANGED <<items, knownCriticalIds, cache, gravacoes, notificacoes>>
    BY <1>4 DEF IniciarFetch, IniciarRefresh
  <2>5. QED  BY <1>m, <2>2, <2>3, <2>4
<1>5. ASSUME NEW o \in Listagens, AtenderListagem(o)  PROVE CriticoInv'
  BY <1>0, <1>m, <1>5 DEF AtenderListagem, Local
<1>6. ASSUME NEW o \in Listagens, Notificar(o)  PROVE CriticoInv'
  <2>1. CASE UNCHANGED <<notificacoes, local>>
    BY <1>0, <1>m, <1>6, <2>1 DEF Notificar
  <2>2. ASSUME NEW l, notificacoes' = notificacoes \cup {[op |-> o, lead |-> l]},
               local' = [local EXCEPT ![o].known = @ \cup {l}], UNCHANGED pc
        PROVE  CriticoInv'
    <3>1. Notificados' = Notificados \cup {l}
      <4>1. \A n \in notificacoes' : n \in notificacoes \/ n.lead = l
        BY <2>2
      <4>2. [op |-> o, lead |-> l] \in notificacoes' /\ [op |-> o, lead |-> l].lead = l
        BY <2>2
      <4>3. QED  BY <2>2, <4>1, <4>2 DEF Notificados
    <3>2. \A p \in Listagens : /\ local'[p].known \subseteq local[p].known \cup {l}
                               /\ local'[p].leads = local[p].leads
      BY <1>0, <2>2 DEF Local
    <3>3. QED  BY <1>0, <1>6, <2>2, <3>1, <3>2 DEF Notificar
  <2>3. QED  BY <1>6, <2>1, <2>2 DEF Notificar
<1>7. ASSUME NEW o \in Listagens, ConcluirListagem(o)  PROVE CriticoInv'
  <2>1. /\ local[o].leads \cap Criticos \subseteq local[o].known
        /\ local[o].known \subseteq Notificados
    BY <1>0, <1>7 DEF ConcluirListagem, ANotificar
  <2>2. [op |-> o, leads |-> local[o].leads] \in Gravacao
    BY LocalTipado DEF Gravacao
  <2>3. QED  BY <1>0, <1>7, <1>g, <2>1, <2>2 DEF ConcluirListagem, CacheSet
<1>8. ASSUME NEW o \in Patches, ConcluirPatch(o)  PROVE CriticoInv'
  <2>1. [op |-> o, leads |-> items'] \in Gravacao
    BY <1>0, <1>8 DEF Gravacao, ConcluirPatch
  <2>2. items' \cap Criticos \subseteq Notificados
    BY <1>0, <1>8 DEF ConcluirPatch
  <2>3. \A p \in Listagens : pc'[p] = pc[p]
    BY <1>0, <1>8 DEF ConcluirPatch
  <2>4. QED  BY <1>0, <1>8, <1>g, <2>1, <2>2, <2>3 DEF ConcluirPatch, CacheSet
<1>9. ASSUME NEW o \in Patches, AbrirDetalhe(o) \/ AtenderDetalhe(o) \/ IniciarPatch(o) \/ AtenderPatch(o)
      PROVE  CriticoInv'
  <2>1. \A p \in Listagens : pc'[p] = pc[p] /\ local'[p] = local[p]
    BY <1>0, <1>9 DEF AbrirDetalhe, AtenderDetalhe, IniciarPatch, AtenderPatch
  <2>2. QED  BY <1>m, <1>9, <2>1 DEF AbrirDetalhe, AtenderDetalhe, IniciarPatch, AtenderPatch
<1>10. ASSUME NEW o \in Operacoes,
              \/ Enviar(o) \/ Recusar(o) \/ Perder(o) \/ Falhar(o)
              \/ RemoverJwt(o) \/ RemoverRole(o) \/ Esquecer(o)
       PROVE  CriticoInv'
  <2>1. CASE Enviar(o)
    BY <1>0, <1>m, <2>1 DEF Enviar, Local
  <2>2. CASE Falhar(o)
    BY <1>0, <1>m, <2>2 DEF Falhar, Terminar, Vazio
  <2>3. CASE Recusar(o) \/ Perder(o) \/ RemoverJwt(o) \/ RemoverRole(o) \/ Esquecer(o)
    BY <1>0, <1>m, <2>3 DEF Recusar, Perder, RemoverJwt, RemoverRole, Esquecer
  <2>4. QED  BY <1>10, <2>1, <2>2, <2>3
<1>11. ASSUME NEW o \in Logins \cup Logouts,
              \/ IniciarLogin(o) \/ Postar(o) \/ GravarJwt(o) \/ GravarRole(o) \/ Entrar(o)
              \/ IniciarLogout(o)
       PROVE  CriticoInv'
  <2>1. \A p \in Listagens : pc'[p] = pc[p] /\ local'[p] = local[p]
    BY <1>0, <1>11 DEF IniciarLogin, Postar, GravarJwt, GravarRole, Entrar, IniciarLogout
  <2>2. QED
    BY <1>m, <1>11, <2>1 DEF IniciarLogin, Postar, GravarJwt, GravarRole, Entrar, IniciarLogout
<1>12. CASE Gravar
  <2> DEFINE o == Head(gravacoes).op
  <2>1. /\ Head(gravacoes) = gravacoes[1] /\ 1 \in 1..Len(gravacoes)
        /\ gravacoes' = Tail(gravacoes) /\ Len(gravacoes') = Len(gravacoes) - 1
        /\ \A i \in 1..Len(gravacoes') : gravacoes'[i] = gravacoes[i + 1]
    BY <1>12, PrimeiraGravacao DEF Gravar
  <2>2. \A i \in 1..Len(gravacoes') : gravacoes'[i].leads \cap Criticos \subseteq Notificados
    BY <1>0, <2>1
  <2>3. cache' \cap Criticos \subseteq Notificados
    BY <1>0, <1>12, <2>1 DEF Gravar
  <2>4. pc' = [pc EXCEPT ![o] = "fim"] /\ local' = [local EXCEPT ![o] = Vazio]
    BY <1>12 DEF Gravar, Terminar
  <2>5. \A p \in Listagens : /\ local'[p].known \subseteq local[p].known
                             /\ pc'[p] = "hidratar" => pc[p] = "hidratar" /\ local'[p] = local[p]
    BY <1>0, <2>4 DEF Vazio
  <2>6. QED  BY <1>0, <1>n, <1>12, <2>2, <2>3, <2>5 DEF Gravar
<1>13. CASE Reabrir
  BY <1>0, <1>n, <1>13 DEF Reabrir, EmCurso, Paradas, Vazio
<1>14. CASE UNCHANGED <<items, knownCriticalIds, cache, gravacoes, notificacoes, pc, local>>
  BY <1>0, <1>n, <1>14
<1>15. QED
  BY <1>1, <1>2, <1>3, <1>4, <1>5, <1>6, <1>7, <1>8, <1>9, <1>10, <1>11, <1>12, <1>13, <1>14, PassosDeNext
     DEF vars, Surgir, TratarFora, Expirar, mundo

\* No critical lead is shown, stored or known before the consultant was notified of it, though
\* listings overlap, notifications fail half-way and the app is killed (detectAndNotify).
THEOREM NotificadoAntes == Spec => []CriticoNotificado
<1>1. Init => CriticoInv
  BY DEF Init, CriticoInv, Vazio, Operacoes
<1>2. AppInv /\ CriticoInv => CriticoNotificado
  BY DEF CriticoInv, CriticoNotificado, Notificados, AppInv, TipoInv
<1>3. QED  BY AppInvariante, CriticoStep, <1>1, <1>2, PTL DEF Spec

-----------------------------------------------------------------------------
(* The offline copy *)

Hidratando == \E o \in Listagens : pc[o] \in {"Cache.get", "hidratar"}

\* The last list asked to be written is the one on the screen, after each step too.
LEMMA EspelhoStep == AppInv /\ EspelhoOffline /\ [Next]_vars => EspelhoOffline'
<1> SUFFICES ASSUME AppInv, EspelhoOffline, [Next]_vars,
                    montada', ~ divergiu', ~ Hidratando'
             PROVE  NoDisco' = items'
  BY DEF EspelhoOffline, Hidratando
<1> USE OperacoesSeparadas DEF Operacoes, lista, sessao, disco, Ir, Hidratando
<1>0. /\ pc \in [Operacoes -> Fases] /\ FaseInv
      /\ gravacoes \in Seq(Gravacao) /\ Len(gravacoes) \in Nat
  BY LenProperties DEF AppInv, TipoInv
\* A step that touches neither the list nor the disk, of an operation that was not hydrating.
<1>m. ASSUME montada, UNCHANGED <<divergiu, items, cache, gravacoes>>,
             \A o \in Listagens : pc[o] \in {"Cache.get", "hidratar"} => pc'[o] = pc[o]
      PROVE  NoDisco' = items'
  BY <1>m DEF EspelhoOffline, NoDisco
<1>g. ASSUME NEW g \in Gravacao, g.leads = items', gravacoes' = Append(gravacoes, g)
      PROVE  NoDisco' = items'
  <2>1. Len(gravacoes') = Len(gravacoes) + 1 /\ gravacoes'[Len(gravacoes) + 1] = g
    BY <1>0, <1>g, AppendProperties
  <2>2. gravacoes' # <<>>
    BY <1>0, <2>1, EmptySeq
  <2>3. QED  BY <1>g, <2>1, <2>2 DEF NoDisco
<1>1. ASSUME NEW o \in Listagens, Montar(o)  PROVE FALSE
  BY <1>0, <1>1 DEF Montar
<1>2. ASSUME NEW o \in Listagens, LerCache(o)  PROVE FALSE
  BY <1>0, <1>2 DEF LerCache
<1>3. ASSUME NEW o \in Listagens, Hidratar(o)  PROVE NoDisco' = items'
  BY <1>3 DEF Hidratar, NoDisco
<1>4. ASSUME NEW o \in Listagens,
             IniciarFetch(o) \/ IniciarRefresh(o) \/ AtenderListagem(o) \/ Notificar(o)
      PROVE  NoDisco' = items'
  BY <1>0, <1>m, <1>4 DEF IniciarFetch, IniciarRefresh, AtenderListagem, Notificar
<1>5. ASSUME NEW o \in Listagens, ConcluirListagem(o)  PROVE NoDisco' = items'
  <2>1. [op |-> o, leads |-> local[o].leads] \in Gravacao
    BY LocalTipado DEF Gravacao
  <2>2. QED  BY <1>5, <1>g, <2>1 DEF ConcluirListagem, CacheSet
<1>6. ASSUME NEW o \in Patches, ConcluirPatch(o)  PROVE NoDisco' = items'
  <2>1. [op |-> o, leads |-> items'] \in Gravacao
    BY <1>6 DEF Gravacao, ConcluirPatch, AppInv, TipoInv
  <2>2. QED  BY <1>6, <1>g, <2>1 DEF ConcluirPatch, CacheSet
<1>7. ASSUME NEW o \in Patches, AbrirDetalhe(o) \/ AtenderDetalhe(o) \/ IniciarPatch(o) \/ AtenderPatch(o)
      PROVE  NoDisco' = items'
  BY <1>0, <1>m, <1>7 DEF AbrirDetalhe, AtenderDetalhe, IniciarPatch, AtenderPatch
<1>8. ASSUME NEW o \in Operacoes,
             \/ Enviar(o) \/ Recusar(o) \/ Perder(o) \/ Falhar(o)
             \/ RemoverJwt(o) \/ RemoverRole(o) \/ Esquecer(o)
      PROVE  NoDisco' = items'
  BY <1>0, <1>m, <1>8 DEF Enviar, Recusar, Perder, Falhar, Terminar, RemoverJwt, RemoverRole, Esquecer
<1>9. ASSUME NEW o \in Logins \cup Logouts,
             \/ IniciarLogin(o) \/ Postar(o) \/ GravarJwt(o) \/ GravarRole(o) \/ Entrar(o)
             \/ IniciarLogout(o)
      PROVE  NoDisco' = items'
  BY <1>0, <1>m, <1>9 DEF IniciarLogin, Postar, GravarJwt, GravarRole, Entrar, IniciarLogout
<1>10. CASE Gravar
  <2>1. /\ gravacoes # <<>> /\ gravacoes' = Tail(gravacoes) /\ cache' = gravacoes[1].leads
        /\ pc' = [pc EXCEPT ![Head(gravacoes).op] = "fim"] /\ pc[Head(gravacoes).op] = "Cache.set"
        /\ UNCHANGED <<divergiu, items, montada>>
    BY <1>10, PrimeiraGravacao DEF Gravar, Terminar
  <2>2. NoDisco = items
    BY <1>0, <2>1 DEF EspelhoOffline
  <2>3. /\ Len(gravacoes') = Len(gravacoes) - 1 /\ 1 \in 1..Len(gravacoes)
        /\ \A i \in 1..Len(gravacoes') : gravacoes'[i] = gravacoes[i + 1]
        /\ gravacoes' \in Seq(Gravacao)
    BY <2>1, PrimeiraGravacao
  <2>4. CASE gravacoes' = <<>>
    <3>1. Len(gravacoes) = 1
      BY <1>0, <2>3, <2>4
    <3>2. QED  BY <2>1, <2>2, <2>4, <3>1 DEF NoDisco
  <2>5. CASE gravacoes' # <<>>
    <3>1. Len(gravacoes') # 0
      BY <2>3, <2>5, EmptySeq
    <3>2. Len(gravacoes') \in 1..Len(gravacoes') /\ Len(gravacoes') + 1 = Len(gravacoes)
      BY <1>0, <2>3, <3>1
    <3>3. gravacoes'[Len(gravacoes')] = gravacoes[Len(gravacoes)]
      BY <2>3, <3>2
    <3>4. QED  BY <2>1, <2>2, <2>5, <3>3 DEF NoDisco
  <2>6. QED  BY <2>4, <2>5
<1>11. CASE Reabrir
  BY <1>11 DEF Reabrir
<1>12. CASE UNCHANGED <<lista, sessao, disco, pc>>
  BY <1>m, <1>12
<1>13. QED
  BY <1>1, <1>2, <1>3, <1>4, <1>5, <1>6, <1>7, <1>8, <1>9, <1>10, <1>11, <1>12, PassosDeNext
     DEF vars, Surgir, TratarFora, Expirar

\* Once the pending writes are done the offline copy is the list on the screen, in whatever
\* order fetches, refreshes and patches set the one and write the other - until storage fails
\* or a hydrate sets what it read before another operation wrote (store/leads.ts).
THEOREM CopiaDaTela == Spec => []EspelhoOffline
<1>1. Init => EspelhoOffline
  BY DEF Init, EspelhoOffline
<1>2. QED  BY AppInvariante, EspelhoStep, <1>1, PTL DEF Spec

-----------------------------------------------------------------------------
(* The session *)

\* One login at a time and only without a session; after a logout each of its two removals
\* and the emptying of memory stays done, since nothing but a login writes a session.
SessaoInv ==
    /\ montada => token # Nulo
    /\ \A s \in Logins : EmCurso(s) => token = Nulo /\ ultima \notin Logouts
    /\ \A s, t \in Logins : EmCurso(s) /\ EmCurso(t) => s = t
    /\ ultima \in Logouts =>
          /\ pc[ultima] \in {"rm_jwt", "rm_role", "esquecer", "fim"}
          /\ pc[ultima] # "rm_jwt" => jwt = Nulo
          /\ pc[ultima] \in {"esquecer", "fim"} => role = Nulo
          /\ pc[ultima] = "fim" => token = Nulo

LEMMA SessaoStep == AppInv /\ SessaoInv /\ [Next]_vars => SessaoInv'
<1> SUFFICES ASSUME AppInv, SessaoInv, [Next]_vars
             PROVE  SessaoInv'
  OBVIOUS
<1> USE OperacoesSeparadas, NuloDistinto DEF SessaoInv, EmCurso, Paradas, Operacoes, sessao, Ir
<1>0. /\ SessaoInv /\ FaseInv /\ pc \in [Operacoes -> Fases]
  BY DEF AppInv, TipoInv
\* A step of a listing or a patch that leaves the session alone.
<1>m. ASSUME UNCHANGED sessao, \A o \in Logins \cup Logouts : pc'[o] = pc[o]
      PROVE  SessaoInv'
  BY <1>0, <1>m
<1>1. ASSUME NEW o \in Listagens, Montar(o)  PROVE SessaoInv'
  BY <1>0, <1>1 DEF Montar
<1>2. ASSUME NEW o \in Listagens, \/ LerCache(o) \/ Hidratar(o) \/ IniciarFetch(o) \/ IniciarRefresh(o)
                                  \/ AtenderListagem(o) \/ Notificar(o) \/ ConcluirListagem(o)
      PROVE  SessaoInv'
  BY <1>0, <1>m, <1>2 DEF LerCache, Terminar, Hidratar, IniciarFetch, IniciarRefresh,
                          AtenderListagem, Notificar, ConcluirListagem
<1>3. ASSUME NEW o \in Patches, AbrirDetalhe(o) \/ AtenderDetalhe(o) \/ IniciarPatch(o) \/ AtenderPatch(o) \/ ConcluirPatch(o)
      PROVE  SessaoInv'
  BY <1>0, <1>m, <1>3 DEF AbrirDetalhe, AtenderDetalhe, IniciarPatch, AtenderPatch, ConcluirPatch
<1>4. ASSUME NEW o \in Listagens \cup Patches, Enviar(o) \/ Recusar(o) \/ Perder(o) \/ Falhar(o)
      PROVE  SessaoInv'
  BY <1>0, <1>m, <1>4 DEF Enviar, Recusar, Perder, Falhar, Terminar
<1>5. ASSUME NEW o \in Listagens \cup Patches \cup Logouts, RemoverJwt(o)  PROVE SessaoInv'
  BY <1>0, <1>5 DEF RemoverJwt
<1>6. ASSUME NEW o \in Listagens \cup Patches \cup Logouts, RemoverRole(o)  PROVE SessaoInv'
  BY <1>0, <1>6 DEF RemoverRole
<1>7. ASSUME NEW o \in Listagens \cup Patches \cup Logouts, Esquecer(o)  PROVE SessaoInv'
  BY <1>0, <1>7 DEF Esquecer
<1>8. ASSUME NEW o \in Logins, IniciarLogin(o)  PROVE SessaoInv'
  BY <1>0, <1>8 DEF IniciarLogin
<1>9. ASSUME NEW o \in Logins, Postar(o) \/ GravarJwt(o) \/ GravarRole(o)  PROVE SessaoInv'
  BY <1>0, <1>9 DEF Postar, GravarJwt, GravarRole
<1>10. ASSUME NEW o \in Logins, Entrar(o)  PROVE SessaoInv'
  BY <1>0, <1>10 DEF Entrar
<1>11. ASSUME NEW o \in Logouts, IniciarLogout(o)  PROVE SessaoInv'
  BY <1>0, <1>11 DEF IniciarLogout
<1>12. CASE Gravar
  <2>1. Head(gravacoes).op \in Listagens \cup Patches
    BY <1>12, PrimeiraGravacao DEF Gravar
  <2>2. pc' = [pc EXCEPT ![Head(gravacoes).op] = "fim"] /\ UNCHANGED sessao
    BY <1>12 DEF Gravar, Terminar
  <2>3. QED  BY <1>0, <1>m, <2>1, <2>2
<1>13. CASE Reabrir
  <2>1. /\ montada' = FALSE /\ token' = jwt /\ UNCHANGED <<jwt, role>>
        /\ \A o \in Operacoes : pc'[o] = IF EmCurso(o) THEN "fim" ELSE pc[o]
    BY <1>13 DEF Reabrir
  <2>2. \A s \in Logins : ~ EmCurso(s)'
    BY <2>1
  <2>3. ASSUME ultima' \in Logouts
        PROVE  ultima' = ultima /\ pc[ultima] = "fim"
    BY <1>0, <1>13, <2>3 DEF Reabrir, FasesDeSessao
  <2>4. QED  BY <1>0, <2>1, <2>2, <2>3
<1>14. CASE UNCHANGED <<sessao, pc>>
  BY <1>0, <1>14
<1>15. QED
  BY <1>1, <1>2, <1>3, <1>4, <1>5, <1>6, <1>7, <1>8, <1>9, <1>10, <1>11, <1>12, <1>13, <1>14, PassosDeNext
     DEF vars, Surgir, TratarFora, Expirar

\* After "Sair" nothing of a session is left in memory or in SecureStore, although a 401 may
\* clear it at the same time (logout, clearSession, AUTH_EXPIRED).
THEOREM NadaFicaDepoisDeSair == Spec => []SaidaCompleta
<1>1. Init => SessaoInv
  BY OperacoesSeparadas, NuloDistinto DEF Init, SessaoInv, EmCurso, Paradas, Operacoes
<1>2. AppInv /\ SessaoInv => SaidaCompleta
  BY DEF SessaoInv, SaidaCompleta, FasesDeSessao, Operacoes
<1>3. QED  BY AppInvariante, SessaoStep, <1>1, <1>2, PTL DEF Spec

-----------------------------------------------------------------------------
(* The patches *)

\* A patch whose answer came is one the server applied; what is handled stays handled.
PatchInv == \A o \in Patches : pc[o] = "chegou" => \A l \in local[o].leads : servidor[l] = "tratado"

LEMMA PatchStep == AppInv /\ PatchInv /\ [Next]_vars => PatchInv'
<1> SUFFICES ASSUME AppInv, PatchInv, [Next]_vars
             PROVE  PatchInv'
  OBVIOUS
<1> USE OperacoesSeparadas DEF PatchInv, Operacoes, mundo, Ir
<1>0. /\ PatchInv /\ pc \in [Operacoes -> Fases] /\ local \in [Operacoes -> Local]
      /\ servidor \in [Leads -> {"ausente", "aberto", "tratado"}]
      /\ \A o \in Operacoes : local[o].leads \subseteq Leads
  BY LocalTipado DEF AppInv, TipoInv
\* A step of an operation that does not answer a patch.
<1>m. ASSUME NEW o \in Operacoes, UNCHANGED servidor, o \in Patches => pc'[o] # "chegou",
             \A p \in Patches \ {o} : pc'[p] = pc[p] /\ local'[p] = local[p]
      PROVE  PatchInv'
  BY <1>0, <1>m
<1>1. ASSUME NEW o \in Listagens, \/ Montar(o) \/ LerCache(o) \/ Hidratar(o)
                                  \/ IniciarFetch(o) \/ IniciarRefresh(o)
                                  \/ AtenderListagem(o) \/ Notificar(o) \/ ConcluirListagem(o)
      PROVE  PatchInv'
  <2>1. /\ UNCHANGED servidor
        /\ \A p \in Operacoes \ {o} : pc'[p] = pc[p] /\ local'[p] = local[p]
    BY <1>0, <1>1 DEF Montar, LerCache, Terminar, Hidratar, IniciarFetch, IniciarRefresh,
                      AtenderListagem, Notificar, ConcluirListagem
  <2>2. QED  BY <1>m, <2>1
<1>2. ASSUME NEW o \in Patches, AbrirDetalhe(o) \/ AtenderDetalhe(o) \/ IniciarPatch(o) \/ ConcluirPatch(o)
      PROVE  PatchInv'
  BY <1>0, <1>m, <1>2 DEF AbrirDetalhe, AtenderDetalhe, IniciarPatch, ConcluirPatch
<1>3. ASSUME NEW o \in Patches, AtenderPatch(o)  PROVE PatchInv'
  <2>1. \A l \in Leads : servidor[l] = "tratado" \/ l \in local[o].leads => servidor'[l] = "tratado"
    BY <1>0, <1>3 DEF AtenderPatch
  <2>2. \A p \in Patches \ {o} : pc'[p] = pc[p]
    BY <1>0, <1>3 DEF AtenderPatch
  <2>3. QED  BY <1>0, <1>3, <2>1, <2>2 DEF AtenderPatch
<1>4. ASSUME NEW o \in Operacoes,
             \/ Enviar(o) \/ Recusar(o) \/ Perder(o) \/ Falhar(o)
             \/ RemoverJwt(o) \/ RemoverRole(o) \/ Esquecer(o)
             \/ IniciarLogin(o) \/ Postar(o) \/ GravarJwt(o) \/ GravarRole(o) \/ Entrar(o)
             \/ IniciarLogout(o)
      PROVE  PatchInv'
  <2>1. /\ UNCHANGED servidor /\ pc'[o] # "chegou"
        /\ \A p \in Operacoes \ {o} : pc'[p] = pc[p] /\ local'[p] = local[p]
    BY <1>0, <1>4 DEF Enviar, Recusar, Perder, Falhar, Terminar, RemoverJwt, RemoverRole, Esquecer,
                      IniciarLogin, Postar, GravarJwt, GravarRole, Entrar, IniciarLogout
  <2>2. QED  BY <1>m, <2>1
<1>5. ASSUME NEW l \in Leads, Surgir(l) \/ TratarFora(l)  PROVE PatchInv'
  BY <1>0, <1>5 DEF Surgir, TratarFora
<1>6. CASE Gravar
  <2>1. /\ UNCHANGED servidor
        /\ Head(gravacoes).op \in Operacoes
        /\ pc' = [pc EXCEPT ![Head(gravacoes).op] = "fim"]
        /\ local' = [local EXCEPT ![Head(gravacoes).op] = Vazio]
    BY <1>6, PrimeiraGravacao DEF Gravar, Terminar
  <2>2. QED  BY <1>0, <1>m, <2>1
<1>7. CASE Reabrir
  BY <1>0, <1>7 DEF Reabrir, EmCurso, Paradas
<1>8. CASE UNCHANGED <<servidor, pc, local>>
  BY <1>0, <1>8
<1>9. QED
  BY <1>1, <1>2, <1>3, <1>4, <1>5, <1>6, <1>7, <1>8, PassosDeNext DEF vars, Expirar

\* A lead leaves the list only because it was handled, by an answer without it or by a restart:
\* never because its PATCH failed or its answer was lost (patchStatus).
THEOREM SomeComMotivo == Spec => SomeSoTratado
<1> DEFINE Motivo == \A l \in items \ items' :
                        \/ servidor[l] = "tratado"
                        \/ mortes' # mortes
                        \/ \E o \in Listagens : pc[o] \in {"hidratar", "chegou"} /\ pc'[o] # pc[o]
<1>1. Init => PatchInv
  BY DEF Init, PatchInv, Operacoes
<1>2. AppInv /\ PatchInv /\ [Next]_vars => [Motivo]_vars
  <2> SUFFICES ASSUME AppInv, PatchInv, Next
               PROVE  Motivo
    BY Zenon
  <2> USE DEF lista, Operacoes, Ir
  <2>0. pc \in [Operacoes -> Fases] /\ mortes \in Nat
    BY DEF AppInv, TipoInv
  <2>1. CASE UNCHANGED items
    BY <2>1
  <2>2. ASSUME NEW o \in Listagens, Hidratar(o) \/ ConcluirListagem(o)  PROVE Motivo
    BY <2>0, <2>2 DEF Hidratar, ConcluirListagem
  <2>3. ASSUME NEW o \in Patches, ConcluirPatch(o)  PROVE Motivo
    BY <2>3 DEF ConcluirPatch, PatchInv
  <2>4. CASE Reabrir
    BY <2>0, <2>4 DEF Reabrir
  <2>5. QED
    BY <2>1, <2>2, <2>3, <2>4, PassosDeNext
       DEF Montar, LerCache, IniciarFetch, IniciarRefresh, AtenderListagem, Notificar,
           AbrirDetalhe, AtenderDetalhe, IniciarPatch, AtenderPatch, Enviar, Recusar, Perder, Falhar,
           RemoverJwt, RemoverRole, Esquecer, IniciarLogin, Postar, GravarJwt, GravarRole, Entrar,
           IniciarLogout, Surgir, TratarFora, Expirar, Gravar
<1>3. QED  BY AppInvariante, PatchStep, <1>1, <1>2, PTL DEF Spec, SomeSoTratado

=============================================================================
