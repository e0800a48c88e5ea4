--------------------------- MODULE EdgeProxyProofs ---------------------------
(***************************************************************************)
(* Proofs about EdgeProxy for any number of requests, restarts, calls to   *)
(* warm_up_core, CPFs, VINs and statuses.                                  *)
(***************************************************************************)
EXTENDS EdgeProxy, FiniteSetTheorems, TLAPS

PedidoCompra == [cpf : Cpfs, vin : Vins]
PedidoPatch  == [lead : Compras, status : StatusPedidos]

\* The types of everything but the warm-ups, with the body each kind of request has.
TipoInv ==
    /\ vendas \in [Compras -> Core!Venda \cup {Nulo}]
    /\ lead \in [Compras -> Core!StatusLead \cup {Nulo}]
    /\ respostas \in [Compras -> {201, 409, 500, Nulo}]
    /\ chamada \in [Requisicoes -> {"nenhuma", "enviada", "atendida"}]
    /\ upstream \in [Requisicoes -> {200, 201, 401, 404, 409, 500, Nulo}]
    /\ pedido \in [Requisicoes -> Pedidos \cup {Nulo}]
    /\ pc \in [Requisicoes -> {"nova", "aguardando", "auditar", "respondida"}]
    /\ resposta \in [Requisicoes -> {200, 201, 404, 409, 500, 502, 503, PERDIDA, Nulo}]
    /\ audit_logs \subseteq [action : {"CLIENTE_CREATED", "LEAD_CREATED", "LEAD_PATCHED"},
                             req : Requisicoes]
    /\ reinicios \in Nat
    /\ \A r \in Requisicoes : pc[r] = "nova" <=> pedido[r] = Nulo
    /\ \A c \in Compras : pedido[c] # Nulo => pedido[c] \in PedidoCompra
    /\ \A p \in Patches : pedido[p] # Nulo => pedido[p] \in PedidoPatch

\* Where the call to the Core is at each step of the handler.
FluxoInv ==
    \A r \in Requisicoes :
        /\ pc[r] = "nova" => chamada[r] = "nenhuma"
        /\ pc[r] \in {"aguardando", "auditar"} => chamada[r] # "nenhuma"
        /\ pc[r] = "auditar" => upstream[r] = Sucesso(r)
        /\ pc[r] = "respondida" <=> resposta[r] # Nulo
        /\ chamada[r] = "atendida" <=> upstream[r] # Nulo
        /\ chamada[r] = "enviada" => resposta[r] \in {Nulo, 503, PERDIDA}
        /\ resposta[r] \in {Nulo, 500, 502, 503, PERDIDA, upstream[r]}

BordaInv == TipoInv /\ FluxoInv

\* Every step of Next, one disjunct per action.
LEMMA PassosDeNext ==
  ASSUME Next
  PROVE  \/ \E r \in Requisicoes : Encaminhar(r) \/ CoreIndisponivel(r) \/ ReceberDoCore(r)
                                   \/ AuditarNaBorda(r) \/ CoreRecusaToken(r)
         \/ \E c \in Compras : CoreAtendeCompra(c)
         \/ \E p \in Patches : CoreAtendePatch(p)
         \/ \E w \in Aquecimentos : MarcarAquecimento(w) \/ IniciarThread(w) \/ TerminarAquecimento(w)
         \/ Reiniciar
  BY DEF Next, Handler, CoreAtende, Aquecimento

-----------------------------------------------------------------------------
\* The types and the flow hold before anything was asked.
LEMMA BordaInit == Init => BordaInv
  BY NuloDistinto DEF Init, Core!Init, BordaInv, TipoInv, FluxoInv, Requisicoes, PERDIDA

\* No step of a handler, of the Core, of a warm-up and no restart breaks them.
LEMMA BordaStep == BordaInv /\ [Next]_vars => BordaInv'
<1> SUFFICES ASSUME BordaInv, [Next]_vars
             PROVE  BordaInv'
  OBVIOUS
<1> USE RequisicoesDistintas, NuloDistinto, LimiteNatural
        DEF BordaInv, TipoInv, FluxoInv, Requisicoes, registro, edge, warmup, Sucesso, PERDIDA
<1>1. ASSUME NEW r \in Requisicoes, Encaminhar(r)  PROVE BordaInv'
  <2>1. PICK b \in Pedidos : /\ pedido' = [pedido EXCEPT ![r] = b]
                             /\ r \in Compras => b \in PedidoCompra
                             /\ r \in Patches => b \in PedidoPatch
    BY <1>1 DEF Encaminhar, Pedidos, PedidoCompra, PedidoPatch
  <2>2. b # Nulo
    BY <2>1
  <2>3. /\ pedido' \in [Requisicoes -> Pedidos \cup {Nulo}]
        /\ \A c \in Compras : pedido'[c] # Nulo => pedido'[c] \in PedidoCompra
        /\ \A p \in Patches : pedido'[p] # Nulo => pedido'[p] \in PedidoPatch
    BY <2>1
  <2>4. \A q \in Requisicoes : pc'[q] = "nova" <=> pedido'[q] = Nulo
    BY <1>1, <2>1, <2>2 DEF Encaminhar, Responder
  <2>5. QED  BY <1>1, <2>3, <2>4 DEF Encaminhar, Responder
<1>2. ASSUME NEW r \in Requisicoes, CoreIndisponivel(r)  PROVE BordaInv'
  BY <1>2 DEF CoreIndisponivel, Responder
<1>3. ASSUME NEW r \in Requisicoes, ReceberDoCore(r)  PROVE BordaInv'
  BY <1>3 DEF ReceberDoCore, Responder
<1>4. ASSUME NEW r \in Requisicoes, AuditarNaBorda(r)  PROVE BordaInv'
  <2>1. EventosDe(r) \subseteq [action : {"CLIENTE_CREATED", "LEAD_CREATED", "LEAD_PATCHED"},
                                req : Requisicoes]
    BY DEF EventosDe, Evento
  <2>2. QED  BY <1>4, <2>1 DEF AuditarNaBorda, Responder
<1>5. ASSUME NEW r \in Requisicoes, CoreRecusaToken(r)  PROVE BordaInv'
  BY <1>5 DEF CoreRecusaToken, Atendida
<1>6. ASSUME NEW c \in Compras, CoreAtendeCompra(c)  PROVE BordaInv'
  BY <1>6 DEF CoreAtendeCompra, Atendida, Core!Registrar, Core!Recusar, Core!Falhar, Core!StatusLead
<1>7. ASSUME NEW p \in Patches, CoreAtendePatch(p)  PROVE BordaInv'
  BY <1>7 DEF CoreAtendePatch, Atendida, Core!MudarStatus
<1>8. ASSUME NEW w \in Aquecimentos,
             MarcarAquecimento(w) \/ IniciarThread(w) \/ TerminarAquecimento(w)  PROVE BordaInv'
  BY <1>8 DEF MarcarAquecimento, IniciarThread, TerminarAquecimento
<1>9. CASE Reiniciar
  BY <1>9 DEF Reiniciar
<1>10. CASE UNCHANGED vars
  BY <1>10 DEF vars
<1>11. QED
  BY <1>1, <1>2, <1>3, <1>4, <1>5, <1>6, <1>7, <1>8, <1>9, <1>10, PassosDeNext

-----------------------------------------------------------------------------
(* The single-flight warm-up *)

Ativo(w) == aquecimento[w] \in {"iniciar", "rodando"}

AquecimentoInv ==
    /\ warmup_running \in BOOLEAN
    /\ aquecimento \in [Aquecimentos -> {"novo", "iniciar", "rodando", "fim"}]
    /\ warmup_running <=> \E w \in Aquecimentos : Ativo(w)
    /\ \A v, w \in Aquecimentos : Ativo(v) /\ Ativo(w) => v = w

LEMMA AquecimentoInit == Init => AquecimentoInv
<1> SUFFICES ASSUME Init  PROVE AquecimentoInv
  OBVIOUS
<1>1. /\ warmup_running = FALSE
      /\ aquecimento \in [Aquecimentos -> {"novo", "iniciar", "rodando", "fim"}]
      /\ \A w \in Aquecimentos : ~ Ativo(w)
  BY DEF Init, Ativo
<1>2. QED  BY <1>1, Zenon DEF AquecimentoInv

\* The flag and the threads agree after each step of the three that touch them.
LEMMA AquecimentoStep == AquecimentoInv /\ [Next]_vars => AquecimentoInv'
<1> SUFFICES ASSUME AquecimentoInv, [Next]_vars
             PROVE  AquecimentoInv'
  OBVIOUS
<1> USE DEF AquecimentoInv, Ativo
<1>a. ASSUME UNCHANGED warmup  PROVE AquecimentoInv'
  BY <1>a DEF warmup
<1>1. ASSUME NEW w \in Aquecimentos, MarcarAquecimento(w)  PROVE AquecimentoInv'
  BY <1>1 DEF MarcarAquecimento, FaseDe
<1>2. ASSUME NEW w \in Aquecimentos, IniciarThread(w)  PROVE AquecimentoInv'
  BY <1>2 DEF IniciarThread, FaseDe
<1>3. ASSUME NEW w \in Aquecimentos, TerminarAquecimento(w)  PROVE AquecimentoInv'
  BY <1>3 DEF TerminarAquecimento, FaseDe
<1>4. CASE Reiniciar
  BY <1>4 DEF Reiniciar
<1>5. ASSUME NEW r \in Requisicoes, Encaminhar(r) \/ CoreIndisponivel(r) \/ ReceberDoCore(r)
                                    \/ AuditarNaBorda(r) \/ CoreRecusaToken(r)
      PROVE AquecimentoInv'
  BY <1>5, <1>a DEF Encaminhar, CoreIndisponivel, ReceberDoCore, AuditarNaBorda, CoreRecusaToken, Atendida
<1>6. ASSUME NEW c \in Compras, CoreAtendeCompra(c)  PROVE AquecimentoInv'
  BY <1>6, <1>a DEF CoreAtendeCompra, Atendida
<1>7. ASSUME NEW p \in Patches, CoreAtendePatch(p)  PROVE AquecimentoInv'
  BY <1>7, <1>a DEF CoreAtendePatch, Atendida
<1>8. CASE UNCHANGED vars
  BY <1>8, <1>a DEF vars
<1>9. QED
  BY <1>1, <1>2, <1>3, <1>4, <1>5, <1>6, <1>7, <1>8, PassosDeNext

-----------------------------------------------------------------------------
(* What the Core holds for the calls it was sent *)

Tem(c) == vendas[c] # Nulo

\* The registry against the calls: what was registered was asked for and answered 201, a
\* refusal had its reason, the keys are unique and leads belong to risk profiles.
RegistroInv ==
    /\ \A c \in Compras :
          /\ Tem(c) <=> upstream[c] = 201
          /\ respostas[c] # Nulo => chamada[c] = "atendida"
          /\ Tem(c) => vendas[c].cpf = pedido[c].cpf /\ vendas[c].vin = pedido[c].vin
          /\ lead[c] # Nulo <=> Tem(c) /\ Core!GeraLead(vendas[c].perfil)
          /\ upstream[c] # 200
          /\ upstream[c] = 409 =>
                \E d \in Compras : Tem(d) /\ (vendas[d].cpf = pedido[c].cpf \/ vendas[d].vin = pedido[c].vin)
    /\ \A c, d \in Compras :
          Tem(c) /\ Tem(d) /\ c # d => vendas[c].cpf # vendas[d].cpf /\ vendas[c].vin # vendas[d].vin
    /\ \A p \in Patches : upstream[p] \notin {201, 409} /\ (upstream[p] = 200 => lead[pedido[p].lead] # Nulo)

LEMMA RegistroInit == Init => RegistroInv
  BY NuloDistinto DEF Init, Core!Init, RegistroInv, Requisicoes, Tem

\* Only the Core changes its registry, and only for a call that was sent and not answered.
LEMMA RegistroStep == BordaInv /\ RegistroInv /\ [Next]_vars => RegistroInv'
<1> SUFFICES ASSUME BordaInv, RegistroInv, [Next]_vars
             PROVE  RegistroInv'
  OBVIOUS
<1> USE RequisicoesDistintas, NuloDistinto
        DEF BordaInv, TipoInv, FluxoInv, RegistroInv, Requisicoes, registro, Tem
\* A step that touches neither the registry nor the answers to the calls, and no body that
\* was already sent.
<1>a. ASSUME UNCHANGED <<registro, upstream>>,
             \A q \in Requisicoes : chamada'[q] = "atendida" <=> chamada[q] = "atendida",
             \A q \in Requisicoes : upstream[q] # Nulo => pedido'[q] = pedido[q]
      PROVE  RegistroInv'
  BY <1>a
<1>1. ASSUME NEW r \in Requisicoes, Encaminhar(r)  PROVE RegistroInv'
  BY <1>1, <1>a DEF Encaminhar, Responder
<1>2. ASSUME NEW r \in Requisicoes, CoreIndisponivel(r) \/ ReceberDoCore(r) \/ AuditarNaBorda(r)
      PROVE  RegistroInv'
  BY <1>2, <1>a DEF CoreIndisponivel, ReceberDoCore, AuditarNaBorda
<1>3. ASSUME NEW r \in Requisicoes, CoreRecusaToken(r)  PROVE RegistroInv'
  BY <1>3 DEF CoreRecusaToken, Atendida, edge
<1>4. ASSUME NEW c \in Compras, CoreAtendeCompra(c)  PROVE RegistroInv'
  <2>0. /\ chamada[c] = "enviada" /\ ~ Tem(c) /\ lead[c] = Nulo /\ UNCHANGED pedido
        /\ chamada' = [chamada EXCEPT ![c] = "atendida"]
    BY <1>4 DEF CoreAtendeCompra, Atendida, edge
  <2>1. CASE Atendida(c, 201) /\ Core!Registrar(c) /\ vendas'[c].cpf = pedido[c].cpf
             /\ vendas'[c].vin = pedido[c].vin
    <3>1. PICK v \in Core!Venda :
              /\ ~ Core!Conflita(v.cpf, v.vin)
              /\ vendas' = [vendas EXCEPT ![c] = v]
              /\ lead' = [lead EXCEPT ![c] = IF Core!GeraLead(v.perfil) THEN "ABERTO" ELSE Nulo]
      BY <2>1, ZenonT(30) DEF Core!Registrar
    <3>2. /\ upstream' = [upstream EXCEPT ![c] = 201] /\ respostas' = [respostas EXCEPT ![c] = 201]
          /\ v.cpf = pedido[c].cpf /\ v.vin = pedido[c].vin /\ v # Nulo
      BY <2>1, <3>1 DEF Core!Registrar, Atendida
    <3>3. \A d \in Compras : Tem(d) => vendas[d].cpf # v.cpf /\ vendas[d].vin # v.vin
      BY <3>1 DEF Core!Conflita, Core!Registradas
    <3>4. "ABERTO" # Nulo
      BY DEF Core!StatusLead
    <3>5. \A d \in Compras : vendas'[d] = (IF d = c THEN v ELSE vendas[d]) /\ (Tem(d)' <=> d = c \/ Tem(d))
      BY <3>1, <3>2
    <3>6. \A d \in Compras :
             /\ Tem(d)' <=> upstream'[d] = 201
             /\ respostas'[d] # Nulo => chamada'[d] = "atendida"
             /\ Tem(d)' => vendas'[d].cpf = pedido'[d].cpf /\ vendas'[d].vin = pedido'[d].vin
             /\ lead'[d] # Nulo <=> Tem(d)' /\ Core!GeraLead(vendas'[d].perfil)
             /\ upstream'[d] # 200
      BY <2>0, <3>1, <3>2, <3>4, <3>5
    <3>7. \A d \in Compras : upstream'[d] = 409 =>
             \E e \in Compras : Tem(e)' /\ (vendas'[e].cpf = pedido'[d].cpf \/ vendas'[e].vin = pedido'[d].vin)
      BY <2>0, <3>2, <3>5
    <3>8. \A d, e \in Compras : Tem(d)' /\ Tem(e)' /\ d # e
             => vendas'[d].cpf # vendas'[e].cpf /\ vendas'[d].vin # vendas'[e].vin
      BY <3>3, <3>5
    <3>9. \A p \in Patches : upstream'[p] \notin {201, 409}
                             /\ (upstream'[p] = 200 => lead'[pedido'[p].lead] # Nulo)
      BY <2>0, <3>1, <3>2, <3>4 DEF PedidoPatch
    <3>10. QED  BY <3>6, <3>7, <3>8, <3>9
  <2>2. CASE Atendida(c, 409) /\ Core!Conflita(pedido[c].cpf, pedido[c].vin) /\ Core!Recusar(c)
    BY <2>0, <2>2 DEF Atendida, Core!Recusar, Core!Conflita, Core!Registradas
  <2>3. CASE Atendida(c, 500) /\ Core!Falhar(c)
    BY <2>0, <2>3 DEF Atendida, Core!Falhar
  <2>4. QED  BY <1>4, <2>1, <2>2, <2>3 DEF CoreAtendeCompra
<1>5. ASSUME NEW p \in Patches, CoreAtendePatch(p)  PROVE RegistroInv'
  <2> DEFINE l == pedido[p].lead
  <2>1. CASE Atendida(p, 200) /\ Core!MudarStatus(l)
    BY <2>1 DEF Atendida, edge, Core!MudarStatus, PedidoPatch
  <2>2. CASE (Atendida(p, 404) \/ Atendida(p, 500)) /\ UNCHANGED registro
    BY <2>2 DEF Atendida, edge
  <2>3. QED  BY <1>5, <2>1, <2>2 DEF CoreAtendePatch
<1>6. ASSUME NEW w \in Aquecimentos,
             MarcarAquecimento(w) \/ IniciarThread(w) \/ TerminarAquecimento(w)  PROVE RegistroInv'
  BY <1>6, <1>a DEF MarcarAquecimento, IniciarThread, TerminarAquecimento, edge
<1>7. CASE Reiniciar
  BY <1>7, <1>a DEF Reiniciar
<1>8. CASE UNCHANGED vars
  BY <1>8, <1>a DEF vars, edge
<1>9. QED
  BY <1>1, <1>2, <1>3, <1>4, <1>5, <1>6, <1>7, <1>8, PassosDeNext

-----------------------------------------------------------------------------
(* The trail of the edge *)

TrilhaInv ==
    /\ \A e \in audit_logs :
          /\ e.action = "LEAD_PATCHED" <=> e.req \in Patches
          /\ e.action = "LEAD_PATCHED" => upstream[e.req] = 200
          /\ e.action = "CLIENTE_CREATED" => Tem(e.req)
          /\ e.action = "LEAD_CREATED" => lead[e.req] # Nulo
    /\ \A c \in Compras : resposta[c] = 201 =>
          /\ Evento("CLIENTE_CREATED", c) \in audit_logs
          /\ lead[c] # Nulo => Evento("LEAD_CREATED", c) \in audit_logs
    /\ \A p \in Patches : resposta[p] = 200 => Evento("LEAD_PATCHED", p) \in audit_logs

LEMMA TrilhaInit == Init => TrilhaInv
  BY NuloDistinto DEF Init, TrilhaInv, Requisicoes

\* An event is written when the call was answered with success and stays true, because the
\* Core never takes back what it registered.
LEMMA TrilhaStep == BordaInv /\ RegistroInv /\ TrilhaInv /\ [Next]_vars => TrilhaInv'
<1> SUFFICES ASSUME BordaInv, RegistroInv, TrilhaInv, [Next]_vars
             PROVE  TrilhaInv'
  OBVIOUS
<1> USE RequisicoesDistintas, NuloDistinto
        DEF BordaInv, TipoInv, FluxoInv, RegistroInv, TrilhaInv, Requisicoes, registro, Tem, PERDIDA
\* A step that writes no event and answers no success, while the Core forgets nothing and
\* gives no lead to a purchase that was already registered.
<1>a. ASSUME UNCHANGED audit_logs,
             \A q \in Requisicoes : upstream[q] # Nulo => upstream'[q] = upstream[q],
             \A c \in Compras : Tem(c) => Tem(c)' /\ (lead'[c] # Nulo <=> lead[c] # Nulo),
             \A q \in Requisicoes : resposta'[q] \in {200, 201} => resposta'[q] = resposta[q]
      PROVE  TrilhaInv'
  BY <1>a
<1>1. ASSUME NEW r \in Requisicoes, Encaminhar(r)  PROVE TrilhaInv'
  BY <1>1, <1>a DEF Encaminhar, Responder
<1>2. ASSUME NEW r \in Requisicoes, CoreIndisponivel(r)  PROVE TrilhaInv'
  BY <1>2, <1>a DEF CoreIndisponivel, Responder
<1>3. ASSUME NEW r \in Requisicoes, ReceberDoCore(r)  PROVE TrilhaInv'
  <2>1. CASE upstream[r] = Sucesso(r)
    BY <1>3, <2>1, <1>a DEF ReceberDoCore
  <2>2. CASE upstream[r] # Sucesso(r)
    <3>1. upstream[r] \notin {200, 201}
      BY <2>2 DEF Sucesso
    <3>2. QED  BY <1>3, <2>2, <3>1, <1>a DEF ReceberDoCore, Responder
  <2>3. QED  BY <2>1, <2>2
<1>4. ASSUME NEW r \in Requisicoes, AuditarNaBorda(r)  PROVE TrilhaInv'
  <2>1. CASE Responder(r, 500) /\ UNCHANGED audit_logs
    BY <1>4, <2>1, <1>a DEF AuditarNaBorda, Responder
  <2>2. CASE audit_logs' = audit_logs \cup EventosDe(r) /\ Responder(r, upstream[r])
    <3>1. /\ upstream[r] = Sucesso(r) /\ resposta' = [resposta EXCEPT ![r] = upstream[r]]
          /\ UNCHANGED <<registro, upstream>>
      BY <1>4, <2>2 DEF AuditarNaBorda, Responder
    <3>2. CASE r \in Patches
      <4>1. EventosDe(r) = {Evento("LEAD_PATCHED", r)} /\ upstream[r] = 200
        BY <3>1, <3>2 DEF EventosDe, Sucesso
      <4>2. QED  BY <2>2, <3>1, <3>2, <4>1 DEF Evento
    <3>3. CASE r \in Compras
      <4>1. /\ Tem(r)
            /\ EventosDe(r) = {Evento("CLIENTE_CREATED", r)}
                 \cup (IF lead[r] # Nulo THEN {Evento("LEAD_CREATED", r)} ELSE {})
        BY <3>1, <3>3 DEF EventosDe, Sucesso
      <4>2. \A e \in audit_logs' :
               /\ e.action = "LEAD_PATCHED" <=> e.req \in Patches
               /\ e.action = "LEAD_PATCHED" => upstream[e.req] = 200
               /\ e.action = "CLIENTE_CREATED" => Tem(e.req)
               /\ e.action = "LEAD_CREATED" => lead[e.req] # Nulo
        BY <2>2, <3>3, <4>1 DEF Evento
      <4>3. \A c \in Compras : resposta'[c] = 201 =>
               /\ Evento("CLIENTE_CREATED", c) \in audit_logs'
               /\ lead[c] # Nulo => Evento("LEAD_CREATED", c) \in audit_logs'
        BY <2>2, <3>1, <3>3, <4>1
      <4>4. \A p \in Patches : resposta'[p] = 200 => Evento("LEAD_PATCHED", p) \in audit_logs'
        BY <2>2, <3>1, <3>3
      <4>5. QED  BY <3>1, <4>2, <4>3, <4>4
    <3>4. QED  BY <3>2, <3>3
  <2>3. QED  BY <1>4, <2>1, <2>2 DEF AuditarNaBorda
<1>5. ASSUME NEW r \in Requisicoes, CoreRecusaToken(r)  PROVE TrilhaInv'
  BY <1>5, <1>a DEF CoreRecusaToken, Atendida, edge
<1>6. ASSUME NEW c \in Compras, CoreAtendeCompra(c)  PROVE TrilhaInv'
  BY <1>6, <1>a DEF CoreAtendeCompra, Atendida, edge, Core!Registrar, Core!Recusar, Core!Falhar
<1>7. ASSUME NEW p \in Patches, CoreAtendePatch(p)  PROVE TrilhaInv'
  BY <1>7, <1>a DEF CoreAtendePatch, Atendida, edge, Core!MudarStatus
<1>8. ASSUME NEW w \in Aquecimentos,
             MarcarAquecimento(w) \/ IniciarThread(w) \/ TerminarAquecimento(w)  PROVE TrilhaInv'
  BY <1>8, <1>a DEF MarcarAquecimento, IniciarThread, TerminarAquecimento, edge
<1>9. CASE Reiniciar
  BY <1>9, <1>a DEF Reiniciar
<1>10. CASE UNCHANGED vars
  BY <1>10, <1>a DEF vars, edge
<1>11. QED
  BY <1>1, <1>2, <1>3, <1>4, <1>5, <1>6, <1>7, <1>8, <1>9, <1>10, PassosDeNext

-----------------------------------------------------------------------------
(* The theorems *)

IInv == BordaInv /\ AquecimentoInv /\ RegistroInv /\ TrilhaInv

LEMMA Indutivo == Spec => []IInv
<1>1. Init => IInv
  BY BordaInit, AquecimentoInit, RegistroInit, TrilhaInit DEF IInv
<1>2. IInv /\ [Next]_vars => IInv'
  BY BordaStep, AquecimentoStep, RegistroStep, TrilhaStep DEF IInv
<1>3. QED  BY <1>1, <1>2, PTL DEF Spec

\* Every variable of the proxy keeps its type, whatever the Core answers and whenever it dies:
\* a 401 of the Core in particular never reaches a caller.
THEOREM TipoCorreto == Spec => []TypeOK
<1>1. IInv => TypeOK
  <2>1. IInv => TipoInv /\ warmup_running \in BOOLEAN
                /\ aquecimento \in [Aquecimentos -> {"novo", "iniciar", "rodando", "fim"}]
    BY DEF IInv, BordaInv, AquecimentoInv
  <2>2. QED  BY <2>1 DEF TypeOK, TipoInv
<1>2. QED  BY Indutivo, <1>1, PTL

\* A success the caller sees is what the Core holds, and is audited at the edge.
THEOREM SucessoGarantido == Spec => []SucessoAuditado
<1>1. IInv => SucessoAuditado
  <2> SUFFICES ASSUME IInv  PROVE SucessoAuditado
    OBVIOUS
  <2> USE RequisicoesDistintas, NuloDistinto
          DEF IInv, BordaInv, TipoInv, FluxoInv, RegistroInv, TrilhaInv, Requisicoes, Tem, PERDIDA
  <2>1. ASSUME NEW c \in Compras, resposta[c] = 201
        PROVE  /\ vendas[c] # Nulo
               /\ vendas[c].cpf = pedido[c].cpf /\ vendas[c].vin = pedido[c].vin
               /\ Evento("CLIENTE_CREATED", c) \in audit_logs
               /\ Evento("LEAD_CREATED", c) \in audit_logs <=> lead[c] # Nulo
    BY <2>1 DEF Evento
  <2>2. ASSUME NEW p \in Patches, resposta[p] = 200
        PROVE  lead[pedido[p].lead] # Nulo /\ Evento("LEAD_PATCHED", p) \in audit_logs
    BY <2>2
  <2>3. QED  BY <2>1, <2>2 DEF SucessoAuditado
<1>2. QED  BY Indutivo, <1>1, PTL

\* The trail of the edge never tells what the Core did not do.
THEOREM TrilhaFundada == Spec => []AuditoriaFundada
<1>1. IInv => AuditoriaFundada
  <2> SUFFICES ASSUME IInv, NEW e \in audit_logs
               PROVE  CASE e.action = "CLIENTE_CREATED" -> vendas[e.req] # Nulo
                        [] e.action = "LEAD_CREATED"    -> lead[e.req] # Nulo
                        [] e.action = "LEAD_PATCHED"    -> upstream[e.req] = 200
    BY DEF AuditoriaFundada
  <2>1. e.action \in {"CLIENTE_CREATED", "LEAD_CREATED", "LEAD_PATCHED"}
    BY DEF IInv, BordaInv, TipoInv
  <2>2. /\ e.action = "CLIENTE_CREATED" => vendas[e.req] # Nulo
        /\ e.action = "LEAD_CREATED" => lead[e.req] # Nulo
        /\ e.action = "LEAD_PATCHED" => upstream[e.req] = 200
    BY DEF IInv, TrilhaInv, Tem
  <2>3. QED  BY <2>1, <2>2
<1>2. QED  BY Indutivo, <1>1, PTL

\* At most one warm-up is under way, for any number of logins that ask for one.
THEOREM AquecimentoUnico == Spec => []UmAquecimentoPorVez
<1>1. IInv => UmAquecimentoPorVez
  <2> SUFFICES ASSUME AquecimentoInv  PROVE UmAquecimentoPorVez
    BY DEF IInv
  <2> DEFINE ativos == {w \in Aquecimentos : aquecimento[w] \in {"iniciar", "rodando"}}
  <2>1. Cardinality(ativos) <= 1
    <3>1. CASE ativos = {}
      BY <3>1, FS_EmptySet
    <3>2. CASE ativos # {}
      <4>1. PICK w \in ativos : TRUE
        BY <3>2
      <4>2. ativos = {w}
        BY <4>1 DEF AquecimentoInv, Ativo
      <4>3. QED  BY <4>2, FS_Singleton
    <3>3. QED  BY <3>1, <3>2
  <2>2. warmup_running <=> ativos # {}
    BY Zenon DEF AquecimentoInv, Ativo
  <2>3. QED  BY <2>1, <2>2, Zenon DEF UmAquecimentoPorVez
<1>2. QED  BY Indutivo, <1>1, PTL

\* What was refused is never registered afterwards by a call still under way.
THEOREM RecusaGarantida == Spec => RecusaFinal
<1> DEFINE A == \A c \in Compras : vendas[c] = Nulo /\ vendas'[c] # Nulo =>
                   resposta[c] \in {Nulo, 503, PERDIDA}
<1>1. IInv /\ [Next]_vars => [A]_vars
  <2> SUFFICES ASSUME IInv, Next, NEW c \in Compras, vendas[c] = Nulo, vendas'[c] # Nulo
               PROVE  resposta[c] \in {Nulo, 503, PERDIDA}
    BY DEF A
  <2>1. chamada[c] = "enviada"
    <3>1. \A d \in Compras : Atendida(d, 201) /\ Core!Registrar(d) => c = d
      BY DEF IInv, BordaInv, TipoInv, Core!Registrar
    <3>2. QED
      BY <3>1, PassosDeNext, ZenonT(30)
         DEF Encaminhar, CoreIndisponivel, ReceberDoCore, AuditarNaBorda, CoreRecusaToken,
             CoreAtendeCompra, CoreAtendePatch, MarcarAquecimento, IniciarThread, TerminarAquecimento,
             Reiniciar, registro, Atendida, Core!Recusar, Core!Falhar, Core!MudarStatus
  <2>2. QED  BY <2>1 DEF IInv, BordaInv, FluxoInv, Requisicoes
<1>2. QED  BY Indutivo, <1>1, PTL DEF Spec, RecusaFinal

\* Every set of one element has cardinality one.
LEMMA Unitario == \A S, x : S = {x} => Cardinality(S) = 1
  BY FS_Singleton

\* Retrying a purchase after any failure is safe: once an attempt is answered 201 or 409, it
\* is registered exactly once, however many attempts and restarts there were.
THEOREM RetryGarantido == Spec => []RetryConclusivo
<1>1. IInv => RetryConclusivo
  <2> SUFFICES ASSUME IInv, NEW c \in Compras, resposta[c] \in {201, 409},
                      \A d \in Compras : pedido[d] # pedido[c] /\ pedido[d] # Nulo =>
                          pedido[d].cpf # pedido[c].cpf /\ pedido[d].vin # pedido[c].vin
               PROVE  \E d \in Compras : {e \in {x \in Compras : pedido[x] = pedido[c]} : vendas[e] # Nulo} = {d}
    BY Unitario, SMTT(30) DEF RetryConclusivo
  <2> USE NuloDistinto DEF IInv, BordaInv, TipoInv, FluxoInv, RegistroInv, Requisicoes, Tem, PERDIDA
  <2>1. upstream[c] = resposta[c] /\ pedido[c] \in PedidoCompra
    <3>1. upstream[c] = resposta[c] /\ pc[c] = "respondida"
      OBVIOUS
    <3>2. QED  BY <3>1
  <2>2. PICK d \in Compras : Tem(d) /\ (vendas[d].cpf = pedido[c].cpf \/ vendas[d].vin = pedido[c].vin)
    BY <2>1
  <2>3. pedido[d] = pedido[c]
    <3>1. pedido[d] # Nulo
      BY <2>2
    <3>2. QED  BY <2>2, <3>1
  <2>4. \A e \in Compras : pedido[e] = pedido[c] /\ Tem(e) => e = d
    BY <2>2, <2>3
  <2>5. {e \in {x \in Compras : pedido[x] = pedido[c]} : vendas[e] # Nulo} = {d}
    BY <2>2, <2>3, <2>4
  <2>6. QED  BY <2>5
<1>2. QED  BY Indutivo, <1>1, PTL
=============================================================================
