--------------------------- MODULE CoreDomainProofs ---------------------------
(***************************************************************************)
(* Proofs about CoreDomain for any number of requests, CPFs, VINs, bodies, *)
(* classifier answers and any pool size.                                   *)
(***************************************************************************)
EXTENDS CoreDomain, FiniteSetTheorems, TLAPS

FasesCompra == {"nova", "getConnection", "existsByCpf", "existsByVin", "classificar",
                "auditCliente", "auditLead", "commit", "respondida"}
FasesPatch  == {"nova", "getConnection", "findById", "auditPatch", "commit", "respondida"}

Classificada(r) == pc[r] \in {"auditCliente", "auditLead", "commit"}
Carregada(r)    == pc[r] \in {"auditPatch", "commit"}

\* The types, with what each step of a request has already filled in.
TipoInv ==
    /\ TypeOK
    /\ \A r \in Compras :
          /\ pc[r] \in FasesCompra
          /\ pc[r] # "nova" => pedido[r] \in PedidoCompra
          /\ Classificada(r) => resultado[r] \in Resultado
    /\ \A r \in Patches :
          /\ pc[r] \in FasesPatch
          /\ pc[r] # "nova" => pedido[r] \in PedidoPatch
          /\ Carregada(r) => copia[r] \in Lead /\ anterior[r] \in StatusLead

-----------------------------------------------------------------------------
\* MlService.derivarPrioridade always answers one of the four bands.
LEMMA PrioridadeTipo == \A s : derivarPrioridade(s) \in Prioridades
  BY DEF derivarPrioridade, Prioridades

\* Whatever ml-api answers, MlService.classificar returns a perfil and a score the tables accept.
LEMMA ClassificarTipo ==
  ASSUME NEW m \in RespostasMl \cup {Nulo}
  PROVE  classificar(m) \in Resultado
<1>1. CASE m # Nulo /\ m.perfil \in Perfis
  BY <1>1 DEF classificar, Scores, Resultado
<1>2. CASE ~ (m # Nulo /\ m.perfil \in Perfis)
  BY <1>2 DEF classificar, fallback, Scores, Resultado, Perfis
<1>3. QED  BY <1>1, <1>2

\* The union every step of Next belongs to, one disjunct per handler step.
LEMMA PassosDeNext ==
  ASSUME Next
  PROVE  \/ \E r \in Compras : ReceberCompra(r) \/ ExistsByCpf(r) \/ ExistsByVin(r)
                               \/ Classificar(r) \/ CommitCompra(r)
         \/ \E r \in Patches : ReceberPatch(r) \/ FindByIdWithDetails(r) \/ CommitPatch(r)
         \/ \E r \in Requisicoes : AbrirTransacao(r) \/ AbrirAuditoria(r)
                                   \/ GravarAuditoria(r) \/ EsgotarEspera(r)
         \/ UNCHANGED vars
  BY DEF Next, Atendimento, PassoComum, PassoCompra, PassoPatch, Ocioso

-----------------------------------------------------------------------------
\* The types hold in the empty database.
LEMMA TipoInit == Init => TipoInv
  BY NuloDistinto DEF Init, TipoInv, TypeOK, Requisicoes, Fases, FasesAuditoria, FasesCompra, FasesPatch,
              Classificada, Carregada

\* No step of a request, and no bounded wait, breaks the types.
LEMMA TipoStep == TipoInv /\ [Next]_vars => TipoInv'
<1> SUFFICES ASSUME TipoInv, [Next]_vars
             PROVE  TipoInv'
  OBVIOUS
<1> USE RequisicoesDistintas, NuloDistinto
        DEF TipoInv, TypeOK, Requisicoes, Fases, FasesAuditoria, FasesCompra, FasesPatch,
            Classificada, Carregada, contexto, tabelas
<1>1. ASSUME NEW r \in Compras, ReceberCompra(r)  PROVE TipoInv'
  BY <1>1 DEF ReceberCompra, Seguir
<1>2. ASSUME NEW r \in Patches, ReceberPatch(r)  PROVE TipoInv'
  BY <1>2, CorposValidos DEF ReceberPatch, Seguir, PedidoPatch, Observacoes
<1>3. ASSUME NEW r \in Compras, ExistsByCpf(r)  PROVE TipoInv'
  BY <1>3 DEF ExistsByCpf, Responder, Seguir
<1>4. ASSUME NEW r \in Compras, ExistsByVin(r)  PROVE TipoInv'
  BY <1>4 DEF ExistsByVin, Responder, Seguir
<1>5. ASSUME NEW r \in Compras, Classificar(r)  PROVE TipoInv'
  <2>1. PICK m \in RespostasMl \cup {Nulo} : resultado' = [resultado EXCEPT ![r] = classificar(m)]
    BY <1>5, ZenonT(30) DEF Classificar
  <2>2. resultado' \in [Compras -> Resultado \cup {Nulo}] /\ resultado'[r] \in Resultado
    BY <2>1, ClassificarTipo
  <2>3. QED  BY <1>5, <2>1, <2>2 DEF Classificar, Seguir
<1>6. ASSUME NEW r \in Compras, CommitCompra(r)  PROVE TipoInv'
  <2>1. CASE ViolaUnicidade(pedido[r])
    BY <1>6, <2>1 DEF CommitCompra, Responder
  <2>2. CASE ~ ViolaUnicidade(pedido[r])
    <3>1. pedido[r] \in PedidoCompra /\ resultado[r] \in Resultado
      BY <1>6 DEF CommitCompra
    <3>2. [cpf |-> pedido[r].cpf, perfil |-> resultado[r].perfil, score |-> resultado[r].score]
             \in Cliente
      BY <3>1 DEF PedidoCompra, Resultado, Cliente
    <3>3. LeadNovo(r) \in Lead
      BY <3>1, PrioridadeTipo DEF LeadNovo, Lead, Resultado, StatusLead, Observacoes
    <3>4. clientes' \in [Compras -> Cliente \cup {Nulo}] /\ leads' \in [Compras -> Lead \cup {Nulo}]
      BY <1>6, <2>2, <3>2, <3>3 DEF CommitCompra
    <3>5. veiculos' \in [Compras -> Vins \cup {Nulo}]
      BY <1>6, <2>2, <3>1 DEF CommitCompra, PedidoCompra
    <3>6. QED  BY <1>6, <2>2, <3>4, <3>5 DEF CommitCompra, Responder
  <2>3. QED  BY <2>1, <2>2
<1>7. ASSUME NEW r \in Patches, FindByIdWithDetails(r)  PROVE TipoInv'
  <2>1. pedido[r] \in PedidoPatch
    BY <1>7 DEF FindByIdWithDetails
  <2>2. CASE leads[pedido[r].lead] = Nulo
    BY <1>7, <2>2 DEF FindByIdWithDetails, Responder
  <2>3. CASE leads[pedido[r].lead] # Nulo
    <3>1. leads[pedido[r].lead] \in Lead
      BY <2>1, <2>3 DEF PedidoPatch
    <3>2. Alterado(leads[pedido[r].lead], pedido[r]) \in Lead
      BY <2>1, <3>1, ZenonT(30) DEF Alterado, Lead, PedidoPatch
    <3>3. leads[pedido[r].lead].status \in StatusLead
      BY <3>1 DEF Lead
    <3>4. /\ copia' = [copia EXCEPT ![r] = Alterado(leads[pedido[r].lead], pedido[r])]
          /\ anterior' = [anterior EXCEPT ![r] = leads[pedido[r].lead].status]
      BY <1>7, <2>3 DEF FindByIdWithDetails
    <3>5. QED  BY <1>7, <2>3, <3>2, <3>3, <3>4 DEF FindByIdWithDetails, Seguir
  <2>4. QED  BY <2>2, <2>3
<1>8. ASSUME NEW r \in Patches, CommitPatch(r)  PROVE TipoInv'
  BY <1>8 DEF CommitPatch, Responder, PedidoPatch
<1>9. ASSUME NEW r \in Requisicoes, AbrirTransacao(r)  PROVE TipoInv'
  BY <1>9 DEF AbrirTransacao
<1>10. ASSUME NEW r \in Requisicoes, AbrirAuditoria(r)  PROVE TipoInv'
  BY <1>10 DEF AbrirAuditoria
<1>11. ASSUME NEW r \in Requisicoes, GravarAuditoria(r)  PROVE TipoInv'
  BY <1>11 DEF GravarAuditoria, EventoDe, DepoisDaAuditoria, Evento, PedidoPatch
<1>12. ASSUME NEW r \in Requisicoes, EsgotarEspera(r)  PROVE TipoInv'
  <2>1. emUso' \subseteq emUso
    BY <1>12 DEF EsgotarEspera, Responder
  <2>2. QED  BY <1>12, <2>1 DEF EsgotarEspera, Responder, AguardaConexao
<1>13. CASE UNCHANGED vars
  BY <1>13 DEF vars
<1>14. QED
  BY <1>1, <1>2, <1>3, <1>4, <1>5, <1>6, <1>7, <1>8, <1>9, <1>10, <1>11, <1>12, <1>13, PassosDeNext

-----------------------------------------------------------------------------
(* The connection pool *)

ConexoesInv == IsFiniteSet(emUso) /\ ConexoesCorretas

\* No connection is in use at the start.
LEMMA ConexoesInit == Init => ConexoesInv
  BY PoolNaoVazio, FS_EmptySet DEF Init, ConexoesInv, ConexoesCorretas, Requisicoes

\* Taking one connection when one is free keeps the bound, giving any back does too.
LEMMA PegarConexao ==
  ASSUME NEW x, IsFiniteSet(emUso), ConexaoLivre
  PROVE  IsFiniteSet(emUso \cup {x}) /\ Cardinality(emUso \cup {x}) <= PoolSize
<1>1. Cardinality(emUso) \in Nat
  BY FS_CardinalityType
<1>2. /\ IsFiniteSet(emUso \cup {x})
      /\ \/ Cardinality(emUso \cup {x}) = Cardinality(emUso)
         \/ Cardinality(emUso \cup {x}) = Cardinality(emUso) + 1
  BY FS_AddElement
<1>3. QED  BY <1>1, <1>2, PoolNaoVazio DEF ConexaoLivre

LEMMA DevolverConexao ==
  ASSUME NEW X, IsFiniteSet(emUso), Cardinality(emUso) <= PoolSize
  PROVE  IsFiniteSet(emUso \ X) /\ Cardinality(emUso \ X) <= PoolSize
<1>1. IsFiniteSet(emUso \ X) /\ Cardinality(emUso \ X) <= Cardinality(emUso)
  BY FS_Subset
<1>2. Cardinality(emUso) \in Nat /\ Cardinality(emUso \ X) \in Nat
  BY <1>1, FS_CardinalityType
<1>3. QED  BY <1>1, <1>2, PoolNaoVazio

\* Each step takes at most one free connection, and each exit gives back all its request holds.
LEMMA ConexoesStep == TipoInv /\ ConexoesInv /\ [Next]_vars => ConexoesInv'
<1> SUFFICES ASSUME TipoInv, ConexoesInv, [Next]_vars
             PROVE  ConexoesInv'
  OBVIOUS
<1> USE DEF ConexoesInv, ConexoesCorretas, TipoInv, TypeOK
\* Three shapes of step: one keeps the connections, one takes one, one ends the request.
<1>a. ASSUME NEW r \in Requisicoes, NEW fase \in Fases, Seguir(r, fase),
             pc[r] \notin {"nova", "getConnection", "respondida"} \cup FasesAuditoria,
             fase \notin {"nova", "getConnection", "respondida"}
      PROVE  ConexoesInv'
  BY <1>a DEF Seguir
<1>b. ASSUME NEW r \in Requisicoes, NEW codigo, Responder(r, codigo)
      PROVE  ConexoesInv'
  <2>1. IsFiniteSet(emUso') /\ Cardinality(emUso') <= PoolSize
    BY <1>b, DevolverConexao DEF Responder
  <2>2. \A q \in Requisicoes \ {r}, u \in {"negocio", "auditoria"} :
           <<q, u>> \in emUso' <=> <<q, u>> \in emUso
    BY <1>b DEF Responder, Conexoes
  <2>3. \A u \in {"negocio", "auditoria"} : <<r, u>> \notin emUso'
    BY <1>b DEF Responder, Conexoes
  <2>4. QED  BY <1>b, <2>1, <2>2, <2>3 DEF Responder
<1>c. ASSUME NEW r \in Requisicoes, pc[r] = "nova", Seguir(r, "getConnection")
      PROVE  ConexoesInv'
  BY <1>c DEF Seguir, FasesAuditoria
<1> USE DEF Requisicoes
<1>1. ASSUME NEW r \in Compras, ReceberCompra(r)  PROVE ConexoesInv'
  BY <1>1, <1>c DEF ReceberCompra
<1>2. ASSUME NEW r \in Patches, ReceberPatch(r)  PROVE ConexoesInv'
  BY <1>2, <1>c DEF ReceberPatch
<1>3. ASSUME NEW r \in Compras, ExistsByCpf(r)  PROVE ConexoesInv'
  BY <1>3, <1>a, <1>b DEF ExistsByCpf, Fases, FasesAuditoria
<1>4. ASSUME NEW r \in Compras, ExistsByVin(r)  PROVE ConexoesInv'
  BY <1>4, <1>a, <1>b DEF ExistsByVin, Fases, FasesAuditoria
<1>5. ASSUME NEW r \in Compras, Classificar(r)  PROVE ConexoesInv'
  BY <1>5, <1>a DEF Classificar, Fases, FasesAuditoria
<1>6. ASSUME NEW r \in Compras, CommitCompra(r)  PROVE ConexoesInv'
  BY <1>6, <1>b DEF CommitCompra
<1>7. ASSUME NEW r \in Patches, FindByIdWithDetails(r)  PROVE ConexoesInv'
  BY <1>7, <1>a, <1>b DEF FindByIdWithDetails, Fases, FasesAuditoria
<1>8. ASSUME NEW r \in Patches, CommitPatch(r)  PROVE ConexoesInv'
  BY <1>8, <1>b DEF CommitPatch
<1>9. ASSUME NEW r \in Requisicoes, AbrirTransacao(r)  PROVE ConexoesInv'
  <2>1. IsFiniteSet(emUso') /\ Cardinality(emUso') <= PoolSize
    BY <1>9, PegarConexao DEF AbrirTransacao
  <2>2. QED  BY <1>9, <2>1 DEF AbrirTransacao, FasesAuditoria
<1>10. ASSUME NEW r \in Requisicoes, AbrirAuditoria(r)  PROVE ConexoesInv'
  <2>1. IsFiniteSet(emUso') /\ Cardinality(emUso') <= PoolSize
    BY <1>10, PegarConexao DEF AbrirAuditoria
  <2>2. QED  BY <1>10, <2>1 DEF AbrirAuditoria
<1>11. ASSUME NEW r \in Requisicoes, GravarAuditoria(r)  PROVE ConexoesInv'
  <2>1. IsFiniteSet(emUso') /\ Cardinality(emUso') <= PoolSize
    BY <1>11, DevolverConexao DEF GravarAuditoria
  <2>2. pc' = [pc EXCEPT ![r] = DepoisDaAuditoria(r)]
    BY <1>11 DEF GravarAuditoria
  <2>3. DepoisDaAuditoria(r) \in {"auditLead", "commit"}
    BY DEF DepoisDaAuditoria
  <2>4. \A q \in Requisicoes :
           /\ <<q, "negocio">> \in emUso' <=> <<q, "negocio">> \in emUso
           /\ <<q, "auditoria">> \in emUso' <=> q # r /\ <<q, "auditoria">> \in emUso
    BY <1>11 DEF GravarAuditoria
  <2>5. QED  BY <1>11, <2>1, <2>2, <2>3, <2>4 DEF GravarAuditoria, FasesAuditoria
<1>12. ASSUME NEW r \in Requisicoes, EsgotarEspera(r)  PROVE ConexoesInv'
  BY <1>12, <1>b DEF EsgotarEspera
<1>13. CASE UNCHANGED vars
  BY <1>13 DEF vars
<1>14. QED
  BY <1>1, <1>2, <1>3, <1>4, <1>5, <1>6, <1>7, <1>8, <1>9, <1>10, <1>11, <1>12, <1>13, PassosDeNext

-----------------------------------------------------------------------------
(* What is registered, and what the callers are told *)

\* The unique indexes alone would give UnicidadeCpfVin; that an answer is faithful
\* also needs an answered request to stay answered, a lead to have a cliente and the
\* lead a patch has loaded to be still there.
RegistroInv ==
    /\ \A r \in Requisicoes : resposta[r] # Nulo <=> pc[r] = "respondida"
    /\ \A c \in Compras : leads[c] # Nulo => Cadastrada(c)
    /\ \A p \in Patches : Carregada(p) => leads[pedido[p].lead] # Nulo
    /\ UnicidadeCpfVin
    /\ RespostaFiel

\* No row and no answer exist at the start.
LEMMA RegistroInit == Init => RegistroInv
  BY NuloDistinto
     DEF Init, RegistroInv, UnicidadeCpfVin, RespostaFiel, Cadastrada, Requisicoes, Carregada

\* Only the two commits write rows, and only after the unique indexes agreed; answers are given once.
LEMMA RegistroStep == TipoInv /\ RegistroInv /\ [Next]_vars => RegistroInv'
<1> SUFFICES ASSUME TipoInv, RegistroInv, [Next]_vars
             PROVE  RegistroInv'
  OBVIOUS
<1> USE RequisicoesDistintas, NuloDistinto
        DEF RegistroInv, UnicidadeCpfVin, RespostaFiel, Cadastrada, Requisicoes, tabelas, contexto,
            TipoInv, TypeOK, Carregada, FasesPatch
\* Two shapes of step that leave the tables alone: the request goes on, or it is
\* answered with something other than 200 and 201.
<1>a. ASSUME NEW r \in Requisicoes, UNCHANGED tabelas, resposta' = resposta,
             pc' \in [Requisicoes -> Fases], pc[r] # "respondida", pc'[r] # "respondida",
             \A q \in Requisicoes \ {r} : pc'[q] = pc[q],
             \A q \in Requisicoes \ {r} : pedido'[q] = pedido[q],
             r \in Patches /\ Carregada(r)' => leads[pedido'[r].lead] # Nulo
      PROVE  RegistroInv'
  BY <1>a
<1>b. ASSUME NEW r \in Requisicoes, NEW codigo \in {404, 409, 500}, Responder(r, codigo),
             UNCHANGED <<tabelas, pedido>>, pc[r] # "respondida",
             codigo = 409 => /\ r \in Compras
                             /\ CpfCadastrado(pedido[r].cpf) \/ VinCadastrado(pedido[r].vin)
      PROVE  RegistroInv'
  <2>1. resposta' = [resposta EXCEPT ![r] = codigo] /\ pc' = [pc EXCEPT ![r] = "respondida"]
    BY <1>b DEF Responder
  <2>2. r \in Compras => ~ Cadastrada(r)
    BY <1>b
  <2>3. codigo = 409 => \E d \in Compras \ {r} :
           /\ Cadastrada(d)
           /\ clientes[d].cpf = pedido[r].cpf \/ veiculos[d] = pedido[r].vin
    BY <1>b, <2>2 DEF CpfCadastrado, VinCadastrado
  <2>4. QED  BY <1>b, <2>1, <2>2, <2>3
<1>1. ASSUME NEW r \in Compras, ReceberCompra(r)  PROVE RegistroInv'
  BY <1>1, <1>a DEF ReceberCompra, Seguir, Fases
<1>2. ASSUME NEW r \in Patches, ReceberPatch(r)  PROVE RegistroInv'
  BY <1>2, <1>a DEF ReceberPatch, Seguir, Fases
<1>3. ASSUME NEW r \in Compras, ExistsByCpf(r)  PROVE RegistroInv'
  <2>1. CASE CpfCadastrado(pedido[r].cpf)
    BY <1>3, <1>b, <2>1 DEF ExistsByCpf
  <2>2. CASE ~ CpfCadastrado(pedido[r].cpf)
    BY <1>3, <1>a, <2>2 DEF ExistsByCpf, Seguir, Fases
  <2>3. QED  BY <2>1, <2>2
<1>4. ASSUME NEW r \in Compras, ExistsByVin(r)  PROVE RegistroInv'
  <2>1. CASE VinCadastrado(pedido[r].vin)
    BY <1>4, <1>b, <2>1 DEF ExistsByVin
  <2>2. CASE ~ VinCadastrado(pedido[r].vin)
    BY <1>4, <1>a, <2>2 DEF ExistsByVin, Seguir, Fases
  <2>3. QED  BY <2>1, <2>2
<1>5. ASSUME NEW r \in Compras, Classificar(r)  PROVE RegistroInv'
  BY <1>5, <1>a DEF Classificar, Seguir, Fases, FasesAuditoria
<1>6. ASSUME NEW r \in Compras, CommitCompra(r)  PROVE RegistroInv'
  <2>1. CASE ViolaUnicidade(pedido[r])
    BY <1>6, <1>b, <2>1 DEF CommitCompra
  <2>2. CASE ~ ViolaUnicidade(pedido[r])
    <3> DEFINE novo == [cpf |-> pedido[r].cpf, perfil |-> resultado[r].perfil,
                        score |-> resultado[r].score]
    <3>1. /\ pc' = [pc EXCEPT ![r] = "respondida"]
          /\ resposta' = [resposta EXCEPT ![r] = 201]
          /\ clientes' = [clientes EXCEPT ![r] = novo]
          /\ veiculos' = [veiculos EXCEPT ![r] = pedido[r].vin]
          /\ \A c \in Compras \ {r} : leads'[c] = leads[c]
          /\ pedido' = pedido
          /\ pc[r] = "commit"
      BY <1>6, <2>2 DEF CommitCompra, Responder
    <3>2. novo \in Cliente /\ pedido[r].vin \in Vins
      BY <3>1 DEF Classificada, PedidoCompra, Resultado, Cliente
    <3>3. novo # Nulo /\ pedido[r].vin # Nulo /\ novo.cpf = pedido[r].cpf
      BY <3>2
    <3>4. ~ Cadastrada(r) /\ leads[r] = Nulo
      BY <3>1
    <3>5. \A d \in Compras : Cadastrada(d) =>
             clientes[d].cpf # pedido[r].cpf /\ veiculos[d] # pedido[r].vin
      BY <2>2 DEF ViolaUnicidade, CpfCadastrado, VinCadastrado
    <3>6. \A c \in Compras \ {r} : clientes'[c] = clientes[c] /\ veiculos'[c] = veiculos[c]
      BY <3>1
    <3>7. clientes'[r] = novo /\ veiculos'[r] = pedido[r].vin
      BY <3>1
    <3> HIDE DEF novo
    <3>8. UnicidadeCpfVin'
      BY <3>3, <3>5, <3>6, <3>7
    <3>9. \A p \in Patches : resposta'[p] = 200 => leads'[pedido'[p].lead] # Nulo
      <4>1. ASSUME NEW p \in Patches, resposta'[p] = 200
            PROVE  leads'[pedido'[p].lead] # Nulo
        <5>1. resposta[p] = 200 /\ pc[p] = "respondida"
          BY <4>1, <3>1
        <5>2. pedido[p].lead \in Compras /\ leads[pedido[p].lead] # Nulo
          BY <5>1 DEF PedidoPatch
        <5>3. QED  BY <5>2, <3>1, <3>4
      <4>2. QED  BY <4>1
    <3>10. RespostaFiel'
      BY <3>1, <3>3, <3>4, <3>6, <3>7, <3>9
    <3>11. \A c \in Compras : leads'[c] # Nulo => Cadastrada(c)'
      BY <3>1, <3>3, <3>6, <3>7
    <3>12. \A p \in Patches : Carregada(p)' => leads'[pedido'[p].lead] # Nulo
      <4>1. ASSUME NEW p \in Patches, Carregada(p)'
            PROVE  leads'[pedido'[p].lead] # Nulo
        <5>1. pc[p] \in {"auditPatch", "commit"}
          BY <4>1, <3>1
        <5>2. pedido[p].lead \in Compras /\ leads[pedido[p].lead] # Nulo
          BY <5>1 DEF PedidoPatch
        <5>3. QED  BY <5>2, <3>1, <3>4
      <4>2. QED  BY <4>1
    <3>13. QED  BY <3>1, <3>8, <3>10, <3>11, <3>12
  <2>3. QED  BY <2>1, <2>2
<1>7. ASSUME NEW r \in Patches, FindByIdWithDetails(r)  PROVE RegistroInv'
  <2>1. CASE leads[pedido[r].lead] = Nulo
    BY <1>7, <1>b, <2>1 DEF FindByIdWithDetails
  <2>2. CASE leads[pedido[r].lead] # Nulo
    BY <1>7, <1>a, <2>2 DEF FindByIdWithDetails, Seguir, Fases, FasesAuditoria
  <2>3. QED  BY <2>1, <2>2
<1>8. ASSUME NEW r \in Patches, CommitPatch(r)  PROVE RegistroInv'
  <2>1. /\ pc[r] = "commit"
        /\ pedido[r].lead \in Compras
        /\ copia[r] # Nulo
    BY <1>8 DEF CommitPatch, PedidoPatch
  <2>2. Cadastrada(pedido[r].lead)
    BY <2>1
  <2>3. QED  BY <1>8, <2>1, <2>2 DEF CommitPatch, Responder
<1>9. ASSUME NEW r \in Requisicoes, AbrirTransacao(r)  PROVE RegistroInv'
  BY <1>9, <1>a DEF AbrirTransacao, Fases
<1>10. ASSUME NEW r \in Requisicoes, AbrirAuditoria(r)  PROVE RegistroInv'
  BY <1>10 DEF AbrirAuditoria
<1>11. ASSUME NEW r \in Requisicoes, GravarAuditoria(r)  PROVE RegistroInv'
  BY <1>11, <1>a DEF GravarAuditoria, DepoisDaAuditoria, Fases, FasesAuditoria
<1>12. ASSUME NEW r \in Requisicoes, EsgotarEspera(r)  PROVE RegistroInv'
  BY <1>12, <1>b DEF EsgotarEspera, AguardaConexao, FasesAuditoria
<1>13. CASE UNCHANGED vars
  BY <1>13 DEF vars
<1>14. QED
  BY <1>1, <1>2, <1>3, <1>4, <1>5, <1>6, <1>7, <1>8, <1>9, <1>10, <1>11, <1>12, <1>13, PassosDeNext

-----------------------------------------------------------------------------
(* Leads and their classification *)

MesmaClassificacao(a, b) ==
    a.score = b.score /\ a.prioridade = b.prioridade /\ a.script = b.script

\* A patch rewrites the whole row, so what it loaded must still agree with the row
\* on everything a patch does not change.
LeadInv ==
    /\ \A c \in Compras :
          leads[c] # Nulo <=> Cadastrada(c) /\ clientes[c].perfil \in PERFIS_GERAM_LEAD
    /\ \A c \in Compras : leads[c] # Nulo =>
          /\ leads[c].score = clientes[c].score
          /\ leads[c].script = clientes[c].perfil
          /\ leads[c].prioridade = derivarPrioridade(leads[c].score)
    /\ \A p \in Patches : Carregada(p) =>
          /\ leads[pedido[p].lead] # Nulo
          /\ MesmaClassificacao(copia[p], leads[pedido[p].lead])
          /\ copia[p].status = pedido[p].status

\* No lead exists at the start.
LEMMA LeadInit == Init => LeadInv
  BY DEF Init, LeadInv, Cadastrada, Requisicoes, Carregada

\* A commit writes a lead that agrees with its cliente, or one whose classification is the one it read.
LEMMA LeadStep == TipoInv /\ RegistroInv /\ LeadInv /\ [Next]_vars => LeadInv'
<1> SUFFICES ASSUME TipoInv, RegistroInv, LeadInv, [Next]_vars
             PROVE  LeadInv'
  OBVIOUS
<1> USE RequisicoesDistintas, NuloDistinto
        DEF LeadInv, Cadastrada, Requisicoes, tabelas, contexto, TipoInv, TypeOK, Carregada, FasesPatch
\* Most steps touch neither a table nor what a patch has loaded.
<1>a. ASSUME UNCHANGED <<tabelas, copia>>,
             \A p \in Patches : Carregada(p)' => Carregada(p) /\ pedido'[p] = pedido[p]
      PROVE  LeadInv'
  BY <1>a
<1>1. ASSUME NEW r \in Compras, ReceberCompra(r)  PROVE LeadInv'
  BY <1>1, <1>a DEF ReceberCompra, Seguir
<1>2. ASSUME NEW r \in Patches, ReceberPatch(r)  PROVE LeadInv'
  BY <1>2, <1>a DEF ReceberPatch, Seguir
<1>3. ASSUME NEW r \in Compras, ExistsByCpf(r)  PROVE LeadInv'
  BY <1>3, <1>a DEF ExistsByCpf, Seguir, Responder
<1>4. ASSUME NEW r \in Compras, ExistsByVin(r)  PROVE LeadInv'
  BY <1>4, <1>a DEF ExistsByVin, Seguir, Responder
<1>5. ASSUME NEW r \in Compras, Classificar(r)  PROVE LeadInv'
  BY <1>5, <1>a DEF Classificar, Seguir
<1>6. ASSUME NEW r \in Compras, CommitCompra(r)  PROVE LeadInv'
  <2>1. CASE ViolaUnicidade(pedido[r])
    BY <1>6, <1>a, <2>1 DEF CommitCompra, Responder
  <2>2. CASE ~ ViolaUnicidade(pedido[r])
    <3> DEFINE novo == [cpf |-> pedido[r].cpf, perfil |-> resultado[r].perfil,
                        score |-> resultado[r].score]
    <3> DEFINE risco == resultado[r].perfil \in PERFIS_GERAM_LEAD
    <3>1. /\ pc' = [pc EXCEPT ![r] = "respondida"]
          /\ clientes' = [clientes EXCEPT ![r] = novo]
          /\ leads' = [leads EXCEPT ![r] = IF risco THEN LeadNovo(r) ELSE Nulo]
          /\ pedido' = pedido /\ copia' = copia
          /\ pc[r] = "commit"
      BY <1>6, <2>2 DEF CommitCompra, Responder
    <3>2. /\ novo \in Cliente /\ LeadNovo(r) \in Lead
          /\ LeadNovo(r).score = novo.score /\ LeadNovo(r).script = novo.perfil
          /\ LeadNovo(r).prioridade = derivarPrioridade(LeadNovo(r).score)
          /\ novo.perfil = resultado[r].perfil
      <4>1. pedido[r] \in PedidoCompra /\ resultado[r] \in Resultado
        BY <3>1 DEF Classificada
      <4>2. QED  BY <4>1, PrioridadeTipo
                 DEF PedidoCompra, Resultado, Cliente, LeadNovo, Lead, StatusLead, Observacoes
    <3>3. leads[r] = Nulo
      BY <3>1 DEF RegistroInv, RespostaFiel
    <3> HIDE DEF novo
    <3>4. ASSUME NEW c \in Compras
          PROVE  /\ leads'[c] # Nulo <=> clientes'[c] # Nulo /\ clientes'[c].perfil \in PERFIS_GERAM_LEAD
                 /\ leads'[c] # Nulo => /\ leads'[c].score = clientes'[c].score
                                        /\ leads'[c].script = clientes'[c].perfil
                                        /\ leads'[c].prioridade = derivarPrioridade(leads'[c].score)
      <4>1. CASE c = r
        BY <4>1, <3>1, <3>2
      <4>2. CASE c # r
        BY <4>2, <3>1
      <4>3. QED  BY <4>1, <4>2
    <3>5. ASSUME NEW p \in Patches, Carregada(p)'
          PROVE  /\ leads'[pedido'[p].lead] # Nulo
                 /\ MesmaClassificacao(copia'[p], leads'[pedido'[p].lead])
                 /\ copia'[p].status = pedido'[p].status
      <4>1. Carregada(p) /\ pedido[p].lead \in Compras
        BY <3>1, <3>5 DEF PedidoPatch
      <4>2. leads'[pedido[p].lead] = leads[pedido[p].lead]
        BY <4>1, <3>1, <3>3
      <4>3. QED  BY <4>1, <4>2, <3>1
    <3>6. QED  BY <3>4, <3>5
  <2>3. QED  BY <2>1, <2>2
<1>7. ASSUME NEW r \in Patches, FindByIdWithDetails(r)  PROVE LeadInv'
  <2>1. CASE leads[pedido[r].lead] = Nulo
    BY <1>7, <1>a, <2>1 DEF FindByIdWithDetails, Responder
  <2>2. CASE leads[pedido[r].lead] # Nulo
    <3>1. /\ copia' = [copia EXCEPT ![r] = Alterado(leads[pedido[r].lead], pedido[r])]
          /\ pc' = [pc EXCEPT ![r] = "auditPatch"]
          /\ UNCHANGED <<tabelas, pedido>>
          /\ pedido[r] \in PedidoPatch
      BY <1>7, <2>2 DEF FindByIdWithDetails, Seguir
    <3>2. leads[pedido[r].lead] \in Lead
      BY <3>1, <2>2 DEF PedidoPatch
    <3>3. /\ MesmaClassificacao(Alterado(leads[pedido[r].lead], pedido[r]), leads[pedido[r].lead])
          /\ Alterado(leads[pedido[r].lead], pedido[r]).status = pedido[r].status
      BY <3>1, <3>2 DEF Alterado, MesmaClassificacao, Lead, PedidoPatch
    <3>4. QED  BY <3>1, <3>3, <2>2
  <2>3. QED  BY <2>1, <2>2
<1>8. ASSUME NEW r \in Patches, CommitPatch(r)  PROVE LeadInv'
  <2>1. /\ pc[r] = "commit" /\ pc' = [pc EXCEPT ![r] = "respondida"]
        /\ leads' = [leads EXCEPT ![pedido[r].lead] = copia[r]]
        /\ UNCHANGED <<clientes, pedido, copia>>
    BY <1>8 DEF CommitPatch, Responder
  <2>2. /\ pedido[r].lead \in Compras /\ copia[r] \in Lead /\ copia[r] # Nulo
        /\ leads[pedido[r].lead] # Nulo
        /\ MesmaClassificacao(copia[r], leads[pedido[r].lead])
    BY <2>1 DEF PedidoPatch
  <2>3. \A c \in Compras : /\ leads'[c] # Nulo <=> leads[c] # Nulo
                           /\ leads[c] # Nulo => MesmaClassificacao(leads'[c], leads[c])
    BY <2>1, <2>2 DEF MesmaClassificacao
  <2>4. ASSUME NEW p \in Patches, Carregada(p)'
        PROVE  Carregada(p) /\ pedido[p].lead \in Compras
    BY <2>1, <2>4 DEF PedidoPatch
  <2>5. QED  BY <2>1, <2>3, <2>4 DEF MesmaClassificacao
<1>9. ASSUME NEW r \in Requisicoes, AbrirTransacao(r)  PROVE LeadInv'
  BY <1>9, <1>a DEF AbrirTransacao
<1>10. ASSUME NEW r \in Requisicoes, AbrirAuditoria(r)  PROVE LeadInv'
  BY <1>10, <1>a DEF AbrirAuditoria
<1>11. ASSUME NEW r \in Requisicoes, GravarAuditoria(r)  PROVE LeadInv'
  BY <1>11, <1>a DEF GravarAuditoria, FasesAuditoria
<1>12. ASSUME NEW r \in Requisicoes, EsgotarEspera(r)  PROVE LeadInv'
  BY <1>12, <1>a DEF EsgotarEspera, Responder
<1>13. CASE UNCHANGED vars
  BY <1>13, <1>a DEF vars
<1>14. QED
  BY <1>1, <1>2, <1>3, <1>4, <1>5, <1>6, <1>7, <1>8, <1>9, <1>10, <1>11, <1>12, <1>13, PassosDeNext

\* A higher score never means a lower priority.
LEMMA PrioridadeMonotona ==
  ASSUME NEW s \in Int, NEW t \in Int, s <= t
  PROVE  Peso[derivarPrioridade(s)] <= Peso[derivarPrioridade(t)]
<1>1. \A n \in Int : Peso[derivarPrioridade(n)] =
         IF n >= 85 THEN 3 ELSE IF n >= 65 THEN 2 ELSE IF n >= 40 THEN 1 ELSE 0
  BY DEF Peso, derivarPrioridade
<1>2. QED  BY <1>1

LEMMA LeadInvCoerente == TipoInv /\ LeadInv => LeadCoerente
<1> SUFFICES ASSUME TipoInv, LeadInv  PROVE LeadCoerente
  OBVIOUS
<1>1. \A c \in Compras : leads[c] # Nulo => leads[c].score \in Int
  BY ScoresInteiros DEF TipoInv, TypeOK, Lead, Scores
<1>2. ASSUME NEW c \in Compras, NEW d \in Compras, leads[c] # Nulo, leads[d] # Nulo,
             leads[c].score <= leads[d].score
      PROVE  Peso[leads[c].prioridade] <= Peso[leads[d].prioridade]
  BY <1>1, <1>2, PrioridadeMonotona DEF LeadInv
<1>3. QED  BY <1>2 DEF LeadInv, LeadCoerente, PERFIS_GERAM_LEAD

-----------------------------------------------------------------------------
(* The audit trail *)

ClienteAuditado(c) == \E e \in audit_logs : e.action = "CLIENTE_CREATED" /\ e.entity = c
LeadAuditado(c)    == \E e \in audit_logs : e.action = "LEAD_CREATED" /\ e.entity = c
PatchAuditado(p)   == \E e \in audit_logs : /\ e.action = "LEAD_PATCHED" /\ e.req = p
                                            /\ e.entity = pedido[p].lead
                                            /\ e.para = pedido[p].status

\* The trail is complete at a commit because it was complete just before it.
AuditoriaInv ==
    /\ AuditoriaCompleta
    /\ \A c \in Compras : pc[c] \in {"auditLead", "commit"} => ClienteAuditado(c)
    /\ \A c \in Compras :
          pc[c] = "commit" /\ resultado[c].perfil \in PERFIS_GERAM_LEAD => LeadAuditado(c)
    /\ \A p \in Patches : pc[p] = "commit" => PatchAuditado(p)

\* Nothing is committed at the start, so nothing lacks its event.
LEMMA AuditoriaInit == Init => AuditoriaInv
  BY NuloDistinto DEF Init, AuditoriaInv, AuditoriaCompleta, Cadastrada, Requisicoes

\* The audit of AuditService.log commits before the business transaction that needs it, and events are never lost.
LEMMA AuditoriaStep ==
  TipoInv /\ RegistroInv /\ LeadInv /\ AuditoriaInv /\ [Next]_vars => AuditoriaInv'
<1> SUFFICES ASSUME TipoInv, RegistroInv, LeadInv, AuditoriaInv, [Next]_vars
             PROVE  AuditoriaInv'
  OBVIOUS
<1> USE RequisicoesDistintas, NuloDistinto
        DEF AuditoriaInv, AuditoriaCompleta, Cadastrada, Requisicoes, tabelas, contexto, TipoInv, TypeOK,
            ClienteAuditado, LeadAuditado, PatchAuditado, FasesPatch
\* Most steps leave the tables and the trail alone and bring nobody to a commit.
<1>a. ASSUME UNCHANGED <<tabelas, audit_logs>>,
             \A r \in Requisicoes : resposta'[r] # resposta[r] => resposta'[r] # 200,
             \A r \in Requisicoes : pc'[r] \in {"auditLead", "commit"} =>
                pc'[r] = pc[r] /\ (r \in Compras => resultado'[r] = resultado[r]),
             \A p \in Patches : pc[p] # "nova" => pedido'[p] = pedido[p]
      PROVE  AuditoriaInv'
  <2>1. \A p \in Patches : resposta[p] = 200 => pc[p] = "respondida"
    BY DEF RegistroInv
  <2>2. QED  BY <1>a, <2>1
<1>1. ASSUME NEW r \in Compras, ReceberCompra(r)  PROVE AuditoriaInv'
  BY <1>1, <1>a DEF ReceberCompra, Seguir
<1>2. ASSUME NEW r \in Patches, ReceberPatch(r)  PROVE AuditoriaInv'
  BY <1>2, <1>a DEF ReceberPatch, Seguir
<1>3. ASSUME NEW r \in Compras, ExistsByCpf(r)  PROVE AuditoriaInv'
  BY <1>3, <1>a DEF ExistsByCpf, Seguir, Responder
<1>4. ASSUME NEW r \in Compras, ExistsByVin(r)  PROVE AuditoriaInv'
  BY <1>4, <1>a DEF ExistsByVin, Seguir, Responder
<1>5. ASSUME NEW r \in Compras, Classificar(r)  PROVE AuditoriaInv'
  BY <1>5, <1>a DEF Classificar, Seguir
<1>6. ASSUME NEW r \in Compras, CommitCompra(r)  PROVE AuditoriaInv'
  <2>1. CASE ViolaUnicidade(pedido[r])
    BY <1>6, <1>a, <2>1 DEF CommitCompra, Responder
  <2>2. CASE ~ ViolaUnicidade(pedido[r])
    <3>1. /\ pc[r] = "commit" /\ pc' = [pc EXCEPT ![r] = "respondida"]
          /\ resposta' = [resposta EXCEPT ![r] = 201]
          /\ \A c \in Compras \ {r} : clientes'[c] = clientes[c] /\ leads'[c] = leads[c]
          /\ leads'[r] = IF resultado[r].perfil \in PERFIS_GERAM_LEAD THEN LeadNovo(r) ELSE Nulo
          /\ UNCHANGED <<audit_logs, pedido, resultado>>
      BY <1>6, <2>2 DEF CommitCompra, Responder
    <3>2. LeadNovo(r).status = "ABERTO"
      BY DEF LeadNovo
    <3>3. ClienteAuditado(r) /\ (leads'[r] # Nulo => LeadAuditado(r))
      BY <3>1
    <3>4. QED  BY <3>1, <3>2, <3>3
  <2>3. QED  BY <2>1, <2>2
<1>7. ASSUME NEW r \in Patches, FindByIdWithDetails(r)  PROVE AuditoriaInv'
  <2>1. CASE leads[pedido[r].lead] = Nulo
    BY <1>7, <1>a, <2>1 DEF FindByIdWithDetails, Responder
  <2>2. CASE leads[pedido[r].lead] # Nulo
    BY <1>7, <1>a, <2>2 DEF FindByIdWithDetails, Seguir
  <2>3. QED  BY <2>1, <2>2
<1>8. ASSUME NEW r \in Patches, CommitPatch(r)  PROVE AuditoriaInv'
  <2>1. /\ pc[r] = "commit" /\ pc' = [pc EXCEPT ![r] = "respondida"]
        /\ leads' = [leads EXCEPT ![pedido[r].lead] = copia[r]]
        /\ resposta' = [resposta EXCEPT ![r] = 200]
        /\ UNCHANGED <<clientes, audit_logs, pedido, resultado>>
    BY <1>8 DEF CommitPatch, Responder
  <2>2. /\ pedido[r].lead \in Compras /\ leads[pedido[r].lead] # Nulo
        /\ copia[r].status = pedido[r].status
    BY <2>1 DEF PedidoPatch, LeadInv, Carregada
  <2>3. PatchAuditado(r)
    BY <2>1
  <2>4. ASSUME NEW c \in Compras, leads'[c] # Nulo
        PROVE  /\ LeadAuditado(c)
               /\ leads'[c].status = "ABERTO" \/
                     \E e \in audit_logs : /\ e.action = "LEAD_PATCHED"
                                           /\ e.entity = c /\ e.para = leads'[c].status
    <3>1. CASE c = pedido[r].lead
      BY <3>1, <2>1, <2>2, <2>3
    <3>2. CASE c # pedido[r].lead
      BY <3>2, <2>4, <2>1
    <3>3. QED  BY <3>1, <3>2
  <2>5. QED  BY <2>1, <2>3, <2>4
<1>9. ASSUME NEW r \in Requisicoes, AbrirTransacao(r)  PROVE AuditoriaInv'
  BY <1>9, <1>a DEF AbrirTransacao
<1>10. ASSUME NEW r \in Requisicoes, AbrirAuditoria(r)  PROVE AuditoriaInv'
  BY <1>10, <1>a DEF AbrirAuditoria
<1>11. ASSUME NEW r \in Requisicoes, GravarAuditoria(r)  PROVE AuditoriaInv'
  <2>1. /\ pc[r] \in FasesAuditoria
        /\ audit_logs' = audit_logs \cup {EventoDe(r)}
        /\ pc' = [pc EXCEPT ![r] = DepoisDaAuditoria(r)]
        /\ UNCHANGED <<tabelas, pedido, resultado, resposta>>
    BY <1>11 DEF GravarAuditoria
  <2>2. AuditoriaCompleta'
    BY <2>1
  <2>3. ASSUME NEW c \in Compras
        PROVE  /\ pc'[c] \in {"auditLead", "commit"} => ClienteAuditado(c)'
               /\ pc'[c] = "commit" /\ resultado'[c].perfil \in PERFIS_GERAM_LEAD => LeadAuditado(c)'
    <3>1. CASE c # r
      BY <3>1, <2>1
    <3>2. CASE c = r /\ pc[r] = "auditCliente"
      <4>1. EventoDe(r) \in audit_logs' /\ EventoDe(r).action = "CLIENTE_CREATED"
            /\ EventoDe(r).entity = r
        BY <2>1, <3>2 DEF EventoDe
      <4>2. QED  BY <4>1, <3>2, <2>1 DEF DepoisDaAuditoria
    <3>3. CASE c = r /\ pc[r] = "auditLead"
      <4>1. EventoDe(r) \in audit_logs' /\ EventoDe(r).action = "LEAD_CREATED"
            /\ EventoDe(r).entity = r
        BY <2>1, <3>3 DEF EventoDe
      <4>2. QED  BY <4>1, <3>3, <2>1 DEF DepoisDaAuditoria
    <3>4. QED  BY <3>1, <3>2, <3>3, <2>1 DEF FasesAuditoria, FasesCompra
  <2>4. ASSUME NEW p \in Patches, pc'[p] = "commit"
        PROVE  PatchAuditado(p)'
    <3>1. CASE p # r
      BY <3>1, <2>4, <2>1
    <3>2. CASE p = r
      <4>1. pc[r] = "auditPatch"
        BY <3>2, <2>1 DEF FasesAuditoria
      <4>2. EventoDe(r) = [action |-> "LEAD_PATCHED", entity |-> pedido[r].lead, req |-> r,
                           de |-> anterior[r], para |-> pedido[r].status]
        BY <4>1 DEF EventoDe
      <4>3. QED  BY <4>2, <3>2, <2>1
    <3>3. QED  BY <3>1, <3>2
  <2>5. QED  BY <2>2, <2>3, <2>4
<1>12. ASSUME NEW r \in Requisicoes, EsgotarEspera(r)  PROVE AuditoriaInv'
  BY <1>12, <1>a DEF EsgotarEspera, Responder
<1>13. CASE UNCHANGED vars
  BY <1>13 DEF vars
<1>14. QED
  BY <1>1, <1>2, <1>3, <1>4, <1>5, <1>6, <1>7, <1>8, <1>9, <1>10, <1>11, <1>12, <1>13, PassosDeNext

-----------------------------------------------------------------------------
(* The theorems *)

IInv == TipoInv /\ ConexoesInv /\ RegistroInv /\ LeadInv /\ AuditoriaInv

\* The inductive invariant holds in every reachable state.
LEMMA Indutivo == Spec => []IInv
<1>1. Init => IInv
  BY TipoInit, ConexoesInit, RegistroInit, LeadInit, AuditoriaInit DEF IInv
<1>2. IInv /\ [Next]_vars => IInv'
  BY TipoStep, ConexoesStep, RegistroStep, LeadStep, AuditoriaStep DEF IInv
<1>3. QED  BY <1>1, <1>2, PTL DEF Spec

\* Every variable keeps its type, whatever ml-api answers and however the threads interleave.
THEOREM TipoCorreto == Spec => []TypeOK
<1>1. IInv => TypeOK
  BY DEF IInv, TipoInv
<1>2. QED  BY <1>1, Indutivo, PTL

\* No CPF and no VIN is registered twice, for any number of racing purchases.
THEOREM UnicidadeGarantida == Spec => []UnicidadeCpfVin
<1>1. IInv => UnicidadeCpfVin
  BY DEF IInv, RegistroInv
<1>2. QED  BY <1>1, Indutivo, PTL

\* No path through the two services, an exception included, leaks or overdraws the pool.
THEOREM PoolCorreto == Spec => []ConexoesCorretas
<1>1. IInv => ConexoesCorretas
  BY DEF IInv, ConexoesInv
<1>2. QED  BY <1>1, Indutivo, PTL

\* The status code a caller gets agrees with what the database holds from then on.
THEOREM RespostaGarantida == Spec => []RespostaFiel
<1>1. IInv => RespostaFiel
  BY DEF IInv, RegistroInv
<1>2. QED  BY <1>1, Indutivo, PTL

\* No committed change is without its audit event, although the events commit apart.
THEOREM AuditoriaGarantida == Spec => []AuditoriaCompleta
<1>1. IInv => AuditoriaCompleta
  BY DEF IInv, AuditoriaInv
<1>2. QED  BY <1>1, Indutivo, PTL

\* Leads exist exactly for clientes at risk and are ranked by the cliente's score.
THEOREM LeadsCoerentes == Spec => []LeadCoerente
<1>1. IInv => LeadCoerente
  BY LeadInvCoerente DEF IInv
<1>2. QED  BY <1>1, Indutivo, PTL

\* Nothing committed is lost, and a patch, which rewrites the whole row of a lead from
\* what it read earlier, never changes how the lead was classified.
THEOREM ClassificacaoGarantida == Spec => ClassificacaoImutavel
<1> DEFINE A == \A c \in Compras :
                   /\ Cadastrada(c) => clientes'[c] = clientes[c] /\ veiculos'[c] = veiculos[c]
                   /\ leads[c] # Nulo =>
                         /\ leads'[c] # Nulo
                         /\ leads'[c].score = leads[c].score
                         /\ leads'[c].prioridade = leads[c].prioridade
                         /\ leads'[c].script = leads[c].script
<1>1. IInv /\ [Next]_vars => [A]_tabelas
  <2> SUFFICES ASSUME IInv, Next, ~ UNCHANGED tabelas  PROVE A
    BY DEF vars, tabelas
  <2> USE NuloDistinto, RequisicoesDistintas
          DEF IInv, TipoInv, TypeOK, tabelas, contexto, Requisicoes
  <2>1. CASE \E r \in Compras : CommitCompra(r)
    <3>1. PICK r \in Compras : CommitCompra(r)
      BY <2>1
    <3>2. /\ ~ Cadastrada(r) /\ leads[r] = Nulo
          /\ \A c \in Compras \ {r} : /\ clientes'[c] = clientes[c] /\ veiculos'[c] = veiculos[c]
                                      /\ leads'[c] = leads[c]
      <4>1. ~ ViolaUnicidade(pedido[r])
        BY <3>1 DEF CommitCompra
      <4>2. pc[r] = "commit"
        BY <3>1 DEF CommitCompra
      <4>3. QED  BY <3>1, <4>1, <4>2 DEF CommitCompra, RegistroInv, RespostaFiel, Cadastrada
    <3>3. QED  BY <3>2 DEF Cadastrada
  <2>2. CASE \E r \in Patches : CommitPatch(r)
    <3>1. PICK r \in Patches : CommitPatch(r)
      BY <2>2
    <3>2. /\ leads' = [leads EXCEPT ![pedido[r].lead] = copia[r]]
          /\ UNCHANGED <<clientes, veiculos>>
          /\ copia[r] \in Lead
          /\ MesmaClassificacao(copia[r], leads[pedido[r].lead])
      BY <3>1 DEF CommitPatch, Carregada, LeadInv
    <3>3. QED  BY <3>2 DEF MesmaClassificacao
  <2>3. QED
    BY <2>1, <2>2, PassosDeNext, ZenonT(30)
       DEF ReceberCompra, ReceberPatch, ExistsByCpf, ExistsByVin, Classificar, FindByIdWithDetails,
           AbrirTransacao, AbrirAuditoria, GravarAuditoria, EsgotarEspera, vars
<1>2. Spec => [][A]_tabelas
  <2>1. Spec => []IInv /\ [][Next]_vars
    BY Indutivo, PTL DEF Spec
  <2> HIDE DEF A
  <2>2. QED  BY <1>1, <2>1, PTL
<1>3. QED  BY <1>2 DEF ClassificacaoImutavel

-----------------------------------------------------------------------------
(* Refinement *)

\* How a function that is defined pointwise is seen to be an EXCEPT of another.
LEMMA Sobrescrita ==
  ASSUME NEW S, NEW f, NEW g, NEW x \in S, NEW v,
         f = [i \in S |-> f[i]], g = [i \in S |-> g[i]],
         \A i \in S : g[i] = IF i = x THEN v ELSE f[i]
  PROVE  g = [f EXCEPT ![x] = v]
  OBVIOUS

\* An answer to a purchase changes its entry of the registry only.
LEMMA RespostaNoRegistro ==
  ASSUME NEW r \in Compras, NEW codigo, TypeOK, resposta' = [resposta EXCEPT ![r] = codigo]
  PROVE  respostasDoRegistro' = [respostasDoRegistro EXCEPT ![r] = codigo]
<1>1. \A c \in Compras :
         respostasDoRegistro'[c] = IF c = r THEN codigo ELSE respostasDoRegistro[c]
  BY DEF respostasDoRegistro, TypeOK, Requisicoes
<1>2. /\ respostasDoRegistro = [c \in Compras |-> respostasDoRegistro[c]]
      /\ respostasDoRegistro' = [c \in Compras |-> respostasDoRegistro'[c]]
  BY DEF respostasDoRegistro
<1>3. QED  BY <1>1, <1>2, Sobrescrita

\* The empty tables are the empty registry.
LEMMA RefinaInit == Init => Registro!Init
  BY DEF Init, Registro!Init, vendasDoRegistro, statusDoRegistro, respostasDoRegistro, Cadastrada,
         Requisicoes

\* Every step of the Core is one step of the atomic registry, or none.
LEMMA RefinaStep == IInv /\ [Next]_vars => [Registro!Next]_(Registro!vars)
<1> SUFFICES ASSUME IInv, [Next]_vars
             PROVE  [Registro!Next]_(Registro!vars)
  OBVIOUS
<1> USE RequisicoesDistintas, NuloDistinto
        DEF IInv, TipoInv, TypeOK, tabelas, contexto, Requisicoes
<1>g. \A c \in Compras : leads[c] = Nulo \/ leads[c].status \in StatusLead
  BY DEF Lead
<1>v. \A c \in Compras :
         /\ vendasDoRegistro[c] # Nulo <=> Cadastrada(c)
         /\ Cadastrada(c) => /\ vendasDoRegistro[c] \in Venda
                             /\ vendasDoRegistro[c].cpf = clientes[c].cpf
                             /\ vendasDoRegistro[c].vin = veiculos[c]
  BY DEF vendasDoRegistro, Cadastrada, Cliente, Venda, RegistroInv, UnicidadeCpfVin
\* A step that changes no table and answers no purchase is a stutter of the registry.
<1>a. ASSUME UNCHANGED tabelas, \A c \in Compras : resposta'[c] = resposta[c]
      PROVE  UNCHANGED Registro!vars
  BY <1>a DEF Registro!vars, vendasDoRegistro, statusDoRegistro, respostasDoRegistro, Cadastrada
<1>b. ASSUME NEW r \in Compras, Responder(r, 500), UNCHANGED tabelas, pc[r] # "respondida"
      PROVE  Registro!Falhar(r)
  <2>1. resposta[r] = Nulo
    BY <1>b DEF RegistroInv
  <2>2. respostasDoRegistro' = [respostasDoRegistro EXCEPT ![r] = 500]
    <3>1. resposta' = [resposta EXCEPT ![r] = 500]
      BY <1>b DEF Responder
    <3>2. QED  BY <3>1, RespostaNoRegistro, ZenonT(30)
  <2>3. UNCHANGED <<vendasDoRegistro, statusDoRegistro>>
    BY <1>b DEF vendasDoRegistro, statusDoRegistro, Cadastrada
  <2>4. QED  BY <2>1, <2>2, <2>3 DEF Registro!Falhar, respostasDoRegistro
<1>c. ASSUME NEW r \in Compras, Responder(r, 409), UNCHANGED tabelas, pc[r] # "respondida",
             pedido[r] \in PedidoCompra,
             CpfCadastrado(pedido[r].cpf) \/ VinCadastrado(pedido[r].vin)
      PROVE  Registro!Recusar(r)
  <2>1. resposta[r] = Nulo
    BY <1>c DEF RegistroInv
  <2>2. respostasDoRegistro' = [respostasDoRegistro EXCEPT ![r] = 409]
    <3>1. resposta' = [resposta EXCEPT ![r] = 409]
      BY <1>c DEF Responder
    <3>2. QED  BY <3>1, RespostaNoRegistro, ZenonT(30)
  <2>3. UNCHANGED <<vendasDoRegistro, statusDoRegistro>>
    BY <1>c DEF vendasDoRegistro, statusDoRegistro, Cadastrada
  <2>4. pedido[r].cpf \in Cpfs /\ pedido[r].vin \in Vins
    BY <1>c DEF PedidoCompra
  <2>5. PICK d \in Compras :
           Cadastrada(d) /\ (clientes[d].cpf = pedido[r].cpf \/ veiculos[d] = pedido[r].vin)
    BY <1>c DEF CpfCadastrado, VinCadastrado, Cadastrada, RegistroInv, UnicidadeCpfVin
  <2>6. /\ vendasDoRegistro[d] # Nulo
        /\ vendasDoRegistro[d].cpf = pedido[r].cpf \/ vendasDoRegistro[d].vin = pedido[r].vin
    BY <2>5, <1>v
  <2>7. Registro!Conflita(pedido[r].cpf, pedido[r].vin)
    BY <2>6 DEF Registro!Conflita, Registro!Registradas
  <2>8. QED  BY <2>1, <2>2, <2>3, <2>4, <2>7 DEF Registro!Recusar, respostasDoRegistro
<1>1. ASSUME NEW r \in Compras, ExistsByCpf(r)  PROVE [Registro!Next]_(Registro!vars)
  <2>1. pedido[r] \in PedidoCompra
    BY <1>1 DEF ExistsByCpf
  <2>2. QED  BY <1>1, <1>a, <1>c, <2>1 DEF ExistsByCpf, Seguir, Registro!Next
<1>2. ASSUME NEW r \in Compras, ExistsByVin(r)  PROVE [Registro!Next]_(Registro!vars)
  <2>1. pedido[r] \in PedidoCompra
    BY <1>2 DEF ExistsByVin
  <2>2. QED  BY <1>2, <1>a, <1>c, <2>1 DEF ExistsByVin, Seguir, Registro!Next
<1>3. ASSUME NEW r \in Compras, CommitCompra(r)  PROVE [Registro!Next]_(Registro!vars)
  <2>1. CASE ViolaUnicidade(pedido[r])
    BY <1>3, <1>b, <2>1 DEF CommitCompra, Registro!Next
  <2>2. CASE ~ ViolaUnicidade(pedido[r])
    <3> DEFINE v == [cpf |-> pedido[r].cpf, vin |-> pedido[r].vin, perfil |-> resultado[r].perfil]
    <3>1. /\ pc[r] = "commit"
          /\ pedido[r] \in PedidoCompra /\ resultado[r] \in Resultado
      BY <1>3 DEF CommitCompra, Classificada
    <3>2. v \in Registro!Venda
      BY <3>1 DEF PedidoCompra, Resultado, Perfis, Registro!Venda, Registro!Perfis
    <3>3. ~ Registro!Conflita(v.cpf, v.vin)
      BY <2>2, <1>v DEF ViolaUnicidade, CpfCadastrado, VinCadastrado, Registro!Conflita,
                        Registro!Registradas, Cadastrada, RegistroInv, UnicidadeCpfVin
    <3>4. /\ clientes' = [clientes EXCEPT ![r] = [cpf |-> pedido[r].cpf, perfil |-> resultado[r].perfil,
                                                  score |-> resultado[r].score]]
          /\ veiculos' = [veiculos EXCEPT ![r] = pedido[r].vin]
          /\ leads' = [leads EXCEPT ![r] = IF resultado[r].perfil \in PERFIS_GERAM_LEAD
                                           THEN LeadNovo(r) ELSE Nulo]
          /\ resposta' = [resposta EXCEPT ![r] = 201]
      BY <1>3, <2>2 DEF CommitCompra, Responder
    <3>5. clientes'[r] # Nulo
      <4>1. clientes'[r] \in Cliente
        BY <3>1, <3>4 DEF Cliente, PedidoCompra, Resultado
      <4>2. QED  BY <4>1
    <3>6. vendasDoRegistro' = [vendasDoRegistro EXCEPT ![r] = v]
      <4>1. \A c \in Compras : vendasDoRegistro'[c] = IF c = r THEN v ELSE vendasDoRegistro[c]
        <5>1. vendasDoRegistro'[r] = v
          BY <3>4, <3>5 DEF vendasDoRegistro, Cadastrada
        <5>2. \A c \in Compras \ {r} : vendasDoRegistro'[c] = vendasDoRegistro[c]
          BY <3>4 DEF vendasDoRegistro, Cadastrada
        <5>3. QED  BY <5>1, <5>2
      <4>2. /\ vendasDoRegistro = [c \in Compras |-> vendasDoRegistro[c]]
            /\ vendasDoRegistro' = [c \in Compras |-> vendasDoRegistro'[c]]
        BY DEF vendasDoRegistro
      <4> HIDE DEF v
      <4>3. QED  BY <4>1, <4>2, Sobrescrita
    <3>7. statusDoRegistro' = [statusDoRegistro EXCEPT ![r] = IF Registro!GeraLead(v.perfil)
                                                              THEN "ABERTO" ELSE Nulo]
      <4>1. LeadNovo(r).status = "ABERTO" /\ LeadNovo(r) \in Lead
        BY <3>1, PrioridadeTipo DEF LeadNovo, Lead, Resultado, StatusLead, Observacoes
      <4>2. LeadNovo(r) # Nulo
        BY <4>1
      <4>3. QED  BY <3>4, <4>1, <4>2, ZenonT(30) DEF statusDoRegistro, Registro!GeraLead, PERFIS_GERAM_LEAD
    <3>8. resposta[r] = Nulo
      BY <3>1 DEF RegistroInv
    <3>9. respostasDoRegistro[r] = Nulo /\ respostasDoRegistro' = [respostasDoRegistro EXCEPT ![r] = 201]
      <4>1. resposta' = [resposta EXCEPT ![r] = 201] /\ resposta[r] = Nulo
        BY <3>4, <3>8
      <4>2. respostasDoRegistro' = [respostasDoRegistro EXCEPT ![r] = 201]
        BY <4>1, RespostaNoRegistro, ZenonT(30)
      <4>3. QED  BY <4>1, <4>2 DEF respostasDoRegistro
    <3> HIDE DEF v
    <3>10. Registro!Registrar(r)
      BY <3>2, <3>3, <3>6, <3>7, <3>9, ZenonT(30) DEF Registro!Registrar
    <3>11. QED  BY <3>10 DEF Registro!Next
  <2>3. QED  BY <2>1, <2>2
<1>4. ASSUME NEW r \in Patches, CommitPatch(r)  PROVE [Registro!Next]_(Registro!vars)
  <2> DEFINE l == pedido[r].lead
  <2>1. /\ leads' = [leads EXCEPT ![l] = copia[r]] /\ UNCHANGED <<clientes, veiculos>>
        /\ resposta' = [resposta EXCEPT ![r] = 200]
        /\ l \in Compras /\ leads[l] # Nulo /\ copia[r] \in Lead /\ copia[r] # Nulo
    BY <1>4 DEF CommitPatch, Responder, Carregada, LeadInv, PedidoPatch
  <2>2. copia[r].status \in StatusLead
    BY <2>1 DEF Lead
  <2> HIDE DEF l
  <2>3. /\ statusDoRegistro[l] # Nulo
        /\ statusDoRegistro' = [statusDoRegistro EXCEPT ![l] = copia[r].status]
    <3>1. statusDoRegistro[l] = leads[l].status /\ leads[l].status \in StatusLead
      BY <2>1, <1>g DEF statusDoRegistro
    <3>2. \A c \in Compras :
             statusDoRegistro'[c] = IF c = l THEN copia[r].status ELSE statusDoRegistro[c]
      BY <2>1 DEF statusDoRegistro
    <3>3. statusDoRegistro' = [statusDoRegistro EXCEPT ![l] = copia[r].status]
      <4>1. /\ statusDoRegistro = [c \in Compras |-> statusDoRegistro[c]]
            /\ statusDoRegistro' = [c \in Compras |-> statusDoRegistro'[c]]
        BY DEF statusDoRegistro
      <4>2. l \in Compras
        BY <2>1
      <4>3. QED  BY <3>2, <4>1, <4>2, Sobrescrita
    <3>4. QED  BY <3>1, <3>3
  <2>4. UNCHANGED <<vendasDoRegistro, respostasDoRegistro>>
    BY <2>1 DEF vendasDoRegistro, respostasDoRegistro, Cadastrada
  <2>5. Registro!MudarStatus(l)
    <3>1. copia[r].status \in Registro!StatusLead
      BY <2>2 DEF StatusLead, Registro!StatusLead
    <3>2. QED  BY <3>1, <2>3, <2>4, ZenonT(30) DEF Registro!MudarStatus
  <2>6. QED  BY <2>1, <2>5 DEF Registro!Next
<1>5. ASSUME NEW r \in Requisicoes, EsgotarEspera(r)  PROVE [Registro!Next]_(Registro!vars)
  <2>1. CASE r \in Compras
    BY <1>5, <2>1, <1>b DEF EsgotarEspera, AguardaConexao, FasesAuditoria, Registro!Next
  <2>2. CASE r \in Patches
    BY <1>5, <2>2, <1>a DEF EsgotarEspera, Responder
  <2>3. QED  BY <2>1, <2>2
<1>6. ASSUME NEW r \in Patches, FindByIdWithDetails(r)  PROVE [Registro!Next]_(Registro!vars)
  BY <1>6, <1>a DEF FindByIdWithDetails, Seguir, Responder
<1>7. CASE UNCHANGED vars
  BY <1>7, <1>a DEF vars
<1>8. QED
  BY <1>1, <1>2, <1>3, <1>4, <1>5, <1>6, <1>7, <1>a, PassosDeNext, ZenonT(30)
     DEF ReceberCompra, ReceberPatch, Classificar, AbrirTransacao, AbrirAuditoria, GravarAuditoria, Seguir

\* Seen by its callers, the Core is the atomic registry: interleaved transactions,
\* the second connection and the lost races leave nothing half done.
THEOREM CoreImplementaRegistro == Spec => RefinaRegistro
<1>1. Spec => []IInv /\ [][Next]_vars
  BY Indutivo, PTL DEF Spec
<1>2. Init => Registro!Init
  BY RefinaInit
<1>3. QED  BY <1>1, <1>2, RefinaStep, PTL DEF Spec, RefinaRegistro, Registro!Spec
=============================================================================
