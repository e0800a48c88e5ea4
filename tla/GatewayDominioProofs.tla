------------------------ MODULE GatewayDominioProofs ------------------------
(***************************************************************************)
(* Proofs about GatewayDominio for any set of requests, clientes, jobs,    *)
(* readers and restarts, any digests, bodies and scenarios.                *)
(***************************************************************************)
EXTENDS GatewayBaseProofs, FiniteSetTheorems

\* The row of a cliente once job j anonymised it.
AnonimoDe(i, j) ==
    [cpf |-> pseudonymize(i), cpf_hash |-> pseudonymize(i), contato |-> {},
     anonimizado_em |-> j, perfil |-> classificar(DigestDe[i]).perfil,
     score |-> classificar(DigestDe[i]).score]

Anonima(i) == \E j \in Jobs : clientes[i] = AnonimoDe(i, j)

PedidoInv ==
    /\ pedido = [r \in Reqs |-> [fase |-> pedido[r].fase, resposta |-> pedido[r].resposta,
                                 lido |-> pedido[r].lido]]
    /\ \A r \in Reqs : pedido[r].fase \notin {"enviar", "fim"} => pedido[r].resposta = Nulo

JobInv ==
    /\ job = [j \in Jobs |-> [fase |-> job[j].fase, fila |-> job[j].fila,
                              feitos |-> job[j].feitos]]
    /\ \A j \in Jobs : job[j].fila \in Seq(Vencidos) /\ job[j].feitos \in 0..Len(job[j].fila)

\* A cliente is as it was registered or as anonymisation left it, whole; the leads are those of
\* the clientes at risk and keep their score.
LinhaInv ==
    /\ clientes = [i \in Ids |-> clientes[i]]
    /\ \A i \in Ids : clientes[i] = Nulo \/ clientes[i] = ClienteNovo(i) \/ Anonima(i)
    /\ \A i \in Antigos : clientes[i] # Nulo
    /\ \A c \in Compras : pedido[c].fase \notin {"enviar", "fim"} => clientes[c] = Nulo

LeadInv ==
    /\ leads \in [Ids -> Lead \cup {Nulo}]
    /\ \A i \in Ids : leads[i] # Nulo <=> clientes[i] # Nulo /\ GeraLead(i)
    /\ \A i \in Ids : leads[i] # Nulo => leads[i].score = LeadNovo(i).score
    /\ \A p \in Patches : pedido[p].fase \in {"atualizar", "commit_patch"} => leads[LeadDe[p]] # Nulo

Preenchida(c) == pedido[c].fase \in {"inserir_veiculo", "commit"}

\* Beyond its INSERTs a purchase owns its keys, against what is committed and what is not.
ChaveInv ==
    /\ UnicidadeCpfVin
    /\ \A c \in Compras : Preenchida(c) =>
          ~ CpfGravado(c) /\ \A d \in Compras \ {c} : Preenchida(d) => CpfDe[d] # CpfDe[c]
    /\ \A c \in Compras : pedido[c].fase = "commit" =>
          /\ ~ VinGravado(c)
          /\ \A d \in Compras \ {c} : pedido[d].fase = "commit" => VinDe[d] # VinDe[c]

-----------------------------------------------------------------------------
(* The rows *)

\* What the stub answers for the features of a cliente fits the columns.
LEMMA Classificacao ==
  ASSUME NEW i \in Ids
  PROVE  classificar(DigestDe[i]) \in [perfil : Perfis, score : 0..1000]
<1>1. classificar(DigestDe[i]) \in [perfil : Perfis, score : 100..1000]
  BY ClassificarTipo, ConstantesDominio DEF Digest
<1>2. QED  BY <1>1

LEMMA LinhasValidas ==
  ASSUME NEW i \in Ids
  PROVE  /\ ClienteNovo(i) \in Linha /\ ClienteNovo(i) # Nulo
         /\ \A j \in Jobs : AnonimoDe(i, j) \in Linha /\ AnonimoDe(i, j) # Nulo
<1> DEFINE r == classificar(DigestDe[i])
<1>1. r.perfil \in Perfis /\ r.score \in 0..1000
  BY Classificacao
<1>2. ClienteNovo(i) = [cpf |-> CpfDe[i], cpf_hash |-> CpfDe[i], contato |-> ContatoDe[i],
                        anonimizado_em |-> Nulo, perfil |-> r.perfil, score |-> r.score]
  BY DEF ClienteNovo
<1>3. \A j : AnonimoDe(i, j) =
        [cpf |-> pseudonymize(i), cpf_hash |-> pseudonymize(i), contato |-> {},
         anonimizado_em |-> j, perfil |-> r.perfil, score |-> r.score]
  BY DEF AnonimoDe
<1>4. /\ CpfDe[i] \in Identidade /\ pseudonymize(i) \in Identidade
      /\ ContatoDe[i] \in SUBSET {"email", "telefone"} /\ {} \in SUBSET {"email", "telefone"}
  BY ConstantesDominio DEF Identidade
<1> HIDE DEF r
<1>5. ClienteNovo(i) \in Linha
  <2>1. [cpf |-> CpfDe[i], cpf_hash |-> CpfDe[i], contato |-> ContatoDe[i],
         anonimizado_em |-> Nulo, perfil |-> r.perfil, score |-> r.score] \in Linha
    BY <1>1, <1>4 DEF Linha
  <2>2. QED  BY <1>2, <2>1, Zenon
<1>6. \A j \in Jobs : AnonimoDe(i, j) \in Linha
  <2>1. ASSUME NEW j \in Jobs
        PROVE  [cpf |-> pseudonymize(i), cpf_hash |-> pseudonymize(i), contato |-> {},
                anonimizado_em |-> j, perfil |-> r.perfil, score |-> r.score] \in Linha
    BY <1>1, <1>4 DEF Linha
  <2>2. QED  BY <1>3, <2>1, Zenon
<1>7. QED  BY <1>5, <1>6, NuloDominio

\* A lead is a record of four columns.
Observacoes == {CorpoDe[p].observacao : p \in Patches} \cup {Nulo}

LEMMA LeadRegistro ==
  Lead = [score : 0..1000, prioridade : Prioridades, status : Status, observacao : Observacoes]
  BY Zenon DEF Lead, Observacoes

\* What it holds in them, the observation aside.
LEMMA LeadColunas ==
  ASSUME NEW l \in Lead
  PROVE  /\ DOMAIN l = {"score", "prioridade", "status", "observacao"}
         /\ l.score \in 0..1000 /\ l.prioridade \in Prioridades
  BY LeadRegistro

LEMMA LeadValido ==
  ASSUME NEW i \in Ids
  PROVE  LeadNovo(i) \in Lead /\ LeadNovo(i) # Nulo
<1> DEFINE s == classificar(DigestDe[i]).score
<1>1. s \in 0..1000
  BY Classificacao
<1>2. derivar_prioridade(s) \in Prioridades
  BY <1>1 DEF derivar_prioridade, Prioridades
<1>3. LeadNovo(i) = [score |-> s, prioridade |-> derivar_prioridade(s), status |-> "aberto",
                     observacao |-> Nulo]
  BY DEF LeadNovo
<1>4. Nulo \in Observacoes
  BY DEF Observacoes
<1>5. "aberto" \in Status
  BY DEF Status
<1> DEFINE d == derivar_prioridade(s)
<1> HIDE DEF s, d
<1>6. [score |-> s, prioridade |-> d, status |-> "aberto", observacao |-> Nulo] \in Lead
  BY <1>1, <1>2, <1>4, <1>5, LeadRegistro DEF d
<1>7. QED  BY <1>3, <1>6, NuloDominio DEF s, d

-----------------------------------------------------------------------------
(* The ways in which a request moves *)

\* Nobody's record changes but that of r.
MudaSo(r) ==
    /\ pedido' = [s \in Reqs |-> [fase |-> pedido'[s].fase, resposta |-> pedido'[s].resposta,
                                  lido |-> pedido'[s].lido]]
    /\ \A s \in Reqs \ {r} : pedido'[s] = pedido[s]

dominio == <<clientes, leads, trilha, job>>

LEMMA SeguirMuda ==
  ASSUME PedidoInv, NEW r \in Reqs, NEW f, Seguir(r, f)
  PROVE  /\ MudaSo(r) /\ pedido'[r].lido = pedido[r].lido
         /\ pedido'[r].fase = f /\ pedido'[r].resposta = pedido[r].resposta
  BY DEF PedidoInv, Seguir, MudaSo

\* The record of r ends with that step and that status.
Levar(r, f, codigo) == pedido' = [pedido EXCEPT ![r].fase = f, ![r].resposta = codigo]

LEMMA TerminarMuda ==
  ASSUME PedidoInv, NEW r \in Reqs, NEW f, NEW codigo, Levar(r, f, codigo)
  PROVE  /\ MudaSo(r) /\ pedido'[r].lido = pedido[r].lido
         /\ pedido'[r].fase = f /\ pedido'[r].resposta = codigo
<1> DEFINE F == {pedido[s].fase : s \in Reqs} \cup {f}
           A == {pedido[s].resposta : s \in Reqs} \cup {codigo}
           L == {pedido[s].lido : s \in Reqs}
<1>1. pedido \in [Reqs -> [fase : F, resposta : A, lido : L]]
  BY DEF PedidoInv
<1>2. f \in F /\ codigo \in A
  OBVIOUS
<1> HIDE DEF F, A, L
<1>3. pedido' \in [Reqs -> [fase : F, resposta : A, lido : L]]
  BY <1>1, <1>2 DEF Levar
<1>4. /\ pedido'[r].fase = f /\ pedido'[r].resposta = codigo
      /\ pedido'[r].lido = pedido[r].lido
      /\ \A s \in Reqs \ {r} : pedido'[s] = pedido[s]
  BY <1>1, <1>2 DEF Levar
<1>5. pedido' = [s \in Reqs |-> [fase |-> pedido'[s].fase, resposta |-> pedido'[s].resposta,
                                lido |-> pedido'[s].lido]]
  <2>1. pedido' = [s \in Reqs |-> pedido'[s]]
    BY <1>3
  <2>2. \A s \in Reqs : pedido'[s] = [fase |-> pedido'[s].fase, resposta |-> pedido'[s].resposta,
                                     lido |-> pedido'[s].lido]
    BY <1>3
  <2>3. QED  BY <2>1, <2>2
<1>6. QED  BY <1>4, <1>5, Zenon DEF MudaSo

LEMMA ResponderMuda ==
  ASSUME PedidoInv, NEW r \in Reqs, NEW codigo, Responder(r, codigo)
  PROVE  /\ MudaSo(r) /\ pedido'[r].lido = pedido[r].lido
         /\ pedido'[r].fase = "enviar" /\ pedido'[r].resposta = codigo
<1>1. Levar(r, "enviar", codigo)
  BY DEF Responder, Levar
<1>2. QED  BY <1>1, TerminarMuda, Zenon

\* The door answers 401, 403 or 422, or lets the request in.
LEMMA Codigos ==
  ASSUME NEW r \in Reqs, NEW p \in Portas
  PROVE  CodigoDaPorta(r, p) \in {0, 401, 403, 422}
  BY DEF CodigoDaPorta

LEMMA PrimeirasFases ==
  ASSUME NEW r \in Reqs
  PROVE  PrimeiraFase(r) = IF r \in Compras THEN "cpf" ELSE IF r \in Patches THEN "carregar"
                           ELSE IF r \in Detalhes THEN "obter" ELSE "trilha"
  BY ConstantesDominio DEF PrimeiraFase, Reqs

LEMMA PassoReceber ==
  ASSUME PedidoInv, NEW r \in Reqs, Receber(r)
  PROVE  /\ MudaSo(r) /\ UNCHANGED <<clientes, leads, job>>
         /\ pedido[r].fase = "novo" /\ pedido'[r].lido = pedido[r].lido
         /\ \/ /\ pedido'[r].resposta = pedido[r].resposta /\ UNCHANGED trilha
               /\ pedido'[r].fase = PrimeiraFase(r)
            \/ /\ pedido'[r].fase = "fim" /\ pedido'[r].resposta \in {401, 403, 422}
               /\ \/ UNCHANGED trilha
                  \/ /\ trilha' = trilha \cup {Evento("FORBIDDEN_ACCESS", r, Nulo, Nulo)}
                     /\ pedido'[r].resposta = 403
<1>1. PICK codigo \in {0, 401, 403, 422} :
         /\ IF codigo = 0
            THEN Seguir(r, PrimeiraFase(r))
            ELSE pedido' = [pedido EXCEPT ![r].fase = "fim", ![r].resposta = codigo]
         /\ \/ codigo = 403 /\ trilha' = trilha \cup {Evento("FORBIDDEN_ACCESS", r, Nulo, Nulo)}
            \/ UNCHANGED trilha
  BY Codigos DEF Receber
<1>2. UNCHANGED <<clientes, leads, job>> /\ pedido[r].fase = "novo"
  BY DEF Receber
<1>3. CASE codigo = 0
  BY <1>1, <1>2, <1>3, SeguirMuda
<1>4. CASE codigo # 0
  <2>1. Levar(r, "fim", codigo)
    BY <1>1, <1>4 DEF Levar
  <2>2. /\ MudaSo(r) /\ pedido'[r].lido = pedido[r].lido
        /\ pedido'[r].fase = "fim" /\ pedido'[r].resposta = codigo
    BY <2>1, TerminarMuda
  <2>3. QED  BY <1>1, <1>2, <1>4, <2>2
<1>5. QED  BY <1>3, <1>4

\* Beyond its first INSERT a purchase has found its CPF free and undisputed, beyond the second
\* its VIN.
LEMMA PassoInstrucao ==
  ASSUME PedidoInv, NEW c \in Compras,
         SelectCpf(c) \/ SelectVin(c) \/ FlushCliente(c) \/ FlushVeiculo(c)
  PROVE  /\ MudaSo(c) /\ UNCHANGED dominio
         /\ pedido[c].fase \notin {"enviar", "fim"} /\ pedido'[c].lido = pedido[c].lido
         /\ \/ /\ pedido'[c].fase = "enviar" /\ pedido'[c].resposta = 409
               /\ CpfGravado(c) \/ VinGravado(c)
            \/ /\ pedido'[c].resposta = pedido[c].resposta
               /\ \/ pedido'[c].fase \in {"vin", "inserir_cliente"}
                  \/ /\ pedido'[c].fase = "inserir_veiculo"
                     /\ ~ CpfGravado(c) /\ ~ CpfEmDisputa(c)
                  \/ /\ pedido[c].fase = "inserir_veiculo" /\ pedido'[c].fase = "commit"
                     /\ ~ VinGravado(c) /\ ~ VinEmDisputa(c)
<1>0. c \in Reqs
  BY DEF Reqs
<1>1. \A fase, tomado, proxima : Instrucao(c, fase, tomado, proxima) =>
         /\ UNCHANGED dominio /\ pedido[c].fase = fase
         /\ IF tomado THEN Responder(c, 409) ELSE Seguir(c, proxima)
  BY DEF Instrucao, tabelas, dominio
<1>2. Responder(c, 409) => /\ MudaSo(c) /\ pedido'[c].lido = pedido[c].lido
                           /\ pedido'[c].fase = "enviar" /\ pedido'[c].resposta = 409
  BY <1>0, ResponderMuda
<1>3. \A f : Seguir(c, f) => /\ MudaSo(c) /\ pedido'[c].lido = pedido[c].lido
                             /\ pedido'[c].fase = f /\ pedido'[c].resposta = pedido[c].resposta
  BY <1>0, SeguirMuda
<1>4. CASE SelectCpf(c)
  <2>1. IF CpfGravado(c) THEN Responder(c, 409) ELSE Seguir(c, "vin")
    BY <1>1, <1>4 DEF SelectCpf
  <2>2. UNCHANGED dominio /\ pedido[c].fase = "cpf"
    BY <1>1, <1>4 DEF SelectCpf
  <2>3. QED  BY <1>2, <1>3, <2>1, <2>2
<1>5. CASE SelectVin(c)
  <2>1. IF VinGravado(c) THEN Responder(c, 409) ELSE Seguir(c, "inserir_cliente")
    BY <1>1, <1>5 DEF SelectVin
  <2>2. UNCHANGED dominio /\ pedido[c].fase = "vin"
    BY <1>1, <1>5 DEF SelectVin
  <2>3. QED  BY <1>2, <1>3, <2>1, <2>2
<1>6. CASE FlushCliente(c)
  <2>1. IF CpfGravado(c) THEN Responder(c, 409) ELSE Seguir(c, "inserir_veiculo")
    BY <1>1, <1>6 DEF FlushCliente
  <2>2. UNCHANGED dominio /\ pedido[c].fase = "inserir_cliente" /\ ~ CpfEmDisputa(c)
    BY <1>1, <1>6 DEF FlushCliente
  <2>3. QED  BY <1>2, <1>3, <2>1, <2>2
<1>7. CASE FlushVeiculo(c)
  <2>1. IF VinGravado(c) THEN Responder(c, 409) ELSE Seguir(c, "commit")
    BY <1>1, <1>7 DEF FlushVeiculo
  <2>2. UNCHANGED dominio /\ pedido[c].fase = "inserir_veiculo" /\ ~ VinEmDisputa(c)
    BY <1>1, <1>7 DEF FlushVeiculo
  <2>3. QED  BY <1>2, <1>3, <2>1, <2>2
<1>8. QED  BY <1>4, <1>5, <1>6, <1>7

\* Failing and being sent, of any request.
LEMMA PassoComum ==
  ASSUME PedidoInv, NEW r \in Reqs, Falhar(r) \/ Enviar(r)
  PROVE  /\ MudaSo(r) /\ UNCHANGED dominio
         /\ pedido[r].fase \notin {"novo", "fim"} /\ pedido'[r].lido = pedido[r].lido
         /\ \/ /\ pedido[r].fase # "enviar" /\ pedido'[r].fase = "enviar"
               /\ pedido'[r].resposta = 500
            \/ /\ pedido[r].fase = "enviar" /\ pedido'[r].fase = "fim"
               /\ pedido'[r].resposta = pedido[r].resposta
<1>1. CASE Falhar(r)
  <2>1. Responder(r, 500) /\ UNCHANGED dominio /\ pedido[r].fase \notin {"novo", "enviar", "fim"}
    BY <1>1 DEF Falhar, Executando, tabelas, dominio
  <2>2. QED  BY <2>1, ResponderMuda
<1>2. CASE Enviar(r)
  <2>1. Seguir(r, "fim") /\ UNCHANGED dominio /\ pedido[r].fase = "enviar"
    BY <1>2 DEF Enviar, tabelas, dominio
  <2>2. QED  BY <2>1, SeguirMuda
<1>3. QED  BY <1>1, <1>2

\* A patch loads the row of its lead, then flushes its UPDATE.
LEMMA PassoLeitura ==
  ASSUME PedidoInv, NEW p \in Patches, Carregar(p) \/ FlushPatch(p)
  PROVE  /\ MudaSo(p) /\ UNCHANGED dominio /\ pedido[p].fase \notin {"enviar", "fim"}
         /\ \/ /\ pedido'[p].fase = "enviar" /\ pedido'[p].resposta = 404
               /\ pedido'[p].lido = pedido[p].lido
            \/ /\ pedido'[p].resposta = pedido[p].resposta
               /\ \/ /\ pedido'[p].fase = "atualizar" /\ pedido'[p].lido = leads[LeadDe[p]]
                     /\ leads[LeadDe[p]] # Nulo
                  \/ /\ pedido[p].fase = "atualizar" /\ pedido'[p].fase = "commit_patch"
                     /\ pedido'[p].lido = pedido[p].lido
<1>0. p \in Reqs
  BY DEF Reqs
<1>1. CASE Carregar(p)
  <2> DEFINE l == leads[LeadDe[p]]
  <2>1. UNCHANGED dominio /\ pedido[p].fase = "carregar"
    BY <1>1 DEF Carregar, tabelas, dominio
  <2>2. CASE l = Nulo
    <3>1. Responder(p, 404)
      BY <1>1, <2>2 DEF Carregar
    <3>2. QED  BY <1>0, <2>1, <3>1, ResponderMuda
  <2>3. CASE l # Nulo
    <3>1. pedido' = [pedido EXCEPT ![p].fase = "atualizar", ![p].lido = l]
      BY <1>1, <2>3 DEF Carregar
    <3> HIDE DEF l
    <3> DEFINE F == {pedido[s].fase : s \in Reqs} \cup {"atualizar"}
               A == {pedido[s].resposta : s \in Reqs}
               L == {pedido[s].lido : s \in Reqs} \cup {l}
    <3>2. pedido \in [Reqs -> [fase : F, resposta : A, lido : L]] /\ "atualizar" \in F /\ l \in L
      BY DEF PedidoInv
    <3> HIDE DEF F, A, L
    <3>3. pedido' \in [Reqs -> [fase : F, resposta : A, lido : L]]
      BY <3>1, <3>2
    <3>4. /\ pedido'[p].fase = "atualizar" /\ pedido'[p].resposta = pedido[p].resposta
          /\ pedido'[p].lido = l
          /\ \A s \in Reqs \ {p} : pedido'[s] = pedido[s]
      BY <1>0, <3>1, <3>2
    <3>5. MudaSo(p)
      BY <3>3, <3>4 DEF MudaSo
    <3>6. QED  BY <2>1, <2>3, <3>4, <3>5 DEF l
  <2>4. QED  BY <2>2, <2>3
<1>2. CASE FlushPatch(p)
  <2>1. Seguir(p, "commit_patch") /\ UNCHANGED dominio /\ pedido[p].fase = "atualizar"
    BY <1>2 DEF FlushPatch, dominio
  <2>2. QED  BY <1>0, <2>1, SeguirMuda
<1>3. QED  BY <1>1, <1>2

\* Reading one lead, and one page of the trail.
LEMMA PassoDetalhe ==
  ASSUME PedidoInv, NEW d \in Detalhes, obter(d)
  PROVE  /\ MudaSo(d) /\ UNCHANGED dominio
         /\ pedido[d].fase = "obter" /\ pedido'[d].fase = "enviar"
         /\ \/ pedido'[d].resposta = 404 /\ pedido'[d].lido = pedido[d].lido
            \/ /\ pedido'[d].resposta = 200 /\ leads[LeadDe[d]] # Nulo
               /\ pedido'[d].lido = [lead |-> leads[LeadDe[d]], cliente |-> cliente_to_output(LeadDe[d])]
<1>0. d \in Reqs
  BY DEF Reqs
<1>1. UNCHANGED dominio /\ pedido[d].fase = "obter"
  BY DEF obter, tabelas, dominio
<1>2. CASE leads[LeadDe[d]] = Nulo
  <2>1. Responder(d, 404)
    BY <1>2 DEF obter
  <2>2. QED  BY <1>0, <1>1, <2>1, ResponderMuda
<1>3. CASE leads[LeadDe[d]] # Nulo
  <2> DEFINE visto == [lead |-> leads[LeadDe[d]], cliente |-> cliente_to_output(LeadDe[d])]
  <2>1. pedido' = [pedido EXCEPT ![d] = [fase |-> "enviar", resposta |-> 200, lido |-> visto]]
    BY <1>3 DEF obter
  <2> HIDE DEF visto
  <2>2. MudaSo(d) /\ pedido'[d] = [fase |-> "enviar", resposta |-> 200, lido |-> visto]
    BY <1>0, <2>1 DEF PedidoInv, MudaSo
  <2>3. QED  BY <1>1, <1>3, <2>2 DEF visto
<1>4. QED  BY <1>2, <1>3

LEMMA PassoAuditor ==
  ASSUME PedidoInv, NEW a \in Auditores, list_audit_log(a)
  PROVE  /\ MudaSo(a) /\ UNCHANGED dominio /\ pedido[a].fase = "trilha"
         /\ \/ pedido'[a].fase = "novo" /\ pedido'[a].resposta = Nulo
            \/ pedido'[a].fase = "enviar" /\ pedido'[a].resposta = 200
<1>0. a \in Reqs
  BY DEF Reqs
<1>1. UNCHANGED dominio /\ pedido[a].fase = "trilha"
  BY DEF list_audit_log, tabelas, dominio
<1>2. PICK f, k, l : /\ pedido' = [pedido EXCEPT ![a] = [fase |-> f, resposta |-> k, lido |-> l]]
                     /\ (f = "novo" /\ k = Nulo) \/ (f = "enviar" /\ k = 200)
  <2> DEFINE rows == PaginaDaTrilha(a, pedido[a].lido.page + 1)
             cheia == Cardinality(rows) = PER_PAGE
             lido == [page |-> pedido[a].lido.page + 1, vistos |-> pedido[a].lido.vistos \cup {ordem[n] : n \in rows},
                      desde |-> IF pedido[a].lido.page = 0 THEN NaConsulta(a) ELSE pedido[a].lido.desde]
  <2>1. pedido' = [pedido EXCEPT ![a] = [fase |-> IF cheia THEN "novo" ELSE "enviar",
                                         resposta |-> IF cheia THEN Nulo ELSE 200, lido |-> lido]]
    BY Zenon DEF list_audit_log
  <2> HIDE DEF cheia, lido
  <2>2. CASE cheia
    <3>1. pedido' = [pedido EXCEPT ![a] = [fase |-> "novo", resposta |-> Nulo, lido |-> lido]]
      BY <2>1, <2>2
    <3>2. QED  BY <3>1
  <2>3. CASE ~ cheia
    BY <2>1, <2>3
  <2>4. QED  BY <2>2, <2>3
<1>3. MudaSo(a) /\ pedido'[a] = [fase |-> f, resposta |-> k, lido |-> l]
  BY <1>0, <1>2 DEF PedidoInv, MudaSo
<1>4. QED  BY <1>1, <1>2, <1>3

LEMMA ParDeEventos ==
  ASSUME NEW a, NEW b
  PROVE  ToSet(<<a>> \o <<b>>) = {a, b}
<1> DEFINE s == <<a>>
           t == <<b>>
           u == s \o t
<1>1. s \in Seq({a, b}) /\ t \in Seq({a, b})
  OBVIOUS
<1>2. Len(s) = 1 /\ Len(t) = 1 /\ s[1] = a /\ t[1] = b
  OBVIOUS
<1> HIDE DEF s, t
<1> DEFINE S == {a, b}
<1> HIDE DEF S
<1>3. u \in Seq(S) /\ Len(u) = 2 /\ u[1] = a /\ u[2] = b
  <2>1. s \in Seq(S) /\ t \in Seq(S)
    BY <1>1 DEF S
  <2>2. QED  BY <1>2, <2>1, ConcatProperties
<1> HIDE DEF u
<1>4. DOMAIN u = {1, 2}
  BY <1>3
<1>5. ToSet(u) = {a, b}
  BY <1>3, <1>4 DEF ToSet
<1>6. QED  BY <1>5 DEF s, t, u

\* The events of a purchase, as a set.
LEMMA EventosDeCompra ==
  ASSUME NEW c
  PROVE  ToSet(EventosDaCompra(c)) =
           {Evento("CLIENTE_CREATED", c, c, Nulo)} \cup
           (IF GeraLead(c) THEN {Evento("LEAD_CREATED", c, c, Nulo)} ELSE {})
<1> DEFINE a == Evento("CLIENTE_CREATED", c, c, Nulo)
           b == Evento("LEAD_CREATED", c, c, Nulo)
<1> HIDE DEF a, b
<1>1. CASE GeraLead(c)
  <2>1. EventosDaCompra(c) = <<a>> \o <<b>>
    BY <1>1 DEF EventosDaCompra, a, b
  <2>2. ToSet(<<a>> \o <<b>>) = {a, b}
    BY ParDeEventos
  <2>3. QED  BY <1>1, <2>1, <2>2 DEF a, b
<1>2. CASE ~ GeraLead(c)
  <2>1. EventosDaCompra(c) = <<a>> \o << >>
    BY <1>2 DEF EventosDaCompra, a
  <2>2. <<a>> \o << >> = <<a>>
    <3>1. <<a>> \in Seq({a})
      OBVIOUS
    <3>2. QED  BY <3>1
  <2>3. ToSet(<<a>>) = {a}
    BY DEF ToSet
  <2>4. QED  BY <1>2, <2>1, <2>2, <2>3 DEF a
<1>3. QED  BY <1>1, <1>2

LEMMA PassoCommitCompra ==
  ASSUME PedidoInv, NEW c \in Compras, CommitCompra(c)
  PROVE  /\ MudaSo(c) /\ UNCHANGED job
         /\ pedido[c].fase = "commit" /\ pedido'[c].fase = "enviar"
         /\ pedido'[c].resposta \in {201, 500} /\ pedido'[c].lido = pedido[c].lido
         /\ clientes' = [clientes EXCEPT ![c] = ClienteNovo(c)]
         /\ leads' = [leads EXCEPT ![c] = IF GeraLead(c) THEN LeadNovo(c) ELSE Nulo]
         /\ trilha' = trilha \cup {Evento("CLIENTE_CREATED", c, c, Nulo)} \cup
                      (IF GeraLead(c) THEN {Evento("LEAD_CREATED", c, c, Nulo)} ELSE {})
<1>0. c \in Reqs
  BY DEF Reqs
<1>1. PICK codigo \in {201, 500} : Responder(c, codigo)
  BY DEF CommitCompra
<1>2. /\ MudaSo(c) /\ pedido'[c].fase = "enviar" /\ pedido'[c].resposta \in {201, 500}
      /\ pedido'[c].lido = pedido[c].lido
  BY <1>0, <1>1, ResponderMuda
<1>3. /\ UNCHANGED job /\ pedido[c].fase = "commit"
      /\ clientes' = [clientes EXCEPT ![c] = ClienteNovo(c)]
      /\ leads' = [leads EXCEPT ![c] = IF GeraLead(c) THEN LeadNovo(c) ELSE Nulo]
      /\ trilha' = trilha \cup ToSet(EventosDaCompra(c))
  BY DEF CommitCompra
<1> DEFINE novos == ToSet(EventosDaCompra(c))
           a == {Evento("CLIENTE_CREATED", c, c, Nulo)}
           b == IF GeraLead(c) THEN {Evento("LEAD_CREATED", c, c, Nulo)} ELSE {}
<1>4. novos = a \cup b
  BY EventosDeCompra
<1> HIDE DEF novos, a, b
<1>5. trilha' = trilha \cup a \cup b
  BY <1>3, <1>4 DEF novos
<1>6. QED  BY <1>2, <1>3, <1>5 DEF a, b

\* What the commit of a patch does beside writing the lead.
LEMMA PatchResponde ==
  ASSUME PedidoInv, NEW p \in Patches, CommitPatch(p)
  PROVE  /\ MudaSo(p) /\ UNCHANGED <<clientes, job>>
         /\ pedido[p].fase = "commit_patch" /\ pedido'[p].fase = "enviar"
         /\ pedido'[p].resposta \in {200, 500} /\ pedido'[p].lido = pedido[p].lido
         /\ trilha' = trilha \cup {EventoDoPatch(p)}
<1>0. p \in Reqs
  BY DEF Reqs
<1>1. /\ pedido[p].fase = "commit_patch" /\ UNCHANGED <<clientes, job>>
      /\ trilha' = trilha \cup {EventoDoPatch(p)}
      /\ \E codigo \in {200, 500} : Responder(p, codigo)
  BY DEF CommitPatch
<1>2. PICK codigo \in {200, 500} : Responder(p, codigo)
  BY <1>1
<1>3. /\ MudaSo(p) /\ pedido'[p].fase = "enviar" /\ pedido'[p].resposta \in {200, 500}
      /\ pedido'[p].lido = pedido[p].lido
  BY <1>0, <1>2, ResponderMuda
<1>4. QED  BY <1>1, <1>3, Zenon

\* And what it writes.
LEMMA PassoCommitPatch ==
  ASSUME PedidoInv, NEW p \in Patches, CommitPatch(p)
  PROVE  /\ MudaSo(p) /\ UNCHANGED <<clientes, job>>
         /\ pedido[p].fase = "commit_patch" /\ pedido'[p].fase = "enviar"
         /\ pedido'[p].resposta \in {200, 500} /\ pedido'[p].lido = pedido[p].lido
         /\ leads' = [leads EXCEPT ![LeadDe[p]] =
                [campo \in DOMAIN @ |-> IF campo \in Alterado(p) THEN CorpoDe[p][campo] ELSE @[campo]]]
         /\ trilha' = trilha \cup {EventoDoPatch(p)}
<1>1. leads' = [leads EXCEPT ![LeadDe[p]] =
                [campo \in DOMAIN @ |-> IF campo \in Alterado(p) THEN CorpoDe[p][campo] ELSE @[campo]]]
  BY DEF CommitPatch
<1>2. QED  BY <1>1, PatchResponde, SMTT(30)

\* A job selects, anonymises one more or gives up; nothing of it is committed.
JobAvanca(j) ==
    \/ SelectExpired(j) \/ AnonimizarCliente(j)
    \/ job[j].fase = "anonimizar" /\ AbortarJob(j)

\* Every step, by what it does to the tables, the requests and the jobs.
LEMMA PassosDeNext ==
  ASSUME [Next]_vars
  PROVE  \/ \E c \in Compras : \/ SelectCpf(c) \/ SelectVin(c) \/ FlushCliente(c) \/ FlushVeiculo(c)
                               \/ CommitCompra(c)
         \/ \E p \in Patches : Carregar(p) \/ FlushPatch(p) \/ CommitPatch(p)
         \/ \E d \in Detalhes : obter(d)
         \/ \E a \in Auditores : list_audit_log(a)
         \/ \E r \in Reqs : Receber(r) \/ Falhar(r) \/ Enviar(r)
         \/ \E l \in Leitores : Listar(l)
         \/ \E j \in Jobs : JobAvanca(j) \/ CommitJob(j)
         \/ CairGateway
         \/ UNCHANGED <<dominio, pedido>>
<1>1. CASE UNCHANGED vars
  BY <1>1 DEF vars, tabelas, dominio
<1>2. CASE Andar
  <2>1. ASSUME NEW c \in Compras, AtenderCompra(c)
        PROVE  \/ SelectCpf(c) \/ SelectVin(c) \/ FlushCliente(c) \/ FlushVeiculo(c)
               \/ CommitCompra(c) \/ Enviar(c)
    BY <2>1 DEF AtenderCompra
  <2>2. ASSUME NEW p \in Patches, AtenderPatch(p)
        PROVE  Carregar(p) \/ FlushPatch(p) \/ CommitPatch(p) \/ Enviar(p)
    BY <2>2 DEF AtenderPatch
  <2>3. ASSUME NEW l \in Leitores, AtenderGet(l)
        PROVE  Listar(l) \/ UNCHANGED <<dominio, pedido>>
    BY <2>3 DEF AtenderGet, Contar, tabelas, dominio
  <2>4. ASSUME NEW j \in Jobs, RodarJob(j)
        PROVE  JobAvanca(j) \/ CommitJob(j)
    BY <2>4 DEF RodarJob, DesfazerImpasse, EmImpasse, RestaAnonimizar, JobAvanca
  <2>5. \A d \in Detalhes : AtenderDetalhe(d) => obter(d) \/ Enviar(d)
    BY DEF AtenderDetalhe
  <2>6. \A a \in Auditores : AtenderAuditor(a) => list_audit_log(a) \/ Enviar(a)
    BY DEF AtenderAuditor
  <2>7. QED  BY <1>2, <2>1, <2>2, <2>3, <2>4, <2>5, <2>6 DEF Andar, Reqs
<1>3. ASSUME NEW l \in Leitores, ReceberGet(l) \/ FalharGet(l)
      PROVE  UNCHANGED <<dominio, pedido>>
  BY <1>3 DEF ReceberGet, FalharGet, tabelas, dominio
<1>4. ASSUME NEW j \in Jobs, SelectExpired(j) \/ FalharJob(j)
      PROVE  JobAvanca(j)
  BY <1>4 DEF FalharJob, JobAvanca
<1>5. ASSUME ArranqueGateway \/ Relogio \/ Encerrado
      PROVE  UNCHANGED <<dominio, pedido>>
  BY <1>5 DEF ArranqueGateway, Relogio, Encerrado, foraDoBoot, vars, tabelas, dominio
<1>6. ASSUME NEW c \in Comandos, ComandoGateway(c)
      PROVE  UNCHANGED <<dominio, pedido>>
  BY <1>6 DEF ComandoGateway, foraDoBoot, tabelas, dominio
<1>7. QED  BY <1>1, <1>2, <1>3, <1>4, <1>5, <1>6, Zenon DEF Next

\* Only a job writes where it stands.
LEMMA QuemMudaJob ==
  ASSUME [Next]_vars
  PROVE  UNCHANGED job \/ \E j \in Jobs : JobAvanca(j) \/ CommitJob(j)
<1>1. ASSUME NEW c \in Compras, \/ SelectCpf(c) \/ SelectVin(c) \/ FlushCliente(c) \/ FlushVeiculo(c)
                                \/ CommitCompra(c)
      PROVE  UNCHANGED job
  BY <1>1 DEF SelectCpf, SelectVin, FlushCliente, FlushVeiculo, Instrucao, CommitCompra
<1>2. ASSUME NEW p \in Patches, Carregar(p) \/ FlushPatch(p) \/ CommitPatch(p)  PROVE UNCHANGED job
  BY <1>2 DEF Carregar, FlushPatch, CommitPatch
<1>3. ASSUME NEW r, obter(r) \/ list_audit_log(r) \/ Receber(r)  PROVE UNCHANGED job
  BY <1>3 DEF obter, list_audit_log, Receber
<1>4. ASSUME NEW r, Falhar(r) \/ Enviar(r) \/ Listar(r)  PROVE UNCHANGED job
  BY <1>4 DEF Falhar, Enviar, Listar
<1>5. CairGateway => UNCHANGED job
  BY DEF CairGateway
<1>6. UNCHANGED <<dominio, pedido>> => UNCHANGED job
  BY DEF dominio
<1>7. QED  BY <1>1, <1>2, <1>3, <1>4, <1>5, <1>6, PassosDeNext, Zenon

\* The death of the process: what was under way is lost.
LEMMA PassoQueda ==
  ASSUME PedidoInv, CairGateway
  PROVE  /\ UNCHANGED dominio
         /\ pedido' = [r \in Reqs |-> [fase |-> pedido'[r].fase, resposta |-> pedido'[r].resposta,
                                       lido |-> pedido'[r].lido]]
         /\ \A r \in Reqs :
               \/ pedido'[r] = pedido[r]
               \/ /\ pedido[r].fase \notin {"novo", "fim"} /\ pedido'[r].fase = "fim"
                  /\ pedido'[r].resposta = PERDIDA /\ pedido'[r].lido = pedido[r].lido
<1>1. UNCHANGED dominio
  BY DEF CairGateway, tabelas, dominio
<1> DEFINE F == {pedido[s].fase : s \in Reqs} \cup {"fim"}
           A == {pedido[s].resposta : s \in Reqs} \cup {PERDIDA}
           L == {pedido[s].lido : s \in Reqs}
<1>2. pedido \in [Reqs -> [fase : F, resposta : A, lido : L]] /\ "fim" \in F /\ PERDIDA \in A
  BY DEF PedidoInv
<1> HIDE DEF F, A, L
<1>3. pedido' = [r \in Reqs |-> IF pedido[r].fase \in {"novo", "fim"} THEN pedido[r]
                               ELSE [pedido[r] EXCEPT !.fase = "fim", !.resposta = PERDIDA]]
  BY DEF CairGateway
<1>4. pedido' \in [Reqs -> [fase : F, resposta : A, lido : L]]
  BY <1>2, <1>3
<1>5. \A r \in Reqs : pedido'[r] = [fase |-> pedido'[r].fase, resposta |-> pedido'[r].resposta,
                                   lido |-> pedido'[r].lido]
  BY <1>4
<1>6. pedido' = [r \in Reqs |-> pedido'[r]]
  BY <1>4
<1>7. \A r \in Reqs : \/ pedido'[r] = pedido[r]
                      \/ /\ pedido[r].fase \notin {"novo", "fim"} /\ pedido'[r].fase = "fim"
                         /\ pedido'[r].resposta = PERDIDA /\ pedido'[r].lido = pedido[r].lido
  BY <1>2, <1>3
<1>8. QED  BY <1>1, <1>5, <1>6, <1>7

-----------------------------------------------------------------------------
(* Requests and jobs *)

LEMMA PedidoInit == Init => PedidoInv
<1> SUFFICES ASSUME Init  PROVE PedidoInv
  OBVIOUS
<1> DEFINE vazio(r) == IF r \in Auditores THEN [page |-> 0, vistos |-> {}, desde |-> {}] ELSE Nulo
<1>1. pedido = [r \in Reqs |-> [fase |-> "novo", resposta |-> Nulo, lido |-> vazio(r)]]
  BY DEF Init
<1> HIDE DEF vazio
<1>2. QED  BY <1>1 DEF PedidoInv

\* A request has no answer until it is ready to be sent.
LEMMA PedidoStep == PedidoInv /\ [Next]_vars => PedidoInv'
<1> SUFFICES ASSUME PedidoInv, [Next]_vars  PROVE PedidoInv'
  OBVIOUS
<1>a. ASSUME NEW r \in Reqs, MudaSo(r),
             pedido'[r].fase \notin {"enviar", "fim"} => pedido'[r].resposta = Nulo
      PROVE  PedidoInv'
  BY <1>a DEF PedidoInv, MudaSo
<1>b. ASSUME UNCHANGED pedido  PROVE PedidoInv'
  BY <1>b DEF PedidoInv
<1>0. /\ \A r \in Compras \cup Patches \cup Detalhes \cup Auditores : r \in Reqs
      /\ \A r \in Reqs : pedido[r].fase \notin {"enviar", "fim"} => pedido[r].resposta = Nulo
  BY DEF Reqs, PedidoInv
<1>1. ASSUME NEW c \in Compras,
             SelectCpf(c) \/ SelectVin(c) \/ FlushCliente(c) \/ FlushVeiculo(c)
      PROVE  PedidoInv'
  BY <1>1, <1>a, <1>0, PassoInstrucao
<1>2. ASSUME NEW c \in Compras, CommitCompra(c)  PROVE PedidoInv'
  BY <1>2, <1>a, <1>0, PassoCommitCompra
<1>3. ASSUME NEW p \in Patches, Carregar(p) \/ FlushPatch(p)  PROVE PedidoInv'
  BY <1>3, <1>a, <1>0, PassoLeitura
<1>4. ASSUME NEW p \in Patches, CommitPatch(p)  PROVE PedidoInv'
  BY <1>4, <1>a, <1>0, PatchResponde
<1>5. ASSUME NEW d \in Detalhes, obter(d)  PROVE PedidoInv'
  BY <1>5, <1>a, <1>0, PassoDetalhe
<1>6. ASSUME NEW a \in Auditores, list_audit_log(a)  PROVE PedidoInv'
  BY <1>6, <1>a, <1>0, PassoAuditor
<1>7. ASSUME NEW r \in Reqs, Receber(r)  PROVE PedidoInv'
  BY <1>7, <1>a, <1>0, PassoReceber
<1>8. ASSUME NEW r \in Reqs, Falhar(r) \/ Enviar(r)  PROVE PedidoInv'
  BY <1>8, <1>a, <1>0, PassoComum
<1>9. ASSUME NEW l \in Leitores, Listar(l)  PROVE PedidoInv'
  BY <1>9, <1>b DEF Listar
<1>10. ASSUME NEW j \in Jobs, JobAvanca(j) \/ CommitJob(j)  PROVE PedidoInv'
  BY <1>10, <1>b DEF JobAvanca, SelectExpired, AnonimizarCliente, AbortarJob, CommitJob
<1>11. CASE CairGateway
  BY <1>11, <1>0, PassoQueda DEF PedidoInv
<1>12. QED
  BY <1>1, <1>2, <1>3, <1>4, <1>5, <1>6, <1>7, <1>8, <1>9, <1>10, <1>11, <1>b, PassosDeNext

LEMMA JobInit == Init => JobInv
<1> SUFFICES ASSUME Init  PROVE JobInv
  OBVIOUS
<1>1. job = [j \in Jobs |-> [fase |-> "novo", fila |-> <<>>, feitos |-> 0]]
  BY DEF Init
<1>2. <<>> \in Seq(Vencidos) /\ 0 \in 0..Len(<<>>)
  OBVIOUS
<1> DEFINE vazia == <<>>
<1> HIDE DEF vazia
<1>3. /\ job = [j \in Jobs |-> [fase |-> "novo", fila |-> vazia, feitos |-> 0]]
      /\ vazia \in Seq(Vencidos) /\ 0 \in 0..Len(vazia)
  BY <1>1, <1>2 DEF vazia
<1>4. QED  BY <1>3 DEF JobInv

\* The rows of a job are of the expired ones, in a queue of their number.
LEMMA JobStep == JobInv /\ [Next]_vars => JobInv'
<1> SUFFICES ASSUME JobInv, [Next]_vars  PROVE JobInv'
  OBVIOUS
<1>b. ASSUME UNCHANGED job  PROVE JobInv'
  BY <1>b DEF JobInv
<1>c. ASSUME NEW j \in Jobs, NEW f, NEW s \in Seq(Vencidos), NEW n \in 0..Len(s),
             job' = [job EXCEPT ![j] = [fase |-> f, fila |-> s, feitos |-> n]]
      PROVE  JobInv'
  BY <1>c DEF JobInv
<1> DEFINE F == {job[j].fase : j \in Jobs} \cup {"fim"}
<1>0. job \in [Jobs -> [fase : F, fila : Seq(Vencidos), feitos : Nat]] /\ "fim" \in F
  BY DEF JobInv
<1> HIDE DEF F
<1>t. ASSUME job' \in [Jobs -> [fase : F, fila : Seq(Vencidos), feitos : Nat]],
             \A j \in Jobs : job'[j].feitos <= Len(job'[j].fila)
      PROVE  JobInv'
  <2>1. job' = [j \in Jobs |-> job'[j]]
    BY <1>t
  <2>2. \A j \in Jobs : job'[j] = [fase |-> job'[j].fase, fila |-> job'[j].fila, feitos |-> job'[j].feitos]
    BY <1>t
  <2>3. \A j \in Jobs : job'[j].fila \in Seq(Vencidos) /\ job'[j].feitos \in 0..Len(job'[j].fila)
    BY <1>t
  <2>4. QED  BY <2>1, <2>2, <2>3 DEF JobInv
<1>d. ASSUME NEW j \in Jobs, job' = [job EXCEPT ![j].fase = "fim"]  PROVE JobInv'
  <2>1. job' \in [Jobs -> [fase : F, fila : Seq(Vencidos), feitos : Nat]]
    BY <1>0, <1>d
  <2>2. \A k \in Jobs : job'[k].fila = job[k].fila /\ job'[k].feitos = job[k].feitos
    BY <1>0, <1>d
  <2>3. QED  BY <1>t, <2>1, <2>2 DEF JobInv
<1>1. ASSUME NEW j \in Jobs, SelectExpired(j)  PROVE JobInv'
  <2> DEFINE expired == {i \in Vencidos : clientes[i] # Nulo /\ clientes[i].anonimizado_em = Nulo}
  <2>1. CASE job' = [job EXCEPT ![j].fase = "fim"]
    BY <2>1, <1>d
  <2>2. ASSUME NEW fila \in Bijection(1..Cardinality(expired), expired),
               job' = [job EXCEPT ![j] = [fase |-> "anonimizar", fila |-> fila, feitos |-> 0]]
        PROVE  JobInv'
    <3>1. expired \subseteq Vencidos /\ IsFiniteSet(expired)
      BY ChavesDosClientes, ConstantesDominio, FS_Subset
    <3> HIDE DEF expired
    <3>2. Cardinality(expired) \in Nat
      BY <3>1, FS_CardinalityType
    <3>3. fila \in [1..Cardinality(expired) -> Vencidos]
      BY <3>1 DEF Bijection, Injection
    <3>4. fila \in Seq(Vencidos)
      BY <3>2, <3>3
    <3>5. 0 \in 0..Len(fila)
      BY <3>4
    <3>6. QED  BY <1>c, <2>2, <3>4, <3>5
  <2>3. QED  BY <1>1, <2>1, <2>2 DEF SelectExpired
<1>2. ASSUME NEW j \in Jobs, AnonimizarCliente(j)  PROVE JobInv'
  <2> DEFINE n == job[j].feitos + 1
  <2>1. job' = [job EXCEPT ![j].feitos = n] /\ job[j].feitos < Len(job[j].fila)
    BY <1>2 DEF AnonimizarCliente, RestaAnonimizar
  <2>2. n \in Nat /\ n <= Len(job[j].fila)
    BY <1>0, <2>1
  <2> HIDE DEF n
  <2>3. job' \in [Jobs -> [fase : F, fila : Seq(Vencidos), feitos : Nat]]
    BY <1>0, <2>1, <2>2
  <2>4. /\ \A k \in Jobs : job'[k].fila = job[k].fila
        /\ \A k \in Jobs \ {j} : job'[k].feitos = job[k].feitos
        /\ job'[j].feitos = n
    BY <1>0, <2>1, <2>2
  <2>5. QED  BY <1>t, <2>2, <2>3, <2>4 DEF JobInv
<1>v. <<>> \in Seq(Vencidos) /\ 0 \in 0..Len(<<>>)
  OBVIOUS
<1>3. ASSUME NEW j \in Jobs, AbortarJob(j)  PROVE JobInv'
  <2>1. job' = [job EXCEPT ![j] = [fase |-> "erro", fila |-> <<>>, feitos |-> 0]]
    BY <1>3 DEF AbortarJob
  <2>2. QED  BY <1>c, <1>v, <2>1
<1>4. ASSUME NEW j \in Jobs, CommitJob(j)  PROVE JobInv'
  <2>1. job' = [job EXCEPT ![j] = [fase |-> "fim", fila |-> <<>>, feitos |-> 0]]
    BY <1>4 DEF CommitJob
  <2>2. QED  BY <1>c, <1>v, <2>1
<1>5. UNCHANGED job \/ \E j \in Jobs : JobAvanca(j) \/ CommitJob(j)
  BY QuemMudaJob
<1>6. QED  BY <1>1, <1>2, <1>3, <1>4, <1>5, <1>b DEF JobAvanca

LEMMA FeitosVencidos ==
  ASSUME JobInv, NEW j \in Jobs
  PROVE  feitos(j) \subseteq Vencidos
  BY DEF JobInv, feitos

-----------------------------------------------------------------------------
(* The rows of the clientes *)

LEMMA AnonimizarLinha ==
  ASSUME LinhaInv, NEW i \in Ids, clientes[i] # Nulo, NEW j
  PROVE  Anonimizado(i, j) = AnonimoDe(i, j)
<1> DEFINE r == classificar(DigestDe[i])
<1>1. ClienteNovo(i).perfil = r.perfil /\ ClienteNovo(i).score = r.score
  BY DEF ClienteNovo
<1>2. \A k : AnonimoDe(i, k).perfil = r.perfil /\ AnonimoDe(i, k).score = r.score
  BY DEF AnonimoDe
<1>3. AnonimoDe(i, j) = [cpf |-> pseudonymize(i), cpf_hash |-> pseudonymize(i), contato |-> {},
                         anonimizado_em |-> j, perfil |-> r.perfil, score |-> r.score]
  BY DEF AnonimoDe
<1> HIDE DEF r
<1>4. clientes[i].perfil = r.perfil /\ clientes[i].score = r.score
  BY <1>1, <1>2 DEF LinhaInv, Anonima
<1>5. QED  BY <1>3, <1>4, Zenon DEF Anonimizado

\* What makes a row anonymised says the same of the next state.
LEMMA AnonimaDepois ==
  ASSUME NEW i
  PROVE  /\ \A j : (AnonimoDe(i, j))' = AnonimoDe(i, j)
         /\ Anonima(i)' <=> \E j \in Jobs : clientes'[i] = AnonimoDe(i, j)
<1>1. \A j : (AnonimoDe(i, j))' = AnonimoDe(i, j)
  BY DEF AnonimoDe, pseudonymize
<1>2. QED  BY <1>1 DEF Anonima

LEMMA LinhaInit == Init => LinhaInv
<1> SUFFICES ASSUME Init  PROVE LinhaInv
  OBVIOUS
<1>1. /\ clientes = [i \in Ids |-> IF i \in Antigos THEN ClienteNovo(i) ELSE Nulo]
      /\ \A c \in Compras : c \notin Antigos
  BY ConstantesDominio DEF Init
<1>2. \A i \in Antigos : i \in Ids /\ ClienteNovo(i) # Nulo
  BY LinhasValidas DEF Ids
<1>3. QED  BY <1>1, <1>2 DEF LinhaInv, Ids

\* What a job commits: its rows are anonymised, nothing else changes.
LEMMA PassoCommitJob ==
  ASSUME JobInv, LinhaInv, NEW j \in Jobs, CommitJob(j)
  PROVE  /\ feitos(j) \subseteq Antigos /\ UNCHANGED <<leads, pedido>>
         /\ clientes' = [i \in Ids |-> IF i \in feitos(j) THEN AnonimoDe(i, j) ELSE clientes[i]]
         /\ trilha' = trilha \cup {Evento("CLIENTE_ANONYMIZED", j, i, Nulo) : i \in feitos(j)}
<1>1. feitos(j) \subseteq Antigos /\ feitos(j) \subseteq Ids
  BY FeitosVencidos, ConstantesDominio DEF Ids
<1>2. \A i \in feitos(j) : Anonimizado(i, j) = AnonimoDe(i, j)
  <2>1. \A i \in feitos(j) : i \in Ids /\ clientes[i] # Nulo
    BY <1>1 DEF LinhaInv
  <2>2. QED  BY <2>1, AnonimizarLinha
<1>3. /\ UNCHANGED <<leads, pedido>>
      /\ clientes' = [i \in Ids |-> IF i \in feitos(j) THEN Anonimizado(i, j) ELSE clientes[i]]
      /\ trilha' = trilha \cup {Evento("CLIENTE_ANONYMIZED", j, i, Nulo) : i \in feitos(j)}
  BY DEF CommitJob
<1>4. QED  BY <1>1, <1>2, <1>3

\* A row is written once, by its purchase, and once more, by a job.
LEMMA LinhaStep == PedidoInv /\ JobInv /\ LinhaInv /\ [Next]_vars => LinhaInv'
<1> SUFFICES ASSUME PedidoInv, JobInv, LinhaInv, [Next]_vars  PROVE LinhaInv'
  OBVIOUS
<1>u. \A i : Anonima(i)' <=> \E j \in Jobs : clientes'[i] = AnonimoDe(i, j)
  BY AnonimaDepois
<1>a. ASSUME NEW r \in Reqs, MudaSo(r), UNCHANGED clientes,
             r \in Compras => (pedido'[r].fase \notin {"enviar", "fim"}
                                  => pedido[r].fase \notin {"enviar", "fim"})
      PROVE  LinhaInv'
  BY <1>a, <1>u DEF LinhaInv, MudaSo, Reqs, Anonima
<1>b. ASSUME UNCHANGED <<clientes, pedido>>  PROVE LinhaInv'
  BY <1>b, <1>u DEF LinhaInv, Anonima
<1>0. /\ \A r \in Compras \cup Patches \cup Detalhes \cup Auditores : r \in Reqs
      /\ \A r \in Patches \cup Detalhes \cup Auditores : r \notin Compras
  BY ConstantesDominio DEF Reqs
<1>1. ASSUME NEW c \in Compras,
             SelectCpf(c) \/ SelectVin(c) \/ FlushCliente(c) \/ FlushVeiculo(c)
      PROVE  LinhaInv'
  BY <1>1, <1>a, <1>0, PassoInstrucao DEF dominio
<1>2. ASSUME NEW c \in Compras, CommitCompra(c)  PROVE LinhaInv'
  <2>1. /\ MudaSo(c) /\ clientes' = [clientes EXCEPT ![c] = ClienteNovo(c)]
        /\ pedido'[c].fase = "enviar"
    BY <1>2, PassoCommitCompra
  <2>2. c \in Ids /\ ClienteNovo(c) # Nulo
    BY LinhasValidas DEF Ids
  <2>3. clientes = [i \in Ids |-> clientes[i]]
    BY DEF LinhaInv
  <2>4. clientes' = [i \in Ids |-> IF i = c THEN ClienteNovo(c) ELSE clientes[i]]
    BY <2>1, <2>3
  <2>5. \A d \in Compras \ {c} : pedido'[d] = pedido[d]
    BY <2>1 DEF MudaSo, Reqs
  <2>6. \A d \in Compras : d \in Ids
    BY DEF Ids
  <2>7. \A i \in Ids : clientes'[i] = IF i = c THEN ClienteNovo(c) ELSE clientes[i]
    BY <2>4
  <2>8. clientes' = [i \in Ids |-> clientes'[i]]
    BY <2>4
  <2>9. \A i \in Antigos : i \in Ids
    BY DEF Ids
  <2>10. QED  BY <1>u, <2>1, <2>2, <2>5, <2>6, <2>7, <2>8, <2>9 DEF LinhaInv, Anonima
<1>3. ASSUME NEW p \in Patches, Carregar(p) \/ FlushPatch(p)  PROVE LinhaInv'
  BY <1>3, <1>a, <1>0, PassoLeitura DEF dominio
<1>4. ASSUME NEW p \in Patches, CommitPatch(p)  PROVE LinhaInv'
  BY <1>4, <1>a, <1>0, PatchResponde
<1>5. ASSUME NEW d \in Detalhes, obter(d)  PROVE LinhaInv'
  BY <1>5, <1>a, <1>0, PassoDetalhe DEF dominio
<1>6. ASSUME NEW a \in Auditores, list_audit_log(a)  PROVE LinhaInv'
  BY <1>6, <1>a, <1>0, PassoAuditor DEF dominio
<1>7. ASSUME NEW r \in Reqs, Receber(r)  PROVE LinhaInv'
  BY <1>7, <1>a, PassoReceber
<1>8. ASSUME NEW r \in Reqs, Falhar(r) \/ Enviar(r)  PROVE LinhaInv'
  BY <1>8, <1>a, PassoComum DEF dominio
<1>9. ASSUME NEW l \in Leitores, Listar(l)  PROVE LinhaInv'
  BY <1>9, <1>b DEF Listar
<1>10. ASSUME NEW j \in Jobs, JobAvanca(j)  PROVE LinhaInv'
  BY <1>10, <1>b DEF JobAvanca, SelectExpired, AnonimizarCliente, AbortarJob, tabelas
<1>11. ASSUME NEW j \in Jobs, CommitJob(j)  PROVE LinhaInv'
  <2>1. /\ feitos(j) \subseteq Antigos /\ UNCHANGED pedido
        /\ clientes' = [i \in Ids |-> IF i \in feitos(j) THEN AnonimoDe(i, j) ELSE clientes[i]]
    BY <1>11, PassoCommitJob
  <2>2. \A c \in Compras : c \in Ids /\ c \notin feitos(j)
    BY <2>1, ConstantesDominio DEF Ids
  <2>3. \A i \in Antigos : i \in Ids /\ AnonimoDe(i, j) # Nulo
    BY LinhasValidas DEF Ids
  <2>4. QED  BY <1>u, <2>1, <2>2, <2>3 DEF LinhaInv, Anonima
<1>12. CASE CairGateway
  BY <1>12, <1>0, <1>u, PassoQueda DEF LinhaInv, Anonima, dominio
<1>13. QED
  BY <1>1, <1>2, <1>3, <1>4, <1>5, <1>6, <1>7, <1>8, <1>9, <1>10, <1>11, <1>12, <1>b, PassosDeNext
     DEF dominio

\* A row stays, is new or gets its final form from a job that had read it.
LEMMA LinhaFica ==
  ASSUME PedidoInv, JobInv, LinhaInv, [Next]_vars, NEW i \in Ids
  PROVE  \/ clientes'[i] = clientes[i]
         \/ clientes[i] = Nulo /\ clientes'[i] = ClienteNovo(i)
         \/ \E j \in Jobs : CommitJob(j) /\ i \in feitos(j) /\ clientes'[i] = AnonimoDe(i, j)
<1>1. ASSUME NEW c \in Compras, CommitCompra(c)
      PROVE  clientes'[i] = clientes[i] \/ (clientes[i] = Nulo /\ clientes'[i] = ClienteNovo(i))
  <2>1. clientes' = [clientes EXCEPT ![c] = ClienteNovo(c)] /\ pedido[c].fase = "commit"
    BY <1>1, PassoCommitCompra
  <2>2. clientes = [k \in Ids |-> clientes[k]] /\ clientes[c] = Nulo
    BY <2>1 DEF LinhaInv
  <2>3. clientes'[i] = IF i = c THEN ClienteNovo(c) ELSE clientes[i]
    BY <2>1, <2>2
  <2>4. QED  BY <2>2, <2>3
<1>2. ASSUME NEW j \in Jobs, CommitJob(j)
      PROVE  clientes'[i] = clientes[i] \/ (i \in feitos(j) /\ clientes'[i] = AnonimoDe(i, j))
  <2>1. clientes' = [k \in Ids |-> IF k \in feitos(j) THEN AnonimoDe(k, j) ELSE clientes[k]]
    BY <1>2, PassoCommitJob
  <2>2. QED  BY <2>1
<1>3. \/ UNCHANGED clientes
      \/ \E c \in Compras : CommitCompra(c)
      \/ \E j \in Jobs : CommitJob(j)
  BY PassosDeNext DEF SelectCpf, SelectVin, FlushCliente, FlushVeiculo, Instrucao,
       Carregar, FlushPatch, CommitPatch, obter, list_audit_log, Receber, Falhar, Enviar, Listar,
       JobAvanca, SelectExpired, AnonimizarCliente, AbortarJob, CairGateway, tabelas, dominio
<1>4. QED  BY <1>1, <1>2, <1>3

\* An anonymised row differs from a new one, and tells which job wrote it.
LEMMA AnonimoNaoNovo ==
  ASSUME NEW i, NEW j \in Jobs
  PROVE  /\ AnonimoDe(i, j) # ClienteNovo(i)
         /\ \A k : AnonimoDe(i, k) = AnonimoDe(i, j) => k = j
<1>1. ClienteNovo(i).anonimizado_em = Nulo /\ \A k : AnonimoDe(i, k).anonimizado_em = k
  BY DEF AnonimoDe, ClienteNovo
<1>2. QED  BY <1>1, NuloDominio

\* A job writes a row once: the rows that bear its date are those of its commit.
UmaVezInv == \A i \in Ids : \A j \in Jobs : clientes[i] = AnonimoDe(i, j) => job[j].fase = "fim"

LEMMA UmaVezInit == Init => UmaVezInv
<1> SUFFICES ASSUME Init  PROVE UmaVezInv
  OBVIOUS
<1>1. clientes = [i \in Ids |-> IF i \in Antigos THEN ClienteNovo(i) ELSE Nulo]
  BY DEF Init
<1>2. \A i \in Ids : \A j \in Jobs : AnonimoDe(i, j) # Nulo /\ AnonimoDe(i, j) # ClienteNovo(i)
  BY LinhasValidas, AnonimoNaoNovo
<1>3. QED  BY <1>1, <1>2 DEF UmaVezInv

\* A job that is over stays over.
LEMMA JobFica ==
  ASSUME JobInv, [Next]_vars, NEW j \in Jobs, job[j].fase = "fim"
  PROVE  job'[j].fase = "fim"
<1>1. ASSUME NEW k \in Jobs, JobAvanca(k)  PROVE job'[j].fase = "fim"
  <2>1. k # j
    BY <1>1 DEF JobAvanca, SelectExpired, AnonimizarCliente, RestaAnonimizar
  <2>2. job'[j] = job[j]
    BY <1>1, <2>1 DEF JobAvanca, SelectExpired, AnonimizarCliente, AbortarJob, JobInv
  <2>3. QED  BY <2>2
<1>2. ASSUME NEW k \in Jobs, CommitJob(k)  PROVE job'[j].fase = "fim"
  <2>1. k # j
    BY <1>2 DEF CommitJob
  <2>2. job'[j] = job[j]
    BY <1>2, <2>1 DEF CommitJob, JobInv
  <2>3. QED  BY <2>2
<1>3. QED  BY <1>1, <1>2, QuemMudaJob

LEMMA UmaVezStep == PedidoInv /\ JobInv /\ LinhaInv /\ UmaVezInv /\ [Next]_vars => UmaVezInv'
<1> SUFFICES ASSUME PedidoInv, JobInv, LinhaInv, UmaVezInv, [Next]_vars,
                    NEW i \in Ids, NEW j \in Jobs, clientes'[i] = AnonimoDe(i, j)
             PROVE  job'[j].fase = "fim"
  BY AnonimaDepois DEF UmaVezInv
<1>1. CASE clientes'[i] = clientes[i]
  BY <1>1, JobFica DEF UmaVezInv
<1>2. CASE clientes'[i] = ClienteNovo(i)
  BY <1>2, AnonimoNaoNovo
<1>3. ASSUME NEW k \in Jobs, CommitJob(k), clientes'[i] = AnonimoDe(i, k)
      PROVE  job'[j].fase = "fim"
  <2>1. k = j
    BY <1>3, AnonimoNaoNovo
  <2>2. job' = [job EXCEPT ![j] = [fase |-> "fim", fila |-> <<>>, feitos |-> 0]]
    BY <1>3, <2>1 DEF CommitJob
  <2>3. job = [k2 \in Jobs |-> job[k2]]
    BY DEF JobInv
  <2>4. QED  BY <2>2, <2>3
<1>4. QED  BY <1>1, <1>2, <1>3, LinhaFica

-----------------------------------------------------------------------------
(* The leads *)

LEMMA LeadInit == Init => LeadInv
<1> SUFFICES ASSUME Init  PROVE LeadInv
  OBVIOUS
<1>1. /\ clientes = [i \in Ids |-> IF i \in Antigos THEN ClienteNovo(i) ELSE Nulo]
      /\ leads = [i \in Ids |-> IF i \in Antigos /\ GeraLead(i) THEN LeadNovo(i) ELSE Nulo]
      /\ \A p \in Patches : pedido[p].fase = "novo"
  BY DEF Init, Reqs
<1>2. \A i \in Ids : LeadNovo(i) \in Lead /\ LeadNovo(i) # Nulo /\ ClienteNovo(i) # Nulo
  BY LinhasValidas, LeadValido
<1>3. QED  BY <1>1, <1>2 DEF LeadInv

\* What a patch writes is again a lead, with the score and the priority it had.
LEMMA LeadAlterado ==
  ASSUME NEW p \in Patches, NEW l \in Lead, NEW n,
         n = [campo \in DOMAIN l |-> IF campo \in Alterado(p) THEN CorpoDe[p][campo] ELSE l[campo]]
  PROVE  /\ n \in Lead /\ n.score = l.score
         /\ n.status = IF "status" \in Alterado(p) THEN CorpoDe[p].status ELSE l.status
<1> DEFINE A == Alterado(p)
           st == IF "status" \in A THEN CorpoDe[p].status ELSE l.status
           ob == IF "observacao" \in A THEN CorpoDe[p].observacao ELSE l.observacao
           O  == {CorpoDe[q].observacao : q \in Patches} \cup {Nulo}
<1>1. A \subseteq {"status", "observacao"}
  BY DEF Alterado
<1>2. DOMAIN l = {"score", "prioridade", "status", "observacao"}
  BY DEF Lead
<1>3. l.score \in 0..1000 /\ l.prioridade \in Prioridades /\ l.status \in Status /\ l.observacao \in O
  BY DEF Lead
<1>4. st \in Status /\ ob \in O
  BY <1>3, CorposDosPatches
<1> HIDE DEF A, O
<1>5. n = [score |-> l.score, prioridade |-> l.prioridade, status |-> st, observacao |-> ob]
  <2>1. n = [campo \in {"score", "prioridade", "status", "observacao"} |->
               IF campo \in A THEN CorpoDe[p][campo] ELSE l[campo]]
    BY <1>2 DEF A
  <2>2. QED  BY <1>1, <2>1
<1> HIDE DEF st, ob
<1>6. [score |-> l.score, prioridade |-> l.prioridade, status |-> st, observacao |-> ob] \in Lead
  BY <1>3, <1>4 DEF Lead, O
<1>7. n \in Lead /\ n.score = l.score /\ n.status = st
  BY <1>5, <1>6
<1>8. QED  BY <1>7 DEF st, A

\* Leads come with their clientes, and keep their score.
LEMMA LeadStep == PedidoInv /\ JobInv /\ LinhaInv /\ LeadInv /\ [Next]_vars => LeadInv'
<1> SUFFICES ASSUME PedidoInv, JobInv, LinhaInv, LeadInv, [Next]_vars  PROVE LeadInv'
  OBVIOUS
<1>a. ASSUME NEW r \in Reqs, MudaSo(r), UNCHANGED <<clientes, leads>>,
             r \in Patches /\ pedido'[r].fase \in {"atualizar", "commit_patch"}
               => pedido[r].fase \in {"atualizar", "commit_patch"} \/ leads[LeadDe[r]] # Nulo
      PROVE  LeadInv'
  BY <1>a DEF LeadInv, MudaSo, Reqs
<1>b. ASSUME UNCHANGED <<clientes, leads, pedido>>  PROVE LeadInv'
  BY <1>b DEF LeadInv
<1>0. /\ \A r \in Compras \cup Patches \cup Detalhes \cup Auditores : r \in Reqs
      /\ \A r \in Compras \cup Detalhes \cup Auditores : r \notin Patches
      /\ LeadDe \in [Patches \cup Detalhes -> Ids]
  BY ConstantesDominio DEF Reqs
<1>1. ASSUME NEW c \in Compras,
             SelectCpf(c) \/ SelectVin(c) \/ FlushCliente(c) \/ FlushVeiculo(c)
      PROVE  LeadInv'
  BY <1>1, <1>a, <1>0, PassoInstrucao DEF dominio
<1>2. ASSUME NEW c \in Compras, CommitCompra(c)  PROVE LeadInv'
  <2>1. /\ MudaSo(c) /\ clientes' = [clientes EXCEPT ![c] = ClienteNovo(c)]
        /\ leads' = [leads EXCEPT ![c] = IF GeraLead(c) THEN LeadNovo(c) ELSE Nulo]
        /\ pedido[c].fase = "commit"
    BY <1>2, PassoCommitCompra
  <2>2. /\ c \in Ids /\ ClienteNovo(c) # Nulo /\ LeadNovo(c) \in Lead /\ LeadNovo(c) # Nulo
        /\ clientes = [i \in Ids |-> clientes[i]]
    BY LinhasValidas, LeadValido DEF Ids, LinhaInv
  <2>3. clientes[c] = Nulo /\ leads[c] = Nulo
    BY <2>1, <2>2 DEF LinhaInv, LeadInv
  <2>4. \A i \in Ids : \/ i = c /\ clientes'[i] = ClienteNovo(c)
                           /\ leads'[i] = IF GeraLead(c) THEN LeadNovo(c) ELSE Nulo
                       \/ i # c /\ clientes'[i] = clientes[i] /\ leads'[i] = leads[i]
    BY <2>1, <2>2 DEF LeadInv
  <2>5. leads' \in [Ids -> Lead \cup {Nulo}]
    BY <2>1, <2>2 DEF LeadInv
  <2>6. \A p \in Patches : pedido'[p] = pedido[p] /\ LeadDe[p] \in Ids
    BY <1>0, <2>1 DEF MudaSo
  <2>7. QED  BY <2>2, <2>3, <2>4, <2>5, <2>6 DEF LeadInv
<1>3. ASSUME NEW p \in Patches, Carregar(p) \/ FlushPatch(p)  PROVE LeadInv'
  BY <1>3, <1>a, <1>0, PassoLeitura DEF dominio
<1>4. ASSUME NEW p \in Patches, CommitPatch(p)  PROVE LeadInv'
  <2> DEFINE i == LeadDe[p]
             n == [campo \in DOMAIN leads[i] |->
                     IF campo \in Alterado(p) THEN CorpoDe[p][campo] ELSE leads[i][campo]]
  <2>1. /\ MudaSo(p) /\ UNCHANGED clientes /\ leads' = [leads EXCEPT ![i] = n]
        /\ pedido[p].fase = "commit_patch" /\ pedido'[p].fase = "enviar"
    BY <1>4, PassoCommitPatch
  <2>2. i \in Ids /\ leads[i] \in Lead
    BY <1>0, <2>1 DEF LeadInv
  <2>3. n \in Lead /\ n.score = leads[i].score
    BY <2>2, LeadAlterado
  <2> HIDE DEF n, i
  <2>4. n # Nulo /\ leads[i] # Nulo
    BY <2>2, <2>3, NuloDominio
  <2>5. \A k \in Ids : leads'[k] = IF k = i THEN n ELSE leads[k]
    BY <2>1, <2>2 DEF LeadInv
  <2>6. leads' \in [Ids -> Lead \cup {Nulo}]
    BY <2>1, <2>2, <2>3 DEF LeadInv
  <2>7. \A q \in Patches : /\ pedido'[q].fase \in {"atualizar", "commit_patch"}
                               => pedido[q].fase \in {"atualizar", "commit_patch"}
                           /\ LeadDe[q] \in Ids
    BY <1>0, <2>1 DEF MudaSo
  <2>8. QED  BY <2>1, <2>2, <2>3, <2>4, <2>5, <2>6, <2>7 DEF LeadInv
<1>5. ASSUME NEW d \in Detalhes, obter(d)  PROVE LeadInv'
  BY <1>5, <1>a, <1>0, PassoDetalhe DEF dominio
<1>6. ASSUME NEW a \in Auditores, list_audit_log(a)  PROVE LeadInv'
  BY <1>6, <1>a, <1>0, PassoAuditor DEF dominio
<1>7. ASSUME NEW r \in Reqs, Receber(r)  PROVE LeadInv'
  BY <1>7, <1>a, PassoReceber, PrimeirasFases
<1>8. ASSUME NEW r \in Reqs, Falhar(r) \/ Enviar(r)  PROVE LeadInv'
  BY <1>8, <1>a, PassoComum DEF dominio
<1>9. ASSUME NEW l \in Leitores, Listar(l)  PROVE LeadInv'
  BY <1>9, <1>b DEF Listar
<1>10. ASSUME NEW j \in Jobs, JobAvanca(j)  PROVE LeadInv'
  BY <1>10, <1>b DEF JobAvanca, SelectExpired, AnonimizarCliente, AbortarJob, tabelas
<1>11. ASSUME NEW j \in Jobs, CommitJob(j)  PROVE LeadInv'
  <2>1. /\ feitos(j) \subseteq Antigos /\ UNCHANGED <<leads, pedido>>
        /\ clientes' = [i \in Ids |-> IF i \in feitos(j) THEN AnonimoDe(i, j) ELSE clientes[i]]
    BY <1>11, PassoCommitJob
  <2>2. \A i \in Ids : clientes'[i] # Nulo <=> clientes[i] # Nulo
    BY <2>1, LinhasValidas DEF LinhaInv
  <2>3. QED  BY <2>1, <2>2 DEF LeadInv
<1>12. CASE CairGateway
  BY <1>12, <1>0, PassoQueda DEF LeadInv, dominio
<1>13. QED
  BY <1>1, <1>2, <1>3, <1>4, <1>5, <1>6, <1>7, <1>8, <1>9, <1>10, <1>11, <1>12, <1>b, PassosDeNext
     DEF dominio

-----------------------------------------------------------------------------
(* The unique keys *)

\* The hash of a row is its CPF or its pseudonym, and these never meet.
LEMMA Hashes ==
  ASSUME LinhaInv
  PROVE  /\ \A i \in Gravados : i \in Ids /\ clientes[i].cpf_hash \in {CpfDe[i], pseudonymize(i)}
         /\ \A i, k \in Ids : pseudonymize(i) # CpfDe[k] /\ (i # k => pseudonymize(i) # pseudonymize(k))
<1>1. \A i \in Gravados : i \in Ids /\ clientes[i].cpf_hash \in {CpfDe[i], pseudonymize(i)}
  BY DEF Gravados, LinhaInv, ClienteNovo, AnonimoDe, Anonima
<1>2. QED  BY <1>1, ChavesDosClientes DEF pseudonymize

LEMMA ChaveInit == Init => ChaveInv
<1> SUFFICES ASSUME Init  PROVE ChaveInv
  OBVIOUS
<1>1. /\ clientes = [i \in Ids |-> IF i \in Antigos THEN ClienteNovo(i) ELSE Nulo]
      /\ \A c \in Compras : pedido[c].fase = "novo"
  BY DEF Init, Reqs
<1>2. \A i \in Gravados : i \in Antigos /\ clientes[i].cpf_hash = CpfDe[i]
  BY <1>1 DEF Gravados, ClienteNovo
<1>3. UnicidadeCpfVin
  BY <1>2, ChavesDosClientes DEF UnicidadeCpfVin
<1>4. QED  BY <1>1, <1>3 DEF ChaveInv, Preenchida

\* Waiting for uncommitted keys before each INSERT keeps the keys of whatever is committed, and
\* of whatever is about to be, apart.
LEMMA ChaveStep == PedidoInv /\ JobInv /\ LinhaInv /\ ChaveInv /\ [Next]_vars => ChaveInv'
<1> SUFFICES ASSUME PedidoInv, JobInv, LinhaInv, ChaveInv, [Next]_vars  PROVE ChaveInv'
  OBVIOUS
<1>t. ASSUME UNCHANGED clientes
      PROVE  /\ Gravados' = Gravados /\ UnicidadeCpfVin'
             /\ \A c : ~ CpfGravado(c) => ~ CpfGravado(c)'
             /\ \A c : ~ VinGravado(c) => ~ VinGravado(c)'
  BY <1>t DEF ChaveInv, UnicidadeCpfVin, Gravados, CpfGravado, VinGravado
\* The three parts, each for one purchase at a time.
<1>q. ASSUME UnicidadeCpfVin',
             \A c \in Compras : pedido'[c].fase \in {"inserir_veiculo", "commit"} =>
                 /\ ~ CpfGravado(c)'
                 /\ \A d \in Compras \ {c} : pedido'[d].fase \in {"inserir_veiculo", "commit"}
                                             => CpfDe[d] # CpfDe[c],
             \A c \in Compras : pedido'[c].fase = "commit" =>
                 /\ ~ VinGravado(c)'
                 /\ \A d \in Compras \ {c} : pedido'[d].fase = "commit" => VinDe[d] # VinDe[c]
      PROVE  ChaveInv'
  BY <1>q, Zenon DEF ChaveInv, Preenchida
<1>k. /\ \A c \in Compras : pedido[c].fase \in {"inserir_veiculo", "commit"} =>
            /\ ~ CpfGravado(c)
            /\ \A d \in Compras \ {c} : pedido[d].fase \in {"inserir_veiculo", "commit"}
                                        => CpfDe[d] # CpfDe[c]
      /\ \A c \in Compras : pedido[c].fase = "commit" =>
            /\ ~ VinGravado(c)
            /\ \A d \in Compras \ {c} : pedido[d].fase = "commit" => VinDe[d] # VinDe[c]
  BY DEF ChaveInv, Preenchida
<1>f. ASSUME UNCHANGED clientes,
             \A c \in Compras : /\ pedido'[c].fase \in {"inserir_veiculo", "commit"}
                                     => pedido[c].fase \in {"inserir_veiculo", "commit"}
                                /\ pedido'[c].fase = "commit" => pedido[c].fase = "commit"
      PROVE  ChaveInv'
  BY <1>f, <1>t, <1>k, <1>q
<1>a. ASSUME NEW r \in Reqs, MudaSo(r), UNCHANGED clientes,
             r \in Compras => pedido'[r].fase \notin {"inserir_veiculo", "commit"}
      PROVE  ChaveInv'
  BY <1>a, <1>f DEF MudaSo, Reqs
<1>b. ASSUME UNCHANGED <<clientes, pedido>>  PROVE ChaveInv'
  BY <1>b, <1>f
<1>0. /\ \A r \in Compras \cup Patches \cup Detalhes \cup Auditores : r \in Reqs
      /\ \A r \in Patches \cup Detalhes \cup Auditores : r \notin Compras
  BY ConstantesDominio DEF Reqs
<1>1. ASSUME NEW c \in Compras,
             SelectCpf(c) \/ SelectVin(c) \/ FlushCliente(c) \/ FlushVeiculo(c)
      PROVE  ChaveInv'
  <2>0. /\ MudaSo(c) /\ UNCHANGED clientes
        /\ \A d \in Compras \ {c} : pedido'[d] = pedido[d]
    BY <1>1, PassoInstrucao DEF dominio, MudaSo, Reqs
  <2>1. CASE pedido'[c].fase \notin {"inserir_veiculo", "commit"}
    BY <1>0, <1>a, <2>0, <2>1
  <2>2. CASE pedido'[c].fase = "inserir_veiculo" /\ ~ CpfGravado(c) /\ ~ CpfEmDisputa(c)
    <3>1. \A d \in Compras \ {c} : pedido[d].fase \in {"inserir_veiculo", "commit"}
                                  => CpfDe[d] # CpfDe[c]
      BY <2>2 DEF CpfEmDisputa
    <3>2. QED  BY <1>t, <1>k, <1>q, <2>0, <2>2, <3>1
  <2>3. CASE /\ pedido[c].fase = "inserir_veiculo" /\ pedido'[c].fase = "commit"
             /\ ~ VinGravado(c) /\ ~ VinEmDisputa(c)
    <3>1. \A d \in Compras \ {c} : pedido[d].fase = "commit" => VinDe[d] # VinDe[c]
      BY <2>3 DEF VinEmDisputa
    <3>2. QED  BY <1>t, <1>k, <1>q, <2>0, <2>3, <3>1
  <2>4. QED  BY <1>1, <2>1, <2>2, <2>3, PassoInstrucao
<1>2. ASSUME NEW c \in Compras, CommitCompra(c)  PROVE ChaveInv'
  <2>1. /\ MudaSo(c) /\ clientes' = [clientes EXCEPT ![c] = ClienteNovo(c)]
        /\ pedido[c].fase = "commit" /\ pedido'[c].fase = "enviar"
    BY <1>2, PassoCommitCompra
  <2>2. /\ c \in Ids /\ ClienteNovo(c) # Nulo /\ ClienteNovo(c).cpf_hash = CpfDe[c]
        /\ clientes = [i \in Ids |-> clientes[i]]
    BY LinhasValidas DEF Ids, LinhaInv, ClienteNovo
  <2>3. /\ Gravados' = Gravados \cup {c} /\ clientes'[c].cpf_hash = CpfDe[c]
        /\ \A i \in Gravados \ {c} : clientes'[i] = clientes[i]
    BY <2>1, <2>2 DEF Gravados
  <2>4. /\ ~ CpfGravado(c) /\ ~ VinGravado(c)
        /\ \A d \in Compras \ {c} :
              /\ pedido[d].fase \in {"inserir_veiculo", "commit"} => CpfDe[d] # CpfDe[c]
              /\ pedido[d].fase = "commit" => VinDe[d] # VinDe[c]
    BY <1>k, <2>1
  <2>5. UnicidadeCpfVin'
    BY <2>3, <2>4 DEF ChaveInv, UnicidadeCpfVin, CpfGravado, VinGravado
  <2>6. \A d \in Compras : pedido'[d].fase \in {"inserir_veiculo", "commit"}
                              => d # c /\ pedido'[d] = pedido[d]
    BY <2>1 DEF MudaSo, Reqs
  <2>7. \A d \in Compras \ {c} :
           /\ pedido[d].fase \in {"inserir_veiculo", "commit"} => ~ CpfGravado(d)'
           /\ pedido[d].fase = "commit" => ~ VinGravado(d)'
    BY <1>k, <2>3, <2>4 DEF CpfGravado, VinGravado
  <2>8. QED  BY <1>k, <1>q, <2>5, <2>6, <2>7
<1>3. ASSUME NEW p \in Patches, Carregar(p) \/ FlushPatch(p)  PROVE ChaveInv'
  BY <1>3, <1>a, <1>0, PassoLeitura DEF dominio
<1>4. ASSUME NEW p \in Patches, CommitPatch(p)  PROVE ChaveInv'
  BY <1>4, <1>a, <1>0, PatchResponde
<1>5. ASSUME NEW d \in Detalhes, obter(d)  PROVE ChaveInv'
  BY <1>5, <1>a, <1>0, PassoDetalhe DEF dominio
<1>6. ASSUME NEW a \in Auditores, list_audit_log(a)  PROVE ChaveInv'
  BY <1>6, <1>a, <1>0, PassoAuditor DEF dominio
<1>7. ASSUME NEW r \in Reqs, Receber(r)  PROVE ChaveInv'
  BY <1>7, <1>a, PassoReceber, PrimeirasFases
<1>8. ASSUME NEW r \in Reqs, Falhar(r) \/ Enviar(r)  PROVE ChaveInv'
  BY <1>8, <1>a, PassoComum DEF dominio
<1>9. ASSUME NEW l \in Leitores, Listar(l)  PROVE ChaveInv'
  BY <1>9, <1>b DEF Listar
<1>10. ASSUME NEW j \in Jobs, JobAvanca(j)  PROVE ChaveInv'
  BY <1>10, <1>b DEF JobAvanca, SelectExpired, AnonimizarCliente, AbortarJob, tabelas
<1>11. ASSUME NEW j \in Jobs, CommitJob(j)  PROVE ChaveInv'
  <2>1. /\ feitos(j) \subseteq Antigos /\ UNCHANGED pedido
        /\ clientes' = [i \in Ids |-> IF i \in feitos(j) THEN AnonimoDe(i, j) ELSE clientes[i]]
    BY <1>11, PassoCommitJob
  <2>2. /\ Gravados' = Gravados
        /\ \A i \in Gravados : \/ clientes'[i].cpf_hash = clientes[i].cpf_hash
                               \/ clientes'[i].cpf_hash = pseudonymize(i)
    BY <2>1, LinhasValidas DEF LinhaInv, Gravados, AnonimoDe
  <2>3. UnicidadeCpfVin'
    BY <2>2, Hashes DEF ChaveInv, UnicidadeCpfVin
  <2>4. \A c \in Compras : /\ ~ CpfGravado(c) => ~ CpfGravado(c)'
                           /\ ~ VinGravado(c) => ~ VinGravado(c)'
    BY <2>2, Hashes DEF CpfGravado, VinGravado, Ids
  <2>5. QED  BY <1>k, <1>q, <2>1, <2>3, <2>4
<1>12. CASE CairGateway
  <2>1. \A c \in Compras : pedido'[c] = pedido[c] \/ pedido'[c].fase = "fim"
    BY <1>0, <1>12, PassoQueda
  <2>2. UNCHANGED clientes
    BY <1>12, PassoQueda DEF dominio
  <2>3. QED  BY <1>f, <2>1, <2>2
<1>13. QED
  BY <1>1, <1>2, <1>3, <1>4, <1>5, <1>6, <1>7, <1>8, <1>9, <1>10, <1>11, <1>12, <1>b, PassosDeNext
     DEF dominio

-----------------------------------------------------------------------------
(* The answers *)

\* The patches of which the trail tells.
Patchados == {e.autor : e \in {e \in trilha : e.acao = "LEAD_PATCHED"}}

\* The columns of the contact that a detail shows.
Mostra(v) == {campo \in {"email", "telefone"} : v.contato_masked[campo] # Nulo}

\* What a caller was told stays true: a 201 has its row, a refusal of a purchase has none, a
\* patch in the trail was not refused and one outside was not confirmed, and a detail only says
\* what never changes, or what an anonymisation made final.
RespostaInv ==
    /\ \A c \in Compras :
          /\ pedido[c].resposta = 201 => clientes[c] # Nulo
          /\ pedido[c].resposta \in {401, 403, 409, 422} => clientes[c] = Nulo
          /\ pedido[c].resposta = 409 =>
                \E i \in Ids : clientes[i] # Nulo /\ (CpfDe[i] = CpfDe[c] \/ VinDe[i] = VinDe[c])
    /\ \A p \in Patches :
          /\ p \in Patchados => /\ pedido[p].resposta \in {200, 500, PERDIDA}
                                /\ pedido[p].fase \in {"enviar", "fim"}
          /\ pedido[p].resposta = 200 => p \in Patchados
    /\ \A d \in Detalhes :
          pedido[d].resposta = 200 =>
              /\ leads[LeadDe[d]] # Nulo
              /\ pedido[d].lido.lead.score = LeadNovo(LeadDe[d]).score
              /\ pedido[d].lido.cliente.perfil = classificar(DigestDe[LeadDe[d]]).perfil
              /\ pedido[d].lido.cliente.cpf_masked \in {MASCARADO, pseudonymize(LeadDe[d])}
              /\ \/ Mostra(pedido[d].lido.cliente) = ContatoDe[LeadDe[d]]
                 \/ Mostra(pedido[d].lido.cliente) = {} /\ Anonima(LeadDe[d])

\* Rows and leads are never lost, and an anonymised row stays anonymised.
LEMMA NadaSePerde ==
  ASSUME PedidoInv, JobInv, LinhaInv, LeadInv, [Next]_vars, NEW i \in Ids
  PROVE  /\ clientes[i] # Nulo => clientes'[i] # Nulo
         /\ Anonima(i) => Anonima(i)'
         /\ leads[i] # Nulo => leads'[i] # Nulo
<1>1. \/ clientes'[i] = clientes[i] \/ clientes[i] = Nulo
      \/ \E j \in Jobs : clientes'[i] = AnonimoDe(i, j)
  BY LinhaFica
<1>2. \A j \in Jobs : AnonimoDe(i, j) # Nulo
  BY LinhasValidas
<1>3. LeadInv'
  BY LeadStep
<1>4. (leads[i] # Nulo <=> clientes[i] # Nulo /\ GeraLead(i))
  BY DEF LeadInv
<1>5. (leads'[i] # Nulo <=> clientes'[i] # Nulo /\ GeraLead(i))
  BY <1>3 DEF LeadInv
<1>6. Anonima(i)' <=> \E j \in Jobs : clientes'[i] = AnonimoDe(i, j)
  BY AnonimaDepois
<1>7. QED  BY <1>1, <1>2, <1>4, <1>5, <1>6 DEF Anonima

\* Only the commit of a patch adds to those the trail tells of.
LEMMA PatchadosMudam ==
  ASSUME NEW X, trilha' = trilha \cup X, \A e \in X : e.acao # "LEAD_PATCHED"
  PROVE  Patchados' = Patchados
  BY DEF Patchados

\* The masked view of a row tells its CPF neither before nor after the row is anonymised, and of
\* the contact what the purchase gave, until it is gone.
LEMMA VistaMascarada ==
  ASSUME LinhaInv, NEW i \in Ids, clientes[i] # Nulo
  PROVE  /\ cliente_to_output(i).perfil = classificar(DigestDe[i]).perfil
         /\ cliente_to_output(i).cpf_masked \in {MASCARADO, pseudonymize(i)}
         /\ \/ Mostra(cliente_to_output(i)) = ContatoDe[i]
            \/ Mostra(cliente_to_output(i)) = {} /\ Anonima(i)
<1> DEFINE visto == [campo \in {"email", "telefone"} |->
                       IF campo \in clientes[i].contato THEN MASCARADO ELSE Nulo]
<1>1. cliente_to_output(i) =
        [cpf_masked |-> mask_cpf(clientes[i].cpf), perfil |-> clientes[i].perfil,
         contato_masked |-> visto]
  BY DEF cliente_to_output
<1>2. \A campo \in {"email", "telefone"} : visto[campo] # Nulo <=> campo \in clientes[i].contato
  BY NuloDominio
<1> HIDE DEF visto
<1>3. /\ cliente_to_output(i).cpf_masked = mask_cpf(clientes[i].cpf)
      /\ cliente_to_output(i).perfil = clientes[i].perfil
      /\ cliente_to_output(i).contato_masked = visto
  BY <1>1
<1>4. Mostra(cliente_to_output(i)) = {campo \in {"email", "telefone"} : campo \in clientes[i].contato}
  BY <1>2, <1>3 DEF Mostra
<1>5. CASE clientes[i] = ClienteNovo(i)
  <2>1. clientes[i].cpf = CpfDe[i] /\ clientes[i].contato = ContatoDe[i]
        /\ clientes[i].perfil = classificar(DigestDe[i]).perfil
    BY <1>5 DEF ClienteNovo
  <2>2. Digitos(CpfDe[i]) = 11
    BY DEF Digitos
  <2>3. mask_cpf(clientes[i].cpf) = MASCARADO
    BY <2>1, <2>2 DEF mask_cpf
  <2>4. ContatoDe[i] \subseteq {"email", "telefone"}
    BY ConstantesDominio
  <2>5. Mostra(cliente_to_output(i)) = ContatoDe[i]
    BY <1>4, <2>1, <2>4
  <2>6. QED  BY <1>3, <2>1, <2>3, <2>5
<1>6. ASSUME NEW j \in Jobs, clientes[i] = AnonimoDe(i, j)
      PROVE  /\ cliente_to_output(i).perfil = classificar(DigestDe[i]).perfil
             /\ cliente_to_output(i).cpf_masked \in {MASCARADO, pseudonymize(i)}
             /\ Mostra(cliente_to_output(i)) = {}
  <2>1. /\ clientes[i].cpf = pseudonymize(i) /\ clientes[i].contato = {}
        /\ clientes[i].perfil = classificar(DigestDe[i]).perfil
    BY <1>6 DEF AnonimoDe
  <2>2. mask_cpf(clientes[i].cpf) \in {MASCARADO, pseudonymize(i)}
    BY <2>1 DEF mask_cpf
  <2>3. Mostra(cliente_to_output(i)) = {}
    BY <1>4, <2>1
  <2>4. QED  BY <1>3, <2>1, <2>2, <2>3
<1>7. QED  BY <1>5, <1>6 DEF LinhaInv, Anonima

LEMMA RespostaInit == Init => RespostaInv
<1> SUFFICES ASSUME Init  PROVE RespostaInv
  OBVIOUS
<1>1. \A r \in Reqs : pedido[r].resposta = Nulo
  BY DEF Init
<1>2. /\ trilha = UNION {ToSet(EventosDaCompra(i)) : i \in Antigos}
  BY DEF Init
<1>3. \A e \in trilha : e.acao # "LEAD_PATCHED"
  BY <1>2, EventosDeCompra DEF Evento
<1>4. Patchados = {}
  BY <1>3 DEF Patchados
<1>5. QED  BY <1>1, <1>4, NuloDominio DEF RespostaInv, Reqs

\* Each step that answers answers the truth, and no later step makes it false.
LEMMA RespostaStep ==
  PedidoInv /\ JobInv /\ LinhaInv /\ LeadInv /\ RespostaInv /\ [Next]_vars => RespostaInv'
<1> SUFFICES ASSUME PedidoInv, JobInv, LinhaInv, LeadInv, RespostaInv, [Next]_vars
             PROVE  RespostaInv'
  OBVIOUS
<1>m. \A i \in Ids : /\ clientes[i] # Nulo => clientes'[i] # Nulo
                     /\ Anonima(i) => Anonima(i)'
                     /\ leads[i] # Nulo => leads'[i] # Nulo
  BY NadaSePerde
<1>0. /\ \A r \in Compras \cup Patches \cup Detalhes \cup Auditores : r \in Reqs
      /\ \A r \in Patches \cup Detalhes \cup Auditores : r \notin Compras
      /\ \A r \in Detalhes \cup Auditores : r \notin Patches
      /\ \A r \in Auditores : r \notin Detalhes
      /\ LeadDe \in [Patches \cup Detalhes -> Ids]
      /\ \A c \in Compras : c \in Ids
      /\ \A r \in Reqs : pedido[r].fase \notin {"enviar", "fim"} => pedido[r].resposta = Nulo
      /\ Nulo \notin Nat
  BY ConstantesDominio, NuloDominio DEF Reqs, Ids, PedidoInv
\* What an answer that is kept still says.
<1>k. ASSUME NEW r \in Reqs, pedido'[r].resposta = pedido[r].resposta \/ pedido'[r].resposta \in {500, PERDIDA},
             r \in Compras => (clientes[r] = Nulo => clientes'[r] = Nulo)
      PROVE  /\ r \in Compras =>
                  /\ pedido'[r].resposta = 201 => clientes'[r] # Nulo
                  /\ pedido'[r].resposta \in {401, 403, 409, 422} => clientes'[r] = Nulo
                  /\ pedido'[r].resposta = 409 =>
                        \E i \in Ids : clientes'[i] # Nulo /\ (CpfDe[i] = CpfDe[r] \/ VinDe[i] = VinDe[r])
             /\ r \in Detalhes /\ pedido'[r].lido = pedido[r].lido =>
                  (pedido'[r].resposta = 200 =>
                     /\ leads'[LeadDe[r]] # Nulo
                     /\ pedido'[r].lido.lead.score = LeadNovo(LeadDe[r]).score
                     /\ pedido'[r].lido.cliente.perfil = classificar(DigestDe[LeadDe[r]]).perfil
                     /\ pedido'[r].lido.cliente.cpf_masked \in {MASCARADO, pseudonymize(LeadDe[r])}
                     /\ \/ Mostra(pedido'[r].lido.cliente) = ContatoDe[LeadDe[r]]
                        \/ Mostra(pedido'[r].lido.cliente) = {} /\ Anonima(LeadDe[r])')
  BY <1>k, <1>m, <1>0 DEF RespostaInv, PERDIDA, Mostra
\* Nobody's answer changes but that of r, which is true.
<1>a. ASSUME NEW r \in Reqs, MudaSo(r),
             \A c \in Compras \ {r} : clientes[c] = Nulo => clientes'[c] = Nulo,
             \A p \in Patches \ {r} : p \in Patchados' <=> p \in Patchados,
             r \in Compras =>
                /\ pedido'[r].resposta = 201 => clientes'[r] # Nulo
                /\ pedido'[r].resposta \in {401, 403, 409, 422} => clientes'[r] = Nulo
                /\ pedido'[r].resposta = 409 =>
                      \E i \in Ids : clientes'[i] # Nulo /\ (CpfDe[i] = CpfDe[r] \/ VinDe[i] = VinDe[r]),
             r \in Patches =>
                /\ r \in Patchados' => /\ pedido'[r].resposta \in {200, 500, PERDIDA}
                                       /\ pedido'[r].fase \in {"enviar", "fim"}
                /\ pedido'[r].resposta = 200 => r \in Patchados',
             r \in Detalhes =>
                (pedido'[r].resposta = 200 =>
                   /\ leads'[LeadDe[r]] # Nulo
                   /\ pedido'[r].lido.lead.score = LeadNovo(LeadDe[r]).score
                   /\ pedido'[r].lido.cliente.perfil = classificar(DigestDe[LeadDe[r]]).perfil
                   /\ pedido'[r].lido.cliente.cpf_masked \in {MASCARADO, pseudonymize(LeadDe[r])}
                   /\ \/ Mostra(pedido'[r].lido.cliente) = ContatoDe[LeadDe[r]]
                      \/ Mostra(pedido'[r].lido.cliente) = {} /\ Anonima(LeadDe[r])')
      PROVE  RespostaInv'
  <2>0. \A q \in Reqs \ {r} : pedido'[q] = pedido[q]
    BY <1>a DEF MudaSo
  <2>1. ASSUME NEW c \in Compras
        PROVE  /\ pedido'[c].resposta = 201 => clientes'[c] # Nulo
               /\ pedido'[c].resposta \in {401, 403, 409, 422} => clientes'[c] = Nulo
               /\ pedido'[c].resposta = 409 =>
                     \E i \in Ids : clientes'[i] # Nulo /\ (CpfDe[i] = CpfDe[c] \/ VinDe[i] = VinDe[c])
    BY <1>a, <1>k, <1>0, <2>0
  <2>2. ASSUME NEW p \in Patches
        PROVE  /\ p \in Patchados' => /\ pedido'[p].resposta \in {200, 500, PERDIDA}
                                      /\ pedido'[p].fase \in {"enviar", "fim"}
               /\ pedido'[p].resposta = 200 => p \in Patchados'
    BY <1>a, <1>0, <2>0 DEF RespostaInv
  <2>3. ASSUME NEW d \in Detalhes, pedido'[d].resposta = 200
        PROVE  /\ leads'[LeadDe[d]] # Nulo
               /\ pedido'[d].lido.lead.score = LeadNovo(LeadDe[d]).score
               /\ pedido'[d].lido.cliente.perfil = classificar(DigestDe[LeadDe[d]]).perfil
               /\ pedido'[d].lido.cliente.cpf_masked \in {MASCARADO, pseudonymize(LeadDe[d])}
               /\ \/ Mostra(pedido'[d].lido.cliente) = ContatoDe[LeadDe[d]]
                  \/ Mostra(pedido'[d].lido.cliente) = {} /\ Anonima(LeadDe[d])'
    <3>1. CASE d = r
      BY <1>a, <2>3, <3>1
    <3>2. CASE d # r
      <4>1. d \in Reqs /\ pedido'[d] = pedido[d]
        BY <1>0, <2>0, <3>2
      <4>2. pedido'[d].resposta = pedido[d].resposta /\ pedido'[d].lido = pedido[d].lido
        BY <4>1
      <4>3. d \notin Compras
        BY <1>0
      <4>4. QED  BY <1>k, <2>3, <4>1, <4>2, <4>3, SMTT(30)
    <3>3. QED  BY <3>1, <3>2
  <2>4. QED  BY <2>1, <2>2, <2>3 DEF RespostaInv
\* Steps that leave the tables alone.
<1>i. UNCHANGED trilha => Patchados' = Patchados
  BY DEF Patchados
<1>n. \A r \in Reqs : r \in Patches /\ pedido[r].fase \notin {"enviar", "fim"} => r \notin Patchados
  BY DEF RespostaInv
<1>1. ASSUME NEW c \in Compras,
             SelectCpf(c) \/ SelectVin(c) \/ FlushCliente(c) \/ FlushVeiculo(c)
      PROVE  RespostaInv'
  <2>1. /\ MudaSo(c) /\ UNCHANGED <<clientes, trilha>> /\ pedido[c].fase \notin {"enviar", "fim"}
        /\ \/ pedido'[c].resposta = 409 /\ (CpfGravado(c) \/ VinGravado(c))
           \/ pedido'[c].resposta = Nulo
    BY <1>0, <1>1, PassoInstrucao DEF dominio
  <2>2. clientes[c] = Nulo
    BY <2>1 DEF LinhaInv
  <2>3. CpfGravado(c) \/ VinGravado(c) =>
          \E i \in Ids : clientes[i] # Nulo /\ (CpfDe[i] = CpfDe[c] \/ VinDe[i] = VinDe[c])
    BY <1>0, Hashes DEF CpfGravado, VinGravado, Gravados
  <2>4. c \in Reqs /\ c \notin Patches /\ c \notin Detalhes
    BY <1>0
  <2>5. QED  BY <1>0, <1>a, <1>i, <2>1, <2>2, <2>3, <2>4
<1>2. ASSUME NEW c \in Compras, CommitCompra(c)  PROVE RespostaInv'
  <2>1. /\ MudaSo(c) /\ pedido'[c].resposta \in {201, 500}
        /\ clientes' = [clientes EXCEPT ![c] = ClienteNovo(c)]
        /\ trilha' = trilha \cup ({Evento("CLIENTE_CREATED", c, c, Nulo)} \cup
                      (IF GeraLead(c) THEN {Evento("LEAD_CREATED", c, c, Nulo)} ELSE {}))
    BY <1>2, PassoCommitCompra
  <2>2. Patchados' = Patchados
    <3> DEFINE X == {Evento("CLIENTE_CREATED", c, c, Nulo)} \cup
                      (IF GeraLead(c) THEN {Evento("LEAD_CREATED", c, c, Nulo)} ELSE {})
    <3>1. \A e \in X : e.acao # "LEAD_PATCHED"
      BY DEF Evento
    <3>2. trilha' = trilha \cup X
      BY <2>1
    <3> HIDE DEF X
    <3>3. QED  BY <3>1, <3>2, PatchadosMudam
  <2>3. /\ clientes'[c] # Nulo
        /\ \A d \in Compras \ {c} : clientes'[d] = clientes[d]
    <3>1. c \in Ids /\ ClienteNovo(c) # Nulo /\ clientes = [i \in Ids |-> clientes[i]]
      BY <1>0, LinhasValidas DEF LinhaInv
    <3>2. QED  BY <1>0, <2>1, <3>1
  <2>4. c \in Reqs /\ c \notin Patches /\ c \notin Detalhes
    BY <1>0
  <2>5. QED  BY <1>a, <2>1, <2>2, <2>3, <2>4
<1>3. ASSUME NEW p \in Patches, Carregar(p) \/ FlushPatch(p)  PROVE RespostaInv'
  <2>1. /\ MudaSo(p) /\ UNCHANGED <<clientes, trilha>> /\ pedido[p].fase \notin {"enviar", "fim"}
        /\ pedido'[p].resposta \in {404, Nulo}
    BY <1>0, <1>3, PassoLeitura DEF dominio
  <2>2. p \notin Patchados' /\ pedido'[p].resposta # 200
    BY <1>0, <1>i, <1>n, <2>1
  <2>3. p \in Reqs /\ p \notin Compras /\ p \notin Detalhes
    BY <1>0
  <2>4. QED  BY <1>a, <1>i, <2>1, <2>2, <2>3
<1>4. ASSUME NEW p \in Patches, CommitPatch(p)  PROVE RespostaInv'
  <2>1. /\ MudaSo(p) /\ UNCHANGED clientes /\ pedido'[p].fase = "enviar"
        /\ pedido'[p].resposta \in {200, 500} /\ trilha' = trilha \cup {EventoDoPatch(p)}
    BY <1>4, PatchResponde
  <2>2. Patchados' = Patchados \cup {p}
    <3> DEFINE e == EventoDoPatch(p)
    <3>1. e.acao = "LEAD_PATCHED" /\ e.autor = p
      BY DEF EventoDoPatch, Evento
    <3>2. trilha' = trilha \cup {e}
      BY <2>1
    <3> HIDE DEF e
    <3>3. QED  BY <3>1, <3>2 DEF Patchados
  <2>3. p \in Reqs /\ p \notin Compras /\ p \notin Detalhes
    BY <1>0
  <2>4. QED  BY <1>a, <2>1, <2>2, <2>3
<1>5. ASSUME NEW d \in Detalhes, obter(d)  PROVE RespostaInv'
  <2> DEFINE i == LeadDe[d]
  <2>1. /\ MudaSo(d) /\ UNCHANGED <<clientes, leads, trilha>>
        /\ \/ pedido'[d].resposta = 404
           \/ /\ leads[i] # Nulo
              /\ pedido'[d].lido = [lead |-> leads[i], cliente |-> cliente_to_output(i)]
    BY <1>5, PassoDetalhe DEF dominio
  <2>2. d \in Reqs /\ d \notin Compras /\ d \notin Patches /\ i \in Ids
    BY <1>0
  <2> HIDE DEF i
  <2>3. ASSUME pedido'[d].resposta = 200
        PROVE  /\ leads'[i] # Nulo /\ pedido'[d].lido.lead.score = LeadNovo(i).score
               /\ pedido'[d].lido.cliente.perfil = classificar(DigestDe[i]).perfil
               /\ pedido'[d].lido.cliente.cpf_masked \in {MASCARADO, pseudonymize(i)}
               /\ \/ Mostra(pedido'[d].lido.cliente) = ContatoDe[i]
                  \/ Mostra(pedido'[d].lido.cliente) = {} /\ Anonima(i)'
    <3>1. /\ leads[i] # Nulo
          /\ pedido'[d].lido = [lead |-> leads[i], cliente |-> cliente_to_output(i)]
      BY <2>1, <2>3
    <3>2. pedido'[d].lido.lead = leads[i] /\ pedido'[d].lido.cliente = cliente_to_output(i)
      BY <3>1
    <3>3. leads[i].score = LeadNovo(i).score /\ clientes[i] # Nulo
      BY <2>2, <3>1 DEF LeadInv
    <3>4. Anonima(i) => Anonima(i)'
      BY <1>m, <2>2
    <3>5. QED  BY <2>1, <2>2, <3>1, <3>2, <3>3, <3>4, VistaMascarada
  <2>4. QED  BY <1>a, <1>i, <2>1, <2>2, <2>3 DEF i
<1>6. ASSUME NEW a \in Auditores, list_audit_log(a)  PROVE RespostaInv'
  <2>1. MudaSo(a) /\ UNCHANGED <<clientes, trilha>>
    BY <1>6, PassoAuditor DEF dominio
  <2>2. a \in Reqs /\ a \notin Compras /\ a \notin Patches /\ a \notin Detalhes
    BY <1>0
  <2>3. QED  BY <1>a, <1>i, <2>1, <2>2
<1>7. ASSUME NEW r \in Reqs, Receber(r)  PROVE RespostaInv'
  <2>1. /\ MudaSo(r) /\ UNCHANGED clientes /\ pedido[r].fase = "novo"
        /\ pedido'[r].resposta \in {Nulo, 401, 403, 422}
        /\ \/ UNCHANGED trilha
           \/ trilha' = trilha \cup {Evento("FORBIDDEN_ACCESS", r, Nulo, Nulo)}
    BY <1>0, <1>7, PassoReceber
  <2>2. Patchados' = Patchados
    <3> DEFINE X == {Evento("FORBIDDEN_ACCESS", r, Nulo, Nulo)}
    <3>1. \A e \in X : e.acao # "LEAD_PATCHED"
      BY DEF Evento
    <3>2. UNCHANGED trilha \/ trilha' = trilha \cup X
      BY <2>1
    <3> HIDE DEF X
    <3>3. QED  BY <1>i, <3>1, <3>2, PatchadosMudam
  <2>3. r \in Compras => clientes'[r] = Nulo
    BY <2>1 DEF LinhaInv
  <2>4. r \in Patches => r \notin Patchados'
    BY <1>n, <2>1, <2>2
  <2>5. QED  BY <1>0, <1>a, <2>1, <2>2, <2>3, <2>4
<1>8. ASSUME NEW r \in Reqs, Falhar(r) \/ Enviar(r)  PROVE RespostaInv'
  <2>1. /\ MudaSo(r) /\ UNCHANGED <<clientes, trilha>> /\ pedido'[r].lido = pedido[r].lido
        /\ \/ pedido[r].fase \notin {"enviar", "fim"} /\ pedido'[r].resposta = 500
           \/ pedido'[r].fase = "fim" /\ pedido'[r].resposta = pedido[r].resposta
    BY <1>8, PassoComum DEF dominio
  <2>2. r \in Patches =>
           /\ r \in Patchados' => /\ pedido'[r].resposta \in {200, 500, PERDIDA}
                                  /\ pedido'[r].fase \in {"enviar", "fim"}
           /\ pedido'[r].resposta = 200 => r \in Patchados'
    BY <1>i, <1>n, <2>1 DEF RespostaInv
  <2>3. QED  BY <1>a, <1>i, <1>k, <2>1, <2>2
<1>b. ASSUME UNCHANGED pedido, \A c \in Compras : clientes[c] = Nulo => clientes'[c] = Nulo,
             Patchados' = Patchados
      PROVE  RespostaInv'
  BY <1>b, <1>m, <1>0 DEF RespostaInv, Mostra
<1>9. ASSUME NEW l \in Leitores, Listar(l)  PROVE RespostaInv'
  <2>1. /\ UNCHANGED <<clientes, pedido>> /\ trilha' = trilha \cup maybe_alert_mass_query(l)
    BY <1>9 DEF Listar
  <2>2. \A e \in maybe_alert_mass_query(l) : e.acao # "LEAD_PATCHED"
    BY DEF maybe_alert_mass_query, Alerta, Evento
  <2>3. QED  BY <1>b, <2>1, <2>2, PatchadosMudam
<1>10. ASSUME NEW j \in Jobs, JobAvanca(j)  PROVE RespostaInv'
  <2>1. UNCHANGED <<clientes, pedido, trilha>>
    BY <1>10 DEF JobAvanca, SelectExpired, AnonimizarCliente, AbortarJob, tabelas
  <2>2. QED  BY <1>b, <1>i, <2>1
<1>11. ASSUME NEW j \in Jobs, CommitJob(j)  PROVE RespostaInv'
  <2> DEFINE X == {Evento("CLIENTE_ANONYMIZED", j, i, Nulo) : i \in feitos(j)}
  <2>1. /\ feitos(j) \subseteq Antigos /\ UNCHANGED <<leads, pedido>>
        /\ clientes' = [i \in Ids |-> IF i \in feitos(j) THEN AnonimoDe(i, j) ELSE clientes[i]]
        /\ trilha' = trilha \cup X
    BY <1>11, PassoCommitJob
  <2>2. \A e \in X : e.acao # "LEAD_PATCHED"
    BY DEF Evento
  <2> HIDE DEF X
  <2>3. \A c \in Compras : clientes'[c] = clientes[c]
    BY <1>0, <2>1, ConstantesDominio
  <2>4. QED  BY <1>b, <2>1, <2>2, <2>3, PatchadosMudam
<1>12. CASE CairGateway
  <2>1. /\ UNCHANGED <<clientes, leads, trilha>>
        /\ \A r \in Reqs :
               \/ pedido'[r] = pedido[r]
               \/ /\ pedido[r].fase \notin {"novo", "fim"} /\ pedido'[r].fase = "fim"
                  /\ pedido'[r].resposta = PERDIDA
    BY <1>12, PassoQueda DEF dominio
  <2>2. QED  BY <1>0, <1>i, <1>m, <2>1 DEF RespostaInv, PERDIDA, Mostra
<1>13. ASSUME UNCHANGED <<dominio, pedido>>  PROVE RespostaInv'
  BY <1>13, <1>b, <1>i DEF dominio
<1>14. QED
  BY <1>1, <1>2, <1>3, <1>4, <1>5, <1>6, <1>7, <1>8, <1>9, <1>10, <1>11, <1>12, <1>13, PassosDeNext

-----------------------------------------------------------------------------
(* The trail *)

\* The jobs of which the trail says that they anonymised i.
AnonimizadoPor(i) == {e.autor : e \in {e \in trilha : e.acao = "CLIENTE_ANONYMIZED" /\ e.alvo = i}}

\* The event e explains that lead i has status s.
Explica(e, i, s) ==
    /\ e.acao = "LEAD_PATCHED" /\ e.alvo = i
    /\ CorpoDe[e.autor].status = s /\ e.de # s

\* The tables and the trail, each from the other; a refused role was answered 403 for good.
TrilhaInv ==
    /\ \A i \in Ids : clientes[i] # Nulo <=> Evento("CLIENTE_CREATED", i, i, Nulo) \in trilha
    /\ \A i \in Ids : leads[i] # Nulo <=> Evento("LEAD_CREATED", i, i, Nulo) \in trilha
    /\ \A i \in Ids : /\ \A j \in Jobs : clientes[i] = AnonimoDe(i, j) => j \in AnonimizadoPor(i)
                      /\ AnonimizadoPor(i) # {} => Anonima(i)
    /\ \A i \in Ids : leads[i] # Nulo /\ leads[i].status # "aberto" =>
          \E e \in trilha : Explica(e, i, leads[i].status)
    /\ \A e \in trilha : e.acao = "FORBIDDEN_ACCESS" =>
          e.autor \in Reqs /\ pedido[e.autor].fase = "fim" /\ pedido[e.autor].resposta = 403

\* The fields of an event, by which events are told apart.
LEMMA Campos ==
  ASSUME NEW acao, NEW autor, NEW alvo, NEW de
  PROVE  /\ Evento(acao, autor, alvo, de).acao = acao /\ Evento(acao, autor, alvo, de).autor = autor
         /\ Evento(acao, autor, alvo, de).alvo = alvo /\ Evento(acao, autor, alvo, de).de = de
  BY DEF Evento

LEMMA TrilhaInit == Init => TrilhaInv
<1> SUFFICES ASSUME Init  PROVE TrilhaInv
  OBVIOUS
<1>1. /\ clientes = [i \in Ids |-> IF i \in Antigos THEN ClienteNovo(i) ELSE Nulo]
      /\ leads = [i \in Ids |-> IF i \in Antigos /\ GeraLead(i) THEN LeadNovo(i) ELSE Nulo]
      /\ trilha = UNION {ToSet(EventosDaCompra(i)) : i \in Antigos}
  BY DEF Init
<1>2. \A i \in Ids : /\ LeadNovo(i) # Nulo /\ ClienteNovo(i) # Nulo /\ LeadNovo(i).status = "aberto"
                     /\ \A j \in Jobs : AnonimoDe(i, j) # Nulo /\ AnonimoDe(i, j) # ClienteNovo(i)
  BY LinhasValidas, LeadValido, AnonimoNaoNovo DEF LeadNovo
<1>3. \A e : e \in trilha <=>
         \E i \in Antigos : \/ e = Evento("CLIENTE_CREATED", i, i, Nulo)
                            \/ GeraLead(i) /\ e = Evento("LEAD_CREATED", i, i, Nulo)
  BY <1>1, EventosDeCompra
<1>4. \A e \in trilha : e.acao \in {"CLIENTE_CREATED", "LEAD_CREATED"}
  BY <1>3, Campos
<1>5. \A i \in Ids : /\ Evento("CLIENTE_CREATED", i, i, Nulo) \in trilha <=> i \in Antigos
                     /\ Evento("LEAD_CREATED", i, i, Nulo) \in trilha <=> i \in Antigos /\ GeraLead(i)
  BY <1>3, Campos
<1>6. \A i : AnonimizadoPor(i) = {}
  BY <1>4 DEF AnonimizadoPor
<1>7. QED  BY <1>1, <1>2, <1>4, <1>5, <1>6 DEF TrilhaInv

\* What is over stays as it is.
LEMMA FimFica ==
  ASSUME PedidoInv, JobInv, LinhaInv, [Next]_vars
  PROVE  \A r \in Reqs : pedido[r].fase = "fim" => pedido'[r] = pedido[r]
<1>0. \A r \in Compras \cup Patches \cup Detalhes \cup Auditores : r \in Reqs
  BY DEF Reqs
<1>a. ASSUME NEW r \in Reqs, MudaSo(r), pedido[r].fase # "fim"
      PROVE  \A q \in Reqs : pedido[q].fase = "fim" => pedido'[q] = pedido[q]
  BY <1>a DEF MudaSo
<1>1. ASSUME NEW c \in Compras, \/ SelectCpf(c) \/ SelectVin(c) \/ FlushCliente(c) \/ FlushVeiculo(c)
                                \/ CommitCompra(c)
      PROVE  \A q \in Reqs : pedido[q].fase = "fim" => pedido'[q] = pedido[q]
  BY <1>0, <1>1, <1>a, PassoInstrucao, PassoCommitCompra
<1>2. ASSUME NEW p \in Patches, Carregar(p) \/ FlushPatch(p) \/ CommitPatch(p)
      PROVE  \A q \in Reqs : pedido[q].fase = "fim" => pedido'[q] = pedido[q]
  <2>1. MudaSo(p) /\ pedido[p].fase # "fim"
    <3>1. CASE Carregar(p) \/ FlushPatch(p)
      BY <3>1, PassoLeitura
    <3>2. CASE CommitPatch(p)
      BY <3>2, PatchResponde
    <3>3. QED  BY <1>2, <3>1, <3>2
  <2>2. QED  BY <1>0, <1>a, <2>1
<1>3. ASSUME NEW d \in Detalhes, obter(d)
      PROVE  \A q \in Reqs : pedido[q].fase = "fim" => pedido'[q] = pedido[q]
  BY <1>0, <1>3, <1>a, PassoDetalhe
<1>4. ASSUME NEW a \in Auditores, list_audit_log(a)
      PROVE  \A q \in Reqs : pedido[q].fase = "fim" => pedido'[q] = pedido[q]
  <2>1. pedido[a].fase = "trilha"
    BY <1>4 DEF list_audit_log
  <2>2. QED  BY <1>0, <1>4, <1>a, <2>1, PassoAuditor
<1>5. ASSUME NEW r \in Reqs, Receber(r) \/ Falhar(r) \/ Enviar(r)
      PROVE  \A q \in Reqs : pedido[q].fase = "fim" => pedido'[q] = pedido[q]
  BY <1>5, <1>a, PassoReceber, PassoComum
<1>6. ASSUME NEW l \in Leitores, Listar(l)  PROVE UNCHANGED pedido
  BY <1>6 DEF Listar
<1>7. ASSUME NEW j \in Jobs, JobAvanca(j) \/ CommitJob(j)  PROVE UNCHANGED pedido
  BY <1>7 DEF JobAvanca, SelectExpired, AnonimizarCliente, AbortarJob, CommitJob
<1>8. CairGateway => \A q \in Reqs : pedido[q].fase = "fim" => pedido'[q] = pedido[q]
  BY PassoQueda
<1>9. QED  BY <1>1, <1>2, <1>3, <1>4, <1>5, <1>6, <1>7, <1>8, PassosDeNext DEF dominio

\* The trail grows by X, and X accounts for what the step did to the tables.
LEMMA TrilhaCresce ==
  ASSUME TrilhaInv, NEW X, trilha' = trilha \cup X,
         \A r \in Reqs : pedido[r].fase = "fim" => pedido'[r] = pedido[r],
         \A i \in Ids : clientes'[i] # Nulo <=>
             clientes[i] # Nulo \/ Evento("CLIENTE_CREATED", i, i, Nulo) \in X,
         \A i \in Ids : leads'[i] # Nulo <=>
             leads[i] # Nulo \/ Evento("LEAD_CREATED", i, i, Nulo) \in X,
         \A i \in Ids : \A j \in Jobs : clientes'[i] = AnonimoDe(i, j) =>
             \/ clientes[i] = AnonimoDe(i, j)
             \/ \E e \in X : e.acao = "CLIENTE_ANONYMIZED" /\ e.alvo = i /\ e.autor = j,
         \A i \in Ids : Anonima(i) \/ (\E e \in X : e.acao = "CLIENTE_ANONYMIZED" /\ e.alvo = i)
             => \E j \in Jobs : clientes'[i] = AnonimoDe(i, j),
         \A i \in Ids : leads'[i] # Nulo /\ leads'[i].status # "aberto" =>
             \/ leads[i] # Nulo /\ leads'[i].status = leads[i].status
             \/ \E e \in X : Explica(e, i, leads'[i].status),
         \A e \in X : e.acao = "FORBIDDEN_ACCESS" =>
             e.autor \in Reqs /\ pedido'[e.autor].fase = "fim" /\ pedido'[e.autor].resposta = 403
  PROVE  TrilhaInv'
<1>1. \A i \in Ids : clientes'[i] # Nulo <=> Evento("CLIENTE_CREATED", i, i, Nulo) \in trilha'
  BY DEF TrilhaInv
<1>2. \A i \in Ids : leads'[i] # Nulo <=> Evento("LEAD_CREATED", i, i, Nulo) \in trilha'
  BY DEF TrilhaInv
<1>3. \A i \in Ids : /\ \A j \in Jobs : clientes'[i] = AnonimoDe(i, j) => j \in AnonimizadoPor(i)'
                     /\ AnonimizadoPor(i)' # {} => \E j \in Jobs : clientes'[i] = AnonimoDe(i, j)
  <2>1. \A i, j : j \in AnonimizadoPor(i)' <=>
            \/ j \in AnonimizadoPor(i)
            \/ \E e \in X : e.acao = "CLIENTE_ANONYMIZED" /\ e.alvo = i /\ e.autor = j
    BY DEF AnonimizadoPor
  <2>2. QED  BY <2>1 DEF TrilhaInv
<1>4. \A i \in Ids : leads'[i] # Nulo /\ leads'[i].status # "aberto" =>
          \E e \in trilha' : Explica(e, i, leads'[i].status)
  BY DEF TrilhaInv
<1>5. \A e \in trilha' : e.acao = "FORBIDDEN_ACCESS" =>
          e.autor \in Reqs /\ pedido'[e.autor].fase = "fim" /\ pedido'[e.autor].resposta = 403
  BY DEF TrilhaInv
<1>6. \A i : /\ \A j : (AnonimoDe(i, j))' = AnonimoDe(i, j)
             /\ Anonima(i)' <=> \E j \in Jobs : clientes'[i] = AnonimoDe(i, j)
  BY AnonimaDepois
<1>7. QED  BY <1>1, <1>2, <1>3, <1>4, <1>5, <1>6 DEF TrilhaInv, Evento, Explica

\* Events of kinds that account for nothing leave the rest as it was.
LEMMA TrilhaNeutra ==
  ASSUME TrilhaInv, NEW X, trilha' = trilha \cup X, UNCHANGED <<clientes, leads>>,
         \A r \in Reqs : pedido[r].fase = "fim" => pedido'[r] = pedido[r],
         \A e \in X : /\ e.acao \notin {"CLIENTE_CREATED", "LEAD_CREATED", "CLIENTE_ANONYMIZED"}
                      /\ e.acao = "FORBIDDEN_ACCESS" =>
                           /\ e.autor \in Reqs /\ pedido'[e.autor].fase = "fim"
                           /\ pedido'[e.autor].resposta = 403
  PROVE  TrilhaInv'
<1>1. \A i : Evento("CLIENTE_CREATED", i, i, Nulo) \notin X /\ Evento("LEAD_CREATED", i, i, Nulo) \notin X
  BY Campos
<1>2. \A i \in Ids : Anonima(i) => \E j \in Jobs : clientes'[i] = AnonimoDe(i, j)
  BY DEF Anonima
<1>3. \A e \in X : e.acao # "CLIENTE_ANONYMIZED"
  OBVIOUS
<1>4. QED  BY <1>1, <1>2, <1>3, TrilhaCresce

\* Every commit writes its events with its rows.
LEMMA TrilhaStep ==
  PedidoInv /\ JobInv /\ LinhaInv /\ LeadInv /\ TrilhaInv /\ [Next]_vars => TrilhaInv'
<1> SUFFICES ASSUME PedidoInv, JobInv, LinhaInv, LeadInv, TrilhaInv, [Next]_vars
             PROVE  TrilhaInv'
  OBVIOUS
<1>f. \A r \in Reqs : pedido[r].fase = "fim" => pedido'[r] = pedido[r]
  BY FimFica
<1>n. UNCHANGED <<clientes, leads, trilha>> => TrilhaInv'
  <2>1. ASSUME UNCHANGED <<clientes, leads, trilha>>  PROVE TrilhaInv'
    <3> DEFINE X == {e \in trilha : FALSE}
    <3>1. trilha' = trilha \cup X /\ \A e \in X : FALSE
      BY <2>1
    <3> HIDE DEF X
    <3>2. QED  BY <1>f, <2>1, <3>1, TrilhaNeutra
  <2>2. QED  BY <2>1
<1>1. ASSUME NEW c \in Compras, CommitCompra(c)  PROVE TrilhaInv'
  <2> DEFINE a == Evento("CLIENTE_CREATED", c, c, Nulo)
             b == Evento("LEAD_CREATED", c, c, Nulo)
             X == {a} \cup (IF GeraLead(c) THEN {b} ELSE {})
  <2>1. /\ clientes' = [clientes EXCEPT ![c] = ClienteNovo(c)] /\ pedido[c].fase = "commit"
        /\ leads' = [leads EXCEPT ![c] = IF GeraLead(c) THEN LeadNovo(c) ELSE Nulo]
        /\ trilha' = trilha \cup X
    BY <1>1, PassoCommitCompra
  <2>2. /\ c \in Ids /\ ClienteNovo(c) # Nulo /\ LeadNovo(c) # Nulo /\ LeadNovo(c).status = "aberto"
        /\ \A j \in Jobs : AnonimoDe(c, j) # Nulo /\ AnonimoDe(c, j) # ClienteNovo(c)
        /\ clientes = [i \in Ids |-> clientes[i]] /\ leads = [i \in Ids |-> leads[i]]
    BY LinhasValidas, LeadValido, AnonimoNaoNovo DEF Ids, LeadNovo, LinhaInv, LeadInv
  <2>3. clientes[c] = Nulo /\ leads[c] = Nulo
    BY <2>1, <2>2 DEF LinhaInv, LeadInv
  <2>4. \A i \in Ids : \/ i = c /\ clientes'[i] = ClienteNovo(c)
                           /\ leads'[i] = IF GeraLead(c) THEN LeadNovo(c) ELSE Nulo
                       \/ i # c /\ clientes'[i] = clientes[i] /\ leads'[i] = leads[i]
    BY <2>1, <2>2
  <2>5. \A i : /\ Evento("CLIENTE_CREATED", i, i, Nulo) \in X <=> i = c
               /\ Evento("LEAD_CREATED", i, i, Nulo) \in X <=> i = c /\ GeraLead(c)
    <3>1. \A i : /\ Evento("CLIENTE_CREATED", i, i, Nulo) = a <=> i = c
                 /\ Evento("CLIENTE_CREATED", i, i, Nulo) # b
                 /\ Evento("LEAD_CREATED", i, i, Nulo) # a
                 /\ Evento("LEAD_CREATED", i, i, Nulo) = b <=> i = c
      BY Campos
    <3> HIDE DEF a, b
    <3>2. QED  BY <3>1
  <2>6. \A e \in X : e.acao \in {"CLIENTE_CREATED", "LEAD_CREATED"}
    BY Campos
  <2> HIDE DEF X
  <2>7. \A i \in Ids : clientes'[i] # Nulo <=>
            clientes[i] # Nulo \/ Evento("CLIENTE_CREATED", i, i, Nulo) \in X
    BY <2>2, <2>3, <2>4, <2>5
  <2>8. \A i \in Ids : leads'[i] # Nulo <=>
            leads[i] # Nulo \/ Evento("LEAD_CREATED", i, i, Nulo) \in X
    BY <2>2, <2>3, <2>4, <2>5
  <2>9. /\ \A i \in Ids : \A j \in Jobs : clientes'[i] = AnonimoDe(i, j) => clientes[i] = AnonimoDe(i, j)
        /\ \A i \in Ids : Anonima(i) => \E j \in Jobs : clientes'[i] = AnonimoDe(i, j)
    BY <2>2, <2>3, <2>4 DEF Anonima
  <2>10. \A i \in Ids : leads'[i] # Nulo /\ leads'[i].status # "aberto" =>
             leads[i] # Nulo /\ leads'[i].status = leads[i].status
    BY <2>2, <2>4
  <2>11. \A e \in X : e.acao \notin {"CLIENTE_ANONYMIZED", "FORBIDDEN_ACCESS"}
    BY <2>6
  <2>12. trilha' = trilha \cup X /\ \A e \in X : e.acao # "CLIENTE_ANONYMIZED"
    BY <2>1, <2>11
  <2>13. \A e \in X : e.acao # "FORBIDDEN_ACCESS"
    BY <2>11
  <2>14. QED  BY <1>f, <2>7, <2>8, <2>9, <2>10, <2>12, <2>13, TrilhaCresce
<1>2. ASSUME NEW p \in Patches, CommitPatch(p)  PROVE TrilhaInv'
  <2> DEFINE i == LeadDe[p]
             n == [campo \in DOMAIN leads[i] |->
                     IF campo \in Alterado(p) THEN CorpoDe[p][campo] ELSE leads[i][campo]]
             e == EventoDoPatch(p)
  <2>1. /\ UNCHANGED clientes /\ leads' = [leads EXCEPT ![i] = n] /\ trilha' = trilha \cup {e}
        /\ pedido[p].fase = "commit_patch"
    BY <1>2, PassoCommitPatch
  <2>2. i \in Ids /\ leads[i] \in Lead /\ leads[i] # Nulo
    BY <2>1, ConstantesDominio DEF LeadInv
  <2>3. /\ n \in Lead
        /\ n.status = IF "status" \in Alterado(p) THEN CorpoDe[p].status ELSE leads[i].status
    BY <2>2, LeadAlterado
  <2>4. "status" \in Alterado(p) => CorpoDe[p].status # pedido[p].lido.status
    BY DEF Alterado
  <2>5. e.acao = "LEAD_PATCHED" /\ e.autor = p /\ e.alvo = i /\ e.de = pedido[p].lido.status
    BY Campos DEF EventoDoPatch
  <2>6. n # Nulo
    BY <2>3, NuloDominio
  <2> HIDE DEF n, i, e
  <2>7. \A k \in Ids : leads'[k] = IF k = i THEN n ELSE leads[k]
    BY <2>1, <2>2 DEF LeadInv
  <2>8. \A k : Evento("CLIENTE_CREATED", k, k, Nulo) \notin {e} /\ Evento("LEAD_CREATED", k, k, Nulo) \notin {e}
    BY <2>5, Campos
  <2>9. \A k \in Ids : leads'[k] # Nulo <=> leads[k] # Nulo
    BY <2>2, <2>6, <2>7
  <2>10. ASSUME NEW k \in Ids, leads'[k] # Nulo
         PROVE  \/ leads[k] # Nulo /\ leads'[k].status = leads[k].status
                \/ Explica(e, k, leads'[k].status)
    <3>1. CASE k = i /\ "status" \in Alterado(p)
      BY <2>3, <2>4, <2>5, <2>7, <3>1 DEF Explica
    <3>2. CASE k = i /\ "status" \notin Alterado(p)
      BY <2>2, <2>3, <2>7, <3>2
    <3>3. CASE k # i
      BY <2>7, <2>10, <3>3
    <3>4. QED  BY <3>1, <3>2, <3>3
  <2> DEFINE X == {e}
  <2>11. trilha' = trilha \cup X
    BY <2>1
  <2>12. \A x \in X : x.acao # "CLIENTE_ANONYMIZED" /\ x.acao # "FORBIDDEN_ACCESS"
    BY <2>5
  <2>13. \A k \in Ids : leads'[k] # Nulo /\ leads'[k].status # "aberto" =>
             \/ leads[k] # Nulo /\ leads'[k].status = leads[k].status
             \/ \E x \in X : Explica(x, k, leads'[k].status)
    BY <2>10
  <2>14. /\ \A k \in Ids : clientes'[k] # Nulo <=>
                clientes[k] # Nulo \/ Evento("CLIENTE_CREATED", k, k, Nulo) \in X
         /\ \A k \in Ids : leads'[k] # Nulo <=>
                leads[k] # Nulo \/ Evento("LEAD_CREATED", k, k, Nulo) \in X
    BY <2>1, <2>8, <2>9
  <2> HIDE DEF X
  <2>15. /\ \A k \in Ids : \A j \in Jobs : clientes'[k] = AnonimoDe(k, j) =>
                \/ clientes[k] = AnonimoDe(k, j)
                \/ \E x \in X : x.acao = "CLIENTE_ANONYMIZED" /\ x.alvo = k /\ x.autor = j
         /\ \A k \in Ids : Anonima(k) \/ (\E x \in X : x.acao = "CLIENTE_ANONYMIZED" /\ x.alvo = k)
                => \E j \in Jobs : clientes'[k] = AnonimoDe(k, j)
    BY <2>1, <2>12 DEF Anonima
  <2>16. \A x \in X : x.acao = "FORBIDDEN_ACCESS" =>
             x.autor \in Reqs /\ pedido'[x.autor].fase = "fim" /\ pedido'[x.autor].resposta = 403
    BY <2>12
  <2>17. QED  BY <1>f, <2>11, <2>13, <2>14, <2>15, <2>16, TrilhaCresce
<1>3. ASSUME NEW r \in Reqs, Receber(r)  PROVE TrilhaInv'
  <2> DEFINE e == Evento("FORBIDDEN_ACCESS", r, Nulo, Nulo)
  <2>1. /\ UNCHANGED <<clientes, leads>>
        /\ \/ UNCHANGED trilha
           \/ /\ trilha' = trilha \cup {e} /\ pedido'[r].fase = "fim" /\ pedido'[r].resposta = 403
    BY <1>3, PassoReceber
  <2>2. e.acao = "FORBIDDEN_ACCESS" /\ e.autor = r
    BY Campos
  <2> DEFINE X == {e}
  <2>3. \A f \in X : f = e
    OBVIOUS
  <2> HIDE DEF e
  <2>4. UNCHANGED trilha \/ /\ trilha' = trilha \cup X /\ pedido'[r].fase = "fim"
                            /\ pedido'[r].resposta = 403
    BY <2>1
  <2> HIDE DEF X
  <2>5. QED  BY <1>f, <1>n, <2>1, <2>2, <2>3, <2>4, TrilhaNeutra
<1>4. ASSUME NEW l \in Leitores, Listar(l)  PROVE TrilhaInv'
  <2> DEFINE X == maybe_alert_mass_query(l)
  <2>1. /\ UNCHANGED <<clientes, leads>> /\ trilha' = trilha \cup X
    BY <1>4 DEF Listar
  <2>2. \A e \in X : e.acao = "MASS_QUERY_DETECTED"
    BY Campos DEF maybe_alert_mass_query, Alerta
  <2> HIDE DEF X
  <2>3. QED  BY <1>f, <2>1, <2>2, TrilhaNeutra
<1>5. ASSUME NEW j \in Jobs, CommitJob(j)  PROVE TrilhaInv'
  <2> DEFINE X == {Evento("CLIENTE_ANONYMIZED", j, i, Nulo) : i \in feitos(j)}
  <2>1. /\ feitos(j) \subseteq Antigos /\ UNCHANGED leads
        /\ clientes' = [i \in Ids |-> IF i \in feitos(j) THEN AnonimoDe(i, j) ELSE clientes[i]]
        /\ trilha' = trilha \cup X
    BY <1>5, PassoCommitJob
  <2>2. \A e \in X : e.acao = "CLIENTE_ANONYMIZED" /\ e.autor = j /\ e.alvo \in feitos(j)
    BY Campos
  <2>3. \A i \in feitos(j) : \E e \in X : e.alvo = i
    BY Campos
  <2> HIDE DEF X
  <2>4. \A i : Evento("CLIENTE_CREATED", i, i, Nulo) \notin X /\ Evento("LEAD_CREATED", i, i, Nulo) \notin X
    BY <2>2, Campos
  <2>5. \A i \in Ids : clientes'[i] # Nulo <=> clientes[i] # Nulo
    BY <2>1, LinhasValidas DEF LinhaInv
  <2>6. \A i \in Ids : \A k \in Jobs : clientes'[i] = AnonimoDe(i, k) =>
            \/ clientes[i] = AnonimoDe(i, k)
            \/ \E e \in X : e.acao = "CLIENTE_ANONYMIZED" /\ e.alvo = i /\ e.autor = k
    BY <2>1, <2>2, <2>3, AnonimoNaoNovo
  <2>8. \A i \in Ids : Anonima(i) \/ (\E e \in X : e.acao = "CLIENTE_ANONYMIZED" /\ e.alvo = i)
            => \E k \in Jobs : clientes'[i] = AnonimoDe(i, k)
    BY <2>1, <2>2 DEF Anonima
  <2>9. QED  BY <1>f, <2>1, <2>2, <2>4, <2>5, <2>6, <2>8, TrilhaCresce
<1>6. \/ UNCHANGED <<clientes, leads, trilha>>
      \/ \E c \in Compras : CommitCompra(c)
      \/ \E p \in Patches : CommitPatch(p)
      \/ \E r \in Reqs : Receber(r)
      \/ \E l \in Leitores : Listar(l)
      \/ \E j \in Jobs : CommitJob(j)
  BY PassosDeNext DEF SelectCpf, SelectVin, FlushCliente, FlushVeiculo, Instrucao,
       Carregar, FlushPatch, obter, list_audit_log, Falhar, Enviar,
       JobAvanca, SelectExpired, AnonimizarCliente, AbortarJob, CairGateway, tabelas, dominio
<1>7. QED  BY <1>n, <1>1, <1>2, <1>3, <1>4, <1>5, <1>6

-----------------------------------------------------------------------------
(* The theorems *)

IInv ==
    /\ PedidoInv /\ JobInv /\ LinhaInv /\ UmaVezInv /\ LeadInv
    /\ ChaveInv /\ RespostaInv /\ TrilhaInv

\* No step leaves the invariant, whatever fails or dies.
LEMMA Indutivo == Spec => []IInv
<1>1. Init => IInv
  BY PedidoInit, JobInit, LinhaInit, UmaVezInit, LeadInit, ChaveInit, RespostaInit, TrilhaInit DEF IInv
<1>2. IInv /\ [Next]_vars => IInv'
  BY PedidoStep, JobStep, LinhaStep, UmaVezStep, LeadStep, ChaveStep, RespostaStep, TrilhaStep DEF IInv
<1>3. QED  BY <1>1, <1>2, PTL DEF Spec

\* No two clientes ever share a CPF hash, nor two veiculos a VIN, for any number of purchases,
\* jobs and restarts (cliente_service.cadastrar_compra, retention_service, 0001_initial).
THEOREM UnicidadeGarantida == Spec => []UnicidadeCpfVin
<1>1. IInv => UnicidadeCpfVin
  BY DEF IInv, ChaveInv
<1>2. QED  BY <1>1, Indutivo, PTL

\* No step of a request, a job or a restart gives an anonymised row its CPF or its contact back or
\* changes perfil or score, and only a job that read the row before another one anonymised it
\* writes it again, once, with a date of its own (retention_service.py:4-10, 40-82).
THEOREM AnonimizacaoGarantida == Spec => AnonimizacaoDefinitiva
<1> DEFINE P == \A i \in Gravados :
          LET antes == clientes[i]  depois == clientes'[i] IN
          /\ depois # Nulo
          /\ depois.perfil = antes.perfil /\ depois.score = antes.score
          /\ depois.anonimizado_em # Nulo =>
                depois.cpf = pseudonymize(i) /\ depois.cpf_hash = pseudonymize(i) /\ depois.contato = {}
          /\ depois # antes =>
                \E j \in Jobs : /\ depois.anonimizado_em = j /\ j # antes.anonimizado_em
                               /\ i \in feitos(j)
<1>1. ASSUME IInv, [Next]_vars  PROVE P
  <2>1. ASSUME NEW i \in Ids, clientes[i] # Nulo
        PROVE  LET antes == clientes[i]  depois == clientes'[i] IN
               /\ depois # Nulo
               /\ depois.perfil = antes.perfil /\ depois.score = antes.score
               /\ depois.anonimizado_em # Nulo =>
                     /\ depois.cpf = pseudonymize(i) /\ depois.cpf_hash = pseudonymize(i)
                     /\ depois.contato = {}
               /\ depois # antes =>
                     \E j \in Jobs : /\ depois.anonimizado_em = j /\ j # antes.anonimizado_em
                                    /\ i \in feitos(j)
    <3> DEFINE r == classificar(DigestDe[i])
               novo == ClienteNovo(i)
               anonimo(j) == AnonimoDe(i, j)
    <3>1. /\ novo.perfil = r.perfil /\ novo.score = r.score /\ novo.anonimizado_em = Nulo /\ novo # Nulo
          /\ \A j \in Jobs :
                /\ anonimo(j).perfil = r.perfil /\ anonimo(j).score = r.score
                /\ anonimo(j).anonimizado_em = j /\ anonimo(j).contato = {} /\ anonimo(j) # Nulo
                /\ anonimo(j).cpf = pseudonymize(i) /\ anonimo(j).cpf_hash = pseudonymize(i)
      BY LinhasValidas DEF ClienteNovo, AnonimoDe
    <3>2. clientes[i] = novo \/ \E j \in Jobs : clientes[i] = anonimo(j)
      BY <1>1, <2>1 DEF IInv, LinhaInv, Anonima
    <3>3. \/ clientes'[i] = clientes[i]
          \/ \E j \in Jobs : /\ i \in feitos(j) /\ clientes'[i] = anonimo(j)
                             /\ clientes[i] # anonimo(j)
      <4>1. \A j \in Jobs : CommitJob(j) => clientes[i] # anonimo(j)
        BY <1>1, <2>1 DEF IInv, UmaVezInv, CommitJob
      <4>2. QED  BY <1>1, <2>1, <4>1, LinhaFica DEF IInv
    <3> HIDE DEF novo, anonimo, r
    <3>4. \A j \in Jobs : clientes[i] # anonimo(j) => clientes[i].anonimizado_em # j
      BY <3>1, <3>2, NuloDominio
    <3>5. QED  BY <3>1, <3>2, <3>3, <3>4
  <2>2. QED  BY <2>1 DEF Gravados
<1>2. IInv /\ [Next]_vars => [P]_vars
  BY <1>1
<1>3. QED  BY <1>2, Indutivo, PTL DEF Spec, AnonimizacaoDefinitiva

\* Every answer of the standalone Gateway tells the truth, and it stays true: refusals leave no
\* row and no event, a 409 has its other cliente, a 201 and a 200 are stored, a detail shows
\* what never changes back, no CPF in clear, and the contact the purchase gave, whole or, once
\* anonymised, not at all (cliente_service.py, lead_service.py).
THEOREM RespostaGarantida == Spec => []RespostaVerdadeira
<1>1. ASSUME IInv  PROVE RespostaVerdadeira
  <2>0. /\ \A c \in Compras : c \in Ids
        /\ \A d \in Detalhes : LeadDe[d] \in Ids
    BY ConstantesDominio DEF Ids
  <2>1. ASSUME NEW c \in Compras
        PROVE  /\ pedido[c].resposta = 201 => c \in Gravados /\ (GeraLead(c) => leads[c] # Nulo)
               /\ pedido[c].resposta \in {401, 403, 409, 422} => c \notin Gravados /\ leads[c] = Nulo
               /\ pedido[c].resposta = 409 =>
                     \E i \in Gravados \ {c} : CpfDe[i] = CpfDe[c] \/ VinDe[i] = VinDe[c]
    <3>1. c \in Ids /\ (leads[c] # Nulo <=> clientes[c] # Nulo /\ GeraLead(c))
      BY <1>1, <2>0 DEF IInv, LeadInv
    <3>2. /\ pedido[c].resposta = 201 => clientes[c] # Nulo
          /\ pedido[c].resposta \in {401, 403, 409, 422} => clientes[c] = Nulo
          /\ pedido[c].resposta = 409 =>
                \E i \in Ids : clientes[i] # Nulo /\ (CpfDe[i] = CpfDe[c] \/ VinDe[i] = VinDe[c])
      BY <1>1 DEF IInv, RespostaInv
    <3>3. QED  BY <3>1, <3>2 DEF Gravados
  <2>2. ASSUME NEW p \in Patches
        PROVE  /\ pedido[p].resposta = 200 => \E e \in trilha : e.acao = "LEAD_PATCHED" /\ e.autor = p
               /\ pedido[p].resposta \in {401, 403, 404, 422} =>
                     ~ \E e \in trilha : e.acao = "LEAD_PATCHED" /\ e.autor = p
    <3>1. p \in Patchados <=> \E e \in trilha : e.acao = "LEAD_PATCHED" /\ e.autor = p
      BY DEF Patchados
    <3>2. /\ p \in Patchados => pedido[p].resposta \in {200, 500, PERDIDA}
          /\ pedido[p].resposta = 200 => p \in Patchados
      BY <1>1 DEF IInv, RespostaInv
    <3>3. QED  BY <3>1, <3>2 DEF PERDIDA
  <2>3. ASSUME NEW d \in Detalhes, pedido[d].resposta = 200
        PROVE  LET i == LeadDe[d]  visto == pedido[d].lido
                   mostra == {campo \in {"email", "telefone"} :
                                 visto.cliente.contato_masked[campo] # Nulo} IN
               /\ visto.lead.score = leads[i].score /\ visto.cliente.perfil = clientes[i].perfil
               /\ visto.cliente.cpf_masked \in {MASCARADO, pseudonymize(i)}
               /\ \/ mostra = ContatoDe[i]
                  \/ mostra = {} /\ clientes[i].anonimizado_em # Nulo
    <3> DEFINE i == LeadDe[d]
    <3>1. /\ leads[i] # Nulo
          /\ pedido[d].lido.lead.score = LeadNovo(i).score
          /\ pedido[d].lido.cliente.perfil = classificar(DigestDe[i]).perfil
          /\ pedido[d].lido.cliente.cpf_masked \in {MASCARADO, pseudonymize(i)}
          /\ \/ Mostra(pedido[d].lido.cliente) = ContatoDe[i]
             \/ Mostra(pedido[d].lido.cliente) = {} /\ Anonima(i)
      BY <1>1, <2>3 DEF IInv, RespostaInv
    <3>2. i \in Ids /\ leads[i].score = LeadNovo(i).score /\ clientes[i] # Nulo
      BY <1>1, <2>0, <3>1 DEF IInv, LeadInv
    <3>3. clientes[i] = ClienteNovo(i) \/ Anonima(i)
      BY <1>1, <3>2 DEF IInv, LinhaInv
    <3>4. /\ ClienteNovo(i).perfil = classificar(DigestDe[i]).perfil
          /\ \A j \in Jobs : /\ AnonimoDe(i, j).perfil = classificar(DigestDe[i]).perfil
                             /\ AnonimoDe(i, j).anonimizado_em # Nulo
      BY NuloDominio DEF ClienteNovo, AnonimoDe
    <3> HIDE DEF i
    <3>5. /\ pedido[d].lido.lead.score = leads[i].score
          /\ pedido[d].lido.cliente.perfil = clientes[i].perfil
          /\ pedido[d].lido.cliente.cpf_masked \in {MASCARADO, pseudonymize(i)}
          /\ \/ Mostra(pedido[d].lido.cliente) = ContatoDe[i]
             \/ Mostra(pedido[d].lido.cliente) = {} /\ clientes[i].anonimizado_em # Nulo
      BY <3>1, <3>2, <3>3, <3>4 DEF Anonima
    <3>6. QED  BY <3>5 DEF i, Mostra
  <2>4. QED  BY <2>1, <2>2, <2>3 DEF RespostaVerdadeira
<1>2. QED  BY <1>1, Indutivo, PTL

\* The trail and the tables tell the same story, both ways, for any interleaving of purchases,
\* patches and jobs (audit_service.py, lead_service.py:114-126, retention_service.py:60-82).
THEOREM AuditoriaGarantida == Spec => []AuditoriaDominio
<1>1. ASSUME IInv  PROVE AuditoriaDominio
  <2>1. /\ \A i \in Ids : i \in Gravados <=> Evento("CLIENTE_CREATED", i, i, Nulo) \in trilha
        /\ \A i \in Ids : leads[i] # Nulo <=> Evento("LEAD_CREATED", i, i, Nulo) \in trilha
    BY <1>1 DEF IInv, TrilhaInv, Gravados
  <2>2. ASSUME NEW i \in Gravados
        PROVE  /\ leads[i] # Nulo <=> clientes[i].perfil \in PERFIS_GERAM_LEAD
               /\ IF AnonimizadoPor(i) = {} THEN clientes[i].anonimizado_em = Nulo
                  ELSE clientes[i].anonimizado_em \in AnonimizadoPor(i)
    <3> DEFINE r == classificar(DigestDe[i])
               novo == ClienteNovo(i)
               anonimo(j) == AnonimoDe(i, j)
    <3>1. i \in Ids /\ clientes[i] # Nulo
      BY <2>2 DEF Gravados
    <3>2. /\ novo.perfil = r.perfil /\ novo.anonimizado_em = Nulo
          /\ \A j : anonimo(j).perfil = r.perfil /\ anonimo(j).anonimizado_em = j
      BY DEF ClienteNovo, AnonimoDe
    <3>3. clientes[i] = novo \/ \E j \in Jobs : clientes[i] = anonimo(j)
      BY <1>1, <3>1 DEF IInv, LinhaInv, Anonima
    <3>4. leads[i] # Nulo <=> r.perfil \in PERFIS_GERAM_LEAD
      BY <1>1, <3>1 DEF IInv, LeadInv, GeraLead
    <3>5. /\ \A j \in Jobs : clientes[i] = anonimo(j) => j \in AnonimizadoPor(i)
          /\ AnonimizadoPor(i) # {} => \E j \in Jobs : clientes[i] = anonimo(j)
      BY <1>1, <3>1 DEF IInv, TrilhaInv, Anonima
    <3> HIDE DEF r, novo, anonimo
    <3>6. QED  BY <3>2, <3>3, <3>4, <3>5
  <2>3. \A i \in ExisteLead : leads[i].status # "aberto" =>
            \E e \in trilha : /\ e.acao = "LEAD_PATCHED" /\ e.alvo = i
                              /\ CorpoDe[e.autor].status = leads[i].status /\ e.de # leads[i].status
    BY <1>1 DEF IInv, TrilhaInv, ExisteLead, Explica
  <2>4. \A e \in trilha : e.acao = "FORBIDDEN_ACCESS" => pedido[e.autor].resposta \in {403, PERDIDA}
    BY <1>1 DEF IInv, TrilhaInv
  <2>5. QED  BY <2>1, <2>2, <2>3, <2>4 DEF AuditoriaDominio, AnonimizadoPor
<1>2. QED  BY <1>1, Indutivo, PTL
=============================================================================
