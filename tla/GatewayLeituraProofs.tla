------------------------ MODULE GatewayLeituraProofs ------------------------
(***************************************************************************)
(* Proofs about those who read while others write, in the standalone       *)
(* Gateway: the counter of listings and its alert, and pages that miss     *)
(* nothing, for any page size, threshold, readers and writers.             *)
(***************************************************************************)
EXTENDS GatewayDominioProofs

-----------------------------------------------------------------------------
(* Positions and pages *)

LEMMA Ate ==
  ASSUME NEW n \in Nat
  PROVE  IsFiniteSet(1..n) /\ Cardinality(1..n) = n
  BY FS_Interval

\* Of a set numbered without gaps from 1, a page that is not the last one is full.
LEMMA PaginaCheia ==
  ASSUME NEW S, IsFiniteSet(S), NEW pos \in Injection(S, 1..Cardinality(S)),
         NEW a \in Nat, NEW tam \in Nat, NEW x \in S, pos[x] > a + tam
  PROVE  Cardinality({i \in S : pos[i] \in a + 1 .. a + tam}) = tam
<1> DEFINE n == Cardinality(S)
           P == {i \in S : pos[i] \in a + 1 .. a + tam}
           J == a + 1 .. a + tam
           f == [i \in P |-> pos[i]]
<1>1. n \in Nat
  BY FS_CardinalityType
<1>2. IsFiniteSet(1..n) /\ Cardinality(1..n) = n
  BY <1>1, Ate
<1>3. pos \in Surjection(S, 1..n)
  BY <1>2, FS_Injection
<1>4. pos[x] \in 1..n
  BY DEF Injection
<1>5. J \subseteq 1..n
  BY <1>1, <1>4
<1>6. IsFiniteSet(P)
  BY FS_Subset
<1> HIDE DEF n
<1>7. f \in [P -> J]
  OBVIOUS
<1>8. \A i, j \in P : f[i] = f[j] => i = j
  BY DEF Injection, IsInjective
<1>9. \A k \in J : \E i \in P : f[i] = k
  <2> TAKE k \in J
  <2>1. PICK i \in S : pos[i] = k
    BY <1>3, <1>5 DEF Surjection
  <2>2. i \in P
    BY <2>1
  <2>3. QED  BY <2>1, <2>2
<1>10. f \in Bijection(P, J)
  BY <1>7, <1>8, <1>9 DEF Bijection, Injection, Surjection, IsInjective
<1>11. Cardinality(J) = Cardinality(P)
  BY <1>6, <1>10, FS_Bijection DEF ExistsBijection
<1>12. Cardinality(J) = tam
  BY FS_Interval
<1>13. QED  BY <1>11, <1>12

\* The numbers of the first pages reach as far as their product with the page.
LEMMA Paginas ==
  ASSUME NEW p \in Nat
  PROVE  /\ p * PER_PAGE \in Nat /\ (p + 1) * PER_PAGE = p * PER_PAGE + PER_PAGE
         /\ NaPagina(p + 1) = p * PER_PAGE + 1 .. p * PER_PAGE + PER_PAGE
<1>1. PER_PAGE \in Nat
  BY ConstantesDominio
<1>2. p * PER_PAGE \in Nat /\ (p + 1) * PER_PAGE = p * PER_PAGE + PER_PAGE
  BY <1>1
<1>3. (p + 1) - 1 = p
  OBVIOUS
<1>4. QED  BY <1>2, <1>3 DEF NaPagina

\* What is dropped from a counter makes it no longer.
LEMMA PodarEncurta ==
  ASSUME NEW s \in Seq(Nat), NEW corte \in Int
  PROVE  Podar(s, corte) \in Seq(Nat) /\ Len(Podar(s, corte)) <= Len(s)
<1> DEFINE v == Cardinality(Velhas(s, corte))
<1>0. Len(s) \in Nat
  OBVIOUS
<1>1. IsFiniteSet(1..Len(s)) /\ Cardinality(1..Len(s)) = Len(s)
  BY <1>0, Ate
<1>2. v \in 0..Len(s)
  <2>1. Velhas(s, corte) \in SUBSET (1..Len(s))
    BY DEF Velhas
  <2>2. IsFiniteSet(Velhas(s, corte)) /\ Cardinality(Velhas(s, corte)) <= Len(s)
    BY <1>1, <2>1, FS_Subset
  <2>3. QED  BY <1>0, <2>2, FS_CardinalityType
<1> HIDE DEF v
<1>3. \A i \in v + 1 .. Len(s) : s[i] \in Nat
  BY <1>2
<1>4. /\ SubSeq(s, v + 1, Len(s)) \in Seq(Nat)
      /\ Len(SubSeq(s, v + 1, Len(s))) = IF v + 1 <= Len(s) THEN Len(s) - (v + 1) + 1 ELSE 0
  BY <1>2, <1>3, SubSeqProperties
<1>5. QED  BY <1>2, <1>4 DEF Podar, v

-----------------------------------------------------------------------------
(* The readers and their counters *)

Principais == {PrincipalDe[l] : l \in Leitores}

FasesDoLeitor     == {"novo", "contar", "listar", "fim"}
RespostasAoLeitor == {Nulo, 200, 500, PERDIDA}
Contagens         == Seq(Nat)
Conjuntos         == SUBSET Ids

TipoLeitura ==
    [fase : FasesDoLeitor, agora : Nat, contas : Contagens, vistos : Conjuntos,
     desde : Conjuntos, resposta : RespostasAoLeitor]

\* Only who has no answer to wait for was told a failure, and a page listed was counted.
Coerente(l) ==
    /\ leitura[l].resposta \in {500, PERDIDA} => leitura[l].fase = "fim"
    /\ leitura[l].fase = "listar" => Len(leitura[l].contas) > 0

LeitorInv ==
    /\ tempo \in Nat
    /\ leitura \in [Leitores -> TipoLeitura] /\ consultas \in [Principais -> Seq(Nat)]
    /\ \A l \in Leitores : Coerente(l)

SoLeitor(l) ==
    /\ leitura' \in [Leitores -> TipoLeitura]
    /\ \A k \in Leitores \ {l} : leitura'[k] = leitura[k]

\* A page is asked for.
LEMMA PassoReceberGet ==
  ASSUME LeitorInv, NEW l \in Leitores, ReceberGet(l)
  PROVE  /\ SoLeitor(l) /\ UNCHANGED <<consultas, tempo, tabelas, pedido, job>>
         /\ leitura[l].fase = "novo" /\ leitura'[l].fase = "contar"
         /\ leitura'[l].contas = leitura[l].contas /\ leitura'[l].vistos = leitura[l].vistos
         /\ leitura'[l].desde = IF leitura[l].contas = <<>> THEN ExisteLead ELSE leitura[l].desde
         /\ leitura'[l].resposta = leitura[l].resposta
<1> DEFINE d == IF leitura[l].contas = <<>> THEN ExisteLead ELSE leitura[l].desde
<1>0. leitura \in [Leitores -> TipoLeitura]
  BY DEF LeitorInv
<1>1. /\ leitura' = [leitura EXCEPT ![l].fase = "contar", ![l].agora = tempo, ![l].desde = d]
      /\ leitura[l].fase = "novo" /\ UNCHANGED <<consultas, tempo, tabelas, pedido, job>>
  BY DEF ReceberGet, LeitorInv
<1>2. leitura[l] \in TipoLeitura /\ tempo \in Nat
  BY DEF LeitorInv
<1>3. d \in SUBSET Ids
  BY <1>2 DEF ExisteLead, TipoLeitura, Conjuntos
<1> HIDE DEF d
<1>4. [leitura[l] EXCEPT !.fase = "contar", !.agora = tempo, !.desde = d] \in TipoLeitura
  BY <1>2, <1>3 DEF TipoLeitura, FasesDoLeitor, Conjuntos
<1>5. leitura' = [leitura EXCEPT ![l] =
                    [leitura[l] EXCEPT !.fase = "contar", !.agora = tempo, !.desde = d]]
  BY <1>0, <1>1
<1>6. leitura'[l] = [leitura[l] EXCEPT !.fase = "contar", !.agora = tempo, !.desde = d]
  BY <1>5 DEF LeitorInv
<1>7. SoLeitor(l)
  BY <1>4, <1>5 DEF LeitorInv, SoLeitor
<1>8. /\ leitura'[l].fase = "contar" /\ leitura'[l].desde = d
      /\ leitura'[l].contas = leitura[l].contas /\ leitura'[l].vistos = leitura[l].vistos
      /\ leitura'[l].resposta = leitura[l].resposta
  BY <1>2, <1>6 DEF TipoLeitura
<1>9. QED  BY <1>1, <1>7, <1>8 DEF d

\* It is counted: the counter grows by one at most.
LEMMA PassoContar ==
  ASSUME LeitorInv, NEW l \in Leitores, Contar(l)
  PROVE  /\ SoLeitor(l) /\ UNCHANGED <<tempo, tabelas, pedido, job>>
         /\ leitura[l].fase = "contar" /\ leitura'[l].fase = "listar"
         /\ leitura'[l].vistos = leitura[l].vistos /\ leitura'[l].desde = leitura[l].desde
         /\ leitura'[l].resposta = leitura[l].resposta
         /\ Len(hit(l)) \in 0 .. Len(consultas[PrincipalDe[l]]) + 1
         /\ leitura'[l].contas = Append(leitura[l].contas, Len(hit(l)))
         /\ consultas' = [consultas EXCEPT ![PrincipalDe[l]] = hit(l)]
         /\ consultas' \in [Principais -> Seq(Nat)]
<1> DEFINE q == PrincipalDe[l]
           s == Append(consultas[q], leitura[l].agora)
           h == hit(l)
<1>0. leitura \in [Leitores -> TipoLeitura]
  BY DEF LeitorInv
<1>1. /\ leitura' = [leitura EXCEPT ![l].fase = "listar", ![l].contas = Append(@, Len(h))]
      /\ leitura[l].fase = "contar" /\ UNCHANGED <<tempo, tabelas, pedido, job>>
      /\ consultas' = [consultas EXCEPT ![q] = h]
  BY DEF Contar
<1>2. leitura[l] \in TipoLeitura /\ consultas[q] \in Seq(Nat) /\ q \in Principais
  BY DEF LeitorInv, Principais
<1>3. leitura[l].agora \in Nat /\ leitura[l].contas \in Seq(Nat)
  BY <1>2 DEF TipoLeitura, Contagens
<1>4. s \in Seq(Nat) /\ Len(s) = Len(consultas[q]) + 1
  BY <1>2, <1>3
<1>5. h \in Seq(Nat) /\ Len(h) <= Len(s)
  <2> HIDE DEF s
  <2>1. leitura[l].agora - window \in Int
    BY <1>3, ConstantesDominio
  <2>2. QED  BY <1>4, <2>1, PodarEncurta DEF hit, s
<1> HIDE DEF s, h
<1>6. Len(h) \in Nat /\ Append(leitura[l].contas, Len(h)) \in Seq(Nat)
  BY <1>3, <1>5
<1>7. leitura' = [leitura EXCEPT ![l] = [leitura[l] EXCEPT !.fase = "listar",
                                          !.contas = Append(leitura[l].contas, Len(h))]]
  BY <1>0, <1>1
<1>8. [leitura[l] EXCEPT !.fase = "listar", !.contas = Append(leitura[l].contas, Len(h))] \in TipoLeitura
  BY <1>2, <1>6 DEF TipoLeitura, FasesDoLeitor, Contagens
<1>9. leitura'[l] = [leitura[l] EXCEPT !.fase = "listar", !.contas = Append(leitura[l].contas, Len(h))]
  BY <1>7 DEF LeitorInv
<1>10. SoLeitor(l)
  BY <1>7, <1>8 DEF LeitorInv, SoLeitor
<1>11. consultas' \in [Principais -> Seq(Nat)]
  BY <1>1, <1>2, <1>5 DEF LeitorInv
<1>12. /\ leitura'[l].fase = "listar" /\ leitura'[l].contas = Append(leitura[l].contas, Len(h))
       /\ leitura'[l].vistos = leitura[l].vistos /\ leitura'[l].desde = leitura[l].desde
       /\ leitura'[l].resposta = leitura[l].resposta
  BY <1>2, <1>9 DEF TipoLeitura
<1>13. Len(h) \in 0 .. Len(consultas[q]) + 1
  BY <1>4, <1>5, <1>6
<1>14. QED  BY <1>1, <1>10, <1>11, <1>12, <1>13 DEF h

\* It is answered, in one commit with the alert it raises.
LEMMA PassoListar ==
  ASSUME LeitorInv, NEW l \in Leitores, Listar(l)
  PROVE  LET itens == Pagina(l, Len(leitura[l].contas)) IN
         /\ SoLeitor(l) /\ UNCHANGED <<tempo, clientes, leads, pedido, consultas, job>>
         /\ leitura[l].fase = "listar" /\ leitura'[l].resposta = 200
         /\ leitura'[l].fase = IF Cardinality(itens) = PER_PAGE THEN "novo" ELSE "fim"
         /\ leitura'[l].contas = leitura[l].contas /\ leitura'[l].desde = leitura[l].desde
         /\ leitura'[l].vistos = leitura[l].vistos \cup itens
         /\ trilha' = trilha \cup maybe_alert_mass_query(l)
<1> DEFINE itens == Pagina(l, Len(leitura[l].contas))
           f == IF Cardinality(itens) = PER_PAGE THEN "novo" ELSE "fim"
<1>0. leitura \in [Leitores -> TipoLeitura]
  BY DEF LeitorInv
<1>1. /\ leitura' = [leitura EXCEPT ![l].vistos = @ \cup itens, ![l].resposta = 200, ![l].fase = f]
      /\ leitura[l].fase = "listar" /\ UNCHANGED <<tempo, clientes, leads, pedido, consultas, job>>
      /\ trilha' = trilha \cup maybe_alert_mass_query(l)
  BY DEF Listar
<1>2. leitura[l] \in TipoLeitura
  BY DEF LeitorInv
<1>3. f \in {"novo", "fim"} /\ itens \subseteq Ids
  BY DEF Pagina, NoFiltro, ExisteLead
<1> HIDE DEF f, itens
<1> DEFINE n == [leitura[l] EXCEPT !.vistos = leitura[l].vistos \cup itens, !.resposta = 200, !.fase = f]
<1>4. n \in TipoLeitura
  <2>1. leitura[l].vistos \cup itens \in Conjuntos
    BY <1>2, <1>3 DEF TipoLeitura, Conjuntos
  <2>2. 200 \in RespostasAoLeitor /\ f \in FasesDoLeitor
    BY <1>3 DEF RespostasAoLeitor, FasesDoLeitor
  <2>3. QED  BY <1>2, <2>1, <2>2 DEF TipoLeitura
<1>5. leitura' = [leitura EXCEPT ![l] = n]
  BY <1>0, <1>1
<1>6. leitura'[l] = n /\ SoLeitor(l)
  BY <1>4, <1>5 DEF LeitorInv, SoLeitor
<1>7. /\ leitura'[l].fase = f /\ leitura'[l].resposta = 200
      /\ leitura'[l].contas = leitura[l].contas /\ leitura'[l].desde = leitura[l].desde
      /\ leitura'[l].vistos = leitura[l].vistos \cup itens
  BY <1>2, <1>6 DEF TipoLeitura
<1>8. QED  BY <1>1, <1>6, <1>7 DEF f, itens

\* Its commit fails, or the process dies before it.
LEMMA PassoFalharGet ==
  ASSUME LeitorInv, NEW l \in Leitores, FalharGet(l)
  PROVE  /\ SoLeitor(l) /\ UNCHANGED <<consultas, tempo, tabelas, pedido, job>>
         /\ leitura[l].fase = "listar" /\ leitura'[l].fase = "fim" /\ leitura'[l].resposta = 500
         /\ leitura'[l].contas = leitura[l].contas /\ leitura'[l].desde = leitura[l].desde
<1>0. leitura \in [Leitores -> TipoLeitura]
  BY DEF LeitorInv
<1>1. /\ leitura' = [leitura EXCEPT ![l].fase = "fim", ![l].resposta = 500]
      /\ leitura[l].fase = "listar" /\ UNCHANGED <<consultas, tempo, tabelas, pedido, job>>
  BY DEF FalharGet
<1>2. leitura[l] \in TipoLeitura
  BY DEF LeitorInv
<1> DEFINE n == [leitura[l] EXCEPT !.fase = "fim", !.resposta = 500]
<1>3. n \in TipoLeitura
  <2>1. 500 \in RespostasAoLeitor /\ "fim" \in FasesDoLeitor
    BY DEF RespostasAoLeitor, FasesDoLeitor
  <2>2. QED  BY <1>2, <2>1, ZenonT(30) DEF TipoLeitura
<1>4. leitura' = [leitura EXCEPT ![l] = n]
  BY <1>1, <1>0, ZenonT(30)
<1>5. leitura'[l] = n /\ SoLeitor(l)
  BY <1>3, <1>4 DEF LeitorInv, SoLeitor
<1>6. /\ leitura'[l].fase = "fim" /\ leitura'[l].resposta = 500
      /\ leitura'[l].contas = leitura[l].contas /\ leitura'[l].desde = leitura[l].desde
  BY <1>2, <1>5 DEF TipoLeitura
<1>7. QED  BY <1>1, <1>5, <1>6

\* The process dies: counters are emptied, readers under way get no answer.
LEMMA QuedaDosLeitores ==
  ASSUME LeitorInv, CairGateway
  PROVE  /\ UNCHANGED <<tempo, tabelas, job>> /\ leitura' \in [Leitores -> TipoLeitura]
         /\ consultas' = [q \in Principais |-> <<>>]
         /\ \A l \in Leitores :
               \/ leitura'[l] = leitura[l] /\ leitura[l].fase \in {"novo", "fim"}
               \/ /\ leitura'[l].fase = "fim" /\ leitura'[l].resposta = PERDIDA
                  /\ leitura[l].fase \in {"contar", "listar"}
                  /\ leitura'[l].contas = leitura[l].contas /\ leitura'[l].desde = leitura[l].desde
<1> DEFINE n(l) == [leitura[l] EXCEPT !.fase = "fim", !.resposta = PERDIDA]
<1>1. /\ leitura' = [l \in Leitores |-> IF leitura[l].fase \in {"novo", "fim"} THEN leitura[l] ELSE n(l)]
      /\ UNCHANGED <<tempo, tabelas, job>> /\ consultas' = [q \in Principais |-> <<>>]
  BY DEF CairGateway, LeitorInv
<1>2. \A l \in Leitores : leitura[l] \in TipoLeitura
  BY DEF LeitorInv
<1>3. \A l \in Leitores : /\ n(l) \in TipoLeitura /\ n(l).fase = "fim" /\ n(l).resposta = PERDIDA
                          /\ n(l).contas = leitura[l].contas /\ n(l).desde = leitura[l].desde
  <2>1. PERDIDA \in RespostasAoLeitor /\ "fim" \in FasesDoLeitor
    BY DEF RespostasAoLeitor, FasesDoLeitor
  <2>2. QED  BY <1>2, <2>1 DEF TipoLeitura
<1> HIDE DEF n
<1>4. leitura' \in [Leitores -> TipoLeitura]
  BY <1>1, <1>2, <1>3
<1>5. QED  BY <1>1, <1>2, <1>3, <1>4 DEF TipoLeitura, FasesDoLeitor

\* Nobody else touches readers or counters, and events are never taken back.
LEMMA PassosDosLeitores ==
  ASSUME [Next]_vars
  PROVE  \/ \E l \in Leitores : ReceberGet(l) \/ Contar(l) \/ Listar(l) \/ FalharGet(l)
         \/ CairGateway
         \/ Relogio
         \/ UNCHANGED <<leitura, consultas, tempo>> /\ trilha \subseteq trilha'
<1> DEFINE Fora == UNCHANGED <<leitura, consultas, tempo>> /\ trilha \subseteq trilha'
<1>1. ASSUME UNCHANGED vars  PROVE Fora
  BY <1>1 DEF vars, tabelas
<1>2. ASSUME Encerrado \/ ArranqueGateway \/ \E c \in Comandos : ComandoGateway(c)  PROVE Fora
  BY <1>2 DEF Encerrado, ArranqueGateway, ComandoGateway, foraDoBoot, vars, tabelas
<1>3. ASSUME NEW r \in Reqs, Receber(r) \/ Falhar(r) \/ Enviar(r)  PROVE Fora
  <2>1. CASE Receber(r)  BY <2>1 DEF Receber
  <2>2. CASE Falhar(r)  BY <2>2 DEF Falhar, tabelas
  <2>3. CASE Enviar(r)  BY <2>3 DEF Enviar, tabelas
  <2>4. QED  BY <1>3, <2>1, <2>2, <2>3
<1>4. ASSUME NEW j \in Jobs, SelectExpired(j) \/ FalharJob(j) \/ RodarJob(j)  PROVE Fora
  <2>1. CASE SelectExpired(j)  BY <2>1 DEF SelectExpired, tabelas
  <2>2. CASE FalharJob(j)  BY <2>2 DEF FalharJob, AbortarJob, tabelas
  <2>3. CASE AnonimizarCliente(j)  BY <2>3 DEF AnonimizarCliente
  <2>4. CASE CommitJob(j)  BY <2>4 DEF CommitJob
  <2>5. CASE DesfazerImpasse(j)  BY <2>5 DEF DesfazerImpasse, AbortarJob, tabelas
  <2>6. QED  BY <1>4, <2>1, <2>2, <2>3, <2>4, <2>5 DEF RodarJob
<1>5. ASSUME NEW c \in Compras, AtenderCompra(c)  PROVE Fora
  <2>1. CASE SelectCpf(c)  BY <2>1 DEF SelectCpf, Instrucao, tabelas
  <2>2. CASE SelectVin(c)  BY <2>2 DEF SelectVin, Instrucao, tabelas
  <2>3. CASE FlushCliente(c)  BY <2>3 DEF FlushCliente, Instrucao, tabelas
  <2>4. CASE FlushVeiculo(c)  BY <2>4 DEF FlushVeiculo, Instrucao, tabelas
  <2>5. CASE CommitCompra(c)  BY <2>5 DEF CommitCompra
  <2>6. CASE Enviar(c)  BY <2>6 DEF Enviar, tabelas
  <2>7. QED  BY <1>5, <2>1, <2>2, <2>3, <2>4, <2>5, <2>6 DEF AtenderCompra
<1>6. ASSUME NEW p \in Patches, AtenderPatch(p)  PROVE Fora
  <2>1. CASE Carregar(p)  BY <2>1 DEF Carregar, tabelas
  <2>2. CASE FlushPatch(p)  BY <2>2 DEF FlushPatch
  <2>3. CASE CommitPatch(p)  BY <2>3 DEF CommitPatch
  <2>4. CASE Enviar(p)  BY <2>4 DEF Enviar, tabelas
  <2>5. QED  BY <1>6, <2>1, <2>2, <2>3, <2>4 DEF AtenderPatch
<1>7. ASSUME NEW d \in Detalhes, AtenderDetalhe(d)  PROVE Fora
  <2>1. CASE obter(d)  BY <2>1 DEF obter, tabelas
  <2>2. CASE Enviar(d)  BY <2>2 DEF Enviar, tabelas
  <2>3. QED  BY <1>7, <2>1, <2>2 DEF AtenderDetalhe
<1>8. ASSUME NEW a \in Auditores, AtenderAuditor(a)  PROVE Fora
  <2>1. CASE list_audit_log(a)  BY <2>1 DEF list_audit_log, tabelas
  <2>2. CASE Enviar(a)  BY <2>2 DEF Enviar, tabelas
  <2>3. QED  BY <1>8, <2>1, <2>2 DEF AtenderAuditor
<1> HIDE DEF Fora
<1>9. ASSUME Andar
      PROVE  Fora \/ \E l \in Leitores : Contar(l) \/ Listar(l)
  BY <1>5, <1>6, <1>7, <1>8, <1>4, <1>9 DEF Andar, AtenderGet
<1>10. QED  BY <1>1, <1>2, <1>3, <1>4, <1>9 DEF Next, Fora

LEMMA LeitorInit == Init => LeitorInv
<1> SUFFICES ASSUME Init  PROVE LeitorInv
  OBVIOUS
<1>1. /\ leitura = [l \in Leitores |-> [fase |-> "novo", agora |-> 0, contas |-> <<>>,
                                        vistos |-> {}, desde |-> {}, resposta |-> Nulo]]
      /\ consultas = [q \in Principais |-> <<>>] /\ tempo = 0
  BY DEF Init, Principais
<1>2. /\ "novo" \in FasesDoLeitor /\ <<>> \in Contagens /\ {} \in Conjuntos
      /\ Nulo \in RespostasAoLeitor
  BY DEF FasesDoLeitor, Contagens, Conjuntos, RespostasAoLeitor
<1>3. leitura \in [Leitores -> TipoLeitura]
  BY <1>1, <1>2 DEF TipoLeitura
<1>4. Nulo # 500 /\ Nulo # PERDIDA
  BY NuloDominio DEF PERDIDA
<1>5. consultas \in [Principais -> Seq(Nat)] /\ tempo \in Nat
  BY <1>1
<1>6. \A l \in Leitores : leitura[l].fase = "novo" /\ leitura[l].resposta = Nulo
  BY <1>1
<1>7. QED  BY <1>3, <1>4, <1>5, <1>6 DEF LeitorInv, Coerente

LEMMA LeitorStep == LeitorInv /\ [Next]_vars => LeitorInv'
<1> SUFFICES ASSUME LeitorInv, [Next]_vars  PROVE LeitorInv'
  OBVIOUS
<1>a. ASSUME NEW l \in Leitores, SoLeitor(l), consultas' \in [Principais -> Seq(Nat)], tempo' \in Nat,
             Coerente(l)'
      PROVE  LeitorInv'
  <2>1. leitura' \in [Leitores -> TipoLeitura] /\ \A k \in Leitores : k = l \/ leitura'[k] = leitura[k]
    BY <1>a DEF SoLeitor
  <2>2. \A k \in Leitores : leitura'[k] = leitura[k] => Coerente(k)'
    BY DEF LeitorInv, Coerente
  <2>3. QED  BY <1>a, <2>1, <2>2 DEF LeitorInv
<1>1. ASSUME NEW l \in Leitores, ReceberGet(l)  PROVE LeitorInv'
  <2>1. SoLeitor(l) /\ UNCHANGED <<consultas, tempo>> /\ leitura[l].fase = "novo"
    BY <1>1, PassoReceberGet
  <2>2. leitura'[l].fase = "contar" /\ leitura'[l].resposta = leitura[l].resposta
    BY <1>1, PassoReceberGet
  <2>3. QED  BY <1>a, <2>1, <2>2 DEF LeitorInv, Coerente
<1>2. ASSUME NEW l \in Leitores, Contar(l)  PROVE LeitorInv'
  <2>1. /\ SoLeitor(l) /\ UNCHANGED tempo /\ consultas' \in [Principais -> Seq(Nat)]
        /\ leitura[l].fase = "contar" /\ leitura'[l].resposta = leitura[l].resposta
    BY <1>2, PassoContar
  <2>2. leitura'[l].contas = Append(leitura[l].contas, Len(hit(l)))
    BY <1>2, PassoContar
  <2>3. leitura[l].contas \in Seq(Nat)
    BY DEF LeitorInv, TipoLeitura, Contagens
  <2>4. Len(leitura'[l].contas) > 0
    BY <2>2, <2>3
  <2>5. QED  BY <1>a, <2>1, <2>4 DEF LeitorInv, Coerente
<1>3. ASSUME NEW l \in Leitores, Listar(l)  PROVE LeitorInv'
  <2>1. SoLeitor(l) /\ UNCHANGED <<consultas, tempo>> /\ leitura'[l].resposta = 200
    BY <1>3, PassoListar
  <2>2. leitura'[l].fase # "listar"
    BY <1>3, PassoListar
  <2>3. QED  BY <1>a, <2>1, <2>2 DEF LeitorInv, Coerente, PERDIDA
<1>4. ASSUME NEW l \in Leitores, FalharGet(l)  PROVE LeitorInv'
  <2>1. SoLeitor(l) /\ UNCHANGED <<consultas, tempo>> /\ leitura'[l].fase = "fim"
    BY <1>4, PassoFalharGet
  <2>2. QED  BY <1>a, <2>1 DEF LeitorInv, Coerente
<1>5. CASE CairGateway
  <2>1. /\ leitura' \in [Leitores -> TipoLeitura] /\ UNCHANGED tempo
        /\ consultas' = [q \in Principais |-> <<>>]
        /\ \A l \in Leitores : \/ leitura'[l] = leitura[l]
                               \/ leitura'[l].fase = "fim"
    BY <1>5, QuedaDosLeitores
  <2>2. consultas' \in [Principais -> Seq(Nat)]
    BY <2>1
  <2>3. QED  BY <2>1, <2>2 DEF LeitorInv, Coerente
<1>6. CASE Relogio
  BY <1>6 DEF Relogio, LeitorInv, Coerente
<1>7. CASE UNCHANGED <<leitura, consultas, tempo>>
  BY <1>7 DEF LeitorInv, Coerente
<1>8. QED  BY <1>1, <1>2, <1>3, <1>4, <1>5, <1>6, <1>7, PassosDosLeitores

-----------------------------------------------------------------------------
(* The alert of a mass query *)

\* Some reading of q crossed the threshold.
Cruzou(q) ==
    \E m \in Leitores : \E n \in 1..Len(leitura[m].contas) :
        PrincipalDe[m] = q /\ leitura[m].contas[n] = MASS_QUERY_THRESHOLD + 1

\* A counter above the threshold has passed through it, one by one, and so has every number
\* read from it; the reading that crossed raised the alert, unless its commit is still owed or
\* was lost.
AlertaDominioInv ==
    /\ \A q \in Principais : Len(consultas[q]) > MASS_QUERY_THRESHOLD => Cruzou(q)
    /\ \A l \in Leitores : \A k \in 1..Len(leitura[l].contas) :
          leitura[l].contas[k] > MASS_QUERY_THRESHOLD => Cruzou(PrincipalDe[l])
    /\ \A m \in Leitores : \A n \in 1..Len(leitura[m].contas) :
          leitura[m].contas[n] = MASS_QUERY_THRESHOLD + 1
              => Evento("MASS_QUERY_DETECTED", m, n, Nulo) \in trilha \/ SemCommit(m, n)

LEMMA AlertaDominioInit == Init => AlertaDominioInv
<1> SUFFICES ASSUME Init  PROVE AlertaDominioInv
  OBVIOUS
<1>1. /\ \A l \in Leitores : leitura[l].contas = <<>>
      /\ \A q \in Principais : consultas[q] = <<>>
  BY DEF Init, Principais
<1>2. Len(<<>>) = 0 /\ 1..0 = {}
  OBVIOUS
<1>3. QED  BY <1>1, <1>2, ConstantesDominio DEF AlertaDominioInv

LEMMA AlertaDominioStep ==
  LeitorInv /\ LeitorInv' /\ AlertaDominioInv /\ [Next]_vars => AlertaDominioInv'
<1> SUFFICES ASSUME LeitorInv, LeitorInv', AlertaDominioInv, [Next]_vars  PROVE AlertaDominioInv'
  OBVIOUS
<1> DEFINE T == MASS_QUERY_THRESHOLD
           Passou(m, n) == Evento("MASS_QUERY_DETECTED", m, n, Nulo) \in trilha
<1>0. T \in Nat
  BY ConstantesDominio
<1>s. \A l \in Leitores : leitura[l].contas \in Seq(Nat) /\ Len(leitura[l].contas) \in Nat
  <2> TAKE l \in Leitores
  <2>1. leitura[l].contas \in Seq(Nat)
    BY DEF LeitorInv, TipoLeitura, Contagens
  <2>2. QED  BY <2>1
\* The numbers read stay, and no reading that crossed loses its alert.
<1>a. ASSUME \A l \in Leitores : leitura'[l].contas = leitura[l].contas,
             trilha \subseteq trilha',
             \A q \in Principais : Len(consultas'[q]) > T => Len(consultas[q]) > T,
             \A m \in Leitores : \A n \in 1..Len(leitura[m].contas) :
                leitura[m].contas[n] = T + 1 /\ SemCommit(m, n) => Passou(m, n)' \/ SemCommit(m, n)'
      PROVE  AlertaDominioInv'
  <2>1. \A q : Cruzou(q)' <=> Cruzou(q)
    BY <1>a DEF Cruzou
  <2>2. \A m \in Leitores : \A n \in 1..Len(leitura[m].contas) :
           leitura[m].contas[n] = T + 1 => Passou(m, n)' \/ SemCommit(m, n)'
    BY <1>a DEF AlertaDominioInv
  <2>3. QED  BY <1>a, <2>1, <2>2 DEF AlertaDominioInv
\* Only l moves, and what it has read stays.
<1>b. ASSUME NEW l \in Leitores, SoLeitor(l), leitura'[l].contas = leitura[l].contas,
             UNCHANGED consultas, trilha \subseteq trilha',
             \A n \in 1..Len(leitura[l].contas) : leitura[l].contas[n] = T + 1 /\ SemCommit(l, n)
                => Passou(l, n)' \/ SemCommit(l, n)'
      PROVE  AlertaDominioInv'
  <2>1. \A m \in Leitores \ {l} : leitura'[m] = leitura[m]
    BY <1>b DEF SoLeitor
  <2>2. \A m \in Leitores \ {l} : \A n : SemCommit(m, n) => SemCommit(m, n)'
    BY <2>1 DEF SemCommit
  <2>3. QED  BY <1>a, <1>b, <2>1, <2>2
<1>1. ASSUME NEW l \in Leitores, ReceberGet(l)  PROVE AlertaDominioInv'
  <2>1. /\ SoLeitor(l) /\ leitura'[l].contas = leitura[l].contas /\ UNCHANGED <<consultas, tabelas>>
        /\ leitura[l].fase = "novo"
    BY <1>1, PassoReceberGet
  <2>2. \A n : ~ SemCommit(l, n)
    BY <2>1 DEF SemCommit, LeitorInv, Coerente
  <2>3. QED  BY <1>b, <2>1, <2>2 DEF tabelas
<1>2. ASSUME NEW l \in Leitores, Contar(l)  PROVE AlertaDominioInv'
  <2> DEFINE q == PrincipalDe[l]
             h == Len(hit(l))
             c == leitura[l].contas
  <2>1. /\ \A m \in Leitores \ {l} : leitura'[m] = leitura[m]
        /\ UNCHANGED trilha /\ leitura[l].fase = "contar" /\ leitura'[l].fase = "listar"
    BY <1>2, PassoContar DEF SoLeitor, tabelas
  <2>2. h \in 0 .. Len(consultas[q]) + 1 /\ leitura'[l].contas = Append(c, h)
    BY <1>2, PassoContar
  <2>3. consultas' = [consultas EXCEPT ![q] = hit(l)] /\ q \in Principais
    BY <1>2, PassoContar DEF Principais
  <2>4. h \in Nat /\ Len(consultas[q]) \in Nat
    BY <2>2, <2>3 DEF LeitorInv
  <2>5. \A k \in Principais : consultas'[k] = IF k = q THEN hit(l) ELSE consultas[k]
    BY <2>3 DEF LeitorInv
  <2> HIDE DEF h, c, q
  <2>6. /\ c \in Seq(Nat) /\ Len(c) \in Nat /\ Len(Append(c, h)) = Len(c) + 1
        /\ \A n \in 1..Len(c) : Append(c, h)[n] = c[n]
        /\ Append(c, h)[Len(c) + 1] = h
    BY <1>s, <2>4 DEF c
  <2>7. \A p : Cruzou(p) => Cruzou(p)'
    <3> SUFFICES ASSUME NEW p, NEW m \in Leitores, NEW n \in 1..Len(leitura[m].contas),
                        PrincipalDe[m] = p, leitura[m].contas[n] = T + 1
                 PROVE  Cruzou(p)'
      BY DEF Cruzou
    <3>1. n \in 1..Len(leitura'[m].contas) /\ leitura'[m].contas[n] = T + 1
      <4>1. CASE m = l
        <5>1. n \in 1..Len(c) /\ c[n] = T + 1
          BY <4>1 DEF c
        <5>2. n \in 1..Len(Append(c, h)) /\ Append(c, h)[n] = T + 1
          BY <2>6, <5>1
        <5>3. QED  BY <2>2, <4>1, <5>2
      <4>2. CASE m # l
        BY <2>1, <4>2
      <4>3. QED  BY <4>1, <4>2
    <3>2. QED  BY <3>1 DEF Cruzou
  \* Above the threshold: just now, or already before.
  <2>8. h > T => Cruzou(q)'
    <3>1. CASE h = T + 1
      <4>1. Len(c) + 1 \in 1..Len(leitura'[l].contas) /\ leitura'[l].contas[Len(c) + 1] = T + 1
        BY <2>2, <2>6, <3>1
      <4>2. QED  BY <4>1 DEF Cruzou, q
    <3>2. CASE h > T + 1
      <4>1. Len(consultas[q]) > T
        BY <1>0, <2>2, <2>4, <3>2
      <4>2. QED  BY <2>3, <2>7, <4>1 DEF AlertaDominioInv
    <3>3. QED  BY <1>0, <2>4, <3>1, <3>2
  <2>9. \A k \in Principais : Len(consultas'[k]) > T => Cruzou(k)'
    BY <2>5, <2>7, <2>8 DEF AlertaDominioInv, h
  <2>10. ASSUME NEW m \in Leitores, NEW k \in 1..Len(leitura'[m].contas), leitura'[m].contas[k] > T
         PROVE  Cruzou(PrincipalDe[m])'
    <3>1. CASE m # l
      BY <2>1, <2>7, <2>10, <3>1 DEF AlertaDominioInv
    <3>2. CASE m = l /\ k \in 1..Len(c)
      BY <2>2, <2>6, <2>7, <2>10, <3>2 DEF AlertaDominioInv, c
    <3>3. CASE m = l /\ k = Len(c) + 1
      BY <2>2, <2>6, <2>8, <2>10, <3>3 DEF q
    <3>4. QED  BY <2>2, <2>6, <2>10, <3>1, <3>2, <3>3
  <2>11. ASSUME NEW m \in Leitores, NEW n \in 1..Len(leitura'[m].contas), leitura'[m].contas[n] = T + 1
         PROVE  Passou(m, n)' \/ SemCommit(m, n)'
    <3>1. CASE m # l
      BY <2>1, <2>11, <3>1 DEF AlertaDominioInv, SemCommit
    <3>2. CASE m = l /\ n \in 1..Len(c)
      <4>1. ~ SemCommit(l, n)
        BY <2>1 DEF SemCommit, LeitorInv, Coerente
      <4>2. Passou(l, n)
        BY <2>2, <2>6, <2>11, <3>2, <4>1 DEF AlertaDominioInv, c
      <4>3. QED  BY <2>1, <3>2, <4>2
    <3>3. CASE m = l /\ n = Len(c) + 1
      BY <2>1, <2>2, <2>6, <3>3 DEF SemCommit
    <3>4. QED  BY <2>2, <2>6, <2>11, <3>1, <3>2, <3>3
  <2>12. QED  BY <2>9, <2>10, <2>11 DEF AlertaDominioInv
<1>3. ASSUME NEW l \in Leitores, Listar(l)  PROVE AlertaDominioInv'
  <2>1. /\ SoLeitor(l) /\ leitura'[l].contas = leitura[l].contas /\ UNCHANGED consultas
        /\ leitura[l].fase = "listar" /\ trilha' = trilha \cup maybe_alert_mass_query(l)
    BY <1>3, PassoListar
  <2>2. ASSUME NEW n \in 1..Len(leitura[l].contas), leitura[l].contas[n] = T + 1, SemCommit(l, n)
        PROVE  Passou(l, n)'
    <3>1. n = Len(leitura[l].contas) /\ Last(leitura[l].contas) = T + 1
      BY <2>2 DEF SemCommit, Last
    <3>2. QED  BY <2>1, <3>1 DEF maybe_alert_mass_query, Alerta
  <2>3. QED  BY <1>b, <2>1, <2>2
<1>4. ASSUME NEW l \in Leitores, FalharGet(l)  PROVE AlertaDominioInv'
  <2>1. /\ SoLeitor(l) /\ leitura'[l].contas = leitura[l].contas /\ UNCHANGED <<consultas, tabelas>>
        /\ leitura'[l].resposta = 500
    BY <1>4, PassoFalharGet
  <2>2. \A n : SemCommit(l, n) => SemCommit(l, n)'
    BY <2>1 DEF SemCommit
  <2>3. QED  BY <1>b, <2>1, <2>2 DEF tabelas
<1>5. CASE CairGateway
  <2>1. /\ UNCHANGED trilha /\ \A q \in Principais : consultas'[q] = <<>>
        /\ \A l \in Leitores : \/ leitura'[l] = leitura[l]
                               \/ leitura'[l].resposta = PERDIDA /\ leitura'[l].contas = leitura[l].contas
    BY <1>5, QuedaDosLeitores DEF tabelas
  <2>2. \A l \in Leitores : leitura'[l].contas = leitura[l].contas
    BY <2>1
  <2>3. \A m \in Leitores : \A n : SemCommit(m, n) => SemCommit(m, n)'
    BY <2>1 DEF SemCommit
  <2>4. QED  BY <1>0, <1>a, <2>1, <2>2, <2>3
<1>6. CASE Relogio
  BY <1>6, <1>a DEF Relogio, tabelas, SemCommit
<1>7. CASE UNCHANGED <<leitura, consultas, tempo>> /\ trilha \subseteq trilha'
  BY <1>7, <1>a DEF SemCommit
<1>8. QED  BY <1>1, <1>2, <1>3, <1>4, <1>5, <1>6, <1>7, PassosDosLeitores

\* Nobody lists leads above the threshold without an alert, for any window, threshold, readers
\* of one principal and restarts: the reading of exactly one more raised it with its page, or
\* its commit is owed or was lost (alert_service.maybe_alert_mass_query).
THEOREM AlertaGarantido == Spec => []AlertaDeConsulta
<1>1. Init => LeitorInv /\ AlertaDominioInv
  BY LeitorInit, AlertaDominioInit
<1>2. LeitorInv /\ AlertaDominioInv /\ [Next]_vars => (LeitorInv /\ AlertaDominioInv)'
  BY LeitorStep, AlertaDominioStep
<1>3. LeitorInv /\ AlertaDominioInv => AlertaDeConsulta
  BY DEF AlertaDominioInv, AlertaDeConsulta, Cruzou
<1>4. QED  BY <1>1, <1>2, <1>3, PTL DEF Spec

-----------------------------------------------------------------------------
(* The order of the leads *)

\* What the listing sorts by is numbers.
LEMMA ChavesInteiras ==
  ASSUME LeadInv, NEW i \in ExisteLead
  PROVE  i \in Ids /\ _PRIORIDADE_ORDER(i) \in 0..3 /\ leads[i].score \in 0..1000 /\ CriadoEm[i] \in Nat
<1>1. i \in Ids /\ leads[i] \in Lead
  BY DEF ExisteLead, LeadInv
<1>2. leads[i].prioridade \in Prioridades /\ leads[i].score \in 0..1000
  BY <1>1, LeadColunas
<1>3. _PRIORIDADE_ORDER(i) \in 0..3
  BY <1>2 DEF _PRIORIDADE_ORDER, Prioridades
<1>4. QED  BY <1>1, <1>2, <1>3, CriadoEmDistintos

\* Priority, score and creation order the leads strictly, one after the other.
LEMMA OrdemTotal ==
  ASSUME LeadInv
  PROVE  /\ \A i \in ExisteLead : ~ Antes(i, i)
         /\ \A i, j \in ExisteLead : i # j => Antes(i, j) \/ Antes(j, i)
         /\ \A i, j, k \in ExisteLead : Antes(i, j) /\ Antes(j, k) => Antes(i, k)
<1> DEFINE o(i) == _PRIORIDADE_ORDER(i)
           s(i) == leads[i].score
           c(i) == CriadoEm[i]
<1>1. \A i \in ExisteLead : i \in Ids /\ o(i) \in Int /\ s(i) \in Int /\ c(i) \in Int
  <2> TAKE i \in ExisteLead
  <2>1. i \in Ids /\ o(i) \in 0..3 /\ s(i) \in 0..1000 /\ c(i) \in Nat
    BY ChavesInteiras
  <2> HIDE DEF o, s, c
  <2>2. QED  BY <2>1
<1>2. ASSUME NEW i \in ExisteLead, NEW j \in ExisteLead
      PROVE  Antes(i, j) <=> \/ o(i) < o(j)
                             \/ o(i) = o(j) /\ s(j) < s(i)
                             \/ o(i) = o(j) /\ s(i) = s(j) /\ c(j) < c(i)
  <2>1. Antes(i, j) <=> \/ o(i) < o(j)
                        \/ o(i) = o(j) /\ s(i) > s(j)
                        \/ o(i) = o(j) /\ s(i) = s(j) /\ c(i) > c(j)
    BY DEF Antes
  <2> HIDE DEF o, s, c
  <2>2. QED  BY <1>1, <2>1
<1>3. \A i, j \in ExisteLead : i # j => c(i) # c(j)
  BY <1>1, CriadoEmDistintos
<1> HIDE DEF o, s, c
<1>4. \A i \in ExisteLead : ~ Antes(i, i)
  BY <1>1, <1>2
<1>5. ASSUME NEW i \in ExisteLead, NEW j \in ExisteLead, i # j
      PROVE  Antes(i, j) \/ Antes(j, i)
  <2>1. o(i) < o(j) \/ o(j) < o(i) \/ o(i) = o(j)
    BY <1>1
  <2>2. s(i) < s(j) \/ s(j) < s(i) \/ s(i) = s(j)
    BY <1>1
  <2>3. c(i) < c(j) \/ c(j) < c(i)
    BY <1>1, <1>3, <1>5
  <2>4. QED  BY <1>2, <2>1, <2>2, <2>3
<1>6. ASSUME NEW i \in ExisteLead, NEW j \in ExisteLead, NEW k \in ExisteLead,
             Antes(i, j), Antes(j, k)
      PROVE  Antes(i, k)
  BY <1>1, <1>2, <1>6
<1>7. QED  BY <1>4, <1>5, <1>6

\* So their positions number them from 1 without gaps.
LEMMA PosicoesDosLeads ==
  ASSUME LeadInv, IsFiniteSet(ExisteLead)
  PROVE  [i \in ExisteLead |-> Posicao(ExisteLead, i)] \in Injection(ExisteLead, 1..Cardinality(ExisteLead))
<1> DEFINE S == ExisteLead
           B(i) == {j \in S : Antes(j, i)}
           pos == [i \in S |-> Posicao(S, i)]
<1>1. Cardinality(S) \in Nat
  BY FS_CardinalityType
<1>2. \A i \in S : /\ IsFiniteSet(B(i)) /\ Cardinality(B(i)) \in Nat
                   /\ Posicao(S, i) = Cardinality(B(i)) + 1
  BY FS_Subset, FS_CardinalityType DEF Posicao
<1>2a. \A i, j : j \in B(i) <=> j \in S /\ Antes(j, i)
  OBVIOUS
<1> HIDE DEF B
<1>3. ASSUME NEW i \in S
      PROVE  Posicao(S, i) \in 1..Cardinality(S)
  <2>1. IsFiniteSet(S \ {i}) /\ Cardinality(S \ {i}) = Cardinality(S) - 1
    BY FS_RemoveElement
  <2>2. B(i) \in SUBSET (S \ {i})
    BY <1>2a, OrdemTotal
  <2>3. Cardinality(B(i)) <= Cardinality(S) - 1
    BY <2>1, <2>2, FS_Subset
  <2>4. QED  BY <1>1, <1>2, <2>3
<1>4. ASSUME NEW i \in S, NEW j \in S, Antes(i, j)
      PROVE  Posicao(S, i) < Posicao(S, j)
  <2>1. i \notin B(i) /\ B(i) \cup {i} \in SUBSET B(j)
    BY <1>2a, <1>4, OrdemTotal
  <2>2. Cardinality(B(i) \cup {i}) = Cardinality(B(i)) + 1
    BY <1>2, <2>1, FS_AddElement
  <2>3. Cardinality(B(i) \cup {i}) <= Cardinality(B(j))
    BY <1>2, <2>1, FS_Subset
  <2>4. QED  BY <1>2, <2>2, <2>3
<1>5. \A i, j \in S : pos[i] = pos[j] => i = j
  <2> TAKE i, j \in S
  <2>1. i # j => Antes(i, j) \/ Antes(j, i)
    BY OrdemTotal
  <2>2. Posicao(S, i) \in Nat /\ Posicao(S, j) \in Nat
    BY <1>2
  <2>3. QED  BY <1>4, <2>1, <2>2
<1>6. pos \in [S -> 1..Cardinality(S)]
  BY <1>3
<1>7. QED  BY <1>5, <1>6 DEF Injection, IsInjective

\* No write takes a lead away or moves it before another: a lead keeps its keys.
LEMMA LeadsFicam ==
  ASSUME IInv, [Next]_vars
  PROVE  /\ \A i \in ExisteLead : /\ i \in ExisteLead' /\ leads'[i].prioridade = leads[i].prioridade
                                  /\ leads'[i].score = leads[i].score
         /\ IsFiniteSet(ExisteLead) => IsFiniteSet(ExisteLead')
<1> DEFINE Ficam == /\ \A i \in ExisteLead : /\ i \in ExisteLead' /\ leads'[i].prioridade = leads[i].prioridade
                                             /\ leads'[i].score = leads[i].score
                    /\ IsFiniteSet(ExisteLead) => IsFiniteSet(ExisteLead')
<1>1. ASSUME UNCHANGED leads  PROVE Ficam
  <2>1. ExisteLead' = ExisteLead
    BY <1>1 DEF ExisteLead
  <2>2. QED  BY <1>1, <2>1
<1>2. ASSUME NEW c \in Compras, CommitCompra(c)  PROVE Ficam
  <2> DEFINE n == IF GeraLead(c) THEN LeadNovo(c) ELSE Nulo
  <2>1. leads' = [leads EXCEPT ![c] = n] /\ pedido[c].fase = "commit"
    BY <1>2, PassoCommitCompra DEF IInv
  <2>2. c \in Ids /\ clientes[c] = Nulo
    BY <2>1 DEF IInv, LinhaInv, Ids
  <2>3. leads[c] = Nulo
    BY <2>2 DEF IInv, LeadInv
  <2> HIDE DEF n
  <2>4. \A i \in Ids \ {c} : leads'[i] = leads[i]
    BY <2>1 DEF IInv, LeadInv
  <2>5. ExisteLead' \in SUBSET (ExisteLead \cup {c})
    BY <2>4 DEF ExisteLead
  <2>6. \A i \in ExisteLead : i \in ExisteLead' /\ leads'[i] = leads[i]
    BY <2>3, <2>4 DEF ExisteLead
  <2>7. IsFiniteSet(ExisteLead) => IsFiniteSet(ExisteLead')
    BY <2>5, FS_AddElement, FS_Subset
  <2>8. QED  BY <2>6, <2>7
<1>3. ASSUME NEW p \in Patches, CommitPatch(p)  PROVE Ficam
  <2> DEFINE i == LeadDe[p]
             n == [campo \in DOMAIN leads[i] |->
                     IF campo \in Alterado(p) THEN CorpoDe[p][campo] ELSE leads[i][campo]]
  <2>1. leads' = [leads EXCEPT ![i] = n] /\ pedido[p].fase = "commit_patch"
    BY <1>3, PassoCommitPatch DEF IInv
  <2>2. i \in Ids
    BY ConstantesDominio
  <2>3. leads[i] \in Lead
    BY <2>1, <2>2 DEF IInv, LeadInv
  <2>4. n \in Lead /\ n.score = leads[i].score
    BY <2>3, LeadAlterado
  <2>5. n.prioridade = leads[i].prioridade
    <3>1. "prioridade" \notin Alterado(p)
      BY DEF Alterado
    <3>2. "prioridade" \in DOMAIN leads[i]
      BY <2>3, LeadColunas
    <3>3. QED  BY <3>1, <3>2
  <2> HIDE DEF n, i
  <2>6. \A k \in Ids : leads'[k] = IF k = i THEN n ELSE leads[k]
    BY <2>1, <2>2 DEF IInv, LeadInv
  <2>7. n # Nulo /\ leads[i] # Nulo
    BY <2>3, <2>4, NuloDominio
  <2>8. ExisteLead' = ExisteLead
    BY <2>6, <2>7 DEF ExisteLead
  <2>9. \A k \in ExisteLead : leads'[k].prioridade = leads[k].prioridade /\ leads'[k].score = leads[k].score
    BY <2>4, <2>5, <2>6 DEF ExisteLead
  <2>10. QED  BY <2>8, <2>9
<1>4. \/ \E c \in Compras : CommitCompra(c)
      \/ \E p \in Patches : CommitPatch(p)
      \/ UNCHANGED leads
  <2>1. \A c \in Compras : SelectCpf(c) \/ SelectVin(c) \/ FlushCliente(c) \/ FlushVeiculo(c)
            => UNCHANGED leads
    BY PassoInstrucao DEF IInv, dominio
  <2>2. \A p \in Patches : Carregar(p) \/ FlushPatch(p) => UNCHANGED leads
    BY PassoLeitura DEF IInv, dominio
  <2>3. \A d \in Detalhes : obter(d) => UNCHANGED leads
    BY PassoDetalhe DEF IInv, dominio
  <2>4. \A a \in Auditores : list_audit_log(a) => UNCHANGED leads
    BY PassoAuditor DEF IInv, dominio
  <2>5. \A r \in Reqs : Receber(r) \/ Falhar(r) \/ Enviar(r) => UNCHANGED leads
    BY PassoReceber, PassoComum DEF IInv, dominio
  <2>6. \A l \in Leitores : Listar(l) => UNCHANGED leads
    BY DEF Listar
  <2>7. \A j \in Jobs : JobAvanca(j) => UNCHANGED leads
    BY DEF JobAvanca, SelectExpired, AnonimizarCliente, AbortarJob, tabelas
  <2>8. \A j \in Jobs : CommitJob(j) => UNCHANGED leads
    BY DEF CommitJob
  <2>9. CairGateway => UNCHANGED leads
    BY PassoQueda DEF IInv, dominio
  <2>10. UNCHANGED <<dominio, pedido>> => UNCHANGED leads
    BY DEF dominio
  <2>11. QED  BY <2>1, <2>2, <2>3, <2>4, <2>5, <2>6, <2>7, <2>8, <2>9, <2>10, PassosDeNext
<1>5. QED  BY <1>1, <1>2, <1>3, <1>4

\* A lead only moves back: what is created meanwhile may come before it.
LEMMA PosicaoRecua ==
  ASSUME IInv, IInv', [Next]_vars, IsFiniteSet(ExisteLead), NEW i \in ExisteLead
  PROVE  /\ Posicao(ExisteLead, i) \in Nat /\ Posicao(ExisteLead, i)' \in Nat
         /\ Posicao(ExisteLead, i) <= Posicao(ExisteLead, i)'
<1> DEFINE B == {j \in ExisteLead : Antes(j, i)}
           C == {j \in ExisteLead' : Antes(j, i)'}
<1>1. /\ \A j \in ExisteLead : /\ j \in ExisteLead' /\ leads'[j].prioridade = leads[j].prioridade
                               /\ leads'[j].score = leads[j].score
      /\ IsFiniteSet(ExisteLead')
  BY LeadsFicam
<1>2. \A j \in ExisteLead : Antes(j, i)' <=> Antes(j, i)
  BY <1>1 DEF Antes, _PRIORIDADE_ORDER
<1>3. B \in SUBSET C
  BY <1>1, <1>2
<1>4. /\ IsFiniteSet(C) /\ Cardinality(C) \in Nat
      /\ Cardinality(B) \in Nat /\ Cardinality(B) <= Cardinality(C)
  <2>1. IsFiniteSet(C)
    BY <1>1, FS_Subset
  <2>2. QED  BY <1>3, <2>1, FS_Subset, FS_CardinalityType
<1>5. Posicao(ExisteLead, i) = Cardinality(B) + 1 /\ Posicao(ExisteLead, i)' = Cardinality(C) + 1
  BY DEF Posicao
<1> HIDE DEF B, C
<1>6. QED  BY <1>4, <1>5

-----------------------------------------------------------------------------
(* Readers miss nothing *)

\* Of the leads there were when l began, those that still fit n pages were seen.
VistoAte(l, n) ==
    \A i \in leitura[l].desde :
        Posicao(ExisteLead, i) <= n * PER_PAGE => i \in leitura[l].vistos

\* A lead not yet seen is on a page to come.
PaginasLidas(l) ==
    FiltroDe[l] = Nulo =>
      /\ leitura[l].desde \subseteq ExisteLead
      /\ leitura[l].fase \in {"novo", "contar"} => VistoAte(l, Len(leitura[l].contas))
      /\ leitura[l].fase = "listar" => VistoAte(l, Len(leitura[l].contas) - 1)
      /\ leitura[l].fase = "fim" /\ leitura[l].resposta = 200
            => leitura[l].desde \subseteq leitura[l].vistos

ListagemInv == IsFiniteSet(ExisteLead) /\ \A l \in Leitores : PaginasLidas(l)

\* Writes only make the pages read reach less far.
LEMMA VistoFica ==
  ASSUME IInv, IInv', [Next]_vars, IsFiniteSet(ExisteLead), NEW l \in Leitores, NEW n \in Nat,
         leitura[l].desde \subseteq ExisteLead, VistoAte(l, n),
         leitura'[l].desde = leitura[l].desde, leitura[l].vistos \subseteq leitura'[l].vistos
  PROVE  VistoAte(l, n)'
<1>1. n * PER_PAGE \in Nat
  BY Paginas
<1> SUFFICES ASSUME NEW i \in leitura[l].desde, Posicao(ExisteLead, i)' <= n * PER_PAGE
             PROVE  i \in leitura'[l].vistos
  BY DEF VistoAte
<1>2. /\ Posicao(ExisteLead, i) \in Nat /\ Posicao(ExisteLead, i)' \in Nat
      /\ Posicao(ExisteLead, i) <= Posicao(ExisteLead, i)'
  BY PosicaoRecua
<1>3. Posicao(ExisteLead, i) <= n * PER_PAGE
  BY <1>1, <1>2
<1>4. QED  BY <1>3 DEF VistoAte

\* One page more: what fits it is listed, and a page that comes short leaves nothing behind.
LEMMA PaginaLida ==
  ASSUME LeadInv, IsFiniteSet(ExisteLead), NEW l \in Leitores, FiltroDe[l] = Nulo, NEW n \in Nat,
         leitura[l].desde \subseteq ExisteLead, VistoAte(l, n)
  PROVE  LET itens == Pagina(l, n + 1) IN
         /\ \A i \in leitura[l].desde :
               Posicao(ExisteLead, i) <= (n + 1) * PER_PAGE => i \in leitura[l].vistos \cup itens
         /\ Cardinality(itens) # PER_PAGE => leitura[l].desde \subseteq leitura[l].vistos \cup itens
<1> DEFINE S == ExisteLead
           pos == [i \in S |-> Posicao(S, i)]
           a == n * PER_PAGE
           itens == Pagina(l, n + 1)
<1>1. a \in Nat /\ (n + 1) * PER_PAGE = a + PER_PAGE /\ NaPagina(n + 1) = a + 1 .. a + PER_PAGE
  BY Paginas
<1>2. PER_PAGE \in Nat
  BY ConstantesDominio
<1>3. pos \in Injection(S, 1..Cardinality(S)) /\ Cardinality(S) \in Nat
  BY PosicoesDosLeads, FS_CardinalityType
<1>4. \A i \in S : Posicao(S, i) \in Nat /\ pos[i] = Posicao(S, i)
  BY <1>3 DEF Injection
<1>5. itens = {i \in S : pos[i] \in a + 1 .. a + PER_PAGE}
  <2>1. NoFiltro(l) = S
    BY DEF NoFiltro
  <2>2. itens = {i \in S : Posicao(S, i) \in a + 1 .. a + PER_PAGE}
    BY <1>1, <2>1 DEF Pagina
  <2>3. QED  BY <1>4, <2>2
<1> HIDE DEF pos, itens, a
<1>6. ASSUME NEW i \in leitura[l].desde, Posicao(S, i) <= a + PER_PAGE
      PROVE  i \in leitura[l].vistos \cup itens
  <2>1. i \in S
    OBVIOUS
  <2>2. CASE Posicao(S, i) <= a
    BY <2>2 DEF VistoAte, a
  <2>3. CASE a < Posicao(S, i)
    BY <1>1, <1>2, <1>4, <1>5, <1>6, <2>1, <2>3
  <2>4. QED  BY <1>1, <1>4, <2>1, <2>2, <2>3
<1>7. ASSUME Cardinality(itens) # PER_PAGE, NEW i \in leitura[l].desde
      PROVE  i \in leitura[l].vistos \cup itens
  <2>1. i \in S
    OBVIOUS
  <2>2. ~ pos[i] > a + PER_PAGE
    BY <1>1, <1>2, <1>3, <1>5, <1>7, <2>1, PaginaCheia
  <2>3. Posicao(S, i) <= a + PER_PAGE
    BY <1>1, <1>2, <1>4, <2>1, <2>2
  <2>4. QED  BY <1>6, <2>3
<1>8. QED  BY <1>1, <1>6, <1>7 DEF itens

LEMMA ListagemInit == Init => ListagemInv
<1> SUFFICES ASSUME Init  PROVE ListagemInv
  OBVIOUS
<1>1. \A l \in Leitores : /\ leitura[l].desde = {} /\ leitura[l].fase = "novo"
  BY DEF Init
<1>2. \A i \in Ids : leads[i] # Nulo => i \in Antigos
  BY DEF Init
<1>3. ExisteLead \in SUBSET Antigos
  BY <1>2 DEF ExisteLead
<1>4. IsFiniteSet(ExisteLead)
  BY <1>3, ChavesDosClientes, FS_Subset
<1>5. QED  BY <1>1, <1>4 DEF ListagemInv, PaginasLidas, VistoAte

LEMMA ListagemStep ==
  IInv /\ IInv' /\ LeitorInv /\ ListagemInv /\ [Next]_vars => ListagemInv'
<1> SUFFICES ASSUME IInv, IInv', LeitorInv, ListagemInv, [Next]_vars  PROVE ListagemInv'
  OBVIOUS
<1> USE DEF PaginasLidas
<1>1. IsFiniteSet(ExisteLead) /\ IsFiniteSet(ExisteLead') /\ ExisteLead \subseteq ExisteLead'
  BY LeadsFicam DEF ListagemInv
<1>2. \A l \in Leitores : PaginasLidas(l)
  BY DEF ListagemInv
<1>3. \A l \in Leitores :
        /\ leitura[l].contas \in Seq(Nat) /\ Len(leitura[l].contas) \in Nat
        /\ leitura[l].fase = "listar" => Len(leitura[l].contas) - 1 \in Nat
  <2> TAKE l \in Leitores
  <2>1. leitura[l].contas \in Seq(Nat)
    BY DEF LeitorInv, TipoLeitura, Contagens
  <2>2. QED  BY <2>1 DEF LeitorInv, Coerente
\* Who does not move has seen no less.
<1>4. ASSUME NEW l \in Leitores, leitura'[l] = leitura[l]  PROVE PaginasLidas(l)'
  <2>1. CASE leitura[l].fase = "listar"
    BY <1>1, <1>2, <1>3, <1>4, <2>1, VistoFica
  <2>2. CASE leitura[l].fase # "listar"
    BY <1>1, <1>2, <1>3, <1>4, <2>2, VistoFica
  <2>3. QED  BY <2>1, <2>2
<1>5. ASSUME NEW l \in Leitores, ReceberGet(l), FiltroDe[l] = Nulo  PROVE PaginasLidas(l)'
  <2>1. /\ leitura[l].fase = "novo" /\ leitura'[l].fase = "contar"
        /\ leitura'[l].contas = leitura[l].contas /\ leitura'[l].vistos = leitura[l].vistos
        /\ leitura'[l].desde = IF leitura[l].contas = <<>> THEN ExisteLead ELSE leitura[l].desde
    BY <1>5, PassoReceberGet
  <2>2. leitura[l].desde \subseteq ExisteLead /\ VistoAte(l, Len(leitura[l].contas))
    BY <1>2, <1>5, <2>1
  <2>3. leitura'[l].desde \subseteq ExisteLead'
    BY <1>1, <2>1, <2>2
  <2>4. CASE leitura[l].contas = <<>>
    <3>1. Len(leitura[l].contas) * PER_PAGE = 0
      BY <2>4, ConstantesDominio
    <3>2. \A i \in ExisteLead : Posicao(ExisteLead, i)' \in Nat /\ Posicao(ExisteLead, i)' > 0
      <4> TAKE i \in ExisteLead
      <4>1. Posicao(ExisteLead, i) \in 1..Cardinality(ExisteLead)
        BY <1>1, PosicoesDosLeads DEF IInv, Injection
      <4>2. /\ Posicao(ExisteLead, i) \in Nat /\ Posicao(ExisteLead, i)' \in Nat
            /\ Posicao(ExisteLead, i) <= Posicao(ExisteLead, i)'
        BY <1>1, PosicaoRecua
      <4>3. QED  BY <4>1, <4>2
    <3>3. VistoAte(l, Len(leitura[l].contas))'
      BY <2>1, <2>4, <3>1, <3>2 DEF VistoAte
    <3>4. QED  BY <2>1, <2>3, <3>3
  <2>5. CASE leitura[l].contas # <<>>
    BY <1>1, <1>3, <2>1, <2>2, <2>3, <2>5, VistoFica
  <2>6. QED  BY <2>4, <2>5
<1>6. ASSUME NEW l \in Leitores, Contar(l), FiltroDe[l] = Nulo  PROVE PaginasLidas(l)'
  <2>1. /\ leitura[l].fase = "contar" /\ leitura'[l].fase = "listar"
        /\ leitura'[l].vistos = leitura[l].vistos /\ leitura'[l].desde = leitura[l].desde
    BY <1>6, PassoContar
  <2>2. PICK n \in Nat : n = Len(leitura[l].contas)
    BY <1>3
  <2>3. leitura[l].desde \subseteq ExisteLead /\ VistoAte(l, n)
    BY <1>2, <1>6, <2>1, <2>2
  <2>4. VistoAte(l, n)'
    BY <1>1, <2>1, <2>3, VistoFica
  <2>5. Len(leitura'[l].contas) - 1 = n
    <3>1. leitura'[l].contas = Append(leitura[l].contas, Len(hit(l)))
      BY <1>6, PassoContar
    <3>2. QED  BY <1>3, <2>2, <3>1
  <2>6. QED  BY <1>1, <2>1, <2>3, <2>4, <2>5
<1>7. ASSUME NEW l \in Leitores, Listar(l), FiltroDe[l] = Nulo  PROVE PaginasLidas(l)'
  <2>0. PICK n \in Nat : n = Len(leitura[l].contas)
    BY <1>3
  <2> DEFINE itens == Pagina(l, n)
  <2>1. /\ leitura[l].fase = "listar" /\ leitura'[l].resposta = 200
        /\ leitura'[l].fase = IF Cardinality(itens) = PER_PAGE THEN "novo" ELSE "fim"
        /\ leitura'[l].contas = leitura[l].contas /\ leitura'[l].desde = leitura[l].desde
        /\ leitura'[l].vistos = leitura[l].vistos \cup itens
        /\ UNCHANGED leads
    BY <1>7, <2>0, PassoListar
  <2>2. n - 1 \in Nat /\ (n - 1) + 1 = n
    BY <1>3, <2>0, <2>1
  <2>3. leitura[l].desde \subseteq ExisteLead /\ VistoAte(l, n - 1)
    BY <1>2, <1>7, <2>0, <2>1
  <2>4. /\ \A i \in leitura[l].desde :
             Posicao(ExisteLead, i) <= n * PER_PAGE => i \in leitura[l].vistos \cup itens
        /\ Cardinality(itens) # PER_PAGE => leitura[l].desde \subseteq leitura[l].vistos \cup itens
    BY <1>1, <1>7, <2>2, <2>3, PaginaLida DEF IInv
  <2> HIDE DEF itens
  <2>5. \A i : Posicao(ExisteLead, i)' = Posicao(ExisteLead, i)
    BY <2>1 DEF Posicao, ExisteLead, Antes, _PRIORIDADE_ORDER
  <2>6. VistoAte(l, n)'
    BY <2>1, <2>4, <2>5 DEF VistoAte
  <2>7. QED  BY <1>1, <2>0, <2>1, <2>3, <2>4, <2>6
<1>8. ASSUME NEW l \in Leitores, FalharGet(l)  PROVE PaginasLidas(l)'
  <2>1. leitura'[l].fase = "fim" /\ leitura'[l].resposta = 500
    BY <1>8, PassoFalharGet
  <2>2. leitura'[l].desde = leitura[l].desde
    BY <1>8, PassoFalharGet
  <2>3. QED  BY <1>1, <1>2, <2>1, <2>2
<1>9. CASE CairGateway
  <2> SUFFICES ASSUME NEW l \in Leitores, leitura'[l] # leitura[l]  PROVE PaginasLidas(l)'
    BY <1>1, <1>4 DEF ListagemInv
  <2>1. leitura'[l].fase = "fim" /\ leitura'[l].resposta = PERDIDA /\ leitura'[l].desde = leitura[l].desde
    BY <1>9, QuedaDosLeitores
  <2>2. QED  BY <1>1, <1>2, <2>1 DEF PERDIDA
<1>10. ASSUME NEW l \in Leitores, SoLeitor(l), FiltroDe[l] = Nulo => PaginasLidas(l)'  PROVE ListagemInv'
  <2>1. \A k \in Leitores \ {l} : leitura'[k] = leitura[k]
    BY <1>10 DEF SoLeitor
  <2>2. \A k \in Leitores : PaginasLidas(k)'
    BY <1>4, <1>10, <2>1
  <2>3. QED  BY <1>1, <2>2 DEF ListagemInv
<1>11. CASE \E l \in Leitores : ReceberGet(l) \/ Contar(l) \/ Listar(l) \/ FalharGet(l)
  <2>1. PICK l \in Leitores : ReceberGet(l) \/ Contar(l) \/ Listar(l) \/ FalharGet(l)
    BY <1>11
  <2>2. SoLeitor(l)
    BY <2>1, PassoReceberGet, PassoContar, PassoListar, PassoFalharGet
  <2>3. QED  BY <1>5, <1>6, <1>7, <1>8, <1>10, <2>1, <2>2
<1>12. CASE Relogio \/ UNCHANGED <<leitura, consultas, tempo>>
  <2>1. \A l \in Leitores : leitura'[l] = leitura[l]
    BY <1>12 DEF Relogio
  <2>2. \A l \in Leitores : PaginasLidas(l)'
    BY <1>4, <2>1
  <2>3. QED  BY <1>1, <2>2 DEF ListagemInv
<1>13. QED  BY <1>9, <1>11, <1>12, PassosDosLeitores

-----------------------------------------------------------------------------
(* The table of the trail, in order *)

Sequencia(s) == s \in Seq(ToSet(s))

\* What is appended leaves what there was in its place.
LEMMA Anexar ==
  ASSUME NEW s, Sequencia(s), NEW t, Sequencia(t)
  PROVE  /\ Sequencia(s \o t) /\ ToSet(s \o t) = ToSet(s) \cup ToSet(t)
         /\ DOMAIN s \subseteq DOMAIN (s \o t) /\ \A n \in DOMAIN s : (s \o t)[n] = s[n]
<1> DEFINE T == ToSet(s) \cup ToSet(t)
           u == s \o t
<1>1. s \in Seq(T) /\ t \in Seq(T)
  BY DEF Sequencia
<1> HIDE DEF T
<1>2. /\ u \in Seq(T) /\ Len(u) = Len(s) + Len(t)
      /\ Len(s) \in Nat /\ Len(t) \in Nat
      /\ DOMAIN s = 1..Len(s) /\ DOMAIN t = 1..Len(t) /\ DOMAIN u = 1..Len(u)
      /\ \A n \in 1..Len(s) + Len(t) : u[n] = IF n <= Len(s) THEN s[n] ELSE t[n - Len(s)]
  BY <1>1, ConcatProperties
<1> HIDE DEF u
<1>3. DOMAIN s \subseteq DOMAIN u /\ \A n \in DOMAIN s : u[n] = s[n]
  BY <1>2
<1>4. \A n \in DOMAIN t : n + Len(s) \in DOMAIN u /\ u[n + Len(s)] = t[n]
  BY <1>2
<1>5. ToSet(u) = T
  <2>1. \A n \in DOMAIN u : u[n] \in T
    BY <1>2
  <2>2. ToSet(u) \subseteq T
    BY <2>1 DEF ToSet
  <2>3. ToSet(s) \subseteq ToSet(u)
    BY <1>3 DEF ToSet
  <2>4. ToSet(t) \subseteq ToSet(u)
    BY <1>4 DEF ToSet
  <2>5. QED  BY <2>2, <2>3, <2>4 DEF T
<1>6. QED  BY <1>2, <1>3, <1>5 DEF u, T, Sequencia

LEMMA UmEvento ==
  ASSUME NEW e
  PROVE  Sequencia(<<e>>) /\ ToSet(<<e>>) = {e}
<1>1. ToSet(<<e>>) = {e}
  BY DEF ToSet
<1>2. <<e>> \in Seq({e})
  OBVIOUS
<1>3. QED  BY <1>1, <1>2 DEF Sequencia

\* A finite set in some order.
LEMMA SetToSeqOrdena ==
  ASSUME NEW S, IsFiniteSet(S)
  PROVE  Sequencia(SetToSeq(S)) /\ ToSet(SetToSeq(S)) = S
<1> DEFINE n == Cardinality(S)
           f == SetToSeq(S)
<1>1. n \in Nat /\ ExistsBijection(1..n, S)
  BY FS_CardinalityType
<1>2. \E g \in [1..n -> S] : IsInjective(g)
  BY <1>1 DEF ExistsBijection, Bijection, Injection
<1>3. f \in [1..n -> S] /\ IsInjective(f)
  BY <1>2 DEF SetToSeq
<1>4. f \in Injection(1..n, S)
  BY <1>3 DEF Injection
<1>5. Cardinality(1..n) = n
  BY <1>1, Ate
<1>6. f \in Surjection(1..n, S)
  BY <1>4, <1>5, FS_Injection
<1> HIDE DEF f, n
<1>7. ToSet(f) = S
  BY <1>3, <1>6 DEF ToSet, Surjection
<1>8. f \in Seq(S)
  BY <1>1, <1>3
<1>9. QED  BY <1>7, <1>8 DEF Sequencia, f

LEMMA SequenciaDaCompra ==
  ASSUME NEW c
  PROVE  Sequencia(EventosDaCompra(c))
<1> DEFINE a == Evento("CLIENTE_CREATED", c, c, Nulo)
           b == Evento("LEAD_CREATED", c, c, Nulo)
<1> HIDE DEF a, b
<1>1. EventosDaCompra(c) = <<a>> \o (IF GeraLead(c) THEN <<b>> ELSE <<>>)
  BY DEF EventosDaCompra, a, b
<1>2. Sequencia(<<>>)
  BY DEF Sequencia
<1>3. CASE GeraLead(c)
  BY <1>1, <1>3, Anexar, UmEvento
<1>4. CASE ~ GeraLead(c)
  BY <1>1, <1>2, <1>4, Anexar, UmEvento
<1>5. QED  BY <1>3, <1>4

\* While an auditor may read it, the table only grows at its end.
Cresce ==
    /\ Sequencia(ordem') /\ ToSet(ordem) \subseteq ToSet(ordem')
    /\ DOMAIN ordem \subseteq DOMAIN ordem' /\ \A n \in DOMAIN ordem : ordem'[n] = ordem[n]

\* log_event appends at the end.
LEMMA RegistroCresce ==
  ASSUME Auditores \cap ativos # {}, Sequencia(ordem), NEW X, Sequencia(X), log_event(X)
  PROVE  Cresce /\ ToSet(ordem') = ToSet(ordem) \cup ToSet(X)
<1>1. ordem' = ordem \o X
  BY DEF log_event
<1>2. QED  BY <1>1, Anexar DEF Cresce

\* So does every step of anybody, in the behaviours an auditor takes part in.
LEMMA OrdemCresce ==
  ASSUME [Next]_vars
  PROVE  UNCHANGED ativos /\ (Auditores \cap ativos # {} /\ Sequencia(ordem) => Cresce)
<1> DEFINE Bem == Auditores \cap ativos # {} /\ Sequencia(ordem) => Cresce
<1>0. ASSUME UNCHANGED ordem  PROVE Bem
  BY <1>0 DEF Cresce
<1>1. ASSUME UNCHANGED vars  PROVE UNCHANGED <<ordem, ativos>>
  BY <1>1 DEF vars, tabelas
<1>2. ASSUME Encerrado \/ ArranqueGateway \/ \E c \in Comandos : ComandoGateway(c)
      PROVE  UNCHANGED <<ordem, ativos>>
  BY <1>2 DEF Encerrado, ArranqueGateway, ComandoGateway, foraDoBoot, vars, tabelas
<1>3. ASSUME CairGateway \/ Relogio  PROVE UNCHANGED <<ordem, ativos>>
  BY <1>3 DEF CairGateway, Relogio, tabelas
<1>4. ASSUME NEW r \in Reqs, Receber(r) \/ Falhar(r) \/ Enviar(r)  PROVE Bem /\ UNCHANGED ativos
  <2> DEFINE e == Evento("FORBIDDEN_ACCESS", r, Nulo, Nulo)
  <2>1. CASE Receber(r)
    <3>1. UNCHANGED ativos /\ (log_event(<<e>>) \/ UNCHANGED ordem)
      BY <2>1 DEF Receber
    <3>2. QED  BY <1>0, <3>1, UmEvento, RegistroCresce
  <2>2. CASE Falhar(r)  BY <1>0, <2>2 DEF Falhar, tabelas
  <2>3. CASE Enviar(r)  BY <1>0, <2>3 DEF Enviar, tabelas
  <2>4. QED  BY <1>4, <2>1, <2>2, <2>3
<1>5. ASSUME NEW j \in Jobs, SelectExpired(j) \/ FalharJob(j) \/ RodarJob(j)
      PROVE  Bem /\ UNCHANGED ativos
  <2>1. CASE SelectExpired(j)  BY <1>0, <2>1 DEF SelectExpired, tabelas
  <2>2. CASE FalharJob(j)  BY <1>0, <2>2 DEF FalharJob, AbortarJob, tabelas
  <2>3. CASE AnonimizarCliente(j)
    <3> DEFINE e == Evento("CLIENTE_ANONYMIZED", j, Proximo(j), Nulo)
    <3>1. log_event(<<e>>) /\ UNCHANGED ativos
      BY <2>3 DEF AnonimizarCliente
    <3>2. QED  BY <3>1, UmEvento, RegistroCresce
  <2>4. CASE CommitJob(j)  BY <1>0, <2>4 DEF CommitJob
  <2>5. CASE DesfazerImpasse(j)  BY <1>0, <2>5 DEF DesfazerImpasse, AbortarJob, tabelas
  <2>6. QED  BY <1>5, <2>1, <2>2, <2>3, <2>4, <2>5 DEF RodarJob
<1>6. ASSUME NEW c \in Compras, AtenderCompra(c)  PROVE Bem /\ UNCHANGED ativos
  <2>1. CASE SelectCpf(c)  BY <1>0, <2>1 DEF SelectCpf, Instrucao, tabelas
  <2>2. CASE SelectVin(c)  BY <1>0, <2>2 DEF SelectVin, Instrucao, tabelas
  <2>3. CASE FlushCliente(c)  BY <1>0, <2>3 DEF FlushCliente, Instrucao, tabelas
  <2>4. CASE FlushVeiculo(c)  BY <1>0, <2>4 DEF FlushVeiculo, Instrucao, tabelas
  <2>5. CASE CommitCompra(c)
    <3>1. log_event(EventosDaCompra(c)) /\ UNCHANGED ativos
      BY <2>5 DEF CommitCompra
    <3>2. QED  BY <3>1, SequenciaDaCompra, RegistroCresce
  <2>6. CASE Enviar(c)  BY <1>0, <2>6 DEF Enviar, tabelas
  <2>7. QED  BY <1>6, <2>1, <2>2, <2>3, <2>4, <2>5, <2>6 DEF AtenderCompra
<1>7. ASSUME NEW p \in Patches, AtenderPatch(p)  PROVE Bem /\ UNCHANGED ativos
  <2>1. CASE Carregar(p)  BY <1>0, <2>1 DEF Carregar, tabelas
  <2>2. CASE FlushPatch(p)
    <3>1. log_event(<<EventoDoPatch(p)>>) /\ UNCHANGED ativos
      BY <2>2 DEF FlushPatch
    <3>2. QED  BY <3>1, UmEvento, RegistroCresce
  <2>3. CASE CommitPatch(p)  BY <1>0, <2>3 DEF CommitPatch
  <2>4. CASE Enviar(p)  BY <1>0, <2>4 DEF Enviar, tabelas
  <2>5. QED  BY <1>7, <2>1, <2>2, <2>3, <2>4 DEF AtenderPatch
<1>8. ASSUME NEW d \in Detalhes, AtenderDetalhe(d)  PROVE Bem /\ UNCHANGED ativos
  <2>1. CASE obter(d)  BY <1>0, <2>1 DEF obter, tabelas
  <2>2. CASE Enviar(d)  BY <1>0, <2>2 DEF Enviar, tabelas
  <2>3. QED  BY <1>8, <2>1, <2>2 DEF AtenderDetalhe
<1>9. ASSUME NEW a \in Auditores, AtenderAuditor(a)  PROVE Bem /\ UNCHANGED ativos
  <2>1. CASE list_audit_log(a)  BY <1>0, <2>1 DEF list_audit_log, tabelas
  <2>2. CASE Enviar(a)  BY <1>0, <2>2 DEF Enviar, tabelas
  <2>3. QED  BY <1>9, <2>1, <2>2 DEF AtenderAuditor
<1>10. ASSUME NEW l \in Leitores, AtenderGet(l) \/ ReceberGet(l) \/ FalharGet(l)
       PROVE  Bem /\ UNCHANGED ativos
  <2>1. CASE ReceberGet(l)  BY <1>0, <2>1 DEF ReceberGet, tabelas
  <2>2. CASE FalharGet(l)  BY <1>0, <2>2 DEF FalharGet, tabelas
  <2>3. CASE Contar(l)  BY <1>0, <2>3 DEF Contar, tabelas
  <2>4. CASE Listar(l)
    <3> DEFINE A == maybe_alert_mass_query(l)
    <3>1. log_event(SetToSeq(A)) /\ UNCHANGED ativos
      BY <2>4 DEF Listar
    <3>2. IsFiniteSet(A)
      BY FS_EmptySet, FS_Singleton DEF maybe_alert_mass_query
    <3> HIDE DEF A
    <3>3. QED  BY <3>1, <3>2, SetToSeqOrdena, RegistroCresce
  <2>5. QED  BY <1>10, <2>1, <2>2, <2>3, <2>4 DEF AtenderGet
<1>11. CASE Andar
  BY <1>5, <1>6, <1>7, <1>8, <1>9, <1>10, <1>11 DEF Andar
<1>12. Bem /\ UNCHANGED ativos
  BY <1>0, <1>1, <1>2, <1>3, <1>4, <1>5, <1>10, <1>11 DEF Next
<1>13. QED  BY <1>12

\* Every row committed is in the table, and so is what a patch or a job has flushed.
OrdemInv ==
    /\ Sequencia(ordem) /\ trilha \subseteq ToSet(ordem)
    /\ \A p \in Patches : pedido[p].fase = "commit_patch" => EventoDoPatch(p) \in ToSet(ordem)
    /\ \A j \in Jobs : \A n \in 1..job[j].feitos :
          Evento("CLIENTE_ANONYMIZED", j, job[j].fila[n], Nulo) \in ToSet(ordem)

LEMMA OrdemInit == Init => OrdemInv
<1> SUFFICES ASSUME Init  PROVE OrdemInv
  OBVIOUS
<1> DEFINE criado  == [i \in Antigos |-> Evento("CLIENTE_CREATED", i, i, Nulo)]
           gerado  == [i \in Antigos |-> Evento("LEAD_CREATED", i, i, Nulo)]
           criados == {criado[i] : i \in Antigos}
           gerados == {gerado[i] : i \in Antigos}
<1>1. criado \in Surjection(Antigos, criados) /\ gerado \in Surjection(Antigos, gerados)
  BY DEF Surjection
<1>2. IsFiniteSet(criados \cup gerados)
  BY <1>1, ChavesDosClientes, FS_Surjection, FS_Union
<1>3. \A i \in Antigos : ToSet(EventosDaCompra(i)) \subseteq criados \cup gerados
  <2> TAKE i \in Antigos
  <2>1. criado[i] \in criados /\ gerado[i] \in gerados
    OBVIOUS
  <2>2. ToSet(EventosDaCompra(i)) = {criado[i]} \cup (IF GeraLead(i) THEN {gerado[i]} ELSE {})
    BY EventosDeCompra
  <2>3. QED  BY <2>1, <2>2
<1> HIDE DEF criados, gerados
<1>4. trilha = UNION {ToSet(EventosDaCompra(i)) : i \in Antigos} /\ ordem = SetToSeq(trilha)
  BY DEF Init
<1>5. trilha \in SUBSET (criados \cup gerados)
  BY <1>3, <1>4
<1>6. IsFiniteSet(trilha)
  BY <1>2, <1>5, FS_Subset
<1>7. Sequencia(ordem) /\ ToSet(ordem) = trilha
  BY <1>4, <1>6, SetToSeqOrdena
<1>8. \A p \in Patches : pedido[p].fase = "novo"
  BY DEF Init, Reqs
<1>9. \A j \in Jobs : job[j].feitos = 0
  BY DEF Init
<1>10. QED  BY <1>7, <1>8, <1>9 DEF OrdemInv

\* A job flushes its events one by one before it commits them.
LEMMA JobRegistrado ==
  ASSUME JobInv, [Next]_vars, Auditores \cap ativos # {}, OrdemInv, Cresce
  PROVE  \A j \in Jobs : \A n \in 1..job'[j].feitos :
            Evento("CLIENTE_ANONYMIZED", j, job'[j].fila[n], Nulo) \in ToSet(ordem')
<1> DEFINE Bom(j) == \A n \in 1..job'[j].feitos :
                        Evento("CLIENTE_ANONYMIZED", j, job'[j].fila[n], Nulo) \in ToSet(ordem')
           F == {job[j].fase : j \in Jobs} \cup {"fim"}
<1>0. job \in [Jobs -> [fase : F, fila : Seq(Vencidos), feitos : Nat]] /\ "fim" \in F
  BY DEF JobInv
<1> HIDE DEF F
<1>1. ASSUME NEW j \in Jobs, job'[j].fila = job[j].fila, job'[j].feitos = job[j].feitos
      PROVE  Bom(j)
  BY <1>1 DEF OrdemInv, Cresce
<1>2. ASSUME NEW j \in Jobs, job'[j].feitos = 0
      PROVE  Bom(j)
  BY <1>2
<1>3. ASSUME NEW j \in Jobs, AnonimizarCliente(j)
      PROVE  Bom(j) /\ \A k \in Jobs \ {j} : job'[k] = job[k]
  <2> DEFINE m == job[j].feitos + 1
             e == Evento("CLIENTE_ANONYMIZED", j, job[j].fila[m], Nulo)
  <2>1. job' = [job EXCEPT ![j].feitos = m] /\ log_event(<<e>>)
    BY <1>3 DEF AnonimizarCliente, Proximo
  <2>2. e \in ToSet(ordem')
    BY <2>1, UmEvento, RegistroCresce DEF OrdemInv
  <2> HIDE DEF e
  <2>3. /\ job'[j].feitos = m /\ job'[j].fila = job[j].fila /\ job[j].feitos \in Nat
        /\ \A k \in Jobs \ {j} : job'[k] = job[k]
    BY <1>0, <2>1
  <2>4. \A n \in 1..m : n = m \/ n \in 1..job[j].feitos
    BY <2>3
  <2> HIDE DEF m
  <2>5. Bom(j)
    BY <2>2, <2>3, <2>4 DEF OrdemInv, Cresce, e
  <2>6. QED  BY <2>3, <2>5
<1>4. ASSUME NEW j \in Jobs, SelectExpired(j)
      PROVE  Bom(j) /\ \A k \in Jobs \ {j} : job'[k] = job[k]
  <2>1. \/ job' = [job EXCEPT ![j].fase = "fim"]
        \/ \E fila : job' = [job EXCEPT ![j] = [fase |-> "anonimizar", fila |-> fila, feitos |-> 0]]
    BY <1>4 DEF SelectExpired
  <2>2. CASE job' = [job EXCEPT ![j].fase = "fim"]
    BY <1>0, <1>1, <2>2
  <2>3. ASSUME NEW fila, job' = [job EXCEPT ![j] = [fase |-> "anonimizar", fila |-> fila, feitos |-> 0]]
        PROVE  Bom(j) /\ \A k \in Jobs \ {j} : job'[k] = job[k]
    BY <1>0, <1>2, <2>3
  <2>4. QED  BY <2>1, <2>2, <2>3
<1>5. ASSUME NEW j \in Jobs, AbortarJob(j) \/ CommitJob(j)
      PROVE  Bom(j) /\ \A k \in Jobs \ {j} : job'[k] = job[k]
  <2>1. \E f : job' = [job EXCEPT ![j] = [fase |-> f, fila |-> <<>>, feitos |-> 0]]
    BY <1>5 DEF AbortarJob, CommitJob
  <2>2. QED  BY <1>0, <1>2, <2>1
<1> HIDE DEF Bom
<1>6. UNCHANGED job \/ \E j \in Jobs : JobAvanca(j) \/ CommitJob(j)
  BY QuemMudaJob
<1>7. \A j \in Jobs : Bom(j)
  BY <1>1, <1>3, <1>4, <1>5, <1>6 DEF JobAvanca
<1>8. QED  BY <1>7 DEF Bom

\* A patch flushes its event before it commits it, and keeps what it says.
LEMMA PatchRegistrado ==
  ASSUME PedidoInv, [Next]_vars, Auditores \cap ativos # {}, OrdemInv, Cresce,
         NEW p \in Patches, pedido'[p].fase = "commit_patch"
  PROVE  EventoDoPatch(p)' \in ToSet(ordem')
<1>0. p \in Reqs
  BY DEF Reqs
<1>1. CASE pedido'[p] = pedido[p]
  BY <1>1 DEF OrdemInv, Cresce, EventoDoPatch
<1>2. CASE FlushPatch(p)
  <2>1. log_event(<<EventoDoPatch(p)>>) /\ pedido[p].fase = "atualizar" /\ Seguir(p, "commit_patch")
    BY <1>2 DEF FlushPatch
  <2>2. EventoDoPatch(p) \in ToSet(ordem')
    BY <2>1, UmEvento, RegistroCresce DEF OrdemInv
  <2>3. pedido'[p].lido = pedido[p].lido
    BY <1>0, <2>1, SeguirMuda
  <2>4. QED  BY <2>2, <2>3 DEF EventoDoPatch
\* Nothing else takes a patch there.
<1>3. pedido'[p] = pedido[p] \/ FlushPatch(p)
  <2> SUFFICES ASSUME pedido'[p] # pedido[p], ~ FlushPatch(p)  PROVE FALSE
    OBVIOUS
  <2>1. ASSUME NEW r \in Reqs, MudaSo(r)  PROVE r = p
    BY <1>0, <2>1 DEF MudaSo
  <2>2. p \notin Compras /\ p \notin Detalhes /\ p \notin Auditores
    BY ConstantesDominio
  <2>3. \A c \in Compras : ~(SelectCpf(c) \/ SelectVin(c) \/ FlushCliente(c) \/ FlushVeiculo(c))
    BY <2>1, <2>2, PassoInstrucao DEF Reqs
  <2>4. \A c \in Compras : ~ CommitCompra(c)
    BY <2>1, <2>2, PassoCommitCompra DEF Reqs
  <2>5. \A d \in Detalhes : ~ obter(d)
    BY <2>1, <2>2, PassoDetalhe DEF Reqs
  <2>6. \A a \in Auditores : ~ list_audit_log(a)
    BY <2>1, <2>2, PassoAuditor DEF Reqs
  <2>7. \A q \in Patches : ~ Carregar(q)
    <3> SUFFICES ASSUME NEW q \in Patches, Carregar(q)  PROVE FALSE
      OBVIOUS
    <3>1. q = p
      BY <2>1, PassoLeitura DEF Reqs
    <3>2. pedido[p].fase = "carregar"
      BY <3>1 DEF Carregar
    <3>3. QED  BY <3>1, <3>2, PassoLeitura
  <2>8. \A q \in Patches : ~ FlushPatch(q)
    BY <2>1, PassoLeitura DEF Reqs
  <2>9. \A q \in Patches : ~ CommitPatch(q)
    BY <2>1, PatchResponde DEF Reqs
  <2>10. \A r \in Reqs : ~ Receber(r)
    <3> SUFFICES ASSUME NEW r \in Reqs, Receber(r)  PROVE FALSE
      OBVIOUS
    <3>1. r = p
      BY <2>1, PassoReceber
    <3>2. pedido'[p].fase \in {PrimeiraFase(p), "fim"}
      BY <3>1, PassoReceber
    <3>3. PrimeiraFase(p) = "carregar"
      BY <1>0, <2>2, PrimeirasFases
    <3>4. QED  BY <3>2, <3>3
  <2>11. \A r \in Reqs : ~ (Falhar(r) \/ Enviar(r))
    BY <2>1, PassoComum
  <2>12. ~ CairGateway
    BY <1>0, PassoQueda
  <2>13. \A l \in Leitores : ~ Listar(l)
    BY DEF Listar
  <2>14. \A j \in Jobs : ~(JobAvanca(j) \/ CommitJob(j))
    BY DEF JobAvanca, SelectExpired, AnonimizarCliente, AbortarJob, CommitJob
  <2>15. ~ UNCHANGED <<dominio, pedido>>
    OBVIOUS
  <2>16. QED
    BY <2>3, <2>4, <2>5, <2>6, <2>7, <2>8, <2>9, <2>10, <2>11, <2>12, <2>13, <2>14, <2>15, PassosDeNext
<1>4. QED  BY <1>1, <1>2, <1>3

\* What is committed was flushed, now or before.
LEMMA TrilhaRegistrada ==
  ASSUME PedidoInv, [Next]_vars, Auditores \cap ativos # {}, OrdemInv, Cresce
  PROVE  trilha \subseteq trilha' /\ trilha' \subseteq ToSet(ordem')
<1>0. trilha \subseteq ToSet(ordem')
  BY DEF OrdemInv, Cresce
<1>1. ASSUME UNCHANGED trilha  PROVE trilha \subseteq trilha' /\ trilha' \subseteq ToSet(ordem')
  BY <1>0, <1>1
\* Flushed now and committed now.
<1>2. ASSUME NEW X, trilha' = trilha \cup ToSet(X), Sequencia(X), log_event(X)
      PROVE  trilha \subseteq trilha' /\ trilha' \subseteq ToSet(ordem')
  BY <1>0, <1>2, RegistroCresce DEF OrdemInv
\* Flushed before.
<1>3. ASSUME NEW X, trilha' = trilha \cup X, X \subseteq ToSet(ordem)
      PROVE  trilha \subseteq trilha' /\ trilha' \subseteq ToSet(ordem')
  BY <1>0, <1>3 DEF Cresce
<1>4. ASSUME NEW r \in Reqs, Receber(r)  PROVE trilha \subseteq trilha' /\ trilha' \subseteq ToSet(ordem')
  <2> DEFINE e == Evento("FORBIDDEN_ACCESS", r, Nulo, Nulo)
  <2>1. UNCHANGED trilha \/ (trilha' = trilha \cup {e} /\ log_event(<<e>>))
    BY <1>4 DEF Receber
  <2> HIDE DEF e
  <2>2. QED  BY <1>1, <1>2, <2>1, UmEvento
<1>5. ASSUME NEW c \in Compras, CommitCompra(c)
      PROVE  trilha \subseteq trilha' /\ trilha' \subseteq ToSet(ordem')
  <2>1. trilha' = trilha \cup ToSet(EventosDaCompra(c)) /\ log_event(EventosDaCompra(c))
    BY <1>5 DEF CommitCompra
  <2>2. QED  BY <1>2, <2>1, SequenciaDaCompra
<1>6. ASSUME NEW p \in Patches, CommitPatch(p)
      PROVE  trilha \subseteq trilha' /\ trilha' \subseteq ToSet(ordem')
  <2>1. trilha' = trilha \cup {EventoDoPatch(p)} /\ pedido[p].fase = "commit_patch"
    BY <1>6 DEF CommitPatch
  <2>2. {EventoDoPatch(p)} \subseteq ToSet(ordem)
    BY <2>1 DEF OrdemInv
  <2>3. QED  BY <1>3, <2>1, <2>2
<1>7. ASSUME NEW l \in Leitores, Listar(l)
      PROVE  trilha \subseteq trilha' /\ trilha' \subseteq ToSet(ordem')
  <2> DEFINE A == maybe_alert_mass_query(l)
  <2>1. trilha' = trilha \cup A /\ log_event(SetToSeq(A))
    BY <1>7 DEF Listar
  <2>2. IsFiniteSet(A)
    BY FS_EmptySet, FS_Singleton DEF maybe_alert_mass_query
  <2> HIDE DEF A
  <2>3. QED  BY <1>2, <2>1, <2>2, SetToSeqOrdena
<1>8. ASSUME NEW j \in Jobs, CommitJob(j)
      PROVE  trilha \subseteq trilha' /\ trilha' \subseteq ToSet(ordem')
  <2> DEFINE X == {Evento("CLIENTE_ANONYMIZED", j, i, Nulo) : i \in feitos(j)}
  <2>1. trilha' = trilha \cup X
    BY <1>8 DEF CommitJob
  <2>2. X \subseteq ToSet(ordem)
    BY DEF OrdemInv, feitos
  <2> HIDE DEF X
  <2>3. QED  BY <1>3, <2>1, <2>2
<1>9. \/ UNCHANGED trilha
      \/ \E r \in Reqs : Receber(r)
      \/ \E c \in Compras : CommitCompra(c)
      \/ \E p \in Patches : CommitPatch(p)
      \/ \E l \in Leitores : Listar(l)
      \/ \E j \in Jobs : CommitJob(j)
  BY PassosDeNext DEF SelectCpf, SelectVin, FlushCliente, FlushVeiculo, Instrucao, Carregar, FlushPatch,
       obter, list_audit_log, Falhar, Enviar, JobAvanca, SelectExpired, AnonimizarCliente, AbortarJob,
       CairGateway, dominio, tabelas
<1>10. QED  BY <1>1, <1>4, <1>5, <1>6, <1>7, <1>8, <1>9

LEMMA OrdemStep ==
  ASSUME PedidoInv, JobInv, [Next]_vars, Auditores \cap ativos # {}, OrdemInv
  PROVE  OrdemInv' /\ Cresce /\ trilha \subseteq trilha'
<1>1. Cresce
  BY OrdemCresce DEF OrdemInv
<1>2. QED  BY <1>1, TrilhaRegistrada, PatchRegistrado, JobRegistrado DEF OrdemInv, Cresce

-----------------------------------------------------------------------------
(* Auditors miss nothing *)

\* The rows an auditor asks for are numbered from the newest, without gaps.
LEMMA PosicoesNaTrilha ==
  ASSUME Sequencia(ordem), NEW a
  PROVE  LET S == Selecionadas(a) IN
         /\ IsFiniteSet(S) /\ S \subseteq Nat
         /\ [n \in S |-> PosicaoNaTrilha(a, n)] \in Injection(S, 1..Cardinality(S))
<1> DEFINE S == Selecionadas(a)
           D(n) == {k \in S : k >= n}
           pos == [n \in S |-> PosicaoNaTrilha(a, n)]
<1>0. Len(ordem) \in Nat /\ DOMAIN ordem = 1..Len(ordem)
  BY DEF Sequencia
<1>1. S \in SUBSET (1..Len(ordem))
  BY <1>0 DEF Selecionadas
<1>2. IsFiniteSet(S) /\ S \subseteq Nat
  BY <1>0, <1>1, Ate, FS_Subset
<1>3. Cardinality(S) \in Nat
  BY <1>2, FS_CardinalityType
<1> HIDE DEF S
<1>4. \A n \in S : /\ IsFiniteSet(D(n)) /\ Cardinality(D(n)) \in Nat
                   /\ Cardinality(D(n)) <= Cardinality(S)
                   /\ PosicaoNaTrilha(a, n) = Cardinality(D(n))
  BY <1>2, FS_Subset, FS_CardinalityType DEF PosicaoNaTrilha, S
<1>5. \A k, n : k \in D(n) <=> k \in S /\ k >= n
  OBVIOUS
<1> HIDE DEF D
<1>6. ASSUME NEW n \in S  PROVE PosicaoNaTrilha(a, n) \in 1..Cardinality(S)
  <2>1. n \in D(n)
    BY <1>2, <1>5
  <2>2. Cardinality(D(n)) # 0
    BY <1>4, <2>1, FS_EmptySet
  <2>3. QED  BY <1>3, <1>4, <2>2
<1>7. ASSUME NEW n \in S, NEW m \in S, n < m
      PROVE  PosicaoNaTrilha(a, m) < PosicaoNaTrilha(a, n)
  <2>0. n \in Nat /\ m \in Nat /\ ~ n >= m /\ n >= n /\ \A k \in S : k >= m => k >= n
    BY <1>2, <1>7
  <2>1. n \notin D(m) /\ D(m) \cup {n} \in SUBSET D(n)
    BY <1>5, <2>0
  <2>2. Cardinality(D(m) \cup {n}) = Cardinality(D(m)) + 1
    BY <1>4, <2>1, FS_AddElement
  <2>3. Cardinality(D(m) \cup {n}) <= Cardinality(D(n))
    BY <1>4, <2>1, FS_Subset
  <2>4. QED  BY <1>4, <2>2, <2>3
<1>8. \A n, m \in S : pos[n] = pos[m] => n = m
  <2> TAKE n, m \in S
  <2>1. n < m \/ m < n \/ n = m
    BY <1>2
  <2>2. PosicaoNaTrilha(a, n) \in Nat /\ PosicaoNaTrilha(a, m) \in Nat
    BY <1>4
  <2>3. QED  BY <1>7, <2>1, <2>2
<1>9. pos \in [S -> 1..Cardinality(S)]
  BY <1>6
<1>10. QED  BY <1>2, <1>8, <1>9 DEF Injection, IsInjective, S

\* And new rows only move them back, whatever the order of the commits.
LEMMA LinhaRecua ==
  ASSUME Sequencia(ordem), Sequencia(ordem)', Cresce, trilha \subseteq trilha', NEW a, NEW n \in Selecionadas(a)
  PROVE  /\ n \in Selecionadas(a)' /\ ordem'[n] = ordem[n]
         /\ PosicaoNaTrilha(a, n) \in Nat /\ PosicaoNaTrilha(a, n)' \in Nat
         /\ PosicaoNaTrilha(a, n) <= PosicaoNaTrilha(a, n)'
<1> DEFINE B == {k \in Selecionadas(a) : k >= n}
           C == {k \in Selecionadas(a)' : k >= n}
<1>1. \A k \in Selecionadas(a) : k \in Selecionadas(a)' /\ ordem'[k] = ordem[k]
  BY DEF Selecionadas, NaConsulta, Cresce
<1>2. Len(ordem') \in Nat /\ DOMAIN ordem' = 1..Len(ordem')
  BY DEF Sequencia
<1>3. C \in SUBSET (1..Len(ordem')) /\ B \in SUBSET C
  BY <1>1, <1>2 DEF Selecionadas
<1>4. IsFiniteSet(C)
  BY <1>2, <1>3, Ate, FS_Subset
<1>5. Cardinality(C) \in Nat /\ Cardinality(B) \in Nat /\ Cardinality(B) <= Cardinality(C)
  BY <1>3, <1>4, FS_Subset, FS_CardinalityType
<1>6. PosicaoNaTrilha(a, n) = Cardinality(B) /\ PosicaoNaTrilha(a, n)' = Cardinality(C)
  BY DEF PosicaoNaTrilha
<1> HIDE DEF B, C
<1>7. QED  BY <1>1, <1>5, <1>6

\* Every event there was when a began is in a row, and was seen if that row fits n pages.
TrilhaVistaAte(a, n) ==
    \A e \in pedido[a].lido.desde : \E k \in Selecionadas(a) :
        /\ ordem[k] = e
        /\ PosicaoNaTrilha(a, k) <= n * PER_PAGE => e \in pedido[a].lido.vistos

AuditorInv(a) ==
    /\ pedido[a].lido.page \in Nat
    /\ pedido[a].fase \in {"novo", "trilha"} => TrilhaVistaAte(a, pedido[a].lido.page)
    /\ pedido[a].resposta = 200 => pedido[a].lido.desde \subseteq pedido[a].lido.vistos

TrilhaLidaInv ==
    /\ \A a \in Auditores \ ativos : pedido[a].fase = "novo" /\ pedido[a].resposta = Nulo
    /\ Auditores \cap ativos # {} => OrdemInv /\ \A a \in Auditores : AuditorInv(a)

LEMMA TrilhaLidaInit == Init => TrilhaLidaInv
<1> SUFFICES ASSUME Init  PROVE TrilhaLidaInv
  OBVIOUS
<1>1. \A a \in Auditores : pedido[a] = [fase |-> "novo", resposta |-> Nulo,
                                        lido |-> [page |-> 0, vistos |-> {}, desde |-> {}]]
  BY DEF Init, Reqs
<1>2. Nulo # 200
  BY NuloDominio
<1>3. \A a \in Auditores : TrilhaVistaAte(a, 0)
  BY <1>1 DEF TrilhaVistaAte
<1>4. \A a \in Auditores : AuditorInv(a)
  BY <1>1, <1>2, <1>3 DEF AuditorInv
<1>5. QED  BY <1>1, <1>4, OrdemInit DEF TrilhaLidaInv

\* What anybody else does, and what else happens to the auditor.
LEMMA AuditorEspera ==
  ASSUME PedidoInv, [Next]_vars, NEW a \in Auditores, ~ list_audit_log(a)
  PROVE  /\ pedido'[a].lido = pedido[a].lido
         /\ pedido'[a].fase \in {"novo", "trilha"} => pedido[a].fase \in {"novo", "trilha"}
         /\ pedido'[a].resposta = 200 => pedido[a].resposta = 200
         /\ a \notin ativos /\ pedido[a].fase = "novo" => pedido'[a] = pedido[a]
<1> DEFINE Espera == /\ pedido'[a].lido = pedido[a].lido
                     /\ pedido'[a].fase \in {"novo", "trilha"} => pedido[a].fase \in {"novo", "trilha"}
                     /\ pedido'[a].resposta = 200 => pedido[a].resposta = 200
                     /\ a \notin ativos /\ pedido[a].fase = "novo" => pedido'[a] = pedido[a]
<1>0. a \in Reqs /\ a \notin Compras /\ a \notin Patches /\ a \notin Detalhes
  BY ConstantesDominio DEF Reqs
<1>1. ASSUME pedido'[a] = pedido[a]  PROVE Espera
  BY <1>1
<1>2. ASSUME NEW r \in Reqs, MudaSo(r), r # a  PROVE Espera
  BY <1>0, <1>2 DEF MudaSo
<1>3. ASSUME NEW c \in Compras, \/ SelectCpf(c) \/ SelectVin(c) \/ FlushCliente(c) \/ FlushVeiculo(c)
                               \/ CommitCompra(c)
      PROVE  Espera
  BY <1>0, <1>2, <1>3, PassoInstrucao, PassoCommitCompra DEF Reqs
<1>4. ASSUME NEW p \in Patches, Carregar(p) \/ FlushPatch(p) \/ CommitPatch(p)  PROVE Espera
  <2>1. MudaSo(p)
    <3>1. Carregar(p) \/ FlushPatch(p) => MudaSo(p)
      BY PassoLeitura
    <3>2. CommitPatch(p) => MudaSo(p)
      BY PatchResponde
    <3>3. QED  BY <1>4, <3>1, <3>2
  <2>2. p \in Reqs /\ p # a
    BY <1>0 DEF Reqs
  <2>3. QED  BY <1>2, <2>1, <2>2
<1>5. ASSUME NEW d \in Detalhes, obter(d)  PROVE Espera
  BY <1>0, <1>2, <1>5, PassoDetalhe, ZenonT(30) DEF Reqs
<1>6. ASSUME NEW b \in Auditores, list_audit_log(b)  PROVE Espera
  BY <1>2, <1>6, PassoAuditor DEF Reqs
<1>7. ASSUME NEW r \in Reqs, Receber(r)  PROVE Espera
  <2>1. CASE r # a
    BY <1>2, <1>7, <2>1, PassoReceber
  <2>2. CASE r = a
    <3>1. /\ pedido'[a].lido = pedido[a].lido /\ pedido[a].fase = "novo"
          /\ pedido'[a].resposta = 200 => pedido[a].resposta = 200
      BY <1>7, <2>2, PassoReceber
    <3>2. a \in ativos
      BY <1>7, <2>2 DEF Receber
    <3>3. QED  BY <3>1, <3>2
  <2>3. QED  BY <2>1, <2>2
<1>8. ASSUME NEW r \in Reqs, Falhar(r) \/ Enviar(r)  PROVE Espera
  <2>1. CASE r # a
    BY <1>2, <1>8, <2>1, PassoComum
  <2>2. CASE r = a
    BY <1>8, <2>2, PassoComum
  <2>3. QED  BY <2>1, <2>2
<1>9. CASE CairGateway
  BY <1>0, <1>9, PassoQueda DEF PERDIDA
<1>10. ASSUME NEW l \in Leitores, Listar(l)  PROVE Espera
  BY <1>1, <1>10 DEF Listar
<1>11. ASSUME NEW j \in Jobs, JobAvanca(j) \/ CommitJob(j)  PROVE Espera
  BY <1>1, <1>11 DEF JobAvanca, SelectExpired, AnonimizarCliente, AbortarJob, CommitJob
<1>12. QED
  BY <1>1, <1>3, <1>4, <1>5, <1>6, <1>7, <1>8, <1>9, <1>10, <1>11, PassosDeNext

\* One page more of the trail.
LEMMA PaginaDaTrilhaLida ==
  ASSUME PedidoInv, OrdemInv, NEW a \in Auditores, AuditorInv(a), list_audit_log(a)
  PROVE  AuditorInv(a)'
<1> DEFINE p == pedido[a].lido.page
           d == IF p = 0 THEN NaConsulta(a) ELSE pedido[a].lido.desde
           S == Selecionadas(a)
           pos == [n \in S |-> PosicaoNaTrilha(a, n)]
           b == p * PER_PAGE
           rows == PaginaDaTrilha(a, p + 1)
           v == pedido[a].lido.vistos \cup {ordem[n] : n \in rows}
           cheia == Cardinality(rows) = PER_PAGE
<1>0. a \in Reqs /\ p \in Nat /\ PER_PAGE \in Nat
  BY ConstantesDominio DEF AuditorInv, Reqs
<1>1. pedido' = [pedido EXCEPT ![a] = [fase |-> IF cheia THEN "novo" ELSE "enviar",
                                       resposta |-> IF cheia THEN Nulo ELSE 200,
                                       lido |-> [page |-> p + 1, vistos |-> v, desde |-> d]]]
  BY Zenon DEF list_audit_log
<1>2. pedido[a].fase = "trilha" /\ UNCHANGED <<trilha, ordem>>
  BY DEF list_audit_log, tabelas
<1>3. b \in Nat /\ (p + 1) * PER_PAGE = b + PER_PAGE /\ NaPagina(p + 1) = b + 1 .. b + PER_PAGE
  BY <1>0, Paginas
<1>4. IsFiniteSet(S) /\ pos \in Injection(S, 1..Cardinality(S)) /\ Cardinality(S) \in Nat
  BY PosicoesNaTrilha, FS_CardinalityType DEF OrdemInv
<1>5. \A n \in S : /\ PosicaoNaTrilha(a, n) \in Nat /\ PosicaoNaTrilha(a, n) > 0
                   /\ pos[n] = PosicaoNaTrilha(a, n)
  BY <1>4 DEF Injection
<1> HIDE DEF p, S
<1>6. rows = {n \in S : pos[n] \in b + 1 .. b + PER_PAGE}
  <2>1. rows = {n \in S : PosicaoNaTrilha(a, n) \in b + 1 .. b + PER_PAGE}
    BY <1>3 DEF PaginaDaTrilha, S
  <2>2. QED  BY <1>5, <2>1
<1> HIDE DEF pos, rows, b
\* A row of each event, and what was seen of the pages before.
<1>7. \A e \in d : \E k \in S : ordem[k] = e /\ (PosicaoNaTrilha(a, k) <= b => e \in pedido[a].lido.vistos)
  <2>1. CASE p = 0
    <3> SUFFICES ASSUME NEW e \in d
                 PROVE  \E k \in S : ordem[k] = e /\ (PosicaoNaTrilha(a, k) <= b => e \in pedido[a].lido.vistos)
      OBVIOUS
    <3>1. e \in NaConsulta(a) /\ e \in trilha
      BY <2>1 DEF NaConsulta
    <3>2. PICK k \in DOMAIN ordem : ordem[k] = e
      BY <3>1 DEF OrdemInv, ToSet
    <3>3. k \in S
      BY <3>1, <3>2 DEF Selecionadas, S
    <3>4. b = 0
      BY <1>0, <2>1 DEF b
    <3>5. QED  BY <1>5, <3>2, <3>3, <3>4
  <2>2. CASE p # 0
    BY <1>2, <2>2 DEF AuditorInv, TrilhaVistaAte, b, p, S
  <2>3. QED  BY <2>1, <2>2
<1> HIDE DEF d
<1>8. \A k \in S : PosicaoNaTrilha(a, k) <= b + PER_PAGE => PosicaoNaTrilha(a, k) <= b \/ k \in rows
  BY <1>0, <1>3, <1>5, <1>6
<1>9. \A e \in d : \E k \in S : ordem[k] = e /\ (PosicaoNaTrilha(a, k) <= b + PER_PAGE => e \in v)
  BY <1>7, <1>8
<1>10. ~ cheia => d \subseteq v
  <2> SUFFICES ASSUME Cardinality(rows) # PER_PAGE, NEW e \in d  PROVE e \in v
    OBVIOUS
  <2>1. PICK k \in S : ordem[k] = e /\ (PosicaoNaTrilha(a, k) <= b + PER_PAGE => e \in v)
    BY <1>9
  <2>2. ~ pos[k] > b + PER_PAGE
    BY <1>0, <1>3, <1>4, <1>6, PaginaCheia
  <2>3. PosicaoNaTrilha(a, k) <= b + PER_PAGE
    BY <1>0, <1>3, <1>5, <2>2
  <2>4. QED  BY <2>1, <2>3
<1> HIDE DEF v, cheia
<1>11. /\ pedido'[a].lido.page = p + 1 /\ pedido'[a].lido.vistos = v /\ pedido'[a].lido.desde = d
       /\ pedido'[a].fase = IF cheia THEN "novo" ELSE "enviar"
       /\ pedido'[a].resposta = IF cheia THEN Nulo ELSE 200
  BY <1>0, <1>1 DEF PedidoInv
<1>12. /\ Selecionadas(a)' = S
       /\ \A k : PosicaoNaTrilha(a, k)' = PosicaoNaTrilha(a, k)
  BY <1>2 DEF Selecionadas, PosicaoNaTrilha, NaConsulta, S
<1>13. PICK m \in Nat : m = p + 1
  BY <1>0
<1>14. PICK fim : fim = b + PER_PAGE
  OBVIOUS
<1>15. TrilhaVistaAte(a, m)'
  <2>1. m * PER_PAGE = fim
    BY <1>3, <1>13, <1>14
  <2>2. ASSUME NEW e \in d
        PROVE  \E k \in Selecionadas(a)' :
                  ordem'[k] = e /\ (PosicaoNaTrilha(a, k)' <= fim => e \in v)
    BY <1>2, <1>9, <1>12, <1>14
  <2>3. QED  BY <1>11, <2>1, <2>2 DEF TrilhaVistaAte
<1>16. Nulo # 200
  BY NuloDominio
<1>17. QED  BY <1>10, <1>11, <1>13, <1>15, <1>16 DEF AuditorInv

LEMMA TrilhaLidaStep == PedidoInv /\ JobInv /\ TrilhaLidaInv /\ [Next]_vars => TrilhaLidaInv'
<1> SUFFICES ASSUME PedidoInv, JobInv, TrilhaLidaInv, [Next]_vars  PROVE TrilhaLidaInv'
  OBVIOUS
<1>1. UNCHANGED ativos
  BY OrdemCresce
<1>2. ASSUME NEW a \in Auditores \ ativos
      PROVE  pedido'[a].fase = "novo" /\ pedido'[a].resposta = Nulo
  <2>1. pedido[a].fase = "novo" /\ pedido[a].resposta = Nulo
    BY DEF TrilhaLidaInv
  <2>2. ~ list_audit_log(a)
    BY <2>1 DEF list_audit_log
  <2>3. QED  BY <2>1, <2>2, AuditorEspera
<1>3. ASSUME Auditores \cap ativos # {}
      PROVE  OrdemInv' /\ \A a \in Auditores : AuditorInv(a)'
  <2>1. OrdemInv /\ \A a \in Auditores : AuditorInv(a)
    BY <1>3 DEF TrilhaLidaInv
  <2>2. OrdemInv' /\ Cresce /\ trilha \subseteq trilha'
    BY <1>3, <2>1, OrdemStep
  <2>3. Sequencia(ordem) /\ Sequencia(ordem)'
    BY <2>1, <2>2 DEF OrdemInv
  <2> SUFFICES ASSUME NEW a \in Auditores  PROVE AuditorInv(a)'
    BY <2>2
  <2>4. CASE list_audit_log(a)
    BY <2>1, <2>4, PaginaDaTrilhaLida
  <2>5. CASE ~ list_audit_log(a)
    <3>1. /\ pedido'[a].lido = pedido[a].lido
          /\ pedido'[a].fase \in {"novo", "trilha"} => pedido[a].fase \in {"novo", "trilha"}
          /\ pedido'[a].resposta = 200 => pedido[a].resposta = 200
      BY <2>5, AuditorEspera
    <3>2. PICK n \in Nat : n = pedido[a].lido.page
      BY <2>1 DEF AuditorInv
    <3>3. n * PER_PAGE \in Nat
      BY Paginas
    <3>4. TrilhaVistaAte(a, n) => TrilhaVistaAte(a, n)'
      <4> SUFFICES ASSUME TrilhaVistaAte(a, n), NEW e \in pedido[a].lido.desde
                   PROVE  \E k \in Selecionadas(a)' :
                             /\ ordem'[k] = e
                             /\ PosicaoNaTrilha(a, k)' <= n * PER_PAGE => e \in pedido[a].lido.vistos
        BY <3>1 DEF TrilhaVistaAte
      <4>1. PICK k \in Selecionadas(a) :
               ordem[k] = e /\ (PosicaoNaTrilha(a, k) <= n * PER_PAGE => e \in pedido[a].lido.vistos)
        BY DEF TrilhaVistaAte
      <4>2. /\ k \in Selecionadas(a)' /\ ordem'[k] = ordem[k]
            /\ PosicaoNaTrilha(a, k) \in Nat /\ PosicaoNaTrilha(a, k)' \in Nat
            /\ PosicaoNaTrilha(a, k) <= PosicaoNaTrilha(a, k)'
        BY <2>2, <2>3, LinhaRecua
      <4>3. QED  BY <3>3, <4>1, <4>2
    <3>5. QED  BY <2>1, <3>1, <3>2, <3>4 DEF AuditorInv
  <2>6. QED  BY <2>4, <2>5
<1>4. QED  BY <1>1, <1>2, <1>3 DEF TrilhaLidaInv

\* Who pages to the end misses nothing there was at the beginning, for any page size, any
\* number of leads and events, writers, jobs and restarts: what is not yet seen only moves to
\* later pages, and a page comes short only when nothing is behind it (lead_service.listar,
\* api/v1/audit.list_audit_log).
THEOREM ListagemGarantida == Spec => []ListagemCompleta
<1>1. Init => LeitorInv /\ ListagemInv /\ TrilhaLidaInv
  BY LeitorInit, ListagemInit, TrilhaLidaInit
<1>2. IInv /\ IInv' /\ LeitorInv /\ ListagemInv /\ TrilhaLidaInv /\ [Next]_vars
         => (LeitorInv /\ ListagemInv /\ TrilhaLidaInv)'
  <2>1. IInv => PedidoInv /\ JobInv
    BY DEF IInv
  <2>2. QED  BY <2>1, LeitorStep, ListagemStep, TrilhaLidaStep
<1>3. IInv /\ ListagemInv /\ TrilhaLidaInv => ListagemCompleta
  <2> SUFFICES ASSUME ListagemInv, TrilhaLidaInv, NEW a \in Auditores, pedido[a].resposta = 200
               PROVE  pedido[a].lido.desde \subseteq pedido[a].lido.vistos
    BY DEF ListagemInv, PaginasLidas, ListagemCompleta
  <2>1. a \in ativos
    BY NuloDominio DEF TrilhaLidaInv
  <2>2. QED  BY <2>1 DEF TrilhaLidaInv, AuditorInv
<1>4. QED  BY <1>1, <1>2, <1>3, Indutivo, PTL DEF Spec
-----------------------------------------------------------------------------
(* Types: what a request, a reader and a job hold at any moment *)

DoPedido(r) ==
    /\ pedido[r].fase \in {"novo", "enviar", "fim"} \cup Fases(r)
    /\ pedido[r].resposta \in RespostasDe(r) \cup {Nulo}
    /\ LidoOK(r)

EtapaInv == \A r \in Reqs : DoPedido(r)

FaseDoJobInv == \A j \in Jobs : job[j].fase \in {"novo", "anonimizar", "fim", "erro"}

RelogioInv == tempo \in 0..MaxTempo /\ \A l \in Leitores : leitura[l].agora <= tempo

\* The kinds of requests exclude each other, so each has the steps of its own handler.
LEMMA FasesDe ==
  ASSUME NEW r \in Reqs
  PROVE  /\ Fases(r) = IF r \in Compras
                       THEN {"cpf", "vin", "inserir_cliente", "inserir_veiculo", "commit"}
                       ELSE IF r \in Patches THEN {"carregar", "atualizar", "commit_patch"}
                       ELSE IF r \in Detalhes THEN {"obter"} ELSE {"trilha"}
         /\ PrimeiraFase(r) \in Fases(r)
<1>1. Fases(r) = IF r \in Compras
                 THEN {"cpf", "vin", "inserir_cliente", "inserir_veiculo", "commit"}
                 ELSE IF r \in Patches THEN {"carregar", "atualizar", "commit_patch"}
                 ELSE IF r \in Detalhes THEN {"obter"} ELSE {"trilha"}
  BY ConstantesDominio DEF Fases, Reqs
<1>2. QED  BY <1>1, PrimeirasFases

LEMMA RespostasDoPedido ==
  ASSUME NEW r \in Reqs
  PROVE  /\ {401, 403, 422, 500, PERDIDA} \subseteq RespostasDe(r)
         /\ r \in Compras => {201, 409} \subseteq RespostasDe(r)
         /\ r \in Patches \cup Detalhes => {200, 404} \subseteq RespostasDe(r)
         /\ r \in Auditores => 200 \in RespostasDe(r)
  BY ConstantesDominio DEF RespostasDe

\* Events are never taken back.
LEMMA TrilhaSoCresce ==
  ASSUME LeitorInv, [Next]_vars
  PROVE  trilha \subseteq trilha'
<1>1. ASSUME NEW l \in Leitores, ReceberGet(l) \/ Contar(l) \/ FalharGet(l)  PROVE UNCHANGED trilha
  BY <1>1 DEF ReceberGet, Contar, FalharGet, tabelas
<1>2. ASSUME NEW l \in Leitores, Listar(l)  PROVE trilha \subseteq trilha'
  BY <1>2, PassoListar
<1>3. CairGateway \/ Relogio => UNCHANGED trilha
  BY DEF CairGateway, Relogio, tabelas
<1>4. QED  BY <1>1, <1>2, <1>3, PassosDosLeitores

LEMMA LidoFica ==
  ASSUME NEW r, LidoOK(r), pedido'[r].lido = pedido[r].lido, trilha \subseteq trilha'
  PROVE  LidoOK(r)'
<1>1. CASE r \in Auditores
  BY <1>1 DEF LidoOK
<1>2. CASE r \notin Auditores
  BY <1>2 DEF LidoOK
<1>3. QED  BY <1>1, <1>2

\* The detail of a lead is one of LeadDetail: its cliente is in the table, masked.
LEMMA DetalheValido ==
  ASSUME LinhaInv, LeadInv, NEW i \in Ids, leads[i] # Nulo
  PROVE  [lead |-> leads[i], cliente |-> cliente_to_output(i)] \in LeadDetail
<1>1. leads[i] \in Lead
  BY DEF LeadInv
<1>2. clientes[i] = ClienteNovo(i) \/ \E j \in Jobs : clientes[i] = AnonimoDe(i, j)
  BY DEF LinhaInv, LeadInv, Anonima
<1>3. clientes[i] \in Linha
  BY <1>2, LinhasValidas
<1>4. clientes[i].cpf \in Identidade /\ clientes[i].perfil \in Perfis
  BY <1>3 DEF Linha
<1> DEFINE c == [campo \in {"email", "telefone"} |->
                   IF campo \in clientes[i].contato THEN MASCARADO ELSE Nulo]
           C == [{"email", "telefone"} -> {MASCARADO, Nulo}]
           v == [cpf_masked |-> mask_cpf(clientes[i].cpf), perfil |-> clientes[i].perfil,
                 contato_masked |-> c]
           V == [cpf_masked : Identidade \cup {MASCARADO}, perfil : Perfis, contato_masked : C]
<1>c. c \in C
  OBVIOUS
<1> HIDE DEF c, C
<1>5. mask_cpf(clientes[i].cpf) \in Identidade \cup {MASCARADO}
  BY <1>4 DEF mask_cpf
<1>6. v \in V
  BY <1>4, <1>5, <1>c
<1>7. cliente_to_output(i) \in V
  BY <1>6 DEF cliente_to_output, c
<1>8. LeadDetail = [lead : Lead, cliente : V]
  BY DEF LeadDetail, C
<1> HIDE DEF v, V
<1>9. QED  BY <1>1, <1>7, <1>8

LEMMA EtapaInit == Init => EtapaInv
<1> SUFFICES ASSUME Init, NEW r \in Reqs  PROVE DoPedido(r)
  BY DEF EtapaInv
<1>1. pedido[r] = [fase |-> "novo", resposta |-> Nulo,
                   lido |-> IF r \in Auditores THEN [page |-> 0, vistos |-> {}, desde |-> {}] ELSE Nulo]
  BY DEF Init
<1>2. pedido[r].fase = "novo" /\ pedido[r].resposta = Nulo
  BY <1>1
<1>3. LidoOK(r)
  <2>1. CASE r \in Auditores
    BY <1>1, <2>1 DEF LidoOK
  <2>2. CASE r \notin Auditores
    BY <1>1, <2>2 DEF LidoOK
  <2>3. QED  BY <2>1, <2>2
<1>4. QED  BY <1>2, <1>3 DEF DoPedido

\* What a page of the trail adds to what the auditor has seen was in the trail.
LEMMA AuditorLido ==
  ASSUME PedidoInv, NEW a \in Auditores, LidoOK(a), list_audit_log(a)
  PROVE  LidoOK(a)'
<1> DEFINE p == pedido[a].lido.page
           rows == PaginaDaTrilha(a, p + 1)
           v == pedido[a].lido.vistos \cup {ordem[n] : n \in rows}
           d == IF p = 0 THEN NaConsulta(a) ELSE pedido[a].lido.desde
           cheia == Cardinality(rows) = PER_PAGE
<1>0. a \in Reqs /\ UNCHANGED trilha
  BY DEF Reqs, list_audit_log, tabelas
<1>1. pedido' = [pedido EXCEPT ![a] = [fase |-> IF cheia THEN "novo" ELSE "enviar",
                                       resposta |-> IF cheia THEN Nulo ELSE 200,
                                       lido |-> [page |-> p + 1, vistos |-> v, desde |-> d]]]
  BY Zenon DEF list_audit_log
<1>2. p \in Nat /\ pedido[a].lido.vistos \subseteq trilha /\ pedido[a].lido.desde \subseteq trilha
  BY DEF LidoOK
<1>3. \A n \in rows : ordem[n] \in trilha
  BY DEF PaginaDaTrilha, Selecionadas, NaConsulta
<1>4. d \subseteq trilha /\ p + 1 \in Nat
  BY <1>2 DEF NaConsulta
<1>5. v \subseteq trilha
  BY <1>2, <1>3
<1> HIDE DEF p, rows, v, d, cheia
<1>6. pedido'[a].lido = [page |-> p + 1, vistos |-> v, desde |-> d]
  BY <1>0, <1>1 DEF PedidoInv
<1>7. QED  BY <1>0, <1>4, <1>5, <1>6 DEF LidoOK

LEMMA EtapaStep ==
  PedidoInv /\ LinhaInv /\ LeadInv /\ LeitorInv /\ EtapaInv /\ [Next]_vars => EtapaInv'
<1> SUFFICES ASSUME PedidoInv, LinhaInv, LeadInv, LeitorInv, EtapaInv, [Next]_vars  PROVE EtapaInv'
  OBVIOUS
<1>0. /\ trilha \subseteq trilha'
      /\ \A r \in Compras \cup Patches \cup Detalhes \cup Auditores : r \in Reqs
      /\ \A r \in Reqs : LidoOK(r) /\ pedido[r].resposta \in RespostasDe(r) \cup {Nulo}
  BY TrilhaSoCresce DEF Reqs, EtapaInv, DoPedido
<1>f. ASSUME NEW s \in Reqs, pedido'[s] = pedido[s]  PROVE DoPedido(s)'
  <2>1. LidoOK(s)'
    BY <1>0, <1>f, LidoFica
  <2>2. pedido[s].fase \in {"novo", "enviar", "fim"} \cup Fases(s)
    BY DEF EtapaInv, DoPedido
  <2>3. QED  BY <1>0, <1>f, <2>1, <2>2 DEF DoPedido
<1>a. ASSUME NEW r \in Reqs, MudaSo(r), LidoOK(r)',
             pedido'[r].fase \in {"novo", "enviar", "fim"} \cup Fases(r),
             pedido'[r].resposta \in RespostasDe(r) \cup {Nulo}
      PROVE  EtapaInv'
  <2>1. DoPedido(r)'
    BY <1>a DEF DoPedido
  <2>2. QED  BY <1>a, <1>f, <2>1 DEF MudaSo, EtapaInv
\* The record that was read stays.
<1>b. ASSUME NEW r \in Reqs, MudaSo(r), pedido'[r].lido = pedido[r].lido,
             pedido'[r].fase \in {"novo", "enviar", "fim"} \cup Fases(r),
             pedido'[r].resposta \in RespostasDe(r) \cup {Nulo}
      PROVE  EtapaInv'
  BY <1>0, <1>a, <1>b, LidoFica
<1>c. ASSUME UNCHANGED pedido  PROVE EtapaInv'
  BY <1>c, <1>f DEF EtapaInv
<1>1. ASSUME NEW c \in Compras, SelectCpf(c) \/ SelectVin(c) \/ FlushCliente(c) \/ FlushVeiculo(c)
      PROVE  EtapaInv'
  <2>1. /\ Fases(c) = {"cpf", "vin", "inserir_cliente", "inserir_veiculo", "commit"}
        /\ 409 \in RespostasDe(c)
    BY <1>0, FasesDe, RespostasDoPedido
  <2>2. /\ MudaSo(c) /\ pedido'[c].lido = pedido[c].lido
        /\ \/ pedido'[c].fase = "enviar" /\ pedido'[c].resposta = 409
           \/ /\ pedido'[c].resposta = pedido[c].resposta
              /\ pedido'[c].fase \in {"vin", "inserir_cliente", "inserir_veiculo", "commit"}
    BY <1>1, PassoInstrucao
  <2>3. QED  BY <1>0, <1>b, <2>1, <2>2
<1>2. ASSUME NEW c \in Compras, CommitCompra(c)  PROVE EtapaInv'
  <2>1. {201, 500} \subseteq RespostasDe(c)
    BY <1>0, RespostasDoPedido
  <2>2. /\ MudaSo(c) /\ pedido'[c].lido = pedido[c].lido
        /\ pedido'[c].fase = "enviar" /\ pedido'[c].resposta \in {201, 500}
    BY <1>2, PassoCommitCompra
  <2>3. QED  BY <1>0, <1>b, <2>1, <2>2
<1>3. ASSUME NEW p \in Patches, Carregar(p) \/ FlushPatch(p)  PROVE EtapaInv'
  <2>1. /\ Fases(p) = {"carregar", "atualizar", "commit_patch"} /\ 404 \in RespostasDe(p)
        /\ p \notin Auditores /\ p \notin Detalhes /\ LeadDe[p] \in Ids
    BY <1>0, FasesDe, RespostasDoPedido, ConstantesDominio
  <2>2. /\ MudaSo(p)
        /\ \/ /\ pedido'[p].fase = "enviar" /\ pedido'[p].resposta = 404
              /\ pedido'[p].lido = pedido[p].lido
           \/ /\ pedido'[p].resposta = pedido[p].resposta /\ pedido'[p].fase = "commit_patch"
              /\ pedido'[p].lido = pedido[p].lido
           \/ /\ pedido'[p].resposta = pedido[p].resposta /\ pedido'[p].fase = "atualizar"
              /\ pedido'[p].lido = leads[LeadDe[p]] /\ leads[LeadDe[p]] # Nulo
    BY <1>3, PassoLeitura
  <2>3. CASE pedido'[p].lido = pedido[p].lido
    BY <1>0, <1>b, <2>1, <2>2, <2>3
  <2>4. CASE /\ pedido'[p].resposta = pedido[p].resposta /\ pedido'[p].fase = "atualizar"
             /\ pedido'[p].lido = leads[LeadDe[p]] /\ leads[LeadDe[p]] # Nulo
    <3>1. pedido'[p].lido \in Lead
      BY <2>1, <2>4 DEF LeadInv
    <3>2. LidoOK(p)'
      BY <2>1, <3>1 DEF LidoOK
    <3>3. QED  BY <1>0, <1>a, <2>1, <2>2, <2>4, <3>2
  <2>5. QED  BY <2>2, <2>3, <2>4
<1>4. ASSUME NEW p \in Patches, CommitPatch(p)  PROVE EtapaInv'
  <2>1. {200, 500} \subseteq RespostasDe(p)
    BY <1>0, RespostasDoPedido
  <2>2. /\ MudaSo(p) /\ pedido'[p].lido = pedido[p].lido
        /\ pedido'[p].fase = "enviar" /\ pedido'[p].resposta \in {200, 500}
    BY <1>4, PatchResponde
  <2>3. QED  BY <1>0, <1>b, <2>1, <2>2
<1>5. ASSUME NEW d \in Detalhes, obter(d)  PROVE EtapaInv'
  <2>1. d \notin Auditores /\ LeadDe[d] \in Ids /\ {200, 404} \subseteq RespostasDe(d)
    BY <1>0, RespostasDoPedido, ConstantesDominio
  <2>2. MudaSo(d) /\ pedido'[d].fase = "enviar"
    BY <1>5, PassoDetalhe
  <2>3. CASE pedido'[d].resposta = 404 /\ pedido'[d].lido = pedido[d].lido
    BY <1>0, <1>b, <2>1, <2>2, <2>3
  <2>4. CASE /\ pedido'[d].resposta = 200 /\ leads[LeadDe[d]] # Nulo
             /\ pedido'[d].lido = [lead |-> leads[LeadDe[d]], cliente |-> cliente_to_output(LeadDe[d])]
    <3>1. pedido'[d].lido \in LeadDetail
      BY <2>1, <2>4, DetalheValido
    <3>2. LidoOK(d)'
      BY <2>1, <3>1 DEF LidoOK
    <3>3. QED  BY <1>0, <1>a, <2>1, <2>2, <2>4, <3>2
  <2>5. QED  BY <1>5, <2>3, <2>4, PassoDetalhe
<1>6. ASSUME NEW a \in Auditores, list_audit_log(a)  PROVE EtapaInv'
  <2>1. LidoOK(a)'
    BY <1>0, <1>6, AuditorLido
  <2>2. 200 \in RespostasDe(a)
    BY <1>0, RespostasDoPedido
  <2>3. QED  BY <1>0, <1>6, <1>a, <2>1, <2>2, PassoAuditor
<1>7. ASSUME NEW r \in Reqs, Receber(r)  PROVE EtapaInv'
  <2>1. {401, 403, 422} \subseteq RespostasDe(r) /\ PrimeiraFase(r) \in Fases(r)
    BY FasesDe, RespostasDoPedido
  <2>2. /\ MudaSo(r) /\ pedido'[r].lido = pedido[r].lido
        /\ \/ pedido'[r].resposta = pedido[r].resposta /\ pedido'[r].fase = PrimeiraFase(r)
           \/ pedido'[r].fase = "fim" /\ pedido'[r].resposta \in {401, 403, 422}
    BY <1>7, PassoReceber
  <2>3. QED  BY <1>0, <1>b, <2>1, <2>2
<1>8. ASSUME NEW r \in Reqs, Falhar(r) \/ Enviar(r)  PROVE EtapaInv'
  <2>1. 500 \in RespostasDe(r)
    BY RespostasDoPedido
  <2>2. /\ MudaSo(r) /\ pedido'[r].lido = pedido[r].lido
        /\ pedido'[r].fase \in {"enviar", "fim"} /\ pedido'[r].resposta \in {500, pedido[r].resposta}
    BY <1>8, PassoComum
  <2>3. QED  BY <1>0, <1>b, <2>1, <2>2
<1>9. ASSUME NEW l \in Leitores, Listar(l)  PROVE EtapaInv'
  BY <1>9, <1>c DEF Listar
<1>10. ASSUME NEW j \in Jobs, JobAvanca(j) \/ CommitJob(j)  PROVE EtapaInv'
  BY <1>10, <1>c DEF JobAvanca, SelectExpired, AnonimizarCliente, AbortarJob, CommitJob
<1>11. CASE CairGateway
  <2> SUFFICES ASSUME NEW r \in Reqs  PROVE DoPedido(r)'
    BY DEF EtapaInv
  <2>1. CASE pedido'[r] = pedido[r]
    BY <1>f, <2>1
  <2>2. CASE /\ pedido'[r].fase = "fim" /\ pedido'[r].resposta = PERDIDA
             /\ pedido'[r].lido = pedido[r].lido
    <3>1. LidoOK(r)'
      BY <1>0, <2>2, LidoFica
    <3>2. PERDIDA \in RespostasDe(r)
      BY RespostasDoPedido
    <3>3. QED  BY <2>2, <3>1, <3>2 DEF DoPedido
  <2>3. QED  BY <1>11, <2>1, <2>2, PassoQueda
<1>12. QED
  BY <1>1, <1>2, <1>3, <1>4, <1>5, <1>6, <1>7, <1>8, <1>9, <1>10, <1>11, <1>c, PassosDeNext

LEMMA FaseDoJobStep == JobInv /\ FaseDoJobInv /\ [Next]_vars => FaseDoJobInv'
<1> SUFFICES ASSUME JobInv, FaseDoJobInv, [Next]_vars  PROVE FaseDoJobInv'
  OBVIOUS
<1> DEFINE etapas == {"novo", "anonimizar", "fim", "erro"}
<1>0. job \in [Jobs -> [fase : etapas, fila : Seq(Vencidos), feitos : Nat]]
  BY DEF JobInv, FaseDoJobInv
<1>1. \A f : f \in etapas <=> f \in {"novo", "anonimizar", "fim", "erro"}
  OBVIOUS
<1> HIDE DEF etapas
<1>a. ASSUME NEW j \in Jobs, NEW f \in etapas, NEW s, NEW n,
             job' = [job EXCEPT ![j] = [fase |-> f, fila |-> s, feitos |-> n]]
      PROVE  FaseDoJobInv'
  BY <1>0, <1>1, <1>a DEF FaseDoJobInv
<1>2. ASSUME NEW j \in Jobs, SelectExpired(j)  PROVE FaseDoJobInv'
  <2>1. CASE job' = [job EXCEPT ![j].fase = "fim"]
    BY <1>0, <1>1, <2>1 DEF FaseDoJobInv
  <2>2. ASSUME NEW fila, job' = [job EXCEPT ![j] = [fase |-> "anonimizar", fila |-> fila, feitos |-> 0]]
        PROVE  FaseDoJobInv'
    BY <1>1, <1>a, <2>2
  <2>3. QED  BY <1>2, <2>1, <2>2 DEF SelectExpired
<1>3. ASSUME NEW j \in Jobs, AnonimizarCliente(j)  PROVE FaseDoJobInv'
  <2>1. job' = [job EXCEPT ![j].feitos = @ + 1]
    BY <1>3 DEF AnonimizarCliente
  <2>2. QED  BY <1>0, <1>1, <2>1 DEF FaseDoJobInv
<1>4. ASSUME NEW j \in Jobs, AbortarJob(j) \/ CommitJob(j)  PROVE FaseDoJobInv'
  <2>1. \/ job' = [job EXCEPT ![j] = [fase |-> "erro", fila |-> <<>>, feitos |-> 0]]
        \/ job' = [job EXCEPT ![j] = [fase |-> "fim", fila |-> <<>>, feitos |-> 0]]
    BY <1>4 DEF AbortarJob, CommitJob
  <2>2. "erro" \in etapas /\ "fim" \in etapas
    BY <1>1
  <2>3. QED  BY <1>a, <2>1, <2>2
<1>5. UNCHANGED job => FaseDoJobInv'
  BY DEF FaseDoJobInv
<1>6. QED  BY <1>2, <1>3, <1>4, <1>5, QuemMudaJob DEF JobAvanca

\* No reader has read a clock that has not come yet.
LEMMA RelogioStep == LeitorInv /\ RelogioInv /\ [Next]_vars => RelogioInv'
<1> SUFFICES ASSUME LeitorInv, RelogioInv, [Next]_vars  PROVE RelogioInv'
  OBVIOUS
<1>0. /\ leitura \in [Leitores -> TipoLeitura] /\ tempo \in Nat /\ MaxTempo \in Nat
      /\ \A l \in Leitores : leitura[l].agora \in Nat
  BY ConstantesDominio DEF LeitorInv, TipoLeitura
<1>a. ASSUME UNCHANGED tempo, \A l \in Leitores : leitura'[l].agora \in {leitura[l].agora, tempo}
      PROVE  RelogioInv'
  BY <1>0, <1>a DEF RelogioInv
<1>1. ASSUME NEW l \in Leitores, ReceberGet(l)  PROVE RelogioInv'
  <2> DEFINE d == IF leitura[l].contas = <<>> THEN ExisteLead ELSE leitura[l].desde
  <2>1. /\ leitura' = [leitura EXCEPT ![l].fase = "contar", ![l].agora = tempo, ![l].desde = d]
        /\ UNCHANGED tempo
    BY <1>0, <1>1 DEF ReceberGet
  <2> HIDE DEF d
  <2>2. \A k \in Leitores : leitura'[k].agora \in {leitura[k].agora, tempo}
    BY <1>0, <2>1 DEF TipoLeitura
  <2>3. QED  BY <1>a, <2>1, <2>2
<1>2. ASSUME NEW l \in Leitores, Contar(l)  PROVE RelogioInv'
  <2> DEFINE n == Len(hit(l))
  <2>1. leitura' = [leitura EXCEPT ![l].fase = "listar", ![l].contas = Append(@, n)] /\ UNCHANGED tempo
    BY <1>2 DEF Contar
  <2> HIDE DEF n
  <2>2. \A k \in Leitores : leitura'[k].agora = leitura[k].agora
    BY <1>0, <2>1 DEF TipoLeitura
  <2>3. QED  BY <1>a, <2>1, <2>2
<1>3. ASSUME NEW l \in Leitores, Listar(l)  PROVE RelogioInv'
  <2> DEFINE itens == Pagina(l, Len(leitura[l].contas))
             f == IF Cardinality(itens) = PER_PAGE THEN "novo" ELSE "fim"
  <2>1. /\ leitura' = [leitura EXCEPT ![l].vistos = @ \cup itens, ![l].resposta = 200, ![l].fase = f]
        /\ UNCHANGED tempo
    BY <1>3 DEF Listar
  <2> HIDE DEF itens, f
  <2>2. \A k \in Leitores : leitura'[k].agora = leitura[k].agora
    BY <1>0, <2>1 DEF TipoLeitura
  <2>3. QED  BY <1>a, <2>1, <2>2
<1>4. ASSUME NEW l \in Leitores, FalharGet(l)  PROVE RelogioInv'
  <2>1. leitura' = [leitura EXCEPT ![l].fase = "fim", ![l].resposta = 500] /\ UNCHANGED tempo
    BY <1>4 DEF FalharGet
  <2>2. \A k \in Leitores : leitura'[k].agora = leitura[k].agora
    BY <1>0, <2>1 DEF TipoLeitura
  <2>3. QED  BY <1>a, <2>1, <2>2
<1>5. CASE CairGateway
  <2>1. /\ leitura' = [l \in Leitores |-> IF leitura[l].fase \in {"novo", "fim"} THEN leitura[l]
                                         ELSE [leitura[l] EXCEPT !.fase = "fim", !.resposta = PERDIDA]]
        /\ UNCHANGED tempo
    BY <1>5 DEF CairGateway
  <2>2. \A k \in Leitores : leitura'[k].agora = leitura[k].agora
    BY <1>0, <2>1 DEF TipoLeitura
  <2>3. QED  BY <1>a, <2>1, <2>2
<1>6. CASE Relogio
  BY <1>0, <1>6 DEF Relogio, RelogioInv
<1>7. UNCHANGED <<leitura, tempo>> => RelogioInv'
  BY DEF RelogioInv
<1>8. QED  BY <1>1, <1>2, <1>3, <1>4, <1>5, <1>6, <1>7, PassosDosLeitores

\* Rows, leads, requests, readers and jobs are well formed and in a step the code has, whoever
\* races, fails or dies: no answer but those of the handler, no detail but a masked one, no
\* event seen that is not in the trail, no clock read ahead of time (all of the services of
\* the standalone Gateway, and its boot).
THEOREM TiposDoDominio == Spec => []TypeOK
<1>1. Init => LeitorInv /\ EtapaInv /\ FaseDoJobInv /\ RelogioInv
  <2>1. Init => FaseDoJobInv
    BY DEF Init, FaseDoJobInv
  <2>2. Init => RelogioInv
    BY ConstantesDominio DEF Init, RelogioInv
  <2>3. QED  BY <2>1, <2>2, LeitorInit, EtapaInit
<1>2. IInv /\ LeitorInv /\ EtapaInv /\ FaseDoJobInv /\ RelogioInv /\ [Next]_vars
         => (LeitorInv /\ EtapaInv /\ FaseDoJobInv /\ RelogioInv)'
  BY LeitorStep, EtapaStep, FaseDoJobStep, RelogioStep DEF IInv
<1>3. IInv /\ LeitorInv /\ EtapaInv /\ FaseDoJobInv /\ RelogioInv /\ TypeOKBoot => TypeOK
  <2> SUFFICES ASSUME IInv, LeitorInv, EtapaInv, FaseDoJobInv, RelogioInv, TypeOKBoot  PROVE TypeOK
    OBVIOUS
  <2>1. clientes \in [Ids -> Linha \cup {Nulo}] /\ leads \in [Ids -> Lead \cup {Nulo}]
    <3>1. \A i \in Ids : clientes[i] \in Linha \cup {Nulo}
      BY LinhasValidas DEF IInv, LinhaInv, Anonima
    <3>2. QED  BY <3>1 DEF IInv, LinhaInv, LeadInv
  <2>2. ASSUME NEW l \in Leitores
        PROVE  /\ leitura[l].fase \in {"novo", "contar", "listar", "fim"}
               /\ leitura[l].contas \in Seq(Nat) /\ leitura[l].agora \in 0..tempo
               /\ leitura[l].vistos \cup leitura[l].desde \subseteq Ids
    <3>1. leitura[l] \in TipoLeitura /\ leitura[l].agora <= tempo /\ tempo \in Nat
      BY DEF LeitorInv, RelogioInv
    <3>2. /\ leitura[l].fase \in FasesDoLeitor /\ leitura[l].contas \in Contagens
          /\ leitura[l].agora \in Nat
          /\ leitura[l].vistos \in Conjuntos /\ leitura[l].desde \in Conjuntos
      BY <3>1 DEF TipoLeitura
    <3>3. QED  BY <3>1, <3>2 DEF FasesDoLeitor, Contagens, Conjuntos
  <2>3. \A j \in Jobs : /\ job[j].fase \in {"novo", "anonimizar", "fim", "erro"}
                        /\ job[j].fila \in Seq(Vencidos) /\ job[j].feitos \in 0..Len(job[j].fila)
    BY DEF IInv, JobInv, FaseDoJobInv
  <2>4. \A r \in Reqs : /\ pedido[r].fase \in {"novo", "enviar", "fim"} \cup Fases(r)
                        /\ pedido[r].resposta \in RespostasDe(r) \cup {Nulo}
                        /\ LidoOK(r)
    BY DEF EtapaInv, DoPedido
  <2>5. QED  BY <2>1, <2>2, <2>3, <2>4, Zenon DEF TypeOK, RelogioInv
<1>4. QED  BY <1>1, <1>2, <1>3, Indutivo, TipoDoBoot, PTL DEF Spec
=============================================================================
