---------------------------- MODULE SementeDemo ----------------------------
(***************************************************************************)
(* The generator of the demonstration data (build_seed.py) and the Flyway  *)
(* migration V3 it writes for the Core.  The spreadsheet has one row per   *)
(* service order; a vehicle enters once, at its first complete row.  The   *)
(* generator reads four times the sample it needs, takes every step-th     *)
(* hash in order and writes three INSERTs, whose ciphertexts are salted:   *)
(* no two runs write the same file.                                        *)
(***************************************************************************)
EXTENDS ClassificadorLocal, SequencesExt

CONSTANTS
    Hashes,            \* VIN_Hash of the vehicles: numbers, in the order of the strings
    Curtos,            \* those with fewer than 18 digits
    VinDe, CpfDe,      \* vin_from_hash (17 digits, upper case) and synth_cliente
    Dealers,
    DigestDe,          \* DigestDe[h][d]: the digest of dealer d and the region drawn from h
    Datas,             \* the cells of SalesDate
    Amostras,          \* the sizes asked for with --samples
    MaxLinhas,         \* bound of the rows read in a run
    MaxVersoes,        \* bound of the runs of the generator
    Nenhum

ASSUME ConstantesSemente ==
    /\ Hashes \subseteq Nat /\ Curtos \subseteq Hashes
    /\ DigestDe \in [Hashes -> [Dealers -> Byte \X Byte]]
    /\ Amostras \cup {MaxLinhas, MaxVersoes} \subseteq Nat /\ Nenhum \notin Nat

VARIABLES
    gerador,   \* [fase, n_samples, lidas, vistos]: the run under way; vistos is seen_vins
    script,    \* the V3 in the Core's resources: [versao, clientes, veiculos, leads], or Nenhum
    versoes,   \* how many files were written: a version stands for the checksum of one
    core       \* [fase, aplicada, tabelas]: the process, the V3 in flyway_schema_history, its rows

varsSemente == <<gerador, script, versoes, core>>

Linhas == [hash : Hashes \cup {Nenhum}, completa : BOOLEAN, dealer : Dealers, data : Datas]

\* The first format that fits decides: 03/04 is the fourth of March, whoever wrote it.
parse_sales_date(v) ==
    CASE v.tipo = "data" -> [mes |-> v.a, dia |-> v.b]
      [] v.tipo = "texto" /\ v.a \in 1..12 /\ v.b \in 1..31 -> [mes |-> v.a, dia |-> v.b]
      [] v.tipo = "texto" /\ v.a \in 13..31 /\ v.b \in 1..12 -> [mes |-> v.b, dia |-> v.a]
      [] OTHER -> Nenhum

Comeco(n) == [fase |-> "lendo", n_samples |-> n, lidas |-> 0, vistos |-> [h \in Hashes |-> Nenhum]]

Entra(linha) ==
    /\ linha.hash # Nenhum /\ gerador.vistos[linha.hash] = Nenhum
    /\ linha.completa /\ parse_sales_date(linha.data) # Nenhum

Vistos(vistos) == {h \in Hashes : vistos[h] # Nenhum}

\* The limit is looked at only after a row that entered.
LerLinha ==
    /\ gerador.fase = "lendo" /\ gerador.lidas < MaxLinhas
    /\ \E linha \in Linhas :
          LET vistos == IF Entra(linha)
                        THEN [gerador.vistos EXCEPT ![linha.hash] =
                                 [dealer |-> linha.dealer, data |-> parse_sales_date(linha.data)]]
                        ELSE gerador.vistos
              cheia  == Entra(linha) /\ Cardinality(Vistos(vistos)) >= gerador.n_samples * 4
          IN  gerador' = [gerador EXCEPT !.fase = IF cheia THEN "amostrar" ELSE "lendo",
                                         !.lidas = @ + 1, !.vistos = vistos]
    /\ UNCHANGED <<script, versoes, core>>

FimDaPlanilha ==
    /\ gerador.fase = "lendo"
    /\ gerador' = [gerador EXCEPT !.fase = "amostrar"]
    /\ UNCHANGED <<script, versoes, core>>

-----------------------------------------------------------------------------
(* The sample *)

Menor(a, b) == IF a <= b THEN a ELSE b
Maior(a, b) == IF a >= b THEN a ELSE b

\* len(s[::step]) and s[::step][:n]
Passos(tam, step) == (tam + step - 1) \div step
Fatia(s, step, n) == [k \in 1..Menor(n, Passos(Len(s), step)) |-> s[(k - 1) * step + 1]]

step_de(tam, n) == Maior(1, tam \div n)

\* Mutant of sampled: the sample is not cut at n.
sampled_SemCorte(vins, n) == Fatia(vins, step_de(Len(vins), n), Len(vins))

sampled(vins, n) == Fatia(vins, step_de(Len(vins), n), n)

\* sorted(seen_vins.keys())
vin_list(vistos) ==
    [k \in 1..Cardinality(vistos) |->
        CHOOSE h \in vistos : Cardinality({x \in vistos : x <= h}) = k]

Amostra == ToSet(sampled(vin_list(Vistos(gerador.vistos)), gerador.n_samples))

-----------------------------------------------------------------------------
(* The three INSERTs *)

Classe(h) == classificar(DigestDe[h][gerador.vistos[h].dealer])

clientes_rows(hs) == {[hash |-> h, cpf |-> CpfDe[h], perfil |-> Classe(h).perfil,
                       score |-> Classe(h).score] : h \in hs}
veiculos_rows(hs) == {[hash |-> h, vin |-> VinDe[h], data |-> gerador.vistos[h].data,
                       dealer |-> gerador.vistos[h].dealer] : h \in hs}
leads_rows(clientes) ==
    {[hash |-> c.hash, score |-> c.score, prioridade |-> derivar_prioridade(c.score)] :
        c \in {c \in clientes : c.perfil \in PERFIS_GERAM_LEAD}}

Script(hs) == [versao |-> versoes + 1, clientes |-> clientes_rows(hs),
               veiculos |-> veiculos_rows(hs), leads |-> leads_rows(clientes_rows(hs))]

\* A division by zero, or digits missing for valor_compra: nothing is written.
Escrever ==
    /\ gerador.fase = "amostrar" /\ versoes < MaxVersoes
    /\ IF gerador.n_samples = 0 \/ Amostra \cap Curtos # {}
       THEN gerador' = [gerador EXCEPT !.fase = "erro"] /\ UNCHANGED <<script, versoes>>
       ELSE /\ script' = Script(Amostra) /\ versoes' = versoes + 1
            /\ gerador' = [gerador EXCEPT !.fase = "escrito"]
    /\ UNCHANGED core

\* Run again, with another key for the PII or another spreadsheet.
Regenerar ==
    /\ gerador.fase \in {"escrito", "erro"} /\ versoes < MaxVersoes
    /\ \E n \in Amostras : gerador' = Comeco(n)
    /\ UNCHANGED <<script, versoes, core>>

-----------------------------------------------------------------------------
(* Flyway when the Core starts *)

\* An INSERT without rows is not SQL; the keys are unique over distinct vehicles.
Carrega(s) ==
    /\ s.clientes # {}
    /\ \A c, d \in s.clientes : c.cpf = d.cpf => c = d
    /\ \A v, w \in s.veiculos : v.vin = w.vin => v = w

\* A migration is one transaction; one that was applied must not have changed since.
SubirCore ==
    /\ core.fase # "no_ar" /\ script # Nenhum
    /\ core' =
         IF core.aplicada = Nenhum /\ Carrega(script)
         THEN [fase |-> "no_ar", aplicada |-> script.versao, tabelas |-> script]
         ELSE [core EXCEPT !.fase = IF core.aplicada = script.versao THEN "no_ar" ELSE "recusado"]
    /\ UNCHANGED <<gerador, script, versoes>>

PararCore ==
    /\ core.fase = "no_ar"
    /\ core' = [core EXCEPT !.fase = "parado"]
    /\ UNCHANGED <<gerador, script, versoes>>

InitSemente ==
    /\ gerador \in {Comeco(n) : n \in Amostras}
    /\ script = Nenhum /\ versoes = 0
    /\ core = [fase |-> "parado", aplicada |-> Nenhum, tabelas |-> Nenhum]

NextSemente ==
    \/ LerLinha \/ FimDaPlanilha \/ Escrever \/ Regenerar \/ SubirCore \/ PararCore

-----------------------------------------------------------------------------
(* Properties *)

\* Whatever the spreadsheet (repeated, incomplete or undated rows, any order), a file that was
\* written holds min(n, vehicles seen) clientes, one veiculo each, and a lead exactly for the
\* two risk profiles (build_seed.main:211-249).
AmostraCerta(s, vistos) ==
    /\ Cardinality(s.clientes) = Menor(gerador.n_samples, Cardinality(vistos))
    /\ {c.hash : c \in s.clientes} = {v.hash : v \in s.veiculos}
    /\ {c.hash : c \in s.clientes} \subseteq vistos
    /\ {l.hash : l \in s.leads} = {c.hash : c \in {c \in s.clientes : c.perfil \in {"ABANDONO", "ESQUECIDO"}}}

\* The Core that came up on a V3 has all of it, with keys that are unique, and never runs on
\* tables of another file than the one Flyway recorded; once it came up, only a V3 that was
\* generated again since can keep it from starting (its salt alone changes the checksum).
SementeCarrega ==
    /\ gerador.fase = "escrito" => AmostraCerta(script, Vistos(gerador.vistos))
    /\ core.aplicada # Nenhum => Carrega(core.tabelas) /\ core.aplicada = core.tabelas.versao
    /\ core.fase = "no_ar" => core.aplicada = core.tabelas.versao
    /\ core.fase = "recusado" /\ core.aplicada # Nenhum => script.versao > core.aplicada
=============================================================================
