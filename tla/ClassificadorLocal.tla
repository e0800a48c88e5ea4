------------------------- MODULE ClassificadorLocal -------------------------
(***************************************************************************)
(* The stub of the predictive engine that the standalone Gateway runs in   *)
(* its own process (services/gateway/app/services/ml_service.py).  It has  *)
(* no state: the first two bytes of the SHA-256 of the features decide the *)
(* perfil and the score.  The hash is left to the caller; scores are in    *)
(* thousandths, the precision round(..., 3) keeps.                         *)
(***************************************************************************)
EXTENDS Integers

Byte        == 0..255
Perfis      == {"FIEL", "ABANDONO", "ESQUECIDO", "ECONOMICO"}
Prioridades == {"CRITICA", "ALTA", "MEDIA", "BAIXA"}

PERFIS_GERAM_LEAD == {"ABANDONO", "ESQUECIDO"}

\* round(base + d1 / 255.0 * largura, 3).  2 * largura * d1 is even and 255 is odd, so no
\* value is half-way between two thousandths and the rounding mode does not matter.
Milesimos(base, largura, d1) == base + (2 * largura * d1 + 255) \div 510

perfil_do_balde(balde) ==
    IF balde < 35 THEN "FIEL"
    ELSE IF balde < 60 THEN "ECONOMICO"
    ELSE IF balde < 85 THEN "ESQUECIDO"
    ELSE "ABANDONO"

score_do_perfil(perfil, d1) ==
    CASE perfil = "FIEL"      -> Milesimos(100, 200, d1)
      [] perfil = "ECONOMICO" -> Milesimos(300, 250, d1)
      [] perfil = "ESQUECIDO" -> Milesimos(550, 200, d1)
      [] perfil = "ABANDONO"  -> Milesimos(780, 220, d1)

\* digest[0] % 100 picks the perfil, digest[1] places the score inside its band.
classificar(digest) ==
    LET perfil == perfil_do_balde(digest[1] % 100)
    IN  [perfil |-> perfil, score |-> score_do_perfil(perfil, digest[2])]

derivar_prioridade(score) ==
    IF score >= 850 THEN "CRITICA"
    ELSE IF score >= 650 THEN "ALTA"
    ELSE IF score >= 400 THEN "MEDIA"
    ELSE "BAIXA"
=============================================================================
