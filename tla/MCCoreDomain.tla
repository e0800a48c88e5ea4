---------------------------- MODULE MCCoreDomain ----------------------------
(* Values for the constants of CoreDomain that a .cfg cannot write. *)
EXTENDS CoreDomain

\* The two risk profiles on either side of the limit of the top band, a safe profile, and a
\* perfil outside the enum.
MCRespostasMl == {[perfil |-> "ABANDONO", score |-> 85], [perfil |-> "ESQUECIDO", score |-> 84],
                  [perfil |-> "FIEL", score |-> 20], [perfil |-> "abandono", score |-> 85]}

\* One body with an observacao and one without.
MCCorpos(obs, nulo) == {[status |-> "AGENDADO", observacao |-> obs],
                        [status |-> "RECUSADO", observacao |-> nulo]}

CONSTANT obs
MCCorposPadrao == MCCorpos(obs, Nulo)
=============================================================================
