-------------------------- MODULE MCGatewayDominio --------------------------
(* Values for the constants of GatewayDominio that a .cfg cannot write. *)
EXTENDS GatewayDominio

CONSTANTS c1, c2, c3, a1, a2, p1, p2, p3, p4, d1, u1, u2, l1, l2, j1, j2, k1,
          cpf1, cpf2, cpf3, vin1, vin2, vin3, vin4, obs, gerente, admin, demo1, demo2, emissor, publico, segredo

\* c1 and c2 share a CPF, c1 and c3 a VIN, and c3 comes back with the CPF of a1.
MCCpfDe == c1 :> cpf1 @@ c2 :> cpf1 @@ c3 :> cpf2 @@ a1 :> cpf2 @@ a2 :> cpf3
MCVinDe == c1 :> vin1 @@ c2 :> vin2 @@ c3 :> vin1 @@ a1 :> vin3 @@ a2 :> vin4

\* Email and telefone are optional: both, one or none.
MCContatoDe == c1 :> {"email"} @@ c2 :> {} @@ c3 :> {"telefone"}
               @@ a1 :> {"telefone"} @@ a2 :> {"email", "telefone"}

\* c1 ESQUECIDO (with the score of a1) and c2 ABANDONO lead to leads, c3 FIEL does not; a1
\* and a2 have one.
MCDigestDe == c1 :> <<70, 200>> @@ c2 :> <<90, 100>> @@ c3 :> <<10, 50>>
              @@ a1 :> <<70, 200>> @@ a2 :> <<199, 3>>

MCCriadoEm == a1 :> 1 @@ a2 :> 2 @@ c1 :> 3 @@ c2 :> 4 @@ c3 :> 5

\* Three patches meet on the lead of a1 (p3 keeps it as it was read), p4 waits for c1.
MCLeadDe  == p1 :> a1 @@ p2 :> a1 @@ p3 :> a1 @@ p4 :> c1 @@ d1 :> a1
MCCorpoDe == p1 :> [status |-> "agendado", observacao |-> obs]
          @@ p2 :> [status |-> "recusado", observacao |-> Nulo]
          @@ p3 :> [status |-> "aberto", observacao |-> Nulo]
          @@ p4 :> [status |-> "sem_contato", observacao |-> Nulo]

\* The pseudonym of a1 has as many digits as a CPF.
MCDigitosDe == a1 :> 11 @@ a2 :> 7 @@ c1 :> 10 @@ c2 :> 9 @@ c3 :> 8
MCAcaoDe    == u1 :> Nulo @@ u2 :> "LEAD_CREATED"

MCFiltroDe    == l1 :> Nulo @@ l2 :> "aberto"
MCPrincipalDe == l1 :> gerente @@ l2 :> gerente

MCAdminInicial == <<[email |-> admin, papel |-> "admin"]>>
MCDEFAULT_USERS == <<[email |-> demo1, papel |-> "consultor"], [email |-> demo2, papel |-> "analista"]>>
\* A laptop, a production with what it needs and one that has neither keys nor demo users.
MCAmbientes ==
    {[app_env |-> "development", jwt_auto_generate_keys |-> Nulo, seed_default_users |-> Nulo,
      core_api_url |-> ""],
     [app_env |-> "production", jwt_auto_generate_keys |-> TRUE, seed_default_users |-> FALSE,
      core_api_url |-> ""],
     [app_env |-> "prod", jwt_auto_generate_keys |-> Nulo, seed_default_users |-> Nulo,
      core_api_url |-> ""]}
MCPedidoDe     == k1 :> [email |-> demo1, papel |-> "admin"]

\* The races that matter, a few actors each: state grows with the product of the actors.
MCCenarios == {{c1, c2, c3, j1}, {c3, j1, j2, "queda"}, {p1, p2, p3}, {c1, p4, "queda"},
               {l1, l2}, {l1, c1, p4}, {l1, "queda"},
               {d1, p1, j1, "queda"}, {u1, p1, p2}, {u2, c1}, {"arranque", "queda", k1}}
=============================================================================
