---------------------------- MODULE MCGatewayAuth ----------------------------
(* The requests of one kind are interchangeable, and so are the accounts. *)
EXTENDS GatewayAuth, TLC

MCSimetria ==
    Permutations(Logins) \cup Permutations(Refreshes) \cup Permutations(Logouts)
        \cup Permutations(Emails)
=============================================================================
