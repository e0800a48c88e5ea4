----------------------------- MODULE MCEdgeProxy -----------------------------
(* Purchases, CPFs, VINs and calls to warm_up_core are interchangeable. *)
EXTENDS EdgeProxy, TLC

MCSimetria ==
    Permutations(Compras) \cup Permutations(Cpfs) \cup Permutations(Vins)
        \cup Permutations(Aquecimentos)
=============================================================================
