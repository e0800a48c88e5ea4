-------------------------- MODULE MCConsultorMobile --------------------------
(* Operations of one kind are interchangeable, and so are leads of one priority. *)
EXTENDS ConsultorMobile, TLC

MCSimetria ==
    Permutations(Listagens) \cup Permutations(Logins) \cup Permutations(Logouts)
        \cup Permutations(Criticos) \cup Permutations(Leads \ Criticos)
=============================================================================
