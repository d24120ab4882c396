------------------------------ MODULE MCServer ------------------------------
(* Server for TLC: interchangeable clients and workers. *)
EXTENDS Server, TLC

MCSymmetry == Permutations(Clients) \cup Permutations(Workers)
=============================================================================
