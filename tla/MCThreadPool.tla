---------------------------- MODULE MCThreadPool ----------------------------
(* ThreadPool for TLC: interchangeable threads and tasks. *)
EXTENDS ThreadPool, TLC

MCSymmetry == Permutations(Workers) \cup Permutations(Submitters) \cup Permutations(Tasks)
=============================================================================
