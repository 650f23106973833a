----------------------------- MODULE MCProjects -----------------------------
(* Model-checking instance of Projects: which ids may be exchanged.          *)
EXTENDS Projects, TLC

Symmetry == Permutations(Users) \cup Permutations(Calls)
=============================================================================
