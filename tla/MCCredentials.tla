--------------------------- MODULE MCCredentials ---------------------------
(* Model-checking instance of Credentials: which ids may be exchanged.       *)
EXTENDS Credentials, TLC

Symmetry ==
    Permutations(Users) \cup Permutations(Sessions) \cup Permutations(Bridges)
        \cup Permutations(Calls)
=============================================================================
