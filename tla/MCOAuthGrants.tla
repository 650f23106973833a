--------------------------- MODULE MCOAuthGrants ---------------------------
(* Model-checking instance of OAuthGrants: which ids may be exchanged.       *)
EXTENDS OAuthGrants, TLC

Symmetry ==
    Permutations(Codes) \cup Permutations(Grants) \cup Permutations(Bridges)
        \cup Permutations(Modes) \cup Permutations(Calls)
=============================================================================
