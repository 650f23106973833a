----------------------------- MODULE MCAccounts -----------------------------
(***************************************************************************)
(* Accounts and the limits of logins side by side: the only thing that     *)
(* passes between them is whether a login succeeds, which Logins leaves    *)
(* open and Accounts decides.                                              *)
(***************************************************************************)
EXTENDS Accounts, Logins, TLC

VARIABLE part

vars == <<accountsVars, loginsVars, part>>

MCProfileMail == [i \in Profiles |-> "e"]

Symmetry == Permutations(Slots)

Init == part \in {"accounts", "logins"} /\ AccountsInit /\ LoginsInit

Next ==
    /\ UNCHANGED part
    /\ \/ part = "accounts" /\ AccountsNext /\ UNCHANGED loginsVars
       \/ part = "logins"   /\ LoginsNext   /\ UNCHANGED accountsVars

Spec == Init /\ [][Next]_vars

TypeOK == AccountsTypeOK /\ LoginsTypeOK

=============================================================================
