------------------------ MODULE CredentialAuthority ------------------------
(***************************************************************************)
(* What Buildhall's credential store promises the rest of the server,      *)
(* without tables, queries or transactions.                                *)
(*                                                                         *)
(* A credential is a login session or an agent's bridge token.  It is      *)
(* issued once, and once it is dead it stays dead.  A user can be blocked  *)
(* (suspended, or deleted) and unblocked.  A call presents a credential;   *)
(* it may be granted only if the credential was live when the call         *)
(* arrived and its user was not blocked at some moment since then.         *)
(***************************************************************************)
CONSTANTS Users, Creds, Calls, None

VARIABLES
    status,   \* status[c]: "none" before it is issued, then "live", then "dead"
    holder,   \* holder[c]: the user it was issued to
    blocked,  \* the users whose credentials are all refused
    ask       \* ask[r]: what call r presented and where it has got to

vars == <<status, holder, blocked, ask>>

NoAsk == [state |-> "idle", cred |-> None, fresh |-> FALSE, active |-> FALSE]

Init ==
    /\ status  = [c \in Creds |-> "none"]
    /\ holder  = [c \in Creds |-> None]
    /\ blocked = {}
    /\ ask     = [r \in Calls |-> NoAsk]

\* A credential may be dead on arrival: a token minted under a dying session.
Issue(c, u, st) ==
    /\ status[c] = "none"
    /\ status' = [status EXCEPT ![c] = st]
    /\ holder' = [holder EXCEPT ![c] = u]
    /\ UNCHANGED blocked

Kill(C, U) ==
    /\ \A c \in C : status[c] # "none"
    /\ status' = [c \in Creds |-> IF c \in C THEN "dead" ELSE status[c]]
    /\ blocked' = blocked \cup U
    /\ UNCHANGED holder

Unblock(u) ==
    /\ blocked' = blocked \ {u}
    /\ ask' = [r \in Calls |->
                 IF ask[r].state # "idle" /\ holder[ask[r].cred] = u
                 THEN [ask[r] EXCEPT !.active = TRUE]
                 ELSE ask[r]]
    /\ UNCHANGED <<status, holder>>

Ask(r, c) ==
    /\ ask[r].state = "idle"
    /\ status[c] # "none"
    /\ ask' = [ask EXCEPT ![r] = [state  |-> "asking",
                                  cred   |-> c,
                                  fresh  |-> status[c] = "live",
                                  active |-> holder[c] \notin blocked]]
    /\ UNCHANGED <<status, holder, blocked>>

Grant(r) ==
    /\ ask[r].state = "asking"
    /\ ask[r].fresh
    /\ ask[r].active
    /\ ask' = [ask EXCEPT ![r].state = "granted"]
    /\ UNCHANGED <<status, holder, blocked>>

\* Calls end: one that is refused or done, or all of them when the server dies.
Drop(R) ==
    ask' = [r \in Calls |-> IF r \in R THEN NoAsk ELSE ask[r]]

Next ==
    \/ /\ \E c \in Creds, u \in Users, st \in {"live", "dead"} : Issue(c, u, st)
       /\ \E R \in SUBSET Calls : Drop(R)
    \/ /\ \E C \in SUBSET Creds, U \in SUBSET Users : Kill(C, U)
       /\ \E R \in SUBSET Calls : Drop(R)
    \/ \E u \in Users : Unblock(u)
    \/ \E r \in Calls, c \in Creds : Ask(r, c)
    \/ \E r \in Calls : Grant(r)

Spec == Init /\ [][Next]_vars
=============================================================================
