------------------------------ MODULE Pairing ------------------------------
(***************************************************************************)
(* Device pairing: the bridge on a user's computer starts a pairing, the   *)
(* user approves it in a browser, the bridge polls until it is handed the  *)
(* session minted for it (src/server.js, device pairing; the bridge's      *)
(* /api/pair handlers in bridge/server.mjs).                               *)
(*                                                                         *)
(* One step is the code between two awaits, on the server or in the        *)
(* bridge.  The bridge's panel polls on an interval and does not wait for  *)
(* the previous poll, so several may be in flight.  Secrets and codes are  *)
(* the pairing's identity: a claim with a wrong secret changes nothing.    *)
(***************************************************************************)
EXTENDS Naturals

CONSTANTS
    Pairings,   \* ids the pairings sequence can hand out
    Sessions,   \* ids the sessions sequence can hand out
    Users,      \* people who may approve
    Calls,      \* requests in flight at one time
    None

ASSUME NoneAssumption == None \notin Pairings \cup Sessions \cup Users

VARIABLES
    row,        \* row[p]: "unused" before the INSERT, "there", then "swept"
    parked,     \* pairings.session_token
    username,   \* pairings.username
    claimed,    \* pairings whose claimed_at is set
    expired,    \* pairings whose expires_at has passed
    owner,      \* sessions.user_id of the sessions minted by approvals
    pending,    \* the bridge's pendingPair
    account,    \* the bridge's account, saved to its config file
    call,       \* call[r]: the request in slot r
    \* History:
    handed      \* sessions whose token a claim has handed over

tables == <<row, parked, username, claimed, expired, owner>>
bridge == <<pending, account>>
vars == <<tables, bridge, call, handed>>

NoAccount == [session |-> None, user |-> None]
AccountRecord == [session : Sessions \cup {None}, user : Users \cup {None}]

PCs == {"idle", "sweep", "insert", "begun",
        "claimRead", "claimWrite", "token", "waiting", "gone",
        "approveRead", "approveMint", "approveWrite"}

\* heard: the bridge process that sent the request still runs.
CallRecord == [pc : PCs, pairing : Pairings \cup {None}, user : Users \cup {None},
               session : Sessions \cup {None}, heard : BOOLEAN]

NoCall == [pc |-> "idle", pairing |-> None, user |-> None, session |-> None,
           heard |-> FALSE]

Goto(r, l) == call' = [call EXCEPT ![r].pc = l]
Finish(r)  == call' = [call EXCEPT ![r] = NoCall]
Idle(r)    == call[r].pc = "idle"

Present(p) == row[p] = "there"
Usable(p)  == Present(p) /\ p \notin expired

Init ==
    /\ row = [p \in Pairings |-> "unused"]
    /\ parked = [p \in Pairings |-> None]
    /\ username = [p \in Pairings |-> None]
    /\ claimed = {} /\ expired = {}
    /\ owner = [s \in Sessions |-> None]
    /\ pending = None /\ account = NoAccount
    /\ call = [r \in Calls |-> NoCall]
    /\ handed = {}

-----------------------------------------------------------------------------
(* Starting: POST /api/pair/begin on the bridge, /api/pair/start on the      *)
(* server, which sweeps expired rows before it inserts.                      *)
Begin(r) ==
    /\ Idle(r)
    /\ call' = [call EXCEPT ![r] = [NoCall EXCEPT !.pc = "sweep", !.heard = TRUE]]
    /\ UNCHANGED <<tables, bridge, handed>>

Sweep(r) ==
    LET Swept == {p \in expired : Present(p)} IN
    /\ call[r].pc = "sweep"
    /\ row' = [p \in Pairings |-> IF p \in Swept THEN "swept" ELSE row[p]]
    /\ parked' = [p \in Pairings |-> IF p \in Swept THEN None ELSE parked[p]]
    /\ username' = [p \in Pairings |-> IF p \in Swept THEN None ELSE username[p]]
    /\ Goto(r, "insert")
    /\ UNCHANGED <<claimed, expired, owner, bridge, handed>>

Insert(r, p) ==
    /\ call[r].pc = "insert"
    /\ row[p] = "unused"
    /\ row' = [row EXCEPT ![p] = "there"]
    /\ call' = [call EXCEPT ![r].pc = "begun", ![r].pairing = p]
    /\ UNCHANGED <<parked, username, claimed, expired, owner, bridge, handed>>

BridgeBegun(r) ==
    /\ call[r].pc = "begun" /\ call[r].heard
    /\ pending' = call[r].pairing
    /\ Finish(r)
    /\ UNCHANGED <<tables, account, handed>>

-----------------------------------------------------------------------------
(* Approving, in the browser of a logged-in user.                            *)
Approve(r, u, p) ==
    /\ Idle(r)
    /\ row[p] # "unused"
    /\ call' = [call EXCEPT ![r] = [NoCall EXCEPT !.pc = "approveRead",
                                                  !.user = u, !.pairing = p]]
    /\ UNCHANGED <<tables, bridge, handed>>

ApproveRead(r) ==
    LET p == call[r].pairing IN
    /\ call[r].pc = "approveRead"
    /\ IF Usable(p) /\ parked[p] = None /\ p \notin claimed
       THEN Goto(r, "approveMint")
       ELSE Finish(r)
    /\ UNCHANGED <<tables, bridge, handed>>

ApproveMint(r, s) ==
    /\ call[r].pc = "approveMint"
    /\ owner[s] = None
    /\ owner' = [owner EXCEPT ![s] = call[r].user]
    /\ call' = [call EXCEPT ![r].pc = "approveWrite", ![r].session = s]
    /\ UNCHANGED <<row, parked, username, claimed, expired, bridge, handed>>

\* Mutant: the UPDATE's two parameters swapped.
ApproveWrite_ParametersSwapped(r) ==
    LET p == call[r].pairing IN
    /\ call[r].pc = "approveWrite"
    /\ IF Present(p)
       THEN /\ parked' = [parked EXCEPT ![p] = call[r].user]
            /\ username' = [username EXCEPT ![p] = call[r].session]
       ELSE UNCHANGED <<parked, username>>
    /\ Finish(r)
    /\ UNCHANGED <<row, claimed, expired, owner, bridge, handed>>

\* Mutant: a second approval replaces the token but not the user's name.
ApproveWrite_KeepsFirstName(r) ==
    LET p == call[r].pairing IN
    /\ call[r].pc = "approveWrite"
    /\ IF Present(p)
       THEN /\ parked' = [parked EXCEPT ![p] = call[r].session]
            /\ username' = [username EXCEPT ![p] = IF @ = None THEN call[r].user ELSE @]
       ELSE UNCHANGED <<parked, username>>
    /\ Finish(r)
    /\ UNCHANGED <<row, claimed, expired, owner, bridge, handed>>

\* The UPDATE names the row and nothing else: it does not look at it again.
ApproveWrite(r) ==
    LET p == call[r].pairing IN
    /\ call[r].pc = "approveWrite"
    /\ IF Present(p)
       THEN /\ parked' = [parked EXCEPT ![p] = call[r].session]
            /\ username' = [username EXCEPT ![p] = call[r].user]
       ELSE UNCHANGED <<parked, username>>
    /\ Finish(r)
    /\ UNCHANGED <<row, claimed, expired, owner, bridge, handed>>

-----------------------------------------------------------------------------
(* Claiming: GET /api/pair/status on the bridge, /api/pair/claim on the      *)
(* server.                                                                   *)
Poll(r) ==
    /\ Idle(r)
    /\ pending # None
    /\ call' = [call EXCEPT ![r] = [NoCall EXCEPT !.pc = "claimRead",
                                                  !.pairing = pending,
                                                  !.heard = TRUE]]
    /\ UNCHANGED <<tables, bridge, handed>>

\* Mutant: an approval is not looked at while the row says unclaimed.
ClaimRead_NeverApproved(r) ==
    LET p == call[r].pairing IN
    /\ call[r].pc = "claimRead"
    /\ Goto(r, IF Usable(p) /\ p \notin claimed THEN "waiting" ELSE "gone")
    /\ UNCHANGED <<tables, bridge, handed>>

ClaimRead(r) ==
    LET p == call[r].pairing IN
    /\ call[r].pc = "claimRead"
    /\ IF ~Usable(p) \/ p \in claimed THEN Goto(r, "gone")
       ELSE IF parked[p] = None THEN Goto(r, "waiting")
       ELSE call' = [call EXCEPT ![r].pc = "claimWrite",
                                 ![r].session = parked[p],
                                 ![r].user = username[p]]
    /\ UNCHANGED <<tables, bridge, handed>>

\* Mutant: the claim is stamped, the raw token stays in the row.
ClaimWrite_NoScrub(r) ==
    LET p == call[r].pairing IN
    /\ call[r].pc = "claimWrite"
    /\ IF Present(p)
       THEN claimed' = claimed \cup {p}
       ELSE UNCHANGED claimed
    /\ handed' = handed \cup {call[r].session}
    /\ Goto(r, "token")
    /\ UNCHANGED <<row, parked, username, expired, owner, bridge>>

ClaimWrite(r) ==
    LET p == call[r].pairing IN
    /\ call[r].pc = "claimWrite"
    /\ IF Present(p)
       THEN /\ parked' = [parked EXCEPT ![p] = None]
            /\ claimed' = claimed \cup {p}
       ELSE UNCHANGED <<parked, claimed>>
    /\ handed' = handed \cup {call[r].session}
    /\ Goto(r, "token")
    /\ UNCHANGED <<row, username, expired, owner, bridge>>

\* The bridge's continuation.  It reads pendingPair again after the await: if
\* another answer has cleared it, the assignment throws, the error is taken for
\* a network failure and the token is gone.
BridgeToken(r) ==
    /\ call[r].pc = "token" /\ call[r].heard
    /\ account' = IF pending = None THEN account
                  ELSE [session |-> call[r].session, user |-> call[r].user]
    /\ pending' = None
    /\ Finish(r)
    /\ UNCHANGED <<tables, handed>>

BridgeGone(r) ==
    /\ call[r].pc = "gone" /\ call[r].heard
    /\ pending' = None
    /\ Finish(r)
    /\ UNCHANGED <<tables, account, handed>>

BridgeWaiting(r) ==
    /\ call[r].pc = "waiting" /\ call[r].heard
    /\ Finish(r)
    /\ UNCHANGED <<tables, bridge, handed>>

-----------------------------------------------------------------------------
(* The local logout forgets the account; the session lives on.               *)
Logout ==
    /\ account # NoAccount
    /\ account' = NoAccount
    /\ UNCHANGED <<tables, pending, call, handed>>

Expire(p) ==
    /\ Present(p)
    /\ expired' = expired \cup {p}
    /\ UNCHANGED <<row, parked, username, claimed, owner, bridge, call, handed>>

\* A query fails, or a request or an answer is lost.
Lost(r) ==
    /\ ~Idle(r)
    /\ Finish(r)
    /\ UNCHANGED <<tables, bridge, handed>>

ServerCrash ==
    /\ call' = [r \in Calls |-> NoCall]
    /\ UNCHANGED <<tables, bridge, handed>>

\* pendingPair is not saved; the server still runs what it was asked.
BridgeRestart ==
    /\ pending' = None
    /\ call' = [r \in Calls |-> IF call[r].pc \in {"begun", "token", "waiting", "gone"}
                                THEN NoCall ELSE [call[r] EXCEPT !.heard = FALSE]]
    /\ UNCHANGED <<tables, account, handed>>

ServerStep(r) ==
    \/ Sweep(r) \/ ApproveRead(r) \/ ApproveWrite(r) \/ ClaimRead(r) \/ ClaimWrite(r)
    \/ \E p \in Pairings : Insert(r, p)
    \/ \E s \in Sessions : ApproveMint(r, s)

BridgeStep(r) ==
    BridgeBegun(r) \/ BridgeToken(r) \/ BridgeGone(r) \/ BridgeWaiting(r)

Next ==
    \/ \E r \in Calls :
         \/ Begin(r) \/ Poll(r)
         \/ \E u \in Users, p \in Pairings : Approve(r, u, p)
         \/ ServerStep(r) \/ BridgeStep(r) \/ Lost(r)
    \/ \E p \in Pairings : Expire(p)
    \/ Logout \/ ServerCrash \/ BridgeRestart

Spec == Init /\ [][Next]_vars

\* The panel polls every two seconds while a pairing is pending; every request
\* is answered or fails; the network and the database do not fail for ever.
FairSpec ==
    /\ Spec
    /\ SF_vars(\E r \in Calls : Poll(r))
    /\ \A r \in Calls :
         /\ WF_vars(ServerStep(r) \/ BridgeStep(r) \/ Lost(r))
         /\ SF_vars(ClaimRead(r)) /\ SF_vars(ClaimWrite(r))

-----------------------------------------------------------------------------
(* Properties.                                                               *)
\* The rows, the bridge and the slots hold what the code can put in them.
TypeOK ==
    /\ row \in [Pairings -> {"unused", "there", "swept"}]
    /\ parked \in [Pairings -> Sessions \cup {None}]
    /\ username \in [Pairings -> Users \cup {None}]
    /\ claimed \subseteq Pairings /\ expired \subseteq Pairings
    /\ owner \in [Sessions -> Users \cup {None}]
    /\ pending \in Pairings \cup {None}
    /\ account \in AccountRecord
    /\ call \in [Calls -> CallRecord]
    /\ handed \subseteq Sessions

\* The bridge is never told it acts for someone other than the user whose
\* session it was given, even when two people approve the same code
\* (src/server.js:682, 697).
NameMatchesSession ==
    account # NoAccount => owner[account.session] = account.user

\* A token that has been handed over is nowhere in the table any more: "deleted
\* on claim" (src/db.js:199).
HandedIsScrubbed ==
    \A p \in Pairings : parked[p] \notin handed

\* While the bridge polls for an approved pairing the token leaves the row,
\* unless the pairing expires or the bridge gives up on it
\* (bridge/server.mjs:288-291).
ApprovedIsClaimed ==
    \A p \in Pairings :
        (pending = p /\ parked[p] # None)
            ~> (p \in claimed \/ p \in expired \/ pending # p)
=============================================================================
