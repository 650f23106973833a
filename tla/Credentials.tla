---------------------------- MODULE Credentials ----------------------------
(***************************************************************************)
(* Login sessions, bridge tokens, the handlers that create, resolve and    *)
(* revoke them, and the WebSockets opened with them (src/auth.js and the   *)
(* /api/auth, /api/setup, suspend and upgrade handlers of src/server.js).  *)
(*                                                                         *)
(* Every handler is async: it runs from one await to the next and anything *)
(* may happen in between.  One action is one such step.  A call slot is a  *)
(* handler in flight; an upgrade that succeeds keeps its slot as a live    *)
(* socket.  The tables survive a crash, the call slots do not.             *)
(***************************************************************************)
EXTENDS FiniteSets

CONSTANTS
    Users,      \* rows of users (site admins, who act on others, are outside)
    Sessions,   \* ids the sessions sequence can hand out
    Bridges,    \* ids the bridge_tokens sequence can hand out
    Calls,      \* handlers and sockets the server holds at one time
    None

Creds == Sessions \cup Bridges

ASSUME IdsAssumption ==
    /\ Sessions \cap Bridges = {}
    /\ None \notin Users \cup Sessions \cup Bridges

VARIABLES
    owner,      \* sessions.user_id, None while the row does not exist
    parent,     \* bridge_tokens.session_id, None while the row does not exist
    revoked,    \* rows of either table whose revoked_at is set
    expired,    \* sessions whose expires_at has passed
    suspended,  \* users whose suspended_at is set
    deleted,    \* users whose account was deleted (DELETE /api/auth/me)
    held,       \* sessions whose raw token was given to a client
    call,       \* call[r]: the handler or socket in slot r
    \* The rest is history: read by properties, by no handler.
    setupMinted, \* bridge tokens minted by one-click setup
    chosen,      \* bridge tokens their owner revoked one by one
    raced,       \* bridge tokens inserted under a session already being revoked
    severed      \* sessions whose logout handler has run to its response

tables  == <<owner, parent, revoked, expired, suspended, deleted, held>>
history == <<setupMinted, chosen, raced, severed>>
vars    == <<tables, call, history>>

-----------------------------------------------------------------------------
Issued(c) == IF c \in Sessions THEN owner[c] # None ELSE parent[c] # None
SessionOf(c) == IF c \in Sessions THEN c ELSE parent[c]
UserOf(c) == owner[SessionOf(c)]

\* Why resolveToken refuses c, its user's suspension apart.
RowDead(c)  == c \in revoked \/ SessionOf(c) \in revoked
Dead(c)     == RowDead(c) \/ SessionOf(c) \in expired

RequestOps == {"mint", "setup", "revoke", "logout", "delete", "upgrade"}
Ops == RequestOps \cup {"none", "login", "suspend"}
PCs == {"idle", "lookup", "user", "run", "minting", "commit", "close",
        "open", "closing"}
Granted == {"run", "minting", "commit", "close", "open", "closing"}

\* late: resolveToken's comparison of expires_at with the `now` it read first.
\* bornDead, blocked: history, see Start and Unsuspend.
CallRecord ==
    [pc : PCs, op : Ops, cred : Creds \cup {None},
     target : Bridges \cup Users \cup {None}, minted : Sessions \cup {None},
     batch : SUBSET Creds, late : BOOLEAN, bornDead : BOOLEAN, blocked : BOOLEAN]

NoCall ==
    [pc |-> "idle", op |-> "none", cred |-> None, target |-> None,
     minted |-> None, batch |-> {}, late |-> FALSE, bornDead |-> FALSE,
     blocked |-> FALSE]

Goto(r, l) == call' = [call EXCEPT ![r].pc = l]
Finish(r)  == call' = [call EXCEPT ![r] = NoCall]
At(r, l, O) == call[r].pc = l /\ call[r].op \in O

\* Rows another handler's open transaction has updated: Postgres makes a
\* second UPDATE of them wait for that transaction to end.
LockedFrom(r) == UNION {call[q].batch : q \in Calls \ {r}}

Init ==
    /\ owner  = [s \in Sessions |-> None]
    /\ parent = [b \in Bridges |-> None]
    /\ revoked = {} /\ expired = {} /\ suspended = {} /\ deleted = {} /\ held = {}
    /\ call = [r \in Calls |-> NoCall]
    /\ setupMinted = {} /\ chosen = {} /\ raced = {} /\ severed = {}

-----------------------------------------------------------------------------
(* A login of any kind: password, verification link, reset link, OAuth.  The *)
(* account is read first; a deleted one has no e-mail or identity to find.   *)
LoginStart(r, u) ==
    /\ call[r].pc = "idle"
    /\ u \notin deleted
    /\ call' = [call EXCEPT ![r] =
                  [NoCall EXCEPT !.pc = "run", !.op = "login", !.target = u]]
    /\ UNCHANGED <<tables, history>>

CreateSession(s, u) ==
    /\ owner[s] = None
    /\ owner' = [owner EXCEPT ![s] = u]
    /\ UNCHANGED <<parent, revoked, expired, suspended, deleted>>

\* createSession's second query may fail: then the row stays, its token is lost.
LoginSession(r, s) ==
    /\ At(r, "run", {"login"})
    /\ CreateSession(s, call[r].target)
    /\ held' \in {held, held \cup {s}}
    /\ Finish(r)
    /\ UNCHANGED history

-----------------------------------------------------------------------------
(* requireUser and the WebSocket handshake: resolveToken in two queries.     *)
Known == held \cup {b \in Bridges : parent[b] # None}

Start(r, o, c, t) ==
    /\ call[r].pc = "idle"
    /\ c \in Known
    /\ call' = [call EXCEPT ![r] =
                  [NoCall EXCEPT !.pc = "lookup", !.op = o, !.cred = c,
                                 !.target = t,
                                 !.late = SessionOf(c) \in expired,
                                 !.bornDead = Dead(c),
                                 !.blocked = UserOf(c) \in suspended]]
    /\ UNCHANGED <<tables, history>>

Request(r) ==
    \/ \E o \in RequestOps \ {"revoke"}, c \in Known : Start(r, o, c, None)
    \/ \E c \in Known, b \in Bridges : Start(r, "revoke", c, b)

\* Mutant: the bridge query without its join on sessions.
Lookup_NoJoin(r) ==
    /\ call[r].pc = "lookup"
    /\ IF call[r].late \/ call[r].cred \in revoked THEN Finish(r) ELSE Goto(r, "user")
    /\ UNCHANGED <<tables, history>>

\* The session row, or the bridge row joined with its session.
Lookup(r) ==
    /\ call[r].pc = "lookup"
    /\ IF call[r].late \/ RowDead(call[r].cred) THEN Finish(r) ELSE Goto(r, "user")
    /\ UNCHANGED <<tables, history>>

\* Mutant: suspended_at is not looked at where identity is resolved.
LookupUser_SuspensionIgnored(r) ==
    /\ call[r].pc = "user"
    /\ IF call[r].cred \in Bridges /\ call[r].op # "upgrade"
       THEN Finish(r)
       ELSE Goto(r, "run")
    /\ UNCHANGED <<tables, history>>

\* The user row, then requireSessionToken on everything but the handshake.
LookupUser(r) ==
    /\ call[r].pc = "user"
    /\ IF \/ UserOf(call[r].cred) \in suspended
          \/ call[r].cred \in Bridges /\ call[r].op # "upgrade"
       THEN Finish(r)
       ELSE Goto(r, "run")
    /\ UNCHANGED <<tables, history>>

-----------------------------------------------------------------------------
(* Minting bridge tokens.                                                    *)
CreateBridgeToken(b, s) ==
    /\ parent[b] = None
    /\ parent' = [parent EXCEPT ![b] = s]
    /\ raced' = IF s \in revoked \cup UNION {call[q].batch : q \in Calls}
                THEN raced \cup {b} ELSE raced
    /\ UNCHANGED <<owner, revoked, expired, suspended, deleted, held, chosen, severed>>

\* Mutant: createBridgeToken's first two arguments swapped.
Mint_ArgumentsSwapped(r, b) ==
    /\ At(r, "run", {"mint"})
    /\ CreateBridgeToken(b, UserOf(call[r].cred))
    /\ Finish(r)
    /\ UNCHANGED setupMinted

Mint(r, b) ==
    /\ At(r, "run", {"mint"})
    /\ CreateBridgeToken(b, call[r].cred)
    /\ Finish(r)
    /\ UNCHANGED setupMinted

\* One session per CLI, whose raw token is thrown away, and one token on it.
SetupSession(r, s) ==
    /\ At(r, "run", {"setup"})
    /\ CreateSession(s, UserOf(call[r].cred))
    /\ call' = [call EXCEPT ![r].pc = "minting", ![r].minted = s]
    /\ UNCHANGED <<held, history>>

\* Mutant: the agent's token is a child of the session that asked for it.
SetupBridge_OnCallersSession(r, b) ==
    /\ At(r, "minting", {"setup"})
    /\ CreateBridgeToken(b, call[r].cred)
    /\ setupMinted' = setupMinted \cup {b}
    /\ \/ Finish(r)
       \/ call' = [call EXCEPT ![r].pc = "run", ![r].minted = None]

SetupBridge(r, b) ==
    /\ At(r, "minting", {"setup"})
    /\ CreateBridgeToken(b, call[r].minted)
    /\ setupMinted' = setupMinted \cup {b}
    /\ \/ Finish(r)
       \/ call' = [call EXCEPT ![r].pc = "run", ![r].minted = None]

-----------------------------------------------------------------------------
(* Revocation.                                                               *)
RevokeToken(r) ==
    LET b == call[r].target IN
    /\ At(r, "run", {"revoke"})
    /\ b \notin LockedFrom(r)
    /\ IF parent[b] # None /\ UserOf(b) = UserOf(call[r].cred) /\ b \notin revoked
       THEN /\ revoked' = revoked \cup {b}
            /\ chosen' = chosen \cup {b}
            /\ Goto(r, "close")
       ELSE /\ Finish(r)
            /\ UNCHANGED <<revoked, chosen>>
    /\ UNCHANGED <<owner, parent, expired, suspended, deleted, held,
                   setupMinted, raced, severed>>

\* Mutant: the session is revoked, its children are not.
RowsToRevoke_SessionsOnly(r) ==
    LET me == call[r].cred IN
    {s \in Sessions :
        /\ owner[s] # None
        /\ s \notin revoked
        /\ IF call[r].op = "logout" THEN s = me ELSE owner[s] = UserOf(me)}

\* Mutant: a logout revokes by user, as the account deletion does.
RowsToRevoke_WholeUser(r) ==
    {c \in Creds : Issued(c) /\ c \notin revoked /\ UserOf(c) = UserOf(call[r].cred)}

\* The rows revokeSession, or the account deletion, will revoke.
RowsToRevoke(r) ==
    LET me == call[r].cred IN
    {c \in Creds :
        /\ Issued(c)
        /\ c \notin revoked
        /\ IF call[r].op = "logout" THEN SessionOf(c) = SessionOf(me)
                                    ELSE UserOf(c) = UserOf(me)}

\* The transaction's UPDATE statements: they see the rows of this moment and
\* lock them; nobody else sees their effect yet.
RevokeRows(r) ==
    /\ At(r, "run", {"logout", "delete"})
    /\ RowsToRevoke(r) \cap LockedFrom(r) = {}
    /\ call' = [call EXCEPT ![r].pc = "commit", ![r].batch = RowsToRevoke(r)]
    /\ UNCHANGED <<tables, history>>

\* The handler goes on to the close pass, or its answer is lost and it throws.
Revoked(r) == call' \in {[call EXCEPT ![r].pc = "close", ![r].batch = {}],
                         [call EXCEPT ![r] = NoCall]}

CommitRevoke(r) ==
    LET gone == IF call[r].op = "delete" THEN {UserOf(call[r].cred)} ELSE {} IN
    /\ call[r].pc = "commit"
    /\ revoked' = revoked \cup call[r].batch
    /\ suspended' = suspended \cup gone
    /\ deleted' = deleted \cup gone
    /\ Revoked(r)
    /\ UNCHANGED <<owner, parent, expired, held, history>>

\* The kill switch, on behalf of a site admin.
Suspend(r, u) ==
    /\ call[r].pc = "idle"
    /\ suspended' = suspended \cup {u}
    /\ call' = [call EXCEPT ![r] =
                  [NoCall EXCEPT !.pc = "close", !.op = "suspend", !.target = u]]
    /\ UNCHANGED <<owner, parent, revoked, expired, deleted, held, history>>

Unsuspend(u) ==
    /\ u \in suspended
    /\ suspended' = suspended \ {u}
    /\ call' = [r \in Calls |->
                  IF call[r].cred # None /\ UserOf(call[r].cred) = u
                  THEN [call[r] EXCEPT !.blocked = FALSE]
                  ELSE call[r]]
    /\ UNCHANGED <<owner, parent, revoked, expired, deleted, held, history>>

-----------------------------------------------------------------------------
(* Sockets.                                                                  *)
\* The group and membership lookups between the token and the registration
\* may refuse the upgrade.
RegisterSocket(r) ==
    /\ At(r, "run", {"upgrade"})
    /\ Goto(r, "open")
    /\ UNCHANGED <<tables, history>>

\* Mutant: a logout closes the sockets opened with the session's own token only.
InClosePass_ChildrenForgotten(r, q) ==
    LET c == call[q].cred IN
    /\ call[q].pc = "open"
    /\ CASE call[r].op = "logout"  -> c = call[r].cred
         [] call[r].op = "revoke"  -> c = call[r].target
         [] call[r].op = "delete"  -> UserOf(c) = UserOf(call[r].cred)
         [] call[r].op = "suspend" -> /\ UserOf(c) = call[r].target
                                      /\ SessionOf(c) \notin revoked

\* The live sockets the handler in slot r closes: closeSocketsForSession on one
\* session or on the user's sessions, or closeSocketsForBridgeToken.
InClosePass(r, q) ==
    LET c == call[q].cred IN
    /\ call[q].pc = "open"
    /\ CASE call[r].op = "logout"  -> SessionOf(c) = SessionOf(call[r].cred)
         [] call[r].op = "revoke"  -> c = call[r].target
         [] call[r].op = "delete"  -> UserOf(c) = UserOf(call[r].cred)
         [] call[r].op = "suspend" -> /\ UserOf(c) = call[r].target
                                      /\ SessionOf(c) \notin revoked

CloseSockets(r) ==
    /\ call[r].pc = "close"
    /\ call' = [q \in Calls |->
                  IF q = r THEN NoCall
                  ELSE IF InClosePass(r, q) THEN [call[q] EXCEPT !.pc = "closing"]
                  ELSE call[q]]
    /\ severed' = IF call[r].op = "logout" THEN severed \cup {call[r].cred} ELSE severed
    /\ UNCHANGED <<tables, setupMinted, chosen, raced>>

\* The peer goes away, answers the close frame, or is terminated after it.
SocketGone(r) ==
    /\ call[r].pc \in {"open", "closing"}
    /\ Finish(r)
    /\ UNCHANGED <<tables, history>>

-----------------------------------------------------------------------------
(* A query fails (the transaction rolls back, the answer is a 500) or an     *)
(* upgrade is refused.  After a logout or a token revocation nothing is      *)
(* awaited before the sockets are closed; the other two read sessions first. *)
Fail(r) ==
    /\ \/ call[r].pc \in {"lookup", "user", "run", "minting", "commit"}
       \/ At(r, "close", {"delete", "suspend"})
    /\ Finish(r)
    /\ UNCHANGED <<tables, history>>

Crash ==
    /\ call' = [r \in Calls |-> NoCall]
    /\ UNCHANGED <<tables, history>>

Expire(s) ==
    /\ owner[s] # None
    /\ expired' = expired \cup {s}
    /\ UNCHANGED <<owner, parent, revoked, suspended, deleted, held, call, history>>

HandlerStep(r) ==
    \/ \E s \in Sessions : LoginSession(r, s) \/ SetupSession(r, s)
    \/ \E b \in Bridges : Mint(r, b) \/ SetupBridge(r, b)
    \/ Lookup(r) \/ LookupUser(r)
    \/ RevokeToken(r) \/ RevokeRows(r) \/ CommitRevoke(r)
    \/ RegisterSocket(r) \/ CloseSockets(r)

Next ==
    \/ \E r \in Calls :
         \/ \E u \in Users : LoginStart(r, u) \/ Suspend(r, u)
         \/ Request(r)
         \/ HandlerStep(r)
         \/ SocketGone(r)
         \/ Fail(r)
    \/ \E u \in Users : Unsuspend(u)
    \/ \E s \in Sessions : Expire(s)
    \/ Crash

Spec == Init /\ [][Next]_vars

\* Node's event loop runs a continuation whose query has answered.
FairSpec == Spec /\ \A r \in Calls : WF_vars(CloseSockets(r))

-----------------------------------------------------------------------------
(* Properties.                                                               *)
\* The tables and the call slots hold what the code can put in them.
TypeOK ==
    /\ owner \in [Sessions -> Users \cup {None}]
    /\ parent \in [Bridges -> Sessions \cup {None}]
    /\ revoked \subseteq Creds
    /\ expired \subseteq Sessions
    /\ suspended \subseteq Users
    /\ deleted \subseteq Users
    /\ held \subseteq Sessions
    /\ call \in [Calls -> CallRecord]
    /\ setupMinted \subseteq Bridges
    /\ chosen \subseteq Bridges
    /\ raced \subseteq Bridges
    /\ severed \subseteq Sessions

\* A call that arrives with a credential already dead is never let in, even a
\* bridge token whose own row still looks live because it was minted while its
\* session was being revoked (src/auth.js:104-106); nor is a call whose user
\* has been suspended ever since it arrived (src/auth.js:89-91).
NoDeadGrant ==
    \A r \in Calls :
        call[r].pc \in Granted => ~call[r].bornDead /\ ~call[r].blocked

\* "Browser logouts never disconnect agents" (src/server.js:556-558): a token
\* that one-click setup minted dies with the account, or because its owner
\* revoked that very token, and for no other reason but time.
SetupAgentsKept ==
    \A b \in setupMinted :
        RowDead(b) => UserOf(b) \in deleted \/ b \in chosen

\* A revoked session leaves no live-looking bridge row behind
\* (src/auth.js:162-165), whatever crashes or rolls back, but for the tokens
\* that a mint inserted while the revocation was under way.
NoLiveChildLeftBehind ==
    \A b \in Bridges :
        parent[b] \in revoked /\ b \notin revoked => b \in raced

\* Nobody revokes another user's credentials, and a logout reaches nothing
\* outside its own session (src/auth.js:151-160, 168-192).
RevocationScope ==
    [][\A c \in revoked' \ revoked :
         \E r \in Calls :
            /\ call[r].op \in {"revoke", "logout", "delete"}
            /\ call[r].pc \in {"run", "commit"}
            /\ UserOf(c) = UserOf(call[r].cred)
            /\ call[r].op = "logout" => SessionOf(c) = call[r].cred]_vars

\* Once a logout or a token revocation is committed, every socket then open
\* with that session, its children or that token stops being open: "log out
\* genuinely severs the agent" (src/server.js:517-519, 549).  A handler whose
\* COMMIT lost its answer throws and closes nothing (Revoked).
OpenSocketsSevered ==
    \A r, q \in Calls :
        (/\ At(r, "close", {"logout", "revoke"})
         /\ call[q].pc = "open"
         /\ \/ /\ call[r].op = "logout"
               /\ call[r].cred \in {call[q].cred, SessionOf(call[q].cred)}
            \/ call[r].op = "revoke" /\ call[q].cred = call[r].target)
        ~> call[q].pc # "open"

\* After the logout handler has answered, no socket of the session is open
\* (src/server.js:517-518).  An upgrade that resolved its token before the
\* revocation and registers its socket after the close pass breaks this.
LogoutSevers ==
    \A r \in Calls :
        call[r].pc = "open" => SessionOf(call[r].cred) \notin severed

-----------------------------------------------------------------------------
(* Credentials implements CredentialAuthority.                               *)
StatusOf(c) == IF ~Issued(c) THEN "none" ELSE IF Dead(c) THEN "dead" ELSE "live"
HolderOf(c) == IF Issued(c) THEN UserOf(c) ELSE None

\* Calls without a credential (logins, suspensions) are not the authority's.
AskOf(r) ==
    [state  |-> IF call[r].cred = None THEN "idle"
                ELSE IF call[r].pc \in Granted THEN "granted" ELSE "asking",
     cred   |-> call[r].cred,
     fresh  |-> call[r].cred # None /\ ~call[r].bornDead,
     active |-> call[r].cred # None /\ ~call[r].blocked]

Authority == INSTANCE CredentialAuthority WITH
    status  <- [c \in Creds |-> StatusOf(c)],
    holder  <- [c \in Creds |-> HolderOf(c)],
    blocked <- suspended,
    ask     <- [r \in Calls |-> AskOf(r)]

\* The handlers, tables and transactions keep the authority's promise.
ImplementsAuthority == Authority!Spec
=============================================================================
