---------------------------- MODULE OAuthGrants ----------------------------
(***************************************************************************)
(* The token endpoint of the OAuth server for MCP agents                   *)
(* (src/mcp-oauth.js): an approval's code is redeemed for an access token  *)
(* (a bridge token) and a refresh token; each refresh replaces the bridge  *)
(* token.  A grant is a row of oauth_refresh_tokens.                       *)
(*                                                                         *)
(* One user, one client and one project are modelled: handlers of others   *)
(* touch other rows.  The grant session under each access token is never   *)
(* handed out and dies with the account only, so it has no variable; how   *)
(* bridge tokens and sessions live and die is module Credentials.          *)
(***************************************************************************)
EXTENDS Naturals, FiniteSets

CONSTANTS
    Codes,      \* ids of oauth_codes
    Grants,     \* ids of oauth_refresh_tokens
    Bridges,    \* ids of bridge_tokens
    Modes,      \* the modes a permission row may hold
    Calls,      \* handlers in flight at one time
    Default,    \* no permission row: the default mode applies
    None

ASSUME DistinctAssumption ==
    /\ None \notin Codes \cup Grants \cup Bridges
    /\ Default \notin Modes

VARIABLES
    code,       \* code[c]: "none" before the approval, then "issued", then "used"
    stale,      \* codes older than CODE_TTL_MS
    suspended,  \* users.suspended_at of the one user
    token,      \* token[b]: "none", then "live", then "revoked"
    mode,       \* agent_permissions of the one project, by bridge token
    grant,      \* grant[g]: "none", then "live", then "revoked"
    linked,     \* oauth_refresh_tokens.bridge_token_id
    call,       \* call[r]: the handler in slot r
    \* History.
    redeemed,   \* redeemed[c]: the grants that code c was redeemed for
    line,       \* line[b]: the grant that bridge token b was minted for
    sealed      \* see RevokeAgent

tables  == <<code, stale, suspended, token, mode, grant, linked>>
history == <<redeemed, line, sealed>>
vars    == <<tables, call, history>>

PCs == {"idle", "code", "mark", "codeUser", "refresh", "refreshUser", "bridge",
        "kill", "rotate", "session", "mint", "copy", "link", "answer", "put"}

\* touched: history, a permission was set since this refresh arrived.
CallRecord ==
    [pc : PCs, code : Codes \cup {None}, grant : Grants \cup {None},
     old : Bridges \cup {None}, new : Bridges \cup {None},
     mode : Modes \cup {Default}, touched : BOOLEAN]

NoCall == [pc |-> "idle", code |-> None, grant |-> None, old |-> None,
           new |-> None, mode |-> Default, touched |-> FALSE]

At(r, l)   == call[r].pc = l
Goto(r, l) == call' = [call EXCEPT ![r].pc = l]
Finish(r)  == call' = [call EXCEPT ![r] = NoCall]
Refreshing(r) == call[r].grant # None

Init ==
    /\ code = [c \in Codes |-> "none"]
    /\ stale = {} /\ suspended = FALSE
    /\ token = [b \in Bridges |-> "none"]
    /\ mode = [b \in Bridges |-> Default]
    /\ grant = [g \in Grants |-> "none"]
    /\ linked = [g \in Grants |-> None]
    /\ call = [r \in Calls |-> NoCall]
    /\ redeemed = [c \in Codes |-> {}]
    /\ line = [b \in Bridges |-> None]
    /\ sealed = {}

-----------------------------------------------------------------------------
(* The browser.                                                              *)
Approve(c) ==
    /\ code[c] = "none"
    /\ code' = [code EXCEPT ![c] = "issued"]
    /\ UNCHANGED <<stale, suspended, token, mode, grant, linked, call, history>>

\* A grant is sealed when its user revokes the agent while no request of the
\* agent is being answered: nothing in flight has yet read the row as live.
RevokeAgent(b) ==
    /\ token[b] = "live"
    /\ token' = [token EXCEPT ![b] = "revoked"]
    /\ sealed' = sealed \cup {g \in Grants :
                    linked[g] = b /\ \A r \in Calls : call[r].grant # g}
    /\ UNCHANGED <<code, stale, suspended, mode, grant, linked, call, redeemed, line>>

\* The permissions panel: ownedBridgeToken, the project, the membership, then
\* the upsert.
SetMode(r, b, m) ==
    /\ At(r, "idle")
    /\ token[b] = "live"
    /\ call' = [call EXCEPT ![r] = [NoCall EXCEPT !.pc = "put", !.old = b, !.mode = m]]
    /\ UNCHANGED <<tables, history>>

PutMode(r) ==
    /\ At(r, "put")
    /\ mode' = [mode EXCEPT ![call[r].old] = call[r].mode]
    /\ call' = [q \in Calls |-> IF q = r THEN NoCall
                                ELSE [call[q] EXCEPT !.touched = Refreshing(q)]]
    /\ UNCHANGED <<code, stale, suspended, token, grant, linked, history>>

-----------------------------------------------------------------------------
(* grant_type=authorization_code.                                            *)
Redeem(r, c) ==
    /\ At(r, "idle")
    /\ code[c] # "none"
    /\ call' = [call EXCEPT ![r] = [NoCall EXCEPT !.pc = "code", !.code = c]]
    /\ UNCHANGED <<tables, history>>

ReadCode(r) ==
    /\ At(r, "code")
    /\ IF code[call[r].code] = "used" \/ call[r].code \in stale
       THEN Finish(r) ELSE Goto(r, "mark")
    /\ UNCHANGED <<tables, history>>

\* The UPDATE does not ask whether the code is still unused.
MarkCode(r) ==
    /\ At(r, "mark")
    /\ code' = [code EXCEPT ![call[r].code] = "used"]
    /\ Goto(r, "codeUser")
    /\ UNCHANGED <<stale, suspended, token, mode, grant, linked, history>>

CodeUser(r) ==
    /\ At(r, "codeUser")
    /\ IF suspended THEN Finish(r) ELSE Goto(r, "session")
    /\ UNCHANGED <<tables, history>>

-----------------------------------------------------------------------------
(* grant_type=refresh_token.                                                 *)
Refresh(r, g) ==
    /\ At(r, "idle")
    /\ grant[g] # "none"
    /\ call' = [call EXCEPT ![r] = [NoCall EXCEPT !.pc = "refresh", !.grant = g]]
    /\ UNCHANGED <<tables, history>>

ReadRefresh(r) ==
    LET g == call[r].grant IN
    /\ At(r, "refresh")
    /\ IF grant[g] = "revoked" THEN Finish(r)
       ELSE call' = [call EXCEPT ![r].pc = "refreshUser", ![r].old = linked[g]]
    /\ UNCHANGED <<tables, history>>

RefreshUser(r) ==
    /\ At(r, "refreshUser")
    /\ IF suspended THEN Finish(r) ELSE Goto(r, "bridge")
    /\ UNCHANGED <<tables, history>>

\* Mutant: the panel's revocation is not looked at.
ReadBridge_RevocationIgnored(r) ==
    /\ At(r, "bridge")
    /\ Goto(r, "rotate")
    /\ UNCHANGED <<tables, history>>

ReadBridge(r) ==
    /\ At(r, "bridge")
    /\ Goto(r, IF token[call[r].old] = "revoked" THEN "kill" ELSE "rotate")
    /\ UNCHANGED <<tables, history>>

KillGrant(r) ==
    /\ At(r, "kill")
    /\ grant' = [grant EXCEPT ![call[r].grant] = "revoked"]
    /\ Finish(r)
    /\ UNCHANGED <<code, stale, suspended, token, mode, linked, history>>

Rotate(r) ==
    /\ At(r, "rotate")
    /\ token' = [token EXCEPT ![call[r].old] = "revoked"]
    /\ Goto(r, "session")
    /\ UNCHANGED <<code, stale, suspended, mode, grant, linked, history>>

-----------------------------------------------------------------------------
(* issueAccessToken.                                                         *)
MintSession(r) ==
    /\ At(r, "session")
    /\ Goto(r, "mint")
    /\ UNCHANGED <<tables, history>>

MintBridge(r, b) ==
    /\ At(r, "mint")
    /\ token[b] = "none"
    /\ token' = [token EXCEPT ![b] = "live"]
    /\ line' = [line EXCEPT ![b] = call[r].grant]
    /\ call' = [call EXCEPT ![r].pc = IF Refreshing(r) THEN "copy" ELSE "link",
                            ![r].new = b]
    /\ UNCHANGED <<code, stale, suspended, mode, grant, linked, redeemed, sealed>>

\* Mutant: the new token starts from the defaults.
CopyModes_None(r) ==
    /\ At(r, "copy")
    /\ Goto(r, "link")
    /\ UNCHANGED <<tables, history>>

\* INSERT ... SELECT ... ON CONFLICT DO NOTHING.
CopyModes(r) ==
    LET old == call[r].old  new == call[r].new IN
    /\ At(r, "copy")
    /\ mode' = [mode EXCEPT ![new] = IF @ = Default THEN mode[old] ELSE @]
    /\ Goto(r, "link")
    /\ UNCHANGED <<code, stale, suspended, token, grant, linked, history>>

LinkRefresh(r) ==
    /\ At(r, "link")
    /\ Refreshing(r)
    /\ linked' = [linked EXCEPT ![call[r].grant] = call[r].new]
    /\ Goto(r, "answer")
    /\ UNCHANGED <<code, stale, suspended, token, mode, grant, history>>

\* Mutant: the row is inserted without its bridge_token_id.
LinkNew_NoBridge(r, g) ==
    /\ At(r, "link")
    /\ ~Refreshing(r)
    /\ grant[g] = "none"
    /\ grant' = [grant EXCEPT ![g] = "live"]
    /\ linked' = linked
    /\ redeemed' = [redeemed EXCEPT ![call[r].code] = @ \cup {g}]
    /\ line' = [line EXCEPT ![call[r].new] = g]
    /\ Goto(r, "answer")
    /\ UNCHANGED <<code, stale, suspended, token, mode, sealed>>

LinkNew(r, g) ==
    /\ At(r, "link")
    /\ ~Refreshing(r)
    /\ grant[g] = "none"
    /\ grant' = [grant EXCEPT ![g] = "live"]
    /\ linked' = [linked EXCEPT ![g] = call[r].new]
    /\ redeemed' = [redeemed EXCEPT ![call[r].code] = @ \cup {g}]
    /\ line' = [line EXCEPT ![call[r].new] = g]
    /\ Goto(r, "answer")
    /\ UNCHANGED <<code, stale, suspended, token, mode, sealed>>

Answer(r) ==
    /\ At(r, "answer")
    /\ Finish(r)
    /\ UNCHANGED <<tables, history>>

-----------------------------------------------------------------------------
Fail(r) ==
    /\ ~At(r, "idle")
    /\ Finish(r)
    /\ UNCHANGED <<tables, history>>

Crash ==
    /\ call' = [r \in Calls |-> NoCall]
    /\ UNCHANGED <<tables, history>>

CodeExpires(c) ==
    /\ code[c] # "none"
    /\ stale' = stale \cup {c}
    /\ UNCHANGED <<code, suspended, token, mode, grant, linked, call, history>>

\* Suspension and its end.
ToggleSuspension ==
    /\ suspended' = ~suspended
    /\ UNCHANGED <<code, stale, token, mode, grant, linked, call, history>>

HandlerStep(r) ==
    \/ PutMode(r)
    \/ ReadCode(r) \/ MarkCode(r) \/ CodeUser(r)
    \/ ReadRefresh(r) \/ RefreshUser(r) \/ ReadBridge(r) \/ KillGrant(r) \/ Rotate(r)
    \/ MintSession(r) \/ CopyModes(r) \/ LinkRefresh(r) \/ Answer(r)
    \/ \E b \in Bridges : MintBridge(r, b)
    \/ \E g \in Grants : LinkNew(r, g)

Next ==
    \/ \E c \in Codes : Approve(c) \/ CodeExpires(c)
    \/ \E b \in Bridges : RevokeAgent(b)
    \/ \E r \in Calls :
         \/ \E b \in Bridges, m \in Modes : SetMode(r, b, m)
         \/ \E c \in Codes : Redeem(r, c)
         \/ \E g \in Grants : Refresh(r, g)
         \/ HandlerStep(r)
         \/ Fail(r)
    \/ Crash \/ ToggleSuspension

Spec == Init /\ [][Next]_vars

-----------------------------------------------------------------------------
(* Properties.                                                               *)
\* The rows and slots hold what the code can put in them, and a grant always
\* names a bridge token, so ReadBridge never finds bridge_token_id null.
TypeOK ==
    /\ code \in [Codes -> {"none", "issued", "used"}]
    /\ stale \subseteq Codes
    /\ suspended \in BOOLEAN
    /\ token \in [Bridges -> {"none", "live", "revoked"}]
    /\ mode \in [Bridges -> Modes \cup {Default}]
    /\ grant \in [Grants -> {"none", "live", "revoked"}]
    /\ linked \in [Grants -> Bridges \cup {None}]
    /\ \A g \in Grants : grant[g] # "none" => linked[g] # None
    /\ call \in [Calls -> CallRecord]
    /\ redeemed \in [Codes -> SUBSET Grants]
    /\ line \in [Bridges -> Grants \cup {None}]
    /\ sealed \subseteq Grants

\* "If the user revoked the agent in the account panel, the grant is dead"
\* (src/mcp-oauth.js:261): when no refresh of it was in flight at that moment,
\* no token is ever again minted for it, whatever was half done before.
SealedStaysDead ==
    [][\A b \in Bridges :
         token[b] = "none" /\ token'[b] = "live" => line'[b] \notin sealed]_vars

\* "The operator's per-project permission dials must ride along"
\* (src/mcp-oauth.js:290-292): a refresh during which nobody set a permission
\* leaves the agent's mode as it was.
DialsRideAlong ==
    \A r \in Calls :
        At(r, "answer") /\ Refreshing(r) /\ ~call[r].touched =>
            mode[call[r].new] = mode[call[r].old]

\* "Codes are single-use" (src/mcp-oauth.js:16).
CodesSingleUse ==
    \A c \in Codes : Cardinality(redeemed[c]) <= 1
=============================================================================
