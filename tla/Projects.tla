------------------------------ MODULE Projects ------------------------------
(***************************************************************************)
(* One project ("group" in the schema): who belongs to it, whether it is   *)
(* frozen or deleted, and the handlers that read that, await, and act on   *)
(* what they read (src/server.js, groups and messages routes).             *)
(*                                                                         *)
(* Every handler reads the group row, then the caller's membership, then   *)
(* perhaps counts, and only then writes; each read is a step of its own.   *)
(* Projects do not share state, so one is modelled.  Site moderators'      *)
(* handlers are single conditional UPDATEs, hence single actions.          *)
(***************************************************************************)
EXTENDS Naturals, FiniteSets

CONSTANTS
    Users,
    Calls,      \* handlers in flight at one time
    Handlers,   \* the operations that calls ask for
    None

VARIABLES
    creator,    \* groups.created_by, None until the project is created
    private,    \* groups.visibility = 'private'
    role,       \* memberships.role, "none" without a row
    frozen,     \* groups.frozen_by, "no" while frozen_at is NULL
    trashed,    \* groups.deleted_at is set
    gone,       \* users who deleted their account
    listening,  \* users with a live socket on the project
    call,       \* call[r]: the handler in slot r and what it has read
    seen        \* history: see Monitor

tables == <<creator, private, role, frozen, trashed, gone>>
vars   == <<tables, listening, call, seen>>

Roles  == {"none", "member", "admin"}
Frozen == {"no", "group_admin", "moderation"}
MemberOps == {"post", "join", "leave", "listen"}
AdminOps  == {"checkpoint", "kick", "freeze", "unfreeze", "trash"}
Ops == MemberOps \cup AdminOps \cup {"quit"}

ASSUME HandlersAssumption == Handlers \subseteq Ops /\ None \notin Users /\ IsFiniteSet(Users)

PCs == {"idle", "group", "membership", "admins", "others", "target", "act"}

Members == {u \in Users : role[u] # "none"}
Admins  == {u \in Users : role[u] = "admin"}

CallRecord == [pc : PCs, op : Ops \cup {"none"}, user : Users \cup {None},
               target : Users \cup {None}, frozen : Frozen, admins : Nat]

NoCall == [pc |-> "idle", op |-> "none", user |-> None, target |-> None,
           frozen |-> "no", admins |-> 0]

Finish(r)  == call' = [call EXCEPT ![r] = NoCall]
Goto(r, l) == call' = [call EXCEPT ![r].pc = l]
\* What was read is not looked at again.
Proceed(r) == call' = [call EXCEPT ![r].pc = "act", ![r].frozen = "no", ![r].admins = 0]
Acting(r, O) == call[r].pc = "act" /\ call[r].op \in O

Init ==
    /\ creator = None /\ private = FALSE
    /\ role = [u \in Users |-> "none"]
    /\ frozen = "no" /\ trashed = FALSE /\ gone = {}
    /\ listening = {}
    /\ call = [r \in Calls |-> NoCall]
    /\ seen = [r \in Calls |-> {}]

-----------------------------------------------------------------------------
\* createGroup is one transaction and slug is unique: one creation succeeds.  The
\* account may have been deleted since its request passed requireUser.
CreateGroup(u, p) ==
    /\ creator = None
    /\ creator' = u /\ private' = p
    /\ role' = [role EXCEPT ![u] = "admin"]
    /\ UNCHANGED <<frozen, trashed, gone, listening, call>>

\* A request that has passed requireUser; kicking oneself is refused outright.
Arrive(r, u, o, t) ==
    /\ call[r].pc = "idle"
    /\ u \notin gone
    /\ o = "kick" <=> t # None
    /\ t # u
    /\ call' = [call EXCEPT ![r] = [NoCall EXCEPT !.pc = "group", !.op = o,
                                                  !.user = u, !.target = t]]
    /\ UNCHANGED <<tables, listening>>

\* getGroupBySlug hides a deleted project; the socket handshake's getGroupById
\* does not.
ReadGroup(r) ==
    /\ call[r].pc = "group" /\ call[r].op # "quit"
    /\ IF creator = None \/ (trashed /\ call[r].op # "listen")
       THEN Finish(r)
       ELSE call' = [call EXCEPT ![r].pc = "membership", ![r].frozen = frozen]
    /\ UNCHANGED <<tables, listening>>

\* Mutant: posting does not look at the freeze.
MayProceed_FreezeIgnored(c, myRole) ==
    CASE c.op = "post"       -> myRole # "none"
      [] c.op = "checkpoint" -> myRole = "admin" /\ c.frozen = "no"
      [] c.op = "freeze"     -> myRole = "admin" /\ c.frozen = "no"
      [] c.op = "unfreeze"   -> myRole = "admin" /\ c.frozen = "group_admin"
      [] c.op \in {"kick", "trash"}  -> myRole = "admin"
      [] c.op \in {"join", "listen"} -> private => myRole # "none"
      [] c.op = "leave"      -> myRole # "none"

\* Mutant: anyone may join a private project.
MayProceed_PrivateIgnored(c, myRole) ==
    CASE c.op = "post"       -> myRole # "none" /\ c.frozen = "no"
      [] c.op = "checkpoint" -> myRole = "admin" /\ c.frozen = "no"
      [] c.op = "freeze"     -> myRole = "admin" /\ c.frozen = "no"
      [] c.op = "unfreeze"   -> myRole = "admin" /\ c.frozen = "group_admin"
      [] c.op \in {"kick", "trash"}  -> myRole = "admin"
      [] c.op = "join"       -> TRUE
      [] c.op = "listen"     -> private => myRole # "none"
      [] c.op = "leave"      -> myRole # "none"

\* The checks of requireMember, requireGroupAdmin and the handlers, on the
\* group row read earlier and the membership row just read.
MayProceed(c, myRole) ==
    CASE c.op = "post"       -> myRole # "none" /\ c.frozen = "no"
      [] c.op = "checkpoint" -> myRole = "admin" /\ c.frozen = "no"
      [] c.op = "freeze"     -> myRole = "admin" /\ c.frozen = "no"
      [] c.op = "unfreeze"   -> myRole = "admin" /\ c.frozen = "group_admin"
      [] c.op \in {"kick", "trash"}  -> myRole = "admin"
      [] c.op \in {"join", "listen"} -> private => myRole # "none"
      [] c.op = "leave"      -> myRole # "none"

ReadMembership(r) ==
    LET c == call[r]
        myRole == role[c.user]
    IN
    /\ c.pc = "membership"
    /\ IF ~MayProceed(c, myRole) THEN Finish(r)
       ELSE IF c.op = "leave" /\ myRole = "admin" THEN Goto(r, "admins")
       ELSE IF c.op = "kick" THEN Goto(r, "target")
       ELSE Proceed(r)
    /\ UNCHANGED <<tables, listening>>

\* Leaving as an admin: two COUNT queries, one after the other.
CountAdmins(r) ==
    /\ call[r].pc = "admins"
    /\ call' = [call EXCEPT ![r].pc = "others", ![r].admins = Cardinality(Admins)]
    /\ UNCHANGED <<tables, listening>>

\* Mutant: the leaver is counted twice.
CountOthers_OffByOne(r) ==
    /\ call[r].pc = "others"
    /\ IF call[r].admins = 1 /\ Cardinality(Members) > 2
       THEN Finish(r) ELSE Proceed(r)
    /\ UNCHANGED <<tables, listening>>

CountOthers(r) ==
    /\ call[r].pc = "others"
    /\ IF call[r].admins = 1 /\ Cardinality(Members) > 1
       THEN Finish(r) ELSE Proceed(r)
    /\ UNCHANGED <<tables, listening>>

ReadTarget(r) ==
    /\ call[r].pc = "target"
    /\ IF role[call[r].target] = "member" THEN Proceed(r) ELSE Finish(r)
    /\ UNCHANGED <<tables, listening>>

\* Deleting one's account is refused to the sole admin of a live project with
\* other members: one query, before the transaction.
Stuck(u) == ~trashed /\ Admins = {u} /\ Cardinality(Members) > 1

CheckStuck(r) ==
    /\ call[r].pc = "group" /\ call[r].op = "quit"
    /\ IF Stuck(call[r].user) THEN Finish(r) ELSE Proceed(r)
    /\ UNCHANGED <<tables, listening>>

-----------------------------------------------------------------------------
(* The writes.  None of them looks at the row again.                         *)
\* The message row itself is not part of this module.
Post(r) ==
    /\ Acting(r, {"post", "checkpoint"})
    /\ Finish(r)
    /\ UNCHANGED <<tables, listening>>

\* Mutant: the upsert overwrites the row that is there.
Join_Overwrites(r) ==
    LET u == call[r].user IN
    /\ Acting(r, {"join"})
    /\ role' = [role EXCEPT ![u] = "member"]
    /\ Finish(r)
    /\ UNCHANGED <<creator, private, frozen, trashed, gone, listening>>

\* INSERT ... ON CONFLICT DO NOTHING: an admin who joins again stays admin.
Join(r) ==
    LET u == call[r].user IN
    /\ Acting(r, {"join"})
    /\ role' = [role EXCEPT ![u] = IF @ = "none" THEN "member" ELSE @]
    /\ Finish(r)
    /\ UNCHANGED <<creator, private, frozen, trashed, gone, listening>>

\* Open sockets are not closed: whoever leaves or is kicked keeps listening.
Remove(r) ==
    LET u == IF call[r].op = "kick" THEN call[r].target ELSE call[r].user IN
    /\ Acting(r, {"leave", "kick"})
    /\ role' = [role EXCEPT ![u] = "none"]
    /\ Finish(r)
    /\ UNCHANGED <<creator, private, frozen, trashed, gone, listening>>

\* Mutant: a value the schema does not know.
Freeze_UnknownValue(r) ==
    /\ Acting(r, {"freeze"})
    /\ frozen' = "admin"
    /\ Finish(r)
    /\ UNCHANGED <<creator, private, role, trashed, gone, listening>>

Freeze(r) ==
    /\ Acting(r, {"freeze"})
    /\ frozen' = "group_admin"
    /\ Finish(r)
    /\ UNCHANGED <<creator, private, role, trashed, gone, listening>>

Unfreeze(r) ==
    /\ Acting(r, {"unfreeze"})
    /\ frozen' = "no"
    /\ Finish(r)
    /\ UNCHANGED <<creator, private, role, trashed, gone, listening>>

Trash(r) ==
    /\ Acting(r, {"trash"})
    /\ trashed' = TRUE
    /\ Finish(r)
    /\ UNCHANGED <<creator, private, role, frozen, gone, listening>>

\* The deletion of the account, which removes all its memberships and (in
\* module Credentials) closes its sockets.
Quit(r) ==
    LET u == call[r].user IN
    /\ Acting(r, {"quit"})
    /\ role' = [role EXCEPT ![u] = "none"]
    /\ gone' = gone \cup {u}
    /\ listening' = listening \ {u}
    /\ Finish(r)
    /\ UNCHANGED <<creator, private, frozen, trashed>>

Listen(r) ==
    /\ Acting(r, {"listen"})
    /\ listening' = listening \cup {call[r].user}
    /\ Finish(r)
    /\ UNCHANGED tables

-----------------------------------------------------------------------------
(* Site moderators.                                                          *)
ModFreeze ==
    /\ creator # None
    /\ frozen \in {"no", "group_admin"}
    /\ frozen' = "moderation"
    /\ UNCHANGED <<creator, private, role, trashed, gone, listening, call>>

ModUnfreeze ==
    /\ frozen # "no"
    /\ frozen' = "no"
    /\ UNCHANGED <<creator, private, role, trashed, gone, listening, call>>

Restore ==
    /\ trashed
    /\ trashed' = FALSE
    /\ UNCHANGED <<creator, private, role, frozen, gone, listening, call>>

-----------------------------------------------------------------------------
Disconnect(u) ==
    /\ u \in listening
    /\ listening' = listening \ {u}
    /\ UNCHANGED <<tables, call>>

\* A request refused for a reason outside this model, or a query that fails.
Fail(r) ==
    /\ call[r].pc # "idle"
    /\ Finish(r)
    /\ UNCHANGED <<tables, listening>>

Crash ==
    /\ call' = [r \in Calls |-> NoCall]
    /\ listening' = {}
    /\ UNCHANGED tables

HandlerStep(r) ==
    \/ ReadGroup(r) \/ ReadMembership(r) \/ CheckStuck(r)
    \/ CountAdmins(r) \/ CountOthers(r) \/ ReadTarget(r)
    \/ Post(r) \/ Join(r) \/ Remove(r) \/ Quit(r) \/ Listen(r)
    \/ Freeze(r) \/ Unfreeze(r) \/ Trash(r)

Step ==
    \/ \E u \in Users, p \in BOOLEAN : CreateGroup(u, p)
    \/ \E r \in Calls :
         \/ \E u \in Users, o \in Handlers, t \in Users \cup {None} :
              Arrive(r, u, o, t)
         \/ HandlerStep(r)
         \/ Fail(r)
    \/ ModFreeze \/ ModUnfreeze \/ Restore
    \/ \E u \in Users : Disconnect(u)
    \/ Crash

-----------------------------------------------------------------------------
(* History: seen[r] is which of the facts that justify call r have been true *)
(* at one moment or another since it arrived.                                *)
Facts == {"present", "unfrozen", "ownFreeze", "member", "admin", "alone"}

Needs(op) ==
    CASE op = "post"       -> {"present", "unfrozen", "member"}
      [] op = "checkpoint" -> {"present", "unfrozen", "admin"}
      [] op = "freeze"     -> {"present", "unfrozen", "admin"}
      [] op = "unfreeze"   -> {"present", "ownFreeze", "admin"}
      [] op \in {"kick", "trash"} -> {"present", "admin"}
      [] op = "leave"      -> {"member", "alone"}
      [] OTHER -> {}

Holds(f, u) ==
    CASE f = "present"   -> creator # None /\ ~trashed
      [] f = "unfrozen"  -> frozen = "no"
      [] f = "ownFreeze" -> frozen = "group_admin"
      [] f = "member"    -> role[u] # "none"
      [] f = "admin"     -> role[u] = "admin"
      [] f = "alone"     -> Members \subseteq {u}

TrueFor == [u \in Users |-> {f \in Facts : Holds(f, u)}]

Monitor ==
    seen' = [r \in Calls |->
               IF call'[r].pc = "idle" THEN {}
               ELSE (IF call[r].pc = "idle" THEN {} ELSE seen[r])
                      \cup (Needs(call'[r].op) \cap TrueFor'[call'[r].user])]

Next == Step /\ Monitor

Spec == Init /\ [][Next]_vars

-----------------------------------------------------------------------------
(* Properties.                                                               *)
\* The rows and slots hold what the schema and the handlers allow.
TypeOK ==
    /\ creator \in Users \cup {None}
    /\ private \in BOOLEAN
    /\ role \in [Users -> Roles]
    /\ frozen \in Frozen
    /\ trashed \in BOOLEAN
    /\ gone \subseteq Users
    /\ listening \subseteq Users
    /\ call \in [Calls -> CallRecord]
    /\ seen \in [Calls -> SUBSET Facts]

\* What a handler acts on may be stale but was true while it ran: a post that
\* lands in a frozen project arrived before the freeze, an admin's act in a
\* project that lost its admin, or under a moderation freeze, arrived before
\* that (src/server.js:959-1021, 1174-1178).
ActsOnceJustified ==
    \A r \in Calls : Acting(r, AdminOps \cup {"post"}) => Needs(call[r].op) \subseteq seen[r]

\* An admin whose leave goes through was, at some moment since asking, the
\* only member left (there is never a second admin): src/server.js:932-953.
LastAdminLeavesAlone ==
    \A r \in Calls :
        Acting(r, {"leave"}) /\ role[call[r].user] = "admin" => "alone" \in seen[r]

\* No kick, join, freeze or leave of someone else's, in any order, costs an
\* admin the role: src/server.js:971-982, src/db.js:423-430.
AdminsOnlyRemoveThemselves ==
    [][\A u \in Users :
         role[u] = "admin" /\ role'[u] # "admin" =>
            \E r \in Calls : Acting(r, {"leave", "quit"}) /\ call[r].user = u]_vars

\* No order of joins, leaves and kicks makes a second person a member or a
\* listener of a private project: no handler invites (src/server.js:923-930,
\* 1318-1322).
PrivateStaysClosed ==
    private => Members \cup listening \subseteq {creator}

\* "A project admin cannot undo a moderation freeze" (src/db.js:216-217); "only
\* moderation can lift it afterwards" (src/server.js:791-793).
ModerationFreezeStands ==
    [][frozen = "moderation" => frozen' = "moderation" \/ ModUnfreeze]_vars
=============================================================================
