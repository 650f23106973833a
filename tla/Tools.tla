------------------------------- MODULE Tools -------------------------------
(***************************************************************************)
(* The tools of an agent (src/mcp.js): list_my_projects, read_messages,    *)
(* post_message, post_checkpoint.  A call finds out in queries of its own  *)
(* what the project is, whether the operator belongs to it and what the    *)
(* operator allows the agent there, and acts on what it found.  Meanwhile  *)
(* the operator joins, leaves and turns the dial, and others freeze and    *)
(* remove the project.  The credential was resolved before, see module     *)
(* Credentials; what others may do to a membership is in module Projects.  *)
(***************************************************************************)
EXTENDS Board

CONSTANTS
    ToolCalls,      \* bound: calls at once
    Closed,         \* the private projects
    PostLimit,      \* posts per minute: 10
    ToolMessages,   \* bound: messages posted
    MaxTurns        \* bound: changes by the operator and by others

ASSUME ToolsAssumption ==
    /\ "agent" \in Authors /\ Closed \subseteq Projects
    /\ PostLimit \in Nat /\ MaxTurns \in Nat

VARIABLES
    role,       \* role[g]: the operator's: None, "member", "admin"
    dial,       \* dial[g]: the mode of the row in agent_permissions, or None
    open,       \* open[g]: open, frozen or deleted
    turning,    \* the changes of a dial that have passed their checks
    posts,      \* Len(postTimes), of the last minute
    call,       \* call[c]: a request at POST /mcp
    turns       \* what remains of MaxTurns

toolsVars == <<role, dial, open, turning, posts, call, turns>>

Modes   == {"participate", "watch", "none"}
Options == {"open", "frozen", "deleted"}
Kinds   == {"message", "checkpoint", "read", "list"}

(* What a call needs to have been so of its project: it is there; it is not  *)
(* frozen; the operator may see it, belongs to it, is its admin; the agent   *)
(* may look, may take part.                                                  *)
Facts == {"there", "thawed", "seen", "joined", "admin", "watch", "participate"}

(* at: the next query, or the act itself.  group, role: what was read.       *)
(* had: history: the facts that have held since the call began.              *)
Calls == [at : {"none", "group", "membership", "mode", "act"}, kind : Kinds,
          group : Projects \cup {None}, state : Options,
          role : {None, "member", "admin"}, had : SUBSET Facts]

\* defaultAgentMode
DefaultMode(g) == IF g \in Closed THEN "participate" ELSE "none"

\* effectiveAgentMode
Mode(g) == IF dial[g] = None THEN DefaultMode(g) ELSE dial[g]

\* What the operator and the others have decided about g.
Lets(g, mode) == dial[g] = mode \/ (dial[g] = None /\ mode = "participate" /\ g \in Closed)
Holds(g) ==
    {f \in Facts :
        CASE f = "there"       -> open[g] # "deleted"
          [] f = "thawed"      -> open[g] = "open"
          [] f = "seen"        -> g \notin Closed \/ role[g] # None
          [] f = "joined"      -> role[g] # None
          [] f = "admin"       -> role[g] = "admin"
          [] f = "watch"       -> Lets(g, "watch") \/ Lets(g, "participate")
          [] f = "participate" -> Lets(g, "participate")}
Needs(kind) ==
    CASE kind = "read"       -> {"there", "seen", "watch"}
      [] kind = "list"       -> {"there", "joined", "watch"}
      [] kind = "message"    -> {"there", "thawed", "joined", "participate"}
      [] kind = "checkpoint" -> {"there", "thawed", "joined", "admin", "participate"}

NoCall == [at |-> "none", kind |-> "read", group |-> None,
           state |-> "open", role |-> None, had |-> {}]

ToolsInit ==
    /\ role = [g \in Projects |-> None]
    /\ dial = [g \in Projects |-> None]
    /\ open = [g \in Projects |-> "open"]
    /\ turning = {} /\ posts = 0
    /\ call = [c \in ToolCalls |-> NoCall]
    /\ turns = MaxTurns

Hold     == [g \in Projects |-> Holds(g)]
CallOver(c) == call' = [call EXCEPT ![c] = NoCall]

\* Something turns: the calls under way have seen the facts of now as well.
Turn ==
    /\ turns > 0 /\ turns' = turns - 1
    /\ call' = [c \in ToolCalls |-> IF call[c].at = "none" THEN NoCall
                  ELSE [call[c] EXCEPT !.had = @ \cup Hold'[call[c].group]]]
    /\ UNCHANGED <<messages, posts>>

-----------------------------------------------------------------------------
(* Around the calls.                                                         *)

\* Creating, joining, leaving, being removed: see module Projects.
Membership(g, r) ==
    /\ role[g] # r
    /\ role' = [role EXCEPT ![g] = r]
    /\ UNCHANGED <<dial, open, turning>>
    /\ Turn

\* Frozen, thawed, deleted, restored.
Standing(g, o) ==
    /\ open[g] # o
    /\ open' = [open EXCEPT ![g] = o]
    /\ UNCHANGED <<role, dial, turning>>
    /\ Turn

(* PUT my-agents/:tokenId, PUT permissions/:slug.  The operator is a member  *)
(* when that is checked, not when the row is written.                        *)
AskDial(g, mode) ==
    /\ role[g] # None /\ open[g] # "deleted"
    /\ turning' = turning \cup {[group |-> g, mode |-> mode]}
    /\ UNCHANGED <<role, dial, open>>
    /\ Turn

SetDial(t) ==
    /\ turning' = turning \ {t}
    /\ dial' = [dial EXCEPT ![t.group] = t.mode]
    /\ UNCHANGED <<role, open>>
    /\ Turn

MinutePasses ==
    /\ posts > 0
    /\ posts' = posts - 1
    /\ UNCHANGED <<messages, role, dial, open, turning, call, turns>>

-----------------------------------------------------------------------------
(* A call.                                                                   *)
StartCall(c, kind, g) ==
    /\ call[c].at = "none"
    /\ call' = [call EXCEPT ![c] = [NoCall EXCEPT !.at = "group", !.kind = kind,
                                                  !.group = g, !.had = Holds(g)]]
    /\ UNCHANGED <<messages, role, dial, open, turning, posts, turns>>

(* listGroupsForUser, which has the roles too; the permissions come next.    *)
(* The list is followed for one project on it.                               *)
ListMyProjects(c) ==
    LET g == call[c].group IN
    /\ call[c].at = "group" /\ call[c].kind = "list"
    /\ IF open[g] = "deleted" \/ role[g] = None THEN CallOver(c)
       ELSE call' = [call EXCEPT ![c].at = "mode", ![c].state = open[g], ![c].role = role[g]]
    /\ UNCHANGED <<messages, role, dial, open, turning, posts, turns>>

\* getGroupBySlug
ReadProject(c) ==
    LET g == call[c].group IN
    /\ call[c].at = "group" /\ call[c].kind # "list"
    /\ IF open[g] = "deleted" THEN CallOver(c)
       ELSE call' = [call EXCEPT ![c].at = "membership", ![c].state = open[g]]
    /\ UNCHANGED <<messages, role, dial, open, turning, posts, turns>>

ReadMembership(c) ==
    LET g == call[c].group IN
    /\ call[c].at = "membership"
    /\ IF role[g] = None /\ g \in Closed THEN CallOver(c)
       ELSE call' = [call EXCEPT ![c].at = "mode", ![c].role = role[g]]
    /\ UNCHANGED <<messages, role, dial, open, turning, posts, turns>>

Posts(c) == call[c].kind \in {"message", "checkpoint"}

\* Mutant: a checkpoint is looked at for its author's role only.
May_AdminSuffices(c, mode) ==
    /\ mode # "none"
    /\ call[c].kind = "message" => call[c].role # None /\ mode = "participate"
                                   /\ call[c].state = "open"
    /\ call[c].kind = "checkpoint" => call[c].role = "admin"

\* memberProject's last check, requireParticipate, frozen_at.
May(c, mode) ==
    /\ mode # "none"
    /\ Posts(c) => /\ call[c].role # None /\ mode = "participate"
                   /\ call[c].state = "open"
    /\ call[c].kind = "checkpoint" => call[c].role = "admin"

\* Mutant: one post more fits in the window.
AllowPost_OneMore == posts <= PostLimit

AllowPost == posts < PostLimit

\* allowPost counts before the text is looked at.
ReadMode(c) ==
    LET may == May(c, Mode(call[c].group)) IN
    /\ call[c].at = "mode"
    /\ posts' = IF Posts(c) /\ may /\ AllowPost THEN posts + 1 ELSE posts
    /\ \/ may /\ (Posts(c) => AllowPost)
          /\ call' = [call EXCEPT ![c].at = "act"]
       \/ (may => Posts(c))
          /\ CallOver(c)
    /\ UNCHANGED <<messages, role, dial, open, turning, turns>>

\* addMessage draws the id.
Act(c) ==
    /\ call[c].at = "act" /\ Posts(c)
    /\ Len(messages) < ToolMessages
    /\ Insert(call[c].group, "agent", FALSE)
    /\ CallOver(c)
    /\ UNCHANGED <<role, dial, open, turning, posts, turns>>

\* The messages, or the line about the project, are the answer.
ReadMessages(c) ==
    /\ call[c].at = "act" /\ ~Posts(c)
    /\ CallOver(c)
    /\ UNCHANGED <<messages, role, dial, open, turning, posts, turns>>

\* addMessage commits and notifyBroadcast tells the sockets, or the query fails.
ActEnds(i) == (Commit(i) \/ Rollback(i) \/ Tell(i)) /\ UNCHANGED toolsVars

\* A query fails, before anything was written.
CallFails(c) ==
    /\ call[c].at # "none"
    /\ CallOver(c)
    /\ UNCHANGED <<messages, role, dial, open, turning, posts, turns>>

\* postTimes is in memory.
ToolsRestart ==
    /\ turns > 0 /\ turns' = turns - 1
    /\ Restart
    /\ posts' = 0 /\ turning' = {}
    /\ call' = [c \in ToolCalls |-> NoCall]
    /\ UNCHANGED <<role, dial, open>>

ToolsNext ==
    \/ \E g \in Projects : \/ \E r \in {None, "member", "admin"} : Membership(g, r)
                            \/ \E o \in Options : Standing(g, o)
                            \/ \E mode \in Modes : AskDial(g, mode)
    \/ \E t \in turning : SetDial(t)
    \/ MinutePasses
    \/ \E c \in ToolCalls : \/ \E kind \in Kinds, g \in Projects : StartCall(c, kind, g)
                            \/ ListMyProjects(c) \/ ReadProject(c) \/ ReadMembership(c)
                            \/ ReadMode(c) \/ Act(c) \/ ReadMessages(c) \/ CallFails(c)
    \/ \E i \in DOMAIN messages : ActEnds(i)
    \/ ToolsRestart

ToolsSpec == BoardInit /\ ToolsInit /\ [][ToolsNext]_<<messages, toolsVars>>

-----------------------------------------------------------------------------
ToolsTypeOK ==
    /\ role \in [Projects -> {None, "member", "admin"}]
    /\ dial \in [Projects -> Modes \cup {None}]
    /\ open \in [Projects -> Options]
    /\ turning \subseteq [group : Projects, mode : Modes]
    /\ posts \in 0 .. PostLimit
    /\ call \in [ToolCalls -> Calls]
    /\ turns \in 0 .. MaxTurns

(* What an agent does through a tool it had leave to do: each thing that the *)
(* act needs - the project is there and not frozen, the operator belongs to  *)
(* it, the dial stands where it must - was so at some moment of the call,    *)
(* though not all at once (src/mcp.js:108-127, 167-197).                     *)
ActsHadLeave ==
    \A c \in ToolCalls : call[c].at = "act" => Needs(call[c].kind) \subseteq call[c].had

=============================================================================
