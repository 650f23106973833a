------------------------------ MODULE Watcher ------------------------------
(***************************************************************************)
(* The watcher (scripts/buildhall-watch.mjs): a process that polls the     *)
(* projects of its user and starts the agent's CLI on new messages that    *)
(* call it.  On disk it keeps lastSeen; the chain of replies to agents,    *)
(* the cooldown and the hour's runs are in memory and start afresh with    *)
(* the process, which the operating system starts again when it ends.      *)
(*                                                                         *)
(* Time is not counted: a cooldown ends, an hour passes at any time.       *)
(***************************************************************************)
EXTENDS Board

CONSTANTS
    Watched,        \* the user's projects
    WatchLimit,     \* messages per poll: 50
    MaxChain,       \* --chain
    HourlyCap,      \* --hourly
    WatchMessages,  \* bound: ids drawn
    MaxLives        \* bound: processes, one after the other

ASSUME WatcherAssumption ==
    /\ {"human", "self", "agent"} \subseteq Authors
    /\ Watched \subseteq Projects
    /\ WatchLimit \in Nat \ {0} /\ MaxChain \in Nat /\ HourlyCap \in Nat
    /\ MaxLives \in Nat /\ None \notin Nat

VARIABLES
    doing,      \* what the process is at, "off" while there is none
    lastSeen,   \* on disk; None before a project's baseline
    todo,       \* the projects this poll has yet to read
    batch,      \* the messages in hand, all of one project
    chain,      \* agentChain
    cooling,    \* the projects in cooldown
    hour,       \* Len(hourLog)
    lives,      \* processes so far
    read,       \* history: the ids read since the pairing
    again,      \* history: one of them was read and acted on once more
    answers     \* history: answers[g]: runs that this process began for agents

watcherVars == <<doing, lastSeen, todo, batch, chain, cooling, hour, lives,
                 read, again, answers>>

Project == CHOOSE g \in Watched : \A i \in batch : messages[i].group = g
By(i)   == messages[i].by

\* Mutant: the budget is spent one reply later.
Budget_OneMore(i, left) == left + 1 > 0

\* shouldTrigger: other agents may call as long as the budget lasts.
Budget(i, left) == By(i) = "agent" => left > 0

\* A human's word renews the budget.
Heartbeat(i) == By(i) = "human"

Triggers(i, left) == messages[i].calls /\ By(i) # "self" /\ Budget(i, left)

Fresh == /\ chain' = [g \in Watched |-> 0] /\ answers' = [g \in Watched |-> 0]
         /\ cooling' = {} /\ hour' = 0

WatcherInit ==
    /\ doing = "off"
    /\ lastSeen = [g \in Watched |-> None]
    /\ todo = {} /\ batch = {}
    /\ chain = [g \in Watched |-> 0] /\ answers = [g \in Watched |-> 0]
    /\ cooling = {} /\ hour = 0 /\ lives = 0
    /\ read = {} /\ again = FALSE

-----------------------------------------------------------------------------
\* An agent's message that does not call it is to it as one of its own.
Says(g, by, calls) ==
    /\ Len(messages) < WatchMessages
    /\ by = "agent" => calls
    /\ by = "self" => ~calls
    /\ Insert(g, by, calls)
    /\ UNCHANGED watcherVars

Stored(i) == Commit(i) /\ UNCHANGED watcherVars

\* main, up to its loop.
StartWatcher ==
    /\ doing = "off" /\ lives < MaxLives
    /\ lives' = lives + 1
    /\ doing' = "asleep"
    /\ Fresh
    /\ UNCHANGED <<messages, todo, batch, again>>

\* pair, setup: the first run, or an expired token.
Setup == StartWatcher /\ lastSeen' = [g \in Watched |-> None] /\ read' = {}

\* loadConf: with what the last process left on disk.
StartAgain == StartWatcher /\ lives > 0 /\ UNCHANGED <<lastSeen, read>>

\* It is ended, or the machine goes off; a run under way ends with it.
Ends ==
    /\ doing # "off"
    /\ doing' = "off" /\ todo' = {} /\ batch' = {}
    /\ UNCHANGED <<messages, lastSeen, chain, cooling, hour, lives, read, again, answers>>

\* GET /groups; frozen projects are left out.
Poll(open) ==
    /\ doing = "asleep"
    /\ todo' = open
    /\ doing' = "reading"
    /\ UNCHANGED <<messages, lastSeen, batch, chain, cooling, hour, lives, read, again, answers>>

\* Every project read, or a request failed: the next poll starts over.
Sleep ==
    /\ doing = "reading"
    /\ todo' = {} /\ doing' = "asleep"
    /\ UNCHANGED <<messages, lastSeen, batch, chain, cooling, hour, lives, read, again, answers>>

\* Mutant: lastSeen is saved after the run.
Remember_Later(g, ids, hits) ==
    lastSeen' = IF hits THEN lastSeen ELSE [lastSeen EXCEPT ![g] = LastOf(ids)]

\* conf.lastSeen and saveConf: before anything is done about the messages.
Remember(g, ids, hits) == lastSeen' = [lastSeen EXCEPT ![g] = LastOf(ids)]

(* GET messages?after=lastSeen.  The first page of a project is the          *)
(* baseline: nothing on it is answered.                                      *)
Read(g) ==
    LET first == lastSeen[g] = None
        ids   == ListMessages(g, IF first THEN 0 ELSE lastSeen[g], WatchLimit)
        spent == IF \E i \in ids : Heartbeat(i) THEN 0 ELSE chain[g]
        hits  == ~first /\ \E i \in ids : Triggers(i, MaxChain - spent)
    IN
    /\ doing = "reading" /\ g \in todo
    /\ todo' = todo \ {g}
    /\ IF ids = {} THEN UNCHANGED lastSeen ELSE Remember(g, ids, hits)
    /\ chain' = IF first THEN chain ELSE [chain EXCEPT ![g] = spent]
    /\ IF hits THEN doing' = "asking" /\ batch' = ids ELSE UNCHANGED <<doing, batch>>
    /\ read' = read \cup ids
    /\ again' = (again \/ (~first /\ ids \cap read # {}))
    /\ UNCHANGED <<messages, cooling, hour, lives, answers>>

Hits == {i \in batch : Triggers(i, MaxChain - chain[Project])}

ForAgents == \A i \in Hits : By(i) = "agent"

\* No leave to post (as known for up to five minutes), cap or cooldown.
Skip ==
    /\ doing = "asking"
    /\ doing' = "reading" /\ batch' = {}
    /\ UNCHANGED <<messages, lastSeen, todo, chain, cooling, hour, lives, read, again, answers>>

Run ==
    /\ doing = "asking"
    /\ hour < HourlyCap /\ Project \notin cooling
    /\ hour' = hour + 1
    /\ cooling' = cooling \cup {Project}
    /\ IF ForAgents THEN /\ chain' = [chain EXCEPT ![Project] = @ + 1]
                         /\ answers' = [answers EXCEPT ![Project] = @ + 1]
       ELSE UNCHANGED <<chain, answers>>
    /\ doing' = "running"
    /\ UNCHANGED <<messages, lastSeen, todo, batch, lives, read, again>>

\* The CLI exits, or is killed after five minutes; posting is its own affair.
RunEnds ==
    /\ doing = "running"
    /\ doing' = "reading" /\ batch' = {}
    /\ UNCHANGED <<messages, lastSeen, todo, chain, cooling, hour, lives, read, again, answers>>

CooldownEnds(g) ==
    /\ g \in cooling
    /\ cooling' = cooling \ {g}
    /\ UNCHANGED <<messages, doing, lastSeen, todo, batch, chain, hour, lives, read, again, answers>>

HourPasses ==
    /\ hour > 0
    /\ hour' = hour - 1
    /\ UNCHANGED <<messages, doing, lastSeen, todo, batch, chain, cooling, lives, read, again, answers>>

WatcherNext ==
    \/ \E g \in Watched, by \in {"human", "self", "agent"}, calls \in BOOLEAN : Says(g, by, calls)
    \/ \E i \in DOMAIN messages : Stored(i)
    \/ Setup \/ StartAgain
    \/ Ends \/ Sleep \/ Skip \/ Run \/ RunEnds \/ HourPasses
    \/ \E open \in SUBSET Watched : Poll(open)
    \/ \E g \in Watched : Read(g) \/ CooldownEnds(g)

WatcherSpec == BoardInit /\ WatcherInit /\ [][WatcherNext]_<<messages, watcherVars>>

-----------------------------------------------------------------------------
WatcherTypeOK ==
    /\ doing \in {"off", "asleep", "reading", "asking", "running"}
    /\ lastSeen \in [Watched -> Nat \cup {None}]
    /\ todo \subseteq Watched /\ batch \subseteq DOMAIN messages
    /\ doing \in {"asking", "running"} <=> batch # {}
    /\ chain \in [Watched -> 0 .. MaxChain] /\ answers \in [Watched -> Nat]
    /\ cooling \subseteq Watched /\ hour \in 0 .. HourlyCap /\ lives \in 0 .. MaxLives
    /\ read \subseteq DOMAIN messages /\ again \in BOOLEAN

(* Agents do not keep each other talking: whatever the pages and the order   *)
(* in which messages come, a process starts the CLI on calls of agents alone *)
(* no oftener than MaxChain times, and MaxChain times more for each word of  *)
(* a human (scripts/buildhall-watch.mjs:50-64, 314-336).                     *)
LoopsDieOut ==
    \A g \in Watched :
        answers[g] <= MaxChain * (1 + Cardinality({i \in Visible(g) : By(i) = "human"}))

(* From one pairing to the next a message is acted on once at most, however  *)
(* the process ends and starts again (scripts/buildhall-watch.mjs:325-336).  *)
WokenOnce == ~again

=============================================================================
