----------------------------- MODULE Responder -----------------------------
(***************************************************************************)
(* Who makes an agent answer (bridge/responder.mjs).  The bridge's         *)
(* connections write the group's messages to the agent's file and, a       *)
(* second later, start a responder; that takes the lines behind            *)
(* .responder-offset to the agent's CLI and appends the answer to the      *)
(* file, as a line that the bridge will post.  Responders are processes:   *)
(* they know of each other through a lock file only.                       *)
(*                                                                         *)
(* Connecting an agent to a group twice makes two connections on one file  *)
(* (bridge/server.mjs:459), each with a wake-up of its own.                *)
(***************************************************************************)
EXTENDS Integers, Sequences, FiniteSets

CONSTANTS
    Conns,          \* bound: connections of the file
    Procs,          \* bound: responders at once
    Before,         \* lines in the file when the agent is first connected
    MaxLines,       \* bound: lines in the file
    MaxCrashes,     \* bound: processes killed, locks that age
    NoOne

\* stale: more than five minutes old.
Locks == [owner : Procs, stale : BOOLEAN]

ASSUME ResponderAssumption ==
    /\ NoOne \notin Locks
    /\ Before \in Nat /\ MaxLines \in Nat /\ MaxCrashes \in Nat

VARIABLES
    file,       \* file[k]: whose line it is: a human's, another agent's, its own
    conns,      \* the live connections
    due,        \* those whose wakePending is set
    offset,     \* .responder-offset, in lines
    lock,       \* the lock file
    proc,       \* proc[p]: a responder
    crashes,    \* what remains of MaxCrashes
    taken,      \* history: human lines that were put to the CLI
    twice,      \* history: one of them a second time
    early,      \* history: one that was there before the agent was connected
    broken      \* history: the lock of one that was inside was removed, or was
                \* written over by one whose test had found none in force

responderVars == <<file, conns, due, offset, lock, proc, crashes, taken, twice, early, broken>>

(* at: started; tested, the lock not yet its own; locked; read, the offset   *)
(* not yet moved; asking, the CLI at work; leaving, in finally; exiting, in  *)
(* the exit handler.  clear: history: the test found no lock in force.       *)
Places == {"none", "started", "tested", "locked", "read", "asking", "leaving", "exiting"}
Responders == [at : Places, clear : BOOLEAN, from : Nat, upto : Nat]

Off == [at |-> "none", clear |-> FALSE, from |-> 0, upto |-> 0]
At(p, places) == proc[p].at \in places
Goes(p, place) == proc' = [proc EXCEPT ![p].at = place]
Quit(p)        == proc' = [proc EXCEPT ![p] = Off]
Inside         == {"locked", "read", "asking"}
Humans(from, upto) == {k \in from + 1 .. upto : file[k] = "human"}

ResponderInit ==
    /\ file = [k \in 1 .. Before |-> "human"]
    /\ conns = {} /\ due = {}
    /\ offset = 0
    /\ lock = NoOne
    /\ proc = [p \in Procs |-> Off]
    /\ crashes = MaxCrashes
    /\ taken = {} /\ twice = FALSE /\ early = FALSE /\ broken = FALSE

-----------------------------------------------------------------------------
(* The bridge.                                                               *)

\* The responder starts at the end of the file.
StartOffset == Len(file)

\* POST /api/agents/:name/connect; restored connections keep their offset.
ConnectAgent(c) ==
    /\ c \notin conns
    /\ conns' = conns \cup {c}
    /\ offset' = StartOffset
    /\ UNCHANGED <<file, due, lock, proc, crashes, taken, twice, early, broken>>

\* appendIncoming and wake, which is set once.
Arrives(c, kind) ==
    /\ c \in conns /\ Len(file) < MaxLines
    /\ file' = Append(file, kind)
    /\ due' = due \cup {c}
    /\ UNCHANGED <<conns, offset, lock, proc, crashes, taken, twice, early, broken>>

WakeUp(c, p) ==
    /\ c \in due /\ At(p, {"none"})
    /\ due' = due \ {c}
    /\ Goes(p, "started")
    /\ UNCHANGED <<file, conns, offset, lock, crashes, taken, twice, early, broken>>

\* The connection is removed, or the bridge quits: the timer is cleared.
StopConnection(c) ==
    /\ c \in conns
    /\ conns' = conns \ {c} /\ due' = due \ {c}
    /\ UNCHANGED <<file, offset, lock, proc, crashes, taken, twice, early, broken>>

-----------------------------------------------------------------------------
(* A responder.                                                              *)
Held == lock # NoOne /\ ~lock.stale

\* Mutant: the lock is not looked at.
MayEnter_Always == TRUE

MayEnter == ~Held

\* The lock, if any, is about to go while its owner is at work.
LockLost == lock # NoOne /\ At(lock.owner, Inside)

\* A lock of more than five minutes is taken for a dead one's.
TestLock(p) ==
    /\ At(p, {"started"})
    /\ IF MayEnter THEN proc' = [proc EXCEPT ![p].at = "tested", ![p].clear = ~Held]
       ELSE Quit(p)
    /\ UNCHANGED <<file, conns, due, offset, lock, crashes, taken, twice, early, broken>>

\* By now the lock may be another's, or be a stale one whose owner lives.
WriteLock(p) ==
    /\ At(p, {"tested"})
    /\ lock' = [owner |-> p, stale |-> FALSE]
    /\ proc' = [proc EXCEPT ![p].at = "locked", ![p].clear = FALSE]
    /\ broken' = (broken \/ (proc[p].clear /\ LockLost))
    /\ UNCHANGED <<file, conns, due, offset, crashes, taken, twice, early>>

ReadFile(p) ==
    /\ At(p, {"locked"})
    /\ proc' = [proc EXCEPT ![p].at = IF Len(file) > offset THEN "read" ELSE "exiting",
                            ![p].from = offset, ![p].upto = Len(file)]
    /\ UNCHANGED <<file, conns, due, offset, lock, crashes, taken, twice, early, broken>>

\* Past everything looked at, answered or not.
Advanced(p) == proc[p].upto

Advance(p) ==
    LET asked == Humans(proc[p].from, proc[p].upto) IN
    /\ At(p, {"read"})
    /\ offset' = Advanced(p)
    /\ Goes(p, IF asked = {} THEN "exiting" ELSE "asking")
    /\ taken' = taken \cup asked
    /\ twice' = (twice \/ asked \cap taken # {})
    /\ early' = (early \/ asked \cap 1 .. Before # {})
    /\ UNCHANGED <<file, conns, due, lock, crashes, broken>>

Reply(p) ==
    /\ At(p, {"asking"}) /\ Len(file) < MaxLines
    /\ file' = Append(file, "own")
    /\ Goes(p, "leaving")
    /\ UNCHANGED <<conns, due, offset, lock, crashes, taken, twice, early, broken>>

\* invokeAgent: no CLI, an error, no output, three minutes gone.
NoReply(p) ==
    /\ At(p, {"asking"})
    /\ Goes(p, "exiting")
    /\ UNCHANGED <<file, conns, due, offset, lock, crashes, taken, twice, early, broken>>

\* The lock is removed in finally and once more at exit, whosever it is.
Unlink(p) ==
    /\ At(p, {"leaving", "exiting"})
    /\ lock' = NoOne
    /\ broken' = (broken \/ LockLost)
    /\ IF At(p, {"leaving"})
       THEN proc' = [proc EXCEPT ![p] = [Off EXCEPT !.at = "exiting"]] ELSE Quit(p)
    /\ UNCHANGED <<file, conns, due, offset, crashes, taken, twice, early>>

Breaks == crashes > 0 /\ crashes' = crashes - 1

Killed(p) ==
    /\ ~At(p, {"none"})
    /\ Breaks
    /\ Quit(p)
    /\ UNCHANGED <<file, conns, due, offset, lock, taken, twice, early, broken>>

LockAges ==
    /\ Held
    /\ Breaks
    /\ lock' = [lock EXCEPT !.stale = TRUE]
    /\ UNCHANGED <<file, conns, due, offset, proc, taken, twice, early, broken>>

ResponderNext ==
    \/ \E c \in Conns : ConnectAgent(c) \/ StopConnection(c)
                        \/ Arrives(c, "human") \/ Arrives(c, "agent")
    \/ \E c \in Conns, p \in Procs : WakeUp(c, p)
    \/ \E p \in Procs : \/ TestLock(p) \/ WriteLock(p) \/ ReadFile(p) \/ Advance(p)
                        \/ Reply(p) \/ NoReply(p) \/ Unlink(p) \/ Killed(p)
    \/ LockAges

ResponderSpec == ResponderInit /\ [][ResponderNext]_responderVars

-----------------------------------------------------------------------------
ResponderTypeOK ==
    /\ file \in Seq({"human", "agent", "own"})
    /\ conns \subseteq Conns /\ due \subseteq conns
    /\ offset \in 0 .. Len(file)
    /\ lock \in Locks \cup {NoOne}
    /\ proc \in [Procs -> Responders]
    /\ crashes \in 0 .. MaxCrashes
    /\ taken \subseteq DOMAIN file
    /\ twice \in BOOLEAN /\ early \in BOOLEAN /\ broken \in BOOLEAN

(* No line that was in the file before the agent was connected is put to the *)
(* CLI, and none is put to it twice - whatever processes are killed and      *)
(* connections made anew - unless a lock was removed, or made or aged        *)
(* between another's test and write, while its owner was at work             *)
(* (bridge/responder.mjs:25-93, bridge/server.mjs:462).                      *)
AnsweredOnce == ~early /\ (~broken => ~twice)

=============================================================================
