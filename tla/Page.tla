-------------------------------- MODULE Page --------------------------------
(***************************************************************************)
(* A browser on a project's thread: the app of public/home.js and the      *)
(* older one of public/app.js.  Both fetch the history, listen on a        *)
(* socket and show a message only if its id is above the last one shown;   *)
(* they differ in what closes the gaps.  app.js opens the socket, fetches  *)
(* what came since and holds live messages back meanwhile; it reconnects.  *)
(* home.js fetches first and then opens the socket; it polls once a        *)
(* socket has closed, and in projects that it is no member of.             *)
(***************************************************************************)
EXTENDS Board, SequencesExt

CONSTANTS
    Mine,           \* the projects among the page's own groups
    PageLimit,      \* messages per answer: 200
    PageMessages,   \* bound: ids drawn
    MaxAsks,        \* bound: requests in flight
    MaxFaults       \* bound: closed sockets, failed requests, restarts, switches

ASSUME PageAssumption ==
    /\ {"other", "me"} \subseteq Authors
    /\ Mine \subseteq Projects
    /\ PageLimit \in Nat \ {0} /\ MaxFaults \in Nat

VARIABLES
    cur,        \* the project shown: currentGroup, selected
    shown,      \* the ids in its thread; the largest is lastMessageId, lastMsgId
    ws,         \* the socket in use
    asks,       \* the page's requests in flight
    timer,      \* app.js: reconnectTimer; home.js: pollTimer
    closing,    \* home.js: sockets it closed whose close event is due
    faults,     \* what remains of MaxFaults
    excused,    \* history: messages below the last one that were passed over
    stray       \* history: the last id that something stale put in the thread, or 0

pageVars == <<cur, shown, ws, asks, timer, closing, faults, excused, stray>>

(* A request and, once the server has run it, its answer.  after: the        *)
(* cursor, or the id that a post has drawn.  A backfill carries the messages *)
(* that wait for it; ours: its socket is still the one in use.  stale: made  *)
(* before the page opened its thread anew.                                   *)
Asks == [kind : {"history", "backfill", "poll", "post"}, group : Projects,
         after : Nat, ours : BOOLEAN, stale : BOOLEAN, got : SUBSET Nat, held : Seq(Nat),
         st : {"asked", "answered", "failed"}]

(* st: dialing, in the room on the server, open for the page as well, gone   *)
(* but the page not told yet (dropped; revoked: with code 4401).             *)
Sockets == [group : Projects \cup {None},
            st : {"none", "dialing", "joined", "open", "dropped", "revoked"},
            inbox : Seq(Nat), stale : BOOLEAN]

Request(kind, g, after) ==
    [kind |-> kind, group |-> g, after |-> after, ours |-> TRUE,
     stale |-> FALSE, got |-> {}, held |-> <<>>, st |-> "asked"]

Ask(a) == Len(asks) < MaxAsks /\ asks' = Append(asks, a)
Answered(k) == asks' = RemoveAt(asks, k)

LastId == LastOf(shown)

\* renderMessage for each, appendMessages: what is not above the last is dropped.
Rendered(S, page) == S \cup {i \in page : i > LastOf(S)}

\* The same for messages in the order in which they came.
RenderedInTurn(S, s) ==
    S \cup {s[k] : k \in {n \in DOMAIN s : s[n] > LastOf(S) /\ \A m \in 1 .. n - 1 : s[m] < s[n]}}

NoSocket   == [group |-> None, st |-> "none", inbox |-> <<>>, stale |-> TRUE]
Dialing(g) == [group |-> g, st |-> "dialing", inbox |-> <<>>, stale |-> FALSE]
Disowned(s) == [k \in DOMAIN s |-> [s[k] EXCEPT !.ours = FALSE]]

\* Requests that the page has left behind.
Stale(s) == [k \in DOMAIN s |-> [s[k] EXCEPT !.stale = TRUE]]

\* Something stale hides what is below it from whatever comes later.
Misled(stale) ==
    stray' = IF stale /\ LastOf(shown') > LastId THEN LastOf(shown') ELSE stray

Excuse(S) == excused' = excused \cup S
Spend     == faults > 0 /\ faults' = faults - 1

\* A project is chosen, be it the one shown: the thread and its cursor are
\* cleared, the history is asked for; nothing under way is called off.
BeginThread(g) ==
    /\ Spend
    /\ cur' = g
    /\ shown' = {}
    /\ Len(asks) < MaxAsks /\ asks' = Append(Stale(asks), Request("history", g, 0))
    /\ ws' = [ws EXCEPT !.stale = TRUE]
    /\ excused' = {} /\ stray' = 0
    /\ UNCHANGED <<messages, timer, closing>>

PageInit ==
    /\ cur = None /\ shown = {}
    /\ ws = NoSocket /\ asks = <<>>
    /\ timer = FALSE /\ closing = 0
    /\ faults = MaxFaults
    /\ excused = {} /\ stray = 0

-----------------------------------------------------------------------------
(* Around the page: others post, the server answers, things break.           *)
OtherInsert(g) ==
    /\ Len(messages) < PageMessages
    /\ Insert(g, "other", FALSE)
    /\ UNCHANGED pageVars

PageCommit(i) ==
    /\ Commit(i)
    /\ Excuse(IF Overtaken(i, Visible(messages[i].group)) THEN {i} ELSE {})
    /\ UNCHANGED <<cur, shown, ws, asks, timer, closing, faults, stray>>

\* What a request that fails comes back as.
Failed(fails(_)) ==
    asks' = [k \in DOMAIN asks |-> IF fails(asks[k]) THEN [asks[k] EXCEPT !.st = "failed"]
                                   ELSE asks[k]]

\* The page's own post fails; to the page another's is one not yet committed.
PageRollback(i) ==
    /\ messages[i].by = "me"
    /\ Rollback(i)
    /\ Spend
    /\ Failed(LAMBDA a : a.kind = "post" /\ a.after = i)
    /\ UNCHANGED <<cur, shown, ws, timer, closing, excused, stray>>

\* The broadcast goes to the sockets of the room, the answer to the poster.
PageTell(i) ==
    LET g == messages[i].group IN
    /\ Tell(i)
    /\ Excuse(IF Overtaken(i, Told(g)) THEN {i} ELSE {})
    /\ ws' = IF ws.group = g /\ ws.st \in {"joined", "open"}
             THEN [ws EXCEPT !.inbox = Append(@, i)] ELSE ws
    /\ asks' = [k \in DOMAIN asks |->
                  IF asks[k].kind = "post" /\ asks[k].after = i
                  THEN [asks[k] EXCEPT !.got = {i}, !.st = "answered"] ELSE asks[k]]
    /\ UNCHANGED <<cur, shown, timer, closing, faults, stray>>

Serve(k) ==
    /\ asks[k].st = "asked" /\ asks[k].kind # "post"
    /\ asks' = [asks EXCEPT ![k].st = "answered",
                            ![k].got = ListMessages(asks[k].group, asks[k].after, PageLimit)]
    /\ UNCHANGED <<messages, cur, shown, ws, timer, closing, faults, excused, stray>>

AskFails(k) ==
    /\ asks[k].st = "asked" /\ asks[k].kind # "post"
    /\ Spend
    /\ asks' = [asks EXCEPT ![k].st = "failed"]
    /\ UNCHANGED <<messages, cur, shown, ws, timer, closing, excused, stray>>

\* The upgrade enters the room; what has been told by then it never sends.
Join(passed) ==
    /\ ws.st = "dialing"
    /\ ws' = [ws EXCEPT !.st = "joined"]
    /\ Excuse(passed)
    /\ UNCHANGED <<messages, cur, shown, asks, timer, closing, faults, stray>>

Up == ws.st \in {"dialing", "joined", "open"}
Dropped(w, st) == IF w.st \in {"dialing", "joined", "open"}
                  THEN [w EXCEPT !.st = st, !.inbox = <<>>] ELSE w

\* The upgrade is refused, the connection breaks, the session is revoked.
Drop(st) ==
    /\ Up
    /\ Spend
    /\ ws' = Dropped(ws, st)
    /\ UNCHANGED <<messages, cur, shown, asks, timer, closing, excused, stray>>

ServerRestart ==
    /\ Spend
    /\ Restart
    /\ ws' = Dropped(ws, "dropped")
    /\ Failed(LAMBDA a : a.st = "asked")
    /\ Excuse({i \in DOMAIN messages : messages[i].stage = "stored"
                                      /\ Overtaken(i, Told(messages[i].group))})
    /\ UNCHANGED <<cur, shown, timer, closing, stray>>

Around ==
    \/ \E g \in Projects : OtherInsert(g)
    \/ \E i \in DOMAIN messages : PageCommit(i) \/ PageRollback(i) \/ PageTell(i)
    \/ \E k \in DOMAIN asks : Serve(k) \/ AskFails(k)
    \/ \E st \in {"dropped", "revoked"} : Drop(st)
    \/ ServerRestart

-----------------------------------------------------------------------------
PageTypeOK ==
    /\ cur \in Projects \cup {None} /\ shown \subseteq DOMAIN messages
    /\ ws \in Sockets /\ asks \in Seq(Asks)
    /\ timer \in BOOLEAN /\ closing \in Nat
    /\ faults \in 0 .. MaxFaults
    /\ excused \subseteq DOMAIN messages /\ stray \in Nat

(* Below the last message shown, what is missing was passed over for a       *)
(* reason, or lies below a message that came on a stale answer or socket.    *)
HolesExcused ==
    cur # None =>
        \A i \in Told(cur) : i < LastId => i \in shown \cup excused \/ i < stray

=============================================================================
