----------------------------- MODULE ClassicPage -----------------------------
(***************************************************************************)
(* The thread of public/app.js: selectGroup, renderMessage, connectSocket. *)
(***************************************************************************)
EXTENDS Page

ThisGroup == ws.group = cur /\ cur # None

\* connectSocket: the old socket's close event will find another in use.
ConnectSocket(g, rest) == ws' = Dialing(g) /\ timer' = FALSE /\ asks' = Disowned(rest)

SelectGroup(g) == BeginThread(g)

HistoryArrives(k) ==
    LET a == asks[k] IN
    /\ a.kind = "history" /\ a.st # "asked"
    /\ IF a.st = "failed" \/ cur # a.group
       THEN Answered(k) /\ UNCHANGED <<shown, ws, timer, stray>>
       ELSE /\ shown' = Rendered(shown, a.got)
            /\ Misled(a.stale)
            /\ ConnectSocket(a.group, RemoveAt(asks, k))
    /\ UNCHANGED <<messages, cur, closing, faults, excused>>

\* The open event.  A live message may be in the inbox already.
SocketOpens ==
    /\ ws.st = "joined"
    /\ ws' = [ws EXCEPT !.st = "open"]
    /\ IF ThisGroup THEN Ask([Request("backfill", cur, LastId) EXCEPT !.stale = ws.stale])
       ELSE UNCHANGED asks
    /\ UNCHANGED <<messages, cur, shown, timer, closing, faults, excused, stray>>

Backfilling(k) == asks[k].kind = "backfill" /\ asks[k].ours

\* Mutant: a live message is shown at once.
Frame_NotHeld(i) == shown' = Rendered(shown, {i}) /\ UNCHANGED asks

\* What waits for the backfill waits with its request.
Frame(i) ==
    IF \E k \in DOMAIN asks : Backfilling(k)
    THEN /\ asks' = [k \in DOMAIN asks |-> IF Backfilling(k)
                        THEN [asks[k] EXCEPT !.held = Append(@, i)] ELSE asks[k]]
         /\ UNCHANGED shown
    ELSE shown' = Rendered(shown, {i}) /\ UNCHANGED asks

LiveMessage ==
    /\ ws.st = "open" /\ ws.inbox # <<>>
    /\ ws' = [ws EXCEPT !.inbox = Tail(@)]
    /\ IF ThisGroup THEN Frame(Head(ws.inbox)) ELSE UNCHANGED <<shown, asks>>
    /\ Misled(ws.stale)
    /\ UNCHANGED <<messages, cur, timer, closing, faults, excused>>

(* The messages that waited are shown whatever the answer and whatever the   *)
(* page shows by now; after a failed or a full backfill they stand above     *)
(* messages that no later one asks for.                                      *)
BackfillArrives(k) ==
    LET a    == asks[k]
        base == IF a.st = "answered" /\ cur = a.group THEN Rendered(shown, a.got) ELSE shown
        due  == {a.held[j] : j \in DOMAIN a.held} \cup {ws.inbox[j] : j \in DOMAIN ws.inbox}
    IN
    /\ a.kind = "backfill" /\ a.st # "asked"
    /\ Answered(k)
    /\ shown' = RenderedInTurn(base, a.held)
    /\ Misled(a.stale)
    /\ Excuse(IF ~a.stale /\ (a.st = "failed" \/ Cardinality(a.got) = PageLimit)
              THEN Told(a.group) \ (base \cup due) ELSE {})
    /\ UNCHANGED <<messages, cur, ws, timer, closing, faults>>

\* The close event of the socket in use; 4401 signs the page out.
SocketCloses ==
    /\ ws.st \in {"dropped", "revoked"}
    /\ ws' = [ws EXCEPT !.st = "none"]
    /\ timer' = (timer \/ (ThisGroup /\ ws.st = "dropped"))
    /\ cur' = IF ThisGroup /\ ws.st = "revoked" THEN None ELSE cur
    /\ UNCHANGED <<messages, shown, asks, closing, faults, excused, stray>>

\* reconnectTimer
Reconnect ==
    /\ timer
    /\ IF ThisGroup /\ ws.st = "none" THEN ConnectSocket(cur, asks)
       ELSE timer' = FALSE /\ UNCHANGED <<ws, asks>>
    /\ UNCHANGED <<messages, cur, shown, closing, faults, excused, stray>>

ShowFeed ==
    /\ cur # None
    /\ Spend
    /\ cur' = None
    /\ ws' = NoSocket
    /\ asks' = Disowned(asks)
    /\ UNCHANGED <<messages, shown, timer, closing, excused, stray>>

ClassicNext ==
    \/ Around \/ Join({})
    \/ \E g \in Projects : SelectGroup(g)
    \/ \E k \in DOMAIN asks : HistoryArrives(k) \/ BackfillArrives(k)
    \/ SocketOpens \/ LiveMessage \/ SocketCloses \/ Reconnect \/ ShowFeed

=============================================================================
