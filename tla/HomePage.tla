------------------------------ MODULE HomePage ------------------------------
(***************************************************************************)
(* The thread of public/home.js: openGroup, renderThread, appendMessages,  *)
(* startLive, schedulePoll, the composer.                                  *)
(***************************************************************************)
EXTENDS Page

OpenGroup(g) == BeginThread(g)

\* stopLive: the close event of the socket comes later.
StopLive == closing' = closing + (IF ws.st # "none" THEN 1 ELSE 0)

StartLive(g) ==
    /\ StopLive
    /\ ws' = IF g \in Mine THEN Dialing(g) ELSE NoSocket
    /\ timer' = (g \notin Mine)

\* renderThread begins the thread anew: of what is under way only another
\* history, which would do so once more, is not stale now.
HomeHistoryArrives(k) ==
    LET a == asks[k] IN
    /\ a.kind = "history" /\ a.st # "asked"
    /\ IF a.st = "failed" \/ cur # a.group
       THEN Answered(k) /\ UNCHANGED <<shown, ws, timer, closing, stray>>
       ELSE /\ shown' = a.got
            /\ stray' = IF a.stale THEN LastOf(a.got) ELSE 0
            /\ LET rest == RemoveAt(asks, k) IN
               asks' = [m \in DOMAIN rest |->
                           IF rest[m].kind = "history" THEN rest[m]
                           ELSE [rest[m] EXCEPT !.stale = TRUE]]
            /\ StartLive(a.group)
    /\ UNCHANGED <<messages, cur, faults, excused>>

(* What has been told since the history (or lies behind its first page) the  *)
(* socket does not bring; only a poll before the next live message does.     *)
HomeJoin == Join(IF ws.stale THEN {} ELSE {i \in Told(cur) : i > LastId})

HomeOpens ==
    /\ ws.st = "joined"
    /\ ws' = [ws EXCEPT !.st = "open"]
    /\ UNCHANGED <<messages, cur, shown, asks, timer, closing, faults, excused, stray>>

\* onmessage does not ask what the page shows, nor do the answers below.
HomeMessage ==
    /\ ws.st = "open" /\ ws.inbox # <<>>
    /\ ws' = [ws EXCEPT !.inbox = Tail(@)]
    /\ shown' = Rendered(shown, {Head(ws.inbox)})
    /\ Misled(ws.stale)
    /\ UNCHANGED <<messages, cur, asks, timer, closing, faults, excused>>

\* onclose: polling starts for whatever project is shown by then.
HomeCloses ==
    /\ \/ ws.st \in {"dropped", "revoked"} /\ ws' = [ws EXCEPT !.st = "none"]
          /\ UNCHANGED closing
       \/ closing > 0 /\ closing' = closing - 1
          /\ UNCHANGED ws
    /\ timer' = (timer \/ cur # None)
    /\ UNCHANGED <<messages, cur, shown, asks, faults, excused, stray>>

\* schedulePoll's interval: ?after=lastMsgId
PollFires ==
    /\ timer /\ cur # None
    /\ Ask(Request("poll", cur, LastId))
    /\ UNCHANGED <<messages, cur, shown, ws, timer, closing, faults, excused, stray>>

PollArrives(k) ==
    LET a == asks[k] IN
    /\ a.kind = "poll" /\ a.st # "asked"
    /\ Answered(k)
    /\ shown' = Rendered(shown, a.got)
    /\ Misled(a.stale)
    /\ UNCHANGED <<messages, cur, ws, timer, closing, faults, excused>>

\* The composer; the answer shows the message in whatever thread is open.
PagePost ==
    /\ cur \in Mine /\ Len(messages) < PageMessages
    /\ Insert(cur, "me", FALSE)
    /\ Ask(Request("post", cur, Len(messages) + 1))
    /\ UNCHANGED <<cur, shown, ws, timer, closing, faults, excused, stray>>

\* It may come before the socket has brought what was said earlier.
PostArrives(k) ==
    LET a == asks[k] IN
    /\ a.kind = "post" /\ a.st # "asked"
    /\ Answered(k)
    /\ shown' = Rendered(shown, a.got)
    /\ Misled(a.stale)
    /\ Excuse(IF a.stale \/ a.st = "failed" THEN {}
              ELSE {i \in Told(cur) : LastId < i /\ i < a.after})
    /\ UNCHANGED <<messages, cur, ws, timer, closing, faults>>

\* showFeedView
HomeShowFeed ==
    /\ cur # None
    /\ Spend
    /\ cur' = None
    /\ StopLive /\ ws' = NoSocket /\ timer' = FALSE
    /\ UNCHANGED <<messages, shown, asks, excused, stray>>

HomeNext ==
    \/ Around \/ HomeJoin
    \/ \E g \in Projects : OpenGroup(g)
    \/ \E k \in DOMAIN asks : HomeHistoryArrives(k) \/ PollArrives(k) \/ PostArrives(k)
    \/ HomeOpens \/ HomeMessage \/ HomeCloses \/ PollFires \/ PagePost \/ HomeShowFeed

=============================================================================
