------------------------------- MODULE Bridge -------------------------------
(***************************************************************************)
(* One bridge connection (bridge/connection.mjs): a local file that an     *)
(* agent appends lines to and that the bridge appends the group's messages *)
(* to, and the offset up to which the file has been sent.                  *)
(*                                                                         *)
(* A Connection object lives until it is removed, dies of a 401 or goes    *)
(* with its process; the next one for the same file is a new object, and   *)
(* what the old one was awaiting goes on.  Objects are numbered in the     *)
(* order they are created.  The file is append-only, as README.md asks of  *)
(* agents.                                                                 *)
(***************************************************************************)
EXTENDS Integers, Sequences, FiniteSets

CONSTANTS
    Texts,      \* what can be said
    Wide,       \* texts with a character of two bytes
    History,    \* what may be in the file at first
    MaxConns,   \* bound: connection objects created
    MaxEvents,  \* bound: lines, messages of others, faults and (twice) restarts
    None

ASSUME TextsAssumption ==
    /\ Wide \subseteq Texts /\ None \notin Texts \cup Nat
    /\ History \subseteq Texts /\ History # {}
    /\ MaxConns \in Nat \ {0} /\ MaxEvents \in Nat

VARIABLES
    file,       \* the characters of the file
    writing,    \* the agent has begun a line and not ended it
    saved,      \* the .buildhall-offset file, None while there is none
    log,        \* the group's messages; a message's id is its position
    conn,       \* conn[c]: a Connection object
    cur,        \* the newest object
    left,       \* what remains of MaxEvents
    skipped     \* history: see Launch

vars == <<file, writing, saved, log, conn, cur, left, skipped>>

Conns == 1 .. MaxConns
Other == 0                  \* the author of a message that no object posted

(* A line is one character of text, of one byte or two, and a newline.  Two  *)
(* lines on top of each other, or the end of one, are not valid JSON.        *)
Char(kind, t) == [kind |-> kind, text |-> t]
NL == Char("newline", None)

\* The bytes of the characters from + 1 .. to.
Bytes(from, to) == to - from + Cardinality({i \in from+1 .. to : file[i].text \in Wide})
Size     == Bytes(0, Len(file))
LastNL   == CHOOSE n \in DOMAIN file : file[n] = NL /\ \A i \in n+1 .. Len(file) : file[i] # NL

\* A whole line at position k of what is left after offset from.
LineAt(k, from) ==
    /\ k > from /\ k < Len(file)
    /\ file[k] # NL /\ file[k + 1] = NL
    /\ k = from + 1 \/ file[k - 1] = NL

(* stop: this.stopped, and by which method.  pc: what start() is at.         *)
(* batch: the lines this pass has yet to see answered, by the position of    *)
(* their first character, the first of them being posted; upto: the offset   *)
(* after the pass; req: where that request is.                               *)
ConnRecord ==
    [stop : {"no", "stopped", "dead"},
     pc : {"connecting", "live", "off"},
     offset : Nat, batch : SUBSET Nat, upto : Nat,
     req : {"none", "sent", "landed"}, id : Nat,
     marks : SUBSET Texts, posted : SUBSET Nat, queue : Seq(Nat)]

Gone == [stop |-> "stopped", pc |-> "off", offset |-> 0, batch |-> {},
         upto |-> 0, req |-> "none", id |-> 0, marks |-> {}, posted |-> {},
         queue |-> <<>>]

\* The line that is being posted.
Current(cn) == CHOOSE k \in cn.batch : \A l \in cn.batch : k <= l

Becomes(c, cn) == conn' = [conn EXCEPT ![c] = cn]

\* Mutant: without an offset file the whole file is sent.
ReadOffset_FromTheTop == IF saved # None THEN saved ELSE 0

ReadOffset == IF saved # None THEN saved ELSE Size

Sent(k) == \E m \in DOMAIN log : log[m].via # Other /\ log[m].line = k
AllSent ==
    \A k \in DOMAIN file : LineAt(k, 0) /\ file[k].kind = "agent" => Sent(k)

\* addConnection: the constructor and start() up to its first await.
New(c) == conn' = [conn EXCEPT ![c] = [Gone EXCEPT !.stop = "no", !.pc = "connecting",
                                                 !.offset = ReadOffset]]

Init ==
    /\ file \in {<<Char("old", t), NL>> : t \in History}
    /\ writing = FALSE /\ saved = None
    /\ log = <<>>
    /\ conn = [c \in Conns |->
                 IF c = 1 THEN [Gone EXCEPT !.stop = "no", !.pc = "connecting",
                                            !.offset = ReadOffset]
                 ELSE Gone]
    /\ cur = 1
    /\ left = MaxEvents
    /\ skipped = FALSE

-----------------------------------------------------------------------------
(* The agent, the people in the group.                                       *)
Spend(n) == left >= n /\ left' = left - n

\* A write may be seen before its newline is there.
AgentBegins(t) ==
    /\ ~writing
    /\ Spend(1)
    /\ file' = Append(file, Char("agent", t))
    /\ writing' = TRUE
    /\ UNCHANGED <<saved, log, conn, cur, skipped>>

AgentEnds ==
    /\ writing
    /\ file' = Append(file, NL)
    /\ writing' = FALSE
    /\ UNCHANGED <<saved, log, conn, cur, left, skipped>>

\* A new message is broadcast to the open sockets, the poster's included.
Broadcast(m, cs) ==
    /\ log' = Append(log, m)
    /\ conn' = [c \in Conns |-> IF cs[c].pc = "live"
                                THEN [cs[c] EXCEPT !.queue = Append(@, Len(log'))]
                                ELSE cs[c]]

OtherPosts(t) ==
    /\ Spend(1)
    /\ Broadcast([via |-> Other, line |-> 0, text |-> t, answer |-> "ok"], conn)
    /\ UNCHANGED <<file, writing, saved, cur, skipped>>

-----------------------------------------------------------------------------
(* File to group: drain.                                                     *)
\* Mutant: the tag of the bridge's own lines is not looked at.
ToSend_TagIgnored(from) == {k \in DOMAIN file : LineAt(k, from)}

\* What JSON.parse and the tag leave of the lines after an offset.
ToSend(from) == {k \in DOMAIN file : LineAt(k, from) /\ file[k].kind # "group"}

\* Mutant: the text is marked once the answer is there.
Post_Unmarked(cn) ==
    [cn EXCEPT !.req = "sent"]

\* markSent and fetch for the first line of the batch.
Post(cn) ==
    [cn EXCEPT !.req = "sent", !.marks = @ \cup {file[Current(cn)].text}]

\* Mutant: the finished request is not forgotten.
EndPass_StaysPosting(c, cn, upto) ==
    /\ Becomes(c, [cn EXCEPT !.batch = {}, !.upto = 0,
                             !.req = "done", !.id = 0, !.offset = upto])
    /\ saved' \in {saved, upto}

\* The end of a pass; saveOffset is best effort.
EndPass(c, cn, upto) ==
    /\ Becomes(c, [cn EXCEPT !.batch = {}, !.upto = 0,
                             !.req = "none", !.id = 0, !.offset = upto])
    /\ saved' \in {saved, upto}

\* Mutant: the newline that split() took away is counted again.
Consumed_NewlineTwice(from) == from + Bytes(from, LastNL) + 1

\* The file is sliced by characters, the offset counted in bytes.
Consumed(from) == from + Bytes(from, LastNL)

\* Up to the first await: the file is read once.
Pass(c) ==
    LET cn   == conn[c]
        from == IF Size < cn.offset THEN 0 ELSE cn.offset
        cnB  == [cn EXCEPT !.offset = from, !.batch = ToSend(from), !.upto = Consumed(from)]
    IN
    /\ cn.stop = "no" /\ cn.batch = {}
    /\ Size # from
    /\ LastNL > from
    /\ IF cnB.batch = {} THEN EndPass(c, cn, cnB.upto)
       ELSE /\ conn' = [conn EXCEPT ![c] = Post(cnB)]
            /\ UNCHANGED saved
    /\ UNCHANGED <<file, writing, log, cur, left, skipped>>

\* The server stores and broadcasts the message.
Land(c) ==
    LET k == Current(conn[c]) IN
    /\ conn[c].req = "sent"
    /\ Broadcast([via |-> c, line |-> k, text |-> file[k].text, answer |-> "pending"],
                 [conn EXCEPT ![c].req = "landed", ![c].id = Len(log) + 1])
    /\ UNCHANGED <<file, writing, saved, cur, left, skipped>>

Answered(cn) == [cn EXCEPT !.posted = @ \cup {cn.id}]

\* The loop goes on without looking at stopped.
Answer(c) ==
    LET cn   == Answered(conn[c])
        rest == cn.batch \ {Current(cn)} IN
    /\ cn.req = "landed"
    /\ log' = [log EXCEPT ![cn.id].answer = "ok"]
    /\ IF rest = {} THEN EndPass(c, cn, cn.upto)
       ELSE /\ conn' = [conn EXCEPT ![c] = Post([cn EXCEPT !.batch = rest, !.id = 0])]
            /\ UNCHANGED saved
    /\ UNCHANGED <<file, writing, cur, left, skipped>>

\* The request never got there, or its answer never got back.
Lose(c) == log' = IF conn[c].req = "landed"
                  THEN [log EXCEPT ![conn[c].id].answer = "lost"] ELSE log

Unmark(cn) == [cn EXCEPT !.marks = @ \ {file[Current(cn)].text},
                         !.batch = {}, !.upto = 0, !.req = "none", !.id = 0]

\* Mutant: a line that fails is passed over.
PostFails_PassedOver(c) ==
    /\ conn[c].req # "none"
    /\ Spend(1)
    /\ Lose(c)
    /\ Becomes(c, [Unmark(conn[c]) EXCEPT !.offset = conn[c].upto])
    /\ UNCHANGED <<file, writing, saved, cur, skipped>>

\* Mutant: the pass goes on with the next line.
PostFails_GoesOn(c) ==
    LET cn == Unmark(conn[c])
        rest == conn[c].batch \ {Current(conn[c])} IN
    /\ conn[c].req # "none"
    /\ Spend(1)
    /\ Lose(c)
    /\ Becomes(c, IF rest = {} THEN cn
                  ELSE Post([cn EXCEPT !.batch = rest, !.upto = cn.offset]))
    /\ UNCHANGED <<file, writing, saved, cur, skipped>>

\* The whole chunk is read again by the next pass.
PostFails(c) ==
    /\ conn[c].req # "none"
    /\ Spend(1)
    /\ Lose(c)
    /\ Becomes(c, Unmark(conn[c]))
    /\ UNCHANGED <<file, writing, saved, cur, skipped>>

(* cleanup: timers, watcher and the socket this.socket names are gone.  What *)
(* is awaited is not: the requests of connectOnce (while connecting, an      *)
(* object may be waiting for one, or for a timer or socket that is gone), a  *)
(* drain.                                                                    *)
Stopped(cn, how) ==
    {[cn EXCEPT !.stop = how, !.queue = <<>>, !.pc = pc] :
        pc \in {"off"} \cup ({cn.pc} \cap {"connecting"})}

\* 401: the line is not stored.
Refused(c) ==
    /\ conn[c].req = "sent"
    /\ Spend(1)
    /\ \E cn \in Stopped(Unmark(conn[c]), "dead") : Becomes(c, cn)
    /\ UNCHANGED <<file, writing, saved, log, cur, skipped>>

-----------------------------------------------------------------------------
(* Group to file.                                                            *)
Suppressed(c, m) == m \in conn[c].posted \/ log[m].text \in conn[c].marks

\* wasSentByUs deletes a mark it finds older than SENT_TTL_MS.  Assumed: a
\* request is answered within that time.
Expired(c, m) ==
    /\ m \notin conn[c].posted /\ log[m].text \in conn[c].marks
    /\ conn[c].req # "none" => file[Current(conn[c])].text # log[m].text

Written(c, m) ==
    [conn[c] EXCEPT !.queue = Tail(@), !.marks = @ \ {log[m].text}]

\* The message handler, appendIncoming.  It does not look at stopped.
Deliver(c) ==
    LET m == Head(conn[c].queue) IN
    /\ conn[c].pc = "live" /\ conn[c].queue # <<>>
    /\ \/ /\ Suppressed(c, m)
          /\ conn' = [conn EXCEPT ![c].queue = Tail(@)]
          /\ UNCHANGED file
       \/ /\ Suppressed(c, m) => Expired(c, m)
          /\ conn' = [conn EXCEPT ![c] = Written(c, m)]
          /\ file' = file \o <<Char("group", log[m].text), NL>>
    /\ UNCHANGED <<writing, saved, log, cur, left, skipped>>

-----------------------------------------------------------------------------
(* The socket.                                                               *)
Goes(c, from, to) ==
    /\ conn[c].pc = from
    /\ Becomes(c, [conn[c] EXCEPT !.pc = to, !.queue = <<>>])
    /\ UNCHANGED <<file, writing, saved, log, cur, left, skipped>>

\* start() and connectOnce, whose awaits do not look at stopped afterwards; a
\* token that was rejected is rejected again.
Connect(c) == conn[c].stop # "dead" /\ Goes(c, "connecting", "live")

\* scheduleReconnect, whose timer calls start() again.
Retry(c) == IF conn[c].stop = "no" THEN "connecting" ELSE "off"
ConnectFails(c) == Goes(c, "connecting", Retry(c))
Disconnect(c)   == Goes(c, "live", Retry(c))

\* A 401 for GET /api/auth/me, or close code 4401.
Rejected(c) ==
    /\ conn[c].pc \in {"connecting", "live"} /\ conn[c].stop = "no"
    /\ Spend(1)
    /\ Becomes(c, [conn[c] EXCEPT !.stop = "dead", !.pc = "off", !.queue = <<>>])
    /\ UNCHANGED <<file, writing, saved, log, cur, skipped>>

-----------------------------------------------------------------------------
(* The bridge process.                                                       *)
\* The panel removes a connection, or restarts it (then Launch is next).
RemoveConnection ==
    /\ cur < MaxConns
    /\ conn[cur].stop = "no"
    /\ Spend(2)
    /\ \E cn \in Stopped(conn[cur], "stopped") : Becomes(cur, cn)
    /\ UNCHANGED <<file, writing, saved, log, cur, skipped>>

Crash ==
    /\ cur < MaxConns
    /\ Spend(2)
    /\ conn' = [c \in Conns |-> Gone]
    /\ UNCHANGED <<file, writing, saved, log, cur, skipped>>

\* loadConfig, or the panel.  skipped: there was no offset to resume from.
Launch ==
    /\ cur < MaxConns
    /\ conn[cur].stop # "no"
    /\ cur' = cur + 1
    /\ New(cur + 1)
    /\ skipped' = (skipped \/ (saved = None /\ (writing \/ ~AllSent)))
    /\ UNCHANGED <<file, writing, saved, log, left>>

ConnStep(c) ==
    \/ Pass(c) \/ Land(c) \/ Answer(c) \/ PostFails(c) \/ Refused(c)
    \/ Deliver(c)
    \/ Connect(c) \/ ConnectFails(c) \/ Disconnect(c) \/ Rejected(c)

Next ==
    \/ \E t \in Texts : AgentBegins(t) \/ OtherPosts(t)
    \/ AgentEnds
    \/ \E c \in Conns : ConnStep(c)
    \/ RemoveConnection \/ Crash \/ Launch

Spec == Init /\ [][Next]_vars

\* The poll timer fires; faults are bounded, so a request is answered in the end.
FairSpec ==
    /\ Spec
    /\ \A c \in Conns : WF_vars(Pass(c)) /\ WF_vars(Land(c)) /\ WF_vars(Answer(c))

-----------------------------------------------------------------------------
(* Properties.                                                               *)
\* The file, the log and the objects hold what the code puts there.
TypeOK ==
    /\ file \in Seq([kind : {"old", "agent", "group", "newline"}, text : Texts \cup {None}])
    /\ writing \in BOOLEAN
    /\ saved \in Nat \cup {None}
    /\ log \in Seq([via : Conns \cup {Other}, line : Nat, text : Texts,
                    answer : {"pending", "ok", "lost"}])
    /\ conn \in [Conns -> ConnRecord]
    /\ cur \in Conns
    /\ left \in 0 .. MaxEvents
    /\ skipped \in BOOLEAN

\* No offset, in memory or on disk, passes the end of the file, whatever is
\* appended during a pass: a pass would take that for a truncation and send the
\* file again (bridge/connection.mjs:107-112, README.md:149-152).
OffsetWithinFile ==
    /\ saved # None => saved <= Size
    /\ \A c \in Conns : conn[c].offset <= Size /\ conn[c].upto <= Size

\* What came from the group is not posted back, through restarts, lost answers,
\* torn lines and offsets in the middle of a line (bridge/connection.mjs:124).
GroupLinesNotPostedBack ==
    \A m \in DOMAIN log : log[m].via # Other => file[log[m].line].kind # "group"

\* What was in the file before the first start is never sent, not even by a
\* restart before anything was saved (bridge/connection.mjs:90-92).
HistoryNotSent ==
    \A m \in DOMAIN log : log[m].via # Other => file[log[m].line].kind # "old"

\* One object posts the lines of the file in order, retries aside
\* (bridge/connection.mjs:119-140).
PostsInFileOrder ==
    \A m, n \in DOMAIN log :
        (m < n /\ log[m].via = log[n].via /\ log[n].line < log[m].line /\ log[n].via # Other) =>
            \E l \in 1 .. m : log[l].via = log[n].via /\ log[l].line = log[n].line

\* An object writes its own post to the file as if someone else had said it only
\* when the answer to the post was lost (bridge/connection.mjs:57-67, 150-151).
OwnPostsNotWritten ==
    [][\A c \in Conns :
         (Deliver(c) /\ file' # file) =>
            LET m == log[Head(conn[c].queue)] IN m.via = c => m.answer = "lost"]_vars

\* What may keep a line from the group.
HasStopped == conn[cur].stop # "no"
Disturbed == skipped \/ HasStopped \/ Size # Len(file)

\* Every line reaches the group, through failed requests, disconnections and
\* restarts, unless its characters and bytes differ in number, the bridge was
\* restarted before it had saved an offset, or the connection stays stopped
\* (bridge/connection.mjs:101-146).
LinesReachTheGroup == ~AllSent ~> (AllSent \/ Disturbed)

\* "To SEND, append one line of JSON" (README.md:125), whatever its characters.
EveryLineSent == ~AllSent ~> (AllSent \/ HasStopped)
=============================================================================
