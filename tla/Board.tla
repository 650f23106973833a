------------------------------- MODULE Board -------------------------------
(***************************************************************************)
(* The messages of the projects (the table messages of src/db.js) and the  *)
(* posts on their way to it.  A message's id is drawn when its INSERT      *)
(* runs, its row is seen once that commits, and its handler broadcasts it  *)
(* once the answer is back: three moments, each in an order of its own.    *)
(* Whoever reads the board extends this module, says what it does with a   *)
(* broadcast and bounds the ids drawn.                                     *)
(***************************************************************************)
EXTENDS Integers, Sequences, FiniteSets

CONSTANTS
    Projects,
    Authors,        \* who posts, as far as a reader tells them apart
    None

ASSUME BoardAssumption == None \notin Projects

VARIABLE messages   \* messages[i]: the message with id i, and its post

(* stage: the INSERT has drawn the id (sent) and is committed (stored) or    *)
(* rolled back (lost); its handler has broadcast it (told) or has died of a  *)
(* restart in between (kept).  calls: the text names the agent that reads.   *)
Stages == {"sent", "stored", "told", "kept", "lost"}
Messages ==
    [group : Projects, by : Authors, calls : BOOLEAN, stage : Stages]

Visible(g) == {i \in DOMAIN messages : messages[i].group = g
                                     /\ messages[i].stage \in {"stored", "told", "kept"}}
Told(g)    == {i \in Visible(g) : messages[i].stage # "stored"}

\* ORDER BY id LIMIT n.
Oldest(S, n) == {i \in S : Cardinality({j \in S : j < i}) < n}

\* Mutant: the page is cut from the newest end.
ListMessages_Newest(g, after, limit) ==
    {i \in Visible(g) : i > after
                        /\ Cardinality({j \in Visible(g) : j > i}) < limit}

\* listMessages with a cursor: the oldest limit messages behind it.
ListMessages(g, after, limit) == Oldest({i \in Visible(g) : i > after}, limit)

\* The last of a page, 0 before the first message.
LastOf(S) == CHOOSE i \in S \cup {0} : \A j \in S : j <= i

BoardInit == messages = <<>>

Stage(i, s) == messages' = [messages EXCEPT ![i].stage = s]

\* The INSERT draws the next id.
Insert(g, by, calls) ==
    messages' = Append(messages, [group |-> g, by |-> by, calls |-> calls, stage |-> "sent"])

Commit(i) == messages[i].stage = "sent" /\ Stage(i, "stored")

\* A failing attachment, or any query error.
Rollback(i) == messages[i].stage = "sent" /\ Stage(i, "lost")

\* broadcast; what it does to the sockets is the reader's.
Tell(i) == messages[i].stage = "stored" /\ Stage(i, "told")

\* The server goes and comes back: posts under way are lost, or stay untold.
Restart ==
    messages' = [i \in DOMAIN messages |->
        [messages[i] EXCEPT !.stage = CASE @ = "sent" -> "lost"
                                        [] @ = "stored" -> "kept"
                                        [] OTHER -> @]]

(* Seen after a later id of its project: a reader whose cursor is an id may  *)
(* pass such a message over.                                                 *)
Overtaken(i, seen) == \E j \in seen : j > i

BoardTypeOK == messages \in Seq(Messages)
============================================================================
