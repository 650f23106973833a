---------------------------- MODULE ReadersProofs ----------------------------
(***************************************************************************)
(* Proofs about the readers of the board, each under its own specification: *)
(* the watcher, the moderation scanner, the responder and the agents'       *)
(* tools.  MCReaders is only where their modules meet; a proof about one of *)
(* them uses nothing of the others.                                         *)
(***************************************************************************)
EXTENDS MCReaders, TLAPS, FiniteSetTheorems, SequenceTheorems, WellFoundedInduction

-----------------------------------------------------------------------------
(* Sets of ids: the least, the last.                                         *)

LEMMA Least ==
    ASSUME NEW S \in SUBSET Nat, S # {}
    PROVE  \E n \in S : \A m \in S : n <= m
<1> DEFINE T == {0 .. n : n \in S}
<1>1. T \subseteq FiniteSubsetsOf(Nat)
  <2>1. \A n \in S : IsFiniteSet(0 .. n) /\ (0 .. n) \subseteq Nat
    BY FS_Interval
  <2>2. QED
    BY <2>1 DEF FiniteSubsetsOf
<1>2. T # {}
  OBVIOUS
<1>3. \E x \in T : \A y \in T : ~ (<<y, x>> \in StrictSubsetOrdering(Nat))
  <2> HIDE DEF T
  <2>1. QED
    BY <1>1, <1>2, WFMin, FS_StrictSubsetOrderingWellFounded
<1>4. PICK n \in S : \A m \in S : ~ (<<0 .. m, 0 .. n>> \in StrictSubsetOrdering(Nat))
  BY <1>3
<1>5. ASSUME NEW m \in S, m < n PROVE FALSE
  <2>1. <<0 .. m, 0 .. n>> \in StrictSubsetOrdering(Nat)
    <3>1. (0 .. m) \in SUBSET Nat /\ (0 .. n) \in SUBSET Nat /\ (0 .. m) \subseteq (0 .. n)
          /\ 0 .. m # 0 .. n
      BY <1>5
    <3>2. QED
      BY <3>1 DEF StrictSubsetOrdering
  <2>2. QED
    BY <1>4, <2>1
<1>6. QED
  BY <1>5

LEMMA Greatest ==
    ASSUME NEW n \in Nat, NEW S \in SUBSET (0 .. n), S # {}
    PROVE  \E i \in S : \A j \in S : j <= i
<1> DEFINE R == {n - i : i \in S}
<1>1. R \in SUBSET Nat /\ R # {}
  <2>1. \A i \in S : i \in 0 .. n
    OBVIOUS
  <2>2. \A i \in S : n - i \in Nat
    BY <2>1
  <2>3. QED
    BY <2>2
<1>2. PICK r \in R : \A q \in R : r <= q
  <2> HIDE DEF R
  <2>1. QED
    BY <1>1, Least
<1>3. PICK i \in S : r = n - i
  OBVIOUS
<1>4. \A j \in S : n - j \in R
  OBVIOUS
<1>5. \A j \in S : j \in Int /\ i \in Int
  <2>1. \A j \in S : j \in 0 .. n
    OBVIOUS
  <2>2. QED
    BY <2>1
<1>6. \A j \in S : j <= i
  BY <1>2, <1>3, <1>4, <1>5
<1>7. QED
  BY <1>6

LEMMA LastIs ==
    ASSUME NEW n \in Nat, NEW S \in SUBSET (1 .. n)
    PROVE  /\ LastOf(S) \in Nat /\ LastOf(S) \in S \cup {0}
           /\ \A j \in S : j <= LastOf(S)
           /\ S # {} => LastOf(S) \in S
<1>1. \E i \in S \cup {0} : \A j \in S : j <= i
  <2>1. CASE S = {}
    BY <2>1
  <2>2. CASE S # {}
    <3>1. S \in SUBSET (0 .. n)
      OBVIOUS
    <3>2. QED
      BY <2>2, <3>1, Greatest
  <2>3. QED
    BY <2>1, <2>2
<1>2. LastOf(S) \in S \cup {0} /\ \A j \in S : j <= LastOf(S)
  BY <1>1 DEF LastOf
<1>3. \A j \in S : j \in Nat /\ j >= 1
  <2>1. \A j \in S : j \in 1 .. n
    OBVIOUS
  <2>2. QED
    BY <2>1
<1>4. S # {} => LastOf(S) \in S
  <2>1. ASSUME S # {}, LastOf(S) = 0 PROVE FALSE
    <3>1. PICK j : j \in S
      BY <2>1
    <3>2. j \in Nat /\ j >= 1
      BY <1>3, <3>1
    <3>3. j <= 0
      BY <1>2, <2>1, <3>1
    <3>4. QED
      BY <3>2, <3>3
  <2>2. QED
    BY <1>2, <2>1
<1>5. LastOf(S) \in Nat
  <2>1. CASE LastOf(S) \in S
    BY <1>3, <2>1
  <2>2. CASE LastOf(S) = 0
    BY <2>2
  <2>3. QED
    BY <1>2, <2>1, <2>2
<1>6. QED
  BY <1>2, <1>4, <1>5

-----------------------------------------------------------------------------
(* The board.                                                                *)

LEMMA Listed ==
    ASSUME BoardTypeOK
    PROVE  /\ Len(messages) \in Nat /\ DOMAIN messages = 1 .. Len(messages)
           /\ \A i \in DOMAIN messages : messages[i] \in Messages
           /\ IsFiniteSet(DOMAIN messages)
<1>1. Len(messages) \in Nat /\ DOMAIN messages = 1 .. Len(messages)
      /\ \A i \in DOMAIN messages : messages[i] \in Messages
  BY DEF BoardTypeOK
<1>2. IsFiniteSet(1 .. Len(messages))
  BY <1>1, FS_Interval
<1>3. QED
  BY <1>1, <1>2

\* What every message keeps in a step that is no restart.
Kept(i) ==
    /\ messages'[i].group = messages[i].group
    /\ messages'[i].by = messages[i].by
    /\ messages'[i].calls = messages[i].calls

LEMMA Insertion ==
    ASSUME BoardTypeOK, NEW g \in Projects, NEW by \in Authors, NEW calls \in BOOLEAN,
           Insert(g, by, calls)
    PROVE  /\ BoardTypeOK' /\ Len(messages') = Len(messages) + 1
           /\ DOMAIN messages' = DOMAIN messages \cup {Len(messages) + 1}
           /\ \A i \in DOMAIN messages : messages'[i] = messages[i]
           /\ messages'[Len(messages) + 1] =
                [group |-> g, by |-> by, calls |-> calls, stage |-> "sent"]
<1> DEFINE m == [group |-> g, by |-> by, calls |-> calls, stage |-> "sent"]
<1>1. m \in Messages
  BY DEF Messages, Stages
<1>2. messages \in Seq(Messages) /\ messages' = Append(messages, m)
  BY DEF BoardTypeOK, Insert
<1> HIDE DEF m
<1>3. /\ messages' \in Seq(Messages) /\ Len(messages') = Len(messages) + 1
      /\ \A i \in 1 .. Len(messages) : messages'[i] = messages[i]
      /\ messages'[Len(messages) + 1] = m
  BY <1>1, <1>2
<1>4. DOMAIN messages' = 1 .. Len(messages) + 1 /\ DOMAIN messages = 1 .. Len(messages)
      /\ Len(messages) \in Nat
  BY <1>2, <1>3
<1>5. DOMAIN messages' = DOMAIN messages \cup {Len(messages) + 1}
  BY <1>4
<1>6. BoardTypeOK'
  BY <1>3 DEF BoardTypeOK
<1>7. \A i \in DOMAIN messages : messages'[i] = messages[i]
  BY <1>3, <1>4
<1>8. QED
  BY <1>3, <1>5, <1>6, <1>7 DEF m

LEMMA Staged ==
    ASSUME BoardTypeOK, NEW i \in DOMAIN messages, NEW s \in Stages, Stage(i, s)
    PROVE  /\ BoardTypeOK' /\ Len(messages') = Len(messages)
           /\ DOMAIN messages' = DOMAIN messages
           /\ \A j \in DOMAIN messages : Kept(j)
           /\ \A j \in DOMAIN messages : messages'[j].stage = IF j = i THEN s ELSE messages[j].stage
<1>1. messages \in Seq(Messages) /\ messages' = [messages EXCEPT ![i].stage = s]
  BY DEF BoardTypeOK, Stage
<1>2. Len(messages) \in Nat /\ DOMAIN messages = 1 .. Len(messages)
      /\ \A j \in DOMAIN messages : messages[j] \in Messages
  BY <1>1
<1>3. DOMAIN messages' = DOMAIN messages
      /\ \A j \in DOMAIN messages : messages'[j] = IF j = i THEN [messages[j] EXCEPT !.stage = s] ELSE messages[j]
  BY <1>1
<1>4. \A j \in DOMAIN messages : messages'[j] \in Messages
  BY <1>2, <1>3 DEF Messages
<1>5. messages' \in Seq(Messages) /\ Len(messages') = Len(messages)
  BY <1>1, <1>2, <1>3, <1>4
<1>6. QED
  BY <1>2, <1>3, <1>5 DEF BoardTypeOK, Kept, Messages

LEMMA Restarted ==
    ASSUME BoardTypeOK, Restart
    PROVE  /\ BoardTypeOK' /\ Len(messages') = Len(messages)
           /\ DOMAIN messages' = DOMAIN messages
           /\ \A j \in DOMAIN messages : Kept(j)
           /\ \A j \in DOMAIN messages :
                messages'[j].stage = CASE messages[j].stage = "sent" -> "lost"
                                       [] messages[j].stage = "stored" -> "kept"
                                       [] OTHER -> messages[j].stage
<1> DEFINE st(m) == CASE m.stage = "sent" -> "lost" [] m.stage = "stored" -> "kept" [] OTHER -> m.stage
<1>1. messages \in Seq(Messages)
      /\ messages' = [i \in DOMAIN messages |-> [messages[i] EXCEPT !.stage = st(messages[i])]]
  BY DEF BoardTypeOK, Restart
<1>2. Len(messages) \in Nat /\ DOMAIN messages = 1 .. Len(messages)
      /\ \A j \in DOMAIN messages : messages[j] \in Messages
  BY <1>1
<1>3. \A j \in DOMAIN messages : st(messages[j]) \in Stages
  BY <1>2 DEF Messages, Stages
<1>4. \A j \in DOMAIN messages : messages'[j] = [messages[j] EXCEPT !.stage = st(messages[j])]
  BY <1>1
<1>5. \A j \in DOMAIN messages : messages'[j] \in Messages
  BY <1>2, <1>3, <1>4 DEF Messages
<1>6. messages' \in Seq(Messages) /\ Len(messages') = Len(messages)
  BY <1>1, <1>2, <1>5
<1>7. QED
  BY <1>1, <1>2, <1>4, <1>6 DEF BoardTypeOK, Kept, Messages

\* A page of messages.
LEMMA Paged ==
    ASSUME BoardTypeOK, NEW g, NEW after, NEW limit
    PROVE  /\ ListMessages(g, after, limit) \subseteq {i \in Visible(g) : i > after}
           /\ Visible(g) \subseteq DOMAIN messages
           /\ \A i \in Visible(g) : messages[i].group = g
BY DEF ListMessages, Oldest, Visible

-----------------------------------------------------------------------------
(***************************************************************************)
(* The watcher.  That it wakes nobody twice needs that whatever it has     *)
(* read of a project lies at or below lastSeen (Passed), and that its      *)
(* answers to agents are bounded, that each reset of the chain is paid for *)
(* by a human's message not read before.                                   *)
(***************************************************************************)

\* What has been read is not above lastSeen.
Passed ==
    \A i \in read :
        /\ messages[i].group \in Watched /\ i \in Visible(messages[i].group)
        /\ lastSeen[messages[i].group] \in Nat /\ i <= lastSeen[messages[i].group]

\* The messages in hand are of one project, and one of them calls the agent.
InHand ==
    doing \in {"asking", "running"} =>
        \E g \in Watched :
            /\ \A i \in batch : messages[i].group = g
            /\ doing = "asking" => \E i \in batch : Triggers(i, MaxChain - chain[g])

HumansRead(g) == {i \in read : messages[i].group = g /\ By(i) = "human"}

\* Each answer to agents is one of the chain, or of a chain that ended with a
\* human's message.
Paid == \A g \in Watched :
            answers[g] <= MaxChain * Cardinality(HumansRead(g)) + chain[g]

WatcherInv == BoardTypeOK /\ WatcherTypeOK /\ Passed /\ InHand /\ Paid /\ WokenOnce

-----------------------------------------------------------------------------
LEMMA HumansReadFinite ==
    ASSUME BoardTypeOK, WatcherTypeOK, NEW g
    PROVE  HumansRead(g) \subseteq DOMAIN messages /\ Cardinality(HumansRead(g)) \in Nat
<1>1. HumansRead(g) \subseteq DOMAIN messages /\ IsFiniteSet(DOMAIN messages)
  BY Listed DEF HumansRead, WatcherTypeOK
<1>2. QED
  BY <1>1, FS_Subset, FS_CardinalityType

LEMMA HumansReadFiniteNext ==
    ASSUME BoardTypeOK, messages' = messages, WatcherTypeOK', NEW g
    PROVE  HumansRead(g)' \subseteq DOMAIN messages /\ Cardinality(HumansRead(g)') \in Nat
<1>1. HumansRead(g)' \subseteq DOMAIN messages /\ IsFiniteSet(DOMAIN messages)
  BY Listed DEF HumansRead, WatcherTypeOK
<1>2. QED
  BY <1>1, FS_Subset, FS_CardinalityType

\* The project of the messages in hand.
LEMMA ProjectOf ==
    ASSUME NEW g \in Watched, batch # {}, \A i \in batch : messages[i].group = g
    PROVE  Project = g
<1>1. \A h \in Watched : (\A i \in batch : messages[i].group = h) <=> h = g
  OBVIOUS
<1>2. QED
  BY <1>1 DEF Project

\* A step that leaves the messages, what was read and the counts alone.
LEMMA NothingRead ==
    ASSUME WatcherInv, WatcherTypeOK', BoardTypeOK',
           DOMAIN messages \subseteq DOMAIN messages',
           \A i \in DOMAIN messages : Kept(i),
           \A g \in Projects : Visible(g) \subseteq Visible(g)',
           read' = read, lastSeen' = lastSeen, chain' = chain, answers' = answers, again' = again,
           \/ doing' \notin {"asking", "running"}
           \/ doing' = doing /\ batch' = batch
    PROVE  WatcherInv'
<1>1. read \subseteq DOMAIN messages /\ batch \subseteq DOMAIN messages
  BY DEF WatcherInv, WatcherTypeOK
<1>2. Passed'
  <2>1. ASSUME NEW i \in read
        PROVE  \E g \in Watched : /\ messages'[i].group = g /\ i \in Visible(g)'
                                   /\ lastSeen'[g] \in Nat /\ i <= lastSeen'[g]
    <3>1. PICK g \in Watched : g = messages[i].group
      BY DEF WatcherInv, Passed
    <3>2. /\ i \in Visible(g) /\ lastSeen[g] \in Nat /\ i <= lastSeen[g]
      BY <3>1 DEF WatcherInv, Passed
    <3>3. Visible(g) \subseteq Visible(g)'
      BY WatcherAssumption
    <3>4. messages'[i].group = g
      BY <1>1, <3>1 DEF Kept
    <3>5. QED
      BY <3>2, <3>3, <3>4
  <2>2. \A i \in read' : \E g \in Watched :
            /\ messages'[i].group = g /\ i \in Visible(g)'
            /\ lastSeen'[g] \in Nat /\ i <= lastSeen'[g]
    BY <2>1
  <2>3. QED
    BY <2>2 DEF Passed, Visible
<1>3. InHand'
  <2>1. CASE doing' \notin {"asking", "running"}
    BY <2>1 DEF InHand
  <2>2. CASE doing' = doing /\ batch' = batch /\ doing \in {"asking", "running"}
    <3>1. PICK g \in Watched : /\ \A i \in batch : messages[i].group = g
                               /\ doing = "asking" => \E i \in batch : Triggers(i, MaxChain - chain[g])
      BY <2>2 DEF WatcherInv, InHand
    <3>2. \A i \in batch : messages'[i].group = g
      BY <1>1, <3>1 DEF Kept
    <3>3. \A i \in batch : Triggers(i, MaxChain - chain[g]) => Triggers(i, MaxChain - chain[g])'
      BY <1>1 DEF Kept, Triggers, Budget, By
    <3>4. QED
      BY <2>2, <3>1, <3>2, <3>3 DEF InHand
  <2>3. QED
    BY <2>1, <2>2
<1>4. Paid'
  <2>1. \A g : HumansRead(g)' = HumansRead(g)
    BY <1>1 DEF HumansRead, By, Kept
  <2>2. QED
    BY <2>1 DEF WatcherInv, Paid
<1>5. QED
  BY <1>2, <1>3, <1>4 DEF WatcherInv, WokenOnce

\* A process that starts.
LEMMA StartStep ==
    ASSUME WatcherInv, Setup \/ StartAgain
    PROVE  WatcherInv'
<1>1. /\ messages' = messages /\ batch' = batch /\ again' = again /\ todo' = todo
      /\ doing = "off" /\ doing' = "asleep" /\ lives < MaxLives /\ lives' = lives + 1
      /\ chain' = [g \in Watched |-> 0] /\ answers' = [g \in Watched |-> 0]
      /\ cooling' = {} /\ hour' = 0
      /\ \/ lastSeen' = [g \in Watched |-> None] /\ read' = {}
         \/ lastSeen' = lastSeen /\ read' = read
  BY DEF Setup, StartAgain, StartWatcher, Fresh
<1>2. WatcherTypeOK' /\ BoardTypeOK'
  BY <1>1, WatcherAssumption DEF WatcherInv, WatcherTypeOK, BoardTypeOK
<1>3. Passed'
  BY <1>1 DEF WatcherInv, Passed, Visible
<1>4. InHand' /\ WokenOnce'
  BY <1>1 DEF WatcherInv, InHand, WokenOnce
<1>5. Paid'
  <2>1. ASSUME NEW g \in Watched
        PROVE  answers'[g] <= MaxChain * Cardinality(HumansRead(g))' + chain'[g]
    <3>1. answers'[g] = 0 /\ chain'[g] = 0
      BY <1>1
    <3>2. Cardinality(HumansRead(g)') \in Nat
      BY <1>1, <1>2, HumansReadFiniteNext DEF WatcherInv
    <3>3. MaxChain * Cardinality(HumansRead(g)') \in Nat
      BY <3>2, WatcherAssumption
    <3>4. QED
      BY <3>1, <3>3
  <2>2. QED
    BY <2>1 DEF Paid
<1>6. QED
  BY <1>2, <1>3, <1>4, <1>5 DEF WatcherInv

\* More words of humans pay for more answers.
LEMMA MoreWords ==
    ASSUME NEW a \in Nat, NEW b \in Nat, a <= b
    PROVE  MaxChain * a <= MaxChain * b /\ MaxChain * (a + 1) = MaxChain * a + MaxChain
           /\ MaxChain * a \in Nat /\ MaxChain * b \in Nat
<1>1. MaxChain \in Nat
  BY WatcherAssumption
<1>2. QED
  BY <1>1

\* A page that is read is new.
LEMMA PageIsNew ==
    ASSUME WatcherInv, NEW g \in Watched, NEW after \in Nat,
           lastSeen[g] # None => after = lastSeen[g]
    PROVE  /\ ListMessages(g, after, WatchLimit) \cap read = {}
           /\ ListMessages(g, after, WatchLimit) \subseteq Visible(g)
           /\ ListMessages(g, after, WatchLimit) \subseteq DOMAIN messages
           /\ \A i \in ListMessages(g, after, WatchLimit) : messages[i].group = g /\ i > after
<1>1. /\ ListMessages(g, after, WatchLimit) \subseteq {i \in Visible(g) : i > after}
      /\ Visible(g) \subseteq DOMAIN messages
      /\ \A i \in Visible(g) : messages[i].group = g
  BY Paged DEF WatcherInv
<1>2. ASSUME NEW i \in ListMessages(g, after, WatchLimit), i \in read
      PROVE  FALSE
  <2>1. messages[i].group = g /\ i > after
    BY <1>1
  <2>2. lastSeen[g] \in Nat /\ i <= lastSeen[g]
    BY <1>2, <2>1 DEF WatcherInv, Passed
  <2>3. after = lastSeen[g] /\ i \in Nat
    <3>1. i \in DOMAIN messages /\ DOMAIN messages = 1 .. Len(messages) /\ Len(messages) \in Nat
      BY <1>1, Listed DEF WatcherInv
    <3>2. QED
      BY <2>2, <3>1, WatcherAssumption
  <2>4. QED
    BY <2>1, <2>2, <2>3
<1>3. QED
  BY <1>1, <1>2

LEMMA ReadStep ==
    ASSUME WatcherInv, NEW g \in Watched, Read(g)
    PROVE  WatcherInv'
<1> DEFINE first == lastSeen[g] = None
           after == IF first THEN 0 ELSE lastSeen[g]
           ids   == ListMessages(g, after, WatchLimit)
           spent == IF \E i \in ids : Heartbeat(i) THEN 0 ELSE chain[g]
           hits  == ~first /\ \E i \in ids : Triggers(i, MaxChain - spent)
<1>1. /\ doing = "reading" /\ g \in todo /\ todo' = todo \ {g}
      /\ IF ids = {} THEN lastSeen' = lastSeen ELSE lastSeen' = [lastSeen EXCEPT ![g] = LastOf(ids)]
      /\ chain' = IF first THEN chain ELSE [chain EXCEPT ![g] = spent]
      /\ IF hits THEN doing' = "asking" /\ batch' = ids ELSE doing' = doing /\ batch' = batch
      /\ read' = read \cup ids
      /\ again' = (again \/ (~first /\ ids \cap read # {}))
      /\ messages' = messages /\ cooling' = cooling /\ hour' = hour /\ lives' = lives
      /\ answers' = answers
  BY DEF Read, Remember
<1>2. after \in Nat /\ (lastSeen[g] # None => after = lastSeen[g])
  BY DEF WatcherInv, WatcherTypeOK
<1>3. /\ ids \cap read = {} /\ ids \subseteq Visible(g) /\ ids \subseteq DOMAIN messages
      /\ \A i \in ids : messages[i].group = g /\ i > after
  BY <1>2, PageIsNew
<1>4. /\ DOMAIN messages = 1 .. Len(messages) /\ Len(messages) \in Nat
      /\ IsFiniteSet(DOMAIN messages)
  BY Listed DEF WatcherInv
<1>5. /\ LastOf(ids) \in Nat /\ \A i \in ids : i <= LastOf(ids) /\ i \in Nat
      /\ ids # {} => LastOf(ids) > after
  <2>1. ids \in SUBSET (1 .. Len(messages))
    BY <1>3, <1>4
  <2>2. LastOf(ids) \in Nat /\ (\A i \in ids : i <= LastOf(ids)) /\ (ids # {} => LastOf(ids) \in ids)
    BY <1>4, <2>1, LastIs
  <2>3. \A i \in ids : i \in Nat
    BY <2>1
  <2>4. QED
    BY <1>3, <2>2, <2>3
<1>6. spent \in 0 .. MaxChain /\ spent \in Nat /\ chain[g] \in 0 .. MaxChain
  BY WatcherAssumption DEF WatcherInv, WatcherTypeOK
<1>7. hits => ids # {}
  OBVIOUS
<1> HIDE DEF hits, spent, ids
<1>8. batch = {}
  BY <1>1 DEF WatcherInv, WatcherTypeOK
<1>9. again' = FALSE
  BY <1>1, <1>3 DEF WatcherInv, WokenOnce
<1>10. WatcherTypeOK'
  <2>1. lastSeen' \in [Watched -> Nat \cup {None}]
    BY <1>1, <1>5 DEF WatcherInv, WatcherTypeOK
  <2>2. chain' \in [Watched -> 0 .. MaxChain] /\ todo' \subseteq Watched /\ read' \subseteq DOMAIN messages'
    BY <1>1, <1>3, <1>6 DEF WatcherInv, WatcherTypeOK
  <2>3. batch' \subseteq DOMAIN messages' /\ doing' \in {"off", "asleep", "reading", "asking", "running"}
        /\ (doing' \in {"asking", "running"} <=> batch' # {})
    BY <1>1, <1>3, <1>7, <1>8
  <2>4. QED
    BY <1>1, <1>9, <2>1, <2>2, <2>3 DEF WatcherInv, WatcherTypeOK
<1>11. Passed'
  <2>1. ASSUME NEW i \in read'
        PROVE  /\ messages[i].group \in Watched /\ i \in Visible(messages[i].group)
               /\ lastSeen'[messages[i].group] \in Nat /\ i <= lastSeen'[messages[i].group]
    <3>1. lastSeen \in [Watched -> Nat \cup {None}]
      BY DEF WatcherInv, WatcherTypeOK
    <3>2. CASE i \in ids
      <4>1. messages[i].group = g /\ i \in Visible(g) /\ i <= LastOf(ids) /\ lastSeen'[g] = LastOf(ids)
        BY <1>1, <1>3, <1>5, <3>1, <3>2
      <4>2. QED
        BY <1>5, <4>1
    <3>3. CASE i \in read
      <4>1. /\ messages[i].group \in Watched /\ i \in Visible(messages[i].group)
            /\ lastSeen[messages[i].group] \in Nat /\ i <= lastSeen[messages[i].group]
            /\ i \in Nat
        BY <1>4, <3>3 DEF WatcherInv, Passed, WatcherTypeOK
      <4>2. CASE messages[i].group = g /\ ids # {}
        <5>1. after = lastSeen[g] /\ lastSeen'[g] = LastOf(ids) /\ LastOf(ids) > after
          BY <1>1, <1>5, <3>1, <4>1, <4>2, WatcherAssumption
        <5>2. QED
          BY <1>2, <1>5, <4>1, <4>2, <5>1
      <4>3. CASE ~(messages[i].group = g /\ ids # {})
        <5>1. lastSeen'[messages[i].group] = lastSeen[messages[i].group]
          BY <1>1, <3>1, <4>1, <4>3
        <5>2. QED
          BY <4>1, <5>1
      <4>4. QED
        BY <4>2, <4>3
    <3>4. QED
      BY <1>1, <3>2, <3>3
  <2>2. messages' = messages /\ \A h : Visible(h)' = Visible(h)
    BY <1>1 DEF Visible
  <2>3. QED
    BY <2>1, <2>2 DEF Passed
<1>12. InHand'
  <2>1. CASE hits
    <3>1. batch' = ids /\ chain'[g] = spent
      BY <1>1, <2>1 DEF hits, WatcherInv, WatcherTypeOK
    <3>2. \E i \in ids : Triggers(i, MaxChain - spent)
      BY <2>1 DEF hits
    <3>3. \A i \in batch' : messages'[i].group = g
      BY <1>1, <1>3, <3>1
    <3>4. \E i \in batch' : Triggers(i, MaxChain - chain[g])'
      BY <1>1, <3>1, <3>2 DEF Triggers, Budget, By
    <3>5. QED
      BY <3>3, <3>4 DEF InHand
  <2>2. CASE ~hits
    BY <1>1, <2>2 DEF InHand
  <2>3. QED
    BY <2>1, <2>2
<1>13. Paid'
  <2>1. ASSUME NEW h \in Watched
        PROVE  answers[h] <= MaxChain * Cardinality(HumansRead(h)') + chain'[h]
    <3> DEFINE old == HumansRead(h)
               new == HumansRead(h)'
    <3>1. old \subseteq new
      BY <1>1 DEF HumansRead, By
    <3>2. BoardTypeOK /\ WatcherTypeOK /\ BoardTypeOK'
      BY <1>1 DEF WatcherInv, BoardTypeOK
    <3>3. /\ Cardinality(old) \in Nat /\ Cardinality(new) \in Nat
          /\ old \subseteq DOMAIN messages /\ new \subseteq DOMAIN messages
      BY <1>1, <1>10, <3>2, HumansReadFinite, HumansReadFiniteNext
    <3>4. IsFiniteSet(new) /\ IsFiniteSet(old)
      BY <1>1, <1>4, <3>3, FS_Subset
    <3>5. Cardinality(old) <= Cardinality(new)
      BY <3>1, <3>4, FS_Subset
    <3>6. answers[h] <= MaxChain * Cardinality(old) + chain[h]
      BY DEF WatcherInv, Paid
    <3>7. /\ answers[h] \in Nat /\ chain[h] \in 0 .. MaxChain /\ chain[h] \in Nat /\ MaxChain \in Nat
      BY WatcherAssumption DEF WatcherInv, WatcherTypeOK
    <3>8. CASE h = g /\ ~first /\ \E i \in ids : Heartbeat(i)
      <4>1. chain'[h] = 0
        BY <1>1, <3>8 DEF spent, WatcherInv, WatcherTypeOK
      <4>2. PICK i \in ids : Heartbeat(i)
        BY <3>8
      <4>3. i \in new /\ i \notin old
        BY <1>1, <1>3, <3>8, <4>2 DEF HumansRead, Heartbeat, By
      <4>4. Cardinality(old) + 1 <= Cardinality(new)
        <5>1. old \cup {i} \subseteq new
          BY <3>1, <4>3
        <5>2. Cardinality(old \cup {i}) = Cardinality(old) + 1
          BY <3>4, <4>3, FS_AddElement
        <5>3. Cardinality(old \cup {i}) <= Cardinality(new)
          BY <3>4, <5>1, FS_Subset
        <5>4. QED
          BY <5>2, <5>3
      <4>5. MaxChain * (Cardinality(old) + 1) <= MaxChain * Cardinality(new)
            /\ MaxChain * (Cardinality(old) + 1) = MaxChain * Cardinality(old) + MaxChain
            /\ MaxChain * Cardinality(old) \in Nat /\ MaxChain * Cardinality(new) \in Nat
        <5>1. Cardinality(old) + 1 \in Nat
          BY <3>3
        <5>2. MaxChain * (Cardinality(old) + 1) <= MaxChain * Cardinality(new)
              /\ MaxChain * Cardinality(new) \in Nat
          BY <3>3, <4>4, <5>1, MoreWords
        <5>3. /\ MaxChain * (Cardinality(old) + 1) = MaxChain * Cardinality(old) + MaxChain
              /\ MaxChain * Cardinality(old) \in Nat
          BY <3>3, <3>5, MoreWords
        <5>4. QED
          BY <5>2, <5>3
      <4>6. QED
        BY <3>6, <3>7, <4>1, <4>5
    <3>9. CASE ~(h = g /\ ~first /\ \E i \in ids : Heartbeat(i))
      <4>1. chain'[h] = chain[h]
        BY <1>1, <3>9 DEF spent, WatcherInv, WatcherTypeOK
      <4>2. MaxChain * Cardinality(old) <= MaxChain * Cardinality(new)
            /\ MaxChain * Cardinality(old) \in Nat /\ MaxChain * Cardinality(new) \in Nat
        BY <3>3, <3>5, MoreWords
      <4>3. QED
        BY <3>6, <3>7, <4>1, <4>2
    <3>10. QED
      BY <3>8, <3>9
  <2>2. QED
    BY <1>1, <2>1 DEF Paid
<1>14. QED
  BY <1>1, <1>9, <1>10, <1>11, <1>12, <1>13 DEF WatcherInv, WokenOnce, BoardTypeOK

LEMMA RunStep ==
    ASSUME WatcherInv, Run
    PROVE  WatcherInv'
<1>1. /\ doing = "asking" /\ doing' = "running" /\ hour < HourlyCap /\ hour' = hour + 1
      /\ cooling' = cooling \cup {Project}
      /\ IF ForAgents THEN /\ chain' = [chain EXCEPT ![Project] = @ + 1]
                           /\ answers' = [answers EXCEPT ![Project] = @ + 1]
         ELSE chain' = chain /\ answers' = answers
      /\ messages' = messages /\ lastSeen' = lastSeen /\ todo' = todo /\ batch' = batch
      /\ lives' = lives /\ read' = read /\ again' = again
  BY DEF Run
<1>2. batch # {}
  BY <1>1 DEF WatcherInv, WatcherTypeOK
<1>3. PICK g \in Watched : /\ \A i \in batch : messages[i].group = g
                           /\ \E i \in batch : Triggers(i, MaxChain - chain[g])
  BY <1>1 DEF WatcherInv, InHand
<1>4. Project = g
  BY <1>2, <1>3, ProjectOf
<1>5. /\ chain[g] \in 0 .. MaxChain /\ chain[g] \in Nat /\ MaxChain \in Nat /\ answers[g] \in Nat
  BY WatcherAssumption DEF WatcherInv, WatcherTypeOK
<1>6. ForAgents => chain[g] + 1 \in 0 .. MaxChain
  <2>1. SUFFICES ASSUME ForAgents PROVE chain[g] + 1 \in 0 .. MaxChain
    OBVIOUS
  <2>2. PICK i \in batch : Triggers(i, MaxChain - chain[g])
    BY <1>3
  <2>3. By(i) = "agent"
    BY <1>4, <2>1, <2>2 DEF ForAgents, Hits
  <2>4. MaxChain - chain[g] > 0
    BY <2>2, <2>3 DEF Triggers, Budget
  <2>5. QED
    BY <1>5, <2>4
<1>7. WatcherTypeOK'
  <2>1. chain' \in [Watched -> 0 .. MaxChain] /\ answers' \in [Watched -> Nat]
    BY <1>1, <1>4, <1>5, <1>6 DEF WatcherInv, WatcherTypeOK
  <2>2. hour' \in 0 .. HourlyCap /\ cooling' \subseteq Watched
    BY <1>1, <1>4, WatcherAssumption DEF WatcherInv, WatcherTypeOK
  <2>3. QED
    BY <1>1, <2>1, <2>2 DEF WatcherInv, WatcherTypeOK
<1>8. Passed'
  BY <1>1 DEF WatcherInv, Passed, Visible
<1>9. InHand'
  BY <1>1, <1>3 DEF InHand
<1>10. Paid'
  <2>1. ASSUME NEW h \in Watched
        PROVE  answers'[h] <= MaxChain * Cardinality(HumansRead(h)) + chain'[h]
    <3>1. answers[h] <= MaxChain * Cardinality(HumansRead(h)) + chain[h]
      BY DEF WatcherInv, Paid
    <3>2. \/ answers'[h] = answers[h] /\ chain'[h] = chain[h]
          \/ answers'[h] = answers[h] + 1 /\ chain'[h] = chain[h] + 1
      BY <1>1, <1>4 DEF WatcherInv, WatcherTypeOK
    <3>3. answers[h] \in Nat /\ chain[h] \in 0 .. MaxChain /\ chain[h] \in Nat
      BY WatcherAssumption DEF WatcherInv, WatcherTypeOK
    <3>4. Cardinality(HumansRead(h)) \in Nat
      BY HumansReadFinite DEF WatcherInv
    <3>5. MaxChain * Cardinality(HumansRead(h)) \in Nat
      BY <1>5, <3>4
    <3>6. QED
      BY <3>1, <3>2, <3>3, <3>5
  <2>2. \A h : HumansRead(h)' = HumansRead(h)
    BY <1>1 DEF HumansRead, By
  <2>3. QED
    BY <2>1, <2>2 DEF Paid
<1>11. QED
  BY <1>1, <1>7, <1>8, <1>9, <1>10 DEF WatcherInv, WokenOnce, BoardTypeOK

\* Messages are posted and committed.
LEMMA SaysStep ==
    ASSUME WatcherInv, NEW g \in Watched, NEW by \in {"human", "self", "agent"},
           NEW calls \in BOOLEAN, Says(g, by, calls)
    PROVE  WatcherInv'
<1>1. g \in Projects /\ by \in Authors /\ Insert(g, by, calls) /\ UNCHANGED watcherVars /\ BoardTypeOK
  BY WatcherAssumption DEF Says, WatcherInv
<1>2. /\ BoardTypeOK' /\ DOMAIN messages' = DOMAIN messages \cup {Len(messages) + 1}
      /\ \A i \in DOMAIN messages : messages'[i] = messages[i]
  BY <1>1, Insertion
<1>3. WatcherTypeOK'
  BY <1>1, <1>2 DEF watcherVars, WatcherInv, WatcherTypeOK
<1>4. \A i \in DOMAIN messages : Kept(i)
  BY <1>2 DEF Kept
<1>5. \A h \in Projects : Visible(h) \subseteq Visible(h)'
  BY <1>2 DEF Visible
<1>6. QED
  BY <1>1, <1>2, <1>3, <1>4, <1>5, NothingRead DEF watcherVars

LEMMA StoredStep ==
    ASSUME WatcherInv, NEW i \in DOMAIN messages, Stored(i)
    PROVE  WatcherInv'
<1>1. Stage(i, "stored") /\ "stored" \in Stages /\ UNCHANGED watcherVars /\ BoardTypeOK
  BY DEF Stored, Commit, WatcherInv, Stages
<1>2. /\ BoardTypeOK' /\ DOMAIN messages' = DOMAIN messages
      /\ \A j \in DOMAIN messages : Kept(j)
      /\ \A j \in DOMAIN messages : messages'[j].stage = IF j = i THEN "stored" ELSE messages[j].stage
  BY <1>1, Staged
<1>3. WatcherTypeOK'
  BY <1>1, <1>2 DEF watcherVars, WatcherInv, WatcherTypeOK
<1>4. \A h \in Projects : Visible(h) \subseteq Visible(h)'
  BY <1>2 DEF Visible, Kept
<1>5. QED
  BY <1>1, <1>2, <1>3, <1>4, NothingRead DEF watcherVars

\* The other steps of the process and of the clock.
LEMMA IdleStep ==
    ASSUME WatcherInv,
           \/ Ends \/ Sleep \/ Skip \/ RunEnds \/ HourPasses
           \/ \E open_ \in SUBSET Watched : Poll(open_)
           \/ \E g \in Watched : CooldownEnds(g)
           \/ UNCHANGED <<messages, watcherVars>>
    PROVE  WatcherInv'
<1>1. /\ messages' = messages /\ read' = read /\ lastSeen' = lastSeen /\ chain' = chain
      /\ answers' = answers /\ again' = again
      /\ \/ doing' \notin {"asking", "running"}
         \/ doing' = doing /\ batch' = batch
  BY DEF Ends, Sleep, Skip, RunEnds, HourPasses, Poll, CooldownEnds, watcherVars
<1>2. hour \in Nat /\ HourlyCap \in Nat
  BY WatcherAssumption DEF WatcherInv, WatcherTypeOK
<1>3. WatcherTypeOK'
  <2>1. hour' \in 0 .. HourlyCap
    BY <1>2 DEF WatcherInv, WatcherTypeOK, Ends, Sleep, Skip, RunEnds, HourPasses, Poll, CooldownEnds, watcherVars
  <2>2. todo' \subseteq Watched /\ cooling' \subseteq Watched /\ lives' \in 0 .. MaxLives
    BY DEF WatcherInv, WatcherTypeOK, Ends, Sleep, Skip, RunEnds, HourPasses, Poll, CooldownEnds, watcherVars
  <2>3. /\ doing' \in {"off", "asleep", "reading", "asking", "running"}
        /\ batch' \subseteq DOMAIN messages
        /\ doing' \in {"asking", "running"} <=> batch' # {}
    BY DEF WatcherInv, WatcherTypeOK, Ends, Sleep, Skip, RunEnds, HourPasses, Poll, CooldownEnds, watcherVars
  <2>4. QED
    BY <1>1, <2>1, <2>2, <2>3 DEF WatcherInv, WatcherTypeOK
<1>4. /\ BoardTypeOK' /\ \A i \in DOMAIN messages : Kept(i)
      /\ \A g \in Projects : Visible(g) \subseteq Visible(g)'
  BY <1>1 DEF WatcherInv, BoardTypeOK, Kept, Visible
<1>5. QED
  BY <1>1, <1>3, <1>4, NothingRead

LEMMA WatcherInitial ==
    ASSUME BoardInit, WatcherInit
    PROVE  WatcherInv
<1>1. BoardTypeOK /\ DOMAIN messages = {}
  BY DEF BoardInit, BoardTypeOK
<1>2. WatcherTypeOK
  <2>1. /\ MaxChain \in Nat /\ HourlyCap \in Nat /\ MaxLives \in Nat
        /\ 0 \in 0 .. MaxChain /\ 0 \in 0 .. HourlyCap /\ 0 \in 0 .. MaxLives
    BY WatcherAssumption
  <2>2. chain \in [Watched -> 0 .. MaxChain] /\ answers \in [Watched -> Nat]
    BY <2>1 DEF WatcherInit
  <2>3. lastSeen \in [Watched -> Nat \cup {None}]
    BY DEF WatcherInit
  <2>4. QED
    BY <2>1, <2>2, <2>3 DEF WatcherInit, WatcherTypeOK
<1>3. Passed /\ InHand /\ WokenOnce
  BY DEF WatcherInit, Passed, InHand, WokenOnce
<1>4. ASSUME NEW g \in Watched
      PROVE  answers[g] <= MaxChain * Cardinality(HumansRead(g)) + chain[g]
  <2>1. answers[g] = 0 /\ chain[g] = 0
    BY DEF WatcherInit
  <2>2. MaxChain * Cardinality(HumansRead(g)) \in Nat
    BY <1>1, <1>2, HumansReadFinite, WatcherAssumption
  <2>3. QED
    BY <2>1, <2>2
<1>5. QED
  BY <1>1, <1>2, <1>3, <1>4 DEF WatcherInv, Paid

LEMMA WatcherInductive ==
    ASSUME WatcherInv, [WatcherNext]_<<messages, watcherVars>>
    PROVE  WatcherInv'
BY SaysStep, StoredStep, StartStep, ReadStep, RunStep, IdleStep DEF WatcherNext

LEMMA PaidBounds ==
    ASSUME WatcherInv
    PROVE  LoopsDieOut
<1>1. SUFFICES ASSUME NEW g \in Watched
      PROVE  answers[g] <= MaxChain * (1 + Cardinality({i \in Visible(g) : By(i) = "human"}))
  BY DEF LoopsDieOut
<1> DEFINE all == {i \in Visible(g) : By(i) = "human"}
<1>2. HumansRead(g) \subseteq all
  BY DEF WatcherInv, Passed, HumansRead
<1>3. all \subseteq DOMAIN messages /\ IsFiniteSet(DOMAIN messages)
  BY Listed DEF WatcherInv, Visible
<1>4. IsFiniteSet(all) /\ Cardinality(all) \in Nat
  BY <1>3, FS_Subset, FS_CardinalityType
<1>5. Cardinality(HumansRead(g)) <= Cardinality(all) /\ Cardinality(HumansRead(g)) \in Nat
  BY <1>2, <1>4, FS_Subset, HumansReadFinite DEF WatcherInv
<1>6. /\ MaxChain * Cardinality(HumansRead(g)) <= MaxChain * Cardinality(all)
      /\ MaxChain * Cardinality(all) \in Nat /\ MaxChain * Cardinality(HumansRead(g)) \in Nat
  BY <1>4, <1>5, MoreWords
<1>7. MaxChain * (Cardinality(all) + 1) = MaxChain * Cardinality(all) + MaxChain
  BY <1>4, MoreWords
<1>8. answers[g] <= MaxChain * Cardinality(HumansRead(g)) + chain[g]
  BY DEF WatcherInv, Paid
<1>9. answers[g] \in Nat /\ chain[g] \in 0 .. MaxChain /\ chain[g] \in Nat /\ MaxChain \in Nat
  BY WatcherAssumption DEF WatcherInv, WatcherTypeOK
<1>10. Cardinality(all) + 1 = 1 + Cardinality(all)
  BY <1>4
<1> HIDE DEF all
<1>11. answers[g] <= MaxChain * (Cardinality(all) + 1)
  BY <1>6, <1>7, <1>8, <1>9
<1>12. QED
  BY <1>10, <1>11 DEF all

\* What the watcher's disk, memory and history always satisfy.
THEOREM WatcherInvariant == WatcherSpec => []WatcherInv
BY WatcherInitial, WatcherInductive, PTL DEF WatcherSpec

(* Between two pairings no message is acted on twice, however often the      *)
(* process ends and starts again (scripts/buildhall-watch.mjs:325-336).      *)
THEOREM NobodyIsWokenTwice == WatcherSpec => []WokenOnce
<1>1. WatcherInv => WokenOnce
  BY DEF WatcherInv
<1>2. QED
  BY <1>1, WatcherInvariant, PTL

(* Agents' calls alone wake the CLI a bounded number of times per process,   *)
(* and as often again for each word of a human                               *)
(* (scripts/buildhall-watch.mjs:50-64, 314-336).                             *)
THEOREM AgentLoopsDieOut == WatcherSpec => []LoopsDieOut
BY PaidBounds, WatcherInvariant, PTL

-----------------------------------------------------------------------------
(***************************************************************************)
(* The moderation scan.  A message is marked by a pass that has had it     *)
(* judged, and the passes overlap: the verdict that stands behind a mark   *)
(* is the pass's own (Judging), whatever the others do to the message.     *)
(***************************************************************************)

\* The tables and the passes; what a pass has in its batch is on the board.
ScanOK ==
    /\ reported \subseteq Posted /\ scanned \subseteq Posted
    /\ reviewed \subseteq flags /\ flags \subseteq Posted
    /\ Len(messages) <= ScanMessages
    /\ scanFaults \in 0 .. MaxScanFaults
    /\ judged \in [1 .. ScanMessages -> SUBSET {"clean", "flagged"}]

PassesOK ==
    /\ pass \in [Passes -> PassStates]
    /\ \A p \in Passes : /\ pass[p].at = "idle" <=> pass[p].rows = {}
                         /\ pass[p].rows \subseteq Posted

Judging == \A p \in Passes : pass[p].at = "marking" => judged[Row(p)] # {}

ScannerInv == BoardTypeOK /\ ScanOK /\ PassesOK /\ Judging /\ ScannedWasJudged

-----------------------------------------------------------------------------
LEMMA PostedIds ==
    ASSUME ScannerInv
    PROVE  Posted \subseteq DOMAIN messages /\ Posted \subseteq 1 .. ScanMessages /\ Posted \subseteq Nat
<1>1. DOMAIN messages = 1 .. Len(messages) /\ Len(messages) \in Nat /\ Len(messages) <= ScanMessages
  BY Listed DEF ScannerInv, ScanOK
<1>2. ScanMessages \in Nat
  BY ScannerAssumption
<1>3. Posted \subseteq DOMAIN messages
  BY DEF Posted, Visible
<1>4. 1 .. Len(messages) \subseteq 1 .. ScanMessages /\ 1 .. Len(messages) \subseteq Nat
  BY <1>1, <1>2
<1>5. QED
  BY <1>1, <1>3, <1>4

LEMMA RowIs ==
    ASSUME ScannerInv, NEW p \in Passes, pass[p].at # "idle"
    PROVE  Row(p) \in pass[p].rows /\ Row(p) \in Posted /\ Row(p) \in 1 .. ScanMessages
<1>1. pass[p].rows # {} /\ pass[p].rows \subseteq Posted
  BY DEF ScannerInv, PassesOK
<1>2. pass[p].rows \in SUBSET Nat
  BY <1>1, PostedIds
<1>3. \E i \in pass[p].rows : \A j \in pass[p].rows : i <= j
  BY <1>1, <1>2, Least
<1>4. Row(p) \in pass[p].rows
  BY <1>3 DEF Row
<1>5. QED
  BY <1>1, <1>4, PostedIds

LEMMA GoesOn ==
    ASSUME NEW rows \in SUBSET Nat
    PROVE  /\ GoOn(rows) \in PassStates /\ GoOn(rows).rows = rows
           /\ GoOn(rows).at = "idle" <=> rows = {}
           /\ GoOn(rows).at # "marking"
           /\ Idle \in PassStates /\ Idle.rows = {} /\ Idle.at = "idle"
BY DEF GoOn, PassStates, Idle

\* The messages change, the scan's own state does not; or a restart ends passes.
LEMMA BoardMoves ==
    ASSUME ScannerInv, BoardTypeOK', Len(messages') <= ScanMessages, Posted \subseteq Posted',
           reported' = reported, scanned' = scanned, flags' = flags, reviewed' = reviewed,
           judged' = judged, scanFaults' \in 0 .. MaxScanFaults,
           pass' = pass \/ pass' = [p \in Passes |-> Idle]
    PROVE  ScannerInv'
<1>1. ScanOK' /\ ScannedWasJudged'
  BY DEF ScannerInv, ScanOK, ScannedWasJudged
<1>2. CASE pass' = pass
  BY <1>1, <1>2 DEF ScannerInv, PassesOK, Judging, Row
<1>3. CASE pass' = [p \in Passes |-> Idle]
  <2>1. Idle \in PassStates /\ Idle.rows = {} /\ Idle.at = "idle"
    BY DEF PassStates, Idle
  <2>2. PassesOK' /\ Judging'
    BY <1>3, <2>1 DEF PassesOK, Judging
  <2>3. QED
    BY <1>1, <2>2 DEF ScannerInv
<1>4. QED
  BY <1>2, <1>3

LEMMA WritesStep ==
    ASSUME ScannerInv, NEW g \in Projects, Writes(g)
    PROVE  ScannerInv'
<1>1. /\ Len(messages) < ScanMessages /\ Insert(g, "other", FALSE) /\ UNCHANGED scannerVars
      /\ BoardTypeOK /\ "other" \in Authors
  BY ScannerAssumption DEF Writes, ScannerInv
<1>2. /\ BoardTypeOK' /\ Len(messages') = Len(messages) + 1
      /\ DOMAIN messages' = DOMAIN messages \cup {Len(messages) + 1}
      /\ \A i \in DOMAIN messages : messages'[i] = messages[i]
  BY <1>1, Insertion
<1>3. Len(messages) \in Nat /\ ScanMessages \in Nat
  BY <1>1, Listed, ScannerAssumption
<1>4. Posted \subseteq Posted'
  BY <1>2 DEF Posted, Visible
<1>5. QED
  BY <1>1, <1>2, <1>3, <1>4, BoardMoves DEF scannerVars, ScannerInv, ScanOK

LEMMA WrittenStep ==
    ASSUME ScannerInv, NEW i \in DOMAIN messages, Written(i)
    PROVE  ScannerInv'
<1>1. Stage(i, "stored") /\ "stored" \in Stages /\ UNCHANGED scannerVars /\ BoardTypeOK
  BY DEF Written, Commit, ScannerInv, Stages
<1>2. /\ BoardTypeOK' /\ Len(messages') = Len(messages) /\ DOMAIN messages' = DOMAIN messages
      /\ \A j \in DOMAIN messages : Kept(j)
      /\ \A j \in DOMAIN messages : messages'[j].stage = IF j = i THEN "stored" ELSE messages[j].stage
  BY <1>1, Staged
<1>3. Posted \subseteq Posted'
  BY <1>2 DEF Posted, Visible, Kept
<1>4. QED
  BY <1>1, <1>2, <1>3, BoardMoves DEF scannerVars, ScannerInv, ScanOK

LEMMA ScannerRestartStep ==
    ASSUME ScannerInv, ScannerRestart
    PROVE  ScannerInv'
<1>1. /\ scanFaults > 0 /\ scanFaults' = scanFaults - 1 /\ Restart
      /\ pass' = [p \in Passes |-> Idle] /\ BoardTypeOK
      /\ UNCHANGED <<reported, scanned, flags, reviewed, judged>>
  BY DEF ScannerRestart, ScannerInv
<1>2. /\ BoardTypeOK' /\ Len(messages') = Len(messages) /\ DOMAIN messages' = DOMAIN messages
      /\ \A j \in DOMAIN messages : Kept(j)
      /\ \A j \in DOMAIN messages :
            messages'[j].stage = CASE messages[j].stage = "sent" -> "lost"
                                   [] messages[j].stage = "stored" -> "kept"
                                   [] OTHER -> messages[j].stage
  BY <1>1, Restarted
<1>3. Posted \subseteq Posted'
  <2>1. ASSUME NEW g \in Projects, NEW i \in Visible(g)
        PROVE  i \in Visible(g)'
    BY <1>2 DEF Visible, Kept
  <2>2. QED
    BY <2>1 DEF Posted
<1>4. scanFaults' \in 0 .. MaxScanFaults
  BY <1>1, ScannerAssumption DEF ScannerInv, ScanOK
<1>5. QED
  BY <1>1, <1>2, <1>3, <1>4, BoardMoves DEF ScannerInv, ScanOK

\* The messages stay, and what has been judged stays judged.
LEMMA TablesMove ==
    ASSUME ScannerInv, messages' = messages,
           reported' \subseteq Posted, reviewed' \subseteq flags', flags \subseteq flags', flags' \subseteq Posted,
           scanned' \subseteq Posted, \A i \in scanned' : judged'[i] # {},
           scanFaults' \in 0 .. MaxScanFaults,
           judged' \in [1 .. ScanMessages -> SUBSET {"clean", "flagged"}],
           \A i \in 1 .. ScanMessages : judged[i] \subseteq judged'[i],
           \A i \in 1 .. ScanMessages : "flagged" \in judged'[i] => i \in flags',
           PassesOK',
           \A p \in Passes :
              pass'[p].at = "marking" => \/ pass'[p] = pass[p]
                                         \/ judged'[Row(p)] # {} /\ pass'[p].rows = pass[p].rows
    PROVE  ScannerInv'
<1>1. Posted' = Posted /\ BoardTypeOK'
  BY DEF Posted, Visible, ScannerInv, BoardTypeOK
<1>2. ScanOK' /\ ScannedWasJudged'
  BY <1>1 DEF ScannerInv, ScanOK, ScannedWasJudged
<1>3. ASSUME NEW p \in Passes, pass'[p].at = "marking"
      PROVE  judged'[Row(p)'] # {}
  <2>1. pass'[p].rows = pass[p].rows => Row(p)' = Row(p)
    BY DEF Row
  <2>2. CASE pass'[p] = pass[p]
    <3>1. pass[p].at = "marking" /\ Row(p)' = Row(p)
      BY <1>3, <2>1, <2>2
    <3>2. judged[Row(p)] # {} /\ Row(p) \in 1 .. ScanMessages
      BY <3>1, RowIs DEF ScannerInv, Judging
    <3>3. QED
      BY <3>1, <3>2
  <2>3. CASE judged'[Row(p)] # {} /\ pass'[p].rows = pass[p].rows
    BY <2>1, <2>3
  <2>4. QED
    BY <1>3, <2>2, <2>3
<1>4. QED
  BY <1>1, <1>2, <1>3 DEF ScannerInv, Judging

\* A pass moves, the others do not.
LEMMA PassMoves ==
    ASSUME ScannerInv, messages' = messages, NEW p \in Passes, NEW r \in PassStates,
           pass' = [pass EXCEPT ![p] = r], r.at = "idle" <=> r.rows = {}, r.rows \subseteq Posted
    PROVE  /\ PassesOK' /\ pass'[p] = r
           /\ \A q \in Passes : q # p => pass'[q] = pass[q]
<1>1. Posted' = Posted
  BY DEF Posted, Visible
<1>2. pass \in [Passes -> PassStates]
  BY DEF ScannerInv, PassesOK
<1>3. pass' \in [Passes -> PassStates] /\ pass'[p] = r /\ \A q \in Passes : q # p => pass'[q] = pass[q]
  BY <1>2
<1>4. QED
  BY <1>1, <1>3 DEF ScannerInv, PassesOK

\* A pass that goes on with other rows.
LEMMA NextRows ==
    ASSUME ScannerInv, NEW p \in Passes, NEW rows, rows \subseteq Posted,
           pass' = [pass EXCEPT ![p] = GoOn(rows)], messages' = messages
    PROVE  /\ PassesOK'
           /\ \A q \in Passes : pass'[q].at = "marking" => pass'[q] = pass[q]
<1>1. rows \in SUBSET Nat
  BY PostedIds
<1>2. /\ GoOn(rows) \in PassStates /\ GoOn(rows).rows = rows
      /\ GoOn(rows).at = "idle" <=> rows = {}
      /\ GoOn(rows).at # "marking"
  BY <1>1, GoesOn
<1> HIDE DEF GoOn
<1>3. /\ PassesOK' /\ pass'[p] = GoOn(rows)
      /\ \A q \in Passes : q # p => pass'[q] = pass[q]
  BY <1>2, PassMoves
<1>4. QED
  BY <1>2, <1>3

LEMMA StartPassStep ==
    ASSUME ScannerInv, NEW p \in Passes, StartPass(p)
    PROVE  ScannerInv'
<1> DEFINE rows == Oldest({i \in Posted \ scanned : InScope(i)}, Batch)
<1>1. /\ pass' = [pass EXCEPT ![p] = GoOn(rows)]
      /\ UNCHANGED <<messages, reported, scanned, flags, reviewed, scanFaults, judged>>
  BY DEF StartPass
<1>2. rows \subseteq Posted
  BY DEF Oldest
<1> HIDE DEF rows
<1>3. PassesOK' /\ \A q \in Passes : pass'[q].at = "marking" => pass'[q] = pass[q]
  BY <1>1, <1>2, NextRows
<1>4. QED
  BY <1>1, <1>3, TablesMove DEF ScannerInv, ScanOK, ScannedWasJudged

LEMMA ClassifiedStep ==
    ASSUME ScannerInv, NEW p \in Passes, NEW flagged \in BOOLEAN, Classified(p, flagged)
    PROVE  ScannerInv'
<1> DEFINE r == [pass[p] EXCEPT !.at = IF flagged THEN "flagging" ELSE "marking"]
<1>1. /\ pass[p].at = "classifying" /\ pass' = [pass EXCEPT ![p] = r]
      /\ judged' = IF flagged THEN judged ELSE [judged EXCEPT ![Row(p)] = @ \cup {"clean"}]
      /\ UNCHANGED <<messages, reported, scanned, flags, reviewed, scanFaults>>
  BY DEF Classified
<1>2. pass[p] \in PassStates /\ pass[p].rows # {} /\ pass[p].rows \subseteq Posted
  BY <1>1 DEF ScannerInv, PassesOK
<1>3. r \in PassStates /\ r.rows = pass[p].rows /\ r.at # "idle" /\ (r.at = "marking" => ~flagged)
  BY <1>2 DEF PassStates
<1> HIDE DEF r
<1>4. /\ PassesOK' /\ pass'[p] = r /\ \A q \in Passes : q # p => pass'[q] = pass[q]
  BY <1>1, <1>2, <1>3, PassMoves
<1>5. Row(p) \in 1 .. ScanMessages
  BY <1>1, RowIs
<1>6. /\ judged' \in [1 .. ScanMessages -> SUBSET {"clean", "flagged"}]
      /\ \A i \in 1 .. ScanMessages : judged[i] \subseteq judged'[i]
      /\ \A i \in 1 .. ScanMessages : "flagged" \in judged'[i] => "flagged" \in judged[i]
      /\ ~flagged => judged'[Row(p)] # {}
  BY <1>1, <1>5 DEF ScannerInv, ScanOK
<1>7. \A i \in scanned' : judged'[i] # {}
  <2>1. \A i \in scanned : i \in 1 .. ScanMessages /\ judged[i] # {}
    BY PostedIds DEF ScannerInv, ScanOK, ScannedWasJudged
  <2>2. QED
    BY <1>1, <1>6, <2>1
<1>8. \A i \in 1 .. ScanMessages : "flagged" \in judged'[i] => i \in flags'
  <2>1. \A i \in 1 .. ScanMessages : "flagged" \in judged[i] => i \in flags
    BY DEF ScannerInv, ScanOK, ScannedWasJudged
  <2>2. QED
    BY <1>1, <1>6, <2>1
<1>9. \A q \in Passes :
          pass'[q].at = "marking" => \/ pass'[q] = pass[q]
                                     \/ judged'[Row(q)] # {} /\ pass'[q].rows = pass[q].rows
  BY <1>3, <1>4, <1>6
<1>10. QED
  BY <1>1, <1>4, <1>6, <1>7, <1>8, <1>9, TablesMove DEF ScannerInv, ScanOK

LEMMA FlagStep ==
    ASSUME ScannerInv, NEW p \in Passes, Flag(p)
    PROVE  ScannerInv'
<1> DEFINE r == [pass[p] EXCEPT !.at = "marking"]
<1>1. /\ pass[p].at = "flagging" /\ pass' = [pass EXCEPT ![p] = r]
      /\ flags' = flags \cup {Row(p)} /\ reviewed' = reviewed
      /\ judged' = [judged EXCEPT ![Row(p)] = @ \cup {"flagged"}]
      /\ UNCHANGED <<messages, reported, scanned, scanFaults>>
  BY DEF Flag, StoreFlag
<1>2. pass[p] \in PassStates /\ pass[p].rows # {} /\ pass[p].rows \subseteq Posted
  BY <1>1 DEF ScannerInv, PassesOK
<1>3. r \in PassStates /\ r.rows = pass[p].rows /\ r.at # "idle"
  BY <1>2 DEF PassStates
<1> HIDE DEF r
<1>4. /\ PassesOK' /\ pass'[p] = r /\ \A q \in Passes : q # p => pass'[q] = pass[q]
  BY <1>1, <1>2, <1>3, PassMoves
<1>5. Row(p) \in 1 .. ScanMessages /\ Row(p) \in Posted
  BY <1>1, RowIs
<1>6. /\ judged' \in [1 .. ScanMessages -> SUBSET {"clean", "flagged"}]
      /\ \A i \in 1 .. ScanMessages : judged[i] \subseteq judged'[i]
      /\ \A i \in 1 .. ScanMessages : "flagged" \in judged'[i] => "flagged" \in judged[i] \/ i = Row(p)
      /\ judged'[Row(p)] # {}
  BY <1>1, <1>5 DEF ScannerInv, ScanOK
<1>7. \A i \in scanned' : judged'[i] # {}
  <2>1. \A i \in scanned : i \in 1 .. ScanMessages /\ judged[i] # {}
    BY PostedIds DEF ScannerInv, ScanOK, ScannedWasJudged
  <2>2. QED
    BY <1>1, <1>6, <2>1
<1>8. \A i \in 1 .. ScanMessages : "flagged" \in judged'[i] => i \in flags'
  <2>1. \A i \in 1 .. ScanMessages : "flagged" \in judged[i] => i \in flags
    BY DEF ScannerInv, ScanOK, ScannedWasJudged
  <2>2. QED
    BY <1>1, <1>6, <2>1
<1>9. \A q \in Passes :
          pass'[q].at = "marking" => \/ pass'[q] = pass[q]
                                     \/ judged'[Row(q)] # {} /\ pass'[q].rows = pass[q].rows
  BY <1>3, <1>4, <1>6
<1>10. QED
  BY <1>1, <1>4, <1>5, <1>6, <1>7, <1>8, <1>9, TablesMove DEF ScannerInv, ScanOK

\* A pass drops the message in hand, marked or not, or ends.
LEMMA DropStep ==
    ASSUME ScannerInv, NEW p \in Passes, ClassifyFails(p) \/ Mark(p) \/ MarkFails(p)
    PROVE  ScannerInv'
<1>1. UNCHANGED <<messages, reported, flags, reviewed, judged>> /\ pass[p].at # "idle"
  BY DEF ClassifyFails, Mark, MarkFails
<1>2. PICK rows : rows \subseteq Posted /\ pass' = [pass EXCEPT ![p] = GoOn(rows)]
  <2>1. pass[p].rows \subseteq Posted
    BY DEF ScannerInv, PassesOK
  <2>2. CASE ClassifyFails(p) \/ Mark(p)
    <3>1. pass' = [pass EXCEPT ![p] = GoOn(pass[p].rows \ {Row(p)})]
      BY <2>2 DEF ClassifyFails, Mark
    <3>2. QED
      BY <2>1, <3>1
  <2>3. CASE MarkFails(p)
    <3>1. GoOn({}) = Idle
      BY DEF GoOn, Idle
    <3>2. pass' = [pass EXCEPT ![p] = GoOn({})]
      BY <2>3, <3>1 DEF MarkFails
    <3>3. QED
      BY <3>2
  <2>4. QED
    BY <2>2, <2>3
<1>3. PassesOK' /\ \A q \in Passes : pass'[q].at = "marking" => pass'[q] = pass[q]
  BY <1>1, <1>2, NextRows
<1>4. scanFaults' \in 0 .. MaxScanFaults
  BY ScannerAssumption DEF ScannerInv, ScanOK, ClassifyFails, Mark, MarkFails
<1>5. Row(p) \in Posted
  BY <1>1, RowIs
<1>6. scanned' = scanned \/ (scanned' = scanned \cup {Row(p)} /\ pass[p].at = "marking")
  BY DEF ClassifyFails, Skipped, Mark, MarkFails
<1>7. scanned' \subseteq Posted /\ \A i \in scanned' : judged'[i] # {}
  BY <1>1, <1>5, <1>6 DEF ScannerInv, ScanOK, ScannedWasJudged, Judging
<1>8. QED
  BY <1>1, <1>3, <1>4, <1>7, TablesMove DEF ScannerInv, ScanOK, ScannedWasJudged

LEMMA PeopleStep ==
    ASSUME ScannerInv, NEW i \in Posted, Report(i) \/ Review(i)
    PROVE  ScannerInv'
<1>1. /\ UNCHANGED <<messages, scanned, flags, pass, scanFaults, judged>>
      /\ reported' \subseteq Posted /\ reviewed' \subseteq flags
  BY DEF Report, Review, ScannerInv, ScanOK
<1>2. PassesOK'
  BY <1>1 DEF ScannerInv, PassesOK, Posted, Visible
<1>3. QED
  BY <1>1, <1>2, TablesMove DEF ScannerInv, ScanOK, ScannedWasJudged

LEMMA ScannerInitial ==
    ASSUME BoardInit, ScannerInit
    PROVE  ScannerInv
<1>1. BoardTypeOK /\ Len(messages) = 0
  BY DEF BoardInit, BoardTypeOK
<1>2. Idle \in PassStates /\ Idle.rows = {} /\ Idle.at = "idle"
  BY DEF PassStates, Idle
<1>3. PassesOK /\ Judging
  BY <1>2 DEF ScannerInit, PassesOK, Judging
<1>4. judged \in [1 .. ScanMessages -> SUBSET {"clean", "flagged"}]
      /\ \A i \in 1 .. ScanMessages : judged[i] = {}
  BY DEF ScannerInit
<1>5. ScanOK /\ ScannedWasJudged
  BY <1>1, <1>4, ScannerAssumption DEF ScannerInit, ScanOK, ScannedWasJudged
<1>6. QED
  BY <1>1, <1>3, <1>5 DEF ScannerInv

LEMMA ScannerInductive ==
    ASSUME ScannerInv, [ScannerNext]_<<messages, scannerVars>>
    PROVE  ScannerInv'
<1>1. CASE UNCHANGED <<messages, scannerVars>>
  <2>1. Posted' = Posted /\ messages' = messages
    BY <1>1 DEF Posted, Visible
  <2>2. QED
    BY <1>1, <2>1, BoardMoves DEF scannerVars, ScannerInv, BoardTypeOK, ScanOK
<1>2. CASE ScannerNext
  BY <1>2, WritesStep, WrittenStep, PeopleStep, StartPassStep, FlagStep, ClassifiedStep, DropStep,
     ScannerRestartStep DEF ScannerNext
<1>3. QED
  BY <1>1, <1>2

\* What the tables and the passes of the scan always satisfy.
THEOREM ScannerInvariant == ScannerSpec => []ScannerInv
BY ScannerInitial, ScannerInductive, PTL DEF ScannerSpec

(* For any number of passes, projects and messages: what is marked has been  *)
(* judged, and what was judged adversely has its flag                        *)
(* (src/moderation.js:86-108).                                               *)
THEOREM MarkedWasJudged == ScannerSpec => []ScannedWasJudged
<1>1. ScannerInv => ScannedWasJudged
  BY DEF ScannerInv
<1>2. QED
  BY <1>1, ScannerInvariant, PTL

(* No pass brings a reviewed flag back (src/moderation.js:94).               *)
THEOREM ReviewsStand == ScannerSpec => ReviewStands
<1>1. ASSUME [ScannerNext]_<<messages, scannerVars>>
      PROVE  [reviewed \subseteq reviewed']_scannerVars
  BY <1>1 DEF ScannerNext, Writes, Written, Report, Review, StartPass, Classified, Flag, StoreFlag,
     ClassifyFails, Mark, MarkFails, ScannerRestart, scannerVars
<1>2. QED
  BY <1>1, PTL DEF ScannerSpec, ReviewStands

-----------------------------------------------------------------------------
(***************************************************************************)
(* AnsweredOnce for any number of connections, processes and crashes.      *)
(*                                                                         *)
(* It is not inductive: that a responder's lines are new rests on what it  *)
(* read before, and on nobody else having taken lines since.  RInv adds    *)
(* both: a responder at work owns the lock (Entered), and while it holds   *)
(* the lines it has read, none of them has been taken (UntakenYet).        *)
(***************************************************************************)

\* Once the agent is connected, the lines that were there are behind.
Behind ==
    /\ Before <= Len(file)
    /\ conns # {} => Before <= offset
    /\ \A p \in Procs : ~At(p, {"none"}) => Before <= offset
    /\ \A p \in Procs : At(p, {"read"}) =>
         /\ Before <= proc[p].from
         /\ proc[p].from < proc[p].upto /\ proc[p].upto <= Len(file)

\* Who waits to write the lock has found none in force; who works owns it.
Entered ==
    /\ \A p \in Procs : At(p, {"tested"}) => proc[p].clear
    /\ ~broken => \A p \in Procs : At(p, Inside) => lock # NoOne /\ lock.owner = p

\* What was taken is behind the offset, and behind what is about to be taken.
UntakenYet ==
    ~broken => /\ taken \subseteq 1 .. offset
               /\ \A p \in Procs : At(p, {"read"}) => taken \subseteq 1 .. proc[p].from

RInv == ResponderTypeOK /\ Behind /\ Entered /\ UntakenYet /\ AnsweredOnce

-----------------------------------------------------------------------------
(* What becomes of the responders in a step of one of them.                  *)

Others(p) == \A q \in Procs \ {p} : proc'[q] = proc[q]

\* Only the fields at and clear change.
LEMMA Moved ==
    ASSUME proc \in [Procs -> Responders], NEW p \in Procs, NEW a \in Places, NEW b \in BOOLEAN,
           proc' = [proc EXCEPT ![p].at = a, ![p].clear = b]
    PROVE  /\ proc' \in [Procs -> Responders] /\ Others(p)
           /\ proc'[p].at = a /\ proc'[p].clear = b
           /\ proc'[p].from = proc[p].from /\ proc'[p].upto = proc[p].upto
<1>1. proc[p] \in Responders
  OBVIOUS
<1>2. [proc[p] EXCEPT !.at = a, !.clear = b] \in Responders
  BY <1>1 DEF Responders
<1>3. proc' = [proc EXCEPT ![p] = [proc[p] EXCEPT !.at = a, !.clear = b]]
  OBVIOUS
<1>4. proc' \in [Procs -> Responders] /\ Others(p)
  BY <1>2, <1>3 DEF Others
<1>5. proc'[p] = [proc[p] EXCEPT !.at = a, !.clear = b]
  BY <1>3
<1>6. QED
  BY <1>1, <1>4, <1>5 DEF Responders

\* Goes moves a responder and nothing else.
LEMMA Gone ==
    ASSUME proc \in [Procs -> Responders], NEW p \in Procs, NEW a \in Places, Goes(p, a)
    PROVE  /\ proc' \in [Procs -> Responders] /\ Others(p)
           /\ proc'[p].at = a /\ proc'[p].clear = proc[p].clear
           /\ proc'[p].from = proc[p].from /\ proc'[p].upto = proc[p].upto
<1>1. proc[p] \in Responders
  OBVIOUS
<1>2. [proc[p] EXCEPT !.at = a] \in Responders
  BY <1>1 DEF Responders
<1>3. proc' = [proc EXCEPT ![p] = [proc[p] EXCEPT !.at = a]]
  BY DEF Goes
<1>4. proc' \in [Procs -> Responders] /\ Others(p)
  BY <1>2, <1>3 DEF Others
<1>5. proc'[p] = [proc[p] EXCEPT !.at = a]
  BY <1>3
<1>6. QED
  BY <1>1, <1>4, <1>5 DEF Responders

\* An empty slot is a responder record.
LEMMA OffIsRecord == /\ Off \in Responders /\ Off.at = "none"
                     /\ [Off EXCEPT !.at = "exiting"] \in Responders
                     /\ [Off EXCEPT !.at = "exiting"].at = "exiting"
BY DEF Off, Responders, Places

\* A process that is over leaves the others as they are.
LEMMA Over ==
    ASSUME proc \in [Procs -> Responders], NEW p \in Procs, Quit(p)
    PROVE  /\ proc' \in [Procs -> Responders] /\ Others(p) /\ proc'[p].at = "none"
BY OffIsRecord DEF Quit, Others

-----------------------------------------------------------------------------
\* A file of Before lines, nobody connected.
LEMMA InitRInv == ResponderInit => RInv
<1> SUFFICES ASSUME ResponderInit PROVE RInv
  OBVIOUS
<1>1. file \in Seq({"human", "agent", "own"}) /\ Len(file) = Before
  BY ResponderAssumption DEF ResponderInit
<1>2. /\ conns = {} /\ due = {} /\ offset = 0 /\ lock = NoOne /\ crashes = MaxCrashes
      /\ taken = {} /\ twice = FALSE /\ early = FALSE /\ broken = FALSE
      /\ proc \in [Procs -> Responders]
      /\ \A p \in Procs : proc[p].at = "none"
  BY OffIsRecord DEF ResponderInit
<1>3. ResponderTypeOK
  <2>1. offset \in 0 .. Len(file) /\ crashes \in 0 .. MaxCrashes
    BY <1>1, <1>2, ResponderAssumption
  <2>2. QED
    BY <1>1, <1>2, <2>1, Zenon DEF ResponderTypeOK
<1>4. Behind
  BY <1>1, <1>2, ResponderAssumption DEF Behind, At
<1>5. Entered /\ UntakenYet /\ AnsweredOnce
  BY <1>2 DEF Entered, UntakenYet, AnsweredOnce, At, Inside
<1>6. QED
  BY <1>3, <1>4, <1>5 DEF RInv

(* A step of p that reads no lines and takes none: left to show is who owns  *)
(* the lock.                                                                 *)
LEMMA TakesNothing ==
    ASSUME RInv, NEW p \in Procs,
           UNCHANGED <<file, conns, offset, taken, twice, early>>,
           due' \subseteq conns, lock' \in Locks \cup {NoOne}, crashes' \in 0 .. MaxCrashes,
           broken' \in BOOLEAN, broken => broken',
           proc' \in [Procs -> Responders], Others(p),
           proc'[p].at # "read", proc'[p].at # "none" => Before <= offset,
           Entered'
    PROVE  RInv'
<1>1. ResponderTypeOK'
  BY DEF RInv, ResponderTypeOK
<1>2. ASSUME NEW q \in Procs PROVE q = p \/ proc'[q] = proc[q]
  BY DEF Others
<1>3. Behind'
  BY <1>2 DEF RInv, Behind, At
<1>4. UntakenYet'
  BY <1>2 DEF RInv, UntakenYet, At
<1>5. AnsweredOnce'
  BY DEF RInv, AnsweredOnce
<1>6. QED
  BY <1>1, <1>3, <1>4, <1>5 DEF RInv

\* Nobody else than p enters, and the lock stays as it is.
LEMMA NobodyEnters ==
    ASSUME Entered, NEW p \in Procs, lock' = lock, broken' = broken, Others(p),
           proc'[p].at \notin Inside \/ proc[p].at \in Inside,
           proc'[p].at = "tested" => proc'[p].clear
    PROVE  Entered'
<1>1. ASSUME NEW q \in Procs PROVE q = p \/ proc'[q] = proc[q]
  BY DEF Others
<1>2. QED
  BY <1>1 DEF Entered, At

-----------------------------------------------------------------------------
\* A wake-up comes from a live connection, so the agent has been connected.
LEMMA WakeUpStep ==
    ASSUME RInv, NEW c \in Conns, NEW p \in Procs, WakeUp(c, p) PROVE RInv'
<1>1. /\ proc' \in [Procs -> Responders] /\ Others(p) /\ proc'[p].at = "started"
  BY Gone DEF WakeUp, RInv, ResponderTypeOK, Places
<1>2. Before <= offset
  BY DEF WakeUp, RInv, Behind, ResponderTypeOK
<1>3. Entered'
  BY <1>1, NobodyEnters DEF WakeUp, RInv, Inside
<1>4. QED
  BY <1>1, <1>2, <1>3, TakesNothing DEF WakeUp, RInv, ResponderTypeOK

\* The test is passed only if no lock is in force.
LEMMA TestLockStep ==
    ASSUME RInv, NEW p \in Procs, TestLock(p) PROVE RInv'
<1>1. /\ proc' \in [Procs -> Responders] /\ Others(p)
      /\ \/ proc'[p].at = "tested" /\ proc'[p].clear
         \/ proc'[p].at = "none"
  <2>1. CASE MayEnter
    <3>1. proc' = [proc EXCEPT ![p].at = "tested", ![p].clear = TRUE]
      BY <2>1 DEF TestLock, MayEnter
    <3>2. QED
      BY <3>1, Moved DEF RInv, ResponderTypeOK, Places
  <2>2. CASE ~MayEnter
    BY <2>2, Over DEF TestLock, RInv, ResponderTypeOK
  <2>3. QED
    BY <2>1, <2>2
<1>2. Before <= offset
  BY DEF TestLock, RInv, Behind, At
<1>3. Entered'
  BY <1>1, NobodyEnters DEF TestLock, RInv, Inside
<1>4. QED
  BY <1>1, <1>2, <1>3, TakesNothing DEF TestLock, RInv, ResponderTypeOK

\* If nobody's lock is lost by it, nobody was at work.
LEMMA WriteLockStep ==
    ASSUME RInv, NEW p \in Procs, WriteLock(p) PROVE RInv'
<1>1. /\ proc' \in [Procs -> Responders] /\ Others(p)
      /\ proc'[p].at = "locked"
  BY Moved DEF WriteLock, RInv, ResponderTypeOK, Places
<1>2. Before <= offset
  BY DEF WriteLock, RInv, Behind, At
<1>3. lock' \in Locks /\ lock'.owner = p
  BY DEF WriteLock, Locks
<1>4. Entered'
  <2>1. ASSUME NEW q \in Procs PROVE q = p \/ proc'[q] = proc[q]
    BY <1>1 DEF Others
  <2>2. ASSUME ~broken', NEW q \in Procs \ {p} PROVE ~At(q, Inside)
    BY <2>2 DEF WriteLock, LockLost, RInv, Entered, At
  <2>3. QED
    BY <1>1, <1>3, <2>1, <2>2, ResponderAssumption
    DEF WriteLock, RInv, Entered, At, Inside
<1>5. broken' \in BOOLEAN /\ (broken => broken')
  BY DEF WriteLock, LockLost, RInv, ResponderTypeOK
<1>6. QED
  BY <1>1, <1>2, <1>3, <1>4, <1>5, TakesNothing DEF WriteLock, RInv, ResponderTypeOK

\* A responder that knows which lines are new.
LEMMA HasRead ==
    ASSUME NEW r \in Responders, NEW a \in Places, NEW from \in Nat, NEW upto \in Nat
    PROVE  [r EXCEPT !.at = a, !.from = from, !.upto = upto] \in Responders
BY DEF Responders

\* The lines are those behind the offset, and nobody else is at work.
LEMMA ReadFileStep ==
    ASSUME RInv, NEW p \in Procs, ReadFile(p) PROVE RInv'
<1> DEFINE place == IF Len(file) > offset THEN "read" ELSE "exiting"
<1>1. proc[p] \in Responders /\ offset \in 0 .. Len(file) /\ Len(file) \in Nat
  BY DEF RInv, ResponderTypeOK
<1>2. /\ proc' \in [Procs -> Responders] /\ Others(p)
      /\ proc'[p].at = place /\ proc'[p].from = offset /\ proc'[p].upto = Len(file)
  <2> HIDE DEF place
  <2>1. [proc[p] EXCEPT !.at = place, !.from = offset, !.upto = Len(file)] \in Responders
    <3>1. place \in Places
      BY <1>1 DEF place, Places
    <3>2. offset \in Nat
      BY <1>1
    <3>3. QED
      BY <1>1, <3>1, <3>2, HasRead, Zenon
  <2>2. proc' = [proc EXCEPT ![p] =
                  [proc[p] EXCEPT !.at = place, !.from = offset, !.upto = Len(file)]]
    BY DEF ReadFile, place
  <2>3. proc'[p] = [proc[p] EXCEPT !.at = place, !.from = offset, !.upto = Len(file)]
    BY <2>2 DEF RInv, ResponderTypeOK
  <2>4. proc' \in [Procs -> Responders] /\ Others(p)
    BY <2>1, <2>2 DEF RInv, ResponderTypeOK, Others
  <2>5. QED
    BY <1>1, <2>3, <2>4 DEF Responders
<1>3. proc[p].at = "locked"
      /\ UNCHANGED <<file, conns, due, offset, lock, crashes, taken, twice, early, broken>>
  BY DEF ReadFile, At
<1>4. ASSUME NEW q \in Procs PROVE q = p \/ proc'[q] = proc[q]
  BY <1>2 DEF Others
<1>5. ResponderTypeOK' /\ AnsweredOnce'
  BY <1>2, <1>3 DEF RInv, ResponderTypeOK, AnsweredOnce
<1>6. Before <= offset
  BY <1>3 DEF RInv, Behind, At
<1>7. Behind'
  BY <1>1, <1>2, <1>3, <1>4, <1>6 DEF RInv, Behind, At
<1>8. Entered'
  BY <1>2, <1>3, NobodyEnters DEF RInv, Inside
<1>9. UntakenYet'
  BY <1>2, <1>3, <1>4 DEF RInv, UntakenYet, At
<1>10. QED
  BY <1>5, <1>7, <1>8, <1>9 DEF RInv

\* The lines taken lie behind what was taken before, because p alone is at work.
LEMMA AdvanceStep ==
    ASSUME RInv, NEW p \in Procs, Advance(p) PROVE RInv'
<1> DEFINE asked == Humans(proc[p].from, proc[p].upto)
<1>1. /\ proc[p] \in Responders /\ proc[p].at = "read"
      /\ Before <= proc[p].from /\ proc[p].from < proc[p].upto /\ proc[p].upto <= Len(file)
  BY DEF RInv, ResponderTypeOK, Behind, Advance, At
<1>2. asked \subseteq proc[p].from + 1 .. proc[p].upto
  BY DEF Humans
<1>3. /\ offset' = proc[p].upto /\ taken' = taken \cup asked
      /\ twice' = (twice \/ asked \cap taken # {})
      /\ early' = (early \/ asked \cap 1 .. Before # {})
      /\ UNCHANGED <<file, conns, due, lock, crashes, broken>>
  BY DEF Advance, Advanced
<1>4. /\ proc' \in [Procs -> Responders] /\ Others(p)
      /\ proc'[p].at \in {"exiting", "asking"}
  <2>1. \E a \in {"exiting", "asking"} : Goes(p, a)
    BY DEF Advance
  <2>2. QED
    BY <2>1, Gone DEF RInv, ResponderTypeOK, Places
<1> HIDE DEF asked
<1>5. ASSUME NEW q \in Procs PROVE q = p \/ proc'[q] = proc[q]
  BY <1>4 DEF Others
<1>6. Len(file) \in Nat /\ DOMAIN file = 1 .. Len(file) /\ proc[p].from \in Nat /\ proc[p].upto \in Nat
  BY <1>1 DEF RInv, ResponderTypeOK, Responders
<1>7. ResponderTypeOK'
  <2>1. proc[p].upto \in 0 .. Len(file)
    BY <1>1, <1>6
  <2>2. asked \subseteq DOMAIN file
    BY <1>1, <1>2, <1>6
  <2>3. twice' \in BOOLEAN /\ early' \in BOOLEAN
    BY <1>3
  <2>4. QED
    BY <1>3, <1>4, <2>1, <2>2, <2>3 DEF RInv, ResponderTypeOK
<1>8. Behind'
  BY <1>1, <1>3, <1>4, <1>5, <1>6, ResponderAssumption DEF RInv, Behind, At
<1>9. Entered'
  BY <1>1, <1>3, <1>4, NobodyEnters DEF RInv, Inside
<1>10. UntakenYet'
  <2>1. ASSUME ~broken PROVE taken \subseteq 1 .. proc[p].from
    BY <1>1, <2>1 DEF RInv, UntakenYet, At
  <2>2. ASSUME ~broken PROVE taken' \subseteq 1 .. proc[p].upto
    <3>1. \A k \in taken : k \in 1 .. proc[p].upto
      BY <1>1, <1>6, <2>1, <2>2
    <3>2. \A k \in asked : k \in 1 .. proc[p].upto
      BY <1>1, <1>2, <1>6
    <3>3. QED
      BY <1>3, <3>1, <3>2
  <2>3. ASSUME ~broken, NEW q \in Procs PROVE ~At(q, {"read"})'
    <3>1. q = p \/ ~At(q, Inside)
      BY <1>1, <2>3 DEF RInv, Entered, At, Inside
    <3>2. QED
      BY <1>4, <1>5, <3>1 DEF At, Inside
  <2>4. QED
    BY <1>3, <2>2, <2>3 DEF UntakenYet
<1>11. AnsweredOnce'
  <2>1. asked \cap 1 .. Before = {}
    BY <1>1, <1>2, <1>6, ResponderAssumption
  <2>2. ASSUME ~broken PROVE asked \cap taken = {}
    <3>1. taken \subseteq 1 .. proc[p].from
      BY <1>1, <2>2 DEF RInv, UntakenYet, At
    <3>2. QED
      BY <1>2, <1>6, <3>1
  <2>3. QED
    BY <1>3, <2>1, <2>2 DEF RInv, AnsweredOnce
<1>12. QED
  BY <1>7, <1>8, <1>9, <1>10, <1>11 DEF RInv

\* The bridge's steps: the agent is connected at the end of the file.
LEMMA BridgeStep ==
    ASSUME RInv, NEW c \in Conns,
           \/ ConnectAgent(c) \/ StopConnection(c)
           \/ \E kind \in {"human", "agent"} : Arrives(c, kind)
    PROVE  RInv'
<1>1. Len(file) \in Nat /\ offset \in 0 .. Len(file) /\ DOMAIN file = 1 .. Len(file)
  BY DEF RInv, ResponderTypeOK
<1>2. /\ file' \in Seq({"human", "agent", "own"}) /\ Len(file') \in Nat /\ Len(file) <= Len(file')
      /\ DOMAIN file' = 1 .. Len(file')
  BY <1>1 DEF RInv, ResponderTypeOK, ConnectAgent, StopConnection, Arrives
<1>3. UNCHANGED <<lock, proc, crashes, taken, twice, early, broken>>
  BY DEF ConnectAgent, StopConnection, Arrives
<1>4. /\ conns' \subseteq Conns /\ due' \subseteq conns'
      /\ offset' \in {offset, Len(file)}
      /\ offset' = Len(file) \/ conns' \subseteq conns
  BY DEF RInv, ResponderTypeOK, ConnectAgent, StopConnection, Arrives, StartOffset
<1>5. offset <= offset' /\ offset' \in 0 .. Len(file')
  BY <1>1, <1>2, <1>4
<1>6. ResponderTypeOK'
  <2>1. taken' \subseteq DOMAIN file'
    BY <1>1, <1>2, <1>3 DEF RInv, ResponderTypeOK
  <2>2. QED
    BY <1>2, <1>3, <1>4, <1>5, <2>1 DEF RInv, ResponderTypeOK
<1>7. Behind'
  <2>1. ASSUME NEW q \in Procs, proc[q].at = "read" PROVE proc[q].upto \in Nat
    BY DEF RInv, ResponderTypeOK, Responders
  <2>2. QED
    BY <1>1, <1>2, <1>3, <1>4, <1>5, <2>1, ResponderAssumption DEF RInv, Behind, At
<1>8. Entered' /\ AnsweredOnce'
  BY <1>3 DEF RInv, Entered, AnsweredOnce, At
<1>9. UntakenYet'
  <2>1. ASSUME ~broken PROVE taken \subseteq 1 .. offset'
    BY <1>1, <1>5, <2>1 DEF RInv, UntakenYet
  <2>2. QED
    BY <1>3, <2>1 DEF RInv, UntakenYet, At
<1>10. QED
  BY <1>6, <1>7, <1>8, <1>9 DEF RInv

\* The answer is a line more; the lock stays until Unlink.
LEMMA ReplyStep ==
    ASSUME RInv, NEW p \in Procs, Reply(p) PROVE RInv'
<1>1. Len(file) \in Nat /\ offset \in 0 .. Len(file) /\ DOMAIN file = 1 .. Len(file)
  BY DEF RInv, ResponderTypeOK
<1>2. /\ file' \in Seq({"human", "agent", "own"}) /\ Len(file') \in Nat /\ Len(file) <= Len(file')
      /\ DOMAIN file' = 1 .. Len(file')
  BY <1>1 DEF RInv, ResponderTypeOK, Reply
<1>3. UNCHANGED <<conns, due, offset, lock, crashes, taken, twice, early, broken>>
      /\ proc[p].at = "asking"
  BY DEF Reply, At
<1>4. /\ proc' \in [Procs -> Responders] /\ Others(p) /\ proc'[p].at = "leaving"
  BY Gone DEF Reply, RInv, ResponderTypeOK, Places
<1>5. ASSUME NEW q \in Procs PROVE q = p \/ proc'[q] = proc[q]
  BY <1>4 DEF Others
<1>6. ResponderTypeOK'
  <2>1. taken' \subseteq DOMAIN file' /\ offset' \in 0 .. Len(file')
    BY <1>1, <1>2, <1>3 DEF RInv, ResponderTypeOK
  <2>2. QED
    BY <1>2, <1>3, <1>4, <2>1 DEF RInv, ResponderTypeOK
<1>7. Behind'
  <2>1. ASSUME NEW q \in Procs, proc[q].at = "read" PROVE proc[q].upto \in Nat
    BY DEF RInv, ResponderTypeOK, Responders
  <2>2. QED
    BY <1>1, <1>2, <1>3, <1>4, <1>5, <2>1, ResponderAssumption DEF RInv, Behind, At
<1>8. Entered'
  BY <1>3, <1>4, NobodyEnters DEF RInv, Inside
<1>9. UntakenYet' /\ AnsweredOnce'
  BY <1>3, <1>4, <1>5 DEF RInv, UntakenYet, AnsweredOnce, At
<1>10. QED
  BY <1>6, <1>7, <1>8, <1>9 DEF RInv

\* No answer: on to the exit handler.
LEMMA NoReplyStep ==
    ASSUME RInv, NEW p \in Procs, NoReply(p) PROVE RInv'
<1>1. /\ proc' \in [Procs -> Responders] /\ Others(p) /\ proc'[p].at = "exiting"
  BY Gone DEF NoReply, RInv, ResponderTypeOK, Places
<1>2. Before <= offset
  BY DEF NoReply, RInv, Behind, At
<1>3. Entered'
  BY <1>1, NobodyEnters DEF NoReply, RInv, Inside
<1>4. QED
  BY <1>1, <1>2, <1>3, TakesNothing DEF NoReply, RInv, ResponderTypeOK

\* If the lock that is removed is nobody's who works, nobody works.
LEMMA UnlinkStep ==
    ASSUME RInv, NEW p \in Procs, Unlink(p) PROVE RInv'
<1>1. /\ proc' \in [Procs -> Responders] /\ Others(p) /\ proc'[p].at \in {"exiting", "none"}
  <2>1. CASE At(p, {"leaving"})
    BY <2>1, OffIsRecord DEF Unlink, Others, RInv, ResponderTypeOK
  <2>2. CASE ~At(p, {"leaving"})
    BY <2>2, Over DEF Unlink, RInv, ResponderTypeOK
  <2>3. QED
    BY <2>1, <2>2
<1>2. Before <= offset
  BY DEF Unlink, RInv, Behind, At
<1>3. lock' = NoOne
  BY DEF Unlink
<1>4. Entered'
  <2>1. ASSUME NEW q \in Procs PROVE q = p \/ proc'[q] = proc[q]
    BY <1>1 DEF Others
  <2>2. ASSUME ~broken', NEW q \in Procs \ {p} PROVE ~At(q, Inside)
    BY <2>2 DEF Unlink, LockLost, RInv, Entered, At
  <2>3. QED
    BY <1>1, <2>1, <2>2 DEF Unlink, RInv, Entered, At, Inside
<1>5. broken' \in BOOLEAN /\ (broken => broken')
  BY DEF Unlink, LockLost, RInv, ResponderTypeOK
<1>6. QED
  BY <1>1, <1>2, <1>3, <1>4, <1>5, TakesNothing DEF Unlink, RInv, ResponderTypeOK

\* Its lock stays behind.
LEMMA KilledStep ==
    ASSUME RInv, NEW p \in Procs, Killed(p) PROVE RInv'
<1>1. /\ proc' \in [Procs -> Responders] /\ Others(p) /\ proc'[p].at = "none"
  BY Over DEF Killed, RInv, ResponderTypeOK
<1>2. Entered'
  BY <1>1, NobodyEnters DEF Killed, RInv, Inside
<1>3. crashes' \in 0 .. MaxCrashes
  BY ResponderAssumption DEF Killed, Breaks, RInv, ResponderTypeOK
<1>4. QED
  BY <1>1, <1>2, <1>3, TakesNothing DEF Killed, RInv, ResponderTypeOK

\* An old lock is still its owner's.
LEMMA LockAgesStep == ASSUME RInv, LockAges PROVE RInv'
<1>1. lock \in Locks /\ lock' = [lock EXCEPT !.stale = TRUE]
  BY DEF LockAges, Held, RInv, ResponderTypeOK
<1>2. lock' \in Locks /\ lock'.owner = lock.owner
  BY <1>1 DEF Locks
<1>3. UNCHANGED <<file, conns, due, offset, proc, taken, twice, early, broken>>
  BY DEF LockAges
<1>4. crashes' \in 0 .. MaxCrashes
  BY ResponderAssumption DEF LockAges, Breaks, RInv, ResponderTypeOK
<1>5. ResponderTypeOK' /\ Behind' /\ UntakenYet' /\ AnsweredOnce'
  BY <1>2, <1>3, <1>4 DEF RInv, ResponderTypeOK, Behind, UntakenYet, AnsweredOnce, At
<1>6. Entered'
  BY <1>2, <1>3, ResponderAssumption DEF RInv, Entered, At
<1>7. QED
  BY <1>5, <1>6 DEF RInv

\* One case per kind of action.
LEMMA NextRInv == RInv /\ [ResponderNext]_responderVars => RInv'
<1> SUFFICES ASSUME RInv, [ResponderNext]_responderVars PROVE RInv'
  OBVIOUS
<1>1. ASSUME NEW c \in Conns,
             \/ ConnectAgent(c) \/ StopConnection(c)
             \/ Arrives(c, "human") \/ Arrives(c, "agent")
      PROVE  RInv'
  BY <1>1, BridgeStep
<1>2. ASSUME NEW c \in Conns, NEW p \in Procs, WakeUp(c, p) PROVE RInv'
  BY <1>2, WakeUpStep
<1>3. ASSUME NEW p \in Procs,
             \/ TestLock(p) \/ WriteLock(p) \/ ReadFile(p) \/ Advance(p)
             \/ Reply(p) \/ NoReply(p) \/ Unlink(p) \/ Killed(p)
      PROVE  RInv'
  BY <1>3, TestLockStep, WriteLockStep, ReadFileStep, AdvanceStep, ReplyStep, NoReplyStep,
     UnlinkStep, KilledStep
<1>4. CASE LockAges
  BY <1>4, LockAgesStep
<1>5. CASE UNCHANGED responderVars
  BY <1>5 DEF responderVars, RInv, ResponderTypeOK, Behind, Entered, UntakenYet, AnsweredOnce, At
<1>6. QED
  BY <1>1, <1>2, <1>3, <1>4, <1>5 DEF ResponderNext

\* The inductive invariant, for any number of connections and processes.
THEOREM ResponderInvariant == ResponderSpec => []RInv
BY InitRInv, NextRInv, PTL DEF ResponderSpec

\* No line is put to the CLI twice, nor one from before the connection, unless
\* a lock was lost while its owner was at work (bridge/responder.mjs:25-93).
THEOREM LinesAnsweredOnce == ResponderSpec => []AnsweredOnce
<1>1. RInv => AnsweredOnce
  BY DEF RInv
<1>2. QED
  BY <1>1, ResponderInvariant, PTL

-----------------------------------------------------------------------------
(***************************************************************************)
(* An agent does nothing through a tool that its operator has not given it *)
(* leave to do, for any number of projects and of calls at once.           *)
(*                                                                         *)
(* The property speaks of calls that act.  The invariant says of every     *)
(* call, at each of its queries, what has held since it began (Learnt):    *)
(* the facts it has read, and those that stand now (StandingSeen).         *)
(***************************************************************************)

Later == {"membership", "mode", "act"}
Final == {"mode", "act"}

\* What has been so of the project of call d by the time of its next query.
Learnt(d) ==
    /\ d.at # "none" => d.group \in Projects
    /\ d.at = "membership" => d.kind # "list"
    /\ d.at \in Later => "there" \in d.had /\ (d.state = "open" => "thawed" \in d.had)
    /\ d.at \in Final => /\ "seen" \in d.had
                         /\ d.role # None => "joined" \in d.had
                         /\ d.role = "admin" => "admin" \in d.had
                         /\ d.kind = "list" => d.role # None
    /\ d.at = "act" => Needs(d.kind) \subseteq d.had

\* What stands has been so since the call began.
StandingSeen(d) == d.at # "none" => Holds(d.group) \subseteq d.had

TablesOK ==
    /\ role \in [Projects -> {None, "member", "admin"}]
    /\ dial \in [Projects -> Modes \cup {None}]
    /\ open \in [Projects -> Options]
    /\ turning \subseteq [group : Projects, mode : Modes]

CallsOK ==
    /\ call \in [ToolCalls -> Calls]
    /\ \A c \in ToolCalls : Learnt(call[c]) /\ StandingSeen(call[c])

ToolsInv == TablesOK /\ CallsOK

-----------------------------------------------------------------------------
\* The facts about a project, one by one.
LEMMA FactsOf ==
    ASSUME NEW g
    PROVE  /\ Holds(g) \subseteq Facts
           /\ open[g] # "deleted" => "there" \in Holds(g)
           /\ open[g] = "open" => "thawed" \in Holds(g)
           /\ g \notin Closed \/ role[g] # None => "seen" \in Holds(g)
           /\ role[g] # None => "joined" \in Holds(g)
           /\ role[g] = "admin" => "admin" \in Holds(g)
           /\ Lets(g, "watch") \/ Lets(g, "participate") => "watch" \in Holds(g)
           /\ Lets(g, "participate") => "participate" \in Holds(g)
BY DEF Holds, Facts

\* The mode that a call reads is one that the operator has let stand.
LEMMA ModeStands ==
    ASSUME TablesOK, NEW g \in Projects, Mode(g) # "none"
    PROVE  /\ "watch" \in Holds(g)
           /\ Mode(g) = "participate" => "participate" \in Holds(g)
<1>1. dial[g] \in Modes \cup {None}
  BY DEF TablesOK
<1>2. /\ Lets(g, "watch") \/ Lets(g, "participate")
      /\ Mode(g) = "participate" => Lets(g, "participate")
  BY <1>1 DEF Mode, DefaultMode, Lets, Modes
<1>3. QED
  BY <1>2, FactsOf

\* A slot that is free claims nothing.
LEMMA FreeSlot == NoCall \in Calls /\ NoCall.at = "none" /\ Learnt(NoCall)
<1>1. NoCall \in Calls /\ NoCall.at = "none"
  BY DEF NoCall, Calls, Kinds, Options, Facts
<1>2. QED
  BY <1>1 DEF Learnt, Later, Final

\* The calls.
LEMMA InFlight ==
    ASSUME ToolsInv, NEW c \in ToolCalls
    PROVE  /\ call \in [ToolCalls -> Calls] /\ call[c] \in Calls
           /\ Learnt(call[c]) /\ StandingSeen(call[c])
BY DEF ToolsInv, CallsOK

-----------------------------------------------------------------------------
(* The steps of a call.                                                      *)

\* Call c goes on as d, and nothing turns.
LEMMA OneMoves ==
    ASSUME ToolsInv, NEW c \in ToolCalls, NEW d \in Calls,
           call' = [call EXCEPT ![c] = d], Learnt(d), StandingSeen(d),
           UNCHANGED <<role, dial, open, turning>>
    PROVE  ToolsInv'
<1>1. role' = role /\ dial' = dial /\ open' = open /\ turning' = turning
  OBVIOUS
<1>2. TablesOK'
  BY <1>1 DEF ToolsInv, TablesOK
<1>3. \A g : Holds(g)' = Holds(g)
  BY <1>1 DEF Holds, Lets
<1>4. /\ call' \in [ToolCalls -> Calls] /\ call'[c] = d
      /\ \A b \in ToolCalls \ {c} : call'[b] = call[b]
  BY InFlight
<1>5. ASSUME NEW b \in ToolCalls PROVE Learnt(call'[b]) /\ StandingSeen(call[b])'
  <2>1. CASE b = c
    BY <1>3, <1>4, <2>1 DEF StandingSeen
  <2>2. CASE b # c
    BY <1>3, <1>4, <2>2, InFlight DEF StandingSeen
  <2>3. QED
    BY <2>1, <2>2
<1>6. CallsOK'
  BY <1>4, <1>5 DEF CallsOK, Learnt
<1>7. QED
  BY <1>2, <1>6 DEF ToolsInv

\* A call is over.
LEMMA CallEnds ==
    ASSUME ToolsInv, NEW c \in ToolCalls, CallOver(c), UNCHANGED <<role, dial, open, turning>>
    PROVE  ToolsInv'
<1>1. PICK d : d = NoCall
  OBVIOUS
<1>2. d \in Calls /\ Learnt(d) /\ StandingSeen(d) /\ call' = [call EXCEPT ![c] = d]
  BY <1>1, FreeSlot DEF StandingSeen, CallOver
<1>3. QED
  BY <1>2, OneMoves

\* A call begins with what stands.
LEMMA StartCallOK ==
    ASSUME ToolsInv, NEW c \in ToolCalls, NEW kind \in Kinds, NEW g \in Projects,
           StartCall(c, kind, g)
    PROVE  ToolsInv'
<1>1. PICK d : d = [NoCall EXCEPT !.at = "group", !.kind = kind, !.group = g, !.had = Holds(g)]
  OBVIOUS
<1>2. d = [at |-> "group", kind |-> kind, group |-> g, state |-> "open", role |-> None,
           had |-> Holds(g)]
  BY <1>1 DEF NoCall
<1>3. d \in Calls /\ d.at = "group" /\ d.group = g /\ d.had = Holds(g)
  BY <1>2, FactsOf DEF Calls, Options
<1>4. Learnt(d) /\ StandingSeen(d)
  BY <1>3 DEF Learnt, StandingSeen, Later, Final
<1>5. call' = [call EXCEPT ![c] = d] /\ UNCHANGED <<role, dial, open, turning>>
  BY <1>1 DEF StartCall
<1>6. QED
  BY <1>3, <1>4, <1>5, OneMoves

\* The list has the project: it is there, and the operator belongs to it.
LEMMA ListMyProjectsOK ==
    ASSUME ToolsInv, NEW c \in ToolCalls, ListMyProjects(c)
    PROVE  ToolsInv'
<1>1. /\ call[c] \in Calls /\ Learnt(call[c]) /\ StandingSeen(call[c])
      /\ call[c].at = "group" /\ call[c].kind = "list"
      /\ UNCHANGED <<role, dial, open, turning>>
  BY InFlight DEF ListMyProjects
<1>2. PICK g \in Projects : g = call[c].group
  BY <1>1 DEF Learnt
<1>3. CASE open[g] = "deleted" \/ role[g] = None
  BY <1>1, <1>2, <1>3, CallEnds DEF ListMyProjects
<1>4. CASE ~(open[g] = "deleted" \/ role[g] = None)
  <2>1. PICK d : d = [call[c] EXCEPT !.at = "mode", !.state = open[g], !.role = role[g]]
    OBVIOUS
  <2>2. role[g] \in {None, "member", "admin"} /\ open[g] \in Options
    BY DEF ToolsInv, TablesOK
  <2>3. /\ d \in Calls /\ d.at = "mode" /\ d.state = open[g] /\ d.role = role[g]
        /\ d.group = g /\ d.kind = "list" /\ d.had = call[c].had
    BY <1>1, <1>2, <2>1, <2>2 DEF Calls
  <2>4. call' = [call EXCEPT ![c] = d]
    BY <1>2, <1>4, <2>1 DEF ListMyProjects
  <2>5. Holds(g) \subseteq d.had
    BY <1>1, <1>2, <2>3 DEF StandingSeen
  <2>6. Learnt(d) /\ StandingSeen(d)
    BY <1>4, <2>3, <2>5, FactsOf DEF Learnt, StandingSeen, Later, Final
  <2>7. QED
    BY <1>1, <2>3, <2>4, <2>6, OneMoves
<1>5. QED
  BY <1>3, <1>4

\* The project is there, and frozen or not.
LEMMA ReadProjectOK ==
    ASSUME ToolsInv, NEW c \in ToolCalls, ReadProject(c)
    PROVE  ToolsInv'
<1>1. /\ call[c] \in Calls /\ Learnt(call[c]) /\ StandingSeen(call[c])
      /\ call[c].at = "group" /\ call[c].kind # "list"
      /\ UNCHANGED <<role, dial, open, turning>>
  BY InFlight DEF ReadProject
<1>2. PICK g \in Projects : g = call[c].group
  BY <1>1 DEF Learnt
<1>3. CASE open[g] = "deleted"
  BY <1>1, <1>2, <1>3, CallEnds DEF ReadProject
<1>4. CASE open[g] # "deleted"
  <2>1. PICK d : d = [call[c] EXCEPT !.at = "membership", !.state = open[g]]
    OBVIOUS
  <2>2. open[g] \in Options
    BY DEF ToolsInv, TablesOK
  <2>3. /\ d \in Calls /\ d.at = "membership" /\ d.state = open[g]
        /\ d.group = g /\ d.kind # "list" /\ d.had = call[c].had
    BY <1>1, <1>2, <2>1, <2>2 DEF Calls
  <2>4. call' = [call EXCEPT ![c] = d]
    BY <1>2, <1>4, <2>1 DEF ReadProject
  <2>5. Holds(g) \subseteq d.had
    BY <1>1, <1>2, <2>3 DEF StandingSeen
  <2>6. Learnt(d) /\ StandingSeen(d)
    BY <1>4, <2>3, <2>5, FactsOf DEF Learnt, StandingSeen, Later, Final
  <2>7. QED
    BY <1>1, <2>3, <2>4, <2>6, OneMoves
<1>5. QED
  BY <1>3, <1>4

\* The operator may see the project, and has a role in it or not.
LEMMA ReadMembershipOK ==
    ASSUME ToolsInv, NEW c \in ToolCalls, ReadMembership(c)
    PROVE  ToolsInv'
<1>1. /\ call[c] \in Calls /\ Learnt(call[c]) /\ StandingSeen(call[c])
      /\ call[c].at = "membership"
      /\ UNCHANGED <<role, dial, open, turning>>
  BY InFlight DEF ReadMembership
<1>2. PICK g \in Projects : g = call[c].group
  BY <1>1 DEF Learnt
<1>3. CASE role[g] = None /\ g \in Closed
  BY <1>1, <1>2, <1>3, CallEnds DEF ReadMembership
<1>4. CASE ~(role[g] = None /\ g \in Closed)
  <2>1. PICK d : d = [call[c] EXCEPT !.at = "mode", !.role = role[g]]
    OBVIOUS
  <2>2. role[g] \in {None, "member", "admin"}
    BY DEF ToolsInv, TablesOK
  <2>3. /\ d \in Calls /\ d.at = "mode" /\ d.state = call[c].state /\ d.role = role[g]
        /\ d.group = g /\ d.kind # "list" /\ d.had = call[c].had
    BY <1>1, <1>2, <2>1, <2>2 DEF Calls, Learnt
  <2>4. call' = [call EXCEPT ![c] = d]
    BY <1>2, <1>4, <2>1 DEF ReadMembership
  <2>5. Holds(g) \subseteq d.had
    BY <1>1, <1>2, <2>3 DEF StandingSeen
  <2>6. Learnt(d) /\ StandingSeen(d)
    BY <1>1, <1>4, <2>3, <2>5, FactsOf DEF Learnt, StandingSeen, Later, Final
  <2>7. QED
    BY <1>1, <2>3, <2>4, <2>6, OneMoves
<1>5. QED
  BY <1>3, <1>4

\* The mode is the last thing that is read.
LEMMA ReadModeOK ==
    ASSUME ToolsInv, NEW c \in ToolCalls, ReadMode(c)
    PROVE  ToolsInv'
<1>1. /\ call[c] \in Calls /\ Learnt(call[c]) /\ StandingSeen(call[c])
      /\ call[c].at = "mode"
      /\ UNCHANGED <<role, dial, open, turning>>
  BY InFlight DEF ReadMode
<1>2. PICK g \in Projects : g = call[c].group
  BY <1>1 DEF Learnt
<1>3. CASE CallOver(c)
  BY <1>1, <1>3, CallEnds
<1>4. CASE May(c, Mode(g)) /\ call' = [call EXCEPT ![c].at = "act"]
  <2>1. PICK d : d = [call[c] EXCEPT !.at = "act"]
    OBVIOUS
  <2>2. /\ d \in Calls /\ d.at = "act" /\ d.state = call[c].state
        /\ d.role = call[c].role /\ d.group = g /\ d.kind = call[c].kind
        /\ d.had = call[c].had /\ d.kind \in Kinds
    BY <1>1, <1>2, <2>1 DEF Calls
  <2>3. call' = [call EXCEPT ![c] = d]
    BY <1>4, <2>1
  <2>4. Holds(g) \subseteq d.had
    BY <1>1, <1>2, <2>2 DEF StandingSeen
  <2>5. /\ "there" \in d.had /\ "seen" \in d.had
        /\ d.state = "open" => "thawed" \in d.had
        /\ d.role # None => "joined" \in d.had
        /\ d.role = "admin" => "admin" \in d.had
        /\ d.kind = "list" => d.role # None
    BY <1>1, <2>2 DEF Learnt, Later, Final
  <2>6. "watch" \in d.had /\ (Mode(g) = "participate" => "participate" \in d.had)
    BY <1>4, <2>4, ModeStands DEF May, ToolsInv
  <2>7. Needs(d.kind) \subseteq d.had
    <3>1. CASE d.kind = "read"
      BY <2>5, <2>6, <3>1 DEF Needs
    <3>2. CASE d.kind = "list"
      BY <2>5, <2>6, <3>2 DEF Needs
    <3>3. CASE d.kind = "message"
      BY <1>4, <2>2, <2>5, <2>6, <3>3 DEF Needs, May, Posts
    <3>4. CASE d.kind = "checkpoint"
      BY <1>4, <2>2, <2>5, <2>6, <3>4 DEF Needs, May, Posts
    <3>5. QED
      BY <2>2, <3>1, <3>2, <3>3, <3>4 DEF Kinds
  <2>8. Learnt(d) /\ StandingSeen(d)
    BY <2>2, <2>4, <2>5, <2>7 DEF Learnt, StandingSeen
  <2>9. QED
    BY <1>1, <2>2, <2>3, <2>8, OneMoves
<1>5. QED
  BY <1>2, <1>3, <1>4 DEF ReadMode

-----------------------------------------------------------------------------
(* The steps around the calls.                                               *)

\* The tables change: each call under way has seen what stands now as well.
LEMMA TurnOK ==
    ASSUME ToolsInv, Turn, TablesOK'
    PROVE  ToolsInv'
<1>1. call' = [c \in ToolCalls |-> IF call[c].at = "none" THEN NoCall
                 ELSE [call[c] EXCEPT !.had = @ \cup Hold'[call[c].group]]]
  BY DEF Turn
<1>2. ASSUME NEW c \in ToolCalls
      PROVE  call'[c] \in Calls /\ Learnt(call'[c]) /\ StandingSeen(call[c])'
  <2>1. call[c] \in Calls /\ Learnt(call[c])
    BY InFlight
  <2>2. CASE call[c].at = "none"
    <3>1. call'[c] = NoCall
      BY <1>1, <2>2
    <3>2. QED
      BY <3>1, FreeSlot DEF StandingSeen
  <2>3. CASE call[c].at # "none"
    <3>1. PICK g \in Projects : g = call[c].group
      BY <2>1, <2>3 DEF Learnt
    <3>2. Hold'[g] = Holds(g)'
      BY DEF Hold
    <3>3. PICK d : d = [call[c] EXCEPT !.had = @ \cup Holds(g)']
      OBVIOUS
    <3>4. call'[c] = d
      BY <1>1, <2>3, <3>1, <3>2, <3>3
    <3>5. Holds(g)' \subseteq Facts
      BY DEF Holds
    <3>6. /\ d \in Calls /\ d.at = call[c].at /\ d.kind = call[c].kind
          /\ d.group = g /\ d.state = call[c].state /\ d.role = call[c].role
          /\ d.had = call[c].had \cup Holds(g)'
      BY <2>1, <3>1, <3>3, <3>5 DEF Calls
    <3>7. Learnt(d)
      BY <2>1, <3>1, <3>6 DEF Learnt
    <3>8. StandingSeen(call[c])'
      BY <3>4, <3>6 DEF StandingSeen
    <3>9. QED
      BY <3>4, <3>6, <3>7, <3>8
  <2>4. QED
    BY <2>2, <2>3
<1>3. call' \in [ToolCalls -> Calls]
  BY <1>1, <1>2
<1>4. CallsOK'
  BY <1>2, <1>3 DEF CallsOK, Learnt
<1>5. QED
  BY <1>4 DEF ToolsInv

\* The operator and the others.
LEMMA TurnsOK ==
    ASSUME ToolsInv,
           \/ \E g \in Projects : \/ \E r \in {None, "member", "admin"} : Membership(g, r)
                                  \/ \E o \in Options : Standing(g, o)
                                  \/ \E mode \in Modes : AskDial(g, mode)
           \/ \E t \in turning : SetDial(t)
    PROVE  ToolsInv'
<1>1. ASSUME NEW g \in Projects, NEW r \in {None, "member", "admin"}, Membership(g, r)
      PROVE  ToolsInv'
  BY <1>1, TurnOK DEF Membership, ToolsInv, TablesOK
<1>2. ASSUME NEW g \in Projects, NEW o \in Options, Standing(g, o)
      PROVE  ToolsInv'
  BY <1>2, TurnOK DEF Standing, ToolsInv, TablesOK
<1>3. ASSUME NEW g \in Projects, NEW mode \in Modes, AskDial(g, mode)
      PROVE  ToolsInv'
  BY <1>3, TurnOK DEF AskDial, ToolsInv, TablesOK
<1>4. ASSUME NEW t \in turning, SetDial(t)
      PROVE  ToolsInv'
  <2>1. t.group \in Projects /\ t.mode \in Modes
    BY DEF ToolsInv, TablesOK
  <2>2. TablesOK'
    BY <1>4, <2>1 DEF SetDial, ToolsInv, TablesOK
  <2>3. QED
    BY <1>4, <2>2, TurnOK DEF SetDial
<1>5. QED
  BY <1>1, <1>2, <1>3, <1>4

\* A step that turns nothing and moves no call.
LEMMA AsideOK ==
    ASSUME ToolsInv, role' = role, dial' = dial, open' = open, turning' = turning,
           call' = call
    PROVE  ToolsInv'
<1>1. \A g : Holds(g)' = Holds(g)
  BY DEF Holds, Lets
<1>2. QED
  BY <1>1 DEF ToolsInv, TablesOK, CallsOK, Learnt, StandingSeen

\* The server process ends, and every call with it.
LEMMA ToolsRestartOK ==
    ASSUME ToolsInv, ToolsRestart
    PROVE  ToolsInv'
<1>1. /\ role' = role /\ dial' = dial /\ open' = open /\ turning' = {}
      /\ call' = [c \in ToolCalls |-> NoCall]
  BY DEF ToolsRestart
<1>2. TablesOK'
  BY <1>1 DEF ToolsInv, TablesOK
<1>3. CallsOK'
  BY <1>1, FreeSlot DEF CallsOK, StandingSeen, Learnt
<1>4. QED
  BY <1>2, <1>3 DEF ToolsInv

\* No call is under way.
LEMMA InitOK == ToolsInit => ToolsInv
<1> SUFFICES ASSUME ToolsInit PROVE ToolsInv
  OBVIOUS
<1>1. TablesOK
  BY DEF ToolsInit, TablesOK, Options
<1>2. CallsOK
  BY FreeSlot DEF ToolsInit, CallsOK, StandingSeen
<1>3. QED
  BY <1>1, <1>2 DEF ToolsInv

\* No step breaks it.
LEMMA NextOK ==
    ASSUME ToolsInv, [ToolsNext]_<<messages, toolsVars>>
    PROVE  ToolsInv'
<1>1. ASSUME NEW c \in ToolCalls, Act(c) \/ ReadMessages(c) \/ CallFails(c)
      PROVE  ToolsInv'
  BY <1>1, CallEnds DEF Act, ReadMessages, CallFails
<1>2. ASSUME NEW c \in ToolCalls,
             \/ \E kind \in Kinds, g \in Projects : StartCall(c, kind, g)
             \/ ListMyProjects(c) \/ ReadProject(c) \/ ReadMembership(c) \/ ReadMode(c)
      PROVE  ToolsInv'
  BY <1>2, StartCallOK, ListMyProjectsOK, ReadProjectOK, ReadMembershipOK, ReadModeOK
<1>3. CASE MinutePasses
  BY <1>3, AsideOK DEF MinutePasses
<1>4. ASSUME NEW i \in DOMAIN messages, ActEnds(i)
      PROVE  ToolsInv'
  BY <1>4, AsideOK DEF ActEnds, toolsVars
<1>5. CASE UNCHANGED <<messages, toolsVars>>
  BY <1>5, AsideOK DEF toolsVars
<1>6. QED
  BY <1>1, <1>2, <1>3, <1>4, <1>5, TurnsOK, ToolsRestartOK DEF ToolsNext

\* The strengthened invariant.
THEOREM ToolsInvariant == ToolsSpec => []ToolsInv
<1>1. ToolsInv /\ [ToolsNext]_<<messages, toolsVars>> => ToolsInv'
  BY NextOK
<1>2. QED
  BY InitOK, <1>1, PTL DEF ToolsSpec

\* Whatever the operator and others change while a tool runs, each thing that
\* its act needs was so at some moment of the call (src/mcp.js:108-127).
THEOREM AgentsHadLeave == ToolsSpec => []ActsHadLeave
<1>1. ToolsInv => ActsHadLeave
  BY DEF ToolsInv, CallsOK, Learnt, ActsHadLeave
<1>2. QED
  BY <1>1, ToolsInvariant, PTL

=============================================================================
