----------------------------- MODULE PagesProofs -----------------------------
(***************************************************************************)
(* Proofs about the two browser pages: that a thread has no hole but the   *)
(* ones there is an excuse for, and that MCReaders, where all readers of   *)
(* the board meet, is typed.                                               *)
(*                                                                         *)
(* That the thread is whole is an invariant of many parts: what an answer  *)
(* lacks behind its cursor, what waits on the socket and in what order,    *)
(* and that a project's messages are each shown, excused or on their way.  *)
(* Of answers and sockets that the page has left behind (stale) it says    *)
(* nothing: whatever they put in the thread, what lies below is lost.      *)
(***************************************************************************)
EXTENDS ReadersProofs

-----------------------------------------------------------------------------
(* The invariant.  In the definitions that name no variable, V are the       *)
(* visible messages of the project shown, T those told, E the excused ones.  *)

Among(j, s) == \E n \in DOMAIN s : s[n] = j

\* A message may be missing if it was overtaken, or will be when it is told.
Excusable(j, T, E) == j \in E \/ (j \notin T /\ Overtaken(j, T))

Whole(S, V, T, E) == \A j \in V : j < LastOf(S) => j \in S \/ Excusable(j, T, E)

\* What is shown is of this project, or all below it is excused.
Sound(S, V, E) == \A i \in S : i \in V \/ 1 .. i \subseteq E

\* What comes out of turn is excused.
InTurn(s, E)     == \A p, q \in DOMAIN s : p < q /\ s[q] < s[p] => s[q] \in E
Precedes(s, w, E) == \A p \in DOMAIN s, q \in DOMAIN w : w[q] < s[p] => w[q] \in E

\* An answer to a backfill that is not cut off by PageLimit.
Partial(a) == a.kind = "backfill" /\ a.st = "answered" /\ Cardinality(a.got) # PageLimit

\* j is not behind the cursor of a backfill, or in hand with it.
Covers(a, j, E) == j <= a.after \/ j \in a.got \/ j \in E \/ Among(j, a.held)

\* Behind its cursor an answer has all there is up to its last message.
Gapless(a, V, E) ==
    a.kind # "post" =>
        \A i \in a.got, j \in V : a.after < j /\ j < i => j \in a.got \/ j \in E

AskOK(a, V, T, E) ==
    /\ a.kind = "history" => a.after = 0
    /\ a.st # "answered" => a.got = {}
    /\ a.got \subseteq V
    /\ a.kind = "post" => a.got \subseteq {a.after} \cap T
    /\ Gapless(a, V, E)
    /\ \A n \in DOMAIN a.held : a.held[n] \in T
    /\ InTurn(a.held, E)
    /\ Partial(a) => \A n \in DOMAIN a.held, j \in T : j < a.held[n] => Covers(a, j, E)

\* Of the project shown: what is stored, and what of that has been told.
Here  == Visible(cur)
Heard == Told(cur)

\* What the thread may lack: the excused messages, and all below a stale one.
Lost == excused \cup (1 .. stray)

Asked ==
    \A k \in DOMAIN asks : ~asks[k].stale =>
        /\ asks[k].group = cur
        /\ AskOK(asks[k], Here, Heard, excused)
        /\ asks[k].kind = "post" =>
              asks[k].after \in DOMAIN messages /\ messages[asks[k].after].group = cur

Cursors ==
    \A k \in DOMAIN asks :
        ~asks[k].stale /\ asks[k].kind # "post" => asks[k].after <= LastId

Queue ==
    ~ws.stale =>
        /\ ws.group = cur
        /\ InTurn(ws.inbox, excused)
        /\ \A k \in DOMAIN asks :
              ~asks[k].stale => Precedes(asks[k].held, ws.inbox, excused)

Thread ==
    /\ Sound(shown, Here, Lost) /\ Whole(shown, Here, Heard, Lost)
    /\ stray \in shown \cup {0}

Accounted(j) == j \in shown \/ j \in Lost \/ Among(j, ws.inbox)

Backfilled == \A k \in DOMAIN asks : ~Backfilling(k)

ClassicOK ==
    /\ \A k \in DOMAIN asks : asks[k].kind = "backfill" /\ ws.stale => asks[k].stale
    /\ \A k \in DOMAIN asks : Backfilling(k) => asks[k].stale = ws.stale
    /\ ~ws.stale /\ ws.st \in {"dialing", "joined"} => Backfilled
    /\ ~ws.stale /\ ws.st = "open" =>
        /\ Backfilled => \A j \in Heard : Accounted(j)
        /\ \A k \in DOMAIN asks : Backfilling(k) /\ Partial(asks[k]) =>
              \A j \in Heard : Covers(asks[k], j, excused) \/ Among(j, ws.inbox)

HomeOK ==
    ~ws.stale /\ ws.st \in {"joined", "open"} => \A j \in Heard : Accounted(j)

Following ==
    /\ Asked /\ Cursors /\ Queue /\ Thread
    /\ reader = "classic" => ClassicOK
    /\ reader = "home" => HomeOK

\* The socket, whatever the page shows.
SocketOK ==
    /\ ws.group = None => ws = NoSocket
    /\ ws.st \notin {"joined", "open"} => ws.inbox = <<>>
    /\ \A m \in DOMAIN ws.inbox : ws.inbox[m] \in Told(ws.group)

\* Answers and what waits are ids of messages.
Known ==
    \A k \in DOMAIN asks :
        /\ asks[k].got \subseteq DOMAIN messages
        /\ \A n \in DOMAIN asks[k].held : asks[k].held[n] \in DOMAIN messages

PageOK ==
    /\ BoardTypeOK /\ PageTypeOK /\ SocketOK /\ Known
    /\ cur # None => Following

-----------------------------------------------------------------------------
(* The first limit messages of a set.                                        *)

LEMMA OldestFirst ==
    ASSUME NEW n \in Nat, NEW S \in SUBSET (1 .. n), NEW l \in Nat,
           NEW i \in Oldest(S, l), NEW j \in S, j < i
    PROVE  j \in Oldest(S, l)
<1> DEFINE B(k) == {m \in S : m < k}
<1>1. IsFiniteSet(B(i)) /\ B(j) \subseteq B(i)
  <2>1. IsFiniteSet(1 .. n)
    BY FS_Interval
  <2>2. B(i) \subseteq 1 .. n
    OBVIOUS
  <2>3. IsFiniteSet(B(i))
    BY <2>1, <2>2, FS_Subset
  <2>4. i \in S /\ \A m \in S : m \in Int
    BY DEF Oldest
  <2>5. ASSUME NEW m \in B(j) PROVE m \in B(i)
    <3>1. m \in S /\ m < j /\ m \in Int /\ j \in Int /\ i \in Int
      BY <2>4
    <3>2. QED
      BY <3>1
  <2>6. QED
    BY <2>3, <2>5
<1>2. /\ Cardinality(B(j)) <= Cardinality(B(i))
      /\ Cardinality(B(j)) \in Nat /\ Cardinality(B(i)) \in Nat
  BY <1>1, FS_Subset, FS_CardinalityType
<1>3. Cardinality(B(i)) < l
  BY DEF Oldest
<1>4. Cardinality(B(j)) < l
  BY <1>2, <1>3
<1>5. QED
  BY <1>4 DEF Oldest

\* A page of less than limit messages leaves none behind.
LEMMA ShortPageIsAll ==
    ASSUME NEW n \in Nat, NEW S \in SUBSET (1 .. n), NEW l \in Nat,
           Cardinality(Oldest(S, l)) # l
    PROVE  Oldest(S, l) = S
<1> DEFINE B(k) == {m \in S : m < k}
           O == Oldest(S, l)
<1>1. /\ \A m \in S : m \in Nat
      /\ O \subseteq S /\ IsFiniteSet(O) /\ Cardinality(O) \in Nat
  <2>1. IsFiniteSet(1 .. n) /\ O \subseteq S /\ S \subseteq 1 .. n
    BY FS_Interval DEF Oldest
  <2>2. IsFiniteSet(O)
    BY <2>1, FS_Subset
  <2>3. \A m \in 1 .. n : m \in Nat
    OBVIOUS
  <2>4. QED
    BY <2>1, <2>2, <2>3, FS_CardinalityType
<1>2. SUFFICES ASSUME O # S PROVE FALSE
  OBVIOUS
<1>3. PICK k \in S \ O : \A m \in S \ O : k <= m
  <2>1. S \ O \in SUBSET Nat /\ S \ O # {}
    BY <1>1, <1>2
  <2> HIDE DEF O
  <2>2. QED
    BY <2>1, Least
<1>4. O = B(k)
  <2>1. \A m \in S : m < k => m \in O
    BY <1>1, <1>3
  <2>2. ASSUME NEW i \in O, ~ (i < k) PROVE FALSE
    <3>1. k < i
      <4>1. i \in Nat /\ k \in Nat /\ i # k
        BY <1>1, <1>3, <2>2
      <4>2. QED
        BY <2>2, <4>1
    <3>2. k \in O
      BY <1>3, <3>1, OldestFirst
    <3>3. QED
      BY <1>3, <3>2
  <2>3. QED
    BY <1>1, <2>1, <2>2
<1>5. Cardinality(O) >= l
  <2>1. ~ (Cardinality(B(k)) < l)
    BY <1>3 DEF Oldest
  <2>2. QED
    BY <1>1, <1>4, <2>1
<1>6. Cardinality(O) <= l
  <2>1. CASE O = {}
    BY <2>1, FS_EmptySet
  <2>2. CASE O # {}
    <3>1. O \in SUBSET (0 .. n)
      <4>1. S \in SUBSET (0 .. n)
        OBVIOUS
      <4> HIDE DEF O
      <4>2. QED
        BY <1>1, <4>1
    <3>2. PICK i \in O : \A j \in O : j <= i
      <4> HIDE DEF O
      <4>1. QED
        BY <2>2, <3>1, Greatest
    <3>3. i \in S /\ Cardinality(B(i)) < l
      BY <3>2 DEF Oldest
    <3>4. O = B(i) \cup {i}
      <4>1. ASSUME NEW j \in O PROVE j \in B(i) \cup {i}
        <5> HIDE DEF O
        <5>1. j \in S /\ j \in Nat /\ i \in Nat /\ j <= i
          BY <1>1, <3>2
        <5>2. QED
          BY <5>1
      <4>2. \A j \in B(i) : j \in O
        BY <3>2, OldestFirst
      <4>3. QED
        BY <3>2, <4>1, <4>2
    <3>5. IsFiniteSet(B(i)) /\ i \notin B(i)
      <4>1. B(i) \subseteq O
        BY <3>4
      <4>2. QED
        BY <1>1, <4>1, <3>3, FS_Subset
    <3>6. Cardinality(O) = Cardinality(B(i)) + 1 /\ Cardinality(B(i)) \in Nat
      <4> HIDE DEF B
      <4>1. Cardinality(B(i) \cup {i}) = Cardinality(B(i)) + 1
        BY <3>5, FS_AddElement
      <4>2. QED
        BY <3>4, <3>5, <4>1, FS_CardinalityType
    <3>7. QED
      BY <3>3, <3>6
  <2>3. QED
    BY <2>1, <2>2
<1>7. QED
  BY <1>1, <1>5, <1>6

-----------------------------------------------------------------------------
(* What is shown.                                                            *)

LEMMA RenderedSet ==
    ASSUME NEW n \in Nat, NEW S \in SUBSET (1 .. n), NEW P \in SUBSET (1 .. n)
    PROVE  /\ Rendered(S, P) \in SUBSET (1 .. n)
           /\ S \subseteq Rendered(S, P) /\ Rendered(S, P) \subseteq S \cup P
           /\ \A i \in P : i > LastOf(S) => i \in Rendered(S, P)
           /\ LastOf(Rendered(S, P)) \in Nat /\ LastOf(S) \in Nat
           /\ LastOf(S) <= LastOf(Rendered(S, P))
           /\ LastOf(Rendered(S, P)) # LastOf(S) =>
                LastOf(Rendered(S, P)) \in P /\ LastOf(Rendered(S, P)) > LastOf(S)
<1> DEFINE R == Rendered(S, P)
<1>1. R \in SUBSET (1 .. n) /\ S \subseteq R /\ R \subseteq S \cup P
      /\ \A i \in P : i > LastOf(S) => i \in R
  BY DEF Rendered
<1>2. \A i \in R : i \in S \/ (i \in P /\ i > LastOf(S))
  BY DEF Rendered
<1> HIDE DEF R
<1>3. /\ LastOf(S) \in Nat /\ LastOf(S) \in S \cup {0}
      /\ \A j \in S : j <= LastOf(S)
  BY LastIs
<1>4. /\ LastOf(R) \in Nat /\ LastOf(R) \in R \cup {0}
      /\ \A j \in R : j <= LastOf(R)
  BY <1>1, LastIs
<1>5. LastOf(S) <= LastOf(R)
  BY <1>1, <1>3, <1>4
<1>6. LastOf(R) # LastOf(S) => LastOf(R) \in P /\ LastOf(R) > LastOf(S)
  BY <1>2, <1>3, <1>4, <1>5
<1>7. QED
  BY <1>1, <1>3, <1>4, <1>5, <1>6 DEF R

LEMMA RenderedInTurnSet ==
    ASSUME NEW n \in Nat, NEW S \in SUBSET (1 .. n), NEW s \in Seq(1 .. n)
    PROVE  /\ RenderedInTurn(S, s) \in SUBSET (1 .. n)
           /\ S \subseteq RenderedInTurn(S, s)
           /\ \A i \in RenderedInTurn(S, s) : i \in S \/ (Among(i, s) /\ i > LastOf(S))
           /\ LastOf(RenderedInTurn(S, s)) \in Nat /\ LastOf(S) \in Nat
           /\ LastOf(S) <= LastOf(RenderedInTurn(S, s))
           /\ LastOf(RenderedInTurn(S, s)) # LastOf(S) =>
                LastOf(RenderedInTurn(S, s)) > LastOf(S)
                /\ Among(LastOf(RenderedInTurn(S, s)), s)
<1> DEFINE R == RenderedInTurn(S, s)
           K == {k \in DOMAIN s : s[k] > LastOf(S) /\ \A m \in 1 .. k - 1 : s[m] < s[k]}
<1>1. R = S \cup {s[k] : k \in K}
  BY DEF RenderedInTurn
<1>2. \A k \in K : s[k] \in 1 .. n /\ s[k] > LastOf(S) /\ Among(s[k], s)
  BY DEF Among
<1>3. /\ R \in SUBSET (1 .. n) /\ S \subseteq R
      /\ \A i \in R : i \in S \/ (Among(i, s) /\ i > LastOf(S))
  <2> HIDE DEF K
  <2>1. QED
    BY <1>1, <1>2
<1> HIDE DEF R, K
<1>4. /\ LastOf(S) \in Nat /\ LastOf(S) \in S \cup {0}
      /\ \A j \in S : j <= LastOf(S)
  BY LastIs
<1>5. /\ LastOf(R) \in Nat /\ LastOf(R) \in R \cup {0}
      /\ \A j \in R : j <= LastOf(R)
  BY <1>3, LastIs
<1>6. LastOf(S) <= LastOf(R)
  BY <1>3, <1>4, <1>5
<1>7. LastOf(R) # LastOf(S) => LastOf(R) > LastOf(S) /\ Among(LastOf(R), s)
  BY <1>3, <1>4, <1>5, <1>6
<1>8. QED
  BY <1>3, <1>4, <1>5, <1>6, <1>7 DEF R

\* What is above the last message shown is shown in turn, or excused.
LEMMA ShownInTurn ==
    ASSUME NEW n \in Nat, NEW S \in SUBSET (1 .. n), NEW s \in Seq(1 .. n), NEW E,
           InTurn(s, E), NEW j, Among(j, s), j > LastOf(S)
    PROVE  j \in RenderedInTurn(S, s) \/ j \in E
<1> DEFINE I == {p \in DOMAIN s : s[p] = j}
<1>1. I \in SUBSET Nat /\ I # {}
  BY DEF Among
<1>2. PICK p \in I : \A q \in I : p <= q
  <2> HIDE DEF I
  <2>1. QED
    BY <1>1, Least
<1>3. p \in DOMAIN s /\ s[p] = j /\ DOMAIN s = 1 .. Len(s) /\ Len(s) \in Nat
  BY <1>2
<1>4. CASE \A m \in 1 .. p - 1 : s[m] < s[p]
  BY <1>3, <1>4 DEF RenderedInTurn
<1>5. CASE \E m \in 1 .. p - 1 : ~ (s[m] < s[p])
  <2>1. PICK m \in 1 .. p - 1 : ~ (s[m] < s[p])
    BY <1>5
  <2>2. m \in DOMAIN s /\ m < p /\ p \in Nat
    BY <1>3, <2>1
  <2>3. s[m] \in Nat /\ s[p] \in Nat
    BY <1>3, <2>2
  <2>4. s[m] # j
    BY <1>2, <2>2
  <2>5. s[p] < s[m]
    BY <1>3, <2>1, <2>3, <2>4
  <2>6. QED
    BY <1>3, <2>2, <2>5 DEF InTurn
<1>6. QED
  BY <1>4, <1>5

-----------------------------------------------------------------------------
(* The parts of the invariant, and what becomes of them as messages are      *)
(* stored, told and excused: one that comes behind another is excused.       *)

Grown(V, T, E, V2, T2, E2) ==
    /\ V \subseteq V2 /\ T \subseteq T2 /\ E \subseteq E2
    /\ \A j \in V2 \ V : Overtaken(j, V) => j \in E2
    /\ \A j \in T2 \ T : Overtaken(j, T) => j \in E2

LEMMA ExcuseStays ==
    ASSUME NEW V, NEW T, NEW E, NEW V2, NEW T2, NEW E2, Grown(V, T, E, V2, T2, E2),
           NEW j, Excusable(j, T, E)
    PROVE  Excusable(j, T2, E2)
BY DEF Grown, Excusable, Overtaken

LEMMA WholeStays ==
    ASSUME NEW n \in Nat, NEW V, NEW T, NEW E, NEW m \in Nat, NEW V2 \in SUBSET (1 .. m),
           NEW T2, NEW E2, Grown(V, T, E, V2, T2, E2),
           NEW S \in SUBSET (1 .. n), Sound(S, V, E), Whole(S, V, T, E)
    PROVE  Sound(S, V2, E2) /\ Whole(S, V2, T2, E2)
<1>1. Sound(S, V2, E2)
  BY DEF Sound, Grown
<1>2. SUFFICES ASSUME NEW j \in V2, j < LastOf(S)
               PROVE  j \in S \/ Excusable(j, T2, E2)
  BY <1>1 DEF Whole
<1>3. CASE j \in V
  <2>1. j \in S \/ Excusable(j, T, E)
    BY <1>2, <1>3 DEF Whole
  <2>2. QED
    BY <2>1, ExcuseStays
<1>4. CASE j \notin V
  <2>1. LastOf(S) \in Nat /\ LastOf(S) \in S \cup {0}
    BY LastIs
  <2>2. j \in Nat /\ 0 < j
    OBVIOUS
  <2>3. LastOf(S) \in S
    BY <1>2, <2>1, <2>2
  <2>4. CASE LastOf(S) \in V
    BY <1>2, <1>4, <2>4 DEF Grown, Overtaken, Excusable
  <2>5. CASE 1 .. LastOf(S) \subseteq E
    <3>1. j \in 1 .. LastOf(S)
      BY <1>2, <2>1, <2>2
    <3>2. QED
      BY <2>5, <3>1 DEF Grown, Excusable
  <2>6. QED
    BY <2>3, <2>4, <2>5 DEF Sound
<1>5. QED
  BY <1>3, <1>4

\* A thread of which all is excused.
LEMMA WholeIfLost ==
    ASSUME NEW n \in Nat, NEW V \in SUBSET (1 .. n), NEW T, NEW E,
           NEW S \in SUBSET (1 .. n), 1 .. LastOf(S) \subseteq E
    PROVE  Sound(S, V, E) /\ Whole(S, V, T, E)
<1>1. LastOf(S) \in Nat /\ \A j \in S : j \in Nat /\ j <= LastOf(S)
  <2>1. \A j \in S : j \in 1 .. n
    OBVIOUS
  <2>2. \A j \in 1 .. n : j \in Nat
    OBVIOUS
  <2>3. QED
    BY <2>1, <2>2, LastIs
<1>2. Sound(S, V, E)
  <2>1. ASSUME NEW i \in S, NEW j \in 1 .. i PROVE j \in 1 .. LastOf(S)
    BY <1>1
  <2>2. QED
    BY <2>1 DEF Sound
<1>3. ASSUME NEW j \in V, j < LastOf(S) PROVE j \in E
  <2>1. j \in 1 .. LastOf(S)
    BY <1>1, <1>3
  <2>2. QED
    BY <2>1
<1>4. QED
  BY <1>2, <1>3 DEF Whole, Excusable

\* What is rendered has no hole if the page itself has none.
LEMMA WholeRendered ==
    ASSUME NEW n \in Nat, NEW V \in SUBSET (1 .. n), NEW T, NEW E,
           NEW S \in SUBSET (1 .. n), NEW P \in SUBSET V,
           Sound(S, V, E), Whole(S, V, T, E),
           \A i \in P, j \in V :
               LastOf(S) < j /\ j < i => j \in P \/ Excusable(j, T, E)
    PROVE  Sound(Rendered(S, P), V, E) /\ Whole(Rendered(S, P), V, T, E)
<1> DEFINE R == Rendered(S, P)
<1>1. S \in SUBSET (1 .. n) /\ P \in SUBSET (1 .. n) /\ \A j \in V : j \in Nat
  OBVIOUS
<1>2. /\ S \subseteq R /\ R \subseteq S \cup P
      /\ \A i \in P : i > LastOf(S) => i \in R
      /\ LastOf(R) \in Nat /\ LastOf(S) \in Nat
      /\ LastOf(R) # LastOf(S) => LastOf(R) \in P /\ LastOf(R) > LastOf(S)
  BY <1>1, RenderedSet
<1>3. S # {} => LastOf(S) \in S
  BY <1>1, LastIs
<1>4. S = {} => LastOf(S) = 0
  BY DEF LastOf
<1> HIDE DEF R
<1>5. ASSUME NEW j \in V, j < LastOf(R) PROVE j \in R \/ Excusable(j, T, E)
  <2>1. CASE j < LastOf(S)
    BY <1>2, <2>1 DEF Whole
  <2>2. CASE j = LastOf(S)
    <3>1. j # 0
      OBVIOUS
    <3>2. QED
      BY <1>2, <1>3, <1>4, <2>2, <3>1
  <2>3. CASE LastOf(S) < j
    <3>1. LastOf(R) \in P
      BY <1>1, <1>2, <1>5, <2>3
    <3>2. j \in P \/ Excusable(j, T, E)
      BY <1>5, <2>3, <3>1
    <3>3. QED
      BY <1>2, <2>3, <3>2
  <2>4. QED
    BY <1>1, <1>2, <2>1, <2>2, <2>3
<1>6. QED
  BY <1>2, <1>5 DEF Whole, Sound, R

\* The same for messages that waited, if they are in turn.
LEMMA WholeInTurn ==
    ASSUME NEW n \in Nat, NEW V \in SUBSET (1 .. n), NEW T \in SUBSET V, NEW E,
           NEW S \in SUBSET (1 .. n), NEW s \in Seq(1 .. n),
           Sound(S, V, E), Whole(S, V, T, E),
           \A p \in DOMAIN s : s[p] \in T,
           InTurn(s, E),
           \A p \in DOMAIN s, j \in T :
               LastOf(S) < j /\ j < s[p] => j \in E \/ Among(j, s)
    PROVE  /\ Sound(RenderedInTurn(S, s), V, E)
           /\ Whole(RenderedInTurn(S, s), V, T, E)
<1> DEFINE R == RenderedInTurn(S, s)
<1>1. S \in SUBSET (1 .. n) /\ \A j \in V : j \in Nat
  OBVIOUS
<1>2. /\ S \subseteq R /\ \A i \in R : i \in S \/ Among(i, s)
      /\ LastOf(R) \in Nat /\ LastOf(S) \in Nat
      /\ LastOf(R) # LastOf(S) => LastOf(R) > LastOf(S) /\ Among(LastOf(R), s)
  BY <1>1, RenderedInTurnSet
<1>3. S # {} => LastOf(S) \in S
  BY <1>1, LastIs
<1>4. S = {} => LastOf(S) = 0
  BY DEF LastOf
<1>5. \A j : Among(j, s) => j \in T
  BY DEF Among
<1>6. \A j : Among(j, s) /\ j > LastOf(S) => j \in R \/ j \in E
  BY <1>1, ShownInTurn
<1> HIDE DEF R
<1>7. ASSUME NEW j \in V, j < LastOf(R) PROVE j \in R \/ Excusable(j, T, E)
  <2>1. CASE j < LastOf(S)
    BY <1>2, <2>1 DEF Whole
  <2>2. CASE j = LastOf(S)
    <3>1. j # 0
      OBVIOUS
    <3>2. QED
      BY <1>2, <1>3, <1>4, <2>2, <3>1
  <2>3. CASE LastOf(S) < j
    <3>1. PICK p \in DOMAIN s : s[p] = LastOf(R)
      BY <1>1, <1>2, <1>7, <2>3 DEF Among
    <3>2. CASE j \notin T
      <4>1. Overtaken(j, T)
        BY <1>7, <3>1 DEF Overtaken
      <4>2. QED
        BY <3>2, <4>1 DEF Excusable
    <3>3. CASE j \in T
      <4>1. j \in E \/ Among(j, s)
        BY <1>7, <2>3, <3>1, <3>3
      <4>2. QED
        BY <1>6, <2>3, <4>1 DEF Excusable
    <3>4. QED
      BY <3>2, <3>3
  <2>4. QED
    BY <1>1, <1>2, <2>1, <2>2, <2>3
<1>8. Sound(R, V, E)
  BY <1>2, <1>5 DEF Sound
<1>9. QED
  BY <1>7, <1>8 DEF Whole, R

\* A request whose answer stays what it is.
LEMMA AskStays ==
    ASSUME NEW V, NEW T, NEW E, NEW V2, NEW T2, NEW E2, Grown(V, T, E, V2, T2, E2),
           T \subseteq V, NEW a \in Asks, AskOK(a, V, T, E)
    PROVE  AskOK(a, V2, T2, E2)
<1>1. Gapless(a, V2, E2)
  <2>1. SUFFICES ASSUME a.kind # "post", NEW i \in a.got, NEW j \in V2, a.after < j, j < i
                 PROVE  j \in a.got \/ j \in E2
    BY DEF Gapless
  <2>2. CASE j \in V
    BY <2>1, <2>2 DEF AskOK, Gapless, Grown
  <2>3. CASE j \notin V
    <3>1. i \in V
      BY <2>1 DEF AskOK
    <3>2. QED
      BY <2>1, <2>3, <3>1 DEF Grown, Overtaken
  <2>4. QED
    BY <2>2, <2>3
<1>2. InTurn(a.held, E2)
  BY DEF AskOK, InTurn, Grown
<1>3. ASSUME Partial(a), NEW n \in DOMAIN a.held, NEW j \in T2, j < a.held[n]
      PROVE  Covers(a, j, E2)
  <2>1. CASE j \in T
    <3>1. Covers(a, j, E)
      BY <1>3, <2>1 DEF AskOK
    <3>2. QED
      BY <3>1 DEF Covers, Grown
  <2>2. CASE j \notin T
    <3>1. a.held[n] \in T
      BY <1>3 DEF AskOK
    <3>2. j \in E2
      BY <1>3, <2>2, <3>1 DEF Grown, Overtaken
    <3>3. QED
      BY <3>2 DEF Covers
  <2>3. QED
    BY <2>1, <2>2
<1>4. QED
  BY <1>1, <1>2, <1>3 DEF AskOK, Grown

-----------------------------------------------------------------------------
(* Sequences.                                                                *)

LEMMA CutOut ==
    ASSUME NEW S, NEW s \in Seq(S), NEW k \in DOMAIN s
    PROVE  /\ RemoveAt(s, k) \in Seq(S) /\ Len(RemoveAt(s, k)) = Len(s) - 1
           /\ \A j \in 1 .. Len(s) - 1 :
                  RemoveAt(s, k)[j] = IF j < k THEN s[j] ELSE s[j + 1]
<1> DEFINE u == SubSeq(s, 1, k - 1)
           v == SubSeq(s, k + 1, Len(s))
<1>1. Len(s) \in Nat /\ k \in 1 .. Len(s) /\ \A i \in 1 .. Len(s) : s[i] \in S
  BY ElementOfSeq
<1>2. /\ u \in Seq(S) /\ Len(u) = k - 1
      /\ \A i \in 1 .. k - 1 : u[i] = s[i]
  <2>1. k - 1 \in Int /\ 1 \in Int /\ \A i \in 1 .. k - 1 : s[i] \in S
    BY <1>1
  <2>2. /\ u \in Seq(S) /\ Len(u) = IF 1 <= k - 1 THEN k - 1 - 1 + 1 ELSE 0
        /\ \A i \in 1 .. k - 1 - 1 + 1 : u[i] = s[1 + i - 1]
    BY <2>1, SubSeqProperties
  <2> HIDE DEF u
  <2>3. \A i \in 1 .. k - 1 : i \in 1 .. k - 1 - 1 + 1 /\ 1 + i - 1 = i
    BY <1>1
  <2>4. \A i \in 1 .. k - 1 : u[i] = s[i]
    BY <2>2, <2>3
  <2>5. Len(u) = k - 1
    BY <1>1, <2>2
  <2>6. QED
    BY <2>2, <2>4, <2>5
<1>3. /\ v \in Seq(S) /\ Len(v) = Len(s) - k
      /\ \A i \in 1 .. Len(s) - k : v[i] = s[k + i]
  <2>1. k + 1 \in Int /\ Len(s) \in Int /\ \A i \in k + 1 .. Len(s) : s[i] \in S
    BY <1>1
  <2>2. /\ v \in Seq(S)
        /\ Len(v) = IF k + 1 <= Len(s) THEN Len(s) - (k + 1) + 1 ELSE 0
        /\ \A i \in 1 .. Len(s) - (k + 1) + 1 : v[i] = s[k + 1 + i - 1]
    BY <2>1, SubSeqProperties
  <2> HIDE DEF v
  <2>3. \A i \in 1 .. Len(s) - k : i \in 1 .. Len(s) - (k + 1) + 1 /\ k + 1 + i - 1 = k + i
    BY <1>1
  <2>4. \A i \in 1 .. Len(s) - k : v[i] = s[k + i]
    BY <2>2, <2>3
  <2>5. Len(v) = Len(s) - k
    BY <1>1, <2>2
  <2>6. QED
    BY <2>2, <2>4, <2>5
<1>4. RemoveAt(s, k) = u \o v
  BY DEF RemoveAt
<1> HIDE DEF u, v
<1>5. /\ u \o v \in Seq(S) /\ Len(u \o v) = Len(u) + Len(v)
      /\ \A i \in 1 .. Len(u) + Len(v) :
            (u \o v)[i] = IF i <= Len(u) THEN u[i] ELSE v[i - Len(u)]
  BY <1>2, <1>3, ConcatProperties
<1> DEFINE w == u \o v
<1> HIDE DEF w
<1>6. /\ w \in Seq(S) /\ Len(w) = Len(s) - 1
      /\ \A i \in 1 .. Len(s) - 1 : w[i] = IF i <= k - 1 THEN u[i] ELSE v[i - (k - 1)]
  <2>1. Len(u) + Len(v) = Len(s) - 1
    BY <1>1, <1>2, <1>3
  <2>2. QED
    BY <1>2, <1>5, <2>1 DEF w
<1>7. ASSUME NEW j \in 1 .. Len(s) - 1 PROVE w[j] = IF j < k THEN s[j] ELSE s[j + 1]
  <2>1. CASE j < k
    <3>1. j \in 1 .. k - 1 /\ j <= k - 1
      BY <1>1, <2>1
    <3>2. QED
      BY <1>2, <1>6, <2>1, <3>1
  <2>2. CASE ~ (j < k)
    <3>1. ~ (j <= k - 1) /\ j - (k - 1) \in 1 .. Len(s) - k /\ k + (j - (k - 1)) = j + 1
      BY <1>1, <2>2
    <3>2. QED
      BY <1>3, <1>6, <2>2, <3>1
  <2>3. QED
    BY <2>1, <2>2
<1>8. QED
  BY <1>4, <1>6, <1>7 DEF w

LEMMA Removed ==
    ASSUME NEW S, NEW s \in Seq(S), NEW k \in DOMAIN s
    PROVE  /\ RemoveAt(s, k) \in Seq(S)
           /\ \A m \in DOMAIN RemoveAt(s, k) :
                  \E p \in DOMAIN s : p # k /\ RemoveAt(s, k)[m] = s[p]
           /\ \A p \in DOMAIN s : p # k =>
                  \E m \in DOMAIN RemoveAt(s, k) : RemoveAt(s, k)[m] = s[p]
<1> DEFINE t == RemoveAt(s, k)
<1>1. /\ t \in Seq(S) /\ Len(t) = Len(s) - 1
      /\ \A j \in 1 .. Len(s) - 1 : t[j] = IF j < k THEN s[j] ELSE s[j + 1]
  BY CutOut, Zenon
<1>2. Len(s) \in Nat /\ k \in 1 .. Len(s)
  OBVIOUS
<1> HIDE DEF t
<1>3. DOMAIN t = 1 .. Len(s) - 1 /\ DOMAIN s = 1 .. Len(s)
  BY <1>1, <1>2
<1>4. ASSUME NEW m \in DOMAIN t PROVE \E p \in DOMAIN s : p # k /\ t[m] = s[p]
  <2>1. CASE m < k
    BY <1>1, <1>2, <1>3, <2>1
  <2>2. CASE ~ (m < k)
    <3>1. m + 1 \in DOMAIN s /\ m + 1 # k /\ t[m] = s[m + 1]
      BY <1>1, <1>2, <1>3, <2>2
    <3>2. QED
      BY <3>1
  <2>3. QED
    BY <2>1, <2>2
<1>5. ASSUME NEW p \in DOMAIN s, p # k PROVE \E m \in DOMAIN t : t[m] = s[p]
  <2>1. CASE p < k
    BY <1>1, <1>2, <1>3, <2>1
  <2>2. CASE ~ (p < k)
    <3>1. p - 1 \in DOMAIN t /\ t[p - 1] = s[p - 1 + 1] /\ p - 1 + 1 = p
      BY <1>1, <1>2, <1>3, <1>5, <2>2
    <3>2. QED
      BY <3>1
  <2>3. QED
    BY <2>1, <2>2
<1>6. QED
  BY <1>1, <1>4, <1>5 DEF t

LEMMA Added ==
    ASSUME NEW S, NEW s \in Seq(S), NEW x \in S
    PROVE  /\ Append(s, x) \in Seq(S)
           /\ DOMAIN Append(s, x) = DOMAIN s \cup {Len(s) + 1}
           /\ Len(s) \in Nat /\ DOMAIN s = 1 .. Len(s)
           /\ \A m \in DOMAIN s : Append(s, x)[m] = s[m]
           /\ Append(s, x)[Len(s) + 1] = x
<1>1. /\ Append(s, x) \in Seq(S) /\ Len(Append(s, x)) = Len(s) + 1
      /\ Len(s) \in Nat /\ DOMAIN s = 1 .. Len(s)
      /\ \A m \in 1 .. Len(s) : Append(s, x)[m] = s[m]
      /\ Append(s, x)[Len(s) + 1] = x
  OBVIOUS
<1>2. DOMAIN Append(s, x) = 1 .. Len(s) + 1
  BY <1>1
<1>3. QED
  BY <1>1, <1>2

LEMMA AddedAmong ==
    ASSUME NEW S, NEW s \in Seq(S), NEW x \in S
    PROVE  \A j : Among(j, Append(s, x)) <=> Among(j, s) \/ j = x
BY Added DEF Among

LEMMA AddedInTurn ==
    ASSUME NEW s \in Seq(Nat), NEW x \in Nat, NEW E, InTurn(s, E),
           \A p \in DOMAIN s : x < s[p] => x \in E
    PROVE  InTurn(Append(s, x), E)
<1> DEFINE t == Append(s, x)
<1>1. /\ DOMAIN t = DOMAIN s \cup {Len(s) + 1}
      /\ Len(s) \in Nat /\ DOMAIN s = 1 .. Len(s)
      /\ \A m \in DOMAIN s : t[m] = s[m]
      /\ t[Len(s) + 1] = x
  BY Added
<1> HIDE DEF t
<1>2. SUFFICES ASSUME NEW p \in DOMAIN t, NEW q \in DOMAIN t, p < q, t[q] < t[p]
               PROVE  t[q] \in E
  BY DEF InTurn, t
<1>3. p \in DOMAIN s
  BY <1>1, <1>2
<1>4. CASE q \in DOMAIN s
  BY <1>1, <1>2, <1>3, <1>4 DEF InTurn
<1>5. CASE q = Len(s) + 1
  BY <1>1, <1>2, <1>3, <1>5
<1>6. QED
  BY <1>1, <1>4, <1>5

LEMMA Dequeued ==
    ASSUME NEW S, NEW s \in Seq(S), s # <<>>
    PROVE  /\ Tail(s) \in Seq(S) /\ Head(s) \in S /\ 1 \in DOMAIN s /\ Head(s) = s[1]
           /\ \A m \in DOMAIN Tail(s) : m \in Nat /\ m + 1 \in DOMAIN s /\ Tail(s)[m] = s[m + 1]
           /\ \A p \in DOMAIN s : p # 1 => p - 1 \in DOMAIN Tail(s) /\ Tail(s)[p - 1] = s[p]
<1> DEFINE t == Tail(s)
<1>1. /\ t \in Seq(S) /\ Len(t) = Len(s) - 1 /\ Len(s) \in Nat
      /\ \A i \in 1 .. Len(t) : t[i] = s[i + 1]
  BY HeadTailProperties
<1>2. Len(s) # 0 /\ Head(s) = s[1] /\ DOMAIN s = 1 .. Len(s)
  OBVIOUS
<1> HIDE DEF t
<1>3. DOMAIN t = 1 .. Len(s) - 1
  BY <1>1
<1>4. 1 \in DOMAIN s /\ Head(s) \in S
  BY <1>1, <1>2, ElementOfSeq
<1>5. \A m \in DOMAIN t : m \in Nat /\ m + 1 \in DOMAIN s /\ t[m] = s[m + 1]
  BY <1>1, <1>2, <1>3
<1>6. ASSUME NEW p \in DOMAIN s, p # 1 PROVE p - 1 \in DOMAIN t /\ t[p - 1] = s[p]
  <2>1. p - 1 \in 1 .. Len(t) /\ p - 1 + 1 = p
    BY <1>1, <1>2, <1>6
  <2>2. QED
    BY <1>1, <1>3, <2>1
<1>7. QED
  BY <1>1, <1>2, <1>4, <1>5, <1>6 DEF t

LEMMA DequeuedInTurn ==
    ASSUME NEW s \in Seq(Nat), s # <<>>, NEW E, InTurn(s, E)
    PROVE  /\ InTurn(Tail(s), E)
           /\ \A j : Among(j, s) => j = Head(s) \/ Among(j, Tail(s))
           /\ \A j : Among(j, Tail(s)) => Among(j, s)
           /\ \A j : Among(j, s) /\ j < Head(s) => j \in E
<1>1. /\ Head(s) \in Nat /\ 1 \in DOMAIN s /\ Head(s) = s[1]
      /\ \A m \in DOMAIN Tail(s) : m \in Nat /\ m + 1 \in DOMAIN s /\ Tail(s)[m] = s[m + 1]
      /\ \A p \in DOMAIN s : p # 1 => p - 1 \in DOMAIN Tail(s) /\ Tail(s)[p - 1] = s[p]
  BY Dequeued
<1>2. InTurn(Tail(s), E)
  <2>1. SUFFICES ASSUME NEW p \in DOMAIN Tail(s), NEW q \in DOMAIN Tail(s), p < q,
                        Tail(s)[q] < Tail(s)[p]
                 PROVE  Tail(s)[q] \in E
    BY DEF InTurn
  <2>2. p + 1 \in DOMAIN s /\ q + 1 \in DOMAIN s /\ p + 1 < q + 1
    BY <1>1, <2>1
  <2>3. Tail(s)[p] = s[p + 1] /\ Tail(s)[q] = s[q + 1]
    BY <1>1
  <2>4. s[q + 1] < s[p + 1]
    BY <2>1, <2>3
  <2>5. QED
    BY <2>2, <2>3, <2>4 DEF InTurn
<1>3. \A j : Among(j, s) => j = Head(s) \/ Among(j, Tail(s))
  BY <1>1 DEF Among
<1>4. \A j : Among(j, Tail(s)) => Among(j, s)
  BY <1>1 DEF Among
<1>5. ASSUME NEW j, Among(j, s), j < Head(s) PROVE j \in E
  <2>1. PICK q \in DOMAIN s : s[q] = j
    BY <1>5 DEF Among
  <2>2. q # 1 /\ q \in Nat /\ q >= 1 /\ j \in Nat
    BY <1>1, <1>5, <2>1
  <2>3. 1 < q
    BY <2>2
  <2>4. QED
    BY <1>1, <1>5, <2>1, <2>3 DEF InTurn
<1>6. QED
  BY <1>2, <1>3, <1>4, <1>5

-----------------------------------------------------------------------------
(* What happens around a page.                                               *)

LEMMA IdsOf ==
    ASSUME BoardTypeOK
    PROVE  /\ Len(messages) \in Nat
           /\ \A g : /\ Visible(g) \in SUBSET (1 .. Len(messages))
                     /\ Told(g) \in SUBSET Visible(g)
                     /\ Visible(g) \subseteq DOMAIN messages
BY Listed DEF Visible, Told

\* How the answer to a request in flight may move.
AskMoves(k) ==
    /\ asks'[k].kind = asks[k].kind /\ asks'[k].group = asks[k].group
    /\ asks'[k].after = asks[k].after /\ asks'[k].ours = asks[k].ours
    /\ asks'[k].held = asks[k].held /\ asks'[k].stale = asks[k].stale
    /\ \/ asks'[k].st = asks[k].st /\ asks'[k].got = asks[k].got
       \/ /\ asks'[k].st = "failed" /\ asks'[k].got = asks[k].got
          /\ \/ asks[k].st # "answered"
             \/ asks[k].kind = "post" /\ \A g \in Projects : asks[k].after \notin Told(g)
       \/ /\ asks[k].kind # "post" /\ messages' = messages
          /\ asks'[k].st = "answered"
          /\ asks'[k].got = ListMessages(asks[k].group, asks[k].after, PageLimit)
       \/ /\ asks[k].kind = "post"
          /\ asks'[k].st = "answered" /\ asks'[k].got = {asks[k].after}
          /\ \E i, g : i = asks[k].after /\ g = messages[i].group /\ i \in Told(g)'

\* And the socket: what is told goes into the inbox of a page in the room.
RoomMoves ==
    \E g : g = ws.group /\
       \/ ws' = ws /\ (ws.st \in {"joined", "open"} => Told(g)' = Told(g))
       \/ \E i \in Told(g)' \ Told(g) :
             /\ ws.st \in {"joined", "open"}
             /\ ws'.group = ws.group /\ ws'.st = ws.st /\ ws'.inbox = Append(ws.inbox, i)
             /\ ws'.stale = ws.stale
             /\ Told(g)' = Told(g) \cup {i}
       \/ /\ Up
          /\ ws'.group = ws.group /\ ws'.st \in {"dropped", "revoked"} /\ ws'.inbox = <<>>
          /\ ws'.stale = ws.stale

Beside ==
    /\ BoardTypeOK' /\ PageTypeOK'
    /\ DOMAIN messages \subseteq DOMAIN messages'
    /\ \A i \in DOMAIN messages : messages'[i].group = messages[i].group
    /\ \A g : Grown(Visible(g), Told(g), excused, Visible(g)', Told(g)', excused')
    /\ cur' = cur /\ shown' = shown /\ stray' = stray
    /\ DOMAIN asks' = DOMAIN asks /\ \A k \in DOMAIN asks : AskMoves(k)
    /\ RoomMoves

\* A step that leaves the messages and the excuses alone.
LEMMA StillGrown ==
    ASSUME messages' = messages, excused' = excused
    PROVE  /\ \A g : Visible(g)' = Visible(g) /\ Told(g)' = Told(g)
           /\ \A g : Grown(Visible(g), Told(g), excused, Visible(g)', Told(g)', excused')
BY DEF Visible, Told, Grown

LEMMA MoreExcused ==
    ASSUME messages' = messages, excused \subseteq excused'
    PROVE  /\ \A g : Visible(g)' = Visible(g) /\ Told(g)' = Told(g)
           /\ \A g : Grown(Visible(g), Told(g), excused, Visible(g)', Told(g)', excused')
BY DEF Visible, Told, Grown

\* What is excused is lost, and what is lost stays so.
LEMMA LostGrows ==
    ASSUME stray \in Nat, stray' \in Nat, stray <= stray', NEW V, NEW T, NEW V2, NEW T2,
           Grown(V, T, excused, V2, T2, excused')
    PROVE  Grown(V, T, Lost, V2, T2, Lost')
<1>1. 1 .. stray \subseteq 1 .. stray'
  OBVIOUS
<1>2. QED
  BY <1>1 DEF Grown, Lost

LEMMA InsertedUnseen ==
    ASSUME BoardTypeOK, NEW h \in Projects, NEW by \in Authors, Insert(h, by, FALSE)
    PROVE  \A g : Visible(g)' = Visible(g) /\ Told(g)' = Told(g)
<1>1. /\ DOMAIN messages' = DOMAIN messages \cup {Len(messages) + 1}
      /\ \A i \in DOMAIN messages : messages'[i] = messages[i]
      /\ messages'[Len(messages) + 1] =
           [group |-> h, by |-> by, calls |-> FALSE, stage |-> "sent"]
  BY Insertion
<1>2. messages'[Len(messages) + 1].stage = "sent"
  BY <1>1
<1>3. Len(messages) + 1 \notin DOMAIN messages
  BY Listed
<1>4. QED
  BY <1>1, <1>2, <1>3 DEF Visible, Told

LEMMA OtherInsertBeside ==
    ASSUME BoardTypeOK, PageTypeOK, NEW g \in Projects, OtherInsert(g)
    PROVE  Beside
<1>1. Insert(g, "other", FALSE) /\ UNCHANGED pageVars /\ "other" \in Authors
  BY PageAssumption DEF OtherInsert
<1>2. /\ BoardTypeOK' /\ DOMAIN messages \subseteq DOMAIN messages'
      /\ \A i \in DOMAIN messages : messages'[i] = messages[i]
  BY <1>1, Insertion
<1>3. \A h : Visible(h)' = Visible(h) /\ Told(h)' = Told(h)
  BY <1>1, InsertedUnseen
<1>4. PageTypeOK'
  BY <1>1, <1>2 DEF PageTypeOK, pageVars
<1>5. \A h : Grown(Visible(h), Told(h), excused, Visible(h)', Told(h)', excused')
  BY <1>1, <1>3 DEF Grown, pageVars
<1>6. \A k \in DOMAIN asks : AskMoves(k)
  BY <1>1 DEF AskMoves, pageVars
<1>7. RoomMoves
  BY <1>1, <1>3 DEF RoomMoves, pageVars
<1>8. QED
  BY <1>1, <1>2, <1>4, <1>5, <1>6, <1>7 DEF Beside, pageVars

LEMMA Mapped ==
    ASSUME NEW S, NEW s \in Seq(S), NEW f, f = [k \in DOMAIN s |-> f[k]],
           \A k \in DOMAIN s : f[k] \in S
    PROVE  f \in Seq(S) /\ DOMAIN f = DOMAIN s
<1>1. Len(s) \in Nat /\ DOMAIN s = 1 .. Len(s)
  OBVIOUS
<1>2. f \in [1 .. Len(s) -> S]
  BY <1>1
<1>3. f \in Seq(S)
  BY <1>1, <1>2, SeqDef
<1>4. QED
  BY <1>3

LEMMA AsksSame ==
    ASSUME asks' = asks
    PROVE  DOMAIN asks' = DOMAIN asks /\ \A k \in DOMAIN asks : AskMoves(k)
BY DEF AskMoves

LEMMA PageCommitBeside ==
    ASSUME BoardTypeOK, PageTypeOK, NEW i \in DOMAIN messages, PageCommit(i)
    PROVE  Beside
<1>1. /\ messages[i].stage = "sent" /\ Stage(i, "stored") /\ "stored" \in Stages
      /\ cur' = cur /\ shown' = shown /\ ws' = ws /\ asks' = asks /\ timer' = timer
      /\ closing' = closing /\ faults' = faults /\ stray' = stray
      /\ excused' = excused \cup (IF Overtaken(i, Visible(messages[i].group)) THEN {i} ELSE {})
  BY DEF PageCommit, Commit, Excuse, Stages
<1>2. /\ BoardTypeOK' /\ DOMAIN messages' = DOMAIN messages
      /\ \A j \in DOMAIN messages : messages'[j].group = messages[j].group
      /\ \A j \in DOMAIN messages : messages'[j].stage = IF j = i THEN "stored" ELSE messages[j].stage
  BY <1>1, Staged DEF Kept
<1>3. \A h : /\ Visible(h)' = Visible(h) \cup (IF h = messages[i].group THEN {i} ELSE {})
             /\ Told(h)' = Told(h)
  BY <1>1, <1>2 DEF Visible, Told
<1>4. \A h : Grown(Visible(h), Told(h), excused, Visible(h)', Told(h)', excused')
  BY <1>1, <1>3 DEF Grown
<1>5. PageTypeOK'
  BY <1>1, <1>2 DEF PageTypeOK
<1>6. RoomMoves
  BY <1>1, <1>3 DEF RoomMoves
<1>7. QED
  BY <1>1, <1>2, <1>4, <1>5, <1>6, AsksSame DEF Beside

LEMMA AskTyped ==
    ASSUME PageTypeOK, NEW k \in DOMAIN asks
    PROVE  /\ asks[k] \in Asks /\ asks \in Seq(Asks)
           /\ asks[k].kind \in {"history", "backfill", "poll", "post"}
           /\ asks[k].group \in Projects /\ asks[k].after \in Nat /\ asks[k].ours \in BOOLEAN
           /\ asks[k].stale \in BOOLEAN
           /\ asks[k].got \in SUBSET Nat /\ asks[k].held \in Seq(Nat)
           /\ asks[k].st \in {"asked", "answered", "failed"}
<1>1. asks \in Seq(Asks)
  BY DEF PageTypeOK
<1>2. asks[k] \in Asks
  <2> DEFINE A == Asks
  <2>1. asks \in Seq(A)
    BY <1>1
  <2> HIDE DEF A
  <2>2. asks[k] \in A
    BY <2>1, ElementOfSeq
  <2>3. QED
    BY <2>2 DEF A
<1>3. QED
  BY <1>1, <1>2 DEF Asks

LEMMA AnswersTyped ==
    ASSUME PageTypeOK, asks' = [k \in DOMAIN asks |-> asks'[k]],
           \A k \in DOMAIN asks : asks'[k] \in Asks
    PROVE  asks' \in Seq(Asks) /\ DOMAIN asks' = DOMAIN asks
<1> DEFINE A == Asks
<1>1. asks \in Seq(A) /\ \A k \in DOMAIN asks : asks'[k] \in A
  BY DEF PageTypeOK
<1> HIDE DEF A
<1>2. asks' \in Seq(A) /\ DOMAIN asks' = DOMAIN asks
  BY <1>1, Mapped
<1>3. QED
  BY <1>2 DEF A

LEMMA PageRollbackBeside ==
    ASSUME BoardTypeOK, PageTypeOK, NEW i \in DOMAIN messages, PageRollback(i)
    PROVE  Beside
<1>1. /\ messages[i].stage = "sent" /\ Stage(i, "lost") /\ "lost" \in Stages
      /\ cur' = cur /\ shown' = shown /\ ws' = ws /\ timer' = timer /\ excused' = excused
      /\ closing' = closing /\ faults > 0 /\ faults' = faults - 1 /\ stray' = stray
      /\ asks' = [k \in DOMAIN asks |-> IF asks[k].kind = "post" /\ asks[k].after = i
                                        THEN [asks[k] EXCEPT !.st = "failed"] ELSE asks[k]]
  BY DEF PageRollback, Rollback, Spend, Failed, Stages
<1>2. /\ BoardTypeOK' /\ DOMAIN messages' = DOMAIN messages
      /\ \A j \in DOMAIN messages : messages'[j].group = messages[j].group
      /\ \A j \in DOMAIN messages : messages'[j].stage = IF j = i THEN "lost" ELSE messages[j].stage
  BY <1>1, Staged DEF Kept
<1>3. \A h : Visible(h)' = Visible(h) /\ Told(h)' = Told(h) /\ i \notin Told(h)
  BY <1>1, <1>2 DEF Visible, Told
<1>4. \A h : Grown(Visible(h), Told(h), excused, Visible(h)', Told(h)', excused')
  BY <1>1, <1>3 DEF Grown
<1>5. ASSUME NEW k \in DOMAIN asks PROVE asks'[k] \in Asks /\ AskMoves(k)
  <2>1. CASE asks[k].kind = "post" /\ asks[k].after = i
    <3>1. asks'[k] = [asks[k] EXCEPT !.st = "failed"] /\ asks[k] \in Asks
      BY <1>1, <2>1, AskTyped
    <3>2. /\ asks'[k] \in Asks /\ asks'[k].st = "failed" /\ asks'[k].got = asks[k].got
          /\ asks'[k].kind = asks[k].kind /\ asks'[k].group = asks[k].group
          /\ asks'[k].after = asks[k].after /\ asks'[k].ours = asks[k].ours
          /\ asks'[k].held = asks[k].held /\ asks'[k].stale = asks[k].stale
      BY <3>1 DEF Asks
    <3>3. QED
      BY <1>3, <2>1, <3>2 DEF AskMoves
  <2>2. CASE ~ (asks[k].kind = "post" /\ asks[k].after = i)
    <3>1. asks'[k] = asks[k]
      BY <1>1, <2>2
    <3>2. QED
      BY <3>1, AskTyped DEF AskMoves
  <2>3. QED
    BY <2>1, <2>2
<1>6. asks' \in Seq(Asks) /\ DOMAIN asks' = DOMAIN asks
  BY <1>1, <1>5, AnswersTyped
<1>7. PageTypeOK'
  <2>1. faults' \in 0 .. MaxFaults
    BY <1>1, PageAssumption DEF PageTypeOK
  <2>2. QED
    BY <1>1, <1>2, <1>6, <2>1 DEF PageTypeOK
<1>8. RoomMoves
  BY <1>1, <1>3 DEF RoomMoves
<1>9. QED
  BY <1>1, <1>2, <1>4, <1>5, <1>6, <1>7, <1>8 DEF Beside

LEMMA SocketTyped ==
    ASSUME PageTypeOK
    PROVE  /\ ws.group \in Projects \cup {None}
           /\ ws.st \in {"none", "dialing", "joined", "open", "dropped", "revoked"}
           /\ ws.inbox \in Seq(Nat) /\ ws.stale \in BOOLEAN
           /\ ws = [group |-> ws.group, st |-> ws.st, inbox |-> ws.inbox, stale |-> ws.stale]
BY DEF PageTypeOK, Sockets

LEMMA PageTellBeside ==
    ASSUME BoardTypeOK, PageTypeOK, NEW i \in DOMAIN messages, PageTell(i)
    PROVE  Beside
<1>1. PICK g : g = messages[i].group
  OBVIOUS
<1>2. /\ messages[i].stage = "stored" /\ Stage(i, "told") /\ "told" \in Stages
      /\ cur' = cur /\ shown' = shown /\ timer' = timer
      /\ closing' = closing /\ faults' = faults /\ stray' = stray
      /\ excused' = excused \cup (IF Overtaken(i, Told(g)) THEN {i} ELSE {})
      /\ ws' = IF ws.group = g /\ ws.st \in {"joined", "open"}
               THEN [ws EXCEPT !.inbox = Append(@, i)] ELSE ws
      /\ asks' = [k \in DOMAIN asks |->
                    IF asks[k].kind = "post" /\ asks[k].after = i
                    THEN [asks[k] EXCEPT !.got = {i}, !.st = "answered"] ELSE asks[k]]
  BY <1>1 DEF PageTell, Tell, Excuse, Stages
<1>3. /\ BoardTypeOK' /\ DOMAIN messages' = DOMAIN messages
      /\ \A j \in DOMAIN messages : messages'[j].group = messages[j].group
      /\ \A j \in DOMAIN messages : messages'[j].stage = IF j = i THEN "told" ELSE messages[j].stage
  BY <1>2, Staged DEF Kept
<1>4. \A h : /\ Visible(h)' = Visible(h)
             /\ Told(h)' = Told(h) \cup (IF h = g THEN {i} ELSE {})
  BY <1>1, <1>2, <1>3 DEF Visible, Told
<1>5. i \notin Told(g) /\ i \in Nat
  <2>1. Len(messages) \in Nat /\ i \in 1 .. Len(messages)
    BY Listed
  <2>2. i \notin Told(g)
    BY <1>2 DEF Told
  <2>3. QED
    BY <2>1, <2>2
<1>6. \A h : Grown(Visible(h), Told(h), excused, Visible(h)', Told(h)', excused')
  BY <1>2, <1>4 DEF Grown
<1>7. ASSUME NEW k \in DOMAIN asks PROVE asks'[k] \in Asks /\ AskMoves(k)
  <2>1. CASE asks[k].kind = "post" /\ asks[k].after = i
    <3>1. asks'[k] = [asks[k] EXCEPT !.got = {i}, !.st = "answered"] /\ asks[k] \in Asks
      BY <1>2, <2>1, AskTyped
    <3>2. /\ asks'[k] \in Asks /\ asks'[k].st = "answered" /\ asks'[k].got = {i}
          /\ asks'[k].kind = asks[k].kind /\ asks'[k].group = asks[k].group
          /\ asks'[k].after = asks[k].after /\ asks'[k].ours = asks[k].ours
          /\ asks'[k].held = asks[k].held /\ asks'[k].stale = asks[k].stale
      <4>1. {i} \in SUBSET Nat
        BY <1>5
      <4>2. asks'[k] \in Asks
        BY <3>1, <4>1 DEF Asks
      <4>3. QED
        BY <3>1, <4>2 DEF Asks
    <3>3. i \in Told(g)'
      BY <1>4
    <3>4. QED
      BY <1>1, <2>1, <3>2, <3>3 DEF AskMoves
  <2>2. CASE ~ (asks[k].kind = "post" /\ asks[k].after = i)
    <3>1. asks'[k] = asks[k]
      BY <1>2, <2>2
    <3>2. QED
      BY <3>1, AskTyped DEF AskMoves
  <2>3. QED
    BY <2>1, <2>2
<1>8. asks' \in Seq(Asks) /\ DOMAIN asks' = DOMAIN asks
  BY <1>2, <1>7, AnswersTyped
<1>9. ws' \in Sockets /\ RoomMoves
  <2>1. CASE ws.group = g /\ ws.st \in {"joined", "open"}
    <3>1. ws' = [ws EXCEPT !.inbox = Append(@, i)] /\ ws \in Sockets
      BY <1>2, <2>1 DEF PageTypeOK
    <3>2. Append(ws.inbox, i) \in Seq(Nat)
      BY <1>5, SocketTyped, Added
    <3>3. /\ ws' \in Sockets /\ ws'.group = ws.group /\ ws'.st = ws.st
          /\ ws'.inbox = Append(ws.inbox, i) /\ ws'.stale = ws.stale
      BY <3>1, <3>2 DEF Sockets
    <3>4. i \in Told(g)' \ Told(g) /\ Told(g)' = Told(g) \cup {i}
      BY <1>4, <1>5
    <3>5. QED
      BY <2>1, <3>3, <3>4 DEF RoomMoves
  <2>2. CASE ~ (ws.group = g /\ ws.st \in {"joined", "open"})
    <3>1. ws' = ws
      BY <1>2, <2>2
    <3>2. PICK h : h = ws.group
      OBVIOUS
    <3>3. ws.st \in {"joined", "open"} => Told(h)' = Told(h)
      BY <1>4, <2>2, <3>2
    <3>4. QED
      BY <3>1, <3>2, <3>3 DEF RoomMoves, PageTypeOK
  <2>3. QED
    BY <2>1, <2>2
<1>10. PageTypeOK'
  BY <1>2, <1>3, <1>8, <1>9 DEF PageTypeOK
<1>11. QED
  BY <1>2, <1>3, <1>6, <1>7, <1>8, <1>9, <1>10 DEF Beside

\* A step that only moves one request.
LEMMA OneAskBeside ==
    ASSUME BoardTypeOK, PageTypeOK, NEW k \in DOMAIN asks, NEW a \in Asks,
           asks' = [asks EXCEPT ![k] = a], AskMoves(k),
           UNCHANGED <<messages, cur, shown, ws, timer, closing, excused, stray>>,
           faults' \in 0 .. MaxFaults
    PROVE  Beside
<1>1. /\ DOMAIN asks' = DOMAIN asks /\ asks'[k] = a
      /\ \A m \in DOMAIN asks : m # k => asks'[m] = asks[m]
      /\ asks' = [m \in DOMAIN asks |-> asks'[m]]
  OBVIOUS
<1>2. \A m \in DOMAIN asks : asks'[m] \in Asks /\ AskMoves(m)
  <2>1. ASSUME NEW m \in DOMAIN asks, m # k PROVE asks'[m] \in Asks /\ AskMoves(m)
    BY <1>1, <2>1, AskTyped DEF AskMoves
  <2>2. QED
    BY <1>1, <2>1
<1>3. asks' \in Seq(Asks)
  BY <1>1, <1>2, AnswersTyped
<1>4. BoardTypeOK' /\ PageTypeOK'
  BY <1>3 DEF BoardTypeOK, PageTypeOK
<1>5. RoomMoves
  BY StillGrown DEF RoomMoves
<1>6. QED
  BY <1>1, <1>2, <1>4, <1>5, StillGrown DEF Beside

LEMMA ServeBeside ==
    ASSUME BoardTypeOK, PageTypeOK, NEW k \in DOMAIN asks, Serve(k)
    PROVE  Beside
<1> DEFINE got == ListMessages(asks[k].group, asks[k].after, PageLimit)
           a == [asks[k] EXCEPT !.st = "answered", !.got = got]
<1>1. got \in SUBSET Nat
  <2>1. \A g : Visible(g) \subseteq Nat
    BY IdsOf
  <2>2. QED
    BY <2>1 DEF ListMessages, Oldest
<1> HIDE DEF got
<1>2. /\ a \in Asks /\ a.kind = asks[k].kind /\ a.group = asks[k].group
      /\ a.after = asks[k].after /\ a.ours = asks[k].ours /\ a.held = asks[k].held
      /\ a.stale = asks[k].stale
      /\ a.st = "answered" /\ a.got = got
  BY <1>1, AskTyped DEF Asks
<1>3. asks[k].kind # "post"
      /\ UNCHANGED <<messages, cur, shown, ws, timer, closing, excused, stray, faults>>
  BY DEF Serve
<1>4. asks' = [asks EXCEPT ![k] = a]
  BY DEF Serve, got
<1> HIDE DEF a
<1>5. asks'[k] = a
  BY <1>4
<1>6. AskMoves(k)
  BY <1>2, <1>3, <1>5 DEF AskMoves, got
<1>7. faults' \in 0 .. MaxFaults
  BY <1>3 DEF PageTypeOK
<1>8. QED
  BY <1>2, <1>3, <1>4, <1>6, <1>7, OneAskBeside

LEMMA AskFailsBeside ==
    ASSUME BoardTypeOK, PageTypeOK, NEW k \in DOMAIN asks, AskFails(k)
    PROVE  Beside
<1> DEFINE a == [asks[k] EXCEPT !.st = "failed"]
<1>1. /\ a \in Asks /\ a.kind = asks[k].kind /\ a.group = asks[k].group
      /\ a.after = asks[k].after /\ a.ours = asks[k].ours /\ a.held = asks[k].held
      /\ a.stale = asks[k].stale
      /\ a.st = "failed" /\ a.got = asks[k].got
  BY AskTyped DEF Asks
<1>2. /\ asks[k].st = "asked" /\ faults > 0 /\ faults' = faults - 1
      /\ UNCHANGED <<messages, cur, shown, ws, timer, closing, excused, stray>>
  BY DEF AskFails, Spend
<1>3. asks' = [asks EXCEPT ![k] = a]
  BY DEF AskFails
<1> HIDE DEF a
<1>4. asks'[k] = a
  BY <1>3
<1>5. AskMoves(k)
  BY <1>1, <1>2, <1>4 DEF AskMoves
<1>6. faults' \in 0 .. MaxFaults
  BY <1>2, PageAssumption DEF PageTypeOK
<1>7. QED
  BY <1>1, <1>2, <1>3, <1>5, <1>6, OneAskBeside

LEMMA DroppedSocket ==
    ASSUME PageTypeOK, NEW st \in {"dropped", "revoked"}, ws' = Dropped(ws, st)
    PROVE  /\ ws' \in Sockets
           /\ \/ Up /\ ws'.group = ws.group /\ ws'.st = st /\ ws'.inbox = <<>>
                 /\ ws'.stale = ws.stale
              \/ ~Up /\ ws' = ws
<1>1. CASE Up
  <2>1. ws' = [ws EXCEPT !.st = st, !.inbox = <<>>] /\ ws \in Sockets
    BY <1>1 DEF Up, Dropped, PageTypeOK
  <2>2. <<>> \in Seq(Nat)
    OBVIOUS
  <2>3. QED
    BY <1>1, <2>1, <2>2 DEF Sockets
<1>2. CASE ~Up
  BY <1>2 DEF Up, Dropped, PageTypeOK
<1>3. QED
  BY <1>1, <1>2

LEMMA DropBeside ==
    ASSUME BoardTypeOK, PageTypeOK, NEW st \in {"dropped", "revoked"}, Drop(st)
    PROVE  Beside
<1>1. /\ Up /\ faults > 0 /\ faults' = faults - 1 /\ ws' = Dropped(ws, st)
      /\ UNCHANGED <<messages, cur, shown, asks, timer, closing, excused, stray>>
  BY DEF Drop, Spend
<1>2. /\ ws' \in Sockets /\ ws'.group = ws.group /\ ws'.st = st /\ ws'.inbox = <<>>
      /\ ws'.stale = ws.stale
  BY <1>1, DroppedSocket
<1>3. RoomMoves
  BY <1>1, <1>2 DEF RoomMoves
<1>4. faults' \in 0 .. MaxFaults
  BY <1>1, PageAssumption DEF PageTypeOK
<1>5. BoardTypeOK' /\ PageTypeOK'
  BY <1>1, <1>2, <1>4 DEF BoardTypeOK, PageTypeOK
<1>6. QED
  BY <1>1, <1>3, <1>5, StillGrown, AsksSame DEF Beside

LEMMA ServerRestartBeside ==
    ASSUME BoardTypeOK, PageTypeOK, ServerRestart
    PROVE  Beside
<1>1. /\ faults > 0 /\ faults' = faults - 1 /\ Restart /\ ws' = Dropped(ws, "dropped")
      /\ asks' = [k \in DOMAIN asks |-> IF asks[k].st = "asked"
                                        THEN [asks[k] EXCEPT !.st = "failed"] ELSE asks[k]]
      /\ excused' = excused \cup {i \in DOMAIN messages :
             messages[i].stage = "stored" /\ Overtaken(i, Told(messages[i].group))}
      /\ UNCHANGED <<cur, shown, timer, closing, stray>>
  BY DEF ServerRestart, Spend, Failed, Excuse
<1>2. /\ BoardTypeOK' /\ DOMAIN messages' = DOMAIN messages
      /\ \A j \in DOMAIN messages : messages'[j].group = messages[j].group
      /\ \A j \in DOMAIN messages :
            messages'[j].stage = CASE messages[j].stage = "sent" -> "lost"
                                   [] messages[j].stage = "stored" -> "kept"
                                   [] OTHER -> messages[j].stage
  BY <1>1, Restarted DEF Kept
<1>3. \A h : Visible(h)' = Visible(h) /\ Told(h) \subseteq Visible(h)
             /\ Told(h)' = Told(h) \cup {i \in Visible(h) : messages[i].stage = "stored"}
  BY <1>2 DEF Visible, Told
<1>4. \A h : Grown(Visible(h), Told(h), excused, Visible(h)', Told(h)', excused')
  <2>1. ASSUME NEW h, NEW j \in Told(h)' \ Told(h), Overtaken(j, Told(h)) PROVE j \in excused'
    <3>1. j \in DOMAIN messages /\ messages[j].stage = "stored" /\ messages[j].group = h
      BY <1>3, <2>1 DEF Visible
    <3>2. QED
      BY <1>1, <2>1, <3>1
  <2>2. QED
    BY <1>1, <1>3, <2>1 DEF Grown
<1>5. ASSUME NEW k \in DOMAIN asks PROVE asks'[k] \in Asks /\ AskMoves(k)
  <2>1. CASE asks[k].st = "asked"
    <3>1. asks'[k] = [asks[k] EXCEPT !.st = "failed"] /\ asks[k] \in Asks
      BY <1>1, <2>1, AskTyped
    <3>2. /\ asks'[k] \in Asks /\ asks'[k].st = "failed" /\ asks'[k].got = asks[k].got
          /\ asks'[k].kind = asks[k].kind /\ asks'[k].group = asks[k].group
          /\ asks'[k].after = asks[k].after /\ asks'[k].ours = asks[k].ours
          /\ asks'[k].held = asks[k].held /\ asks'[k].stale = asks[k].stale
      BY <3>1 DEF Asks
    <3>3. QED
      BY <2>1, <3>2 DEF AskMoves
  <2>2. CASE asks[k].st # "asked"
    <3>1. asks'[k] = asks[k]
      BY <1>1, <2>2
    <3>2. QED
      BY <3>1, AskTyped DEF AskMoves
  <2>3. QED
    BY <2>1, <2>2
<1>6. asks' \in Seq(Asks) /\ DOMAIN asks' = DOMAIN asks
  BY <1>1, <1>5, AnswersTyped
<1>7. /\ ws' \in Sockets
      /\ \/ Up /\ ws'.group = ws.group /\ ws'.st = "dropped" /\ ws'.inbox = <<>>
            /\ ws'.stale = ws.stale
         \/ ~Up /\ ws' = ws
  BY <1>1, DroppedSocket
<1>8. RoomMoves
  BY <1>7 DEF RoomMoves, Up
<1>9. PageTypeOK'
  <2>1. faults' \in 0 .. MaxFaults
    BY <1>1, PageAssumption DEF PageTypeOK
  <2>2. excused' \subseteq DOMAIN messages'
    BY <1>1, <1>2 DEF PageTypeOK
  <2>3. QED
    BY <1>1, <1>2, <1>6, <1>7, <2>1, <2>2 DEF PageTypeOK
<1>10. QED
  BY <1>1, <1>2, <1>4, <1>5, <1>6, <1>8, <1>9 DEF Beside

LEMMA AroundBeside ==
    ASSUME BoardTypeOK, PageTypeOK, Around
    PROVE  Beside
BY OtherInsertBeside, PageCommitBeside, PageRollbackBeside, PageTellBeside, ServeBeside,
   AskFailsBeside, DropBeside, ServerRestartBeside DEF Around

-----------------------------------------------------------------------------
(* The invariant holds whatever happens around the page.                     *)

\* A request that is served has a page without gaps.
LEMMA ServedOK ==
    ASSUME BoardTypeOK, NEW a \in Asks, NEW b \in Asks, NEW T \in SUBSET Here, NEW E,
           AskOK(a, Here, T, E), a.group = cur, a.kind # "post",
           b.kind = a.kind, b.after = a.after, b.held = a.held, b.st = "answered",
           b.got = ListMessages(a.group, a.after, PageLimit)
    PROVE  AskOK(b, Here, T, E)
<1> DEFINE S == {i \in Here : i > a.after}
           n == Len(messages)
<1>1. n \in Nat /\ Here \in SUBSET (1 .. n)
  BY IdsOf DEF Here
<1>2. S \in SUBSET (1 .. n) /\ PageLimit \in Nat /\ a.after \in Nat
      /\ \A j \in Here : j \in Nat
  <2>1. a.after \in Nat
    BY DEF Asks
  <2>2. PageLimit \in Nat
    BY PageAssumption
  <2>3. \A j \in Here : j \in 1 .. n
    BY <1>1
  <2>4. \A j \in 1 .. n : j \in Nat
    OBVIOUS
  <2>5. QED
    BY <2>1, <2>2, <2>3, <2>4
<1>3. b.got = Oldest(S, PageLimit)
  BY DEF ListMessages, Here
<1> HIDE DEF n
<1>4. b.got \subseteq S
  BY <1>3 DEF Oldest
<1>5. Gapless(b, Here, E)
  <2>1. SUFFICES ASSUME NEW i \in b.got, NEW j \in Here, b.after < j, j < i
                 PROVE  j \in b.got
    BY DEF Gapless
  <2>2. j \in S
    BY <1>2, <2>1
  <2> HIDE DEF S
  <2>3. QED
    BY <1>1, <1>2, <1>3, <2>1, <2>2, OldestFirst
<1>6. ASSUME Partial(b), NEW j \in T PROVE Covers(b, j, E)
  <2>1. Cardinality(Oldest(S, PageLimit)) # PageLimit
    BY <1>3, <1>6 DEF Partial
  <2>2. b.got = S
    <3> HIDE DEF S
    <3>1. QED
      BY <1>1, <1>2, <1>3, <2>1, ShortPageIsAll
  <2>3. j \in Here /\ j \in Nat
    BY <1>2
  <2>4. QED
    BY <1>2, <2>2, <2>3 DEF Covers
<1>7. b.got \subseteq Here
  BY <1>4
<1>8. QED
  BY <1>5, <1>6, <1>7 DEF AskOK

LEMMA AskMovesOK ==
    ASSUME BoardTypeOK, PageTypeOK, cur \in Projects, Beside, NEW k \in DOMAIN asks,
           asks[k].group = cur, AskOK(asks[k], Here, Heard, excused),
           asks[k].kind = "post" =>
               asks[k].after \in DOMAIN messages /\ messages[asks[k].after].group = cur
    PROVE  AskOK(asks'[k], Here', Heard', excused')
<1>1. asks[k] \in Asks /\ k \in DOMAIN asks' /\ AskMoves(k)
  BY AskTyped DEF Beside
<1>2. asks'[k] \in Asks
  <2> DEFINE A == Asks
  <2>1. asks' \in Seq(A)
    BY DEF Beside, PageTypeOK
  <2> HIDE DEF A
  <2>2. asks'[k] \in A
    BY <1>1, <2>1, ElementOfSeq
  <2>3. QED
    BY <2>2 DEF A
<1>3. PICK a \in Asks : a = asks[k]
  BY <1>1
<1>4. PICK b \in Asks : b = asks'[k]
  BY <1>2
<1> SUFFICES AskOK(b, Here', Heard', excused')
  BY <1>4
<1>5. /\ Heard \subseteq Here /\ Heard' \subseteq Here'
      /\ Grown(Here, Heard, excused, Here', Heard', excused')
  BY DEF Beside, Here, Heard, Told, Visible
<1>6. /\ b.kind = a.kind /\ b.group = a.group /\ b.after = a.after /\ b.ours = a.ours
      /\ b.held = a.held /\ a.group = cur /\ AskOK(a, Here, Heard, excused)
  BY <1>1, <1>3, <1>4 DEF AskMoves
<1>7. AskOK(a, Here', Heard', excused')
  BY <1>5, <1>6, AskStays
<1>8. CASE b.st = a.st /\ b.got = a.got
  BY <1>6, <1>7, <1>8 DEF AskOK, Gapless, Partial, Covers
<1>9. CASE b.st = "failed" /\ b.got = {}
  BY <1>6, <1>7, <1>9 DEF AskOK, Gapless, Partial
<1>10. CASE /\ a.kind # "post" /\ messages' = messages /\ b.st = "answered"
            /\ b.got = ListMessages(a.group, a.after, PageLimit)
  <2>1. AskOK(b, Here, Heard, excused)
    BY <1>5, <1>6, <1>10, ServedOK
  <2>2. QED
    BY <1>5, <2>1, AskStays
<1>11. CASE /\ a.kind = "post" /\ b.st = "answered" /\ b.got = {a.after}
            /\ a.after \in Heard'
  BY <1>5, <1>6, <1>7, <1>11 DEF AskOK, Gapless, Partial
<1>12. \/ b.st = a.st /\ b.got = a.got
       \/ b.st = "failed" /\ b.got = {}
       \/ /\ a.kind # "post" /\ messages' = messages /\ b.st = "answered"
          /\ b.got = ListMessages(a.group, a.after, PageLimit)
       \/ /\ a.kind = "post" /\ b.st = "answered" /\ b.got = {a.after}
          /\ a.after \in Heard'
  <2>1. ASSUME a.kind = "post", NEW i, NEW g, i = a.after, g = messages[i].group, i \in Told(g)'
        PROVE  a.after \in Heard'
    <3>1. g = cur'
      BY <1>3, <2>1 DEF Beside
    <3>2. QED
      BY <2>1, <3>1 DEF Heard, Told, Visible
  <2>2. ASSUME b.got = a.got,
               a.st # "answered" \/ (a.kind = "post" /\ \A g \in Projects : a.after \notin Told(g))
        PROVE  b.got = {}
    BY <1>6, <2>2 DEF AskOK, Heard
  <2>3. QED
    BY <1>1, <1>3, <1>4, <2>1, <2>2 DEF AskMoves
<1>13. QED
  BY <1>8, <1>9, <1>10, <1>11, <1>12

\* The moves of the socket, with what they do to the inbox.
LEMMA RoomFacts ==
    ASSUME BoardTypeOK, PageTypeOK, SocketOK, Beside
    PROVE  /\ ws'.group = ws.group /\ ws'.stale = ws.stale
           /\ ws' = NoSocket <=> ws = NoSocket
           /\ \A j : Among(j, ws.inbox) => ws'.inbox = <<>> \/ Among(j, ws'.inbox)
           /\ ws'.st \in {"dialing", "joined", "open", "none"} => ws'.st = ws.st
           /\ ws'.st \in {"joined", "open"} =>
                \A j \in Told(ws.group) : Among(j, ws.inbox) => Among(j, ws'.inbox)
           /\ \A g : g = ws.group => \A m \in DOMAIN ws'.inbox : ws'.inbox[m] \in Told(g)'
           /\ \A g : g = ws.group /\ ws'.st \in {"joined", "open"} =>
                \A j \in Told(g)' \ Told(g) : Among(j, ws'.inbox)
           /\ InTurn(ws.inbox, excused) => InTurn(ws'.inbox, excused')
           /\ \A s \in Seq(Nat) :
                /\ \A p \in DOMAIN s : s[p] \in Told(ws.group)
                /\ Precedes(s, ws.inbox, excused)
                => Precedes(s, ws'.inbox, excused')
           /\ ws'.st \notin {"joined", "open"} => ws'.inbox = <<>>
<1>1. PICK g : /\ g = ws.group
               /\ \/ ws' = ws /\ (ws.st \in {"joined", "open"} => Told(g)' = Told(g))
                  \/ \E i \in Told(g)' \ Told(g) :
                        /\ ws.st \in {"joined", "open"}
                        /\ ws'.group = ws.group /\ ws'.st = ws.st /\ ws'.inbox = Append(ws.inbox, i)
                        /\ ws'.stale = ws.stale
                        /\ Told(g)' = Told(g) \cup {i}
                  \/ /\ Up
                     /\ ws'.group = ws.group /\ ws'.st \in {"dropped", "revoked"} /\ ws'.inbox = <<>>
                     /\ ws'.stale = ws.stale
  BY DEF Beside, RoomMoves
<1>2. Grown(Visible(g), Told(g), excused, Visible(g)', Told(g)', excused')
  BY DEF Beside
<1>3. CASE ws' = ws /\ (ws.st \in {"joined", "open"} => Told(g)' = Told(g))
  <2>1. \A m \in DOMAIN ws.inbox : ws.inbox[m] \in Told(g)'
    BY <1>1, <1>2 DEF SocketOK, Grown
  <2>2. InTurn(ws.inbox, excused) => InTurn(ws.inbox, excused')
    BY <1>2 DEF InTurn, Grown
  <2>3. \A s : Precedes(s, ws.inbox, excused) => Precedes(s, ws.inbox, excused')
    BY <1>2 DEF Precedes, Grown
  <2>4. \A h : h = ws.group => h = g
    BY <1>1
  <2>5. ws.st \notin {"joined", "open"} => ws.inbox = <<>>
    BY DEF SocketOK
  <2>6. ws.st \in {"joined", "open"} => Told(g)' \ Told(g) = {}
    BY <1>3
  <2>7. QED
    BY <1>3, <2>1, <2>2, <2>3, <2>4, <2>5, <2>6
<1>4. CASE \E i \in Told(g)' \ Told(g) :
             /\ ws.st \in {"joined", "open"}
             /\ ws'.group = ws.group /\ ws'.st = ws.st /\ ws'.inbox = Append(ws.inbox, i)
             /\ ws'.stale = ws.stale
             /\ Told(g)' = Told(g) \cup {i}
  <2>1. PICK i \in Told(g)' \ Told(g) :
             /\ ws.st \in {"joined", "open"}
             /\ ws'.group = ws.group /\ ws'.st = ws.st /\ ws'.inbox = Append(ws.inbox, i)
             /\ ws'.stale = ws.stale
             /\ Told(g)' = Told(g) \cup {i}
    BY <1>4
  <2>2. ws.inbox \in Seq(Nat) /\ i \in Nat
    <3>1. Told(g)' \subseteq DOMAIN messages' /\ BoardTypeOK'
      BY DEF Beside, Told, Visible
    <3>2. Len(messages') \in Nat /\ DOMAIN messages' = 1 .. Len(messages')
      BY <3>1 DEF BoardTypeOK
    <3>3. QED
      BY <2>1, <3>1, <3>2, SocketTyped
  <2>3. /\ DOMAIN ws'.inbox = DOMAIN ws.inbox \cup {Len(ws.inbox) + 1}
        /\ \A m \in DOMAIN ws.inbox : ws'.inbox[m] = ws.inbox[m]
        /\ ws'.inbox[Len(ws.inbox) + 1] = i
        /\ \A j : Among(j, ws'.inbox) <=> Among(j, ws.inbox) \/ j = i
    BY <2>1, <2>2, Added, AddedAmong
  <2>4. \A m \in DOMAIN ws.inbox : ws.inbox[m] \in Told(g)
    BY <1>1 DEF SocketOK
  <2>5. \A m \in DOMAIN ws'.inbox : ws'.inbox[m] \in Told(g)'
    BY <2>1, <2>3, <2>4
  <2>6. \A j \in Told(g) : i < j => i \in excused'
    BY <1>2, <2>1 DEF Grown, Overtaken
  <2>7. InTurn(ws.inbox, excused) => InTurn(ws'.inbox, excused')
    <3>1. InTurn(ws.inbox, excused) => InTurn(ws.inbox, excused')
      BY <1>2 DEF InTurn, Grown
    <3>2. \A m \in DOMAIN ws.inbox : i < ws.inbox[m] => i \in excused'
      BY <2>4, <2>6
    <3>3. QED
      BY <2>1, <2>2, <3>1, <3>2, AddedInTurn
  <2>8. \A s \in Seq(Nat) :
          /\ \A p \in DOMAIN s : s[p] \in Told(g)
          /\ Precedes(s, ws.inbox, excused)
          => Precedes(s, ws'.inbox, excused')
    BY <1>2, <2>3, <2>6 DEF Precedes, Grown
  <2>9. ws # NoSocket /\ ws' # NoSocket
    BY <2>1 DEF NoSocket
  <2>10. \A j \in Told(g)' \ Told(g) : Among(j, ws'.inbox)
    BY <2>1, <2>3
  <2>11. \A h : h = ws.group => h = g
    BY <1>1
  <2>12. QED
    BY <2>1, <2>3, <2>5, <2>7, <2>8, <2>9, <2>10, <2>11
<1>5. CASE /\ Up
           /\ ws'.group = ws.group /\ ws'.st \in {"dropped", "revoked"} /\ ws'.inbox = <<>>
           /\ ws'.stale = ws.stale
  <2>1. ws # NoSocket /\ ws' # NoSocket
    BY <1>5 DEF NoSocket, Up
  <2>2. DOMAIN ws'.inbox = {}
    BY <1>5
  <2>3. \A E, s : InTurn(ws'.inbox, E) /\ Precedes(s, ws'.inbox, E)
    BY <2>2 DEF InTurn, Precedes
  <2>4. QED
    BY <1>5, <2>1, <2>2, <2>3
<1>6. QED
  BY <1>1, <1>3, <1>4, <1>5

LEMMA BesideSocket ==
    ASSUME BoardTypeOK, PageTypeOK, SocketOK, Beside
    PROVE  SocketOK'
<1>1. PICK g : g = ws.group
  OBVIOUS
<1>2. /\ ws'.group = g /\ (ws' = NoSocket <=> ws = NoSocket)
      /\ \A m \in DOMAIN ws'.inbox : ws'.inbox[m] \in Told(g)'
      /\ ws'.st \notin {"joined", "open"} => ws'.inbox = <<>>
  BY <1>1, RoomFacts
<1>3. Told(ws.group)' = Told(g)'
  BY <1>2 DEF Told, Visible
<1>4. QED
  BY <1>1, <1>2, <1>3 DEF SocketOK

LEMMA BesideFollows ==
    ASSUME BoardTypeOK, PageTypeOK, SocketOK, cur # None, Following, Beside, reader' = reader
    PROVE  Following'
<1>1. /\ cur \in Projects /\ cur' = cur /\ shown' = shown /\ LastId' = LastId
      /\ DOMAIN asks' = DOMAIN asks
      /\ \A k \in DOMAIN asks : AskMoves(k)
  BY DEF Beside, PageTypeOK, LastId
<1>2. /\ Heard \subseteq Here /\ Heard' \subseteq Here'
      /\ Grown(Here, Heard, excused, Here', Heard', excused')
      /\ Grown(Here, Heard, Lost, Here', Heard', Lost')
      /\ Here \in SUBSET (1 .. Len(messages)) /\ Len(messages) \in Nat
      /\ Here' \in SUBSET (1 .. Len(messages')) /\ Len(messages') \in Nat
  <2>1. Grown(Here, Heard, excused, Here', Heard', excused')
    BY DEF Beside, Here, Heard, Told, Visible
  <2>2. Here \in SUBSET (1 .. Len(messages)) /\ Len(messages) \in Nat
    BY IdsOf DEF Here
  <2>3. BoardTypeOK' /\ Here' \subseteq DOMAIN messages'
    BY DEF Beside, Here, Visible
  <2>4. Len(messages') \in Nat /\ DOMAIN messages' = 1 .. Len(messages')
    BY <2>3 DEF BoardTypeOK
  <2>5. stray \in Nat /\ stray' \in Nat /\ stray <= stray'
    BY DEF Beside, PageTypeOK
  <2>6. Grown(Here, Heard, Lost, Here', Heard', Lost')
    BY <2>1, <2>5, LostGrows
  <2>7. QED
    BY <2>1, <2>2, <2>3, <2>4, <2>6 DEF Heard, Here, Told
<1>3. /\ ws'.group = ws.group /\ ws'.stale = ws.stale
      /\ ws'.st \in {"dialing", "joined", "open", "none"} => ws'.st = ws.st
      /\ \A j : Among(j, ws.inbox) => ws'.inbox = <<>> \/ Among(j, ws'.inbox)
      /\ InTurn(ws.inbox, excused) => InTurn(ws'.inbox, excused')
  BY RoomFacts
<1>4. ws.group = cur /\ ws'.st \in {"joined", "open"} =>
        /\ \A j \in Heard' \ Heard : Among(j, ws'.inbox)
        /\ \A j \in Heard : Among(j, ws.inbox) => Among(j, ws'.inbox)
  <2>1. \A g : g = ws.group /\ ws'.st \in {"joined", "open"} =>
                \A j \in Told(g)' \ Told(g) : Among(j, ws'.inbox)
    BY RoomFacts
  <2>2. ws'.st \in {"joined", "open"} =>
                \A j \in Told(ws.group) : Among(j, ws.inbox) => Among(j, ws'.inbox)
    BY RoomFacts
  <2>3. PICK g : g = cur
    OBVIOUS
  <2>4. Heard' = Told(g)' /\ Heard = Told(g)
    BY <1>1, <2>3 DEF Heard, Told, Visible
  <2>5. QED
    BY <2>1, <2>2, <2>3, <2>4
<1>5. Asked'
  <2>1. ASSUME NEW k \in DOMAIN asks, ~asks'[k].stale
        PROVE  /\ asks'[k].group = cur
               /\ AskOK(asks'[k], Here', Heard', excused')
               /\ asks'[k].kind = "post" =>
                    asks'[k].after \in DOMAIN messages' /\ messages'[asks'[k].after].group = cur
    <3>1. /\ asks'[k].kind = asks[k].kind /\ asks'[k].group = asks[k].group
          /\ asks'[k].after = asks[k].after /\ ~asks[k].stale
      BY <1>1, <2>1 DEF AskMoves
    <3>2. /\ asks[k].group = cur /\ AskOK(asks[k], Here, Heard, excused)
          /\ asks[k].kind = "post" =>
                asks[k].after \in DOMAIN messages /\ messages[asks[k].after].group = cur
      BY <3>1 DEF Following, Asked
    <3>3. AskOK(asks'[k], Here', Heard', excused')
      BY <1>1, <3>2, AskMovesOK
    <3>4. QED
      BY <3>1, <3>2, <3>3 DEF Beside
  <2>2. QED
    BY <1>1, <2>1 DEF Asked
<1>7. Cursors'
  <2>1. ASSUME NEW k \in DOMAIN asks, ~asks'[k].stale, asks'[k].kind # "post"
        PROVE  asks'[k].after <= LastId
    <3>1. /\ asks'[k].kind = asks[k].kind /\ asks'[k].after = asks[k].after
          /\ asks'[k].stale = asks[k].stale
      BY <1>1 DEF AskMoves
    <3>2. QED
      BY <2>1, <3>1 DEF Following, Cursors
  <2>2. QED
    BY <1>1, <2>1 DEF Cursors
<1>8. Thread'
  <2>1. /\ Sound(shown, Here, Lost) /\ Whole(shown, Here, Heard, Lost)
        /\ stray \in shown \cup {0}
    BY DEF Following, Thread
  <2>2. shown \in SUBSET (1 .. Len(messages))
    BY Listed DEF PageTypeOK
  <2>3. Sound(shown, Here', Lost') /\ Whole(shown, Here', Heard', Lost')
    BY <1>2, <2>1, <2>2, WholeStays
  <2>4. stray' = stray
    BY DEF Beside
  <2>5. QED
    BY <1>1, <2>1, <2>3, <2>4 DEF Thread
<1>9. Queue'
  <2>1. ASSUME ~ws.stale, NEW k \in DOMAIN asks, ~asks'[k].stale
        PROVE  Precedes(asks'[k].held, ws'.inbox, excused')
    <3>1. asks'[k].held = asks[k].held /\ ~asks[k].stale
      BY <1>1, <2>1 DEF AskMoves
    <3>2. Precedes(asks[k].held, ws.inbox, excused) /\ ws.group = cur
      BY <2>1, <3>1 DEF Following, Queue
    <3>3. asks[k].held \in Seq(Nat)
      BY AskTyped
    <3>4. \A p \in DOMAIN asks[k].held : asks[k].held[p] \in Told(ws.group)
      BY <3>1, <3>2 DEF Following, Asked, AskOK, Heard
    <3>5. QED
      BY <3>1, <3>2, <3>3, <3>4, RoomFacts
  <2>2. ~ws.stale => ws.group = cur /\ InTurn(ws'.inbox, excused')
    BY <1>3 DEF Following, Queue
  <2>3. QED
    BY <1>1, <1>3, <2>1, <2>2 DEF Queue
<1>10. ASSUME ws.group = cur, ws'.st \in {"joined", "open"}, \A j \in Heard : Accounted(j),
              NEW j \in Heard'
       PROVE  Accounted(j)'
  <2>1. CASE j \in Heard
    <3>1. j \in shown \/ j \in Lost \/ Among(j, ws.inbox)
      BY <1>10, <2>1 DEF Accounted
    <3>2. QED
      BY <1>1, <1>2, <1>4, <1>10, <2>1, <3>1 DEF Accounted, Grown
  <2>2. CASE j \notin Heard
    BY <1>4, <1>10, <2>2 DEF Accounted
  <2>3. QED
    BY <2>1, <2>2
<1>11. reader = "classic" => ClassicOK'
  <2>1. SUFFICES ASSUME reader = "classic", ClassicOK PROVE ClassicOK'
    BY DEF Following
  <2>2. \A k \in DOMAIN asks : /\ asks'[k].kind = asks[k].kind /\ asks'[k].stale = asks[k].stale
                               /\ Backfilling(k)' <=> Backfilling(k)
    BY <1>1 DEF AskMoves, Backfilling
  <2>3. Backfilled' = Backfilled
    BY <1>1, <2>2 DEF Backfilled
  <2>4. \A k \in DOMAIN asks' :
          /\ asks'[k].kind = "backfill" /\ ws'.stale => asks'[k].stale
          /\ Backfilling(k)' => asks'[k].stale = ws'.stale
    BY <1>1, <1>3, <2>1, <2>2 DEF ClassicOK
  <2>5. ~ws'.stale /\ ws'.st \in {"dialing", "joined"} => Backfilled'
    BY <1>1, <1>3, <2>1, <2>3 DEF ClassicOK
  <2>6. ~ws'.stale /\ ws'.st = "open" /\ Backfilled' => \A j \in Heard' : Accounted(j)'
    BY <1>1, <1>3, <1>10, <2>1, <2>3 DEF ClassicOK, Following, Queue
  <2>7. ASSUME ~ws'.stale, ws'.st = "open", NEW k \in DOMAIN asks, Backfilling(k)',
               Partial(asks'[k]), NEW j \in Heard'
        PROVE  Covers(asks'[k], j, excused') \/ Among(j, ws'.inbox)
    <3>1. /\ ws.group = cur /\ ~ws.stale /\ ws.st = "open" /\ Backfilling(k) /\ ~asks[k].stale
          /\ asks'[k].after = asks[k].after /\ asks'[k].held = asks[k].held
          /\ asks[k].kind = "backfill" /\ asks'[k].kind = "backfill"
      BY <1>1, <1>3, <2>1, <2>2, <2>7 DEF AskMoves, Backfilling, ClassicOK, Following, Queue
    <3>2. CASE j \notin Heard
      BY <1>4, <2>7, <3>1, <3>2
    <3>3. CASE j \in Heard /\ asks'[k].st = asks[k].st /\ asks'[k].got = asks[k].got
      <4>1. Partial(asks[k])
        BY <2>7, <3>1, <3>3 DEF Partial
      <4>2. Covers(asks[k], j, excused) \/ Among(j, ws.inbox)
        BY <2>1, <3>1, <3>3, <4>1 DEF ClassicOK
      <4>3. QED
        BY <1>2, <1>4, <2>7, <3>1, <3>3, <4>2 DEF Covers, Grown
    <3>4. CASE /\ j \in Heard /\ messages' = messages
               /\ asks'[k].got = ListMessages(asks[k].group, asks[k].after, PageLimit)
      <4>1. PICK g : g = cur
        OBVIOUS
      <4>2. asks[k].group = g /\ asks[k].after \in Nat
        BY <3>1, <4>1, AskTyped DEF Following, Asked
      <4>3. asks'[k].got = Oldest({i \in Here : i > asks[k].after}, PageLimit)
        BY <3>4, <4>1, <4>2 DEF ListMessages, Here
      <4>4. {i \in Here : i > asks[k].after} \in SUBSET (1 .. Len(messages)) /\ PageLimit \in Nat
        BY <1>2, PageAssumption
      <4>5. asks'[k].got = {i \in Here : i > asks[k].after}
        BY <1>2, <2>7, <4>3, <4>4, ShortPageIsAll DEF Partial
      <4>6. j \in Here /\ j \in Nat
        BY <1>2, <3>4
      <4>7. QED
        BY <3>1, <4>2, <4>5, <4>6 DEF Covers
    <3>5. QED
      BY <1>1, <2>7, <3>1, <3>2, <3>3, <3>4 DEF AskMoves, Partial
  <2>8. QED
    BY <1>1, <2>4, <2>5, <2>6, <2>7 DEF ClassicOK
<1>12. reader = "home" => HomeOK'
  <2>1. SUFFICES ASSUME reader = "home", HomeOK PROVE HomeOK'
    BY DEF Following
  <2>2. QED
    BY <1>1, <1>3, <1>10, <2>1 DEF HomeOK, Following, Queue
<1>13. QED
  BY <1>5, <1>7, <1>8, <1>9, <1>11, <1>12 DEF Following

LEMMA BesideKnown ==
    ASSUME Known, Beside
    PROVE  Known'
<1>1. SUFFICES ASSUME NEW k \in DOMAIN asks
               PROVE  /\ asks'[k].got \subseteq DOMAIN messages'
                      /\ \A n \in DOMAIN asks'[k].held : asks'[k].held[n] \in DOMAIN messages'
  BY DEF Known, Beside
<1>2. /\ asks[k].got \subseteq DOMAIN messages /\ asks'[k].held = asks[k].held
      /\ \A n \in DOMAIN asks[k].held : asks[k].held[n] \in DOMAIN messages
      /\ DOMAIN messages \subseteq DOMAIN messages'
  BY DEF Known, Beside, AskMoves
<1>3. \A i, g : i \in Told(g)' => i \in DOMAIN messages'
  BY DEF Told, Visible
<1>4. ListMessages(asks[k].group, asks[k].after, PageLimit) \subseteq DOMAIN messages
  BY DEF ListMessages, Oldest, Visible
<1>5. asks'[k].got \subseteq DOMAIN messages'
  <2>1. AskMoves(k)
    BY DEF Beside
  <2>2. QED
    BY <1>2, <1>3, <1>4, <2>1 DEF AskMoves
<1>6. QED
  BY <1>2, <1>5

LEMMA AroundOK ==
    ASSUME PageOK, Around, reader' = reader
    PROVE  PageOK'
<1>1. Beside
  BY AroundBeside DEF PageOK
<1>2. cur' = cur /\ stray' = stray /\ BoardTypeOK' /\ PageTypeOK'
  BY <1>1 DEF Beside
<1>3. SocketOK'
  BY <1>1, BesideSocket DEF PageOK
<1>4. cur # None => Following'
  BY <1>1, BesideFollows DEF PageOK
<1>5. Known'
  BY <1>1, BesideKnown DEF PageOK
<1>6. QED
  BY <1>2, <1>3, <1>4, <1>5 DEF PageOK

-----------------------------------------------------------------------------
(* Requests and sockets that the pages make.                                 *)

LEMMA RequestIs ==
    ASSUME NEW kind \in {"history", "backfill", "poll", "post"}, NEW g \in Projects,
           NEW after \in Nat
    PROVE  LET a == Request(kind, g, after) IN
           /\ a \in Asks /\ a.kind = kind /\ a.group = g /\ a.after = after
           /\ a.ours /\ ~a.stale /\ a.got = {} /\ a.held = <<>> /\ a.st = "asked"
<1>1. <<>> \in Seq(Nat)
  OBVIOUS
<1>2. QED
  BY <1>1 DEF Request, Asks

LEMMA RequestOK ==
    ASSUME NEW kind \in {"history", "backfill", "poll", "post"}, NEW g \in Projects,
           NEW after \in Nat, NEW V, NEW T, NEW E, kind = "history" => after = 0
    PROVE  AskOK(Request(kind, g, after), V, T, E)
BY RequestIs DEF AskOK, Gapless, InTurn, Partial

LEMMA DialingIs ==
    ASSUME NEW g \in Projects
    PROVE  /\ Dialing(g) \in Sockets /\ Dialing(g).group = g /\ Dialing(g).st = "dialing"
           /\ Dialing(g).inbox = <<>> /\ ~Dialing(g).stale /\ g # None
<1>1. <<>> \in Seq(Nat)
  OBVIOUS
<1>2. g # None
  BY BoardAssumption
<1>3. QED
  BY <1>1, <1>2 DEF Dialing, Sockets

LEMMA NoSocketIs ==
    /\ NoSocket \in Sockets /\ NoSocket.group = None /\ NoSocket.st = "none"
    /\ NoSocket.inbox = <<>> /\ NoSocket.stale
<1>1. <<>> \in Seq(Nat)
  OBVIOUS
<1>2. QED
  BY <1>1 DEF NoSocket, Sockets

LEMMA AsksRemoved ==
    ASSUME PageTypeOK, NEW k \in DOMAIN asks
    PROVE  /\ RemoveAt(asks, k) \in Seq(Asks)
           /\ \A m \in DOMAIN RemoveAt(asks, k) :
                  \E p \in DOMAIN asks : p # k /\ RemoveAt(asks, k)[m] = asks[p]
           /\ \A p \in DOMAIN asks : p # k =>
                  \E m \in DOMAIN RemoveAt(asks, k) : RemoveAt(asks, k)[m] = asks[p]
<1> DEFINE A == Asks
<1>1. asks \in Seq(A)
  BY DEF PageTypeOK
<1> HIDE DEF A
<1>2. /\ RemoveAt(asks, k) \in Seq(A)
      /\ \A m \in DOMAIN RemoveAt(asks, k) :
             \E p \in DOMAIN asks : p # k /\ RemoveAt(asks, k)[m] = asks[p]
      /\ \A p \in DOMAIN asks : p # k =>
             \E m \in DOMAIN RemoveAt(asks, k) : RemoveAt(asks, k)[m] = asks[p]
  BY <1>1, Removed, Zenon
<1>3. QED
  BY <1>2 DEF A

LEMMA AsksAdded ==
    ASSUME PageTypeOK, NEW a \in Asks, Ask(a)
    PROVE  /\ asks' \in Seq(Asks)
           /\ DOMAIN asks' = DOMAIN asks \cup {Len(asks) + 1}
           /\ Len(asks) \in Nat /\ DOMAIN asks = 1 .. Len(asks)
           /\ \A m \in DOMAIN asks : asks'[m] = asks[m]
           /\ asks'[Len(asks) + 1] = a
<1> DEFINE A == Asks
<1>1. asks \in Seq(A) /\ a \in A /\ asks' = Append(asks, a)
  BY DEF PageTypeOK, Ask
<1> HIDE DEF A
<1>2. /\ Append(asks, a) \in Seq(A)
      /\ DOMAIN Append(asks, a) = DOMAIN asks \cup {Len(asks) + 1}
      /\ Len(asks) \in Nat /\ DOMAIN asks = 1 .. Len(asks)
      /\ \A m \in DOMAIN asks : Append(asks, a)[m] = asks[m]
      /\ Append(asks, a)[Len(asks) + 1] = a
  BY <1>1, Added
<1>3. QED
  BY <1>1, <1>2 DEF A

\* The socket's requests go on without it.
LEMMA AsksDisowned ==
    ASSUME NEW s \in Seq(Asks)
    PROVE  /\ Disowned(s) \in Seq(Asks) /\ DOMAIN Disowned(s) = DOMAIN s
           /\ \A k \in DOMAIN s :
                LET d == Disowned(s)[k] IN
                /\ d.kind = s[k].kind /\ d.group = s[k].group /\ d.after = s[k].after
                /\ d.got = s[k].got /\ d.held = s[k].held /\ d.st = s[k].st /\ ~ d.ours
                /\ d.stale = s[k].stale
<1> DEFINE A == Asks
           t == Disowned(s)
<1>1. \A k \in DOMAIN s : s[k] \in A
  <2>1. s \in Seq(A)
    OBVIOUS
  <2> HIDE DEF A
  <2>2. QED
    BY <2>1, ElementOfSeq
<1>2. t = [k \in DOMAIN s |-> [s[k] EXCEPT !.ours = FALSE]]
  BY DEF Disowned
<1>3. ASSUME NEW k \in DOMAIN s
      PROVE  /\ t[k] \in A
             /\ t[k].kind = s[k].kind /\ t[k].group = s[k].group /\ t[k].after = s[k].after
             /\ t[k].got = s[k].got /\ t[k].held = s[k].held /\ t[k].st = s[k].st /\ ~ t[k].ours
             /\ t[k].stale = s[k].stale
  <2>1. s[k] \in Asks /\ t[k] = [s[k] EXCEPT !.ours = FALSE]
    BY <1>1, <1>2
  <2> HIDE DEF t
  <2>2. QED
    BY <2>1 DEF Asks
<1>4. t \in Seq(A) /\ DOMAIN t = DOMAIN s
  <2>1. s \in Seq(A) /\ t = [k \in DOMAIN s |-> t[k]] /\ \A k \in DOMAIN s : t[k] \in A
    BY <1>2, <1>3
  <2> HIDE DEF A, t
  <2>2. QED
    BY <2>1, Mapped
<1>5. QED
  BY <1>3, <1>4 DEF A, t

LEMMA StaleAsk ==
    ASSUME NEW a \in Asks, NEW b, b = [a EXCEPT !.stale = TRUE]
    PROVE  /\ b \in Asks /\ b.kind = a.kind /\ b.group = a.group /\ b.after = a.after
           /\ b.got = a.got /\ b.held = a.held /\ b.st = a.st /\ b.ours = a.ours
           /\ b.stale = TRUE
BY DEF Asks

LEMMA AsksMapped ==
    ASSUME NEW s \in Seq(Asks), NEW t, t = [k \in DOMAIN s |-> t[k]],
           \A k \in DOMAIN s : t[k] \in Asks
    PROVE  /\ t \in Seq(Asks) /\ DOMAIN t = DOMAIN s
           /\ Len(t) = Len(s) /\ Len(t) \in Nat /\ DOMAIN t = 1 .. Len(t)
<1> DEFINE A == Asks
<1>1. s \in Seq(A) /\ \A k \in DOMAIN s : t[k] \in A
  OBVIOUS
<1> HIDE DEF A
<1>2. t \in Seq(A) /\ DOMAIN t = DOMAIN s
  BY <1>1, Mapped
<1>3. Len(t) \in Nat /\ DOMAIN t = 1 .. Len(t) /\ Len(s) \in Nat /\ DOMAIN s = 1 .. Len(s)
  BY <1>1, <1>2
<1>4. QED
  BY <1>2, <1>3 DEF A

\* The page begins anew: one fresh request, behind those it leaves.
LEMMA AsksAnew ==
    ASSUME PageTypeOK, NEW a \in Asks, asks' = Append(Stale(asks), a)
    PROVE  /\ asks' \in Seq(Asks)
           /\ DOMAIN asks' = DOMAIN asks \cup {Len(asks) + 1}
           /\ Len(asks) \in Nat /\ DOMAIN asks = 1 .. Len(asks)
           /\ \A m \in DOMAIN asks :
                /\ asks'[m].kind = asks[m].kind /\ asks'[m].got = asks[m].got
                /\ asks'[m].held = asks[m].held /\ asks'[m].stale
           /\ asks'[Len(asks) + 1] = a
<1> DEFINE A == Asks
           t == Stale(asks)
<1>1. t = [k \in DOMAIN asks |-> t[k]]
      /\ \A k \in DOMAIN asks : t[k] = [asks[k] EXCEPT !.stale = TRUE]
  BY DEF Stale
<1>2. asks \in Seq(Asks)
  BY DEF PageTypeOK
<1>3. ASSUME NEW k \in DOMAIN asks
      PROVE  /\ t[k] \in Asks /\ t[k].kind = asks[k].kind /\ t[k].got = asks[k].got
             /\ t[k].held = asks[k].held /\ t[k].stale
  <2>1. asks[k] \in Asks /\ t[k] = [asks[k] EXCEPT !.stale = TRUE]
    BY <1>1, AskTyped
  <2> HIDE DEF t
  <2>2. QED
    BY <2>1, StaleAsk
<1>4. asks' = Append(t, a)
  OBVIOUS
<1> HIDE DEF t
<1>5. /\ t \in Seq(Asks) /\ DOMAIN t = DOMAIN asks
      /\ Len(t) = Len(asks) /\ Len(t) \in Nat /\ DOMAIN t = 1 .. Len(t)
  BY <1>1, <1>2, <1>3, AsksMapped
<1>6. t \in Seq(A) /\ a \in A
  BY <1>5
<1> HIDE DEF A
<1>7. /\ asks' \in Seq(A) /\ DOMAIN asks' = DOMAIN t \cup {Len(t) + 1}
      /\ \A m \in DOMAIN t : asks'[m] = t[m]
      /\ asks'[Len(t) + 1] = a
  BY <1>4, <1>6, Added
<1>8. QED
  BY <1>3, <1>5, <1>7 DEF A

\* Requests with the same answers.
LEMMA AskLike ==
    ASSUME NEW a, NEW b, NEW V, NEW T, NEW E, AskOK(a, V, T, E),
           b.kind = a.kind, b.after = a.after, b.got = a.got, b.held = a.held, b.st = a.st
    PROVE  AskOK(b, V, T, E)
BY DEF AskOK, Gapless, Partial, Covers

\* What a step of the page leaves as it is.
LEMMA StillThere ==
    ASSUME BoardTypeOK, messages' = messages, cur' = cur
    PROVE  /\ BoardTypeOK' /\ Here' = Here /\ Heard' = Heard
           /\ Heard \subseteq Here /\ Here \in SUBSET (1 .. Len(messages))
           /\ Len(messages) \in Nat /\ DOMAIN messages = 1 .. Len(messages)
           /\ \A j \in Here : j \in Nat
           /\ \A g : Told(g)' = Told(g)
<1>1. Here' = Here /\ Heard' = Heard /\ BoardTypeOK' /\ \A g : Told(g)' = Told(g)
  BY DEF Here, Heard, Told, Visible, BoardTypeOK
<1>2. Heard \subseteq Here /\ Here \in SUBSET (1 .. Len(messages))
      /\ Len(messages) \in Nat /\ DOMAIN messages = 1 .. Len(messages)
  BY IdsOf, Listed DEF Here, Heard
<1>3. \A j \in Here : j \in Nat
  BY <1>2
<1>4. QED
  BY <1>1, <1>2, <1>3

LEMMA StillIds ==
    ASSUME BoardTypeOK
    PROVE  /\ Len(messages) \in Nat /\ Here \in SUBSET (1 .. Len(messages)) /\ Heard \subseteq Here
           /\ \A j \in Here : j \in Nat
<1>1. Len(messages) \in Nat /\ Here \in SUBSET (1 .. Len(messages)) /\ Heard \subseteq Here
  BY IdsOf DEF Here, Heard
<1>2. QED
  BY <1>1

LEMMA AsksStand ==
    ASSUME BoardTypeOK, PageTypeOK, messages' = messages, cur' = cur,
           excused \subseteq excused', Asked, NEW k \in DOMAIN asks, ~asks[k].stale
    PROVE  /\ AskOK(asks[k], Here', Heard', excused')
           /\ asks[k].group = cur'
           /\ asks[k].kind = "post" =>
                asks[k].after \in DOMAIN messages' /\ messages'[asks[k].after].group = cur'
<1>1. /\ Here' = Here /\ Heard' = Heard /\ Heard \subseteq Here
      /\ AskOK(asks[k], Here, Heard, excused)
      /\ asks[k].group = cur
      /\ asks[k].kind = "post" =>
            asks[k].after \in DOMAIN messages /\ messages[asks[k].after].group = cur
  BY StillThere DEF Asked
<1>2. Grown(Here, Heard, excused, Here, Heard, excused')
  BY DEF Grown
<1>3. AskOK(asks[k], Here, Heard, excused')
  BY <1>1, <1>2, AskTyped, AskStays
<1>4. QED
  BY <1>1, <1>3

LEMMA LastIdIs ==
    ASSUME BoardTypeOK, PageTypeOK
    PROVE  LastId \in Nat /\ \A j \in shown : j <= LastId
<1>1. shown \in SUBSET (1 .. Len(messages)) /\ Len(messages) \in Nat
  BY Listed DEF PageTypeOK
<1>2. QED
  BY <1>1, LastIs DEF LastId

\* A thread that begins is empty, and all that was under way has become stale.
LEMMA BeginThreadOK ==
    ASSUME PageOK, reader' = reader, NEW g \in Projects, BeginThread(g)
    PROVE  PageOK'
<1> DEFINE r == Request("history", g, 0)
<1>1. /\ faults > 0 /\ faults' = faults - 1 /\ cur' = g /\ shown' = {} /\ excused' = {}
      /\ asks' = Append(Stale(asks), r) /\ stray' = 0 /\ ws' = [ws EXCEPT !.stale = TRUE]
      /\ UNCHANGED <<messages, timer, closing>>
  BY DEF BeginThread, Spend
<1>2. /\ r \in Asks /\ r.kind = "history" /\ r.group = g /\ r.after = 0
      /\ r.got = {} /\ r.held = <<>> /\ \A V, T, E : AskOK(r, V, T, E)
  BY RequestIs, RequestOK
<1> HIDE DEF r
<1>3. /\ ws' \in Sockets /\ ws'.group = ws.group /\ ws'.st = ws.st /\ ws'.inbox = ws.inbox
      /\ ws'.stale = TRUE
  BY <1>1 DEF PageOK, PageTypeOK, Sockets
<1>4. /\ asks' \in Seq(Asks) /\ DOMAIN asks' = DOMAIN asks \cup {Len(asks) + 1}
      /\ asks'[Len(asks) + 1] = r
      /\ \A m \in DOMAIN asks :
           /\ asks'[m].kind = asks[m].kind /\ asks'[m].got = asks[m].got
           /\ asks'[m].held = asks[m].held /\ asks'[m].stale = TRUE
  BY <1>1, <1>2, AsksAnew DEF PageOK
<1>5. BoardTypeOK' /\ PageTypeOK'
  <2>1. faults' \in 0 .. MaxFaults
    BY <1>1, PageAssumption DEF PageOK, PageTypeOK
  <2>2. QED
    BY <1>1, <1>3, <1>4, <2>1 DEF PageOK, PageTypeOK, BoardTypeOK
<1>6. SocketOK'
  <2>1. ws.group = None => ws' = NoSocket
    <3>1. ws.group = None => ws = NoSocket
      BY DEF PageOK, SocketOK
    <3>2. [NoSocket EXCEPT !.stale = TRUE] = NoSocket
      <4>1. NoSocket \in Sockets /\ NoSocket.stale = TRUE
        BY NoSocketIs
      <4>2. \A w \in Sockets : w.stale = TRUE => [w EXCEPT !.stale = TRUE] = w
        BY DEF Sockets
      <4>3. QED
        BY <4>1, <4>2
    <3>3. ws' = [ws EXCEPT !.stale = TRUE]
      BY <1>1
    <3>4. QED
      BY <3>1, <3>2, <3>3
  <2>2. PICK h : h = ws.group
    OBVIOUS
  <2>3. Told(ws.group)' = Told(h) /\ Told(ws.group) = Told(h)
    BY <1>1, <1>3, <2>2 DEF Told, Visible
  <2>4. QED
    BY <1>3, <2>1, <2>3 DEF PageOK, SocketOK
<1>7. Known'
  <2>1. r.got = {} /\ DOMAIN r.held = {}
    BY <1>2
  <2>2. QED
    BY <1>1, <1>4, <2>1 DEF PageOK, Known
<1>8. Asked'
  BY <1>1, <1>2, <1>4 DEF Asked
<1>9. Thread' /\ Cursors'
  <2>1. LastOf(shown') = 0 /\ LastId' = 0
    BY <1>1 DEF LastId, LastOf
  <2>2. \A j \in Here' : j \in Nat
    <3>1. Here' = Visible(g)
      BY <1>1 DEF Here, Visible
    <3>2. QED
      BY <3>1, IdsOf DEF PageOK
  <2>3. QED
    BY <1>1, <1>2, <1>4, <2>1, <2>2 DEF Thread, Cursors, Whole, Sound
<1>10. Queue' /\ ClassicOK' /\ HomeOK'
  <2>1. \A m \in DOMAIN asks' : asks'[m].kind = "backfill" => asks'[m].stale = TRUE
    BY <1>2, <1>4
  <2>2. QED
    BY <1>3, <2>1 DEF Queue, ClassicOK, HomeOK, Backfilling
<1>11. QED
  BY <1>5, <1>6, <1>7, <1>8, <1>9, <1>10 DEF PageOK, Following

\* What an answer adds to a thread without holes leaves it without holes.
LEMMA AnswerShown ==
    ASSUME BoardTypeOK, PageTypeOK, Thread, NEW a \in Asks,
           AskOK(a, Here, Heard, excused), a.kind # "post", a.after <= LastId
    PROVE  /\ Sound(Rendered(shown, a.got), Here, Lost)
           /\ Whole(Rendered(shown, a.got), Here, Heard, Lost)
<1>1. /\ Len(messages) \in Nat /\ Here \in SUBSET (1 .. Len(messages))
      /\ a.got \in SUBSET Here /\ shown \in SUBSET (1 .. Len(messages))
      /\ \A j \in Here : j \in Nat
      /\ a.after \in Nat
  BY Listed, StillIds DEF AskOK, Asks, PageTypeOK
<1>2. LastId \in Nat /\ LastId = LastOf(shown)
  BY LastIdIs DEF LastId
<1>3. \A i \in a.got, j \in Here :
          LastOf(shown) < j /\ j < i => j \in a.got \/ Excusable(j, Heard, Lost)
  <2>1. ASSUME NEW i \in a.got, NEW j \in Here, LastOf(shown) < j, j < i
        PROVE  j \in a.got \/ j \in excused
    <3>1. a.after < j
      BY <1>1, <1>2, <2>1
    <3>2. QED
      BY <2>1, <3>1 DEF AskOK, Gapless
  <2>2. QED
    BY <2>1 DEF Excusable, Lost
<1>4. QED
  BY <1>1, <1>3, WholeRendered DEF Thread

\* A thread that has grown at its end.
Longer ==
    /\ shown \subseteq shown' /\ shown' \subseteq DOMAIN messages
    /\ \A i \in shown' \ shown : i > LastId

LEMMA Grows ==
    ASSUME BoardTypeOK, PageTypeOK, Longer, NEW b \in BOOLEAN, Misled(b)
    PROVE  /\ LastId \in Nat /\ LastId' \in Nat /\ LastId <= LastId'
           /\ stray \in Nat /\ stray' \in Nat
           /\ ~b \/ LastId' = LastId => stray' = stray
           /\ b /\ LastId' # LastId => stray' = LastId'
           /\ LastId' = LastId => shown' = shown
           /\ LastId' = 0 \/ LastId' \in shown'
<1>1. /\ Len(messages) \in Nat /\ DOMAIN messages = 1 .. Len(messages)
      /\ shown \in SUBSET (1 .. Len(messages)) /\ shown' \in SUBSET (1 .. Len(messages))
  BY Listed DEF PageTypeOK, Longer
<1>2. /\ LastId \in Nat /\ LastId \in shown \cup {0} /\ \A j \in shown : j <= LastId
      /\ LastOf(shown') \in Nat /\ LastOf(shown') \in shown' \cup {0}
      /\ \A j \in shown' : j <= LastOf(shown')
  BY <1>1, LastIs DEF LastId
<1>3. LastId' = LastOf(shown')
  BY DEF LastId
<1>4. LastId <= LastId'
  BY <1>2, <1>3 DEF Longer
<1>5. ASSUME LastId' = LastId PROVE shown' = shown
  <2>1. \A j \in shown' : j \in Nat
    BY <1>1
  <2>2. \A j \in shown' : j <= LastId
    BY <1>2, <1>3, <1>5
  <2>3. ASSUME NEW j \in shown', j \notin shown PROVE FALSE
    <3>1. j > LastId /\ j <= LastId /\ j \in Nat /\ LastId \in Nat
      BY <1>2, <2>1, <2>2, <2>3 DEF Longer
    <3>2. QED
      BY <3>1
  <2>4. QED
    BY <2>3 DEF Longer
<1>6. /\ ~b \/ LastId' = LastId => stray' = stray
      /\ b /\ LastId' # LastId => stray' = LastId'
  BY <1>2, <1>3, <1>4 DEF Misled
<1>7. QED
  BY <1>2, <1>3, <1>4, <1>5, <1>6 DEF PageTypeOK

LEMMA MisledByNothing ==
    ASSUME BoardTypeOK, PageTypeOK, shown' = shown, NEW b \in BOOLEAN, Misled(b)
    PROVE  stray' = stray
<1>1. LastOf(shown') = LastId /\ LastId \in Nat
  BY LastIdIs DEF LastId
<1>2. QED
  BY <1>1 DEF Misled

\* What is rendered makes the thread longer.
LEMMA RenderedLonger ==
    ASSUME BoardTypeOK, PageTypeOK, NEW P \in SUBSET (DOMAIN messages), shown' = Rendered(shown, P)
    PROVE  /\ Longer /\ shown' \subseteq shown \cup P
           /\ \A i \in P : i > LastId => i \in shown'
<1>1. /\ \A i \in shown' : i \in shown \/ (i \in P /\ i > LastId)
      /\ \A i \in P : i > LastId => i \in shown'
      /\ \A i \in shown : i \in shown'
  BY DEF Rendered, LastId
<1>2. shown \subseteq DOMAIN messages
  BY DEF PageTypeOK
<1>3. shown' \subseteq shown \cup P
  BY <1>1
<1>4. QED
  BY <1>1, <1>2, <1>3 DEF Longer

\* What is stale leaves the thread as whole as it was, or all of it lost.
LEMMA ThreadGrows ==
    ASSUME BoardTypeOK, PageTypeOK, messages' = messages, cur' = cur, excused \subseteq excused',
           Longer, NEW b \in BOOLEAN, Misled(b), Thread,
           ~b => Sound(shown', Here, Lost') /\ Whole(shown', Here, Heard, Lost')
    PROVE  Thread' /\ Lost \subseteq Lost'
<1>1. /\ LastId \in Nat /\ LastId' \in Nat /\ LastId <= LastId'
      /\ stray \in Nat /\ stray' \in Nat
      /\ ~b \/ LastId' = LastId => stray' = stray
      /\ b /\ LastId' # LastId => stray' = LastId'
      /\ LastId' = LastId => shown' = shown
      /\ LastId' = 0 \/ LastId' \in shown'
  BY Grows
<1>2. stray \in shown \cup {0} /\ stray <= LastId
  BY <1>1, LastIdIs DEF Thread
<1>3. stray <= stray' /\ stray' \in shown' \cup {0}
  BY <1>1, <1>2 DEF Longer
<1>4. Lost \subseteq Lost'
  <2>1. 1 .. stray \subseteq 1 .. stray'
    BY <1>1, <1>3
  <2>2. QED
    BY <2>1 DEF Lost
<1>5. /\ Len(messages) \in Nat /\ Here \in SUBSET (1 .. Len(messages))
      /\ Here' = Here /\ Heard' = Heard
      /\ shown \in SUBSET (1 .. Len(messages)) /\ shown' \in SUBSET (1 .. Len(messages))
  BY StillThere DEF Longer, PageTypeOK
<1>6. Sound(shown', Here, Lost') /\ Whole(shown', Here, Heard, Lost')
  <2>1. CASE ~b
    BY <2>1
  <2>2. CASE b /\ LastId' # LastId
    <3>1. 1 .. LastOf(shown') \subseteq Lost'
      BY <1>1, <2>2 DEF Lost, LastId
    <3>2. QED
      BY <1>5, <3>1, WholeIfLost
  <2>3. CASE LastId' = LastId
    <3>1. shown' = shown /\ Sound(shown, Here, Lost) /\ Whole(shown, Here, Heard, Lost)
      BY <1>1, <2>3 DEF Thread
    <3>2. Grown(Here, Heard, Lost, Here, Heard, Lost')
      BY <1>4 DEF Grown
    <3>3. QED
      BY <1>5, <3>1, <3>2, WholeStays
  <2>4. QED
    BY <2>1, <2>2, <2>3
<1>7. QED
  BY <1>3, <1>4, <1>5, <1>6 DEF Thread

\* Requests that go on as they are; their socket may not be in use any more,
\* and they may have become stale.
Alike(b, a) ==
    /\ b.kind = a.kind /\ b.group = a.group /\ b.after = a.after
    /\ b.got = a.got /\ b.held = a.held /\ b.st = a.st
    /\ a.stale => b.stale

LEMMA AsksGoOn ==
    ASSUME BoardTypeOK, PageTypeOK, messages' = messages, cur' = cur,
           excused \subseteq excused',
           \A m \in DOMAIN asks' : \E p \in DOMAIN asks : Alike(asks'[m], asks[p])
    PROVE  /\ Known => Known'
           /\ Asked => Asked'
<1>1. ASSUME Known, NEW m \in DOMAIN asks'
      PROVE  /\ asks'[m].got \subseteq DOMAIN messages'
             /\ \A n \in DOMAIN asks'[m].held : asks'[m].held[n] \in DOMAIN messages'
  BY <1>1 DEF Known, Alike
<1>2. ASSUME Asked, NEW m \in DOMAIN asks', ~asks'[m].stale
      PROVE  /\ asks'[m].group = cur'
             /\ AskOK(asks'[m], Here', Heard', excused')
             /\ asks'[m].kind = "post" =>
                  asks'[m].after \in DOMAIN messages' /\ messages'[asks'[m].after].group = cur'
  <2>1. PICK p \in DOMAIN asks : Alike(asks'[m], asks[p]) /\ ~asks[p].stale
    BY <1>2 DEF Alike
  <2>2. /\ AskOK(asks[p], Here', Heard', excused') /\ asks[p].group = cur'
        /\ asks[p].kind = "post" =>
             asks[p].after \in DOMAIN messages' /\ messages'[asks[p].after].group = cur'
    BY <1>2, <2>1, AsksStand
  <2>3. AskOK(asks'[m], Here', Heard', excused')
    BY <2>1, <2>2, AskLike DEF Alike
  <2>4. QED
    BY <2>1, <2>2, <2>3 DEF Alike
<1>3. QED
  BY <1>1, <1>2 DEF Known, Asked

LEMMA CursorsStay ==
    ASSUME BoardTypeOK, PageTypeOK, LastId <= LastId', LastId' \in Nat, Cursors,
           \A m \in DOMAIN asks' : \E p \in DOMAIN asks : Alike(asks'[m], asks[p])
    PROVE  Cursors'
<1>1. SUFFICES ASSUME NEW m \in DOMAIN asks', ~asks'[m].stale, asks'[m].kind # "post"
               PROVE  asks'[m].after <= LastId'
  BY DEF Cursors
<1>2. PICK p \in DOMAIN asks : Alike(asks'[m], asks[p])
  BY <1>1
<1>3. asks[p].after <= LastId /\ asks[p].after \in Nat /\ LastId \in Nat
  BY <1>1, <1>2, AskTyped, LastIdIs DEF Cursors, Alike
<1>4. asks'[m].after = asks[p].after
  BY <1>2 DEF Alike
<1>5. QED
  BY <1>3, <1>4

LEMMA SocketStays ==
    ASSUME SocketOK, messages' = messages, ws' = ws
    PROVE  SocketOK'
BY DEF SocketOK, Told, Visible

-----------------------------------------------------------------------------
(* public/app.js.                                                            *)

LEMMA SelectGroupOK ==
    ASSUME PageOK, reader' = reader, NEW g \in Projects, SelectGroup(g)
    PROVE  PageOK'
BY BeginThreadOK DEF SelectGroup

LEMMA HistoryArrivesOK ==
    ASSUME PageOK, reader = "classic", reader' = reader, NEW k \in DOMAIN asks, HistoryArrives(k)
    PROVE  PageOK'
<1> DEFINE a == asks[k]
           rest == RemoveAt(asks, k)
<1>1. /\ a.kind = "history" /\ a.st # "asked"
      /\ IF a.st = "failed" \/ cur # a.group
         THEN Answered(k) /\ UNCHANGED <<shown, ws, timer, stray>>
         ELSE /\ shown' = Rendered(shown, a.got) /\ Misled(a.stale)
              /\ ConnectSocket(a.group, rest)
      /\ UNCHANGED <<messages, cur, closing, faults, excused>>
  BY DEF HistoryArrives
<1>2. /\ BoardTypeOK /\ PageTypeOK /\ SocketOK /\ Known
      /\ a \in Asks /\ a.group \in Projects /\ a.stale \in BOOLEAN
      /\ Here' = Here /\ Heard' = Heard /\ BoardTypeOK'
      /\ a.got \in SUBSET (DOMAIN messages)
  BY <1>1, StillThere, AskTyped DEF PageOK, Known
<1>3. /\ rest \in Seq(Asks)
      /\ \A m \in DOMAIN rest : \E p \in DOMAIN asks : p # k /\ rest[m] = asks[p]
      /\ \A p \in DOMAIN asks : p # k => \E m \in DOMAIN rest : rest[m] = asks[p]
  BY <1>2, AsksRemoved
<1>4. \A m \in DOMAIN rest : \E p \in DOMAIN asks : rest[m] = asks[p]
  BY <1>3
<1>5. ASSUME cur # None
      PROVE  /\ Asked /\ Cursors /\ Queue /\ Thread /\ ClassicOK
             /\ ~a.stale => AskOK(a, Here, Heard, excused) /\ a.after = 0
  BY <1>1, <1>5 DEF PageOK, Following, Asked, AskOK
<1> HIDE DEF rest, a
<1>6. CASE a.st = "failed" \/ cur # a.group
  <2>1. asks' = rest /\ UNCHANGED <<messages, cur, closing, faults, excused, stray, shown, ws, timer>>
    BY <1>1, <1>6 DEF Answered, rest
  <2>2. \A m \in DOMAIN asks' : \E p \in DOMAIN asks : Alike(asks'[m], asks[p])
    BY <1>4, <2>1 DEF Alike
  <2>3. PageTypeOK'
    BY <1>2, <1>3, <2>1 DEF PageTypeOK
  <2>4. SocketOK' /\ Known' /\ (Asked => Asked')
    BY <1>2, <2>1, <2>2, SocketStays, AsksGoOn
  <2>5. ASSUME cur # None PROVE Following'
    <3>1. Asked /\ Cursors /\ Queue /\ Thread /\ ClassicOK
      BY <1>5, <2>5
    <3>2. Cursors'
      BY <1>2, <2>1, <2>2, <3>1, LastIdIs, CursorsStay DEF LastId
    <3>3. Queue' /\ Thread'
      BY <1>2, <1>4, <2>1, <3>1 DEF Queue, Thread, Lost
    <3>4. Backfilled' <=> Backfilled
      <4>1. ~ Backfilling(k)
        BY <1>1 DEF Backfilling, a
      <4>2. \A p \in DOMAIN asks : Backfilling(p) =>
                \E m \in DOMAIN rest : rest[m].kind = "backfill" /\ rest[m].ours
        BY <1>3, <4>1 DEF Backfilling
      <4>3. QED
        BY <1>4, <2>1, <4>2 DEF Backfilled, Backfilling
    <3>5. ClassicOK'
      <4>1. \A m \in DOMAIN rest :
              /\ rest[m].kind = "backfill" /\ rest[m].ours => rest[m].stale = ws.stale
              /\ rest[m].kind = "backfill" /\ ws.stale => rest[m].stale
        BY <1>4, <3>1 DEF ClassicOK, Backfilling
      <4>2. \A j : Accounted(j)' <=> Accounted(j)
        BY <2>1 DEF Accounted, Lost
      <4>3. ASSUME ~ws.stale, ws.st = "open", NEW m \in DOMAIN rest, rest[m].kind = "backfill",
                   rest[m].ours, Partial(rest[m]), NEW j \in Heard
            PROVE  Covers(rest[m], j, excused) \/ Among(j, ws.inbox)
        <5>1. PICK p \in DOMAIN asks : rest[m] = asks[p]
          BY <1>4
        <5>2. QED
          BY <3>1, <4>3, <5>1 DEF ClassicOK, Backfilling
      <4>4. QED
        BY <1>2, <2>1, <3>1, <3>4, <4>1, <4>2, <4>3 DEF ClassicOK, Backfilling
    <3>6. QED
      BY <2>4, <3>1, <3>2, <3>3, <3>5 DEF Following
  <2>6. QED
    BY <1>2, <2>1, <2>3, <2>4, <2>5 DEF PageOK
<1>7. CASE ~ (a.st = "failed" \/ cur # a.group)
  <2>1. /\ cur = a.group /\ a.st # "failed" /\ shown' = Rendered(shown, a.got)
        /\ Misled(a.stale)
        /\ ws' = Dialing(a.group) /\ timer' = FALSE /\ asks' = Disowned(rest)
        /\ UNCHANGED <<messages, cur, closing, faults, excused>>
    BY <1>1, <1>7 DEF ConnectSocket
  <2>2. /\ ws' \in Sockets /\ ws'.group = cur /\ ws'.st = "dialing" /\ ws'.inbox = <<>>
        /\ ~ws'.stale /\ cur # None
    BY <1>2, <2>1, DialingIs
  <2>3. /\ asks' \in Seq(Asks) /\ DOMAIN asks' = DOMAIN rest
        /\ \A m \in DOMAIN rest : Alike(asks'[m], rest[m]) /\ ~ asks'[m].ours
    BY <1>3, <2>1, AsksDisowned DEF Alike
  <2>4. \A m \in DOMAIN asks' : \E p \in DOMAIN asks : Alike(asks'[m], asks[p])
    BY <1>4, <2>3
  <2>5. /\ Longer /\ LastId \in Nat /\ LastId' \in Nat /\ LastId <= LastId'
        /\ stray' \in Nat /\ (~a.stale => stray' = stray)
    BY <1>2, <2>1, RenderedLonger, Grows
  <2>6. PageTypeOK'
    BY <1>2, <2>1, <2>2, <2>3, <2>5 DEF PageTypeOK, Longer
  <2>7. SocketOK'
    BY <2>2 DEF SocketOK
  <2>8. Asked /\ Cursors /\ Queue /\ Thread /\ ClassicOK
    BY <1>5, <2>2
  <2>9. Known' /\ Asked'
    BY <1>2, <2>1, <2>4, <2>8, AsksGoOn
  <2>10. Cursors'
    BY <1>2, <2>4, <2>5, <2>8, CursorsStay
  <2>11. Queue'
    BY <2>1, <2>2 DEF Queue, InTurn, Precedes
  <2>12. Thread'
    <3>1. ASSUME ~a.stale
          PROVE  Sound(shown', Here, Lost') /\ Whole(shown', Here, Heard, Lost')
      <4>1. AskOK(a, Here, Heard, excused) /\ a.kind # "post" /\ a.after <= LastId
        BY <1>1, <1>5, <2>2, <2>5, <3>1
      <4>2. Lost' = Lost
        BY <2>1, <2>5, <3>1 DEF Lost
      <4>3. QED
        BY <1>2, <2>1, <2>8, <4>1, <4>2, AnswerShown
    <3>2. QED
      BY <1>2, <2>1, <2>5, <2>8, <3>1, ThreadGrows
  <2>13. ClassicOK'
    <3>1. \A m \in DOMAIN asks' : ~ Backfilling(m)'
      BY <2>3 DEF Backfilling
    <3>2. QED
      BY <2>2, <3>1 DEF ClassicOK, Backfilled
  <2>14. QED
    BY <1>2, <2>6, <2>7, <2>9, <2>10, <2>11, <2>12, <2>13 DEF PageOK, Following
<1>8. QED
  BY <1>6, <1>7

LEMMA JoinOK ==
    ASSUME PageOK, reader = "classic", reader' = reader, Join({})
    PROVE  PageOK'
<1>1. /\ ws.st = "dialing" /\ ws' = [ws EXCEPT !.st = "joined"] /\ excused' = excused
      /\ UNCHANGED <<messages, cur, shown, asks, timer, closing, faults, stray>>
  BY DEF Join, Excuse
<1>2. /\ BoardTypeOK /\ PageTypeOK /\ SocketOK /\ Known /\ BoardTypeOK'
      /\ Here' = Here /\ Heard' = Heard /\ Known'
  BY <1>1, StillThere DEF PageOK, Known
<1>3. /\ ws' \in Sockets /\ ws'.group = ws.group /\ ws'.st = "joined" /\ ws'.inbox = ws.inbox
      /\ ws # NoSocket /\ ws'.stale = ws.stale
  BY <1>1, <1>2 DEF PageTypeOK, Sockets, NoSocket
<1>4. PageTypeOK'
  BY <1>1, <1>2, <1>3 DEF PageTypeOK
<1>5. SocketOK'
  BY <1>1, <1>2, <1>3 DEF SocketOK, Told, Visible
<1>6. ASSUME cur # None PROVE Following'
  <2>1. Asked /\ Cursors /\ Queue /\ Thread /\ ClassicOK
    BY <1>6 DEF PageOK, Following
  <2>2. Asked' /\ Cursors' /\ Queue' /\ Thread'
    BY <1>1, <1>2, <1>3, <2>1 DEF Asked, Cursors, Queue, Thread, Lost, LastId
  <2>3. Backfilled' <=> Backfilled
    BY <1>1 DEF Backfilled, Backfilling
  <2>4. ClassicOK'
    BY <1>1, <1>3, <2>1, <2>3 DEF ClassicOK, Backfilling
  <2>5. QED
    BY <2>2, <2>4 DEF Following
<1>7. QED
  BY <1>1, <1>2, <1>4, <1>5, <1>6 DEF PageOK

LEMMA SocketOpensOK ==
    ASSUME PageOK, reader = "classic", reader' = reader, SocketOpens
    PROVE  PageOK'
<1> DEFINE r == [Request("backfill", cur, LastId) EXCEPT !.stale = ws.stale]
<1>1. /\ ws.st = "joined" /\ ws' = [ws EXCEPT !.st = "open"]
      /\ IF ThisGroup THEN Ask(r) ELSE UNCHANGED asks
      /\ UNCHANGED <<messages, cur, shown, timer, closing, faults, excused, stray>>
  BY DEF SocketOpens
<1>2. /\ BoardTypeOK /\ PageTypeOK /\ SocketOK /\ Known /\ BoardTypeOK'
      /\ Here' = Here /\ Heard' = Heard /\ LastId' = LastId /\ LastId \in Nat
  BY <1>1, StillThere, LastIdIs DEF PageOK, LastId
<1>3. /\ ws' \in Sockets /\ ws'.group = ws.group /\ ws'.st = "open" /\ ws'.inbox = ws.inbox
      /\ ws'.stale = ws.stale
  BY <1>1, <1>2 DEF PageTypeOK, Sockets
<1>4. SocketOK'
  BY <1>1, <1>2, <1>3 DEF SocketOK, Told, Visible, NoSocket
<1>5. CASE ~ThisGroup
  <2>1. asks' = asks
    BY <1>1, <1>5
  <2>2. PageTypeOK' /\ Known'
    BY <1>1, <1>2, <1>3, <2>1 DEF PageTypeOK, Known
  <2>3. ASSUME cur # None PROVE Following'
    <3>1. Asked /\ Cursors /\ Queue /\ Thread /\ ClassicOK /\ ws.stale
      BY <1>5, <2>3 DEF PageOK, Following, Queue, ThisGroup, PageTypeOK, Sockets
    <3>2. Asked' /\ Cursors' /\ Queue' /\ Thread'
      BY <1>1, <1>2, <1>3, <2>1, <3>1 DEF Asked, Cursors, Queue, Thread, Lost
    <3>3. ClassicOK'
      BY <1>1, <1>3, <2>1, <3>1 DEF ClassicOK, Backfilling
    <3>4. QED
      BY <3>2, <3>3 DEF Following
  <2>4. QED
    BY <1>1, <1>2, <1>4, <2>2, <2>3 DEF PageOK
<1>6. CASE ThisGroup
  <2>1. cur \in Projects /\ ws.group = cur /\ Ask(r)
    BY <1>1, <1>2, <1>6 DEF ThisGroup, PageTypeOK
  <2>2. /\ r \in Asks /\ r.kind = "backfill" /\ r.group = cur /\ r.after = LastId /\ r.ours
        /\ r.got = {} /\ r.held = <<>> /\ r.st = "asked" /\ r.stale = ws.stale
        /\ \A V, T, E : AskOK(r, V, T, E)
    <3>1. LET c == Request("backfill", cur, LastId) IN
          /\ c \in Asks /\ c.kind = "backfill" /\ c.group = cur /\ c.after = LastId /\ c.ours
          /\ c.got = {} /\ c.held = <<>> /\ c.st = "asked"
      BY <1>2, <2>1, RequestIs
    <3>2. /\ r \in Asks /\ r.kind = "backfill" /\ r.group = cur /\ r.after = LastId /\ r.ours
          /\ r.got = {} /\ r.held = <<>> /\ r.st = "asked" /\ r.stale = ws.stale
      BY <1>2, <3>1, SocketTyped DEF Asks
    <3> HIDE DEF r
    <3>3. QED
      BY <3>2 DEF AskOK, Gapless, InTurn, Partial
  <2> HIDE DEF r
  <2>3. /\ asks' \in Seq(Asks) /\ DOMAIN asks' = DOMAIN asks \cup {Len(asks) + 1}
        /\ \A m \in DOMAIN asks : asks'[m] = asks[m]
        /\ asks'[Len(asks) + 1] = r
    BY <1>2, <2>1, <2>2, AsksAdded
  <2>4. PageTypeOK'
    BY <1>1, <1>2, <1>3, <2>3 DEF PageTypeOK
  <2>5. Known'
    <3>1. DOMAIN r.held = {}
      BY <2>2
    <3>2. QED
      BY <1>1, <1>2, <2>2, <2>3, <3>1 DEF Known
  <2>6. ASSUME cur # None PROVE Following'
    <3>1. /\ Asked /\ Cursors /\ Queue /\ Thread /\ ClassicOK
          /\ ~ws.stale => Backfilled
      BY <1>1, <2>6 DEF PageOK, Following, ClassicOK
    <3>2. Asked'
      <4>1. \A m \in DOMAIN asks : ~asks[m].stale =>
                                   /\ asks[m].group = cur' /\ AskOK(asks[m], Here', Heard', excused')
                                   /\ asks[m].kind = "post" => asks[m].after \in DOMAIN messages'
                                                  /\ messages'[asks[m].after].group = cur'
        BY <1>1, <1>2, <3>1, AsksStand
      <4>2. QED
        BY <1>1, <2>2, <2>3, <4>1 DEF Asked
    <3>3. Cursors'
      BY <1>2, <2>2, <2>3, <3>1 DEF Cursors
    <3>4. Queue'
      <4>1. DOMAIN r.held = {}
        BY <2>2
      <4>2. QED
        BY <1>1, <1>3, <2>3, <3>1, <4>1 DEF Queue, Precedes
    <3>5. Thread'
      BY <1>1, <1>2, <3>1 DEF Thread, Lost
    <3>6. ClassicOK'
      <4>1. \A m \in DOMAIN asks' :
              /\ Backfilling(m)' => asks'[m].stale = ws'.stale
              /\ asks'[m].kind = "backfill" /\ ws'.stale => asks'[m].stale
        BY <1>3, <2>2, <2>3, <3>1 DEF ClassicOK, Backfilling
      <4>2. ASSUME ~ws'.stale
            PROVE  /\ ~ Backfilled'
                   /\ \A m \in DOMAIN asks' : Backfilling(m)' => ~ Partial(asks'[m])
        <5>1. \A m \in DOMAIN asks' : Backfilling(m)' => m = Len(asks) + 1
          BY <1>3, <2>3, <3>1, <4>2 DEF Backfilled, Backfilling
        <5>2. Len(asks) + 1 \in DOMAIN asks' /\ asks'[Len(asks) + 1].kind = "backfill"
              /\ asks'[Len(asks) + 1].ours
          BY <2>2, <2>3
        <5>3. ~ Backfilled'
          BY <5>2 DEF Backfilled, Backfilling
        <5>4. \A m \in DOMAIN asks' : Backfilling(m)' => ~ Partial(asks'[m])
          BY <2>2, <2>3, <5>1 DEF Partial
        <5>5. QED
          BY <5>3, <5>4
      <4>3. QED
        BY <1>3, <4>1, <4>2 DEF ClassicOK
    <3>7. QED
      BY <3>2, <3>3, <3>4, <3>5, <3>6 DEF Following
  <2>7. QED
    BY <1>1, <1>2, <1>4, <2>4, <2>5, <2>6 DEF PageOK
<1>7. QED
  BY <1>5, <1>6

\* A live message is shown below nothing that is neither shown nor excused.
LEMMA LiveShown ==
    ASSUME BoardTypeOK, PageTypeOK, SocketOK, ws.group = cur, ws.inbox # <<>>,
           InTurn(ws.inbox, excused), Thread,
           \A j \in Heard : Accounted(j)
    PROVE  LET S == Rendered(shown, {Head(ws.inbox)}) IN
           /\ Sound(S, Here, Lost) /\ Whole(S, Here, Heard, Lost)
           /\ \A j \in Heard : j \in S \/ j \in Lost \/ Among(j, Tail(ws.inbox))
<1> DEFINE i == Head(ws.inbox)
           S == Rendered(shown, {i})
<1>1. /\ Len(messages) \in Nat /\ Here \in SUBSET (1 .. Len(messages)) /\ Heard \subseteq Here
      /\ \A j \in Here : j \in Nat
  BY StillIds
<1>2. /\ ws.inbox \in Seq(Nat) /\ i = ws.inbox[1] /\ 1 \in DOMAIN ws.inbox
  BY SocketTyped, Dequeued
<1>3. /\ i \in Heard
      /\ \A j : Among(j, ws.inbox) => j = i \/ Among(j, Tail(ws.inbox))
      /\ \A j : Among(j, ws.inbox) /\ j < i => j \in excused
  BY <1>2, DequeuedInTurn DEF SocketOK, Heard
<1>4. /\ {i} \in SUBSET Here /\ excused \subseteq Lost
      /\ shown \in SUBSET (1 .. Len(messages)) /\ {i} \in SUBSET (1 .. Len(messages))
  BY <1>1, <1>3, Listed DEF PageTypeOK, Lost
<1>5. ASSUME NEW j \in Here, LastOf(shown) < j, j < i PROVE Excusable(j, Heard, Lost)
  <2>1. CASE j \in Heard
    <3>1. j \notin shown
      <4>1. LastOf(shown) \in Nat /\ \A m \in shown : m <= LastOf(shown)
        BY <1>1, <1>4, LastIs
      <4>2. j \in Nat
        BY <1>1
      <4>3. QED
        BY <1>5, <4>1, <4>2
    <3>2. j \in Lost
      BY <1>3, <1>4, <1>5, <2>1, <3>1 DEF Accounted
    <3>3. QED
      BY <3>2 DEF Excusable
  <2>2. CASE j \notin Heard
    BY <1>3, <1>5, <2>2 DEF Excusable, Overtaken
  <2>3. QED
    BY <2>1, <2>2
<1> HIDE DEF i
<1>6. Sound(S, Here, Lost) /\ Whole(S, Here, Heard, Lost)
  <2>1. \A p \in {i}, j \in Here :
            LastOf(shown) < j /\ j < p => j \in {i} \/ Excusable(j, Heard, Lost)
    BY <1>5
  <2>2. QED
    BY <1>1, <1>4, <2>1, WholeRendered DEF Thread
<1>7. shown \subseteq S /\ (i > LastOf(shown) => i \in S)
  BY <1>1, <1>4, RenderedSet
<1>8. i \in S \/ i \in Lost
  <2>1. CASE i > LastOf(shown)
    BY <1>7, <2>1
  <2>2. CASE ~ (i > LastOf(shown))
    <3>1. i \in Nat /\ i # 0 /\ LastOf(shown) \in Nat /\ LastOf(shown) \in shown \cup {0}
      <4>1. LastOf(shown) \in Nat /\ LastOf(shown) \in shown \cup {0}
        BY <1>1, <1>4, LastIs
      <4>2. i \in 1 .. Len(messages)
        BY <1>1, <1>3
      <4>3. QED
        BY <1>1, <4>1, <4>2
    <3>2. CASE i = LastOf(shown)
      BY <1>7, <3>1, <3>2
    <3>3. CASE i < LastOf(shown)
      BY <1>1, <1>3, <1>7, <3>3 DEF Thread, Whole, Excusable
    <3>4. QED
      BY <2>2, <3>1, <3>2, <3>3
  <2>3. QED
    BY <2>1, <2>2
<1>9. \A j \in Heard : j \in S \/ j \in Lost \/ Among(j, Tail(ws.inbox))
  BY <1>3, <1>7, <1>8 DEF Accounted
<1>10. QED
  BY <1>6, <1>9 DEF i

LEMMA LiveMessageOK ==
    ASSUME PageOK, reader = "classic", reader' = reader, LiveMessage
    PROVE  PageOK'
<1> DEFINE i == Head(ws.inbox)
<1>1. /\ ws.st = "open" /\ ws.inbox # <<>>
      /\ ws' = [ws EXCEPT !.inbox = Tail(@)]
      /\ IF ThisGroup THEN Frame(i) ELSE UNCHANGED <<shown, asks>>
      /\ Misled(ws.stale)
      /\ UNCHANGED <<messages, cur, timer, closing, faults, excused>>
  BY DEF LiveMessage
<1>2. /\ BoardTypeOK /\ PageTypeOK /\ SocketOK /\ Known /\ BoardTypeOK'
      /\ Here' = Here /\ Heard' = Heard /\ Heard \subseteq Here
      /\ \A j \in Here : j \in Nat
      /\ LastId \in Nat /\ ws.stale \in BOOLEAN
  BY <1>1, StillThere, LastIdIs, SocketTyped DEF PageOK
<1>3. /\ ws.inbox \in Seq(Nat) /\ i \in Nat /\ Tail(ws.inbox) \in Seq(Nat)
      /\ 1 \in DOMAIN ws.inbox /\ i = ws.inbox[1]
      /\ \A m \in DOMAIN Tail(ws.inbox) :
            m \in Nat /\ m + 1 \in DOMAIN ws.inbox /\ Tail(ws.inbox)[m] = ws.inbox[m + 1]
  BY <1>1, <1>2, SocketTyped, Dequeued
<1>4. /\ ws' \in Sockets /\ ws'.group = ws.group /\ ws'.st = "open"
      /\ ws'.inbox = Tail(ws.inbox) /\ ws' # NoSocket /\ ws'.stale = ws.stale
  BY <1>1, <1>2, <1>3 DEF PageTypeOK, Sockets, NoSocket
<1>5. SocketOK'
  <2>1. \A m \in DOMAIN ws'.inbox : ws'.inbox[m] \in Told(ws.group)
    BY <1>2, <1>3, <1>4 DEF SocketOK
  <2>2. Told(ws.group)' = Told(ws.group)
    BY <1>1, <1>4 DEF Told, Visible
  <2>3. QED
    BY <1>1, <1>2, <1>4, <2>1, <2>2 DEF SocketOK, NoSocket
<1>6. i \in DOMAIN messages
  BY <1>2, <1>3 DEF SocketOK, Told, Visible
<1> HIDE DEF i
<1>7. ASSUME cur # None
      PROVE  /\ Asked /\ Cursors /\ Queue /\ Thread /\ ClassicOK
             /\ ~ws.stale =>
                  /\ ws.group = cur
                  /\ InTurn(ws.inbox, excused) /\ InTurn(Tail(ws.inbox), excused)
                  /\ \A j : Among(j, ws.inbox) => j = i \/ Among(j, Tail(ws.inbox))
                  /\ \A j : Among(j, ws.inbox) /\ j < i => j \in excused
                  /\ \A k \in DOMAIN asks : ~asks[k].stale =>
                        /\ Precedes(asks[k].held, ws.inbox, excused)
                        /\ Precedes(asks[k].held, Tail(ws.inbox), excused)
                  /\ i \in Heard
  <2>1. Asked /\ Cursors /\ Queue /\ Thread /\ ClassicOK
    BY <1>7 DEF PageOK, Following
  <2>2. ASSUME ~ws.stale
        PROVE  /\ InTurn(ws.inbox, excused) /\ InTurn(Tail(ws.inbox), excused)
               /\ \A j : Among(j, ws.inbox) => j = i \/ Among(j, Tail(ws.inbox))
               /\ \A j : Among(j, ws.inbox) /\ j < i => j \in excused
    <3>1. InTurn(ws.inbox, excused)
      BY <2>1, <2>2 DEF Queue
    <3>2. QED
      BY <1>1, <1>3, <3>1, DequeuedInTurn DEF i
  <2>3. ASSUME ~ws.stale, NEW k \in DOMAIN asks, ~asks[k].stale
        PROVE  /\ Precedes(asks[k].held, ws.inbox, excused)
               /\ Precedes(asks[k].held, Tail(ws.inbox), excused)
    <3>1. Precedes(asks[k].held, ws.inbox, excused)
      BY <2>1, <2>3 DEF Queue
    <3>2. QED
      BY <1>3, <3>1 DEF Precedes
  <2>4. ~ws.stale => ws.group = cur /\ i \in Heard
    BY <1>2, <1>3, <2>1 DEF SocketOK, Heard, Queue
  <2>5. QED
    BY <2>1, <2>2, <2>3, <2>4
<1>8. CASE ~ThisGroup
  <2>1. UNCHANGED <<shown, asks, stray>>
    BY <1>1, <1>2, <1>8, MisledByNothing
  <2>2. PageTypeOK' /\ Known'
    BY <1>1, <1>2, <1>4, <2>1 DEF PageTypeOK, Known
  <2>3. ASSUME cur # None PROVE Following'
    <3>1. Asked /\ Cursors /\ Queue /\ Thread /\ ClassicOK /\ ws.stale
      BY <1>2, <1>7, <1>8, <2>3 DEF ThisGroup
    <3>2. Asked' /\ Cursors' /\ Queue' /\ Thread'
      BY <1>1, <1>2, <1>4, <2>1, <3>1 DEF Asked, Cursors, Queue, Thread, LastId, Lost
    <3>3. ClassicOK'
      BY <1>1, <1>4, <2>1, <3>1 DEF ClassicOK, Backfilling
    <3>4. QED
      BY <3>2, <3>3 DEF Following
  <2>4. QED
    BY <1>1, <1>2, <1>5, <2>2, <2>3 DEF PageOK
<1>9. CASE ThisGroup /\ ~ \E k \in DOMAIN asks : Backfilling(k)
  <2>1. shown' = Rendered(shown, {i}) /\ asks' = asks
    BY <1>1, <1>9 DEF Frame
  <2>2. /\ Longer /\ LastId' \in Nat /\ LastId <= LastId'
        /\ stray' \in Nat /\ (~ws.stale => stray' = stray)
    BY <1>1, <1>2, <1>6, <2>1, RenderedLonger, Grows
  <2>3. PageTypeOK' /\ Known'
    BY <1>1, <1>2, <1>4, <2>1, <2>2 DEF PageTypeOK, Known, Longer
  <2>4. ASSUME cur # None PROVE Following'
    <3>1. /\ Asked /\ Cursors /\ Queue /\ Thread /\ ClassicOK /\ Backfilled
      BY <1>7, <1>9, <2>4 DEF Backfilled
    <3>2. ASSUME ~ws.stale
          PROVE  /\ Sound(shown', Here, Lost') /\ Whole(shown', Here, Heard, Lost')
                 /\ \A j \in Heard' : Accounted(j)'
      <4>1. /\ ws.group = cur /\ InTurn(ws.inbox, excused)
            /\ \A j \in Heard : Accounted(j)
        BY <1>1, <1>7, <2>4, <3>1, <3>2 DEF ClassicOK
      <4>2. Lost' = Lost
        BY <1>1, <2>2, <3>2 DEF Lost
      <4>3. /\ Sound(shown', Here, Lost) /\ Whole(shown', Here, Heard, Lost)
            /\ \A j \in Heard : j \in shown' \/ j \in Lost \/ Among(j, Tail(ws.inbox))
        BY <1>1, <1>2, <2>1, <3>1, <4>1, LiveShown DEF i
      <4>4. QED
        BY <1>2, <1>4, <4>2, <4>3 DEF Accounted
    <3>3. \A m \in DOMAIN asks' : \E p \in DOMAIN asks : Alike(asks'[m], asks[p])
      BY <2>1 DEF Alike
    <3>4. Cursors'
      BY <1>2, <2>2, <3>1, <3>3, CursorsStay
    <3>5. Asked' /\ Queue'
      BY <1>1, <1>2, <1>4, <1>7, <2>1, <2>4, <3>1 DEF Asked, Queue
    <3>6. Thread'
      BY <1>1, <1>2, <2>2, <3>1, <3>2, ThreadGrows
    <3>7. ClassicOK'
      <4>1. \A m \in DOMAIN asks' : ~ Backfilling(m)'
        BY <2>1, <3>1 DEF Backfilled, Backfilling
      <4>2. \A m \in DOMAIN asks' : asks'[m].kind = "backfill" /\ ws'.stale => asks'[m].stale
        BY <1>4, <2>1, <3>1 DEF ClassicOK
      <4>3. QED
        BY <1>4, <3>2, <4>1, <4>2 DEF ClassicOK, Backfilled
    <3>8. QED
      BY <3>4, <3>5, <3>6, <3>7 DEF Following
  <2>5. QED
    BY <1>1, <1>2, <1>5, <2>3, <2>4 DEF PageOK
<1>10. CASE ThisGroup /\ \E k \in DOMAIN asks : Backfilling(k)
  <2>1. /\ shown' = shown /\ stray' = stray
        /\ asks' = [k \in DOMAIN asks |-> IF Backfilling(k)
                        THEN [asks[k] EXCEPT !.held = Append(@, i)] ELSE asks[k]]
    BY <1>1, <1>2, <1>10, MisledByNothing DEF Frame
  <2>2. ASSUME NEW k \in DOMAIN asks
        PROVE  /\ asks'[k] \in Asks
               /\ asks'[k].kind = asks[k].kind /\ asks'[k].group = asks[k].group
               /\ asks'[k].after = asks[k].after /\ asks'[k].ours = asks[k].ours
               /\ asks'[k].stale = asks[k].stale
               /\ asks'[k].got = asks[k].got /\ asks'[k].st = asks[k].st
               /\ asks'[k].held = IF Backfilling(k) THEN Append(asks[k].held, i) ELSE asks[k].held
    <3>1. asks[k] \in Asks /\ asks[k].held \in Seq(Nat)
      BY <1>2, AskTyped
    <3>2. CASE ~ Backfilling(k)
      BY <2>1, <3>1, <3>2
    <3>3. CASE Backfilling(k)
      <4>1. asks'[k] = [asks[k] EXCEPT !.held = Append(@, i)]
        BY <2>1, <3>3
      <4>2. Append(asks[k].held, i) \in Seq(Nat)
        BY <1>3, <3>1, Added
      <4>3. asks'[k] \in Asks
        BY <3>1, <4>1, <4>2 DEF Asks
      <4>4. QED
        BY <3>1, <3>3, <4>1, <4>3 DEF Asks
    <3>4. QED
      BY <3>2, <3>3
  <2>3. asks' \in Seq(Asks) /\ DOMAIN asks' = DOMAIN asks
    BY <1>2, <2>1, <2>2, AnswersTyped
  <2>4. PageTypeOK'
    BY <1>1, <1>2, <1>4, <2>1, <2>3 DEF PageTypeOK
  <2>5. \A k \in DOMAIN asks : Backfilling(k) =>
            /\ DOMAIN asks'[k].held = DOMAIN asks[k].held \cup {Len(asks[k].held) + 1}
            /\ \A m \in DOMAIN asks[k].held : asks'[k].held[m] = asks[k].held[m]
            /\ asks'[k].held[Len(asks[k].held) + 1] = i
            /\ \A j : Among(j, asks'[k].held) <=> Among(j, asks[k].held) \/ j = i
    <3>1. SUFFICES ASSUME NEW k \in DOMAIN asks, Backfilling(k)
          PROVE  /\ DOMAIN asks'[k].held = DOMAIN asks[k].held \cup {Len(asks[k].held) + 1}
                 /\ \A m \in DOMAIN asks[k].held : asks'[k].held[m] = asks[k].held[m]
                 /\ asks'[k].held[Len(asks[k].held) + 1] = i
                 /\ \A j : Among(j, asks'[k].held) <=> Among(j, asks[k].held) \/ j = i
      OBVIOUS
    <3>2. asks[k].held \in Seq(Nat) /\ i \in Nat
      BY <1>2, <1>3, AskTyped
    <3>3. asks'[k].held = Append(asks[k].held, i)
      BY <2>2, <3>1
    <3>4. \A j : Among(j, Append(asks[k].held, i)) <=> Among(j, asks[k].held) \/ j = i
      BY <3>2, AddedAmong
    <3>5. /\ DOMAIN Append(asks[k].held, i) = DOMAIN asks[k].held \cup {Len(asks[k].held) + 1}
          /\ \A m \in DOMAIN asks[k].held : Append(asks[k].held, i)[m] = asks[k].held[m]
          /\ Append(asks[k].held, i)[Len(asks[k].held) + 1] = i
      BY <3>2, Added
    <3>6. QED
      BY <3>3, <3>4, <3>5
  <2>6. Known'
    BY <1>1, <1>2, <1>6, <2>2, <2>3, <2>5 DEF Known
  <2>7. ASSUME cur # None PROVE Following'
    <3>1. /\ Asked /\ Cursors /\ Queue /\ Thread /\ ClassicOK
          /\ ~ws.stale =>
               /\ ws.group = cur
               /\ InTurn(ws.inbox, excused) /\ InTurn(Tail(ws.inbox), excused)
               /\ \A j : Among(j, ws.inbox) => j = i \/ Among(j, Tail(ws.inbox))
               /\ \A j : Among(j, ws.inbox) /\ j < i => j \in excused
               /\ \A k \in DOMAIN asks : ~asks[k].stale =>
                     /\ Precedes(asks[k].held, ws.inbox, excused)
                     /\ Precedes(asks[k].held, Tail(ws.inbox), excused)
               /\ i \in Heard
          /\ \A k \in DOMAIN asks : Backfilling(k) => asks[k].stale = ws.stale
      BY <1>7, <2>7 DEF ClassicOK
    <3>2. Asked'
      <4>1. SUFFICES ASSUME NEW k \in DOMAIN asks, ~asks[k].stale
                     PROVE  /\ asks'[k].group = cur /\ AskOK(asks'[k], Here, Heard, excused)
                            /\ asks'[k].kind = "post" => asks'[k].after \in DOMAIN messages
                                   /\ messages[asks'[k].after].group = cur
        BY <1>1, <1>2, <2>2, <2>3 DEF Asked
      <4>2. /\ asks[k].group = cur /\ AskOK(asks[k], Here, Heard, excused)
            /\ asks[k].kind = "post" => asks[k].after \in DOMAIN messages
                   /\ messages[asks[k].after].group = cur
        BY <3>1, <4>1 DEF Asked
      <4>3. CASE ~ Backfilling(k)
        BY <2>1, <4>2, <4>3
      <4>4. CASE Backfilling(k)
        <5>1. asks[k].held \in Seq(Nat) /\ asks[k].kind = "backfill" /\ ~ws.stale
          BY <1>2, <3>1, <4>1, <4>4, AskTyped DEF Backfilling
        <5>2. InTurn(asks'[k].held, excused)
          <6>1. InTurn(asks[k].held, excused)
            BY <4>2 DEF AskOK
          <6>2. \A p \in DOMAIN asks[k].held : i < asks[k].held[p] => i \in excused
            BY <1>3, <3>1, <4>1, <5>1 DEF Precedes
          <6>3. QED
            BY <1>3, <2>2, <4>4, <5>1, <6>1, <6>2, AddedInTurn
        <5>3. \A m \in DOMAIN asks'[k].held : asks'[k].held[m] \in Heard
          BY <2>5, <3>1, <4>2, <4>4, <5>1 DEF AskOK
        <5>4. ASSUME Partial(asks'[k]), NEW m \in DOMAIN asks'[k].held, NEW j \in Heard,
                     j < asks'[k].held[m]
              PROVE  Covers(asks'[k], j, excused)
          <6>1. Partial(asks[k])
            BY <2>2, <5>4 DEF Partial
          <6>2. CASE m \in DOMAIN asks[k].held
            <7>1. Covers(asks[k], j, excused)
              BY <2>5, <4>2, <4>4, <5>4, <6>1, <6>2 DEF AskOK
            <7>2. QED
              BY <2>2, <2>5, <4>4, <7>1 DEF Covers
          <6>3. CASE m = Len(asks[k].held) + 1
            <7>1. j < i
              BY <2>5, <4>4, <5>4, <6>3
            <7>2. Covers(asks[k], j, excused) \/ Among(j, ws.inbox)
              BY <1>1, <3>1, <4>4, <5>1, <6>1 DEF ClassicOK
            <7>3. QED
              BY <2>2, <2>5, <3>1, <4>4, <5>1, <7>1, <7>2 DEF Covers
          <6>4. QED
            BY <2>5, <4>4, <6>2, <6>3
        <5>5. QED
          BY <2>2, <4>2, <5>1, <5>2, <5>3, <5>4 DEF AskOK, Gapless
      <4>5. QED
        BY <4>3, <4>4
    <3>3. Cursors'
      BY <2>1, <2>2, <2>3, <3>1 DEF Cursors, LastId
    <3>4. Queue'
      <4>1. ASSUME ~ws.stale, NEW k \in DOMAIN asks, ~asks[k].stale
            PROVE  Precedes(asks'[k].held, Tail(ws.inbox), excused)
        <5>1. CASE ~ Backfilling(k)
          BY <2>1, <3>1, <4>1, <5>1
        <5>2. CASE Backfilling(k)
          <6>1. ASSUME NEW q \in DOMAIN Tail(ws.inbox), Tail(ws.inbox)[q] < i
                PROVE  Tail(ws.inbox)[q] \in excused
            <7>1. Among(Tail(ws.inbox)[q], ws.inbox)
              BY <1>3 DEF Among
            <7>2. QED
              BY <3>1, <4>1, <6>1, <7>1
          <6>2. QED
            BY <2>5, <3>1, <4>1, <5>2, <6>1 DEF Precedes
        <5>3. QED
          BY <5>1, <5>2
      <4>2. QED
        BY <1>1, <1>4, <2>2, <2>3, <3>1, <4>1 DEF Queue
    <3>5. Thread'
      BY <1>1, <1>2, <2>1, <3>1 DEF Thread, Lost
    <3>6. ClassicOK'
      <4>1. \A k \in DOMAIN asks : Backfilling(k)' <=> Backfilling(k)
        BY <2>2 DEF Backfilling
      <4>2. ~ Backfilled'
        BY <1>10, <2>3, <4>1 DEF Backfilled
      <4>3. ASSUME ~ws.stale, NEW k \in DOMAIN asks, Backfilling(k), Partial(asks'[k]),
                   NEW j \in Heard
            PROVE  Covers(asks'[k], j, excused) \/ Among(j, Tail(ws.inbox))
        <5>1. Partial(asks[k])
          BY <2>2, <4>3 DEF Partial
        <5>2. Covers(asks[k], j, excused) \/ Among(j, ws.inbox)
          BY <1>1, <3>1, <4>3, <5>1 DEF ClassicOK
        <5>3. QED
          BY <2>2, <2>5, <3>1, <4>3, <5>2 DEF Covers
      <4>4. \A k \in DOMAIN asks' :
              /\ Backfilling(k)' => asks'[k].stale = ws'.stale
              /\ asks'[k].kind = "backfill" /\ ws'.stale => asks'[k].stale
        BY <1>4, <2>2, <2>3, <3>1, <4>1 DEF ClassicOK
      <4>5. QED
        BY <1>1, <1>2, <1>4, <2>3, <4>1, <4>2, <4>3, <4>4 DEF ClassicOK
    <3>7. QED
      BY <3>2, <3>3, <3>4, <3>5, <3>6 DEF Following
  <2>8. QED
    BY <1>1, <1>2, <1>5, <2>4, <2>6, <2>7 DEF PageOK
<1>11. QED
  BY <1>8, <1>9, <1>10

\* Below the last one shown, what has been told is shown or excused.
LEMMA BelowLast ==
    ASSUME NEW n \in Nat, NEW V \in SUBSET (1 .. n), NEW T \in SUBSET V, NEW E,
           NEW S \in SUBSET (1 .. n), Whole(S, V, T, E)
    PROVE  \A j \in T : j <= LastOf(S) => j \in S \/ j \in E
<1> SUFFICES ASSUME NEW j \in T, j <= LastOf(S) PROVE j \in S \/ j \in E
  OBVIOUS
<1>1. j \in 1 .. n /\ j \in V
  OBVIOUS
<1>2. LastOf(S) \in Nat /\ LastOf(S) \in S \cup {0}
  BY LastIs
<1>3. j \in Nat /\ j # 0
  BY <1>1
<1>4. CASE j < LastOf(S)
  BY <1>1, <1>4 DEF Whole, Excusable
<1>5. CASE j = LastOf(S)
  BY <1>2, <1>3, <1>5
<1>6. QED
  BY <1>2, <1>3, <1>4, <1>5

\* With more excused, no less is whole.
LEMMA WholeMore ==
    ASSUME NEW S, NEW V, NEW T, NEW E, NEW E2, E \subseteq E2, Sound(S, V, E), Whole(S, V, T, E)
    PROVE  Sound(S, V, E2) /\ Whole(S, V, T, E2)
BY DEF Sound, Whole, Excusable

LEMMA BackfillArrivesOK ==
    ASSUME PageOK, reader = "classic", reader' = reader, NEW k \in DOMAIN asks, BackfillArrives(k)
    PROVE  PageOK'
<1> DEFINE a    == asks[k]
           rest == RemoveAt(asks, k)
           base == IF a.st = "answered" /\ cur = a.group THEN Rendered(shown, a.got) ELSE shown
           coming == {a.held[j] : j \in DOMAIN a.held} \cup {ws.inbox[j] : j \in DOMAIN ws.inbox}
           more == IF ~a.stale /\ (a.st = "failed" \/ Cardinality(a.got) = PageLimit)
                   THEN Told(a.group) \ (base \cup coming) ELSE {}
<1>1. /\ a.kind = "backfill" /\ a.st # "asked" /\ asks' = rest
      /\ shown' = RenderedInTurn(base, a.held) /\ excused' = excused \cup more
      /\ Misled(a.stale)
      /\ UNCHANGED <<messages, cur, ws, timer, closing, faults>>
  BY DEF BackfillArrives, Answered, Excuse
<1>2. /\ BoardTypeOK /\ PageTypeOK /\ SocketOK /\ Known
      /\ a \in Asks /\ a.group \in Projects /\ a.held \in Seq(Nat)
      /\ a.stale \in BOOLEAN
      /\ a.st = "answered" \/ a.st = "failed"
      /\ Len(messages) \in Nat /\ DOMAIN messages = 1 .. Len(messages)
      /\ Heard \subseteq Here /\ Here \in SUBSET (1 .. Len(messages)) /\ \A j \in Here : j \in Nat
      /\ Here' = Here /\ Heard' = Heard /\ BoardTypeOK' /\ LastId \in Nat
  BY <1>1, StillThere, AskTyped, LastIdIs DEF PageOK
<1>3. /\ rest \in Seq(Asks)
      /\ \A m \in DOMAIN rest : \E p \in DOMAIN asks : p # k /\ rest[m] = asks[p]
      /\ \A p \in DOMAIN asks : p # k => \E m \in DOMAIN rest : rest[m] = asks[p]
  BY <1>2, AsksRemoved
<1>4. \A m \in DOMAIN asks' : \E p \in DOMAIN asks : asks'[m] = asks[p]
  BY <1>1, <1>3
<1>5. \A m \in DOMAIN asks' : \E p \in DOMAIN asks : Alike(asks'[m], asks[p])
  BY <1>4 DEF Alike
<1>6. /\ base \in SUBSET (1 .. Len(messages)) /\ a.held \in Seq(1 .. Len(messages))
      /\ a.got \in SUBSET (1 .. Len(messages)) /\ shown \in SUBSET (1 .. Len(messages))
  <2>1. /\ a.got \subseteq DOMAIN messages /\ shown \subseteq DOMAIN messages
        /\ \A n \in DOMAIN a.held : a.held[n] \in DOMAIN messages
    BY <1>2 DEF Known, PageTypeOK
  <2>2. base \subseteq DOMAIN messages
    BY <2>1 DEF Rendered
  <2>3. a.held \in Seq(1 .. Len(messages))
    <3>1. a.held = [n \in DOMAIN a.held |-> a.held[n]]
      BY <1>2
    <3>2. QED
      BY <1>2, <2>1, <3>1, Mapped
  <2>4. QED
    BY <1>2, <2>1, <2>2, <2>3
<1>7. more \subseteq DOMAIN messages /\ more \subseteq Told(a.group)
  BY IdsOf, <1>2 DEF Told, Visible
<1>8. \A j : j \in Told(a.group) /\ ~a.stale /\ (a.st = "failed" \/ Cardinality(a.got) = PageLimit) =>
          j \in more \/ j \in base \/ Among(j, a.held) \/ Among(j, ws.inbox)
  BY DEF Among
<1>9. a.st = "answered" /\ cur = a.group => base = Rendered(shown, a.got)
  OBVIOUS
<1>10. ~ (a.st = "answered" /\ cur = a.group) => base = shown
  OBVIOUS
<1> HIDE DEF a, rest, base, coming, more
<1>11. /\ LastOf(base) \in Nat /\ LastId <= LastOf(base)
       /\ shown \subseteq base /\ base \subseteq shown' /\ LastOf(base) <= LastOf(shown')
       /\ Longer
  <2>1. /\ LastOf(base) \in Nat /\ LastId <= LastOf(base) /\ shown \subseteq base
        /\ \A i \in base : i \in shown \/ i > LastId
    <3>1. CASE a.st = "answered" /\ cur = a.group
      <4>1. base = Rendered(shown, a.got)
        BY <1>9, <3>1
      <4>2. \A i \in base : i \in shown \/ i > LastId
        BY <4>1 DEF Rendered, LastId
      <4>3. QED
        BY <1>2, <1>6, <4>1, <4>2, RenderedSet DEF LastId
    <3>2. CASE ~ (a.st = "answered" /\ cur = a.group)
      BY <1>2, <1>10, <3>2 DEF LastId
    <3>3. QED
      BY <3>1, <3>2
  <2>2. /\ shown' \in SUBSET (1 .. Len(messages)) /\ base \subseteq shown'
        /\ LastOf(base) <= LastOf(shown')
        /\ \A i \in shown' : i \in base \/ i > LastOf(base)
    BY <1>1, <1>2, <1>6, RenderedInTurnSet
  <2>3. \A i \in shown' : i \in Nat
    BY <2>2
  <2>4. QED
    BY <1>2, <2>1, <2>2, <2>3 DEF Longer
<1>12. /\ LastId' \in Nat /\ LastId <= LastId' /\ stray' \in Nat
       /\ (~a.stale => stray' = stray)
  BY <1>1, <1>2, <1>11, Grows
<1>13. PageTypeOK'
  BY <1>1, <1>2, <1>3, <1>7, <1>11, <1>12 DEF PageTypeOK, Longer
<1>14. SocketOK'
  BY <1>1, <1>2, SocketStays
<1>15. Known' /\ (Asked => Asked')
  BY <1>1, <1>2, <1>5, AsksGoOn
<1>16. ASSUME cur # None PROVE Following'
  <2>1. /\ Asked /\ Cursors /\ Queue /\ Thread /\ ClassicOK
        /\ ~a.stale => AskOK(a, Here, Heard, excused) /\ a.group = cur /\ ~ws.stale
    BY <1>1, <1>16 DEF PageOK, Following, Asked, ClassicOK, a
  <2>2. excused \subseteq excused' /\ \A j : j \in excused' => j \in Lost'
    BY <1>1 DEF Lost
  <2>3. ASSUME ~a.stale
        PROVE  /\ Sound(shown', Here, Lost') /\ Whole(shown', Here, Heard, Lost')
               /\ \A j \in Heard :
                    (Partial(a) => Covers(a, j, excused) \/ Among(j, ws.inbox))
                    => j \in shown' \/ j \in Lost' \/ Among(j, ws.inbox)
    <3>1. /\ AskOK(a, Here, Heard, excused) /\ a.group = cur /\ ~ws.stale
          /\ ws.group = cur /\ Precedes(a.held, ws.inbox, excused)
      BY <2>1, <2>3 DEF Queue, a
    <3>2. a.after <= LastId /\ a.after \in Nat
      BY <1>1, <1>2, <2>1, <2>3 DEF Cursors, a, Asks
    <3>3. Lost \subseteq Lost'
      BY <1>12, <2>2, <2>3 DEF Lost
    <3>4. /\ Sound(base, Here, Lost') /\ Whole(base, Here, Heard, Lost')
          /\ a.st = "answered" => \A i \in a.got : i > LastId => i \in base
      <4>1. CASE a.st = "answered"
        <5>1. base = Rendered(shown, a.got)
          BY <1>9, <3>1, <4>1
        <5>2. Sound(base, Here, Lost) /\ Whole(base, Here, Heard, Lost)
          BY <1>1, <1>2, <2>1, <3>1, <3>2, <5>1, AnswerShown
        <5>3. \A i \in a.got : i > LastId => i \in base
          BY <5>1 DEF Rendered, LastId
        <5>4. QED
          BY <3>3, <5>2, <5>3, WholeMore
      <4>2. CASE a.st # "answered"
        <5>1. base = shown
          BY <1>10, <4>2
        <5>2. QED
          BY <2>1, <3>3, <4>2, <5>1, WholeMore DEF Thread
      <4>3. QED
        BY <4>1, <4>2
    <3>5. \A m \in base : m <= LastOf(base)
      BY <1>2, <1>6, LastIs
    <3>6. /\ \A p \in DOMAIN a.held : a.held[p] \in Heard
          /\ InTurn(a.held, Lost')
      BY <2>2, <3>1 DEF AskOK, InTurn
    <3>7. ASSUME NEW j \in Heard
          PROVE  \/ j \in Lost' \/ j <= LastOf(base) \/ j \in base
                 \/ Among(j, a.held) \/ Among(j, ws.inbox)
                 \/ Partial(a) /\ ~ Covers(a, j, excused)
      <4>1. CASE a.st = "failed" \/ Cardinality(a.got) = PageLimit
        <5>1. j \in Told(a.group)
          BY <3>1 DEF Heard
        <5>2. QED
          BY <1>1, <1>8, <2>2, <2>3, <4>1, <5>1
      <4>2. CASE ~ (a.st = "failed" \/ Cardinality(a.got) = PageLimit)
        <5>1. Partial(a)
          BY <1>1, <1>2, <4>2 DEF Partial
        <5>2. CASE Covers(a, j, excused)
          <6>1. j \in Nat
            BY <1>2
          <6>2. CASE j <= a.after
            BY <1>2, <1>11, <3>2, <6>1, <6>2
          <6>3. CASE j \in a.got
            <7>1. j > LastId => j \in base
              BY <1>2, <3>4, <4>2, <6>3
            <7>2. QED
              BY <1>2, <1>11, <6>1, <7>1
          <6>4. QED
            BY <2>2, <5>2, <6>2, <6>3 DEF Covers
        <5>3. QED
          BY <5>1, <5>2
      <4>3. QED
        BY <4>1, <4>2
    <3>8. ASSUME NEW p \in DOMAIN a.held, NEW j \in Heard, LastOf(base) < j, j < a.held[p]
          PROVE  j \in Lost' \/ Among(j, a.held)
      <4>1. j \in Nat /\ ~ (j <= LastOf(base)) /\ j \notin base
        BY <1>2, <1>11, <3>5, <3>8
      <4>2. Partial(a) => Covers(a, j, excused)
        BY <3>1, <3>8 DEF AskOK
      <4>3. CASE Among(j, ws.inbox)
        BY <2>2, <3>1, <3>8, <4>3 DEF Precedes, Among
      <4>4. QED
        BY <3>7, <4>1, <4>2, <4>3
    <3>9. /\ Sound(shown', Here, Lost') /\ Whole(shown', Here, Heard, Lost')
      <4>1. Heard \in SUBSET Here
        BY <1>2
      <4>2. \A p \in DOMAIN a.held, j \in Heard :
                LastOf(base) < j /\ j < a.held[p] => j \in Lost' \/ Among(j, a.held)
        BY <3>8
      <4>3. QED
        BY <1>1, <1>2, <1>6, <3>4, <3>6, <4>1, <4>2, WholeInTurn
    <3>10. ASSUME NEW j \in Heard, Partial(a) => Covers(a, j, excused) \/ Among(j, ws.inbox)
           PROVE  j \in shown' \/ j \in Lost' \/ Among(j, ws.inbox)
      <4>1. j \in Nat
        BY <1>2
      <4>2. j <= LastOf(base) => j \in shown' \/ j \in Lost'
        <5>1. Heard \in SUBSET Here
          BY <1>2
        <5>2. \A m \in Heard : m <= LastOf(base) => m \in base \/ m \in Lost'
          BY <1>2, <1>6, <3>4, <5>1, BelowLast
        <5>3. QED
          BY <1>11, <5>2
      <4>3. Among(j, a.held) => j \in shown' \/ j \in Lost'
        <5>1. Among(j, a.held) /\ j > LastOf(base) => j \in shown' \/ j \in Lost'
          BY <1>1, <1>2, <1>6, <3>6, ShownInTurn
        <5>2. QED
          BY <1>11, <4>1, <4>2, <5>1
      <4>4. QED
        BY <1>11, <3>7, <3>10, <4>2, <4>3
    <3>11. QED
      BY <3>9, <3>10
  <2>4. Thread' /\ Lost \subseteq Lost'
    BY <1>1, <1>2, <1>11, <2>1, <2>2, <2>3, ThreadGrows
  <2>5. Cursors'
    BY <1>2, <1>5, <1>12, <2>1, CursorsStay
  <2>6. Queue'
    <3>1. \A m \in DOMAIN asks' :
              ~ws.stale /\ ~asks'[m].stale => Precedes(asks'[m].held, ws.inbox, excused)
      BY <1>4, <2>1 DEF Queue
    <3>2. QED
      BY <1>1, <2>1, <2>2, <3>1 DEF Queue, InTurn, Precedes
  <2>7. ClassicOK'
    <3>1. /\ \A m \in DOMAIN asks' : asks'[m].kind = "backfill" /\ ws.stale => asks'[m].stale
          /\ \A m \in DOMAIN asks' : asks'[m].kind = "backfill" /\ asks'[m].ours =>
                                          asks'[m].stale = ws.stale
      BY <1>4, <2>1 DEF ClassicOK, Backfilling
    <3>2. Backfilled => Backfilled'
      BY <1>4 DEF Backfilled, Backfilling
    <3>3. ASSUME Backfilled', NEW p \in DOMAIN asks, p # k PROVE ~ Backfilling(p)
      <4>1. PICK m \in DOMAIN asks' : asks'[m] = asks[p]
        BY <1>1, <1>3, <3>3
      <4>2. QED
        BY <3>3, <4>1 DEF Backfilled, Backfilling
    <3>4. ASSUME ~ws.stale, ws.st = "open", Backfilled', NEW j \in Heard
          PROVE  Accounted(j)'
      <4>1. SUFFICES j \in shown' \/ j \in Lost' \/ Among(j, ws.inbox)
        BY <1>1 DEF Accounted
      <4>2. CASE Backfilled
        <5>1. j \in shown \/ j \in Lost \/ Among(j, ws.inbox)
          BY <2>1, <3>4, <4>2 DEF ClassicOK, Accounted
        <5>2. QED
          BY <1>11, <2>4, <5>1
      <4>3. CASE ~Backfilled
        <5>1. Backfilling(k)
          BY <3>3, <3>4, <4>3 DEF Backfilled
        <5>2. ~a.stale /\ (Partial(a) => Covers(a, j, excused) \/ Among(j, ws.inbox))
          BY <2>1, <3>4, <5>1 DEF ClassicOK, a
        <5>3. QED
          BY <2>3, <5>2
      <4>4. QED
        BY <4>2, <4>3
    <3>5. ASSUME ~ws.stale, ws.st = "open", NEW m \in DOMAIN asks', asks'[m].kind = "backfill",
                 asks'[m].ours, Partial(asks'[m]), NEW j \in Heard
          PROVE  Covers(asks'[m], j, excused') \/ Among(j, ws.inbox)
      <4>1. PICK p \in DOMAIN asks : asks'[m] = asks[p]
        BY <1>4
      <4>2. Covers(asks[p], j, excused) \/ Among(j, ws.inbox)
        BY <2>1, <3>5, <4>1 DEF ClassicOK, Backfilling
      <4>3. QED
        BY <2>2, <4>1, <4>2 DEF Covers
    <3>6. QED
      BY <1>1, <1>2, <2>1, <3>1, <3>2, <3>4, <3>5 DEF ClassicOK, Backfilling
  <2>8. QED
    BY <1>15, <2>1, <2>4, <2>5, <2>6, <2>7 DEF Following
<1>17. QED
  BY <1>1, <1>2, <1>14, <1>15, <1>16, <1>13 DEF PageOK

LEMMA SocketClosesOK ==
    ASSUME PageOK, reader = "classic", reader' = reader, SocketCloses
    PROVE  PageOK'
<1>1. /\ ws.st \in {"dropped", "revoked"} /\ ws' = [ws EXCEPT !.st = "none"]
      /\ timer' = (timer \/ (ThisGroup /\ ws.st = "dropped"))
      /\ cur' = IF ThisGroup /\ ws.st = "revoked" THEN None ELSE cur
      /\ UNCHANGED <<messages, shown, asks, closing, faults, excused, stray>>
  BY DEF SocketCloses
<1>2. /\ BoardTypeOK /\ PageTypeOK /\ SocketOK /\ Known /\ BoardTypeOK' /\ Known'
  BY <1>1 DEF PageOK, BoardTypeOK, Known
<1>3. /\ ws' \in Sockets /\ ws'.group = ws.group /\ ws'.st = "none" /\ ws'.inbox = <<>>
      /\ ws'.stale = ws.stale
      /\ ws.group # None
  BY <1>1, <1>2, NoSocketIs DEF PageTypeOK, Sockets, SocketOK
<1>4. PageTypeOK'
  <2>1. cur' \in Projects \cup {None} /\ timer' \in BOOLEAN
    BY <1>1, <1>2 DEF PageTypeOK
  <2>2. QED
    BY <1>1, <1>2, <1>3, <2>1 DEF PageTypeOK
<1>5. SocketOK'
  BY <1>3 DEF SocketOK
<1>6. ASSUME cur' # None PROVE Following'
  <2>1. cur' = cur /\ cur # None
    BY <1>1, <1>6
  <2>2. Asked /\ Cursors /\ Queue /\ Thread /\ ClassicOK
    BY <1>6, <2>1 DEF PageOK, Following
  <2>3. Here' = Here /\ Heard' = Heard
    BY <1>1, <1>2, <2>1, StillThere
  <2>4. Asked' /\ Cursors' /\ Thread'
    BY <1>1, <1>2, <2>1, <2>2, <2>3 DEF Asked, Cursors, Thread, Lost, LastId
  <2>5. Queue'
    BY <1>1, <1>3, <2>1, <2>2 DEF Queue, InTurn, Precedes
  <2>6. ClassicOK'
    BY <1>1, <1>3, <2>2 DEF ClassicOK, Backfilling
  <2>7. QED
    BY <2>4, <2>5, <2>6 DEF Following
<1>7. QED
  BY <1>1, <1>2, <1>4, <1>5, <1>6 DEF PageOK

LEMMA ReconnectOK ==
    ASSUME PageOK, reader = "classic", reader' = reader, Reconnect
    PROVE  PageOK'
<1>1. /\ IF ThisGroup /\ ws.st = "none" THEN ConnectSocket(cur, asks)
         ELSE timer' = FALSE /\ UNCHANGED <<ws, asks>>
      /\ UNCHANGED <<messages, cur, shown, closing, faults, excused, stray>>
  BY DEF Reconnect
<1>2. /\ BoardTypeOK /\ PageTypeOK /\ SocketOK /\ Known /\ BoardTypeOK' /\ asks \in Seq(Asks)
      /\ Here' = Here /\ Heard' = Heard /\ LastId' = LastId /\ LastId \in Nat
  BY <1>1, StillThere, LastIdIs DEF PageOK, PageTypeOK, LastId
<1>3. ASSUME cur # None
      PROVE  Asked /\ Cursors /\ Queue /\ Thread /\ ClassicOK
  BY <1>3 DEF PageOK, Following
<1>4. CASE ~ (ThisGroup /\ ws.st = "none")
  <2>1. timer' = FALSE /\ UNCHANGED <<ws, asks>>
    BY <1>1, <1>4
  <2>2. PageTypeOK' /\ Known' /\ SocketOK'
    BY <1>1, <1>2, <2>1, SocketStays DEF PageTypeOK, Known
  <2>3. ASSUME cur # None PROVE Following'
    <3>1. Asked /\ Cursors /\ Queue /\ Thread /\ ClassicOK
      BY <1>3, <2>3
    <3>2. Asked' /\ Cursors' /\ Queue' /\ Thread'
      BY <1>1, <1>2, <2>1, <3>1 DEF Asked, Cursors, Queue, Thread, Lost
    <3>3. /\ Backfilled' <=> Backfilled
          /\ \A j : Accounted(j)' <=> Accounted(j)
      BY <1>1, <2>1 DEF Backfilled, Backfilling, Accounted, Lost
    <3>4. ClassicOK'
      BY <1>1, <1>2, <2>1, <3>1, <3>3 DEF ClassicOK, Backfilling
    <3>5. QED
      BY <3>2, <3>4 DEF Following
  <2>4. QED
    BY <1>1, <1>2, <2>2, <2>3 DEF PageOK
<1>5. CASE ThisGroup /\ ws.st = "none"
  <2>1. ws' = Dialing(cur) /\ timer' = FALSE /\ asks' = Disowned(asks) /\ cur \in Projects
    BY <1>1, <1>2, <1>5 DEF ConnectSocket, ThisGroup, PageTypeOK
  <2>2. /\ ws' \in Sockets /\ ws'.group = cur /\ ws'.st = "dialing" /\ ws'.inbox = <<>>
        /\ ~ws'.stale /\ cur # None
    BY <2>1, DialingIs
  <2>3. /\ asks' \in Seq(Asks) /\ DOMAIN asks' = DOMAIN asks
        /\ \A m \in DOMAIN asks : Alike(asks'[m], asks[m]) /\ ~ asks'[m].ours
    BY <1>2, <2>1, AsksDisowned DEF Alike
  <2>4. \A m \in DOMAIN asks' : \E p \in DOMAIN asks : Alike(asks'[m], asks[p])
    BY <2>3
  <2>5. PageTypeOK'
    BY <1>1, <1>2, <2>1, <2>2, <2>3 DEF PageTypeOK
  <2>6. SocketOK'
    BY <2>2 DEF SocketOK
  <2>7. Known' /\ (Asked => Asked')
    BY <1>1, <1>2, <2>4, AsksGoOn
  <2>8. ASSUME cur # None PROVE Following'
    <3>1. Asked /\ Cursors /\ Queue /\ Thread /\ ClassicOK
      BY <1>3, <2>8
    <3>2. Cursors'
      BY <1>2, <2>4, <3>1, CursorsStay
    <3>3. Queue'
      BY <1>1, <2>2 DEF Queue, InTurn, Precedes
    <3>4. Thread'
      BY <1>1, <1>2, <3>1 DEF Thread, Lost
    <3>5. ClassicOK'
      <4>1. Backfilled'
        BY <2>3 DEF Backfilled, Backfilling
      <4>2. QED
        BY <2>2, <4>1 DEF ClassicOK, Backfilled
    <3>6. QED
      BY <2>7, <3>1, <3>2, <3>3, <3>4, <3>5 DEF Following
  <2>9. QED
    BY <1>1, <1>2, <2>5, <2>6, <2>7, <2>8 DEF PageOK
<1>6. QED
  BY <1>4, <1>5

LEMMA ShowFeedOK ==
    ASSUME PageOK, reader = "classic", reader' = reader, ShowFeed
    PROVE  PageOK'
<1>1. /\ faults > 0 /\ faults' = faults - 1 /\ cur' = None /\ ws' = NoSocket
      /\ asks' = Disowned(asks)
      /\ UNCHANGED <<messages, shown, timer, closing, excused, stray>>
  BY DEF ShowFeed, Spend
<1>2. BoardTypeOK /\ PageTypeOK /\ Known /\ BoardTypeOK' /\ asks \in Seq(Asks)
  BY <1>1 DEF PageOK, BoardTypeOK, PageTypeOK
<1>3. /\ asks' \in Seq(Asks) /\ DOMAIN asks' = DOMAIN asks
      /\ \A m \in DOMAIN asks : Alike(asks'[m], asks[m])
  BY <1>1, <1>2, AsksDisowned DEF Alike
<1>4. PageTypeOK'
  <2>1. faults' \in 0 .. MaxFaults
    BY <1>1, <1>2, PageAssumption DEF PageTypeOK
  <2>2. QED
    BY <1>1, <1>2, <1>3, <2>1, NoSocketIs DEF PageTypeOK
<1>5. SocketOK'
  BY <1>1, NoSocketIs DEF SocketOK
<1>6. Known'
  BY <1>1, <1>2, <1>3 DEF Known, Alike
<1>7. QED
  BY <1>1, <1>2, <1>4, <1>5, <1>6 DEF PageOK

LEMMA ClassicStepOK ==
    ASSUME PageOK, reader = "classic", reader' = reader, ClassicNext
    PROVE  PageOK'
BY AroundOK, JoinOK, SelectGroupOK, HistoryArrivesOK, BackfillArrivesOK, SocketOpensOK,
   LiveMessageOK, SocketClosesOK, ReconnectOK, ShowFeedOK DEF ClassicNext
-----------------------------------------------------------------------------
(* public/home.js.                                                           *)

LEMMA OpenGroupOK ==
    ASSUME PageOK, reader' = reader, NEW g \in Projects, OpenGroup(g)
    PROVE  PageOK'
BY BeginThreadOK DEF OpenGroup

LEMMA QueueStays ==
    ASSUME Queue, ws' = ws, cur' = cur, excused \subseteq excused',
           \A m \in DOMAIN asks' : \E p \in DOMAIN asks : Alike(asks'[m], asks[p])
    PROVE  Queue'
<1>1. ASSUME ~ws.stale, NEW m \in DOMAIN asks', ~asks'[m].stale
      PROVE  Precedes(asks'[m].held, ws.inbox, excused')
  <2>1. PICK p \in DOMAIN asks : asks'[m].held = asks[p].held /\ ~asks[p].stale
    BY <1>1 DEF Alike
  <2>2. Precedes(asks[p].held, ws.inbox, excused)
    BY <1>1, <2>1 DEF Queue
  <2>3. QED
    BY <2>1, <2>2 DEF Precedes
<1>2. QED
  BY <1>1 DEF Queue, InTurn

LEMMA HomeStays ==
    ASSUME HomeOK, ws' = ws, Heard' = Heard, shown \subseteq shown', Lost \subseteq Lost'
    PROVE  HomeOK'
<1>1. ASSUME NEW j, Accounted(j) PROVE Accounted(j)'
  BY <1>1 DEF Accounted
<1>2. QED
  BY <1>1 DEF HomeOK

\* What is under way as a history is rendered: all but other histories is stale.
LEMMA AsksAnewAfter ==
    ASSUME PageTypeOK, NEW k \in DOMAIN asks,
           LET rest == RemoveAt(asks, k) IN
           asks' = [m \in DOMAIN rest |->
                       IF rest[m].kind = "history" THEN rest[m]
                       ELSE [rest[m] EXCEPT !.stale = TRUE]]
    PROVE  /\ asks' \in Seq(Asks)
           /\ \A m \in DOMAIN asks' :
                /\ \E p \in DOMAIN asks : Alike(asks'[m], asks[p])
                /\ asks'[m].kind # "history" => asks'[m].stale
<1> DEFINE rest == RemoveAt(asks, k)
<1>1. /\ asks' = [m \in DOMAIN rest |-> asks'[m]]
      /\ \A m \in DOMAIN rest : asks'[m] = IF rest[m].kind = "history" THEN rest[m]
                                           ELSE [rest[m] EXCEPT !.stale = TRUE]
  OBVIOUS
<1>2. /\ rest \in Seq(Asks)
      /\ \A m \in DOMAIN rest : \E p \in DOMAIN asks : rest[m] = asks[p]
  BY AsksRemoved
<1> HIDE DEF rest
<1>3. ASSUME NEW m \in DOMAIN rest
      PROVE  /\ asks'[m] \in Asks /\ Alike(asks'[m], rest[m])
             /\ asks'[m].kind # "history" => asks'[m].stale
  <2>1. rest[m] \in Asks
    BY <1>2, <1>3, AskTyped
  <2>2. CASE rest[m].kind = "history"
    BY <1>1, <1>3, <2>1, <2>2 DEF Alike
  <2>3. CASE rest[m].kind # "history"
    <3>1. asks'[m] = [rest[m] EXCEPT !.stale = TRUE]
      BY <1>1, <1>3, <2>3
    <3>2. QED
      BY <2>1, <3>1, StaleAsk DEF Alike
  <2>4. QED
    BY <2>2, <2>3
<1>4. asks' \in Seq(Asks) /\ DOMAIN asks' = DOMAIN rest
  <2>1. PICK t : t = asks'
    OBVIOUS
  <2>2. t = [m \in DOMAIN rest |-> t[m]] /\ \A m \in DOMAIN rest : t[m] \in Asks
    BY <1>1, <1>3, <2>1
  <2>3. t \in Seq(Asks) /\ DOMAIN t = DOMAIN rest
    BY <1>2, <2>2, AsksMapped
  <2>4. QED
    BY <2>1, <2>3
<1>5. \A m \in DOMAIN asks' : \E p \in DOMAIN asks : Alike(asks'[m], asks[p])
  BY <1>2, <1>3, <1>4
<1>6. QED
  BY <1>3, <1>4, <1>5

LEMMA HomeHistoryArrivesOK ==
    ASSUME PageOK, reader = "home", reader' = reader, NEW k \in DOMAIN asks,
           HomeHistoryArrives(k)
    PROVE  PageOK'
<1> DEFINE a == asks[k]
           rest == RemoveAt(asks, k)
<1>1. /\ a.kind = "history" /\ a.st # "asked"
      /\ UNCHANGED <<messages, cur, faults, excused>>
  BY DEF HomeHistoryArrives
<1>2. /\ BoardTypeOK /\ PageTypeOK /\ SocketOK /\ Known
      /\ a \in Asks /\ a.group \in Projects /\ a.stale \in BOOLEAN
      /\ Len(messages) \in Nat /\ Here \in SUBSET (1 .. Len(messages)) /\ \A j \in Here : j \in Nat
      /\ DOMAIN messages = 1 .. Len(messages)
      /\ Here' = Here /\ Heard' = Heard /\ BoardTypeOK'
      /\ a.got \subseteq DOMAIN messages
  BY <1>1, StillThere, AskTyped DEF PageOK, Known
<1>3. ASSUME cur # None
      PROVE  /\ Asked /\ Cursors /\ Queue /\ Thread /\ HomeOK
             /\ ~a.stale => AskOK(a, Here, Heard, excused) /\ a.after = 0
  BY <1>1, <1>3 DEF PageOK, Following, Asked, AskOK
<1>4. CASE a.st = "failed" \/ cur # a.group
  <2>1. asks' = rest /\ UNCHANGED <<messages, cur, shown, ws, timer, closing, faults, excused, stray>>
    BY <1>1, <1>4 DEF HomeHistoryArrives, Answered
  <2>2. /\ asks' \in Seq(Asks)
        /\ \A m \in DOMAIN asks' : \E p \in DOMAIN asks : asks'[m] = asks[p]
    BY <1>2, <2>1, AsksRemoved
  <2>3. \A m \in DOMAIN asks' : \E p \in DOMAIN asks : Alike(asks'[m], asks[p])
    BY <2>2 DEF Alike
  <2> HIDE DEF a, rest
  <2>4. PageTypeOK'
    BY <1>2, <2>1, <2>2 DEF PageTypeOK
  <2>5. SocketOK' /\ Known' /\ (Asked => Asked')
    BY <1>2, <2>1, <2>3, SocketStays, AsksGoOn
  <2>6. ASSUME cur # None PROVE Following'
    <3>1. Asked /\ Cursors /\ Queue /\ Thread /\ HomeOK
      BY <1>3, <2>6
    <3>2. Cursors' /\ Queue'
      BY <1>2, <2>1, <2>3, <3>1, LastIdIs, CursorsStay, QueueStays DEF LastId
    <3>3. Thread' /\ HomeOK'
      BY <1>2, <2>1, <3>1, HomeStays DEF Thread, Lost
    <3>4. QED
      BY <2>5, <3>1, <3>2, <3>3 DEF Following
  <2>7. QED
    BY <1>2, <2>1, <2>4, <2>5, <2>6 DEF PageOK
<1>5. CASE ~ (a.st = "failed" \/ cur # a.group)
  <2>1. /\ shown' = a.got /\ cur = a.group
        /\ stray' = IF a.stale THEN LastOf(a.got) ELSE 0
        /\ closing' = closing + (IF ws.st # "none" THEN 1 ELSE 0)
        /\ ws' = IF a.group \in Mine THEN Dialing(a.group) ELSE NoSocket
        /\ timer' = (a.group \notin Mine)
    BY <1>1, <1>5 DEF HomeHistoryArrives, StartLive, StopLive
  <2>2. /\ asks' \in Seq(Asks)
        /\ \A m \in DOMAIN asks' : \E p \in DOMAIN asks : Alike(asks'[m], asks[p])
        /\ \A m \in DOMAIN asks' : asks'[m].kind # "history" => asks'[m].stale
    BY <1>2, <1>5, AsksAnewAfter DEF HomeHistoryArrives
  <2> HIDE DEF a, rest
  <2>3. /\ ws' \in Sockets /\ ws'.inbox = <<>> /\ ws'.st \in {"dialing", "none"}
        /\ ~ws'.stale => ws'.group = cur
        /\ ws'.group = None => ws' = NoSocket
    BY <1>2, <2>1, DialingIs, NoSocketIs
  <2>4. /\ a.got \in SUBSET (1 .. Len(messages))
        /\ LastOf(a.got) \in Nat /\ LastOf(a.got) \in a.got \cup {0}
    <3>1. a.got \in SUBSET (1 .. Len(messages))
      BY <1>2
    <3>2. QED
      BY <1>2, <3>1, LastIs
  <2>5. stray' \in Nat /\ stray' \in shown' \cup {0} /\ LastId' \in Nat
    BY <2>1, <2>4 DEF LastId
  <2>6. PageTypeOK'
    <3>1. closing' \in Nat /\ timer' \in BOOLEAN
      BY <1>2, <2>1 DEF PageTypeOK
    <3>2. QED
      BY <1>1, <1>2, <2>1, <2>2, <2>3, <2>5, <3>1 DEF PageTypeOK
  <2>7. SocketOK'
    BY <2>3 DEF SocketOK
  <2>8. Known' /\ (Asked => Asked')
    BY <1>1, <1>2, <2>2, AsksGoOn
  <2>9. ASSUME cur # None PROVE Following'
    <3>1. Asked' /\ (~a.stale => AskOK(a, Here, Heard, excused) /\ a.after = 0)
      BY <1>3, <2>8, <2>9
    <3>2. Cursors'
      <4>1. ASSUME NEW m \in DOMAIN asks', ~asks'[m].stale
            PROVE  asks'[m].after = 0
        BY <2>2, <3>1, <4>1 DEF Asked, AskOK
      <4>2. QED
        BY <2>5, <4>1 DEF Cursors
    <3>3. Queue'
      BY <1>1, <2>3 DEF Queue, InTurn, Precedes
    <3>4. Thread'
      <4>1. CASE a.stale
        <5>1. 1 .. LastOf(shown') \subseteq Lost'
          BY <2>1, <4>1 DEF Lost
        <5>2. Sound(shown', Here, Lost') /\ Whole(shown', Here, Heard, Lost')
          BY <1>2, <2>1, <2>4, <5>1, WholeIfLost
        <5>3. QED
          BY <1>2, <2>5, <5>2 DEF Thread
      <4>2. CASE ~a.stale
        <5>1. a.got \subseteq Here /\ Gapless(a, Here, excused) /\ a.after = 0
          BY <3>1, <4>2 DEF AskOK
        <5>2. ASSUME NEW j \in Here, j < LastOf(a.got) PROVE j \in a.got \/ j \in excused
          <6>1. j \in 1 .. Len(messages)
            BY <1>2
          <6>2. a.after < j /\ LastOf(a.got) \in a.got
            BY <2>4, <5>1, <5>2, <6>1
          <6>3. QED
            BY <1>1, <5>1, <5>2, <6>2 DEF Gapless
        <5>3. excused \subseteq Lost'
          BY <1>1 DEF Lost
        <5>4. Sound(shown', Here, Lost') /\ Whole(shown', Here, Heard, Lost')
          BY <2>1, <5>1, <5>2, <5>3 DEF Sound, Whole, Excusable
        <5>5. QED
          BY <1>2, <2>5, <5>4 DEF Thread
      <4>3. QED
        BY <4>1, <4>2
    <3>5. HomeOK'
      BY <2>3 DEF HomeOK
    <3>6. QED
      BY <3>1, <3>2, <3>3, <3>4, <3>5 DEF Following
  <2>10. QED
    BY <1>1, <1>2, <2>6, <2>7, <2>8, <2>9 DEF PageOK
<1>6. QED
  BY <1>4, <1>5

\* What the socket will not bring has been passed over as it enters the room.
LEMMA HomeJoinOK ==
    ASSUME PageOK, reader = "home", reader' = reader, HomeJoin
    PROVE  PageOK'
<1> DEFINE passed == IF ws.stale THEN {} ELSE {i \in Told(cur) : i > LastId}
<1>1. /\ ws.st = "dialing" /\ ws' = [ws EXCEPT !.st = "joined"] /\ excused' = excused \cup passed
      /\ UNCHANGED <<messages, cur, shown, asks, timer, closing, faults, stray>>
  BY DEF HomeJoin, Join, Excuse
<1>2. /\ BoardTypeOK /\ PageTypeOK /\ SocketOK /\ Known /\ BoardTypeOK'
      /\ Here' = Here /\ Heard' = Heard /\ Known' /\ LastId' = LastId /\ LastId \in Nat
      /\ Len(messages) \in Nat /\ Here \in SUBSET (1 .. Len(messages)) /\ Heard \in SUBSET Here
      /\ \A j \in Here : j \in Nat
  BY <1>1, StillThere, LastIdIs DEF PageOK, Known, LastId
<1>3. /\ passed \subseteq DOMAIN messages
      /\ \A j \in Heard : ~ws.stale /\ j > LastId => j \in passed
  BY DEF Told, Visible, Heard
<1> HIDE DEF passed
<1>4. /\ ws' \in Sockets /\ ws'.group = ws.group /\ ws'.st = "joined" /\ ws'.inbox = ws.inbox
      /\ ws'.stale = ws.stale /\ ws # NoSocket
  <2>1. ws.st = "dialing" /\ ws' = [ws EXCEPT !.st = "joined"] /\ PageTypeOK
    BY <1>1, <1>2
  <2>2. QED
    BY <2>1 DEF PageTypeOK, Sockets, NoSocket
<1>5. PageTypeOK'
  BY <1>1, <1>2, <1>4, <1>3 DEF PageTypeOK
<1>6. SocketOK'
  BY <1>1, <1>2, <1>4 DEF SocketOK, Told, Visible
<1>7. excused \subseteq excused' /\ Lost \subseteq Lost'
  BY <1>1 DEF Lost
<1>8. ASSUME cur # None PROVE Following'
  <2>1. Asked /\ Cursors /\ Queue /\ Thread /\ HomeOK
    BY <1>8 DEF PageOK, Following
  <2>2. Asked'
    <3>1. \A m \in DOMAIN asks' : \E p \in DOMAIN asks : Alike(asks'[m], asks[p])
      BY <1>1 DEF Alike
    <3>2. QED
      BY <1>1, <1>2, <1>7, <2>1, <3>1, AsksGoOn
  <2>3. Cursors'
    BY <1>1, <1>2, <2>1 DEF Cursors
  <2>4. Queue'
    BY <1>1, <1>4, <1>7, <2>1 DEF Queue, InTurn, Precedes
  <2>5. Thread'
    BY <1>1, <1>2, <1>7, <2>1, WholeMore DEF Thread
  <2>6. HomeOK'
    <3>1. ASSUME ~ws.stale, NEW j \in Heard PROVE Accounted(j)'
      <4>1. shown \in SUBSET (1 .. Len(messages)) /\ Whole(shown, Here, Heard, Lost)
        BY <1>2, <2>1 DEF Thread, PageTypeOK, BoardTypeOK
      <4>2. \A m \in Heard : m <= LastId => m \in shown \/ m \in Lost
        BY <1>2, <4>1, BelowLast DEF LastId
      <4>3. j \in Nat
        BY <1>2
      <4>4. j <= LastId \/ j > LastId
        BY <1>2, <4>3
      <4>5. j > LastId => j \in Lost'
        BY <1>1, <1>3, <3>1 DEF Lost
      <4>6. QED
        BY <1>1, <1>7, <4>2, <4>4, <4>5 DEF Accounted
    <3>2. QED
      BY <1>2, <1>4, <3>1 DEF HomeOK
  <2>7. QED
    BY <2>2, <2>3, <2>4, <2>5, <2>6 DEF Following
<1>9. QED
  BY <1>1, <1>2, <1>5, <1>6, <1>8 DEF PageOK

LEMMA HomeOpensOK ==
    ASSUME PageOK, reader = "home", reader' = reader, HomeOpens
    PROVE  PageOK'
<1>1. /\ ws.st = "joined" /\ ws' = [ws EXCEPT !.st = "open"]
      /\ UNCHANGED <<messages, cur, shown, asks, timer, closing, faults, excused, stray>>
  BY DEF HomeOpens
<1>2. /\ BoardTypeOK /\ PageTypeOK /\ SocketOK /\ Known /\ BoardTypeOK'
      /\ Here' = Here /\ Heard' = Heard /\ Known' /\ LastId' = LastId
  BY <1>1, StillThere DEF PageOK, Known, LastId
<1>3. /\ ws' \in Sockets /\ ws'.group = ws.group /\ ws'.st = "open" /\ ws'.inbox = ws.inbox
      /\ ws'.stale = ws.stale /\ ws # NoSocket
  BY <1>1, <1>2 DEF PageTypeOK, Sockets, NoSocket
<1>4. PageTypeOK'
  BY <1>1, <1>2, <1>3 DEF PageTypeOK
<1>5. SocketOK'
  BY <1>1, <1>2, <1>3 DEF SocketOK, Told, Visible
<1>6. ASSUME cur # None PROVE Following'
  <2>1. Asked /\ Cursors /\ Queue /\ Thread /\ HomeOK
    BY <1>6 DEF PageOK, Following
  <2>2. Asked' /\ Cursors' /\ Queue' /\ Thread'
    BY <1>1, <1>2, <1>3, <2>1 DEF Asked, Cursors, Queue, Thread, Lost
  <2>3. \A j : Accounted(j)' <=> Accounted(j)
    BY <1>1, <1>3 DEF Accounted, Lost
  <2>4. HomeOK'
    BY <1>1, <1>2, <1>3, <2>1, <2>3 DEF HomeOK
  <2>5. QED
    BY <2>2, <2>4 DEF Following
<1>7. QED
  BY <1>1, <1>2, <1>4, <1>5, <1>6 DEF PageOK

LEMMA HomeMessageOK ==
    ASSUME PageOK, reader = "home", reader' = reader, HomeMessage
    PROVE  PageOK'
<1> DEFINE i == Head(ws.inbox)
<1>1. /\ ws.st = "open" /\ ws.inbox # <<>>
      /\ ws' = [ws EXCEPT !.inbox = Tail(@)]
      /\ shown' = Rendered(shown, {i})
      /\ Misled(ws.stale)
      /\ UNCHANGED <<messages, cur, asks, timer, closing, faults, excused>>
  BY DEF HomeMessage
<1>2. /\ BoardTypeOK /\ PageTypeOK /\ SocketOK /\ Known /\ BoardTypeOK' /\ Known'
      /\ Here' = Here /\ Heard' = Heard /\ ws.stale \in BOOLEAN
  BY <1>1, StillThere, SocketTyped DEF PageOK, Known
<1>3. /\ ws.inbox \in Seq(Nat) /\ i \in Nat /\ Tail(ws.inbox) \in Seq(Nat)
      /\ 1 \in DOMAIN ws.inbox /\ i = ws.inbox[1]
      /\ \A m \in DOMAIN Tail(ws.inbox) :
            m \in Nat /\ m + 1 \in DOMAIN ws.inbox /\ Tail(ws.inbox)[m] = ws.inbox[m + 1]
  BY <1>1, <1>2, SocketTyped, Dequeued
<1>4. /\ ws' \in Sockets /\ ws'.group = ws.group /\ ws'.st = "open"
      /\ ws'.inbox = Tail(ws.inbox) /\ ws'.stale = ws.stale /\ ws.group # None
  <2>1. ws.st = "open" /\ ws' = [ws EXCEPT !.inbox = Tail(@)] /\ PageTypeOK
        /\ Tail(ws.inbox) \in Seq(Nat)
    BY <1>1, <1>2, <1>3
  <2>2. ws' = [group |-> ws.group, st |-> ws.st, inbox |-> Tail(ws.inbox), stale |-> ws.stale]
    <3>1. ws = [group |-> ws.group, st |-> ws.st, inbox |-> ws.inbox, stale |-> ws.stale]
      BY <2>1, SocketTyped
    <3>2. QED
      BY <2>1, <3>1
  <2>3. ws.group \in Projects \cup {None} /\ ws.group # None
    BY <1>2, <2>1, SocketTyped, NoSocketIs DEF SocketOK
  <2>4. QED
    BY <1>2, <2>1, <2>2, <2>3 DEF Sockets
<1>5. SocketOK'
  <2>1. \A m \in DOMAIN ws'.inbox : ws'.inbox[m] \in Told(ws.group)
    BY <1>2, <1>3, <1>4 DEF SocketOK
  <2>2. Told(ws.group)' = Told(ws.group)
    BY <1>1, <1>4 DEF Told, Visible
  <2>3. QED
    BY <1>1, <1>2, <1>4, <2>1, <2>2 DEF SocketOK
<1>6. i \in DOMAIN messages
  BY <1>2, <1>3 DEF SocketOK, Told, Visible
<1> HIDE DEF i
<1>7. /\ Longer /\ LastId \in Nat /\ LastId' \in Nat /\ LastId <= LastId'
      /\ stray' \in Nat /\ (~ws.stale => stray' = stray)
  <2>1. {i} \in SUBSET (DOMAIN messages)
    BY <1>6
  <2>2. QED
    BY <1>1, <1>2, <2>1, RenderedLonger, Grows
<1>8. PageTypeOK'
  BY <1>1, <1>2, <1>4, <1>7 DEF PageTypeOK, Longer
<1>9. ASSUME cur # None PROVE Following'
  <2>1. /\ Asked /\ Cursors /\ Queue /\ Thread /\ HomeOK
    BY <1>9 DEF PageOK, Following
  <2>2. ASSUME ~ws.stale
        PROVE  /\ Sound(shown', Here, Lost') /\ Whole(shown', Here, Heard, Lost')
               /\ \A j \in Heard' : Accounted(j)'
    <3>1. /\ ws.group = cur /\ InTurn(ws.inbox, excused)
          /\ \A j \in Heard : Accounted(j)
      BY <1>1, <2>1, <2>2 DEF HomeOK, Queue
    <3>2. Lost' = Lost
      BY <1>1, <1>7, <2>2 DEF Lost
    <3>3. /\ Sound(shown', Here, Lost) /\ Whole(shown', Here, Heard, Lost)
          /\ \A j \in Heard : j \in shown' \/ j \in Lost \/ Among(j, Tail(ws.inbox))
      BY <1>1, <1>2, <2>1, <3>1, LiveShown DEF i
    <3>4. QED
      BY <1>2, <1>4, <3>2, <3>3 DEF Accounted
  <2>3. Asked'
    BY <1>1, <1>2, <2>1 DEF Asked
  <2>4. Cursors'
    <3>1. \A m \in DOMAIN asks' : \E p \in DOMAIN asks : Alike(asks'[m], asks[p])
      BY <1>1 DEF Alike
    <3>2. QED
      BY <1>2, <1>7, <2>1, <3>1, CursorsStay
  <2>5. Queue'
    <3>1. ASSUME ~ws.stale
          PROVE  /\ ws.group = cur /\ InTurn(Tail(ws.inbox), excused)
                 /\ \A k \in DOMAIN asks :
                       ~asks[k].stale => Precedes(asks[k].held, Tail(ws.inbox), excused)
      <4>1. /\ ws.group = cur /\ InTurn(ws.inbox, excused)
            /\ \A k \in DOMAIN asks :
                  ~asks[k].stale => Precedes(asks[k].held, ws.inbox, excused)
        BY <2>1, <3>1 DEF Queue
      <4>2. InTurn(Tail(ws.inbox), excused)
        BY <1>1, <1>3, <4>1, DequeuedInTurn
      <4>3. \A k \in DOMAIN asks :
                ~asks[k].stale => Precedes(asks[k].held, Tail(ws.inbox), excused)
        BY <1>3, <4>1 DEF Precedes
      <4>4. QED
        BY <4>1, <4>2, <4>3
    <3>2. QED
      BY <1>1, <1>4, <3>1 DEF Queue
  <2>6. Thread'
    BY <1>1, <1>2, <1>7, <2>1, <2>2, ThreadGrows
  <2>7. HomeOK'
    BY <1>4, <2>2 DEF HomeOK
  <2>8. QED
    BY <2>3, <2>4, <2>5, <2>6, <2>7 DEF Following
<1>10. QED
  BY <1>1, <1>2, <1>5, <1>8, <1>9 DEF PageOK

LEMMA HomeClosesOK ==
    ASSUME PageOK, reader = "home", reader' = reader, HomeCloses
    PROVE  PageOK'
<1>1. /\ \/ ws.st \in {"dropped", "revoked"} /\ ws' = [ws EXCEPT !.st = "none"]
            /\ closing' = closing
         \/ closing > 0 /\ closing' = closing - 1 /\ ws' = ws
      /\ timer' = (timer \/ cur # None)
      /\ UNCHANGED <<messages, cur, shown, asks, faults, excused, stray>>
  BY DEF HomeCloses
<1>2. /\ BoardTypeOK /\ PageTypeOK /\ SocketOK /\ Known /\ BoardTypeOK' /\ Known'
      /\ Here' = Here /\ Heard' = Heard /\ LastId' = LastId
  BY <1>1, StillThere DEF PageOK, Known, LastId
<1>3. /\ ws' \in Sockets /\ ws'.group = ws.group /\ ws'.inbox = ws.inbox
      /\ ws'.stale = ws.stale
      /\ ws'.st = ws.st \/ (ws'.st = "none" /\ ws.st \in {"dropped", "revoked"})
      /\ ws'.group = None => ws' = NoSocket
  <2>1. CASE ws' = ws
    BY <1>2, <2>1 DEF PageTypeOK, SocketOK
  <2>2. CASE ws.st \in {"dropped", "revoked"} /\ ws' = [ws EXCEPT !.st = "none"]
    <3>1. ws' \in Sockets /\ ws'.group = ws.group /\ ws'.inbox = ws.inbox /\ ws'.st = "none"
          /\ ws'.stale = ws.stale
      BY <1>2, <2>2 DEF PageTypeOK, Sockets
    <3>2. ws.group # None
      BY <1>2, <2>2, NoSocketIs DEF SocketOK
    <3>3. QED
      BY <2>2, <3>1, <3>2
  <2>3. QED
    BY <1>1, <2>1, <2>2
<1>4. closing' \in Nat
  BY <1>1, <1>2 DEF PageTypeOK
<1>5. PageTypeOK'
  BY <1>1, <1>2, <1>3, <1>4 DEF PageTypeOK
<1>6. SocketOK'
  <2>1. Told(ws.group)' = Told(ws.group)
    BY <1>1, <1>3 DEF Told, Visible
  <2>2. ws'.st \notin {"joined", "open"} => ws.st \notin {"joined", "open"}
    BY <1>3
  <2>3. QED
    BY <1>2, <1>3, <2>1, <2>2 DEF SocketOK
<1>7. ASSUME cur # None PROVE Following'
  <2>1. Asked /\ Cursors /\ Queue /\ Thread /\ HomeOK
    BY <1>7 DEF PageOK, Following
  <2>2. Asked' /\ Cursors' /\ Queue' /\ Thread'
    BY <1>1, <1>2, <1>3, <2>1 DEF Asked, Cursors, Queue, Thread, Lost
  <2>3. \A j : Accounted(j)' <=> Accounted(j)
    BY <1>1, <1>3 DEF Accounted, Lost
  <2>4. HomeOK'
    BY <1>1, <1>2, <1>3, <2>1, <2>3 DEF HomeOK
  <2>5. QED
    BY <2>2, <2>4 DEF Following
<1>8. QED
  BY <1>1, <1>2, <1>5, <1>6, <1>7 DEF PageOK

LEMMA PollFiresOK ==
    ASSUME PageOK, reader = "home", reader' = reader, PollFires
    PROVE  PageOK'
<1> DEFINE r == Request("poll", cur, LastId)
<1>1. /\ cur # None /\ Ask(r)
      /\ UNCHANGED <<messages, cur, shown, ws, timer, closing, faults, excused, stray>>
  BY DEF PollFires
<1>2. /\ BoardTypeOK /\ PageTypeOK /\ SocketOK /\ Known /\ BoardTypeOK' /\ cur \in Projects
      /\ Here' = Here /\ Heard' = Heard /\ LastId' = LastId /\ LastId \in Nat
  BY <1>1, StillThere, LastIdIs DEF PageOK, PageTypeOK, LastId
<1>3. /\ r \in Asks /\ r.kind = "poll" /\ r.group = cur /\ r.after = LastId
      /\ r.got = {} /\ r.held = <<>> /\ \A V, T, E : AskOK(r, V, T, E)
  BY <1>2, RequestIs, RequestOK
<1> HIDE DEF r
<1>4. /\ asks' \in Seq(Asks) /\ DOMAIN asks' = DOMAIN asks \cup {Len(asks) + 1}
      /\ \A m \in DOMAIN asks : asks'[m] = asks[m]
      /\ asks'[Len(asks) + 1] = r
  BY <1>1, <1>2, <1>3, AsksAdded
<1>5. PageTypeOK'
  BY <1>1, <1>2, <1>4 DEF PageTypeOK
<1>6. SocketOK'
  BY <1>1, <1>2, SocketStays
<1>7. DOMAIN r.held = {}
  BY <1>3
<1>8. Known'
  BY <1>1, <1>2, <1>3, <1>4, <1>7 DEF Known
<1>9. Following'
  <2>1. /\ Asked /\ Cursors /\ Queue /\ Thread /\ HomeOK
    BY <1>1 DEF PageOK, Following
  <2>2. Asked'
    <3>1. \A m \in DOMAIN asks : ~asks[m].stale =>
                                 /\ asks[m].group = cur' /\ AskOK(asks[m], Here', Heard', excused')
                                 /\ asks[m].kind = "post" => asks[m].after \in DOMAIN messages'
                                                /\ messages'[asks[m].after].group = cur'
      BY <1>1, <1>2, <2>1, AsksStand
    <3>2. QED
      BY <1>1, <1>3, <1>4, <3>1 DEF Asked
  <2>3. Cursors'
    BY <1>2, <1>3, <1>4, <2>1 DEF Cursors
  <2>4. Queue'
    BY <1>1, <1>3, <1>4, <1>7, <2>1 DEF Queue, Precedes
  <2>5. Thread' /\ HomeOK'
    BY <1>1, <1>2, <2>1, HomeStays DEF Thread, Lost
  <2>6. QED
    BY <1>1, <2>2, <2>3, <2>4, <2>5 DEF Following
<1>10. QED
  BY <1>1, <1>2, <1>5, <1>6, <1>8, <1>9 DEF PageOK

LEMMA PollArrivesOK ==
    ASSUME PageOK, reader = "home", reader' = reader, NEW k \in DOMAIN asks, PollArrives(k)
    PROVE  PageOK'
<1> DEFINE a == asks[k]
<1>1. /\ a.kind = "poll" /\ asks' = RemoveAt(asks, k) /\ shown' = Rendered(shown, a.got)
      /\ Misled(a.stale)
      /\ UNCHANGED <<messages, cur, ws, timer, closing, faults, excused>>
  BY DEF PollArrives, Answered
<1>2. /\ BoardTypeOK /\ PageTypeOK /\ SocketOK /\ Known /\ a \in Asks /\ a.stale \in BOOLEAN
      /\ Here' = Here /\ Heard' = Heard /\ BoardTypeOK'
      /\ a.got \subseteq DOMAIN messages
  BY <1>1, StillThere, AskTyped DEF PageOK, Known
<1>3. /\ asks' \in Seq(Asks)
      /\ \A m \in DOMAIN asks' : \E p \in DOMAIN asks : asks'[m] = asks[p]
  BY <1>1, <1>2, AsksRemoved
<1>4. \A m \in DOMAIN asks' : \E p \in DOMAIN asks : Alike(asks'[m], asks[p])
  BY <1>3 DEF Alike
<1>5. ASSUME cur # None
      PROVE  /\ Asked /\ Cursors /\ Queue /\ Thread /\ HomeOK
             /\ ~a.stale => AskOK(a, Here, Heard, excused) /\ a.after <= LastId
  BY <1>1, <1>5 DEF PageOK, Following, Asked, Cursors
<1> HIDE DEF a
<1>6. /\ Longer /\ LastId' \in Nat /\ LastId <= LastId'
      /\ stray' \in Nat /\ (~a.stale => stray' = stray)
  BY <1>1, <1>2, RenderedLonger, Grows
<1>7. PageTypeOK'
  BY <1>1, <1>2, <1>3, <1>6 DEF PageTypeOK, Longer
<1>8. SocketOK'
  BY <1>1, <1>2, SocketStays
<1>9. Known' /\ (Asked => Asked')
  BY <1>1, <1>2, <1>4, AsksGoOn
<1>10. ASSUME cur # None PROVE Following'
  <2>1. Asked /\ Cursors /\ Queue /\ Thread /\ HomeOK
    BY <1>5, <1>10
  <2>2. ASSUME ~a.stale
        PROVE  Sound(shown', Here, Lost') /\ Whole(shown', Here, Heard, Lost')
    <3>1. AskOK(a, Here, Heard, excused) /\ a.kind # "post" /\ a.after <= LastId
      BY <1>1, <1>5, <1>10, <2>2
    <3>2. Lost' = Lost
      BY <1>1, <1>6, <2>2 DEF Lost
    <3>3. QED
      BY <1>1, <1>2, <2>1, <3>1, <3>2, AnswerShown
  <2>3. Thread' /\ Lost \subseteq Lost'
    BY <1>1, <1>2, <1>6, <2>1, <2>2, ThreadGrows
  <2>4. Cursors' /\ Queue'
    BY <1>1, <1>2, <1>4, <1>6, <2>1, CursorsStay, QueueStays
  <2>5. HomeOK'
    BY <1>1, <1>2, <1>6, <2>1, <2>3, HomeStays DEF Longer
  <2>6. QED
    BY <1>1, <1>9, <2>1, <2>3, <2>4, <2>5 DEF Following
<1>11. QED
  BY <1>1, <1>2, <1>7, <1>8, <1>9, <1>10 DEF PageOK

\* What was told below the own post has been passed over with it.
LEMMA PostArrivesOK ==
    ASSUME PageOK, reader = "home", reader' = reader, NEW k \in DOMAIN asks, PostArrives(k)
    PROVE  PageOK'
<1> DEFINE a == asks[k]
           more == IF a.stale \/ a.st = "failed" THEN {}
                   ELSE {i \in Told(cur) : LastId < i /\ i < a.after}
<1>1. /\ a.kind = "post" /\ asks' = RemoveAt(asks, k) /\ shown' = Rendered(shown, a.got)
      /\ Misled(a.stale) /\ excused' = excused \cup more
      /\ UNCHANGED <<messages, cur, ws, timer, closing, faults>>
  BY DEF PostArrives, Answered, Excuse
<1>2. /\ BoardTypeOK /\ PageTypeOK /\ SocketOK /\ Known /\ a \in Asks /\ a.after \in Nat
      /\ a.stale \in BOOLEAN
      /\ Here' = Here /\ Heard' = Heard /\ BoardTypeOK' /\ LastId \in Nat
      /\ Len(messages) \in Nat /\ Here \in SUBSET (1 .. Len(messages))
      /\ Heard \subseteq Here
      /\ a.got \subseteq DOMAIN messages /\ DOMAIN messages = 1 .. Len(messages)
  BY <1>1, StillThere, LastIdIs, AskTyped DEF PageOK, Known
<1>3. /\ asks' \in Seq(Asks)
      /\ \A m \in DOMAIN asks' : \E p \in DOMAIN asks : asks'[m] = asks[p]
  BY <1>1, <1>2, AsksRemoved
<1>4. \A m \in DOMAIN asks' : \E p \in DOMAIN asks : Alike(asks'[m], asks[p])
  BY <1>3 DEF Alike
<1>5. /\ more \subseteq DOMAIN messages
      /\ \A j \in Heard : /\ ~a.stale /\ a.st # "failed" /\ LastId < j /\ j < a.after
                          => j \in more
  BY DEF Told, Visible, Heard
<1>6. ASSUME cur # None
      PROVE  /\ Asked /\ Cursors /\ Queue /\ Thread /\ HomeOK
             /\ ~a.stale => AskOK(a, Here, Heard, excused)
  BY <1>6 DEF PageOK, Following, Asked
<1> HIDE DEF a, more
<1>7. /\ Longer /\ LastId' \in Nat /\ LastId <= LastId'
      /\ stray' \in Nat /\ (~a.stale => stray' = stray)
  BY <1>1, <1>2, RenderedLonger, Grows
<1>8. PageTypeOK'
  BY <1>1, <1>2, <1>3, <1>5, <1>7 DEF PageTypeOK, Longer
<1>9. SocketOK'
  BY <1>1, <1>2, SocketStays
<1>10. Known' /\ (Asked => Asked') /\ excused \subseteq excused'
  BY <1>1, <1>2, <1>4, AsksGoOn
<1>11. ASSUME cur # None PROVE Following'
  <2>1. /\ Asked /\ Cursors /\ Queue /\ Thread /\ HomeOK
    BY <1>6, <1>11
  <2>2. ASSUME ~a.stale
        PROVE  Sound(shown', Here, Lost') /\ Whole(shown', Here, Heard, Lost')
    <3>1. AskOK(a, Here, Heard, excused) /\ Lost \subseteq Lost'
      BY <1>6, <1>7, <1>10, <1>11, <2>2 DEF Lost
    <3>2. Sound(shown, Here, Lost') /\ Whole(shown, Here, Heard, Lost')
      BY <2>1, <3>1, WholeMore DEF Thread
    <3>3. a.got \in SUBSET Here /\ \A i \in a.got : i = a.after /\ i \in Heard
      BY <1>1, <3>1 DEF AskOK
    <3>4. ASSUME NEW i \in a.got, NEW j \in Here, LastId < j, j < i
          PROVE  Excusable(j, Heard, Lost')
      <4>1. i = a.after /\ i \in Heard /\ a.st = "answered"
        BY <3>1, <3>3, <3>4 DEF AskOK
      <4>2. CASE j \in Heard
        <5>1. j \in more
          BY <1>5, <2>2, <3>4, <4>1, <4>2
        <5>2. QED
          BY <1>1, <5>1 DEF Excusable, Lost
      <4>3. CASE j \notin Heard
        BY <3>4, <4>1, <4>3 DEF Excusable, Overtaken
      <4>4. QED
        BY <4>2, <4>3
    <3>5. \A i \in a.got, j \in Here :
              LastOf(shown) < j /\ j < i => j \in a.got \/ Excusable(j, Heard, Lost')
      BY <3>4 DEF LastId
    <3>6. shown \in SUBSET (1 .. Len(messages))
      BY <1>2 DEF PageTypeOK
    <3>7. QED
      BY <1>1, <1>2, <3>2, <3>3, <3>5, <3>6, WholeRendered
  <2>3. Thread' /\ Lost \subseteq Lost'
    BY <1>1, <1>2, <1>7, <1>10, <2>1, <2>2, ThreadGrows
  <2>4. Cursors' /\ Queue'
    BY <1>1, <1>2, <1>4, <1>7, <1>10, <2>1, CursorsStay, QueueStays
  <2>5. HomeOK'
    BY <1>1, <1>2, <1>7, <2>1, <2>3, HomeStays DEF Longer
  <2>6. QED
    BY <1>1, <1>10, <2>1, <2>3, <2>4, <2>5 DEF Following
<1>12. QED
  BY <1>1, <1>2, <1>8, <1>9, <1>10, <1>11 DEF PageOK

LEMMA PagePostOK ==
    ASSUME PageOK, reader = "home", reader' = reader, PagePost
    PROVE  PageOK'
<1> DEFINE r == Request("post", cur, Len(messages) + 1)
<1>1. /\ cur \in Mine /\ Insert(cur, "me", FALSE) /\ Ask(r)
      /\ UNCHANGED <<cur, shown, ws, timer, closing, faults, excused, stray>>
  BY DEF PagePost
<1>2. cur \in Projects /\ "me" \in Authors /\ cur # None
  BY <1>1, PageAssumption, BoardAssumption
<1>3. /\ BoardTypeOK /\ PageTypeOK /\ SocketOK /\ Known /\ Len(messages) \in Nat /\ LastId \in Nat
  BY StillIds, LastIdIs DEF PageOK
<1>4. /\ BoardTypeOK'
      /\ DOMAIN messages' = DOMAIN messages \cup {Len(messages) + 1}
      /\ \A i \in DOMAIN messages : messages'[i] = messages[i]
      /\ messages'[Len(messages) + 1] =
           [group |-> cur, by |-> "me", calls |-> FALSE, stage |-> "sent"]
  BY <1>1, <1>2, <1>3, Insertion
<1>5. \A g : Visible(g)' = Visible(g) /\ Told(g)' = Told(g)
  BY <1>1, <1>2, <1>3, InsertedUnseen
<1>6. Here' = Here /\ Heard' = Heard /\ LastId' = LastId
  <2>1. PICK g : g = cur
    OBVIOUS
  <2>2. Visible(g)' = Visible(g) /\ Told(g)' = Told(g)
    BY <1>5
  <2>3. QED
    BY <1>1, <2>1, <2>2 DEF Here, Heard, LastId
<1>7. /\ r \in Asks /\ r.kind = "post" /\ r.group = cur /\ r.after = Len(messages) + 1
      /\ r.got = {} /\ r.held = <<>> /\ \A V, T, E : AskOK(r, V, T, E)
  BY <1>2, <1>3, RequestIs, RequestOK
<1> HIDE DEF r
<1>8. /\ asks' \in Seq(Asks) /\ DOMAIN asks' = DOMAIN asks \cup {Len(asks) + 1}
      /\ \A m \in DOMAIN asks : asks'[m] = asks[m]
      /\ asks'[Len(asks) + 1] = r
  BY <1>1, <1>3, <1>7, AsksAdded
<1>9. PageTypeOK'
  BY <1>1, <1>3, <1>4, <1>8 DEF PageTypeOK
<1>10. SocketOK'
  <2>1. PICK g : g = ws.group
    OBVIOUS
  <2>2. Told(g)' = Told(g)
    BY <1>5
  <2>3. ws'.group = g /\ Told(ws.group)' = Told(g)'
    BY <1>1, <2>1
  <2>4. QED
    BY <1>1, <1>3, <2>1, <2>2, <2>3 DEF SocketOK
<1>11. DOMAIN r.held = {}
  BY <1>7
<1>12. Known'
  BY <1>3, <1>4, <1>7, <1>8, <1>11 DEF Known
<1>13. Following'
  <2>1. /\ Asked /\ Cursors /\ Queue /\ Thread /\ HomeOK
    BY <1>2 DEF PageOK, Following
  <2>2. Asked'
    <3>1. \A m \in DOMAIN asks : ~asks[m].stale =>
                                 /\ asks[m].group = cur' /\ AskOK(asks[m], Here', Heard', excused')
                                 /\ asks[m].kind = "post" => asks[m].after \in DOMAIN messages'
                                                /\ messages'[asks[m].after].group = cur'
      BY <1>1, <1>4, <1>6, <2>1 DEF Asked
    <3>2. messages'[Len(messages) + 1].group = cur
      BY <1>4
    <3>3. QED
      BY <1>1, <1>4, <1>7, <1>8, <3>1, <3>2 DEF Asked
  <2>3. Cursors'
    BY <1>6, <1>7, <1>8, <2>1 DEF Cursors
  <2>4. Queue'
    BY <1>1, <1>7, <1>8, <1>11, <2>1 DEF Queue, Precedes
  <2>5. Thread' /\ HomeOK'
    BY <1>1, <1>6, <2>1, HomeStays DEF Thread, Lost
  <2>6. QED
    BY <1>1, <2>2, <2>3, <2>4, <2>5 DEF Following
<1>14. QED
  BY <1>1, <1>4, <1>9, <1>10, <1>12, <1>13 DEF PageOK

LEMMA HomeShowFeedOK ==
    ASSUME PageOK, reader = "home", reader' = reader, HomeShowFeed
    PROVE  PageOK'
<1>1. /\ faults > 0 /\ faults' = faults - 1 /\ cur' = None /\ ws' = NoSocket /\ timer' = FALSE
      /\ closing' = closing + (IF ws.st # "none" THEN 1 ELSE 0)
      /\ UNCHANGED <<messages, shown, asks, excused, stray>>
  BY DEF HomeShowFeed, Spend, StopLive
<1>2. BoardTypeOK /\ PageTypeOK /\ Known /\ BoardTypeOK' /\ Known'
  BY <1>1 DEF PageOK, BoardTypeOK, Known
<1>3. PageTypeOK'
  <2>1. faults' \in 0 .. MaxFaults /\ closing' \in Nat
    BY <1>1, <1>2, PageAssumption DEF PageTypeOK
  <2>2. QED
    BY <1>1, <1>2, <2>1, NoSocketIs DEF PageTypeOK
<1>4. SocketOK'
  BY <1>1, NoSocketIs DEF SocketOK
<1>5. QED
  BY <1>1, <1>2, <1>3, <1>4 DEF PageOK

LEMMA HomeStepOK ==
    ASSUME PageOK, reader = "home", reader' = reader, HomeNext
    PROVE  PageOK'
BY AroundOK, HomeJoinOK, OpenGroupOK, HomeHistoryArrivesOK, PollArrivesOK, PostArrivesOK,
   HomeOpensOK, HomeMessageOK, HomeClosesOK, PollFiresOK, PagePostOK, HomeShowFeedOK
   DEF HomeNext
-----------------------------------------------------------------------------
(* All readers: the one at work satisfies its invariant, the others have not *)
(* begun.                                                                    *)

ReadersInv ==
    /\ BoardTypeOK
    /\ reader \in {"classic", "home", "watcher", "responder", "scanner", "tools"}
    /\ IF reader \in {"classic", "home"} THEN PageOK ELSE PageInit
    /\ IF reader = "watcher" THEN WatcherInv ELSE WatcherInit
    /\ IF reader = "responder" THEN RInv ELSE ResponderInit
    /\ IF reader = "scanner" THEN ScannerInv ELSE ScannerInit
    /\ IF reader = "tools" THEN ToolsInv /\ ToolsTypeOK ELSE ToolsInit

LEMMA PageInitTyped ==
    ASSUME PageInit
    PROVE  PageTypeOK
<1>1. MaxFaults \in 0 .. MaxFaults
  BY PageAssumption
<1>2. asks \in Seq(Asks)
  BY DEF PageInit
<1>3. ws \in Sockets
  BY NoSocketIs DEF PageInit
<1>4. closing \in Nat /\ timer \in BOOLEAN /\ stray \in Nat
  BY DEF PageInit
<1>5. faults \in 0 .. MaxFaults
  BY <1>1 DEF PageInit
<1>6. cur \in Projects \cup {None} /\ shown \subseteq DOMAIN messages /\ excused \subseteq DOMAIN messages
  BY DEF PageInit
<1>7. QED
  BY <1>2, <1>3, <1>4, <1>5, <1>6 DEF PageTypeOK

LEMMA PageInitial ==
    ASSUME BoardInit, PageInit
    PROVE  PageOK
<1>1. BoardTypeOK
  BY DEF BoardInit, BoardTypeOK
<1>2. asks = <<>> /\ ws = NoSocket /\ cur = None /\ faults = MaxFaults /\ asks \in Seq(Asks)
  BY DEF PageInit
<1>3. PageTypeOK
  BY PageInitTyped
<1>4. SocketOK /\ Known
  BY <1>2, NoSocketIs DEF SocketOK, Known
<1>5. QED
  BY <1>1, <1>2, <1>3, <1>4 DEF PageOK

LEMMA ToolsTyped ==
    ASSUME ToolsInit
    PROVE  ToolsTypeOK
<1>1. ToolsInv
  BY InitOK
<1>2. posts \in 0 .. PostLimit /\ turns \in 0 .. MaxTurns
  BY ToolsAssumption DEF ToolsInit
<1>3. QED
  BY <1>1, <1>2 DEF ToolsInv, TablesOK, CallsOK, ToolsTypeOK

\* What the tools do to the board, and the counters.
LEMMA ToolsStay ==
    ASSUME BoardTypeOK, ToolsInv, ToolsTypeOK, ToolsNext
    PROVE  BoardTypeOK' /\ ToolsTypeOK'
<1>1. posts \in Nat /\ turns \in Nat /\ posts <= PostLimit /\ turns <= MaxTurns
      /\ PostLimit \in Nat /\ MaxTurns \in Nat
  BY ToolsAssumption DEF ToolsTypeOK
<1>2. BoardTypeOK' /\ posts' \in 0 .. PostLimit /\ turns' \in 0 .. MaxTurns
  <2>1. ASSUME messages' = messages
        PROVE  BoardTypeOK'
    BY <2>1 DEF BoardTypeOK
  <2>2. ASSUME posts' = posts PROVE posts' \in 0 .. PostLimit
    BY <1>1, <2>2
  <2>3. ASSUME turns' = turns PROVE turns' \in 0 .. MaxTurns
    BY <1>1, <2>3
  <2>4. ASSUME turns > 0, turns' = turns - 1 PROVE turns' \in 0 .. MaxTurns
    BY <1>1, <2>4
  <2>5. ASSUME Turn PROVE BoardTypeOK' /\ posts' \in 0 .. PostLimit /\ turns' \in 0 .. MaxTurns
    BY <2>1, <2>2, <2>4, <2>5 DEF Turn
  <2>6. CASE \E g \in Projects : \/ \E r \in {None, "member", "admin"} : Membership(g, r)
                                 \/ \E o \in Options : Standing(g, o)
                                 \/ \E mode \in Modes : AskDial(g, mode)
    BY <2>5, <2>6 DEF Membership, Standing, AskDial
  <2>7. CASE \E t \in turning : SetDial(t)
    BY <2>5, <2>7 DEF SetDial
  <2>8. CASE MinutePasses
    <3>1. posts' \in 0 .. PostLimit
      BY <1>1, <2>8 DEF MinutePasses
    <3>2. QED
      BY <2>1, <2>3, <2>8, <3>1 DEF MinutePasses
  <2>9. ASSUME NEW c \in ToolCalls,
               \/ \E kind \in Kinds, g \in Projects : StartCall(c, kind, g)
               \/ ListMyProjects(c) \/ ReadProject(c) \/ ReadMembership(c)
               \/ ReadMessages(c) \/ CallFails(c)
        PROVE  BoardTypeOK' /\ posts' \in 0 .. PostLimit /\ turns' \in 0 .. MaxTurns
    <3>1. messages' = messages /\ posts' = posts /\ turns' = turns
      BY <2>9 DEF StartCall, ListMyProjects, ReadProject, ReadMembership, ReadMessages, CallFails
    <3>2. QED
      BY <2>1, <2>2, <2>3, <3>1
  <2>10. ASSUME NEW c \in ToolCalls, ReadMode(c)
         PROVE  BoardTypeOK' /\ posts' \in 0 .. PostLimit /\ turns' \in 0 .. MaxTurns
    <3>1. /\ posts' = posts \/ (posts < PostLimit /\ posts' = posts + 1)
          /\ messages' = messages /\ turns' = turns
      BY <2>10 DEF ReadMode, AllowPost
    <3>2. posts' \in 0 .. PostLimit
      BY <1>1, <3>1
    <3>3. QED
      BY <2>1, <2>3, <3>1, <3>2
  <2>11. ASSUME NEW c \in ToolCalls, Act(c)
         PROVE  BoardTypeOK' /\ posts' \in 0 .. PostLimit /\ turns' \in 0 .. MaxTurns
    <3>1. call[c].at = "act" /\ Insert(call[c].group, "agent", FALSE) /\ posts' = posts
          /\ turns' = turns
      BY <2>11 DEF Act
    <3>2. call[c].group \in Projects
      BY <3>1 DEF ToolsInv, CallsOK, Learnt
    <3>3. BoardTypeOK'
      BY <3>1, <3>2, ToolsAssumption, Insertion
    <3>4. QED
      BY <2>2, <2>3, <3>1, <3>3
  <2>12. ASSUME NEW i \in DOMAIN messages, ActEnds(i)
         PROVE  BoardTypeOK' /\ posts' \in 0 .. PostLimit /\ turns' \in 0 .. MaxTurns
    <3>1. posts' = posts /\ turns' = turns
      BY <2>12 DEF ActEnds, toolsVars
    <3>2. \E s \in Stages : Stage(i, s)
      BY <2>12 DEF ActEnds, Commit, Rollback, Tell, Stages
    <3>3. BoardTypeOK'
      BY <3>2, Staged
    <3>4. QED
      BY <2>2, <2>3, <3>1, <3>3
  <2>13. CASE ToolsRestart
    <3>1. BoardTypeOK'
      BY <2>13, Restarted DEF ToolsRestart
    <3>2. posts' \in 0 .. PostLimit
      BY <1>1, <2>13 DEF ToolsRestart
    <3>3. QED
      BY <2>4, <2>13, <3>1, <3>2 DEF ToolsRestart
  <2>14. QED
    BY <2>6, <2>7, <2>8, <2>9, <2>10, <2>11, <2>12, <2>13 DEF ToolsNext
<1>3. ToolsInv'
  BY NextOK
<1>4. QED
  BY <1>2, <1>3 DEF ToolsInv, TablesOK, CallsOK, ToolsTypeOK

\* Who has not begun stays where it is.
LEMMA Unbegun ==
    /\ PageInit /\ UNCHANGED pageVars => PageInit'
    /\ WatcherInit /\ UNCHANGED watcherVars => WatcherInit'
    /\ ResponderInit /\ UNCHANGED responderVars => ResponderInit'
    /\ ScannerInit /\ UNCHANGED scannerVars => ScannerInit'
    /\ ToolsInit /\ UNCHANGED toolsVars => ToolsInit'
<1>1. PageInit /\ UNCHANGED pageVars => PageInit'
  BY DEF PageInit, pageVars
<1>2. WatcherInit /\ UNCHANGED watcherVars => WatcherInit'
  BY DEF WatcherInit, watcherVars
<1>3. ResponderInit /\ UNCHANGED responderVars => ResponderInit'
  BY DEF ResponderInit, responderVars
<1>4. ScannerInit /\ UNCHANGED scannerVars => ScannerInit'
  BY DEF ScannerInit, scannerVars
<1>5. ToolsInit /\ UNCHANGED toolsVars => ToolsInit'
  BY DEF ToolsInit, toolsVars
<1>6. QED
  BY <1>1, <1>2, <1>3, <1>4, <1>5

LEMMA ReadersInitial ==
    ASSUME Init
    PROVE  ReadersInv
<1>1. BoardTypeOK /\ BoardInit
  BY DEF Init, BoardInit, BoardTypeOK
<1>2. PageOK /\ WatcherInv /\ RInv /\ ScannerInv /\ ToolsInv /\ ToolsTypeOK
  BY <1>1, PageInitial, WatcherInitial, InitRInv, ScannerInitial, InitOK, ToolsTyped DEF Init
<1>3. QED
  BY <1>1, <1>2 DEF Init, ReadersInv

LEMMA PageStays ==
    ASSUME PageOK, UNCHANGED <<messages, pageVars, reader>>
    PROVE  PageOK'
<1>1. UNCHANGED <<messages, cur, shown, ws, asks, timer, closing, faults, excused, stray, reader>>
  BY DEF pageVars
<1>2. BoardTypeOK' /\ PageTypeOK' /\ SocketOK' /\ Known'
  BY <1>1, SocketStays DEF PageOK, BoardTypeOK, PageTypeOK, Known
<1>3. ASSUME cur # None PROVE Following'
  <2>1. Following /\ Here' = Here /\ Heard' = Heard /\ LastId' = LastId
    BY <1>1, <1>3, StillThere DEF PageOK, LastId
  <2>2. (Backfilled' <=> Backfilled) /\ Lost' = Lost /\ \A j : Accounted(j)' <=> Accounted(j)
    BY <1>1 DEF Backfilled, Backfilling, Accounted, Lost
  <2>3. Asked' /\ Cursors' /\ Queue' /\ Thread'
    BY <1>1, <2>1, <2>2 DEF Following, Asked, Cursors, Queue, Thread
  <2>4. reader = "classic" => ClassicOK'
    BY <1>1, <2>1, <2>2 DEF Following, ClassicOK, Backfilling
  <2>5. reader = "home" => HomeOK'
    BY <1>1, <2>1, <2>2 DEF Following, HomeOK
  <2>6. QED
    BY <1>1, <2>3, <2>4, <2>5 DEF Following
<1>4. QED
  BY <1>1, <1>2, <1>3 DEF PageOK

LEMMA ReadersInductive ==
    ASSUME ReadersInv, [Next]_vars
    PROVE  ReadersInv'
<1>1. CASE UNCHANGED vars
  <2>1. /\ UNCHANGED messages /\ UNCHANGED reader /\ UNCHANGED pageVars /\ UNCHANGED watcherVars
        /\ UNCHANGED responderVars /\ UNCHANGED scannerVars /\ UNCHANGED toolsVars
    BY <1>1 DEF vars
  <2>2. /\ PageOK => PageOK'
        /\ WatcherInv => WatcherInv'
        /\ RInv => RInv'
        /\ ScannerInv => ScannerInv'
        /\ ToolsInv => ToolsInv'
    BY <2>1, PageStays, WatcherInductive, NextRInv, ScannerInductive, NextOK
  <2>3. BoardTypeOK' /\ (ToolsTypeOK => ToolsTypeOK')
    BY <2>1 DEF ReadersInv, BoardTypeOK, ToolsTypeOK, toolsVars
  <2>4. QED
    BY <2>1, <2>2, <2>3, Unbegun DEF ReadersInv
<1>2. CASE reader = "classic" /\ Next
  <2>1. /\ reader' = reader /\ ClassicNext /\ PageOK
        /\ UNCHANGED watcherVars /\ UNCHANGED responderVars /\ UNCHANGED scannerVars
        /\ UNCHANGED toolsVars
    BY <1>2 DEF Next, ReadersInv
  <2>2. PageOK' /\ BoardTypeOK'
    BY <1>2, <2>1, ClassicStepOK DEF PageOK
  <2>3. QED
    BY <1>2, <2>1, <2>2, Unbegun DEF ReadersInv
<1>3. CASE reader = "home" /\ Next
  <2>1. /\ reader' = reader /\ HomeNext /\ PageOK
        /\ UNCHANGED watcherVars /\ UNCHANGED responderVars /\ UNCHANGED scannerVars
        /\ UNCHANGED toolsVars
    BY <1>3 DEF Next, ReadersInv
  <2>2. PageOK' /\ BoardTypeOK'
    BY <1>3, <2>1, HomeStepOK DEF PageOK
  <2>3. QED
    BY <1>3, <2>1, <2>2, Unbegun DEF ReadersInv
<1>4. CASE reader = "watcher" /\ Next
  <2>1. /\ reader' = reader /\ WatcherNext /\ WatcherInv
        /\ UNCHANGED pageVars /\ UNCHANGED responderVars /\ UNCHANGED scannerVars
        /\ UNCHANGED toolsVars
    BY <1>4 DEF Next, ReadersInv
  <2>2. WatcherInv' /\ BoardTypeOK'
    BY <2>1, WatcherInductive DEF WatcherInv
  <2>3. QED
    BY <1>4, <2>1, <2>2, Unbegun DEF ReadersInv
<1>5. CASE reader = "responder" /\ Next
  <2>1. /\ reader' = reader /\ ResponderNext /\ RInv /\ UNCHANGED messages
        /\ UNCHANGED pageVars /\ UNCHANGED watcherVars /\ UNCHANGED scannerVars
        /\ UNCHANGED toolsVars
    BY <1>5 DEF Next, ReadersInv
  <2>2. RInv' /\ BoardTypeOK'
    BY <2>1, NextRInv DEF ReadersInv, BoardTypeOK
  <2>3. QED
    BY <1>5, <2>1, <2>2, Unbegun DEF ReadersInv
<1>6. CASE reader = "scanner" /\ Next
  <2>1. /\ reader' = reader /\ ScannerNext /\ ScannerInv
        /\ UNCHANGED pageVars /\ UNCHANGED watcherVars /\ UNCHANGED responderVars
        /\ UNCHANGED toolsVars
    BY <1>6 DEF Next, ReadersInv
  <2>2. ScannerInv' /\ BoardTypeOK'
    BY <2>1, ScannerInductive DEF ScannerInv
  <2>3. QED
    BY <1>6, <2>1, <2>2, Unbegun DEF ReadersInv
<1>7. CASE reader = "tools" /\ Next
  <2>1. /\ reader' = reader /\ ToolsNext /\ ToolsInv /\ ToolsTypeOK /\ BoardTypeOK
        /\ UNCHANGED pageVars /\ UNCHANGED watcherVars /\ UNCHANGED responderVars
        /\ UNCHANGED scannerVars
    BY <1>7 DEF Next, ReadersInv
  <2>2. ToolsInv' /\ ToolsTypeOK' /\ BoardTypeOK'
    BY <2>1, NextOK, ToolsStay
  <2>3. QED
    BY <1>7, <2>1, <2>2, Unbegun DEF ReadersInv
<1>8. QED
  BY <1>1, <1>2, <1>3, <1>4, <1>5, <1>6, <1>7 DEF ReadersInv

\* Whoever reads the board, its own invariant holds.
THEOREM ReadersInvariant == Spec => []ReadersInv
BY ReadersInitial, ReadersInductive, PTL DEF Spec

LEMMA AllTyped ==
    ASSUME ReadersInv
    PROVE  TypeOK
<1>1. PageTypeOK
  BY PageInitTyped DEF ReadersInv, PageOK
<1>2. WatcherTypeOK
  <2>1. WatcherInit => WatcherTypeOK
    <3>1. SUFFICES ASSUME WatcherInit PROVE WatcherTypeOK
      OBVIOUS
    <3>2. 0 \in 0 .. MaxChain /\ 0 \in 0 .. HourlyCap /\ 0 \in 0 .. MaxLives
      BY WatcherAssumption
    <3>3. doing \in {"off", "asleep", "reading", "asking", "running"}
          /\ (doing \in {"asking", "running"} <=> batch # {})
      BY <3>1 DEF WatcherInit
    <3>4. lastSeen \in [Watched -> Nat \cup {None}] /\ answers \in [Watched -> Nat]
          /\ chain \in [Watched -> 0 .. MaxChain]
      BY <3>1, <3>2 DEF WatcherInit
    <3>5. hour \in 0 .. HourlyCap /\ lives \in 0 .. MaxLives
      BY <3>1, <3>2 DEF WatcherInit
    <3>6. QED
      BY <3>1, <3>3, <3>4, <3>5 DEF WatcherInit, WatcherTypeOK
  <2>2. QED
    BY <2>1 DEF ReadersInv, WatcherInv
<1>3. ResponderTypeOK
  BY InitRInv DEF ReadersInv, RInv
<1>4. ScannerTypeOK
  <2>1. ScannerInit => ScannerTypeOK
    BY ScannerAssumption DEF ScannerInit, ScannerTypeOK, PassStates, Idle
  <2>2. QED
    BY <2>1 DEF ReadersInv, ScannerInv, ScanOK, PassesOK, ScannerTypeOK
<1>5. ToolsTypeOK
  BY ToolsTyped DEF ReadersInv
<1>6. QED
  BY <1>1, <1>2, <1>3, <1>4, <1>5 DEF ReadersInv, TypeOK

\* The variables of every reader stay what they are meant to be.
THEOREM ReadersTyped == Spec => []TypeOK
BY AllTyped, ReadersInvariant, PTL

LEMMA ThreadsWhole ==
    ASSUME PageOK
    PROVE  HolesExcused
<1>1. SUFFICES ASSUME cur # None, NEW i \in Told(cur), i < LastId
               PROVE  i \in shown \cup excused \/ i < stray
  BY DEF HolesExcused
<1>2. Thread /\ stray \in Nat
  BY <1>1 DEF PageOK, Following, PageTypeOK
<1>3. i \in Heard /\ i \in Here /\ i \in Nat
  BY <1>1, StillIds DEF PageOK, Heard
<1>4. i \in shown \/ i \in Lost
  BY <1>1, <1>2, <1>3 DEF Thread, Whole, Excusable, LastId
<1>5. CASE i \in 1 .. stray
  BY <1>2, <1>5 DEF Thread
<1>6. QED
  BY <1>4, <1>5 DEF Lost

(* public/app.js: for any number of messages, of requests in flight and of   *)
(* faults, a message that is missing below the last one of the thread was    *)
(* passed over, or stands below one that came on an answer or a socket from  *)
(* before the thread was opened anew (public/app.js:308-333, 383-419,        *)
(* 535-607).                                                                 *)
THEOREM ClassicThreadIsWhole == Spec => []ClassicThreadWhole
<1>1. ReadersInv => ClassicThreadWhole
  BY ThreadsWhole DEF ReadersInv, ClassicThreadWhole
<1>2. QED
  BY <1>1, ReadersInvariant, PTL

(* public/home.js: the same (public/home.js:79-115, 405-429, 498-530).       *)
THEOREM HomeThreadIsWhole == Spec => []HomeThreadWhole
<1>1. ReadersInv => HomeThreadWhole
  BY ThreadsWhole DEF ReadersInv, HomeThreadWhole
<1>2. QED
  BY <1>1, ReadersInvariant, PTL

=============================================================================
