----------------------------- MODULE BridgeProofs -----------------------------
(***************************************************************************)
(* Proofs about one bridge connection.  The inductive invariant says what   *)
(* the characters of the file look like, which of its lines a connection    *)
(* object is about to post, and which it has posted already.                *)
(***************************************************************************)
EXTENDS Bridge, TLAPS, FiniteSetTheorems, SequenceTheorems, WellFoundedInduction

USE DEF Other

\* Only a new-line is a character without text; the old line comes first; an
\* agent begins at the beginning of a line.
FileInv ==
    /\ Len(file) >= 2
    /\ \A i \in DOMAIN file :
        /\ file[i].kind = "newline" <=> file[i] = NL
        /\ file[i].text = None <=> file[i] = NL
        /\ file[i].kind = "old" => i = 1
        /\ file[i].kind = "agent" => i > 1 /\ file[i - 1] = NL
    /\ file[Len(file)] = NL \/ (writing /\ file[Len(file) - 1] = NL)

\* The agent's whole lines.
Lines == {k \in DOMAIN file : /\ k < Len(file)
                              /\ file[k].kind = "agent"
                              /\ file[k + 1] = NL}

\* What the log says of lines of the file.
LogInv ==
    \A m \in DOMAIN log : log[m].via # Other =>
        /\ log[m].line \in Lines
        /\ log[m].text = file[log[m].line].text
        /\ log[m].via <= cur

SavedInv == saved # None => saved >= 1 /\ saved <= Size

Offsets(c) ==
    /\ conn[c].offset <= Size /\ conn[c].upto <= Size
    /\ conn[c].stop = "no" => conn[c].offset >= 1
    /\ conn[c].batch # {} => conn[c].offset >= 1 /\ conn[c].upto >= conn[c].offset

Batches(c) ==
    /\ conn[c].req = "none" <=> conn[c].batch = {}
    /\ \A k \in conn[c].batch : k \in Lines /\ k > conn[c].offset
    /\ conn[c].req # "none" => file[Current(conn[c])].text \in conn[c].marks
    /\ conn[c].req = "landed" =>
        /\ conn[c].id \in DOMAIN log
        /\ log[conn[c].id].via = c
        /\ log[conn[c].id].line = Current(conn[c])

\* The object knows which messages are its own.
Echoes(c) ==
    conn[c].pc # "off" =>
        \A m \in DOMAIN log : log[m].via = c =>
            /\ log[m].answer = "ok" => m \in conn[c].posted
            /\ log[m].answer = "pending" => conn[c].req = "landed" /\ conn[c].id = m

\* Object c posted line k, by message n if that is not the end of the log.
PostedBy(c, k, n) == \E l \in 1 .. n : log[l].via = c /\ log[l].line = k

\* A line that may still be posted though a later one was, was posted before
\* that; the lines of the batch are all there are to post in between.
Replays(c) ==
    conn[c].stop = "no" \/ conn[c].batch # {} =>
        \A k \in Lines : k > conn[c].offset =>
            /\ \A m \in DOMAIN log :
                 log[m].via = c /\ k < log[m].line => PostedBy(c, k, m)
            /\ \A b \in conn[c].batch :
                 k < b => k \in conn[c].batch \/ PostedBy(c, k, Len(log))

Queued(c) == conn[c].queue \in Seq(DOMAIN log)
Newest(c) == c > cur => conn[c] = Gone

BridgeInv ==
    /\ TypeOK /\ FileInv /\ LogInv /\ SavedInv
    /\ \A c \in Conns : /\ Offsets(c) /\ Batches(c) /\ Echoes(c) /\ Replays(c)
                        /\ Queued(c) /\ Newest(c)
    /\ PostsInFileOrder

-----------------------------------------------------------------------------
(* Positions in the file, and sizes.                                         *)

LEMMA Least ==
    ASSUME NEW S \in SUBSET Nat, S # {}
    PROVE  \E n \in S : \A m \in S : n <= m
<1> DEFINE T == {0 .. n : n \in S}
<1>1. T \subseteq FiniteSubsetsOf(Nat)
  <2>1. \A n \in S : IsFiniteSet(0 .. n) /\ (0 .. n) \subseteq Nat
    BY FS_Interval
  <2>2. QED
    BY <2>1 DEF FiniteSubsetsOf
<1>2. T # {}
  OBVIOUS
<1>3. \E x \in T : \A y \in T : ~ (<<y, x>> \in StrictSubsetOrdering(Nat))
  <2> HIDE DEF T
  <2>1. QED
    BY <1>1, <1>2, WFMin, FS_StrictSubsetOrderingWellFounded
<1>4. PICK n \in S : \A m \in S : ~ (<<0 .. m, 0 .. n>> \in StrictSubsetOrdering(Nat))
  BY <1>3
<1>5. ASSUME NEW m \in S, m < n PROVE FALSE
  <2>1. <<0 .. m, 0 .. n>> \in StrictSubsetOrdering(Nat)
    <3>1. (0 .. m) \in SUBSET Nat /\ (0 .. n) \in SUBSET Nat /\ (0 .. m) \subseteq (0 .. n)
          /\ 0 .. m # 0 .. n
      BY <1>5
    <3>2. QED
      BY <3>1 DEF StrictSubsetOrdering
  <2>2. QED
    BY <1>4, <2>1
<1>6. QED
  BY <1>5

LEMMA CurrentIs ==
    ASSUME NEW cn, cn.batch \in SUBSET Nat, cn.batch # {}
    PROVE  /\ Current(cn) \in cn.batch /\ Current(cn) \in Nat
           /\ \A l \in cn.batch : Current(cn) <= l
<1>1. \E k \in cn.batch : \A l \in cn.batch : k <= l
  <2> DEFINE S == cn.batch
  <2> HIDE DEF S
  <2>1. S \in SUBSET Nat /\ S # {}
    BY DEF S
  <2>2. \E k \in S : \A l \in S : k <= l
    BY <2>1, Least
  <2>3. QED
    BY <2>2 DEF S
<1>2. QED
  BY <1>1 DEF Current

LEMMA WideCount ==
    ASSUME NEW from \in Nat, NEW to \in Nat, NEW n \in Nat, from <= to, to <= n
    PROVE  /\ Bytes(from, to) \in Nat /\ Bytes(from, to) >= to - from
           /\ from + Bytes(from, to) <= Bytes(0, n)
<1> DEFINE A == {i \in from+1 .. to : file[i].text \in Wide}
           B == {i \in 0+1 .. n : file[i].text \in Wide}
<1>1. A \subseteq B
  OBVIOUS
<1>2. IsFiniteSet(B)
  <2>1. IsFiniteSet(1 .. n)
    BY FS_Interval
  <2>2. QED
    BY <2>1, FS_Subset
<1>3. IsFiniteSet(A) /\ Cardinality(A) <= Cardinality(B)
  BY <1>1, <1>2, FS_Subset
<1>4. Cardinality(A) \in Nat /\ Cardinality(B) \in Nat
  BY <1>2, <1>3, FS_CardinalityType
<1>5. Bytes(from, to) = to - from + Cardinality(A) /\ Bytes(0, n) = n - 0 + Cardinality(B)
  BY DEF Bytes
<1>6. QED
  <2> HIDE DEF A, B
  <2>1. QED
    BY <1>3, <1>4, <1>5

LEMMA LastNLIs ==
    ASSUME file \in Seq([kind : {"old", "agent", "group", "newline"}, text : Texts \cup {None}]),
           FileInv
    PROVE  /\ LastNL \in DOMAIN file /\ LastNL \in 1 .. Len(file)
           /\ file[LastNL] = NL
<1>1. \E n \in DOMAIN file : file[n] = NL /\ \A i \in n+1 .. Len(file) : file[i] # NL
  <2>1. CASE file[Len(file)] = NL
    <3>1. Len(file) \in DOMAIN file /\ \A i \in Len(file)+1 .. Len(file) : FALSE
      BY DEF FileInv
    <3>2. QED
      BY <2>1, <3>1
  <2>2. CASE file[Len(file)] # NL
    <3>1. Len(file) - 1 \in DOMAIN file /\ file[Len(file) - 1] = NL
      BY <2>2 DEF FileInv
    <3>2. \A i \in (Len(file)-1)+1 .. Len(file) : i = Len(file)
      OBVIOUS
    <3>3. QED
      BY <2>2, <3>1, <3>2
  <2>3. QED
    BY <2>1, <2>2
<1>2. QED
  BY <1>1 DEF LastNL

Chars == [kind : {"old", "agent", "group", "newline"}, text : Texts \cup {None}]

\* The file is only ever appended to.
Grew ==
    /\ file \in Seq(Chars) /\ file' \in Seq(Chars)
    /\ Len(file) <= Len(file')
    /\ \A i \in 1 .. Len(file) : file'[i] = file[i]

LEMMA Growth ==
    ASSUME Grew
    PROVE  /\ Size \in Nat /\ Size' \in Nat /\ Size <= Size'
           /\ \A k \in Lines : k \in Lines' /\ file'[k] = file[k] /\ k < Len(file) /\ k \in Nat
           /\ \A k \in Lines' : k \in Nat /\ (k \in Lines \/ k >= Len(file))
<1>1. Len(file) \in Nat /\ Len(file') \in Nat
  BY DEF Grew
<1>2. Size \in Nat /\ Size' \in Nat /\ Size <= Size'
  <2> DEFINE A == {i \in 0+1 .. Len(file) : file[i].text \in Wide}
             B == {i \in 0+1 .. Len(file') : file'[i].text \in Wide}
  <2>1. A \subseteq B
    BY DEF Grew
  <2>2. IsFiniteSet(B)
    <3>1. IsFiniteSet(1 .. Len(file'))
      BY <1>1, FS_Interval
    <3>2. QED
      BY <3>1, FS_Subset
  <2>3. IsFiniteSet(A) /\ Cardinality(A) <= Cardinality(B)
    BY <2>1, <2>2, FS_Subset
  <2>4. Cardinality(A) \in Nat /\ Cardinality(B) \in Nat
    BY <2>2, <2>3, FS_CardinalityType
  <2>5. Size = Len(file) - 0 + Cardinality(A) /\ Size' = Len(file') - 0 + Cardinality(B)
    BY DEF Size, Bytes
  <2>6. Len(file) <= Len(file')
    BY DEF Grew
  <2>7. QED
    <3> HIDE DEF A, B
    <3>1. QED
      BY <1>1, <2>3, <2>4, <2>5, <2>6
<1>3. \A k \in Lines : k \in Lines' /\ file'[k] = file[k] /\ k < Len(file) /\ k \in Nat
  <2>1. SUFFICES ASSUME NEW k \in Lines
                 PROVE  k \in Lines' /\ file'[k] = file[k] /\ k < Len(file) /\ k \in Nat
    OBVIOUS
  <2>2. k \in 1 .. Len(file) /\ k < Len(file) /\ k + 1 \in 1 .. Len(file)
    BY <1>1 DEF Lines, Grew
  <2>3. file'[k] = file[k] /\ file'[k + 1] = file[k + 1]
    BY <2>2 DEF Grew
  <2>4. k \in DOMAIN file' /\ k < Len(file')
    BY <1>1, <2>2 DEF Grew
  <2>5. QED
    BY <2>2, <2>3, <2>4 DEF Lines
<1>4. \A k \in Lines' : k \in Nat /\ (k \in Lines \/ k >= Len(file))
  <2>1. SUFFICES ASSUME NEW k \in Lines', k < Len(file) PROVE k \in Lines
    <3>1. \A k \in Lines' : k \in Nat
      BY <1>1 DEF Lines, Grew
    <3>2. QED
      BY <1>1, <2>1, <3>1
  <2>2. k \in 1 .. Len(file') /\ file'[k].kind = "agent" /\ file'[k + 1] = NL'
    BY DEF Lines, Grew
  <2>3. k \in 1 .. Len(file) /\ k + 1 \in 1 .. Len(file)
    BY <1>1, <2>1, <2>2
  <2>4. file'[k] = file[k] /\ file'[k + 1] = file[k + 1]
    BY <2>3 DEF Grew
  <2>5. k \in DOMAIN file
    BY <2>3 DEF Grew
  <2>6. NL' = NL
    BY DEF NL, Char
  <2>7. QED
    BY <2>1, <2>2, <2>4, <2>5, <2>6 DEF Lines
<1>5. QED
  BY <1>2, <1>3, <1>4

-----------------------------------------------------------------------------
(* What a step leaves alone.                                                 *)

\* Of the messages that object c posted, none is new and none is changed.
LogKept(c) ==
    /\ Len(log) \in Nat /\ Len(log') \in Nat /\ Len(log) <= Len(log')
    /\ DOMAIN log = 1 .. Len(log) /\ DOMAIN log' = 1 .. Len(log')
    /\ \A m \in 1 .. Len(log') :
         log'[m].via = c => m \in 1 .. Len(log) /\ log'[m] = log[m]
    /\ \A m \in 1 .. Len(log) : log[m].via = c => log'[m] = log[m]

\* Object c does in this step no more than stop, lose its socket and marks.
Bystands(c) ==
    /\ \/ conn'[c].stop = conn[c].stop
       \/ conn'[c].stop # "no"
    /\ \/ conn'[c].pc = "off"
       \/ conn[c].pc # "off"
    /\ conn'[c].offset = conn[c].offset /\ conn'[c].upto = conn[c].upto
    /\ conn'[c].batch = conn[c].batch
    /\ conn'[c].req = conn[c].req /\ conn'[c].id = conn[c].id
    /\ conn'[c].posted = conn[c].posted
    /\ \/ conn'[c].marks = conn[c].marks
       \/ conn[c].req # "none" => file[Current(conn[c])].text \in conn'[c].marks

LEMMA PostedByKept ==
    ASSUME NEW c, LogKept(c), NEW k, NEW n \in 1 .. Len(log), PostedBy(c, k, n)
    PROVE  PostedBy(c, k, n)'
BY DEF PostedBy, LogKept

LEMMA PostedByAll ==
    ASSUME NEW c, LogKept(c), NEW k, PostedBy(c, k, Len(log))
    PROVE  PostedBy(c, k, Len(log))'
BY DEF PostedBy, LogKept

LEMMA BatchTyped ==
    ASSUME NEW c \in Conns, Batches(c), Len(file) \in Nat, file \in Seq(Chars)
    PROVE  conn[c].batch \in SUBSET Nat
BY DEF Batches, Lines

LEMMA Bystander ==
    ASSUME NEW c \in Conns, Grew, LogKept(c), Bystands(c), conn \in [Conns -> ConnRecord],
           Offsets(c), Batches(c), Echoes(c), Replays(c), LogInv, c # Other
    PROVE  Offsets(c)' /\ Batches(c)' /\ Echoes(c)' /\ Replays(c)'
<1>1. conn[c] \in ConnRecord
  OBVIOUS
<1>2. Offsets(c)'
  <2>1. conn[c].offset \in Nat /\ conn[c].upto \in Nat
    BY <1>1 DEF ConnRecord
  <2>2. conn'[c].stop = "no" => conn[c].stop = "no"
    BY DEF Bystands
  <2>3. QED
    BY <2>1, <2>2, Growth DEF Offsets, Bystands
<1>3. Batches(c)'
  <2>1. (conn'[c].req = "none" <=> conn'[c].batch = {})
        /\ \A k \in conn'[c].batch : k \in Lines' /\ k > conn'[c].offset
    BY Growth DEF Batches, Bystands
  <2>2. Current(conn'[c]) = Current(conn[c])
    BY DEF Current, Bystands
  <2>3. ASSUME conn'[c].req # "none"
        PROVE  file'[Current(conn'[c])].text \in conn'[c].marks
    <3>1. conn[c].req # "none" /\ conn[c].batch # {}
      BY <2>3 DEF Bystands, Batches
    <3>2. conn[c].batch \in SUBSET Nat
      BY <1>1 DEF ConnRecord
    <3>3. Current(conn[c]) \in conn[c].batch
      BY <3>1, <3>2, CurrentIs
    <3>4. Current(conn[c]) \in Lines
      BY <3>3 DEF Batches
    <3>5. file'[Current(conn[c])] = file[Current(conn[c])]
      BY <3>4, Growth
    <3>6. file[Current(conn[c])].text \in conn'[c].marks
      BY <3>1 DEF Bystands, Batches
    <3>7. QED
      BY <2>2, <3>5, <3>6
  <2>4. ASSUME conn'[c].req = "landed"
        PROVE  /\ conn'[c].id \in DOMAIN log'
               /\ log'[conn'[c].id].via = c
               /\ log'[conn'[c].id].line = Current(conn'[c])
    <3>1. conn[c].req = "landed"
      BY <2>4 DEF Bystands
    <3>2. conn[c].id \in 1 .. Len(log) /\ log[conn[c].id].via = c
          /\ log[conn[c].id].line = Current(conn[c])
      BY <3>1 DEF Batches, LogKept
    <3>3. log'[conn[c].id] = log[conn[c].id] /\ conn[c].id \in DOMAIN log'
      BY <3>2 DEF LogKept
    <3>4. QED
      BY <2>2, <3>2, <3>3 DEF Bystands
  <2>5. QED
    BY <2>1, <2>3, <2>4 DEF Batches
<1>4. Echoes(c)'
  <2>1. SUFFICES ASSUME conn'[c].pc # "off", NEW m \in DOMAIN log', log'[m].via = c
                 PROVE  /\ log'[m].answer = "ok" => m \in conn'[c].posted
                        /\ log'[m].answer = "pending" => conn'[c].req = "landed" /\ conn'[c].id = m
    BY DEF Echoes
  <2>2. m \in DOMAIN log /\ log'[m] = log[m]
    BY <2>1 DEF LogKept
  <2>3. conn[c].pc # "off"
    BY <2>1 DEF Bystands
  <2>4. QED
    BY <2>1, <2>2, <2>3 DEF Echoes, Bystands
<1>5. Replays(c)'
  <2>1. SUFFICES ASSUME conn'[c].stop = "no" \/ conn'[c].batch # {},
                        NEW k \in Lines', k > conn'[c].offset
                 PROVE  /\ \A m \in DOMAIN log' :
                             log'[m].via = c /\ k < log'[m].line => PostedBy(c, k, m)'
                        /\ \A b \in conn'[c].batch :
                             k < b => k \in conn'[c].batch \/ PostedBy(c, k, Len(log))'
    BY DEF Replays
  <2>2. conn[c].stop = "no" \/ conn[c].batch # {}
    BY <2>1 DEF Bystands
  <2>3. ASSUME NEW m \in DOMAIN log', log'[m].via = c, k < log'[m].line
        PROVE  PostedBy(c, k, m)'
    <3>1. m \in 1 .. Len(log) /\ log'[m] = log[m] /\ log[m].via = c
      BY <2>3 DEF LogKept
    <3>2. log[m].line \in Lines
      BY <3>1 DEF LogInv, LogKept
    <3>3. k \in Lines
      <4>1. log[m].line < Len(file) /\ log[m].line \in Nat
        BY <3>2, Growth
      <4>2. k < log[m].line
        BY <2>3, <3>1
      <4>3. QED
        BY <2>1, <4>1, <4>2, Growth DEF Grew
    <3>4. PostedBy(c, k, m)
      BY <2>1, <2>2, <2>3, <3>1, <3>3 DEF Replays, Bystands, LogKept
    <3>5. QED
      BY <3>1, <3>4, PostedByKept
  <2>4. ASSUME NEW b \in conn'[c].batch, k < b
        PROVE  k \in conn'[c].batch \/ PostedBy(c, k, Len(log))'
    <3>1. b \in conn[c].batch /\ b \in Lines
      BY <2>4 DEF Bystands, Batches
    <3>2. k \in Lines
      BY <2>1, <2>4, <3>1, Growth DEF Grew
    <3>3. k \in conn[c].batch \/ PostedBy(c, k, Len(log))
      BY <2>1, <2>2, <2>4, <3>1, <3>2 DEF Replays, Bystands
    <3>4. QED
      BY <3>3, PostedByAll DEF Bystands
  <2>5. QED
    BY <2>3, <2>4
<1>6. QED
  BY <1>2, <1>3, <1>4, <1>5

\* A log that only the others wrote to, and a file that grew, keep what the log
\* says of lines.
LEMMA LogInvKept ==
    ASSUME Grew, LogInv, cur \in Nat, cur' \in Nat, cur <= cur',
           \A m \in DOMAIN log : log[m].via # Other => log[m].via \in Nat,
           \A m \in DOMAIN log' : log'[m].via # Other =>
              /\ m \in DOMAIN log /\ log[m].via = log'[m].via
              /\ log[m].line = log'[m].line /\ log[m].text = log'[m].text
    PROVE  LogInv'
<1>1. SUFFICES ASSUME NEW m \in DOMAIN log', log'[m].via # Other
               PROVE  /\ log'[m].line \in Lines'
                      /\ log'[m].text = file'[log'[m].line].text
                      /\ log'[m].via <= cur'
  BY DEF LogInv
<1>2. m \in DOMAIN log /\ log[m].via = log'[m].via
      /\ log[m].line = log'[m].line /\ log[m].text = log'[m].text
  BY <1>1
<1>3. log[m].line \in Lines /\ log[m].text = file[log[m].line].text /\ log[m].via <= cur
  BY <1>1, <1>2 DEF LogInv
<1>4. log[m].line \in Lines' /\ file'[log[m].line] = file[log[m].line]
  BY <1>3, Growth
<1>5. QED
  BY <1>1, <1>2, <1>3, <1>4

LEMMA SameFile ==
    ASSUME TypeOK, file' = file
    PROVE  Grew
BY DEF TypeOK, Grew, Chars

LEMMA SameLog ==
    ASSUME TypeOK, log' = log, NEW c
    PROVE  LogKept(c)
BY DEF TypeOK, LogKept

LEMMA LogTyped ==
    ASSUME TypeOK
    PROVE  /\ Len(log) \in Nat /\ DOMAIN log = 1 .. Len(log)
           /\ \A m \in DOMAIN log :
                /\ log[m].via \in Nat /\ log[m].line \in Nat /\ log[m].text \in Texts
                /\ log[m].via \in Conns \cup {Other}
                /\ log[m].answer \in {"pending", "ok", "lost"}
<1> DEFINE M == [via : Conns \cup {Other}, line : Nat, text : Texts,
                 answer : {"pending", "ok", "lost"}]
<1>1. \A v \in Conns \cup {Other} : v \in Nat
  BY DEF Conns
<1>2. log \in Seq(M)
  BY DEF TypeOK
<1>3. Len(log) \in Nat /\ DOMAIN log = 1 .. Len(log)
  <2> HIDE DEF M
  <2>1. QED
    BY <1>2
<1>4. \A m \in 1 .. Len(log) : log[m] \in M
  <2> HIDE DEF M
  <2>1. QED
    BY <1>2, ElementOfSeq
<1>5. \A x \in M : x.via \in Nat /\ x.line \in Nat /\ x.text \in Texts
                  /\ x.via \in Conns \cup {Other} /\ x.answer \in {"pending", "ok", "lost"}
  <2>1. TAKE x \in M
  <2>2. x.via \in Conns \cup {Other} /\ x.line \in Nat /\ x.text \in Texts
        /\ x.answer \in {"pending", "ok", "lost"}
    OBVIOUS
  <2>3. x.via \in Nat
    <3> HIDE DEF M
    <3>1. QED
      BY <1>1, <2>2
  <2>4. QED
    BY <2>2, <2>3
<1>6. QED
  <2> HIDE DEF M
  <2>1. QED
    BY <1>3, <1>4, <1>5

LEMMA ConnsAre ==
    ASSUME NEW c \in Conns
    PROVE  c \in Nat /\ c # Other
BY DEF Conns

LEMMA Sized ==
    ASSUME TypeOK
    PROVE  /\ Len(file) \in Nat /\ Size \in Nat /\ Size >= Len(file)
           /\ file \in Seq(Chars) /\ DOMAIN file = 1 .. Len(file)
<1>1. Len(file) \in Nat /\ file \in Seq(Chars) /\ DOMAIN file = 1 .. Len(file)
  BY DEF TypeOK, Chars
<1>2. Bytes(0, Len(file)) \in Nat /\ Bytes(0, Len(file)) >= Len(file) - 0
  BY <1>1, WideCount
<1>3. QED
  BY <1>1, <1>2 DEF Size

\* A step that posts nothing, and after which every object is as it was but for
\* its socket, its queue and whether it goes on.
LEMMA QuietStep ==
    ASSUME BridgeInv, TypeOK', Grew, FileInv', cur' = cur, saved' = saved, log' = log,
           \A c \in Conns : /\ Bystands(c)
                            /\ conn'[c].queue \in Seq(DOMAIN log)
                            /\ c > cur => conn'[c] = Gone
    PROVE  BridgeInv'
<1>1. TypeOK /\ LogInv /\ SavedInv /\ PostsInFileOrder
      /\ cur \in Nat /\ conn \in [Conns -> ConnRecord]
  BY DEF BridgeInv, TypeOK, Conns
<1>2. LogInv'
  BY <1>1, LogTyped, LogInvKept
<1>3. SavedInv'
  <2>1. saved # None => saved \in Nat
    BY <1>1 DEF TypeOK
  <2>2. QED
    BY <1>1, <2>1, Growth DEF SavedInv
<1>4. ASSUME NEW c \in Conns
      PROVE  Offsets(c)' /\ Batches(c)' /\ Echoes(c)' /\ Replays(c)' /\ Queued(c)' /\ Newest(c)'
  <2>1. Offsets(c) /\ Batches(c) /\ Echoes(c) /\ Replays(c)
    BY DEF BridgeInv
  <2>2. LogKept(c)
    BY <1>1, SameLog
  <2>3. Offsets(c)' /\ Batches(c)' /\ Echoes(c)' /\ Replays(c)'
    BY <1>1, <2>1, <2>2, Bystander, ConnsAre
  <2>4. Queued(c)' /\ Newest(c)'
    BY DEF Queued, Newest, Gone
  <2>5. QED
    BY <2>3, <2>4
<1>5. PostsInFileOrder'
  BY <1>1 DEF PostsInFileOrder
<1>6. QED
  BY <1>2, <1>3, <1>4, <1>5 DEF BridgeInv

-----------------------------------------------------------------------------
(* Appending to the file.                                                    *)
LEMMA AppendsOne ==
    ASSUME TypeOK, NEW x \in Chars, file' = Append(file, x)
    PROVE  /\ Grew /\ Len(file') = Len(file) + 1 /\ file'[Len(file) + 1] = x
           /\ \A i \in DOMAIN file' : i \in DOMAIN file \/ i = Len(file) + 1
<1>1. file \in Seq(Chars)
  BY DEF TypeOK, Chars
<1>2. QED
  BY <1>1 DEF Grew

LEMMA AppendsTwo ==
    ASSUME TypeOK, NEW x \in Chars, NEW y \in Chars, file' = file \o <<x, y>>
    PROVE  /\ Grew /\ Len(file') = Len(file) + 2
           /\ file'[Len(file) + 1] = x /\ file'[Len(file) + 2] = y
           /\ \A i \in DOMAIN file' : i \in DOMAIN file \/ i = Len(file) + 1 \/ i = Len(file) + 2
<1>1. file \in Seq(Chars)
  BY DEF TypeOK, Chars
<1>2. <<x, y>> \in Seq(Chars) /\ Len(<<x, y>>) = 2
  OBVIOUS
<1>3. QED
  BY <1>1, <1>2 DEF Grew

LEMMA AllBystand ==
    ASSUME BridgeInv, conn' = conn
    PROVE  \A c \in Conns : /\ Bystands(c)
                            /\ conn'[c].queue \in Seq(DOMAIN log)
                            /\ c > cur => conn'[c] = Gone
BY DEF BridgeInv, Bystands, Queued, Newest

LEMMA NewlineIs ==
    /\ NL \in Chars /\ NL.kind = "newline" /\ NL.text = None
    /\ NL' = NL
BY DEF NL, Char, Chars

LEMMA OldCharacters ==
    ASSUME Grew, FileInv, NEW i \in DOMAIN file
    PROVE  /\ file'[i].kind = "newline" <=> file'[i] = NL
           /\ file'[i].text = None <=> file'[i] = NL
           /\ file'[i].kind = "old" => i = 1
           /\ file'[i].kind = "agent" => i > 1 /\ file'[i - 1] = NL
<1>1. i \in 1 .. Len(file) /\ file'[i] = file[i]
  BY DEF Grew
<1>2. i > 1 => file'[i - 1] = file[i - 1]
  <2>1. i > 1 => i - 1 \in 1 .. Len(file)
    BY <1>1 DEF Grew
  <2>2. QED
    BY <2>1 DEF Grew
<1>3. QED
  BY <1>1, <1>2 DEF FileInv

LEMMA AgentBeginsKeeps ==
    ASSUME BridgeInv, NEW t \in Texts, AgentBegins(t)
    PROVE  BridgeInv'
<1> USE DEF AgentBegins, Spend
<1>1. TypeOK /\ FileInv /\ ~writing
  BY DEF BridgeInv
<1>2. Char("agent", t) \in Chars /\ Char("agent", t).kind = "agent"
      /\ Char("agent", t).text = t /\ t # None
  BY TextsAssumption DEF Char, Chars
<1>3. /\ Grew /\ Len(file') = Len(file) + 1 /\ file'[Len(file) + 1] = Char("agent", t)
      /\ \A i \in DOMAIN file' : i \in DOMAIN file \/ i = Len(file) + 1
  BY <1>1, <1>2, AppendsOne
<1>4. TypeOK'
  BY <1>1, <1>3, TextsAssumption DEF TypeOK, Grew, Chars
<1>5. FileInv'
  <2>1. file[Len(file)] = NL /\ Len(file) >= 2 /\ Len(file) \in DOMAIN file
    BY <1>1, Sized DEF FileInv
  <2>2. file'[Len(file)] = NL
    BY <1>3, <2>1 DEF Grew
  <2>3. ASSUME NEW i \in DOMAIN file'
        PROVE  /\ file'[i].kind = "newline" <=> file'[i] = NL
               /\ file'[i].text = None <=> file'[i] = NL
               /\ file'[i].kind = "old" => i = 1
               /\ file'[i].kind = "agent" => i > 1 /\ file'[i - 1] = NL
    <3>1. CASE i \in DOMAIN file
      BY <1>1, <1>3, <3>1, OldCharacters
    <3>2. CASE i = Len(file) + 1
      <4>1. file'[i].kind = "agent" /\ file'[i].text = t /\ file'[i] # NL
        BY <1>2, <1>3, <3>2, NewlineIs
      <4>2. i > 1 /\ file'[i - 1] = NL
        BY <1>1, <2>1, <2>2, <3>2, Sized
      <4>3. QED
        BY <1>2, <4>1, <4>2
    <3>3. QED
      BY <1>3, <3>1, <3>2
  <2>4. Len(file') >= 2 /\ writing' /\ file'[Len(file') - 1] = NL
    BY <1>1, <1>3, <2>1, <2>2, Sized
  <2>5. QED
    BY <2>3, <2>4, NewlineIs DEF FileInv
<1>6. QED
  BY <1>3, <1>4, <1>5, AllBystand, QuietStep

LEMMA AgentEndsKeeps ==
    ASSUME BridgeInv, AgentEnds
    PROVE  BridgeInv'
<1> USE DEF AgentEnds
<1>1. TypeOK /\ FileInv
  BY DEF BridgeInv
<1>2. /\ Grew /\ Len(file') = Len(file) + 1 /\ file'[Len(file) + 1] = NL
      /\ \A i \in DOMAIN file' : i \in DOMAIN file \/ i = Len(file) + 1
  BY <1>1, AppendsOne, NewlineIs
<1>3. TypeOK'
  BY <1>1, <1>2 DEF TypeOK, Grew, Chars
<1>4. FileInv'
  <2>1. ASSUME NEW i \in DOMAIN file'
        PROVE  /\ file'[i].kind = "newline" <=> file'[i] = NL
               /\ file'[i].text = None <=> file'[i] = NL
               /\ file'[i].kind = "old" => i = 1
               /\ file'[i].kind = "agent" => i > 1 /\ file'[i - 1] = NL
    <3>1. CASE i \in DOMAIN file
      BY <1>1, <1>2, <3>1, OldCharacters
    <3>2. CASE i = Len(file) + 1
      BY <1>2, <3>2, NewlineIs
    <3>3. QED
      BY <1>2, <3>1, <3>2
  <2>2. Len(file') >= 2 /\ file'[Len(file')] = NL
    BY <1>1, <1>2, Sized DEF FileInv
  <2>3. QED
    BY <2>1, <2>2, NewlineIs DEF FileInv
<1>5. QED
  BY <1>2, <1>3, <1>4, AllBystand, QuietStep

-----------------------------------------------------------------------------
(* Objects and their sockets.                                                *)
LEMMA ConnIs ==
    ASSUME BridgeInv, NEW c \in Conns
    PROVE  /\ conn[c] \in ConnRecord /\ conn \in [Conns -> ConnRecord]
           /\ conn[c].stop \in {"no", "stopped", "dead"}
           /\ conn[c].pc \in {"connecting", "live", "off"}
           /\ conn[c].offset \in Nat /\ conn[c].batch \in SUBSET Nat /\ conn[c].upto \in Nat
           /\ conn[c].req \in {"none", "sent", "landed"} /\ conn[c].id \in Nat
           /\ conn[c].marks \in SUBSET Texts /\ conn[c].posted \in SUBSET Nat
           /\ conn[c].queue \in Seq(Nat) /\ conn[c].queue \in Seq(DOMAIN log)
<1>1. conn \in [Conns -> ConnRecord] /\ conn[c] \in ConnRecord
  BY DEF BridgeInv, TypeOK
<1>2. QED
  BY <1>1 DEF BridgeInv, Queued, ConnRecord

LEMMA SameFileInv ==
    ASSUME BridgeInv, file' = file, writing' = writing
    PROVE  Grew /\ FileInv'
BY SameFile DEF BridgeInv, FileInv, NL, Char

\* A step of object c to record r that leaves the file alone.
LEMMA OneBystands ==
    ASSUME BridgeInv, NEW c \in Conns, NEW r \in ConnRecord, Becomes(c, r),
           UNCHANGED <<file, writing, saved, log, cur>>,
           left' \in 0 .. MaxEvents, skipped' \in BOOLEAN,
           c > cur => r = Gone,
           r.stop = conn[c].stop \/ r.stop # "no",
           r.pc = "off" \/ conn[c].pc # "off",
           r.offset = conn[c].offset, r.upto = conn[c].upto, r.batch = conn[c].batch,
           r.req = conn[c].req, r.id = conn[c].id, r.posted = conn[c].posted,
           r.marks = conn[c].marks,
           r.queue \in Seq(DOMAIN log)
    PROVE  BridgeInv'
<1>1. conn \in [Conns -> ConnRecord]
  BY ConnIs
<1>2. conn'[c] = r /\ \A d \in Conns : d # c => conn'[d] = conn[d]
  BY <1>1 DEF Becomes
<1>3. TypeOK'
  BY <1>1 DEF BridgeInv, TypeOK, Becomes
<1>4. ASSUME NEW d \in Conns
      PROVE  /\ Bystands(d)
             /\ conn'[d].queue \in Seq(DOMAIN log)
             /\ d > cur => conn'[d] = Gone
  <2>1. CASE d = c
    BY <1>2, <2>1 DEF Bystands
  <2>2. CASE d # c
    BY <1>2, <2>2 DEF BridgeInv, Bystands, Queued, Newest
  <2>3. QED
    BY <2>1, <2>2
<1>5. QED
  BY <1>3, <1>4, SameFileInv, QuietStep

LEMMA Running ==
    ASSUME BridgeInv, NEW c \in Conns,
           conn[c].pc # "off" \/ conn[c].stop = "no" \/ conn[c].req # "none"
    PROVE  ~ c > cur
BY DEF BridgeInv, Newest, Gone

LEMMA NoQueue == << >> \in Seq(DOMAIN log) /\ << >> \in Seq(Nat)
OBVIOUS

LEMMA Bounded ==
    ASSUME BridgeInv
    PROVE  /\ left \in 0 .. MaxEvents /\ skipped \in BOOLEAN
           /\ \A n \in {1, 2} : Spend(n) => left' \in 0 .. MaxEvents
<1>1. left \in 0 .. MaxEvents /\ skipped \in BOOLEAN
  BY DEF BridgeInv, TypeOK
<1>2. QED
  BY <1>1, TextsAssumption DEF Spend

LEMMA GoesKeeps ==
    ASSUME BridgeInv, NEW c \in Conns, NEW from \in {"connecting", "live"},
           NEW to \in {"connecting", "live", "off"}, Goes(c, from, to)
    PROVE  BridgeInv'
<1> DEFINE r == [conn[c] EXCEPT !.pc = to, !.queue = <<>>]
<1>1. conn[c] \in ConnRecord
  BY ConnIs
<1>2. r \in ConnRecord
  BY <1>1, NoQueue DEF ConnRecord
<1>3. /\ r.stop = conn[c].stop /\ r.offset = conn[c].offset /\ r.upto = conn[c].upto
      /\ r.batch = conn[c].batch /\ r.req = conn[c].req /\ r.id = conn[c].id
      /\ r.posted = conn[c].posted /\ r.marks = conn[c].marks /\ r.queue = <<>>
  BY <1>1 DEF ConnRecord
<1>4. conn[c].pc # "off" /\ Becomes(c, r)
      /\ UNCHANGED <<file, writing, saved, log, cur, left, skipped>>
  BY DEF Goes
<1>5. QED
  <2> HIDE DEF r
  <2>1. QED
    BY <1>2, <1>3, <1>4, Running, NoQueue, Bounded, OneBystands

LEMMA RejectedKeeps ==
    ASSUME BridgeInv, NEW c \in Conns, Rejected(c)
    PROVE  BridgeInv'
<1> DEFINE r == [conn[c] EXCEPT !.stop = "dead", !.pc = "off", !.queue = <<>>]
<1>1. conn[c] \in ConnRecord
  BY ConnIs
<1>2. r \in ConnRecord
  BY <1>1, NoQueue DEF ConnRecord
<1>3. /\ r.stop = "dead" /\ r.pc = "off" /\ r.offset = conn[c].offset /\ r.upto = conn[c].upto
      /\ r.batch = conn[c].batch /\ r.req = conn[c].req /\ r.id = conn[c].id
      /\ r.posted = conn[c].posted /\ r.marks = conn[c].marks /\ r.queue = <<>>
  BY <1>1 DEF ConnRecord
<1>4. conn[c].pc # "off" /\ Becomes(c, r) /\ Spend(1)
      /\ UNCHANGED <<file, writing, saved, log, cur, skipped>>
  BY DEF Rejected
<1>5. QED
  <2> HIDE DEF r
  <2>1. QED
    BY <1>2, <1>3, <1>4, Running, NoQueue, Bounded, OneBystands

\* What cleanup leaves of object cn.
LEMMA StoppedIs ==
    ASSUME NEW cn \in ConnRecord, NEW how \in {"stopped", "dead"}, NEW r \in Stopped(cn, how)
    PROVE  /\ r \in ConnRecord
           /\ r.stop = how /\ (r.pc = "off" \/ r.pc = cn.pc) /\ r.queue = <<>>
           /\ r.offset = cn.offset /\ r.upto = cn.upto /\ r.batch = cn.batch
           /\ r.req = cn.req /\ r.id = cn.id /\ r.posted = cn.posted /\ r.marks = cn.marks
<1>1. PICK pc \in {"off"} \cup ({cn.pc} \cap {"connecting"}) :
            r = [cn EXCEPT !.stop = how, !.queue = <<>>, !.pc = pc]
  BY DEF Stopped
<1>2. pc = "off" \/ pc = cn.pc
  OBVIOUS
<1>3. pc \in {"connecting", "live", "off"}
  BY <1>2 DEF ConnRecord
<1>4. QED
  BY <1>1, <1>2, <1>3, NoQueue DEF ConnRecord

LEMMA RemoveConnectionKeeps ==
    ASSUME BridgeInv, RemoveConnection
    PROVE  BridgeInv'
<1>1. cur \in Conns /\ conn[cur] \in ConnRecord
  BY ConnIs DEF BridgeInv, TypeOK
<1>2. PICK r \in Stopped(conn[cur], "stopped") : Becomes(cur, r)
  BY DEF RemoveConnection
<1>3. /\ r \in ConnRecord
      /\ r.stop = "stopped" /\ (r.pc = "off" \/ r.pc = conn[cur].pc) /\ r.queue = <<>>
      /\ r.offset = conn[cur].offset /\ r.upto = conn[cur].upto /\ r.batch = conn[cur].batch
      /\ r.req = conn[cur].req /\ r.id = conn[cur].id
      /\ r.posted = conn[cur].posted /\ r.marks = conn[cur].marks
  BY <1>1, StoppedIs
<1>4. Spend(2) /\ UNCHANGED <<file, writing, saved, log, cur, skipped>>
  BY DEF RemoveConnection
<1>5. ~ cur > cur
  BY <1>1 DEF Conns
<1>6. QED
  BY <1>1, <1>2, <1>3, <1>4, <1>5, NoQueue, Bounded, OneBystands

LEMMA DeliverKeeps ==
    ASSUME BridgeInv, NEW c \in Conns, Deliver(c)
    PROVE  BridgeInv'
<1> DEFINE m == Head(conn[c].queue)
<1>1. /\ conn[c] \in ConnRecord /\ conn \in [Conns -> ConnRecord]
      /\ conn[c].queue # <<>> /\ conn[c].pc = "live"
      /\ conn[c].queue \in Seq(DOMAIN log) /\ conn[c].queue \in Seq(Nat)
  BY ConnIs DEF Deliver
<1>2. /\ m \in DOMAIN log /\ Tail(conn[c].queue) \in Seq(DOMAIN log)
      /\ Tail(conn[c].queue) \in Seq(Nat)
  BY <1>1, HeadTailProperties
<1>3. UNCHANGED <<writing, saved, log, cur, left, skipped>>
  BY DEF Deliver
<1>4. TypeOK /\ FileInv
  BY DEF BridgeInv
<1>5. CASE Suppressed(c, m) /\ conn' = [conn EXCEPT ![c].queue = Tail(@)] /\ UNCHANGED file
  <2> DEFINE r == [conn[c] EXCEPT !.queue = Tail(@)]
  <2>1. r \in ConnRecord /\ Becomes(c, r)
    BY <1>1, <1>2, <1>5 DEF ConnRecord, Becomes
  <2>2. /\ r.stop = conn[c].stop /\ r.pc = conn[c].pc /\ r.queue = Tail(conn[c].queue)
        /\ r.offset = conn[c].offset /\ r.upto = conn[c].upto
        /\ r.batch = conn[c].batch /\ r.req = conn[c].req /\ r.id = conn[c].id
        /\ r.posted = conn[c].posted /\ r.marks = conn[c].marks
    BY <1>1 DEF ConnRecord
  <2>3. QED
    <3> HIDE DEF r
    <3>1. QED
      BY <1>1, <1>2, <1>3, <1>5, <2>1, <2>2, Running, Bounded, OneBystands
<1>6. CASE /\ Suppressed(c, m) => Expired(c, m)
           /\ conn' = [conn EXCEPT ![c] = Written(c, m)]
           /\ file' = file \o <<Char("group", log[m].text), NL>>
  <2> DEFINE r == Written(c, m)
             x == Char("group", log[m].text)
  <2>1. log[m].text \in Texts /\ log[m].text # None
    BY <1>2, <1>4, LogTyped, TextsAssumption
  <2>2. x \in Chars /\ x.kind = "group" /\ x.text = log[m].text
    BY <2>1 DEF Char, Chars
  <2>3. /\ Grew /\ Len(file') = Len(file) + 2
        /\ file'[Len(file) + 1] = x /\ file'[Len(file) + 2] = NL
        /\ \A i \in DOMAIN file' : i \in DOMAIN file \/ i = Len(file) + 1 \/ i = Len(file) + 2
    <3> HIDE DEF x
    <3>1. file' = file \o <<x, NL>>
      BY <1>6 DEF x
    <3>2. QED
      BY <1>4, <2>2, <3>1, AppendsTwo, NewlineIs
  <2>4. FileInv'
    <3>1. ASSUME NEW i \in DOMAIN file'
          PROVE  /\ file'[i].kind = "newline" <=> file'[i] = NL
                 /\ file'[i].text = None <=> file'[i] = NL
                 /\ file'[i].kind = "old" => i = 1
                 /\ file'[i].kind = "agent" => i > 1 /\ file'[i - 1] = NL
      <4> HIDE DEF x, m
      <4>1. CASE i \in DOMAIN file
        BY <1>4, <2>3, <4>1, OldCharacters
      <4>2. CASE i = Len(file) + 1
        BY <2>1, <2>2, <2>3, <4>2, NewlineIs
      <4>3. CASE i = Len(file) + 2
        BY <2>3, <4>3, NewlineIs
      <4>4. QED
        BY <2>3, <4>1, <4>2, <4>3
    <3>2. Len(file') >= 2 /\ file'[Len(file')] = NL
      BY <1>4, <2>3, Sized DEF FileInv
    <3>3. QED
      BY <3>1, <3>2, NewlineIs DEF FileInv
  <2>5. r = [conn[c] EXCEPT !.queue = Tail(@), !.marks = @ \ {log[m].text}]
    BY DEF Written
  <2>6. r \in ConnRecord
    <3> HIDE DEF m
    <3>1. QED
      BY <1>1, <1>2, <2>5 DEF ConnRecord, m
  <2>7. /\ r.stop = conn[c].stop /\ r.pc = conn[c].pc /\ r.queue = Tail(conn[c].queue)
        /\ r.offset = conn[c].offset /\ r.upto = conn[c].upto
        /\ r.batch = conn[c].batch /\ r.req = conn[c].req /\ r.id = conn[c].id
        /\ r.posted = conn[c].posted /\ r.marks = conn[c].marks \ {log[m].text}
    <3> HIDE DEF m
    <3>1. QED
      BY <1>1, <2>5 DEF ConnRecord, m
  <2>8. conn'[c] = r /\ \A d \in Conns : d # c => conn'[d] = conn[d]
    BY <1>1, <1>6
  <2>9. conn' \in [Conns -> ConnRecord]
    BY <1>1, <1>6, <2>6
  <2>10. TypeOK'
    BY <1>3, <1>4, <2>3, <2>9 DEF TypeOK, Grew, Chars
  <2>11. conn[c].req # "none" => file[Current(conn[c])].text \in r.marks
    <3>1. conn[c].req # "none" => file[Current(conn[c])].text \in conn[c].marks
      BY DEF BridgeInv, Batches
    <3>2. Suppressed(c, m) => (conn[c].req # "none" => file[Current(conn[c])].text # log[m].text)
      BY <1>6 DEF Expired
    <3>3. ~ Suppressed(c, m) => log[m].text \notin conn[c].marks
      BY DEF Suppressed
    <3>4. QED
      <4> HIDE DEF m, r
      <4>1. QED
        BY <2>7, <3>1, <3>2, <3>3
  <2>12. ASSUME NEW d \in Conns
         PROVE  /\ Bystands(d)
                /\ conn'[d].queue \in Seq(DOMAIN log)
                /\ d > cur => conn'[d] = Gone
    <3> HIDE DEF m, r
    <3>1. CASE d = c
      <4>1. ~ c > cur
        BY <1>1, Running
      <4>2. QED
        BY <1>1, <1>2, <2>7, <2>8, <2>11, <3>1, <4>1 DEF Bystands, m
    <3>2. CASE d # c
      BY <2>8, <3>2 DEF BridgeInv, Bystands, Queued, Newest
    <3>3. QED
      BY <3>1, <3>2
  <2>13. QED
    BY <1>3, <2>3, <2>4, <2>10, <2>12, QuietStep
<1>7. QED
  BY <1>5, <1>6 DEF Deliver

-----------------------------------------------------------------------------
(* Crash, restart, and messages of others.                                   *)
LEMMA GoneIs ==
    /\ Gone \in ConnRecord /\ Gone.stop = "stopped" /\ Gone.pc = "off"
    /\ Gone.offset = 0 /\ Gone.upto = 0 /\ Gone.batch = {} /\ Gone.req = "none"
    /\ Gone.id = 0 /\ Gone.marks = {} /\ Gone.posted = {} /\ Gone.queue = <<>>
BY DEF Gone, ConnRecord

\* An object that has posted nothing and has nothing to post.
LEMMA IdleIs ==
    ASSUME NEW c \in Conns, NEW r, r \in ConnRecord, conn'[c] = r,
           r.batch = {}, r.req = "none", r.offset <= Size', r.upto <= Size',
           r.stop = "no" => r.offset >= 1,
           r.pc = "off" \/ \A m \in DOMAIN log' : log'[m].via # c,
           r.stop # "no" \/ \A m \in DOMAIN log' : log'[m].via # c
    PROVE  Offsets(c)' /\ Batches(c)' /\ Echoes(c)' /\ Replays(c)'
<1>1. Offsets(c)'
  BY DEF Offsets
<1>2. Batches(c)'
  BY DEF Batches
<1>3. Echoes(c)'
  BY DEF Echoes
<1>4. Replays(c)'
  BY DEF Replays
<1>5. QED
  BY <1>1, <1>2, <1>3, <1>4

LEMMA CrashKeeps ==
    ASSUME BridgeInv, Crash
    PROVE  BridgeInv'
<1>1. TypeOK /\ UNCHANGED <<file, writing, saved, log, cur, skipped>> /\ Spend(2)
      /\ conn' = [c \in Conns |-> Gone]
  BY DEF BridgeInv, Crash
<1>2. TypeOK'
  BY <1>1, Bounded, GoneIs DEF TypeOK
<1>3. FileInv'
  BY <1>1, SameFileInv
<1>4. LogInv' /\ SavedInv' /\ PostsInFileOrder' /\ Size' = Size
  BY <1>1 DEF BridgeInv, LogInv, SavedInv, PostsInFileOrder, Lines, Size, Bytes, NL, Char
<1>5. ASSUME NEW c \in Conns
      PROVE  Offsets(c)' /\ Batches(c)' /\ Echoes(c)' /\ Replays(c)' /\ Queued(c)' /\ Newest(c)'
  <2>1. conn'[c] = Gone
    BY <1>1
  <2>2. 0 <= Size'
    BY <1>1, <1>4, Sized
  <2>3. Offsets(c)' /\ Batches(c)' /\ Echoes(c)' /\ Replays(c)'
    BY <2>1, <2>2, GoneIs, IdleIs
  <2>4. Queued(c)' /\ Newest(c)'
    BY <2>1, GoneIs DEF Queued, Newest, Gone
  <2>5. QED
    BY <2>3, <2>4
<1>6. QED
  BY <1>2, <1>3, <1>4, <1>5 DEF BridgeInv

\* The offset a new object starts with.
LEMMA ReadOffsetIs ==
    ASSUME TypeOK, FileInv, SavedInv
    PROVE  ReadOffset \in Nat /\ ReadOffset >= 1 /\ ReadOffset <= Size
BY Sized DEF TypeOK, FileInv, SavedInv, ReadOffset

LEMMA LaunchKeeps ==
    ASSUME BridgeInv, Launch
    PROVE  BridgeInv'
<1> DEFINE n == cur + 1
           r == [Gone EXCEPT !.stop = "no", !.pc = "connecting", !.offset = ReadOffset]
<1>1. TypeOK /\ FileInv /\ LogInv /\ SavedInv /\ conn \in [Conns -> ConnRecord]
      /\ cur \in Nat /\ cur' = n /\ conn' = [conn EXCEPT ![n] = r]
      /\ n \in Conns /\ n \in Nat /\ n > cur
      /\ UNCHANGED <<file, writing, saved, log, left>>
  BY TextsAssumption DEF BridgeInv, TypeOK, Launch, New, Conns
<1>2. ReadOffset \in Nat /\ ReadOffset >= 1 /\ ReadOffset <= Size
  BY <1>1, ReadOffsetIs
<1>3. /\ r \in ConnRecord /\ r.stop = "no" /\ r.pc = "connecting" /\ r.offset = ReadOffset
      /\ r.upto = 0 /\ r.batch = {} /\ r.req = "none" /\ r.queue = <<>>
  BY <1>2, GoneIs DEF Gone, ConnRecord
<1> HIDE DEF r
<1>4. conn'[n] = r /\ \A d \in Conns : d # n => conn'[d] = conn[d]
  BY <1>1
<1>5. skipped' \in BOOLEAN
  BY <1>1 DEF Launch, TypeOK
<1>6. TypeOK'
  BY <1>1, <1>3, <1>5 DEF TypeOK
<1>7. FileInv' /\ Grew
  BY <1>1, SameFileInv
<1>8. SavedInv' /\ PostsInFileOrder' /\ Size' = Size
  BY <1>1 DEF BridgeInv, SavedInv, PostsInFileOrder, Size, Bytes
<1>9. LogInv'
  <2>1. cur' \in Nat /\ cur <= cur'
    BY <1>1
  <2>2. QED
    BY <1>1, <1>7, <2>1, LogTyped, LogInvKept
<1>10. ASSUME NEW c \in Conns
       PROVE  Offsets(c)' /\ Batches(c)' /\ Echoes(c)' /\ Replays(c)' /\ Queued(c)' /\ Newest(c)'
  <2>1. CASE c = n
    <3>1. \A m \in DOMAIN log' : log'[m].via # n
      <4>1. SUFFICES ASSUME NEW m \in DOMAIN log, log[m].via = n PROVE FALSE
        BY <1>1
      <4>2. log[m].via <= cur
        BY <1>1, <4>1 DEF LogInv
      <4>3. QED
        BY <1>1, <4>1, <4>2
    <3>2. r.offset <= Size' /\ r.upto <= Size'
      BY <1>1, <1>2, <1>3, <1>8, Sized
    <3>3. conn'[c] = r /\ r.offset >= 1
      BY <1>2, <1>3, <1>4, <2>1
    <3>4. Offsets(c)' /\ Batches(c)' /\ Echoes(c)' /\ Replays(c)'
      BY <1>3, <2>1, <3>1, <3>2, <3>3, IdleIs
    <3>5. Queued(c)'
      <4>1. conn'[c].queue = << >> /\ log' = log
        BY <1>1, <1>3, <3>3
      <4>2. QED
        BY <4>1, NoQueue DEF Queued
    <3>6. Newest(c)'
      <4>1. ~ c > cur'
        BY <1>1, <2>1
      <4>2. QED
        BY <4>1 DEF Newest
    <3>7. QED
      BY <3>4, <3>5, <3>6
  <2>2. CASE c # n
    <3>1. conn'[c] = conn[c]
      BY <1>4, <2>2
    <3>2. Offsets(c) /\ Batches(c) /\ Echoes(c) /\ Replays(c) /\ Queued(c) /\ Newest(c)
      BY DEF BridgeInv
    <3>3. Bystands(c) /\ LogKept(c)
      BY <1>1, <3>1, SameLog DEF Bystands
    <3>4. Offsets(c)' /\ Batches(c)' /\ Echoes(c)' /\ Replays(c)'
      BY <1>1, <1>7, <3>2, <3>3, Bystander, ConnsAre
    <3>5. Queued(c)'
      BY <1>1, <3>1, <3>2 DEF Queued
    <3>6. Newest(c)'
      <4>1. c > cur' => c > cur
        BY <1>1, ConnsAre
      <4>2. QED
        BY <3>1, <3>2, <4>1 DEF Newest, Gone
    <3>7. QED
      BY <3>4, <3>5, <3>6
  <2>3. QED
    BY <2>1, <2>2
<1>11. QED
  BY <1>6, <1>7, <1>8, <1>9, <1>10 DEF BridgeInv

-----------------------------------------------------------------------------
(* A message is appended to the log.                                         *)
Message == [via : Conns \cup {Other}, line : Nat, text : Texts,
            answer : {"pending", "ok", "lost"}]

LEMMA LogGrows ==
    ASSUME TypeOK, NEW m \in Message, log' = Append(log, m)
    PROVE  /\ log' \in Seq(Message) /\ Len(log') = Len(log) + 1 /\ Len(log) \in Nat
           /\ DOMAIN log = 1 .. Len(log) /\ DOMAIN log' = 1 .. Len(log')
           /\ log'[Len(log) + 1] = m /\ \A i \in 1 .. Len(log) : log'[i] = log[i]
           /\ \A i \in DOMAIN log' : i \in DOMAIN log \/ i = Len(log) + 1
           /\ \A c : c # m.via => LogKept(c)
<1>1. log \in Seq(Message)
  BY DEF TypeOK, Message
<1>2. /\ log' \in Seq(Message) /\ Len(log') = Len(log) + 1 /\ Len(log) \in Nat
      /\ DOMAIN log = 1 .. Len(log) /\ DOMAIN log' = 1 .. Len(log')
      /\ log'[Len(log) + 1] = m /\ \A i \in 1 .. Len(log) : log'[i] = log[i]
  BY <1>1
<1>3. \A i \in DOMAIN log' : i \in DOMAIN log \/ i = Len(log) + 1
  BY <1>2
<1>4. \A c : c # m.via => LogKept(c)
  BY <1>2, <1>3 DEF LogKept
<1>5. QED
  BY <1>2, <1>3, <1>4

\* Every open socket, c's included, hears of the new message.
LEMMA BroadcastHeard ==
    ASSUME TypeOK, NEW m \in Message, NEW cs \in [Conns -> ConnRecord], Broadcast(m, cs),
           NEW c \in Conns, cs[c].queue \in Seq(DOMAIN log)
    PROVE  /\ conn' \in [Conns -> ConnRecord] /\ conn'[c].queue \in Seq(DOMAIN log')
           /\ cs[c].pc = "off" => conn'[c] = cs[c]
           /\ conn'[c].stop = cs[c].stop /\ conn'[c].pc = cs[c].pc
           /\ conn'[c].offset = cs[c].offset /\ conn'[c].upto = cs[c].upto
           /\ conn'[c].batch = cs[c].batch /\ conn'[c].req = cs[c].req
           /\ conn'[c].id = cs[c].id /\ conn'[c].posted = cs[c].posted
           /\ conn'[c].marks = cs[c].marks
<1> DEFINE n == Len(log')
           heard(d) == [cs[d] EXCEPT !.queue = Append(@, n)]
<1>1. log' = Append(log, m)
      /\ conn' = [d \in Conns |-> IF cs[d].pc = "live" THEN heard(d) ELSE cs[d]]
  BY DEF Broadcast
<1>2. n \in Nat /\ n \in DOMAIN log' /\ DOMAIN log \subseteq DOMAIN log'
  BY <1>1, LogGrows
<1> HIDE DEF n
<1>3. \A d \in Conns : /\ heard(d) \in ConnRecord
                       /\ heard(d).stop = cs[d].stop /\ heard(d).pc = cs[d].pc
                       /\ heard(d).offset = cs[d].offset /\ heard(d).upto = cs[d].upto
                       /\ heard(d).batch = cs[d].batch /\ heard(d).req = cs[d].req
                       /\ heard(d).id = cs[d].id /\ heard(d).posted = cs[d].posted
                       /\ heard(d).marks = cs[d].marks
                       /\ heard(d).queue = Append(cs[d].queue, n)
  <2>1. TAKE d \in Conns
  <2>2. cs[d] \in ConnRecord /\ cs[d].queue \in Seq(Nat)
    BY DEF ConnRecord
  <2>3. Append(cs[d].queue, n) \in Seq(Nat)
    BY <1>2, <2>2
  <2>4. QED
    BY <2>2, <2>3 DEF ConnRecord
<1> HIDE DEF heard
<1>4. conn' \in [Conns -> ConnRecord]
  BY <1>1, <1>3
<1>5. Append(cs[c].queue, n) \in Seq(DOMAIN log') /\ cs[c].queue \in Seq(DOMAIN log')
  BY <1>2
<1>6. QED
  BY <1>1, <1>3, <1>4, <1>5

LEMMA OtherPostsKeeps ==
    ASSUME BridgeInv, NEW t \in Texts, OtherPosts(t)
    PROVE  BridgeInv'
<1> DEFINE m == [via |-> Other, line |-> 0, text |-> t, answer |-> "ok"]
<1>1. TypeOK /\ LogInv /\ conn \in [Conns -> ConnRecord] /\ cur \in Nat
  BY ConnsAre DEF BridgeInv, TypeOK
<1>2. m \in Message /\ m.via = Other
  BY DEF Message
<1>3. Broadcast(m, conn) /\ log' = Append(log, m) /\ Spend(1)
      /\ UNCHANGED <<file, writing, saved, cur, skipped>>
  BY DEF OtherPosts, Broadcast
<1> HIDE DEF m
<1>4. /\ log' \in Seq(Message) /\ Len(log') = Len(log) + 1 /\ Len(log) \in Nat
      /\ DOMAIN log = 1 .. Len(log) /\ DOMAIN log' = 1 .. Len(log')
      /\ log'[Len(log) + 1] = m /\ \A i \in 1 .. Len(log) : log'[i] = log[i]
      /\ \A i \in DOMAIN log' : i \in DOMAIN log \/ i = Len(log) + 1
      /\ \A c : c # m.via => LogKept(c)
  BY <1>1, <1>2, <1>3, LogGrows
<1>5. Grew /\ FileInv'
  BY <1>3, SameFileInv
<1>6. conn' \in [Conns -> ConnRecord]
  <2>1. 1 \in Conns
    BY TextsAssumption DEF Conns
  <2>2. QED
    BY <1>1, <1>2, <1>3, <2>1, ConnIs, BroadcastHeard
<1>7. TypeOK'
  BY <1>1, <1>3, <1>4, <1>6, Bounded DEF TypeOK, Message
<1>8. LogInv'
  <2>1. \A i \in DOMAIN log' : log'[i].via # Other => i \in DOMAIN log /\ log'[i] = log[i]
    BY <1>2, <1>4
  <2>2. QED
    BY <1>1, <1>3, <1>5, <2>1, LogTyped, LogInvKept
<1>9. SavedInv'
  BY <1>3 DEF BridgeInv, SavedInv, Size, Bytes
<1>10. PostsInFileOrder'
  <2>1. \A i \in DOMAIN log' : log'[i].via # Other => i \in DOMAIN log /\ log'[i] = log[i]
    BY <1>2, <1>4
  <2>2. SUFFICES ASSUME NEW i \in DOMAIN log, NEW j \in DOMAIN log,
                        i < j /\ log'[i].via = log'[j].via
                        /\ log'[j].line < log'[i].line /\ log'[j].via # Other,
                        log'[i] = log[i], log'[j] = log[j]
                 PROVE  \E l \in 1 .. i : log'[l].via = log'[j].via /\ log'[l].line = log'[j].line
    BY <2>1 DEF PostsInFileOrder
  <2>3. PICK l \in 1 .. i : log[l].via = log[j].via /\ log[l].line = log[j].line
    BY <2>2 DEF BridgeInv, PostsInFileOrder
  <2>4. l \in 1 .. Len(log)
    BY <1>4, <2>3
  <2>5. QED
    BY <1>4, <2>2, <2>3, <2>4
<1>11. ASSUME NEW c \in Conns
       PROVE  Offsets(c)' /\ Batches(c)' /\ Echoes(c)' /\ Replays(c)' /\ Queued(c)' /\ Newest(c)'
  <2>1. Offsets(c) /\ Batches(c) /\ Echoes(c) /\ Replays(c) /\ Newest(c)
        /\ conn[c].queue \in Seq(DOMAIN log)
    BY DEF BridgeInv, Queued
  <2>2. /\ conn'[c].queue \in Seq(DOMAIN log') /\ (conn[c].pc = "off" => conn'[c] = conn[c])
        /\ conn'[c].stop = conn[c].stop /\ conn'[c].pc = conn[c].pc
        /\ conn'[c].offset = conn[c].offset /\ conn'[c].upto = conn[c].upto
        /\ conn'[c].batch = conn[c].batch /\ conn'[c].req = conn[c].req
        /\ conn'[c].id = conn[c].id /\ conn'[c].posted = conn[c].posted
        /\ conn'[c].marks = conn[c].marks
    BY <1>1, <1>2, <1>3, <2>1, BroadcastHeard
  <2>3. Bystands(c)
    BY <2>2 DEF Bystands
  <2>4. LogKept(c) /\ c # Other
    BY <1>2, <1>4, ConnsAre
  <2>5. Offsets(c)' /\ Batches(c)' /\ Echoes(c)' /\ Replays(c)'
    BY <1>1, <1>5, <2>1, <2>3, <2>4, Bystander
  <2>6. Queued(c)' /\ Newest(c)'
    BY <1>3, <2>1, <2>2, GoneIs DEF Queued, Newest, Gone
  <2>7. QED
    BY <2>5, <2>6
<1>12. QED
  BY <1>5, <1>7, <1>8, <1>9, <1>10, <1>11 DEF BridgeInv

-----------------------------------------------------------------------------
(* Posts.                                                                    *)

\* The log as it was, but for the answers to messages of object c.
SameLines(c) ==
    /\ log' \in Seq(Message) /\ Len(log) \in Nat /\ Len(log') = Len(log)
    /\ DOMAIN log = 1 .. Len(log) /\ DOMAIN log' = 1 .. Len(log)
    /\ \A m \in 1 .. Len(log) :
         /\ log'[m].via = log[m].via /\ log'[m].line = log[m].line
         /\ log'[m].text = log[m].text
         /\ log[m].via # c => log'[m] = log[m]

LEMMA SameLogLines ==
    ASSUME TypeOK, log' = log, NEW c
    PROVE  SameLines(c)
<1>1. log \in Seq(Message)
  BY DEF TypeOK, Message
<1>2. QED
  BY <1>1 DEF SameLines

LEMMA Reanswered ==
    ASSUME TypeOK, NEW i \in DOMAIN log, NEW a \in {"ok", "lost"},
           log' = [log EXCEPT ![i].answer = a]
    PROVE  /\ SameLines(log[i].via) /\ log'[i].answer = a
           /\ \A m \in DOMAIN log : m # i => log'[m] = log[m]
<1>1. log \in Seq(Message)
  BY DEF TypeOK, Message
<1>2. Len(log) \in Nat /\ DOMAIN log = 1 .. Len(log) /\ log[i] \in Message
  BY <1>1, ElementOfSeq
<1> DEFINE x == [log[i] EXCEPT !.answer = a]
<1>3. /\ x \in Message /\ x.via = log[i].via /\ x.line = log[i].line /\ x.text = log[i].text
      /\ x.answer = a
  BY <1>2 DEF Message
<1>4. log' = [log EXCEPT ![i] = x]
  BY <1>1
<1> HIDE DEF x
<1>5. log' \in Seq(Message) /\ Len(log') = Len(log) /\ DOMAIN log' = DOMAIN log
      /\ log'[i] = x /\ \A m \in DOMAIN log : m # i => log'[m] = log[m]
  BY <1>1, <1>2, <1>3, <1>4
<1>6. QED
  BY <1>2, <1>3, <1>5 DEF SameLines

LEMMA SameLinesKept ==
    ASSUME NEW c, SameLines(c), NEW d, d # c
    PROVE  LogKept(d)
BY DEF SameLines, LogKept

LEMMA PostedBySame ==
    ASSUME NEW c, SameLines(c), NEW k, NEW n \in 0 .. Len(log), PostedBy(c, k, n)
    PROVE  PostedBy(c, k, n)'
BY DEF SameLines, PostedBy

LEMMA PostedByAllSame ==
    ASSUME NEW c, SameLines(c), NEW k, PostedBy(c, k, Len(log))
    PROVE  PostedBy(c, k, Len(log))'
BY DEF SameLines, PostedBy

\* Object c becomes r; nobody else has a part in it.
LEMMA ObjectStep ==
    ASSUME BridgeInv, NEW c \in Conns, NEW r \in ConnRecord, Becomes(c, r),
           UNCHANGED <<file, writing, cur, skipped>>, left' \in 0 .. MaxEvents,
           saved' = saved \/ (saved' \in Nat /\ 1 <= saved' /\ saved' <= Size),
           SameLines(c), r.queue \in Seq(DOMAIN log), ~ c > cur,
           Offsets(c)', Batches(c)', Echoes(c)', Replays(c)'
    PROVE  BridgeInv'
<1>1. TypeOK /\ LogInv /\ SavedInv /\ PostsInFileOrder /\ conn \in [Conns -> ConnRecord]
      /\ cur \in Nat
  BY ConnsAre DEF BridgeInv, TypeOK
<1>2. conn'[c] = r /\ \A d \in Conns : d # c => conn'[d] = conn[d]
  BY <1>1 DEF Becomes
<1>3. TypeOK'
  <2>1. log' \in Seq([via : Conns \cup {Other}, line : Nat, text : Texts,
                      answer : {"pending", "ok", "lost"}])
    BY DEF SameLines, Message
  <2>2. QED
    BY <1>1, <2>1 DEF TypeOK, Becomes
<1>4. Grew /\ FileInv' /\ Size' = Size
  BY SameFileInv DEF Size, Bytes
<1>5. LogInv'
  BY <1>1, <1>4, LogTyped, LogInvKept DEF SameLines
<1>6. SavedInv'
  BY <1>1, <1>4 DEF SavedInv
<1>7. PostsInFileOrder'
  <2>1. SUFFICES ASSUME NEW i \in DOMAIN log, NEW j \in DOMAIN log,
                        i < j /\ log'[i].via = log'[j].via
                        /\ log'[j].line < log'[i].line /\ log'[j].via # Other
                 PROVE  \E l \in 1 .. i : log'[l].via = log'[j].via /\ log'[l].line = log'[j].line
    BY DEF PostsInFileOrder, SameLines
  <2>2. PICK l \in 1 .. i : log[l].via = log[j].via /\ log[l].line = log[j].line
    BY <1>1, <2>1 DEF PostsInFileOrder, SameLines
  <2>3. l \in 1 .. Len(log)
    BY <2>2 DEF SameLines
  <2>4. QED
    BY <2>2, <2>3 DEF SameLines
<1>8. ASSUME NEW d \in Conns
      PROVE  Offsets(d)' /\ Batches(d)' /\ Echoes(d)' /\ Replays(d)' /\ Queued(d)' /\ Newest(d)'
  <2>1. CASE d = c
    <3>1. Queued(d)' /\ Newest(d)'
      BY <1>2, <2>1 DEF Queued, Newest, SameLines
    <3>2. QED
      BY <2>1, <3>1
  <2>2. CASE d # c
    <3>1. conn'[d] = conn[d] /\ LogKept(d)
      BY <1>2, <2>2, SameLinesKept
    <3>2. Offsets(d) /\ Batches(d) /\ Echoes(d) /\ Replays(d) /\ Queued(d) /\ Newest(d)
      BY DEF BridgeInv
    <3>3. Bystands(d)
      BY <3>1 DEF Bystands
    <3>4. Offsets(d)' /\ Batches(d)' /\ Echoes(d)' /\ Replays(d)'
      BY <1>1, <1>4, <3>1, <3>2, <3>3, Bystander, ConnsAre
    <3>5. Queued(d)' /\ Newest(d)'
      BY <3>1, <3>2 DEF Queued, Newest, SameLines, Gone
    <3>6. QED
      BY <3>4, <3>5
  <2>3. QED
    BY <2>1, <2>2
<1>9. QED
  BY <1>3, <1>4, <1>5, <1>6, <1>7, <1>8 DEF BridgeInv

\* Object c goes on where what it will post is all there is to post.
LEMMA ReplaysOn ==
    ASSUME BridgeInv, NEW c \in Conns, SameLines(c), file' = file,
           conn[c].stop = "no" \/ conn[c].batch # {},
           conn'[c].offset \in Nat, conn'[c].offset >= conn[c].offset,
           \A k \in Lines, b \in conn'[c].batch :
              k > conn'[c].offset /\ k < b => k \in conn'[c].batch \/ PostedBy(c, k, Len(log))
    PROVE  Replays(c)'
<1>1. Replays(c) /\ conn[c].offset \in Nat
  BY ConnIs DEF BridgeInv
<1>2. Lines' = Lines /\ \A k \in Lines : k \in Nat
  BY Growth, SameFile DEF Lines, NL, Char, BridgeInv
<1>3. SUFFICES ASSUME NEW k \in Lines, k > conn'[c].offset
               PROVE  /\ \A m \in DOMAIN log' :
                           log'[m].via = c /\ k < log'[m].line => PostedBy(c, k, m)'
                      /\ \A b \in conn'[c].batch :
                           k < b => k \in conn'[c].batch \/ PostedBy(c, k, Len(log))'
  BY <1>2 DEF Replays
<1>4. k > conn[c].offset
  BY <1>1, <1>2, <1>3
<1>5. ASSUME NEW m \in DOMAIN log', log'[m].via = c /\ k < log'[m].line
      PROVE  PostedBy(c, k, m)'
  <2>1. m \in 1 .. Len(log) /\ log[m].via = c /\ k < log[m].line /\ m \in DOMAIN log
    BY <1>5 DEF SameLines
  <2>2. PostedBy(c, k, m)
    BY <1>1, <1>4, <2>1 DEF Replays
  <2>3. m \in 0 .. Len(log)
    BY <2>1
  <2>4. QED
    BY <2>2, <2>3, PostedBySame
<1>6. ASSUME NEW b \in conn'[c].batch, k < b
      PROVE  k \in conn'[c].batch \/ PostedBy(c, k, Len(log))'
  BY <1>3, <1>6, PostedByAllSame
<1>7. QED
  BY <1>5, <1>6

-----------------------------------------------------------------------------
(* drain: the pass.                                                          *)
LEMMA ToSendIs ==
    ASSUME BridgeInv, NEW from \in Nat, from >= 1
    PROVE  ToSend(from) = {k \in Lines : k > from}
<1>1. TypeOK /\ FileInv
  BY DEF BridgeInv
<1>2. DOMAIN file = 1 .. Len(file) /\ Len(file) \in Nat /\ file \in Seq(Chars)
  BY <1>1, Sized
<1>3. ASSUME NEW k \in DOMAIN file, LineAt(k, from), file[k].kind # "group"
      PROVE  k \in Lines /\ k > from
  <2>1. file[k].kind \in {"old", "agent", "group", "newline"}
    <3>1. file[k] \in Chars
      BY <1>2, ElementOfSeq
    <3>2. QED
      BY <3>1 DEF Chars
  <2>2. k > 1 /\ k > from
    BY <1>2, <1>3 DEF LineAt
  <2>3. file[k].kind = "agent"
    BY <1>1, <1>2, <1>3, <2>1, <2>2 DEF FileInv, LineAt
  <2>4. QED
    BY <1>3, <2>2, <2>3 DEF Lines, LineAt
<1>4. ASSUME NEW k \in Lines, k > from
      PROVE  k \in DOMAIN file /\ LineAt(k, from) /\ file[k].kind # "group"
  <2>1. k \in DOMAIN file /\ file[k].kind = "agent" /\ k < Len(file) /\ file[k + 1] = NL
    BY DEF Lines
  <2>2. file[k] # NL /\ file[k - 1] = NL
    BY <1>1, <2>1, NewlineIs DEF FileInv
  <2>3. QED
    BY <1>4, <2>1, <2>2 DEF LineAt
<1>5. QED
  BY <1>3, <1>4 DEF ToSend

LEMMA LineText ==
    ASSUME BridgeInv, NEW k \in Lines
    PROVE  file[k].text \in Texts /\ k \in Nat /\ k \in DOMAIN file
<1>1. TypeOK /\ FileInv
  BY DEF BridgeInv
<1>2. file \in Seq(Chars) /\ DOMAIN file = 1 .. Len(file) /\ Len(file) \in Nat
  BY <1>1, Sized
<1>3. k \in 1 .. Len(file) /\ k \in DOMAIN file /\ file[k].kind = "agent"
  BY <1>2 DEF Lines
<1>4. file[k].text \in Texts \cup {None}
  <2>1. file[k] \in Chars
    BY <1>2, <1>3, ElementOfSeq
  <2>2. QED
    BY <2>1 DEF Chars
<1>5. file[k].text # None
  BY <1>1, <1>3, NewlineIs DEF FileInv
<1>6. QED
  BY <1>2, <1>3, <1>4, <1>5

LEMMA PassKeeps ==
    ASSUME BridgeInv, NEW c \in Conns, Pass(c)
    PROVE  BridgeInv'
<1> DEFINE cn   == conn[c]
           from == IF Size < cn.offset THEN 0 ELSE cn.offset
           B    == ToSend(from)
           u    == Consumed(from)
           cnB  == [cn EXCEPT !.offset = from, !.batch = B, !.upto = u]
<1>1. /\ cn \in ConnRecord /\ conn \in [Conns -> ConnRecord]
      /\ cn.stop = "no" /\ cn.batch = {} /\ cn.offset \in Nat
      /\ LastNL > from
      /\ UNCHANGED <<file, writing, log, cur, left, skipped>>
      /\ TypeOK /\ FileInv /\ Offsets(c) /\ Batches(c) /\ Echoes(c)
      /\ cn.queue \in Seq(DOMAIN log)
  BY ConnIs DEF Pass, BridgeInv
<1>2. /\ Size \in Nat /\ Len(file) \in Nat /\ file \in Seq(Chars)
      /\ cn.offset <= Size /\ cn.offset >= 1
  BY <1>1, Sized DEF Offsets
<1>3. from = cn.offset
  BY <1>1, <1>2
<1>4. B = {k \in Lines : k > cn.offset}
  BY <1>1, <1>2, <1>3, ToSendIs
<1>5. u \in Nat /\ u >= cn.offset /\ u >= 1 /\ u <= Size
  <2>1. LastNL \in 1 .. Len(file) /\ LastNL \in Nat
    <3>1. LastNL \in 1 .. Len(file)
      BY <1>1, LastNLIs DEF TypeOK
    <3>2. QED
      BY <1>2, <3>1
  <2>2. cn.offset <= LastNL /\ LastNL <= Len(file)
    BY <1>1, <1>2, <1>3, <2>1
  <2>3. /\ Bytes(cn.offset, LastNL) \in Nat
        /\ Bytes(cn.offset, LastNL) >= LastNL - cn.offset
        /\ cn.offset + Bytes(cn.offset, LastNL) <= Size
    BY <1>1, <1>2, <2>1, <2>2, WideCount DEF Size
  <2>4. u = cn.offset + Bytes(cn.offset, LastNL)
    BY <1>3 DEF Consumed
  <2>5. QED
    <3> HIDE DEF u, cn
    <3>1. QED
      BY <1>1, <1>2, <2>1, <2>2, <2>3, <2>4
<1>6. SameLines(c) /\ ~ c > cur /\ left' \in 0 .. MaxEvents /\ Size' = Size
      /\ Lines' = Lines /\ (conn[c].stop = "no" \/ conn[c].batch # {})
      /\ UNCHANGED <<file, writing, cur, skipped>> /\ log' = log
  BY <1>1, SameLogLines, Running, Bounded DEF Size, Bytes, Lines, NL, Char
<1>7. \A k \in Lines : k \in Nat
  BY LineText
<1> HIDE DEF from, B, u
<1>8. CASE cnB.batch = {} /\ EndPass(c, cn, cnB.upto)
  <2> DEFINE r == [cn EXCEPT !.batch = {}, !.upto = 0, !.req = "none", !.id = 0, !.offset = u]
  <2>1. cnB.upto = u
    BY <1>1 DEF ConnRecord
  <2>2. Becomes(c, r) /\ saved' \in {saved, u}
    BY <1>8, <2>1 DEF EndPass
  <2>3. /\ r \in ConnRecord /\ r.batch = {} /\ r.upto = 0 /\ r.req = "none" /\ r.id = 0
        /\ r.offset = u /\ r.queue = cn.queue /\ r.posted = cn.posted /\ r.pc = cn.pc
        /\ r.stop = "no"
    BY <1>1, <1>5 DEF ConnRecord
  <2> HIDE DEF r
  <2>4. conn'[c] = r
    BY <1>1, <2>2 DEF Becomes
  <2>5. Offsets(c)'
    BY <1>2, <1>5, <1>6, <2>3, <2>4 DEF Offsets
  <2>6. Batches(c)'
    BY <2>3, <2>4 DEF Batches
  <2>7. Echoes(c)'
    BY <1>1, <1>6, <2>3, <2>4 DEF Echoes, Batches
  <2>8. Replays(c)'
    BY <1>5, <1>6, <2>3, <2>4, ReplaysOn
  <2>9. QED
    BY <1>1, <1>5, <1>6, <2>2, <2>3, <2>5, <2>6, <2>7, <2>8, ObjectStep
<1>9. CASE cnB.batch # {} /\ conn' = [conn EXCEPT ![c] = Post(cnB)] /\ UNCHANGED saved
  <2> DEFINE k == Current(cnB)
             r == Post(cnB)
  <2>1. /\ cnB.batch = B /\ cnB.offset = cn.offset /\ cnB.upto = u /\ cnB.stop = "no"
        /\ cnB.pc = cn.pc /\ cnB.req = cn.req /\ cnB.id = cn.id /\ cnB.queue = cn.queue
        /\ cnB.marks = cn.marks /\ cnB.posted = cn.posted /\ B \in SUBSET Nat
        /\ cnB \in ConnRecord
    BY <1>1, <1>3, <1>4, <1>5, <1>7 DEF ConnRecord
  <2>2. k \in B /\ k \in Nat
    BY <1>9, <2>1, CurrentIs
  <2>3. file[k].text \in Texts
    BY <1>4, <2>2, LineText
  <2> HIDE DEF cnB, k
  <2>4. r = [cnB EXCEPT !.req = "sent", !.marks = @ \cup {file[k].text}]
    BY DEF Post, k
  <2> HIDE DEF r
  <2>5. /\ r \in ConnRecord /\ r.batch = B /\ r.upto = u /\ r.req = "sent"
        /\ r.offset = cn.offset /\ r.queue = cn.queue /\ r.posted = cn.posted /\ r.pc = cn.pc
        /\ r.stop = "no" /\ file[k].text \in r.marks
    BY <2>1, <2>3, <2>4 DEF ConnRecord
  <2>6. Becomes(c, r) /\ conn'[c] = r
    BY <1>1, <1>9 DEF Becomes, r
  <2>7. Current(r) = k
    BY <2>1, <2>5 DEF Current, k
  <2>8. Offsets(c)'
    BY <1>2, <1>5, <1>6, <2>5, <2>6 DEF Offsets
  <2>9. Batches(c)'
    <3>1. B # {} /\ \A b \in B : b \in Lines /\ b > cn.offset
      BY <1>4, <2>2
    <3>2. Current(conn'[c]) = k
      BY <2>6, <2>7
    <3>3. QED
      BY <1>6, <2>5, <2>6, <3>1, <3>2 DEF Batches
  <2>10. Echoes(c)'
    BY <1>1, <1>6, <2>5, <2>6 DEF Echoes, Batches
  <2>11. Replays(c)'
    <3>1. conn'[c].offset = conn[c].offset /\ conn'[c].batch = B /\ conn[c].offset \in Nat
      BY <1>1, <2>5, <2>6
    <3>2. \A j \in Lines, b \in conn'[c].batch :
             j > conn'[c].offset /\ j < b => j \in conn'[c].batch \/ PostedBy(c, j, Len(log))
      BY <1>4, <3>1
    <3>3. conn'[c].offset \in Nat /\ conn'[c].offset >= conn[c].offset
      BY <3>1
    <3>4. QED
      BY <1>6, <3>2, <3>3, ReplaysOn
  <2>12. QED
    BY <1>1, <1>6, <1>9, <2>5, <2>6, <2>8, <2>9, <2>10, <2>11, ObjectStep
<1>10. QED
  BY <1>8, <1>9 DEF Pass, from, B, u

\* The line that object c is posting.
LEMMA PostingIs ==
    ASSUME BridgeInv, NEW c \in Conns, conn[c].req # "none"
    PROVE  /\ Current(conn[c]) \in conn[c].batch /\ Current(conn[c]) \in Lines
           /\ Current(conn[c]) \in Nat /\ Current(conn[c]) > conn[c].offset
           /\ \A l \in conn[c].batch : Current(conn[c]) <= l
           /\ file[Current(conn[c])].text \in Texts
           /\ file[Current(conn[c])].text \in conn[c].marks
           /\ conn[c].batch # {} /\ ~ c > cur
<1>1. Batches(c) /\ conn[c].batch \in SUBSET Nat
  BY ConnIs DEF BridgeInv
<1>2. conn[c].batch # {}
  BY <1>1 DEF Batches
<1>3. Current(conn[c]) \in conn[c].batch /\ Current(conn[c]) \in Nat
      /\ \A l \in conn[c].batch : Current(conn[c]) <= l
  BY <1>1, <1>2, CurrentIs
<1>4. Current(conn[c]) \in Lines /\ Current(conn[c]) > conn[c].offset
      /\ file[Current(conn[c])].text \in conn[c].marks
  BY <1>1, <1>3 DEF Batches
<1>5. file[Current(conn[c])].text \in Texts
  BY <1>4, LineText
<1>6. QED
  BY <1>2, <1>3, <1>4, <1>5, Running

\* What the object may still post is in the batch or was posted.
LEMMA InBetween ==
    ASSUME BridgeInv, NEW c \in Conns, conn[c].batch # {}, NEW k \in Lines, k > conn[c].offset
    PROVE  /\ \A m \in DOMAIN log : log[m].via = c /\ k < log[m].line => PostedBy(c, k, m)
           /\ \A b \in conn[c].batch : k < b => k \in conn[c].batch \/ PostedBy(c, k, Len(log))
BY DEF BridgeInv, Replays

-----------------------------------------------------------------------------
(* drain: a request arrives, is answered, fails.                             *)
LEMMA LandKeeps ==
    ASSUME BridgeInv, NEW c \in Conns, Land(c)
    PROVE  BridgeInv'
<1> DEFINE k  == Current(conn[c])
           n  == Len(log) + 1
           r  == [conn[c] EXCEPT !.req = "landed", !.id = n]
           cs == [conn EXCEPT ![c].req = "landed", ![c].id = n]
           m  == [via |-> c, line |-> k, text |-> file[k].text, answer |-> "pending"]
<1>1. /\ conn[c] \in ConnRecord /\ conn \in [Conns -> ConnRecord] /\ conn[c].req = "sent"
      /\ UNCHANGED <<file, writing, saved, cur, left, skipped>> /\ Broadcast(m, cs)
      /\ TypeOK /\ FileInv /\ LogInv /\ SavedInv /\ PostsInFileOrder
      /\ Offsets(c) /\ Batches(c) /\ Echoes(c) /\ Replays(c)
  BY ConnIs DEF BridgeInv, Land
<1>2. /\ k \in conn[c].batch /\ k \in Lines /\ k \in Nat /\ k > conn[c].offset
      /\ \A l \in conn[c].batch : k <= l
      /\ file[k].text \in Texts /\ file[k].text \in conn[c].marks
      /\ conn[c].batch # {} /\ ~ c > cur
  BY <1>1, PostingIs
<1>3. m \in Message /\ m.via = c /\ m.line = k /\ m.text = file[k].text /\ m.answer = "pending"
      /\ log' = Append(log, m)
  BY <1>1, <1>2 DEF Message, Broadcast
<1> HIDE DEF m, k
<1>4. /\ log' \in Seq(Message) /\ Len(log') = n /\ Len(log) \in Nat /\ n \in Nat
      /\ DOMAIN log = 1 .. Len(log) /\ DOMAIN log' = 1 .. n
      /\ log'[n] = m /\ \A i \in 1 .. Len(log) : log'[i] = log[i]
      /\ \A i \in DOMAIN log' : i \in DOMAIN log \/ i = n
      /\ \A d : d # c => LogKept(d)
  BY <1>1, <1>3, LogGrows
<1> HIDE DEF n
<1>5. /\ r \in ConnRecord /\ r.req = "landed" /\ r.id = n /\ r.stop = conn[c].stop
      /\ r.pc = conn[c].pc /\ r.offset = conn[c].offset /\ r.upto = conn[c].upto
      /\ r.batch = conn[c].batch /\ r.marks = conn[c].marks /\ r.posted = conn[c].posted
      /\ r.queue = conn[c].queue
  BY <1>1, <1>4 DEF ConnRecord
<1>6. cs = [conn EXCEPT ![c] = r]
  BY <1>1
<1> HIDE DEF r, cs
<1>7. cs \in [Conns -> ConnRecord] /\ cs[c] = r /\ \A d \in Conns : d # c => cs[d] = conn[d]
  BY <1>1, <1>5, <1>6
<1>8. ASSUME NEW d \in Conns
      PROVE  /\ conn' \in [Conns -> ConnRecord] /\ conn'[d].queue \in Seq(DOMAIN log')
             /\ cs[d].pc = "off" => conn'[d] = cs[d]
             /\ conn'[d].stop = cs[d].stop /\ conn'[d].pc = cs[d].pc
             /\ conn'[d].offset = cs[d].offset /\ conn'[d].upto = cs[d].upto
             /\ conn'[d].batch = cs[d].batch /\ conn'[d].req = cs[d].req
             /\ conn'[d].id = cs[d].id /\ conn'[d].posted = cs[d].posted
             /\ conn'[d].marks = cs[d].marks
  <2>1. cs[d].queue \in Seq(DOMAIN log)
    BY <1>5, <1>7, ConnIs
  <2>2. QED
    BY <1>1, <1>3, <1>7, <2>1, BroadcastHeard
<1>9. Grew /\ FileInv' /\ Lines' = Lines /\ Size' = Size
  BY <1>1, SameFileInv DEF Lines, NL, Char, Size, Bytes
<1>10. TypeOK'
  <2>1. log' \in Seq([via : Conns \cup {Other}, line : Nat, text : Texts,
                      answer : {"pending", "ok", "lost"}])
    BY <1>4 DEF Message
  <2>2. QED
    BY <1>1, <1>8, <2>1 DEF TypeOK
<1>11. LogInv'
  <2>1. SUFFICES ASSUME NEW i \in DOMAIN log', log'[i].via # Other
                 PROVE  /\ log'[i].line \in Lines
                        /\ log'[i].text = file[log'[i].line].text
                        /\ log'[i].via <= cur
    BY <1>1, <1>9 DEF LogInv
  <2>2. CASE i \in DOMAIN log
    BY <1>1, <1>4, <2>1, <2>2 DEF LogInv
  <2>3. CASE i = n
    <3>1. c <= cur
      BY <1>1, <1>2, ConnsAre DEF TypeOK
    <3>2. QED
      BY <1>2, <1>3, <1>4, <2>3, <3>1
  <2>4. QED
    BY <1>4, <2>2, <2>3
<1>12. SavedInv'
  BY <1>1, <1>9 DEF SavedInv
<1>13. \A i \in DOMAIN log : log[i].via = c /\ k < log[i].line => PostedBy(c, k, i)
  BY <1>2, InBetween
<1>14. PostsInFileOrder'
  <2>1. SUFFICES ASSUME NEW i \in DOMAIN log', NEW j \in DOMAIN log',
                        i < j /\ log'[i].via = log'[j].via
                        /\ log'[j].line < log'[i].line /\ log'[j].via # Other
                 PROVE  \E l \in 1 .. i : log'[l].via = log'[j].via /\ log'[l].line = log'[j].line
    BY DEF PostsInFileOrder
  <2>2. i \in DOMAIN log /\ i \in 1 .. Len(log) /\ log'[i] = log[i] /\ i \in Nat
    BY <1>4, <2>1 DEF n
  <2>3. \E l \in 1 .. i : log[l].via = log'[j].via /\ log[l].line = log'[j].line
    <3>1. CASE j \in DOMAIN log
      BY <1>1, <1>4, <2>1, <2>2, <3>1 DEF PostsInFileOrder
    <3>2. CASE j = n
      BY <1>3, <1>4, <1>13, <2>1, <2>2, <3>2 DEF PostedBy
    <3>3. QED
      BY <1>4, <3>1, <3>2
  <2>4. \A l \in 1 .. i : log'[l] = log[l]
    BY <1>4, <2>2
  <2>5. QED
    BY <2>3, <2>4
<1>15. ASSUME NEW d \in Conns
       PROVE  Offsets(d)' /\ Batches(d)' /\ Echoes(d)' /\ Replays(d)' /\ Queued(d)' /\ Newest(d)'
  <2>1. CASE d = c
    <3>1. /\ conn'[c].queue \in Seq(DOMAIN log') /\ conn'[c].stop = conn[c].stop
          /\ conn'[c].pc = conn[c].pc /\ conn'[c].offset = conn[c].offset
          /\ conn'[c].upto = conn[c].upto /\ conn'[c].batch = conn[c].batch
          /\ conn'[c].req = "landed" /\ conn'[c].id = n
          /\ conn'[c].posted = conn[c].posted /\ conn'[c].marks = conn[c].marks
      BY <1>5, <1>7, <1>8
    <3>2. Offsets(c)'
      BY <1>1, <1>9, <3>1 DEF Offsets
    <3>3. Batches(c)'
      <4>1. Current(conn'[c]) = k
        BY <3>1 DEF Current, k
      <4>2. n \in DOMAIN log' /\ log'[n].via = c /\ log'[n].line = k
        BY <1>3, <1>4 DEF n
      <4>3. QED
        BY <1>1, <1>2, <1>9, <3>1, <4>1, <4>2 DEF Batches
    <3>4. Echoes(c)'
      <4>1. \A i \in DOMAIN log : log[i].via = c => log[i].answer # "pending" \/ conn[c].pc = "off"
        BY <1>1 DEF Echoes
      <4>2. QED
        BY <1>1, <1>3, <1>4, <3>1, <4>1 DEF Echoes
    <3>5. Replays(c)'
      <4>1. SUFFICES ASSUME NEW j \in Lines, j > conn[c].offset
                     PROVE  /\ \A i \in DOMAIN log' :
                                 log'[i].via = c /\ j < log'[i].line => PostedBy(c, j, i)'
                            /\ \A b \in conn[c].batch :
                                 j < b => j \in conn[c].batch \/ PostedBy(c, j, Len(log))'
        BY <1>9, <3>1 DEF Replays
      <4>2. /\ \A i \in DOMAIN log : log[i].via = c /\ j < log[i].line => PostedBy(c, j, i)
            /\ \A b \in conn[c].batch : j < b => j \in conn[c].batch \/ PostedBy(c, j, Len(log))
        BY <1>2, <4>1, InBetween
      <4>3. PostedBy(c, j, Len(log)) =>
               /\ \E l \in 1 .. n : log'[l].via = c /\ log'[l].line = j
               /\ PostedBy(c, j, Len(log))'
        BY <1>4 DEF PostedBy, n
      <4>4. ASSUME NEW i \in DOMAIN log', log'[i].via = c /\ j < log'[i].line
            PROVE  PostedBy(c, j, i)'
        <5>1. CASE i \in DOMAIN log
          <6>1. PostedBy(c, j, i) /\ i \in 1 .. Len(log)
            BY <1>4, <4>2, <4>4, <5>1
          <6>2. \A l \in 1 .. i : log'[l] = log[l]
            BY <1>4, <6>1
          <6>3. QED
            BY <6>1, <6>2 DEF PostedBy
        <5>2. CASE i = n
          <6>1. j < k
            BY <1>3, <1>4, <4>4, <5>2
          <6>2. j \notin conn[c].batch
            BY <1>2, <6>1, LineText
          <6>3. PostedBy(c, j, Len(log))
            BY <1>2, <4>2, <6>1, <6>2
          <6>4. QED
            BY <4>3, <5>2, <6>3 DEF PostedBy
        <5>3. QED
          BY <1>4, <5>1, <5>2
      <4>5. QED
        BY <4>2, <4>3, <4>4
    <3>6. Queued(c)' /\ Newest(c)'
      BY <1>1, <1>2, <3>1 DEF Queued, Newest
    <3>7. QED
      BY <2>1, <3>2, <3>3, <3>4, <3>5, <3>6
  <2>2. CASE d # c
    <3>1. Offsets(d) /\ Batches(d) /\ Echoes(d) /\ Replays(d) /\ Newest(d)
      BY DEF BridgeInv
    <3>2. Bystands(d) /\ LogKept(d) /\ d # Other
      BY <1>4, <1>7, <1>8, <2>2, ConnsAre DEF Bystands
    <3>3. Offsets(d)' /\ Batches(d)' /\ Echoes(d)' /\ Replays(d)'
      BY <1>1, <1>9, <3>1, <3>2, Bystander
    <3>4. Queued(d)'
      BY <1>8 DEF Queued
    <3>5. Newest(d)'
      <4>1. ASSUME d > cur PROVE conn'[d] = Gone
        <5>1. cs[d] = Gone
          BY <1>7, <2>2, <3>1, <4>1 DEF Newest
        <5>2. QED
          BY <1>8, <5>1, GoneIs
      <4>2. QED
        BY <1>1, <4>1 DEF Newest, Gone
    <3>6. QED
      BY <3>3, <3>4, <3>5
  <2>3. QED
    BY <2>1, <2>2
<1>16. QED
  BY <1>9, <1>10, <1>11, <1>12, <1>14, <1>15 DEF BridgeInv

LEMMA AnswerKeeps ==
    ASSUME BridgeInv, NEW c \in Conns, Answer(c)
    PROVE  BridgeInv'
<1> DEFINE cn   == Answered(conn[c])
           k    == Current(conn[c])
           i    == conn[c].id
           rest == conn[c].batch \ {k}
<1>1. /\ conn[c] \in ConnRecord /\ conn \in [Conns -> ConnRecord] /\ conn[c].req = "landed"
      /\ conn[c].queue \in Seq(DOMAIN log)
      /\ UNCHANGED <<file, writing, cur, left, skipped>>
      /\ TypeOK /\ Offsets(c) /\ Batches(c) /\ Echoes(c) /\ Replays(c)
  <2>1. conn[c] \in ConnRecord /\ conn \in [Conns -> ConnRecord]
        /\ conn[c].queue \in Seq(DOMAIN log)
        /\ TypeOK /\ Offsets(c) /\ Batches(c) /\ Echoes(c) /\ Replays(c)
    BY ConnIs DEF BridgeInv
  <2>2. cn.req = conn[c].req
    BY <2>1 DEF Answered, ConnRecord
  <2>3. cn.req = "landed" /\ UNCHANGED <<file, writing, cur, left, skipped>>
    BY DEF Answer
  <2>4. QED
    <3> HIDE DEF cn
    <3>1. QED
      BY <2>1, <2>2, <2>3
<1>2. /\ k \in conn[c].batch /\ k \in Lines /\ k \in Nat /\ k > conn[c].offset
      /\ \A l \in conn[c].batch : k <= l
      /\ conn[c].batch # {} /\ ~ c > cur
  BY <1>1, PostingIs
<1>3. i \in DOMAIN log /\ i \in Nat /\ log[i].via = c /\ log[i].line = k
  BY <1>1, ConnIs DEF Batches
<1>4. /\ cn \in ConnRecord /\ cn.stop = conn[c].stop /\ cn.pc = conn[c].pc
      /\ cn.offset = conn[c].offset /\ cn.upto = conn[c].upto /\ cn.batch = conn[c].batch
      /\ cn.req = "landed" /\ cn.id = i /\ cn.marks = conn[c].marks
      /\ cn.posted = conn[c].posted \cup {i} /\ cn.queue = conn[c].queue
  BY <1>1, <1>3 DEF Answered, ConnRecord
<1>5. Current(cn) = k
  BY <1>4 DEF Current
<1> HIDE DEF cn, k, i
<1>6. /\ log' = [log EXCEPT ![i].answer = "ok"]
      /\ IF rest = {} THEN EndPass(c, cn, cn.upto)
         ELSE /\ conn' = [conn EXCEPT ![c] = Post([cn EXCEPT !.batch = rest, !.id = 0])]
              /\ UNCHANGED saved
  BY <1>4, <1>5 DEF Answer, cn
<1>7. SameLines(c) /\ log'[i].answer = "ok" /\ \A m \in DOMAIN log : m # i => log'[m] = log[m]
  BY <1>1, <1>3, <1>6, Reanswered
<1>8. /\ left' \in 0 .. MaxEvents /\ skipped' = skipped /\ file' = file /\ Size' = Size
      /\ Lines' = Lines /\ conn[c].offset \in Nat /\ Size \in Nat /\ conn[c].upto \in Nat
      /\ conn[c].upto >= conn[c].offset /\ conn[c].offset >= 1 /\ conn[c].upto <= Size
      /\ conn[c].offset <= Size
  BY <1>1, <1>2, Bounded, Sized, ConnIs DEF Size, Bytes, Lines, NL, Char, Offsets
\* The message is known by its id, and no other one is pending.
<1>9. \A m \in DOMAIN log' : log'[m].via = c /\ conn[c].pc # "off" =>
         /\ log'[m].answer = "ok" => m \in cn.posted
         /\ log'[m].answer # "pending"
  <2>1. TAKE m \in DOMAIN log'
  <2>2. SUFFICES ASSUME log'[m].via = c /\ conn[c].pc # "off"
                 PROVE  (log'[m].answer = "ok" => m \in cn.posted) /\ log'[m].answer # "pending"
    OBVIOUS
  <2>3. m \in DOMAIN log
    BY <1>7 DEF SameLines
  <2>4. CASE m = i
    BY <1>4, <1>7, <2>4
  <2>5. CASE m # i
    BY <1>1, <1>4, <1>7, <2>2, <2>3, <2>5 DEF Echoes, i
  <2>6. QED
    BY <2>4, <2>5
<1>10. CASE rest = {} /\ EndPass(c, cn, cn.upto)
  <2> DEFINE u == cn.upto
             r == [cn EXCEPT !.batch = {}, !.upto = 0, !.req = "none", !.id = 0, !.offset = u]
  <2>1. Becomes(c, r) /\ saved' \in {saved, u} /\ u = conn[c].upto
    BY <1>4, <1>10 DEF EndPass
  <2>2. /\ r \in ConnRecord /\ r.batch = {} /\ r.upto = 0 /\ r.req = "none" /\ r.id = 0
        /\ r.offset = u /\ r.queue = conn[c].queue /\ r.posted = cn.posted
        /\ r.pc = conn[c].pc /\ r.stop = conn[c].stop
    BY <1>4, <1>8, <2>1 DEF ConnRecord
  <2> HIDE DEF r, u
  <2>3. conn'[c] = r
    BY <1>1, <2>1 DEF Becomes
  <2>4. Offsets(c)'
    BY <1>8, <2>1, <2>2, <2>3 DEF Offsets
  <2>5. Batches(c)'
    BY <2>2, <2>3 DEF Batches
  <2>6. Echoes(c)'
    BY <1>9, <2>2, <2>3 DEF Echoes
  <2>7. Replays(c)'
    BY <1>2, <1>7, <1>8, <2>1, <2>2, <2>3, ReplaysOn
  <2>8. saved' = saved \/ (saved' \in Nat /\ 1 <= saved' /\ saved' <= Size)
    BY <1>8, <2>1
  <2>9. QED
    BY <1>1, <1>2, <1>7, <1>8, <2>1, <2>2, <2>4, <2>5, <2>6, <2>7, <2>8, ObjectStep
<1>11. CASE /\ rest # {} /\ UNCHANGED saved
            /\ conn' = [conn EXCEPT ![c] = Post([cn EXCEPT !.batch = rest, !.id = 0])]
  <2> DEFINE cm == [cn EXCEPT !.batch = rest, !.id = 0]
             h  == Current(cm)
             r  == Post(cm)
  <2>1. rest \in SUBSET Nat /\ rest \subseteq conn[c].batch
    BY <1>4 DEF ConnRecord
  <2> HIDE DEF rest
  <2>2. /\ cm \in ConnRecord /\ cm.stop = conn[c].stop /\ cm.pc = conn[c].pc
        /\ cm.offset = conn[c].offset /\ cm.upto = conn[c].upto /\ cm.batch = rest
        /\ cm.id = 0 /\ cm.marks = conn[c].marks
        /\ cm.posted = cn.posted /\ cm.queue = conn[c].queue
    BY <1>4, <2>1 DEF ConnRecord
  <2>3. h \in rest /\ h \in Nat
    BY <1>11, <2>1, <2>2, CurrentIs
  <2>4. h \in Lines /\ file[h].text \in Texts
    <3>1. h \in Lines
      BY <1>1, <2>1, <2>3 DEF Batches
    <3>2. QED
      BY <3>1, LineText
  <2> HIDE DEF cm, h
  <2>5. r = [cm EXCEPT !.req = "sent", !.marks = @ \cup {file[h].text}]
    BY DEF Post, h
  <2> HIDE DEF r
  <2>6. /\ r \in ConnRecord /\ r.batch = rest /\ r.upto = conn[c].upto /\ r.req = "sent"
        /\ r.offset = conn[c].offset /\ r.queue = conn[c].queue /\ r.posted = cn.posted
        /\ r.pc = conn[c].pc /\ r.stop = conn[c].stop /\ file[h].text \in r.marks
    BY <2>2, <2>4, <2>5 DEF ConnRecord
  <2>7. Becomes(c, r) /\ conn'[c] = r
    BY <1>1, <1>11 DEF Becomes, r, cm
  <2>8. Current(r) = h
    BY <2>2, <2>6 DEF Current, h
  <2>9. Offsets(c)'
    BY <1>1, <1>2, <1>8, <2>6, <2>7 DEF Offsets
  <2>10. Batches(c)'
    <3>1. \A b \in rest : b \in Lines /\ b > conn[c].offset
      BY <1>1, <2>1 DEF Batches
    <3>2. Current(conn'[c]) = h
      BY <2>7, <2>8
    <3>3. QED
      BY <1>8, <1>11, <2>6, <2>7, <3>1, <3>2 DEF Batches
  <2>11. Echoes(c)'
    BY <1>9, <2>6, <2>7 DEF Echoes
  <2>12. Replays(c)'
    <3>1. ASSUME NEW j \in Lines, NEW b \in rest, j > conn[c].offset, j < b
          PROVE  j \in rest \/ PostedBy(c, j, Len(log))
      <4>1. j \in conn[c].batch \/ PostedBy(c, j, Len(log))
        BY <1>2, <2>1, <3>1, InBetween
      <4>2. PostedBy(c, k, Len(log))
        BY <1>3, <1>7 DEF PostedBy, SameLines
      <4>3. QED
        BY <4>1, <4>2 DEF rest
    <3>2. conn'[c].offset = conn[c].offset /\ conn'[c].batch = rest
      BY <2>6, <2>7
    <3>3. conn'[c].offset \in Nat /\ conn'[c].offset >= conn[c].offset
      BY <1>8, <3>2
    <3>4. \A j \in Lines, b \in conn'[c].batch :
             j > conn'[c].offset /\ j < b => j \in conn'[c].batch \/ PostedBy(c, j, Len(log))
      BY <3>1, <3>2
    <3>5. QED
      BY <1>2, <1>7, <1>8, <3>3, <3>4, ReplaysOn
  <2>13. QED
    BY <1>1, <1>2, <1>7, <1>8, <1>11, <2>6, <2>7, <2>9, <2>10, <2>11, <2>12, ObjectStep
<1>12. QED
  BY <1>6, <1>10, <1>11

\* The pass is given up; object c may have stopped with it.
LEMMA GivesUp ==
    ASSUME BridgeInv, NEW c \in Conns, conn[c].req # "none", NEW r \in ConnRecord, Becomes(c, r),
           UNCHANGED <<file, writing, saved, cur, skipped>>, left' \in 0 .. MaxEvents,
           SameLines(c), r.queue \in Seq(DOMAIN log),
           r.batch = {}, r.upto = 0, r.req = "none", r.id = 0,
           r.offset = conn[c].offset, r.posted = conn[c].posted,
           r.pc = "off" \/ r.pc = conn[c].pc,
           conn[c].pc # "off" =>
              \A m \in DOMAIN log : log[m].via = c =>
                 (log'[m] = log[m] /\ log[m].answer # "pending") \/ log'[m].answer = "lost"
    PROVE  BridgeInv'
<1>1. /\ conn \in [Conns -> ConnRecord] /\ ~ c > cur /\ TypeOK
      /\ Offsets(c) /\ Batches(c) /\ Echoes(c) /\ conn[c].batch # {}
  BY PostingIs, ConnIs DEF BridgeInv
<1>2. conn'[c] = r
  BY <1>1 DEF Becomes
<1>3. Size' = Size /\ Lines' = Lines /\ Size \in Nat /\ conn[c].offset \in Nat
  BY <1>1, Sized, ConnIs DEF Size, Bytes, Lines, NL, Char
<1>4. Offsets(c)'
  BY <1>1, <1>2, <1>3 DEF Offsets
<1>5. Batches(c)'
  BY <1>2 DEF Batches
<1>6. Echoes(c)'
  <2>1. SUFFICES ASSUME conn[c].pc # "off", NEW m \in DOMAIN log, log'[m].via = c
                 PROVE  /\ log'[m].answer = "ok" => m \in conn[c].posted
                        /\ log'[m].answer # "pending"
    BY <1>2 DEF Echoes, SameLines
  <2>2. log[m].via = c
    BY <2>1 DEF SameLines
  <2>3. QED
    BY <1>1, <2>1, <2>2 DEF Echoes
<1>7. Replays(c)'
  BY <1>1, <1>2, <1>3, ReplaysOn
<1>8. QED
  BY <1>1, <1>4, <1>5, <1>6, <1>7, ObjectStep

LEMMA UnmarkIs ==
    ASSUME BridgeInv, NEW c \in Conns
    PROVE  /\ Unmark(conn[c]) \in ConnRecord
           /\ Unmark(conn[c]).batch = {} /\ Unmark(conn[c]).upto = 0
           /\ Unmark(conn[c]).req = "none" /\ Unmark(conn[c]).id = 0
           /\ Unmark(conn[c]).offset = conn[c].offset
           /\ Unmark(conn[c]).posted = conn[c].posted
           /\ Unmark(conn[c]).pc = conn[c].pc /\ Unmark(conn[c]).stop = conn[c].stop
           /\ Unmark(conn[c]).queue = conn[c].queue
<1>1. conn[c] \in ConnRecord
  BY ConnIs
<1> DEFINE t == file[Current(conn[c])].text
<1>2. Unmark(conn[c]) = [conn[c] EXCEPT !.marks = @ \ {t},
                            !.batch = {}, !.upto = 0, !.req = "none", !.id = 0]
  BY DEF Unmark
<1> DEFINE u == Unmark(conn[c])
<1> HIDE DEF t, u
<1>3. u = [conn[c] EXCEPT !.marks = @ \ {t}, !.batch = {}, !.upto = 0, !.req = "none", !.id = 0]
  BY <1>2 DEF u
<1>4. /\ u.batch = {} /\ u.upto = 0 /\ u.req = "none" /\ u.id = 0
      /\ u.offset = conn[c].offset /\ u.posted = conn[c].posted
      /\ u.pc = conn[c].pc /\ u.stop = conn[c].stop /\ u.queue = conn[c].queue
  BY <1>1, <1>3 DEF ConnRecord
<1>5. u \in ConnRecord
  BY <1>1, <1>3 DEF ConnRecord
<1>6. QED
  BY <1>4, <1>5 DEF u

LEMMA PostFailsKeeps ==
    ASSUME BridgeInv, NEW c \in Conns, PostFails(c)
    PROVE  BridgeInv'
<1> DEFINE r == Unmark(conn[c])
<1>1. /\ conn[c].req # "none" /\ Spend(1) /\ Lose(c) /\ Becomes(c, r)
      /\ UNCHANGED <<file, writing, saved, cur, skipped>>
      /\ TypeOK /\ Batches(c) /\ Echoes(c)
  BY DEF PostFails, BridgeInv
<1>2. /\ r \in ConnRecord /\ r.batch = {} /\ r.upto = 0 /\ r.req = "none" /\ r.id = 0
      /\ r.offset = conn[c].offset /\ r.posted = conn[c].posted /\ r.pc = conn[c].pc
      /\ r.queue \in Seq(DOMAIN log)
  BY UnmarkIs, ConnIs
<1>3. left' \in 0 .. MaxEvents
  BY <1>1, Bounded
<1> HIDE DEF r
<1>4. CASE conn[c].req = "landed"
  <2> DEFINE i == conn[c].id
  <2>1. i \in DOMAIN log /\ log[i].via = c
    BY <1>1, <1>4 DEF Batches
  <2>2. log' = [log EXCEPT ![i].answer = "lost"]
    BY <1>1, <1>4 DEF Lose
  <2> HIDE DEF i
  <2>3. SameLines(c) /\ log'[i].answer = "lost" /\ \A m \in DOMAIN log : m # i => log'[m] = log[m]
    BY <1>1, <2>1, <2>2, Reanswered
  <2>4. conn[c].pc # "off" =>
           \A m \in DOMAIN log : log[m].via = c =>
              (log'[m] = log[m] /\ log[m].answer # "pending") \/ log'[m].answer = "lost"
    BY <1>1, <2>3 DEF Echoes, i
  <2>5. QED
    BY <1>1, <1>2, <1>3, <2>3, <2>4, GivesUp
<1>5. CASE conn[c].req # "landed"
  <2>1. log' = log
    BY <1>1, <1>5 DEF Lose
  <2>2. SameLines(c)
    BY <1>1, <2>1, SameLogLines
  <2>3. conn[c].pc # "off" =>
           \A m \in DOMAIN log : log[m].via = c =>
              (log'[m] = log[m] /\ log[m].answer # "pending") \/ log'[m].answer = "lost"
    BY <1>1, <1>5, <2>1 DEF Echoes
  <2>4. QED
    BY <1>1, <1>2, <1>3, <2>2, <2>3, GivesUp
<1>6. QED
  BY <1>4, <1>5

LEMMA RefusedKeeps ==
    ASSUME BridgeInv, NEW c \in Conns, Refused(c)
    PROVE  BridgeInv'
<1>1. /\ conn[c].req = "sent" /\ Spend(1)
      /\ UNCHANGED <<file, writing, saved, log, cur, skipped>>
      /\ TypeOK /\ Echoes(c)
  BY DEF Refused, BridgeInv
<1>2. PICK r \in Stopped(Unmark(conn[c]), "dead") : Becomes(c, r)
  BY DEF Refused
<1>3. /\ r \in ConnRecord /\ r.batch = {} /\ r.upto = 0 /\ r.req = "none" /\ r.id = 0
      /\ r.offset = conn[c].offset /\ r.posted = conn[c].posted
      /\ r.pc = "off" \/ r.pc = conn[c].pc
      /\ r.queue \in Seq(DOMAIN log)
  <2> DEFINE u == Unmark(conn[c])
  <2>1. /\ u \in ConnRecord /\ u.batch = {} /\ u.upto = 0 /\ u.req = "none" /\ u.id = 0
        /\ u.offset = conn[c].offset /\ u.posted = conn[c].posted /\ u.pc = conn[c].pc
    BY UnmarkIs
  <2>2. r \in Stopped(u, "dead")
    OBVIOUS
  <2> HIDE DEF u
  <2>3. /\ r \in ConnRecord /\ (r.pc = "off" \/ r.pc = u.pc) /\ r.queue = <<>>
        /\ r.offset = u.offset /\ r.upto = u.upto /\ r.batch = u.batch
        /\ r.req = u.req /\ r.id = u.id /\ r.posted = u.posted
    BY <2>1, <2>2, StoppedIs
  <2>4. QED
    BY <2>1, <2>3, NoQueue
<1>4. left' \in 0 .. MaxEvents /\ SameLines(c)
  BY <1>1, Bounded, SameLogLines
<1>5. conn[c].pc # "off" =>
         \A m \in DOMAIN log : log[m].via = c =>
            (log'[m] = log[m] /\ log[m].answer # "pending") \/ log'[m].answer = "lost"
  BY <1>1 DEF Echoes
<1>6. QED
  BY <1>1, <1>2, <1>3, <1>4, <1>5, GivesUp

-----------------------------------------------------------------------------
(* The theorems.                                                             *)
LEMMA InitBridge == Init => BridgeInv
<1> SUFFICES ASSUME Init PROVE BridgeInv
  OBVIOUS
<1>1. PICK t \in History : file = <<Char("old", t), NL>>
  BY DEF Init
<1>2. t \in Texts /\ t # None
  BY TextsAssumption
<1>3. /\ file \in Seq(Chars) /\ Len(file) = 2 /\ DOMAIN file = 1 .. 2
      /\ file[1].kind = "old" /\ file[1].text = t /\ file[2] = NL /\ NL.kind = "newline"
      /\ NL.text = None /\ file[1] # NL
  BY <1>1, <1>2 DEF Char, NL, Chars
<1>4. writing = FALSE /\ saved = None /\ log = << >> /\ cur = 1 /\ left = MaxEvents
      /\ skipped = FALSE
  BY DEF Init
<1>5. FileInv
  <2>1. ASSUME NEW i \in DOMAIN file
        PROVE  /\ file[i].kind = "newline" <=> file[i] = NL
               /\ file[i].text = None <=> file[i] = NL
               /\ file[i].kind = "old" => i = 1
               /\ file[i].kind = "agent" => i > 1 /\ file[i - 1] = NL
    <3>1. i = 1 \/ i = 2
      BY <1>3
    <3>2. QED
      BY <1>2, <1>3, <3>1
  <2>2. QED
    BY <1>3, <2>1 DEF FileInv
<1>6. SavedInv /\ LogInv /\ PostsInFileOrder
  BY <1>4 DEF SavedInv, LogInv, PostsInFileOrder
<1>7. Size \in Nat /\ Size >= 2
  <2>1. Bytes(0, 2) \in Nat /\ Bytes(0, 2) >= 2 - 0
    BY WideCount
  <2>2. QED
    BY <1>3, <2>1 DEF Size
<1>8. ReadOffset \in Nat /\ ReadOffset >= 1 /\ ReadOffset <= Size
  BY <1>4, <1>7 DEF ReadOffset
<1> DEFINE r == [Gone EXCEPT !.stop = "no", !.pc = "connecting", !.offset = ReadOffset]
<1>9. /\ r \in ConnRecord /\ r.stop = "no" /\ r.offset = ReadOffset
      /\ r.upto = 0 /\ r.batch = {} /\ r.req = "none" /\ r.queue = <<>>
  BY <1>8, GoneIs DEF Gone, ConnRecord
<1>10. conn = [c \in Conns |-> IF c = 1 THEN r ELSE Gone]
  BY DEF Init
<1> HIDE DEF r
<1>11. TypeOK
  <2>1. 1 \in Conns /\ MaxEvents \in 0 .. MaxEvents
    BY TextsAssumption DEF Conns
  <2>2. conn \in [Conns -> ConnRecord]
    BY <1>9, <1>10, GoneIs
  <2>3. << >> \in Seq([via : Conns \cup {Other}, line : Nat, text : Texts,
                       answer : {"pending", "ok", "lost"}])
    OBVIOUS
  <2>4. QED
    BY <1>3, <1>4, <2>1, <2>2, <2>3 DEF TypeOK, Chars
<1>12. ASSUME NEW c \in Conns
       PROVE  Offsets(c) /\ Batches(c) /\ Echoes(c) /\ Replays(c) /\ Queued(c) /\ Newest(c)
  <2>1. \/ conn[c] = r /\ c = 1
        \/ conn[c] = Gone
    BY <1>10
  <2>2. /\ conn[c].batch = {} /\ conn[c].req = "none" /\ conn[c].upto = 0 /\ conn[c].queue = <<>>
        /\ (conn[c].offset = 0 /\ conn[c].stop # "no") \/ conn[c].offset = ReadOffset
    BY <1>9, <2>1, GoneIs
  <2>3. Offsets(c) /\ Batches(c)
    BY <1>7, <1>8, <2>2 DEF Offsets, Batches
  <2>4. Echoes(c) /\ Replays(c)
    BY <1>4, <2>2 DEF Echoes, Replays
  <2>5. Queued(c)
    BY <2>2, NoQueue DEF Queued
  <2>6. Newest(c)
    BY <1>4, <2>1 DEF Newest
  <2>7. QED
    BY <2>3, <2>4, <2>5, <2>6
<1>13. QED
  BY <1>5, <1>6, <1>11, <1>12 DEF BridgeInv

LEMMA BridgeStep ==
    ASSUME BridgeInv, [Next]_vars
    PROVE  BridgeInv'
<1>1. ASSUME NEW t \in Texts, AgentBegins(t) \/ OtherPosts(t)
      PROVE  BridgeInv'
  BY <1>1, AgentBeginsKeeps, OtherPostsKeeps
<1>2. CASE AgentEnds
  BY <1>2, AgentEndsKeeps
<1>3. ASSUME NEW c \in Conns, ConnStep(c)
      PROVE  BridgeInv'
  <2>1. CASE Pass(c) \/ Land(c) \/ Answer(c) \/ PostFails(c) \/ Refused(c)
    BY <2>1, PassKeeps, LandKeeps, AnswerKeeps, PostFailsKeeps, RefusedKeeps
  <2>2. CASE Deliver(c) \/ Rejected(c)
    BY <2>2, DeliverKeeps, RejectedKeeps
  <2>3. CASE Connect(c)
    BY <2>3, GoesKeeps DEF Connect
  <2>4. CASE ConnectFails(c) \/ Disconnect(c)
    <3>1. Retry(c) \in {"connecting", "live", "off"}
      BY DEF Retry
    <3>2. QED
      BY <2>4, <3>1, GoesKeeps DEF ConnectFails, Disconnect
  <2>5. QED
    BY <1>3, <2>1, <2>2, <2>3, <2>4 DEF ConnStep
<1>4. CASE RemoveConnection \/ Crash \/ Launch
  BY <1>4, RemoveConnectionKeeps, CrashKeeps, LaunchKeeps
<1>5. CASE UNCHANGED vars
  <2>1. TypeOK /\ FileInv /\ UNCHANGED vars
    BY <1>5 DEF BridgeInv
  <2>2. TypeOK' /\ Grew /\ FileInv'
    BY <2>1, SameFileInv DEF TypeOK, vars
  <2>3. QED
    BY <2>1, <2>2, AllBystand, QuietStep DEF vars
<1>6. QED
  BY <1>1, <1>2, <1>3, <1>4, <1>5 DEF Next

\* Whatever the texts, the objects and the events: the file grows by whole
\* lines or beginnings of lines, the offsets stay within it, and what an object
\* may still post was posted before or comes next.
THEOREM BridgeInvariant == Spec => []BridgeInv
<1>1. Init => BridgeInv
  BY InitBridge
<1>2. BridgeInv /\ [Next]_vars => BridgeInv'
  BY BridgeStep
<1>3. QED
  BY <1>1, <1>2, PTL DEF Spec

\* File, log and objects hold what the code puts there.
THEOREM BridgeTyped == Spec => []TypeOK
<1>1. BridgeInv => TypeOK
  BY DEF BridgeInv
<1>2. QED
  BY <1>1, BridgeInvariant, PTL

\* No offset passes the end of the file, so no pass takes an append for a
\* truncation (drain, bridge/connection.mjs:107-112).
THEOREM OffsetsStayWithin == Spec => []OffsetWithinFile
<1>1. BridgeInv => OffsetWithinFile
  BY DEF BridgeInv, OffsetWithinFile, Offsets, SavedInv
<1>2. QED
  BY <1>1, BridgeInvariant, PTL

LEMMA PostedLines ==
    ASSUME BridgeInv, NEW m \in DOMAIN log, log[m].via # Other
    PROVE  file[log[m].line].kind = "agent"
BY DEF BridgeInv, LogInv, Lines

\* What came from the group is never posted back
\* (the tag that drain looks at, bridge/connection.mjs:124).
THEOREM NothingPostedBack == Spec => []GroupLinesNotPostedBack
<1>1. BridgeInv => GroupLinesNotPostedBack
  BY PostedLines DEF GroupLinesNotPostedBack
<1>2. QED
  BY <1>1, BridgeInvariant, PTL

\* What was in the file before the first start is never sent
\* (readOffset, bridge/connection.mjs:90-92).
THEOREM HistoryStays == Spec => []HistoryNotSent
<1>1. BridgeInv => HistoryNotSent
  BY PostedLines DEF HistoryNotSent
<1>2. QED
  BY <1>1, BridgeInvariant, PTL

\* One object posts the lines in the order of the file, but for those it had
\* posted before (drain, bridge/connection.mjs:119-140).
THEOREM PostsAreInOrder == Spec => []PostsInFileOrder
<1>1. BridgeInv => PostsInFileOrder
  BY DEF BridgeInv
<1>2. QED
  BY <1>1, BridgeInvariant, PTL

LEMMA OwnPostIsKnown ==
    ASSUME BridgeInv, NEW c \in Conns, Deliver(c), file' # file,
           log[Head(conn[c].queue)].via = c
    PROVE  log[Head(conn[c].queue)].answer = "lost"
<1> DEFINE m == Head(conn[c].queue)
<1>1. /\ conn[c].pc = "live" /\ m \in DOMAIN log /\ (Suppressed(c, m) => Expired(c, m))
      /\ Batches(c) /\ Echoes(c) /\ TypeOK /\ LogInv
  BY HeadTailProperties DEF Deliver, BridgeInv, Queued
<1> HIDE DEF m
<1>2. log[m].answer \in {"pending", "ok", "lost"} /\ log[m].via = c
  BY <1>1, LogTyped DEF m
<1>3. ASSUME log[m].answer = "ok" PROVE FALSE
  <2>1. m \in conn[c].posted
    BY <1>1, <1>2, <1>3 DEF Echoes
  <2>2. QED
    BY <1>1, <2>1 DEF Suppressed, Expired
<1>4. ASSUME log[m].answer = "pending" PROVE FALSE
  <2>1. conn[c].req = "landed" /\ conn[c].id = m
    BY <1>1, <1>2, <1>4 DEF Echoes
  <2>2. log[m].line = Current(conn[c]) /\ file[Current(conn[c])].text \in conn[c].marks
    BY <1>1, <2>1 DEF Batches
  <2>3. log[m].text = file[Current(conn[c])].text
    BY <1>1, <1>2, <2>2, ConnsAre DEF LogInv
  <2>4. QED
    BY <1>1, <2>1, <2>2, <2>3 DEF Suppressed, Expired
<1>5. QED
  BY <1>2, <1>3, <1>4 DEF m

\* The echo of an object's own post, whether it comes before the answer to the
\* post or after it, is not written to the file unless that answer was lost
\* (markSent, appendIncoming: bridge/connection.mjs:57-67, 150-151).
THEOREM OwnPostsStayOut == Spec => OwnPostsNotWritten
<1>1. BridgeInv => [\A c \in Conns :
         (Deliver(c) /\ file' # file) =>
            LET m == log[Head(conn[c].queue)] IN m.via = c => m.answer = "lost"]_vars
  BY OwnPostIsKnown
<1>2. QED
  BY <1>1, BridgeInvariant, PTL DEF OwnPostsNotWritten
=============================================================================
