-------------------------- MODULE PairingProofs --------------------------
(***************************************************************************)
(* The safety of device pairing for any number of pairings, sessions and   *)
(* requests in flight.                                                     *)
(*                                                                         *)
(* Neither property is inductive: a claim answers with what it read a      *)
(* query ago, and an approval writes without looking again.  What carries  *)
(* them is that a session minted for an approval is in one place at a      *)
(* time, with the approval, in one row, or with the claims of that row.    *)
(***************************************************************************)
EXTENDS Pairing, TLAPS

Approving == {"approveRead", "approveMint", "approveWrite"}
Holding   == {"approveWrite", "claimWrite", "token"}

\* What call c relies on: ow, pk, hd are owner, parked and handed.
CallOK(c, ow, pk, hd) ==
    /\ c.pc \in Approving => c.user # None
    /\ c.pc \in Approving \cup {"claimRead", "claimWrite"} => c.pairing # None
    /\ c.pc \notin Holding => c.session = None
    /\ c.pc \in Holding => c.session # None /\ c.user # None /\ ow[c.session] = c.user
    /\ c.pc = "approveWrite" => c.session \notin hd /\ \A p \in Pairings : pk[p] # c.session
    /\ c.pc = "claimWrite" => \A p \in Pairings : pk[p] = c.session => p = c.pairing

\* An approval that has not been written has its session for itself.
Apart(c, d) == c.pc = "approveWrite" => c.session # d.session

CallsOK ==
    /\ \A r \in Calls : CallOK(call[r], owner, parked, handed)
    /\ \A r, q \in Calls : r # q => Apart(call[r], call[q])

\* A parked session is its approver's, and is in one row; an account has one.
RowsOK ==
    /\ \A p \in Pairings : row[p] # "there" => parked[p] = None
    /\ \A p \in Pairings : parked[p] # None =>
         owner[parked[p]] = username[p] /\ username[p] # None
    /\ \A p, q \in Pairings : parked[p] = parked[q] /\ parked[p] # None => p = q
    /\ \A s \in handed : owner[s] # None
    /\ account # NoAccount => account.session # None /\ account.user # None

PairInv == TypeOK /\ CallsOK /\ RowsOK /\ NameMatchesSession /\ HandedIsScrubbed

-----------------------------------------------------------------------------
(* What a step leaves of the calls that it does not move.                    *)

\* A session that was minted stays its owner's.
OwnersStay == \A s \in Sessions : owner[s] # None => owner'[s] = owner[s]

\* The step does not touch what call d relies on.
Kept(d) ==
    /\ d.pc = "approveWrite" => d.session \notin handed' /\ \A p \in Pairings : parked'[p] # d.session
    /\ d.pc = "claimWrite" => \A p \in Pairings : parked'[p] = d.session => parked[p] = d.session

\* A call that is not touched relies on as much as before.
LEMMA KeptOK ==
    ASSUME NEW d \in CallRecord, CallOK(d, owner, parked, handed), OwnersStay, Kept(d)
    PROVE  CallOK(d, owner', parked', handed')
<1>1. d.pc \in Holding => d.session \in Sessions /\ owner[d.session] # None
  BY DEF CallOK, CallRecord
<1>2. d.pc \in Holding => owner'[d.session] = d.user
  BY <1>1 DEF CallOK, OwnersStay
<1>3. /\ d.pc = "approveWrite" => d.session \notin handed' /\ \A p \in Pairings : parked'[p] # d.session
      /\ d.pc = "claimWrite" => \A p \in Pairings : parked'[p] = d.session => p = d.pairing
  BY DEF CallOK, Kept
<1>4. QED
  BY <1>2, <1>3, Zenon DEF CallOK

\* The calls and what each of them relies on.
LEMMA InFlight ==
    ASSUME PairInv, NEW r \in Calls
    PROVE  /\ call[r] \in CallRecord /\ call \in [Calls -> CallRecord]
           /\ CallOK(call[r], owner, parked, handed)
           /\ \A q \in Calls \ {r} : Apart(call[r], call[q]) /\ Apart(call[q], call[r])
<1>1. call[r] \in CallRecord /\ call \in [Calls -> CallRecord]
  BY DEF PairInv, TypeOK
<1>2. QED
  BY <1>1 DEF PairInv, CallsOK

\* Call r goes on as c; the step touches no other.
LEMMA OneMoves ==
    ASSUME PairInv, OwnersStay, NEW r \in Calls, NEW c \in CallRecord,
           call' = [call EXCEPT ![r] = c],
           CallOK(c, owner', parked', handed'),
           \A q \in Calls \ {r} : Kept(call[q]) /\ Apart(c, call[q]) /\ Apart(call[q], c)
    PROVE  CallsOK' /\ call' \in [Calls -> CallRecord]
<1>1. call \in [Calls -> CallRecord]
  BY DEF PairInv, TypeOK
<1>2. /\ call' \in [Calls -> CallRecord] /\ call'[r] = c
      /\ \A q \in Calls \ {r} : call'[q] = call[q]
  BY <1>1
<1>3. ASSUME NEW q \in Calls PROVE CallOK(call'[q], owner', parked', handed')
  <2>1. CASE q = r
    BY <1>2, <2>1
  <2>2. CASE q # r
    <3>1. call[q] \in CallRecord /\ CallOK(call[q], owner, parked, handed)
      BY InFlight
    <3>2. CallOK(call[q], owner', parked', handed')
      BY <2>2, <3>1, KeptOK
    <3>3. QED
      BY <1>2, <2>2, <3>2
  <2>3. QED
    BY <2>1, <2>2
<1>4. ASSUME NEW q \in Calls, NEW t \in Calls, q # t PROVE Apart(call'[q], call'[t])
  <2>1. CASE q = r
    BY <1>2, <1>4, <2>1
  <2>2. CASE t = r
    BY <1>2, <1>4, <2>2
  <2>3. CASE q # r /\ t # r
    <3>1. Apart(call[q], call[t])
      BY <1>4 DEF PairInv, CallsOK
    <3>2. QED
      BY <1>2, <2>3, <3>1
  <2>4. QED
    BY <2>1, <2>2, <2>3
<1>5. QED
  BY <1>2, <1>3, <1>4 DEF CallsOK

\* A call that approves nothing and has no other session than it had.
LEMMA SameSession ==
    ASSUME PairInv, NEW r \in Calls, NEW c, c.pc # "approveWrite",
           c.session = None \/ c.session = call[r].session
    PROVE  \A q \in Calls \ {r} : Apart(c, call[q]) /\ Apart(call[q], c)
<1> SUFFICES ASSUME NEW q \in Calls \ {r} PROVE Apart(c, call[q]) /\ Apart(call[q], c)
  OBVIOUS
<1>1. Apart(call[q], call[r]) /\ CallOK(call[q], owner, parked, handed)
  BY InFlight
<1>2. call[q].pc = "approveWrite" => call[q].session # None
  BY <1>1 DEF CallOK, Holding
<1>3. QED
  BY <1>1, <1>2 DEF Apart

\* A slot that is free relies on nothing.
LEMMA FreeSlot ==
    /\ NoCall \in CallRecord /\ NoCall.pc = "idle" /\ NoCall.session = None
    /\ \A ow, pk, hd : CallOK(NoCall, ow, pk, hd)
<1>1. NoCall \in CallRecord /\ NoCall.pc = "idle" /\ NoCall.session = None
  BY DEF NoCall, CallRecord, PCs
<1>2. \A ow, pk, hd : CallOK(NoCall, ow, pk, hd)
  BY <1>1 DEF CallOK, Approving, Holding
<1>3. QED
  BY <1>1, <1>2

-----------------------------------------------------------------------------
(* Steps that read.                                                          *)

\* The tables and what the bridge tells of them; no row is taken away.
Unwritten ==
    /\ parked' = parked /\ username' = username /\ owner' = owner
    /\ account' = account /\ handed' = handed
    /\ row' \in [Pairings -> {"unused", "there", "swept"}]
    /\ \A p \in Pairings : row[p] = "there" => row'[p] = "there"
    /\ claimed' \subseteq Pairings /\ expired' \subseteq Pairings
    /\ pending' \in Pairings \cup {None}

\* Nothing that a call relies on is touched.
LEMMA Still ==
    ASSUME PairInv, Unwritten
    PROVE  /\ OwnersStay /\ \A q \in Calls : Kept(call[q])
           /\ RowsOK' /\ NameMatchesSession' /\ HandedIsScrubbed'
           /\ call' \in [Calls -> CallRecord] => TypeOK'
<1>1. \A q \in Calls : CallOK(call[q], owner, parked, handed)
  BY InFlight
<1>2. OwnersStay
  BY DEF Unwritten, OwnersStay
<1>3. \A q \in Calls : Kept(call[q])
  BY <1>1 DEF Kept, CallOK, Unwritten
<1>4. RowsOK'
  BY DEF PairInv, RowsOK, Unwritten
<1>5. NameMatchesSession'
  BY DEF PairInv, NameMatchesSession, Unwritten
<1>6. HandedIsScrubbed'
  BY DEF PairInv, HandedIsScrubbed, Unwritten
<1>7. call' \in [Calls -> CallRecord] => TypeOK'
  BY DEF PairInv, TypeOK, Unwritten
<1>8. QED
  BY <1>2, <1>3, <1>4, <1>5, <1>6, <1>7

\* A step that leaves the tables and the bridge alone.
LEMMA Untouched ==
    ASSUME PairInv, UNCHANGED <<tables, bridge, handed>>
    PROVE  Unwritten
<1>1. /\ row' = row /\ parked' = parked /\ username' = username /\ claimed' = claimed
      /\ expired' = expired /\ owner' = owner /\ pending' = pending
      /\ account' = account /\ handed' = handed
  BY DEF tables, bridge
<1>2. QED
  BY <1>1 DEF Unwritten, PairInv, TypeOK

\* A reader goes on as c.
LEMMA ReaderMoves ==
    ASSUME PairInv, Unwritten, NEW r \in Calls, NEW c \in CallRecord,
           call' = [call EXCEPT ![r] = c],
           CallOK(c, owner, parked, handed),
           \A q \in Calls \ {r} : Apart(c, call[q]) /\ Apart(call[q], c)
    PROVE  PairInv'
<1>1. /\ OwnersStay /\ \A q \in Calls : Kept(call[q])
      /\ RowsOK' /\ NameMatchesSession' /\ HandedIsScrubbed'
      /\ call' \in [Calls -> CallRecord] => TypeOK'
  BY Still
<1>2. CallOK(c, owner', parked', handed')
  BY DEF Unwritten
<1>3. CallsOK' /\ call' \in [Calls -> CallRecord]
  BY <1>1, <1>2, OneMoves
<1>4. QED
  BY <1>1, <1>3 DEF PairInv

\* A call that has written nothing in this step ends.
LEMMA ReaderEnds ==
    ASSUME PairInv, Unwritten, NEW r \in Calls, Finish(r)
    PROVE  PairInv'
<1>1. PICK c : c = NoCall
  OBVIOUS
<1>2. c \in CallRecord /\ c.pc # "approveWrite" /\ c.session = None
      /\ CallOK(c, owner, parked, handed)
  BY <1>1, FreeSlot
<1>3. call' = [call EXCEPT ![r] = c]
  BY <1>1 DEF Finish
<1>4. \A q \in Calls \ {r} : Apart(c, call[q]) /\ Apart(call[q], c)
  BY <1>2, SameSession
<1>5. QED
  BY <1>2, <1>3, <1>4, ReaderMoves

\* A call that goes to its next query as it is.
LEMMA Goes ==
    ASSUME PairInv, NEW r \in Calls, NEW l \in PCs, Goto(r, l)
    PROVE  \E c \in CallRecord :
             /\ call' = [call EXCEPT ![r] = c] /\ c.pc = l
             /\ c.pairing = call[r].pairing /\ c.user = call[r].user
             /\ c.session = call[r].session
<1>1. PICK c : c = [call[r] EXCEPT !.pc = l]
  OBVIOUS
<1>2. call[r] \in CallRecord
  BY InFlight
<1>3. /\ c \in CallRecord /\ c.pc = l /\ c.pairing = call[r].pairing
      /\ c.user = call[r].user /\ c.session = call[r].session
  BY <1>1, <1>2 DEF CallRecord
<1>4. call' = [call EXCEPT ![r] = c]
  BY <1>1 DEF Goto
<1>5. QED
  BY <1>3, <1>4

-----------------------------------------------------------------------------
(* The calls that start, and those that look.                                *)

\* The bridge asks for a pairing.
LEMMA BeginOK ==
    ASSUME PairInv, NEW r \in Calls, Begin(r)
    PROVE  PairInv'
<1>1. PICK c : c = [NoCall EXCEPT !.pc = "sweep", !.heard = TRUE]
  OBVIOUS
<1>2. c = [pc |-> "sweep", pairing |-> None, user |-> None, session |-> None, heard |-> TRUE]
  BY <1>1 DEF NoCall
<1>3. c \in CallRecord /\ c.pc = "sweep" /\ c.session = None
  BY <1>2 DEF CallRecord, PCs
<1>4. CallOK(c, owner, parked, handed)
  BY <1>3 DEF CallOK, Approving, Holding
<1>5. \A q \in Calls \ {r} : Apart(c, call[q]) /\ Apart(call[q], c)
  BY <1>3, SameSession
<1>6. call' = [call EXCEPT ![r] = c] /\ Unwritten
  BY <1>1, Untouched DEF Begin
<1>7. QED
  BY <1>3, <1>4, <1>5, <1>6, ReaderMoves

\* A user approves a code.
LEMMA ApproveOK ==
    ASSUME PairInv, NEW r \in Calls, NEW u \in Users, NEW p \in Pairings, Approve(r, u, p)
    PROVE  PairInv'
<1>1. PICK c : c = [NoCall EXCEPT !.pc = "approveRead", !.user = u, !.pairing = p]
  OBVIOUS
<1>2. c = [pc |-> "approveRead", pairing |-> p, user |-> u, session |-> None, heard |-> FALSE]
  BY <1>1 DEF NoCall
<1>3. /\ c \in CallRecord /\ c.pc = "approveRead" /\ c.session = None
      /\ c.user = u /\ c.pairing = p /\ u # None /\ p # None
  BY <1>2, NoneAssumption DEF CallRecord, PCs
<1>4. CallOK(c, owner, parked, handed)
  BY <1>3 DEF CallOK, Approving, Holding
<1>5. \A q \in Calls \ {r} : Apart(c, call[q]) /\ Apart(call[q], c)
  BY <1>3, SameSession
<1>6. call' = [call EXCEPT ![r] = c] /\ Unwritten
  BY <1>1, Untouched DEF Approve
<1>7. QED
  BY <1>3, <1>4, <1>5, <1>6, ReaderMoves

\* The bridge polls for the pairing it waits for.
LEMMA PollOK ==
    ASSUME PairInv, NEW r \in Calls, Poll(r)
    PROVE  PairInv'
<1>1. PICK c : c = [NoCall EXCEPT !.pc = "claimRead", !.pairing = pending, !.heard = TRUE]
  OBVIOUS
<1>2. c = [pc |-> "claimRead", pairing |-> pending, user |-> None, session |-> None,
           heard |-> TRUE]
  BY <1>1 DEF NoCall
<1>3. pending \in Pairings /\ pending # None
  BY DEF Poll, PairInv, TypeOK
<1>4. c \in CallRecord /\ c.pc = "claimRead" /\ c.session = None /\ c.pairing # None
  BY <1>2, <1>3 DEF CallRecord, PCs
<1>5. CallOK(c, owner, parked, handed)
  BY <1>4 DEF CallOK, Approving, Holding
<1>6. \A q \in Calls \ {r} : Apart(c, call[q]) /\ Apart(call[q], c)
  BY <1>4, SameSession
<1>7. call' = [call EXCEPT ![r] = c] /\ Unwritten
  BY <1>1, Untouched DEF Poll
<1>8. QED
  BY <1>4, <1>5, <1>6, <1>7, ReaderMoves

\* A call that holds nothing goes on to where it holds nothing.
LEMMA GoesOn ==
    ASSUME PairInv, Unwritten, NEW r \in Calls, NEW m \in PCs \ Holding, Goto(r, m),
           call[r].pc \notin Holding,
           m \in Approving => call[r].user # None,
           m \in Approving \cup {"claimRead"} => call[r].pairing # None
    PROVE  PairInv'
<1>1. PICK c \in CallRecord :
             /\ call' = [call EXCEPT ![r] = c] /\ c.pc = m
             /\ c.pairing = call[r].pairing /\ c.user = call[r].user
             /\ c.session = call[r].session
  BY Goes
<1>2. c.session = None
  BY <1>1, InFlight DEF CallOK
<1>3. CallOK(c, owner, parked, handed)
  BY <1>1, <1>2 DEF CallOK, Holding
<1>4. \A q \in Calls \ {r} : Apart(c, call[q]) /\ Apart(call[q], c)
  BY <1>1, <1>2, SameSession DEF Holding
<1>5. QED
  BY <1>1, <1>3, <1>4, ReaderMoves

\* The approval reads the row.
LEMMA ApproveReadOK ==
    ASSUME PairInv, NEW r \in Calls, ApproveRead(r)
    PROVE  PairInv'
<1>1. Unwritten /\ call[r].pc = "approveRead" /\ CallOK(call[r], owner, parked, handed)
  BY Untouched, InFlight DEF ApproveRead
<1>2. CASE Finish(r)
  BY <1>1, <1>2, ReaderEnds
<1>3. CASE Goto(r, "approveMint")
  BY <1>1, <1>3, GoesOn DEF CallOK, Approving, Holding, PCs
<1>4. QED
  BY <1>2, <1>3 DEF ApproveRead

\* The claim reads the row: what it takes from an approved one is true of it.
LEMMA ClaimReadOK ==
    ASSUME PairInv, NEW r \in Calls, ClaimRead(r)
    PROVE  PairInv'
<1>1. /\ Unwritten /\ call[r].pc = "claimRead" /\ CallOK(call[r], owner, parked, handed)
      /\ call[r] \in CallRecord
  BY Untouched, InFlight DEF ClaimRead
<1>2. CASE Goto(r, "gone") \/ Goto(r, "waiting")
  BY <1>1, <1>2, GoesOn DEF CallOK, Approving, Holding, PCs
<1>3. CASE /\ parked[call[r].pairing] # None
           /\ call' = [call EXCEPT ![r].pc = "claimWrite",
                                   ![r].session = parked[call[r].pairing],
                                   ![r].user = username[call[r].pairing]]
  <2>1. PICK p \in Pairings : p = call[r].pairing
    BY <1>1 DEF CallOK, CallRecord
  <2>2. PICK c : c = [call[r] EXCEPT !.pc = "claimWrite", !.session = parked[p],
                                     !.user = username[p]]
    OBVIOUS
  <2>3. /\ parked[p] \in Sessions /\ username[p] \in Users /\ username[p] # None
        /\ owner[parked[p]] = username[p] /\ parked[p] # None
    BY <1>3, <2>1, NoneAssumption DEF PairInv, TypeOK, RowsOK
  <2>4. /\ c \in CallRecord /\ c.pc = "claimWrite" /\ c.session = parked[p]
        /\ c.user = username[p] /\ c.pairing = p
    BY <1>1, <2>1, <2>2, <2>3 DEF CallRecord, PCs
  <2>5. call' = [call EXCEPT ![r] = c]
    BY <1>3, <2>1, <2>2
  <2>6. \A q \in Pairings : parked[q] = parked[p] => q = p
    BY <2>3 DEF PairInv, RowsOK
  <2>7. CallOK(c, owner, parked, handed)
    BY <2>3, <2>4, <2>6, NoneAssumption DEF CallOK, Approving, Holding
  <2>8. \A q \in Calls : CallOK(call[q], owner, parked, handed)
    BY InFlight
  <2>9. \A q \in Calls \ {r} : Apart(c, call[q]) /\ Apart(call[q], c)
    BY <2>4, <2>8 DEF Apart, CallOK
  <2>10. QED
    BY <1>1, <2>4, <2>5, <2>7, <2>9, ReaderMoves
<1>4. QED
  BY <1>2, <1>3 DEF ClaimRead

\* The INSERT makes a row that holds nothing.
LEMMA InsertOK ==
    ASSUME PairInv, NEW r \in Calls, NEW p \in Pairings, Insert(r, p)
    PROVE  PairInv'
<1>1. call[r] \in CallRecord /\ CallOK(call[r], owner, parked, handed) /\ call[r].pc = "insert"
  BY InFlight DEF Insert
<1>2. PICK c : c = [call[r] EXCEPT !.pc = "begun", !.pairing = p]
  OBVIOUS
<1>3. c \in CallRecord /\ c.pc = "begun" /\ c.session = call[r].session
  BY <1>1, <1>2 DEF CallRecord, PCs
<1>4. call' = [call EXCEPT ![r] = c]
  BY <1>2 DEF Insert
<1>5. CallOK(c, owner, parked, handed)
  BY <1>1, <1>3 DEF CallOK, Approving, Holding
<1>6. \A q \in Calls \ {r} : Apart(c, call[q]) /\ Apart(call[q], c)
  BY <1>3, SameSession
<1>7. /\ row' = [row EXCEPT ![p] = "there"] /\ parked' = parked /\ username' = username
      /\ claimed' = claimed /\ expired' = expired /\ owner' = owner
      /\ pending' = pending /\ account' = account /\ handed' = handed
  BY DEF Insert, bridge
<1>8. Unwritten
  BY <1>7 DEF Unwritten, PairInv, TypeOK
<1>9. QED
  BY <1>3, <1>4, <1>5, <1>6, <1>8, ReaderMoves

\* An answer of the server that leaves the account as it is, and a lost one.
LEMMA AnsweredOK ==
    ASSUME PairInv, NEW r \in Calls,
           BridgeBegun(r) \/ BridgeGone(r) \/ BridgeWaiting(r) \/ Lost(r)
    PROVE  PairInv'
<1>1. /\ Finish(r) /\ row' = row /\ parked' = parked /\ username' = username
      /\ claimed' = claimed /\ expired' = expired /\ owner' = owner
      /\ account' = account /\ handed' = handed
      /\ pending' \in {pending, None, call[r].pairing}
  BY DEF BridgeBegun, BridgeGone, BridgeWaiting, Lost, tables, bridge
<1>2. call[r] \in CallRecord
  BY InFlight
<1>3. Unwritten
  BY <1>1, <1>2 DEF Unwritten, PairInv, TypeOK, CallRecord
<1>4. QED
  BY <1>1, <1>3, ReaderEnds

-----------------------------------------------------------------------------
(* The steps that write.                                                     *)

\* The sweep only takes away.
LEMMA SweepOK ==
    ASSUME PairInv, NEW r \in Calls, Sweep(r)
    PROVE  PairInv'
<1>1. PICK c \in CallRecord :
             /\ call' = [call EXCEPT ![r] = c] /\ c.pc = "insert"
             /\ c.pairing = call[r].pairing /\ c.user = call[r].user
             /\ c.session = call[r].session
  BY Goes DEF Sweep, PCs
<1>2. c.session = None
  BY <1>1, InFlight DEF CallOK, Holding, Sweep
<1>3. /\ claimed' = claimed /\ expired' = expired /\ owner' = owner
      /\ pending' = pending /\ account' = account /\ handed' = handed
  BY DEF Sweep, bridge
<1>4. PICK swept : swept = {p \in expired : Present(p)}
  OBVIOUS
<1>5. /\ row' = [p \in Pairings |-> IF p \in swept THEN "swept" ELSE row[p]]
      /\ parked' = [p \in Pairings |-> IF p \in swept THEN None ELSE parked[p]]
      /\ username' = [p \in Pairings |-> IF p \in swept THEN None ELSE username[p]]
  BY <1>4 DEF Sweep
<1>6. /\ row' \in [Pairings -> {"unused", "there", "swept"}]
      /\ parked' \in [Pairings -> Sessions \cup {None}]
      /\ username' \in [Pairings -> Users \cup {None}]
  BY <1>5 DEF PairInv, TypeOK
<1>7. /\ \A p \in Pairings : parked'[p] # None =>
           parked'[p] = parked[p] /\ username'[p] = username[p] /\ row'[p] = row[p]
      /\ \A p \in Pairings : row'[p] # "there" => parked'[p] = None
  BY <1>5 DEF PairInv, RowsOK
<1>8. \A q \in Calls : CallOK(call[q], owner, parked, handed)
  BY InFlight
<1>9. OwnersStay /\ \A q \in Calls : Kept(call[q])
  BY <1>3, <1>7, <1>8 DEF OwnersStay, Kept, CallOK, Holding
<1>10. CallOK(c, owner', parked', handed')
  BY <1>1, <1>2 DEF CallOK, Approving, Holding
<1>11. \A q \in Calls \ {r} : Apart(c, call[q]) /\ Apart(call[q], c)
  BY <1>1, <1>2, SameSession
<1>12. CallsOK' /\ call' \in [Calls -> CallRecord]
  BY <1>1, <1>9, <1>10, <1>11, OneMoves
<1>13. RowsOK'
  BY <1>3, <1>7 DEF PairInv, RowsOK
<1>14. NameMatchesSession'
  BY <1>3 DEF PairInv, NameMatchesSession
<1>15. HandedIsScrubbed'
  BY <1>3, <1>7, NoneAssumption DEF PairInv, TypeOK, HandedIsScrubbed
<1>16. TypeOK'
  BY <1>3, <1>6, <1>12 DEF PairInv, TypeOK
<1>17. QED
  BY <1>12, <1>13, <1>14, <1>15, <1>16 DEF PairInv

\* A session that nobody has seen is minted for the approver.
LEMMA ApproveMintOK ==
    ASSUME PairInv, NEW r \in Calls, NEW s \in Sessions, ApproveMint(r, s)
    PROVE  PairInv'
<1>1. /\ call[r] \in CallRecord /\ CallOK(call[r], owner, parked, handed)
      /\ call[r].pc = "approveMint" /\ owner[s] = None /\ s # None
  BY InFlight, NoneAssumption DEF ApproveMint
<1>2. PICK u \in Users : u = call[r].user
  BY <1>1 DEF CallOK, CallRecord, Approving
<1>3. PICK c : c = [call[r] EXCEPT !.pc = "approveWrite", !.session = s]
  OBVIOUS
<1>4. /\ c \in CallRecord /\ c.pc = "approveWrite" /\ c.session = s /\ c.user = u
      /\ c.pairing = call[r].pairing /\ c.pairing # None /\ u # None
  BY <1>1, <1>2, <1>3, NoneAssumption DEF CallRecord, PCs, CallOK, Approving
<1>5. call' = [call EXCEPT ![r] = c]
  BY <1>3 DEF ApproveMint
<1>6. /\ owner' = [owner EXCEPT ![s] = u]
      /\ row' = row /\ parked' = parked /\ username' = username /\ claimed' = claimed
      /\ expired' = expired /\ pending' = pending /\ account' = account /\ handed' = handed
  BY <1>2 DEF ApproveMint, bridge
<1>7. /\ owner \in [Sessions -> Users \cup {None}] /\ owner' \in [Sessions -> Users \cup {None}]
      /\ owner'[s] = u /\ \A t \in Sessions : t # s => owner'[t] = owner[t]
  BY <1>6 DEF PairInv, TypeOK
<1>8. \A p \in Pairings : parked[p] # None => parked[p] \in Sessions /\ owner[parked[p]] # None
  BY DEF PairInv, TypeOK, RowsOK
<1>9. s \notin handed /\ \A p \in Pairings : parked[p] # s
  BY <1>1, <1>8 DEF PairInv, RowsOK
<1>10. CallOK(c, owner', parked', handed')
  <2>1. owner'[c.session] = c.user /\ c.session # None /\ c.user # None
    BY <1>1, <1>4, <1>7
  <2>2. c.session \notin handed' /\ \A p \in Pairings : parked'[p] # c.session
    BY <1>4, <1>6, <1>9
  <2>3. QED
    BY <1>4, <2>1, <2>2 DEF CallOK, Holding
<1>11. \A q \in Calls : call[q].session # s
  <2>1. SUFFICES ASSUME NEW q \in Calls, call[q].session = s PROVE FALSE
    OBVIOUS
  <2>2. CallOK(call[q], owner, parked, handed)
    BY InFlight
  <2>3. owner[s] # None
    BY <1>1, <2>1, <2>2 DEF CallOK
  <2>4. QED
    BY <1>1, <2>3
<1>12. \A q \in Calls \ {r} : Apart(c, call[q]) /\ Apart(call[q], c)
  BY <1>4, <1>11 DEF Apart
<1>13. OwnersStay
  BY <1>1, <1>7 DEF OwnersStay
<1>14. \A q \in Calls : CallOK(call[q], owner, parked, handed)
  BY InFlight
<1>15. \A q \in Calls : Kept(call[q])
  BY <1>6, <1>14 DEF Kept, CallOK
<1>16. CallsOK' /\ call' \in [Calls -> CallRecord]
  BY <1>4, <1>5, <1>10, <1>12, <1>13, <1>15, OneMoves
<1>17. RowsOK'
  <2>1. \A t \in handed : owner[t] # None /\ t \in Sessions /\ owner'[t] # None
    BY <1>1, <1>7 DEF PairInv, RowsOK, TypeOK
  <2>2. \A p \in Pairings : parked[p] # None => owner'[parked[p]] = owner[parked[p]]
    BY <1>7, <1>8, <1>9
  <2>3. QED
    BY <1>6, <2>1, <2>2 DEF PairInv, RowsOK
<1>18. NameMatchesSession'
  <2>1. account # NoAccount =>
          /\ account.session \in Sessions
          /\ owner[account.session] = account.user /\ account \in AccountRecord
    BY DEF PairInv, NameMatchesSession, RowsOK, TypeOK, AccountRecord
  <2>2. account # NoAccount => account.session # s
    <3>1. SUFFICES ASSUME account # NoAccount, account.session = s PROVE FALSE
      OBVIOUS
    <3>2. QED
      BY <1>1, <2>1, <3>1 DEF PairInv, RowsOK
  <2>3. QED
    BY <1>6, <1>7, <2>1, <2>2 DEF NameMatchesSession
<1>19. HandedIsScrubbed'
  BY <1>6 DEF PairInv, HandedIsScrubbed
<1>20. TypeOK'
  BY <1>6, <1>7, <1>16 DEF PairInv, TypeOK
<1>21. QED
  BY <1>16, <1>17, <1>18, <1>19, <1>20 DEF PairInv

\* The approval parks its session, which is nowhere else.
LEMMA ApproveWriteOK ==
    ASSUME PairInv, NEW r \in Calls, ApproveWrite(r)
    PROVE  PairInv'
<1>1. /\ call[r] \in CallRecord /\ CallOK(call[r], owner, parked, handed)
      /\ call[r].pc = "approveWrite"
  BY InFlight DEF ApproveWrite
<1>2. PICK p \in Pairings : p = call[r].pairing
  BY <1>1 DEF CallOK, CallRecord, Approving
<1>3. PICK s \in Sessions : s = call[r].session
  BY <1>1 DEF CallOK, CallRecord, Holding
<1>4. PICK u \in Users : u = call[r].user
  BY <1>1 DEF CallOK, CallRecord, Holding
<1>5. /\ owner[s] = u /\ s \notin handed /\ \A q \in Pairings : parked[q] # s
      /\ s # None /\ u # None
  BY <1>1, <1>3, <1>4 DEF CallOK, Holding
<1>6. /\ row' = row /\ claimed' = claimed /\ expired' = expired /\ owner' = owner
      /\ pending' = pending /\ account' = account /\ handed' = handed /\ Finish(r)
  BY DEF ApproveWrite, bridge
<1>7. CASE ~Present(p)
  <2>1. parked' = parked /\ username' = username
    BY <1>2, <1>7 DEF ApproveWrite
  <2>2. Unwritten
    BY <1>6, <2>1 DEF Unwritten, PairInv, TypeOK
  <2>3. QED
    BY <1>6, <2>2, ReaderEnds
<1>8. CASE Present(p)
  <2>1. parked' = [parked EXCEPT ![p] = s] /\ username' = [username EXCEPT ![p] = u]
    BY <1>2, <1>3, <1>4, <1>8 DEF ApproveWrite
  <2>2. /\ parked' \in [Pairings -> Sessions \cup {None}]
        /\ username' \in [Pairings -> Users \cup {None}]
        /\ parked'[p] = s /\ username'[p] = u
        /\ \A q \in Pairings \ {p} : parked'[q] = parked[q] /\ username'[q] = username[q]
    BY <2>1 DEF PairInv, TypeOK
  <2>3. PICK c : c = NoCall
    OBVIOUS
  <2>4. /\ c \in CallRecord /\ c.pc # "approveWrite" /\ c.session = None
        /\ CallOK(c, owner', parked', handed') /\ call' = [call EXCEPT ![r] = c]
    BY <1>6, <2>3, FreeSlot DEF Finish
  <2>5. \A q \in Calls \ {r} : Apart(c, call[q]) /\ Apart(call[q], c)
    BY <2>4, SameSession
  <2>6. ASSUME NEW q \in Calls \ {r} PROVE Kept(call[q])
    <3>1. s # call[q].session
      BY <1>1, <1>3, InFlight DEF Apart
    <3>2. CallOK(call[q], owner, parked, handed)
      BY InFlight
    <3>3. \A t \in Pairings : parked'[t] = call[q].session => parked[t] = call[q].session
      BY <2>2, <3>1
    <3>4. QED
      BY <1>6, <3>2, <3>3 DEF Kept, CallOK
  <2>7. OwnersStay
    BY <1>6 DEF OwnersStay
  <2>8. CallsOK' /\ call' \in [Calls -> CallRecord]
    BY <2>4, <2>5, <2>6, <2>7, OneMoves
  <2>9. RowsOK'
    <3>1. \A q \in Pairings : row'[q] # "there" => parked'[q] = None
      BY <1>6, <1>8, <2>2 DEF Present, PairInv, RowsOK
    <3>2. \A q \in Pairings : parked'[q] # None =>
            owner'[parked'[q]] = username'[q] /\ username'[q] # None
      BY <1>5, <1>6, <2>2 DEF PairInv, RowsOK
    <3>3. ASSUME NEW q \in Pairings, NEW t \in Pairings, parked'[q] = parked'[t],
                 parked'[q] # None
          PROVE  q = t
      BY <1>5, <2>2, <3>3 DEF PairInv, RowsOK
    <3>4. QED
      BY <1>6, <3>1, <3>2, <3>3 DEF PairInv, RowsOK
  <2>10. NameMatchesSession'
    BY <1>6 DEF PairInv, NameMatchesSession
  <2>11. HandedIsScrubbed'
    BY <1>5, <1>6, <2>2 DEF PairInv, HandedIsScrubbed
  <2>12. TypeOK'
    BY <1>6, <2>2, <2>8 DEF PairInv, TypeOK
  <2>13. QED
    BY <2>8, <2>9, <2>10, <2>11, <2>12 DEF PairInv
<1>9. QED
  BY <1>7, <1>8

\* The claim empties the one row that may hold its session, and hands it over.
LEMMA ClaimWriteOK ==
    ASSUME PairInv, NEW r \in Calls, ClaimWrite(r)
    PROVE  PairInv'
<1>1. /\ call[r] \in CallRecord /\ CallOK(call[r], owner, parked, handed)
      /\ call[r].pc = "claimWrite"
  BY InFlight DEF ClaimWrite
<1>2. PICK p \in Pairings : p = call[r].pairing
  BY <1>1 DEF CallOK, CallRecord, Approving
<1>3. PICK s \in Sessions : s = call[r].session
  BY <1>1 DEF CallOK, CallRecord, Holding
<1>4. /\ owner[s] # None /\ s # None /\ owner[s] = call[r].user
      /\ \A q \in Pairings : parked[q] = s => q = p
  BY <1>1, <1>2, <1>3 DEF CallOK, Holding
<1>5. /\ row' = row /\ username' = username /\ expired' = expired /\ owner' = owner
      /\ pending' = pending /\ account' = account
      /\ handed' = handed \cup {s} /\ Goto(r, "token")
  BY <1>3 DEF ClaimWrite, bridge
<1>6. /\ parked' \in [Pairings -> Sessions \cup {None}] /\ claimed' \subseteq Pairings
      /\ parked'[p] = None
      /\ \A q \in Pairings \ {p} : parked'[q] = parked[q]
  <2>1. CASE Present(p)
    <3>1. parked' = [parked EXCEPT ![p] = None] /\ claimed' = claimed \cup {p}
      BY <1>2, <2>1 DEF ClaimWrite
    <3>2. QED
      BY <3>1 DEF PairInv, TypeOK
  <2>2. CASE ~Present(p)
    <3>1. parked' = parked /\ claimed' = claimed
      BY <1>2, <2>2 DEF ClaimWrite
    <3>2. QED
      BY <2>2, <3>1 DEF Present, PairInv, TypeOK, RowsOK
  <2>3. QED
    BY <2>1, <2>2
<1>7. PICK c \in CallRecord :
             /\ call' = [call EXCEPT ![r] = c] /\ c.pc = "token"
             /\ c.pairing = call[r].pairing /\ c.user = call[r].user
             /\ c.session = call[r].session
  BY <1>5, Goes DEF PCs
<1>8. CallOK(c, owner', parked', handed')
  BY <1>1, <1>5, <1>7 DEF CallOK, Approving, Holding
<1>9. \A q \in Calls \ {r} : Apart(c, call[q]) /\ Apart(call[q], c)
  BY <1>7, SameSession
<1>10. ASSUME NEW q \in Calls \ {r} PROVE Kept(call[q])
  <2>1. CallOK(call[q], owner, parked, handed) /\ Apart(call[q], call[r])
    BY InFlight
  <2>2. call[q].pc \in Holding => call[q].session # None
    BY <2>1 DEF CallOK
  <2>3. call[q].pc \in Holding =>
          \A t \in Pairings : parked'[t] = call[q].session => parked[t] = call[q].session
    BY <1>6, <2>2
  <2>4. call[q].pc = "approveWrite" => call[q].session # s
    BY <1>3, <2>1 DEF Apart
  <2>5. QED
    BY <1>5, <2>1, <2>3, <2>4 DEF Kept, CallOK, Holding
<1>11. OwnersStay
  BY <1>5 DEF OwnersStay
<1>12. CallsOK' /\ call' \in [Calls -> CallRecord]
  BY <1>7, <1>8, <1>9, <1>10, <1>11, OneMoves
<1>13. RowsOK'
  <2>1. \A q \in Pairings : parked'[q] # None => q # p /\ parked'[q] = parked[q]
    BY <1>6
  <2>2. \A q \in Pairings : row'[q] # "there" => parked'[q] = None
    BY <1>5, <2>1 DEF PairInv, RowsOK
  <2>3. \A q \in Pairings : parked'[q] # None =>
          owner'[parked'[q]] = username'[q] /\ username'[q] # None
    BY <1>5, <2>1 DEF PairInv, RowsOK
  <2>4. \A q, t \in Pairings : parked'[q] = parked'[t] /\ parked'[q] # None => q = t
    BY <2>1 DEF PairInv, RowsOK
  <2>5. \A t \in handed' : owner'[t] # None
    BY <1>4, <1>5 DEF PairInv, RowsOK
  <2>6. QED
    BY <1>5, <2>2, <2>3, <2>4, <2>5 DEF PairInv, RowsOK
<1>14. NameMatchesSession'
  BY <1>5 DEF PairInv, NameMatchesSession
<1>15. HandedIsScrubbed'
  <2>1. None \notin handed'
    BY <1>4, <1>5, NoneAssumption DEF PairInv, TypeOK
  <2>2. \A q \in Pairings \ {p} : parked'[q] # s /\ parked'[q] \notin handed
    BY <1>4, <1>6 DEF PairInv, HandedIsScrubbed
  <2>3. QED
    BY <1>5, <1>6, <2>1, <2>2 DEF HandedIsScrubbed
<1>16. TypeOK'
  BY <1>5, <1>6, <1>12 DEF PairInv, TypeOK
<1>17. QED
  BY <1>12, <1>13, <1>14, <1>15, <1>16 DEF PairInv

\* A step of the bridge that leaves the rows alone and takes an account that
\* agrees with its session, or none.
LEMMA AccountMoves ==
    ASSUME PairInv, NEW a \in AccountRecord, account' = a,
           a # NoAccount => a.session # None /\ a.user # None /\ owner[a.session] = a.user,
           pending' \in {pending, None},
           UNCHANGED <<tables, handed>>,
           call' \in [Calls -> CallRecord], CallsOK'
    PROVE  PairInv'
<1>1. /\ row' = row /\ parked' = parked /\ username' = username /\ claimed' = claimed
      /\ expired' = expired /\ owner' = owner /\ handed' = handed
  BY DEF tables
<1>2. RowsOK'
  BY <1>1 DEF PairInv, RowsOK, NoAccount
<1>3. NameMatchesSession'
  BY <1>1 DEF NameMatchesSession, NoAccount
<1>4. HandedIsScrubbed'
  BY <1>1 DEF PairInv, HandedIsScrubbed
<1>5. TypeOK'
  BY <1>1 DEF PairInv, TypeOK
<1>6. QED
  BY <1>2, <1>3, <1>4, <1>5 DEF PairInv

\* The bridge takes the session it is handed with the name it is handed.
LEMMA BridgeTokenOK ==
    ASSUME PairInv, NEW r \in Calls, BridgeToken(r)
    PROVE  PairInv'
<1>1. /\ call[r] \in CallRecord /\ CallOK(call[r], owner, parked, handed)
      /\ call[r].pc = "token"
  BY InFlight DEF BridgeToken
<1>2. PICK c : c = NoCall
  OBVIOUS
<1>3. /\ c \in CallRecord /\ c.pc # "approveWrite" /\ c.session = None
      /\ CallOK(c, owner, parked, handed) /\ call' = [call EXCEPT ![r] = c]
  BY <1>2, FreeSlot DEF Finish, BridgeToken
<1>4. /\ row' = row /\ parked' = parked /\ username' = username /\ claimed' = claimed
      /\ expired' = expired /\ owner' = owner /\ handed' = handed /\ pending' = None
  BY DEF BridgeToken, tables
<1>5. \A q \in Calls \ {r} : Apart(c, call[q]) /\ Apart(call[q], c)
  BY <1>3, SameSession
<1>6. \A q \in Calls : CallOK(call[q], owner, parked, handed)
  BY InFlight
<1>7. OwnersStay /\ \A q \in Calls : Kept(call[q])
  BY <1>4, <1>6 DEF OwnersStay, Kept, CallOK
<1>8. CallsOK' /\ call' \in [Calls -> CallRecord]
  BY <1>3, <1>4, <1>5, <1>7, OneMoves
<1>9. PICK a : a = IF pending = None THEN account
                   ELSE [session |-> call[r].session, user |-> call[r].user]
  OBVIOUS
<1>10. /\ a \in AccountRecord
       /\ a # NoAccount => a.session # None /\ a.user # None /\ owner[a.session] = a.user
  <2>1. CASE pending = None
    BY <1>9, <2>1 DEF PairInv, TypeOK, RowsOK, NameMatchesSession
  <2>2. CASE pending # None
    BY <1>1, <1>9, <2>2 DEF CallOK, CallRecord, AccountRecord, Holding
  <2>3. QED
    BY <2>1, <2>2
<1>11. account' = a
  BY <1>9 DEF BridgeToken
<1>12. UNCHANGED <<tables, handed>>
  BY DEF BridgeToken
<1>13. QED
  BY <1>4, <1>8, <1>10, <1>11, <1>12, AccountMoves

\* The bridge forgets the account.
LEMMA LogoutOK ==
    ASSUME PairInv, Logout
    PROVE  PairInv'
<1>1. /\ call' = call /\ pending' = pending /\ handed' = handed /\ account' = NoAccount
      /\ UNCHANGED <<tables, handed>>
      /\ owner' = owner /\ parked' = parked
  BY DEF Logout, tables
<1>2. CallsOK' /\ call' \in [Calls -> CallRecord]
  BY <1>1 DEF PairInv, CallsOK, TypeOK
<1>3. NoAccount \in AccountRecord
  BY DEF NoAccount, AccountRecord
<1>4. QED
  BY <1>1, <1>2, <1>3, AccountMoves

\* A pairing expires.
LEMMA ExpireOK ==
    ASSUME PairInv, NEW p \in Pairings, Expire(p)
    PROVE  PairInv'
<1>1. /\ row' = row /\ parked' = parked /\ username' = username /\ claimed' = claimed
      /\ expired' = expired \cup {p} /\ owner' = owner /\ pending' = pending
      /\ account' = account /\ call' = call /\ handed' = handed
  BY DEF Expire, bridge
<1>2. Unwritten
  BY <1>1 DEF Unwritten, PairInv, TypeOK
<1>3. CallsOK' /\ call' \in [Calls -> CallRecord]
  BY <1>1 DEF PairInv, CallsOK, TypeOK
<1>4. QED
  BY <1>2, <1>3, Still DEF PairInv

-----------------------------------------------------------------------------
(* The steps that end or silence every call.                                 *)

\* The server process ends, and every request with it.
LEMMA ServerCrashOK ==
    ASSUME PairInv, ServerCrash
    PROVE  PairInv'
<1>1. Unwritten /\ call' = [r \in Calls |-> NoCall]
  BY Untouched DEF ServerCrash
<1>2. /\ call' \in [Calls -> CallRecord]
      /\ \A r \in Calls : CallOK(call'[r], owner', parked', handed') /\ call'[r].pc = "idle"
  BY <1>1, FreeSlot
<1>3. CallsOK'
  BY <1>2 DEF CallsOK, Apart
<1>4. QED
  BY <1>1, <1>2, <1>3, Still DEF PairInv

\* A request that nobody listens to any more is as it was.
LEMMA Unheard ==
    ASSUME NEW d \in CallRecord, CallOK(d, owner, parked, handed)
    PROVE  /\ [d EXCEPT !.heard = FALSE] \in CallRecord
           /\ [d EXCEPT !.heard = FALSE].pc = d.pc
           /\ [d EXCEPT !.heard = FALSE].session = d.session
           /\ CallOK([d EXCEPT !.heard = FALSE], owner, parked, handed)
<1>1. PICK c : c = [d EXCEPT !.heard = FALSE]
  OBVIOUS
<1>2. /\ c \in CallRecord /\ c.pc = d.pc /\ c.session = d.session /\ c.user = d.user
      /\ c.pairing = d.pairing
  BY <1>1 DEF CallRecord
<1>3. CallOK(c, owner, parked, handed)
  BY <1>2 DEF CallOK
<1>4. QED
  BY <1>1, <1>2, <1>3

\* The bridge process ends and starts again.
LEMMA BridgeRestartOK ==
    ASSUME PairInv, BridgeRestart
    PROVE  PairInv'
<1>1. /\ row' = row /\ parked' = parked /\ username' = username /\ claimed' = claimed
      /\ expired' = expired /\ owner' = owner /\ handed' = handed
      /\ account' = account /\ pending' = None
      /\ call' = [r \in Calls |-> IF call[r].pc \in {"begun", "token", "waiting", "gone"}
                                  THEN NoCall ELSE [call[r] EXCEPT !.heard = FALSE]]
  BY DEF BridgeRestart, tables
<1>2. Unwritten
  BY <1>1 DEF Unwritten, PairInv, TypeOK
<1>3. ASSUME NEW r \in Calls
      PROVE  /\ call'[r] \in CallRecord /\ CallOK(call'[r], owner, parked, handed)
             /\ call'[r].pc = "approveWrite" => call[r].pc = "approveWrite"
             /\ call'[r].session \in {None, call[r].session}
  <2>1. call[r] \in CallRecord /\ CallOK(call[r], owner, parked, handed)
    BY InFlight
  <2>2. CASE call[r].pc \in {"begun", "token", "waiting", "gone"}
    BY <1>1, <2>2, FreeSlot
  <2>3. CASE call[r].pc \notin {"begun", "token", "waiting", "gone"}
    <3>1. call'[r] = [call[r] EXCEPT !.heard = FALSE]
      BY <1>1, <2>3
    <3>2. QED
      BY <2>1, <3>1, Unheard
  <2>4. QED
    BY <2>2, <2>3
<1>4. call' \in [Calls -> CallRecord]
  BY <1>1, <1>3
<1>5. ASSUME NEW r \in Calls, NEW q \in Calls, r # q PROVE Apart(call'[r], call'[q])
  <2>1. Apart(call[r], call[q])
    BY <1>5 DEF PairInv, CallsOK
  <2>2. call'[r].pc = "approveWrite" => call'[r].session # None
    BY <1>3 DEF CallOK, Holding
  <2>3. call'[r].pc = "approveWrite" => call'[r].session = call[r].session
    BY <1>3, <2>2
  <2>4. QED
    BY <1>3, <2>1, <2>2, <2>3 DEF Apart
<1>6. CallsOK'
  BY <1>1, <1>3, <1>5 DEF CallsOK
<1>7. QED
  BY <1>2, <1>4, <1>6, Still DEF PairInv

-----------------------------------------------------------------------------
(* The invariant.                                                            *)

\* No pairing has been started.
LEMMA InitOK == Init => PairInv
<1> SUFFICES ASSUME Init PROVE PairInv
  OBVIOUS
<1>1. TypeOK
  BY FreeSlot DEF Init, TypeOK, NoAccount, AccountRecord
<1>2. CallsOK
  BY FreeSlot DEF Init, CallsOK, Apart
<1>3. RowsOK /\ NameMatchesSession /\ HandedIsScrubbed
  BY DEF Init, RowsOK, NameMatchesSession, HandedIsScrubbed
<1>4. QED
  BY <1>1, <1>2, <1>3 DEF PairInv

\* No step of the server, of the bridge or of a fault breaks it.
LEMMA NextOK ==
    ASSUME PairInv, [Next]_vars
    PROVE  PairInv'
<1>1. ASSUME NEW r \in Calls, ServerStep(r) PROVE PairInv'
  <2>1. CASE Sweep(r)
    BY <2>1, SweepOK
  <2>2. CASE ApproveRead(r)
    BY <2>2, ApproveReadOK
  <2>3. CASE ApproveWrite(r)
    BY <2>3, ApproveWriteOK
  <2>4. CASE ClaimRead(r)
    BY <2>4, ClaimReadOK
  <2>5. CASE ClaimWrite(r)
    BY <2>5, ClaimWriteOK
  <2>6. ASSUME NEW p \in Pairings, Insert(r, p) PROVE PairInv'
    BY <2>6, InsertOK
  <2>7. ASSUME NEW s \in Sessions, ApproveMint(r, s) PROVE PairInv'
    BY <2>7, ApproveMintOK
  <2>8. QED
    BY <1>1, <2>1, <2>2, <2>3, <2>4, <2>5, <2>6, <2>7 DEF ServerStep
<1>2. ASSUME NEW r \in Calls, BridgeStep(r) PROVE PairInv'
  BY <1>2, AnsweredOK, BridgeTokenOK DEF BridgeStep
<1>3. ASSUME NEW r \in Calls, Begin(r) \/ Poll(r) \/ Lost(r) PROVE PairInv'
  BY <1>3, BeginOK, PollOK, AnsweredOK
<1>4. ASSUME NEW r \in Calls, NEW u \in Users, NEW p \in Pairings, Approve(r, u, p)
      PROVE  PairInv'
  BY <1>4, ApproveOK
<1>5. ASSUME NEW p \in Pairings, Expire(p) PROVE PairInv'
  BY <1>5, ExpireOK
<1>6. CASE UNCHANGED vars
  <2>1. /\ row' = row /\ parked' = parked /\ username' = username /\ claimed' = claimed
        /\ expired' = expired /\ owner' = owner /\ pending' = pending
        /\ account' = account /\ call' = call /\ handed' = handed
    BY <1>6 DEF vars, tables, bridge
  <2>2. Unwritten
    BY <2>1 DEF Unwritten, PairInv, TypeOK
  <2>3. CallsOK' /\ call' \in [Calls -> CallRecord]
    BY <2>1 DEF PairInv, CallsOK, TypeOK
  <2>4. QED
    BY <2>2, <2>3, Still DEF PairInv
<1>7. QED
  BY <1>1, <1>2, <1>3, <1>4, <1>5, <1>6, LogoutOK, ServerCrashOK, BridgeRestartOK DEF Next

\* The strengthened invariant, of which the properties are parts.
THEOREM PairingInvariant == Spec => []PairInv
<1>1. PairInv /\ [Next]_vars => PairInv'
  BY NextOK
<1>2. QED
  BY InitOK, <1>1, PTL DEF Spec

\* The rows, the bridge and the slots hold what the code can put in them.
THEOREM PairingTyped == Spec => []TypeOK
<1>1. PairInv => TypeOK
  BY DEF PairInv
<1>2. QED
  BY <1>1, PairingInvariant, PTL

\* However many approve one code and however many polls are in flight, the
\* bridge acts for the user whose session it has (src/server.js:682, 697).
THEOREM NamesMatch == Spec => []NameMatchesSession
<1>1. PairInv => NameMatchesSession
  BY DEF PairInv
<1>2. QED
  BY <1>1, PairingInvariant, PTL

\* A token that was handed to a bridge is in no row (src/db.js:199).
THEOREM HandedAreScrubbed == Spec => []HandedIsScrubbed
<1>1. PairInv => HandedIsScrubbed
  BY DEF PairInv
<1>2. QED
  BY <1>1, PairingInvariant, PTL

=============================================================================
