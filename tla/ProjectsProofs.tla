--------------------------- MODULE ProjectsProofs ---------------------------
(***************************************************************************)
(* The properties of a project for any number of users and of handlers in  *)
(* flight.                                                                 *)
(*                                                                         *)
(* What a handler read is not looked at again before it writes, so none of *)
(* the properties is inductive: CallOK says, place by place, what the read *)
(* rows still guarantee while others write.  It holds up because two       *)
(* things never happen in an existing project: nobody is made an admin,    *)
(* and nobody is let into a private one (World, GroupOK).                  *)
(***************************************************************************)
EXTENDS Projects, FiniteSetTheorems, TLAPS

\* A project has one admin at most, its creator.
GroupOK ==
    /\ creator = None => /\ \A u \in Users : role[u] = "none"
                         /\ listening = {} /\ ~private
    /\ \A u \in Users : role[u] = "admin" => u = creator
    /\ PrivateStaysClosed

\* What call c, which has seen s, can rely on: ro, cr, pr are the tables.
CallOK(c, s, ro, cr, pr) ==
    c.pc # "idle" =>
      /\ c.user \in Users /\ c.op \in Ops
      /\ c.op = "kick" => c.target \in Users
      /\ c.pc = "group" \/ cr # None \/ (c.pc = "act" /\ c.op = "quit")
      /\ c.pc = "membership" =>
           /\ "present" \in Needs(c.op) => "present" \in s
           /\ "unfrozen" \in Needs(c.op) /\ c.frozen = "no" => "unfrozen" \in s
           /\ "ownFreeze" \in Needs(c.op) /\ c.frozen = "group_admin" => "ownFreeze" \in s
      /\ c.pc \in {"admins", "others"} => c.op = "leave"
      /\ c.pc = "others" /\ ro[c.user] = "admin" => c.admins = 1
      /\ c.pc = "target" => c.op = "kick" /\ "present" \in s /\ "admin" \in s
      /\ c.pc = "act" =>
           /\ c.op \in AdminOps \cup {"post"} => Needs(c.op) \subseteq s
           /\ c.op = "kick" => ro[c.target] # "admin"
           /\ c.op = "leave" /\ ro[c.user] = "admin" => "alone" \in s
           /\ c.op \in {"join", "listen"} /\ pr => c.user = cr

CallsOK == \A r \in Calls : CallOK(call[r], seen[r], role, creator, private)

PInv == TypeOK /\ GroupOK /\ CallsOK

\* An existing project keeps its creator and its kind, and gets no admin.
World ==
    /\ creator # None => creator' = creator /\ private' = private
    /\ creator # None => \A u \in Users : role'[u] = "admin" => role[u] = "admin"

-----------------------------------------------------------------------------
(* What is seen.                                                             *)

\* The rows' types, written once more without the history.
Typed ==
    /\ creator \in Users \cup {None} /\ private \in BOOLEAN
    /\ role \in [Users -> Roles] /\ frozen \in Frozen /\ trashed \in BOOLEAN
    /\ gone \subseteq Users /\ listening \subseteq Users
    /\ call \in [Calls -> CallRecord]

\* What an operation needs is among the facts.
LEMMA NeedsAreFacts == \A o \in Ops : Needs(o) \subseteq Facts
BY DEF Ops, MemberOps, AdminOps, Needs, Facts

\* Monitor keeps the history in its type.
LEMMA SeenTyped ==
    ASSUME TypeOK, Typed', Monitor,
           \A r \in Calls : call'[r].pc # "idle" => call'[r].user \in Users
    PROVE  TypeOK'
<1>1. ASSUME NEW r \in Calls PROVE seen'[r] \subseteq Facts
  <2>1. seen'[r] = IF call'[r].pc = "idle" THEN {}
                   ELSE (IF call[r].pc = "idle" THEN {} ELSE seen[r])
                          \cup (Needs(call'[r].op) \cap TrueFor'[call'[r].user])
    BY DEF Monitor
  <2>2. seen[r] \subseteq Facts
    BY DEF TypeOK
  <2>3. \A u \in Users : TrueFor'[u] \subseteq Facts
    BY DEF TrueFor
  <2>4. QED
    BY <2>1, <2>2, <2>3
<1>2. seen' = [r \in Calls |-> seen'[r]]
  BY DEF Monitor
<1>3. seen' \in [Calls -> SUBSET Facts]
  BY <1>1, <1>2
<1>4. QED
  BY <1>3 DEF Typed, TypeOK

\* While a call lasts it forgets nothing.
LEMMA SeenGrows ==
    ASSUME Monitor, NEW r \in Calls, call[r].pc # "idle", call'[r].pc # "idle"
    PROVE  seen[r] \subseteq seen'[r]
BY DEF Monitor

\* What holds after a step and is needed, a call has seen.
LEMMA SeenNow ==
    ASSUME Monitor, NEW r \in Calls, call'[r].pc # "idle",
           NEW u \in Users, call'[r].user = u,
           NEW f \in Facts, f \in Needs(call'[r].op), Holds(f, u)'
    PROVE  f \in seen'[r]
<1>1. seen'[r] = (IF call[r].pc = "idle" THEN {} ELSE seen[r])
                   \cup (Needs(call'[r].op) \cap TrueFor'[call'[r].user])
  BY DEF Monitor
<1>2. f \in TrueFor'[u]
  BY DEF TrueFor
<1>3. QED
  BY <1>1, <1>2

-----------------------------------------------------------------------------
(* Calls that do not move, and the one that does.                            *)

\* No call relies on anything before it starts.
LEMMA IdleOK ==
    ASSUME NEW s, NEW ro, NEW cr, NEW pr
    PROVE  CallOK(NoCall, s, ro, cr, pr) /\ NoCall \in CallRecord
<1>1. NoCall \in CallRecord
  BY DEF NoCall, CallRecord, PCs, Frozen
<1>2. NoCall.pc = "idle"
  BY DEF NoCall
<1>3. QED
  BY <1>1, <1>2 DEF CallOK

\* A call in flight relies on what the others' steps do not change.
LEMMA OthersOK ==
    ASSUME PInv, World, Monitor, NEW r \in Calls, call'[r] = call[r]
    PROVE  CallOK(call'[r], seen'[r], role', creator', private')
<1>1. CASE call[r].pc = "idle"
  BY <1>1 DEF CallOK
<1>2. CASE call[r].pc # "idle"
  <2>1. CallOK(call[r], seen[r], role, creator, private)
    BY DEF PInv, CallsOK
  <2>2. seen[r] \subseteq seen'[r]
    BY <1>2, SeenGrows
  <2>3. call[r].user \in Users /\ (call[r].op = "kick" => call[r].target \in Users)
    BY <1>2, <2>1 DEF CallOK
  <2>4. CASE creator # None
    <3>1. creator' = creator /\ private' = private
      BY <2>4 DEF World
    <3>2. /\ role'[call[r].user] = "admin" => role[call[r].user] = "admin"
          /\ call[r].op = "kick" /\ role'[call[r].target] = "admin"
               => role[call[r].target] = "admin"
      BY <2>3, <2>4 DEF World
    <3>3. QED
      BY <1>2, <2>1, <2>2, <2>4, <3>1, <3>2, Zenon DEF CallOK
  <2>5. CASE creator = None
    <3>1. call[r].pc = "group" \/ (call[r].pc = "act" /\ call[r].op = "quit")
      BY <1>2, <2>1, <2>5 DEF CallOK
    <3>2. CASE call[r].pc = "group"
      BY <1>2, <2>1, <3>2 DEF CallOK
    <3>3. CASE call[r].pc = "act" /\ call[r].op = "quit"
      BY <1>2, <2>1, <3>3 DEF CallOK, AdminOps
    <3>4. QED
      BY <3>1, <3>2, <3>3
  <2>6. QED
    BY <2>4, <2>5
<1>3. QED
  BY <1>1, <1>2

\* One call moves on as c.
LEMMA OneMoves ==
    ASSUME PInv, World, Monitor, NEW r \in Calls, NEW c \in CallRecord,
           call' = [call EXCEPT ![r] = c],
           CallOK(c, seen'[r], role', creator', private')
    PROVE  CallsOK' /\ call' \in [Calls -> CallRecord] /\ call'[r] = c
<1>1. call \in [Calls -> CallRecord]
  BY DEF PInv, TypeOK
<1>2. call' \in [Calls -> CallRecord] /\ call'[r] = c
  BY <1>1
<1>3. ASSUME NEW t \in Calls PROVE CallOK(call'[t], seen'[t], role', creator', private')
  <2>1. CASE t = r
    BY <1>2, <2>1
  <2>2. CASE t # r
    <3>1. call'[t] = call[t]
      BY <1>1, <2>2
    <3>2. QED
      BY <3>1, OthersOK
  <2>3. QED
    BY <2>1, <2>2
<1>4. QED
  BY <1>2, <1>3 DEF CallsOK

\* One call is over.
LEMMA OneEnds ==
    ASSUME PInv, World, Monitor, NEW r \in Calls, Finish(r)
    PROVE  CallsOK' /\ call' \in [Calls -> CallRecord]
<1>1. PICK c : c = NoCall
  OBVIOUS
<1>2. c \in CallRecord /\ CallOK(c, seen'[r], role', creator', private')
  BY <1>1, IdleOK
<1>3. call' = [call EXCEPT ![r] = c]
  BY <1>1 DEF Finish
<1>4. QED
  BY <1>2, <1>3, OneMoves

\* The invariant after a step, from what the step does to each part.
LEMMA Together ==
    ASSUME PInv, Monitor, Typed', GroupOK', CallsOK'
    PROVE  PInv'
<1>1. \A r \in Calls : call'[r].pc # "idle" => call'[r].user \in Users
  BY DEF CallsOK, CallOK
<1>2. TypeOK'
  BY <1>1, SeenTyped DEF PInv
<1>3. QED
  BY <1>2 DEF PInv

-----------------------------------------------------------------------------
(* Steps that read: the tables stay.                                         *)

\* All tables as they were.
LEMMA Still ==
    ASSUME PInv, UNCHANGED <<tables, listening>>
    PROVE  /\ World /\ GroupOK'
           /\ creator' = creator /\ private' = private /\ role' = role
           /\ frozen' = frozen /\ trashed' = trashed /\ gone' = gone /\ listening' = listening
           /\ call' \in [Calls -> CallRecord] => Typed'
<1>1. /\ creator' = creator /\ private' = private /\ role' = role
      /\ frozen' = frozen /\ trashed' = trashed /\ gone' = gone /\ listening' = listening
  BY DEF tables
<1>2. GroupOK'
  BY <1>1 DEF PInv, GroupOK, PrivateStaysClosed, Members
<1>3. World
  BY <1>1 DEF World
<1>4. call' \in [Calls -> CallRecord] => Typed'
  BY <1>1 DEF Typed, PInv, TypeOK
<1>5. QED
  BY <1>1, <1>2, <1>3, <1>4

\* A reader goes on as c.
LEMMA ReaderMoves ==
    ASSUME PInv, Monitor, UNCHANGED <<tables, listening>>,
           NEW r \in Calls, NEW c \in CallRecord, call' = [call EXCEPT ![r] = c],
           CallOK(c, seen'[r], role, creator, private)
    PROVE  PInv'
<1>1. /\ World /\ GroupOK' /\ creator' = creator /\ private' = private /\ role' = role
      /\ call' \in [Calls -> CallRecord] => Typed'
  BY Still
<1>2. CallsOK' /\ call' \in [Calls -> CallRecord]
  BY <1>1, OneMoves
<1>3. QED
  BY <1>1, <1>2, Together

\* A reader is done.
LEMMA ReaderEnds ==
    ASSUME PInv, Monitor, UNCHANGED <<tables, listening>>, NEW r \in Calls, Finish(r)
    PROVE  PInv'
<1>1. /\ World /\ GroupOK' /\ (call' \in [Calls -> CallRecord] => Typed')
  BY Still
<1>2. CallsOK' /\ call' \in [Calls -> CallRecord]
  BY <1>1, OneEnds
<1>3. QED
  BY <1>1, <1>2, Together

\* What is known of a call in flight, and of the one it goes on as.
LEMMA InFlight ==
    ASSUME PInv, NEW r \in Calls, call[r].pc # "idle"
    PROVE  /\ call[r] \in CallRecord /\ CallOK(call[r], seen[r], role, creator, private)
           /\ call[r].user \in Users /\ call[r].op \in Ops /\ role[call[r].user] \in Roles
           /\ call \in [Calls -> CallRecord]
<1>1. call \in [Calls -> CallRecord] /\ role \in [Users -> Roles]
  BY DEF PInv, TypeOK
<1>2. CallOK(call[r], seen[r], role, creator, private)
  BY DEF PInv, CallsOK
<1>3. call[r].user \in Users /\ call[r].op \in Ops
  BY <1>2 DEF CallOK
<1>4. QED
  BY <1>1, <1>2, <1>3

\* Arriving, a call relies on its user alone.
LEMMA ArriveOK ==
    ASSUME PInv, Monitor, NEW r \in Calls, NEW u \in Users, NEW o \in Handlers,
           NEW t \in Users \cup {None}, Arrive(r, u, o, t)
    PROVE  PInv'
<1>1. PICK c : c = [NoCall EXCEPT !.pc = "group", !.op = o, !.user = u, !.target = t]
  OBVIOUS
<1>2. c = [pc |-> "group", op |-> o, user |-> u, target |-> t, frozen |-> "no", admins |-> 0]
  BY <1>1 DEF NoCall
<1>3. o \in Ops /\ (o = "kick" => t \in Users)
  BY HandlersAssumption DEF Arrive
<1>4. /\ c \in CallRecord /\ c.pc = "group" /\ c.op = o /\ c.user = u /\ c.target = t
  BY <1>2, <1>3 DEF CallRecord, PCs, Frozen
<1>5. CallOK(c, seen'[r], role, creator, private)
  BY <1>3, <1>4 DEF CallOK
<1>6. call' = [call EXCEPT ![r] = c]
  BY <1>1 DEF Arrive
<1>7. QED
  BY <1>4, <1>5, <1>6, ReaderMoves DEF Arrive

\* The row that is read is there, and shows the freeze as it stands.
LEMMA ReadGroupOK ==
    ASSUME PInv, Monitor, NEW r \in Calls, ReadGroup(r)
    PROVE  PInv'
<1>1. call[r].pc = "group" /\ call[r].op # "quit"
  BY DEF ReadGroup
<1>2. CASE creator = None \/ (trashed /\ call[r].op # "listen")
  BY <1>2, ReaderEnds DEF ReadGroup
<1>3. CASE ~(creator = None \/ (trashed /\ call[r].op # "listen"))
  <2>1. PICK c : c = [call[r] EXCEPT !.pc = "membership", !.frozen = frozen]
    OBVIOUS
  <2>2. /\ call[r] \in CallRecord /\ CallOK(call[r], seen[r], role, creator, private)
        /\ call[r].user \in Users /\ call[r].op \in Ops /\ call \in [Calls -> CallRecord]
    BY <1>1, InFlight
  <2>3. frozen \in Frozen
    BY DEF PInv, TypeOK
  <2>4. /\ c \in CallRecord /\ c.pc = "membership" /\ c.op = call[r].op
        /\ c.user = call[r].user /\ c.target = call[r].target /\ c.frozen = frozen
    BY <2>1, <2>2, <2>3 DEF CallRecord, PCs
  <2>5. call' = [call EXCEPT ![r] = c]
    BY <1>3, <2>1 DEF ReadGroup
  <2>6. call'[r] = c
    BY <2>2, <2>5
  <2>7. UNCHANGED <<tables, listening>>
    BY DEF ReadGroup
  <2>8. creator' = creator /\ trashed' = trashed /\ frozen' = frozen
    BY <2>7, Still
  <2>9. /\ "present" \in Facts /\ "unfrozen" \in Facts /\ "ownFreeze" \in Facts
    BY DEF Facts
  <2>10. "present" \in Needs(c.op) => "present" \in seen'[r]
    <3>1. "present" \in Needs(c.op) => c.op # "listen"
      BY DEF Needs
    <3>2. "present" \in Needs(c.op) => Holds("present", c.user)'
      BY <1>3, <2>4, <2>8, <3>1 DEF Holds
    <3>3. QED
      BY <2>2, <2>4, <2>6, <2>9, <3>2, SeenNow
  <2>11. "unfrozen" \in Needs(c.op) /\ c.frozen = "no" => "unfrozen" \in seen'[r]
    <3>1. c.frozen = "no" => Holds("unfrozen", c.user)'
      BY <2>4, <2>8 DEF Holds
    <3>2. QED
      BY <2>2, <2>4, <2>6, <2>9, <3>1, SeenNow
  <2>12. "ownFreeze" \in Needs(c.op) /\ c.frozen = "group_admin" => "ownFreeze" \in seen'[r]
    <3>1. c.frozen = "group_admin" => Holds("ownFreeze", c.user)'
      BY <2>4, <2>8 DEF Holds
    <3>2. QED
      BY <2>2, <2>4, <2>6, <2>9, <3>1, SeenNow
  <2>13. CallOK(c, seen'[r], role, creator, private)
    BY <1>1, <1>3, <2>2, <2>4, <2>10, <2>11, <2>12 DEF CallOK
  <2>14. QED
    BY <2>4, <2>5, <2>7, <2>13, ReaderMoves
<1>4. QED
  BY <1>2, <1>3

\* A call that proceeds to its write.
LEMMA Proceeds ==
    ASSUME PInv, NEW r \in Calls, call[r].pc # "idle", Proceed(r)
    PROVE  \E c \in CallRecord :
             /\ call' = [call EXCEPT ![r] = c] /\ call'[r] = c
             /\ c.pc = "act" /\ c.op = call[r].op
             /\ c.user = call[r].user /\ c.target = call[r].target
<1>1. PICK c : c = [call[r] EXCEPT !.pc = "act", !.frozen = "no", !.admins = 0]
  OBVIOUS
<1>2. call[r] \in CallRecord /\ call \in [Calls -> CallRecord]
  BY InFlight
<1>3. /\ c \in CallRecord /\ c.pc = "act" /\ c.op = call[r].op
      /\ c.user = call[r].user /\ c.target = call[r].target
  BY <1>1, <1>2 DEF CallRecord, PCs, Frozen
<1>4. call' = [call EXCEPT ![r] = c]
  BY <1>1 DEF Proceed
<1>5. call'[r] = c
  BY <1>2, <1>4
<1>6. QED
  BY <1>3, <1>4, <1>5

\* A call that goes on to another read.
LEMMA Goes ==
    ASSUME PInv, NEW r \in Calls, call[r].pc # "idle", NEW l \in PCs, Goto(r, l)
    PROVE  \E c \in CallRecord :
             /\ call' = [call EXCEPT ![r] = c] /\ call'[r] = c
             /\ c.pc = l /\ c.op = call[r].op
             /\ c.user = call[r].user /\ c.target = call[r].target
<1>1. PICK c : c = [call[r] EXCEPT !.pc = l]
  OBVIOUS
<1>2. call[r] \in CallRecord /\ call \in [Calls -> CallRecord]
  BY InFlight
<1>3. /\ c \in CallRecord /\ c.pc = l /\ c.op = call[r].op
      /\ c.user = call[r].user /\ c.target = call[r].target
  BY <1>1, <1>2 DEF CallRecord
<1>4. call' = [call EXCEPT ![r] = c]
  BY <1>1 DEF Goto
<1>5. call'[r] = c
  BY <1>2, <1>4
<1>6. QED
  BY <1>3, <1>4, <1>5

(* The membership that is read, with the group row read before, is what the  *)
(* operation needs; a member of a private project is its creator.            *)
LEMMA ReadMembershipOK ==
    ASSUME PInv, Monitor, NEW r \in Calls, ReadMembership(r)
    PROVE  PInv'
<1>1. /\ call[r].pc = "membership" /\ call[r].pc # "idle" /\ UNCHANGED <<tables, listening>>
  BY DEF ReadMembership
<1>2. /\ call[r] \in CallRecord /\ CallOK(call[r], seen[r], role, creator, private)
      /\ call[r].user \in Users /\ call[r].op \in Ops /\ role[call[r].user] \in Roles
  BY <1>1, InFlight
<1>3. creator' = creator /\ role' = role
  BY <1>1, Still
<1>4. /\ creator # None
      /\ "present" \in Needs(call[r].op) => "present" \in seen[r]
      /\ "unfrozen" \in Needs(call[r].op) /\ call[r].frozen = "no" => "unfrozen" \in seen[r]
      /\ "ownFreeze" \in Needs(call[r].op) /\ call[r].frozen = "group_admin"
           => "ownFreeze" \in seen[r]
      /\ call[r].op = "kick" => call[r].target \in Users
  BY <1>1, <1>2 DEF CallOK
<1>5. "member" \in Facts /\ "admin" \in Facts
  BY DEF Facts
<1>6. CASE Finish(r)
  BY <1>1, <1>6, ReaderEnds
<1>7. CASE /\ MayProceed(call[r], role[call[r].user]) /\ Goto(r, "admins")
           /\ call[r].op = "leave"
  <2>1. PICK c \in CallRecord :
          /\ call' = [call EXCEPT ![r] = c] /\ call'[r] = c
          /\ c.pc = "admins" /\ c.op = call[r].op
          /\ c.user = call[r].user /\ c.target = call[r].target
    BY <1>1, <1>7, Goes DEF PCs
  <2>2. CallOK(c, seen'[r], role, creator, private)
    BY <1>2, <1>4, <1>7, <2>1 DEF CallOK
  <2>3. QED
    BY <1>1, <2>1, <2>2, ReaderMoves
<1>8. CASE /\ MayProceed(call[r], role[call[r].user]) /\ Goto(r, "target")
           /\ call[r].op = "kick"
  <2>1. PICK c \in CallRecord :
          /\ call' = [call EXCEPT ![r] = c] /\ call'[r] = c
          /\ c.pc = "target" /\ c.op = call[r].op
          /\ c.user = call[r].user /\ c.target = call[r].target
    BY <1>1, <1>8, Goes DEF PCs
  <2>2. role[call[r].user] = "admin" /\ "admin" \in Needs("kick") /\ "present" \in Needs("kick")
    BY <1>8 DEF MayProceed, Needs
  <2>3. Holds("admin", c.user)'
    BY <1>3, <2>1, <2>2 DEF Holds
  <2>4. "admin" \in seen'[r]
    BY <1>2, <1>5, <1>8, <2>1, <2>2, <2>3, SeenNow
  <2>5. "present" \in seen'[r]
    BY <1>1, <1>4, <1>8, <2>1, <2>2, SeenGrows
  <2>6. CallOK(c, seen'[r], role, creator, private)
    BY <1>2, <1>4, <1>8, <2>1, <2>4, <2>5 DEF CallOK
  <2>7. QED
    BY <1>1, <2>1, <2>6, ReaderMoves
<1>9. CASE /\ MayProceed(call[r], role[call[r].user]) /\ Proceed(r)
           /\ call[r].op # "kick"
           /\ call[r].op = "leave" => role[call[r].user] # "admin"
  <2>1. PICK c \in CallRecord :
          /\ call' = [call EXCEPT ![r] = c] /\ call'[r] = c
          /\ c.pc = "act" /\ c.op = call[r].op
          /\ c.user = call[r].user /\ c.target = call[r].target
    BY <1>1, <1>9, Proceeds
  <2>2. seen[r] \subseteq seen'[r]
    BY <1>1, <2>1, SeenGrows
  <2>3. role[c.user] # "none" /\ "member" \in Needs(c.op) => "member" \in seen'[r]
    <3>1. role[c.user] # "none" => Holds("member", c.user)'
      BY <1>3 DEF Holds
    <3>2. QED
      BY <1>2, <1>5, <2>1, <3>1, SeenNow
  <2>4. role[c.user] = "admin" /\ "admin" \in Needs(c.op) => "admin" \in seen'[r]
    <3>1. role[c.user] = "admin" => Holds("admin", c.user)'
      BY <1>3 DEF Holds
    <3>2. QED
      BY <1>2, <1>5, <2>1, <3>1, SeenNow
  <2>5. c.op \in AdminOps \cup {"post"} => Needs(c.op) \subseteq seen'[r]
    <3>1. CASE c.op = "post"
      <4>1. Needs(c.op) = {"present", "unfrozen", "member"}
        BY <3>1 DEF Needs
      <4>2. role[c.user] # "none" /\ call[r].frozen = "no"
        BY <1>9, <2>1, <3>1 DEF MayProceed
      <4>3. QED
        BY <1>4, <2>1, <2>2, <2>3, <4>1, <4>2
    <3>2. CASE c.op \in {"checkpoint", "freeze"}
      <4>1. Needs(c.op) = {"present", "unfrozen", "admin"}
        BY <3>2 DEF Needs
      <4>2. role[c.user] = "admin" /\ call[r].frozen = "no"
        BY <1>9, <2>1, <3>2 DEF MayProceed
      <4>3. QED
        BY <1>4, <2>1, <2>2, <2>4, <4>1, <4>2
    <3>3. CASE c.op = "unfreeze"
      <4>1. Needs(c.op) = {"present", "ownFreeze", "admin"}
        BY <3>3 DEF Needs
      <4>2. role[c.user] = "admin" /\ call[r].frozen = "group_admin"
        BY <1>9, <2>1, <3>3 DEF MayProceed
      <4>3. QED
        BY <1>4, <2>1, <2>2, <2>4, <4>1, <4>2
    <3>4. CASE c.op = "trash"
      <4>1. Needs(c.op) = {"present", "admin"}
        BY <3>4 DEF Needs
      <4>2. role[c.user] = "admin"
        BY <1>9, <2>1, <3>4 DEF MayProceed
      <4>3. QED
        BY <1>4, <2>1, <2>2, <2>4, <4>1, <4>2
    <3>5. QED
      BY <1>9, <2>1, <3>1, <3>2, <3>3, <3>4 DEF AdminOps
  <2>6. c.op \in {"join", "listen"} /\ private => c.user = creator
    <3>1. c.op \in {"join", "listen"} /\ private => role[c.user] # "none"
      BY <1>9, <2>1 DEF MayProceed
    <3>2. QED
      BY <1>2, <2>1, <3>1 DEF PInv, GroupOK, PrivateStaysClosed, Members
  <2>7. CallOK(c, seen'[r], role, creator, private)
    BY <1>2, <1>4, <1>9, <2>1, <2>5, <2>6 DEF CallOK
  <2>8. QED
    BY <1>1, <2>1, <2>7, ReaderMoves
<1>10. QED
  BY <1>6, <1>7, <1>8, <1>9 DEF ReadMembership

\* An admin is the only one, so the count is one.
LEMMA CountAdminsOK ==
    ASSUME PInv, Monitor, NEW r \in Calls, CountAdmins(r)
    PROVE  PInv'
<1>1. /\ call[r].pc = "admins" /\ call[r].pc # "idle" /\ UNCHANGED <<tables, listening>>
  BY DEF CountAdmins
<1>2. /\ call[r] \in CallRecord /\ CallOK(call[r], seen[r], role, creator, private)
      /\ call[r].user \in Users
  BY <1>1, InFlight
<1>3. Cardinality(Admins) \in Nat
  <2>1. IsFiniteSet(Admins)
    BY HandlersAssumption, FS_Subset DEF Admins
  <2>2. QED
    BY <2>1, FS_CardinalityType
<1>4. role[call[r].user] = "admin" => Cardinality(Admins) = 1
  <2>1. role[call[r].user] = "admin" => Admins = {call[r].user}
    BY <1>2 DEF Admins, PInv, GroupOK
  <2>2. QED
    BY <2>1, FS_Singleton
<1>5. PICK n \in Nat : n = Cardinality(Admins)
  BY <1>3
<1>6. PICK c : c = [call[r] EXCEPT !.pc = "others", !.admins = n]
  OBVIOUS
<1>7. /\ c \in CallRecord /\ c.pc = "others" /\ c.op = call[r].op
      /\ c.user = call[r].user /\ c.target = call[r].target /\ c.admins = n
  BY <1>2, <1>6 DEF CallRecord, PCs
<1>8. call' = [call EXCEPT ![r] = c]
  BY <1>5, <1>6 DEF CountAdmins
<1>9. CallOK(c, seen'[r], role, creator, private)
  BY <1>1, <1>2, <1>4, <1>5, <1>7 DEF CallOK
<1>10. QED
  BY <1>1, <1>7, <1>8, <1>9, ReaderMoves

\* Two members are two at least.
LEMMA Alone ==
    ASSUME NEW u \in Members, ~(Cardinality(Members) > 1)
    PROVE  Members \subseteq {u}
<1> SUFFICES ASSUME NEW v \in Members, v # u PROVE FALSE
  OBVIOUS
<1>1. IsFiniteSet(Members)
  BY HandlersAssumption, FS_Subset DEF Members
<1>2. IsFiniteSet({u, v}) /\ Cardinality({u, v}) = 2
  <2>1. IsFiniteSet({u}) /\ Cardinality({u}) = 1
    BY FS_Singleton
  <2>2. {u, v} = {u} \cup {v} /\ v \notin {u}
    OBVIOUS
  <2>3. QED
    BY <2>1, <2>2, FS_AddElement
<1>3. Cardinality({u, v}) <= Cardinality(Members) /\ Cardinality(Members) \in Nat
  BY <1>1, FS_Subset, FS_CardinalityType
<1>4. QED
  BY <1>2, <1>3

\* An admin passes only when nobody else is left.
LEMMA CountOthersOK ==
    ASSUME PInv, Monitor, NEW r \in Calls, CountOthers(r)
    PROVE  PInv'
<1>1. /\ call[r].pc = "others" /\ call[r].pc # "idle" /\ UNCHANGED <<tables, listening>>
  BY DEF CountOthers
<1>2. /\ call[r] \in CallRecord /\ CallOK(call[r], seen[r], role, creator, private)
      /\ call[r].user \in Users /\ call[r].op \in Ops
  BY <1>1, InFlight
<1>3. role' = role
  BY <1>1, Still
<1>4. /\ call[r].op = "leave" /\ creator # None
      /\ role[call[r].user] = "admin" => call[r].admins = 1
  BY <1>1, <1>2 DEF CallOK
<1>5. CASE Finish(r)
  BY <1>1, <1>5, ReaderEnds
<1>6. CASE Proceed(r) /\ ~(call[r].admins = 1 /\ Cardinality(Members) > 1)
  <2>1. PICK c \in CallRecord :
          /\ call' = [call EXCEPT ![r] = c] /\ call'[r] = c
          /\ c.pc = "act" /\ c.op = call[r].op
          /\ c.user = call[r].user /\ c.target = call[r].target
    BY <1>1, <1>6, Proceeds
  <2>2. role[c.user] = "admin" => "alone" \in seen'[r]
    <3>1. role[c.user] = "admin" => Members \subseteq {c.user}
      BY <1>2, <1>4, <1>6, <2>1, Alone DEF Members
    <3>2. role[c.user] = "admin" => Holds("alone", c.user)'
      BY <1>3, <3>1 DEF Holds, Members
    <3>3. "alone" \in Facts /\ "alone" \in Needs(c.op)
      BY <1>4, <2>1 DEF Facts, Needs
    <3>4. QED
      BY <1>2, <2>1, <3>2, <3>3, SeenNow
  <2>3. CallOK(c, seen'[r], role, creator, private)
    BY <1>2, <1>4, <2>1, <2>2 DEF CallOK, AdminOps
  <2>4. QED
    BY <1>1, <2>1, <2>3, ReaderMoves
<1>7. QED
  BY <1>5, <1>6 DEF CountOthers

\* Who is kicked was a member, and so is no admin ever after.
LEMMA ReadTargetOK ==
    ASSUME PInv, Monitor, NEW r \in Calls, ReadTarget(r)
    PROVE  PInv'
<1>1. /\ call[r].pc = "target" /\ call[r].pc # "idle" /\ UNCHANGED <<tables, listening>>
  BY DEF ReadTarget
<1>2. /\ call[r] \in CallRecord /\ CallOK(call[r], seen[r], role, creator, private)
      /\ call[r].user \in Users /\ call[r].op \in Ops
  BY <1>1, InFlight
<1>3. /\ call[r].op = "kick" /\ "present" \in seen[r] /\ "admin" \in seen[r]
      /\ creator # None /\ call[r].target \in Users
  BY <1>1, <1>2 DEF CallOK
<1>4. CASE Finish(r)
  BY <1>1, <1>4, ReaderEnds
<1>5. CASE Proceed(r) /\ role[call[r].target] = "member"
  <2>1. PICK c \in CallRecord :
          /\ call' = [call EXCEPT ![r] = c] /\ call'[r] = c
          /\ c.pc = "act" /\ c.op = call[r].op
          /\ c.user = call[r].user /\ c.target = call[r].target
    BY <1>1, <1>5, Proceeds
  <2>2. seen[r] \subseteq seen'[r]
    BY <1>1, <2>1, SeenGrows
  <2>3. Needs(c.op) = {"present", "admin"}
    BY <1>3, <2>1 DEF Needs
  <2>4. CallOK(c, seen'[r], role, creator, private)
    BY <1>2, <1>3, <1>5, <2>1, <2>2, <2>3 DEF CallOK
  <2>5. QED
    BY <1>1, <2>1, <2>4, ReaderMoves
<1>6. QED
  BY <1>4, <1>5 DEF ReadTarget

\* Leaving altogether relies on nothing that stays.
LEMMA CheckStuckOK ==
    ASSUME PInv, Monitor, NEW r \in Calls, CheckStuck(r)
    PROVE  PInv'
<1>1. /\ call[r].pc = "group" /\ call[r].pc # "idle" /\ call[r].op = "quit"
      /\ UNCHANGED <<tables, listening>>
  BY DEF CheckStuck
<1>2. call[r].user \in Users /\ call[r].op \in Ops
  BY <1>1, InFlight
<1>3. CASE Finish(r)
  BY <1>1, <1>3, ReaderEnds
<1>4. CASE Proceed(r)
  <2>1. PICK c \in CallRecord :
          /\ call' = [call EXCEPT ![r] = c] /\ call'[r] = c
          /\ c.pc = "act" /\ c.op = call[r].op
          /\ c.user = call[r].user /\ c.target = call[r].target
    BY <1>1, <1>4, Proceeds
  <2>2. CallOK(c, seen'[r], role, creator, private)
    BY <1>1, <1>2, <2>1 DEF CallOK, AdminOps
  <2>3. QED
    BY <1>1, <2>1, <2>2, ReaderMoves
<1>5. QED
  BY <1>3, <1>4 DEF CheckStuck

-----------------------------------------------------------------------------
(* Steps that write.                                                         *)

\* A call ends with its write.
LEMMA WriterEnds ==
    ASSUME PInv, Monitor, World, GroupOK', NEW r \in Calls, Finish(r),
           call' \in [Calls -> CallRecord] => Typed'
    PROVE  PInv'
BY OneEnds, Together

\* What is left in the tables when one membership is written over.
LEMMA OneRole ==
    ASSUME PInv, NEW u \in Users, NEW x \in Roles, role' = [role EXCEPT ![u] = x],
           creator' = creator, private' = private, listening' \subseteq listening,
           x = "admin" => role[u] = "admin",
           x # "none" => creator # None /\ (private => u = creator)
    PROVE  World /\ GroupOK' /\ role' \in [Users -> Roles]
<1>1. role \in [Users -> Roles] /\ listening \subseteq Users
  BY DEF PInv, TypeOK
<1>2. /\ role' \in [Users -> Roles] /\ role'[u] = x
      /\ \A v \in Users : v # u => role'[v] = role[v]
  BY <1>1
<1>3. World
  BY <1>2 DEF World
<1>4. creator = None => (\A v \in Users : role'[v] = "none") /\ listening' = {} /\ ~private
  BY <1>2 DEF PInv, GroupOK
<1>5. \A v \in Users : role'[v] = "admin" => v = creator
  BY <1>2 DEF PInv, GroupOK
<1>6. private => \A v \in Users : role'[v] # "none" => v = creator
  BY <1>2 DEF PInv, GroupOK, PrivateStaysClosed, Members
<1>7. private => listening' \subseteq {creator}
  BY DEF PInv, GroupOK, PrivateStaysClosed
<1>8. GroupOK'
  BY <1>4, <1>5, <1>6, <1>7 DEF GroupOK, PrivateStaysClosed, Members
<1>9. QED
  BY <1>2, <1>3, <1>8

\* What is left when no membership is written.
LEMMA SameRoles ==
    ASSUME PInv, role' = role, creator' = creator, private' = private,
           listening' \subseteq listening
    PROVE  World /\ GroupOK' /\ role' \in [Users -> Roles]
<1>1. World
  BY DEF World
<1>2. GroupOK'
  BY DEF PInv, GroupOK, PrivateStaysClosed, Members
<1>3. QED
  BY <1>1, <1>2 DEF PInv, TypeOK

\* A call that acts, and what it relies on.
LEMMA ActingOn ==
    ASSUME PInv, NEW r \in Calls, call[r].pc = "act"
    PROVE  /\ CallOK(call[r], seen[r], role, creator, private)
           /\ call[r].user \in Users /\ role[call[r].user] \in Roles
           /\ call[r].op = "quit" \/ creator # None
           /\ call[r].op = "kick" => call[r].target \in Users /\ role[call[r].target] # "admin"
<1>1. call[r].pc # "idle"
  OBVIOUS
<1>2. /\ CallOK(call[r], seen[r], role, creator, private)
      /\ call[r].user \in Users /\ role[call[r].user] \in Roles
  BY <1>1, InFlight
<1>3. QED
  BY <1>2 DEF CallOK

\* Who joins a private project is its creator.
LEMMA JoinOK ==
    ASSUME PInv, Monitor, NEW r \in Calls, Join(r)
    PROVE  PInv'
<1>1. /\ call[r].pc = "act" /\ call[r].op = "join" /\ Finish(r)
      /\ creator' = creator /\ private' = private /\ frozen' = frozen
      /\ trashed' = trashed /\ gone' = gone /\ listening' = listening
  BY DEF Join, Acting
<1>2. /\ CallOK(call[r], seen[r], role, creator, private)
      /\ call[r].user \in Users /\ role[call[r].user] \in Roles /\ creator # None
  BY <1>1, ActingOn
<1>3. private => call[r].user = creator
  BY <1>1, <1>2 DEF CallOK
<1>4. PICK x : x = IF role[call[r].user] = "none" THEN "member" ELSE role[call[r].user]
  OBVIOUS
<1>5. x \in Roles /\ (x = "admin" => role[call[r].user] = "admin")
  BY <1>2, <1>4 DEF Roles
<1>6. role' = [role EXCEPT ![call[r].user] = x]
  BY <1>4 DEF Join
<1>7. World /\ GroupOK' /\ role' \in [Users -> Roles]
  BY <1>1, <1>2, <1>3, <1>5, <1>6, OneRole
<1>8. call' \in [Calls -> CallRecord] => Typed'
  BY <1>1, <1>7 DEF Typed, PInv, TypeOK
<1>9. QED
  BY <1>1, <1>7, <1>8, WriterEnds

\* One membership less.
LEMMA RemoveOK ==
    ASSUME PInv, Monitor, NEW r \in Calls, Remove(r)
    PROVE  PInv'
<1>1. /\ call[r].pc = "act" /\ call[r].op \in {"leave", "kick"} /\ Finish(r)
      /\ creator' = creator /\ private' = private /\ frozen' = frozen
      /\ trashed' = trashed /\ gone' = gone /\ listening' = listening
  BY DEF Remove, Acting
<1>2. PICK u : u = IF call[r].op = "kick" THEN call[r].target ELSE call[r].user
  OBVIOUS
<1>3. u \in Users
  BY <1>1, <1>2, ActingOn
<1>4. role' = [role EXCEPT ![u] = "none"] /\ "none" \in Roles
  BY <1>2 DEF Remove, Roles
<1>5. World /\ GroupOK' /\ role' \in [Users -> Roles]
  BY <1>1, <1>3, <1>4, OneRole
<1>6. call' \in [Calls -> CallRecord] => Typed'
  BY <1>1, <1>5 DEF Typed, PInv, TypeOK
<1>7. QED
  BY <1>1, <1>5, <1>6, WriterEnds

\* The account goes, and with it the membership and the sockets.
LEMMA QuitOK ==
    ASSUME PInv, Monitor, NEW r \in Calls, Quit(r)
    PROVE  PInv'
<1>1. /\ call[r].pc = "act" /\ call[r].op = "quit" /\ Finish(r)
      /\ creator' = creator /\ private' = private /\ frozen' = frozen
      /\ trashed' = trashed /\ gone' = gone \cup {call[r].user}
      /\ listening' = listening \ {call[r].user}
  BY DEF Quit, Acting
<1>2. call[r].user \in Users
  BY <1>1, ActingOn
<1>3. role' = [role EXCEPT ![call[r].user] = "none"] /\ "none" \in Roles
  BY DEF Quit, Roles
<1>4. World /\ GroupOK' /\ role' \in [Users -> Roles]
  BY <1>1, <1>2, <1>3, OneRole
<1>5. call' \in [Calls -> CallRecord] => Typed'
  BY <1>1, <1>2, <1>4 DEF Typed, PInv, TypeOK
<1>6. QED
  BY <1>1, <1>4, <1>5, WriterEnds

\* Who listens to a private project is its creator.
LEMMA ListenOK ==
    ASSUME PInv, Monitor, NEW r \in Calls, Listen(r)
    PROVE  PInv'
<1>1. /\ call[r].pc = "act" /\ call[r].op = "listen" /\ Finish(r)
      /\ creator' = creator /\ private' = private /\ frozen' = frozen /\ role' = role
      /\ trashed' = trashed /\ gone' = gone
      /\ listening' = listening \cup {call[r].user}
  BY DEF Listen, Acting, tables
<1>2. /\ CallOK(call[r], seen[r], role, creator, private)
      /\ call[r].user \in Users /\ creator # None
  BY <1>1, ActingOn
<1>3. private => call[r].user = creator
  BY <1>1, <1>2 DEF CallOK
<1>4. World
  BY <1>1 DEF World
<1>5. GroupOK'
  BY <1>1, <1>2, <1>3 DEF PInv, GroupOK, PrivateStaysClosed, Members
<1>6. call' \in [Calls -> CallRecord] => Typed'
  BY <1>1, <1>2 DEF Typed, PInv, TypeOK
<1>7. QED
  BY <1>1, <1>4, <1>5, <1>6, WriterEnds

\* The freeze and the trash are no one's membership.
LEMMA MarksOK ==
    ASSUME PInv, Monitor, NEW r \in Calls, Freeze(r) \/ Unfreeze(r) \/ Trash(r)
    PROVE  PInv'
<1>1. /\ Finish(r) /\ creator' = creator /\ private' = private /\ role' = role
      /\ gone' = gone /\ listening' = listening
      /\ frozen' \in Frozen /\ trashed' \in BOOLEAN
  BY DEF Freeze, Unfreeze, Trash, Frozen, PInv, TypeOK
<1>2. World /\ GroupOK' /\ role' \in [Users -> Roles]
  BY <1>1, SameRoles
<1>3. call' \in [Calls -> CallRecord] => Typed'
  BY <1>1, <1>2 DEF Typed, PInv, TypeOK
<1>4. QED
  BY <1>1, <1>2, <1>3, WriterEnds

\* A post is written elsewhere; a call may fail before it writes.
LEMMA EndsOK ==
    ASSUME PInv, Monitor, NEW r \in Calls, Post(r) \/ Fail(r)
    PROVE  PInv'
BY ReaderEnds DEF Post, Fail

-----------------------------------------------------------------------------
(* Steps of no call.                                                         *)

\* The calls as they were.
LEMMA NoneMoves ==
    ASSUME PInv, World, Monitor, call' = call
    PROVE  CallsOK' /\ call' \in [Calls -> CallRecord]
<1>1. \A r \in Calls : call'[r] = call[r]
  OBVIOUS
<1>2. \A r \in Calls : CallOK(call'[r], seen'[r], role', creator', private')
  BY <1>1, OthersOK
<1>3. QED
  BY <1>2 DEF CallsOK, PInv, TypeOK

\* The only admin there will be.
LEMMA CreateGroupOK ==
    ASSUME PInv, Monitor, NEW u \in Users, NEW p \in BOOLEAN, CreateGroup(u, p)
    PROVE  PInv'
<1>1. /\ creator = None /\ creator' = u /\ private' = p
      /\ role' = [role EXCEPT ![u] = "admin"]
      /\ frozen' = frozen /\ trashed' = trashed /\ gone' = gone
      /\ listening' = listening /\ call' = call
  BY DEF CreateGroup
<1>2. /\ role \in [Users -> Roles] /\ listening = {} /\ u # None
      /\ \A v \in Users : role[v] = "none"
  BY <1>1, HandlersAssumption DEF PInv, TypeOK, GroupOK
<1>3. role' \in [Users -> Roles] /\ \A v \in Users : role'[v] # "none" => v = u
  BY <1>1, <1>2 DEF Roles
<1>4. World
  BY <1>1 DEF World
<1>5. GroupOK'
  BY <1>1, <1>2, <1>3 DEF GroupOK, PrivateStaysClosed, Members
<1>6. CallsOK' /\ call' \in [Calls -> CallRecord]
  BY <1>1, <1>4, NoneMoves
<1>7. Typed'
  BY <1>1, <1>3, <1>6 DEF Typed, PInv, TypeOK
<1>8. QED
  BY <1>5, <1>6, <1>7, Together

\* Site moderation, and sockets that close, write no membership.
LEMMA ModerationOK ==
    ASSUME PInv, Monitor, ModFreeze \/ ModUnfreeze \/ Restore \/ \E u \in Users : Disconnect(u)
    PROVE  PInv'
<1>1. /\ creator' = creator /\ private' = private /\ role' = role
      /\ gone' = gone /\ listening' \subseteq listening /\ call' = call
      /\ frozen' \in Frozen /\ trashed' \in BOOLEAN
  BY DEF ModFreeze, ModUnfreeze, Restore, Disconnect, Frozen, tables, PInv, TypeOK
<1>2. World /\ GroupOK' /\ role' \in [Users -> Roles]
  BY <1>1, SameRoles
<1>3. CallsOK' /\ call' \in [Calls -> CallRecord]
  BY <1>1, <1>2, NoneMoves
<1>4. Typed'
  BY <1>1, <1>2, <1>3 DEF Typed, PInv, TypeOK
<1>5. QED
  BY <1>2, <1>3, <1>4, Together

\* The calls and the sockets go with the process.
LEMMA CrashOK ==
    ASSUME PInv, Monitor, Crash
    PROVE  PInv'
<1>1. /\ creator' = creator /\ private' = private /\ role' = role
      /\ frozen' = frozen /\ trashed' = trashed /\ gone' = gone
      /\ listening' = {} /\ call' = [r \in Calls |-> NoCall]
  BY DEF Crash, tables
<1>2. World /\ GroupOK' /\ role' \in [Users -> Roles]
  BY <1>1, SameRoles
<1>3. CallsOK'
  BY <1>1, IdleOK DEF CallsOK
<1>4. Typed'
  <2>1. NoCall \in CallRecord
    BY IdleOK
  <2>2. QED
    BY <1>1, <1>2, <2>1 DEF Typed, PInv, TypeOK
<1>5. QED
  BY <1>2, <1>3, <1>4, Together

-----------------------------------------------------------------------------
\* No project, no calls.
LEMMA InitPInv == Init => PInv
<1> SUFFICES ASSUME Init PROVE PInv
  OBVIOUS
<1>1. /\ creator = None /\ private = FALSE /\ role = [u \in Users |-> "none"]
      /\ frozen = "no" /\ trashed = FALSE /\ gone = {} /\ listening = {}
      /\ call = [r \in Calls |-> NoCall] /\ seen = [r \in Calls |-> {}]
  BY DEF Init
<1>2. TypeOK
  <2>1. NoCall \in CallRecord
    BY IdleOK
  <2>2. QED
    BY <1>1, <2>1 DEF TypeOK, Roles, Frozen
<1>3. GroupOK
  BY <1>1 DEF GroupOK, PrivateStaysClosed, Members
<1>4. CallsOK
  BY <1>1, IdleOK DEF CallsOK
<1>5. QED
  BY <1>2, <1>3, <1>4 DEF PInv

\* No step breaks it.
LEMMA NextPInv == PInv /\ [Next]_vars => PInv'
<1> SUFFICES ASSUME PInv, [Next]_vars PROVE PInv'
  OBVIOUS
<1>1. CASE UNCHANGED vars
  <2>1. /\ creator' = creator /\ private' = private /\ role' = role /\ frozen' = frozen
        /\ trashed' = trashed /\ gone' = gone /\ listening' = listening
        /\ call' = call /\ seen' = seen
    BY <1>1 DEF vars, tables
  <2>2. TypeOK'
    BY <2>1, Zenon DEF PInv, TypeOK
  <2>3. GroupOK'
    BY <2>1 DEF PInv, GroupOK, PrivateStaysClosed, Members
  <2>4. CallsOK'
    BY <2>1, Zenon DEF PInv, CallsOK
  <2>5. QED
    BY <2>2, <2>3, <2>4 DEF PInv
<1>2. ASSUME Monitor, NEW r \in Calls, HandlerStep(r) PROVE PInv'
  <2>1. CASE ReadGroup(r) \/ ReadMembership(r) \/ CheckStuck(r)
    BY <1>2, <2>1, ReadGroupOK, ReadMembershipOK, CheckStuckOK
  <2>2. CASE CountAdmins(r) \/ CountOthers(r) \/ ReadTarget(r)
    BY <1>2, <2>2, CountAdminsOK, CountOthersOK, ReadTargetOK
  <2>3. CASE Post(r) \/ Join(r) \/ Remove(r) \/ Quit(r) \/ Listen(r)
    BY <1>2, <2>3, EndsOK, JoinOK, RemoveOK, QuitOK, ListenOK
  <2>4. CASE Freeze(r) \/ Unfreeze(r) \/ Trash(r)
    BY <1>2, <2>4, MarksOK
  <2>5. QED
    BY <1>2, <2>1, <2>2, <2>3, <2>4 DEF HandlerStep
<1>3. ASSUME Monitor, Step PROVE PInv'
  <2>1. CASE \E u \in Users, p \in BOOLEAN : CreateGroup(u, p)
    BY <1>3, <2>1, CreateGroupOK
  <2>2. CASE \E r \in Calls, u \in Users, o \in Handlers, t \in Users \cup {None} :
               Arrive(r, u, o, t)
    BY <1>3, <2>2, ArriveOK
  <2>3. CASE \E r \in Calls : HandlerStep(r)
    BY <1>2, <1>3, <2>3
  <2>4. CASE \E r \in Calls : Fail(r)
    BY <1>3, <2>4, EndsOK
  <2>5. CASE ModFreeze \/ ModUnfreeze \/ Restore \/ \E u \in Users : Disconnect(u)
    BY <1>3, <2>5, ModerationOK
  <2>6. CASE Crash
    BY <1>3, <2>6, CrashOK
  <2>7. QED
    BY <1>3, <2>1, <2>2, <2>3, <2>4, <2>5, <2>6, Zenon DEF Step
<1>4. QED
  BY <1>1, <1>3 DEF Next

\* What a project's rows, and the calls that read them, always satisfy.
THEOREM ProjectsInvariant == Spec => []PInv
BY InitPInv, NextPInv, PTL DEF Spec

\* The rows and slots hold what the schema and the handlers allow.
THEOREM ProjectsTyped == Spec => []TypeOK
<1>1. PInv => TypeOK
  BY DEF PInv
<1>2. QED
  BY <1>1, ProjectsInvariant, PTL

(* However many handlers overlap, each acts on facts that were so while it   *)
(* ran (src/server.js:959-1021, 1174-1178).                                  *)
THEOREM ActsJustified == Spec => []ActsOnceJustified
<1>1. PInv => ActsOnceJustified
  BY DEF PInv, CallsOK, CallOK, ActsOnceJustified, Acting
<1>2. QED
  BY <1>1, ProjectsInvariant, PTL

(* An admin's leave goes through only if at one moment nobody else was left  *)
(* (src/server.js:932-953).                                                  *)
THEOREM AdminLeavesAlone == Spec => []LastAdminLeavesAlone
<1>1. PInv => LastAdminLeavesAlone
  BY DEF PInv, CallsOK, CallOK, LastAdminLeavesAlone, Acting
<1>2. QED
  BY <1>1, ProjectsInvariant, PTL

(* A private project has its creator and nobody else, as a member or as a    *)
(* listener (src/server.js:923-930, 1318-1322).                              *)
THEOREM PrivateIsClosed == Spec => []PrivateStaysClosed
<1>1. PInv => PrivateStaysClosed
  BY DEF PInv, GroupOK
<1>2. QED
  BY <1>1, ProjectsInvariant, PTL

(* Who loses the role of admin has asked to: left, or deleted the account    *)
(* (src/server.js:971-982, src/db.js:423-430).                               *)
THEOREM AdminsGoByThemselves == Spec => AdminsOnlyRemoveThemselves
<1> DEFINE Safe == \A u \in Users :
         role[u] = "admin" /\ role'[u] # "admin" =>
            \E r \in Calls : Acting(r, {"leave", "quit"}) /\ call[r].user = u
<1>1. ASSUME PInv, Next PROVE Safe
  <2> SUFFICES ASSUME NEW u \in Users, role[u] = "admin", role'[u] # "admin"
               PROVE  \E r \in Calls : Acting(r, {"leave", "quit"}) /\ call[r].user = u
    OBVIOUS
  <2>1. role # role' /\ role \in [Users -> Roles]
    BY <1>1 DEF PInv, TypeOK
  <2>2. creator # None
    BY <1>1 DEF PInv, GroupOK
  <2>3. PICK r \in Calls : Join(r) \/ Remove(r) \/ Quit(r)
    BY <1>1, <2>1, <2>2 DEF Next, Step, CreateGroup, Arrive, HandlerStep, ReadGroup,
      ReadMembership, CheckStuck, CountAdmins, CountOthers, ReadTarget, Post, Listen,
      Freeze, Unfreeze, Trash, Fail, ModFreeze, ModUnfreeze, Restore, Disconnect, Crash, tables
  <2>4. call[r].pc = "act"
    BY <2>3 DEF Join, Remove, Quit, Acting
  <2>5. CASE Join(r)
    BY <2>1, <2>5 DEF Join
  <2>6. CASE Remove(r)
    <3>1. CASE call[r].op = "kick"
      <4>1. call[r].target \in Users /\ role[call[r].target] # "admin"
        BY <1>1, <2>4, <3>1, ActingOn
      <4>2. role' = [role EXCEPT ![call[r].target] = "none"]
        BY <2>6, <3>1 DEF Remove
      <4>3. QED
        BY <2>1, <4>1, <4>2
    <3>2. CASE call[r].op # "kick"
      BY <2>1, <2>6, <3>2 DEF Remove, Acting
    <3>3. QED
      BY <3>1, <3>2
  <2>7. CASE Quit(r)
    BY <2>1, <2>7 DEF Quit, Acting
  <2>8. QED
    BY <2>3, <2>5, <2>6, <2>7
<1>2. ASSUME PInv, UNCHANGED vars PROVE Safe
  BY <1>2 DEF vars, tables
<1> HIDE DEF Safe
<1>3. PInv /\ [Next]_vars => [Safe]_vars
  BY <1>1, <1>2
<1>4. Spec => [][Safe]_vars
  BY <1>3, ProjectsInvariant, PTL DEF Spec
<1>5. QED
  BY <1>4 DEF Safe, AdminsOnlyRemoveThemselves

=============================================================================
