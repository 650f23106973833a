------------------------- MODULE CredentialsProofs -------------------------
(***************************************************************************)
(* Proofs about Credentials, for every set of users, ids and call slots.   *)
(*                                                                         *)
(* NoDeadGrant is not inductive: a call that is about to be granted says   *)
(* nothing of why its earlier query let it through.  IInv adds what each   *)
(* step of a handler knows of its credential: the row it names exists and  *)
(* is never reparented (foreign keys), a credential dead on arrival still  *)
(* is when its row is read, and a user blocked since arrival still is when *)
(* the user's row is read.                                                 *)
(***************************************************************************)
EXTENDS Credentials, TLAPS

\* Every bridge token's session, and every session a client or a setup holds,
\* has a row.
ForeignKeys ==
    /\ \A s \in held : owner[s] # None
    /\ \A b \in Bridges : parent[b] # None => owner[parent[b]] # None
    /\ \A r \in Calls :
         /\ call[r].minted # None => owner[call[r].minted] # None
         /\ call[r].pc = "minting" => call[r].minted # None

\* What the operation in a slot says of its operands.
Operands(r) ==
    /\ call[r].op \in RequestOps <=> call[r].cred # None
    /\ call[r].pc = "idle" => call[r].cred = None
    /\ call[r].cred # None => Issued(call[r].cred)
    /\ call[r].op = "revoke" => call[r].target \in Bridges
    /\ call[r].op = "login" => call[r].target \in Users
    /\ call[r].pc \in {"lookup", "user"} => call[r].op \in RequestOps
    /\ call[r].pc = "commit" => call[r].op \in {"logout", "delete"}
    /\ call[r].op \in RequestOps \ {"upgrade"} /\ call[r].pc \notin {"lookup", "user"}
         => call[r].cred \in Sessions

\* Why a refusal that was due on arrival is still due.
Doomed(r) ==
    /\ call[r].bornDead =>
         call[r].pc = "lookup" /\ (call[r].late \/ RowDead(call[r].cred))
    /\ call[r].blocked =>
         /\ call[r].pc \in {"lookup", "user"}
         /\ call[r].cred # None
         /\ UserOf(call[r].cred) \in suspended

IInv ==
    /\ TypeOK
    /\ ForeignKeys
    /\ \A r \in Calls : Operands(r)
    /\ \A r \in Calls : Doomed(r)

-----------------------------------------------------------------------------
(* Facts about the operators.                                                *)
\* An empty slot is a call record.
LEMMA NoCallIsRecord == NoCall \in CallRecord
BY DEF NoCall, CallRecord, PCs, Ops, RequestOps

\* The empty tables and slots satisfy the invariant.
LEMMA InitIInv == Init => IInv
<1> SUFFICES ASSUME Init PROVE IInv
  OBVIOUS
<1> USE DEF Init
<1>1. TypeOK
  BY NoCallIsRecord DEF TypeOK, Creds
<1>2. ForeignKeys
  BY DEF ForeignKeys, NoCall
<1>3. ASSUME NEW r \in Calls PROVE Operands(r) /\ Doomed(r)
  BY DEF Operands, Doomed, NoCall, RequestOps, Ops
<1>4. QED
  BY <1>1, <1>2, <1>3 DEF IInv

\* The tables a handler step leaves alone keep what it knew of a credential.
LEMMA StableRows ==
    ASSUME UNCHANGED <<owner, parent>>, revoked \subseteq revoked',
           NEW c \in Creds
    PROVE  /\ Issued(c)' = Issued(c)
           /\ UserOf(c)' = UserOf(c)
           /\ SessionOf(c)' = SessionOf(c)
           /\ RowDead(c) => RowDead(c)'
BY DEF Issued, UserOf, SessionOf, RowDead

\* A step that empties some slots and changes no row preserves IInv.
LEMMA EmptyingSlots ==
    ASSUME IInv, UNCHANGED <<owner, parent, suspended, held>>,
           revoked \subseteq revoked', TypeOK',
           \A r \in Calls : call'[r] = call[r] \/ call'[r] = NoCall
    PROVE  IInv'
<1>1. ForeignKeys'
  BY DEF IInv, ForeignKeys, NoCall
<1>2. ASSUME NEW r \in Calls PROVE Operands(r)'
  <2>1. CASE call'[r] = NoCall
    BY <2>1 DEF Operands, NoCall, RequestOps
  <2>2. CASE call'[r] = call[r]
    <3>1. call[r].cred \in Creds \cup {None}
      BY DEF IInv, TypeOK, CallRecord
    <3>2. QED
      BY <2>2, <3>1, StableRows DEF IInv, Operands
  <2>3. QED BY <2>1, <2>2
<1>3. ASSUME NEW r \in Calls PROVE Doomed(r)'
  <2>1. CASE call'[r] = NoCall
    BY <2>1 DEF Doomed, NoCall
  <2>2. CASE call'[r] = call[r]
    <3>1. call[r].cred \in Creds \cup {None}
      BY DEF IInv, TypeOK, CallRecord
    <3>2. call[r].bornDead => call[r].cred \in Creds
      BY <3>1 DEF IInv, Operands, Doomed
    <3>3. QED
      BY <2>2, <3>1, <3>2, StableRows DEF IInv, Doomed
  <2>3. QED BY <2>1, <2>2
<1>4. QED
  BY <1>1, <1>2, <1>3 DEF IInv

\* A step of the handler in slot r that changes no row and leaves its operands.
LEMMA MovingOn ==
    ASSUME IInv, NEW r \in Calls, NEW l \in {"run", "open"},
           UNCHANGED tables, Goto(r, l), ~call[r].bornDead, ~call[r].blocked,
           call[r].op \in RequestOps \ {"upgrade"} => call[r].cred \in Sessions,
           UNCHANGED history
    PROVE  IInv'
<1> USE DEF Goto, tables, history
<1>1. TypeOK'
  BY DEF IInv, TypeOK, CallRecord, PCs
<1>2. ForeignKeys'
  BY DEF IInv, TypeOK, ForeignKeys, CallRecord
<1>3. ASSUME NEW q \in Calls PROVE Operands(q)' /\ Doomed(q)'
  <2>1. call[q] \in CallRecord
    BY DEF IInv, TypeOK
  <2>2. CASE q = r
    BY <2>1, <2>2 DEF IInv, TypeOK, Operands, Doomed, Issued, CallRecord
  <2>3. CASE q # r
    BY <2>1, <2>3 DEF IInv, TypeOK, Operands, Doomed, Issued, RowDead, UserOf,
                      SessionOf
  <2>4. QED BY <2>2, <2>3
<1>4. QED
  BY <1>1, <1>2, <1>3 DEF IInv

-----------------------------------------------------------------------------
(* One lemma per action that does more than the lemmas above say.            *)
\* A login reads no credential.
LEMMA LoginStartStep ==
    ASSUME IInv, NEW r \in Calls, NEW u \in Users, LoginStart(r, u)
    PROVE  IInv'
<1> USE DEF LoginStart, tables, history
<1>1. TypeOK'
  BY NoCallIsRecord DEF IInv, TypeOK, CallRecord, PCs, Ops
<1>2. ForeignKeys'
  BY DEF IInv, TypeOK, ForeignKeys, NoCall
<1>3. ASSUME NEW q \in Calls PROVE Operands(q)' /\ Doomed(q)'
  <2>1. CASE q = r
    BY <2>1 DEF IInv, TypeOK, Operands, Doomed, NoCall, RequestOps
  <2>2. CASE q # r
    BY <2>2 DEF IInv, TypeOK, Operands, Doomed, Issued, RowDead, UserOf, SessionOf
  <2>3. QED BY <2>1, <2>2
<1>4. QED
  BY <1>1, <1>2, <1>3 DEF IInv

\* A new session row disturbs nothing that is known of the rows there are.
LEMMA NewSession ==
    ASSUME IInv, NEW s \in Sessions, NEW u \in Users, CreateSession(s, u),
           NEW c \in Creds, Issued(c)
    PROVE  /\ Issued(c)'
           /\ UserOf(c)' = UserOf(c)
           /\ SessionOf(c)' = SessionOf(c)
           /\ RowDead(c)' = RowDead(c)
BY IdsAssumption
   DEF IInv, TypeOK, ForeignKeys, CreateSession, Issued, UserOf, SessionOf,
       RowDead, Creds

\* So does a new bridge row.
LEMMA NewBridge ==
    ASSUME IInv, NEW b \in Bridges, NEW s \in Sessions, CreateBridgeToken(b, s),
           NEW c \in Creds, Issued(c)
    PROVE  /\ Issued(c)'
           /\ UserOf(c)' = UserOf(c)
           /\ SessionOf(c)' = SessionOf(c)
           /\ RowDead(c)' = RowDead(c)
BY IdsAssumption
   DEF IInv, TypeOK, ForeignKeys, CreateBridgeToken, Issued, UserOf, SessionOf,
       RowDead, Creds

\* A login inserts its session.
LEMMA LoginSessionStep ==
    ASSUME IInv, NEW r \in Calls, NEW s \in Sessions, LoginSession(r, s)
    PROVE  IInv'
<1>1. CreateSession(s, call[r].target) /\ call[r].target \in Users
  BY DEF LoginSession, At, IInv, Operands
<1> USE DEF LoginSession, At, Finish, history
<1>2. TypeOK'
  BY <1>1, NoCallIsRecord DEF IInv, TypeOK, CreateSession
<1>3. ForeignKeys'
  BY <1>1, IdsAssumption DEF IInv, TypeOK, ForeignKeys, CreateSession, NoCall
<1>4. ASSUME NEW q \in Calls PROVE Operands(q)' /\ Doomed(q)'
  <2>1. CASE q = r
    BY <2>1 DEF IInv, TypeOK, Operands, Doomed, NoCall, RequestOps
  <2>2. CASE q # r
    <3>1. call'[q] = call[q] /\ call[q].cred \in Creds \cup {None}
      BY <2>2 DEF IInv, TypeOK, CallRecord
    <3>2. suspended' = suspended
      BY <1>1 DEF CreateSession
    <3>3. QED
      BY <1>1, <3>1, <3>2, NewSession DEF IInv, Operands, Doomed
  <2>3. QED BY <2>1, <2>2
<1>5. QED
  BY <1>2, <1>3, <1>4 DEF IInv

\* A request arrives: what it will be refused for is recorded as it is.
LEMMA RequestStep ==
    ASSUME IInv, NEW r \in Calls, Request(r)
    PROVE  IInv'
<1>1. PICK o \in RequestOps, c \in Known, t \in Bridges \cup {None} :
         Start(r, o, c, t) /\ (o = "revoke" => t \in Bridges)
  BY DEF Request, RequestOps
<1> USE DEF Start, tables, history
<1>2. c \in Creds /\ Issued(c) /\ c # None
  BY IdsAssumption DEF Known, IInv, TypeOK, ForeignKeys, Issued, Creds
<1>3. TypeOK'
  <2>1. /\ (SessionOf(c) \in expired) \in BOOLEAN
        /\ Dead(c) \in BOOLEAN
        /\ (UserOf(c) \in suspended) \in BOOLEAN
    BY DEF Dead, RowDead
  <2>2. [NoCall EXCEPT !.pc = "lookup", !.op = o, !.cred = c, !.target = t,
                       !.late = SessionOf(c) \in expired, !.bornDead = Dead(c),
                       !.blocked = UserOf(c) \in suspended] \in CallRecord
    BY <1>2, <2>1 DEF CallRecord, PCs, Ops, NoCall
  <2>3. QED
    BY <1>1, <2>2 DEF IInv, TypeOK
<1>4. ForeignKeys'
  BY <1>1 DEF IInv, TypeOK, ForeignKeys, NoCall
<1>5. ASSUME NEW q \in Calls PROVE Operands(q)' /\ Doomed(q)'
  <2>1. CASE q = r
    <3>1. /\ call'[q].pc = "lookup" /\ call'[q].op = o /\ call'[q].cred = c
          /\ call'[q].target = t
          /\ call'[q].late = (SessionOf(c) \in expired)
          /\ call'[q].bornDead = Dead(c)
          /\ call'[q].blocked = (UserOf(c) \in suspended)
      BY <1>1, <2>1 DEF IInv, TypeOK, NoCall, Dead, RowDead
    <3>2. UNCHANGED <<owner, parent, revoked, suspended>>
      BY <1>1
    <3>3. Operands(q)'
      BY <1>1, <1>2, <3>1, <3>2 DEF Operands, Issued, RequestOps
    <3>4. Doomed(q)'
      BY <1>2, <3>1, <3>2 DEF Doomed, Dead, RowDead, SessionOf, UserOf
    <3>5. QED BY <3>3, <3>4
  <2>2. CASE q # r
    BY <1>1, <2>2 DEF IInv, TypeOK, Operands, Doomed, Issued, RowDead, UserOf,
                      SessionOf
  <2>3. QED BY <2>1, <2>2
<1>6. QED
  BY <1>3, <1>4, <1>5 DEF IInv

\* Emptying one slot.
LEMMA FinishStep ==
    ASSUME IInv, NEW r \in Calls, Finish(r), UNCHANGED <<tables, history>>
    PROVE  IInv'
<1>1. TypeOK'
  BY NoCallIsRecord DEF IInv, TypeOK, Finish, tables, history
<1>2. \A q \in Calls : call'[q] = call[q] \/ call'[q] = NoCall
  BY DEF Finish, IInv, TypeOK
<1>3. QED
  BY <1>1, <1>2, EmptyingSlots DEF tables

\* The first query: a credential dead on arrival is refused here.
LEMMA LookupStep ==
    ASSUME IInv, NEW r \in Calls, Lookup(r)
    PROVE  IInv'
<1>1. CASE Finish(r)
  BY <1>1, FinishStep DEF Lookup
<1>2. CASE /\ ~call[r].late
           /\ ~RowDead(call[r].cred)
           /\ Goto(r, "user")
  <2> USE DEF Goto, Lookup, tables, history
  <2>1. TypeOK'
    BY <1>2 DEF IInv, TypeOK, CallRecord, PCs
  <2>2. ForeignKeys'
    BY <1>2 DEF IInv, TypeOK, ForeignKeys, CallRecord
  <2>3. ASSUME NEW q \in Calls PROVE Operands(q)' /\ Doomed(q)'
    <3>1. CASE q = r
      BY <1>2, <3>1 DEF IInv, TypeOK, Operands, Doomed, Issued, RowDead, UserOf,
                        SessionOf, CallRecord
    <3>2. CASE q # r
      BY <1>2, <3>2 DEF IInv, TypeOK, Operands, Doomed, Issued, RowDead, UserOf,
                        SessionOf
    <3>3. QED BY <3>1, <3>2
  <2>4. QED
    BY <2>1, <2>2, <2>3 DEF IInv
<1>3. QED
  BY <1>1, <1>2 DEF Lookup

\* The second query: a user blocked since arrival is refused here.
LEMMA LookupUserStep ==
    ASSUME IInv, NEW r \in Calls, LookupUser(r)
    PROVE  IInv'
<1>1. CASE Finish(r)
  BY <1>1, FinishStep DEF LookupUser
<1>2. CASE /\ UserOf(call[r].cred) \notin suspended
           /\ call[r].op # "upgrade" => call[r].cred \notin Bridges
           /\ Goto(r, "run")
  <2>1. call[r].pc = "user" /\ call[r].op \in RequestOps
    BY DEF LookupUser, IInv, Operands
  <2>2. ~call[r].bornDead /\ ~call[r].blocked
    BY <1>2, <2>1 DEF IInv, Doomed, TypeOK, CallRecord
  <2>3. call[r].op # "upgrade" => call[r].cred \in Sessions
    BY <1>2, <2>1 DEF IInv, Operands, TypeOK, CallRecord, Creds
  <2>4. QED
    BY <1>2, <2>1, <2>2, <2>3, MovingOn DEF LookupUser, PCs
<1>3. QED
  BY <1>1, <1>2 DEF LookupUser

\* A bridge token on the caller's session.
LEMMA MintStep ==
    ASSUME IInv, NEW r \in Calls, NEW b \in Bridges, Mint(r, b)
    PROVE  IInv'
<1>1. CreateBridgeToken(b, call[r].cred) /\ call[r].cred \in Sessions
  BY DEF Mint, At, IInv, Operands, RequestOps
<1>2. owner[call[r].cred] # None
  BY <1>1, IdsAssumption DEF IInv, Operands, Issued
<1> USE DEF Mint, At, Finish
<1>3. TypeOK'
  BY <1>1, NoCallIsRecord DEF IInv, TypeOK, CreateBridgeToken
<1>4. ForeignKeys'
  BY <1>1, <1>2, IdsAssumption
  DEF IInv, TypeOK, ForeignKeys, CreateBridgeToken, NoCall
<1>5. ASSUME NEW q \in Calls PROVE Operands(q)' /\ Doomed(q)'
  <2>1. CASE q = r
    BY <2>1 DEF IInv, TypeOK, Operands, Doomed, NoCall, RequestOps
  <2>2. CASE q # r
    <3>1. call'[q] = call[q] /\ call[q].cred \in Creds \cup {None}
      BY <2>2 DEF IInv, TypeOK, CallRecord
    <3>2. suspended' = suspended
      BY <1>1 DEF CreateBridgeToken
    <3>3. QED
      BY <1>1, <3>1, <3>2, NewBridge DEF IInv, Operands, Doomed
  <2>3. QED BY <2>1, <2>2
<1>6. QED
  BY <1>3, <1>4, <1>5 DEF IInv

\* One-click setup's session.
LEMMA SetupSessionStep ==
    ASSUME IInv, NEW r \in Calls, NEW s \in Sessions, SetupSession(r, s)
    PROVE  IInv'
<1>1. /\ call[r].cred \in Sessions
      /\ Issued(call[r].cred)
  BY IdsAssumption DEF SetupSession, At, IInv, Operands, RequestOps
<1>2. UserOf(call[r].cred) \in Users
  BY <1>1, IdsAssumption DEF IInv, TypeOK, Issued, UserOf, SessionOf
<1>3. CreateSession(s, UserOf(call[r].cred))
  BY DEF SetupSession
<1> USE DEF SetupSession, At, history
<1>4. TypeOK'
  <2>1. call' \in [Calls -> CallRecord]
    <3>1. call[r] \in CallRecord
      BY DEF IInv, TypeOK
    <3>2. [call[r] EXCEPT !.pc = "minting", !.minted = s] \in CallRecord
      BY <3>1 DEF CallRecord, PCs
    <3>3. call' = [call EXCEPT ![r] =
                     [call[r] EXCEPT !.pc = "minting", !.minted = s]]
      BY DEF IInv, TypeOK
    <3>4. QED
      BY <3>2, <3>3 DEF IInv, TypeOK
  <2>2. owner' \in [Sessions -> Users \cup {None}]
    BY <1>2, <1>3 DEF IInv, TypeOK, CreateSession
  <2>3. QED
    BY <1>3, <2>1, <2>2 DEF IInv, TypeOK, CreateSession
<1>5. ForeignKeys'
  BY <1>2, <1>3, IdsAssumption
  DEF IInv, TypeOK, ForeignKeys, CreateSession, CallRecord
<1>6. ASSUME NEW q \in Calls PROVE Operands(q)' /\ Doomed(q)'
  <2>1. /\ call'[q].op = call[q].op /\ call'[q].cred = call[q].cred
        /\ call'[q].target = call[q].target /\ call'[q].late = call[q].late
        /\ call'[q].bornDead = call[q].bornDead
        /\ call'[q].blocked = call[q].blocked
        /\ call'[q].pc = IF q = r THEN "minting" ELSE call[q].pc
        /\ call[q].cred \in Creds \cup {None}
    BY DEF IInv, TypeOK, CallRecord
  <2>2. suspended' = suspended
    BY <1>3 DEF CreateSession
  <2>3. QED
    BY <1>1, <1>2, <1>3, <2>1, <2>2, NewSession DEF IInv, Operands, Doomed
<1>7. QED
  BY <1>4, <1>5, <1>6 DEF IInv

\* One-click setup's token.
LEMMA SetupBridgeStep ==
    ASSUME IInv, NEW r \in Calls, NEW b \in Bridges, SetupBridge(r, b)
    PROVE  IInv'
<1>1. call[r].minted \in Sessions /\ owner[call[r].minted] # None
  BY DEF IInv, TypeOK, ForeignKeys, CallRecord, SetupBridge, At
<1>2. CreateBridgeToken(b, call[r].minted)
  BY DEF SetupBridge
<1>3. call[r].cred \in Sessions /\ ~call[r].bornDead /\ ~call[r].blocked
  BY DEF SetupBridge, At, IInv, Operands, Doomed, RequestOps, TypeOK, CallRecord
<1>4. \/ Finish(r)
      \/ call' = [call EXCEPT ![r].pc = "run", ![r].minted = None]
  BY DEF SetupBridge
<1>5. TypeOK'
  <2>1. call' \in [Calls -> CallRecord]
    BY <1>4, NoCallIsRecord DEF IInv, TypeOK, CallRecord, PCs, Finish
  <2>2. QED
    BY <1>1, <1>2, <2>1 DEF IInv, TypeOK, CreateBridgeToken, SetupBridge
<1>6. ForeignKeys'
  <2>1. ASSUME NEW q \in Calls
        PROVE  /\ call'[q].minted # None => owner[call'[q].minted] # None
               /\ call'[q].pc = "minting" => call'[q].minted # None
    <3>1. CASE q = r
      BY <1>4, <3>1 DEF IInv, TypeOK, CallRecord, Finish, NoCall
    <3>2. CASE q # r
      BY <1>4, <3>2 DEF IInv, TypeOK, ForeignKeys, Finish
    <3>3. QED BY <3>1, <3>2
  <2>2. QED
    BY <1>1, <1>2, <2>1, IdsAssumption
    DEF IInv, TypeOK, ForeignKeys, CreateBridgeToken
<1>7. ASSUME NEW q \in Calls PROVE Operands(q)' /\ Doomed(q)'
  <2>1. suspended' = suspended
    BY <1>2 DEF CreateBridgeToken
  <2>2. CASE call'[q] = NoCall
    BY <2>2 DEF Operands, Doomed, NoCall, RequestOps
  <2>3. CASE call'[q] # NoCall
    <3>1. /\ call'[q].op = call[q].op /\ call'[q].cred = call[q].cred
          /\ call'[q].target = call[q].target /\ call'[q].late = call[q].late
          /\ call'[q].bornDead = call[q].bornDead
          /\ call'[q].blocked = call[q].blocked
          /\ call'[q].pc = IF q = r THEN "run" ELSE call[q].pc
          /\ call[q].cred \in Creds \cup {None}
      BY <1>4, <2>3 DEF IInv, TypeOK, CallRecord, Finish
    <3>2. QED
      BY <1>1, <1>2, <1>3, <2>1, <3>1, NewBridge DEF IInv, Operands, Doomed
  <2>4. QED BY <2>2, <2>3
<1>8. QED
  BY <1>5, <1>6, <1>7 DEF IInv

\* Revoking only adds to the dead.
LEMMA RevokeTokenStep ==
    ASSUME IInv, NEW r \in Calls, RevokeToken(r)
    PROVE  IInv'
<1>1. call[r].target \in Bridges /\ call[r].cred \in Sessions
  BY DEF RevokeToken, At, IInv, Operands, RequestOps
<1>2. ~call[r].bornDead /\ ~call[r].blocked
  BY DEF RevokeToken, At, IInv, Doomed, TypeOK, CallRecord
<1> USE DEF RevokeToken, At, Goto, Finish
<1>3. TypeOK'
  BY <1>1, NoCallIsRecord DEF IInv, TypeOK, CallRecord, PCs, Creds
<1>4. ForeignKeys'
  BY DEF IInv, TypeOK, ForeignKeys, CallRecord, NoCall
<1>5. revoked \subseteq revoked' /\ UNCHANGED <<owner, parent, suspended>>
  OBVIOUS
<1>6. ASSUME NEW q \in Calls PROVE Operands(q)' /\ Doomed(q)'
  <2>1. CASE call'[q] = NoCall
    BY <2>1 DEF Operands, Doomed, NoCall, RequestOps
  <2>2. CASE call'[q] # NoCall
    <3>1. /\ call'[q].op = call[q].op /\ call'[q].cred = call[q].cred
          /\ call'[q].target = call[q].target /\ call'[q].late = call[q].late
          /\ call'[q].bornDead = call[q].bornDead
          /\ call'[q].blocked = call[q].blocked
          /\ call'[q].pc = IF q = r THEN "close" ELSE call[q].pc
          /\ call[q].cred \in Creds \cup {None}
      BY <2>2 DEF IInv, TypeOK, CallRecord
    <3>2. call[q].bornDead => call[q].cred \in Creds
      BY <3>1 DEF IInv, Operands, Doomed
    <3>3. QED
      BY <1>1, <1>2, <1>5, <3>1, <3>2, StableRows DEF IInv, Operands, Doomed
  <2>3. QED BY <2>1, <2>2
<1>7. QED
  BY <1>3, <1>4, <1>6 DEF IInv

\* Choosing the batch.
LEMMA RevokeRowsStep ==
    ASSUME IInv, NEW r \in Calls, RevokeRows(r)
    PROVE  IInv'
<1>1. ~call[r].bornDead /\ ~call[r].blocked /\ call[r].cred \in Sessions
  BY DEF RevokeRows, At, IInv, Operands, Doomed, RequestOps, TypeOK, CallRecord
<1> USE DEF RevokeRows, At, tables, history
<1>2. TypeOK'
  <2>1. call[r] \in CallRecord /\ RowsToRevoke(r) \subseteq Creds
    BY DEF IInv, TypeOK, RowsToRevoke
  <2>2. [call[r] EXCEPT !.pc = "commit", !.batch = RowsToRevoke(r)] \in CallRecord
    BY <2>1 DEF CallRecord, PCs
  <2>3. call' = [call EXCEPT ![r] =
                   [call[r] EXCEPT !.pc = "commit", !.batch = RowsToRevoke(r)]]
    BY DEF IInv, TypeOK
  <2>4. QED
    BY <2>2, <2>3 DEF IInv, TypeOK
<1>3. ForeignKeys'
  BY DEF IInv, TypeOK, ForeignKeys, CallRecord
<1>4. ASSUME NEW q \in Calls PROVE Operands(q)' /\ Doomed(q)'
  <2>1. /\ call'[q].op = call[q].op /\ call'[q].cred = call[q].cred
        /\ call'[q].target = call[q].target /\ call'[q].late = call[q].late
        /\ call'[q].bornDead = call[q].bornDead
        /\ call'[q].blocked = call[q].blocked
        /\ call'[q].pc = IF q = r THEN "commit" ELSE call[q].pc
    BY DEF IInv, TypeOK, CallRecord
  <2>2. QED
    BY <1>1, <2>1 DEF IInv, Operands, Doomed, Issued, RowDead, UserOf, SessionOf
<1>5. QED
  BY <1>2, <1>3, <1>4 DEF IInv

\* Committing it, and the deletion of the account.
LEMMA CommitRevokeStep ==
    ASSUME IInv, NEW r \in Calls, CommitRevoke(r)
    PROVE  IInv'
<1> DEFINE gone == IF call[r].op = "delete" THEN {UserOf(call[r].cred)} ELSE {}
<1>1. /\ call[r].pc = "commit"
      /\ ~call[r].bornDead /\ ~call[r].blocked
      /\ call[r].cred \in Sessions /\ Issued(call[r].cred)
  BY IdsAssumption
  DEF CommitRevoke, IInv, Operands, Doomed, RequestOps, TypeOK, CallRecord
<1>2. gone \subseteq Users
  BY <1>1, IdsAssumption DEF IInv, TypeOK, Issued, UserOf, SessionOf
<1>3. /\ revoked' = revoked \cup call[r].batch
      /\ suspended' = suspended \cup gone
      /\ deleted' = deleted \cup gone
      /\ UNCHANGED <<owner, parent, expired, held, setupMinted, chosen, raced,
                     severed>>
  BY DEF CommitRevoke, history
<1> HIDE DEF gone
<1>4. TypeOK'
  <2>1. call[r] \in CallRecord
    BY DEF IInv, TypeOK
  <2>2. [call[r] EXCEPT !.pc = "close", !.batch = {}] \in CallRecord
    BY <2>1 DEF CallRecord, PCs
  <2>3. \/ call' = [call EXCEPT ![r] =
                      [call[r] EXCEPT !.pc = "close", !.batch = {}]]
        \/ call' = [call EXCEPT ![r] = NoCall]
    BY DEF CommitRevoke, Revoked, IInv, TypeOK
  <2>4. call[r].batch \subseteq Creds
    BY <2>1 DEF CallRecord
  <2>5. call' \in [Calls -> CallRecord]
    BY <2>2, <2>3, NoCallIsRecord DEF IInv, TypeOK
  <2>6. QED
    BY <1>2, <1>3, <2>4, <2>5 DEF IInv, TypeOK
<1>5. ForeignKeys'
  <2>1. \A q \in Calls : \/ call'[q].minted = None /\ call'[q].pc # "minting"
                         \/ /\ call'[q].minted = call[q].minted
                            /\ call'[q].pc \in {call[q].pc, "close"}
    BY DEF CommitRevoke, Revoked, IInv, TypeOK, CallRecord, NoCall
  <2>2. QED
    BY <1>3, <2>1 DEF IInv, TypeOK, ForeignKeys, CallRecord
<1>6. ASSUME NEW q \in Calls, call'[q] = NoCall
      PROVE  Operands(q)' /\ Doomed(q)'
  BY <1>6 DEF Operands, Doomed, NoCall, RequestOps
<1>7. ASSUME NEW q \in Calls, call'[q] # NoCall
      PROVE  Operands(q)' /\ Doomed(q)'
  <2>1. /\ call'[q].op = call[q].op /\ call'[q].cred = call[q].cred
        /\ call'[q].target = call[q].target /\ call'[q].late = call[q].late
        /\ call'[q].bornDead = call[q].bornDead
        /\ call'[q].blocked = call[q].blocked
        /\ call'[q].pc = IF q = r THEN "close" ELSE call[q].pc
        /\ call[q].cred \in Creds \cup {None}
    BY <1>7 DEF CommitRevoke, Revoked, IInv, TypeOK, CallRecord
  <2>2. call[q].bornDead => call[q].cred \in Creds
    BY <2>1 DEF IInv, Operands, Doomed
  <2>3. revoked \subseteq revoked' /\ suspended \subseteq suspended'
    BY <1>3
  <2>4. QED
    BY <1>1, <1>3, <2>1, <2>2, <2>3, StableRows DEF IInv, Operands, Doomed
<1>8. QED
  BY <1>4, <1>5, <1>6, <1>7 DEF IInv

\* Suspending only adds to the blocked.
LEMMA SuspendStep ==
    ASSUME IInv, NEW r \in Calls, NEW u \in Users, Suspend(r, u)
    PROVE  IInv'
<1> USE DEF Suspend, history
<1>1. TypeOK'
  <2>1. [NoCall EXCEPT !.pc = "close", !.op = "suspend", !.target = u]
          \in CallRecord
    BY DEF NoCall, CallRecord, PCs, Ops
  <2>2. QED
    BY <2>1 DEF IInv, TypeOK
<1>2. ForeignKeys'
  BY DEF IInv, TypeOK, ForeignKeys, NoCall
<1>3. ASSUME NEW q \in Calls PROVE Operands(q)' /\ Doomed(q)'
  <2>1. CASE q = r
    BY <2>1 DEF IInv, TypeOK, Operands, Doomed, NoCall, RequestOps
  <2>2. CASE q # r
    BY <2>2 DEF IInv, TypeOK, Operands, Doomed, Issued, RowDead, UserOf, SessionOf
  <2>3. QED BY <2>1, <2>2
<1>4. QED
  BY <1>1, <1>2, <1>3 DEF IInv

\* Lifting a suspension clears `blocked' of the user's calls.
LEMMA UnsuspendStep ==
    ASSUME IInv, NEW u \in Users, Unsuspend(u)
    PROVE  IInv'
<1> USE DEF Unsuspend, history
<1>1. TypeOK'
  <2>1. ASSUME NEW r \in Calls
        PROVE  [call[r] EXCEPT !.blocked = FALSE] \in CallRecord
    BY DEF IInv, TypeOK, CallRecord
  <2>2. QED
    BY <2>1 DEF IInv, TypeOK
<1>2. ASSUME NEW q \in Calls
      PROVE  /\ call'[q].op = call[q].op /\ call'[q].cred = call[q].cred
             /\ call'[q].target = call[q].target /\ call'[q].late = call[q].late
             /\ call'[q].bornDead = call[q].bornDead
             /\ call'[q].minted = call[q].minted
             /\ call'[q].pc = call[q].pc
             /\ call'[q].blocked =>
                  call[q].blocked /\ (call[q].cred # None => UserOf(call[q].cred) # u)
  BY DEF IInv, TypeOK, CallRecord
<1>3. ForeignKeys'
  BY <1>2 DEF IInv, ForeignKeys
<1>4. ASSUME NEW q \in Calls PROVE Operands(q)' /\ Doomed(q)'
  BY <1>2 DEF IInv, Operands, Doomed, Issued, RowDead, UserOf, SessionOf
<1>5. QED
  BY <1>1, <1>3, <1>4 DEF IInv

\* Closing sockets moves slots that were granted already.
LEMMA CloseSocketsStep ==
    ASSUME IInv, NEW r \in Calls, CloseSockets(r)
    PROVE  IInv'
<1>1. ~call[r].bornDead /\ ~call[r].blocked
  BY DEF CloseSockets, IInv, Doomed, TypeOK, CallRecord
<1> USE DEF CloseSockets, tables
<1>2. TypeOK'
  <2>1. ASSUME NEW q \in Calls
        PROVE  [call[q] EXCEPT !.pc = "closing"] \in CallRecord
    BY DEF IInv, TypeOK, CallRecord, PCs
  <2>2. call' \in [Calls -> CallRecord]
    BY <2>1, NoCallIsRecord DEF IInv, TypeOK
  <2>3. call[r].op = "logout" => call[r].cred \in Sessions
    BY DEF IInv, Operands, RequestOps
  <2>4. QED
    BY <2>2, <2>3 DEF IInv, TypeOK
<1>3. ASSUME NEW q \in Calls
      PROVE  \/ call'[q] = NoCall
             \/ call'[q] = call[q]
             \/ /\ call'[q].op = call[q].op /\ call'[q].cred = call[q].cred
                /\ call'[q].target = call[q].target
                /\ call'[q].late = call[q].late
                /\ call'[q].bornDead = call[q].bornDead
                /\ call'[q].blocked = call[q].blocked
                /\ call'[q].minted = call[q].minted
                /\ call[q].pc = "open"
                /\ call'[q].pc = "closing"
  BY DEF IInv, TypeOK, CallRecord, InClosePass
<1>4. ForeignKeys'
  BY <1>3 DEF IInv, ForeignKeys, NoCall
<1>5. ASSUME NEW q \in Calls PROVE Operands(q)' /\ Doomed(q)'
  <2>1. CASE call'[q] = NoCall
    BY <2>1 DEF Operands, Doomed, NoCall, RequestOps
  <2>2. CASE call'[q] # NoCall
    <3>1. UNCHANGED <<owner, parent, revoked, suspended>>
      OBVIOUS
    <3>2. /\ call'[q].op = call[q].op /\ call'[q].cred = call[q].cred
          /\ call'[q].target = call[q].target /\ call'[q].late = call[q].late
          /\ call'[q].bornDead = call[q].bornDead
          /\ call'[q].blocked = call[q].blocked
          /\ \/ call'[q].pc = call[q].pc
             \/ call[q].pc = "open" /\ call'[q].pc = "closing"
      BY <1>3, <2>2
    <3>3. Operands(q) /\ Doomed(q)
      BY DEF IInv
    <3> HIDE DEF CloseSockets
    <3>4. Operands(q)'
      BY <3>1, <3>2, <3>3 DEF Operands, Issued
    <3>5. Doomed(q)'
      BY <3>1, <3>2, <3>3 DEF Doomed, RowDead, UserOf, SessionOf
    <3>6. QED BY <3>4, <3>5
  <2>3. QED BY <2>1, <2>2
<1>6. QED
  BY <1>2, <1>4, <1>5 DEF IInv

\* Expiry is judged by `late', read before.
LEMMA ExpireStep ==
    ASSUME IInv, NEW s \in Sessions, Expire(s)
    PROVE  IInv'
<1> USE DEF Expire, history
<1>1. TypeOK'
  BY DEF IInv, TypeOK
<1>2. ForeignKeys'
  BY DEF IInv, ForeignKeys
<1>3. ASSUME NEW q \in Calls PROVE Operands(q)' /\ Doomed(q)'
  BY DEF IInv, Operands, Doomed, Issued, RowDead, UserOf, SessionOf
<1>4. QED
  BY <1>1, <1>2, <1>3 DEF IInv

\* A crash empties the slots.
LEMMA CrashStep == ASSUME IInv, Crash PROVE IInv'
<1>1. TypeOK'
  BY NoCallIsRecord DEF IInv, TypeOK, Crash, tables, history
<1>2. \A q \in Calls : call'[q] = NoCall
  BY DEF Crash
<1>3. QED
  BY <1>1, <1>2, EmptyingSlots DEF Crash, tables

\* An upgrade becomes a socket.
LEMMA RegisterSocketStep ==
    ASSUME IInv, NEW r \in Calls, RegisterSocket(r)
    PROVE  IInv'
<1>1. ~call[r].bornDead /\ ~call[r].blocked
  BY DEF RegisterSocket, At, IInv, Doomed, TypeOK, CallRecord
<1>2. call[r].op \in RequestOps \ {"upgrade"} => call[r].cred \in Sessions
  BY DEF RegisterSocket, At
<1>3. QED
  BY <1>1, <1>2, MovingOn DEF RegisterSocket, PCs

\* One case per kind of action.
LEMMA NextIInv == IInv /\ [Next]_vars => IInv'
<1> SUFFICES ASSUME IInv, [Next]_vars PROVE IInv'
  OBVIOUS
<1>1. ASSUME NEW r \in Calls, NEW u \in Users, LoginStart(r, u) PROVE IInv'
  BY <1>1, LoginStartStep
<1>2. ASSUME NEW r \in Calls, NEW u \in Users, Suspend(r, u) PROVE IInv'
  BY <1>2, SuspendStep
<1>3. ASSUME NEW r \in Calls, Request(r) PROVE IInv'
  BY <1>3, RequestStep
<1>4. ASSUME NEW r \in Calls, HandlerStep(r) PROVE IInv'
  BY <1>4, LoginSessionStep, SetupSessionStep, MintStep, SetupBridgeStep,
     LookupStep, LookupUserStep, RevokeTokenStep, RevokeRowsStep,
     CommitRevokeStep, RegisterSocketStep, CloseSocketsStep DEF HandlerStep
<1>5. ASSUME NEW r \in Calls, SocketGone(r) \/ Fail(r) PROVE IInv'
  BY <1>5, FinishStep DEF SocketGone, Fail
<1>6. ASSUME NEW u \in Users, Unsuspend(u) PROVE IInv'
  BY <1>6, UnsuspendStep
<1>7. ASSUME NEW s \in Sessions, Expire(s) PROVE IInv'
  BY <1>7, ExpireStep
<1>8. CASE Crash
  BY <1>8, CrashStep
<1>9. CASE UNCHANGED vars
  BY <1>9 DEF IInv, TypeOK, ForeignKeys, Operands, Doomed, Issued, RowDead,
              UserOf, SessionOf, vars, tables, history
<1>10. QED
  BY <1>1, <1>2, <1>3, <1>4, <1>5, <1>6, <1>7, <1>8, <1>9 DEF Next

\* The invariant holds of every behaviour.
THEOREM InductiveInvariant == Spec => []IInv
BY InitIInv, NextIInv, PTL DEF Spec

-----------------------------------------------------------------------------
\* The tables and slots are always well typed.
THEOREM TypeCorrect == Spec => []TypeOK
<1>1. IInv => TypeOK
  BY DEF IInv
<1>2. QED
  BY <1>1, InductiveInvariant, PTL

\* resolveToken never lets in a call whose credential was dead on arrival, nor
\* one whose user has been suspended ever since (src/auth.js:84-126).
THEOREM DeadNeverGranted == Spec => []NoDeadGrant
<1>1. IInv => NoDeadGrant
  <2> SUFFICES ASSUME IInv, NEW r \in Calls, call[r].pc \in Granted
               PROVE  ~call[r].bornDead /\ ~call[r].blocked
    BY DEF NoDeadGrant
  <2>1. call[r].pc \notin {"lookup", "user"}
    BY DEF Granted
  <2>2. QED
    BY <2>1 DEF IInv, Doomed
<1>2. QED
  BY <1>1, InductiveInvariant, PTL

-----------------------------------------------------------------------------
(***************************************************************************)
(* What a revocation reaches: all it must (NoLiveChildLeftBehind) and      *)
(* nothing else (RevocationScope, SetupAgentsKept).                        *)
(*                                                                         *)
(* The revoking transaction chooses its rows in one step and shows them in *)
(* a later one, so the invariant speaks of the batch in between: whose     *)
(* rows it holds (Batches), and that a batch which holds a session holds   *)
(* every child of it that was not minted behind the transaction's back     *)
(* (Caught).  One-click setup's sessions stay out of every logout's batch  *)
(* because no client holds their tokens (Unheld).                          *)
(***************************************************************************)
\* The rows a transaction is revoking are its caller's, and a logout's are
\* those of the one session it presented.
Batches ==
    \A r \in Calls : \A c \in call[r].batch :
        /\ call[r].op \in {"logout", "delete"}
        /\ Issued(c)
        /\ UserOf(c) = UserOf(call[r].cred)
        /\ call[r].op = "logout" => SessionOf(c) = call[r].cred

\* A session is never revoked alone.
Caught ==
    \A r \in Calls, b \in Bridges :
        parent[b] \in call[r].batch => b \in revoked \cup call[r].batch \cup raced

\* Nobody holds the raw token of a session that setup created, so nobody can
\* present it to a logout.
Unheld ==
    /\ \A b \in setupMinted : Issued(b) /\ parent[b] \notin held
    /\ \A r \in Calls : call[r].minted \notin held
    /\ \A r \in Calls : call[r].op = "logout" => call[r].cred \in held \cup Bridges

\* Only rows that exist are revoked, and a session that nobody holds is
\* revoked by the deletion of its user's account only.
RevokedRows ==
    /\ \A c \in revoked : Issued(c)
    /\ \A s \in Sessions : s \in revoked => s \in held \/ owner[s] \in deleted

RInv ==
    /\ NoLiveChildLeftBehind
    /\ SetupAgentsKept
    /\ Batches
    /\ Caught
    /\ Unheld
    /\ RevokedRows

\* No table has a row yet.
LEMMA InitRInv == Init => RInv
BY DEF Init, RInv, NoLiveChildLeftBehind, SetupAgentsKept, Batches, Caught,
       Unheld, RevokedRows, NoCall

-----------------------------------------------------------------------------
\* What a slot may do in a step that leaves the credential rows alone.
QuietSlot(q) ==
    /\ \/ call'[q].batch = {}
       \/ /\ call'[q].batch = call[q].batch
          /\ call'[q].cred = call[q].cred
          /\ call'[q].op = call[q].op
    /\ call'[q].minted \in {None, call[q].minted}
    /\ call'[q].op = "logout" => call'[q].cred \in held \cup Bridges

\* Such a step preserves the invariant.
LEMMA QuietStep ==
    ASSUME IInv, RInv,
           UNCHANGED <<owner, parent, revoked, deleted, held, setupMinted,
                       chosen, raced>>,
           \A q \in Calls : QuietSlot(q)
    PROVE  RInv'
<1>1. (NoLiveChildLeftBehind /\ SetupAgentsKept /\ RevokedRows)'
  BY DEF RInv, NoLiveChildLeftBehind, SetupAgentsKept, RevokedRows, RowDead,
         UserOf, SessionOf, Issued
<1>2. Batches'
  BY DEF RInv, Batches, QuietSlot, UserOf, SessionOf, Issued
<1>3. Caught'
  BY DEF RInv, Caught, QuietSlot
<1>4. Unheld'
  BY IdsAssumption DEF RInv, Unheld, QuietSlot, Issued, IInv, TypeOK
<1>5. QED
  BY <1>1, <1>2, <1>3, <1>4 DEF RInv

\* A slot that is left alone, or emptied.
LEMMA SlotKept ==
    ASSUME RInv, NEW q \in Calls, call'[q] = call[q] \/ call'[q] = NoCall
    PROVE  QuietSlot(q)
BY DEF QuietSlot, NoCall, RInv, Unheld

\* The handler steps of that kind: a batch goes with its handler, and a logout
\* starts from a credential some client holds.
LEMMA QuietSteps ==
    ASSUME IInv, RInv, NEW r \in Calls,
           \/ \E u \in Users : LoginStart(r, u) \/ Suspend(r, u)
           \/ Request(r) \/ Lookup(r) \/ LookupUser(r)
           \/ RegisterSocket(r) \/ CloseSockets(r)
           \/ SocketGone(r) \/ Fail(r)
    PROVE  RInv'
<1>1. call \in [Calls -> CallRecord]
  BY DEF IInv, TypeOK
<1>2. ASSUME NEW u \in Users, LoginStart(r, u) \/ Suspend(r, u) PROVE RInv'
  <2>1. ASSUME NEW q \in Calls PROVE QuietSlot(q)
    <3>1. CASE q = r
      BY <1>1, <1>2, <3>1 DEF LoginStart, Suspend, QuietSlot, NoCall
    <3>2. CASE q # r
      BY <1>1, <1>2, <3>2, SlotKept DEF LoginStart, Suspend
    <3>3. QED BY <3>1, <3>2
  <2>2. QED
    BY <1>2, <2>1, QuietStep DEF LoginStart, Suspend, tables, history
<1>3. CASE Request(r)
  <2>1. PICK o \in RequestOps, c \in Known, t \in Bridges \cup {None} : Start(r, o, c, t)
    BY <1>3 DEF Request, RequestOps
  <2>2. c \in held \cup Bridges
    BY DEF Known
  <2>3. \A q \in Calls : QuietSlot(q)
    BY <1>1, <2>1, <2>2, SlotKept DEF Start, QuietSlot, NoCall
  <2>4. QED
    BY <2>1, <2>3, QuietStep DEF Start, tables, history
<1>4. CASE Lookup(r) \/ LookupUser(r) \/ RegisterSocket(r) \/ SocketGone(r) \/ Fail(r)
  <2>1. Finish(r) \/ Goto(r, "user") \/ Goto(r, "run") \/ Goto(r, "open")
    BY <1>4 DEF Lookup, LookupUser, RegisterSocket, SocketGone, Fail
  <2>2. QuietSlot(r)
    BY <1>1, <2>1 DEF Finish, Goto, QuietSlot, NoCall, RInv, Unheld, CallRecord
  <2>3. \A q \in Calls : QuietSlot(q)
    BY <1>1, <2>1, <2>2, SlotKept DEF Finish, Goto
  <2>4. QED
    BY <1>4, <2>3, QuietStep
    DEF Lookup, LookupUser, RegisterSocket, SocketGone, Fail, tables, history
<1>5. CASE CloseSockets(r)
  <2>1. \A q \in Calls : QuietSlot(q)
    BY <1>1, <1>5, SlotKept DEF CloseSockets, QuietSlot, CallRecord, RInv, Unheld
  <2>2. QED
    BY <1>5, <2>1, QuietStep DEF CloseSockets, tables, history
<1>6. QED
  BY <1>2, <1>3, <1>4, <1>5

\* The steps of no handler.
LEMMA OutsideSteps ==
    ASSUME IInv, RInv,
           \/ \E u \in Users : Unsuspend(u)
           \/ \E s \in Sessions : Expire(s)
           \/ Crash
           \/ UNCHANGED vars
    PROVE  RInv'
<1>1. call \in [Calls -> CallRecord]
  BY DEF IInv, TypeOK
<1>2. \A q \in Calls : QuietSlot(q)
  BY <1>1 DEF Unsuspend, Expire, Crash, vars, history, tables, QuietSlot, NoCall,
              RInv, Unheld, CallRecord
<1>3. QED
  BY <1>2, QuietStep DEF Unsuspend, Expire, Crash, vars, tables, history

-----------------------------------------------------------------------------
(* The steps that write a credential row.                                    *)
\* What a slot may do in a step that inserts a row.
SlotGoesOn(q) ==
    \/ call'[q] = NoCall
    \/ /\ call'[q].batch = call[q].batch
       /\ call'[q].cred = call[q].cred
       /\ call'[q].op = call[q].op

\* Rows that are there keep what Batches says of them.
LEMMA BatchesKept ==
    ASSUME IInv, RInv, \A q \in Calls : SlotGoesOn(q),
           \A c \in Creds : Issued(c) =>
              /\ Issued(c)'
              /\ UserOf(c)' = UserOf(c)
              /\ SessionOf(c)' = SessionOf(c)
    PROVE  Batches'
<1>1. ASSUME NEW q \in Calls, NEW c \in call[q].batch PROVE c \in Creds
  BY <1>1 DEF IInv, TypeOK, CallRecord
<1>2. ASSUME NEW q \in Calls, call[q].op \in {"logout", "delete"}
      PROVE Issued(call[q].cred) /\ call[q].cred \in Creds
  BY <1>2 DEF IInv, Operands, RequestOps, TypeOK, CallRecord
<1>3. QED
  BY <1>1, <1>2 DEF RInv, Batches, SlotGoesOn, NoCall

\* A new session: nothing refers to it yet, and if a setup minted it nobody
\* holds it.
LEMMA NewSessionKeeps ==
    ASSUME IInv, RInv, NEW s \in Sessions, NEW u \in Users, CreateSession(s, u),
           held \subseteq held', held' \subseteq held \cup {s},
           UNCHANGED <<setupMinted, chosen, raced>>,
           \A q \in Calls :
              /\ SlotGoesOn(q)
              /\ call'[q].minted \in {None, call[q].minted} \cup ({s} \ held')
    PROVE  RInv'
<1>1. /\ owner[s] = None
      /\ owner' = [owner EXCEPT ![s] = u]
      /\ UNCHANGED <<parent, revoked, deleted>>
  BY DEF CreateSession
<1>2. s \notin revoked
  BY <1>1, IdsAssumption DEF RInv, RevokedRows, Issued
<1>3. ASSUME NEW b \in Bridges, Issued(b) PROVE parent[b] # s /\ parent[b] \in Sessions
  BY <1>1, <1>3, IdsAssumption DEF IInv, ForeignKeys, Issued, TypeOK
<1>4. ASSUME NEW c \in Creds, Issued(c)
      PROVE  /\ Issued(c)'
             /\ UserOf(c)' = UserOf(c)
             /\ SessionOf(c)' = SessionOf(c)
             /\ RowDead(c)' = RowDead(c)
  BY <1>4, NewSession
<1>5. NoLiveChildLeftBehind'
  BY <1>1 DEF RInv, NoLiveChildLeftBehind
<1>6. Caught'
  BY <1>1 DEF RInv, Caught, SlotGoesOn, NoCall
<1>7. SetupAgentsKept'
  BY <1>1, <1>4 DEF RInv, SetupAgentsKept, Unheld, Creds, IInv, TypeOK
<1>8. Batches'
  BY <1>4, BatchesKept
<1>9. Unheld'
  <2>1. \A b \in setupMinted' : Issued(b)' /\ parent'[b] \notin held'
    BY <1>1, <1>3, <1>4 DEF RInv, Unheld, IInv, TypeOK, Creds
  <2>2. ASSUME NEW q \in Calls PROVE call'[q].minted \notin held'
    BY <1>1, <2>2, IdsAssumption DEF RInv, Unheld, IInv, ForeignKeys, TypeOK
  <2>3. ASSUME NEW q \in Calls, call'[q].op = "logout"
        PROVE call'[q].cred \in held' \cup Bridges
    BY <2>3 DEF RInv, Unheld, SlotGoesOn, NoCall
  <2>4. QED
    BY <2>1, <2>2, <2>3 DEF Unheld
<1>10. RevokedRows'
  <2>1. \A c \in revoked' : Issued(c)'
    BY <1>1, <1>4 DEF RInv, RevokedRows, IInv, TypeOK
  <2>2. \A t \in Sessions : t \in revoked' => t \in held' \/ owner'[t] \in deleted'
    BY <1>1, <1>2 DEF RInv, RevokedRows, IInv, TypeOK
  <2>3. QED
    BY <2>1, <2>2 DEF RevokedRows
<1>11. QED
  BY <1>5, <1>6, <1>7, <1>8, <1>9, <1>10 DEF RInv

\* Both ways to insert one.
LEMMA SessionKeeps ==
    ASSUME IInv, RInv, NEW r \in Calls, NEW s \in Sessions,
           LoginSession(r, s) \/ SetupSession(r, s)
    PROVE  RInv'
<1>1. call \in [Calls -> CallRecord]
  BY DEF IInv, TypeOK
<1>2. CASE LoginSession(r, s)
  <2>1. CreateSession(s, call[r].target) /\ call[r].target \in Users
    BY <1>2 DEF LoginSession, At, IInv, Operands
  <2>2. held \subseteq held' /\ held' \subseteq held \cup {s}
    BY <1>2 DEF LoginSession
  <2>3. \A q \in Calls : SlotGoesOn(q) /\ call'[q].minted \in {None, call[q].minted}
    BY <1>1, <1>2 DEF LoginSession, Finish, SlotGoesOn, NoCall
  <2>4. QED
    BY <1>2, <2>1, <2>2, <2>3, NewSessionKeeps DEF LoginSession, history
<1>3. CASE SetupSession(r, s)
  <2>1. call[r].cred \in Sessions /\ Issued(call[r].cred)
    BY <1>3, IdsAssumption DEF SetupSession, At, IInv, Operands, RequestOps
  <2>2. UserOf(call[r].cred) \in Users /\ CreateSession(s, UserOf(call[r].cred))
    BY <1>3, <2>1, IdsAssumption DEF SetupSession, IInv, TypeOK, Issued, UserOf, SessionOf
  <2>3. held' = held /\ s \notin held
    BY <1>3, <2>2 DEF SetupSession, CreateSession, IInv, ForeignKeys
  <2>4. \A q \in Calls : SlotGoesOn(q) /\ call'[q].minted \in {call[q].minted, s}
    BY <1>1, <1>3 DEF SetupSession, SlotGoesOn, CallRecord
  <2>5. QED
    BY <1>3, <2>2, <2>3, <2>4, NewSessionKeeps DEF SetupSession, history
<1>4. QED
  BY <1>2, <1>3

\* A new bridge token: if its session is dead or dying it has raced.
LEMMA BridgeKeeps ==
    ASSUME IInv, RInv, NEW r \in Calls, NEW b \in Bridges,
           Mint(r, b) \/ SetupBridge(r, b)
    PROVE  RInv'
<1> DEFINE s == IF Mint(r, b) THEN call[r].cred ELSE call[r].minted
<1>1. s \in Sessions /\ owner[s] # None /\ CreateBridgeToken(b, s)
  <2>1. CASE Mint(r, b)
    BY <2>1, IdsAssumption DEF Mint, At, IInv, Operands, Issued, RequestOps
  <2>2. CASE ~Mint(r, b)
    BY <2>2 DEF SetupBridge, At, IInv, ForeignKeys, TypeOK, CallRecord
  <2>3. QED BY <2>1, <2>2
<1>2. /\ setupMinted' = setupMinted \cup {b} /\ s \notin held
      \/ setupMinted' = setupMinted
  BY DEF Mint, SetupBridge, RInv, Unheld
<1>3. \A q \in Calls : SlotGoesOn(q) /\ call'[q].minted \in {None, call[q].minted}
  <2>1. \/ call' = [call EXCEPT ![r] = NoCall]
        \/ call' = [call EXCEPT ![r].pc = "run", ![r].minted = None]
    BY DEF Mint, SetupBridge, Finish
  <2>2. call \in [Calls -> CallRecord]
    BY DEF IInv, TypeOK
  <2>3. ASSUME NEW q \in Calls
        PROVE  /\ \/ call'[q] = NoCall
                  \/ call'[q] = call[q]
                  \/ call'[q] = [call[q] EXCEPT !.pc = "run", !.minted = None]
               /\ call[q] \in CallRecord
    <3>1. CASE q = r
      BY <2>1, <2>2, <3>1
    <3>2. CASE q # r
      BY <2>1, <2>2, <3>2
    <3>3. QED BY <3>1, <3>2
  <2>4. ASSUME NEW q \in Calls
        PROVE  SlotGoesOn(q) /\ call'[q].minted \in {None, call[q].minted}
    <3>1. CASE call'[q] = NoCall
      BY <3>1 DEF SlotGoesOn, NoCall
    <3>2. CASE call'[q] = call[q]
      BY <3>2 DEF SlotGoesOn
    <3>3. CASE call'[q] = [call[q] EXCEPT !.pc = "run", !.minted = None]
      BY <2>3, <3>3 DEF SlotGoesOn, CallRecord
    <3>4. QED
      BY <2>3, <3>1, <3>2, <3>3
  <2>5. QED
    BY <2>4
<1> HIDE DEF s
<1>4. /\ parent[b] = None
      /\ parent' = [parent EXCEPT ![b] = s]
      /\ raced' = IF s \in revoked \cup UNION {call[q].batch : q \in Calls}
                  THEN raced \cup {b} ELSE raced
      /\ UNCHANGED <<owner, revoked, deleted, held, chosen>>
  BY <1>1 DEF CreateBridgeToken
<1>5. ASSUME NEW c \in Creds, Issued(c)
      PROVE  /\ Issued(c)'
             /\ UserOf(c)' = UserOf(c)
             /\ SessionOf(c)' = SessionOf(c)
             /\ RowDead(c)' = RowDead(c)
  BY <1>1, <1>5, NewBridge
<1>6. b \notin revoked /\ Issued(b)' /\ ~Issued(b) /\ UserOf(b)' = owner[s]
  BY <1>1, <1>4, IdsAssumption
  DEF RInv, RevokedRows, Issued, UserOf, SessionOf, IInv, TypeOK
<1>7. NoLiveChildLeftBehind' /\ Caught'
  BY <1>3, <1>4
  DEF RInv, NoLiveChildLeftBehind, Caught, SlotGoesOn, NoCall, IInv, TypeOK
<1>8. SetupAgentsKept'
  <2> SUFFICES ASSUME NEW d \in setupMinted', RowDead(d)'
               PROVE  UserOf(d)' \in deleted \/ d \in chosen
    BY <1>4 DEF SetupAgentsKept
  <2>1. CASE d = b /\ setupMinted' # setupMinted
    BY <1>1, <1>2, <1>4, <1>6, <2>1, IdsAssumption
    DEF RowDead, SessionOf, RInv, RevokedRows, IInv, TypeOK
  <2>2. CASE d \in setupMinted
    BY <1>5, <2>2 DEF RInv, SetupAgentsKept, Unheld, IInv, TypeOK, Creds
  <2>3. QED
    BY <1>2, <2>1, <2>2
<1>9. Batches'
  BY <1>3, <1>5, BatchesKept
<1>10. Unheld'
  <2>1. \A d \in setupMinted' : Issued(d)' /\ parent'[d] \notin held'
    BY <1>2, <1>4, <1>5, <1>6 DEF RInv, Unheld, IInv, TypeOK, Creds
  <2>2. ASSUME NEW q \in Calls PROVE call'[q].minted \notin held'
    BY <1>3, <1>4, IdsAssumption DEF RInv, Unheld, IInv, TypeOK
  <2>3. ASSUME NEW q \in Calls, call'[q].op = "logout"
        PROVE call'[q].cred \in held' \cup Bridges
    BY <1>3, <1>4, <2>3 DEF RInv, Unheld, SlotGoesOn, NoCall
  <2>4. QED
    BY <2>1, <2>2, <2>3 DEF Unheld
<1>11. RevokedRows'
  BY <1>4, <1>5 DEF RInv, RevokedRows, IInv, TypeOK
<1>12. QED
  BY <1>7, <1>8, <1>9, <1>10, <1>11 DEF RInv

\* The token named by its owner.
LEMMA RevokeTokenKeeps ==
    ASSUME IInv, RInv, NEW r \in Calls, RevokeToken(r)
    PROVE  RInv'
<1> DEFINE b == call[r].target
<1>1. call \in [Calls -> CallRecord]
  BY DEF IInv, TypeOK
<1>2. b \in Bridges
  BY DEF RevokeToken, At, IInv, Operands
<1>3. CASE Finish(r) /\ UNCHANGED <<revoked, chosen>>
  <2>1. \A q \in Calls : QuietSlot(q)
    BY <1>1, <1>3, SlotKept DEF Finish
  <2>2. QED
    BY <1>3, <2>1, QuietStep DEF RevokeToken
<1>4. CASE /\ parent[b] # None
           /\ revoked' = revoked \cup {b}
           /\ chosen' = chosen \cup {b}
           /\ Goto(r, "close")
  <2>1. \A q \in Calls : /\ call'[q].batch = call[q].batch
                         /\ call'[q].cred = call[q].cred
                         /\ call'[q].op = call[q].op
                         /\ call'[q].minted = call[q].minted
    BY <1>1, <1>4 DEF Goto, CallRecord
  <2>2. UNCHANGED <<owner, parent, deleted, held, setupMinted, raced>>
    BY DEF RevokeToken
  <2> HIDE DEF b
  <2>3. (NoLiveChildLeftBehind /\ Caught)'
    BY <1>2, <1>4, <2>1, <2>2, IdsAssumption
    DEF RInv, NoLiveChildLeftBehind, Caught, IInv, TypeOK
  <2>4. SetupAgentsKept'
    BY <1>2, <1>4, <2>2, IdsAssumption
    DEF RInv, SetupAgentsKept, RowDead, UserOf, SessionOf, IInv, TypeOK
  <2>5. (Batches /\ Unheld)'
    BY <2>1, <2>2 DEF RInv, Batches, Unheld, Issued, UserOf, SessionOf
  <2>6. RevokedRows'
    BY <1>2, <1>4, <2>2, IdsAssumption DEF RInv, RevokedRows, Issued
  <2>7. QED
    BY <2>3, <2>4, <2>5, <2>6 DEF RInv
<1>5. QED
  BY <1>3, <1>4 DEF RevokeToken

\* The transaction's UPDATEs: every row of the batch, and its children, qualify.
LEMMA RevokeRowsKeeps ==
    ASSUME IInv, RInv, NEW r \in Calls, RevokeRows(r)
    PROVE  RInv'
<1>1. call[r].cred \in Sessions /\ Issued(call[r].cred)
  BY IdsAssumption DEF RevokeRows, At, IInv, Operands, RequestOps
<1>2. \A q \in Calls : /\ call'[q].batch = IF q = r THEN RowsToRevoke(r) ELSE call[q].batch
                       /\ call'[q].cred = call[q].cred
                       /\ call'[q].op = call[q].op
                       /\ call'[q].minted = call[q].minted
  BY DEF RevokeRows, IInv, TypeOK, CallRecord
<1>3. UNCHANGED <<owner, parent, revoked, deleted, held, setupMinted, chosen, raced>>
  BY DEF RevokeRows, tables, history
<1>4. (NoLiveChildLeftBehind /\ SetupAgentsKept /\ RevokedRows)'
  BY <1>3 DEF RInv, NoLiveChildLeftBehind, SetupAgentsKept, RevokedRows, RowDead,
              UserOf, SessionOf, Issued
<1>5. ASSUME NEW c \in RowsToRevoke(r)
      PROVE  /\ call[r].op \in {"logout", "delete"}
             /\ Issued(c)
             /\ UserOf(c) = UserOf(call[r].cred)
             /\ call[r].op = "logout" => SessionOf(c) = call[r].cred
  BY <1>1 DEF RowsToRevoke, RevokeRows, At, UserOf, SessionOf
<1>6. Batches'
  BY <1>2, <1>3, <1>5 DEF RInv, Batches, Issued, UserOf, SessionOf
<1>7. ASSUME NEW b \in Bridges, parent[b] \in RowsToRevoke(r)
      PROVE  b \in revoked \cup RowsToRevoke(r)
  <2>1. b \in Creds /\ b \notin Sessions
    BY IdsAssumption DEF Creds
  <2>2. parent[b] \in Creds /\ Issued(parent[b])
    BY <1>7 DEF RowsToRevoke
  <2>3. parent[b] \in Sessions
    BY <2>2, IdsAssumption DEF IInv, TypeOK, Creds
  <2>4. SessionOf(b) = SessionOf(parent[b]) /\ UserOf(b) = UserOf(parent[b])
    BY <2>1, <2>3 DEF SessionOf, UserOf
  <2>5. Issued(b)
    BY <2>1, <2>3, IdsAssumption DEF Issued
  <2>6. QED
    BY <1>7, <2>1, <2>4, <2>5 DEF RowsToRevoke
<1>8. Caught'
  BY <1>2, <1>3, <1>7 DEF RInv, Caught
<1>9. Unheld'
  BY <1>2, <1>3 DEF RInv, Unheld, Issued
<1>10. QED
  BY <1>4, <1>6, <1>8, <1>9 DEF RInv

\* The batch becomes visible, whole.
LEMMA CommitRevokeKeeps ==
    ASSUME IInv, RInv, NEW r \in Calls, CommitRevoke(r)
    PROVE  RInv'
<1> DEFINE B == call[r].batch
           u == UserOf(call[r].cred)
<1>1. \A q \in Calls : QuietSlot(q) /\ (q = r => call'[q].batch = {})
  <2>1. call \in [Calls -> CallRecord]
    BY DEF IInv, TypeOK
  <2>2. QuietSlot(r) /\ call'[r].batch = {}
    BY <2>1 DEF CommitRevoke, Revoked, QuietSlot, NoCall, RInv, Unheld, CallRecord,
                history
  <2>3. \A q \in Calls \ {r} : call'[q] = call[q]
    BY <2>1 DEF CommitRevoke, Revoked
  <2>4. QED
    BY <2>2, <2>3, SlotKept
<1>2. /\ revoked' = revoked \cup B
      /\ deleted \subseteq deleted'
      /\ call[r].op = "delete" => u \in deleted'
      /\ UNCHANGED <<owner, parent, held, setupMinted, chosen, raced>>
  BY DEF CommitRevoke, history
<1>3. call[r].op = "logout" => call[r].cred \in held \cap Sessions
  BY IdsAssumption DEF CommitRevoke, IInv, Operands, RequestOps, RInv, Unheld
<1>4. \A c \in B : /\ c \in Creds
                   /\ Issued(c)
                   /\ \/ call[r].op = "delete" /\ UserOf(c) \in deleted'
                      \/ call[r].op = "logout" /\ SessionOf(c) \in held
  BY <1>2, <1>3 DEF RInv, Batches, IInv, TypeOK, CallRecord
<1> HIDE DEF B, u
<1>5. NoLiveChildLeftBehind'
  BY <1>2 DEF RInv, NoLiveChildLeftBehind, Caught, B
<1>6. SetupAgentsKept'
  <2> SUFFICES ASSUME NEW b \in setupMinted, RowDead(b)'
               PROVE  UserOf(b) \in deleted' \/ b \in chosen
    BY <1>2 DEF SetupAgentsKept, UserOf, SessionOf
  <2>1. b \in Bridges /\ b \notin Sessions /\ parent[b] \in Sessions \cup {None}
    BY IdsAssumption DEF IInv, TypeOK
  <2>2. Issued(b) /\ parent[b] \notin held /\ parent[b] \in Sessions
    BY <2>1 DEF RInv, Unheld, Issued
  <2>3. CASE b \in B
    BY <1>4, <2>1, <2>2, <2>3 DEF SessionOf
  <2>4. CASE parent[b] \in B
    BY <1>4, <2>1, <2>2, <2>4 DEF SessionOf, UserOf
  <2>5. CASE RowDead(b)
    BY <1>2, <2>5 DEF RInv, SetupAgentsKept
  <2>6. QED
    BY <1>2, <2>1, <2>3, <2>4, <2>5 DEF RowDead, SessionOf
<1>7. (Batches /\ Caught /\ Unheld)'
  <2>1. Batches'
    BY <1>1, <1>2 DEF RInv, Batches, QuietSlot, Issued, UserOf, SessionOf
  <2>2. Caught'
    BY <1>1, <1>2 DEF RInv, Caught, QuietSlot
  <2>3. Unheld'
    BY <1>1, <1>2, IdsAssumption DEF RInv, Unheld, QuietSlot, Issued, IInv, TypeOK
  <2>4. QED
    BY <2>1, <2>2, <2>3
<1>8. RevokedRows'
  <2>1. \A c \in revoked' : Issued(c)'
    BY <1>2, <1>4 DEF RInv, RevokedRows, Issued
  <2>2. \A s \in Sessions : s \in revoked' => s \in held' \/ owner'[s] \in deleted'
    BY <1>2, <1>4 DEF RInv, RevokedRows, SessionOf, UserOf
  <2>3. QED
    BY <2>1, <2>2 DEF RevokedRows
<1>9. QED
  BY <1>5, <1>6, <1>7, <1>8 DEF RInv

\* One case per kind of action.
LEMMA NextRInv == IInv /\ RInv /\ [Next]_vars => RInv'
<1> SUFFICES ASSUME IInv, RInv, [Next]_vars PROVE RInv'
  OBVIOUS
<1>1. ASSUME NEW r \in Calls, HandlerStep(r) PROVE RInv'
  BY <1>1, SessionKeeps, BridgeKeeps, RevokeTokenKeeps, RevokeRowsKeeps,
     CommitRevokeKeeps, QuietSteps DEF HandlerStep
<1>2. ASSUME NEW r \in Calls,
             \/ \E u \in Users : LoginStart(r, u) \/ Suspend(r, u)
             \/ Request(r) \/ SocketGone(r) \/ Fail(r)
      PROVE  RInv'
  BY <1>2, QuietSteps
<1>3. QED
  BY <1>1, <1>2, OutsideSteps DEF Next

\* The strengthening holds of every behaviour.
THEOREM RevocationInvariant == Spec => []RInv
BY InitRInv, NextRInv, InductiveInvariant, PTL DEF Spec

-----------------------------------------------------------------------------
\* A revoked session leaves no live-looking bridge row behind, but for tokens
\* minted while it was being revoked (src/auth.js:162-192).
THEOREM NoOrphanTokens == Spec => []NoLiveChildLeftBehind
<1>1. RInv => NoLiveChildLeftBehind
  BY DEF RInv
<1>2. QED
  BY <1>1, RevocationInvariant, PTL

\* Logging out anywhere never kills an agent that one-click setup connected
\* (src/server.js:556-558).
THEOREM SetupAgentsOutliveLogouts == Spec => []SetupAgentsKept
<1>1. RInv => SetupAgentsKept
  BY DEF RInv
<1>2. QED
  BY <1>1, RevocationInvariant, PTL

\* Nobody revokes another user's credentials, and a logout reaches nothing
\* outside its own session (src/auth.js:151-160, 168-192).
THEOREM RevocationStaysInScope == Spec => RevocationScope
<1> DEFINE Allowed(c) ==
      \E r \in Calls :
         /\ call[r].op \in {"revoke", "logout", "delete"}
         /\ call[r].pc \in {"run", "commit"}
         /\ UserOf(c) = UserOf(call[r].cred)
         /\ call[r].op = "logout" => SessionOf(c) = call[r].cred
<1>1. ASSUME IInv, RInv, [Next]_vars, NEW c \in revoked' \ revoked
      PROVE  Allowed(c)
  <2>1. PICK r \in Calls : RevokeToken(r) \/ CommitRevoke(r)
    <3>1. revoked' # revoked
      BY <1>1
    <3>2. QED
      BY <1>1, <3>1
      DEF Next, HandlerStep, LoginStart, Suspend, Request, Start, LoginSession,
          SetupSession, CreateSession, Mint, SetupBridge, CreateBridgeToken, Lookup,
          LookupUser, RevokeRows, RegisterSocket, CloseSockets, SocketGone, Fail,
          Unsuspend, Expire, Crash, vars, tables, history
  <2>2. CASE RevokeToken(r)
    BY <1>1, <2>2 DEF RevokeToken, At
  <2>3. CASE CommitRevoke(r)
    BY <1>1, <2>3 DEF CommitRevoke, RInv, Batches
  <2>4. QED BY <2>1, <2>2, <2>3
<1>2. IInv /\ RInv /\ [Next]_vars => [\A c \in revoked' \ revoked : Allowed(c)]_vars
  BY <1>1
<1>3. QED
  BY <1>2, InductiveInvariant, RevocationInvariant, PTL DEF Spec, RevocationScope

-----------------------------------------------------------------------------
(***************************************************************************)
(* The store implements CredentialAuthority: its initial states map to the *)
(* authority's, and every step maps to one of the authority's or leaves    *)
(* the mapped variables alone.  Most steps only kill and block, or let     *)
(* calls end (KillStep); four kinds do more: rows are inserted, a          *)
(* credential is presented, a call is let in, a suspension is lifted.  It  *)
(* is IInv that shows a call let in to be live and its user not blocked.   *)
(***************************************************************************)
\* A row that exists, and its user.
LEMMA RowsHaveUsers ==
    ASSUME IInv, NEW c \in Creds, Issued(c)
    PROVE  /\ SessionOf(c) \in Sessions
           /\ UserOf(c) \in Users
           /\ StatusOf(c) = IF Dead(c) THEN "dead" ELSE "live"
           /\ HolderOf(c) = UserOf(c)
BY IdsAssumption DEF IInv, TypeOK, ForeignKeys, Issued, SessionOf, UserOf, StatusOf,
                     HolderOf, Creds

\* A call's credential is a row, and a call in the authority's books has one.
LEMMA AskedIsRow ==
    ASSUME IInv, NEW r \in Calls
    PROVE  /\ call[r] \in CallRecord
           /\ call[r].cred # None => call[r].cred \in Creds /\ Issued(call[r].cred)
           /\ call[r].pc = "idle" => call[r].cred = None
BY DEF IInv, TypeOK, Operands, CallRecord

\* An empty slot is no call to the authority.
LEMMA NoCredNoAsk ==
    ASSUME NEW r \in Calls, call[r].cred = None
    PROVE  AskOf(r) = Authority!NoAsk
BY DEF AskOf, Authority!NoAsk

\* What a slot may become in a step that, for the authority, ends some calls.
AskKept(r) ==
    \/ call'[r] = NoCall
    \/ call'[r].cred = None /\ call[r].cred = None
    \/ /\ call'[r].cred = call[r].cred
       /\ call'[r].bornDead = call[r].bornDead
       /\ call'[r].blocked = call[r].blocked
       /\ call'[r].pc \in Granted <=> call[r].pc \in Granted

\* Emptying a slot ends its call for the authority too.
LEMMA EmptyingKeeps ==
    ASSUME IInv, NEW r \in Calls, Finish(r)
    PROVE  \A q \in Calls : AskKept(q)
BY DEF IInv, TypeOK, Finish, AskKept

\* A call that goes on, in or not in as it was, is the same call to the authority.
LEMMA GoingKeeps ==
    ASSUME IInv, NEW r \in Calls, NEW l \in PCs, Goto(r, l),
           l \in Granted <=> call[r].pc \in Granted
    PROVE  \A q \in Calls : AskKept(q)
<1>1. call \in [Calls -> CallRecord]
  BY DEF IInv, TypeOK
<1>2. /\ call'[r].pc = l /\ call'[r].cred = call[r].cred
      /\ call'[r].bornDead = call[r].bornDead /\ call'[r].blocked = call[r].blocked
      /\ \A q \in Calls \ {r} : call'[q] = call[q]
  BY <1>1 DEF Goto, CallRecord
<1>3. QED
  BY <1>2 DEF AskKept

\* A step that keeps or ends every call is a Drop to the authority.
LEMMA SomeDrop ==
    ASSUME \A r \in Calls : AskKept(r)
    PROVE  \E R \in SUBSET Calls : Authority!Drop(R)
<1> DEFINE R == {r \in Calls : call'[r] = NoCall}
<1>1. ASSUME NEW r \in Calls
      PROVE  AskOf(r)' = IF r \in R THEN Authority!NoAsk ELSE AskOf(r)
  <2>1. CASE call'[r] = NoCall
    <3>1. call'[r].cred = None /\ r \in R
      BY <2>1 DEF NoCall
    <3>2. QED
      BY <3>1 DEF AskOf, Authority!NoAsk
  <2>2. CASE call'[r] # NoCall /\ call'[r].cred = None /\ call[r].cred = None
    BY <2>2 DEF AskOf
  <2>3. CASE /\ call'[r] # NoCall
             /\ call'[r].cred = call[r].cred
             /\ call'[r].bornDead = call[r].bornDead
             /\ call'[r].blocked = call[r].blocked
             /\ call'[r].pc \in Granted <=> call[r].pc \in Granted
    BY <2>3 DEF AskOf
  <2>4. QED
    BY <2>1, <2>2, <2>3 DEF AskKept
<1>2. Authority!Drop(R)
  BY <1>1 DEF Authority!Drop
<1>3. QED
  BY <1>2

\* A step that adds revoked or expired rows and blocked users, and ends calls.
LEMMA KillStep ==
    ASSUME IInv, UNCHANGED <<owner, parent>>,
           revoked \subseteq revoked', expired \subseteq expired',
           NEW U \in SUBSET Users, suspended' = suspended \cup U,
           \A r \in Calls : AskKept(r)
    PROVE  Authority!Next
<1> DEFINE C == {c \in Creds : Issued(c) /\ Dead(c)'}
<1>1. ASSUME NEW c \in Creds
      PROVE  /\ HolderOf(c)' = HolderOf(c)
             /\ StatusOf(c)' = IF c \in C THEN "dead" ELSE StatusOf(c)
             /\ c \in C => StatusOf(c) # "none"
  <2>1. Issued(c)' = Issued(c) /\ SessionOf(c)' = SessionOf(c) /\ UserOf(c)' = UserOf(c)
    BY DEF Issued, SessionOf, UserOf
  <2>2. Dead(c) => Dead(c)'
    BY <2>1 DEF Dead, RowDead
  <2>3. QED
    BY <2>1, <2>2 DEF HolderOf, StatusOf
<1>2. Authority!Kill(C, U)
  BY <1>1 DEF Authority!Kill
<1>3. C \in SUBSET Creds
  OBVIOUS
<1> HIDE DEF C
<1>4. QED
  BY <1>2, <1>3, SomeDrop DEF Authority!Next

\* The same without a user blocked.
LEMMA QuietStepMaps ==
    ASSUME IInv, UNCHANGED <<owner, parent, suspended>>,
           revoked \subseteq revoked', expired \subseteq expired',
           \A r \in Calls : AskKept(r)
    PROVE  Authority!Next
<1>1. {} \in SUBSET Users /\ suspended' = suspended \cup {}
  OBVIOUS
<1>2. QED
  BY <1>1, KillStep

\* A step that issues the credential c to the user u.
LEMMA IssueStep ==
    ASSUME IInv, NEW c \in Creds, NEW u \in Users,
           ~Issued(c), Issued(c)', UserOf(c)' = u, suspended' = suspended,
           \A d \in Creds \ {c} : /\ StatusOf(d)' = StatusOf(d)
                                  /\ HolderOf(d)' = HolderOf(d),
           \A r \in Calls : AskKept(r)
    PROVE  Authority!Next
<1> DEFINE st == StatusOf(c)'
<1>1. StatusOf(c) = "none" /\ st \in {"live", "dead"} /\ HolderOf(c)' = u
  BY DEF StatusOf, HolderOf
<1>2. [d \in Creds |-> StatusOf(d)]' = [[d \in Creds |-> StatusOf(d)] EXCEPT ![c] = st]
  OBVIOUS
<1>3. [d \in Creds |-> HolderOf(d)]' = [[d \in Creds |-> HolderOf(d)] EXCEPT ![c] = u]
  BY <1>1
<1>4. Authority!Issue(c, u, st)
  BY <1>1, <1>2, <1>3 DEF Authority!Issue
<1> HIDE DEF st
<1>5. QED
  BY <1>1, <1>4, SomeDrop DEF Authority!Next

-----------------------------------------------------------------------------
(* One lemma per kind of action.                                             *)
\* A session is issued.
LEMMA SessionIssued ==
    ASSUME IInv, NEW s \in Sessions, NEW u \in Users, CreateSession(s, u),
           \A r \in Calls : AskKept(r)
    PROVE  Authority!Next
<1>1. s \in Creds /\ ~Issued(s) /\ Issued(s)' /\ UserOf(s)' = u /\ suspended' = suspended
  BY IdsAssumption DEF CreateSession, Issued, UserOf, SessionOf, Creds, IInv, TypeOK
<1>2. ASSUME NEW d \in Creds \ {s}
      PROVE  StatusOf(d)' = StatusOf(d) /\ HolderOf(d)' = HolderOf(d)
  <2>1. CASE Issued(d)
    BY <2>1, NewSession DEF CreateSession, StatusOf, HolderOf, Dead
  <2>2. CASE ~Issued(d)
    <3>1. ~Issued(d)'
      BY <2>2 DEF CreateSession, Issued, Creds, IInv, TypeOK
    <3>2. QED
      BY <2>2, <3>1 DEF StatusOf, HolderOf
  <2>3. QED BY <2>1, <2>2
<1>3. QED
  BY <1>1, <1>2, IssueStep

\* A bridge token is issued.
LEMMA BridgeIssued ==
    ASSUME IInv, NEW b \in Bridges, NEW s \in Sessions, owner[s] # None,
           CreateBridgeToken(b, s), \A r \in Calls : AskKept(r)
    PROVE  Authority!Next
<1>1. b \in Creds /\ ~Issued(b) /\ Issued(b)' /\ suspended' = suspended
  BY IdsAssumption DEF CreateBridgeToken, Issued, Creds, IInv, TypeOK
<1>2. UserOf(b)' = owner[s] /\ owner[s] \in Users
  BY IdsAssumption DEF CreateBridgeToken, UserOf, SessionOf, IInv, TypeOK
<1>3. ASSUME NEW d \in Creds \ {b}
      PROVE  StatusOf(d)' = StatusOf(d) /\ HolderOf(d)' = HolderOf(d)
  <2>1. CASE Issued(d)
    BY <2>1, NewBridge DEF CreateBridgeToken, StatusOf, HolderOf, Dead
  <2>2. CASE ~Issued(d)
    <3>1. ~Issued(d)'
      BY <2>2 DEF CreateBridgeToken, Issued, Creds, IInv, TypeOK
    <3>2. QED
      BY <2>2, <3>1 DEF StatusOf, HolderOf
  <2>3. QED BY <2>1, <2>2
<1>4. QED
  BY <1>1, <1>2, <1>3, IssueStep

\* A credential is presented.
LEMMA RequestAsks ==
    ASSUME IInv, NEW r \in Calls, Request(r)
    PROVE  Authority!Next
<1>1. PICK o \in RequestOps, c \in Known, t \in Bridges \cup {None} : Start(r, o, c, t)
  BY DEF Request, RequestOps
<1>2. c \in Creds /\ Issued(c) /\ c # None
  BY IdsAssumption DEF Known, IInv, TypeOK, ForeignKeys, Issued, Creds
<1>3. call[r].pc = "idle" /\ UNCHANGED tables
  BY <1>1 DEF Start
<1>4. StatusOf(c) = (IF Dead(c) THEN "dead" ELSE "live") /\ HolderOf(c) = UserOf(c)
  BY <1>2, RowsHaveUsers
<1>5. /\ call'[r].pc = "lookup" /\ call'[r].cred = c
      /\ call'[r].bornDead = Dead(c)
      /\ call'[r].blocked = (UserOf(c) \in suspended)
      /\ \A q \in Calls \ {r} : call'[q] = call[q]
  BY <1>1 DEF Start, NoCall, IInv, TypeOK, Dead, RowDead
<1>6. AskOf(r)' = [state |-> "asking", cred |-> c,
                   fresh |-> StatusOf(c) = "live", active |-> HolderOf(c) \notin suspended]
  <2>1. /\ (call'[r].cred # None /\ ~call'[r].bornDead) = (StatusOf(c) = "live")
        /\ (call'[r].cred # None /\ ~call'[r].blocked) = (HolderOf(c) \notin suspended)
    BY <1>2, <1>4, <1>5
  <2>2. call'[r].cred # None /\ call'[r].pc \notin Granted /\ call'[r].cred = c
    BY <1>2, <1>5 DEF Granted
  <2>3. QED
    BY <2>1, <2>2 DEF AskOf
<1>7. ASSUME NEW q \in Calls, q # r PROVE AskOf(q)' = AskOf(q)
  BY <1>5, <1>7 DEF AskOf
<1>8. \A d \in Creds : StatusOf(d)' = StatusOf(d) /\ HolderOf(d)' = HolderOf(d)
  BY <1>3 DEF tables, StatusOf, HolderOf, Issued, Dead, RowDead, SessionOf, UserOf
<1>10. AskOf(r).state = "idle"
  BY <1>3, AskedIsRow DEF AskOf
<1>11. Authority!Ask(r, c)
  <2>1. [q \in Calls |-> AskOf(q)]' =
           [[q \in Calls |-> AskOf(q)] EXCEPT ![r] =
              [state |-> "asking", cred |-> c, fresh |-> StatusOf(c) = "live",
               active |-> HolderOf(c) \notin suspended]]
    BY <1>6, <1>7
  <2>2. StatusOf(c) # "none"
    BY <1>4
  <2>3. /\ [d \in Creds |-> StatusOf(d)]' = [d \in Creds |-> StatusOf(d)]
        /\ [d \in Creds |-> HolderOf(d)]' = [d \in Creds |-> HolderOf(d)]
        /\ suspended' = suspended
    BY <1>3, <1>8 DEF tables
  <2>4. QED
    BY <1>2, <1>10, <2>1, <2>2, <2>3 DEF Authority!Ask
<1>12. QED
  BY <1>2, <1>11 DEF Authority!Next

\* A call is let in: it was live on arrival and its user is not suspended.
LEMMA LookupUserGrants ==
    ASSUME IInv, NEW r \in Calls, LookupUser(r)
    PROVE  Authority!Next
<1>1. call[r].pc = "user" /\ UNCHANGED tables /\ call \in [Calls -> CallRecord]
  BY DEF LookupUser, IInv, TypeOK
<1>2. CASE Finish(r)
  <2>1. \A q \in Calls : AskKept(q)
    BY <1>2, EmptyingKeeps
  <2>2. QED
    BY <1>1, <2>1, QuietStepMaps DEF tables
<1>3. CASE UserOf(call[r].cred) \notin suspended /\ Goto(r, "run")
  <2>1. call[r].cred # None /\ ~call[r].bornDead /\ ~call[r].blocked
    BY <1>1, <1>3 DEF IInv, Doomed, Operands, CallRecord
  <2>2. /\ call'[r].pc = "run" /\ call'[r].cred = call[r].cred
        /\ call'[r].bornDead = call[r].bornDead /\ call'[r].blocked = call[r].blocked
        /\ \A q \in Calls \ {r} : call'[q] = call[q]
    BY <1>1, <1>3 DEF Goto, CallRecord
  <2>3. AskOf(r).state = "asking" /\ AskOf(r).fresh /\ AskOf(r).active
    BY <1>1, <2>1 DEF AskOf, Granted
  <2>4. AskOf(r)' = [AskOf(r) EXCEPT !.state = "granted"]
    BY <2>1, <2>2 DEF AskOf, Granted
  <2>5. ASSUME NEW q \in Calls, q # r PROVE AskOf(q)' = AskOf(q)
    BY <2>2, <2>5 DEF AskOf
  <2>6. [q \in Calls |-> AskOf(q)]' = [[q \in Calls |-> AskOf(q)] EXCEPT ![r].state = "granted"]
    BY <2>4, <2>5
  <2>7. \A d \in Creds : StatusOf(d)' = StatusOf(d) /\ HolderOf(d)' = HolderOf(d)
    BY <1>1 DEF tables, StatusOf, HolderOf, Issued, Dead, RowDead, SessionOf, UserOf
  <2>8. Authority!Grant(r)
    BY <1>1, <2>3, <2>6, <2>7 DEF Authority!Grant, tables
  <2>9. QED
    BY <2>8 DEF Authority!Next
<1>4. QED
  BY <1>2, <1>3 DEF LookupUser

\* A suspension is lifted.
LEMMA UnsuspendUnblocks ==
    ASSUME IInv, NEW u \in Users, Unsuspend(u)
    PROVE  Authority!Next
<1>1. \A d \in Creds : StatusOf(d)' = StatusOf(d) /\ HolderOf(d)' = HolderOf(d)
  BY DEF Unsuspend, StatusOf, HolderOf, Issued, Dead, RowDead, SessionOf, UserOf
<1>2. ASSUME NEW r \in Calls
      PROVE  AskOf(r)' = IF AskOf(r).state # "idle" /\ [c \in Creds |-> HolderOf(c)][AskOf(r).cred] = u
                         THEN [AskOf(r) EXCEPT !.active = TRUE] ELSE AskOf(r)
  <2>0. call[r] \in CallRecord
    BY AskedIsRow
  <2>1. CASE call[r].cred = None
    <3>1. call'[r].cred = None /\ AskOf(r).state = "idle"
      BY <2>0, <2>1 DEF Unsuspend, CallRecord, AskOf
    <3>2. QED
      BY <2>1, <3>1 DEF AskOf
  <2>2. CASE call[r].cred # None
    <3>1. call[r].cred \in Creds /\ HolderOf(call[r].cred) = UserOf(call[r].cred)
      BY <2>2, AskedIsRow, RowsHaveUsers
    <3>2. AskOf(r).state # "idle" /\ AskOf(r).cred = call[r].cred
      BY <2>2 DEF AskOf
    <3>3. CASE UserOf(call[r].cred) = u
      <4>1. call'[r] = [call[r] EXCEPT !.blocked = FALSE]
        BY <2>2, <3>3 DEF Unsuspend
      <4>2. /\ call'[r].pc = call[r].pc /\ call'[r].cred = call[r].cred
            /\ call'[r].bornDead = call[r].bornDead /\ call'[r].blocked = FALSE
        BY <2>0, <4>1 DEF CallRecord
      <4>3. AskOf(r)' = [AskOf(r) EXCEPT !.active = TRUE]
        <5>1. AskOf(r)'.active = TRUE
          BY <2>2, <4>2 DEF AskOf
        <5>2. /\ AskOf(r)'.state = AskOf(r).state /\ AskOf(r)'.cred = AskOf(r).cred
              /\ AskOf(r)'.fresh = AskOf(r).fresh
          BY <2>2, <4>2 DEF AskOf
        <5>3. QED
          BY <5>1, <5>2 DEF AskOf
      <4>4. QED
        BY <3>1, <3>2, <3>3, <4>3
    <3>4. CASE UserOf(call[r].cred) # u
      <4>1. call'[r] = call[r]
        BY <3>4 DEF Unsuspend
      <4>2. AskOf(r)' = AskOf(r)
        BY <4>1 DEF AskOf
      <4>3. QED
        BY <3>1, <3>2, <3>4, <4>2
    <3>5. QED BY <3>3, <3>4
  <2>3. QED BY <2>1, <2>2
<1>3. suspended' = suspended \ {u}
  BY DEF Unsuspend
<1>4. Authority!Unblock(u)
  BY <1>1, <1>2, <1>3 DEF Authority!Unblock
<1>5. QED
  BY <1>4 DEF Authority!Next

\* A token is revoked by itself, or a transaction commits: rows die, and with
\* an account its user is blocked.
LEMMA RevocationKills ==
    ASSUME IInv, NEW r \in Calls, RevokeToken(r) \/ CommitRevoke(r)
    PROVE  Authority!Next
<1>1. call \in [Calls -> CallRecord]
  BY DEF IInv, TypeOK
<1>2. CASE RevokeToken(r)
  <2>1. \A q \in Calls : AskKept(q)
    BY <1>2, EmptyingKeeps, GoingKeeps DEF RevokeToken, At, Granted, PCs
  <2>2. /\ UNCHANGED <<owner, parent, expired, suspended>> /\ revoked \subseteq revoked'
    BY <1>2 DEF RevokeToken
  <2>3. QED
    BY <2>1, <2>2, QuietStepMaps
<1>3. CASE CommitRevoke(r)
  <2>1. ASSUME NEW q \in Calls PROVE AskKept(q)
    <3>1. CASE call'[q] = NoCall \/ q # r
      BY <1>1, <1>3, <3>1 DEF CommitRevoke, Revoked, AskKept
    <3>2. CASE call'[q] # NoCall /\ q = r
      <4>1. /\ call[q].pc = "commit" /\ call'[q].pc = "close"
            /\ call'[q].cred = call[q].cred
            /\ call'[q].bornDead = call[q].bornDead
            /\ call'[q].blocked = call[q].blocked
        BY <1>1, <1>3, <3>2 DEF CommitRevoke, Revoked, CallRecord
      <4>2. QED
        BY <4>1 DEF AskKept, Granted
    <3>3. QED
      BY <3>1, <3>2
  <2>2. call[r].op = "delete" => UserOf(call[r].cred) \in Users
    BY AskedIsRow, RowsHaveUsers DEF IInv, Operands, RequestOps
  <2>3. PICK U \in SUBSET Users : suspended' = suspended \cup U
    BY <1>3, <2>2 DEF CommitRevoke
  <2>4. UNCHANGED <<owner, parent, expired>> /\ revoked \subseteq revoked'
    BY <1>3 DEF CommitRevoke
  <2>5. QED
    BY <2>1, <2>3, <2>4, KillStep
<1>4. QED BY <1>2, <1>3

\* The other steps of a handler end calls, or go on with them.
LEMMA OtherHandlerSteps ==
    ASSUME IInv, NEW r \in Calls,
           \/ Lookup(r) \/ RevokeRows(r) \/ RegisterSocket(r) \/ CloseSockets(r)
           \/ SocketGone(r) \/ Fail(r)
           \/ \E u \in Users : LoginStart(r, u) \/ Suspend(r, u)
    PROVE  Authority!Next
<1>1. call \in [Calls -> CallRecord] /\ (call[r].pc = "idle" => call[r].cred = None)
  BY AskedIsRow DEF IInv, TypeOK
<1>2. CASE Lookup(r) \/ SocketGone(r) \/ Fail(r)
  <2>1. \A q \in Calls : AskKept(q)
    BY <1>2, EmptyingKeeps, GoingKeeps DEF Lookup, SocketGone, Fail, Granted, PCs
  <2>2. QED
    BY <1>2, <2>1, QuietStepMaps DEF Lookup, SocketGone, Fail, tables
<1>3. CASE RevokeRows(r)
  <2>1. /\ call[r].pc = "run" /\ call'[r].pc = "commit" /\ call'[r].cred = call[r].cred
        /\ call'[r].bornDead = call[r].bornDead /\ call'[r].blocked = call[r].blocked
        /\ \A q \in Calls \ {r} : call'[q] = call[q]
    BY <1>1, <1>3 DEF RevokeRows, At, CallRecord
  <2>2. \A q \in Calls : AskKept(q)
    BY <2>1 DEF AskKept, Granted
  <2>3. QED
    BY <1>3, <2>2, QuietStepMaps DEF RevokeRows, tables
<1>4. CASE RegisterSocket(r)
  <2>1. \A q \in Calls : AskKept(q)
    BY <1>4, GoingKeeps DEF RegisterSocket, At, Granted, PCs
  <2>2. QED
    BY <1>4, <2>1, QuietStepMaps DEF RegisterSocket, tables
<1>5. CASE CloseSockets(r)
  <2>1. ASSUME NEW q \in Calls PROVE AskKept(q)
    <3>1. CASE q = r
      BY <1>5, <3>1 DEF CloseSockets, AskKept
    <3>2. CASE q # r /\ InClosePass(r, q)
      <4>1. call[q].pc = "open" /\ call'[q] = [call[q] EXCEPT !.pc = "closing"]
        BY <1>5, <3>2 DEF CloseSockets, InClosePass
      <4>2. QED
        BY <1>1, <4>1 DEF AskKept, Granted, CallRecord
    <3>3. CASE q # r /\ ~InClosePass(r, q)
      BY <1>5, <3>3 DEF CloseSockets, AskKept
    <3>4. QED BY <3>1, <3>2, <3>3
  <2>2. QED
    BY <1>5, <2>1, QuietStepMaps DEF CloseSockets, tables
<1>6. ASSUME NEW u \in Users, LoginStart(r, u) PROVE Authority!Next
  <2>1. \A q \in Calls : AskKept(q)
    BY <1>1, <1>6 DEF LoginStart, NoCall, AskKept
  <2>2. QED
    BY <1>6, <2>1, QuietStepMaps DEF LoginStart, tables
<1>7. ASSUME NEW u \in Users, Suspend(r, u) PROVE Authority!Next
  <2>1. \A q \in Calls : AskKept(q)
    BY <1>1, <1>7 DEF Suspend, NoCall, AskKept
  <2>2. {u} \in SUBSET Users
    OBVIOUS
  <2>3. QED
    BY <1>7, <2>1, <2>2, KillStep DEF Suspend
<1>8. QED
  BY <1>2, <1>3, <1>4, <1>5, <1>6, <1>7

\* Minting and logging in.
LEMMA IssuingSteps ==
    ASSUME IInv, NEW r \in Calls,
           \/ \E s \in Sessions : LoginSession(r, s) \/ SetupSession(r, s)
           \/ \E b \in Bridges : Mint(r, b) \/ SetupBridge(r, b)
    PROVE  Authority!Next
<1>1. call \in [Calls -> CallRecord]
  BY DEF IInv, TypeOK
<1>2. ASSUME NEW s \in Sessions, LoginSession(r, s) PROVE Authority!Next
  <2>1. call[r].target \in Users /\ CreateSession(s, call[r].target)
    BY <1>2 DEF LoginSession, At, IInv, Operands
  <2>2. \A q \in Calls : AskKept(q)
    BY <1>2, EmptyingKeeps DEF LoginSession
  <2>3. QED
    BY <2>1, <2>2, SessionIssued
<1>3. ASSUME NEW s \in Sessions, SetupSession(r, s) PROVE Authority!Next
  <2>1. call[r].cred \in Creds /\ Issued(call[r].cred)
    BY <1>3, AskedIsRow DEF SetupSession, At, IInv, Operands, RequestOps
  <2>2. UserOf(call[r].cred) \in Users
    BY <2>1, RowsHaveUsers
  <2>3. CreateSession(s, UserOf(call[r].cred))
    BY <1>3 DEF SetupSession
  <2>4. \A q \in Calls : AskKept(q)
    <3>1. /\ call[r].pc = "run" /\ call'[r].pc = "minting" /\ call'[r].cred = call[r].cred
          /\ call'[r].bornDead = call[r].bornDead /\ call'[r].blocked = call[r].blocked
          /\ \A q \in Calls \ {r} : call'[q] = call[q]
      BY <1>1, <1>3 DEF SetupSession, At, CallRecord
    <3>2. QED
      BY <3>1 DEF AskKept, Granted
  <2>5. QED
    BY <2>2, <2>3, <2>4, SessionIssued
<1>4. ASSUME NEW b \in Bridges, Mint(r, b) PROVE Authority!Next
  <2>1. call[r].cred \in Sessions /\ owner[call[r].cred] # None
    BY <1>4, IdsAssumption DEF Mint, At, IInv, Operands, RequestOps, Issued
  <2>2. \A q \in Calls : AskKept(q)
    BY <1>4, EmptyingKeeps DEF Mint
  <2>3. QED
    BY <1>4, <2>1, <2>2, BridgeIssued DEF Mint
<1>5. ASSUME NEW b \in Bridges, SetupBridge(r, b) PROVE Authority!Next
  <2>1. call[r].minted \in Sessions /\ owner[call[r].minted] # None
    BY <1>1, <1>5 DEF SetupBridge, At, IInv, ForeignKeys, CallRecord
  <2>2. \A q \in Calls : AskKept(q)
    <3>1. CASE Finish(r)
      BY <3>1, EmptyingKeeps
    <3>2. CASE call' = [call EXCEPT ![r].pc = "run", ![r].minted = None]
      <4>1. /\ call[r].pc = "minting" /\ call'[r].pc = "run" /\ call'[r].cred = call[r].cred
            /\ call'[r].bornDead = call[r].bornDead /\ call'[r].blocked = call[r].blocked
            /\ \A q \in Calls \ {r} : call'[q] = call[q]
        BY <1>1, <1>5, <3>2 DEF SetupBridge, At, CallRecord
      <4>2. QED
        BY <4>1 DEF AskKept, Granted
    <3>3. QED
      BY <1>5, <3>1, <3>2 DEF SetupBridge
  <2>3. QED
    BY <1>5, <2>1, <2>2, BridgeIssued DEF SetupBridge
<1>6. QED
  BY <1>2, <1>3, <1>4, <1>5

-----------------------------------------------------------------------------
\* The empty store.
LEMMA InitMaps == Init => Authority!Init
<1> SUFFICES ASSUME Init PROVE Authority!Init
  OBVIOUS
<1>1. \A c \in Creds : StatusOf(c) = "none" /\ HolderOf(c) = None
  BY DEF Init, Creds, StatusOf, HolderOf, Issued
<1>2. ASSUME NEW r \in Calls PROVE AskOf(r) = Authority!NoAsk
  BY NoCredNoAsk DEF Init, NoCall
<1>3. QED
  BY <1>1, <1>2 DEF Authority!Init, Init

\* Every step is one of the authority's.
LEMMA StepMaps == IInv /\ [Next]_vars => [Authority!Next]_(Authority!vars)
<1> SUFFICES ASSUME IInv, [Next]_vars PROVE Authority!Next
  OBVIOUS
<1>1. ASSUME NEW r \in Calls, NEW u \in Users, LoginStart(r, u) \/ Suspend(r, u)
      PROVE  Authority!Next
  BY <1>1, OtherHandlerSteps
<1>2. ASSUME NEW r \in Calls, Request(r) PROVE Authority!Next
  BY <1>2, RequestAsks
<1>3. ASSUME NEW r \in Calls, HandlerStep(r) PROVE Authority!Next
  BY <1>3, LookupUserGrants, RevocationKills, OtherHandlerSteps, IssuingSteps DEF HandlerStep
<1>4. ASSUME NEW r \in Calls, SocketGone(r) \/ Fail(r) PROVE Authority!Next
  BY <1>4, OtherHandlerSteps
<1>5. ASSUME NEW u \in Users, Unsuspend(u) PROVE Authority!Next
  BY <1>5, UnsuspendUnblocks
<1>6. ASSUME \/ \E s \in Sessions : Expire(s)
             \/ Crash
             \/ UNCHANGED vars
      PROVE  Authority!Next
  <2>1. \A r \in Calls : AskKept(r)
    BY <1>6 DEF Expire, Crash, vars, tables, history, AskKept
  <2>2. UNCHANGED <<owner, parent, revoked, suspended>> /\ expired \subseteq expired'
    BY <1>6 DEF Expire, Crash, vars, tables, history
  <2>3. QED
    BY <2>1, <2>2, QuietStepMaps
<1>7. QED
  BY <1>1, <1>2, <1>3, <1>4, <1>5, <1>6 DEF Next

\* The handlers, tables and transactions keep the authority's promise.
THEOREM CredentialsImplementAuthority == Spec => ImplementsAuthority
<1>1. Spec => []IInv
  BY InductiveInvariant
<1>2. QED
  BY <1>1, InitMaps, StepMaps, PTL DEF Spec, ImplementsAuthority, Authority!Spec
=============================================================================
