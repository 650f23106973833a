------------------------- MODULE OAuthGrantsProofs -------------------------
(***************************************************************************)
(* The properties of refreshes for any number of grants, tokens and        *)
(* requests in flight.                                                     *)
(*                                                                         *)
(* SealedStaysDead needs to know of every refresh in flight how far it can *)
(* be once its grant is sealed: never past the place where it finds the    *)
(* token revoked.  DialsRideAlong needs to know that the token a refresh   *)
(* has minted is its own until it is linked: no other request copies       *)
(* permissions to it or from it (Apart).                                   *)
(***************************************************************************)
EXTENDS OAuthGrants, TLAPS

\* A grant names a token that was minted; a sealed one, one that is revoked.
TablesOK ==
    /\ \A g \in Grants : linked[g] # None => grant[g] # "none" /\ token[linked[g]] # "none"
    /\ \A b \in Bridges : token[b] = "none" => mode[b] = Default
    /\ \A g \in sealed : linked[g] # None /\ token[linked[g]] = "revoked"

Minted == {"copy", "link", "answer"}
BeforeRevoked == {"refresh", "refreshUser", "bridge", "kill"}
Refreshes == BeforeRevoked \cup Minted \cup {"rotate", "session", "mint"}
Redeems == {"code", "mark", "codeUser", "session", "mint", "link"}

(* What call c has and relies on; tk, gr, lk, md, sl are the tables token,   *)
(* grant, linked and mode, and sealed.                                       *)
CallOK(c, tk, gr, lk, md, sl) ==
    /\ c.old # None => tk[c.old] # "none"
    /\ c.new # None => tk[c.new] # "none"
    /\ c.pc \notin Minted => c.new = None
    /\ c.pc = "put" => c.old # None
    /\ c.grant = None =>
         /\ c.pc \in {"idle", "put", "answer"} \cup Redeems
         /\ c.pc \in Redeems => c.code # None
         /\ c.pc = "link" => c.new # None
    /\ c.grant # None =>
         /\ c.pc \in Refreshes /\ gr[c.grant] # "none"
         /\ c.pc # "refresh" => c.old # None
         /\ c.pc \in Minted => c.new # None
         /\ c.grant \in sl => /\ c.pc \in BeforeRevoked
                              /\ c.pc # "refresh" => tk[c.old] = "revoked"
         /\ c.pc = "copy" => /\ \A g \in Grants : lk[g] # c.new
                             /\ c.old # c.new
                             /\ ~c.touched => md[c.new] = Default
         /\ c.pc \in {"link", "answer"} /\ ~c.touched => md[c.new] = md[c.old]

\* Nobody else has the token that c has minted, or copies from it before c has.
Apart(c, d) ==
    c.new # None => /\ c.new # d.new
                    /\ c.pc = "copy" /\ d.grant # None => c.new # d.old

CallsOK ==
    /\ \A r \in Calls : CallOK(call[r], token, grant, linked, mode, sealed)
    /\ \A r, q \in Calls : r # q => Apart(call[r], call[q])

GInv == TypeOK /\ TablesOK /\ CallsOK

-----------------------------------------------------------------------------
(* What a step leaves of the calls that it does not move.                    *)

\* No token or grant is unmade, no revocation taken back.
Onward ==
    /\ \A b \in Bridges : token[b] # "none" => token'[b] # "none"
    /\ \A b \in Bridges : token[b] = "revoked" => token'[b] = "revoked"
    /\ \A g \in Grants : grant[g] # "none" => grant'[g] # "none"

\* The step does not touch what call d relies on.
Kept(d) ==
    /\ d.grant \in sealed' => d.grant \in sealed
    /\ d.pc = "copy" => \A g \in Grants : linked[g] # d.new => linked'[g] # d.new
    /\ d.grant # None /\ d.pc \in Minted =>
         /\ ~d.touched => mode'[d.new] = mode[d.new]
         /\ ~d.touched => mode'[d.old] = mode[d.old]

\* A call that is not touched relies on as much as before.
LEMMA KeptOK ==
    ASSUME NEW d \in CallRecord, CallOK(d, token, grant, linked, mode, sealed), Onward, Kept(d)
    PROVE  CallOK(d, token', grant', linked', mode', sealed')
<1>1. /\ d.grant # None => d.grant \in Grants
      /\ d.old # None => d.old \in Bridges
      /\ d.new # None => d.new \in Bridges
  BY DEF CallRecord
<1>2. /\ d.old # None => token'[d.old] # "none"
      /\ d.old # None /\ token[d.old] = "revoked" => token'[d.old] = "revoked"
      /\ d.new # None => token'[d.new] # "none"
      /\ d.grant # None => grant'[d.grant] # "none"
  BY <1>1 DEF CallOK, Onward
<1>3. d.grant # None /\ d.grant \in sealed' =>
        /\ d.pc \in BeforeRevoked
        /\ d.pc # "refresh" => d.old # None /\ token'[d.old] = "revoked"
  BY <1>2 DEF CallOK, Kept
<1>4. d.grant # None /\ d.pc = "copy" => /\ \A g \in Grants : linked'[g] # d.new
                                         /\ d.old # d.new
                                         /\ ~d.touched => mode'[d.new] = Default
  BY DEF CallOK, Kept, Minted
<1>5. d.grant # None /\ d.pc \in {"link", "answer"} /\ ~d.touched => mode'[d.new] = mode'[d.old]
  BY DEF CallOK, Kept, Minted
<1>6. QED
  BY <1>2, <1>3, <1>4, <1>5, Zenon DEF CallOK

\* The calls and what each of them relies on.
LEMMA InFlight ==
    ASSUME GInv, NEW r \in Calls
    PROVE  /\ call[r] \in CallRecord /\ call \in [Calls -> CallRecord]
           /\ CallOK(call[r], token, grant, linked, mode, sealed)
           /\ call[r].grant # None => call[r].grant \in Grants
           /\ call[r].old # None => call[r].old \in Bridges
           /\ call[r].new # None => call[r].new \in Bridges
<1>1. call[r] \in CallRecord /\ call \in [Calls -> CallRecord]
  BY DEF GInv, TypeOK
<1>2. QED
  BY <1>1 DEF GInv, CallsOK, CallRecord

\* Call r goes on as c; the step touches no other.
LEMMA OneMoves ==
    ASSUME GInv, Onward, NEW r \in Calls, NEW c \in CallRecord,
           call' = [call EXCEPT ![r] = c],
           CallOK(c, token', grant', linked', mode', sealed'),
           \A q \in Calls \ {r} : Kept(call[q]) /\ Apart(c, call[q]) /\ Apart(call[q], c)
    PROVE  CallsOK' /\ call' \in [Calls -> CallRecord]
<1>1. call \in [Calls -> CallRecord]
  BY DEF GInv, TypeOK
<1>2. /\ call' \in [Calls -> CallRecord] /\ call'[r] = c
      /\ \A q \in Calls \ {r} : call'[q] = call[q]
  BY <1>1
<1>3. ASSUME NEW q \in Calls PROVE CallOK(call'[q], token', grant', linked', mode', sealed')
  <2>1. CASE q = r
    BY <1>2, <2>1
  <2>2. CASE q # r
    <3>1. call[q] \in CallRecord /\ CallOK(call[q], token, grant, linked, mode, sealed)
      BY InFlight
    <3>2. CallOK(call[q], token', grant', linked', mode', sealed')
      BY <2>2, <3>1, KeptOK
    <3>3. QED
      BY <1>2, <2>2, <3>2
  <2>3. QED
    BY <2>1, <2>2
<1>4. ASSUME NEW q \in Calls, NEW t \in Calls, q # t PROVE Apart(call'[q], call'[t])
  <2>1. CASE q = r
    BY <1>2, <1>4, <2>1
  <2>2. CASE t = r
    BY <1>2, <1>4, <2>2
  <2>3. CASE q # r /\ t # r
    <3>1. Apart(call[q], call[t])
      BY <1>4 DEF GInv, CallsOK
    <3>2. QED
      BY <1>2, <2>3, <3>1
  <2>4. QED
    BY <2>1, <2>2, <2>3
<1>5. QED
  BY <1>2, <1>3, <1>4 DEF CallsOK

\* A call that goes on with the tokens it has is as far from the others.
LEMMA SameTokens ==
    ASSUME GInv, NEW r \in Calls, NEW c, c.pc # "copy", c.new = None \/ c.new = call[r].new,
           c.grant # None => c.old = call[r].old /\ c.grant = call[r].grant
    PROVE  \A q \in Calls \ {r} : Apart(c, call[q]) /\ Apart(call[q], c)
<1> SUFFICES ASSUME NEW q \in Calls \ {r} PROVE Apart(c, call[q]) /\ Apart(call[q], c)
  OBVIOUS
<1>1. Apart(call[r], call[q]) /\ Apart(call[q], call[r])
  BY DEF GInv, CallsOK
<1>2. QED
  BY <1>1 DEF Apart

\* A call with no token of its own, and none that somebody copies to.
LEMMA NoTokens ==
    ASSUME GInv, NEW r \in Calls, NEW c, c.new = None,
           c.grant # None /\ c.old # None =>
             \A q \in Calls \ {r} : call[q].pc = "copy" => c.old # call[q].new
    PROVE  \A q \in Calls \ {r} : Apart(c, call[q]) /\ Apart(call[q], c)
BY DEF Apart

-----------------------------------------------------------------------------
(* Steps that read.                                                          *)

\* The tables and the history, but for line and redeemed.
Unread == <<code, stale, suspended, token, mode, grant, linked, redeemed, line, sealed>>

\* Nothing is touched.
LEMMA Still ==
    ASSUME GInv, UNCHANGED Unread
    PROVE  /\ Onward /\ \A q \in Calls : Kept(call[q])
           /\ token' = token /\ mode' = mode /\ grant' = grant /\ linked' = linked
           /\ sealed' = sealed /\ TablesOK'
           /\ call' \in [Calls -> CallRecord] => TypeOK'
<1>1. /\ code' = code /\ stale' = stale /\ suspended' = suspended /\ token' = token
      /\ mode' = mode /\ grant' = grant /\ linked' = linked /\ redeemed' = redeemed
      /\ line' = line /\ sealed' = sealed
  BY DEF Unread
<1>2. Onward /\ \A q \in Calls : Kept(call[q])
  BY <1>1 DEF Onward, Kept
<1>3. TablesOK'
  BY <1>1 DEF GInv, TablesOK
<1>4. call' \in [Calls -> CallRecord] => TypeOK'
  BY <1>1, Zenon DEF GInv, TypeOK
<1>5. QED
  BY <1>1, <1>2, <1>3, <1>4

\* A reader goes on as c.
LEMMA ReaderMoves ==
    ASSUME GInv, UNCHANGED Unread, NEW r \in Calls, NEW c \in CallRecord,
           call' = [call EXCEPT ![r] = c],
           CallOK(c, token, grant, linked, mode, sealed),
           \A q \in Calls \ {r} : Apart(c, call[q]) /\ Apart(call[q], c)
    PROVE  GInv'
<1>1. /\ Onward /\ \A q \in Calls : Kept(call[q])
      /\ token' = token /\ mode' = mode /\ grant' = grant /\ linked' = linked
      /\ sealed' = sealed /\ TablesOK' /\ (call' \in [Calls -> CallRecord] => TypeOK')
  BY Still
<1>2. CallsOK' /\ call' \in [Calls -> CallRecord]
  BY <1>1, OneMoves
<1>3. QED
  BY <1>1, <1>2 DEF GInv

\* A slot that is free relies on nothing.
LEMMA FreeSlot ==
    /\ NoCall \in CallRecord /\ NoCall.new = None /\ NoCall.grant = None /\ NoCall.old = None
    /\ NoCall.pc = "idle"
    /\ \A tk, gr, lk, md, sl : CallOK(NoCall, tk, gr, lk, md, sl)
<1>1. /\ NoCall \in CallRecord /\ NoCall.new = None /\ NoCall.grant = None
      /\ NoCall.old = None /\ NoCall.pc = "idle"
  BY DEF NoCall, CallRecord, PCs
<1>2. \A tk, gr, lk, md, sl : CallOK(NoCall, tk, gr, lk, md, sl)
  BY <1>1 DEF CallOK, Redeems
<1>3. QED
  BY <1>1, <1>2

\* A call ends that has written nothing in this step.
LEMMA ReaderEnds ==
    ASSUME GInv, UNCHANGED Unread, NEW r \in Calls, Finish(r)
    PROVE  GInv'
<1>1. PICK c : c = NoCall
  OBVIOUS
<1>2. /\ c \in CallRecord /\ c.new = None /\ c.grant = None
      /\ CallOK(c, token, grant, linked, mode, sealed)
  BY <1>1, FreeSlot
<1>3. call' = [call EXCEPT ![r] = c]
  BY <1>1 DEF Finish
<1>4. \A q \in Calls \ {r} : Apart(c, call[q]) /\ Apart(call[q], c)
  BY <1>2, NoTokens
<1>5. QED
  BY <1>2, <1>3, <1>4, ReaderMoves

\* A call that goes to its next query as it is.
LEMMA Goes ==
    ASSUME GInv, NEW r \in Calls, NEW l \in PCs, Goto(r, l)
    PROVE  \E c \in CallRecord :
             /\ call' = [call EXCEPT ![r] = c] /\ c.pc = l
             /\ c.code = call[r].code /\ c.grant = call[r].grant /\ c.old = call[r].old
             /\ c.new = call[r].new /\ c.mode = call[r].mode /\ c.touched = call[r].touched
<1>1. PICK c : c = [call[r] EXCEPT !.pc = l]
  OBVIOUS
<1>2. call[r] \in CallRecord
  BY InFlight
<1>3. /\ c \in CallRecord /\ c.pc = l
      /\ c.code = call[r].code /\ c.grant = call[r].grant /\ c.old = call[r].old
      /\ c.new = call[r].new /\ c.mode = call[r].mode /\ c.touched = call[r].touched
  BY <1>1, <1>2 DEF CallRecord
<1>4. call' = [call EXCEPT ![r] = c]
  BY <1>1 DEF Goto
<1>5. QED
  BY <1>3, <1>4

\* The panel asks; the token was minted.
LEMMA SetModeOK ==
    ASSUME GInv, NEW r \in Calls, NEW b \in Bridges, NEW m \in Modes, SetMode(r, b, m)
    PROVE  GInv'
<1>1. PICK c : c = [NoCall EXCEPT !.pc = "put", !.old = b, !.mode = m]
  OBVIOUS
<1>2. c = [pc |-> "put", code |-> None, grant |-> None, old |-> b, new |-> None,
           mode |-> m, touched |-> FALSE]
  BY <1>1 DEF NoCall
<1>3. /\ c \in CallRecord /\ c.pc = "put" /\ c.grant = None /\ c.old = b /\ c.new = None
  BY <1>2 DEF CallRecord, PCs
<1>4. token[b] # "none" /\ b # None
  BY DistinctAssumption DEF SetMode
<1>5. CallOK(c, token, grant, linked, mode, sealed)
  BY <1>3, <1>4 DEF CallOK, Redeems
<1>6. \A q \in Calls \ {r} : Apart(c, call[q]) /\ Apart(call[q], c)
  BY <1>3, NoTokens
<1>7. call' = [call EXCEPT ![r] = c] /\ UNCHANGED Unread
  BY <1>1 DEF SetMode, Unread, tables, history
<1>8. QED
  BY <1>3, <1>5, <1>6, <1>7, ReaderMoves

\* A request with a code.
LEMMA RedeemOK ==
    ASSUME GInv, NEW r \in Calls, NEW k \in Codes, Redeem(r, k)
    PROVE  GInv'
<1>1. PICK c : c = [NoCall EXCEPT !.pc = "code", !.code = k]
  OBVIOUS
<1>2. c = [pc |-> "code", code |-> k, grant |-> None, old |-> None, new |-> None,
           mode |-> Default, touched |-> FALSE]
  BY <1>1 DEF NoCall
<1>3. /\ c \in CallRecord /\ c.pc = "code" /\ c.grant = None /\ c.old = None
      /\ c.new = None /\ c.code = k /\ k # None
  BY <1>2, DistinctAssumption DEF CallRecord, PCs
<1>4. CallOK(c, token, grant, linked, mode, sealed)
  BY <1>3 DEF CallOK, Redeems
<1>5. \A q \in Calls \ {r} : Apart(c, call[q]) /\ Apart(call[q], c)
  BY <1>3, NoTokens
<1>6. call' = [call EXCEPT ![r] = c] /\ UNCHANGED Unread
  BY <1>1 DEF Redeem, Unread, tables, history
<1>7. QED
  BY <1>3, <1>4, <1>5, <1>6, ReaderMoves

\* A request with a refresh token, of a grant that may be sealed.
LEMMA RefreshOK ==
    ASSUME GInv, NEW r \in Calls, NEW g \in Grants, Refresh(r, g)
    PROVE  GInv'
<1>1. PICK c : c = [NoCall EXCEPT !.pc = "refresh", !.grant = g]
  OBVIOUS
<1>2. c = [pc |-> "refresh", code |-> None, grant |-> g, old |-> None, new |-> None,
           mode |-> Default, touched |-> FALSE]
  BY <1>1 DEF NoCall
<1>3. /\ c \in CallRecord /\ c.pc = "refresh" /\ c.grant = g /\ c.old = None
      /\ c.new = None /\ g # None /\ grant[g] # "none"
  BY <1>2, DistinctAssumption DEF CallRecord, PCs, Refresh
<1>4. CallOK(c, token, grant, linked, mode, sealed)
  BY <1>3 DEF CallOK, Refreshes, BeforeRevoked, Minted
<1>5. \A q \in Calls \ {r} : Apart(c, call[q]) /\ Apart(call[q], c)
  BY <1>3, NoTokens
<1>6. call' = [call EXCEPT ![r] = c] /\ UNCHANGED Unread
  BY <1>1 DEF Refresh, Unread, tables, history
<1>7. QED
  BY <1>3, <1>4, <1>5, <1>6, ReaderMoves

(* A call goes from l to m and has no token of its own yet; that the revoked *)
(* token is before it, if its grant is sealed, is left to show.              *)
LEMMA GoesOn ==
    ASSUME GInv, NEW r \in Calls, NEW m \in PCs, Goto(r, m), UNCHANGED Unread,
           call[r].pc \notin Minted, m \notin Minted, m # "put",
           call[r].grant = None => m \in Redeems /\ call[r].code # None,
           call[r].grant # None => m \in Refreshes /\ call[r].pc # "refresh" /\ m # "refresh",
           call[r].grant \in sealed => m \in BeforeRevoked
    PROVE  GInv'
<1>1. PICK c \in CallRecord :
             /\ call' = [call EXCEPT ![r] = c] /\ c.pc = m
             /\ c.code = call[r].code /\ c.grant = call[r].grant /\ c.old = call[r].old
             /\ c.new = call[r].new /\ c.mode = call[r].mode /\ c.touched = call[r].touched
  BY Goes
<1>2. CallOK(call[r], token, grant, linked, mode, sealed)
  BY InFlight
<1>3. c.new = None /\ c.pc # "link"
  BY <1>1, <1>2 DEF CallOK, Minted
<1>4. CallOK(c, token, grant, linked, mode, sealed)
  BY <1>1, <1>2, <1>3 DEF CallOK, Minted
<1>5. \A q \in Calls \ {r} : Apart(c, call[q]) /\ Apart(call[q], c)
  BY <1>1, <1>3, SameTokens DEF Minted
<1>6. QED
  BY <1>1, <1>4, <1>5, ReaderMoves

\* What the query in pc shows of the call that makes it.
LEMMA Places ==
    ASSUME GInv, NEW r \in Calls
    PROVE  /\ call[r].pc \in {"code", "mark", "codeUser"} => call[r].grant = None
           /\ call[r].pc \in {"refresh", "refreshUser", "bridge", "kill", "rotate", "copy"}
                => call[r].grant # None
           /\ call[r].pc \in Redeems /\ call[r].grant = None => call[r].code # None
           /\ call[r].grant \in sealed => call[r].pc \in BeforeRevoked
           /\ None \notin sealed
<1>1. CallOK(call[r], token, grant, linked, mode, sealed) /\ None \notin sealed
  BY InFlight, DistinctAssumption DEF GInv, TypeOK
<1>2. QED
  BY <1>1 DEF CallOK, Redeems, Refreshes, BeforeRevoked, Minted

\* The steps that only look.
LEMMA LooksOK ==
    ASSUME GInv, NEW r \in Calls,
           ReadCode(r) \/ CodeUser(r) \/ RefreshUser(r) \/ MintSession(r) \/ Answer(r) \/ Fail(r)
    PROVE  GInv'
<1>1. UNCHANGED Unread
  BY DEF ReadCode, CodeUser, RefreshUser, MintSession, Answer, Fail, Unread, tables, history
<1>2. CASE Finish(r)
  BY <1>1, <1>2, ReaderEnds
<1>3. CASE At(r, "code") /\ Goto(r, "mark")
  BY <1>1, <1>3, Places, GoesOn DEF At, Minted, Redeems, PCs
<1>4. CASE At(r, "codeUser") /\ Goto(r, "session")
  BY <1>1, <1>4, Places, GoesOn DEF At, Minted, Redeems, PCs
<1>5. CASE At(r, "refreshUser") /\ Goto(r, "bridge")
  BY <1>1, <1>5, Places, GoesOn DEF At, Minted, Refreshes, BeforeRevoked, PCs
<1>6. CASE At(r, "session") /\ Goto(r, "mint")
  BY <1>1, <1>6, Places, GoesOn DEF At, Minted, Refreshes, BeforeRevoked, Redeems, PCs
<1>7. QED
  BY <1>2, <1>3, <1>4, <1>5, <1>6
     DEF ReadCode, CodeUser, RefreshUser, MintSession, Answer, Fail

\* The refresh learns which token it replaces: a sealed grant's is revoked.
LEMMA ReadRefreshOK ==
    ASSUME GInv, NEW r \in Calls, ReadRefresh(r)
    PROVE  GInv'
<1>1. UNCHANGED Unread /\ call[r].pc = "refresh"
  BY DEF ReadRefresh, Unread, tables, history, At
<1>2. CASE Finish(r)
  BY <1>1, <1>2, ReaderEnds
<1>3. CASE call' = [call EXCEPT ![r].pc = "refreshUser", ![r].old = linked[call[r].grant]]
  <2>1. PICK g : g = call[r].grant
    OBVIOUS
  <2>2. /\ call[r] \in CallRecord /\ CallOK(call[r], token, grant, linked, mode, sealed)
        /\ g \in Grants
    BY <1>1, <2>1, InFlight, Places
  <2>3. grant[g] # "none" /\ linked[g] \in Bridges /\ token[linked[g]] # "none"
    BY <1>1, <2>1, <2>2, DistinctAssumption DEF CallOK, GInv, TypeOK, TablesOK
  <2>4. PICK c : c = [call[r] EXCEPT !.pc = "refreshUser", !.old = linked[g]]
    OBVIOUS
  <2>5. /\ c \in CallRecord /\ c.pc = "refreshUser" /\ c.grant = g /\ c.old = linked[g]
        /\ c.new = call[r].new
    BY <2>1, <2>2, <2>3, <2>4 DEF CallRecord, PCs
  <2>6. call' = [call EXCEPT ![r] = c]
    BY <1>3, <2>1, <2>4
  <2>7. c.new = None /\ g # None
    BY <1>1, <2>2, <2>5, DistinctAssumption DEF CallOK, Minted
  <2>8. g \in sealed => token[linked[g]] = "revoked"
    BY DEF GInv, TablesOK
  <2>9. CallOK(c, token, grant, linked, mode, sealed)
    BY <2>3, <2>5, <2>7, <2>8, DistinctAssumption DEF CallOK, Refreshes, BeforeRevoked, Minted
  <2>10. \A q \in Calls \ {r} : call[q].pc = "copy" => linked[g] # call[q].new
    <3>1. \A q \in Calls : CallOK(call[q], token, grant, linked, mode, sealed)
      BY InFlight
    <3>2. \A q \in Calls : call[q].pc = "copy" => call[q].grant # None
      BY Places
    <3>3. QED
      BY <2>2, <3>1, <3>2 DEF CallOK
  <2>11. \A q \in Calls \ {r} : Apart(c, call[q]) /\ Apart(call[q], c)
    BY <2>5, <2>7, <2>10, NoTokens
  <2>12. QED
    BY <1>1, <2>5, <2>6, <2>9, <2>11, ReaderMoves
<1>4. QED
  BY <1>2, <1>3 DEF ReadRefresh

\* A sealed grant's refresh ends here: it finds the token revoked.
LEMMA ReadBridgeOK ==
    ASSUME GInv, NEW r \in Calls, ReadBridge(r)
    PROVE  GInv'
<1>1. UNCHANGED Unread /\ call[r].pc = "bridge" /\ call[r].grant # None
  BY Places DEF ReadBridge, Unread, tables, history, At
<1>2. CallOK(call[r], token, grant, linked, mode, sealed)
  BY InFlight
<1>3. PICK m : m = IF token[call[r].old] = "revoked" THEN "kill" ELSE "rotate"
  OBVIOUS
<1>4. call[r].grant \in sealed => m = "kill"
  BY <1>1, <1>2, <1>3 DEF CallOK
<1>5. Goto(r, m)
  BY <1>3 DEF ReadBridge
<1>6. /\ m \in PCs /\ m \notin Minted /\ m # "put" /\ m # "refresh" /\ m \in Refreshes
      /\ call[r].pc \notin Minted /\ call[r].pc # "refresh" /\ (m = "kill" => m \in BeforeRevoked)
  BY <1>1, <1>3 DEF PCs, Minted, Refreshes, BeforeRevoked
<1>7. QED
  BY <1>1, <1>4, <1>5, <1>6, GoesOn

-----------------------------------------------------------------------------
(* Steps that write.                                                         *)

\* The code is marked; the tables that others rely on stay.
LEMMA MarkCodeOK ==
    ASSUME GInv, NEW r \in Calls, MarkCode(r)
    PROVE  GInv'
<1>1. /\ call[r].pc = "mark" /\ call[r].grant = None /\ call[r].code # None
      /\ call[r].code \in Codes
  <2>1. call[r].pc = "mark"
    BY DEF MarkCode, At
  <2>2. call[r].grant = None /\ call[r].code # None
    BY <2>1, Places DEF Redeems
  <2>3. QED
    BY <2>1, <2>2, InFlight DEF CallRecord
<1>2. /\ stale' = stale /\ suspended' = suspended /\ token' = token
      /\ mode' = mode /\ grant' = grant /\ linked' = linked /\ redeemed' = redeemed
      /\ line' = line /\ sealed' = sealed
      /\ code' = [code EXCEPT ![call[r].code] = "used"] /\ Goto(r, "codeUser")
  BY DEF MarkCode, history
<1>3. PICK c \in CallRecord :
             /\ call' = [call EXCEPT ![r] = c] /\ c.pc = "codeUser"
             /\ c.code = call[r].code /\ c.grant = call[r].grant /\ c.old = call[r].old
             /\ c.new = call[r].new /\ c.mode = call[r].mode /\ c.touched = call[r].touched
  BY <1>2, Goes DEF PCs
<1>4. CallOK(call[r], token, grant, linked, mode, sealed)
  BY InFlight
<1>5. CallOK(c, token, grant, linked, mode, sealed)
  BY <1>1, <1>3, <1>4 DEF CallOK, Minted, Redeems
<1>6. \A q \in Calls \ {r} : Apart(c, call[q]) /\ Apart(call[q], c)
  BY <1>1, <1>3, SameTokens
<1>7. Onward /\ \A q \in Calls : Kept(call[q])
  BY <1>2 DEF Onward, Kept
<1>8. CallsOK' /\ call' \in [Calls -> CallRecord]
  BY <1>2, <1>3, <1>5, <1>6, <1>7, OneMoves
<1>9. code' \in [Codes -> {"none", "issued", "used"}]
  BY <1>1, <1>2 DEF GInv, TypeOK
<1>10. TypeOK'
  BY <1>2, <1>8, <1>9, Zenon DEF GInv, TypeOK
<1>11. TablesOK'
  BY <1>2 DEF GInv, TablesOK
<1>12. QED
  BY <1>8, <1>10, <1>11 DEF GInv

\* A call ends that has written token or grant.
LEMMA WriterEnds ==
    ASSUME GInv, Onward, NEW r \in Calls, Finish(r), \A q \in Calls \ {r} : Kept(call[q])
    PROVE  CallsOK' /\ call' \in [Calls -> CallRecord]
<1>1. PICK c : c = NoCall
  OBVIOUS
<1>2. /\ c \in CallRecord /\ c.new = None /\ c.grant = None
      /\ CallOK(c, token', grant', linked', mode', sealed')
  BY <1>1, FreeSlot
<1>3. call' = [call EXCEPT ![r] = c]
  BY <1>1 DEF Finish
<1>4. \A q \in Calls \ {r} : Apart(c, call[q]) /\ Apart(call[q], c)
  BY <1>2, NoTokens
<1>5. QED
  BY <1>2, <1>3, <1>4, OneMoves

\* The grant of a revoked token is revoked too.
LEMMA KillGrantOK ==
    ASSUME GInv, NEW r \in Calls, KillGrant(r)
    PROVE  GInv'
<1>1. /\ call[r].grant \in Grants /\ grant[call[r].grant] # "none"
  <2>1. call[r].pc = "kill"
    BY DEF KillGrant, At
  <2>2. call[r].grant # None
    BY <2>1, Places
  <2>3. QED
    BY <2>2, InFlight DEF CallOK
<1>2. /\ code' = code /\ stale' = stale /\ suspended' = suspended /\ token' = token
      /\ mode' = mode /\ linked' = linked /\ redeemed' = redeemed
      /\ line' = line /\ sealed' = sealed
      /\ grant' = [grant EXCEPT ![call[r].grant] = "revoked"] /\ Finish(r)
  BY DEF KillGrant, history
<1>3. /\ grant' \in [Grants -> {"none", "live", "revoked"}]
      /\ \A g \in Grants : grant'[g] # "none" <=> grant[g] # "none"
  BY <1>1, <1>2 DEF GInv, TypeOK
<1>4. Onward /\ \A q \in Calls : Kept(call[q])
  BY <1>2, <1>3 DEF Onward, Kept
<1>5. CallsOK' /\ call' \in [Calls -> CallRecord]
  BY <1>2, <1>4, WriterEnds
<1>6. TypeOK'
  BY <1>2, <1>3, <1>5, Zenon DEF GInv, TypeOK
<1>7. TablesOK'
  BY <1>2, <1>3 DEF GInv, TablesOK
<1>8. QED
  BY <1>5, <1>6, <1>7 DEF GInv

\* Revoking a token that was minted, whoever does it.
LEMMA TokenRevoked ==
    ASSUME GInv, NEW b \in Bridges, token[b] # "none", token' = [token EXCEPT ![b] = "revoked"],
           grant' = grant
    PROVE  /\ Onward /\ token' \in [Bridges -> {"none", "live", "revoked"}]
           /\ token'[b] = "revoked"
           /\ \A x \in Bridges : token'[x] = "none" <=> token[x] = "none"
<1>1. token \in [Bridges -> {"none", "live", "revoked"}]
  BY DEF GInv, TypeOK
<1>2. /\ token' \in [Bridges -> {"none", "live", "revoked"}]
      /\ \A x \in Bridges : token'[x] = IF x = b THEN "revoked" ELSE token[x]
  BY <1>1
<1>3. QED
  BY <1>2 DEF Onward

\* A refresh that rotates is of no sealed grant.
LEMMA RotateOK ==
    ASSUME GInv, NEW r \in Calls, Rotate(r)
    PROVE  GInv'
<1>1. /\ call[r].pc = "rotate" /\ call[r].grant # None
      /\ CallOK(call[r], token, grant, linked, mode, sealed)
  BY Places, InFlight DEF Rotate, At
<1>2. call[r].old \in Bridges /\ token[call[r].old] # "none"
  BY <1>1, InFlight DEF CallOK
<1>3. /\ code' = code /\ stale' = stale /\ suspended' = suspended
      /\ mode' = mode /\ grant' = grant /\ linked' = linked /\ redeemed' = redeemed
      /\ line' = line /\ sealed' = sealed
      /\ token' = [token EXCEPT ![call[r].old] = "revoked"] /\ Goto(r, "session")
  BY DEF Rotate, history
<1>4. /\ Onward /\ token' \in [Bridges -> {"none", "live", "revoked"}]
      /\ token'[call[r].old] = "revoked"
      /\ \A x \in Bridges : token'[x] = "none" <=> token[x] = "none"
  BY <1>2, <1>3, TokenRevoked
<1>5. \A q \in Calls : Kept(call[q])
  BY <1>3 DEF Kept
<1>6. PICK c \in CallRecord :
             /\ call' = [call EXCEPT ![r] = c] /\ c.pc = "session"
             /\ c.code = call[r].code /\ c.grant = call[r].grant /\ c.old = call[r].old
             /\ c.new = call[r].new /\ c.mode = call[r].mode /\ c.touched = call[r].touched
  BY <1>3, Goes DEF PCs
<1>7. call[r].grant \notin sealed
  BY <1>1, Places DEF BeforeRevoked
<1>8. CallOK(c, token', grant', linked', mode', sealed')
  BY <1>1, <1>2, <1>3, <1>4, <1>6, <1>7 DEF CallOK, Minted, Refreshes
<1>9. \A q \in Calls \ {r} : Apart(c, call[q]) /\ Apart(call[q], c)
  BY <1>6, SameTokens
<1>10. CallsOK' /\ call' \in [Calls -> CallRecord]
  BY <1>4, <1>5, <1>6, <1>8, <1>9, OneMoves
<1>11. TypeOK'
  BY <1>3, <1>4, <1>10, Zenon DEF GInv, TypeOK
<1>12. TablesOK'
  <2>1. \A g \in Grants : linked[g] # None => linked[g] \in Bridges
    BY DEF GInv, TypeOK
  <2>2. \A g \in sealed : g \in Grants
    BY DEF GInv, TypeOK
  <2>3. QED
    BY <1>3, <1>4, <2>1, <2>2 DEF GInv, TablesOK, Onward
<1>13. QED
  BY <1>10, <1>11, <1>12 DEF GInv

\* The minted token is new to everyone, and of no sealed grant.
LEMMA MintBridgeOK ==
    ASSUME GInv, NEW r \in Calls, NEW b \in Bridges, MintBridge(r, b)
    PROVE  GInv'
<1>1. /\ call[r].pc = "mint" /\ token[b] = "none" /\ b # None
      /\ call[r] \in CallRecord
      /\ CallOK(call[r], token, grant, linked, mode, sealed)
  BY InFlight, DistinctAssumption DEF MintBridge, At
<1>2. /\ code' = code /\ stale' = stale /\ suspended' = suspended
      /\ mode' = mode /\ grant' = grant /\ linked' = linked /\ redeemed' = redeemed
      /\ sealed' = sealed
      /\ token' = [token EXCEPT ![b] = "live"]
      /\ line' = [line EXCEPT ![b] = call[r].grant]
  BY DEF MintBridge
<1>3. /\ token' \in [Bridges -> {"none", "live", "revoked"}] /\ token'[b] = "live"
      /\ \A x \in Bridges : x # b => token'[x] = token[x]
  BY <1>2 DEF GInv, TypeOK
<1>4. Onward /\ \A q \in Calls : Kept(call[q])
  BY <1>1, <1>2, <1>3 DEF Onward, Kept
<1>5. PICK m : m = IF call[r].grant # None THEN "copy" ELSE "link"
  OBVIOUS
<1>6. PICK c : c = [call[r] EXCEPT !.pc = m, !.new = b]
  OBVIOUS
<1>7. call' = [call EXCEPT ![r] = c]
  BY <1>5, <1>6 DEF MintBridge, Refreshing
<1>8. /\ c \in CallRecord /\ c.pc = m /\ c.code = call[r].code /\ c.grant = call[r].grant
      /\ c.old = call[r].old /\ c.new = b /\ c.touched = call[r].touched
  <2>1. m \in PCs
    BY <1>5 DEF PCs
  <2>2. QED
    BY <1>1, <1>6, <2>1 DEF CallRecord
<1>9. /\ mode[b] = Default
      /\ \A g \in Grants : linked[g] # b
      /\ \A q \in Calls : call[q].old # b /\ call[q].new # b
  <2>1. mode[b] = Default
    BY <1>1 DEF GInv, TablesOK
  <2>2. \A g \in Grants : linked[g] # b
    BY <1>1 DEF GInv, TablesOK
  <2>3. \A q \in Calls : CallOK(call[q], token, grant, linked, mode, sealed)
    BY InFlight
  <2>4. \A q \in Calls : call[q].old # b /\ call[q].new # b
    BY <1>1, <2>3 DEF CallOK
  <2>5. QED
    BY <2>1, <2>2, <2>4
<1>10. call[r].grant \notin sealed
  BY <1>1, Places DEF BeforeRevoked
<1>11. CallOK(c, token', grant', linked', mode', sealed')
  <2>1. c.old # None => token'[c.old] # "none"
    BY <1>1, <1>3, <1>8, <1>9 DEF CallOK, CallRecord
  <2>2. CASE call[r].grant = None
    <3>1. m = "link" /\ call[r].code # None
      BY <1>1, <1>5, <2>2, Places DEF Redeems
    <3>2. QED
      BY <1>1, <1>3, <1>8, <2>1, <2>2, <3>1 DEF CallOK, Minted, Redeems
  <2>3. CASE call[r].grant # None
    <3>1. m = "copy" /\ call[r].old # None
      BY <1>1, <1>5, <2>3 DEF CallOK
    <3>2. QED
      BY <1>1, <1>2, <1>3, <1>8, <1>9, <1>10, <2>1, <2>3, <3>1
         DEF CallOK, Minted, Refreshes
  <2>4. QED
    BY <2>2, <2>3
<1>12. \A q \in Calls \ {r} : Apart(c, call[q]) /\ Apart(call[q], c)
  <2>1. \A q \in Calls \ {r} : Apart(call[q], call[r])
    BY DEF GInv, CallsOK
  <2>2. QED
    BY <1>8, <1>9, <2>1 DEF Apart
<1>13. CallsOK' /\ call' \in [Calls -> CallRecord]
  BY <1>4, <1>7, <1>8, <1>11, <1>12, OneMoves
<1>14. line' \in [Bridges -> Grants \cup {None}]
  BY <1>1, <1>2 DEF GInv, TypeOK, CallRecord
<1>15. TypeOK'
  BY <1>2, <1>3, <1>13, <1>14, Zenon DEF GInv, TypeOK
<1>16. TablesOK'
  <2>1. \A g \in Grants : linked[g] # None => linked[g] \in Bridges
    BY DEF GInv, TypeOK
  <2>2. \A g \in sealed : g \in Grants
    BY DEF GInv, TypeOK
  <2>3. QED
    BY <1>2, <1>3, <1>9, <2>1, <2>2 DEF GInv, TablesOK
<1>17. QED
  BY <1>13, <1>15, <1>16 DEF GInv

\* The row that is copied to is nobody else's.
LEMMA CopyModesOK ==
    ASSUME GInv, NEW r \in Calls, CopyModes(r)
    PROVE  GInv'
<1>1. /\ call[r].pc = "copy" /\ call[r].grant # None /\ call[r] \in CallRecord
      /\ CallOK(call[r], token, grant, linked, mode, sealed)
  BY Places, InFlight DEF CopyModes, At
<1>2. PICK o : o = call[r].old
  OBVIOUS
<1>3. PICK n : n = call[r].new
  OBVIOUS
<1>4. /\ o \in Bridges /\ n \in Bridges /\ o # n /\ token[n] # "none" /\ n # None
      /\ ~call[r].touched => mode[n] = Default
      /\ call[r].grant \notin sealed
  BY <1>1, <1>2, <1>3, InFlight DEF CallOK, BeforeRevoked, Minted
<1>5. /\ code' = code /\ stale' = stale /\ suspended' = suspended /\ token' = token
      /\ grant' = grant /\ linked' = linked /\ redeemed' = redeemed
      /\ line' = line /\ sealed' = sealed /\ Goto(r, "link")
      /\ mode' = [mode EXCEPT ![n] = IF mode[n] = Default THEN mode[o] ELSE mode[n]]
  BY <1>2, <1>3 DEF CopyModes, history
<1>6. mode \in [Bridges -> Modes \cup {Default}]
  BY DEF GInv, TypeOK
<1>7. /\ mode' \in [Bridges -> Modes \cup {Default}]
      /\ \A x \in Bridges : x # n => mode'[x] = mode[x]
      /\ mode[n] = Default => mode'[n] = mode[o]
  BY <1>4, <1>5, <1>6
<1>8. \A q \in Calls \ {r} : Kept(call[q])
  <2> SUFFICES ASSUME NEW q \in Calls \ {r} PROVE Kept(call[q])
    OBVIOUS
  <2>1. Apart(call[r], call[q])
    BY DEF GInv, CallsOK
  <2>2. call[q].new # n /\ (call[q].grant # None => call[q].old # n)
    BY <1>1, <1>3, <1>4, <2>1 DEF Apart
  <2>3. CallOK(call[q], token, grant, linked, mode, sealed)
    BY InFlight
  <2>4. call[q].grant # None /\ call[q].pc \in Minted =>
          call[q].new \in Bridges /\ call[q].old \in Bridges
    BY <2>3, InFlight DEF CallOK, Minted
  <2>5. QED
    BY <1>5, <1>7, <2>2, <2>4 DEF Kept
<1>9. Onward
  BY <1>5 DEF Onward
<1>10. PICK c \in CallRecord :
             /\ call' = [call EXCEPT ![r] = c] /\ c.pc = "link"
             /\ c.code = call[r].code /\ c.grant = call[r].grant /\ c.old = call[r].old
             /\ c.new = call[r].new /\ c.mode = call[r].mode /\ c.touched = call[r].touched
  BY <1>5, Goes DEF PCs
<1>11. ~c.touched => mode'[c.new] = mode'[c.old]
  BY <1>2, <1>3, <1>4, <1>7, <1>10
<1>12. CallOK(c, token', grant', linked', mode', sealed')
  BY <1>1, <1>4, <1>5, <1>10, <1>11 DEF CallOK, Minted, Refreshes
<1>13. \A q \in Calls \ {r} : Apart(c, call[q]) /\ Apart(call[q], c)
  BY <1>10, SameTokens
<1>14. CallsOK' /\ call' \in [Calls -> CallRecord]
  BY <1>8, <1>9, <1>10, <1>12, <1>13, OneMoves
<1>15. TypeOK'
  BY <1>5, <1>7, <1>14, Zenon DEF GInv, TypeOK
<1>16. TablesOK'
  <2>1. \A b \in Bridges : token[b] = "none" => mode'[b] = Default
    BY <1>4, <1>7 DEF GInv, TablesOK
  <2>2. QED
    BY <1>5, <2>1 DEF GInv, TablesOK
<1>17. QED
  BY <1>14, <1>15, <1>16 DEF GInv

(* A minted token is linked to a grant that is not sealed; a copy under way  *)
(* is to another token.                                                      *)
LEMMA LinkOK ==
    ASSUME GInv, NEW r \in Calls, NEW g \in Grants, call[r].pc = "link", call[r].new # None,
           Goto(r, "answer"), linked' = [linked EXCEPT ![g] = call[r].new], g \notin sealed,
           grant' \in [Grants -> {"none", "live", "revoked"}], grant'[g] # "none",
           \A x \in Grants : x # g => grant'[x] = grant[x],
           redeemed' \in [Codes -> SUBSET Grants], line' \in [Bridges -> Grants \cup {None}],
           UNCHANGED <<code, stale, suspended, token, mode, sealed>>
    PROVE  GInv'
<1>1. CallOK(call[r], token, grant, linked, mode, sealed) /\ call[r].new \in Bridges
  BY InFlight
<1>2. /\ code' = code /\ stale' = stale /\ suspended' = suspended /\ token' = token
      /\ mode' = mode /\ sealed' = sealed
  OBVIOUS
<1>3. token[call[r].new] # "none" /\ call[r].grant \notin sealed
  BY <1>1, Places DEF CallOK, BeforeRevoked
<1>4. linked \in [Grants -> Bridges \cup {None}]
  BY DEF GInv, TypeOK
<1>5. /\ linked' \in [Grants -> Bridges \cup {None}] /\ linked'[g] = call[r].new
      /\ \A x \in Grants : x # g => linked'[x] = linked[x]
  BY <1>1, <1>4
<1>6. Onward
  BY <1>2 DEF Onward
<1>7. \A q \in Calls \ {r} : Kept(call[q])
  <2> SUFFICES ASSUME NEW q \in Calls \ {r} PROVE Kept(call[q])
    OBVIOUS
  <2>1. Apart(call[r], call[q])
    BY DEF GInv, CallsOK
  <2>2. call[q].new # call[r].new
    BY <2>1 DEF Apart
  <2>3. \A x \in Grants : linked[x] # call[q].new => linked'[x] # call[q].new
    BY <1>5, <2>2
  <2>4. QED
    BY <1>2, <2>3 DEF Kept
<1>8. PICK c \in CallRecord :
             /\ call' = [call EXCEPT ![r] = c] /\ c.pc = "answer"
             /\ c.code = call[r].code /\ c.grant = call[r].grant /\ c.old = call[r].old
             /\ c.new = call[r].new /\ c.mode = call[r].mode /\ c.touched = call[r].touched
  BY Goes DEF PCs
<1>9. c.grant # None => grant'[c.grant] # "none"
  BY <1>1, <1>8, InFlight DEF CallOK
<1>10. CallOK(c, token', grant', linked', mode', sealed')
  BY <1>1, <1>2, <1>3, <1>8, <1>9 DEF CallOK, Minted, Refreshes, Redeems
<1>11. \A q \in Calls \ {r} : Apart(c, call[q]) /\ Apart(call[q], c)
  BY <1>8, SameTokens
<1>12. CallsOK' /\ call' \in [Calls -> CallRecord]
  BY <1>6, <1>7, <1>8, <1>10, <1>11, OneMoves
<1>13. \A x \in Grants : grant'[x] # "none" => linked'[x] # None
  BY <1>5 DEF GInv, TypeOK
<1>14. TypeOK'
  BY <1>2, <1>5, <1>12, <1>13, Zenon DEF GInv, TypeOK
<1>15. TablesOK'
  <2>1. \A x \in Grants : linked'[x] # None => grant'[x] # "none" /\ token[linked'[x]] # "none"
    BY <1>3, <1>5 DEF GInv, TablesOK
  <2>2. \A x \in sealed : x \in Grants /\ x # g
    BY DEF GInv, TypeOK
  <2>3. QED
    BY <1>2, <1>5, <2>1, <2>2 DEF GInv, TablesOK
<1>16. QED
  BY <1>12, <1>14, <1>15 DEF GInv

\* The refreshed grant names its new token.
LEMMA LinkRefreshOK ==
    ASSUME GInv, NEW r \in Calls, LinkRefresh(r)
    PROVE  GInv'
<1>1. /\ call[r].pc = "link" /\ call[r].grant # None
      /\ CallOK(call[r], token, grant, linked, mode, sealed)
  BY InFlight DEF LinkRefresh, At, Refreshing
<1>2. PICK g \in Grants : g = call[r].grant
  BY <1>1, InFlight
<1>3. /\ call[r].new # None /\ grant[g] # "none" /\ g \notin sealed
  BY <1>1, <1>2 DEF CallOK, Minted, BeforeRevoked
<1>4. /\ Goto(r, "answer") /\ linked' = [linked EXCEPT ![g] = call[r].new]
      /\ grant' = grant /\ redeemed' = redeemed /\ line' = line
      /\ UNCHANGED <<code, stale, suspended, token, mode, sealed>>
  BY <1>2 DEF LinkRefresh, history
<1>5. /\ grant' \in [Grants -> {"none", "live", "revoked"}]
      /\ redeemed' \in [Codes -> SUBSET Grants] /\ line' \in [Bridges -> Grants \cup {None}]
  BY <1>4 DEF GInv, TypeOK
<1>6. QED
  BY <1>1, <1>3, <1>4, <1>5, LinkOK

\* The new grant names its first token; it was never sealed, having none.
LEMMA LinkNewOK ==
    ASSUME GInv, NEW r \in Calls, NEW g \in Grants, LinkNew(r, g)
    PROVE  GInv'
<1>1. /\ call[r].pc = "link" /\ call[r].grant = None /\ grant[g] = "none"
      /\ CallOK(call[r], token, grant, linked, mode, sealed)
  BY InFlight DEF LinkNew, At, Refreshing
<1>2. /\ call[r].new \in Bridges /\ call[r].new # None /\ call[r].code \in Codes
  BY <1>1, InFlight DEF CallOK, Redeems, CallRecord
<1>3. g \notin sealed
  BY <1>1 DEF GInv, TablesOK, TypeOK
<1>4. /\ Goto(r, "answer") /\ linked' = [linked EXCEPT ![g] = call[r].new]
      /\ grant' = [grant EXCEPT ![g] = "live"]
      /\ redeemed' = [redeemed EXCEPT ![call[r].code] = @ \cup {g}]
      /\ line' = [line EXCEPT ![call[r].new] = g]
      /\ UNCHANGED <<code, stale, suspended, token, mode, sealed>>
  BY DEF LinkNew
<1>5. /\ grant' \in [Grants -> {"none", "live", "revoked"}] /\ grant'[g] # "none"
      /\ \A x \in Grants : x # g => grant'[x] = grant[x]
  BY <1>4 DEF GInv, TypeOK
<1>6. redeemed' \in [Codes -> SUBSET Grants]
  BY <1>2, <1>4 DEF GInv, TypeOK
<1>7. line' \in [Bridges -> Grants \cup {None}]
  BY <1>2, <1>4 DEF GInv, TypeOK
<1>8. QED
  BY <1>1, <1>2, <1>3, <1>4, <1>5, <1>6, <1>7, LinkOK

\* A permission is set: all refreshes in flight are touched.
LEMMA PutModeOK ==
    ASSUME GInv, NEW r \in Calls, PutMode(r)
    PROVE  GInv'
<1>1. /\ call[r].pc = "put" /\ call[r] \in CallRecord
      /\ CallOK(call[r], token, grant, linked, mode, sealed)
  BY InFlight DEF PutMode, At
<1>2. /\ call[r].old \in Bridges /\ token[call[r].old] # "none"
      /\ call[r].mode \in Modes \cup {Default}
  BY <1>1, InFlight DEF CallOK, CallRecord
<1>3. /\ code' = code /\ stale' = stale /\ suspended' = suspended /\ token' = token
      /\ grant' = grant /\ linked' = linked /\ redeemed' = redeemed
      /\ line' = line /\ sealed' = sealed
      /\ mode' = [mode EXCEPT ![call[r].old] = call[r].mode]
      /\ call' = [q \in Calls |-> IF q = r THEN NoCall
                                  ELSE [call[q] EXCEPT !.touched = Refreshing(q)]]
  BY DEF PutMode, history
<1>4. /\ mode' \in [Bridges -> Modes \cup {Default}]
      /\ \A x \in Bridges : x # call[r].old => mode'[x] = mode[x]
  BY <1>2, <1>3 DEF GInv, TypeOK
<1>5. \A q \in Calls \ {r} :
        /\ call'[q] \in CallRecord
        /\ call'[q].pc = call[q].pc /\ call'[q].code = call[q].code
        /\ call'[q].grant = call[q].grant /\ call'[q].old = call[q].old
        /\ call'[q].new = call[q].new /\ call'[q].mode = call[q].mode
        /\ call[q].grant # None => call'[q].touched
  <2> SUFFICES ASSUME NEW q \in Calls \ {r}
               PROVE  /\ call'[q] \in CallRecord
                      /\ call'[q].pc = call[q].pc /\ call'[q].code = call[q].code
                      /\ call'[q].grant = call[q].grant /\ call'[q].old = call[q].old
                      /\ call'[q].new = call[q].new /\ call'[q].mode = call[q].mode
                      /\ call[q].grant # None => call'[q].touched
    OBVIOUS
  <2>1. call[q] \in CallRecord
    BY InFlight
  <2>2. PICK t \in BOOLEAN : t = Refreshing(q)
    BY DEF Refreshing
  <2>3. call'[q] = [call[q] EXCEPT !.touched = t]
    BY <1>3, <2>2
  <2>4. call[q].grant # None => t
    BY <2>2 DEF Refreshing
  <2>5. QED
    BY <2>1, <2>3, <2>4 DEF CallRecord
<1>6. call'[r] = NoCall
  BY <1>3
<1>7. call' \in [Calls -> CallRecord]
  <2>1. \A q \in Calls : call'[q] \in CallRecord
    BY <1>5, <1>6, FreeSlot
  <2>2. call' = [q \in Calls |-> call'[q]]
    BY <1>3
  <2>3. QED
    BY <2>1, <2>2
<1>8. ASSUME NEW q \in Calls PROVE CallOK(call'[q], token', grant', linked', mode', sealed')
  <2>1. CASE q = r
    BY <1>6, <2>1, FreeSlot
  <2>2. CASE q # r
    <3>1. CallOK(call[q], token, grant, linked, mode, sealed)
      BY InFlight
    <3>2. QED
      BY <1>3, <1>5, <2>2, <3>1 DEF CallOK
  <2>3. QED
    BY <2>1, <2>2
<1>9. ASSUME NEW q \in Calls, NEW t \in Calls, q # t PROVE Apart(call'[q], call'[t])
  <2>1. CASE q = r
    BY <1>6, <2>1, FreeSlot DEF Apart
  <2>2. CASE q # r /\ t = r
    BY <1>6, <2>2, FreeSlot DEF Apart
  <2>3. CASE q # r /\ t # r
    <3>1. Apart(call[q], call[t])
      BY <1>9 DEF GInv, CallsOK
    <3>2. QED
      BY <1>5, <2>3, <3>1 DEF Apart
  <2>4. QED
    BY <2>1, <2>2, <2>3
<1>10. TypeOK'
  BY <1>3, <1>4, <1>7, Zenon DEF GInv, TypeOK
<1>11. TablesOK'
  <2>1. \A b \in Bridges : token[b] = "none" => mode'[b] = Default
    BY <1>2, <1>4 DEF GInv, TablesOK
  <2>2. QED
    BY <1>3, <2>1 DEF GInv, TablesOK
<1>12. QED
  BY <1>8, <1>9, <1>10, <1>11 DEF GInv, CallsOK

-----------------------------------------------------------------------------
(* Steps of no call.                                                         *)

\* The calls stay, and so does what they rely on.
LEMMA NoneMoves ==
    ASSUME GInv, Onward, call' = call, \A q \in Calls : Kept(call[q])
    PROVE  CallsOK'
<1>1. ASSUME NEW q \in Calls PROVE CallOK(call'[q], token', grant', linked', mode', sealed')
  <2>1. call[q] \in CallRecord /\ CallOK(call[q], token, grant, linked, mode, sealed)
    BY InFlight
  <2>2. CallOK(call[q], token', grant', linked', mode', sealed')
    BY <2>1, KeptOK
  <2>3. QED
    BY <2>2
<1>2. ASSUME NEW q \in Calls, NEW t \in Calls, q # t PROVE Apart(call'[q], call'[t])
  BY <1>2 DEF GInv, CallsOK
<1>3. QED
  BY <1>1, <1>2 DEF CallsOK

\* Codes and suspensions are nothing a call relies on.
LEMMA AroundOK ==
    ASSUME GInv, ToggleSuspension \/ \E c \in Codes : Approve(c) \/ CodeExpires(c)
    PROVE  GInv'
<1>1. /\ code' \in [Codes -> {"none", "issued", "used"}] /\ stale' \subseteq Codes
      /\ suspended' \in BOOLEAN
      /\ token' = token /\ mode' = mode /\ grant' = grant /\ linked' = linked
      /\ redeemed' = redeemed /\ line' = line /\ sealed' = sealed /\ call' = call
  <2>1. CASE ToggleSuspension
    BY <2>1 DEF ToggleSuspension, history, GInv, TypeOK
  <2>2. ASSUME NEW c \in Codes, Approve(c)
        PROVE  /\ code' \in [Codes -> {"none", "issued", "used"}] /\ stale' \subseteq Codes
               /\ suspended' \in BOOLEAN
               /\ token' = token /\ mode' = mode /\ grant' = grant /\ linked' = linked
               /\ redeemed' = redeemed /\ line' = line /\ sealed' = sealed /\ call' = call
    BY <2>2 DEF Approve, history, GInv, TypeOK
  <2>3. ASSUME NEW c \in Codes, CodeExpires(c)
        PROVE  /\ code' \in [Codes -> {"none", "issued", "used"}] /\ stale' \subseteq Codes
               /\ suspended' \in BOOLEAN
               /\ token' = token /\ mode' = mode /\ grant' = grant /\ linked' = linked
               /\ redeemed' = redeemed /\ line' = line /\ sealed' = sealed /\ call' = call
    BY <2>3 DEF CodeExpires, history, GInv, TypeOK
  <2>4. QED
    BY <2>1, <2>2, <2>3
<1>2. Onward /\ \A q \in Calls : Kept(call[q])
  BY <1>1 DEF Onward, Kept
<1>3. CallsOK'
  BY <1>1, <1>2, NoneMoves
<1>4. TypeOK'
  BY <1>1, Zenon DEF GInv, TypeOK
<1>5. TablesOK'
  BY <1>1 DEF GInv, TablesOK
<1>6. QED
  BY <1>3, <1>4, <1>5 DEF GInv

\* The grants that are sealed now have no call in flight.
LEMMA RevokeAgentOK ==
    ASSUME GInv, NEW b \in Bridges, RevokeAgent(b)
    PROVE  GInv'
<1>1. /\ code' = code /\ stale' = stale /\ suspended' = suspended
      /\ mode' = mode /\ grant' = grant /\ linked' = linked
      /\ redeemed' = redeemed /\ line' = line /\ call' = call
      /\ token[b] # "none" /\ token' = [token EXCEPT ![b] = "revoked"]
      /\ sealed' = sealed \cup {g \in Grants :
                      linked[g] = b /\ \A r \in Calls : call[r].grant # g}
  BY DEF RevokeAgent
<1>2. /\ Onward /\ token' \in [Bridges -> {"none", "live", "revoked"}]
      /\ token'[b] = "revoked"
      /\ \A x \in Bridges : token'[x] = "none" <=> token[x] = "none"
  BY <1>1, TokenRevoked
<1>3. \A q \in Calls : Kept(call[q])
  BY <1>1 DEF Kept
<1>4. CallsOK'
  BY <1>1, <1>2, <1>3, NoneMoves
<1>5. sealed' \subseteq Grants
  BY <1>1 DEF GInv, TypeOK
<1>6. TypeOK'
  BY <1>1, <1>2, <1>5, Zenon DEF GInv, TypeOK
<1>7. TablesOK'
  <2>1. \A g \in Grants : linked[g] # None => linked[g] \in Bridges
    BY DEF GInv, TypeOK
  <2>2. \A g \in sealed : g \in Grants
    BY DEF GInv, TypeOK
  <2>3. \A g \in sealed' : linked[g] # None /\ token'[linked[g]] = "revoked"
    BY <1>1, <1>2, <2>1, <2>2, DistinctAssumption DEF GInv, TablesOK, Onward
  <2>4. QED
    BY <1>1, <1>2, <2>1, <2>3 DEF GInv, TablesOK
<1>8. QED
  BY <1>4, <1>6, <1>7 DEF GInv

\* The calls go, the tables stay.
LEMMA CrashOK ==
    ASSUME GInv, Crash
    PROVE  GInv'
<1>1. UNCHANGED Unread /\ call' = [r \in Calls |-> NoCall]
  BY DEF Crash, Unread, tables, history
<1>2. call' \in [Calls -> CallRecord]
  BY <1>1, FreeSlot
<1>3. CallsOK'
  BY <1>1, FreeSlot DEF CallsOK, Apart
<1>4. QED
  BY <1>1, <1>2, <1>3, Still DEF GInv

-----------------------------------------------------------------------------
\* Nothing is issued, minted or asked.
LEMMA InitGInv == Init => GInv
<1> SUFFICES ASSUME Init PROVE GInv
  OBVIOUS
<1>1. /\ code = [c \in Codes |-> "none"] /\ stale = {} /\ suspended = FALSE
      /\ token = [b \in Bridges |-> "none"] /\ mode = [b \in Bridges |-> Default]
      /\ grant = [g \in Grants |-> "none"] /\ linked = [g \in Grants |-> None]
      /\ call = [r \in Calls |-> NoCall] /\ redeemed = [c \in Codes |-> {}]
      /\ line = [b \in Bridges |-> None] /\ sealed = {}
  BY DEF Init
<1>2. TypeOK
  <2>1. call \in [Calls -> CallRecord]
    BY <1>1, FreeSlot
  <2>2. QED
    BY <1>1, <2>1 DEF TypeOK
<1>3. TablesOK
  BY <1>1 DEF TablesOK
<1>4. CallsOK
  BY <1>1, FreeSlot DEF CallsOK, Apart
<1>5. QED
  BY <1>2, <1>3, <1>4 DEF GInv

\* No step breaks it.
LEMMA NextGInv == GInv /\ [Next]_vars => GInv'
<1> SUFFICES ASSUME GInv, [Next]_vars PROVE GInv'
  OBVIOUS
<1>1. CASE UNCHANGED vars
  <2>1. UNCHANGED Unread /\ call' = call
    BY <1>1 DEF vars, Unread, tables, history
  <2>2. CallsOK'
    BY <2>1, Still, NoneMoves
  <2>3. call' \in [Calls -> CallRecord]
    BY <2>1 DEF GInv, TypeOK
  <2>4. QED
    BY <2>1, <2>2, <2>3, Still DEF GInv
<1>2. ASSUME NEW r \in Calls, HandlerStep(r) PROVE GInv'
  <2>1. CASE PutMode(r) \/ MarkCode(r) \/ KillGrant(r) \/ Rotate(r)
    BY <2>1, PutModeOK, MarkCodeOK, KillGrantOK, RotateOK
  <2>2. CASE ReadCode(r) \/ CodeUser(r) \/ RefreshUser(r) \/ MintSession(r) \/ Answer(r)
    BY <2>2, LooksOK
  <2>3. CASE ReadRefresh(r) \/ ReadBridge(r)
    BY <2>3, ReadRefreshOK, ReadBridgeOK
  <2>4. CASE CopyModes(r) \/ LinkRefresh(r)
    BY <2>4, CopyModesOK, LinkRefreshOK
  <2>5. CASE \E b \in Bridges : MintBridge(r, b)
    BY <2>5, MintBridgeOK
  <2>6. CASE \E g \in Grants : LinkNew(r, g)
    BY <2>6, LinkNewOK
  <2>7. QED
    BY <1>2, <2>1, <2>2, <2>3, <2>4, <2>5, <2>6, Zenon DEF HandlerStep
<1>3. CASE Next
  <2>1. CASE ToggleSuspension \/ \E c \in Codes : Approve(c) \/ CodeExpires(c)
    BY <2>1, AroundOK
  <2>2. CASE \E b \in Bridges : RevokeAgent(b)
    BY <2>2, RevokeAgentOK
  <2>3. CASE \E r \in Calls : \/ \E b \in Bridges, m \in Modes : SetMode(r, b, m)
                              \/ \E c \in Codes : Redeem(r, c)
                              \/ \E g \in Grants : Refresh(r, g)
    BY <2>3, SetModeOK, RedeemOK, RefreshOK
  <2>4. CASE \E r \in Calls : HandlerStep(r)
    BY <1>2, <2>4
  <2>5. CASE \E r \in Calls : Fail(r)
    BY <2>5, LooksOK
  <2>6. CASE Crash
    BY <2>6, CrashOK
  <2>7. QED
    BY <1>3, <2>1, <2>2, <2>3, <2>4, <2>5, <2>6, Zenon DEF Next
<1>4. QED
  BY <1>1, <1>3

\* What the tables and the requests in flight always satisfy.
THEOREM GrantsInvariant == Spec => []GInv
BY InitGInv, NextGInv, PTL DEF Spec

\* The rows and slots have their types; a grant always names a token.
THEOREM GrantsTyped == Spec => []TypeOK
<1>1. GInv => TypeOK
  BY DEF GInv
<1>2. QED
  BY <1>1, GrantsInvariant, PTL

(* A refresh during which no permission was set leaves the agent's mode as   *)
(* it was, whatever else is refreshed at the same time                       *)
(* (src/mcp-oauth.js:290-292).                                               *)
THEOREM DialsAreKept == Spec => []DialsRideAlong
<1>1. GInv => DialsRideAlong
  BY DEF GInv, CallsOK, CallOK, DialsRideAlong, At, Refreshing
<1>2. QED
  BY <1>1, GrantsInvariant, PTL

(* No token is minted for a grant whose agent was revoked while none of its  *)
(* refreshes was in flight (src/mcp-oauth.js:261).                           *)
THEOREM SealedIsDead == Spec => SealedStaysDead
<1> DEFINE Dead == \A b \in Bridges :
                     token[b] = "none" /\ token'[b] = "live" => line'[b] \notin sealed
<1>1. ASSUME GInv, Next PROVE Dead
  <2> SUFFICES ASSUME NEW b \in Bridges, token[b] = "none", token'[b] = "live"
               PROVE  line'[b] \notin sealed
    OBVIOUS
  <2>1. token \in [Bridges -> {"none", "live", "revoked"}]
        /\ line \in [Bridges -> Grants \cup {None}]
    BY <1>1 DEF GInv, TypeOK
  <2>2. CASE \E x \in Bridges : RevokeAgent(x)
    BY <2>1, <2>2 DEF RevokeAgent
  <2>3. CASE \E r \in Calls : Rotate(r)
    BY <2>1, <2>3 DEF Rotate
  <2>4. CASE \E r \in Calls, x \in Bridges : MintBridge(r, x)
    <3>1. PICK r \in Calls, x \in Bridges : MintBridge(r, x)
      BY <2>4
    <3>2. x = b
      BY <2>1, <3>1 DEF MintBridge
    <3>3. line'[b] = call[r].grant
      BY <2>1, <3>1, <3>2 DEF MintBridge
    <3>4. call[r].grant \notin sealed
      BY <1>1, <3>1, Places DEF MintBridge, At, BeforeRevoked
    <3>5. QED
      BY <3>3, <3>4
  <2>5. token' # token
    OBVIOUS
  <2>6. QED
    BY <1>1, <2>2, <2>3, <2>4, <2>5 DEF Next, HandlerStep, Approve, CodeExpires, SetMode,
      Redeem, Refresh, Fail, Crash, ToggleSuspension, PutMode, ReadCode, MarkCode, CodeUser,
      ReadRefresh, RefreshUser, ReadBridge, KillGrant, MintSession, CopyModes, LinkRefresh,
      Answer, LinkNew, tables
<1>2. ASSUME UNCHANGED vars PROVE Dead
  BY <1>2 DEF vars, tables
<1> HIDE DEF Dead
<1>3. GInv /\ [Next]_vars => [Dead]_vars
  BY <1>1, <1>2
<1>4. Spec => [][Dead]_vars
  BY <1>3, GrantsInvariant, PTL DEF Spec
<1>5. QED
  BY <1>4 DEF Dead, SealedStaysDead

=============================================================================
