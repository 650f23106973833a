--------------------------- MODULE AccountsProofs ---------------------------
(***************************************************************************)
(* What goes for accounts whatever the number of users, profiles, links    *)
(* and requests at once.                                                   *)
(*                                                                         *)
(* None of the properties is inductive.  That a session is minted for a    *)
(* proved user rests on the request that mints it, which was granted its   *)
(* user queries ago: ReqOK says what a request still knows when its next   *)
(* query runs.  That a profile leads into one account rests on the unique  *)
(* e-mail addresses: whatever user a profile gets to has the profile's     *)
(* address, until it is deleted (Fits).                                    *)
(***************************************************************************)
EXTENDS MCAccounts, SequenceTheorems, FiniteSetTheorems, TLAPS

\* The queries that a request gets to with a user that is proved.
Late == {"updatePasswordHash", "markEmailVerified", "createSession", "linkIdentity"}

\* The user has the profile's address, or is deleted.
Fits(i, row) == row.gone \/ row.email = ProfileMail[i]

(* What a request knows, true though other requests have run meanwhile: us   *)
(* are the rows of users, pr the users that are proved.                      *)
ReqOK(r, us, pr) ==
    /\ r \in Requests
    /\ r.user <= Len(us)
    /\ r.at \in {"createAuthToken"} \cup Late => r.user # 0
    /\ r.at \in Late => r.user \in pr
    /\ r.at \in {"createUser", "getUserByEmail"} => r.email # None
    /\ r.at \in {"getUserByEmail", "linkIdentity"} => r.profile # None
    /\ r.profile # None => /\ r.email = ProfileMail[r.profile]
                           /\ r.user # 0 => Fits(r.profile, us[r.user])

Requested == \A s \in Slots : ReqOK(req[s], users, proved)

\* Deleted users have no address, the others one each.
UsersOK ==
    /\ \A u \in DOMAIN users : users[u].verified => u \in proved
    /\ \A u \in DOMAIN users : users[u].gone <=> users[u].email = None
    /\ \A u, v \in DOMAIN users :
         users[u].email = users[v].email /\ users[u].email # None => u = v

\* A link still good was never redeemed.
LinksOK ==
    /\ \A l \in DOMAIN links : /\ links[l].user \in DOMAIN users
                               /\ links[l].good => redeemed[l] = 0
    /\ \A l \in LinkIds \ DOMAIN links : redeemed[l] = 0
    /\ LinksRedeemedOnce

ProfilesOK ==
    /\ minted \subseteq proved
    /\ \A i \in Profiles : linked[i] # 0 => linked[i] \in proved /\ Fits(i, users[linked[i]])
    /\ \A i \in Profiles : \A u \in via[i] : Fits(i, users[u])

AInv == AccountsTypeOK /\ Requested /\ UsersOK /\ LinksOK /\ ProfilesOK

-----------------------------------------------------------------------------
(* What all actions leave true of a request.                                 *)

\* There is no way back: ids stay, who is proved stays so, deleted is deleted.
Onward ==
    /\ users' \in Seq(UserRows) /\ Len(users') <= MaxUsers
    /\ Len(users) <= Len(users')
    /\ \A u \in DOMAIN users :
         users'[u].gone \/ (~users[u].gone /\ users'[u].email = users[u].email)
    /\ proved \subseteq proved'

\* The ids of the rows are 1, 2 and so on.
LEMMA Ids ==
    ASSUME NEW S, NEW rows \in Seq(S)
    PROVE  /\ DOMAIN rows = 1 .. Len(rows) /\ Len(rows) \in Nat
           /\ \A n \in DOMAIN rows : rows[n] \in S
<1>1. Len(rows) \in Nat /\ rows \in [1 .. Len(rows) -> S]
  BY LenProperties
<1>2. DOMAIN rows = 1 .. Len(rows)
  BY <1>1
<1>3. QED
  BY <1>1, <1>2

\* What a request knows stays true while the others go on.
LEMMA StillOK ==
    ASSUME users \in Seq(UserRows), Onward, NEW r, ReqOK(r, users, proved)
    PROVE  ReqOK(r, users', proved')
<1>1. r \in Requests /\ r.user \in 0 .. MaxUsers /\ r.user <= Len(users)
  BY DEF ReqOK, Requests
<1>2. Len(users) \in Nat /\ Len(users') \in Nat
  BY Ids DEF Onward
<1>3. r.user \in Nat
  BY <1>1, AccountsAssumption
<1>4. r.user <= Len(users')
  BY <1>1, <1>2, <1>3 DEF Onward
<1>5. r.user # 0 => r.user \in DOMAIN users
  BY <1>1, <1>2, <1>3, Ids
<1>6. \A i : r.user # 0 /\ Fits(i, users[r.user]) => Fits(i, users'[r.user])
  BY <1>5 DEF Fits, Onward
<1>7. QED
  BY <1>1, <1>4, <1>6, Zenon DEF ReqOK, Onward

\* Request s goes on as r; the others are as they were.
LEMMA OneMoves ==
    ASSUME AInv, Onward, NEW s \in Slots, NEW r, ReqOK(r, users', proved'),
           req' = [req EXCEPT ![s] = r]
    PROVE  Requested' /\ req' \in [Slots -> Requests]
<1>1. req \in [Slots -> Requests] /\ users \in Seq(UserRows)
  BY DEF AInv, AccountsTypeOK
<1>2. ASSUME NEW t \in Slots PROVE ReqOK(req'[t], users', proved')
  <2>1. CASE t = s
    BY <1>1, <2>1
  <2>2. CASE t # s
    <3>1. req'[t] = req[t]
      BY <1>1, <2>2
    <3>2. ReqOK(req[t], users, proved)
      BY DEF AInv, Requested
    <3>3. QED
      BY <1>1, <3>1, <3>2, StillOK
  <2>3. QED
    BY <2>1, <2>2
<1>3. r \in Requests
  BY DEF ReqOK
<1>4. QED
  BY <1>1, <1>2, <1>3 DEF Requested

\* No request moves.
LEMMA NoneMoves ==
    ASSUME AInv, Onward, UNCHANGED req
    PROVE  Requested'
<1>1. users \in Seq(UserRows)
  BY DEF AInv, AccountsTypeOK
<1>2. ASSUME NEW t \in Slots PROVE ReqOK(req'[t], users', proved')
  <2>1. ReqOK(req[t], users, proved)
    BY DEF AInv, Requested
  <2>2. QED
    BY <1>1, <2>1, StillOK
<1>3. req' = req
  OBVIOUS
<1>4. QED
  BY <1>2, <1>3 DEF Requested

\* Users are as they were.
LEMMA SameUsers ==
    ASSUME AInv, UNCHANGED users, proved \subseteq proved'
    PROVE  Onward
<1>1. users \in Seq(UserRows) /\ Len(users) <= MaxUsers
  BY DEF AInv, AccountsTypeOK
<1>2. Len(users) \in Nat /\ \A u \in DOMAIN users : users[u] \in UserRows
  BY <1>1, Ids
<1>3. \A u \in DOMAIN users : users[u].gone \in BOOLEAN
  BY <1>2 DEF UserRows
<1>4. QED
  BY <1>1, <1>2, <1>3 DEF Onward

-----------------------------------------------------------------------------
(* The steps of a request, one lemma for each kind.                          *)

\* Nothing yet.
LEMMA InitAInv == AccountsInit => AInv
<1> SUFFICES ASSUME AccountsInit PROVE AInv
  OBVIOUS
<1>1. /\ users = <<>> /\ links = <<>> /\ minted = {} /\ proved = {}
      /\ linked = [i \in Profiles |-> 0] /\ via = [i \in Profiles |-> {}]
      /\ redeemed = [l \in LinkIds |-> 0] /\ req = [s \in Slots |-> NoRequest]
  BY DEF AccountsInit
<1>2. Len(users) = 0 /\ Len(links) = 0 /\ DOMAIN users = {} /\ DOMAIN links = {}
  BY <1>1
<1>3. NoRequest \in Requests
  BY AccountsAssumption DEF NoRequest, Requests, Queries, LinkKinds
<1>4. ReqOK(NoRequest, users, proved)
  BY <1>1, <1>2, <1>3 DEF ReqOK, NoRequest, Late
<1>5. AccountsTypeOK
  BY <1>1, <1>2, <1>3, AccountsAssumption DEF AccountsTypeOK
<1>6. UsersOK /\ LinksOK /\ ProfilesOK
  BY <1>1, <1>2 DEF UsersOK, LinksOK, LinksRedeemedOnce, ProfilesOK
<1>7. QED
  BY <1>1, <1>4, <1>5, <1>6 DEF AInv, Requested

(* A step that changes req alone: left to show is what the request that      *)
(* moved knows now.                                                          *)
LEMMA RequestOnly ==
    ASSUME AInv, NEW s \in Slots, NEW r, ReqOK(r, users, proved),
           req' = [req EXCEPT ![s] = r],
           UNCHANGED <<users, linked, links, minted, proved, redeemed, via>>
    PROVE  AInv'
<1>1. UNCHANGED users /\ UNCHANGED linked /\ UNCHANGED links /\ UNCHANGED minted
      /\ UNCHANGED proved /\ UNCHANGED redeemed /\ UNCHANGED via
  OBVIOUS
<1>2. Requested' /\ req' \in [Slots -> Requests]
  BY <1>1, SameUsers, OneMoves
<1>3. AccountsTypeOK'
  BY <1>1, <1>2 DEF AInv, AccountsTypeOK
<1>4. UsersOK' /\ LinksOK' /\ ProfilesOK'
  BY <1>1 DEF AInv, UsersOK, LinksOK, LinksRedeemedOnce, ProfilesOK
<1>5. QED
  BY <1>2, <1>3, <1>4 DEF AInv

\* A request knows what its fields can hold.
LEMMA Fields ==
    ASSUME AInv, NEW s \in Slots
    PROVE  /\ ReqOK(req[s], users, proved) /\ req[s] \in Requests
           /\ users \in Seq(UserRows) /\ Len(users) \in Nat
           /\ DOMAIN users = 1 .. Len(users)
<1>1. ReqOK(req[s], users, proved)
  BY DEF AInv, Requested
<1>2. users \in Seq(UserRows)
  BY DEF AInv, AccountsTypeOK
<1>3. QED
  BY <1>1, <1>2, Ids DEF ReqOK

\* A slot is free again.
LEMMA NoRequestOK ==
    ASSUME AInv
    PROVE  ReqOK(NoRequest, users, proved)
<1>1. Len(users) \in Nat
  BY Ids DEF AInv, AccountsTypeOK
<1>2. NoRequest \in Requests
  BY AccountsAssumption DEF NoRequest, Requests, Queries, LinkKinds
<1>3. QED
  BY <1>1, <1>2 DEF ReqOK, NoRequest, Late

\* A request as it starts.
Started(a, e, i, u, k) ==
    [at |-> a, email |-> e, profile |-> i, user |-> u, mark |-> FALSE, kind |-> k]

\* It is a request, and has the fields it was given.
LEMMA StartedFields ==
    ASSUME NEW a \in Queries, NEW e \in Emails \cup {None}, NEW i \in Profiles \cup {None},
           NEW u \in 0 .. MaxUsers, NEW k \in LinkKinds,
           NEW r, r = Started(a, e, i, u, k)
    PROVE  /\ r \in Requests
           /\ r.at = a /\ r.email = e /\ r.profile = i /\ r.user = u
BY DEF Started, Requests

\* A registration starts.
LEMMA RegisterAInv ==
    ASSUME AInv, NEW s \in Slots, NEW e \in Emails, Register(s, e)
    PROVE  AInv'
<1>1. PICK r : r = [NoRequest EXCEPT !.at = "createUser", !.email = e]
  OBVIOUS
<1>2. r \in Requests /\ r.at = "createUser" /\ r.user = 0 /\ r.profile = None /\ r.email = e
  <2>1. r = Started("createUser", e, None, 0, "verify_email")
    BY <1>1 DEF Started, NoRequest
  <2>2. "createUser" \in Queries /\ "verify_email" \in LinkKinds /\ 0 \in 0 .. MaxUsers
    BY AccountsAssumption DEF Queries, LinkKinds
  <2>3. QED
    BY <2>1, <2>2, StartedFields
<1>3. Len(users) \in Nat
  BY Fields
<1>4. ReqOK(r, users, proved)
  BY <1>2, <1>3, AccountsAssumption DEF ReqOK, Late
<1>5. QED
  BY <1>1, <1>4, RequestOnly DEF Register

\* A link is asked for.
LEMMA AskLinkAInv ==
    ASSUME AInv, NEW s \in Slots, NEW u \in DOMAIN users, NEW k \in LinkKinds, AskLink(s, u, k)
    PROVE  AInv'
<1>1. PICK r : r = [NoRequest EXCEPT !.at = "createAuthToken", !.user = u, !.kind = k]
  OBVIOUS
<1>2. Len(users) \in Nat /\ u \in 1 .. Len(users) /\ Len(users) <= MaxUsers
  BY Fields DEF AInv, AccountsTypeOK
<1>3. r \in Requests /\ r.at = "createAuthToken" /\ r.user = u /\ r.profile = None
  <2>1. r = Started("createAuthToken", None, None, u, k)
    BY <1>1 DEF Started, NoRequest
  <2>2. "createAuthToken" \in Queries /\ u \in 0 .. MaxUsers
    BY <1>2, AccountsAssumption DEF Queries
  <2>3. QED
    BY <2>1, <2>2, StartedFields
<1>4. ReqOK(r, users, proved)
  BY <1>2, <1>3 DEF ReqOK, Late
<1>5. QED
  BY <1>1, <1>4, RequestOnly DEF AskLink

\* Who may log in is verified, and so is proved.
LEMMA LoginAInv ==
    ASSUME AInv, NEW s \in Slots, NEW u \in DOMAIN users, Login(s, u)
    PROVE  AInv'
<1>1. PICK r : r = [NoRequest EXCEPT !.at = "createSession", !.user = u]
  OBVIOUS
<1>2. Len(users) \in Nat /\ u \in 1 .. Len(users) /\ Len(users) <= MaxUsers
  BY Fields DEF AInv, AccountsTypeOK
<1>3. r \in Requests /\ r.at = "createSession" /\ r.user = u /\ r.profile = None
  <2>1. r = Started("createSession", None, None, u, "verify_email")
    BY <1>1 DEF Started, NoRequest
  <2>2. "createSession" \in Queries /\ "verify_email" \in LinkKinds /\ u \in 0 .. MaxUsers
    BY <1>2, AccountsAssumption DEF Queries, LinkKinds
  <2>3. QED
    BY <2>1, <2>2, StartedFields
<1>4. u \in proved
  BY DEF Login, MayLogIn, AInv, UsersOK
<1>5. ReqOK(r, users, proved)
  BY <1>2, <1>3, <1>4 DEF ReqOK, Late
<1>6. QED
  BY <1>1, <1>5, RequestOnly DEF Login

\* A slot is given up.
LEMMA FailAInv ==
    ASSUME AInv, NEW s \in Slots, Fail(s)
    PROVE  AInv'
<1>1. PICK r : r = NoRequest
  OBVIOUS
<1>2. ReqOK(r, users, proved) /\ req' = [req EXCEPT ![s] = r]
  BY <1>1, NoRequestOK DEF Fail, Over
<1>3. QED
  BY <1>2, RequestOnly DEF Fail

\* A callback: the user that the profile is linked to is proved.
LEMMA CallbackAInv ==
    ASSUME AInv, NEW s \in Slots, NEW i \in Profiles, Callback(s, i)
    PROVE  AInv'
<1>1. /\ Len(users) \in Nat /\ DOMAIN users = 1 .. Len(users) /\ Len(users) <= MaxUsers
      /\ linked[i] \in 0 .. Len(users) /\ ProfileMail[i] \in Emails \cup {None}
  BY Fields, AccountsAssumption DEF AInv, AccountsTypeOK
<1>2. linked[i] \in 0 .. MaxUsers /\ 0 \in 0 .. MaxUsers
  BY <1>1, AccountsAssumption
<1>3. /\ "createSession" \in Queries /\ "getUserByEmail" \in Queries /\ "createUser" \in Queries
      /\ "verify_email" \in LinkKinds /\ i \in Profiles \cup {None}
  BY DEF Queries, LinkKinds
<1>4. CASE /\ linked[i] # 0
           /\ req' = [req EXCEPT ![s] = [ExchangeCode(i) EXCEPT !.at = "createSession",
                                                               !.user = linked[i]]]
  <2>1. PICK r : r = [ExchangeCode(i) EXCEPT !.at = "createSession", !.user = linked[i]]
    OBVIOUS
  <2>2. r = Started("createSession", ProfileMail[i], i, linked[i], "verify_email")
    BY <2>1 DEF Started, ExchangeCode, NoRequest
  <2>3. /\ r \in Requests /\ r.at = "createSession" /\ r.email = ProfileMail[i]
        /\ r.profile = i /\ r.user = linked[i]
    BY <1>1, <1>2, <1>3, <2>2 DEF Started, Requests
  <2>4. linked[i] \in proved /\ Fits(i, users[linked[i]])
    BY <1>4 DEF AInv, ProfilesOK
  <2>5. ReqOK(r, users, proved)
    BY <1>1, <1>4, <2>3, <2>4 DEF ReqOK, Late
  <2>6. QED
    BY <1>4, <2>1, <2>5, RequestOnly DEF Callback
<1>5. CASE /\ linked[i] = 0 /\ ProfileMail[i] # None
           /\ req' = [req EXCEPT ![s] = [ExchangeCode(i) EXCEPT
                        !.at = IF EmailVerified(i) THEN "getUserByEmail" ELSE "createUser"]]
  <2>1. PICK a : a = IF EmailVerified(i) THEN "getUserByEmail" ELSE "createUser"
    OBVIOUS
  <2>2. PICK r : r = [ExchangeCode(i) EXCEPT !.at = a]
    OBVIOUS
  <2>3. r = Started(a, ProfileMail[i], i, 0, "verify_email")
    BY <2>2 DEF Started, ExchangeCode, NoRequest
  <2>4. /\ r \in Requests /\ r.at = a /\ r.email = ProfileMail[i]
        /\ r.profile = i /\ r.user = 0
    <3>1. a \in Queries
      BY <1>3, <2>1
    <3>2. QED
      BY <1>1, <1>2, <1>3, <2>3, <3>1 DEF Started, Requests
  <2>5. a = "getUserByEmail" \/ a = "createUser"
    BY <2>1
  <2>6. ReqOK(r, users, proved)
    BY <1>1, <1>5, <2>4, <2>5, AccountsAssumption DEF ReqOK, Late
  <2>7. QED
    BY <1>5, <2>1, <2>2, <2>6, RequestOnly DEF Callback
<1>6. QED
  BY <1>4, <1>5 DEF Callback

\* The next query of the same request.
LEMMA Advances ==
    ASSUME AInv, NEW s \in Slots, NEW a \in Queries, GoesOn(s, a)
    PROVE  \E r \in Requests :
             /\ req' = [req EXCEPT ![s] = r]
             /\ r.at = a /\ r.user = req[s].user
             /\ r.profile = req[s].profile /\ r.email = req[s].email
<1>1. req[s] \in Requests
  BY Fields
<1>2. PICK r : r = [req[s] EXCEPT !.at = a]
  OBVIOUS
<1>3. /\ r \in Requests /\ r.at = a /\ r.user = req[s].user
      /\ r.profile = req[s].profile /\ r.email = req[s].email
  BY <1>1, <1>2 DEF Requests
<1>4. req' = [req EXCEPT ![s] = r]
  BY <1>2 DEF GoesOn
<1>5. QED
  BY <1>3, <1>4

(* A step that changes users: left to show is what the users are now, and    *)
(* the request that moved.                                                   *)
LEMMA UsersToo ==
    ASSUME AInv, Onward, UsersOK', Requested', req' \in [Slots -> Requests],
           proved' \subseteq DOMAIN users',
           UNCHANGED <<linked, links, minted, redeemed, via>>
    PROVE  AInv'
<1>1. UNCHANGED linked /\ UNCHANGED links /\ UNCHANGED minted
      /\ UNCHANGED redeemed /\ UNCHANGED via
  OBVIOUS
<1>2. /\ users \in Seq(UserRows) /\ users' \in Seq(UserRows)
      /\ Len(users) <= Len(users') /\ Len(users') <= MaxUsers
      /\ proved \subseteq proved'
  BY DEF AInv, AccountsTypeOK, Onward
<1>3. /\ DOMAIN users = 1 .. Len(users) /\ DOMAIN users' = 1 .. Len(users')
      /\ Len(users) \in Nat /\ Len(users') \in Nat
  BY <1>2, Ids
<1>4. DOMAIN users \subseteq DOMAIN users' /\ 0 .. Len(users) \subseteq 0 .. Len(users')
  BY <1>2, <1>3
<1>5. AccountsTypeOK'
  <2>1. linked' \in [Profiles -> 0 .. Len(users')]
    BY <1>1, <1>4 DEF AInv, AccountsTypeOK
  <2>2. via' \in [Profiles -> SUBSET DOMAIN users']
    BY <1>1, <1>4 DEF AInv, AccountsTypeOK
  <2>3. minted' \subseteq DOMAIN users'
    BY <1>1, <1>4 DEF AInv, AccountsTypeOK
  <2>4. QED
    BY <1>1, <1>2, <2>1, <2>2, <2>3 DEF AInv, AccountsTypeOK
<1>6. LinksOK'
  BY <1>1, <1>4 DEF AInv, LinksOK, LinksRedeemedOnce
<1>7. ProfilesOK'
  <2>1. \A i : \A u \in DOMAIN users : Fits(i, users[u]) => Fits(i, users'[u])
    BY DEF Fits, Onward
  <2>2. \A i \in Profiles : linked[i] # 0 => linked[i] \in DOMAIN users
    BY <1>3 DEF AInv, AccountsTypeOK
  <2>3. \A i \in Profiles : via[i] \subseteq DOMAIN users
    BY DEF AInv, AccountsTypeOK
  <2>4. QED
    BY <1>1, <1>2, <2>1, <2>2, <2>3 DEF AInv, ProfilesOK
<1>8. QED
  BY <1>5, <1>6, <1>7 DEF AInv

\* One user is written over, keeping its address unless it is deleted.
LEMMA OneUser ==
    ASSUME AInv, NEW u \in DOMAIN users, NEW row \in UserRows,
           users' = [users EXCEPT ![u] = row], proved \subseteq proved',
           row.verified => u \in proved',
           \/ row.gone = users[u].gone /\ row.email = users[u].email
           \/ row.gone /\ row.email = None
    PROVE  Onward /\ UsersOK' /\ DOMAIN users' = DOMAIN users
<1>1. users \in Seq(UserRows) /\ Len(users) <= MaxUsers
  BY DEF AInv, AccountsTypeOK
<1>2. /\ DOMAIN users = 1 .. Len(users) /\ Len(users) \in Nat
      /\ \A v \in DOMAIN users : users[v] \in UserRows
  BY <1>1, Ids
<1>3. /\ users' \in Seq(UserRows) /\ Len(users') = Len(users)
      /\ users'[u] = row /\ \A v \in DOMAIN users \ {u} : users'[v] = users[v]
  BY <1>1, <1>2, ExceptSeq
<1>4. DOMAIN users' = DOMAIN users
  BY <1>2, <1>3, Ids
<1>5. \A v \in DOMAIN users : users[v].gone \in BOOLEAN
  BY <1>2 DEF UserRows
<1>6. Onward
  BY <1>1, <1>2, <1>3, <1>5 DEF Onward
<1>7. UsersOK'
  <2>1. \A v \in DOMAIN users' : users'[v].verified => v \in proved'
    BY <1>3, <1>4 DEF AInv, UsersOK
  <2>2. \A v \in DOMAIN users' : users'[v].gone <=> users'[v].email = None
    BY <1>3, <1>4 DEF AInv, UsersOK
  <2>3. \A v, w \in DOMAIN users' :
          users'[v].email = users'[w].email /\ users'[v].email # None => v = w
    BY <1>3, <1>4 DEF AInv, UsersOK
  <2>4. QED
    BY <2>1, <2>2, <2>3 DEF UsersOK
<1>8. QED
  BY <1>4, <1>6, <1>7

-----------------------------------------------------------------------------
(* The steps that write users.                                               *)

\* The address is free, so the new user is the only one that has it.
LEMMA CreateUserAInv ==
    ASSUME AInv, NEW s \in Slots, CreateUser(s)
    PROVE  AInv'
<1> DEFINE i == req[s].profile
           m == req[s].email
           u == Len(users) + 1
           row == [email |-> m, password |-> i = None,
                   verified |-> EmailVerified(i), gone |-> FALSE]
<1>1. /\ At(s, "createUser") /\ Len(users) < MaxUsers /\ MailFree(m)
      /\ users' = Append(users, row)
      /\ proved' = IF i = None THEN proved ELSE proved \cup {u}
      /\ UNCHANGED <<linked, links, minted, redeemed, via>>
  BY DEF CreateUser
<1>2. /\ ReqOK(req[s], users, proved) /\ req[s] \in Requests /\ users \in Seq(UserRows)
      /\ Len(users) \in Nat /\ DOMAIN users = 1 .. Len(users)
  BY Fields
<1>3. m \in Emails
  BY <1>1, <1>2 DEF ReqOK, Requests, At
<1>4. i # None => i \in Profiles /\ m = ProfileMail[i]
  BY <1>2 DEF ReqOK, Requests
<1>5. row \in UserRows /\ row.email = m /\ row.gone = FALSE /\ row.verified = EmailVerified(i)
  BY <1>3 DEF UserRows, EmailVerified
<1> HIDE DEF row
<1>6. /\ users' \in Seq(UserRows) /\ Len(users') = u /\ users'[u] = row
      /\ \A v \in DOMAIN users : users'[v] = users[v]
  BY <1>1, <1>2, <1>5, AppendProperties
<1>7. DOMAIN users' = DOMAIN users \cup {u} /\ u \notin DOMAIN users /\ u # 0
  <2>1. DOMAIN users' = 1 .. Len(users')
    BY <1>6, Ids
  <2>2. QED
    BY <1>2, <1>6, <2>1
<1>8. \A v \in DOMAIN users : users[v].gone \in BOOLEAN
  <2>1. \A v \in DOMAIN users : users[v] \in UserRows
    BY <1>2, Ids
  <2>2. QED
    BY <2>1 DEF UserRows
<1>9. proved \subseteq proved' /\ proved' \subseteq DOMAIN users'
  BY <1>1, <1>7 DEF AInv, AccountsTypeOK
<1>10. Onward
  BY <1>1, <1>2, <1>6, <1>8, <1>9, AccountsAssumption DEF Onward
<1>11. UsersOK'
  <2>1. row.verified => u \in proved'
    BY <1>1, <1>5, AccountsAssumption DEF EmailVerified
  <2>2. \A v \in DOMAIN users' : users'[v].verified => v \in proved'
    BY <1>6, <1>7, <1>9, <2>1 DEF AInv, UsersOK
  <2>3. m # None
    BY <1>3, AccountsAssumption
  <2>4. \A v \in DOMAIN users' : users'[v].gone <=> users'[v].email = None
    BY <1>5, <1>6, <1>7, <2>3 DEF AInv, UsersOK
  <2>5. \A v \in DOMAIN users : users[v].email # m
    BY <1>1 DEF MailFree, ByEmail
  <2>6. \A v, w \in DOMAIN users' :
          users'[v].email = users'[w].email /\ users'[v].email # None => v = w
    BY <1>5, <1>6, <1>7, <2>5 DEF AInv, UsersOK
  <2>7. QED
    BY <2>2, <2>4, <2>6 DEF UsersOK
<1>12. PICK a : a = IF i = None THEN "createAuthToken" ELSE "linkIdentity"
  OBVIOUS
<1>13. PICK r : r = [req[s] EXCEPT !.user = u, !.at = a]
  OBVIOUS
<1>14. req' = [req EXCEPT ![s] = r]
  BY <1>12, <1>13 DEF CreateUser
<1>15. /\ r \in Requests /\ r.at = a /\ r.user = u /\ r.profile = i /\ r.email = m
  <2>1. a \in Queries
    BY <1>12 DEF Queries
  <2>2. u \in 0 .. MaxUsers
    BY <1>1, <1>2, AccountsAssumption
  <2>3. QED
    BY <1>2, <1>13, <2>1, <2>2 DEF Requests
<1>16. ReqOK(r, users', proved')
  <2>1. i # None => u \in proved' /\ Fits(i, users'[u])
    BY <1>1, <1>4, <1>5, <1>6 DEF Fits
  <2>2. Len(users') = u /\ u <= Len(users')
    BY <1>2, <1>6
  <2>3. CASE i = None
    <3>1. a = "createAuthToken"
      BY <1>12, <2>3
    <3>2. QED
      BY <1>7, <1>15, <2>2, <2>3, <3>1 DEF ReqOK, Late
  <2>4. CASE i # None
    <3>1. a = "linkIdentity"
      BY <1>12, <2>4
    <3>2. QED
      BY <1>4, <1>7, <1>15, <2>1, <2>2, <2>4, <3>1 DEF ReqOK, Late
  <2>5. QED
    BY <2>3, <2>4
<1>17. Requested' /\ req' \in [Slots -> Requests]
  BY <1>10, <1>14, <1>16, OneMoves
<1>18. QED
  BY <1>1, <1>9, <1>10, <1>11, <1>17, UsersToo

\* A column of the request's own user is written; the request goes on.
LEMMA WriteAInv ==
    ASSUME AInv, NEW s \in Slots, NEW row \in UserRows, NEW a \in Queries,
           req[s].at \in Late, a \in Late, a # "linkIdentity",
           row.gone = users[req[s].user].gone, row.email = users[req[s].user].email,
           users' = [users EXCEPT ![req[s].user] = row], GoesOn(s, a),
           UNCHANGED <<linked, links, minted, proved, redeemed, via>>
    PROVE  AInv'
<1>1. /\ ReqOK(req[s], users, proved) /\ req[s] \in Requests /\ users \in Seq(UserRows)
  BY Fields
<1>2. req[s].user \in proved /\ proved \subseteq DOMAIN users /\ proved' = proved
  BY <1>1 DEF ReqOK, AInv, AccountsTypeOK
<1>3. Onward /\ UsersOK' /\ DOMAIN users' = DOMAIN users
  BY <1>2, OneUser
<1>4. PICK r \in Requests : /\ req' = [req EXCEPT ![s] = r]
                            /\ r.at = a /\ r.user = req[s].user
                            /\ r.profile = req[s].profile /\ r.email = req[s].email
  BY Advances
<1>5. ReqOK(req[s], users', proved')
  BY <1>1, <1>3, StillOK
<1>6. ReqOK(r, users', proved')
  BY <1>2, <1>4, <1>5, Zenon DEF ReqOK, Late
<1>7. Requested' /\ req' \in [Slots -> Requests]
  BY <1>3, <1>4, <1>6, OneMoves
<1>8. QED
  BY <1>2, <1>3, <1>7, UsersToo

\* The new hash.
LEMMA UpdatePasswordHashAInv ==
    ASSUME AInv, NEW s \in Slots, UpdatePasswordHash(s)
    PROVE  AInv'
<1>1. /\ ReqOK(req[s], users, proved) /\ users \in Seq(UserRows)
      /\ req[s].at = "updatePasswordHash" /\ req[s].at \in Late
  BY Fields DEF UpdatePasswordHash, At, Late
<1>2. req[s].user \in DOMAIN users
  BY <1>1 DEF ReqOK, AInv, AccountsTypeOK
<1>3. users[req[s].user] \in UserRows
  BY <1>1, <1>2, Ids
<1>4. PICK row : row = [users[req[s].user] EXCEPT !.password = TRUE]
  OBVIOUS
<1>5. /\ row \in UserRows /\ row.gone = users[req[s].user].gone
      /\ row.email = users[req[s].user].email
  BY <1>3, <1>4 DEF UserRows
<1>6. users' = [users EXCEPT ![req[s].user] = row]
  BY <1>4 DEF UpdatePasswordHash
<1>7. /\ "markEmailVerified" \in Queries /\ "markEmailVerified" \in Late
      /\ "markEmailVerified" # "linkIdentity"
  BY DEF Queries, Late
<1>8. QED
  BY <1>1, <1>5, <1>6, <1>7, WriteAInv DEF UpdatePasswordHash

\* The user is proved already.
LEMMA MarkEmailVerifiedAInv ==
    ASSUME AInv, NEW s \in Slots, MarkEmailVerified(s)
    PROVE  AInv'
<1>1. /\ ReqOK(req[s], users, proved) /\ users \in Seq(UserRows)
      /\ req[s].at = "markEmailVerified" /\ req[s].at \in Late
  BY Fields DEF MarkEmailVerified, At, Late
<1>2. req[s].user \in DOMAIN users
  BY <1>1 DEF ReqOK, AInv, AccountsTypeOK
<1>3. users[req[s].user] \in UserRows
  BY <1>1, <1>2, Ids
<1>4. PICK row : row = [users[req[s].user] EXCEPT !.verified = TRUE]
  OBVIOUS
<1>5. /\ row \in UserRows /\ row.gone = users[req[s].user].gone
      /\ row.email = users[req[s].user].email
  BY <1>3, <1>4 DEF UserRows
<1>6. users' = [users EXCEPT ![req[s].user] = row]
  BY <1>4 DEF MarkEmailVerified
<1>7. "createSession" \in Queries /\ "createSession" \in Late /\ "createSession" # "linkIdentity"
  BY DEF Queries, Late
<1>8. QED
  BY <1>1, <1>5, <1>6, <1>7, WriteAInv DEF MarkEmailVerified

\* The row, the links and the profile's row go; requests under way do not.
LEMMA DeleteAccountAInv ==
    ASSUME AInv, NEW u \in DOMAIN users, DeleteAccount(u)
    PROVE  AInv'
<1>1. /\ users \in Seq(UserRows) /\ links \in Seq(LinkRows) /\ Len(links) <= MaxLinks
      /\ linked \in [Profiles -> 0 .. Len(users)]
      /\ UNCHANGED req /\ UNCHANGED minted /\ UNCHANGED proved
      /\ UNCHANGED redeemed /\ UNCHANGED via
  BY DEF AInv, AccountsTypeOK, DeleteAccount
<1>2. PICK row : row = [email |-> None, password |-> FALSE, verified |-> FALSE, gone |-> TRUE]
  OBVIOUS
<1>3. row \in UserRows /\ row.email = None /\ row.gone /\ ~row.verified
  BY <1>2 DEF UserRows
<1>4. users' = [users EXCEPT ![u] = row]
  BY <1>2 DEF DeleteAccount
<1>5. Onward /\ UsersOK' /\ DOMAIN users' = DOMAIN users
  BY <1>1, <1>3, <1>4, OneUser
<1>6. Len(users') = Len(users)
  BY <1>1, <1>5, Ids DEF Onward
<1>7. Requested'
  BY <1>1, <1>5, NoneMoves
<1>8. /\ \A l \in DOMAIN links : links[l] \in LinkRows /\ links[l].good \in BOOLEAN
      /\ DOMAIN links = 1 .. Len(links) /\ Len(links) \in Nat
  <2>1. /\ \A l \in DOMAIN links : links[l] \in LinkRows
        /\ DOMAIN links = 1 .. Len(links) /\ Len(links) \in Nat
    BY <1>1, Ids
  <2>2. QED
    BY <2>1 DEF LinkRows
<1>9. /\ DOMAIN links' = DOMAIN links
      /\ \A l \in DOMAIN links : /\ links'[l] \in LinkRows /\ links'[l].user = links[l].user
                                 /\ links'[l].good => links[l].good
  <2>1. links' = [l \in DOMAIN links |-> IF links[l].user = u
                                        THEN [links[l] EXCEPT !.good = FALSE] ELSE links[l]]
    BY DEF DeleteAccount
  <2>2. \A l \in DOMAIN links :
          /\ [links[l] EXCEPT !.good = FALSE] \in LinkRows
          /\ [links[l] EXCEPT !.good = FALSE].user = links[l].user
          /\ ~[links[l] EXCEPT !.good = FALSE].good
    BY <1>8 DEF LinkRows
  <2>3. QED
    BY <1>8, <2>1, <2>2
<1>10. links' \in Seq(LinkRows) /\ Len(links') = Len(links)
  <2>1. links' = [l \in 1 .. Len(links) |-> links'[l]]
    BY <1>8 DEF DeleteAccount
  <2>2. QED
    BY <1>8, <1>9, <2>1
<1>11. LinksOK'
  BY <1>1, <1>5, <1>9 DEF AInv, LinksOK, LinksRedeemedOnce
<1>12. /\ linked' \in [Profiles -> 0 .. Len(users)]
       /\ \A i \in Profiles : linked'[i] # 0 => linked'[i] = linked[i]
  <2>1. linked' = [i \in Profiles |-> IF linked[i] = u THEN 0 ELSE linked[i]]
    BY DEF DeleteAccount
  <2>2. Len(users) \in Nat
    BY <1>1, Ids
  <2>3. QED
    BY <1>1, <2>1, <2>2
<1>13. AccountsTypeOK'
  BY <1>1, <1>5, <1>6, <1>7, <1>10, <1>12 DEF AInv, AccountsTypeOK, Onward
<1>14. ProfilesOK'
  <2>1. \A i : \A v \in DOMAIN users : Fits(i, users[v]) => Fits(i, users'[v])
    BY <1>5 DEF Fits, Onward
  <2>2. \A i \in Profiles : linked'[i] # 0 => linked'[i] \in DOMAIN users
    BY <1>12 DEF AInv, ProfilesOK, AccountsTypeOK
  <2>3. \A i \in Profiles : via[i] \subseteq DOMAIN users
    BY DEF AInv, AccountsTypeOK
  <2>4. QED
    BY <1>1, <1>12, <2>1, <2>2, <2>3 DEF AInv, ProfilesOK
<1>15. QED
  BY <1>5, <1>7, <1>11, <1>13, <1>14 DEF AInv

-----------------------------------------------------------------------------
(* The steps that write the other tables.                                    *)

\* One link is no longer good.
LEMMA OneLink ==
    ASSUME AInv, NEW l \in DOMAIN links, NEW row, row = [links[l] EXCEPT !.good = FALSE],
           links' = [links EXCEPT ![l] = row]
    PROVE  /\ links' \in Seq(LinkRows) /\ Len(links') = Len(links)
           /\ DOMAIN links' = DOMAIN links
           /\ \A m \in DOMAIN links : /\ links'[m].user = links[m].user
                                      /\ m # l => links'[m] = links[m]
           /\ ~links'[l].good
<1>1. links \in Seq(LinkRows)
  BY DEF AInv, AccountsTypeOK
<1>2. /\ DOMAIN links = 1 .. Len(links) /\ Len(links) \in Nat
      /\ \A m \in DOMAIN links : links[m] \in LinkRows
  BY <1>1, Ids
<1>3. row \in LinkRows /\ row.user = links[l].user /\ ~row.good
  BY <1>2 DEF LinkRows
<1>4. /\ links' \in Seq(LinkRows) /\ Len(links') = Len(links)
      /\ links'[l] = row /\ \A m \in DOMAIN links \ {l} : links'[m] = links[m]
  BY <1>1, <1>2, <1>3, ExceptSeq
<1>5. DOMAIN links' = DOMAIN links
  BY <1>2, <1>4, Ids
<1>6. QED
  BY <1>2, <1>3, <1>4, <1>5

\* A link expires.
LEMMA LinkExpiresAInv ==
    ASSUME AInv, NEW l \in DOMAIN links, LinkExpires(l)
    PROVE  AInv'
<1>1. /\ UNCHANGED users /\ UNCHANGED linked /\ UNCHANGED req /\ UNCHANGED minted
      /\ UNCHANGED proved /\ UNCHANGED redeemed /\ UNCHANGED via
      /\ links' = [links EXCEPT ![l].good = FALSE]
  BY DEF LinkExpires
<1>2. /\ links' \in Seq(LinkRows) /\ Len(links') = Len(links)
      /\ DOMAIN links' = DOMAIN links
      /\ \A m \in DOMAIN links : /\ links'[m].user = links[m].user
                                 /\ m # l => links'[m] = links[m]
      /\ ~links'[l].good
  <2>1. PICK row : row = [links[l] EXCEPT !.good = FALSE]
    OBVIOUS
  <2>2. links' = [links EXCEPT ![l] = row]
    BY <1>1, <2>1
  <2>3. QED
    BY <2>1, <2>2, OneLink
<1>3. LinksOK'
  BY <1>1, <1>2 DEF AInv, LinksOK, LinksRedeemedOnce
<1>4. AccountsTypeOK'
  BY <1>1, <1>2 DEF AInv, AccountsTypeOK
<1>5. Requested' /\ UsersOK' /\ ProfilesOK'
  BY <1>1, Zenon DEF AInv, Requested, UsersOK, ProfilesOK
<1>6. QED
  BY <1>3, <1>4, <1>5 DEF AInv

\* The link is good, so this is the first time.
LEMMA RedeemAInv ==
    ASSUME AInv, NEW s \in Slots, NEW l \in DOMAIN links, Redeem(s, l)
    PROVE  AInv'
<1>1. /\ UNCHANGED users /\ UNCHANGED linked /\ UNCHANGED minted /\ UNCHANGED via
      /\ links' = [links EXCEPT ![l].good = FALSE]
      /\ redeemed' = [redeemed EXCEPT ![l] = @ + 1]
      /\ proved' = proved \cup {links[l].user}
      /\ links[l].good
  BY DEF Redeem, Redeemable
<1>2. /\ links' \in Seq(LinkRows) /\ Len(links') = Len(links)
      /\ DOMAIN links' = DOMAIN links
      /\ \A m \in DOMAIN links : /\ links'[m].user = links[m].user
                                 /\ m # l => links'[m] = links[m]
      /\ ~links'[l].good
  <2>1. PICK row : row = [links[l] EXCEPT !.good = FALSE]
    OBVIOUS
  <2>2. links' = [links EXCEPT ![l] = row]
    BY <1>1, <2>1
  <2>3. QED
    BY <2>1, <2>2, OneLink
<1>3. /\ links \in Seq(LinkRows) /\ Len(links) <= MaxLinks
      /\ users \in Seq(UserRows) /\ redeemed \in [LinkIds -> Nat]
  BY DEF AInv, AccountsTypeOK
<1>4. /\ DOMAIN links = 1 .. Len(links) /\ Len(links) \in Nat
      /\ DOMAIN users = 1 .. Len(users) /\ Len(users) \in Nat
      /\ links[l] \in LinkRows
  BY <1>3, Ids
<1>5. l \in LinkIds /\ links[l].user \in DOMAIN users
  BY <1>3, <1>4, AccountsAssumption DEF AInv, LinksOK, LinkIds
<1>6. redeemed[l] = 0
  BY <1>1 DEF AInv, LinksOK
<1>7. /\ redeemed' \in [LinkIds -> Nat] /\ redeemed'[l] = 1
      /\ \A m \in LinkIds : m # l => redeemed'[m] = redeemed[m]
  BY <1>1, <1>3, <1>5, <1>6
<1>8. LinksOK'
  <2>1. \A m \in DOMAIN links' : /\ links'[m].user \in DOMAIN users'
                                 /\ links'[m].good => redeemed'[m] = 0
    <3>1. DOMAIN links \subseteq LinkIds
      BY <1>3, <1>4, AccountsAssumption DEF LinkIds
    <3>2. QED
      BY <1>1, <1>2, <1>7, <3>1 DEF AInv, LinksOK
  <2>2. \A m \in LinkIds \ DOMAIN links' : redeemed'[m] = 0
    BY <1>2, <1>7 DEF AInv, LinksOK
  <2>3. LinksRedeemedOnce'
    BY <1>7 DEF AInv, LinksOK, LinksRedeemedOnce
  <2>4. QED
    BY <2>1, <2>2, <2>3 DEF LinksOK
<1>9. Onward
  BY <1>1, SameUsers
<1>10. PICK a : a = IF links[l].kind = "verify_email" THEN "markEmailVerified"
                    ELSE "updatePasswordHash"
  OBVIOUS
<1>11. a \in Queries /\ a \in Late /\ a # "linkIdentity"
  BY <1>10 DEF Queries, Late
<1>12. PICK r : r = [NoRequest EXCEPT !.user = links[l].user, !.at = a]
  OBVIOUS
<1>13. r \in Requests /\ r.at = a /\ r.user = links[l].user /\ r.profile = None
  <2>1. r = Started(a, None, None, links[l].user, "verify_email")
    BY <1>12 DEF Started, NoRequest
  <2>2. links[l].user \in 0 .. MaxUsers /\ "verify_email" \in LinkKinds
    BY <1>4, AccountsAssumption DEF LinkRows, UserIds, LinkKinds
  <2>3. QED
    BY <1>11, <2>1, <2>2 DEF Started, Requests
<1>14. req' = [req EXCEPT ![s] = r]
  BY <1>10, <1>12 DEF Redeem
<1>15. ReqOK(r, users', proved')
  <2>1. links[l].user <= Len(users) /\ links[l].user # 0
    BY <1>4, <1>5
  <2>2. QED
    BY <1>1, <1>11, <1>13, <2>1 DEF ReqOK, Late
<1>16. Requested' /\ req' \in [Slots -> Requests]
  BY <1>9, <1>14, <1>15, OneMoves
<1>17. AccountsTypeOK'
  BY <1>1, <1>2, <1>5, <1>7, <1>16 DEF AInv, AccountsTypeOK
<1>18. UsersOK' /\ ProfilesOK'
  BY <1>1, Zenon DEF AInv, UsersOK, ProfilesOK
<1>19. QED
  BY <1>8, <1>16, <1>17, <1>18 DEF AInv

\* A new link was never redeemed.
LEMMA CreateLinkAInv ==
    ASSUME AInv, NEW s \in Slots, CreateLink(s)
    PROVE  AInv'
<1>1. /\ UNCHANGED users /\ UNCHANGED linked /\ UNCHANGED minted
      /\ UNCHANGED proved /\ UNCHANGED redeemed /\ UNCHANGED via
      /\ Len(links) < MaxLinks /\ At(s, "createAuthToken")
  BY DEF CreateLink
<1>2. PICK row : row = [user |-> req[s].user, kind |-> req[s].kind, good |-> TRUE]
  OBVIOUS
<1>3. links' = Append(links, row)
  BY <1>2 DEF CreateLink
<1>4. /\ ReqOK(req[s], users, proved) /\ req[s] \in Requests
      /\ Len(users) \in Nat /\ DOMAIN users = 1 .. Len(users)
  BY Fields
<1>5. req[s].user \in UserIds /\ req[s].user \in DOMAIN users /\ req[s].kind \in LinkKinds
  BY <1>1, <1>4, AccountsAssumption DEF ReqOK, Requests, UserIds, At
<1>6. row \in LinkRows /\ row.user = req[s].user
  BY <1>2, <1>5 DEF LinkRows
<1>7. links \in Seq(LinkRows) /\ redeemed \in [LinkIds -> Nat]
  BY DEF AInv, AccountsTypeOK
<1>8. /\ links' \in Seq(LinkRows) /\ Len(links') = Len(links) + 1
      /\ links'[Len(links) + 1] = row
      /\ \A l \in 1 .. Len(links) : links'[l] = links[l]
  BY <1>3, <1>6, <1>7, AppendProperties
<1>9. /\ DOMAIN links = 1 .. Len(links) /\ Len(links) \in Nat
      /\ DOMAIN links' = 1 .. (Len(links) + 1)
  BY <1>7, <1>8, Ids
<1>10. redeemed[Len(links) + 1] = 0
  <2>1. Len(links) + 1 \in LinkIds \ DOMAIN links
    BY <1>1, <1>9, AccountsAssumption DEF LinkIds
  <2>2. QED
    BY <2>1 DEF AInv, LinksOK
<1>11. LinksOK'
  <2>1. \A m \in DOMAIN links' : m \in DOMAIN links \/ m = Len(links) + 1
    BY <1>9
  <2>2. DOMAIN links \subseteq DOMAIN links'
    BY <1>9
  <2>3. \A m \in DOMAIN links' : /\ links'[m].user \in DOMAIN users'
                                 /\ links'[m].good => redeemed'[m] = 0
    BY <1>1, <1>5, <1>6, <1>8, <1>9, <1>10, <2>1 DEF AInv, LinksOK
  <2>4. QED
    BY <1>1, <2>2, <2>3 DEF AInv, LinksOK, LinksRedeemedOnce
<1>12. Onward
  BY <1>1, SameUsers
<1>13. PICK r : r = NoRequest
  OBVIOUS
<1>14. req' = [req EXCEPT ![s] = r] /\ ReqOK(r, users', proved')
  BY <1>1, <1>13, NoRequestOK DEF CreateLink, Over
<1>15. Requested' /\ req' \in [Slots -> Requests]
  BY <1>12, <1>14, OneMoves
<1>16. AccountsTypeOK'
  <2>1. Len(links') <= MaxLinks
    BY <1>1, <1>8, <1>9, AccountsAssumption
  <2>2. QED
    BY <1>1, <1>8, <1>15, <2>1 DEF AInv, AccountsTypeOK
<1>17. UsersOK' /\ ProfilesOK'
  BY <1>1, Zenon DEF AInv, UsersOK, ProfilesOK
<1>18. QED
  BY <1>11, <1>15, <1>16, <1>17 DEF AInv

\* The provider has vouched for the address by which the user is found.
LEMMA FindByEmailAInv ==
    ASSUME AInv, NEW s \in Slots, FindByEmail(s)
    PROVE  AInv'
<1>1. /\ UNCHANGED users /\ UNCHANGED linked /\ UNCHANGED links /\ UNCHANGED minted
      /\ UNCHANGED redeemed /\ UNCHANGED via /\ At(s, "getUserByEmail")
  BY DEF FindByEmail
<1>2. /\ ReqOK(req[s], users, proved) /\ req[s] \in Requests
      /\ Len(users) \in Nat /\ DOMAIN users = 1 .. Len(users)
  BY Fields
<1>3. /\ req[s].email # None /\ req[s].profile # None
      /\ req[s].email = ProfileMail[req[s].profile]
  BY <1>1, <1>2 DEF ReqOK, At
<1>4. CASE GoesOn(s, "createUser") /\ UNCHANGED proved
  <2>1. PICK r \in Requests : /\ req' = [req EXCEPT ![s] = r]
                              /\ r.at = "createUser" /\ r.user = req[s].user
                              /\ r.profile = req[s].profile /\ r.email = req[s].email
    BY <1>4, Advances DEF Queries
  <2>2. ReqOK(r, users, proved)
    BY <1>2, <1>3, <2>1 DEF ReqOK, Late
  <2>3. QED
    BY <1>1, <1>4, <2>1, <2>2, RequestOnly
<1>5. ASSUME NEW u \in ByEmail(req[s].email),
             req' = [req EXCEPT ![s].at = "linkIdentity", ![s].user = u,
                                ![s].mark = ~users[u].verified],
             proved' = proved \cup {u}
      PROVE  AInv'
  <2>1. u \in DOMAIN users /\ users[u].email = req[s].email
    BY DEF ByEmail
  <2>2. Onward
    BY <1>1, <1>5, SameUsers
  <2>3. PICK r : r = [req[s] EXCEPT !.at = "linkIdentity", !.user = u,
                                    !.mark = ~users[u].verified]
    OBVIOUS
  <2>4. req' = [req EXCEPT ![s] = r]
    BY <1>5, <2>3
  <2>5. u \in 0 .. MaxUsers /\ u # 0 /\ u <= Len(users)
    BY <1>2, <2>1, AccountsAssumption DEF AInv, AccountsTypeOK
  <2>6. r \in Requests /\ r.at = "linkIdentity" /\ r.user = u
        /\ r.profile = req[s].profile /\ r.email = req[s].email
    BY <1>2, <2>3, <2>5 DEF Requests, Queries
  <2>7. ReqOK(r, users', proved')
    BY <1>1, <1>3, <1>5, <2>1, <2>5, <2>6 DEF ReqOK, Late, Fits
  <2>8. Requested' /\ req' \in [Slots -> Requests]
    BY <2>2, <2>4, <2>7, OneMoves
  <2>9. AccountsTypeOK'
    BY <1>1, <1>5, <2>1, <2>8 DEF AInv, AccountsTypeOK
  <2>10. UsersOK' /\ LinksOK' /\ ProfilesOK'
    BY <1>1, <1>5 DEF AInv, UsersOK, LinksOK, LinksRedeemedOnce, ProfilesOK
  <2>11. QED
    BY <2>8, <2>9, <2>10 DEF AInv
<1>6. QED
  BY <1>4, <1>5 DEF FindByEmail

\* Whose request gets to link the profile has the profile's address.
LEMMA LinkIdentityAInv ==
    ASSUME AInv, NEW s \in Slots, LinkIdentity(s)
    PROVE  AInv'
<1>1. /\ UNCHANGED users /\ UNCHANGED links /\ UNCHANGED minted /\ UNCHANGED proved
      /\ UNCHANGED redeemed /\ UNCHANGED via /\ At(s, "linkIdentity")
  BY DEF LinkIdentity
<1>2. /\ ReqOK(req[s], users, proved) /\ req[s] \in Requests
      /\ Len(users) \in Nat /\ DOMAIN users = 1 .. Len(users)
  BY Fields
<1>3. /\ req[s].profile \in Profiles /\ req[s].email = ProfileMail[req[s].profile]
      /\ req[s].user \in proved /\ req[s].user # 0 /\ req[s].user <= Len(users)
      /\ Fits(req[s].profile, users[req[s].user])
  BY <1>1, <1>2 DEF ReqOK, Requests, At, Late
<1>4. req[s].user \in 0 .. Len(users) /\ linked \in [Profiles -> 0 .. Len(users)]
  BY <1>2, <1>3 DEF AInv, AccountsTypeOK
<1>5. /\ linked' \in [Profiles -> 0 .. Len(users)]
      /\ \A i \in Profiles : \/ linked'[i] = linked[i]
                             \/ i = req[s].profile /\ linked'[i] = req[s].user
  BY <1>3, <1>4 DEF LinkIdentity
<1>6. PICK a : a = IF req[s].mark THEN "markEmailVerified" ELSE "createSession"
  OBVIOUS
<1>7. a \in Queries /\ a \in Late /\ a # "linkIdentity"
  BY <1>6 DEF Queries, Late
<1>8. GoesOn(s, a)
  BY <1>6 DEF LinkIdentity
<1>9. PICK r \in Requests : /\ req' = [req EXCEPT ![s] = r]
                            /\ r.at = a /\ r.user = req[s].user
                            /\ r.profile = req[s].profile /\ r.email = req[s].email
  BY <1>7, <1>8, Advances
<1>10. ReqOK(r, users', proved')
  BY <1>1, <1>2, <1>3, <1>7, <1>9 DEF ReqOK, Late
<1>11. Requested' /\ req' \in [Slots -> Requests]
  BY <1>1, <1>9, <1>10, SameUsers, OneMoves
<1>12. ProfilesOK'
  BY <1>1, <1>3, <1>5 DEF AInv, ProfilesOK
<1>13. AccountsTypeOK'
  BY <1>1, <1>5, <1>11 DEF AInv, AccountsTypeOK
<1>14. UsersOK' /\ LinksOK'
  BY <1>1 DEF AInv, UsersOK, LinksOK, LinksRedeemedOnce
<1>15. QED
  BY <1>11, <1>12, <1>13, <1>14 DEF AInv

\* The user of the session is proved, and fits the profile if there is one.
LEMMA CreateSessionAInv ==
    ASSUME AInv, NEW s \in Slots, CreateSession(s)
    PROVE  AInv'
<1>1. /\ UNCHANGED users /\ UNCHANGED linked /\ UNCHANGED links /\ UNCHANGED proved
      /\ UNCHANGED redeemed /\ minted' = minted \cup {req[s].user} /\ At(s, "createSession")
  BY DEF CreateSession
<1>2. /\ ReqOK(req[s], users, proved) /\ req[s] \in Requests
      /\ Len(users) \in Nat /\ DOMAIN users = 1 .. Len(users)
  BY Fields
<1>3. req[s].user \in proved /\ req[s].user # 0 /\ req[s].user \in DOMAIN users
  BY <1>1, <1>2 DEF ReqOK, At, Late, AInv, AccountsTypeOK
<1>4. req[s].profile # None => /\ req[s].profile \in Profiles
                               /\ Fits(req[s].profile, users[req[s].user])
  BY <1>2, <1>3 DEF ReqOK, Requests
<1>5. via \in [Profiles -> SUBSET DOMAIN users]
  BY DEF AInv, AccountsTypeOK
<1>6. /\ via' \in [Profiles -> SUBSET DOMAIN users]
      /\ \A i \in Profiles : \A u \in via'[i] :
           u \in via[i] \/ (u = req[s].user /\ i = req[s].profile /\ i # None)
  <2>1. CASE req[s].profile = None
    BY <1>5, <2>1 DEF CreateSession
  <2>2. CASE req[s].profile # None
    <3>1. via' = [via EXCEPT ![req[s].profile] = @ \cup {req[s].user}]
      BY <2>2 DEF CreateSession
    <3>2. QED
      BY <1>3, <1>4, <1>5, <2>2, <3>1
  <2>3. QED
    BY <2>1, <2>2
<1>7. ProfilesOK'
  BY <1>1, <1>3, <1>4, <1>6 DEF AInv, ProfilesOK
<1>8. PICK r : r = NoRequest
  OBVIOUS
<1>9. req' = [req EXCEPT ![s] = r] /\ ReqOK(r, users', proved')
  BY <1>1, <1>8, NoRequestOK DEF CreateSession, Over
<1>10. Requested' /\ req' \in [Slots -> Requests]
  BY <1>1, <1>9, SameUsers, OneMoves
<1>11. AccountsTypeOK'
  BY <1>1, <1>3, <1>6, <1>10 DEF AInv, AccountsTypeOK
<1>12. UsersOK' /\ LinksOK'
  BY <1>1 DEF AInv, UsersOK, LinksOK, LinksRedeemedOnce
<1>13. QED
  BY <1>7, <1>10, <1>11, <1>12 DEF AInv

-----------------------------------------------------------------------------
\* No step breaks it.
LEMMA NextAInv == AInv /\ [AccountsNext]_accountsVars => AInv'
<1> SUFFICES ASSUME AInv, [AccountsNext]_accountsVars PROVE AInv'
  OBVIOUS
<1>1. CASE UNCHANGED accountsVars
  <2>1. /\ UNCHANGED users /\ UNCHANGED linked /\ UNCHANGED links /\ UNCHANGED req
        /\ UNCHANGED minted /\ UNCHANGED proved /\ UNCHANGED redeemed /\ UNCHANGED via
    BY <1>1 DEF accountsVars
  <2>2. QED
    BY <2>1, Zenon DEF AInv, AccountsTypeOK, Requested, UsersOK, LinksOK, LinksRedeemedOnce,
                       ProfilesOK
<1>2. ASSUME NEW s \in Slots,
             \/ \E e \in Emails : Register(s, e)
             \/ \E u \in DOMAIN users : Login(s, u) \/ ResendVerification(s, u) \/ Forgot(s, u)
             \/ \E l \in DOMAIN links : Redeem(s, l)
             \/ \E i \in Profiles : Callback(s, i)
             \/ CreateUser(s) \/ CreateLink(s) \/ UpdatePasswordHash(s)
             \/ MarkEmailVerified(s) \/ FindByEmail(s) \/ LinkIdentity(s)
             \/ CreateSession(s) \/ Fail(s)
      PROVE  AInv'
  <2>1. ASSUME NEW u \in DOMAIN users, ResendVerification(s, u) \/ Forgot(s, u) PROVE AInv'
    <3>1. "verify_email" \in LinkKinds /\ "reset_password" \in LinkKinds
      BY DEF LinkKinds
    <3>2. QED
      BY <2>1, <3>1, AskLinkAInv DEF ResendVerification, Forgot
  <2>2. ASSUME NEW u \in DOMAIN users, Login(s, u) PROVE AInv'
    BY <2>2, LoginAInv
  <2>3. CASE \E e \in Emails : Register(s, e)
    BY <2>3, RegisterAInv
  <2>4. CASE \E l \in DOMAIN links : Redeem(s, l)
    BY <2>4, RedeemAInv
  <2>5. CASE \E i \in Profiles : Callback(s, i)
    BY <2>5, CallbackAInv
  <2>6. CASE CreateUser(s) \/ CreateLink(s) \/ UpdatePasswordHash(s) \/ MarkEmailVerified(s)
    BY <2>6, CreateUserAInv, CreateLinkAInv, UpdatePasswordHashAInv, MarkEmailVerifiedAInv
  <2>7. CASE FindByEmail(s) \/ LinkIdentity(s) \/ CreateSession(s) \/ Fail(s)
    BY <2>7, FindByEmailAInv, LinkIdentityAInv, CreateSessionAInv, FailAInv
  <2>8. QED
    BY <1>2, <2>1, <2>2, <2>3, <2>4, <2>5, <2>6, <2>7, Zenon
<1>3. CASE \E l \in DOMAIN links : LinkExpires(l)
  BY <1>3, LinkExpiresAInv
<1>4. CASE \E u \in DOMAIN users : DeleteAccount(u)
  BY <1>4, DeleteAccountAInv
<1>5. QED
  BY <1>1, <1>2, <1>3, <1>4, Zenon DEF AccountsNext

\* What an account's requests and tables always satisfy.
THEOREM AccountsInvariant == AccountsSpec => []AInv
BY InitAInv, NextAInv, PTL DEF AccountsSpec

\* The tables and the requests have their types.
THEOREM AccountsTyped == AccountsSpec => []AccountsTypeOK
<1>1. AInv => AccountsTypeOK
  BY DEF AInv
<1>2. QED
  BY <1>1, AccountsInvariant, PTL

(* Nobody gets into an account, and no address counts as verified, before a  *)
(* link has come back from its inbox or a provider has vouched for it        *)
(* (src/server.js:270-379).                                                  *)
THEOREM SessionsAreProved == AccountsSpec => []SessionMeansProved
<1>1. AInv => SessionMeansProved
  BY DEF AInv, UsersOK, ProfilesOK, SessionMeansProved
<1>2. QED
  BY <1>1, AccountsInvariant, PTL

(* However many requests bring a mailed link, one redeems it                 *)
(* (src/auth.js:211-225).                                                    *)
THEOREM LinksOnce == AccountsSpec => []LinksRedeemedOnce
<1>1. AInv => LinksRedeemedOnce
  BY DEF AInv, LinksOK
<1>2. QED
  BY <1>1, AccountsInvariant, PTL

(* All callbacks of a profile end in one account or in an error, among the   *)
(* accounts there are at any one time (src/server.js:270-295).               *)
THEOREM ProfilesHaveOneUser == AccountsSpec => []SameProfileSameUser
<1>1. ASSUME AInv, NEW i \in Profiles
      PROVE  Cardinality({u \in via[i] : ~users[u].gone}) <= 1
  <2>1. \A u \in via[i] : u \in DOMAIN users /\ Fits(i, users[u])
    BY <1>1 DEF AInv, AccountsTypeOK, ProfilesOK
  <2>2. \A u, v \in {w \in via[i] : ~users[w].gone} : u = v
    BY <1>1, <2>1 DEF AInv, UsersOK, Fits
  <2>3. CASE {w \in via[i] : ~users[w].gone} = {}
    <3>1. Cardinality({}) = 0
      BY FS_EmptySet
    <3>2. QED
      BY <2>3, <3>1
  <2>4. CASE {w \in via[i] : ~users[w].gone} # {}
    <3>1. PICK u : u \in {w \in via[i] : ~users[w].gone}
      BY <2>4
    <3>2. {w \in via[i] : ~users[w].gone} = {u}
      BY <2>2, <3>1
    <3>3. Cardinality({u}) = 1
      BY FS_Singleton
    <3>4. QED
      BY <3>2, <3>3
  <2>5. QED
    BY <2>3, <2>4
<1>2. AInv => SameProfileSameUser
  BY <1>1 DEF SameProfileSameUser
<1>3. QED
  BY <1>2, AccountsInvariant, PTL

-----------------------------------------------------------------------------
(***************************************************************************)
(* The limits of logins.  A login under way is either charging - a failure *)
(* would count on its key's present entry - or stray: the entry it met is  *)
(* gone.  The limit holds back new charging logins only, so the invariant  *)
(* counts the failures that may still come together with those that came.  *)
(***************************************************************************)

\* The logins under way that a failure would charge to k's entry, and those
\* that met another entry of k.
Charging(k) == {t \in Tries : Charged(t, k)}
Stray(k)    == {t \in Tries : k \in KeysOf(t) /\ ~Charged(t, k)}

\* Ids are drawn once.
IdsDrawn ==
    /\ \A k \in Keys : hits[k].id <= drawn[k]
    /\ \A t \in Tries : \A m \in try[t] : m.id <= drawn[m.key]

\* What failures may still come, and what has come, from either kind.
Limits(k) ==
    /\ hits[k].count + Cardinality(Charging(k)) <= Most(k) - 1 + Cardinality(Tries)
    /\ missed[k] - hits[k].count + Cardinality(Stray(k)) <= Cardinality(Tries)

LoginsInv ==
    /\ LoginsTypeOK
    /\ IdsDrawn
    /\ \A k \in Keys : Limits(k)

-----------------------------------------------------------------------------
LEMMA Counts ==
    ASSUME NEW S \in SUBSET Tries
    PROVE  /\ IsFiniteSet(S) /\ Cardinality(S) \in Nat /\ Cardinality(Tries) \in Nat
           /\ Cardinality(S) <= Cardinality(Tries)
           /\ S = {} => Cardinality(S) = 0
           /\ \A t \in Tries : S \subseteq {t} => Cardinality(S) <= 1 /\ Cardinality(Tries) >= 1
           /\ \A R \in SUBSET S : Cardinality(R) \in Nat /\ Cardinality(R) <= Cardinality(S)
           /\ \A t \in S : Cardinality(S \ {t}) = Cardinality(S) - 1
<1>1. IsFiniteSet(Tries)
  BY LoginsAssumption
<1>2. IsFiniteSet(S) /\ Cardinality(S) \in Nat /\ Cardinality(Tries) \in Nat
      /\ Cardinality(S) <= Cardinality(Tries)
  BY <1>1, FS_Subset, FS_CardinalityType
<1>3. S = {} => Cardinality(S) = 0
  BY FS_EmptySet
<1>4. ASSUME NEW t \in Tries PROVE Cardinality(Tries) >= 1
  <2>1. Cardinality(Tries) # 0
    BY <1>1, FS_EmptySet
  <2>2. QED
    BY <1>2, <2>1
<1>5. ASSUME NEW t \in Tries, S \subseteq {t} PROVE Cardinality(S) <= 1
  <2>1. IsFiniteSet({t}) /\ Cardinality({t}) = 1
    BY FS_Singleton
  <2>2. QED
    BY <1>5, <2>1, FS_Subset
<1>6. \A R \in SUBSET S : Cardinality(R) \in Nat /\ Cardinality(R) <= Cardinality(S)
  BY <1>2, FS_Subset, FS_CardinalityType
<1>7. \A t \in S : Cardinality(S \ {t}) = Cardinality(S) - 1
  BY <1>2, FS_RemoveElement
<1>8. QED
  BY <1>2, <1>3, <1>4, <1>5, <1>6, <1>7

LEMMA KeyTypes ==
    ASSUME NEW k \in Keys
    PROVE  Most(k) \in Nat /\ Most(k) >= 1
BY LoginsAssumption DEF Most

LEMMA Entry ==
    ASSUME LoginsInv, NEW k \in Keys
    PROVE  /\ hits[k] \in Entries /\ hits[k].id \in Nat /\ hits[k].count \in Nat
           /\ hits[k].over \in BOOLEAN
           /\ drawn[k] \in 0 .. MaxEntries /\ drawn[k] \in Nat /\ missed[k] \in Nat
           /\ MaxEntries \in Nat
BY LoginsAssumption DEF LoginsInv, LoginsTypeOK, Entries

LEMMA SetsTyped ==
    ASSUME NEW k
    PROVE  Charging(k) \in SUBSET Tries /\ Stray(k) \in SUBSET Tries
BY DEF Charging, Stray

\* A key whose entry and failures stay as they are while logins end.
LEMMA Fewer ==
    ASSUME LoginsInv, NEW k \in Keys,
           hits'[k].count = hits[k].count, missed'[k] = missed[k],
           Charging(k)' \subseteq Charging(k), Stray(k)' \subseteq Stray(k)
    PROVE  Limits(k)'
<1>1. /\ Cardinality(Charging(k)') <= Cardinality(Charging(k))
      /\ Cardinality(Stray(k)') <= Cardinality(Stray(k))
      /\ {Cardinality(Charging(k)), Cardinality(Charging(k)'), Cardinality(Stray(k)), Cardinality(Stray(k)'), Cardinality(Tries)} \subseteq Nat
  BY Counts, SetsTyped
<1>2. Limits(k)
  BY DEF LoginsInv
<1>3. QED
  BY <1>1, <1>2, KeyTypes, Entry DEF Limits, Most

\* A key whose entry is new, or gone.
LEMMA Anew ==
    ASSUME LoginsInv, NEW k \in Keys,
           hits'[k].count = 0, missed'[k] = 0,
           \/ Charging(k)' = {}
           \/ \E t \in Tries : Charging(k)' \subseteq {t}
    PROVE  Limits(k)'
<1>1. Charging(k)' \in SUBSET Tries /\ Stray(k)' \in SUBSET Tries
  BY DEF Charging, Stray
<1>2. /\ Cardinality(Charging(k)') \in Nat /\ Cardinality(Stray(k)') \in Nat /\ Cardinality(Tries) \in Nat
      /\ Cardinality(Stray(k)') <= Cardinality(Tries)
      /\ Cardinality(Charging(k)') <= Cardinality(Tries)
  BY <1>1, Counts
<1>3. QED
  BY <1>2, KeyTypes DEF Limits, Most

\* Which login a failure would be charged to, when neither moves.
LEMMA SameCharge ==
    ASSUME NEW k \in Keys, NEW t \in Tries, hits'[k].id = hits[k].id,
           try'[t] = try[t] \/ try'[t] = {}
    PROVE  /\ Charged(t, k)' => Charged(t, k)
           /\ k \in KeysOf(t)' /\ ~Charged(t, k)' => k \in KeysOf(t) /\ ~Charged(t, k)
BY DEF Charged, KeysOf

LEMMA Ending ==
    ASSUME NEW k \in Keys, hits'[k].id = hits[k].id,
           \A t \in Tries : try'[t] = try[t] \/ try'[t] = {}
    PROVE  Charging(k)' \subseteq Charging(k) /\ Stray(k)' \subseteq Stray(k)
BY SameCharge DEF Charging, Stray

\* An entry that is gone is charged by nobody.
LEMMA Uncharged ==
    ASSUME NEW k \in Keys, hits'[k].id = 0, try' \in [Tries -> SUBSET Met]
    PROVE  Charging(k)' = {}
<1>1. \A t \in Tries : ~Charged(t, k)'
  BY LoginsAssumption DEF Charged, Met
<1>2. QED
  BY <1>1 DEF Charging

LEMMA LimitsRestartedOrKept ==
    ASSUME LoginsInv, LoginsTypeOK', NEW K,
           Dropped(K), \A t \in Tries : try'[t] = try[t] \/ try'[t] = {}
    PROVE  \A k \in Keys : Limits(k)'
<1>1. ASSUME NEW k \in Keys PROVE Limits(k)'
  <2>1. CASE k \in K
    <3>1. hits'[k].id = 0 /\ hits'[k].count = 0 /\ missed'[k] = 0
      BY <2>1 DEF Dropped, NoEntry
    <3>2. Charging(k)' = {}
      BY <3>1, Uncharged DEF LoginsTypeOK
    <3>3. QED
      BY <3>1, <3>2, Anew
  <2>2. CASE k \notin K
    <3>1. hits'[k] = hits[k] /\ missed'[k] = missed[k]
      BY <2>2 DEF Dropped
    <3>2. Charging(k)' \subseteq Charging(k) /\ Stray(k)' \subseteq Stray(k)
      BY <3>1, Ending
    <3>3. QED
      BY <3>1, <3>2, Fewer
  <2>3. QED
    BY <2>1, <2>2
<1>2. QED
  BY <1>1

-----------------------------------------------------------------------------
\* What an operation keeps of the types and of the ids, when it drops entries.
LEMMA DroppedTyped ==
    ASSUME LoginsInv, NEW K, Dropped(K), drawn' = drawn,
           \A t \in Tries : try'[t] = try[t] \/ try'[t] = {},
           try' \in [Tries -> SUBSET Met]
    PROVE  LoginsTypeOK' /\ IdsDrawn'
<1>1. NoEntry \in Entries /\ NoEntry.id = 0
  BY LoginsAssumption DEF NoEntry, Entries
<1>2. LoginsTypeOK'
  BY <1>1 DEF LoginsInv, LoginsTypeOK, Dropped
<1>3. ASSUME NEW k \in Keys PROVE hits'[k].id <= drawn'[k]
  <2>1. drawn[k] \in Nat /\ hits[k].id <= drawn[k]
    BY Entry DEF LoginsInv, IdsDrawn
  <2>2. QED
    BY <1>1, <1>3, <2>1 DEF Dropped
<1>4. ASSUME NEW t \in Tries, NEW m \in try'[t] PROVE m.id <= drawn'[m.key]
  BY <1>4 DEF LoginsInv, IdsDrawn
<1>5. QED
  BY <1>2, <1>3, <1>4 DEF IdsDrawn

LEMMA Drops ==
    ASSUME LoginsInv, NEW K, Dropped(K), drawn' = drawn,
           \A t \in Tries : try'[t] = try[t] \/ try'[t] = {},
           try' \in [Tries -> SUBSET Met]
    PROVE  LoginsInv'
BY DroppedTyped, LimitsRestartedOrKept DEF LoginsInv

\* The new entries, and the others.
LEMMA Entered ==
    ASSUME LoginsInv, NEW K \in SUBSET Keys, Enter(K), NEW k \in Keys
    PROVE  /\ drawn'[k] \in 0 .. MaxEntries /\ drawn'[k] >= drawn[k]
           /\ hits'[k] \in Entries /\ missed'[k] \in Nat
           /\ hits'[k].id = 0 => hits'[k] = NoEntry
           /\ hits'[k].id <= drawn'[k]
           /\ k \in K => hits'[k].id # 0
           /\ k \in K /\ Fresh(k) =>
                 hits'[k].id = drawn[k] + 1 /\ hits'[k].count = 0 /\ missed'[k] = 0
           /\ ~(k \in K /\ Fresh(k)) =>
                 hits'[k] = hits[k] /\ drawn'[k] = drawn[k] /\ missed'[k] = missed[k]
<1>1. /\ drawn[k] \in 0 .. MaxEntries /\ drawn[k] \in Nat /\ MaxEntries \in Nat
      /\ hits[k] \in Entries /\ missed[k] \in Nat /\ hits[k].id <= drawn[k]
      /\ hits[k].id = 0 => hits[k] = NoEntry
  BY Entry DEF LoginsInv, LoginsTypeOK, IdsDrawn
<1>2. CASE k \in K /\ Fresh(k)
  <2>1. drawn'[k] = drawn[k] + 1 /\ drawn[k] < MaxEntries /\ missed'[k] = 0
    BY <1>2 DEF Enter
  <2>2. hits'[k] = [id |-> drawn[k] + 1, count |-> 0, over |-> FALSE]
    BY <1>2, <2>1 DEF Enter, NoEntry
  <2>3. hits'[k] \in Entries
    BY <1>1, <2>1, <2>2 DEF Entries
  <2>4. QED
    BY <1>1, <1>2, <2>1, <2>2, <2>3
<1>3. CASE ~(k \in K /\ Fresh(k))
  <2>1. hits'[k] = hits[k] /\ drawn'[k] = drawn[k] /\ missed'[k] = missed[k]
    BY <1>3 DEF Enter
  <2>2. k \in K => hits[k].id # 0
    BY <1>3 DEF Fresh
  <2>3. QED
    BY <1>1, <1>3, <2>1, <2>2
<1>4. QED
  BY <1>2, <1>3

LEMMA EnterTyped ==
    ASSUME LoginsInv, NEW K \in SUBSET Keys, Enter(K)
    PROVE  /\ hits' \in [Keys -> Entries] /\ drawn' \in [Keys -> 0 .. MaxEntries]
           /\ missed' \in [Keys -> Nat]
           /\ \A k \in Keys : hits'[k].id = 0 => hits'[k] = NoEntry
<1>1. /\ hits' = [k \in Keys |-> hits'[k]] /\ drawn' = [k \in Keys |-> drawn'[k]]
      /\ missed' = [k \in Keys |-> missed'[k]]
  BY DEF Enter
<1>2. QED
  BY <1>1, Entered

\* A login that met k's entry earlier met an older one than the new one.
LEMMA Older ==
    ASSUME LoginsInv, NEW k \in Keys, NEW t \in Tries,
           hits'[k].id = drawn[k] + 1, try'[t] = try[t]
    PROVE  ~Charged(t, k)'
<1>1. drawn[k] \in Nat
  BY Entry
<1>2. \A m \in try[t] : m.id <= drawn[m.key]
  BY DEF LoginsInv, IdsDrawn
<1>3. [key |-> k, id |-> drawn[k] + 1] \notin try[t]
  BY <1>1, <1>2
<1>4. QED
  BY <1>3 DEF Charged

-----------------------------------------------------------------------------
LEMMA RefusedStep ==
    ASSUME LoginsInv, NEW m \in Mails, NEW c \in Clients, RefusedByClient(m, c)
    PROVE  LoginsInv'
<1>1. m \in Keys /\ {m} \in SUBSET Keys /\ Enter({m}) /\ try' = try
  BY DEF RefusedByClient, Keys
<1>2. LoginsTypeOK'
  BY <1>1, EnterTyped DEF LoginsInv, LoginsTypeOK
<1>3. ASSUME NEW k \in Keys PROVE hits'[k].id <= drawn'[k]
  BY <1>1, Entered
<1>4. ASSUME NEW t \in Tries, NEW e \in try'[t] PROVE e.id <= drawn'[e.key]
  <2>1. e \in Met /\ e.id <= drawn[e.key] /\ e.key \in Keys
    BY <1>1, <1>4 DEF LoginsInv, LoginsTypeOK, IdsDrawn, Met
  <2>2. e.id \in Int /\ drawn[e.key] \in Nat /\ drawn'[e.key] \in Int /\ drawn'[e.key] >= drawn[e.key]
    BY <1>1, <2>1, Entry, Entered DEF Met
  <2>3. QED
    BY <2>1, <2>2
<1>5. ASSUME NEW k \in Keys PROVE Limits(k)'
  <2>1. CASE k = m /\ Fresh(k)
    <3>1. hits'[k].id = drawn[k] + 1 /\ hits'[k].count = 0 /\ missed'[k] = 0
      BY <1>1, <2>1, Entered
    <3>2. Charging(k)' = {}
      BY <1>1, <3>1, Older DEF Charging
    <3>3. QED
      BY <3>1, <3>2, Anew
  <2>2. CASE ~(k = m /\ Fresh(k))
    <3>1. hits'[k] = hits[k] /\ missed'[k] = missed[k]
      BY <1>1, <2>2, Entered
    <3>2. Charging(k)' \subseteq Charging(k) /\ Stray(k)' \subseteq Stray(k)
      BY <1>1, <3>1, Ending
    <3>3. QED
      BY <3>1, <3>2, Fewer
  <2>3. QED
    BY <2>1, <2>2
<1>6. QED
  BY <1>2, <1>3, <1>4, <1>5 DEF LoginsInv, IdsDrawn

LEMMA AttemptStep ==
    ASSUME LoginsInv, NEW t \in Tries, NEW m \in Mails, NEW c \in Clients, Attempt(t, m, c)
    PROVE  LoginsInv'
<1>1. /\ m \in Keys /\ c \in Keys /\ {m, c} \in SUBSET Keys /\ Enter({m, c})
      /\ try[t] = {} /\ Passes(m) /\ Passes(c)
      /\ try' = [try EXCEPT ![t] = {[key |-> k, id |-> hits'[k].id] : k \in {m, c}}]
  BY DEF Attempt, Keys
<1>2. /\ try'[t] = {[key |-> k, id |-> hits'[k].id] : k \in {m, c}}
      /\ \A s \in Tries : s # t => try'[s] = try[s]
      /\ try' = [s \in Tries |-> try'[s]]
  BY <1>1 DEF LoginsInv, LoginsTypeOK
<1>3. \A k \in {m, c} : hits'[k].id \in 1 .. MaxEntries
  <2>1. \A k \in {m, c} : hits'[k].id # 0 /\ hits'[k] \in Entries
    BY <1>1, Entered
  <2>2. QED
    BY <2>1, LoginsAssumption DEF Entries
<1>4. \A k \in {m, c} : [key |-> k, id |-> hits'[k].id] \in Met
  BY <1>1, <1>3 DEF Met
<1>5. try' \in [Tries -> SUBSET Met]
  <2>1. try'[t] \in SUBSET Met
    BY <1>2, <1>4
  <2>2. \A s \in Tries : try[s] \in SUBSET Met
    BY DEF LoginsInv, LoginsTypeOK
  <2>3. QED
    BY <1>2, <2>1, <2>2
<1>6. LoginsTypeOK'
  BY <1>1, <1>5, EnterTyped DEF LoginsTypeOK
<1>7. ASSUME NEW k \in Keys PROVE hits'[k].id <= drawn'[k]
  BY <1>1, Entered
<1>8. ASSUME NEW s \in Tries, NEW e \in try'[s] PROVE e.id <= drawn'[e.key]
  <2>1. CASE s = t
    <3>1. PICK k \in {m, c} : e = [key |-> k, id |-> hits'[k].id]
      BY <1>2, <1>8, <2>1
    <3>2. QED
      BY <1>1, <1>7, <3>1
  <2>2. CASE s # t
    <3>1. e \in Met /\ e.id <= drawn[e.key] /\ e.key \in Keys
      BY <1>2, <1>8, <2>2 DEF LoginsInv, LoginsTypeOK, IdsDrawn, Met
    <3>2. e.id \in Int /\ drawn[e.key] \in Nat /\ drawn'[e.key] \in Int /\ drawn'[e.key] >= drawn[e.key]
      BY <1>1, <3>1, Entry, Entered DEF Met
    <3>3. QED
      BY <3>1, <3>2
  <2>3. QED
    BY <2>1, <2>2
<1>9. ASSUME NEW k \in Keys PROVE Limits(k)'
  <2>1. CASE k \in {m, c} /\ Fresh(k)
    <3>1. hits'[k].id = drawn[k] + 1 /\ hits'[k].count = 0 /\ missed'[k] = 0
      BY <1>1, <2>1, Entered
    <3>2. Charging(k)' \subseteq {t}
      BY <1>2, <3>1, Older DEF Charging
    <3>3. QED
      BY <3>1, <3>2, Anew
  <2>2. CASE k \in {m, c} /\ ~Fresh(k)
    <3>1. hits'[k] = hits[k] /\ missed'[k] = missed[k]
      BY <1>1, <2>2, Entered
    <3>2. hits[k].count < Most(k)
      BY <1>1, <2>2 DEF Passes
    <3>3. ASSUME NEW s \in Tries
          PROVE  /\ s # t => (Charged(s, k)' <=> Charged(s, k)) /\ (k \in KeysOf(s)' <=> k \in KeysOf(s))
                 /\ Charged(t, k)'
      BY <1>2, <2>2, <3>1 DEF Charged, KeysOf
    <3>4. Stray(k)' \subseteq Stray(k)
      BY <3>3 DEF Stray
    <3>5. /\ Charging(k)' \in SUBSET Tries /\ Stray(k)' \in SUBSET Tries
          /\ Charging(k) \in SUBSET Tries /\ Stray(k) \in SUBSET Tries
      BY DEF Charging, Stray
    <3>6. /\ {Cardinality(Charging(k)'), Cardinality(Stray(k)'), Cardinality(Stray(k)), Cardinality(Tries)} \subseteq Nat
          /\ Cardinality(Charging(k)') <= Cardinality(Tries)
          /\ Cardinality(Stray(k)') <= Cardinality(Stray(k))
      BY <3>4, <3>5, Counts
    <3>7. Limits(k)
      BY DEF LoginsInv
    <3>8. QED
      BY <3>1, <3>2, <3>6, <3>7, KeyTypes, Entry DEF Limits, Most
  <2>3. CASE k \notin {m, c}
    <3>1. hits'[k] = hits[k] /\ missed'[k] = missed[k]
      BY <1>1, <2>3, Entered
    <3>2. ~Charged(t, k)' /\ k \notin KeysOf(t)'
      BY <1>2, <2>3 DEF Charged, KeysOf
    <3>3. ASSUME NEW s \in Tries, s # t
          PROVE  (Charged(s, k)' <=> Charged(s, k)) /\ (k \in KeysOf(s)' <=> k \in KeysOf(s))
      BY <1>2, <3>1, <3>3 DEF Charged, KeysOf
    <3>4. Charging(k)' \subseteq Charging(k) /\ Stray(k)' \subseteq Stray(k)
      BY <3>2, <3>3 DEF Charging, Stray
    <3>5. QED
      BY <3>1, <3>4, Fewer
  <2>4. QED
    BY <2>1, <2>2, <2>3
<1>10. QED
  BY <1>6, <1>7, <1>8, <1>9 DEF LoginsInv, IdsDrawn

LEMMA AnsweredTyped ==
    ASSUME LoginsInv, NEW t \in Tries, Answered(t)
    PROVE  /\ try' \in [Tries -> SUBSET Met] /\ try'[t] = {}
           /\ \A s \in Tries : try'[s] = try[s] \/ try'[s] = {}
           /\ \A s \in Tries : s # t => try'[s] = try[s]
BY DEF LoginsInv, LoginsTypeOK, Answered

LEMMA MissStep ==
    ASSUME LoginsInv, NEW t \in Tries, Miss(t)
    PROVE  LoginsInv'
<1>1. /\ hits' = [k \in Keys |-> IF Charged(t, k) THEN [hits[k] EXCEPT !.count = @ + 1] ELSE hits[k]]
      /\ missed' = [k \in Keys |-> IF k \in KeysOf(t) THEN missed[k] + 1 ELSE missed[k]]
      /\ Answered(t) /\ drawn' = drawn
  BY DEF Miss
<1>2. ASSUME NEW k \in Keys
      PROVE  /\ hits'[k] \in Entries /\ hits'[k].id = hits[k].id /\ missed'[k] \in Nat
             /\ hits'[k].id = 0 => hits'[k] = NoEntry
             /\ Charged(t, k) => k \in KeysOf(t) /\ hits'[k].count = hits[k].count + 1
             /\ ~Charged(t, k) => hits'[k].count = hits[k].count
             /\ k \in KeysOf(t) => missed'[k] = missed[k] + 1
             /\ k \notin KeysOf(t) => missed'[k] = missed[k]
  <2>1. hits[k] \in Entries /\ missed[k] \in Nat /\ (hits[k].id = 0 => hits[k] = NoEntry)
    BY Entry DEF LoginsInv, LoginsTypeOK
  <2>2. Charged(t, k) => hits[k].id # 0 /\ k \in KeysOf(t)
    <3>1. try[t] \subseteq Met
      BY DEF LoginsInv, LoginsTypeOK
    <3>2. Charged(t, k) => [key |-> k, id |-> hits[k].id] \in Met
      BY <3>1 DEF Charged
    <3>3. QED
      BY <3>2, LoginsAssumption DEF Charged, KeysOf, Met
  <2>3. QED
    BY <1>1, <2>1, <2>2 DEF Entries
<1>3. LoginsTypeOK'
  <2>1. hits' = [k \in Keys |-> hits'[k]] /\ missed' = [k \in Keys |-> missed'[k]]
    BY <1>1
  <2>2. hits' \in [Keys -> Entries] /\ missed' \in [Keys -> Nat]
    BY <1>2, <2>1
  <2>3. QED
    BY <1>1, <1>2, <2>2, AnsweredTyped DEF LoginsInv, LoginsTypeOK
<1>4. IdsDrawn'
  <2>1. ASSUME NEW k \in Keys PROVE hits'[k].id <= drawn'[k]
    BY <1>1, <1>2 DEF LoginsInv, IdsDrawn
  <2>2. ASSUME NEW s \in Tries, NEW m \in try'[s] PROVE m.id <= drawn'[m.key]
    <3>1. m \in try[s]
      BY <1>1, <2>2, AnsweredTyped
    <3>2. QED
      BY <1>1, <3>1 DEF LoginsInv, IdsDrawn
  <2>3. QED
    BY <2>1, <2>2 DEF IdsDrawn
<1>5. ASSUME NEW k \in Keys PROVE Limits(k)'
  <2>1. Charging(k)' \subseteq Charging(k) /\ Stray(k)' \subseteq Stray(k)
    BY <1>1, <1>2, AnsweredTyped, Ending
  <2>2. t \notin Charging(k)' /\ t \notin Stray(k)'
    BY <1>1, AnsweredTyped DEF Charging, Stray, Charged, KeysOf
  <2>3. /\ Charging(k) \in SUBSET Tries /\ Stray(k) \in SUBSET Tries
        /\ Charging(k)' \in SUBSET Tries /\ Stray(k)' \in SUBSET Tries
    BY DEF Charging, Stray
  <2>4. {Cardinality(Charging(k)), Cardinality(Charging(k)'), Cardinality(Stray(k)), Cardinality(Stray(k)'), Cardinality(Tries)} \subseteq Nat
    BY <2>3, Counts
  <2>5. /\ Cardinality(Charging(k)') <= Cardinality(Charging(k))
        /\ Cardinality(Stray(k)') <= Cardinality(Stray(k))
        /\ t \in Charging(k) => Cardinality(Charging(k)') <= Cardinality(Charging(k)) - 1
        /\ t \in Stray(k) => Cardinality(Stray(k)') <= Cardinality(Stray(k)) - 1
    <3>1. Charging(k)' \subseteq Charging(k) \ {t} /\ Stray(k)' \subseteq Stray(k) \ {t}
      BY <2>1, <2>2
    <3>2. /\ Charging(k) \ {t} \in SUBSET Tries /\ Stray(k) \ {t} \in SUBSET Tries
      BY <2>3
    <3>3. /\ Cardinality(Charging(k)') <= Cardinality(Charging(k) \ {t})
          /\ Cardinality(Stray(k)') <= Cardinality(Stray(k) \ {t})
      BY <3>1, <3>2, Counts
    <3>4. /\ t \in Charging(k) => Cardinality(Charging(k) \ {t}) = Cardinality(Charging(k)) - 1
          /\ t \in Stray(k) => Cardinality(Stray(k) \ {t}) = Cardinality(Stray(k)) - 1
      BY <2>3, Counts
    <3>5. /\ Cardinality(Charging(k)') <= Cardinality(Charging(k))
          /\ Cardinality(Stray(k)') <= Cardinality(Stray(k))
      BY <2>1, <2>3, Counts
    <3>6. QED
      BY <3>3, <3>4, <3>5
  <2>6. Limits(k)
    BY DEF LoginsInv
  <2>7. /\ t \in Charging(k) <=> Charged(t, k)
        /\ t \in Stray(k) <=> k \in KeysOf(t) /\ ~Charged(t, k)
    BY DEF Charging, Stray
  <2>8. CASE Charged(t, k)
    BY <1>2, <2>4, <2>5, <2>6, <2>7, <2>8, KeyTypes, Entry DEF Limits, Most
  <2>9. CASE k \in KeysOf(t) /\ ~Charged(t, k)
    BY <1>2, <2>4, <2>5, <2>6, <2>7, <2>9, KeyTypes, Entry DEF Limits, Most
  <2>10. CASE k \notin KeysOf(t)
    <3>1. hits'[k].count = hits[k].count /\ missed'[k] = missed[k]
      BY <1>2, <2>10
    <3>2. QED
      BY <2>1, <3>1, Fewer
  <2>11. QED
    BY <2>8, <2>9, <2>10
<1>6. QED
  BY <1>3, <1>4, <1>5 DEF LoginsInv

LEMMA BreakStep ==
    ASSUME LoginsInv, NEW t \in Tries, Break(t)
    PROVE  LoginsInv'
<1>1. Answered(t) /\ hits' = hits /\ drawn' = drawn /\ missed' = missed
  BY DEF Break
<1>2. LoginsTypeOK'
  BY <1>1, AnsweredTyped DEF LoginsInv, LoginsTypeOK
<1>3. IdsDrawn'
  <2>1. ASSUME NEW s \in Tries, NEW m \in try'[s] PROVE m \in try[s]
    BY <1>1, <2>1, AnsweredTyped
  <2>2. QED
    BY <1>1, <2>1 DEF LoginsInv, IdsDrawn
<1>4. ASSUME NEW k \in Keys PROVE Limits(k)'
  <2>1. Charging(k)' \subseteq Charging(k) /\ Stray(k)' \subseteq Stray(k)
    BY <1>1, AnsweredTyped, Ending
  <2>2. QED
    BY <1>1, <2>1, Fewer
<1>5. QED
  BY <1>2, <1>3, <1>4 DEF LoginsInv

LEMMA WindowStep ==
    ASSUME LoginsInv, NEW j \in Keys, WindowEnds(j)
    PROVE  LoginsInv'
<1>1. hits' = [hits EXCEPT ![j].over = TRUE] /\ drawn' = drawn /\ try' = try /\ missed' = missed
  BY DEF WindowEnds
<1>2. hits[j].id # 0
  BY DEF WindowEnds, Fresh
<1>3. ASSUME NEW k \in Keys
      PROVE  /\ hits'[k] \in Entries /\ hits'[k].id = hits[k].id /\ hits'[k].count = hits[k].count
             /\ hits'[k].id = 0 => hits'[k] = NoEntry
  <2>1. hits[k] \in Entries /\ (hits[k].id = 0 => hits[k] = NoEntry)
    BY DEF LoginsInv, LoginsTypeOK
  <2>2. hits'[k] = IF k = j THEN [hits[k] EXCEPT !.over = TRUE] ELSE hits[k]
    BY <1>1 DEF LoginsInv, LoginsTypeOK
  <2>3. QED
    BY <1>2, <2>1, <2>2 DEF Entries
<1>4. LoginsTypeOK'
  <2>1. hits' = [k \in Keys |-> hits'[k]]
    BY <1>1 DEF LoginsInv, LoginsTypeOK
  <2>2. hits' \in [Keys -> Entries]
    BY <1>3, <2>1
  <2>3. QED
    BY <1>1, <1>3, <2>2 DEF LoginsInv, LoginsTypeOK
<1>5. IdsDrawn'
  BY <1>1, <1>3 DEF LoginsInv, IdsDrawn
<1>6. ASSUME NEW k \in Keys PROVE Limits(k)'
  <2>1. Charging(k)' \subseteq Charging(k) /\ Stray(k)' \subseteq Stray(k)
    BY <1>1, <1>3, Ending
  <2>2. QED
    BY <1>1, <1>3, <2>1, Fewer
<1>7. QED
  BY <1>4, <1>5, <1>6 DEF LoginsInv

\* A success, the sweep and a restart.
LEMMA DropSteps ==
    ASSUME LoginsInv,
           \/ \E t \in Tries : Succeed(t)
           \/ \E k \in Keys : Sweep(k)
           \/ LoginsRestart
    PROVE  LoginsInv'
<1>1. CASE \E t \in Tries : Succeed(t)
  <2>1. PICK t \in Tries : Succeed(t)
    BY <1>1
  <2>2. Dropped(KeysOf(t)) /\ Answered(t) /\ drawn' = drawn
    BY <2>1 DEF Succeed
  <2>3. QED
    BY <2>2, AnsweredTyped, Drops
<1>2. CASE \E k \in Keys : Sweep(k)
  <2>1. PICK k \in Keys : Dropped({k}) /\ drawn' = drawn /\ try' = try
    BY <1>2 DEF Sweep
  <2>2. QED
    BY <2>1, Drops DEF LoginsInv, LoginsTypeOK
<1>3. CASE LoginsRestart
  <2>1. Dropped(Keys) /\ drawn' = drawn /\ try' = [t \in Tries |-> {}]
    BY <1>3 DEF LoginsRestart
  <2>2. try' \in [Tries -> SUBSET Met] /\ \A t \in Tries : try'[t] = {}
    BY <2>1
  <2>3. QED
    BY <2>1, <2>2, Drops
<1>4. QED
  BY <1>1, <1>2, <1>3

LEMMA LoginsInitial ==
    ASSUME LoginsInit
    PROVE  LoginsInv
<1>1. LoginsTypeOK /\ IdsDrawn
  BY LoginsAssumption DEF LoginsInit, LoginsTypeOK, IdsDrawn, Entries, NoEntry
<1>2. ASSUME NEW k \in Keys PROVE Limits(k)
  <2>1. hits[k].count = 0 /\ missed[k] = 0
    BY DEF LoginsInit, NoEntry
  <2>2. Charging(k) = {} /\ Stray(k) = {}
    BY DEF LoginsInit, Charging, Stray, Charged, KeysOf
  <2>3. Cardinality(Charging(k)) = 0 /\ Cardinality(Stray(k)) = 0 /\ Cardinality(Tries) \in Nat
    BY <2>2, Counts
  <2>4. QED
    BY <2>1, <2>3, KeyTypes DEF Limits, Most
<1>3. QED
  BY <1>1, <1>2 DEF LoginsInv

LEMMA LoginsInductive ==
    ASSUME LoginsInv, [LoginsNext]_loginsVars
    PROVE  LoginsInv'
<1>1. CASE UNCHANGED loginsVars
  BY <1>1 DEF loginsVars, LoginsInv, LoginsTypeOK, IdsDrawn, Limits, Charging, Stray, Charged, KeysOf, Most
<1>2. CASE LoginsNext
  BY <1>2, AttemptStep, MissStep, BreakStep, RefusedStep, WindowStep, DropSteps DEF LoginsNext
<1>3. QED
  BY <1>1, <1>2

LEMMA LimitsBoundMisses ==
    ASSUME LoginsInv
    PROVE  MissesBounded
<1>1. SUFFICES ASSUME NEW k \in Keys
      PROVE  missed[k] <= Most(k) - 1 + 2 * Cardinality(Tries)
  BY DEF MissesBounded
<1>2. Charging(k) \in SUBSET Tries /\ Stray(k) \in SUBSET Tries
  BY SetsTyped
<1>3. {Cardinality(Charging(k)), Cardinality(Stray(k)), Cardinality(Tries)} \subseteq Nat
  BY <1>2, Counts
<1>4. Limits(k)
  BY DEF LoginsInv
<1>5. QED
  BY <1>3, <1>4, KeyTypes, Entry DEF Limits, Most

-----------------------------------------------------------------------------
\* What the limiters' entries and the logins under way always satisfy.
THEOREM LoginsInvariant == LoginsSpec => []LoginsInv
BY LoginsInitial, LoginsInductive, PTL DEF LoginsSpec

(* An address and a client see a bounded number of failures while their      *)
(* entry stands, however the checks, the charges, the successes and the      *)
(* sweeps interleave (src/rate-limit.js:39-67, src/server.js:340-357).       *)
THEOREM FailuresAreBounded == LoginsSpec => []MissesBounded
BY LimitsBoundMisses, LoginsInvariant, PTL

\* The two parts side by side are behaviours of each of them.
LEMMA SideBySide == Spec => AccountsSpec /\ LoginsSpec
<1>1. Init => AccountsInit /\ LoginsInit
  BY DEF Init
<1>2. [Next]_vars => [AccountsNext]_accountsVars /\ [LoginsNext]_loginsVars
  BY DEF Next, vars
<1>3. QED
  BY <1>1, <1>2, PTL DEF Spec, AccountsSpec, LoginsSpec

\* The tables, the requests, the entries and the logins have their types.
THEOREM AccountsAndLoginsTyped == Spec => []TypeOK
<1>1. LoginsInv /\ AccountsTypeOK => TypeOK
  BY DEF LoginsInv, TypeOK
<1>2. QED
  BY <1>1, SideBySide, AccountsTyped, LoginsInvariant, PTL

=============================================================================
