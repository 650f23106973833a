------------------------------ MODULE Accounts ------------------------------
(***************************************************************************)
(* How accounts come to be and how one gets into them: registration,       *)
(* e-mailed links, passwords and the providers' profiles (src/server.js,   *)
(* src/auth.js, src/oauth.js, src/db.js).  A request is a sequence of      *)
(* queries; between two of them other requests run, about the same e-mail  *)
(* address, user or profile.  The session that most of them end in is      *)
(* created here and lives on in module Credentials.                        *)
(***************************************************************************)
EXTENDS Naturals, Sequences, FiniteSets

CONSTANTS
    Emails,
    Profiles,       \* accounts at the providers: (provider, providerUserId)
    ProfileMail,    \* ProfileMail[i]: the address of i's profile, or None
    Vouched,        \* the profiles whose address the provider has verified
    Slots,          \* bound: requests at once
    MaxUsers,       \* bound: rows of users
    MaxLinks,       \* bound: rows of auth_tokens
    None

ASSUME AccountsAssumption ==
    /\ None \notin Emails /\ None \notin Profiles
    /\ ProfileMail \in [Profiles -> Emails \cup {None}]
    /\ Vouched \subseteq {i \in Profiles : ProfileMail[i] # None}
    /\ MaxUsers \in Nat /\ MaxLinks \in Nat

VARIABLES
    users,      \* users[u]: the row with id u
    linked,     \* linked[i]: the user of i's row in identities, 0 if none
    links,      \* links[l]: a row of auth_tokens, the link in somebody's inbox
    req,        \* req[s]: a request under way
    minted,     \* history: the users for whom a session was created
    proved,     \* history: those whose inbox or profile was shown to be theirs
    redeemed,   \* history: redeemed[l]: how often l was redeemed
    via         \* history: via[i]: the users whose session i's profile got

accountsVars == <<users, linked, links, req, minted, proved, redeemed, via>>

UserIds == 1 .. MaxUsers
LinkIds == 1 .. MaxLinks
LinkKinds == {"verify_email", "reset_password"}

\* password: password_hash is not null; gone: the account was deleted.
UserRows == [email : Emails \cup {None}, password : BOOLEAN,
             verified : BOOLEAN, gone : BOOLEAN]
LinkRows == [user : UserIds, kind : LinkKinds, good : BOOLEAN]

(* at: the query that comes next.  profile: None for all but social logins.  *)
(* mark: markEmailVerified is still to come.  kind: of the link to be made.  *)
Queries == {"none", "createUser", "createAuthToken", "getUserByEmail", "linkIdentity",
            "updatePasswordHash", "markEmailVerified", "createSession"}
Requests == [at : Queries, email : Emails \cup {None}, profile : Profiles \cup {None},
             user : 0 .. MaxUsers, mark : BOOLEAN, kind : LinkKinds]

NoRequest == [at |-> "none", email |-> None, profile |-> None, user |-> 0,
              mark |-> FALSE, kind |-> "verify_email"]

AccountsInit ==
    /\ users = <<>> /\ links = <<>>
    /\ linked = [i \in Profiles |-> 0]
    /\ req = [s \in Slots |-> NoRequest]
    /\ minted = {} /\ proved = {}
    /\ redeemed = [l \in LinkIds |-> 0]
    /\ via = [i \in Profiles |-> {}]

\* profile: emailVerified
EmailVerified(i) == i \in Vouched

ByEmail(e) == {u \in DOMAIN users : users[u].email = e}
Idle(s)    == req[s].at = "none"
At(s, q)   == req[s].at = q
Over(s)    == req' = [req EXCEPT ![s] = NoRequest]
GoesOn(s, q) == req' = [req EXCEPT ![s].at = q]

-----------------------------------------------------------------------------
(* Registration and links.  Each action that starts a request is its first   *)
(* query: what a route checks before that is its arguments.                  *)

\* getUserByEmail finds nobody; the handle is free, or taken (then no user).
Register(s, e) ==
    /\ Idle(s) /\ ByEmail(e) = {}
    /\ req' = [req EXCEPT ![s] = [NoRequest EXCEPT !.at = "createUser", !.email = e]]
    /\ UNCHANGED <<users, linked, links, minted, proved, redeemed, via>>

\* Mutant: the column has no unique index.
MailFree_Always(e) == TRUE

\* idx_users_email
MailFree(e) == ByEmail(e) = {}

(* The INSERT, for a registration or for a profile.  If another request has  *)
(* taken the address (or the handle) meanwhile, this one fails.              *)
CreateUser(s) ==
    LET r == req[s]
        u == Len(users) + 1
    IN
    /\ At(s, "createUser") /\ Len(users) < MaxUsers
    /\ MailFree(r.email)
    /\ users' = Append(users, [email |-> r.email, password |-> r.profile = None,
                               verified |-> EmailVerified(r.profile), gone |-> FALSE])
    /\ req' = [req EXCEPT ![s].user = u,
                          ![s].at = IF r.profile = None THEN "createAuthToken" ELSE "linkIdentity"]
    /\ proved' = IF r.profile = None THEN proved ELSE proved \cup {u}
    /\ UNCHANGED <<linked, links, minted, redeemed, via>>

AskLink(s, u, kind) ==
    /\ Idle(s) /\ users[u].email # None
    /\ req' = [req EXCEPT ![s] = [NoRequest EXCEPT !.at = "createAuthToken",
                                                  !.user = u, !.kind = kind]]
    /\ UNCHANGED <<users, linked, links, minted, proved, redeemed, via>>

ResendVerification(s, u) == ~users[u].verified /\ AskLink(s, u, "verify_email")

\* Accounts without a password have none to reset.
Forgot(s, u) == users[u].password /\ AskLink(s, u, "reset_password")

\* createAuthToken; the mail goes to the address that the request was about.
CreateLink(s) ==
    /\ At(s, "createAuthToken") /\ Len(links) < MaxLinks
    /\ links' = Append(links, [user |-> req[s].user, kind |-> req[s].kind, good |-> TRUE])
    /\ Over(s)
    /\ UNCHANGED <<users, linked, minted, proved, redeemed, via>>

\* Mutant: the UPDATE does not look at used_at.
Redeemable_Again(l) == links[l].good \/ redeemed[l] > 0

Redeemable(l) == links[l].good

\* consumeAuthToken, one UPDATE; the link is spent whatever follows.
Redeem(s, l) ==
    /\ Idle(s) /\ Redeemable(l)
    /\ links' = [links EXCEPT ![l].good = FALSE]
    /\ redeemed' = [redeemed EXCEPT ![l] = @ + 1]
    /\ proved' = proved \cup {links[l].user}
    /\ req' = [req EXCEPT ![s] = [NoRequest EXCEPT !.user = links[l].user,
                 !.at = IF links[l].kind = "verify_email" THEN "markEmailVerified"
                        ELSE "updatePasswordHash"]]
    /\ UNCHANGED <<users, linked, minted, via>>

LinkExpires(l) ==
    /\ links[l].good
    /\ links' = [links EXCEPT ![l].good = FALSE]
    /\ UNCHANGED <<users, linked, req, minted, proved, redeemed, via>>

UpdatePasswordHash(s) ==
    /\ At(s, "updatePasswordHash")
    /\ users' = [users EXCEPT ![req[s].user].password = TRUE]
    /\ GoesOn(s, "markEmailVerified")
    /\ UNCHANGED <<linked, links, minted, proved, redeemed, via>>

MarkEmailVerified(s) ==
    /\ At(s, "markEmailVerified")
    /\ users' = [users EXCEPT ![req[s].user].verified = TRUE]
    /\ GoesOn(s, "createSession")
    /\ UNCHANGED <<linked, links, minted, proved, redeemed, via>>

-----------------------------------------------------------------------------
(* Getting in.                                                               *)

\* Mutant: the e-mail need not be verified.
MayLogIn_Unverified(u) == users[u].password

MayLogIn(u) == users[u].password /\ users[u].verified

\* The password is right; what failures cost is in module Logins.
Login(s, u) ==
    /\ Idle(s) /\ users[u].email # None /\ MayLogIn(u)
    /\ req' = [req EXCEPT ![s] = [NoRequest EXCEPT !.at = "createSession", !.user = u]]
    /\ UNCHANGED <<users, linked, links, minted, proved, redeemed, via>>

\* exchangeCode: the provider names the profile and its address, or it fails.
ExchangeCode(i) == [NoRequest EXCEPT !.profile = i, !.email = ProfileMail[i]]

\* findUserByIdentity; a profile without an address makes no account.
Callback(s, i) ==
    LET r == ExchangeCode(i) IN
    /\ Idle(s)
    /\ \/ linked[i] # 0
          /\ req' = [req EXCEPT ![s] = [r EXCEPT !.at = "createSession", !.user = linked[i]]]
       \/ linked[i] = 0 /\ ProfileMail[i] # None
          /\ req' = [req EXCEPT ![s] = [r EXCEPT !.at = IF EmailVerified(i)
                                             THEN "getUserByEmail" ELSE "createUser"]]
    /\ UNCHANGED <<users, linked, links, minted, proved, redeemed, via>>

FindByEmail(s) ==
    /\ At(s, "getUserByEmail")
    /\ \/ /\ ByEmail(req[s].email) = {}
          /\ GoesOn(s, "createUser")
          /\ UNCHANGED proved
       \/ \E u \in ByEmail(req[s].email) :
          /\ req' = [req EXCEPT ![s].at = "linkIdentity", ![s].user = u,
                                ![s].mark = ~users[u].verified]
          /\ proved' = proved \cup {u}
    /\ UNCHANGED <<users, linked, links, minted, redeemed, via>>

\* ON CONFLICT DO NOTHING: the first one to link a profile decides.
LinkIdentity(s) ==
    LET i == req[s].profile IN
    /\ At(s, "linkIdentity")
    /\ linked' = IF linked[i] = 0 THEN [linked EXCEPT ![i] = req[s].user] ELSE linked
    /\ GoesOn(s, IF req[s].mark THEN "markEmailVerified" ELSE "createSession")
    /\ UNCHANGED <<users, links, minted, proved, redeemed, via>>

CreateSession(s) ==
    LET r == req[s] IN
    /\ At(s, "createSession")
    /\ minted' = minted \cup {r.user}
    /\ via' = IF r.profile = None THEN via ELSE [via EXCEPT ![r.profile] = @ \cup {r.user}]
    /\ Over(s)
    /\ UNCHANGED <<users, linked, links, proved, redeemed>>

-----------------------------------------------------------------------------
\* DELETE /api/auth/me, by a session of u; the rest of it is in Credentials.
DeleteAccount(u) ==
    /\ u \in minted /\ ~users[u].gone
    /\ users' = [users EXCEPT ![u] = [email |-> None, password |-> FALSE,
                                      verified |-> FALSE, gone |-> TRUE]]
    /\ linked' = [i \in Profiles |-> IF linked[i] = u THEN 0 ELSE linked[i]]
    /\ links' = [l \in DOMAIN links |-> IF links[l].user = u
                                       THEN [links[l] EXCEPT !.good = FALSE] ELSE links[l]]
    /\ UNCHANGED <<req, minted, proved, redeemed, via>>

\* A query fails, a unique index refuses, the process dies: what is done stays.
Fail(s) ==
    /\ ~Idle(s)
    /\ Over(s)
    /\ UNCHANGED <<users, linked, links, minted, proved, redeemed, via>>

AccountsNext ==
    \/ \E s \in Slots :
        \/ \E e \in Emails : Register(s, e)
        \/ \E u \in DOMAIN users : Login(s, u) \/ ResendVerification(s, u) \/ Forgot(s, u)
        \/ \E l \in DOMAIN links : Redeem(s, l)
        \/ \E i \in Profiles : Callback(s, i)
        \/ CreateUser(s) \/ CreateLink(s) \/ UpdatePasswordHash(s) \/ MarkEmailVerified(s)
        \/ FindByEmail(s) \/ LinkIdentity(s) \/ CreateSession(s) \/ Fail(s)
    \/ \E l \in DOMAIN links : LinkExpires(l)
    \/ \E u \in DOMAIN users : DeleteAccount(u)

AccountsSpec == AccountsInit /\ [][AccountsNext]_accountsVars

-----------------------------------------------------------------------------
AccountsTypeOK ==
    /\ users \in Seq(UserRows) /\ Len(users) <= MaxUsers
    /\ linked \in [Profiles -> 0 .. Len(users)]
    /\ links \in Seq(LinkRows) /\ Len(links) <= MaxLinks
    /\ req \in [Slots -> Requests]
    /\ minted \subseteq DOMAIN users /\ proved \subseteq DOMAIN users
    /\ redeemed \in [LinkIds -> Nat]
    /\ via \in [Profiles -> SUBSET DOMAIN users]

(* Nobody gets into an account, and no address counts as verified, before a  *)
(* link has come back from its inbox or a provider has vouched for the       *)
(* address or the profile the account was made for - through every mixture   *)
(* of registrations, links, logins and callbacks under way at once           *)
(* (src/server.js:270-379).                                                  *)
SessionMeansProved ==
    /\ minted \subseteq proved
    /\ \A u \in DOMAIN users : users[u].verified => u \in proved

(* One profile leads into one account: callbacks of it that run at the same  *)
(* time, before it is linked, end in the same account or in an error         *)
(* (src/server.js:270-295, src/db.js:360-367).                               *)
SameProfileSameUser ==
    \A i \in Profiles : Cardinality({u \in via[i] : ~users[u].gone}) <= 1

(* A mailed link is redeemed once at most, though two requests may bring it  *)
(* at the same time (src/auth.js:211-225).                                   *)
LinksRedeemedOnce == \A l \in LinkIds : redeemed[l] <= 1

=============================================================================
