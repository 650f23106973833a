# Buildhall in TLA+

Buildhall is a meeting place for people and their AI agents: an Express/PostgreSQL
server with WebSockets, an OAuth server and MCP tools (`src/`), a browser client
(`public/`), and programs that run on a user's computer (`bridge/`, `connector/`,
`scripts/`). This directory holds models of the parts of it whose correctness
depends on the order in which things happen, TLC runs that check them on small
instances, and TLAPS proofs of every invariant and every action property that the runs check.

Paths below are relative to the repository's root.

## The one idea behind all the modules

The server is one Node.js process in front of PostgreSQL. A handler runs without
interruption from one `await` to the next and anything may happen in between;
there is no lock, no `SELECT ... FOR UPDATE`, and hardly a transaction. So

* a *call slot* `call[r]` is a handler in flight: where it has got to (`pc`), its
  operands, and what it has read and not looked at again;
* an action is the code from one `await` to the next: usually one query and the
  decisions taken on its answer. Code between two awaits that no other code can
  tell apart from its neighbour is merged with it;
* tables are variables and survive `Crash`; call slots and sockets do not;
* every handler may fail at any of its queries (`Fail`): the answer is a 500 and
  a transaction rolls back;
* variables under the heading "history" are read by properties, by no handler.

Ids come from constant sets (what a sequence can hand out); a row that does not
exist yet has `None` where its owner would be. A raw token is the identity of its
row; hashing, names and wording are abstracted.

## Inventory

| component | state | operations | hard behaviour | correct when |
|---|---|---|---|---|
| **Credentials** (`src/auth.js`; `/api/auth/*`, `/api/setup/agents`, suspension and upgrade in `src/server.js`) | `sessions`, `bridge_tokens`, `users.suspended_at`; `liveSockets` in memory | log in, resolve a token, mint, one-click setup, revoke a token, log out, delete the account, suspend, open and close sockets | token resolution is several queries; a mint races a revocation; a revoking transaction fails half way; an upgrade is in flight during a logout | nothing dead is let in, a revocation reaches all it must and nothing else, sockets are severed |
| **Projects** (groups routes, `src/db.js`) | `groups`, `memberships` | create, join, leave, kick, freeze, unfreeze, delete, restore, moderation freeze; the guards of posting and listening | every check is a read some awaits before the write | who acts had the right to; an admin is not lost by someone else's act; moderation's word stands |
| **Device pairing** (`/api/pair/*`, `bridge/server.mjs`, `bridge/public/app.js`) | `pairings`; the bridge's `pendingPair` and `account` | start, approve, claim, poll | overlapping polls, two approvers, lost and reordered answers, restarts on both sides, expiry | the session handed over is the approver's, the raw token does not stay in the table, an approval is eventually claimed |
| **OAuth grants** (`src/mcp-oauth.js`) | `oauth_codes`, `oauth_refresh_tokens`, bridge tokens, `agent_permissions` | approve, redeem, refresh with rotation, revoke in the panel, set a permission | none of the token endpoint's sequences is a transaction | codes are used once, revocation kills the grant, permissions follow the rotated token |
| **Bridge connections** (`bridge/connection.mjs`) | the file, the saved offset, a pass in progress, echo marks | read new lines and post them, append what arrives, wake the agent, reconnect | bytes against characters, partial lines, an error half way through a chunk, a socket that opens after stop | every line posted, in order; history and the group's own lines never |
| **Responder** (`bridge/responder.mjs`) | lock file, offset file | take the lock, read, call the agent, append the answer | the lock is tested and written in two steps; a wake-up during a run | a message is never answered twice, and is answered |
| **Watcher** (`scripts/buildhall-watch.mjs`) | state file, counters in memory | poll, decide, run the agent | crash between save and run; counters that must bound two agents talking | history is not answered, loops end |
| **Fan-out and clients** (`broadcast`, `public/home.js`, `public/app.js`) | `messages`, rooms, the page's `lastMsgId`, sockets, timers | post, broadcast, fetch, open and lose a socket, backfill, poll with `after=` | broadcast order is not id order, nor is commit order; a gap between fetch and socket | below the last message a page shows, nothing is missing that the code could have known |
| **MCP tools and permissions** (`src/mcp.js`) | `agent_permissions`, per-token post counters | list, read, post, checkpoint | project, membership and permission are read one after the other, and the act comes after them | what an act needs was so at some moment of the call |
| **Accounts** (register, verify, reset, rename, social login) | `users`, `identities`, `auth_tokens` | register, log in, resend, forget and reset, redeem a link, provider callback, delete | uniqueness read before the insert; single-use e-mail links; callbacks of one profile at once | no session without proof of the address, a link redeemed once, one account per profile |
| **Rate limiting** (`src/rate-limit.js`) | a map of counters | check, consume, reset, sweep | check before the await, count after it | the limit is not exceeded by more than what is in flight |
| **Moderation scan, reports** (`src/moderation.js`) | `mod_scanned_at`, flags, reports | scan, review, resolve | overlapping passes, rows that keep failing | what is marked was judged, what was judged adverse is in the queue, what was reviewed stays reviewed |
| **Backups, storage, alerts** | objects in S3, `lastAlertDay` | timers | a check and a set around an await | at most one alert a day, copies kept as promised |

They interact by shared rows and by calls: every login path, pairing's approval and
the OAuth server end in `createSession` / `createBridgeToken`; account deletion
touches Credentials and Projects at once; the bridge, the watcher and the browser
reach the server by HTTP and by the WebSockets that Credentials opens and severs.

## Modules

| module | what it is |
|---|---|
| `CredentialAuthority` | the promise of the credential store, without tables or queries |
| `Credentials` | sessions, bridge tokens, their handlers and sockets; shown to implement `CredentialAuthority` |
| `MCCredentials` | its model-checking instance (symmetry) |
| `CredentialsProofs` | types, `NoDeadGrant`, what a revocation reaches, and that `CredentialAuthority` is implemented, for all constants |
| `Projects`, `MCProjects` | one project, its members, its freeze, its deletion |
| `ProjectsProofs` | its safety properties, for all constants |
| `Pairing` | the pairing table, the server's three routes, the bridge |
| `PairingProofs` | its safety properties, for all constants |
| `OAuthGrants`, `MCOAuthGrants` | the token endpoint |
| `OAuthGrantsProofs` | its properties, for all constants |
| `Bridge` | one file, and the connection objects that send and fill it |
| `BridgeProofs` | its safety properties, for all constants |
| `Board` | the table of messages: ids drawn, commits, broadcasts, `listMessages` |
| `Page` | what the two web clients have in common: requests, socket, thread |
| `ClassicPage`, `HomePage` | `public/app.js` and `public/home.js` on top of `Page` |
| `Watcher` | `scripts/buildhall-watch.mjs` as a reader of the board |
| `Scanner` | moderation's passes, reports, flags and reviews, on the board |
| `Tools` | the MCP tools, as calls on the board |
| `Responder` | responders as processes, the lock file, the offset file |
| `MCReaders` | the six readers above in one instance, side by side |
| `ReadersProofs` | the properties of watcher, scanner, responder and tools, for all constants |
| `PagesProofs` | the two threads, and the types of `MCReaders`, for all constants |
| `Accounts` | registration, links, reset, login, provider callbacks, deletion |
| `Logins` | the failure-counting rate limiter as the login route uses it |
| `MCAccounts` | `Accounts` and `Logins` in one instance, side by side |
| `AccountsProofs` | the properties of both, for all constants |

`Board` is extended by whoever reads it (`Page` and through it `ClassicPage` and
`HomePage`, `Watcher`, `Scanner`, `Tools`): each adds its own variables, says what a
broadcast does to it, and has others post what they like when they like. That is all
another reader can do to it, so the six are checked side by side, under a variable
`reader` that never changes, and not as a product: nothing in the code passes from one
reader to another but messages. `Logins` leaves open whether a login succeeds, which is all
that `Accounts` would tell it; the two are side by side under `part`.

The operators named `X_...` under a comment "Mutant" are not part of a
specification: each is a variant of `X` with a plausible bug, kept to show that the
property it is paired with in `PROJECT.json` can tell the two apart.

### Credentials

`owner[s]` and `parent[b]` are the `user_id` of a session and the `session_id` of a
bridge token; the user of a bridge token is derived, because every caller of
`createBridgeToken` passes the user of the session it passes. `revoked` holds rows
of either table. `held` is the set of sessions whose raw token reached a client:
one-click setup discards its sessions' tokens, and `createSession` loses the token
when its second query fails.

`Start` / `Lookup` / `LookupUser` are `requireUser` or the handshake, which read the
credential (for a bridge token joined with its session) and then the user. `late`
is the comparison with the `now` read first. `RevokeRows` is the UPDATE statements
of `revokeSession` or of the account deletion: the rows they see become the batch,
locked until `CommitRevoke` makes them visible; its answer may be lost even so (`Revoked`), and
then the handler throws before its close pass. The model takes the transaction's
statements as one step, so the order of locks inside a transaction is below its
grain (`DELETE /api/auth/me` locks tokens first and `revokeSession` sessions first;
PostgreSQL aborts one of two that wait on each other, which is `Fail`).
`CloseSockets` is the loop over `liveSockets`, which awaits nothing; for a
suspension the SELECT of the sessions is taken with the loop.

An upgrade that succeeds keeps its slot as an open socket. Sockets of a session that
expires are not closed by anything; new requests are refused.

What the code does that a reader may not expect, and the model keeps:

* A token minted while its session is being revoked is inserted behind the UPDATE
  and keeps a row that looks live (`raced`). It is useless, because the join also
  reads the session; this is why `NoDeadGrant` speaks of both.
* `resolveToken` may let in a call whose credential died after it was read. The
  promise is about the moment of arrival.
* A logout whose COMMIT takes effect but is not answered leaves its sockets open:
  `OpenSocketsSevered` starts from a handler that has reached its close pass.
* An upgrade in flight during a logout registers its socket after the close pass
  (`LogoutSevers` is violated).

### Projects

Projects do not share state, so one is modelled. `ReadGroup`, `ReadMembership`,
`CountAdmins`, `CountOthers`, `ReadTarget` and `CheckStuck` are the reads; `Join`,
`Remove`, `Freeze`, `Unfreeze`, `Trash`, `Quit`, `Post` and `Listen` the writes, none
of which looks at the row again. `seen[r]` records which of the facts that justify
a call were true at some moment since it arrived; `ActsOnceJustified` says that the
act's guards were, each at its own moment.

No route promotes or invites. So a project has at most one admin, its creator, and a
private project never has a second member. The model also shows, without a run of
their own, that a project can have members and no admin: a join between the two
counts of a leave and its DELETE, or an account deleted while the project was
soft-deleted and later restored; that a join in flight over a kick or over the
deletion of the account puts the membership back; and that a socket can be opened
on a soft-deleted project, because the upgrade uses `getGroupById`.

### Pairing

The server's routes are split at their queries; the bridge's `/api/pair/status`
handler at its `fetch`. The panel polls every two seconds and does not wait for the
previous poll, so several claims may be in flight. `heard` says that the bridge
process that sent a request still runs; a restart forgets `pendingPair`, which is
not saved, while the server goes on with what it was asked.

The model also shows, without runs of their own: two overlapping polls are handed the
same token (`claim` reads, then scrubs); an approval that read the row before another
approval and its claim parks its own token on the claimed row; and when a 410
overtakes the answer with the token, `pendingPair.base` throws in the token's
continuation, the error is taken for a network failure and the token is lost. What
does hold is that a token that has been handed over is in no row any more, and that
the name that comes with a session is its owner's.

`POST /api/account/login` on the bridge is not modelled: it sends `username` to a
route that looks the user up by `email`, so it does not succeed.

### OAuthGrants

A grant is a row of `oauth_refresh_tokens`. One user, one client and one project are
modelled, since handlers of others touch other rows. A code or a refresh token
presented with a wrong client, redirect or verifier changes nothing and is left out.
The session under an access token is never handed out; it dies with the account
only, and has no variable.

`SealedStaysDead` is about grants whose agent was revoked in the panel while no
request of theirs was being answered. A refresh in flight over the revocation can
survive it, two concurrent refreshes can leave two live tokens or kill the grant,
and a crash between `Rotate` and `LinkRefresh` leaves a grant that the next refresh
takes for revoked by the user; the model keeps all three.

### Bridge

The file is a sequence of characters, each of one byte or of two; a line is one
character and a newline, which is enough to tell a whole line from a cut one, and
bytes from characters. The agent's write is two steps, so a line of the group can
land on half of one; two lines on top of each other do not parse and are passed over.

`conn[c]` is a `Connection` object. `Pass` is `drain` up to its first await: it reads
the file, chooses the lines to send (`batch`) and computes the offset after them;
`Land` is the server's part of a post, `Answer` and `PostFails` are its continuation,
and `Answer` marks and sends the next line in the same step. `pc` is about the
socket: while "connecting" an object awaits the two requests of `connectOnce`, a timer
or a handshake. Stopping it clears the timer and closes the socket it knows; the
requests come back to an object that does not look at `stopped`. So a removed
connection may be left connecting (`Stopped`), open a socket and write to the file,
and its pass goes on as well; `Launch` makes the next object for the file meanwhile.

A mark is deleted when a message is found to be older than 30 s. The model lets that
happen to any mark but that of the post being awaited, that is, it assumes that a post
takes less than 30 s.

What the model also shows, without runs of their own: an error in the middle of a
chunk makes the next pass post again what had been answered, with or without a
restart, although `README.md:150` says that a restart resumes "instead of
re-sending"; a bridge that is restarted before its first pass has ended takes the end
of the file for its offset and never sends the lines in between (`skipped`); a removed
connection that was connecting goes on writing, so after a restart each message is
written twice; its pass posts lines that the new object posts too, and may save an
older offset over a newer one; messages sent while the socket is down are never
written; and someone else's message with the text of a line sent within the last 30 s
is taken for an echo.

### Board, Page, ClassicPage, HomePage

A message has an id from the moment its INSERT runs, is seen by queries once that is
committed and is broadcast when its handler is told so; `stage` is where it is. Ids of
one project can become visible, and be broadcast, in another order than they were drawn
in, because posts with attachments are transactions of several statements and
because answers of the database pool come back in any order.

`Page` has the requests in flight with their answers (`asks`), the socket as the server
and as the page see it (`ws`: the server adds it to the room before the page hears of
it, and may lose it before the page is told), and the thread (`shown`).
`ClassicPage` is `public/app.js`: history, socket, then a backfill with live messages
held back until it is there, and a reconnect timer. `HomePage` is `public/home.js`:
history, then the socket without a backfill, polling once a socket has closed and in
projects of others, and a composer whose answer is shown at once.

`excused` collects, at the step that causes it, the messages that the code passes over
although they are there, each for a reason the code states or cannot help: committed
or broadcast after a later id; a backfill that failed or was full; for
`home.js`, told between the history's query and the socket's room, or before an own post whose
answer came first. Choosing a project, be it the one shown, clears thread and cursor and calls nothing off
(`BeginThread`): requests under way and the socket in use are then `stale`, and neither page
can tell their messages from its own. A live message of the old socket may be shown before
the history, which is then dropped as not above it (`public/app.js:308-333`, 383-386); in
`home.js` the answer to an own post or a poll of the project left lands in the new thread
(426, 526), whose cursor it moves. `stray` is the last id that something stale has put in the
thread; what is missing below it is lost until the thread begins anew, whereupon `stray` is 0
again. `HolesExcused` says that there is no other hole, at any time and in every thread: a hole
above `stray` is excused by name or does not exist.

This excepts what the two pages do lose: messages broadcast out of order, and, in `home.js`,
those between the history and the socket. The properties are about the rest of the machinery: which
frames wait for which backfill, what a cursor covers, what an answer that arrives
late or fails leaves behind, and that none of the exceptions hides more than itself.

What the model also shows, without runs of their own: the comment at
`public/app.js:558` ("backfill retries next reconnect") does not bring the messages
back, since live ones have moved the cursor past them; messages held back are shown
whatever project is open by then; a history with `after=0` is the *oldest* 200
messages of the project, so in a longer one a page shows the beginning and then what
comes live; `home.js` opens a second socket while the first is closing.

### Watcher

One process after another; `lastSeen` is on disk, chain, cooldown and hourly
count are in memory. `Setup` is a first run or one with an expired token, `StartAgain` the
restart by the operating system. `Read` takes a page and saves `lastSeen` in the same step,
because nothing is awaited between; the run of the CLI is `Run` and `RunEnds`, between which
the process may end: the messages in hand are then answered by nobody. Time
is left out: cooldowns end and hours pass at any step, which only allows more runs.

`LoopsDieOut` is stated with the words of humans that there are, because each renews the agents'
budget, and each on a page of its own does so anew. The comment at
`scripts/buildhall-watch.mjs:318` ("never respond to history") is true of the first
page of 50 only: what lies behind it is answered on the next polls.

### Responder

A responder is a process: test of the lock file, its writing, the reading of the
lines, the moving of the offset, the CLI and the answer are steps of their own, and it may be
killed at each. Two responders that both find no lock both write one and both
answer; the model keeps it, and `AnsweredOnce` speaks of histories without such an overlap
(`broken`). Agents connect twice on one file when they are connected to a group
twice, each connection with a wake-up of its own.

### Scanner

A pass picks its batch and works on it one message at a time; passes are started by a
timer that does not wait for the one before. `InScope` is the query's condition: a report
puts every message of its project in scope, as each report carries its project. An error of
the classifier leaves the row unmarked (the comment at `src/moderation.js:66-67` says
that rows are marked regardless and nothing is classified twice), so the same message may be
classified by two passes and rows that always fail can fill the batch for good. What
does hold is `ScannedWasJudged` and `ReviewStands`.

### Tools

A tool call is the queries of `memberProject` and `requireParticipate` (or of
`listGroupsForUser`) one by one, then the act. Around it the operator joins, leaves, and
turns the dial - with the check of the dial's handler apart from its upsert -, and
others freeze, delete and restore. `had` collects what was so at some moment since the
call began. Posts through REST do not look at the dial at all; only tools do
(the comment at `src/mcp.js:104-107` names "watch" as the default where `src/db.js:607`
has "none").

### Accounts

Requests are split at their queries. `users`, `linked` and `links` are the tables
`users`, `identities` and `auth_tokens`; the unique indexes are guards of the inserts, and
a refused insert is `Fail`. `proved` are the users whose inbox or profile has been
shown to be theirs, `via[i]` those in whose account profile `i` has ended.
`consumeAuthToken` is one UPDATE and one step. The session is created here; its life is
`Credentials`'.

The model also shows that a deletion that runs between a callback's look-up and its
`linkIdentity` leaves the profile linked to the deleted user. Handles and the one-time
rename are left out: two concurrent renames both pass the test that `src/db.js:220`
calls "ONCE".

### Logins

An entry of the limiter's map is identified by key and number, because a request that has met
an entry counts on it even when a success or the sweep has dropped it from the map.
`MissesBounded` says what the limit is worth then: with `n` logins at once, no more than
limit - 1 + 2n failures, twice `n` because of those orphaned entries.

## Runs

| run | bounds | checks | result |
|---|---|---|---|
| `credentials` | 1 user, 2 sessions, 1 bridge token, 2 slots | `TypeOK`, `NoDeadGrant`, `SetupAgentsKept`, `NoLiveChildLeftBehind`, `RevocationScope` | hold, 2.9 M states |
| `credentials_authority` | 1 user, 1 session, 1 bridge token, 2 slots | `OpenSocketsSevered`, `ImplementsAuthority` | hold, 250 K states |
| `logout_severs` | the same | `LogoutSevers` | violated |
| `projects` | 2 users, 2 slots, all handlers | `TypeOK`, `ActsOnceJustified`, `LastAdminLeavesAlone`, `PrivateStaysClosed`, `AdminsOnlyRemoveThemselves` | hold, 1.6 M states |
| `moderation_freeze` | the same | `ModerationFreezeStands` | violated |
| `pairing` | 1 pairing, 2 sessions, 2 people, 2 slots | `TypeOK`, `NameMatchesSession`, `HandedIsScrubbed`, `ApprovedIsClaimed` | hold, 60 K states |
| `oauth_grants` | 1 code, 2 grants, 3 tokens, 2 slots | `TypeOK`, `DialsRideAlong`, `SealedStaysDead` | hold, 550 K states |
| `oauth_codes` | the same | `CodesSingleUse` | violated |
| `bridge` | 2 objects, 4 events, of which a restart takes two | `TypeOK`, `OffsetWithinFile`, `GroupLinesNotPostedBack`, `HistoryNotSent`, `PostsInFileOrder`, `OwnPostsNotWritten`, `LinesReachTheGroup` | hold, 610 K states |
| `bridge_wide_lines` | 1 object, 2 lines | `EveryLineSent` | violated |
| `readers` | 2 projects; pages: 3 messages, answers of 2, 2 requests, 2 faults; watcher: 4 messages, pages of 2, 2 lives; responder: 2 connections, 2 processes, 4 lines, 2 kills; scanner: 2 passes, 2 messages, 1 fault; tools: 1 call, 4 turns | `TypeOK`, `ClassicThreadWhole`, `HomeThreadWhole`, `LoopsDieOut`, `WokenOnce`, `AnsweredOnce`, `ScannedWasJudged`, `ActsHadLeave`, `ReviewStands` | hold, 4.4 M states |
| `accounts` | 1 address, 2 profiles (one vouched for), 2 slots, 2 users, 2 links; logins: 1 address, 2 clients, limits 1 and 1, 2 at once, 3 entries per key | `TypeOK`, `SessionMeansProved`, `SameProfileSameUser`, `LinksRedeemedOnce`, `MissesBounded` | hold, 3.8 M states |

Why the bounds are enough. The hazards are races of two handlers, so two slots; a
third handler that has finished leaves its trace in the tables, and slots are
reused, so histories of any number of handlers are covered as long as no more than
two overlap. Credentials needs two sessions for the difference between "this
session" and "this user", and one bridge token because tokens do not refer to each
other; that one user's handlers never touch another's rows is proved
(`RevocationStaysInScope`) rather than checked on two users. The bridge's four events cover two lines, a message of
someone else and a fault in any order, and with a restart any two of these; the
behaviours listed under Bridge above all occur within them. Pairing needs two
people and two sessions for two approvals. OAuthGrants needs three tokens for two
rotations of a grant and two grants for a code used twice. In `readers` three messages are enough
for one to be overtaken and another to overtake, and answers of two for a page that is full; a
second project is needed for what a page or a watcher must not mix up. A fault of a page is a
project chosen, a request or socket lost, or a restart of the server; two open a thread and
disturb it, or open it anew. The two thread properties were also checked with three faults,
alone and outside the time of a regular run: they hold, on 8.6 M (`app.js`) and 15 M (`home.js`)
states. Four
messages and pages of two give the watcher a baseline and a backlog behind it, two lives a
crash in between. The responder's four lines are one from before, and three that
two processes can race for; two kills let a lock be left behind and age. Two passes of
the scanner overlap on two messages. One tool call suffices, since calls touch nothing of
each other but the count of posts; `AgentsHadLeave` is proved for any number. In `accounts` two
requests and two users give each race of two registrations, callbacks, links and
deletions; one address is the case in which they meet.

The bounds on messages, faults, lives, turns and entries are constants whose names begin
with `Max` or end in `Messages` (and `MaxEvents` of the bridge); each guards the action that
would exceed it. `FewElsewhere` is a state constraint of `readers`: a page's run has one message
at most in projects it is no member of. Apart from these, state spaces are finite because ids run out. Symmetry is used
in runs without liveness only.

The three runs `logout_severs`, `moderation_freeze` and `oauth_codes` are where a comment of the code says more than the code
does; `PROJECT.json` quotes the lines.

* **`LogoutSevers`** ("log out" genuinely severs the agent, `src/server.js:517-518`):
  a handshake resolves its token; the logout revokes, commits and closes the sockets
  it finds; then the handshake registers its socket.
* **`ModerationFreezeStands`** ("only moderation can lift it afterwards",
  `src/server.js:793`): the project's admin asks to freeze; the row is read unfrozen;
  moderation freezes; the admin's UPDATE sets `frozen_by = 'group_admin'`, which the
  admin can then lift. The same with an unfreeze that read the admin's own freeze.
* **`CodesSingleUse`** (`src/mcp-oauth.js:16`): two redemptions read the code unused,
  then both mark it, then both mint.

* **`EveryLineSent`** ("To SEND, append one line of JSON", `README.md:125`): nothing
  fails; a line with a character of two bytes is posted; the offset is then one past
  the characters read, so the next line is cut, does not parse, and is passed over.
  Existing history with such characters has the same effect from the first start.
  This one is a bug rather than a race.

## Fairness

`Credentials!FairSpec` asks weak fairness of `CloseSockets(r)` only: after the
revocation's query has answered, nothing is awaited on the way to the loop over the
sockets, so Node's event loop runs it or the process dies.

`Pairing!FairSpec` asks weak fairness of each slot's next step (a request is answered
or fails), strong fairness of polling (the panel's interval keeps firing while a
pairing is pending; a slot must be free from time to time), and strong fairness of
the two queries of a claim: the network and the database do not fail for ever. The
property still allows the pairing to expire and the bridge to give up on it, by a
restart or a 410.

`Bridge!FairSpec` asks weak fairness of a pass (the poll timer runs every two seconds,
connected or not) and of the two halves of a post. Failures are bounded by
`MaxEvents`: the network does not fail for ever.

## Proofs

Every invariant and every action property of a passing run is a theorem about the
specification for all values of the constants, and so is the refinement. The proof
modules extend the component they are about; the assumptions are the named `ASSUME`s
of the modules, which say that ids of different kinds differ, that bounds are numbers
and, where the code counts them, that users or slots are finitely many.

`CredentialsProofs`, from `IdsAssumption` alone:

* `TypeCorrect`: `Spec => []TypeOK`.
* `DeadNeverGranted`: `Spec => []NoDeadGrant`. Not inductive as it stands. `IInv`
  adds that rows named by slots and by foreign keys exist and are never reparented
  (`ForeignKeys`), what an operation says of its operands (`Operands`), and, for a
  call that must be refused, that the reason is still there when the query that
  finds it is run (`Doomed`): a credential dead on arrival is revoked or was judged
  expired by `now`; a user blocked since arrival is still suspended.
* `NoOrphanTokens`, `SetupAgentsOutliveLogouts`, `RevocationStaysInScope`: the revoking
  transaction chooses its rows in one step and shows them in another, so `RInv` speaks
  of the batch in between: its rows are the caller's (`Batches`); if it holds a
  session it holds every child that was not minted behind its back (`Caught`);
  sessions made by setup are held by nobody and so in no logout's batch (`Unheld`,
  `RevokedRows`).
* `CredentialsImplementAuthority`: `Spec => ImplementsAuthority`, the refinement of
  `CredentialAuthority`. Initial states map to initial states. Most handlers' steps map to the
  authority's one step in which credentials die, users are blocked and calls end, or to none
  (`KillStep`); inserting rows, presenting a credential, letting a call in and lifting a
  suspension have a lemma each. It is `IInv` that shows a call that is let in to be
  one the authority lets in.

`ProjectsProofs`, from `HandlersAssumption` (the set of users is
finite, since the code counts them): `ProjectsTyped`, `ActsJustified`,
`AdminLeavesAlone`, `PrivateIsClosed` and the action property `AdminsGoByThemselves`.
`PInv` adds that a project's only admin is its creator (`GroupOK`) and, place by place, what
a handler's reads still guarantee while others write (`CallOK`): once there is a
project nobody is made an admin and nobody let into a private one (`World`), so "the
target is no admin" and "the caller is the creator" stay true after they were read, while
"unfrozen" and "alone" may not, and are facts of the past.

`OAuthGrantsProofs`, from `DistinctAssumption`: `GrantsTyped`, `DialsAreKept`, and the action
property `SealedIsDead`. `GInv` knows how far a refresh can be whose grant is sealed (never
past the place that finds the token revoked), and that the token a refresh has minted is
named by no other request until it is linked (`Apart`), so that nobody copies permissions to or
from it.

`PairingProofs`, from `NoneAssumption`: `PairingTyped`, `NamesMatch`, `HandedAreScrubbed`. A
claim answers with what it read a query ago and an approval writes without looking again;
what carries the properties is that a session minted for an approval is in one place at
a time: with the approval (`Apart`), in one row, or with the claims of that very row.

`AccountsProofs`, from `AccountsAssumption`: `SessionsAreProved`, `LinksOnce`,
`ProfilesHaveOneUser`. A request that will mint a session was granted its user queries ago
(`ReqOK`); whatever user a profile gets to has the profile's address, unless deleted, and
addresses are unique (`Fits`, `UsersOK`). And from `LoginsAssumption`, `FailuresAreBounded`:
the limiter holds back new logins only, so `Limits` counts the failures that may still come
together with those that have. A login under way is either charging, and then the entry's count
and the charging logins stay below the limit and the logins there are; or stray, having met
an entry that is gone, and then the failures the present entry does not know of and the
stray logins are no more than the logins there are. `AccountsAndLoginsTyped` is the type
invariant of `MCAccounts`.

`BridgeProofs`, from `TextsAssumption`: `BridgeTyped`, `OffsetsStayWithin`,
`NothingPostedBack`, `HistoryStays`, `PostsAreInOrder` and the action property
`OwnPostsStayOut`. `BridgeInv` knows what the characters of the file are (`FileInv`) and
adds, for each connection object whether stopped or not: its offsets are within the file and
past the first character (`Offsets`); the batch in hand is of whole lines of the agent behind the
offset, and its first is marked while it is being posted (`Batches`); the object knows
which messages are its own, but for the one whose answer it awaits (`Echoes`). Order
was the difficult one, because a pass that failed is repeated from its beginning: a line that
can still be posted though a later one was, has been posted before that
(`Replays`), and the lines of a batch are all that there is to post between its first and
last.

`ReadersProofs`, for each of four readers under its own specification:

* Watcher, from `WatcherAssumption` and `BoardAssumption`: `NobodyIsWokenTwice`, because what
  has been read of a project lies at or below its `lastSeen` (`Passed`), and a page has only
  what is above; and `AgentLoopsDieOut`, because the
  answers given to agents and what is left of the budget are paid for by the words of humans
  read (`Paid`, with `InHand`: what the CLI is started for is of one project and calls the agent).
* Scanner, from `ScannerAssumption`: `MarkedWasJudged`, because a pass that is about to mark a
  row has acted on a verdict itself (`Judging`), and the action property `ReviewsStand`.
* Responder, from `ResponderAssumption`: `LinesAnsweredOnce`. While no lock is
  broken, a responder at work owns the lock, and what has been taken is behind the offset and
  behind what whoever holds lines has read (`Entered`, `Fresh`).
* Tools, from `ToolsAssumption`: `AgentsHadLeave`. At each query a call's past covers
  what it has read (`Learnt`), and what stands (`Fresh`).

`PagesProofs`, from all assumptions of `MCReaders`: `ClassicThreadIsWhole` and
`HomeThreadIsWhole`. The holes in a thread are made where an answer or a frame comes out
of turn, so the invariant follows every message on its way to the page. Of an answer
it says that behind its cursor nothing is missing up to its last message (`Gapless`, which
rests on what `LIMIT` does to an ordered page: `OldestFirst` and `ShortPageIsAll`); of
the frames that wait, on the socket or held back by a backfill, that one which comes after
a later id is excused (`InTurn`, `Precedes`); of an open socket, that each message told
is shown, excused, or waits (`Accounted`), or is covered by the backfill under way (`Covers`).
None of this is known of stale requests and sockets: of these the invariant says only
which messages they can bring at all (`Known`, `SocketOK`), and whatever they do bring joins what
is given up (`Lost`: the excused, and all up to `stray`; `WholeIfLost`). `ReadersTyped` is the type invariant of
`MCReaders`; for it, `ReadersInv` says that the readers that are not under way are
in their initial state.

Each of the invariants was an invariant of a TLC run on the instance above before it was
proved. Facts about least elements, which would call for induction, are proved from the
well-foundedness of strict inclusion among the finite intervals `0 .. n`, a theorem of the
library that takes no operator (`Least`).

Only model-checked: the liveness properties (`OpenSocketsSevered`, `ApprovedIsClaimed`,
`LinesReachTheGroup`), since fairness, leads-to and ENABLED are out of this prover's reach.
`LogoutSevers`, `ModerationFreezeStands`, `CodesSingleUse` and `EveryLineSent` are refuted by
their runs. `WatcherSpec`, `ScannerSpec`, `ResponderSpec`, `ToolsSpec`, `AccountsSpec` and
`LoginsSpec` are the components alone; in `MCReaders` and `MCAccounts` they take the same
steps with the other components' variables unchanged.

## Not modelled, and why

* **Backups, restore, storage and error alerts.** Timers around I/O in one process. A
  snapshot is one REPEATABLE READ transaction; what else there is to go wrong is in the object
  store. The day of the last alert is kept in memory, so a restart can send a second mail
  on a day (`src/storage.js:24`: "at most one per day").
* **Client registration, discovery documents, the consent page.** They keep no state the rest
  depends on.
* **Handles, display names and the one-time rename**: see Accounts.
* **Attachments' files, pinned messages, admin panels.** Reads, and bytes; that a post
  with attachments is a transaction is in `Board`.
* **The bridge's truncated files, debounce of the wake command, `BUILDHALL_REPLAY`.** The
  first is forbidden by `README.md`; the others are choices of the operator's.
* **Detecting and configuring the agents' command lines, installers, mail, the providers'
  HTTP.** I/O, modelled by its outcomes where another component waits for one.
* **Schema, migrations, one-off scripts.** Run with the server stopped; keys and
  uniqueness constraints are guards.
* **Pages, styles, brand assets.** They show what the API returns.
