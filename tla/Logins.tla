------------------------------- MODULE Logins -------------------------------
(***************************************************************************)
(* What failed logins cost (src/rate-limit.js, and its use by the login    *)
(* route of src/server.js).  A limiter counts in fixed windows, one entry  *)
(* per key, in memory.  A login passes two of them, by address and by      *)
(* client, before its handler awaits the user; a failure is counted after  *)
(* that, on the entries that the request has met, and a success drops the  *)
(* entries that its keys have by then.                                     *)
(***************************************************************************)
EXTENDS Integers, FiniteSets

CONSTANTS
    Mails, Clients, \* the keys of loginByEmail and of loginByIp
    MailMax,        \* LOGIN_MAX_FAILURES
    ClientMax,      \* LOGIN_IP_MAX_FAILURES
    Tries,          \* bound: logins at once
    MaxEntries      \* bound: entries per key, one after the other

ASSUME LoginsAssumption ==
    /\ Mails \cap Clients = {}
    /\ {MailMax, ClientMax} \subseteq Nat \ {0} /\ MaxEntries \in Nat
    /\ IsFiniteSet(Tries)

VARIABLES
    hits,       \* hits[k]: the entry of k in its limiter's map
    drawn,      \* drawn[k]: entries made for k so far
    try,        \* try[t]: the entries that a login under way has met
    missed      \* history: missed[k]: failures since k's entry was made

loginsVars == <<hits, drawn, try, missed>>

Keys == Mails \cup Clients

\* id: which of k's entries it is, 0 if k has none; over: resetAt has passed.
Entries == [id : 0 .. MaxEntries, count : Nat, over : BOOLEAN]
NoEntry == [id |-> 0, count |-> 0, over |-> FALSE]
Met     == [key : Keys, id : 1 .. MaxEntries]

LoginsInit ==
    /\ hits = [k \in Keys |-> NoEntry]
    /\ drawn = [k \in Keys |-> 0]
    /\ try = [t \in Tries |-> {}]
    /\ missed = [k \in Keys |-> 0]

KeysOf(t) == {m.key : m \in try[t]}
Most(k)   == IF k \in Mails THEN MailMax ELSE ClientMax
Fresh(k)  == hits[k].id = 0 \/ hits[k].over

\* Mutant: one failure more is let through.
Passes_OneMore(k) == Fresh(k) \/ hits[k].count <= Most(k)

Passes(k) == Fresh(k) \/ hits[k].count < Most(k)

\* For the keys in K: a new entry where there is none in force.
Enter(K) ==
    /\ \A k \in K : Fresh(k) => drawn[k] < MaxEntries
    /\ drawn' = [k \in Keys |-> IF k \in K /\ Fresh(k) THEN drawn[k] + 1 ELSE drawn[k]]
    /\ hits' = [k \in Keys |-> IF k \in K /\ Fresh(k) THEN [NoEntry EXCEPT !.id = drawn'[k]]
                               ELSE hits[k]]
    /\ missed' = [k \in Keys |-> IF k \in K /\ Fresh(k) THEN 0 ELSE missed[k]]

\* loginByEmail, loginByIp, and the handler up to its first await.
Attempt(t, m, c) ==
    /\ try[t] = {} /\ Passes(m) /\ Passes(c)
    /\ Enter({m, c})
    /\ try' = [try EXCEPT ![t] = {[key |-> k, id |-> hits'[k].id] : k \in {m, c}}]

\* The client's limiter refuses; the one of the address has its entry by then.
RefusedByClient(m, c) ==
    /\ Passes(m) /\ ~Passes(c)
    /\ Enter({m})
    /\ UNCHANGED try

Answered(t) == try' = [try EXCEPT ![t] = {}]

\* Mutant: the closure looks its key up once more.
Charged_ByKey(t, k) == k \in KeysOf(t)

\* The closure that consumeFailure calls holds the entry, not its key.
Charged(t, k) == [key |-> k, id |-> hits[k].id] \in try[t]

\* A wrong password, an unknown or an unverified address.
Miss(t) ==
    /\ try[t] # {}
    /\ hits' = [k \in Keys |-> IF Charged(t, k) THEN [hits[k] EXCEPT !.count = @ + 1]
                               ELSE hits[k]]
    /\ missed' = [k \in Keys |-> IF k \in KeysOf(t) THEN missed[k] + 1 ELSE missed[k]]
    /\ Answered(t)
    /\ UNCHANGED drawn

Dropped(K) ==
    /\ hits' = [k \in Keys |-> IF k \in K THEN NoEntry ELSE hits[k]]
    /\ missed' = [k \in Keys |-> IF k \in K THEN 0 ELSE missed[k]]

\* resetOnSuccess
Succeed(t) ==
    /\ try[t] # {}
    /\ Dropped(KeysOf(t))
    /\ Answered(t)
    /\ UNCHANGED drawn

\* The query fails: neither a failure nor a success.
Break(t) ==
    /\ try[t] # {}
    /\ Answered(t)
    /\ UNCHANGED <<hits, drawn, missed>>

WindowEnds(k) ==
    /\ ~Fresh(k)
    /\ hits' = [hits EXCEPT ![k].over = TRUE]
    /\ UNCHANGED <<drawn, try, missed>>

Sweep(k) ==
    /\ hits[k].over
    /\ Dropped({k})
    /\ UNCHANGED <<drawn, try>>

\* The maps are in memory.
LoginsRestart ==
    /\ Dropped(Keys)
    /\ try' = [t \in Tries |-> {}]
    /\ UNCHANGED drawn

LoginsNext ==
    \/ \E t \in Tries : \/ \E m \in Mails, c \in Clients : Attempt(t, m, c)
                        \/ Miss(t) \/ Succeed(t) \/ Break(t)
    \/ \E m \in Mails, c \in Clients : RefusedByClient(m, c)
    \/ \E k \in Keys : WindowEnds(k) \/ Sweep(k)
    \/ LoginsRestart

LoginsSpec == LoginsInit /\ [][LoginsNext]_loginsVars

-----------------------------------------------------------------------------
LoginsTypeOK ==
    /\ hits \in [Keys -> Entries]
    /\ \A k \in Keys : hits[k].id = 0 => hits[k] = NoEntry
    /\ drawn \in [Keys -> 0 .. MaxEntries]
    /\ try \in [Tries -> SUBSET Met]
    /\ missed \in [Keys -> Nat]

(* What the limits are worth although they are looked at before the await    *)
(* and charged after it: while an entry stands, no key sees more failures    *)
(* than one less than its limit and twice the logins that may be under way   *)
(* at once - the last ones let through, and those whose own entry a success  *)
(* or the sweep has dropped meanwhile (src/rate-limit.js:39-67,              *)
(* src/server.js:340-357).                                                   *)
MissesBounded ==
    \A k \in Keys : missed[k] <= Most(k) - 1 + 2 * Cardinality(Tries)

=============================================================================
