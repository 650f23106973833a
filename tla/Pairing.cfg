\* One code, two people, two requests in flight; the bridge keeps polling.
CONSTANTS
    Pairings = {p1}
    Sessions = {s1, s2}
    Users = {u1, u2}
    Calls = {r1, r2}
    None = None
SPECIFICATION FairSpec
INVARIANTS TypeOK NameMatchesSession HandedIsScrubbed
PROPERTIES ApprovedIsClaimed
