\* Two handlers in flight at once for one user.
CONSTANTS
    Users = {u1}
    Sessions = {s1, s2}
    Bridges = {b1}
    Calls = {r1, r2}
    None = None
SPECIFICATION Spec
SYMMETRY Symmetry
INVARIANTS TypeOK NoDeadGrant SetupAgentsKept NoLiveChildLeftBehind
PROPERTIES RevocationScope
