CONSTANTS
    Users = {u1}
    Sessions = {s1}
    Bridges = {b1}
    Calls = {r1, r2}
    None = None
SPECIFICATION Spec
INVARIANTS LogoutSevers
