\* One user, one session, one bridge token, two handlers or sockets.
CONSTANTS
    Users = {u1}
    Sessions = {s1}
    Bridges = {b1}
    Calls = {r1, r2}
    None = None
SPECIFICATION FairSpec
PROPERTIES OpenSocketsSevered ImplementsAuthority
