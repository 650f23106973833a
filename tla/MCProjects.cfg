\* Two users, two handlers in flight.
CONSTANTS
    Users = {u1, u2}
    Calls = {r1, r2}
    Handlers = {"post", "checkpoint", "join", "leave", "kick", "freeze", "unfreeze", "trash", "quit", "listen"}
    None = None
SPECIFICATION Spec
SYMMETRY Symmetry
INVARIANTS TypeOK ActsOnceJustified LastAdminLeavesAlone PrivateStaysClosed
PROPERTIES AdminsOnlyRemoveThemselves
