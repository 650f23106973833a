\* Two handlers in flight between two users: what db.js says of moderation.
CONSTANTS
    Users = {u1, u2}
    Calls = {r1, r2}
    Handlers = {"post", "checkpoint", "join", "leave", "kick", "freeze", "unfreeze", "trash", "quit", "listen"}
    None = None
SPECIFICATION Spec
SYMMETRY Symmetry
PROPERTIES ModerationFreezeStands
