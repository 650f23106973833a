\* One connection, two lines: the first may hold a character of two bytes.
CONSTANTS
    Texts = {a, w}
    Wide = {w}
    History = {a}
    MaxConns = 1
    MaxEvents = 2
    None = None
SPECIFICATION FairSpec
PROPERTY EveryLineSent
CHECK_DEADLOCK FALSE
