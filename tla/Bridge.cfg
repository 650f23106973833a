\* Any four of: lines, messages of others, faults, restarts (of which one).
CONSTANTS
    Texts = {a, w}
    Wide = {w}
    History = {a}
    MaxConns = 2
    MaxEvents = 4
    None = None
SPECIFICATION FairSpec
INVARIANTS TypeOK OffsetWithinFile GroupLinesNotPostedBack HistoryNotSent PostsInFileOrder
PROPERTIES OwnPostsNotWritten LinesReachTheGroup
CHECK_DEADLOCK FALSE
