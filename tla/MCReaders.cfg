SPECIFICATION Spec
CONSTANTS
  Projects = {p, q}
  Authors = {"other", "me", "human", "self", "agent"}
  None = None
  Mine = {p}
  PageLimit = 2
  PageMessages = 3
  MaxAsks = 2
  MaxFaults = 2
  Watched = {p}
  WatchLimit = 2
  MaxChain = 1
  HourlyCap = 2
  WatchMessages = 4
  MaxLives = 2
  NoOne = NoOne
  Conns = {c1, c2}
  Procs = {r1, r2}
  Before = 1
  MaxLines = 4
  MaxCrashes = 2
  Passes = {s1, s2}
  Public = {p}
  Batch = 2
  ScanMessages = 2
  MaxScanFaults = 1
  ToolCalls = {t1}
  Closed = {q}
  PostLimit = 1
  ToolMessages = 1
  MaxTurns = 4
INVARIANTS TypeOK ClassicThreadWhole HomeThreadWhole LoopsDieOut WokenOnce AnsweredOnce ScannedWasJudged ActsHadLeave
PROPERTY ReviewStands
CONSTRAINT FewElsewhere
CHECK_DEADLOCK FALSE
