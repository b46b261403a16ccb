CONSTANTS
  c1 = c1
  c2 = c2
  t1 = t1
  t2 = t2
  Nobody = Nobody
  Clients = {c1, c2}
  Threads = {t1, t2}
  Ops = {"start", "stop", "trade", "reset", "shutdown"}
  MaxCalls = 3
SPECIFICATION FairSpec
CHECK_DEADLOCK FALSE
INVARIANTS
  ReportedStateIsTrue
PROPERTIES
  NoSessionAbandoned
  CommandsAnswered
  FlaggedThreadEnds
