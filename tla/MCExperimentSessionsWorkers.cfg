CONSTANTS
  Costs = {0}
  w1 = w1
  w2 = w2
  c1 = c1
  c2 = c2
  NoOne = NoOne
  Workers = {w1, w2}
  Clients = {c1}
  NRuns = 1
  Backends = {"postgres", "sqlite"}
  MaxRows = 2
  MaxJobs = 2
  MaxEdits = 1
SPECIFICATION FairSpec
CHECK_DEADLOCK FALSE
PROPERTY NoStaleCall ExecutedRunsAreKept RequestsAnswered
