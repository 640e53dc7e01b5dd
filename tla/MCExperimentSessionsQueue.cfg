CONSTANTS
  Costs = {0}
  w1 = w1
  w2 = w2
  c1 = c1
  c2 = c2
  NoOne = NoOne
  Workers = {w1}
  Clients = {c1}
  NRuns = 1
  Backends = {"postgres"}
  MaxRows = 2
  MaxJobs = 1
  MaxEdits = 0
SPECIFICATION Spec
CHECK_DEADLOCK FALSE
INVARIANT QueuedBeforeExecution
