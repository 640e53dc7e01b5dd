CONSTANTS
  k1 = k1
  NoCap = NoCap
  NRuns = 1
  Replicates = 1
  MaxRows = 3
  Costs = {2}
  Keys = {k1}
  Controls <- SqliteRetry
  Gates <- MCGates
  KeyOf <- MCKeyOf
SPECIFICATION ReexecutionSpec
CHECK_DEADLOCK FALSE
PROPERTY QueuedAttemptSettles
