CONSTANTS
  k1 = k1
  NoCap = NoCap
  NRuns = 1
  Replicates = 2
  MaxRows = 3
  Costs = {2}
  Keys = {k1}
  Controls <- PostgresRetry
  Gates <- MCGates
  KeyOf <- MCKeyOf
SPECIFICATION ReexecutionSpec
CHECK_DEADLOCK FALSE
PROPERTY QueuedAttemptSettles
