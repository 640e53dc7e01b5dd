CONSTANTS
  k1 = k1
  NoCap = NoCap
  NRuns = 1
  Replicates = 1
  MaxRows = 3
  Costs = {2}
  Keys = {k1}
  Controls <- PostgresRetry
  Gates <- MCGates
  KeyOf <- MCKeyOf
SPECIFICATION Spec
CHECK_DEADLOCK FALSE
INVARIANT EveryCallRecorded
