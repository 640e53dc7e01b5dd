CONSTANTS
  k1 = k1
  NoCap = NoCap
  NRuns = 2
  Replicates = 2
  MaxRows = 3
  Costs = {2}
  Keys = {k1}
  Controls <- MCControls
  Gates <- MCGates
  KeyOf <- MCKeyOf
SPECIFICATION FairSpec
CHECK_DEADLOCK FALSE
INVARIANT TypeOK CallAccounting VerdictMatchesRows CapOvershootBounded OneLateCall
PROPERTY LedgerSpec ExecutionEnds
