CONSTANTS
  s1 = s1
  s2 = s2
  Sessions = {s1, s2}
  Ledgers <- MCLedgers
  Evaluators = {"not_empty"}
  Configs = {"precision"}
  MaxRequests = 2
SPECIFICATION Spec
SYMMETRY Symmetry
CHECK_DEADLOCK FALSE
INVARIANTS
  TypeOK
  ScoredOnceIfAlone
  DivergedFromFinalBaseline
  JudgedAsReviewed
  JudgementIsWhole
  CallsPaidOnce
