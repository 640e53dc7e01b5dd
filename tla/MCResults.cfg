CONSTANTS
  Ledgers <- MCLedgers
  Filters <- MCFilters
  Reviewers = {"r1", "r2"}
  Judges = {"j"}
  Swaps = {{0, 1}}
  Decisions <- MCDecisions
  Verdicts <- MCVerdicts
  WarmerTerms <- MCWarmerTerms
  MaxReviews = 2
SPECIFICATION Spec
CHECK_DEADLOCK FALSE
INVARIANTS
  TypeOK
  FrontierIsSound
  FiltersOnlyRestrict
  DivergencesAgree
  DisagreementIsReal
  SamplesAreReplicates
