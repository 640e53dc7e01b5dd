CONSTANTS
  s1 = s1
  s2 = s2
  Sessions = {s1, s2}
  Reviewers = {1, 2}
  Answers <- MCAnswers
  Titles = {"seed1", "seed2"}
  Winners = {"A", "tie"}
  Decided = {1, 2}
  MaxRequests = 4
  NoSet = NoSet
SPECIFICATION Spec
SYMMETRY Symmetry
CHECK_DEADLOCK FALSE
INVARIANTS
  TypeOK
  RecordedDecisionsAreScored
  ComparisonsAreWhole
  OneVoteInTurns
  StampedScoresAgree
  AssignersNeverDeadlock
PROPERTIES
  SetIsNeverReplaced
