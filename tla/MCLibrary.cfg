CONSTANTS
  Sessions = {"s1", "s2"}
  Mortal = {"s1", "s2"}
  Scripts <- MCScripts
  Items0 <- MCItems
  Artifacts0 <- MCArtifacts
  Experiments0 <- MCExperiments
SPECIFICATION Spec
CHECK_DEADLOCK FALSE
INVARIANTS
  TypeOK
  PinsResolve
  PreprocessingIsWhole
  FilesAreWhole
  DerivedInputsAreBound
  SuiteRunsItsMembership
  ExperimentIsItsManifest
