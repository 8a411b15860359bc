CONSTANTS
  a = a
  b = b
  r = r
  v7 = v7
  v8 = v8
  NoPkg = NoPkg
  Session = {s1}
  Concurrent = 1
  Pkg <- WithRenamed
  depends <- RenamedDepends
  archs <- RenamedArchs
  Renamed = {r}
  StepsFail = TRUE
  MaxKills = 2
SPECIFICATION FairSpec
INVARIANTS
  RecordedStays
  NoFalseErrors
PROPERTIES
  EventuallyRecorded
  ImplementsInstallation
