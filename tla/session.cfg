CONSTANTS
  a = a
  b = b
  c = c
  d = d
  e = e
  x = x
  NoPkg = NoPkg
  Pkg <- MCPkg
  HpkDirs <- MCHpkDirs
  Catalogs <- MCCatalogs
  JobLists <- MCJobLists
  CsvFiles <- MCCsvFiles
SPECIFICATION FairSpec
PROPERTIES
  Termination
  LaterRoundsDiffer
  BuildsInOrder
INVARIANTS
  TypeOK
  DepsBuiltFirst
  NoJobLost
  NoDependencyForgotten
  BuiltAtMostOnce
  ScriptPresent
  ExitMatchesOutcome
  StopOnlyWhenBlocked
  LinksRemoved
