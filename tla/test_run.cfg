CONSTANTS
  a = a
  b = b
  c = c
  NoLib = NoLib
  Lib <- MCLib
  Kinds <- AllKinds
  JobLists <- AllLists
SPECIFICATION Spec
INVARIANTS
  TypeOK
  OneVerdictEach
  VerdictIsOfOwnTests
  LogsCollected
