CONSTANTS
  s1 = s1
  s2 = s2
  d = d
  Dep <- MCDep
  Session <- Two
  MaxTime = 4
  MaxReports = 2
SPECIFICATION FairSpec
INVARIANTS
  TypeOK
  NothingStale
PROPERTIES
  ImplementsMailbox
  EventuallyNamed
