CONSTANTS
  a = a
  b = b
  c = c
  d = d
  e = e
  x = x
  NoPkg = NoPkg
  Pkg <- DeepPkg
  HpkDirs <- DeepPkg
  Catalogs <- DeepCatalogs
  JobLists <- DeepJobLists
  CsvFiles <- NoCsv
SPECIFICATION Spec
INVARIANT GivesUpOnlyBlocked
