CONSTANTS
  a = a
  b = b
  c = c
  d = d
  e = e
  x = x
  NoPkg = NoPkg
  Pkg <- MCPkg
  HpkDirs <- MCHpkDirs
  Catalogs <- MCCatalogs
  JobLists <- AllJobLists
  CsvFiles <- MCCsvFiles
SPECIFICATION Spec
PROPERTY ImplementsBuildOrder
