CONSTANTS
  v7 = v7
  v8 = v8
  Arch <- MCArch
  Kinds <- AllKinds
  MaxKills = 2
SPECIFICATION FairSpec
INVARIANTS
  TypeOK
  OnlyVerifiedSources
  RecordedIsInstalled
  PatchedOnce
PROPERTIES
  BrokenArchiveReplaced
  ImplementsInstallation
