CONSTANTS
  v7 = v7
  v8 = v8
  NoArch = NoArch
  Arch <- MCArch
  Kinds <- AllKinds
  MaxKills = 2
SPECIFICATION Spec
INVARIANTS
  TypeOK
  CompiledForItsArch
  FreshCopy
