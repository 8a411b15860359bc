CONSTANTS
  v7 = v7
  v8 = v8
  Arch <- MCArch
  Kinds <- CarefulKind
  MaxKills = 0
SPECIFICATION Spec
INVARIANT SuccessMeansInstalled
