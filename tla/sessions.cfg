CONSTANTS
  a = a
  b = b
  r = r
  v7 = v7
  v8 = v8
  NoPkg = NoPkg
  Session = {s1, s2}
  Concurrent = 2
  Pkg <- TwoPkgs
  depends <- TwoDepends
  archs <- TwoArchs
  Renamed = {}
  StepsFail = TRUE
  MaxKills = 1
SYMMETRY Symmetry
SPECIFICATION Spec
INVARIANT
  TypeOK
  RegistryClosed
PROPERTY SessionsKeepOrder
