CONSTANTS
  clang64 = clang64
  clangxx64 = clangxx64
  s1 = s1
  s2 = s2
  s3 = s3
  Tool <- MCTool
  Probed = clang64
  Session <- Three
  MaxFaults = 2
SYMMETRY Symmetry
SPECIFICATION Spec
INVARIANTS
  OwnCopyIsComplete
