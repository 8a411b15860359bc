CONSTANTS
  awk = awk
  expr = expr
  ctest = ctest
  sed = sed
  Cmds <- MCCmds
  Extra <- MCExtra
  MaxKills = 2
SPECIFICATION FairSpec
INVARIANTS
  SetUpWhenPrinted
PROPERTY EventuallySetUp
