SPECIFICATION Spec
CONSTANTS
  t1 = t1
  t2 = t2
  ci = ci
  Token <- MCToken
  Label <- MCLabel
  Dump <- MCDump
  LastTick = 3
  Resolution = 2
INVARIANTS
  TypeOK
  Credentials
  LastUseKept
