SPECIFICATION Spec
CONSTANTS
  u1 = u1
  u2 = u2
  U1 = U1
  a = a
  A = A
  sA = sA
  ws = ws
  blank = blank
  p = p
  q = q
  s = s
  t = t
  r = r
  none = none
  Id <- MCId
  Name <- MCName
  Blank = blank
  Fold <- MCFold
  Lower <- MCFold
  Trim <- MCTrim
  Uuid <- MCUuid
  Token <- MCToken
  None = none
  Dump <- MCDump
INVARIANT ReloadAppliesImport
