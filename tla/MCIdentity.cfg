SPECIFICATION Spec
CONSTANTS
  own = own
  theirs = theirs
  new = new
  other = other
  absent = absent
  corrupt = corrupt
  Key <- MCKey
  First = own
  DumpKey = theirs
  Absent = absent
  Corrupt = corrupt
INVARIANTS
  TypeOK
  LinksMatch
  RestoredTogether
PROPERTIES
  KeysAreKept
