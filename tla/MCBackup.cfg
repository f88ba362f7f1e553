SPECIFICATION FairSpec
CONSTANTS
  config = config
  users = users
  tokens = tokens
  absent = absent
  agent = agent
  none = none
  other = other
  relaxed = relaxed
  all = all
  quiet = quiet
  alice = alice
  alone = alone
  token = token
  used = used
  Order <- MCOrder
  Config <- config
  Contents <- MCContents
  Absent <- absent
  Start <- MCStart
  Settings <- MCSettings
  NoAgent <- none
  Delay = 1
  Period = 2
  PushTimeout = 1
  MaxWrites = 2
INVARIANTS
  TypeOK
  Floor
PROPERTIES
  KeepsPromise
  Copied
