SPECIFICATION Spec
CONSTANTS
  alice = alice
  bob = bob
  nobody = nobody
  User <- MCUser
  Stored <- MCStored
  None <- MCNone
  Quota <- MCQuota
  Expiry <- MCExpiry
  LastHour = 1
  Retention = 0
  MaxTraffic <- MCMaxTraffic
INVARIANTS
  TypeOK
  ShownAsServed
  Metered
  DeletedLeavesNothing
PROPERTIES
  RightlyTurnedOff
  KeepsPromise
  QuotaHolds
  CutOff
  CutOffIsShown
