SPECIFICATION RecoveringSpec
CONSTANTS
  alice = alice
  bob = bob
  nobody = nobody
  User <- MCBob
  Stored <- MCStored
  None <- MCNone
  Quota <- MCQuota
  Expiry <- MCExpiry
  LastHour = 1
  Retention = 0
  MaxTraffic <- MCNoTraffic
PROPERTIES
  MarkedIsRemoved
