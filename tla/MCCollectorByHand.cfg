SPECIFICATION HandSpec
CONSTANTS
  alice = alice
  bob = bob
  nobody = nobody
  User <- MCUser
  Stored <- MCStored
  None <- MCNone
  Quota <- MCQuota
  Expiry <- MCExpiry
  LastHour = 1
  Retention = 0
  MaxTraffic <- MCMaxTraffic
PROPERTIES
  ByHandStaysOff
