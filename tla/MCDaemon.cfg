SPECIFICATION Spec
CONSTANTS
  handler = handler
  plain = plain
  offline = offline
  none = none
  Calls <- MCCalls
  PlainCalls <- MCPlainCalls
  DaemonCalls = {}
  Offline <- MCOffline
  NoConfig = none
  MinBackoff = 1
  MaxBackoff = 1
INVARIANTS
  ConfirmedIsServed
  NeverStale
