SPECIFICATION Spec
CONSTANTS
  handler = handler
  plain = plain
  collector = collector
  offline = offline
  Calls <- MCCalls
  PlainCalls <- MCPlainCalls
  DaemonCalls <- MCDaemonCalls
  Offline <- MCOffline
INVARIANTS
  TypeOK
  Committed
  StatusAgrees
PROPERTIES
  EveryCallReturns
  TakenIsAnswered
  KeepsPromise
