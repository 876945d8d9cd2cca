SPECIFICATION GuardsFairSpec
CONSTANTS
  Thread = {t1, t2, t3}
  NumLocks = 2
  MaxVersion = 1
INVARIANTS
  LocksTypeOK
  StripeExclusion
  VersionParity
  GuardComplete
  AscendingWait
  NoDeadlock
PROPERTIES
  VersionMovesUnderLock
  ImplementsStripedLocks
  SomeGuardCompletes
