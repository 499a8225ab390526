SPECIFICATION FairSpec
CONSTANTS
  local = local
  remote = remote
  other = other
  NoExec = NoExec
  Exec <- MCExec
  Local <- MCLocal
  MaxAttempts = 2
  CancelPoll = TRUE
  Faults <- CrashOnly
CHECK_DEADLOCK FALSE
INVARIANTS
  OneEffectExecution
  TranscriptOfOneExecution
PROPERTIES
  ImplementsLedger
  AcceptedJobEnds
  CancelledRunEnds
