SPECIFICATION Spec
CONSTANTS
  local = local
  remote = remote
  other = other
  NoExec = NoExec
  Exec <- MCExec
  Local <- MCNone
  MaxAttempts = 2
  CancelPoll = FALSE
  Faults <- AllFaults
SYMMETRY MCPairSymmetry
VIEW NothingButPhases
CHECK_DEADLOCK FALSE
INVARIANTS
  BarredNeverCalls
PROPERTIES
  CompletedIsFinal
