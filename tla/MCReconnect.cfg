SPECIFICATION ConnectSpec
CONSTANTS
  MaxCalls = 2
  Addresses = 2
INVARIANTS ReconnectIsFresh
CHECK_DEADLOCK FALSE
