SPECIFICATION Spec
CONSTANTS
  MaxAttempt = 2
  Hops = 0
  Transports = {"direct"}
  Clients = {}
  Overlap = TRUE
  Faults = {}
INVARIANTS
  NothingAbandoned
CHECK_DEADLOCK FALSE
