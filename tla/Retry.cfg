SPECIFICATION FairSpec
CONSTANTS
  MaxAttempt = 2
  Hops = 1
  Transports = {"direct", "jump", "command"}
  Clients = {k1}
  Overlap = FALSE
  Faults = {"dial", "drop", "forward", "listen"}
INVARIANTS
  TypeOK
  NothingAbandoned
  LeadsToOwnHost
PROPERTIES
  AttemptEnds
  ClientAnswered
CHECK_DEADLOCK FALSE
