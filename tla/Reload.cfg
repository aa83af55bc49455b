SPECIFICATION FairSpec
CONSTANTS
  MaxSlot = 1
  MaxPass = 2
  Requests = {r1}
  Tabs = {t1, t2}
  Found = {0}
  Shared = {}
  PtyReconnect = TRUE
  Faults = {}
  Closable = {t1}
  MaxKills = 1
  MaxWrites = 1
INVARIANTS
  ReservationsReleased
  MappingPersisted
PROPERTIES
  RequestAnswered
  SurvivorReturns
CHECK_DEADLOCK FALSE
