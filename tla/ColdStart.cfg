SPECIFICATION Spec
CONSTANTS
  MaxSlot = 2
  MaxPass = 1
  Requests = {r1, r2}
  Tabs = {t1, t2}
  Found = {0, 1}
  Shared = {1}
  PtyReconnect = FALSE
  Faults = {"probe", "write", "spawn", "dispose"}
  Closable = {t1, t2}
  MaxKills = 1
  MaxWrites = 2
SYMMETRY Symmetry
INVARIANTS
  TypeOK
  OneTabPerSession
  KillTargetsNoTab
  OpenSlotsExact
PROPERTIES
  KeepsOwnership
CHECK_DEADLOCK FALSE
