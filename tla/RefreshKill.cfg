SPECIFICATION Spec
CONSTANTS
  MaxSlot = 1
  MaxPass = 2
  Requests = {r1}
  Tabs = {t1, t2}
  Found = {0}
  Shared = {}
  PtyReconnect = FALSE
  Faults = {}
  Closable = {t1, t2}
  MaxKills = 1
  MaxWrites = 2
INVARIANTS
  KillTargetsNoTab
CHECK_DEADLOCK FALSE
