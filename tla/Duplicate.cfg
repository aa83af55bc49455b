SPECIFICATION Spec
CONSTANTS
  MaxSlot = 1
  MaxPass = 1
  Requests = {r1}
  Tabs = {t1, t2}
  Found = {0}
  Shared = {}
  PtyReconnect = TRUE
  Faults = {}
  Closable = {t1, t2}
  MaxKills = 1
  MaxWrites = 2
PROPERTIES
  DiscardKeepsOne
CHECK_DEADLOCK FALSE
