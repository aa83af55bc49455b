SPECIFICATION Spec
CONSTANTS
  Windows = {w1, w2}
  Hosts = {h1, h2}
  Keys = {k1, k2}
  MaxLines = 3
SYMMETRY Symmetry
INVARIANTS
  TypeOK
  VerdictOfTheFile
  RecordsIntact
  AcceptedIsRecorded
CHECK_DEADLOCK FALSE
