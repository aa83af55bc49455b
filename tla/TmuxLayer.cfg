SPECIFICATION FairSpec
CONSTANTS
    Windows = {w1}
    Own = {a0}
    Sibling = {b0}
    Foreign = {f0}
    Left <- LeftBehind
    Jobs = {j1, j2}
    UserScopes = {"workspace"}
    MaxMade = 2
    MaxWrites = 1
    MaxGen = 1
    MaxMishaps = 1
INVARIANTS TypeOK LayerIsWhole
PROPERTIES WiringSucceeds UserDefaultKept ReaperSparesLive CommandKeepsToWorkspace CorpseReaped
\* A window may sit there with nothing to do.
CHECK_DEADLOCK FALSE
