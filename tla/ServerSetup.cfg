SPECIFICATION Spec
CONSTANTS
    Windows = {w1, w2, w3}
    NoOne = NoOne
    MaxServers = 4
    Faults = {"hangup", "restart", "tar", "download"}
SYMMETRY Symmetry
INVARIANTS TypeOK FilesOfLiveServer
PROPERTIES KeepsPromise
