SPECIFICATION Spec
CONSTANTS
    Windows = {w1, w2}
    NoOne = NoOne
INVARIANTS StartsWholeServer
