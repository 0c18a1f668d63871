SPECIFICATION ConsentFairSpec
CONSTANTS
    Calls = {c1, c2}
    Origins = {x, y}
    Asking = {x}
    Accounts = {p, s}
    Ops <- MCAllOps
    None = None
INVARIANT ConsentInv
PROPERTIES NoWriteBack ConsentCallsEnd
