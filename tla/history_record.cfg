SPECIFICATION Spec
CONSTANTS
    Txs = {t1, t2}
    Merges = {t1}
    Minable = {t1}
    Accounts = {a1, a2}
    MaxRows = 2
    MaxChain = 1
    MaxParked = 1
    MaxMishaps = 2
    Ops <- MCAllOps
    UserWaits = TRUE
    None = None
CHECK_DEADLOCK FALSE
SYMMETRY MCAccountSymmetry
INVARIANTS RowsKept DefiniteResolves 
PROPERTY ConfirmedIsFinal
