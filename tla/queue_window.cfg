SPECIFICATION RFairSpec
CONSTANTS
    Requests <- MCRequests
    Origins = {"a", "b"}
    OriginOf <- MCOneOrigin
    KindOf <- MCKindOf
    Accounts = {p}
    Claims = {f}
    Windows = {v, w}
    MaxGlobal = 2
    MaxPerOrigin = 2
    Ops <- MCOps
    None = None
    PreviewsOf <- MCPreviewsOf
    Quotes = {10, 20}
    LastTip = 1
    Mine <- MCMine
    Open <- MCOpen
    Watched = {v}
    CardOps <- MCCardOps
INVARIANTS WindowInv 
PROPERTIES ApprovesWhatIsShown RequestsAnswered
CHECK_DEADLOCK FALSE
