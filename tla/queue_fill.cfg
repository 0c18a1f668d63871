SPECIFICATION Spec
CONSTANTS
    Requests <- MCFillAndSend
    Origins = {"a", "b"}
    OriginOf <- MCOneOrigin
    KindOf <- MCKindOf
    Accounts = {p, s}
    Claims = {f, g}
    Windows = {v}
    MaxGlobal = 2
    MaxPerOrigin = 1
    Ops <- MCFillOps
    None = None
CHECK_DEADLOCK FALSE
SYMMETRY MCFillSymmetry
INVARIANTS WarnedBeforeUnconfirmed 
PROPERTY UsesReviewedSigner
