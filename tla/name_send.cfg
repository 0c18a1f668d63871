SPECIFICATION Spec
CONSTANTS
    Records <- MCRecords
    Founding <- MCFounding
    MaxGrowth = 1
    NoOne = none
    ServedAddrs <- MCServed
    Calls = {c1, c2}
    MaxReviews = 2
    MaxEvents = 2
CHECK_DEADLOCK FALSE
SYMMETRY MCSymmetry
INVARIANTS UnionDefeatsWithholding LookupInv
PROPERTY SignsTheShownReview
