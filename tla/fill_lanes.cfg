SPECIFICATION Spec
CONSTANTS
    EPOCH_LEN = 1
    FCLAIM_MAX_EPOCH_AHEAD = 2
    CLAIM_COOLDOWN_BLOCKS = 1
    MAX_ACTIVE_CLAIMS = 1
    FILL_TIP_MARGIN = 1
    ClaimDepth = 2
    OfferExpiry = 10
    Me = me
    Rival = rival
    NoOne = none
    Alt = alt
    Sunset = 1
    RECORD_LAG_MARGIN = 2
    MarketKinds <- AllMarkets
    Aheads <- Reach
    MaxLag = 1
    MaxTip = 10
    MaxEvents = 3
    MaxOthers = 1
    FirstFill = 8
    MaxFills = 1
    MaxReorgs = 1
CHECK_DEADLOCK FALSE
INVARIANTS  RefusalsAreTrue 
