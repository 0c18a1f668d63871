SPECIFICATION Spec
CONSTANTS
    bx = bx
    by = by
    none = none
    None = none
    Shared = shared
    Junk = junk
    Branches <- TwoBranches
    Effort <- Weights
    SPV_CHUNK = 2
    Fork = 2
    Late = {4}
    Sources = {1, 2}
    Chains <- ServedTips
    First <- AtFirst
    Old <- Snapshots
    Reaches = {6, 9}
    PAGE = 2
    SYNC_PERSIST_WINDOW = 2
    SEED = 2
    FLOOR_SLACK = 1
    MIGRATE_MAX = 2
    Lies <- OffByOne
    MaxMishaps = 2
CHECK_DEADLOCK FALSE
INVARIANTS SourceInv FloorIsEarned
PROPERTIES NothingProvenIsLost Heals
