SPECIFICATION FairSpec
CONSTANTS
    Accounts = {p, q}
    Seals = {a, b}
    Cap = 1
    MaxJobs = 2
    Ops = {"switch", "lock", "reveal", "fails", "reset"}
    None = None
INVARIANTS PaidSealsHeld SealInv
PROPERTY ParkedIsWritten
