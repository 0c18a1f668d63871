SPECIFICATION FairSpec
CONSTANTS
    s1 = s1
    k1 = k1
    k2 = k2
    Calls = {c1, c2}
    Seeds = {s1}
    RawKeys = {k1}
    Importable <- MCRawImports
    Labels = {n1}
    MaxIndex = 1
    Keys = {v1, v2}
    Lists = {l1, l2}
    Ops <- MCResetOps
    OneAtATime = TRUE
    None = None
INVARIANTS
    WipedStaysWiped
PROPERTIES
    CallsSettle
