SPECIFICATION FairSpec
CONSTANTS
    c1 = c1
    c2 = c2
    Calls = {c1, c2}
    Ttl = 3
    MaxFaults = 1
INVARIANTS
    ExpiryTypeOK
    KeysGetTtl
PROPERTIES
    KeptWhilePlayed
    AbandonedExpires
CHECK_DEADLOCK FALSE
