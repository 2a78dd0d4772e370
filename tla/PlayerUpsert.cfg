SPECIFICATION FairSpec
CONSTANTS
    upper = upper
    lower = lower
    g1 = g1
    g2 = g2
    f1 = f1
    s1 = s1
    s2 = s2
    Calls <- MCCalls
    Pseudos <- MCPseudos
    Normal <- MCNormal
    Wants <- MCWants
    Kind <- MCKind
    MayAbort = TRUE
INVARIANTS
    TypeOK
    SamePlayer
PROPERTIES
    IsAtomic
    EveryCallReturns
CHECK_DEADLOCK FALSE
