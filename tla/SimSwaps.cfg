SPECIFICATION FairSpec
CONSTANTS
    g1 = g1
    g2 = g2
    None = None
    Slots = {g1, g2}
    regions = 2
    regionsize = 2
    lifelist2 <- MCLife4
    climbethreshold = 1
    Requests = {0, 3}
    MaxCount = 2
    lines = 1
    ParentMayBeLast = FALSE
INVARIANT Clocked
PROPERTIES SwapsCopied DoneAfterAll EveryAccessDone
