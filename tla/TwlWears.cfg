SPECIFICATION FairSpec
CONSTANTS
    maxpagenums = 4
    interinterval = 3
    swapthreshold = 2
    lifelist2 <- MCLife4
    endnums = 12
INVARIANT MapsAreInverse
PROPERTIES MovesAreCharged TossSparesWeakPages OnlySwapsHideWear WearsOut
