SPECIFICATION BwlHSpec
CONSTANTS
    regions = 2
    regionsize = 2
    lifelist2 <- MCLife4
    climbethreshold = 1
    remapthreshold = 3
    cyclethreshold = 4
    endnums = 20
    ClimbModes <- MCRemaps
    randomenable = TRUE
    Xor <- MCXor
    Orders <- MCOrders
    Requests <- Page
    groupsize = 2
    hashnums = 1
    counternums = 2
    list1size = 1
    list2size = 1
    list3size = 1
    hotthreshold = 1
    hashkey1 <- MCKeys1
    hashkey2 <- MCKeys2
INVARIANT VisitedOnce
PROPERTIES BwlHotOnStrong BwlImplementsWearLeveling
