SPECIFICATION HSpec
CONSTANTS
    regions = 2
    regionsize = 2
    lifelist2 <- MCLife4
    climbethreshold = 1
    remapthreshold = 2
    cyclethreshold = 3
    endnums = 20
    ClimbModes <- MCBothModes
    randomenable = FALSE
    Xor <- MCXor
    Orders <- MCOrders
    Requests <- Page
INVARIANTS TablesAgree CandidatesAreOthers
PROPERTIES HotOnStrong ImplementsWearLeveling
