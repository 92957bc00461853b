SPECIFICATION Spec
CONSTANTS
    areasize = 8
    groupsize = 4
    hashnums = 2
    counternums = 3
    list1size = 1
    list2size = 1
    list3size = 2
    hotthreshold = 2
    hashkey <- MCKeys
    HashXor <- MCXor
    MaxAccesses = 7
INVARIANTS HotIndexExact NeverUndercounts
PROPERTIES OnlyNewcomersDisplaced OvertakenByOneSlot
