SPECIFICATION FairSpec
CONSTANTS
    t1 = t1
    t2 = t2
    t3 = t3
    Thread = {t1, t2, t3}
    WakeArguments <- MCOneOrTwo
    WakeCap = 8
    WordSize = 16
    MaxAllowance = 5
INVARIANTS MatchesExact AllowanceCovers UnmatchedAllowed
PROPERTIES EveryWakeMatched
