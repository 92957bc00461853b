SPECIFICATION Spec
CONSTANTS
    Thread = {t1, t2, t3}
    Nobody = Nobody
    MAX_THREADS = 3
    parallelThreads = 2
    CleanupPeriod = 2
    EarlyReuse = FALSE
SYMMETRY ThreadSymmetry
INVARIANTS
    RunListExact
    CountersExact
    FoundWhereLeft
    WakeupsExact
    NobodyForgotten
PROPERTIES
    PhasesKept
    JoinEndsNoPhase
CHECK_DEADLOCK TRUE
