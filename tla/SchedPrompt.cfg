SPECIFICATION Spec
CONSTANTS
    t1 = t1
    t2 = t2
    t3 = t3
    Thread = {t1, t2}
    Core <- MCOneCore
    None = None
    mask <- MCAnywhere
    parallelThreads = 1
    schedQuantum = 2
    MaxSleep = 2
    Killable = {}
    PromptReturn = TRUE
    BackToBack = FALSE
INVARIANTS JoinExpectsState
