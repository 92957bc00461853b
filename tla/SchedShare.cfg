SPECIFICATION Spec
CONSTANTS
    t1 = t1
    t2 = t2
    t3 = t3
    Thread = {t1, t2, t3}
    Core <- MCCore
    None = None
    mask <- MCPinned
    parallelThreads = 2
    schedQuantum = 2
    MaxSleep = 2
    Killable = {"app", "marked", "out", "nap"}
    PromptReturn = FALSE
    BackToBack = FALSE
INVARIANTS ContextsExact NobodyLost NoIdleContextWanted OnlyScheduledRun SleepersOnTime SleepersHaveAlarm
