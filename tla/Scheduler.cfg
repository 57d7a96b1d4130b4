SPECIFICATION Spec
CONSTANTS
    MAX_TASKS = 3
    LegacyTasks = 2
    NativeIds = {2}
    Priority <- Three_Priority
    Dal <- Three_Dal
    OriginalBudget <- Three_Budget
    PeriodTicks <- Three_Period
    Enrolled = {0, 1}
    LocallyCapable = {2}
    CYCLES_PER_TICK = 1
    WATCHDOG_LIMIT = 2
    WATCHDOG_WINDOW_MIN = 1
    MAX_SENDS_PER_TICK = 1
    CAP_FAIL_LIMIT = 1
    DEGRADE_COOLDOWN_TICKS = 2
    GRACE_TICKS = 0
INVARIANTS
    TypeOK
    RunningIsCurrent
    PriorityRespected
    TwoIsolatedShutDown
    RunnableHasBudget
    BudgetWithinOriginal
    ProcessorWellUsed
    RecoveryIsPrompt
    SelectLoopFindsMinimum
    WatchdogLoopMatches
PROPERTIES
    IsolationIsFinal
    HighDalStoppedByOwnBudget
    UnhealthyStaysDegraded
    TasksCannotAdvanceTime
