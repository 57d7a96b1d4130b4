SPECIFICATION BudgetSpec
CONSTANTS
    MAX_TASKS = 2
    LegacyTasks = 1
    NativeIds = {1}
    Priority <- MC_Priority
    Dal <- MC_Dal
    OriginalBudget <- MC_Budget
    PeriodTicks <- MC_Period
    Enrolled = {0}
    LocallyCapable = {1}
    CYCLES_PER_TICK = 2
    WATCHDOG_LIMIT = 2
    WATCHDOG_WINDOW_MIN = 0
    MAX_SENDS_PER_TICK = 0
    CAP_FAIL_LIMIT = 2
    DEGRADE_COOLDOWN_TICKS = 2
    GRACE_TICKS = 1
    RAN_CAP = 3
INVARIANT RunsWithinBudget
PROPERTIES
    SuspendedHighDalReturns
    IsolatedLeavesProcessor
    CooldownRespected
