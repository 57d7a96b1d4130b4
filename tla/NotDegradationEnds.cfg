SPECIFICATION FairSpec
CONSTANTS
    MAX_TASKS = 2
    LegacyTasks = 1
    NativeIds = {1}
    Priority <- Two_Priority
    Dal <- Two_Dal
    OriginalBudget <- Short_Budget
    PeriodTicks <- Short_Period
    Enrolled = {0}
    LocallyCapable = {1}
    CYCLES_PER_TICK = 1
    WATCHDOG_LIMIT = 5
    WATCHDOG_WINDOW_MIN = 0
    MAX_SENDS_PER_TICK = 0
    CAP_FAIL_LIMIT = 1
    DEGRADE_COOLDOWN_TICKS = 3
    GRACE_TICKS = 0
PROPERTY
    DegradationEnds
