SPECIFICATION Spec
CONSTANTS
    MAX_TASKS = 2
    LegacyTasks = 1
    NativeIds = {1}
    Priority <- Two_Priority
    Dal <- Two_Dal
    OriginalBudget <- Two_Budget
    PeriodTicks <- Two_Period
    Enrolled = {0}
    LocallyCapable = {1}
    CYCLES_PER_TICK = 1
    WATCHDOG_LIMIT = 2
    WATCHDOG_WINDOW_MIN = 1
    MAX_SENDS_PER_TICK = 1
    CAP_FAIL_LIMIT = 2
    DEGRADE_COOLDOWN_TICKS = 2
    GRACE_TICKS = 0
PROPERTY
    RecoveryRestoresBudget
