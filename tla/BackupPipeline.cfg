SPECIFICATION Spec
CONSTANTS
    MaxParts = 3
    MaxConcurrency = 2
    MaxAttempts = 2
    Policies <- MCPolicies
    UnitLength <- MCUnitLength
    MonthStart <- MCMonthStart
    LastTick = 8
    MinutesPerHour = 2
    HoursPerDay = 2
    DaysPerWeek = 3
    MonthLengths <- MCMonthLengths
    YearsAhead = 2
    CronUntil = 24
    DayFields <- MCDayFields
    WeekdayFields <- MCWeekdayFields
INVARIANTS
    BackupIsWholeDump
    NoOrphanUpload
    PromisedBackupsStay
    NextIsFirstMatch
PROPERTY
    StartedBackupReturns
CHECK_DEADLOCK FALSE
