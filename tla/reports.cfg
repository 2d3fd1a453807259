SPECIFICATION SchedulerFairSpec
CONSTANTS
    Scopes = {site}
    Mails = {mail}
    DaysPerWeek = 2
    SlotsPerDay = 3
    Wishes <- DailyOrOneDay
    UserOffset = 2
    SystemOffset = 1
    Blank = Blank
    None = None
    MaxId = 2
    MaxTime = 6
    MaxRequests = 3
    MaxDeaths = 1
INVARIANTS JobsMatchRows DueAtChosenTime
PROPERTIES EveryDueJobRuns
CHECK_DEADLOCK FALSE
