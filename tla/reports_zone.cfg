SPECIFICATION SchedulerSpec
CONSTANTS
    Scopes = {site}
    Mails = {mail}
    DaysPerWeek = 2
    SlotsPerDay = 2
    Wishes <- DailyOrOneDay
    UserOffset = 1
    SystemOffset = 0
    Blank = Blank
    None = None
    MaxId = 2
    MaxTime = 4
    MaxRequests = 2
    MaxDeaths = 1
INVARIANTS SentWhenChosen
CHECK_DEADLOCK FALSE
