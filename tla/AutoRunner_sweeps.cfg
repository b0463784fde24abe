SPECIFICATION FairSpec
CONSTANTS
    None = None
    Profile = {1, 2}
    Day = 5
    Week = 2
    Workdays = {0}
    Gap = 3
    Work = 3
    Interval = 2
    MaxMult = 2
    SlowAt = 2
    AlarmAt = 3
    AbsentTicks = 2
    MaxDisable = 1
    Outcomes <- Mixed
    Free <- Failing
    Acts <- AllActs
    MaxEnv = 1
PROPERTIES EveryoneRuns
