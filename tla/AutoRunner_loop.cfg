SPECIFICATION Spec
CONSTANTS
    None = None
    Profile = {1, 2}
    Day = 5
    Week = 2
    Workdays = {0}
    Gap = 3
    Work = 3
    Interval = 2
    MaxMult = 2
    SlowAt = 2
    AlarmAt = 3
    AbsentTicks = 2
    MaxDisable = 1
    Outcomes <- AllOutcomes
    Free <- Well
    Acts <- Orderly
    MaxEnv = 3
INVARIANTS TypeOK NoSweepForgotten PeopleCalled
PROPERTIES CautiousOff
