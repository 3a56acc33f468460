\* Two players, two reports, two faults.
CONSTANTS
    p1 = p1
    p2 = p2
    Profiles = {p1, p2}
    Results <- SomeResults
    History <- Newcomer
    LadderMatches = 2
    LadderDays = 0
    MaxDay = 1
    MaxReports = 2
    MaxFaults = 2
SPECIFICATION MatchSpec
CONSTRAINT FaultBound
INVARIANTS
    MatchTypeOK
    ReportsAreWhole
    LadderIsWhole
    NothingPending
PROPERTIES
    RanksAreEarned
