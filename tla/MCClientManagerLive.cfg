\* Progress of the two threads: fewer connections, no symmetry.
CONSTANTS
    Sockets = {s1, s2}
    Addresses = {a1, a2}
    None = None
    NumClients = 2
    DefaultTimeout = 1
    HeartbeatTimeout = 2
    LoggedInTimeout = 2
    ClockMod = 5
    MaxScanTicks = 1
SPECIFICATION FairSpec
PROPERTIES
    GoneIsClosed
    OverdueIsDropped
    AcceptReturns
