\* Two slots, three connections from up to three addresses: a full table, an
\* address that comes back, a slot that is used again.
CONSTANTS
    Sockets = {s1, s2, s3}
    Addresses = {a1, a2, a3}
    None = None
    NumClients = 2
    DefaultTimeout = 1
    HeartbeatTimeout = 2
    LoggedInTimeout = 2
    ClockMod = 5
    MaxScanTicks = 1
SPECIFICATION Spec
SYMMETRY Symmetry
INVARIANTS
    TypeOK
    SlotsConsistent
PROPERTIES
    NoLiveClientDropped
    TableSpec
