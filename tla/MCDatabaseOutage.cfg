\* Players, guests and servers, with and without automatic reconnection, outages
\* at any moment.
CONSTANTS
    NumClients = 2
    Calls = 2
    MaxStack = 1
    CountMod = 4
SPECIFICATION OutageFairSpec
INVARIANTS
    OutageTypeOK
    Survives
PROPERTIES
    DisconnectsGuests
    Recovers
