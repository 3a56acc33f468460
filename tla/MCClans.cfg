\* Three profiles, two clans, one message under way; one request in trouble.
CONSTANTS
    Profiles = {p1, p2, p3}
    NoProfile = NoProfile
    ClanIds = {1, 2}
    MaxMessages = 1
    MaxTroubles = 1
SPECIFICATION Spec
SYMMETRY Symmetry
CONSTRAINT TroubleBound
INVARIANTS
    TypeOK
    MemoryMatchesRow
    OneLeader
    NoTracesOfGoneClans
    RightsAreCurrent
