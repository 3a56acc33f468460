\* Two clients, two accounts, two profiles.
CONSTANTS
    Clients = {c1, c2}
    Accounts = {a1, a2}
    NoAccount = NoAccount
    MaxProfiles = 2
SPECIFICATION Spec
SYMMETRY Symmetry
INVARIANTS
    OnlineIsPlayed
    ProfilesConsistent
PROPERTIES
    RegistrySpec
