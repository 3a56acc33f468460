\* Two servers with distinct address hashes and two authentications in all: a
\* duplicate, the ghost of a dropped connection, a restart; and the progress of
\* the delisting.
CONSTANTS
    a1 = a1
    a2 = a2
    h1 = h1
    h2 = h2
    Addresses = {a1, a2}
    Hashes = {h1, h2}
    AddressHash <- MCDistinctHash
    GoodKeys = {1}
    BadKeys = {2}
    PublicIds = {1}
    MaxEntries = 2
SPECIFICATION FairSpec
INVARIANTS
    TypeOK
    ListIsSound
PROPERTIES
    DelistedByOwner
    DeadIsDelisted
