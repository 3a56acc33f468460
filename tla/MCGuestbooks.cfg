\* A clan of two and another clan's book, a page of two, three entries, two faults.
CONSTANTS
    Players = {1, 2}
    Books = {1, 2}
    BookOf <- OneClan
    Page = 2
    Shown = 2
    Requests = {1}
    Ticks = {1}
    MaxEntries = 3
    MaxFaults = 2
SPECIFICATION Spec
INVARIANTS
    ShownIsStored
    RefreshShowsPost
    NothingPends
PROPERTIES
    OwnersDelete
