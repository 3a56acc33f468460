\* Three emails, three keys, one account made by hand and up to two others.  The
\* connection may be lost for good: without it nothing happens any more.
CONSTANTS
    e1 = e1
    e2 = e2
    e3 = e3
    Emails = {e1, e2, e3}
    Keys = {1, 2, 3}
    Private <- TwoPrivate
    Handmade <- OneHandmade
    MaxAccounts = 3
    MaxFaults = 2
SPECIFICATION Spec
CHECK_DEADLOCK FALSE
INVARIANTS
    AccountsAreWhole
    KeysAreOwned
    CreatedIsKept
