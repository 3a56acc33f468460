\* One player writes to another: two messages, pages of one, two clocks.
CONSTANTS
    p1 = p1
    p2 = p2
    Profiles = {p1, p2}
    Contacts <- OneWay
    Page = 1
    Clock = {1, 2}
    MaxMessages = 2
    MaxOnWire = 2
    MaxFaults = 2
SPECIFICATION FairSpec
PROPERTIES
    MailboxSpec
    Delivered
CHECK_DEADLOCK FALSE
