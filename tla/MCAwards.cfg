\* Every award, one at a time.  A behaviour ends when there is nothing more to gain.
CONSTANT Rules <- EveryRule
SPECIFICATION Spec
CHECK_DEADLOCK FALSE
INVARIANTS
    Deserved
    NothingMissed
PROPERTIES
    NeverTaken
