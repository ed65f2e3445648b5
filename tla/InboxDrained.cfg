CONSTANTS
    Hooks = {1, 2}
    Loop = "loop"
    Others = {"hand"}
    MaxItems = 2
    Batch = 2
    AtOnce = 2
    MaxClock = 2
    MaxTrouble = 1

SPECIFICATION FairSpec
INVARIANTS NothingLost TwiceForAReason
PROPERTIES InOrder Settled
CHECK_DEADLOCK FALSE
