SPECIFICATION FairSpec
CONSTANTS
    a1 = a1
    a2 = a2
    Asset = {a1, a2}
    MaxDump = 3
    Bounds <- Runs
    Denom = 2
    Turn <- TurnOf
    Torn = {3}
    Large <- LargeOf
    KeptPlans = 2
    Keep = 2
    Room = 2
INVARIANTS AckedWhole IndexHonest KeepsNewest
PROPERTIES DumpRecovers
CHECK_DEADLOCK FALSE
