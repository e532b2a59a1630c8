SPECIFICATION FairSpec
CONSTANTS
    s1 = s1
    s2 = s2
    Stager = {s1, s2}
    Worlds <- Usual
    MaxFile = 2
    MaxParts = 4
    Batch = 2
    Top = 6
INVARIANTS RecordedHeld CompleteQueued WalkPastFinal StoredWhole
PROPERTIES CompleteNotDropped ReadyDrained
CHECK_DEADLOCK FALSE
