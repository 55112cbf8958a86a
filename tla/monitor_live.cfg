CONSTANTS
    a = a  b = b  e1 = e1  e2 = e2
    None = None
    Name = {a}
    Ino = {1}
    Order <- OnlyA
    Entry = {e1}
    MaxDirs = 2
    PipeSize = 2
    RateInit = 1
    RateMax = 2
    RateMul = 2
    Faults = {"rename", "remount"}
    MaxFaults = 1
SPECIFICATION FairSpec
INVARIANTS
    HeldBackIsTimed
    Known
PROPERTIES
    CatchesUp
    Attended
CHECK_DEADLOCK FALSE
