CONSTANTS
    a = a  b = b  e1 = e1  e2 = e2
    None = None
    Name = {a, b}
    Ino = {1, 2}
    Order <- AThenB
    Entry = {e1, e2}
    MaxDirs = 1
    PipeSize = 2
    RateInit = 1
    RateMax = 1
    RateMul = 2
    Faults = {"full"}
    MaxFaults = 1
SPECIFICATION Spec
INVARIANTS
    TypeOK
    NothingDangles
    OneObject
    LateOnce
PROPERTIES
    ScanTells
CHECK_DEADLOCK FALSE
