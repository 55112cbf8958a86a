CONSTANTS
    p1 = p1  p2 = p2
    Port = {p1, p2}
    Depends <- Lib
    Machine = {"m1"}
    Jobs = 2
    MaxRuns = 2
    Faults = {"restart", "die", "new", "chld"}
    MaxFaults = 2
SPECIFICATION FairSpec
INVARIANTS
    IInv
    TreeMatches
    ActiveIsWhole
PROPERTIES
    GivesWay
