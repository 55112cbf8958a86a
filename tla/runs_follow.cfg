CONSTANTS
    p1 = p1  p2 = p2
    Port = {p1, p2}
    Depends <- Lib
    Machine = {"m1"}
    Jobs = 2
    MaxRuns = 2
    Faults = {"chld"}
    MaxFaults = 1
SPECIFICATION FairSpec
PROPERTIES
    Follows
