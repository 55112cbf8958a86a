CONSTANTS
    p1 = p1  p2 = p2
    Port = {p1, p2}
    Depends <- Lib
    Machine = {"m1"}
    Jobs = 1
    MaxRuns = 1
    Faults = {}
    MaxFaults = 0
SPECIFICATION Spec
INVARIANTS
    CompleteIsTested
