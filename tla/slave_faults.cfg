CONSTANTS
    p1 = p1  p2 = p2  m1 = m1  m2 = m2  s1 = s1  s2 = s2  w1 = w1  w2 = w2  w3 = w3
    None = None
    Port = {p1, p2}
    Depends <- Lib
    Machine = {m1}
    Slave = {s1}
    Host <- EachOwn
    WorkerId = {1, 2, 3}
    Pid = {w1, w2}
    Faults = {"db", "throw"}
    MaxFaults = 1
SPECIFICATION FairSpec
CHECK_DEADLOCK FALSE
INVARIANTS
    WorkerIdsApart
    LocksRemembered
    LogExplained
    ChrootExclusion
PROPERTIES
    AllTested
