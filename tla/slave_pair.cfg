CONSTANTS
    p1 = p1  p2 = p2  m1 = m1  m2 = m2  s1 = s1  s2 = s2  w1 = w1  w2 = w2  w3 = w3
    None = None
    Port = {p1}
    Depends <- NoDepends
    Machine = {m1, m2}
    Slave = {s1, s2}
    Host <- EachOwn
    WorkerId = {1}
    Pid = {w1, w2, w3}
    Faults = {"db", "throw", "die", "reboot", "fork"}
    MaxFaults = 2
SPECIFICATION Spec
CHECK_DEADLOCK FALSE
INVARIANTS
    TypeOK
    IInv
    BuildExclusion
    PassedHasPackage
    PristineWhenReady
PROPERTIES
    StatusUnderLock
    ImplementsBuildQueue
