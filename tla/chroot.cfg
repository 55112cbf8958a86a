CONSTANTS
    mports = mports  source = source  boss = boss  None = None
    Wid = {1, 2}
    First = 1
    Boss = boss
    Loopback = {mports, source}
    Mports = mports
    Faults = {"forget"}
    MaxCrashes = 3
    MaxTarballs = 2
SPECIFICATION FairSpec
INVARIANTS
    IInv
    RefWhole
    PreparedClean
PROPERTIES
    Recovers
