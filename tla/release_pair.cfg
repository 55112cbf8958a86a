CONSTANTS
    lib = lib  app = app  web = web  x = x  y = y
    w1 = w1  w2 = w2
    Name = {lib, app}
    Flavor = {""}
    File = {}
    Tree <- SimpleTree
    Test <- FewTests
    SyncDies = FALSE
    Worker = {w1, w2}
    MaxBuilds = 1
    MaxBlesses = 1
    MaxMishaps = 1
SPECIFICATION Spec
SYMMETRY WorkerSymmetry
INVARIANTS
    HashesRight
    IndexClosed
CHECK_DEADLOCK FALSE
