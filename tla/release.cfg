CONSTANTS
    lib = lib  app = app  web = web  x = x  y = y
    w1 = w1  w2 = w2
    Name = {lib, app, web}
    Flavor = {"", "f", "g"}
    File = {x, y}
    Tree <- Trees
    Test <- Tests
    SyncDies = TRUE
    Worker = {w1}
    MaxBuilds = 2
    MaxBlesses = 2
    MaxMishaps = 1
SPECIFICATION Spec
INVARIANTS
    TypeOK
    Linked
    KeptBack
    HashesRight
PROPERTIES
    BlessedIsWhole
CHECK_DEADLOCK FALSE
