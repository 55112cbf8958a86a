----------------------------- MODULE MCMonitorLive ----------------------------
\* An instance with one entry, and a check of Changes over larger directories.
EXTENDS MCMonitor

Large == INSTANCE DirSnapshot WITH Name <- 1 .. 3, Ino <- 1 .. 3, Order <- <<1, 2, 3>>

\* Between two listings of a directory without hard links one change is told right,
\* whichever of the names and inodes it is about.
ASSUME ChangesTold ==
    \A old, new \in Large!Listing :
        Large!OneStep(old, new) /\ Large!Unlinked(old) =>
            Large!Replay(Large!Names(old), Large!Changes(old, new)) = Large!Names(new)
=============================================================================
