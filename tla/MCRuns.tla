-------------------------------- MODULE MCRuns --------------------------------
\* Small instances of MagusRuns for TLC.
EXTENDS MagusRuns, TLC

CONSTANTS p1, p2

\* p2 depends on p1.
Lib == p1 :> {} @@ p2 :> {p1}
=============================================================================
