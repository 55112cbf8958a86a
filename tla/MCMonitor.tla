------------------------------ MODULE MCMonitor -------------------------------
\* Small instances of FileMonitor for TLC.
EXTENDS FileMonitor

CONSTANTS a, b, e1, e2

AThenB == <<a, b>>
OnlyA == <<a>>
=============================================================================
