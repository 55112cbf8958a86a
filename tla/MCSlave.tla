------------------------------- MODULE MCSlave -------------------------------
EXTENDS MagusSlave
CONSTANTS p1, p2, m1, m2, s1, s2, w1, w2, w3
Lib == [p \in Port |-> IF p = p2 THEN {p1} ELSE {}]
NoDepends == [p \in Port |-> {}]
EachOwn == [s \in Slave |-> IF s = s1 THEN m1 ELSE m2]

Tests == INSTANCE PortTest

\* The summaries that action Build takes for granted: whatever three phases do, the
\* results of a test are the right ones.
ASSUME TestsRight ==
    \A phases \in UNION {[1 .. n -> Tests!Phase] : n \in 0 .. 3} :
        Tests!RightResults(phases, Tests!Results(phases))
=============================================================================
