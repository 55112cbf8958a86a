------------------------------- MODULE PortTest -------------------------------
(***************************************************************************)
(* What a test of a port says, from what its phases did                    *)
(* (Tools/lib/Magus/PortTest.pm, Magus/OutcomeRules/Base.pm).  A phase is  *)
(* a make target; its rules look for errors and warnings in the output.    *)
(***************************************************************************)
EXTENDS Naturals, Sequences, SequencesExt

Phase == [made : BOOLEAN, errors : BOOLEAN, warnings : BOOLEAN]

\* execute: the summary of the rules of a phase.
Execute(phase) ==
    CASE phase.errors -> "fail"
      [] ~ phase.errors /\ phase.warnings -> "warn"
      [] OTHER -> "pass"

Untried == [summary |-> "pass", errors |-> "none", warnings |-> FALSE, log |-> 0, phases |-> 0]

\* One round of the loop of run; log is the phase whose output is kept.
Tried(results, phase) ==
    LET made == IF phase.made THEN results.summary ELSE "fail"
        presults == Execute(phase)
        summary == IF made = "pass" \/ (made = "warn" /\ presults # "pass") THEN presults ELSE made
        n == results.phases + 1
    IN  [summary |-> summary,
         errors |-> CASE phase.errors -> "parsed"
                      [] ~ phase.errors /\ ~ phase.made -> "MakeExitNonZero"
                      [] OTHER -> results.errors,
         warnings |-> results.warnings \/ phase.warnings,
         log |-> IF summary = "fail" THEN n ELSE 0,
         phases |-> n]

\* run, without check_for_skip: no phase comes after one that fails.
Results(phases) ==
    FoldLeft(LAMBDA results, phase : IF results.summary = "fail" THEN results ELSE Tried(results, phase),
             Untried, phases)

-----------------------------------------------------------------------------
(* The reference.                                                          *)

Failed(phase) == ~ phase.made \/ phase.errors

\* A port fails with the first phase that fails, whose output becomes its log and whose
\* errors are parsed ones if there are any; it warns when no phase fails and one warns.
RightResults(phases, results) ==
    LET bad == {i \in DOMAIN phases : Failed(phases[i])} IN
    /\ results.summary = "fail" <=> bad # {}
    /\ bad # {} =>
        /\ results.log \in bad /\ \A i \in bad : results.log <= i
        /\ results.errors = IF phases[results.log].errors THEN "parsed" ELSE "MakeExitNonZero"
    /\ bad = {} =>
        /\ results.log = 0 /\ results.errors = "none"
        /\ results.summary = "warn" <=> \E i \in DOMAIN phases : phases[i].warnings

=============================================================================
