-------------------------- MODULE MagusRelease_proofs -------------------------
(***************************************************************************)
(* What a test says, for every sequence of phases.                         *)
(*                                                                         *)
(* What holds of a release for every set of ports, flavors and trees, any  *)
(* number of workers, builds, resets and starts of magus-bless, wherever a *)
(* program dies and a worker fails or loses its lock: the run has the      *)
(* dependencies its ports declare, and what is published of it is whole,   *)
(* true of what was left alone, closed but for dependencies that were lost *)
(* after a test, and gives no distfile away that must be kept.             *)
(***************************************************************************)
EXTENDS MagusRelease, FiniteSetTheorems, WellFoundedInduction, TLAPS

-----------------------------------------------------------------------------
(* What a test says.  The recursion of run is the library's fold: that it    *)
(* has a value is shown by the least position where it would not.            *)

\* A set of numbers has a least one.
LEMMA LeastNumber ==
    ASSUME NEW T \in SUBSET Nat, T # {}
    PROVE  \E i \in T : \A j \in T : i <= j
<1> DEFINE R == {ss \in Nat \X Nat : ss[1] < ss[2]}
<1>1. IsWellFoundedOn(R, Nat)
  BY NatLessThanWellFounded DEF OpToRel
<1>2. \A i, j \in Nat : j < i => <<j, i>> \in R
  OBVIOUS
<1> HIDE DEF R
<1>3. PICK i \in T : \A j \in T : ~ (<<j, i>> \in R)
  BY <1>1, WFMin
<1>4. \A j \in T : i \in Nat /\ j \in Nat /\ ~ (j < i)
  BY <1>2, <1>3, Zenon
<1> QED
  BY <1>4

\* One round of the loop of run.
Round(results, phase) == IF results.summary = "fail" THEN results ELSE Tried(results, phase)

\* The fold of Results over a set of positions, the last one taken last.
FoldsTo(it, phases, s) ==
    IF s = {} THEN Untried ELSE Round(it[s \ {Max(s)}], phases[Max(s)])

IsFold(it, phases, n) ==
    it = [s \in SUBSET (1 .. n) |-> FoldsTo(it, phases, s)]

LEMMA LastIsThere ==
    ASSUME NEW k \in Nat, NEW s \in SUBSET (1 .. k), s # {}
    PROVE  Max(s) \in s /\ \A j \in s : Max(s) >= j
<1> DEFINE T == {k - i : i \in s}
<1>1. T \in SUBSET Nat /\ T # {}
  <2>1. \A i \in s : k - i \in Nat
    OBVIOUS
  <2> QED
    BY <2>1
<1>2. PICK t \in T : \A j \in T : t <= j
  <2> HIDE DEF T
  <2> QED
    BY <1>1, LeastNumber
<1>3. PICK i \in s : t = k - i
  BY <1>2
<1>4. \A j \in s : i >= j
  <2>1. ASSUME NEW j \in s
        PROVE  i >= j
    <3>1. k - i <= k - j
      BY <1>2, <1>3
    <3> QED
      BY <3>1
  <2> QED
    BY <2>1
<1> QED
  BY <1>3, <1>4, Zenon DEF Max

LEMMA FoldExists ==
    ASSUME NEW phases, NEW n \in Nat
    PROVE  \E it : IsFold(it, phases, n)
<1> DEFINE Good(k) == \E it : IsFold(it, phases, k)
           T == {k \in Nat : ~ Good(k)}
<1>1. Good(0)
  <2> DEFINE it == [s \in SUBSET (1 .. 0) |-> Untried]
  <2>1. 1 .. 0 = {}
    OBVIOUS
  <2>2. \A s \in SUBSET (1 .. 0) : s = {}
    BY <2>1
  <2>3. it = [s \in SUBSET (1 .. 0) |-> FoldsTo(it, phases, s)]
    BY <2>2 DEF FoldsTo
  <2> QED
    BY <2>3 DEF IsFold
<1>2. ASSUME NEW k \in Nat, Good(k)
      PROVE  Good(k + 1)
  <2>1. PICK it : it = [s \in SUBSET (1 .. k) |-> FoldsTo(it, phases, s)]
    BY <1>2 DEF IsFold
  <2> DEFINE more == [s \in SUBSET (1 .. k + 1) |->
                        IF k + 1 \in s THEN Round(it[s \ {k + 1}], phases[k + 1]) ELSE it[s]]
  <2>2. ASSUME NEW s \in SUBSET (1 .. k + 1)
        PROVE  more[s] = FoldsTo(more, phases, s)
    <3>1. CASE k + 1 \in s
      <4>1. Max(s) = k + 1
        <5>1. k + 1 \in Nat /\ s # {}
          BY <3>1
        <5>2. Max(s) \in s /\ \A j \in s : Max(s) >= j
          BY <5>1, LastIsThere
        <5>3. Max(s) \in 1 .. k + 1 /\ Max(s) >= k + 1
          BY <3>1, <5>2
        <5> QED
          BY <5>3
      <4>2. /\ s \ {k + 1} \in SUBSET (1 .. k + 1) /\ k + 1 \notin s \ {k + 1}
        OBVIOUS
      <4>3. more[s \ {k + 1}] = it[s \ {k + 1}]
        BY <4>2
      <4>4. more[s] = Round(it[s \ {k + 1}], phases[k + 1])
        BY <3>1
      <4> HIDE DEF more
      <4> QED
        BY <3>1, <4>1, <4>3, <4>4 DEF FoldsTo
    <3>2. CASE k + 1 \notin s
      <4>1. s \in SUBSET (1 .. k)
        BY <3>2
      <4>2. more[s] = FoldsTo(it, phases, s)
        <5>1. more[s] = it[s]
          BY <3>2
        <5> HIDE DEF more
        <5> QED
          BY <2>1, <4>1, <5>1, Zenon
      <4>3. CASE s = {}
        <5> HIDE DEF more
        <5> QED
          BY <4>2, <4>3 DEF FoldsTo
      <4>4. CASE s # {}
        <5>1. s \ {Max(s)} \in SUBSET (1 .. k + 1) /\ k + 1 \notin s \ {Max(s)}
          BY <3>2
        <5>2. more[s \ {Max(s)}] = it[s \ {Max(s)}]
          BY <5>1
        <5> HIDE DEF more
        <5>3. /\ FoldsTo(it, phases, s) = Round(it[s \ {Max(s)}], phases[Max(s)])
              /\ FoldsTo(more, phases, s) = Round(more[s \ {Max(s)}], phases[Max(s)])
          BY <4>4, Zenon DEF FoldsTo
        <5> QED
          BY <4>2, <5>2, <5>3
      <4> QED
        BY <4>3, <4>4
    <3> QED
      BY <3>1, <3>2
  <2>3. more = [s \in SUBSET (1 .. k + 1) |-> more[s]]
    OBVIOUS
  <2> HIDE DEF more
  <2>4. more = [s \in SUBSET (1 .. k + 1) |-> FoldsTo(more, phases, s)]
    BY <2>2, <2>3
  <2> QED
    BY <2>4 DEF IsFold
<1>3. SUFFICES ASSUME ~ Good(n)
               PROVE  FALSE
  OBVIOUS
<1> HIDE DEF Good
<1>4. T \in SUBSET Nat /\ T # {}
  BY <1>3
<1>5. PICK k \in T : \A j \in T : k <= j
  <2> HIDE DEF T
  <2> QED
    BY <1>4, LeastNumber
<1>6. k # 0 /\ k - 1 \in Nat /\ (k - 1) + 1 = k
  BY <1>1, <1>5
<1>7. Good(k - 1)
  BY <1>5, <1>6
<1>8. Good((k - 1) + 1)
  BY <1>2, <1>6, <1>7
<1> QED
  BY <1>5, <1>6, <1>8

\* Results takes the phases in their order, from the first.
LEMMA ResultsRound ==
    ASSUME NEW phases, NEW n \in Nat, DOMAIN phases = 1 .. n
    PROVE  \E upto : /\ upto[0] = Untried
                     /\ \A i \in 1 .. n : upto[i] = Round(upto[i - 1], phases[i])
                     /\ upto[n] = Results(phases)
<1> DEFINE it == CHOOSE it : IsFold(it, phases, n)
           upto == [i \in 0 .. n |-> it[1 .. i]]
<1>1. it = [s \in SUBSET (1 .. n) |-> FoldsTo(it, phases, s)]
  <2>1. IsFold(it, phases, n)
    BY FoldExists, Zenon
  <2> HIDE DEF it
  <2> QED
    BY <2>1 DEF IsFold
<1>2. Results(phases) = it[1 .. n]
  BY DEF Results, FoldLeft, MapThenFoldSet, Round, FoldsTo, IsFold
<1> HIDE DEF it
<1>3. ASSUME NEW s \in SUBSET (1 .. n)
      PROVE  it[s] = FoldsTo(it, phases, s)
  BY <1>1, Zenon
<1>4. upto[0] = Untried
  <2>1. 1 .. 0 = {} /\ {} \in SUBSET (1 .. n) /\ 0 \in 0 .. n
    OBVIOUS
  <2> QED
    BY <1>3, <2>1 DEF FoldsTo
<1>5. ASSUME NEW i \in 1 .. n
      PROVE  upto[i] = Round(upto[i - 1], phases[i])
  <2>1. 1 .. i \in SUBSET (1 .. n) /\ (1 .. i) \ {i} = 1 .. i - 1
    OBVIOUS
  <2>4. i \in 1 .. i /\ 1 .. i # {}
    OBVIOUS
  <2>2. Max(1 .. i) = i
    <3>1. Max(1 .. i) \in 1 .. i /\ \A j \in 1 .. i : Max(1 .. i) >= j
      BY <2>1, <2>4, LastIsThere
    <3> QED
      BY <2>4, <3>1
  <2>3. upto[i] = it[1 .. i] /\ upto[i - 1] = it[1 .. i - 1]
    BY i \in 0 .. n, i - 1 \in 0 .. n
  <2> QED
    BY <1>3, <2>1, <2>2, <2>3, <2>4 DEF FoldsTo
<1>6. upto[n] = Results(phases)
  BY <1>2, n \in 0 .. n
<1> QED
  BY <1>4, <1>5, <1>6

BadUpTo(phases, i) == {j \in 1 .. i : Failed(phases[j])}

\* What has been found out after the first i phases.
RightUpTo(phases, i, results) ==
    LET bad == BadUpTo(phases, i) IN
    /\ results.summary \in {"pass", "warn", "fail"}
    /\ results.summary = "fail" <=> bad # {}
    /\ bad # {} =>
        /\ results.log \in bad /\ \A j \in bad : results.log <= j
        /\ results.errors = IF phases[results.log].errors THEN "parsed" ELSE "MakeExitNonZero"
    /\ bad = {} =>
        /\ results.phases = i
        /\ results.log = 0 /\ results.errors = "none"
        /\ results.summary = "warn" <=> \E j \in 1 .. i : phases[j].warnings

LEMMA RoundIsRight ==
    ASSUME NEW phases \in Seq(Phase), NEW i \in 1 .. Len(phases), NEW results,
           RightUpTo(phases, i - 1, results)
    PROVE  RightUpTo(phases, i, Round(results, phases[i]))
<1> DEFINE old == BadUpTo(phases, i - 1)
           bad == BadUpTo(phases, i)
           after == Round(results, phases[i])
<1>1. 1 .. i = (1 .. i - 1) \cup {i} /\ i \in Nat /\ i \notin 1 .. i - 1
  OBVIOUS
<1>2. bad = IF Failed(phases[i]) THEN old \cup {i} ELSE old
  BY <1>1 DEF BadUpTo
<1>6. old \subseteq 1 .. i - 1
  BY DEF BadUpTo
<1>3. phases[i] \in Phase
  OBVIOUS
<1>4. CASE old # {}
  <2>1. after = results
    BY <1>4 DEF Round, RightUpTo
  <2>2. results.log \in old /\ \A j \in old : results.log <= j
    BY <1>4 DEF RightUpTo
  <2>3. results.log <= i /\ results.log \in bad
    BY <1>2, <1>6, <2>2
  <2> QED
    BY <1>2, <1>4, <2>1, <2>2, <2>3 DEF RightUpTo
<1>5. CASE old = {}
  <2> DEFINE phase == phases[i]
  <2>1. /\ results.summary \in {"pass", "warn"} /\ results.phases = i - 1
        /\ results.log = 0 /\ results.errors = "none"
        /\ results.summary = "warn" <=> \E j \in 1 .. i - 1 : phases[j].warnings
    BY <1>5 DEF RightUpTo
  <2>2. phase.made \in BOOLEAN /\ phase.errors \in BOOLEAN /\ phase.warnings \in BOOLEAN
    BY <1>3 DEF Phase
  <2>3. after = Tried(results, phase)
    BY <2>1 DEF Round
  <2>4. (\E j \in 1 .. i : phases[j].warnings)
           <=> ((\E j \in 1 .. i - 1 : phases[j].warnings) \/ phase.warnings)
    BY <1>1
  <2>5. (i - 1) + 1 = i
    BY <1>1
  <2>6. CASE Failed(phase)
    <3>1. bad = {i}
      BY <1>2, <1>5, <2>6
    <3>2. after.summary = "fail"
      BY <2>1, <2>2, <2>3, <2>6 DEF Tried, Execute, Failed
    <3>3. after.log = i
      BY <2>1, <2>2, <2>3, <2>5, <2>6 DEF Tried, Execute, Failed
    <3>4. after.errors = IF phase.errors THEN "parsed" ELSE "MakeExitNonZero"
      BY <2>1, <2>2, <2>3, <2>6 DEF Tried, Failed
    <3>5. bad # {} /\ after.log \in bad
      BY <3>1, <3>3
    <3>6. \A j \in bad : after.log <= j
      BY <1>1, <3>1, <3>3
    <3>7. after.errors = IF phases[after.log].errors THEN "parsed" ELSE "MakeExitNonZero"
      BY <3>3, <3>4
    <3> HIDE DEF after, bad
    <3> QED
      BY <3>2, <3>5, <3>6, <3>7 DEF RightUpTo, bad, after
  <2>7. CASE ~ Failed(phase)
    <3>1. bad = {}
      BY <1>2, <1>5, <2>7
    <3>2. phase.made /\ ~ phase.errors
      BY <2>7, <2>2 DEF Failed
    <3>3. after.summary = IF results.summary = "warn" \/ phase.warnings THEN "warn" ELSE "pass"
      BY <2>1, <2>2, <2>3, <3>2 DEF Tried, Execute
    <3>4. after.phases = i /\ after.log = 0 /\ after.errors = "none"
      <4>1. after.phases = results.phases + 1 /\ after.errors = results.errors
        BY <2>3, <3>2 DEF Tried
      <4>2. after.log = 0
        BY <2>1, <2>2, <2>3, <3>2 DEF Tried, Execute
      <4> QED
        BY <2>1, <2>5, <4>1, <4>2
    <3> HIDE DEF after
    <3>5. after.summary = "warn" <=> \E j \in 1 .. i : phases[j].warnings
      BY <2>1, <2>2, <2>4, <3>3
    <3>6. after.summary \in {"pass", "warn"}
      BY <3>3
    <3> HIDE DEF bad
    <3>7. after.summary # "fail"
      BY <3>6
    <3> QED
      BY <3>1, <3>4, <3>5, <3>6, <3>7 DEF RightUpTo, bad, after
  <2> QED
    BY <2>6, <2>7
<1> QED
  BY <1>4, <1>5

LEMMA ResultsRight ==
    ASSUME NEW phases \in Seq(Phase)
    PROVE  RightUpTo(phases, Len(phases), Results(phases))
<1> DEFINE n == Len(phases)
<1>1. n \in Nat /\ DOMAIN phases = 1 .. n
  OBVIOUS
<1>2. PICK upto : /\ upto[0] = Untried
                  /\ \A i \in 1 .. n : upto[i] = Round(upto[i - 1], phases[i])
                  /\ upto[n] = Results(phases)
  BY <1>1, ResultsRound
<1> DEFINE T == {i \in 0 .. n : ~ RightUpTo(phases, i, upto[i])}
<1>3. RightUpTo(phases, 0, upto[0])
  BY <1>2 DEF RightUpTo, Untried, BadUpTo
<1> HIDE DEF n
<1>4. ASSUME NEW i \in 1 .. n, RightUpTo(phases, i - 1, upto[i - 1])
      PROVE  RightUpTo(phases, i, upto[i])
  BY <1>2, <1>4, RoundIsRight DEF n
<1>5. SUFFICES ASSUME ~ RightUpTo(phases, n, upto[n])
               PROVE  FALSE
  BY <1>2 DEF n
<1>6. T \in SUBSET Nat /\ T # {}
  BY <1>1, <1>5
<1>7. PICK i \in T : \A j \in T : i <= j
  <2> HIDE DEF T
  <2> QED
    BY <1>6, LeastNumber
<1>8. i # 0
  BY <1>3, <1>7
<1>9. i \in 1 .. n /\ i - 1 \in 0 .. n /\ ~ (i <= i - 1)
  BY <1>1, <1>7, <1>8
<1>10. i - 1 \notin T
  BY <1>7, <1>9
<1> QED
  BY <1>4, <1>7, <1>9, <1>10

\* Whatever the phases of a test do and however many there are, its summary, its log and
\* its errors are those of the first phase that fails, or a warning if there was one.
THEOREM TestsAreRight ==
    ASSUME NEW phases \in Seq(Phase)
    PROVE  RightResults(phases, Results(phases))
<1>1. DOMAIN phases = 1 .. Len(phases)
  OBVIOUS
<1>2. RightUpTo(phases, Len(phases), Results(phases))
  BY ResultsRight
<1> QED
  BY <1>1, <1>2 DEF RightUpTo, RightResults, BadUpTo

LEMMA SummaryKinds ==
    ASSUME NEW phases \in Test
    PROVE  Results(phases).summary \in {"pass", "warn", "fail"}
  BY ReleaseAssumption, ResultsRight DEF RightUpTo

-----------------------------------------------------------------------------
(* The tree.                                                               *)

LEMMA DumpType ==
    ASSUME tree \in Tree, NEW r \in Rows
    PROVE  r \in Row /\ DumpOf(r) \in Dump
<1> DEFINE dumps == tree[r.name]
<1>1. r \in Row /\ \E i \in DOMAIN dumps : dumps[i].flavor = r.flavor
  BY DEF Rows
<1>2. dumps \in Seq(Dump)
  BY <1>1, TreeAssumption DEF Row
<1>3. PICK i \in DOMAIN dumps : DumpOf(r) = dumps[i]
  BY <1>1 DEF DumpOf
<1>4. dumps[i] \in Dump
  <2> HIDE DEF dumps, Dump
  <2> QED
    BY <1>2, <1>3
<1> QED
  BY <1>1, <1>3, <1>4

LEMMA SameTree ==
    ASSUME tree' = tree
    PROVE  /\ Rows' = Rows
           /\ \A r : /\ DumpOf(r)' = DumpOf(r)
                     /\ Restricted(r)' = Restricted(r)
                     /\ GivenAway(r)' = GivenAway(r)
<1>1. Rows' = Rows /\ \A r : DumpOf(r)' = DumpOf(r)
  BY DEF Rows, DumpOf
<1> QED
  BY <1>1 DEF Restricted, GivenAway

-----------------------------------------------------------------------------
(* What the steps leave alone.                                             *)

LEMMA BlessFrame ==
    ASSUME Bless
    PROVE  /\ UNCHANGED <<indexVars, jobVars, builds, dist, resets, mishaps>>
           /\ ~ BlessStart => UNCHANGED <<touched, blesses>>
<1>1. CASE BlessStart
  BY <1>1 DEF BlessStart, fileVars
<1>2. ASSUME ~ BlessStart
      PROVE  BlessUnchanged
  <2>1. CASE BlessOpen
    BY <2>1 DEF BlessOpen
  <2>2. CASE BlessEmpty \/ BlessDepends \/ BlessClose
    BY <2>2 DEF BlessEmpty, BlessDepends, BlessClose
  <2>3. CASE BlessMark \/ BlessDie
    BY <2>3 DEF BlessMark, BlessDie
  <2>4. ASSUME NEW r \in Row, BlessMissing(r) \/ BlessRestricted(r) \/ BlessPackage(r)
        PROVE  BlessUnchanged
    BY <2>4 DEF BlessMissing, BlessRestricted, BlessPackage
  <2> QED
    BY <1>2, <2>1, <2>2, <2>3, <2>4 DEF Bless
<1> QED
  BY <1>1, <1>2 DEF BlessUnchanged

LEMMA BlessRuns ==
    ASSUME Bless
    PROVE  /\ ~ BlessStart => bless.pc # "idle"
           /\ ~ BlessMark => run' = run
<1>1. CASE BlessStart
  BY <1>1 DEF BlessStart
<1>2. CASE BlessOpen \/ BlessEmpty \/ BlessDepends \/ BlessClose
  BY <1>2 DEF BlessOpen, BlessEmpty, BlessDepends, BlessClose
<1>3. CASE BlessMark \/ BlessDie
  BY <1>3 DEF BlessMark, BlessDie
<1>4. ASSUME NEW r \in Row, BlessMissing(r) \/ BlessRestricted(r) \/ BlessPackage(r)
      PROVE  bless.pc # "idle" /\ run' = run
  BY <1>4 DEF BlessMissing, BlessRestricted, BlessPackage
<1> QED
  BY <1>1, <1>2, <1>3, <1>4 DEF Bless

LEMMA SlaveFrame ==
    ASSUME NEW w, NEW x, Slave(w, x)
    PROVE  UNCHANGED <<tree, depends, sync, run, bless, index, blesses, dist>> /\ Touch({x})
<1>1. SlaveUnchanged /\ Touch({x})
  BY DEF Slave, Select, Claim, Refused, Report, Throw, StartUpload, NoUpload, EndUpload, UploadFails,
     StoreInternal, LosesDB, GiveBack, Unlock, Cut, Sweep, DropLock, Step, Goes
<1> QED
  BY <1>1 DEF SlaveUnchanged, blessVars

LEMMA JobGoes ==
    ASSUME TypeOK, NEW w \in Worker, NEW x \in Row, Slave(w, x)
    PROVE  \/ Sweep(w, x) /\ job' = job
           \/ \E pc \in PC :
                job' = [job EXCEPT ![w] = IF pc = "idle" THEN IdleJob ELSE [pc |-> pc, row |-> {x}]]
<1>1. job[w].pc \in PC
  BY DEF TypeOK
<1>2. \A pc \in {"idle", "selected", "claimed", "tested", "copying", "thrown", "over", "lost", "gone",
                 "cut"} : pc \in PC
  BY DEF PC
<1>3. CASE Sweep(w, x)
  BY <1>3 DEF Sweep
<1>4. SUFFICES ASSUME ~ Sweep(w, x)
               PROVE  \E pc \in PC : Goes(w, x, pc)
  BY <1>3 DEF Goes
<1>5. CASE DropLock(w, x)
  BY <1>1, <1>2, <1>5 DEF DropLock
<1>6. CASE Cut(w, x)
  BY <1>2, <1>6 DEF Cut
<1>7. CASE Select(w, x) \/ Claim(w, x) \/ Refused(w, x) \/ Report(w, x) \/ Throw(w, x)
  BY <1>2, <1>7 DEF Select, Claim, Refused, Report, Throw, Step
<1>8. CASE StartUpload(w, x) \/ NoUpload(w, x) \/ EndUpload(w, x) \/ UploadFails(w, x)
  BY <1>2, <1>8 DEF StartUpload, NoUpload, EndUpload, UploadFails, Step
<1>9. CASE StoreInternal(w, x) \/ LosesDB(w, x) \/ GiveBack(w, x) \/ Unlock(w, x)
  BY <1>2, <1>9 DEF StoreInternal, LosesDB, GiveBack, Unlock, Step
<1> QED
  BY <1>4, <1>5, <1>6, <1>7, <1>8, <1>9 DEF Slave

\* Which steps of a worker change what.
LEMMA SlaveTables ==
    ASSUME NEW w, NEW x, Slave(w, x)
    PROVE  /\ status' = status \/ Report(w, x) \/ StoreInternal(w, x) \/ MadeUntested(x)
           /\ \/ lock' = lock
              \/ Claim(w, x)
              \/ (Unlock(w, x) \/ DropLock(w, x)) /\ lock' = [lock EXCEPT ![x] = @ \ {w}]
           /\ (file' = file /\ builds' = builds) \/ StartUpload(w, x) \/ (EndUpload(w, x) /\ builds' = builds)
           /\ mishaps' = mishaps \/ mishaps' = mishaps + 1
           /\ resets' = resets \/ resets' = resets \cup {x}
           /\ torn' = torn \/ torn' = torn \cup {x}
<1>1. CASE Select(w, x) \/ Claim(w, x) \/ Refused(w, x)
  BY <1>1 DEF Select, Claim, Refused, Step, fileVars, MadeUntested
<1>2. CASE Report(w, x) \/ Throw(w, x)
  BY <1>2 DEF Report, Throw, Step, fileVars, GoesWrong
<1>3. CASE StartUpload(w, x) \/ NoUpload(w, x)
  BY <1>3 DEF StartUpload, NoUpload, Step, fileVars
<1>4. CASE EndUpload(w, x) \/ UploadFails(w, x)
  BY <1>4 DEF EndUpload, UploadFails, Step, fileVars, GoesWrong
<1>5. CASE StoreInternal(w, x) \/ LosesDB(w, x)
  BY <1>5 DEF StoreInternal, LosesDB, Step, fileVars, GoesWrong
<1>6. CASE GiveBack(w, x) \/ Unlock(w, x)
  BY <1>6 DEF GiveBack, Unlock, Step, fileVars, MadeUntested
<1>7. CASE Cut(w, x) \/ Sweep(w, x)
  BY <1>7 DEF Cut, Sweep, fileVars, MadeUntested, GoesWrong
<1>8. CASE DropLock(w, x)
  BY <1>8 DEF DropLock, fileVars, GoesWrong
<1> QED
  BY <1>1, <1>2, <1>3, <1>4, <1>5, <1>6, <1>7, <1>8 DEF Slave

\* A worker has to do with its port alone.
LEMMA SlaveOthers ==
    ASSUME TypeOK, NEW w \in Worker, NEW x \in Row, Slave(w, x)
    PROVE  /\ job[w].row = {x} \/ (job[w] = IdleJob /\ Select(w, x))
           /\ job'[w].row \subseteq {x}
           /\ \A v \in Worker : v # w => job'[v] = job[v]
           /\ \A r \in Row : r # x => /\ status'[r] = status[r] /\ lock'[r] = lock[r]
                                      /\ file'[r] = file[r]
           /\ resets' = resets \/ resets' = resets \cup {x}
           /\ torn' = torn \/ torn' = torn \cup {x}
<1>1. job[w].row = {x} \/ (job[w] = IdleJob /\ Select(w, x))
  BY DEF Slave, Select, Claim, Refused, Report, Throw, StartUpload, NoUpload, EndUpload, UploadFails,
     StoreInternal, LosesDB, GiveBack, Unlock, Cut, Sweep, DropLock, Step, At, Holds
<1>2. /\ job'[w].row \subseteq {x}
      /\ \A v \in Worker : v # w => job'[v] = job[v]
  <2>1. CASE Sweep(w, x)
    BY <2>1 DEF Sweep, Holds
  <2>2. ASSUME NEW pc \in PC,
               job' = [job EXCEPT ![w] = IF pc = "idle" THEN IdleJob ELSE [pc |-> pc, row |-> {x}]]
        PROVE  /\ job'[w].row \subseteq {x}
               /\ \A v \in Worker : v # w => job'[v] = job[v]
    BY <2>2 DEF TypeOK, IdleJob
  <2> QED
    BY <2>1, <2>2, JobGoes
<1>3. \A r \in Row : r # x => /\ status'[r] = status[r] /\ lock'[r] = lock[r] /\ file'[r] = file[r]
  <2> DEFINE S == \A r \in Row : r # x => /\ status'[r] = status[r] /\ lock'[r] = lock[r]
                                          /\ file'[r] = file[r]
  <2>1. CASE Select(w, x) \/ Claim(w, x) \/ Refused(w, x) \/ Report(w, x) \/ Throw(w, x)
    BY <2>1 DEF Select, Claim, Refused, Report, Throw, TypeOK, IndexTypeOK, fileVars
  <2>2. CASE StartUpload(w, x) \/ NoUpload(w, x) \/ EndUpload(w, x) \/ UploadFails(w, x)
    BY <2>2 DEF StartUpload, NoUpload, EndUpload, UploadFails, TypeOK, IndexTypeOK, fileVars
  <2>3. CASE StoreInternal(w, x) \/ LosesDB(w, x) \/ GiveBack(w, x) \/ Unlock(w, x)
    BY <2>3 DEF StoreInternal, LosesDB, GiveBack, Unlock, MadeUntested, TypeOK, IndexTypeOK, fileVars
  <2>4. CASE Cut(w, x) \/ Sweep(w, x) \/ DropLock(w, x)
    BY <2>4 DEF Cut, Sweep, DropLock, MadeUntested, TypeOK, IndexTypeOK, fileVars
  <2> QED
    BY <2>1, <2>2, <2>3, <2>4 DEF Slave
<1>4. (resets' = resets \/ resets' = resets \cup {x}) /\ (torn' = torn \/ torn' = torn \cup {x})
  BY SlaveTables
<1> QED
  BY <1>1, <1>2, <1>3, <1>4

\* The steps that leave ports, workers and magus-bless alone.
Quiet == Activate \/ Complete \/ DistCheck \/ UNCHANGED vars

LEMMA QuietFrame ==
    ASSUME Quiet
    PROVE  /\ UNCHANGED <<tree, status, depends, job, lock, torn, file, builds, bless, index, blesses,
                          resets, touched, mishaps>>
           /\ Activate \/ sync' = sync
  BY DEF Quiet, Activate, Complete, DistCheck, MasterUnchanged, vars, indexVars, jobVars, fileVars,
     blessVars

LEMMA ResetFrame ==
    ASSUME NEW x \in Row, Reset(x), TypeOK
    PROVE  /\ UNCHANGED <<tree, depends, sync, run, job, lock, torn, file, builds, bless, index,
                          blesses, dist>>
           /\ Touch({x}) /\ resets' = resets \cup {x} /\ sync.pc = "over"
           /\ status[x] # "absent" /\ status'[x] = "untested"
           /\ \A r \in Row : r # x => status'[r] = status[r]
  BY DEF Reset, MadeUntested, SlaveUnchanged, jobVars, fileVars, blessVars, TypeOK, IndexTypeOK

LEMMA TreeStays ==
    ASSUME TypeOK, [Next]_vars
    PROVE  tree' = tree
<1>1. CASE MakeRun
  <2>1. CASE BuildDepends \/ SyncDone \/ SyncDie
    BY <2>1 DEF BuildDepends, SyncDone, SyncDie
  <2>2. ASSUME NEW n \in Name, InsertPorts(n)
        PROVE  tree' = tree
    BY <2>2 DEF InsertPorts
  <2>3. ASSUME NEW r \in Rows, Link(r) \/ LinkMissing(r) \/ LinkClashing(r)
        PROVE  tree' = tree
    BY <2>3 DEF Link, LinkMissing, LinkClashing
  <2> QED
    BY <1>1, <2>1, <2>2, <2>3 DEF MakeRun, Sync
<1>2. ASSUME NEW r \in Row, NEW w \in Worker, Slave(w, r)
      PROVE  tree' = tree
  BY <1>2, SlaveFrame
<1>3. ASSUME NEW r \in Row, Reset(r)
      PROVE  tree' = tree
  BY <1>3, ResetFrame
<1>4. CASE Bless
  BY <1>4, BlessFrame DEF indexVars
<1>5. CASE Quiet
  BY <1>5, QuietFrame
<1> QED
  BY <1>1, <1>2, <1>3, <1>4, <1>5 DEF Next, Quiet

-----------------------------------------------------------------------------
(* Type correctness.                                                       *)

LEMMA SyncType ==
    ASSUME TypeOK, MakeRun
    PROVE  TypeOK'
<1>1. UNCHANGED <<run, job, lock, torn, file, builds, bless, index, dist, resets, touched, blesses, mishaps>>
  BY DEF MakeRun, MasterUnchanged, jobVars, fileVars, blessVars
<1>2. IndexTypeOK'
  <2>1. ASSUME NEW n \in Name, InsertPorts(n)
        PROVE  IndexTypeOK'
    BY <2>1 DEF InsertPorts, TypeOK, IndexTypeOK, Status
  <2>2. CASE BuildDepends
    BY <2>2 DEF BuildDepends, TypeOK, IndexTypeOK, Rows
  <2>3. CASE SyncDone \/ SyncDie
    BY <2>3 DEF SyncDone, SyncDie, TypeOK, IndexTypeOK
  <2>4. ASSUME NEW r \in Rows, Link(r) \/ LinkMissing(r) \/ LinkClashing(r)
        PROVE  IndexTypeOK'
    <3>1. r \in Row /\ \A items : Links(r, items) \subseteq DependsRow
      BY DEF Rows, Links
    <3>2. depends' \subseteq DependsRow
      BY <2>4, <3>1 DEF Link, LinkMissing, LinkClashing, TypeOK, IndexTypeOK
    <3>3. status' \in [Row -> Status \cup {"absent"}]
      BY <2>4, <3>1 DEF Link, LinkMissing, LinkClashing, TypeOK, IndexTypeOK, Status
    <3>4. tree' = tree
          /\ sync' \in [pc : {"scan", "link", "done", "dead"}, names : SUBSET Name, rows : SUBSET Row]
      BY <2>4, <3>1 DEF Link, LinkMissing, LinkClashing, TypeOK, IndexTypeOK
    <3> QED
      BY <3>2, <3>3, <3>4 DEF TypeOK, IndexTypeOK
  <2> QED
    BY <2>1, <2>2, <2>3, <2>4 DEF MakeRun, Sync
<1> QED
  BY <1>1, <1>2 DEF TypeOK, File0

LEMMA SlaveType ==
    ASSUME TypeOK, NEW w \in Worker, NEW r \in Row, Slave(w, r)
    PROVE  TypeOK'
<1>1. UNCHANGED <<tree, depends, sync, run, bless, index, dist, blesses>>
  BY SlaveFrame
<1>2. touched' \subseteq Row /\ resets' \subseteq Row /\ torn' \subseteq Row
  BY SlaveFrame, SlaveOthers DEF Touch, TypeOK
<1>3. job' \in [Worker -> [pc : PC, row : SUBSET Row]]
  <2>1. {} \in SUBSET Row /\ {r} \in SUBSET Row /\ "idle" \in PC
    BY DEF PC
  <2>2. CASE job' = job
    BY <2>2 DEF TypeOK
  <2>3. ASSUME NEW pc \in PC,
               job' = [job EXCEPT ![w] = IF pc = "idle" THEN IdleJob ELSE [pc |-> pc, row |-> {r}]]
        PROVE  job' \in [Worker -> [pc : PC, row : SUBSET Row]]
    <3>1. IdleJob \in [pc : PC, row : SUBSET Row] /\ [pc |-> pc, row |-> {r}] \in [pc : PC, row : SUBSET Row]
      BY <2>1 DEF IdleJob
    <3> QED
      BY <2>3, <3>1 DEF TypeOK
  <2> QED
    BY <2>2, <2>3, JobGoes
<1>4. status' \in [Row -> Status \cup {"absent"}]
  <2>1. CASE Report(w, r)
    <3>1. PICK result \in {Results(phases).summary : phases \in Test} \cup {"skip", "internal", status[r]} :
              status' = [status EXCEPT ![r] = result]
      BY <2>1 DEF Report
    <3>2. result \in Status \cup {"absent"}
      BY SummaryKinds DEF Status, TypeOK, IndexTypeOK
    <3> QED
      BY <3>1, <3>2 DEF TypeOK, IndexTypeOK
  <2>2. CASE StoreInternal(w, r) \/ MadeUntested(r)
    BY <2>2 DEF StoreInternal, MadeUntested, Status, TypeOK, IndexTypeOK
  <2> QED
    BY <2>1, <2>2, SlaveTables DEF TypeOK, IndexTypeOK
<1>5. file' \in [Row -> File0] /\ builds' \in [Row -> 0 .. MaxBuilds]
  <2>1. CASE StartUpload(w, r)
    <3>1. builds[r] + 1 \in 0 .. MaxBuilds
      BY <2>1, ReleaseAssumption DEF StartUpload, TypeOK
    <3> QED
      BY <2>1, <3>1 DEF StartUpload, TypeOK, File0
  <2>2. CASE EndUpload(w, r)
    <3>1. PICK whole \in BOOLEAN :
              file' = [file EXCEPT ![r] = IF @ = NoFile THEN @ ELSE [@ EXCEPT !.whole = whole]]
      BY <2>2 DEF EndUpload
    <3>2. [file[r] EXCEPT !.whole = whole] \in File0 /\ file[r] \in File0
      BY DEF TypeOK, File0
    <3> QED
      BY <2>2, <3>1, <3>2 DEF EndUpload, TypeOK
  <2> QED
    BY <2>1, <2>2, SlaveTables DEF TypeOK
<1>6. lock' \in [Row -> SUBSET Worker]
  BY SlaveTables DEF Claim, TypeOK
<1>7. mishaps' \in Nat
  BY SlaveTables DEF TypeOK
<1> QED
  BY <1>1, <1>2, <1>3, <1>4, <1>5, <1>6, <1>7 DEF TypeOK, IndexTypeOK

LEMMA BlessType ==
    ASSUME TypeOK, Bless
    PROVE  TypeOK'
<1>1. UNCHANGED <<indexVars, jobVars, builds, dist, resets, mishaps>>
  BY BlessFrame
<1>2. blesses' \in Nat /\ touched' \subseteq Row
  BY BlessFrame DEF BlessStart, TypeOK
<1> DEFINE R == [status : {"inactive", "active", "complete"}, blessed : BOOLEAN]
           B == [pc : {"idle", "open", "rows", "depends", "mark"}, rows : SUBSET Row, row : SUBSET Row]
<1>3. run' \in R /\ bless' \in B /\ file' \in [Row -> File0]
  <2>0. /\ IdleBless \in B /\ bless \in B /\ run \in R /\ file \in [Row -> File0] /\ NoFile \in File0
        /\ [status |-> "complete", blessed |-> TRUE] \in R
    BY ReleaseAssumption DEF IdleBless, TypeOK, NoFile, File0
  <2>1. CASE BlessStart
    <3>1. [pc |-> "open", rows |-> {r \in Row : Indexed(r)}, row |-> {}] \in B
      OBVIOUS
    <3> QED
      BY <2>0, <2>1, <3>1 DEF BlessStart, fileVars
  <2>2. CASE BlessOpen \/ BlessEmpty \/ BlessDepends \/ BlessClose
    <3>1. UNCHANGED <<run, file>>
      BY <2>2 DEF BlessOpen, BlessEmpty, BlessDepends, BlessClose
    <3>2. bless' = IdleBless \/ bless' = [bless EXCEPT !.pc = "rows"]
          \/ bless' = [bless EXCEPT !.pc = "rows", !.row = {}] \/ bless' = [bless EXCEPT !.pc = "mark"]
      BY <2>2 DEF BlessOpen, BlessEmpty, BlessDepends, BlessClose
    <3>3. bless' \in B
      BY <2>0, <3>2
    <3> QED
      BY <2>0, <3>1, <3>3
  <2>3. CASE BlessMark \/ BlessDie
    <3> HIDE DEF R, B
    <3> QED
      BY <2>0, <2>3 DEF BlessMark, BlessDie
  <2>4. ASSUME NEW r \in Row, BlessMissing(r) \/ BlessRestricted(r) \/ BlessPackage(r)
        PROVE  run' \in R /\ bless' \in B /\ file' \in [Row -> File0]
    <3>0. /\ run' = run
          /\ \/ bless' = [bless EXCEPT !.rows = bless.rows \ {r}]
             \/ bless' = [bless EXCEPT !.pc = "depends", !.rows = bless.rows \ {r}, !.row = {r}]
      BY <2>4 DEF BlessMissing, BlessRestricted, BlessPackage
    <3>1. bless' \in B
      <4>1. bless.rows \ {r} \in SUBSET Row /\ {r} \in SUBSET Row
        BY <2>0
      <4> QED
        BY <2>0, <3>0, <4>1
    <3>2. file' \in [Row -> File0]
      BY <2>0, <2>4 DEF BlessMissing, BlessRestricted, BlessPackage
    <3> QED
      BY <2>0, <3>0, <3>1, <3>2
  <2> HIDE DEF R, B
  <2> QED
    BY <2>1, <2>2, <2>3, <2>4 DEF Bless
<1>4. index' \in [state : {"none", "partial", "done"}, hash : [Row -> File0], depends : SUBSET (Row \X Row)]
  <2>1. index \in [state : {"none", "partial", "done"}, hash : [Row -> File0],
                  depends : SUBSET (Row \X Row)]
    BY DEF TypeOK
  <2>2. NoFile \in File0
    BY ReleaseAssumption DEF NoFile, File0
  <2>3. CASE BlessOpen
    BY <2>2, <2>3 DEF BlessOpen, NoIndex
  <2>4. ASSUME NEW r \in Row, BlessPackage(r)
        PROVE  index' \in [state : {"none", "partial", "done"}, hash : [Row -> File0],
                          depends : SUBSET (Row \X Row)]
    <3>1. index' = [index EXCEPT !.hash[r] = file[r]] /\ file[r] \in File0
      BY <2>4 DEF BlessPackage, TypeOK
    <3> QED
      BY <2>1, <3>1
  <2>5. CASE BlessDepends
    <3> DEFINE more == {<<r, l.dependency>> : r \in bless.row,
                l \in {l \in depends : /\ l.port \in bless.row /\ l.type = "run"
                                       /\ Built(l.port) /\ Built(l.dependency)}}
    <3>1. more \in SUBSET (Row \X Row)
      BY DEF TypeOK, IndexTypeOK, DependsRow
    <3>2. index' = [index EXCEPT !.depends = @ \cup more]
      BY <2>5 DEF BlessDepends
    <3> HIDE DEF more
    <3> QED
      BY <2>1, <3>1, <3>2
  <2>6. CASE BlessClose
    BY <2>1, <2>6 DEF BlessClose
  <2>7. ASSUME UNCHANGED index
        PROVE  index' \in [state : {"none", "partial", "done"}, hash : [Row -> File0],
                          depends : SUBSET (Row \X Row)]
    BY <2>1, <2>7
  <2> QED
    BY <2>3, <2>4, <2>5, <2>6, <2>7
    DEF Bless, BlessStart, BlessEmpty, BlessMissing, BlessRestricted, BlessMark, BlessDie
<1> QED
  BY <1>1, <1>2, <1>3, <1>4 DEF TypeOK, IndexTypeOK, indexVars, jobVars

LEMMA OtherType ==
    ASSUME TypeOK, Quiet \/ \E r \in Row : Reset(r)
    PROVE  TypeOK'
<1>1. CASE Activate \/ Complete
  <2>1. /\ sync' \in [pc : {"scan", "link", "done", "over", "dead"}, names : SUBSET Name, rows : SUBSET Row]
        /\ run' \in [status : {"inactive", "active", "complete"}, blessed : BOOLEAN] /\ dist' = dist
    BY <1>1 DEF Activate, Complete, MasterUnchanged, TypeOK, IndexTypeOK, indexVars
  <2>2. Quiet
    BY <1>1 DEF Quiet
  <2> QED
    BY <2>1, <2>2, QuietFrame DEF TypeOK, IndexTypeOK, File0
<1>2. CASE DistCheck
  <2>1. ASSUME NEW r \in Rows
        PROVE  GivenAway(r) \subseteq File
    <3>1. DumpOf(r) \in Dump
      BY DumpType DEF TypeOK, IndexTypeOK
    <3> QED
      BY <3>1 DEF GivenAway, Dump
  <2>2. PICK copied \in SUBSET UNION {GivenAway(r) : r \in {r \in Rows : Indexed(r) /\ ~ Restricted(r)}} :
            dist' = dist \cup copied
    BY <1>2 DEF DistCheck
  <2>3. copied \subseteq File
    BY <2>1
  <2> QED
    BY <1>2, <2>2, <2>3 DEF DistCheck, TypeOK, IndexTypeOK, indexVars, jobVars, fileVars, blessVars
<1>3. ASSUME NEW r \in Row, Reset(r)
      PROVE  TypeOK'
  <2>1. status' \in [Row -> Status \cup {"absent"}]
    BY <1>3 DEF Reset, MadeUntested, TypeOK, IndexTypeOK, Status
  <2>2. resets' \subseteq Row /\ touched' \subseteq Row
    BY <1>3, ResetFrame DEF Touch, TypeOK
  <2>3. mishaps' \in Nat
    BY <1>3 DEF Reset, GoesWrong, TypeOK
  <2> QED
    BY <1>3, <2>1, <2>2, <2>3, ResetFrame DEF TypeOK, IndexTypeOK, File0
<1>4. CASE UNCHANGED vars
  BY <1>4 DEF vars, indexVars, jobVars, fileVars, blessVars, TypeOK, IndexTypeOK
<1> QED
  BY <1>1, <1>2, <1>3, <1>4 DEF Quiet

LEMMA TypeInit ==
    ASSUME Init
    PROVE  TypeOK
<1>1. NoFile \in File0 /\ 0 \in 0 .. MaxBuilds
  BY ReleaseAssumption DEF NoFile, File0
<1>2. IndexTypeOK
  BY DEF Init, IndexInit, IndexTypeOK
<1>3. IdleJob \in [pc : PC, row : SUBSET Row]
  BY DEF IdleJob, PC
<1> QED
  BY <1>1, <1>2, <1>3 DEF Init, TypeOK, IdleBless, NoIndex

LEMMA TypeStep ==
    ASSUME TypeOK, [Next]_vars
    PROVE  TypeOK'
  BY SyncType, SlaveType, BlessType, OtherType DEF Next, Quiet

\* Every variable has its type, whatever the trees and the numbers of workers, builds and
\* mishaps.
THEOREM TypeCorrect == Spec => []TypeOK
  BY TypeInit, TypeStep, PTL DEF Spec

-----------------------------------------------------------------------------
(* The invariant.                                                          *)

\* Programs start after one another, and what they have not begun is as it was.
Ordered ==
    /\ run.status = "active" => sync.pc = "over"
    /\ sync.pc \in {"done", "over"} => sync.rows = {}
    /\ sync.pc # "over" =>
          /\ resets = {} /\ torn = {}
          /\ \A w \in Worker : job[w] = IdleJob
          /\ \A r \in Row : /\ lock[r] = {} /\ file[r] = NoFile /\ ~ InIndex(r)
                            /\ status[r] \notin {"pass", "warn", "internal"}
    /\ blesses = 0 =>
          /\ bless.pc = "idle" /\ index.state = "none" /\ touched = {}
          /\ \A r \in Row : ~ InIndex(r)
    /\ bless.pc \in {"rows", "depends"} => index.state = "partial"
    /\ bless.pc = "mark" => index.state = "done"

\* The package of a port that is built is there to its end, unless it must not be.
Stored(r) == Built(r) => file[r].whole /\ (file[r].build # 0 \/ Restricted(r))

\* What the worker that has a row says of its status and its package, as long as nobody
\* takes its lock.
WorkRight(w, r) ==
    r \in job[w].row /\ job[w].pc # "selected" =>
        /\ lock[r] = {w}
        /\ job[w].pc = "claimed" => status[r] = "untested"
        /\ job[w].pc = "copying" => file[r].build # 0 \/ Restricted(r)
        /\ job[w].pc \in {"over", "gone"} => Stored(r)

\* What the lock, the status and the package of a row say of each other.
Locked(r) ==
    /\ status[r] # "absent" => r \in Rows
    /\ \A w \in Worker :
          /\ r \in job[w].row => job[w].row = {r} /\ job[w].pc # "idle" /\ r \in Rows
          /\ r \notin touched /\ blesses # 0 => r \notin job[w].row
          /\ w \in lock[r] => r \in job[w].row /\ job[w].pc # "selected"
    /\ r \notin torn => /\ \A w \in Worker : WorkRight(w, r)
                        /\ lock[r] = {} => Stored(r)

HasLinks(r) ==
    \A item \in DumpOf(r).items :
        \E l \in depends :
            /\ l.port = r /\ l.type = item.type /\ l.dependency.name = item.name
            /\ [name |-> item.name, flavor |-> item.flavor] \in Rows => l.dependency.flavor = item.flavor

\* A port without a dependency it declares has failed, and no slave takes it.
Tied ==
    sync.pc \in {"link", "done", "over"} =>
        \A r \in Rows \ (sync.rows \cup resets) :
            HasLinks(r) \/ (status[r] = "fail" /\ \A w \in Worker : r \notin job[w].row)

Hashed(r) ==
    InIndex(r) => /\ ~ Restricted(r)
                  /\ r \notin touched \cup torn /\ Built(r) => index.hash[r] = file[r] /\ file[r].whole

\* A port that was built and is not, or will not be, or not for certain.
Lost(r) == status[r] = "internal" \/ r \in resets \cup torn

\* A port is tested after its dependencies were built.
DependenciesBuilt ==
    \A l \in depends :
        Built(l.port) \/ (\E w \in Worker : l.port \in job[w].row) => Built(l.dependency) \/ Lost(l.dependency)

\* A package is still to be come to, or in the index.
Collected(r) ==
    r \notin touched \cup torn /\ Built(r) /\ ~ Restricted(r) =>
        /\ bless.pc # "idle" => r \in bless.rows \/ (bless.pc # "open" /\ InIndex(r))
        /\ index.state = "done" => InIndex(r)

\* A package in the index has its dependencies there, unless it is just their turn.
Edges ==
    index.state = "done" \/ bless.pc \in {"rows", "depends"} =>
        \A l \in depends :
            /\ l.type = "run" /\ l.port \notin touched /\ InIndex(l.port) /\ Built(l.port)
            /\ ~ (bless.pc = "depends" /\ l.port \in bless.row)
            => <<l.port, l.dependency>> \in index.depends \/ Lost(l.dependency)

LEMMA SyncFrame ==
    ASSUME TypeOK, MakeRun
    PROVE  /\ UNCHANGED <<tree, run, job, lock, torn, file, builds, bless, index, dist, resets, touched, blesses>>
           /\ sync.pc \in {"scan", "link"} /\ sync'.pc # "over"
           /\ depends \subseteq depends'
           /\ sync'.pc = "done" => sync.rows = {} /\ sync'.rows = {}
           /\ \A r \in Row : status'[r] = status[r]
                             \/ (status'[r] \in {"untested", "skip", "fail"} /\ r \in Rows)
<1>0. UNCHANGED <<run, job, lock, torn, file, builds, bless, index, dist, resets, touched, blesses>>
  BY DEF MakeRun, MasterUnchanged, jobVars, fileVars, blessVars
<1>1. CASE BuildDepends \/ SyncDone \/ SyncDie
  BY <1>0, <1>1 DEF BuildDepends, SyncDone, SyncDie, TypeOK, IndexTypeOK
<1>2. ASSUME NEW n \in Name, InsertPorts(n)
      PROVE  /\ tree' = tree /\ depends' = depends /\ sync.pc = "scan" /\ sync'.pc = "scan"
             /\ \A r \in Row : status'[r] = status[r]
                               \/ (status'[r] \in {"untested", "skip", "fail"} /\ r \in Rows)
  <2>1. /\ tree' = tree /\ depends' = depends /\ sync.pc = "scan" /\ sync'.pc = "scan"
    BY <1>2 DEF InsertPorts, TypeOK, IndexTypeOK
  <2>2. \A r \in Row : status'[r] = CASE r \in Rows /\ r.name = n /\ DumpOf(r).interactive -> "skip"
                                  [] r \in Rows /\ r.name = n /\ ~ DumpOf(r).interactive -> "untested"
                                  [] OTHER -> status[r]
    BY <1>2 DEF InsertPorts
  <2> QED
    BY <2>1, <2>2
<1>3. ASSUME NEW x \in Rows, Link(x) \/ LinkMissing(x) \/ LinkClashing(x)
      PROVE  /\ tree' = tree /\ depends \subseteq depends' /\ sync.pc = "link" /\ sync'.pc \notin {"done", "over"}
             /\ \A r \in Row : status'[r] = status[r]
                               \/ (status'[r] \in {"untested", "skip", "fail"} /\ r \in Rows)
  <2>1. /\ tree' = tree /\ depends \subseteq depends' /\ sync.pc = "link" /\ sync'.pc \notin {"done", "over"}
    BY <1>3 DEF Link, LinkMissing, LinkClashing, TypeOK, IndexTypeOK
  <2>2. status' = status \/ status' = [status EXCEPT ![x] = "fail"]
    BY <1>3 DEF Link, LinkMissing, LinkClashing
  <2> QED
    BY <2>1, <2>2 DEF TypeOK, IndexTypeOK
<1> QED
  BY <1>0, <1>1, <1>2, <1>3 DEF MakeRun, Sync

LEMMA BuiltFacts ==
    \A r : Built(r) => Indexed(r) /\ status[r] \notin {"absent", "untested", "skip", "fail"}
  BY DEF Built, Indexed

LEMMA OrderedInit ==
    ASSUME Init
    PROVE  Ordered
  BY DEF Init, IndexInit, Ordered, IdleBless, NoIndex, NoFile, InIndex

LEMMA OrderedSync ==
    ASSUME TypeOK, Ordered, MakeRun
    PROVE  Ordered'
<1>1. /\ sync.pc # "over" /\ sync'.pc # "over" /\ run.status # "active"
      /\ UNCHANGED <<run, job, lock, torn, file, bless, index, resets, touched, blesses>>
  BY SyncFrame DEF Ordered
<1>2. \A r \in Row : status'[r] \notin {"pass", "warn", "internal"}
  BY <1>1, SyncFrame DEF Ordered
<1>3. sync'.pc = "done" => sync'.rows = {}
  BY SyncFrame
<1> QED
  BY <1>1, <1>2, <1>3 DEF Ordered, InIndex

LEMMA SlaveLater ==
    ASSUME Ordered, NEW w \in Worker, NEW x \in Row, Slave(w, x), TypeOK
    PROVE  sync.pc = "over"
<1>1. CASE Select(w, x)
  BY <1>1 DEF Select, Ordered
<1>2. CASE job[w].row = {x}
  BY <1>2 DEF Ordered, IdleJob
<1> QED
  BY <1>1, <1>2, SlaveOthers

LEMMA OrderedSlave ==
    ASSUME TypeOK, Ordered, NEW w \in Worker, NEW r \in Row, Slave(w, r)
    PROVE  Ordered'
<1>1. sync.pc = "over"
  BY SlaveLater
<1>2. /\ UNCHANGED <<sync, run, bless, index, blesses>>
      /\ blesses = 0 => touched' = touched
  BY SlaveFrame DEF Touch
<1> QED
  BY <1>1, <1>2 DEF Ordered, InIndex

\* What magus-bless does after its start.
LEMMA BlessLater ==
    ASSUME TypeOK, Ordered, Bless, ~ BlessStart
    PROVE  /\ blesses # 0
           /\ run'.status = "active" => run.status = "active"
           /\ bless'.pc \in {"rows", "depends"} => index'.state = "partial"
           /\ bless'.pc = "mark" => index'.state = "done"
           /\ sync.pc # "over" => \A r \in Row : file'[r] = NoFile /\ ~ InIndex(r)'
<1>1. blesses # 0
  <2>1. bless.pc # "idle"
    BY BlessRuns
  <2> QED
    BY <2>1 DEF Ordered
<1>2. CASE BlessOpen
  <2>1. /\ bless'.pc = "rows" /\ index'.state = "partial" /\ UNCHANGED <<file, run>>
        /\ \A r \in Row : ~ InIndex(r)'
    BY <1>2 DEF BlessOpen, NoIndex, NoFile, TypeOK, InIndex
  <2> QED
    BY <1>1, <2>1 DEF Ordered
<1>3. CASE BlessEmpty \/ BlessDie \/ BlessMark
  <2>1. bless'.pc = "idle" /\ UNCHANGED <<file, index>> /\ (run' = run \/ run'.status = "complete")
    BY <1>3 DEF BlessEmpty, BlessDie, BlessMark, IdleBless
  <2> QED
    BY <1>1, <2>1 DEF InIndex, Ordered
<1>4. CASE BlessDepends
  BY <1>1, <1>4 DEF BlessDepends, TypeOK, Ordered, InIndex
<1>5. CASE BlessClose
  BY <1>1, <1>5 DEF BlessClose, TypeOK, InIndex, Ordered
<1>6. ASSUME NEW r \in Row, BlessMissing(r) \/ BlessRestricted(r) \/ BlessPackage(r)
      PROVE  /\ run' = run /\ bless'.pc \in {"rows", "depends"} /\ index'.state = "partial"
             /\ sync.pc # "over" => \A s \in Row : file'[s] = NoFile /\ ~ InIndex(s)'
  <2>1. run' = run /\ bless'.pc \in {"rows", "depends"} /\ index'.state = "partial"
    BY <1>6 DEF BlessMissing, BlessRestricted, BlessPackage, TypeOK, Ordered
  <2>2. ASSUME sync.pc # "over"
        PROVE  file' = file /\ index' = index
    BY <1>6, <2>2 DEF BlessMissing, BlessRestricted, BlessPackage, Ordered, NoFile
  <2> QED
    BY <2>1, <2>2 DEF Ordered, InIndex
<1> QED
  BY <1>1, <1>2, <1>3, <1>4, <1>5, <1>6 DEF Bless

LEMMA OrderedBless ==
    ASSUME TypeOK, Ordered, Bless
    PROVE  Ordered' /\ blesses' # 0
<1>1. UNCHANGED <<sync, status, job, lock, torn, resets>> /\ (~ BlessStart => UNCHANGED <<touched, blesses>>)
  BY BlessFrame DEF indexVars, jobVars
<1>2. CASE BlessStart
  <2>1. /\ blesses' # 0 /\ bless'.pc = "open" /\ UNCHANGED <<run, index, file>>
    BY <1>2 DEF BlessStart, TypeOK, fileVars
  <2> QED
    BY <1>1, <2>1 DEF Ordered, InIndex
<1>3. CASE ~ BlessStart
  BY <1>1, <1>3, BlessLater DEF Ordered
<1> QED
  BY <1>2, <1>3

LEMMA OrderedOther ==
    ASSUME TypeOK, Ordered, Quiet \/ \E r \in Row : Reset(r)
    PROVE  Ordered'
<1>1. CASE Activate
  <2>1. /\ sync.pc = "done" /\ sync'.pc = "over" /\ sync'.rows = sync.rows
    BY <1>1 DEF Activate, TypeOK, IndexTypeOK
  <2>2. Quiet
    BY <1>1 DEF Quiet
  <2> QED
    BY <2>1, <2>2, QuietFrame DEF Ordered, InIndex
<1>2. CASE Quiet /\ ~ Activate
  <2>1. run' = run \/ run'.status = "complete"
    BY <1>2 DEF Quiet, Complete, DistCheck, vars, TypeOK
  <2> QED
    BY <1>2, <2>1, QuietFrame DEF Ordered, InIndex
<1>3. ASSUME NEW r \in Row, Reset(r)
      PROVE  Ordered'
  <2>1. /\ sync.pc = "over" /\ UNCHANGED <<run, sync, bless, index, blesses>>
        /\ blesses = 0 => touched' = touched
    BY <1>3, ResetFrame DEF Touch
  <2> QED
    BY <2>1 DEF Ordered, InIndex
<1> QED
  BY <1>1, <1>2, <1>3

LEMMA OrderedStep ==
    ASSUME TypeOK, Ordered, [Next]_vars
    PROVE  Ordered'
  BY OrderedSync, OrderedSlave, OrderedBless, OrderedOther DEF Next, Quiet

\* A run is marked as blessed only by a magus-bless that has just made the whole index,
\* wherever others have died before.
THEOREM OnlyWholeIsBlessed == Spec => BlessedIsWhole
<1>1. ASSUME TypeOK, Ordered, [Next]_vars, run'.blessed, ~ run.blessed
      PROVE  index.state = "done"
  <2>1. CASE MakeRun
    BY <1>1, <2>1, SyncFrame
  <2>2. ASSUME NEW r \in Row, Reset(r) \/ \E w \in Worker : Slave(w, r)
        PROVE  FALSE
    BY <1>1, <2>2, SlaveFrame, ResetFrame
  <2>3. CASE Quiet
    BY <1>1, <2>3 DEF Quiet, Activate, Complete, DistCheck, vars, TypeOK
  <2>4. CASE Bless
    <3>1. CASE BlessMark
      BY <1>1, <3>1 DEF BlessMark, Ordered
    <3>2. ASSUME ~ BlessMark
          PROVE  FALSE
      <4>1. run' = run
        BY <2>4, <3>2, BlessRuns
      <4> QED
        BY <1>1, <4>1
    <3> QED
      BY <3>1, <3>2
  <2> QED
    BY <1>1, <2>1, <2>2, <2>3, <2>4 DEF Next, Quiet
<1>2. TypeOK /\ Ordered /\ [Next]_vars => [run'.blessed /\ ~ run.blessed => index.state = "done"]_vars
  BY <1>1
<1> QED
  BY <1>2, OrderedInit, OrderedStep, TypeCorrect, PTL DEF Spec, BlessedIsWhole

-----------------------------------------------------------------------------
(* Rows.                                                                   *)

LEMMA RowsInit ==
    ASSUME Init, NEW r \in Row
    PROVE  Locked(r) /\ Hashed(r)
  BY DEF Init, IndexInit, Locked, WorkRight, Stored, Hashed, NoFile, NoIndex, IdleJob, InIndex, Built

LEMMA LockedSame ==
    ASSUME NEW r, Locked(r), tree' = tree, status'[r] = status[r], lock'[r] = lock[r], file'[r] = file[r],
           \A w \in Worker : r \in job'[w].row \/ r \in job[w].row => job'[w] = job[w],
           r \in torn => r \in torn',
           r \notin touched' /\ blesses' # 0 => \A w \in Worker : r \notin job[w].row
    PROVE  Locked(r)'
<1>1. Rows' = Rows /\ Restricted(r)' = Restricted(r) /\ Built(r)' = Built(r)
  BY SameTree DEF Built
<1>2. Stored(r)' <=> Stored(r)
  BY <1>1 DEF Stored
<1>3. ASSUME NEW w \in Worker
      PROVE  /\ r \in job'[w].row => job'[w].row = {r} /\ job'[w].pc # "idle" /\ r \in Rows
             /\ r \notin touched' /\ blesses' # 0 => r \notin job'[w].row
             /\ w \in lock'[r] => r \in job'[w].row /\ job'[w].pc # "selected"
             /\ r \notin torn' => WorkRight(w, r)'
  <2>1. r \notin torn' => WorkRight(w, r)'
    BY <1>1, <1>2 DEF Locked, WorkRight
  <2> QED
    BY <2>1 DEF Locked
<1>4. status'[r] # "absent" => r \in Rows'
  BY <1>1 DEF Locked
<1>5. r \notin torn' /\ lock'[r] = {} => Stored(r)'
  BY <1>2 DEF Locked
<1> QED
  BY <1>1, <1>3, <1>4, <1>5 DEF Locked

LEMMA GoesTo ==
    ASSUME TypeOK, NEW w \in Worker, NEW x, NEW pc, Goes(w, x, pc)
    PROVE  job'[w] = IF pc = "idle" THEN IdleJob ELSE [pc |-> pc, row |-> {x}]
  BY DEF Goes, TypeOK

LEMMA SlaveOnly ==
    ASSUME TypeOK, NEW w \in Worker, NEW x \in Row, Slave(w, x), Locked(x), x \notin torn,
           job[w].row = {x}, job[w].pc # "selected",
           WorkRight(w, x)', lock'[x] = {} => Stored(x)'
    PROVE  (\A v \in Worker : WorkRight(v, x)') /\ (lock'[x] = {} => Stored(x)')
<1>1. lock[x] = {w}
  BY DEF Locked, WorkRight
<1>2. ASSUME NEW v \in Worker, v # w
      PROVE  WorkRight(v, x)'
  <2>1. job'[v] = job[v]
    BY <1>2, SlaveOthers
  <2>2. x \in job[v].row => job[v].pc = "selected"
    BY <1>1, <1>2 DEF Locked, WorkRight
  <2> QED
    BY <2>1, <2>2 DEF WorkRight
<1> QED
  BY <1>2

\* A worker that selects a port, and gets its lock or not.
LEMMA LockedSelect ==
    ASSUME TypeOK, NEW w \in Worker, NEW x \in Row, Slave(w, x), Locked(x),
           Select(w, x) \/ Claim(w, x) \/ Refused(w, x)
    PROVE  /\ \A v \in Worker : v \in lock'[x] => x \in job'[v].row /\ job'[v].pc # "selected"
           /\ x \notin torn' => (\A v \in Worker : WorkRight(v, x)') /\ (lock'[x] = {} => Stored(x)')
<1>1. /\ status' = status /\ file' = file /\ \A v \in Worker : v # w => job'[v] = job[v]
      /\ tree' = tree
  BY SlaveOthers, SlaveFrame DEF Select, Claim, Refused, fileVars
<1>2. (Stored(x)' <=> Stored(x)) /\ (Restricted(x)' <=> Restricted(x))
  BY <1>1, SameTree DEF Stored, Built
<1>3. CASE Select(w, x)
  <2>1. job[w] = IdleJob /\ job'[w] = [pc |-> "selected", row |-> {x}] /\ UNCHANGED <<lock, torn>>
    BY <1>3, GoesTo DEF Select
  <2>2. w \notin lock[x]
    BY <2>1 DEF Locked, IdleJob
  <2>3. \A v \in Worker : WorkRight(v, x) => WorkRight(v, x)'
    BY <1>1, <1>2, <2>1 DEF WorkRight
  <2>4. \A v \in Worker : v \in lock'[x] => x \in job'[v].row /\ job'[v].pc # "selected"
    BY <1>1, <2>1, <2>2 DEF Locked
  <2>5. x \notin torn' => \A v \in Worker : WorkRight(v, x)'
    BY <2>1, <2>3 DEF Locked
  <2>6. x \notin torn' /\ lock'[x] = {} => Stored(x)'
    BY <1>2, <2>1 DEF Locked
  <2> QED
    BY <2>4, <2>5, <2>6
<1>4. CASE Claim(w, x)
  <2>1. /\ lock[x] = {} /\ job[w].row = {x} /\ job'[w] = [pc |-> "claimed", row |-> {x}]
        /\ lock'[x] = {w} /\ torn \subseteq torn' /\ (x \notin torn' => status[x] = "untested")
    BY <1>4, GoesTo DEF Claim, Step, At, TypeOK
  <2>2. ASSUME NEW v \in Worker, x \notin torn'
        PROVE  WorkRight(v, x)'
    BY <1>1, <2>1, <2>2 DEF WorkRight, Locked
  <2> QED
    BY <2>1, <2>2
<1>5. CASE Refused(w, x)
  <2>1. job[w].pc = "selected" /\ job'[w] = IdleJob /\ UNCHANGED <<lock, torn>>
    BY <1>5, GoesTo DEF Refused, Step, At
  <2>2. w \notin lock[x]
    BY <2>1 DEF Locked
  <2>3. \A v \in Worker : WorkRight(v, x) => WorkRight(v, x)'
    BY <1>1, <1>2, <2>1 DEF WorkRight, IdleJob
  <2>4. \A v \in Worker : v \in lock'[x] => x \in job'[v].row /\ job'[v].pc # "selected"
    BY <1>1, <2>1, <2>2 DEF Locked
  <2>5. x \notin torn' => \A v \in Worker : WorkRight(v, x)'
    BY <2>1, <2>3 DEF Locked
  <2>6. x \notin torn' /\ lock'[x] = {} => Stored(x)'
    BY <1>2, <2>1 DEF Locked
  <2> QED
    BY <2>4, <2>5, <2>6
<1> QED
  BY <1>3, <1>4, <1>5

\* A worker with its lock.
LEMMA LockedWork ==
    ASSUME TypeOK, NEW w \in Worker, NEW x \in Row, Slave(w, x), Locked(x),
           ~ (Select(w, x) \/ Claim(w, x) \/ Refused(w, x))
    PROVE  /\ \A v \in Worker : v \in lock'[x] => x \in job'[v].row /\ job'[v].pc # "selected"
           /\ x \notin torn' => (\A v \in Worker : WorkRight(v, x)') /\ (lock'[x] = {} => Stored(x)')
<1>0. /\ tree' = tree /\ Restricted(x)' = Restricted(x) /\ torn \subseteq torn'
      /\ \A v \in Worker : v # w => job'[v] = job[v]
      /\ file[x] \in File0
  BY SlaveFrame, SlaveOthers, SameTree DEF TypeOK
<1>1. job[w].row = {x} /\ job[w].pc # "selected"
  <2>1. job[w].row = {x}
    BY SlaveOthers
  <2>2. CASE Sweep(w, x) \/ DropLock(w, x)
    BY <2>2 DEF Sweep, DropLock, Holds, Locked
  <2>3. CASE ~ (Sweep(w, x) \/ DropLock(w, x))
    BY <2>3 DEF Slave, Report, Throw, StartUpload, NoUpload, EndUpload, UploadFails,
       StoreInternal, LosesDB, GiveBack, Unlock, Cut, Step, At
  <2> QED
    BY <2>1, <2>2, <2>3
<1>2. SUFFICES /\ \A v \in Worker : v \in lock'[x] => v \in lock[x]
               /\ w \in lock'[x] => x \in job'[w].row /\ job'[w].pc # "selected"
               /\ x \notin torn' => WorkRight(w, x)' /\ (lock'[x] = {} => Stored(x)')
  <2>1. ASSUME \A v \in Worker : v \in lock'[x] => v \in lock[x],
               w \in lock'[x] => x \in job'[w].row /\ job'[w].pc # "selected",
               NEW v \in Worker, v \in lock'[x]
        PROVE  x \in job'[v].row /\ job'[v].pc # "selected"
    BY <1>0, <2>1 DEF Locked
  <2> QED
    BY <1>0, <1>1, <2>1, SlaveOnly
<1>3. x \notin torn => WorkRight(w, x) /\ lock[x] = {w}
  BY <1>1 DEF Locked, WorkRight
<1>4. CASE Report(w, x) \/ Throw(w, x) \/ LosesDB(w, x)
  <2>1. \E pc \in {"tested", "thrown", "lost"} : job'[w] = [pc |-> pc, row |-> {x}]
    BY <1>4, GoesTo DEF Report, Throw, LosesDB, Step
  <2>2. lock' = lock /\ torn' = torn
    BY <1>4 DEF Report, Throw, LosesDB, Step
  <2> QED
    BY <1>2, <1>3, <2>1, <2>2 DEF WorkRight
<1>5. CASE StartUpload(w, x)
  <2>1. job'[w] = [pc |-> "copying", row |-> {x}] /\ lock' = lock /\ torn' = torn
    BY <1>5, GoesTo DEF StartUpload, Step
  <2>2. file'[x].build # 0
    <3>1. file'[x] = [build |-> builds[x] + 1, whole |-> FALSE] /\ builds[x] \in Nat
      BY <1>5 DEF StartUpload, TypeOK
    <3> QED
      BY <3>1
  <2> QED
    BY <1>2, <1>3, <2>1, <2>2 DEF WorkRight
<1>6. CASE NoUpload(w, x)
  <2>1. job'[w] = [pc |-> "over", row |-> {x}] /\ lock' = lock /\ torn' = torn /\ ~ Built(x)'
    BY <1>6, GoesTo DEF NoUpload, Step, Built
  <2> QED
    BY <1>2, <1>3, <2>1 DEF WorkRight, Stored
<1>7. CASE EndUpload(w, x)
  <2>1. /\ job'[w] = [pc |-> "over", row |-> {x}] /\ lock' = lock /\ torn' = torn
        /\ job[w].pc = "copying"
    BY <1>7, GoesTo DEF EndUpload, Step, At
  <2>2. ASSUME x \notin torn
        PROVE  Stored(x)'
    <3>1. file'[x] = IF file[x] = NoFile THEN file[x] ELSE [file[x] EXCEPT !.whole = TRUE]
      BY <1>7, <2>2 DEF EndUpload, TypeOK
    <3>2. file'[x].whole /\ file'[x].build = file[x].build
      BY <1>0, <3>1 DEF File0, NoFile
    <3>3. file[x].build # 0 \/ Restricted(x)
      BY <1>1, <1>3, <2>1, <2>2 DEF WorkRight
    <3> QED
      BY <1>0, <3>2, <3>3 DEF Stored
  <2> QED
    BY <1>2, <1>3, <2>1, <2>2 DEF WorkRight
<1>8. CASE UploadFails(w, x)
  <2>1. job'[w] = [pc |-> "thrown", row |-> {x}] /\ lock' = lock /\ torn' = torn
    BY <1>8, GoesTo DEF UploadFails
  <2> QED
    BY <1>2, <1>3, <2>1 DEF WorkRight
<1>9. CASE StoreInternal(w, x)
  <2>1. job'[w] = [pc |-> "over", row |-> {x}] /\ lock' = lock /\ torn' = torn
    BY <1>9, GoesTo DEF StoreInternal, Step
  <2>2. ~ Built(x)'
    BY <1>9 DEF StoreInternal, Built, TypeOK, IndexTypeOK
  <2> QED
    BY <1>2, <1>3, <2>1, <2>2 DEF WorkRight, Stored
<1>10. CASE GiveBack(w, x)
  <2>1. job'[w] = [pc |-> "gone", row |-> {x}] /\ lock' = lock /\ torn' = torn
    BY <1>10, GoesTo DEF GiveBack
  <2>2. ~ Built(x)'
    BY <1>10 DEF GiveBack, MadeUntested, Built, TypeOK, IndexTypeOK
  <2> QED
    BY <1>2, <1>3, <2>1, <2>2 DEF WorkRight, Stored
<1>11. CASE Unlock(w, x)
  <2>1. /\ job'[w] = IdleJob /\ lock'[x] = lock[x] \ {w} /\ torn' = torn
        /\ status' = status /\ file' = file /\ job[w].pc \in {"over", "gone"}
    BY <1>11, GoesTo DEF Unlock, Step, At, TypeOK, fileVars
  <2>2. Stored(x)' = Stored(x)
    BY <1>0, <2>1 DEF Stored, Built
  <2> QED
    BY <1>1, <1>2, <1>3, <2>1, <2>2 DEF WorkRight, IdleJob
<1>12. CASE Cut(w, x)
  <2>1. /\ job'[w] = IF w \in lock[x] THEN [pc |-> "cut", row |-> {x}] ELSE IdleJob
        /\ lock' = lock /\ torn' = torn
    BY <1>12, GoesTo DEF Cut
  <2> QED
    BY <1>2, <1>3, <2>1 DEF WorkRight, IdleJob
<1>13. CASE Sweep(w, x)
  <2>1. /\ job' = job /\ lock' = lock /\ torn' = torn /\ file' = file /\ ~ Built(x)'
        /\ status'[x] = "untested"
    BY <1>13 DEF Sweep, MadeUntested, Built, TypeOK, IndexTypeOK, fileVars
  <2>2. Stored(x)'
    BY <2>1 DEF Stored
  <2> QED
    BY <1>0, <1>1, <1>2, <1>3, <2>1, <2>2 DEF WorkRight
<1>14. CASE DropLock(w, x)
  <2>1. /\ lock'[x] = lock[x] \ {w} /\ status' = status /\ file' = file
        /\ x \notin torn' => job[w].pc = "cut" /\ ~ Built(x)
    BY <1>14 DEF DropLock, TypeOK, fileVars, At
  <2>2. ASSUME x \notin torn'
        PROVE  job'[w] = IdleJob /\ Stored(x)'
    <3>1. At(w, x, {"cut"})
      BY <1>1, <2>1, <2>2 DEF At
    <3>2. job'[w] = IdleJob
      BY <1>14, <3>1, GoesTo DEF DropLock
    <3> QED
      BY <2>1, <2>2, <3>2 DEF Stored, Built
  <2> QED
    BY <1>2, <2>1, <2>2 DEF WorkRight, IdleJob
<1> QED
  BY <1>4, <1>5, <1>6, <1>7, <1>8, <1>9, <1>10, <1>11, <1>12, <1>13, <1>14 DEF Slave

LEMMA LockedSlave ==
    ASSUME TypeOK, NEW w \in Worker, NEW x \in Row, Slave(w, x), NEW r \in Row, Locked(r)
    PROVE  Locked(r)'
<1>1. /\ UNCHANGED <<tree, blesses>> /\ touched \subseteq touched' /\ torn \subseteq torn'
      /\ x \notin touched' => blesses = 0
  BY SlaveFrame, SlaveOthers DEF Touch
<1>2. CASE r # x
  <2>1. /\ status'[r] = status[r] /\ lock'[r] = lock[r] /\ file'[r] = file[r]
        /\ r \notin job[w].row /\ r \notin job'[w].row
        /\ \A v \in Worker : v # w => job'[v] = job[v]
    BY <1>2, SlaveOthers DEF IdleJob
  <2> QED
    BY <1>1, <2>1, LockedSame DEF Locked
<1>3. CASE r = x
  <2>1. Rows' = Rows
    BY <1>1, SameTree
  <2>2. x \in Rows
    <3>1. CASE Select(w, x)
      BY <1>3, <3>1 DEF Select, Ready, Locked
    <3>2. CASE job[w].row = {x}
      BY <1>3, <3>2 DEF Locked
    <3> QED
      BY <3>1, <3>2, SlaveOthers
  <2>3. ASSUME NEW v \in Worker, x \in job'[v].row
        PROVE  job'[v].row = {x} /\ job'[v].pc # "idle"
    <3>1. CASE v = w
      <4>1. CASE job' = job
        BY <1>3, <2>3, <4>1 DEF Locked
      <4>2. ASSUME NEW pc \in PC,
                   job' = [job EXCEPT ![w] = IF pc = "idle" THEN IdleJob ELSE [pc |-> pc, row |-> {x}]]
            PROVE  job'[v].row = {x} /\ job'[v].pc # "idle"
        BY <2>3, <3>1, <4>2 DEF TypeOK, IdleJob
      <4> QED
        BY <4>1, <4>2, JobGoes
    <3>2. CASE v # w
      <4>1. job'[v] = job[v]
        BY <3>2, SlaveOthers
      <4> QED
        BY <1>3, <2>3, <4>1 DEF Locked
    <3> QED
      BY <3>1, <3>2
  <2>4. /\ \A v \in Worker : v \in lock'[x] => x \in job'[v].row /\ job'[v].pc # "selected"
        /\ x \notin torn' => (\A v \in Worker : WorkRight(v, x)') /\ (lock'[x] = {} => Stored(x)')
    BY <1>3, LockedSelect, LockedWork
  <2> QED
    BY <1>1, <1>3, <2>1, <2>2, <2>3, <2>4 DEF Locked
<1> QED
  BY <1>2, <1>3

LEMMA LockedBless ==
    ASSUME TypeOK, Bless, NEW r \in Row, Locked(r)
    PROVE  Locked(r)'
<1>1. UNCHANGED <<tree, status, job, lock, torn>> /\ (~ BlessStart => UNCHANGED <<touched, blesses>>)
  BY BlessFrame DEF indexVars, jobVars
<1>2. r \notin touched' /\ blesses' # 0 => \A w \in Worker : r \notin job[w].row
  BY <1>1 DEF BlessStart, Locked
<1>3. CASE file'[r] = file[r]
  BY <1>1, <1>2, <1>3, LockedSame
<1>4. CASE BlessRestricted(r) /\ file'[r] = NoFile
  <2>1. /\ Rows' = Rows /\ Restricted(r) /\ Restricted(r)' /\ (Built(r)' <=> Built(r))
    BY <1>1, <1>4, SameTree DEF BlessRestricted, Built
  <2>2. Stored(r)'
    BY <1>4, <2>1 DEF Stored, NoFile
  <2>3. ASSUME NEW w \in Worker, r \notin torn
        PROVE  WorkRight(w, r)'
    BY <1>1, <2>1, <2>2, <2>3 DEF Locked, WorkRight
  <2> QED
    BY <1>1, <1>2, <2>1, <2>2, <2>3 DEF Locked
<1>5. file'[r] = file[r] \/ (BlessRestricted(r) /\ file'[r] = NoFile)
  <2>1. CASE BlessStart \/ BlessOpen \/ BlessEmpty \/ BlessDepends \/ BlessClose
    BY <2>1 DEF BlessStart, BlessOpen, BlessEmpty, BlessDepends, BlessClose, fileVars
  <2>2. CASE BlessMark \/ BlessDie
    BY <2>2 DEF BlessMark, BlessDie
  <2>3. ASSUME NEW x \in Row, BlessMissing(x) \/ BlessRestricted(x) \/ BlessPackage(x)
        PROVE  file'[r] = file[r] \/ (BlessRestricted(r) /\ file'[r] = NoFile)
    BY <2>3 DEF BlessMissing, BlessRestricted, BlessPackage, TypeOK
  <2> QED
    BY <2>1, <2>2, <2>3 DEF Bless
<1> QED
  BY <1>3, <1>4, <1>5

LEMMA LockedStep ==
    ASSUME TypeOK, Ordered, [Next]_vars, NEW r \in Row, Locked(r)
    PROVE  Locked(r)'
<1>1. CASE MakeRun
  <2>1. /\ UNCHANGED <<job, lock, file, torn>> /\ Rows' = Rows
        /\ lock[r] = {} /\ file[r] = NoFile /\ \A w \in Worker : job[w] = IdleJob
    BY <1>1, SyncFrame, SameTree DEF Ordered
  <2>2. ~ Built(r)' /\ (status'[r] # "absent" => r \in Rows)
    BY <1>1, <2>1, SyncFrame DEF Ordered, Built, Locked
  <2>3. Stored(r)' /\ \A w \in Worker : WorkRight(w, r)'
    BY <2>1, <2>2 DEF Stored, WorkRight, IdleJob
  <2> QED
    BY <2>1, <2>2, <2>3 DEF Locked, IdleJob
<1>2. ASSUME NEW x \in Row, NEW w \in Worker, Slave(w, x)
      PROVE  Locked(r)'
  BY <1>2, LockedSlave
<1>3. CASE Bless
  BY <1>3, LockedBless
<1>4. CASE Quiet
  BY <1>4, QuietFrame, LockedSame DEF Locked
<1>5. ASSUME NEW x \in Row, Reset(x)
      PROVE  Locked(r)'
  <2>1. /\ UNCHANGED <<tree, job, lock, file, torn, blesses>> /\ touched \subseteq touched'
        /\ status[x] # "absent" /\ status'[x] = "untested"
        /\ r # x => status'[r] = status[r]
    BY <1>5, ResetFrame DEF Touch
  <2>2. CASE r # x
    BY <2>1, <2>2, LockedSame DEF Locked
  <2>3. CASE r = x
    <3>1. /\ Rows' = Rows /\ Restricted(r)' = Restricted(r) /\ Stored(r)'
      BY <2>1, <2>3, SameTree DEF Stored, Built
    <3>2. ASSUME NEW w \in Worker, r \notin torn
          PROVE  WorkRight(w, r)'
      BY <2>1, <2>3, <3>1, <3>2 DEF Locked, WorkRight
    <3> QED
      BY <2>1, <2>3, <3>1, <3>2 DEF Locked
  <2> QED
    BY <2>2, <2>3
<1> QED
  BY <1>1, <1>2, <1>3, <1>4, <1>5 DEF Next, Quiet

LEMMA HashedStep ==
    ASSUME TypeOK, Ordered, [Next]_vars, NEW r \in Row, Locked(r), Hashed(r)
    PROVE  Hashed(r)'
<1>0. Restricted(r)' = Restricted(r)
  BY TreeStays, SameTree
<1>1. ASSUME UNCHANGED index, file'[r] = file[r], status'[r] = status[r],
             r \in touched \cup torn => r \in touched' \cup torn'
      PROVE  Hashed(r)'
  BY <1>0, <1>1 DEF Hashed, InIndex, Built
<1>2. CASE MakeRun
  BY <1>2, SyncFrame DEF Ordered, Hashed, InIndex
<1>3. ASSUME NEW x \in Row, (\E w \in Worker : Slave(w, x)) \/ Reset(x)
      PROVE  Hashed(r)'
  <2>1. /\ UNCHANGED <<index, blesses>> /\ touched \subseteq touched' /\ (x \notin touched' => blesses = 0)
        /\ torn \subseteq torn'
    BY <1>3, SlaveFrame, SlaveTables, ResetFrame DEF Touch
  <2>2. CASE r # x
    <3>1. file'[r] = file[r] /\ status'[r] = status[r]
      BY <1>3, <2>2, SlaveOthers, ResetFrame
    <3> QED
      BY <1>1, <2>1, <3>1
  <2>3. CASE r = x /\ blesses = 0
    BY <2>1, <2>3 DEF Ordered, Hashed, InIndex
  <2>4. CASE r = x /\ blesses # 0
    BY <1>0, <2>1, <2>4 DEF Hashed, InIndex
  <2> QED
    BY <2>2, <2>3, <2>4
<1>4. CASE Quiet
  BY <1>1, <1>4, QuietFrame
<1>5. CASE Bless
  <2>0. /\ UNCHANGED <<status, torn>> /\ (BlessStart \/ UNCHANGED <<touched, blesses>>)
        /\ (Built(r)' <=> Built(r))
    BY <1>5, BlessFrame DEF indexVars, jobVars, Built
  <2>1. CASE BlessStart
    BY <1>1, <2>0, <2>1 DEF BlessStart, fileVars
  <2>2. CASE BlessOpen
    <3>1. ~ InIndex(r)'
      BY <2>2 DEF BlessOpen, NoIndex, NoFile, InIndex
    <3> QED
      BY <3>1 DEF Hashed
  <2>3. CASE BlessDepends \/ BlessClose
    <3>1. index'.hash = index.hash /\ file' = file /\ touched' = touched
      BY <2>3 DEF BlessDepends, BlessClose, BlessUnchanged, TypeOK
    <3> QED
      BY <1>0, <2>0, <3>1 DEF Hashed, InIndex
  <2>4. CASE BlessEmpty \/ BlessMark \/ BlessDie
    BY <1>1, <2>0, <2>4 DEF BlessEmpty, BlessMark, BlessDie, BlessUnchanged
  <2>5. ASSUME NEW x \in Row, BlessMissing(x)
        PROVE  Hashed(r)'
    BY <1>1, <2>0, <2>5 DEF BlessMissing, BlessUnchanged
  <2>6. ASSUME NEW x \in Row, BlessRestricted(x)
        PROVE  Hashed(r)'
    <3>1. CASE r = x
      BY <1>0, <2>6, <3>1 DEF BlessRestricted, Hashed, InIndex
    <3>2. CASE r # x
      <4>1. index' = index /\ file'[r] = file[r] /\ touched' = touched
        BY <2>6, <3>2 DEF BlessRestricted, BlessUnchanged, TypeOK
      <4> QED
        BY <1>1, <2>0, <4>1
    <3> QED
      BY <3>1, <3>2
  <2>7. ASSUME NEW x \in Row, BlessPackage(x)
        PROVE  Hashed(r)'
    <3>1. /\ index'.hash = [index.hash EXCEPT ![x] = file[x]] /\ file' = file /\ touched' = touched
          /\ ~ Restricted(x) /\ bless.pc = "rows"
      BY <2>7 DEF BlessPackage, BlessUnchanged, TypeOK
    <3>2. CASE r = x
      <4>1. index'.hash[r] = file[r]
        BY <3>1, <3>2 DEF TypeOK
      <4>2. r \notin touched \cup torn /\ Built(r) => file[r].whole
        <5>1. blesses # 0
          BY <3>1 DEF Ordered
        <5>2. r \notin touched => lock[r] = {}
          BY <5>1 DEF Locked, TypeOK
        <5>3. r \notin touched \cup torn => Stored(r)
          BY <5>2 DEF Locked
        <5> QED
          BY <5>3 DEF Stored
      <4> QED
        BY <1>0, <2>0, <3>1, <3>2, <4>1, <4>2 DEF Hashed
    <3>3. CASE r # x
      <4>1. index'.hash[r] = index.hash[r]
        BY <3>1, <3>3 DEF TypeOK
      <4> QED
        BY <1>0, <2>0, <3>1, <4>1 DEF Hashed, InIndex
    <3> QED
      BY <3>2, <3>3
  <2> QED
    BY <1>5, <2>1, <2>2, <2>3, <2>4, <2>5, <2>6, <2>7 DEF Bless
<1> QED
  BY <1>2, <1>3, <1>4, <1>5 DEF Next, Quiet

RowsRight == \A r \in Row : Locked(r) /\ Hashed(r)

LEMMA RowsStep ==
    ASSUME TypeOK, Ordered, RowsRight, [Next]_vars
    PROVE  RowsRight'
<1>1. ASSUME NEW r \in Row
      PROVE  Locked(r)' /\ Hashed(r)'
  BY LockedStep, HashedStep DEF RowsRight
<1> QED
  BY <1>1 DEF RowsRight

THEOREM RowsAreRight == Spec => [](TypeOK /\ Ordered /\ RowsRight)
<1>1. Init => RowsRight
  BY RowsInit DEF RowsRight
<1> QED
  BY <1>1, TypeCorrect, OrderedInit, OrderedStep, RowsStep, PTL DEF Spec

\* The hash in the index is the one of the package beside it, and of a package that has
\* been copied to its end, however workers fail, are killed or swept, ports are tested
\* again over what is left of an upload, and magus-bless is started again.
THEOREM IndexIsTrue == Spec => []HashesRight
<1>1. RowsRight => HashesRight
  BY DEF RowsRight, Hashed, HashesRight
<1> QED
  BY <1>1, RowsAreRight, PTL

-----------------------------------------------------------------------------
(* Dependencies, from the tree to the index.                               *)

LEMMA LinksStay ==
    ASSUME NEW r, tree' = tree, depends \subseteq depends', HasLinks(r)
    PROVE  HasLinks(r)'
<1>1. Rows' = Rows /\ DumpOf(r)' = DumpOf(r)
  BY SameTree
<1> QED
  BY <1>1 DEF HasLinks

\* A port none of whose dependencies is missing gets a row for each, of the flavor asked
\* for if there is one.
LEMMA LinkLinks ==
    ASSUME TypeOK, NEW x \in Rows, Link(x)
    PROVE  HasLinks(x)'
<1>1. x \in Row /\ DumpOf(x) \in Dump
  BY DumpType DEF TypeOK, IndexTypeOK
<1>2. tree' = tree /\ depends' = depends \cup Links(x, DumpOf(x).items) /\ Missing(x) = {}
  BY DEF Link
<1>3. ASSUME NEW item \in DumpOf(x).items
      PROVE  \E l \in depends' :
            /\ l.port = x /\ l.type = item.type /\ l.dependency.name = item.name
            /\ [name |-> item.name, flavor |-> item.flavor] \in Rows => l.dependency.flavor = item.flavor
  <2>1. item \in Item
    BY <1>1 DEF Dump
  <2>2. PICK d \in Resolve(item) : TRUE
    BY <1>2 DEF Missing
  <2>3. d \in Rows /\ d.name = item.name
    BY DEF Resolve
  <2>4. ASSUME [name |-> item.name, flavor |-> item.flavor] \in Rows
        PROVE  d.flavor = item.flavor
    <3> DEFINE same == {r \in {r \in Rows : r.name = item.name} : r.flavor = item.flavor}
    <3>1. [name |-> item.name, flavor |-> item.flavor] \in same
      BY <2>4
    <3>2. Resolve(item) = same
      BY <3>1 DEF Resolve
    <3> QED
      BY <3>2
  <2> DEFINE l == [port |-> x, dependency |-> d, type |-> item.type]
  <2>5. l \in DependsRow
    BY <1>1, <2>1, <2>3 DEF DependsRow, Item, Rows
  <2>6. l \in Links(x, DumpOf(x).items)
    BY <2>5 DEF Links
  <2>7. l \in depends'
    BY <1>2, <2>6
  <2> QED
    BY <2>3, <2>4, <2>7
<1>4. Rows' = Rows /\ DumpOf(x)' = DumpOf(x)
  BY <1>2, SameTree
<1> QED
  BY <1>3, <1>4 DEF HasLinks

LEMMA TiedSync ==
    ASSUME TypeOK, Ordered, Tied, MakeRun
    PROVE  Tied'
<1>0. /\ tree' = tree /\ depends \subseteq depends' /\ Rows' = Rows
      /\ resets' = resets /\ job' = job /\ \A w \in Worker : job[w].row = {}
  BY SyncFrame, SameTree DEF Ordered, IdleJob
<1>1. ASSUME NEW n \in Name, InsertPorts(n)
      PROVE  Tied'
  BY <1>1 DEF InsertPorts, Tied, TypeOK, IndexTypeOK
<1>2. CASE BuildDepends
  BY <1>0, <1>2 DEF BuildDepends, Tied, TypeOK, IndexTypeOK
<1>3. CASE SyncDone
  <2>1. sync.pc = "link" /\ sync'.rows = sync.rows /\ UNCHANGED <<tree, status, depends>>
    BY <1>3 DEF SyncDone, TypeOK, IndexTypeOK
  <2> QED
    BY <1>0, <2>1, LinksStay DEF Tied
<1>4. CASE SyncDie
  BY <1>4 DEF SyncDie, Tied, TypeOK, IndexTypeOK
<1>5. ASSUME NEW x \in Rows, Link(x)
      PROVE  Tied'
  <2>1. sync.pc = "link" /\ sync'.rows = sync.rows \ {x} /\ status' = status
    BY <1>5 DEF Link, TypeOK, IndexTypeOK
  <2>2. HasLinks(x)'
    BY <1>5, LinkLinks
  <2> QED
    BY <1>0, <2>1, <2>2, LinksStay DEF Tied
<1>6. ASSUME NEW x \in Rows, LinkMissing(x)
      PROVE  Tied'
  <2>1. x \in Row /\ sync.pc = "link" /\ sync'.rows = sync.rows \ {x}
        /\ status' = [status EXCEPT ![x] = "fail"]
    BY <1>6 DEF LinkMissing, TypeOK, IndexTypeOK, Rows
  <2>2. status'[x] = "fail" /\ \A r \in Row : status[r] = "fail" => status'[r] = "fail"
    BY <2>1 DEF TypeOK, IndexTypeOK
  <2>3. Rows \subseteq Row
    BY DEF Rows
  <2> QED
    BY <1>0, <2>1, <2>2, <2>3, LinksStay DEF Tied
<1>7. ASSUME NEW x \in Rows, LinkClashing(x)
      PROVE  Tied'
  BY <1>7 DEF LinkClashing, Tied, TypeOK, IndexTypeOK
<1> QED
  BY <1>1, <1>2, <1>3, <1>4, <1>5, <1>6, <1>7 DEF MakeRun, Sync

LEMMA TiedStep ==
    ASSUME TypeOK, Ordered, Tied, [Next]_vars
    PROVE  Tied'
<1>0. Rows' = Rows /\ tree' = tree /\ Rows \subseteq Row
  BY TreeStays, SameTree DEF Rows
<1>1. CASE MakeRun
  BY <1>1, TiedSync
<1>2. ASSUME UNCHANGED <<status, depends, sync, job, resets>>
      PROVE  Tied'
  BY <1>0, <1>2, LinksStay DEF Tied
<1>3. ASSUME NEW x \in Row, NEW w \in Worker, Slave(w, x)
      PROVE  Tied'
  <2>1. UNCHANGED <<tree, depends, sync>> /\ resets \subseteq resets'
    BY <1>3, SlaveFrame, SlaveOthers
  <2>2. ASSUME NEW r \in Rows \ (sync.rows \cup resets), sync.pc \in {"link", "done", "over"}
        PROVE  HasLinks(r) \/ (status'[r] = "fail" /\ \A v \in Worker : r \notin job'[v].row)
    <3>1. CASE r = x
      <4>1. x \in job[w].row \/ status[x] = "untested"
        BY <1>3, SlaveOthers DEF Select, Ready
      <4> QED
        BY <2>2, <3>1, <4>1 DEF Tied
    <3>2. CASE r # x
      <4>1. /\ status'[r] = status[r] /\ r \notin job'[w].row
            /\ \A v \in Worker : v # w => job'[v] = job[v]
        BY <1>0, <1>3, <3>2, SlaveOthers
      <4> QED
        BY <2>2, <4>1 DEF Tied
    <3> QED
      BY <3>1, <3>2
  <2> QED
    BY <1>0, <2>1, <2>2, LinksStay DEF Tied
<1>4. ASSUME NEW x \in Row, Reset(x)
      PROVE  Tied'
  BY <1>0, <1>4, ResetFrame, LinksStay DEF Tied
<1>5. CASE Bless
  BY <1>2, <1>5, BlessFrame DEF indexVars, jobVars
<1>6. CASE Activate
  <2>1. sync.pc = "done" /\ sync'.rows = sync.rows /\ UNCHANGED <<status, depends, job, resets>>
    BY <1>6, QuietFrame DEF Activate, Quiet, TypeOK, IndexTypeOK
  <2> QED
    BY <1>0, <2>1, LinksStay DEF Tied
<1>7. CASE Quiet /\ ~ Activate
  BY <1>2, <1>7, QuietFrame
<1> QED
  BY <1>1, <1>3, <1>4, <1>5, <1>6, <1>7 DEF Next, Quiet

\* What was built, or is lost, stays so.
LEMMA BuiltOrLost ==
    ASSUME TypeOK, RowsRight, NEW x \in Row, (\E w \in Worker : Slave(w, x)) \/ Reset(x), NEW r \in Row,
           Built(r) \/ Lost(r)
    PROVE  Built(r)' \/ Lost(r)'
<1>1. resets \subseteq resets' /\ torn \subseteq torn' /\ (r # x => status'[r] = status[r])
  BY SlaveOthers, ResetFrame
<1>2. CASE r # x \/ r \in resets \cup torn
  BY <1>1, <1>2 DEF Lost, Built
<1>3. CASE Reset(x)
  BY <1>1, <1>3, ResetFrame DEF Lost, Built
<1>4. ASSUME NEW w \in Worker, Slave(w, x), r = x, r \notin resets \cup torn
      PROVE  Built(r)' \/ Lost(r)'
  <2>1. status[x] # "untested" /\ WorkRight(w, x)
    BY <1>4 DEF Lost, Built, RowsRight, Locked
  <2>2. CASE status' = status \/ StoreInternal(w, x) \/ MadeUntested(x)
    BY <1>4, <2>2 DEF StoreInternal, MadeUntested, Lost, Built, TypeOK, IndexTypeOK
  <2>3. ~ Report(w, x)
    BY <2>1 DEF Report, Step, At, WorkRight
  <2> QED
    BY <1>4, <2>2, <2>3, SlaveTables
<1> QED
  BY <1>2, <1>3, <1>4

LEMMA DependenciesStep ==
    ASSUME TypeOK, TypeOK', Ordered, RowsRight, DependenciesBuilt, [Next]_vars
    PROVE  DependenciesBuilt'
<1>0. depends \subseteq DependsRow /\ depends' \subseteq DependsRow
  BY DEF TypeOK, IndexTypeOK
<1>1. CASE MakeRun
  <2>1. ASSUME NEW r \in Row
        PROVE  ~ Built(r)' /\ \A w \in Worker : r \notin job'[w].row
    BY <1>1, SyncFrame DEF Ordered, Built, IdleJob
  <2> QED
    BY <1>0, <2>1 DEF DependenciesBuilt, DependsRow
<1>2. ASSUME UNCHANGED <<status, depends, job, resets, torn>>
      PROVE  DependenciesBuilt'
  BY <1>2 DEF DependenciesBuilt, Built, Lost
<1>3. ASSUME NEW x \in Row, NEW w \in Worker, Slave(w, x)
      PROVE  DependenciesBuilt'
  <2>1. /\ depends' = depends /\ job'[w].row \subseteq {x}
        /\ \A v \in Worker : v # w => job'[v] = job[v]
        /\ \A r \in Row : r # x => status'[r] = status[r]
    BY <1>3, SlaveFrame, SlaveOthers
  <2>2. ASSUME NEW l \in depends, l.port = x
        PROVE  Built(l.dependency) \/ Lost(l.dependency)
    <3>1. CASE Select(w, x)
      BY <2>2, <3>1 DEF Select, Ready
    <3>2. CASE job[w].row = {x}
      BY <2>2, <3>2 DEF DependenciesBuilt
    <3> QED
      BY <1>3, <3>1, <3>2, SlaveOthers
  <2>3. ASSUME NEW l \in depends, Built(l.port)' \/ \E v \in Worker : l.port \in job'[v].row
        PROVE  Built(l.dependency)' \/ Lost(l.dependency)'
    <3>1. l.port \in Row /\ l.dependency \in Row
      BY <1>0 DEF DependsRow
    <3>2. CASE l.port = x
      BY <1>3, <2>2, <3>1, <3>2, BuiltOrLost
    <3>3. CASE l.port # x
      <4>1. Built(l.port) \/ \E v \in Worker : l.port \in job[v].row
        BY <2>1, <2>3, <3>1, <3>3 DEF Built
      <4>2. Built(l.dependency) \/ Lost(l.dependency)
        BY <4>1 DEF DependenciesBuilt
      <4> QED
        BY <1>3, <3>1, <4>2, BuiltOrLost
    <3> QED
      BY <3>2, <3>3
  <2> QED
    BY <2>1, <2>3 DEF DependenciesBuilt
<1>4. ASSUME NEW x \in Row, Reset(x)
      PROVE  DependenciesBuilt'
  <2>1. /\ UNCHANGED <<depends, job>> /\ status'[x] = "untested"
        /\ \A r \in Row : r # x => status'[r] = status[r]
    BY <1>4, ResetFrame
  <2>2. ASSUME NEW l \in depends, Built(l.port)' \/ \E v \in Worker : l.port \in job'[v].row
        PROVE  Built(l.dependency)' \/ Lost(l.dependency)'
    <3>1. l.port \in Row /\ l.dependency \in Row
      BY <1>0 DEF DependsRow
    <3>2. Built(l.port) \/ \E v \in Worker : l.port \in job[v].row
      BY <2>1, <2>2, <3>1 DEF Built
    <3>3. Built(l.dependency) \/ Lost(l.dependency)
      BY <3>2 DEF DependenciesBuilt
    <3> QED
      BY <1>4, <3>1, <3>3, BuiltOrLost
  <2> QED
    BY <2>1, <2>2 DEF DependenciesBuilt
<1>5. CASE Bless
  BY <1>2, <1>5, BlessFrame DEF indexVars, jobVars
<1>6. CASE Quiet
  BY <1>2, <1>6, QuietFrame
<1> QED
  BY <1>1, <1>3, <1>4, <1>5, <1>6 DEF Next, Quiet

LEMMA LinkedInvariant == Spec => [](TypeOK /\ Ordered /\ RowsRight /\ Tied /\ DependenciesBuilt)
<1>1. Init => Tied /\ DependenciesBuilt
  BY DEF Init, IndexInit, Tied, DependenciesBuilt
<1>2. TypeOK /\ Ordered /\ RowsRight /\ Tied /\ DependenciesBuilt /\ [Next]_vars
        => Tied' /\ DependenciesBuilt'
  BY TypeStep, TiedStep, DependenciesStep
<1> QED
  BY <1>1, <1>2, RowsAreRight, PTL DEF Spec

\* In a run that slaves see a port has all the dependencies it declares, or has failed, or
\* was reset, whatever the tree.
THEOREM RunsAreLinked == Spec => []Linked
<1>1. Ordered /\ Tied => Linked
  BY DEF Ordered, Tied, HasLinks, Linked
<1> QED
  BY <1>1, LinkedInvariant, PTL

-----------------------------------------------------------------------------
(* distcheck.                                                              *)

Given == \A f \in dist : \E r \in Rows : ~ Restricted(r) /\ f \in GivenAway(r)

LEMMA GivenStep ==
    ASSUME TypeOK, Given, [Next]_vars
    PROVE  Given'
<1>1. Rows' = Rows /\ \A r : Restricted(r)' = Restricted(r) /\ GivenAway(r)' = GivenAway(r)
  BY TreeStays, SameTree
<1>2. dist' = dist \/ DistCheck
  <2>1. ASSUME NEW r \in Row, Reset(r) \/ \E w \in Worker : Slave(w, r)
        PROVE  dist' = dist
    BY <2>1, SlaveFrame, ResetFrame
  <2>2. CASE Bless
    BY <2>2, BlessFrame
  <2>3. CASE MakeRun \/ Activate \/ Complete \/ UNCHANGED vars
    BY <2>3 DEF MakeRun, Activate, Complete, MasterUnchanged, vars
  <2> QED
    BY <2>1, <2>2, <2>3 DEF Next
<1>3. CASE dist' = dist
  BY <1>1, <1>3 DEF Given
<1>4. CASE DistCheck
  <2>1. PICK copied \in SUBSET UNION {GivenAway(r) : r \in {r \in Rows : Indexed(r) /\ ~ Restricted(r)}} :
            dist' = dist \cup copied
    BY <1>4 DEF DistCheck
  <2>2. \A f \in copied : \E r \in Rows : ~ Restricted(r) /\ f \in GivenAway(r)
    OBVIOUS
  <2> QED
    BY <1>1, <2>1, <2>2 DEF Given
<1> QED
  BY <1>2, <1>3, <1>4

\* Where no port keeps more than one file back, what distcheck gives away some port may
\* give away.
THEOREM NothingKeptIsGiven == Spec => []KeptBack
<1>1. Init => Given
  BY DEF Init, Given
<1>2. ASSUME TypeOK, Given
      PROVE  KeptBack
  <2>1. ASSUME NEW r \in Rows, Cardinality(DumpOf(r).kept) <= 1, NEW f \in GivenAway(r)
        PROVE  f \in DumpOf(r).distfiles \ DumpOf(r).kept
    <3> DEFINE kept == DumpOf(r).kept
    <3>1. kept \in SUBSET File /\ f \in DumpOf(r).distfiles
      <4>1. DumpOf(r) \in Dump
        BY <1>2, DumpType DEF TypeOK, IndexTypeOK
      <4> QED
        BY <4>1 DEF Dump, GivenAway
    <3>2. IsFiniteSet(kept)
      BY <3>1, FS_Subset, TreeAssumption
    <3>3. Cardinality(kept) \in Nat /\ Cardinality(kept) <= 1
      <4> HIDE DEF kept
      <4>1. Cardinality(kept) \in Nat
        BY <3>2, FS_CardinalityType
      <4> QED
        BY <2>1, <4>1 DEF kept
    <3>4. kept = {} \/ \E g : kept = {g}
      <4> HIDE DEF kept
      <4>1. Cardinality(kept) = 0 \/ Cardinality(kept) = 1
        BY <3>3
      <4> QED
        BY <3>2, <4>1, FS_EmptySet, FS_Singleton
    <3>5. f \notin kept
      BY <3>4 DEF GivenAway
    <3> QED
      BY <3>1, <3>5
  <2> QED
    BY <1>2, <2>1 DEF KeptBack, Given
<1> QED
  BY <1>1, <1>2, TypeCorrect, GivenStep, PTL DEF Spec

-----------------------------------------------------------------------------
(* What a client finds in the index.                                       *)

LEMMA CollectedStep ==
    ASSUME TypeOK, Ordered, RowsRight, [Next]_vars, NEW r \in Row, Collected(r)
    PROVE  Collected(r)'
<1>0. Restricted(r)' = Restricted(r)
  BY TreeStays, SameTree
<1>1. ASSUME UNCHANGED <<index, bless>>, status'[r] = status[r], touched \subseteq touched',
             torn \subseteq torn'
      PROVE  Collected(r)'
  BY <1>0, <1>1 DEF Collected, Built, InIndex
<1>2. CASE MakeRun
  <2>1. ~ Built(r)'
    BY <1>2, SyncFrame DEF Ordered, Built
  <2> QED
    BY <2>1 DEF Collected
<1>3. ASSUME NEW x \in Row, (\E w \in Worker : Slave(w, x)) \/ Reset(x)
      PROVE  Collected(r)'
  <2>1. /\ UNCHANGED <<index, bless, blesses>> /\ touched \subseteq touched' /\ torn \subseteq torn'
        /\ x \notin touched' => blesses = 0
    BY <1>3, SlaveFrame, SlaveTables, ResetFrame DEF Touch
  <2>2. CASE r # x
    <3>1. status'[r] = status[r]
      BY <1>3, <2>2, SlaveOthers, ResetFrame
    <3> QED
      BY <1>1, <2>1, <3>1
  <2>3. CASE r = x
    BY <2>1, <2>3 DEF Ordered, Collected
  <2> QED
    BY <2>2, <2>3
<1>4. CASE Quiet
  BY <1>1, <1>4, QuietFrame
<1>5. CASE Bless
  <2>0. /\ torn' = torn /\ touched \subseteq touched' /\ (Built(r)' <=> Built(r))
    BY <1>5, BlessFrame DEF BlessStart, indexVars, jobVars, Built
  <2>1. CASE BlessStart
    <3>1. bless'.rows = {s \in Row : Indexed(s)} /\ index' = index
      BY <2>1 DEF BlessStart
    <3> QED
      BY <1>0, <2>0, <3>1, BuiltFacts DEF Collected, InIndex
  <2>2. CASE BlessOpen
    <3>1. bless'.rows = bless.rows /\ bless.pc = "open" /\ index'.state = "partial"
      BY <2>2 DEF BlessOpen, NoIndex, TypeOK
    <3> QED
      BY <1>0, <2>0, <3>1 DEF Collected
  <2>3. CASE BlessDepends
    <3>1. /\ bless'.rows = bless.rows /\ bless.pc = "depends" /\ bless'.pc = "rows"
          /\ index'.state = index.state /\ index'.hash = index.hash
      BY <2>3 DEF BlessDepends, TypeOK
    <3> QED
      BY <1>0, <2>0, <3>1 DEF Collected, InIndex
  <2>4. CASE BlessClose
    <3>1. /\ bless.pc = "rows" /\ bless'.pc = "mark" /\ bless.rows = {} /\ index'.hash = index.hash
      BY <2>4 DEF BlessClose, TypeOK
    <3> QED
      BY <1>0, <2>0, <3>1 DEF Collected, InIndex
  <2>5. CASE BlessEmpty \/ BlessMark \/ BlessDie
    <3>1. bless'.pc = "idle" /\ index' = index
      BY <2>5 DEF BlessEmpty, BlessMark, BlessDie, IdleBless
    <3> QED
      BY <1>0, <2>0, <3>1 DEF Collected, InIndex
  <2>6. ASSUME NEW x \in Row, BlessMissing(x) \/ BlessRestricted(x) \/ BlessPackage(x)
        PROVE  Collected(r)'
    <3>1. /\ bless.pc = "rows" /\ bless'.pc # "open" /\ bless'.rows = bless.rows \ {x}
          /\ index'.state = index.state
      BY <2>6 DEF BlessMissing, BlessRestricted, BlessPackage, TypeOK
    <3>2. InIndex(r) => InIndex(r)'
      BY <2>6 DEF BlessMissing, BlessRestricted, BlessPackage, TypeOK, InIndex
    <3>3. ASSUME r = x, r \notin touched \cup torn, Built(r), ~ Restricted(r)
          PROVE  InIndex(r)'
      <4>1. blesses # 0
        BY <3>1 DEF Ordered
      <4>2. lock[r] = {}
        BY <3>3, <4>1 DEF RowsRight, Locked, TypeOK
      <4>3. file[r].build # 0
        BY <3>3, <4>2 DEF RowsRight, Locked, Stored
      <4>4. BlessPackage(r)
        BY <2>6, <3>3, <4>3 DEF BlessMissing, BlessRestricted
      <4>5. index'.hash[r] = file[r]
        BY <4>4 DEF BlessPackage, TypeOK
      <4> QED
        BY <4>3, <4>5 DEF InIndex
    <3> QED
      BY <1>0, <2>0, <3>1, <3>2, <3>3 DEF Collected, Ordered
  <2> QED
    BY <1>5, <2>1, <2>2, <2>3, <2>4, <2>5, <2>6 DEF Bless
<1> QED
  BY <1>2, <1>3, <1>4, <1>5 DEF Next, Quiet

LEMMA LostStays ==
    ASSUME TypeOK, RowsRight, NEW x \in Row, (\E w \in Worker : Slave(w, x)) \/ Reset(x), NEW r \in Row,
           Lost(r)
    PROVE  Lost(r)'
<1>1. resets \subseteq resets' /\ torn \subseteq torn' /\ (r # x => status'[r] = status[r])
  BY SlaveOthers, ResetFrame
<1>2. CASE r # x \/ r \in resets \cup torn
  BY <1>1, <1>2 DEF Lost
<1>3. CASE Reset(x)
  BY <1>1, <1>3, ResetFrame DEF Lost
<1>4. ASSUME NEW w \in Worker, Slave(w, x), r = x, r \notin resets \cup torn
      PROVE  Lost(r)'
  <2>1. status[x] = "internal" /\ WorkRight(w, x)
    BY <1>4 DEF Lost, RowsRight, Locked
  <2>2. CASE status' = status \/ StoreInternal(w, x) \/ MadeUntested(x)
    BY <1>4, <2>1, <2>2 DEF StoreInternal, MadeUntested, Lost, TypeOK, IndexTypeOK
  <2>3. ~ Report(w, x)
    BY <2>1 DEF Report, Step, At, WorkRight
  <2> QED
    BY <1>4, <2>2, <2>3, SlaveTables
<1> QED
  BY <1>2, <1>3, <1>4

LEMMA EdgesStep ==
    ASSUME TypeOK, TypeOK', Ordered, RowsRight, DependenciesBuilt, Edges, [Next]_vars
    PROVE  Edges'
<1>0. depends \subseteq DependsRow /\ depends' \subseteq DependsRow
  BY DEF TypeOK, IndexTypeOK
<1>1. ASSUME UNCHANGED <<index, bless, depends>>, touched \subseteq touched',
             \A l \in depends : Lost(l.dependency) => Lost(l.dependency)',
             \A l \in depends : l.port \notin touched' /\ InIndex(l.port) => status'[l.port] = status[l.port]
      PROVE  Edges'
  BY <1>1 DEF Edges, Built, InIndex
<1>2. CASE MakeRun
  <2>1. \A r \in Row : ~ InIndex(r)'
    BY <1>2, SyncFrame DEF Ordered, InIndex
  <2> QED
    BY <1>0, <2>1 DEF Edges, DependsRow
<1>3. ASSUME NEW x \in Row, (\E w \in Worker : Slave(w, x)) \/ Reset(x)
      PROVE  Edges'
  <2>1. /\ UNCHANGED <<index, bless, blesses, depends>> /\ touched \subseteq touched'
        /\ x \notin touched' => blesses = 0
        /\ \A r \in Row : r # x => status'[r] = status[r]
    BY <1>3, SlaveFrame, SlaveOthers, ResetFrame DEF Touch
  <2>2. x \notin touched' => ~ InIndex(x)
    BY <2>1 DEF Ordered
  <2>3. \A l \in depends : Lost(l.dependency) => Lost(l.dependency)'
    BY <1>0, <1>3, LostStays DEF DependsRow
  <2>4. \A l \in depends : l.port \notin touched' /\ InIndex(l.port) => status'[l.port] = status[l.port]
    BY <1>0, <2>1, <2>2 DEF DependsRow
  <2> QED
    BY <1>1, <2>1, <2>3, <2>4
<1>4. CASE Quiet
  BY <1>1, <1>4, QuietFrame DEF Lost
<1>5. CASE Bless
  <2>0. /\ UNCHANGED <<depends, status>> /\ touched \subseteq touched'
        /\ \A r : (Built(r)' <=> Built(r)) /\ (Lost(r)' <=> Lost(r))
    BY <1>5, BlessFrame DEF BlessStart, indexVars, jobVars, Built, Lost
  <2>1. CASE BlessStart
    <3>1. bless.pc = "idle" /\ bless'.pc = "open" /\ index' = index
      BY <2>1 DEF BlessStart
    <3> QED
      BY <2>0, <3>1 DEF Edges, InIndex
  <2>2. CASE BlessOpen
    <3>1. \A r \in Row : ~ InIndex(r)'
      BY <2>2 DEF BlessOpen, NoIndex, NoFile, InIndex
    <3> QED
      BY <1>0, <3>1 DEF Edges, DependsRow
  <2>3. CASE BlessDepends
    <3> DEFINE more == {<<r, l.dependency>> : r \in bless.row,
                l \in {l \in depends : /\ l.port \in bless.row /\ l.type = "run"
                                       /\ Built(l.port) /\ Built(l.dependency)}}
    <3>1. /\ bless.pc = "depends" /\ bless'.pc = "rows" /\ index'.hash = index.hash
          /\ index'.depends = index.depends \cup more
      BY <2>3 DEF BlessDepends, TypeOK
    <3>2. ASSUME NEW l \in depends, l.port \in bless.row, l.type = "run", Built(l.port)
          PROVE  <<l.port, l.dependency>> \in more \/ Lost(l.dependency)
      BY <3>2 DEF DependenciesBuilt
    <3> HIDE DEF more
    <3> QED
      BY <2>0, <3>1, <3>2 DEF Edges, InIndex
  <2>4. CASE BlessClose
    <3>1. /\ bless.pc = "rows" /\ bless'.pc = "mark" /\ index'.hash = index.hash
          /\ index'.depends = index.depends
      BY <2>4 DEF BlessClose, TypeOK
    <3> QED
      BY <2>0, <3>1 DEF Edges, InIndex
  <2>5. CASE BlessEmpty \/ BlessMark \/ BlessDie
    <3>1. bless'.pc = "idle" /\ index' = index
      BY <2>5 DEF BlessEmpty, BlessMark, BlessDie, IdleBless
    <3>2. index.state = "done" => bless.pc \notin {"rows", "depends"}
      BY DEF Ordered
    <3> QED
      BY <2>0, <3>1, <3>2 DEF Edges, InIndex
  <2>6. ASSUME NEW x \in Row, BlessMissing(x) \/ BlessRestricted(x)
        PROVE  Edges'
    <3>1. bless.pc = "rows" /\ bless'.pc = "rows" /\ index' = index
      BY <2>6 DEF BlessMissing, BlessRestricted, TypeOK
    <3> QED
      BY <2>0, <3>1 DEF Edges, InIndex
  <2>7. ASSUME NEW x \in Row, BlessPackage(x)
        PROVE  Edges'
    <3>1. /\ bless.pc = "rows" /\ bless'.pc = "depends" /\ bless'.row = {x}
          /\ index'.depends = index.depends
          /\ \A r \in Row : r # x => index'.hash[r] = index.hash[r]
      BY <2>7 DEF BlessPackage, TypeOK
    <3> QED
      BY <1>0, <2>0, <3>1 DEF Edges, InIndex, DependsRow
  <2> QED
    BY <1>5, <2>1, <2>2, <2>3, <2>4, <2>5, <2>6, <2>7 DEF Bless
<1> QED
  BY <1>2, <1>3, <1>4, <1>5 DEF Next, Quiet

CollectedAll == \A r \in Row : Collected(r)

\* By the index a client finds what a package needs to run, unless the dependency itself
\* was lost: workers that fail, restricted packages and a magus-bless that has died do not
\* break that, for any tree.
THEOREM IndexIsClosed == Spec => []IndexClosed
<1>1. Init => CollectedAll /\ Edges
  BY DEF Init, IndexInit, CollectedAll, Collected, Edges, IdleBless, NoIndex
<1>2. TypeOK /\ Ordered /\ RowsRight /\ DependenciesBuilt /\ CollectedAll /\ Edges /\ [Next]_vars
        => CollectedAll' /\ Edges'
  <2>1. ASSUME TypeOK, Ordered, RowsRight, CollectedAll, [Next]_vars
        PROVE  CollectedAll'
    <3>1. ASSUME NEW r \in Row
          PROVE  Collected(r)'
      BY <2>1, CollectedStep DEF CollectedAll
    <3> QED
      BY <3>1 DEF CollectedAll
  <2> QED
    BY <2>1, EdgesStep, TypeStep
<1>3. ASSUME TypeOK, Ordered, RowsRight, Tied, DependenciesBuilt, CollectedAll, Edges
      PROVE  IndexClosed
  <2>1. ASSUME index.state = "done", NEW r \in Row \ (touched \cup resets), InIndex(r), Built(r),
               NEW item \in DumpOf(r).items, item.type = "run"
        PROVE  \E d \in Row : /\ d.name = item.name
                              /\ \/ <<r, d>> \in index.depends /\ (InIndex(d) \/ Restricted(d))
                                 \/ d \in touched \cup resets \cup torn
                                 \/ status[d] = "internal"
    <3>1. r \in Rows /\ status[r] # "fail"
      BY <1>3, <2>1, BuiltFacts DEF RowsRight, Locked
    <3>2. sync.pc = "over" /\ sync.rows = {}
      BY <1>3, <2>1 DEF Ordered
    <3>3. HasLinks(r)
      BY <1>3, <2>1, <3>1, <3>2 DEF Tied
    <3>4. PICK l \in depends : l.port = r /\ l.type = item.type /\ l.dependency.name = item.name
      BY <3>3 DEF HasLinks
    <3> DEFINE d == l.dependency
    <3>5. d \in Row
      BY <1>3 DEF TypeOK, IndexTypeOK, DependsRow
    <3>6. Built(d) \/ Lost(d)
      BY <1>3, <2>1, <3>4 DEF DependenciesBuilt
    <3>7. <<r, d>> \in index.depends \/ Lost(d)
      BY <1>3, <2>1, <3>4 DEF Edges, Ordered
    <3>8. Built(d) => InIndex(d) \/ Restricted(d) \/ d \in touched \cup torn
      BY <1>3, <2>1, <3>5 DEF CollectedAll, Collected
    <3> HIDE DEF d
    <3> QED
      BY <3>4, <3>5, <3>6, <3>7, <3>8 DEF Lost, d
  <2> QED
    BY <2>1 DEF IndexClosed
<1> QED
  BY <1>1, <1>2, <1>3, LinkedInvariant, PTL DEF Spec

===============================================================================
