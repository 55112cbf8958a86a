------------------------ MODULE MagusExclusion_proofs ------------------------
(***************************************************************************)
(* Table locks keeps the builders of a port apart: as long as no process   *)
(* tree is killed half-way and no lock is deleted by hand, no two process  *)
(* trees ever test the same port, whatever databases, forks, transfers,    *)
(* supervisors and machines fail, and whatever ports operators reset.      *)
(***************************************************************************)
EXTENDS MagusSlave_proofs

-----------------------------------------------------------------------------
(* Steps that neither create nor hand on a lock.                           *)

\* What such a step may do to the variables that the invariant is about.
Quiet ==
    /\ UNCHANGED <<locks, nextLock>>
    /\ \A w \in Pid : Active(w)' => Active(w) /\ proc'[w].lock = proc[w].lock
    /\ \A s \in Slave :
          /\ sl'[s].pc = "claimed" => sl[s].pc = "claimed" /\ sl'[s].lock = sl[s].lock
          /\ dead'[s] \subseteq dead[s]
          /\ children'[s] \subseteq children[s]
          /\ sl'[s].child \in {None, sl[s].child}
          /\ sl'[s].pc \in {"resetlog", "resetstatus", "unlock"} =>
                \E c \in dead'[s] : c.lock = sl'[s].lock

Apart == LocksKeyed /\ WorkersHoldLocks /\ ClaimsApart /\ CorpsesApart /\ ChildrenKnown

LEMMA QuietKeepsApart ==
    ASSUME TypeInv, TypeInv', Apart, Quiet
    PROVE  Apart'
<1>1. LocksKeyed'
  BY DEF Apart, Quiet, LocksKeyed
<1>2. WorkersHoldLocks'
  BY DEF Apart, Quiet, WorkersHoldLocks
<1>3. ClaimsApart'
  BY DEF Apart, Quiet, ClaimsApart
<1>4. CorpsesApart'
  BY DEF Apart, Quiet, CorpsesApart
<1>5. ChildrenKnown'
  <2>1. ASSUME NEW s \in Slave, NEW c \in children'[s], Active(c.pid)'
        PROVE  proc'[c.pid].lock = c.lock
    <3>1. c \in children[s] /\ c.pid \in Pid
      BY <2>1 DEF Quiet, TypeInv, TypeOK, Child
    <3> QED
      BY <2>1, <3>1 DEF Apart, Quiet, ChildrenKnown
  <2>2. ASSUME NEW s \in Slave, sl'[s].child # None, Active(sl[s].child.pid)'
        PROVE  (proc[sl[s].child.pid].lock = sl[s].child.lock)'
    <3>1. sl'[s].child = sl[s].child /\ sl[s].child.pid \in Pid
      BY <2>2 DEF Quiet, TypeInv, TypeOK, SlaveState, Child
    <3>2. Active(sl[s].child.pid) /\ proc'[sl[s].child.pid].lock = proc[sl[s].child.pid].lock
      BY <2>2, <3>1 DEF Quiet, Active
    <3> QED
      BY <2>2, <3>1, <3>2 DEF Apart, ChildrenKnown
  <2> QED
    BY <2>1, <2>2 DEF ChildrenKnown
<1> QED
  BY <1>1, <1>2, <1>3, <1>4, <1>5 DEF Apart

-----------------------------------------------------------------------------
(* The processes below the supervisors.                                    *)

\* What a step may make of the record of a worker.
Calm(w, r) ==
    /\ r.pc # "free" => proc[w].pc # "free" /\ r.lock = proc[w].lock
    /\ ~ r.int /\ ~ r.tint
    /\ r.pc \notin SignalPC
    /\ r.tpc \in Running => r.pc \in {"forked", "wait"}

LEMMA CalmStep ==
    ASSUME IInv, NEW w \in Pid, NEW r, Calm(w, r), proc' = [proc EXCEPT ![w] = r],
           UNCHANGED <<locks, nextLock, slaveVars>>
    PROVE  Quiet /\ Undisturbed'
<1>1. Quiet
  BY DEF IInv, TypeInv, TypeOK, WorkerTypeOK, Apart, CorpsesApart, Quiet, Active, Calm, slaveVars
<1>2. Undisturbed'
  BY DEF IInv, TypeInv, TypeOK, WorkerTypeOK, Undisturbed, Calm, TestRuns, Running, slaveVars
<1> QED
  BY <1>1, <1>2

LEMMA CalmExit ==
    ASSUME IInv, NEW w \in Pid, NEW code, Exit(w, code), proc[w].pc # "free", ~ TestRuns(w),
           UNCHANGED <<locks, nextLock, slaveVars>>
    PROVE  Quiet /\ Undisturbed'
<1>1. CASE proc[w].slave = None
  <2>1. proc' = [proc EXCEPT ![w] = NoProc]
    BY <1>1 DEF Exit, Reaped
  <2>2. Calm(w, NoProc)
    BY DEF Calm, SignalPC, NoProc, Running
  <2> QED
    BY <2>1, <2>2, CalmStep
<1>2. CASE proc[w].slave # None
  <2> DEFINE r == [proc[w] EXCEPT !.pc = "zombie", !.code = code, !.int = FALSE, !.todo = {},
                                  !.sweep = {}, !.hand = None]
  <2>1. proc' = [proc EXCEPT ![w] = r]
    BY <1>2 DEF Exit
  <2>2. proc[w] \in Proc /\ ~ proc[w].tint
    BY DEF IInv, TypeInv, TypeOK, WorkerTypeOK, Undisturbed
  <2>3. Calm(w, r)
    BY <2>2 DEF Calm, SignalPC, Proc, TestRuns, Running
  <2> HIDE DEF r
  <2> QED
    BY <2>1, <2>3, CalmStep
<1> QED
  BY <1>1, <1>2

LEMMA CalmTestExit ==
    ASSUME IInv, NEW w \in Pid, TestExit(w), TestRuns(w),
           UNCHANGED <<locks, nextLock, slaveVars>>
    PROVE  Quiet /\ Undisturbed'
<1> DEFINE r == [proc[w] EXCEPT !.tpc = "done", !.result = None, !.tint = FALSE]
<1>1. proc[w] \in Proc /\ ~ proc[w].int /\ proc[w].pc \in {"forked", "wait"}
  BY DEF IInv, TypeInv, TypeOK, WorkerTypeOK, Undisturbed
<1>2. proc' = [proc EXCEPT ![w] = r]
  BY <1>1 DEF TestExit
<1>3. Calm(w, r)
  BY <1>1 DEF Calm, SignalPC, Proc, Running
<1> HIDE DEF r
<1> QED
  BY <1>2, <1>3, CalmStep

LEMMA CalmWorkerStep ==
    ASSUME IInv, NEW w \in Pid, WorkerStep(w), UNCHANGED slaveVars
    PROVE  Quiet /\ Undisturbed'
<1>p. /\ proc[w] \in Proc /\ proc \in [Pid -> Proc] /\ ~ proc[w].int /\ ~ proc[w].tint
      /\ proc[w].pc \notin SignalPC
      /\ proc[w].tpc \in Running => proc[w].pc \in {"forked", "wait"}
  BY DEF IInv, TypeInv, TypeOK, WorkerTypeOK, Undisturbed, TestRuns, Running
<1>1. CASE Begin(w)
  <2> DEFINE D == AllDepends(PortOf(w))
  <2>1. proc[w].pc = "start" /\ UNCHANGED <<locks, nextLock>>
    BY <1>1 DEF Begin, dbVars
  <2>2. ASSUME proc' = [proc EXCEPT ![w].pc = "inject", ![w].todo = D]
        PROVE  Quiet /\ Undisturbed'
    <3> DEFINE r == [proc[w] EXCEPT !.pc = "inject", !.todo = D]
    <3> HIDE DEF D
    <3>1. proc' = [proc EXCEPT ![w] = r] /\ Calm(w, r)
      BY <2>1, <2>2, <1>p DEF Calm, SignalPC, Proc
    <3> HIDE DEF r
    <3> QED
      BY <2>1, <3>1, CalmStep
  <2>3. ASSUME Goto(w, "internal")
        PROVE  Quiet /\ Undisturbed'
    <3> DEFINE r == [proc[w] EXCEPT !.pc = "internal"]
    <3>1. proc' = [proc EXCEPT ![w] = r] /\ Calm(w, r)
      BY <2>1, <2>3, <1>p DEF Calm, SignalPC, Proc, Goto
    <3> HIDE DEF r
    <3> QED
      BY <2>1, <3>1, CalmStep
  <2> QED
    BY <1>1, <2>2, <2>3 DEF Begin
<1>2. CASE Inject(w)
  <2>1. proc[w].pc = "inject" /\ UNCHANGED <<locks, nextLock>>
    BY <1>2 DEF Inject, dbVars
  <2>2. ASSUME NEW d, proc' = [proc EXCEPT ![w].todo = @ \ {d}]
        PROVE  Quiet /\ Undisturbed'
    <3> DEFINE r == [proc[w] EXCEPT !.todo = @ \ {d}]
    <3>1. proc' = [proc EXCEPT ![w] = r] /\ Calm(w, r)
      BY <2>1, <2>2, <1>p DEF Calm, SignalPC, Proc
    <3> HIDE DEF r
    <3> QED
      BY <2>1, <3>1, CalmStep
  <2>3. ASSUME proc' = [proc EXCEPT ![w].pc = "internal", ![w].todo = {}]
        PROVE  Quiet /\ Undisturbed'
    <3> DEFINE r == [proc[w] EXCEPT !.pc = "internal", !.todo = {}]
    <3>1. proc' = [proc EXCEPT ![w] = r] /\ Calm(w, r)
      BY <2>1, <2>3, <1>p DEF Calm, SignalPC, Proc
    <3> HIDE DEF r
    <3> QED
      BY <2>1, <3>1, CalmStep
  <2> QED
    BY <1>2, <2>2, <2>3 DEF Inject
<1>3. CASE ForkTest(w)
  <2> DEFINE r == [proc[w] EXCEPT !.pc = "forked", !.tpc = "build"]
  <2>1. /\ proc' = [proc EXCEPT ![w] = r] /\ UNCHANGED <<locks, nextLock>>
        /\ proc[w].pc = "inject"
    BY <1>3, <1>p DEF ForkTest, dbVars
  <2>2. Calm(w, r)
    BY <2>1, <1>p DEF Calm, SignalPC, Proc
  <2> HIDE DEF r
  <2> QED
    BY <2>1, <2>2, CalmStep
<1>4. CASE Await(w)
  <2> DEFINE r == [proc[w] EXCEPT !.pc = "wait"]
  <2>1. /\ proc' = [proc EXCEPT ![w] = r] /\ UNCHANGED <<locks, nextLock>>
        /\ proc[w].pc = "forked"
    BY <1>4, <1>p DEF Await, Goto, dbVars
  <2>2. Calm(w, r)
    BY <2>1, <1>p DEF Calm, SignalPC, Proc
  <2> HIDE DEF r
  <2> QED
    BY <2>1, <2>2, CalmStep
<1>5. CASE Collect(w)
  <2> DEFINE to == IF proc[w].tpc = "killed" THEN "internal"
                   ELSE IF Built(PortOf(w)) THEN "upload" ELSE "finish"
             r == [proc[w] EXCEPT !.tpc = "none", !.pc = to]
  <2>0. to \in {"internal", "upload", "finish"}
    OBVIOUS
  <2> HIDE DEF to
  <2>1. /\ proc' = [proc EXCEPT ![w] = r] /\ UNCHANGED <<locks, nextLock>>
        /\ proc[w].pc = "wait"
    BY <1>5, <1>p DEF Collect, dbVars, to
  <2>2. Calm(w, r)
    BY <2>0, <2>1, <1>p DEF Calm, SignalPC, Proc, Running
  <2> HIDE DEF r
  <2> QED
    BY <2>1, <2>2, CalmStep
<1>6. CASE Upload(w)
  <2> DEFINE r == [proc[w] EXCEPT !.pc = "finish"]
  <2>1. /\ proc' = [proc EXCEPT ![w] = r] /\ UNCHANGED <<locks, nextLock>>
        /\ proc[w].pc = "upload"
    BY <1>6, <1>p DEF Upload, Goto
  <2>2. Calm(w, r)
    BY <2>1, <1>p DEF Calm, SignalPC, Proc
  <2> HIDE DEF r
  <2> QED
    BY <2>1, <2>2, CalmStep
<1>7. CASE Finish(w)
  BY <1>7, <1>p, CalmExit DEF Finish, TestRuns, Running, dbVars
<1>8. CASE Internal(w)
  <2> DEFINE r == [proc[w] EXCEPT !.pc = "leave"]
  <2>1. /\ proc' = [proc EXCEPT ![w] = r] /\ UNCHANGED <<locks, nextLock>>
        /\ proc[w].pc = "internal"
    BY <1>8, <1>p DEF Internal, Goto
  <2>2. Calm(w, r)
    BY <2>1, <1>p DEF Calm, SignalPC, Proc, Running
  <2> HIDE DEF r
  <2> QED
    BY <2>1, <2>2, CalmStep
<1>9. CASE Leave(w)
  BY <1>9, <1>p, CalmExit DEF Leave, TestRuns, Running, dbVars
<1>10. ~ (WorkerInt(w) \/ IntCollect(w) \/ IntResetLog(w) \/ IntResetStatus(w))
  BY <1>p DEF WorkerInt, IntCollect, IntResetLog, IntResetStatus, SignalPC
<1>11. ~ (KidSearch(w) \/ KidResetLog(w) \/ KidResetStatus(w) \/ KidUnlock(w) \/ KidQuit(w))
  BY <1>p DEF KidSearch, KidResetLog, KidResetStatus, KidUnlock, KidQuit, SignalPC
<1> QED
  BY <1>1, <1>2, <1>3, <1>4, <1>5, <1>6, <1>7, <1>8, <1>9, <1>10, <1>11 DEF WorkerStep

LEMMA CalmTestStep ==
    ASSUME IInv, NEW w \in Pid, TestStep(w), UNCHANGED slaveVars
    PROVE  Quiet /\ Undisturbed'
<1>p. /\ proc[w] \in Proc /\ proc \in [Pid -> Proc] /\ ~ proc[w].int /\ ~ proc[w].tint
      /\ proc[w].pc \notin SignalPC
      /\ proc[w].tpc \in Running => proc[w].pc \in {"forked", "wait"}
  BY DEF IInv, TypeInv, TypeOK, WorkerTypeOK, Undisturbed, TestRuns, Running
<1>1. CASE Build(w)
  <2>1. PICK x \in Summary :
           proc' = [proc EXCEPT ![w].tpc = "status", ![w].result = x, ![w].tint = FALSE]
    BY <1>1 DEF Build
  <2> DEFINE r == [proc[w] EXCEPT !.tpc = "status", !.result = x, !.tint = FALSE]
  <2>2. /\ proc' = [proc EXCEPT ![w] = r] /\ UNCHANGED <<locks, nextLock>>
        /\ proc[w].pc \in {"forked", "wait"}
    BY <1>1, <1>p, <2>1 DEF Build, dbVars, Running
  <2>3. Calm(w, r)
    BY <2>2, <1>p DEF Calm, SignalPC, Proc
  <2> HIDE DEF r
  <2> QED
    BY <2>2, <2>3, CalmStep
<1>2. CASE InsertStatus(w)
  <2>0. TestRuns(w) /\ UNCHANGED <<locks, nextLock>> /\ proc[w].pc \in {"forked", "wait"}
    BY <1>2, <1>p DEF InsertStatus, TestRuns, Running
  <2>1. CASE TestExit(w)
    BY <2>0, <2>1, CalmTestExit
  <2>2. CASE TestGoto(w, "log")
    <3> DEFINE r == [proc[w] EXCEPT !.tpc = "log"]
    <3>1. proc' = [proc EXCEPT ![w] = r]
      BY <2>2, <1>p DEF TestGoto
    <3>2. Calm(w, r)
      BY <2>0, <1>p DEF Calm, SignalPC, Proc
    <3> HIDE DEF r
    <3> QED
      BY <2>0, <3>1, <3>2, CalmStep
  <2> QED
    BY <1>2, <2>1, <2>2 DEF InsertStatus
<1>3. CASE InsertLog(w)
  BY <1>3, CalmTestExit DEF InsertLog, TestRuns
<1>4. ~ TestInt(w)
  BY <1>p DEF TestInt
<1> QED
  BY <1>1, <1>2, <1>3, <1>4 DEF TestStep

LEMMA CalmWorkerFault ==
    ASSUME NoKillers, IInv, NEW w \in Pid, WorkerFault(w), UNCHANGED slaveVars
    PROVE  Quiet /\ Undisturbed'
<1>p. /\ proc[w] \in Proc /\ proc \in [Pid -> Proc] /\ ~ proc[w].int /\ ~ proc[w].tint
      /\ proc[w].pc \notin SignalPC
      /\ proc[w].tpc \in Running => proc[w].pc \in {"forked", "wait"}
  BY DEF IInv, TypeInv, TypeOK, WorkerTypeOK, Undisturbed, TestRuns, Running
<1>1. CASE WorkerThrows(w)
  <2> DEFINE r == [proc[w] EXCEPT !.pc = "internal", !.todo = {}]
  <2>1. /\ proc' = [proc EXCEPT ![w] = r] /\ UNCHANGED <<locks, nextLock>>
        /\ proc[w].pc \in {"start", "inject", "upload"}
    BY <1>1, <1>p DEF WorkerThrows, dbVars
  <2>2. Calm(w, r)
    BY <2>1, <1>p DEF Calm, SignalPC, Proc
  <2> HIDE DEF r
  <2> QED
    BY <2>1, <2>2, CalmStep
<1>2. CASE WorkerLosesDB(w)
  BY <1>2, <1>p, CalmExit DEF WorkerLosesDB, TestRuns, Running, dbVars
<1>3. ~ WorkerTerm(w) /\ ~ KidLosesDB(w)
  BY <1>p DEF WorkerTerm, KidLosesDB, Disturb, NoKillers, SignalPC
<1>4. CASE TestThrows(w)
  BY <1>4, CalmTestExit DEF TestThrows, TestRuns
<1>5. CASE TestLosesDB(w)
  BY <1>5, CalmTestExit DEF TestLosesDB, TestRuns, dbVars
<1>6. CASE TestKilled(w)
  <2> DEFINE r == [proc[w] EXCEPT !.tpc = "killed", !.result = None, !.tint = FALSE]
  <2>1. proc' = [proc EXCEPT ![w] = r] /\ UNCHANGED <<locks, nextLock>> /\ TestRuns(w)
    BY <1>6, <1>p DEF TestKilled, dbVars
  <2>2. Calm(w, r)
    BY <2>1, <1>p DEF Calm, SignalPC, Proc, TestRuns, Running
  <2> HIDE DEF r
  <2> QED
    BY <2>1, <2>2, CalmStep
<1> QED
  BY <1>1, <1>2, <1>3, <1>4, <1>5, <1>6 DEF WorkerFault

LEMMA ProcStepKeeps ==
    ASSUME NoKillers, IInv, NEW w \in Pid, ProcStep(w)
    PROVE  IInv'
<1>1. Quiet /\ Undisturbed'
  BY CalmWorkerStep, CalmTestStep, CalmWorkerFault DEF ProcStep
<1>2. TypeInv'
  BY ProcStepType DEF IInv
<1> QED
  BY <1>1, <1>2, QuietKeepsApart DEF IInv, Apart

-----------------------------------------------------------------------------
(* The supervisors: steps that leave the locks alone.                      *)

\* A supervisor whose record becomes r, while every worker stays as it is.
LEMMA QuietSlave ==
    ASSUME IInv, NEW s \in Slave, NEW r, sl' = [sl EXCEPT ![s] = r],
           UNCHANGED <<locks, nextLock, proc, children, dead>>,
           ~ r.term, r.back = "main", r.pc \notin {"kill", "search", "sweep", "claimed"},
           r.child \in {None, sl[s].child},
           r.pc \in {"resetlog", "resetstatus", "unlock"} =>
               \E c \in dead[s] : c.lock = r.lock
    PROVE  Quiet /\ Undisturbed'
<1>1. Quiet
  BY DEF IInv, TypeInv, TypeOK, Apart, CorpsesApart, Quiet, Active
<1>2. Undisturbed'
  BY DEF IInv, TypeInv, TypeOK, Undisturbed, TestRuns
<1> QED
  BY <1>1, <1>2

\* The same for a step that only moves the program counter.
Goes(s, to) == sl' = [sl EXCEPT ![s].pc = to]

NothingElse == UNCHANGED <<locks, nextLock, proc, children, dead>>

Ordinary == {"main", "fill", "select", "full", "nap", "insert", "asleep"}

LEMMA QuietGoto ==
    ASSUME IInv, NEW s \in Slave, NEW to, Goes(s, to), NothingElse,
           \/ to \in Ordinary
           \/ /\ to \in {"resetlog", "resetstatus", "unlock"}
              /\ sl[s].pc \in {"resetlog", "resetstatus", "unlock"}
    PROVE  Quiet /\ Undisturbed'
<1> DEFINE r == [sl[s] EXCEPT !.pc = to]
<1>1. sl[s] \in SlaveState /\ sl' = [sl EXCEPT ![s] = r] /\ ~ sl[s].term /\ sl[s].back = "main"
  BY DEF IInv, TypeInv, TypeOK, Undisturbed, Goes
<1>2. r.pc = to /\ r.term = sl[s].term /\ r.back = sl[s].back /\ r.child = sl[s].child /\ r.lock = sl[s].lock
  BY <1>1 DEF SlaveState
<1>3. to \in {"resetlog", "resetstatus", "unlock"} => \E c \in dead[s] : c.lock = sl[s].lock
  BY DEF IInv, CorpsesApart, Ordinary
<1>4. to \notin {"kill", "search", "sweep", "claimed"}
  BY DEF Ordinary
<1> HIDE DEF r
<1> QED
  BY <1>1, <1>2, <1>3, <1>4, QuietSlave DEF NothingElse

QuietMain(s) ==
    \/ Start(s) \/ Main(s) \/ ResetLog(s) \/ ResetStatus(s) \/ Fill(s) \/ Select(s)
    \/ Nap(s) \/ NoWorkerId(s) \/ Sleep(s)

LEMMA QuietMainStep ==
    ASSUME IInv, NEW s \in Slave, QuietMain(s)
    PROVE  Quiet /\ Undisturbed'
<1>t. sl[s] \in SlaveState /\ sl \in [Slave -> SlaveState] /\ ~ sl[s].term /\ sl[s].back = "main"
  BY DEF IInv, TypeInv, TypeOK, Undisturbed
<1>1. CASE Start(s)
  <2>1. Goes(s, "main") /\ NothingElse /\ "main" \in Ordinary
    BY <1>1 DEF Start, Goes, NothingElse, Ordinary, Step, Keeps, dbVars, workerVars
  <2> QED
    BY <2>1, QuietGoto
<1>2. CASE Main(s)
  <2>0. UNCHANGED <<locks, nextLock, proc, children, dead>>
    BY <1>2 DEF Main, Keeps, dbVars, workerVars
  <2>1. CASE dead[s] = {}
    <3>1. Goes(s, "fill") /\ NothingElse /\ "fill" \in Ordinary
      BY <1>2, <2>0, <2>1 DEF Main, Goes, NothingElse, Ordinary
    <3> QED
      BY <3>1, QuietGoto
  <2>2. CASE dead[s] # {}
    <3>1. PICK c \in dead[s] :
             sl' = [sl EXCEPT ![s].lock = c.lock,
                              ![s].pc = IF c.code = 6 THEN "resetlog" ELSE "unlock"]
      BY <1>2, <2>2 DEF Main
    <3> DEFINE to == IF c.code = 6 THEN "resetlog" ELSE "unlock"
               r == [sl[s] EXCEPT !.lock = c.lock, !.pc = to]
    <3>2. to \in {"resetlog", "unlock"}
      OBVIOUS
    <3>3. sl' = [sl EXCEPT ![s] = r]
      BY <3>1, <1>t
    <3> HIDE DEF to
    <3>4. r.pc = to /\ r.lock = c.lock /\ ~ r.term /\ r.back = "main" /\ r.child = sl[s].child
      BY <1>t DEF SlaveState
    <3> HIDE DEF r
    <3> QED
      BY <2>0, <3>2, <3>3, <3>4, QuietSlave
  <2> QED
    BY <2>1, <2>2
<1>3. CASE ResetLog(s)
  <2>1. Goes(s, "resetstatus") /\ NothingElse /\ sl[s].pc = "resetlog"
    BY <1>3 DEF ResetLog, Goes, NothingElse, Step, Keeps, workerVars
  <2> QED
    BY <2>1, QuietGoto
<1>4. CASE ResetStatus(s)
  <2>1. Goes(s, "unlock") /\ NothingElse /\ sl[s].pc = "resetstatus"
    BY <1>4 DEF ResetStatus, Goes, NothingElse, Step, Keeps, workerVars
  <2> QED
    BY <2>1, QuietGoto
<1>5. CASE Fill(s)
  <2> DEFINE to == IF Cardinality(children[s]) < Jobs THEN "select" ELSE "full"
  <2>1. to \in Ordinary
    BY DEF Ordinary
  <2>2. Goes(s, to) /\ NothingElse
    BY <1>5 DEF Fill, Goes, NothingElse, Keeps, dbVars, workerVars
  <2> HIDE DEF to
  <2> QED
    BY <2>1, <2>2, QuietGoto
<1>6. CASE Select(s)
  <2>0. UNCHANGED <<locks, nextLock, proc, children, dead>>
    BY <1>6 DEF Select, Keeps, dbVars, workerVars
  <2>1. ASSUME NEW p, sl' = [sl EXCEPT ![s].port = p, ![s].pc = "insert"]
        PROVE  Quiet /\ Undisturbed'
    <3> DEFINE r == [sl[s] EXCEPT !.port = p, !.pc = "insert"]
    <3>1. sl' = [sl EXCEPT ![s] = r] /\ r.pc = "insert" /\ ~ r.term /\ r.back = "main" /\ r.child = sl[s].child
      BY <2>1, <1>t DEF SlaveState
    <3> HIDE DEF r
    <3> QED
      BY <2>0, <3>1, QuietSlave
  <2>2. ASSUME sl' = [sl EXCEPT ![s].pc = "nap"]
        PROVE  Quiet /\ Undisturbed'
    <3>1. Goes(s, "nap") /\ NothingElse /\ "nap" \in Ordinary
      BY <2>0, <2>2 DEF Goes, NothingElse, Ordinary
    <3> QED
      BY <3>1, QuietGoto
  <2> QED
    BY <1>6, <2>1, <2>2 DEF Select
<1>7. CASE Nap(s)
  <2>1. Goes(s, "main") /\ NothingElse /\ "main" \in Ordinary
    BY <1>7 DEF Nap, Goes, NothingElse, Ordinary, Step, Keeps, dbVars, workerVars
  <2> QED
    BY <2>1, QuietGoto
<1>8. CASE NoWorkerId(s)
  <2> DEFINE r == [sl[s] EXCEPT !.lock = None, !.pc = "fill"]
  <2>1. sl' = [sl EXCEPT ![s] = r] /\ r.pc = "fill" /\ ~ r.term /\ r.back = "main" /\ r.child = sl[s].child
    BY <1>8, <1>t DEF NoWorkerId, SlaveState
  <2> HIDE DEF r
  <2> QED
    BY <1>8, <2>1, QuietSlave DEF NoWorkerId, Keeps, dbVars, workerVars
<1>9. CASE Sleep(s)
  <2>1. Goes(s, "asleep") /\ NothingElse /\ "asleep" \in Ordinary
    BY <1>9 DEF Sleep, Goes, NothingElse, Ordinary, Step, Keeps, dbVars, workerVars
  <2> QED
    BY <2>1, QuietGoto
<1> QED
  BY <1>1, <1>2, <1>3, <1>4, <1>5, <1>6, <1>7, <1>8, <1>9 DEF QuietMain

-----------------------------------------------------------------------------
(* The supervisors: steps that create, hand on or delete a lock.           *)

\* The record of a supervisor that goes on with a lock of nobody.
Plain(s, r) ==
    r.pc \in Ordinary /\ ~ r.term /\ r.back = "main" /\ r.child \in {None, sl[s].child}

\* A lock that is inserted is new to everybody; a claim has it, or, when the
\* reply to the INSERT is lost, nobody.
LEMMA AddLock ==
    ASSUME IInv, NEW s \in Slave, NEW p \in Port, NEW m \in Machine, NEW r,
           InsertLock(p, m), sl' = [sl EXCEPT ![s] = r],
           ~ r.term, r.back = "main", r.child \in {None, sl[s].child},
           r.pc \in Ordinary \/ (r.pc = "claimed" /\ r.lock = NewLock(p, m)),
           UNCHANGED <<proc, children, dead>>
    PROVE  Apart' /\ Undisturbed'
<1> DEFINE n == NewLock(p, m)
<1>1. /\ locks' = locks \cup {n} /\ n.id = nextLock /\ n.port = p
      /\ nextLock' = nextLock + 1 /\ nextLock \in Nat
      /\ \A l \in locks : l.id \in Nat /\ l.id < nextLock /\ l.port # p
  BY DEF IInv, TypeInv, TypeOK, DBTypeOK, Lock, LocksKeyed, InsertLock, NewLock, Duplicate, Locked
<1>2. r.pc = "claimed" => r.lock = n
  BY DEF Ordinary
<1>3. r.pc \notin {"resetlog", "resetstatus", "unlock", "kill", "search", "sweep"}
  BY DEF Ordinary
<1> HIDE DEF n
<1>4. LocksKeyed'
  BY <1>1 DEF IInv, LocksKeyed
<1>5. WorkersHoldLocks'
  BY <1>1 DEF IInv, WorkersHoldLocks, Active
<1>6. ClaimsApart'
  BY <1>1, <1>2 DEF IInv, TypeInv, TypeOK, WorkersHoldLocks, ClaimsApart, Active
<1>7. CorpsesApart'
  <2>1. \A t \in Slave : \A c \in dead[t] : c.lock.id \in Nat /\ c.lock.id < nextLock
    BY DEF IInv, TypeInv, TypeOK, Corpse, Lock, CorpsesApart
  <2> QED
    BY <1>1, <1>2, <1>3, <2>1 DEF IInv, TypeInv, TypeOK, CorpsesApart, Active
<1>8. ChildrenKnown'
  BY DEF IInv, TypeInv, TypeOK, ChildrenKnown, Active
<1>9. Undisturbed'
  BY <1>3 DEF IInv, TypeInv, TypeOK, Undisturbed, TestRuns
<1> QED
  BY <1>4, <1>5, <1>6, <1>7, <1>8, <1>9 DEF Apart

\* A lock that is deleted is a corpse's: nobody else has one with its id.
LEMMA DropLock ==
    ASSUME IInv, NEW s \in Slave, NEW r, NEW c \in dead[s],
           DeleteLock(c.lock), sl' = [sl EXCEPT ![s] = r], Plain(s, r),
           \A t \in Slave : dead'[t] \subseteq dead[t] /\ (t # s => dead'[t] = dead[t]),
           UNCHANGED <<nextLock, proc, children>>
    PROVE  Apart' /\ Undisturbed'
<1>1. locks' = {k \in locks : k.id # c.lock.id}
  BY DEF DeleteLock
<1>2. /\ \A w \in Pid : Active(w) => proc[w].lock.id # c.lock.id
      /\ \A t \in Slave : sl[t].pc = "claimed" => sl[t].lock.id # c.lock.id
  BY DEF IInv, CorpsesApart
<1>3. /\ r.pc \notin {"resetlog", "resetstatus", "unlock", "kill", "search", "sweep", "claimed"}
      /\ ~ r.term /\ r.back = "main" /\ r.child \in {None, sl[s].child}
  BY DEF Plain, Ordinary
<1>4. LocksKeyed'
  BY <1>1 DEF IInv, LocksKeyed
<1>5. WorkersHoldLocks'
  BY <1>1, <1>2 DEF IInv, WorkersHoldLocks, Active
<1>6. ClaimsApart'
  BY <1>1, <1>2, <1>3 DEF IInv, TypeInv, TypeOK, ClaimsApart, Active
<1>7. CorpsesApart'
  BY <1>3 DEF IInv, TypeInv, TypeOK, CorpsesApart, Active
<1>8. ChildrenKnown'
  BY <1>3 DEF IInv, TypeInv, TypeOK, ChildrenKnown, Active
<1>9. Undisturbed'
  BY <1>3 DEF IInv, TypeInv, TypeOK, Undisturbed, TestRuns
<1> QED
  BY <1>4, <1>5, <1>6, <1>7, <1>8, <1>9 DEF Apart

\* A claim becomes the lock of a worker whose pid nobody knows yet.
LEMMA ForkWorkerApart ==
    ASSUME IInv, NEW s \in Slave, ForkWorker(s)
    PROVE  Apart' /\ Undisturbed'
<1>1. PICK i \in ids[s], w \in FreePids :
         /\ proc' = [proc EXCEPT ![w] = NewProc(s, sl[s].lock, i, children[s] # {})]
         /\ sl' = [sl EXCEPT ![s].pc = "forked", ![s].lock = None,
                             ![s].child = [pid |-> w, lock |-> sl[s].lock, wid |-> i]]
  BY DEF ForkWorker
<1> DEFINE l == sl[s].lock
           q == NewProc(s, l, i, children[s] # {})
           r == [sl[s] EXCEPT !.pc = "forked", !.lock = None,
                              !.child = [pid |-> w, lock |-> l, wid |-> i]]
<1>2. /\ w \in Pid /\ proc[w] = NoProc /\ sl[s].pc = "claimed"
      /\ UNCHANGED <<locks, nextLock, children, dead>>
      /\ \A t \in Slave : /\ \A c \in children[t] : c.pid # w
                          /\ sl[t].child # None => sl[t].child.pid # w
  BY <1>1 DEF FreePids, Registered, Unregistered, ForkWorker, dbVars
<1>3. proc' = [proc EXCEPT ![w] = q] /\ sl' = [sl EXCEPT ![s] = r]
  BY <1>1 DEF IInv, TypeInv, TypeOK
<1>4. /\ q.pc = "start" /\ q.tpc = "none" /\ q.lock = l /\ ~ q.int /\ ~ q.tint
      /\ proc[w].pc = "free"
  BY <1>2 DEF NewProc, NoProc
<1>5. r.pc = "forked" /\ ~ r.term /\ r.back = "main" /\ r.child.lock = l /\ r.child.pid = w
  BY DEF IInv, TypeInv, TypeOK, SlaveState, Undisturbed
<1> HIDE DEF q, r
<1>6. LocksKeyed'
  BY <1>2 DEF IInv, LocksKeyed
<1>7. WorkersHoldLocks'
  BY <1>2, <1>3, <1>4
  DEF IInv, TypeInv, TypeOK, WorkerTypeOK, WorkersHoldLocks, ClaimsApart, Active
<1>8. ClaimsApart'
  BY <1>2, <1>3, <1>4, <1>5
  DEF IInv, TypeInv, TypeOK, WorkerTypeOK, ClaimsApart, Active
<1>9. CorpsesApart'
  BY <1>2, <1>3, <1>4, <1>5
  DEF IInv, TypeInv, TypeOK, WorkerTypeOK, CorpsesApart, Active
<1>10. ChildrenKnown'
  <2>1. ASSUME NEW t \in Slave, NEW c \in children[t], Active(c.pid)'
        PROVE  proc'[c.pid].lock = c.lock
    BY <1>2, <1>3, <2>1
    DEF IInv, TypeInv, TypeOK, WorkerTypeOK, Child, ChildrenKnown, Active
  <2>2. ASSUME NEW t \in Slave, t # s, sl[t].child # None, Active(sl[t].child.pid)'
        PROVE  proc'[sl[t].child.pid].lock = sl[t].child.lock
    BY <1>2, <1>3, <2>2
    DEF IInv, TypeInv, TypeOK, WorkerTypeOK, SlaveState, Child, ChildrenKnown, Active
  <2> QED
    BY <1>2, <1>3, <1>4, <1>5, <2>1, <2>2
    DEF IInv, TypeInv, TypeOK, WorkerTypeOK, ChildrenKnown
<1>11. Undisturbed'
  BY <1>3, <1>4, <1>5
  DEF IInv, TypeInv, TypeOK, WorkerTypeOK, Undisturbed, TestRuns, SignalPC
<1> QED
  BY <1>6, <1>7, <1>8, <1>9, <1>10, <1>11 DEF Apart

LEMMA RegisterApart ==
    ASSUME IInv, NEW s \in Slave, Register(s)
    PROVE  Apart' /\ Undisturbed'
<1> DEFINE r == [sl[s] EXCEPT !.pc = "fill", !.child = None]
<1>1. /\ sl' = [sl EXCEPT ![s] = r] /\ sl[s].child # None
      /\ children' = [children EXCEPT ![s] = @ \cup {sl[s].child}]
      /\ UNCHANGED <<locks, nextLock, proc, dead>>
  BY DEF Register, IInv, TypeInv, TypeOK, SlaveControl, dbVars, workerVars
<1>2. r.pc = "fill" /\ r.child = None /\ ~ r.term /\ r.back = "main"
  BY DEF IInv, TypeInv, TypeOK, SlaveState, Undisturbed
<1> HIDE DEF r
<1>3. LocksKeyed' /\ WorkersHoldLocks'
  BY <1>1 DEF IInv, LocksKeyed, WorkersHoldLocks, Active
<1>4. ClaimsApart' /\ CorpsesApart'
  BY <1>1, <1>2 DEF IInv, TypeInv, TypeOK, ClaimsApart, CorpsesApart, Active
<1>5. ChildrenKnown'
  BY <1>1, <1>2 DEF IInv, TypeInv, TypeOK, ChildrenKnown, Active
<1>6. Undisturbed'
  BY <1>1, <1>2 DEF IInv, TypeInv, TypeOK, Undisturbed, TestRuns
<1> QED
  BY <1>3, <1>4, <1>5, <1>6 DEF Apart

\* The handler of SIGCHLD turns children into corpses, locks and all.
LEMMA ReapApart ==
    ASSUME IInv, NEW s \in Slave, Reap(s)
    PROVE  Apart' /\ Undisturbed'
<1> DEFINE Zs == Zombies(s)
<1>1. PICK R \in SUBSET Zs :
         /\ children' = [children EXCEPT ![s] = @ \ {c \in children[s] : c.pid \in R}]
         /\ dead' = [dead EXCEPT ![s] =
               @ \cup {[lock |-> c.lock, code |-> proc[c.pid].code] :
                          c \in {c \in children[s] : c.pid \in R}}]
         /\ proc' = [w \in Pid |-> IF w \in R THEN Reaped(w) ELSE proc[w]]
  BY DEF Reap
<1>2. /\ sl' = [sl EXCEPT ![s].pc = IF @ \in {"asleep", "nap"} THEN "main" ELSE @]
      /\ UNCHANGED <<locks, nextLock>>
  BY DEF Reap, dbVars
<1>3. /\ \A t \in Slave : /\ sl'[t].lock = sl[t].lock /\ sl'[t].child = sl[t].child
                          /\ sl'[t].term = sl[t].term /\ sl'[t].back = sl[t].back
                          /\ sl'[t].pc = sl[t].pc \/ sl'[t].pc = "main"
      /\ sl' \in [Slave -> SlaveState]
  <2> DEFINE to == IF sl[s].pc \in {"asleep", "nap"} THEN "main" ELSE sl[s].pc
             r == [sl[s] EXCEPT !.pc = to]
  <2>1. sl' = [sl EXCEPT ![s] = r] /\ sl[s] \in SlaveState /\ sl \in [Slave -> SlaveState]
    BY <1>2 DEF IInv, TypeInv, TypeOK
  <2>2. to \in SlavePC /\ (to = sl[s].pc \/ to = "main")
    BY <2>1 DEF SlaveState, SlavePC
  <2> HIDE DEF to
  <2>3. /\ r \in SlaveState /\ r.lock = sl[s].lock /\ r.child = sl[s].child
        /\ r.term = sl[s].term /\ r.back = sl[s].back /\ r.pc = to
    BY <2>1, <2>2 DEF SlaveState
  <2> HIDE DEF r
  <2> QED
    BY <2>1, <2>2, <2>3
<1>4. \A w \in R : /\ w \in Pid /\ proc[w].pc = "zombie" /\ Reaped(w) = NoProc
  BY DEF Zombies, IInv, Undisturbed, Reaped
<1>5. \A w \in Pid : /\ Active(w)' => Active(w) /\ w \notin R /\ proc'[w] = proc[w]
                     /\ proc'[w] = proc[w] \/ proc'[w] = NoProc
  <2> TAKE w \in Pid
  <2>1. CASE w \in R
    <3>1. proc'[w] = NoProc /\ NoProc.pc = "free"
      BY <1>1, <1>4, <2>1 DEF NoProc
    <3> QED
      BY <3>1 DEF Active
  <2>2. CASE w \notin R
    <3>1. proc'[w] = proc[w]
      BY <1>1, <2>2
    <3> QED
      BY <2>2, <3>1 DEF Active
  <2> QED
    BY <2>1, <2>2
<1>6. ASSUME NEW c \in children[s], c.pid \in R
      PROVE  /\ c.lock = proc[c.pid].lock /\ c.lock \in locks /\ c.lock.id < nextLock
             /\ \A w \in Pid : Active(w)' => proc'[w].lock.id # c.lock.id
             /\ \A t \in Slave : sl'[t].pc = "claimed" => sl'[t].lock.id # c.lock.id
  <2>1. c.pid \in Pid /\ Active(c.pid)
    BY <1>4, <1>6 DEF Active
  <2>2. c.lock = proc[c.pid].lock
    BY <2>1 DEF IInv, ChildrenKnown
  <2>3. c.lock \in locks /\ c.lock.id < nextLock
    BY <2>1, <2>2 DEF IInv, WorkersHoldLocks, LocksKeyed
  <2>4. \A w \in Pid : Active(w)' => proc'[w].lock.id # c.lock.id
    BY <1>5, <1>6, <2>1, <2>2 DEF IInv, WorkersHoldLocks
  <2>5. \A t \in Slave : sl'[t].pc = "claimed" => sl'[t].lock.id # c.lock.id
    BY <1>3, <2>1, <2>2 DEF IInv, ClaimsApart
  <2> QED
    BY <2>2, <2>3, <2>4, <2>5
<1>7. LocksKeyed'
  BY <1>2 DEF IInv, LocksKeyed
<1>8. WorkersHoldLocks'
  BY <1>2, <1>5 DEF IInv, WorkersHoldLocks
<1>9. ClaimsApart'
  BY <1>2, <1>3, <1>5 DEF IInv, ClaimsApart
<1>10. \A t \in Slave : dead[t] \subseteq dead'[t]
  BY <1>1 DEF IInv, TypeInv, TypeOK
<1>11. ASSUME NEW t \in Slave, NEW c \in dead'[t]
       PROVE  /\ c.lock.id < nextLock
              /\ \A w \in Pid : Active(w)' => proc'[w].lock.id # c.lock.id
              /\ \A u \in Slave : sl'[u].pc = "claimed" => sl'[u].lock.id # c.lock.id
  <2>1. CASE c \in dead[t]
    BY <1>3, <1>5, <2>1 DEF IInv, CorpsesApart
  <2>2. CASE c \notin dead[t]
    <3>1. PICK k \in children[s] : k.pid \in R /\ c.lock = k.lock
      BY <1>1, <1>11, <2>2 DEF IInv, TypeInv, TypeOK
    <3> QED
      BY <1>6, <3>1
  <2> QED
    BY <2>1, <2>2
<1>12. CorpsesApart'
  <2>1. ASSUME NEW t \in Slave, sl'[t].pc \in {"resetlog", "resetstatus", "unlock"}
        PROVE  \E c \in dead'[t] : c.lock = sl'[t].lock
    BY <1>3, <1>10, <2>1 DEF IInv, CorpsesApart
  <2> QED
    BY <1>2, <1>11, <2>1 DEF CorpsesApart
<1>13. ChildrenKnown'
  <2>1. ASSUME NEW t \in Slave, NEW c \in children'[t], Active(c.pid)'
        PROVE  proc'[c.pid].lock = c.lock
    <3>1. c \in children[t] /\ c.pid \in Pid
      BY <1>1, <2>1 DEF IInv, TypeInv, TypeOK, Child
    <3> QED
      BY <1>5, <2>1, <3>1 DEF IInv, ChildrenKnown
  <2>2. ASSUME NEW t \in Slave, sl[t].child # None, proc'[sl[t].child.pid].pc # "free"
        PROVE  proc'[sl[t].child.pid].lock = sl[t].child.lock
    <3>1. sl[t].child.pid \in Pid
      BY <2>2 DEF IInv, TypeInv, TypeOK, SlaveState, Child
    <3> QED
      BY <1>5, <2>2, <3>1 DEF IInv, ChildrenKnown, Active
  <2> QED
    BY <1>3, <2>1, <2>2 DEF ChildrenKnown, Active
<1>14. Undisturbed'
  BY <1>3, <1>5 DEF IInv, Undisturbed, TestRuns, NoProc, SignalPC
<1> QED
  BY <1>7, <1>8, <1>9, <1>12, <1>13, <1>14 DEF Apart

-----------------------------------------------------------------------------
(* The steps of a supervisor, together.                                    *)

LEMMA MainStepApart ==
    ASSUME IInv, NEW s \in Slave, MainStep(s)
    PROVE  Apart' /\ Undisturbed'
<1>t. sl[s] \in SlaveState /\ sl \in [Slave -> SlaveState] /\ ~ sl[s].term /\ sl[s].back = "main"
  BY DEF IInv, TypeInv, TypeOK, Undisturbed
<1>1. CASE QuietMain(s)
  BY <1>1, QuietMainStep, QuietKeepsApart, MainStepType DEF IInv, Apart
<1>2. CASE Unlock(s)
  <2> DEFINE r == [sl[s] EXCEPT !.lock = None, !.todo = @ \ {sl[s].lock}, !.pc = "main"]
  <2>1. /\ sl' = [sl EXCEPT ![s] = r] /\ sl[s].pc = "unlock"
        /\ dead' = [dead EXCEPT ![s] = {c \in @ : c.lock # sl[s].lock}]
        /\ DeleteLock(sl[s].lock)
        /\ UNCHANGED <<nextLock, proc, children>>
    BY <1>2, <1>t DEF Unlock, workerVars
  <2>2. PICK c \in dead[s] : c.lock = sl[s].lock
    BY <2>1 DEF IInv, CorpsesApart
  <2>3. Plain(s, r)
    BY <1>t DEF Plain, Ordinary, SlaveState
  <2>4. \A t \in Slave : dead'[t] \subseteq dead[t] /\ (t # s => dead'[t] = dead[t])
    BY <2>1 DEF IInv, TypeInv, TypeOK
  <2> HIDE DEF r
  <2> QED
    BY <2>1, <2>2, <2>3, <2>4, DropLock
<1>3. CASE Insert(s)
  <2> DEFINE p == sl[s].port
             m == Host[s]
  <2>1. p \in Port /\ m \in Machine /\ UNCHANGED <<proc, children, dead>>
    BY <1>3, <1>t, HostAssumption
    DEF Insert, IInv, TypeInv, SlaveControl, SlaveState, workerVars, Keeps
  <2>2. CASE Duplicate(p)
    <3> DEFINE r == [sl[s] EXCEPT !.port = None, !.pc = "select"]
    <3>1. sl' = [sl EXCEPT ![s] = r] /\ UNCHANGED <<locks, nextLock>>
      BY <1>3, <2>2, <1>t DEF Insert
    <3>2. r.pc = "select" /\ ~ r.term /\ r.back = "main" /\ r.child = sl[s].child
      BY <1>t DEF SlaveState
    <3> HIDE DEF r
    <3>3. Quiet /\ Undisturbed'
      BY <2>1, <3>1, <3>2, QuietSlave
    <3> QED
      BY <3>3, QuietKeepsApart, MainStepType DEF IInv, Apart
  <2>3. CASE ~ Duplicate(p)
    <3> DEFINE r == [sl[s] EXCEPT !.port = None, !.pc = "claimed", !.lock = NewLock(p, m)]
    <3>1. sl' = [sl EXCEPT ![s] = r] /\ InsertLock(p, m)
      BY <1>3, <2>3, <1>t DEF Insert
    <3>2. r.pc = "claimed" /\ ~ r.term /\ r.back = "main" /\ r.child = sl[s].child /\ r.lock = NewLock(p, m)
      BY <1>t DEF SlaveState
    <3> HIDE DEF r
    <3> QED
      BY <2>1, <3>1, <3>2, AddLock
  <2> QED
    BY <2>2, <2>3
<1>4. CASE ForkWorker(s)
  BY <1>4, ForkWorkerApart
<1>5. CASE Register(s)
  BY <1>5, RegisterApart
<1>6. ~ (KillWait(s) \/ Search(s) \/ Sweep(s) \/ Quit(s))
  BY DEF IInv, Undisturbed, KillWait, Search, Sweep, Quit, Step
<1> QED
  BY <1>1, <1>2, <1>3, <1>4, <1>5, <1>6 DEF MainStep, QuietMain

LEMMA SlaveFaultApart ==
    ASSUME NoKillers, IInv, NEW s \in Slave, SlaveFault(s)
    PROVE  Apart' /\ Undisturbed'
<1>t. sl[s] \in SlaveState /\ sl \in [Slave -> SlaveState] /\ ~ sl[s].term /\ sl[s].back = "main"
  BY DEF IInv, TypeInv, TypeOK, Undisturbed
<1>q. Quiet /\ Undisturbed' => Apart' /\ Undisturbed'
  BY QuietKeepsApart, SlaveFaultType DEF IInv, Apart
<1>r. /\ Restarted(s).child = None /\ Plain(s, Restarted(s))
      /\ Restarted(s).pc = "main" /\ ~ Restarted(s).term
      /\ Restarted(s).back = "main"
  <2>1. Restarted(s) = At("main")
    BY DEF Restarted, IInv, Undisturbed
  <2> QED
    BY <2>1 DEF At, Plain, Ordinary
<1>1. CASE ForkFails(s)
  <2> DEFINE r == [sl[s] EXCEPT !.lock = None, !.pc = "fill"]
  <2>1. sl' = [sl EXCEPT ![s] = r] /\ UNCHANGED <<locks, nextLock, proc, children, dead>>
    BY <1>1, <1>t DEF ForkFails, dbVars
  <2>2. r.pc = "fill" /\ ~ r.term /\ r.back = "main" /\ r.child = sl[s].child
    BY <1>t DEF SlaveState
  <2> HIDE DEF r
  <2> QED
    BY <2>1, <2>2, <1>q, QuietSlave
<1>2. ~ Term(s)
  BY DEF Term, Disturb, NoKillers
<1>3. CASE Die(s)
  <2>1. /\ sl' = [sl EXCEPT ![s] = At("off")]
        /\ children' = [children EXCEPT ![s] = {}] /\ dead' = [dead EXCEPT ![s] = {}]
        /\ proc' = [w \in Pid |-> IF proc[w].slave = s THEN Orphaned(w) ELSE proc[w]]
        /\ UNCHANGED <<locks, nextLock>>
    BY <1>3 DEF Die, Ends, dbVars
  <2>2. \A w \in Pid : /\ Orphaned(w).pc # "free" => Orphaned(w).pc = proc[w].pc
                       /\ Orphaned(w).pc # "free" => Orphaned(w).lock = proc[w].lock
                       /\ ~ Orphaned(w).int /\ ~ Orphaned(w).tint
                       /\ Orphaned(w).tpc \in Running =>
                             proc[w].tpc \in Running /\ Orphaned(w).pc = proc[w].pc
    BY DEF Orphaned, NoProc, IInv, TypeInv, TypeOK, WorkerTypeOK, Proc, Undisturbed,
           TestRuns, Running, SignalPC
  <2>3. At("off").pc = "off" /\ ~ At("off").term /\ At("off").back = "main" /\ At("off").child = None
    BY DEF At
  <2>4. Quiet
    BY <2>1, <2>2, <2>3 DEF Quiet, IInv, TypeInv, TypeOK, CorpsesApart, Active
  <2>5. Undisturbed'
    <3>1. \A w \in Pid : proc'[w] = proc[w] \/ proc'[w] = Orphaned(w)
      BY <2>1
    <3>2. \A w \in Pid : Orphaned(w).pc \notin SignalPC
      BY <2>2 DEF IInv, Undisturbed, SignalPC
    <3> QED
      BY <2>1, <2>2, <2>3, <3>1, <3>2
      DEF IInv, TypeInv, TypeOK, Undisturbed, TestRuns, Running
  <2> QED
    BY <2>4, <2>5, <1>q
<1>4. CASE SlaveLosesDB(s)
  <2>1. /\ sl' = [sl EXCEPT ![s] = Restarted(s)]
        /\ UNCHANGED <<locks, nextLock, proc, children, dead>>
    BY <1>4 DEF SlaveLosesDB, Keeps, dbVars
  <2> QED
    BY <2>1, <1>r, <1>q, QuietSlave
<1>5. CASE ReplyLost(s)
  <2>1. /\ sl' = [sl EXCEPT ![s] = Restarted(s)] /\ UNCHANGED <<proc, children, dead>>
    BY <1>5 DEF ReplyLost, Keeps
  <2>2. CASE sl[s].pc = "insert" /\ InsertLock(sl[s].port, Host[s])
    <3>1. sl[s].port \in Port /\ Host[s] \in Machine
      BY <2>2, <1>t, HostAssumption DEF IInv, TypeInv, SlaveControl, SlaveState
    <3>2. Restarted(s).pc \in Ordinary
      BY <1>r DEF Ordinary
    <3> QED
      BY <2>1, <2>2, <3>1, <3>2, <1>r, AddLock
  <2>3. CASE sl[s].pc = "unlock" /\ DeleteLock(sl[s].lock) /\ UNCHANGED nextLock
    <3>1. PICK c \in dead[s] : c.lock = sl[s].lock
      BY <2>3 DEF IInv, CorpsesApart
    <3> QED
      BY <2>1, <2>3, <3>1, <1>r, DropLock
  <2> QED
    BY <1>5, <2>2, <2>3 DEF ReplyLost
<1> QED
  BY <1>1, <1>2, <1>3, <1>4, <1>5 DEF SlaveFault

-----------------------------------------------------------------------------
(* The steps of machines and operators.                                    *)

LEMMA RebootApart ==
    ASSUME IInv, NEW m \in Machine, Reboot(m)
    PROVE  Apart' /\ Undisturbed'
<1>1. /\ UNCHANGED <<locks, nextLock>>
      /\ \A s \in Slave : \/ /\ sl'[s] = sl[s] /\ children'[s] = children[s]
                             /\ dead'[s] = dead[s]
                          \/ sl'[s] = At("off") /\ children'[s] = {} /\ dead'[s] = {}
      /\ \A w \in Pid : proc'[w] = proc[w] \/ proc'[w] = NoProc
  BY DEF Reboot, dbVars
<1>2. At("off").pc = "off" /\ ~ At("off").term /\ At("off").back = "main" /\ At("off").child = None
  BY DEF At
<1>3. /\ NoProc.pc = "free" /\ ~ NoProc.int /\ ~ NoProc.tint /\ NoProc.tpc = "none"
  BY DEF NoProc
<1>4. Quiet
  BY <1>1, <1>2, <1>3 DEF Quiet, IInv, CorpsesApart, Active
<1>5. Undisturbed'
  BY <1>1, <1>2, <1>3 DEF IInv, Undisturbed, TestRuns, SignalPC
<1> QED
  BY <1>4, <1>5, QuietKeepsApart, RebootType DEF IInv, Apart

LEMMA AdminApart ==
    ASSUME IInv, AdminResetLog \/ AdminResetStatus
    PROVE  Apart' /\ Undisturbed'
<1>1. UNCHANGED <<locks, nextLock, proc, sl, children, dead>>
  BY DEF AdminResetLog, AdminResetStatus, workerVars, slaveVars
<1>2. Quiet /\ Undisturbed'
  BY <1>1 DEF Quiet, IInv, TypeInv, TypeOK, CorpsesApart, Active, Undisturbed, TestRuns
<1> QED
  BY <1>2, QuietKeepsApart, AdminType DEF IInv, Apart

-----------------------------------------------------------------------------

LEMMA InitIInv == Init => IInv
<1> SUFFICES ASSUME Init PROVE IInv
  OBVIOUS
<1>1. /\ locks = {} /\ nextLock = 1
      /\ \A w \in Pid : /\ proc[w].pc = "free" /\ proc[w].tpc = "none"
                        /\ ~ proc[w].int /\ ~ proc[w].tint
      /\ \A s \in Slave : /\ sl[s].pc = "off" /\ ~ sl[s].term /\ sl[s].back = "main" /\ sl[s].child = None
                          /\ children[s] = {} /\ dead[s] = {}
  BY DEF Init, DBInit, WorkerInit, NoProc, At
<1>2. TypeInv
  BY InitType
<1>3. Undisturbed /\ LocksKeyed /\ WorkersHoldLocks
  BY <1>1 DEF Undisturbed, LocksKeyed, WorkersHoldLocks, Active, TestRuns, SignalPC
<1>4. ClaimsApart /\ CorpsesApart /\ ChildrenKnown
  BY <1>1 DEF ClaimsApart, CorpsesApart, ChildrenKnown
<1> QED
  BY <1>2, <1>3, <1>4 DEF IInv

LEMMA NextIInv ==
    ASSUME NoKillers
    PROVE  IInv /\ [Next]_vars => IInv'
<1> SUFFICES ASSUME IInv, [Next]_vars PROVE IInv'
  OBVIOUS
<1>t. TypeInv'
  BY NextType DEF IInv
<1>1. CASE UNCHANGED vars
  <2>1. UNCHANGED <<locks, nextLock, proc, sl, children, dead>>
    BY <1>1 DEF vars, dbVars, workerVars, slaveVars
  <2> QED
    BY <2>1, <1>t
    DEF IInv, Undisturbed, LocksKeyed, WorkersHoldLocks, ClaimsApart, CorpsesApart,
        ChildrenKnown, Active, TestRuns
<1>2. ASSUME NEW s \in Slave, MainStep(s) \/ Reap(s) \/ SlaveFault(s)
      PROVE  IInv'
  BY <1>t, <1>2, MainStepApart, ReapApart, SlaveFaultApart DEF IInv, Apart
<1>3. ASSUME NEW w \in Pid, ProcStep(w)
      PROVE  IInv'
  BY <1>3, ProcStepKeeps
<1>4. ASSUME NEW m \in Machine, Reboot(m)
      PROVE  IInv'
  BY <1>t, <1>4, RebootApart DEF IInv, Apart
<1>5. CASE AdminResetLog \/ AdminResetStatus
  BY <1>t, <1>5, AdminApart DEF IInv, Apart
<1>6. ~ AdminUnlock
  BY DEF AdminUnlock, Disturb, NoKillers
<1> QED
  BY <1>1, <1>2, <1>3, <1>4, <1>5, <1>6 DEF Next

LEMMA IInvExcludes == IInv => BuildExclusion
<1> SUFFICES ASSUME IInv, NEW v \in Pid, NEW w \in Pid, v # w, Busy(v), Busy(w)
             PROVE  PortOf(v) # PortOf(w)
  BY DEF BuildExclusion
<1>1. Active(v) /\ Active(w)
  BY DEF IInv, Undisturbed, Busy, Active
<1>2. /\ proc[v].lock \in locks /\ proc[w].lock \in locks
      /\ proc[v].lock.id # proc[w].lock.id
  BY <1>1 DEF IInv, WorkersHoldLocks
<1> QED
  BY <1>2 DEF IInv, LocksKeyed, PortOf

\* The invariant behind the exclusion: without SIGTERM and without
\* delete_lock.cgi every worker, claim and corpse has a lock of its own.
THEOREM LocksApart ==
    ASSUME NoKillers
    PROVE  Spec => []IInv
BY InitIInv, NextIInv, PTL DEF Spec

\* No port is ever tested twice at the same time, for any number of machines,
\* supervisors, ports and jobs, if nobody sends SIGTERM or deletes a lock.
THEOREM Exclusion ==
    ASSUME NoKillers
    PROVE  Spec => []BuildExclusion
BY LocksApart, IInvExcludes, PTL

=============================================================================
