-------------------------- MODULE MagusKids_proofs --------------------------
(***************************************************************************)
(* What a supervisor knows of its children, whatever happens to either:    *)
(* %Children and %WorkerIDs, the sweep of kill_children, and the locks of  *)
(* supervisors that nothing kills.                                         *)
(***************************************************************************)
EXTENDS MagusSlave_proofs, FiniteSetTheorems

-----------------------------------------------------------------------------
(* Steps of the processes below the supervisors.                           *)

\* Such a step hands on what identifies the worker, as long as it lives, and takes
\* no lock: a kill_children of its own may delete some.
Same(w) ==
    /\ locks' \subseteq locks /\ UNCHANGED nextLock
    /\ \A v \in Pid : v # w => proc'[v] = proc[v]
    /\ proc'[w].pc # "free" =>
          /\ proc[w].pc # "free"
          /\ proc'[w].slave = proc[w].slave
          /\ proc'[w].lock = proc[w].lock
          /\ proc'[w].wid = proc[w].wid

LEMMA ExitSame ==
    ASSUME TypeInv, NEW w \in Pid, NEW code, Exit(w, code), proc[w].pc # "free",
           UNCHANGED <<locks, nextLock>>
    PROVE  Same(w)
<1>t. proc \in [Pid -> Proc] /\ proc[w] \in Proc
  BY DEF TypeInv, TypeOK, WorkerTypeOK
<1>1. CASE proc[w].slave = None
  <2>1. proc' = [proc EXCEPT ![w] = Reaped(w)] /\ Reaped(w).pc = "free"
    BY <1>1, <1>t DEF Exit, Reaped, NoProc, Proc
  <2> QED
    BY <2>1, <1>t DEF Same
<1>2. CASE proc[w].slave # None
  <2> DEFINE r == [proc[w] EXCEPT !.pc = "zombie", !.code = code, !.int = FALSE, !.todo = {},
                                  !.sweep = {}, !.hand = None]
  <2>1. proc' = [proc EXCEPT ![w] = r]
    BY <1>2 DEF Exit
  <2>2. r.slave = proc[w].slave /\ r.lock = proc[w].lock /\ r.wid = proc[w].wid
    BY <1>t DEF Proc
  <2> HIDE DEF r
  <2> QED
    BY <2>1, <2>2, <1>t DEF Same
<1> QED
  BY <1>1, <1>2

LEMMA TestExitSame ==
    ASSUME TypeInv, NEW w \in Pid, TestExit(w), UNCHANGED <<locks, nextLock>>
    PROVE  Same(w)
BY DEF Same, TestExit, NoProc, TypeInv, TypeOK, WorkerTypeOK, Proc

LEMMA InheritedSame ==
    ASSUME TypeInv, NEW w \in Pid, Inherited(w), UNCHANGED <<locks, nextLock>>
    PROVE  Same(w)
<1>1. \E pc \in {"spin", "search"} : proc' = [proc EXCEPT ![w].pc = pc, ![w].int = FALSE]
  BY DEF Inherited
<1> QED
  BY <1>1 DEF Inherited, Same, TypeInv, TypeOK, WorkerTypeOK, Proc

LEMMA WorkerStepSame ==
    ASSUME TypeInv, NEW w \in Pid, WorkerStep(w)
    PROVE  Same(w)
<1>t. proc \in [Pid -> Proc] /\ proc[w] \in Proc
  BY DEF TypeInv, TypeOK, WorkerTypeOK
<1>1. CASE Begin(w)
  BY <1>1, <1>t DEF Begin, Goto, Same, Proc, dbVars
<1>2. CASE Inject(w)
  BY <1>2, <1>t DEF Inject, Same, Proc, dbVars
<1>3. CASE ForkTest(w) \/ Await(w)
  BY <1>3, <1>t DEF ForkTest, Await, Goto, Same, Proc, dbVars
<1>4. CASE Collect(w)
  BY <1>4, <1>t DEF Collect, Same, Proc, dbVars
<1>5. CASE Upload(w)
  BY <1>5, <1>t DEF Upload, Goto, Same, Proc
<1>6. CASE Finish(w) \/ Leave(w) \/ IntResetStatus(w) \/ KidQuit(w)
  BY <1>6, ExitSame DEF Finish, Leave, IntResetStatus, KidQuit, dbVars
<1>7. CASE WorkerInt(w)
  <2>1. CASE proc' = [proc EXCEPT ![w].pc = "intwait", ![w].int = FALSE]
    BY <1>7, <2>1, <1>t DEF WorkerInt, Same, Proc, dbVars
  <2>2. CASE proc[w].pc # "wait" /\ Exit(w, 0)
    BY <1>7, <2>2, ExitSame DEF WorkerInt, dbVars
  <2>3. CASE Inherited(w)
    BY <1>7, <2>3, InheritedSame DEF WorkerInt, dbVars
  <2> QED
    BY <1>7, <2>1, <2>2, <2>3 DEF WorkerInt
<1>8. CASE IntCollect(w) \/ IntResetLog(w) \/ Internal(w)
  BY <1>8, <1>t DEF IntCollect, IntResetLog, Internal, Goto, Same, Proc, dbVars
<1>9. CASE KidSearch(w) \/ KidResetLog(w) \/ KidResetStatus(w)
  BY <1>9, <1>t DEF KidSearch, KidResetLog, KidResetStatus, Goto, Same, Proc, dbVars
<1>10. CASE KidUnlock(w)
  BY <1>10, <1>t DEF KidUnlock, DeleteLock, Same, Proc
<1> QED
  BY <1>1, <1>2, <1>3, <1>4, <1>5, <1>6, <1>7, <1>8, <1>9, <1>10 DEF WorkerStep

LEMMA TestStepSame ==
    ASSUME TypeInv, NEW w \in Pid, TestStep(w)
    PROVE  Same(w)
<1>t. proc \in [Pid -> Proc] /\ proc[w] \in Proc
  BY DEF TypeInv, TypeOK, WorkerTypeOK
<1>1. CASE Build(w)
  BY <1>1, <1>t DEF Build, Same, Proc, dbVars
<1>2. CASE InsertStatus(w)
  <2>1. CASE TestExit(w)
    BY <1>2, <2>1, TestExitSame DEF InsertStatus
  <2>2. CASE TestGoto(w, "log")
    BY <1>2, <2>2, <1>t DEF InsertStatus, TestGoto, Same, Proc
  <2> QED
    BY <1>2, <2>1, <2>2 DEF InsertStatus
<1>3. CASE InsertLog(w)
  BY <1>3, TestExitSame DEF InsertLog
<1>4. CASE TestInt(w)
  <2>1. CASE TestExit(w)
    BY <1>4, <2>1, TestExitSame DEF TestInt, dbVars
  <2>2. CASE ~ TestExit(w)
    BY <1>4, <2>2, <1>t DEF TestInt, Same, Proc, dbVars
  <2> QED
    BY <2>1, <2>2
<1> QED
  BY <1>1, <1>2, <1>3, <1>4 DEF TestStep

LEMMA WorkerFaultSame ==
    ASSUME TypeInv, NEW w \in Pid, WorkerFault(w)
    PROVE  Same(w)
<1>t. proc \in [Pid -> Proc] /\ proc[w] \in Proc
  BY DEF TypeInv, TypeOK, WorkerTypeOK
<1>1. CASE WorkerThrows(w) \/ TestKilled(w)
  BY <1>1, <1>t DEF WorkerThrows, TestKilled, Same, Proc, dbVars
<1>2. CASE WorkerLosesDB(w) \/ WorkerTerm(w) \/ KidLosesDB(w)
  BY <1>2, ExitSame, InheritedSame DEF WorkerLosesDB, WorkerTerm, KidLosesDB, dbVars
<1>3. CASE TestThrows(w) \/ TestLosesDB(w)
  BY <1>3, TestExitSame DEF TestThrows, TestLosesDB, dbVars
<1> QED
  BY <1>1, <1>2, <1>3 DEF WorkerFault

LEMMA ProcStepSame ==
    ASSUME TypeInv, NEW w \in Pid, ProcStep(w)
    PROVE  Same(w) /\ UNCHANGED <<sl, children, dead, ids, admin>>
BY WorkerStepSame, TestStepSame, WorkerFaultSame DEF ProcStep, slaveVars

-----------------------------------------------------------------------------
(* The chroot numbers.                                                     *)

\* A claim is for the machine of the supervisor ...
ClaimsAtHome ==
    \A s \in Slave : sl[s].pc = "claimed" => sl[s].lock.machine = Host[s]

\* ... and so is a worker, whose number is not free while it has a supervisor.
WorkersAtHome ==
    \A w \in Pid : Active(w) /\ proc[w].slave # None =>
        /\ proc[w].wid \in WorkerId
        /\ proc[w].wid \notin ids[proc[w].slave]
        /\ proc[w].lock.machine = Host[proc[w].slave]

\* No two workers of a supervisor have the same number.
NumbersApart ==
    \A v, w \in Pid :
        /\ Active(v) /\ Active(w) /\ v # w
        /\ proc[v].slave = proc[w].slave /\ proc[v].slave # None
        => proc[v].wid # proc[w].wid

\* An entry of %Children has a number that is not free, that of its worker.
Entry(s, c) ==
    /\ c.wid \notin ids[s]
    /\ Active(c.pid) => proc[c.pid].slave = s /\ proc[c.pid].wid = c.wid

EntriesTrue ==
    \A s \in Slave :
        /\ \A c \in children[s] :
              Entry(s, c) /\ \A d \in children[s] : c # d => c.wid # d.wid
        /\ sl[s].child # None =>
              Entry(s, sl[s].child) /\ \A c \in children[s] : c.wid # sl[s].child.wid

Numbered == ClaimsAtHome /\ WorkersAtHome /\ NumbersApart /\ EntriesTrue

\* Nothing is left of what s had.
Cleared(s) ==
    /\ children'[s] = {} /\ sl'[s].child = None
    /\ \A w \in Pid : Active(w)' => proc'[w].slave # s

\* What a step does that neither forks, nor registers, nor collects a child.
NoNewKin ==
    /\ \A w \in Pid : Active(w)' =>
          /\ Active(w)
          /\ proc'[w].lock = proc[w].lock /\ proc'[w].wid = proc[w].wid
          /\ \/ proc'[w].slave = proc[w].slave
             \/ proc'[w].slave = None /\ Cleared(proc[w].slave)
    /\ \A s \in Slave :
          /\ children'[s] \subseteq children[s]
          /\ sl'[s].child \in {None, sl[s].child}
          /\ ids'[s] \subseteq ids[s] \/ Cleared(s)
          /\ sl'[s].pc = "claimed" =>
                \/ sl'[s].lock.machine = Host[s]
                \/ sl[s].pc = "claimed" /\ sl'[s].lock = sl[s].lock

LEMMA NoNewKinKeeps ==
    ASSUME TypeInv, TypeInv', Numbered, NoNewKin
    PROVE  Numbered'
<1>1. ClaimsAtHome'
  BY DEF Numbered, ClaimsAtHome, NoNewKin
<1>2. WorkersAtHome'
  <2> SUFFICES ASSUME NEW w \in Pid, Active(w)', proc'[w].slave # None
               PROVE  /\ proc'[w].wid \in WorkerId
                      /\ proc'[w].wid \notin ids'[proc'[w].slave]
                      /\ proc'[w].lock.machine = Host[proc'[w].slave]
    BY DEF WorkersAtHome
  <2>1. Active(w) /\ proc'[w].slave = proc[w].slave /\ proc'[w].slave \in Slave
    BY DEF NoNewKin, TypeInv, TypeOK, WorkerTypeOK, Proc
  <2>2. ids'[proc[w].slave] \subseteq ids[proc[w].slave]
    BY <2>1 DEF NoNewKin, Cleared
  <2> QED
    BY <2>1, <2>2 DEF NoNewKin, Numbered, WorkersAtHome
<1>3. NumbersApart'
  BY DEF Numbered, NumbersApart, NoNewKin
<1>4. ASSUME NEW s \in Slave, NEW c, c \in children'[s] \/ (c = sl'[s].child /\ c # None)
      PROVE  /\ c \in children[s] \/ (c = sl[s].child /\ c # None)
             /\ Entry(s, c)'
  <2>1. c \in children[s] \/ (c = sl[s].child /\ c # None)
    BY <1>4 DEF NoNewKin
  <2>2. c \in Child /\ c.pid \in Pid
    BY <2>1 DEF TypeInv, TypeOK, SlaveState, Child
  <2>3. Entry(s, c)
    BY <2>1 DEF Numbered, EntriesTrue
  <2>4. ~ Cleared(s)
    BY <1>4 DEF Cleared
  <2>5. c.wid \notin ids'[s]
    BY <2>3, <2>4 DEF NoNewKin, Entry
  <2>6. ASSUME Active(c.pid)'
        PROVE  proc'[c.pid].slave = s /\ proc'[c.pid].wid = c.wid
    BY <2>2, <2>3, <2>4, <2>6 DEF NoNewKin, Entry
  <2> QED
    BY <2>1, <2>5, <2>6 DEF Entry, Active
<1>5. EntriesTrue'
  <2> SUFFICES ASSUME NEW s \in Slave
               PROVE  /\ \A c \in children'[s] :
                            Entry(s, c)' /\ \A d \in children'[s] : c # d => c.wid # d.wid
                      /\ sl'[s].child # None =>
                            Entry(s, sl[s].child)' /\ \A c \in children'[s] : c.wid # sl'[s].child.wid
    BY DEF EntriesTrue
  <2>1. \A c \in children'[s] :
            Entry(s, c)' /\ \A d \in children'[s] : c # d => c.wid # d.wid
    BY <1>4 DEF Numbered, EntriesTrue, NoNewKin
  <2>2. ASSUME sl'[s].child # None
        PROVE  Entry(s, sl[s].child)' /\ \A c \in children'[s] : c.wid # sl'[s].child.wid
    <3>1. sl'[s].child = sl[s].child
      BY <2>2 DEF NoNewKin
    <3>2. Entry(s, sl[s].child)'
      BY <1>4, <2>2, <3>1 DEF Entry, Active
    <3> QED
      BY <2>2, <3>1, <3>2 DEF Numbered, EntriesTrue, NoNewKin
  <2> QED
    BY <2>1, <2>2
<1> QED
  BY <1>1, <1>2, <1>3, <1>5 DEF Numbered

\* The processes below the supervisors.
LEMMA ProcStepNumbered ==
    ASSUME TypeInv, Numbered, NEW w \in Pid, ProcStep(w)
    PROVE  Numbered'
<1>1. NoNewKin
  BY ProcStepSame DEF NoNewKin, Same, Active
<1> QED
  BY <1>1, NoNewKinKeeps, ProcStepType

\* Supervisors whose only change is in their own record.
LEMMA OwnRecord ==
    ASSUME TypeInv, NEW s \in Slave, NEW r, sl' = [sl EXCEPT ![s] = r],
           UNCHANGED <<proc, children>>, \A t \in Slave : ids'[t] \subseteq ids[t],
           r.child \in {None, sl[s].child}, r.pc # "claimed" \/ r.lock.machine = Host[s]
    PROVE  NoNewKin
BY DEF TypeInv, TypeOK, NoNewKin, Active

MovingStep(s) ==
    \/ Start(s) \/ Main(s) \/ ResetLog(s) \/ ResetStatus(s) \/ Unlock(s)
    \/ Fill(s) \/ Select(s) \/ Insert(s) \/ Nap(s) \/ NoWorkerId(s) \/ Sleep(s)
    \/ Search(s) \/ Sweep(s) \/ ForkFails(s) \/ SlaveLosesDB(s) \/ ReplyLost(s)

\* What those steps make of the record of the supervisor.
LEMMA MovingRecord ==
    ASSUME TypeInv, NEW s \in Slave, MovingStep(s)
    PROVE  /\ UNCHANGED <<proc, children>>
           /\ \A t \in Slave : ids'[t] \subseteq ids[t]
           /\ \E r : /\ sl' = [sl EXCEPT ![s] = r]
                     /\ r.child \in {None, sl[s].child}
                     /\ r.pc = "claimed" => r.lock.machine = Host[s]
<1>t. sl \in [Slave -> SlaveState] /\ sl[s] \in SlaveState /\ ids \in [Slave -> SUBSET WorkerId]
  BY DEF TypeInv, TypeOK
<1> DEFINE R == \E r : /\ sl' = [sl EXCEPT ![s] = r]
                       /\ r.child \in {None, sl[s].child}
                       /\ r.pc = "claimed" => r.lock.machine = Host[s]
<1>1. ASSUME NEW from, NEW to, Step(s, from, to), to # "claimed"
      PROVE  R
  <2> WITNESS [sl[s] EXCEPT !.pc = to]
  <2> QED
    BY <1>1, <1>t DEF Step, SlaveState
<1>2. CASE Start(s) \/ ResetLog(s) \/ ResetStatus(s) \/ Nap(s) \/ Sleep(s)
  BY <1>1, <1>2 DEF Start, ResetLog, ResetStatus, Nap, Sleep, Keeps, workerVars
<1>3. CASE Main(s)
  <2>1. CASE dead[s] = {}
    <3>1. R
      <4> WITNESS [sl[s] EXCEPT !.pc = "fill"]
      <4> QED
        BY <1>3, <2>1, <1>t DEF Main, SlaveState
    <3> QED
      BY <1>3, <3>1 DEF Main, Keeps, workerVars
  <2>2. CASE dead[s] # {}
    <3>1. PICK c \in dead[s] :
             sl' = [sl EXCEPT ![s].lock = c.lock,
                              ![s].pc = IF c.code = 6 THEN "resetlog" ELSE "unlock"]
      BY <1>3, <2>2 DEF Main
    <3>2. R
      <4> WITNESS [sl[s] EXCEPT !.lock = c.lock,
                                !.pc = IF c.code = 6 THEN "resetlog" ELSE "unlock"]
      <4> QED
        BY <3>1, <1>t DEF SlaveState
    <3> QED
      BY <1>3, <3>2 DEF Main, Keeps, workerVars
  <2> QED
    BY <2>1, <2>2
<1>4. CASE Unlock(s)
  <2>1. R
    <3> WITNESS [sl[s] EXCEPT !.lock = None, !.todo = @ \ {sl[s].lock},
                              !.pc = IF sl[s].term THEN "sweep" ELSE "main"]
    <3> QED
      BY <1>4, <1>t DEF Unlock, SlaveState
  <2> QED
    BY <1>4, <2>1 DEF Unlock, workerVars
<1>5. CASE Fill(s)
  <2>1. R
    <3> WITNESS [sl[s] EXCEPT !.pc = IF Cardinality(children[s]) < Jobs THEN "select" ELSE "full"]
    <3> QED
      BY <1>5, <1>t DEF Fill, SlaveState
  <2> QED
    BY <1>5, <2>1 DEF Fill, Keeps, workerVars
<1>6. CASE Select(s)
  <2>1. R
    <3>1. CASE \E p \in ReadyPorts : sl' = [sl EXCEPT ![s].port = p, ![s].pc = "insert"]
      <4>1. PICK p \in ReadyPorts : sl' = [sl EXCEPT ![s].port = p, ![s].pc = "insert"]
        BY <3>1
      <4> WITNESS [sl[s] EXCEPT !.port = p, !.pc = "insert"]
      <4> QED
        BY <4>1, <1>t DEF SlaveState
    <3>2. CASE sl' = [sl EXCEPT ![s].pc = "nap"]
      <4> WITNESS [sl[s] EXCEPT !.pc = "nap"]
      <4> QED
        BY <3>2, <1>t DEF SlaveState
    <3> QED
      BY <1>6, <3>1, <3>2 DEF Select
  <2> QED
    BY <1>6, <2>1 DEF Select, Keeps, workerVars
<1>7. CASE Insert(s)
  <2> DEFINE p == sl[s].port
  <2>1. R
    <3>1. CASE Duplicate(p)
      <4> WITNESS [sl[s] EXCEPT !.port = None, !.pc = "select"]
      <4> QED
        BY <1>7, <3>1, <1>t DEF Insert, SlaveState
    <3>2. CASE ~ Duplicate(p)
      <4> WITNESS [sl[s] EXCEPT !.port = None, !.pc = "claimed", !.lock = NewLock(p, Host[s])]
      <4> QED
        BY <1>7, <3>2, <1>t DEF Insert, SlaveState, NewLock
    <3> QED
      BY <3>1, <3>2
  <2> QED
    BY <1>7, <2>1 DEF Insert, Keeps, workerVars
<1>8. CASE NoWorkerId(s) \/ ForkFails(s)
  <2>1. R
    <3> WITNESS [sl[s] EXCEPT !.lock = None, !.pc = "fill"]
    <3> QED
      BY <1>8, <1>t DEF NoWorkerId, ForkFails, SlaveState
  <2> QED
    BY <1>8, <1>t, <2>1 DEF NoWorkerId, ForkFails, Keeps, workerVars
<1>9. CASE Search(s)
  <2>1. R
    <3> WITNESS [sl[s] EXCEPT !.pc = "sweep", !.todo = MachineLocks(Host[s])]
    <3> QED
      BY <1>9, <1>t DEF Search, SlaveState
  <2> QED
    BY <1>9, <2>1 DEF Search, Keeps, workerVars
<1>10. CASE Sweep(s)
  <2>1. PICK l \in sl[s].todo : sl' = [sl EXCEPT ![s].pc = "resetlog", ![s].lock = l]
    BY <1>10 DEF Sweep
  <2>2. R
    <3> WITNESS [sl[s] EXCEPT !.pc = "resetlog", !.lock = l]
    <3> QED
      BY <2>1, <1>t DEF SlaveState
  <2> QED
    BY <1>10, <2>2 DEF Sweep, Keeps, workerVars
<1>11. CASE SlaveLosesDB(s) \/ ReplyLost(s)
  <2>1. R
    <3>1. Restarted(s).child = None /\ Restarted(s).pc \in {"main", "fill"}
      BY <1>t DEF Restarted, At, SlaveState
    <3> WITNESS Restarted(s)
    <3> QED
      BY <3>1, <1>11 DEF SlaveLosesDB, ReplyLost
  <2> QED
    BY <1>11, <2>1 DEF SlaveLosesDB, ReplyLost, Keeps
<1> QED
  BY <1>2, <1>3, <1>4, <1>5, <1>6, <1>7, <1>8, <1>9, <1>10, <1>11 DEF MovingStep

LEMMA MovingNumbered ==
    ASSUME TypeInv, TypeInv', Numbered, NEW s \in Slave, MovingStep(s)
    PROVE  Numbered'
<1>1. PICK r : /\ sl' = [sl EXCEPT ![s] = r]
               /\ r.child \in {None, sl[s].child}
               /\ r.pc = "claimed" => r.lock.machine = Host[s]
  BY MovingRecord
<1>2. UNCHANGED <<proc, children>> /\ \A t \in Slave : ids'[t] \subseteq ids[t]
  BY MovingRecord
<1>3. NoNewKin
  BY <1>1, <1>2, OwnRecord
<1> QED
  BY <1>3, NoNewKinKeeps

\* A fork takes a number that is free, and a pid that nobody refers to.
LEMMA ForkWorkerNumbered ==
    ASSUME TypeInv, Numbered, NEW s \in Slave, ForkWorker(s)
    PROVE  Numbered'
<1>t. /\ proc \in [Pid -> Proc] /\ sl \in [Slave -> SlaveState]
      /\ ids \in [Slave -> SUBSET WorkerId] /\ children \in [Slave -> SUBSET Child]
      /\ sl[s] \in SlaveState
  BY DEF TypeInv, TypeOK, WorkerTypeOK
<1>1. PICK i \in ids[s], w \in FreePids :
          /\ ids' = [ids EXCEPT ![s] = @ \ {i}]
          /\ proc' = [proc EXCEPT ![w] = NewProc(s, sl[s].lock, i, children[s] # {})]
          /\ sl' = [sl EXCEPT ![s].pc = "forked", ![s].lock = None,
                              ![s].child = [pid |-> w, lock |-> sl[s].lock, wid |-> i]]
  BY DEF ForkWorker
<1>2. /\ w \in Pid /\ ~ Active(w)
      /\ \A t \in Slave : /\ \A c \in children[t] : c.pid # w
                          /\ sl[t].child # None => sl[t].child.pid # w
  BY <1>1 DEF FreePids, Registered, Unregistered, Active, NoProc
<1>3. /\ proc'[w].pc = "start" /\ proc'[w].slave = s /\ proc'[w].wid = i
      /\ proc'[w].lock = sl[s].lock
      /\ \A v \in Pid : v # w => proc'[v] = proc[v]
  BY <1>1, <1>2, <1>t DEF NewProc, NoProc
<1>4. /\ ids'[s] = ids[s] \ {i}
      /\ \A t \in Slave : t # s => ids'[t] = ids[t] /\ sl'[t] = sl[t]
      /\ UNCHANGED children
  BY <1>1, <1>t DEF ForkWorker
<1>5. /\ sl'[s].pc = "forked" /\ sl'[s].child.pid = w /\ sl'[s].child.wid = i
      /\ sl[s].lock.machine = Host[s]
  BY <1>1, <1>t DEF SlaveState, ForkWorker, Numbered, ClaimsAtHome
<1>6. ClaimsAtHome'
  BY <1>4, <1>5 DEF Numbered, ClaimsAtHome
<1>7. WorkersAtHome'
  BY <1>t, <1>1, <1>3, <1>4, <1>5 DEF Numbered, WorkersAtHome, Active
<1>8. NumbersApart'
  BY <1>1, <1>3 DEF Numbered, NumbersApart, WorkersAtHome, Active
<1>9. ASSUME NEW t \in Slave, NEW c \in Child, c.pid # w, Entry(t, c)
      PROVE  Entry(t, c)'
  BY <1>9, <1>3, <1>4 DEF Entry, Active, Child
<1>10. EntriesTrue'
  <2>1. ASSUME NEW t \in Slave, NEW c \in children[t]
        PROVE  Entry(t, c)' /\ c.wid \notin ids[t]
    BY <1>2, <1>9, <1>t DEF Numbered, EntriesTrue, Entry
  <2>2. ASSUME NEW t \in Slave, t # s, sl[t].child # None
        PROVE  Entry(t, sl[t].child)' /\ \A c \in children[t] : c.wid # sl[t].child.wid
    <3>1. sl[t].child \in Child
      BY <2>2, <1>t DEF SlaveState
    <3>2. Entry(t, sl[t].child)
      BY <2>2 DEF Numbered, EntriesTrue
    <3>3. sl'[t] = sl[t]
      BY <1>4, <2>2
    <3> QED
      BY <2>2, <3>1, <3>2, <3>3, <1>2, <1>9 DEF Numbered, EntriesTrue, Entry, Active
  <2>3. Entry(s, sl[s].child)'
    BY <1>3, <1>4, <1>5 DEF Entry, Active
  <2>4. \A c \in children[s] : c.wid # sl'[s].child.wid
    BY <1>1, <1>5, <2>1
  <2> QED
    BY <1>4, <2>1, <2>2, <2>3, <2>4 DEF Numbered, EntriesTrue
<1> QED
  BY <1>6, <1>7, <1>8, <1>10 DEF Numbered

LEMMA RegisterNumbered ==
    ASSUME TypeInv, Numbered, NEW s \in Slave, Register(s)
    PROVE  Numbered'
<1>t. /\ sl \in [Slave -> SlaveState] /\ children \in [Slave -> SUBSET Child]
      /\ sl[s] \in SlaveState /\ sl[s].child # None
  BY DEF TypeInv, TypeOK, Register, SlaveControl
<1>1. /\ UNCHANGED <<proc, ids>>
      /\ children'[s] = children[s] \cup {sl[s].child}
      /\ sl'[s].pc = "fill" /\ sl'[s].child = None
      /\ \A t \in Slave : t # s => children'[t] = children[t] /\ sl'[t] = sl[t]
  BY <1>t DEF Register, workerVars, SlaveState
<1>2. ClaimsAtHome' /\ WorkersAtHome' /\ NumbersApart'
  BY <1>1 DEF Numbered, ClaimsAtHome, WorkersAtHome, NumbersApart, Active
<1>3. EntriesTrue'
  BY <1>1, <1>t DEF Numbered, EntriesTrue, Entry, Active
<1> QED
  BY <1>2, <1>3 DEF Numbered

\* Only the numbers of the children that are dead become free.
LEMMA ReapNumbered ==
    ASSUME TypeInv, Numbered, NEW s \in Slave, Reap(s)
    PROVE  Numbered'
<1>t. /\ proc \in [Pid -> Proc] /\ sl \in [Slave -> SlaveState]
      /\ ids \in [Slave -> SUBSET WorkerId] /\ children \in [Slave -> SUBSET Child]
      /\ sl[s] \in SlaveState
  BY DEF TypeInv, TypeOK, WorkerTypeOK
<1>1. PICK R \in SUBSET Zombies(s) :
         LET Known == {c \in children[s] : c.pid \in R} IN
         /\ children' = [children EXCEPT ![s] = @ \ Known]
         /\ ids' = [ids EXCEPT ![s] = @ \cup {c.wid : c \in Known}]
         /\ proc' = [w \in Pid |-> IF w \in R THEN Reaped(w) ELSE proc[w]]
  BY DEF Reap
<1> DEFINE Known == {c \in children[s] : c.pid \in R}
<1>2. /\ children'[s] = children[s] \ Known
      /\ ids'[s] = ids[s] \cup {c.wid : c \in Known}
      /\ \A t \in Slave : t # s => children'[t] = children[t] /\ ids'[t] = ids[t]
  BY <1>1, <1>t
<1>3. \A w \in Pid : Active(w)' => w \notin R /\ Active(w) /\ proc'[w] = proc[w]
  <2>1. \A w \in Pid : Reaped(w).pc = "free"
    BY <1>t DEF Reaped, NoProc, Proc
  <2> QED
    BY <1>1, <2>1 DEF Active
<1>4. \A t \in Slave : /\ sl'[t].child = sl[t].child
                       /\ sl'[t].lock = sl[t].lock
                       /\ sl'[t].pc = "claimed" => sl[t].pc = "claimed"
  BY <1>t DEF Reap, SlaveState
<1>5. \A c \in Known : /\ c \in children[s] /\ c.pid \in R /\ c.pid \in Pid /\ Active(c.pid)
                       /\ proc[c.pid].slave = s /\ proc[c.pid].wid = c.wid
  BY <1>1, <1>t DEF Zombies, Active, Numbered, EntriesTrue, Entry
<1>6. ClaimsAtHome'
  BY <1>4 DEF Numbered, ClaimsAtHome
<1>7. WorkersAtHome'
  <2> SUFFICES ASSUME NEW w \in Pid, Active(w)', proc'[w].slave # None
               PROVE  /\ proc'[w].wid \in WorkerId
                      /\ proc'[w].wid \notin ids'[proc'[w].slave]
                      /\ proc'[w].lock.machine = Host[proc'[w].slave]
    BY DEF WorkersAtHome
  <2>1. Active(w) /\ w \notin R /\ proc'[w] = proc[w] /\ proc[w].slave \in Slave
    BY <1>3, <1>t DEF Proc
  <2>2. \A c \in Known : proc[w].slave = s => proc[w].wid # c.wid
    BY <2>1, <1>5 DEF Numbered, NumbersApart
  <2> HIDE DEF Known
  <2> QED
    BY <2>1, <2>2, <1>2 DEF Numbered, WorkersAtHome
<1>8. NumbersApart'
  BY <1>3 DEF Numbered, NumbersApart
<1>9. ASSUME NEW t \in Slave, NEW c \in Child, Entry(t, c),
             t = s => \A d \in Known : c.wid # d.wid
      PROVE  Entry(t, c)'
  <2> HIDE DEF Known
  <2>1. c.wid \notin ids'[t]
    BY <1>9, <1>2 DEF Entry
  <2>2. Active(c.pid)' => proc'[c.pid].slave = t /\ proc'[c.pid].wid = c.wid
    BY <1>9, <1>3 DEF Entry, Child
  <2> QED
    BY <2>1, <2>2 DEF Entry, Active
<1>10. EntriesTrue'
  <2>1. ASSUME NEW t \in Slave, NEW c \in children'[t]
        PROVE  c \in children[t] /\ Entry(t, c)'
    <3>1. c \in children[t] /\ c \in Child /\ (t = s => c \notin Known)
      BY <1>2, <2>1, <1>t
    <3>2. t = s => \A d \in Known : c.wid # d.wid
      BY <3>1 DEF Numbered, EntriesTrue
    <3> QED
      BY <3>1, <3>2, <1>9 DEF Numbered, EntriesTrue
  <2>2. ASSUME NEW t \in Slave, sl[t].child # None
        PROVE  Entry(t, sl[t].child)'
    <3>1. sl[t].child \in Child
      BY <2>2, <1>t DEF SlaveState
    <3> QED
      BY <2>2, <3>1, <1>4, <1>9 DEF Numbered, EntriesTrue, Entry, Active
  <2> QED
    BY <2>1, <2>2, <1>4 DEF Numbered, EntriesTrue
<1> QED
  BY <1>6, <1>7, <1>8, <1>10 DEF Numbered

\* The signals of kill_children change nothing but what is pending.
LEMMA TermKin ==
    ASSUME TypeInv, NEW s \in Slave, Term(s)
    PROVE  /\ \A w \in Pid : /\ proc'[w].pc = proc[w].pc
                             /\ proc'[w].slave = proc[w].slave
                             /\ proc'[w].lock = proc[w].lock
                             /\ proc'[w].wid = proc[w].wid
           /\ UNCHANGED <<children, ids>>
           /\ \A t \in Slave : t # s => sl'[t] = sl[t]
           /\ sl'[s].pc = IF children[s] = {} THEN "search" ELSE "kill"
           /\ sl'[s].child = sl[s].child /\ sl'[s].term = TRUE
<1>t. proc \in [Pid -> Proc] /\ sl \in [Slave -> SlaveState]
  BY DEF TypeInv, TypeOK, WorkerTypeOK
<1>1. ASSUME NEW w \in Pid
      PROVE  /\ proc'[w].pc = proc[w].pc
             /\ proc'[w].slave = proc[w].slave
             /\ proc'[w].lock = proc[w].lock
             /\ proc'[w].wid = proc[w].wid
  <2>1. proc[w] \in Proc
    BY <1>t
  <2>2. CASE children[s] = {}
    BY <2>2 DEF Term
  <2>3. CASE children[s] # {}
    <3>1. proc'[w] = IF proc[w].slave # s THEN proc[w]
                     ELSE [proc[w] EXCEPT !.int = @ \/ proc[w].pc \notin {"free", "zombie"},
                                          !.tint = @ \/ TestRuns(w)]
      BY <2>3 DEF Term
    <3> QED
      BY <2>1, <3>1 DEF Proc
  <2> QED
    BY <2>2, <2>3
<1> QED
  BY <1>1, <1>t DEF Term, At

LEMMA TermNumbered ==
    ASSUME TypeInv, TypeInv', Numbered, NEW s \in Slave, Term(s)
    PROVE  Numbered'
<1>1. NoNewKin
  BY TermKin DEF NoNewKin, Active
<1> QED
  BY <1>1, NoNewKinKeeps

LEMMA KillWaitNumbered ==
    ASSUME TypeInv, TypeInv', Numbered, NEW s \in Slave, KillWait(s)
    PROVE  Numbered'
<1>t. proc \in [Pid -> Proc] /\ sl \in [Slave -> SlaveState] /\ sl[s] \in SlaveState
  BY DEF TypeInv, TypeOK, WorkerTypeOK
<1>1. PICK w \in Zombies(s) : proc' = [proc EXCEPT ![w] = Reaped(w)]
  BY DEF KillWait
<1>2. w \in Pid /\ Reaped(w).pc = "free"
  BY <1>t, <1>1 DEF Zombies, Reaped, NoProc, Proc
<1>3. NoNewKin
  BY <1>1, <1>2, <1>t DEF KillWait, Keeps, Step, NoNewKin, Active, SlaveState
<1> QED
  BY <1>3, NoNewKinKeeps

\* A supervisor that ends leaves orphans behind, and no entry.
LEMMA EndsKin ==
    ASSUME TypeInv, NEW s \in Slave, Ends(s),
           proc' = [w \in Pid |-> IF proc[w].slave = s THEN Orphaned(w) ELSE proc[w]]
    PROVE  NoNewKin
<1>t. /\ proc \in [Pid -> Proc] /\ sl \in [Slave -> SlaveState]
      /\ children \in [Slave -> SUBSET Child] /\ ids \in [Slave -> SUBSET WorkerId]
  BY DEF TypeInv, TypeOK, WorkerTypeOK
<1>1. ASSUME NEW w \in Pid, proc'[w].pc # "free"
      PROVE  /\ proc[w].pc # "free"
             /\ proc'[w].lock = proc[w].lock /\ proc'[w].wid = proc[w].wid
             /\ proc'[w].slave = IF proc[w].slave = s THEN None ELSE proc[w].slave
  <2>1. proc[w] \in Proc
    BY <1>t
  <2>2. CASE proc[w].slave = s
    BY <1>1, <2>1, <2>2 DEF Orphaned, NoProc, Proc
  <2>3. CASE proc[w].slave # s
    BY <1>1, <2>3
  <2> QED
    BY <2>2, <2>3
<1>2. /\ children'[s] = {} /\ sl'[s].pc = "off" /\ sl'[s].child = None
      /\ \A t \in Slave : t # s => children'[t] = children[t] /\ sl'[t] = sl[t] /\ ids'[t] = ids[t]
  BY <1>t DEF Ends, At
<1>3. Cleared(s)
  BY <1>1, <1>2, NoneAssumption DEF Cleared, Active
<1>4. ASSUME NEW w \in Pid, Active(w)'
      PROVE  /\ Active(w)
             /\ proc'[w].lock = proc[w].lock /\ proc'[w].wid = proc[w].wid
             /\ \/ proc'[w].slave = proc[w].slave
                \/ proc'[w].slave = None /\ Cleared(proc[w].slave)
  BY <1>1, <1>2, <1>4, NoneAssumption DEF Active, Cleared
<1>5. ASSUME NEW t \in Slave
      PROVE  /\ children'[t] \subseteq children[t]
             /\ sl'[t].child \in {None, sl[t].child}
             /\ ids'[t] \subseteq ids[t] \/ Cleared(t)
             /\ sl'[t].pc = "claimed" => sl[t].pc = "claimed" /\ sl'[t].lock = sl[t].lock
  BY <1>2, <1>3
<1> QED
  BY <1>4, <1>5 DEF NoNewKin

LEMMA RebootKin ==
    ASSUME TypeInv, Numbered, NEW m \in Machine, Reboot(m)
    PROVE  NoNewKin
<1>t. /\ proc \in [Pid -> Proc] /\ sl \in [Slave -> SlaveState]
      /\ children \in [Slave -> SUBSET Child] /\ ids \in [Slave -> SUBSET WorkerId]
  BY DEF TypeInv, TypeOK, WorkerTypeOK
<1>1. ASSUME NEW w \in Pid, proc'[w].pc # "free"
      PROVE  /\ proc[w].pc # "free" /\ proc'[w] = proc[w]
             /\ proc[w].slave # None => Host[proc[w].slave] # m
  BY <1>1 DEF Reboot, NoProc, TypeInv, WorkerControl, Active, Numbered, WorkersAtHome
<1>2. ASSUME NEW s \in Slave, Host[s] = m
      PROVE  /\ Cleared(s) /\ sl'[s].pc = "off"
  <2>1. /\ children'[s] = {} /\ sl'[s].pc = "off" /\ sl'[s].child = None
    BY <1>2, <1>t DEF Reboot, At
  <2> QED
    BY <1>1, <1>2, <2>1, NoneAssumption DEF Cleared, Active
<1>3. ASSUME NEW s \in Slave, Host[s] # m
      PROVE  children'[s] = children[s] /\ sl'[s] = sl[s] /\ ids'[s] = ids[s]
  BY <1>3, <1>t DEF Reboot
<1> QED
  BY <1>1, <1>2, <1>3 DEF NoNewKin, Active, Cleared

LEMMA InitNumbered == Init => Numbered
BY DEF Init, WorkerInit, At, NoProc, Numbered, ClaimsAtHome, WorkersAtHome, NumbersApart,
       EntriesTrue, Active

LEMMA NextNumbered == TypeInv /\ Numbered /\ [Next]_vars => Numbered'
<1> SUFFICES ASSUME TypeInv, Numbered, [Next]_vars PROVE Numbered'
  OBVIOUS
<1>t. TypeInv'
  BY NextType
<1>1. CASE UNCHANGED vars
  BY <1>1
  DEF vars, workerVars, slaveVars, Numbered, ClaimsAtHome, WorkersAtHome, NumbersApart,
      EntriesTrue, Entry, Active
<1>2. ASSUME NEW s \in Slave, MainStep(s) \/ Reap(s) \/ SlaveFault(s)
      PROVE  Numbered'
  <2>1. CASE MovingStep(s)
    BY <2>1, <1>t, MovingNumbered
  <2>2. CASE ForkWorker(s) \/ Register(s) \/ Reap(s)
    BY <2>2, ForkWorkerNumbered, RegisterNumbered, ReapNumbered
  <2>3. CASE Term(s) \/ KillWait(s)
    BY <2>3, <1>t, TermNumbered, KillWaitNumbered
  <2>4. CASE Quit(s) \/ Die(s)
    BY <2>4, <1>t, EndsKin, NoNewKinKeeps DEF Quit, Die
  <2> QED
    BY <1>2, <2>1, <2>2, <2>3, <2>4 DEF MainStep, SlaveFault, MovingStep
<1>3. ASSUME NEW w \in Pid, ProcStep(w)
      PROVE  Numbered'
  BY <1>3, ProcStepNumbered
<1>4. ASSUME NEW m \in Machine, Reboot(m)
      PROVE  Numbered'
  BY <1>4, <1>t, RebootKin, NoNewKinKeeps
<1>5. CASE AdminResetLog \/ AdminResetStatus \/ AdminUnlock
  <2>1. UNCHANGED <<proc, sl, children, ids>>
    BY <1>5 DEF AdminResetLog, AdminResetStatus, AdminUnlock, workerVars, slaveVars
  <2> QED
    BY <2>1
    DEF Numbered, ClaimsAtHome, WorkersAtHome, NumbersApart, EntriesTrue, Entry, Active
<1> QED
  BY <1>1, <1>2, <1>3, <1>4, <1>5 DEF Next

\* Type correctness, as the runs check it.
THEOREM Typed == Spec => []TypeOK
<1>1. TypeInv => TypeOK
  BY DEF TypeInv
<1> QED
  BY <1>1, TypeCorrect, PTL

\* The chroot numbers that start_child takes and the handler of SIGCHLD gives
\* back, for every set of faults: a number is never free while a child has it.
THEOREM NumbersHold == Spec => []Numbered
<1>1. TypeInv /\ Numbered /\ [Next]_vars => TypeInv' /\ Numbered'
  BY NextType, NextNumbered
<1> QED
  BY <1>1, InitType, InitNumbered, PTL DEF Spec

\* A worker id is free, or in the entry of one child in %Children, whatever
\* happens to the supervisors and their workers.
THEOREM WorkerIds == Spec => []WorkerIdsApart
<1>1. Numbered => WorkerIdsApart
  BY DEF Numbered, EntriesTrue, Entry, WorkerIdsApart
<1> QED
  BY <1>1, NumbersHold, PTL

-----------------------------------------------------------------------------
(* kill_children.                                                          *)

\* What kill_children does once it has waited.
Giving == {"search", "sweep", "resetlog", "resetstatus", "unlock"}

\* Where a supervisor can be inside the handler of SIGTERM, and where only there.
TermControl ==
    \A s \in Slave :
        /\ sl[s].pc \in {"kill", "search", "sweep"} => sl[s].term
        /\ sl[s].term => sl[s].pc \in Giving \cup {"kill"}

\* The sweep has in its list whatever lock its machine still has.
LocksSwept ==
    \A s \in Slave : sl[s].term /\ sl[s].pc \in Giving \ {"search"} =>
        MachineLocks(Host[s]) \subseteq sl[s].todo

SlaveStep(s) == MainStep(s) \/ Reap(s) \/ SlaveFault(s)

\* A step of a supervisor leaves the memory of the others alone.
LEMMA SlaveFrame ==
    ASSUME TypeInv, NEW s \in Slave, SlaveStep(s), NEW t \in Slave, t # s
    PROVE  /\ sl'[t] = sl[t] /\ children'[t] = children[t]
           /\ dead'[t] = dead[t] /\ ids'[t] = ids[t]
<1>t. /\ sl \in [Slave -> SlaveState] /\ children \in [Slave -> SUBSET Child]
      /\ dead \in [Slave -> SUBSET Corpse] /\ ids \in [Slave -> SUBSET WorkerId]
  BY DEF TypeInv, TypeOK
<1>1. CASE MainStep(s)
  BY <1>1, <1>t
  DEF MainStep, Start, Main, ResetLog, ResetStatus, Unlock, Fill, Select, Insert, Nap,
      ForkWorker, NoWorkerId, Register, Sleep, KillWait, Search, Sweep, Quit, Ends, Keeps, Step
<1>2. CASE Reap(s)
  BY <1>2, <1>t DEF Reap
<1>3. CASE SlaveFault(s)
  BY <1>3, <1>t DEF SlaveFault, ForkFails, Term, Die, SlaveLosesDB, ReplyLost, Ends, Keeps
<1> QED
  BY <1>1, <1>2, <1>3 DEF SlaveStep

\* How a supervisor gets into kill_children, and on inside it.
LEMMA TermMoves ==
    ASSUME TypeInv, TermControl, NEW s \in Slave, SlaveStep(s)
    PROVE  /\ sl'[s].pc \in {"kill", "search", "sweep"} => sl'[s].term
           /\ sl'[s].term => sl'[s].pc \in Giving \cup {"kill"}
           /\ sl'[s].term => Term(s) \/ KillWait(s) \/ (sl[s].term /\ sl[s].pc \in Giving)
           /\ sl'[s].term /\ sl'[s].pc \in Giving \ {"search"} =>
                 \/ Search(s)
                 \/ /\ sl[s].term /\ sl[s].pc \in Giving \ {"search"}
                    /\ \/ sl'[s].todo = sl[s].todo
                       \/ Unlock(s) /\ sl'[s].todo = sl[s].todo \ {sl[s].lock}
<1>t. sl \in [Slave -> SlaveState] /\ sl[s] \in SlaveState
  BY DEF TypeInv, TypeOK
<1>c. /\ sl[s].pc \in {"kill", "search", "sweep"} => sl[s].term
      /\ sl[s].term => sl[s].pc \in Giving \cup {"kill"}
  BY DEF TermControl
<1> USE <1>t, <1>c DEF SlaveState, Giving
<1>1. CASE Start(s) \/ Nap(s) \/ Sleep(s)
  BY <1>1 DEF Start, Nap, Sleep, Step
<1>13. CASE Main(s)
  <2>1. ~ sl[s].term
    BY <1>13 DEF Main
  <2>2. CASE sl' = [sl EXCEPT ![s].pc = "fill"]
    BY <2>1, <2>2
  <2>3. CASE \E c \in dead[s] :
               sl' = [sl EXCEPT ![s].lock = c.lock,
                                ![s].pc = IF c.code = 6 THEN "resetlog" ELSE "unlock"]
    <3>1. sl'[s].pc \in {"resetlog", "unlock"} /\ sl'[s].term = sl[s].term
      BY <2>3
    <3> QED
      BY <2>1, <3>1
  <2> QED
    BY <1>13, <2>2, <2>3 DEF Main
<1>2. CASE ResetLog(s) \/ ResetStatus(s)
  BY <1>2 DEF ResetLog, ResetStatus, Step
<1>3. CASE Unlock(s)
  BY <1>3 DEF Unlock
<1>4. CASE Fill(s) \/ Select(s)
  <2>1. ~ sl[s].term
    BY <1>4 DEF Fill, Select
  <2>2. sl'[s].pc \in {"select", "full", "insert", "nap"} /\ sl'[s].term = sl[s].term
    <3>1. CASE Fill(s)
      <4> DEFINE to == IF Cardinality(children[s]) < Jobs THEN "select" ELSE "full"
      <4>1. sl' = [sl EXCEPT ![s].pc = to]
        BY <3>1 DEF Fill
      <4>2. to \in {"select", "full"}
        OBVIOUS
      <4> HIDE DEF to
      <4> QED
        BY <4>1, <4>2
    <3>2. CASE Select(s)
      <4>1. CASE \E p \in ReadyPorts : sl' = [sl EXCEPT ![s].port = p, ![s].pc = "insert"]
        BY <4>1
      <4>2. CASE sl' = [sl EXCEPT ![s].pc = "nap"]
        BY <4>2
      <4> QED
        BY <3>2, <4>1, <4>2 DEF Select
    <3> QED
      BY <1>4, <3>1, <3>2
  <2> QED
    BY <2>1, <2>2
<1>14. CASE Insert(s) \/ NoWorkerId(s)
  BY <1>14 DEF Insert, NoWorkerId
<1>5. CASE ForkWorker(s) \/ Register(s)
  BY <1>5 DEF ForkWorker, Register
<1>6. CASE KillWait(s)
  BY <1>6 DEF KillWait, Step
<1>7. CASE Search(s) \/ Sweep(s)
  BY <1>7 DEF Search, Sweep
<1>8. CASE Quit(s) \/ Die(s)
  BY <1>8 DEF Quit, Die, Ends, At
<1>9. CASE Reap(s)
  BY <1>9 DEF Reap, HandlesChld
<1>10. CASE ForkFails(s)
  BY <1>10 DEF ForkFails
<1>11. CASE Term(s)
  BY <1>11, TermKin
<1>12. CASE SlaveLosesDB(s) \/ ReplyLost(s)
  BY <1>12 DEF SlaveLosesDB, ReplyLost, Restarted, At
<1> QED
  BY <1>1, <1>2, <1>3, <1>4, <1>5, <1>6, <1>7, <1>8, <1>9, <1>10, <1>11, <1>12, <1>13, <1>14
  DEF SlaveStep, MainStep, SlaveFault

\* What a step of a supervisor adds to table locks.
LEMMA SlaveLocks ==
    ASSUME TypeInv, NEW s \in Slave, SlaveStep(s), NEW k \in locks', k \notin locks
    PROVE  k.machine = Host[s] /\ sl[s].pc = "insert"
<1>1. CASE Insert(s) \/ ReplyLost(s)
  BY <1>1 DEF Insert, ReplyLost, InsertLock, NewLock, DeleteLock
<1>2. CASE Unlock(s)
  BY <1>2 DEF Unlock, DeleteLock
<1>3. CASE ~ (Insert(s) \/ ReplyLost(s) \/ Unlock(s))
  <2>1. UNCHANGED locks
    BY <1>3
    DEF SlaveStep, MainStep, SlaveFault, Start, Main, ResetLog, ResetStatus, Fill, Select,
        Nap, ForkWorker, NoWorkerId, Register, Sleep, KillWait, Search, Sweep, Quit, Reap,
        ForkFails, Term, Die, SlaveLosesDB, dbVars
  <2> QED
    BY <2>1
<1> QED
  BY <1>1, <1>2, <1>3

LEMMA NextTermControl == TypeInv /\ TermControl /\ [Next]_vars => TermControl'
<1> SUFFICES ASSUME TypeInv, TermControl, [Next]_vars PROVE TermControl'
  OBVIOUS
<1>1. ASSUME NEW s \in Slave, SlaveStep(s)
      PROVE  TermControl'
  BY <1>1, TermMoves, SlaveFrame DEF TermControl
<1>2. ASSUME NEW w \in Pid, ProcStep(w)
      PROVE  TermControl'
  BY <1>2, ProcStepSame DEF TermControl
<1>3. ASSUME NEW m \in Machine, Reboot(m)
      PROVE  TermControl'
  BY <1>3 DEF Reboot, At, TermControl
<1>4. CASE AdminResetLog \/ AdminResetStatus \/ AdminUnlock \/ UNCHANGED vars
  BY <1>4 DEF AdminResetLog, AdminResetStatus, AdminUnlock, vars, slaveVars, TermControl
<1> QED
  BY <1>1, <1>2, <1>3, <1>4 DEF Next, SlaveStep

\* With one supervisor per machine, the list of the sweep is complete.
OneSlaveEach == \A s, t \in Slave : Host[s] = Host[t] => s = t

LEMMA NextLocksSwept ==
    OneSlaveEach /\ TypeInv /\ TermControl /\ LocksSwept /\ [Next]_vars => LocksSwept'
<1> SUFFICES ASSUME OneSlaveEach, TypeInv, TermControl, LocksSwept, [Next]_vars
             PROVE  LocksSwept'
  OBVIOUS
<1>1. ASSUME NEW s \in Slave, SlaveStep(s)
      PROVE  LocksSwept'
  <2> SUFFICES ASSUME NEW t \in Slave, sl'[t].term, sl'[t].pc \in Giving \ {"search"},
                      NEW k \in locks', k.machine = Host[t]
               PROVE  k \in sl'[t].todo
    BY DEF LocksSwept, MachineLocks
  <2>1. CASE t # s
    <3>1. sl'[t] = sl[t] /\ k \in locks
      BY <1>1, <2>1, SlaveFrame, SlaveLocks DEF OneSlaveEach
    <3> QED
      BY <3>1 DEF LocksSwept, MachineLocks
  <2>2. CASE t = s /\ Search(s)
    <3>1. sl'[s].todo = MachineLocks(Host[s]) /\ locks' = locks
      BY <2>2 DEF Search, TypeInv, TypeOK, SlaveState, dbVars
    <3> QED
      BY <2>2, <3>1 DEF MachineLocks
  <2>3. CASE t = s /\ sl[s].term /\ sl[s].pc \in Giving \ {"search"}
    <3>1. k \in locks
      BY <1>1, <2>3, SlaveLocks DEF Giving
    <3>2. k \in sl[s].todo
      BY <2>3, <3>1 DEF LocksSwept, MachineLocks
    <3>3. CASE sl'[s].todo = sl[s].todo
      BY <2>3, <3>2, <3>3
    <3>4. CASE Unlock(s) /\ sl'[s].todo = sl[s].todo \ {sl[s].lock}
      BY <2>3, <3>2, <3>4 DEF Unlock, DeleteLock
    <3>5. CASE Search(s)
      BY <2>2, <2>3, <3>5
    <3> QED
      BY <1>1, <2>3, <3>3, <3>4, <3>5, TermMoves
  <2> QED
    BY <1>1, <2>1, <2>2, <2>3, TermMoves
<1>2. ASSUME NEW w \in Pid, ProcStep(w)
      PROVE  LocksSwept'
  BY <1>2, ProcStepSame DEF LocksSwept, Same, MachineLocks
<1>3. ASSUME NEW m \in Machine, Reboot(m)
      PROVE  LocksSwept'
  BY <1>3 DEF Reboot, At, LocksSwept, MachineLocks, dbVars
<1>4. CASE AdminResetLog \/ AdminResetStatus \/ AdminUnlock \/ UNCHANGED vars
  BY <1>4
  DEF AdminResetLog, AdminResetStatus, AdminUnlock, vars, dbVars, slaveVars, LocksSwept,
      MachineLocks, DeleteLock
<1> QED
  BY <1>1, <1>2, <1>3, <1>4 DEF Next, SlaveStep

LEMMA InitTerm == Init => TermControl /\ LocksSwept
BY DEF Init, At, TermControl, LocksSwept, Giving

LEMMA Terminating == Spec => [](TypeInv /\ TermControl)
<1>1. TypeInv /\ TermControl /\ [Next]_vars => TypeInv' /\ TermControl'
  BY NextType, NextTermControl
<1> QED
  BY <1>1, InitType, InitTerm, PTL DEF Spec

\* A supervisor that ends by itself (exit after kill_children) leaves no lock
\* of its machine in the table, whatever happened to it before, as long as it
\* is the only one of its machine.
THEOREM QuitsClean ==
    ASSUME OneSlaveEach
    PROVE  Spec => QuitLeavesNoLock
<1>1. TypeInv /\ TermControl /\ LocksSwept /\ [Next]_vars => LocksSwept'
  BY NextLocksSwept
<1>2. TypeInv /\ TermControl /\ LocksSwept =>
          [\A s \in Slave : Quit(s) => MachineLocks(Host[s]) = {}]_vars
  <2> SUFFICES ASSUME TermControl, LocksSwept, NEW s \in Slave, Quit(s)
               PROVE  MachineLocks(Host[s]) = {}
    OBVIOUS
  <2>1. sl[s].pc = "sweep" /\ sl[s].term /\ sl[s].todo = {}
    BY DEF Quit, TermControl
  <2> QED
    BY <2>1 DEF LocksSwept, Giving
<1> QED
  BY <1>1, <1>2, InitTerm, Terminating, PTL DEF Spec, QuitLeavesNoLock

-----------------------------------------------------------------------------
(* The locks of supervisors that nothing kills.                            *)

\* No supervisor is killed, or loses the lock it has just got.
Gentle == Faults \cap {"fork", "term", "die", "reboot", "reply"} = {}

\* A lock in the hands of a supervisor that is not in kill_children.
Hands(s, l) ==
    \/ sl[s].pc = "claimed" /\ sl[s].lock = l
    \/ sl[s].pc = "forked" /\ sl[s].child.lock = l
    \/ \E c \in children[s] \cup dead[s] : c.lock = l

\* Some number is not that of a registered child.
Room(s) == \E i \in WorkerId : \A c \in children[s] : c.wid # i

\* Such a supervisor has an unfinished list of corpses, an account of all its
\* numbers, and a number left whenever it is about to claim a port.
OwnAccount(s) ==
    /\ ~ sl[s].term /\ sl[s].pc \notin {"kill", "search", "sweep"}
    /\ sl[s].pc \in {"resetlog", "resetstatus", "unlock"} =>
          \E c \in dead[s] : c.lock = sl[s].lock
    /\ \A i \in WorkerId :
          \/ i \in ids[s]
          \/ \E c \in children[s] : c.wid = i
          \/ sl[s].pc = "forked" /\ sl[s].child.wid = i
    /\ IsFiniteSet(children[s])
    /\ sl[s].pc \in {"select", "insert", "claimed"} => Room(s)

HandInv ==
    /\ \A s \in Slave : OwnAccount(s)
    /\ \A l \in locks : \E s \in Slave : Host[s] = l.machine /\ Hands(s, l)

\* What a step of s has to do to keep that.
HandsOn(s) ==
    /\ OwnAccount(s)'
    /\ \A l \in locks' : IF l \in locks THEN Hands(s, l) => Hands(s, l)'
                         ELSE Host[s] = l.machine /\ Hands(s, l)'

\* What the test while ($Children < $opts{j}) is worth: Children and %Children
\* have as many entries, each with a number of its own.
LEMMA RoomLeft ==
    ASSUME TypeInv, NEW s \in Slave, IsFiniteSet(children[s]), Cardinality(children[s]) < Jobs
    PROVE  Room(s)
<1> SUFFICES ASSUME ~ Room(s) PROVE FALSE
  OBVIOUS
<1> DEFINE f == [c \in children[s] |-> c.wid]
<1>1. \A i \in WorkerId : \E c \in children[s] : c.wid = i
  BY DEF Room
<1>2. \A c \in children[s] : c.wid \in WorkerId
  BY DEF TypeInv, TypeOK, Child
<1>3. f \in [children[s] -> WorkerId] /\ \A i \in WorkerId : \E c \in children[s] : f[c] = i
  BY <1>1, <1>2
<1> HIDE DEF f
<1>4. f \in Surjection(children[s], WorkerId)
  BY <1>3 DEF Surjection
<1>5. IsFiniteSet(WorkerId) /\ Cardinality(WorkerId) <= Cardinality(children[s])
  BY <1>4, FS_Surjection
<1>6. Cardinality(WorkerId) \in Nat /\ Cardinality(children[s]) \in Nat
  BY <1>5, FS_CardinalityType
<1> QED
  BY <1>5, <1>6 DEF Jobs

\* Steps between two that have to do with a lock.
LEMMA IdleHandsOn ==
    ASSUME NEW s \in Slave, OwnAccount(s), UNCHANGED <<locks, children, dead, ids>>,
           sl[s].pc \notin {"claimed", "forked"},
           sl'[s].pc \notin {"claimed", "forked", "kill", "search", "sweep"},
           ~ sl'[s].term,
           sl'[s].pc \in {"resetlog", "resetstatus", "unlock"} =>
              \E c \in dead[s] : c.lock = sl'[s].lock,
           sl'[s].pc \in {"select", "insert"} => Room(s)
    PROVE  HandsOn(s)
<1>1. OwnAccount(s)'
  BY DEF OwnAccount, Room
<1>2. \A l \in locks' : l \in locks /\ (Hands(s, l) => Hands(s, l)')
  BY DEF Hands
<1> QED
  BY <1>1, <1>2 DEF HandsOn

LEMMA MainHandsOn ==
    ASSUME TypeInv, NEW s \in Slave, OwnAccount(s), MainStep(s)
    PROVE  HandsOn(s)
<1>t. /\ sl \in [Slave -> SlaveState] /\ sl[s] \in SlaveState
      /\ children \in [Slave -> SUBSET Child] /\ dead \in [Slave -> SUBSET Corpse]
      /\ ids \in [Slave -> SUBSET WorkerId]
  BY DEF TypeInv, TypeOK
<1>a. ~ sl[s].term /\ sl[s].pc \notin {"kill", "search", "sweep"}
  BY DEF OwnAccount
<1>1. CASE Start(s) \/ Nap(s) \/ Sleep(s)
  BY <1>1, <1>t, <1>a, IdleHandsOn DEF Start, Nap, Sleep, Step, Keeps, SlaveState, dbVars
<1>2. CASE Main(s)
  <2>0. UNCHANGED <<locks, children, dead, ids>> /\ sl[s].pc = "main"
    BY <1>2 DEF Main, Keeps, dbVars
  <2>1. CASE dead[s] = {}
    BY <1>2, <1>t, <1>a, <2>0, <2>1, IdleHandsOn DEF Main, SlaveState
  <2>2. CASE dead[s] # {}
    <3>1. PICK c \in dead[s] :
             sl' = [sl EXCEPT ![s].lock = c.lock,
                              ![s].pc = IF c.code = 6 THEN "resetlog" ELSE "unlock"]
      BY <1>2, <2>2 DEF Main
    <3>2. /\ sl'[s].pc \in {"resetlog", "unlock"} /\ sl'[s].lock = c.lock
          /\ sl'[s].term = sl[s].term
      BY <3>1, <1>t DEF SlaveState
    <3> QED
      BY <1>a, <2>0, <3>2, IdleHandsOn
  <2> QED
    BY <2>1, <2>2
<1>3. CASE ResetLog(s) \/ ResetStatus(s)
  <2>1. /\ UNCHANGED <<locks, children, dead, ids>>
        /\ sl[s].pc \in {"resetlog", "resetstatus"}
        /\ \E pc \in {"resetstatus", "unlock"} : sl' = [sl EXCEPT ![s].pc = pc]
    BY <1>3 DEF ResetLog, ResetStatus, Step, Keeps
  <2>2. /\ sl'[s].pc \in {"resetstatus", "unlock"}
        /\ sl'[s].term = sl[s].term /\ sl'[s].lock = sl[s].lock
    BY <1>t, <2>1 DEF SlaveState
  <2>3. \E c \in dead[s] : c.lock = sl'[s].lock
    BY <2>1, <2>2 DEF OwnAccount
  <2> QED
    BY <1>a, <2>1, <2>2, <2>3, IdleHandsOn
<1>4. CASE Unlock(s)
  <2>1. /\ sl'[s].pc = "main" /\ sl'[s].term = sl[s].term
        /\ dead'[s] = {c \in dead[s] : c.lock # sl[s].lock}
        /\ locks' = {k \in locks : k.id # sl[s].lock.id}
        /\ UNCHANGED <<children, ids>> /\ sl[s].pc = "unlock"
    BY <1>4, <1>t, <1>a DEF Unlock, DeleteLock, SlaveState
  <2>2. OwnAccount(s)'
    BY <1>a, <2>1 DEF OwnAccount
  <2>3. \A l \in locks' : l \in locks /\ (Hands(s, l) => Hands(s, l)')
    BY <2>1 DEF Hands
  <2> QED
    BY <2>2, <2>3 DEF HandsOn
<1>5. CASE Fill(s)
  <2> DEFINE to == IF Cardinality(children[s]) < Jobs THEN "select" ELSE "full"
  <2>1. sl' = [sl EXCEPT ![s].pc = to] /\ sl[s].pc = "fill"
        /\ UNCHANGED <<locks, children, dead, ids>>
    BY <1>5 DEF Fill, Keeps, dbVars
  <2>2. to \in {"select", "full"} /\ (to = "select" => Cardinality(children[s]) < Jobs)
    OBVIOUS
  <2> HIDE DEF to
  <2>3. to = "select" => Room(s)
    BY <2>2, RoomLeft DEF OwnAccount
  <2> QED
    BY <1>t, <1>a, <2>1, <2>2, <2>3, IdleHandsOn DEF SlaveState
<1>6. CASE Select(s)
  <2>0. /\ UNCHANGED <<locks, children, dead, ids>> /\ sl[s].pc = "select" /\ Room(s)
    BY <1>6 DEF Select, Keeps, dbVars, OwnAccount
  <2>1. sl'[s].pc \in {"insert", "nap"} /\ sl'[s].term = sl[s].term
    <3>1. CASE \E p \in ReadyPorts : sl' = [sl EXCEPT ![s].port = p, ![s].pc = "insert"]
      BY <3>1, <1>t DEF SlaveState
    <3>2. CASE sl' = [sl EXCEPT ![s].pc = "nap"]
      BY <3>2, <1>t DEF SlaveState
    <3> QED
      BY <1>6, <3>1, <3>2 DEF Select
  <2> QED
    BY <1>a, <2>0, <2>1, IdleHandsOn
<1>7. CASE Insert(s)
  <2>0. /\ UNCHANGED <<children, dead, ids>> /\ sl[s].pc = "insert" /\ Room(s)
    BY <1>7 DEF Insert, Keeps, OwnAccount
  <2>1. CASE Duplicate(sl[s].port)
    BY <1>7, <1>t, <1>a, <2>0, <2>1, IdleHandsOn DEF Insert, SlaveState
  <2>2. CASE ~ Duplicate(sl[s].port)
    <3> DEFINE l == NewLock(sl[s].port, Host[s])
    <3>1. locks' = locks \cup {l} /\ l.machine = Host[s]
      BY <1>7, <2>2 DEF Insert, InsertLock, NewLock
    <3> HIDE DEF l
    <3>2. sl'[s].pc = "claimed" /\ sl'[s].lock = l /\ sl'[s].term = sl[s].term
      BY <1>7, <2>2, <1>t DEF Insert, SlaveState, l
    <3>3. OwnAccount(s)'
      BY <1>a, <2>0, <3>2 DEF OwnAccount, Room
    <3> QED
      BY <2>0, <3>1, <3>2, <3>3 DEF HandsOn, Hands
  <2> QED
    BY <2>1, <2>2
<1>8. CASE ForkWorker(s)
  <2>1. PICK i \in ids[s], w \in FreePids :
          /\ ids' = [ids EXCEPT ![s] = @ \ {i}]
          /\ sl' = [sl EXCEPT ![s].pc = "forked", ![s].lock = None,
                              ![s].child = [pid |-> w, lock |-> sl[s].lock, wid |-> i]]
    BY <1>8 DEF ForkWorker
  <2>2. /\ sl'[s].pc = "forked" /\ sl'[s].child.lock = sl[s].lock /\ sl'[s].child.wid = i
        /\ sl'[s].term = sl[s].term /\ ids'[s] = ids[s] \ {i}
        /\ UNCHANGED <<locks, children, dead>> /\ sl[s].pc = "claimed"
    BY <1>8, <2>1, <1>t DEF ForkWorker, dbVars, SlaveState
  <2>3. OwnAccount(s)'
    BY <1>a, <2>2 DEF OwnAccount
  <2> QED
    BY <2>2, <2>3 DEF HandsOn, Hands
<1>9. CASE NoWorkerId(s)
  BY <1>9 DEF NoWorkerId, OwnAccount, Room
<1>10. CASE Register(s)
  <2>1. /\ sl'[s].pc = "fill" /\ sl'[s].term = sl[s].term /\ sl[s].pc = "forked"
        /\ children'[s] = children[s] \cup {sl[s].child}
        /\ UNCHANGED <<locks, dead, ids>>
    BY <1>10, <1>t DEF Register, dbVars, SlaveState
  <2>2. IsFiniteSet(children'[s])
    <3>1. IsFiniteSet(children[s])
      BY DEF OwnAccount
    <3>2. IsFiniteSet(children[s] \cup {sl[s].child})
      BY <3>1, FS_AddElement, Zenon
    <3> QED
      BY <2>1, <3>2
  <2>3. OwnAccount(s)'
    BY <1>a, <2>1, <2>2 DEF OwnAccount
  <2> QED
    BY <2>1, <2>3 DEF HandsOn, Hands
<1>11. CASE KillWait(s) \/ Search(s) \/ Sweep(s) \/ Quit(s)
  BY <1>11, <1>a DEF KillWait, Search, Sweep, Quit, Step
<1> QED
  BY <1>1, <1>2, <1>3, <1>4, <1>5, <1>6, <1>7, <1>8, <1>9, <1>10, <1>11 DEF MainStep

\* The handler of SIGCHLD moves entries, with their locks, to @DeadChildren.
LEMMA ReapHandsOn ==
    ASSUME TypeInv, NEW s \in Slave, OwnAccount(s), Reap(s)
    PROVE  HandsOn(s)
<1>t. /\ sl \in [Slave -> SlaveState] /\ sl[s] \in SlaveState
      /\ children \in [Slave -> SUBSET Child] /\ dead \in [Slave -> SUBSET Corpse]
      /\ ids \in [Slave -> SUBSET WorkerId]
  BY DEF TypeInv, TypeOK
<1>1. PICK R \in SUBSET Zombies(s) :
         LET Known == {c \in children[s] : c.pid \in R} IN
         /\ children' = [children EXCEPT ![s] = @ \ Known]
         /\ dead' = [dead EXCEPT ![s] =
                        @ \cup {[lock |-> c.lock, code |-> proc[c.pid].code] : c \in Known}]
         /\ ids' = [ids EXCEPT ![s] = @ \cup {c.wid : c \in Known}]
  BY DEF Reap
<1> DEFINE Known == {c \in children[s] : c.pid \in R}
           New == {[lock |-> c.lock, code |-> proc[c.pid].code] : c \in Known}
<1>2. /\ children'[s] = children[s] \ Known
      /\ dead'[s] = dead[s] \cup New
      /\ ids'[s] = ids[s] \cup {c.wid : c \in Known}
  BY <1>1, <1>t
<1>3. \A c \in Known : c.wid \in ids'[s] /\ \E d \in dead'[s] : d.lock = c.lock
  <2> TAKE c \in Known
  <2>1. [lock |-> c.lock, code |-> proc[c.pid].code] \in dead'[s]
    BY <1>2
  <2> QED
    BY <1>2, <2>1
<1>4. dead[s] \subseteq dead'[s] /\ ids[s] \subseteq ids'[s]
  BY <1>2
<1> HIDE DEF Known, New
<1>5. /\ locks' = locks
      /\ sl'[s].term = sl[s].term /\ sl'[s].lock = sl[s].lock /\ sl'[s].child = sl[s].child
      /\ sl'[s].pc = IF sl[s].pc \in {"asleep", "nap"} THEN "main" ELSE sl[s].pc
  BY <1>t DEF Reap, SlaveState, dbVars
<1>6. \A l \in locks : Hands(s, l) => Hands(s, l)'
  <2> SUFFICES ASSUME NEW l \in locks, Hands(s, l) PROVE Hands(s, l)'
    OBVIOUS
  <2>1. CASE \E c \in children[s] \cup dead[s] : c.lock = l
    BY <2>1, <1>2, <1>3, <1>4 DEF Hands
  <2>2. CASE sl[s].pc \in {"claimed", "forked"}
    BY <2>1, <2>2, <1>5 DEF Hands
  <2> QED
    BY <2>1, <2>2 DEF Hands
<1>7. IsFiniteSet(children'[s]) /\ (Room(s) => Room(s)')
  <2>1. children'[s] \in SUBSET children[s] /\ IsFiniteSet(children[s])
    BY <1>2 DEF OwnAccount
  <2>2. IsFiniteSet(children'[s])
    BY <2>1, FS_Subset
  <2> QED
    BY <2>1, <2>2 DEF Room
<1>8. \A i \in WorkerId :
          \/ i \in ids'[s]
          \/ \E c \in children'[s] : c.wid = i
          \/ sl'[s].pc = "forked" /\ sl'[s].child.wid = i
  BY <1>2, <1>3, <1>4, <1>5 DEF OwnAccount
<1>9. OwnAccount(s)'
  <2>1. ~ sl'[s].term /\ sl'[s].pc \notin {"kill", "search", "sweep"}
    BY <1>5 DEF OwnAccount
  <2>2. sl'[s].pc \in {"resetlog", "resetstatus", "unlock"} =>
            \E c \in dead'[s] : c.lock = sl'[s].lock
    BY <1>4, <1>5 DEF OwnAccount
  <2>3. sl'[s].pc \in {"select", "insert", "claimed"} => Room(s)'
    BY <1>5, <1>7 DEF OwnAccount
  <2> QED
    BY <1>7, <1>8, <2>1, <2>2, <2>3 DEF OwnAccount
<1> QED
  BY <1>5, <1>6, <1>9 DEF HandsOn

LEMMA GentleFault ==
    ASSUME Gentle, TypeInv, NEW s \in Slave, OwnAccount(s), SlaveFault(s)
    PROVE  HandsOn(s)
<1>1. SlaveLosesDB(s)
  BY DEF SlaveFault, Gentle, Disturb, ForkFails, Term, Die, ReplyLost
<1>2. /\ sl'[s].pc \in {"main", "fill"} /\ ~ sl'[s].term
      /\ UNCHANGED <<locks, children, dead, ids>>
      /\ sl[s].pc \notin {"claimed", "forked"}
  BY <1>1 DEF SlaveLosesDB, Restarted, At, SlaveState, Keeps, dbVars, TypeInv, TypeOK
<1> QED
  BY <1>2, IdleHandsOn

LEMMA NextHandInv == Gentle /\ TypeInv /\ HandInv /\ [Next]_vars => HandInv'
<1> SUFFICES ASSUME Gentle, TypeInv, HandInv, [Next]_vars PROVE HandInv'
  OBVIOUS
<1>1. ASSUME NEW s \in Slave, SlaveStep(s)
      PROVE  HandInv'
  <2>1. HandsOn(s)
    BY <1>1, MainHandsOn, ReapHandsOn, GentleFault DEF SlaveStep, HandInv
  <2>2. ASSUME NEW t \in Slave, t # s
        PROVE  OwnAccount(t)' /\ \A l \in locks : Hands(t, l) => Hands(t, l)'
    BY <1>1, <2>2, SlaveFrame DEF HandInv, OwnAccount, Hands, Room
  <2>3. \A t \in Slave : OwnAccount(t)'
    BY <2>1, <2>2 DEF HandsOn
  <2>4. \A l \in locks' : \E t \in Slave : Host[t] = l.machine /\ Hands(t, l)'
    BY <2>1, <2>2 DEF HandsOn, HandInv
  <2> QED
    BY <2>3, <2>4 DEF HandInv
<1>2. ASSUME UNCHANGED <<sl, children, dead, ids>>, locks' \subseteq locks
      PROVE  HandInv'
  BY <1>2 DEF HandInv, OwnAccount, Hands, Room
<1>3. ASSUME NEW w \in Pid, ProcStep(w)
      PROVE  HandInv'
  BY <1>2, <1>3, ProcStepSame DEF Same
<1>4. ASSUME NEW m \in Machine, Reboot(m)
      PROVE  HandInv'
  BY <1>4 DEF Reboot, Disturb, Gentle
<1>5. CASE AdminResetLog \/ AdminResetStatus \/ AdminUnlock \/ UNCHANGED vars
  BY <1>2, <1>5
  DEF AdminResetLog, AdminResetStatus, AdminUnlock, vars, dbVars, slaveVars, DeleteLock
<1> QED
  BY <1>1, <1>3, <1>4, <1>5 DEF Next, SlaveStep

LEMMA InitHandInv == Init => HandInv
<1> SUFFICES ASSUME Init PROVE HandInv
  OBVIOUS
<1>1. \A s \in Slave : OwnAccount(s)
  BY FS_EmptySet DEF Init, At, OwnAccount
<1> QED
  BY <1>1 DEF Init, DBInit, HandInv

\* Every row of table locks is in the memory of a supervisor of its machine, when no
\* supervisor is killed, no fork fails and no reply is lost: no exception makes main,
\* start_child, the handler of SIGCHLD or process_dead_children forget one, and there
\* is a worker id for every claim.  (An entry of %Children may outlive its process:
\* the lock is then remembered, but not given back.)
THEOREM LocksAreRemembered ==
    ASSUME Gentle
    PROVE  Spec => []LocksRemembered
<1>1. TypeInv /\ HandInv /\ [Next]_vars => HandInv'
  BY NextHandInv
<1>2. TypeInv /\ HandInv => LocksRemembered
  <2> SUFFICES ASSUME TypeInv, HandInv, NEW s \in Slave, NEW l \in locks, Hands(s, l)
               PROVE  Remembers(s, l)
    BY DEF HandInv, LocksRemembered
  <2> QED
    BY DEF Hands, Remembers, TypeInv, SlaveControl
<1> QED
  BY <1>1, <1>2, InitHandInv, TypeCorrect, PTL DEF Spec

=============================================================================
