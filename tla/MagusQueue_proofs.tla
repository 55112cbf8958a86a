-------------------------- MODULE MagusQueue_proofs --------------------------
(***************************************************************************)
(* What the slaves do to the ports they lock, when nobody is killed by a   *)
(* signal: chroots, packages and logs, and the slaves as an implementation *)
(* of module BuildQueue.  All of it rests on the invariant IInv of module  *)
(* MagusSlave: every worker, claim and corpse has a lock of its own.       *)
(***************************************************************************)
EXTENDS MagusExclusion_proofs, MagusKids_proofs

-----------------------------------------------------------------------------
(* The steps of a supervisor, by what they do to the tables.               *)

\* The worker goes on as it was, or is gone.
Kept(w) ==
    Active(w)' =>
        /\ Active(w)
        /\ proc'[w].pc = proc[w].pc /\ proc'[w].tpc = proc[w].tpc
        /\ proc'[w].lock = proc[w].lock /\ proc'[w].code = proc[w].code

\* A lock is deleted.
Drops(s) ==
    /\ sl[s].pc = "unlock" /\ sl'[s].pc = "main"
    /\ DeleteLock(sl[s].lock)
    /\ UNCHANGED <<status, logs, pkgs, proc>>
    /\ \/ dead'[s] = {c \in dead[s] : c.lock # sl[s].lock}
       \/ dead'[s] = dead[s] /\ "reply" \in Faults

\* A lock is inserted.
Adds(s) ==
    /\ sl[s].pc = "insert"
    /\ InsertLock(sl[s].port, Host[s])
    /\ \/ sl'[s].pc = "claimed" /\ sl'[s].lock = NewLock(sl[s].port, Host[s])
       \/ sl'[s].pc = "main"
    /\ UNCHANGED <<status, logs, pkgs, proc>> /\ dead'[s] = dead[s]

\* A corpse is taken up.
Buries(s) ==
    /\ \E c \in dead[s] :
          /\ sl'[s].lock = c.lock
          /\ sl'[s].pc = IF c.code = 6 THEN "resetlog" ELSE "unlock"
    /\ UNCHANGED <<status, locks, logs, pkgs, proc>> /\ dead'[s] = dead[s]

\* Its port is reset, in two steps.
ResetsLog(s) ==
    /\ sl[s].pc = "resetlog" /\ sl'[s].pc = "resetstatus" /\ sl'[s].lock = sl[s].lock
    /\ DeleteLog(sl[s].lock.port)
    /\ UNCHANGED <<status, locks, pkgs, proc>> /\ dead'[s] = dead[s]

ResetsStatus(s) ==
    /\ sl[s].pc = "resetstatus" /\ sl'[s].pc = "unlock" /\ sl'[s].lock = sl[s].lock
    /\ SetStatus(sl[s].lock.port, "untested")
    /\ UNCHANGED <<locks, logs, pkgs, proc>> /\ dead'[s] = dead[s]

\* Zombies become corpses.
Collects(s) ==
    /\ UNCHANGED <<status, locks, logs, pkgs>>
    /\ \A w \in Pid : Kept(w)
    /\ sl'[s].pc \in {sl[s].pc, "main"}
    /\ sl'[s].lock = sl[s].lock /\ sl'[s].port = sl[s].port
    /\ dead[s] \subseteq dead'[s]
    /\ \A c \in dead'[s] : c \notin dead[s] =>
          \E w \in Pid : /\ proc[w].pc = "zombie" /\ c.code = proc[w].code
                         /\ c.lock = proc[w].lock

\* Nothing happens in the tables.
Moves(s) ==
    /\ UNCHANGED <<status, locks, logs, pkgs>>
    /\ dead'[s] \subseteq dead[s]
    /\ \A w \in Pid : \/ Kept(w)
                      \/ /\ sl[s].pc = "claimed" /\ proc'[w].lock = sl[s].lock
                         /\ proc'[w].pc = "start" /\ proc'[w].tpc = "none"
    /\ sl'[s].pc \notin {"resetlog", "resetstatus", "unlock", "claimed"}
    /\ sl'[s].pc = "insert" => sl'[s].port \in ReadyPorts

Kinds(s) ==
    \/ Drops(s) \/ Adds(s) \/ Buries(s) \/ ResetsLog(s) \/ ResetsStatus(s)
    \/ Collects(s) \/ Moves(s)

\* A step that only changes the record of the supervisor.
LEMMA MovesAlone ==
    ASSUME NEW s \in Slave, UNCHANGED <<status, locks, logs, pkgs, proc, dead>>,
           sl'[s].pc \notin {"resetlog", "resetstatus", "unlock", "claimed"},
           sl'[s].pc = "insert" => sl'[s].port \in ReadyPorts
    PROVE  Moves(s)
BY DEF Moves, Kept, Active

LEMMA MainStepKinds ==
    ASSUME IInv, NEW s \in Slave, MainStep(s)
    PROVE  Kinds(s)
<1>t. /\ sl[s] \in SlaveState /\ sl \in [Slave -> SlaveState] /\ ~ sl[s].term
      /\ dead \in [Slave -> SUBSET Corpse] /\ proc \in [Pid -> Proc]
  BY DEF IInv, TypeInv, TypeOK, WorkerTypeOK, Undisturbed
<1>1. CASE Start(s) \/ Nap(s) \/ Sleep(s)
  <2>1. UNCHANGED <<status, locks, logs, pkgs, proc, dead>>
    BY <1>1 DEF Start, Nap, Sleep, Keeps, dbVars, workerVars
  <2>2. sl'[s].pc \in {"main", "asleep"}
    BY <1>1, <1>t DEF Start, Nap, Sleep, Step, SlaveState
  <2> QED
    BY <2>1, <2>2, MovesAlone DEF Kinds
<1>2. CASE Main(s)
  <2>0. UNCHANGED <<status, locks, logs, pkgs, proc, dead>>
    BY <1>2 DEF Main, Keeps, dbVars, workerVars
  <2>1. CASE dead[s] = {}
    <3>1. sl'[s].pc = "fill"
      BY <1>2, <2>1, <1>t DEF Main, SlaveState
    <3> QED
      BY <2>0, <3>1, MovesAlone DEF Kinds
  <2>2. CASE dead[s] # {}
    <3>1. PICK c \in dead[s] :
             sl' = [sl EXCEPT ![s].lock = c.lock,
                              ![s].pc = IF c.code = 6 THEN "resetlog" ELSE "unlock"]
      BY <1>2, <2>2 DEF Main
    <3>2. sl'[s].lock = c.lock /\ sl'[s].pc = IF c.code = 6 THEN "resetlog" ELSE "unlock"
      BY <3>1, <1>t DEF SlaveState
    <3> QED
      BY <2>0, <3>2 DEF Buries, Kinds
  <2> QED
    BY <2>1, <2>2
<1>3. CASE ResetLog(s)
  <2>1. ResetsLog(s)
    BY <1>3, <1>t DEF ResetLog, ResetsLog, Step, Keeps, SlaveState, workerVars
  <2> QED
    BY <2>1 DEF Kinds
<1>4. CASE ResetStatus(s)
  <2>1. ResetsStatus(s)
    BY <1>4, <1>t DEF ResetStatus, ResetsStatus, Step, Keeps, SlaveState, workerVars
  <2> QED
    BY <2>1 DEF Kinds
<1>5. CASE Unlock(s)
  <2>1. Drops(s)
    BY <1>5, <1>t DEF Unlock, Drops, SlaveState, workerVars
  <2> QED
    BY <2>1 DEF Kinds
<1>6. CASE Fill(s)
  <2> DEFINE to == IF Cardinality(children[s]) < Jobs THEN "select" ELSE "full"
  <2>1. sl' = [sl EXCEPT ![s].pc = to] /\ to \in {"select", "full"}
    BY <1>6 DEF Fill
  <2> HIDE DEF to
  <2>2. sl'[s].pc \in {"select", "full"}
    BY <2>1, <1>t DEF SlaveState
  <2>3. UNCHANGED <<status, locks, logs, pkgs, proc, dead>>
    BY <1>6 DEF Fill, Keeps, dbVars, workerVars
  <2> QED
    BY <2>2, <2>3, MovesAlone DEF Kinds
<1>7. CASE Select(s)
  <2>1. \/ sl'[s].pc = "insert" /\ sl'[s].port \in ReadyPorts
        \/ sl'[s].pc = "nap"
    <3>1. CASE \E p \in ReadyPorts : sl' = [sl EXCEPT ![s].port = p, ![s].pc = "insert"]
      BY <3>1, <1>t DEF SlaveState
    <3>2. CASE sl' = [sl EXCEPT ![s].pc = "nap"]
      BY <3>2, <1>t DEF SlaveState
    <3> QED
      BY <1>7, <3>1, <3>2 DEF Select
  <2>2. UNCHANGED <<status, locks, logs, pkgs, proc, dead>>
    BY <1>7 DEF Select, Keeps, dbVars, workerVars
  <2> QED
    BY <2>1, <2>2, MovesAlone DEF Kinds
<1>8. CASE Insert(s)
  <2>1. CASE Duplicate(sl[s].port)
    <3>1. sl'[s].pc = "select" /\ UNCHANGED <<status, locks, logs, pkgs, proc, dead>>
      BY <1>8, <2>1, <1>t DEF Insert, SlaveState, Keeps, workerVars
    <3> QED
      BY <3>1, MovesAlone DEF Kinds
  <2>2. CASE ~ Duplicate(sl[s].port)
    <3>1. sl'[s].pc = "claimed" /\ sl'[s].lock = NewLock(sl[s].port, Host[s])
      BY <1>8, <2>2, <1>t DEF Insert, SlaveState
    <3>2. Adds(s)
      BY <1>8, <2>2, <3>1 DEF Insert, Adds, Keeps, workerVars
    <3> QED
      BY <3>2 DEF Kinds
  <2> QED
    BY <2>1, <2>2
<1>9. CASE ForkWorker(s)
  <2>1. PICK i \in ids[s], w \in FreePids :
          /\ proc' = [proc EXCEPT ![w] = NewProc(s, sl[s].lock, i, children[s] # {})]
          /\ sl' = [sl EXCEPT ![s].pc = "forked", ![s].lock = None,
                              ![s].child = [pid |-> w, lock |-> sl[s].lock, wid |-> i]]
    BY <1>9 DEF ForkWorker
  <2>2. /\ sl'[s].pc = "forked" /\ sl[s].pc = "claimed"
        /\ UNCHANGED <<status, locks, logs, pkgs, dead>>
    BY <1>9, <2>1, <1>t DEF ForkWorker, SlaveState, dbVars
  <2>3. /\ w \in Pid /\ proc'[w].lock = sl[s].lock
        /\ proc'[w].pc = "start" /\ proc'[w].tpc = "none"
        /\ \A v \in Pid : v # w => proc'[v] = proc[v]
    BY <2>1, <1>t DEF FreePids, NewProc, NoProc
  <2>4. Moves(s)
    BY <2>2, <2>3 DEF Moves, Kept, Active
  <2> QED
    BY <2>4 DEF Kinds
<1>10. CASE NoWorkerId(s) \/ Register(s)
  <2>1. UNCHANGED <<status, locks, logs, pkgs, proc, dead>>
    BY <1>10 DEF NoWorkerId, Register, Keeps, dbVars, workerVars
  <2>2. sl'[s].pc = "fill"
    BY <1>10, <1>t DEF NoWorkerId, Register, SlaveState
  <2> QED
    BY <2>1, <2>2, MovesAlone DEF Kinds
<1>11. ~ (KillWait(s) \/ Search(s) \/ Sweep(s) \/ Quit(s))
  BY DEF IInv, Undisturbed, KillWait, Search, Sweep, Quit, Step
<1> QED
  BY <1>1, <1>2, <1>3, <1>4, <1>5, <1>6, <1>7, <1>8, <1>9, <1>10, <1>11 DEF MainStep

LEMMA ReapKinds ==
    ASSUME IInv, NEW s \in Slave, Reap(s)
    PROVE  Collects(s)
<1>t. /\ sl[s] \in SlaveState /\ sl \in [Slave -> SlaveState]
      /\ children \in [Slave -> SUBSET Child]
      /\ dead \in [Slave -> SUBSET Corpse] /\ proc \in [Pid -> Proc]
  BY DEF IInv, TypeInv, TypeOK, WorkerTypeOK, Undisturbed
<1>1. PICK R \in SUBSET Zombies(s) :
         /\ dead' = [dead EXCEPT ![s] =
               @ \cup {[lock |-> c.lock, code |-> proc[c.pid].code] :
                          c \in {c \in children[s] : c.pid \in R}}]
         /\ proc' = [w \in Pid |-> IF w \in R THEN Reaped(w) ELSE proc[w]]
  BY DEF Reap
<1>2. \A w \in Pid : Kept(w)
  <2>1. \A w \in Pid : Reaped(w).pc = "free"
    BY <1>t DEF Reaped, NoProc, Proc
  <2> QED
    BY <1>1, <2>1 DEF Kept, Active
<1>3. /\ sl'[s].pc \in {sl[s].pc, "main"} /\ sl'[s].lock = sl[s].lock
      /\ sl'[s].port = sl[s].port /\ UNCHANGED <<status, locks, logs, pkgs>>
  BY <1>t DEF Reap, SlaveState, dbVars
<1>4. dead[s] \subseteq dead'[s]
  BY <1>1, <1>t
<1>5. ASSUME NEW c \in dead'[s], c \notin dead[s]
      PROVE  \E w \in Pid : /\ proc[w].pc = "zombie" /\ c.code = proc[w].code
                            /\ c.lock = proc[w].lock
  <2>1. PICK k \in children[s] : /\ k.pid \in R
                                 /\ c = [lock |-> k.lock, code |-> proc[k.pid].code]
    BY <1>1, <1>5, <1>t
  <2>2. k.pid \in Pid /\ proc[k.pid].pc = "zombie"
    BY <1>1, <2>1 DEF Zombies
  <2>3. proc[k.pid].lock = k.lock
    BY <2>2 DEF IInv, ChildrenKnown, Active
  <2> QED
    BY <2>1, <2>2, <2>3
<1> QED
  BY <1>2, <1>3, <1>4, <1>5 DEF Collects

LEMMA SlaveFaultKinds ==
    ASSUME NoKillers, IInv, NEW s \in Slave, SlaveFault(s)
    PROVE  Kinds(s)
<1>t. /\ sl[s] \in SlaveState /\ sl \in [Slave -> SlaveState]
      /\ dead \in [Slave -> SUBSET Corpse] /\ proc \in [Pid -> Proc]
  BY DEF IInv, TypeInv, TypeOK, WorkerTypeOK, Undisturbed
<1>r. Restarted(s).pc = "main"
  BY DEF Restarted, At, IInv, Undisturbed
<1>1. CASE ForkFails(s)
  <2>1. UNCHANGED <<status, locks, logs, pkgs, proc, dead>> /\ sl'[s].pc = "fill"
    BY <1>1, <1>t DEF ForkFails, dbVars, SlaveState
  <2> QED
    BY <2>1, MovesAlone DEF Kinds
<1>2. ~ Term(s)
  BY DEF Term, Disturb, NoKillers
<1>3. CASE Die(s)
  <2>1. /\ sl'[s].pc = "off" /\ dead'[s] = {}
        /\ UNCHANGED <<status, locks, logs, pkgs>>
    BY <1>3, <1>t DEF Die, Ends, At, dbVars
  <2>2. ASSUME NEW w \in Pid
        PROVE  Kept(w)
    <3>1. proc[w] \in Proc
      BY <1>t
    <3>2. proc'[w] = IF proc[w].slave = s THEN Orphaned(w) ELSE proc[w]
      BY <1>3 DEF Die
    <3> QED
      BY <3>1, <3>2 DEF Kept, Active, Orphaned, NoProc, Proc
  <2> QED
    BY <2>1, <2>2 DEF Moves, Kinds
<1>4. CASE SlaveLosesDB(s)
  <2>1. UNCHANGED <<status, locks, logs, pkgs, proc, dead>> /\ sl'[s].pc = "main"
    BY <1>4, <1>r, <1>t DEF SlaveLosesDB, Keeps, dbVars
  <2> QED
    BY <2>1, MovesAlone DEF Kinds
<1>5. CASE ReplyLost(s)
  <2>1. /\ UNCHANGED <<status, logs, pkgs, proc, dead>> /\ sl'[s].pc = "main"
        /\ "reply" \in Faults
    BY <1>5, <1>r, <1>t DEF ReplyLost, Keeps, Disturb
  <2>2. CASE sl[s].pc = "insert" /\ InsertLock(sl[s].port, Host[s])
    BY <2>1, <2>2 DEF Adds, Kinds
  <2>3. CASE sl[s].pc = "unlock" /\ DeleteLock(sl[s].lock)
    BY <2>1, <2>3 DEF Drops, Kinds
  <2> QED
    BY <1>5, <2>2, <2>3 DEF ReplyLost
<1> QED
  BY <1>1, <1>2, <1>3, <1>4, <1>5 DEF SlaveFault

LEMMA SlaveKinds ==
    ASSUME NoKillers, IInv, NEW s \in Slave, SlaveStep(s)
    PROVE  Kinds(s)
BY MainStepKinds, ReapKinds, SlaveFaultKinds DEF SlaveStep, Kinds

-----------------------------------------------------------------------------
(* The steps of a worker, by what they do to the tables.                   *)

\* The worker is done with its port, unless the database has failed it.
Over(w) == proc[w].pc \in {"finish", "leave"} \/ (proc[w].pc = "zombie" /\ proc[w].code = 0)

\* The result of its test is still to come.
Early(w) == proc[w].pc \in {"start", "inject"} \/ proc[w].tpc \in {"build", "status"}

\* Nothing happens in the tables.
Works(w) ==
    /\ UNCHANGED <<status, logs, pkgs>>
    /\ Active(w)' =>
          /\ proc'[w].pc = "upload" => proc[w].pc = "upload" \/ Built(PortOf(w))
          /\ proc'[w].tpc = "log" => proc[w].tpc = "log"
          /\ Over(w)' => Over(w) \/ ~ Built(PortOf(w))
          /\ Early(w)' => Early(w)

\* The package is stored.
Stores(w) ==
    /\ proc[w].pc = "upload" /\ proc'[w].pc = "finish" /\ proc'[w].tpc = proc[w].tpc
    /\ pkgs' = pkgs \cup {PortOf(w)}
    /\ UNCHANGED <<status, logs>>

\* A result is reported.
Reports(w, r) ==
    /\ Early(w) \/ r = "internal"
    /\ SetStatus(PortOf(w), r)
    /\ UNCHANGED <<logs, pkgs>>
    /\ Active(w)' =>
          /\ proc'[w].pc # "upload" /\ ~ Early(w)'
          /\ proc'[w].tpc = "log" => r = "fail"
          /\ Over(w)' => r = "internal"

\* A log is written.
Logs(w) ==
    /\ proc[w].tpc = "log"
    /\ logs' = logs \cup {PortOf(w)}
    /\ UNCHANGED <<status, pkgs>>
    /\ proc'[w].tpc = "done" /\ proc'[w].pc \in {"forked", "wait"}

Result == Status \ {"untested"}

WorkKinds(w) == Works(w) \/ Stores(w) \/ Logs(w) \/ \E r \in Result : Reports(w, r)

\* A worker that exits.
LEMMA ExitKind ==
    ASSUME IInv, NEW w \in Pid, NEW code, Exit(w, code), Active(w)'
    PROVE  proc'[w].pc = "zombie" /\ proc'[w].code = code /\ proc'[w].tpc = proc[w].tpc
<1>t. proc \in [Pid -> Proc] /\ proc[w] \in Proc
  BY DEF IInv, TypeInv, TypeOK, WorkerTypeOK
<1>1. CASE proc[w].slave = None
  <2>1. proc' = [proc EXCEPT ![w] = Reaped(w)] /\ Reaped(w).pc = "free"
    BY <1>1, <1>t DEF Exit, Reaped, NoProc, Proc
  <2> QED
    BY <2>1, <1>t DEF Active
<1>2. CASE proc[w].slave # None
  <2> DEFINE r == [proc[w] EXCEPT !.pc = "zombie", !.code = code, !.int = FALSE, !.todo = {},
                                  !.sweep = {}, !.hand = None]
  <2>1. proc' = [proc EXCEPT ![w] = r]
    BY <1>2 DEF Exit
  <2>2. r.pc = "zombie" /\ r.code = code /\ r.tpc = proc[w].tpc
    BY <1>t DEF Proc
  <2> HIDE DEF r
  <2> QED
    BY <2>1, <2>2, <1>t
<1> QED
  BY <1>1, <1>2

\* A test child that exits: its worker waits for it, or is about to.
LEMMA TestExitKind ==
    ASSUME IInv, NEW w \in Pid, TestExit(w), TestRuns(w)
    PROVE  /\ proc[w].pc \in {"forked", "wait"}
           /\ proc'[w].pc = proc[w].pc /\ proc'[w].tpc = "done"
BY DEF IInv, TypeInv, TypeOK, WorkerTypeOK, Undisturbed, TestExit, Proc

LEMMA WorkerStepKinds ==
    ASSUME IInv, NEW w \in Pid, WorkerStep(w)
    PROVE  WorkKinds(w) /\ Active(w)
<1>t. /\ proc \in [Pid -> Proc] /\ proc[w] \in Proc
      /\ TestRuns(w) => proc[w].pc \in {"forked", "wait"}
      /\ ~ proc[w].int /\ proc[w].pc \notin SignalPC
  BY DEF IInv, TypeInv, TypeOK, WorkerTypeOK, Undisturbed
<1>k. ~ (KidSearch(w) \/ KidResetLog(w) \/ KidResetStatus(w) \/ KidUnlock(w) \/ KidQuit(w))
  BY <1>t DEF KidSearch, KidResetLog, KidResetStatus, KidUnlock, KidQuit, SignalPC
<1>a. Active(w)
  BY <1>t, <1>k
  DEF Active, WorkerStep, Begin, Inject, ForkTest, Await, Collect, Upload, Finish, Internal,
      Leave, WorkerInt, IntCollect, IntResetLog, IntResetStatus
<1>1. CASE Begin(w)
  BY <1>1, <1>a, <1>t DEF Begin, Goto, WorkKinds, Works, Over, Early, Proc, dbVars
<1>2. CASE Inject(w)
  <2>1. proc'[w].pc \in {"inject", "internal"} /\ proc'[w].tpc = proc[w].tpc
    BY <1>2, <1>t DEF Inject, Proc
  <2> QED
    BY <1>2, <1>a, <2>1 DEF Inject, WorkKinds, Works, Over, Early, dbVars
<1>3. CASE ForkTest(w)
  BY <1>3, <1>a, <1>t DEF ForkTest, WorkKinds, Works, Over, Early, Proc, dbVars
<1>4. CASE Await(w)
  BY <1>4, <1>a, <1>t DEF Await, Goto, WorkKinds, Works, Over, Early, Proc, dbVars
<1>5. CASE Collect(w)
  <2>1. /\ proc'[w].tpc = "none"
        /\ \/ proc'[w].pc = "internal"
           \/ proc'[w].pc = "upload" /\ Built(PortOf(w))
           \/ proc'[w].pc = "finish" /\ ~ Built(PortOf(w))
    BY <1>5, <1>t DEF Collect, Proc
  <2> QED
    BY <1>5, <1>a, <2>1 DEF Collect, WorkKinds, Works, Over, Early, dbVars
<1>6. CASE Upload(w)
  BY <1>6, <1>a, <1>t DEF Upload, Goto, WorkKinds, Stores, Proc
<1>7. CASE Finish(w)
  BY <1>7, <1>a, <1>t, ExitKind DEF Finish, WorkKinds, Works, Over, Early, dbVars
<1>8. CASE Internal(w)
  <2>1. proc'[w].pc = "leave" /\ proc'[w].tpc = proc[w].tpc
    BY <1>8, <1>t DEF Internal, Goto, Proc
  <2>2. Reports(w, "internal")
    BY <1>8, <1>t, <2>1 DEF Internal, Reports, Early, TestRuns
  <2> QED
    BY <1>a, <2>2 DEF WorkKinds, Result, Status
<1>9. CASE Leave(w)
  BY <1>9, <1>a, <1>t, ExitKind DEF Leave, WorkKinds, Works, Over, Early, dbVars
<1>10. ~ (WorkerInt(w) \/ IntCollect(w) \/ IntResetLog(w) \/ IntResetStatus(w))
  BY <1>t DEF WorkerInt, IntCollect, IntResetLog, IntResetStatus, SignalPC
<1> QED
  BY <1>1, <1>2, <1>3, <1>4, <1>5, <1>6, <1>7, <1>8, <1>9, <1>10, <1>k DEF WorkerStep

LEMMA TestStepKinds ==
    ASSUME IInv, NEW w \in Pid, TestStep(w)
    PROVE  WorkKinds(w) /\ Active(w)
<1>t. /\ proc \in [Pid -> Proc] /\ proc[w] \in Proc
      /\ TestRuns(w) => proc[w].pc \in {"forked", "wait"}
      /\ proc[w].tpc = "status" => proc[w].result # None
      /\ ~ proc[w].tint
  BY DEF IInv, TypeInv, TypeOK, WorkerTypeOK, WorkerControl, Undisturbed
<1>a. TestRuns(w) /\ Active(w) /\ proc[w].pc \in {"forked", "wait"}
  BY <1>t DEF Active, TestRuns, TestStep, Build, InsertStatus, InsertLog, TestInt
<1>1. CASE Build(w)
  <2>1. proc'[w].pc = proc[w].pc /\ proc'[w].tpc = "status"
    BY <1>1, <1>t DEF Build, Proc
  <2> QED
    BY <1>1, <1>a, <2>1 DEF Build, WorkKinds, Works, Over, Early, dbVars
<1>2. CASE InsertStatus(w)
  <2> DEFINE r == proc[w].result
  <2>1. r \in Result
    BY <1>2, <1>t DEF InsertStatus, Proc, Summary, Result, Status
  <2>2. /\ proc'[w].pc = proc[w].pc
        /\ proc'[w].tpc = IF r = "fail" THEN "log" ELSE "done"
    <3>1. CASE r = "fail"
      BY <1>2, <1>t, <3>1 DEF InsertStatus, TestGoto, Proc
    <3>2. CASE r # "fail"
      BY <1>2, <1>a, <3>2, TestExitKind DEF InsertStatus
    <3> QED
      BY <3>1, <3>2
  <2>3. Reports(w, r)
    BY <1>2, <1>a, <2>2 DEF InsertStatus, Reports, Early, Over
  <2> HIDE DEF r
  <2> QED
    BY <1>a, <2>1, <2>3 DEF WorkKinds
<1>3. CASE InsertLog(w)
  BY <1>3, <1>a, TestExitKind DEF InsertLog, WorkKinds, Logs
<1>4. ~ TestInt(w)
  BY <1>t DEF TestInt
<1> QED
  BY <1>1, <1>2, <1>3, <1>4 DEF TestStep

LEMMA WorkerFaultKinds ==
    ASSUME NoKillers, IInv, NEW w \in Pid, WorkerFault(w)
    PROVE  WorkKinds(w) /\ Active(w)
<1>t. /\ proc \in [Pid -> Proc] /\ proc[w] \in Proc
      /\ TestRuns(w) => proc[w].pc \in {"forked", "wait"}
  BY DEF IInv, TypeInv, TypeOK, WorkerTypeOK, Undisturbed
<1>k. ~ WorkerTerm(w) /\ ~ KidLosesDB(w)
  BY DEF WorkerTerm, KidLosesDB, Disturb, NoKillers, SignalPC, IInv, Undisturbed
<1>a. Active(w)
  BY <1>t, <1>k
  DEF Active, TestRuns, WorkerFault, WorkerThrows, WorkerLosesDB, TestThrows, TestLosesDB,
      TestKilled
<1>1. CASE WorkerThrows(w)
  <2>1. /\ proc'[w].pc = "internal" /\ proc'[w].tpc = proc[w].tpc
        /\ UNCHANGED <<status, logs, pkgs>>
    BY <1>1, <1>t DEF WorkerThrows, Proc, dbVars
  <2> QED
    BY <1>a, <2>1 DEF WorkKinds, Works, Over, Early
<1>2. CASE WorkerLosesDB(w)
  <2>1. UNCHANGED <<status, logs, pkgs>> /\ Exit(w, 6)
    BY <1>2 DEF WorkerLosesDB, dbVars
  <2> QED
    BY <1>a, <2>1, ExitKind DEF WorkKinds, Works, Over, Early
<1>3. CASE TestThrows(w)
  <2>1. /\ TestExit(w) /\ TestRuns(w) /\ SetStatus(PortOf(w), "internal")
        /\ UNCHANGED <<logs, pkgs>>
    BY <1>3 DEF TestThrows, TestRuns
  <2>2. Reports(w, "internal")
    BY <2>1, TestExitKind DEF Reports, Early, Over
  <2> QED
    BY <1>a, <2>2 DEF WorkKinds, Result, Status
<1>4. CASE TestLosesDB(w)
  <2>1. /\ TestExit(w) /\ TestRuns(w) /\ UNCHANGED <<status, logs, pkgs>>
    BY <1>4 DEF TestLosesDB, TestRuns, dbVars
  <2> QED
    BY <1>a, <2>1, TestExitKind DEF WorkKinds, Works, Over, Early
<1>5. CASE TestKilled(w)
  <2>1. /\ proc'[w].pc = proc[w].pc /\ proc'[w].tpc = "killed" /\ TestRuns(w)
        /\ UNCHANGED <<status, logs, pkgs>>
    BY <1>5, <1>t DEF TestKilled, Proc, dbVars
  <2> QED
    BY <1>a, <1>t, <2>1 DEF WorkKinds, Works, Over, Early
<1> QED
  BY <1>1, <1>2, <1>3, <1>4, <1>5, <1>k DEF WorkerFault

LEMMA ProcKinds ==
    ASSUME NoKillers, IInv, NEW w \in Pid, ProcStep(w)
    PROVE  /\ WorkKinds(w) /\ Active(w) /\ Same(w)
           /\ UNCHANGED <<locks, sl, children, dead, ids, admin>>
<1>1. WorkKinds(w) /\ Active(w) /\ Same(w) /\ UNCHANGED <<sl, children, dead, ids, admin>>
  BY WorkerStepKinds, TestStepKinds, WorkerFaultKinds, ProcStepSame DEF ProcStep, IInv
<1>2. Quiet
  BY CalmWorkerStep, CalmTestStep, CalmWorkerFault DEF ProcStep
<1> QED
  BY <1>1, <1>2 DEF Quiet

-----------------------------------------------------------------------------
(* The chroots of a machine.                                               *)

\* Without "die", no worker is left without its supervisor.
NotOrphaned == \A w \in Pid : Active(w) => proc[w].slave # None

LEMMA SlaveNotOrphaned ==
    ASSUME NoKillers, "die" \notin Faults, IInv, NotOrphaned, NEW s \in Slave, SlaveStep(s)
    PROVE  NotOrphaned'
<1>t. /\ proc \in [Pid -> Proc] /\ TypeInv
      /\ sl[s].pc \notin {"kill", "search", "sweep"}
  BY DEF IInv, TypeInv, TypeOK, WorkerTypeOK, Undisturbed
<1>r. \A w \in Pid : Reaped(w).pc = "free"
  BY <1>t DEF Reaped, NoProc, Proc
<1>1. CASE MovingStep(s)
  BY <1>1, <1>t, MovingRecord DEF NotOrphaned, Active
<1>2. CASE ForkWorker(s)
  BY <1>2, <1>t, NoneAssumption DEF ForkWorker, FreePids, NewProc, NoProc, NotOrphaned, Active
<1>3. CASE Register(s)
  BY <1>3 DEF Register, workerVars, NotOrphaned, Active
<1>4. CASE Reap(s)
  BY <1>4, <1>t, <1>r DEF Reap, NotOrphaned, Active
<1>5. ~ (KillWait(s) \/ Quit(s) \/ Term(s) \/ Die(s))
  BY <1>t DEF KillWait, Quit, Step, Term, Die, Disturb, NoKillers
<1> QED
  BY <1>1, <1>2, <1>3, <1>4, <1>5 DEF SlaveStep, MainStep, SlaveFault, MovingStep

LEMMA NextNotOrphaned ==
    ASSUME NoKillers, "die" \notin Faults
    PROVE  IInv /\ NotOrphaned /\ [Next]_vars => NotOrphaned'
<1> SUFFICES ASSUME IInv, NotOrphaned, [Next]_vars PROVE NotOrphaned'
  OBVIOUS
<1>1. CASE UNCHANGED vars
  BY <1>1 DEF vars, workerVars, NotOrphaned, Active
<1>2. ASSUME NEW s \in Slave, MainStep(s) \/ Reap(s) \/ SlaveFault(s)
      PROVE  NotOrphaned'
  BY <1>2, SlaveNotOrphaned DEF SlaveStep
<1>3. ASSUME NEW w \in Pid, ProcStep(w)
      PROVE  NotOrphaned'
  BY <1>3, ProcStepSame DEF IInv, Same, NotOrphaned, Active
<1>4. ASSUME NEW m \in Machine, Reboot(m)
      PROVE  NotOrphaned'
  BY <1>4 DEF Reboot, NoProc, NotOrphaned, Active
<1>5. CASE AdminResetLog \/ AdminResetStatus
  BY <1>5 DEF AdminResetLog, AdminResetStatus, workerVars, NotOrphaned, Active
<1>6. ~ AdminUnlock
  BY DEF AdminUnlock, Disturb, NoKillers
<1> QED
  BY <1>1, <1>2, <1>3, <1>4, <1>5, <1>6 DEF Next

\* No two workers of a machine are ever in the same chroot, if the machine has
\* one supervisor, which no exception ends: a new one hands out all numbers
\* afresh, while the workers of the old one are still running.
THEOREM ChrootsApart ==
    ASSUME NoKillers, "die" \notin Faults, OneSlaveEach
    PROVE  Spec => []ChrootExclusion
<1>1. Init => NotOrphaned
  BY DEF Init, WorkerInit, NoProc, NotOrphaned, Active
<1>2. IInv /\ Numbered /\ NotOrphaned => ChrootExclusion
  <2> SUFFICES ASSUME IInv, Numbered, NotOrphaned, NEW v \in Pid, NEW w \in Pid, v # w,
                      Busy(v), Busy(w), proc[v].lock.machine = proc[w].lock.machine
               PROVE  proc[v].wid # proc[w].wid
    BY DEF ChrootExclusion
  <2>1. Active(v) /\ Active(w)
    BY DEF IInv, Undisturbed, Busy, Active
  <2>2. /\ proc[v].slave \in Slave /\ proc[w].slave \in Slave
        /\ proc[v].slave # None /\ proc[w].slave # None
    BY <2>1 DEF NotOrphaned, IInv, TypeInv, TypeOK, WorkerTypeOK, Proc
  <2>3. proc[v].slave = proc[w].slave
    BY <2>1, <2>2 DEF Numbered, WorkersAtHome, OneSlaveEach
  <2> QED
    BY <2>1, <2>2, <2>3 DEF Numbered, NumbersApart
<1> QED
  BY <1>1, <1>2, NextNotOrphaned, LocksApart, NumbersHold, PTL DEF Spec

-----------------------------------------------------------------------------
(* The packages.                                                           *)

\* A port that depends on p finds the package it needs.
Done(p) == Built(p) => p \in pkgs

\* The workers that are over, and ...
OversDone == \A w \in Pid : Over(w) => Done(PortOf(w))

\* ... the corpses they become, have left their ports like that, or lost the
\* database; the row with the number of a corpse's lock is that lock ...
CorpsesDone ==
    \A s \in Slave : \A c \in dead[s] :
        /\ c.lock \in locks /\ c.code = 0 => Done(c.lock.port)
        /\ \A k \in locks : k.id = c.lock.id => k = c.lock

\* ... and whoever lost the database has had its port reset by then.
UnlocksDone ==
    \A s \in Slave : sl[s].pc = "unlock" /\ sl[s].lock \in locks => Done(sl[s].lock.port)

PackInv ==
    /\ \A p \in Port : ~ Locked(p) => Done(p)
    /\ OversDone /\ CorpsesDone /\ UnlocksDone

\* Steps that delete, add and collect no lock, and make no port built.
LEMMA PackKeeps ==
    ASSUME PackInv, UNCHANGED locks, \A p : Done(p) => Done(p)',
           \A w \in Pid : Over(w)' =>
               \/ Over(w) /\ proc'[w].lock = proc[w].lock
               \/ Done(PortOf(w))',
           \A s \in Slave :
               /\ dead'[s] \subseteq dead[s]
               /\ sl'[s].pc = "unlock" =>
                     \/ sl[s].pc = "unlock" /\ sl'[s].lock = sl[s].lock
                     \/ sl'[s].lock \in locks => Done(sl[s].lock.port)'
    PROVE  PackInv'
<1>1. \A p \in Port : ~ Locked(p)' => Done(p)'
  BY DEF PackInv, Locked
<1>2. OversDone'
  BY DEF PackInv, OversDone, PortOf, Done, Built
<1>3. CorpsesDone'
  <2> SUFFICES ASSUME NEW s \in Slave, NEW c \in dead'[s]
               PROVE  /\ c.lock \in locks /\ c.code = 0 => Done(c.lock.port)'
                      /\ \A k \in locks : k.id = c.lock.id => k = c.lock
    BY DEF CorpsesDone, Done, Built
  <2> QED
    BY DEF PackInv, CorpsesDone
<1>4. UnlocksDone'
  <2> SUFFICES ASSUME NEW s \in Slave, sl'[s].pc = "unlock", sl'[s].lock \in locks
               PROVE  Done(sl[s].lock.port)'
    BY DEF UnlocksDone, Done, Built
  <2>1. CASE sl[s].pc = "unlock" /\ sl'[s].lock = sl[s].lock
    <3>1. Done(sl[s].lock.port)
      BY <2>1 DEF PackInv, UnlocksDone
    <3> QED
      BY <2>1, <3>1 DEF Done, Built
  <2> QED
    BY <2>1
<1> QED
  BY <1>1, <1>2, <1>3, <1>4 DEF PackInv

\* The port of a worker is locked, and no other worker's.
LEMMA OwnPort ==
    ASSUME IInv, NEW w \in Pid, Active(w)
    PROVE  /\ proc[w].lock \in locks /\ PortOf(w) \in Port /\ Locked(PortOf(w))
           /\ \A v \in Pid : Active(v) /\ v # w => PortOf(v) # PortOf(w)
           /\ \A s \in Slave : \A c \in dead[s] :
                 c.lock \in locks => c.lock.port # PortOf(w)
           /\ \A s \in Slave : sl[s].pc = "claimed" => sl[s].lock.port # PortOf(w)
<1>1. proc[w].lock \in locks /\ PortOf(w) \in Port /\ Locked(PortOf(w))
  BY DEF IInv, WorkersHoldLocks, TypeInv, TypeOK, DBTypeOK, Lock, PortOf, Locked
<1>2. ASSUME NEW l \in locks, l.id # proc[w].lock.id
      PROVE  l.port # PortOf(w)
  BY <1>1, <1>2 DEF IInv, LocksKeyed, PortOf
<1>3. \A v \in Pid : Active(v) /\ v # w => PortOf(v) # PortOf(w)
  BY <1>2 DEF IInv, WorkersHoldLocks, PortOf
<1>4. \A s \in Slave : \A c \in dead[s] : c.lock \in locks => c.lock.port # PortOf(w)
  BY <1>2 DEF IInv, CorpsesApart
<1>5. \A s \in Slave : sl[s].pc = "claimed" => sl[s].lock.port # PortOf(w)
  BY <1>2 DEF IInv, ClaimsApart
<1> QED
  BY <1>1, <1>3, <1>4, <1>5

LEMMA ProcPack ==
    ASSUME NoKillers, IInv, PackInv, NEW w \in Pid, ProcStep(w)
    PROVE  PackInv'
<1>t. status \in [Port -> Status]
  BY DEF IInv, TypeInv, TypeOK, DBTypeOK
<1>0. WorkKinds(w) /\ Active(w) /\ Same(w) /\ UNCHANGED <<locks, sl, dead>>
  BY ProcKinds
<1>1. /\ UNCHANGED locks
      /\ \A v \in Pid : v # w => proc'[v] = proc[v]
      /\ Active(w)' => proc'[w].lock = proc[w].lock
      /\ \A v \in Pid : Over(v)' /\ v # w => Over(v) /\ Active(v)
      /\ Over(w)' => Active(w)'
  BY <1>0 DEF Same, Over, Active
<1>2. CASE Works(w)
  <2>1. Over(w)' => Over(w) \/ Done(PortOf(w))'
    BY <1>1, <1>2 DEF Works, Done, Built, PortOf
  <2> QED
    BY <1>0, <1>1, <1>2, <2>1, PackKeeps DEF Works, Done, Built
<1>3. CASE Stores(w)
  <2>1. Over(w)' => Done(PortOf(w))'
    BY <1>1, <1>3 DEF Stores, Done, PortOf
  <2>2. \A p : Done(p) => Done(p)'
    BY <1>3 DEF Stores, Done, Built
  <2> QED
    BY <1>0, <1>1, <2>1, <2>2, PackKeeps
<1>4. CASE Logs(w)
  <2>1. ~ Over(w)'
    BY <1>4 DEF Logs, Over
  <2> QED
    BY <1>0, <1>1, <1>4, <2>1, PackKeeps DEF Logs, Done, Built
<1>5. ASSUME NEW r \in Result, Reports(w, r)
      PROVE  PackInv'
  <2>1. \A p \in Port : p # PortOf(w) => (Done(p) => Done(p)')
    BY <1>5, <1>t DEF Reports, SetStatus, Done, Built
  <2>2. Over(w)' => Done(PortOf(w))'
    BY <1>0, <1>1, <1>5, <1>t, OwnPort DEF Reports, SetStatus, Done, Built, PortOf
  <2>3. \A p \in Port : ~ Locked(p)' => Done(p)'
    BY <1>0, <1>1, <2>1, OwnPort DEF PackInv, Locked
  <2>4. OversDone'
    <3> SUFFICES ASSUME NEW v \in Pid, Over(v)', v # w
                 PROVE  Done(PortOf(v))'
      BY <2>2 DEF OversDone
    <3>1. Done(PortOf(v)) /\ PortOf(v) # PortOf(w) /\ PortOf(v) \in Port
      BY <1>0, <1>1, OwnPort DEF PackInv, OversDone
    <3> QED
      BY <1>1, <2>1, <3>1 DEF Done, Built, PortOf
  <2>5. CorpsesDone'
    <3> SUFFICES ASSUME NEW s \in Slave, NEW c \in dead[s]
                 PROVE  /\ c.lock \in locks /\ c.code = 0 => Done(c.lock.port)'
                        /\ \A k \in locks : k.id = c.lock.id => k = c.lock
      BY <1>0, <1>1 DEF CorpsesDone, Done, Built
    <3>1. c.lock \in locks => c.lock.port \in Port /\ c.lock.port # PortOf(w)
      BY <1>0, OwnPort DEF IInv, TypeInv, TypeOK, DBTypeOK, Lock
    <3> QED
      BY <2>1, <3>1 DEF PackInv, CorpsesDone
  <2>6. UnlocksDone'
    <3> SUFFICES ASSUME NEW s \in Slave, sl[s].pc = "unlock", sl[s].lock \in locks
                 PROVE  Done(sl[s].lock.port)'
      BY <1>0, <1>1 DEF UnlocksDone, Done, Built
    <3>1. PICK c \in dead[s] : c.lock = sl[s].lock
      BY DEF IInv, CorpsesApart
    <3>2. sl[s].lock.port \in Port /\ sl[s].lock.port # PortOf(w)
      BY <1>0, <3>1, OwnPort DEF IInv, TypeInv, TypeOK, DBTypeOK, Lock
    <3>3. Done(sl[s].lock.port)
      BY DEF PackInv, UnlocksDone
    <3> QED
      BY <1>0, <2>1, <3>2, <3>3 DEF Done, Built
  <2> QED
    BY <2>3, <2>4, <2>5, <2>6 DEF PackInv
<1> QED
  BY <1>0, <1>2, <1>3, <1>4, <1>5 DEF WorkKinds

LEMMA SlavePack ==
    ASSUME NoKillers, IInv, PackInv, NEW s \in Slave, SlaveStep(s)
    PROVE  PackInv'
<1>t. /\ status \in [Port -> Status] /\ locks \subseteq Lock /\ nextLock \in Nat
      /\ dead \in [Slave -> SUBSET Corpse] /\ proc \in [Pid -> Proc]
  BY DEF IInv, TypeInv, TypeOK, DBTypeOK, WorkerTypeOK
<1>0. Kinds(s)
  BY SlaveKinds
<1>f. \A t \in Slave : t # s => sl'[t] = sl[t] /\ dead'[t] = dead[t]
  BY SlaveFrame DEF IInv
<1>1. CASE Drops(s)
  <2>1. /\ locks' = {k \in locks : k.id # sl[s].lock.id}
        /\ UNCHANGED <<status, pkgs, proc>> /\ sl[s].pc = "unlock" /\ sl'[s].pc = "main"
        /\ dead'[s] \subseteq dead[s]
    BY <1>1 DEF Drops, DeleteLock
  <2>2. PICK c \in dead[s] : c.lock = sl[s].lock
    BY <2>1 DEF IInv, CorpsesApart
  <2>3. ASSUME NEW p \in Port, ~ Locked(p)'
        PROVE  Done(p)'
    <3>1. CASE Locked(p)
      <4>1. PICK k \in locks : k.port = p
        BY <3>1 DEF Locked
      <4>2. k.id = c.lock.id
        BY <2>1, <2>2, <2>3, <4>1 DEF Locked
      <4>3. k = sl[s].lock
        BY <2>2, <4>2 DEF PackInv, CorpsesDone
      <4> QED
        BY <2>1, <4>1, <4>3 DEF PackInv, UnlocksDone, Done, Built
    <3> QED
      BY <2>1, <3>1 DEF PackInv, Done, Built
  <2>4. OversDone'
    BY <2>1 DEF PackInv, OversDone, Over, Done, Built, PortOf
  <2>5. CorpsesDone'
    BY <2>1, <1>f DEF PackInv, CorpsesDone, Done, Built
  <2>6. UnlocksDone'
    BY <2>1, <1>f DEF PackInv, UnlocksDone, Done, Built
  <2> QED
    BY <2>3, <2>4, <2>5, <2>6 DEF PackInv
<1>2. CASE Adds(s)
  <2> DEFINE new == NewLock(sl[s].port, Host[s])
  <2>1. /\ locks' = locks \cup {new} /\ new.id = nextLock
        /\ UNCHANGED <<status, pkgs, proc>> /\ sl'[s].pc # "unlock"
        /\ dead'[s] = dead[s]
    BY <1>2 DEF Adds, InsertLock, NewLock
  <2> HIDE DEF new
  <2>2. \A t \in Slave : \A c \in dead[t] : c.lock.id # new.id /\ c.lock # new
    BY <2>1, <1>t DEF IInv, CorpsesApart
  <2>3. \A p \in Port : ~ Locked(p)' => Done(p)'
    BY <2>1 DEF PackInv, Locked, Done, Built
  <2>4. OversDone'
    BY <2>1 DEF PackInv, OversDone, Over, Done, Built, PortOf
  <2>5. CorpsesDone'
    <3> SUFFICES ASSUME NEW t \in Slave, NEW c \in dead[t]
                 PROVE  /\ c.lock \in locks' /\ c.code = 0 => Done(c.lock.port)'
                        /\ \A k \in locks' : k.id = c.lock.id => k = c.lock
      BY <2>1, <1>f DEF CorpsesDone, Done, Built
    <3> QED
      BY <2>1, <2>2 DEF PackInv, CorpsesDone, Done, Built
  <2>6. UnlocksDone'
    <3> SUFFICES ASSUME NEW t \in Slave, t # s, sl[t].pc = "unlock", sl[t].lock \in locks'
                 PROVE  Done(sl[t].lock.port)'
      BY <2>1, <1>f DEF UnlocksDone, Done, Built
    <3>1. sl[t].lock # new
      BY <2>2 DEF IInv, CorpsesApart
    <3> QED
      BY <2>1, <3>1, <1>f DEF PackInv, UnlocksDone, Done, Built
  <2> QED
    BY <2>3, <2>4, <2>5, <2>6 DEF PackInv
<1>3. CASE Buries(s)
  <2>1. PICK c \in dead[s] : /\ sl'[s].lock = c.lock
                             /\ sl'[s].pc = IF c.code = 6 THEN "resetlog" ELSE "unlock"
    BY <1>3 DEF Buries
  <2>2. sl'[s].pc = "unlock" => (sl'[s].lock \in locks => Done(sl[s].lock.port)')
    <3> SUFFICES ASSUME sl'[s].pc = "unlock", c.lock \in locks
                 PROVE  Done(sl[s].lock.port)'
      BY <2>1
    <3>1. c.code = 0
      BY <2>1, <1>t DEF Corpse
    <3> QED
      BY <1>3, <2>1, <3>1 DEF Buries, PackInv, CorpsesDone, Done, Built
  <2>3. UNCHANGED <<status, locks, pkgs, proc>> /\ dead'[s] = dead[s]
    BY <1>3 DEF Buries
  <2> QED
    BY <2>2, <2>3, <1>f, PackKeeps DEF Done, Built, Over
<1>4. CASE ResetsLog(s)
  <2>1. UNCHANGED <<status, locks, pkgs, proc>> /\ dead'[s] = dead[s] /\ sl'[s].pc # "unlock"
    BY <1>4 DEF ResetsLog
  <2> QED
    BY <2>1, <1>f, PackKeeps DEF Done, Built, Over
<1>5. CASE ResetsStatus(s)
  <2>1. /\ SetStatus(sl[s].lock.port, "untested") /\ sl'[s].lock = sl[s].lock
        /\ UNCHANGED <<locks, pkgs, proc>> /\ dead'[s] = dead[s] /\ sl[s].pc = "resetstatus"
    BY <1>5 DEF ResetsStatus
  <2>2. \A p : Done(p) => Done(p)'
    BY <2>1, <1>t DEF SetStatus, Done, Built
  <2>3. sl'[s].lock \in locks => Done(sl[s].lock.port)'
    BY <2>1, <1>t DEF SetStatus, Done, Built, Lock
  <2> QED
    BY <2>1, <2>2, <2>3, <1>f, PackKeeps DEF Over
<1>6. CASE Collects(s)
  <2>1. UNCHANGED <<status, locks, pkgs>> /\ \A w \in Pid : Kept(w)
    BY <1>6 DEF Collects
  <2>2. \A p \in Port : ~ Locked(p)' => Done(p)'
    BY <2>1 DEF PackInv, Locked, Done, Built
  <2>3. OversDone'
    BY <2>1 DEF Kept, Active, PackInv, OversDone, Over, Done, Built, PortOf
  <2>4. CorpsesDone'
    <3> SUFFICES ASSUME NEW t \in Slave, NEW c \in dead'[t]
                 PROVE  /\ c.lock \in locks /\ c.code = 0 => Done(c.lock.port)
                        /\ \A k \in locks : k.id = c.lock.id => k = c.lock
      BY <2>1 DEF CorpsesDone, Done, Built
    <3>1. CASE c \in dead[t]
      BY <3>1 DEF PackInv, CorpsesDone
    <3>2. CASE c \notin dead[t]
      <4>1. PICK w \in Pid : /\ proc[w].pc = "zombie" /\ c.code = proc[w].code
                             /\ c.lock = proc[w].lock
        BY <1>6, <1>f, <3>2 DEF Collects
      <4>2. Active(w) /\ c.lock \in locks
        BY <4>1 DEF Active, IInv, WorkersHoldLocks
      <4> QED
        BY <4>1, <4>2 DEF PackInv, OversDone, Over, PortOf, IInv, LocksKeyed
    <3> QED
      BY <3>1, <3>2
  <2>5. UnlocksDone'
    BY <1>6, <1>f, <2>1 DEF Collects, PackInv, UnlocksDone, Done, Built
  <2> QED
    BY <2>2, <2>3, <2>4, <2>5 DEF PackInv
<1>7. CASE Moves(s)
  <2>1. \A w \in Pid : Over(w)' => Over(w) /\ proc'[w].lock = proc[w].lock
    BY <1>7 DEF Moves, Kept, Active, Over
  <2> QED
    BY <1>7, <2>1, <1>f, PackKeeps DEF Moves, Done, Built
<1> QED
  BY <1>0, <1>1, <1>2, <1>3, <1>4, <1>5, <1>6, <1>7 DEF Kinds

LEMMA NextPack ==
    ASSUME NoKillers
    PROVE  IInv /\ PackInv /\ [Next]_vars => PackInv'
<1> SUFFICES ASSUME IInv, PackInv, [Next]_vars PROVE PackInv'
  OBVIOUS
<1>t. /\ status \in [Port -> Status] /\ proc \in [Pid -> Proc] /\ admin \in Port \cup {None}
      /\ sl \in [Slave -> SlaveState] /\ dead \in [Slave -> SUBSET Corpse]
  BY DEF IInv, TypeInv, TypeOK, DBTypeOK, WorkerTypeOK
<1>1. ASSUME UNCHANGED <<locks, pkgs, proc, sl, dead>>, \A p : Done(p) => Done(p)'
      PROVE  PackInv'
  BY <1>1, PackKeeps DEF Over
<1>2. CASE UNCHANGED vars \/ AdminResetLog
  BY <1>1, <1>2 DEF vars, dbVars, workerVars, slaveVars, AdminResetLog, Done, Built
<1>3. CASE AdminResetStatus
  <2>1. \A p : Done(p) => Done(p)'
    BY <1>3, <1>t DEF AdminResetStatus, SetStatus, Done, Built
  <2> QED
    BY <1>1, <1>3, <2>1 DEF AdminResetStatus, workerVars, slaveVars
<1>4. ASSUME NEW s \in Slave, MainStep(s) \/ Reap(s) \/ SlaveFault(s)
      PROVE  PackInv'
  BY <1>4, SlavePack DEF SlaveStep
<1>5. ASSUME NEW w \in Pid, ProcStep(w)
      PROVE  PackInv'
  BY <1>5, ProcPack
<1>6. ASSUME NEW m \in Machine, Reboot(m)
      PROVE  PackInv'
  <2>1. /\ UNCHANGED <<locks, status, pkgs>>
        /\ \A w \in Pid : proc'[w] = proc[w] \/ proc'[w] = NoProc
        /\ \A s \in Slave : \/ dead'[s] = dead[s] /\ sl'[s] = sl[s]
                            \/ dead'[s] = {} /\ sl'[s].pc = "off"
    BY <1>6, <1>t DEF Reboot, At, dbVars
  <2> QED
    BY <2>1, PackKeeps DEF Over, NoProc, Done, Built
<1>7. ~ AdminUnlock
  BY DEF AdminUnlock, Disturb, NoKillers
<1> QED
  BY <1>2, <1>3, <1>4, <1>5, <1>6, <1>7 DEF Next

LEMMA InitPack == Init => PackInv
BY DEF Init, DBInit, WorkerInit, NoProc, At, PackInv, OversDone, CorpsesDone, UnlocksDone,
       Over, Done, Built

\* Every port that counts as built and is not locked has its package in the
\* store, whatever becomes of workers, supervisors and machines between
\* insert_results and upload_pkgfile, if no process tree is killed half-way.
THEOREM PackagesStored ==
    ASSUME NoKillers
    PROVE  Spec => []PassedHasPackage
<1>1. PackInv => PassedHasPackage
  BY DEF PackInv, PassedHasPackage, Done
<1> QED
  BY <1>1, InitPack, NextPack, LocksApart, PTL DEF Spec

-----------------------------------------------------------------------------
(* Statuses and logs, as long as no operator resets a port and no reply of  *)
(* the database is lost.                                                    *)

Steady == NoKillers /\ Faults \cap {"reset", "reply"} = {}

\* The lock of a corpse is in the table, and on one list of corpses only.
CorpsesHeld ==
    /\ \A s \in Slave : \A c \in dead[s] : c.lock \in locks
    /\ \A s, t \in Slave : s # t =>
          \A c \in dead[s], d \in dead[t] : c.lock.id # d.lock.id

\* A worker acts on a status that is still that of its port.
ResultsTrue ==
    \A w \in Pid : /\ proc[w].pc = "upload" => Built(PortOf(w))
                   /\ proc[w].tpc = "log" => status[PortOf(w)] = "fail"

\* A log goes before the status it explains.
LogsTrue ==
    /\ \A s \in Slave : sl[s].pc = "resetstatus" => sl[s].lock.port \notin logs
    /\ \A p \in logs : status[p] # "untested"

HeldInv == admin = None /\ CorpsesHeld /\ ResultsTrue /\ LogsTrue

\* A port that is about to be reset is locked, and no worker's.
LEMMA CorpsePort ==
    ASSUME IInv, CorpsesHeld, NEW s \in Slave,
           sl[s].pc \in {"resetlog", "resetstatus", "unlock"}
    PROVE  /\ sl[s].lock \in locks /\ sl[s].lock.port \in Port /\ Locked(sl[s].lock.port)
           /\ \A w \in Pid : Active(w) => PortOf(w) # sl[s].lock.port
<1>1. PICK c \in dead[s] : c.lock = sl[s].lock
  BY DEF IInv, CorpsesApart
<1>2. sl[s].lock \in locks /\ sl[s].lock.port \in Port
  BY <1>1 DEF CorpsesHeld, IInv, TypeInv, TypeOK, DBTypeOK, Lock
<1>3. \A w \in Pid : Active(w) => PortOf(w) # sl[s].lock.port
  BY <1>1, <1>2, OwnPort
<1> QED
  BY <1>2, <1>3 DEF Locked

LEMMA ProcHeld ==
    ASSUME NoKillers, IInv, IInv', HeldInv, NEW w \in Pid, ProcStep(w)
    PROVE  HeldInv'
<1>t. status \in [Port -> Status] /\ logs \subseteq Port
  BY DEF IInv, TypeInv, TypeOK, DBTypeOK
<1>0. WorkKinds(w) /\ Active(w) /\ Same(w) /\ UNCHANGED <<locks, sl, dead, admin>>
  BY ProcKinds
<1>1. /\ UNCHANGED locks
      /\ \A v \in Pid : v # w => proc'[v] = proc[v]
      /\ Active(w)' => proc'[w].lock = proc[w].lock
      /\ ~ Active(w)' => proc'[w].pc # "upload" /\ proc'[w].tpc # "log"
  BY <1>0 DEF Same, Active, IInv, Undisturbed, TestRuns
<1>2. CorpsesHeld'
  BY <1>0, <1>1 DEF HeldInv, CorpsesHeld
<1>3. CASE Works(w) \/ Stores(w)
  <2>1. UNCHANGED <<status, logs>>
    BY <1>3 DEF Works, Stores
  <2>2. ResultsTrue'
    BY <1>1, <1>3, <2>1 DEF Works, Stores, HeldInv, ResultsTrue, Built, PortOf
  <2>3. LogsTrue'
    BY <1>0, <2>1 DEF HeldInv, LogsTrue
  <2> QED
    BY <1>0, <1>2, <2>2, <2>3 DEF HeldInv
<1>4. CASE Logs(w)
  <2>1. /\ status[PortOf(w)] = "fail" /\ UNCHANGED status
        /\ logs' = logs \cup {PortOf(w)}
    BY <1>4 DEF Logs, HeldInv, ResultsTrue
  <2>2. ResultsTrue'
    BY <1>1, <1>4, <2>1 DEF Logs, HeldInv, ResultsTrue, Built, PortOf
  <2>3. LogsTrue'
    <3>1. ASSUME NEW s \in Slave, sl[s].pc = "resetstatus"
          PROVE  sl[s].lock.port \notin logs'
      BY <1>0, <2>1, <3>1, CorpsePort DEF HeldInv, LogsTrue
    <3> QED
      BY <1>0, <2>1, <3>1 DEF HeldInv, LogsTrue
  <2> QED
    BY <1>0, <1>2, <2>2, <2>3 DEF HeldInv
<1>5. ASSUME NEW r \in Result, Reports(w, r)
      PROVE  HeldInv'
  <2>1. /\ PortOf(w) \in Port /\ status'[PortOf(w)] = r
        /\ \A p \in Port : p # PortOf(w) => status'[p] = status[p]
        /\ UNCHANGED logs
    BY <1>0, <1>5, <1>t, OwnPort DEF Reports, SetStatus
  <2>2. ResultsTrue'
    <3> SUFFICES ASSUME NEW v \in Pid
                 PROVE  /\ proc'[v].pc = "upload" => Built(PortOf(v))'
                        /\ proc'[v].tpc = "log" => status'[proc'[v].lock.port] = "fail"
      BY DEF ResultsTrue, PortOf
    <3>1. CASE v = w
      BY <1>1, <1>5, <2>1, <3>1 DEF Reports, PortOf
    <3>2. CASE v # w /\ Active(v)
      <4>1. PortOf(v) \in Port /\ PortOf(v) # PortOf(w)
        BY <1>0, <3>2, OwnPort
      <4> QED
        BY <1>1, <2>1, <3>2, <4>1 DEF HeldInv, ResultsTrue, Built, PortOf
    <3>3. CASE v # w /\ ~ Active(v)
      BY <1>1, <3>3 DEF Active, IInv, Undisturbed, TestRuns
    <3> QED
      BY <3>1, <3>2, <3>3
  <2>3. LogsTrue'
    BY <1>0, <1>t, <2>1 DEF HeldInv, LogsTrue, Result
  <2> QED
    BY <1>0, <1>2, <2>2, <2>3 DEF HeldInv
<1> QED
  BY <1>0, <1>3, <1>4, <1>5 DEF WorkKinds

\* Steps that leave the statuses alone, and add neither a log nor a corpse.
LEMMA HeldKeeps ==
    ASSUME IInv', HeldInv, UNCHANGED <<status, admin>>, logs' \subseteq logs, CorpsesHeld',
           \A w \in Pid : Active(w)' =>
               \/ /\ proc'[w].pc = proc[w].pc /\ proc'[w].tpc = proc[w].tpc
                  /\ proc'[w].lock = proc[w].lock
               \/ proc'[w].pc = "start" /\ proc'[w].tpc = "none",
           \A s \in Slave : sl'[s].pc = "resetstatus" =>
               \/ sl[s].pc = "resetstatus" /\ sl'[s].lock = sl[s].lock
               \/ sl'[s].lock.port \notin logs'
    PROVE  HeldInv'
<1>1. ResultsTrue'
  <2> SUFFICES ASSUME NEW w \in Pid
               PROVE  /\ proc'[w].pc = "upload" => Built(PortOf(w))'
                      /\ proc'[w].tpc = "log" => status'[proc'[w].lock.port] = "fail"
    BY DEF ResultsTrue, PortOf
  <2>1. CASE Active(w)'
    BY <2>1 DEF HeldInv, ResultsTrue, Built, PortOf
  <2>2. CASE ~ Active(w)'
    BY <2>2 DEF Active, IInv, Undisturbed, TestRuns
  <2> QED
    BY <2>1, <2>2
<1>2. LogsTrue'
  BY DEF HeldInv, LogsTrue
<1> QED
  BY <1>1, <1>2 DEF HeldInv

LEMMA SlaveCorpses ==
    ASSUME Steady, IInv, CorpsesHeld, NEW s \in Slave, SlaveStep(s)
    PROVE  CorpsesHeld'
<1>0. Kinds(s)
  BY SlaveKinds DEF Steady
<1>f. \A t \in Slave : t # s => dead'[t] = dead[t]
  BY SlaveFrame DEF IInv
<1>1. CASE Drops(s)
  <2>1. /\ locks' = {k \in locks : k.id # sl[s].lock.id}
        /\ dead'[s] = {c \in dead[s] : c.lock # sl[s].lock} /\ sl[s].pc = "unlock"
    BY <1>1 DEF Drops, DeleteLock, Steady
  <2>2. PICK d \in dead[s] : d.lock = sl[s].lock
    BY <2>1 DEF IInv, CorpsesApart
  <2>3. \A c \in dead'[s] : c.lock \in locks'
    BY <2>1, <2>2 DEF CorpsesHeld, IInv, LocksKeyed
  <2>4. \A t \in Slave : t # s => \A c \in dead'[t] : c.lock \in locks'
    BY <1>f, <2>1, <2>2 DEF CorpsesHeld
  <2> QED
    BY <1>f, <2>1, <2>3, <2>4 DEF CorpsesHeld
<1>2. CASE Adds(s)
  BY <1>2, <1>f DEF Adds, InsertLock, CorpsesHeld
<1>3. CASE Buries(s) \/ ResetsLog(s) \/ ResetsStatus(s)
  BY <1>3, <1>f DEF Buries, ResetsLog, ResetsStatus, CorpsesHeld
<1>4. CASE Collects(s)
  <2>1. ASSUME NEW c \in dead'[s], c \notin dead[s]
        PROVE  c.lock \in locks /\ \A t \in Slave : \A d \in dead[t] : c.lock.id # d.lock.id
    <3>1. PICK w \in Pid : proc[w].pc = "zombie" /\ c.lock = proc[w].lock
      BY <1>4, <2>1 DEF Collects
    <3> QED
      BY <3>1 DEF Active, IInv, WorkersHoldLocks, CorpsesApart
  <2>2. UNCHANGED locks
    BY <1>4 DEF Collects
  <2> QED
    BY <2>1, <2>2, <1>f DEF CorpsesHeld
<1>5. CASE Moves(s)
  BY <1>5, <1>f DEF Moves, CorpsesHeld
<1> QED
  BY <1>0, <1>1, <1>2, <1>3, <1>4, <1>5 DEF Kinds

LEMMA SlaveHeld ==
    ASSUME Steady, IInv, IInv', HeldInv, NEW s \in Slave, SlaveStep(s)
    PROVE  HeldInv'
<1>t. status \in [Port -> Status]
  BY DEF IInv, TypeInv, TypeOK, DBTypeOK
<1>0. Kinds(s) /\ CorpsesHeld'
  BY SlaveKinds, SlaveCorpses DEF Steady, HeldInv
<1>f. \A t \in Slave : t # s => sl'[t] = sl[t]
  BY SlaveFrame DEF IInv
<1>a. UNCHANGED admin
  BY DEF SlaveStep, MainStep, SlaveFault, Start, Main, ResetLog, ResetStatus, Unlock, Fill,
         Select, Insert, Nap, ForkWorker, NoWorkerId, Register, Sleep, KillWait, Search,
         Sweep, Quit, Reap, ForkFails, Term, Die, SlaveLosesDB, ReplyLost, Ends, Keeps
<1>1. CASE Drops(s) \/ Adds(s)
  BY <1>0, <1>1, <1>a, <1>f, HeldKeeps DEF Drops, Adds
<1>2. CASE Buries(s)
  <2>1. sl'[s].pc # "resetstatus"
    BY <1>2 DEF Buries
  <2> QED
    BY <1>0, <1>2, <1>a, <1>f, <2>1, HeldKeeps DEF Buries
<1>3. CASE ResetsLog(s)
  <2>1. /\ UNCHANGED <<status, proc>> /\ logs' = logs \ {sl[s].lock.port}
        /\ sl'[s].lock = sl[s].lock
    BY <1>3 DEF ResetsLog, DeleteLog
  <2> QED
    BY <1>0, <1>a, <1>f, <2>1, HeldKeeps
<1>4. CASE ResetsStatus(s)
  <2> DEFINE p == sl[s].lock.port
  <2>1. /\ sl[s].pc = "resetstatus" /\ sl'[s].pc = "unlock" /\ UNCHANGED <<logs, proc>>
        /\ status' = [status EXCEPT ![p] = "untested"]
    BY <1>4 DEF ResetsStatus, SetStatus
  <2>2. \A w \in Pid : Active(w) => PortOf(w) # p /\ PortOf(w) \in Port
    BY <2>1, CorpsePort, OwnPort DEF HeldInv
  <2>3. p \notin logs
    BY <2>1 DEF HeldInv, LogsTrue
  <2> HIDE DEF p
  <2>4. ResultsTrue'
    <3> SUFFICES ASSUME NEW w \in Pid
                 PROVE  /\ proc[w].pc = "upload" => Built(PortOf(w))'
                        /\ proc[w].tpc = "log" => status'[PortOf(w)] = "fail"
      BY <2>1 DEF ResultsTrue, PortOf
    <3>1. CASE Active(w)
      BY <2>1, <2>2, <3>1, <1>t DEF HeldInv, ResultsTrue, Built, PortOf
    <3>2. CASE ~ Active(w)
      BY <3>2 DEF Active, IInv, Undisturbed, TestRuns
    <3> QED
      BY <3>1, <3>2
  <2>5. LogsTrue'
    BY <2>1, <2>3, <1>f, <1>t DEF HeldInv, LogsTrue
  <2> QED
    BY <1>0, <1>a, <2>4, <2>5 DEF HeldInv
<1>5. CASE Collects(s)
  <2>1. /\ UNCHANGED <<status, logs>>
        /\ sl'[s].pc # "resetstatus" \/ sl'[s].pc = sl[s].pc
        /\ sl'[s].lock = sl[s].lock /\ \A w \in Pid : Kept(w)
    BY <1>5 DEF Collects
  <2> QED
    BY <1>0, <1>5, <1>a, <1>f, <2>1, HeldKeeps DEF Kept, Collects
<1>6. CASE Moves(s)
  BY <1>0, <1>6, <1>a, <1>f, HeldKeeps DEF Moves, Kept
<1> QED
  BY <1>0, <1>1, <1>2, <1>3, <1>4, <1>5, <1>6 DEF Kinds

LEMMA NextHeld ==
    ASSUME Steady
    PROVE  IInv /\ HeldInv /\ [Next]_vars => IInv' /\ HeldInv'
<1> SUFFICES ASSUME IInv, HeldInv, [Next]_vars PROVE IInv' /\ HeldInv'
  OBVIOUS
<1>0. IInv'
  BY NextIInv DEF Steady
<1>t. /\ proc \in [Pid -> Proc] /\ sl \in [Slave -> SlaveState]
      /\ dead \in [Slave -> SUBSET Corpse]
  BY DEF IInv, TypeInv, TypeOK, WorkerTypeOK
<1>1. CASE UNCHANGED vars
  <2>1. UNCHANGED <<locks, status, logs, proc, sl, dead, admin>>
    BY <1>1 DEF vars, dbVars, workerVars, slaveVars
  <2>2. CorpsesHeld'
    BY <2>1 DEF HeldInv, CorpsesHeld
  <2> QED
    BY <1>0, <2>1, <2>2, HeldKeeps
<1>2. ASSUME NEW s \in Slave, MainStep(s) \/ Reap(s) \/ SlaveFault(s)
      PROVE  HeldInv'
  BY <1>0, <1>2, SlaveHeld DEF SlaveStep
<1>3. ASSUME NEW w \in Pid, ProcStep(w)
      PROVE  HeldInv'
  BY <1>0, <1>3, ProcHeld DEF Steady
<1>4. ASSUME NEW m \in Machine, Reboot(m)
      PROVE  HeldInv'
  <2>1. /\ UNCHANGED <<locks, status, logs, admin>>
        /\ \A w \in Pid : proc'[w] = proc[w] \/ proc'[w] = NoProc
        /\ \A s \in Slave : \/ dead'[s] = dead[s] /\ sl'[s] = sl[s]
                            \/ dead'[s] = {} /\ sl'[s].pc = "off"
    BY <1>4, <1>t DEF Reboot, At, dbVars
  <2>2. CorpsesHeld'
    BY <2>1 DEF HeldInv, CorpsesHeld
  <2> QED
    BY <1>0, <2>1, <2>2, HeldKeeps DEF NoProc, Active
<1>5. ~ (AdminResetLog \/ AdminResetStatus \/ AdminUnlock)
  BY DEF AdminResetLog, AdminResetStatus, AdminUnlock, Disturb, Steady, NoKillers, HeldInv
<1> QED
  BY <1>0, <1>1, <1>2, <1>3, <1>4, <1>5 DEF Next

LEMMA InitHeld == Init => HeldInv
BY DEF Init, DBInit, WorkerInit, NoProc, At, HeldInv, CorpsesHeld, ResultsTrue, LogsTrue

\* The invariant of the statuses and logs.
LEMMA Holding ==
    ASSUME Steady
    PROVE  Spec => [](IInv /\ HeldInv)
BY InitIInv, InitHeld, NextHeld, PTL DEF Spec

\* A port that is ready for a test has no log of an earlier one: Port::reset
\* deletes the log before the status, and nobody else makes a port untested.
THEOREM ReadyIsPristine ==
    ASSUME Steady
    PROVE  Spec => []PristineWhenReady
<1>1. HeldInv => PristineWhenReady
  BY DEF HeldInv, LogsTrue, PristineWhenReady, ReadyPorts
<1> QED
  BY <1>1, Holding, PTL

\* Whose status changes is locked.
LEMMA StatusMoves ==
    ASSUME Steady, IInv, HeldInv, [Next]_vars, NEW p \in Port, status'[p] # status[p]
    PROVE  Locked(p)
<1>t. status \in [Port -> Status]
  BY DEF IInv, TypeInv, TypeOK, DBTypeOK
<1>1. ASSUME NEW s \in Slave, MainStep(s) \/ Reap(s) \/ SlaveFault(s)
      PROVE  Locked(p)
  <2>1. ResetsStatus(s)
    BY <1>1, SlaveKinds DEF SlaveStep, Steady, Kinds, Drops, Adds, Buries, ResetsLog, Collects,
                            Moves
  <2> QED
    BY <2>1, <1>t, CorpsePort DEF ResetsStatus, SetStatus, HeldInv
<1>2. ASSUME NEW w \in Pid, ProcStep(w)
      PROVE  Locked(p)
  <2>1. Active(w) /\ \E r \in Result : Reports(w, r)
    BY <1>2, ProcKinds DEF Steady, WorkKinds, Works, Stores, Logs
  <2> QED
    BY <2>1, <1>t, OwnPort DEF Reports, SetStatus
<1>3. ~ (AdminResetLog \/ AdminResetStatus \/ AdminUnlock)
  BY DEF AdminResetLog, AdminResetStatus, AdminUnlock, Disturb, Steady, NoKillers, HeldInv
<1> QED
  BY <1>1, <1>2, <1>3 DEF Next, Reboot, vars, dbVars

\* The status of a port changes only while the port is locked, if nobody resets
\* ports at the web front end.
THEOREM StatusesLocked ==
    ASSUME Steady
    PROVE  Spec => StatusUnderLock
<1>1. IInv /\ HeldInv /\ [Next]_vars => [\A p \in Port : status'[p] # status[p] => Locked(p)]_vars
  BY StatusMoves
<1> QED
  BY <1>1, Holding, PTL DEF Spec, StatusUnderLock

-----------------------------------------------------------------------------
(* The slaves implement BuildQueue.                                        *)

\* The owner of p, if L is table locks.
OwnerIn(L, p) ==
    IF \E l \in L : l.port = p THEN (CHOOSE l \in L : l.port = p).machine ELSE None

LEMMA OwnerOf ==
    ASSUME NEW L, L \subseteq Lock, \A k, l \in L : k.port = l.port => k = l, NEW p
    PROVE  /\ (\A l \in L : l.port # p) => OwnerIn(L, p) = None
           /\ \A l \in L : l.port = p => /\ OwnerIn(L, p) = l.machine
                                         /\ l.machine \in Machine /\ l.machine # None
<1>1. ASSUME NEW l \in L, l.port = p
      PROVE  (CHOOSE k \in L : k.port = p) = l
  BY <1>1
<1> QED
  BY <1>1, NoneAssumption DEF OwnerIn, Lock

Owners == [p \in Port |-> Owner(p)]

LEMMA OwnersIn ==
    /\ Owners = [p \in Port |-> OwnerIn(locks, p)]
    /\ Owners' = [p \in Port |-> OwnerIn(locks', p)]
BY DEF Owners, Owner, OwnerIn, Locked

\* The steps of the queue ...
Takes(p) ==
    /\ Owners[p] = None
    /\ \E m \in Machine : Owners' = [Owners EXCEPT ![p] = m]
    /\ UNCHANGED <<status, pkgs>>

Tells(p) ==
    /\ Owners[p] # None
    /\ \E r \in Status : SetStatus(p, r)
    /\ UNCHANGED <<Owners, pkgs>>

Stocks(p) ==
    /\ Owners[p] # None
    /\ Built(p)
    /\ pkgs' = pkgs \cup {p}
    /\ UNCHANGED <<Owners, status>>

Gives(p) ==
    /\ Owners[p] # None
    /\ Done(p)
    /\ Owners' = [Owners EXCEPT ![p] = None]
    /\ UNCHANGED <<status, pkgs>>

\* ... are those of BuildQueue.
LEMMA QueueSteps ==
    ASSUME NEW p \in Port, Takes(p) \/ Tells(p) \/ Stocks(p) \/ Gives(p)
    PROVE  Queue!Next
BY DEF Takes, Tells, Stocks, Gives, Queue!Next, Queue!Claim, Queue!Report, Queue!Store,
       Queue!Release, Queue!Results, Owners, Status, SetStatus, Built, Done

LEMMA QueueStutters ==
    ASSUME UNCHANGED <<status, locks, pkgs>>
    PROVE  UNCHANGED Queue!queueVars
BY DEF Queue!queueVars, Owner, Locked

\* A locked port has an owner.
LEMMA HasOwner ==
    ASSUME IInv, NEW p \in Port, Locked(p)
    PROVE  Owners[p] # None
<1>1. PICK l \in locks : l.port = p
  BY DEF Locked
<1> QED
  BY <1>1, OwnerOf, OwnersIn DEF IInv, LocksKeyed, TypeInv, TypeOK, DBTypeOK

LEMMA ProcQueue ==
    ASSUME Steady, IInv, HeldInv, NEW w \in Pid, ProcStep(w)
    PROVE  Queue!Next \/ UNCHANGED Queue!queueVars
<1>0. /\ WorkKinds(w) /\ UNCHANGED locks
      /\ PortOf(w) \in Port /\ Owners[PortOf(w)] # None
  BY ProcKinds, OwnPort, HasOwner DEF Steady, Same
<1>o. UNCHANGED Owners
  BY <1>0, OwnersIn
<1>1. CASE Works(w) \/ Logs(w)
  BY <1>0, <1>1, QueueStutters DEF Works, Logs
<1>2. CASE Stores(w)
  <2>1. Stocks(PortOf(w))
    BY <1>0, <1>o, <1>2 DEF Stores, Stocks, HeldInv, ResultsTrue
  <2> QED
    BY <1>0, <2>1, QueueSteps
<1>3. ASSUME NEW r \in Result, Reports(w, r)
      PROVE  Queue!Next
  <2>1. Tells(PortOf(w))
    BY <1>0, <1>o, <1>3 DEF Reports, Tells, Result
  <2> QED
    BY <1>0, <2>1, QueueSteps
<1> QED
  BY <1>0, <1>1, <1>2, <1>3 DEF WorkKinds

LEMMA SlaveQueue ==
    ASSUME Steady, IInv, IInv', HeldInv, PackInv, NEW s \in Slave, SlaveStep(s)
    PROVE  Queue!Next \/ UNCHANGED Queue!queueVars
<1>t. /\ locks \subseteq Lock /\ nextLock \in Nat /\ sl[s] \in SlaveState
      /\ \A k, l \in locks : k.port = l.port \/ k.id = l.id => k = l
      /\ locks' \subseteq Lock /\ \A k, l \in locks' : k.port = l.port => k = l
  BY DEF IInv, LocksKeyed, TypeInv, TypeOK, DBTypeOK
<1>0. Kinds(s)
  BY SlaveKinds DEF Steady
<1>1. CASE Drops(s)
  <2> DEFINE l == sl[s].lock
             p == sl[s].lock.port
  <2>1. /\ locks' = {k \in locks : k.id # l.id} /\ UNCHANGED <<status, pkgs>>
        /\ sl[s].pc = "unlock"
    BY <1>1 DEF Drops, DeleteLock
  <2>2. l \in locks /\ p \in Port /\ Owners[p] # None /\ Done(p)
    BY <2>1, CorpsePort, HasOwner DEF HeldInv, PackInv, UnlocksDone
  <2> HIDE DEF l
  <2>3. OwnerIn(locks', l.port) = None
    BY <2>1, <2>2, <1>t, OwnerOf
  <2>4. ASSUME NEW q \in Port, q # l.port
        PROVE  OwnerIn(locks', q) = OwnerIn(locks, q)
    <3>1. CASE \E k \in locks : k.port = q
      <4>1. PICK k \in locks : k.port = q
        BY <3>1
      <4>2. k \in locks'
        BY <2>1, <2>2, <2>4, <4>1, <1>t
      <4> QED
        BY <4>1, <4>2, <1>t, OwnerOf
    <3>2. CASE \A k \in locks : k.port # q
      <4>1. \A k \in locks' : k.port # q
        BY <2>1, <3>2
      <4> QED
        BY <3>2, <4>1, <1>t, OwnerOf
    <3> QED
      BY <3>1, <3>2
  <2>5. Owners' = [Owners EXCEPT ![l.port] = None]
    BY <2>2, <2>3, <2>4, OwnersIn DEF l
  <2>6. Gives(p)
    BY <2>1, <2>2, <2>5 DEF Gives, l
  <2> QED
    BY <2>2, <2>6, QueueSteps
<1>2. CASE Adds(s)
  <2> DEFINE p == sl[s].port
             new == NewLock(sl[s].port, Host[s])
  <2>1. /\ ~ Locked(p) /\ locks' = locks \cup {new} /\ UNCHANGED <<status, pkgs>>
        /\ new.port = p /\ new.machine = Host[s] /\ Host[s] \in Machine
    BY <1>2, HostAssumption DEF Adds, InsertLock, NewLock, Duplicate
  <2>2. p \in Port
    BY <1>2, <1>t DEF Adds, SlaveState, IInv, TypeInv, SlaveControl
  <2> HIDE DEF new, p
  <2>3. OwnerIn(locks, p) = None /\ OwnerIn(locks', p) = Host[s]
    BY <2>1, <1>t, OwnerOf DEF Locked
  <2>4. ASSUME NEW q \in Port, q # p
        PROVE  OwnerIn(locks', q) = OwnerIn(locks, q)
    <3>1. CASE \E k \in locks : k.port = q
      <4>1. PICK k \in locks : k.port = q
        BY <3>1
      <4> QED
        BY <2>1, <4>1, <1>t, OwnerOf
    <3>2. CASE \A k \in locks : k.port # q
      <4>1. \A k \in locks' : k.port # q
        BY <2>1, <2>4, <3>2
      <4> QED
        BY <3>2, <4>1, <1>t, OwnerOf
    <3> QED
      BY <3>1, <3>2
  <2>5. Owners[p] = None /\ Owners' = [Owners EXCEPT ![p] = Host[s]]
    BY <2>2, <2>3, <2>4, OwnersIn
  <2>6. Takes(p)
    BY <2>1, <2>5 DEF Takes
  <2> QED
    BY <2>2, <2>6, QueueSteps
<1>3. CASE ResetsStatus(s)
  <2>1. /\ sl[s].lock.port \in Port /\ Owners[sl[s].lock.port] # None
        /\ UNCHANGED <<locks, pkgs>> /\ SetStatus(sl[s].lock.port, "untested")
    BY <1>3, CorpsePort, HasOwner DEF ResetsStatus, HeldInv
  <2>2. Tells(sl[s].lock.port)
    BY <2>1, OwnersIn DEF Tells, Status
  <2> QED
    BY <2>1, <2>2, QueueSteps
<1>4. CASE Buries(s) \/ ResetsLog(s) \/ Collects(s) \/ Moves(s)
  BY <1>4, QueueStutters DEF Buries, ResetsLog, Collects, Moves
<1> QED
  BY <1>0, <1>1, <1>2, <1>3, <1>4 DEF Kinds

\* The slaves implement BuildQueue: a port has one owner at a time, its status
\* and its package change under its lock only, and whoever gives a built port
\* up has stored its package.  Every step is one of the queue, or none.
THEOREM QueueImplemented ==
    ASSUME Steady
    PROVE  Spec => ImplementsBuildQueue
<1>1. Init => Queue!Init
  BY DEF Init, DBInit, Queue!Init, Owner, Locked
<1>2. IInv /\ IInv' /\ HeldInv /\ PackInv /\ [Next]_vars => [Queue!Next]_(Queue!queueVars)
  <2> SUFFICES ASSUME IInv, IInv', HeldInv, PackInv, [Next]_vars
               PROVE  Queue!Next \/ UNCHANGED Queue!queueVars
    OBVIOUS
  <2>1. CASE UNCHANGED vars
    BY <2>1, QueueStutters DEF vars, dbVars
  <2>2. ASSUME NEW s \in Slave, MainStep(s) \/ Reap(s) \/ SlaveFault(s)
        PROVE  Queue!Next \/ UNCHANGED Queue!queueVars
    BY <2>2, SlaveQueue DEF SlaveStep
  <2>3. ASSUME NEW w \in Pid, ProcStep(w)
        PROVE  Queue!Next \/ UNCHANGED Queue!queueVars
    BY <2>3, ProcQueue
  <2>4. ASSUME NEW m \in Machine, Reboot(m)
        PROVE  UNCHANGED Queue!queueVars
    BY <2>4, QueueStutters DEF Reboot, dbVars
  <2>5. ~ (AdminResetLog \/ AdminResetStatus \/ AdminUnlock)
    BY DEF AdminResetLog, AdminResetStatus, AdminUnlock, Disturb, Steady, NoKillers, HeldInv
  <2> QED
    BY <2>1, <2>2, <2>3, <2>4, <2>5 DEF Next
<1>3. IInv /\ PackInv /\ [Next]_vars => PackInv'
  BY NextPack DEF Steady
<1> QED
  BY <1>1, <1>2, <1>3, InitPack, Holding, PTL DEF Spec, Queue!Spec, ImplementsBuildQueue

-----------------------------------------------------------------------------
(* One supervisor.  Between get_ready_port and the INSERT of the lock, a    *)
(* second one may claim the port, test it and give it back.                *)

OneSlave == \A s, t \in Slave : s = t

\* From the moment it is selected until its result is reported, a port is
\* untested; and until the INSERT it is unlocked.
Fresh ==
    /\ \A s \in Slave :
          /\ sl[s].pc = "insert" => status[sl[s].port] = "untested" /\ ~ Locked(sl[s].port)
          /\ sl[s].pc = "claimed" => status[sl[s].lock.port] = "untested"
    /\ \A w \in Pid : Early(w) => status[PortOf(w)] = "untested"

OnceInv ==
    /\ Fresh
    /\ \A p \in logs : status[p] \in {"fail", "internal"}

\* Who is not there is not early.
LEMMA EarlyActive == \A w \in Pid : IInv /\ Early(w) => Active(w)
BY DEF IInv, Undisturbed, TestRuns, Early, Active

LEMMA EarlyActiveNext == \A w \in Pid : IInv' /\ Early(w)' => Active(w)'
BY DEF IInv, Undisturbed, TestRuns, Early, Active

LEMMA ProcOnce ==
    ASSUME NoKillers, IInv, IInv', HeldInv, OnceInv, NEW w \in Pid, ProcStep(w)
    PROVE  OnceInv'
<1>t. status \in [Port -> Status]
  BY DEF IInv, TypeInv, TypeOK, DBTypeOK
<1>0. /\ WorkKinds(w) /\ Active(w) /\ UNCHANGED <<sl, locks>>
      /\ \A v \in Pid : v # w => proc'[v] = proc[v]
      /\ Early(w)' => Active(w)' /\ proc'[w].lock = proc[w].lock
  BY ProcKinds, EarlyActiveNext DEF Same, Active
<1>1. ASSUME UNCHANGED status, Early(w)' => Early(w)
      PROVE  Fresh'
  BY <1>0, <1>1 DEF OnceInv, Fresh, Early, Locked, PortOf
<1>2. CASE Works(w)
  BY <1>0, <1>1, <1>2 DEF Works, OnceInv
<1>3. CASE Stores(w)
  BY <1>0, <1>1, <1>3 DEF Stores, OnceInv, Early
<1>4. CASE Logs(w)
  <2>1. status[PortOf(w)] = "fail"
    BY <1>4 DEF Logs, HeldInv, ResultsTrue
  <2>2. ~ Early(w)' /\ UNCHANGED status /\ logs' = logs \cup {PortOf(w)}
    BY <1>4 DEF Logs, Early
  <2> QED
    BY <1>1, <2>1, <2>2 DEF OnceInv
<1>5. ASSUME NEW r \in Result, Reports(w, r)
      PROVE  OnceInv'
  <2>1. /\ PortOf(w) \in Port /\ status'[PortOf(w)] = r
        /\ \A p \in Port : p # PortOf(w) => status'[p] = status[p]
        /\ UNCHANGED logs /\ ~ Early(w)'
    BY <1>0, <1>5, <1>t, OwnPort DEF Reports, SetStatus
  <2>2. ASSUME NEW s \in Slave, sl[s].pc = "insert"
        PROVE  status'[sl[s].port] = "untested" /\ ~ Locked(sl[s].port)'
    <3>1. sl[s].port \in Port
      BY <2>2 DEF IInv, TypeInv, TypeOK, SlaveState, SlaveControl
    <3>2. sl[s].port # PortOf(w)
      BY <1>0, <2>2, OwnPort DEF OnceInv, Fresh
    <3> QED
      BY <1>0, <2>1, <2>2, <3>1, <3>2 DEF OnceInv, Fresh, Locked
  <2>3. ASSUME NEW s \in Slave, sl[s].pc = "claimed"
        PROVE  status'[sl[s].lock.port] = "untested"
    <3>1. sl[s].lock.port \in Port /\ sl[s].lock.port # PortOf(w)
      BY <1>0, <2>3, OwnPort DEF IInv, ClaimsApart, TypeInv, TypeOK, DBTypeOK, Lock
    <3> QED
      BY <2>1, <2>3, <3>1 DEF OnceInv, Fresh
  <2>4. ASSUME NEW v \in Pid, Early(v)'
        PROVE  status'[proc'[v].lock.port] = "untested"
    <3>1. v # w /\ proc'[v] = proc[v] /\ Early(v) /\ Active(v)
      BY <1>0, <2>1, <2>4, EarlyActive DEF Early
    <3>2. PortOf(v) \in Port /\ PortOf(v) # PortOf(w)
      BY <1>0, <3>1, OwnPort
    <3> QED
      BY <2>1, <3>1, <3>2 DEF OnceInv, Fresh, PortOf
  <2>5. Fresh'
    BY <1>0, <2>2, <2>3, <2>4 DEF Fresh, PortOf
  <2>6. ASSUME NEW p \in logs, p = PortOf(w)
        PROVE  r = "internal"
    <3>1. ~ Early(w)
      BY <2>6 DEF OnceInv, Fresh
    <3> QED
      BY <1>5, <3>1 DEF Reports
  <2>7. \A p \in logs' : status'[p] \in {"fail", "internal"}
    BY <2>1, <2>6 DEF OnceInv, IInv, TypeInv, TypeOK, DBTypeOK
  <2> QED
    BY <2>5, <2>7 DEF OnceInv
<1> QED
  BY <1>0, <1>2, <1>3, <1>4, <1>5 DEF WorkKinds

LEMMA SlaveOnce ==
    ASSUME Steady, OneSlave, IInv, IInv', HeldInv, OnceInv, NEW s \in Slave, SlaveStep(s)
    PROVE  OnceInv'
<1>t. status \in [Port -> Status]
  BY DEF IInv, TypeInv, TypeOK, DBTypeOK
<1>0. Kinds(s) /\ \A t \in Slave : t = s
  BY SlaveKinds DEF Steady, OneSlave
<1>1. CASE Drops(s) \/ Adds(s) \/ Buries(s) \/ ResetsLog(s)
  <2>1. /\ UNCHANGED <<status, proc>> /\ logs' \subseteq logs
        /\ sl'[s].pc # "insert"
    BY <1>1 DEF Drops, Adds, Buries, ResetsLog, DeleteLog
  <2>2. sl'[s].pc = "claimed" => status[sl'[s].lock.port] = "untested"
    BY <1>1 DEF Drops, Adds, Buries, ResetsLog, NewLock, OnceInv, Fresh
  <2>3. Fresh'
    BY <1>0, <2>1, <2>2 DEF OnceInv, Fresh, Early, PortOf
  <2> QED
    BY <2>1, <2>3 DEF OnceInv
<1>2. CASE ResetsStatus(s)
  <2> DEFINE p == sl[s].lock.port
  <2>1. /\ status' = [status EXCEPT ![p] = "untested"] /\ UNCHANGED <<logs, proc>>
        /\ sl'[s].pc = "unlock" /\ sl[s].pc = "resetstatus"
    BY <1>2 DEF ResetsStatus, SetStatus
  <2>2. p \notin logs
    BY <2>1 DEF HeldInv, LogsTrue
  <2> HIDE DEF p
  <2>3. ASSUME NEW w \in Pid, Early(w)
        PROVE  status'[PortOf(w)] = "untested"
    <3>1. status[PortOf(w)] = "untested" /\ PortOf(w) \in Port
      BY <2>3, EarlyActive, OwnPort DEF OnceInv, Fresh
    <3> QED
      BY <2>1, <3>1, <1>t
  <2>4. Fresh'
    BY <1>0, <2>1, <2>3 DEF Fresh, Early, PortOf
  <2>5. \A q \in logs' : status'[q] \in {"fail", "internal"}
    BY <2>1, <2>2, <1>t DEF OnceInv, IInv, TypeInv, TypeOK, DBTypeOK
  <2> QED
    BY <2>4, <2>5 DEF OnceInv
<1>3. CASE Collects(s)
  <2>1. /\ UNCHANGED <<status, locks, logs>> /\ \A w \in Pid : Kept(w)
        /\ sl'[s].pc \in {sl[s].pc, "main"}
        /\ sl'[s].lock = sl[s].lock /\ sl'[s].port = sl[s].port
    BY <1>3 DEF Collects
  <2>2. \A w \in Pid : Early(w)' => Early(w) /\ proc'[w].lock = proc[w].lock
    BY <2>1, EarlyActiveNext DEF Kept, Early
  <2> QED
    BY <1>0, <2>1, <2>2 DEF OnceInv, Fresh, PortOf, Locked
<1>4. CASE Moves(s)
  <2>1. UNCHANGED <<status, locks, logs>> /\ sl'[s].pc # "claimed"
    BY <1>4 DEF Moves
  <2>2. sl'[s].pc = "insert" => status[sl'[s].port] = "untested" /\ ~ Locked(sl'[s].port)
    BY <1>4 DEF Moves, ReadyPorts
  <2>3. ASSUME NEW w \in Pid, Early(w)'
        PROVE  status[proc'[w].lock.port] = "untested"
    <3>1. CASE Kept(w)
      <4>1. Early(w) /\ proc'[w].lock = proc[w].lock
        BY <2>3, <3>1, EarlyActiveNext DEF Kept, Early
      <4> QED
        BY <4>1 DEF OnceInv, Fresh, PortOf
    <3>2. CASE ~ Kept(w)
      BY <1>4, <3>2 DEF Moves, OnceInv, Fresh
    <3> QED
      BY <3>1, <3>2
  <2>4. Fresh'
    BY <1>0, <2>1, <2>2, <2>3 DEF Fresh, PortOf, Locked
  <2> QED
    BY <2>1, <2>4 DEF OnceInv
<1> QED
  BY <1>0, <1>1, <1>2, <1>3, <1>4 DEF Kinds

LEMMA NextOnce ==
    ASSUME Steady, OneSlave
    PROVE  IInv /\ IInv' /\ HeldInv /\ OnceInv /\ [Next]_vars => OnceInv'
<1> SUFFICES ASSUME IInv, IInv', HeldInv, OnceInv, [Next]_vars PROVE OnceInv'
  OBVIOUS
<1>t. /\ proc \in [Pid -> Proc] /\ sl \in [Slave -> SlaveState]
  BY DEF IInv, TypeInv, TypeOK, WorkerTypeOK
<1>1. CASE UNCHANGED vars
  BY <1>1 DEF vars, dbVars, workerVars, slaveVars, OnceInv, Fresh, Early, PortOf, Locked
<1>2. ASSUME NEW s \in Slave, MainStep(s) \/ Reap(s) \/ SlaveFault(s)
      PROVE  OnceInv'
  BY <1>2, SlaveOnce DEF SlaveStep
<1>3. ASSUME NEW w \in Pid, ProcStep(w)
      PROVE  OnceInv'
  BY <1>3, ProcOnce DEF Steady
<1>4. ASSUME NEW m \in Machine, Reboot(m)
      PROVE  OnceInv'
  <2>1. /\ UNCHANGED <<locks, status, logs>>
        /\ \A w \in Pid : proc'[w] = proc[w] \/ proc'[w] = NoProc
        /\ \A s \in Slave : sl'[s] = sl[s] \/ sl'[s].pc = "off"
    BY <1>4, <1>t DEF Reboot, At, dbVars
  <2> QED
    BY <2>1 DEF OnceInv, Fresh, Early, PortOf, Locked, NoProc
<1>5. ~ (AdminResetLog \/ AdminResetStatus \/ AdminUnlock)
  BY DEF AdminResetLog, AdminResetStatus, AdminUnlock, Disturb, Steady, NoKillers, HeldInv
<1> QED
  BY <1>1, <1>2, <1>3, <1>4, <1>5 DEF Next

LEMMA Testing ==
    ASSUME Steady, OneSlave
    PROVE  Spec => [](IInv /\ HeldInv /\ OnceInv)
<1>1. Init => OnceInv
  BY DEF Init, DBInit, WorkerInit, NoProc, At, OnceInv, Fresh, Early
<1> QED
  BY <1>1, NextOnce, Holding, PTL DEF Spec

\* A log is only kept with a result that has one, or while a new test is under
\* way, when there is one supervisor: insert_results never meets an old log.
THEOREM LogsExplained ==
    ASSUME Steady, OneSlave
    PROVE  Spec => []LogExplained
<1>1. OnceInv => LogExplained
  BY DEF OnceInv, LogExplained
<1> QED
  BY <1>1, Testing, PTL

=============================================================================
