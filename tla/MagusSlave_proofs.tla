-------------------------- MODULE MagusSlave_proofs --------------------------
(***************************************************************************)
(* Theorems about module MagusSlave, for any number of slaves, ports,      *)
(* workers and faults.                                                     *)
(***************************************************************************)
EXTENDS MagusSlave, TLAPS

-----------------------------------------------------------------------------
(* Updates of the two arrays of records.                                   *)

Running == {"build", "status", "log"}

\* The record of one worker changes.
LEMMA ProcUpdate ==
    ASSUME WorkerTypeOK, WorkerControl, NEW w \in Pid, NEW r \in Proc,
           proc' = [proc EXCEPT ![w] = r],
           r.pc # "free" \/ r.tpc \in Running => r.lock # None,
           r.tpc = "status" => r.result # None
    PROVE  proc' \in [Pid -> Proc] /\ WorkerControl'
BY DEF WorkerTypeOK, WorkerControl, Active, TestRuns, Running

\* The record of one supervisor changes.
LEMMA SlaveUpdate ==
    ASSUME TypeOK, SlaveControl, NEW s \in Slave, NEW r \in SlaveState,
           sl' = [sl EXCEPT ![s] = r],
           r.pc = "insert" => r.port # None,
           r.pc = "claimed" => r.lock # None,
           r.pc = "forked" => r.child # None
    PROVE  sl' \in [Slave -> SlaveState] /\ SlaveControl'
BY DEF TypeOK, SlaveControl

\* A signal is put into a record.
LEMMA SignalType ==
    ASSUME NEW p \in Proc, NEW i \in BOOLEAN, NEW t \in BOOLEAN
    PROVE  LET q == [p EXCEPT !.int = i, !.tint = t]
           IN  q \in Proc /\ q.pc = p.pc /\ q.tpc = p.tpc /\ q.lock = p.lock
               /\ q.result = p.result
BY DEF Proc

\* Waiting for a worker leaves a well-typed record.
LEMMA ReapedType ==
    ASSUME WorkerTypeOK, WorkerControl, NEW w \in Pid
    PROVE  /\ Reaped(w) \in Proc
           /\ Reaped(w).pc = "free"
           /\ Reaped(w).tpc \in Running => Reaped(w).lock # None
           /\ Reaped(w).tpc = "status" => Reaped(w).result # None
<1>1. proc[w] \in Proc
  BY DEF WorkerTypeOK
<1>2. CASE TestRuns(w)
  <2> DEFINE r == [proc[w] EXCEPT !.pc = "free", !.int = FALSE]
  <2>1. Reaped(w) = r
    BY <1>2 DEF Reaped
  <2>2. /\ r \in Proc /\ r.pc = "free"
        /\ r.lock = proc[w].lock /\ r.tpc = proc[w].tpc /\ r.result = proc[w].result
    BY <1>1 DEF Proc, WorkerPC
  <2> HIDE DEF r
  <2> QED
    BY <1>2, <2>1, <2>2 DEF WorkerControl
<1>3. CASE ~ TestRuns(w)
  BY <1>3 DEF Reaped, NoProc, Proc, WorkerPC, TestPC, Running
<1> QED
  BY <1>2, <1>3

\* A worker that exits leaves well-typed records.
LEMMA ExitType ==
    ASSUME WorkerTypeOK, WorkerControl, NEW w \in Pid, NEW code \in {0, 6}, Exit(w, code),
           proc[w].pc # "free"
    PROVE  /\ proc' \in [Pid -> Proc]
           /\ sigchld' \in [Slave -> BOOLEAN]
           /\ WorkerControl'
<1>1. CASE proc[w].slave = None
  <2>1. proc' = [proc EXCEPT ![w] = Reaped(w)] /\ sigchld' = sigchld
    BY <1>1 DEF Exit
  <2> QED
    BY <2>1, ReapedType, ProcUpdate DEF WorkerTypeOK
<1>2. CASE proc[w].slave # None
  <2> DEFINE r == [proc[w] EXCEPT !.pc = "zombie", !.code = code, !.int = FALSE, !.todo = {},
                                  !.sweep = {}, !.hand = None]
  <2>1. /\ proc' = [proc EXCEPT ![w] = r]
        /\ sigchld' = [sigchld EXCEPT ![proc[w].slave] = TRUE]
    BY <1>2 DEF Exit
  <2>2. proc[w] \in Proc
    BY DEF WorkerTypeOK
  <2>z. "zombie" \in WorkerPC
    BY DEF WorkerPC
  <2>3. /\ r \in Proc
        /\ r.lock = proc[w].lock /\ r.tpc = proc[w].tpc /\ r.result = proc[w].result
    <3> DEFINE p == proc[w]
    <3> HIDE DEF p
    <3>1. p \in Proc /\ p = proc[w]
      BY <2>2 DEF p
    <3>2. r = [p EXCEPT !.pc = "zombie", !.code = code, !.int = FALSE, !.todo = {},
                        !.sweep = {}, !.hand = None]
      BY <3>1
    <3> HIDE DEF r
    <3>3. r \in Proc
      BY <2>z, <3>1, <3>2 DEF Proc
    <3>4. r.lock = p.lock /\ r.tpc = p.tpc /\ r.result = p.result
      BY <3>1, <3>2 DEF Proc
    <3> QED
      BY <3>1, <3>3, <3>4
  <2> HIDE DEF r
  <2>4. r.lock # None /\ (r.tpc = "status" => r.result # None)
    BY <2>3 DEF WorkerControl, Active
  <2> QED
    BY <2>1, <2>3, <2>4, ProcUpdate DEF WorkerTypeOK
<1> QED
  BY <1>1, <1>2

\* So does a test child.
LEMMA TestExitType ==
    ASSUME WorkerTypeOK, WorkerControl, NEW w \in Pid, TestExit(w)
    PROVE  proc' \in [Pid -> Proc] /\ WorkerControl'
<1> DEFINE r == IF proc[w].pc = "free" THEN NoProc
                ELSE [proc[w] EXCEPT !.tpc = "done", !.result = None, !.tint = FALSE]
<1>1. proc' = [proc EXCEPT ![w] = r]
  BY DEF TestExit
<1>2. proc[w] \in Proc
  BY DEF WorkerTypeOK
<1>3. r \in Proc /\ r.tpc \notin Running /\ (r.pc # "free" => r.lock # None)
  <2>1. CASE proc[w].pc = "free"
    BY <2>1 DEF Proc, NoProc, Running, WorkerPC, TestPC
  <2>2. CASE proc[w].pc # "free"
    BY <1>2, <2>2 DEF Proc, Running, WorkerControl, Active, TestPC
  <2> QED
    BY <2>1, <2>2
<1> HIDE DEF r
<1> QED
  BY <1>1, <1>3, ProcUpdate DEF Running

-----------------------------------------------------------------------------
(* Type correctness.                                                       *)

LEMMA InitType == Init => TypeInv
<1> SUFFICES ASSUME Init PROVE TypeInv
  OBVIOUS
<1>1. DBTypeOK
  BY DEF Init, DBInit, DBTypeOK, Status
<1>2. WorkerTypeOK
  BY FaultAssumption
  DEF Init, WorkerInit, WorkerTypeOK, Proc, NoProc, WorkerPC, TestPC
<1>3. sl \in [Slave -> SlaveState]
  BY DEF Init, At, SlaveState, SlavePC
<1>4. SlaveControl /\ WorkerControl
  BY DEF Init, WorkerInit, NoProc, At, SlaveControl, WorkerControl, Active, TestRuns
<1> QED
  BY <1>1, <1>2, <1>3, <1>4 DEF TypeInv, TypeOK, Init

\* A fault is taken from the budget.
LEMMA BudgetType ==
    ASSUME WorkerTypeOK, NEW kind, Disturb(kind)
    PROVE  budget' \in Nat
BY DEF WorkerTypeOK, Disturb

\* The type part of a step of a worker or a test child.
ProcTyped == DBTypeOK' /\ WorkerTypeOK' /\ WorkerControl'

\* A worker that is not free has a lock.
LEMMA WorkerFacts ==
    ASSUME TypeInv, NEW w \in Pid
    PROVE  /\ proc[w] \in Proc
           /\ proc[w].pc # "free" \/ TestRuns(w) =>
                 proc[w].lock \in Lock /\ proc[w].lock # None /\ PortOf(w) \in Port
BY DEF TypeInv, TypeOK, WorkerTypeOK, WorkerControl, Active, TestRuns, Proc, PortOf, Lock

\* A step of a worker that keeps its lock.
LEMMA KeepsLock ==
    ASSUME TypeInv, NEW w \in Pid, NEW r \in Proc,
           proc' = [proc EXCEPT ![w] = r],
           proc[w].pc # "free" \/ TestRuns(w),
           r.lock = proc[w].lock,
           r.tpc = "status" => r.result # None
    PROVE  proc' \in [Pid -> Proc] /\ WorkerControl'
BY WorkerFacts, ProcUpdate DEF TypeInv, TypeOK

\* A worker that runs the handler it has inherited.
LEMMA InheritedType ==
    ASSUME TypeInv, NEW w \in Pid, Inherited(w)
    PROVE  proc' \in [Pid -> Proc] /\ WorkerControl' /\ UNCHANGED sigchld
<1> DEFINE to == IF proc[w].kids THEN "spin" ELSE "search"
           r == [proc[w] EXCEPT !.pc = to, !.int = FALSE]
<1>1. proc[w] \in Proc /\ proc[w].pc # "free"
  BY WorkerFacts DEF Inherited
<1>2. proc' = [proc EXCEPT ![w] = r] /\ UNCHANGED sigchld
  BY <1>1 DEF Inherited, TypeInv, TypeOK, WorkerTypeOK
<1>3. to \in WorkerPC
  BY DEF WorkerPC
<1> HIDE DEF to
<1>4. /\ r \in Proc /\ r.lock = proc[w].lock /\ r.tpc = proc[w].tpc
      /\ r.result = proc[w].result
  BY <1>1, <1>3 DEF Proc
<1> HIDE DEF r
<1> QED
  BY <1>1, <1>2, <1>4, KeepsLock DEF TypeInv, WorkerControl

LEMMA WorkerStepType ==
    ASSUME TypeInv, NEW w \in Pid, WorkerStep(w)
    PROVE  ProcTyped
<1> USE DEF ProcTyped
<1>t. DBTypeOK /\ WorkerTypeOK /\ WorkerControl
  BY DEF TypeInv, TypeOK
<1>p. /\ proc[w] \in Proc
      /\ proc[w].pc # "free" \/ TestRuns(w) => PortOf(w) \in Port
      /\ proc[w].tpc = "status" => proc[w].result # None
  BY <1>t, WorkerFacts DEF WorkerControl
<1>1. CASE Begin(w)
  <2> DEFINE D == AllDepends(PortOf(w))
  <2>0. proc[w].pc # "free" /\ UNCHANGED <<dbVars, sigchld, budget>>
    BY <1>1 DEF Begin
  <2>1. D \subseteq Port
    BY DEF AllDepends
  <2>2. ASSUME proc' = [proc EXCEPT ![w].pc = "inject", ![w].todo = D]
        PROVE  ProcTyped
    <3> DEFINE r == [proc[w] EXCEPT !.pc = "inject", !.todo = D]
    <3> HIDE DEF D
    <3>1. proc' = [proc EXCEPT ![w] = r]
      BY <2>2, <1>t DEF WorkerTypeOK
    <3>2. /\ r \in Proc /\ r.lock = proc[w].lock /\ r.tpc = proc[w].tpc
          /\ r.result = proc[w].result
      BY <1>p, <2>1 DEF Proc, WorkerPC
    <3> HIDE DEF r
    <3> QED
      BY <1>t, <1>p, <2>0, <3>1, <3>2, KeepsLock DEF WorkerTypeOK, DBTypeOK, dbVars
  <2>3. ASSUME Goto(w, "internal")
        PROVE  ProcTyped
    <3> DEFINE r == [proc[w] EXCEPT !.pc = "internal"]
    <3>1. proc' = [proc EXCEPT ![w] = r]
      BY <2>3, <1>t DEF Goto, WorkerTypeOK
    <3>2. /\ r \in Proc /\ r.lock = proc[w].lock /\ r.tpc = proc[w].tpc
          /\ r.result = proc[w].result
      BY <1>p DEF Proc, WorkerPC
    <3> HIDE DEF r
    <3> QED
      BY <1>t, <1>p, <2>0, <3>1, <3>2, KeepsLock DEF WorkerTypeOK, DBTypeOK, dbVars
  <2> QED
    BY <1>1, <2>2, <2>3 DEF Begin
<1>2. CASE Inject(w)
  <2>0. proc[w].pc # "free" /\ UNCHANGED <<dbVars, sigchld, budget>>
    BY <1>2 DEF Inject
  <2>1. ASSUME NEW d \in Port, proc' = [proc EXCEPT ![w].todo = @ \ {d}]
        PROVE  ProcTyped
    <3> DEFINE r == [proc[w] EXCEPT !.todo = @ \ {d}]
    <3>1. proc' = [proc EXCEPT ![w] = r]
      BY <2>1, <1>t DEF WorkerTypeOK
    <3>2. /\ r \in Proc /\ r.lock = proc[w].lock /\ r.tpc = proc[w].tpc
          /\ r.result = proc[w].result
      BY <1>p DEF Proc
    <3> HIDE DEF r
    <3> QED
      BY <1>t, <1>p, <2>0, <3>1, <3>2, KeepsLock DEF WorkerTypeOK, DBTypeOK, dbVars
  <2>2. ASSUME proc' = [proc EXCEPT ![w].pc = "internal", ![w].todo = {}]
        PROVE  ProcTyped
    <3> DEFINE r == [proc[w] EXCEPT !.pc = "internal", !.todo = {}]
    <3>1. proc' = [proc EXCEPT ![w] = r]
      BY <2>2, <1>t DEF WorkerTypeOK
    <3>2. /\ r \in Proc /\ r.lock = proc[w].lock /\ r.tpc = proc[w].tpc
          /\ r.result = proc[w].result
      BY <1>p DEF Proc, WorkerPC
    <3> HIDE DEF r
    <3> QED
      BY <1>t, <1>p, <2>0, <3>1, <3>2, KeepsLock DEF WorkerTypeOK, DBTypeOK, dbVars
  <2>3. proc[w].todo \subseteq Port
    BY <1>p DEF Proc
  <2> QED
    BY <1>2, <2>1, <2>2, <2>3 DEF Inject
<1>3. CASE ForkTest(w)
  <2> DEFINE r == [proc[w] EXCEPT !.pc = "forked", !.tpc = "build"]
  <2>1. proc' = [proc EXCEPT ![w] = r] /\ UNCHANGED <<dbVars, sigchld, budget>>
    BY <1>3, <1>t DEF ForkTest, WorkerTypeOK
  <2>2. r \in Proc /\ r.lock = proc[w].lock /\ r.tpc = "build" /\ proc[w].pc # "free"
    BY <1>3, <1>p DEF ForkTest, Proc, WorkerPC, TestPC
  <2> HIDE DEF r
  <2> QED
    BY <1>t, <2>1, <2>2, KeepsLock DEF WorkerTypeOK, DBTypeOK, dbVars
<1>4. CASE Await(w)
  <2> DEFINE r == [proc[w] EXCEPT !.pc = "wait"]
  <2>1. proc' = [proc EXCEPT ![w] = r] /\ UNCHANGED <<dbVars, sigchld, budget>>
    BY <1>4, <1>t DEF Await, Goto, WorkerTypeOK
  <2>2. /\ r \in Proc /\ r.lock = proc[w].lock /\ r.tpc = proc[w].tpc
        /\ r.result = proc[w].result /\ proc[w].pc # "free"
    BY <1>4, <1>p DEF Await, Proc, WorkerPC
  <2> HIDE DEF r
  <2> QED
    BY <1>t, <1>p, <2>1, <2>2, KeepsLock DEF WorkerTypeOK, DBTypeOK, dbVars
<1>5. CASE Collect(w)
  <2> DEFINE to == IF proc[w].tpc = "killed" THEN "internal"
                   ELSE IF Built(PortOf(w)) THEN "upload" ELSE "finish"
             r == [proc[w] EXCEPT !.tpc = "none", !.pc = to]
  <2>0. to \in WorkerPC
    BY DEF WorkerPC
  <2> HIDE DEF to
  <2>1. proc' = [proc EXCEPT ![w] = r] /\ UNCHANGED <<dbVars, sigchld, budget>>
    BY <1>5, <1>t DEF Collect, WorkerTypeOK, to
  <2>2. r \in Proc /\ r.lock = proc[w].lock /\ r.tpc = "none" /\ proc[w].pc # "free"
    BY <2>0, <1>5, <1>p DEF Collect, Proc, TestPC
  <2> HIDE DEF r
  <2> QED
    BY <1>t, <2>1, <2>2, KeepsLock DEF WorkerTypeOK, DBTypeOK, dbVars
<1>6. CASE Upload(w)
  <2> DEFINE r == [proc[w] EXCEPT !.pc = "finish"]
  <2>1. /\ proc' = [proc EXCEPT ![w] = r] /\ pkgs' = pkgs \cup {PortOf(w)}
        /\ UNCHANGED <<status, locks, nextLock, logs, sigchld, budget>>
    BY <1>6, <1>t DEF Upload, Goto, WorkerTypeOK
  <2>2. /\ r \in Proc /\ r.lock = proc[w].lock /\ r.tpc = proc[w].tpc
        /\ r.result = proc[w].result /\ proc[w].pc # "free"
    BY <1>6, <1>p DEF Upload, Proc, WorkerPC
  <2> HIDE DEF r
  <2> QED
    BY <1>t, <1>p, <2>1, <2>2, KeepsLock DEF WorkerTypeOK, DBTypeOK
<1>7. CASE Finish(w)
  BY <1>7, <1>t, ExitType DEF Finish, WorkerTypeOK, DBTypeOK, dbVars
<1>8. CASE Internal(w)
  <2> DEFINE r == [proc[w] EXCEPT !.pc = "leave"]
  <2>1. status' \in [Port -> Status]
    BY <1>8, <1>t DEF Internal, SetStatus, DBTypeOK, Status
  <2>2. /\ proc' = [proc EXCEPT ![w] = r]
        /\ UNCHANGED <<locks, nextLock, logs, pkgs, sigchld, budget>>
    BY <1>8, <1>t DEF Internal, Goto, WorkerTypeOK
  <2>3. /\ r \in Proc /\ r.lock = proc[w].lock /\ r.tpc = proc[w].tpc
        /\ r.result = proc[w].result /\ proc[w].pc # "free"
    BY <1>8, <1>p DEF Internal, Proc, WorkerPC
  <2> HIDE DEF r
  <2> QED
    BY <1>t, <1>p, <2>1, <2>2, <2>3, KeepsLock DEF WorkerTypeOK, DBTypeOK
<1>13. CASE Leave(w)
  BY <1>13, <1>t, ExitType DEF Leave, WorkerTypeOK, DBTypeOK, dbVars
<1>9. CASE WorkerInt(w)
  <2>0. UNCHANGED <<dbVars, budget>>
    BY <1>9 DEF WorkerInt
  <2>1. CASE proc[w].pc = "wait"
    <3> DEFINE r == [proc[w] EXCEPT !.pc = "intwait", !.int = FALSE]
    <3>1. proc' = [proc EXCEPT ![w] = r] /\ UNCHANGED sigchld
      BY <1>9, <2>1, <1>t DEF WorkerInt, Inherited, WorkerTypeOK
    <3>2. /\ r \in Proc /\ r.lock = proc[w].lock /\ r.tpc = proc[w].tpc
          /\ r.result = proc[w].result /\ proc[w].pc # "free"
      BY <2>1, <1>p DEF Proc, WorkerPC
    <3> HIDE DEF r
    <3> QED
      BY <1>t, <1>p, <2>0, <3>1, <3>2, KeepsLock DEF WorkerTypeOK, DBTypeOK, dbVars
  <2>2. CASE Exit(w, 0)
    BY <1>9, <2>0, <2>2, <1>t, ExitType
    DEF WorkerInt, WorkerTypeOK, DBTypeOK, dbVars
  <2>3. CASE Inherited(w)
    BY <1>t, <2>0, <2>3, InheritedType DEF WorkerTypeOK, DBTypeOK, dbVars
  <2> QED
    BY <1>9, <2>1, <2>2, <2>3 DEF WorkerInt
<1>10. CASE IntCollect(w)
  <2> DEFINE r == [proc[w] EXCEPT !.pc = "intlog", !.tpc = "none"]
  <2>1. proc' = [proc EXCEPT ![w] = r] /\ UNCHANGED <<dbVars, sigchld, budget>>
    BY <1>10, <1>t DEF IntCollect, WorkerTypeOK
  <2>2. r \in Proc /\ r.lock = proc[w].lock /\ r.tpc = "none" /\ proc[w].pc # "free"
    BY <1>10, <1>p DEF IntCollect, Proc, WorkerPC, TestPC
  <2> HIDE DEF r
  <2> QED
    BY <1>t, <2>1, <2>2, KeepsLock DEF WorkerTypeOK, DBTypeOK, dbVars
<1>11. CASE IntResetLog(w)
  <2> DEFINE r == [proc[w] EXCEPT !.pc = "intstatus"]
  <2>1. /\ proc' = [proc EXCEPT ![w] = r] /\ logs' = logs \ {PortOf(w)}
        /\ UNCHANGED <<status, locks, nextLock, pkgs, sigchld, budget>>
    BY <1>11, <1>t DEF IntResetLog, Goto, DeleteLog, WorkerTypeOK
  <2>2. /\ r \in Proc /\ r.lock = proc[w].lock /\ r.tpc = proc[w].tpc
        /\ r.result = proc[w].result /\ proc[w].pc # "free"
    BY <1>11, <1>p DEF IntResetLog, Proc, WorkerPC
  <2> HIDE DEF r
  <2> QED
    BY <1>t, <1>p, <2>1, <2>2, KeepsLock DEF WorkerTypeOK, DBTypeOK
<1>12. CASE IntResetStatus(w)
  <2>1. status' \in [Port -> Status]
    BY <1>12, <1>t DEF IntResetStatus, SetStatus, DBTypeOK, Status
  <2> QED
    BY <1>12, <1>t, <2>1, ExitType DEF IntResetStatus, WorkerTypeOK, DBTypeOK
<1>14. CASE KidSearch(w)
  <2> DEFINE L == MachineLocks(proc[w].lock.machine)
             r == [proc[w] EXCEPT !.pc = "sweep", !.sweep = L]
  <2>1. L \subseteq Lock
    BY <1>t DEF MachineLocks, DBTypeOK
  <2>2. proc' = [proc EXCEPT ![w] = r] /\ UNCHANGED <<dbVars, sigchld, budget>>
    BY <1>14, <1>t DEF KidSearch, WorkerTypeOK
  <2> HIDE DEF L
  <2>3. /\ r \in Proc /\ r.lock = proc[w].lock /\ r.tpc = proc[w].tpc
        /\ r.result = proc[w].result /\ proc[w].pc # "free"
    BY <1>14, <1>p, <2>1 DEF KidSearch, Proc, WorkerPC
  <2> HIDE DEF r
  <2> QED
    BY <1>t, <1>p, <2>2, <2>3, KeepsLock DEF WorkerTypeOK, DBTypeOK, dbVars
<1>15. CASE KidResetLog(w)
  <2>1. PICK l \in proc[w].sweep :
           /\ DeleteLog(l.port)
           /\ proc' = [proc EXCEPT ![w].pc = "sweepstatus", ![w].hand = l]
    BY <1>15 DEF KidResetLog
  <2> DEFINE r == [proc[w] EXCEPT !.pc = "sweepstatus", !.hand = l]
  <2>2. l \in Lock /\ proc[w].pc # "free"
    BY <1>15, <1>p DEF Proc, KidResetLog
  <2>3. proc' = [proc EXCEPT ![w] = r]
    BY <2>1, <1>t DEF WorkerTypeOK
  <2>4. /\ r \in Proc /\ r.lock = proc[w].lock /\ r.tpc = proc[w].tpc
        /\ r.result = proc[w].result
    BY <1>p, <2>2 DEF Proc, WorkerPC
  <2> HIDE DEF r
  <2>5. proc' \in [Pid -> Proc] /\ WorkerControl'
    BY <1>t, <1>p, <2>2, <2>3, <2>4, KeepsLock
  <2> QED
    BY <1>15, <1>t, <2>1, <2>5 DEF KidResetLog, DeleteLog, WorkerTypeOK, DBTypeOK
<1>16. CASE KidResetStatus(w)
  <2> DEFINE r == [proc[w] EXCEPT !.pc = "unlock"]
  <2>1. status' \in [Port -> Status]
    BY <1>16, <1>t DEF KidResetStatus, SetStatus, DBTypeOK, Status
  <2>2. /\ proc' = [proc EXCEPT ![w] = r]
        /\ UNCHANGED <<locks, nextLock, logs, pkgs, sigchld, budget>>
    BY <1>16, <1>t DEF KidResetStatus, Goto, WorkerTypeOK
  <2>3. /\ r \in Proc /\ r.lock = proc[w].lock /\ r.tpc = proc[w].tpc
        /\ r.result = proc[w].result /\ proc[w].pc # "free"
    BY <1>16, <1>p DEF KidResetStatus, Proc, WorkerPC
  <2> HIDE DEF r
  <2> QED
    BY <1>t, <1>p, <2>1, <2>2, <2>3, KeepsLock DEF WorkerTypeOK, DBTypeOK
<1>17. CASE KidUnlock(w)
  <2> DEFINE L == proc[w].sweep \ {proc[w].hand}
             r == [proc[w] EXCEPT !.pc = "sweep", !.hand = None, !.sweep = L]
  <2>1. L \subseteq Lock
    BY <1>p DEF Proc
  <2>2. proc' = [proc EXCEPT ![w] = r]
    BY <1>17, <1>t DEF KidUnlock, WorkerTypeOK
  <2>3. locks' \subseteq Lock
    BY <1>17, <1>t DEF KidUnlock, DeleteLock, DBTypeOK
  <2> HIDE DEF L
  <2>4. /\ r \in Proc /\ r.lock = proc[w].lock /\ r.tpc = proc[w].tpc
        /\ r.result = proc[w].result /\ proc[w].pc # "free"
    BY <1>17, <1>p, <2>1 DEF KidUnlock, Proc, WorkerPC
  <2> HIDE DEF r
  <2> QED
    BY <1>17, <1>t, <1>p, <2>2, <2>3, <2>4, KeepsLock
    DEF KidUnlock, WorkerTypeOK, DBTypeOK
<1>18. CASE KidQuit(w)
  BY <1>18, <1>t, ExitType DEF KidQuit, WorkerTypeOK, DBTypeOK, dbVars
<1> QED
  BY <1>1, <1>2, <1>3, <1>4, <1>5, <1>6, <1>7, <1>8, <1>9, <1>10, <1>11, <1>12, <1>13,
     <1>14, <1>15, <1>16, <1>17, <1>18
  DEF WorkerStep

LEMMA TestStepType ==
    ASSUME TypeInv, NEW w \in Pid, TestStep(w)
    PROVE  ProcTyped
<1> USE DEF ProcTyped
<1>t. DBTypeOK /\ WorkerTypeOK /\ WorkerControl
  BY DEF TypeInv, TypeOK
<1>p. /\ proc[w] \in Proc
      /\ TestRuns(w) => PortOf(w) \in Port
      /\ proc[w].tpc = "status" => proc[w].result # None
  BY <1>t, WorkerFacts DEF WorkerControl
<1>s. ASSUME NEW x \in Summary, TestRuns(w), proc[w].tpc = "build",
             proc' = [proc EXCEPT ![w].tpc = "status", ![w].result = x,
                                  ![w].tint = FALSE],
             UNCHANGED <<dbVars, sigchld, budget>>
      PROVE  ProcTyped
  <2> DEFINE r == [proc[w] EXCEPT !.tpc = "status", !.result = x, !.tint = FALSE]
  <2>1. proc' = [proc EXCEPT ![w] = r] /\ UNCHANGED <<dbVars, sigchld, budget>>
    BY <1>s, <1>t DEF WorkerTypeOK
  <2>2. r \in Proc /\ r.lock = proc[w].lock /\ r.result = x /\ x # None
    BY <1>p, NoneAssumption DEF Proc, TestPC
  <2> HIDE DEF r
  <2> QED
    BY <1>s, <1>t, <2>1, <2>2, KeepsLock DEF WorkerTypeOK, DBTypeOK, dbVars
<1>1. CASE Build(w)
  BY <1>1, <1>s DEF Build, TestRuns
<1>2. CASE InsertStatus(w)
  <2>0. TestRuns(w) /\ proc[w].tpc = "status"
    BY <1>2 DEF InsertStatus, TestRuns
  <2>1. status' \in [Port -> Status]
    BY <1>2, <2>0, <1>t, <1>p DEF InsertStatus, SetStatus, DBTypeOK, Status, Proc, Summary
  <2>2. proc' \in [Pid -> Proc] /\ WorkerControl'
    <3>1. CASE TestExit(w)
      BY <3>1, <1>t, TestExitType
    <3>2. CASE TestGoto(w, "log")
      <4> DEFINE r == [proc[w] EXCEPT !.tpc = "log"]
      <4>1. proc' = [proc EXCEPT ![w] = r]
        BY <3>2, <1>t DEF TestGoto, WorkerTypeOK
      <4>2. r \in Proc /\ r.lock = proc[w].lock /\ r.tpc = "log"
        BY <1>p DEF Proc, TestPC
      <4> HIDE DEF r
      <4> QED
        BY <2>0, <4>1, <4>2, KeepsLock
    <3> QED
      BY <1>2, <3>1, <3>2 DEF InsertStatus
  <2> QED
    BY <1>2, <1>t, <2>1, <2>2 DEF InsertStatus, WorkerTypeOK, DBTypeOK
<1>3. CASE InsertLog(w)
  BY <1>3, <1>t, <1>p, TestExitType DEF InsertLog, TestRuns, WorkerTypeOK, DBTypeOK
<1>4. CASE TestInt(w)
  <2>1. CASE TestExit(w)
    BY <1>4, <2>1, <1>t, TestExitType DEF TestInt, WorkerTypeOK, DBTypeOK, dbVars
  <2>2. CASE ~ TestExit(w)
    BY <1>4, <2>2, <1>s DEF TestInt, Summary
  <2> QED
    BY <2>1, <2>2
<1> QED
  BY <1>1, <1>2, <1>3, <1>4 DEF TestStep

LEMMA WorkerFaultType ==
    ASSUME TypeInv, NEW w \in Pid, WorkerFault(w)
    PROVE  ProcTyped
<1> USE DEF ProcTyped
<1>t. DBTypeOK /\ WorkerTypeOK /\ WorkerControl
  BY DEF TypeInv, TypeOK
<1>p. /\ proc[w] \in Proc
      /\ TestRuns(w) => PortOf(w) \in Port
      /\ proc[w].tpc = "status" => proc[w].result # None
  BY <1>t, WorkerFacts DEF WorkerControl
<1>b. budget' \in Nat
  BY <1>t, BudgetType
  DEF WorkerFault, WorkerThrows, WorkerLosesDB, WorkerTerm, KidLosesDB, TestThrows, TestLosesDB,
      TestKilled
<1>1. CASE WorkerThrows(w)
  <2> DEFINE r == [proc[w] EXCEPT !.pc = "internal", !.todo = {}]
  <2>1. proc' = [proc EXCEPT ![w] = r] /\ UNCHANGED <<dbVars, sigchld>>
    BY <1>1, <1>t DEF WorkerThrows, WorkerTypeOK
  <2>2. /\ r \in Proc /\ r.lock = proc[w].lock /\ r.tpc = proc[w].tpc
        /\ r.result = proc[w].result /\ proc[w].pc # "free"
    BY <1>1, <1>p DEF WorkerThrows, Proc, WorkerPC
  <2> HIDE DEF r
  <2> QED
    BY <1>b, <1>t, <1>p, <2>1, <2>2, KeepsLock DEF WorkerTypeOK, DBTypeOK, dbVars
<1>2. CASE WorkerLosesDB(w)
  BY <1>2, <1>b, <1>t, ExitType DEF WorkerLosesDB, WorkerTypeOK, DBTypeOK, dbVars
<1>3. CASE WorkerTerm(w)
  <2>1. CASE Exit(w, 0)
    BY <1>3, <2>1, <1>b, <1>t, ExitType DEF WorkerTerm, WorkerTypeOK, DBTypeOK, dbVars
  <2>2. CASE Inherited(w)
    BY <1>3, <2>2, <1>b, <1>t, InheritedType DEF WorkerTerm, WorkerTypeOK, DBTypeOK, dbVars
  <2> QED
    BY <1>3, <2>1, <2>2 DEF WorkerTerm
<1>4. CASE TestThrows(w)
  <2>1. status' \in [Port -> Status]
    BY <1>4, <1>t DEF TestThrows, SetStatus, DBTypeOK, Status
  <2> QED
    BY <1>4, <1>b, <1>t, <2>1, TestExitType DEF TestThrows, WorkerTypeOK, DBTypeOK
<1>5. CASE TestLosesDB(w)
  BY <1>5, <1>b, <1>t, TestExitType DEF TestLosesDB, WorkerTypeOK, DBTypeOK, dbVars
<1>6. CASE TestKilled(w)
  <2> DEFINE r == [proc[w] EXCEPT !.tpc = "killed", !.result = None, !.tint = FALSE]
  <2>1. proc' = [proc EXCEPT ![w] = r] /\ UNCHANGED <<dbVars, sigchld>>
    BY <1>6, <1>t DEF TestKilled, WorkerTypeOK
  <2>2. r \in Proc /\ r.lock = proc[w].lock /\ r.tpc = "killed" /\ proc[w].pc # "free"
    BY <1>6, <1>p DEF TestKilled, Proc, TestPC
  <2> HIDE DEF r
  <2> QED
    BY <1>b, <1>t, <2>1, <2>2, KeepsLock DEF WorkerTypeOK, DBTypeOK, dbVars
<1>7. CASE KidLosesDB(w)
  BY <1>7, <1>b, <1>t, ExitType DEF KidLosesDB, WorkerTypeOK, DBTypeOK, dbVars
<1> QED
  BY <1>1, <1>2, <1>3, <1>4, <1>5, <1>6, <1>7 DEF WorkerFault

\* A step of the processes below the supervisors keeps the types.
LEMMA ProcStepType ==
    ASSUME TypeInv, NEW w \in Pid, ProcStep(w)
    PROVE  TypeInv'
<1>1. ProcTyped
  BY WorkerStepType, TestStepType, WorkerFaultType DEF ProcStep
<1>2. UNCHANGED <<sl, children, dead, ids, admin>>
  BY DEF ProcStep, slaveVars
<1>3. SlaveControl'
  BY <1>2 DEF TypeInv, SlaveControl
<1> QED
  BY <1>1, <1>2, <1>3 DEF TypeInv, TypeOK, ProcTyped

-----------------------------------------------------------------------------
(* Types: the supervisors.                                                 *)

\* The record of s after a step that only moves the program counter.
LEMMA StepType ==
    ASSUME TypeInv, NEW s \in Slave, NEW from, NEW to \in SlavePC, Step(s, from, to),
           to \notin {"insert", "claimed", "forked"}
    PROVE  sl' \in [Slave -> SlaveState] /\ SlaveControl'
<1> DEFINE r == [sl[s] EXCEPT !.pc = to]
<1>1. sl[s] \in SlaveState /\ sl' = [sl EXCEPT ![s] = r]
  BY DEF Step, TypeInv, TypeOK
<1>2. r \in SlaveState /\ r.pc = to
  BY <1>1 DEF SlaveState
<1> HIDE DEF r
<1> QED
  BY <1>1, <1>2, SlaveUpdate DEF TypeInv

\* A step that leaves the workers alone.
LEMMA WorkersAlone ==
    ASSUME TypeInv, UNCHANGED proc
    PROVE  WorkerControl' /\ proc' \in [Pid -> Proc]
BY DEF TypeInv, TypeOK, WorkerTypeOK, WorkerControl, Active, TestRuns

\* The end of a supervisor.
LEMMA EndsType ==
    ASSUME TypeInv, NEW s \in Slave, Ends(s),
           proc' = [w \in Pid |-> IF proc[w].slave = s THEN Orphaned(w) ELSE proc[w]]
    PROVE  /\ sl' \in [Slave -> SlaveState] /\ SlaveControl'
           /\ children' \in [Slave -> SUBSET Child]
           /\ dead' \in [Slave -> SUBSET Corpse]
           /\ ids' \in [Slave -> SUBSET WorkerId]
           /\ sigchld' \in [Slave -> BOOLEAN]
           /\ admin' \in Port \cup {None}
           /\ proc' \in [Pid -> Proc] /\ WorkerControl'
<1>t. /\ WorkerTypeOK /\ WorkerControl /\ SlaveControl
      /\ sl \in [Slave -> SlaveState]
      /\ children \in [Slave -> SUBSET Child] /\ dead \in [Slave -> SUBSET Corpse]
      /\ ids \in [Slave -> SUBSET WorkerId] /\ admin \in Port \cup {None}
  BY DEF TypeInv, TypeOK
<1>1. At("off") \in SlaveState /\ At("off").pc = "off"
  BY DEF At, SlaveState, SlavePC
<1>2. sl' \in [Slave -> SlaveState] /\ SlaveControl'
  BY <1>1, SlaveUpdate DEF Ends, TypeInv
<1>3. ASSUME NEW w \in Pid
      PROVE  /\ Orphaned(w) \in Proc
             /\ Orphaned(w).pc # "free" \/ Orphaned(w).tpc \in Running
                    => Orphaned(w).lock # None
             /\ Orphaned(w).tpc = "status" => Orphaned(w).result # None
  <2>1. CASE proc[w].pc = "zombie" /\ ~ TestRuns(w)
    BY <2>1 DEF Orphaned, NoProc, Proc, WorkerPC, TestPC, Running
  <2>2. CASE ~ (proc[w].pc = "zombie" /\ ~ TestRuns(w))
    <3> DEFINE to == IF proc[w].pc = "zombie" THEN "free" ELSE proc[w].pc
               r == [proc[w] EXCEPT !.slave = None, !.pc = to]
    <3>1. Orphaned(w) = r
      BY <2>2 DEF Orphaned
    <3>p. proc[w] \in Proc
      BY <1>t DEF WorkerTypeOK
    <3>2. to \in WorkerPC /\ (to # "free" => proc[w].pc # "free")
      BY <3>p DEF Proc, WorkerPC
    <3> HIDE DEF to
    <3>3. /\ r \in Proc /\ r.pc = to /\ r.tpc = proc[w].tpc /\ r.lock = proc[w].lock
          /\ r.result = proc[w].result
      BY <3>2, <3>p DEF Proc
    <3> HIDE DEF r
    <3> QED
      BY <3>1, <3>2, <3>3, <1>t DEF WorkerControl, Active, TestRuns, Running
  <2> QED
    BY <2>1, <2>2
<1>4. proc' \in [Pid -> Proc] /\ WorkerControl'
  BY <1>3, <1>t DEF WorkerTypeOK, WorkerControl, Active, TestRuns, Running
<1> QED
  BY <1>t, <1>2, <1>4 DEF Ends, WorkerTypeOK

\* The parts that a step of a supervisor's main program may change.
LEMMA MainStepType ==
    ASSUME TypeInv, NEW s \in Slave, MainStep(s)
    PROVE  TypeInv'
<1>t. /\ DBTypeOK /\ WorkerTypeOK /\ WorkerControl /\ SlaveControl
      /\ sl \in [Slave -> SlaveState] /\ sl[s] \in SlaveState
      /\ children \in [Slave -> SUBSET Child] /\ dead \in [Slave -> SUBSET Corpse]
      /\ ids \in [Slave -> SUBSET WorkerId] /\ admin \in Port \cup {None}
  BY DEF TypeInv, TypeOK
<1>k. ASSUME UNCHANGED <<dbVars, workerVars, children, dead, ids, admin>>,
             sl' \in [Slave -> SlaveState], SlaveControl'
      PROVE  TypeInv'
  BY <1>k, <1>t, WorkersAlone
  DEF TypeInv, TypeOK, dbVars, workerVars, DBTypeOK, WorkerTypeOK
<1>1. CASE Start(s)
  <2>1. sl' \in [Slave -> SlaveState] /\ SlaveControl'
    BY <1>1, StepType DEF Start, SlavePC
  <2> QED
    BY <1>1, <1>k, <2>1 DEF Start, Keeps
<1>2. CASE Main(s)
  <2>0. UNCHANGED <<dbVars, workerVars, children, dead, ids, admin>>
    BY <1>2 DEF Main, Keeps
  <2>1. CASE dead[s] = {}
    <3> DEFINE r == [sl[s] EXCEPT !.pc = "fill"]
    <3>1. sl' = [sl EXCEPT ![s] = r] /\ r \in SlaveState /\ r.pc = "fill"
      BY <1>2, <2>1, <1>t DEF Main, SlaveState, SlavePC
    <3> HIDE DEF r
    <3> QED
      BY <2>0, <1>k, <3>1, SlaveUpdate DEF TypeInv
  <2>2. CASE dead[s] # {}
    <3>1. PICK c \in dead[s] :
             sl' = [sl EXCEPT ![s].lock = c.lock,
                              ![s].pc = IF c.code = 6 THEN "resetlog" ELSE "unlock"]
      BY <1>2, <2>2 DEF Main
    <3> DEFINE r == [sl[s] EXCEPT !.lock = c.lock,
                                  !.pc = IF c.code = 6 THEN "resetlog" ELSE "unlock"]
    <3>2. c.lock \in Lock
      BY <1>t DEF Corpse
    <3>3. sl' = [sl EXCEPT ![s] = r] /\ r \in SlaveState /\ r.pc \in {"resetlog", "unlock"}
      BY <3>1, <3>2, <1>t DEF SlaveState, SlavePC
    <3> HIDE DEF r
    <3> QED
      BY <2>0, <1>k, <3>3, SlaveUpdate DEF TypeInv
  <2> QED
    BY <2>1, <2>2
<1>3. CASE ResetLog(s)
  <2>1. sl' \in [Slave -> SlaveState] /\ SlaveControl'
    BY <1>3, StepType DEF ResetLog, SlavePC
  <2> QED
    BY <1>3, <1>t, <2>1, WorkersAlone
    DEF ResetLog, DeleteLog, Keeps, TypeInv, TypeOK, workerVars, DBTypeOK, WorkerTypeOK
<1>4. CASE ResetStatus(s)
  <2>1. sl' \in [Slave -> SlaveState] /\ SlaveControl'
    BY <1>4, StepType DEF ResetStatus, SlavePC
  <2>2. status' \in [Port -> Status]
    BY <1>4, <1>t DEF ResetStatus, SetStatus, DBTypeOK, Status
  <2> QED
    BY <1>4, <1>t, <2>1, <2>2, WorkersAlone
    DEF ResetStatus, Keeps, TypeInv, TypeOK, workerVars, DBTypeOK, WorkerTypeOK
<1>5. CASE Unlock(s)
  <2> DEFINE r == [sl[s] EXCEPT !.lock = None, !.todo = @ \ {sl[s].lock},
                                !.pc = IF sl[s].term THEN "sweep" ELSE "main"]
  <2>1. sl' = [sl EXCEPT ![s] = r] /\ r \in SlaveState /\ r.pc \in {"sweep", "main"}
    BY <1>5, <1>t DEF Unlock, SlaveState, SlavePC
  <2> HIDE DEF r
  <2>2. sl' \in [Slave -> SlaveState] /\ SlaveControl'
    BY <2>1, SlaveUpdate DEF TypeInv
  <2>3. dead' \in [Slave -> SUBSET Corpse]
    BY <1>5, <1>t DEF Unlock
  <2>4. locks' \subseteq Lock
    BY <1>5, <1>t DEF Unlock, DeleteLock, DBTypeOK
  <2> QED
    BY <1>5, <1>t, <2>2, <2>3, <2>4, WorkersAlone
    DEF Unlock, TypeInv, TypeOK, workerVars, DBTypeOK, WorkerTypeOK
<1>6. CASE Fill(s)
  <2> DEFINE to == IF Cardinality(children[s]) < Jobs THEN "select" ELSE "full"
             r == [sl[s] EXCEPT !.pc = to]
  <2>0. to \in {"select", "full"}
    OBVIOUS
  <2> HIDE DEF to
  <2>1. sl' = [sl EXCEPT ![s] = r] /\ r \in SlaveState /\ r.pc \in {"select", "full"}
    BY <1>6, <1>t, <2>0 DEF Fill, SlaveState, SlavePC, to
  <2> HIDE DEF r
  <2>2. sl' \in [Slave -> SlaveState] /\ SlaveControl'
    BY <2>1, SlaveUpdate DEF TypeInv
  <2> QED
    BY <1>6, <1>k, <2>2 DEF Fill, Keeps
<1>7. CASE Select(s)
  <2>0. UNCHANGED <<dbVars, workerVars, children, dead, ids, admin>>
    BY <1>7 DEF Select, Keeps
  <2>1. ASSUME NEW p \in Port, sl' = [sl EXCEPT ![s].port = p, ![s].pc = "insert"]
        PROVE  TypeInv'
    <3> DEFINE r == [sl[s] EXCEPT !.port = p, !.pc = "insert"]
    <3>1. sl' = [sl EXCEPT ![s] = r] /\ r \in SlaveState /\ r.pc = "insert" /\ r.port = p
      BY <2>1, <1>t DEF SlaveState, SlavePC
    <3> HIDE DEF r
    <3>2. sl' \in [Slave -> SlaveState] /\ SlaveControl'
      BY <3>1, SlaveUpdate, NoneAssumption DEF TypeInv
    <3> QED
      BY <1>k, <2>0, <3>2
  <2>2. ASSUME sl' = [sl EXCEPT ![s].pc = "nap"]
        PROVE  TypeInv'
    <3> DEFINE r == [sl[s] EXCEPT !.pc = "nap"]
    <3>1. sl' = [sl EXCEPT ![s] = r] /\ r \in SlaveState /\ r.pc = "nap"
      BY <2>2, <1>t DEF SlaveState, SlavePC
    <3> HIDE DEF r
    <3> QED
      BY <1>k, <2>0, <3>1, SlaveUpdate DEF TypeInv
  <2> QED
    BY <1>7, <2>1, <2>2 DEF Select, ReadyPorts
<1>8. CASE Insert(s)
  <2>0. sl[s].port \in Port /\ Host[s] \in Machine
    BY <1>8, <1>t, HostAssumption DEF Insert, SlaveControl, SlaveState
  <2>1. CASE Duplicate(sl[s].port)
    <3> DEFINE r == [sl[s] EXCEPT !.port = None, !.pc = "select"]
    <3>1. sl' = [sl EXCEPT ![s] = r] /\ r \in SlaveState /\ r.pc = "select"
      BY <1>8, <2>1, <1>t DEF Insert, SlaveState, SlavePC
    <3> HIDE DEF r
    <3>2. sl' \in [Slave -> SlaveState] /\ SlaveControl'
      BY <3>1, SlaveUpdate DEF TypeInv
    <3> QED
      BY <1>8, <1>k, <2>1, <3>2 DEF Insert, Keeps, dbVars
  <2>2. CASE ~ Duplicate(sl[s].port)
    <3> DEFINE l == NewLock(sl[s].port, Host[s])
               r == [sl[s] EXCEPT !.port = None, !.pc = "claimed", !.lock = l]
    <3>0. l \in Lock
      BY <2>0, <1>t DEF NewLock, Lock, DBTypeOK
    <3> HIDE DEF l
    <3>1. sl' = [sl EXCEPT ![s] = r] /\ r \in SlaveState /\ r.pc = "claimed" /\ r.lock = l
      BY <1>8, <2>2, <1>t, <3>0 DEF Insert, SlaveState, SlavePC, l
    <3> HIDE DEF r
    <3>2. sl' \in [Slave -> SlaveState] /\ SlaveControl'
      BY <3>0, <3>1, SlaveUpdate, NoneAssumption DEF TypeInv
    <3>3. locks' = locks \cup {l} /\ nextLock' = nextLock + 1
      BY <1>8, <2>2 DEF Insert, InsertLock, l
    <3> QED
      BY <1>8, <1>t, <3>0, <3>2, <3>3, WorkersAlone
      DEF Insert, Keeps, TypeInv, TypeOK, workerVars, DBTypeOK, WorkerTypeOK
  <2> QED
    BY <2>1, <2>2
<1>9. CASE Nap(s)
  <2>1. sl' \in [Slave -> SlaveState] /\ SlaveControl'
    BY <1>9, StepType DEF Nap, SlavePC
  <2> QED
    BY <1>9, <1>k, <2>1 DEF Nap, Keeps
<1>10. CASE ForkWorker(s)
  <2>1. PICK i \in ids[s], w \in FreePids :
          /\ ids' = [ids EXCEPT ![s] = @ \ {i}]
          /\ proc' = [proc EXCEPT ![w] = NewProc(s, sl[s].lock, i, children[s] # {})]
          /\ sl' = [sl EXCEPT ![s].pc = "forked", ![s].lock = None,
                              ![s].child = [pid |-> w, lock |-> sl[s].lock, wid |-> i]]
    BY <1>10 DEF ForkWorker
  <2>2. w \in Pid /\ i \in WorkerId /\ sl[s].lock \in Lock /\ sl[s].lock # None
    BY <1>10, <1>t DEF ForkWorker, FreePids, SlaveControl, SlaveState
  <2> DEFINE c == [pid |-> w, lock |-> sl[s].lock, wid |-> i]
             r == [sl[s] EXCEPT !.pc = "forked", !.lock = None, !.child = c]
  <2>3. c \in Child /\ c # None
    BY <2>2, ChildAssumption DEF Child
  <2> HIDE DEF c
  <2>4. sl' = [sl EXCEPT ![s] = r] /\ r \in SlaveState /\ r.pc = "forked" /\ r.child = c
    BY <2>1, <2>3, <1>t DEF SlaveState, SlavePC, c
  <2> HIDE DEF r
  <2>5. sl' \in [Slave -> SlaveState] /\ SlaveControl'
    BY <2>3, <2>4, SlaveUpdate DEF TypeInv
  <2> DEFINE n == NewProc(s, sl[s].lock, i, children[s] # {})
  <2>6. n \in Proc /\ n.lock = sl[s].lock /\ n.tpc = "none"
    BY <2>2 DEF NewProc, NoProc, Proc, WorkerPC, TestPC
  <2> HIDE DEF n
  <2>7. proc' \in [Pid -> Proc] /\ WorkerControl'
    BY <2>1, <2>2, <2>6, <1>t, ProcUpdate DEF n
  <2>8. ids' \in [Slave -> SUBSET WorkerId]
    BY <2>1, <1>t
  <2> QED
    BY <1>10, <1>t, <2>5, <2>7, <2>8
    DEF ForkWorker, TypeInv, TypeOK, dbVars, DBTypeOK, WorkerTypeOK
<1>11. CASE NoWorkerId(s)
  <2> DEFINE r == [sl[s] EXCEPT !.lock = None, !.pc = "fill"]
  <2>1. sl' = [sl EXCEPT ![s] = r] /\ r \in SlaveState /\ r.pc = "fill"
    BY <1>11, <1>t DEF NoWorkerId, SlaveState, SlavePC
  <2> HIDE DEF r
  <2>2. sl' \in [Slave -> SlaveState] /\ SlaveControl'
    BY <2>1, SlaveUpdate DEF TypeInv
  <2> QED
    BY <1>11, <1>k, <2>2 DEF NoWorkerId, Keeps
<1>12. CASE Register(s)
  <2> DEFINE r == [sl[s] EXCEPT !.pc = "fill", !.child = None]
  <2>1. sl' = [sl EXCEPT ![s] = r] /\ r \in SlaveState /\ r.pc = "fill"
    BY <1>12, <1>t DEF Register, SlaveState, SlavePC
  <2> HIDE DEF r
  <2>2. sl' \in [Slave -> SlaveState] /\ SlaveControl'
    BY <2>1, SlaveUpdate DEF TypeInv
  <2>3. sl[s].child \in Child
    BY <1>12, <1>t DEF Register, SlaveControl, SlaveState
  <2>4. children' \in [Slave -> SUBSET Child]
    BY <1>12, <1>t, <2>3 DEF Register
  <2> QED
    BY <1>12, <1>t, <2>2, <2>4, WorkersAlone
    DEF Register, TypeInv, TypeOK, dbVars, workerVars, DBTypeOK, WorkerTypeOK
<1>13. CASE Sleep(s)
  <2>1. sl' \in [Slave -> SlaveState] /\ SlaveControl'
    BY <1>13, StepType DEF Sleep, SlavePC
  <2> QED
    BY <1>13, <1>k, <2>1 DEF Sleep, Keeps
<1>14. CASE KillWait(s)
  <2>1. sl' \in [Slave -> SlaveState] /\ SlaveControl'
    BY <1>14, StepType DEF KillWait, SlavePC
  <2>2. proc' \in [Pid -> Proc] /\ WorkerControl'
    <3>1. PICK w \in Zombies(s) : proc' = [proc EXCEPT ![w] = Reaped(w)]
      BY <1>14 DEF KillWait
    <3> QED
      BY <3>1, <1>t, ReapedType, ProcUpdate DEF Zombies
  <2> QED
    BY <1>14, <1>t, <2>1, <2>2
    DEF KillWait, Keeps, TypeInv, TypeOK, dbVars, DBTypeOK, WorkerTypeOK
<1>15. CASE Search(s)
  <2> DEFINE r == [sl[s] EXCEPT !.pc = "sweep", !.todo = MachineLocks(Host[s])]
  <2>1. MachineLocks(Host[s]) \subseteq Lock
    BY <1>t DEF MachineLocks, DBTypeOK
  <2>2. sl' = [sl EXCEPT ![s] = r] /\ r \in SlaveState /\ r.pc = "sweep"
    BY <1>15, <1>t, <2>1 DEF Search, SlaveState, SlavePC
  <2> HIDE DEF r
  <2>3. sl' \in [Slave -> SlaveState] /\ SlaveControl'
    BY <2>2, SlaveUpdate DEF TypeInv
  <2> QED
    BY <1>15, <1>k, <2>3 DEF Search, Keeps
<1>16. CASE Sweep(s)
  <2>1. PICK l \in sl[s].todo : sl' = [sl EXCEPT ![s].pc = "resetlog", ![s].lock = l]
    BY <1>16 DEF Sweep
  <2> DEFINE r == [sl[s] EXCEPT !.pc = "resetlog", !.lock = l]
  <2>2. sl' = [sl EXCEPT ![s] = r] /\ r \in SlaveState /\ r.pc = "resetlog"
    BY <2>1, <1>t DEF SlaveState, SlavePC
  <2> HIDE DEF r
  <2>3. sl' \in [Slave -> SlaveState] /\ SlaveControl'
    BY <2>2, SlaveUpdate DEF TypeInv
  <2> QED
    BY <1>16, <1>k, <2>3 DEF Sweep, Keeps
<1>17. CASE Quit(s)
  BY <1>17, <1>t, EndsType DEF Quit, TypeInv, TypeOK, dbVars, DBTypeOK, WorkerTypeOK
<1> QED
  BY <1>1, <1>2, <1>3, <1>4, <1>5, <1>6, <1>7, <1>8, <1>9, <1>10, <1>11, <1>12, <1>13,
     <1>14, <1>15, <1>16, <1>17
  DEF MainStep

\* The handler of SIGCHLD.
LEMMA ReapType ==
    ASSUME TypeInv, NEW s \in Slave, Reap(s)
    PROVE  TypeInv'
<1>t. /\ DBTypeOK /\ WorkerTypeOK /\ WorkerControl /\ SlaveControl
      /\ sl \in [Slave -> SlaveState] /\ sl[s] \in SlaveState
      /\ children \in [Slave -> SUBSET Child] /\ dead \in [Slave -> SUBSET Corpse]
      /\ ids \in [Slave -> SUBSET WorkerId] /\ admin \in Port \cup {None}
  BY DEF TypeInv, TypeOK
<1>1. PICK R \in SUBSET Zombies(s) :
         LET Known == {c \in children[s] : c.pid \in R} IN
         /\ children' = [children EXCEPT ![s] = @ \ Known]
         /\ dead' = [dead EXCEPT ![s] =
                        @ \cup {[lock |-> c.lock, code |-> proc[c.pid].code] : c \in Known}]
         /\ ids' = [ids EXCEPT ![s] = @ \cup {c.wid : c \in Known}]
         /\ proc' = [w \in Pid |-> IF w \in R THEN Reaped(w) ELSE proc[w]]
  BY DEF Reap
<1> DEFINE Known == {c \in children[s] : c.pid \in R}
           New == {[lock |-> c.lock, code |-> proc[c.pid].code] : c \in Known}
<1>2. Known \subseteq Child
  BY <1>t
<1>3. New \subseteq Corpse
  BY <1>2, <1>t DEF Child, Corpse, WorkerTypeOK, Proc
<1>4. /\ children' \in [Slave -> SUBSET Child]
      /\ dead' \in [Slave -> SUBSET Corpse]
      /\ ids' \in [Slave -> SUBSET WorkerId]
  <2>1. {c.wid : c \in Known} \subseteq WorkerId
    BY <1>2 DEF Child
  <2>2. children' = [children EXCEPT ![s] = @ \ Known]
    BY <1>1
  <2>3. dead' = [dead EXCEPT ![s] = @ \cup New]
    BY <1>1
  <2>4. ids' = [ids EXCEPT ![s] = @ \cup {c.wid : c \in Known}]
    BY <1>1
  <2> HIDE DEF Known, New
  <2> QED
    BY <1>t, <1>3, <2>1, <2>2, <2>3, <2>4
<1>5. proc' \in [Pid -> Proc] /\ WorkerControl'
  <2>1. proc' = [w \in Pid |-> IF w \in R THEN Reaped(w) ELSE proc[w]]
    BY <1>1
  <2> QED
    BY <1>t, <2>1, ReapedType DEF WorkerTypeOK, WorkerControl, Active, TestRuns, Running
<1>6. sl' \in [Slave -> SlaveState] /\ SlaveControl'
  <2> DEFINE to == IF sl[s].pc \in {"asleep", "nap"} THEN "main" ELSE sl[s].pc
             r == [sl[s] EXCEPT !.pc = to]
  <2>1. to \in SlavePC /\ (to = "main" \/ to = sl[s].pc)
    BY <1>t DEF SlaveState, SlavePC
  <2>2. sl' = [sl EXCEPT ![s] = r]
    BY <1>t DEF Reap
  <2> HIDE DEF to
  <2>3. /\ r \in SlaveState /\ r.pc = to /\ r.port = sl[s].port /\ r.lock = sl[s].lock
        /\ r.child = sl[s].child
    BY <2>1, <1>t DEF SlaveState
  <2> HIDE DEF r
  <2> QED
    BY <2>1, <2>2, <2>3, <1>t, SlaveUpdate DEF SlaveControl
<1>7. UNCHANGED <<dbVars, budget, admin>> /\ sigchld' \in [Slave -> BOOLEAN]
  BY <1>t DEF Reap, WorkerTypeOK
<1> QED
  BY <1>t, <1>4, <1>5, <1>6, <1>7 DEF TypeInv, TypeOK, dbVars, DBTypeOK, WorkerTypeOK

LEMMA SlaveFaultType ==
    ASSUME TypeInv, NEW s \in Slave, SlaveFault(s)
    PROVE  TypeInv'
<1>t. /\ DBTypeOK /\ WorkerTypeOK /\ WorkerControl /\ SlaveControl
      /\ sl \in [Slave -> SlaveState] /\ sl[s] \in SlaveState
      /\ children \in [Slave -> SUBSET Child] /\ dead \in [Slave -> SUBSET Corpse]
      /\ ids \in [Slave -> SUBSET WorkerId] /\ admin \in Port \cup {None}
  BY DEF TypeInv, TypeOK
<1>b. budget' \in Nat
  BY <1>t, BudgetType DEF SlaveFault, ForkFails, Term, Die, SlaveLosesDB, ReplyLost
<1>r. Restarted(s) \in SlaveState /\ Restarted(s).pc \in {"main", "fill"}
  BY <1>t DEF Restarted, At, SlaveState, SlavePC
<1>1. CASE ForkFails(s)
  <2> DEFINE r == [sl[s] EXCEPT !.lock = None, !.pc = "fill"]
  <2>1. sl' = [sl EXCEPT ![s] = r] /\ r \in SlaveState /\ r.pc = "fill"
    BY <1>1, <1>t DEF ForkFails, SlaveState, SlavePC
  <2> HIDE DEF r
  <2>2. sl' \in [Slave -> SlaveState] /\ SlaveControl'
    BY <2>1, SlaveUpdate DEF TypeInv
  <2>3. ids' \in [Slave -> SUBSET WorkerId]
    BY <1>1, <1>t DEF ForkFails
  <2> QED
    BY <1>1, <1>b, <1>t, <2>2, <2>3, WorkersAlone
    DEF ForkFails, TypeInv, TypeOK, dbVars, DBTypeOK, WorkerTypeOK
<1>2. CASE Term(s)
  <2>0. PICK catcher \in Catchers(sl[s].pc) :
           sl' = [sl EXCEPT ![s] = [At("search") EXCEPT !.term = TRUE, !.child = sl[s].child,
                                       !.back = catcher,
                                       !.pc = IF children[s] = {} THEN "search" ELSE "kill"]]
    BY <1>2 DEF Term
  <2> DEFINE to == IF children[s] = {} THEN "search" ELSE "kill"
             r == [At("search") EXCEPT !.term = TRUE, !.child = sl[s].child,
                                       !.back = catcher, !.pc = to]
  <2>1. to \in {"search", "kill"} /\ catcher \in {"main", "fill"}
    BY DEF Catchers
  <2>2. sl' = [sl EXCEPT ![s] = r]
    BY <2>0
  <2> HIDE DEF to
  <2>3. r \in SlaveState /\ r.pc = to
    BY <2>1, <1>t DEF At, SlaveState, SlavePC
  <2> HIDE DEF r
  <2>4. sl' \in [Slave -> SlaveState] /\ SlaveControl'
    BY <2>1, <2>2, <2>3, SlaveUpdate DEF TypeInv
  <2>5. proc' \in [Pid -> Proc] /\ WorkerControl'
    <3>1. CASE children[s] = {}
      BY <1>2, <3>1, WorkersAlone DEF Term
    <3>2. CASE children[s] # {}
      <4> DEFINE a(w) == proc[w].int \/ proc[w].pc \notin {"free", "zombie"}
                 b(w) == proc[w].tint \/ TestRuns(w)
                 q(w) == [proc[w] EXCEPT !.int = a(w), !.tint = b(w)]
      <4>1. proc' = [w \in Pid |-> IF proc[w].slave # s THEN proc[w] ELSE q(w)]
        BY <1>2, <3>2 DEF Term
      <4>2. ASSUME NEW w \in Pid
            PROVE  /\ q(w) \in Proc /\ q(w).pc = proc[w].pc /\ q(w).tpc = proc[w].tpc
                   /\ q(w).lock = proc[w].lock /\ q(w).result = proc[w].result
        <5>1. a(w) \in BOOLEAN /\ b(w) \in BOOLEAN
          OBVIOUS
        <5>2. proc[w] \in Proc
          BY <1>t DEF WorkerTypeOK
        <5> HIDE DEF a, b
        <5> QED
          BY <5>1, <5>2, SignalType
      <4> HIDE DEF q
      <4> QED
        BY <1>t, <4>1, <4>2 DEF WorkerTypeOK, WorkerControl, Active, TestRuns
    <3> QED
      BY <3>1, <3>2
  <2> QED
    BY <1>2, <1>b, <1>t, <2>4, <2>5
    DEF Term, TypeInv, TypeOK, dbVars, DBTypeOK, WorkerTypeOK
<1>3. CASE Die(s)
  BY <1>3, <1>b, <1>t, EndsType DEF Die, TypeInv, TypeOK, dbVars, DBTypeOK, WorkerTypeOK
<1>4. CASE SlaveLosesDB(s)
  <2>1. sl' \in [Slave -> SlaveState] /\ SlaveControl'
    BY <1>4, <1>r, SlaveUpdate DEF SlaveLosesDB, TypeInv
  <2> QED
    BY <1>4, <1>b, <1>t, <2>1, WorkersAlone
    DEF SlaveLosesDB, Keeps, TypeInv, TypeOK, dbVars, DBTypeOK, WorkerTypeOK
<1>5. CASE ReplyLost(s)
  <2>1. sl' \in [Slave -> SlaveState] /\ SlaveControl'
    BY <1>5, <1>r, SlaveUpdate DEF ReplyLost, TypeInv
  <2>2. locks' \subseteq Lock /\ nextLock' \in Nat
    <3>1. CASE sl[s].pc = "insert" /\ InsertLock(sl[s].port, Host[s])
      <4>1. sl[s].port \in Port /\ Host[s] \in Machine
        BY <3>1, <1>t, HostAssumption DEF SlaveControl, SlaveState
      <4> QED
        BY <3>1, <4>1, <1>t DEF InsertLock, NewLock, Lock, DBTypeOK
    <3>2. CASE DeleteLock(sl[s].lock) /\ UNCHANGED nextLock
      BY <3>2, <1>t DEF DeleteLock, DBTypeOK
    <3> QED
      BY <1>5, <3>1, <3>2 DEF ReplyLost
  <2> QED
    BY <1>5, <1>b, <1>t, <2>1, <2>2, WorkersAlone
    DEF ReplyLost, Keeps, TypeInv, TypeOK, DBTypeOK, WorkerTypeOK
<1> QED
  BY <1>1, <1>2, <1>3, <1>4, <1>5 DEF SlaveFault

LEMMA RebootType ==
    ASSUME TypeInv, NEW m \in Machine, Reboot(m)
    PROVE  TypeInv'
<1>t. /\ DBTypeOK /\ WorkerTypeOK /\ WorkerControl /\ SlaveControl
      /\ sl \in [Slave -> SlaveState]
      /\ children \in [Slave -> SUBSET Child] /\ dead \in [Slave -> SUBSET Corpse]
      /\ ids \in [Slave -> SUBSET WorkerId] /\ admin \in Port \cup {None}
  BY DEF TypeInv, TypeOK
<1>b. budget' \in Nat
  BY <1>t, BudgetType DEF Reboot
<1>1. At("off") \in SlaveState /\ At("off").pc = "off"
  BY DEF At, SlaveState, SlavePC
<1>2. sl' \in [Slave -> SlaveState] /\ SlaveControl'
  BY <1>1, <1>t DEF Reboot, SlaveControl
<1>3. NoProc \in Proc /\ NoProc.pc = "free" /\ NoProc.tpc = "none"
  BY DEF NoProc, Proc, WorkerPC, TestPC
<1>4. proc' = [w \in Pid |-> IF proc[w].lock # None /\ proc[w].lock.machine = m
                             THEN NoProc ELSE proc[w]]
  BY DEF Reboot
<1>5. proc' \in [Pid -> Proc] /\ WorkerControl'
  BY <1>3, <1>4, <1>t DEF WorkerTypeOK, WorkerControl, Active, TestRuns
<1>6. /\ children' \in [Slave -> SUBSET Child] /\ dead' \in [Slave -> SUBSET Corpse]
      /\ ids' \in [Slave -> SUBSET WorkerId] /\ sigchld' \in [Slave -> BOOLEAN]
      /\ UNCHANGED <<dbVars, admin>>
  BY <1>t DEF Reboot, WorkerTypeOK
<1> QED
  BY <1>b, <1>t, <1>2, <1>5, <1>6 DEF TypeInv, TypeOK, dbVars, DBTypeOK, WorkerTypeOK

LEMMA AdminType ==
    ASSUME TypeInv, AdminResetLog \/ AdminResetStatus \/ AdminUnlock
    PROVE  TypeInv'
<1>t. /\ DBTypeOK /\ WorkerTypeOK /\ SlaveControl /\ admin \in Port \cup {None}
  BY DEF TypeInv, TypeOK
<1>0. UNCHANGED <<proc, sigchld, sl, children, dead, ids>>
  BY DEF AdminResetLog, AdminResetStatus, AdminUnlock, workerVars, slaveVars
<1>1. WorkerControl' /\ SlaveControl'
  BY <1>0, <1>t, WorkersAlone DEF SlaveControl
<1>2. budget' \in Nat
  BY <1>t, BudgetType
  DEF AdminResetLog, AdminResetStatus, AdminUnlock, workerVars, WorkerTypeOK
<1>3. DBTypeOK' /\ admin' \in Port \cup {None}
  <2>1. CASE AdminResetLog
    BY <2>1, <1>t DEF AdminResetLog, DeleteLog, DBTypeOK
  <2>2. CASE AdminResetStatus
    BY <2>2, <1>t DEF AdminResetStatus, SetStatus, DBTypeOK, Status
  <2>3. CASE AdminUnlock
    BY <2>3, <1>t DEF AdminUnlock, DeleteLock, DBTypeOK
  <2> QED
    BY <2>1, <2>2, <2>3
<1> QED
  BY <1>0, <1>1, <1>2, <1>3 DEF TypeInv, TypeOK, WorkerTypeOK

LEMMA NextType == TypeInv /\ [Next]_vars => TypeInv'
<1> SUFFICES ASSUME TypeInv, [Next]_vars PROVE TypeInv'
  OBVIOUS
<1>1. CASE UNCHANGED vars
  BY <1>1
  DEF vars, dbVars, workerVars, slaveVars, TypeInv, TypeOK, DBTypeOK, WorkerTypeOK,
      SlaveControl, WorkerControl, Active, TestRuns
<1>2. CASE Next
  BY <1>2, MainStepType, ReapType, SlaveFaultType, ProcStepType, RebootType, AdminType
  DEF Next
<1> QED
  BY <1>1, <1>2

\* Type correctness, for every set of faults: the records of supervisors and
\* workers and the tables stay well formed, and no step of magus.pl or
\* Worker.pm uses a local variable that it has not set.
THEOREM TypeCorrect == Spec => []TypeInv
BY InitType, NextType, PTL DEF Spec

=============================================================================
