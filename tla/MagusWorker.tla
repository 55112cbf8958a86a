----------------------------- MODULE MagusWorker -----------------------------
(***************************************************************************)
(* The processes below a slave supervisor: the worker that builds one port *)
(* (Magus/App/Slave/Worker.pm, run) and the test child the worker forks    *)
(* into the chroot (run_test, insert_results).  Each action is one         *)
(* statement against the database, one transfer of a package file, or one  *)
(* event in the life of the processes; module MagusSlave adds the          *)
(* supervisors that fork and reap the workers.                             *)
(*                                                                         *)
(* Faults are the interference the code has handlers for, or is exposed    *)
(* to; MaxFaults bounds how many happen in a behaviour:                    *)
(*   "db"    a statement fails before it is executed                       *)
(*   "reply" a statement is executed, but its reply is lost (MagusSlave)   *)
(*   "throw" an exception that is neither the database nor a signal        *)
(*   "wterm" somebody sends SIGTERM to a worker                            *)
(*   "fork", "term", "die", "reboot", "reset", "unlock": see MagusSlave    *)
(***************************************************************************)
EXTENDS MagusDB

CONSTANTS
    Slave,      \* supervisor processes, magus.pl
    Pid,        \* process ids for workers
    WorkerId,   \* the chroot numbers, 1 .. the -j option
    Faults,     \* the kinds of faults that may happen
    MaxFaults,  \* how many may happen
    None        \* the absence of a port, slave, lock or number

ASSUME FaultAssumption == MaxFaults \in Nat

VARIABLES
    proc,       \* [Pid -> Proc]: each worker, with its test child
    sigchld,    \* [Slave -> BOOLEAN]: a SIGCHLD is pending
    budget      \* the faults that may still happen

workerVars == <<proc, sigchld, budget>>

WorkerPC == {"free", "start", "inject", "forked", "wait", "upload", "finish",
             "internal", "leave", "intwait", "intlog", "intstatus",
             "search", "sweep", "sweepstatus", "unlock", "spin", "zombie"}
TestPC == {"none", "build", "status", "log", "done", "killed"}
Summary == {"pass", "warn", "skip", "fail"}

ASSUME NoneAssumption ==
    None \notin Port \cup Machine \cup Slave \cup Lock \cup Pid \cup WorkerId \cup Summary

Proc == [pc : WorkerPC, tpc : TestPC,
         slave : Slave \cup {None},      \* the process group, None when orphaned
         lock : Lock \cup {None}, wid : WorkerId \cup {None},
         todo : SUBSET Port,             \* dependencies still to be injected
         kids : BOOLEAN,                 \* its copy of $Children is not zero
         sweep : SUBSET Lock,            \* locks its copy of kill_children has to delete
         hand : Lock \cup {None},        \* the one it is deleting
         result : Summary \cup {None},   \* what the test child is about to report
         code : {0, 6},                  \* the exit code of a zombie
         int : BOOLEAN, tint : BOOLEAN]  \* SIGINT pending, worker and test child

NoProc == [pc |-> "free", tpc |-> "none", slave |-> None, lock |-> None,
           wid |-> None, todo |-> {}, kids |-> FALSE, sweep |-> {},
           hand |-> None, result |-> None, code |-> 0, int |-> FALSE, tint |-> FALSE]

NewProc(s, l, i, kids) ==
    [NoProc EXCEPT !.pc = "start", !.slave = s, !.lock = l, !.wid = i, !.kids = kids]

WorkerTypeOK ==
    /\ proc \in [Pid -> Proc]
    /\ sigchld \in [Slave -> BOOLEAN]
    /\ budget \in Nat

WorkerInit ==
    /\ proc = [w \in Pid |-> NoProc]
    /\ sigchld = [s \in Slave |-> FALSE]
    /\ budget = MaxFaults

-----------------------------------------------------------------------------

PortOf(w) == proc[w].lock.port

TestRuns(w) == proc[w].tpc \in {"build", "status", "log"}

\* The worker's process tree is still at work on its port.
Busy(w) == proc[w].pc \notin {"free", "zombie"} \/ TestRuns(w)

Disturb(kind) == kind \in Faults /\ budget > 0 /\ budget' = budget - 1

Goto(w, pc) == proc' = [proc EXCEPT ![w].pc = pc]

TestGoto(w, pc) == proc' = [proc EXCEPT ![w].tpc = pc]

\* What is left of w once its worker process has been waited for.
Reaped(w) == IF TestRuns(w) THEN [proc[w] EXCEPT !.pc = "free", !.int = FALSE] ELSE NoProc

\* The worker calls exit: a zombie and a SIGCHLD for its supervisor, or
\* nothing at all when it is an orphan.
Exit(w, code) ==
    LET s == proc[w].slave IN
    IF s = None
      THEN proc' = [proc EXCEPT ![w] = Reaped(w)] /\ UNCHANGED sigchld
      ELSE /\ proc' = [proc EXCEPT ![w] = [@ EXCEPT !.pc = "zombie", !.code = code,
                                                    !.int = FALSE, !.todo = {},
                                                    !.sweep = {}, !.hand = None]]
           /\ sigchld' = [sigchld EXCEPT ![s] = TRUE]

\* The test child exits, always with code 0.
TestExit(w) ==
    proc' = [proc EXCEPT ![w] =
                IF proc[w].pc = "free" THEN NoProc
                ELSE [@ EXCEPT !.tpc = "done", !.result = None, !.tint = FALSE]]

-----------------------------------------------------------------------------
(* The worker.                                                             *)

\* note_event("Test Started") and prep_chroot; then the walk over all_depends
\* fetches the dependencies with the status they have now.
Begin(w) ==
    LET D == AllDepends(PortOf(w)) IN
    /\ proc[w].pc = "start"
    /\ \/ /\ \A d \in D : Built(d)
          /\ proc' = [proc EXCEPT ![w].pc = "inject", ![w].todo = D]
       \/ /\ \E d \in D : ~ Built(d)
          /\ Goto(w, "internal")
    /\ UNCHANGED <<dbVars, sigchld, budget>>

\* inject_pkgfile, for one dependency: scp fails when there is no package.
Inject(w) ==
    /\ proc[w].pc = "inject"
    /\ \E d \in proc[w].todo :
          \/ /\ d \in pkgs
             /\ proc' = [proc EXCEPT ![w].todo = @ \ {d}]
          \/ /\ d \notin pkgs
             /\ proc' = [proc EXCEPT ![w].pc = "internal", ![w].todo = {}]
    /\ UNCHANGED <<dbVars, sigchld, budget>>

\* run_test forks once everything is injected ...
ForkTest(w) ==
    /\ proc[w].pc = "inject"
    /\ proc[w].todo = {}
    /\ proc' = [proc EXCEPT ![w].pc = "forked", ![w].tpc = "build"]
    /\ UNCHANGED <<dbVars, sigchld, budget>>

\* ... and only then installs the SIGINT handler that waits for the child.
Await(w) ==
    /\ proc[w].pc = "forked"
    /\ Goto(w, "wait")
    /\ UNCHANGED <<dbVars, sigchld, budget>>

\* Mutant: waitpid with WNOHANG, the worker does not wait for the test.
MutCollectAtOnce(w) ==
    /\ proc[w].pc = "wait"
    /\ Goto(w, "finish")
    /\ UNCHANGED <<dbVars, sigchld, budget>>

\* Mutant: a port that passed with warnings is not uploaded.
MutCollectPassOnly(w) ==
    /\ proc[w].pc = "wait"
    /\ proc[w].tpc = "done"
    /\ proc' = [proc EXCEPT ![w].tpc = "none",
                            ![w].pc = IF status[PortOf(w)] = "pass" THEN "upload" ELSE "finish"]
    /\ UNCHANGED <<dbVars, sigchld, budget>>

\* waitpid returns.  The port is refreshed from the database, unless the child
\* was killed: that is an exception.
Collect(w) ==
    /\ proc[w].pc = "wait"
    /\ proc[w].tpc \in {"done", "killed"}
    /\ proc' = [proc EXCEPT ![w].tpc = "none",
                            ![w].pc = IF proc[w].tpc = "killed" THEN "internal"
                                      ELSE IF Built(PortOf(w)) THEN "upload"
                                      ELSE "finish"]
    /\ UNCHANGED <<dbVars, sigchld, budget>>

Upload(w) ==
    /\ proc[w].pc = "upload"
    /\ pkgs' = pkgs \cup {PortOf(w)}
    /\ Goto(w, "finish")
    /\ UNCHANGED <<status, locks, nextLock, logs, sigchld, budget>>

\* prep_chroot, fork and both transfers of packages die when they fail.
WorkerThrows(w) ==
    /\ proc[w].pc \in {"start", "inject", "upload"}
    /\ Disturb("throw")
    /\ proc' = [proc EXCEPT ![w].pc = "internal", ![w].todo = {}]
    /\ UNCHANGED <<dbVars, sigchld>>

\* note_event("Test complete."), then exit(0) in start_child.
Finish(w) ==
    /\ proc[w].pc = "finish"
    /\ Exit(w, 0)
    /\ UNCHANGED <<dbVars, budget>>

\* An exception that is neither the database nor a signal: set_result_internal ...
Internal(w) ==
    /\ proc[w].pc = "internal"
    /\ SetStatus(PortOf(w), "internal")
    /\ Goto(w, "leave")
    /\ UNCHANGED <<locks, nextLock, logs, pkgs, sigchld, budget>>

\* ... and exit(0) in start_child.
Leave(w) ==
    /\ proc[w].pc = "leave"
    /\ Exit(w, 0)
    /\ UNCHANGED <<dbVars, budget>>

\* Any statement of the worker can fail with a DBI exception: exit 6.
WorkerLosesDB(w) ==
    /\ \/ proc[w].pc \in {"start", "inject", "finish", "internal", "intlog", "intstatus"}
       \/ proc[w].pc = "wait" /\ proc[w].tpc = "done"
    /\ Disturb("db")
    /\ Exit(w, 6)
    /\ UNCHANGED dbVars

-----------------------------------------------------------------------------
(* The test child.                                                         *)

\* PortTest->run comes to a summary.
Build(w) ==
    /\ proc[w].tpc = "build"
    /\ \E r \in Summary :
          proc' = [proc EXCEPT ![w].tpc = "status", ![w].result = r,
                               ![w].tint = FALSE]
    /\ ~ proc[w].tint
    /\ UNCHANGED <<dbVars, sigchld, budget>>

\* insert_results: the status comes first, only a failed test has a log.
InsertStatus(w) ==
    /\ proc[w].tpc = "status"
    /\ SetStatus(PortOf(w), proc[w].result)
    /\ IF proc[w].result = "fail" THEN TestGoto(w, "log") ELSE TestExit(w)
    /\ UNCHANGED <<locks, nextLock, logs, pkgs, sigchld, budget>>

\* INSERT INTO logs; a second row for the port violates unique (port), and the
\* exception that follows mentions DBI, so the child exits silently.
InsertLog(w) ==
    /\ proc[w].tpc = "log"
    /\ logs' = logs \cup {PortOf(w)}
    /\ TestExit(w)
    /\ UNCHANGED <<status, locks, nextLock, pkgs, sigchld, budget>>

\* A DBI exception in the test child: exit(0), nothing is reported.
TestLosesDB(w) ==
    /\ proc[w].tpc \in {"status", "log"}
    /\ Disturb("db")
    /\ TestExit(w)
    /\ UNCHANGED <<dbVars, sigchld>>

\* Any other exception in the test child: set_result_internal.
TestThrows(w) ==
    /\ proc[w].tpc = "build"
    /\ Disturb("throw")
    /\ SetStatus(PortOf(w), "internal")
    /\ TestExit(w)
    /\ UNCHANGED <<locks, nextLock, logs, pkgs, sigchld>>

\* The test child is killed by the system: waitpid reports a nonzero status.
TestKilled(w) ==
    /\ TestRuns(w)
    /\ proc[w].pc # "free"
    /\ Disturb("throw")
    /\ proc' = [proc EXCEPT ![w].tpc = "killed", ![w].result = None, ![w].tint = FALSE]
    /\ UNCHANGED <<dbVars, sigchld>>

-----------------------------------------------------------------------------
(* Signals.                                                                *)

\* Inside kill_children: what signals the process gets now changes nothing.
Sweeping(w) == proc[w].pc \in {"search", "sweep", "sweepstatus", "unlock", "spin"}

\* A signal that finds the worker before Worker->run has installed its handlers, or
\* after it has put the old ones back, runs those of the supervisor: kill_children.
\* With a copy of $Children that is not zero it waits for ever for a child it does
\* not have; its process group, -$$, does not exist.
Inherited(w) ==
    /\ proc[w].pc \in {"start", "finish", "leave"}
    /\ proc' = [proc EXCEPT ![w].pc = IF proc[w].kids THEN "spin" ELSE "search",
                            ![w].int = FALSE]
    /\ UNCHANGED sigchld

\* SIGINT in the worker: die "SIGINT" ends it, but while it waits for the test
\* child the handler waits on, resets the port, and only then exits.
WorkerInt(w) ==
    /\ proc[w].int
    /\ proc[w].pc \notin {"free", "zombie"} /\ ~ Sweeping(w)
    /\ \/ /\ proc[w].pc = "wait"
          /\ proc' = [proc EXCEPT ![w].pc = "intwait", ![w].int = FALSE]
          /\ UNCHANGED sigchld
       \/ proc[w].pc # "wait" /\ Exit(w, 0)
       \/ Inherited(w)
    /\ UNCHANGED <<dbVars, budget>>

IntCollect(w) ==
    /\ proc[w].pc = "intwait"
    /\ proc[w].tpc \in {"done", "killed"}
    /\ proc' = [proc EXCEPT ![w].pc = "intlog", ![w].tpc = "none"]
    /\ UNCHANGED <<dbVars, sigchld, budget>>

IntResetLog(w) ==
    /\ proc[w].pc = "intlog"
    /\ DeleteLog(PortOf(w))
    /\ Goto(w, "intstatus")
    /\ UNCHANGED <<status, locks, nextLock, pkgs, sigchld, budget>>

IntResetStatus(w) ==
    /\ proc[w].pc = "intstatus"
    /\ SetStatus(PortOf(w), "untested")
    /\ Exit(w, 0)
    /\ UNCHANGED <<locks, nextLock, logs, pkgs, budget>>

\* SIGINT in the test child.  While system() runs make, perl ignores the signal
\* and make dies of it: the test fails.  Otherwise die "SIGINT" leads to exit(0).
TestInt(w) ==
    /\ proc[w].tint
    /\ TestRuns(w)
    /\ \/ TestExit(w)
       \/ /\ proc[w].tpc = "build"
          /\ proc' = [proc EXCEPT ![w].tpc = "status", ![w].result = "fail",
                                  ![w].tint = FALSE]
    /\ UNCHANGED <<dbVars, sigchld, budget>>

\* SIGTERM in the worker: die "SIGTERM", and exit(0) without a wait for the
\* test child, which goes on alone.
WorkerTerm(w) ==
    /\ proc[w].pc \notin {"free", "zombie"} /\ ~ Sweeping(w)
    /\ Disturb("wterm")
    /\ Exit(w, 0) \/ Inherited(w)
    /\ UNCHANGED dbVars

-----------------------------------------------------------------------------
(* kill_children in a worker: it gives up the locks of the whole machine.   *)

KidSearch(w) ==
    /\ proc[w].pc = "search"
    /\ proc' = [proc EXCEPT ![w].pc = "sweep", ![w].sweep = MachineLocks(proc[w].lock.machine)]
    /\ UNCHANGED <<dbVars, sigchld, budget>>

\* port->reset, for one lock after the other.
KidResetLog(w) ==
    /\ proc[w].pc = "sweep"
    /\ \E l \in proc[w].sweep :
          /\ DeleteLog(l.port)
          /\ proc' = [proc EXCEPT ![w].pc = "sweepstatus", ![w].hand = l]
    /\ UNCHANGED <<status, locks, nextLock, pkgs, sigchld, budget>>

KidResetStatus(w) ==
    /\ proc[w].pc = "sweepstatus"
    /\ SetStatus(proc[w].hand.port, "untested")
    /\ Goto(w, "unlock")
    /\ UNCHANGED <<locks, nextLock, logs, pkgs, sigchld, budget>>

KidUnlock(w) ==
    /\ proc[w].pc = "unlock"
    /\ DeleteLock(proc[w].hand)
    /\ proc' = [proc EXCEPT ![w].pc = "sweep", ![w].hand = None,
                            ![w].sweep = @ \ {proc[w].hand}]
    /\ UNCHANGED <<status, nextLock, logs, pkgs, sigchld, budget>>

\* exit 0 in the handler.
KidQuit(w) ==
    /\ proc[w].pc = "sweep" /\ proc[w].sweep = {}
    /\ Exit(w, 0)
    /\ UNCHANGED <<dbVars, budget>>

\* The exception ends in main's eval around start_child: exit(0) if $$ != $parentPID.
KidLosesDB(w) ==
    /\ proc[w].pc \in {"search", "sweep", "sweepstatus", "unlock"}
    /\ Disturb("db")
    /\ Exit(w, 0)
    /\ UNCHANGED dbVars

-----------------------------------------------------------------------------

WorkerStep(w) ==
    \/ Begin(w) \/ Inject(w) \/ ForkTest(w) \/ Await(w) \/ Collect(w) \/ Upload(w)
    \/ Finish(w) \/ Internal(w) \/ Leave(w)
    \/ WorkerInt(w) \/ IntCollect(w) \/ IntResetLog(w) \/ IntResetStatus(w)
    \/ KidSearch(w) \/ KidResetLog(w) \/ KidResetStatus(w) \/ KidUnlock(w) \/ KidQuit(w)

TestStep(w) == Build(w) \/ InsertStatus(w) \/ InsertLog(w) \/ TestInt(w)

WorkerFault(w) ==
    \/ WorkerThrows(w) \/ WorkerLosesDB(w) \/ WorkerTerm(w) \/ KidLosesDB(w)
    \/ TestThrows(w) \/ TestLosesDB(w) \/ TestKilled(w)

=============================================================================
