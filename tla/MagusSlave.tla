----------------------------- MODULE MagusSlave ------------------------------
(***************************************************************************)
(* The slaves of a Magus build cluster (Tools/magus/slave/magus.pl): each  *)
(* supervisor claims ready ports by inserting a row in table locks, forks  *)
(* a worker for every claim, learns of its death from SIGCHLD, and gives   *)
(* the lock back.  The workers are those of module MagusWorker; all of     *)
(* them meet in the database of module MagusDB.  The two scripts of the    *)
(* web front end that an operator resets ports and deletes locks with are  *)
(* part of the environment.                                                *)
(*                                                                         *)
(* $Children and %Children are one variable: the program changes them      *)
(* together, but for one step inside start_child whose other half follows  *)
(* whatever happens in between.  The order of @DeadChildren is left open.  *)
(* Faults, see module MagusWorker for the kinds not listed here:           *)
(*   "fork"   fork fails in start_child                                    *)
(*   "term"   SIGTERM or SIGINT for a supervisor                           *)
(*   "die"    an exception other than a lost database ends a supervisor    *)
(*   "reboot" a machine restarts                                           *)
(*   "reset"  an operator resets a port                                    *)
(*   "unlock" an operator deletes a lock                                   *)
(***************************************************************************)
EXTENDS MagusWorker, FiniteSets

CONSTANT
    Host        \* [Slave -> Machine]: the machine each supervisor runs on

ASSUME HostAssumption == Host \in [Slave -> Machine]

VARIABLES
    sl,         \* [Slave -> SlaveState]: control and local variables
    children,   \* [Slave -> SUBSET Child]: %Children and $Children
    dead,       \* [Slave -> SUBSET Corpse]: @DeadChildren
    ids,        \* [Slave -> SUBSET WorkerId]: %WorkerIDs
    admin       \* the port reset_port.cgi is resetting, or None

slaveVars == <<sl, children, dead, ids>>
vars == <<dbVars, workerVars, slaveVars, admin>>

SlavePC == {"off", "main", "resetlog", "resetstatus", "unlock", "fill", "select",
            "insert", "nap", "claimed", "forked", "full", "asleep",
            "kill", "search", "sweep"}

Child == [pid : Pid, lock : Lock, wid : WorkerId]
Corpse == [lock : Lock, code : {0, 6}]

ASSUME ChildAssumption == None \notin Child

SlaveState == [pc : SlavePC,
               port : Port \cup {None},     \* the ready port just selected
               lock : Lock \cup {None},     \* the lock just obtained, or to be deleted
               child : Child \cup {None},   \* the worker forked, not yet registered
               term : BOOLEAN,              \* inside the handler of SIGTERM
               back : {"main", "fill"},     \* where an exception of a statement leads
               todo : SUBSET Lock]          \* locks kill_children has to delete

At(pc) == [pc |-> pc, port |-> None, lock |-> None, child |-> None,
           term |-> FALSE, back |-> "main", todo |-> {}]

TypeOK ==
    /\ DBTypeOK
    /\ WorkerTypeOK
    /\ sl \in [Slave -> SlaveState]
    /\ children \in [Slave -> SUBSET Child]
    /\ dead \in [Slave -> SUBSET Corpse]
    /\ ids \in [Slave -> SUBSET WorkerId]
    /\ admin \in Port \cup {None}

Init ==
    /\ DBInit
    /\ WorkerInit
    /\ sl = [s \in Slave |-> At("off")]
    /\ children = [s \in Slave |-> {}]
    /\ dead = [s \in Slave |-> {}]
    /\ ids = [s \in Slave |-> WorkerId]
    /\ admin = None

-----------------------------------------------------------------------------

Step(s, from, to) ==
    sl[s].pc = from /\ sl' = [sl EXCEPT ![s].pc = to]

\* The memory of the supervisor, apart from sl, is left alone.
Keeps == UNCHANGED <<children, dead, ids, admin>>

Jobs == Cardinality(WorkerId)

Zombies(s) == {w \in Pid : proc[w].slave = s /\ proc[w].pc = "zombie"}

Registered(s) == {c.pid : c \in children[s]}

Unregistered(s) == IF sl[s].child = None THEN {} ELSE {sl[s].child.pid}

\* Pids the kernel may hand out.  One that a supervisor still has in a variable
\* is not reused: pid numbers come round too late for that.
FreePids ==
    {w \in Pid : /\ proc[w] = NoProc
                 /\ \A s \in Slave : w \notin Registered(s) \cup Unregistered(s)}

-----------------------------------------------------------------------------
(* The main program.                                                       *)

\* start-magus.sh starts a supervisor, again whenever one has ended.
Start(s) ==
    /\ Step(s, "off", "main")
    /\ UNCHANGED <<dbVars, workerVars>> /\ Keeps

\* Mutant: the corpse is shifted off before its lock is deleted.
MutMain(s) ==
    /\ sl[s].pc = "main"
    /\ \/ /\ dead[s] = {}
          /\ sl' = [sl EXCEPT ![s].pc = "fill"]
          /\ UNCHANGED dead
       \/ \E c \in dead[s] :
             /\ sl' = [sl EXCEPT ![s].lock = c.lock,
                                 ![s].pc = IF c.code = 6 THEN "resetlog" ELSE "unlock"]
             /\ dead' = [dead EXCEPT ![s] = @ \ {c}]
    /\ UNCHANGED <<dbVars, workerVars, children, ids, admin>>

\* The top of MAIN and the loop in process_dead_children.
Main(s) ==
    /\ sl[s].pc = "main"
    /\ IF dead[s] = {}
         THEN sl' = [sl EXCEPT ![s].pc = "fill"]
         ELSE \E c \in dead[s] :
                sl' = [sl EXCEPT ![s].lock = c.lock,
                                 ![s].pc = IF c.code = 6 THEN "resetlog" ELSE "unlock"]
    /\ UNCHANGED <<dbVars, workerVars>> /\ Keeps

\* Port::reset as process_dead_children and kill_children call it.
ResetLog(s) ==
    /\ Step(s, "resetlog", "resetstatus")
    /\ DeleteLog(sl[s].lock.port)
    /\ UNCHANGED <<status, locks, nextLock, pkgs, workerVars>> /\ Keeps

ResetStatus(s) ==
    /\ Step(s, "resetstatus", "unlock")
    /\ SetStatus(sl[s].lock.port, "untested")
    /\ UNCHANGED <<locks, nextLock, logs, pkgs, workerVars>> /\ Keeps

\* lock->delete, then shift @DeadChildren, or on to the next lock of the sweep.
Unlock(s) ==
    LET l == sl[s].lock IN
    /\ sl[s].pc = "unlock"
    /\ DeleteLock(l)
    /\ sl' = [sl EXCEPT ![s].lock = None,
                        ![s].todo = @ \ {l},
                        ![s].pc = IF sl[s].term THEN "sweep" ELSE "main"]
    /\ dead' = [dead EXCEPT ![s] = IF sl[s].term THEN @ ELSE {c \in @ : c.lock # l}]
    /\ UNCHANGED <<status, nextLock, logs, pkgs, workerVars, children, ids, admin>>

\* while ($Children < $opts{j})
Fill(s) ==
    /\ sl[s].pc = "fill"
    /\ sl' = [sl EXCEPT ![s].pc = IF Cardinality(children[s]) < Jobs THEN "select" ELSE "full"]
    /\ UNCHANGED <<dbVars, workerVars>> /\ Keeps

\* get_ready_port, inside the loop of get_ready_lock.
Select(s) ==
    /\ sl[s].pc = "select"
    /\ \/ \E p \in ReadyPorts : sl' = [sl EXCEPT ![s].port = p, ![s].pc = "insert"]
       \/ ReadyPorts = {} /\ sl' = [sl EXCEPT ![s].pc = "nap"]
    /\ UNCHANGED <<dbVars, workerVars>> /\ Keeps

\* _get_lock: a duplicate sends get_ready_lock round its loop again.
Insert(s) ==
    LET p == sl[s].port IN
    /\ sl[s].pc = "insert"
    /\ IF Duplicate(p)
         THEN /\ sl' = [sl EXCEPT ![s].port = None, ![s].pc = "select"]
              /\ UNCHANGED <<locks, nextLock>>
         ELSE /\ InsertLock(p, Host[s])
              /\ sl' = [sl EXCEPT ![s].port = None, ![s].pc = "claimed",
                                  ![s].lock = NewLock(p, Host[s])]
    /\ UNCHANGED <<status, logs, pkgs, workerVars>> /\ Keeps

\* sleep(DoneWaitPeriod): ends by itself, or with a signal.
Nap(s) ==
    /\ Step(s, "nap", "main")
    /\ UNCHANGED <<dbVars, workerVars>> /\ Keeps

\* Mutant: the worker id is not deleted from %WorkerIDs.
MutForkWorker(s) ==
    /\ sl[s].pc = "claimed"
    /\ \E i \in ids[s], w \in FreePids :
          /\ proc' = [proc EXCEPT ![w] = NewProc(s, sl[s].lock, i, children[s] # {})]
          /\ sl' = [sl EXCEPT ![s].pc = "forked", ![s].lock = None,
                              ![s].child = [pid |-> w, lock |-> sl[s].lock, wid |-> i]]
    /\ UNCHANGED <<dbVars, sigchld, budget, children, dead, ids, admin>>

\* start_child up to the fork.
ForkWorker(s) ==
    /\ sl[s].pc = "claimed"
    /\ \E i \in ids[s], w \in FreePids :
          /\ ids' = [ids EXCEPT ![s] = @ \ {i}]
          /\ proc' = [proc EXCEPT ![w] = NewProc(s, sl[s].lock, i, children[s] # {})]
          /\ sl' = [sl EXCEPT ![s].pc = "forked", ![s].lock = None,
                              ![s].child = [pid |-> w, lock |-> sl[s].lock, wid |-> i]]
    /\ UNCHANGED <<dbVars, sigchld, budget, children, dead, admin>>

\* start_child dies inside main's eval: the claim is forgotten, its lock stays.
NoWorkerId(s) ==
    /\ sl[s].pc = "claimed"
    /\ ids[s] = {}
    /\ sl' = [sl EXCEPT ![s].lock = None, ![s].pc = "fill"]
    /\ UNCHANGED <<dbVars, workerVars>> /\ Keeps

ForkFails(s) ==
    /\ sl[s].pc = "claimed"
    /\ Disturb("fork")
    /\ \E i \in ids[s] : ids' = [ids EXCEPT ![s] = @ \ {i}]
    /\ sl' = [sl EXCEPT ![s].lock = None, ![s].pc = "fill"]
    /\ UNCHANGED <<dbVars, proc, sigchld, children, dead, admin>>

\* Mutant: the child is registered without its lock.
MutRegister(s) ==
    /\ sl[s].pc = "forked"
    /\ children' = [children EXCEPT ![s] = @ \cup {[sl[s].child EXCEPT !.lock = None]}]
    /\ sl' = [sl EXCEPT ![s].pc = "fill", ![s].child = None]
    /\ UNCHANGED <<dbVars, workerVars, dead, ids, admin>>

\* The parent's branch in start_child: $Children{$pid} = ..., $Children++.
Register(s) ==
    /\ sl[s].pc = "forked"
    /\ children' = [children EXCEPT ![s] = @ \cup {sl[s].child}]
    /\ sl' = [sl EXCEPT ![s].pc = "fill", ![s].child = None]
    /\ UNCHANGED <<dbVars, workerVars, dead, ids, admin>>

\* sleep without an argument: until a signal arrives.
Sleep(s) ==
    /\ Step(s, "full", "asleep")
    /\ UNCHANGED <<dbVars, workerVars>> /\ Keeps

-----------------------------------------------------------------------------
(* Signals.                                                                *)

\* kill_children waits with SIGCHLD at its default.
HandlesChld(s) == sl[s].pc \notin {"off", "kill"}

\* The handler of SIGCHLD: waitpid until no zombie is left, or until it returns
\* a pid that is not in %Children, which ends the handler at once.  A signal
\* also ends sleep.
Reap(s) ==
    LET Unknown == Zombies(s) \ Registered(s) IN
    /\ sigchld[s]
    /\ HandlesChld(s)
    /\ \E R \in SUBSET Zombies(s) :
          /\ IF Unknown = {} THEN R = Zombies(s) ELSE Cardinality(R \cap Unknown) = 1
          /\ LET Known == {c \in children[s] : c.pid \in R} IN
             /\ children' = [children EXCEPT ![s] = @ \ Known]
             /\ dead' = [dead EXCEPT ![s] =
                            @ \cup {[lock |-> c.lock, code |-> proc[c.pid].code] : c \in Known}]
             /\ ids' = [ids EXCEPT ![s] = @ \cup {c.wid : c \in Known}]
          /\ proc' = [w \in Pid |-> IF w \in R THEN Reaped(w) ELSE proc[w]]
    /\ sigchld' = [sigchld EXCEPT ![s] = FALSE]
    /\ sl' = [sl EXCEPT ![s].pc = IF @ \in {"asleep", "nap"} THEN "main" ELSE @]
    /\ UNCHANGED <<dbVars, budget, admin>>

\* An exception that comes out of start_child is caught by the eval around it, and
\* main goes on with filling; any other one ends main.
Catchers(pc) ==
    CASE pc = "forked" -> {"fill"}
      [] pc \in {"claimed", "fill"} -> {"main", "fill"}
      [] OTHER -> {"main"}

\* The handler of SIGTERM and SIGINT: kill_children.  With children it sends
\* SIGINT to the whole process group before it waits.
Term(s) ==
    /\ sl[s].pc # "off" /\ ~ sl[s].term
    /\ Disturb("term")
    /\ \E catcher \in Catchers(sl[s].pc) :
          sl' = [sl EXCEPT ![s] = [At("search") EXCEPT !.term = TRUE, !.child = sl[s].child,
                                      !.back = catcher,
                                      !.pc = IF children[s] = {} THEN "search" ELSE "kill"]]
    /\ IF children[s] = {}
         THEN UNCHANGED proc
         ELSE proc' = [w \in Pid |->
                         IF proc[w].slave # s THEN proc[w]
                         ELSE [proc[w] EXCEPT !.int = @ \/ proc[w].pc \notin {"free", "zombie"},
                                              !.tint = @ \/ TestRuns(w)]]
    /\ UNCHANGED <<dbVars, sigchld, children, dead, ids, admin>>

\* do { waitpid } until $kid > 0: one child, whichever is the first.  SIGCHLD
\* is at its default meanwhile, so what has come in is lost.
KillWait(s) ==
    /\ Step(s, "kill", "search")
    /\ \E w \in Zombies(s) : proc' = [proc EXCEPT ![w] = Reaped(w)]
    /\ sigchld' = [sigchld EXCEPT ![s] = FALSE]
    /\ UNCHANGED <<dbVars, budget>> /\ Keeps

\* Mutant: only the locks of registered children are given back.
MutSearch(s) ==
    /\ sl[s].pc = "search"
    /\ sl' = [sl EXCEPT ![s].pc = "sweep", ![s].todo = {c.lock : c \in children[s]}]
    /\ UNCHANGED <<dbVars, workerVars>> /\ Keeps

\* Magus::Lock->search(machine => $Magus::Machine)
Search(s) ==
    /\ sl[s].pc = "search"
    /\ sl' = [sl EXCEPT ![s].pc = "sweep", ![s].todo = MachineLocks(Host[s])]
    /\ UNCHANGED <<dbVars, workerVars>> /\ Keeps

Sweep(s) ==
    /\ sl[s].pc = "sweep"
    /\ \E l \in sl[s].todo : sl' = [sl EXCEPT ![s].pc = "resetlog", ![s].lock = l]
    /\ UNCHANGED <<dbVars, workerVars>> /\ Keeps

-----------------------------------------------------------------------------
(* The end of a supervisor.                                                *)

\* Its memory is gone; its children are init's, which reaps the zombies.
Ends(s) ==
    /\ sl' = [sl EXCEPT ![s] = At("off")]
    /\ children' = [children EXCEPT ![s] = {}]
    /\ dead' = [dead EXCEPT ![s] = {}]
    /\ ids' = [ids EXCEPT ![s] = WorkerId]
    /\ sigchld' = [sigchld EXCEPT ![s] = FALSE]
    /\ UNCHANGED admin

Orphaned(w) ==
    IF proc[w].pc = "zombie" /\ ~ TestRuns(w) THEN NoProc
    ELSE [proc[w] EXCEPT !.slave = None, !.pc = IF @ = "zombie" THEN "free" ELSE @]

\* exit 0, once the sweep is over.
Quit(s) ==
    /\ sl[s].pc = "sweep"
    /\ sl[s].todo = {}
    /\ Ends(s)
    /\ proc' = [w \in Pid |-> IF proc[w].slave = s THEN Orphaned(w) ELSE proc[w]]
    /\ UNCHANGED <<dbVars, budget>>

\* die $_ at the bottom of the outer loop, for whatever exception is not a lost
\* database, or SIGKILL: kill_children is not called.
Die(s) ==
    /\ sl[s].pc # "off"
    /\ Disturb("die")
    /\ Ends(s)
    /\ proc' = [w \in Pid |-> IF proc[w].slave = s THEN Orphaned(w) ELSE proc[w]]
    /\ UNCHANGED dbVars

\* The machine goes down with every process on it.
Reboot(m) ==
    LET Here == {s \in Slave : Host[s] = m} IN
    /\ Disturb("reboot")
    /\ sl' = [s \in Slave |-> IF s \in Here THEN At("off") ELSE sl[s]]
    /\ children' = [s \in Slave |-> IF s \in Here THEN {} ELSE children[s]]
    /\ dead' = [s \in Slave |-> IF s \in Here THEN {} ELSE dead[s]]
    /\ ids' = [s \in Slave |-> IF s \in Here THEN WorkerId ELSE ids[s]]
    /\ sigchld' = [s \in Slave |-> sigchld[s] /\ s \notin Here]
    /\ proc' = [w \in Pid |->
                   IF proc[w].lock # None /\ proc[w].lock.machine = m THEN NoProc ELSE proc[w]]
    /\ UNCHANGED <<dbVars, admin>>

-----------------------------------------------------------------------------
(* Database exceptions.                                                    *)

\* The exception leaves main, which starts over when the database answers again.
\* One in the handler of SIGTERM leaves what the signal has interrupted: main, or
\* start_child, whose worker is then never registered.
Restarted(s) == At(sl[s].back)

SlaveLosesDB(s) ==
    /\ sl[s].pc \in {"select", "insert", "resetlog", "resetstatus", "unlock", "search"}
    /\ Disturb("db")
    /\ sl' = [sl EXCEPT ![s] = Restarted(s)]
    /\ UNCHANGED <<dbVars, proc, sigchld>> /\ Keeps

\* The same, after the INSERT or the DELETE has been committed.
ReplyLost(s) ==
    /\ \/ /\ sl[s].pc = "insert"
          /\ InsertLock(sl[s].port, Host[s])
       \/ /\ sl[s].pc = "unlock"
          /\ DeleteLock(sl[s].lock)
          /\ UNCHANGED nextLock
    /\ Disturb("reply")
    /\ sl' = [sl EXCEPT ![s] = Restarted(s)]
    /\ UNCHANGED <<status, logs, pkgs, proc, sigchld>> /\ Keeps

-----------------------------------------------------------------------------
(* The operator, at the web front end.                                     *)

\* reset_port.cgi: port->reset, whatever the port's state.
AdminResetLog ==
    /\ admin = None
    /\ Disturb("reset")
    /\ \E p \in Port : DeleteLog(p) /\ admin' = p
    /\ UNCHANGED <<status, locks, nextLock, pkgs, proc, sigchld, slaveVars>>

AdminResetStatus ==
    /\ admin # None
    /\ SetStatus(admin, "untested")
    /\ admin' = None
    /\ UNCHANGED <<locks, nextLock, logs, pkgs, workerVars, slaveVars>>

\* delete_lock.cgi
AdminUnlock ==
    /\ Disturb("unlock")
    /\ \E l \in locks : DeleteLock(l)
    /\ UNCHANGED <<status, nextLock, logs, pkgs, proc, sigchld, slaveVars, admin>>

-----------------------------------------------------------------------------

MainStep(s) ==
    \/ Start(s) \/ Main(s) \/ ResetLog(s) \/ ResetStatus(s) \/ Unlock(s)
    \/ Fill(s) \/ Select(s) \/ Insert(s) \/ Nap(s)
    \/ ForkWorker(s) \/ NoWorkerId(s) \/ Register(s) \/ Sleep(s)
    \/ KillWait(s) \/ Search(s) \/ Sweep(s) \/ Quit(s)

SlaveFault(s) ==
    ForkFails(s) \/ Term(s) \/ Die(s) \/ SlaveLosesDB(s) \/ ReplyLost(s)

\* A step of the processes below the supervisors.
ProcStep(w) ==
    (WorkerStep(w) \/ TestStep(w) \/ WorkerFault(w)) /\ UNCHANGED <<slaveVars, admin>>

Next ==
    \/ \E s \in Slave : MainStep(s) \/ Reap(s) \/ SlaveFault(s)
    \/ \E w \in Pid : ProcStep(w)
    \/ \E m \in Machine : Reboot(m)
    \/ AdminResetLog \/ AdminResetStatus \/ AdminUnlock

Spec == Init /\ [][Next]_vars

\* Every process that can run is scheduled, pending signals are delivered, and
\* statements and transfers come to an end.
Fairness ==
    /\ \A s \in Slave : WF_vars(MainStep(s)) /\ WF_vars(Reap(s))
    /\ \A w \in Pid : /\ WF_vars(WorkerStep(w) /\ UNCHANGED <<slaveVars, admin>>)
                      /\ WF_vars(TestStep(w) /\ UNCHANGED <<slaveVars, admin>>)
    /\ WF_vars(AdminResetStatus)

FairSpec == Spec /\ Fairness

-----------------------------------------------------------------------------
(* Safety.                                                                 *)

\* The worker process exists, or is a zombie.
Active(w) == proc[w].pc # "free"

\* No two process trees ever test the same port at the same time: the lock a
\* claim inserts outlives the worker (magus.pl, process_dead_children).
BuildExclusion ==
    \A v, w \in Pid : v # w /\ Busy(v) /\ Busy(w) => PortOf(v) # PortOf(w)

\* No two process trees of a machine ever work in the same chroot: the worker
\* ids that start_child and the handler of SIGCHLD hand around are its number.
ChrootExclusion ==
    \A v, w \in Pid :
        v # w /\ Busy(v) /\ Busy(w) /\ proc[v].lock.machine = proc[w].lock.machine
            => proc[v].wid # proc[w].wid

\* A worker id is either free or in the entry of one child in %Children.
WorkerIdsApart ==
    \A s \in Slave : \A c \in children[s] :
        c.wid \notin ids[s] /\ \A d \in children[s] : c # d => c.wid # d.wid

\* Every row of table locks is in the memory of a supervisor of its machine: it is
\* the lock of a claim, of a worker just forked, of an entry of %Children or of a
\* corpse.  No exception makes main, start_child or process_dead_children forget one.
\* (It is not said that the entry's worker still runs: see GivesBack.)
Remembers(s, l) ==
    \/ sl[s].lock = l
    \/ sl[s].child # None /\ sl[s].child.lock = l
    \/ \E c \in children[s] \cup dead[s] : c.lock = l

LocksRemembered ==
    \A l \in locks : \E s \in Slave : Host[s] = l.machine /\ Remembers(s, l)

\* A port that counts as built has its package in the store once it is
\* unlocked, whatever became of the worker between insert_results and
\* upload_pkgfile.
PassedHasPackage ==
    \A p \in Port : Built(p) /\ ~ Locked(p) => p \in pkgs

\* A port waiting to be tested has no log of an earlier test: Port::reset
\* "returns the port to a pristine untested state".
PristineWhenReady == \A p \in ReadyPorts : p \notin logs

\* A log is only kept with a result that has one (insert_results), or while a
\* new test is under way.
LogExplained ==
    \A p \in logs : Locked(p) \/ status[p] \in {"fail", "internal"}

\* Whatever an injecting worker still has to fetch, it will find:
\* Worker.pm, "There should be a package that we can use to install the port."
DependsHavePackages ==
    \A w \in Pid : proc[w].pc = "inject" => proc[w].todo \subseteq pkgs

-----------------------------------------------------------------------------
(* The inductive invariant behind BuildExclusion, when nobody kills a       *)
(* process tree half-way or deletes a lock by hand.                        *)

NoKillers == Faults \cap {"term", "wterm", "unlock"} = {}

\* What the program counters say about the local variables.
SlaveControl ==
    \A s \in Slave :
        /\ sl[s].pc = "insert" => sl[s].port # None
        /\ sl[s].pc = "claimed" => sl[s].lock # None
        /\ sl[s].pc = "forked" => sl[s].child # None

WorkerControl ==
    \A w \in Pid :
        /\ Active(w) \/ TestRuns(w) => proc[w].lock # None
        /\ proc[w].tpc = "status" => proc[w].result # None

\* Where only the handler of a signal takes a worker.
SignalPC == {"intwait", "intlog", "intstatus",
             "search", "sweep", "sweepstatus", "unlock", "spin"}

\* Nobody is sent a signal, so no test outlives its worker.
Undisturbed ==
    /\ \A s \in Slave : ~ sl[s].term /\ sl[s].pc \notin {"kill", "search", "sweep"}
                         /\ sl[s].back = "main"
    /\ \A w \in Pid : /\ ~ proc[w].int /\ ~ proc[w].tint
                      /\ proc[w].pc \notin SignalPC
                      /\ TestRuns(w) => proc[w].pc \in {"forked", "wait"}

\* Table locks: its two keys, and the sequence ahead of them.
LocksKeyed ==
    /\ \A l \in locks : l.id < nextLock
    /\ \A k, l \in locks : k.id = l.id \/ k.port = l.port => k = l

\* Every worker has a lock of its own, in the table.
WorkersHoldLocks ==
    /\ \A w \in Pid : Active(w) => proc[w].lock \in locks
    /\ \A v, w \in Pid :
          Active(v) /\ Active(w) /\ v # w => proc[v].lock.id # proc[w].lock.id

\* The lock of a claim that has not been forked for is nobody else's.
ClaimsApart ==
    \A s \in Slave : sl[s].pc = "claimed" =>
        /\ sl[s].lock \in locks
        /\ \A w \in Pid : Active(w) => proc[w].lock.id # sl[s].lock.id
        /\ \A t \in Slave : t # s /\ sl[t].pc = "claimed" => sl[t].lock.id # sl[s].lock.id

\* The locks that are about to be deleted are those of corpses, and no worker,
\* and no claim, has such a lock any more.
CorpsesApart ==
    \A s \in Slave :
        /\ sl[s].pc \in {"resetlog", "resetstatus", "unlock"} =>
              \E c \in dead[s] : c.lock = sl[s].lock
        /\ \A c \in dead[s] :
              /\ c.lock.id < nextLock
              /\ \A w \in Pid : Active(w) => proc[w].lock.id # c.lock.id
              /\ \A t \in Slave : sl[t].pc = "claimed" => sl[t].lock.id # c.lock.id

\* %Children says the truth about the workers that still run.
ChildrenKnown ==
    \A s \in Slave :
        /\ \A c \in children[s] : Active(c.pid) => proc[c.pid].lock = c.lock
        /\ sl[s].child # None =>
              (Active(sl[s].child.pid) => proc[sl[s].child.pid].lock = sl[s].child.lock)

TypeInv == TypeOK /\ SlaveControl /\ WorkerControl

IInv ==
    /\ TypeInv /\ Undisturbed /\ LocksKeyed /\ WorkersHoldLocks
    /\ ClaimsApart /\ CorpsesApart /\ ChildrenKnown

-----------------------------------------------------------------------------
(* Action properties.                                                      *)

\* The status of a port changes only while the port is locked.
StatusUnderLock ==
    [][\A p \in Port : status'[p] # status[p] => Locked(p)]_vars

\* A supervisor that ends by itself leaves no lock of its machine behind.
QuitLeavesNoLock ==
    [][\A s \in Slave : Quit(s) => MachineLocks(Host[s]) = {}]_vars

-----------------------------------------------------------------------------
(* Liveness.                                                               *)

\* The lock will be given back: it is that of a claim, of a process the supervisor
\* still has to wait for, or of a corpse, which process_dead_children deletes.  An entry
\* of %Children whose process was reaped before it was made is none of these.
GivesBack(s, l) ==
    \/ sl[s].lock = l
    \/ \E w \in Pid : proc[w].pc # "free" /\ proc[w].slave = s /\ proc[w].lock = l
    \/ \E c \in dead[s] : c.lock = l

Forgotten(p) == \E l \in locks : l.port = p /\ \A s \in Slave : ~ GivesBack(s, l)

Blocked(p) == \E d \in Depends[p] : ~ Built(d)

\* Every port is tested in the end, through signals that interrupt or come together,
\* an exception or a lost database, unless a port it depends on is not built, or its
\* worker ended before start_child had registered it.
AllTested == <>[](\A p \in Port : status[p] = "untested" => Blocked(p) \/ Forgotten(p))

-----------------------------------------------------------------------------
(* Refinement: the slaves implement BuildQueue.                            *)

Owner(p) == IF Locked(p) THEN (CHOOSE l \in locks : l.port = p).machine ELSE None

Queue == INSTANCE BuildQueue WITH owner <- [p \in Port |-> Owner(p)]

ImplementsBuildQueue == Queue!Spec

=============================================================================
