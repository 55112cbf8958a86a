------------------------------ MODULE MagusRuns -------------------------------
(***************************************************************************)
(* The life of a run of one osversion and arch: the master makes it and    *)
(* completes it (update_cluster.pl, Run.pm, Index.pm), the slaves move to  *)
(* it (get_current_run of magus.pl) and test its ports.  The claim of a    *)
(* port and its test, which MagusSlave has in all their steps, are one     *)
(* step each here.                                                         *)
(*                                                                         *)
(* Faults, of which MaxFaults happen in a behaviour:                       *)
(*   "die"     update_cluster.pl ends with an exception, or is killed,     *)
(*   "restart" a slave machine restarts,                                   *)
(*   "new"     the operator runs update_cluster.pl new beside an active    *)
(*             run,                                                        *)
(*   "chld"    a worker ends while get_current_run has SIGCHLD at its      *)
(*             default.                                                    *)
(***************************************************************************)
EXTENDS Naturals, FiniteSets

CONSTANTS
    Port,
    Depends,    \* [Port -> the ports it depends on]
    Machine,
    Jobs,       \* the workers of a machine
    MaxRuns,    \* the runs in a behaviour
    Faults, MaxFaults

ASSUME RunsAssumption ==
    /\ Depends \in [Port -> SUBSET Port]
    /\ Jobs \in Nat \ {0} /\ MaxRuns \in Nat \ {0} /\ MaxFaults \in Nat

VARIABLES
    runs,       \* [Run -> the status of the run], table runs
    ports,      \* [Run -> [Port -> its status]], table ports
    locks,      \* table locks
    tarballs,   \* the runs that have a tarball of their tree
    master,     \* update_cluster.pl
    machines,   \* [Machine -> the supervisor and what is on its disk]
    budget

vars == <<runs, ports, locks, tarballs, master, machines, budget>>

Run == 1 .. MaxRuns

RunStatus == {"none", "inactive", "active", "complete"}

\* "pass" stands for warn too, "fail" for skip and internal too.
PortStatus == {"none", "untested", "pass", "fail"}

Claimed == [run : Run, port : Port]

\* work is what the loop at hand still has to do, done the runs to be replaced
\* (0 for one that replaces none), run the local variable $run.
Master == [pc : {"off", "locks", "ready", "mark", "clone", "create", "tar", "index", "activate"},
           work : SUBSET Run, done : SUBSET (Run \cup {0}), run : Run]

\* run is column machines.run, and the local variable $current once it is the same,
\* next is $current while it is not; tree is the number in .magus_run_id; children
\* and corpses are the ports of the workers in %Children and in @DeadChildren, zombies
\* those of the children that have ended without a SIGCHLD.
Supervisor == [pc : {"main", "fill", "default", "claim", "fetch", "extract", "extracting", "exec"},
               run : Run \cup {0}, next : Run \cup {0}, tree : Run \cup {0},
               children : SUBSET Claimed, zombies : SUBSET Claimed, corpses : SUBSET Claimed]

NewMaster == [pc |-> "off", work |-> {}, done |-> {}, run |-> 1]

NewSupervisor == [pc |-> "main", run |-> 0, next |-> 0, tree |-> 0,
                  children |-> {}, zombies |-> {}, corpses |-> {}]

\* A new installation: the operator has the first run made.
Init ==
    /\ runs = [r \in Run |-> "none"]
    /\ ports = [r \in Run |-> [p \in Port |-> "none"]]
    /\ locks = {}
    /\ tarballs = {}
    /\ master = [NewMaster EXCEPT !.pc = "clone", !.done = {0}]
    /\ machines = [m \in Machine |-> NewSupervisor]
    /\ budget = MaxFaults

-----------------------------------------------------------------------------

Lock(m, c) == [run |-> c.run, port |-> c.port, machine |-> m]

Locked(r) == \E l \in locks : l.run = r

Active == {r \in Run : runs[r] = "active"}

\* View ready_ports.
Ready(r) ==
    {p \in Port : /\ ports[r][p] = "untested"
                  /\ \A q \in Depends[p] : ports[r][q] = "pass"
                  /\ ~ \E l \in locks : l.run = r /\ l.port = p}

-----------------------------------------------------------------------------
(* The master.                                                             *)

MasterUnchanged == UNCHANGED <<locks, machines, budget>>

\* refresh: the runs to look at are selected at once.
Refresh ==
    /\ master.pc = "off"
    /\ Active # {}
    /\ master' = [NewMaster EXCEPT !.pc = "locks", !.work = Active]
    /\ UNCHANGED <<runs, ports, tarballs>> /\ MasterUnchanged

\* is_empty counts the locks of a run, and then, if there are none, looks for a
\* port that is ready.
LookLocks ==
    /\ master.pc = "locks"
    /\ \E r \in master.work :
          master' = IF Locked(r) THEN [master EXCEPT !.work = @ \ {r}]
                                 ELSE [master EXCEPT !.pc = "ready", !.run = r]
    /\ UNCHANGED <<runs, ports, tarballs>> /\ MasterUnchanged

LookReady ==
    /\ master.pc = "ready"
    /\ master' = [master EXCEPT !.pc = "locks", !.work = @ \ {master.run},
                     !.done = IF Ready(master.run) = {} THEN @ \cup {master.run} ELSE @]
    /\ UNCHANGED <<runs, ports, tarballs>> /\ MasterUnchanged

\* Every active run has been looked at.
LookedAtAll ==
    /\ master.pc = "locks" /\ master.work = {}
    /\ master' = IF master.done = {} THEN NewMaster
                 ELSE [master EXCEPT !.pc = "mark", !.work = master.done]
    /\ UNCHANGED <<runs, ports, tarballs>> /\ MasterUnchanged

Mark ==
    /\ master.pc = "mark"
    /\ \E r \in master.work :
          /\ runs' = [runs EXCEPT ![r] = "complete"]
          /\ master' = [master EXCEPT !.work = @ \ {r},
                                      !.pc = IF master.work = {r} THEN "clone" ELSE "mark"]
    /\ UNCHANGED <<ports, tarballs>> /\ MasterUnchanged

\* new: one run more.
New ==
    /\ "new" \in Faults /\ budget > 0
    /\ budget' = budget - 1
    /\ master.pc = "off"
    /\ master' = [NewMaster EXCEPT !.pc = "clone", !.done = {0}]
    /\ UNCHANGED <<runs, ports, locks, tarballs, machines>>

\* update_vcs_dir.
Clone ==
    /\ master.pc = "clone"
    /\ master' = [master EXCEPT !.pc = "create"]
    /\ UNCHANGED <<runs, ports, tarballs>> /\ MasterUnchanged

\* Mutant: a run is born active.
MutCreate ==
    /\ master.pc = "create"
    /\ \E r \in Run, d \in master.done :
          /\ runs[r] = "none" /\ \A q \in Run : q < r => runs[q] # "none"
          /\ runs' = [runs EXCEPT ![r] = "active"]
          /\ master' = [master EXCEPT !.pc = "tar", !.run = r, !.done = @ \ {d}]
    /\ UNCHANGED <<ports, tarballs>> /\ MasterUnchanged

Create ==
    /\ master.pc = "create"
    /\ \E r \in Run, d \in master.done :
          /\ runs[r] = "none" /\ \A q \in Run : q < r => runs[q] # "none"
          /\ runs' = [runs EXCEPT ![r] = "inactive"]
          /\ master' = [master EXCEPT !.pc = "tar", !.run = r, !.done = @ \ {d}]
    /\ UNCHANGED <<ports, tarballs>> /\ MasterUnchanged

MakeTarball ==
    /\ master.pc = "tar"
    /\ tarballs' = tarballs \cup {master.run}
    /\ master' = [master EXCEPT !.pc = "index"]
    /\ UNCHANGED <<runs, ports>> /\ MasterUnchanged

\* Index->sync: an interactive port is skipped already, and one with a dependency that
\* does not exist has failed.
Sync ==
    /\ master.pc = "index"
    /\ \E failed \in SUBSET Port :
          ports' = [ports EXCEPT ![master.run] =
                       [p \in Port |-> IF p \in failed THEN "fail" ELSE "untested"]]
    /\ master' = [master EXCEPT !.pc = "activate"]
    /\ UNCHANGED <<runs, tarballs>> /\ MasterUnchanged

Activate ==
    /\ master.pc = "activate"
    /\ runs' = [runs EXCEPT ![master.run] = "active"]
    /\ master' = IF master.done = {} THEN NewMaster ELSE [master EXCEPT !.pc = "create"]
    /\ UNCHANGED <<ports, tarballs>> /\ MasterUnchanged

MasterDies ==
    /\ "die" \in Faults /\ budget > 0
    /\ budget' = budget - 1
    /\ master.pc # "off"
    /\ master' = NewMaster
    /\ UNCHANGED <<runs, ports, locks, tarballs, machines>>

-----------------------------------------------------------------------------
(* A slave.                                                                *)

Set(m, s) == machines' = [machines EXCEPT ![m] = s]

SlaveUnchanged == UNCHANGED <<runs, tarballs, master, budget>>

\* Mutant: the corpse is forgotten and the lock stays.
MutUnlock(m) ==
    LET s == machines[m] IN
    /\ s.pc = "main"
    /\ \E c \in s.corpses : Set(m, [s EXCEPT !.corpses = @ \ {c}])
    /\ UNCHANGED <<locks, ports>> /\ SlaveUnchanged

\* The top of the loop: process_dead_children, one corpse at a time.
Unlock(m) ==
    LET s == machines[m] IN
    /\ s.pc = "main"
    /\ \E c \in s.corpses :
          /\ locks' = locks \ {Lock(m, c)}
          /\ Set(m, [s EXCEPT !.corpses = @ \ {c}])
    /\ UNCHANGED ports /\ SlaveUnchanged

Main(m) ==
    /\ machines[m].pc = "main" /\ machines[m].corpses = {}
    /\ Set(m, [machines[m] EXCEPT !.pc = "fill"])
    /\ UNCHANGED <<locks, ports>> /\ SlaveUnchanged

\* All the jobs are taken: the supervisor sleeps, until a worker ends.
Sleep(m) ==
    /\ machines[m].pc = "fill" /\ Cardinality(machines[m].children) = Jobs
    /\ Set(m, [machines[m] EXCEPT !.pc = "main"])
    /\ UNCHANGED <<locks, ports>> /\ SlaveUnchanged

Latest(r) == r \in Active /\ \A q \in Active : q <= r

\* get_current_run when there is no active run: the supervisor naps.
NoRun(m) ==
    /\ machines[m].pc = "fill" /\ Cardinality(machines[m].children) < Jobs
    /\ Active = {}
    /\ Set(m, [machines[m] EXCEPT !.pc = "main"])
    /\ UNCHANGED <<locks, ports>> /\ SlaveUnchanged

\* get_current_run when the tree is the one of the latest run.
SameRun(m) ==
    LET s == machines[m] IN
    /\ s.pc = "fill" /\ Cardinality(s.children) < Jobs
    /\ Latest(s.run) /\ s.tree = s.run
    /\ Set(m, [s EXCEPT !.pc = "claim"])
    /\ UNCHANGED <<locks, ports>> /\ SlaveUnchanged

\* get_current_run when there is another run: SIGCHLD is set to its default.
OtherRun(m) ==
    LET s == machines[m] IN
    /\ s.pc = "fill" /\ Cardinality(s.children) < Jobs
    /\ \E r \in Run : /\ Latest(r) /\ (s.run # r \/ s.tree # r)
                      /\ Set(m, [s EXCEPT !.pc = "default", !.next = r])
    /\ UNCHANGED <<locks, ports>> /\ SlaveUnchanged

\* Some worker is still at the old run: the handler is back, and the supervisor naps.
NotYet(m) ==
    /\ machines[m].pc = "default" /\ machines[m].children # {}
    /\ Set(m, [machines[m] EXCEPT !.pc = "main", !.next = 0])
    /\ UNCHANGED <<locks, ports>> /\ SlaveUnchanged

\* Mutant: a machine moves to the latest run whatever its workers do.
MutMove(m) ==
    /\ machines[m].pc = "default"
    /\ Set(m, [machines[m] EXCEPT !.pc = "fetch", !.run = machines[m].next, !.next = 0])
    /\ UNCHANGED <<locks, ports>> /\ SlaveUnchanged

Move(m) ==
    /\ machines[m].pc = "default" /\ machines[m].children = {}
    /\ Set(m, [machines[m] EXCEPT !.pc = "fetch", !.run = machines[m].next, !.next = 0])
    /\ UNCHANGED <<locks, ports>> /\ SlaveUnchanged

\* The tarball is fetched; the old tree is removed.
Fetch(m) ==
    /\ machines[m].pc = "fetch"
    /\ machines[m].run \in tarballs
    /\ Set(m, [machines[m] EXCEPT !.pc = "extract", !.tree = 0])
    /\ UNCHANGED <<locks, ports>> /\ SlaveUnchanged

\* tar comes to .magus_run_id, before or after other files.
Extract(m) ==
    /\ machines[m].pc = "extract"
    /\ Set(m, [machines[m] EXCEPT !.pc = "extracting", !.tree = machines[m].run])
    /\ UNCHANGED <<locks, ports>> /\ SlaveUnchanged

Extracted(m) ==
    /\ machines[m].pc = "extracting"
    /\ Set(m, [machines[m] EXCEPT !.pc = "exec"])
    /\ UNCHANGED <<locks, ports>> /\ SlaveUnchanged

\* exec: the supervisor begins anew, without @DeadChildren.
Exec(m) ==
    /\ machines[m].pc = "exec"
    /\ Set(m, [machines[m] EXCEPT !.pc = "main", !.corpses = {}])
    /\ UNCHANGED <<locks, ports>> /\ SlaveUnchanged

\* get_ready_lock and start_child; or there is no port and the supervisor naps.
Claim(m) ==
    LET s == machines[m] IN
    /\ s.pc = "claim"
    /\ \/ \E p \in Ready(s.run) :
             LET c == [run |-> s.run, port |-> p] IN
             /\ locks' = locks \cup {Lock(m, c)}
             /\ Set(m, [s EXCEPT !.pc = "fill", !.children = @ \cup {c}])
       \/ /\ Ready(s.run) = {}
          /\ Set(m, [s EXCEPT !.pc = "main"])
          /\ UNCHANGED locks
    /\ UNCHANGED ports /\ SlaveUnchanged

Store(c) ==
    \E result \in {"pass", "fail"} : ports' = [ports EXCEPT ![c.run][c.port] = result]

\* A worker has stored its result and is reaped, with every zombie there is.
End(m) ==
    LET s == machines[m] IN
    /\ \E c \in s.children \ s.zombies :
          /\ Store(c)
          /\ Set(m, [s EXCEPT !.children = @ \ ({c} \cup s.zombies), !.zombies = {},
                             !.corpses = @ \cup {c} \cup s.zombies])
    /\ UNCHANGED locks /\ SlaveUnchanged

\* A worker ends, and nobody is told.
EndUnseen(m) ==
    LET s == machines[m] IN
    /\ "chld" \in Faults /\ budget > 0
    /\ budget' = budget - 1
    /\ s.pc = "default"
    /\ \E c \in s.children \ s.zombies : Store(c) /\ Set(m, [s EXCEPT !.zombies = @ \cup {c}])
    /\ UNCHANGED <<runs, locks, tarballs, master>>

Restart(m) ==
    /\ "restart" \in Faults /\ budget > 0
    /\ budget' = budget - 1
    /\ Set(m, [NewSupervisor EXCEPT !.run = machines[m].run, !.tree = machines[m].tree])
    /\ UNCHANGED <<runs, ports, locks, tarballs, master>>

-----------------------------------------------------------------------------

MasterStep ==
    LookLocks \/ LookReady \/ LookedAtAll \/ Mark \/ Clone \/ Create \/ MakeTarball \/ Sync
        \/ Activate

SlaveStep(m) ==
    Unlock(m) \/ Main(m) \/ Sleep(m) \/ NoRun(m) \/ SameRun(m) \/ OtherRun(m) \/ NotYet(m)
        \/ Move(m) \/ Fetch(m) \/ Extract(m) \/ Extracted(m) \/ Exec(m) \/ Claim(m)

Next ==
    \/ Refresh \/ MasterStep \/ New \/ MasterDies
    \/ \E m \in Machine : SlaveStep(m) \/ End(m) \/ EndUnseen(m) \/ Restart(m)

Spec == Init /\ [][Next]_vars

\* The master is run again and again, slaves loop, and builds end.
FairSpec ==
    /\ Spec
    /\ WF_vars(Refresh) /\ WF_vars(MasterStep)
    /\ \A m \in Machine : WF_vars(SlaveStep(m)) /\ WF_vars(End(m))

-----------------------------------------------------------------------------
(* Properties.                                                             *)

TypeOK ==
    /\ runs \in [Run -> RunStatus]
    /\ ports \in [Run -> [Port -> PortStatus]]
    /\ locks \subseteq [run : Run, port : Port, machine : Machine]
    /\ tarballs \subseteq Run
    /\ master \in Master
    /\ machines \in [Machine -> Supervisor]
    /\ budget \in Nat

\* The tree that a worker builds from is the one of the run of its port, whenever
\* the latest run changes and machines restart (magus.pl: "Children active, not
\* moving to new run yet").
TreeMatches ==
    \A m \in Machine : \A c \in machines[m].children :
        c.run = machines[m].tree /\ Lock(m, c) \in locks

\* What the slaves may see of a run is finished: its tree and all its ports are
\* there, wherever update_cluster.pl has died.
ActiveIsWhole ==
    \A r \in Active : r \in tarballs /\ \A p \in Port : ports[r][p] # "none"

\* is_empty "returns true if the run has no ports left to be tested" (Run.pm): a
\* run that has been completed is not being tested and offers no port.
CompleteIsTested ==
    \A r \in Run : runs[r] = "complete" => ~ Locked(r) /\ Ready(r) = {}

\* As long as nothing goes wrong, a run is tested to its end and gives way to
\* another one.
GivesWay ==
    [](budget = MaxFaults) =>
        \A r \in Run : r < MaxRuns =>
            (runs[r] = "active" ~> runs[r] = "complete" /\ \E q \in Active : q > r)

\* A supervisor follows the latest run ("Check to see if the current run is the
\* latest, and update it if it isn't", magus.pl): when one remains the latest for ever,
\* every machine comes to it.
Follows ==
    \A m \in Machine, r \in Run : <>[]Latest(r) => []<>(machines[m].run = r)

-----------------------------------------------------------------------------
(* The inductive invariant of TreeMatches and ActiveIsWhole.               *)

\* A corpse still has its lock, so that nobody claims its port again.
Buried ==
    \A m \in Machine :
        LET s == machines[m] IN
        /\ s.zombies \subseteq s.children /\ s.children \cap s.corpses = {}
        /\ \A c \in s.corpses : Lock(m, c) \in locks

\* A machine that moves to another run has no worker, and one that claims a port
\* has the tree of its run.
Settled ==
    \A m \in Machine :
        LET s == machines[m] IN
        /\ s.pc \in {"fetch", "extract", "extracting", "exec"} => s.children = {} /\ s.run # 0
        /\ s.pc = "default" => s.next # 0
        /\ s.pc = "claim" => s.run # 0 /\ s.tree = s.run
        /\ s.children # {} => s.tree = s.run

\* What the master looks at are runs, and what it has made of its run so far.
Made ==
    /\ master.pc \in {"locks", "ready"} => master.done \subseteq Run
    /\ master.pc \in {"index", "activate"} => master.run \in tarballs
    /\ master.pc = "activate" => \A p \in Port : ports[master.run][p] # "none"

IInv == TypeOK /\ TreeMatches /\ ActiveIsWhole /\ Buried /\ Settled /\ Made

=============================================================================
