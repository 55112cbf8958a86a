# Magus, the build cluster of mports: a TLA+ development

The repository is the ports tree of MidnightBSD.  Nearly all of its files
describe single ports, or are patches to other people's programs; the program
logic of its own is in `Tools/` and `Mk/`, and in a few ports whose `files/`
hold whole programs.  This project is about two parts:

* **Magus**, the cluster that builds and tests every port of the tree on many
  machines at once and releases the result (`Tools/magus`, `Tools/lib/Magus`).
  It is written in Perl and C++, has no tests of its own, and lives on what is
  hard to test: several supervisors and their workers over one database without
  transactions, signals, lost connections, process deaths, half-prepared chroot
  directories and half-copied packages.
* the **kqueue file monitor** that the port `devel/glib20` adds to GLib
  (`files/kqueue_fnm.c`): application threads, a pipe and a thread that share
  objects without locks, with a rate limit, renames and mounts.

## Inventory

| Component | State it keeps | Operations | Module |
|---|---|---|---|
| **Slave supervisor** `slave/magus.pl` | `%Children`, `$Children`, `@DeadChildren`, `%WorkerIDs`, the handlers of SIGCHLD and SIGTERM | `main`, `start_child`, `process_dead_children`, `kill_children`, `get_current_run`, the restart loop of `start-magus.sh` | MagusSlave, MagusRuns |
| **Slave worker** `App/Slave/Worker.pm` | the worker process, its test child, the chroot it is in | `run`, `prep_chroot`, `inject_*`, `run_test`, `insert_results`, `upload_*` | MagusWorker |
| **Database and locks** `Lock.pm`, `Port.pm`, `schema.sql` | tables runs, ports, depends, locks, logs, events; view ready_ports | `get_ready_lock`, `_get_lock`, `set_result_*`, `reset` | MagusDB, MagusRuns |
| **Chroot** `Chroot.pm` | the reference directory and its `.checksum`, one directory per worker with its marks `.clean` and `.dirty` and its loopback mounts, `<tarball>.md5` | `new`, `mark_dirty`, `delete` and everything below `_init` | Chroot |
| **Master** `master/update_cluster.pl`, `Run.pm` | the runs and their tarballs | `refresh`, `new`, `is_empty`, `latest` | MagusRuns |
| **Run index** `Index.pm` | the rows of ports and depends of a new run | `sync`: `recurse_ports`, `insert`, the search for dependencies | RunIndex (row by row), MagusRuns (one step) |
| **Port test** `PortTest.pm`, `OutcomeRules` | the summary, errors, warnings and log of a test | `run`, `execute`, the rules | PortTest, MagusWorker (its outcomes) |
| **Package tools** `bless/magus-bless.cxx`, `distcheck/distcheck.cxx` | index.db, `runs.blessed`, the distfiles that are published | `main`, `load_depends`, `create_indexdb` and the rest | MagusRelease |
| **Web front end, operations** `reset_port.cgi`, `delete_lock.cgi` | none of their own | reset a port, delete a lock | MagusSlave, MagusRelease (environment) |
| **GLib file monitor** `devel/glib20/files/kqueue_fnm.c`, `gkqueuefilemonitor.c` | entries and the object they share per path, the cache of objects, a pipe, kevents, timers, the list of mounts | `kq_fnm_add`, `kq_fnm_del`, the thread with its messages, events, rescans, renames, mounts and callbacks | DirSnapshot, FileMonitor |
| Master scripts run by hand, reports, chroot tarball, pages of the web front end, ports framework `Mk/` | | | not modelled, see the end |

**How they interact.**  All parts meet in the database; every statement is a
transaction of its own.  A supervisor asks view ready_ports for a port, inserts
a row in locks (unique by port), forks a worker, and the worker forks the test
child that builds in a chroot.  The test child stores status, events and log;
its parent uploads the package; the supervisor learns of the worker's death by
SIGCHLD, keeps the corpse in `@DeadChildren` and deletes the lock at the top of
its loop.  The master looks at the runs without lock or ready port, completes
them and makes new ones; a supervisor that sees a newer run replaces its ports
tree and executes itself anew.  Packages go from worker to worker through the
package store of the master, where `magus-bless` hashes them into index.db and
marks the run; `distcheck` copies what may be given away with them.  The file
monitor has nothing to do with the cluster: threads of an application write
messages to a pipe, one thread takes kevents and calls back.

**What is hard.**

* Concurrency: claims are two statements (select, insert); `is_empty` is two
  statements; operators change rows at any time, also while `magus-bless`
  hashes packages; the file monitor has no lock at all ("XXX: lock here?").
* Signals: SIGCHLD interrupts every line of the supervisor, is merged, is lost
  around `sleep`, and is set to its default in `get_current_run`; SIGTERM runs
  `kill_children` inside whatever was going on, also inside a freshly forked
  child.
* Failure: a connection lost before or after any statement, exceptions of a
  build, machines that restart, an update of the cluster that dies half-way,
  supervisors that die and leave workers behind, a `magus-bless` that dies
  over half an index.
* Order: status before log, status before package, corpse before lock; removal
  of `.clean` before `.dirty`; checksum last; status before upload before
  hash; removals before creations in the events of a rescan; timers against
  removals and mounts.

**What makes each part correct.**  Two process trees never test one port; a
worker id (and chroot) is never in two hands; no exception makes a supervisor
forget a lock; a port that counts as built has its package; a reset port has no
log; every port that can be tested is tested; a chroot handed to a worker is a
whole copy without remains of a build; a worker builds from the tree of its
run; slaves see only finished runs; a run is completed only when it is tested;
a machine follows the latest run; a published index is whole and, for ports left
alone meanwhile, closed under dependencies and true of the packages beside it;
a cancelled file monitor is silent, what was freed is not used, a change is
never held back for good, and the events of a rescan lead to the right names.

## Modules

| Module | What it is |
|---|---|
| `MagusDB` | tables ports, locks, logs and the package store, the queries and statements on them, for one run |
| `MagusWorker` | a worker and its test child: one action per statement, transfer, fork, end or exception |
| `MagusSlave` | the supervisors, the signals, the operators; `Next` composes them with MagusWorker over MagusDB; the properties |
| `BuildQueue` | the abstract specification: a port has at most one owner, changes only while owned, and is given up unbuilt or with its package |
| `Chroot` | the chroot directories of one machine, and the processes that die between two steps on them |
| `MagusRuns` | the life of runs: the master in steps, the move of the slaves, claims and tests as one step each |
| `PortTest` | what a test says, from what its phases did: a fold, and a reference for it |
| `RunIndex` | `sync`: the ports tree becomes rows, with flavors, missing and clashing dependencies |
| `MagusRelease` | a run from the tree to the published index: RunIndex and PortTest composed with slaves, operators, `magus-bless` and `distcheck` |
| `DirSnapshot` | what a rescan makes of two readings of a directory, and a reference for it |
| `FileMonitor` | the file monitor of GLib over DirSnapshot, one watched directory |
| `MCSlave`, `MCChroot`, `MCRuns`, `MCRelease`, `MCMonitor`, `MCMonitorLive` | dependency functions, trees, tests and constants for TLC |
| `MagusSlave_proofs`, `MagusExclusion_proofs` | theorems: types; the locks and the exclusion of builds |
| `MagusKids_proofs`, `MagusQueue_proofs` | theorems: what a supervisor knows of its children; what the slaves do to the ports they lock, and that they implement `BuildQueue` |
| `Chroot_proofs`, `MagusRuns_proofs`, `MagusRelease_proofs`, `FileMonitor_proofs` | theorems about these modules; those about `PortTest` are in `MagusRelease_proofs`, those about `DirSnapshot` in `FileMonitor_proofs` |

### MagusDB, MagusWorker, MagusSlave

`MagusDB` has `status`, `locks` (with the sequence `nextLock`, because a lock
object keeps the id of its row and deletes by it), `logs` and `pkgs`.
`ReadyPorts` translates view ready_ports as the SQL evaluates it: the last
disjunct of its sub-select compares `depends.dependency` with the lock of *the
port itself*, which is null in every row that qualifies, so locks of
dependencies never hold a port back.

`MagusWorker` keeps one record `proc[w]` per process tree: where the worker is
(`pc`), where its test child is (`tpc`), its lock, worker id, result and the
packages it still has to fetch.  A lost database ends a process with exit code
6, other exceptions mark the port `internal`; both paths are actions.  Until
`Worker->run` has put its own handlers in place, and after it has put the old
ones back (`start`, `leave`), a child has those of its parent: `Inherited` is a
SIGTERM or SIGINT that makes it run `kill_children` with its copy of
`$Children` and sweep the locks of the machine (`KidSearch` to `KidQuit`).

`MagusSlave` keeps one record `sl[s]` per supervisor with its place in `main`
and its local variables, and `children`, `dead`, `ids`.  `Reap` is the handler
of SIGCHLD and may come between any two steps: it takes every zombie, in any
order, until the first pid it does not know (the `return` at magus.pl:92).
`Term` starts `kill_children` from wherever the supervisor is; `back` keeps
which of the two `eval`s of main catches a lost database in there.  `$Children`
and `%Children` are one variable; the order of `@DeadChildren` is left open.

Faults are constants: `Faults` names the kinds that may happen, `MaxFaults` how
many (see the heads of the modules).  What is not a fault — scheduling,
delivery of signals, results of builds — is always nondeterministic.

### Chroot

`ref` is the reference directory (exists, whole, checksum), `dir[i]` the
directory of worker id `i` (exists, whole copy, marks, what is left in it,
mounts), and `pc[p]` the place of a process in `new` and after.  `Crash`,
`Stop` and `Reboot` end processes between any two steps; mounts go away with
the machine but not with a process.  `untar`, `cpdup` and `rmtree` are a begin
and an end, so that a death leaves them partial.  The operator may put another
tarball in place, with or without removing the cached `<tarball>.md5`: while no
process runs, or, with the fault "replace", at any time.  Two
facts of the system are taken from outside: mounting a loopback where it is
already mounted fails, and unmounting does not.

### MagusRuns

The master is a record with the program counter of `update_cluster.pl`; the
runs to look at and to replace are local sets.  `is_empty` is `LookLocks`
followed by `LookReady`.  A supervisor is reduced to the outline of `main`
with all of `get_current_run`: `OtherRun` puts SIGCHLD to its default,
`NotYet` or `Move` follow, then `Fetch`, `Extract`, `Exec`.  `EndUnseen` is a
worker that ends while SIGCHLD is at its default.  The claim and the test are
one step each here; MagusSlave has them in all their steps.

### PortTest, RunIndex, MagusRelease

`PortTest` folds the loop of `PortTest.pm` over the phases of a test.  The
assumption `TestsRight` of MCSlave compares it with its reference
`RightResults` for all sequences of up to three phases, and
`MagusRelease_proofs!TestsAreRight` proves it for all sequences.  `MagusRelease` takes
the results of tests from `Results`.

`RunIndex` has the tree as a constant of the behaviour: for each name the
sequence of what `describe-yaml` prints for its flavors, the default one first.
`InsertPorts` is `recurse_ports` for a name, `Link`, `LinkMissing` and
`LinkClashing` are the rounds of the loop over all rows: found, not found (the
port fails, and what was inserted before stays), and two declared dependencies
that come to one row of table depends, whose primary key ends `sync`.  The
order of rows and of dependencies is that of a hash and left open.

`MagusRelease` sees the slaves from the tables and the package files: `job` says
how far a worker is with the port it has selected, `lock` whose lock is in the
table.  Select and insert are two steps, as in MagusSlave.  After the result is
stored (`Report`) a worker copies its package (`StartUpload`, `EndUpload`), or
scp fails over a part of it and the port becomes `internal` (`UploadFails`,
`StoreInternal`), an exception comes at any other point (`Throw`), the database
is lost and the supervisor makes the port untested (`LosesDB`, `GiveBack`), the
worker is killed or its machine dies in the middle (`Cut`), `kill_children`
sweeps the port (`Sweep`) or its lock is deleted under it (`DropLock`, also
`delete_lock.cgi`).  `Reset` is `reset_port.cgi`, of any port at any time.
`MaxMishaps` bounds these together.  `magus-bless` is a record with its program
counter: the query, of whatever run it is given, `BlessOpen`, which replaces
index.db by an empty one, one package at a time with its dependencies on a
second connection, `BlessClose`, `BlessMark`; `BlessDie` may come anywhere, and
unlink may fail.  A package is abstracted to the number of its build and
whether it is whole, a hash to the package it was taken of.  Three sets of rows
record what nothing in the code guards, for the properties to leave out:
`touched`, rows that a slave or an operator had to do with since the first
bless began; `resets`, rows that were made untested again by anybody; `torn`,
rows that a worker has had without its lock, or that were left as built when
the lock of a worker cut in the middle was deleted.

### DirSnapshot, FileMonitor

`Changes(old, new)` is `kq_handle_changes`: first the removals (what
`file_info_find_ni` finds neither by inode nor by name), then for every name in
the order of `readdir` a rename, a change, a creation or nothing.

`FileMonitor` keeps an object (`kq_fnmo_t`) per entry (`kq_fnme_t`); entries of
one path share an object after their message has been taken.  The file system
is the directory at the path and at two other places, one file system that may
be mounted over it, the listings, and the notes it raises at open directories.
The thread takes messages of the pipe one by one, then a kevent.  A callback is
two steps, `Look` and `Call`, because the flag `enabled` is read without a
lock; the events of one rescan are told one after the other, to the entries
that are there at the beginning of each.  `Rescanned` and `RescannedEvents`,
`Reported` and `ReportedEvents` give the new object and what is told.  The rate
limit is `interval`, `counted` and a timer that is off, runs once or is
periodic; time is left open (`Expire`).

## Runs

| Run | Instance | What it shows |
|---|---|---|
| `slave_pair` | 2 machines, a supervisor with 1 worker on each, 1 port, 3 process ids, 2 faults of: connection lost before or after a statement, exception, death of a supervisor, restart of a machine, failing fork | no port is tested twice at a time, also beside forgotten locks and orphans; a built port that is unlocked has its package, statuses change under lock only, a ready port has no log; the inductive invariant of the exclusion proof, and the cluster implements `BuildQueue` |
| `slave_faults` | 1 supervisor with 3 jobs, 2 process ids, 2 ports, p2 depends on p1, 1 fault of: lost connection, exception; fair | no exception makes the supervisor forget a lock, worker ids and chroots stay apart, logs are explained; every port is tested in the end, unless a dependency is not built or its worker was reaped before its registration |
| `slave_term` | 1 supervisor, 1 worker, 1 port, 2 faults of: SIGTERM for either, connection lost before or after a statement, or its reply, death, restart, failing fork, an operator who resets or deletes a lock | a supervisor that ends after `kill_children` leaves no lock of its machine, wherever the signal came, also between fork and registration |
| `slave_depends` | no fault | **violated**: a port is claimed before the package of its dependency is there |
| `chroot` | supervisor, 2 workers, 3 deaths or restarts, 2 tarballs, stale checksum, fair | a chroot is copied from a whole reference, handed out clean, and can always be prepared again |
| `runs` | 1 machine with 2 jobs, 2 ports, 2 runs, 2 faults of: restart, death of the master, `new` beside an active run, unseen SIGCHLD; fair | trees match runs, active runs are whole, and a run without faults is completed and replaced |
| `runs_complete` | 1 job, no fault | **violated**: a run is marked complete while a port of it is tested |
| `runs_follow` | 2 jobs, 1 unseen SIGCHLD, fair | **violated**: a machine never moves to the latest run |
| `release` | five trees of three names, three flavors, 1 worker, two builds per port, two starts of `magus-bless`, one mishap, deaths of `sync` and bless at any point | what slaves see is linked, only a whole index is marked, nothing that must be kept back is given away, a hash is that of the last package, also where a part of an earlier one was there |
| `release_pair` | 2 ports in a chain, 2 workers that may select the same one, one build, one bless, one mishap | the index is true of the packages of ports that were left alone, and closed under their dependencies |
| `monitor` | 2 entries, a directory of two names and inodes, a pipe of 2 messages, one `kq_fnm_del` that finds it full | nothing freed is used, one path has one object, a cancelled entry hears of one event at most, rescans tell what has changed |
| `monitor_live` | 1 entry, 2 directories at a time, rate limit of 1 and 2, one rename or remount; fair | a change is always brought out by a timer, the watcher catches up with a directory that is left alone and attends to the one at the path |

**Bounds.**  What passes between two supervisors is about one port that both want:
`slave_pair` has one port, and a supervisor with one worker on each of two
machines, since they meet only in the database.  Its third process id is for an
orphan beside two workers, and its two faults are one that leaves a lock or an
orphan behind and one during the recovery from it.  What a supervisor has to
keep apart among its own children needs two of them: `slave_faults` has two
process ids, which are reused as the system does, and two ports with one
dependency, which are what the view, the injection and the queue can tell
apart (one that is ready, one that waits, one that comes free while the other
is in some worker's hands).  It has three jobs for two ports, so that every
`sleep` has a period (with one job a lost wakeup refutes `AllTested`, see below),
and one fault: with two, TLC finds a child whose signal was merged with that of
a pid the handler does not know, which the `return` at magus.pl:92 leaves
unreaped for good.  `slave_term` has one worker and two faults: a signal, and a
second one, an operator or a lost connection while the first is handled; that
several workers do not matter for a sweep of the whole table is what
`QuitsClean` proves.  Deadlock is not checked for the slaves: with all ports
tested, or all supervisors ended, they really stop.  `chroot` has three deaths,
enough for one during the recovery of a recovery, and two tarballs, which is
what a stale checksum needs.  Two runs are what a move needs.  Two machines of
one job each with one fault (5.4 million states) satisfy the properties of
`runs` too; machines only meet in locks and runs, and the theorems about
MagusRuns hold for any number of them.

The trees of `release` (450 thousand states) each have a case of `sync` or of
the release: a second flavor that is asked for beside an interactive one, an
interactive port alone, a flavor that does not exist and none, which clash,
restricted distfiles and a restricted package, a missing port.  Two builds
are what a second upload over an indexed package needs, and two starts what a
bless after a dead bless needs.  What goes wrong between workers, their locks
and the index needs one port that is built, one that depends on it and two
workers: `release_pair` (810 thousand states).  `monitor` (1.2 million states)
has two entries, since sharing, freeing and cancelling are about pairs, and a
pipe of two messages, so that it is full; two names and inodes make every kind
of event, and the assumption `ChangesTold` compares Changes with its reference
on all pairs of listings of three names and inodes (`ScansTell` proves it of
all).  `monitor_live` (150 thousand states) has one entry and one name, but two
intervals, so that the limit grows, two directories, so that the path may have
another one, and with them mounts and renames.  Files of a monitored directory
come and go without a bound; that is finite.

**Fairness.**  `MagusSlave!Fairness`: every process that can run is scheduled,
pending SIGCHLDs are delivered, statements and transfers end, and builds end
(`Worker.pm` puts no limit on a build; a build that hangs is outside the
claims).  None is assumed of faults, `Start` excepted, which the loop of
`start-magus.sh` makes.  `Chroot!FairSpec`: the same for the steps of one
process; workers are started again and again (strong fairness of
`StartWorker`, since the supervisor may restart in between).
`MagusRuns!FairSpec`: `refresh` is called again and again (it is meant for
cron), slaves loop, and builds end.  `FileMonitor!FairSpec`: the thread runs
(weak fairness of `Thread`); kevent hands out what is pending in turn, so that
the pipe, the list of mounts and every kevent of an object is taken although
others come in between (strong fairness, since `Settled` and the program
counter of the thread disable them again and again); a timer that runs expires.
Nothing is assumed of the file system or of the application.  MagusRelease has
safety properties only.

## What is proved

For every value of the constants, checked by TLAPS:

* `MagusSlave_proofs!TypeCorrect`: `Spec => []TypeInv`, types and the facts
  that program counters imply about local variables.  The sets of faults,
  machines, supervisors, pids and ports are arbitrary.
* `MagusExclusion_proofs!LocksApart` and `Exclusion`: under `NoKillers` (no
  SIGTERM to supervisors or workers and no lock deleted by hand)
  `Spec => []IInv` and `Spec => []BuildExclusion`.  The two signals are
  excluded because a sweep, the supervisor's or that of a child which still has
  its parent's handler, deletes locks of workers that run.  `BuildExclusion` alone is
  not inductive: a corpse may be about to delete, by id, a lock that now
  belongs to somebody else.  `IInv` therefore says that lock ids are never
  used twice (`LocksKeyed`), that every live worker, every claim between
  insert and fork, and every corpse has a lock of its own id
  (`WorkersHoldLocks`, `ClaimsApart`, `CorpsesApart`), and that `%Children`
  tells the truth about the workers that still run.  The unique key on
  `locks.port` then makes ports differ.  Deaths of supervisors, restarts, lost
  replies and failing forks are all included.
* `MagusKids_proofs!WorkerIds` (`WorkerIdsApart`), for every set of faults and
  number of jobs: from `Numbered`, which says that `%WorkerIDs`, `%Children` and
  the workers agree (`EntriesTrue`, `NumbersApart`), and that a worker or a
  claim is of a machine that runs it (`WorkersAtHome`, `ClaimsAtHome`).
  `QuitsClean` (`QuitLeavesNoLock`), where
  a machine has one supervisor, for every number of jobs and all faults;
  another supervisor of the machine could insert a lock during the sweep.
  `LocksSwept` says which locks of the machine the sweep has still to come to.
  `LocksAreRemembered` (`LocksRemembered`) under `Gentle`: without SIGTERM or
  another end of a supervisor, restarts of a machine, failing forks and lost
  replies, each of which may leave a lock in the table that no supervisor knows
  of.  It says that main, `start_child` and `process_dead_children` drop a lock
  from memory on no path, exceptions included; it does not say that a lock it
  remembers is ever deleted: the entry of a child that was reaped before its
  registration stays (see below), and `AllTested` leaves out its port
  (`Forgotten`).  `HandInv`
  follows a lock from the insertion on, through a claim, `%Children` and
  `@DeadChildren`, and says that there is a free worker id for a claim.
* `MagusQueue_proofs`, all from `IInv` and so under `NoKillers`:
  `PackagesStored` (`PassedHasPackage`) with deaths of supervisors, restarts
  and lost replies; `PackInv` says of each worker, claim and corpse whether its
  port is built and what it still has to do.  `ChrootsApart` (`ChrootExclusion`)
  where a machine has one supervisor and no exception ends it: a new one
  counts worker ids from the beginning beside orphaned workers
  (`NotOrphaned`).  The others need `Steady`, that is also no reset by an
  operator and no lost reply: `ReadyIsPristine` (`PristineWhenReady`),
  `StatusesLocked` (`StatusUnderLock`) and `QueueImplemented`
  (`ImplementsBuildQueue`).  An operator's reset writes without a lock, and a
  reply that is lost while a lock is deleted lets the supervisor reset a port
  that another one has by then; with the
  fault "reply" TLC refutes `PristineWhenReady`.  `HeldInv` says that only the owner of a lock
  is about to write the port's rows, and what `logs` has at each of its places.
  The refinement is proved action by action: the initial states of the cluster
  are those of the queue, an insertion is its claim, statuses and packages its
  changes, a deleted lock its release, and every other step leaves it alone.
  `LogsExplained` (`LogExplained`)
  needs `OneSlave` as well, since a port is looked for and locked in two
  statements, and with two supervisors a port that has passed may be locked and
  tested again; `OnceInv` adds that a port in the hands of a claim or of a worker
  that has not begun to test is `Fresh`.
* `Chroot_proofs!Prepared`, `WholeReference`, `CleanChroot`: under `Careful`
  (no older tarball is put back, no supervisor ends alone while its workers go
  on, no tarball is replaced while processes run) `RefWhole` and `PreparedClean` hold for every number of workers, deaths
  and tarballs.  `RefInv` orders the checksums: a torn reference directory has
  an older checksum than any it will be compared with.  `DirInv` says that
  where `/usr/mports` is mounted the copy was whole, and dirty if a build has
  been there: the missing mount, not the mark `.clean`, is what protects
  against an interrupted `cpdup`.  The three assumptions are needed: TLC refutes
  the invariants with each of the faults.
* `MagusRuns_proofs!Runs`, `TreesMatch`, `ActiveRunsAreWhole`: for every number
  of machines, jobs, ports, runs and faults, a worker's tree is the tree of its
  run and its lock is in the table, and an active run has its tarball and
  ports.  `Settled` says that a machine moves only without workers and claims
  only with the tree of its run; `Buried`, that zombies are still children and
  corpses still have their lock; `Made`, what the master has made so far.  The
  lemmas `SlaveInv` and `MasterInv` reduce each action to the one machine, or
  to the master, that it changes.
* `MagusRelease_proofs`, for every set of names, flavors, files, trees, tests
  and workers, any number of builds, mishaps and starts of `magus-bless`, and
  wherever programs die: `TypeCorrect`; `OnlyWholeIsBlessed`
  (`BlessedIsWhole`); `IndexIsTrue` (`HashesRight`); `RunsAreLinked`
  (`Linked`); `NothingKeptIsGiven` (`KeptBack`); `IndexIsClosed`
  (`IndexClosed`).  `Ordered` says which program has begun when and what is
  still as it was.  `RowsRight` adds, per row, what lock, worker, status and
  package say of each other (`Locked`): a row that is not torn is in the hands
  of the worker whose lock is in the table (`WorkRight`), and without a lock a
  built port has a whole package (`Stored`); and what has been hashed
  (`Hashed`).  Every mishap is included: an upload that fails is followed by
  `StoreInternal` or `GiveBack`, which change the status before `Unlock`, and
  rows for which a mishap breaks that order are `torn`.  `Linked` then needs `Tied`,
  through the loop of `sync`; `IndexClosed` needs that a port is built after its
  dependencies, which may have been `Lost` since, by an upload that failed, a
  reset by anybody or a lock that was taken away (`DependenciesBuilt`), that a
  package is still to be come to or in the index (`Collected`), and that the
  rows of an indexed package are there (`Edges`).
  `TestsAreRight` says for every sequence of phases, however long, that
  `Results` is what its reference `RightResults` demands, and with it the
  summaries of tests are known to the other theorems.  `Results` is a fold of the
  community modules, a function on sets of positions that refers to itself.  The
  induction theorems of the library are no use here; instead a least number of
  phases for which there is no such function, or for which `RightUpTo` fails, is
  shown to be impossible (`LeastNumber`, `FoldExists`, `ResultsRound`).
* `FileMonitor_proofs`, for every number of entries, names, inodes,
  directories and messages, every rate limit and every set of faults:
  `TypeCorrect`; `CancelledHearsOnce` (`LateOnce`), from `Heard`: an entry that
  the thread is about to call has not been called late; `WhatIsHeldBackIsTimed`
  (`HeldBackIsTimed`), from `AllTimed`, which adds that at the longest interval
  the timer is periodic; `NothingFreedIsUsed` (`NothingDangles`), and, where the
  pipe is never full, `EntriesShareOneObject` (`OneObject`).  The last two come
  from `Kept`, which holds until a rename or a full pipe: an entry is
  initialised before it is freed and both messages are there once (`Queued`,
  `Addressed`), it has its own object until then and the cached one afterwards
  (`Attached`), the cache has one object, and some entry has it (`Cached`),
  under the path it was put in with (`Here`), and no message is taken while
  entries are told something (`Hearing`).  The second theorem needs its
  assumption because what a full pipe has freed may be in the cache; TLC shows
  `OneObject` with it for the small instance.  `NothingIsMissed` (`Known`), where
  the pipe is never full: with a full pipe an object may be freed while it is in
  the list of the mount handler, which then opens the new object of that name
  although no message has come for it, and TLC finds `Known` violated.  Renames,
  removals, mounts and unmounts are all included, until a mount comes over
  another one that the thread has not looked at.  The inductive invariant `Knows`
  says that what is open, or about to be opened after a mount, is in the cache
  (`Held`), and for every object with no note, timer or mount to wait for that
  its directory exists (`Present`), has the files the object knows (`Current`)
  and is at the object's path (`Placed`).  TLC has checked `Knows` as an
  invariant with two faults and one entry, and one fault and two entries.
  `ScansTell` (`ScanTells`) is about every pair of listings of any size and
  every order of `readdir`; it rests on `NewNamesAreTold`, on `OneChangeIsTold`
  (the names a client drops and those it adds never meet, so that the order
  of the events does not matter) and on `ReplayNames`, which takes `Replay` apart
  as `Results` above.

Only model-checked: liveness (`AllTested`, `Recovers`, `GivesWay`, `CatchesUp`,
`Attended`), which with fairness and ENABLED is outside what the prover does, and
the properties that the code does not have (the three violation runs).  Every
invariant and action property of the other runs is the subject of a theorem,
under the hypotheses given above.  Where a theorem has a hypothesis on faults or
supervisors, the run that checks the property satisfies it (`OneObject` holds in
`monitor` without it); the text says what goes wrong beyond.  `IInv` of the slaves is checked by
`slave_pair`; the other strengthenings of MagusKids_proofs and
MagusQueue_proofs are stated beside their proofs.  No module declares a
RECURSIVE operator; `all_depends` is a closure written with quantifiers, and what
goes through a sequence is a fold.

## Where the code disagrees with what it says

The violation runs each have an entry under "findings" in `PROJECT.json`:

1. `slave_depends` — `schema.sql:306`: locks of dependencies do not hold a
   port back, so a worker looks for a package that is still being uploaded and
   marks the port `internal` (`Worker.pm:66`, `Port.pm:81` say otherwise).
2. `runs_complete` — `Run.pm:70`: locks are counted before a ready port is
   looked for; a port claimed in between is seen by neither.
3. `runs_follow` — `magus.pl:290`: a SIGCHLD that comes while its handler is
   the default is discarded; the last worker then stays in `%Children`, and
   the machine does nothing any more ("Children active, not moving to new run
   yet").

Seen while modelling, without a run of their own.  In the slaves:

* A child that ends before `start_child` has registered it ("XXX Block signals",
  `magus.pl:207`) is dropped by the handler and then entered in `%Children` for
  good: nothing deletes its lock while the supervisor runs, although
  `Design.txt:31-33` has it removed, and a later SIGTERM never gets out of the
  loop at `magus.pl:361`.  No property says that every lock is given back.
* The handler returns at the first pid that is not in `%Children`
  (`magus.pl:92`).  Zombies whose signals were merged with that one's wait for
  the next signal, which may never come.
* `kill_children` neither signals nor waits for a child that is forked and not
  yet counted (`magus.pl:348`), and waits for one child only (`magus.pl:361`):
  locks are deleted while workers run, although "make sure that we wait until
  all the kids are dead" (`magus.pl:359`).  One SIGTERM is enough for the first,
  two workers for the second; what holds is `QuitLeavesNoLock`.
* A port is selected and locked in two statements (`Lock.pm:54`, `Lock.pm:72`),
  so that with two supervisors it may be locked after it has been tested and
  unlocked in between, and is tested again; `Design.txt:19-25` locks both
  tables.  What holds is `BuildExclusion`.
* A DELETE of a lock whose reply is lost is repeated together with the reset
  before it (`magus.pl:264-271`), while the port may belong to another machine:
  a ready port may then have a log, against `Port.pm:216`.  It takes two
  supervisors and the fault "reply".
* A SIGCHLD between the test of `$Children` and `sleep` wakes nobody
  (`magus.pl:189`): with one job `AllTested` fails.
* A directory is marked dirty only after packages and distfiles have been
  injected into it (`Chroot.pm:117`): what a worker that died has injected is
  in a directory handed out as clean.
* An operator's reset beside a running test breaks `PristineWhenReady`
  (`Port.pm:223-230`), and an operator who deletes the lock of a running test
  lets a second one begin (the fault "unlock").
* A worker that gets SIGTERM while it still has its parent's handlers sweeps
  the locks of its siblings and exits with 0 (`magus.pl:99`, `Worker.pm:9`).
* A fork that fails (`magus.pl:228`) throws, with the lock in the hands of
  nobody: the port stays locked.
* `update_cluster.pl` that dies between `complete` (line 87) and the activation
  of the successor leaves no active run, and `refresh` never acts again.
* `exec` at `magus.pl:322` forgets `@DeadChildren` and so their locks.
* The result of `tar` is not looked at (`magus.pl:317`); a partial tree with
  `.magus_run_id` passes for the tree of the run.
* `Chroot.pm:139` reads a checksum from a cache nobody removes; an interrupted
  `rmtree` together with an older tarball, and a supervisor started beside
  orphaned workers, defeat the marks (faults "revert" and "orphan"); a tarball
  replaced while workers run lets one of them remove the reference directory
  that another copies or extracts ("replace"); mounts
  other than `/usr/mports` may be missing from a directory taken as it is.
* `start-magus.sh:5` loops around a program that puts itself into the
  background.
* `Port.pm:39` selects a column flavor that view ready_ports lacks.

In the run index and the release:

* Two dependencies of a port on flavors that do not exist come to the same
  default flavor; the primary key of depends refuses the second row, and the
  exception ends `sync` and the new run (`ClashTree`, `LinkClashing`).
* A port that failed in the index for a missing dependency and is reset by an
  operator is tested without that dependency; `Linked` excludes such rows.
* `magus-bless` removes index.db and fills it row by row: when it dies, half an
  index stands beside a run that an earlier bless may have marked.  It marks an
  unfinished run complete.  An empty result ends with no open database
  (line 163 on; table mirrors is taken to be non-empty).
* `load_depends` looks at the status of a port again: a port that was reset or
  skipped is indexed without its dependencies.
* A restricted package is unlinked while the index refers to it from the
  packages that need it (`IndexClosed` says so).  Nobody looks whether unlink
  worked (line 117), and a restricted port that became `internal` in its upload
  is not in the query (line 88): its file stays in the directory that is
  published.  No property claims that it goes.
* `magus-bless` asks neither for locks nor for the state of the run (lines
  87-92): it hashes packages that are being copied, and may mark a run that
  `update_cluster.pl` then sets to active (`Activate`).
* A machine that dies in the middle of scp leaves a port that has passed, its
  lock and a part of its package; `delete_lock.cgi` then makes it a port like
  any other, and it is published (`torn`).
* The sweep of `kill_children`, or a worker that loses the database after its
  upload, makes a port untested whose dependents are claimed already; they are
  published, and the retest may fail (`IndexClosed` names the case).
* `distcheck` joins files with restricted files: of a port with two restricted
  files every file differs from one of them, and all are given away
  (`KeptBack` is stated for ports with at most one).

In the file monitor:

* When the pipe is full, `kq_fnm_del` frees the entry in the thread of the
  caller, although messages for it may be in the pipe and the thread may be
  calling it back (line 1269).
* A rename rewrites the path of an object, which is its key in the hash table:
  it is not found any more, nor removed when it is freed (line 1086).
* When a renamed directory is not found, line 1059 has written '/' over the
  first letter of its name; `gkqueuefilemonitor.c:107` drops an event whose name
  has a '/', so that the removal is not told.
* The rescan of a timer may come before the event of a removal: it closes the
  directory, the event is gone, and the path is not opened again.
* A mount over a mount of which the first has not been looked at makes no
  difference in the list of mounts.
* `is_rate_lim_checked` prevents the rescan which the comment at line 1410
  promises for a file whose attributes have not changed.
* The removal of one of two hard links is not told (`file_info_find_ni` finds
  the other).
* `kq_fnmo_reopen_fd` opens with `O_DIRECTORY` (line 793): a file is never
  watched itself.

## Not modelled, and why

* Events, categories, licenses, sites, users: written, never read by a
  decision.  The log, mail and options of `magus.pl`.
* `dead_run.pl`, `nuke_internals.pl`, `delete_run.pl`, `delete_result.pl`:
  operators' statements on the same tables; a later extension of the
  environment.
* Two `magus-bless` at once on one index.db: it is started by hand for one run.
  One after another, after any death, is modelled.
* Reports, pages of the web front end, `make_chroot_tarball.pl`: output, or
  something done once by hand.  `ftp/magus.c` makes one link per package from
  the MySQL database of an earlier form of the cluster, without a decision.
  The tables mirrors and moved, which `magus-bless` copies.
* In the file monitor: types, sizes and times of files, which of them get a
  kevent of their own (`is_local`, `max_dir_files`), a `readdir` that fails,
  and `kq_fnm_free`, which GLib never calls.
* The patterns of single outcome rules, which are data.
* `Mk/`: make(1) code that builds one port in one process.  The cluster uses
  it through make targets, which the test child runs with any outcome.
* The other 6,200 C-family files of the tree, a quarter of a million lines:
  patches to third-party programs, and files that such programs are built
  from.  They are not programs of this repository and have little to do with
  each other; the file monitor is the one among them that is a concurrent
  component of its own.  What the repository programs itself, and what is
  modelled here, is mostly Perl, SQL and shell.

## Plan

The order is by importance; the first seven entries are built.

1. **MagusDB, MagusWorker, MagusSlave, BuildQueue**: claim, test, release;
   faults; refinement; theorems on all of it, the refinement among them.
2. **Chroot** with `Prepared`, `WholeReference`, `CleanChroot`.
3. **MagusRuns** with `Runs`, `TreesMatch`, `ActiveRunsAreWhole`.
4. **PortTest** with its reference and `TestsAreRight`.
5. **RunIndex, MagusRelease**: `sync` row by row, the release with the failures
   of workers; seven theorems.
6. **DirSnapshot, FileMonitor**: the file monitor; eight theorems.
7. **Proofs** of every safety property that a run checks.
8. **Operators**: `nuke_internals`, `dead_run`, `delete_result`, `delete_run`
   beside running slaves, and table events.
9. **Composition**: MagusSlave's claim and test as an implementation of
   MagusRuns' one-step `Claim` and `End`, and of the slaves of MagusRelease,
   under refinement mappings, model-checked first and proved afterwards.
