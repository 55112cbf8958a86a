----------------------------- MODULE MagusRelease -----------------------------
(***************************************************************************)
(* A run from the ports tree to the index the mirrors publish: its rows    *)
(* (RunIndex), its tests (PortTest), and the two programs that release it, *)
(* magus-bless.cxx, which makes index.db and marks the run, and            *)
(* distcheck.cxx, which copies the distfiles that may be given away.       *)
(*                                                                         *)
(* The slaves are those of MagusSlave, seen from the tables and the        *)
(* package files: a worker selects a port, locks it, stores its result,    *)
(* copies its package and loses its lock, and may fail, lose the database, *)
(* be killed, be swept, or lose its lock on the way.  Nothing keeps them,  *)
(* or an operator, apart from a bless.                                     *)
(***************************************************************************)
EXTENDS RunIndex, PortTest

CONSTANTS
    Worker,         \* the workers of all machines
    Test,           \* what the phases of a test may do: a set of sequences
    MaxBuilds,      \* the packages a port uploads in a behaviour
    MaxBlesses,     \* the starts of magus-bless
    MaxMishaps      \* what goes wrong with workers and locks, and the resets by operators

ASSUME ReleaseAssumption ==
    /\ Test \subseteq Seq(Phase)
    /\ MaxBuilds \in Nat \ {0} /\ MaxBlesses \in Nat /\ MaxMishaps \in Nat

VARIABLES
    run,        \* runs.status and runs.blessed
    job,        \* [Worker -> how far it is with the port it has selected]
    lock,       \* [Row -> the worker its lock in table locks was made for]
    file,       \* [Row -> its package file: the build it is of, 0 for no file]
    builds,     \* [Row -> the packages it has uploaded]
    bless,      \* magus-bless
    index,      \* index.db
    dist,       \* the distfiles that distcheck has copied
    resets,     \* the rows that have been made untested again
    torn,       \* the rows a worker had without its lock, left as built, or took as tested
    touched,    \* the rows that had a worker or were reset since the first bless began
    blesses,    \* how often magus-bless has been started
    mishaps     \* how often something has gone wrong

fileVars == <<file, builds>>
jobVars == <<job, lock, torn>>
blessVars == <<bless, index, blesses>>
vars == <<indexVars, run, jobVars, fileVars, blessVars, dist, resets, touched, mishaps>>

NoFile == [build |-> 0, whole |-> TRUE]

\* index.db: the build a package's hash is of, and the dependencies of packages.
NoIndex == [state |-> "none", hash |-> [r \in Row |-> NoFile], depends |-> {}]

IdleBless == [pc |-> "idle", rows |-> {}, row |-> {}]

IdleJob == [pc |-> "idle", row |-> {}]

Init ==
    /\ IndexInit
    /\ run = [status |-> "inactive", blessed |-> FALSE]
    /\ job = [w \in Worker |-> IdleJob]
    /\ lock = [r \in Row |-> {}]
    /\ file = [r \in Row |-> NoFile]
    /\ builds = [r \in Row |-> 0]
    /\ bless = IdleBless
    /\ index = NoIndex
    /\ dist = {}
    /\ resets = {} /\ torn = {} /\ touched = {}
    /\ blesses = 0 /\ mishaps = 0

Built(r) == status[r] \in {"pass", "warn"}

Restricted(r) == r \in Rows /\ DumpOf(r).restricted

-----------------------------------------------------------------------------
(* The master.                                                             *)

MasterUnchanged == UNCHANGED <<jobVars, fileVars, blessVars, dist, resets, touched, mishaps>>

MakeRun == Sync /\ UNCHANGED run /\ MasterUnchanged

\* update_cluster.pl, after sync, whatever a bless has made of the run.
Activate ==
    /\ sync.pc = "done"
    /\ sync' = [sync EXCEPT !.pc = "over"]
    /\ run' = [run EXCEPT !.status = "active"]
    /\ UNCHANGED <<tree, status, depends>> /\ MasterUnchanged

\* find_empty_runs of a later call, which may see a run as empty that is not.
Complete ==
    /\ run.status = "active"
    /\ run' = [run EXCEPT !.status = "complete"]
    /\ UNCHANGED indexVars /\ MasterUnchanged

-----------------------------------------------------------------------------
(* The workers, as far as others see what they do.                         *)

Touch(rows) == touched' = IF blesses = 0 THEN touched ELSE touched \cup rows

SlaveUnchanged == UNCHANGED <<tree, depends, sync, run, blessVars, dist>>

At(w, r, pcs) == job[w].row = {r} /\ job[w].pc \in pcs

Holds(w, r) == job[w].row = {r} /\ w \in lock[r]

Goes(w, r, pc) ==
    /\ job' = [job EXCEPT ![w] = IF pc = "idle" THEN IdleJob ELSE [pc |-> pc, row |-> {r}]]
    /\ Touch({r})
    /\ SlaveUnchanged

Step(w, r, from, to) == At(w, r, from) /\ Goes(w, r, to) /\ UNCHANGED <<torn, resets, mishaps>>

GoesWrong == mishaps < MaxMishaps /\ mishaps' = mishaps + 1

MadeUntested(r) ==
    /\ status' = [status EXCEPT ![r] = "untested"]
    /\ resets' = resets \cup {r}

\* Mutant: the dependencies are not looked at.
MutReady(r) == status[r] = "untested" /\ lock[r] = {}

\* ready_ports.
Ready(r) ==
    /\ status[r] = "untested" /\ lock[r] = {}
    /\ \A l \in depends : l.port = r => Built(l.dependency)

\* _get_lock: the port is selected, and the lock inserted later.
Select(w, r) ==
    /\ run.status = "active" /\ Ready(r)
    /\ job[w] = IdleJob
    /\ Goes(w, r, "selected")
    /\ UNCHANGED <<status, lock, torn, fileVars, resets, mishaps>>

Claim(w, r) ==
    /\ lock[r] = {}
    /\ At(w, r, {"selected"}) /\ Goes(w, r, "claimed")
    /\ lock' = [lock EXCEPT ![r] = {w}]
    /\ torn' = IF status[r] = "untested" THEN torn ELSE torn \cup {r}
    /\ UNCHANGED <<status, fileVars, resets, mishaps>>

\* The unique key of table locks.
Refused(w, r) ==
    /\ lock[r] # {}
    /\ Step(w, r, {"selected"}, "idle")
    /\ UNCHANGED <<status, lock, fileVars>>

\* Mutant: an exception is stored as a status that table ports does not know.
MutReport(w, r) ==
    /\ \E result \in {Results(phases).summary : phases \in Test} \cup {"skip", "exception"} :
          status' = [status EXCEPT ![r] = result]
    /\ Step(w, r, {"claimed"}, "tested")
    /\ UNCHANGED <<lock, fileVars>>

\* The child of the worker: insert_results, of a test or of a port that is ignored; an
\* exception; or nothing, when it has lost the database or is interrupted.
Report(w, r) ==
    /\ \E result \in {Results(phases).summary : phases \in Test} \cup {"skip", "internal", status[r]} :
          status' = [status EXCEPT ![r] = result]
    /\ Step(w, r, {"claimed"}, "tested")
    /\ UNCHANGED <<lock, fileVars>>

\* prep_chroot, inject_depends, a child that ends badly, an scp that writes nothing.
Throw(w, r) ==
    /\ At(w, r, {"claimed", "tested"}) /\ Goes(w, r, "thrown")
    /\ GoesWrong
    /\ UNCHANGED <<status, lock, torn, fileVars, resets>>

\* upload_pkgfile: a copy that takes its time, over the file that is there.
StartUpload(w, r) ==
    /\ Built(r) /\ builds[r] < MaxBuilds
    /\ Step(w, r, {"tested"}, "copying")
    /\ builds' = [builds EXCEPT ![r] = @ + 1]
    /\ file' = [file EXCEPT ![r] = [build |-> builds[r] + 1, whole |-> FALSE]]
    /\ UNCHANGED <<status, lock>>

NoUpload(w, r) ==
    /\ ~ Built(r)
    /\ Step(w, r, {"tested"}, "over")
    /\ UNCHANGED <<status, lock, fileVars>>

\* Two copies at once may leave a mixture.
EndUpload(w, r) ==
    /\ Step(w, r, {"copying"}, "over")
    /\ \E whole \in IF r \in torn THEN BOOLEAN ELSE {TRUE} :
          file' = [file EXCEPT ![r] = IF @ = NoFile THEN @ ELSE [@ EXCEPT !.whole = whole]]
    /\ UNCHANGED <<status, lock, builds>>

\* Mutant: upload_pkgfile does not look at what scp returns.
MutUploadFails(w, r) ==
    /\ At(w, r, {"copying"}) /\ Goes(w, r, "over")
    /\ GoesWrong
    /\ UNCHANGED <<status, lock, torn, fileVars, resets>>

\* scp fails, and part of the package is there.
UploadFails(w, r) ==
    /\ At(w, r, {"copying"}) /\ Goes(w, r, "thrown")
    /\ GoesWrong
    /\ UNCHANGED <<status, lock, torn, fileVars, resets>>

\* set_result_internal.
StoreInternal(w, r) ==
    /\ Step(w, r, {"thrown"}, "over")
    /\ status' = [status EXCEPT ![r] = "internal"]
    /\ UNCHANGED <<lock, fileVars>>

\* The worker exits with 6.
LosesDB(w, r) ==
    /\ At(w, r, {"claimed", "tested", "thrown", "over"}) /\ Goes(w, r, "lost")
    /\ GoesWrong
    /\ UNCHANGED <<status, lock, torn, fileVars, resets>>

\* process_dead_children, for an exit code of 6.
GiveBack(w, r) ==
    /\ At(w, r, {"lost"}) /\ Goes(w, r, "gone")
    /\ MadeUntested(r)
    /\ UNCHANGED <<lock, torn, fileVars, mishaps>>

\* Mutant: the lock is given up while the package is still copied.
MutUnlock(w, r) ==
    /\ Step(w, r, {"over", "gone"}, "idle") \/ Step(w, r, {"copying"}, "copying")
    /\ lock' = [lock EXCEPT ![r] = @ \ {w}]
    /\ UNCHANGED <<status, fileVars>>

\* process_dead_children: the lock of the worker, if it is there still.
Unlock(w, r) ==
    /\ Step(w, r, {"over", "gone"}, "idle")
    /\ lock' = [lock EXCEPT ![r] = @ \ {w}]
    /\ UNCHANGED <<status, fileVars>>

-----------------------------------------------------------------------------
(* What happens to workers and locks.                                      *)

\* The worker and its copy are killed, or their machine dies.
Cut(w, r) ==
    /\ At(w, r, {"claimed", "tested", "copying", "thrown", "over"})
    /\ Goes(w, r, IF w \in lock[r] THEN "cut" ELSE "idle")
    /\ GoesWrong
    /\ UNCHANGED <<status, lock, torn, fileVars, resets>>

\* The sweep of kill_children resets the port; the worker may be running still.
Sweep(w, r) ==
    /\ Holds(w, r) /\ status[r] # "untested"
    /\ MadeUntested(r) /\ Touch({r})
    /\ GoesWrong
    /\ UNCHANGED <<job, lock, torn, fileVars>> /\ SlaveUnchanged

\* The sweep deletes the lock, or delete_lock.cgi, or process_dead_children for a worker
\* that was terminated.  A copy may go on without it.
DropLock(w, r) ==
    /\ Holds(w, r)
    /\ lock' = [lock EXCEPT ![r] = @ \ {w}]
    /\ torn' = IF At(w, r, {"cut"}) /\ ~ Built(r) THEN torn ELSE torn \cup {r}
    /\ Goes(w, r, IF At(w, r, {"cut"}) THEN "idle" ELSE job[w].pc)
    /\ IF At(w, r, {"cut"}) THEN UNCHANGED mishaps ELSE GoesWrong
    /\ UNCHANGED <<status, fileVars, resets>>

\* reset_port.cgi, from the page of a tested port, locked or not, as long as the page
\* is kept; and a reset that a supervisor repeats because it does not know of the first.
Reset(r) ==
    /\ sync.pc = "over" /\ status[r] \notin {"absent", "untested"}
    /\ MadeUntested(r) /\ Touch({r})
    /\ GoesWrong
    /\ UNCHANGED <<jobVars, fileVars>> /\ SlaveUnchanged

-----------------------------------------------------------------------------
(* magus-bless.                                                            *)

BlessUnchanged == UNCHANGED <<indexVars, jobVars, builds, dist, resets, touched, blesses, mishaps>>

Indexed(r) == status[r] \notin {"absent", "internal", "untested", "fail"}

\* The query for the ports, of whatever run it is given.
BlessStart ==
    /\ bless.pc = "idle" /\ blesses < MaxBlesses
    /\ blesses' = blesses + 1
    /\ bless' = [pc |-> "open", rows |-> {r \in Row : Indexed(r)}, row |-> {}]
    /\ touched' = touched \cup UNION {job[w].row : w \in Worker}
    /\ UNCHANGED <<indexVars, run, jobVars, fileVars, index, dist, resets, mishaps>>

\* open_indexdb, create_indexdb.
BlessOpen ==
    /\ bless.pc = "open" /\ bless.rows # {}
    /\ bless' = [bless EXCEPT !.pc = "rows"]
    /\ index' = [NoIndex EXCEPT !.state = "partial"]
    /\ UNCHANGED <<run, file>> /\ BlessUnchanged

\* "Empty resultset": there is no database to put the mirrors into (table mirrors is
\* never empty).
BlessEmpty ==
    /\ bless.pc = "open" /\ bless.rows = {}
    /\ bless' = IdleBless
    /\ UNCHANGED <<run, file, index>> /\ BlessUnchanged

\* "Could not locate file."
BlessMissing(r) ==
    /\ bless.pc = "rows" /\ r \in bless.rows
    /\ file[r].build = 0
    /\ bless' = [bless EXCEPT !.rows = @ \ {r}]
    /\ UNCHANGED <<run, file, index>> /\ BlessUnchanged

\* "File is restricted and will be removed", if unlink succeeds.
BlessRestricted(r) ==
    /\ bless.pc = "rows" /\ r \in bless.rows
    /\ file[r].build # 0 /\ Restricted(r)
    /\ file' \in {file, [file EXCEPT ![r] = NoFile]}
    /\ bless' = [bless EXCEPT !.rows = @ \ {r}]
    /\ UNCHANGED <<run, index>> /\ BlessUnchanged

\* The package and its alias.
BlessPackage(r) ==
    /\ bless.pc = "rows" /\ r \in bless.rows
    /\ file[r].build # 0 /\ ~ Restricted(r)
    /\ index' = [index EXCEPT !.hash[r] = file[r]]
    /\ bless' = [bless EXCEPT !.pc = "depends", !.rows = @ \ {r}, !.row = {r}]
    /\ UNCHANGED <<run, file>> /\ BlessUnchanged

\* load_depends, on a connection of its own.
BlessDepends ==
    /\ bless.pc = "depends"
    /\ index' = [index EXCEPT !.depends = @ \cup
          {<<r, l.dependency>> : r \in bless.row,
                l \in {l \in depends : /\ l.port \in bless.row /\ l.type = "run"
                                       /\ Built(l.port) /\ Built(l.dependency)}}]
    /\ bless' = [bless EXCEPT !.pc = "rows", !.row = {}]
    /\ UNCHANGED <<run, file>> /\ BlessUnchanged

\* The mirrors, the moved ports and old aliases; close_indexdb.
BlessClose ==
    /\ bless.pc = "rows" /\ bless.rows = {}
    /\ index' = [index EXCEPT !.state = "done"]
    /\ bless' = [bless EXCEPT !.pc = "mark"]
    /\ UNCHANGED <<run, file>> /\ BlessUnchanged

\* Mutant: the run is marked first.
MutBlessMark ==
    /\ bless.pc \in {"rows", "mark"}
    /\ run' = [status |-> "complete", blessed |-> TRUE]
    /\ bless' = IF bless.pc = "mark" THEN IdleBless ELSE bless
    /\ UNCHANGED <<file, index>> /\ BlessUnchanged

\* "Mark run blessed."
BlessMark ==
    /\ bless.pc = "mark"
    /\ run' = [status |-> "complete", blessed |-> TRUE]
    /\ bless' = IdleBless
    /\ UNCHANGED <<file, index>> /\ BlessUnchanged

\* It is killed, or ends with errx or an exception.
BlessDie ==
    /\ bless.pc # "idle"
    /\ bless' = IdleBless
    /\ UNCHANGED <<run, file, index>> /\ BlessUnchanged

Bless ==
    \/ BlessStart \/ BlessOpen \/ BlessEmpty \/ BlessDepends \/ BlessClose \/ BlessMark \/ BlessDie
    \/ \E r \in Row : BlessMissing(r) \/ BlessRestricted(r) \/ BlessPackage(r)

-----------------------------------------------------------------------------
(* distcheck.                                                              *)

\* Mutant: what must be kept back is not asked.
MutGivenAway(r) == DumpOf(r).distfiles

\* The first query joins every distfile of a port with every restricted one, and takes
\* the pairs that differ.
GivenAway(r) ==
    {f \in DumpOf(r).distfiles : DumpOf(r).kept = {} \/ \E g \in DumpOf(r).kept : f # g}

\* Here Restricted stands for the column and for the licenses that restrict a port.
\* Files that are missing or cannot be copied are counted and passed over.
DistCheck ==
    /\ \E copied \in SUBSET UNION {GivenAway(r) : r \in {r \in Rows : Indexed(r) /\ ~ Restricted(r)}} :
          dist' = dist \cup copied
    /\ UNCHANGED <<indexVars, run, jobVars, fileVars, blessVars, resets, touched, mishaps>>

-----------------------------------------------------------------------------

Slave(w, r) ==
    \/ Select(w, r) \/ Claim(w, r) \/ Refused(w, r)
    \/ Report(w, r) \/ Throw(w, r)
    \/ StartUpload(w, r) \/ NoUpload(w, r) \/ EndUpload(w, r) \/ UploadFails(w, r)
    \/ StoreInternal(w, r) \/ LosesDB(w, r) \/ GiveBack(w, r) \/ Unlock(w, r)
    \/ Cut(w, r) \/ Sweep(w, r) \/ DropLock(w, r)

Next ==
    \/ MakeRun \/ Activate \/ Complete
    \/ \E r \in Row : Reset(r) \/ \E w \in Worker : Slave(w, r)
    \/ Bless
    \/ DistCheck

Spec == Init /\ [][Next]_vars

-----------------------------------------------------------------------------
(* Properties.                                                             *)

File0 == [build : 0 .. MaxBuilds, whole : BOOLEAN]

PC == {"idle", "selected", "claimed", "tested", "copying", "thrown", "over", "lost", "gone", "cut"}

TypeOK ==
    /\ IndexTypeOK
    /\ run \in [status : {"inactive", "active", "complete"}, blessed : BOOLEAN]
    /\ job \in [Worker -> [pc : PC, row : SUBSET Row]]
    /\ lock \in [Row -> SUBSET Worker]
    /\ file \in [Row -> File0]
    /\ builds \in [Row -> 0 .. MaxBuilds]
    /\ bless \in [pc : {"idle", "open", "rows", "depends", "mark"}, rows : SUBSET Row, row : SUBSET Row]
    /\ index \in [state : {"none", "partial", "done"}, hash : [Row -> File0],
                  depends : SUBSET (Row \X Row)]
    /\ dist \subseteq File
    /\ resets \subseteq Row /\ torn \subseteq Row /\ touched \subseteq Row
    /\ blesses \in Nat /\ mishaps \in Nat

InIndex(r) == index.hash[r].build # 0

\* In a run that slaves see, no port is tested without a dependency it declares: either
\* there is a row for every one, of the flavor asked for if that exists, or the port has
\* failed in the index, and stays so until somebody resets it.
Linked ==
    run.status = "active" =>
        \A r \in Rows \ resets :
            \/ status[r] = "fail"
            \/ \A item \in DumpOf(r).items :
                  \E l \in depends :
                      /\ l.port = r /\ l.type = item.type /\ l.dependency.name = item.name
                      /\ [name |-> item.name, flavor |-> item.flavor] \in Rows =>
                            l.dependency.flavor = item.flavor

\* A run is marked only with an index.db that is whole, however often magus-bless has
\* died before.
BlessedIsWhole == [][run'.blessed /\ ~ run.blessed => index.state = "done"]_vars

\* What the index says of a built package is true of the file beside it, although uploads
\* fail, workers die in them, and ports are tested again over what is left: if the port
\* was neither locked nor reset since the bless began, and no lock was taken from a worker
\* of it or from a package half copied.
HashesRight ==
    \A r \in Row \ (touched \cup torn) :
        InIndex(r) /\ Built(r) => index.hash[r] = file[r] /\ file[r].whole

\* Whoever installs a package by the index finds what it needs to run.  A dependency may
\* be lost only where the port itself was left in the index without one (a reset of a
\* port that had failed there), or where the dependency was lost after the port was
\* tested with it: it was reset, torn, or became internal when its upload failed.
IndexClosed ==
    index.state = "done" =>
        \A r \in Row \ (touched \cup resets) : InIndex(r) /\ Built(r) =>
            \A item \in {i \in DumpOf(r).items : i.type = "run"} :
                \E d \in Row :
                    /\ d.name = item.name
                    /\ \/ <<r, d>> \in index.depends /\ (InIndex(d) \/ Restricted(d))
                       \/ d \in touched \cup resets \cup torn
                       \/ status[d] = "internal"

\* No distfile is given away that each of its ports must keep back, if no port has more
\* than one of them.
KeptBack ==
    (\A r \in Rows : Cardinality(DumpOf(r).kept) <= 1) =>
        \A f \in dist : \E r \in Rows : f \in DumpOf(r).distfiles \ DumpOf(r).kept /\ ~ Restricted(r)

=============================================================================
