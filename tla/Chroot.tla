-------------------------------- MODULE Chroot --------------------------------
(***************************************************************************)
(* The chroot directories of one slave machine (Tools/lib/Magus/Chroot.pm) *)
(* in the hands of the supervisor, which prepares the one of worker id 1,  *)
(* and of the workers, each in the directory of its worker id, which no    *)
(* other worker has at the same time (MagusSlave, ChrootExclusion).  A     *)
(* process may die between any two steps, of an exception too, and the     *)
(* machine may restart; what counts is what the directory then looks like  *)
(* to the next process.  A worker and its test child are one process here. *)
(*                                                                         *)
(* MaxCrashes bounds the deaths and restarts in a behaviour, MaxTarballs   *)
(* the versions of the tarball.  Faults says what else may go wrong:       *)
(*   "forget"  the operator leaves <tarball>.md5 beside a new tarball,     *)
(*   "revert"  the operator goes back to an older tarball,                 *)
(*   "orphan"  the supervisor ends while workers go on,                    *)
(*   "replace" the operator replaces the tarball while processes run.      *)
(* With "replace" several processes may be in _create_reference_dir at     *)
(* once, one removing what another extracts or copies.  RefWhole then      *)
(* fails, and nothing is said of what such a directory becomes.            *)
(* Mark .dead is left out: nothing in the repository calls mark_dead.      *)
(***************************************************************************)
EXTENDS Naturals

CONSTANTS
    Wid,            \* the worker ids
    First,          \* the one whose directory the supervisor prepares
    Boss,           \* the supervisor
    Loopback,       \* the directories of the machine mounted in every chroot
    Mports,         \* the one mounted at /usr/mports
    Faults, MaxCrashes, MaxTarballs, None

ASSUME ChrootAssumption ==
    /\ First \in Wid /\ Boss \notin Wid /\ Mports \in Loopback
    /\ MaxCrashes \in Nat /\ MaxTarballs \in Nat \ {0} /\ None \notin Nat

VARIABLES
    tarball,    \* the version of the chroot tarball
    md5,        \* the version whose checksum is in <tarball>.md5, or None
    ref,        \* the reference directory
    dir,        \* [Wid -> the chroot directory]
    pc,         \* [Process -> where it is]
    sum,        \* [Process -> its local variable $tarballsum]
    budget      \* the deaths and restarts that may still happen

vars == <<tarball, md5, ref, dir, pc, sum, budget>>

Process == Wid \cup {Boss}

DirOf(p) == IF p = Boss THEN First ELSE p

Version == 1 .. MaxTarballs

\* sum is the contents of .checksum; whole: everything has been extracted, and
\* nothing removed since.
Ref == [exists : BOOLEAN, whole : BOOLEAN, sum : Version \cup {None}]

NoRef == [exists |-> FALSE, whole |-> FALSE, sum |-> None]

\* whole: the reference directory has been copied to the end; left: the files
\* that workers have injected and those that builds have left behind.
Dir == [exists : BOOLEAN, whole : BOOLEAN, marks : SUBSET {"clean", "dirty"},
        left : SUBSET {"inject", "build"}, mounts : SUBSET Loopback]

NoDir == [exists |-> FALSE, whole |-> FALSE, marks |-> {}, left |-> {}, mounts |-> {}]

PC == {"idle", "sum", "check", "rmref", "erase", "untar", "populate", "writesum",
       "root", "delete", "rmroot", "clean", "sync", "copy", "mount", "remount",
       "ready", "up", "inject", "marking", "build"}

Init ==
    /\ tarball = 1
    /\ md5 = None
    /\ ref = NoRef
    /\ dir = [i \in Wid |-> NoDir]
    /\ pc = [p \in Process |-> "idle"]
    /\ sum = [p \in Process |-> None]
    /\ budget = MaxCrashes

-----------------------------------------------------------------------------

\* The chroot directory that p works on, $self->{root}.
root(p) == dir[DirOf(p)]

SetRoot(p, d) == dir' = [dir EXCEPT ![DirOf(p)] = d]

Step(p, from, to) == pc[p] = from /\ pc' = [pc EXCEPT ![p] = to]

\* init_chroot: the supervisor begins with the directory of worker id 1.
Boot ==
    /\ Step(Boss, "idle", "sum")
    /\ UNCHANGED <<tarball, md5, ref, dir, sum, budget>>

\* A worker begins with prep_chroot.
StartWorker(i) ==
    /\ pc[Boss] = "up"
    /\ Step(i, "idle", "sum")
    /\ UNCHANGED <<tarball, md5, ref, dir, sum, budget>>

-----------------------------------------------------------------------------
(* _create_reference_dir.                                                  *)

\* The checksum of the tarball is read from its cache, or computed and cached.
Checksum(p) ==
    /\ Step(p, "sum", "check")
    /\ md5' = IF md5 = None THEN tarball ELSE md5
    /\ sum' = [sum EXCEPT ![p] = md5']
    /\ UNCHANGED <<tarball, ref, dir, budget>>

\* The reference directory is done when its .checksum is that of the tarball.
CheckRef(p) ==
    /\ Step(p, "check", IF ref.sum = sum[p] THEN "root"
                        ELSE IF ref.exists THEN "rmref" ELSE "untar")
    /\ UNCHANGED <<tarball, md5, ref, dir, sum, budget>>

\* rmtree: .checksum goes sooner or later.
RemoveRef(p) ==
    /\ Step(p, "rmref", "erase")
    /\ \E s \in {ref.sum, None} : ref' = [ref EXCEPT !.whole = FALSE, !.sum = s]
    /\ UNCHANGED <<tarball, md5, dir, sum, budget>>

EraseRef(p) ==
    /\ Step(p, "erase", "untar")
    /\ ref' = NoRef
    /\ UNCHANGED <<tarball, md5, dir, sum, budget>>

\* Mutant: .checksum is written before the directory is populated.
MutUntar(p) ==
    /\ Step(p, "untar", "populate")
    /\ ref' = [ref EXCEPT !.exists = TRUE, !.sum = sum[p]]
    /\ UNCHANGED <<tarball, md5, dir, sum, budget>>

Untar(p) ==
    /\ Step(p, "untar", "populate")
    /\ ref' = [ref EXCEPT !.exists = TRUE]
    /\ UNCHANGED <<tarball, md5, dir, sum, budget>>

\* The end of tar, the symlink, mtree and mkdir, and .clean.
Populate(p) ==
    /\ Step(p, "populate", "writesum")
    /\ ref' = [ref EXCEPT !.whole = TRUE]
    /\ UNCHANGED <<tarball, md5, dir, sum, budget>>

WriteSum(p) ==
    /\ Step(p, "writesum", "root")
    /\ ref' = [ref EXCEPT !.sum = sum[p]]
    /\ UNCHANGED <<tarball, md5, dir, sum, budget>>

-----------------------------------------------------------------------------
(* The rest of _init.                                                      *)

\* What is to be done with the directory: usr/mports/Makefile, which is there
\* when the loopback is mounted, is looked for first, then the marks.
Root(p) ==
    LET broken == root(p).exists /\ Mports \notin root(p).mounts IN
    /\ Step(p, "root", IF broken THEN "delete"
                       ELSE IF "clean" \in root(p).marks THEN "ready"
                       ELSE IF "dirty" \in root(p).marks THEN "clean"
                       ELSE "sync")
    /\ SetRoot(p, [root(p) EXCEPT !.exists = TRUE])
    /\ UNCHANGED <<tarball, md5, ref, sum, budget>>

\* delete: the loopbacks go first, then rmtree removes what it comes across.
Delete(p) ==
    /\ Step(p, "delete", "rmroot")
    /\ \E marks \in SUBSET root(p).marks :
          SetRoot(p, [root(p) EXCEPT !.mounts = {}, !.whole = FALSE, !.marks = marks])
    /\ UNCHANGED <<tarball, md5, ref, sum, budget>>

\* The end of rmtree, and mkpath.
RemoveRoot(p) ==
    /\ Step(p, "rmroot", "sync")
    /\ SetRoot(p, [NoDir EXCEPT !.exists = TRUE])
    /\ UNCHANGED <<tarball, md5, ref, sum, budget>>

\* Mutant: _clean leaves the loopbacks mounted.
MutClean(p) ==
    /\ Step(p, "clean", "sync")
    /\ UNCHANGED <<tarball, md5, ref, dir, sum, budget>>

\* _clean, up to the copy.
Clean(p) ==
    /\ Step(p, "clean", "sync")
    /\ SetRoot(p, [root(p) EXCEPT !.mounts = {}])
    /\ UNCHANGED <<tarball, md5, ref, sum, budget>>

\* _sync_reference_dir: cpdup copies the reference directory with its .clean and
\* removes what is not in there, .dirty too, in an order one cannot rely on.
Sync(p) ==
    /\ Step(p, "sync", "copy")
    /\ \E marks \in SUBSET (root(p).marks \cup {"clean"}) :
          SetRoot(p, [root(p) EXCEPT !.marks = marks])
    /\ UNCHANGED <<tarball, md5, ref, sum, budget>>

\* Mutant: the reference directory has no .clean.
MutCopy(p) ==
    /\ Step(p, "copy", IF root(p).mounts = {} THEN "mount" ELSE "remount")
    /\ SetRoot(p, [root(p) EXCEPT !.marks = {}, !.left = {}, !.whole = TRUE])
    /\ UNCHANGED <<tarball, md5, ref, sum, budget>>

\* The end of cpdup.
Copy(p) ==
    /\ Step(p, "copy", IF root(p).mounts = {} THEN "mount" ELSE "remount")
    /\ SetRoot(p, [root(p) EXCEPT !.marks = {"clean"}, !.left = {}, !.whole = TRUE])
    /\ UNCHANGED <<tarball, md5, ref, sum, budget>>

\* _mount_loopbacks: one loopback after another, in the order of a perl hash.
Mount(p) ==
    LET mounts == root(p).mounts IN
    /\ \E m \in Loopback \ mounts :
          /\ SetRoot(p, [root(p) EXCEPT !.mounts = mounts \cup {m}])
          /\ Step(p, "mount", IF mounts \cup {m} = Loopback THEN "ready" ELSE "mount")
    /\ UNCHANGED <<tarball, md5, ref, sum, budget>>

\* The system refuses to mount a loopback over itself: the process dies, after
\* it has mounted some of those that were missing.
Remount(p) ==
    /\ Step(p, "remount", "idle")
    /\ \E more \in SUBSET (Loopback \ root(p).mounts) :
          SetRoot(p, [root(p) EXCEPT !.mounts = @ \cup more])
    /\ UNCHANGED <<tarball, md5, ref, sum, budget>>

-----------------------------------------------------------------------------
(* What is done in a prepared directory.                                   *)

\* The supervisor only wanted it prepared.
BossReady ==
    /\ Step(Boss, "ready", "up")
    /\ UNCHANGED <<tarball, md5, ref, dir, sum, budget>>

\* inject_distfiles and inject_depends, file by file.
Inject(i) ==
    /\ Step(i, "ready", "inject")
    /\ SetRoot(i, [root(i) EXCEPT !.left = @ \cup {"inject"}])
    /\ UNCHANGED <<tarball, md5, ref, sum, budget>>

\* Mutant: .dirty comes while .clean stays.
MutRemoveClean(i) ==
    /\ Step(i, "inject", "marking")
    /\ UNCHANGED <<tarball, md5, ref, dir, sum, budget>>

\* mark_dirty, in the test child: first .clean goes, then .dirty comes.
RemoveClean(i) ==
    /\ Step(i, "inject", "marking")
    /\ SetRoot(i, [root(i) EXCEPT !.marks = @ \ {"clean"}])
    /\ UNCHANGED <<tarball, md5, ref, sum, budget>>

TouchDirty(i) ==
    /\ Step(i, "marking", "build")
    /\ SetRoot(i, [root(i) EXCEPT !.marks = @ \cup {"dirty"}])
    /\ UNCHANGED <<tarball, md5, ref, sum, budget>>

\* The phases of the build, all but the last one.
Build(i) ==
    /\ Step(i, "build", "build")
    /\ SetRoot(i, [root(i) EXCEPT !.left = @ \cup {"build"}])
    /\ UNCHANGED <<tarball, md5, ref, sum, budget>>

\* The end of the build, or the test child has found that there is none.
EndWorker(i) ==
    /\ Step(i, "build", "idle")
    /\ UNCHANGED <<tarball, md5, ref, dir, sum, budget>>

-----------------------------------------------------------------------------
(* What may go wrong.                                                      *)

\* A process dies, of an exception or of a signal.
Crash(p) ==
    /\ budget > 0 /\ pc[p] \notin {"idle", "up"}
    /\ budget' = budget - 1
    /\ pc' = [pc EXCEPT ![p] = "idle"]
    /\ UNCHANGED <<tarball, md5, ref, dir, sum>>

\* The supervisor waits for its workers before it ends; or it does not.
Stop ==
    /\ Step(Boss, "up", "idle")
    /\ "orphan" \in Faults \/ \A i \in Wid : pc[i] = "idle"
    /\ UNCHANGED <<tarball, md5, ref, dir, sum, budget>>

\* The machine restarts: nothing is mounted any more.
Reboot ==
    /\ budget > 0
    /\ budget' = budget - 1
    /\ pc' = [p \in Process |-> "idle"]
    /\ dir' = [i \in Wid |-> [dir[i] EXCEPT !.mounts = {}]]
    /\ UNCHANGED <<tarball, md5, ref, sum>>

\* The operator replaces the tarball; nothing in the code keeps him from doing
\* so while a process is in _create_reference_dir or copies from there.
NewTarball ==
    /\ "replace" \in Faults \/ \A p \in Process : pc[p] = "idle"
    /\ tarball' \in Version \ {tarball}
    /\ "revert" \in Faults \/ tarball' > tarball
    /\ md5' \in IF "forget" \in Faults THEN {None, md5} ELSE {None}
    /\ UNCHANGED <<ref, dir, pc, sum, budget>>

-----------------------------------------------------------------------------

\* The code that the supervisor and the workers have in common: Chroot->new.
New(p) ==
    \/ Checksum(p) \/ CheckRef(p) \/ RemoveRef(p) \/ EraseRef(p) \/ Untar(p)
    \/ Populate(p) \/ WriteSum(p) \/ Root(p) \/ Delete(p) \/ RemoveRoot(p)
    \/ Clean(p) \/ Sync(p) \/ Copy(p) \/ Mount(p) \/ Remount(p)

Test(i) ==
    Inject(i) \/ RemoveClean(i) \/ TouchDirty(i) \/ Build(i) \/ EndWorker(i)

Next ==
    \/ Boot \/ BossReady \/ Stop \/ Reboot \/ NewTarball
    \/ \E i \in Wid : StartWorker(i) \/ Test(i)
    \/ \E p \in Process : New(p) \/ Crash(p)

Spec == Init /\ [][Next]_vars

\* Processes go on, a supervisor is started again when there is none, and a
\* worker id does not stay unused for ever while supervisors look for ports.
FairSpec ==
    /\ Spec
    /\ WF_vars(Boot) /\ WF_vars(BossReady)
    /\ \A p \in Process : WF_vars(New(p))
    /\ \A i \in Wid :
          /\ WF_vars(Inject(i) \/ RemoveClean(i) \/ TouchDirty(i)) /\ WF_vars(EndWorker(i))
          /\ SF_vars(StartWorker(i))

-----------------------------------------------------------------------------
(* Properties.                                                             *)

\* Types; and there is nothing in a directory that does not exist.
TypeOK ==
    /\ tarball \in Version
    /\ md5 \in Version \cup {None}
    /\ ref \in Ref
    /\ dir \in [Wid -> Dir]
    /\ pc \in [Process -> PC]
    /\ sum \in [Process -> Version \cup {None}]
    /\ budget \in Nat
    /\ ref.exists \/ (~ ref.whole /\ ref.sum = None)
    /\ \A i \in Wid :
          dir[i].exists \/ (dir[i].marks = {} /\ dir[i].left = {} /\ dir[i].mounts = {})

\* What a process copies into a chroot is a reference directory extracted to the
\* end, wherever earlier processes have died in _create_reference_dir.
RefWhole ==
    \A p \in Process : pc[p] \in {"root", "sync", "copy"} => ref.whole

\* A directory that Chroot->new hands out is a whole copy with /usr/mports in it
\* and nothing in it of an earlier build, although .clean is copied with the rest,
\* perhaps first, and processes die at any point.
PreparedClean ==
    \A p \in Process :
        pc[p] = "ready" => LET d == root(p) IN
                           d.whole /\ Mports \in d.mounts /\ "build" \notin d.left

-----------------------------------------------------------------------------
(* The inductive invariant.                                                *)

\* Workers run under a supervisor that has seen the reference directory complete.
BossAbove ==
    /\ pc[Boss] = "up" => ref.whole /\ ref.sum = md5 /\ md5 /= None
    /\ \A i \in Wid : pc[i] /= "idle" => pc[Boss] = "up" /\ pc[i] /= "up"
    /\ pc[Boss] \notin {"inject", "marking", "build"}

\* The checksums grow, so that the .checksum of a torn reference directory is of
\* an older tarball than any that it will be compared with.
RefInv ==
    /\ md5 /= None => md5 <= tarball
    /\ ref.sum /= None =>
          /\ ref.sum <= tarball
          /\ md5 /= None => ref.sum <= md5
          /\ ref.whole \/ (ref.sum < tarball /\ (md5 /= None => ref.sum < md5))
    /\ \A p \in Process :
          /\ pc[p] \in {"check", "rmref", "erase", "untar", "populate", "writesum"} =>
                md5 /= None /\ sum[p] = md5
          /\ pc[p] \in {"rmref", "erase"} => ref.sum /= md5
          /\ pc[p] \in {"untar", "populate", "writesum"} => ref.sum = None
          /\ pc[p] \in {"rmref", "populate"} => ref.exists
          /\ pc[p] = "writesum" => ref.whole
          /\ pc[p] \in {"root", "delete", "rmroot", "clean", "sync", "copy", "mount",
                         "remount", "ready"} =>
                ref.whole /\ md5 /= None /\ ref.sum = md5

\* Where /usr/mports is mounted there is a whole copy, marked dirty and nothing
\* else when a build has been there; and what each step adds to that.
DirInv ==
    /\ \A i \in Wid : Mports \in dir[i].mounts =>
          dir[i].whole /\ ("build" \in dir[i].left => dir[i].marks = {"dirty"})
    /\ \A p \in Process :
          LET d == root(p) IN
          /\ pc[p] \in {"delete", "rmroot"} => Mports \notin d.mounts
          /\ pc[p] \in {"clean", "sync", "copy", "mount", "remount", "ready", "inject",
                         "marking", "build", "delete"} => d.exists
          /\ pc[p] \in {"sync", "copy"} => Mports \notin d.mounts \/ "build" \notin d.left
          /\ pc[p] \in {"mount", "remount", "ready", "inject", "marking"} =>
                d.whole /\ "build" \notin d.left
          /\ pc[p] \in {"ready", "inject", "marking", "build"} => Mports \in d.mounts
          /\ pc[p] = "marking" => "clean" \notin d.marks
          /\ pc[p] = "build" => d.marks = {"dirty"}

\* What RefWhole and PreparedClean follow from.
IInv == TypeOK /\ BossAbove /\ RefInv /\ DirInv

\* No death leaves a directory that can never be prepared again: worker after
\* worker with that id gets as far as a prepared directory.
Recovers == \A i \in Wid : []<>(pc[i] = "ready")

=============================================================================
