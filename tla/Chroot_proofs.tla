---------------------------- MODULE Chroot_proofs ----------------------------
(***************************************************************************)
(* That a chroot is prepared from a whole reference directory, and holds   *)
(* nothing of an earlier build, for every number of workers, deaths,       *)
(* restarts and tarballs.                                                  *)
(***************************************************************************)
EXTENDS Chroot, TLAPS

\* One supervisor at a time, and no way back to an older tarball.
Careful == Faults \cap {"revert", "orphan", "replace"} = {}

\* A directory is replaced by another one that exists.
LEMMA SetRootType ==
    ASSUME TypeOK, NEW p \in Process, NEW d \in Dir, d.exists, SetRoot(p, d)
    PROVE  /\ dir' \in [Wid -> Dir]
           /\ \A i \in Wid :
                 \/ dir'[i].exists
                 \/ dir'[i].marks = {} /\ dir'[i].left = {} /\ dir'[i].mounts = {}
  BY ChrootAssumption DEF TypeOK, Process, DirOf, SetRoot

\* A process works on a directory of this machine.
LEMMA RootType ==
    ASSUME TypeOK, NEW p \in Process
    PROVE  root(p) \in Dir
  BY ChrootAssumption DEF TypeOK, Process, DirOf, root

\* The supervisor begins.
LEMMA BootInv ==
    ASSUME Careful, IInv, Boot
    PROVE  IInv'
<1> USE ChrootAssumption DEF Step, Process, Boot
<1>1. TypeOK'
  BY DEF IInv, TypeOK, Version, PC
<1>2. BossAbove'
  BY DEF IInv, TypeOK, BossAbove, RefInv, Version, Ref, NoRef
<1>3. RefInv'
  BY DEF IInv, TypeOK, BossAbove, RefInv, Version, Ref, NoRef
<1>4. DirInv'
  BY DEF IInv, TypeOK, BossAbove, DirInv, DirOf, root, SetRoot, Dir, NoDir
<1>. QED
  BY <1>1, <1>2, <1>3, <1>4 DEF IInv

\* The supervisor has its directory prepared.
LEMMA BossReadyInv ==
    ASSUME Careful, IInv, BossReady
    PROVE  IInv'
<1> USE ChrootAssumption DEF Step, Process, BossReady
<1>1. TypeOK'
  BY DEF IInv, TypeOK, Version, PC
<1>2. BossAbove'
  BY DEF IInv, TypeOK, BossAbove, RefInv, Version, Ref, NoRef
<1>3. RefInv'
  BY DEF IInv, TypeOK, BossAbove, RefInv, Version, Ref, NoRef
<1>4. DirInv'
  BY DEF IInv, TypeOK, BossAbove, DirInv, DirOf, root, SetRoot, Dir, NoDir
<1>. QED
  BY <1>1, <1>2, <1>3, <1>4 DEF IInv

\* The supervisor ends, after its workers.
LEMMA StopInv ==
    ASSUME Careful, IInv, Stop
    PROVE  IInv'
<1> USE ChrootAssumption DEF Careful, Step, Process, Stop
<1>1. TypeOK'
  BY DEF IInv, TypeOK, Version, PC
<1>2. BossAbove'
  BY DEF IInv, TypeOK, BossAbove, RefInv, Version, Ref, NoRef
<1>3. RefInv'
  BY DEF IInv, TypeOK, BossAbove, RefInv, Version, Ref, NoRef
<1>4. DirInv'
  BY DEF IInv, TypeOK, BossAbove, DirInv, DirOf, root, SetRoot, Dir, NoDir
<1>. QED
  BY <1>1, <1>2, <1>3, <1>4 DEF IInv

\* The machine restarts: every process ends and every loopback is gone.
LEMMA RebootInv ==
    ASSUME Careful, IInv, Reboot
    PROVE  IInv'
<1> USE ChrootAssumption DEF Step, Process, Reboot
<1>1. TypeOK'
  <2>1. ASSUME NEW i \in Wid
        PROVE  /\ [dir[i] EXCEPT !.mounts = {}] \in Dir
               /\ \/ dir'[i].exists
                  \/ dir'[i].marks = {} /\ dir'[i].left = {} /\ dir'[i].mounts = {}
    <3>1. dir[i] \in Dir
      BY DEF IInv, TypeOK
    <3>2. dir'[i] = [dir[i] EXCEPT !.mounts = {}]
      OBVIOUS
    <3>. QED
      BY <3>1, <3>2 DEF IInv, TypeOK, Dir
  <2>2. dir' \in [Wid -> Dir]
    BY <2>1
  <2>3. pc' \in [Process -> PC]
    BY DEF PC
  <2>4. budget' \in Nat
    BY DEF IInv, TypeOK
  <2>. QED
    BY <2>1, <2>2, <2>3, <2>4 DEF IInv, TypeOK
<1>2. BossAbove'
  BY DEF IInv, TypeOK, BossAbove, RefInv, Version, Ref, NoRef
<1>3. RefInv'
  BY DEF IInv, TypeOK, BossAbove, RefInv, Version, Ref, NoRef
<1>4. DirInv'
  BY DEF IInv, TypeOK, BossAbove, DirInv, DirOf, root, SetRoot, Dir, NoDir
<1>. QED
  BY <1>1, <1>2, <1>3, <1>4 DEF IInv

\* The operator replaces the tarball: the checksums only grow.
LEMMA NewTarballInv ==
    ASSUME Careful, IInv, NewTarball
    PROVE  IInv'
<1> USE ChrootAssumption DEF Careful, Step, Process, NewTarball
<1>1. TypeOK'
  BY DEF IInv, TypeOK, Version, PC
<1>2. BossAbove'
  BY DEF IInv, TypeOK, BossAbove, RefInv, Version, Ref, NoRef
<1>3. RefInv'
  BY DEF IInv, TypeOK, BossAbove, RefInv, Version, Ref, NoRef
<1>4. DirInv'
  BY DEF IInv, TypeOK, BossAbove, DirInv, DirOf, root, SetRoot, Dir, NoDir
<1>. QED
  BY <1>1, <1>2, <1>3, <1>4 DEF IInv

\* A worker begins, under a supervisor that is up.
LEMMA StartWorkerInv ==
    ASSUME Careful, IInv, NEW i \in Wid, StartWorker(i)
    PROVE  IInv'
<1> USE ChrootAssumption DEF Step, Process, StartWorker
<1>1. TypeOK'
  BY DEF IInv, TypeOK, Version, PC
<1>2. BossAbove'
  BY DEF IInv, TypeOK, BossAbove, RefInv, Version, Ref, NoRef
<1>3. RefInv'
  BY DEF IInv, TypeOK, BossAbove, RefInv, Version, Ref, NoRef
<1>4. DirInv'
  BY DEF IInv, TypeOK, BossAbove, DirInv, DirOf, root, SetRoot, Dir, NoDir
<1>. QED
  BY <1>1, <1>2, <1>3, <1>4 DEF IInv

\* A worker injects files into a directory marked clean.
LEMMA InjectInv ==
    ASSUME Careful, IInv, NEW i \in Wid, Inject(i)
    PROVE  IInv'
<1> USE ChrootAssumption DEF Step, Process, Inject
<1>1. TypeOK'
  <2>1. root(i) \in Dir /\ (pc[i] \notin {"root", "rmroot"} => root(i).exists)
    BY RootType DEF IInv, DirInv
  <2>2. SetRoot(i, [root(i) EXCEPT !.left = @ \cup {"inject"}])
    OBVIOUS
  <2>3. [root(i) EXCEPT !.left = @ \cup {"inject"}] \in Dir
    BY <2>1, <2>2 DEF Dir, NoDir
  <2>4. [root(i) EXCEPT !.left = @ \cup {"inject"}].exists
    BY <2>1 DEF Dir, NoDir
  <2>5. pc' \in [Process -> PC]
    BY DEF IInv, TypeOK, PC
  <2>. QED
    BY <2>2, <2>3, <2>4, <2>5, SetRootType DEF IInv, TypeOK
<1>2. BossAbove'
  BY DEF IInv, TypeOK, BossAbove, RefInv, Version, Ref, NoRef
<1>3. RefInv'
  BY DEF IInv, TypeOK, BossAbove, RefInv, Version, Ref, NoRef
<1>4. DirInv'
  BY DEF IInv, TypeOK, BossAbove, DirInv, DirOf, root, SetRoot, Dir, NoDir
<1>. QED
  BY <1>1, <1>2, <1>3, <1>4 DEF IInv

\* mark_dirty takes .clean away.
LEMMA RemoveCleanInv ==
    ASSUME Careful, IInv, NEW i \in Wid, RemoveClean(i)
    PROVE  IInv'
<1> USE ChrootAssumption DEF Step, Process, RemoveClean
<1>1. TypeOK'
  <2>1. root(i) \in Dir /\ (pc[i] \notin {"root", "rmroot"} => root(i).exists)
    BY RootType DEF IInv, DirInv
  <2>2. SetRoot(i, [root(i) EXCEPT !.marks = @ \ {"clean"}])
    OBVIOUS
  <2>3. [root(i) EXCEPT !.marks = @ \ {"clean"}] \in Dir
    BY <2>1, <2>2 DEF Dir, NoDir
  <2>4. [root(i) EXCEPT !.marks = @ \ {"clean"}].exists
    BY <2>1 DEF Dir, NoDir
  <2>5. pc' \in [Process -> PC]
    BY DEF IInv, TypeOK, PC
  <2>. QED
    BY <2>2, <2>3, <2>4, <2>5, SetRootType DEF IInv, TypeOK
<1>2. BossAbove'
  BY DEF IInv, TypeOK, BossAbove, RefInv, Version, Ref, NoRef
<1>3. RefInv'
  BY DEF IInv, TypeOK, BossAbove, RefInv, Version, Ref, NoRef
<1>4. DirInv'
  BY DEF IInv, TypeOK, BossAbove, DirInv, DirOf, root, SetRoot, Dir, NoDir
<1>. QED
  BY <1>1, <1>2, <1>3, <1>4 DEF IInv

\* mark_dirty puts .dirty there.
LEMMA TouchDirtyInv ==
    ASSUME Careful, IInv, NEW i \in Wid, TouchDirty(i)
    PROVE  IInv'
<1> USE ChrootAssumption DEF Step, Process, TouchDirty
<1>1. TypeOK'
  <2>1. root(i) \in Dir /\ (pc[i] \notin {"root", "rmroot"} => root(i).exists)
    BY RootType DEF IInv, DirInv
  <2>2. SetRoot(i, [root(i) EXCEPT !.marks = @ \cup {"dirty"}])
    OBVIOUS
  <2>3. [root(i) EXCEPT !.marks = @ \cup {"dirty"}] \in Dir
    BY <2>1, <2>2 DEF Dir, NoDir
  <2>4. [root(i) EXCEPT !.marks = @ \cup {"dirty"}].exists
    BY <2>1 DEF Dir, NoDir
  <2>5. pc' \in [Process -> PC]
    BY DEF IInv, TypeOK, PC
  <2>. QED
    BY <2>2, <2>3, <2>4, <2>5, SetRootType DEF IInv, TypeOK
<1>2. BossAbove'
  BY DEF IInv, TypeOK, BossAbove, RefInv, Version, Ref, NoRef
<1>3. RefInv'
  BY DEF IInv, TypeOK, BossAbove, RefInv, Version, Ref, NoRef
<1>4. DirInv'
  BY DEF IInv, TypeOK, BossAbove, DirInv, DirOf, root, SetRoot, Dir, NoDir
<1>. QED
  BY <1>1, <1>2, <1>3, <1>4 DEF IInv

\* The build leaves its files, in a directory marked dirty.
LEMMA BuildInv ==
    ASSUME Careful, IInv, NEW i \in Wid, Build(i)
    PROVE  IInv'
<1> USE ChrootAssumption DEF Step, Process, Build
<1>1. TypeOK'
  <2>1. root(i) \in Dir /\ (pc[i] \notin {"root", "rmroot"} => root(i).exists)
    BY RootType DEF IInv, DirInv
  <2>2. SetRoot(i, [root(i) EXCEPT !.left = @ \cup {"build"}])
    OBVIOUS
  <2>3. [root(i) EXCEPT !.left = @ \cup {"build"}] \in Dir
    BY <2>1, <2>2 DEF Dir, NoDir
  <2>4. [root(i) EXCEPT !.left = @ \cup {"build"}].exists
    BY <2>1 DEF Dir, NoDir
  <2>5. pc' \in [Process -> PC]
    BY DEF IInv, TypeOK, PC
  <2>. QED
    BY <2>2, <2>3, <2>4, <2>5, SetRootType DEF IInv, TypeOK
<1>2. BossAbove'
  BY DEF IInv, TypeOK, BossAbove, RefInv, Version, Ref, NoRef
<1>3. RefInv'
  BY DEF IInv, TypeOK, BossAbove, RefInv, Version, Ref, NoRef
<1>4. DirInv'
  BY DEF IInv, TypeOK, BossAbove, DirInv, DirOf, root, SetRoot, Dir, NoDir
<1>. QED
  BY <1>1, <1>2, <1>3, <1>4 DEF IInv

\* A worker ends.
LEMMA EndWorkerInv ==
    ASSUME Careful, IInv, NEW i \in Wid, EndWorker(i)
    PROVE  IInv'
<1> USE ChrootAssumption DEF Step, Process, EndWorker
<1>1. TypeOK'
  BY DEF IInv, TypeOK, Version, PC
<1>2. BossAbove'
  BY DEF IInv, TypeOK, BossAbove, RefInv, Version, Ref, NoRef
<1>3. RefInv'
  BY DEF IInv, TypeOK, BossAbove, RefInv, Version, Ref, NoRef
<1>4. DirInv'
  BY DEF IInv, TypeOK, BossAbove, DirInv, DirOf, root, SetRoot, Dir, NoDir
<1>. QED
  BY <1>1, <1>2, <1>3, <1>4 DEF IInv

\* The checksum of the tarball is read or computed.
LEMMA ChecksumInv ==
    ASSUME Careful, IInv, NEW p \in Process, Checksum(p)
    PROVE  IInv'
<1> USE ChrootAssumption DEF Step, Process, Checksum
<1>1. TypeOK'
  BY DEF IInv, TypeOK, Version, PC
<1>2. BossAbove'
  BY DEF IInv, TypeOK, BossAbove, RefInv, Version, Ref, NoRef
<1>3. RefInv'
  BY DEF IInv, TypeOK, BossAbove, RefInv, Version, Ref, NoRef
<1>4. DirInv'
  BY DEF IInv, TypeOK, BossAbove, DirInv, DirOf, root, SetRoot, Dir, NoDir
<1>. QED
  BY <1>1, <1>2, <1>3, <1>4 DEF IInv

\* Chroot->new compares the checksums.
LEMMA CheckRefInv ==
    ASSUME Careful, IInv, NEW p \in Process, CheckRef(p)
    PROVE  IInv'
<1> USE ChrootAssumption DEF Step, Process, CheckRef
<1>1. TypeOK'
  BY DEF IInv, TypeOK, Version, PC
<1>2. BossAbove'
  BY DEF IInv, TypeOK, BossAbove, RefInv, Version, Ref, NoRef
<1>3. RefInv'
  BY DEF IInv, TypeOK, BossAbove, RefInv, Version, Ref, NoRef
<1>4. DirInv'
  BY DEF IInv, TypeOK, BossAbove, DirInv, DirOf, root, SetRoot, Dir, NoDir
<1>. QED
  BY <1>1, <1>2, <1>3, <1>4 DEF IInv

\* rmtree removes the reference directory, which has an older .checksum or none.
LEMMA RemoveRefInv ==
    ASSUME Careful, IInv, NEW p \in Process, RemoveRef(p)
    PROVE  IInv'
<1> USE ChrootAssumption DEF Step, Process, RemoveRef
<1>1. TypeOK'
  <2>1. ref' \in Ref
    BY DEF IInv, TypeOK, Ref, NoRef, Version
  <2>2. ref'.exists \/ (~ ref'.whole /\ ref'.sum = None)
    BY DEF IInv, TypeOK, RefInv, Ref, NoRef
  <2>3. pc' \in [Process -> PC]
    BY DEF IInv, TypeOK, PC
  <2>. QED
    BY <2>1, <2>2, <2>3 DEF IInv, TypeOK
<1>2. BossAbove'
  BY DEF IInv, TypeOK, BossAbove, RefInv, Version, Ref, NoRef
<1>3. RefInv'
  BY DEF IInv, TypeOK, BossAbove, RefInv, Version, Ref, NoRef
<1>4. DirInv'
  BY DEF IInv, TypeOK, BossAbove, DirInv, DirOf, root, SetRoot, Dir, NoDir
<1>. QED
  BY <1>1, <1>2, <1>3, <1>4 DEF IInv

\* The reference directory is gone.
LEMMA EraseRefInv ==
    ASSUME Careful, IInv, NEW p \in Process, EraseRef(p)
    PROVE  IInv'
<1> USE ChrootAssumption DEF Step, Process, EraseRef
<1>1. TypeOK'
  <2>1. ref' \in Ref
    BY DEF IInv, TypeOK, Ref, NoRef, Version
  <2>2. ref'.exists \/ (~ ref'.whole /\ ref'.sum = None)
    BY DEF IInv, TypeOK, RefInv, Ref, NoRef
  <2>3. pc' \in [Process -> PC]
    BY DEF IInv, TypeOK, PC
  <2>. QED
    BY <2>1, <2>2, <2>3 DEF IInv, TypeOK
<1>2. BossAbove'
  BY DEF IInv, TypeOK, BossAbove, RefInv, Version, Ref, NoRef
<1>3. RefInv'
  BY DEF IInv, TypeOK, BossAbove, RefInv, Version, Ref, NoRef
<1>4. DirInv'
  BY DEF IInv, TypeOK, BossAbove, DirInv, DirOf, root, SetRoot, Dir, NoDir
<1>. QED
  BY <1>1, <1>2, <1>3, <1>4 DEF IInv

\* The reference directory is made again.
LEMMA UntarInv ==
    ASSUME Careful, IInv, NEW p \in Process, Untar(p)
    PROVE  IInv'
<1> USE ChrootAssumption DEF Step, Process, Untar
<1>1. TypeOK'
  <2>1. ref' \in Ref
    BY DEF IInv, TypeOK, Ref, NoRef, Version
  <2>2. ref'.exists \/ (~ ref'.whole /\ ref'.sum = None)
    BY DEF IInv, TypeOK, RefInv, Ref, NoRef
  <2>3. pc' \in [Process -> PC]
    BY DEF IInv, TypeOK, PC
  <2>. QED
    BY <2>1, <2>2, <2>3 DEF IInv, TypeOK
<1>2. BossAbove'
  BY DEF IInv, TypeOK, BossAbove, RefInv, Version, Ref, NoRef
<1>3. RefInv'
  BY DEF IInv, TypeOK, BossAbove, RefInv, Version, Ref, NoRef
<1>4. DirInv'
  BY DEF IInv, TypeOK, BossAbove, DirInv, DirOf, root, SetRoot, Dir, NoDir
<1>. QED
  BY <1>1, <1>2, <1>3, <1>4 DEF IInv

\* The reference directory is populated to the end.
LEMMA PopulateInv ==
    ASSUME Careful, IInv, NEW p \in Process, Populate(p)
    PROVE  IInv'
<1> USE ChrootAssumption DEF Step, Process, Populate
<1>1. TypeOK'
  <2>1. ref' \in Ref
    BY DEF IInv, TypeOK, Ref, NoRef, Version
  <2>2. ref'.exists \/ (~ ref'.whole /\ ref'.sum = None)
    BY DEF IInv, TypeOK, RefInv, Ref, NoRef
  <2>3. pc' \in [Process -> PC]
    BY DEF IInv, TypeOK, PC
  <2>. QED
    BY <2>1, <2>2, <2>3 DEF IInv, TypeOK
<1>2. BossAbove'
  BY DEF IInv, TypeOK, BossAbove, RefInv, Version, Ref, NoRef
<1>3. RefInv'
  BY DEF IInv, TypeOK, BossAbove, RefInv, Version, Ref, NoRef
<1>4. DirInv'
  BY DEF IInv, TypeOK, BossAbove, DirInv, DirOf, root, SetRoot, Dir, NoDir
<1>. QED
  BY <1>1, <1>2, <1>3, <1>4 DEF IInv

\* .checksum is written, last.
LEMMA WriteSumInv ==
    ASSUME Careful, IInv, NEW p \in Process, WriteSum(p)
    PROVE  IInv'
<1> USE ChrootAssumption DEF Step, Process, WriteSum
<1>1. TypeOK'
  <2>1. ref' \in Ref
    BY DEF IInv, TypeOK, Ref, NoRef, Version
  <2>2. ref'.exists \/ (~ ref'.whole /\ ref'.sum = None)
    BY DEF IInv, TypeOK, RefInv, Ref, NoRef
  <2>3. pc' \in [Process -> PC]
    BY DEF IInv, TypeOK, PC
  <2>. QED
    BY <2>1, <2>2, <2>3 DEF IInv, TypeOK
<1>2. BossAbove'
  BY DEF IInv, TypeOK, BossAbove, RefInv, Version, Ref, NoRef
<1>3. RefInv'
  BY DEF IInv, TypeOK, BossAbove, RefInv, Version, Ref, NoRef
<1>4. DirInv'
  BY DEF IInv, TypeOK, BossAbove, DirInv, DirOf, root, SetRoot, Dir, NoDir
<1>. QED
  BY <1>1, <1>2, <1>3, <1>4 DEF IInv

\* _init looks at the directory.
LEMMA RootInv ==
    ASSUME Careful, IInv, NEW p \in Process, Root(p)
    PROVE  IInv'
<1> USE ChrootAssumption DEF Step, Process, Root
<1>1. TypeOK'
  <2>1. root(p) \in Dir /\ (pc[p] \notin {"root", "rmroot"} => root(p).exists)
    BY RootType DEF IInv, DirInv
  <2>2. SetRoot(p, [root(p) EXCEPT !.exists = TRUE])
    OBVIOUS
  <2>3. [root(p) EXCEPT !.exists = TRUE] \in Dir
    BY <2>1, <2>2 DEF Dir, NoDir
  <2>4. [root(p) EXCEPT !.exists = TRUE].exists
    BY <2>1 DEF Dir, NoDir
  <2>5. pc' \in [Process -> PC]
    BY DEF IInv, TypeOK, PC
  <2>. QED
    BY <2>2, <2>3, <2>4, <2>5, SetRootType DEF IInv, TypeOK
<1>2. BossAbove'
  BY DEF IInv, TypeOK, BossAbove, RefInv, Version, Ref, NoRef
<1>3. RefInv'
  BY DEF IInv, TypeOK, BossAbove, RefInv, Version, Ref, NoRef
<1>4. DirInv'
  BY DEF IInv, TypeOK, BossAbove, DirInv, DirOf, root, SetRoot, Dir, NoDir
<1>. QED
  BY <1>1, <1>2, <1>3, <1>4 DEF IInv

\* delete unmounts the loopbacks first.
LEMMA DeleteInv ==
    ASSUME Careful, IInv, NEW p \in Process, Delete(p)
    PROVE  IInv'
<1> USE ChrootAssumption DEF Step, Process, Delete
<1>1. TypeOK'
  <2>1. root(p) \in Dir /\ (pc[p] \notin {"root", "rmroot"} => root(p).exists)
    BY RootType DEF IInv, DirInv
  <2>2. PICK marks \in SUBSET root(p).marks :
              SetRoot(p, [root(p) EXCEPT !.mounts = {}, !.whole = FALSE, !.marks = marks])
    OBVIOUS
  <2>3. [root(p) EXCEPT !.mounts = {}, !.whole = FALSE, !.marks = marks] \in Dir
    BY <2>1, <2>2 DEF Dir, NoDir
  <2>4. [root(p) EXCEPT !.mounts = {}, !.whole = FALSE, !.marks = marks].exists
    BY <2>1 DEF Dir, NoDir
  <2>5. pc' \in [Process -> PC]
    BY DEF IInv, TypeOK, PC
  <2>. QED
    BY <2>2, <2>3, <2>4, <2>5, SetRootType DEF IInv, TypeOK
<1>2. BossAbove'
  BY DEF IInv, TypeOK, BossAbove, RefInv, Version, Ref, NoRef
<1>3. RefInv'
  BY DEF IInv, TypeOK, BossAbove, RefInv, Version, Ref, NoRef
<1>4. DirInv'
  BY DEF IInv, TypeOK, BossAbove, DirInv, DirOf, root, SetRoot, Dir, NoDir
<1>. QED
  BY <1>1, <1>2, <1>3, <1>4 DEF IInv

\* The directory is made again.
LEMMA RemoveRootInv ==
    ASSUME Careful, IInv, NEW p \in Process, RemoveRoot(p)
    PROVE  IInv'
<1> USE ChrootAssumption DEF Step, Process, RemoveRoot
<1>1. TypeOK'
  <2>1. root(p) \in Dir /\ (pc[p] \notin {"root", "rmroot"} => root(p).exists)
    BY RootType DEF IInv, DirInv
  <2>2. SetRoot(p, [NoDir EXCEPT !.exists = TRUE])
    OBVIOUS
  <2>3. [NoDir EXCEPT !.exists = TRUE] \in Dir
    BY <2>1, <2>2 DEF Dir, NoDir
  <2>4. [NoDir EXCEPT !.exists = TRUE].exists
    BY <2>1 DEF Dir, NoDir
  <2>5. pc' \in [Process -> PC]
    BY DEF IInv, TypeOK, PC
  <2>. QED
    BY <2>2, <2>3, <2>4, <2>5, SetRootType DEF IInv, TypeOK
<1>2. BossAbove'
  BY DEF IInv, TypeOK, BossAbove, RefInv, Version, Ref, NoRef
<1>3. RefInv'
  BY DEF IInv, TypeOK, BossAbove, RefInv, Version, Ref, NoRef
<1>4. DirInv'
  BY DEF IInv, TypeOK, BossAbove, DirInv, DirOf, root, SetRoot, Dir, NoDir
<1>. QED
  BY <1>1, <1>2, <1>3, <1>4 DEF IInv

\* _clean unmounts the loopbacks first.
LEMMA CleanInv ==
    ASSUME Careful, IInv, NEW p \in Process, Clean(p)
    PROVE  IInv'
<1> USE ChrootAssumption DEF Step, Process, Clean
<1>1. TypeOK'
  <2>1. root(p) \in Dir /\ (pc[p] \notin {"root", "rmroot"} => root(p).exists)
    BY RootType DEF IInv, DirInv
  <2>2. SetRoot(p, [root(p) EXCEPT !.mounts = {}])
    OBVIOUS
  <2>3. [root(p) EXCEPT !.mounts = {}] \in Dir
    BY <2>1, <2>2 DEF Dir, NoDir
  <2>4. [root(p) EXCEPT !.mounts = {}].exists
    BY <2>1 DEF Dir, NoDir
  <2>5. pc' \in [Process -> PC]
    BY DEF IInv, TypeOK, PC
  <2>. QED
    BY <2>2, <2>3, <2>4, <2>5, SetRootType DEF IInv, TypeOK
<1>2. BossAbove'
  BY DEF IInv, TypeOK, BossAbove, RefInv, Version, Ref, NoRef
<1>3. RefInv'
  BY DEF IInv, TypeOK, BossAbove, RefInv, Version, Ref, NoRef
<1>4. DirInv'
  BY DEF IInv, TypeOK, BossAbove, DirInv, DirOf, root, SetRoot, Dir, NoDir
<1>. QED
  BY <1>1, <1>2, <1>3, <1>4 DEF IInv

\* cpdup copies .clean, sooner or later.
LEMMA SyncInv ==
    ASSUME Careful, IInv, NEW p \in Process, Sync(p)
    PROVE  IInv'
<1> USE ChrootAssumption DEF Step, Process, Sync
<1>1. TypeOK'
  <2>1. root(p) \in Dir /\ (pc[p] \notin {"root", "rmroot"} => root(p).exists)
    BY RootType DEF IInv, DirInv
  <2>2. PICK marks \in SUBSET (root(p).marks \cup {"clean"}) :
              SetRoot(p, [root(p) EXCEPT !.marks = marks])
    OBVIOUS
  <2>3. [root(p) EXCEPT !.marks = marks] \in Dir
    BY <2>1, <2>2 DEF Dir, NoDir
  <2>4. [root(p) EXCEPT !.marks = marks].exists
    BY <2>1 DEF Dir, NoDir
  <2>5. pc' \in [Process -> PC]
    BY DEF IInv, TypeOK, PC
  <2>. QED
    BY <2>2, <2>3, <2>4, <2>5, SetRootType DEF IInv, TypeOK
<1>2. BossAbove'
  BY DEF IInv, TypeOK, BossAbove, RefInv, Version, Ref, NoRef
<1>3. RefInv'
  BY DEF IInv, TypeOK, BossAbove, RefInv, Version, Ref, NoRef
<1>4. DirInv'
  BY DEF IInv, TypeOK, BossAbove, DirInv, DirOf, root, SetRoot, Dir, NoDir
<1>. QED
  BY <1>1, <1>2, <1>3, <1>4 DEF IInv

\* cpdup has copied everything.
LEMMA CopyInv ==
    ASSUME Careful, IInv, NEW p \in Process, Copy(p)
    PROVE  IInv'
<1> USE ChrootAssumption DEF Step, Process, Copy
<1>1. TypeOK'
  <2>1. root(p) \in Dir /\ (pc[p] \notin {"root", "rmroot"} => root(p).exists)
    BY RootType DEF IInv, DirInv
  <2>2. SetRoot(p, [root(p) EXCEPT !.marks = {"clean"}, !.left = {}, !.whole = TRUE])
    OBVIOUS
  <2>3. [root(p) EXCEPT !.marks = {"clean"}, !.left = {}, !.whole = TRUE] \in Dir
    BY <2>1, <2>2 DEF Dir, NoDir
  <2>4. [root(p) EXCEPT !.marks = {"clean"}, !.left = {}, !.whole = TRUE].exists
    BY <2>1 DEF Dir, NoDir
  <2>5. pc' \in [Process -> PC]
    BY DEF IInv, TypeOK, PC
  <2>. QED
    BY <2>2, <2>3, <2>4, <2>5, SetRootType DEF IInv, TypeOK
<1>2. BossAbove'
  BY DEF IInv, TypeOK, BossAbove, RefInv, Version, Ref, NoRef
<1>3. RefInv'
  BY DEF IInv, TypeOK, BossAbove, RefInv, Version, Ref, NoRef
<1>4. DirInv'
  BY DEF IInv, TypeOK, BossAbove, DirInv, DirOf, root, SetRoot, Dir, NoDir
<1>. QED
  BY <1>1, <1>2, <1>3, <1>4 DEF IInv

\* A loopback is mounted on a whole copy.
LEMMA MountInv ==
    ASSUME Careful, IInv, NEW p \in Process, Mount(p)
    PROVE  IInv'
<1> USE ChrootAssumption DEF Step, Process, Mount
<1>1. TypeOK'
  <2>1. root(p) \in Dir /\ (pc[p] \notin {"root", "rmroot"} => root(p).exists)
    BY RootType DEF IInv, DirInv
  <2>2. PICK m \in Loopback \ root(p).mounts :
              SetRoot(p, [root(p) EXCEPT !.mounts = @ \cup {m}])
    OBVIOUS
  <2>3. [root(p) EXCEPT !.mounts = @ \cup {m}] \in Dir
    BY <2>1, <2>2 DEF Dir, NoDir
  <2>4. [root(p) EXCEPT !.mounts = @ \cup {m}].exists
    BY <2>1 DEF Dir, NoDir
  <2>5. pc' \in [Process -> PC]
    BY DEF IInv, TypeOK, PC
  <2>. QED
    BY <2>2, <2>3, <2>4, <2>5, SetRootType DEF IInv, TypeOK
<1>2. BossAbove'
  BY DEF IInv, TypeOK, BossAbove, RefInv, Version, Ref, NoRef
<1>3. RefInv'
  BY DEF IInv, TypeOK, BossAbove, RefInv, Version, Ref, NoRef
<1>4. DirInv'
  BY DEF IInv, TypeOK, BossAbove, DirInv, DirOf, root, SetRoot, Dir, NoDir
<1>. QED
  BY <1>1, <1>2, <1>3, <1>4 DEF IInv

\* A loopback that is already mounted ends the process.
LEMMA RemountInv ==
    ASSUME Careful, IInv, NEW p \in Process, Remount(p)
    PROVE  IInv'
<1> USE ChrootAssumption DEF Step, Process, Remount
<1>1. TypeOK'
  <2>1. root(p) \in Dir /\ (pc[p] \notin {"root", "rmroot"} => root(p).exists)
    BY RootType DEF IInv, DirInv
  <2>2. PICK more \in SUBSET (Loopback \ root(p).mounts) :
              SetRoot(p, [root(p) EXCEPT !.mounts = @ \cup more])
    OBVIOUS
  <2>3. [root(p) EXCEPT !.mounts = @ \cup more] \in Dir
    BY <2>1, <2>2 DEF Dir, NoDir
  <2>4. [root(p) EXCEPT !.mounts = @ \cup more].exists
    BY <2>1 DEF Dir, NoDir
  <2>5. pc' \in [Process -> PC]
    BY DEF IInv, TypeOK, PC
  <2>. QED
    BY <2>2, <2>3, <2>4, <2>5, SetRootType DEF IInv, TypeOK
<1>2. BossAbove'
  BY DEF IInv, TypeOK, BossAbove, RefInv, Version, Ref, NoRef
<1>3. RefInv'
  BY DEF IInv, TypeOK, BossAbove, RefInv, Version, Ref, NoRef
<1>4. DirInv'
  BY DEF IInv, TypeOK, BossAbove, DirInv, DirOf, root, SetRoot, Dir, NoDir
<1>. QED
  BY <1>1, <1>2, <1>3, <1>4 DEF IInv

\* A process dies.
LEMMA CrashInv ==
    ASSUME Careful, IInv, NEW p \in Process, Crash(p)
    PROVE  IInv'
<1> USE ChrootAssumption DEF Step, Process, Crash
<1>1. TypeOK'
  BY DEF IInv, TypeOK, Version, PC
<1>2. BossAbove'
  BY DEF IInv, TypeOK, BossAbove, RefInv, Version, Ref, NoRef
<1>3. RefInv'
  BY DEF IInv, TypeOK, BossAbove, RefInv, Version, Ref, NoRef
<1>4. DirInv'
  BY DEF IInv, TypeOK, BossAbove, DirInv, DirOf, root, SetRoot, Dir, NoDir
<1>. QED
  BY <1>1, <1>2, <1>3, <1>4 DEF IInv

-----------------------------------------------------------------------------

\* A step that changes nothing of Chroot.
LEMMA StutterInv ==
    ASSUME IInv, UNCHANGED vars
    PROVE  IInv'
<1> USE DEF vars
<1>1. TypeOK'
  BY DEF IInv, TypeOK
<1>2. BossAbove' /\ RefInv'
  BY DEF IInv, BossAbove, RefInv
<1>3. DirInv'
  BY DEF IInv, DirInv, root
<1>. QED
  BY <1>1, <1>2, <1>3 DEF IInv

\* Before the first supervisor there is no directory.
LEMMA InitInv == Init => IInv
<1> USE ChrootAssumption DEF Init, Process, NoRef, NoDir
<1>1. Init => TypeOK
  BY DEF TypeOK, Version, Ref, Dir, PC
<1>2. Init => BossAbove
  BY DEF BossAbove
<1>3. Init => RefInv
  BY DEF RefInv
<1>4. Init => DirInv
  BY DEF DirInv, DirOf
<1>. QED
  BY <1>1, <1>2, <1>3, <1>4 DEF IInv

\* One lemma for each action of Next.
LEMMA NextInv ==
    ASSUME Careful, IInv, [Next]_vars
    PROVE  IInv'
<1>1. CASE Boot \/ BossReady \/ Stop \/ Reboot \/ NewTarball
  BY <1>1, BootInv, BossReadyInv, StopInv, RebootInv, NewTarballInv
<1>2. ASSUME NEW i \in Wid, StartWorker(i) \/ Test(i)
      PROVE  IInv'
  BY <1>2, StartWorkerInv, InjectInv, RemoveCleanInv, TouchDirtyInv, BuildInv, EndWorkerInv
     DEF Test
<1>3. ASSUME NEW p \in Process, New(p) \/ Crash(p)
      PROVE  IInv'
  BY <1>3, ChecksumInv, CheckRefInv, RemoveRefInv, EraseRefInv, UntarInv, PopulateInv,
     WriteSumInv, RootInv, DeleteInv, RemoveRootInv, CleanInv, SyncInv, CopyInv, MountInv,
     RemountInv, CrashInv
     DEF New
<1>4. CASE UNCHANGED vars
  BY <1>4, StutterInv
<1>. QED
  BY <1>1, <1>2, <1>3, <1>4 DEF Next

\* The inductive invariant, under one supervisor and tarballs that only get newer.
THEOREM Prepared ==
    ASSUME Careful
    PROVE  Spec => []IInv
<1>1. IInv /\ [Next]_vars => IInv'
  BY NextInv
<1>. QED
  BY <1>1, InitInv, PTL DEF Spec

\* What Chroot->new copies has been extracted to the end.
THEOREM WholeReference ==
    ASSUME Careful
    PROVE  Spec => []RefWhole
<1>1. IInv => RefWhole
  BY DEF IInv, RefInv, RefWhole
<1>. QED
  BY <1>1, Prepared, PTL

\* What Chroot->new hands out is a whole copy without the files of a build.
THEOREM CleanChroot ==
    ASSUME Careful
    PROVE  Spec => []PreparedClean
<1>1. IInv => PreparedClean
  BY DEF IInv, DirInv, PreparedClean
<1>. QED
  BY <1>1, Prepared, PTL

=============================================================================
