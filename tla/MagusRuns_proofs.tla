-------------------------- MODULE MagusRuns_proofs ---------------------------
(***************************************************************************)
(* That every worker builds from the tree of the run of its port, and that *)
(* an active run is complete, for every number of machines, jobs, runs and *)
(* ports, and whatever dies.                                               *)
(***************************************************************************)
EXTENDS MagusRuns, TLAPS

\* TreeMatches, Buried and Settled of one machine, for given locks.
Local(m, s, ls) ==
    /\ s.zombies \subseteq s.children /\ s.children \cap s.corpses = {}
    /\ \A c \in s.children : c.run = s.tree /\ Lock(m, c) \in ls
    /\ \A c \in s.corpses : Lock(m, c) \in ls
    /\ s.pc \in {"fetch", "extract", "extracting", "exec"} => s.children = {} /\ s.run # 0
    /\ s.pc = "default" => s.next # 0
    /\ s.pc = "claim" => s.run # 0 /\ s.tree = s.run
    /\ s.children # {} => s.tree = s.run

\* What is known of a machine before a step.
LEMMA MachineFacts ==
    ASSUME IInv, NEW m \in Machine
    PROVE  machines[m] \in Supervisor /\ Local(m, machines[m], locks)
  BY DEF IInv, TypeOK, TreeMatches, Buried, Settled, Local

\* A step of one machine keeps the invariant when it keeps what concerns this
\* machine and the locks of the others, and forgets no port.
LEMMA SlaveInv ==
    ASSUME IInv, NEW n \in Machine, NEW t \in Supervisor, Set(n, t), Local(n, t, locks'),
           UNCHANGED <<runs, tarballs, master>>, budget' \in Nat,
           ports' \in [Run -> [Port -> PortStatus]],
           \A r \in Run, p \in Port : ports[r][p] # "none" => ports'[r][p] # "none",
           locks' \subseteq [run : Run, port : Port, machine : Machine],
           \A m \in Machine \ {n}, c \in Claimed : Lock(m, c) \in locks => Lock(m, c) \in locks'
    PROVE  IInv'
<1>1. TypeOK'
  BY DEF IInv, TypeOK, Set
<1>2. machines'[n] = t /\ \A m \in Machine \ {n} : machines'[m] = machines[m]
  BY DEF IInv, TypeOK, Set
<1>3. ASSUME NEW m \in Machine
      PROVE  Local(m, machines'[m], locks')
  <2>1. CASE m = n
    BY <1>2, <2>1
  <2>2. CASE m # n
    <3>1. Local(m, machines[m], locks) /\ machines[m] \in Supervisor
      BY MachineFacts
    <3>. QED
      BY <1>2, <2>2, <3>1 DEF Local, Supervisor
  <2>. QED
    BY <2>1, <2>2
<1>4. TreeMatches' /\ Buried' /\ Settled'
  BY <1>3 DEF TreeMatches, Buried, Settled, Local, Lock
<1>5. ActiveIsWhole' /\ Made'
  BY DEF IInv, TypeOK, ActiveIsWhole, Active, Made, Master
<1>. QED
  BY <1>1, <1>4, <1>5 DEF IInv

\* A step of the master keeps what concerns the machines.
LEMMA MasterInv ==
    ASSUME IInv, UNCHANGED <<locks, machines>>, TypeOK', ActiveIsWhole', Made'
    PROVE  IInv'
<1>1. TreeMatches' /\ Buried' /\ Settled'
  BY DEF IInv, TreeMatches, Buried, Settled, Lock
<1>. QED
  BY <1>1 DEF IInv

-----------------------------------------------------------------------------
(* The master.                                                             *)

\* The master that is off, and the one that has work to do.
LEMMA MasterType ==
    ASSUME NEW w \in SUBSET Run, NEW d \in SUBSET (Run \cup {0}), NEW r \in Run,
           NEW c \in {"off", "locks", "ready", "mark", "clone", "create", "tar", "index", "activate"}
    PROVE  /\ [pc |-> c, work |-> w, done |-> d, run |-> r] \in Master
           /\ 1 \in Run
  BY RunsAssumption DEF Master, Run

\* The master looks at the active runs.
LEMMA RefreshInv ==
    ASSUME IInv, Refresh
    PROVE  IInv'
<1> USE RunsAssumption DEF Refresh, MasterUnchanged
<1>1. master \in Master
  BY DEF IInv, TypeOK
<1>2. master' \in Master
  BY <1>1, MasterType DEF Master, NewMaster, Active
<1>3. TypeOK'
  BY <1>1, <1>2 DEF IInv, TypeOK, Master, RunStatus, PortStatus
<1>4. ActiveIsWhole'
  BY <1>1 DEF IInv, TypeOK, ActiveIsWhole, Active, Made, Master, RunStatus
<1>5. Made'
  BY <1>1, <1>2 DEF IInv, TypeOK, Made, Master, NewMaster
<1>. QED
  BY <1>3, <1>4, <1>5, MasterInv

\* is_empty counts the locks.
LEMMA LookLocksInv ==
    ASSUME IInv, LookLocks
    PROVE  IInv'
<1> USE RunsAssumption DEF LookLocks, MasterUnchanged
<1>1. master \in Master
  BY DEF IInv, TypeOK
<1>2. master' \in Master
  BY <1>1 DEF Master, NewMaster, Run, Active
<1>3. TypeOK'
  BY <1>1, <1>2 DEF IInv, TypeOK, Master, RunStatus, PortStatus
<1>4. ActiveIsWhole'
  BY <1>1 DEF IInv, TypeOK, ActiveIsWhole, Active, Made, Master, RunStatus
<1>5. Made'
  BY <1>1, <1>2 DEF IInv, TypeOK, Made, Master, NewMaster
<1>. QED
  BY <1>3, <1>4, <1>5, MasterInv

\* is_empty looks for a port.
LEMMA LookReadyInv ==
    ASSUME IInv, LookReady
    PROVE  IInv'
<1> USE RunsAssumption DEF LookReady, MasterUnchanged
<1>1. master \in Master
  BY DEF IInv, TypeOK
<1>2. master' \in Master
  BY <1>1 DEF Master, NewMaster, Run, Active
<1>3. TypeOK'
  BY <1>1, <1>2 DEF IInv, TypeOK, Master, RunStatus, PortStatus
<1>4. ActiveIsWhole'
  BY <1>1 DEF IInv, TypeOK, ActiveIsWhole, Active, Made, Master, RunStatus
<1>5. Made'
  BY <1>1, <1>2 DEF IInv, TypeOK, Made, Master, NewMaster
<1>. QED
  BY <1>3, <1>4, <1>5, MasterInv

\* The scan is over.
LEMMA LookedAtAllInv ==
    ASSUME IInv, LookedAtAll
    PROVE  IInv'
<1> USE RunsAssumption DEF LookedAtAll, MasterUnchanged
<1>1. master \in Master
  BY DEF IInv, TypeOK
<1>2. master' \in Master
  BY <1>1, MasterType DEF IInv, Made, Master, NewMaster
<1>3. TypeOK'
  BY <1>1, <1>2 DEF IInv, TypeOK, Master, RunStatus, PortStatus
<1>4. ActiveIsWhole'
  BY <1>1 DEF IInv, TypeOK, ActiveIsWhole, Active, Made, Master, RunStatus
<1>5. Made'
  BY <1>1, <1>2 DEF IInv, TypeOK, Made, Master, NewMaster
<1>. QED
  BY <1>3, <1>4, <1>5, MasterInv

\* A run is marked complete.
LEMMA MarkInv ==
    ASSUME IInv, Mark
    PROVE  IInv'
<1> USE RunsAssumption DEF Mark, MasterUnchanged
<1>1. master \in Master
  BY DEF IInv, TypeOK
<1>2. master' \in Master
  BY <1>1 DEF Master, NewMaster, Run, Active
<1>3. TypeOK'
  BY <1>1, <1>2 DEF IInv, TypeOK, Master, RunStatus, PortStatus
<1>4. ActiveIsWhole'
  BY <1>1 DEF IInv, TypeOK, ActiveIsWhole, Active, Made, Master, RunStatus
<1>5. Made'
  BY <1>1, <1>2 DEF IInv, TypeOK, Made, Master, NewMaster
<1>. QED
  BY <1>3, <1>4, <1>5, MasterInv

\* The operator wants one more run.
LEMMA NewInv ==
    ASSUME IInv, New
    PROVE  IInv'
<1> USE RunsAssumption DEF New, MasterUnchanged
<1>1. master \in Master
  BY DEF IInv, TypeOK
<1>2. master' \in Master
  BY <1>1, MasterType DEF Master, NewMaster, Active
<1>3. TypeOK'
  BY <1>1, <1>2 DEF IInv, TypeOK, Master, RunStatus, PortStatus
<1>4. ActiveIsWhole'
  BY <1>1 DEF IInv, TypeOK, ActiveIsWhole, Active, Made, Master, RunStatus
<1>5. Made'
  BY <1>1, <1>2 DEF IInv, TypeOK, Made, Master, NewMaster
<1>. QED
  BY <1>3, <1>4, <1>5, MasterInv

\* The tree is updated.
LEMMA CloneInv ==
    ASSUME IInv, Clone
    PROVE  IInv'
<1> USE RunsAssumption DEF Clone, MasterUnchanged
<1>1. master \in Master
  BY DEF IInv, TypeOK
<1>2. master' \in Master
  BY <1>1 DEF Master, NewMaster, Run, Active
<1>3. TypeOK'
  BY <1>1, <1>2 DEF IInv, TypeOK, Master, RunStatus, PortStatus
<1>4. ActiveIsWhole'
  BY <1>1 DEF IInv, TypeOK, ActiveIsWhole, Active, Made, Master, RunStatus
<1>5. Made'
  BY <1>1, <1>2 DEF IInv, TypeOK, Made, Master, NewMaster
<1>. QED
  BY <1>3, <1>4, <1>5, MasterInv

\* A run is created, inactive.
LEMMA CreateInv ==
    ASSUME IInv, Create
    PROVE  IInv'
<1> USE RunsAssumption DEF Create, MasterUnchanged
<1>1. master \in Master
  BY DEF IInv, TypeOK
<1>2. master' \in Master
  BY <1>1 DEF Master, NewMaster, Run, Active
<1>3. TypeOK'
  BY <1>1, <1>2 DEF IInv, TypeOK, Master, RunStatus, PortStatus
<1>4. ActiveIsWhole'
  BY <1>1 DEF IInv, TypeOK, ActiveIsWhole, Active, Made, Master, RunStatus
<1>5. Made'
  BY <1>1, <1>2 DEF IInv, TypeOK, Made, Master, NewMaster
<1>. QED
  BY <1>3, <1>4, <1>5, MasterInv

\* The tarball of the run is made.
LEMMA MakeTarballInv ==
    ASSUME IInv, MakeTarball
    PROVE  IInv'
<1> USE RunsAssumption DEF MakeTarball, MasterUnchanged
<1>1. master \in Master
  BY DEF IInv, TypeOK
<1>2. master' \in Master
  BY <1>1 DEF Master, NewMaster, Run, Active
<1>3. TypeOK'
  BY <1>1, <1>2 DEF IInv, TypeOK, Master, RunStatus, PortStatus
<1>4. ActiveIsWhole'
  BY <1>1 DEF IInv, TypeOK, ActiveIsWhole, Active, Made, Master, RunStatus
<1>5. Made'
  BY <1>1, <1>2 DEF IInv, TypeOK, Made, Master, NewMaster
<1>. QED
  BY <1>3, <1>4, <1>5, MasterInv

\* The ports of the run are inserted.
LEMMA SyncInv ==
    ASSUME IInv, Sync
    PROVE  IInv'
<1> USE RunsAssumption DEF Sync, MasterUnchanged
<1>1. master \in Master
  BY DEF IInv, TypeOK
<1>2. master' \in Master
  BY <1>1 DEF Master, NewMaster, Run, Active
<1>3. TypeOK'
  <2>1. PICK failed \in SUBSET Port :
                ports' = [ports EXCEPT ![master.run] =
                             [p \in Port |-> IF p \in failed THEN "fail" ELSE "untested"]]
    OBVIOUS
  <2>2. [p \in Port |-> IF p \in failed THEN "fail" ELSE "untested"] \in [Port -> PortStatus]
    BY DEF PortStatus
  <2>. QED
    BY <1>1, <1>2, <2>1, <2>2 DEF IInv, TypeOK, Master
<1>4. ActiveIsWhole'
  BY <1>1 DEF IInv, TypeOK, ActiveIsWhole, Active, Made, Master, RunStatus
<1>5. Made'
  BY <1>1, <1>2 DEF IInv, TypeOK, Made, Master, NewMaster
<1>. QED
  BY <1>3, <1>4, <1>5, MasterInv

\* The run becomes active, when everything of it is there.
LEMMA ActivateInv ==
    ASSUME IInv, Activate
    PROVE  IInv'
<1> USE RunsAssumption DEF Activate, MasterUnchanged
<1>1. master \in Master
  BY DEF IInv, TypeOK
<1>2. master' \in Master
  BY <1>1 DEF Master, NewMaster, Run, Active
<1>3. TypeOK'
  BY <1>1, <1>2 DEF IInv, TypeOK, Master, RunStatus, PortStatus
<1>4. ActiveIsWhole'
  BY <1>1 DEF IInv, TypeOK, ActiveIsWhole, Active, Made, Master, RunStatus
<1>5. Made'
  BY <1>1, <1>2 DEF IInv, TypeOK, Made, Master, NewMaster
<1>. QED
  BY <1>3, <1>4, <1>5, MasterInv

\* The master dies.
LEMMA MasterDiesInv ==
    ASSUME IInv, MasterDies
    PROVE  IInv'
<1> USE RunsAssumption DEF MasterDies, MasterUnchanged
<1>1. master \in Master
  BY DEF IInv, TypeOK
<1>2. master' \in Master
  BY <1>1, MasterType DEF Master, NewMaster, Active
<1>3. TypeOK'
  BY <1>1, <1>2 DEF IInv, TypeOK, Master, RunStatus, PortStatus
<1>4. ActiveIsWhole'
  BY <1>1 DEF IInv, TypeOK, ActiveIsWhole, Active, Made, Master, RunStatus
<1>5. Made'
  BY <1>1, <1>2 DEF IInv, TypeOK, Made, Master, NewMaster
<1>. QED
  BY <1>3, <1>4, <1>5, MasterInv

-----------------------------------------------------------------------------
(* The slaves.                                                             *)

\* A corpse goes with its lock.
LEMMA UnlockInv ==
    ASSUME IInv, NEW n \in Machine, Unlock(n)
    PROVE  IInv'
<1> USE RunsAssumption DEF Unlock, SlaveUnchanged
<1> DEFINE s == machines[n]
<1>1. s \in Supervisor /\ Local(n, s, locks)
  BY MachineFacts
<1>2. PICK c \in s.corpses : Set(n, [s EXCEPT !.corpses = @ \ {c}]) /\ locks' = locks \ {Lock(n, c)}
  OBVIOUS
<1>3. [s EXCEPT !.corpses = @ \ {c}] \in Supervisor
  BY <1>1 DEF Supervisor
<1>4. Local(n, [s EXCEPT !.corpses = @ \ {c}], locks')
  BY <1>1, <1>2 DEF Local, Lock, Supervisor, Claimed, Latest, Active, Run
<1>5. /\ UNCHANGED <<runs, tarballs, master, ports>> /\ budget' \in Nat
      /\ locks' \subseteq [run : Run, port : Port, machine : Machine]
      /\ \A m \in Machine \ {n}, d \in Claimed : Lock(m, d) \in locks => Lock(m, d) \in locks'
  BY <1>2 DEF IInv, TypeOK, Lock
<1>. QED
  BY <1>2, <1>3, <1>4, <1>5, SlaveInv DEF IInv, TypeOK

\* The supervisor goes on to fill its jobs.
LEMMA MainInv ==
    ASSUME IInv, NEW n \in Machine, Main(n)
    PROVE  IInv'
<1> USE RunsAssumption DEF Main, SlaveUnchanged
<1> DEFINE s == machines[n]
<1>1. s \in Supervisor /\ Local(n, s, locks)
  BY MachineFacts
<1>2. Set(n, [s EXCEPT !.pc = "fill"])
  OBVIOUS
<1>3. [s EXCEPT !.pc = "fill"] \in Supervisor
  BY <1>1 DEF Supervisor
<1>4. Local(n, [s EXCEPT !.pc = "fill"], locks')
  BY <1>1, <1>2 DEF Local, Lock, Supervisor, Claimed, Latest, Active, Run
<1>5. UNCHANGED <<runs, tarballs, master, ports, locks>> /\ budget' \in Nat
  BY DEF IInv, TypeOK
<1>. QED
  BY <1>2, <1>3, <1>4, <1>5, SlaveInv DEF IInv, TypeOK, Lock

\* The supervisor sleeps.
LEMMA SleepInv ==
    ASSUME IInv, NEW n \in Machine, Sleep(n)
    PROVE  IInv'
<1> USE RunsAssumption DEF Sleep, SlaveUnchanged
<1> DEFINE s == machines[n]
<1>1. s \in Supervisor /\ Local(n, s, locks)
  BY MachineFacts
<1>2. Set(n, [s EXCEPT !.pc = "main"])
  OBVIOUS
<1>3. [s EXCEPT !.pc = "main"] \in Supervisor
  BY <1>1 DEF Supervisor
<1>4. Local(n, [s EXCEPT !.pc = "main"], locks')
  BY <1>1, <1>2 DEF Local, Lock, Supervisor, Claimed, Latest, Active, Run
<1>5. UNCHANGED <<runs, tarballs, master, ports, locks>> /\ budget' \in Nat
  BY DEF IInv, TypeOK
<1>. QED
  BY <1>2, <1>3, <1>4, <1>5, SlaveInv DEF IInv, TypeOK, Lock

\* The supervisor naps.
LEMMA NoRunInv ==
    ASSUME IInv, NEW n \in Machine, NoRun(n)
    PROVE  IInv'
<1> USE RunsAssumption DEF NoRun, SlaveUnchanged
<1> DEFINE s == machines[n]
<1>1. s \in Supervisor /\ Local(n, s, locks)
  BY MachineFacts
<1>2. Set(n, [s EXCEPT !.pc = "main"])
  OBVIOUS
<1>3. [s EXCEPT !.pc = "main"] \in Supervisor
  BY <1>1 DEF Supervisor
<1>4. Local(n, [s EXCEPT !.pc = "main"], locks')
  BY <1>1, <1>2 DEF Local, Lock, Supervisor, Claimed, Latest, Active, Run
<1>5. UNCHANGED <<runs, tarballs, master, ports, locks>> /\ budget' \in Nat
  BY DEF IInv, TypeOK
<1>. QED
  BY <1>2, <1>3, <1>4, <1>5, SlaveInv DEF IInv, TypeOK, Lock

\* The tree is that of the latest run.
LEMMA SameRunInv ==
    ASSUME IInv, NEW n \in Machine, SameRun(n)
    PROVE  IInv'
<1> USE RunsAssumption DEF SameRun, SlaveUnchanged
<1> DEFINE s == machines[n]
<1>1. s \in Supervisor /\ Local(n, s, locks)
  BY MachineFacts
<1>2. Set(n, [s EXCEPT !.pc = "claim"])
  OBVIOUS
<1>3. [s EXCEPT !.pc = "claim"] \in Supervisor
  BY <1>1 DEF Supervisor
<1>4. Local(n, [s EXCEPT !.pc = "claim"], locks')
  BY <1>1, <1>2 DEF Local, Lock, Supervisor, Claimed, Latest, Active, Run
<1>5. UNCHANGED <<runs, tarballs, master, ports, locks>> /\ budget' \in Nat
  BY DEF IInv, TypeOK
<1>. QED
  BY <1>2, <1>3, <1>4, <1>5, SlaveInv DEF IInv, TypeOK, Lock

\* There is another run.
LEMMA OtherRunInv ==
    ASSUME IInv, NEW n \in Machine, OtherRun(n)
    PROVE  IInv'
<1> USE RunsAssumption DEF OtherRun, SlaveUnchanged
<1> DEFINE s == machines[n]
<1>1. s \in Supervisor /\ Local(n, s, locks)
  BY MachineFacts
<1>2. PICK r \in Run : Set(n, [s EXCEPT !.pc = "default", !.next = r])
  OBVIOUS
<1>3. [s EXCEPT !.pc = "default", !.next = r] \in Supervisor
  BY <1>1 DEF Supervisor
<1>4. Local(n, [s EXCEPT !.pc = "default", !.next = r], locks')
  BY <1>1, <1>2 DEF Local, Lock, Supervisor, Claimed, Latest, Active, Run
<1>5. UNCHANGED <<runs, tarballs, master, ports, locks>> /\ budget' \in Nat
  BY DEF IInv, TypeOK
<1>. QED
  BY <1>2, <1>3, <1>4, <1>5, SlaveInv DEF IInv, TypeOK, Lock

\* Some worker is still at the old run.
LEMMA NotYetInv ==
    ASSUME IInv, NEW n \in Machine, NotYet(n)
    PROVE  IInv'
<1> USE RunsAssumption DEF NotYet, SlaveUnchanged
<1> DEFINE s == machines[n]
<1>1. s \in Supervisor /\ Local(n, s, locks)
  BY MachineFacts
<1>2. Set(n, [s EXCEPT !.pc = "main", !.next = 0])
  OBVIOUS
<1>3. [s EXCEPT !.pc = "main", !.next = 0] \in Supervisor
  BY <1>1 DEF Supervisor
<1>4. Local(n, [s EXCEPT !.pc = "main", !.next = 0], locks')
  BY <1>1, <1>2 DEF Local, Lock, Supervisor, Claimed, Latest, Active, Run
<1>5. UNCHANGED <<runs, tarballs, master, ports, locks>> /\ budget' \in Nat
  BY DEF IInv, TypeOK
<1>. QED
  BY <1>2, <1>3, <1>4, <1>5, SlaveInv DEF IInv, TypeOK, Lock

\* The machine moves to another run, without workers.
LEMMA MoveInv ==
    ASSUME IInv, NEW n \in Machine, Move(n)
    PROVE  IInv'
<1> USE RunsAssumption DEF Move, SlaveUnchanged
<1> DEFINE s == machines[n]
<1>1. s \in Supervisor /\ Local(n, s, locks)
  BY MachineFacts
<1>2. Set(n, [s EXCEPT !.pc = "fetch", !.run = s.next, !.next = 0])
  OBVIOUS
<1>3. [s EXCEPT !.pc = "fetch", !.run = s.next, !.next = 0] \in Supervisor
  BY <1>1 DEF Supervisor
<1>4. Local(n, [s EXCEPT !.pc = "fetch", !.run = s.next, !.next = 0], locks')
  BY <1>1, <1>2 DEF Local, Lock, Supervisor, Claimed, Latest, Active, Run
<1>5. UNCHANGED <<runs, tarballs, master, ports, locks>> /\ budget' \in Nat
  BY DEF IInv, TypeOK
<1>. QED
  BY <1>2, <1>3, <1>4, <1>5, SlaveInv DEF IInv, TypeOK, Lock

\* The old tree goes.
LEMMA FetchInv ==
    ASSUME IInv, NEW n \in Machine, Fetch(n)
    PROVE  IInv'
<1> USE RunsAssumption DEF Fetch, SlaveUnchanged
<1> DEFINE s == machines[n]
<1>1. s \in Supervisor /\ Local(n, s, locks)
  BY MachineFacts
<1>2. Set(n, [s EXCEPT !.pc = "extract", !.tree = 0])
  OBVIOUS
<1>3. [s EXCEPT !.pc = "extract", !.tree = 0] \in Supervisor
  BY <1>1 DEF Supervisor
<1>4. Local(n, [s EXCEPT !.pc = "extract", !.tree = 0], locks')
  BY <1>1, <1>2 DEF Local, Lock, Supervisor, Claimed, Latest, Active, Run
<1>5. UNCHANGED <<runs, tarballs, master, ports, locks>> /\ budget' \in Nat
  BY DEF IInv, TypeOK
<1>. QED
  BY <1>2, <1>3, <1>4, <1>5, SlaveInv DEF IInv, TypeOK, Lock

\* The new tree comes.
LEMMA ExtractInv ==
    ASSUME IInv, NEW n \in Machine, Extract(n)
    PROVE  IInv'
<1> USE RunsAssumption DEF Extract, SlaveUnchanged
<1> DEFINE s == machines[n]
<1>1. s \in Supervisor /\ Local(n, s, locks)
  BY MachineFacts
<1>2. Set(n, [s EXCEPT !.pc = "extracting", !.tree = s.run])
  OBVIOUS
<1>3. [s EXCEPT !.pc = "extracting", !.tree = s.run] \in Supervisor
  BY <1>1 DEF Supervisor
<1>4. Local(n, [s EXCEPT !.pc = "extracting", !.tree = s.run], locks')
  BY <1>1, <1>2 DEF Local, Lock, Supervisor, Claimed, Latest, Active, Run
<1>5. UNCHANGED <<runs, tarballs, master, ports, locks>> /\ budget' \in Nat
  BY DEF IInv, TypeOK
<1>. QED
  BY <1>2, <1>3, <1>4, <1>5, SlaveInv DEF IInv, TypeOK, Lock

\* The new tree is there.
LEMMA ExtractedInv ==
    ASSUME IInv, NEW n \in Machine, Extracted(n)
    PROVE  IInv'
<1> USE RunsAssumption DEF Extracted, SlaveUnchanged
<1> DEFINE s == machines[n]
<1>1. s \in Supervisor /\ Local(n, s, locks)
  BY MachineFacts
<1>2. Set(n, [s EXCEPT !.pc = "exec"])
  OBVIOUS
<1>3. [s EXCEPT !.pc = "exec"] \in Supervisor
  BY <1>1 DEF Supervisor
<1>4. Local(n, [s EXCEPT !.pc = "exec"], locks')
  BY <1>1, <1>2 DEF Local, Lock, Supervisor, Claimed, Latest, Active, Run
<1>5. UNCHANGED <<runs, tarballs, master, ports, locks>> /\ budget' \in Nat
  BY DEF IInv, TypeOK
<1>. QED
  BY <1>2, <1>3, <1>4, <1>5, SlaveInv DEF IInv, TypeOK, Lock

\* The supervisor begins anew.
LEMMA ExecInv ==
    ASSUME IInv, NEW n \in Machine, Exec(n)
    PROVE  IInv'
<1> USE RunsAssumption DEF Exec, SlaveUnchanged
<1> DEFINE s == machines[n]
<1>1. s \in Supervisor /\ Local(n, s, locks)
  BY MachineFacts
<1>2. Set(n, [s EXCEPT !.pc = "main", !.corpses = {}])
  OBVIOUS
<1>3. [s EXCEPT !.pc = "main", !.corpses = {}] \in Supervisor
  BY <1>1 DEF Supervisor
<1>4. Local(n, [s EXCEPT !.pc = "main", !.corpses = {}], locks')
  BY <1>1, <1>2 DEF Local, Lock, Supervisor, Claimed, Latest, Active, Run
<1>5. UNCHANGED <<runs, tarballs, master, ports, locks>> /\ budget' \in Nat
  BY DEF IInv, TypeOK
<1>. QED
  BY <1>2, <1>3, <1>4, <1>5, SlaveInv DEF IInv, TypeOK, Lock

\* A machine restarts.
LEMMA RestartInv ==
    ASSUME IInv, NEW n \in Machine, Restart(n)
    PROVE  IInv'
<1> USE RunsAssumption DEF Restart, SlaveUnchanged
<1> DEFINE s == machines[n]
<1>1. s \in Supervisor /\ Local(n, s, locks)
  BY MachineFacts
<1>2. Set(n, [NewSupervisor EXCEPT !.run = s.run, !.tree = s.tree])
  OBVIOUS
<1>3. [NewSupervisor EXCEPT !.run = s.run, !.tree = s.tree] \in Supervisor
  BY <1>1 DEF Supervisor, NewSupervisor
<1>4. Local(n, [NewSupervisor EXCEPT !.run = s.run, !.tree = s.tree], locks')
  BY <1>1, <1>2 DEF Local, Lock, NewSupervisor, Supervisor, Claimed, Latest, Active, Run
<1>5. UNCHANGED <<runs, tarballs, master, ports, locks>> /\ budget' \in Nat
  BY DEF IInv, TypeOK
<1>. QED
  BY <1>2, <1>3, <1>4, <1>5, SlaveInv DEF IInv, TypeOK, Lock

\* A port is locked that nobody has locked, or the supervisor naps.
LEMMA ClaimInv ==
    ASSUME IInv, NEW n \in Machine, Claim(n)
    PROVE  IInv'
<1> USE RunsAssumption DEF SlaveUnchanged
<1> DEFINE s == machines[n]
<1>1. s \in Supervisor /\ Local(n, s, locks) /\ s.run \in Run /\ s.tree = s.run
  BY MachineFacts DEF Claim, Local, Supervisor
<1>2. UNCHANGED <<runs, tarballs, master, ports>> /\ budget' \in Nat
  BY DEF Claim, IInv, TypeOK
<1>3. ASSUME NEW p \in Ready(s.run),
             locks' = locks \cup {Lock(n, [run |-> s.run, port |-> p])},
             Set(n, [s EXCEPT !.pc = "fill", !.children = @ \cup {[run |-> s.run, port |-> p]}])
      PROVE  IInv'
  <2> DEFINE c == [run |-> s.run, port |-> p]
             t == [s EXCEPT !.pc = "fill", !.children = @ \cup {c}]
  <2>1. p \in Port /\ c \in Claimed /\ Lock(n, c) \notin locks
    BY <1>1 DEF Ready, Claimed, Lock
  <2>2. t \in Supervisor
    BY <1>1, <2>1 DEF Supervisor
  <2>3. locks' \subseteq [run : Run, port : Port, machine : Machine]
    BY <1>1, <1>3, <2>1 DEF IInv, TypeOK, Lock
  <2>4. Local(n, t, locks')
    BY <1>1, <1>3, <2>1 DEF Local, Supervisor
  <2>. QED
    BY <1>2, <1>3, <2>2, <2>3, <2>4, SlaveInv DEF IInv, TypeOK
<1>4. ASSUME UNCHANGED locks, Set(n, [s EXCEPT !.pc = "main"])
      PROVE  IInv'
  <2>1. [s EXCEPT !.pc = "main"] \in Supervisor
    BY <1>1 DEF Supervisor
  <2>2. Local(n, [s EXCEPT !.pc = "main"], locks')
    BY <1>1, <1>4 DEF Local, Supervisor
  <2>. QED
    BY <1>2, <1>4, <2>1, <2>2, SlaveInv DEF IInv, TypeOK, Lock
<1>. QED
  BY <1>3, <1>4 DEF Claim

\* A result is stored.
LEMMA StoreKeeps ==
    ASSUME IInv, NEW n \in Machine, NEW c \in machines[n].children, Store(c)
    PROVE  /\ c \in Claimed
           /\ ports' \in [Run -> [Port -> PortStatus]]
           /\ \A r \in Run, p \in Port : ports[r][p] # "none" => ports'[r][p] # "none"
<1>1. c \in Claimed /\ c.run \in Run /\ c.port \in Port
  BY MachineFacts DEF Supervisor, Claimed
<1>2. PICK result \in {"pass", "fail"} : ports' = [ports EXCEPT ![c.run][c.port] = result]
  BY DEF Store
<1>. QED
  BY <1>1, <1>2 DEF IInv, TypeOK, PortStatus

\* A worker and the zombies become corpses.
LEMMA EndInv ==
    ASSUME IInv, NEW n \in Machine, End(n)
    PROVE  IInv'
<1> DEFINE s == machines[n]
           t(c) == [s EXCEPT !.children = @ \ ({c} \cup s.zombies), !.zombies = {},
                             !.corpses = @ \cup {c} \cup s.zombies]
<1>1. s \in Supervisor /\ Local(n, s, locks)
  BY MachineFacts
<1>2. PICK c \in s.children \ s.zombies : Store(c) /\ Set(n, t(c))
  BY DEF End
<1>3. /\ c \in Claimed
      /\ ports' \in [Run -> [Port -> PortStatus]]
      /\ \A r \in Run, p \in Port : ports[r][p] # "none" => ports'[r][p] # "none"
  BY <1>2, StoreKeeps
<1>4. t(c) \in Supervisor
  BY <1>1, <1>3 DEF Supervisor
<1>5. UNCHANGED <<runs, tarballs, master, locks>> /\ budget' \in Nat
  BY DEF End, SlaveUnchanged, IInv, TypeOK
<1>6. Local(n, t(c), locks')
  BY <1>1, <1>2, <1>5 DEF Local, Supervisor
<1>. QED
  BY <1>2, <1>3, <1>4, <1>5, <1>6, SlaveInv DEF IInv, TypeOK, Lock

\* A worker becomes a zombie.
LEMMA EndUnseenInv ==
    ASSUME IInv, NEW n \in Machine, EndUnseen(n)
    PROVE  IInv'
<1> DEFINE s == machines[n]
           t(c) == [s EXCEPT !.zombies = @ \cup {c}]
<1>1. s \in Supervisor /\ Local(n, s, locks)
  BY MachineFacts
<1>2. PICK c \in s.children \ s.zombies : Store(c) /\ Set(n, t(c))
  BY DEF EndUnseen
<1>3. /\ c \in Claimed
      /\ ports' \in [Run -> [Port -> PortStatus]]
      /\ \A r \in Run, p \in Port : ports[r][p] # "none" => ports'[r][p] # "none"
  BY <1>2, StoreKeeps
<1>4. t(c) \in Supervisor
  BY <1>1, <1>3 DEF Supervisor
<1>5. UNCHANGED <<runs, tarballs, master, locks>> /\ budget' \in Nat
  BY DEF EndUnseen, IInv, TypeOK
<1>6. Local(n, t(c), locks')
  BY <1>1, <1>2, <1>5 DEF Local, Supervisor
<1>. QED
  BY <1>2, <1>3, <1>4, <1>5, <1>6, SlaveInv DEF IInv, TypeOK, Lock

-----------------------------------------------------------------------------

\* Before the first run there is nothing.
LEMMA InitInv == Init => IInv
<1> USE RunsAssumption DEF Init, NewMaster, NewSupervisor
<1>1. Init => TypeOK
  <2>1. 1 \in Run /\ 0 \in Run \cup {0}
    BY DEF Run
  <2>2. Init => master \in Master
    BY <2>1 DEF Master
  <2>3. Init => machines \in [Machine -> Supervisor]
    BY <2>1 DEF Supervisor
  <2>. QED
    BY <2>2, <2>3 DEF TypeOK, RunStatus, PortStatus
<1>2. Init => TreeMatches /\ Buried /\ Settled
  BY DEF TreeMatches, Buried, Settled
<1>3. Init => ActiveIsWhole /\ Made
  BY DEF ActiveIsWhole, Active, Made
<1>. QED
  BY <1>1, <1>2, <1>3 DEF IInv

\* A step that changes nothing of MagusRuns.
LEMMA StutterInv ==
    ASSUME IInv, UNCHANGED vars
    PROVE  IInv'
<1> USE DEF vars
<1>1. TypeOK'
  BY DEF IInv, TypeOK
<1>2. ActiveIsWhole' /\ Made'
  BY DEF IInv, ActiveIsWhole, Active, Made
<1>. QED
  BY <1>1, <1>2, MasterInv

\* One lemma for each action of Next.
LEMMA NextInv == IInv /\ [Next]_vars => IInv'
<1> SUFFICES ASSUME IInv, [Next]_vars
             PROVE  IInv'
  OBVIOUS
<1>1. CASE Refresh \/ MasterStep \/ New \/ MasterDies
  BY <1>1, RefreshInv, LookLocksInv, LookReadyInv, LookedAtAllInv, MarkInv, CloneInv, CreateInv,
     MakeTarballInv, SyncInv, ActivateInv, NewInv, MasterDiesInv
     DEF MasterStep
<1>2. ASSUME NEW m \in Machine, SlaveStep(m) \/ End(m) \/ EndUnseen(m) \/ Restart(m)
      PROVE  IInv'
  BY <1>2, UnlockInv, MainInv, SleepInv, NoRunInv, SameRunInv, OtherRunInv, NotYetInv, MoveInv,
     FetchInv, ExtractInv, ExtractedInv, ExecInv, ClaimInv, EndInv, EndUnseenInv, RestartInv
     DEF SlaveStep
<1>3. CASE UNCHANGED vars
  BY <1>3, StutterInv
<1>. QED
  BY <1>1, <1>2, <1>3 DEF Next

\* The inductive invariant of runs and machines.
THEOREM Runs == Spec => []IInv
  BY InitInv, NextInv, PTL DEF Spec

\* A worker builds from the tree of the run of its port, and its lock is there.
THEOREM TreesMatch == Spec => []TreeMatches
<1>1. IInv => TreeMatches
  BY DEF IInv
<1>. QED
  BY <1>1, Runs, PTL

\* An active run has its tarball and all its ports.
THEOREM ActiveRunsAreWhole == Spec => []ActiveIsWhole
<1>1. IInv => ActiveIsWhole
  BY DEF IInv
<1>. QED
  BY <1>1, Runs, PTL

=============================================================================
