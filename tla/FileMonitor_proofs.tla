-------------------------- MODULE FileMonitor_proofs --------------------------
(***************************************************************************)
(* What holds of the file monitor for every number of entries, names,      *)
(* directories and messages in the pipe, every rate limit and every set of *)
(* faults: a cancelled entry hears of one event at most, a change that is  *)
(* held back has a timer, and, as long as the watched directory is not     *)
(* renamed and the pipe never full, nothing that has been freed is used.   *)
(* Where the pipe is never full, entries of a path share one object, and   *)
(* an object for which nothing is pending knows what is in the directory.  *)
(* What is told of a rescan names every new file, and is right when one    *)
(* change lies between the two readings.                                   *)
(***************************************************************************)
EXTENDS FileMonitor, FiniteSetTheorems, SequenceTheorems, WellFoundedInduction, TLAPS

-----------------------------------------------------------------------------
(* Sequences of events.                                                    *)

Sequence(s) == \E U : s \in Seq(U)

LEMMA CountType ==
    ASSUME NEW s, Sequence(s)
    PROVE  Count(s) \in Nat
<1> DEFINE T == {i \in DOMAIN s : s[i].kind # "none"}
<1>1. PICK U : s \in Seq(U)
  BY DEF Sequence
<1>2. IsFiniteSet(1 .. Len(s))
  BY <1>1, FS_Interval
<1>3. T \in SUBSET (1 .. Len(s))
  BY <1>1
<1>4. IsFiniteSet(T)
  BY <1>2, <1>3, FS_Subset
<1>5. Cardinality(T) \in Nat
  <2> HIDE DEF T
  <2> QED
    BY <1>4, FS_CardinalityType
<1> QED
  BY <1>5 DEF Count

\* A function on an initial segment of the numbers is a sequence.
LEMMA TupleSequence ==
    ASSUME NEW n \in Nat, NEW f, f = [i \in 1 .. n |-> f[i]]
    PROVE  Sequence(f)
<1>1. f \in Seq({f[i] : i \in 1 .. n})
  OBVIOUS
<1> QED
  BY <1>1 DEF Sequence

LEMMA ConcatSequence ==
    ASSUME NEW s, NEW t, Sequence(s), Sequence(t)
    PROVE  Sequence(s \o t)
<1>1. PICK U : s \in Seq(U)
  BY DEF Sequence
<1>2. PICK V : t \in Seq(V)
  BY DEF Sequence
<1>3. s \in Seq(U \cup V) /\ t \in Seq(U \cup V)
  BY <1>1, <1>2
<1> QED
  BY <1>3 DEF Sequence

LEMMA FewEvents ==
    ASSUME NEW e
    PROVE  Sequence(<<>>) /\ Sequence(<<e>>)
<1>1. <<>> \in Seq({e}) /\ <<e>> \in Seq({e})
  OBVIOUS
<1> QED
  BY <1>1 DEF Sequence

LEMMA LostSequence ==
    ASSUME NEW old
    PROVE  Sequence(Lost(old)) /\ Sequence(Removed(old))
<1> DEFINE U == {Lost(old)[i] : i \in DOMAIN Order} \cup {NewEvent("deleted", Self, Self)}
<1>1. Lost(old) \in Seq(U)
  BY OrderAssumption DEF Lost
<1>2. Removed(old) \in Seq(U)
  BY <1>1 DEF Removed
<1> QED
  BY <1>1, <1>2 DEF Sequence

LEMMA ChangesSequence ==
    ASSUME NEW old, NEW new
    PROVE  Sequence(Changes(old, new))
<1> DEFINE T == [i \in DOMAIN Order |-> Told(old, new, Order[i])]
           D == Deleted(old, new)
<1>1. Len(Order) \in Nat /\ DOMAIN Order = 1 .. Len(Order)
  BY OrderAssumption
<1>2. D = [i \in 1 .. Len(Order) |-> D[i]]
  BY <1>1, Zenon DEF Deleted
<1>3. T = [i \in 1 .. Len(Order) |-> T[i]]
  BY <1>1, Zenon
<1>4. Sequence(D) /\ Sequence(T)
  <2> HIDE DEF D, T
  <2> QED
    BY <1>1, <1>2, <1>3, TupleSequence
<1> QED
  BY <1>4, ConcatSequence DEF Changes

LEMMA EventSequences ==
    ASSUME NEW o
    PROVE  Sequence(ReportedEvents(o)) /\ Sequence(RescannedEvents(o))
<1>1. Sequence(ReportedEvents(o))
  BY FewEvents, LostSequence DEF ReportedEvents
<1> QED
  BY <1>1, FewEvents, ChangesSequence DEF RescannedEvents

-----------------------------------------------------------------------------
(* What the operations on an object keep.                                  *)

\* The timer of an object: what is counted waits for it, and at the longest interval it
\* is periodic.
Timed(o) ==
    /\ o.counted => o.interval # 0
    /\ o.interval # 0 => o.timer # "off" \/ o.tick
    /\ o.interval = RateMax => o.timer = "periodic"

\* The object is the same, and has no new notes.
Same(o, new) ==
    /\ new.live = o.live /\ new.cached = o.cached /\ new.path = o.path
    /\ new.pend \subseteq o.pend

LEMMA StoppedType ==
    ASSUME NEW o \in Object
    PROVE  /\ Stopped(o) \in Object /\ Cleaned(o) \in Object
           /\ Same(o, Stopped(o)) /\ Same(o, Cleaned(o))
           /\ Timed(Stopped(o)) /\ Timed(Cleaned(o))
<1>1. 0 \in Interval /\ RateMax # 0 /\ Nothing \in Listing
  BY MonitorAssumption DEF Interval, Nothing, Listing
<1>2. Stopped(o) \in Object /\ Same(o, Stopped(o)) /\ Timed(Stopped(o))
  BY <1>1 DEF Object, Stopped, Same, Timed
<1>3. /\ Cleaned(o) \in Object
      /\ Cleaned(o).counted = FALSE /\ Cleaned(o).interval = 0
  BY <1>1, <1>2 DEF Object, Stopped, Cleaned
<1>4. Same(o, Cleaned(o))
  BY <1>2 DEF Object, Cleaned, Same
<1> QED
  BY <1>1, <1>2, <1>3, <1>4 DEF Timed

LEMMA RootType ==
    ASSUME TypeOK, NEW p
    PROVE  Root(p) \in Dir \cup {0}
  BY DEF TypeOK, Root, Place

LEMMA ReopenedType ==
    ASSUME TypeOK, NEW o \in Object
    PROVE  /\ Reopened(o) \in Object /\ Same(o, Reopened(o)) /\ Timed(Reopened(o))
           /\ Reopened(o).fd = Root(o.path)
<1> DEFINE closed == [Stopped(o) EXCEPT !.fd = 0, !.pend = {}]
<1>1. closed \in Object /\ closed.fd = 0 /\ Same(o, closed) /\ Timed(closed)
  <2> DEFINE st == Stopped(o)
  <2>1. st \in Object /\ Same(o, st) /\ Timed(st)
    BY StoppedType
  <2>2. closed = [st EXCEPT !.fd = 0, !.pend = {}]
    OBVIOUS
  <2> HIDE DEF st, closed
  <2>3. closed \in Object /\ closed.fd = 0 /\ closed.pend = {}
    BY <2>1, <2>2 DEF Object
  <2> QED
    BY <2>1, <2>2, <2>3 DEF Object, Same, Timed
<1>2. CASE Root(o.path) = 0
  BY <1>1, <1>2 DEF Reopened
<1>3. CASE Root(o.path) # 0
  <2>1. Reopened(o) = [closed EXCEPT !.fd = Root(o.path), !.removed = FALSE]
    BY <1>3 DEF Reopened
  <2>2. Root(o.path) \in Dir
    BY <1>3, RootType
  <2> HIDE DEF closed
  <2>3. QED
    BY <1>1, <2>1, <2>2 DEF Object, Same, Timed
<1> QED
  BY <1>2, <1>3

LEMMA WatchingType ==
    ASSUME TypeOK, NEW o \in Object
    PROVE  Watching(o) \in Object /\ Same(o, Watching(o)) /\ Timed(Watching(o))
<1> DEFINE r == Reopened(o)
<1>1. r \in Object /\ Same(o, r) /\ Timed(r)
  BY ReopenedType
<1>2. CASE r.fd = 0
  BY <1>1, <1>2, StoppedType DEF Watching, Same
<1>3. CASE r.fd # 0
  <2>1. list[r.fd] \in Listing
    BY <1>1, <1>3 DEF TypeOK, Object
  <2> QED
    BY <1>1, <1>3, <2>1 DEF Watching, Object, Same, Timed
<1> QED
  BY <1>2, <1>3

LEMMA ScheduledType ==
    ASSUME NEW o \in Object
    PROVE  /\ Scheduled(o) \in Object /\ Same(o, Scheduled(o))
           /\ o.interval = 0 \/ o.timer = "periodic" \/ o.interval # RateMax
                => Timed(Scheduled(o)) /\ Scheduled(o).interval # 0
           /\ Unscheduled(o) \in Object /\ Same(o, Unscheduled(o))
           /\ (o.interval # RateMax \/ o.timer = "periodic") /\ ~ o.counted
                => Timed(Unscheduled(o))
<1>1. /\ o.interval \in Nat /\ o.interval <= RateMax /\ RateMul \in Nat /\ RateMul # 0
      /\ RateInit \in Nat /\ RateInit # 0 /\ RateMax \in Nat /\ RateMax # 0
  BY MonitorAssumption DEF Object, Interval
<1> DEFINE next == IF o.interval = 0 THEN RateInit ELSE o.interval * RateMul
<1>2. next \in Nat /\ next # 0
  BY <1>1
<1>3. /\ Unscheduled(o) \in Object /\ Same(o, Unscheduled(o))
      /\ (o.interval # RateMax \/ o.timer = "periodic") /\ ~ o.counted => Timed(Unscheduled(o))
  BY <1>1 DEF Unscheduled, Object, Same, Timed, Interval
<1>4. CASE o.interval = RateMax
  BY <1>1, <1>3, <1>4 DEF Scheduled, Same, Timed
<1>5. CASE o.interval # RateMax /\ next < RateMax
  <2>1. Scheduled(o) = [o EXCEPT !.interval = next, !.timer = "oneshot"]
    BY <1>5 DEF Scheduled
  <2>2. next \in Interval /\ next # RateMax
    BY <1>1, <1>2, <1>5 DEF Interval
  <2> HIDE DEF next
  <2> QED
    BY <1>2, <1>3, <2>1, <2>2 DEF Object, Same, Timed
<1>6. CASE o.interval # RateMax /\ ~ (next < RateMax)
  <2>1. Scheduled(o) = [o EXCEPT !.interval = RateMax, !.timer = "periodic"]
    BY <1>6 DEF Scheduled
  <2>2. RateMax \in Interval
    BY <1>1 DEF Interval
  <2> QED
    BY <1>1, <1>3, <2>1, <2>2 DEF Object, Same, Timed
<1> QED
  BY <1>4, <1>5, <1>6

LEMMA ReportedType ==
    ASSUME NEW o \in Object
    PROVE  /\ Reported(o) \in Object /\ Same(o, Reported(o))
           /\ Timed(o) => Timed(Reported(o))
  BY StoppedType DEF Reported, Same

LEMMA RescannedType ==
    ASSUME TypeOK, NEW o \in Object
    PROVE  /\ Rescanned(o) \in Object /\ Same(o, Rescanned(o))
           /\ Timed(o) => Timed(Rescanned(o))
<1>1. CASE o.fd = 0 \/ ~ Alive(o.fd)
  BY <1>1, ReportedType DEF Rescanned, Same
<1>2. CASE o.fd # 0 /\ Alive(o.fd)
  <2>1. list[o.fd] \in Listing
    BY <1>2 DEF TypeOK, Object
  <2> QED
    BY <1>2, <2>1 DEF Rescanned, Object, Same, Timed
<1> QED
  BY <1>1, <1>2

-----------------------------------------------------------------------------
(* Every kevent of an object gives a new object and events to tell.        *)

Keeps(o, new) ==
    /\ new.live = o.live /\ new.cached = o.cached
    /\ new.path = o.path \/ "rename" \in o.pend
    /\ new.pend \subseteq o.pend
    /\ Timed(o) => Timed(new)

Steps(o) ==
    \E new, events : /\ new \in Object /\ Sequence(events) /\ Keeps(obj[o], new)
                     /\ Waiting(o) /\ Handled(o, new, events) /\ HandleUnchanged

LEMMA StepsWitness ==
    ASSUME NEW o, NEW new \in Object, NEW events, Sequence(events), Keeps(obj[o], new),
           Waiting(o), Handled(o, new, events), HandleUnchanged
    PROVE  Steps(o)
  BY Zenon DEF Steps

LEMMA LimitedSteps ==
    ASSUME NEW o \in Entry, NEW new \in Object, NEW events, Sequence(events),
           Keeps(obj[o], new), new.interval = obj[o].interval,
           Waiting(o), HandleUnchanged, Limited(obj[o], o, new, events)
    PROVE  Steps(o)
<1>1. CASE obj[o].interval # 0 /\ Handled(o, [new EXCEPT !.counted = TRUE], events)
  <2> DEFINE n == [new EXCEPT !.counted = TRUE]
  <2>1. n \in Object /\ Keeps(obj[o], n)
    BY <1>1 DEF Object, Keeps, Timed
  <2> QED
    BY <1>1, <2>1, StepsWitness
<1>2. CASE obj[o].interval = 0 /\ Handled(o, [Scheduled(new) EXCEPT !.counted = TRUE], events)
  <2> DEFINE sched == Scheduled(new)
             n == [sched EXCEPT !.counted = TRUE]
  <2>1. sched \in Object /\ Same(new, sched) /\ Timed(sched) /\ sched.interval # 0
    BY <1>2, ScheduledType
  <2>2. n \in Object /\ Keeps(obj[o], n)
    <3> HIDE DEF sched
    <3> QED
      BY <2>1 DEF Object, Keeps, Same, Timed
  <2> QED
    BY <1>2, <2>2, StepsWitness
<1> QED
  BY <1>1, <1>2 DEF Limited

LEMMA WrittenSteps ==
    ASSUME TypeOK, NEW o \in Entry, NEW new \in Object, NEW events, Sequence(events),
           Keeps(obj[o], new), new.interval = obj[o].interval,
           Waiting(o), HandleUnchanged, Written(obj[o], o, new, events)
    PROVE  Steps(o)
<1>1. CASE Limited(obj[o], o, new, events)
  BY <1>1, LimitedSteps
<1>2. CASE Handled(o, Rescanned(new), events \o RescannedEvents(new))
  <2>1. Rescanned(new) \in Object /\ Keeps(obj[o], Rescanned(new))
    BY RescannedType DEF Keeps, Same
  <2>2. Sequence(events \o RescannedEvents(new))
    BY EventSequences, ConcatSequence
  <2> QED
    BY <1>2, <2>1, <2>2, StepsWitness
<1> QED
  BY <1>1, <1>2 DEF Written

LEMMA DirectorySteps ==
    ASSUME TypeOK, NEW o \in Entry, OnDirectory(o)
    PROVE  Steps(o)
<1>0. obj[o] \in Object
  BY DEF TypeOK
<1>1. CASE OnDelete(o)
  <2> DEFINE r == Reopened(obj[o])
  <2>1. r \in Object /\ Same(obj[o], r) /\ Timed(r)
    BY <1>0, ReopenedType
  <2>2. Waiting(o) /\ HandleUnchanged
    BY <1>1 DEF OnDelete
  <2>3. CASE r.fd # 0
    <3>1. Handled(o, Rescanned(r), RescannedEvents(r))
      BY <1>1, <2>3 DEF OnDelete
    <3>2. Rescanned(r) \in Object /\ Keeps(obj[o], Rescanned(r))
      BY <2>1, RescannedType DEF Keeps, Same
    <3> QED
      BY <2>2, <3>1, <3>2, EventSequences, StepsWitness
  <2>4. CASE r.fd = 0
    <3>1. Handled(o, Reported(r), ReportedEvents(r))
      BY <1>1, <2>4 DEF OnDelete
    <3>2. Reported(r) \in Object /\ Keeps(obj[o], Reported(r))
      BY <2>1, ReportedType DEF Keeps, Same
    <3> QED
      BY <2>2, <3>1, <3>2, EventSequences, StepsWitness
  <2> QED
    BY <2>3, <2>4
<1>2. CASE OnWrite(o)
  <2> DEFINE new == [obj[o] EXCEPT !.pend = {}]
  <2>1. new \in Object /\ Keeps(obj[o], new) /\ new.interval = obj[o].interval
    BY <1>0 DEF Object, Keeps, Timed
  <2>2. Waiting(o) /\ HandleUnchanged /\ Written(obj[o], o, new, <<>>)
    BY <1>2 DEF OnWrite
  <2> QED
    BY <2>1, <2>2, FewEvents, WrittenSteps
<1>3. CASE OnRename(o)
  <2> DEFINE told == <<NewEvent("renamed", Self, Self)>>
  <2>1. PICK place \in {"here", "away"} :
          LET new == [obj[o] EXCEPT !.pend = {}, !.path = place] IN
          IF "write" \in obj[o].pend THEN Written(obj[o], o, new, told) ELSE Handled(o, new, told)
    BY <1>3 DEF OnRename
  <2> DEFINE new == [obj[o] EXCEPT !.pend = {}, !.path = place]
  <2>2. new \in Object /\ Keeps(obj[o], new) /\ new.interval = obj[o].interval
    BY <1>0, <1>3 DEF Object, Keeps, Timed, OnRename
  <2>3. Waiting(o) /\ HandleUnchanged
    BY <1>3 DEF OnRename
  <2>4. Sequence(told)
    BY FewEvents
  <2>5. Written(obj[o], o, new, told) \/ Handled(o, new, told)
    BY <2>1
  <2> HIDE DEF new, told
  <2> QED
    BY <2>2, <2>3, <2>4, <2>5, WrittenSteps, StepsWitness
<1>4. CASE OnRenameAway(o)
  <2> DEFINE new == [obj[o] EXCEPT !.pend = {}, !.path = "broken"]
             told == IF new.removed THEN <<>> ELSE Lost(new.files)
  <2>1. new \in Object /\ Keeps(obj[o], new)
    BY <1>0, <1>4 DEF Object, Keeps, Timed, OnRenameAway
  <2>2. Waiting(o) /\ HandleUnchanged /\ Handled(o, Reported(new), told)
    BY <1>4 DEF OnRenameAway
  <2>3. Sequence(told)
    BY FewEvents, LostSequence
  <2>4. Reported(new) \in Object /\ Keeps(obj[o], Reported(new))
    BY <2>1, ReportedType DEF Keeps, Same
  <2> QED
    BY <2>2, <2>3, <2>4, StepsWitness
<1> QED
  BY <1>1, <1>2, <1>3, <1>4 DEF OnDirectory

LEMMA SubSteps ==
    ASSUME TypeOK, NEW o \in Entry, OnSub(o)
    PROVE  Steps(o)
<1> DEFINE new == [obj[o] EXCEPT !.sub = FALSE]
<1>1. new \in Object /\ Keeps(obj[o], new) /\ new.interval = obj[o].interval
  <2>1. obj[o] \in Object
    BY DEF TypeOK
  <2> QED
    BY <2>1 DEF Object, Keeps, Timed
<1>2. Waiting(o) /\ HandleUnchanged
  BY DEF OnSub
<1>3. CASE Limited(obj[o], o, new, <<>>)
  BY <1>1, <1>2, <1>3, FewEvents, LimitedSteps
<1>4. CASE Handled(o, new, <<>>)
  BY <1>1, <1>2, <1>4, FewEvents, StepsWitness
<1>5. CASE \E n \in Names(new.files) : Handled(o, new, <<NewEvent("changed", n, n)>>)
  <2>1. PICK n \in Names(new.files) : Handled(o, new, <<NewEvent("changed", n, n)>>)
    BY <1>5
  <2> HIDE DEF new
  <2> QED
    BY <1>1, <1>2, <2>1, FewEvents, StepsWitness
<1> QED
  BY <1>3, <1>4, <1>5 DEF OnSub

LEMMA TickSteps ==
    ASSUME TypeOK, NEW o \in Entry, OnTick(o)
    PROVE  Steps(o)
<1> DEFINE old == [obj[o] EXCEPT !.tick = FALSE]
           quiet == [old EXCEPT !.counted = FALSE]
<1>1. /\ old \in Object /\ Same(obj[o], old)
      /\ quiet \in Object /\ Same(obj[o], quiet) /\ ~ quiet.counted
      /\ quiet.interval = obj[o].interval /\ quiet.timer = obj[o].timer
  <2>1. obj[o] \in Object
    BY DEF TypeOK
  <2> QED
    BY <2>1 DEF Object, Same
<1>2. Waiting(o) /\ HandleUnchanged
  BY DEF OnTick
<1>3. CASE Handled(o, Stopped(old), <<>>)
  <2>1. Stopped(old) \in Object /\ Keeps(obj[o], Stopped(old))
    BY <1>1, StoppedType DEF Keeps, Same
  <2> QED
    BY <1>2, <1>3, <2>1, FewEvents, StepsWitness
<1>4. CASE \E new \in {Scheduled(quiet), Unscheduled(quiet)} :
              Handled(o, Rescanned(new), RescannedEvents(new))
  <2>1. PICK new \in {Scheduled(quiet), Unscheduled(quiet)} :
              Handled(o, Rescanned(new), RescannedEvents(new))
    BY <1>4
  <2>2. Timed(obj[o]) => quiet.interval # RateMax \/ quiet.timer = "periodic"
    BY <1>1 DEF Timed
  <2>3. new \in Object /\ Same(quiet, new) /\ (Timed(obj[o]) => Timed(new))
    <3> HIDE DEF quiet
    <3> QED
      BY <1>1, <2>1, <2>2, ScheduledType
  <2>4. Rescanned(new) \in Object /\ Keeps(obj[o], Rescanned(new))
    <3> HIDE DEF quiet
    <3> QED
      BY <1>1, <2>3, RescannedType DEF Keeps, Same
  <2> QED
    BY <1>2, <2>1, <2>4, EventSequences, StepsWitness
<1>5. Handled(o, Stopped(old), <<>>)
      \/ \E new \in {Scheduled(quiet), Unscheduled(quiet)} :
            Handled(o, Rescanned(new), RescannedEvents(new))
  BY Zenon DEF OnTick
<1> QED
  BY <1>3, <1>4, <1>5

LEMMA RemountedSteps ==
    ASSUME TypeOK, NEW o \in Entry, Remounted(o)
    PROVE  \E new, events :
              /\ new \in Object /\ Sequence(events) /\ Keeps(obj[o], new)
              /\ obj' = [obj EXCEPT ![o] = new]
              /\ monitor' = Telling(o, events, [monitor EXCEPT !.todo = @ \ {o}])
              /\ Settled /\ monitor.pc = "mount" /\ HandleUnchanged
<1> DEFINE r == Reopened(obj[o])
           new == IF r.fd # 0 THEN Rescanned(r) ELSE Reported(r)
           events == IF r.fd # 0 THEN RescannedEvents(r) ELSE ReportedEvents(r)
<1>1. r \in Object /\ Same(obj[o], r) /\ Timed(r)
  BY ReopenedType DEF TypeOK
<1>2. new \in Object /\ Keeps(obj[o], new)
  <2> HIDE DEF r
  <2> QED
    BY <1>1, RescannedType, ReportedType DEF Keeps, Same
<1>3. Sequence(events)
  BY EventSequences
<1>4. /\ obj' = [obj EXCEPT ![o] = new]
      /\ monitor' = Telling(o, events, [monitor EXCEPT !.todo = @ \ {o}])
      /\ Settled /\ monitor.pc = "mount" /\ HandleUnchanged
  BY DEF Remounted
<1> HIDE DEF new, events
<1> QED
  BY <1>2, <1>3, <1>4, Zenon

-----------------------------------------------------------------------------
(* Type correctness.                                                       *)

LEMMA TellingType ==
    ASSUME TypeOK, NEW o \in Entry, NEW events, Sequence(events), NEW todo \in SUBSET Entry
    PROVE  LET m == [monitor EXCEPT !.todo = todo] IN
           /\ Telling(o, events, monitor) \in [pc : {"wait", "pipe", "mount"}, todo : SUBSET Entry,
                   obj : Entry \cup {None}, events : Nat,
                   left : SUBSET Entry, sure : Entry \cup {None}]
           /\ Telling(o, events, m) \in [pc : {"wait", "pipe", "mount"}, todo : SUBSET Entry,
                   obj : Entry \cup {None}, events : Nat,
                   left : SUBSET Entry, sure : Entry \cup {None}]
<1>1. Count(events) \in Nat /\ Members(o) \in SUBSET Entry
  BY CountType DEF Members
<1> QED
  BY <1>1 DEF Telling, TypeOK

LEMMA HandledType ==
    ASSUME TypeOK, NEW o \in Entry, Steps(o)
    PROVE  TypeOK'
<1>1. PICK new, events : /\ new \in Object /\ Sequence(events)
                         /\ Handled(o, new, events) /\ HandleUnchanged
  BY DEF Steps
<1>2. [new EXCEPT !.sub = @ /\ new.files # Nothing] \in Object
  BY <1>1 DEF Object
<1>3. obj' \in [Entry -> Object]
  BY <1>1, <1>2 DEF Handled, TypeOK
<1> QED
  BY <1>1, <1>3, TellingType DEF Handled, HandleUnchanged, TypeOK, disk

LEMMA RaiseType ==
    ASSUME TypeOK, NEW d, NEW note \in {"delete", "rename", "write"}, Raise(d, note)
    PROVE  obj' \in [Entry -> Object]
<1>1. ASSUME NEW o \in Entry
      PROVE  obj[o] \in Object /\ [obj[o] EXCEPT !.pend = @ \cup {note}] \in Object
  <2>1. obj[o] \in Object
    BY DEF TypeOK
  <2>2. obj[o].pend \cup {note} \in SUBSET {"delete", "rename", "write"}
    BY <2>1 DEF Object
  <2> QED
    BY <2>1, <2>2 DEF Object
<1> QED
  BY <1>1, Zenon DEF Raise

LEMMA DiskType ==
    ASSUME TypeOK, Disk
    PROVE  TypeOK'
<1> USE DEF DiskUnchanged
<1>1. CASE ChangeFiles
  <2>1. PICK d \in Dir, files \in Listing : list' = [list EXCEPT ![d] = files] /\ Raise(d, "write")
    BY <1>1 DEF ChangeFiles
  <2>2. obj' \in [Entry -> Object]
    BY <2>1, RaiseType
  <2>3. list' \in [Dir -> Listing]
    BY <2>1 DEF TypeOK
  <2> QED
    BY <1>1, <2>2, <2>3 DEF ChangeFiles, TypeOK
<1>2. CASE Touch
  <2>1. PICK o \in Entry : obj' = [obj EXCEPT ![o].sub = TRUE]
    BY <1>2 DEF Touch
  <2>2. obj[o] \in Object
    BY DEF TypeOK
  <2>3. [obj[o] EXCEPT !.sub = TRUE] \in Object
    BY <2>2 DEF Object
  <2>4. obj' \in [Entry -> Object]
    BY <2>1, <2>3 DEF TypeOK
  <2> QED
    BY <1>2, <2>4 DEF Touch, TypeOK, disk
<1>3. CASE Mkdir
  BY <1>3 DEF Mkdir, TypeOK, Unused, Place
<1>4. CASE Rmdir
  <2>1. obj' \in [Entry -> Object]
    BY <1>4, RaiseType DEF Rmdir
  <2> QED
    BY <1>4, <2>1 DEF Rmdir, TypeOK, Place
<1>5. CASE RenameDir
  <2>1. PICK p, q \in Place : /\ Raise(at[p], "rename")
                              /\ at' = [at EXCEPT ![p] = 0, ![q] = at[p]]
    BY <1>5 DEF RenameDir
  <2>2. obj' \in [Entry -> Object]
    BY <2>1, RaiseType
  <2>3. at' \in [Place -> Dir \cup {0}] /\ upset' \subseteq Faults
    BY <1>5, <2>1 DEF RenameDir, Fault, TypeOK
  <2> QED
    BY <1>5, <2>2, <2>3 DEF RenameDir, TypeOK
<1>6. CASE Mount
  <2>1. over' \in Dir /\ list' \in [Dir -> Listing] /\ upset' \subseteq Faults
    BY <1>6 DEF Mount, Unused, TypeOK, Fault
  <2> QED
    BY <1>6, <2>1 DEF Mount, TypeOK
<1>7. CASE Unmount
  <2>1. obj' \in [Entry -> Object]
    BY <1>7, RaiseType DEF Unmount
  <2>2. Nothing \in Listing
    BY DEF Nothing, Listing
  <2> QED
    BY <1>7, <2>1, <2>2 DEF Unmount, TypeOK
<1> QED
  BY <1>1, <1>2, <1>3, <1>4, <1>5, <1>6, <1>7 DEF Disk

LEMMA NewTypes ==
    NewObject \in Object /\ NewEntry \in [live : BOOLEAN, enabled : BOOLEAN, obj : Entry \cup {None}]
<1>1. 0 \in Interval /\ Nothing \in Listing
  BY MonitorAssumption DEF Interval, Nothing, Listing
<1> QED
  BY <1>1 DEF NewObject, Object, NewEntry

LEMMA FreeEntryType ==
    ASSUME TypeOK, NEW e \in Entry, FreeEntry(e)
    PROVE  /\ entry' \in [Entry -> [live : BOOLEAN, enabled : BOOLEAN, obj : Entry \cup {None}]]
           /\ obj' \in [Entry -> Object]
           /\ cache' \subseteq [key : {"here", "away", "broken"}, obj : Entry]
  BY NewTypes DEF FreeEntry, TypeOK

LEMMA ApiType ==
    ASSUME TypeOK, NEW e \in Entry, Add(e) \/ Del(e) \/ DelDirectly(e)
    PROVE  TypeOK'
<1>1. CASE Add(e)
  <2>1. [NewObject EXCEPT !.live = TRUE] \in Object
    BY NewTypes DEF Object
  <2> QED
    BY <1>1, <2>1 DEF Add, TypeOK, disk
<1>2. CASE Del(e)
  <2>1. pipe' \in Seq([cb : {"init", "free"}, arg : Entry])
    BY <1>2 DEF Del, TypeOK
  <2>2. entry \in [Entry -> [live : BOOLEAN, enabled : BOOLEAN, obj : Entry \cup {None}]]
    BY DEF TypeOK
  <2>3. entry' = [entry EXCEPT ![e].enabled = FALSE]
    BY <1>2 DEF Del
  <2>4. entry' \in [Entry -> [live : BOOLEAN, enabled : BOOLEAN, obj : Entry \cup {None}]]
    BY <2>2, <2>3
  <2> QED
    BY <1>2, <2>1, <2>4 DEF Del, TypeOK, disk
<1>3. CASE DelDirectly(e)
  BY <1>3, FreeEntryType DEF DelDirectly, Fault, TypeOK, disk
<1> QED
  BY <1>1, <1>2, <1>3

LEMMA PipeType ==
    ASSUME TypeOK, NEW e \in Entry, InitFirst(e) \/ InitShared(e) \/ Free(e)
    PROVE  TypeOK'
<1>0. obj[e] \in Object /\ pipe \in Seq([cb : {"init", "free"}, arg : Entry])
      /\ Tail(pipe) \in Seq([cb : {"init", "free"}, arg : Entry])
  BY DEF TypeOK, InitFirst, InitShared, Free, Message
<1>1. CASE InitFirst(e)
  <2>1. [obj[e] EXCEPT !.cached = TRUE] \in Object
    BY <1>0 DEF Object
  <2>2. Watching([obj[e] EXCEPT !.cached = TRUE]) \in Object
    BY <2>1, WatchingType
  <2>3. obj' \in [Entry -> Object]
    BY <1>1, <2>2 DEF InitFirst, TypeOK
  <2>4. cache' \subseteq [key : {"here", "away", "broken"}, obj : Entry]
    BY <1>0, <1>1 DEF InitFirst, TypeOK, Object
  <2> QED
    BY <1>0, <1>1, <2>3, <2>4 DEF InitFirst, TypeOK, disk
<1>2. CASE InitShared(e)
  <2>1. PICK o \in Entry :
          /\ entry' = [entry EXCEPT ![e].obj = o]
          /\ obj' = [obj EXCEPT ![e] = NewObject,
                                ![o] = IF @.fd = 0 THEN Watching(@) ELSE @]
    BY <1>2 DEF InitShared, Lookup
  <2>2. \A x \in Object : Watching(x) \in Object
    BY WatchingType
  <2>3. obj' \in [Entry -> Object]
    BY <2>1, <2>2, NewTypes DEF TypeOK
  <2>4. entry' \in [Entry -> [live : BOOLEAN, enabled : BOOLEAN, obj : Entry \cup {None}]]
    BY <2>1 DEF TypeOK
  <2> QED
    BY <1>0, <1>2, <2>3, <2>4 DEF InitShared, TypeOK, disk
<1>3. CASE Free(e)
  BY <1>0, <1>3, FreeEntryType DEF Free, TypeOK, disk
<1> QED
  BY <1>1, <1>2, <1>3

LEMMA ThreadType ==
    ASSUME TypeOK, ReadPipe \/ OnMount \/ Thread \/ \E o \in Entry : Expire(o)
    PROVE  TypeOK'
<1> USE DEF HandleUnchanged
<1>1. CASE ReadPipe
  BY <1>1 DEF ReadPipe, TypeOK, disk
<1>2. CASE OnMount
  <2> DEFINE found == {c.obj : c \in {c \in cache : obj[c.obj].fd # 0 /\ obj[c.obj].path = "here"}}
  <2>1. found \in SUBSET Entry
    BY DEF TypeOK
  <2>2. monitor' = IF mounts = mounts' THEN Idle ELSE [Idle EXCEPT !.pc = "mount", !.todo = found]
    BY <1>2 DEF OnMount
  <2> HIDE DEF found
  <2>3. monitor' \in [pc : {"wait", "pipe", "mount"}, todo : SUBSET Entry,
                   obj : Entry \cup {None}, events : Nat,
                   left : SUBSET Entry, sure : Entry \cup {None}]
    BY <2>1, <2>2 DEF Idle
  <2> QED
    BY <1>2, <2>3 DEF OnMount, TypeOK, disk
<1>3. CASE PipeEmpty \/ RemountDone
  <2>1. Idle \in [pc : {"wait", "pipe", "mount"}, todo : SUBSET Entry,
                   obj : Entry \cup {None}, events : Nat,
                   left : SUBSET Entry, sure : Entry \cup {None}]
    BY DEF Idle
  <2> QED
    BY <1>3, <2>1 DEF PipeEmpty, RemountDone, TypeOK, disk
<1>4. CASE NextEvent
  <2>1. Members(monitor.obj) \in SUBSET Entry
    BY DEF Members
  <2>2. monitor.events - 1 \in Nat
    BY <1>4 DEF NextEvent, TypeOK
  <2>3. monitor' = IF monitor.events = 1 THEN [monitor EXCEPT !.events = 0, !.obj = None]
                   ELSE [monitor EXCEPT !.events = monitor.events - 1, !.left = Members(monitor.obj)]
    BY <1>4 DEF NextEvent
  <2>4. monitor' \in [pc : {"wait", "pipe", "mount"}, todo : SUBSET Entry,
                   obj : Entry \cup {None}, events : Nat,
                   left : SUBSET Entry, sure : Entry \cup {None}]
    BY <2>1, <2>2, <2>3 DEF TypeOK
  <2> QED
    BY <1>4, <2>4 DEF NextEvent, TypeOK, disk
<1>5. ASSUME NEW e \in Entry, InitFirst(e) \/ InitShared(e) \/ Free(e)
      PROVE  TypeOK'
  BY <1>5, PipeType
<1>6. ASSUME NEW e \in Entry, Remounted(e)
      PROVE  TypeOK'
  <2>1. PICK new, events :
              /\ new \in Object /\ Sequence(events)
              /\ obj' = [obj EXCEPT ![e] = new]
              /\ monitor' = Telling(e, events, [monitor EXCEPT !.todo = @ \ {e}])
              /\ HandleUnchanged
    BY <1>6, RemountedSteps, Zenon
  <2>2. obj' \in [Entry -> Object]
    BY <2>1 DEF TypeOK
  <2>3. monitor.todo \ {e} \in SUBSET Entry
    BY DEF TypeOK
  <2>4. [monitor EXCEPT !.todo = @ \ {e}] = [monitor EXCEPT !.todo = monitor.todo \ {e}]
    OBVIOUS
  <2>5. monitor' \in [pc : {"wait", "pipe", "mount"}, todo : SUBSET Entry,
                   obj : Entry \cup {None}, events : Nat,
                   left : SUBSET Entry, sure : Entry \cup {None}]
    BY <2>1, <2>3, <2>4, TellingType
  <2>6. UNCHANGED <<disk, mounted, entry, cache, pipe, mounts, late, upset>>
    BY <2>1
  <2> HIDE DEF HandleUnchanged
  <2> QED
    BY <2>2, <2>5, <2>6 DEF TypeOK, disk
<1>7. ASSUME NEW e \in Entry, Look(e)
      PROVE  TypeOK'
  BY <1>7 DEF Look, TypeOK, disk
<1>8. ASSUME NEW e \in Entry, Call(e)
      PROVE  TypeOK'
  <2>1. late' \in [Entry -> Nat]
    BY <1>8 DEF Call, TypeOK
  <2>2. monitor' \in [pc : {"wait", "pipe", "mount"}, todo : SUBSET Entry,
                   obj : Entry \cup {None}, events : Nat,
                   left : SUBSET Entry, sure : Entry \cup {None}]
    BY <1>8 DEF Call, TypeOK
  <2> QED
    BY <1>8, <2>1, <2>2 DEF Call, TypeOK, disk
<1>9. ASSUME NEW o \in Entry, Expire(o)
      PROVE  TypeOK'
  <2>0. obj[o] \in Object
    BY DEF TypeOK
  <2>1. [obj[o] EXCEPT !.tick = TRUE, !.timer = IF @ = "oneshot" THEN "off" ELSE @] \in Object
    BY <2>0 DEF Object
  <2>2. obj' = [obj EXCEPT ![o] = [obj[o] EXCEPT !.tick = TRUE,
                                    !.timer = IF @ = "oneshot" THEN "off" ELSE @]]
    BY <1>9 DEF Expire
  <2> QED
    BY <1>9, <2>1, <2>2 DEF Expire, TypeOK, disk
<1> QED
  BY <1>1, <1>2, <1>3, <1>4, <1>5, <1>6, <1>7, <1>8, <1>9 DEF Thread

LEMMA TypeInit ==
    ASSUME Init
    PROVE  TypeOK
<1>1. Nothing \in Listing /\ 1 \in Dir
  BY MonitorAssumption DEF Nothing, Listing, Dir
<1>2. /\ entry \in [Entry -> [live : BOOLEAN, enabled : BOOLEAN, obj : Entry \cup {None}]]
      /\ obj \in [Entry -> Object]
  BY NewTypes DEF Init
<1>3. /\ at \in [Place -> Dir \cup {0}] /\ list \in [Dir -> Listing]
      /\ late \in [Entry -> Nat]
  BY <1>1 DEF Init
<1>4. /\ pipe \in Seq([cb : {"init", "free"}, arg : Entry])
      /\ monitor \in [pc : {"wait", "pipe", "mount"}, todo : SUBSET Entry,
                   obj : Entry \cup {None}, events : Nat,
                   left : SUBSET Entry, sure : Entry \cup {None}]
  BY DEF Init, Idle
<1> QED
  BY <1>2, <1>3, <1>4 DEF Init, TypeOK

LEMMA TypeStep ==
    ASSUME TypeOK, [Next]_vars
    PROVE  TypeOK'
<1>1. CASE Next
  BY <1>1, ApiType, DiskType, ThreadType, DirectorySteps, SubSteps, TickSteps, HandledType
  DEF Next, Api
<1>2. CASE UNCHANGED vars
  BY <1>2 DEF vars, disk, TypeOK
<1> QED
  BY <1>1, <1>2

\* Every variable has its type, for all sizes of the monitor and all faults.
THEOREM TypeCorrect == Spec => []TypeOK
  BY TypeInit, TypeStep, PTL DEF Spec

-----------------------------------------------------------------------------
(* Callbacks after the cancellation.                                       *)

\* An entry that may be called back has not been called back late.
Heard ==
    \A e \in Entry : /\ entry[e].enabled \/ monitor.sure = e => late[e] = 0
                     /\ late[e] <= 1

\* The step of a kevent or of a mount leaves entries and the one found enabled alone.
LEMMA TellingKeepsSure ==
    ASSUME TypeOK, NEW o, NEW events, NEW todo
    PROVE  /\ Telling(o, events, monitor).sure = monitor.sure
           /\ Telling(o, events, [monitor EXCEPT !.todo = todo]).sure = monitor.sure
  BY DEF Telling, TypeOK

LEMMA HeardStays ==
    ASSUME Heard, UNCHANGED late, monitor'.sure \in {None, monitor.sure},
           \A e \in Entry : entry'[e].enabled => entry[e].enabled
    PROVE  Heard'
  BY MonitorAssumption DEF Heard

LEMMA FreeEntryEnables ==
    ASSUME TypeOK, NEW x \in Entry, FreeEntry(x)
    PROVE  \A e \in Entry : entry'[e].enabled => entry[e].enabled
<1>1. entry' = [entry EXCEPT ![x] = NewEntry]
  BY DEF FreeEntry
<1> QED
  BY <1>1 DEF TypeOK, NewEntry

LEMMA StepsHeard ==
    ASSUME TypeOK, Heard, NEW o \in Entry, Steps(o)
    PROVE  Heard'
<1>1. PICK events : monitor' = Telling(o, events, monitor) /\ HandleUnchanged
  BY DEF Steps, Handled
<1>2. monitor'.sure = monitor.sure
  BY <1>1, TellingKeepsSure
<1> QED
  BY <1>1, <1>2, HeardStays DEF HandleUnchanged

LEMMA HeardStep ==
    ASSUME TypeOK, Heard, [Next]_vars
    PROVE  Heard'
<1>1. ASSUME NEW e \in Entry, Add(e)
      PROVE  Heard'
  <2>1. late' = [late EXCEPT ![e] = 0] /\ UNCHANGED monitor
    BY <1>1 DEF Add
  <2>2. entry' = [entry EXCEPT ![e] = [live |-> TRUE, enabled |-> TRUE, obj |-> e]]
    BY <1>1 DEF Add
  <2>3. \A x \in Entry : x # e => entry'[x] = entry[x] /\ late'[x] = late[x]
    BY <2>1, <2>2 DEF TypeOK
  <2>4. late'[e] = 0
    BY <2>1 DEF TypeOK
  <2> QED
    BY <2>1, <2>3, <2>4 DEF Heard
<1>2. ASSUME NEW x \in Entry, Del(x)
      PROVE  Heard'
  <2>1. entry' = [entry EXCEPT ![x].enabled = FALSE]
    BY <1>2 DEF Del
  <2>2. \A e \in Entry : entry'[e].enabled => entry[e].enabled
    BY <2>1 DEF TypeOK
  <2> QED
    BY <1>2, <2>2, HeardStays DEF Del
<1>3. ASSUME NEW e \in Entry, DelDirectly(e)
      PROVE  Heard'
  BY <1>3, FreeEntryEnables, HeardStays DEF DelDirectly
<1>4. CASE Disk
  <2>1. UNCHANGED <<entry, monitor, late>>
    BY <1>4 DEF Disk, ChangeFiles, Touch, Mkdir, Rmdir, RenameDir, Mount, Unmount, DiskUnchanged
  <2> QED
    BY <2>1, HeardStays
<1>5. CASE ReadPipe
  <2>1. UNCHANGED <<entry, late>> /\ monitor'.sure = monitor.sure
    BY <1>5 DEF ReadPipe, TypeOK
  <2> QED
    BY <2>1, HeardStays
<1>6. CASE OnMount \/ PipeEmpty \/ RemountDone
  <2>1. UNCHANGED <<entry, late>>
    BY <1>6 DEF OnMount, PipeEmpty, RemountDone, HandleUnchanged
  <2>2. monitor' = Idle \/ \E todo : monitor' = [Idle EXCEPT !.pc = "mount", !.todo = todo]
    <3>1. CASE OnMount
      BY <3>1, Zenon DEF OnMount
    <3> QED
      BY <1>6, <3>1 DEF PipeEmpty, RemountDone
  <2>3. Idle.sure = None /\ \A todo : [Idle EXCEPT !.pc = "mount", !.todo = todo].sure = None
    BY DEF Idle
  <2>4. monitor'.sure = None
    <3> HIDE DEF Idle
    <3> QED
      BY <2>2, <2>3, Zenon
  <2> QED
    BY <2>1, <2>4, HeardStays
<1>7. CASE NextEvent
  <2>1. UNCHANGED <<entry, late>> /\ monitor'.sure = monitor.sure
    BY <1>7 DEF NextEvent, HandleUnchanged, TypeOK
  <2> QED
    BY <2>1, HeardStays
<1>8. ASSUME NEW e \in Entry, InitFirst(e)
      PROVE  Heard'
  BY <1>8, HeardStays DEF InitFirst
<1>9. ASSUME NEW x \in Entry, InitShared(x)
      PROVE  Heard'
  <2>1. PICK o : entry' = [entry EXCEPT ![x].obj = o]
    BY <1>9 DEF InitShared
  <2>2. \A e \in Entry : entry'[e].enabled => entry[e].enabled
    BY <2>1 DEF TypeOK
  <2> QED
    BY <1>9, <2>2, HeardStays DEF InitShared
<1>10. ASSUME NEW e \in Entry, Free(e)
       PROVE  Heard'
  BY <1>10, FreeEntryEnables, HeardStays DEF Free
<1>11. ASSUME NEW o \in Entry, Remounted(o)
       PROVE  Heard'
  <2>1. PICK events : monitor' = Telling(o, events, [monitor EXCEPT !.todo = @ \ {o}])
    BY <1>11, RemountedSteps
  <2>2. UNCHANGED <<entry, late>>
    BY <1>11 DEF Remounted, HandleUnchanged
  <2>3. [monitor EXCEPT !.todo = @ \ {o}] = [monitor EXCEPT !.todo = monitor.todo \ {o}]
    OBVIOUS
  <2>4. monitor'.sure = monitor.sure
    BY <2>1, <2>3, TellingKeepsSure
  <2> QED
    BY <2>2, <2>4, HeardStays
<1>12. ASSUME NEW x \in Entry, Look(x)
       PROVE  Heard'
  <2>1. UNCHANGED <<entry, late>> /\ monitor'.sure \in {None, x}
        /\ (monitor'.sure = x => entry[x].enabled)
    BY <1>12, MonitorAssumption DEF Look, HandleUnchanged, TypeOK
  <2> QED
    BY <2>1, MonitorAssumption DEF Heard
<1>13. ASSUME NEW x \in Entry, Call(x)
       PROVE  Heard'
  <2>1. /\ monitor.sure = x /\ monitor'.sure = None /\ UNCHANGED entry
        /\ late' = IF entry[x].enabled THEN late ELSE [late EXCEPT ![x] = @ + 1]
    BY <1>13 DEF Call, TypeOK
  <2>2. late[x] = 0
    BY <2>1 DEF Heard
  <2>3. \A e \in Entry : late'[e] = IF e = x /\ ~ entry[x].enabled THEN 1 ELSE late[e]
    BY <2>1, <2>2 DEF TypeOK
  <2> QED
    BY <2>1, <2>2, <2>3, MonitorAssumption DEF Heard
<1>14. ASSUME NEW o \in Entry, Expire(o)
       PROVE  Heard'
  BY <1>14, HeardStays DEF Expire, HandleUnchanged
<1>15. ASSUME NEW o \in Entry, OnDirectory(o) \/ OnSub(o) \/ OnTick(o)
       PROVE  Heard'
  BY <1>15, DirectorySteps, SubSteps, TickSteps, StepsHeard
<1>16. CASE UNCHANGED vars
  BY <1>16, HeardStays DEF vars
<1> QED
  BY <1>1, <1>2, <1>3, <1>4, <1>5, <1>6, <1>7, <1>8, <1>9, <1>10, <1>11, <1>12, <1>13,
     <1>14, <1>15, <1>16
  DEF Next, Api, Thread

\* A cancelled entry is called back at most once, whatever faults there are: the entry
\* that the thread has found enabled before, never a second time.
THEOREM CancelledHearsOnce == Spec => []LateOnce
<1>1. Init => Heard
  BY DEF Init, Heard, Idle, NewEntry
<1>2. Heard => LateOnce
  BY DEF Heard, LateOnce
<1> QED
  BY <1>1, <1>2, TypeCorrect, HeardStep, PTL DEF Spec

-----------------------------------------------------------------------------
(* What is held back.                                                      *)

AllTimed == \A o \in Entry : Timed(obj[o])

LEMMA NewTimed == Timed(NewObject)
  BY MonitorAssumption DEF Timed, NewObject

LEMMA RaiseTimed ==
    ASSUME TypeOK, AllTimed, NEW d, NEW note, Raise(d, note)
    PROVE  AllTimed'
<1>1. ASSUME NEW o \in Entry
      PROVE  Timed([obj[o] EXCEPT !.pend = @ \cup {note}])
  <2>1. obj[o] \in Object /\ Timed(obj[o])
    BY DEF TypeOK, AllTimed
  <2> QED
    BY <2>1 DEF Object, Timed
<1>2. \A o \in Entry : obj'[o] \in {obj[o], [obj[o] EXCEPT !.pend = @ \cup {note}]}
  BY DEF Raise
<1> QED
  BY <1>1, <1>2, Zenon DEF AllTimed

\* One object changes, and keeps what it counts.
LEMMA OneTimed ==
    ASSUME TypeOK, AllTimed, NEW o \in Entry, NEW new, Timed(new),
           obj' = [obj EXCEPT ![o] = new]
    PROVE  AllTimed'
  BY DEF TypeOK, AllTimed

LEMMA StepsTimed ==
    ASSUME TypeOK, AllTimed, NEW o \in Entry, Steps(o)
    PROVE  AllTimed'
<1>1. PICK new \in Object :
        /\ Keeps(obj[o], new)
        /\ obj' = [obj EXCEPT ![o] = [new EXCEPT !.sub = @ /\ new.files # Nothing]]
  BY DEF Steps, Handled
<1>2. Timed(new)
  BY <1>1 DEF Keeps, AllTimed
<1>3. Timed([new EXCEPT !.sub = @ /\ new.files # Nothing])
  BY <1>1, <1>2 DEF Object, Timed
<1> QED
  BY <1>1, <1>3, OneTimed

LEMMA FreeEntryTimed ==
    ASSUME TypeOK, AllTimed, NEW e \in Entry, FreeEntry(e)
    PROVE  AllTimed'
<1>1. obj' = obj \/ obj' = [obj EXCEPT ![entry[e].obj] = NewObject]
  BY DEF FreeEntry
<1> QED
  BY <1>1, NewTimed DEF TypeOK, AllTimed

LEMMA TimedStep ==
    ASSUME TypeOK, AllTimed, [Next]_vars
    PROVE  AllTimed'
<1>1. ASSUME NEW e \in Entry, Add(e)
      PROVE  AllTimed'
  <2>1. Timed([NewObject EXCEPT !.live = TRUE])
    BY MonitorAssumption DEF Timed, NewObject
  <2> QED
    BY <1>1, <2>1, OneTimed DEF Add
<1>2. ASSUME NEW e \in Entry, DelDirectly(e) \/ Free(e)
      PROVE  AllTimed'
  BY <1>2, FreeEntryTimed DEF DelDirectly, Free
<1>3. CASE ChangeFiles \/ Rmdir \/ RenameDir \/ Unmount
  BY <1>3, RaiseTimed DEF ChangeFiles, Rmdir, RenameDir, Unmount
<1>4. CASE Touch
  <2>1. PICK o \in Entry : obj' = [obj EXCEPT ![o].sub = TRUE]
    BY <1>4 DEF Touch
  <2>2. Timed([obj[o] EXCEPT !.sub = TRUE])
    BY DEF TypeOK, AllTimed, Object, Timed
  <2> QED
    BY <2>1, <2>2, OneTimed
<1>5. ASSUME NEW e \in Entry, InitFirst(e)
      PROVE  AllTimed'
  <2>1. obj[e] \in Object
    BY DEF TypeOK
  <2>2. [obj[e] EXCEPT !.cached = TRUE] \in Object
    BY <2>1 DEF Object
  <2>3. obj' = [obj EXCEPT ![e] = Watching([obj[e] EXCEPT !.cached = TRUE])]
    BY <1>5 DEF InitFirst
  <2> QED
    BY <2>2, <2>3, WatchingType, OneTimed
<1>6. ASSUME NEW e \in Entry, InitShared(e)
      PROVE  AllTimed'
  <2>1. PICK o \in Entry : obj' = [obj EXCEPT ![e] = NewObject,
                                              ![o] = IF @.fd = 0 THEN Watching(@) ELSE @]
    BY <1>6 DEF InitShared, Lookup
  <2>2. \A x \in Object : Timed(Watching(x))
    BY WatchingType
  <2>3. obj \in [Entry -> Object] /\ NewObject \in Object
    BY NewTypes DEF TypeOK
  <2>4. ASSUME NEW x \in Entry
        PROVE  Timed(obj'[x])
    BY <2>1, <2>2, <2>3, NewTimed DEF AllTimed
  <2> QED
    BY <2>4 DEF AllTimed
<1>7. ASSUME NEW o \in Entry, Remounted(o)
      PROVE  AllTimed'
  <2>1. PICK new : Keeps(obj[o], new) /\ obj' = [obj EXCEPT ![o] = new]
    BY <1>7, RemountedSteps
  <2> QED
    BY <2>1, OneTimed DEF Keeps, AllTimed
<1>8. ASSUME NEW o \in Entry, Expire(o)
      PROVE  AllTimed'
  <2>1. obj[o] \in Object /\ Timed(obj[o]) /\ obj[o].timer # "off"
    BY <1>8 DEF TypeOK, AllTimed, Expire
  <2>2. obj' = [obj EXCEPT ![o] = [obj[o] EXCEPT !.tick = TRUE,
                                    !.timer = IF @ = "oneshot" THEN "off" ELSE @]]
    BY <1>8 DEF Expire
  <2>3. Timed([obj[o] EXCEPT !.tick = TRUE, !.timer = IF @ = "oneshot" THEN "off" ELSE @])
    BY <2>1 DEF Object, Timed
  <2> QED
    BY <2>2, <2>3, OneTimed
<1>9. ASSUME NEW o \in Entry, OnDirectory(o) \/ OnSub(o) \/ OnTick(o)
      PROVE  AllTimed'
  BY <1>9, DirectorySteps, SubSteps, TickSteps, StepsTimed
<1>10. ASSUME UNCHANGED obj
       PROVE  AllTimed'
  BY <1>10 DEF AllTimed
<1>11. ASSUME NEW e \in Entry, Del(e) \/ Look(e) \/ Call(e)
       PROVE  AllTimed'
  BY <1>10, <1>11 DEF Del, Look, Call
<1>12. CASE Mkdir \/ Mount \/ ReadPipe \/ OnMount \/ PipeEmpty \/ RemountDone \/ NextEvent
              \/ UNCHANGED vars
  BY <1>10, <1>12 DEF Mkdir, Mount, ReadPipe, OnMount, PipeEmpty, RemountDone, NextEvent, vars
<1> QED
  BY <1>1, <1>2, <1>3, <1>4, <1>5, <1>6, <1>7, <1>8, <1>9, <1>11, <1>12
  DEF Next, Api, Disk, Thread

\* A change the rate limit has held back always has a timer that will bring it out,
\* for all intervals: the longest one included, at which the timer is periodic.
THEOREM WhatIsHeldBackIsTimed == Spec => []HeldBackIsTimed
<1>1. Init => AllTimed
  BY NewTimed DEF Init, AllTimed
<1>2. AllTimed => HeldBackIsTimed
  BY DEF AllTimed, HeldBackIsTimed, Timed
<1> QED
  BY <1>1, <1>2, TypeCorrect, TimedStep, PTL DEF Spec

-----------------------------------------------------------------------------
(* What is referred to exists, as long as no fault breaks it.              *)

Pending(cb, e) == \E i \in DOMAIN pipe : pipe[i] = [cb |-> cb, arg |-> e]

InCache(o) == [key |-> "here", obj |-> o] \in cache

\* No message is there twice, and an entry is freed after its initialization.
Queued ==
    /\ \A i, j \in DOMAIN pipe : pipe[i] = pipe[j] => i = j
    /\ \A e \in Entry : \A i, j \in DOMAIN pipe :
          pipe[i] = [cb |-> "init", arg |-> e] /\ pipe[j] = [cb |-> "free", arg |-> e] => i < j

Addressed ==
    \A e \in Entry : /\ Pending("init", e) \/ Pending("free", e) => entry[e].live
                     /\ Pending("free", e) => ~ entry[e].enabled

\* An entry has the object it came with until its message is taken, and then the one
\* of the cache.
Attached ==
    \A e \in Entry : entry[e].live =>
        IF Pending("init", e)
        THEN entry[e].obj = e /\ obj[e].live /\ ~ obj[e].cached
        ELSE entry[e].obj \in Entry /\ InCache(entry[e].obj)

\* One object is in the cache at most, and an entry has it.
Cached ==
    /\ \A c \in cache : c.key = "here"
    /\ \A o, p \in Entry : InCache(o) /\ InCache(p) => o = p
    /\ \A o \in Entry : InCache(o) =>
          obj[o].live /\ obj[o].cached /\ \E e \in Entry : entry[e].live /\ entry[e].obj = o

Here == \A o \in Entry : obj[o].path = "here" /\ "rename" \notin obj[o].pend

\* Entries that are told something stay, because no message is taken meanwhile.
Hearing ==
    /\ monitor.pc = "pipe" => Settled
    /\ Settled => monitor.left = {} /\ monitor.sure = None
    /\ \A e \in Entry : e \in monitor.left \/ e = monitor.sure => entry[e].live

Kept == Queued /\ Addressed /\ Attached /\ Cached /\ Here /\ Hearing

Unbroken == upset \cap {"rename", "full"} = {}

\* The object at the path is the one in the cache.
LEMMA LookupHere ==
    ASSUME Here
    PROVE  Lookup("here") = {o \in Entry : InCache(o)}
  BY DEF Here, Lookup, InCache

LEMMA KeptIsEnough ==
    ASSUME TypeOK, Unbroken => Kept
    PROVE  NothingDangles /\ ("full" \notin upset => OneObject)
<1>1. CASE Unbroken /\ Kept
  <2>1. \A i \in DOMAIN pipe : entry[pipe[i].arg].live
    <3>1. ASSUME NEW i \in DOMAIN pipe
          PROVE  entry[pipe[i].arg].live
      <4>0. pipe \in Seq([cb : {"init", "free"}, arg : Entry])
        BY DEF TypeOK
      <4>1. pipe[i] \in [cb : {"init", "free"}, arg : Entry]
        <5> DEFINE Msg == [cb : {"init", "free"}, arg : Entry]
        <5>1. pipe \in Seq(Msg)
          BY <4>0
        <5> HIDE DEF Msg
        <5>2. pipe[i] \in Msg
          BY <5>1
        <5> QED
          BY <5>2 DEF Msg
      <4>2. Pending(pipe[i].cb, pipe[i].arg)
        BY <4>1 DEF Pending
      <4> QED
        BY <1>1, <4>1, <4>2 DEF Kept, Addressed
    <3> QED
      BY <3>1
  <2>2. \A e \in Entry : entry[e].live => obj[entry[e].obj].live
    BY <1>1 DEF Kept, Attached, Cached
  <2>3. \A c \in cache : obj[c.obj].live
    <3>1. ASSUME NEW c \in cache
          PROVE  obj[c.obj].live
      <4>1. c = [key |-> "here", obj |-> c.obj] /\ c.obj \in Entry
        BY <1>1 DEF Kept, Cached, TypeOK
      <4> QED
        BY <1>1, <4>1 DEF Kept, Cached, InCache
    <3> QED
      BY <3>1
  <2>4. \A e \in monitor.left \cup ({monitor.sure} \ {None}) : entry[e].live
    BY <1>1 DEF Kept, Hearing, TypeOK
  <2>5. OneObject
    <3>1. ASSUME NEW e \in Entry, entry[e].live, ~ Pending("init", e)
          PROVE  Lookup("here") = {entry[e].obj}
      <4>1. entry[e].obj \in Entry /\ InCache(entry[e].obj)
        BY <1>1, <3>1 DEF Kept, Attached
      <4> QED
        BY <1>1, <4>1, LookupHere DEF Kept, Cached
    <3> QED
      BY <3>1 DEF OneObject, Pending
  <2> QED
    BY <2>1, <2>2, <2>3, <2>4, <2>5 DEF NothingDangles
<1>2. CASE ~ Unbroken
  BY <1>2 DEF Unbroken, NothingDangles, OneObject
<1> QED
  BY <1>1, <1>2

\* Messages, entries and the cache are left alone, and every object keeps its place.
LEMMA KeptStays ==
    ASSUME Kept, UNCHANGED <<entry, cache, pipe>>, Hearing',
           \A o \in Entry : /\ obj'[o].live = obj[o].live /\ obj'[o].cached = obj[o].cached
                            /\ obj'[o].path = obj[o].path /\ "rename" \notin obj'[o].pend
    PROVE  Kept'
<1>1. \A cb, e : Pending(cb, e)' <=> Pending(cb, e)
  BY DEF Pending
<1>2. \A o : InCache(o)' <=> InCache(o)
  BY DEF InCache
<1>3. Queued'
  BY DEF Kept, Queued
<1>4. Addressed'
  BY <1>1 DEF Kept, Addressed
<1>5. Attached'
  BY <1>1, <1>2 DEF Kept, Attached
<1>6. Cached'
  BY <1>2 DEF Kept, Cached
<1>7. Here'
  BY DEF Kept, Here
<1> QED
  BY <1>3, <1>4, <1>5, <1>6, <1>7 DEF Kept

LEMMA RaiseKept ==
    ASSUME TypeOK, Kept, NEW d, NEW note \in {"delete", "write"}, Raise(d, note),
           DiskUnchanged
    PROVE  Kept'
<1>1. ASSUME NEW o \in Entry
      PROVE  /\ obj'[o].live = obj[o].live /\ obj'[o].cached = obj[o].cached
             /\ obj'[o].path = obj[o].path /\ "rename" \notin obj'[o].pend
  <2>1. obj[o] \in Object /\ "rename" \notin obj[o].pend
    BY DEF TypeOK, Kept, Here
  <2>2. obj'[o] \in {obj[o], [obj[o] EXCEPT !.pend = @ \cup {note}]}
    BY DEF Raise
  <2> QED
    BY <2>1, <2>2 DEF Object
<1>2. Hearing'
  BY DEF DiskUnchanged, Kept, Hearing, Settled
<1> QED
  BY <1>1, <1>2, KeptStays DEF DiskUnchanged

\* One object changes, as kevents change it.
LEMMA OneKept ==
    ASSUME TypeOK, Kept, NEW o \in Entry, NEW new, Keeps(obj[o], new), obj' = [obj EXCEPT ![o] = new],
           UNCHANGED <<entry, cache, pipe>>, Hearing'
    PROVE  Kept'
<1>1. ASSUME NEW x \in Entry
      PROVE  /\ obj'[x].live = obj[x].live /\ obj'[x].cached = obj[x].cached
             /\ obj'[x].path = obj[x].path /\ "rename" \notin obj'[x].pend
  BY DEF Kept, Here, Keeps, TypeOK
<1> QED
  BY <1>1, KeptStays

LEMMA TellingHears ==
    ASSUME TypeOK, Hearing, Settled, NEW o \in Entry, NEW events, Sequence(events),
           NEW todo, NEW m \in {monitor, [monitor EXCEPT !.todo = todo]},
           monitor.pc # "pipe", monitor' = Telling(o, events, m), UNCHANGED entry
    PROVE  Hearing'
<1>1. /\ m.pc # "pipe" /\ m.events = 0 /\ m.left = {} /\ m.sure = None
      /\ m = [m EXCEPT !.pc = m.pc]
  BY DEF Hearing, Settled, TypeOK
<1>2. CASE Count(events) = 0
  BY <1>1, <1>2, MonitorAssumption DEF Telling, Hearing, Settled
<1>3. CASE Count(events) # 0
  <2>1. /\ monitor'.pc = monitor.pc /\ monitor'.events # 0
        /\ monitor'.left = Members(o) /\ monitor'.sure = None
    BY <1>1, <1>3 DEF Telling, TypeOK, Hearing, Settled
  <2> QED
    BY <2>1, MonitorAssumption DEF Hearing, Settled, Members
<1> QED
  BY <1>2, <1>3

LEMMA StepsKept ==
    ASSUME TypeOK, Kept, NEW o \in Entry, Steps(o)
    PROVE  Kept'
<1>1. PICK new, events :
        /\ new \in Object /\ Sequence(events) /\ Keeps(obj[o], new) /\ Waiting(o) /\ HandleUnchanged
        /\ obj' = [obj EXCEPT ![o] = [new EXCEPT !.sub = @ /\ new.files # Nothing]]
        /\ monitor' = Telling(o, events, monitor)
  BY DEF Steps, Handled
<1>2. Keeps(obj[o], [new EXCEPT !.sub = @ /\ new.files # Nothing])
  BY <1>1 DEF Object, Keeps, Timed
<1>3. Hearing'
  BY <1>1, TellingHears DEF Kept, Waiting, HandleUnchanged
<1> QED
  BY <1>1, <1>2, <1>3, OneKept DEF HandleUnchanged

\* A message is put into the pipe.
LEMMA PutIn ==
    ASSUME TypeOK, NEW cb \in {"init", "free"}, NEW e \in Entry,
           pipe' = Append(pipe, [cb |-> cb, arg |-> e]), ~ Pending(cb, e), Queued,
           cb = "init" => ~ Pending("free", e)
    PROVE  /\ Queued'
           /\ \A c, x : Pending(c, x)' <=> Pending(c, x) \/ (c = cb /\ x = e)
<1> DEFINE msg == [cb |-> cb, arg |-> e]
           n == Len(pipe)
<1>1. /\ n \in Nat /\ DOMAIN pipe = 1 .. n /\ DOMAIN pipe' = 1 .. n + 1
      /\ \A i \in 1 .. n : pipe'[i] = pipe[i]
      /\ pipe'[n + 1] = msg
  <2>1. pipe \in Seq([cb : {"init", "free"}, arg : Entry]) /\ msg \in [cb : {"init", "free"}, arg : Entry]
    BY DEF TypeOK
  <2> QED
    BY <2>1
<1>2. \A c, x : Pending(c, x)' <=> Pending(c, x) \/ (c = cb /\ x = e)
  <2>1. ASSUME NEW c, NEW x
        PROVE  Pending(c, x)' <=> Pending(c, x) \/ [cb |-> c, arg |-> x] = msg
    <3> HIDE DEF msg
    <3> QED
      BY <1>1 DEF Pending
  <2> QED
    BY <2>1
<1>3. \A i \in DOMAIN pipe : pipe[i] # msg
  BY DEF Pending
<1>4. \A i, j \in DOMAIN pipe' : pipe'[i] = pipe'[j] => i = j
  <2> HIDE DEF msg
  <2> QED
    BY <1>1, <1>3 DEF Queued
<1>5. ASSUME NEW x \in Entry, NEW i \in DOMAIN pipe', NEW j \in DOMAIN pipe',
             pipe'[i] = [cb |-> "init", arg |-> x], pipe'[j] = [cb |-> "free", arg |-> x]
      PROVE  i < j
  <2>1. CASE i = n + 1
    <3>1. cb = "init" /\ x = e
      BY <1>1, <1>5, <2>1
    <3>2. j \in 1 .. n
      BY <1>1, <1>5, <2>1, <3>1
    <3>3. Pending("free", e)
      BY <1>1, <1>5, <3>1, <3>2 DEF Pending
    <3> QED
      BY <3>1, <3>3
  <2>2. CASE i # n + 1 /\ j = n + 1
    BY <1>1, <2>2
  <2>3. CASE i \in 1 .. n /\ j \in 1 .. n
    BY <1>1, <1>5, <2>3 DEF Queued
  <2> QED
    BY <1>1, <2>1, <2>2, <2>3
<1> QED
  BY <1>2, <1>4, <1>5 DEF Queued

\* The first message is taken out of the pipe.
LEMMA Taken ==
    ASSUME TypeOK, NEW cb \in {"init", "free"}, NEW e \in Entry, Queued,
           Message(cb, e), pipe' = Tail(pipe)
    PROVE  /\ Queued'
           /\ Pending(cb, e)
           /\ cb = "free" => ~ Pending("init", e)
           /\ \A c, x : Pending(c, x)' <=> Pending(c, x) /\ ~ (c = cb /\ x = e)
<1> DEFINE msg == [cb |-> cb, arg |-> e]
           n == Len(pipe)
<1>1. /\ n \in Nat /\ n # 0 /\ DOMAIN pipe = 1 .. n /\ DOMAIN pipe' = 1 .. n - 1
      /\ \A i \in 1 .. n - 1 : pipe'[i] = pipe[i + 1]
      /\ pipe[1] = msg
  <2>1. pipe \in Seq([cb : {"init", "free"}, arg : Entry]) /\ pipe # <<>> /\ Head(pipe) = msg
    BY DEF TypeOK, Message
  <2> HIDE DEF msg
  <2> QED
    BY <2>1
<1>2. \A c, x : Pending(c, x)' <=> Pending(c, x) /\ ~ (c = cb /\ x = e)
  <2>1. ASSUME NEW c, NEW x
        PROVE  Pending(c, x)' <=> Pending(c, x) /\ [cb |-> c, arg |-> x] # msg
    <3> DEFINE other == [cb |-> c, arg |-> x]
    <3>1. ASSUME NEW i \in DOMAIN pipe', pipe'[i] = other
          PROVE  Pending(c, x) /\ other # msg
      <4>1. i + 1 \in DOMAIN pipe /\ pipe[i + 1] = other /\ i + 1 # 1 /\ 1 \in DOMAIN pipe
        BY <1>1, <3>1
      <4> HIDE DEF msg
      <4> QED
        BY <1>1, <4>1 DEF Pending, Queued
    <3>2. ASSUME NEW i \in DOMAIN pipe, pipe[i] = other, other # msg
          PROVE  Pending(c, x)'
      <4>1. i - 1 \in DOMAIN pipe' /\ pipe'[i - 1] = other
        <5> HIDE DEF msg, other
        <5> QED
          BY <1>1, <3>2
      <4> QED
        BY <4>1 DEF Pending
    <3> QED
      BY <3>1, <3>2 DEF Pending
  <2> QED
    BY <2>1
<1>3. \A i, j \in DOMAIN pipe' : pipe'[i] = pipe'[j] => i = j
  <2>1. ASSUME NEW i \in DOMAIN pipe', NEW j \in DOMAIN pipe', pipe'[i] = pipe'[j]
        PROVE  i = j
    <3>1. i + 1 \in DOMAIN pipe /\ j + 1 \in DOMAIN pipe /\ pipe[i + 1] = pipe[j + 1]
      BY <1>1, <2>1
    <3>2. i + 1 = j + 1
      BY <3>1 DEF Queued
    <3> QED
      BY <1>1, <3>2
  <2> QED
    BY <2>1
<1>4. ASSUME NEW x \in Entry, NEW i \in DOMAIN pipe', NEW j \in DOMAIN pipe',
             pipe'[i] = [cb |-> "init", arg |-> x], pipe'[j] = [cb |-> "free", arg |-> x]
      PROVE  i < j
  <2>1. /\ i + 1 \in DOMAIN pipe /\ j + 1 \in DOMAIN pipe
        /\ pipe[i + 1] = [cb |-> "init", arg |-> x] /\ pipe[j + 1] = [cb |-> "free", arg |-> x]
    BY <1>1, <1>4
  <2>2. i + 1 < j + 1
    BY <2>1 DEF Queued
  <2> QED
    BY <1>1, <2>2
<1>5. Pending(cb, e)
  BY <1>1 DEF Pending
<1>6. ASSUME cb = "free", NEW i \in DOMAIN pipe, pipe[i] = [cb |-> "init", arg |-> e]
      PROVE  FALSE
  <2>1. i < 1
    BY <1>1, <1>6 DEF Queued
  <2> QED
    BY <1>1, <2>1
<1> QED
  BY <1>2, <1>3, <1>4, <1>5, <1>6 DEF Queued, Pending

LEMMA AddKept ==
    ASSUME TypeOK, Kept, NEW e \in Entry, Add(e)
    PROVE  Kept'
<1>1. /\ ~ entry[e].live /\ ~ InCache(e)
      /\ ~ Pending("init", e) /\ ~ Pending("free", e)
  BY DEF Add, Kept, Addressed, InCache
<1>2. /\ pipe' = Append(pipe, [cb |-> "init", arg |-> e])
      /\ entry' = [entry EXCEPT ![e] = [live |-> TRUE, enabled |-> TRUE, obj |-> e]]
      /\ obj' = [obj EXCEPT ![e] = [NewObject EXCEPT !.live = TRUE]]
      /\ UNCHANGED <<cache, monitor>>
  BY DEF Add
<1>3. /\ Queued'
      /\ \A c, x : Pending(c, x)' <=> Pending(c, x) \/ (c = "init" /\ x = e)
  BY <1>1, <1>2, PutIn DEF Kept
<1>4. \A o : InCache(o)' <=> InCache(o)
  BY <1>2 DEF InCache
<1>5. /\ \A x \in Entry \ {e} : entry'[x] = entry[x] /\ obj'[x] = obj[x]
      /\ entry'[e].live /\ entry'[e].enabled /\ entry'[e].obj = e
      /\ obj'[e].live /\ ~ obj'[e].cached /\ obj'[e].path = "here" /\ obj'[e].pend = {}
  BY <1>2 DEF TypeOK, NewObject
<1>6. Addressed'
  BY <1>1, <1>3, <1>5 DEF Kept, Addressed
<1>7. Attached'
  BY <1>1, <1>3, <1>4, <1>5 DEF Kept, Attached
<1>8. Cached'
  <2>1. ASSUME NEW o \in Entry, InCache(o)
        PROVE  obj'[o].live /\ obj'[o].cached /\ \E x \in Entry : entry'[x].live /\ entry'[x].obj = o
    BY <1>1, <1>5, <2>1 DEF Kept, Cached
  <2> QED
    BY <1>2, <1>4, <2>1 DEF Kept, Cached
<1>9. Here'
  BY <1>5 DEF Kept, Here
<1>10. Hearing'
  BY <1>2, <1>5 DEF Kept, Hearing, Settled
<1> QED
  BY <1>3, <1>6, <1>7, <1>8, <1>9, <1>10 DEF Kept

LEMMA DelKept ==
    ASSUME TypeOK, Kept, NEW e \in Entry, Del(e)
    PROVE  Kept'
<1>1. entry[e].live /\ ~ Pending("free", e)
  BY DEF Del, Kept, Addressed
<1>2. /\ pipe' = Append(pipe, [cb |-> "free", arg |-> e])
      /\ entry' = [entry EXCEPT ![e].enabled = FALSE]
      /\ UNCHANGED <<obj, cache, monitor>>
  BY DEF Del
<1>3. /\ Queued'
      /\ \A c, x : Pending(c, x)' <=> Pending(c, x) \/ (c = "free" /\ x = e)
  BY <1>1, <1>2, PutIn DEF Kept
<1>4. \A o : InCache(o)' <=> InCache(o)
  BY <1>2 DEF InCache
<1>5. /\ \A x \in Entry : entry'[x].live = entry[x].live /\ entry'[x].obj = entry[x].obj
      /\ \A x \in Entry : entry'[x].enabled => entry[x].enabled /\ x # e
  BY <1>2 DEF TypeOK
<1>6. Addressed'
  BY <1>1, <1>3, <1>5 DEF Kept, Addressed
<1>7. Attached'
  BY <1>2, <1>3, <1>4, <1>5 DEF Kept, Attached
<1>8. Cached'
  BY <1>2, <1>4, <1>5 DEF Kept, Cached
<1>9. Here' /\ Hearing'
  BY <1>2, <1>5 DEF Kept, Here, Hearing, Settled
<1> QED
  BY <1>3, <1>6, <1>7, <1>8, <1>9 DEF Kept

LEMMA InitFirstKept ==
    ASSUME TypeOK, Kept, NEW e \in Entry, InitFirst(e)
    PROVE  Kept'
<1>1. /\ Message("init", e) /\ Lookup(obj[e].path) = {} /\ pipe' = Tail(pipe)
      /\ cache' = cache \cup {[key |-> obj[e].path, obj |-> e]}
      /\ obj' = [obj EXCEPT ![e] = Watching([obj[e] EXCEPT !.cached = TRUE])]
      /\ UNCHANGED <<entry, monitor>>
  BY DEF InitFirst
<1>2. /\ Queued' /\ Pending("init", e)
      /\ \A c, x : Pending(c, x)' <=> Pending(c, x) /\ ~ (c = "init" /\ x = e)
  BY <1>1, Taken DEF Kept
<1>3. entry[e].live /\ entry[e].obj = e /\ obj[e].live /\ obj[e].path = "here"
      /\ "rename" \notin obj[e].pend
  BY <1>2 DEF Kept, Addressed, Attached, Here
<1>4. \A o \in Entry : ~ InCache(o)
  BY <1>1, <1>3, LookupHere DEF Kept
<1>5. \A o \in Entry : InCache(o)' <=> o = e
  BY <1>1, <1>3, <1>4 DEF InCache
<1>6. /\ obj'[e].live /\ obj'[e].cached /\ obj'[e].path = "here" /\ "rename" \notin obj'[e].pend
      /\ \A x \in Entry \ {e} : obj'[x] = obj[x]
  <2>1. obj[e] \in Object
    BY DEF TypeOK
  <2> DEFINE o == [obj[e] EXCEPT !.cached = TRUE]
  <2>2. /\ o \in Object /\ o.live = obj[e].live /\ o.cached /\ o.path = obj[e].path
        /\ o.pend = obj[e].pend
    BY <2>1 DEF Object
  <2>3. obj' = [obj EXCEPT ![e] = Watching(o)]
    BY <1>1
  <2> HIDE DEF o
  <2>4. Same(o, Watching(o))
    BY <2>2, WatchingType
  <2>5. obj'[e] = Watching(o) /\ \A x \in Entry \ {e} : obj'[x] = obj[x]
    BY <2>3 DEF TypeOK
  <2> QED
    BY <1>3, <2>2, <2>4, <2>5 DEF Same
<1>7. Addressed'
  BY <1>1, <1>2 DEF Kept, Addressed
<1>8. Attached'
  BY <1>1, <1>2, <1>3, <1>4, <1>5, <1>6 DEF Kept, Attached
<1>9. Cached'
  <2>1. \A c \in cache' : c.key = "here"
    BY <1>1, <1>3 DEF Kept, Cached
  <2>2. entry'[e].live /\ entry'[e].obj = e
    BY <1>1, <1>3
  <2> QED
    BY <1>5, <1>6, <2>1, <2>2 DEF Cached
<1>10. Here' /\ Hearing'
  BY <1>1, <1>6 DEF Kept, Here, Hearing, Settled
<1> QED
  BY <1>2, <1>7, <1>8, <1>9, <1>10 DEF Kept

LEMMA InitSharedKept ==
    ASSUME TypeOK, Kept, NEW e \in Entry, InitShared(e)
    PROVE  Kept'
<1>1. PICK o \in Lookup(obj[e].path) :
        /\ entry' = [entry EXCEPT ![e].obj = o]
        /\ obj' = [obj EXCEPT ![e] = NewObject, ![o] = IF @.fd = 0 THEN Watching(@) ELSE @]
  BY DEF InitShared
<1>2. Message("init", e) /\ pipe' = Tail(pipe) /\ UNCHANGED <<cache, monitor>>
  BY DEF InitShared
<1>3. /\ Queued' /\ Pending("init", e)
      /\ \A c, x : Pending(c, x)' <=> Pending(c, x) /\ ~ (c = "init" /\ x = e)
  BY <1>2, Taken DEF Kept
<1>4. entry[e].live /\ ~ obj[e].cached /\ obj[e].path = "here"
  BY <1>3 DEF Kept, Addressed, Attached, Here
<1>5. o \in Entry /\ InCache(o) /\ o # e
  BY <1>1, <1>4, LookupHere DEF Kept, Cached
<1>6. \A p : InCache(p)' <=> InCache(p)
  BY <1>2 DEF InCache
<1>7. /\ obj'[e] = NewObject
      /\ \A x \in Entry \ {e} : /\ obj'[x].live = obj[x].live /\ obj'[x].cached = obj[x].cached
                                /\ obj'[x].path = obj[x].path /\ obj'[x].pend \subseteq obj[x].pend
  <2>1. obj[o] \in Object
    BY <1>5 DEF TypeOK
  <2>2. obj'[o] = IF obj[o].fd = 0 THEN Watching(obj[o]) ELSE obj[o]
    BY <1>1, <1>5 DEF TypeOK
  <2>3. obj'[e] = NewObject /\ \A x \in Entry \ {e, o} : obj'[x] = obj[x]
    BY <1>1, <1>5 DEF TypeOK
  <2> QED
    BY <2>1, <2>2, <2>3, WatchingType DEF Same
<1>8. /\ \A x \in Entry : entry'[x].live = entry[x].live /\ entry'[x].enabled = entry[x].enabled
      /\ \A x \in Entry \ {e} : entry'[x].obj = entry[x].obj
      /\ entry'[e].obj = o
  BY <1>1 DEF TypeOK
<1>9. Addressed'
  BY <1>3, <1>8 DEF Kept, Addressed
<1>10. Attached'
  BY <1>3, <1>5, <1>6, <1>7, <1>8 DEF Kept, Attached
<1>11. Cached'
  <2>1. ASSUME NEW p \in Entry, InCache(p)
        PROVE  p = o /\ p # e /\ obj'[p].live /\ obj'[p].cached
               /\ entry'[e].live /\ entry'[e].obj = p
    BY <1>4, <1>5, <1>7, <1>8, <2>1 DEF Kept, Cached
  <2> QED
    BY <1>2, <1>6, <2>1 DEF Kept, Cached
<1>12. Here'
  BY <1>7 DEF Kept, Here, NewObject
<1>13. Hearing'
  BY <1>2, <1>8 DEF Kept, Hearing, Settled
<1> QED
  BY <1>3, <1>9, <1>10, <1>11, <1>12, <1>13 DEF Kept

LEMMA FreeKept ==
    ASSUME TypeOK, Kept, NEW e \in Entry, Free(e)
    PROVE  Kept'
<1> DEFINE o == entry[e].obj
           last == Members(o) = {e}
<1>1. Message("free", e) /\ pipe' = Tail(pipe) /\ FreeEntry(e) /\ UNCHANGED monitor
  BY DEF Free
<1>2. /\ Queued' /\ Pending("free", e) /\ ~ Pending("init", e)
      /\ \A c, x : Pending(c, x)' <=> Pending(c, x) /\ ~ (c = "free" /\ x = e)
  BY <1>1, Taken DEF Kept
<1>3. entry[e].live /\ o \in Entry /\ InCache(o) /\ obj[o].cached /\ obj[o].path = "here"
  BY <1>2 DEF Kept, Addressed, Attached, Cached, Here
<1>4. \A p \in Entry : InCache(p) => p = o
  BY <1>3 DEF Kept, Cached
<1>5. Lookup("here") = {o}
  BY <1>3, <1>4, LookupHere DEF Kept
<1>6. /\ entry' = [entry EXCEPT ![e] = NewEntry]
      /\ obj' = IF last THEN [obj EXCEPT ![o] = NewObject] ELSE obj
      /\ cache' = IF last THEN cache \ {[key |-> "here", obj |-> o]} ELSE cache
  BY <1>1, <1>3, <1>5 DEF FreeEntry
<1>7. /\ ~ entry'[e].live /\ ~ entry'[e].enabled
      /\ \A x \in Entry \ {e} : entry'[x] = entry[x]
  BY <1>6 DEF TypeOK, NewEntry
<1> HIDE DEF o
<1>8. \A p \in Entry : InCache(p)' <=> InCache(p) /\ ~ last
  BY <1>4, <1>6 DEF InCache
<1>9. \A x \in Entry : x # o \/ ~ last => obj'[x] = obj[x]
  BY <1>6 DEF TypeOK
<1>10. Addressed'
  BY <1>2, <1>7 DEF Kept, Addressed
<1>11. Attached'
  <2>1. ASSUME NEW x \in Entry, entry'[x].live
        PROVE  /\ entry[x].live /\ entry'[x] = entry[x] /\ x # e
               /\ Pending("init", x)' <=> Pending("init", x)
    BY <1>2, <1>7, <2>1
  <2>2. ASSUME NEW x \in Entry, entry'[x].live, Pending("init", x)
        PROVE  entry'[x].obj = x /\ obj'[x].live /\ ~ obj'[x].cached
    BY <1>3, <1>9, <2>1, <2>2 DEF Kept, Attached
  <2>3. ASSUME NEW x \in Entry, entry'[x].live, ~ Pending("init", x)
        PROVE  entry'[x].obj \in Entry /\ InCache(entry[x].obj)'
    <3>1. entry[x].obj = o /\ x # e /\ entry[x].live
      BY <1>4, <2>1, <2>3 DEF Kept, Attached
    <3>2. ~ last
      BY <3>1 DEF Members
    <3> QED
      BY <1>3, <1>8, <2>1, <2>3, <3>1, <3>2
  <2> QED
    BY <2>1, <2>2, <2>3 DEF Attached
<1>12. Cached'
  <2>1. CASE last
    BY <1>6, <1>8, <2>1 DEF Kept, Cached
  <2>2. CASE ~ last
    <3>1. e \in Members(o)
      BY <1>3 DEF Members, o
    <3>2. PICK x \in Members(o) : x # e
      BY <2>2, <3>1
    <3>3. x \in Entry /\ entry'[x].live /\ entry'[x].obj = o
      BY <1>7, <3>2 DEF Members
    <3>4. UNCHANGED <<cache, obj>>
      BY <1>6, <2>2
    <3>5. \A p \in Entry : InCache(p)' <=> InCache(p)
      BY <1>8, <2>2
    <3>6. \A p \in Entry : InCache(p)' => \E y \in Entry : entry'[y].live /\ entry'[y].obj = p
      BY <1>4, <3>3, <3>5
    <3> HIDE DEF last
    <3> QED
      BY <3>4, <3>5, <3>6 DEF Kept, Cached
  <2> HIDE DEF last
  <2> QED
    BY <2>1, <2>2
<1>13. Here'
  BY <1>6, <1>9 DEF Kept, Here, NewObject, TypeOK
<1>14. Hearing'
  BY <1>1, MonitorAssumption DEF Kept, Hearing, Settled, Message
<1> QED
  BY <1>2, <1>10, <1>11, <1>12, <1>13, <1>14 DEF Kept

LEMMA RemountedKept ==
    ASSUME TypeOK, Kept, NEW o \in Entry, Remounted(o)
    PROVE  Kept'
<1>1. PICK new, events :
        /\ Sequence(events) /\ Keeps(obj[o], new)
        /\ obj' = [obj EXCEPT ![o] = new]
        /\ monitor' = Telling(o, events, [monitor EXCEPT !.todo = @ \ {o}])
        /\ Settled /\ monitor.pc = "mount" /\ HandleUnchanged
  BY RemountedSteps, Zenon
<1>2. [monitor EXCEPT !.todo = @ \ {o}] = [monitor EXCEPT !.todo = monitor.todo \ {o}]
  OBVIOUS
<1>3. monitor' = Telling(o, events, [monitor EXCEPT !.todo = monitor.todo \ {o}])
  BY <1>1, <1>2
<1>4. UNCHANGED <<entry, cache, pipe>>
  BY <1>1 DEF HandleUnchanged
<1>5. Hearing'
  BY <1>1, <1>3, <1>4, TellingHears DEF Kept
<1> QED
  BY <1>1, <1>4, <1>5, OneKept

\* Steps of the thread that touch no object.
LEMMA ThreadKept ==
    ASSUME TypeOK, Kept, UNCHANGED <<entry, obj, cache, pipe>>,
           ReadPipe \/ OnMount \/ PipeEmpty \/ RemountDone \/ NextEvent
           \/ \E e \in Entry : Look(e) \/ Call(e)
    PROVE  Kept'
<1>1. /\ monitor.pc = "pipe" => Settled
      /\ Settled => monitor.left = {} /\ monitor.sure = None
      /\ \A e \in Entry : e \in monitor.left \/ e = monitor.sure => entry[e].live
  BY DEF Kept, Hearing
<1>2. ASSUME ReadPipe
      PROVE  Hearing'
  BY <1>1, <1>2 DEF ReadPipe, Hearing, Settled, TypeOK
<1>3. ASSUME OnMount \/ PipeEmpty \/ RemountDone
      PROVE  Hearing'
  <2>1. /\ Idle.pc # "pipe" /\ Idle.events = 0 /\ Idle.left = {} /\ Idle.sure = None
        /\ \A todo : LET m == [Idle EXCEPT !.pc = "mount", !.todo = todo] IN
              m.pc # "pipe" /\ m.events = 0 /\ m.left = {} /\ m.sure = None
    BY DEF Idle
  <2>2. monitor' = Idle \/ \E todo : monitor' = [Idle EXCEPT !.pc = "mount", !.todo = todo]
    <3>1. CASE OnMount
      BY <3>1, Zenon DEF OnMount
    <3> QED
      BY <1>3, <3>1 DEF PipeEmpty, RemountDone
  <2>3. monitor'.pc # "pipe" /\ monitor'.events = 0 /\ monitor'.left = {} /\ monitor'.sure = None
    <3> HIDE DEF Idle
    <3> QED
      BY <2>1, <2>2, Zenon
  <2> QED
    BY <2>3, MonitorAssumption DEF Hearing, Settled
<1>4. ASSUME NextEvent
      PROVE  Hearing'
  <2>1. CASE monitor.events = 1
    <3>1. /\ monitor'.pc = monitor.pc /\ monitor'.events = 0
          /\ monitor'.left = {} /\ monitor'.sure = None
      BY <1>4, <2>1 DEF NextEvent, TypeOK
    <3> QED
      BY <3>1, MonitorAssumption DEF Hearing, Settled
  <2>2. CASE monitor.events # 1
    <3>1. /\ monitor'.pc = monitor.pc /\ monitor'.events # 0 /\ monitor.events # 0
          /\ monitor'.left = Members(monitor.obj) /\ monitor'.sure = None
      BY <1>4, <2>2 DEF NextEvent, TypeOK
    <3> QED
      BY <1>1, <3>1, MonitorAssumption DEF Hearing, Settled, Members
  <2> QED
    BY <2>1, <2>2
<1>5. ASSUME NEW x \in Entry, Look(x)
      PROVE  Hearing'
  <2>1. /\ x \in monitor.left /\ monitor'.left = monitor.left \ {x} /\ monitor'.sure \in {x, None}
        /\ monitor'.pc = monitor.pc /\ monitor'.events = monitor.events
    BY <1>5 DEF Look, TypeOK
  <2> QED
    BY <1>1, <2>1, MonitorAssumption DEF Hearing, Settled
<1>6. ASSUME NEW x \in Entry, Call(x)
      PROVE  Hearing'
  <2>1. /\ monitor'.left = monitor.left /\ monitor'.sure = None
        /\ monitor'.pc = monitor.pc /\ monitor'.events = monitor.events
    BY <1>6 DEF Call, TypeOK
  <2> QED
    BY <1>1, <2>1, MonitorAssumption DEF Hearing, Settled
<1>7. Hearing'
  BY <1>2, <1>3, <1>4, <1>5, <1>6
<1>8. \A o \in Entry : /\ obj'[o].live = obj[o].live /\ obj'[o].cached = obj[o].cached
                       /\ obj'[o].path = obj[o].path /\ "rename" \notin obj'[o].pend
  BY DEF Kept, Here
<1> QED
  BY <1>7, <1>8, KeptStays

LEMMA DiskKept ==
    ASSUME TypeOK, Kept, Disk, ~ RenameDir
    PROVE  Kept'
<1>1. CASE ChangeFiles \/ Rmdir \/ Unmount
  BY <1>1, RaiseKept DEF ChangeFiles, Rmdir, Unmount
<1>2. CASE Touch
  <2>1. PICK o \in Entry : obj' = [obj EXCEPT ![o].sub = TRUE]
    BY <1>2 DEF Touch
  <2>2. obj[o] \in Object
    BY DEF TypeOK
  <2>3. Keeps(obj[o], [obj[o] EXCEPT !.sub = TRUE])
    BY <2>2 DEF Object, Keeps, Timed
  <2>4. UNCHANGED <<entry, cache, pipe, monitor>>
    BY <1>2 DEF Touch, DiskUnchanged
  <2>5. Hearing'
    BY <2>4 DEF Kept, Hearing, Settled
  <2> QED
    BY <2>1, <2>3, <2>4, <2>5, OneKept
<1>3. CASE Mkdir \/ Mount
  <2>1. UNCHANGED <<obj, entry, cache, pipe, monitor>>
    BY <1>3 DEF Mkdir, Mount, DiskUnchanged
  <2>2. Hearing'
    BY <2>1 DEF Kept, Hearing, Settled
  <2>3. \A o \in Entry : "rename" \notin obj'[o].pend
    BY <2>1 DEF Kept, Here
  <2> QED
    BY <2>1, <2>2, <2>3, KeptStays
<1> QED
  BY <1>1, <1>2, <1>3 DEF Disk

LEMMA KeptStep ==
    ASSUME TypeOK, Unbroken => Kept, [Next]_vars
    PROVE  Unbroken' => Kept'
<1> SUFFICES ASSUME Unbroken'
             PROVE  Kept'
  OBVIOUS
<1>1. upset \subseteq upset'
  BY DEF Next, Api, Disk, Thread, OnDirectory, Add, Del, DelDirectly, ChangeFiles, Touch, Mkdir,
         Rmdir, RenameDir, Mount, Unmount, ReadPipe, OnMount, PipeEmpty, RemountDone, NextEvent,
         InitFirst, InitShared, Free, Remounted, Look, Call, OnDelete, OnWrite, OnRename,
         OnRenameAway, OnSub, OnTick, Expire, HandleUnchanged, Fault, vars
<1>2. Kept
  BY <1>1 DEF Unbroken
<1>3. CASE Disk
  BY <1>2, <1>3, DiskKept DEF RenameDir, Fault, Unbroken
<1>4. ASSUME NEW e \in Entry, Add(e) \/ Del(e) \/ DelDirectly(e)
      PROVE  Kept'
  BY <1>2, <1>4, AddKept, DelKept DEF DelDirectly, Fault, Unbroken
<1>5. ASSUME NEW e \in Entry, InitFirst(e) \/ InitShared(e) \/ Free(e) \/ Remounted(e)
      PROVE  Kept'
  BY <1>2, <1>5, InitFirstKept, InitSharedKept, FreeKept, RemountedKept
<1>6. CASE ReadPipe \/ OnMount \/ PipeEmpty \/ RemountDone \/ NextEvent
  BY <1>2, <1>6, ThreadKept
  DEF ReadPipe, OnMount, PipeEmpty, RemountDone, NextEvent, HandleUnchanged
<1>7. ASSUME NEW e \in Entry, Look(e) \/ Call(e)
      PROVE  Kept'
  BY <1>2, <1>7, ThreadKept DEF Look, Call, HandleUnchanged
<1>8. ASSUME NEW o \in Entry, OnDirectory(o) \/ OnSub(o) \/ OnTick(o)
      PROVE  Kept'
  BY <1>2, <1>8, DirectorySteps, SubSteps, TickSteps, StepsKept
<1>9. ASSUME NEW o \in Entry, Expire(o)
      PROVE  Kept'
  <2>1. obj[o] \in Object
    BY DEF TypeOK
  <2> DEFINE new == [obj[o] EXCEPT !.tick = TRUE, !.timer = IF @ = "oneshot" THEN "off" ELSE @]
  <2>2. obj' = [obj EXCEPT ![o] = new] /\ UNCHANGED <<entry, cache, pipe, monitor>>
    BY <1>9 DEF Expire, HandleUnchanged
  <2>3. Keeps(obj[o], new)
    BY <1>9, <2>1 DEF Object, Keeps, Timed, Expire
  <2>4. Hearing'
    BY <1>2, <2>2 DEF Kept, Hearing, Settled
  <2> HIDE DEF new
  <2> QED
    BY <1>2, <2>2, <2>3, <2>4, OneKept
<1>10. CASE UNCHANGED vars
  <2>1. UNCHANGED <<obj, entry, cache, pipe, monitor>>
    BY <1>10 DEF vars
  <2>2. Hearing' /\ \A o \in Entry : "rename" \notin obj'[o].pend
    BY <1>2, <2>1 DEF Kept, Hearing, Settled, Here
  <2> QED
    BY <1>2, <2>1, <2>2, KeptStays
<1> QED
  BY <1>3, <1>4, <1>5, <1>6, <1>7, <1>8, <1>9, <1>10 DEF Next, Api, Thread

LEMMA KeptInit ==
    ASSUME Init
    PROVE  Kept
<1>1. Queued /\ Addressed
  BY DEF Init, Queued, Addressed, Pending
<1>2. Attached /\ Cached /\ Here
  BY DEF Init, Attached, Cached, Here, InCache, NewEntry, NewObject
<1>3. Hearing
  BY MonitorAssumption DEF Init, Hearing, Settled, Idle
<1> QED
  BY <1>1, <1>2, <1>3 DEF Kept

\* Nothing the pipe, the cache, an entry or the thread refers to has been freed, as long
\* as the watched directory is not renamed and the pipe is never full: remounts are no
\* exception.
THEOREM NothingFreedIsUsed == Spec => []NothingDangles
<1>1. Init => (Unbroken => Kept)
  BY KeptInit
<1>2. TypeOK /\ (Unbroken => Kept) => NothingDangles
  BY KeptIsEnough
<1> QED
  BY <1>1, <1>2, TypeCorrect, KeptStep, PTL DEF Spec

\* Where the pipe is never full, the entries of the path share one object.
THEOREM EntriesShareOneObject ==
    ASSUME "full" \notin Faults
    PROVE  Spec => []OneObject
<1>1. Init => (Unbroken => Kept)
  BY KeptInit
<1>2. TypeOK /\ (Unbroken => Kept) => OneObject
  BY KeptIsEnough DEF TypeOK
<1> QED
  BY <1>1, <1>2, TypeCorrect, KeptStep, PTL DEF Spec

-----------------------------------------------------------------------------
(* What an object knows.                                                   *)

\* The object has a descriptor, or notes of one.
Open(r) == r.fd # 0 \/ r.pend # {}

\* A descriptor is not one of a directory that has been reported removed.
Present(r) == r.fd # 0 => ~ r.removed

\* The files are those of the directory, unless a note is pending or held back.
Current(r) ==
    r.live /\ r.fd # 0 /\ r.pend \cap {"write", "delete"} = {} /\ ~ r.counted
        => r.files = list[r.fd]

\* The directory is the one at the path, unless a note is pending, or the mount or the
\* unmount that put another one there is.
Placed(r) ==
    r.live /\ r.fd # 0 /\ r.pend \cap {"delete", "rename"} = {} =>
        \/ r.fd = Root(r.path)
        \/ /\ r.path = "here" /\ mounted
           /\ \/ mounts /\ over = 0
              \/ ~ mounts /\ over # 0 /\ r.fd = at["here"]

Held(o) == \E c \in cache : c.obj = o

\* The inductive invariant behind Known, as long as no mount is missed.  The thread only
\* comes to objects in the cache: an open one is there.
Knows ==
    /\ monitor.pc # "mount" => monitor.todo = {}
    /\ \A o \in Entry : Open(obj[o]) \/ o \in monitor.todo => Held(o)
    /\ \A o \in Entry : Present(obj[o]) /\ Current(obj[o])
    /\ \A o \in Entry \ monitor.todo : Placed(obj[o])

LEMMA KnowsIsEnough ==
    ASSUME TypeOK, Knows
    PROVE  Known
  BY DEF TypeOK, Knows, Known, Current, Placed

\* The new object knows what it should, and is not open where the old one was closed.
Learns(r, new) ==
    Present(new) /\ Current(new) /\ Placed(new) /\ (Open(new) => Open(r))

LEMMA ReportedLearns ==
    ASSUME NEW r \in Object, Present(r)
    PROVE  Reported(r).fd = 0 /\ Learns(r, Reported(r))
<1>1. Cleaned(r).fd = 0 /\ Cleaned(r).pend = {}
  BY DEF Cleaned, Stopped, Object
<1>2. Reported(r).fd = 0 /\ (Open(Reported(r)) => Open(r))
  BY <1>1 DEF Reported, Present, Open
<1> QED
  BY <1>2 DEF Learns, Present, Current, Placed

LEMMA RescannedLearns ==
    ASSUME TypeOK, NEW r \in Object, Present(r), Placed(r)
    PROVE  Learns(r, Rescanned(r))
<1>1. CASE r.fd = 0
  BY <1>1 DEF Rescanned, Learns, Present, Current, Placed
<1>2. CASE r.fd # 0 /\ ~ Alive(r.fd)
  BY <1>2, ReportedLearns DEF Rescanned
<1>3. CASE r.fd # 0 /\ Alive(r.fd)
  <2> DEFINE new == [r EXCEPT !.files = list[r.fd]]
  <2>1. Rescanned(r) = new
    BY <1>3 DEF Rescanned
  <2>2. /\ new.live = r.live /\ new.fd = r.fd /\ new.removed = r.removed /\ new.path = r.path
        /\ new.pend = r.pend /\ new.files = list[r.fd]
    BY DEF Object
  <2> HIDE DEF new
  <2> QED
    BY <2>1, <2>2 DEF Learns, Present, Current, Placed, Open
<1> QED
  BY <1>1, <1>2, <1>3

\* Opened again, an object has the directory that is at its path now.
LEMMA ReopenedLearns ==
    ASSUME TypeOK, NEW r \in Object
    PROVE  /\ Reopened(r).fd = Root(r.path) /\ Reopened(r).pend = {}
           /\ Present(Reopened(r)) /\ Placed(Reopened(r))
<1> DEFINE closed == [Stopped(r) EXCEPT !.fd = 0, !.pend = {}]
<1>1. closed \in Object /\ closed.fd = 0 /\ closed.pend = {}
  <2> DEFINE st == Stopped(r)
  <2>1. st \in Object
    BY StoppedType
  <2>2. closed = [st EXCEPT !.fd = 0, !.pend = {}]
    OBVIOUS
  <2> HIDE DEF st, closed
  <2> QED
    BY <2>1, <2>2 DEF Object
<1>2. Reopened(r).fd = Root(r.path) /\ Reopened(r).path = r.path
  BY ReopenedType DEF Same
<1>3. Root(r.path) = 0 => Reopened(r) = closed
  BY DEF Reopened
<1>4. Reopened(r).pend = {} /\ (Reopened(r).fd # 0 => ~ Reopened(r).removed)
  <2>1. CASE Root(r.path) = 0
    BY <1>1, <1>2, <1>3, <2>1
  <2>2. CASE Root(r.path) # 0
    <3>1. Reopened(r) = [closed EXCEPT !.fd = Root(r.path), !.removed = FALSE]
      BY <2>2 DEF Reopened
    <3> HIDE DEF closed
    <3> QED
      BY <1>1, <3>1 DEF Object
  <2> QED
    BY <2>1, <2>2
<1> QED
  BY <1>2, <1>4 DEF Present, Placed

LEMMA WatchingLearns ==
    ASSUME TypeOK, NEW r \in Object
    PROVE  Present(Watching(r)) /\ Current(Watching(r)) /\ Placed(Watching(r))
<1> DEFINE p == Reopened(r)
<1>1. p \in Object /\ p.pend = {} /\ Present(p) /\ Placed(p)
  BY ReopenedLearns, ReopenedType
<1>2. CASE p.fd = 0
  <2>1. Watching(r).fd = 0
    BY <1>2 DEF Watching, Cleaned, Stopped, Reopened, Object
  <2> QED
    BY <2>1 DEF Present, Current, Placed
<1>3. CASE p.fd # 0
  <2>1. Watching(r) = [p EXCEPT !.files = list[p.fd]]
    BY <1>3 DEF Watching
  <2> HIDE DEF p
  <2>2. /\ Watching(r).live = p.live /\ Watching(r).fd = p.fd /\ Watching(r).removed = p.removed
        /\ Watching(r).path = p.path /\ Watching(r).pend = p.pend
        /\ Watching(r).files = list[p.fd]
    BY <1>1, <2>1 DEF Object
  <2> QED
    BY <1>1, <2>2 DEF Present, Current, Placed
<1> QED
  BY <1>2, <1>3

\* The new object has the same directory and files; what is counted may be more.
Resembles(r, new) ==
    /\ new.live = r.live /\ new.fd = r.fd /\ new.removed = r.removed /\ new.path = r.path
    /\ new.pend = r.pend /\ new.files = r.files

LEMMA ScheduledResembles ==
    ASSUME NEW r \in Object
    PROVE  /\ Resembles(r, Scheduled(r)) /\ Resembles(r, Unscheduled(r))
           /\ Scheduled(r) \in Object /\ Unscheduled(r) \in Object
<1>1. ASSUME NEW i, NEW t
      PROVE  Resembles(r, [r EXCEPT !.interval = i, !.timer = t])
             /\ Resembles(r, [r EXCEPT !.interval = i]) /\ Resembles(r, r)
  BY DEF Object, Resembles
<1>2. Resembles(r, Scheduled(r))
  BY <1>1, Zenon DEF Scheduled
<1>3. Resembles(r, Unscheduled(r))
  BY <1>1, Zenon DEF Unscheduled
<1> QED
  BY <1>2, <1>3, ScheduledType

LEMMA CountedLearns ==
    ASSUME NEW r \in Object, Present(r), Placed(r)
    PROVE  Learns(r, [r EXCEPT !.counted = TRUE])
<1> DEFINE new == [r EXCEPT !.counted = TRUE]
<1>1. Resembles(r, new) /\ new.counted
  BY DEF Resembles, Object
<1> HIDE DEF new
<1>2. Learns(r, new)
  BY <1>1 DEF Learns, Present, Current, Placed, Open, Resembles
<1> QED
  BY <1>2 DEF new

-----------------------------------------------------------------------------
(* Steps that leave the disk and the mounts alone.                         *)

\* An object the step leaves alone, with what the thread and the cache say of it ...
Left(o) ==
    /\ obj'[o] = obj[o]
    /\ o \in monitor.todo => o \in monitor'.todo
    /\ Held(o) => Held(o)'

\* ... and one that knows what it should, with the disk as it is.
Taught(o) ==
    /\ Present(obj'[o]) /\ Current(obj'[o]) /\ Placed(obj'[o])
    /\ Open(obj'[o]) \/ o \in monitor'.todo => Held(o)'

LEMMA KnowsStays ==
    ASSUME TypeOK, Knows, UNCHANGED <<disk, mounted, mounts>>,
           \A o \in Entry : Left(o) \/ Taught(o),
           monitor'.todo \subseteq monitor.todo,
           monitor'.pc # "mount" => monitor'.todo = {}
    PROVE  Knows'
<1>1. ASSUME NEW o \in Entry
      PROVE  /\ Present(obj[o])' /\ Current(obj[o])'
             /\ o \notin monitor'.todo => Placed(obj[o])'
             /\ Open(obj[o])' \/ o \in monitor'.todo => Held(o)'
  <2>1. CASE Left(o)
    <3>1. /\ Present(obj[o]) /\ Current(obj[o])
          /\ o \notin monitor'.todo => Placed(obj[o])
          /\ Open(obj[o]) \/ o \in monitor.todo => Held(o)
      BY <2>1 DEF Knows, Left
    <3>2. obj'[o] = obj[o] /\ (Held(o) => Held(o)')
      BY <2>1 DEF Left
    <3> QED
      BY <3>1, <3>2 DEF Present, Current, Placed, Open, Root, disk
  <2>2. CASE Taught(o)
    BY <2>2 DEF Taught, Present, Current, Placed, Open, Root, disk
  <2> QED
    BY <2>1, <2>2
<1> QED
  BY <1>1 DEF Knows

\* One object becomes new.
LEMMA OneKnows ==
    ASSUME TypeOK, Knows, NEW o \in Entry, NEW new, obj' = [obj EXCEPT ![o] = new],
           Present(new), Current(new), Placed(new), Open(new) => Held(o)',
           UNCHANGED <<disk, mounted, mounts>>, cache \subseteq cache',
           monitor'.todo \in {monitor.todo, monitor.todo \ {o}},
           monitor'.pc # "mount" => monitor'.todo = {}
    PROVE  Knows'
<1>1. \A x \in Entry : Held(x) => Held(x)'
  BY DEF Held
<1>2. obj'[o] = new /\ \A x \in Entry \ {o} : obj'[x] = obj[x]
  BY DEF TypeOK
<1>3. Taught(o)
  BY <1>1, <1>2 DEF Taught, Knows
<1>4. \A x \in Entry \ {o} : Left(x)
  BY <1>1, <1>2 DEF Left
<1> QED
  BY <1>3, <1>4, KnowsStays

LEMMA TellingKeepsTodo ==
    ASSUME TypeOK, NEW o, NEW events
    PROVE  /\ Telling(o, events, monitor).pc = monitor.pc
           /\ Telling(o, events, monitor).todo = monitor.todo
  BY DEF Telling, TypeOK

LEMMA HandledKnows ==
    ASSUME TypeOK, Knows, NEW o \in Entry, NEW new \in Object, NEW events,
           Learns(obj[o], new), Handled(o, new, events), HandleUnchanged
    PROVE  Knows'
<1> DEFINE n == [new EXCEPT !.sub = @ /\ new.files # Nothing]
<1>1. obj' = [obj EXCEPT ![o] = n] /\ monitor' = Telling(o, events, monitor)
  BY DEF Handled
<1>2. Resembles(new, n) /\ n.counted = new.counted
  BY DEF Resembles, Object
<1> HIDE DEF n
<1>3. Present(n) /\ Current(n) /\ Placed(n) /\ (Open(n) => Open(obj[o]))
  BY <1>2 DEF Learns, Present, Current, Placed, Open, Resembles
<1>4. monitor'.pc = monitor.pc /\ monitor'.todo = monitor.todo
  BY <1>1, TellingKeepsTodo
<1>5. UNCHANGED <<disk, mounted, mounts, cache>>
  BY DEF HandleUnchanged
<1>6. Open(n) => Held(o)'
  BY <1>3, <1>5 DEF Knows, Held
<1> QED
  BY <1>1, <1>3, <1>4, <1>5, <1>6, OneKnows DEF Knows

\* A rescan, or an event that is counted, whatever has been taken of the notes.
LEMMA WrittenKnows ==
    ASSUME TypeOK, Knows, NEW o \in Entry, NEW new \in Object, NEW events,
           Present(new), Placed(new), Open(new) => Open(obj[o]), HandleUnchanged,
           Written(obj[o], o, new, events)
    PROVE  Knows'
<1> DEFINE Counted(r) == [r EXCEPT !.counted = TRUE]
<1>1. ASSUME NEW r \in Object, Present(r), Placed(r), Open(r) => Open(obj[o]),
             Handled(o, Counted(r), events)
      PROVE  Knows'
  <2>1. Counted(r) \in Object /\ Learns(obj[o], Counted(r))
    BY <1>1, CountedLearns DEF Learns, Object
  <2> HIDE DEF Counted
  <2> QED
    BY <1>1, <2>1, HandledKnows
<1>2. CASE Handled(o, Counted(new), events)
  BY <1>1, <1>2
<1>3. CASE Handled(o, Counted(Scheduled(new)), events)
  <2>1. Scheduled(new) \in Object /\ Resembles(new, Scheduled(new))
    BY ScheduledResembles
  <2>2. Present(Scheduled(new)) /\ Placed(Scheduled(new)) /\ (Open(Scheduled(new)) => Open(obj[o]))
    BY <2>1 DEF Present, Placed, Open, Resembles
  <2> HIDE DEF Counted
  <2> QED
    BY <1>1, <1>3, <2>1, <2>2
<1>4. CASE Handled(o, Rescanned(new), events \o RescannedEvents(new))
  <2>1. Rescanned(new) \in Object /\ Learns(obj[o], Rescanned(new))
    BY RescannedType, RescannedLearns DEF Learns
  <2> QED
    BY <1>4, <2>1, HandledKnows
<1> QED
  BY <1>2, <1>3, <1>4 DEF Written, Limited

LEMMA LimitedKnows ==
    ASSUME TypeOK, Knows, NEW o \in Entry, NEW new \in Object, NEW events,
           Present(new), Placed(new), Open(new) => Open(obj[o]), HandleUnchanged,
           Limited(obj[o], o, new, events)
    PROVE  Knows'
  BY WrittenKnows DEF Written

LEMMA WaitingKnows ==
    ASSUME TypeOK, Knows, NEW o \in Entry, Waiting(o)
    PROVE  /\ obj[o] \in Object /\ obj[o].live
           /\ Present(obj[o]) /\ Current(obj[o]) /\ Placed(obj[o])
  BY DEF TypeOK, Knows, Waiting

LEMMA DirectoryKnows ==
    ASSUME TypeOK, Knows, NEW o \in Entry, OnDirectory(o)
    PROVE  Knows'
<1>0. Waiting(o) /\ HandleUnchanged /\ obj[o].pend # {}
  BY DEF OnDirectory, OnDelete, OnWrite, OnRename, OnRenameAway
<1>1. /\ obj[o] \in Object /\ Present(obj[o]) /\ Current(obj[o]) /\ Placed(obj[o])
      /\ Open(obj[o]) /\ obj[o].live
  BY <1>0, WaitingKnows DEF Open
<1>2. CASE OnDelete(o)
  <2> DEFINE r == Reopened(obj[o])
  <2>1. r \in Object /\ Present(r) /\ Placed(r)
    BY <1>1, ReopenedType, ReopenedLearns
  <2>2. \/ Handled(o, Rescanned(r), RescannedEvents(r))
        \/ Handled(o, Reported(r), ReportedEvents(r))
    BY <1>2 DEF OnDelete
  <2>3. /\ Rescanned(r) \in Object /\ Learns(obj[o], Rescanned(r))
        /\ Reported(r) \in Object /\ Learns(obj[o], Reported(r))
    <3> HIDE DEF r
    <3> QED
      BY <1>1, <2>1, RescannedType, RescannedLearns, ReportedType, ReportedLearns DEF Learns
  <2> HIDE DEF r
  <2> QED
    BY <1>0, <2>2, <2>3, HandledKnows
<1>3. CASE OnWrite(o)
  <2> DEFINE new == [obj[o] EXCEPT !.pend = {}]
  <2>1. /\ new \in Object /\ new.live = obj[o].live /\ new.fd = obj[o].fd
        /\ new.removed = obj[o].removed /\ new.path = obj[o].path
    BY <1>1 DEF Object
  <2>2. Written(obj[o], o, new, <<>>) /\ obj[o].pend = {"write"}
    BY <1>3 DEF OnWrite
  <2> HIDE DEF new
  <2>3. Present(new) /\ Placed(new)
    BY <1>1, <2>1, <2>2 DEF Present, Placed
  <2> QED
    BY <1>0, <1>1, <2>1, <2>2, <2>3, WrittenKnows
<1>4. CASE OnRename(o)
  <2> DEFINE told == <<NewEvent("renamed", Self, Self)>>
  <2>1. PICK place \in {"here", "away"} :
          LET new == [obj[o] EXCEPT !.pend = {}, !.path = place] IN
          /\ Root(place) = obj[o].fd
          /\ IF "write" \in obj[o].pend THEN Written(obj[o], o, new, told) ELSE Handled(o, new, told)
    BY <1>4 DEF OnRename
  <2> DEFINE new == [obj[o] EXCEPT !.pend = {}, !.path = place]
  <2>2. /\ new \in Object /\ new.live = obj[o].live /\ new.fd = obj[o].fd /\ new.path = place
        /\ new.removed = obj[o].removed /\ new.counted = obj[o].counted
        /\ new.files = obj[o].files
    BY <1>1 DEF Object
  <2>3. /\ Root(place) = obj[o].fd /\ "delete" \notin obj[o].pend
        /\ IF "write" \in obj[o].pend THEN Written(obj[o], o, new, told) ELSE Handled(o, new, told)
    BY <1>4, <2>1 DEF OnRename
  <2> HIDE DEF new, told
  <2>4. Present(new) /\ Placed(new)
    BY <1>1, <2>2, <2>3 DEF Present, Placed
  <2>5. CASE Written(obj[o], o, new, told)
    BY <1>0, <1>1, <2>2, <2>4, <2>5, WrittenKnows
  <2>6. CASE "write" \notin obj[o].pend /\ Handled(o, new, told)
    <3>1. Learns(obj[o], new)
      BY <1>1, <2>2, <2>3, <2>4, <2>6 DEF Learns, Current
    <3> QED
      BY <1>0, <2>2, <2>6, <3>1, HandledKnows
  <2> QED
    BY <2>3, <2>5, <2>6
<1>5. CASE OnRenameAway(o)
  <2> DEFINE new == [obj[o] EXCEPT !.pend = {}, !.path = "broken"]
             told == IF new.removed THEN <<>> ELSE Lost(new.files)
  <2>1. new \in Object /\ new.fd = obj[o].fd /\ new.removed = obj[o].removed
    BY <1>1 DEF Object
  <2>2. Handled(o, Reported(new), told)
    BY <1>5 DEF OnRenameAway
  <2> HIDE DEF new, told
  <2>3. Reported(new) \in Object /\ Learns(obj[o], Reported(new))
    BY <1>1, <2>1, ReportedType, ReportedLearns DEF Learns, Present
  <2> QED
    BY <1>0, <2>2, <2>3, HandledKnows
<1> QED
  BY <1>2, <1>3, <1>4, <1>5 DEF OnDirectory

LEMMA ResemblesLearns ==
    ASSUME NEW r, NEW new, Resembles(r, new), Present(r), Current(r), Placed(r),
           r.counted => new.counted
    PROVE  Learns(r, new)
  BY DEF Resembles, Learns, Present, Current, Placed, Open

LEMMA SubKnows ==
    ASSUME TypeOK, Knows, NEW o \in Entry, OnSub(o)
    PROVE  Knows'
<1> DEFINE new == [obj[o] EXCEPT !.sub = FALSE]
<1>1. Waiting(o) /\ HandleUnchanged
  BY DEF OnSub
<1>2. /\ obj[o] \in Object /\ Present(obj[o]) /\ Current(obj[o]) /\ Placed(obj[o])
  BY <1>1, WaitingKnows
<1>3. new \in Object /\ Resembles(obj[o], new) /\ new.counted = obj[o].counted
  BY <1>2 DEF Object, Resembles
<1>4. Limited(obj[o], o, new, <<>>) \/ \E events : Handled(o, new, events)
  BY Zenon DEF OnSub
<1> HIDE DEF new
<1>5. Learns(obj[o], new)
  BY <1>2, <1>3, ResemblesLearns
<1> QED
  BY <1>1, <1>3, <1>4, <1>5, HandledKnows, LimitedKnows DEF Learns

LEMMA TickKnows ==
    ASSUME TypeOK, Knows, NEW o \in Entry, OnTick(o)
    PROVE  Knows'
<1> DEFINE old == [obj[o] EXCEPT !.tick = FALSE]
           quiet == [old EXCEPT !.counted = FALSE]
<1>1. Waiting(o) /\ HandleUnchanged
  BY DEF OnTick
<1>2. /\ obj[o] \in Object /\ Present(obj[o]) /\ Current(obj[o]) /\ Placed(obj[o])
  BY <1>1, WaitingKnows
<1>3. /\ old \in Object /\ Resembles(obj[o], old) /\ old.counted = obj[o].counted
      /\ quiet \in Object /\ Resembles(obj[o], quiet)
  BY <1>2 DEF Object, Resembles
<1>4. \/ ~ old.counted /\ Handled(o, Stopped(old), <<>>)
      \/ \E new \in {Scheduled(quiet), Unscheduled(quiet)} :
            Handled(o, Rescanned(new), RescannedEvents(new))
  BY Zenon DEF OnTick
<1> HIDE DEF old, quiet
<1>5. CASE ~ old.counted /\ Handled(o, Stopped(old), <<>>)
  <2>1. Stopped(old) \in Object /\ Resembles(old, Stopped(old))
    <3>1. Stopped(old) \in Object
      BY <1>3, StoppedType
    <3>2. Resembles(old, Stopped(old))
      BY <1>3 DEF Stopped, Resembles, Object
    <3> QED
      BY <3>1, <3>2
  <2>2. Resembles(obj[o], Stopped(old)) /\ ~ obj[o].counted
    BY <1>3, <1>5, <2>1 DEF Resembles
  <2>3. Learns(obj[o], Stopped(old))
    BY <1>2, <2>2, ResemblesLearns
  <2> QED
    BY <1>1, <1>5, <2>1, <2>3, HandledKnows
<1>6. ASSUME NEW new \in {Scheduled(quiet), Unscheduled(quiet)},
             Handled(o, Rescanned(new), RescannedEvents(new))
      PROVE  Knows'
  <2>1. new \in Object /\ Resembles(quiet, new)
    BY <1>3, ScheduledResembles
  <2>2. Present(new) /\ Placed(new) /\ (Open(new) => Open(obj[o]))
    BY <1>2, <1>3, <2>1 DEF Present, Placed, Open, Resembles
  <2>3. Rescanned(new) \in Object /\ Learns(obj[o], Rescanned(new))
    BY <2>1, <2>2, RescannedType, RescannedLearns DEF Learns
  <2> QED
    BY <1>1, <1>6, <2>3, HandledKnows
<1> QED
  BY <1>4, <1>5, <1>6

\* A timer expires, or a file in the directory is touched.
LEMMA QuietKnows ==
    ASSUME TypeOK, Knows, Touch \/ \E o \in Entry : Expire(o)
    PROVE  Knows'
<1>1. ASSUME NEW o \in Entry, NEW new, Resembles(obj[o], new), new.counted = obj[o].counted,
             obj' = [obj EXCEPT ![o] = new], UNCHANGED <<disk, mounted, mounts, cache, monitor>>
      PROVE  Knows'
  <2>1. obj'[o] = new /\ \A x \in Entry \ {o} : obj'[x] = obj[x]
    BY <1>1 DEF TypeOK
  <2>2. \A x \in Entry : Resembles(obj[x], obj'[x]) /\ obj'[x].counted = obj[x].counted
    BY <1>1, <2>1 DEF Resembles
  <2>3. ASSUME NEW x \in Entry
        PROVE  /\ Present(obj[x])' /\ Current(obj[x])'
               /\ x \notin monitor.todo => Placed(obj[x])'
               /\ Open(obj[x])' <=> Open(obj[x])
    <3>1. Resembles(obj[x], obj'[x]) /\ obj'[x].counted = obj[x].counted
      BY <2>2
    <3>2. Present(obj[x]) /\ Current(obj[x]) /\ (x \notin monitor.todo => Placed(obj[x]))
      BY DEF Knows
    <3> QED
      BY <1>1, <3>1, <3>2 DEF Resembles, Present, Current, Placed, Open, Root, disk
  <2> QED
    BY <1>1, <2>3 DEF Knows, Held
<1>2. CASE Touch
  <2>1. PICK o \in Entry : obj' = [obj EXCEPT ![o].sub = TRUE]
    BY <1>2 DEF Touch
  <2>2. /\ Resembles(obj[o], [obj[o] EXCEPT !.sub = TRUE])
        /\ [obj[o] EXCEPT !.sub = TRUE].counted = obj[o].counted
    BY DEF TypeOK, Object, Resembles
  <2>3. UNCHANGED <<disk, mounted, mounts, cache, monitor>>
    BY <1>2 DEF Touch, DiskUnchanged
  <2> QED
    BY <1>1, <2>1, <2>2, <2>3
<1>3. ASSUME NEW o \in Entry, Expire(o)
      PROVE  Knows'
  <2> DEFINE new == [obj[o] EXCEPT !.tick = TRUE, !.timer = IF @ = "oneshot" THEN "off" ELSE @]
  <2>1. Resembles(obj[o], new) /\ new.counted = obj[o].counted
    BY DEF TypeOK, Object, Resembles
  <2>2. obj' = [obj EXCEPT ![o] = new] /\ UNCHANGED <<disk, mounted, mounts, cache, monitor>>
    BY <1>3 DEF Expire, HandleUnchanged
  <2> HIDE DEF new
  <2> QED
    BY <1>1, <2>1, <2>2
<1> QED
  BY <1>2, <1>3

LEMMA RemountedKnows ==
    ASSUME TypeOK, Knows, NEW o \in Entry, Remounted(o)
    PROVE  Knows'
<1> DEFINE r == Reopened(obj[o])
           new == IF r.fd # 0 THEN Rescanned(r) ELSE Reported(r)
<1>1. r \in Object /\ Present(r) /\ Placed(r)
  BY ReopenedType, ReopenedLearns DEF TypeOK
<1>2. Learns(r, new)
  <2> HIDE DEF r
  <2> QED
    BY <1>1, RescannedLearns, ReportedLearns
<1>3. /\ obj' = [obj EXCEPT ![o] = new] /\ o \in monitor.todo /\ monitor.pc = "mount"
      /\ HandleUnchanged
      /\ \E events : monitor' = Telling(o, events, [monitor EXCEPT !.todo = @ \ {o}])
  BY Zenon DEF Remounted
<1> HIDE DEF new
<1>4. PICK events : monitor' = Telling(o, events, [monitor EXCEPT !.todo = @ \ {o}])
  BY <1>3
<1>5. [monitor EXCEPT !.todo = @ \ {o}] = [monitor EXCEPT !.todo = monitor.todo \ {o}]
  OBVIOUS
<1>6. monitor' = Telling(o, events, [monitor EXCEPT !.todo = monitor.todo \ {o}])
  BY <1>4, <1>5
<1>7. monitor'.pc = monitor.pc /\ monitor'.todo = monitor.todo \ {o}
  BY <1>6 DEF Telling, TypeOK
<1>8. UNCHANGED <<disk, mounted, mounts, cache>>
  BY <1>3 DEF HandleUnchanged
<1>9. Held(o)'
  BY <1>3, <1>8 DEF Knows, Held
<1> QED
  BY <1>2, <1>3, <1>7, <1>8, <1>9, OneKnows DEF Learns

\* A new object knows nothing that could be wrong.
LEMMA NewKnows ==
    /\ Present(NewObject) /\ Current(NewObject) /\ Placed(NewObject) /\ ~ Open(NewObject)
    /\ LET n == [NewObject EXCEPT !.live = TRUE] IN
       Present(n) /\ Current(n) /\ Placed(n) /\ ~ Open(n)
<1>1. /\ NewObject.fd = 0 /\ NewObject.pend = {}
      /\ [NewObject EXCEPT !.live = TRUE].fd = 0 /\ [NewObject EXCEPT !.live = TRUE].pend = {}
  BY DEF NewObject
<1> QED
  BY <1>1 DEF Present, Current, Placed, Open

LEMMA ApiKnows ==
    ASSUME TypeOK, Knows, NEW e \in Entry, Add(e) \/ Del(e)
    PROVE  Knows'
<1>1. CASE Add(e)
  <2> DEFINE n == [NewObject EXCEPT !.live = TRUE]
  <2>1. obj' = [obj EXCEPT ![e] = n] /\ UNCHANGED <<disk, mounted, mounts, cache, monitor>>
    BY <1>1 DEF Add
  <2>2. Present(n) /\ Current(n) /\ Placed(n) /\ ~ Open(n)
    BY NewKnows
  <2> HIDE DEF n
  <2> QED
    BY <2>1, <2>2, OneKnows DEF Knows
<1>2. CASE Del(e)
  <2>1. UNCHANGED <<disk, mounted, mounts, cache, monitor, obj>>
    BY <1>2 DEF Del
  <2>2. \A o \in Entry : Left(o)
    BY <2>1 DEF Left, Held
  <2> QED
    BY <2>1, <2>2, KnowsStays DEF Knows
<1> QED
  BY <1>1, <1>2

LEMMA InitFirstKnows ==
    ASSUME TypeOK, Knows, NEW e \in Entry, InitFirst(e)
    PROVE  Knows'
<1> DEFINE o == [obj[e] EXCEPT !.cached = TRUE]
           new == Watching(o)
<1>1. o \in Object
  <2>1. obj[e] \in Object
    BY DEF TypeOK
  <2> QED
    BY <2>1 DEF Object
<1>2. /\ obj' = [obj EXCEPT ![e] = new]
      /\ cache' = cache \cup {[key |-> obj[e].path, obj |-> e]}
      /\ UNCHANGED <<disk, mounted, mounts, monitor>>
  BY DEF InitFirst
<1>3. Held(e)' /\ cache \subseteq cache'
  <2>1. [key |-> obj[e].path, obj |-> e] \in cache' /\ [key |-> obj[e].path, obj |-> e].obj = e
    BY <1>2
  <2> QED
    BY <1>2, <2>1, Zenon DEF Held
<1> HIDE DEF o
<1>4. Present(new) /\ Current(new) /\ Placed(new)
  BY <1>1, WatchingLearns
<1> HIDE DEF new
<1> QED
  BY <1>2, <1>3, <1>4, OneKnows DEF Knows

LEMMA InitSharedKnows ==
    ASSUME TypeOK, Knows, NEW e \in Entry, InitShared(e)
    PROVE  Knows'
<1>1. PICK o \in Lookup(obj[e].path) :
        obj' = [obj EXCEPT ![e] = NewObject, ![o] = IF @.fd = 0 THEN Watching(@) ELSE @]
  BY DEF InitShared
<1>2. /\ monitor.pc = "pipe" /\ UNCHANGED <<disk, mounted, mounts, cache, monitor>>
      /\ o \in Entry /\ Held(o)
  BY <1>1 DEF InitShared, Message, Lookup, Held
<1>3. monitor.todo = {}
  BY <1>2 DEF Knows
<1> DEFINE Before(x) == IF x = e THEN NewObject ELSE obj[x]
<1>4. /\ \/ obj'[o] = IF Before(o).fd = 0 THEN Watching(Before(o)) ELSE Before(o)
         \/ obj'[o] = IF obj[o].fd = 0 THEN Watching(obj[o]) ELSE obj[o]
      /\ \A x \in Entry \ {o} : obj'[x] = Before(x)
  BY <1>1, <1>2 DEF TypeOK
<1>5. \A x \in Entry : /\ Before(x) \in Object
                       /\ Present(Before(x)) /\ Current(Before(x)) /\ Placed(Before(x))
                       /\ Open(Before(x)) => Held(x)
  BY <1>3, NewKnows, NewTypes DEF Knows, TypeOK
<1> HIDE DEF Before
<1>6. ASSUME NEW x \in Entry
      PROVE  Taught(x)
  <2>1. Held(x) => Held(x)'
    BY <1>2 DEF Held
  <2>2. CASE x # o
    BY <1>2, <1>3, <1>4, <1>5, <2>1, <2>2 DEF Taught
  <2>3. CASE x = o
    <3>1. PICK r \in {Before(o), obj[o]} : obj'[o] = IF r.fd = 0 THEN Watching(r) ELSE r
      BY <1>4
    <3>2. r \in Object /\ Present(r) /\ Current(r) /\ Placed(r)
      BY <1>2, <1>3, <1>5 DEF Knows, TypeOK
    <3>3. Present(obj'[o]) /\ Current(obj'[o]) /\ Placed(obj'[o])
      BY <3>1, <3>2, WatchingLearns
    <3> QED
      BY <1>2, <2>1, <2>3, <3>3 DEF Taught
  <2> QED
    BY <2>2, <2>3
<1> QED
  BY <1>2, <1>3, <1>6, KnowsStays

LEMMA FreeKnows ==
    ASSUME TypeOK, Knows, NEW e \in Entry, Free(e)
    PROVE  Knows'
<1> DEFINE o == entry[e].obj
           last == Members(o) = {e}
<1>1. /\ monitor.pc = "pipe" /\ FreeEntry(e) /\ UNCHANGED <<disk, mounted, mounts, monitor>>
  BY DEF Free, Message
<1>2. monitor.todo = {}
  BY <1>1 DEF Knows
<1>3. /\ obj' = IF last THEN [obj EXCEPT ![o] = NewObject] ELSE obj
      /\ cache' = cache \/ (last /\ cache' = cache \ {[key |-> obj[o].path, obj |-> o]})
  <2>1. obj' = IF last THEN [obj EXCEPT ![o] = NewObject] ELSE obj
    BY <1>1, Zenon DEF FreeEntry
  <2>2. cache' = IF last /\ obj[o].cached /\ Lookup(obj[o].path) = {o}
                 THEN cache \ {[key |-> obj[o].path, obj |-> o]} ELSE cache
    BY <1>1, Zenon DEF FreeEntry
  <2> HIDE DEF o, last
  <2> QED
    BY <2>1, <2>2
<1> HIDE DEF o, last
<1>4. ASSUME NEW x \in Entry, x # o \/ ~ last
      PROVE  Left(x)
  <2>1. obj'[x] = obj[x]
    BY <1>3, <1>4 DEF TypeOK
  <2>2. \A c \in cache : c.obj = x => c \in cache'
    BY <1>3, <1>4
  <2> QED
    BY <1>2, <2>1, <2>2 DEF Left, Held
<1>5. ASSUME NEW x \in Entry, x = o, last
      PROVE  Taught(x)
  <2>1. obj'[x] = NewObject
    BY <1>3, <1>5 DEF TypeOK
  <2> QED
    BY <1>1, <1>2, <2>1, NewKnows DEF Taught
<1> QED
  BY <1>1, <1>2, <1>4, <1>5, KnowsStays

\* The steps of the thread that touch neither an object nor the cache, but for OnMount.
LEMMA ThreadKnows ==
    ASSUME TypeOK, Knows,
           ReadPipe \/ PipeEmpty \/ RemountDone \/ NextEvent
           \/ \E e \in Entry : Look(e) \/ Call(e)
    PROVE  Knows'
<1>1. UNCHANGED <<disk, mounted, mounts, cache, obj>>
  BY DEF ReadPipe, PipeEmpty, RemountDone, NextEvent, Look, Call, HandleUnchanged
<1>2. monitor'.todo = monitor.todo /\ (monitor'.pc # "mount" => monitor'.todo = {})
  <2>1. CASE ReadPipe
    BY <2>1 DEF ReadPipe, Knows, TypeOK
  <2>2. CASE PipeEmpty \/ RemountDone
    <3>1. monitor' = Idle /\ monitor.todo = {}
      BY <2>2 DEF PipeEmpty, RemountDone, Knows
    <3> QED
      BY <3>1 DEF Idle
  <2>3. CASE NextEvent
    BY <2>3 DEF NextEvent, Knows, TypeOK
  <2>4. ASSUME NEW e \in Entry, Look(e) \/ Call(e)
        PROVE  monitor'.todo = monitor.todo /\ monitor'.pc = monitor.pc
    BY <2>4 DEF Look, Call, TypeOK
  <2> QED
    BY <2>1, <2>2, <2>3, <2>4 DEF Knows
<1>3. \A o \in Entry : Left(o)
  BY <1>1, <1>2 DEF Left, Held
<1> QED
  BY <1>1, <1>2, <1>3, KnowsStays

\* The thread asks what is mounted: where that has changed, every object at the path is
\* still to come, and where it has not, no directory has changed.
LEMMA OnMountKnows ==
    ASSUME TypeOK, Knows, OnMount
    PROVE  Knows'
<1> DEFINE found == {c.obj : c \in {c \in cache : obj[c.obj].fd # 0 /\ obj[c.obj].path = "here"}}
<1>1. /\ monitor.pc = "wait" /\ mounts' = (over # 0) /\ UNCHANGED <<disk, cache, obj>>
      /\ monitor' = IF mounts = mounts' THEN Idle ELSE [Idle EXCEPT !.pc = "mount", !.todo = found]
  BY DEF OnMount
<1>2. monitor.todo = {}
  BY <1>1 DEF Knows
<1>3. \/ /\ mounts = mounts' /\ monitor'.todo = {}
      \/ /\ mounts # mounts' /\ monitor'.pc = "mount" /\ monitor'.todo = found
  <2> HIDE DEF found
  <2> QED
    BY <1>1 DEF Idle
<1>4. \A o \in found : o \in Entry /\ Held(o)
  BY DEF TypeOK, Held
<1>5. ASSUME NEW o \in Entry, o \notin monitor'.todo
      PROVE  Placed(obj[o])'
  <2>1. Placed(obj[o]) /\ (Open(obj[o]) => Held(o))
    BY <1>2 DEF Knows
  <2>2. CASE mounts = mounts'
    BY <1>1, <2>1, <2>2 DEF Placed, Root, disk, TypeOK
  <2>3. CASE mounts # mounts'
    <3>1. obj[o].fd = 0 \/ obj[o].path # "here"
      BY <1>3, <1>5, <2>1, <2>3 DEF Open, Held
    <3> QED
      BY <1>1, <2>1, <3>1 DEF Placed, Root, disk
  <2> QED
    BY <2>2, <2>3
<1>6. \A o \in Entry : /\ Present(obj[o])' /\ Current(obj[o])'
                       /\ Open(obj[o])' \/ o \in monitor'.todo => Held(o)'
  <2>1. \A o \in Entry : /\ Present(obj[o]) /\ Current(obj[o]) /\ (Open(obj[o]) => Held(o))
    BY DEF Knows
  <2>2. \A o \in Entry : o \in monitor'.todo => Held(o)
    BY <1>3, <1>4
  <2> QED
    BY <1>1, <2>1, <2>2 DEF Present, Current, Open, Held, disk
<1>7. monitor'.pc # "mount" => monitor'.todo = {}
  BY <1>3
<1> QED
  BY <1>5, <1>6, <1>7 DEF Knows

-----------------------------------------------------------------------------
(* Steps of the file system.                                               *)

\* A note is added to what the objects of the directory have pending, and nothing else.
LEMMA Raised ==
    ASSUME TypeOK, NEW d, NEW note, Raise(d, note)
    PROVE  \A o \in Entry :
              /\ obj'[o].live = obj[o].live /\ obj'[o].fd = obj[o].fd
              /\ obj'[o].removed = obj[o].removed /\ obj'[o].path = obj[o].path
              /\ obj'[o].files = obj[o].files /\ obj'[o].counted = obj[o].counted
              /\ IF obj[o].live /\ obj[o].fd = d /\ d # 0 THEN obj'[o].pend = obj[o].pend \cup {note}
                                                          ELSE obj'[o].pend = obj[o].pend
<1>1. ASSUME NEW o \in Entry, obj[o].live /\ obj[o].fd = d /\ d # 0
      PROVE  obj'[o] = [obj[o] EXCEPT !.pend = obj[o].pend \cup {note}]
  BY <1>1 DEF Raise
<1>2. ASSUME NEW o \in Entry, ~ (obj[o].live /\ obj[o].fd = d /\ d # 0)
      PROVE  obj'[o] = obj[o]
  BY <1>2 DEF Raise
<1>3. ASSUME NEW o \in Entry
      PROVE  LET n == [obj[o] EXCEPT !.pend = obj[o].pend \cup {note}] IN
             /\ n.live = obj[o].live /\ n.fd = obj[o].fd /\ n.removed = obj[o].removed
             /\ n.path = obj[o].path /\ n.files = obj[o].files /\ n.counted = obj[o].counted
             /\ n.pend = obj[o].pend \cup {note}
  <2>1. obj[o] \in Object
    BY DEF TypeOK
  <2> QED
    BY <2>1 DEF Object
<1>4. ASSUME NEW o \in Entry, obj[o].live /\ obj[o].fd = d /\ d # 0
      PROVE  /\ obj'[o].live = obj[o].live /\ obj'[o].fd = obj[o].fd
             /\ obj'[o].removed = obj[o].removed /\ obj'[o].path = obj[o].path
             /\ obj'[o].files = obj[o].files /\ obj'[o].counted = obj[o].counted
             /\ obj'[o].pend = obj[o].pend \cup {note}
  BY <1>1, <1>3, <1>4
<1> QED
  BY <1>2, <1>4

\* It is enough to look at what an open object has for its files and its place.
LEMMA DiskKnows ==
    ASSUME TypeOK, Knows, UNCHANGED <<cache, mounts, monitor>>,
           \A o \in Entry :
              /\ obj'[o].fd = obj[o].fd /\ obj'[o].removed = obj[o].removed
              /\ Open(obj'[o]) => Open(obj[o])
              /\ Current(obj[o])'
              /\ Placed(obj[o]) => Placed(obj[o])'
    PROVE  Knows'
<1>1. \A o \in Entry : Present(obj[o])'
  BY DEF Knows, Present
<1>2. \A o \in Entry : Open(obj[o])' \/ o \in monitor'.todo => Held(o)'
  BY DEF Knows, Open, Held
<1> QED
  BY <1>1, <1>2 DEF Knows

LEMMA ChangeFilesKnows ==
    ASSUME TypeOK, Knows, ChangeFiles
    PROVE  Knows'
<1>1. PICK d \in Dir, files \in Listing : list' = [list EXCEPT ![d] = files] /\ Raise(d, "write")
  BY DEF ChangeFiles
<1>2. UNCHANGED <<at, over, mounted, mounts, cache, monitor>>
  BY DEF ChangeFiles, DiskUnchanged
<1>3. d # 0 /\ \A x \in Dir \ {d} : list'[x] = list[x]
  BY <1>1, MonitorAssumption DEF TypeOK, Dir
<1>4. ASSUME NEW o \in Entry
      PROVE  /\ obj'[o].fd = obj[o].fd /\ obj'[o].removed = obj[o].removed
             /\ Open(obj'[o]) => Open(obj[o])
             /\ Current(obj[o])'
             /\ Placed(obj[o]) => Placed(obj[o])'
  <2>1. Current(obj[o]) /\ obj[o].fd \in Dir \cup {0}
    BY DEF Knows, TypeOK, Object
  <2>2. /\ obj'[o].live = obj[o].live /\ obj'[o].fd = obj[o].fd
        /\ obj'[o].removed = obj[o].removed /\ obj'[o].path = obj[o].path
        /\ obj'[o].files = obj[o].files /\ obj'[o].counted = obj[o].counted
        /\ IF obj[o].live /\ obj[o].fd = d /\ d # 0 THEN obj'[o].pend = obj[o].pend \cup {"write"}
                                                    ELSE obj'[o].pend = obj[o].pend
    BY <1>1, Raised
  <2>3. Open(obj'[o]) => Open(obj[o])
    BY <1>3, <2>2 DEF Open
  <2>4. Current(obj[o])'
    BY <1>3, <2>1, <2>2 DEF Current
  <2>5. Placed(obj[o]) => Placed(obj[o])'
    BY <1>2, <2>2 DEF Placed, Root
  <2> QED
    BY <2>2, <2>3, <2>4, <2>5
<1> QED
  BY <1>2, <1>4, DiskKnows

LEMMA MkdirKnows ==
    ASSUME TypeOK, Knows, Mkdir
    PROVE  Knows'
<1>1. PICK d \in Unused : at' = [at EXCEPT !["here"] = d]
  BY DEF Mkdir
<1>2. at["here"] = 0 /\ UNCHANGED <<over, list, mounted, mounts, cache, monitor, obj>>
  BY DEF Mkdir, DiskUnchanged
<1>3. at'["away"] = at["away"] /\ at'["elsewhere"] = at["elsewhere"]
  BY <1>1 DEF TypeOK, Place
<1>4. \A o \in Entry : Current(obj[o])' /\ (Placed(obj[o]) => Placed(obj[o])')
  BY <1>2, <1>3 DEF Knows, Current, Placed, Root, Place, TypeOK, Object
<1> QED
  BY <1>2, <1>4, DiskKnows

LEMMA RmdirKnows ==
    ASSUME TypeOK, Knows, Rmdir
    PROVE  Knows'
<1>1. /\ Raise(at["here"], "delete") /\ at["here"] # 0 /\ over = 0
      /\ at' = [at EXCEPT !["here"] = 0]
      /\ UNCHANGED <<over, list, mounted, mounts, cache, monitor>>
  BY DEF Rmdir, DiskUnchanged
<1>2. at'["away"] = at["away"] /\ at'["elsewhere"] = at["elsewhere"]
  BY <1>1 DEF TypeOK, Place
<1>3. ASSUME NEW o \in Entry
      PROVE  /\ obj'[o].fd = obj[o].fd /\ obj'[o].removed = obj[o].removed
             /\ Open(obj'[o]) => Open(obj[o])
             /\ Current(obj[o])'
             /\ Placed(obj[o]) => Placed(obj[o])'
  <2>1. Current(obj[o]) /\ obj[o].path \in {"here", "away", "broken"}
    BY DEF Knows, TypeOK, Object
  <2>2. /\ obj'[o].live = obj[o].live /\ obj'[o].fd = obj[o].fd
        /\ obj'[o].removed = obj[o].removed /\ obj'[o].path = obj[o].path
        /\ obj'[o].files = obj[o].files /\ obj'[o].counted = obj[o].counted
        /\ IF obj[o].live /\ obj[o].fd = at["here"] /\ at["here"] # 0
           THEN obj'[o].pend = obj[o].pend \cup {"delete"} ELSE obj'[o].pend = obj[o].pend
    BY <1>1, Raised
  <2>3. Open(obj'[o]) => Open(obj[o])
    BY <1>1, <2>2 DEF Open
  <2>4. Current(obj[o])'
    BY <1>1, <2>1, <2>2 DEF Current
  <2>5. Placed(obj[o]) => Placed(obj[o])'
    BY <1>1, <1>2, <2>1, <2>2 DEF Placed, Root, Place
  <2> QED
    BY <2>2, <2>3, <2>4, <2>5
<1> QED
  BY <1>1, <1>3, DiskKnows

LEMMA RenameDirKnows ==
    ASSUME TypeOK, Knows, RenameDir
    PROVE  Knows'
<1>1. PICK p, q \in Place : /\ at[p] # 0 /\ at[q] = 0 /\ Raise(at[p], "rename")
                            /\ at' = [at EXCEPT ![p] = 0, ![q] = at[p]]
  BY DEF RenameDir
<1>2. over = 0 /\ UNCHANGED <<over, list, mounted, mounts, cache, monitor>>
  BY DEF RenameDir, DiskUnchanged
<1>3. \A x \in Place \ {p, q} : at'[x] = at[x]
  BY <1>1 DEF TypeOK
<1>4. ASSUME NEW o \in Entry
      PROVE  /\ obj'[o].fd = obj[o].fd /\ obj'[o].removed = obj[o].removed
             /\ Open(obj'[o]) => Open(obj[o])
             /\ Current(obj[o])'
             /\ Placed(obj[o]) => Placed(obj[o])'
  <2>1. Current(obj[o]) /\ obj[o].path \in {"here", "away", "broken"}
    BY DEF Knows, TypeOK, Object
  <2>2. /\ obj'[o].live = obj[o].live /\ obj'[o].fd = obj[o].fd
        /\ obj'[o].removed = obj[o].removed /\ obj'[o].path = obj[o].path
        /\ obj'[o].files = obj[o].files /\ obj'[o].counted = obj[o].counted
        /\ IF obj[o].live /\ obj[o].fd = at[p] /\ at[p] # 0
           THEN obj'[o].pend = obj[o].pend \cup {"rename"} ELSE obj'[o].pend = obj[o].pend
    BY <1>1, Raised
  <2>3. Open(obj'[o]) => Open(obj[o])
    BY <1>1, <2>2 DEF Open
  <2>4. Current(obj[o])'
    BY <1>2, <2>1, <2>2 DEF Current
  <2>5. Placed(obj[o]) => Placed(obj[o])'
    <3>1. CASE obj[o].path \in Place \ {p, q} \/ obj[o].path \notin Place
      <4>1. obj[o].path \in Place => at'[obj[o].path] = at[obj[o].path]
        BY <1>3, <3>1
      <4>2. Root(obj[o].path)' = Root(obj[o].path)
        BY <1>2, <4>1 DEF Root
      <4> QED
        BY <1>2, <2>2, <4>2 DEF Placed
    <3>2. CASE obj[o].path = p \/ obj[o].path = q
      <4>1. Root(obj[o].path) = at[obj[o].path]
        BY <1>2, <2>1, <3>2 DEF Root
      <4> QED
        BY <1>1, <1>2, <2>2, <3>2, <4>1 DEF Placed
    <3> QED
      BY <3>1, <3>2
  <2> QED
    BY <2>2, <2>3, <2>4, <2>5
<1> QED
  BY <1>2, <1>4, DiskKnows

\* Nothing is known to be mounted, so the kevent that is raised will be seen as a change.
LEMMA MountKnows ==
    ASSUME TypeOK, Knows, Mount, "remount" \notin upset'
    PROVE  Knows'
<1>1. /\ ~ mounts /\ ~ mounted /\ over = 0 /\ over' \in Unused /\ mounted'
      /\ UNCHANGED <<at, obj, mounts, cache, monitor>>
  BY DEF Mount, Fault, DiskUnchanged
<1>2. /\ over' # 0 /\ \A o \in Entry : obj[o].fd # over'
      /\ \A x \in Dir \ {over'} : list'[x] = list[x]
  BY <1>1, MonitorAssumption DEF Mount, Unused, Dir, TypeOK
<1>3. ASSUME NEW o \in Entry
      PROVE  Current(obj[o])' /\ (Placed(obj[o]) => Placed(obj[o])')
  <2>1. Current(obj[o]) /\ obj[o].fd \in Dir \cup {0}
    BY DEF Knows, TypeOK, Object
  <2>2. Current(obj[o])'
    BY <1>1, <1>2, <2>1 DEF Current
  <2>3. Placed(obj[o]) => Placed(obj[o])'
    BY <1>1, <1>2 DEF Placed, Root, Place
  <2> QED
    BY <2>2, <2>3
<1> QED
  BY <1>1, <1>3, DiskKnows

\* What was mounted is gone for those who had it open, and those who had not are back
\* where the path leads.
LEMMA UnmountKnows ==
    ASSUME TypeOK, Knows, Unmount
    PROVE  Knows'
<1>1. /\ Raise(over, "delete") /\ over # 0 /\ over' = 0 /\ mounted'
      /\ list' = [list EXCEPT ![over] = Nothing]
      /\ UNCHANGED <<at, mounts, cache, monitor>>
  BY DEF Unmount, DiskUnchanged
<1>2. \A x \in Dir \ {over} : list'[x] = list[x]
  BY <1>1 DEF TypeOK
<1>3. ASSUME NEW o \in Entry
      PROVE  /\ obj'[o].fd = obj[o].fd /\ obj'[o].removed = obj[o].removed
             /\ Open(obj'[o]) => Open(obj[o])
             /\ Current(obj[o])'
             /\ Placed(obj[o]) => Placed(obj[o])'
  <2>1. Current(obj[o]) /\ obj[o].path \in {"here", "away", "broken"} /\ obj[o].fd \in Dir \cup {0}
    BY DEF Knows, TypeOK, Object
  <2>2. /\ obj'[o].live = obj[o].live /\ obj'[o].fd = obj[o].fd
        /\ obj'[o].removed = obj[o].removed /\ obj'[o].path = obj[o].path
        /\ obj'[o].files = obj[o].files /\ obj'[o].counted = obj[o].counted
        /\ IF obj[o].live /\ obj[o].fd = over /\ over # 0
           THEN obj'[o].pend = obj[o].pend \cup {"delete"} ELSE obj'[o].pend = obj[o].pend
    BY <1>1, Raised
  <2>3. Open(obj'[o]) => Open(obj[o])
    BY <1>1, <2>2 DEF Open
  <2>4. Current(obj[o])'
    BY <1>1, <1>2, <2>1, <2>2 DEF Current
  <2>5. Placed(obj[o]) => Placed(obj[o])'
    BY <1>1, <2>1, <2>2 DEF Placed, Root, Place
  <2> QED
    BY <2>2, <2>3, <2>4, <2>5
<1> QED
  BY <1>1, <1>3, DiskKnows

-----------------------------------------------------------------------------

\* No mount came before the thread had looked at the one before.
NoneMissed == "remount" \notin upset

LEMMA KnowsInit ==
    ASSUME Init
    PROVE  Knows
<1>1. \A o \in Entry : obj[o].fd = 0 /\ obj[o].pend = {}
  BY DEF Init, NewObject
<1>2. monitor.todo = {}
  BY DEF Init, Idle
<1> QED
  BY <1>1, <1>2 DEF Knows, Present, Current, Placed, Open

LEMMA KnowsStep ==
    ASSUME "full" \notin Faults, TypeOK, NoneMissed => Knows, [Next]_vars
    PROVE  NoneMissed' => Knows'
<1> SUFFICES ASSUME NoneMissed'
             PROVE  Knows'
  OBVIOUS
<1>1. upset \subseteq upset'
  BY DEF Next, Api, Disk, Thread, OnDirectory, Add, Del, DelDirectly, ChangeFiles, Touch, Mkdir,
         Rmdir, RenameDir, Mount, Unmount, ReadPipe, OnMount, PipeEmpty, RemountDone, NextEvent,
         InitFirst, InitShared, Free, Remounted, Look, Call, OnDelete, OnWrite, OnRename,
         OnRenameAway, OnSub, OnTick, Expire, HandleUnchanged, Fault, vars
<1>2. Knows
  BY <1>1 DEF NoneMissed
<1>3. CASE Disk
  BY <1>2, <1>3, ChangeFilesKnows, QuietKnows, MkdirKnows, RmdirKnows, RenameDirKnows,
     MountKnows, UnmountKnows DEF Disk, NoneMissed
<1>4. ASSUME NEW e \in Entry, Add(e) \/ Del(e) \/ DelDirectly(e)
      PROVE  Knows'
  BY <1>2, <1>4, ApiKnows DEF DelDirectly, Fault
<1>5. ASSUME NEW e \in Entry, InitFirst(e) \/ InitShared(e) \/ Free(e) \/ Remounted(e)
      PROVE  Knows'
  BY <1>2, <1>5, InitFirstKnows, InitSharedKnows, FreeKnows, RemountedKnows
<1>6. CASE OnMount
  BY <1>2, <1>6, OnMountKnows
<1>7. CASE ReadPipe \/ PipeEmpty \/ RemountDone \/ NextEvent \/ \E e \in Entry : Look(e) \/ Call(e)
  BY <1>2, <1>7, ThreadKnows
<1>8. ASSUME NEW o \in Entry, OnDirectory(o) \/ OnSub(o) \/ OnTick(o) \/ Expire(o)
      PROVE  Knows'
  BY <1>2, <1>8, DirectoryKnows, SubKnows, TickKnows, QuietKnows
<1>9. CASE UNCHANGED vars
  <2>1. UNCHANGED <<disk, mounted, mounts, cache, monitor, obj>>
    BY <1>9 DEF vars
  <2>2. \A o \in Entry : Left(o)
    BY <2>1 DEF Left, Held
  <2> QED
    BY <1>2, <2>1, <2>2, KnowsStays DEF Knows
<1> QED
  BY <1>3, <1>4, <1>5, <1>6, <1>7, <1>8, <1>9 DEF Next, Api, Thread

\* Where the pipe is never full, an object for which nothing is pending has the directory
\* that is at its path and knows its files: after renames, removals, mounts and unmounts,
\* as long as no second mount comes before the thread has looked at the first.
THEOREM NothingIsMissed ==
    ASSUME "full" \notin Faults
    PROVE  Spec => []Known
<1>1. Init => (NoneMissed => Knows)
  BY KnowsInit
<1>2. TypeOK /\ (NoneMissed => Knows) => Known
  BY KnowsIsEnough DEF Known, NoneMissed
<1>3. TypeOK /\ (NoneMissed => Knows) /\ [Next]_vars
        => (NoneMissed' => Knows')
  BY KnowsStep
<1> QED
  BY <1>1, <1>2, <1>3, TypeCorrect, PTL DEF Spec

-----------------------------------------------------------------------------
(* What is told of a rescan.  The recursion in Replay is the library's fold: *)
(* that it has a value is shown by the least position where it would not.    *)

\* A set of numbers has a least one.
LEMMA LeastNumber ==
    ASSUME NEW T \in SUBSET Nat, T # {}
    PROVE  \E i \in T : \A j \in T : i <= j
<1> DEFINE R == {ss \in Nat \X Nat : ss[1] < ss[2]}
<1>1. IsWellFoundedOn(R, Nat)
  BY NatLessThanWellFounded DEF OpToRel
<1>2. \A i, j \in Nat : j < i => <<j, i>> \in R
  OBVIOUS
<1> HIDE DEF R
<1>3. PICK i \in T : \A j \in T : ~ (<<j, i>> \in R)
  BY <1>1, WFMin
<1>4. \A j \in T : i \in Nat /\ j \in Nat /\ ~ (j < i)
  BY <1>2, <1>3, Zenon
<1> QED
  BY <1>4

LEMMA FirstIsThere ==
    ASSUME NEW S \in SUBSET Name, S # {}
    PROVE  First(S) \in S
<1> DEFINE T == {i \in DOMAIN Order : Order[i] \in S}
<1>1. DOMAIN Order = 1 .. Len(Order) /\ Len(Order) \in Nat
  BY OrderAssumption
<1>2. T \in SUBSET Nat /\ T # {}
  BY <1>1, OrderAssumption
<1>3. PICK i \in T : \A j \in T : i <= j
  <2> HIDE DEF T
  <2> QED
    BY <1>2, LeastNumber
<1>4. /\ i \in DOMAIN Order /\ Order[i] \in S
      /\ \A j \in 1 .. i - 1 : Order[j] \notin S
  BY <1>1, <1>3
<1> QED
  BY <1>4, Zenon DEF First

LEMMA TupleElements ==
    ASSUME NEW n \in Nat, NEW f, f = [i \in 1 .. n |-> f[i]]
    PROVE  f \in Seq({f[i] : i \in 1 .. n}) /\ Len(f) = n
  OBVIOUS

\* What is told of a name that may have been removed.
Dropped(old, new, n) ==
    IF old[n] # 0 /\ new[n] = 0 /\ FindIno(new, old[n]) = {} THEN NewEvent("deleted", n, n) ELSE NoEvent

\* The events of a rescan are those of the names.
LEMMA ChangesOfNames ==
    ASSUME NEW old, NEW new
    PROVE  /\ \A n \in Name : \E i \in DOMAIN Changes(old, new) :
                 Changes(old, new)[i] = Dropped(old, new, n)
           /\ \A n \in Name : \E i \in DOMAIN Changes(old, new) :
                 Changes(old, new)[i] = Told(old, new, n)
           /\ \A i \in DOMAIN Changes(old, new) : \E n \in Name :
                 Changes(old, new)[i] \in {Dropped(old, new, n), Told(old, new, n)}
<1> DEFINE D == Deleted(old, new)
           T == [i \in DOMAIN Order |-> Told(old, new, Order[i])]
           k == Len(Order)
<1>1. /\ k \in Nat /\ DOMAIN Order = 1 .. k
      /\ \A i \in 1 .. k : Order[i] \in Name
      /\ \A n \in Name : \E i \in 1 .. k : Order[i] = n
  BY OrderAssumption
<1>2. /\ DOMAIN D = 1 .. k /\ \A i \in 1 .. k : D[i] = Dropped(old, new, Order[i])
      /\ DOMAIN T = 1 .. k /\ \A i \in 1 .. k : T[i] = Told(old, new, Order[i])
  BY <1>1, Zenon DEF Deleted, Dropped
<1>3. Changes(old, new) = D \o T
  BY DEF Changes
<1>4. D = [i \in 1 .. k |-> D[i]] /\ T = [i \in 1 .. k |-> T[i]]
  BY <1>1, Zenon DEF Deleted
<1>5. PICK U : D \in Seq(U) /\ T \in Seq(U) /\ Len(D) = k /\ Len(T) = k
  <2> HIDE DEF D, T, k
  <2>1. /\ D \in Seq({D[i] : i \in 1 .. k}) /\ Len(D) = k
        /\ T \in Seq({T[i] : i \in 1 .. k}) /\ Len(T) = k
    BY <1>1, <1>4, TupleElements
  <2>2. /\ D \in Seq({D[i] : i \in 1 .. k} \cup {T[i] : i \in 1 .. k})
        /\ T \in Seq({D[i] : i \in 1 .. k} \cup {T[i] : i \in 1 .. k})
    BY <2>1
  <2> QED
    BY <2>1, <2>2
<1>6. /\ DOMAIN (D \o T) = 1 .. k + k
      /\ \A i \in 1 .. k : (D \o T)[i] = D[i] /\ (D \o T)[k + i] = T[i]
      /\ \A i \in 1 .. k + k : i \in 1 .. k \/ \E j \in 1 .. k : i = k + j
  <2> HIDE DEF D, T, k
  <2>1. \A i \in 1 .. k + k : i \in 1 .. k \/ (i - k \in 1 .. k /\ i = k + (i - k))
    BY <1>1
  <2>2. /\ D \o T \in Seq(U) /\ Len(D \o T) = k + k
        /\ \A i \in 1 .. k + k : (D \o T)[i] = IF i <= k THEN D[i] ELSE T[i - k]
    <3>1. /\ D \o T \in Seq(U) /\ Len(D \o T) = Len(D) + Len(T)
          /\ \A i \in 1 .. Len(D) + Len(T) :
                (D \o T)[i] = IF i <= Len(D) THEN D[i] ELSE T[i - Len(D)]
      BY <1>5, ConcatProperties
    <3> QED
      BY <1>5, <3>1
  <2>3. DOMAIN (D \o T) = 1 .. k + k
    BY <2>2
  <2>4. ASSUME NEW i \in 1 .. k
        PROVE  (D \o T)[i] = D[i] /\ (D \o T)[k + i] = T[i]
    <3>1. /\ i \in 1 .. k + k /\ k + i \in 1 .. k + k /\ i <= k
          /\ ~ (k + i <= k) /\ (k + i) - k = i
      BY <1>1
    <3> QED
      BY <2>2, <3>1
  <2> QED
    BY <2>1, <2>3, <2>4
<1> HIDE DEF D, T, k
<1>7. \A n \in Name : \E i \in DOMAIN (D \o T) : (D \o T)[i] = Dropped(old, new, n)
  BY <1>1, <1>2, <1>6
<1>8. \A n \in Name : \E i \in DOMAIN (D \o T) : (D \o T)[i] = Told(old, new, n)
  <2>1. ASSUME NEW n \in Name
        PROVE  \E i \in DOMAIN (D \o T) : (D \o T)[i] = Told(old, new, n)
    <3>1. PICK j \in 1 .. k : Order[j] = n
      BY <1>1
    <3>2. k + j \in 1 .. k + k /\ (D \o T)[k + j] = Told(old, new, n)
      BY <1>1, <1>2, <1>6, <3>1
    <3> QED
      BY <1>6, <3>2
  <2> QED
    BY <2>1
<1>9. \A i \in DOMAIN (D \o T) : \E n \in Name :
         (D \o T)[i] \in {Dropped(old, new, n), Told(old, new, n)}
  BY <1>1, <1>2, <1>6
<1> QED
  BY <1>3, <1>7, <1>8, <1>9

LEMMA ChangesDomain ==
    ASSUME NEW old, NEW new
    PROVE  \E n \in Nat : DOMAIN Changes(old, new) = 1 .. n
<1>1. Sequence(Changes(old, new))
  BY ChangesSequence
<1>2. PICK U : Changes(old, new) \in Seq(U)
  BY <1>1 DEF Sequence
<1>3. DOMAIN Changes(old, new) = 1 .. Len(Changes(old, new)) /\ Len(Changes(old, new)) \in Nat
  BY <1>2
<1> QED
  BY <1>3

LEMMA ToldKinds ==
    ASSUME NEW old, NEW new, NEW n \in Name
    PROVE  /\ Dropped(old, new, n).kind \in {"none", "deleted"}
           /\ Dropped(old, new, n).kind = "deleted" =>
                 Dropped(old, new, n).name = n /\ old[n] # 0 /\ new[n] = 0
           /\ Told(old, new, n).kind # "deleted"
           /\ Told(old, new, n).kind \in {"created", "renamed"} =>
                 Told(old, new, n).to = n /\ new[n] # 0
           /\ Told(old, new, n).kind = "renamed" =>
                 /\ FindIno(old, new[n]) # {} /\ First(FindIno(old, new[n])) # n
                 /\ Told(old, new, n).name = First(FindIno(old, new[n]))
<1>1. /\ NoEvent.kind = "none"
      /\ \A kind, name, to : LET e == NewEvent(kind, name, to) IN
            e.kind = kind /\ e.name = name /\ e.to = to
  BY DEF NoEvent, NewEvent
<1>2. /\ Dropped(old, new, n).kind \in {"none", "deleted"}
      /\ Dropped(old, new, n).kind = "deleted" =>
            Dropped(old, new, n).name = n /\ old[n] # 0 /\ new[n] = 0
  BY <1>1 DEF Dropped
<1>3. \/ Told(old, new, n) = NoEvent
      \/ /\ new[n] # 0
         /\ Told(old, new, n) \in {NewEvent("changed", n, n), NewEvent("created", n, n)}
      \/ /\ new[n] # 0 /\ FindIno(old, new[n]) # {} /\ First(FindIno(old, new[n])) # n
         /\ Told(old, new, n) = NewEvent("renamed", First(FindIno(old, new[n])), n)
  BY DEF Told
<1> QED
  BY <1>1, <1>2, <1>3

\* Every new name is told, as a creation or as a rename.
THEOREM NewNamesAreTold ==
    ASSUME NEW old \in Listing, NEW new \in Listing, NEW n \in Names(new) \ Names(old)
    PROVE  \E i \in DOMAIN Changes(old, new) :
              /\ Changes(old, new)[i].to = n
              /\ Changes(old, new)[i].kind \in {"created", "renamed"}
<1> DEFINE same == FindIno(old, new[n])
<1>1. n \in Name /\ new[n] # 0 /\ old[n] = 0
  BY DEF Names
<1>2. same # {} => First(same) \in same
  <2>1. same \in SUBSET Name
    BY DEF FindIno, Names
  <2> QED
    BY <2>1, FirstIsThere
<1>3. n \notin same
  BY <1>1 DEF FindIno, Names
<1>4. \/ Told(old, new, n) = NewEvent("renamed", First(same), n)
      \/ Told(old, new, n) = NewEvent("created", n, n)
  BY <1>1, <1>2, <1>3 DEF Told
<1>5. Told(old, new, n).to = n /\ Told(old, new, n).kind \in {"created", "renamed"}
  BY <1>4 DEF NewEvent
<1>6. PICK i \in DOMAIN Changes(old, new) : Changes(old, new)[i] = Told(old, new, n)
  BY <1>1, ChangesOfNames
<1> QED
  BY <1>5, <1>6

\* The names that a client of the events drops, and those it adds.
Gone(events) ==
    {events[i].name : i \in {i \in DOMAIN events : events[i].kind \in {"deleted", "renamed"}}}
Come(events) ==
    {events[i].to : i \in {i \in DOMAIN events : events[i].kind \in {"created", "renamed"}}}

\* When one operation lies between two readings of a directory without hard links, a
\* client drops the names that are gone and no other, and adds all new ones and none
\* that is not there: in whatever order it takes the events, it has the right names.
THEOREM OneChangeIsTold ==
    ASSUME NEW old \in Listing, NEW new \in Listing, OneStep(old, new), Unlinked(old)
    PROVE  /\ Gone(Changes(old, new)) = Names(old) \ Names(new)
           /\ Names(new) \ Names(old) \subseteq Come(Changes(old, new))
           /\ Come(Changes(old, new)) \subseteq Names(new)
<1> DEFINE events == Changes(old, new)
<1>1. ASSUME NEW S \in SUBSET Name, S # {}
      PROVE  First(S) \in S
  BY <1>1, FirstIsThere
<1>2. ASSUME NEW n \in Names(old) \ Names(new)
      PROVE  n \in Gone(events)
  <2>1. n \in Name /\ old[n] # 0 /\ new[n] = 0
    BY DEF Names
  <2>2. CASE FindIno(new, old[n]) = {}
    <3>1. Dropped(old, new, n) = NewEvent("deleted", n, n)
      BY <2>1, <2>2 DEF Dropped
    <3>2. PICK i \in DOMAIN events : events[i] = Dropped(old, new, n)
      BY <2>1, ChangesOfNames
    <3>3. events[i].kind = "deleted" /\ events[i].name = n
      BY <3>1, <3>2 DEF NewEvent
    <3> HIDE DEF events
    <3> QED
      BY <3>3 DEF Gone
  <2>3. CASE FindIno(new, old[n]) # {}
    <3>1. PICK m \in Name : new[m] = old[n] /\ new[m] # 0
      BY <2>1, <2>3 DEF FindIno, Names
    <3>2. FindIno(old, new[m]) = {n}
      BY <2>1, <3>1 DEF FindIno, Names, Unlinked
    <3>3. First(FindIno(old, new[m])) = n
      <4>1. First({n}) \in {n}
        BY <1>1, <2>1
      <4> QED
        BY <3>2, <4>1
    <3>4. Told(old, new, m) = NewEvent("renamed", n, m)
      BY <2>1, <3>1, <3>2, <3>3 DEF Told
    <3>5. PICK i \in DOMAIN events : events[i] = Told(old, new, m)
      BY ChangesOfNames
    <3>6. events[i].kind = "renamed" /\ events[i].name = n
      BY <3>4, <3>5 DEF NewEvent
    <3> HIDE DEF events
    <3> QED
      BY <3>6 DEF Gone
  <2> QED
    BY <2>2, <2>3
<1>3. ASSUME NEW i \in DOMAIN events, events[i].kind \in {"deleted", "renamed"}
      PROVE  events[i].name \in Names(old) \ Names(new)
  <2>1. PICK m \in Name : events[i] \in {Dropped(old, new, m), Told(old, new, m)}
    BY ChangesOfNames
  <2>2. CASE events[i].kind = "deleted"
    <3>1. events[i].name = m /\ old[m] # 0 /\ new[m] = 0
      BY <2>1, <2>2, ToldKinds
    <3> QED
      BY <3>1 DEF Names
  <2>3. CASE events[i].kind = "renamed"
    <3> DEFINE n == events[i].name
               same == FindIno(old, new[m])
    <3>1. /\ new[m] # 0 /\ n = First(same) /\ same # {} /\ n # m
      BY <2>1, <2>3, ToldKinds
    <3>2. n \in Name /\ old[n] # 0 /\ old[n] = new[m]
      <4>1. same \in SUBSET Name
        BY DEF FindIno, Names
      <4>2. First(same) \in same
        BY <1>1, <3>1, <4>1
      <4> HIDE DEF n
      <4> QED
        BY <3>1, <4>2 DEF FindIno, Names
    <3> HIDE DEF n
    <3>3. old[m] # new[m]
      BY <3>1, <3>2 DEF Unlinked, Names
    <3>4. new[n] = 0
      <4>1. CASE \E k \in Name : /\ \/ old[k] = 0 /\ new[k] \notin {old[x] : x \in Name}
                                    \/ old[k] # 0 /\ new[k] = 0
                                 /\ \A x \in Name \ {k} : new[x] = old[x]
        BY <3>1, <3>2, <3>3, <4>1
      <4>2. CASE \E k, l \in Name : /\ k # l /\ old[k] # 0 /\ new[k] = 0 /\ new[l] = old[k]
                                    /\ \A x \in Name \ {k, l} : new[x] = old[x]
        <5>1. PICK k, l \in Name : /\ k # l /\ old[k] # 0 /\ new[k] = 0 /\ new[l] = old[k]
                                   /\ \A x \in Name \ {k, l} : new[x] = old[x]
          BY <4>2
        <5>2. m = l
          BY <3>1, <3>3, <5>1
        <5>3. n = k
          BY <3>2, <5>1, <5>2 DEF Unlinked, Names
        <5> QED
          BY <5>1, <5>3
      <4> QED
        BY <4>1, <4>2 DEF OneStep
    <3> QED
      BY <3>2, <3>4 DEF Names, n
  <2> QED
    BY <1>3, <2>2, <2>3
<1>4. ASSUME NEW i \in DOMAIN events, events[i].kind \in {"created", "renamed"}
      PROVE  events[i].to \in Names(new)
  <2>1. PICK m \in Name : events[i] \in {Dropped(old, new, m), Told(old, new, m)}
    BY ChangesOfNames
  <2>2. events[i].to = m /\ new[m] # 0
    BY <1>4, <2>1, ToldKinds
  <2> QED
    BY <2>2 DEF Names
<1>5. ASSUME NEW n \in Names(new) \ Names(old)
      PROVE  n \in Come(events)
  <2>1. PICK i \in DOMAIN events : events[i].to = n /\ events[i].kind \in {"created", "renamed"}
    BY NewNamesAreTold
  <2> HIDE DEF events
  <2> QED
    BY <2>1 DEF Come
<1>6. Gone(events) \subseteq Names(old) \ Names(new) /\ Come(events) \subseteq Names(new)
  <2> HIDE DEF events
  <2> QED
    BY <1>3, <1>4 DEF Gone, Come
<1> QED
  BY <1>2, <1>5, <1>6

\* What one event does to the client's names.
Follow(S, e) ==
    CASE e.kind = "created" -> S \cup {e.to}
      [] e.kind = "deleted" -> S \ {e.name}
      [] e.kind = "renamed" -> (S \ {e.name}) \cup {e.to}
      [] OTHER -> S

\* The fold of Replay over a set of positions, the last one taken last.
FoldsTo(it, names, events, s) ==
    IF s = {} THEN names ELSE Follow(it[s \ {Max(s)}], events[Max(s)])

IsFold(it, names, events, n) ==
    it = [s \in SUBSET (1 .. n) |-> FoldsTo(it, names, events, s)]

LEMMA LastIsThere ==
    ASSUME NEW k \in Nat, NEW s \in SUBSET (1 .. k), s # {}
    PROVE  Max(s) \in s /\ \A j \in s : Max(s) >= j
<1> DEFINE T == {k - i : i \in s}
<1>1. T \in SUBSET Nat /\ T # {}
  <2>1. \A i \in s : k - i \in Nat
    OBVIOUS
  <2> QED
    BY <2>1
<1>2. PICK t \in T : \A j \in T : t <= j
  <2> HIDE DEF T
  <2> QED
    BY <1>1, LeastNumber
<1>3. PICK i \in s : t = k - i
  BY <1>2
<1>4. \A j \in s : i >= j
  <2>1. ASSUME NEW j \in s
        PROVE  i >= j
    <3>1. k - i <= k - j
      BY <1>2, <1>3
    <3> QED
      BY <3>1
  <2> QED
    BY <2>1
<1> QED
  BY <1>3, <1>4, Zenon DEF Max

LEMMA FoldExists ==
    ASSUME NEW names, NEW events, NEW n \in Nat
    PROVE  \E it : IsFold(it, names, events, n)
<1> DEFINE Good(k) == \E it : IsFold(it, names, events, k)
           T == {k \in Nat : ~ Good(k)}
<1>1. Good(0)
  <2> DEFINE it == [s \in SUBSET (1 .. 0) |-> names]
  <2>1. 1 .. 0 = {}
    OBVIOUS
  <2>2. \A s \in SUBSET (1 .. 0) : s = {}
    BY <2>1
  <2>3. it = [s \in SUBSET (1 .. 0) |-> FoldsTo(it, names, events, s)]
    BY <2>2 DEF FoldsTo
  <2> QED
    BY <2>3 DEF IsFold
<1>2. ASSUME NEW k \in Nat, Good(k)
      PROVE  Good(k + 1)
  <2>1. PICK it : it = [s \in SUBSET (1 .. k) |-> FoldsTo(it, names, events, s)]
    BY <1>2 DEF IsFold
  <2> DEFINE more == [s \in SUBSET (1 .. k + 1) |->
                        IF k + 1 \in s THEN Follow(it[s \ {k + 1}], events[k + 1]) ELSE it[s]]
  <2>2. ASSUME NEW s \in SUBSET (1 .. k + 1)
        PROVE  more[s] = FoldsTo(more, names, events, s)
    <3>1. CASE k + 1 \in s
      <4>1. Max(s) = k + 1
        <5>1. k + 1 \in Nat /\ s # {}
          BY <3>1
        <5>2. Max(s) \in s /\ \A j \in s : Max(s) >= j
          BY <5>1, LastIsThere
        <5>3. Max(s) \in 1 .. k + 1 /\ Max(s) >= k + 1
          BY <3>1, <5>2
        <5> QED
          BY <5>3
      <4>2. /\ s \ {k + 1} \in SUBSET (1 .. k + 1) /\ k + 1 \notin s \ {k + 1}
        OBVIOUS
      <4>3. more[s \ {k + 1}] = it[s \ {k + 1}]
        BY <4>2
      <4>4. more[s] = Follow(it[s \ {k + 1}], events[k + 1])
        BY <3>1
      <4> HIDE DEF more
      <4> QED
        BY <3>1, <4>1, <4>3, <4>4 DEF FoldsTo
    <3>2. CASE k + 1 \notin s
      <4>1. s \in SUBSET (1 .. k)
        BY <3>2
      <4>2. more[s] = FoldsTo(it, names, events, s)
        <5>1. more[s] = it[s]
          BY <3>2
        <5> HIDE DEF more
        <5> QED
          BY <2>1, <4>1, <5>1, Zenon
      <4>3. CASE s = {}
        <5> HIDE DEF more
        <5> QED
          BY <4>2, <4>3 DEF FoldsTo
      <4>4. CASE s # {}
        <5>1. s \ {Max(s)} \in SUBSET (1 .. k + 1) /\ k + 1 \notin s \ {Max(s)}
          BY <3>2
        <5>2. more[s \ {Max(s)}] = it[s \ {Max(s)}]
          BY <5>1
        <5> HIDE DEF more
        <5>3. /\ FoldsTo(it, names, events, s) = Follow(it[s \ {Max(s)}], events[Max(s)])
              /\ FoldsTo(more, names, events, s) = Follow(more[s \ {Max(s)}], events[Max(s)])
          BY <4>4, Zenon DEF FoldsTo
        <5> QED
          BY <4>2, <5>2, <5>3
      <4> QED
        BY <4>3, <4>4
    <3> QED
      BY <3>1, <3>2
  <2>3. more = [s \in SUBSET (1 .. k + 1) |-> more[s]]
    OBVIOUS
  <2> HIDE DEF more
  <2>4. more = [s \in SUBSET (1 .. k + 1) |-> FoldsTo(more, names, events, s)]
    BY <2>2, <2>3
  <2> QED
    BY <2>4 DEF IsFold
<1>3. SUFFICES ASSUME ~ Good(n)
               PROVE  FALSE
  OBVIOUS
<1> HIDE DEF Good
<1>4. T \in SUBSET Nat /\ T # {}
  BY <1>3
<1>5. PICK k \in T : \A j \in T : k <= j
  <2> HIDE DEF T
  <2> QED
    BY <1>4, LeastNumber
<1>6. k # 0 /\ k - 1 \in Nat /\ (k - 1) + 1 = k
  BY <1>1, <1>5
<1>7. Good(k - 1)
  BY <1>5, <1>6
<1>8. Good((k - 1) + 1)
  BY <1>2, <1>6, <1>7
<1> QED
  BY <1>5, <1>6, <1>8

\* Replay takes the events in their order, from the first.
LEMMA ReplayFollows ==
    ASSUME NEW names, NEW events, NEW n \in Nat, DOMAIN events = 1 .. n
    PROVE  \E upto : /\ upto[0] = names
                     /\ \A i \in 1 .. n : upto[i] = Follow(upto[i - 1], events[i])
                     /\ upto[n] = Replay(names, events)
<1> DEFINE it == CHOOSE it : IsFold(it, names, events, n)
           upto == [i \in 0 .. n |-> it[1 .. i]]
<1>1. it = [s \in SUBSET (1 .. n) |-> FoldsTo(it, names, events, s)]
  <2>1. IsFold(it, names, events, n)
    BY FoldExists, Zenon
  <2> HIDE DEF it
  <2> QED
    BY <2>1 DEF IsFold
<1>2. Replay(names, events) = it[1 .. n]
  BY DEF Replay, FoldLeft, MapThenFoldSet, Follow, FoldsTo, IsFold
<1> HIDE DEF it
<1>3. ASSUME NEW s \in SUBSET (1 .. n)
      PROVE  it[s] = FoldsTo(it, names, events, s)
  BY <1>1, Zenon
<1>4. upto[0] = names
  <2>1. 1 .. 0 = {} /\ {} \in SUBSET (1 .. n) /\ 0 \in 0 .. n
    OBVIOUS
  <2> QED
    BY <1>3, <2>1 DEF FoldsTo
<1>5. ASSUME NEW i \in 1 .. n
      PROVE  upto[i] = Follow(upto[i - 1], events[i])
  <2>1. 1 .. i \in SUBSET (1 .. n) /\ (1 .. i) \ {i} = 1 .. i - 1
    OBVIOUS
  <2>4. i \in 1 .. i /\ 1 .. i # {}
    OBVIOUS
  <2>2. Max(1 .. i) = i
    <3>1. Max(1 .. i) \in 1 .. i /\ \A j \in 1 .. i : Max(1 .. i) >= j
      BY <2>1, <2>4, LastIsThere
    <3> QED
      BY <2>4, <3>1
  <2>3. upto[i] = it[1 .. i] /\ upto[i - 1] = it[1 .. i - 1]
    BY i \in 0 .. n, i - 1 \in 0 .. n
  <2> QED
    BY <1>3, <2>1, <2>2, <2>3, <2>4 DEF FoldsTo
<1>6. upto[n] = Replay(names, events)
  BY <1>2, n \in 0 .. n
<1> QED
  BY <1>4, <1>5, <1>6

\* A client that drops Gone and adds Come, and never drops what it adds, is left with the
\* names that were there and not gone, and with those that came.
LEMMA ReplayNames ==
    ASSUME NEW names, NEW events, NEW n \in Nat, DOMAIN events = 1 .. n,
           Gone(events) \cap Come(events) = {}
    PROVE  Replay(names, events) = (names \ Gone(events)) \cup Come(events)
<1>1. PICK upto : /\ upto[0] = names
                  /\ \A i \in 1 .. n : upto[i] = Follow(upto[i - 1], events[i])
                  /\ upto[n] = Replay(names, events)
  BY ReplayFollows
<1> DEFINE out(i) == {events[j].name : j \in {j \in 1 .. i : events[j].kind \in {"deleted", "renamed"}}}
           in(i) == {events[j].to : j \in {j \in 1 .. i : events[j].kind \in {"created", "renamed"}}}
           Good(i) == upto[i] = (names \ out(i)) \cup in(i)
           T == {i \in 0 .. n : ~ Good(i)}
<1>2. Good(0)
  BY <1>1
<1>3. ASSUME NEW i \in 1 .. n
      PROVE  /\ out(i) = IF events[i].kind \in {"deleted", "renamed"}
                         THEN out(i - 1) \cup {events[i].name} ELSE out(i - 1)
             /\ in(i) = IF events[i].kind \in {"created", "renamed"}
                        THEN in(i - 1) \cup {events[i].to} ELSE in(i - 1)
  <2>1. 1 .. i = (1 .. i - 1) \cup {i}
    OBVIOUS
  <2> QED
    BY <2>1
<1>4. ASSUME NEW i \in 1 .. n
      PROVE  out(i) \subseteq Gone(events) /\ in(i) \subseteq Come(events)
  BY 1 .. i \subseteq 1 .. n DEF Gone, Come
<1>5. ASSUME NEW i \in 1 .. n, Good(i - 1)
      PROVE  Good(i)
  <2> HIDE DEF out, in
  <2>1. upto[i] = Follow((names \ out(i - 1)) \cup in(i - 1), events[i])
    BY <1>1, <1>5
  <2>2. out(i) \cap in(i) = {}
    BY <1>4
  <2>3. CASE events[i].kind = "created"
    BY <1>3, <2>1, <2>2, <2>3 DEF Follow
  <2>4. CASE events[i].kind = "deleted"
    BY <1>3, <2>1, <2>2, <2>4 DEF Follow
  <2>5. CASE events[i].kind = "renamed"
    BY <1>3, <2>1, <2>2, <2>5 DEF Follow
  <2>6. CASE events[i].kind \notin {"created", "deleted", "renamed"}
    BY <1>3, <2>1, <2>6 DEF Follow
  <2> QED
    BY <2>3, <2>4, <2>5, <2>6
<1>6. Good(n)
  <2> HIDE DEF Good
  <2>1. SUFFICES ASSUME ~ Good(n)
                 PROVE  FALSE
    OBVIOUS
  <2>2. T \in SUBSET Nat /\ T # {}
    BY <2>1
  <2>3. PICK i \in T : \A j \in T : i <= j
    <3> HIDE DEF T
    <3> QED
      BY <2>2, LeastNumber
  <2>4. i # 0 /\ i \in 1 .. n /\ i - 1 \in 0 .. n /\ i - 1 \notin T
    BY <1>2, <2>3
  <2> QED
    BY <1>5, <2>3, <2>4
<1>7. out(n) = Gone(events) /\ in(n) = Come(events)
  BY DEF Gone, Come
<1> QED
  BY <1>1, <1>6, <1>7

\* One operation between two readings: the client has the right names.
THEOREM ReplayIsRight ==
    ASSUME NEW old \in Listing, NEW new \in Listing, OneStep(old, new), Unlinked(old)
    PROVE  Replay(Names(old), Changes(old, new)) = Names(new)
<1> DEFINE events == Changes(old, new)
<1>1. /\ Gone(events) = Names(old) \ Names(new)
      /\ Names(new) \ Names(old) \subseteq Come(events)
      /\ Come(events) \subseteq Names(new)
  BY OneChangeIsTold
<1>2. PICK n \in Nat : DOMAIN events = 1 .. n
  BY ChangesDomain
<1> HIDE DEF events
<1>3. Replay(Names(old), events) = (Names(old) \ Gone(events)) \cup Come(events)
  BY <1>1, <1>2, ReplayNames
<1> QED
  BY <1>1, <1>3 DEF events

LEMMA ScanStep ==
    ASSUME TypeOK, TypeOK', NEW o \in Entry
    PROVE  LET old == obj[o].files  new == obj'[o].files  events == Changes(old, new) IN
           /\ \A n \in Names(new) \ Names(old) :
                 \E i \in DOMAIN events : events[i].to = n /\ events[i].kind \in {"created", "renamed"}
           /\ OneStep(old, new) /\ Unlinked(old) => Replay(Names(old), events) = Names(new)
<1> DEFINE old == obj[o].files
           new == obj'[o].files
<1>1. old \in Listing /\ new \in Listing
  BY DEF TypeOK, Object
<1> HIDE DEF old, new
<1>2. \A n \in Names(new) \ Names(old) :
         \E i \in DOMAIN Changes(old, new) :
            Changes(old, new)[i].to = n /\ Changes(old, new)[i].kind \in {"created", "renamed"}
  BY <1>1, NewNamesAreTold
<1>3. OneStep(old, new) /\ Unlinked(old) => Replay(Names(old), Changes(old, new)) = Names(new)
  BY <1>1, ReplayIsRight
<1> QED
  BY <1>2, <1>3 DEF old, new

\* Every new file is told when a directory is read again, and a client that follows the
\* events of one change has the right names, in every step of every behaviour.
THEOREM ScansTell == Spec => ScanTells
<1>1. TypeOK /\ TypeOK' => 
         [\A o \in Entry :
            LET old == obj[o].files  new == obj'[o].files  events == Changes(old, new) IN
            obj[o].live /\ obj[o].fd # 0 /\ obj'[o].fd # 0 /\ new # old =>
              /\ \A n \in Names(new) \ Names(old) :
                    \E i \in DOMAIN events : events[i].to = n /\ events[i].kind \in {"created", "renamed"}
              /\ OneStep(old, new) /\ Unlinked(old) => Replay(Names(old), events) = Names(new)]_vars
  BY ScanStep
<1> QED
  BY <1>1, TypeCorrect, PTL DEF ScanTells, Spec

=============================================================================
