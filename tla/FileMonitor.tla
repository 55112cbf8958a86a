------------------------------ MODULE FileMonitor -----------------------------
(***************************************************************************)
(* The kqueue file monitor that the port devel/glib20 adds to GLib         *)
(* (kqueue_fnm.c, gkqueuefilemonitor.c), watching one directory.           *)
(*                                                                         *)
(* Threads of the application call kq_fnm_add and kq_fnm_del, which write  *)
(* to a pipe; one thread takes kevents, reads directories and calls back.  *)
(* An entry is what kq_fnm_add returns.  It allocates an object too, which *)
(* has the same name here; entries of one path share one object.           *)
(*                                                                         *)
(* Faults, of which MaxFaults happen in a behaviour:                       *)
(*   "rename"  the watched directory is renamed, in its parent directory   *)
(*             or out of it,                                               *)
(*   "full"    the pipe is full when kq_fnm_del writes to it,              *)
(*   "remount" a second file system is mounted over the directory.         *)
(***************************************************************************)
EXTENDS DirSnapshot

CONSTANTS
    Entry,
    None,
    MaxDirs,            \* the directories at a time, the removed ones still open included
    PipeSize,           \* the messages a pipe holds
    RateInit, RateMax, RateMul,
    Faults, MaxFaults

ASSUME MonitorAssumption ==
    /\ None \notin Entry
    /\ MaxDirs \in Nat \ {0} /\ PipeSize \in Nat \ {0} /\ MaxFaults \in Nat
    /\ RateInit \in Nat \ {0} /\ RateMax \in Nat /\ RateMul \in Nat \ {0}
    /\ RateInit <= RateMax

VARIABLES
    at,         \* [Place -> the directory there, 0 for none]
    over,       \* the root of what is mounted over "here", 0 for nothing
    list,       \* [Dir -> its Listing]
    mounted,    \* a kevent of filter EVFILT_FS is pending
    entry,      \* [Entry -> kq_fnme_t]
    obj,        \* [Entry -> kq_fnmo_t]
    cache,      \* fnmo_cache: objects under the hash of the path they came with
    pipe,       \* pfd
    mounts,     \* whether kfnm->mounts has something mounted over "here"
    monitor,    \* the thread kq_fnm_proccess_events_proc
    late,       \* [Entry -> callbacks after kq_fnm_del]
    upset       \* the faults that have happened

disk == <<at, over, list>>

vars == <<disk, mounted, entry, obj, cache, pipe, mounts, monitor, late, upset>>

\* "here" is the path all entries watch, "away" another name in the same parent
\* directory, "elsewhere" is outside of it.
Place == {"here", "away", "elsewhere"}

Dir == 1 .. MaxDirs

Interval == 0 .. RateMax

\* Settings as kq_fnm_create leaves them.  pend holds the notes of the kevent of the
\* directory, sub is a kevent of a file in it; tick is the expired timer; counted is
\* rate_lim_ev_cnt > 0.
Object == [live : BOOLEAN, fd : Dir \cup {0}, removed : BOOLEAN, cached : BOOLEAN,
           path : {"here", "away", "broken"}, files : Listing,
           interval : Interval, counted : BOOLEAN,
           timer : {"off", "oneshot", "periodic"}, tick : BOOLEAN,
           pend : SUBSET {"delete", "rename", "write"}, sub : BOOLEAN]

NewObject == [live |-> FALSE, fd |-> 0, removed |-> FALSE, cached |-> FALSE,
              path |-> "here", files |-> Nothing, interval |-> 0, counted |-> FALSE,
              timer |-> "off", tick |-> FALSE, pend |-> {}, sub |-> FALSE]

NewEntry == [live |-> FALSE, enabled |-> FALSE, obj |-> None]

\* todo: the objects kq_fnm_handle_mnt_point_change has still to come to; events: how
\* many are still to be told of obj, the first of them to the entries in left; sure: the
\* entry found enabled.
Idle == [pc |-> "wait", todo |-> {}, obj |-> None, events |-> 0, left |-> {}, sure |-> None]

Init ==
    /\ at = [p \in Place |-> IF p = "here" THEN 1 ELSE 0]
    /\ over = 0
    /\ list = [d \in Dir |-> Nothing]
    /\ mounted = FALSE
    /\ entry = [e \in Entry |-> NewEntry]
    /\ obj = [e \in Entry |-> NewObject]
    /\ cache = {}
    /\ pipe = <<>>
    /\ mounts = FALSE
    /\ monitor = Idle
    /\ late = [e \in Entry |-> 0]
    /\ upset = {}

Fault(f) == f \in Faults /\ Cardinality(upset) < MaxFaults /\ upset' = upset \cup {f}

-----------------------------------------------------------------------------
(* The file system: what open finds at a path, and the notes it raises.    *)

Root(p) == CASE p = "here" /\ over # 0 -> over
             [] p \in Place /\ ~(p = "here" /\ over # 0) -> at[p]
             [] OTHER -> 0

\* fstat succeeds and st_nlink is not 0.
Alive(d) == d = over \/ \E p \in Place : at[p] = d

\* A directory that is neither there nor open any more may be used for a new one.
Unused == {d \in Dir : ~ Alive(d) /\ \A o \in Entry : obj[o].fd # d}

Raise(d, note) ==
    obj' = [o \in Entry |-> IF obj[o].live /\ obj[o].fd = d /\ d # 0
                            THEN [obj[o] EXCEPT !.pend = @ \cup {note}] ELSE obj[o]]

DiskUnchanged == UNCHANGED <<entry, cache, pipe, mounts, monitor, late>>

\* A file is created, linked, removed or renamed in the directory.
ChangeFiles ==
    /\ \E d \in Dir, files \in Listing :
          /\ d = Root("here") /\ files # list[d]
          /\ \/ OneStep(list[d], files)
             \/ \E n, m \in Names(files) : n # m /\ files = [list[d] EXCEPT ![n] = files[m]]
          /\ list' = [list EXCEPT ![d] = files]
          /\ Raise(d, "write")
    /\ UNCHANGED <<at, over, mounted, upset>> /\ DiskUnchanged

\* A file that is monitored is written to.
Touch ==
    /\ \E o \in Entry : /\ obj[o].live /\ obj[o].fd # 0 /\ Names(obj[o].files) # {}
                        /\ ~ obj[o].sub
                        /\ obj' = [obj EXCEPT ![o].sub = TRUE]
    /\ UNCHANGED <<disk, mounted, upset>> /\ DiskUnchanged

Mkdir ==
    /\ at["here"] = 0
    /\ \E d \in Unused : at' = [at EXCEPT !["here"] = d]
    /\ UNCHANGED <<over, list, mounted, obj, upset>> /\ DiskUnchanged

Rmdir ==
    /\ at["here"] # 0 /\ over = 0 /\ list[at["here"]] = Nothing
    /\ Raise(at["here"], "delete")
    /\ at' = [at EXCEPT !["here"] = 0]
    /\ UNCHANGED <<over, list, mounted, upset>> /\ DiskUnchanged

RenameDir ==
    /\ Fault("rename")
    /\ over = 0
    /\ \E p, q \in Place : /\ at[p] # 0 /\ at[q] = 0
                           /\ Raise(at[p], "rename")
                           /\ at' = [at EXCEPT ![p] = 0, ![q] = at[p]]
    /\ UNCHANGED <<over, list, mounted>> /\ DiskUnchanged

\* A file system with any content.
Mount ==
    /\ at["here"] # 0 /\ over = 0
    /\ IF mounts \/ mounted THEN Fault("remount") ELSE UNCHANGED upset
    /\ over' \in Unused
    /\ \E files \in Listing : list' = [list EXCEPT ![over'] = files]
    /\ mounted' = TRUE
    /\ UNCHANGED <<at, obj>> /\ DiskUnchanged

\* By force: NOTE_REVOKE is treated like NOTE_DELETE.
Unmount ==
    /\ over # 0
    /\ Raise(over, "delete")
    /\ over' = 0
    /\ list' = [list EXCEPT ![over] = Nothing]
    /\ mounted' = TRUE
    /\ UNCHANGED <<at, upset>> /\ DiskUnchanged

-----------------------------------------------------------------------------
(* Operations on one object; each gives the new object.                    *)

\* kq_fnmo_rate_lim_stop.
Stopped(o) == [o EXCEPT !.interval = 0, !.counted = FALSE, !.timer = "off", !.tick = FALSE]

\* kq_fnmo_clean; closing a descriptor deletes its kevents.
Cleaned(o) == [Stopped(o) EXCEPT !.fd = 0, !.pend = {}, !.removed = TRUE,
                                 !.files = Nothing, !.sub = FALSE]

\* kq_fnmo_reopen_fd; it fails where there is no directory at the path.
Reopened(o) ==
    LET closed == [Stopped(o) EXCEPT !.fd = 0, !.pend = {}] IN
    IF Root(o.path) = 0 THEN closed
    ELSE [closed EXCEPT !.fd = Root(o.path), !.removed = FALSE]

\* kq_fnmo_init.
Watching(o) ==
    LET r == Reopened(o) IN
    IF r.fd = 0 THEN Cleaned(r) ELSE [r EXCEPT !.files = list[r.fd]]

\* Mutant: the interval is not held to the longest one.
MutScheduled(o) == [o EXCEPT !.interval = IF @ = 0 THEN RateInit ELSE @ * RateMul, !.timer = "oneshot"]

\* kq_fnmo_rate_lim_shedule_next, when kevent takes the timer: once, or again and
\* again at the longest interval.
Scheduled(o) ==
    LET next == IF o.interval = 0 THEN RateInit ELSE o.interval * RateMul IN
    CASE o.interval = RateMax -> o
      [] o.interval # RateMax /\ next < RateMax -> [o EXCEPT !.interval = next, !.timer = "oneshot"]
      [] OTHER -> [o EXCEPT !.interval = RateMax, !.timer = "periodic"]

\* ... and when it does not.
Unscheduled(o) == IF o.interval = RateMax THEN o ELSE [o EXCEPT !.interval = 0]

\* kq_handle_notify_removed.
Reported(o) == IF o.removed THEN o ELSE Cleaned(o)

ReportedEvents(o) == IF o.removed THEN <<>> ELSE Removed(o.files)

\* kq_handle_changes.
Rescanned(o) ==
    CASE o.fd = 0 -> o
      [] o.fd # 0 /\ ~ Alive(o.fd) -> Reported(o)
      [] OTHER -> [o EXCEPT !.files = list[o.fd]]

RescannedEvents(o) ==
    CASE o.fd = 0 -> <<>>
      [] o.fd # 0 /\ ~ Alive(o.fd) -> ReportedEvents(o)
      [] OTHER -> Changes(o.files, list[o.fd])

-----------------------------------------------------------------------------
(* Entries and the cache.                                                  *)

Members(o) == {e \in Entry : entry[e].live /\ entry[e].obj = o}

\* g_hash_table_lookup: the hash is the one of the path at the insertion, and the
\* key, which is compared next, the present path.
Lookup(p) == {o \in Entry : [key |-> p, obj |-> o] \in cache /\ obj[o].path = p}

\* Mutant: the object stays in the cache.
MutFreeEntry(e) ==
    /\ entry' = [entry EXCEPT ![e] = NewEntry]
    /\ obj' = IF Members(entry[e].obj) = {e} THEN [obj EXCEPT ![entry[e].obj] = NewObject] ELSE obj
    /\ cache' = cache

\* kq_fnme_free, with kq_fnmo_free after the last entry of the object.
FreeEntry(e) ==
    LET o == entry[e].obj
        last == Members(o) = {e}
    IN  /\ entry' = [entry EXCEPT ![e] = NewEntry]
        /\ obj' = IF last THEN [obj EXCEPT ![o] = NewObject] ELSE obj
        /\ cache' = IF last /\ obj[o].cached /\ Lookup(obj[o].path) = {o}
                    THEN cache \ {[key |-> obj[o].path, obj |-> o]} ELSE cache

\* kq_fnm_add; with a full pipe it undoes what it did, and returns NULL.
Add(e) ==
    /\ ~ entry[e].live /\ ~ obj[e].live /\ \A o \in cache : o.obj # e
    /\ Len(pipe) < PipeSize
    /\ entry' = [entry EXCEPT ![e] = [live |-> TRUE, enabled |-> TRUE, obj |-> e]]
    /\ obj' = [obj EXCEPT ![e] = [NewObject EXCEPT !.live = TRUE]]
    /\ pipe' = Append(pipe, [cb |-> "init", arg |-> e])
    /\ late' = [late EXCEPT ![e] = 0]
    /\ UNCHANGED <<disk, mounted, cache, mounts, monitor, upset>>

Del(e) ==
    /\ entry[e].live /\ entry[e].enabled
    /\ Len(pipe) < PipeSize
    /\ entry' = [entry EXCEPT ![e].enabled = FALSE]
    /\ pipe' = Append(pipe, [cb |-> "free", arg |-> e])
    /\ UNCHANGED <<disk, mounted, obj, cache, mounts, monitor, late, upset>>

\* "Error, free directly": in the thread of the caller.
DelDirectly(e) ==
    /\ Fault("full")
    /\ entry[e].live /\ entry[e].enabled
    /\ FreeEntry(e)
    /\ UNCHANGED <<disk, mounted, pipe, mounts, monitor, late>>

-----------------------------------------------------------------------------
(* The thread: messages.                                                   *)

Settled == monitor.events = 0

ReadPipe ==
    /\ monitor.pc = "wait" /\ Settled /\ pipe # <<>>
    /\ monitor' = [monitor EXCEPT !.pc = "pipe"]
    /\ UNCHANGED <<disk, mounted, entry, obj, cache, pipe, mounts, late, upset>>

PipeEmpty ==
    /\ monitor.pc = "pipe" /\ pipe = <<>>
    /\ monitor' = Idle
    /\ UNCHANGED <<disk, mounted, entry, obj, cache, pipe, mounts, late, upset>>

Message(cb, e) == monitor.pc = "pipe" /\ pipe # <<>> /\ Head(pipe) = [cb |-> cb, arg |-> e]

\* Mutant: the cache is not asked.
MutInitFirst(e) ==
    /\ Message("init", e)
    /\ pipe' = Tail(pipe)
    /\ cache' = cache \cup {[key |-> obj[e].path, obj |-> e]}
    /\ obj' = [obj EXCEPT ![e] = Watching([@ EXCEPT !.cached = TRUE])]
    /\ UNCHANGED <<disk, mounted, entry, mounts, monitor, late, upset>>

\* kq_fnme_init_cb: the first of a path is put into the cache ...
InitFirst(e) ==
    /\ Message("init", e)
    /\ Lookup(obj[e].path) = {}
    /\ pipe' = Tail(pipe)
    /\ cache' = cache \cup {[key |-> obj[e].path, obj |-> e]}
    /\ obj' = [obj EXCEPT ![e] = Watching([@ EXCEPT !.cached = TRUE])]
    /\ UNCHANGED <<disk, mounted, entry, mounts, monitor, late, upset>>

\* ... and the next ones share its object, which is opened again if it is closed.
InitShared(e) ==
    /\ Message("init", e)
    /\ pipe' = Tail(pipe)
    /\ \E o \in Lookup(obj[e].path) :
          /\ entry' = [entry EXCEPT ![e].obj = o]
          /\ obj' = [obj EXCEPT ![e] = NewObject,
                                ![o] = IF @.fd = 0 THEN Watching(@) ELSE @]
    /\ UNCHANGED <<disk, mounted, cache, mounts, monitor, late, upset>>

Free(e) ==
    /\ Message("free", e)
    /\ pipe' = Tail(pipe)
    /\ FreeEntry(e)
    /\ UNCHANGED <<disk, mounted, mounts, monitor, late, upset>>

-----------------------------------------------------------------------------
(* The thread: kevents of an object.                                       *)

\* The entries of o are told the events, one event after the other.
Telling(o, events, m) ==
    IF Count(events) = 0 THEN m
    ELSE [m EXCEPT !.obj = o, !.events = Count(events), !.left = Members(o)]

\* The object becomes new, and its entries are told the events.
Handled(o, new, events) ==
    /\ obj' = [obj EXCEPT ![o] = [new EXCEPT !.sub = @ /\ new.files # Nothing]]
    /\ monitor' = Telling(o, events, monitor)

HandleUnchanged == UNCHANGED <<disk, mounted, entry, cache, pipe, mounts, late, upset>>

Waiting(o) == monitor.pc = "wait" /\ Settled /\ obj[o].live

\* Mutant: an event that meets a running timer is forgotten.
MutLimited(old, o, new, events) ==
    \/ old.interval # 0 /\ Handled(o, new, events)
    \/ old.interval = 0 /\ Handled(o, [Scheduled(new) EXCEPT !.counted = TRUE], events)

\* kq_fnmo_rate_lim_check: an event is counted while the timer runs, or starts it.
Limited(old, o, new, events) ==
    \/ old.interval # 0 /\ Handled(o, [new EXCEPT !.counted = TRUE], events)
    \/ old.interval = 0 /\ Handled(o, [Scheduled(new) EXCEPT !.counted = TRUE], events)

\* Mutant: the path is not opened again.
MutOnDelete(o) ==
    LET r == [obj[o] EXCEPT !.pend = {}] IN
    /\ Waiting(o) /\ "delete" \in obj[o].pend
    /\ Handled(o, Reported(r), ReportedEvents(r))
    /\ HandleUnchanged

\* kq_fnm_proccess_event for the monitored directory, which takes all its notes.
\* "No ratelimit here": the path may have another directory by now.
OnDelete(o) ==
    LET r == Reopened(obj[o]) IN
    /\ Waiting(o) /\ "delete" \in obj[o].pend
    /\ IF r.fd # 0 THEN Handled(o, Rescanned(r), RescannedEvents(r))
                   ELSE Handled(o, Reported(r), ReportedEvents(r))
    /\ HandleUnchanged

\* The notes of writes: held back by the rate limit, or a rescan now.
Written(old, o, new, events) ==
    \/ Limited(old, o, new, events)
    \/ old.interval = 0 /\ Handled(o, Rescanned(new), events \o RescannedEvents(new))

OnWrite(o) ==
    /\ Waiting(o) /\ obj[o].pend = {"write"}
    /\ Written(obj[o], o, [obj[o] EXCEPT !.pend = {}], <<>>)
    /\ HandleUnchanged

\* kq_handle_rename finds the inode in the parent directory of the path ...
OnRename(o) ==
    LET p == obj[o].pend
        told == <<NewEvent("renamed", Self, Self)>>
    IN  /\ Waiting(o) /\ "rename" \in p /\ "delete" \notin p
        /\ \E place \in {"here", "away"} :
              LET new == [obj[o] EXCEPT !.pend = {}, !.path = place] IN
              /\ Root(place) = obj[o].fd
              /\ IF "write" \in p THEN Written(obj[o], o, new, told) ELSE Handled(o, new, told)
        /\ HandleUnchanged

\* ... or not.  By then '/' has been written over the first letter of the name, and
\* kqueue_event_handler drops the event of the directory, whose name has a '/'.
OnRenameAway(o) ==
    LET new == [obj[o] EXCEPT !.pend = {}, !.path = "broken"] IN
    /\ Waiting(o) /\ "rename" \in obj[o].pend /\ "delete" \notin obj[o].pend
    /\ \A place \in {"here", "away"} : Root(place) # obj[o].fd
    /\ Handled(o, Reported(new), IF new.removed THEN <<>> ELSE Lost(new.files))
    /\ HandleUnchanged

\* A file in the directory has been written to.  When its attributes are as they were
\* nothing is told and nothing is read again, because is_rate_lim_checked is set.
OnSub(o) ==
    LET new == [obj[o] EXCEPT !.sub = FALSE] IN
    /\ Waiting(o) /\ obj[o].sub
    /\ \/ Limited(obj[o], o, new, <<>>)
       \/ /\ obj[o].interval = 0
          /\ \/ \E n \in Names(new.files) : Handled(o, new, <<NewEvent("changed", n, n)>>)
             \/ Handled(o, new, <<>>)
    /\ HandleUnchanged

\* The time of a timer is over.
Expire(o) ==
    /\ obj[o].live /\ obj[o].timer # "off" /\ ~ obj[o].tick
    /\ obj' = [obj EXCEPT ![o].tick = TRUE,
                          ![o].timer = IF @ = "oneshot" THEN "off" ELSE @]
    /\ UNCHANGED monitor /\ HandleUnchanged

\* Mutant: the timer is not started again.
MutOnTick(o) ==
    LET old == [obj[o] EXCEPT !.tick = FALSE]
        new == [old EXCEPT !.counted = FALSE]
    IN  /\ Waiting(o) /\ obj[o].tick
        /\ \/ ~ old.counted /\ Handled(o, Stopped(old), <<>>)
           \/ old.counted /\ Handled(o, Rescanned(new), RescannedEvents(new))
        /\ HandleUnchanged

OnTick(o) ==
    LET old == [obj[o] EXCEPT !.tick = FALSE] IN
    /\ Waiting(o) /\ obj[o].tick
    /\ \/ ~ old.counted /\ Handled(o, Stopped(old), <<>>)
       \/ /\ old.counted
          /\ \E new \in {Scheduled([old EXCEPT !.counted = FALSE]),
                         Unscheduled([old EXCEPT !.counted = FALSE])} :
                Handled(o, Rescanned(new), RescannedEvents(new))
    /\ HandleUnchanged

-----------------------------------------------------------------------------
(* The thread: mounts, and callbacks.                                      *)

\* kq_handle_mount_changes: the list of mounts is compared with the one kept.
OnMount ==
    LET found == {c.obj : c \in {c \in cache : obj[c.obj].fd # 0 /\ obj[c.obj].path = "here"}} IN
    /\ monitor.pc = "wait" /\ Settled /\ mounted
    /\ mounted' = FALSE
    /\ mounts' = (over # 0)
    /\ monitor' = IF mounts = mounts' THEN Idle ELSE [Idle EXCEPT !.pc = "mount", !.todo = found]
    /\ UNCHANGED <<disk, entry, obj, cache, pipe, late, upset>>

\* kq_fnm_handle_mnt_point_change, one object at a time.
Remounted(o) ==
    LET r == Reopened(obj[o]) IN
    /\ monitor.pc = "mount" /\ Settled /\ o \in monitor.todo
    /\ obj' = [obj EXCEPT ![o] = IF r.fd # 0 THEN Rescanned(r) ELSE Reported(r)]
    /\ monitor' = Telling(o, IF r.fd # 0 THEN RescannedEvents(r) ELSE ReportedEvents(r),
                          [monitor EXCEPT !.todo = @ \ {o}])
    /\ HandleUnchanged

RemountDone ==
    /\ monitor.pc = "mount" /\ Settled /\ monitor.todo = {}
    /\ monitor' = Idle
    /\ UNCHANGED obj /\ HandleUnchanged

\* Mutant: entries are not asked whether they are enabled.
MutLook(e) ==
    /\ e \in monitor.left /\ monitor.sure = None
    /\ monitor' = [monitor EXCEPT !.left = @ \ {e}, !.sure = e]
    /\ UNCHANGED obj /\ HandleUnchanged

\* kq_fnmo_cb_func_call: an entry is found enabled ("XXX: try lock here?") ...
Look(e) ==
    /\ e \in monitor.left /\ monitor.sure = None
    /\ monitor' = [monitor EXCEPT !.left = @ \ {e},
                                  !.sure = IF entry[e].enabled THEN e ELSE None]
    /\ UNCHANGED obj /\ HandleUnchanged

\* ... and is called back, whatever has happened to it in between.
Call(e) ==
    /\ e = monitor.sure
    /\ monitor' = [monitor EXCEPT !.sure = None]
    /\ late' = IF entry[e].enabled THEN late ELSE [late EXCEPT ![e] = @ + 1]
    /\ UNCHANGED <<disk, mounted, entry, obj, cache, pipe, mounts, upset>>

NextEvent ==
    /\ monitor.events # 0 /\ monitor.left = {} /\ monitor.sure = None
    /\ monitor' = IF monitor.events = 1 THEN [monitor EXCEPT !.events = 0, !.obj = None]
                  ELSE [monitor EXCEPT !.events = @ - 1, !.left = Members(monitor.obj)]
    /\ UNCHANGED obj /\ HandleUnchanged

-----------------------------------------------------------------------------

Api == \E e \in Entry : Add(e) \/ Del(e) \/ DelDirectly(e)

Disk == ChangeFiles \/ Touch \/ Mkdir \/ Rmdir \/ RenameDir \/ Mount \/ Unmount

OnDirectory(o) == OnDelete(o) \/ OnWrite(o) \/ OnRename(o) \/ OnRenameAway(o)

Thread ==
    \/ PipeEmpty \/ RemountDone \/ NextEvent
    \/ \E e \in Entry : \/ InitFirst(e) \/ InitShared(e) \/ Free(e)
                        \/ Remounted(e) \/ Look(e) \/ Call(e)

Next ==
    \/ Api \/ Disk
    \/ ReadPipe \/ OnMount \/ Thread
    \/ \E o \in Entry : OnDirectory(o) \/ OnSub(o) \/ OnTick(o) \/ Expire(o)

Spec == Init /\ [][Next]_vars

\* The thread runs, kevent hands out what is pending in turn, and timers expire.
FairSpec ==
    /\ Spec
    /\ WF_vars(Thread) /\ SF_vars(ReadPipe) /\ SF_vars(OnMount)
    /\ \A o \in Entry : /\ SF_vars(OnDirectory(o)) /\ SF_vars(OnSub(o)) /\ SF_vars(OnTick(o))
                       /\ WF_vars(Expire(o))

-----------------------------------------------------------------------------
(* Properties.                                                             *)

TypeOK ==
    /\ at \in [Place -> Dir \cup {0}]
    /\ over \in Dir \cup {0}
    /\ list \in [Dir -> Listing]
    /\ mounted \in BOOLEAN
    /\ entry \in [Entry -> [live : BOOLEAN, enabled : BOOLEAN, obj : Entry \cup {None}]]
    /\ obj \in [Entry -> Object]
    /\ cache \subseteq [key : {"here", "away", "broken"}, obj : Entry]
    /\ pipe \in Seq([cb : {"init", "free"}, arg : Entry])
    /\ mounts \in BOOLEAN
    /\ monitor \in [pc : {"wait", "pipe", "mount"}, todo : SUBSET Entry,
                   obj : Entry \cup {None}, events : Nat,
                   left : SUBSET Entry, sure : Entry \cup {None}]
    /\ late \in [Entry -> Nat]
    /\ upset \subseteq Faults

\* Whatever the pipe, the cache, an entry and the thread refer to has not been freed,
\* unless the directory has been renamed or the pipe was full.
NothingDangles ==
    upset \cap {"rename", "full"} = {} =>
        /\ \A i \in DOMAIN pipe : entry[pipe[i].arg].live
        /\ \A e \in Entry : entry[e].live => obj[entry[e].obj].live
        /\ \A c \in cache : obj[c.obj].live
        /\ \A e \in monitor.left \cup ({monitor.sure} \ {None}) : entry[e].live

\* The entries of a path that have been taken from the pipe share the object in the
\* cache, unless the directory has been renamed.
OneObject ==
    "rename" \notin upset =>
        \A e \in Entry : entry[e].live =>
            \/ \E i \in DOMAIN pipe : pipe[i] = [cb |-> "init", arg |-> e]
            \/ Lookup("here") = {entry[e].obj}

\* kq_fnm_del ("Cancel notifications") may be late for one callback, never for two.
LateOnce == \A e \in Entry : late[e] <= 1

\* A change that has been held back has a timer that will bring it out.
HeldBackIsTimed ==
    \A o \in Entry : obj[o].live /\ obj[o].counted => obj[o].timer # "off" \/ obj[o].tick

\* When nothing is pending for an object it has the directory that is at its path now,
\* and knows the files in it, after mounts, removals and renames.
Known ==
    "remount" \notin upset =>
        \A o \in Entry :
            /\ obj[o].live /\ obj[o].fd # 0
            /\ obj[o].pend = {} /\ ~ obj[o].counted /\ ~ mounted /\ o \notin monitor.todo
            => obj[o].fd = Root(obj[o].path) /\ obj[o].files = list[obj[o].fd]

\* What is told of a rescan names every new file; and when one operation lies between
\* two readings, a client that follows the events has the right names afterwards
\* (unless two names in the directory were hard links of one file).
ScanTells ==
    [][\A o \in Entry :
          LET old == obj[o].files  new == obj'[o].files  events == Changes(old, new) IN
          obj[o].live /\ obj[o].fd # 0 /\ obj'[o].fd # 0 /\ new # old =>
              /\ \A n \in Names(new) \ Names(old) :
                    \E i \in DOMAIN events : events[i].to = n /\ events[i].kind \in {"created", "renamed"}
              /\ OneStep(old, new) /\ Unlinked(old) => Replay(Names(old), events) = Names(new)]_vars

\* When the directory is left alone, every watcher comes to know what is in it,
\* however often the rate limit has held it back.
CatchesUp ==
    <>[][disk' = disk]_disk =>
        <>[](\A o \in Entry : obj[o].live /\ obj[o].fd # 0 => obj[o].files = list[obj[o].fd])

\* An entry that stays is watched in the end, through mounts and unmounts, if there
\* always is a directory and changes come too slowly for the rate limit: the rescan of
\* a timer may come before the event of an unmount, which then opens nothing.
Attended ==
    [](at["here"] # 0 /\ upset = {} /\ \A o \in Entry : ~ obj[o].counted) =>
        \A e \in Entry : <>[](entry[e].enabled) => <>[](\E o \in Entry : entry[e].obj = o /\ obj[o].fd # 0)

=============================================================================
