------------------------------ MODULE DirSnapshot -----------------------------
(***************************************************************************)
(* What kq_handle_changes of kqueue_fnm.c makes of two readings of a       *)
(* directory.  A listing gives the inode of a name, 0 for none; types,     *)
(* sizes and times of files are left out.                                  *)
(***************************************************************************)
EXTENDS Naturals, Sequences, FiniteSets, SequencesExt

CONSTANTS
    Name,
    Ino,
    Order       \* the names in the order getdents returns them

ASSUME OrderAssumption ==
    /\ Ino \subseteq Nat \ {0}
    /\ Order \in Seq(Name)
    /\ \A n \in Name : \E i \in DOMAIN Order : Order[i] = n
    /\ \A i, j \in DOMAIN Order : Order[i] = Order[j] => i = j

Listing == [Name -> Ino \cup {0}]

Nothing == [n \in Name |-> 0]

Names(list) == {n \in Name : list[n] # 0}

\* The directory itself.
Self == "self"

NewEvent(kind, name, to) == [kind |-> kind, name |-> name, to |-> to]

Event == [kind : {"none", "deleted", "created", "renamed", "changed"},
          name : Name \cup {Self}, to : Name \cup {Self}]

\* The first of a set of names.
First(S) == Order[CHOOSE i \in DOMAIN Order : Order[i] \in S /\ \A j \in 1 .. i - 1 : Order[j] \notin S]

\* file_info_find_ino: the names of an inode.
FindIno(list, ino) == {n \in Names(list) : list[n] = ino}

NoEvent == NewEvent("none", Self, Self)

\* "Notify removed first": what file_info_find_ni finds neither by inode nor by name.
Deleted(old, new) ==
    [i \in DOMAIN Order |->
        LET n == Order[i] IN
        IF old[n] # 0 /\ new[n] = 0 /\ FindIno(new, old[n]) = {}
        THEN NewEvent("deleted", n, n) ELSE NoEvent]

\* Mutant: a file is looked for by its name only.
MutTold(old, new, n) ==
    CASE new[n] = 0 \/ old[n] = new[n] -> NoEvent
      [] new[n] # 0 /\ old[n] # 0 -> NewEvent("changed", n, n)
      [] OTHER -> NewEvent("created", n, n)

\* What is told of a name of the new listing: it is looked for by its inode first.
Told(old, new, n) ==
    LET same == FindIno(old, new[n]) IN
    CASE new[n] = 0 -> NoEvent
      [] new[n] # 0 /\ same # {} /\ First(same) # n -> NewEvent("renamed", First(same), n)
      [] new[n] # 0 /\ same # {} /\ First(same) = n -> NoEvent
      [] new[n] # 0 /\ same = {} /\ old[n] # 0 -> NewEvent("changed", n, n)
      [] OTHER -> NewEvent("created", n, n)

\* The events in their order, with NoEvent where there is nothing to tell.
Changes(old, new) == Deleted(old, new) \o [i \in DOMAIN Order |-> Told(old, new, Order[i])]

\* kq_handle_notify_removed: every file ...
Lost(old) ==
    [i \in DOMAIN Order |->
        IF old[Order[i]] # 0 THEN NewEvent("deleted", Order[i], Order[i]) ELSE NoEvent]

\* ... and then the directory.
Removed(old) == Append(Lost(old), NewEvent("deleted", Self, Self))

\* How many there are to tell.
Count(events) == Cardinality({i \in DOMAIN events : events[i].kind # "none"})

-----------------------------------------------------------------------------
(* The reference: a client that keeps a list of names by the events.       *)

Replay(names, events) ==
    FoldLeft(LAMBDA S, e : CASE e.kind = "created" -> S \cup {e.to}
                             [] e.kind = "deleted" -> S \ {e.name}
                             [] e.kind = "renamed" -> (S \ {e.name}) \cup {e.to}
                             [] OTHER -> S,
             names, events)

Unlinked(list) == \A n, m \in Names(list) : list[n] = list[m] => n = m

\* One creation, removal or renaming (over another file or not) leads from old to new.
OneStep(old, new) ==
    \/ \E n \in Name : /\ \/ old[n] = 0 /\ new[n] \notin {old[m] : m \in Name}
                          \/ old[n] # 0 /\ new[n] = 0
                       /\ \A m \in Name \ {n} : new[m] = old[m]
    \/ \E n, m \in Name : /\ n # m /\ old[n] # 0 /\ new[n] = 0 /\ new[m] = old[n]
                          /\ \A k \in Name \ {n, m} : new[k] = old[k]

=============================================================================
