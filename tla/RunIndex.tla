------------------------------- MODULE RunIndex -------------------------------
(***************************************************************************)
(* How the ports tree becomes the rows of a run: Magus::Index->sync        *)
(* (Tools/lib/Magus/Index.pm), which update_cluster.pl calls for a run     *)
(* that is not active yet.                                                 *)
(*                                                                         *)
(* A tree gives a name (the origin of a port) what its describe-yaml       *)
(* prints, for the default flavor first and for the other flavors.  What   *)
(* cannot be parsed is not there: without the first, all of it is missing. *)
(***************************************************************************)
EXTENDS Naturals, Sequences, FiniteSets

CONSTANTS
    Name,
    Flavor,     \* with "", which stands for none
    File,       \* distfiles
    Tree,       \* the trees a run may be made of
    SyncDies    \* whether update_cluster.pl may die

Row == [name : Name, flavor : Flavor]

\* A dependency as a port declares it, "name@flavor".  Types run, lib and pkg are "run",
\* what is needed before is "build".
Item == [name : Name, flavor : Flavor, type : {"run", "build"}]

\* kept: its restricted_distfiles.
Dump == [flavor : Flavor, items : SUBSET Item, interactive : BOOLEAN, restricted : BOOLEAN,
         distfiles : SUBSET File, kept : SUBSET File]

ASSUME TreeAssumption ==
    /\ "" \in Flavor
    /\ SyncDies \in BOOLEAN
    /\ IsFiniteSet(File)
    /\ \A t \in Tree : \A n \in Name :
          /\ t[n] \in Seq(Dump)
          /\ \A i, j \in DOMAIN t[n] : t[n][i].flavor = t[n][j].flavor => i = j

VARIABLES
    tree,
    status,     \* ports.status, "absent" where there is no row
    depends,    \* table depends
    sync        \* update_cluster.pl: the names, then the rows, it has still to do; "over" when
                \* it has activated the run

indexVars == <<tree, status, depends, sync>>

Status == {"untested", "pass", "warn", "skip", "fail", "internal"}

DependsRow == [port : Row, dependency : Row, type : {"run", "build"}]

\* The dumps of the tree as rows, and the dump of a row.
Rows == {r \in Row : \E i \in DOMAIN tree[r.name] : tree[r.name][i].flavor = r.flavor}

DumpOf(r) == tree[r.name][CHOOSE i \in DOMAIN tree[r.name] : tree[r.name][i].flavor = r.flavor]

DefaultFlavor(r) == tree[r.name][1].flavor = r.flavor

IndexInit ==
    /\ tree \in Tree
    /\ status = [r \in Row |-> "absent"]
    /\ depends = {}
    /\ sync = [pc |-> "scan", names |-> Name, rows |-> {}]

-----------------------------------------------------------------------------

\* recurse_ports: the rows of a name; interactive ports are skipped.
InsertPorts(n) ==
    /\ sync.pc = "scan" /\ n \in sync.names
    /\ status' = [r \in Row |-> CASE r \in Rows /\ r.name = n /\ DumpOf(r).interactive -> "skip"
                                  [] r \in Rows /\ r.name = n /\ ~ DumpOf(r).interactive -> "untested"
                                  [] OTHER -> status[r]]
    /\ sync' = [sync EXCEPT !.names = @ \ {n}]
    /\ UNCHANGED <<tree, depends>>

BuildDepends ==
    /\ sync.pc = "scan" /\ sync.names = {}
    /\ sync' = [sync EXCEPT !.pc = "link", !.rows = Rows]
    /\ UNCHANGED <<tree, status, depends>>

\* The row of a dependency: with its flavor, without a flavor, or the default flavor.
Resolve(item) ==
    LET named == {r \in Rows : r.name = item.name}
        same == {r \in named : r.flavor = item.flavor}
        plain == {r \in named : r.flavor = ""}
        default == {r \in named : DefaultFlavor(r)}
    IN  CASE same # {} -> same
          [] same = {} /\ plain # {} -> plain
          [] OTHER -> default

Missing(r) == {item \in DumpOf(r).items : Resolve(item) = {}}

Links(r, items) ==
    {l \in DependsRow : l.port = r /\ \E item \in items : l.type = item.type /\ l.dependency \in Resolve(item)}

\* Two declared dependencies that come to the same row of table depends.
Clashing(r) ==
    {item \in DumpOf(r).items \ Missing(r) :
        \E other \in DumpOf(r).items \ {item} :
            other.type = item.type /\ Resolve(other) = Resolve(item)}

Link(r) ==
    /\ sync.pc = "link" /\ r \in sync.rows
    /\ Missing(r) = {} /\ Clashing(r) = {}
    /\ depends' = depends \cup Links(r, DumpOf(r).items)
    /\ sync' = [sync EXCEPT !.rows = @ \ {r}]
    /\ UNCHANGED <<tree, status>>

\* Mutant: only the dependency that is missing is left out.
MutLinkMissing(r) ==
    /\ sync.pc = "link" /\ r \in sync.rows
    /\ Missing(r) # {}
    /\ depends' = depends \cup Links(r, DumpOf(r).items)
    /\ sync' = [sync EXCEPT !.rows = @ \ {r}]
    /\ UNCHANGED <<tree, status>>

\* A dependency that does not exist: the port fails, and what has been inserted stays.
LinkMissing(r) ==
    /\ sync.pc = "link" /\ r \in sync.rows
    /\ Missing(r) # {}
    /\ \E done \in SUBSET (DumpOf(r).items \ Missing(r)) : depends' = depends \cup Links(r, done)
    /\ status' = [status EXCEPT ![r] = "fail"]
    /\ sync' = [sync EXCEPT !.rows = @ \ {r}]
    /\ UNCHANGED tree

\* The primary key of depends is violated, and nothing catches the exception.
LinkClashing(r) ==
    /\ sync.pc = "link" /\ r \in sync.rows
    /\ Clashing(r) # {}
    /\ \E done \in SUBSET (DumpOf(r).items \ Missing(r)) :
          /\ done \cap Clashing(r) # {}
          /\ depends' = depends \cup Links(r, done)
    /\ sync' = [sync EXCEPT !.pc = "dead"]
    /\ UNCHANGED <<tree, status>>

SyncDone ==
    /\ sync.pc = "link" /\ sync.rows = {}
    /\ sync' = [sync EXCEPT !.pc = "done"]
    /\ UNCHANGED <<tree, status, depends>>

SyncDie ==
    /\ SyncDies
    /\ sync.pc \in {"scan", "link"}
    /\ sync' = [sync EXCEPT !.pc = "dead"]
    /\ UNCHANGED <<tree, status, depends>>

Sync ==
    \/ \E n \in Name : InsertPorts(n)
    \/ BuildDepends \/ SyncDone \/ SyncDie
    \/ \E r \in Rows : Link(r) \/ LinkMissing(r) \/ LinkClashing(r)

-----------------------------------------------------------------------------

IndexTypeOK ==
    /\ tree \in Tree
    /\ status \in [Row -> Status \cup {"absent"}]
    /\ depends \subseteq DependsRow
    /\ sync \in [pc : {"scan", "link", "done", "over", "dead"}, names : SUBSET Name, rows : SUBSET Row]

=============================================================================
