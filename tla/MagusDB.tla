------------------------------- MODULE MagusDB -------------------------------
(***************************************************************************)
(* The master's PostgreSQL database and package store, as the slaves and   *)
(* the web front end of Magus see them (Tools/magus/schema.sql and the     *)
(* Class::DBI classes under Tools/lib/Magus).  The connection runs with    *)
(* AutoCommit (Magus/DBI.pm), so every statement is a transaction of its   *)
(* own; the operators below are single statements, and whoever needs two   *)
(* of them needs two steps.                                                *)
(*                                                                         *)
(* One run is modelled: rows of other runs are never touched by a slave.   *)
(***************************************************************************)
EXTENDS Naturals

CONSTANTS
    Port,       \* the rows of table ports that belong to the run
    Depends,    \* [Port -> SUBSET Port], the rows of table depends
    Machine     \* the rows of table machines

ASSUME DependsAssumption == Depends \in [Port -> SUBSET Port]

VARIABLES
    status,     \* ports.status
    locks,      \* the rows of table locks
    nextLock,   \* sequence locks_id_seq
    logs,       \* the ports that have a row in table logs
    pkgs        \* the ports whose package file is under PkgfilesRoot

dbVars == <<status, locks, nextLock, logs, pkgs>>

Status == {"untested", "pass", "warn", "skip", "fail", "internal"}

Lock == [id : Nat, port : Port, machine : Machine]

DBTypeOK ==
    /\ status \in [Port -> Status]
    /\ locks \subseteq Lock
    /\ nextLock \in Nat
    /\ logs \subseteq Port
    /\ pkgs \subseteq Port

DBInit ==
    /\ status = [p \in Port |-> "untested"]
    /\ locks = {}
    /\ nextLock = 1
    /\ logs = {}
    /\ pkgs = {}

-----------------------------------------------------------------------------
(* Queries.                                                                *)

Built(p) == status[p] \in {"pass", "warn"}

Locked(p) == \E l \in locks : l.port = p

\* Mutant: the view forgets ports.status = 'untested'.
MutReadyPorts ==
    {p \in Port : ~ Locked(p) /\ \A d \in Depends[p] : Built(d)}

\* Mutant: the view asks that dependencies have passed without warnings.
MutReadyPassed ==
    {p \in Port : /\ status[p] = "untested"
                  /\ ~ Locked(p)
                  /\ \A d \in Depends[p] : status[d] = "pass"}

\* View ready_ports.  Its last disjunct, depends.dependency = locks.port,
\* compares with the outer row's lock, which locks.id IS NULL has made NULL:
\* it is never true, so the view asks nothing of the locks of dependencies.
ReadyPorts ==
    {p \in Port : /\ status[p] = "untested"
                  /\ ~ Locked(p)
                  /\ \A d \in Depends[p] : Built(d)}

\* Port::all_depends: everything reachable through depends, without p itself.
AllDepends(p) ==
    {q \in Port \ {p} :
        \A S \in SUBSET Port :
            (Depends[p] \subseteq S /\ \A r \in S : Depends[r] \subseteq S) => q \in S}

MachineLocks(m) == {l \in locks : l.machine = m}

-----------------------------------------------------------------------------
(* Statements.                                                             *)

SetStatus(p, s) == status' = [status EXCEPT ![p] = s]

NewLock(p, m) == [id |-> nextLock, port |-> p, machine |-> m]

\* Mutant: table locks without unique (port).
MutDuplicate(p) == FALSE

\* Table locks has unique (port): what an INSERT would violate.
Duplicate(p) == Locked(p)

\* INSERT INTO locks
InsertLock(p, m) ==
    /\ ~ Duplicate(p)
    /\ locks' = locks \cup {NewLock(p, m)}
    /\ nextLock' = nextLock + 1

\* DELETE FROM locks WHERE id = ?: deleting a row that is gone is no error.
DeleteLock(l) == locks' = {k \in locks : k.id # l.id}

\* Mutant: the log of the port is not found.
MutDeleteLog(p) == UNCHANGED logs

\* DELETE FROM logs WHERE port = ?
DeleteLog(p) == logs' = logs \ {p}

=============================================================================
