----------------------------- MODULE BuildQueue ------------------------------
(***************************************************************************)
(* What table locks promises to the rest of Magus, whoever the slaves are: *)
(* a port has at most one owner; its status and its package change only    *)
(* while it is owned; and an owner gives a port up either unbuilt or with  *)
(* its package in the store, so that a port that depends on it finds it.   *)
(***************************************************************************)
CONSTANTS
    Port,
    Machine,    \* the owners
    None        \* no owner: not a machine

VARIABLES
    status,     \* [Port -> the result of its last test]
    owner,      \* [Port -> the machine that has claimed it, or None]
    pkgs        \* the ports that have a package

queueVars == <<status, owner, pkgs>>

Results == {"untested", "pass", "warn", "skip", "fail", "internal"}

Init ==
    /\ status = [p \in Port |-> "untested"]
    /\ owner = [p \in Port |-> None]
    /\ pkgs = {}

Claim(p) ==
    /\ owner[p] = None
    /\ \E m \in Machine : owner' = [owner EXCEPT ![p] = m]
    /\ UNCHANGED <<status, pkgs>>

Report(p) ==
    /\ owner[p] # None
    /\ \E r \in Results : status' = [status EXCEPT ![p] = r]
    /\ UNCHANGED <<owner, pkgs>>

Store(p) ==
    /\ owner[p] # None
    /\ status[p] \in {"pass", "warn"}
    /\ pkgs' = pkgs \cup {p}
    /\ UNCHANGED <<status, owner>>

Release(p) ==
    /\ owner[p] # None
    /\ status[p] \in {"pass", "warn"} => p \in pkgs
    /\ owner' = [owner EXCEPT ![p] = None]
    /\ UNCHANGED <<status, pkgs>>

Next == \E p \in Port : Claim(p) \/ Report(p) \/ Store(p) \/ Release(p)

Spec == Init /\ [][Next]_queueVars

=============================================================================
