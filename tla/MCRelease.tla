------------------------------ MODULE MCRelease -------------------------------
\* Small instances of MagusRelease for TLC.
EXTENDS MagusRelease

CONSTANTS lib, app, web, x, y, w1, w2

WorkerSymmetry == Permutations(Worker)

Need(name, flavor, type) == [name |-> name, flavor |-> flavor, type |-> type]

Plain(flavor, items) ==
    [flavor |-> flavor, items |-> items, interactive |-> FALSE, restricted |-> FALSE,
     distfiles |-> {}, kept |-> {}]

\* app asks for the second flavor of lib, whose first one is interactive.
FlavorTree ==
    (lib :> <<[Plain("f", {}) EXCEPT !.interactive = TRUE], Plain("g", {})>>) @@
    (app :> <<Plain("", {Need(lib, "g", "run"), Need(lib, "g", "build")})>>) @@
    (web :> <<>>)

\* A port that is interactive, alone.
InteractiveTree ==
    (lib :> <<[Plain("", {}) EXCEPT !.interactive = TRUE]>>) @@ (app :> <<>>) @@ (web :> <<>>)

\* A flavor that does not exist, and none: both come to the default one.
ClashTree ==
    (lib :> <<Plain("f", {})>>) @@
    (app :> <<Plain("", {Need(lib, "g", "run"), Need(lib, "", "run")})>>) @@
    (web :> <<Plain("", {Need(lib, "", "run"), Need(app, "", "run")})>>)

\* A restricted library, found as the default flavor, and distfiles of all kinds.
RestrictedTree ==
    (lib :> <<[Plain("f", {}) EXCEPT !.restricted = TRUE, !.distfiles = {x}]>>) @@
    (app :> <<[Plain("", {Need(lib, "", "run")}) EXCEPT !.distfiles = {x, y}, !.kept = {x}]>>) @@
    (web :> <<>>)

\* A dependency that is not in the tree.
LackingTree ==
    (lib :> <<Plain("", {})>>) @@
    (app :> <<Plain("", {Need(lib, "", "run"), Need(web, "", "run")})>>) @@
    (web :> <<>>)

\* Two ports, one of which needs the other.
ChainTree ==
    (lib :> <<Plain("", {})>>) @@ (app :> <<Plain("", {Need(lib, "", "run")})>>)

SimpleTree == {ChainTree}

Trees == {FlavorTree, InteractiveTree, ClashTree, RestrictedTree, LackingTree}

Quiet == [made |-> TRUE, errors |-> FALSE, warnings |-> FALSE]

\* One test warns, one fails by a rule, and one by make.
Tests == {<<[Quiet EXCEPT !.warnings = TRUE], Quiet>>,
          <<Quiet, [Quiet EXCEPT !.errors = TRUE]>>,
          <<[Quiet EXCEPT !.made = FALSE], Quiet>>}

FewTests == {<<Quiet>>, <<[Quiet EXCEPT !.made = FALSE]>>}
=============================================================================
