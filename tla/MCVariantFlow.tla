--------------------------- MODULE MCVariantFlow ---------------------------
(* Small instances of VariantFlow.                                         *)
EXTENDS VariantFlow

CONSTANTS t1, t2, proto, core, app

TwoTasks == {t1, t2}
OneTask == {t1}
Two == {core, app}
Three == {proto, core, app}

E(r, make, sites, blocks, named) ==
    [repo |-> r, make |-> make, sites |-> sites, blocks |-> blocks, named |-> named]

\* A proto to be made by hand, a repository that blocks, one that follows; a
\* blocker that the request did not name before one that has nothing to change
\* or was not named either.
MakeFirst == <<E(proto, TRUE, TRUE, TRUE, TRUE), E(core, FALSE, TRUE, FALSE, TRUE)>>
BlockerFirst == <<E(core, FALSE, TRUE, TRUE, FALSE), E(app, FALSE, TRUE, FALSE, TRUE)>>
Unnamed == <<E(core, FALSE, FALSE, FALSE, TRUE), E(app, FALSE, TRUE, FALSE, FALSE)>>
SomePlans == {MakeFirst, BlockerFirst, Unnamed}
BlockerPlans == {BlockerFirst}

StopIt == [task |-> t1, stop |-> TRUE, only |-> {}, exclude |-> {}]
NotApp == [task |-> t1, stop |-> FALSE, only |-> {}, exclude |-> {app}]
OnlyApp == [task |-> t1, stop |-> FALSE, only |-> {app}, exclude |-> {}]
SomeMessages == {StopIt, NotApp}
OneMessage == {NotApp}
=============================================================================
