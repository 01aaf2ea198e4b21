-------------------------- MODULE MCChainReaction --------------------------
(* Small instances of ChainReaction.                                       *)
EXTENDS ChainReaction

\* A contract, its server and a client this system has no copy of.
ThreeRepos == {"contract", "server", "client"}
TwoLocal == {"contract", "server"}

\* No depth, the smallest ones, and one that no path of three repositories uses up.
SomeDepths == {0, 1, 2, 7}
=============================================================================
