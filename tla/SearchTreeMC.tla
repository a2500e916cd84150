------------------------------ MODULE SearchTreeMC ------------------------------
(* Instances of SearchTree for TLC. *)
EXTENDS SearchTree

CONSTANTS a, b

\* Nodes of neighbouring depths have different mutexes, all of one depth the same one.
TwoLocks == {0, 1}
LockOfDepth(n) == Len(n) % 2

\* Won: the position after the first move a.
WonAfterA == {<<a>>}

\* All moves are banned for two plies, or move a at the root, or none.
FewBans == {NoBan, [m \in Moves |-> 2], [m \in Moves |-> IF m = a THEN 1 ELSE 0]}
================================================================================
