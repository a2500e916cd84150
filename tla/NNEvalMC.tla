-------------------------------- MODULE NNEvalMC --------------------------------
(* An instance of NNEval for TLC. *)
EXTENDS NNEval, TLC

CONSTANTS c1, c2, p1, p2

\* Both clients ask about one position, and one of them about another too.
MCAsks == c1 :> {p1, p2} @@ c2 :> {p2}

\* All positions fall into one entry of the table, so that they evict each
\* other and a lookup has to compare hashes.
OneSlot == [p \in Positions |-> "slot"]
================================================================================
