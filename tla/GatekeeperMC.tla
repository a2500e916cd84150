---------------------------- MODULE GatekeeperMC ----------------------------
\* An instance of Gatekeeper: one accepted net, an older and a newer candidate.
EXTENDS Gatekeeper
CONSTANTS m0, m1, m2
MCModels == {m0, m1, m2}
MCModelTime == [m \in MCModels |-> CASE m = m0 -> 2 [] m = m1 -> 1 [] m = m2 -> 3]
MCAccepted == {m0}
=============================================================================
