---------------------------- MODULE GtpEngineMC ----------------------------
\* An instance of GtpEngine: three in a row on a line of five cells.
EXTENDS GtpEngine

MCCells == 1 .. 5
Threes == {i .. i + 2 : i \in 1 .. 3}
Of(stones, pla) == {stones[i][1] : i \in {i \in DOMAIN stones : stones[i][2] = pla}}

\* The cells that make three in a row for a side.
Threats(stones, pla) ==
  UNION {w \ Of(stones, pla) : w \in {w \in Threes : /\ w \cap Of(stones, 1 - pla) = {}
                                                    /\ Cardinality(w \cap Of(stones, pla)) = 2}}

MCLegalAfter(stones, pla) ==
  LET threats == Threats(stones, 1 - pla) IN
  IF threats = {} THEN MCCells \ Occupied(stones)
  ELSE IF Cardinality(threats) = 1 THEN threats ELSE {}

MCSetups == {<<>>, <<<<2, BLACK>>>>, <<<<2, BLACK>>, <<4, BLACK>>>>, <<<<1, WHITE>>, <<1, BLACK>>>>}
MCHandicaps == {<<2, 3>>, <<3, 5>>}
MCSgfs ==
  {[placements |-> <<<<1, WHITE>>>>, moves |-> <<<<3, BLACK>>, <<4, BLACK>>, <<5, WHITE>>>>, PL |-> BLACK],
   [placements |-> <<<<1, BLACK>>, <<5, WHITE>>>>, moves |-> <<<<3, BLACK>>, <<4, WHITE>>>>, PL |-> NoSide]}
=============================================================================
