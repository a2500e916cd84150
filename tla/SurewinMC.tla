------------------------------ MODULE SurewinMC ------------------------------
\* Instances of Surewin.
EXTENDS Surewin

\* Fours and open threes on three lines: a win with three threats.
Net == [moves |-> <<<<2,5>>, <<2,6>>, <<2,1>>, <<2,3>>, <<4,5>>, <<0,3>>, <<3,2>>, <<0,1>>>>,
        area |-> {<<3,5>>, <<3,4>>, <<2,2>>, <<1,5>>}]

\* Black has open threes on lines that cross; no attack gets through at once, and a move
\* or two later some do.
Race == [moves |-> <<<<1,1>>, <<5,4>>, <<1,2>>, <<4,4>>, <<2,4>>, <<3,4>>, <<3,3>>, <<0,0>>>>,
         area |-> {<<1,3>>, <<1,4>>, <<4,2>>, <<2,2>>}]

MCOpenings == {Net, Race}

\* On a board of 19 rows: black makes two fours at once on the edge, at <<0,5>>.
Edge == [moves |-> <<<<0,6>>, <<0,9>>, <<0,7>>, <<5,5>>, <<0,8>>, <<9,9>>, <<1,5>>, <<12,3>>,
                     <<2,5>>, <<15,8>>, <<3,5>>, <<10,16>>>>,
         area |-> {}]

MCEdge == {Edge}

\* A bit of the key.
MCSlot(sq) == Cardinality({c \in Occupied(sq) : (c[1] + 2 * c[2]) % 3 = 1}) % 2
=============================================================================
