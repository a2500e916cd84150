------------------------------ MODULE GomokuMC ------------------------------
\* Instances of Gomoku.
EXTENDS Gomoku

\* Both sides build on one line and near it: open threes, split fours, blocks.
Quiet == [moves |-> <<<<2,1>>, <<0,1>>, <<2,2>>, <<0,2>>>>,
          area |-> {<<2,0>>, <<2,3>>, <<2,4>>, <<2,5>>, <<0,0>>, <<0,3>>, <<0,4>>, <<1,2>>}]

\* Black crosses two lines: threes in two directions, double fours, wins.
Cross == [moves |-> <<<<2,1>>, <<0,0>>, <<2,3>>, <<0,5>>, <<1,2>>, <<5,0>>, <<3,2>>, <<5,5>>>>,
          area |-> {<<2,2>>, <<2,4>>, <<2,5>>, <<2,0>>, <<4,2>>, <<5,2>>, <<0,2>>, <<3,3>>}]

\* A four and an open three at once, and a block that makes a four itself.
Race == [moves |-> <<<<1,1>>, <<1,5>>, <<1,2>>, <<2,0>>, <<1,3>>, <<3,0>>, <<2,4>>, <<5,0>>, <<3,4>>>>,
         area |-> {<<1,4>>, <<1,0>>, <<4,4>>, <<0,4>>, <<5,4>>, <<4,0>>, <<3,3>>, <<2,5>>}]

\* A game that nobody wins, but for its last moves.
Last == [moves |-> <<<<1,2>>, <<5,4>>, <<5,3>>, <<2,2>>, <<2,3>>, <<4,4>>, <<5,0>>, <<2,4>>, <<3,5>>,
                     <<4,5>>, <<3,3>>, <<2,1>>, <<3,4>>, <<4,1>>, <<4,0>>, <<1,5>>, <<5,2>>, <<4,3>>,
                     <<4,2>>, <<5,1>>, <<2,0>>, <<0,2>>, <<5,5>>, <<0,3>>, <<0,1>>, <<0,4>>, <<0,0>>,
                     <<1,3>>, <<3,1>>, <<3,2>>, <<1,0>>>>,
         area |-> Cells]

MCOpenings == {Quiet, Cross, Race, Last}
=============================================================================
