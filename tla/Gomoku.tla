------------------------------- MODULE Gomoku -------------------------------
(***************************************************************************)
(* The rules of the game: ThreatHandler and Board (game/board.cpp) and     *)
(* BoardHistory (game/boardhistory.cpp).                                   *)
(*                                                                         *)
(* A game is never played until five stones are in a row.  The handler     *)
(* keeps, for each side and direction, the cells where a stone would make  *)
(* an open four (ff), a four (ft) or an open three (tt), and the cell that *)
(* would make a five; it updates them around each new stone.  Only moves   *)
(* that do not lose at once are legal, and who leaves the other side none  *)
(* has won.                                                                *)
(*                                                                         *)
(* linear_bit, border_bit and square hold the same stones four, four and   *)
(* one times: here they are the set of each side's stones.  The three      *)
(* tables of a side and direction are disjoint: here they are one function *)
(* to the kind of threat.  Six in a row wins (six_wins is always 1).       *)
(***************************************************************************)
EXTENDS Integers, Sequences, FiniteSets

CONSTANTS
  boardSize,          \* squares: the program passes x_size only
  Openings,           \* the first moves of the games that are explored, and the area
                      \* on whose cells they go on (a bound)
  MaxPlies,           \* bound: the moves after an opening
  NO_FIVE, FIVE_WIN

Sides == {0, 1}                 \* black moves first
Cells == (0 .. boardSize - 1) \X (0 .. boardSize - 1)

\* mult = 1, boardSize, -boardSize + 1 and boardSize + 1.
Dirs == 0 .. 3
Step == <<<<0, 1>>, <<1, 0>>, <<-1, 1>>, <<1, 1>>>>

ASSUME SizeAssumption == boardSize \in Nat \ {0}
ASSUME OpeningsAssumption ==
  /\ MaxPlies \in Nat
  /\ \A o \in Openings : o.moves \in Seq(Cells) /\ o.area \subseteq Cells
ASSUME FiveAssumption == NO_FIVE \notin Cells /\ FIVE_WIN \notin Cells /\ NO_FIVE # FIVE_WIN

VARIABLES
  handler,            \* board.threatHandler: the stones, the tables and five_threat
  legal,              \* board.threatHandler.legal
  next,               \* presumedNextMovePla
  numTurns,
  isGameFinished, winner,
  opening             \* which opening is played

gameVars == <<handler, legal, next, numTurns, isGameFinished, winner, opening>>

Kinds == {"ff", "ft", "tt"}
NoWinner == 2
Handler == [square : [Sides -> SUBSET Cells],
            threat : [Sides -> [Dirs -> [Kinds -> SUBSET Cells]]],
            five : Cells \cup {NO_FIVE, FIVE_WIN}]

-----------------------------------------------------------------------------
(* What a stone of a side would make on a line through an empty cell.  The *)
(* line is seen from the cell, at offset 0: which offsets are the side's   *)
(* own stones and which are empty; the others are border_bit, or stones of *)
(* the other side.                                                         *)

At(c, d, k) == <<c[1] + k * Step[d + 1][1], c[2] + k * Step[d + 1][2]>>
Occupied(sq) == sq[0] \cup sq[1]
Free(sq) == Cells \ Occupied(sq)

Line(sq, side, d, c) ==
  [own |-> {k \in -4 .. 4 : At(c, d, k) \in sq[side]},
   empty |-> {k \in -4 .. 4 : At(c, d, k) \in Free(sq)}]

\* a .. b are the side's own, once it puts a stone on the cell.
OwnRun(line, a, b) == (a .. b) \ {0} \subseteq line.own

MaxOf(A) == CHOOSE a \in A : \A b \in A : b <= a

IsFive(line) == \E a \in -4 .. 0 : OwnRun(line, a, a + 4)

\* Where four in a row may begin.  The code tries the last one first, and looks
\* no further.
FourStarts(line) == {a \in -3 .. 0 : OwnRun(line, a, a + 3)}

IsFreeFour(line) ==
  /\ FourStarts(line) # {}
  /\ LET a == MaxOf(FourStarts(line)) IN {a - 1, a + 4} \subseteq line.empty

GappedFour(line) ==
  \E a \in -4 .. 0 : \E gap \in (a + 1 .. a + 3) \ {0} :
    /\ gap \in line.own \cup line.empty
    /\ (a .. a + 4) \ {0, gap} \subseteq line.own

IsFour(line) ==
  IF FourStarts(line) # {}
  THEN LET a == MaxOf(FourStarts(line)) IN {a - 1, a + 4} \cap (line.own \cup line.empty) # {}
  ELSE GappedFour(line)

ThreeStarts(line) ==
  {a \in -2 .. 0 : OwnRun(line, a, a + 2) /\ {a - 1, a + 3} \subseteq line.empty}

GappedThree(line) ==
  \E a \in -3 .. 0 : \E gap \in (a + 1 .. a + 2) \ {0} :
    /\ (a .. a + 3) \ {0, gap} \subseteq line.own
    /\ {a - 1, gap, a + 4} \subseteq line.empty

IsThree(line) ==
  IF ThreeStarts(line) # {}
  THEN LET a == MaxOf(ThreeStarts(line)) IN {a - 2, a + 4} \cap (line.own \cup line.empty) # {}
  ELSE GappedThree(line)

KindOf(line) ==
  IF IsFive(line) THEN "five"
  ELSE IF IsFreeFour(line) THEN "ff"
  ELSE IF IsFour(line) THEN "ft"
  ELSE IF IsThree(line) THEN "tt" ELSE "none"

-----------------------------------------------------------------------------
(* The tables.                                                             *)

\* What each free cell of a region, given for each direction, would make.
Seen(sq, region) ==
  UNION {{[side |-> side, dir |-> d, cell |-> c, kind |-> KindOf(Line(sq, side, d, c))] :
            c \in region[d] \ Occupied(sq)} : side \in Sides, d \in Dirs}

CellsOf(seen, side, d, kind) ==
  {s.cell : s \in {s \in seen : s.side = side /\ s.dir = d /\ s.kind = kind}}

\* One five is remembered with its cell; a second one wins.  Fives are not in
\* the tables.
FiveThreat(seen) ==
  LET fives == {s \in seen : s.kind = "five"} IN
  CASE Cardinality(fives) = 0 -> NO_FIVE
    [] Cardinality(fives) = 1 -> (CHOOSE f \in fives : TRUE).cell
    [] Cardinality(fives) > 1 -> FIVE_WIN

\* A mistake: a stone also ends the five of a cell that is four away.
AroundThree(m) == [d \in Dirs |-> {At(m, d, k) : k \in -3 .. 3} \cap Cells]

\* The cells of the lines through m that a stone at m may change.
Around(m) == [d \in Dirs |-> {At(m, d, k) : k \in -5 .. 5} \cap Cells]

\* local_update_of_threats, after five_threat was set to NO_FIVE: the free
\* cells around m are computed again, and m itself is cleared.
LocalUpdate(sq, threat, m) ==
  LET seen == Seen(sq, Around(m))
      changed(d) == (Around(m)[d] \cap Free(sq)) \cup {m} IN
  [square |-> sq,
   threat |-> [side \in Sides |-> [d \in Dirs |-> [kind \in Kinds |->
                 (threat[side][d][kind] \ changed(d)) \cup CellsOf(seen, side, d, kind)]]],
   five |-> FiveThreat(seen)]

do_move(h, m, side) == LocalUpdate([h.square EXCEPT ![side] = @ \cup {m}], h.threat, m)

\* A mistake: the tables stay as they are.
undo_stone_only(h, m, side) == [h EXCEPT !.square = [@ EXCEPT ![side] = @ \ {m}], !.five = NO_FIVE]

undo_move(h, m, side) == LocalUpdate([h.square EXCEPT ![side] = @ \ {m}], h.threat, m)

\* setStartPosition: the tables of a position, computed from nothing.
Scan(sq) ==
  LET seen == Seen(sq, [d \in Dirs |-> Cells]) IN
  [square |-> sq,
   threat |-> [side \in Sides |-> [d \in Dirs |-> [kind \in Kinds |-> CellsOf(seen, side, d, kind)]]],
   five |-> FiveThreat(seen)]

\* init: a handler without stones.
NewHandler ==
  [square |-> [side \in Sides |-> {}],
   threat |-> [side \in Sides |-> [d \in Dirs |-> [kind \in Kinds |-> {}]]],
   five |-> NO_FIVE]

-----------------------------------------------------------------------------
(* generate_legal_moves.                                                   *)

FoursOf(h, side) == UNION {h.threat[side][d][kind] : d \in Dirs, kind \in {"ff", "ft"}}

\* The open fours that a side threatens, in the order of the direction and of
\* the cell's number.
FreeFours(h, side) == UNION {{[dir |-> d, cell |-> c] : c \in h.threat[side][d].ff} : d \in Dirs}
Before(f, g) ==
  \/ f.dir < g.dir
  \/ f.dir = g.dir /\ f.cell[1] * boardSize + f.cell[2] <= g.cell[1] * boardSize + g.cell[2]

\* The first cell that is not the side's, next to the run of stones at c.
RunEnd(sq, side, c, d, sign) ==
  LET k == CHOOSE k \in 1 .. boardSize :
             At(c, d, sign * k) \notin sq[side] /\ \A j \in 1 .. k - 1 : At(c, d, sign * j) \in sq[side]
  IN At(c, d, sign * k)

\* The cells that keep the first open four from being made.
Defences(h, old) ==
  LET f == CHOOSE f \in FreeFours(h, old) : \A g \in FreeFours(h, old) : Before(f, g)
  IN {f.cell, RunEnd(h.square, old, f.cell, f.dir, 1), RunEnd(h.square, old, f.cell, f.dir, -1)}

\* A mistake: what defends against one open four defends against all.
DefendsAlways(h, player, c) == TRUE

\* With a stone on c, no open four is left anywhere but on c.
Defends(h, player, c) ==
  LET sq == [h.square EXCEPT ![player] = @ \cup {c}] IN
  \A f \in FreeFours(h, 1 - player) :
    f.cell # c => ~IsFreeFour(Line(sq, 1 - player, f.dir, f.cell))

LegalMoves(h, player) ==
  CASE h.five = FIVE_WIN -> {}
    [] h.five \in Cells -> {c \in {h.five} : c \in FoursOf(h, player) \/ Defends(h, player, c)}
    [] h.five = NO_FIVE /\ FreeFours(h, 1 - player) # {} ->
         FoursOf(h, player) \cup {c \in Defences(h, 1 - player) : Defends(h, player, c)}
    [] h.five = NO_FIVE /\ FreeFours(h, 1 - player) = {} -> Cells \ Occupied(h.square)

-----------------------------------------------------------------------------
(* Games.                                                                  *)

\* BoardHistory::clear for an empty board.
GameInit ==
  /\ handler = NewHandler
  /\ legal = Cells
  /\ next = 0
  /\ numTurns = 0
  /\ isGameFinished = FALSE /\ winner = NoWinner
  /\ opening \in Openings

\* Bound: games follow an opening, and then go on in its area.
Explored(m) ==
  IF numTurns < Len(opening.moves) THEN m = opening.moves[numTurns + 1]
  ELSE m \in opening.area /\ numTurns < Len(opening.moves) + MaxPlies

\* makeBoardMoveTolerant, while the game is not over; do_move asserts that the
\* cell is free.  A full board is a draw, whatever the last move was.
MakeMove(m) ==
  /\ ~isGameFinished /\ Explored(m)
  /\ m \in legal /\ m \notin Occupied(handler.square)
  /\ handler' = do_move(handler, m, next)
  /\ next' = 1 - next
  /\ numTurns' = numTurns + 1
  /\ IF Occupied(handler'.square) = Cells
     THEN isGameFinished' = TRUE /\ winner' = NoWinner /\ UNCHANGED legal
     ELSE /\ legal' = LegalMoves(handler', next')
          /\ isGameFinished' = (legal' = {})
          /\ winner' = IF legal' = {} THEN next ELSE NoWinner
  /\ UNCHANGED opening

GameNext == \E m \in Cells : MakeMove(m)

GameSpec == GameInit /\ [][GameNext]_gameVars

-----------------------------------------------------------------------------
(* Properties.  They see the stones only, as five and six cells in a row.  *)

GameTypeOK ==
  /\ handler \in Handler /\ handler.square[0] \cap handler.square[1] = {}
  /\ legal \subseteq Cells /\ next \in Sides /\ numTurns \in Nat
  /\ isGameFinished \in BOOLEAN /\ winner \in Sides \cup {NoWinner}
  /\ isGameFinished => (winner = NoWinner <=> Occupied(handler.square) = Cells)

Row(c, d, n) == {At(c, d, k) : k \in 0 .. n - 1}
Fives == [d \in Dirs |-> {w \in {Row(c, d, 5) : c \in Cells} : w \subseteq Cells}]

\* Six cells in a row, by their two ends and the four between.
Sixes == [d \in Dirs |->
  {[ends |-> {c, At(c, d, 5)}, middle |-> Row(At(c, d, 1), d, 4)] :
     c \in {c \in Cells : At(c, d, 5) \in Cells}}]

Put(sq, side, c) == [sq EXCEPT ![side] = @ \cup {c}]

\* The cells that complete five in a row.
FiveCells(sq, side) ==
  UNION {w \ sq[side] : w \in {w \in UNION {Fives[d] : d \in Dirs} :
                                 w \cap sq[1 - side] = {} /\ Cardinality(w \ sq[side]) = 1}}

\* A stone on c makes an open four; a four; an open three.
MakesOpenFour(sq, side, d, c) ==
  \E s \in Sixes[d] : c \in s.middle /\ s.ends \subseteq Free(sq) /\ s.middle \ {c} \subseteq sq[side]
MakesOneOfFive(sq, side, d, c) ==
  \E w \in Fives[d] : c \in w /\ w \cap sq[1 - side] = {} /\ Cardinality(w \ (sq[side] \cup {c})) = 1
MakesOpenThree(sq, side, d, c) ==
  \E s \in Sixes[d] : /\ c \in s.middle /\ s.ends \subseteq Free(sq) /\ s.middle \cap sq[1 - side] = {}
                       /\ Cardinality(s.middle \ (sq[side] \cup {c})) = 1

\* The tables say of every free cell what a stone there would make, however they
\* came about by local updates (board.cpp:422-519): the code's patterns, tried in
\* their order, are fours and threes, and none is missing or out of date.  A scan of
\* the stones by setStartPosition computes the same tables.
TablesAreThreats ==
  LET sq == handler.square IN handler = Scan(sq) /\ \A side \in Sides, d \in Dirs :
    LET open == {c \in Free(sq) : \A w \in Fives[d] : c \in w => ~(w \ {c} \subseteq sq[side])}
        ff == {c \in open : MakesOpenFour(sq, side, d, c)}
        ft == {c \in open \ ff : MakesOneOfFive(sq, side, d, c)}
        tt == {c \in open \ (ff \cup ft) : MakesOpenThree(sq, side, d, c)}
    IN handler.threat[side][d] = [kind \in Kinds |->
         CASE kind = "ff" -> ff [] kind = "ft" -> ft [] kind = "tt" -> tt]

\* "we assume that we have no existing five threat outside the update area"
\* (board.cpp:394): although each update forgets the former five, five_threat
\* knows the fives on the board, only the side that just moved has any, and
\* nobody ever gets five in a row.
FivesAreKnown ==
  LET cells == FiveCells(handler.square, 1 - next) IN
  /\ FiveCells(handler.square, next) = {}
  /\ handler.five = CASE cells = {} -> NO_FIVE
                      [] Cardinality(cells) = 1 -> CHOOSE c \in cells : TRUE
                      [] Cardinality(cells) > 1 -> FIVE_WIN
  /\ \A d \in Dirs : \A w \in Fives[d], side \in Sides : ~(w \subseteq handler.square[side])

\* What the legal moves are computed from, and the inputs of the net, is right.
ThreatsAreKnown == GameTypeOK /\ TablesAreThreats /\ FivesAreKnown

\* The side that is to move makes five in at most two moves, whatever the other
\* one does, which has no five to make.
WinsInTwo(sq, side) ==
  \/ FiveCells(sq, side) # {}
  \/ \E c \in Free(sq) : LET after == Put(sq, side, c) IN
       FiveCells(after, 1 - side) = {} /\ Cardinality(FiveCells(after, side)) > 1

\* A move that is not legal loses in two moves: so does every move for the side
\* that has none left, which makes the end of the game right (boardhistory.cpp:251).
IllegalMovesLose ==
  numTurns > 0 => \A c \in Free(handler.square) \ legal :
    WinsInTwo(Put(handler.square, next, c), 1 - next)

\* A legal move leaves no five, and no open four unless it makes a four itself.
LegalMovesDefend ==
  numTurns > 0 /\ ~isGameFinished => \A c \in legal :
    LET sq == Put(handler.square, next, c) IN
    /\ c \in Free(handler.square)
    /\ FiveCells(sq, 1 - next) = {}
    /\ \/ FiveCells(sq, next) # {}
       \/ \A d \in Dirs, e \in Free(sq) : ~MakesOpenFour(sq, 1 - next, d, e)

\* The pruning of moves neither takes a move away that could be played nor leaves
\* one that loses at once.
LegalMovesAreTheDefences == IllegalMovesLose /\ LegalMovesDefend

\* Board::undo takes the handler back to where it was before a legal move.
UndoRestores ==
  [][\A m \in handler'.square[next] \ handler.square[next] :
       undo_move(handler', m, next) = handler]_gameVars
=============================================================================
