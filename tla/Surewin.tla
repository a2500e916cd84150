------------------------------- MODULE Surewin -------------------------------
(***************************************************************************)
(* The solver that a search thread asks at every new node: surewinSearch   *)
(* of search/search.cpp, on its own board (module SurewinPosition), on top *)
(* of the games of module Gomoku.                                          *)
(*                                                                         *)
(* The solver looks for a win by threats: the attacker makes fours and     *)
(* open threes, and the defender answers.  Its Position begins with the    *)
(* game's threat tables and goes on with updates of its own, cheaper than  *)
(* the game's.  A transposition table of two entries is kept from one      *)
(* search to the next, and for the wins of both sides.                     *)
(*                                                                         *)
(* The key of a position is its stones: the side to move follows from      *)
(* their number.  "easy" is always false.                                  *)
(***************************************************************************)
EXTENDS Gomoku

CONSTANTS
  BOARDS,             \* the width that the solver is compiled for: 20 in the program
  surewinDepth,       \* the parameter of the search
  NodeLimit,          \* positions that a search may visit: 5000 in the program
  Slot(_),            \* which of the two entries of the table a position has
  MaxAsks             \* bound: searches in a behaviour

ASSUME SurewinAssumption ==
  {BOARDS, surewinDepth, NodeLimit, MaxAsks} \subseteq Nat /\ boardSize <= BOARDS

VARIABLES
  table,              \* surewin_tt, each entry present or not
  answer,             \* of the last surewinSearch, and surewin_winner_move
  asked,              \* searches so far
  starved             \* history: a search ran out of nodes

solver == <<table, answer, asked, starved>>
allVars == <<gameVars, solver>>

Pos == INSTANCE SurewinPosition WITH boardSize <- BOARDS

-----------------------------------------------------------------------------
(* From the game's board to the solver's, and back.                        *)

\* square and the threats are copied bit by bit, and cells are numbered by the width
\* of the board.
Recoded(C) == {Pos!Numbered(c[1] * boardSize + c[2]) : c \in C}

\* linear_bit is copied line by line: those of the last direction are numbered from
\* a corner of the board.
RootLines(sq) ==
  [d \in Dirs |-> [side \in Sides |->
     {IF d = 3 THEN <<c[1] + BOARDS - boardSize, c[2]>> ELSE c : c \in sq[side]}]]

\* initSurewinRoot.
SurewinRoot(h, player) ==
  [square |-> [side \in Sides |-> Recoded(h.square[side])],
   lines |-> RootLines(h.square),
   threat |-> [side \in Sides |-> [d \in Dirs |-> [kind \in Kinds |-> Recoded(h.threat[side][d][kind])]]],
   five |-> IF h.five \in Cells THEN CHOOSE c \in Recoded({h.five}) : TRUE ELSE h.five,
   turn |-> player]

\* sureWinLoc of the winning move: a Loc of a board of width BOARDS, which the game
\* takes for one of its own.
SureWinLoc(m) ==
  LET loc == m[2] + 1 + (m[1] + 1) * (BOARDS + 1) IN
  <<(loc \div (boardSize + 1)) - 1, (loc % (boardSize + 1)) - 1>>

-----------------------------------------------------------------------------
(* surewin_attack and surewin_defense.  s is the table and the number of   *)
(* positions visited, as they are when a call begins or ends.              *)

Visit(s) == [s EXCEPT !.nodes = @ + 1]
OutOfNodes(s) == s.nodes > NodeLimit

\* surewin_tt_save: whatever the entry held is replaced.
Save(s, p, val, best, depth) ==
  [s EXCEPT !.table[Slot(p.square)] = {[square |-> p.square, val |-> val, best |-> best, depth |-> depth]}]

\* A mistake: the stones are not compared.
EntriesOfSlot(s, p, val) == {e \in s.table[Slot(p.square)] : e.val = val}

\* surewin_tt_probe, when val is the answer it is asked for: 0 for a win of the
\* side to move, 1 for a defence that held.
Entries(s, p, val) == {e \in s.table[Slot(p.square)] : e.square = p.square /\ e.val = val}

\* A mistake: the defence of another position is taken for this one's.
HeldElsewhere(s, p, depth) == \E e \in s.table[Slot(p.square)] : e.val = 1 /\ e.depth >= depth

Held(s, p, depth) == \E e \in Entries(s, p, 1) : e.depth >= depth

Lost(s) == [wins |-> FALSE, move |-> NO_FIVE, s |-> s]
Won(c, s) == [wins |-> TRUE, move |-> c, s |-> s]

RECURSIVE Attack(_, _, _, _), TryAttacks(_, _, _), Reply(_, _, _), AfterReply(_, _, _),
          Defence(_, _, _, _), TryDefences(_, _, _, _, _), AfterAttack(_, _, _, _, _, _)

Attack(p, depth, line, s) ==
  IF OutOfNodes(s) \/ depth < 0 \/ Pos!PickedLegal(p) = {} THEN Lost(s)
  ELSE IF Entries(s, p, 0) # {} THEN Won((CHOOSE e \in Entries(s, p, 0) : TRUE).best, s)
  ELSE TryAttacks(p, Pos!AttackMoves(p, depth, line), s)

TryAttacks(p, moves, s) ==
  IF moves = <<>> THEN Lost(s)
  ELSE AfterReply(p, moves, Reply(Pos!DoMove(p, Head(moves).cell), Head(moves), Visit(s)))

\* Two fives cannot be answered.
Reply(after, m, s) ==
  IF after.five = FIVE_WIN THEN [holds |-> FALSE, s |-> s] ELSE Defence(after, m.depth, m.line, s)

AfterReply(p, moves, reply) ==
  IF ~reply.holds THEN Won(Head(moves).cell, Save(reply.s, p, 0, Head(moves).cell, 0))
  ELSE TryAttacks(p, Tail(moves), reply.s)

\* Nothing to answer with is a loss: the test for a full board never succeeds, as
\* the tables have more bits than the board has cells.
Defence(p, depth, line, s) ==
  IF OutOfNodes(s) \/ depth < 0 \/ (depth = 0 /\ Pos!Regular(p) # {})
     \/ (Pos!PickedLegal(p) # {} /\ Held(s, p, depth))
  THEN [holds |-> TRUE, s |-> s]
  ELSE TryDefences(p, Pos!DefenceMoves(p, depth), depth, line, s)

TryDefences(p, moves, depth, line, s) ==
  IF moves = <<>> THEN [holds |-> FALSE, s |-> s]
  ELSE AfterAttack(p, moves, depth, line, Pos!DoMove(p, Head(moves).cell), Visit(s))

AfterAttack(p, moves, depth, line, after, s) ==
  LET held(t, limit) == [holds |-> TRUE, s |-> Save(t, p, 1, Head(moves).cell, limit)]
      goesOn(attack) == IF attack.wins THEN TryDefences(p, Tail(moves), depth, line, attack.s)
                        ELSE held(attack.s, depth)
  IN IF after.five = FIVE_WIN THEN held(s, 100)
     ELSE goesOn(Attack(after, Head(moves).depth, line, s))

\* The loop of surewinSearch.  The depth of the first attack has no line yet.
RECURSIVE Deepen(_, _, _), Deeper(_, _, _)
Deepen(p, depth, s) ==
  IF depth >= surewinDepth THEN Lost(s) ELSE Deeper(p, depth + 2, Attack(p, depth, Pos!Cells, s))
Deeper(p, depth, attack) == IF attack.wins THEN attack ELSE Deepen(p, depth, attack.s)

surewinSearch(h, player, tt) == Deepen(SurewinRoot(h, player), 1, [table |-> tt, nodes |-> 0])

-----------------------------------------------------------------------------
(* A search thread: its playouts go down through the game from the root,   *)
(* and ask the solver on the way.                                          *)

NoAnswer == [given |-> FALSE]
EmptyTable == [slot \in {0, 1} |-> {}]

\* The game after its opening is the root of the search.
RootOf(o) ==
  LET board[n \in 0 .. Len(o.moves)] ==
        IF n = 0 THEN NewHandler ELSE do_move(board[n - 1], o.moves[n], (n - 1) % 2)
  IN board[Len(o.moves)]

AtRoot(h, o) ==
  /\ h = RootOf(o)
  /\ opening = o
  /\ next = Len(o.moves) % 2 /\ numTurns = Len(o.moves)
  /\ isGameFinished = FALSE /\ winner = NoWinner

\* surewin_tt_kill, in the constructor of SearchThread.
SInit ==
  /\ \E o \in Openings : AtRoot(handler, o)
  /\ legal = LegalMoves(handler, next)
  /\ table = EmptyTable /\ answer = NoAnswer /\ asked = 0 /\ starved = FALSE

Ask ==
  /\ ~isGameFinished /\ asked < MaxAsks /\ ~answer.given
  /\ \E found \in {surewinSearch(handler, next, table)} :
       /\ table' = found.s.table
       /\ answer' = [given |-> TRUE, wins |-> found.wins, move |-> IF found.wins THEN SureWinLoc(found.move) ELSE NO_FIVE]
       /\ starved' = (starved \/ OutOfNodes(found.s))
  /\ asked' = asked + 1
  /\ UNCHANGED gameVars

Descend(m) == MakeMove(m) /\ answer' = NoAnswer /\ UNCHANGED <<table, asked, starved>>

\* The next playout begins at the root again, with the same table.
NextPlayout ==
  /\ numTurns > Len(opening.moves)
  /\ handler' = RootOf(opening)
  /\ next' = Len(opening.moves) % 2 /\ numTurns' = Len(opening.moves)
  /\ legal' = LegalMoves(handler', next')
  /\ isGameFinished' = FALSE /\ winner' = NoWinner
  /\ answer' = NoAnswer
  /\ UNCHANGED <<opening, table, asked, starved>>

\* A position that the solver wins is a leaf of the search.
SNext ==
  \/ Ask
  \/ \E m \in Cells : ~(answer.given /\ answer.wins) /\ Descend(m)
  \/ NextPlayout

SSpec == SInit /\ [][SNext]_allVars

-----------------------------------------------------------------------------
(* Properties.                                                             *)

MovesOf(stages) == {stages[i].cell : i \in DOMAIN stages}

\* By the rules of the game, the side to move wins with at most n threats,
\* whatever the other side answers.
RECURSIVE WinsBy(_, _, _)
WinsAfter(h, player, m, n) ==
  LET after == do_move(h, m, player)
      replies == LegalMoves(after, 1 - player) IN
  /\ Free(after.square) # {}
  /\ replies # Free(after.square)
  /\ \A r \in replies : LET next_ == do_move(after, r, 1 - player) IN
       next_.five # FIVE_WIN /\ n > 1 /\ WinsBy(next_, player, n - 1)
WinsBy(h, player, n) ==
  \E m \in LegalMoves(h, player) :
    /\ m \in {h.five} \cup UNION {h.threat[player][d][kind] : d \in Dirs, kind \in Kinds}
    /\ WinsAfter(h, player, m, n)

\* What surewinSearch claims is true (search.cpp:1779-1794 takes the position for won
\* and plays surewin_winner_move): the move is legal, and wins by the rules of the
\* game.  That is so on boards of the solver's width; ClaimedWinsAreLegal is what fails on
\* smaller ones.  Entries of other searches, of either side and of those that ran out of
\* nodes, do not change that.
WinsAreReal ==
  answer.given /\ answer.wins =>
    /\ answer.move \in legal
    /\ \E n \in 1 .. surewinDepth - 2 : WinsAfter(handler, next, answer.move, n)

\* The bot plays the winning move (asyncbot.cpp:368-370), and genmove answers an illegal
\* one with an error and "illegal move!?!" (gtp.cpp:826-833): violated where boardSize <
\* BOARDS, as surewin_smaller.cfg shows.
ClaimedWinsAreLegal == answer.given /\ answer.wins => answer.move \in legal

\* Until a search runs out of nodes, the table hides no win: what the solver finds
\* with an empty table, it also finds with what other searches left, in one of two
\* entries that are overwritten at will, and that do not say which attack line they
\* were found with (search.cpp:2190-2200).
NothingIsHidden ==
  answer.given /\ ~answer.wins /\ ~starved => ~surewinSearch(handler, next, EmptyTable).wins

\* The solver's board is the game's, whose tables it takes over and then updates in a
\* way of its own (position.cpp:797-1125): after each attack that it would make here,
\* and each answer, both have the same threats, the same five and the same legal
\* moves.  A side that is attacked must answer; search.cpp:2180 reads pick.regular,
\* which is only set then.
SameBoard(p, h, player) ==
  /\ p.square = h.square /\ (\A d \in Dirs : p.lines[d] = h.square) /\ p.five = h.five /\ p.turn = player
  /\ p.five # FIVE_WIN => p.threat = h.threat /\ Pos!PickedLegal(p) = LegalMoves(h, player)

SameAfter(p, h, player, m) == SameBoard(Pos!DoMove(p, m), do_move(h, m, player), 1 - player)

SameAfterAnswers(p, h, player) ==
  /\ SameBoard(p, h, player) /\ Pos!is_extreme_pos(p)
  /\ p.five # FIVE_WIN => \A m \in MovesOf(Pos!DefenceMoves(p, 2)) : SameAfter(p, h, player, m)

SolverSeesTheGame ==
  LET root == SurewinRoot(handler, next) IN
  ~isGameFinished /\ ~answer.given =>
    /\ SameBoard(root, handler, next)
    /\ \A m \in MovesOf(Pos!AttackMoves(root, surewinDepth, Pos!Cells)) :
         SameAfterAnswers(Pos!DoMove(root, m), do_move(handler, m, next), 1 - next)
=============================================================================
