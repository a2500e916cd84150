----------------------------- MODULE GtpEngine -----------------------------
(***************************************************************************)
(* The GTP engine (command/gtp.cpp): a loop that reads a command, changes  *)
(* the game with it and answers, while the bot may ponder or analyze.      *)
(*                                                                         *)
(* The engine keeps the position that a game started from and its moves;   *)
(* the root of the bot's search keeps the current position and a history   *)
(* of its own, which is forgotten when a side moves twice in a row.  Undo  *)
(* and a change of rules play the engine's moves again from the start.     *)
(*                                                                         *)
(* A board is the list of its stones, in the order in which the threat     *)
(* handler got them, and the moves that were legal when they were last     *)
(* computed.  Which these are is left to LegalAfter: Gomoku has the rules. *)
(* Time controls, search parameters and what is printed are left out, and  *)
(* so is a new size of the board, which starts like a new engine.          *)
(***************************************************************************)
EXTENDS Integers, Sequences, FiniteSets, SequencesExt

CONSTANTS
  Cells,
  LegalAfter(_, _),   \* the legal moves of a side once the stones have been placed
  Setups,             \* the lists of stones of set_position and of fixed_handicap
  Handicaps,          \* the lists of cells of the free handicaps
  Sgfs,               \* the files of loadsgf
  PonderingEnabled,
  MaxMoves,           \* bound: the moves of a game
  NULL_LOC

BLACK == 0
WHITE == 1
Sides == {BLACK, WHITE}
NoSide == 2
Stones == Seq(Cells \X Sides)

Occupied(stones) == {stones[i][1] : i \in DOMAIN stones}
NumStones(stones) == Cardinality(Occupied(stones))
Overlap(stones) == NumStones(stones) # Len(stones)

ASSUME CellsAssumption == IsFiniteSet(Cells) /\ NULL_LOC \notin Cells
ASSUME BoundAssumption == MaxMoves \in Nat /\ PonderingEnabled \in BOOLEAN
ASSUME InputAssumption ==
  /\ Setups \subseteq Stones /\ Handicaps \subseteq Seq(Cells)
  /\ \A sgf \in Sgfs :
       /\ sgf.placements \in Stones /\ ~Overlap(sgf.placements)
       /\ sgf.moves \in Stones /\ sgf.PL \in Sides \cup {NoSide}

VARIABLES
  root,               \* bot->search: rootBoard, rootPla and rootHistory
  initialBoard, initialPla, moveHistory,
  background,         \* what the bot does while the loop waits for a command
  currentlyAnalyzing,
  response,
  intact              \* nobody has played on a stone, which do_move asserts

game == <<initialBoard, initialPla, moveHistory>>
engineVars == <<root, game, background, currentlyAnalyzing, response, intact>>

-----------------------------------------------------------------------------
(* The board and the bot's root.                                           *)

EmptyBoard == [stones |-> <<>>, legal |-> Cells]

\* Board::setStone on empty cells: what is legal is not computed again.
PlaceStones(stones) == [EmptyBoard EXCEPT !.stones = stones]

\* BoardHistory::clear.
Root(board, pla) ==
  [board |-> board, pla |-> pla, moves |-> <<>>, isGameFinished |-> FALSE, winner |-> NoSide]

\* BoardHistory::makeBoardMoveAssumeLegal and the change of rootPla.
MakeBoardMove(r, loc, pla) ==
  LET stones == Append(r.board.stones, <<loc, pla>>)
      full == NumStones(stones) = Cardinality(Cells)
      legal == IF full THEN r.board.legal ELSE Cells \cap LegalAfter(stones, 1 - pla) IN
  [board |-> [stones |-> stones, legal |-> legal],
   pla |-> 1 - pla,
   moves |-> Append(r.moves, <<loc, pla>>),
   isGameFinished |-> full \/ legal = {},
   winner |-> IF ~full /\ legal = {} THEN pla ELSE NoSide]

setPlayerAndClearHistory(r, pla) == Root(r.board, pla)
ForPlayer(r, pla) == IF pla # r.pla THEN setPlayerAndClearHistory(r, pla) ELSE r

\* The board asks who is to move for neither kind of legality.
isLegalTolerant(r, loc) == loc \in r.board.legal
isLegalStrict(r, loc, pla) == pla = r.pla /\ loc \in r.board.legal

makeMove(r, loc, pla) == MakeBoardMove(ForPlayer(r, pla), loc, pla)

\* Moves made one after another, up to the first that is not legal, at the bot's
\* root or on a board with a history that is never cleared.
PlayNext(p, m, atRoot) ==
  IF p.ok /\ isLegalTolerant(p.root, m[1])
  THEN [root |-> IF atRoot THEN makeMove(p.root, m[1], m[2]) ELSE MakeBoardMove(p.root, m[1], m[2]),
        moves |-> Append(p.moves, m), ok |-> TRUE]
  ELSE [p EXCEPT !.ok = FALSE]

PlayMoves(r, moves, atRoot) ==
  LET played[i \in 0 .. Len(moves)] ==
        IF i = 0 THEN [root |-> r, moves |-> <<>>, ok |-> TRUE]
        ELSE PlayNext(played[i - 1], moves[i], atRoot) IN
  played[Len(moves)]

PlayAll(r, moves) == PlayMoves(r, moves, TRUE)
PlayMovesTolerant(r, moves) == PlayMoves(r, moves, FALSE)

EngineInit ==
  /\ root = Root(EmptyBoard, BLACK)
  /\ initialBoard = EmptyBoard /\ initialPla = BLACK /\ moveHistory = <<>>
  /\ background = "none" /\ currentlyAnalyzing = FALSE
  /\ response = "ok" /\ intact = TRUE

-----------------------------------------------------------------------------
(* What the commands share.                                                *)

\* Any line stops an analysis.
Running == IF currentlyAnalyzing THEN "none" ELSE background

\* bot->ponder does nothing while a search is running.
MaybePonder(running) == IF PonderingEnabled /\ running = "none" THEN "ponder" ELSE running

Answer(what, running) ==
  /\ response' = what
  /\ background' = running
  /\ currentlyAnalyzing' = FALSE

setPositionAndRules(r, board, pla, moves) ==
  /\ root' = r
  /\ initialBoard' = board /\ initialPla' = pla /\ moveHistory' = moves
  /\ UNCHANGED intact

\* An assertion fails: in do_move, when the cell has a stone (after set_position,
\* which leaves every cell legal), or in undo.  With at most two stones do_move
\* returns and the tables have lost a stone: this is not followed up.
Break == /\ intact' = FALSE
         /\ UNCHANGED <<root, game, background, currentlyAnalyzing, response>>

\* Commands that only read, with arguments that are understood or not, and the
\* time settings.
Other(what) == Answer(what, Running) /\ UNCHANGED <<root, game, intact>>

\* stop, komi, clear_cache and the parameters that clear the search; boardsize of
\* the present size.  final_score and final_status_list search for themselves and
\* restore the position.
StopSearch == Answer("ok", "none") /\ UNCHANGED <<root, game, intact>>

\* time_left: in case the controller also tells komi, which stops pondering.
TimeLeft ==
  /\ Answer("ok", IF Len(root.moves) > 0 THEN MaybePonder(Running) ELSE Running)
  /\ UNCHANGED <<root, game, intact>>

-----------------------------------------------------------------------------
(* Commands that set up a position.                                        *)

clearBoard ==
  /\ Answer("ok", "none")
  /\ setPositionAndRules(Root(EmptyBoard, BLACK), EmptyBoard, BLACK, <<>>)

setPosition(stones) ==
  IF Overlap(stones) THEN Other("error")
  ELSE LET b == PlaceStones(stones) IN
       Answer("ok", "none") /\ setPositionAndRules(Root(b, BLACK), b, BLACK, <<>>)

BoardIsEmpty == root.board.stones = <<>>

\* A number of stones that the board is too small for is refused.
FixedHandicap(stones) ==
  LET b == PlaceStones(stones) IN
  /\ BoardIsEmpty /\ ~Overlap(stones) /\ \A i \in DOMAIN stones : stones[i][2] = BLACK
  /\ Answer("ok", "none") /\ setPositionAndRules(Root(b, WHITE), b, WHITE, <<>>)

\* playExtraBlack plays moves that the board calls legal, and after each of them
\* clears the history.
PlayExtraBlack(cells) ==
  PlayAll(Root(EmptyBoard, BLACK), [i \in DOMAIN cells |-> <<cells[i], BLACK>>])

FreeHandicap(cells) ==
  LET placed == PlayExtraBlack(cells)
      b == placed.root.board IN
  /\ BoardIsEmpty
  /\ placed.ok \/ b.legal = {}
  /\ Answer("ok", "none") /\ setPositionAndRules(Root(b, WHITE), b, WHITE, <<>>)

\* set_free_handicap puts stones on locations that it never reads from the
\* command: on any cells, or none.
SetFreeHandicap(cells) ==
  LET b == PlaceStones([i \in DOMAIN cells |-> <<cells[i], BLACK>>]) IN
  /\ BoardIsEmpty /\ ~Overlap(b.stones)
  /\ Answer("ok", "none") /\ setPositionAndRules(Root(b, WHITE), b, WHITE, <<>>)

\* Who is to move in a file that does not say so.
NextPla(sgf) ==
  LET colors == {sgf.placements[i][2] : i \in DOMAIN sgf.placements} IN
  IF sgf.PL \in Sides THEN sgf.PL ELSE IF colors = Sides THEN WHITE ELSE BLACK

LoadSgf(sgf) ==
  LET b == PlaceStones(sgf.placements)
      r == Root(b, NextPla(sgf))
      played == PlayMovesTolerant(r, sgf.moves) IN
  /\ Len(sgf.moves) <= MaxMoves
  /\ CASE Overlap(played.root.board.stones) -> Break
       [] ~Overlap(played.root.board.stones) /\ ~played.ok -> Other("error")
       [] ~Overlap(played.root.board.stones) /\ played.ok ->
            /\ Answer("ok", "none")
            /\ setPositionAndRules(played.root, b, NextPla(sgf), played.root.moves)

-----------------------------------------------------------------------------
(* Commands that play.                                                     *)

\* A mistake: the history of the root is taken for that of the game.
RememberRoot(r, loc, pla) ==
  /\ root' = makeMove(r, loc, pla)
  /\ moveHistory' = makeMove(r, loc, pla).moves
  /\ UNCHANGED <<initialBoard, initialPla, intact>>

\* makeMove, and the move is remembered.
Remember(r, loc, pla) ==
  /\ root' = makeMove(r, loc, pla)
  /\ moveHistory' = Append(moveHistory, <<loc, pla>>)
  /\ UNCHANGED <<initialBoard, initialPla, intact>>

\* A mistake: the move of an error is remembered.
playThoughIllegal(loc, pla) ==
  /\ Answer(IF isLegalTolerant(root, loc) THEN "ok" ELSE "error", MaybePonder("none"))
  /\ moveHistory' = Append(moveHistory, <<loc, pla>>)
  /\ root' = IF isLegalTolerant(root, loc) THEN makeMove(root, loc, pla) ELSE root
  /\ UNCHANGED <<initialBoard, initialPla, intact>>

play(loc, pla) ==
  IF ~isLegalTolerant(root, loc)
  THEN Answer("error", MaybePonder("none")) /\ UNCHANGED <<root, game, intact>>
  ELSE IF loc \in Occupied(root.board.stones) THEN Break
  ELSE Answer("ok", MaybePonder("none")) /\ Remember(root, loc, pla)

\* genmove and genmove_analyze; search_debug does not play the move.  Whoever is
\* asked for becomes the side to move, and the answer may be to resign.
genMove(loc, pla, playChosenMove, resigned) ==
  LET r == ForPlayer(root, pla) IN
  /\ loc \in r.board.legal \cup {NULL_LOC}
  /\ IF ~isLegalStrict(r, loc, pla)
     THEN Answer("error", "none") /\ root' = r /\ UNCHANGED <<game, intact>>
     ELSE IF resigned \/ ~playChosenMove
     THEN Answer("ok", "none") /\ root' = r /\ UNCHANGED <<game, intact>>
     ELSE IF loc \in Occupied(r.board.stones) THEN Break
     ELSE Answer("ok", MaybePonder("none")) /\ Remember(r, loc, pla)

analyze(pla) ==
  /\ response' = "ok" /\ background' = "analysis" /\ currentlyAnalyzing' = TRUE
  /\ root' = ForPlayer(root, pla)
  /\ UNCHANGED <<game, intact>>

\* A mistake: the stone is taken back, and what is legal stays.
undoStone ==
  IF moveHistory = <<>> THEN Other("error")
  ELSE LET b == [root.board EXCEPT !.stones = Front(@)] IN
       /\ Answer("ok", "none")
       /\ setPositionAndRules([root EXCEPT !.board = b, !.pla = 1 - @, !.moves = <<>>],
                              initialBoard, initialPla, Front(moveHistory))

\* The engine asserts that the moves can be played again.
undo ==
  IF moveHistory = <<>> THEN Other("error")
  ELSE LET kept == PlayAll(Root(initialBoard, initialPla), Front(moveHistory)) IN
       IF ~kept.ok THEN Break
       ELSE /\ Answer("ok", "none")
            /\ setPositionAndRules(kept.root, initialBoard, initialPla, kept.moves)

\* kata-set-rules and its like: the moves are played under the new rules, up to
\* the first that is illegal.
setRulesNotIncludingKomi ==
  LET kept == PlayAll(Root(initialBoard, initialPla), moveHistory) IN
  /\ Answer(IF kept.ok THEN "ok" ELSE "error", "none")
  /\ setPositionAndRules(kept.root, initialBoard, initialPla, kept.moves)

-----------------------------------------------------------------------------
MayPlay == Len(moveHistory) < MaxMoves

EngineNext ==
  /\ intact
  /\ \/ Other("ok") \/ Other("error") \/ StopSearch \/ TimeLeft
     \/ clearBoard \/ undo \/ setRulesNotIncludingKomi
     \/ \E stones \in Setups : setPosition(stones) \/ FixedHandicap(stones)
     \/ \E cells \in Handicaps : FreeHandicap(cells) \/ SetFreeHandicap(cells)
     \/ \E sgf \in Sgfs : LoadSgf(sgf)
     \/ \E pla \in Sides : analyze(pla)
     \/ \E pla \in Sides, loc \in Cells : MayPlay /\ play(loc, pla)
     \/ \E pla \in Sides, loc \in Cells \cup {NULL_LOC}, playChosenMove, resigned \in BOOLEAN :
          MayPlay /\ genMove(loc, pla, playChosenMove, resigned)

EngineSpec == EngineInit /\ [][EngineNext]_engineVars

-----------------------------------------------------------------------------
(* Properties.                                                             *)

Board == [stones : Stones, legal : SUBSET Cells]

\* The types; an analysis runs for as long as its command is the last one, and
\* the bot ponders only if it may.
EngineTypeOK ==
  /\ root \in [board : Board, pla : Sides, moves : Stones, isGameFinished : BOOLEAN,
                winner : Sides \cup {NoSide}]
  /\ initialBoard \in Board /\ initialPla \in Sides /\ moveHistory \in Stones
  /\ background \in {"none", "ponder", "analysis"} /\ response \in {"ok", "error"}
  /\ currentlyAnalyzing \in BOOLEAN /\ (currentlyAnalyzing <=> background = "analysis")
  /\ background = "ponder" => PonderingEnabled
  /\ intact \in BOOLEAN

\* The moves that the engine remembers "for undo, whereas the one in search does"
\* get cleared (gtp.cpp:312) lead from the first position to the bot's, each one
\* legal in its turn; what the bot's history still has is their end, and it knows
\* whose turn it is and whether the game is over.
HistoryReplays ==
  LET replayed == PlayAll(Root(initialBoard, initialPla), moveHistory) IN
  /\ EngineTypeOK /\ replayed.ok /\ replayed.root.board = root.board
  /\ IsSuffix(root.moves, moveHistory)
  /\ root.moves # <<>> =>
       /\ root.pla = 1 - Last(moveHistory)[2]
       /\ root.isGameFinished = replayed.root.isGameFinished
       /\ root.winner = replayed.root.winner

\* Whatever has shortened the history by its last move (gtp.cpp:535), that move
\* can be made again and leads back to the same board.
UndoTakesBack ==
  [][/\ moveHistory # <<>> /\ moveHistory' = Front(moveHistory)
     /\ initialBoard' = initialBoard /\ initialPla' = initialPla
     => LET move == Last(moveHistory) IN
        /\ isLegalTolerant(root', move[1])
        /\ makeMove(root', move[1], move[2]).board = root.board]_engineVars

\* A command that fails changes neither the board nor the moves: a sgf that is
\* illegal halfway, a setup whose stones overlap, rules that do not suit.
FailedCommandsKeepGame ==
  [][response' = "error" => UNCHANGED <<root.board, game>>]_engineVars
=============================================================================
