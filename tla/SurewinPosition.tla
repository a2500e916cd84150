-------------------------- MODULE SurewinPosition --------------------------
(***************************************************************************)
(* The board of the solver (surewin/position.cpp) and the moves that it    *)
(* tries (surewin/picker.cpp).  Positions are compiled for boards of       *)
(* BOARDS rows: that is the boardSize here, and of what this module takes  *)
(* from Gomoku.                                                            *)
(*                                                                         *)
(* A Position is [square, lines, threat, five, turn], where lines is its   *)
(* linear_bit: the stones once more, for each direction.  Lines are read   *)
(* from linear_bit, but the free cells and the runs of stones from square. *)
(* do_move leaves FIVE_WIN for WINNING_MOVE.  What undo_move brings back   *)
(* is the Position of the caller.                                          *)
(*                                                                         *)
(* Both hold the same stones unless the tables were laid out for another   *)
(* board.  Then a stone may come where linear_bit has one already: the     *)
(* code adds bits that are there, and counts a cell of both sides as       *)
(* something else, which is not modelled.                                  *)
(***************************************************************************)
EXTENDS Gomoku

-----------------------------------------------------------------------------
(* Position::do_move.                                                      *)

Between(k) == IF k > 0 THEN 1 .. k - 1 ELSE k + 1 .. -1
Offsets(n) == (-n .. n) \ {0}
Near(m, d, n) == {At(m, d, k) : k \in Offsets(n)} \cap Cells

\* Nothing of the other side, and no edge, is between m and its neighbour at k.
Reaches(sq, side, m, d, k) == \A j \in Between(k) : At(m, d, j) \in sq[side] \cup Free(sq)

\* The first two free cells on each side of m.
FirstFree(sq, side, m, d) ==
  {k \in Offsets(4) : /\ At(m, d, k) \in Free(sq)
                      /\ Reaches(sq, side, m, d, k)
                      /\ Cardinality({j \in Between(k) : At(m, d, j) \in Free(sq)}) < 2}

\* The line of the cell at k, seen from m: five cells on each side of m.
Environment(sq, side, m, d, k) ==
  LET line == Line(sq, side, d, At(m, d, k))
      seen == {j \in -4 .. 4 : k + j \in -5 .. 5}
  IN [own |-> line.own \cap seen, empty |-> line.empty \cap seen]

\* what_to_do_global: what the stone at m lets its side make, in one direction.
WhatToDo(sq, side, m, d) ==
  {[dir |-> d, cell |-> At(m, d, k), kind |-> KindOf(Environment(sq, side, m, d, k))] :
     k \in FirstFree(sq, side, m, d)}

\* Only lines with another stone within three cells are looked at.
NewThreats(lines, side, m) ==
  UNION {WhatToDo(lines[d], side, m, d) : d \in {d \in Dirs : Near(m, d, 3) \cap lines[d][side] # {}}}

OfKind(new, d, kind) == {t.cell : t \in {t \in new : t.dir = d /\ t.kind = kind}}

\* update_attack, old_attack and clearing: a side keeps the threats it had, since
\* a stone of its own only makes them stronger.
OwnThreats(old, new, d, gone) ==
  LET all == [kind \in Kinds |-> (old[d][kind] \cup OfKind(new, d, kind)) \ gone] IN
  [ff |-> all.ff, ft |-> all.ft \ all.ff, tt |-> all.tt \ (all.ff \cup all.ft)]

\* A mistake: the other side keeps its threats.
OtherThreatsKept(sq, other, old, m, d) == [kind \in Kinds |-> old[d][kind] \ {m}]

\* update_defense: the threats of the other side near the stone are looked at again,
\* for what they are now; they cannot have become fives.
OtherThreats(sq, other, old, m, d) ==
  LET again == (old[d].ff \cup old[d].ft \cup old[d].tt) \cap Near(m, d, 4) IN
  [kind \in Kinds |-> (old[d][kind] \ (again \cup {m}))
                        \cup {c \in again \ {m} : KindOf(Line(sq, other, d, c)) = kind}]

DoMove(p, m) ==
  LET lines == [d \in Dirs |-> Put(p.lines[d], p.turn, m)]
      new == NewThreats(lines, p.turn, m)
      fives == {t \in new : t.kind = "five"}
      five == IF fives = {} THEN NO_FIVE ELSE (CHOOSE t \in fives : TRUE).cell
      threat == [side \in Sides |-> [d \in Dirs |->
                   IF side = p.turn THEN OwnThreats(p.threat[side], new, d, {m, five})
                   ELSE OtherThreats(lines[d], side, p.threat[side], m, d)]]
      after == [p EXCEPT !.square = Put(@, p.turn, m), !.lines = lines, !.turn = 1 - @]
  IN IF Cardinality(fives) > 1 THEN [after EXCEPT !.five = FIVE_WIN]
     ELSE [after EXCEPT !.threat = threat, !.five = five]

-----------------------------------------------------------------------------
(* The moves of a position.                                                *)

OfTurn(p, kind) == UNION {p.threat[p.turn][d][kind] : d \in Dirs}
Threats(p) == OfTurn(p, "ft") \cup OfTurn(p, "tt")          \* threat_unio

is_extreme_pos(p) == p.five # NO_FIVE \/ FreeFours(p, 1 - p.turn) # {}

Number(c) == c[1] * boardSize + c[2]
Numbered(n) == <<n \div boardSize, n % boardSize>>

\* The first cell that is not the side's, next to the run of stones at c.  Cells are
\* stepped to by their number.
EndOfRun(sq, side, c, d, sign) ==
  LET to(k) == Numbered(Number(At(c, d, sign * k)))
      k == CHOOSE k \in 1 .. boardSize : to(k) \notin sq[side] /\ \A j \in 1 .. k - 1 : to(j) \in sq[side]
  IN to(k)

\* generate_single_regular_fast
Stops(p, f) == {f.cell} \cup {EndOfRun(p.square, 1 - p.turn, f.cell, f.dir, sign) : sign \in {1, -1}}

\* generate_regular: the answers to a five and to every open four.
Regular(p) ==
  {c \in IF p.five \in Cells THEN {p.five} ELSE Cells :
     \/ c = p.five /\ c \in FoursOf(p, p.turn)
     \/ \A f \in FreeFours(p, 1 - p.turn) : c \in Stops(p, f)}

\* The pickers' legal.
PickedLegal(p) ==
  IF is_extreme_pos(p) THEN Regular(p) \cup (IF p.five = NO_FIVE THEN OfTurn(p, "ft") ELSE {})
  ELSE Free(p.square)

InTwoDirections(p, one, other) ==
  LET own == p.threat[p.turn] IN
  {c \in OfTurn(p, one) : \E d, e \in Dirs : d # e /\ c \in own[d][one] /\ c \in own[e][other]}

\* how_interesting_move_surewin_attack: the directions in which a stone on c would
\* make more threats, had the attacker stones where it has threats.
InterestingDirs(p, c) ==
  {d \in Dirs :
     LET sq == [p.lines[d] EXCEPT ![p.turn] = @ \cup (Threats(p) \cap Near(c, d, 5)) \cup {c}]
     IN \/ Cardinality({k \in Offsets(4) : /\ At(c, d, k) \in sq[p.turn]
                                           /\ Reaches(sq, p.turn, c, d, k)}) >= 4
        \/ \E t \in WhatToDo(sq, p.turn, c, d) : t.kind # "none"}

IsInteresting(p, c) == Cardinality(InterestingDirs(p, c)) >= 2
IsInLine(p, c, line) == \E d \in InterestingDirs(p, c) : line \cap Near(c, d, 4) # {}

\* By their numbers, as bitScanForward finds them.
Ordered(C) ==
  [i \in 1 .. Cardinality(C) |->
     CHOOSE c \in C : Cardinality({e \in C : Number(e) < Number(c)}) = i - 1]

\* One stage of a picker: its moves, the depth that is left after them, and the
\* attack line, with the move.
Stage(C, depth, line) ==
  LET order == Ordered(C) IN
  [i \in DOMAIN order |-> [cell |-> order[i], depth |-> depth, line |-> line \cup {order[i]}]]

ATTACKLINE_PENALITY == 4
INTERESTING_PENALITY == 6

\* Picker_surewin::picker_surewin_attack, and the breaks of surewin_attack for the
\* depths 1 and 3.
AttackMoves(p, depth, line) ==
  LET legal_ == PickedLegal(p)
      double == InTwoDirections(p, "ft", "ft") \cap legal_
      fourThree == InTwoDirections(p, "ft", "tt") \ double
      main == (IF is_extreme_pos(p) THEN Regular(p) \cap Threats(p)
               ELSE InTwoDirections(p, "tt", "tt")) \ (double \cup fourThree)
      rest == (Threats(p) \cap legal_) \ (double \cup fourThree \cup main)
      keeps == is_extreme_pos(p)
      best == {c \in rest : IsInteresting(p, c) /\ IsInLine(p, c, line)}
      inLine == {c \in rest : ~IsInteresting(p, c) /\ IsInLine(p, c, line)}
      interesting == {c \in rest : IsInteresting(p, c) /\ ~IsInLine(p, c, line)}
      others == rest \ (best \cup inLine \cup interesting)
      after(penalty) == IF depth - penalty <= 1 THEN -1 ELSE depth - 1 - penalty
      Late(C, penalty) == IF after(penalty) = -1 THEN <<>> ELSE Stage(C, after(penalty), {})
  IN IF p.five \in Cells
     THEN Stage(IF OfTurn(p, "ff") # {} THEN legal_ ELSE legal_ \cap Threats(p), depth - 1, line)
     ELSE Stage(double, depth - 1, {}) \o Stage(fourThree, depth - 1, {})
          \o Stage(main, depth - 1, IF keeps THEN line ELSE {})
          \o IF depth <= 1 \/ (depth = 3 /\ keeps /\ main # {}) THEN <<>>
             ELSE Stage(best \cap OfTurn(p, "ft"), depth - 1, {})
                  \o Stage(best \cap OfTurn(p, "tt"), depth - 1, {})
                  \o Late(inLine, INTERESTING_PENALITY)
                  \o Late(interesting, ATTACKLINE_PENALITY)
                  \o Late(others, ATTACKLINE_PENALITY + INTERESTING_PENALITY)

\* Picker_surewin::picker_surewin_defense: every legal move; after a four that
\* answers nothing the attacker gets two plies more.
DefenceMoves(p, depth) ==
  LET double == InTwoDirections(p, "ft", "ft")
      fourThree == InTwoDirections(p, "ft", "tt") \ double
      regular == Regular(p) \ (double \cup fourThree)
      own == regular \cap (Threats(p) \cup OfTurn(p, "ff"))
      ff == {f.cell : f \in FreeFours(p, 1 - p.turn)}
      fours == OfTurn(p, "ft") \ (double \cup fourThree \cup regular)
  IN IF p.five # NO_FIVE THEN Stage(PickedLegal(p), depth - 1, {})
     ELSE Stage(double, depth - 1, {}) \o Stage(fourThree, depth - 1, {})
          \o Stage(own, depth - 1, {}) \o Stage((regular \ own) \cap ff, depth - 1, {})
          \o Stage(regular \ (own \cup ff), depth - 1, {}) \o Stage(fours, depth + 1, {})
=============================================================================
