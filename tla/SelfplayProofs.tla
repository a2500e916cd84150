--------------------------- MODULE SelfplayProofs ---------------------------
(***************************************************************************)
(* Proofs about the two halves of selfplay: the rules of the games that    *)
(* are played, Gomoku, and the nets and the threads that play them,        *)
(* SelfplayManager.                                                        *)
(*                                                                         *)
(* Rules, for a board of any size: the tables that are kept up to date     *)
(* around each stone are those of a scan of the whole board; the code's    *)
(* patterns on a line are the fours and threes of the board; a move is     *)
(* legal exactly if it does not lose at once.                              *)
(*                                                                         *)
(* Nets, for any number of game threads, nets and games: a net is tracked  *)
(* exactly as long as it is used or the latest, its data write loop ends   *)
(* alone, and no finished game is lost.  The acquire count of a net is a   *)
(* number; that it is the number of the threads that refer to the net is   *)
(* what makes it safe to let a net go.                                     *)
(***************************************************************************)
EXTENDS SelfplayManager, Gomoku, FiniteSetTheorems, WellFoundedInduction,
        NaturalsInduction, TLAPS

-----------------------------------------------------------------------------
(* Geometry: the cells of a line.                                          *)

Points == Int \X Int
Squares == [Sides -> SUBSET Cells]

\* A cell is a point of the plane, on or off the board.
LEMMA CellsArePoints == Cells \subseteq Points
BY SizeAssumption DEF Cells, Points

LEMMA PointsEqual ==
  ASSUME NEW p \in Points, NEW q \in Points, p[1] = q[1], p[2] = q[2]
  PROVE  p = q
<1>1. p = <<p[1], p[2]>> /\ q = <<q[1], q[2]>>
  BY DEF Points
<1> QED BY <1>1

\* p is k steps along the line in direction d from c.
StepTo(c, d, k, p) ==
  /\ d = 0 => p[1] = c[1] /\ p[2] = c[2] + k
  /\ d = 1 => p[1] = c[1] + k /\ p[2] = c[2]
  /\ d = 2 => p[1] = c[1] - k /\ p[2] = c[2] + k
  /\ d = 3 => p[1] = c[1] + k /\ p[2] = c[2] + k

LEMMA StepIs ==
  ASSUME NEW c \in Points, NEW d \in Dirs, NEW k \in Int
  PROVE  At(c, d, k) \in Points /\ c[1] \in Int /\ c[2] \in Int /\ StepTo(c, d, k, At(c, d, k))
<1>1. c[1] \in Int /\ c[2] \in Int
  BY DEF Points
<1>2. d \in {0, 1, 2, 3}
  BY DEF Dirs
<1>3. k * 1 = k /\ k * 0 = 0 /\ k * (-1) = -k
  OBVIOUS
<1>4. CASE d = 0
  BY <1>1, <1>3, <1>4 DEF At, Step, Points, StepTo
<1>5. CASE d = 1
  BY <1>1, <1>3, <1>5 DEF At, Step, Points, StepTo
<1>6. CASE d = 2
  <2>1. d + 1 = 3 /\ Step[3] = <<-1, 1>>
    BY <1>6 DEF Step
  <2>2. At(c, d, k) = <<c[1] - k, c[2] + k>>
    BY <1>1, <1>3, <2>1 DEF At
  <2> QED BY <1>1, <1>6, <2>2 DEF Points, StepTo
<1>7. CASE d = 3
  BY <1>1, <1>3, <1>7 DEF At, Step, Points, StepTo
<1> QED BY <1>1, <1>2, <1>4, <1>5, <1>6, <1>7

\* Offsets on a line add up.
LEMMA AtAt ==
  ASSUME NEW c \in Points, NEW d \in Dirs, NEW j \in Int, NEW k \in Int
  PROVE  At(At(c, d, j), d, k) = At(c, d, j + k)
<1> DEFINE p == At(c, d, j)
           q == At(p, d, k)
           r == At(c, d, j + k)
<1>1. d \in {0, 1, 2, 3} /\ j + k \in Int
  BY DEF Dirs
<1>2. p \in Points /\ c[1] \in Int /\ c[2] \in Int /\ StepTo(c, d, j, p)
  BY StepIs
<1>3. r \in Points /\ StepTo(c, d, j + k, r)
  BY <1>1, StepIs
<1> HIDE DEF p, r
<1>4. q \in Points /\ StepTo(p, d, k, q)
  BY <1>2, StepIs
<1> HIDE DEF q
<1>5. q[1] = r[1] /\ q[2] = r[2]
  BY <1>1, <1>2, <1>3, <1>4 DEF StepTo
<1>6. q = r
  BY <1>3, <1>4, <1>5, PointsEqual
<1> QED BY <1>6 DEF q, p, r

LEMMA AtZero ==
  ASSUME NEW c \in Points, NEW d \in Dirs
  PROVE  At(c, d, 0) = c
<1> DEFINE q == At(c, d, 0)
<1>1. d \in {0, 1, 2, 3}
  BY DEF Dirs
<1>2. q \in Points /\ c[1] \in Int /\ c[2] \in Int /\ StepTo(c, d, 0, q)
  <2>1. 0 \in Int
    OBVIOUS
  <2> QED BY <2>1, StepIs
<1> HIDE DEF q
<1>3. q = c
  BY <1>1, <1>2, PointsEqual DEF StepTo
<1> QED BY <1>3 DEF q

\* A cell is at one offset of a line, and on one line through another cell.
LEMMA AtInjective ==
  ASSUME NEW c \in Points, NEW d \in Dirs, NEW e \in Dirs, NEW j \in Int, NEW k \in Int
  PROVE  At(c, d, j) = At(c, e, k) => (d = e => j = k) /\ (j # 0 => d = e)
<1> DEFINE q == At(c, d, j)
<1>1. (d \in {0, 1} \/ d = 2 \/ d = 3) /\ e \in {0, 1, 2, 3}
  BY DEF Dirs
<1>2. c[1] \in Int /\ c[2] \in Int /\ StepTo(c, d, j, q) /\ StepTo(c, e, k, At(c, e, k))
  BY StepIs
<1> SUFFICES ASSUME q = At(c, e, k) PROVE (d = e => j = k) /\ (j # 0 => d = e)
  OBVIOUS
<1>3. StepTo(c, e, k, q)
  BY <1>2
<1> HIDE DEF q
<1>4. CASE d \in {0, 1}
  BY <1>1, <1>2, <1>3, <1>4 DEF StepTo
<1>5. CASE d = 2
  BY <1>1, <1>2, <1>3, <1>5 DEF StepTo
<1>6. CASE d = 3
  BY <1>1, <1>2, <1>3, <1>6 DEF StepTo
<1> QED BY <1>1, <1>4, <1>5, <1>6

\* Between two cells of a line all are on the board, which is longer than that.
LEMMA BetweenCells ==
  ASSUME NEW p \in Cells, NEW d \in Dirs, NEW n \in Nat, At(p, d, n) \in Cells, NEW k \in 0 .. n
  PROVE  At(p, d, k) \in Cells /\ n < boardSize
<1> DEFINE q == At(p, d, n)
           r == At(p, d, k)
           OnBoard(i) == i \in Int /\ 0 <= i /\ i < boardSize
<1>0. boardSize \in Nat
  BY SizeAssumption
<1>1. \A x \in Points : x \in Cells <=> OnBoard(x[1]) /\ OnBoard(x[2])
  <2> TAKE x \in Points
  <2>1. x = <<x[1], x[2]>> /\ x[1] \in Int /\ x[2] \in Int
    BY DEF Points
  <2>2. x \in Cells <=> x[1] \in 0 .. boardSize - 1 /\ x[2] \in 0 .. boardSize - 1
    BY <2>1 DEF Cells
  <2> QED BY <1>0, <2>1, <2>2
<1>2. p \in Points /\ q \in Points /\ r \in Points /\ n \in Int /\ k \in Int
  BY CellsArePoints, StepIs
<1>3. d = 0 \/ d = 1 \/ d = 2 \/ d = 3
  BY DEF Dirs
<1>4. StepTo(p, d, n, q) /\ StepTo(p, d, k, r)
  BY <1>2, StepIs
<1>5. OnBoard(p[1]) /\ OnBoard(p[2]) /\ OnBoard(q[1]) /\ OnBoard(q[2])
  BY <1>1, <1>2
<1> HIDE DEF q, r
<1>6. OnBoard(r[1]) /\ OnBoard(r[2]) /\ n < boardSize
  BY <1>0, <1>3, <1>4, <1>5 DEF StepTo
<1> QED BY <1>1, <1>2, <1>6 DEF r

-----------------------------------------------------------------------------
(* Local updates: a stone changes only the lines that it is on.            *)

KindAt(sq, side, d, c) == KindOf(Line(sq, side, d, c))
Lines(region) == region \in [Dirs -> SUBSET Cells]

LEMMA OccupiedCells ==
  ASSUME NEW sq \in Squares
  PROVE  /\ Occupied(sq) \subseteq Cells /\ Free(sq) \subseteq Cells
         /\ \A side \in Sides : sq[side] \subseteq Occupied(sq)
         /\ Occupied(sq) = sq[0] \cup sq[1]
BY DEF Squares, Occupied, Free, Sides

\* What Seen sees.
LEMMA SeenIs ==
  ASSUME NEW sq, NEW region, NEW s, Lines(region)
  PROVE  s \in Seen(sq, region) <=>
           \E side \in Sides, d \in Dirs, c \in Cells :
             /\ c \in region[d] \ Occupied(sq)
             /\ s = [side |-> side, dir |-> d, cell |-> c, kind |-> KindAt(sq, side, d, c)]
<1> DEFINE Entries(side, d) ==
             {[side |-> side, dir |-> d, cell |-> c, kind |-> KindAt(sq, side, d, c)] :
                c \in region[d] \ Occupied(sq)}
<1>1. Seen(sq, region) = UNION {Entries(side, d) : side \in Sides, d \in Dirs}
  BY DEF Seen, KindAt
<1>2. \A d \in Dirs : region[d] \subseteq Cells
  BY DEF Lines
<1>3. \A side \in Sides, d \in Dirs :
        s \in Entries(side, d) <=>
          \E c \in Cells : /\ c \in region[d] \ Occupied(sq)
                           /\ s = [side |-> side, dir |-> d, cell |-> c, kind |-> KindAt(sq, side, d, c)]
  BY <1>2
<1> HIDE DEF Entries
<1>4. s \in Seen(sq, region) <=> \E side \in Sides, d \in Dirs : s \in Entries(side, d)
  BY <1>1
<1> QED BY <1>3, <1>4

LEMMA CellsOfSeen ==
  ASSUME NEW sq, NEW region, NEW side \in Sides, NEW d \in Dirs, NEW kind, Lines(region)
  PROVE  CellsOf(Seen(sq, region), side, d, kind)
           = {c \in region[d] \ Occupied(sq) : KindAt(sq, side, d, c) = kind}
<1> DEFINE A == CellsOf(Seen(sq, region), side, d, kind)
           B == {c \in region[d] \ Occupied(sq) : KindAt(sq, side, d, c) = kind}
<1>1. ASSUME NEW c \in A PROVE c \in B
  <2>1. PICK s \in Seen(sq, region) : s.side = side /\ s.dir = d /\ s.kind = kind /\ s.cell = c
    BY <1>1 DEF CellsOf
  <2>2. PICK side_ \in Sides, d_ \in Dirs, c_ \in Cells :
          /\ c_ \in region[d_] \ Occupied(sq)
          /\ s = [side |-> side_, dir |-> d_, cell |-> c_, kind |-> KindAt(sq, side_, d_, c_)]
    BY <2>1, SeenIs
  <2> QED BY <2>1, <2>2
<1>2. ASSUME NEW c \in B PROVE c \in A
  <2> DEFINE s == [side |-> side, dir |-> d, cell |-> c, kind |-> KindAt(sq, side, d, c)]
  <2>0. c \in Cells
    BY <1>2 DEF Lines
  <2>1. s \in Seen(sq, region)
    BY <1>2, <2>0, SeenIs
  <2>2. s.side = side /\ s.dir = d /\ s.kind = kind /\ s.cell = c
    BY <1>2
  <2> QED BY <2>1, <2>2 DEF CellsOf
<1> QED BY <1>1, <1>2

-----------------------------------------------------------------------------
(* A stone changes the lines that it is on.                                *)

\* sq and after are the same but for the stones on m.
DifferAt(sq, after, m) == \A side \in Sides : sq[side] \ {m} = after[side] \ {m}

\* A stone at m changes no line that m is not on.
LEMMA LineElsewhere ==
  ASSUME NEW sq \in Squares, NEW after \in Squares, NEW m, DifferAt(sq, after, m),
         NEW side \in Sides, NEW d \in Dirs, NEW c, \A k \in -4 .. 4 : At(c, d, k) # m
  PROVE  Line(sq, side, d, c) = Line(after, side, d, c)
<1>1. \A k \in -4 .. 4 : At(c, d, k) \in sq[side] <=> At(c, d, k) \in after[side]
  BY DEF DifferAt
<1>2. \A k \in -4 .. 4 : At(c, d, k) \in Free(sq) <=> At(c, d, k) \in Free(after)
  BY DEF DifferAt, Free, Occupied, Sides
<1> QED BY <1>1, <1>2 DEF Line

\* Around(m) has every cell from which m is at most four away.
LEMMA AroundIs ==
  ASSUME NEW m \in Cells
  PROVE  /\ Lines(Around(m))
         /\ \A d \in Dirs : m \in Around(m)[d]
         /\ \A d \in Dirs, c \in Cells : c \notin Around(m)[d] => \A k \in -4 .. 4 : At(c, d, k) # m
<1>1. Lines(Around(m))
  BY DEF Around, Lines
<1>2. ASSUME NEW d \in Dirs PROVE m \in Around(m)[d]
  BY AtZero, CellsArePoints DEF Around
<1>3. ASSUME NEW d \in Dirs, NEW c \in Cells, NEW k \in -4 .. 4, At(c, d, k) = m
      PROVE  c \in Around(m)[d]
  <2>1. -k \in -5 .. 5 /\ k + (-k) = 0 /\ k \in Int /\ -k \in Int
    OBVIOUS
  <2>2. At(m, d, -k) = c
    BY <1>3, <2>1, AtAt, AtZero, CellsArePoints
  <2> QED BY <2>1, <2>2 DEF Around
<1> QED BY <1>1, <1>2, <1>3

\* The cells that a table lists.
CellsOfKind(sq, side, d, kind) == {c \in Free(sq) : KindAt(sq, side, d, c) = kind}
TablesOf(sq) == [side \in Sides |-> [d \in Dirs |-> [kind \in Kinds |-> CellsOfKind(sq, side, d, kind)]]]

\* What setStartPosition computes.
LEMMA ScanIs ==
  ASSUME NEW sq
  PROVE  /\ Scan(sq).square = sq
         /\ Scan(sq).threat = TablesOf(sq)
         /\ Scan(sq).five = FiveThreat(Seen(sq, [d \in Dirs |-> Cells]))
<1> DEFINE all == [d \in Dirs |-> Cells]
<1>0. Lines(all)
  BY DEF Lines
<1>1. \A side \in Sides, d \in Dirs, kind \in Kinds :
        CellsOf(Seen(sq, all), side, d, kind) = CellsOfKind(sq, side, d, kind)
  BY <1>0, CellsOfSeen DEF CellsOfKind, Free
<1>2. [side \in Sides |-> [d \in Dirs |-> [kind \in Kinds |-> CellsOf(Seen(sq, all), side, d, kind)]]]
        = TablesOf(sq)
  BY <1>1 DEF TablesOf
<1> QED BY <1>2 DEF Scan

\* The tables of the stones as they were, updated around m, are those of the stones as
\* they are.
LEMMA TablesAfter ==
  ASSUME NEW sq \in Squares, NEW after \in Squares, NEW m \in Cells, DifferAt(sq, after, m)
  PROVE  LocalUpdate(after, TablesOf(sq), m).threat = TablesOf(after)
<1> DEFINE seen == Seen(after, Around(m))
           changed(d) == (Around(m)[d] \cap Free(after)) \cup {m}
           Updated(side, d, kind) == (TablesOf(sq)[side][d][kind] \ changed(d)) \cup CellsOf(seen, side, d, kind)
<1>1. ASSUME NEW side \in Sides, NEW d \in Dirs, NEW kind \in Kinds
      PROVE  Updated(side, d, kind) = CellsOfKind(after, side, d, kind)
  <2>1. TablesOf(sq)[side][d][kind] = CellsOfKind(sq, side, d, kind)
    BY DEF TablesOf
  <2>2. CellsOf(seen, side, d, kind) = {c \in Around(m)[d] \ Occupied(after) : KindAt(after, side, d, c) = kind}
    BY CellsOfSeen, AroundIs
  <2>3. Around(m)[d] \subseteq Cells /\ m \in Around(m)[d]
    BY AroundIs DEF Lines
  <2>4. \A c \in Cells \ Around(m)[d] : KindAt(sq, side, d, c) = KindAt(after, side, d, c)
    BY AroundIs, LineElsewhere DEF KindAt
  <2>5. \A c \in Cells \ {m} : c \in Free(sq) <=> c \in Free(after)
    BY DEF Free, Occupied, DifferAt, Sides
  <2>6. m \notin Free(after) => m \notin CellsOfKind(after, side, d, kind)
    BY DEF CellsOfKind
  <2> QED BY <2>1, <2>2, <2>3, <2>4, <2>5 DEF CellsOfKind, Free
<1>2. LocalUpdate(after, TablesOf(sq), m).threat
        = [side \in Sides |-> [d \in Dirs |-> [kind \in Kinds |-> Updated(side, d, kind)]]]
  BY DEF LocalUpdate
<1> HIDE DEF Updated
<1> QED BY <1>1, <1>2 DEF TablesOf

-----------------------------------------------------------------------------
(* The cells that make a five.                                             *)

FiveAt(sq, side, d, c) == c \in Free(sq) /\ KindAt(sq, side, d, c) = "five"

FivesSeen(sq, region) == {s \in Seen(sq, region) : s.kind = "five"}
AllFives(sq) == FivesSeen(sq, [d \in Dirs |-> Cells])

LEMMA FivesSeenAre ==
  ASSUME NEW sq, NEW region, NEW s, Lines(region)
  PROVE  s \in FivesSeen(sq, region) <=>
           \E side \in Sides, d \in Dirs, c \in Cells :
             /\ c \in region[d]
             /\ FiveAt(sq, side, d, c)
             /\ s = [side |-> side, dir |-> d, cell |-> c, kind |-> "five"]
<1>1. ASSUME s \in FivesSeen(sq, region)
      PROVE  \E side \in Sides, d \in Dirs, c \in Cells :
               /\ c \in region[d]
               /\ FiveAt(sq, side, d, c)
               /\ s = [side |-> side, dir |-> d, cell |-> c, kind |-> "five"]
  <2>1. PICK side \in Sides, d \in Dirs, c \in Cells :
           /\ c \in region[d] \ Occupied(sq)
           /\ s = [side |-> side, dir |-> d, cell |-> c, kind |-> KindAt(sq, side, d, c)]
    BY <1>1, SeenIs DEF FivesSeen
  <2>2. KindAt(sq, side, d, c) = "five"
    BY <1>1, <2>1 DEF FivesSeen
  <2>3. c \in Free(sq)
    BY <2>1 DEF Free
  <2> QED BY <2>1, <2>2, <2>3 DEF FiveAt
<1>2. ASSUME NEW side \in Sides, NEW d \in Dirs, NEW c \in Cells, c \in region[d],
             FiveAt(sq, side, d, c), s = [side |-> side, dir |-> d, cell |-> c, kind |-> "five"]
      PROVE  s \in FivesSeen(sq, region)
  <2>1. c \notin Occupied(sq) /\ s = [side |-> side, dir |-> d, cell |-> c, kind |-> KindAt(sq, side, d, c)]
    BY <1>2 DEF FiveAt, Free
  <2>2. s \in Seen(sq, region) /\ s.kind = "five"
    BY <1>2, <2>1, SeenIs
  <2> QED BY <2>2 DEF FivesSeen
<1> QED BY <1>1, <1>2

\* Where all fives are around m, the local update finds them.
LEMMA FivesAround ==
  ASSUME NEW sq, NEW m \in Cells,
         \A side \in Sides, d \in Dirs, c \in Cells : FiveAt(sq, side, d, c) => c \in Around(m)[d]
  PROVE  FiveThreat(Seen(sq, Around(m))) = FiveThreat(Seen(sq, [d \in Dirs |-> Cells]))
<1>1. Lines(Around(m)) /\ Lines([d \in Dirs |-> Cells])
  BY AroundIs DEF Lines
<1>2. ASSUME NEW s PROVE s \in FivesSeen(sq, Around(m)) <=> s \in AllFives(sq)
  <2>1. \A d \in Dirs : [e \in Dirs |-> Cells][d] = Cells /\ Around(m)[d] \subseteq Cells
    BY <1>1 DEF Lines
  <2> QED BY <1>1, <2>1, FivesSeenAre DEF AllFives
<1>3. FivesSeen(sq, Around(m)) = AllFives(sq)
  BY <1>2 DEF FivesSeen, AllFives
<1> QED BY <1>3 DEF FiveThreat, FivesSeen, AllFives

-----------------------------------------------------------------------------
(* The patterns, on one line.                                              *)

IsLine(line) == /\ line.own \subseteq -4 .. 4 /\ line.empty \subseteq -4 .. 4
                /\ line.own \cap line.empty = {} /\ 0 \notin line.own

OpenFourOn(line) == \E a \in -3 .. 0 : OwnRun(line, a, a + 3) /\ a - 1 \in line.empty /\ a + 4 \in line.empty
OneOfFiveOn(line) ==
  \E a \in -4 .. 0 : \E gap \in a .. a + 4 :
    gap # 0 /\ gap \in line.empty /\ (a .. a + 4) \ {0, gap} \subseteq line.own
OpenThreeOn(line) ==
  \E a \in -3 .. 0 : \E gap \in a .. a + 3 :
    /\ gap # 0 /\ gap \in line.empty /\ (a .. a + 3) \ {0, gap} \subseteq line.own
    /\ a - 1 \in line.empty /\ a + 4 \in line.empty

LEMMA MaxOfIs ==
  ASSUME NEW A, A \subseteq -3 .. 0, A # {}
  PROVE  MaxOf(A) \in A /\ \A b \in A : b <= MaxOf(A)
<1>1. \E a \in A : \A b \in A : b <= a
  <2>1. CASE 0 \in A
    BY <2>1
  <2>2. CASE 0 \notin A /\ -1 \in A
    BY <2>2
  <2>3. CASE 0 \notin A /\ -1 \notin A /\ -2 \in A
    BY <2>3
  <2>4. CASE 0 \notin A /\ -1 \notin A /\ -2 \notin A
    <3>1. \A b \in A : b \in -3 .. 0 /\ b # 0 /\ b # -1 /\ b # -2
      BY <2>4
    <3>2. ASSUME NEW b \in A PROVE b = -3
      BY <3>1
    <3>3. PICK a \in A : TRUE
      OBVIOUS
    <3>4. a = -3 /\ \A b \in A : b <= a
      BY <3>2
    <3> QED BY <3>4
  <2> QED BY <2>1, <2>2, <2>3, <2>4
<1> QED BY <1>1 DEF MaxOf

LEMMA RunHas ==
  ASSUME NEW line, NEW a \in Int, NEW b \in Int, OwnRun(line, a, b), NEW k \in Int, a <= k, k <= b, k # 0
  PROVE  k \in line.own
BY DEF OwnRun

\* The run that the code looks at, and the ends of any other one.
LEMMA LastFour ==
  ASSUME NEW line, IsLine(line), FourStarts(line) # {}
  PROVE  /\ MaxOf(FourStarts(line)) \in -3 .. 0
         /\ OwnRun(line, MaxOf(FourStarts(line)), MaxOf(FourStarts(line)) + 3)
         /\ \A b \in -3 .. 0 : OwnRun(line, b, b + 3) => b <= MaxOf(FourStarts(line))
<1>1. FourStarts(line) \subseteq -3 .. 0
  BY DEF FourStarts
<1> QED BY <1>1, MaxOfIs DEF FourStarts

\* The code looks at the last run of four only; any run would do.
LEMMA FreeFourIff ==
  ASSUME NEW line, IsLine(line)
  PROVE  IsFreeFour(line) <=> OpenFourOn(line)
<1>1. ASSUME IsFreeFour(line) PROVE OpenFourOn(line)
  <2> DEFINE a == MaxOf(FourStarts(line))
  <2>1. a \in -3 .. 0 /\ OwnRun(line, a, a + 3)
    BY <1>1, LastFour DEF IsFreeFour
  <2>2. a - 1 \in line.empty /\ a + 4 \in line.empty
    BY <1>1 DEF IsFreeFour
  <2> QED BY <2>1, <2>2 DEF OpenFourOn
<1>2. ASSUME NEW a \in -3 .. 0, OwnRun(line, a, a + 3), a - 1 \in line.empty, a + 4 \in line.empty
      PROVE  IsFreeFour(line)
  <2> DEFINE b == MaxOf(FourStarts(line))
  <2>1. FourStarts(line) # {}
    BY <1>2 DEF FourStarts
  <2>2. b \in -3 .. 0 /\ OwnRun(line, b, b + 3) /\ a <= b
    BY <1>2, <2>1, LastFour
  <2> HIDE DEF b
  <2>3. ~(a < b)
    <3> SUFFICES ASSUME a < b PROVE FALSE
      OBVIOUS
    <3>1. a + 4 \in Int /\ b <= a + 4 /\ a + 4 <= b + 3 /\ a + 4 # 0
      BY <2>2
    <3>2. a + 4 \in line.own
      BY <2>2, <3>1, RunHas
    <3> QED BY <1>2, <3>2 DEF IsLine
  <2>4. a = b
    BY <2>2, <2>3
  <2> QED BY <1>2, <2>1, <2>4 DEF IsFreeFour, b
<1> QED BY <1>1, <1>2 DEF OpenFourOn

\* A place in a five that lacks one stone is the side's own or the one that lacks.
LEMMA FourIff ==
  ASSUME NEW line, IsLine(line), ~IsFive(line)
  PROVE  IsFour(line) <=> OneOfFiveOn(line)
<1> DEFINE b == MaxOf(FourStarts(line))
           mine == line.own \cup line.empty
<1>0. FourStarts(line) # {} => b \in -3 .. 0 /\ OwnRun(line, b, b + 3)
  BY LastFour
<1>1. ASSUME IsFour(line), FourStarts(line) # {} PROVE OneOfFiveOn(line)
  <2>1. b - 1 \in mine \/ b + 4 \in mine
    BY <1>1 DEF IsFour
  <2> HIDE DEF b
  <2>2. CASE b - 1 \in mine
    <3>1. b - 1 \in -4 .. 0 /\ b - 1 # 0 /\ b - 1 + 4 = b + 3
      BY <1>0, <1>1
    <3>2. b - 1 \notin line.own
      <4>1. b - 1 \in line.own => OwnRun(line, b - 1, b - 1 + 4)
        BY <1>0, <1>1, <3>1 DEF OwnRun
      <4> QED BY <3>1, <4>1 DEF IsFive
    <3>3. (b - 1 .. b - 1 + 4) \ {0, b - 1} \subseteq line.own
      BY <1>0, <1>1, <3>1 DEF OwnRun
    <3> QED BY <2>2, <3>1, <3>2, <3>3 DEF OneOfFiveOn
  <2>3. CASE b + 4 \in mine
    <3>1. b \in -4 .. 0 /\ b + 4 # 0 /\ b + 4 \in b .. b + 4
      BY <1>0, <1>1
    <3>2. b + 4 \notin line.own
      <4>1. b + 4 \in line.own => OwnRun(line, b, b + 4)
        BY <1>0, <1>1, <3>1 DEF OwnRun
      <4> QED BY <3>1, <4>1 DEF IsFive
    <3>3. (b .. b + 4) \ {0, b + 4} \subseteq line.own
      BY <1>0, <1>1, <3>1 DEF OwnRun
    <3> QED BY <2>3, <3>1, <3>2, <3>3 DEF OneOfFiveOn
  <2> QED BY <2>1, <2>2, <2>3
<1>2. ASSUME IsFour(line), FourStarts(line) = {} PROVE OneOfFiveOn(line)
  <2>1. PICK a \in -4 .. 0 : \E gap \in (a + 1 .. a + 3) \ {0} :
          gap \in mine /\ (a .. a + 4) \ {0, gap} \subseteq line.own
    BY <1>2 DEF IsFour, GappedFour
  <2>2. PICK gap \in (a + 1 .. a + 3) \ {0} : gap \in mine /\ (a .. a + 4) \ {0, gap} \subseteq line.own
    BY <2>1
  <2>3. gap \notin line.own
    <3>1. gap \in line.own => OwnRun(line, a, a + 4)
      BY <2>2 DEF OwnRun
    <3> QED BY <3>1 DEF IsFive
  <2>4. gap \in a .. a + 4
    OBVIOUS
  <2> QED BY <2>2, <2>3, <2>4 DEF OneOfFiveOn
<1>3. ASSUME NEW a \in -4 .. 0, NEW gap \in a .. a + 4,
             gap # 0, gap \in line.empty, (a .. a + 4) \ {0, gap} \subseteq line.own
      PROVE  IsFour(line)
  <2>1. \A k \in a .. a + 4 : k # 0 => k \in mine
    BY <1>3
  <2>2. CASE FourStarts(line) # {}
    <3>1. b \in -3 .. 0 /\ OwnRun(line, b, b + 3) /\ \A e \in -3 .. 0 : OwnRun(line, e, e + 3) => e <= b
      BY <2>2, LastFour
    <3> HIDE DEF b
    <3>2. gap \notin line.own
      <4>1. gap \in line.empty /\ line.own \cap line.empty = {}
        BY <1>3 DEF IsLine
      <4> QED BY <4>1
    <3>3. gap < b \/ b + 3 < gap
      <4>1. gap \in Int /\ b \in Int /\ b + 3 \in Int
        BY <3>1
      <4>2. b <= gap /\ gap <= b + 3 => gap \in line.own
        BY <1>3, <3>1, <4>1, RunHas
      <4> QED BY <3>2, <4>1, <4>2
    <3>4. b - 1 \in mine \/ b + 4 \in mine
      <4>1. CASE gap < b
        <5>1. b - 1 \in a .. a + 4 /\ b - 1 # 0
          BY <3>1, <4>1
        <5> QED BY <2>1, <5>1
      <4>2. CASE b + 3 < gap
        <5>1. b + 4 \in a .. a + 4 /\ b + 4 # 0
          BY <3>1, <4>2
        <5> QED BY <2>1, <5>1
      <4> QED BY <3>3, <4>1, <4>2
    <3> QED BY <2>2, <3>4 DEF IsFour, b
  <2>3. CASE FourStarts(line) = {}
    <3>1. gap # a
      <4> SUFFICES ASSUME gap = a PROVE FALSE
        OBVIOUS
      <4>1. a + 1 \in -3 .. 0 /\ OwnRun(line, a + 1, a + 1 + 3)
        BY <1>3 DEF OwnRun
      <4> QED BY <2>3, <4>1 DEF FourStarts
    <3>2. gap # a + 4
      <4> SUFFICES ASSUME gap = a + 4 PROVE FALSE
        OBVIOUS
      <4>1. a \in -3 .. 0 /\ OwnRun(line, a, a + 3)
        BY <1>3 DEF OwnRun
      <4> QED BY <2>3, <4>1 DEF FourStarts
    <3>3. gap \in (a + 1 .. a + 3) \ {0} /\ gap \in mine
      BY <1>3, <3>1, <3>2
    <3> QED BY <1>3, <2>3, <3>3 DEF IsFour, GappedFour
  <2> QED BY <2>2, <2>3
<1> QED BY <1>1, <1>2, <1>3 DEF OneOfFiveOn

\* A run of three that covers the cell and has empty ends is the only one.
LEMMA OneThree ==
  ASSUME NEW line, IsLine(line), NEW a \in ThreeStarts(line)
  PROVE  MaxOf(ThreeStarts(line)) = a
<1> DEFINE b == MaxOf(ThreeStarts(line))
<1>1. ThreeStarts(line) \subseteq -3 .. 0
  BY DEF ThreeStarts
<1>2. b \in ThreeStarts(line) /\ a <= b
  BY <1>1, MaxOfIs
<1> HIDE DEF b
<1>3. /\ a \in -2 .. 0 /\ OwnRun(line, a, a + 2) /\ a + 3 \in line.empty
      /\ b \in -2 .. 0 /\ OwnRun(line, b, b + 2)
  BY <1>2 DEF ThreeStarts
<1>4. ~(a < b)
  <2> SUFFICES ASSUME a < b PROVE FALSE
    OBVIOUS
  <2>1. a + 3 \in Int /\ b <= a + 3 /\ a + 3 <= b + 2 /\ a + 3 # 0
    BY <1>3
  <2>2. a + 3 \in line.own
    BY <1>3, <2>1, RunHas
  <2> QED BY <1>3, <2>2 DEF IsLine
<1>5. b = a
  BY <1>2, <1>3, <1>4
<1> QED BY <1>5 DEF b

LEMMA ThreeIff ==
  ASSUME NEW line, IsLine(line), ~IsFive(line), ~IsFour(line)
  PROVE  IsThree(line) <=> OpenThreeOn(line)
<1> DEFINE b == MaxOf(ThreeStarts(line))
           mine == line.own \cup line.empty
<1>0. ~OneOfFiveOn(line)
  BY FourIff
<1>1. ASSUME IsThree(line), ThreeStarts(line) # {} PROVE OpenThreeOn(line)
  <2>0. PICK a \in ThreeStarts(line) : TRUE
    BY <1>1
  <2>1. a - 2 \in mine \/ a + 4 \in mine
    BY <1>1, OneThree DEF IsThree
  <2>2. a \in -2 .. 0 /\ OwnRun(line, a, a + 2) /\ a - 1 \in line.empty /\ a + 3 \in line.empty
    BY DEF ThreeStarts
  <2>3. CASE a - 2 \in mine
    <3>1. /\ a - 2 \in -4 .. 0 /\ a - 1 \in a - 2 .. a - 2 + 4 /\ a - 1 # 0
          /\ a - 1 \in -3 .. 0 /\ a - 1 \in a - 1 .. a - 1 + 3 /\ a - 1 - 1 = a - 2 /\ a - 1 + 4 = a + 3
      BY <2>2
    <3>2. a - 2 \notin line.own
      <4>1. a - 2 \in line.own => (a - 2 .. a - 2 + 4) \ {0, a - 1} \subseteq line.own
        BY <2>2, <3>1 DEF OwnRun
      <4> QED BY <1>0, <2>2, <3>1, <4>1 DEF OneOfFiveOn
    <3>3. (a - 1 .. a - 1 + 3) \ {0, a - 1} \subseteq line.own
      BY <2>2, <3>1 DEF OwnRun
    <3> QED BY <2>2, <2>3, <3>1, <3>2, <3>3 DEF OpenThreeOn
  <2>4. CASE a + 4 \in mine
    <3>1. a \in -4 .. 0 /\ a \in -3 .. 0 /\ a + 3 \in a .. a + 4 /\ a + 3 \in a .. a + 3 /\ a + 3 # 0
      BY <2>2
    <3>2. a + 4 \notin line.own
      <4>1. a + 4 \in line.own => (a .. a + 4) \ {0, a + 3} \subseteq line.own
        BY <2>2, <3>1 DEF OwnRun
      <4> QED BY <1>0, <2>2, <3>1, <4>1 DEF OneOfFiveOn
    <3>3. (a .. a + 3) \ {0, a + 3} \subseteq line.own
      BY <2>2, <3>1 DEF OwnRun
    <3> QED BY <2>2, <2>4, <3>1, <3>2, <3>3 DEF OpenThreeOn
  <2> QED BY <2>1, <2>3, <2>4
<1>2. ASSUME IsThree(line), ThreeStarts(line) = {} PROVE OpenThreeOn(line)
  <2>1. PICK a \in -3 .. 0 : \E gap \in (a + 1 .. a + 2) \ {0} :
          (a .. a + 3) \ {0, gap} \subseteq line.own /\ {a - 1, gap, a + 4} \subseteq line.empty
    BY <1>2 DEF IsThree, GappedThree
  <2>2. PICK gap \in (a + 1 .. a + 2) \ {0} :
          (a .. a + 3) \ {0, gap} \subseteq line.own /\ {a - 1, gap, a + 4} \subseteq line.empty
    BY <2>1
  <2>3. gap \in a .. a + 3
    OBVIOUS
  <2> QED BY <2>2, <2>3 DEF OpenThreeOn
<1>3. ASSUME NEW a \in -3 .. 0, NEW gap \in a .. a + 3,
             gap # 0, gap \in line.empty, (a .. a + 3) \ {0, gap} \subseteq line.own,
             a - 1 \in line.empty, a + 4 \in line.empty
      PROVE  IsThree(line)
  <2>1. CASE gap = a
    <3>1. /\ a + 1 \in -2 .. 0 /\ OwnRun(line, a + 1, a + 1 + 2)
          /\ a + 1 - 1 = a /\ a + 1 + 3 = a + 4 /\ a + 1 - 2 = a - 1
      BY <1>3, <2>1 DEF OwnRun
    <3>2. a + 1 \in ThreeStarts(line)
      BY <1>3, <2>1, <3>1 DEF ThreeStarts
    <3> QED BY <1>3, <3>1, <3>2, OneThree DEF IsThree
  <2>2. CASE gap = a + 3
    <3>1. a \in -2 .. 0 /\ OwnRun(line, a, a + 2)
      BY <1>3, <2>2 DEF OwnRun
    <3>2. a \in ThreeStarts(line)
      BY <1>3, <2>2, <3>1 DEF ThreeStarts
    <3> QED BY <1>3, <3>1, <3>2, OneThree DEF IsThree
  <2>3. CASE gap \in a + 1 .. a + 2
    <3>1. GappedThree(line)
      BY <1>3, <2>3 DEF GappedThree
    <3>2. ASSUME NEW e \in ThreeStarts(line) PROVE FALSE
      <4>1. e \in -2 .. 0 /\ OwnRun(line, e, e + 2) /\ e - 1 \in line.empty /\ e + 3 \in line.empty
        BY <3>2 DEF ThreeStarts
      <4>2. gap \notin line.own /\ a - 1 \notin line.own /\ a + 4 \notin line.own
        BY <1>3 DEF IsLine
      <4>3. \A k \in {a - 1, gap, a + 4} : k < e \/ e + 2 < k
        <5>1. gap \in Int /\ a + 4 \in Int /\ a + 4 # 0 /\ a - 1 \in Int /\ a - 1 # 0
          OBVIOUS
        <5> QED BY <1>3, <4>1, <4>2, <5>1, RunHas
      <4>4. e - 1 \notin line.own /\ e + 3 \notin line.own
        BY <4>1 DEF IsLine
      <4>5. CASE gap < e
        <5>1. e + 2 < a + 4 /\ e = a + 2
          BY <2>3, <4>1, <4>3, <4>5
        <5> QED BY <1>3, <4>1, <4>4, <5>1, <2>3
      <4>6. CASE e + 2 < gap
        <5>1. e <= a - 1 /\ a - 1 <= e + 2
          BY <2>3, <4>1, <4>6
        <5> QED BY <4>1, <4>3, <5>1
      <4> QED BY <4>3, <4>5, <4>6
    <3> QED BY <3>1, <3>2 DEF IsThree
  <2> QED BY <2>1, <2>2, <2>3
<1> QED BY <1>1, <1>2, <1>3 DEF OpenThreeOn

-----------------------------------------------------------------------------
(* The patterns, on the board.                                             *)

Apart(sq) == sq[0] \cap sq[1] = {}

\* A line from an empty cell is what is on the board.
LEMMA LineIs ==
  ASSUME NEW sq \in Squares, NEW side \in Sides, NEW d \in Dirs, NEW c \in Free(sq)
  PROVE  /\ IsLine(Line(sq, side, d, c))
         /\ \A k \in -4 .. 4 : k \in Line(sq, side, d, c).own <=> At(c, d, k) \in sq[side]
         /\ \A k \in -4 .. 4 : k \in Line(sq, side, d, c).empty <=> At(c, d, k) \in Free(sq)
<1>1. At(c, d, 0) = c /\ c \notin sq[side] /\ \A p \in Free(sq) : p \notin sq[side]
  BY AtZero, CellsArePoints, OccupiedCells DEF Free
<1> QED BY <1>1 DEF Line, IsLine

\* The cells from a to b, seen from c.
Window(c, d, a, b) == {At(c, d, k) : k \in a .. b}

LEMMA WindowIs ==
  ASSUME NEW c \in Cells, NEW d \in Dirs, NEW a \in Int, NEW b \in Int, a <= 0, 0 <= b
  PROVE  /\ c \in Window(c, d, a, b) /\ IsFiniteSet(Window(c, d, a, b))
         /\ \A k \in a .. b : At(c, d, k) \in Window(c, d, a, b)
         /\ \A j \in Int, k \in Int : At(c, d, j) = At(c, d, k) => j = k
         /\ \A k \in Int : At(c, d, k) = c => k = 0
<1>1. c \in Points /\ At(c, d, 0) = c
  BY AtZero, CellsArePoints
<1>2. IsFiniteSet(Window(c, d, a, b))
  <2> DEFINE f == [k \in a .. b |-> At(c, d, k)]
  <2>1. f \in Surjection(a .. b, Window(c, d, a, b))
    BY DEF Surjection, Window
  <2>2. IsFiniteSet(a .. b)
    BY FS_Interval
  <2> HIDE DEF f
  <2> QED BY <2>1, <2>2, FS_Surjection
<1>3. \A j \in Int, k \in Int : At(c, d, j) = At(c, d, k) => j = k
  BY <1>1, AtInjective
<1> QED BY <1>1, <1>2, <1>3 DEF Window

LEMMA RowIsWindow ==
  ASSUME NEW p \in Points, NEW d \in Dirs, NEW j \in Int, NEW n \in Nat
  PROVE  Row(p, d, n) = Window(At(p, d, j), d, -j, n - 1 - j)
<1>1. \A k \in Int : At(p, d, k) = At(At(p, d, j), d, k - j)
  <2> TAKE k \in Int
  <2>1. k - j \in Int /\ j + (k - j) = k
    OBVIOUS
  <2> QED BY <2>1, AtAt
<1>2. ASSUME NEW x \in Row(p, d, n) PROVE x \in Window(At(p, d, j), d, -j, n - 1 - j)
  <2>1. PICK k \in 0 .. n - 1 : x = At(p, d, k)
    BY DEF Row
  <2>2. k - j \in -j .. n - 1 - j
    OBVIOUS
  <2> QED BY <1>1, <2>1, <2>2 DEF Window
<1>3. ASSUME NEW x \in Window(At(p, d, j), d, -j, n - 1 - j) PROVE x \in Row(p, d, n)
  <2>1. PICK i \in -j .. n - 1 - j : x = At(At(p, d, j), d, i)
    BY DEF Window
  <2>2. i + j \in 0 .. n - 1 /\ i + j - j = i
    OBVIOUS
  <2>3. x = At(p, d, i + j)
    BY <1>1, <2>1, <2>2
  <2> QED BY <2>2, <2>3 DEF Row
<1> QED BY <1>2, <1>3

\* Five in a row through a cell.
LEMMA FiveWindows ==
  ASSUME NEW c \in Cells, NEW d \in Dirs, NEW w
  PROVE  w \in Fives[d] /\ c \in w
           <=> w \subseteq Cells /\ \E a \in -4 .. 0 : w = Window(c, d, a, a + 4)
<1>1. ASSUME w \in Fives[d], c \in w
      PROVE  w \subseteq Cells /\ \E a \in -4 .. 0 : w = Window(c, d, a, a + 4)
  <2>1. PICK p \in Cells : w = Row(p, d, 5) /\ w \subseteq Cells
    BY <1>1 DEF Fives
  <2>2. PICK j \in 0 .. 4 : c = At(p, d, j)
    BY <1>1, <2>1 DEF Row
  <2>3. /\ -j \in -4 .. 0 /\ j \in Int /\ 5 \in Nat
        /\ 5 - 1 - j = -j + 4
    OBVIOUS
  <2>4. Row(p, d, 5) = Window(c, d, -j, 5 - 1 - j)
    BY <2>2, <2>3, RowIsWindow, CellsArePoints
  <2>5. w = Window(c, d, -j, -j + 4)
    BY <2>1, <2>3, <2>4
  <2> QED BY <2>1, <2>3, <2>5
<1>2. ASSUME w \subseteq Cells, NEW a \in -4 .. 0, w = Window(c, d, a, a + 4)
      PROVE  w \in Fives[d] /\ c \in w
  <2> DEFINE p == At(c, d, a)
  <2>1. /\ a \in Int /\ a + 4 \in Int /\ -a \in Int /\ a <= 0 /\ 0 <= a + 4 /\ a \in a .. a + 4
        /\ a + (-a) = 0 /\ -(-a) = a /\ 5 - 1 - (-a) = a + 4 /\ 5 \in Nat
    OBVIOUS
  <2>2. c \in w /\ p \in Cells
    BY <1>2, <2>1, WindowIs
  <2>3. At(p, d, -a) = c
    BY <2>1, AtAt, AtZero, CellsArePoints
  <2>4. p \in Points
    BY <2>2, CellsArePoints
  <2> HIDE DEF p
  <2>5. Row(p, d, 5) = Window(c, d, -(-a), 5 - 1 - (-a))
    BY <2>1, <2>3, <2>4, RowIsWindow
  <2>6. Row(p, d, 5) = w
    BY <1>2, <2>1, <2>5
  <2> QED BY <1>2, <2>2, <2>6 DEF Fives
<1> QED BY <1>1, <1>2

\* A line of six whose inner four cells, from a on, have c among them.
SixAt(c, d, a) == [ends |-> {At(c, d, a - 1), At(c, d, a + 4)}, middle |-> Window(c, d, a, a + 3)]

\* Six in a row with the cell between the ends.
LEMMA SixWindows ==
  ASSUME NEW c \in Cells, NEW d \in Dirs, NEW s
  PROVE  s \in Sixes[d] /\ c \in s.middle
           <=> \E a \in -3 .. 0 : s = SixAt(c, d, a) /\ {At(c, d, a - 1), At(c, d, a + 4)} \subseteq Cells
<1>1. ASSUME s \in Sixes[d], c \in s.middle
      PROVE  \E a \in -3 .. 0 : s = SixAt(c, d, a) /\ {At(c, d, a - 1), At(c, d, a + 4)} \subseteq Cells
  <2>1. PICK p \in Cells : /\ At(p, d, 5) \in Cells
                           /\ s = [ends |-> {p, At(p, d, 5)}, middle |-> Row(At(p, d, 1), d, 4)]
    BY <1>1 DEF Sixes
  <2> DEFINE q == At(p, d, 1)
  <2>2. p \in Points /\ q \in Points /\ c \in Points
    BY StepIs, CellsArePoints
  <2>3. PICK j \in 0 .. 3 : c = At(q, d, j)
    BY <1>1, <2>1 DEF Row
  <2>4. /\ -j \in -3 .. 0 /\ j \in Int /\ 4 \in Nat /\ 4 - 1 - j = -j + 3 /\ -j - 1 \in Int /\ -j + 4 \in Int
        /\ j + (-j - 1) = -1 /\ j + (-j + 4) = 4 /\ 1 + (-1) = 0 /\ 1 + 4 = 5
    OBVIOUS
  <2>5. p = At(q, d, -1) /\ At(p, d, 5) = At(q, d, 4)
    BY <2>2, <2>4, AtAt, AtZero
  <2> HIDE DEF q
  <2>6. Row(q, d, 4) = Window(c, d, -j, -j + 3)
    <3>1. Row(q, d, 4) = Window(c, d, -j, 4 - 1 - j)
      BY <2>2, <2>3, <2>4, RowIsWindow
    <3> QED BY <2>4, <3>1
  <2>7. At(c, d, -j - 1) = p /\ At(c, d, -j + 4) = At(p, d, 5)
    BY <2>2, <2>3, <2>4, <2>5, AtAt
  <2>8. s = SixAt(c, d, -j) /\ {At(c, d, -j - 1), At(c, d, -j + 4)} \subseteq Cells
    BY <2>1, <2>6, <2>7 DEF SixAt, q
  <2> QED BY <2>4, <2>8
<1>2. ASSUME NEW a \in -3 .. 0, s = SixAt(c, d, a), {At(c, d, a - 1), At(c, d, a + 4)} \subseteq Cells
      PROVE  s \in Sixes[d] /\ c \in s.middle
  <2> DEFINE p == At(c, d, a - 1)
             q == At(c, d, a)
  <2>1. /\ a \in Int /\ -a \in Int /\ a - 1 \in Int /\ a + 3 \in Int /\ a <= 0 /\ 0 <= a + 3 /\ 4 \in Nat
        /\ a - 1 + 1 = a /\ a - 1 + 5 = a + 4 /\ a + (-a) = 0 /\ -(-a) = a /\ 4 - 1 - (-a) = a + 3
    OBVIOUS
  <2>2. c \in Points /\ p \in Cells /\ q \in Points
    BY <1>2, <2>1, StepIs, CellsArePoints
  <2>3. At(p, d, 1) = q /\ At(p, d, 5) = At(c, d, a + 4) /\ At(q, d, -a) = c
    BY <2>1, <2>2, AtAt, AtZero
  <2>4. c \in s.middle
    BY <1>2, <2>1, WindowIs DEF SixAt
  <2> HIDE DEF p, q
  <2>5. Row(q, d, 4) = Window(c, d, a, a + 3)
    <3>1. Row(q, d, 4) = Window(c, d, -(-a), 4 - 1 - (-a))
      BY <2>1, <2>2, <2>3, RowIsWindow
    <3> QED BY <2>1, <3>1
  <2>6. s = [ends |-> {p, At(p, d, 5)}, middle |-> Row(At(p, d, 1), d, 4)]
    BY <1>2, <2>3, <2>5 DEF SixAt, p
  <2>7. At(p, d, 5) \in Cells
    BY <1>2, <2>3
  <2> QED BY <2>2, <2>4, <2>6, <2>7 DEF Sixes
<1> QED BY <1>1, <1>2

LEMMA SixOnBoard ==
  ASSUME NEW c \in Cells, NEW d \in Dirs, NEW a \in -3 .. 0, SixAt(c, d, a).ends \subseteq Cells
  PROVE  Window(c, d, a, a + 3) \subseteq Cells /\ 5 < boardSize
<1> DEFINE p == At(c, d, a - 1)
<1>1. p \in Cells /\ At(c, d, a + 4) \in Cells /\ c \in Points
  BY CellsArePoints DEF SixAt
<1>2. a - 1 \in Int /\ 5 \in Nat /\ 5 \in Int /\ a - 1 + 5 = a + 4
  OBVIOUS
<1>3. At(p, d, 5) \in Cells
  BY <1>1, <1>2, AtAt
<1>4. ASSUME NEW k \in a .. a + 3 PROVE At(c, d, k) \in Cells
  <2>1. k - a + 1 \in 0 .. 5 /\ k - a + 1 \in Int /\ a - 1 + (k - a + 1) = k
    OBVIOUS
  <2>2. At(p, d, k - a + 1) = At(c, d, k)
    BY <1>1, <1>2, <2>1, AtAt
  <2> HIDE DEF p
  <2> QED BY <1>1, <1>2, <1>3, <2>1, <2>2, BetweenCells
<1>5. 0 \in 0 .. 5
  OBVIOUS
<1> HIDE DEF p
<1> QED BY <1>1, <1>2, <1>3, <1>4, <1>5, BetweenCells DEF Window

\* What is missing in a window of cells without stones of the other side.
LEMMA MissingIs ==
  ASSUME NEW sq \in Squares, Apart(sq), NEW side \in Sides, NEW d \in Dirs, NEW c \in Free(sq),
         NEW a \in -4 .. 0, NEW b \in 0 .. 4, Window(c, d, a, b) \subseteq Cells
  PROVE  /\ Window(c, d, a, b) \cap sq[1 - side] = {}
         /\ Cardinality(Window(c, d, a, b) \ (sq[side] \cup {c})) = 1
         <=> \E gap \in a .. b :
               /\ gap # 0 /\ gap \in Line(sq, side, d, c).empty
               /\ (a .. b) \ {0, gap} \subseteq Line(sq, side, d, c).own
<1> DEFINE w == Window(c, d, a, b)
           line == Line(sq, side, d, c)
           missing == w \ (sq[side] \cup {c})
           Lacks(gap) == /\ gap # 0 /\ gap \in line.empty
                         /\ (a .. b) \ {0, gap} \subseteq line.own
<1>1. /\ a \in Int /\ b \in Int /\ a <= 0 /\ 0 <= b /\ a .. b \subseteq -4 .. 4 /\ a .. b \subseteq Int
      /\ c \in Cells /\ 0 \in Int
  BY DEF Free
<1>2. /\ \A k \in -4 .. 4 : k \in line.own <=> At(c, d, k) \in sq[side]
      /\ \A k \in -4 .. 4 : k \in line.empty <=> At(c, d, k) \in Free(sq)
  BY LineIs
<1>3. /\ IsFiniteSet(w) /\ At(c, d, 0) = c
      /\ \A k \in a .. b : At(c, d, k) \in w /\ At(c, d, k) \in Cells
      /\ \A j \in Int, k \in Int : At(c, d, j) = At(c, d, k) => j = k
      /\ \A k \in Int : At(c, d, k) = c => k = 0
  BY <1>1, WindowIs, AtZero, CellsArePoints
<1>4. Cardinality(missing) = 1 <=> \E x : missing = {x}
  <2>1. missing \in SUBSET w
    OBVIOUS
  <2>2. IsFiniteSet(missing)
    BY <1>3, <2>1, FS_Subset
  <2> QED BY <2>2, FS_Singleton
<1>5. /\ \A p \in Cells : p \in Free(sq) <=> p \notin sq[side] /\ p \notin sq[1 - side]
      /\ sq[side] \cap sq[1 - side] = {} /\ sq[side] \subseteq Cells
  BY DEF Free, Occupied, Apart, Sides, Squares
<1>6. \A x : x \in w <=> \E k \in a .. b : x = At(c, d, k)
  BY DEF Window
<1> HIDE DEF w, line
<1>7. ASSUME w \cap sq[1 - side] = {}, NEW x, missing = {x}
      PROVE  \E gap \in a .. b : Lacks(gap)
  <2>1. PICK gap \in a .. b : x = At(c, d, gap)
    BY <1>6, <1>7
  <2>2. x \in w /\ x # c /\ x \notin sq[side] /\ x \notin sq[1 - side]
    BY <1>7
  <2>3. gap # 0
    BY <1>3, <2>1, <2>2
  <2>4. gap \in line.empty
    BY <1>1, <1>2, <1>3, <1>5, <2>1, <2>2
  <2>5. ASSUME NEW k \in a .. b, k # 0, k # gap PROVE k \in line.own
    <3>1. At(c, d, k) \in w /\ At(c, d, k) # c /\ At(c, d, k) # x
      BY <1>1, <1>3, <2>1, <2>5
    <3>2. At(c, d, k) \in sq[side]
      BY <1>7, <3>1
    <3> QED BY <1>1, <1>2, <3>2
  <2> QED BY <2>3, <2>4, <2>5
<1>8. ASSUME NEW gap \in a .. b, Lacks(gap)
      PROVE  w \cap sq[1 - side] = {} /\ \E x : missing = {x}
  <2> DEFINE x == At(c, d, gap)
  <2>1. x \in Free(sq) /\ x \in w /\ x # c /\ x \in Cells
    BY <1>1, <1>2, <1>3, <1>8
  <2>2. ASSUME NEW p \in w PROVE p = c \/ p = x \/ p \in sq[side]
    <3>1. PICK k \in a .. b : p = At(c, d, k)
      BY <1>6
    <3>2. CASE k = 0
      BY <1>3, <3>1, <3>2
    <3>3. CASE k = gap
      BY <3>1, <3>3
    <3>4. CASE k # 0 /\ k # gap
      BY <1>1, <1>2, <1>8, <3>1, <3>4
    <3> QED BY <3>2, <3>3, <3>4
  <2> HIDE DEF x
  <2>3. w \cap sq[1 - side] = {}
    BY <1>1, <1>5, <2>1, <2>2
  <2>4. missing = {x}
    BY <1>5, <2>1, <2>2
  <2> QED BY <2>3, <2>4
<1> QED BY <1>4, <1>7, <1>8 DEF w, line

\* Each pattern on a line is the threat on the board.
LEMMA FiveIff ==
  ASSUME NEW sq \in Squares, NEW side \in Sides, NEW d \in Dirs, NEW c \in Free(sq)
  PROVE  IsFive(Line(sq, side, d, c)) <=> \E w \in Fives[d] : c \in w /\ w \ {c} \subseteq sq[side]
<1> DEFINE line == Line(sq, side, d, c)
<1>1. c \in Cells /\ sq[side] \subseteq Cells
  BY DEF Free, Squares
<1>2. \A k \in -4 .. 4 : k \in line.own <=> At(c, d, k) \in sq[side]
  BY LineIs
<1> HIDE DEF line
<1>3. ASSUME NEW a \in -4 .. 0, OwnRun(line, a, a + 4)
      PROVE  \E w \in Fives[d] : c \in w /\ w \ {c} \subseteq sq[side]
  <2> DEFINE w == Window(c, d, a, a + 4)
  <2>1. ASSUME NEW p \in w PROVE p = c \/ p \in sq[side]
    <3>1. PICK k \in a .. a + 4 : p = At(c, d, k)
      BY DEF Window
    <3>2. CASE k = 0
      BY <1>1, <3>1, <3>2, AtZero, CellsArePoints
    <3>3. CASE k # 0
      <4>1. k \in line.own /\ k \in -4 .. 4
        BY <1>3, <3>3, RunHas
      <4> QED BY <1>2, <3>1, <4>1
    <3> QED BY <3>2, <3>3
  <2>2. w \subseteq Cells
    BY <1>1, <2>1
  <2>3. w \in Fives[d] /\ c \in w
    BY <1>1, <2>2, FiveWindows
  <2> QED BY <2>1, <2>3
<1>4. ASSUME NEW w \in Fives[d], c \in w, w \ {c} \subseteq sq[side]
      PROVE  IsFive(line)
  <2>1. PICK a \in -4 .. 0 : w = Window(c, d, a, a + 4)
    BY <1>1, <1>4, FiveWindows
  <2>2. ASSUME NEW k \in a .. a + 4, k # 0 PROVE k \in line.own
    <3>1. At(c, d, k) \in w /\ At(c, d, k) # c
      <4>1. a \in Int /\ a + 4 \in Int /\ a <= 0 /\ 0 <= a + 4 /\ k \in Int
        OBVIOUS
      <4> QED BY <1>1, <2>1, <2>2, <4>1, WindowIs
    <3>2. At(c, d, k) \in sq[side] /\ k \in -4 .. 4
      BY <1>4, <3>1
    <3> QED BY <1>2, <3>2
  <2>3. OwnRun(line, a, a + 4)
    BY <2>2 DEF OwnRun
  <2> QED BY <2>3 DEF IsFive
<1> QED BY <1>3, <1>4 DEF IsFive, line

LEMMA OpenFourIff ==
  ASSUME NEW sq \in Squares, NEW side \in Sides, NEW d \in Dirs, NEW c \in Free(sq)
  PROVE  IsFreeFour(Line(sq, side, d, c)) <=> MakesOpenFour(sq, side, d, c)
<1> DEFINE line == Line(sq, side, d, c)
<1>1. /\ c \in Cells /\ sq[side] \subseteq Cells /\ Free(sq) \subseteq Cells
  BY DEF Free, Squares
<1>2. /\ \A k \in -4 .. 4 : k \in line.own <=> At(c, d, k) \in sq[side]
      /\ \A k \in -4 .. 4 : k \in line.empty <=> At(c, d, k) \in Free(sq)
      /\ IsLine(line)
  BY LineIs
<1>3. IsFreeFour(line) <=> OpenFourOn(line)
  BY <1>2, FreeFourIff
<1> HIDE DEF line
<1>4. ASSUME NEW a \in -3 .. 0
      PROVE  OwnRun(line, a, a + 3) <=> Window(c, d, a, a + 3) \ {c} \subseteq sq[side]
  <2>0. /\ a \in Int /\ a + 3 \in Int /\ a <= 0 /\ 0 <= a + 3
        /\ a .. a + 3 \subseteq -4 .. 4 /\ a .. a + 3 \subseteq Int
    OBVIOUS
  <2>1. /\ \A k \in a .. a + 3 : At(c, d, k) \in Window(c, d, a, a + 3) /\ (At(c, d, k) = c => k = 0)
        /\ At(c, d, 0) = c
    BY <1>1, <2>0, WindowIs, AtZero, CellsArePoints
  <2>2. \A x : x \in Window(c, d, a, a + 3) <=> \E k \in a .. a + 3 : x = At(c, d, k)
    BY DEF Window
  <2>3. OwnRun(line, a, a + 3) <=> \A k \in a .. a + 3 : k # 0 => At(c, d, k) \in sq[side]
    BY <1>2, <2>0 DEF OwnRun
  <2> QED BY <2>1, <2>2, <2>3
<1>5. ASSUME NEW a \in -3 .. 0, OwnRun(line, a, a + 3), a - 1 \in line.empty, a + 4 \in line.empty
      PROVE  MakesOpenFour(sq, side, d, c)
  <2>1. At(c, d, a - 1) \in Free(sq) /\ At(c, d, a + 4) \in Free(sq)
    BY <1>2, <1>5
  <2>2. SixAt(c, d, a) \in Sixes[d] /\ c \in SixAt(c, d, a).middle
    BY <1>1, <2>1, SixWindows
  <2>3. SixAt(c, d, a).ends \subseteq Free(sq) /\ SixAt(c, d, a).middle \ {c} \subseteq sq[side]
    BY <1>4, <1>5, <2>1 DEF SixAt
  <2> QED BY <2>2, <2>3 DEF MakesOpenFour
<1>6. ASSUME NEW s \in Sixes[d], c \in s.middle, s.ends \subseteq Free(sq), s.middle \ {c} \subseteq sq[side]
      PROVE  OpenFourOn(line)
  <2>1. PICK a \in -3 .. 0 : s = SixAt(c, d, a)
    BY <1>1, <1>6, SixWindows
  <2>2. OwnRun(line, a, a + 3)
    BY <1>4, <1>6, <2>1 DEF SixAt
  <2>3. a - 1 \in -4 .. 4 /\ a + 4 \in -4 .. 4 /\ At(c, d, a - 1) \in Free(sq) /\ At(c, d, a + 4) \in Free(sq)
    BY <1>6, <2>1 DEF SixAt
  <2> QED BY <1>2, <2>2, <2>3 DEF OpenFourOn
<1> QED BY <1>3, <1>5, <1>6 DEF OpenFourOn, MakesOpenFour, line

LEMMA OneOfFiveIff ==
  ASSUME NEW sq \in Squares, Apart(sq), NEW side \in Sides, NEW d \in Dirs, NEW c \in Free(sq)
  PROVE  OneOfFiveOn(Line(sq, side, d, c)) <=> MakesOneOfFive(sq, side, d, c)
<1> DEFINE line == Line(sq, side, d, c)
           Lacks(w) == w \cap sq[1 - side] = {} /\ Cardinality(w \ (sq[side] \cup {c})) = 1
           Gap(a) == \E gap \in a .. a + 4 :
                       gap # 0 /\ gap \in line.empty /\ (a .. a + 4) \ {0, gap} \subseteq line.own
<1>1. c \in Cells /\ sq[side] \subseteq Cells
  BY DEF Free, Squares
<1>2. ASSUME NEW a \in -4 .. 0, Window(c, d, a, a + 4) \subseteq Cells
      PROVE  Lacks(Window(c, d, a, a + 4)) <=> Gap(a)
  <2>1. a + 4 \in 0 .. 4
    OBVIOUS
  <2> QED BY <1>2, <2>1, MissingIs
<1>3. ASSUME NEW a \in -4 .. 0, Gap(a) PROVE Window(c, d, a, a + 4) \subseteq Cells
  <2>1. PICK gap \in a .. a + 4 : gap # 0 /\ gap \in line.empty /\ (a .. a + 4) \ {0, gap} \subseteq line.own
    BY <1>3
  <2>2. ASSUME NEW k \in a .. a + 4 PROVE At(c, d, k) \in Cells
    <3>1. k \in -4 .. 4
      OBVIOUS
    <3>2. CASE k = 0
      BY <1>1, <3>2, AtZero, CellsArePoints
    <3>3. CASE k = gap
      BY <2>1, <3>1, <3>3, LineIs DEF Free
    <3>4. CASE k # 0 /\ k # gap
      BY <1>1, <2>1, <3>1, <3>4, LineIs
    <3> QED BY <3>2, <3>3, <3>4
  <2> QED BY <2>2 DEF Window
<1>4. OneOfFiveOn(line) <=> \E a \in -4 .. 0 : Gap(a)
  BY DEF OneOfFiveOn
<1>5. MakesOneOfFive(sq, side, d, c) <=> \E w \in Fives[d] : c \in w /\ Lacks(w)
  BY DEF MakesOneOfFive
<1> HIDE DEF Lacks, Gap
<1>6. (\E w \in Fives[d] : c \in w /\ Lacks(w)) <=> \E a \in -4 .. 0 : Gap(a)
  BY <1>1, <1>2, <1>3, FiveWindows
<1> QED BY <1>4, <1>5, <1>6

LEMMA OpenThreeIff ==
  ASSUME NEW sq \in Squares, Apart(sq), NEW side \in Sides, NEW d \in Dirs, NEW c \in Free(sq)
  PROVE  OpenThreeOn(Line(sq, side, d, c)) <=> MakesOpenThree(sq, side, d, c)
<1> DEFINE line == Line(sq, side, d, c)
           Lacks(w) == w \cap sq[1 - side] = {} /\ Cardinality(w \ (sq[side] \cup {c})) = 1
           Gap(a) == \E gap \in a .. a + 3 :
                       gap # 0 /\ gap \in line.empty /\ (a .. a + 3) \ {0, gap} \subseteq line.own
           Open(a) == a - 1 \in line.empty /\ a + 4 \in line.empty
<1>1. c \in Cells /\ sq[side] \subseteq Cells /\ Free(sq) \subseteq Cells
  BY DEF Free, Squares
<1>2. ASSUME NEW a \in -3 .. 0, Window(c, d, a, a + 3) \subseteq Cells
      PROVE  Lacks(Window(c, d, a, a + 3)) <=> Gap(a)
  <2>1. a + 3 \in 0 .. 4 /\ a \in -4 .. 0
    OBVIOUS
  <2> QED BY <1>2, <2>1, MissingIs
<1>3. ASSUME NEW a \in -3 .. 0, Gap(a) PROVE Window(c, d, a, a + 3) \subseteq Cells
  <2>1. PICK gap \in a .. a + 3 : gap # 0 /\ gap \in line.empty /\ (a .. a + 3) \ {0, gap} \subseteq line.own
    BY <1>3
  <2>2. ASSUME NEW k \in a .. a + 3 PROVE At(c, d, k) \in Cells
    <3>1. k \in -4 .. 4
      OBVIOUS
    <3>2. CASE k = 0
      BY <1>1, <3>2, AtZero, CellsArePoints
    <3>3. CASE k = gap
      BY <2>1, <3>1, <3>3, LineIs DEF Free
    <3>4. CASE k # 0 /\ k # gap
      BY <1>1, <2>1, <3>1, <3>4, LineIs
    <3> QED BY <3>2, <3>3, <3>4
  <2> QED BY <2>2 DEF Window
<1>4. ASSUME NEW a \in -3 .. 0
      PROVE  Open(a) <=> SixAt(c, d, a).ends \subseteq Free(sq)
  <2>1. a - 1 \in -4 .. 4 /\ a + 4 \in -4 .. 4
    OBVIOUS
  <2> QED BY <2>1, LineIs DEF SixAt
<1>5. OpenThreeOn(line) <=> \E a \in -3 .. 0 : Gap(a) /\ Open(a)
  BY DEF OpenThreeOn
<1>6. MakesOpenThree(sq, side, d, c) <=>
        \E s \in Sixes[d] : c \in s.middle /\ s.ends \subseteq Free(sq) /\ Lacks(s.middle)
  BY DEF MakesOpenThree
<1>7. \A a : /\ SixAt(c, d, a).middle = Window(c, d, a, a + 3)
             /\ SixAt(c, d, a).ends = {At(c, d, a - 1), At(c, d, a + 4)}
  BY DEF SixAt
<1>8. \A a \in -3 .. 0 : SixAt(c, d, a).ends \subseteq Cells => Window(c, d, a, a + 3) \subseteq Cells
  BY <1>1, SixOnBoard
<1> HIDE DEF Lacks, Gap, Open
<1>9. (\E s \in Sixes[d] : c \in s.middle /\ s.ends \subseteq Free(sq) /\ Lacks(s.middle))
        <=> \E a \in -3 .. 0 : Gap(a) /\ Open(a)
  <2>1. ASSUME NEW s \in Sixes[d], c \in s.middle, s.ends \subseteq Free(sq), Lacks(s.middle)
        PROVE  \E a \in -3 .. 0 : Gap(a) /\ Open(a)
    <3>1. PICK a \in -3 .. 0 : s = SixAt(c, d, a)
      BY <1>1, <2>1, SixWindows
    <3>2. Window(c, d, a, a + 3) \subseteq Cells
      BY <1>1, <1>8, <2>1, <3>1
    <3> QED BY <1>2, <1>4, <1>7, <2>1, <3>1, <3>2
  <2>2. ASSUME NEW a \in -3 .. 0, Gap(a), Open(a)
        PROVE  \E s \in Sixes[d] : c \in s.middle /\ s.ends \subseteq Free(sq) /\ Lacks(s.middle)
    <3>1. SixAt(c, d, a).ends \subseteq Free(sq)
      BY <1>4, <2>2
    <3>2. SixAt(c, d, a) \in Sixes[d] /\ c \in SixAt(c, d, a).middle
      BY <1>1, <1>7, <3>1, SixWindows
    <3>3. Lacks(SixAt(c, d, a).middle)
      BY <1>2, <1>3, <1>7, <2>2
    <3> QED BY <3>1, <3>2, <3>3
  <2> QED BY <2>1, <2>2
<1> QED BY <1>5, <1>6, <1>9

-----------------------------------------------------------------------------
(* What the tables say.                                                    *)

LEMMA KindIs ==
  ASSUME NEW sq, NEW side, NEW d, NEW c
  PROVE  LET line == Line(sq, side, d, c)
             kind == KindAt(sq, side, d, c) IN
         /\ kind = "five" <=> IsFive(line)
         /\ kind = "ff" <=> ~IsFive(line) /\ IsFreeFour(line)
         /\ kind = "ft" <=> ~IsFive(line) /\ ~IsFreeFour(line) /\ IsFour(line)
         /\ kind = "tt" <=> ~IsFive(line) /\ ~IsFreeFour(line) /\ ~IsFour(line) /\ IsThree(line)
BY DEF KindAt, KindOf

\* An empty cell, by what a stone there would make in a direction.
NoFiveAt(sq, side, d, c) == \A w \in Fives[d] : c \in w => ~(w \ {c} \subseteq sq[side])

\* The code tries the patterns in the order of their strength.
LEMMA KindMakes ==
  ASSUME NEW sq \in Squares, Apart(sq), NEW side \in Sides, NEW d \in Dirs, NEW c \in Free(sq)
  PROVE  LET kind == KindAt(sq, side, d, c)
             open == NoFiveAt(sq, side, d, c)
             four == MakesOpenFour(sq, side, d, c)
             ofFive == MakesOneOfFive(sq, side, d, c) IN
         /\ kind = "five" <=> ~open
         /\ kind = "ff" <=> open /\ four
         /\ kind = "ft" <=> open /\ ~four /\ ofFive
         /\ kind = "tt" <=> open /\ ~four /\ ~ofFive /\ MakesOpenThree(sq, side, d, c)
<1> DEFINE line == Line(sq, side, d, c)
<1>1. IsLine(line)
  BY LineIs
<1>2. IsFive(line) <=> ~NoFiveAt(sq, side, d, c)
  BY FiveIff DEF NoFiveAt
<1>3. IsFreeFour(line) <=> MakesOpenFour(sq, side, d, c)
  BY OpenFourIff
<1>4. ~IsFive(line) => (IsFour(line) <=> MakesOneOfFive(sq, side, d, c))
  BY <1>1, FourIff, OneOfFiveIff
<1>5. ~IsFive(line) /\ ~IsFour(line) => (IsThree(line) <=> MakesOpenThree(sq, side, d, c))
  BY <1>1, ThreeIff, OpenThreeIff
<1> HIDE DEF line
<1>6. LET kind == KindAt(sq, side, d, c) IN
      /\ kind = "five" <=> IsFive(line)
      /\ kind = "ff" <=> ~IsFive(line) /\ IsFreeFour(line)
      /\ kind = "ft" <=> ~IsFive(line) /\ ~IsFreeFour(line) /\ IsFour(line)
      /\ kind = "tt" <=> ~IsFive(line) /\ ~IsFreeFour(line) /\ ~IsFour(line) /\ IsThree(line)
  BY KindIs DEF line
<1> QED BY <1>2, <1>3, <1>4, <1>5, <1>6

ThreatsFrom(sq, side, d) ==
  LET open == {c \in Free(sq) : \A w \in Fives[d] : c \in w => ~(w \ {c} \subseteq sq[side])}
      ff == {c \in open : MakesOpenFour(sq, side, d, c)}
      ft == {c \in open \ ff : MakesOneOfFive(sq, side, d, c)}
      tt == {c \in open \ (ff \cup ft) : MakesOpenThree(sq, side, d, c)}
  IN [kind \in Kinds |-> CASE kind = "ff" -> ff [] kind = "ft" -> ft [] kind = "tt" -> tt]

\* The tables hold the threats that are defined by rows of five and six cells.
LEMMA TablesAreOfThreats ==
  ASSUME NEW sq \in Squares, Apart(sq), NEW side \in Sides, NEW d \in Dirs
  PROVE  TablesOf(sq)[side][d] = ThreatsFrom(sq, side, d)
<1> DEFINE open == {c \in Free(sq) : \A w \in Fives[d] : c \in w => ~(w \ {c} \subseteq sq[side])}
           ff == {c \in open : MakesOpenFour(sq, side, d, c)}
           ft == {c \in open \ ff : MakesOneOfFive(sq, side, d, c)}
           tt == {c \in open \ (ff \cup ft) : MakesOpenThree(sq, side, d, c)}
<1>1. open = {c \in Free(sq) : NoFiveAt(sq, side, d, c)}
  BY DEF NoFiveAt
<1>2. \A c \in Free(sq) :
        LET kind == KindAt(sq, side, d, c) IN
        /\ kind = "ff" <=> c \in open /\ MakesOpenFour(sq, side, d, c)
        /\ kind = "ft" <=> /\ c \in open /\ ~MakesOpenFour(sq, side, d, c)
                           /\ MakesOneOfFive(sq, side, d, c)
        /\ kind = "tt" <=> /\ c \in open /\ ~MakesOpenFour(sq, side, d, c)
                           /\ ~MakesOneOfFive(sq, side, d, c) /\ MakesOpenThree(sq, side, d, c)
  BY <1>1, KindMakes
<1>3. open \subseteq Free(sq)
  OBVIOUS
<1> HIDE DEF open
<1>4. CellsOfKind(sq, side, d, "ff") = ff
  BY <1>2, <1>3 DEF CellsOfKind
<1>5. CellsOfKind(sq, side, d, "ft") = ft
  BY <1>2, <1>3 DEF CellsOfKind
<1>6. CellsOfKind(sq, side, d, "tt") = tt
  BY <1>2, <1>3 DEF CellsOfKind
<1>7. TablesOf(sq)[side][d] = [kind \in Kinds |-> CellsOfKind(sq, side, d, kind)]
  BY DEF TablesOf
<1> HIDE DEF ff, ft, tt
<1>8. TablesOf(sq)[side][d] = [kind \in Kinds |->
         CASE kind = "ff" -> ff [] kind = "ft" -> ft [] kind = "tt" -> tt]
  BY <1>4, <1>5, <1>6, <1>7 DEF Kinds
<1> QED BY <1>8 DEF ff, ft, tt, open, ThreatsFrom

-----------------------------------------------------------------------------
(* The cells that make a five, and five_threat.                            *)

LEMMA FinitelyManyCells == IsFiniteSet(Cells)
<1>1. IsFiniteSet(0 .. boardSize - 1)
  BY SizeAssumption, FS_Interval
<1> QED BY <1>1, FS_Product DEF Cells

LEMMA FiveCellsAre ==
  ASSUME NEW sq \in Squares, Apart(sq), NEW side \in Sides
  PROVE  /\ IsFiniteSet(FiveCells(sq, side)) /\ FiveCells(sq, side) \subseteq Free(sq)
         /\ \A c : c \in FiveCells(sq, side) <=> \E d \in Dirs : FiveAt(sq, side, d, c)
<1>1. /\ \A p \in Cells : p \in Free(sq) <=> p \notin sq[side] /\ p \notin sq[1 - side]
      /\ sq[side] \cap sq[1 - side] = {} /\ sq[side] \subseteq Cells /\ Free(sq) \subseteq Cells
  BY DEF Free, Occupied, Apart, Sides, Squares
<1>2. ASSUME NEW d \in Dirs, NEW w \in Fives[d], NEW c, w \cap sq[1 - side] = {},
             Cardinality(w \ sq[side]) = 1, c \in w \ sq[side]
      PROVE  FiveAt(sq, side, d, c)
  <2>1. w \subseteq Cells
    BY DEF Fives
  <2>2. IsFiniteSet(w \ sq[side])
    <3>1. w \ sq[side] \in SUBSET Cells
      BY <2>1
    <3> QED BY <3>1, FinitelyManyCells, FS_Subset
  <2>3. w \ sq[side] = {c}
    BY <1>2, <2>2, FS_Singleton
  <2>4. c \in Free(sq) /\ w \ {c} \subseteq sq[side]
    BY <1>1, <1>2, <2>1, <2>3
  <2> QED BY <1>2, <2>4, FiveIff, KindIs DEF FiveAt
<1>3. ASSUME NEW d \in Dirs, NEW c, FiveAt(sq, side, d, c)
      PROVE  \E w \in Fives[d] : /\ w \cap sq[1 - side] = {} /\ Cardinality(w \ sq[side]) = 1
                                 /\ c \in w \ sq[side]
  <2>1. c \in Free(sq) /\ IsFive(Line(sq, side, d, c))
    BY <1>3, KindIs DEF FiveAt
  <2>2. PICK w \in Fives[d] : c \in w /\ w \ {c} \subseteq sq[side]
    BY <2>1, FiveIff
  <2>3. w \ sq[side] = {c} /\ w \cap sq[1 - side] = {}
    BY <1>1, <2>1, <2>2
  <2>4. Cardinality(w \ sq[side]) = 1
    BY <2>3, FS_Singleton
  <2> QED BY <2>3, <2>4
<1> DEFINE Nearly == {w \in UNION {Fives[d] : d \in Dirs} :
                        w \cap sq[1 - side] = {} /\ Cardinality(w \ sq[side]) = 1}
<1>4. \A c : c \in FiveCells(sq, side) <=> \E w \in Nearly : c \in w \ sq[side]
  BY DEF FiveCells
<1>5. \A w : w \in Nearly <=> \E d \in Dirs : /\ w \in Fives[d] /\ w \cap sq[1 - side] = {}
                                             /\ Cardinality(w \ sq[side]) = 1
  OBVIOUS
<1> HIDE DEF Nearly
<1>6. \A c : c \in FiveCells(sq, side) <=> \E d \in Dirs : FiveAt(sq, side, d, c)
  BY <1>2, <1>3, <1>4, <1>5
<1>7. FiveCells(sq, side) \subseteq Free(sq)
  BY <1>6 DEF FiveAt
<1>8. FiveCells(sq, side) \in SUBSET Cells
  BY <1>1, <1>7
<1> QED BY <1>6, <1>7, <1>8, FinitelyManyCells, FS_Subset

\* The entries of all fives are finitely many.
LEMMA FinitelyManyFives ==
  ASSUME NEW sq \in Squares
  PROVE  IsFiniteSet(AllFives(sq))
<1> DEFINE T == Sides \X (Dirs \X Cells)
           f == [t \in T |-> [side |-> t[1], dir |-> t[2][1], cell |-> t[2][2], kind |-> "five"]]
           R == {f[t] : t \in T}
<1>1. IsFiniteSet(T)
  <2>0. 0 \in Int /\ 1 \in Int /\ 3 \in Int
    OBVIOUS
  <2>1. IsFiniteSet(Dirs)
    BY <2>0, FS_Interval DEF Dirs
  <2>2. IsFiniteSet(Sides)
    <3>1. Sides = 0 .. 1
      BY DEF Sides
    <3>2. IsFiniteSet(0 .. 1)
      BY <2>0, FS_Interval
    <3> QED BY <3>1, <3>2, Zenon
  <2>3. IsFiniteSet(Dirs \X Cells)
    BY <2>1, FinitelyManyCells, FS_Product
  <2> QED BY <2>2, <2>3, FS_Product
<1>2. IsFiniteSet(R)
  <2>1. f \in Surjection(T, R)
    BY DEF Surjection
  <2> HIDE DEF f, R, T
  <2> QED BY <1>1, <2>1, FS_Surjection
<1>3. AllFives(sq) \subseteq R
  <2> SUFFICES ASSUME NEW s \in AllFives(sq) PROVE s \in R
    OBVIOUS
  <2>1. Lines([d \in Dirs |-> Cells])
    BY DEF Lines
  <2>2. PICK side \in Sides, d \in Dirs, c \in Cells :
          s = [side |-> side, dir |-> d, cell |-> c, kind |-> "five"]
    BY <2>1, FivesSeenAre DEF AllFives
  <2>3. <<side, <<d, c>>>> \in T /\ f[<<side, <<d, c>>>>] = s
    BY <2>2
  <2> QED BY <2>3
<1> QED BY <1>2, <1>3, FS_Subset

LEMMA AllFivesAre ==
  ASSUME NEW sq \in Squares, NEW s
  PROVE  s \in AllFives(sq) <=>
           \E side \in Sides, d \in Dirs, c \in Cells :
             FiveAt(sq, side, d, c) /\ s = [side |-> side, dir |-> d, cell |-> c, kind |-> "five"]
<1>1. Lines([d \in Dirs |-> Cells]) /\ \A d \in Dirs : [e \in Dirs |-> Cells][d] = Cells
  BY DEF Lines
<1> QED BY <1>1, FivesSeenAre DEF AllFives

\* five_threat after a scan.
LEMMA FiveThreatIs ==
  ASSUME NEW sq \in Squares
  PROVE  LET five == Scan(sq).five IN
         /\ five \in Cells \cup {NO_FIVE, FIVE_WIN}
         /\ AllFives(sq) = {} => five = NO_FIVE
         /\ \A s : AllFives(sq) = {s} => five = s.cell /\ s.cell \in Cells
         /\ Cardinality(AllFives(sq)) > 1 => five = FIVE_WIN
         /\ AllFives(sq) = {} \/ (\E s : AllFives(sq) = {s}) \/ Cardinality(AllFives(sq)) > 1
<1> DEFINE fives == AllFives(sq)
           five == Scan(sq).five
<1>1. IsFiniteSet(fives)
  BY FinitelyManyFives
<1>2. /\ Cardinality(fives) \in Nat
      /\ Cardinality(fives) = 0 <=> fives = {}
      /\ Cardinality(fives) = 1 <=> \E s : fives = {s}
  BY <1>1, FS_CardinalityType, FS_EmptySet, FS_Singleton
<1>3. five = CASE Cardinality(fives) = 0 -> NO_FIVE
               [] Cardinality(fives) = 1 -> (CHOOSE f \in fives : TRUE).cell
               [] Cardinality(fives) > 1 -> FIVE_WIN
  BY ScanIs DEF FiveThreat, AllFives, FivesSeen
<1>4. ASSUME NEW s, fives = {s}
      PROVE  (CHOOSE f \in fives : TRUE) = s /\ s.cell \in Cells
  <2>1. s \in AllFives(sq)
    BY <1>4
  <2>2. s.cell \in Cells
    BY <2>1, AllFivesAre
  <2> QED BY <1>4, <2>2
<1> HIDE DEF fives, five
<1>5. fives = {} => five = NO_FIVE
  BY <1>2, <1>3
<1>6. \A s : fives = {s} => five = s.cell /\ s.cell \in Cells
  BY <1>2, <1>3, <1>4
<1>7. Cardinality(fives) > 1 => five = FIVE_WIN
  BY <1>2, <1>3
<1>8. fives = {} \/ (\E s : fives = {s}) \/ Cardinality(fives) > 1
  BY <1>2
<1>9. five \in Cells \cup {NO_FIVE, FIVE_WIN}
  BY <1>5, <1>6, <1>7, <1>8
<1> QED BY <1>5, <1>6, <1>7, <1>8, <1>9 DEF fives, five

-----------------------------------------------------------------------------
(* The legal moves.                                                        *)

FreeFourAt(sq, side, f) ==
  f.dir \in Dirs /\ f.cell \in Free(sq) /\ KindAt(sq, side, f.dir, f.cell) = "ff"

LEMMA FreeFoursAre ==
  ASSUME NEW sq \in Squares, NEW side \in Sides, NEW f
  PROVE  /\ f \in FreeFours(Scan(sq), side) => FreeFourAt(sq, side, f)
         /\ \A d \in Dirs, c \in Free(sq) :
              KindAt(sq, side, d, c) = "ff" => [dir |-> d, cell |-> c] \in FreeFours(Scan(sq), side)
<1> DEFINE four(d) == {[dir |-> d, cell |-> c] : c \in CellsOfKind(sq, side, d, "ff")}
<1>1. \A d \in Dirs : Scan(sq).threat[side][d].ff = CellsOfKind(sq, side, d, "ff")
  <2>1. Scan(sq).threat = TablesOf(sq)
    BY ScanIs
  <2> QED BY <2>1 DEF TablesOf, Kinds
<1>2. FreeFours(Scan(sq), side) = UNION {four(d) : d \in Dirs}
  BY <1>1 DEF FreeFours
<1>3. f \in FreeFours(Scan(sq), side) => \E d \in Dirs : f \in four(d)
  BY <1>2
<1>4. \A d \in Dirs : f \in four(d) => FreeFourAt(sq, side, f)
  BY DEF FreeFourAt, CellsOfKind
<1>5. \A d \in Dirs, c \in Free(sq) : KindAt(sq, side, d, c) = "ff" => [dir |-> d, cell |-> c] \in four(d)
  BY DEF CellsOfKind
<1> HIDE DEF four
<1> QED BY <1>2, <1>3, <1>4, <1>5

LEMMA FoursAre ==
  ASSUME NEW sq \in Squares, NEW side \in Sides, NEW c
  PROVE  c \in FoursOf(Scan(sq), side)
           <=> c \in Free(sq) /\ \E d \in Dirs : KindAt(sq, side, d, c) \in {"ff", "ft"}
<1>1. \A d \in Dirs, kind \in {"ff", "ft"} :
        Scan(sq).threat[side][d][kind] = CellsOfKind(sq, side, d, kind)
  <2>1. Scan(sq).threat = TablesOf(sq)
    BY ScanIs
  <2> QED BY <2>1 DEF TablesOf, Kinds
<1>2. FoursOf(Scan(sq), side) = UNION {CellsOfKind(sq, side, d, kind) : d \in Dirs, kind \in {"ff", "ft"}}
  BY <1>1 DEF FoursOf
<1>3. c \in FoursOf(Scan(sq), side)
        <=> \E d \in Dirs, kind \in {"ff", "ft"} : c \in CellsOfKind(sq, side, d, kind)
  BY <1>2
<1> QED BY <1>3 DEF CellsOfKind

\* A set of numbers has a least one.
LEMMA Least ==
  ASSUME NEW T, T \subseteq Nat, T # {}
  PROVE  \E x \in T : \A y \in T : x <= y
<1> DEFINE Less == {ss \in Nat \X Nat : ss[1] < ss[2]}
<1>1. IsWellFoundedOn(OpToRel(<, Nat), Nat)
  BY NatLessThanWellFounded
<1>2. IsWellFoundedOn(Less, Nat)
  BY <1>1 DEF OpToRel
<1> HIDE DEF Less
<1>3. PICK x \in T : \A y \in T : ~ (<<y, x>> \in Less)
  BY <1>2, WFMin
<1>4. ASSUME NEW y \in T PROVE x <= y
  <2>1. x \in Nat /\ y \in Nat /\ ~ (<<y, x>> \in Less)
    BY <1>3
  <2>2. ~ (y < x)
    BY <2>1 DEF Less
  <2> QED BY <2>1, <2>2
<1> QED BY <1>4

\* Before orders the open fours, so that there is a first one.
LEMMA FirstFour ==
  ASSUME NEW F, F # {}, \A f \in F : f.dir \in Dirs /\ f.cell \in Cells
  PROVE  \E f \in F : \A g \in F : Before(f, g)
<1> DEFINE number(f) == f.cell[1] * boardSize + f.cell[2]
           dirs == {f.dir : f \in F}
<1>1. dirs \subseteq Nat /\ dirs # {}
  BY DEF Dirs
<1>2. PICK d \in dirs : \A e \in dirs : d <= e
  <2> HIDE DEF dirs
  <2> QED BY <1>1, Least
<1> DEFINE G == {f \in F : f.dir = d}
           numbers == {number(f) : f \in G}
<1>3. G # {}
  BY <1>2
<1>4. \A f \in F : number(f) \in Nat
  <2> TAKE f \in F
  <2>1. f.cell[1] \in Nat /\ f.cell[2] \in Nat /\ boardSize \in Nat
    BY SizeAssumption DEF Cells
  <2>2. \A x \in Nat, y \in Nat, z \in Nat : x * y + z \in Nat
    OBVIOUS
  <2> QED BY <2>1, <2>2
<1> HIDE DEF number
<1>5. numbers \subseteq Nat /\ numbers # {}
  BY <1>3, <1>4
<1>6. PICK n \in numbers : \A j \in numbers : n <= j
  <2> HIDE DEF numbers
  <2> QED BY <1>5, Least
<1>7. PICK f \in G : number(f) = n
  BY <1>6
<1>8. ASSUME NEW g \in F PROVE f.dir < g.dir \/ (f.dir = g.dir /\ number(f) <= number(g))
  <2>1. f.dir = d /\ d <= g.dir /\ d \in Nat /\ g.dir \in Nat
    BY <1>1, <1>2, <1>8
  <2>2. CASE d < g.dir
    BY <2>1, <2>2
  <2>3. CASE d = g.dir
    <3>1. g \in G
      BY <1>8, <2>3
    <3>2. n <= number(g)
      BY <1>6, <3>1
    <3> QED BY <1>7, <2>1, <2>3, <3>2
  <2> QED BY <2>1, <2>2, <2>3
<1>9. f \in F /\ \A g \in F : Before(f, g)
  BY <1>7, <1>8 DEF Before, number
<1> QED BY <1>9

\* An open four around c, which begins at offset a.
OpenFourFrom(sq, side, d, c, a) ==
  LET line == Line(sq, side, d, c) IN
  a \in -3 .. 0 /\ OwnRun(line, a, a + 3) /\ a - 1 \in line.empty /\ a + 4 \in line.empty

\* The run of stones ends at the two empty ends of the open four.
LEMMA RunEnds ==
  ASSUME NEW sq \in Squares, NEW side \in Sides, NEW d \in Dirs, NEW c \in Free(sq), NEW a,
         OpenFourFrom(sq, side, d, c, a)
  PROVE  /\ RunEnd(sq, side, c, d, 1) = At(c, d, a + 4)
         /\ RunEnd(sq, side, c, d, -1) = At(c, d, a - 1)
<1> DEFINE line == Line(sq, side, d, c)
           Own(k) == At(c, d, k) \in sq[side]
           EndsAfter(k) == ~Own(k) /\ \A j \in 1 .. k - 1 : Own(j)
           EndsBefore(k) == ~Own(-k) /\ \A j \in 1 .. k - 1 : Own(-j)
<1>1. /\ a \in -3 .. 0 /\ OwnRun(line, a, a + 3) /\ a - 1 \in line.empty /\ a + 4 \in line.empty
      /\ c \in Cells
  BY DEF OpenFourFrom, Free
<1>2. /\ \A k \in -4 .. 4 : k \in line.own <=> Own(k)
      /\ \A k \in -4 .. 4 : k \in line.empty <=> At(c, d, k) \in Free(sq)
      /\ IsLine(line)
  BY LineIs
<1>3. 5 < boardSize
  <2>1. SixAt(c, d, a).ends \subseteq Cells
    BY <1>1, <1>2 DEF SixAt, Free
  <2> QED BY <1>1, <2>1, SixOnBoard
<1>4. ~Own(a + 4) /\ ~Own(a - 1)
  BY <1>1, <1>2 DEF IsLine
<1>5. \A k \in -3 .. 3 : a <= k /\ k <= a + 3 /\ k # 0 => Own(k)
  BY <1>1, <1>2 DEF OwnRun
<1> HIDE DEF line, Own
<1>6. boardSize \in Nat /\ a + 4 \in 1 .. boardSize /\ 1 - a \in 1 .. boardSize
  BY <1>1, <1>3, SizeAssumption
<1>7. \A k \in 1 .. boardSize : EndsAfter(k) <=> k = a + 4
  <2>1. EndsAfter(a + 4)
    BY <1>1, <1>4, <1>5
  <2>2. ASSUME NEW k \in 1 .. boardSize, EndsAfter(k) PROVE k = a + 4
    <3>1. ~(k < a + 4)
      BY <1>1, <1>5, <2>2
    <3>2. ~(a + 4 < k)
      BY <1>1, <1>4, <2>2
    <3> QED BY <1>1, <3>1, <3>2
  <2> QED BY <2>1, <2>2
<1>8. \A k \in 1 .. boardSize : EndsBefore(k) <=> k = 1 - a
  <2>1. EndsBefore(1 - a)
    <3>1. -(1 - a) = a - 1
      BY <1>1
    <3>2. ASSUME NEW j \in 1 .. 1 - a - 1 PROVE Own(-j)
      <4>1. -j \in -3 .. 3 /\ a <= -j /\ -j <= a + 3 /\ -j # 0
        BY <1>1
      <4> QED BY <1>5, <4>1
    <3> QED BY <1>4, <3>1, <3>2
  <2>2. ASSUME NEW k \in 1 .. boardSize, EndsBefore(k) PROVE k = 1 - a
    <3>1. ~(k < 1 - a)
      <4> SUFFICES ASSUME k < 1 - a PROVE FALSE
        OBVIOUS
      <4>1. -k \in -3 .. 3 /\ a <= -k /\ -k <= a + 3 /\ -k # 0
        BY <1>1
      <4> QED BY <1>5, <2>2, <4>1
    <3>2. ~(1 - a < k)
      <4> SUFFICES ASSUME 1 - a < k PROVE FALSE
        OBVIOUS
      <4>1. 1 - a \in 1 .. k - 1 /\ -(1 - a) = a - 1
        BY <1>1
      <4> QED BY <1>4, <2>2, <4>1
    <3> QED BY <1>1, <3>1, <3>2
  <2> QED BY <2>1, <2>2
<1>9. RunEnd(sq, side, c, d, 1) = At(c, d, a + 4)
  <2>1. \A k \in 1 .. boardSize :
          (At(c, d, 1 * k) \notin sq[side] /\ \A j \in 1 .. k - 1 : At(c, d, 1 * j) \in sq[side]) <=> EndsAfter(k)
    BY <1>6 DEF Own
  <2> HIDE DEF EndsAfter
  <2>2. (CHOOSE k \in 1 .. boardSize :
           At(c, d, 1 * k) \notin sq[side] /\ \A j \in 1 .. k - 1 : At(c, d, 1 * j) \in sq[side]) = a + 4
    BY <1>6, <1>7, <2>1
  <2>3. 1 * (a + 4) = a + 4
    BY <1>1
  <2> QED BY <2>2, <2>3 DEF RunEnd
<1>10. RunEnd(sq, side, c, d, -1) = At(c, d, a - 1)
  <2>1. \A k \in 1 .. boardSize :
          (At(c, d, (-1) * k) \notin sq[side] /\ \A j \in 1 .. k - 1 : At(c, d, (-1) * j) \in sq[side])
            <=> EndsBefore(k)
    <3>1. \A k \in Int : (-1) * k = -k
      OBVIOUS
    <3> QED BY <1>6, <3>1 DEF Own
  <2> HIDE DEF EndsBefore
  <2>2. (CHOOSE k \in 1 .. boardSize :
           At(c, d, (-1) * k) \notin sq[side] /\ \A j \in 1 .. k - 1 : At(c, d, (-1) * j) \in sq[side]) = 1 - a
    BY <1>6, <1>8, <2>1
  <2>3. (-1) * (1 - a) = a - 1
    BY <1>1
  <2> QED BY <2>2, <2>3 DEF RunEnd
<1> QED BY <1>9, <1>10

\* The first open four that the other side threatens, and what defends against it.
LEMMA DefencesAre ==
  ASSUME NEW sq \in Squares, NEW old \in Sides, FreeFours(Scan(sq), old) # {}
  PROVE  \E f \in FreeFours(Scan(sq), old), a \in -3 .. 0 :
           /\ FreeFourAt(sq, old, f) /\ OpenFourFrom(sq, old, f.dir, f.cell, a)
           /\ Defences(Scan(sq), old) = {f.cell, At(f.cell, f.dir, a + 4), At(f.cell, f.dir, a - 1)}
<1> DEFINE F == FreeFours(Scan(sq), old)
           f == CHOOSE f \in F : \A g \in F : Before(f, g)
<1>1. \A g \in F : FreeFourAt(sq, old, g)
  BY FreeFoursAre
<1>2. \A g \in F : g.dir \in Dirs /\ g.cell \in Cells
  BY <1>1 DEF FreeFourAt, Free
<1>3. f \in F
  <2> HIDE DEF F
  <2>1. F # {}
    BY DEF F
  <2> QED BY <1>2, <2>1, FirstFour
<1>4. f.dir \in Dirs /\ f.cell \in Free(sq) /\ KindAt(sq, old, f.dir, f.cell) = "ff"
  BY <1>1, <1>3 DEF FreeFourAt
<1>5. Defences(Scan(sq), old)
        = {f.cell, RunEnd(sq, old, f.cell, f.dir, 1), RunEnd(sq, old, f.cell, f.dir, -1)}
  BY ScanIs DEF Defences
<1> HIDE DEF f
<1>6. OpenFourOn(Line(sq, old, f.dir, f.cell))
  BY <1>4, KindIs, LineIs, FreeFourIff
<1>7. PICK a \in -3 .. 0 : OpenFourFrom(sq, old, f.dir, f.cell, a)
  BY <1>6 DEF OpenFourOn, OpenFourFrom
<1>8. Defences(Scan(sq), old) = {f.cell, At(f.cell, f.dir, a + 4), At(f.cell, f.dir, a - 1)}
  BY <1>4, <1>5, <1>7, RunEnds
<1> QED BY <1>1, <1>3, <1>7, <1>8

\* A legal move is on a free cell, and on the cell of any five.
LEMMA LegalAreFree ==
  ASSUME NEW sq \in Squares, NEW player \in Sides
  PROVE  /\ LegalMoves(Scan(sq), player) \subseteq Free(sq)
         /\ \A side \in Sides, d \in Dirs : \A c : FiveAt(sq, side, d, c) =>
              LegalMoves(Scan(sq), player) \subseteq {c}
<1> DEFINE h == Scan(sq)
           five == h.five
           fives == AllFives(sq)
           old == 1 - player
           entry(side, d, c) == [side |-> side, dir |-> d, cell |-> c, kind |-> "five"]
<1>0. /\ five \in Cells \cup {NO_FIVE, FIVE_WIN} /\ old \in Sides
      /\ h.square = sq /\ Free(sq) = Cells \ Occupied(sq) /\ Free(sq) \subseteq Cells
      /\ NO_FIVE \notin Cells /\ FIVE_WIN \notin Cells /\ NO_FIVE # FIVE_WIN
  BY FiveThreatIs, ScanIs, FiveAssumption DEF Free, Sides
<1>1. /\ fives = {} => five = NO_FIVE
      /\ \A s : fives = {s} => five = s.cell /\ s.cell \in Cells
      /\ Cardinality(fives) > 1 => five = FIVE_WIN
      /\ fives = {} \/ (\E s : fives = {s}) \/ Cardinality(fives) > 1
  BY FiveThreatIs
<1>2. \A side \in Sides, d \in Dirs : \A c : FiveAt(sq, side, d, c) => entry(side, d, c) \in fives
  BY <1>0, AllFivesAre DEF FiveAt
<1>3. \A s \in fives : s.cell \in Free(sq)
  BY AllFivesAre DEF FiveAt
<1>4. FoursOf(h, player) \subseteq Free(sq)
  BY FoursAre
<1>5. ASSUME FreeFours(h, old) # {} PROVE Defences(h, old) \subseteq Free(sq)
  <2>1. PICK f \in FreeFours(h, old), a \in -3 .. 0 :
           /\ FreeFourAt(sq, old, f) /\ OpenFourFrom(sq, old, f.dir, f.cell, a)
           /\ Defences(h, old) = {f.cell, At(f.cell, f.dir, a + 4), At(f.cell, f.dir, a - 1)}
    BY <1>0, <1>5, DefencesAre
  <2>2. a + 4 \in -4 .. 4 /\ a - 1 \in -4 .. 4
    OBVIOUS
  <2>3. At(f.cell, f.dir, a + 4) \in Free(sq) /\ At(f.cell, f.dir, a - 1) \in Free(sq)
    BY <1>0, <2>1, <2>2, LineIs DEF FreeFourAt, OpenFourFrom
  <2> QED BY <2>1, <2>3 DEF FreeFourAt
<1> HIDE DEF h, fives
<1>6. CASE five = FIVE_WIN
  <2>1. LegalMoves(h, player) = {}
    BY <1>0, <1>6 DEF LegalMoves
  <2> QED BY <2>1 DEF h
<1>7. CASE five \in Cells
  <2>1. LegalMoves(h, player) \subseteq {five}
    BY <1>0, <1>7 DEF LegalMoves
  <2>2. PICK s : fives = {s} /\ five = s.cell
    BY <1>0, <1>1, <1>7
  <2>3. \A side \in Sides, d \in Dirs : \A c : FiveAt(sq, side, d, c) => c = five
    <3> SUFFICES ASSUME NEW side \in Sides, NEW d \in Dirs, NEW c, FiveAt(sq, side, d, c) PROVE c = five
      OBVIOUS
    <3>1. entry(side, d, c) = s
      BY <1>2, <2>2
    <3> QED BY <2>2, <3>1
  <2> QED BY <1>3, <2>1, <2>2, <2>3 DEF h
<1>8. CASE five = NO_FIVE
  <2>1. fives = {}
    BY <1>0, <1>1, <1>8
  <2>2. LegalMoves(h, player) \subseteq Free(sq)
    <3>1. CASE FreeFours(h, old) # {}
      <4>1. LegalMoves(h, player) = FoursOf(h, player) \cup {c \in Defences(h, old) : Defends(h, player, c)}
        BY <1>0, <1>8, <3>1 DEF LegalMoves
      <4> QED BY <1>4, <1>5, <3>1, <4>1
    <3>2. CASE FreeFours(h, old) = {}
      <4>1. LegalMoves(h, player) = Free(sq)
        BY <1>0, <1>8, <3>2 DEF LegalMoves
      <4> QED BY <4>1
    <3> QED BY <3>1, <3>2
  <2>3. \A side \in Sides, d \in Dirs : \A c : ~FiveAt(sq, side, d, c)
    BY <1>2, <2>1
  <2> QED BY <2>2, <2>3 DEF h
<1> QED BY <1>0, <1>6, <1>7, <1>8

-----------------------------------------------------------------------------
(* Games.                                                                  *)

(* The invariant.  That the handler is a scan of its stones has to go with *)
(* where the fives are: an update around m looks for fives around m only,  *)
(* so each five there was must be on m.  It is, because a move that is     *)
(* legal is played on it; and legal are the moves of a scan.               *)

EmptyBoard == [side \in Sides |-> {}]

\* Legal are the moves that are computed from the tables, except on the empty board.
LegalInv ==
  /\ numTurns = 0 => handler.square = EmptyBoard /\ legal = Cells /\ ~isGameFinished
  /\ numTurns > 0 =>
       IF Free(handler.square) = {} THEN isGameFinished
       ELSE legal = LegalMoves(handler, next) /\ isGameFinished = (legal = {})

\* Only the side that just moved has fives to make, one direction for each cell; and
\* nobody has five in a row.
FivesOf(sq, player) ==
  /\ \A d \in Dirs, c \in Cells : ~FiveAt(sq, player, d, c)
  /\ \A d \in Dirs, e \in Dirs, c \in Cells :
       FiveAt(sq, 1 - player, d, c) /\ FiveAt(sq, 1 - player, e, c) => d = e
  /\ \A d \in Dirs : \A w \in Fives[d], side \in Sides : ~(w \subseteq sq[side])

FivesInv == FivesOf(handler.square, next)

RulesInv == GameTypeOK /\ handler = Scan(handler.square) /\ LegalInv /\ FivesInv

LEMMA ScanType ==
  ASSUME NEW sq \in Squares
  PROVE  Scan(sq) \in Handler
<1>1. TablesOf(sq) \in [Sides -> [Dirs -> [Kinds -> SUBSET Cells]]]
  <2>1. \A side \in Sides, d \in Dirs, kind \in Kinds : CellsOfKind(sq, side, d, kind) \in SUBSET Cells
    BY DEF CellsOfKind, Free
  <2> QED BY <2>1 DEF TablesOf
<1>2. Scan(sq).five \in Cells \cup {NO_FIVE, FIVE_WIN}
  BY FiveThreatIs
<1>3. sq \in [Sides -> SUBSET Cells]
  BY DEF Squares
<1>4. Scan(sq) = [square |-> sq, threat |-> TablesOf(sq), five |-> Scan(sq).five]
  BY ScanIs DEF Scan
<1> QED BY <1>1, <1>2, <1>3, <1>4 DEF Handler

LEMMA NothingOnEmptyBoard ==
  /\ EmptyBoard \in Squares /\ Apart(EmptyBoard) /\ Scan(EmptyBoard) = NewHandler
  /\ \A side \in Sides, d \in Dirs : \A c : ~FiveAt(EmptyBoard, side, d, c)
<1>1. EmptyBoard \in Squares /\ Apart(EmptyBoard)
  BY DEF EmptyBoard, Squares, Apart, Sides
<1>2. ASSUME NEW side \in Sides, NEW d \in Dirs, NEW c \in Free(EmptyBoard)
      PROVE  KindAt(EmptyBoard, side, d, c) \notin {"five", "ff", "ft", "tt"}
  <2> DEFINE line == Line(EmptyBoard, side, d, c)
  <2>1. IsLine(line) /\ line.own = {}
    BY <1>1, LineIs DEF EmptyBoard, IsLine
  <2> HIDE DEF line
  <2>2. ~IsFive(line)
    BY <2>1 DEF IsFive, OwnRun
  <2>3. ~OpenFourOn(line)
    BY <2>1 DEF OpenFourOn, OwnRun
  <2>4. ~OneOfFiveOn(line)
    <3> SUFFICES ASSUME NEW a \in -4 .. 0, NEW gap \in a .. a + 4, (a .. a + 4) \ {0, gap} \subseteq {}
                 PROVE  FALSE
      BY <2>1 DEF OneOfFiveOn
    <3>1. a \in a .. a + 4 /\ a + 1 \in a .. a + 4 /\ a + 2 \in a .. a + 4
      OBVIOUS
    <3> QED BY <3>1
  <2>5. ~OpenThreeOn(line)
    <3> SUFFICES ASSUME NEW a \in -3 .. 0, NEW gap \in a .. a + 3, (a .. a + 3) \ {0, gap} \subseteq {}
                 PROVE  FALSE
      BY <2>1 DEF OpenThreeOn
    <3>1. a \in a .. a + 3 /\ a + 1 \in a .. a + 3 /\ a + 2 \in a .. a + 3
      OBVIOUS
    <3> QED BY <3>1
  <2>6. ~IsFreeFour(line) /\ ~IsFour(line) /\ ~IsThree(line)
    BY <2>1, <2>2, <2>3, <2>4, <2>5, FreeFourIff, FourIff, ThreeIff
  <2> QED BY <2>2, <2>6, KindIs DEF line
<1>3. \A side \in Sides, d \in Dirs : \A c : ~FiveAt(EmptyBoard, side, d, c)
  BY <1>2 DEF FiveAt
<1>4. AllFives(EmptyBoard) = {}
  BY <1>1, <1>3, AllFivesAre
<1>5. Scan(EmptyBoard).five = NO_FIVE
  BY <1>1, <1>4, FiveThreatIs
<1>6. TablesOf(EmptyBoard) = NewHandler.threat
  <2>1. \A side \in Sides, d \in Dirs, kind \in Kinds : CellsOfKind(EmptyBoard, side, d, kind) = {}
    BY <1>2 DEF CellsOfKind, Kinds
  <2> QED BY <2>1 DEF TablesOf, NewHandler
<1>7. Scan(EmptyBoard) = [square |-> EmptyBoard, threat |-> TablesOf(EmptyBoard), five |-> NO_FIVE]
  BY <1>5, ScanIs DEF Scan
<1>8. Scan(EmptyBoard) = NewHandler
  BY <1>6, <1>7 DEF NewHandler, EmptyBoard
<1> QED BY <1>1, <1>3, <1>8

\* A move is made on a free cell, and on the cell of any five there is.
LEMMA MoveIs ==
  ASSUME RulesInv, NEW m \in Cells, MakeMove(m)
  PROVE  LET sq == handler.square IN
         /\ sq \in Squares /\ Apart(sq) /\ next \in Sides /\ m \in Free(sq)
         /\ Put(sq, next, m) \in Squares /\ Apart(Put(sq, next, m))
         /\ DifferAt(sq, Put(sq, next, m), m)
         /\ Occupied(Put(sq, next, m)) = Occupied(sq) \cup {m}
         /\ \A side \in Sides, d \in Dirs : \A c : FiveAt(sq, side, d, c) => c = m
<1> DEFINE sq == handler.square
<1>1. sq \in Squares /\ Apart(sq) /\ next \in Sides
  BY DEF RulesInv, GameTypeOK, Handler, Squares, Apart
<1>2. m \in Free(sq) /\ m \in legal /\ ~isGameFinished
  BY DEF MakeMove, Free
<1>3. \A side \in Sides, d \in Dirs : \A c : FiveAt(sq, side, d, c) => c = m
  <2>1. CASE numTurns = 0
    <3>1. sq = EmptyBoard
      BY <2>1 DEF RulesInv, LegalInv
    <3> QED BY <3>1, NothingOnEmptyBoard
  <2>2. CASE numTurns # 0
    <3>1. numTurns > 0 /\ Free(sq) # {}
      BY <1>2, <2>2 DEF RulesInv, GameTypeOK
    <3>2. legal = LegalMoves(Scan(sq), next)
      BY <3>1 DEF RulesInv, LegalInv
    <3> QED BY <1>1, <1>2, <3>2, LegalAreFree
  <2> QED BY <2>1, <2>2
<1> HIDE DEF sq
<1>4. /\ Put(sq, next, m) \in Squares /\ DifferAt(sq, Put(sq, next, m), m)
      /\ \A side \in Sides : Put(sq, next, m)[side] = IF side = next THEN sq[side] \cup {m} ELSE sq[side]
  BY <1>1 DEF Put, Squares, DifferAt
<1>5. Apart(Put(sq, next, m)) /\ Occupied(Put(sq, next, m)) = Occupied(sq) \cup {m}
  BY <1>1, <1>2, <1>4 DEF Apart, Occupied, Free, Sides
<1> QED BY <1>1, <1>2, <1>3, <1>4, <1>5 DEF sq

\* The handler after a stone was put down or taken back is a scan of the stones.
LEMMA UpdateIsScan ==
  ASSUME NEW sq \in Squares, NEW after \in Squares, NEW m \in Cells, DifferAt(sq, after, m),
         \A side \in Sides, d \in Dirs, c \in Cells : FiveAt(after, side, d, c) => c \in Around(m)[d]
  PROVE  LocalUpdate(after, Scan(sq).threat, m) = Scan(after)
<1>1. Scan(sq).threat = TablesOf(sq)
  BY ScanIs
<1>2. LocalUpdate(after, TablesOf(sq), m).threat = TablesOf(after)
  BY TablesAfter
<1>3. /\ LocalUpdate(after, TablesOf(sq), m).five = FiveThreat(Seen(after, Around(m)))
      /\ LocalUpdate(after, TablesOf(sq), m).square = after
      /\ LocalUpdate(after, TablesOf(sq), m)
           = [square |-> LocalUpdate(after, TablesOf(sq), m).square,
              threat |-> LocalUpdate(after, TablesOf(sq), m).threat,
              five |-> LocalUpdate(after, TablesOf(sq), m).five]
  BY DEF LocalUpdate
<1>4. FiveThreat(Seen(after, Around(m))) = FiveThreat(Seen(after, [d \in Dirs |-> Cells]))
  BY FivesAround
<1>5. /\ Scan(after) = [square |-> Scan(after).square, threat |-> Scan(after).threat, five |-> Scan(after).five]
      /\ Scan(after).square = after /\ Scan(after).threat = TablesOf(after)
      /\ Scan(after).five = FiveThreat(Seen(after, [d \in Dirs |-> Cells]))
  <2>1. Scan(after) = [square |-> Scan(after).square, threat |-> Scan(after).threat, five |-> Scan(after).five]
    BY DEF Scan
  <2> QED BY <2>1, ScanIs
<1> QED BY <1>1, <1>2, <1>3, <1>4, <1>5

LEMMA FiveElsewhere ==
  ASSUME NEW sq \in Squares, NEW after \in Squares, NEW m \in Cells, DifferAt(sq, after, m),
         NEW side \in Sides, NEW d \in Dirs, NEW c \in Cells, FiveAt(after, side, d, c),
         c \notin Around(m)[d]
  PROVE  FiveAt(sq, side, d, c)
<1>1. c # m
  BY AroundIs
<1>2. Line(sq, side, d, c) = Line(after, side, d, c)
  BY AroundIs, LineElsewhere
<1>3. c \in Free(sq)
  BY <1>1 DEF FiveAt, Free, Occupied, DifferAt, Sides
<1> QED BY <1>2, <1>3 DEF FiveAt, KindAt

\* After a legal move the handler is what a scan of the stones computes.
LEMMA MoveScans ==
  ASSUME RulesInv, NEW m \in Cells, MakeMove(m)
  PROVE  handler' = Scan(Put(handler.square, next, m)) /\ handler'.square = Put(handler.square, next, m)
<1> DEFINE sq == handler.square
           after == Put(sq, next, m)
<1>1. /\ sq \in Squares /\ next \in Sides /\ after \in Squares /\ DifferAt(sq, after, m)
      /\ \A side \in Sides, d \in Dirs : \A c : FiveAt(sq, side, d, c) => c = m
  BY MoveIs
<1>2. handler' = LocalUpdate(after, handler.threat, m) /\ handler = Scan(sq)
  BY DEF MakeMove, do_move, RulesInv, Put
<1> HIDE DEF sq, after
<1>3. \A side \in Sides, d \in Dirs, c \in Cells : FiveAt(after, side, d, c) => c \in Around(m)[d]
  BY <1>1, FiveElsewhere, AroundIs
<1>4. handler' = Scan(after)
  BY <1>1, <1>2, <1>3, UpdateIsScan
<1>5. Scan(after).square = after
  BY ScanIs
<1> QED BY <1>4, <1>5 DEF after, sq

\* Undo finds the fives of before the move, which were all on the cell of the move.
LEMMA UndoScans ==
  ASSUME RulesInv, NEW m \in Cells, MakeMove(m)
  PROVE  undo_move(handler', m, next) = handler
<1> DEFINE sq == handler.square
           after == Put(sq, next, m)
<1>1. /\ sq \in Squares /\ next \in Sides /\ after \in Squares /\ DifferAt(sq, after, m) /\ m \in Free(sq)
      /\ \A side \in Sides, d \in Dirs : \A c : FiveAt(sq, side, d, c) => c = m
  BY MoveIs
<1>2. handler' = Scan(after) /\ handler'.square = after /\ handler = Scan(sq)
  BY MoveScans DEF RulesInv
<1>3. [after EXCEPT ![next] = @ \ {m}] = sq
  <2>1. m \notin sq[next]
    BY <1>1, OccupiedCells DEF Free
  <2> HIDE DEF sq
  <2> QED BY <1>1, <2>1 DEF Put, Squares
<1> HIDE DEF sq, after
<1>4. DifferAt(after, sq, m)
  BY <1>1 DEF DifferAt
<1>5. \A side \in Sides, d \in Dirs, c \in Cells : FiveAt(sq, side, d, c) => c \in Around(m)[d]
  BY <1>1, AroundIs
<1>6. LocalUpdate(sq, Scan(after).threat, m) = Scan(sq)
  BY <1>1, <1>4, <1>5, UpdateIsScan
<1> QED BY <1>2, <1>3, <1>6 DEF undo_move

-----------------------------------------------------------------------------
(* The fives of a position.                                                *)

\* A stone takes fives of the other side away, and adds none to them.
LEMMA OldFives ==
  ASSUME NEW sq \in Squares, Apart(sq), NEW player \in Sides, NEW m \in Free(sq),
         NEW d \in Dirs, NEW c \in Cells
  PROVE  FiveAt(Put(sq, player, m), 1 - player, d, c) <=> FiveAt(sq, 1 - player, d, c) /\ c # m
<1> DEFINE after == Put(sq, player, m)
           old == 1 - player
<1>1. /\ after \in Squares /\ old \in Sides /\ old # player /\ after[old] = sq[old]
      /\ after[player] = sq[player] \cup {m} /\ m \in Cells
  BY DEF Put, Squares, Sides, Free
<1>2. Free(after) = Free(sq) \ {m}
  BY <1>1 DEF Free, Occupied, Sides
<1> HIDE DEF after, old
<1>3. ASSUME c \in Free(after)
      PROVE  IsFive(Line(after, old, d, c)) <=> IsFive(Line(sq, old, d, c))
  <2>1. c \in Free(sq)
    BY <1>2, <1>3
  <2> QED BY <1>1, <1>3, <2>1, FiveIff
<1>4. FiveAt(after, old, d, c) <=> FiveAt(sq, old, d, c) /\ c # m
  BY <1>2, <1>3, KindIs DEF FiveAt
<1> QED BY <1>4 DEF after, old

\* A five that a stone made possible goes through its cell.
LEMMA NewFive ==
  ASSUME NEW sq \in Squares, NEW player \in Sides, NEW m \in Free(sq), NEW d \in Dirs, NEW c \in Cells,
         FiveAt(Put(sq, player, m), player, d, c), ~FiveAt(sq, player, d, c)
  PROVE  c # m /\ \E k \in Int : k # 0 /\ m = At(c, d, k)
<1> DEFINE after == Put(sq, player, m)
<1>1. after \in Squares /\ after[player] = sq[player] \cup {m} /\ m \in Cells
  BY DEF Put, Squares, Free
<1>2. c \in Free(after) /\ c \in Free(sq) /\ c # m
  BY <1>1 DEF FiveAt, Free, Occupied, Put, Squares, Sides
<1>3. IsFive(Line(after, player, d, c)) /\ ~IsFive(Line(sq, player, d, c))
  BY <1>2, KindIs DEF FiveAt
<1> HIDE DEF after
<1>4. PICK w \in Fives[d] : c \in w /\ w \ {c} \subseteq after[player]
  BY <1>1, <1>2, <1>3, FiveIff
<1>5. m \in w
  BY <1>1, <1>2, <1>3, <1>4, FiveIff
<1>6. PICK a \in -4 .. 0 : w = Window(c, d, a, a + 4)
  BY <1>2, <1>4, FiveWindows
<1>7. PICK k \in a .. a + 4 : m = At(c, d, k)
  BY <1>5, <1>6 DEF Window
<1>8. k # 0
  BY <1>2, <1>7, AtZero, CellsArePoints
<1> QED BY <1>2, <1>7, <1>8

\* Nobody makes five: a move takes the fives of the other side away, and its own go
\* through its cell, each in a direction of its own.
LEMMA MoveKeepsFives ==
  ASSUME NEW sq \in Squares, Apart(sq), NEW player \in Sides, NEW m \in Free(sq),
         FivesOf(sq, player), \A side \in Sides, d \in Dirs : \A c : FiveAt(sq, side, d, c) => c = m
  PROVE  FivesOf(Put(sq, player, m), 1 - player)
<1> DEFINE after == Put(sq, player, m)
<1>1. /\ after \in Squares /\ m \in Cells
      /\ \A side \in Sides : after[side] = IF side = player THEN sq[side] \cup {m} ELSE sq[side]
  BY DEF Put, Squares, Free
<1>2. 1 - player \in Sides /\ 1 - (1 - player) = player
  BY DEF Sides
<1>3. /\ \A d \in Dirs, c \in Cells : ~FiveAt(sq, player, d, c)
      /\ \A d \in Dirs : \A w \in Fives[d], side \in Sides : ~(w \subseteq sq[side])
  BY DEF FivesOf
<1>5. ASSUME NEW d \in Dirs, NEW c \in Cells PROVE ~FiveAt(after, 1 - player, d, c)
  <2>1. FiveAt(after, 1 - player, d, c) => FiveAt(sq, 1 - player, d, c) /\ c # m
    BY OldFives
  <2> HIDE DEF after
  <2> QED BY <1>2, <2>1
<1>6. ASSUME NEW d \in Dirs, NEW c \in Cells, FiveAt(after, player, d, c)
      PROVE  \E k \in Int : k # 0 /\ m = At(c, d, k)
  BY <1>3, <1>6, NewFive
<1> HIDE DEF after
<1>7. ASSUME NEW d \in Dirs, NEW e \in Dirs, NEW c \in Cells,
             FiveAt(after, player, d, c), FiveAt(after, player, e, c)
      PROVE  d = e
  <2>1. PICK j \in Int : j # 0 /\ m = At(c, d, j)
    BY <1>6, <1>7
  <2>2. PICK k \in Int : k # 0 /\ m = At(c, e, k)
    BY <1>6, <1>7
  <2>3. c \in Points /\ At(c, d, j) = At(c, e, k)
    BY <2>1, <2>2, CellsArePoints
  <2> QED BY <2>1, <2>2, <2>3, AtInjective
<1>8. ASSUME NEW d \in Dirs, NEW w \in Fives[d], NEW side \in Sides, w \subseteq after[side]
      PROVE  FALSE
  <2>1. side = player /\ w \subseteq sq[player] \cup {m} /\ ~(w \subseteq sq[player])
    BY <1>1, <1>3, <1>8
  <2>2. m \in w /\ w \ {m} \subseteq sq[player]
    BY <2>1
  <2>3. IsFive(Line(sq, player, d, m))
    BY <2>2, FiveIff
  <2>4. FiveAt(sq, player, d, m)
    BY <2>3, KindIs DEF FiveAt
  <2> QED BY <1>1, <1>3, <2>4
<1> QED BY <1>2, <1>5, <1>7, <1>8 DEF FivesOf, after

\* The handler is always what setStartPosition computes for its stones, whatever moves
\* led there; the fives and the legal moves are as RulesInv says (board.cpp:394-519).
THEOREM GameInvariant == GameSpec => []RulesInv
<1>1. GameInit => RulesInv
  <2> SUFFICES ASSUME GameInit PROVE RulesInv
    OBVIOUS
  <2>1. handler.square = EmptyBoard /\ handler = Scan(EmptyBoard)
    BY NothingOnEmptyBoard DEF GameInit, NewHandler, EmptyBoard
  <2>2. Occupied(EmptyBoard) = {} /\ <<0, 0>> \in Cells
    BY SizeAssumption DEF Occupied, EmptyBoard, Sides, Cells
  <2>3. handler \in Handler
    BY <2>1, NothingOnEmptyBoard, ScanType
  <2>4. GameTypeOK
    BY <2>1, <2>3, NothingOnEmptyBoard DEF GameTypeOK, GameInit, Sides, Apart
  <2>5. FivesInv
    <3>1. \A d \in Dirs : \A w \in Fives[d] : w # {}
      <4> SUFFICES ASSUME NEW d \in Dirs, NEW p \in Cells PROVE Row(p, d, 5) # {}
        BY DEF Fives
      <4>1. At(p, d, 0) \in Row(p, d, 5)
        BY DEF Row
      <4> QED BY <4>1
    <3>2. \A side \in Sides : EmptyBoard[side] = {}
      BY DEF EmptyBoard
    <3>3. next \in Sides /\ 1 - next \in Sides
      BY DEF GameInit, Sides
    <3> QED BY <2>1, <3>1, <3>2, <3>3, NothingOnEmptyBoard DEF FivesInv, FivesOf
  <2>6. LegalInv
    BY <2>1 DEF LegalInv, GameInit
  <2> QED BY <2>1, <2>4, <2>5, <2>6 DEF RulesInv
<1>2. RulesInv /\ [GameNext]_gameVars => RulesInv'
  <2> SUFFICES ASSUME RulesInv, [GameNext]_gameVars PROVE RulesInv'
    OBVIOUS
  <2>1. CASE UNCHANGED gameVars
    BY <2>1 DEF RulesInv, GameTypeOK, LegalInv, FivesInv, gameVars
  <2>2. ASSUME NEW m \in Cells, MakeMove(m) PROVE RulesInv'
    <3> DEFINE sq == handler.square
               after == Put(sq, next, m)
    <3>1. /\ sq \in Squares /\ Apart(sq) /\ next \in Sides /\ m \in Free(sq)
          /\ after \in Squares /\ Apart(after)
          /\ \A side \in Sides, d \in Dirs : \A c : FiveAt(sq, side, d, c) => c = m
      BY <2>2, MoveIs
    <3>2. handler' = Scan(after) /\ handler'.square = after /\ next' = 1 - next /\ next' \in Sides
      <4>1. handler' = Scan(after) /\ handler'.square = after
        BY <2>2, MoveScans
      <4>2. next' = 1 - next
        BY <2>2 DEF MakeMove
      <4>3. next \in Sides
        BY <3>1
      <4> QED BY <4>1, <4>2, <4>3 DEF Sides
    <3>3. FivesInv'
      <4>1. FivesOf(sq, next)
        BY DEF RulesInv, FivesInv
      <4>2. FivesOf(after, 1 - next)
        BY <3>1, <4>1, MoveKeepsFives
      <4> QED BY <3>2, <4>2 DEF FivesInv
    <3> HIDE DEF sq, after
    <3>4. LegalMoves(Scan(after), next') \subseteq Free(after) /\ Free(after) = Cells \ Occupied(after)
          /\ Occupied(after) \subseteq Cells
      BY <3>1, <3>2, LegalAreFree, OccupiedCells DEF Free
    <3>5. /\ IF Occupied(after) = Cells
             THEN isGameFinished' = TRUE /\ winner' = NoWinner /\ UNCHANGED legal
             ELSE /\ legal' = LegalMoves(handler', next')
                  /\ isGameFinished' = (legal' = {})
                  /\ winner' = IF legal' = {} THEN next ELSE NoWinner
          /\ numTurns' = numTurns + 1
      BY <2>2, <3>2 DEF MakeMove
    <3>6. GameTypeOK'
      <4>1. handler' \in Handler
        BY <3>1, <3>2, ScanType
      <4>2. handler'.square[0] \cap handler'.square[1] = {}
        BY <3>1, <3>2 DEF Apart
      <4>3. legal \subseteq Cells /\ numTurns \in Nat
        BY DEF RulesInv, GameTypeOK
      <4>4. legal' \subseteq Cells
        BY <3>2, <3>4, <3>5, <4>3
      <4>5. isGameFinished' \in BOOLEAN /\ winner' \in Sides \cup {NoWinner}
        BY <3>1, <3>5
      <4>6. isGameFinished' => (winner' = NoWinner <=> Occupied(after) = Cells)
        <5>1. NoWinner # next
          BY <3>1 DEF Sides, NoWinner
        <5>2. CASE Occupied(after) = Cells
          BY <3>5, <5>2
        <5>3. CASE Occupied(after) # Cells /\ legal' = {}
          BY <3>5, <5>1, <5>3
        <5>4. CASE Occupied(after) # Cells /\ legal' # {}
          BY <3>5, <5>4
        <5> QED BY <5>2, <5>3, <5>4
      <4>7. numTurns' \in Nat
        BY <3>5, <4>3
      <4> QED BY <3>2, <4>1, <4>2, <4>4, <4>5, <4>6, <4>7 DEF GameTypeOK
    <3>7. LegalInv'
      <4>1. numTurns' > 0 /\ numTurns' # 0
        BY <3>5 DEF RulesInv, GameTypeOK
      <4>2. IF Free(after) = {} THEN isGameFinished'
            ELSE legal' = LegalMoves(handler', next') /\ isGameFinished' = (legal' = {})
        BY <3>4, <3>5
      <4> QED BY <3>2, <4>1, <4>2 DEF LegalInv
    <3>8. handler' = Scan(handler'.square)
      BY <3>2
    <3> QED BY <3>3, <3>6, <3>7, <3>8 DEF RulesInv
  <2> QED BY <2>1, <2>2 DEF GameNext
<1> QED BY <1>1, <1>2, PTL DEF GameSpec

\* The type invariant, with a winner exactly if the game ends before the board is full
\* (boardhistory.cpp:237-262).
THEOREM GameTypeCorrect == GameSpec => []GameTypeOK
<1>1. RulesInv => GameTypeOK
  BY DEF RulesInv
<1> QED BY <1>1, GameInvariant, PTL

\* One entry for each cell of the side that just moved: what five_threat is.
LEMMA FivesKnown ==
  ASSUME RulesInv
  PROVE  FivesAreKnown
<1> DEFINE sq == handler.square
           old == 1 - next
           cells == FiveCells(sq, old)
           entry(d, c) == [side |-> old, dir |-> d, cell |-> c, kind |-> "five"]
<1>1. /\ sq \in Squares /\ Apart(sq) /\ next \in Sides /\ old \in Sides
      /\ handler = Scan(sq) /\ FivesOf(sq, next) /\ \A side \in Sides : side = next \/ side = old
  BY DEF RulesInv, GameTypeOK, Handler, Squares, Apart, Sides, FivesInv
<1> HIDE DEF sq, old
<1>2. /\ IsFiniteSet(cells)
      /\ \A c : c \in cells <=> \E d \in Dirs : FiveAt(sq, old, d, c)
  BY <1>1, FiveCellsAre
<1>3. FiveCells(sq, next) = {}
  <2>1. \A c : c \in FiveCells(sq, next) => c \in Cells /\ \E d \in Dirs : FiveAt(sq, next, d, c)
    BY <1>1, FiveCellsAre DEF FiveAt, Free
  <2> QED BY <1>1, <2>1 DEF FivesOf
<1>4. ASSUME NEW s
      PROVE  s \in AllFives(sq) <=> \E d \in Dirs, c \in Cells : FiveAt(sq, old, d, c) /\ s = entry(d, c)
  <2>1. \A side \in Sides, d \in Dirs, c \in Cells : FiveAt(sq, side, d, c) => side = old
    BY <1>1 DEF FivesOf
  <2> QED BY <1>1, <2>1, AllFivesAre
<1>5. \A d \in Dirs : \A c : FiveAt(sq, old, d, c) => c \in Cells /\ entry(d, c) \in AllFives(sq)
  BY <1>4 DEF FiveAt, Free
<1> DEFINE five == Scan(sq).five
<1>6. /\ AllFives(sq) = {} => five = NO_FIVE
      /\ \A s : AllFives(sq) = {s} => five = s.cell
      /\ Cardinality(AllFives(sq)) > 1 => five = FIVE_WIN
      /\ AllFives(sq) = {} \/ (\E s : AllFives(sq) = {s}) \/ Cardinality(AllFives(sq)) > 1
  BY <1>1, FiveThreatIs
<1> HIDE DEF five
<1>7. CASE cells = {}
  <2>1. AllFives(sq) = {}
    BY <1>2, <1>4, <1>7
  <2>2. Cardinality(cells) = 0
    BY <1>7, FS_EmptySet
  <2> QED BY <1>1, <1>3, <1>6, <1>7, <2>1, <2>2 DEF FivesAreKnown, FivesOf, sq, old, five
<1>8. ASSUME NEW c, cells = {c} PROVE FivesAreKnown
  <2>1. PICK d \in Dirs : FiveAt(sq, old, d, c)
    BY <1>2, <1>8
  <2>2. ASSUME NEW s \in AllFives(sq) PROVE s = entry(d, c)
    <3>1. PICK e \in Dirs, b \in Cells : FiveAt(sq, old, e, b) /\ s = entry(e, b)
      BY <1>4, <2>2
    <3>2. b = c
      BY <1>2, <1>8, <3>1
    <3>3. e = d
      BY <1>1, <2>1, <3>1, <3>2 DEF FivesOf, old
    <3> QED BY <3>1, <3>2, <3>3
  <2>3. AllFives(sq) = {entry(d, c)}
    BY <1>5, <2>1, <2>2
  <2>4. five = c
    <3>1. five = entry(d, c).cell
      BY <1>6, <2>3
    <3> QED BY <3>1
  <2>5. Cardinality(cells) = 1 /\ (CHOOSE b \in cells : TRUE) = c
    BY <1>8, FS_Singleton
  <2> QED BY <1>1, <1>3, <1>8, <2>4, <2>5 DEF FivesAreKnown, FivesOf, sq, old, five
<1>9. ASSUME NEW b \in cells, NEW c \in cells, b # c PROVE FivesAreKnown
  <2>1. PICK d \in Dirs : FiveAt(sq, old, d, b)
    BY <1>2
  <2>2. PICK e \in Dirs : FiveAt(sq, old, e, c)
    BY <1>2
  <2>3. entry(d, b) \in AllFives(sq) /\ entry(e, c) \in AllFives(sq) /\ entry(d, b) # entry(e, c)
    BY <1>5, <1>9, <2>1, <2>2
  <2>4. five = FIVE_WIN
    BY <1>6, <2>3
  <2>5. Cardinality(cells) # 1 /\ Cardinality(cells) # 0 /\ Cardinality(cells) \in Nat
    BY <1>2, <1>9, FS_Singleton, FS_EmptySet, FS_CardinalityType
  <2>6. cells # {} /\ Cardinality(cells) > 1
    BY <2>5, <1>9
  <2> QED BY <1>1, <1>3, <2>4, <2>5, <2>6 DEF FivesAreKnown, FivesOf, sq, old, five
<1> QED BY <1>7, <1>8, <1>9

\* The tables and five_threat, which local_update_of_threats keeps up to date around
\* each stone, know every open four, four and open three, and every five
\* (board.cpp:390-519), on a board of any size.
THEOREM GameThreatsAreKnown == GameSpec => []ThreatsAreKnown
<1>1. RulesInv => ThreatsAreKnown
  <2> SUFFICES ASSUME RulesInv PROVE TablesAreThreats
    BY FivesKnown DEF ThreatsAreKnown, RulesInv
  <2> DEFINE sq == handler.square
  <2>1. sq \in Squares /\ Apart(sq) /\ handler = Scan(sq)
    BY DEF RulesInv, GameTypeOK, Handler, Squares, Apart
  <2>2. handler.threat = TablesOf(sq)
    BY <2>1, ScanIs
  <2> HIDE DEF sq
  <2>3. \A side \in Sides, d \in Dirs : handler.threat[side][d] = ThreatsFrom(sq, side, d)
    BY <2>1, <2>2, TablesAreOfThreats
  <2> QED BY <2>1, <2>3 DEF TablesAreThreats, ThreatsFrom, sq
<1> QED BY <1>1, GameInvariant, PTL

\* Board::undo takes the handler back to exactly what it was before a legal move,
\* five_threat and all tables.
THEOREM GameUndoRestores == GameSpec => UndoRestores
<1> DEFINE Restores == \A m \in handler'.square[next] \ handler.square[next] :
                      undo_move(handler', m, next) = handler
<1>1. RulesInv /\ [GameNext]_gameVars => [Restores]_gameVars
  <2> SUFFICES ASSUME RulesInv, NEW c \in Cells, MakeMove(c),
                      NEW m \in handler'.square[next] \ handler.square[next]
               PROVE  undo_move(handler', m, next) = handler
    BY DEF GameNext
  <2>1. handler'.square = Put(handler.square, next, c) /\ handler.square \in Squares /\ next \in Sides
    BY MoveScans, MoveIs
  <2>2. m = c
    BY <2>1 DEF Put, Squares
  <2> QED BY <2>2, UndoScans
<1> QED BY <1>1, GameInvariant, PTL DEF GameSpec, UndoRestores

LEMMA PutIs ==
  ASSUME NEW sq \in Squares, Apart(sq), NEW player \in Sides, NEW c \in Free(sq)
  PROVE  LET after == Put(sq, player, c) IN
         /\ after \in Squares /\ Apart(after) /\ c \in Cells
         /\ after[player] = sq[player] \cup {c} /\ after[1 - player] = sq[1 - player]
         /\ Free(after) = Free(sq) \ {c}
         /\ 1 - player \in Sides /\ 1 - (1 - player) = player /\ 1 - player # player
         /\ sq[player] \cap sq[1 - player] = {}
<1> DEFINE after == Put(sq, player, c)
<1>1. 1 - player \in Sides /\ 1 - (1 - player) = player /\ 1 - player # player
  BY DEF Sides
<1>2. after \in Squares /\ after[player] = sq[player] \cup {c} /\ after[1 - player] = sq[1 - player]
  BY <1>1 DEF Put, Squares, Free
<1> HIDE DEF after
<1>3. /\ Occupied(sq) = sq[player] \cup sq[1 - player]
      /\ Occupied(after) = after[player] \cup after[1 - player]
  BY DEF Occupied, Sides
<1>4. Free(after) = Free(sq) \ {c}
  BY <1>2, <1>3 DEF Free
<1>5. sq[player] \cap sq[1 - player] = {}
  BY DEF Apart, Sides
<1>6. after[player] \cap after[1 - player] = {}
  BY <1>2, <1>3, <1>5 DEF Free
<1>7. Apart(after)
  BY <1>6 DEF Apart, Sides
<1> QED BY <1>1, <1>2, <1>4, <1>5, <1>7 DEF after, Free

\* A stone that makes a four leaves a cell for five.
LEMMA FourMakesFive ==
  ASSUME NEW sq \in Squares, Apart(sq), NEW player \in Sides, NEW c \in FoursOf(Scan(sq), player)
  PROVE  c \in Free(sq) /\ FiveCells(Put(sq, player, c), player) # {}
<1> DEFINE after == Put(sq, player, c)
<1>1. PICK d \in Dirs : KindAt(sq, player, d, c) \in {"ff", "ft"}
  BY FoursAre
<1>2. c \in Free(sq)
  BY FoursAre
<1> DEFINE line == Line(sq, player, d, c)
<1>3. IsLine(line)
  BY <1>2, LineIs
<1>4. ~IsFive(line) /\ (IsFreeFour(line) \/ IsFour(line))
  BY <1>1, KindIs
<1>5. OneOfFiveOn(line)
  <2> HIDE DEF line
  <2>1. CASE IsFour(line)
    BY <1>3, <1>4, <2>1, FourIff
  <2>2. CASE IsFreeFour(line)
    <3>1. PICK a \in -3 .. 0 : OwnRun(line, a, a + 3) /\ a - 1 \in line.empty /\ a + 4 \in line.empty
      BY <1>3, <2>2, FreeFourIff DEF OpenFourOn
    <3>2. (a .. a + 4) \ {0, a + 4} \subseteq line.own
      <4> SUFFICES ASSUME NEW k \in a .. a + 4, k # 0, k # a + 4 PROVE k \in line.own
        OBVIOUS
      <4> QED BY <3>1, RunHas
    <3>3. a \in -4 .. 0 /\ a + 4 \in a .. a + 4 /\ a + 4 # 0
      OBVIOUS
    <3> QED BY <3>1, <3>2, <3>3 DEF OneOfFiveOn
  <2> QED BY <1>4, <2>1, <2>2
<1>6. MakesOneOfFive(sq, player, d, c)
  BY <1>2, <1>5, OneOfFiveIff
<1>7. PICK w \in Fives[d] : /\ c \in w /\ w \cap sq[1 - player] = {}
                            /\ Cardinality(w \ (sq[player] \cup {c})) = 1
  BY <1>6 DEF MakesOneOfFive
<1>8. after[player] = sq[player] \cup {c} /\ after[1 - player] = sq[1 - player]
  BY <1>2, PutIs
<1> HIDE DEF after
<1>9. w \ after[player] \subseteq FiveCells(after, player)
  <2>1. w \in UNION {Fives[e] : e \in Dirs}
    OBVIOUS
  <2>2. w \cap after[1 - player] = {} /\ Cardinality(w \ after[player]) = 1
    BY <1>7, <1>8
  <2> QED BY <2>1, <2>2 DEF FiveCells
<1>10. w \ after[player] # {}
  <2>1. Cardinality({}) = 0
    BY FS_EmptySet
  <2> QED BY <1>7, <1>8, <2>1
<1> QED BY <1>2, <1>9, <1>10 DEF after

\* A stone that makes no four leaves none, if there was none.
LEMMA NoFourNoFive ==
  ASSUME NEW sq \in Squares, Apart(sq), NEW player \in Sides, NEW c \in Free(sq),
         \A d \in Dirs, e \in Cells : ~FiveAt(sq, player, d, e), c \notin FoursOf(Scan(sq), player)
  PROVE  \A d \in Dirs : \A e : ~FiveAt(Put(sq, player, c), player, d, e)
<1> SUFFICES ASSUME NEW d \in Dirs, NEW e, FiveAt(Put(sq, player, c), player, d, e) PROVE FALSE
  OBVIOUS
<1> DEFINE after == Put(sq, player, c)
           old == 1 - player
<1>1. /\ after \in Squares /\ Free(after) = Free(sq) \ {c} /\ after[player] = sq[player] \cup {c}
      /\ sq[player] \cap sq[old] = {} /\ c \in Cells
  BY PutIs
<1>2. e \in Free(after) /\ IsFive(Line(after, player, d, e))
  BY KindIs DEF FiveAt
<1> HIDE DEF after, old
<1>3. PICK w \in Fives[d] : e \in w /\ w \ {e} \subseteq after[player]
  BY <1>1, <1>2, FiveIff
<1>4. e \in Free(sq) /\ e # c /\ e \in Cells
  BY <1>1, <1>2 DEF Free
<1>5. c \in w
  <2> SUFFICES ASSUME c \notin w PROVE FALSE
    OBVIOUS
  <2>1. w \ {e} \subseteq sq[player]
    BY <1>1, <1>3
  <2>2. FiveAt(sq, player, d, e)
    BY <1>3, <1>4, <2>1, FiveIff, KindIs DEF FiveAt
  <2> QED BY <1>4, <2>2
<1>6. e \notin sq[player] /\ e \notin sq[old] /\ c \notin sq[old]
  BY <1>4 DEF Free, Occupied, Sides, old
<1>7. w \ (sq[player] \cup {c}) = {e} /\ w \cap sq[old] = {}
  BY <1>1, <1>3, <1>4, <1>5, <1>6
<1>8. Cardinality({e}) = 1
  BY FS_Singleton
<1>9. MakesOneOfFive(sq, player, d, c)
  BY <1>5, <1>7, <1>8 DEF MakesOneOfFive, old
<1>10. KindAt(sq, player, d, c) # "five"
  BY <1>1 DEF FiveAt
<1>11. KindAt(sq, player, d, c) \in {"ff", "ft"}
  BY <1>9, <1>10, KindMakes
<1>12. c \in FoursOf(Scan(sq), player)
  BY <1>11, FoursAre
<1> QED BY <1>12

\* An open four leaves two cells for five.
LEMMA OpenFourWins ==
  ASSUME NEW sq \in Squares, Apart(sq), NEW side \in Sides, NEW d \in Dirs, NEW x \in Free(sq),
         IsFreeFour(Line(sq, side, d, x))
  PROVE  Cardinality(FiveCells(Put(sq, side, x), side)) > 1
<1> DEFINE after == Put(sq, side, x)
           line == Line(sq, side, d, x)
<1>1. /\ after \in Squares /\ Apart(after) /\ Free(after) = Free(sq) \ {x}
      /\ after[side] = sq[side] \cup {x} /\ x \in Cells /\ sq[side] \subseteq Cells
  BY PutIs DEF Squares
<1>2. /\ IsLine(line)
      /\ \A k \in -4 .. 4 : k \in line.own <=> At(x, d, k) \in sq[side]
      /\ \A k \in -4 .. 4 : k \in line.empty <=> At(x, d, k) \in Free(sq)
  BY LineIs
<1> HIDE DEF after, line
<1>3. PICK a \in -3 .. 0 : OwnRun(line, a, a + 3) /\ a - 1 \in line.empty /\ a + 4 \in line.empty
  BY <1>2, FreeFourIff DEF OpenFourOn, line
<1>4. a - 1 \in -4 .. 4 /\ a + 4 \in -4 .. 4 /\ a - 1 # 0 /\ a + 4 # 0 /\ a - 1 # a + 4
  OBVIOUS
<1>5. /\ At(x, d, a - 1) \in Free(after) /\ At(x, d, a + 4) \in Free(after)
      /\ At(x, d, a - 1) # At(x, d, a + 4)
  <2>1. /\ \A j \in Int, k \in Int : At(x, d, j) = At(x, d, k) => j = k
        /\ \A k \in Int : At(x, d, k) = x => k = 0
    <3>1. 0 \in Int /\ 0 <= 0
      OBVIOUS
    <3> QED BY <1>1, <3>1, WindowIs
  <2> QED BY <1>1, <1>2, <1>3, <1>4, <2>1
<1>6. \A k \in a .. a + 3 : At(x, d, k) \in after[side]
  <2> SUFFICES ASSUME NEW k \in a .. a + 3 PROVE At(x, d, k) \in after[side]
    OBVIOUS
  <2>1. CASE k = 0
    BY <1>1, <2>1, AtZero, CellsArePoints
  <2>2. CASE k # 0
    <3>1. k \in line.own /\ k \in -4 .. 4
      BY <1>3, <2>2, RunHas
    <3> QED BY <1>1, <1>2, <3>1
  <2> QED BY <2>1, <2>2
<1>7. ASSUME NEW b \in {a - 1, a}, NEW k \in {a - 1, a + 4}, k \in b .. b + 4
      PROVE  At(x, d, k) \in FiveCells(after, side)
  <2> DEFINE w == Window(x, d, b, b + 4)
  <2>1. b \in -4 .. 0 /\ k \in Int /\ \A j \in b .. b + 4 : j = k \/ j \in a .. a + 3
    BY <1>7
  <2>2. At(x, d, k) \in Free(after) /\ At(x, d, k) \in Cells
    BY <1>5, <1>7 DEF Free
  <2>3. w \ {At(x, d, k)} \subseteq after[side]
    BY <1>6, <2>1 DEF Window
  <2>4. after[side] \subseteq Cells
    BY <1>1
  <2>5. w \subseteq Cells
    BY <2>2, <2>3, <2>4
  <2>6. w \in Fives[d]
    BY <1>1, <2>1, <2>5, FiveWindows
  <2>7. At(x, d, k) \in w
    BY <1>7 DEF Window
  <2>8. FiveAt(after, side, d, At(x, d, k))
    BY <1>1, <2>2, <2>3, <2>6, <2>7, FiveIff, KindIs DEF FiveAt
  <2> QED BY <1>1, <2>8, FiveCellsAre
<1>8. At(x, d, a - 1) \in FiveCells(after, side) /\ At(x, d, a + 4) \in FiveCells(after, side)
  <2>1. a - 1 \in a - 1 .. (a - 1) + 4 /\ a + 4 \in a .. a + 4
    OBVIOUS
  <2> QED BY <1>7, <2>1
<1> DEFINE cells == FiveCells(after, side)
<1>9. IsFiniteSet(cells)
  BY <1>1, FiveCellsAre
<1> HIDE DEF cells
<1>10. Cardinality(cells) # 1 /\ Cardinality(cells) # 0 /\ Cardinality(cells) \in Nat
  BY <1>5, <1>8, <1>9, FS_Singleton, FS_EmptySet, FS_CardinalityType DEF cells
<1>11. Cardinality(cells) > 1
  BY <1>10
<1> QED BY <1>11 DEF after, cells

\* A legal move makes a four or defends, unless the other side threatens nothing.
LEMMA LegalMovesAre ==
  ASSUME NEW sq \in Squares, NEW player \in Sides, NEW c
  PROVE  c \in LegalMoves(Scan(sq), player) =>
           \/ c \in FoursOf(Scan(sq), player) \/ Defends(Scan(sq), player, c)
           \/ FreeFours(Scan(sq), 1 - player) = {}
<1>1. Scan(sq).five \in Cells \cup {NO_FIVE, FIVE_WIN}
  BY FiveThreatIs
<1>2. CASE Scan(sq).five = FIVE_WIN
  BY <1>2, FiveAssumption DEF LegalMoves
<1>3. CASE Scan(sq).five \in Cells
  BY <1>3, FiveAssumption DEF LegalMoves
<1>4. CASE Scan(sq).five = NO_FIVE /\ FreeFours(Scan(sq), 1 - player) # {}
  BY <1>4, FiveAssumption DEF LegalMoves
<1> QED BY <1>1, <1>2, <1>3, <1>4

LEMMA LegalDefend ==
  ASSUME NEW sq \in Squares, Apart(sq), NEW player \in Sides, NEW c \in LegalMoves(Scan(sq), player)
  PROVE  LET after == Put(sq, player, c) IN
         /\ c \in Free(sq)
         /\ FiveCells(after, 1 - player) = {}
         /\ \/ FiveCells(after, player) # {}
            \/ \A d \in Dirs, e \in Free(after) : ~MakesOpenFour(after, 1 - player, d, e)
<1> DEFINE after == Put(sq, player, c)
           old == 1 - player
<1>1. c \in Free(sq)
  BY LegalAreFree
<1>2. /\ after \in Squares /\ Apart(after) /\ Free(after) = Free(sq) \ {c} /\ after[old] = sq[old]
      /\ old \in Sides
  BY <1>1, PutIs
<1>3. \A d \in Dirs : \A e : FiveAt(sq, old, d, e) => e = c
  BY <1>2, LegalAreFree
<1>4. \A d \in Dirs, e \in Cells : FiveAt(after, old, d, e) => FiveAt(sq, old, d, e) /\ e # c
  BY <1>1, OldFives
<1>5. after = [sq EXCEPT ![player] = @ \cup {c}]
  BY DEF Put
<1> HIDE DEF after, old
<1>6. FiveCells(after, old) = {}
  <2>1. \A e : e \in FiveCells(after, old) => e \in Cells /\ \E d \in Dirs : FiveAt(after, old, d, e)
    BY <1>2, FiveCellsAre DEF Free
  <2> QED BY <1>3, <1>4, <2>1
<1>7. ASSUME NEW d \in Dirs, NEW e \in Free(after), MakesOpenFour(after, old, d, e)
      PROVE  /\ [dir |-> d, cell |-> e] \in FreeFours(Scan(sq), old) /\ e # c
             /\ IsFreeFour(Line(after, old, d, e))
  <2>1. e \in Free(sq) /\ e # c
    BY <1>2
  <2>2. MakesOpenFour(sq, old, d, e)
    BY <1>2, <1>7 DEF MakesOpenFour
  <2>3. KindAt(sq, old, d, e) # "five"
    BY <1>3, <2>1 DEF FiveAt
  <2>4. KindAt(sq, old, d, e) = "ff"
    BY <1>2, <2>1, <2>2, <2>3, KindMakes
  <2> QED BY <1>2, <1>7, <2>1, <2>4, FreeFoursAre, OpenFourIff
<1>8. CASE c \in FoursOf(Scan(sq), player)
  BY <1>1, <1>6, <1>8, FourMakesFive DEF after, old
<1>9. CASE Defends(Scan(sq), player, c)
  <2>1. \A f \in FreeFours(Scan(sq), old) : f.cell # c => ~IsFreeFour(Line(after, old, f.dir, f.cell))
    <3>1. Scan(sq).square = sq
      BY ScanIs
    <3> QED BY <1>5, <1>9, <3>1 DEF Defends, old
  <2>2. \A d \in Dirs, e \in Free(after) : ~MakesOpenFour(after, old, d, e)
    <3> SUFFICES ASSUME NEW d \in Dirs, NEW e \in Free(after), MakesOpenFour(after, old, d, e) PROVE FALSE
      OBVIOUS
    <3>1. PICK f \in FreeFours(Scan(sq), old) : f = [dir |-> d, cell |-> e]
      BY <1>7
    <3>2. f.cell = e /\ f.dir = d
      BY <3>1
    <3> QED BY <1>7, <2>1, <3>2
  <2> QED BY <1>1, <1>6, <2>2 DEF after, old
<1>10. CASE FreeFours(Scan(sq), old) = {}
  <2>1. \A d \in Dirs, e \in Free(after) : ~MakesOpenFour(after, old, d, e)
    BY <1>7, <1>10
  <2> QED BY <1>1, <1>6, <2>1 DEF after, old
<1> QED BY <1>8, <1>9, <1>10, LegalMovesAre DEF old

\* An open four that a move does not touch.
LEMMA Undefended ==
  ASSUME NEW sq \in Squares, Apart(sq), NEW player \in Sides, NEW c \in Free(sq),
         FivesOf(sq, player), \A d \in Dirs : \A e : FiveAt(sq, 1 - player, d, e) => e = c,
         Scan(sq).five = IF FiveCells(sq, 1 - player) = {} THEN NO_FIVE ELSE c,
         c \notin LegalMoves(Scan(sq), player)
  PROVE  /\ c \notin FoursOf(Scan(sq), player)
         /\ \E d \in Dirs, x \in Free(Put(sq, player, c)) : IsFreeFour(Line(Put(sq, player, c), 1 - player, d, x))
<1> DEFINE after == Put(sq, player, c)
           old == 1 - player
           h == Scan(sq)
<1>1. /\ after \in Squares /\ Apart(after) /\ Free(after) = Free(sq) \ {c} /\ after[old] = sq[old]
      /\ old \in Sides /\ c \in Cells /\ h.square = sq
      /\ after = [sq EXCEPT ![player] = @ \cup {c}]
  <2>1. h.square = sq
    BY ScanIs
  <2>2. after = [sq EXCEPT ![player] = @ \cup {c}]
    BY DEF Put
  <2>3. /\ after \in Squares /\ Apart(after) /\ Free(after) = Free(sq) \ {c} /\ after[old] = sq[old]
        /\ old \in Sides /\ c \in Cells
    BY PutIs
  <2> HIDE DEF after, old, h
  <2> QED BY <2>1, <2>2, <2>3
<1>2. h.five = NO_FIVE \/ h.five = c
  OBVIOUS
<1>3. h.five = NO_FIVE => FreeFours(h, old) # {}
  <2>1. h.five = NO_FIVE /\ FreeFours(h, old) = {} => LegalMoves(h, player) = Cells \ Occupied(h.square)
    BY FiveAssumption DEF LegalMoves
  <2> QED BY <1>1, <2>1 DEF Free
<1> HIDE DEF after, old, h
<1> DEFINE Survivor == \E d \in Dirs, x \in Free(after) : IsFreeFour(Line(after, old, d, x))
<1>4. c \notin FoursOf(h, player)
  <2>1. CASE h.five = NO_FIVE
    BY <1>3, <2>1, FiveAssumption DEF LegalMoves, old, h
  <2>2. CASE h.five = c
    BY <1>1, <2>2, FiveAssumption DEF LegalMoves, old, h
  <2> QED BY <1>2, <2>1, <2>2
<1>5. ASSUME NEW f \in FreeFours(h, old), f.cell # c, IsFreeFour(Line(after, old, f.dir, f.cell))
      PROVE  Survivor
  <2>1. f.dir \in Dirs /\ f.cell \in Free(sq)
    BY <1>1, FreeFoursAre DEF h, FreeFourAt
  <2> QED BY <1>1, <1>5, <2>1
<1> HIDE DEF Survivor
<1>6. ASSUME ~Defends(h, player, c) PROVE Survivor
  <2>1. PICK f \in FreeFours(h, old) : f.cell # c /\ IsFreeFour(Line(after, old, f.dir, f.cell))
    BY <1>1, <1>6 DEF Defends, old
  <2> QED BY <1>5, <2>1
<1>7. ASSUME Defends(h, player, c) PROVE Survivor
  <2>1. h.five = NO_FIVE
    <3>1. h.five = c => c \in LegalMoves(h, player)
      BY <1>1, <1>7, FiveAssumption DEF LegalMoves
    <3> QED BY <1>2, <3>1 DEF h
  <2>2. FreeFours(h, old) # {} /\ c \notin Defences(h, old)
    BY <1>3, <1>7, <2>1, FiveAssumption DEF LegalMoves, old, h
  <2>3. PICK f \in FreeFours(h, old), a \in -3 .. 0 :
          /\ FreeFourAt(sq, old, f) /\ OpenFourFrom(sq, old, f.dir, f.cell, a)
          /\ Defences(h, old) = {f.cell, At(f.cell, f.dir, a + 4), At(f.cell, f.dir, a - 1)}
    BY <1>1, <2>2, DefencesAre DEF h
  <2> DEFINE x == f.cell
             d == f.dir
  <2>4. d \in Dirs /\ x \in Free(sq) /\ x # c /\ At(x, d, a + 4) # c /\ At(x, d, a - 1) # c
    BY <2>2, <2>3 DEF FreeFourAt
  <2>5. x \in Free(after)
    BY <1>1, <2>4
  <2> DEFINE line == Line(sq, old, d, x)
             later == Line(after, old, d, x)
  <2>6. OwnRun(line, a, a + 3) /\ a - 1 \in line.empty /\ a + 4 \in line.empty
    BY <2>3 DEF OpenFourFrom
  <2>7. /\ \A k \in -4 .. 4 : k \in line.empty <=> At(x, d, k) \in Free(sq)
        /\ \A k \in -4 .. 4 : k \in later.empty <=> At(x, d, k) \in Free(after)
        /\ IsLine(later)
    BY <1>1, <2>4, <2>5, LineIs
  <2>8. later.own = line.own
    BY <1>1 DEF Line
  <2> HIDE DEF line, later, x, d
  <2>9. a - 1 \in -4 .. 4 /\ a + 4 \in -4 .. 4
    OBVIOUS
  <2>10. a - 1 \in later.empty /\ a + 4 \in later.empty
    BY <1>1, <2>4, <2>6, <2>7, <2>9
  <2>11. OwnRun(later, a, a + 3)
    BY <2>6, <2>8 DEF OwnRun
  <2>12. IsFreeFour(later)
    BY <2>7, <2>10, <2>11, FreeFourIff DEF OpenFourOn
  <2> QED BY <1>5, <2>4, <2>12 DEF later, x, d
<1> QED BY <1>4, <1>6, <1>7 DEF Survivor, after, old, h


\* A move that is not legal leaves a five, or an open four to which there is no answer.
LEMMA IllegalLose ==
  ASSUME NEW sq \in Squares, Apart(sq), NEW player \in Sides, NEW c \in Free(sq),
         FivesOf(sq, player), c \notin LegalMoves(Scan(sq), player),
         LET cells == FiveCells(sq, 1 - player) IN
         Scan(sq).five = CASE cells = {} -> NO_FIVE
                           [] Cardinality(cells) = 1 -> CHOOSE e \in cells : TRUE
                           [] Cardinality(cells) > 1 -> FIVE_WIN
  PROVE  WinsInTwo(Put(sq, player, c), 1 - player)
<1> DEFINE after == Put(sq, player, c)
           old == 1 - player
           cells == FiveCells(sq, old)
<1>1. /\ after \in Squares /\ Apart(after) /\ Free(after) = Free(sq) \ {c} /\ old \in Sides
      /\ 1 - old = player
  BY PutIs
<1>2. /\ IsFiniteSet(cells) /\ cells \subseteq Free(sq)
      /\ \A e : e \in cells <=> \E d \in Dirs : FiveAt(sq, old, d, e)
  BY <1>1, FiveCellsAre
<1>3. CASE \E e \in cells : e # c
  <2>1. PICK e \in cells, d \in Dirs : e # c /\ FiveAt(sq, old, d, e)
    BY <1>2, <1>3
  <2>2. FiveAt(after, old, d, e)
    BY <1>2, <2>1, OldFives DEF Free
  <2>3. e \in FiveCells(after, old)
    BY <1>1, <2>2, FiveCellsAre
  <2> QED BY <2>3 DEF WinsInTwo
<1>4. CASE \A e \in cells : e = c
  <2>1. Scan(sq).five = IF cells = {} THEN NO_FIVE ELSE c
    <3>1. CASE cells = {}
      <4>1. Cardinality(cells) = 0
        BY <3>1, FS_EmptySet
      <4> QED BY <3>1, <4>1
    <3>2. CASE cells # {}
      <4> HIDE DEF cells
      <4>0. cells = {c}
        BY <1>4, <3>2
      <4>1. Cardinality(cells) = 1
        BY <4>0, FS_Singleton
      <4>2. (CHOOSE e \in cells : TRUE) = c
        BY <4>0
      <4>3. Scan(sq).five = CASE cells = {} -> NO_FIVE
                           [] Cardinality(cells) = 1 -> CHOOSE e \in cells : TRUE
                           [] Cardinality(cells) > 1 -> FIVE_WIN
        BY DEF cells
      <4>4. (CASE cells = {} -> NO_FIVE
               [] Cardinality(cells) = 1 -> CHOOSE e \in cells : TRUE
               [] Cardinality(cells) > 1 -> FIVE_WIN) = c
        BY <3>2, <4>1, <4>2
      <4> QED BY <3>2, <4>3, <4>4
    <3> QED BY <3>1, <3>2
  <2>2. \A d \in Dirs : \A e : FiveAt(sq, old, d, e) => e = c
    BY <1>2, <1>4
  <2>3. /\ c \notin FoursOf(Scan(sq), player)
        /\ \E d \in Dirs, x \in Free(after) : IsFreeFour(Line(after, old, d, x))
    BY <2>1, <2>2, Undefended
  <2>4. PICK d \in Dirs, x \in Free(after) : IsFreeFour(Line(after, old, d, x))
    BY <2>3
  <2> DEFINE later == Put(after, old, x)
  <2>5. later \in Squares /\ Apart(later)
    BY <1>1, PutIs
  <2>6. \A b \in Dirs : \A e : ~FiveAt(after, player, b, e)
    <3>1. \A b \in Dirs, e \in Cells : ~FiveAt(sq, player, b, e)
      BY DEF FivesOf
    <3> QED BY <2>3, <3>1, NoFourNoFive
  <2>7. ASSUME NEW b \in Dirs, NEW e \in Cells PROVE ~FiveAt(later, player, b, e)
    <3>1. FiveAt(later, 1 - old, b, e) <=> FiveAt(after, 1 - old, b, e) /\ e # x
      BY <1>1, OldFives
    <3> HIDE DEF old, after, later
    <3> QED BY <1>1, <2>6, <3>1
  <2>8. Cardinality(FiveCells(later, old)) > 1
    BY <1>1, <2>4, OpenFourWins
  <2> HIDE DEF old, after, later
  <2>9. FiveCells(later, player) = {}
    <3>1. \A e : e \in FiveCells(later, player) => e \in Cells /\ \E b \in Dirs : FiveAt(later, player, b, e)
      BY <2>5, FiveCellsAre DEF Free
    <3> QED BY <2>7, <3>1
  <2>10. WinsInTwo(after, old)
    BY <1>1, <2>8, <2>9 DEF WinsInTwo, later
  <2> QED BY <2>10 DEF after, old
<1> QED BY <1>3, <1>4

\* generate_legal_moves neither takes a move away that does not lose at once nor leaves
\* one that does, so that a side without legal moves has lost
\* (board.cpp:549-654, boardhistory.cpp:251).
THEOREM GameLegalMoves == GameSpec => []LegalMovesAreTheDefences
<1>1. RulesInv => LegalMovesAreTheDefences
  <2> SUFFICES ASSUME RulesInv, numTurns > 0 PROVE LegalMovesAreTheDefences
    BY DEF LegalMovesAreTheDefences, IllegalMovesLose, LegalMovesDefend
  <2> DEFINE sq == handler.square
  <2>1. /\ sq \in Squares /\ Apart(sq) /\ next \in Sides /\ handler = Scan(sq)
        /\ FivesOf(sq, next)
    BY DEF RulesInv, GameTypeOK, Handler, Squares, Apart, FivesInv
  <2>2. Free(sq) = {} => isGameFinished
    BY DEF RulesInv, LegalInv
  <2>3. Free(sq) # {} => legal = LegalMoves(Scan(sq), next)
    BY <2>1 DEF RulesInv, LegalInv
  <2>4. LET cells == FiveCells(sq, 1 - next) IN
        Scan(sq).five = CASE cells = {} -> NO_FIVE
                          [] Cardinality(cells) = 1 -> CHOOSE e \in cells : TRUE
                          [] Cardinality(cells) > 1 -> FIVE_WIN
    BY <2>1, FivesKnown DEF FivesAreKnown
  <2> HIDE DEF sq
  <2>5. ASSUME NEW c \in Free(sq) \ legal PROVE WinsInTwo(Put(sq, next, c), 1 - next)
    <3>1. c \notin LegalMoves(Scan(sq), next)
      BY <2>3
    <3> QED BY <2>1, <2>4, <3>1, IllegalLose
  <2>6. ASSUME ~isGameFinished, NEW c \in legal
        PROVE  LET after == Put(sq, next, c) IN
               /\ c \in Free(sq)
               /\ FiveCells(after, 1 - next) = {}
               /\ \/ FiveCells(after, next) # {}
                  \/ \A d \in Dirs, e \in Free(after) : ~MakesOpenFour(after, 1 - next, d, e)
    <3>1. c \in LegalMoves(Scan(sq), next)
      BY <2>2, <2>3, <2>6
    <3> QED BY <2>1, <3>1, LegalDefend
  <2>7. IllegalMovesLose
    BY <2>5 DEF IllegalMovesLose, sq
  <2>8. LegalMovesDefend
    BY <2>6 DEF LegalMovesDefend, sq
  <2> QED BY <2>7, <2>8 DEF LegalMovesAreTheDefences
<1> QED BY <1>1, GameInvariant, PTL

-----------------------------------------------------------------------------
(* Nets and game threads.                                                  *)

USE SelfplayAssumption DEF Models, Games

\* A thread refers to the net it has acquired, and to the new net it looks at.
Holding == {"acquired", "playing", "checking", "changing", "finished", "pushing", "pushed",
            "stopping"}
Users(m) == {p \in Players : at[p] \in Holding /\ nnEval[p] = m}
Checkers(m) == {p \in Players : at[p] = "checking" /\ newNNEval[p] = m}

CountInv == \A m \in Models : acquireCount[m] = Cardinality(Users(m)) + Cardinality(Checkers(m))

\* The nets that the manager tracks: the latest and those that are referred to,
\* until the manager goes after the last of the threads.
TrackInv ==
  /\ modelDatas \subseteq 1 .. loaded
  /\ main \in {"joining", "joiningLoader"} => loaded \in modelDatas
  /\ main \notin {"joining", "joiningLoader"} => modelDatas = {} /\ loader = "exited"
  /\ main # "joining" => \A p \in Players : at[p] = "exited"
  /\ \A m \in modelDatas : m = loaded \/ acquireCount[m] > 0
  /\ \A m \in 1 .. loaded : m \in modelDatas <=> ~readOnly[m]
  /\ \A m \in Models : m > loaded => ~readOnly[m]

UseInv == \A p \in Players :
  /\ at[p] \in Holding => nnEval[p] \in modelDatas
  /\ at[p] = "checking" => newNNEval[p] \in modelDatas
  /\ at[p] \in {"playing", "checking", "finished"} => bots[p] = nnEval[p]

\* How far the data write loop of each net is.
Active == {m \in Models : loop[m] # "none"}

LoopInv ==
  /\ numDataWriteLoopsActive = Cardinality(Active)
  /\ main = "done" => Active = {}
  /\ \A m \in Models :
       /\ m > loaded => loop[m] = "none" /\ m \notin deleted
       /\ m <= loaded /\ loop[m] # "popping" => readOnly[m]
       /\ loop[m] # "popping" => finishedGameQueue[m] = <<>>
       /\ loop[m] \notin {"popping", "ended"} => unflushed[m] = {}
       /\ m \in deleted => loop[m] \in {"deleted", "none"}

\* Where each finished game is.
OnItsWay(g) == \/ g \in stored
               \/ \E m \in Models : g \in InQueue(m) \cup unflushed[m]
               \/ \E p \in Players : game[p] = g /\ at[p] \in {"finished", "pushing"}

GameInv ==
  /\ \A p \in Players :
       at[p] \in {"playing", "checking", "changing", "finished", "pushing"} => game[p] \in Games
  /\ \A g \in finished : OnItsWay(g)

IInv == TypeOK /\ CountInv /\ TrackInv /\ UseInv /\ LoopInv /\ GameInv

-----------------------------------------------------------------------------
(* Counting, and the latest net.                                           *)

LEMMA AddOne ==
  ASSUME NEW S, IsFiniteSet(S), NEW x, x \notin S
  PROVE  Cardinality(S \cup {x}) = Cardinality(S) + 1 /\ Cardinality(S) \in Nat
BY FS_AddElement, FS_CardinalityType

LEMMA RemoveOne ==
  ASSUME NEW S, IsFiniteSet(S), NEW x \in S
  PROVE  Cardinality(S \ {x}) = Cardinality(S) - 1 /\ Cardinality(S) \in Nat \ {0}
<1>1. Cardinality(S) \in Nat /\ Cardinality(S) # 0
  BY FS_CardinalityType, FS_EmptySet
<1> QED BY <1>1, FS_RemoveElement

LEMMA ReferrersAreFinite ==
  ASSUME NEW m
  PROVE  /\ IsFiniteSet(Users(m)) /\ IsFiniteSet(Checkers(m))
         /\ Cardinality(Users(m)) \in Nat /\ Cardinality(Checkers(m)) \in Nat
<1>1. Users(m) \in SUBSET Players /\ Checkers(m) \in SUBSET Players
  BY DEF Users, Checkers
<1>2. IsFiniteSet(Users(m)) /\ IsFiniteSet(Checkers(m))
  BY <1>1, FS_Subset
<1> QED BY <1>2, FS_CardinalityType

LEMMA ReferrersAreFiniteNext ==
  ASSUME NEW m
  PROVE  /\ IsFiniteSet(Users(m)') /\ IsFiniteSet(Checkers(m)')
         /\ Cardinality(Users(m)') \in Nat /\ Cardinality(Checkers(m)') \in Nat
<1>1. Users(m)' \in SUBSET Players /\ Checkers(m)' \in SUBSET Players
  BY DEF Users, Checkers
<1>2. IsFiniteSet(Users(m)') /\ IsFiniteSet(Checkers(m)')
  BY <1>1, FS_Subset
<1> QED BY <1>2, FS_CardinalityType

\* A net that a thread refers to has been acquired.
LEMMA UsedIsAcquired ==
  ASSUME CountInv, NEW m \in Models, NEW p \in Users(m) \cup Checkers(m)
  PROVE  acquireCount[m] > 0
<1> DEFINE u == Cardinality(Users(m))  c == Cardinality(Checkers(m))
<1>1. u \in Nat /\ c \in Nat
  BY ReferrersAreFinite
<1>2. acquireCount[m] = u + c
  BY DEF CountInv
<1> HIDE DEF u, c
<1>3. CASE p \in Users(m)
  <2>1. u \in Nat \ {0}
    BY <1>3, RemoveOne, ReferrersAreFinite DEF u
  <2> QED BY <1>1, <2>1, <1>2
<1>4. CASE p \in Checkers(m)
  <2>1. c \in Nat \ {0}
    BY <1>4, RemoveOne, ReferrersAreFinite DEF c
  <2> QED BY <1>1, <2>1, <1>2
<1> QED BY <1>3, <1>4

LEMMA UsedIsAcquiredNext ==
  ASSUME CountInv', NEW m \in Models, NEW p \in Users(m)' \cup Checkers(m)'
  PROVE  acquireCount'[m] > 0
<1> DEFINE u == Cardinality(Users(m)')  c == Cardinality(Checkers(m)')
<1>1. u \in Nat /\ c \in Nat
  BY ReferrersAreFiniteNext
<1>2. acquireCount'[m] = u + c
  BY DEF CountInv
<1> HIDE DEF u, c
<1>3. CASE p \in Users(m)'
  <2>1. u \in Nat \ {0}
    BY <1>3, RemoveOne, ReferrersAreFiniteNext DEF u
  <2> QED BY <1>1, <2>1, <1>2
<1>4. CASE p \in Checkers(m)'
  <2>1. c \in Nat \ {0}
    BY <1>4, RemoveOne, ReferrersAreFiniteNext DEF c
  <2> QED BY <1>1, <2>1, <1>2
<1> QED BY <1>3, <1>4

\* A net that no thread refers to has not been acquired.
LEMMA UnusedIsNotAcquired ==
  ASSUME CountInv, UseInv, NEW m \in Models, m \notin modelDatas
  PROVE  acquireCount[m] = 0
<1>1. Users(m) = {} /\ Checkers(m) = {}
  BY DEF UseInv, Users, Checkers, Holding
<1>2. acquireCount[m] = Cardinality({}) + Cardinality({})
  BY <1>1 DEF CountInv
<1> QED BY <1>2, FS_EmptySet

LEMMA LatestIs ==
  ASSUME NEW n \in Nat, NEW S \in SUBSET (1 .. n), n \in S
  PROVE  Latest(S) = n
<1>1. \A m \in S : (\A k \in S : k <= m) <=> m = n
  OBVIOUS
<1> QED BY <1>1 DEF Latest

\* What is left of the nets S when the unused ones are let go.
LEMMA Tracked ==
  ASSUME TypeOK, NEW n \in Models, NEW S \in SUBSET (1 .. n), n \in S,
         NEW count \in [Models -> Nat], TrackUsed(S, count)
  PROVE  /\ modelDatas' = {m \in S : m = n \/ count[m] > 0}
         /\ acquireCount' = count
         /\ readOnly' \in [Models -> BOOLEAN]
         /\ \A m \in Models : readOnly'[m] <=> readOnly[m] \/ (m \in S /\ m # n /\ count[m] = 0)
<1>1. Latest(S) = n
  BY LatestIs
<1>2. \A m \in S : m \in Models /\ (count[m] = 0 \/ count[m] > 0)
  OBVIOUS
<1>3. Unused(S, count) = {m \in S : m # n /\ count[m] = 0}
  BY <1>1 DEF Unused
<1>4. modelDatas' = {m \in S : m = n \/ count[m] > 0}
  <2>1. \A m \in S : (m = n \/ count[m] > 0) <=> ~(m # n /\ count[m] = 0)
    BY <1>2
  <2>2. modelDatas' = S \ {m \in S : m # n /\ count[m] = 0}
    BY <1>3 DEF TrackUsed
  <2> QED BY <2>1, <2>2
<1>5. readOnly' = [m \in Models |-> readOnly[m] \/ m \in {k \in S : k # n /\ count[k] = 0}]
  BY <1>3 DEF TrackUsed
<1>6. \A m \in Models : readOnly[m] \in BOOLEAN
  BY DEF TypeOK
<1>7. readOnly' \in [Models -> BOOLEAN]
  BY <1>5, <1>6
<1>8. \A m \in Models : readOnly'[m] <=> readOnly[m] \/ (m \in S /\ m # n /\ count[m] = 0)
  BY <1>5
<1> QED BY <1>4, <1>7, <1>8 DEF TrackUsed

\* The games of a queue after a push and before a pop.
LEMMA PushAdds ==
  ASSUME NEW q \in Seq(Games), NEW g \in Games
  PROVE  {Append(q, g)[i] : i \in 1 .. Len(Append(q, g))} = {q[i] : i \in 1 .. Len(q)} \cup {g}
<1>1. Len(Append(q, g)) = Len(q) + 1 /\ Append(q, g)[Len(q) + 1] = g
  OBVIOUS
<1>2. \A i \in 1 .. Len(q) : Append(q, g)[i] = q[i]
  OBVIOUS
<1>3. 1 .. Len(q) + 1 = (1 .. Len(q)) \cup {Len(q) + 1}
  OBVIOUS
<1> QED BY <1>1, <1>2, <1>3

LEMMA PopRemoves ==
  ASSUME NEW q \in Seq(Games), q # <<>>
  PROVE  {q[i] : i \in 1 .. Len(q)} = {Tail(q)[i] : i \in 1 .. Len(Tail(q))} \cup {Head(q)}
<1> DEFINE n == Len(q)
           s == Tail(q)
<1>1. n \in Nat \ {0} /\ Len(s) = n - 1 /\ Head(q) = q[1]
  OBVIOUS
<1>2. \A i \in 1 .. n - 1 : s[i] = q[i + 1]
  OBVIOUS
<1> HIDE DEF n, s
<1>3. \A i \in 1 .. n : i = 1 \/ (i - 1 \in 1 .. n - 1 /\ q[i] = s[i - 1])
  BY <1>1, <1>2
<1>4. {q[i] : i \in 1 .. n} \subseteq {s[i] : i \in 1 .. n - 1} \cup {q[1]}
  BY <1>3
<1>5. \A i \in 1 .. n - 1 : i + 1 \in 1 .. n /\ s[i] = q[i + 1]
  BY <1>1, <1>2
<1>6. 1 \in 1 .. n
  BY <1>1
<1>7. {s[i] : i \in 1 .. n - 1} \cup {q[1]} \subseteq {q[i] : i \in 1 .. n}
  BY <1>5, <1>6
<1>8. {q[i] : i \in 1 .. n} = {s[i] : i \in 1 .. n - 1} \cup {q[1]}
  BY <1>4, <1>7
<1> QED BY <1>1, <1>8 DEF n, s

LEMMA ActiveIsFinite == IsFiniteSet(Active) /\ Cardinality(Active) \in Nat
<1>1. Active \in SUBSET Models
  BY DEF Active
<1>2. IsFiniteSet(Models)
  BY FS_Interval
<1> QED BY <1>1, <1>2, FS_Subset, FS_CardinalityType

-----------------------------------------------------------------------------
(* Steps of a game thread that do not call the manager.                    *)

\* What they have in common.
LEMMA QuietKeeps ==
  ASSUME TypeOK, CountInv, TrackInv, NEW p \in Players, NEW where,
         at' = [at EXCEPT ![p] = where], at[p] \notin {"exited", "checking"},
         where # "checking", where \in Holding <=> at[p] \in Holding,
         UNCHANGED <<managed, readOnly, nnEval, newNNEval, mainVars>>
  PROVE  CountInv' /\ TrackInv'
<1>1. /\ at'[p] = where /\ \A q \in Players : q # p => at'[q] = at[q]
      /\ UNCHANGED <<loaded, modelDatas, acquireCount, readOnly, nnEval, newNNEval, loader, main>>
  BY DEF TypeOK, managed, mainVars
<1>2. \A m \in Models : Users(m)' = Users(m) /\ Checkers(m)' = Checkers(m)
  BY <1>1 DEF Users, Checkers
<1>3. CountInv'
  BY <1>1, <1>2 DEF CountInv
<1>4. main = "joining"
  BY DEF TrackInv
<1>5. TrackInv'
  BY <1>1, <1>4 DEF TrackInv
<1> QED BY <1>3, <1>5

LEMMA ExitKeeps ==
  ASSUME IInv, NEW p \in Players, Exit(p)
  PROVE  IInv'
<1> USE DEF managed, dataVars, loopVars, mainVars
<1>1. /\ at' = [at EXCEPT ![p] = "exited"] /\ at[p] = "idle"
      /\ UNCHANGED <<managed, dataVars, loopVars, nnEval, newNNEval, game, bots, numGamesStarted,
                     finished, mainVars>>
  BY DEF Exit, Become
<1>2. /\ \A q \in Players : q # p => at'[q] = at[q]
      /\ at'[p] = "exited"
  BY <1>1 DEF IInv, TypeOK
<1>3. TypeOK'
  BY <1>1 DEF IInv, TypeOK
<1>4. CountInv' /\ TrackInv'
  BY <1>1, QuietKeeps DEF IInv, Holding
<1>5. UseInv'
  BY <1>1, <1>2 DEF IInv, UseInv, Holding
<1>6. LoopInv'
  BY <1>1 DEF IInv, LoopInv, Active
<1>7. GameInv'
  BY <1>1, <1>2 DEF IInv, GameInv, OnItsWay, InQueue
<1> QED BY <1>3, <1>4, <1>5, <1>6, <1>7 DEF IInv

LEMMA StartGameKeeps ==
  ASSUME IInv, NEW p \in Players, StartGame(p)
  PROVE  IInv'
<1> USE DEF managed, dataVars, loopVars, mainVars
<1>1. /\ at[p] = "acquired" /\ numGamesStarted' = numGamesStarted + 1
      /\ \/ /\ numGamesStarted < maxGamesTotal /\ at' = [at EXCEPT ![p] = "playing"]
            /\ game' = [game EXCEPT ![p] = numGamesStarted + 1]
            /\ bots' = [bots EXCEPT ![p] = nnEval[p]]
         \/ at' = [at EXCEPT ![p] = "stopping"] /\ UNCHANGED <<game, bots>>
      /\ UNCHANGED <<managed, dataVars, loopVars, nnEval, newNNEval, finished, mainVars>>
  BY DEF StartGame, Become
<1>2. \A q \in Players : q # p => at'[q] = at[q] /\ game'[q] = game[q] /\ bots'[q] = bots[q]
  BY <1>1 DEF IInv, TypeOK
<1>3. \/ at'[p] = "playing" /\ game'[p] \in Games /\ bots'[p] = nnEval[p]
      \/ at'[p] = "stopping"
  BY <1>1 DEF IInv, TypeOK
<1>4. TypeOK'
  <2>1. numGamesStarted' \in Nat /\ (numGamesStarted < maxGamesTotal => numGamesStarted + 1 \in Games)
    BY <1>1 DEF IInv, TypeOK
  <2>2. at' \in [Players -> {"idle", "acquired", "playing", "checking", "changing", "finished",
                            "pushing", "pushed", "stopping", "exited"}]
    BY <1>1 DEF IInv, TypeOK
  <2>3. nnEval[p] \in {0} \cup Models /\ bots' \in [Players -> {0} \cup Models]
    BY <1>1 DEF IInv, TypeOK
  <2>4. game' \in [Players -> {0} \cup Games]
    BY <1>1, <2>1 DEF IInv, TypeOK
  <2> QED BY <1>1, <2>1, <2>2, <2>3, <2>4 DEF IInv, TypeOK
<1>5. CountInv' /\ TrackInv'
  BY <1>1, QuietKeeps DEF IInv, Holding
<1>6. UseInv'
  BY <1>1, <1>2, <1>3 DEF IInv, UseInv, Holding
<1>7. LoopInv'
  BY <1>1 DEF IInv, LoopInv, Active
<1>8. GameInv'
  BY <1>1, <1>2, <1>3 DEF IInv, GameInv, OnItsWay, InQueue
<1> QED BY <1>4, <1>5, <1>6, <1>7, <1>8 DEF IInv

LEMMA SetNNEvalKeeps ==
  ASSUME IInv, NEW p \in Players, SetNNEval(p)
  PROVE  IInv'
<1> USE DEF managed, dataVars, loopVars, mainVars
<1>1. /\ at[p] = "changing" /\ at' = [at EXCEPT ![p] = "playing"]
      /\ bots' = [bots EXCEPT ![p] = nnEval[p]]
      /\ UNCHANGED <<managed, dataVars, loopVars, nnEval, newNNEval, game, numGamesStarted,
                     finished, mainVars>>
  BY DEF SetNNEval, Become
<1>2. /\ \A q \in Players : q # p => at'[q] = at[q] /\ bots'[q] = bots[q]
      /\ at'[p] = "playing" /\ bots'[p] = nnEval[p]
  BY <1>1 DEF IInv, TypeOK
<1>3. TypeOK'
  BY <1>1 DEF IInv, TypeOK
<1>4. CountInv' /\ TrackInv'
  BY <1>1, QuietKeeps DEF IInv, Holding
<1>5. UseInv'
  BY <1>1, <1>2 DEF IInv, UseInv, Holding
<1>6. LoopInv'
  BY <1>1 DEF IInv, LoopInv, Active
<1>7. GameInv'
  BY <1>1, <1>2 DEF IInv, GameInv, OnItsWay, InQueue
<1> QED BY <1>3, <1>4, <1>5, <1>6, <1>7 DEF IInv

LEMMA FinishGameKeeps ==
  ASSUME IInv, NEW p \in Players, FinishGame(p)
  PROVE  IInv'
<1> USE DEF managed, dataVars, loopVars, mainVars
<1>1. /\ at[p] = "playing"
      /\ \/ at' = [at EXCEPT ![p] = "stopping"] /\ UNCHANGED finished
         \/ at' = [at EXCEPT ![p] = "finished"] /\ finished' = finished \cup {game[p]}
      /\ UNCHANGED <<managed, dataVars, loopVars, nnEval, newNNEval, game, bots, numGamesStarted,
                     mainVars>>
  BY DEF FinishGame, Become
<1>2. \A q \in Players : q # p => at'[q] = at[q]
  BY <1>1 DEF IInv, TypeOK
<1>3. \/ at'[p] = "stopping" /\ finished' = finished
      \/ at'[p] = "finished" /\ finished' = finished \cup {game[p]}
  BY <1>1 DEF IInv, TypeOK
<1>4. game[p] \in Games
  BY <1>1 DEF IInv, GameInv
<1>5. TypeOK'
  BY <1>1, <1>4 DEF IInv, TypeOK
<1>6. CountInv' /\ TrackInv'
  BY <1>1, QuietKeeps DEF IInv, Holding
<1>7. UseInv'
  BY <1>1, <1>2, <1>3 DEF IInv, UseInv, Holding
<1>8. LoopInv'
  BY <1>1 DEF IInv, LoopInv, Active
<1>9. GameInv'
  BY <1>1, <1>2, <1>3 DEF IInv, GameInv, OnItsWay, InQueue
<1> QED BY <1>5, <1>6, <1>7, <1>8, <1>9 DEF IInv

LEMMA FindModelKeeps ==
  ASSUME IInv, NEW p \in Players, FindModel(p)
  PROVE  IInv'
<1> USE DEF managed, dataVars, loopVars, mainVars
<1>1. /\ at[p] = "finished" /\ at' = [at EXCEPT ![p] = "pushing"]
      /\ UNCHANGED <<managed, dataVars, loopVars, nnEval, newNNEval, game, bots, numGamesStarted,
                     finished, mainVars>>
  BY DEF FindModel, Become
<1>2. /\ \A q \in Players : q # p => at'[q] = at[q]
      /\ at'[p] = "pushing"
  BY <1>1 DEF IInv, TypeOK
<1>3. TypeOK'
  BY <1>1 DEF IInv, TypeOK
<1>4. CountInv' /\ TrackInv'
  BY <1>1, QuietKeeps DEF IInv, Holding
<1>5. UseInv'
  BY <1>1, <1>2 DEF IInv, UseInv, Holding
<1>6. LoopInv'
  BY <1>1 DEF IInv, LoopInv, Active
<1>7. GameInv'
  BY <1>1, <1>2 DEF IInv, GameInv, OnItsWay, InQueue
<1> QED BY <1>3, <1>4, <1>5, <1>6, <1>7 DEF IInv

LEMMA WaitPushKeeps ==
  ASSUME IInv, NEW p \in Players, WaitPush(p)
  PROVE  IInv'
<1> USE DEF managed, dataVars, loopVars, mainVars
<1>1. /\ at[p] = "pushing" /\ at' = [at EXCEPT ![p] = "pushed"]
      /\ UNCHANGED <<managed, readOnly, loopVars, nnEval, newNNEval, game, bots, numGamesStarted,
                     finished, mainVars>>
  BY DEF WaitPush, Become
<1>2. /\ \A q \in Players : q # p => at'[q] = at[q]
      /\ at'[p] = "pushed"
  BY <1>1 DEF IInv, TypeOK
<1>3. PICK m \in Models : m = nnEval[p] /\ m <= loaded /\ ~readOnly[m] /\ loop[m] = "popping"
  <2>1. nnEval[p] \in modelDatas
    BY <1>1 DEF IInv, UseInv, Holding
  <2>2. nnEval[p] \in Models /\ nnEval[p] <= loaded /\ ~readOnly[nnEval[p]]
    BY <2>1 DEF IInv, TypeOK, TrackInv
  <2> QED BY <2>2 DEF IInv, LoopInv
<1>4. game[p] \in Games /\ Append(finishedGameQueue[m], game[p]) \in Seq(Games)
  BY <1>1 DEF IInv, TypeOK, GameInv
<1>5. finishedGameQueue' = [finishedGameQueue EXCEPT ![m] = Append(@, game[p])]
  BY <1>3 DEF WaitPush
<1>6. TypeOK'
  BY <1>1, <1>4, <1>5 DEF IInv, TypeOK
<1>7. CountInv' /\ TrackInv'
  BY <1>1, QuietKeeps DEF IInv, Holding
<1>8. UseInv'
  BY <1>1, <1>2 DEF IInv, UseInv, Holding
<1>9. LoopInv'
  BY <1>1, <1>3, <1>5 DEF IInv, TypeOK, LoopInv, Active
<1>10. GameInv'
  <2>1. InQueue(m)' = InQueue(m) \cup {game[p]}
    <3>1. finishedGameQueue'[m] = Append(finishedGameQueue[m], game[p])
      BY <1>5 DEF IInv, TypeOK
    <3>2. finishedGameQueue[m] \in Seq(Games)
      BY DEF IInv, TypeOK
    <3> DEFINE q == finishedGameQueue[m]
               g == game[p]
               pushed == Append(q, g)
    <3>3. InQueue(m) = {q[i] : i \in 1 .. Len(q)}
      BY DEF InQueue
    <3>4. InQueue(m)' = {finishedGameQueue'[m][i] : i \in 1 .. Len(finishedGameQueue'[m])}
      BY DEF InQueue
    <3>5. {pushed[i] : i \in 1 .. Len(pushed)} = {q[i] : i \in 1 .. Len(q)} \cup {g}
      BY <1>4, <3>2, PushAdds
    <3> HIDE DEF q, pushed
    <3>6. InQueue(m)' = {pushed[i] : i \in 1 .. Len(pushed)}
      BY <3>1, <3>4 DEF pushed, q
    <3> QED BY <3>3, <3>5, <3>6
  <2>2. \A k \in Models : k # m => InQueue(k)' = InQueue(k)
    BY <1>5 DEF IInv, TypeOK, InQueue
  <2>3. \A k \in Models : InQueue(k) \subseteq InQueue(k)'
    BY <2>1, <2>2
  <2>4. ASSUME NEW g \in finished PROVE OnItsWay(g)'
    <3>1. CASE g \in stored
      BY <1>1, <3>1 DEF OnItsWay
    <3>2. CASE \E k \in Models : g \in InQueue(k) \cup unflushed[k]
      BY <1>1, <2>3, <3>2 DEF OnItsWay
    <3>3. CASE g = game[p]
      BY <1>3, <2>1, <3>3 DEF OnItsWay
    <3>4. CASE \E q \in Players : q # p /\ game[q] = g /\ at[q] \in {"finished", "pushing"}
      BY <1>1, <1>2, <3>4 DEF OnItsWay
    <3> QED BY <3>1, <3>2, <3>3, <3>4 DEF IInv, GameInv, OnItsWay
  <2> QED BY <1>1, <1>2, <2>4 DEF IInv, GameInv
<1> QED BY <1>6, <1>7, <1>8, <1>9, <1>10 DEF IInv

-----------------------------------------------------------------------------
(* Steps of a game thread that call the manager.                           *)

\* A thread that has not left finds the manager at work.
LEMMA ManagerIsThere ==
  ASSUME TypeOK, TrackInv, NEW p \in Players, at[p] # "exited"
  PROVE  /\ main = "joining" /\ loaded \in modelDatas /\ loaded \in Models
         /\ modelDatas \in SUBSET (1 .. loaded) /\ Latest(modelDatas) = loaded
<1>1. main = "joining" /\ loaded \in modelDatas /\ modelDatas \in SUBSET (1 .. loaded)
  BY DEF TrackInv
<1>2. loaded \in Models /\ loaded \in Nat
  BY DEF TypeOK
<1> QED BY <1>1, <1>2, LatestIs

\* What a release does to a net that has been acquired.
LEMMA ReleaseEffect ==
  ASSUME TypeOK, TrackInv, loaded \in modelDatas, NEW n \in modelDatas, acquireCount[n] > 0,
         Release(n)
  PROVE  /\ acquireCount' = [acquireCount EXCEPT ![n] = @ - 1]
         /\ acquireCount' \in [Models -> Nat]
         /\ modelDatas' = {m \in modelDatas : m = loaded \/ acquireCount'[m] > 0}
         /\ readOnly' \in [Models -> BOOLEAN]
         /\ \A m \in Models : readOnly'[m] <=> readOnly[m] \/ (m \in modelDatas /\ m \notin modelDatas')
         /\ UNCHANGED <<loaded, numDataWriteLoopsActive>>
<1>1. n \in Models /\ Released(n) \in [Models -> Nat] /\ loaded \in Models
  BY DEF TypeOK, Released
<1>2. TrackUsed(modelDatas, Released(n)) /\ UNCHANGED <<loaded, numDataWriteLoopsActive>>
  BY DEF Release
<1>3. modelDatas \in SUBSET (1 .. loaded)
  BY DEF TrackInv
<1>4. /\ modelDatas' = {m \in modelDatas : m = loaded \/ Released(n)[m] > 0}
      /\ acquireCount' = Released(n)
      /\ readOnly' \in [Models -> BOOLEAN]
      /\ \A m \in Models : readOnly'[m] <=> readOnly[m] \/ (m \in modelDatas /\ m # loaded /\ Released(n)[m] = 0)
  BY <1>1, <1>2, <1>3, Tracked
<1>5. \A m \in Models : Released(n)[m] = 0 <=> ~(Released(n)[m] > 0)
  BY <1>1
<1>6. \A m \in Models : m # loaded /\ m \in modelDatas =>
        (Released(n)[m] = 0 <=> m \notin modelDatas')
  BY <1>4, <1>5
<1>7. \A m \in Models : m = loaded => m \in modelDatas'
  BY <1>4
<1>8. \A m \in Models : readOnly'[m] <=> readOnly[m] \/ (m \in modelDatas /\ m \notin modelDatas')
  BY <1>4, <1>6, <1>7
<1> QED BY <1>1, <1>2, <1>4, <1>8 DEF Released

\* The manager's part of the invariant after a release by thread p.
LEMMA LetGoKeeps ==
  ASSUME TypeOK, TrackInv, LoopInv, NEW p \in Players, at[p] # "exited", UNCHANGED <<loaded, main, loader>>,
         acquireCount' \in [Models -> Nat],
         modelDatas' = {m \in modelDatas : m = loaded \/ acquireCount'[m] > 0},
         \A m \in Models : readOnly'[m] <=> readOnly[m] \/ (m \in modelDatas /\ m \notin modelDatas')
  PROVE  TrackInv'
<1>1. main = "joining" /\ loaded \in modelDatas
  BY ManagerIsThere
<1>2. modelDatas' \subseteq modelDatas /\ modelDatas \subseteq 1 .. loaded /\ loaded \in Models
  BY DEF TypeOK, TrackInv
<1>3. \A m \in 1 .. loaded : m \in modelDatas' <=> ~readOnly'[m]
  BY SMTT(30), <1>2 DEF TypeOK, TrackInv
<1>4. \A m \in Models : m > loaded => ~readOnly'[m]
  BY SMTT(30), <1>2 DEF TypeOK, TrackInv
<1> QED BY <1>1, <1>2, <1>3, <1>4 DEF TrackInv

\* The loops go on as they were, though their queues may now be read-only.
LEMMA LoopsGoOn ==
  ASSUME TypeOK, LoopInv, \A m \in Models : readOnly[m] => readOnly'[m],
         UNCHANGED <<loaded, numDataWriteLoopsActive, finishedGameQueue, loopVars, main>>
  PROVE  LoopInv'
BY DEF LoopInv, Active, loopVars

LEMMA AcquireLatestKeeps ==
  ASSUME IInv, NEW p \in Players, AcquireLatest(p)
  PROVE  IInv'
<1> USE DEF managed, dataVars, loopVars, mainVars
<1>1. at[p] = "idle" /\ at' = [at EXCEPT ![p] = "acquired"]
  BY DEF AcquireLatest, Become
<1>2. PICK n \in modelDatas : main = "joining" /\ n = loaded /\ n \in Models /\ Latest(modelDatas) = n
  BY <1>1, ManagerIsThere DEF IInv
<1>3. /\ nnEval' = [nnEval EXCEPT ![p] = n]
      /\ acquireCount' = [acquireCount EXCEPT ![n] = @ + 1]
      /\ UNCHANGED <<loaded, modelDatas, numDataWriteLoopsActive, dataVars, loopVars, newNNEval, game,
                     bots, numGamesStarted, finished, mainVars>>
  BY <1>2 DEF AcquireLatest, Acquired
<1>4. /\ \A q \in Players : q # p => at'[q] = at[q] /\ nnEval'[q] = nnEval[q]
      /\ at'[p] = "acquired" /\ nnEval'[p] = n
  BY <1>1, <1>3 DEF IInv, TypeOK
<1>5. /\ acquireCount' \in [Models -> Nat]
      /\ \A m \in Models : acquireCount'[m] = IF m = n THEN acquireCount[m] + 1 ELSE acquireCount[m]
  BY <1>2, <1>3 DEF IInv, TypeOK
<1>6. TypeOK'
  BY <1>1, <1>2, <1>3, <1>5 DEF IInv, TypeOK
<1>7. CountInv'
  <2>1. \A m \in Models : Checkers(m)' = Checkers(m)
    BY <1>1, <1>3, <1>4 DEF Checkers
  <2>2. \A m \in Models : m # n => Users(m)' = Users(m)
    BY <1>1, <1>4 DEF Users, Holding
  <2>3. p \notin Users(n) /\ Users(n)' = Users(n) \cup {p}
    BY <1>1, <1>3, <1>4 DEF Users, Holding
  <2>4. Cardinality(Users(n)') = Cardinality(Users(n)) + 1
    BY <2>3, AddOne, ReferrersAreFinite
  <2>5. \A m \in Models : Cardinality(Users(m)) \in Nat /\ Cardinality(Checkers(m)) \in Nat
    BY ReferrersAreFinite
  <2>6. \A m \in Models : acquireCount[m] = Cardinality(Users(m)) + Cardinality(Checkers(m))
    BY DEF IInv, CountInv
  <2>7. acquireCount'[n] = Cardinality(Users(n)') + Cardinality(Checkers(n)')
    <3>1. acquireCount'[n] = acquireCount[n] + 1
      BY <1>2, <1>5
    <3>2. acquireCount[n] = Cardinality(Users(n)) + Cardinality(Checkers(n))
      BY <1>2, <2>6
    <3>3. Checkers(n)' = Checkers(n) /\ Cardinality(Users(n)') = Cardinality(Users(n)) + 1
      BY <1>2, <2>1, <2>4
    <3>4. Cardinality(Users(n)) \in Nat /\ Cardinality(Checkers(n)) \in Nat
      BY <1>2, <2>5
    <3> QED BY <3>1, <3>2, <3>3, <3>4
  <2>8. \A m \in Models : m # n =>
          acquireCount'[m] = Cardinality(Users(m)') + Cardinality(Checkers(m)')
    BY <1>5, <2>1, <2>2, <2>6
  <2> QED BY <2>7, <2>8 DEF CountInv
<1>8. TrackInv'
  BY <1>2, <1>3, <1>5 DEF IInv, TypeOK, TrackInv
<1>9. UseInv'
  BY <1>2, <1>3, <1>4 DEF IInv, UseInv, Holding
<1>10. LoopInv'
  BY <1>3 DEF IInv, LoopInv, Active
<1>11. GameInv'
  BY <1>1, <1>3, <1>4 DEF IInv, GameInv, OnItsWay, InQueue
<1> QED BY <1>6, <1>7, <1>8, <1>9, <1>10, <1>11 DEF IInv

LEMMA CheckForNewNNEvalKeeps ==
  ASSUME IInv, NEW p \in Players, CheckForNewNNEval(p)
  PROVE  IInv'
<1> USE DEF managed, dataVars, loopVars, mainVars
<1>1. at[p] = "playing" /\ at' = [at EXCEPT ![p] = "checking"]
  BY DEF CheckForNewNNEval, Become
<1>2. PICK n \in modelDatas : main = "joining" /\ n = loaded /\ n \in Models /\ Latest(modelDatas) = n
  BY <1>1, ManagerIsThere DEF IInv
<1>3. /\ newNNEval' = [newNNEval EXCEPT ![p] = n]
      /\ acquireCount' = [acquireCount EXCEPT ![n] = @ + 1]
      /\ UNCHANGED <<loaded, modelDatas, numDataWriteLoopsActive, dataVars, loopVars, nnEval, game,
                     bots, numGamesStarted, finished, mainVars>>
  BY <1>2 DEF CheckForNewNNEval, Acquired
<1>4. /\ \A q \in Players : q # p => at'[q] = at[q] /\ newNNEval'[q] = newNNEval[q]
      /\ at'[p] = "checking" /\ newNNEval'[p] = n
  BY <1>1, <1>3 DEF IInv, TypeOK
<1>5. /\ acquireCount' \in [Models -> Nat]
      /\ \A m \in Models : acquireCount'[m] = IF m = n THEN acquireCount[m] + 1 ELSE acquireCount[m]
  BY <1>2, <1>3 DEF IInv, TypeOK
<1>6. TypeOK'
  BY <1>1, <1>2, <1>3, <1>5 DEF IInv, TypeOK
<1>7. CountInv'
  <2>1. \A m \in Models : Users(m)' = Users(m)
    BY <1>1, <1>3, <1>4 DEF Users, Holding
  <2>2. \A m \in Models : m # n => Checkers(m)' = Checkers(m)
    BY <1>1, <1>4 DEF Checkers
  <2>3. p \notin Checkers(n) /\ Checkers(n)' = Checkers(n) \cup {p}
    BY <1>1, <1>3, <1>4 DEF Checkers
  <2>4. Cardinality(Checkers(n)') = Cardinality(Checkers(n)) + 1
    BY <2>3, AddOne, ReferrersAreFinite
  <2>5. \A m \in Models : Cardinality(Users(m)) \in Nat /\ Cardinality(Checkers(m)) \in Nat
    BY ReferrersAreFinite
  <2>6. \A m \in Models : acquireCount[m] = Cardinality(Users(m)) + Cardinality(Checkers(m))
    BY DEF IInv, CountInv
  <2>7. acquireCount'[n] = Cardinality(Users(n)') + Cardinality(Checkers(n)')
    <3>1. acquireCount'[n] = acquireCount[n] + 1
      BY <1>2, <1>5
    <3>2. acquireCount[n] = Cardinality(Users(n)) + Cardinality(Checkers(n))
      BY <1>2, <2>6
    <3>3. Users(n)' = Users(n) /\ Cardinality(Checkers(n)') = Cardinality(Checkers(n)) + 1
      BY <1>2, <2>1, <2>4
    <3>4. Cardinality(Users(n)) \in Nat /\ Cardinality(Checkers(n)) \in Nat
      BY <1>2, <2>5
    <3> QED BY <3>1, <3>2, <3>3, <3>4
  <2>8. \A m \in Models : m # n =>
          acquireCount'[m] = Cardinality(Users(m)') + Cardinality(Checkers(m)')
    BY <1>5, <2>1, <2>2, <2>6
  <2> QED BY <2>7, <2>8 DEF CountInv
<1>8. TrackInv'
  BY <1>2, <1>3, <1>5 DEF IInv, TypeOK, TrackInv
<1>9. UseInv'
  BY <1>1, <1>2, <1>3, <1>4 DEF IInv, UseInv, Holding
<1>10. LoopInv'
  BY <1>3 DEF IInv, LoopInv, Active
<1>11. GameInv'
  BY <1>1, <1>3, <1>4 DEF IInv, GameInv, OnItsWay, InQueue
<1> QED BY <1>6, <1>7, <1>8, <1>9, <1>10, <1>11 DEF IInv

LEMMA KeepNNEvalKeeps ==
  ASSUME IInv, NEW p \in Players, KeepNNEval(p)
  PROVE  IInv'
<1> USE DEF mainVars, loopVars
<1>1. /\ at[p] = "checking" /\ at' = [at EXCEPT ![p] = "playing"]
      /\ UNCHANGED <<finishedGameQueue, loopVars, nnEval, newNNEval, game, bots, numGamesStarted,
                     finished, mainVars>>
  BY DEF KeepNNEval, Become
<1>2. main = "joining" /\ loaded \in modelDatas
  BY <1>1, ManagerIsThere DEF IInv
<1>3. PICK n \in modelDatas : n = newNNEval[p] /\ n = nnEval[p] /\ Release(n)
  BY <1>1 DEF IInv, UseInv, KeepNNEval
<1>4. n \in Models /\ p \in Checkers(n)
  BY <1>1, <1>3 DEF IInv, TypeOK, Checkers
<1>5. acquireCount[n] > 0
  BY <1>4, UsedIsAcquired DEF IInv
<1>6. /\ acquireCount' = [acquireCount EXCEPT ![n] = @ - 1]
      /\ acquireCount' \in [Models -> Nat]
      /\ modelDatas' = {m \in modelDatas : m = loaded \/ acquireCount'[m] > 0}
      /\ readOnly' \in [Models -> BOOLEAN]
      /\ \A m \in Models : readOnly'[m] <=> readOnly[m] \/ (m \in modelDatas /\ m \notin modelDatas')
      /\ UNCHANGED <<loaded, numDataWriteLoopsActive>>
  BY <1>2, <1>3, <1>5, ReleaseEffect DEF IInv
<1>7. /\ \A q \in Players : q # p => at'[q] = at[q]
      /\ at'[p] = "playing"
  BY <1>1 DEF IInv, TypeOK
<1>8. TypeOK'
  <2>1. modelDatas' \in SUBSET Models
    BY <1>6 DEF IInv, TypeOK
  <2> QED BY <1>1, <1>6, <2>1 DEF IInv, TypeOK
<1>9. CountInv'
  <2>1. \A m \in Models : Users(m)' = Users(m)
    BY <1>1, <1>7 DEF Users, Holding
  <2>2. \A m \in Models : m # n => Checkers(m)' = Checkers(m)
    BY <1>1, <1>3, <1>7 DEF Checkers
  <2>3. Checkers(n)' = Checkers(n) \ {p}
    BY <1>1, <1>3, <1>7 DEF Checkers
  <2>4. Cardinality(Checkers(n)') = Cardinality(Checkers(n)) - 1
    BY <1>4, <2>3, RemoveOne, ReferrersAreFinite
  <2>5. \A m \in Models : Cardinality(Users(m)) \in Nat /\ Cardinality(Checkers(m)) \in Nat
    BY ReferrersAreFinite
  <2>6. \A m \in Models : acquireCount'[m] = IF m = n THEN acquireCount[m] - 1 ELSE acquireCount[m]
    BY <1>4, <1>6 DEF IInv, TypeOK
  <2> QED BY <1>4, <2>1, <2>2, <2>4, <2>5, <2>6 DEF IInv, CountInv
<1>10. TrackInv'
  BY <1>1, <1>6, LetGoKeeps DEF IInv
<1>11. UseInv'
  <2>1. ASSUME NEW q \in Players, at'[q] \in Holding PROVE nnEval'[q] \in modelDatas'
    <3>1. nnEval[q] \in modelDatas /\ nnEval[q] \in Models /\ q \in Users(nnEval[q])'
      BY <1>1, <1>7, <2>1 DEF IInv, TypeOK, UseInv, Users, Holding
    <3> QED BY <1>1, <1>6, <1>9, <3>1, UsedIsAcquiredNext
  <2>2. ASSUME NEW q \in Players, at'[q] = "checking" PROVE newNNEval'[q] \in modelDatas'
    <3>1. newNNEval[q] \in modelDatas /\ newNNEval[q] \in Models /\ q \in Checkers(newNNEval[q])'
      BY <1>1, <1>7, <2>2 DEF IInv, TypeOK, UseInv, Checkers
    <3> QED BY <1>1, <1>6, <1>9, <3>1, UsedIsAcquiredNext
  <2> QED BY <1>1, <1>7, <2>1, <2>2 DEF IInv, UseInv
<1>12. LoopInv'
  BY <1>1, <1>6, LoopsGoOn DEF IInv
<1>13. GameInv'
  BY <1>1, <1>7 DEF IInv, GameInv, OnItsWay, InQueue
<1> QED BY <1>8, <1>9, <1>10, <1>11, <1>12, <1>13 DEF IInv

LEMMA ChangeNNEvalKeeps ==
  ASSUME IInv, NEW p \in Players, ChangeNNEval(p)
  PROVE  IInv'
<1> USE DEF mainVars, loopVars
<1>1. /\ at[p] = "checking" /\ at' = [at EXCEPT ![p] = "changing"]
      /\ nnEval' = [nnEval EXCEPT ![p] = newNNEval[p]]
      /\ UNCHANGED <<finishedGameQueue, loopVars, newNNEval, game, bots, numGamesStarted,
                     finished, mainVars>>
  BY DEF ChangeNNEval, Become
<1>2. main = "joining" /\ loaded \in modelDatas
  BY <1>1, ManagerIsThere DEF IInv
<1>3. PICK n \in modelDatas, k \in modelDatas :
        n = nnEval[p] /\ k = newNNEval[p] /\ n # k /\ Release(n)
  BY <1>1 DEF IInv, UseInv, Holding, ChangeNNEval
<1>4. n \in Models /\ k \in Models /\ p \in Users(n) /\ p \in Checkers(k) /\ p \notin Users(k)
  BY <1>1, <1>3 DEF IInv, TypeOK, Users, Checkers, Holding
<1>5. acquireCount[n] > 0
  BY <1>4, UsedIsAcquired DEF IInv
<1>6. /\ acquireCount' = [acquireCount EXCEPT ![n] = @ - 1]
      /\ acquireCount' \in [Models -> Nat]
      /\ modelDatas' = {m \in modelDatas : m = loaded \/ acquireCount'[m] > 0}
      /\ readOnly' \in [Models -> BOOLEAN]
      /\ \A m \in Models : readOnly'[m] <=> readOnly[m] \/ (m \in modelDatas /\ m \notin modelDatas')
      /\ UNCHANGED <<loaded, numDataWriteLoopsActive>>
  BY <1>2, <1>3, <1>5, ReleaseEffect DEF IInv
<1>7. /\ \A q \in Players : q # p => at'[q] = at[q] /\ nnEval'[q] = nnEval[q]
      /\ at'[p] = "changing" /\ nnEval'[p] = k
  BY <1>1, <1>3 DEF IInv, TypeOK
<1>8. TypeOK'
  <2>1. modelDatas' \in SUBSET Models
    BY <1>6 DEF IInv, TypeOK
  <2>2. nnEval' \in [Players -> {0} \cup Models]
    BY <1>1, <1>3, <1>4 DEF IInv, TypeOK
  <2> QED BY <1>1, <1>6, <2>1, <2>2 DEF IInv, TypeOK
<1>9. CountInv'
  <2>1. \A m \in Models : m # n /\ m # k => Users(m)' = Users(m)
    BY <1>1, <1>3, <1>7 DEF Users, Holding
  <2>2. \A m \in Models : m # k => Checkers(m)' = Checkers(m)
    BY <1>1, <1>3, <1>7 DEF Checkers
  <2>3. Users(n)' = Users(n) \ {p}
    BY <1>3, <1>7 DEF Users, Holding
  <2>4. Users(k)' = Users(k) \cup {p}
    BY <1>7 DEF Users, Holding
  <2>5. Checkers(k)' = Checkers(k) \ {p}
    BY <1>1, <1>3, <1>7 DEF Checkers
  <2>6. Cardinality(Users(n)') = Cardinality(Users(n)) - 1
    BY <1>4, <2>3, RemoveOne, ReferrersAreFinite
  <2>7. Cardinality(Users(k)') = Cardinality(Users(k)) + 1
    BY <1>4, <2>4, AddOne, ReferrersAreFinite
  <2>8. Cardinality(Checkers(k)') = Cardinality(Checkers(k)) - 1
    BY <1>4, <2>5, RemoveOne, ReferrersAreFinite
  <2>9. \A m \in Models : /\ Cardinality(Users(m)) \in Nat /\ Cardinality(Checkers(m)) \in Nat
                          /\ acquireCount[m] = Cardinality(Users(m)) + Cardinality(Checkers(m))
    BY ReferrersAreFinite DEF IInv, CountInv
  <2>10. \A m \in Models : acquireCount'[m] = IF m = n THEN acquireCount[m] - 1 ELSE acquireCount[m]
    BY <1>4, <1>6 DEF IInv, TypeOK
  <2>11. acquireCount'[n] = Cardinality(Users(n)') + Cardinality(Checkers(n)')
    <3>1. acquireCount'[n] = acquireCount[n] - 1 /\ Checkers(n)' = Checkers(n)
      BY <1>3, <1>4, <2>2, <2>10
    <3> QED BY <1>4, <2>6, <2>9, <3>1
  <2>12. acquireCount'[k] = Cardinality(Users(k)') + Cardinality(Checkers(k)')
    <3>1. acquireCount'[k] = acquireCount[k]
      BY <1>3, <1>4, <2>10
    <3> QED BY <1>4, <2>7, <2>8, <2>9, <3>1
  <2>13. \A m \in Models : m # n /\ m # k =>
           acquireCount'[m] = Cardinality(Users(m)') + Cardinality(Checkers(m)')
    BY <2>1, <2>2, <2>9, <2>10
  <2> QED BY <2>11, <2>12, <2>13 DEF CountInv
<1>10. TrackInv'
  BY <1>1, <1>6, LetGoKeeps DEF IInv
<1>11. UseInv'
  <2>1. ASSUME NEW q \in Players, at'[q] \in Holding PROVE nnEval'[q] \in modelDatas'
    <3>1. PICK m \in modelDatas : m \in Models /\ nnEval'[q] = m /\ q \in Users(m)'
      BY <1>4, <1>7, <2>1 DEF IInv, TypeOK, UseInv, Users, Holding
    <3> QED BY <1>6, <1>9, <3>1, UsedIsAcquiredNext
  <2>2. ASSUME NEW q \in Players, at'[q] = "checking" PROVE newNNEval'[q] \in modelDatas'
    <3>1. newNNEval[q] \in modelDatas /\ newNNEval[q] \in Models /\ q \in Checkers(newNNEval[q])'
      BY <1>1, <1>7, <2>2 DEF IInv, TypeOK, UseInv, Checkers
    <3> QED BY <1>1, <1>6, <1>9, <3>1, UsedIsAcquiredNext
  <2> QED BY <1>1, <1>7, <2>1, <2>2 DEF IInv, UseInv
<1>12. LoopInv'
  BY <1>1, <1>6, LoopsGoOn DEF IInv
<1>13. GameInv'
  BY <1>1, <1>7 DEF IInv, GameInv, OnItsWay, InQueue
<1> QED BY <1>8, <1>9, <1>10, <1>11, <1>12, <1>13 DEF IInv

LEMMA ReleaseNNEvalKeeps ==
  ASSUME IInv, NEW p \in Players, ReleaseNNEval(p)
  PROVE  IInv'
<1> USE DEF mainVars, loopVars
<1>1. /\ at[p] \in {"pushed", "stopping"}
      /\ at' = [at EXCEPT ![p] = IF at[p] = "stopping" THEN "exited" ELSE "idle"]
      /\ UNCHANGED <<finishedGameQueue, loopVars, nnEval, newNNEval, game, bots, numGamesStarted,
                     finished, mainVars>>
  BY DEF ReleaseNNEval, Become
<1>2. main = "joining" /\ loaded \in modelDatas
  BY <1>1, ManagerIsThere DEF IInv
<1>3. PICK n \in modelDatas : n = nnEval[p] /\ Release(n)
  BY <1>1 DEF IInv, UseInv, Holding, ReleaseNNEval
<1>4. n \in Models /\ p \in Users(n)
  BY <1>1, <1>3 DEF IInv, TypeOK, Users, Holding
<1>5. acquireCount[n] > 0
  BY <1>4, UsedIsAcquired DEF IInv
<1>6. /\ acquireCount' = [acquireCount EXCEPT ![n] = @ - 1]
      /\ acquireCount' \in [Models -> Nat]
      /\ modelDatas' = {m \in modelDatas : m = loaded \/ acquireCount'[m] > 0}
      /\ readOnly' \in [Models -> BOOLEAN]
      /\ \A m \in Models : readOnly'[m] <=> readOnly[m] \/ (m \in modelDatas /\ m \notin modelDatas')
      /\ UNCHANGED <<loaded, numDataWriteLoopsActive>>
  BY <1>2, <1>3, <1>5, ReleaseEffect DEF IInv
<1>7. /\ \A q \in Players : q # p => at'[q] = at[q]
      /\ at'[p] \in {"exited", "idle"}
  BY <1>1 DEF IInv, TypeOK
<1>8. TypeOK'
  <2>1. modelDatas' \in SUBSET Models
    BY <1>6 DEF IInv, TypeOK
  <2> QED BY <1>1, <1>6, <2>1 DEF IInv, TypeOK
<1>9. CountInv'
  <2>1. \A m \in Models : Checkers(m)' = Checkers(m)
    BY <1>1, <1>7 DEF Checkers
  <2>2. \A m \in Models : m # n => Users(m)' = Users(m)
    BY <1>1, <1>3, <1>7 DEF Users, Holding
  <2>3. Users(n)' = Users(n) \ {p}
    BY <1>1, <1>3, <1>7 DEF Users, Holding
  <2>4. Cardinality(Users(n)') = Cardinality(Users(n)) - 1
    BY <1>4, <2>3, RemoveOne, ReferrersAreFinite
  <2>5. \A m \in Models : Cardinality(Users(m)) \in Nat /\ Cardinality(Checkers(m)) \in Nat
    BY ReferrersAreFinite
  <2>6. \A m \in Models : acquireCount'[m] = IF m = n THEN acquireCount[m] - 1 ELSE acquireCount[m]
    BY <1>4, <1>6 DEF IInv, TypeOK
  <2> QED BY <1>4, <2>1, <2>2, <2>4, <2>5, <2>6 DEF IInv, CountInv
<1>10. TrackInv'
  BY <1>1, <1>6, LetGoKeeps DEF IInv
<1>11. UseInv'
  <2>1. ASSUME NEW q \in Players, at'[q] \in Holding PROVE nnEval'[q] \in modelDatas'
    <3>1. nnEval[q] \in modelDatas /\ nnEval[q] \in Models /\ q \in Users(nnEval[q])'
      BY <1>1, <1>7, <2>1 DEF IInv, TypeOK, UseInv, Users, Holding
    <3> QED BY <1>1, <1>6, <1>9, <3>1, UsedIsAcquiredNext
  <2>2. ASSUME NEW q \in Players, at'[q] = "checking" PROVE newNNEval'[q] \in modelDatas'
    <3>1. newNNEval[q] \in modelDatas /\ newNNEval[q] \in Models /\ q \in Checkers(newNNEval[q])'
      BY <1>1, <1>7, <2>2 DEF IInv, TypeOK, UseInv, Checkers
    <3> QED BY <1>1, <1>6, <1>9, <3>1, UsedIsAcquiredNext
  <2> QED BY <1>1, <1>7, <2>1, <2>2 DEF IInv, UseInv
<1>12. LoopInv'
  BY <1>1, <1>6, LoopsGoOn DEF IInv
<1>13. GameInv'
  BY <1>1, <1>7 DEF IInv, GameInv, OnItsWay, InQueue
<1> QED BY <1>8, <1>9, <1>10, <1>11, <1>12, <1>13 DEF IInv

-----------------------------------------------------------------------------
(* A new net.                                                              *)

LEMMA LoadModelKeeps ==
  ASSUME IInv, LoadModel
  PROVE  IInv'
<1> USE DEF mainVars, playerVars
<1> DEFINE n == loaded + 1
           S == modelDatas \cup {n}
<1>1. /\ loader = "polling" /\ loaded < MaxModels /\ loaded' = n /\ TrackUsed(S, acquireCount)
      /\ numDataWriteLoopsActive' = numDataWriteLoopsActive + 1
      /\ loop' = [loop EXCEPT ![n] = "popping"]
      /\ UNCHANGED <<finishedGameQueue, unflushed, stored, deleted, playerVars, mainVars>>
  BY DEF LoadModel
<1>2. /\ n \in Models /\ S \in SUBSET (1 .. n) /\ main \in {"joining", "joiningLoader"}
      /\ acquireCount \in [Models -> Nat] /\ loaded \in Nat
  BY <1>1 DEF IInv, TypeOK, TrackInv
<1>3. /\ modelDatas' = {m \in S : m = n \/ acquireCount[m] > 0}
      /\ acquireCount' = acquireCount /\ readOnly' \in [Models -> BOOLEAN]
      /\ \A m \in Models : readOnly'[m] <=> readOnly[m] \/ (m \in S /\ m # n /\ acquireCount[m] = 0)
  <2>1. TypeOK /\ n \in S
    BY DEF IInv
  <2> HIDE DEF n, S
  <2> QED BY SMTT(30), <1>1, <1>2, <2>1, Tracked
<1>4. /\ \A m \in Models : m # n => loop'[m] = loop[m]
      /\ loop'[n] = "popping" /\ loop[n] = "none"
  BY <1>1, <1>2 DEF IInv, TypeOK, LoopInv
<1>5. TypeOK'
  <2>1. modelDatas' \in SUBSET Models
    BY <1>2, <1>3 DEF IInv, TypeOK
  <2>2. loop' \in [Models -> {"none", "popping", "ended", "flushed", "deleted"}]
    BY <1>1 DEF IInv, TypeOK
  <2>3. loaded' \in Models /\ numDataWriteLoopsActive' \in Nat
    BY <1>1, <1>2 DEF IInv, TypeOK
  <2> QED BY <1>1, <1>2, <1>3, <2>1, <2>2, <2>3 DEF IInv, TypeOK
<1>6. CountInv'
  <2>1. \A m \in Models : Users(m)' = Users(m) /\ Checkers(m)' = Checkers(m)
    BY <1>1 DEF Users, Checkers
  <2> QED BY <1>3, <2>1 DEF IInv, CountInv
<1>7. TrackInv'
  <2>1. \A m \in Models : m \in 1 .. n <=> m \in 1 .. loaded \/ m = n
    BY <1>2
  <2>2. \A m \in 1 .. loaded : m \in Models /\ m # n /\ (acquireCount[m] = 0 <=> ~(acquireCount[m] > 0))
    BY <1>2
  <2>3. \A m \in 1 .. loaded : m \in modelDatas' <=> ~readOnly'[m]
    BY <1>3, <2>2 DEF IInv, TrackInv
  <2>4. n \in modelDatas' /\ ~readOnly'[n]
    BY <1>2, <1>3 DEF IInv, TrackInv
  <2>5. \A m \in Models : m > n => ~readOnly'[m]
    BY <1>2, <1>3 DEF IInv, TrackInv
  <2>6. modelDatas' \subseteq 1 .. n /\ \A m \in modelDatas' : m = n \/ acquireCount'[m] > 0
    BY <1>2, <1>3
  <2>7. \A m \in 1 .. n : m \in modelDatas' <=> ~readOnly'[m]
    BY <1>2, <2>3, <2>4
  <2> QED BY <1>1, <1>2, <2>4, <2>5, <2>6, <2>7 DEF IInv, TrackInv
<1>8. UseInv'
  <2>1. ASSUME NEW q \in Players, at[q] \in Holding PROVE nnEval[q] \in modelDatas'
    <3>1. nnEval[q] \in modelDatas /\ nnEval[q] \in Models /\ q \in Users(nnEval[q])
      BY <2>1 DEF IInv, TypeOK, UseInv, Users
    <3> QED BY <1>3, <3>1, UsedIsAcquired DEF IInv
  <2>2. ASSUME NEW q \in Players, at[q] = "checking" PROVE newNNEval[q] \in modelDatas'
    <3>1. newNNEval[q] \in modelDatas /\ newNNEval[q] \in Models /\ q \in Checkers(newNNEval[q])
      BY <2>2 DEF IInv, TypeOK, UseInv, Checkers
    <3> QED BY <1>3, <3>1, UsedIsAcquired DEF IInv
  <2> QED BY <1>1, <2>1, <2>2 DEF IInv, UseInv
<1>9. LoopInv'
  <2>1. Active' = Active \cup {n} /\ n \notin Active
    BY <1>2, <1>4 DEF Active
  <2>2. IsFiniteSet(Active)
    BY ActiveIsFinite
  <2>3. numDataWriteLoopsActive' = Cardinality(Active')
    BY <1>1, <2>1, <2>2, AddOne DEF IInv, LoopInv
  <2>4. ASSUME NEW m \in Models
        PROVE  /\ m > n => loop'[m] = "none" /\ m \notin deleted
               /\ m <= n /\ loop'[m] # "popping" => readOnly'[m]
               /\ loop'[m] # "popping" => finishedGameQueue[m] = <<>>
               /\ loop'[m] \notin {"popping", "ended"} => unflushed[m] = {}
               /\ m \in deleted => loop'[m] \in {"deleted", "none"}
    <3>1. CASE m = n
      BY <1>2, <1>4, <3>1 DEF IInv, LoopInv
    <3>2. CASE m # n
      <4>1. loop'[m] = loop[m] /\ (m > n => m > loaded) /\ (m <= n => m <= loaded)
        BY <1>2, <1>4, <3>2
      <4> QED BY <1>3, <4>1 DEF IInv, LoopInv
    <3> QED BY <3>1, <3>2
  <2> QED BY <1>1, <1>2, <2>3, <2>4 DEF LoopInv
<1>10. GameInv'
  BY <1>1 DEF IInv, GameInv, OnItsWay, InQueue
<1> QED BY <1>5, <1>6, <1>7, <1>8, <1>9, <1>10 DEF IInv

-----------------------------------------------------------------------------
(* The data write loop of a net.                                           *)

\* The loops do not move the games' threads, nor what the manager tracks.
LEMMA LoopStepKeeps ==
  ASSUME TypeOK, CountInv, TrackInv, UseInv,
         UNCHANGED <<loaded, modelDatas, acquireCount, readOnly, playerVars, loader>>,
         \/ main \notin {"joining", "joiningLoader"} /\ main' \notin {"joining", "joiningLoader"}
         \/ main' = main
  PROVE  CountInv' /\ TrackInv' /\ UseInv'
<1> USE DEF playerVars
<1>1. \A m \in Models : Users(m)' = Users(m) /\ Checkers(m)' = Checkers(m)
  BY DEF Users, Checkers
<1>2. CountInv'
  BY <1>1 DEF CountInv
<1>3. TrackInv'
  BY DEF TrackInv
<1>4. UseInv'
  BY DEF UseInv, Holding
<1> QED BY <1>2, <1>3, <1>4

LEMMA WriteGameKeeps ==
  ASSUME IInv, NEW m \in Models, WriteGame(m)
  PROVE  IInv'
<1> USE DEF managed, playerVars, mainVars
<1> DEFINE q == finishedGameQueue[m]
<1>1. /\ loop[m] = "popping" /\ q # <<>>
      /\ unflushed' = [unflushed EXCEPT ![m] = @ \cup {Head(q)}]
      /\ finishedGameQueue' = [finishedGameQueue EXCEPT ![m] = Tail(q)]
      /\ UNCHANGED <<managed, readOnly, loop, stored, deleted, playerVars, mainVars>>
  BY DEF WriteGame
<1>2. q \in Seq(Games) /\ Head(q) \in Games /\ Tail(q) \in Seq(Games)
  BY SMTT(30), <1>1 DEF IInv, TypeOK
<1>3. TypeOK'
  BY <1>1, <1>2 DEF IInv, TypeOK
<1>4. CountInv' /\ TrackInv' /\ UseInv'
  BY <1>1, LoopStepKeeps DEF IInv
<1>5. \A k \in Models : k # m => finishedGameQueue'[k] = finishedGameQueue[k] /\ unflushed'[k] = unflushed[k]
  BY <1>1 DEF IInv, TypeOK
<1>6. LoopInv'
  BY <1>1, <1>5 DEF IInv, LoopInv, Active
<1>7. GameInv'
  <2>1. finishedGameQueue'[m] = Tail(q) /\ unflushed'[m] = unflushed[m] \cup {Head(q)}
    BY <1>1 DEF IInv, TypeOK
  <2>2. InQueue(m) = InQueue(m)' \cup {Head(q)}
    <3> HIDE DEF q
    <3>1. InQueue(m) = {q[i] : i \in 1 .. Len(q)}
      BY DEF InQueue, q
    <3>2. InQueue(m)' = {Tail(q)[i] : i \in 1 .. Len(Tail(q))}
      BY <2>1 DEF InQueue
    <3>3. q # <<>>
      BY <1>1
    <3> QED BY <1>2, <3>1, <3>2, <3>3, PopRemoves
  <2>3. \A k \in Models : InQueue(k) \cup unflushed[k] \subseteq InQueue(k)' \cup unflushed'[k]
    <3>1. \A k \in Models : k # m => InQueue(k)' = InQueue(k)
      BY <1>5 DEF InQueue
    <3> QED BY <1>5, <2>1, <2>2, <3>1
  <2>4. \A g \in finished : OnItsWay(g) => OnItsWay(g)'
    BY <1>1, <2>3 DEF OnItsWay
  <2> QED BY <1>1, <2>4 DEF IInv, GameInv
<1> QED BY <1>3, <1>4, <1>6, <1>7 DEF IInv

\* Games that a writer puts on the disk are still accounted for.
LEMMA StoringKeeps ==
  ASSUME TypeOK, GameInv, NEW m \in Models, stored' = stored \cup unflushed[m],
         unflushed' = [unflushed EXCEPT ![m] = {}], UNCHANGED <<finishedGameQueue, playerVars>>
  PROVE  GameInv' /\ stored' \in SUBSET Games /\ unflushed' \in [Models -> SUBSET Games]
<1> USE DEF playerVars
<1>1. \A k \in Models : k # m => unflushed'[k] = unflushed[k]
  BY DEF TypeOK
<1>2. \A k \in Models : InQueue(k)' = InQueue(k)
  BY DEF InQueue
<1>3. ASSUME NEW g \in finished PROVE OnItsWay(g)'
  <2>1. CASE \E k \in Models : g \in InQueue(k) \cup unflushed[k]
    BY <1>1, <1>2, <2>1 DEF OnItsWay
  <2>2. CASE g \in stored \/ \E p \in Players : game[p] = g /\ at[p] \in {"finished", "pushing"}
    BY <2>2 DEF OnItsWay
  <2> QED BY <2>1, <2>2 DEF GameInv, OnItsWay
<1> QED BY <1>3 DEF TypeOK, GameInv

LEMMA FillFileKeeps ==
  ASSUME IInv, NEW m \in Models, FillFile(m)
  PROVE  IInv'
<1> USE DEF managed, dataVars, playerVars, mainVars
<1>1. /\ loop[m] = "popping" /\ stored' = stored \cup unflushed[m]
      /\ unflushed' = [unflushed EXCEPT ![m] = {}]
      /\ UNCHANGED <<managed, dataVars, loop, deleted, playerVars, mainVars>>
  BY DEF FillFile
<1>2. GameInv' /\ stored' \in SUBSET Games /\ unflushed' \in [Models -> SUBSET Games]
  BY <1>1, StoringKeeps DEF IInv
<1>3. TypeOK'
  BY <1>1, <1>2 DEF IInv, TypeOK
<1>4. CountInv' /\ TrackInv' /\ UseInv'
  BY <1>1, LoopStepKeeps DEF IInv
<1>5. LoopInv'
  BY <1>1 DEF IInv, TypeOK, LoopInv, Active
<1> QED BY <1>2, <1>3, <1>4, <1>5 DEF IInv

LEMMA EndOfQueueKeeps ==
  ASSUME IInv, NEW m \in Models, EndOfQueue(m)
  PROVE  IInv'
<1> USE DEF managed, dataVars, playerVars, mainVars
<1>1. /\ loop[m] = "popping" /\ finishedGameQueue[m] = <<>> /\ readOnly[m]
      /\ loop' = [loop EXCEPT ![m] = "ended"]
      /\ UNCHANGED <<managed, dataVars, unflushed, stored, deleted, playerVars, mainVars>>
  BY DEF EndOfQueue, LoopBecomes
<1>2. loop'[m] = "ended" /\ \A k \in Models : k # m => loop'[k] = loop[k]
  BY <1>1 DEF IInv, TypeOK
<1>3. TypeOK'
  BY <1>1 DEF IInv, TypeOK
<1>4. CountInv' /\ TrackInv' /\ UseInv'
  BY <1>1, LoopStepKeeps DEF IInv
<1>5. LoopInv'
  <2>1. Active' = Active
    BY <1>1, <1>2 DEF Active
  <2> QED BY <1>1, <1>2, <2>1 DEF IInv, LoopInv
<1>6. GameInv'
  BY <1>1 DEF IInv, GameInv, OnItsWay, InQueue
<1> QED BY <1>3, <1>4, <1>5, <1>6 DEF IInv

LEMMA FlushIfNonemptyKeeps ==
  ASSUME IInv, NEW m \in Models, FlushIfNonempty(m)
  PROVE  IInv'
<1> USE DEF managed, dataVars, playerVars, mainVars
<1>1. /\ loop[m] = "ended" /\ loop' = [loop EXCEPT ![m] = "flushed"]
      /\ stored' = stored \cup unflushed[m] /\ unflushed' = [unflushed EXCEPT ![m] = {}]
      /\ UNCHANGED <<managed, dataVars, deleted, playerVars, mainVars>>
  BY DEF FlushIfNonempty, LoopBecomes
<1>2. /\ loop'[m] = "flushed" /\ unflushed'[m] = {}
      /\ \A k \in Models : k # m => loop'[k] = loop[k] /\ unflushed'[k] = unflushed[k]
  BY <1>1 DEF IInv, TypeOK
<1>3. GameInv' /\ stored' \in SUBSET Games /\ unflushed' \in [Models -> SUBSET Games]
  BY <1>1, StoringKeeps DEF IInv
<1>4. TypeOK'
  BY <1>1, <1>3 DEF IInv, TypeOK
<1>5. CountInv' /\ TrackInv' /\ UseInv'
  BY <1>1, LoopStepKeeps DEF IInv
<1>6. LoopInv'
  <2>1. Active' = Active
    BY <1>1, <1>2 DEF Active
  <2> QED BY <1>1, <1>2, <2>1 DEF IInv, LoopInv
<1> QED BY <1>3, <1>4, <1>5, <1>6 DEF IInv

LEMMA DeleteModelDataKeeps ==
  ASSUME IInv, NEW m \in Models, DeleteModelData(m)
  PROVE  IInv'
<1> USE DEF managed, dataVars, playerVars, mainVars
<1>1. /\ loop[m] = "flushed" /\ loop' = [loop EXCEPT ![m] = "deleted"]
      /\ deleted' = deleted \cup {m}
      /\ UNCHANGED <<managed, dataVars, unflushed, stored, playerVars, mainVars>>
  BY DEF DeleteModelData, LoopBecomes
<1>2. loop'[m] = "deleted" /\ \A k \in Models : k # m => loop'[k] = loop[k]
  BY <1>1 DEF IInv, TypeOK
<1>3. TypeOK'
  BY <1>1 DEF IInv, TypeOK
<1>4. CountInv' /\ TrackInv' /\ UseInv'
  BY <1>1, LoopStepKeeps DEF IInv
<1>5. LoopInv'
  <2>1. Active' = Active
    BY <1>1, <1>2 DEF Active
  <2> QED BY <1>1, <1>2, <2>1 DEF IInv, LoopInv
<1>6. GameInv'
  BY <1>1 DEF IInv, GameInv, OnItsWay, InQueue
<1> QED BY <1>3, <1>4, <1>5, <1>6 DEF IInv

LEMMA CheckBackInKeeps ==
  ASSUME IInv, NEW m \in Models, CheckBackIn(m)
  PROVE  IInv'
<1> USE DEF dataVars, playerVars
<1>1. /\ loop[m] = "deleted" /\ loop' = [loop EXCEPT ![m] = "none"]
      /\ numDataWriteLoopsActive' = numDataWriteLoopsActive - 1
      /\ main' = main \/ (main = "asleep" /\ main' = "waiting")
      /\ UNCHANGED <<loaded, modelDatas, acquireCount, dataVars, unflushed, stored, deleted,
                     playerVars, shouldStop, loader>>
  BY DEF CheckBackIn, LoopBecomes, NotifyLoopsAreDone
<1>2. loop'[m] = "none" /\ \A k \in Models : k # m => loop'[k] = loop[k]
  BY <1>1 DEF IInv, TypeOK
<1>3. m \in Active /\ Active' = Active \ {m}
  BY <1>1, <1>2 DEF Active
<1>4. numDataWriteLoopsActive' = Cardinality(Active') /\ numDataWriteLoopsActive' \in Nat
  <2>1. numDataWriteLoopsActive = Cardinality(Active)
    BY DEF IInv, LoopInv
  <2> QED BY <1>1, <1>3, <2>1, ActiveIsFinite, RemoveOne
<1>5. TypeOK'
  BY <1>1, <1>4 DEF IInv, TypeOK
<1>6. CountInv' /\ TrackInv' /\ UseInv'
  BY <1>1, LoopStepKeeps DEF IInv
<1>7. LoopInv'
  BY <1>1, <1>2, <1>3, <1>4 DEF IInv, LoopInv
<1>8. GameInv'
  BY <1>1 DEF IInv, GameInv, OnItsWay, InQueue
<1> QED BY <1>5, <1>6, <1>7, <1>8 DEF IInv

-----------------------------------------------------------------------------
(* The signal, the loader's end and the main thread.                       *)

\* These steps leave alone what the game threads and the write loops do.
LEMMA MainStepKeeps ==
  ASSUME TypeOK, CountInv, GameInv, UNCHANGED <<acquireCount, finishedGameQueue, loopVars, playerVars>>
  PROVE  CountInv' /\ GameInv' /\ Active' = Active
<1> USE DEF loopVars, playerVars
<1>1. \A m \in Models : Users(m)' = Users(m) /\ Checkers(m)' = Checkers(m)
  BY DEF Users, Checkers
<1>2. CountInv'
  BY <1>1 DEF CountInv
<1>3. GameInv'
  BY DEF GameInv, OnItsWay, InQueue
<1> QED BY <1>2, <1>3 DEF Active

LEMMA SignalKeeps ==
  ASSUME IInv, Signal \/ LoaderExits \/ GameThreadsAreJoined \/ SpuriousWakeup
  PROVE  IInv'
<1> USE DEF managed, dataVars, loopVars, playerVars, mainVars
<1>1. /\ UNCHANGED <<managed, dataVars, loopVars, playerVars>> /\ shouldStop' \in BOOLEAN
      /\ loader' \in {loader, "exited"}
      /\ \/ main' = main
         \/ main = "joining" /\ main' = "joiningLoader" /\ \A p \in Players : at[p] = "exited"
         \/ main = "asleep" /\ main' = "waiting"
  BY DEF IInv, TypeOK, Signal, LoaderExits, GameThreadsAreJoined, SpuriousWakeup
<1>2. TypeOK'
  BY <1>1 DEF IInv, TypeOK
<1>3. CountInv' /\ GameInv' /\ Active' = Active
  BY <1>1, MainStepKeeps DEF IInv
<1>4. TrackInv'
  BY <1>1 DEF IInv, TypeOK, TrackInv
<1>5. UseInv'
  BY <1>1 DEF IInv, UseInv, Holding
<1>6. LoopInv'
  BY <1>1, <1>3 DEF IInv, LoopInv
<1> QED BY <1>2, <1>3, <1>4, <1>5, <1>6 DEF IInv

LEMMA DeleteManagerKeeps ==
  ASSUME IInv, DeleteManager
  PROVE  IInv'
<1> USE DEF managed, dataVars, loopVars, playerVars, mainVars
<1>1. /\ main = "joiningLoader" /\ loader = "exited" /\ main' = "waiting" /\ modelDatas' = {}
      /\ readOnly' = [m \in Models |-> readOnly[m] \/ m \in modelDatas]
      /\ UNCHANGED <<loaded, acquireCount, numDataWriteLoopsActive, finishedGameQueue, loopVars,
                     playerVars, shouldStop, loader>>
  BY DEF DeleteManager
<1>2. \A m \in Models : readOnly[m] \in BOOLEAN /\ (readOnly'[m] <=> readOnly[m] \/ m \in modelDatas)
  BY <1>1 DEF IInv, TypeOK
<1>3. TypeOK'
  BY <1>1, <1>2 DEF IInv, TypeOK
<1>4. CountInv' /\ GameInv' /\ Active' = Active
  BY <1>1, MainStepKeeps DEF IInv
<1>5. \A p \in Players : at'[p] = "exited"
  BY <1>1 DEF IInv, TrackInv
<1>6. TrackInv'
  <2>1. \A m \in 1 .. loaded : m \in Models
    BY DEF IInv, TypeOK
  <2>2. \A m \in 1 .. loaded : readOnly'[m]
    BY <1>2, <2>1 DEF IInv, TrackInv
  <2>3. \A m \in Models : m > loaded => ~readOnly'[m]
    BY <1>2 DEF IInv, TypeOK, TrackInv
  <2> QED BY <1>1, <1>5, <2>2, <2>3 DEF TrackInv
<1>7. UseInv'
  BY <1>5 DEF UseInv, Holding
<1>8. LoopInv'
  BY <1>1, <1>2, <1>4 DEF IInv, LoopInv
<1> QED BY <1>3, <1>4, <1>6, <1>7, <1>8 DEF IInv

LEMMA WaitForLoopsKeeps ==
  ASSUME IInv, WaitForLoops
  PROVE  IInv'
<1> USE DEF managed, dataVars, loopVars, playerVars, mainVars
<1>1. /\ main = "waiting" /\ UNCHANGED <<managed, dataVars, loopVars, playerVars, shouldStop, loader>>
      /\ \/ main' = "asleep"
         \/ main' = "done" /\ ~(numDataWriteLoopsActive > 0)
  BY DEF WaitForLoops
<1>2. TypeOK'
  BY <1>1 DEF IInv, TypeOK
<1>3. CountInv' /\ GameInv' /\ Active' = Active
  BY <1>1, MainStepKeeps DEF IInv
<1>4. TrackInv'
  BY <1>1 DEF IInv, TrackInv
<1>5. UseInv'
  BY <1>1 DEF IInv, UseInv, Holding
<1>6. main' = "done" => Active' = {}
  <2>1. numDataWriteLoopsActive = Cardinality(Active)
    BY DEF IInv, LoopInv
  <2>2. main' = "done" => Cardinality(Active) = 0
    BY <1>1, <2>1, ActiveIsFinite
  <2> QED BY <1>3, <2>2, ActiveIsFinite, FS_EmptySet
<1>7. LoopInv'
  BY <1>1, <1>3, <1>6 DEF IInv, LoopInv
<1> QED BY <1>2, <1>3, <1>4, <1>5, <1>7 DEF IInv

-----------------------------------------------------------------------------
(* The theorems.                                                           *)

LEMMA InitInv == Init => IInv
<1> SUFFICES ASSUME Init PROVE IInv
  OBVIOUS
<1> USE DEF Init
<1>1. TypeOK
  <2>1. <<>> \in Seq(Games) /\ 1 \in Models
    OBVIOUS
  <2>2. /\ at \in [Players -> {"idle", "acquired", "playing", "checking", "changing", "finished",
                              "pushing", "pushed", "stopping", "exited"}]
        /\ loop \in [Models -> {"none", "popping", "ended", "flushed", "deleted"}]
    OBVIOUS
  <2>3. /\ finishedGameQueue \in [Models -> Seq(Games)] /\ readOnly \in [Models -> BOOLEAN]
        /\ unflushed \in [Models -> SUBSET Games] /\ acquireCount \in [Models -> Nat]
    BY <2>1
  <2> QED BY <2>1, <2>2, <2>3 DEF TypeOK
<1>2. CountInv
  <2>1. \A p \in Players : at[p] = "idle"
    OBVIOUS
  <2>2. \A m \in Models : Users(m) = {} /\ Checkers(m) = {}
    BY <2>1 DEF Users, Checkers, Holding
  <2>3. \A m \in Models : acquireCount[m] = 0
    OBVIOUS
  <2>4. \A m \in Models : Cardinality(Users(m)) = 0 /\ Cardinality(Checkers(m)) = 0
    BY <2>2, FS_EmptySet
  <2> QED BY <2>3, <2>4 DEF CountInv
<1>3. TrackInv
  BY DEF TrackInv
<1>4. UseInv
  BY DEF UseInv, Holding
<1>5. LoopInv
  <2>1. Active = {1}
    BY DEF Active
  <2>2. numDataWriteLoopsActive = Cardinality(Active)
    BY <2>1, FS_Singleton
  <2> QED BY <2>2 DEF LoopInv
<1>6. GameInv
  BY DEF GameInv
<1> QED BY <1>1, <1>2, <1>3, <1>4, <1>5, <1>6 DEF IInv

LEMMA NextInv == IInv /\ [Next]_vars => IInv'
<1> SUFFICES ASSUME IInv, [Next]_vars PROVE IInv'
  OBVIOUS
<1>1. ASSUME NEW p \in Players, PlayerStep(p) \/ CheckForNewNNEval(p) \/ FinishGame(p)
      PROVE  IInv'
  BY <1>1, AcquireLatestKeeps, ExitKeeps, StartGameKeeps, KeepNNEvalKeeps, ChangeNNEvalKeeps,
     SetNNEvalKeeps, FindModelKeeps, WaitPushKeeps, ReleaseNNEvalKeeps, CheckForNewNNEvalKeeps,
     FinishGameKeeps DEF PlayerStep
<1>2. ASSUME NEW m \in Models, LoopStep(m) \/ FillFile(m)
      PROVE  IInv'
  BY <1>2, WriteGameKeeps, EndOfQueueKeeps, FlushIfNonemptyKeeps, DeleteModelDataKeeps,
     CheckBackInKeeps, FillFileKeeps DEF LoopStep
<1>3. CASE LoadModel \/ Signal \/ MainStep \/ SpuriousWakeup
  BY <1>3, LoadModelKeeps, SignalKeeps, DeleteManagerKeeps, WaitForLoopsKeeps DEF MainStep
<1>4. CASE UNCHANGED vars
  <2> USE <1>4 DEF vars
  <2>1. TypeOK'
    BY DEF IInv, TypeOK
  <2>2. CountInv' /\ GameInv' /\ Active' = Active
    BY MainStepKeeps DEF IInv, loopVars, playerVars
  <2>3. TrackInv' /\ UseInv'
    BY DEF IInv, TrackInv, UseInv
  <2>4. LoopInv'
    BY <2>2 DEF IInv, LoopInv
  <2> QED BY <2>1, <2>2, <2>3, <2>4 DEF IInv
<1> QED BY <1>1, <1>2, <1>3, <1>4 DEF Next

\* The inductive invariant: the acquire count of a net is the number of references
\* that the game threads hold, the manager tracks the latest net and those with a
\* reference, the loops of the others are on their way out, and each finished game
\* is somewhere.
THEOREM SelfplayInvariant == Spec => []IInv
<1>1. Init => IInv
  BY InitInv
<1>2. IInv /\ [Next]_vars => IInv'
  BY NextInv
<1> QED BY <1>1, <1>2, PTL DEF Spec

\* A net is tracked, with its data write loop, exactly as long as a game uses it or
\* it is the latest, however games change nets and new ones arrive: the manager's
\* autoCleanupAllButLatestIfUnused.
THEOREM NetsLiveAsLongAsUsed == Spec => []ModelsLiveAsLongAsUsed
<1>1. IInv => ModelsLiveAsLongAsUsed
  <2> SUFFICES ASSUME IInv PROVE ModelsLiveAsLongAsUsed
    OBVIOUS
  <2>1. UsedModelsAreTracked
    <3>1. ASSUME NEW p \in Players, at[p] \in Holding
          PROVE  nnEval[p] \in modelDatas /\ acquireCount[nnEval[p]] > 0 /\ ~readOnly[nnEval[p]]
      <4>1. PICK m \in modelDatas : m = nnEval[p] /\ m \in Models /\ p \in Users(m)
        BY <3>1 DEF IInv, TypeOK, UseInv, Users
      <4>2. acquireCount[m] > 0
        BY <4>1, UsedIsAcquired DEF IInv
      <4> QED BY <4>1, <4>2 DEF IInv, TrackInv
    <3> QED BY <3>1 DEF UsedModelsAreTracked, Holding, IInv, UseInv
  <2>2. OnlyUsedOrLatest
    <3>1. CASE main \in {"joining", "joiningLoader"}
      <4>1. Latest(modelDatas) = loaded
        BY <3>1, LatestIs DEF IInv, TypeOK, TrackInv
      <4> QED BY <4>1 DEF OnlyUsedOrLatest, IInv, TrackInv
    <3>2. CASE main \notin {"joining", "joiningLoader"}
      BY <3>2 DEF OnlyUsedOrLatest, IInv, TrackInv
    <3> QED BY <3>1, <3>2
  <2> QED BY <2>1, <2>2 DEF ModelsLiveAsLongAsUsed, IInv
<1> QED BY <1>1, SelfplayInvariant, PTL

\* Each finished game is stored by the time the manager is gone, and a data write
\* loop ends with no thread that could still push to its queue.
THEOREM GamesAreStored == Spec => []GamesReachTheDisk
<1>1. IInv => GamesReachTheDisk
  <2> SUFFICES ASSUME IInv PROVE GamesReachTheDisk
    OBVIOUS
  <2>1. \A m \in Models : loop[m] \in {"ended", "flushed", "deleted"} => m \notin modelDatas
    BY DEF IInv, TypeOK, TrackInv, LoopInv
  <2>2. \A m \in Models : m \notin modelDatas => acquireCount[m] = 0
    BY UnusedIsNotAcquired DEF IInv
  <2>3. numDataWriteLoopsActive = 0 => modelDatas = {}
    <3>1. numDataWriteLoopsActive = 0 => Active = {}
      BY ActiveIsFinite, FS_EmptySet DEF IInv, LoopInv
    <3>2. \A m \in modelDatas : m \in Models /\ loop[m] = "popping"
      BY DEF IInv, TypeOK, TrackInv, LoopInv
    <3> QED BY <3>1, <3>2 DEF Active
  <2>4. \A m \in Models : \A g \in InQueue(m) \cup unflushed[m] : m \notin deleted
    BY DEF IInv, LoopInv, InQueue
  <2>5. ASSUME main = "done" PROVE finished \subseteq stored
    <3>1. \A m \in Models : InQueue(m) = {} /\ unflushed[m] = {}
      BY <2>5 DEF IInv, LoopInv, Active, InQueue
    <3>2. \A p \in Players : at[p] = "exited"
      BY <2>5 DEF IInv, TrackInv
    <3> QED BY <3>1, <3>2 DEF IInv, GameInv, OnItsWay
  <2>6. NoGameIsLost
    BY <2>4, <2>5 DEF NoGameIsLost, IInv, GameInv, OnItsWay
  <2> QED BY <2>1, <2>2, <2>3, <2>6 DEF GamesReachTheDisk, LoopEndsAlone
<1> QED BY <1>1, SelfplayInvariant, PTL
=============================================================================
