-------------------------- MODULE GatekeeperProofs --------------------------
(***************************************************************************)
(* Theorems about Gatekeeper, for every number of games, of game threads,  *)
(* of nets and of faults, and every value of a game.                       *)
(***************************************************************************)
EXTENDS Gatekeeper, FiniteSetTheorems, TLAPS

\* A thread holds a game exactly while it plays or pushes it.
GameInv == \A t \in Threads :
  /\ thread[t] = "playing" => game[t] \in Game
  /\ thread[t] = "pushing" => game[t] \in Played
  /\ thread[t] \in {"none", "looping", "done"} => game[t] = NoGame

\* Where the threads are while the main thread is at each of its steps.
PhaseInv ==
  /\ loaded <=> pc \in {"loaded", "join", "written", "judge", "accept", "reject"}
  /\ readOnly <=> pc \in {"written", "judge", "accept", "reject"}
  /\ pc \in {"poll", "compare", "loaded", "ended", "crashed"} =>
       /\ writer # "popping" /\ \A t \in Threads : thread[t] \in {"none", "done"}
       /\ queue = <<>> /\ started = 0 /\ tallied = 0
       /\ basePoints = 0 /\ candPoints = 0 /\ ~terminated
  /\ pc = "join" => writer = "popping" /\ ~dataIsWritten
  /\ pc = "written" => (writer = "popping" /\ ~dataIsWritten) \/ writer = "done"
  /\ pc \in {"judge", "accept", "reject"} => writer = "done"
  /\ pc \in {"written", "judge", "accept", "reject"} =>
       \A t \in Threads : thread[t] = "done"
  /\ writer = "done" => queue = <<>>
  /\ pc \in {"compare", "loaded", "join", "written", "judge", "accept", "reject"} =>
       candidate \in Models

\* The count of the games, and why a thread left its loop.
InFlight == Len(queue) + Cardinality(InPlay)
CountInv ==
  /\ tallied + InFlight <= started
  /\ ~shouldStop /\ ~terminated => tallied + InFlight = started
  /\ pc \in {"join", "written", "judge", "accept", "reject"} => \A t \in Threads :
       thread[t] = "done" => shouldStop \/ terminated \/ started = NumGames

\* The points of the tallied games, and what ended the match.
TallyInv ==
  /\ terminated => Clinched(candPoints, basePoints, Remaining)
  /\ pc \in {"accept", "reject"} =>
       /\ terminated \/ tallied = NumGames
       /\ pc = "accept" <=> CandidateWins(candPoints, basePoints)

IInv == TypeOK /\ GameInv /\ PhaseInv /\ CountInv /\ TallyInv

-----------------------------------------------------------------------------
(* Points.                                                                 *)

\* A game gives the candidate between nothing and one whole game.
LEMMA PointsRange ==
  ASSUME NEW g \in Played PROVE CandidatePoints(g) \in 0..Unit
<1>1. g.candIsBlack \in BOOLEAN /\ g.result \in Results
  BY DEF Played
<1>2. WhitePoints(g.result) \in 0..Unit
  BY <1>1, PointsAssumption DEF WhitePoints, Results
<1> QED
  BY <1>1, <1>2, PointsAssumption DEF CandidatePoints

\* One game less remains: its points are the ones that can no longer be won.
LEMMA OneGameLess ==
  ASSUME NEW r \in Int
  PROVE  Unit * (r - 1) = Unit * r - Unit /\ Unit * r \in Int
BY PointsAssumption

\* A clinched match stays clinched, whatever the next game gives.
LEMMA ClinchedStays ==
  ASSUME NEW c \in Nat, NEW b \in Nat, NEW r \in Int, NEW p \in 0..Unit,
         Clinched(c, b, r)
  PROVE  Clinched(c + p, b + (Unit - p), r - 1)
<1> DEFINE d == Unit * r
<1>1. d \in Int /\ Unit * (r - 1) = d - Unit
  BY OneGameLess
<1>2. c >= b + d \/ b > c + d
  BY DEF Clinched
<1> HIDE DEF d
<1>3. c + p >= b + (Unit - p) + (d - Unit) \/ b + (Unit - p) > c + p + (d - Unit)
  BY <1>1, <1>2, PointsAssumption
<1> QED
  BY <1>1, <1>3 DEF Clinched

\* A clinched match is decided: so is one without games left.
LEMMA ClinchedDecides ==
  ASSUME NEW c \in Nat, NEW b \in Nat, NEW r \in Nat, Clinched(c, b, r) \/ r = 0,
         NEW x \in 0..(Unit * r)
  PROVE  CandidateWins(c + x, b + (Unit * r - x)) <=> CandidateWins(c, b)
<1> DEFINE d == Unit * r
<1>1. d \in Nat /\ x \in 0..d /\ (r = 0 => d = 0)
  BY PointsAssumption
<1>2. c >= b + d \/ b > c + d \/ d = 0
  BY <1>1 DEF Clinched
<1> HIDE DEF d
<1>3. b + (d - x) <= c + x <=> b <= c
  BY <1>1, <1>2
<1> QED
  BY <1>3 DEF CandidateWins, d

-----------------------------------------------------------------------------
(* Counting the games in play.                                             *)

\* The games in play are finitely many.
LEMMA InPlayFinite == IsFiniteSet(InPlay) /\ Cardinality(InPlay) \in Nat
<1>1. IsFiniteSet(InPlay)
  BY ThreadsAssumption, FS_Subset DEF InPlay
<1> QED
  BY <1>1, FS_CardinalityType

\* A thread that takes a game adds one to them.
LEMMA InPlayAdd ==
  ASSUME NEW t \in Threads, game[t] = NoGame, NEW g, g # NoGame,
         game \in [Threads -> Game \cup Played \cup {NoGame}],
         game' = [game EXCEPT ![t] = g]
  PROVE  Cardinality(InPlay') = Cardinality(InPlay) + 1
<1>1. InPlay' = InPlay \cup {t} /\ t \notin InPlay
  BY DEF InPlay
<1> QED
  BY <1>1, InPlayFinite, FS_AddElement

\* A thread that gives its game away takes one from them.
LEMMA InPlayRemove ==
  ASSUME NEW t \in Threads, game[t] # NoGame,
         game \in [Threads -> Game \cup Played \cup {NoGame}],
         game' = [game EXCEPT ![t] = NoGame]
  PROVE  Cardinality(InPlay') = Cardinality(InPlay) - 1
<1>1. InPlay' = InPlay \ {t} /\ t \in InPlay
  BY DEF InPlay
<1> QED
  BY <1>1, InPlayFinite, FS_RemoveElement

\* Without games no thread is in play.
LEMMA InPlayNone ==
  ASSUME \A t \in Threads : game[t] = NoGame PROVE Cardinality(InPlay) = 0
<1>1. InPlay = {}
  BY DEF InPlay
<1> QED
  BY <1>1, FS_EmptySet

-----------------------------------------------------------------------------
(* The inductive invariant.                                                *)

\* A fresh process satisfies the invariant.
LEMMA InitInv == Init => IInv
<1> SUFFICES ASSUME Init PROVE IInv
  OBVIOUS
<1>1. \A t \in Threads : game[t] = NoGame /\ thread[t] = "none"
  BY DEF Init
<1>2. Cardinality(InPlay) = 0
  BY <1>1, InPlayNone
<1>3. TypeOK
  <2>1. queue \in Seq(Played) /\ paired \subseteq (Nat \cup {NoPosition}) \X BOOLEAN
    BY DEF Init
  <2>2. place \in [Models -> {"away", "partial", "test", "accepted", "rejected"}]
    BY DEF Init
  <2> QED
    <3>1. started \in 0..NumGames /\ faults \in 0..MaxFaults
      BY PointsAssumption, SwitchesAssumption DEF Init
    <3>2. /\ thread \in [Threads -> {"none", "looping", "playing", "pushing", "done"}]
          /\ game \in [Threads -> Game \cup Played \cup {NoGame}]
      BY DEF Init
    <3> QED
      BY <2>1, <2>2, <3>1, <3>2 DEF Init, TypeOK
<1>4. GameInv /\ PhaseInv
  BY <1>1 DEF Init, GameInv, PhaseInv
<1>5. CountInv
  BY <1>1, <1>2 DEF Init, CountInv, InFlight
<1>6. TallyInv
  BY DEF Init, TallyInv
<1> QED
  BY <1>3, <1>4, <1>5, <1>6 DEF IInv

\* So does the process after a crash, a restart, and after delete netAndStuff.
LEMMA NewMatchInv ==
  ASSUME IInv, NewMatch, readOnly' = FALSE, loaded' = FALSE,
         writer' \in {"none", "done"},
         thread' \in [Threads -> {"none", "done"}], game' = [t \in Threads |-> NoGame],
         place' \in [Models -> {"away", "partial", "test", "accepted", "rejected"}],
         faults' \in 0..MaxFaults, shouldStop' \in BOOLEAN, dataIsWritten' \in BOOLEAN,
         candidate' = NoModel, pc' \in {"poll", "ended", "crashed"}
  PROVE  IInv'
<1> USE DEF NewMatch
<1>1. \A t \in Threads : game'[t] = NoGame /\ thread'[t] \in {"none", "done"}
  OBVIOUS
<1>2. InPlay' = {}
  BY <1>1 DEF InPlay
<1>3. Cardinality(InPlay') = 0
  BY <1>2, FS_EmptySet
<1>4. TypeOK'
  <2>1. queue' \in Seq(Played) /\ paired' \subseteq (Nat \cup {NoPosition}) \X BOOLEAN
    OBVIOUS
  <2> QED
    <3>1. started' \in 0..NumGames
      BY PointsAssumption
    <3>2. /\ thread' \in [Threads -> {"none", "looping", "playing", "pushing", "done"}]
          /\ game' \in [Threads -> Game \cup Played \cup {NoGame}]
      OBVIOUS
    <3> QED
      BY <2>1, <3>1, <3>2 DEF TypeOK
<1>5. GameInv' /\ PhaseInv'
  BY <1>1 DEF GameInv, PhaseInv
<1>6. CountInv'
  BY <1>1, <1>3 DEF CountInv, InFlight
<1>7. TallyInv'
  BY DEF TallyInv
<1> QED
  BY <1>4, <1>5, <1>6, <1>7 DEF IInv

\* A rename leaves every directory somewhere.
LEMMA RenameType ==
  ASSUME TypeOK, NEW m \in Models, NEW dest \in {"accepted", "rejected"}, Rename(m, dest)
  PROVE  /\ place' \in [Models -> {"away", "partial", "test", "accepted", "rejected"}]
         /\ faults' \in 0..MaxFaults
BY SwitchesAssumption DEF TypeOK, Rename

\* The steps outside the process, and the main thread's.
LEMMA EnvironmentInv ==
  ASSUME IInv, (\E m \in Models : Arrive(m)) \/ Signal \/ Crash \/ Restart
  PROVE  IInv'
<1> USE DEF IInv
<1>1. CASE \E m \in Models : Arrive(m)
  <2>1. PICK m \in Models : Arrive(m)
    BY <1>1
  <2>2. TypeOK'
    BY <2>1 DEF TypeOK, Arrive, match, workers
  <2> QED
    BY <2>1, <2>2 DEF Arrive, match, workers, GameInv, PhaseInv, CountInv, InFlight,
       InPlay, TallyInv, Remaining
<1>2. CASE Signal
  <2>1. TypeOK'
    BY <1>2 DEF TypeOK, Signal, dirs, match, workers
  <2> QED
    BY <1>2, <2>1 DEF Signal, dirs, match, workers, GameInv, PhaseInv, CountInv, InFlight,
       InPlay, TallyInv, Remaining
<1>3. CASE Crash
  <2>1. faults' \in 0..MaxFaults /\ place' = place
    BY <1>3, SwitchesAssumption DEF Crash, TypeOK
  <2> QED
    BY <1>3, <2>1, NewMatchInv DEF Crash, NewProcess, TypeOK
<1>4. CASE Restart
  BY <1>4, NewMatchInv DEF Restart, NewProcess, TypeOK, dirs
<1> QED
  BY <1>1, <1>2, <1>3, <1>4

\* Outside of a match, and once it is judged, its threads have left.
LEMMA WorkersAreDone ==
  ASSUME IInv, pc \in {"loaded", "judge", "accept", "reject"}
  PROVE  /\ writer \in {"none", "done"} /\ thread \in [Threads -> {"none", "done"}]
         /\ game = [t \in Threads |-> NoGame]
<1>1. \A t \in Threads : thread[t] \in {"none", "done"} /\ game[t] = NoGame
  BY DEF IInv, PhaseInv, GameInv
<1>2. writer \in {"none", "done"}
  BY DEF IInv, PhaseInv, TypeOK
<1> QED
  BY <1>1, <1>2 DEF IInv, TypeOK

\* The main thread, one step per action.
LEMMA MainInv == ASSUME IInv, Main PROVE IInv'
<1> USE DEF IInv
<1>1. CASE StopPolling \/ FindCandidate \/ QuitWithoutCandidate
  <2>1. TypeOK'
    BY <1>1 DEF TypeOK, StopPolling, FindCandidate, QuitWithoutCandidate, dirs, match, workers
  <2>2. UNCHANGED <<loaded, dataIsWritten, readOnly, match, workers>>
        /\ (shouldStop => shouldStop')
        /\ pc = "poll" /\ pc' \in {"poll", "compare", "ended"}
        /\ (pc' = "compare" => candidate' \in Models)
    BY <1>1 DEF StopPolling, FindCandidate, QuitWithoutCandidate, dirs, match, workers, TypeOK
  <2>3. GameInv' /\ PhaseInv'
    BY <2>2 DEF match, workers, GameInv, PhaseInv
  <2>4. InPlay' = InPlay
    BY <2>2 DEF match, workers, InPlay
  <2>5. CountInv'
    BY <2>2, <2>4 DEF match, workers, CountInv, InFlight
  <2> QED
    BY <2>1, <2>2, <2>3, <2>5 DEF match, TallyInv, Remaining
<1>2. CASE AutoReject
  <2>1. candidate \in Models /\ pc' = "poll" /\ candidate' = NoModel
    BY <1>2 DEF AutoReject, PhaseInv
  <2>2. TypeOK'
    BY <1>2, <2>1, RenameType DEF TypeOK, AutoReject, match, workers
  <2> QED
    BY <1>2, <2>1, <2>2 DEF AutoReject, match, workers,
       GameInv, PhaseInv, CountInv, InFlight, InPlay, TallyInv, Remaining
<1>3. CASE Load
  <2>0. queue' \in Seq(Played) /\ paired' \subseteq (Nat \cup {NoPosition}) \X BOOLEAN
    BY <1>3 DEF Load, NewMatch
  <2>1. TypeOK'
    <3>1. started' \in 0..NumGames
      BY <1>3, PointsAssumption DEF Load, NewMatch
    <3> QED
      BY <1>3, <2>0, <3>1 DEF TypeOK, Load, NewMatch, dirs, workers
  <2>2. \A t \in Threads : game[t] = NoGame /\ thread[t] \in {"none", "done"}
    BY <1>3 DEF Load, PhaseInv, GameInv
  <2>3. Cardinality(InPlay) = 0 /\ InPlay' = InPlay
    BY <1>3, <2>2, InPlayNone DEF Load, workers, InPlay
  <2> QED
    BY <1>3, <2>1, <2>2, <2>3 DEF Load, NewMatch, dirs, workers,
       GameInv, PhaseInv, CountInv, InFlight, TallyInv, Remaining
<1>4. CASE StopBeforeMatch \/ StopAfterMatch
  <2>1. UNCHANGED <<place, faults, shouldStop, dataIsWritten>> /\ Delete("ended")
        /\ pc \in {"loaded", "judge"}
    BY <1>4 DEF StopBeforeMatch, StopAfterMatch, dirs
  <2>2. writer' \in {"none", "done"} /\ thread' \in [Threads -> {"none", "done"}]
        /\ game' = [t \in Threads |-> NoGame]
    BY <2>1, WorkersAreDone DEF Delete, workers
  <2> QED
    BY <2>1, <2>2, NewMatchInv DEF Delete, TypeOK
<1>5. CASE Spawn
  <2>1. TypeOK'
    BY <1>5 DEF TypeOK, Spawn, dirs, match
  <2>2. \A t \in Threads : game[t] = NoGame /\ game'[t] = NoGame /\ thread'[t] = "looping"
    BY <1>5 DEF Spawn, PhaseInv, GameInv
  <2>3. InPlay' = InPlay
    BY <2>2 DEF InPlay
  <2> QED
    BY <1>5, <2>1, <2>2, <2>3 DEF Spawn, dirs, match,
       GameInv, PhaseInv, CountInv, InFlight, TallyInv, Remaining
<1>6. CASE Join
  <2>1. TypeOK'
    BY <1>6 DEF TypeOK, Join, dirs, match, workers
  <2> QED
    BY <1>6, <2>1 DEF Join, dirs, match, workers,
       GameInv, PhaseInv, CountInv, InFlight, InPlay, TallyInv, Remaining
<1>7. CASE AwaitWritten
  <2>1. TypeOK'
    BY <1>7 DEF TypeOK, AwaitWritten, dirs, match, workers
  <2> QED
    BY <1>7, <2>1 DEF AwaitWritten, dirs, match, workers,
       GameInv, PhaseInv, CountInv, InFlight, InPlay, TallyInv, Remaining
<1>8. CASE Judge
  <2>1. TypeOK'
    BY <1>8 DEF TypeOK, Judge, dirs, match, workers
  <2>2. \A t \in Threads : thread[t] = "done" /\ game[t] = NoGame
    BY <1>8 DEF Judge, PhaseInv, GameInv
  <2>3. Cardinality(InPlay) = 0 /\ Len(queue) = 0
    BY <1>8, <2>2, InPlayNone DEF Judge, PhaseInv
  <2>4. terminated \/ tallied = NumGames
    <3>1. PICK t \in Threads : TRUE
      BY ThreadsAssumption
    <3>2. terminated \/ started = NumGames
      BY <1>8, <2>2, <3>1 DEF Judge, CountInv
    <3> QED
      BY <1>8, <2>3, <3>2 DEF Judge, CountInv, InFlight, TypeOK
  <2>5. TallyInv'
    BY <1>8, <2>4 DEF Judge, match, TallyInv, Remaining
  <2> QED
    BY <1>8, <2>1, <2>5 DEF Judge, dirs, match, workers,
       GameInv, PhaseInv, CountInv, InFlight, InPlay
<1>9. CASE Move
  <2>1. candidate \in Models /\ pc \in {"accept", "reject"} /\ Delete("poll")
    BY <1>9 DEF Move, PhaseInv
  <2>2. writer' \in {"none", "done"} /\ thread' \in [Threads -> {"none", "done"}]
        /\ game' = [t \in Threads |-> NoGame]
    BY <2>1, WorkersAreDone DEF Delete, workers
  <2> QED
    BY <1>9, <2>1, <2>2, RenameType, NewMatchInv DEF Move, Delete, TypeOK
<1> QED
  BY <1>1, <1>2, <1>3, <1>4, <1>5, <1>6, <1>7, <1>8, <1>9 DEF Main

\* The game threads, one step per action.
LEMMA GameThreadInv ==
  ASSUME IInv, NEW t \in Threads, GameThread(t)
  PROVE  IInv'
<1> USE DEF IInv
<1>0. Cardinality(InPlay) \in Nat /\ Len(queue) \in Nat
  BY InPlayFinite DEF TypeOK
<1>1. CASE NextGame(t)
  <2> DEFINE g == [position |-> GamePosition(started' - 1),
                   candIsBlack |-> CandidateIsBlack(started')]
  <2>1. started' = started + 1 /\ started' \in 0..NumGames /\ started \in Nat
    BY <1>1, PointsAssumption DEF NextGame, TypeOK
  <2>2. GamePosition(started' - 1) \in Nat \cup {NoPosition}
    BY <2>1, PointsAssumption DEF GamePosition
  <2>3. g \in Game
    BY <2>2 DEF Game, CandidateIsBlack
  <2>4. game' = [game EXCEPT ![t] = g] /\ game[t] = NoGame /\ g # NoGame
    BY <1>1, <2>3, NoGameAssumption DEF NextGame, GameInv
  <2>5. paired' = paired \cup {<<g.position, g.candIsBlack>>}
        /\ <<g.position, g.candIsBlack>> \in (Nat \cup {NoPosition}) \X BOOLEAN
    BY <1>1, <2>3 DEF NextGame, Game
  <2> HIDE DEF g
  <2>6. Cardinality(InPlay') = Cardinality(InPlay) + 1
    BY <2>4, InPlayAdd DEF TypeOK
  <2>7. thread' = [thread EXCEPT ![t] = "playing"] /\ thread[t] = "looping"
        /\ UNCHANGED <<dirs, pc, shouldStop, candidate, loaded, dataIsWritten, readOnly,
                       queue, tallied, basePoints, candPoints, terminated, writer>>
        /\ ~shouldStop /\ ~terminated
    BY <1>1 DEF NextGame
  <2>8. TypeOK'
    BY <2>1, <2>3, <2>4, <2>5, <2>7 DEF TypeOK, dirs
  <2>9. GameInv' /\ PhaseInv'
    BY <2>3, <2>4, <2>7 DEF GameInv, PhaseInv, TypeOK
  <2>10. CountInv'
    <3>1. \A u \in Threads : thread'[u] = "done" => thread[u] = "done"
      BY <2>7 DEF TypeOK
    <3>2. pc \in {"join", "written", "judge", "accept", "reject"} =>
            \A u \in Threads : thread[u] = "done" => started = NumGames
      BY <2>7 DEF CountInv
    <3>3. started < NumGames
      BY <1>1 DEF NextGame
    <3> QED
      BY <1>0, <2>1, <2>6, <2>7, <3>1, <3>2, <3>3, PointsAssumption
         DEF CountInv, InFlight, TypeOK
  <2>11. TallyInv'
    BY <2>7 DEF TallyInv, Remaining
  <2> QED
    BY <2>8, <2>9, <2>10, <2>11
<1>2. CASE LeaveLoop(t)
  <2>1. TypeOK'
    BY <1>2 DEF TypeOK, LeaveLoop, dirs, match
  <2>2. InPlay' = InPlay
    BY <1>2 DEF LeaveLoop, InPlay
  <2>3. CountInv'
    <3>1. UNCHANGED <<tallied, queue, started, shouldStop, terminated>>
      BY <1>2 DEF LeaveLoop, match
    <3>2. shouldStop \/ terminated \/ started = NumGames
      BY <1>2, PointsAssumption DEF LeaveLoop, TypeOK
    <3> QED
      BY <2>2, <3>1, <3>2 DEF CountInv, InFlight
  <2> QED
    BY <1>2, <2>1, <2>3 DEF LeaveLoop, match, dirs, GameInv, PhaseInv, TallyInv,
       Remaining, TypeOK
<1>3. CASE FinishGame(t)
  <2>1. PICK r \in Results :
          game' = [game EXCEPT ![t] = [candIsBlack |-> game[t].candIsBlack, result |-> r]]
    BY <1>3 DEF FinishGame, TypeOK
  <2>2. game[t] \in Game
    BY <1>3 DEF FinishGame, GameInv
  <2>3. [candIsBlack |-> game[t].candIsBlack, result |-> r] \in Played
    BY <2>2 DEF Game, Played
  <2>4. game'[t] \in Played /\ game \in [Threads -> Game \cup Played \cup {NoGame}]
    BY <2>1, <2>3 DEF TypeOK
  <2>5. TypeOK'
    BY <1>3, <2>1, <2>3 DEF TypeOK, FinishGame, dirs, match
  <2>6. \A u \in Threads : game'[u] # NoGame <=> game[u] # NoGame
    BY <2>1, <2>2, <2>4, NoGameAssumption
  <2>7. InPlay' = InPlay
    BY <2>6 DEF InPlay
  <2>8. CountInv'
    BY <1>3, <2>7 DEF FinishGame, CountInv, InFlight, match, TypeOK
  <2>9. GameInv'
    BY <1>3, <2>1, <2>4 DEF FinishGame, GameInv, TypeOK
  <2> QED
    BY <1>3, <2>5, <2>8, <2>9 DEF FinishGame, match, dirs, PhaseInv, TallyInv,
       Remaining, TypeOK
<1>4. CASE DropGame(t)
  <2>1. game[t] # NoGame
    BY <1>4, NoGameAssumption DEF DropGame, GameInv
  <2>2. Cardinality(InPlay') = Cardinality(InPlay) - 1
    BY <1>4, <2>1, InPlayRemove DEF DropGame, TypeOK
  <2>3. TypeOK'
    BY <1>4 DEF TypeOK, DropGame, dirs, match
  <2>4. CountInv'
    BY <1>0, <1>4, <2>2 DEF DropGame, CountInv, InFlight, match, TypeOK
  <2> QED
    BY <1>4, <2>3, <2>4 DEF DropGame, match, dirs, GameInv, PhaseInv, TallyInv,
       Remaining, TypeOK
<1>5. CASE PushGame(t)
  <2>1. game[t] \in Played /\ game[t] # NoGame
    BY <1>5, NoGameAssumption DEF PushGame, GameInv
  <2>2. Cardinality(InPlay') = Cardinality(InPlay) - 1
    BY <1>5, <2>1, InPlayRemove DEF PushGame, TypeOK
  <2>3. ~readOnly /\ queue' = Append(queue, game[t])
    BY <1>5 DEF PushGame, PhaseInv
  <2>4. queue' \in Seq(Played) /\ Len(queue') = Len(queue) + 1
    BY <2>1, <2>3 DEF TypeOK
  <2>5. writer # "done"
    <3>1. pc # "poll" /\ pc # "compare" /\ pc # "loaded" /\ pc # "ended" /\ pc # "crashed"
      BY <1>5 DEF PushGame, PhaseInv
    <3> QED
      BY <2>3, <3>1 DEF PhaseInv, TypeOK
  <2>6. TypeOK'
    BY <1>5, <2>4 DEF TypeOK, PushGame, dirs
  <2>7. CountInv'
    BY <1>0, <1>5, <2>2, <2>4 DEF PushGame, CountInv, InFlight, TypeOK
  <2>8. PhaseInv'
    BY <1>5, <2>5 DEF PushGame, PhaseInv, TypeOK
  <2> QED
    BY <1>5, <2>6, <2>7, <2>8 DEF PushGame, dirs, GameInv, TallyInv, Remaining, TypeOK
<1> QED
  BY <1>1, <1>2, <1>3, <1>4, <1>5 DEF GameThread

\* The data write thread.
LEMMA WriterInv == ASSUME IInv, Writer PROVE IInv'
<1> USE DEF IInv
<1>0. Cardinality(InPlay) \in Nat /\ Len(queue) \in Nat
  BY InPlayFinite DEF TypeOK
<1>1. CASE TallyGame
  <2> DEFINE p == CandidatePoints(Head(queue))
  <2>1. queue # <<>> /\ Head(queue) \in Played /\ queue' = Tail(queue)
    BY <1>1 DEF TallyGame, TypeOK
  <2>2. queue' \in Seq(Played) /\ Len(queue') = Len(queue) - 1
    BY <2>1 DEF TypeOK
  <2>3. p \in 0..Unit
    BY <2>1, PointsRange
  <2>4. candPoints' = candPoints + p /\ basePoints' = basePoints + (Unit - p)
        /\ tallied' = tallied + 1 /\ Remaining' = Remaining - 1
    BY <1>1, PointsAssumption DEF TallyGame, TypeOK, Remaining
  <2> HIDE DEF p
  <2>5. candPoints' \in Nat /\ basePoints' \in Nat /\ tallied' \in Nat
    BY <2>3, <2>4, PointsAssumption DEF TypeOK
  <2>6. /\ writer = "popping"
        /\ UNCHANGED <<dirs, pc, shouldStop, candidate, loaded, dataIsWritten, readOnly,
                       started, paired, writer, thread, game>>
        /\ terminated' \in BOOLEAN
        /\ terminated => terminated'
        /\ terminated' => terminated \/ Clinched(candPoints', basePoints', Remaining')
    BY <1>1 DEF TallyGame, TypeOK
  <2>7. TypeOK'
    BY <2>2, <2>5, <2>6 DEF TypeOK, dirs
  <2>8. GameInv' /\ PhaseInv'
    BY <2>1, <2>6 DEF GameInv, PhaseInv, TypeOK
  <2>9. CountInv'
    <3>1. InPlay' = InPlay
      BY <2>6 DEF InPlay
    <3>2. tallied' + InFlight' = tallied + InFlight
      BY <1>0, <2>2, <2>4, <3>1 DEF InFlight, TypeOK
    <3> QED
      BY <2>6, <3>2 DEF CountInv
  <2>10. TallyInv'
    <3>1. terminated => Clinched(candPoints', basePoints', Remaining')
      <4>1. Remaining \in Int
        BY PointsAssumption DEF Remaining, TypeOK
      <4> QED
        BY <2>3, <2>4, <4>1, ClinchedStays DEF TallyInv, TypeOK
    <3>2. pc \notin {"accept", "reject"}
      BY <2>6 DEF PhaseInv
    <3> QED
      BY <2>6, <3>1, <3>2 DEF TallyInv
  <2> QED
    BY <2>7, <2>8, <2>9, <2>10
<1>2. CASE WriterEnds
  <2>1. TypeOK'
    BY <1>2 DEF TypeOK, WriterEnds, dirs, match
  <2> QED
    BY <1>2, <2>1 DEF WriterEnds, dirs, match, GameInv, PhaseInv, CountInv, InFlight,
       InPlay, TallyInv, Remaining, TypeOK
<1> QED
  BY <1>1, <1>2 DEF Writer

\* Every step preserves the invariant.
LEMMA StepInv == IInv /\ [Next]_vars => IInv'
<1> SUFFICES ASSUME IInv, [Next]_vars PROVE IInv'
  OBVIOUS
<1>1. CASE Next
  BY <1>1, EnvironmentInv, MainInv, WriterInv, GameThreadInv DEF Next
<1>2. CASE UNCHANGED vars
  BY <1>2 DEF vars, dirs, match, workers, IInv, TypeOK, GameInv, PhaseInv, CountInv,
     InFlight, InPlay, TallyInv, Remaining
<1> QED
  BY <1>1, <1>2

\* The invariant holds in every reachable state.
THEOREM Invariant == Spec => []IInv
BY InitInv, StepInv, PTL DEF Spec

-----------------------------------------------------------------------------
(* What the runs check, for every value of the constants.                  *)

\* Every variable has its type (TypeOK).
THEOREM TypeCorrect == Spec => []TypeOK
<1>1. IInv => TypeOK
  BY DEF IInv
<1> QED
  BY <1>1, Invariant, PTL

\* Every game counts once (EveryGameCounts): the assertion that no more games
\* are tallied than the match has never fails, and a judged match was played
\* out or terminated.
THEOREM GamesAreCounted == Spec => []EveryGameCounts
<1>1. IInv => EveryGameCounts
  <2> SUFFICES ASSUME IInv PROVE EveryGameCounts
    OBVIOUS
  <2>1. Cardinality(InPlay) \in Nat /\ Len(queue) \in Nat
    BY InPlayFinite DEF IInv, TypeOK
  <2> QED
    BY <2>1 DEF IInv, TypeOK, CountInv, InFlight, TallyInv, EveryGameCounts
<1> QED
  BY <1>1, Invariant, PTL

\* The verdict is the verdict of the whole match (VerdictIsFullMatch): early
\* termination never changes which net is used for self-play.
THEOREM VerdictIsRight == Spec => []VerdictIsFullMatch
<1>1. IInv => VerdictIsFullMatch
  <2> SUFFICES ASSUME IInv, pc \in {"accept", "reject"},
                      NEW x \in 0..(Unit * Remaining)
               PROVE  CandidateWins(candPoints + x, basePoints + (Unit * Remaining - x))
                      <=> pc = "accept"
    BY DEF VerdictIsFullMatch
  <2>1. Remaining \in Nat
    <3>1. Cardinality(InPlay) \in Nat /\ Len(queue) \in Nat
      BY InPlayFinite DEF IInv, TypeOK
    <3> QED
      BY <3>1, PointsAssumption DEF IInv, TypeOK, CountInv, InFlight, Remaining
  <2>2. Clinched(candPoints, basePoints, Remaining) \/ Remaining = 0
    BY PointsAssumption DEF IInv, TallyInv, Remaining
  <2>3. candPoints \in Nat /\ basePoints \in Nat
    BY DEF IInv, TypeOK
  <2>4. pc = "accept" <=> CandidateWins(candPoints, basePoints)
    BY DEF IInv, TallyInv
  <2> QED
    BY <2>1, <2>2, <2>3, <2>4, ClinchedDecides
<1> QED
  BY <1>1, Invariant, PTL

\* A match is deleted only after its game threads and its data write thread are
\* done with it (NetOutlivesItsUsers).
THEOREM NoUseAfterDelete == Spec => []NetOutlivesItsUsers
<1>1. IInv => NetOutlivesItsUsers
  BY DEF IInv, TypeOK, PhaseInv, NetOutlivesItsUsers
<1> QED
  BY <1>1, Invariant, PTL
=============================================================================
