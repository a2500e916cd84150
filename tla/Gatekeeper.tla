----------------------------- MODULE Gatekeeper -----------------------------
(***************************************************************************)
(* The gatekeeper (command/gatekeeper.cpp): it polls a directory of        *)
(* candidate nets, lets the newest one play a match against the newest     *)
(* accepted net, and moves its directory to the accepted or the rejected   *)
(* models.  The main thread, the game threads and the detached data write  *)
(* thread share one NetAndStuff, guarded by netAndStuffMutex; the pairing  *)
(* of the games is MatchPairer's (program/play.cpp).                       *)
(*                                                                         *)
(* Every critical section of netAndStuffMutex is one action: nothing in it *)
(* blocks, and getMatchupMutex is only taken inside it.  The wait for      *)
(* netAndStuffDataIsWritten is a guard: the flag is set and notified under *)
(* the mutex the waiter holds.                                             *)
(*                                                                         *)
(* A process that is killed loses everything but the directories, and the  *)
(* training loop starts it again (scripts/train/synchronous_loop.sh).      *)
(***************************************************************************)
EXTENDS Integers, Sequences, FiniteSets

CONSTANTS
  Models,             \* the candidate and accepted nets
  ModelTime,          \* the last write time of each net's directory
  Accepted,           \* the nets accepted before the process is first started
  Threads,            \* the game threads
  NumGames,           \* numGamesPerGating
  StartPoses,         \* how many start positions were loaded
  Unit,               \* the points of one game (1.0 in the code)
  DrawPoints,         \* white's points for a game without a result
  NoResultPoints,     \* white's points for a drawn or unfinished game
  QuitIfNoNetsToTest, NoAutoRejectOldModels,  \* the command line's switches
  MaxFaults,          \* bound: how often the process is killed or a rename fails
  NoModel, NoGame, NoPosition

ASSUME TimesAreNaturals == ModelTime \in [Models -> Nat] /\ Accepted \subseteq Models
ASSUME PointsAssumption ==
  /\ NumGames \in Nat /\ StartPoses \in Nat /\ Unit \in Nat \ {0}
  /\ DrawPoints \in 0..Unit /\ NoResultPoints \in 0..Unit
ASSUME SwitchesAssumption ==
  QuitIfNoNetsToTest \in BOOLEAN /\ NoAutoRejectOldModels \in BOOLEAN /\ MaxFaults \in Nat
ASSUME ThreadsAssumption == IsFiniteSet(Threads) /\ Threads # {}
ASSUME NoneAssumption == NoModel \notin Models /\ NoPosition \notin Nat

VARIABLES
  place,              \* the directory each net is in
  faults,             \* the crashes and failed renames so far
  pc,                 \* the main thread
  shouldStop,
  candidate,          \* the net found by the last poll
  loaded,             \* netAndStuff # NULL
  dataIsWritten,      \* netAndStuffDataIsWritten
  readOnly,           \* isDraining, and the queue set read-only
  started,            \* numGamesStartedSoFar
  paired,             \* the (position, candidate's colour) pairs handed out
  queue,              \* finishedGameQueue
  tallied, basePoints, candPoints, terminated,
  writer,             \* the data write thread
  thread, game        \* the game threads and the game each one holds

dirs == <<place, faults>>
match == <<started, paired, queue, tallied, basePoints, candPoints, terminated>>
workers == <<writer, thread, game>>
vars == <<dirs, pc, shouldStop, candidate, loaded, dataIsWritten, readOnly,
          match, workers>>

Results == {"black", "white", "noresult", "draw"}
Game == [position : Nat \cup {NoPosition}, candIsBlack : BOOLEAN]
Played == [candIsBlack : BOOLEAN, result : Results]

ASSUME NoGameAssumption == NoGame \notin Game \cup Played

TypeOK ==
  /\ place \in [Models -> {"away", "partial", "test", "accepted", "rejected"}]
  /\ faults \in 0..MaxFaults
  /\ pc \in {"poll", "compare", "loaded", "join", "written", "judge",
             "accept", "reject", "ended", "crashed"}
  /\ shouldStop \in BOOLEAN /\ candidate \in Models \cup {NoModel}
  /\ loaded \in BOOLEAN /\ dataIsWritten \in BOOLEAN /\ readOnly \in BOOLEAN
  /\ started \in 0..NumGames
  /\ paired \subseteq (Nat \cup {NoPosition}) \X BOOLEAN
  /\ queue \in Seq(Played)
  /\ tallied \in Nat
  /\ basePoints \in Nat /\ candPoints \in Nat /\ terminated \in BOOLEAN
  /\ writer \in {"none", "popping", "done"}
  /\ thread \in [Threads -> {"none", "looping", "playing", "pushing", "done"}]
  /\ game \in [Threads -> Game \cup Played \cup {NoGame}]

Init ==
  /\ place = [m \in Models |-> IF m \in Accepted THEN "accepted" ELSE "away"]
  /\ faults = 0
  /\ pc = "poll" /\ shouldStop = FALSE /\ candidate = NoModel
  /\ loaded = FALSE /\ dataIsWritten = FALSE /\ readOnly = FALSE
  /\ started = 0 /\ paired = {} /\ queue = <<>>
  /\ tallied = 0 /\ basePoints = 0 /\ candPoints = 0 /\ terminated = FALSE
  /\ writer = "none"
  /\ thread = [t \in Threads |-> "none"] /\ game = [t \in Threads |-> NoGame]

Alive == pc \notin {"ended", "crashed"}

-----------------------------------------------------------------------------
(* The directories and the operator.                                       *)

\* What the constructor of NetAndStuff and that of MatchPairer set.
NewMatch ==
  /\ started' = 0 /\ paired' = {} /\ queue' = <<>>
  /\ tallied' = 0 /\ basePoints' = 0 /\ candPoints' = 0 /\ terminated' = FALSE

\* Everything but the directories and the switches, as a new process has it.
NewProcess ==
  /\ shouldStop' = FALSE /\ candidate' = NoModel /\ loaded' = FALSE
  /\ dataIsWritten' = FALSE /\ readOnly' = FALSE
  /\ NewMatch
  /\ writer' = "none"
  /\ thread' = [t \in Threads |-> "none"] /\ game' = [t \in Threads |-> NoGame]

\* Training creates a candidate's directory, and the model file in it.
Arrive(m) ==
  /\ place[m] \in {"away", "partial"}
  /\ place' = [place EXCEPT ![m] = IF @ = "away" THEN "partial" ELSE "test"]
  /\ UNCHANGED <<faults, pc, shouldStop, candidate, loaded, dataIsWritten, readOnly, match, workers>>

\* SIGINT or SIGTERM.
Signal ==
  /\ Alive /\ ~shouldStop
  /\ shouldStop' = TRUE
  /\ UNCHANGED <<dirs, pc, candidate, loaded, dataIsWritten, readOnly, match, workers>>

\* The process is killed, or an exception leaves one of its threads.
Crash ==
  /\ Alive /\ faults < MaxFaults
  /\ faults' = faults + 1
  /\ pc' = "crashed"
  /\ NewProcess
  /\ UNCHANGED place

\* The training loop runs the gatekeeper again.
Restart ==
  /\ ~Alive
  /\ pc' = "poll"
  /\ NewProcess
  /\ UNCHANGED dirs

\* std::rename, whose result the code ignores.
Rename(m, dest) ==
  \/ place' = [place EXCEPT ![m] = dest] /\ UNCHANGED faults
  \/ /\ faults < MaxFaults
     /\ faults' = faults + 1
     /\ UNCHANGED place

\* LoadModel::findLatestModel over a set of directories.
IsLatest(m, models) == m \in models /\ \A o \in models : ModelTime[o] <= ModelTime[m]
TestDirs == {m \in Models : place[m] \in {"partial", "test"}}
AcceptedDirs == {m \in Models : place[m] = "accepted"}

-----------------------------------------------------------------------------
(* The main thread.                                                        *)

StopPolling ==
  /\ pc = "poll" /\ shouldStop
  /\ pc' = "ended"
  /\ UNCHANGED <<dirs, shouldStop, candidate, loaded, dataIsWritten, readOnly,
                 match, workers>>

\* The newest directory of the candidates, when it has a model file.
FindCandidate ==
  /\ pc = "poll" /\ ~shouldStop
  /\ \E m \in Models :
       /\ IsLatest(m, TestDirs) /\ place[m] = "test"
       /\ candidate' = m
  /\ pc' = "compare"
  /\ UNCHANGED <<dirs, shouldStop, loaded, dataIsWritten, readOnly, match, workers>>

\* No candidate: without -quit-if-no-nets-to-test the thread only sleeps.
QuitWithoutCandidate ==
  /\ pc = "poll" /\ ~shouldStop /\ QuitIfNoNetsToTest
  /\ TestDirs = {} \/ \E m \in Models : IsLatest(m, TestDirs) /\ place[m] = "partial"
  /\ shouldStop' = TRUE
  /\ UNCHANGED <<dirs, pc, candidate, loaded, dataIsWritten, readOnly, match, workers>>

OlderThanAccepted(m) == \E o \in AcceptedDirs : ModelTime[o] > ModelTime[m]

\* No net was loaded: that is the end for a program that was told to quit then.
AutoReject ==
  /\ pc = "compare" /\ OlderThanAccepted(candidate) /\ ~NoAutoRejectOldModels
  /\ Rename(candidate, "rejected")
  /\ candidate' = NoModel /\ pc' = "poll"
  /\ shouldStop' = (shouldStop \/ QuitIfNoNetsToTest)
  /\ UNCHANGED <<loaded, dataIsWritten, readOnly, match, workers>>

\* Both nets are loaded, and a new NetAndStuff is made for their match.
Load ==
  /\ pc = "compare" /\ (OlderThanAccepted(candidate) => NoAutoRejectOldModels)
  /\ loaded' = TRUE /\ pc' = "loaded"
  /\ NewMatch
  /\ UNCHANGED <<dirs, shouldStop, candidate, dataIsWritten, readOnly, workers>>

\* delete netAndStuff, on every way out of a match, whoever uses it.
Delete(next) ==
  /\ loaded' = FALSE /\ candidate' = NoModel /\ readOnly' = FALSE
  /\ NewMatch
  /\ pc' = next
  /\ UNCHANGED workers

StopBeforeMatch ==
  /\ pc = "loaded" /\ shouldStop
  /\ Delete("ended")
  /\ UNCHANGED <<dirs, shouldStop, dataIsWritten>>

Spawn ==
  /\ pc = "loaded" /\ ~shouldStop
  /\ dataIsWritten' = FALSE
  /\ writer' = "popping"
  /\ thread' = [t \in Threads |-> "looping"]
  /\ game' = [t \in Threads |-> NoGame]
  /\ pc' = "join"
  /\ UNCHANGED <<dirs, shouldStop, candidate, loaded, readOnly, match>>

\* All game threads are joined: markAsDraining.
Join ==
  /\ pc = "join" /\ \A t \in Threads : thread[t] = "done"
  /\ readOnly' = TRUE
  /\ pc' = "written"
  /\ UNCHANGED <<dirs, shouldStop, candidate, loaded, dataIsWritten, match, workers>>

\* A mistake: the wait for netAndStuffDataIsWritten is left out.
JudgeAtOnce ==
  /\ pc = "written"
  /\ pc' = "judge"
  /\ UNCHANGED <<dirs, shouldStop, candidate, loaded, dataIsWritten, readOnly,
                 match, workers>>

AwaitWritten ==
  /\ pc = "written" /\ dataIsWritten
  /\ pc' = "judge"
  /\ UNCHANGED <<dirs, shouldStop, candidate, loaded, dataIsWritten, readOnly,
                 match, workers>>

\* "Don't do anything if the reason we quit was due to signal"
StopAfterMatch ==
  /\ pc = "judge" /\ shouldStop
  /\ Delete("ended")
  /\ UNCHANGED <<dirs, shouldStop, dataIsWritten>>

CandidateWins(cand, base) == base <= cand

Judge ==
  /\ pc = "judge" /\ ~shouldStop
  /\ pc' = IF CandidateWins(candPoints, basePoints) THEN "accept" ELSE "reject"
  /\ UNCHANGED <<dirs, shouldStop, candidate, loaded, dataIsWritten, readOnly,
                 match, workers>>

Move ==
  /\ \/ pc = "accept" /\ Rename(candidate, "accepted")
     \/ pc = "reject" /\ Rename(candidate, "rejected")
  /\ Delete("poll")
  /\ UNCHANGED <<shouldStop, dataIsWritten>>

Main ==
  \/ StopPolling \/ FindCandidate \/ QuitWithoutCandidate \/ AutoReject \/ Load
  \/ StopBeforeMatch \/ Spawn \/ Join \/ AwaitWritten \/ StopAfterMatch
  \/ Judge \/ Move

-----------------------------------------------------------------------------
(* The game threads.                                                       *)

\* gameIndices holds every start position twice; past its end the read is of
\* memory that holds no position.
GamePosition(i) == IF i < 2 * StartPoses THEN i \div 2 ELSE NoPosition

\* MatchPairer::getMatchup: even games give the baseline black.
CandidateIsBlack(i) == i % 2 = 1

\* One turn of gameLoop under the mutex: it stops, or takes the next game.
NextGame(t) ==
  /\ thread[t] = "looping" /\ ~shouldStop /\ ~terminated /\ started < NumGames
  /\ started' = started + 1
  /\ LET g == [position |-> GamePosition(started' - 1),
               candIsBlack |-> CandidateIsBlack(started')] IN
       /\ game' = [game EXCEPT ![t] = g]
       /\ paired' = paired \cup {<<g.position, g.candIsBlack>>}
  /\ thread' = [thread EXCEPT ![t] = "playing"]
  /\ UNCHANGED <<dirs, pc, shouldStop, candidate, loaded, dataIsWritten, readOnly,
                 queue, tallied, basePoints, candPoints, terminated, writer>>

\* A mistake: the last game of the match is not played.
LeaveLoopEarly(t) ==
  /\ thread[t] = "looping" /\ (shouldStop \/ terminated \/ started + 1 >= NumGames)
  /\ thread' = [thread EXCEPT ![t] = "done"]
  /\ UNCHANGED <<dirs, pc, shouldStop, candidate, loaded, dataIsWritten, readOnly,
                 match, writer, game>>

LeaveLoop(t) ==
  /\ thread[t] = "looping" /\ (shouldStop \/ terminated \/ started >= NumGames)
  /\ thread' = [thread EXCEPT ![t] = "done"]
  /\ UNCHANGED <<dirs, pc, shouldStop, candidate, loaded, dataIsWritten, readOnly,
                 match, writer, game>>

\* GameRunner::runGame returns a game unless a stop condition is set at its end.
FinishGame(t) ==
  /\ thread[t] = "playing" /\ ~shouldStop /\ ~terminated
  /\ \E r \in Results :
       game' = [game EXCEPT ![t] = [candIsBlack |-> @.candIsBlack, result |-> r]]
  /\ thread' = [thread EXCEPT ![t] = "pushing"]
  /\ UNCHANGED <<dirs, pc, shouldStop, candidate, loaded, dataIsWritten, readOnly,
                 match, writer>>

DropGame(t) ==
  /\ thread[t] = "playing" /\ (shouldStop \/ terminated)
  /\ game' = [game EXCEPT ![t] = NoGame]
  /\ thread' = [thread EXCEPT ![t] = "done"]
  /\ UNCHANGED <<dirs, pc, shouldStop, candidate, loaded, dataIsWritten, readOnly,
                 match, writer>>

\* waitPush, and back to the head of the loop.  A push to a read-only queue
\* would be refused.
PushGame(t) ==
  /\ thread[t] = "pushing"
  /\ queue' = IF readOnly THEN queue ELSE Append(queue, game[t])
  /\ game' = [game EXCEPT ![t] = NoGame]
  /\ thread' = [thread EXCEPT ![t] = "looping"]
  /\ UNCHANGED <<dirs, pc, shouldStop, candidate, loaded, dataIsWritten, readOnly,
                 started, paired, tallied, basePoints, candPoints, terminated, writer>>

GameThread(t) == NextGame(t) \/ LeaveLoop(t) \/ FinishGame(t) \/ DropGame(t) \/ PushGame(t)

-----------------------------------------------------------------------------
(* The data write thread.                                                  *)

WhitePoints(r) ==
  CASE r = "black" -> 0
    [] r = "white" -> Unit
    [] r = "noresult" -> DrawPoints
    [] r = "draw" -> NoResultPoints

CandidatePoints(g) ==
  IF g.candIsBlack THEN Unit - WhitePoints(g.result) ELSE WhitePoints(g.result)

Remaining == NumGames - tallied

\* A mistake: the game that was just tallied still counts as played.
ClinchedTooSoon(cand, base, remaining) ==
  \/ cand >= base + Unit * (remaining - 1)
  \/ base > cand + Unit * (remaining - 1)

\* "Terminate games if one side has won enough to guarantee the victory."
Clinched(cand, base, remaining) ==
  \/ cand >= base + Unit * remaining
  \/ base > cand + Unit * remaining

TallyGame ==
  /\ writer = "popping" /\ queue # <<>>
  /\ queue' = Tail(queue)
  /\ tallied' = tallied + 1
  /\ candPoints' = candPoints + CandidatePoints(Head(queue))
  /\ basePoints' = basePoints + (Unit - CandidatePoints(Head(queue)))
  /\ terminated' = (terminated \/ (Remaining' > 0 /\ Clinched(candPoints', basePoints', Remaining')))
  /\ UNCHANGED <<dirs, pc, shouldStop, candidate, loaded, dataIsWritten, readOnly,
                 started, paired, writer, thread, game>>

\* A mistake: the write thread does not say that it has written everything.
WriterEndsSilently ==
  /\ writer = "popping" /\ queue = <<>> /\ readOnly
  /\ writer' = "done"
  /\ UNCHANGED <<dirs, pc, shouldStop, candidate, loaded, dataIsWritten, readOnly,
                 match, thread, game>>

WriterEnds ==
  /\ writer = "popping" /\ queue = <<>> /\ readOnly
  /\ dataIsWritten' = TRUE
  /\ writer' = "done"
  /\ UNCHANGED <<dirs, pc, shouldStop, candidate, loaded, readOnly, match, thread, game>>

Writer == TallyGame \/ WriterEnds

-----------------------------------------------------------------------------

Next ==
  \/ \E m \in Models : Arrive(m)
  \/ Signal \/ Crash \/ Restart
  \/ Main \/ Writer
  \/ \E t \in Threads : GameThread(t)

Spec == Init /\ [][Next]_vars

\* Every thread of the process is scheduled, and every game it plays is finite;
\* nothing forces a candidate to arrive, a signal, a crash or a restart.
Fairness ==
  /\ WF_vars(Main) /\ WF_vars(Writer)
  /\ \A t \in Threads : WF_vars(GameThread(t))

FairSpec == Spec /\ Fairness

-----------------------------------------------------------------------------
(* Properties.                                                             *)

InPlay == {t \in Threads : game[t] # NoGame}

\* A verdict, whether the match was played out or cut short, is the verdict of
\* the whole match: no result of the games that were not tallied, dropped ones
\* included, would change it (gatekeeper.cpp:157-169 and 527).
VerdictIsFullMatch ==
  pc \in {"accept", "reject"} =>
    \A x \in 0..(Unit * Remaining) :
      CandidateWins(candPoints + x, basePoints + (Unit * Remaining - x)) <=> pc = "accept"

\* A game that was started is in play, queued or tallied, exactly once, unless
\* the match is being stopped; the write thread never sees more games than the
\* match has (the assertion of gatekeeper.cpp:159), and a match that is judged
\* without being terminated has tallied all of them.
EveryGameCounts ==
  /\ tallied + Len(queue) + Cardinality(InPlay) <= started
  /\ ~shouldStop /\ ~terminated => tallied + Len(queue) + Cardinality(InPlay) = started
  /\ pc \in {"accept", "reject"} /\ ~terminated => tallied = NumGames

\* Nothing uses the NetAndStuff of a match after it is deleted, and the game
\* threads register and push only while it is not draining (gatekeeper.cpp:180).
NetOutlivesItsUsers ==
  /\ ~loaded => /\ writer # "popping"
                /\ \A t \in Threads : thread[t] \in {"none", "done"}
  /\ readOnly => \A t \in Threads : thread[t] \in {"none", "done"}

\* Every game of the gatekeeper starts from a position that was loaded.
StartPositionExists == \A g \in paired : g[1] # NoPosition

\* A candidate that has its model file is judged sooner or later, unless a newer
\* directory has no model file yet, or the process ends first; and a process
\* that is told to stop ends, whatever its threads are doing.
GatekeeperProgress ==
  /\ \A m \in Models :
       place[m] = "test" ~> \/ place[m] # "test" \/ ~Alive
                           \/ \E o \in Models : place[o] = "partial"
  /\ shouldStop ~> ~Alive
=============================================================================
