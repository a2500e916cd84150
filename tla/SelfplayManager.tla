----------------------------- MODULE SelfplayManager ----------------------------
(***************************************************************************)
(* program/selfplaymanager.cpp as command/selfplay.cpp uses it: the game   *)
(* threads acquire the latest neural net, play games with it, changing to  *)
(* a newer net in the middle of a game, and hand each finished game to the *)
(* data write loop of its net; a loader thread adds new nets; a net that   *)
(* is not the latest goes as soon as nobody has acquired it, its data      *)
(* written and its ModelData deleted by its write loop.                    *)
(*                                                                         *)
(* Nets are numbered as they are loaded.  A step that the code makes under *)
(* managerMutex is one step.                                               *)
(***************************************************************************)
EXTENDS Naturals, Sequences, FiniteSets

CONSTANTS Players,        \* the game threads
          MaxModels,      \* bounds the number of nets
          maxGamesTotal, maxDataQueueSize

ASSUME SelfplayAssumption == /\ IsFiniteSet(Players) /\ MaxModels \in Nat \ {0}
                             /\ maxGamesTotal \in Nat /\ maxDataQueueSize \in Nat \ {0}

Models == 1 .. MaxModels
Games == 1 .. maxGamesTotal

VARIABLES
  loaded,          \* how many nets were loaded
  modelDatas,      \* those that the manager tracks
  acquireCount,
  finishedGameQueue, readOnly,  \* of each ModelData
  deleted,         \* the ModelData that were deleted, and their nets with them
  numDataWriteLoopsActive,
  loop,            \* what the data write loop of each net is doing
  unflushed, stored,  \* the games its writers hold and those they wrote to disk
  at, nnEval, newNNEval, game,  \* a game thread, and its locals
  bots,            \* the net its bots use
  numGamesStarted, finished,    \* the games that were begun and played to the end
  shouldStop, loader, main

managed == <<loaded, modelDatas, acquireCount, numDataWriteLoopsActive>>
dataVars == <<finishedGameQueue, readOnly>>
loopVars == <<loop, unflushed, stored, deleted>>
playerVars == <<at, nnEval, newNNEval, game, bots, numGamesStarted, finished>>
mainVars == <<shouldStop, loader, main>>
vars == <<loaded, modelDatas, acquireCount, finishedGameQueue, readOnly, deleted,
          numDataWriteLoopsActive, loop, unflushed, stored, at, nnEval, newNNEval, game,
          bots, numGamesStarted, finished, shouldStop, loader, main>>

\* The first net is loaded before the threads are started.
Init ==
  /\ loaded = 1 /\ modelDatas = {1} /\ deleted = {}
  /\ acquireCount = [m \in Models |-> 0]
  /\ finishedGameQueue = [m \in Models |-> <<>>] /\ readOnly = [m \in Models |-> FALSE]
  /\ numDataWriteLoopsActive = 1
  /\ loop = [m \in Models |-> IF m = 1 THEN "popping" ELSE "none"]
  /\ unflushed = [m \in Models |-> {}] /\ stored = {}
  /\ at = [p \in Players |-> "idle"] /\ game = [p \in Players |-> 0]
  /\ nnEval = [p \in Players |-> 0] /\ newNNEval = [p \in Players |-> 0]
  /\ bots = [p \in Players |-> 0]
  /\ numGamesStarted = 0 /\ finished = {}
  /\ shouldStop = FALSE /\ loader = "polling" /\ main = "joining"

Latest(S) == CHOOSE m \in S : \A n \in S : n <= m

\* Which nets maybeAutoCleanupAlreadyLocked lets go.
Unused(S, count) == {m \in S : count[m] = 0 /\ m # Latest(S)}

\* The manager tracks the nets S, acquired as in count, but for the unused ones:
\* their write loops will quit once they reach the end of their queues.
TrackUsed(S, count) ==
  /\ modelDatas' = S \ Unused(S, count)
  /\ acquireCount' = count
  /\ readOnly' = [m \in Models |-> readOnly[m] \/ m \in Unused(S, count)]

--------------------------------------------------------------------------------
\* The manager's functions.

LoadModel ==
  /\ loader = "polling" /\ ~shouldStop /\ loaded < MaxModels
  /\ loaded' = loaded + 1
  /\ TrackUsed(modelDatas \cup {loaded + 1}, acquireCount)
  /\ numDataWriteLoopsActive' = numDataWriteLoopsActive + 1
  /\ loop' = [loop EXCEPT ![loaded + 1] = "popping"]
  /\ UNCHANGED <<finishedGameQueue, unflushed, stored, deleted, playerVars, mainVars>>

\* What acquireLatest and release make of acquireCount.
Acquired(m) == [acquireCount EXCEPT ![m] = @ + 1]
Released(m) == [acquireCount EXCEPT ![m] = @ - 1]

\* A mistake: an unused net stays until the next one is loaded.
ReleaseOnly(m) ==
  /\ acquireCount' = Released(m)
  /\ UNCHANGED <<loaded, modelDatas, readOnly, numDataWriteLoopsActive>>

Release(m) ==
  /\ IF m \in modelDatas
     THEN TrackUsed(modelDatas, Released(m))
     ELSE UNCHANGED <<modelDatas, acquireCount, readOnly>>
  /\ UNCHANGED <<loaded, numDataWriteLoopsActive>>

--------------------------------------------------------------------------------
\* gameLoop of selfplay.cpp, thread p.

Become(p, where) == at' = [at EXCEPT ![p] = where]

AcquireLatest(p) ==
  /\ at[p] = "idle" /\ ~shouldStop
  /\ Become(p, "acquired")
  /\ nnEval' = [nnEval EXCEPT ![p] = Latest(modelDatas)]
  /\ acquireCount' = Acquired(Latest(modelDatas))
  /\ UNCHANGED <<loaded, modelDatas, numDataWriteLoopsActive, dataVars, loopVars, newNNEval,
                 game, bots, numGamesStarted, finished, mainVars>>

Exit(p) ==
  /\ at[p] = "idle" /\ shouldStop
  /\ Become(p, "exited")
  /\ UNCHANGED <<managed, dataVars, loopVars, nnEval, newNNEval, game, bots,
                 numGamesStarted, finished, mainVars>>

StartGame(p) ==
  /\ at[p] = "acquired"
  /\ numGamesStarted' = numGamesStarted + 1
  /\ IF numGamesStarted < maxGamesTotal
     THEN /\ Become(p, "playing")
          /\ game' = [game EXCEPT ![p] = numGamesStarted + 1]
          /\ bots' = [bots EXCEPT ![p] = nnEval[p]]
     ELSE Become(p, "stopping") /\ UNCHANGED <<game, bots>>
  /\ UNCHANGED <<managed, dataVars, loopVars, nnEval, newNNEval, finished, mainVars>>

\* checkForNewNNEval, between two moves ...
CheckForNewNNEval(p) ==
  /\ at[p] = "playing"
  /\ Become(p, "checking")
  /\ newNNEval' = [newNNEval EXCEPT ![p] = Latest(modelDatas)]
  /\ acquireCount' = Acquired(Latest(modelDatas))
  /\ UNCHANGED <<loaded, modelDatas, numDataWriteLoopsActive, dataVars, loopVars, nnEval,
                 game, bots, numGamesStarted, finished, mainVars>>

KeepNNEval(p) ==
  /\ at[p] = "checking" /\ newNNEval[p] = nnEval[p]
  /\ Become(p, "playing")
  /\ Release(newNNEval[p])
  /\ UNCHANGED <<finishedGameQueue, loopVars, nnEval, newNNEval, game, bots,
                 numGamesStarted, finished, mainVars>>

ChangeNNEval(p) ==
  /\ at[p] = "checking" /\ newNNEval[p] # nnEval[p]
  /\ Become(p, "changing")
  /\ Release(nnEval[p])
  /\ nnEval' = [nnEval EXCEPT ![p] = newNNEval[p]]
  /\ UNCHANGED <<finishedGameQueue, loopVars, newNNEval, game, bots,
                 numGamesStarted, finished, mainVars>>

\* A mistake: the bots keep the net they have.
KeepBots(p) ==
  /\ at[p] = "changing"
  /\ Become(p, "playing")
  /\ UNCHANGED <<managed, dataVars, loopVars, nnEval, newNNEval, game, bots,
                 numGamesStarted, finished, mainVars>>

\* ... and the rest of maybeCheckForNewNNEval.
SetNNEval(p) ==
  /\ at[p] = "changing"
  /\ Become(p, "playing")
  /\ bots' = [bots EXCEPT ![p] = nnEval[p]]
  /\ UNCHANGED <<managed, dataVars, loopVars, nnEval, newNNEval, game,
                 numGamesStarted, finished, mainVars>>

\* runGame returns the game, or NULL when the program should stop.
FinishGame(p) ==
  /\ at[p] = "playing"
  /\ IF shouldStop THEN Become(p, "stopping") /\ UNCHANGED finished
                   ELSE Become(p, "finished") /\ finished' = finished \cup {game[p]}
  /\ UNCHANGED <<managed, dataVars, loopVars, nnEval, newNNEval, game, bots,
                 numGamesStarted, mainVars>>

\* enqueueDataToWrite finds the ModelData and drops the lock ...
FindModel(p) ==
  /\ at[p] = "finished" /\ nnEval[p] \in modelDatas
  /\ Become(p, "pushing")
  /\ UNCHANGED <<managed, dataVars, loopVars, nnEval, newNNEval, game, bots,
                 numGamesStarted, finished, mainVars>>

\* ... for waitPush, which refuses a game when the queue is read-only.
WaitPush(p) ==
  /\ at[p] = "pushing"
  /\ LET m == nnEval[p] IN
       \/ readOnly[m] /\ UNCHANGED finishedGameQueue
       \/ /\ ~readOnly[m] /\ Len(finishedGameQueue[m]) < maxDataQueueSize
          /\ finishedGameQueue' = [finishedGameQueue EXCEPT ![m] = Append(@, game[p])]
  /\ Become(p, "pushed")
  /\ UNCHANGED <<managed, readOnly, loopVars, nnEval, newNNEval, game, bots,
                 numGamesStarted, finished, mainVars>>

\* A game thread whose game was interrupted leaves.
ReleaseNNEval(p) ==
  /\ at[p] \in {"pushed", "stopping"}
  /\ Become(p, IF at[p] = "stopping" THEN "exited" ELSE "idle")
  /\ Release(nnEval[p])
  /\ UNCHANGED <<finishedGameQueue, loopVars, nnEval, newNNEval, game, bots,
                 numGamesStarted, finished, mainVars>>

--------------------------------------------------------------------------------
\* runDataWriteLoopImpl of the net m.

LoopBecomes(m, where) == loop' = [loop EXCEPT ![m] = where]

WriteGame(m) ==
  /\ loop[m] = "popping" /\ finishedGameQueue[m] # <<>>
  /\ unflushed' = [unflushed EXCEPT ![m] = @ \cup {Head(finishedGameQueue[m])}]
  /\ finishedGameQueue' = [finishedGameQueue EXCEPT ![m] = Tail(@)]
  /\ UNCHANGED <<managed, readOnly, loop, stored, deleted, playerVars, mainVars>>

\* A writer writes a file whenever it has enough rows.
FillFile(m) ==
  /\ loop[m] = "popping" /\ unflushed[m] # {}
  /\ stored' = stored \cup unflushed[m]
  /\ unflushed' = [unflushed EXCEPT ![m] = {}]
  /\ UNCHANGED <<managed, dataVars, loop, deleted, playerVars, mainVars>>

\* A mistake: what the read-only queue still holds is left there.
EndOfReadOnly(m) ==
  /\ loop[m] = "popping" /\ readOnly[m]
  /\ LoopBecomes(m, "ended")
  /\ UNCHANGED <<managed, dataVars, unflushed, stored, deleted, playerVars, mainVars>>

EndOfQueue(m) ==
  /\ loop[m] = "popping" /\ finishedGameQueue[m] = <<>> /\ readOnly[m]
  /\ LoopBecomes(m, "ended")
  /\ UNCHANGED <<managed, dataVars, unflushed, stored, deleted, playerVars, mainVars>>

FlushIfNonempty(m) ==
  /\ loop[m] = "ended"
  /\ LoopBecomes(m, "flushed")
  /\ stored' = stored \cup unflushed[m]
  /\ unflushed' = [unflushed EXCEPT ![m] = {}]
  /\ UNCHANGED <<managed, dataVars, deleted, playerVars, mainVars>>

DeleteModelData(m) ==
  /\ loop[m] = "flushed"
  /\ LoopBecomes(m, "deleted")
  /\ deleted' = deleted \cup {m}
  /\ UNCHANGED <<managed, dataVars, unflushed, stored, playerVars, mainVars>>

\* A mistake: the destructor is not notified.
NobodyWaits == UNCHANGED main

NotifyLoopsAreDone ==
  main' = IF numDataWriteLoopsActive' = 0 /\ main = "asleep" THEN "waiting" ELSE main

CheckBackIn(m) ==
  /\ loop[m] = "deleted"
  /\ LoopBecomes(m, "none")
  /\ numDataWriteLoopsActive' = numDataWriteLoopsActive - 1
  /\ NotifyLoopsAreDone
  /\ UNCHANGED <<loaded, modelDatas, acquireCount, dataVars, unflushed, stored, deleted,
                 playerVars, shouldStop, loader>>

--------------------------------------------------------------------------------
\* The rest of selfplay.cpp: a signal, the loader's end, and the main thread.

Signal ==
  /\ main = "joining" /\ ~shouldStop
  /\ shouldStop' = TRUE
  /\ UNCHANGED <<managed, dataVars, loopVars, playerVars, loader, main>>

LoaderExits ==
  /\ loader = "polling" /\ shouldStop
  /\ loader' = "exited"
  /\ UNCHANGED <<managed, dataVars, loopVars, playerVars, shouldStop, main>>

GameThreadsAreJoined ==
  /\ main = "joining" /\ \A p \in Players : at[p] = "exited"
  /\ main' = "joiningLoader" /\ shouldStop' = TRUE
  /\ UNCHANGED <<managed, dataVars, loopVars, playerVars, loader>>

\* ~SelfplayManager.
DeleteManager ==
  /\ main = "joiningLoader" /\ loader = "exited"
  /\ main' = "waiting"
  /\ readOnly' = [m \in Models |-> readOnly[m] \/ m \in modelDatas]
  /\ modelDatas' = {}
  /\ UNCHANGED <<loaded, acquireCount, numDataWriteLoopsActive, finishedGameQueue,
                 loopVars, playerVars, shouldStop, loader>>

WaitForLoops ==
  /\ main = "waiting"
  /\ main' = IF numDataWriteLoopsActive > 0 THEN "asleep" ELSE "done"
  /\ UNCHANGED <<managed, dataVars, loopVars, playerVars, shouldStop, loader>>

SpuriousWakeup ==
  /\ main = "asleep" /\ main' = "waiting"
  /\ UNCHANGED <<managed, dataVars, loopVars, playerVars, shouldStop, loader>>

--------------------------------------------------------------------------------
PlayerStep(p) ==
  \/ AcquireLatest(p) \/ Exit(p) \/ StartGame(p) \/ KeepNNEval(p) \/ ChangeNNEval(p)
  \/ SetNNEval(p) \/ FindModel(p) \/ WaitPush(p) \/ ReleaseNNEval(p)

LoopStep(m) ==
  WriteGame(m) \/ EndOfQueue(m) \/ FlushIfNonempty(m) \/ DeleteModelData(m) \/ CheckBackIn(m)

MainStep == LoaderExits \/ GameThreadsAreJoined \/ DeleteManager \/ WaitForLoops

Next ==
  \/ \E p \in Players : PlayerStep(p) \/ CheckForNewNNEval(p) \/ FinishGame(p)
  \/ \E m \in Models : LoopStep(m) \/ FillFile(m)
  \/ LoadModel \/ Signal \/ MainStep \/ SpuriousWakeup

Spec == Init /\ [][Next]_vars

\* A game ends; it may look for a new net again and again before it does.  New
\* nets need not come, nor a signal.
FairSpec ==
  /\ Spec /\ WF_vars(MainStep)
  /\ \A p \in Players : WF_vars(PlayerStep(p)) /\ SF_vars(FinishGame(p))
  /\ \A m \in Models : WF_vars(LoopStep(m))

--------------------------------------------------------------------------------

\* The values the variables range over.
TypeOK ==
  /\ loaded \in Models /\ modelDatas \in SUBSET Models /\ deleted \in SUBSET Models
  /\ acquireCount \in [Models -> Nat] /\ numDataWriteLoopsActive \in Nat
  /\ finishedGameQueue \in [Models -> Seq(Games)] /\ readOnly \in [Models -> BOOLEAN]
  /\ loop \in [Models -> {"none", "popping", "ended", "flushed", "deleted"}]
  /\ unflushed \in [Models -> SUBSET Games] /\ stored \in SUBSET Games
  /\ at \in [Players -> {"idle", "acquired", "playing", "checking", "changing", "finished",
                         "pushing", "pushed", "stopping", "exited"}]
  /\ nnEval \in [Players -> {0} \cup Models] /\ newNNEval \in [Players -> {0} \cup Models]
  /\ bots \in [Players -> {0} \cup Models] /\ game \in [Players -> {0} \cup Games]
  /\ numGamesStarted \in Nat /\ finished \in SUBSET Games
  /\ shouldStop \in BOOLEAN /\ loader \in {"polling", "exited"}
  /\ main \in {"joining", "joiningLoader", "waiting", "asleep", "done"}

\* "cease using the NNEvaluator after that": what a game searches with, and the
\* ModelData of a push that has dropped the lock ("it won't be cleaned up
\* underneath us"), are tracked and acquired, though a switch of nets releases
\* the net that the bots still hold.
UsedModelsAreTracked ==
  \A p \in Players :
    /\ at[p] \in {"acquired", "playing", "checking", "changing", "finished", "pushing",
                  "pushed", "stopping"}
         => nnEval[p] \in modelDatas /\ acquireCount[nnEval[p]] > 0 /\ ~readOnly[nnEval[p]]
    /\ at[p] \in {"playing", "checking", "finished"} => bots[p] = nnEval[p]

\* autoCleanupAllButLatestIfUnused: the nets on the GPUs are the latest and those
\* that games still use.
OnlyUsedOrLatest ==
  \A m \in modelDatas : m = Latest(modelDatas) \/ acquireCount[m] > 0

\* A net is in memory exactly as long as somebody needs it.
ModelsLiveAsLongAsUsed == TypeOK /\ UsedModelsAreTracked /\ OnlyUsedOrLatest

\* The assertions of a data write loop that ends: nobody has acquired its net,
\* the manager does not track it, and the last loop to end leaves no net behind.
LoopEndsAlone ==
  /\ \A m \in Models : loop[m] \in {"ended", "flushed", "deleted"}
                         => acquireCount[m] = 0 /\ m \notin modelDatas
  /\ (numDataWriteLoopsActive = 0) => modelDatas = {}

\* A finished game is on its way to the disk of one net, wherever it is, and it
\* is there when the manager is gone.
InQueue(m) == {finishedGameQueue[m][i] : i \in 1 .. Len(finishedGameQueue[m])}

NoGameIsLost ==
  /\ \A g \in finished :
       \/ g \in stored
       \/ \E m \in Models : g \in InQueue(m) \cup unflushed[m] /\ m \notin deleted
       \/ \E p \in Players : game[p] = g /\ at[p] \in {"finished", "pushing"}
  /\ main = "done" => finished \subseteq stored

\* A data write loop ends when it should, and what was finished has been written.
GamesReachTheDisk == LoopEndsAlone /\ NoGameIsLost

\* Once it should stop, the program ends, whatever games and queues were full of.
StopEnds == shouldStop ~> main = "done"
================================================================================
