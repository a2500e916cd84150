------------------------------- MODULE Contribute -------------------------------
(***************************************************************************)
(* command/contribute.cpp with the downloads of distributed/client.cpp:    *)
(* task loops take turns under taskLoopMutex to ask a server for tasks,    *)
(* drop the mutex while they download the nets of their task, load the     *)
(* nets into one of two managers (program/selfplaymanager.cpp, without     *)
(* data write loops), and hand each task to the game threads as            *)
(* taskRepFactor games.  A game thread plays a game, uploads it, and       *)
(* releases the nets.  A further thread downloads new nets in advance.     *)
(*                                                                         *)
(* Nothing in the program calls lockLowPriority of a PriorityMutex:        *)
(* PriorityLock::lockLowPriority calls lockHighPriority, which is          *)
(* mutex.lock() whoever else waits.  taskLoopMutex is a plain mutex here.  *)
(***************************************************************************)
EXTENDS Integers, Sequences, FiniteSets

CONSTANTS Loops, Players, PreDownloader,   \* the threads
          Models, NoThread, NoTask,
          ServerTasks, NewestModels,       \* what the server may answer
          taskRepFactor, maxRatingMatches,
          MaxSimulDownloads,               \* MAX_SIMUL_DOWNLOADS
          MaxTries,                        \* of a download from its start
          MaxTasks                         \* bounds the tasks that the server gives

Managers == {"selfplay", "rating"}
Sides == {"black", "white"}

\* The games that a task is handed out as.
GameTasks == [rating : BOOLEAN, model : [Sides -> Models], manager : [Sides -> Managers]]

ASSUME ContributeAssumption ==
  /\ NewestModels \subseteq Models
  /\ ServerTasks \subseteq [rating : BOOLEAN, model : [Sides -> Models]]
  /\ IsFiniteSet(Loops) /\ IsFiniteSet(Players) /\ IsFiniteSet(Models) /\ Players # {}
  /\ Loops \cap Players = {} /\ PreDownloader \notin Loops \cup Players
  /\ NoThread \notin Loops \cup Players \cup {PreDownloader}
  /\ NoTask \notin ServerTasks \cup GameTasks
  /\ taskRepFactor \in Nat \ {0} /\ maxRatingMatches \in Nat
  /\ MaxSimulDownloads \in Nat \ {0} /\ MaxTries \in Nat \ {0} /\ MaxTasks \in Nat

Downloaders == Loops \cup {PreDownloader}
Threads == Downloaders \cup Players

VARIABLES
  at,            \* where each thread is
  taskLock,      \* who holds taskLoopMutex
  task,          \* of each task loop
  allowRating,   \* whether it asked for rating games too
  numTasks,      \* tasks that the server has given
  files,         \* the nets in modelsDir
  downloads,     \* who downloads each net: downloadStateByUrl
  todo, fetched, \* nets that a thread has yet to get, and whether all went well so far
  tries,         \* which attempt a download is making
  loaded, acquireCount,         \* of each manager
  uploader,      \* the game thread that holds selfplayManager's mutex as it uploads
  rep, nextGame, \* games handed on of a task, and the game to hand on next
  gameTaskQueue, readOnly,
  game,          \* the game of a game thread
  numRatingGamesActive,
  shouldStop, main

taskVars == <<taskLock, task, allowRating, numTasks>>
downloadVars == <<files, downloads, todo, fetched, tries>>
managerVars == <<loaded, acquireCount, uploader>>
gameVars == <<rep, nextGame, gameTaskQueue, readOnly, game, numRatingGamesActive>>
mainVars == <<shouldStop, main>>
vars == <<at, taskLock, task, allowRating, numTasks, files, downloads, todo, fetched, tries,
          loaded, acquireCount, uploader, rep, nextGame, gameTaskQueue, readOnly, game,
          numRatingGamesActive, shouldStop, main>>

\* Nets may be left in modelsDir by an earlier process, which ended in any way.
Init ==
  /\ at = [t \in Threads |-> CASE t \in Loops -> "idle" [] t \in Players -> "popping"
                               [] OTHER -> "resting"]
  /\ taskLock = NoThread /\ task = [l \in Loops |-> NoTask]
  /\ allowRating = [l \in Loops |-> FALSE] /\ numTasks = 0
  /\ files \in SUBSET Models /\ downloads = [m \in Models |-> NoThread]
  /\ todo = [t \in Downloaders |-> <<>>] /\ fetched = [t \in Downloaders |-> TRUE]
  /\ tries = [t \in Downloaders |-> 0]
  /\ loaded = [s \in Managers |-> {}] /\ uploader = NoThread
  /\ acquireCount = [s \in Managers |-> [m \in Models |-> 0]]
  /\ rep = [l \in Loops |-> 0] /\ nextGame = [l \in Loops |-> NoTask]
  /\ gameTaskQueue = <<>> /\ readOnly = FALSE
  /\ game = [p \in Players |-> NoTask] /\ numRatingGamesActive = 0
  /\ shouldStop = FALSE /\ main = "joiningLoops"

Become(t, where) == at' = [at EXCEPT ![t] = where]

\* An exception that nobody catches, or undefined behaviour: the process is gone.
Die == main' = "died" /\ UNCHANGED shouldStop

\* The exception for a task of another run, which comes at any time.
Refuse == main' = "refused" /\ UNCHANGED shouldStop

IsGone == main \in {"ended", "died", "refused"}

--------------------------------------------------------------------------------
\* downloadModelIfNotPresent, thread t for the net Head(todo[t]).

Wanted(t) == Head(todo[t])

\* Where a caller goes on when there is no other net to get.
AfterDownloads(t) == IF t = PreDownloader THEN "resting" ELSE "relock"

Returned(t, suc) ==
  /\ todo' = [todo EXCEPT ![t] = Tail(@)]
  /\ fetched' = [fetched EXCEPT ![t] = t = PreDownloader \/ (@ /\ suc)]
  /\ Become(t, IF Len(todo[t]) = 1 THEN AfterDownloads(t) ELSE "fetch")

\* No other thread is downloading it.
IsFirst(t) == downloads[Wanted(t)] = NoThread

Fetch(t) ==
  /\ at[t] = "fetch"
  /\ IF Wanted(t) \in files \/ shouldStop
     THEN Returned(t, Wanted(t) \in files) /\ UNCHANGED downloads
     ELSE /\ IF IsFirst(t)
             THEN downloads' = [downloads EXCEPT ![Wanted(t)] = t] /\ Become(t, "throttled")
             ELSE Become(t, "waiting") /\ UNCHANGED downloads
          /\ UNCHANGED <<todo, fetched>>
  /\ UNCHANGED <<files, tries, taskVars, managerVars, gameVars, mainVars>>

\* ThrottleLockGuard
Throttle(t) ==
  /\ at[t] = "throttled"
  /\ Cardinality({d \in Downloaders : at[d] = "receiving"}) < MaxSimulDownloads
  /\ Become(t, "receiving")
  /\ tries' = [tries EXCEPT ![t] = 1]
  /\ UNCHANGED <<files, downloads, todo, fetched, taskVars, managerVars, gameVars, mainVars>>

\* fInner gave up resuming the download, or the file has not the right size or contents (the
\* server's data is appended to the temporary file whatever its status, also when it sends the
\* whole file instead of the rest): another attempt with another temporary file, or none.
Fail(t) ==
  /\ at[t] = "receiving" /\ ~shouldStop
  /\ IF tries[t] < MaxTries
     THEN tries' = [tries EXCEPT ![t] = @ + 1] /\ UNCHANGED at
     ELSE Become(t, "threw") /\ UNCHANGED tries
  /\ UNCHANGED <<files, downloads, todo, fetched, taskVars, managerVars, gameVars, mainVars>>

GiveUp(t) ==
  /\ at[t] = "receiving" /\ shouldStop
  /\ Become(t, "tried")
  /\ UNCHANGED <<downloadVars, taskVars, managerVars, gameVars, mainVars>>

\* The file is whole and has the right contents.  The rename may fail; its result is not
\* looked at.
Install(t) ==
  /\ at[t] = "receiving"
  /\ \E renamed \in BOOLEAN : files' = IF renamed THEN files \cup {Wanted(t)} ELSE files
  /\ Become(t, "tried")
  /\ UNCHANGED <<downloads, todo, fetched, tries, taskVars, managerVars, gameVars, mainVars>>

\* A mistake: a download that fails leaves its waiters asleep.
WakeNobody(t) == {}

\* Who sleeps until the download of t is over.
Waiters(t) == {d \in Downloaders : at[d] = "waiting" /\ Wanted(d) = Wanted(t)}

Cleanup(t) ==
  /\ at[t] \in {"tried", "threw"}
  /\ downloads' = [downloads EXCEPT ![Wanted(t)] = NoThread]
  /\ IF at[t] = "threw"
     THEN todo' = [todo EXCEPT ![t] = <<>>] /\ fetched' = [fetched EXCEPT ![t] = (t = PreDownloader)]
     ELSE UNCHANGED <<todo, fetched>>
  /\ at' = [d \in Threads |-> CASE d = t -> IF at[t] = "threw" THEN AfterDownloads(t) ELSE "again"
                                [] d \in Waiters(t) -> "fetch"
                                [] OTHER -> at[d]]
  /\ tries' = [tries EXCEPT ![t] = 0]
  /\ UNCHANGED <<files, taskVars, managerVars, gameVars, mainVars>>

\* The loop goes round, without the lock that cleanup gave up: unless it ends at once, it
\* reads downloadStateByUrl unprotected, and waits for or unlocks a lock that it does not hold,
\* which throws std::system_error at best.  The model stops there.
Again(t) ==
  /\ at[t] = "again"
  /\ IF Wanted(t) \in files \/ shouldStop
     THEN Returned(t, Wanted(t) \in files) /\ UNCHANGED mainVars
     ELSE Die /\ UNCHANGED <<at, todo, fetched>>
  /\ UNCHANGED <<files, downloads, tries, taskVars, managerVars, gameVars>>

Download(t) == Fetch(t) \/ Throttle(t) \/ Fail(t) \/ GiveUp(t) \/ Install(t)
               \/ Cleanup(t) \/ Again(t)

\* preDownloadLoop asks for the newest net now and then.
PreDownload ==
  /\ at[PreDownloader] = "resting"
  /\ IF shouldStop
     THEN Become(PreDownloader, "exited") /\ UNCHANGED todo
     ELSE /\ \E m \in NewestModels : todo' = [todo EXCEPT ![PreDownloader] = <<m>>]
          /\ Become(PreDownloader, "fetch")
  /\ UNCHANGED <<files, downloads, fetched, tries, taskVars, managerVars, gameVars, mainVars>>

--------------------------------------------------------------------------------
\* The managers.

\* The mutex of a manager is free: an upload holds that of selfplayManager.
IsFree(s) == s = "rating" \/ uploader = NoThread

Unused(s) == {m \in loaded[s] : acquireCount[s][m] = 0}

\* What cleanupUnusedModelsOlderThan may leave: it depends on the time.
Kept(s) == {loaded[s] \ old : old \in SUBSET Unused(s)}

UsesOf(g) == [side \in Sides |-> <<g.manager[side], g.model[side]>>]

\* One more (or less) for each side of game g that sides has.
Counted(g, sides, n) ==
  [s \in Managers |-> [m \in Models |->
    acquireCount[s][m] + n * Cardinality({side \in sides : UsesOf(g)[side] = <<s, m>>})]]

--------------------------------------------------------------------------------
\* taskLoop, thread l.

\* An iteration ends, with its locals; the thread leaves the loop when it has to stop.
EndIteration(l) ==
  /\ Become(l, IF shouldStop THEN "exited" ELSE "idle")
  /\ taskLock' = NoThread
  /\ task' = [task EXCEPT ![l] = NoTask]
  /\ nextGame' = [nextGame EXCEPT ![l] = NoTask]
  /\ rep' = [rep EXCEPT ![l] = 0]

LeaveLoop(l) ==
  /\ at[l] = "idle" /\ shouldStop
  /\ Become(l, "exited")
  /\ UNCHANGED <<taskVars, downloadVars, managerVars, gameVars, mainVars>>

\* The mutex is taken; the loop goes round again when a query was made just before.  Rating
\* tasks are allowed when there is room for a whole chunk of games.
Poll(l) ==
  /\ at[l] = "idle" /\ taskLock = NoThread /\ ~shouldStop
  /\ taskLock' = l
  /\ \E kept \in Kept("rating") :
       /\ loaded' = [loaded EXCEPT !["rating"] = kept]
       /\ allowRating' = [allowRating EXCEPT ![l] =
            /\ numRatingGamesActive <= (maxRatingMatches - 1) * taskRepFactor
            /\ Cardinality(kept) <= maxRatingMatches * 2 - 2]
  /\ Become(l, "asking")
  /\ UNCHANGED <<task, numTasks, acquireCount, uploader, downloadVars, gameVars, mainVars>>

\* The server honours what it is told to allow.
Tasks(l) == {new \in ServerTasks : new.rating => allowRating[l]}

\* getNextTask, with its retries: a task, or nothing since it stops, or an exception
\* when the server did not answer for too long; and a task may be of another run.
GetNextTask(l) ==
  /\ at[l] = "asking"
  /\ \/ /\ numTasks < MaxTasks
        /\ \E new \in Tasks(l) : task' = [task EXCEPT ![l] = new]
        /\ numTasks' = numTasks + 1
        /\ Become(l, "checking")
        /\ UNCHANGED <<taskLock, mainVars>>
        /\ UNCHANGED <<rep, nextGame>>
     \/ shouldStop /\ EndIteration(l) /\ UNCHANGED <<numTasks, mainVars>>
     \/ /\ (~shouldStop /\ Die) \/ Refuse
        /\ UNCHANGED <<at, taskLock, task, numTasks, rep, nextGame>>
  /\ allowRating' = [allowRating EXCEPT ![l] = FALSE]
  /\ UNCHANGED <<gameTaskQueue, readOnly, game, numRatingGamesActive, downloadVars, managerVars>>

ArePresent(l) == \A side \in Sides : task[l].model[side] \in files

\* Is there anything to download?  Then the mutex is dropped.
Check(l) ==
  /\ at[l] = "checking"
  /\ CASE ArePresent(l) /\ shouldStop -> EndIteration(l) /\ UNCHANGED todo
       [] ArePresent(l) /\ ~shouldStop ->
            Become(l, "loading") /\ UNCHANGED <<todo, taskLock, task, rep, nextGame>>
       [] OTHER ->
            /\ Become(l, "fetch") /\ taskLock' = NoThread
            /\ todo' = [todo EXCEPT ![l] = <<task[l].model["black"], task[l].model["white"]>>]
            /\ UNCHANGED <<task, rep, nextGame>>
  /\ UNCHANGED <<allowRating, numTasks, files, downloads, fetched, tries, gameTaskQueue, readOnly,
                 game, numRatingGamesActive, managerVars, mainVars>>

\* A mistake: the nets are not looked for again after a download.
RelockAndLoad(l) ==
  /\ at[l] = "relock" /\ taskLock = NoThread
  /\ IF shouldStop \/ ~fetched[l]
     THEN EndIteration(l)
     ELSE Become(l, "loading") /\ taskLock' = l /\ UNCHANGED <<task, rep, nextGame>>
  /\ fetched' = [fetched EXCEPT ![l] = TRUE]
  /\ UNCHANGED <<allowRating, numTasks, files, downloads, todo, tries, gameTaskQueue, readOnly,
                 game, numRatingGamesActive, managerVars, mainVars>>

\* The mutex is taken again after the downloads: they may be in vain by now.
Relock(l) ==
  /\ at[l] = "relock" /\ taskLock = NoThread
  /\ IF shouldStop \/ ~fetched[l]
     THEN EndIteration(l)
     ELSE Become(l, "checking") /\ taskLock' = l /\ UNCHANGED <<task, rep, nextGame>>
  /\ fetched' = [fetched EXCEPT ![l] = TRUE]
  /\ UNCHANGED <<allowRating, numTasks, files, downloads, todo, tries, gameTaskQueue, readOnly,
                 game, numRatingGamesActive, managerVars, mainVars>>

\* If we happen to be rating the same net as for selfplay, it is used from selfplayManager.
ManagerOf(new, m, left) ==
  IF ~new.rating \/ m \in left["selfplay"] THEN "selfplay" ELSE "rating"

\* Old nets are let go, the managers chosen, and the nets loaded that they do not have;
\* a net that is not in its file is an exception.
Load(l) ==
  /\ at[l] = "loading" /\ \A s \in Managers : IsFree(s)
  /\ \E left \in {f \in [Managers -> SUBSET Models] : \A s \in Managers : f[s] \in Kept(s)} :
       LET manager == [side \in Sides |-> ManagerOf(task[l], task[l].model[side], left)]
           needed(s) == {task[l].model[side] : side \in {x \in Sides : manager[x] = s}}
       IN  IF \A s \in Managers : needed(s) \ left[s] \subseteq files
           THEN /\ loaded' = [s \in Managers |-> left[s] \cup needed(s)]
                /\ nextGame' = [nextGame EXCEPT ![l] = [rating |-> task[l].rating,
                                  model |-> task[l].model, manager |-> manager]]
                /\ Become(l, "loaded") /\ UNCHANGED mainVars
           ELSE Die /\ UNCHANGED <<at, loaded, nextGame>>
  /\ UNCHANGED <<rep, taskVars, downloadVars, acquireCount, uploader, gameTaskQueue, readOnly, game,
                 numRatingGamesActive>>

\* deleteModelsOlderThan: which files are old depends on the time, and on
\* -delete-unused-models-after, which may be 0.
DeleteOld(l) ==
  /\ at[l] = "loaded"
  /\ IF shouldStop
     THEN EndIteration(l) /\ UNCHANGED files
     ELSE /\ \E new \in SUBSET files : files' = new
          /\ Become(l, "acquiring") /\ UNCHANGED <<taskLock, task, rep, nextGame>>
  /\ UNCHANGED <<allowRating, numTasks, downloads, todo, fetched, tries, gameTaskQueue, readOnly,
                 game, numRatingGamesActive, managerVars, mainVars>>

\* A mistake: the nets change sides without their managers.
SwappedNets(g) ==
  [g EXCEPT !.model = [side \in Sides |-> g.model[IF side = "black" THEN "white" ELSE "black"]]]

\* The same game with the sides swapped.
Swapped(g) ==
  LET other == [side \in Sides |-> IF side = "black" THEN "white" ELSE "black"]
  IN  [g EXCEPT !.model = [side \in Sides |-> g.model[other[side]]],
                !.manager = [side \in Sides |-> g.manager[other[side]]]]

\* Both nets are acquired for one more game, and the sides drawn.
Acquire(l) ==
  /\ at[l] = "acquiring"
  /\ \A side \in Sides : IsFree(nextGame[l].manager[side])
  /\ acquireCount' = Counted(nextGame[l], Sides, 1)
  /\ \E g \in {nextGame[l], Swapped(nextGame[l])} : nextGame' = [nextGame EXCEPT ![l] = g]
  /\ numRatingGamesActive' = numRatingGamesActive + IF task[l].rating THEN 1 ELSE 0
  /\ Become(l, "pushing")
  /\ UNCHANGED <<rep, gameTaskQueue, readOnly, game, loaded, uploader, taskVars, downloadVars, mainVars>>

\* gameTaskQueue has a single place.
Push(l) ==
  /\ at[l] = "pushing" /\ gameTaskQueue = <<>>
  /\ gameTaskQueue' = <<nextGame[l]>>
  /\ IF rep[l] + 1 < taskRepFactor
     THEN /\ rep' = [rep EXCEPT ![l] = @ + 1]
          /\ Become(l, "acquiring") /\ UNCHANGED <<taskLock, task, nextGame>>
     ELSE EndIteration(l)
  /\ UNCHANGED <<readOnly, game, numRatingGamesActive, allowRating, numTasks,
                 downloadVars, managerVars, mainVars>>

TaskLoop(l) == LeaveLoop(l) \/ Poll(l) \/ GetNextTask(l) \/ Check(l) \/ Relock(l)
               \/ Load(l) \/ DeleteOld(l) \/ Acquire(l) \/ Push(l)

--------------------------------------------------------------------------------
\* runGameLoop, thread p.

Pop(p) ==
  /\ at[p] = "popping"
  /\ IF gameTaskQueue # <<>>
     THEN /\ game' = [game EXCEPT ![p] = Head(gameTaskQueue)] /\ gameTaskQueue' = <<>>
          /\ Become(p, IF shouldStop THEN "releasing black" ELSE "playing")
     ELSE readOnly /\ Become(p, "exited") /\ UNCHANGED <<game, gameTaskQueue>>
  /\ UNCHANGED <<rep, nextGame, readOnly, numRatingGamesActive, taskVars, downloadVars, managerVars, mainVars>>

\* A stop ends a game without result.  The upload of a rating game, with its retries, touches
\* nothing else and is part of this step.
FinishGame(p) ==
  /\ at[p] = "playing"
  /\ \E finished \in {TRUE, ~shouldStop} :
       Become(p, IF finished /\ ~game[p].rating THEN "writing" ELSE "releasing black")
  /\ UNCHANGED <<taskVars, downloadVars, managerVars, gameVars, mainVars>>

\* withDataWriters: the mutex of the manager is held through the upload and its retries.
BeginUpload(p) ==
  /\ at[p] = "writing" /\ uploader = NoThread
  /\ IF game[p].model["black"] \in loaded[game[p].manager["black"]]
     THEN uploader' = p /\ Become(p, "uploading") /\ UNCHANGED mainVars
     ELSE Die /\ UNCHANGED <<uploader, at>>
  /\ UNCHANGED <<loaded, acquireCount, taskVars, downloadVars, gameVars>>

\* A mistake: an upload that is given up keeps the mutex.
EndUploadLocked(p) ==
  /\ at[p] = "uploading"
  /\ uploader' = IF shouldStop THEN p ELSE NoThread
  /\ Become(p, "releasing black")
  /\ UNCHANGED <<loaded, acquireCount, taskVars, downloadVars, gameVars, mainVars>>

EndUpload(p) ==
  /\ at[p] = "uploading"
  /\ uploader' = NoThread
  /\ Become(p, "releasing black")
  /\ UNCHANGED <<loaded, acquireCount, taskVars, downloadVars, gameVars, mainVars>>

Release(p, side, here, next) ==
  /\ at[p] = here /\ IsFree(game[p].manager[side])
  /\ acquireCount' = Counted(game[p], {side}, -1)
  /\ Become(p, next)
  /\ UNCHANGED <<loaded, uploader, taskVars, downloadVars, gameVars, mainVars>>

\* The caches of unused nets are cleared, and the game is not active any more.
EndGame(p) ==
  /\ at[p] = "released" /\ \A side \in Sides : IsFree(game[p].manager[side])
  /\ numRatingGamesActive' = numRatingGamesActive - IF game[p].rating THEN 1 ELSE 0
  /\ game' = [game EXCEPT ![p] = NoTask]
  /\ Become(p, "popping")
  /\ UNCHANGED <<rep, nextGame, gameTaskQueue, readOnly, taskVars, downloadVars, managerVars, mainVars>>

GameLoop(p) == Pop(p) \/ FinishGame(p) \/ BeginUpload(p) \/ EndUpload(p)
               \/ Release(p, "black", "releasing black", "releasing white")
               \/ Release(p, "white", "releasing white", "released")
               \/ EndGame(p)

--------------------------------------------------------------------------------
\* MainCmds::contribute

Signal ==
  /\ ~shouldStop
  /\ shouldStop' = TRUE
  /\ UNCHANGED <<at, main, taskVars, downloadVars, managerVars, gameVars>>

BeginShutdown ==
  /\ main = "joiningLoops" /\ \A l \in Loops : at[l] = "exited"
  /\ readOnly' = TRUE /\ shouldStop' = TRUE /\ main' = "joining"
  /\ UNCHANGED <<at, rep, nextGame, gameTaskQueue, game, numRatingGamesActive, taskVars, downloadVars,
                 managerVars>>

\* The managers are deleted with their nets.
Quit ==
  /\ main = "joining" /\ \A t \in Threads : at[t] = "exited"
  /\ loaded' = [s \in Managers |-> {}] /\ main' = "ended"
  /\ UNCHANGED <<at, acquireCount, uploader, shouldStop, taskVars, downloadVars, gameVars>>

ThreadStep(t) == \/ t \in Downloaders /\ Download(t)
                 \/ t \in Loops /\ TaskLoop(t)
                 \/ t \in Players /\ GameLoop(t)
                 \/ t = PreDownloader /\ PreDownload

Step == /\ ~IsGone
        /\ (\E t \in Threads : ThreadStep(t)) \/ BeginShutdown \/ Quit

Next == Step \/ (~IsGone /\ Signal)

Spec == Init /\ [][Next]_vars

\* Some thread goes on as long as any can: no thread need be preferred, since a stop leaves
\* nothing that can be repeated for ever.  Games and uploads end; a download gets an answer or
\* gives up.  Nobody has to stop the program, and the server does not have to give a task.
FairSpec == Spec /\ WF_vars(Step)

--------------------------------------------------------------------------------
\* Properties

\* Where a thread is that gets nets, and where it is the one that downloads.
Fetching == {"fetch", "waiting", "throttled", "receiving", "tried", "threw", "again"}
Busy == {"throttled", "receiving", "tried", "threw"}

\* Where a task loop holds the mutex, and where it has its next game.
Locked == {"asking", "checking", "loading", "loaded", "acquiring", "pushing"}
Ready == {"loaded", "acquiring", "pushing"}

\* Where a game thread has a game.
InGame == {"playing", "writing", "uploading", "releasing black", "releasing white", "released"}

Places == {"idle", "exited", "relock", "popping", "resting"} \cup Locked \cup Fetching \cup InGame

TypeOK ==
  /\ at \in [Threads -> Places] /\ taskLock \in Loops \cup {NoThread}
  /\ files \subseteq Models /\ downloads \in [Models -> Downloaders \cup {NoThread}]
  /\ loaded \in [Managers -> SUBSET Models] /\ uploader \in Players \cup {NoThread}
  /\ acquireCount \in [Managers -> [Models -> Nat]]
  /\ Len(gameTaskQueue) <= 1 /\ numRatingGamesActive \in Nat

\* The sides whose nets a thread has acquired and has to release.
Holds(t) ==
  CASE at[t] = "pushing" -> Sides
    [] t \in Players /\ at[t] = "releasing white" -> {"white"}
    [] t \in Players /\ at[t] \notin {"popping", "releasing white", "released", "exited"} -> Sides
    [] OTHER -> {}

GameOf(t) == IF t \in Loops THEN nextGame[t] ELSE game[t]

\* Each net of a game in hand that is still to be released.
InHand == UNION {{t} \X Holds(t) : t \in Loops \cup Players}

\* How often the games in hand and in the queue use net m of manager s.
Uses(inHand, s, m) ==
  Cardinality({u \in inHand : UsesOf(GameOf(u[1]))[u[2]] = <<s, m>>})
  + Cardinality({side \in Sides : gameTaskQueue # <<>> /\ UsesOf(gameTaskQueue[1])[side] = <<s, m>>})

\* Rating games that were handed out, and whose nets are not all released or just were.
ActiveRatingGames ==
  Cardinality({l \in Loops : at[l] = "pushing" /\ nextGame[l].rating})
  + Cardinality({p \in Players : game[p] # NoTask /\ game[p].rating})
  + Cardinality({i \in 1 .. Len(gameTaskQueue) : gameTaskQueue[i].rating})

\* A net is loaded for as long as a game in hand or in the queue uses it, in the manager that the
\* game will release it to, acquired once for each use, although other task loops let unused
\* nets go in between; and the number of rating games is that of the games.
UsedNetsAreLoaded ==
  /\ TypeOK
  /\ main # "died" =>
       /\ \E inHand \in {InHand} : \A s \in Managers, m \in Models :
            acquireCount[s][m] = Uses(inHand, s, m) /\ (acquireCount[s][m] > 0 => m \in loaded[s])
       /\ numRatingGamesActive = ActiveRatingGames

\* A net that is about to be loaded is in its file, although the mutex was dropped for the
\* downloads and other task loops delete files; and the process does not die of it.
NetsAreInTheirFiles ==
  \A l \in Loops : at[l] = "loading" =>
    {task[l].model[side] : side \in Sides} \subseteq files \cup loaded["selfplay"] \cup loaded["rating"]

\* One thread downloads a net, and a thread that waits for that will be woken: the download
\* is still on.
OneDownloadEach ==
  \A m \in Models :
    LET busy == {d \in Downloaders : at[d] \in Busy /\ Wanted(d) = m}
    IN  /\ Cardinality(busy) <= 1
        /\ \A d \in busy : downloads[m] = d
        /\ (\E d \in Downloaders : at[d] = "waiting" /\ Wanted(d) = m) => busy # {}

\* Once it should stop, the program ends, wherever its threads are: waiting for the mutex, for a
\* download, for a place in the queue, or in an upload.  It ends cleanly, unless a task of another
\* run comes in just then, for which it throws all the same (contribute.cpp:832-838).  shouldStop
\* stays set and an end is the end, so that this is shouldStop ~> main \in {"ended", "refused"}.
StopEnds == []<>(shouldStop => main \in {"ended", "refused"})
================================================================================
