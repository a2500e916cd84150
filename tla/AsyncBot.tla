-------------------------------- MODULE AsyncBot --------------------------------
(***************************************************************************)
(* search/asyncbot.cpp: one thread (the user) drives a bot through the API *)
(* of asyncbot.h; the bot's search thread runs the searches and, for the   *)
(* requests that want reports, a callback thread (the reporter) next to    *)
(* each of them; other threads call stopWithoutWait and setKilled at any   *)
(* time, as command/analysis.cpp does.                                     *)
(*                                                                         *)
(* controlMutex is held through each step that reads or writes isRunning,  *)
(* isKilled or the request.                                                *)
(***************************************************************************)
EXTENDS Naturals

CONSTANT MaxSearches  \* bounds the number of searches

ASSUME AsyncBotAssumption == MaxSearches \in Nat

VARIABLES
  isRunning, isKilled, shouldStopNow,
  queued,       \* the request: queuedSearchId, queuedOnMove, analyzeCallback, ...
  searcher,     \* what the search thread is doing
  local,        \* the request it copied when it started the search
  isSearchBegun, callbackLoopShouldStop,  \* its locals, shared with ...
  reporter,     \* ... the callback thread
  user,         \* what the user is doing
  wanted,       \* the request it is making or waits for
  userAsleep,   \* does it wait on userWaitingForStop?
  moves,        \* the ids of the requests whose onMove was called
  unanswered    \* has a genMoveSynchronous returned NULL_LOC?

request == <<isRunning, queued>>
stops == <<isKilled, shouldStopNow>>
search == <<searcher, local, isSearchBegun, callbackLoopShouldStop, reporter>>
userVars == <<user, wanted, userAsleep, unanswered>>
vars == <<isRunning, isKilled, shouldStopNow, queued, searcher, local,
          isSearchBegun, callbackLoopShouldStop, reporter, user, wanted,
          userAsleep, moves, unanswered>>

\* A request reports when it has a period short enough to wait for; every
\* caller that gives a period gives a callback too.
Kinds == {"genMoveAsync", "genMoveSynchronous", "analyzeAsync", "ponder"}
Requests == [id : 0 .. MaxSearches, kind : Kinds, reports : BOOLEAN]
NoRequest == [id |-> 0, kind |-> "ponder", reports |-> FALSE]

HasOnMove(r) == r.kind \in {"genMoveAsync", "genMoveSynchronous"}

Init ==
  /\ isRunning = FALSE /\ isKilled = FALSE /\ shouldStopNow = FALSE
  /\ queued = NoRequest /\ local = NoRequest /\ wanted = NoRequest
  /\ searcher = "loop" /\ reporter = "none" /\ user = "idle"
  /\ isSearchBegun = FALSE /\ callbackLoopShouldStop = FALSE
  /\ userAsleep = FALSE /\ moves = {} /\ unanswered = FALSE

--------------------------------------------------------------------------------
\* The user's calls.

\* A mistake: the user is not woken.
UserIsNotNotified == UNCHANGED userAsleep

\* threadWaitingToSearch.notify_all() and userWaitingForStop.notify_all().
NotifySearcher == searcher' = IF searcher = "asleep" THEN "loop" ELSE searcher
NotifyUser == userAsleep' = FALSE

\* A new request first stops the search that runs ...
StartRequest(kind, reports) ==
  /\ user = "idle" /\ kind # "ponder" /\ queued.id < MaxSearches
  /\ wanted' = [id |-> queued.id + 1, kind |-> kind, reports |-> reports]
  /\ user' = "starting"
  /\ shouldStopNow' = TRUE
  /\ UNCHANGED <<request, isKilled, search, userAsleep, moves, unanswered>>

\* ... and so do the setters, makeMove, clearSearch, stopAndWait itself and the
\* destructor.
StopAndWait ==
  /\ user = "idle"
  /\ user' \in {"stopping", "deleting"}
  /\ shouldStopNow' = TRUE
  /\ UNCHANGED <<request, isKilled, search, wanted, userAsleep, moves, unanswered>>

\* while(isRunning) userWaitingForStop.wait(lock);
WaitsForSearchToEnd == user \in {"starting", "stopping", "deleting", "awaiting"}

UserSleeps ==
  /\ WaitsForSearchToEnd /\ ~userAsleep /\ isRunning
  /\ userAsleep' = TRUE
  /\ UNCHANGED <<request, stops, search, user, wanted, moves, unanswered>>

SearchHasEnded == ~userAsleep /\ ~isRunning

\* The common end of the calls that make a request: isRunning and the rest are
\* set under the lock, the search thread is notified after it.
SetRequest(r) ==
  /\ isRunning' = TRUE
  /\ queued' = r
  /\ shouldStopNow' = FALSE
  /\ user' = "notifying"

Enqueue ==
  /\ user = "starting" /\ SearchHasEnded
  /\ \/ ~isKilled /\ SetRequest(wanted)
     \/ /\ isKilled
        /\ user' = IF wanted.kind = "genMoveSynchronous" THEN "awaiting" ELSE "idle"
        /\ UNCHANGED <<request, shouldStopNow>>
  /\ UNCHANGED <<isKilled, search, wanted, userAsleep, moves, unanswered>>

\* A mistake: ponder does not look at isRunning.
PonderOverSearch ==
  /\ user = "idle" /\ ~isKilled /\ queued.id < MaxSearches
  /\ SetRequest([id |-> queued.id + 1, kind |-> "ponder", reports |-> FALSE])
  /\ wanted' = NoRequest
  /\ UNCHANGED <<isKilled, search, userAsleep, moves, unanswered>>

\* Its early returns, when a search runs or the bot is killed, change nothing.
Ponder ==
  /\ user = "idle" /\ ~isRunning /\ ~isKilled /\ queued.id < MaxSearches
  /\ SetRequest([id |-> queued.id + 1, kind |-> "ponder", reports |-> FALSE])
  /\ wanted' = NoRequest
  /\ UNCHANGED <<isKilled, search, userAsleep, moves, unanswered>>

Notify ==
  /\ user = "notifying"
  /\ NotifySearcher
  /\ user' = IF wanted.kind = "genMoveSynchronous" THEN "awaiting" ELSE "idle"
  /\ UNCHANGED <<request, stops, local, isSearchBegun, callbackLoopShouldStop,
                 reporter, wanted, userAsleep, moves, unanswered>>

\* genMoveSynchronous returns what its onMove stored in its local.
ReturnMove ==
  /\ user = "awaiting" /\ SearchHasEnded
  /\ user' = "idle"
  /\ unanswered' = (unanswered \/ wanted.id \notin moves)
  /\ UNCHANGED <<request, stops, search, wanted, userAsleep, moves>>

\* stopAndWait returns; its caller may now change the Search, without a lock.
Stopped ==
  /\ user = "stopping" /\ SearchHasEnded
  /\ user' \in {"idle", "mutating"}
  /\ UNCHANGED <<request, stops, search, wanted, userAsleep, moves, unanswered>>

Mutated ==
  /\ user = "mutating" /\ user' = "idle"
  /\ UNCHANGED <<request, stops, search, wanted, userAsleep, moves, unanswered>>

\* The destructor, after stopAndWait.
Kill ==
  /\ user = "deleting" /\ SearchHasEnded
  /\ user' = "joining"
  /\ isKilled' = TRUE
  /\ NotifySearcher
  /\ UNCHANGED <<request, shouldStopNow, local, isSearchBegun, callbackLoopShouldStop,
                 reporter, wanted, userAsleep, moves, unanswered>>

Delete ==
  /\ user = "joining" /\ searcher = "dead"
  /\ user' = "deleted"
  /\ UNCHANGED <<request, stops, search, wanted, userAsleep, moves, unanswered>>

--------------------------------------------------------------------------------
\* Other threads, as long as the bot lives.

MayBeCalled == user \notin {"deleting", "joining", "deleted"}

StopWithoutWait ==
  /\ MayBeCalled
  /\ shouldStopNow' = TRUE
  /\ UNCHANGED <<request, isKilled, search, userVars, moves>>

SetKilled ==
  /\ MayBeCalled
  /\ isKilled' = TRUE /\ shouldStopNow' = TRUE
  /\ NotifySearcher
  /\ UNCHANGED <<request, local, isSearchBegun, callbackLoopShouldStop, reporter,
                 userVars, moves>>

--------------------------------------------------------------------------------
\* internalSearchThreadLoop.

\* The head of the loop, lines 311-320.
SearcherSleeps ==
  /\ searcher = "loop" /\ ~isRunning /\ ~isKilled
  /\ searcher' = "asleep"
  /\ UNCHANGED <<request, stops, local, isSearchBegun, callbackLoopShouldStop,
                 reporter, userVars, moves>>

SearcherExits ==
  /\ searcher = "loop" /\ isKilled
  /\ searcher' = "dead"
  /\ isRunning' = FALSE
  /\ NotifyUser
  /\ UNCHANGED <<queued, stops, local, isSearchBegun, callbackLoopShouldStop,
                 reporter, user, wanted, moves, unanswered>>

\* if(callbackPeriod >= 0 && analyzeCallbackLocal): is there a callback thread?
StartReporter == IF queued.reports THEN "waiting" ELSE "none"

\* A mistake: isKilled is not looked at.
StartSearchThoughKilled ==
  /\ searcher = "loop" /\ isRunning
  /\ searcher' = "beginning"
  /\ local' = queued
  /\ isSearchBegun' = FALSE /\ callbackLoopShouldStop' = FALSE
  /\ reporter' = StartReporter
  /\ UNCHANGED <<request, stops, userVars, moves>>

\* Lines 320-364.
StartSearch ==
  /\ searcher = "loop" /\ isRunning /\ ~isKilled
  /\ searcher' = "beginning"
  /\ local' = queued
  /\ isSearchBegun' = FALSE /\ callbackLoopShouldStop' = FALSE
  /\ reporter' = StartReporter
  /\ UNCHANGED <<request, stops, userVars, moves>>

\* A mistake: the search forgets a stop that came before it began.
SearchBeginsAfresh ==
  /\ searcher = "beginning"
  /\ searcher' = "searching"
  /\ isSearchBegun' = TRUE /\ shouldStopNow' = FALSE
  /\ UNCHANGED <<request, isKilled, local, callbackLoopShouldStop, reporter,
                 userVars, moves>>

\* beginSearch, which may clear or prune the tree, and then searchBegun.
SearchBegins ==
  /\ searcher = "beginning"
  /\ searcher' = "searching"
  /\ isSearchBegun' = TRUE
  /\ UNCHANGED <<request, stops, local, callbackLoopShouldStop, reporter, userVars, moves>>

\* The threads of runWholeSearch stop at shouldStopNow or at a limit of their
\* own, and then set shouldStopNow; getChosenMoveLoc reads the tree.
SearchEnds ==
  /\ searcher = "searching"
  /\ searcher' = "ended"
  /\ shouldStopNow' = TRUE
  /\ UNCHANGED <<request, isKilled, local, isSearchBegun, callbackLoopShouldStop,
                 reporter, userVars, moves>>

StopReporter ==
  /\ searcher = "ended" /\ local.reports
  /\ searcher' = "joining"
  /\ callbackLoopShouldStop' = TRUE
  /\ UNCHANGED <<request, stops, local, isSearchBegun, reporter, userVars, moves>>

\* A mistake: the callback thread is not joined.
DetachReporter ==
  /\ searcher = "joining"
  /\ searcher' = "joined"
  /\ UNCHANGED <<request, stops, local, isSearchBegun, callbackLoopShouldStop,
                 reporter, userVars, moves>>

JoinReporter ==
  /\ searcher = "joining" /\ reporter = "exited"
  /\ searcher' = "joined"
  /\ reporter' = "none"
  /\ UNCHANGED <<request, stops, local, isSearchBegun, callbackLoopShouldStop,
                 userVars, moves>>

\* Lines 385-391 and, still under the lock, the head of the loop.
FinishSearch ==
  /\ searcher = "joined" \/ (searcher = "ended" /\ ~local.reports)
  /\ moves' = IF HasOnMove(queued) THEN moves \cup {queued.id} ELSE moves
  /\ isRunning' = FALSE
  /\ NotifyUser
  /\ searcher' = IF isKilled THEN "dead" ELSE "asleep"
  /\ UNCHANGED <<queued, stops, local, isSearchBegun, callbackLoopShouldStop,
                 reporter, user, wanted, unanswered>>

\* callbackLoop, after a timeout or a notification.
Report ==
  /\ reporter = "waiting" /\ ~callbackLoopShouldStop /\ isSearchBegun
  /\ reporter' = "reporting"
  /\ UNCHANGED <<request, stops, searcher, local, isSearchBegun,
                 callbackLoopShouldStop, userVars, moves>>

Reported ==
  /\ reporter = "reporting"
  /\ reporter' = "waiting"
  /\ UNCHANGED <<request, stops, searcher, local, isSearchBegun,
                 callbackLoopShouldStop, userVars, moves>>

ReporterExits ==
  /\ reporter = "waiting" /\ callbackLoopShouldStop
  /\ reporter' = "exited"
  /\ UNCHANGED <<request, stops, searcher, local, isSearchBegun,
                 callbackLoopShouldStop, userVars, moves>>

\* A condition variable may return without a notification.
SpuriousWakeup ==
  \/ /\ searcher = "asleep" /\ searcher' = "loop"
     /\ UNCHANGED <<request, stops, local, isSearchBegun, callbackLoopShouldStop,
                    reporter, userVars, moves>>
  \/ /\ userAsleep /\ userAsleep' = FALSE
     /\ UNCHANGED <<request, stops, search, user, wanted, moves, unanswered>>

--------------------------------------------------------------------------------
UserStep == \/ UserSleeps \/ Enqueue \/ Notify \/ ReturnMove \/ Stopped \/ Mutated
            \/ Kill \/ Delete

SearcherStep == \/ SearcherSleeps \/ SearcherExits \/ StartSearch \/ SearchBegins
                \/ StopReporter \/ JoinReporter \/ FinishSearch

Next ==
  \/ \E kind \in Kinds, reports \in BOOLEAN : StartRequest(kind, reports)
  \/ StopAndWait \/ Ponder \/ UserStep
  \/ StopWithoutWait \/ SetKilled
  \/ SearcherStep \/ SearchEnds
  \/ Report \/ Reported \/ ReporterExits
  \/ SpuriousWakeup

Spec == Init /\ [][Next]_vars

\* Calls that were made go on, the bot's threads run, a report terminates, and
\* the search looks at shouldStopNow again and again; it need not end by itself,
\* and nobody has to call anything.
Fairness == /\ WF_vars(UserStep)
            /\ WF_vars(SearcherStep)
            /\ WF_vars(shouldStopNow /\ SearchEnds)
            /\ WF_vars(Reported \/ ReporterExits)

FairSpec == Spec /\ Fairness

--------------------------------------------------------------------------------

\* The values the variables range over.
TypeOK ==
  /\ isRunning \in BOOLEAN /\ isKilled \in BOOLEAN /\ shouldStopNow \in BOOLEAN
  /\ queued \in Requests /\ local \in Requests /\ wanted \in Requests
  /\ searcher \in {"loop", "asleep", "beginning", "searching", "ended", "joining",
                   "joined", "dead"}
  /\ isSearchBegun \in BOOLEAN /\ callbackLoopShouldStop \in BOOLEAN
  /\ reporter \in {"none", "waiting", "reporting", "exited"}
  /\ reporter # "none" => local.reports
  /\ user \in {"idle", "starting", "stopping", "deleting", "awaiting", "notifying",
               "mutating", "joining", "deleted"}
  /\ userAsleep \in BOOLEAN /\ unanswered \in BOOLEAN
  /\ moves \in SUBSET (1 .. MaxSearches)

Searching == searcher \in {"beginning", "searching", "ended", "joining", "joined"}

\* searchFactor, queuedOnMove and queuedSearchId are read after controlMutex was
\* released (lines 366, 387-388), and yet belong to the request whose other
\* fields were copied: nobody can replace a request while its search runs.
SearchIsForRequest == Searching => isRunning /\ local = queued

\* The tree has no lock of its own: the user changes it only while neither the
\* search nor a report touches it, a report sees it only between the two points
\* at which beginSearch and the next request may change it, and nobody is left
\* when it is deleted.
TreeIsNotShared ==
  /\ user \in {"mutating", "deleted"} => ~Searching /\ reporter = "none"
  /\ reporter = "reporting" => searcher \in {"searching", "ended", "joining"}
  /\ user = "deleted" => searcher = "dead"

\* genMoveSynchronous returns a move unless the bot was killed, and the onMove
\* that refers to its local is never called after it returned.
SynchronousGetsMove ==
  /\ unanswered => isKilled
  /\ (Searching /\ queued.kind = "genMoveSynchronous")
       => user \in {"notifying", "awaiting"} /\ wanted = queued

\* Nobody sleeps on a condition variable that will not be notified, although
\* the search thread is notified after the lock was released.
NoLostWakeup ==
  /\ userAsleep => isRunning
  /\ searcher = "asleep" => ~isKilled /\ (isRunning => user = "notifying")

\* "Signal an ongoing genMove or ponder to stop as soon as possible": a stop that
\* comes while a request is queued or searched ends it, however long it would
\* have gone on by itself, and "permanently kill this bot" ends the thread too.
StopIsHonoured ==
  /\ (isRunning /\ shouldStopNow) ~> ~isRunning
  /\ isKilled ~> searcher = "dead"

\* "... and wait for the stop to happen": every call that stops the bot returns,
\* and so does a request, which is searched or dropped by a kill, and whoever
\* waits for the move of a bot that was killed.
CallsReturn ==
  /\ \A call \in {"starting", "stopping", "notifying"} : user = call ~> user # call
  /\ user = "deleting" ~> user = "deleted"
  /\ isRunning ~> (Searching \/ isKilled)
  /\ (isKilled /\ user = "awaiting") ~> user # "awaiting"

\* What the bot is asked to do happens: requests, stops and kills, whoever makes
\* them and at whatever point of a search they come.
CallsTakeEffect == StopIsHonoured /\ CallsReturn

--------------------------------------------------------------------------------
\* The bot keeps what its header promises.
SS == INSTANCE SearchService WITH
        phase <- IF ~isRunning THEN "idle" ELSE IF Searching THEN "running" ELSE "queued",
        id <- queued.id,
        wantsMove <- HasOnMove(queued),
        killed <- isKilled

ImplementsSearchService == SS!Spec
================================================================================
