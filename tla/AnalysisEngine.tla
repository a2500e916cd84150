----------------------------- MODULE AnalysisEngine -----------------------------
(***************************************************************************)
(* command/analysis.cpp: the API thread reads requests, opens them, hands  *)
(* them to the analysis threads through a queue and terminates them on     *)
(* demand; each analysis thread searches them with a bot of its own; what  *)
(* they write goes to a queue of which the writer prints the messages in   *)
(* order.                                                                  *)
(*                                                                         *)
(* The queues and the bots do what ClosableQueue and SearchService say.    *)
(* Ids, turn numbers and priorities are left out: a terminate may name any *)
(* of the open requests, and any request of the queue may be the top one.  *)
(***************************************************************************)
EXTENDS Integers, Sequences

CONSTANTS NumThreads,   \* numAnalysisThreads
          MaxRequests   \* bounds the number of requests

ASSUME AnalysisAssumption == NumThreads \in Nat \ {0} /\ MaxRequests \in Nat

Threads == 0 .. NumThreads - 1
Requests == 1 .. MaxRequests

\* The values of AnalyzeRequest::status that are no thread.
STATUS_IN_QUEUE == -1
STATUS_POPPED == -2
STATUS_TERMINATED == -3

VARIABLES
  received,     \* how many requests were read
  won,          \* the requests for a position in which the game is won
  status, open, \* of each request; the openRequests
  alive,        \* the requests that were not deleted
  toAnalyze, analyzeClosed,  \* toAnalyzeQueue
  written, writesClosed,     \* toWriteQueue: all that was accepted, by request
  api,          \* what the API thread is doing
  todo,         \* the requests it has still to push or to terminate
  toStop,       \* the bot it is about to stop, and for which request
  quit,         \* "no", "gracefully" or "now"
  at, serving,  \* what an analysis thread is doing, and the request it took
  shouldStop, isKilled, hasResults  \* its bot's flags, and what its search has found

requestVars == <<received, won, status, open, alive>>
queueVars == <<toAnalyze, analyzeClosed>>
writeVars == <<written, writesClosed>>
apiVars == <<api, todo, toStop, quit>>
botVars == <<shouldStop, isKilled, hasResults>>
threadVars == <<at, serving>>
vars == <<received, won, status, open, alive, toAnalyze, analyzeClosed, written,
          writesClosed, api, todo, toStop, quit, at, serving, shouldStop,
          isKilled, hasResults>>

NoBot == [request |-> 0, thread |-> -1]

Init ==
  /\ received = 0 /\ won = {} /\ open = {} /\ alive = {}
  /\ status = [r \in Requests |-> STATUS_IN_QUEUE]
  /\ toAnalyze = {} /\ analyzeClosed = FALSE
  /\ written = [r \in Requests |-> <<>>] /\ writesClosed = FALSE
  /\ api = "reading" /\ todo = {} /\ toStop = NoBot /\ quit = "no"
  /\ at = [t \in Threads |-> "waiting"] /\ serving = [t \in Threads |-> 0]
  /\ shouldStop = [t \in Threads |-> FALSE] /\ isKilled = [t \in Threads |-> FALSE]
  /\ hasResults = [t \in Threads |-> FALSE]

\* What is written after the queue was closed is thrown away.  Reports of the
\* same search that follow one another are counted as one.
Write(r, kind) ==
  /\ written' = IF writesClosed \/ (written[r] # <<>> /\ kind = "duringSearch"
                                      /\ written[r][Len(written[r])] = kind)
                THEN written
                ELSE [written EXCEPT ![r] = Append(@, kind)]
  /\ UNCHANGED writesClosed

First(S) == {r \in S : \A q \in S : r <= q}

--------------------------------------------------------------------------------
\* The API thread.

\* One line may ask for several turns of a game: all of them are opened, under
\* openRequestsMutex, before the first is pushed, turns after which the game is
\* won among them.  Lines that are answered with an error open nothing.
Receive(n) ==
  /\ api = "reading" /\ received + n <= MaxRequests
  /\ received' = received + n
  /\ LET new == received + 1 .. received + n IN
       /\ open' = open \cup new /\ alive' = alive \cup new /\ todo' = new
       /\ \E W \in SUBSET new : won' = won \cup W
  /\ api' = "pushing"
  /\ UNCHANGED <<status, queueVars, writeVars, toStop, quit, botVars, threadVars>>

Push ==
  /\ api = "pushing"
  /\ \E r \in First(todo) : toAnalyze' = toAnalyze \cup {r} /\ todo' = todo \ {r}
  /\ api' = IF todo' = {} THEN "reading" ELSE "pushing"
  /\ UNCHANGED <<requestVars, analyzeClosed, writeVars, toStop, quit, botVars, threadVars>>

\* openRequestsMutex is held from here to TerminateDone.
Terminate(S) ==
  /\ api = "reading"
  /\ api' = "terminating" /\ todo' = S
  /\ UNCHANGED <<requestVars, queueVars, writeVars, toStop, quit, botVars, threadVars>>

IsSearched(prevStatus) == prevStatus \in Threads

TerminateRequest ==
  /\ api = "terminating" /\ toStop = NoBot
  /\ \E r \in First(todo) :
       /\ status' = [status EXCEPT ![r] = STATUS_TERMINATED]
       /\ todo' = todo \ {r}
       /\ IF status[r] = STATUS_IN_QUEUE THEN Write(r, "noResults") ELSE UNCHANGED writeVars
       /\ toStop' = IF IsSearched(status[r]) THEN [request |-> r, thread |-> status[r]]
                    ELSE NoBot
  /\ UNCHANGED <<received, won, open, alive, queueVars, api, quit, botVars, threadVars>>

StopWithoutWait ==
  /\ toStop # NoBot
  /\ shouldStop' = [shouldStop EXCEPT ![toStop.thread] = TRUE]
  /\ toStop' = NoBot
  /\ UNCHANGED <<requestVars, queueVars, writeVars, api, todo, quit, isKilled,
                 hasResults, threadVars>>

TerminateDone ==
  /\ api = "terminating" /\ todo = {} /\ toStop = NoBot
  /\ api' = "reading"
  /\ UNCHANGED <<requestVars, queueVars, writeVars, todo, toStop, quit, botVars, threadVars>>

\* quitWithoutWaiting is set by the command line.
EndOfInput ==
  /\ api = "reading"
  /\ quit' \in {"gracefully", "now"}
  /\ writesClosed' = (quit' = "now")
  /\ api' = "closing"
  /\ UNCHANGED <<requestVars, queueVars, written, todo, toStop, botVars, threadVars>>

CloseAnalyzeQueue ==
  /\ api = "closing"
  /\ analyzeClosed' = TRUE
  /\ IF quit = "now" THEN api' = "stopping" /\ todo' = Threads
                     ELSE api' = "joining" /\ UNCHANGED todo
  /\ UNCHANGED <<requestVars, toAnalyze, writeVars, toStop, quit, botVars, threadVars>>

StopBot ==
  /\ api = "stopping"
  /\ \E t \in First(todo) :
       /\ shouldStop' = [shouldStop EXCEPT ![t] = TRUE]
       /\ IF todo = {t} THEN api' = "killing" /\ todo' = Threads
                        ELSE todo' = todo \ {t} /\ UNCHANGED api
  /\ UNCHANGED <<requestVars, queueVars, writeVars, toStop, quit, isKilled,
                 hasResults, threadVars>>

\* A mistake: the bots were stopped, but one may have begun a search since.
KillBotOnly ==
  /\ api = "killing"
  /\ \E t \in First(todo) :
       /\ isKilled' = [isKilled EXCEPT ![t] = TRUE]
       /\ todo' = todo \ {t}
  /\ api' = IF todo' = {} THEN "joining" ELSE "killing"
  /\ UNCHANGED <<requestVars, queueVars, writeVars, toStop, quit, shouldStop, hasResults,
                 threadVars>>

KillBot ==
  /\ api = "killing"
  /\ \E t \in First(todo) :
       /\ isKilled' = [isKilled EXCEPT ![t] = TRUE]
       /\ shouldStop' = [shouldStop EXCEPT ![t] = TRUE]
       /\ todo' = todo \ {t}
  /\ api' = IF todo' = {} THEN "joining" ELSE "killing"
  /\ UNCHANGED <<requestVars, queueVars, writeVars, toStop, quit, hasResults, threadVars>>

Join ==
  /\ api = "joining" /\ \A t \in Threads : at[t] = "exited"
  /\ api' = "done" /\ writesClosed' = TRUE
  /\ UNCHANGED <<requestVars, queueVars, written, todo, toStop, quit, botVars, threadVars>>

--------------------------------------------------------------------------------
\* analysisLoop, thread t.

Become(t, where) == at' = [at EXCEPT ![t] = where]

WaitPop(t) ==
  /\ at[t] = "waiting"
  /\ \E r \in toAnalyze : /\ toAnalyze' = toAnalyze \ {r}
                          /\ serving' = [serving EXCEPT ![t] = r]
  /\ Become(t, "taken")
  /\ UNCHANGED <<requestVars, analyzeClosed, writeVars, apiVars, botVars>>

Leave(t) ==
  /\ at[t] = "waiting" /\ toAnalyze = {} /\ analyzeClosed
  /\ Become(t, "exited")
  /\ UNCHANGED <<requestVars, queueVars, writeVars, apiVars, botVars, serving>>

\* A mistake: the request is claimed without a look at its status.
AlwaysClaims(r) == TRUE

\* The thread may claim its request unless it was terminated.
MayClaim(r) == status[r] = STATUS_IN_QUEUE

Claim(t) ==
  /\ at[t] = "taken"
  /\ IF MayClaim(serving[t])
     THEN status' = [status EXCEPT ![serving[t]] = STATUS_POPPED] /\ Become(t, "popped")
     ELSE Become(t, "written") /\ UNCHANGED status
  /\ UNCHANGED <<received, won, open, alive, queueVars, writeVars, apiVars, botVars, serving>>

\* A mistake: the stop that ended the search before is not forgotten.
GenMoveUnreset(t) ==
  /\ at[t] = "popped"
  /\ Become(t, IF isKilled[t] THEN "searched" ELSE "queued")
  /\ UNCHANGED <<requestVars, queueVars, writeVars, apiVars, botVars, serving>>

\* genMoveSynchronous, called with a bot that does not search: the stop flag of
\* the calls before is reset, unless the bot is killed.
GenMove(t) ==
  /\ at[t] = "popped"
  /\ Become(t, IF isKilled[t] THEN "searched" ELSE "queued")
  /\ shouldStop' = [shouldStop EXCEPT ![t] = isKilled[t]]
  /\ UNCHANGED <<requestVars, queueVars, writeVars, apiVars, isKilled, hasResults, serving>>

\* The bot's thread takes up the search, or drops it because it was killed.
StartSearch(t) ==
  /\ at[t] = "queued"
  /\ Become(t, IF isKilled[t] THEN "searched" ELSE "beginning")
  /\ UNCHANGED <<requestVars, queueVars, writeVars, apiVars, botVars, serving>>

\* A mistake: a search that is terminated before its first playout is not stopped.
OnSearchBegunUnstopped(t) ==
  /\ at[t] = "beginning"
  /\ Become(t, "searching")
  /\ status' = IF status[serving[t]] = STATUS_POPPED THEN [status EXCEPT ![serving[t]] = t]
               ELSE status
  /\ UNCHANGED <<received, won, open, alive, queueVars, writeVars, apiVars, botVars, serving>>

\* The request was terminated between Claim and here if the status has changed.
OnSearchBegun(t) ==
  /\ at[t] = "beginning"
  /\ Become(t, "searching")
  /\ IF status[serving[t]] = STATUS_POPPED
     THEN status' = [status EXCEPT ![serving[t]] = t] /\ UNCHANGED shouldStop
     ELSE shouldStop' = [shouldStop EXCEPT ![t] = TRUE] /\ UNCHANGED status
  /\ UNCHANGED <<received, won, open, alive, queueVars, writeVars, apiVars, isKilled,
                 hasResults, serving>>

\* A playout does nothing at a root where the game is won: it is counted, and
\* leaves no results.
Playout(t) ==
  /\ at[t] = "searching" /\ serving[t] \notin won
  /\ hasResults' = [hasResults EXCEPT ![t] = TRUE]
  /\ UNCHANGED <<requestVars, queueVars, writeVars, apiVars, shouldStop, isKilled, threadVars>>

\* The callback of genMoveSynchronousAnalyze.
Report(t) ==
  /\ at[t] = "searching" /\ hasResults[t]
  /\ Write(serving[t], "duringSearch")
  /\ UNCHANGED <<requestVars, queueVars, apiVars, botVars, threadVars>>

\* A search is stopped, or it reaches its limits: they allow for one playout at
\* least.
SearchEnds(t) ==
  /\ at[t] = "searching"
  /\ shouldStop[t] \/ hasResults[t] \/ serving[t] \in won
  /\ Become(t, "searched")
  /\ shouldStop' = [shouldStop EXCEPT ![t] = TRUE]
  /\ UNCHANGED <<requestVars, queueVars, writeVars, apiVars, isKilled, hasResults, serving>>

\* Without results the thread writes only if the request was terminated.
NeedsDummy(t) == status[serving[t]] = STATUS_TERMINATED

WriteResult(t) ==
  /\ at[t] = "searched"
  /\ Become(t, "written")
  /\ IF hasResults[t] THEN Write(serving[t], "analysis")
     ELSE IF NeedsDummy(t) THEN Write(serving[t], "noResults")
     ELSE UNCHANGED writeVars
  /\ UNCHANGED <<requestVars, queueVars, apiVars, botVars, serving>>

\* bot->clearSearch() stops the bot first.
ClearSearch(t) ==
  /\ at[t] = "written"
  /\ Become(t, "cleared")
  /\ shouldStop' = [shouldStop EXCEPT ![t] = TRUE]
  /\ hasResults' = [hasResults EXCEPT ![t] = FALSE]
  /\ UNCHANGED <<requestVars, queueVars, writeVars, apiVars, isKilled, serving>>

\* A mistake: the request is closed without openRequestsMutex.
OpenRequestsIsUnguarded == TRUE

OpenRequestsIsFree == api # "terminating"

CloseRequest(t) ==
  /\ at[t] = "cleared" /\ OpenRequestsIsFree
  /\ Become(t, "closed")
  /\ open' = open \ {serving[t]}
  /\ UNCHANGED <<received, won, status, alive, queueVars, writeVars, apiVars, botVars, serving>>

Delete(t) ==
  /\ at[t] = "closed"
  /\ Become(t, "waiting")
  /\ alive' = alive \ {serving[t]}
  /\ serving' = [serving EXCEPT ![t] = 0]
  /\ UNCHANGED <<received, won, status, open, queueVars, writeVars, apiVars, botVars>>

--------------------------------------------------------------------------------
ApiStep == \/ Push \/ TerminateRequest \/ StopWithoutWait \/ TerminateDone
           \/ CloseAnalyzeQueue \/ StopBot \/ KillBot \/ Join

ThreadStep(t) == \/ WaitPop(t) \/ Leave(t) \/ Claim(t) \/ GenMove(t) \/ StartSearch(t)
                 \/ OnSearchBegun(t) \/ WriteResult(t) \/ ClearSearch(t)
                 \/ CloseRequest(t) \/ Delete(t)

Next == \/ \E n \in 1 .. MaxRequests : Receive(n)
        \/ \E S \in SUBSET open : Terminate(S)
        \/ EndOfInput
        \/ ApiStep
        \/ \E t \in Threads : ThreadStep(t) \/ Playout(t) \/ Report(t) \/ SearchEnds(t)

Spec == Init /\ [][Next]_vars

\* Nobody has to send or to terminate anything, and a search that is not stopped
\* may go on for as long as it likes.
FairSpec == /\ Spec /\ WF_vars(ApiStep)
            /\ \A t \in Threads : /\ WF_vars(ThreadStep(t))
                                  /\ WF_vars(shouldStop[t] /\ SearchEnds(t))

--------------------------------------------------------------------------------

\* The values the variables range over.
TypeOK ==
  /\ received \in 0 .. MaxRequests /\ won \in SUBSET Requests
  /\ status \in [Requests -> Threads \cup {STATUS_IN_QUEUE, STATUS_POPPED, STATUS_TERMINATED}]
  /\ open \in SUBSET Requests /\ alive \in SUBSET Requests /\ toAnalyze \in SUBSET Requests
  /\ analyzeClosed \in BOOLEAN /\ writesClosed \in BOOLEAN
  /\ written \in [Requests -> Seq({"duringSearch", "analysis", "noResults"})]
  /\ api \in {"reading", "pushing", "terminating", "closing", "stopping", "killing",
              "joining", "done"}
  /\ todo \in SUBSET (Requests \cup Threads)
  /\ toStop \in {NoBot} \cup [request : Requests, thread : Threads]
  /\ quit \in {"no", "gracefully", "now"}
  /\ at \in [Threads -> {"waiting", "taken", "popped", "queued", "beginning", "searching",
                         "searched", "written", "cleared", "closed", "exited"}]
  /\ serving \in [Threads -> {0} \cup Requests]
  /\ shouldStop \in [Threads -> BOOLEAN] /\ isKilled \in [Threads -> BOOLEAN]
  /\ hasResults \in [Threads -> BOOLEAN]

\* The API thread and the analysis threads follow the pointers of these requests.
Followed == open \cup toAnalyze \cup (IF api \in {"pushing", "terminating"} THEN todo ELSE {})
              \cup {serving[t] : t \in {u \in Threads : at[u] \notin {"waiting", "exited"}}}

\* No pointer to a deleted request is followed: by a terminate that finds it in
\* openRequests while its thread is about to delete it, least of all.
PointersAreLive == TypeOK /\ Followed \subseteq alive

Answered(r) == written[r] # <<>> /\ written[r][Len(written[r])] # "duringSearch"

\* The request was for a won game, and its thread goes on without a word.
DroppedAsWon(r) ==
  /\ r \in won /\ written[r] = <<>>
  /\ r \in open => \E t \in Threads : serving[t] = r /\ at[t] \in {"written", "cleared"}

\* "If it ever gets to STATUS_POPPED or later, then the analysis thread is
\* responsible for writing the result, else the api thread is" (analysis.cpp:46):
\* whoever wins the race, nothing is written after a final response, and no
\* request is closed without one, unless we quit without waiting, or the game was
\* won: a request for a won game gets no response but the one to its termination,
\* and even that only if it comes before its thread has looked for it.
OneFinalResponse ==
  /\ \A r \in Requests : \A i \in 1 .. Len(written[r]) - 1 : written[r][i] = "duringSearch"
  /\ \A r \in 1 .. received : r \in open \/ Answered(r) \/ DroppedAsWon(r) \/ quit = "now"
  /\ \A r \in won : written[r] # <<>> =>
       written[r] = <<"noResults">> /\ status[r] = STATUS_TERMINATED

\* A stop is meant for one request: the bot never receives it while it searches
\* for the next one, so that only a terminated search is cut short.
OnlyTerminatedIsCutShort ==
  \A t \in Threads :
    (shouldStop[t] /\ at[t] \in {"queued", "beginning", "searching"})
      => status[serving[t]] = STATUS_TERMINATED \/ quit = "now"

\* However long its search would have taken, a terminated request gets its
\* response, unless we quit without waiting, or the game was won and its thread came
\* to the end without one.
TerminatedIsAnswered ==
  \A r \in Requests :
    status[r] = STATUS_TERMINATED ~> (Answered(r) \/ DroppedAsWon(r) \/ quit = "now")

\* Quitting without waiting ends whatever the searches would have done; quitting
\* gracefully ends too if every search does, and then every request that was read
\* has been answered, but for those of won games.
QuitEnds ==
  /\ quit = "now" ~> api = "done"
  /\ (\A t \in Threads : []<>(at[t] # "searching"))
       => (quit = "gracefully" ~>
             (api = "done" /\ \A r \in 1 .. received : Answered(r) \/ DroppedAsWon(r)))

\* Neither a client that terminates a request nor a program that quits waits for
\* ever, whatever the analysis threads and their bots are in the middle of.
NothingHangs == TerminatedIsAnswered /\ QuitEnds
================================================================================
