----------------------------- MODULE BotProofs -----------------------------
(***************************************************************************)
(* Theorems about AsyncBot, for every number of searches, and about        *)
(* GtpEngine, which drives a bot, for every set of cells, every rule of    *)
(* what is legal, all setups, files and games.                             *)
(***************************************************************************)
EXTENDS AsyncBot, GtpEngine, SequenceTheorems, WellFoundedInduction,
        NaturalsInduction, TLAPS

-----------------------------------------------------------------------------
(* The bot. *)

\* Where the callback thread may be while the search thread is where it is.
ReporterInv ==
  /\ reporter # "none" => searcher \in {"beginning", "searching", "ended", "joining"}
  /\ reporter = "exited" => searcher = "joining"
  /\ reporter = "reporting" => searcher # "beginning"
  /\ searcher = "beginning" => ~isSearchBegun
  /\ (searcher = "ended" /\ ~local.reports) => reporter = "none"
  /\ (searcher \in {"beginning", "searching", "ended"}) => ~callbackLoopShouldStop

\* What a user and a killed bot may rely on.
LifeInv ==
  /\ searcher = "dead" => isKilled /\ ~isRunning
  /\ user = "starting" => wanted.id = queued.id + 1
  /\ user = "mutating" => ~isRunning
  /\ user \in {"joining", "deleted"} => ~isRunning /\ isKilled
  /\ user = "deleted" => searcher = "dead"
  /\ isRunning => queued.id # 0

\* A synchronous request that is under way will get its move, or the bot was killed.
MoveInv ==
  /\ user = "awaiting" => wanted.kind = "genMoveSynchronous"
  /\ user = "starting" => wanted.kind # "ponder"
  /\ (user \in {"notifying", "awaiting"} /\ wanted.kind = "genMoveSynchronous")
       => isKilled \/ wanted.id \in moves \/ (isRunning /\ wanted = queued)
  /\ (isRunning /\ queued.kind = "genMoveSynchronous")
       => user \in {"notifying", "awaiting"} /\ wanted = queued
  /\ unanswered => isKilled

IInv == /\ TypeOK /\ SearchIsForRequest /\ NoLostWakeup
        /\ ReporterInv /\ LifeInv /\ MoveInv

\* The initial state satisfies the invariant.
LEMMA InitInv == Init => IInv
<1> SUFFICES ASSUME Init PROVE IInv
  OBVIOUS
<1>1. NoRequest \in Requests
  BY AsyncBotAssumption DEF NoRequest, Requests, Kinds
<1>2. TypeOK
  BY <1>1 DEF Init, TypeOK
<1>3. SearchIsForRequest /\ NoLostWakeup /\ ReporterInv /\ LifeInv /\ MoveInv
  BY DEF Init, SearchIsForRequest, Searching, NoLostWakeup, ReporterInv, LifeInv, MoveInv
<1> QED
  BY <1>2, <1>3 DEF IInv

\* The user's steps preserve it.
LEMMA UserInv ==
  ASSUME IInv,
         \/ \E kind \in Kinds, reports \in BOOLEAN : StartRequest(kind, reports)
         \/ StopAndWait \/ Ponder \/ UserStep
  PROVE  IInv'
<1> USE DEF request, stops, search, userVars
<1>0. /\ SearchIsForRequest /\ NoLostWakeup /\ ReporterInv /\ LifeInv /\ MoveInv
      /\ queued.id \in Nat
  BY DEF IInv, TypeOK, Requests
<1>1. ASSUME NEW kind \in Kinds, NEW reports \in BOOLEAN, StartRequest(kind, reports)
      PROVE  IInv'
  <2>1. TypeOK'
    BY <1>1, AsyncBotAssumption DEF IInv, TypeOK, StartRequest, Requests
  <2>2. SearchIsForRequest' /\ NoLostWakeup' /\ ReporterInv' /\ LifeInv' /\ MoveInv'
    BY <1>0, <1>1
    DEF StartRequest,
        SearchIsForRequest, Searching, NoLostWakeup, ReporterInv, LifeInv, MoveInv
  <2> QED
    BY <2>1, <2>2 DEF IInv
<1>2. CASE StopAndWait
  <2>1. TypeOK'
    BY <1>2 DEF IInv, TypeOK, StopAndWait
  <2>2. SearchIsForRequest' /\ NoLostWakeup' /\ ReporterInv' /\ LifeInv' /\ MoveInv'
    BY <1>0, <1>2
    DEF StopAndWait,
        SearchIsForRequest, Searching, NoLostWakeup, ReporterInv, LifeInv, MoveInv
  <2> QED
    BY <2>1, <2>2 DEF IInv
<1>3. CASE UserSleeps
  <2>1. TypeOK'
    BY <1>3 DEF IInv, TypeOK, UserSleeps, WaitsForSearchToEnd
  <2>2. SearchIsForRequest' /\ NoLostWakeup' /\ ReporterInv' /\ LifeInv' /\ MoveInv'
    BY <1>0, <1>3
    DEF UserSleeps, WaitsForSearchToEnd,
        SearchIsForRequest, Searching, NoLostWakeup, ReporterInv, LifeInv, MoveInv
  <2> QED
    BY <2>1, <2>2 DEF IInv
<1>4. CASE Enqueue
  <2>1. TypeOK'
    BY <1>4 DEF IInv, TypeOK, Enqueue, SetRequest, SearchHasEnded
  <2>2. SearchIsForRequest' /\ NoLostWakeup' /\ ReporterInv' /\ LifeInv' /\ MoveInv'
    BY <1>0, <1>4
    DEF Enqueue, SetRequest, SearchHasEnded,
        SearchIsForRequest, Searching, NoLostWakeup, ReporterInv, LifeInv, MoveInv
  <2> QED
    BY <2>1, <2>2 DEF IInv
<1>5. CASE Ponder
  <2>1. TypeOK'
    <3>1. [id |-> queued.id + 1, kind |-> "ponder", reports |-> FALSE] \in Requests
      BY <1>5, <1>0, AsyncBotAssumption DEF Ponder, Requests, Kinds
    <3>2. NoRequest \in Requests
      BY AsyncBotAssumption DEF NoRequest, Requests, Kinds
    <3> QED
      BY <1>5, <3>1, <3>2 DEF IInv, TypeOK, Ponder, SetRequest
  <2>2. SearchIsForRequest' /\ NoLostWakeup' /\ ReporterInv' /\ LifeInv' /\ MoveInv'
    BY <1>0, <1>5
    DEF Ponder, SetRequest, NoRequest,
        SearchIsForRequest, Searching, NoLostWakeup, ReporterInv, LifeInv, MoveInv
  <2> QED
    BY <2>1, <2>2 DEF IInv
<1>6. CASE Notify
  <2>1. TypeOK'
    BY <1>6 DEF IInv, TypeOK, Notify, NotifySearcher
  <2>2. SearchIsForRequest' /\ NoLostWakeup' /\ ReporterInv' /\ LifeInv' /\ MoveInv'
    BY <1>0, <1>6
    DEF Notify, NotifySearcher,
        SearchIsForRequest, Searching, NoLostWakeup, ReporterInv, LifeInv, MoveInv
  <2> QED
    BY <2>1, <2>2 DEF IInv
<1>7. CASE ReturnMove
  <2>1. TypeOK'
    BY <1>7 DEF IInv, TypeOK, ReturnMove, SearchHasEnded
  <2>2. SearchIsForRequest' /\ NoLostWakeup' /\ ReporterInv' /\ LifeInv' /\ MoveInv'
    BY <1>0, <1>7
    DEF ReturnMove, SearchHasEnded,
        SearchIsForRequest, Searching, NoLostWakeup, ReporterInv, LifeInv, MoveInv
  <2> QED
    BY <2>1, <2>2 DEF IInv
<1>8. CASE Stopped \/ Mutated
  <2>1. TypeOK'
    BY <1>8 DEF IInv, TypeOK, Stopped, Mutated, SearchHasEnded
  <2>2. SearchIsForRequest' /\ NoLostWakeup' /\ ReporterInv' /\ LifeInv' /\ MoveInv'
    BY <1>0, <1>8
    DEF Stopped, Mutated, SearchHasEnded,
        SearchIsForRequest, Searching, NoLostWakeup, ReporterInv, LifeInv, MoveInv
  <2> QED
    BY <2>1, <2>2 DEF IInv
<1>9. CASE Kill
  <2>1. TypeOK'
    BY <1>9 DEF IInv, TypeOK, Kill, NotifySearcher, SearchHasEnded
  <2>2. SearchIsForRequest' /\ NoLostWakeup' /\ ReporterInv' /\ LifeInv' /\ MoveInv'
    BY <1>0, <1>9
    DEF Kill, NotifySearcher, SearchHasEnded,
        SearchIsForRequest, Searching, NoLostWakeup, ReporterInv, LifeInv, MoveInv
  <2> QED
    BY <2>1, <2>2 DEF IInv
<1>10. CASE Delete
  <2>1. TypeOK'
    BY <1>10 DEF IInv, TypeOK, Delete
  <2>2. SearchIsForRequest' /\ NoLostWakeup' /\ ReporterInv' /\ LifeInv' /\ MoveInv'
    BY <1>0, <1>10
    DEF Delete,
        SearchIsForRequest, Searching, NoLostWakeup, ReporterInv, LifeInv, MoveInv
  <2> QED
    BY <2>1, <2>2 DEF IInv
<1> QED
  BY <1>1, <1>2, <1>3, <1>4, <1>5, <1>6, <1>7, <1>8, <1>9, <1>10 DEF UserStep

\* The steps of the other threads, the bot's own included, preserve it.
LEMMA OthersInv ==
  ASSUME IInv,
         \/ StopWithoutWait \/ SetKilled \/ SearcherStep \/ SearchEnds
         \/ Report \/ Reported \/ ReporterExits \/ SpuriousWakeup
  PROVE  IInv'
<1> USE DEF request, stops, search, userVars
<1>0. /\ SearchIsForRequest /\ NoLostWakeup /\ ReporterInv /\ LifeInv /\ MoveInv
      /\ queued.id \in Nat
  BY DEF IInv, TypeOK, Requests
<1>11. CASE StopWithoutWait
  <2>1. TypeOK'
    BY <1>11 DEF IInv, TypeOK, StopWithoutWait, MayBeCalled
  <2>2. SearchIsForRequest' /\ NoLostWakeup' /\ ReporterInv' /\ LifeInv' /\ MoveInv'
    BY <1>0, <1>11
    DEF StopWithoutWait, MayBeCalled,
        SearchIsForRequest, Searching, NoLostWakeup, ReporterInv, LifeInv, MoveInv
  <2> QED
    BY <2>1, <2>2 DEF IInv
<1>1. CASE SetKilled
  <2>1. TypeOK'
    BY <1>1 DEF IInv, TypeOK, SetKilled, MayBeCalled, NotifySearcher
  <2>2. SearchIsForRequest' /\ NoLostWakeup' /\ ReporterInv' /\ LifeInv' /\ MoveInv'
    BY <1>0, <1>1
    DEF SetKilled, MayBeCalled, NotifySearcher,
        SearchIsForRequest, Searching, NoLostWakeup, ReporterInv, LifeInv, MoveInv
  <2> QED
    BY <2>1, <2>2 DEF IInv
<1>2. CASE SearcherSleeps
  <2>1. TypeOK'
    BY <1>2 DEF IInv, TypeOK, SearcherSleeps
  <2>2. SearchIsForRequest' /\ NoLostWakeup' /\ ReporterInv' /\ LifeInv' /\ MoveInv'
    BY <1>0, <1>2
    DEF SearcherSleeps,
        SearchIsForRequest, Searching, NoLostWakeup, ReporterInv, LifeInv, MoveInv
  <2> QED
    BY <2>1, <2>2 DEF IInv
<1>3. CASE SearcherExits
  <2>1. TypeOK'
    BY <1>3 DEF IInv, TypeOK, SearcherExits, NotifyUser
  <2>2. SearchIsForRequest' /\ NoLostWakeup' /\ ReporterInv' /\ LifeInv' /\ MoveInv'
    BY <1>0, <1>3
    DEF SearcherExits, NotifyUser,
        SearchIsForRequest, Searching, NoLostWakeup, ReporterInv, LifeInv, MoveInv
  <2> QED
    BY <2>1, <2>2 DEF IInv
<1>4. CASE StartSearch
  <2>1. TypeOK'
    BY <1>4 DEF IInv, TypeOK, StartSearch, StartReporter
  <2>2. SearchIsForRequest' /\ NoLostWakeup' /\ ReporterInv' /\ LifeInv' /\ MoveInv'
    BY <1>0, <1>4
    DEF StartSearch, StartReporter,
        SearchIsForRequest, Searching, NoLostWakeup, ReporterInv, LifeInv, MoveInv
  <2> QED
    BY <2>1, <2>2 DEF IInv
<1>5. CASE SearchBegins
  <2>1. TypeOK'
    BY <1>5 DEF IInv, TypeOK, SearchBegins
  <2>2. SearchIsForRequest' /\ NoLostWakeup' /\ ReporterInv' /\ LifeInv' /\ MoveInv'
    BY <1>0, <1>5
    DEF SearchBegins,
        SearchIsForRequest, Searching, NoLostWakeup, ReporterInv, LifeInv, MoveInv
  <2> QED
    BY <2>1, <2>2 DEF IInv
<1>6. CASE SearchEnds
  <2>1. TypeOK'
    BY <1>6 DEF IInv, TypeOK, SearchEnds
  <2>2. SearchIsForRequest' /\ NoLostWakeup'
    BY <1>0, <1>6, <2>1
    DEF SearchEnds, TypeOK,
        SearchIsForRequest, Searching, NoLostWakeup, ReporterInv, LifeInv, MoveInv
  <2>3. ReporterInv' /\ LifeInv'
    BY <1>0, <1>6, <2>1
    DEF SearchEnds, TypeOK,
        SearchIsForRequest, Searching, NoLostWakeup, ReporterInv, LifeInv, MoveInv
  <2>4. MoveInv'
    BY <1>0, <1>6, <2>1
    DEF SearchEnds, TypeOK,
        SearchIsForRequest, Searching, NoLostWakeup, ReporterInv, LifeInv, MoveInv
  <2> QED
    BY <2>1, <2>2, <2>3, <2>4 DEF IInv
<1>7. CASE StopReporter \/ JoinReporter
  <2>1. TypeOK'
    <3>1. CASE StopReporter
      BY <3>1 DEF IInv, TypeOK, StopReporter
    <3>2. CASE JoinReporter
      <4>1. reporter' # "none" => local'.reports
        BY <3>2 DEF JoinReporter
      <4> QED
        BY <3>2, <4>1 DEF IInv, TypeOK, JoinReporter
    <3> QED
      BY <1>7, <3>1, <3>2
  <2>2. SearchIsForRequest' /\ NoLostWakeup'
    BY <1>0, <1>7
    DEF StopReporter, JoinReporter,
        SearchIsForRequest, Searching, NoLostWakeup, ReporterInv, LifeInv, MoveInv
  <2>3. ReporterInv' /\ LifeInv'
    BY <1>0, <1>7
    DEF StopReporter, JoinReporter,
        SearchIsForRequest, Searching, NoLostWakeup, ReporterInv, LifeInv, MoveInv
  <2>4. MoveInv'
    BY <1>0, <1>7
    DEF StopReporter, JoinReporter,
        SearchIsForRequest, Searching, NoLostWakeup, ReporterInv, LifeInv, MoveInv
  <2> QED
    BY <2>1, <2>2, <2>3, <2>4 DEF IInv
<1>8. CASE FinishSearch
  <2>1. TypeOK'
    <3>1. queued.id # 0
      BY <1>0, <1>8 DEF FinishSearch, SearchIsForRequest, Searching, LifeInv
    <3>2. queued.id \in 1 .. MaxSearches
      BY <3>1, AsyncBotAssumption DEF IInv, TypeOK, Requests
    <3>3. moves' \in SUBSET (1 .. MaxSearches)
      BY <1>8, <3>2 DEF IInv, TypeOK, FinishSearch
    <3> QED
      BY <1>8, <3>3 DEF IInv, TypeOK, FinishSearch, NotifyUser
  <2>2. SearchIsForRequest' /\ NoLostWakeup' /\ ReporterInv' /\ LifeInv' /\ MoveInv'
    BY <1>0, <1>8
    DEF FinishSearch, NotifyUser, HasOnMove,
        SearchIsForRequest, Searching, NoLostWakeup, ReporterInv, LifeInv, MoveInv
  <2> QED
    BY <2>1, <2>2 DEF IInv
<1>9. CASE Report \/ Reported \/ ReporterExits
  <2>1. TypeOK'
    <3>1. UNCHANGED <<request, stops, searcher, local, isSearchBegun,
                      callbackLoopShouldStop, userVars, moves>>
      BY <1>9 DEF Report, Reported, ReporterExits
    <3>2. /\ reporter # "none"
          /\ reporter' \in {"waiting", "reporting", "exited"}
      BY <1>9 DEF Report, Reported, ReporterExits
    <3>3. local'.reports
      BY <3>1, <3>2 DEF IInv, TypeOK
    <3> QED
      BY <3>1, <3>2, <3>3 DEF IInv, TypeOK
  <2>2. SearchIsForRequest' /\ NoLostWakeup' /\ ReporterInv' /\ LifeInv' /\ MoveInv'
    BY <1>0, <1>9
    DEF Report, Reported, ReporterExits,
        SearchIsForRequest, Searching, NoLostWakeup, ReporterInv, LifeInv, MoveInv
  <2> QED
    BY <2>1, <2>2 DEF IInv
<1>10. CASE SpuriousWakeup
  <2>1. TypeOK'
    <3>1. UNCHANGED <<request, stops, local, isSearchBegun, callbackLoopShouldStop, reporter,
                      user, wanted, moves, unanswered>>
      BY <1>10 DEF SpuriousWakeup
    <3>2. CASE searcher' = searcher /\ userAsleep' = FALSE
      <4>1. userAsleep' \in BOOLEAN
        BY <3>2
      <4>2. reporter' # "none" => local'.reports
        BY <3>1 DEF IInv, TypeOK
      <4> QED
        BY <3>1, <3>2, <4>1, <4>2 DEF IInv, TypeOK
    <3>3. CASE searcher' = "loop" /\ userAsleep' = userAsleep
      BY <3>1, <3>3 DEF IInv, TypeOK
    <3> QED
      BY <1>10, <3>2, <3>3 DEF SpuriousWakeup
  <2>2. SearchIsForRequest' /\ NoLostWakeup' /\ ReporterInv' /\ LifeInv' /\ MoveInv'
    BY <1>0, <1>10
    DEF SpuriousWakeup,
        SearchIsForRequest, Searching, NoLostWakeup, ReporterInv, LifeInv, MoveInv
  <2> QED
    BY <2>1, <2>2 DEF IInv
<1> QED
  BY <1>1, <1>2, <1>3, <1>4, <1>5, <1>6, <1>7, <1>8, <1>9, <1>10, <1>11 DEF SearcherStep

\* Every step preserves the invariant.
LEMMA NextInv == IInv /\ [Next]_vars => IInv'
<1> SUFFICES ASSUME IInv, [Next]_vars PROVE IInv'
  OBVIOUS
<1>1. CASE UNCHANGED vars
  BY <1>1 DEF vars, IInv, TypeOK, SearchIsForRequest, Searching, NoLostWakeup,
     ReporterInv, LifeInv, MoveInv
<1> QED
  BY <1>1, UserInv, OthersInv DEF Next

\* IInv is an invariant of the bot.
THEOREM BotInvariant == Spec => []IInv
BY InitInv, NextInv, PTL DEF Spec

\* The types are right in every reachable state.
THEOREM BotTypeCorrect == Spec => []TypeOK
<1>1. IInv => TypeOK
  BY DEF IInv
<1> QED
  BY <1>1, BotInvariant, PTL

\* A request is never replaced while its search runs, so that what the search
\* thread reads without the lock, or after giving it up, belongs to its request.
THEOREM BotSearchIsForRequest == Spec => []SearchIsForRequest
<1>1. IInv => SearchIsForRequest
  BY DEF IInv
<1> QED
  BY <1>1, BotInvariant, PTL

\* The tree is changed by one thread while no other one reads it.
THEOREM BotTreeIsNotShared == Spec => []TreeIsNotShared
<1>1. IInv => TreeIsNotShared
  BY DEF IInv, TypeOK, SearchIsForRequest, Searching, ReporterInv, LifeInv, TreeIsNotShared
<1> QED
  BY <1>1, BotInvariant, PTL

\* A synchronous request gets its move unless the bot is killed, and its onMove
\* is not called after it returned.
THEOREM BotSynchronousGetsMove == Spec => []SynchronousGetsMove
<1>1. IInv => SynchronousGetsMove
  BY DEF IInv, SearchIsForRequest, MoveInv, SynchronousGetsMove
<1> QED
  BY <1>1, BotInvariant, PTL

\* Nobody sleeps on a condition variable that will not be notified.
THEOREM BotNoLostWakeup == Spec => []NoLostWakeup
<1>1. IInv => NoLostWakeup
  BY DEF IInv
<1> QED
  BY <1>1, BotInvariant, PTL

\* Every step of the bot is a step of the service or leaves it as it was.
LEMMA StepSimulation ==
  ASSUME IInv, [Next]_vars
  PROVE  [SS!Next]_SS!vars
<1> USE DEF request, stops, search, userVars
<1>0. /\ SearchIsForRequest /\ LifeInv
      /\ queued.id \in 0 .. MaxSearches /\ wanted.id \in 0 .. MaxSearches
      /\ isKilled \in BOOLEAN /\ isRunning \in BOOLEAN
  BY DEF IInv, TypeOK, Requests
<1>1. CASE UNCHANGED vars
  BY <1>1 DEF vars, SS!vars, Searching, HasOnMove
<1>2. CASE \/ \E kind \in Kinds, reports \in BOOLEAN : StartRequest(kind, reports)
           \/ StopAndWait \/ UserSleeps \/ Notify \/ ReturnMove \/ Stopped \/ Mutated \/ Delete
  BY <1>0, <1>2
  DEF StartRequest, StopAndWait, UserSleeps, Notify, ReturnMove, Stopped, Mutated, Delete,
      NotifySearcher, SS!vars, Searching, HasOnMove
<1>3. CASE Ponder
  BY <1>0, <1>3
  DEF Ponder, SetRequest, LifeInv, SearchIsForRequest, Searching, HasOnMove, SS!vars, SS!Next, SS!Ask
<1>4. CASE Enqueue
  <2>1. ~isRunning /\ queued.id + 1 = wanted.id
    BY <1>0, <1>4 DEF Enqueue, SearchHasEnded, LifeInv
  <2>2. CASE isKilled
    BY <1>4, <2>2 DEF Enqueue, SetRequest, Searching, HasOnMove, SS!vars
  <2>3. CASE ~isKilled
    <3>1. /\ isRunning' /\ queued' = wanted
          /\ UNCHANGED <<isKilled, moves, searcher>>
      BY <1>4, <2>3 DEF Enqueue, SetRequest
    <3>2. ~Searching'
      BY <1>0, <2>1, <3>1 DEF SearchIsForRequest, Searching
    <3>3. queued.id < MaxSearches /\ queued'.id = queued.id + 1
      BY <1>0, <2>1, <3>1, AsyncBotAssumption
    <3>4. HasOnMove(queued)' \in BOOLEAN
      BY DEF HasOnMove
    <3>5. SS!Ask
      BY <2>1, <2>3, <3>1, <3>2, <3>3, <3>4 DEF SS!Ask
    <3> QED
      BY <3>5 DEF SS!Next
  <2> QED
    BY <1>0, <2>2, <2>3
<1>5. CASE Kill \/ SetKilled
  BY <1>0, <1>5 DEF Kill, SetKilled, NotifySearcher, Searching, HasOnMove, SS!vars, SS!Next, SS!Kill
<1>6. CASE StartSearch
  BY <1>0, <1>6 DEF StartSearch, Searching, HasOnMove, SS!vars, SS!Next, SS!Begin
<1>7. CASE SearcherExits
  BY <1>0, <1>7 DEF SearcherExits, Searching, HasOnMove, SS!vars, SS!Next, SS!Drop
<1>8. CASE FinishSearch
  BY <1>0, <1>8
  DEF FinishSearch, SearchIsForRequest, Searching, HasOnMove, SS!vars, SS!Next, SS!End
<1>9. CASE \/ SearcherSleeps \/ SearchBegins \/ StopReporter \/ JoinReporter \/ SearchEnds
           \/ StopWithoutWait \/ Report \/ Reported \/ ReporterExits \/ SpuriousWakeup
  BY <1>0, <1>9
  DEF SearcherSleeps, SearchBegins, StopReporter, JoinReporter, SearchEnds, StopWithoutWait,
      Report, Reported, ReporterExits, SpuriousWakeup, Searching, HasOnMove, SS!vars
<1> QED
  BY <1>1, <1>2, <1>3, <1>4, <1>5, <1>6, <1>7, <1>8, <1>9 DEF Next, UserStep, SearcherStep

\* Whatever its threads and the other callers do, the bot keeps the promise of
\* its header: one search at a time, and none that was begun goes without its
\* outcome.
THEOREM BotImplementsSearchService == Spec => ImplementsSearchService
<1>1. Init => SS!Init
  BY DEF Init, SS!Init, NoRequest, HasOnMove
<1> QED
  BY <1>1, StepSimulation, BotInvariant, PTL DEF Spec, ImplementsSearchService, SS!Spec

-----------------------------------------------------------------------------
(* The GTP engine: induction over the moves of a game. *)

\* The order of the naturals as a set of pairs.
Lt == {ss \in Nat \X Nat : ss[1] < ss[2]}

\* It has no infinite descent.
LEMMA LtIsWellFounded == IsWellFoundedOn(Lt, Nat)
<1>1. IsWellFoundedOn(OpToRel(<, Nat), Nat)
  BY NatLessThanWellFounded
<1> QED
  BY <1>1 DEF OpToRel, Lt

\* A set that has 0 and successors has every number.
LEMMA SetInduction ==
  ASSUME NEW T, 0 \in T, \A n \in Nat : n \in T => n + 1 \in T
  PROVE  Nat \subseteq T
<1>1. SUFFICES ASSUME Nat \ T # {} PROVE FALSE
  OBVIOUS
<1>2. PICK m \in Nat \ T : \A y \in Nat \ T : ~ (<<y, m>> \in Lt)
  BY <1>1, LtIsWellFounded, WFMin
<1>3. m # 0 /\ m - 1 \in Nat /\ m - 1 < m /\ m - 1 + 1 = m
  BY <1>2
<1>4. m - 1 \in T
  BY <1>2, <1>3 DEF Lt
<1> QED
  BY <1>2, <1>3, <1>4

\* Up to a bound.
LEMMA BoundedInduction ==
  ASSUME NEW n \in Nat, NEW T, 0 \in T, \A i \in 1 .. n : i - 1 \in T => i \in T
  PROVE  0 .. n \subseteq T
<1> DEFINE U == {i \in Nat : i <= n => i \in T}
<1>1. 0 \in U
  OBVIOUS
<1>2. ASSUME NEW i \in Nat, i \in U PROVE i + 1 \in U
  <2>1. SUFFICES ASSUME i + 1 <= n PROVE i + 1 \in T
    OBVIOUS
  <2>2. i + 1 \in 1 .. n /\ (i + 1) - 1 = i /\ i <= n
    BY <2>1
  <2> QED
    BY <1>2, <2>2
<1> HIDE DEF U
<1>3. Nat \subseteq U
  BY <1>1, <1>2, SetInduction
<1> QED
  BY <1>3 DEF U

-----------------------------------------------------------------------------
(* One move after another. *)

Start(r) == [root |-> r, moves |-> <<>>, ok |-> TRUE]

\* f is what PlayMoves's played says for the first n moves.
Plays(f, r, ms, n, atRoot) ==
  f = [i \in 0 .. n |-> IF i = 0 THEN Start(r) ELSE PlayNext(f[i - 1], ms[i], atRoot)]

\* There is such a function ...
LEMMA PlaysExists ==
  ASSUME NEW r, NEW ms, NEW n \in Nat, NEW atRoot
  PROVE  \E f : Plays(f, r, ms, n, atRoot)
<1> DEFINE T == {k \in Nat : \E f : Plays(f, r, ms, k, atRoot)}
<1>1. 0 \in T
  <2>1. Plays([i \in 0 .. 0 |-> Start(r)], r, ms, 0, atRoot)
    BY DEF Plays
  <2> QED
    BY <2>1
<1>2. ASSUME NEW k \in Nat, k \in T PROVE k + 1 \in T
  <2>1. PICK f : Plays(f, r, ms, k, atRoot)
    BY <1>2
  <2> DEFINE g == [i \in 0 .. k + 1 |->
                    IF i <= k THEN f[i] ELSE PlayNext(f[k], ms[k + 1], atRoot)]
  <2>2. ASSUME NEW i \in 0 .. k + 1
        PROVE  g[i] = IF i = 0 THEN Start(r) ELSE PlayNext(g[i - 1], ms[i], atRoot)
    <3>1. CASE i = 0
      BY <3>1, <2>1 DEF Plays
    <3>2. CASE i \in 1 .. k
      <4>1. g[i] = f[i] /\ g[i - 1] = f[i - 1] /\ i \in 0 .. k /\ i # 0
        BY <3>2
      <4> HIDE DEF g
      <4> QED
        BY <4>1, <2>1 DEF Plays
    <3>3. CASE i = k + 1
      <4>1. g[i] = PlayNext(f[k], ms[k + 1], atRoot) /\ g[i - 1] = f[k] /\ i # 0
        BY <3>3
      <4> HIDE DEF g
      <4> QED
        BY <4>1, <3>3
    <3> QED
      BY <3>1, <3>2, <3>3
  <2>3. Plays(g, r, ms, k + 1, atRoot)
    BY <2>2 DEF Plays
  <2> QED
    BY <2>3
<1> HIDE DEF T
<1>3. Nat \subseteq T
  BY <1>1, <1>2, SetInduction
<1> QED
  BY <1>3 DEF T

\* ... and PlayMoves takes one.
LEMMA PlayMovesPlays ==
  ASSUME NEW r, NEW ms \in Stones, NEW atRoot
  PROVE  \E f : Plays(f, r, ms, Len(ms), atRoot) /\ PlayMoves(r, ms, atRoot) = f[Len(ms)]
<1> DEFINE P(f) == f = [i \in 0 .. Len(ms) |->
                         IF i = 0 THEN [root |-> r, moves |-> <<>>, ok |-> TRUE]
                         ELSE PlayNext(f[i - 1], ms[i], atRoot)]
           f0 == CHOOSE f : P(f)
<1>1. \E f : P(f)
  <2>1. Len(ms) \in Nat
    BY DEF Stones
  <2>2. PICK f : Plays(f, r, ms, Len(ms), atRoot)
    BY <2>1, PlaysExists
  <2>3. P(f)
    BY <2>2 DEF Plays, Start
  <2> QED
    BY <2>3
<1>2. P(f0)
  BY <1>1
<1>3. PlayMoves(r, ms, atRoot) = f0[Len(ms)]
  BY DEF PlayMoves
<1> HIDE DEF f0
<1> QED
  BY <1>2, <1>3 DEF Plays, Start

\* No moves change nothing.
LEMMA PlayNone ==
  ASSUME NEW r, NEW atRoot
  PROVE  PlayMoves(r, <<>>, atRoot) = Start(r)
<1>1. <<>> \in Stones /\ Len(<<>>) = 0
  BY DEF Stones
<1>2. PICK f : Plays(f, r, <<>>, 0, atRoot) /\ PlayMoves(r, <<>>, atRoot) = f[0]
  BY <1>1, PlayMovesPlays
<1> QED
  BY <1>2 DEF Plays

\* Who plays one move more plays the others first.
LEMMA PlayOneMore ==
  ASSUME NEW r, NEW ms \in Stones, NEW m \in Cells \X Sides, NEW atRoot
  PROVE  PlayMoves(r, Append(ms, m), atRoot) = PlayNext(PlayMoves(r, ms, atRoot), m, atRoot)
<1> DEFINE n == Len(ms)
           ns == Append(ms, m)
<1>1. /\ n \in Nat /\ ns \in Stones /\ Len(ns) = n + 1 /\ ns[n + 1] = m
      /\ \A i \in 1 .. n : ns[i] = ms[i]
  BY DEF Stones
<1>2. PICK f : Plays(f, r, ms, n, atRoot) /\ PlayMoves(r, ms, atRoot) = f[n]
  BY PlayMovesPlays
<1> HIDE DEF n, ns
<1>3. PICK g : Plays(g, r, ns, n + 1, atRoot) /\ PlayMoves(r, ns, atRoot) = g[n + 1]
  BY <1>1, PlayMovesPlays
<1> DEFINE T == {i \in Nat : i <= n => f[i] = g[i]}
<1>4. 0 \in T
  BY <1>1, <1>2, <1>3 DEF Plays
<1>5. ASSUME NEW i \in Nat, i \in T PROVE i + 1 \in T
  <2>1. SUFFICES ASSUME i + 1 <= n PROVE f[i + 1] = g[i + 1]
    OBVIOUS
  <2>2. f[i] = g[i]
    BY <1>1, <1>5, <2>1
  <2>3. /\ i + 1 \in 0 .. n /\ i + 1 \in 0 .. n + 1 /\ i + 1 \in 1 .. n
        /\ i + 1 # 0 /\ (i + 1) - 1 = i
    BY <1>1, <2>1
  <2>4. f[i + 1] = PlayNext(f[i], ms[i + 1], atRoot)
    BY <1>2, <2>3 DEF Plays
  <2>5. g[i + 1] = PlayNext(g[i], ns[i + 1], atRoot)
    BY <1>3, <2>3 DEF Plays
  <2> QED
    BY <1>1, <2>2, <2>3, <2>4, <2>5
<1> HIDE DEF T
<1>6. Nat \subseteq T
  BY <1>4, <1>5, SetInduction
<1>7. f[n] = g[n]
  BY <1>1, <1>6 DEF T
<1>8. g[n + 1] = PlayNext(g[n], ns[n + 1], atRoot)
  <2>1. n + 1 \in 0 .. n + 1 /\ n + 1 # 0 /\ (n + 1) - 1 = n
    BY <1>1
  <2> QED
    BY <1>3, <2>1 DEF Plays
<1>9. PlayMoves(r, ns, atRoot) = PlayNext(PlayMoves(r, ms, atRoot), m, atRoot)
  BY <1>1, <1>2, <1>3, <1>7, <1>8
<1> QED
  BY <1>9 DEF ns

-----------------------------------------------------------------------------
(* Lists of moves, from their ends. *)

\* The last move and the ones before it.
LEMMA FrontAndLast ==
  ASSUME NEW ms \in Stones, ms # <<>>
  PROVE  /\ Front(ms) \in Stones /\ Last(ms) \in Cells \X Sides
         /\ ms = Append(Front(ms), Last(ms)) /\ Len(Front(ms)) = Len(ms) - 1
<1>1. Len(ms) \in Nat /\ Len(ms) # 0
  BY DEF Stones
<1>2. Front(ms) \in Stones /\ Len(Front(ms)) = Len(ms) - 1
  <2> DEFINE n == Len(ms) - 1
  <2>1. n \in Nat /\ n <= Len(ms) /\ \A i \in 1 .. n : ms[i] \in Cells \X Sides
    BY <1>1 DEF Stones
  <2>2. SubSeq(ms, 1, n) = [i \in 1 .. n |-> ms[i]]
    BY <2>1
  <2> HIDE DEF n
  <2>3. [i \in 1 .. n |-> ms[i]] \in Seq(Cells \X Sides) /\ Len([i \in 1 .. n |-> ms[i]]) = n
    BY <2>1
  <2> QED
    BY <2>2, <2>3 DEF Stones, Front, n
<1>3. Last(ms) \in Cells \X Sides
  BY <1>1 DEF Stones, Last
<1>4. ms = Append(Front(ms), Last(ms))
  BY <1>1 DEF Stones, Front, Last
<1> QED
  BY <1>2, <1>3, <1>4

\* A list and one move more.
LEMMA OneMore ==
  ASSUME NEW ms \in Stones, NEW m \in Cells \X Sides
  PROVE  Append(ms, m) \in Stones /\ Append(ms, m) # <<>> /\ Last(Append(ms, m)) = m
<1> DEFINE P == Cells \X Sides
<1>1. ms \in Seq(P) /\ m \in P
  BY DEF Stones
<1> HIDE DEF P
<1>2. Append(ms, m) \in Seq(P) /\ Append(ms, m) # <<>> /\ Last(Append(ms, m)) = m
  BY <1>1, AppendProperties DEF Last
<1> QED
  BY <1>2 DEF Stones, P

\* A set that has the empty list, and with each list those that are one longer,
\* has every list.
LEMMA StonesInduction ==
  ASSUME NEW S, <<>> \in S,
         \A ms \in Stones : \A m \in Cells \X Sides : ms \in S => Append(ms, m) \in S
  PROVE  Stones \subseteq S
<1> DEFINE T == {n \in Nat : \A ms \in Stones : Len(ms) = n => ms \in S}
<1>1. 0 \in T
  <2>1. \A ms \in Stones : Len(ms) = 0 => ms = <<>>
    BY DEF Stones
  <2> QED
    BY <2>1
<1>2. ASSUME NEW n \in Nat, n \in T PROVE n + 1 \in T
  <2>1. SUFFICES ASSUME NEW ms \in Stones, Len(ms) = n + 1 PROVE ms \in S
    OBVIOUS
  <2>2. ms # <<>>
    BY <2>1
  <2>3. Front(ms) \in Stones /\ Last(ms) \in Cells \X Sides
        /\ ms = Append(Front(ms), Last(ms)) /\ Len(Front(ms)) = n
    BY <2>1, <2>2, FrontAndLast
  <2>4. Front(ms) \in S
    BY <1>2, <2>3
  <2> QED
    BY <2>3, <2>4
<1> HIDE DEF T
<1>3. Nat \subseteq T
  BY <1>1, <1>2, SetInduction
<1>4. \A ms \in Stones : Len(ms) \in Nat
  BY DEF Stones
<1> QED
  BY <1>3, <1>4 DEF T

\* A suffix, move by move from the end.
LEMMA SuffixIs ==
  ASSUME NEW s \in Stones, NEW t \in Stones
  PROVE  IsSuffix(s, t) <=> /\ Len(s) <= Len(t)
                            /\ \A k \in 0 .. Len(s) - 1 : s[Len(s) - k] = t[Len(t) - k]
<1> DEFINE a == Len(s)
           b == Len(t)
<1>1. a \in Nat /\ b \in Nat
  BY DEF Stones
<1>2. Len(Reverse(s)) = a /\ Len(Reverse(t)) = b
  BY <1>1 DEF Reverse
<1>3. /\ \A k \in 0 .. a - 1 : k + 1 \in 1 .. a /\ (a - (k + 1)) + 1 = a - k
      /\ \A k \in 0 .. b - 1 : k + 1 \in 1 .. b /\ (b - (k + 1)) + 1 = b - k
  BY <1>1
<1>4. /\ \A k \in 0 .. a - 1 : Reverse(s)[k + 1] = s[a - k]
      /\ \A k \in 0 .. b - 1 : Reverse(t)[k + 1] = t[b - k]
  BY <1>3 DEF Reverse
<1>5. SUFFICES ASSUME a <= b
               PROVE  SubSeq(Reverse(s), 1, a) = SubSeq(Reverse(t), 1, a)
                      <=> \A k \in 0 .. a - 1 : s[a - k] = t[b - k]
  BY <1>2 DEF IsSuffix, IsPrefix
<1>6. /\ SubSeq(Reverse(s), 1, a) = [i \in 1 .. a |-> Reverse(s)[i]]
      /\ SubSeq(Reverse(t), 1, a) = [i \in 1 .. a |-> Reverse(t)[i]]
  BY <1>1, <1>2, <1>5
<1> HIDE DEF a, b
<1>7. ASSUME NEW k \in 0 .. a - 1
      PROVE  Reverse(s)[k + 1] = Reverse(t)[k + 1] <=> s[a - k] = t[b - k]
  BY <1>1, <1>4, <1>5
<1>8. \A i \in 1 .. a : i - 1 \in 0 .. a - 1 /\ (i - 1) + 1 = i
  BY <1>1
<1>9. (\A i \in 1 .. a : Reverse(s)[i] = Reverse(t)[i])
      <=> \A k \in 0 .. a - 1 : s[a - k] = t[b - k]
  BY <1>3, <1>7, <1>8
<1> QED
  BY <1>6, <1>9

\* No moves are a suffix of any.
LEMMA EmptySuffix ==
  ASSUME NEW t \in Stones
  PROVE  IsSuffix(<<>>, t)
<1>1. <<>> \in Stones /\ Len(<<>>) = 0 /\ Len(t) \in Nat
  BY DEF Stones
<1> QED
  BY <1>1, SuffixIs

\* All are one, too.
LEMMA SameSuffix ==
  ASSUME NEW t \in Stones
  PROVE  IsSuffix(t, t)
<1>1. Len(t) \in Nat
  BY DEF Stones
<1> QED
  BY <1>1, SuffixIs

\* One move more at the end of both.
LEMMA LongerSuffix ==
  ASSUME NEW s \in Stones, NEW t \in Stones, NEW m \in Cells \X Sides, IsSuffix(s, t)
  PROVE  IsSuffix(Append(s, m), Append(t, m))
<1> DEFINE a == Len(s)
           b == Len(t)
<1>1. a \in Nat /\ b \in Nat /\ Append(s, m) \in Stones /\ Append(t, m) \in Stones
      /\ Len(Append(s, m)) = a + 1 /\ Len(Append(t, m)) = b + 1
  BY DEF Stones
<1>2. a <= b /\ \A k \in 0 .. a - 1 : s[a - k] = t[b - k]
  BY SuffixIs
<1>3. ASSUME NEW k \in 0 .. a
      PROVE  Append(s, m)[(a + 1) - k] = Append(t, m)[(b + 1) - k]
  <2>1. CASE k = 0
    BY <1>1, <2>1 DEF Stones
  <2>2. CASE k # 0
    <3>1. k - 1 \in 0 .. a - 1 /\ (a + 1) - k = a - (k - 1) /\ (b + 1) - k = b - (k - 1)
          /\ (a + 1) - k \in 1 .. a /\ (b + 1) - k \in 1 .. b
      BY <1>1, <1>2, <2>2
    <3>2. /\ Append(s, m)[(a + 1) - k] = s[(a + 1) - k]
          /\ Append(t, m)[(b + 1) - k] = t[(b + 1) - k]
      BY <3>1 DEF Stones
    <3> QED
      BY <1>2, <3>1, <3>2
  <2> QED
    BY <2>1, <2>2
<1>4. (a + 1) - 1 = a /\ a + 1 <= b + 1
  BY <1>1, <1>2
<1> QED
  BY <1>1, <1>3, <1>4, SuffixIs

-----------------------------------------------------------------------------
(* The bot's root and what playing makes of it. *)

Roots == [board : Board, pla : Sides, moves : Stones, isGameFinished : BOOLEAN,
          winner : Sides \cup {NoSide}]
Played == [root : Roots, moves : Stones, ok : BOOLEAN]

USE DEF BLACK, WHITE, Sides, NoSide

\* A root without history is a root.
LEMMA RootTyped ==
  ASSUME NEW b \in Board, NEW pla \in Sides
  PROVE  Root(b, pla) \in Roots
BY DEF Root, Roots, Stones

\* Before the first move.
LEMMA StartTyped ==
  ASSUME NEW r \in Roots
  PROVE  Start(r) \in Played
BY DEF Start, Played, Stones

\* Whoever is to move, the board stays, and the history stays or goes.
LEMMA ForPlayerTyped ==
  ASSUME NEW r \in Roots, NEW pla \in Sides
  PROVE  /\ ForPlayer(r, pla) \in Roots /\ ForPlayer(r, pla).board = r.board
         /\ ForPlayer(r, pla).pla = pla
         /\ ForPlayer(r, pla) = r \/ ForPlayer(r, pla).moves = <<>>
<1>1. r.board \in Board
  BY DEF Roots
<1>2. CASE pla # r.pla
  BY <1>1, <1>2, RootTyped DEF ForPlayer, setPlayerAndClearHistory, Root
<1>3. CASE pla = r.pla
  BY <1>3 DEF ForPlayer
<1> QED
  BY <1>2, <1>3

\* What a move makes of a board: the next one, whether the game is over, and who
\* has won.
End(r) == <<r.board, r.isGameFinished, r.winner>>
Outcome(board, loc, pla) == End(MakeBoardMove(Root(board, BLACK), loc, pla))

\* Nothing of that depends on what the history has.
LEMMA MoveIs ==
  ASSUME NEW r, NEW loc, NEW pla
  PROVE  /\ End(MakeBoardMove(r, loc, pla)) = Outcome(r.board, loc, pla)
         /\ MakeBoardMove(r, loc, pla).pla = 1 - pla
         /\ MakeBoardMove(r, loc, pla).moves = Append(r.moves, <<loc, pla>>)
<1>1. Root(r.board, BLACK).board = r.board
  BY DEF Root
<1> QED
  BY <1>1 DEF MakeBoardMove, End, Outcome

\* A move leads to a root again ...
LEMMA MoveTyped ==
  ASSUME NEW r \in Roots, NEW loc \in Cells, NEW pla \in Sides
  PROVE  MakeBoardMove(r, loc, pla) \in Roots
<1> DEFINE stones == Append(r.board.stones, <<loc, pla>>)
           full == NumStones(stones) = Cardinality(Cells)
           legal == IF full THEN r.board.legal ELSE Cells \cap LegalAfter(stones, 1 - pla)
<1>1. r.board.stones \in Stones /\ r.board.legal \in SUBSET Cells /\ r.moves \in Stones
  BY DEF Roots, Board
<1>2. stones \in Stones /\ Append(r.moves, <<loc, pla>>) \in Stones
  BY <1>1 DEF Stones
<1>3. legal \in SUBSET Cells
  BY <1>1
<1>4. 1 - pla \in Sides
  OBVIOUS
<1>5. MakeBoardMove(r, loc, pla) =
        [board |-> [stones |-> stones, legal |-> legal], pla |-> 1 - pla,
         moves |-> Append(r.moves, <<loc, pla>>),
         isGameFinished |-> (full \/ legal = {}),
         winner |-> IF ~full /\ legal = {} THEN pla ELSE NoSide]
  BY DEF MakeBoardMove
<1> HIDE DEF stones, full, legal
<1>6. [stones |-> stones, legal |-> legal] \in Board
  BY <1>2, <1>3 DEF Board
<1>7. (full \/ legal = {}) \in BOOLEAN
      /\ (IF ~full /\ legal = {} THEN pla ELSE NoSide) \in Sides \cup {NoSide}
  OBVIOUS
<1> QED
  BY <1>2, <1>4, <1>5, <1>6, <1>7 DEF Roots

\* makeMove does the same to the board; its history is the root's or a new one.
LEMMA makeMoveIs ==
  ASSUME NEW r \in Roots, NEW loc \in Cells, NEW pla \in Sides
  PROVE  /\ makeMove(r, loc, pla) \in Roots
         /\ End(makeMove(r, loc, pla)) = Outcome(r.board, loc, pla)
         /\ makeMove(r, loc, pla).pla = 1 - pla
         /\ makeMove(r, loc, pla).moves
              \in {Append(r.moves, <<loc, pla>>), Append(<<>>, <<loc, pla>>)}
<1> DEFINE p == ForPlayer(r, pla)
<1>1. p \in Roots /\ p.board = r.board /\ p.moves \in {r.moves, <<>>}
  BY ForPlayerTyped
<1>2. makeMove(r, loc, pla) = MakeBoardMove(p, loc, pla)
  BY DEF makeMove
<1> HIDE DEF p
<1>3. MakeBoardMove(p, loc, pla) \in Roots
  BY <1>1, MoveTyped
<1>4. /\ End(MakeBoardMove(p, loc, pla)) = Outcome(r.board, loc, pla)
      /\ MakeBoardMove(p, loc, pla).pla = 1 - pla
      /\ MakeBoardMove(p, loc, pla).moves = Append(p.moves, <<loc, pla>>)
  BY <1>1, MoveIs
<1> QED
  BY <1>1, <1>2, <1>3, <1>4

\* The same of a move in a list.
LEMMA ListedMoveIs ==
  ASSUME NEW r \in Roots, NEW m \in Cells \X Sides
  PROVE  /\ End(makeMove(r, m[1], m[2])) = Outcome(r.board, m[1], m[2])
         /\ End(MakeBoardMove(r, m[1], m[2])) = Outcome(r.board, m[1], m[2])
         /\ makeMove(r, m[1], m[2]).pla = 1 - m[2]
         /\ MakeBoardMove(r, m[1], m[2]).pla = 1 - m[2]
         /\ makeMove(r, m[1], m[2]).moves \in {Append(r.moves, m), Append(<<>>, m)}
         /\ MakeBoardMove(r, m[1], m[2]).moves = Append(r.moves, m)
<1>1. m[1] \in Cells /\ m[2] \in Sides /\ m = <<m[1], m[2]>>
  OBVIOUS
<1>2. /\ End(makeMove(r, m[1], m[2])) = Outcome(r.board, m[1], m[2])
      /\ makeMove(r, m[1], m[2]).pla = 1 - m[2]
      /\ makeMove(r, m[1], m[2]).moves
           \in {Append(r.moves, <<m[1], m[2]>>), Append(<<>>, <<m[1], m[2]>>)}
  BY <1>1, makeMoveIs
<1>3. /\ End(MakeBoardMove(r, m[1], m[2])) = Outcome(r.board, m[1], m[2])
      /\ MakeBoardMove(r, m[1], m[2]).pla = 1 - m[2]
      /\ MakeBoardMove(r, m[1], m[2]).moves = Append(r.moves, <<m[1], m[2]>>)
  BY MoveIs
<1> QED
  BY <1>1, <1>2, <1>3

\* Playing one move, or a list of them, keeps the types.
LEMMA NextTyped ==
  ASSUME NEW p \in Played, NEW m \in Cells \X Sides, NEW atRoot \in BOOLEAN
  PROVE  PlayNext(p, m, atRoot) \in Played
<1>1. m[1] \in Cells /\ m[2] \in Sides /\ p.root \in Roots /\ p.moves \in Stones
  BY DEF Played
<1>2. makeMove(p.root, m[1], m[2]) \in Roots /\ MakeBoardMove(p.root, m[1], m[2]) \in Roots
  BY <1>1, makeMoveIs, MoveTyped
<1>3. Append(p.moves, m) \in Stones
  BY <1>1 DEF Stones
<1> QED
  BY <1>2, <1>3 DEF PlayNext, Played

\* All of them.
LEMMA PlayMovesTyped ==
  ASSUME NEW r \in Roots, NEW ms \in Stones, NEW atRoot \in BOOLEAN
  PROVE  PlayMoves(r, ms, atRoot) \in Played
<1> DEFINE S == {xs \in Stones : PlayMoves(r, xs, atRoot) \in Played}
<1>1. <<>> \in S
  BY PlayNone, StartTyped DEF Stones
<1>2. ASSUME NEW xs \in Stones, NEW m \in Cells \X Sides, xs \in S PROVE Append(xs, m) \in S
  <2>1. Append(xs, m) \in Stones
    BY DEF Stones
  <2> QED
    BY <1>2, <2>1, PlayOneMore, NextTyped
<1> HIDE DEF S
<1>3. Stones \subseteq S
  BY <1>1, <1>2, StonesInduction
<1> QED
  BY <1>3 DEF S

\* What a game is after moves that were all legal: they are remembered, what the
\* root's history has is their end, and it is the turn of the last one's opponent.
Kept(p, ms) ==
  p.ok => /\ p.moves = ms /\ IsSuffix(p.root.moves, ms)
          /\ p.root.moves # <<>> => ms # <<>> /\ p.root.pla = 1 - Last(ms)[2]

\* A move was made if, and only if, it was legal after legal ones.
LEMMA NextOk ==
  ASSUME NEW p \in Played, NEW m \in Cells \X Sides, NEW atRoot \in BOOLEAN,
         PlayNext(p, m, atRoot).ok
  PROVE  p.ok /\ isLegalTolerant(p.root, m[1])
         /\ PlayNext(p, m, atRoot) =
              [root |-> IF atRoot THEN makeMove(p.root, m[1], m[2])
                        ELSE MakeBoardMove(p.root, m[1], m[2]),
               moves |-> Append(p.moves, m), ok |-> TRUE]
BY DEF PlayNext, Played

\* Moves that can be made are kept.
LEMMA PlayAllKeeps ==
  ASSUME NEW r \in Roots, r.moves = <<>>, NEW ms \in Stones, NEW atRoot \in BOOLEAN
  PROVE  Kept(PlayMoves(r, ms, atRoot), ms)
<1> DEFINE S == {xs \in Stones : Kept(PlayMoves(r, xs, atRoot), xs)}
<1>1. <<>> \in S
  <2>1. <<>> \in Stones
    BY DEF Stones
  <2>2. Kept(Start(r), <<>>)
    BY <2>1, EmptySuffix DEF Kept, Start
  <2> QED
    BY <2>1, <2>2, PlayNone
<1>2. ASSUME NEW xs \in Stones, NEW m \in Cells \X Sides, xs \in S PROVE Append(xs, m) \in S
  <2> DEFINE p == PlayMoves(r, xs, atRoot)
             n == PlayNext(p, m, atRoot)
  <2>1. Append(xs, m) \in Stones /\ Append(xs, m) # <<>> /\ Last(Append(xs, m)) = m
    BY OneMore
  <2>2. p \in Played /\ PlayMoves(r, Append(xs, m), atRoot) = n
    BY PlayOneMore, PlayMovesTyped
  <2>3. Kept(p, xs)
    BY <1>2
  <2> HIDE DEF p
  <2>4. SUFFICES ASSUME n.ok
                 PROVE  n.moves = Append(xs, m) /\ IsSuffix(n.root.moves, Append(xs, m))
                        /\ n.root.pla = 1 - m[2]
    BY <2>1, <2>2 DEF Kept
  <2>5. p.ok /\ n = [root |-> IF atRoot THEN makeMove(p.root, m[1], m[2])
                             ELSE MakeBoardMove(p.root, m[1], m[2]),
                     moves |-> Append(p.moves, m), ok |-> TRUE]
    BY <2>2, <2>4, NextOk
  <2>6. p.moves = xs /\ IsSuffix(p.root.moves, xs)
    BY <2>3, <2>5 DEF Kept
  <2>7. p.root \in Roots /\ p.root.moves \in Stones /\ <<>> \in Stones
    BY <2>2 DEF Played, Roots, Stones
  <2> HIDE DEF n
  <2>8. n.root.moves \in {Append(p.root.moves, m), Append(<<>>, m)} /\ n.root.pla = 1 - m[2]
    <3> DEFINE x == makeMove(p.root, m[1], m[2])
               y == MakeBoardMove(p.root, m[1], m[2])
    <3>1. n.root \in {x, y}
      BY <2>5
    <3>2. /\ x.pla = 1 - m[2] /\ x.moves \in {Append(p.root.moves, m), Append(<<>>, m)}
          /\ y.pla = 1 - m[2] /\ y.moves = Append(p.root.moves, m)
      BY <2>7, ListedMoveIs
    <3> HIDE DEF x, y
    <3> QED
      BY <3>1, <3>2
  <2>9. /\ IsSuffix(Append(p.root.moves, m), Append(xs, m))
        /\ IsSuffix(Append(<<>>, m), Append(xs, m))
    BY <2>6, <2>7, EmptySuffix, LongerSuffix
  <2> QED
    BY <2>5, <2>6, <2>8, <2>9
<1> HIDE DEF S
<1>3. Stones \subseteq S
  BY <1>1, <1>2, StonesInduction
<1> QED
  BY <1>3 DEF S

\* A file is played like a game: its board never depends on the histories.
SameGame(p, q) == p.ok = q.ok /\ (p.ok => End(p.root) = End(q.root))

\* The history that is never cleared has all moves.
LEMMA FileIsAGame ==
  ASSUME NEW r \in Roots, r.moves = <<>>, NEW ms \in Stones
  PROVE  /\ SameGame(PlayMovesTolerant(r, ms), PlayAll(r, ms))
         /\ PlayMovesTolerant(r, ms).ok => PlayMovesTolerant(r, ms).root.moves = ms
<1> DEFINE F(xs) == PlayMoves(r, xs, FALSE)
           G(xs) == PlayMoves(r, xs, TRUE)
           S == {xs \in Stones : SameGame(F(xs), G(xs)) /\ (F(xs).ok => F(xs).root.moves = xs)}
<1>1. <<>> \in S
  <2>1. F(<<>>) = Start(r) /\ G(<<>>) = Start(r)
    BY PlayNone
  <2>0. Start(r).ok /\ Start(r).root = r
    BY DEF Start
  <2>2. <<>> \in Stones
    BY DEF Stones
  <2> HIDE DEF F, G
  <2>3. SameGame(F(<<>>), G(<<>>)) /\ F(<<>>).root.moves = <<>>
    BY <2>0, <2>1 DEF SameGame
  <2> QED
    BY <2>2, <2>3
<1>2. ASSUME NEW xs \in Stones, NEW m \in Cells \X Sides, xs \in S PROVE Append(xs, m) \in S
  <2> DEFINE p == F(xs)
             q == G(xs)
  <2>1. /\ F(Append(xs, m)) = PlayNext(p, m, FALSE) /\ G(Append(xs, m)) = PlayNext(q, m, TRUE)
        /\ p \in Played /\ q \in Played /\ Append(xs, m) \in Stones
    <3>1. Append(xs, m) \in Stones
      BY DEF Stones
    <3>2. \A b : PlayMoves(r, Append(xs, m), b) = PlayNext(PlayMoves(r, xs, b), m, b)
      BY PlayOneMore
    <3>3. F(Append(xs, m)) = PlayNext(p, m, FALSE) /\ G(Append(xs, m)) = PlayNext(q, m, TRUE)
      BY <3>2
    <3>4. p \in Played /\ q \in Played
      BY PlayMovesTyped
    <3> QED
      BY <3>1, <3>2, <3>3, <3>4
  <2>2. SameGame(p, q) /\ (p.ok => p.root.moves = xs)
    BY <1>2
  <2> HIDE DEF p, q
  <2>3. p.root \in Roots /\ q.root \in Roots
    BY <2>1 DEF Played
  <2> DEFINE x == PlayNext(p, m, FALSE)
             y == PlayNext(q, m, TRUE)
  <2>4. CASE p.ok /\ isLegalTolerant(p.root, m[1])
    <3>1. q.ok /\ p.root.board = q.root.board /\ isLegalTolerant(q.root, m[1])
      BY <2>2, <2>4 DEF SameGame, isLegalTolerant, End
    <3>2. /\ x.ok = TRUE /\ x.root = MakeBoardMove(p.root, m[1], m[2])
          /\ y.ok = TRUE /\ y.root = makeMove(q.root, m[1], m[2])
      BY <2>4, <3>1 DEF PlayNext
    <3> HIDE DEF x, y
    <3>3. x.root.moves = Append(xs, m)
      <4>1. MakeBoardMove(p.root, m[1], m[2]).moves = Append(p.root.moves, m)
        BY <2>3, ListedMoveIs
      <4> QED
        BY <2>2, <2>4, <3>2, <4>1
    <3>4. End(x.root) = End(y.root)
      <4>1. /\ End(MakeBoardMove(p.root, m[1], m[2])) = Outcome(p.root.board, m[1], m[2])
            /\ End(makeMove(q.root, m[1], m[2])) = Outcome(q.root.board, m[1], m[2])
        BY <2>3, ListedMoveIs
      <4> QED
        BY <3>1, <3>2, <4>1
    <3>5. SameGame(x, y) /\ (x.ok => x.root.moves = Append(xs, m))
      BY <3>2, <3>3, <3>4 DEF SameGame
    <3> QED
      BY <2>1, <3>5 DEF x, y
  <2>5. CASE ~ (p.ok /\ isLegalTolerant(p.root, m[1]))
    <3>1. ~ (q.ok /\ isLegalTolerant(q.root, m[1]))
      BY <2>2, <2>5 DEF SameGame, isLegalTolerant, End
    <3>2. x.ok = FALSE /\ y.ok = FALSE
      BY <2>1, <2>5, <3>1 DEF PlayNext, Played
    <3> QED
      BY <2>1, <3>2 DEF SameGame
  <2> QED
    BY <2>4, <2>5
<1> HIDE DEF S
<1>3. Stones \subseteq S
  BY <1>1, <1>2, StonesInduction
<1> QED
  BY <1>3 DEF S, PlayMovesTolerant, PlayAll

-----------------------------------------------------------------------------
(* The engine's moves and the bot's root. *)

\* What HistoryReplays says of them.
Replays(r, board, pla, history) ==
  LET replayed == PlayAll(Root(board, pla), history) IN
  /\ replayed.ok /\ replayed.root.board = r.board
  /\ IsSuffix(r.moves, history)
  /\ r.moves # <<>> => /\ r.pla = 1 - Last(history)[2]
                       /\ End(r) = End(replayed.root)

\* A position without moves.
LEMMA NothingReplays ==
  ASSUME NEW board \in Board, NEW pla \in Sides, NEW next \in Sides
  PROVE  Replays(Root(board, next), board, pla, <<>>)
<1>1. PlayAll(Root(board, pla), <<>>) = Start(Root(board, pla))
  BY PlayNone DEF PlayAll
<1>2. <<>> \in Stones
  BY DEF Stones
<1> QED
  BY <1>1, <1>2, EmptySuffix DEF Replays, Start, Root

\* Forgetting the history does no harm.
LEMMA ForPlayerReplays ==
  ASSUME NEW r \in Roots, NEW board, NEW pla, NEW history \in Stones,
         Replays(r, board, pla, history), NEW next \in Sides
  PROVE  Replays(ForPlayer(r, next), board, pla, history)
<1> DEFINE q == ForPlayer(r, next)
<1>1. q.board = r.board /\ (q = r \/ q.moves = <<>>)
  BY ForPlayerTyped
<1> HIDE DEF q
<1>2. CASE q = r
  BY <1>2 DEF q
<1>3. CASE q.moves = <<>>
  <2>1. Replays(q, board, pla, history)
    BY <1>1, <1>3, EmptySuffix DEF Replays
  <2> QED
    BY <2>1 DEF q
<1> QED
  BY <1>1, <1>2, <1>3

\* A legal move, remembered.
LEMMA MoveReplays ==
  ASSUME NEW r \in Roots, NEW board \in Board, NEW pla \in Sides, NEW history \in Stones,
         Replays(r, board, pla, history),
         NEW loc \in Cells, NEW next \in Sides, isLegalTolerant(r, loc)
  PROVE  Replays(makeMove(r, loc, next), board, pla, Append(history, <<loc, next>>))
<1> DEFINE m == <<loc, next>>
           p == PlayAll(Root(board, pla), history)
           longer == Append(history, m)
           n == PlayAll(Root(board, pla), longer)
           x == makeMove(r, loc, next)
<1>1. m \in Cells \X Sides /\ m[1] = loc /\ m[2] = next
  OBVIOUS
<1>2. p \in Played /\ p.root \in Roots
  BY RootTyped, PlayMovesTyped DEF PlayAll, Played
<1>3. n = PlayNext(p, m, TRUE)
  BY <1>1, PlayOneMore DEF PlayAll
<1>4. p.ok /\ p.root.board = r.board /\ IsSuffix(r.moves, history)
  BY DEF Replays
<1>5. longer \in Stones /\ longer # <<>> /\ Last(longer) = m
  BY <1>1, OneMore
<1>6. End(x) = Outcome(r.board, loc, next) /\ x.pla = 1 - next
      /\ x.moves \in {Append(r.moves, m), Append(<<>>, m)}
  BY makeMoveIs
<1>7. End(makeMove(p.root, loc, next)) = Outcome(p.root.board, loc, next)
  BY <1>2, makeMoveIs
<1> HIDE DEF p, x
<1>8. isLegalTolerant(p.root, m[1])
  BY <1>1, <1>4 DEF isLegalTolerant
<1>9. n.ok = TRUE /\ n.root = makeMove(p.root, loc, next)
  BY <1>1, <1>3, <1>4, <1>8 DEF PlayNext
<1>10. End(n.root) = End(x)
  BY <1>4, <1>6, <1>7, <1>9
<1>11. r.moves \in Stones /\ <<>> \in Stones
  BY DEF Roots, Stones
<1>12. IsSuffix(Append(r.moves, m), longer) /\ IsSuffix(Append(<<>>, m), longer)
  BY <1>1, <1>4, <1>11, EmptySuffix, LongerSuffix
<1>13. IsSuffix(x.moves, longer)
  BY <1>6, <1>12
<1> HIDE DEF n, longer
<1>14. n.root.board = x.board
  BY <1>10 DEF End
<1>15. /\ n.ok /\ n.root.board = x.board /\ IsSuffix(x.moves, longer)
       /\ x.pla = 1 - Last(longer)[2] /\ End(x) = End(n.root)
  BY <1>1, <1>5, <1>6, <1>9, <1>10, <1>13, <1>14
<1>16. Replays(x, board, pla, longer)
  BY <1>15 DEF Replays, n
<1> QED
  BY <1>16 DEF x, longer

\* The moves, played again.
LEMMA AgainReplays ==
  ASSUME NEW board \in Board, NEW pla \in Sides, NEW history \in Stones,
         PlayAll(Root(board, pla), history).ok
  PROVE  LET kept == PlayAll(Root(board, pla), history) IN
         /\ kept.root \in Roots /\ kept.moves = history
         /\ Replays(kept.root, board, pla, history)
<1> DEFINE r == Root(board, pla)
           kept == PlayAll(r, history)
<1>1. r \in Roots /\ r.moves = <<>>
  BY RootTyped DEF Root
<1> HIDE DEF r
<1>2. kept \in Played /\ Kept(kept, history)
  BY <1>1, PlayMovesTyped, PlayAllKeeps DEF PlayAll
<1>3. kept.ok
  BY DEF r
<1>4. kept.root \in Roots /\ kept.moves = history
      /\ IsSuffix(kept.root.moves, history)
      /\ (kept.root.moves # <<>> => kept.root.pla = 1 - Last(history)[2])
  BY <1>2, <1>3 DEF Played, Kept
<1> HIDE DEF kept
<1> QED
  BY <1>3, <1>4 DEF Replays, kept, r

\* A file that was played to its end.
LEMMA FileReplays ==
  ASSUME NEW board \in Board, NEW pla \in Sides, NEW ms \in Stones,
         PlayMovesTolerant(Root(board, pla), ms).ok
  PROVE  LET file == PlayMovesTolerant(Root(board, pla), ms) IN
         /\ file.root \in Roots /\ file.root.moves = ms
         /\ Replays(file.root, board, pla, ms)
<1> DEFINE r == Root(board, pla)
           file == PlayMovesTolerant(r, ms)
           replayed == PlayAll(r, ms)
<1>1. r \in Roots /\ r.moves = <<>>
  BY RootTyped DEF Root
<1>0. file.ok
  OBVIOUS
<1> HIDE DEF r
<1>2. file \in Played /\ Kept(file, ms)
  BY <1>1, PlayMovesTyped, PlayAllKeeps DEF PlayMovesTolerant
<1>3. SameGame(file, replayed) /\ file.root.moves = ms
  BY <1>0, <1>1, FileIsAGame
<1>4. replayed \in Played
  BY <1>1, PlayMovesTyped DEF PlayAll
<1> HIDE DEF file, replayed
<1>5. replayed.ok /\ End(file.root) = End(replayed.root)
  BY <1>0, <1>3, <1>2, <1>4 DEF SameGame, Played
<1>6. replayed.root.board = file.root.board
  BY <1>5 DEF End
<1>7. file.root \in Roots /\ (file.root.moves # <<>> => file.root.pla = 1 - Last(ms)[2])
  BY <1>0, <1>2 DEF Played, Kept
<1>8. IsSuffix(file.root.moves, ms)
  BY <1>3, SameSuffix
<1> QED
  BY <1>3, <1>5, <1>6, <1>7, <1>8 DEF Replays, file, replayed, r

-----------------------------------------------------------------------------
(* The steps. *)

\* The engine's part of HistoryReplays, and the loop's part of its types.
MovesInv ==
  /\ root \in Roots /\ initialBoard \in Board /\ initialPla \in Sides /\ moveHistory \in Stones
  /\ Replays(root, initialBoard, initialPla, moveHistory)
WaitingInv ==
  /\ background \in {"none", "ponder", "analysis"} /\ response \in {"ok", "error"}
  /\ currentlyAnalyzing \in BOOLEAN /\ (currentlyAnalyzing <=> background = "analysis")
  /\ background = "ponder" => PonderingEnabled
EngineInv == MovesInv /\ WaitingInv /\ intact \in BOOLEAN

\* The property that the run checks is inductive: it is this invariant.
LEMMA HistoryReplaysIs == HistoryReplays <=> EngineInv
<1>1. EngineTypeOK <=> /\ root \in Roots /\ initialBoard \in Board /\ initialPla \in Sides
                       /\ moveHistory \in Stones /\ WaitingInv /\ intact \in BOOLEAN
  BY DEF EngineTypeOK, Roots, WaitingInv
<1>2. ASSUME NEW p
      PROVE  End(root) = End(p) <=> /\ root.board = p.board
                                    /\ root.isGameFinished = p.isGameFinished
                                    /\ root.winner = p.winner
  BY DEF End
<1> QED
  BY <1>1, <1>2 DEF HistoryReplays, EngineInv, MovesInv, Replays

\* What the bot may go on doing after a command.
MayRun(running) == running = "none" \/ (running = "ponder" /\ PonderingEnabled)

\* Each command leaves the bot with nothing to do, or to ponder if it may.
LEMMA RunningMayRun ==
  ASSUME WaitingInv
  PROVE  /\ MayRun("none") /\ MayRun(Running) /\ MayRun(MaybePonder("none"))
         /\ MayRun(MaybePonder(Running))
BY BoundAssumption DEF MayRun, WaitingInv, Running, MaybePonder

\* Answers keep the loop's types.
LEMMA AnswerKeeps ==
  ASSUME NEW what \in {"ok", "error"}, NEW running, MayRun(running), Answer(what, running)
  PROVE  WaitingInv'
BY DEF Answer, MayRun, WaitingInv

\* Commands that only read.
LEMMA OtherKeeps ==
  ASSUME EngineInv, NEW what \in {"ok", "error"}, Other(what)
  PROVE  EngineInv'
<1>1. WaitingInv'
  BY RunningMayRun, AnswerKeeps DEF Other, EngineInv
<1>2. MovesInv' /\ intact' \in BOOLEAN
  BY DEF Other, game, EngineInv, MovesInv
<1> QED
  BY <1>1, <1>2 DEF EngineInv

\* A failed assertion stops the engine where it is.
LEMMA BreakKeeps ==
  ASSUME EngineInv, Break
  PROVE  EngineInv'
BY DEF Break, game, EngineInv, MovesInv, WaitingInv

\* A position from a command: its moves lead from the board to the root.
LEMMA SetKeeps ==
  ASSUME EngineInv, NEW r \in Roots, NEW board \in Board, NEW pla \in Sides, NEW ms \in Stones,
         Replays(r, board, pla, ms), setPositionAndRules(r, board, pla, ms),
         NEW what \in {"ok", "error"}, Answer(what, "none")
  PROVE  EngineInv'
<1>1. WaitingInv'
  BY RunningMayRun, AnswerKeeps DEF EngineInv
<1>2. /\ root' = r /\ initialBoard' = board /\ initialPla' = pla /\ moveHistory' = ms
      /\ intact' = intact
  BY DEF setPositionAndRules
<1>3. MovesInv'
  BY <1>2 DEF MovesInv
<1> QED
  BY <1>1, <1>2, <1>3 DEF EngineInv

\* One without moves.
LEMMA SetUpKeeps ==
  ASSUME EngineInv, NEW board \in Board, NEW pla \in Sides,
         setPositionAndRules(Root(board, pla), board, pla, <<>>), Answer("ok", "none")
  PROVE  EngineInv'
<1>1. Root(board, pla) \in Roots /\ Replays(Root(board, pla), board, pla, <<>>)
  BY RootTyped, NothingReplays
<1>2. <<>> \in Stones
  BY DEF Stones
<1> QED
  BY <1>1, <1>2, SetKeeps

\* A move of play or genmove, for which the bot may have forgotten its history.
LEMMA RememberKeeps ==
  ASSUME EngineInv, NEW r \in Roots, Replays(r, initialBoard, initialPla, moveHistory),
         NEW loc \in Cells, NEW pla \in Sides, isLegalTolerant(r, loc),
         Remember(r, loc, pla), Answer("ok", MaybePonder("none"))
  PROVE  EngineInv'
<1>1. WaitingInv'
  BY RunningMayRun, AnswerKeeps DEF EngineInv
<1>2. /\ root' = makeMove(r, loc, pla) /\ moveHistory' = Append(moveHistory, <<loc, pla>>)
      /\ initialBoard' = initialBoard /\ initialPla' = initialPla /\ intact' = intact
  BY DEF Remember
<1>3. initialBoard \in Board /\ initialPla \in Sides /\ moveHistory \in Stones
  BY DEF EngineInv, MovesInv
<1>4. makeMove(r, loc, pla) \in Roots
  BY makeMoveIs
<1>5. Append(moveHistory, <<loc, pla>>) \in Stones
  BY <1>3, OneMore
<1>6. Replays(makeMove(r, loc, pla), initialBoard, initialPla, Append(moveHistory, <<loc, pla>>))
  BY <1>3, MoveReplays
<1>7. MovesInv'
  BY <1>2, <1>3, <1>4, <1>5, <1>6 DEF MovesInv
<1> QED
  BY <1>1, <1>2, <1>7 DEF EngineInv

\* The root is for another player, and nothing else of the game changes.
LEMMA ForPlayerKeeps ==
  ASSUME EngineInv, NEW pla \in Sides, root' = ForPlayer(root, pla), UNCHANGED <<game, intact>>
  PROVE  MovesInv' /\ intact' \in BOOLEAN
<1>1. ForPlayer(root, pla) \in Roots
      /\ Replays(ForPlayer(root, pla), initialBoard, initialPla, moveHistory)
  BY ForPlayerTyped, ForPlayerReplays DEF EngineInv, MovesInv
<1> QED
  BY <1>1 DEF game, EngineInv, MovesInv

\* Whatever plays moves plays them on a board of the right kind.
LEMMA PlacedTyped ==
  ASSUME NEW stones \in Stones
  PROVE  PlaceStones(stones) \in Board
BY DEF PlaceStones, EmptyBoard, Board

\* The empty board is a board.
LEMMA EmptyTyped == EmptyBoard \in Board
BY DEF EmptyBoard, Board, Stones

\* A handicap is a list of black stones.
LEMMA BlackStones ==
  ASSUME NEW cells \in Seq(Cells)
  PROVE  [i \in DOMAIN cells |-> <<cells[i], BLACK>>] \in Stones
<1>1. Len(cells) \in Nat /\ DOMAIN cells = 1 .. Len(cells)
      /\ \A i \in 1 .. Len(cells) : <<cells[i], BLACK>> \in Cells \X Sides
  OBVIOUS
<1> QED
  BY <1>1 DEF Stones

\* A file says or implies who is to move.
LEMMA NextPlaTyped ==
  ASSUME NEW sgf \in Sgfs
  PROVE  NextPla(sgf) \in Sides
BY DEF NextPla

\* One lemma for each command.
LEMMA clearBoardKeeps ==
  ASSUME EngineInv, clearBoard
  PROVE  EngineInv'
BY SetUpKeeps, EmptyTyped DEF clearBoard

\* set_position, or its refusal of stones that overlap.
LEMMA setPositionKeeps ==
  ASSUME EngineInv, NEW stones \in Setups, setPosition(stones)
  PROVE  EngineInv'
<1>1. PlaceStones(stones) \in Board
  BY PlacedTyped, InputAssumption
<1> QED
  BY <1>1, SetUpKeeps, OtherKeeps DEF setPosition

\* Handicaps leave the first position with white to move.
LEMMA HandicapKeeps ==
  ASSUME EngineInv, NEW board \in Board,
         setPositionAndRules(Root(board, WHITE), board, WHITE, <<>>), Answer("ok", "none")
  PROVE  EngineInv'
BY SetUpKeeps

\* fixed_handicap.
LEMMA FixedHandicapKeeps ==
  ASSUME EngineInv, NEW stones \in Setups, FixedHandicap(stones)
  PROVE  EngineInv'
<1>1. PlaceStones(stones) \in Board
  BY PlacedTyped, InputAssumption
<1> QED
  BY <1>1, HandicapKeeps DEF FixedHandicap

\* place_free_handicap, whose stones are played.
LEMMA FreeHandicapKeeps ==
  ASSUME EngineInv, NEW cells \in Handicaps, FreeHandicap(cells)
  PROVE  EngineInv'
<1>1. [i \in DOMAIN cells |-> <<cells[i], BLACK>>] \in Stones
  BY InputAssumption, BlackStones
<1>2. PlayExtraBlack(cells) \in Played
  BY <1>1, EmptyTyped, RootTyped, PlayMovesTyped DEF PlayExtraBlack, PlayAll
<1>3. PlayExtraBlack(cells).root.board \in Board
  BY <1>2 DEF Played, Roots
<1> QED
  BY <1>3, HandicapKeeps DEF FreeHandicap

\* set_free_handicap, whose stones are put.
LEMMA SetFreeHandicapKeeps ==
  ASSUME EngineInv, NEW cells \in Handicaps, SetFreeHandicap(cells)
  PROVE  EngineInv'
<1>1. [i \in DOMAIN cells |-> <<cells[i], BLACK>>] \in Stones
  BY InputAssumption, BlackStones
<1>2. PlaceStones([i \in DOMAIN cells |-> <<cells[i], BLACK>>]) \in Board
  BY <1>1, PlacedTyped
<1> QED
  BY <1>2, HandicapKeeps DEF SetFreeHandicap

\* loadsgf: the file's moves become the engine's.
LEMMA LoadSgfKeeps ==
  ASSUME EngineInv, NEW sgf \in Sgfs, LoadSgf(sgf)
  PROVE  EngineInv'
<1> DEFINE b == PlaceStones(sgf.placements)
           pla == NextPla(sgf)
           file == PlayMovesTolerant(Root(b, pla), sgf.moves)
<1>1. b \in Board /\ pla \in Sides /\ sgf.moves \in Stones
  BY PlacedTyped, NextPlaTyped, InputAssumption
<1>2. \/ Break
      \/ Other("error")
      \/ file.ok /\ Answer("ok", "none") /\ setPositionAndRules(file.root, b, pla, file.root.moves)
  BY DEF LoadSgf
<1>3. file.ok => file.root \in Roots /\ file.root.moves = sgf.moves
                 /\ Replays(file.root, b, pla, sgf.moves)
  BY <1>1, FileReplays
<1> HIDE DEF file, b, pla
<1>4. CASE file.ok /\ Answer("ok", "none")
           /\ setPositionAndRules(file.root, b, pla, file.root.moves)
  BY <1>1, <1>3, <1>4, SetKeeps
<1> QED
  BY <1>2, <1>4, BreakKeeps, OtherKeeps

\* play.
LEMMA playKeeps ==
  ASSUME EngineInv, NEW loc \in Cells, NEW pla \in Sides, play(loc, pla)
  PROVE  EngineInv'
<1>1. CASE ~isLegalTolerant(root, loc)
  <2>1. Answer("error", MaybePonder("none")) /\ UNCHANGED <<root, game, intact>>
    BY <1>1 DEF play
  <2>2. WaitingInv'
    BY <2>1, RunningMayRun, AnswerKeeps DEF EngineInv
  <2> QED
    BY <2>1, <2>2 DEF game, EngineInv, MovesInv
<1>2. CASE isLegalTolerant(root, loc)
  <2>1. Break \/ (Remember(root, loc, pla) /\ Answer("ok", MaybePonder("none")))
    BY <1>2 DEF play
  <2> QED
    BY <1>2, <2>1, BreakKeeps, RememberKeeps DEF EngineInv, MovesInv
<1> QED
  BY <1>1, <1>2

\* genmove and its variants, which may only turn the root.
LEMMA genMoveKeeps ==
  ASSUME EngineInv, NEW loc \in Cells \cup {NULL_LOC}, NEW pla \in Sides,
         NEW playChosenMove \in BOOLEAN, NEW resigned \in BOOLEAN,
         genMove(loc, pla, playChosenMove, resigned)
  PROVE  EngineInv'
<1> DEFINE r == ForPlayer(root, pla)
<1>1. r \in Roots /\ Replays(r, initialBoard, initialPla, moveHistory)
  BY ForPlayerTyped, ForPlayerReplays DEF EngineInv, MovesInv
<1>2. \/ \E what \in {"ok", "error"} :
           Answer(what, "none") /\ root' = r /\ UNCHANGED <<game, intact>>
      \/ Break
      \/ isLegalStrict(r, loc, pla) /\ Remember(r, loc, pla) /\ Answer("ok", MaybePonder("none"))
  BY DEF genMove
<1>3. ASSUME NEW what \in {"ok", "error"},
             Answer(what, "none"), root' = r, UNCHANGED <<game, intact>>
      PROVE  EngineInv'
  <2>1. WaitingInv'
    BY <1>3, RunningMayRun, AnswerKeeps DEF EngineInv
  <2> QED
    BY <1>3, <2>1, ForPlayerKeeps DEF EngineInv
<1> HIDE DEF r
<1>4. ASSUME isLegalStrict(r, loc, pla), Remember(r, loc, pla), Answer("ok", MaybePonder("none"))
      PROVE  EngineInv'
  <2>1. loc \in Cells /\ isLegalTolerant(r, loc)
    BY <1>1, <1>4 DEF isLegalStrict, isLegalTolerant, Roots, Board
  <2> QED
    BY <1>1, <1>4, <2>1, RememberKeeps
<1> QED
  BY <1>2, <1>3, <1>4, BreakKeeps

\* The analyses, which turn the root.
LEMMA analyzeKeeps ==
  ASSUME EngineInv, NEW pla \in Sides, analyze(pla)
  PROVE  EngineInv'
<1>1. MovesInv' /\ intact' \in BOOLEAN
  BY ForPlayerKeeps DEF analyze
<1>2. WaitingInv'
  BY DEF analyze, WaitingInv
<1> QED
  BY <1>1, <1>2 DEF EngineInv

\* undo plays all moves but the last.
LEMMA undoKeeps ==
  ASSUME EngineInv, undo
  PROVE  EngineInv'
<1>1. CASE moveHistory = <<>>
  BY <1>1, OtherKeeps DEF undo
<1>2. CASE moveHistory # <<>>
  <2> DEFINE kept == PlayAll(Root(initialBoard, initialPla), Front(moveHistory))
  <2>1. Front(moveHistory) \in Stones /\ initialBoard \in Board /\ initialPla \in Sides
    BY <1>2, FrontAndLast DEF EngineInv, MovesInv
  <2>2. Break \/ (kept.ok /\ Answer("ok", "none")
                  /\ setPositionAndRules(kept.root, initialBoard, initialPla, kept.moves))
    BY <1>2 DEF undo
  <2>3. kept.ok => kept.root \in Roots /\ kept.moves = Front(moveHistory)
                   /\ Replays(kept.root, initialBoard, initialPla, Front(moveHistory))
    BY <2>1, AgainReplays
  <2> HIDE DEF kept
  <2> QED
    BY <2>1, <2>2, <2>3, BreakKeeps, SetKeeps
<1> QED
  BY <1>1, <1>2

\* The rules are changed, and the moves are legal as they were.
LEMMA setRulesIs ==
  ASSUME EngineInv, setRulesNotIncludingKomi
  PROVE  /\ Answer("ok", "none")
         /\ \E r \in Roots : /\ Replays(r, initialBoard, initialPla, moveHistory)
                             /\ r.board = root.board
                             /\ setPositionAndRules(r, initialBoard, initialPla, moveHistory)
<1> DEFINE kept == PlayAll(Root(initialBoard, initialPla), moveHistory)
<1>1. moveHistory \in Stones /\ initialBoard \in Board /\ initialPla \in Sides
      /\ kept.ok /\ kept.root.board = root.board
  BY DEF EngineInv, MovesInv, Replays
<1>2. kept.root \in Roots /\ kept.moves = moveHistory
      /\ Replays(kept.root, initialBoard, initialPla, moveHistory)
  BY <1>1, AgainReplays
<1>3. Answer(IF kept.ok THEN "ok" ELSE "error", "none")
      /\ setPositionAndRules(kept.root, initialBoard, initialPla, kept.moves)
  BY DEF setRulesNotIncludingKomi
<1> HIDE DEF kept
<1>4. Answer("ok", "none")
  BY <1>1, <1>3
<1> QED
  BY <1>1, <1>2, <1>3, <1>4

\* So the game stays as it was.
LEMMA setRulesKeeps ==
  ASSUME EngineInv, setRulesNotIncludingKomi
  PROVE  EngineInv'
<1>1. Answer("ok", "none")
  BY setRulesIs
<1>2. PICK r \in Roots : /\ Replays(r, initialBoard, initialPla, moveHistory)
                         /\ setPositionAndRules(r, initialBoard, initialPla, moveHistory)
  BY setRulesIs
<1> QED
  BY <1>1, <1>2, SetKeeps DEF EngineInv, MovesInv

\* Commands that change nothing of the game.
LEMMA QuietKeeps ==
  ASSUME EngineInv, StopSearch \/ TimeLeft
  PROVE  EngineInv'
<1>1. PICK running : MayRun(running) /\ Answer("ok", running)
                     /\ UNCHANGED <<root, game, intact>>
  BY RunningMayRun DEF StopSearch, TimeLeft, EngineInv
<1>2. WaitingInv'
  BY <1>1, AnswerKeeps
<1> QED
  BY <1>1, <1>2 DEF game, EngineInv, MovesInv

\* A new engine.
LEMMA EngineInitInv == EngineInit => EngineInv
<1>1. SUFFICES ASSUME EngineInit PROVE EngineInv
  OBVIOUS
<1>2. <<>> \in Stones
  BY DEF Stones
<1>3. Root(EmptyBoard, BLACK) \in Roots
      /\ Replays(Root(EmptyBoard, BLACK), EmptyBoard, BLACK, <<>>)
  BY EmptyTyped, RootTyped, NothingReplays
<1> QED
  BY <1>1, <1>2, <1>3, EmptyTyped DEF EngineInit, EngineInv, MovesInv, WaitingInv

\* Each command keeps the invariant.
LEMMA EngineStepInv == EngineInv /\ [EngineNext]_engineVars => EngineInv'
<1>1. SUFFICES ASSUME EngineInv, [EngineNext]_engineVars PROVE EngineInv'
  OBVIOUS
<1>2. CASE UNCHANGED engineVars
  BY <1>1, <1>2 DEF engineVars, game, EngineInv, MovesInv, WaitingInv
<1>3. CASE EngineNext
  <2>1. CASE Other("ok") \/ Other("error")
    BY <1>1, <2>1, OtherKeeps
  <2>2. CASE StopSearch \/ TimeLeft
    BY <1>1, <2>2, QuietKeeps
  <2>3. CASE clearBoard
    BY <1>1, <2>3, clearBoardKeeps
  <2>4. CASE undo
    BY <1>1, <2>4, undoKeeps
  <2>5. CASE setRulesNotIncludingKomi
    BY <1>1, <2>5, setRulesKeeps
  <2>6. CASE \E stones \in Setups : setPosition(stones) \/ FixedHandicap(stones)
    BY <1>1, <2>6, setPositionKeeps, FixedHandicapKeeps
  <2>7. CASE \E cells \in Handicaps : FreeHandicap(cells) \/ SetFreeHandicap(cells)
    BY <1>1, <2>7, FreeHandicapKeeps, SetFreeHandicapKeeps
  <2>8. CASE \E sgf \in Sgfs : LoadSgf(sgf)
    BY <1>1, <2>8, LoadSgfKeeps
  <2>9. CASE \E pla \in Sides : analyze(pla)
    BY <1>1, <2>9, analyzeKeeps
  <2>10. CASE \E pla \in Sides, loc \in Cells : MayPlay /\ play(loc, pla)
    BY <1>1, <2>10, playKeeps
  <2>11. CASE \E pla \in Sides, loc \in Cells \cup {NULL_LOC},
                 playChosenMove \in BOOLEAN, resigned \in BOOLEAN :
                MayPlay /\ genMove(loc, pla, playChosenMove, resigned)
    BY <1>1, <2>11, genMoveKeeps
  <2> QED
    BY <1>3, <2>1, <2>2, <2>3, <2>4, <2>5, <2>6, <2>7, <2>8, <2>9, <2>10, <2>11 DEF EngineNext
<1> QED
  BY <1>1, <1>2, <1>3

\* The moves that the engine remembers lead from the first position to the bot's
\* board, each one legal in its turn, and the bot's history is their end.
THEOREM EngineHistoryReplays == EngineSpec => []HistoryReplays
<1>1. EngineInv => HistoryReplays
  BY HistoryReplaysIs
<1> QED
  BY <1>1, EngineInitInv, EngineStepInv, PTL DEF EngineSpec

\* What of it is about the board.
LEMMA ReplaysBoard ==
  ASSUME NEW r, NEW board, NEW pla, NEW history, Replays(r, board, pla, history)
  PROVE  /\ PlayAll(Root(board, pla), history).ok
         /\ PlayAll(Root(board, pla), history).root.board = r.board
BY DEF Replays

\* The move that was taken back is legal again, and leads back.
LEMMA TakenBack ==
  ASSUME NEW board \in Board, NEW pla \in Sides,
         NEW ms \in Stones, NEW m \in Cells \X Sides, NEW r \in Roots, NEW q \in Roots,
         Replays(r, board, pla, Append(ms, m)), Replays(q, board, pla, ms)
  PROVE  isLegalTolerant(q, m[1]) /\ makeMove(q, m[1], m[2]).board = r.board
<1> DEFINE r0 == Root(board, pla)
           p == PlayAll(r0, ms)
           n == PlayAll(r0, Append(ms, m))
<1>1. r0 \in Roots
  BY RootTyped
<1>2. n.ok /\ n.root.board = r.board
  BY ReplaysBoard
<1>3. p.root.board = q.board
  BY ReplaysBoard
<1> HIDE DEF r0
<1>4. p \in Played
  BY <1>1, PlayMovesTyped DEF PlayAll
<1>5. n = PlayNext(p, m, TRUE)
  BY PlayOneMore DEF PlayAll
<1> HIDE DEF p, n
<1>6. isLegalTolerant(p.root, m[1]) /\ n.root = makeMove(p.root, m[1], m[2])
  <2>1. PlayNext(p, m, TRUE).ok
    BY <1>2, <1>5
  <2>2. p.ok /\ isLegalTolerant(p.root, m[1])
    BY <1>4, <2>1, NextOk
  <2>3. PlayNext(p, m, TRUE).root = makeMove(p.root, m[1], m[2])
    BY <2>2 DEF PlayNext
  <2> QED
    BY <1>5, <2>2, <2>3
<1>7. p.root \in Roots
  BY <1>4 DEF Played
<1>8. /\ End(makeMove(p.root, m[1], m[2])) = Outcome(p.root.board, m[1], m[2])
      /\ End(makeMove(q, m[1], m[2])) = Outcome(q.board, m[1], m[2])
  BY <1>7, ListedMoveIs
<1>9. End(makeMove(q, m[1], m[2])) = End(n.root)
  BY <1>3, <1>6, <1>8
<1>10. makeMove(q, m[1], m[2]).board = r.board
  BY <1>2, <1>9 DEF End
<1>11. isLegalTolerant(q, m[1])
  BY <1>3, <1>6 DEF isLegalTolerant
<1> QED
  BY <1>10, <1>11

\* After an undo, the move that it took back can be made again and leads to the
\* board there was.
THEOREM EngineUndoTakesBack == EngineSpec => UndoTakesBack
<1>1. EngineInv /\ EngineInv' =>
        [moveHistory # <<>> /\ moveHistory' = Front(moveHistory)
         /\ initialBoard' = initialBoard /\ initialPla' = initialPla
         => LET move == Last(moveHistory) IN
            /\ isLegalTolerant(root', move[1])
            /\ makeMove(root', move[1], move[2]).board = root.board]_engineVars
  <2>1. SUFFICES ASSUME EngineInv, EngineInv', moveHistory # <<>>,
                        moveHistory' = Front(moveHistory),
                        initialBoard' = initialBoard, initialPla' = initialPla
                 PROVE  LET move == Last(moveHistory) IN
                        /\ isLegalTolerant(root', move[1])
                        /\ makeMove(root', move[1], move[2]).board = root.board
    OBVIOUS
  <2> DEFINE m == Last(moveHistory)
             ms == Front(moveHistory)
  <2>2. /\ initialBoard \in Board /\ initialPla \in Sides /\ moveHistory \in Stones
        /\ root \in Roots /\ root' \in Roots
        /\ Replays(root, initialBoard, initialPla, moveHistory)
        /\ Replays(root', initialBoard', initialPla', moveHistory')
    BY <2>1 DEF EngineInv, MovesInv
  <2>3. ms \in Stones /\ m \in Cells \X Sides /\ moveHistory = Append(ms, m)
    BY <2>1, <2>2, FrontAndLast
  <2>4. Replays(root', initialBoard, initialPla, ms)
    BY <2>1, <2>2
  <2> HIDE DEF m, ms
  <2>5. Replays(root, initialBoard, initialPla, Append(ms, m))
    BY <2>2, <2>3
  <2>6. isLegalTolerant(root', m[1]) /\ makeMove(root', m[1], m[2]).board = root.board
    BY <2>2, <2>3, <2>4, <2>5, TakenBack
  <2> QED
    BY <2>6 DEF m
<1> QED
  BY <1>1, EngineInitInv, EngineStepInv, PTL DEF EngineSpec, UndoTakesBack

\* An error is the answer to a command that has changed nothing.
LEMMA ErrorIsQuiet ==
  ASSUME EngineInv, EngineNext, response' = "error"
  PROVE  root'.board = root.board /\ UNCHANGED game
<1>1. ASSUME NEW running, Answer("ok", running) PROVE FALSE
  BY <1>1 DEF Answer
<1>2. ASSUME NEW what, Other(what) PROVE root'.board = root.board /\ UNCHANGED game
  BY <1>2 DEF Other
<1>3. ASSUME Break PROVE root'.board = root.board /\ UNCHANGED game
  BY <1>3 DEF Break
<1>4. ASSUME setRulesNotIncludingKomi PROVE FALSE
  BY <1>1, <1>4, setRulesIs
<1>5. ASSUME undo PROVE root'.board = root.board /\ UNCHANGED game
  BY <1>1, <1>2, <1>3, <1>5 DEF undo
<1>6. ASSUME StopSearch \/ TimeLeft \/ clearBoard PROVE FALSE
  BY <1>1, <1>6 DEF StopSearch, TimeLeft, clearBoard
<1>7. ASSUME NEW stones, setPosition(stones) \/ FixedHandicap(stones)
      PROVE  root'.board = root.board /\ UNCHANGED game
  BY <1>1, <1>2, <1>7 DEF setPosition, FixedHandicap
<1>8. ASSUME NEW cells, FreeHandicap(cells) \/ SetFreeHandicap(cells) PROVE FALSE
  BY <1>1, <1>8 DEF FreeHandicap, SetFreeHandicap
<1>9. ASSUME NEW sgf, LoadSgf(sgf) PROVE root'.board = root.board /\ UNCHANGED game
  BY <1>1, <1>2, <1>3, <1>9 DEF LoadSgf
<1>10. ASSUME NEW pla, analyze(pla) PROVE FALSE
  BY <1>10 DEF analyze
<1>11. ASSUME NEW loc, NEW pla, play(loc, pla)
       PROVE  root'.board = root.board /\ UNCHANGED game
  BY <1>1, <1>3, <1>11 DEF play
<1>12. ASSUME NEW loc, NEW pla \in Sides, NEW playChosenMove, NEW resigned,
              genMove(loc, pla, playChosenMove, resigned)
       PROVE  root'.board = root.board /\ UNCHANGED game
  <2>1. ForPlayer(root, pla).board = root.board
    BY ForPlayerTyped DEF EngineInv, MovesInv
  <2> QED
    BY <1>1, <1>3, <1>12, <2>1 DEF genMove
<1> QED
  BY <1>2, <1>4, <1>5, <1>6, <1>7, <1>8, <1>9, <1>10, <1>11, <1>12 DEF EngineNext

\* Whatever command answers with an error has changed neither the board nor the
\* remembered moves.  In a change of rules the moves can always be played again.
THEOREM EngineFailedCommandsKeepGame == EngineSpec => FailedCommandsKeepGame
<1>1. EngineInv /\ [EngineNext]_engineVars =>
        [response' = "error" => UNCHANGED <<root.board, game>>]_engineVars
  BY ErrorIsQuiet
<1> QED
  BY <1>1, EngineInitInv, EngineStepInv, PTL DEF EngineSpec, FailedCommandsKeepGame
=============================================================================
