# A TLA+ verification of barbakan_zero

barbakan_zero is a program that plays and learns gomoku, derived from KataGo: a C++ engine
(`src/source/cpp`) that searches with a neural net and with a solver of forced wins, commands
that serve the engine to a user interface (GTP), to analysis tools (JSON) and to self-play
training, and a Python training pipeline (`src/source/python`).

The C++ program is multi-threaded throughout: search threads share a tree and a neural net
evaluator, game threads share nets and data writers, and the commands stop all of that at any
time.  This directory has TLA+ models of those parts, TLC configurations that check them on
small instances, and TLAPS proofs for instances of any size.

- [Inventory](#inventory): the components, their state and operations, what is hard, what is correct
- [Plan](#plan): modules in their order, what is there and what comes next
- [The modules](#the-modules): how state and actions correspond to the code
- [The runs](#the-runs): what each shows, its bounds, and fairness
- [The proofs](#the-proofs)
- [Where the code disagrees with its documentation](#where-the-code-disagrees-with-its-documentation)
- [What is not modelled](#what-is-not-modelled)

## Running it

    tlc -config queue.cfg ThreadSafeQueue        # every run: see the table below
    tlapm ThreadSafeQueueProofs.tla              # and NNEvalProofs, BotProofs, GatekeeperProofs, ContributeProofs,
                                                # AnalysisEngineProofs, SelfplayProofs, SearchTreeProofs

`PROJECT.json` lists the components, the runs with their properties, a plausible bug for each
property (an operator of the module under a comment "A mistake: ...", which breaks the property
when it replaces a definition), the source lines behind each definition, the hazards of the code
and the theorems.

## Inventory

Paths are relative to `src/source/cpp`.

| Component | State | Operations | Talks to |
|---|---|---|---|
| **Thread-safe queue** `core/threadsafequeue.h` | a vector with a lazily shifted head, flags `closed` and `readOnly`, a mutex, two condition variables | waitPush, forcePush, waitPop, tryPop, size, setReadOnly, close | shared by the threads of analysis, self-play, gatekeeper, contribute |
| **NN evaluator** `neuralnet/nneval.cpp` | ring of result buffers, cache table, server threads with one buffer each | evaluate, isInCacheTable, spawnServerThreads, killServerThreads, clearCache, serve | called by all search threads; calls the backend |
| **Asynchronous bot** `search/asyncbot.cpp` | the queued request, isRunning, isKilled, shouldStopNow; a search thread and a callback thread | genMoveAsync, genMoveSynchronous, analyzeAsync, ponder, stopAndWait, stopWithoutWait, setKilled, makeMove and the other setters, the destructor | driven by GTP, analysis, benchmarks; owns a search |
| **Search tree** `search/search.cpp`, `search/mutexpool.h` | tree of nodes with stats, virtual losses, evaluation, solver status; pool of mutexes; playout counters | makeMove, setters, beginSearch, runWholeSearch, playoutDescend and below | threads of one search share it; calls the evaluator and the solver |
| **Surewin solver** `search/search.cpp` 2046-2260, `surewin/` | a board of its own with threats, compiled for one width, a table of two entries and a node budget per thread | initSurewinRoot, surewinSearch, surewin_attack, surewin_defense, do_move, the picker of threats and of answers | called when a node is evaluated; takes over the game's threat tables |
| **Analysis engine** `command/analysis.cpp` | open requests with a status each, queues of requests and of responses, one bot per thread | analyze, terminate, query_version, quit in two ways | queues, bots |
| **Self-play** `program/selfplaymanager.cpp`, `command/selfplay.cpp` | nets with acquire counts and data queues; game threads; data write loops; a loader | loadModel, acquireLatest, release, enqueueDataToWrite, cleanup, switch of nets, shutdown | queues, evaluators, game play |
| **Gatekeeper** `command/gatekeeper.cpp` | directories of nets; a match between two nets: games started, in the queue, tallied; a data write thread and game threads | poll, load, play, tally, terminate early, judge, accept or reject (rename), signals, restart | queue, match pairing, the training loop through directories |
| **Contribution** `command/contribute.cpp`, `distributed/client.cpp` | tasks, files of nets, downloads that are on, two managers of loaded nets, a queue of games | task loops, downloads with waiters and retries, clean-up of files and of unused nets, games with uploads, download in advance, shutdown | self-play manager, `core/prioritymutex.h`, `core/throttle.h`, a server |
| **Game play** `program/play.cpp` | one game; `MatchPairer` and `ForkData` are shared between games | runGame, getMatchup, forks | bots, evaluators |
| **GTP** `command/gtp.cpp` | the first position of the game and its moves, beside the bot's own root and history; what the bot does in the background | the commands, one at a time | the bot; the rules |
| **Board and rules** `game/board.cpp`, `game/boardhistory.cpp` | stones, per side and direction the cells that make a four or an open three, the cell that makes five, the legal moves; the history | do_move, undo_move, generate_legal_moves, a scan of a position, end of the game | everybody |
| **Time controls, parameters, reports** `search/` | numbers | pure functions | search, GTP |
| **Data writing, net inputs, backends, configuration, logging** | files, devices | | self-play, evaluator |
| **Training pipeline** `src/source/python`, `src/source/scripts` | directories of files | shuffle, train, export, in a loop | files only |

What makes each one hard, and what makes it correct:

- **Queue.**  Wakeups are signalled only when the size crosses an edge (0 to 1, maxSize to
  maxSize - 1), and forcePush may overshoot the capacity.  Correct: no sleeper that could go on;
  first in, first out, each element once; setReadOnly unblocks everyone and still drains the rest.
- **NN evaluator.**  Clients fill the ring at one end while servers swap buffers away at the other; only one
  server is notified, only for the first row; a server's own buffer goes back into the ring.
  Correct: the ends never meet, each request is answered once, with the output for its own position, and
  nobody sleeps for ever, in start and shutdown either.
- **Bot.**  Members are read after the lock was released; a stop or a kill may come before the search
  has begun, in it, or between two requests; reports read a tree that has no lock.  Correct: a search is for
  the request that was made, the tree has one owner at a time, each request ends, each
  synchronous caller gets its move.
- **Search tree.**  Nodes are initialized under one of many shared mutexes, but their solver status is read under
  none; virtual losses are added in one place and taken back in five; the root survives from one search to
  the next, and into the next position.  Correct: no virtual loss stays behind, visits add up,
  limits hold, nothing is replaced under a reader, bans are obeyed.
- **Analysis engine.**  A terminate may meet a request in any of its states, and the API thread follows pointers to
  requests that analysis threads delete.  Searches of won games
  have no results.  Correct: no dangling pointer, one final response per request, but for those of won games, only
  terminated searches are cut short, every terminate of another request is answered, both ways to quit end.
- **Self-play.**  A net is used, released and replaced in the middle of a game; its data queue may be full; its data
  write loop deletes it.  Correct: what is used is tracked, what is unused goes, no finished game is lost, the
  program ends.
- **Gatekeeper.**  A match is cut short on a tally of games that finish in any order, while a signal, a kill or a failed
  rename may come at any point; a detached thread uses the match that the main thread deletes.  Correct: the verdict is that
  of the match played to the end, every game counts once, nothing is used after it was deleted, and a candidate is judged in the end,
  by this process or the next one.
- **Board and rules.**  The threats are updated around each stone only, and a five is looked for near the last stone only, on
  an assumption about the rest of the board; moves that lose are not legal, and a side without legal moves has lost.  Correct:
  the tables are what a scan of the whole board would give, moves are taken away only if they lose, and those that are left defend;
  undo restores the tables.
- **Solver.**  Its board starts with the game's tables and goes on with cheaper updates of its own, which drop what an
  attack makes irrelevant; its budget of nodes runs out in the middle of a search; its table has two entries, overwritten at will, kept from
  one search to the next and for both sides.  Correct: what it calls a win is one by the rules of the game, the table
  hides no win, its board is the game's, which holds for games of the width that it is compiled for.
- **GTP.**  The engine remembers the moves of the game beside the bot's history, which is forgotten when a side moves twice in a
  row; many commands can fail halfway.  Correct: the remembered moves lead to the bot's position, undo takes back the last one,
  a failed command changes nothing.
- **Contribution.**  The mutex of the task loops is dropped for downloads, during which other loops delete old files
  and let unused nets go; downloads fail, are waited for and are retried; uploads happen under a manager's mutex.  Correct: nets that games use stay
  loaded, nets to be loaded are in their files, one download of each at a time whose waiters wake up, and a stop ends the program, cleanly unless a task of another run comes in.

The list "hazards" of `PROJECT.json` names each of these at its line, with the properties that cover it.

## Plan

In the order of writing.  The containers and services on which the rest is built come first, with abstract
specifications, so that modules above them use the abstract ones.

| # | Module | Builds on | State of it |
|---|---|---|---|
| 1 | `ClosableQueue`, `ThreadSafeQueue` | | checked; safety and refinement proved |
| 2 | `BatchQueue`, `NNEval` | | checked; safety and refinement proved |
| 3 | `SearchService`, `AsyncBot` | | checked; safety and refinement proved |
| 4 | `AnalysisEngine` | promises of `ClosableQueue`, `SearchService` | checked; safety proved |
| 5 | `SelfplayManager` | promise of `ClosableQueue` | checked; safety proved |
| 6 | `SearchTree` | promise of `BatchQueue` (an evaluation returns) | checked; safety proved |
| 7 | `Gatekeeper` | promise of `ClosableQueue` | checked; types, the counting of games, the verdict and no use after deletion proved |
| 8 | `Gomoku` | | checked; safety proved |
| 9 | `SurewinPosition`, `Surewin` | `Gomoku` (EXTENDS) | checked |
| 10 | `GtpEngine` | `LegalAfter`, which stands for `Gomoku` | checked; safety proved |
| 11 | `Contribute` | promise of `ClosableQueue`, the manager of `SelfplayManager` | checked; safety proved |

Left: `MatchPairer` beyond the gatekeeper and `ForkData` (both one short critical section each), the choice of the
final move and the time controls (floating point), the text of protocols.

## The modules

A step of a model is what the code does without letting other threads in: a critical section, or, for shared state
without a lock, one access.  A condition variable is modelled by the set of threads asleep on it; a notification
takes threads out of the set, and so may a spurious wakeup, which C++ allows; an awakened thread runs the loop
around its wait again.  Histories (`accepted`, `delivered`, `moves`, `unanswered`, `overlooped`, `written`,
`finished`, `stored`) are there for the properties and guard nothing.  Values and formats are left out.

### ThreadSafeQueue, ClosableQueue

`elts`, `headIdx`, `closed` and `readOnly` are the members of the class.  `calling` are the threads that are inside
waitPush or waitPop after a wait, and `asleep` those that wait.  One action per method; `PushElement` and `PopElement` are
the shared ends, with the notifications on the edges and the shift of `popUnsynchronized`.  `Close` empties `elts`
and leaves `headIdx`, as `clearUnsynchronized` does.  A reader whose waitPop returned false leaves, as every reader of the
program does.

`ClosableQueue` is what the header promises, in terms of what was accepted and delivered only.

### NNEval, BatchQueue

The ring (`resultBufs`, `curLen`, `curIdx`, `oldestIdx`) and `isKilled` are the members; `held`, `numRows`,
`row` and `output` are a server thread's buffer and locals, `hasResult` and `result` a client's
`NNResultBuf`.  `Submit` is evaluate up to the wait: its row goes to the current buffer, which is left when it
is full.  `Grab` swaps the oldest buffer for the server's own and moves the clients on when they were filling it.
`Deliver` is one row of the loop that sets results.  `Asks` says which positions each client may ask about: it
bounds the inputs of an instance.  `Lookup`, `EvaluateReturns` and `ClearEntry` are the cache; an
entry is shared by the positions that `SlotOf` sends to it.  `Spawn`, `SpawnReturns`, `Kill`, `KillReturns` are the
owner.  The ring's size is what the constructor computes, as an assumption on the constants.  The net's output is
identified with the position that it is for; post-processing, symmetries, and skipping a cache that is being
ignored are left out.

`BatchQueue` is a queue of requests of which a server takes a batch of the oldest and answers each.  The refinement
mapping reads the ring from the oldest buffer on.

### AsyncBot, SearchService

The members keep their names; `queued` collects the fields of a request, `local` is the search thread's copy,
`wanted` the request that the user's thread is about to queue.  `searcher`, `reporter` and `user` are the positions of the
search thread, the callback thread and the user's thread.  One user calls the methods that the header says are not
to be called concurrently; `StopWithoutWait` and `SetKilled` may be called by others at any time before the
destructor.  A search is bounded only by a stop or by its own will.

`SearchService` promises one search at a time, a move for each search that was asked for one, and no dropped request
unless the bot is killed.

### AnalysisEngine

The API thread (`api`, `todo`, `toStop`, `quit`), the analysis threads (`at`, `serving`) and their bots
(`shouldStop`, `isKilled`, `hasResults`, by the promises of `SearchService`).  `status` is the atomic status of a request: in
queue, popped, the index of the thread that searches it, or terminated; each exchange or compare-exchange on it is a
step.  `openRequestsMutex` is held by the API thread through a whole terminate, which several steps of others may meet
(`OpenRequestsIsFree`).  The queue of requests hands out any element, which includes the order by priority.
`written` is what the write queue accepted, so what is printed unless the program is told to quit at once.  `won` are the requests for a position
in which the game is won, which a query for the turn after a winning move opens like any other: a playout does nothing at such a root, so its search ends
without results.  What is left of the promise of a response for these requests is part of `OneFinalResponse` (`DroppedAsWon`).
Rejected lines, formatting and the contents of responses are left out.

### SelfplayManager

Nets are numbered in the order of loading.  `modelDatas`, `acquireCount` and `numDataWriteLoopsActive` are the
manager's, under `managerMutex`; each `ModelData` has its queue and its data write loop.  A game thread acquires
a net, plays, looks for a new net between moves (release of the old, then the bots change), and pushes its game to the
net's queue in two steps, since the lock is dropped before the push.  The main thread joins game threads and loader and deletes the
manager, which waits for the loops.  Each data write loop is one step per game, with writers that fill a file at any
time and are flushed at the end.  The queue is used by the promise of `ClosableQueue`.

### SearchTree

A node is the sequence of moves to it; `tree` are those that exist.  `visits`, `virtualLosses`, `sureWin` and `nnOutput` are per node;
the values that are averaged are left out, and the choice of a child by value becomes the choice of any child that
exists or may be added.  `at` and `node` are a thread's position in playoutDescend, whose recursion needs no stack in the
model: a call returns to the node's parent.  `holder` is the mutex pool, with several nodes per mutex.
The order of the code is kept where threads may meet: `sureWinStatus` is read before the lock, the node's mutex is
held from the lock to the leaf's value or to the choice of a child and its virtual loss, and taken again when the stats are updated on the way back.

Between searches, `MakeMove` keeps the subtree of a child that was evaluated, `SetAvoidMoveUntilByLoc` throws the
tree away unless the bans are the same, and `BeginSearch` keeps the rest.  The root's evaluation is computed again once
per search (`ReInit`, `rootIsCurrent`).  In this fork `isAllowedRootMove` is true of every move, so that beginSearch
prunes nothing.  The solver may find a win in the positions of `SureWins` and only when the evaluator's cache does not
have the position (`SolverResults`); whether it does is left open, since its table and budget belong to the thread.
Time limits act as a stop.  Not modelled: exceptions, the clearing of the tree for playoutDoublingAdvantage, the
rollover of searchNodeAge, collisions of hashes, and searches of finished games.

### Gatekeeper

`place` is the directory of each net, with `partial` for a candidate's directory that has no model file yet; it is all that survives
`Crash`, and `Restart` is the training loop's next call.  `pc` follows the main thread through one poll: load the two nets
and start the threads, join the game threads, wait for the data, judge, rename.  `started`, `tallied`, `basePoints`, `candPoints` and
`terminated` are the fields of `NetAndStuff`; `NextGame` is `MatchPairer::getMatchup` with the counters of `gatekeeper.cpp`, `TallyGame` the loop of the
data write thread, with the test for an early end.  `game` is what a game thread is playing or about to push.  Each critical section of `netAndStuffMutex` is
one step.  Points are integers in units of a game, with `DrawPoints` and `NoResultPoints` as the code's configuration has them.  A position and
a colour are read from the list of start positions that `paired` remembers, so that `StartPositionExists` can say that the position was there.

### Gomoku

`handler` is the `ThreatHandler`: stones, threats and `five_threat`.  The bit boards of the code hold the same stones several times and are one
set here, the three tables of a side and direction are one function to the kind of threat.  `KindOf` is the code's sequence of pattern
tests, in their order; `LocalUpdate` is the update around a stone, which forgets the threats in reach and computes them again;
`Scan` is what `setStartPosition` computes; `LegalMoves` is `generate_legal_moves` with its branches: five to make, five to block, open fours to defend
against in the order in which the code finds them.  `MakeMove` is `BoardHistory::makeBoardMoveAssumeLegal`, with the full board and the
side that has no move left.  The properties are about fives and sixes of cells and the stones on them, and use none of these definitions' ideas.

### SurewinPosition

The solver's own board and the moves that it tries, for boards of one width, which is the parameter `boardSize` of this module.  A position holds the stones twice: `square`,
where cells are numbered, and `lines` (`linear_bit`), where each direction has its own lines, because they come from the game in different ways.  `DoMove` is `do_move` with its
cheaper updates of the threats; `AttackMoves` and `DefenceMoves` are the stages of `Picker_surewin`.

### Surewin

Extends `Gomoku`, whose `boardSize` is that of the game, and instantiates `SurewinPosition` with `BOARDS`, the width of the solver.  A search thread descends through a game
(`Descend`, `NextPlayout`) and asks the solver at nodes on the way (`Ask`), as `initNodeNNOutput` does.  `SurewinRoot` is `initSurewinRoot`, which copies words of bits: a cell of
`square`, of the threats and of the five keeps its number (`Recoded`), the lines of the game keep theirs (`RootLines`), and `SureWinLoc` is what the game reads from the `Loc`
that is stored as the winning move.  All three are identities when the widths are equal.  `Attack`, `TryAttacks`, `TryDefences` are `surewin_attack` and `surewin_defense`, mutually recursive with the table and the
number of nodes threaded through; `Deepen` is the loop of `surewinSearch`.  A position's slot in the table, which depends on a hash in the code, is the
constant `Slot`; a hash is never taken for another one.  `starved` remembers that a search ran out of nodes, for `NothingIsHidden`.

On a game of another width the model follows the code as long as no stone comes on a bit of `linear_bit` that is set already, which the run for that case does not need: `undo_move`
takes that bit away, a bit of both sides is read as something else, and a threat that is looked at again may be a five, for which there is no table.

### GtpEngine

`root` is the bot's position with its history, `initialBoard`, `initialPla` and `moveHistory` the engine's.  One action per command: play,
genmove and its variants, undo, clear_board, set_position, fixed and free handicap, loadsgf, rules, analyses, stop, and those that change
nothing.  Each ends what the bot is doing in the background, in the order of the code, and either answers or fails.  Which moves are legal after which
stones is the constant `LegalAfter`: `Gomoku` has the real answer.  `intact` remembers whether somebody has played on a
stone, where the code has an assertion; what the program does after it is not defined, and no property looks there.

### Contribute

A task loop takes `taskLoopMutex`, asks for a task (`ServerTasks` is what the server may answer), drops the mutex, downloads, takes it again, loads,
acquires, and hands the games on; each of these is a step, as is each of the waits.  `downloads` is `downloadStateByUrl`: who
downloads each net, for whom others wait; a download may fail, throw, or be given up after `MaxTries`.  `files` are the nets on
disk, which task loops delete when they are old and in no use.  `loaded` and `acquireCount` are the two managers', where unused nets
go at any time (the code waits twenty seconds).  A game thread plays, uploads under `selfplayManager`'s mutex, and releases.  The server and HTTP are
external: any answer, any failure.

## The runs

| Run | Module | Distinct states | Properties |
|---|---|---|---|
| queue | ThreadSafeQueue | 45,897 | NoLostWakeup DrainedWhenReadersStop ImplementsClosableQueue NobodyWaitsForEver |
| nneval | NNEvalMC | 173,952 | NoOverloop OutputIsForPosition ImplementsBatchQueue CallsReturn |
| bot | AsyncBot | 17,651 | SearchIsForRequest TreeIsNotShared ImplementsSearchService CallsTakeEffect |
| analysis | AnalysisEngine | 228,947 | PointersAreLive OneFinalResponse OnlyTerminatedIsCutShort NothingHangs |
| selfplay | SelfplayManager | 261,273 | ModelsLiveAsLongAsUsed GamesReachTheDisk StopEnds |
| tree | SearchTreeMC | 566,056 | VirtualLossesAreReturned VisitsAreCounted RootOutputIsStable SearchEnds |
| gatekeeper | GatekeeperMC | 86,568 | VerdictIsFullMatch EveryGameCounts NetOutlivesItsUsers GatekeeperProgress |
| gatekeeper_positions | GatekeeperMC | violation | StartPositionExists |
| gomoku | GomokuMC | 2,886 | ThreatsAreKnown LegalMovesAreTheDefences UndoRestores |
| gtp | GtpEngineMC | 64,837 | HistoryReplays UndoTakesBack FailedCommandsKeepGame |
| surewin | SurewinMC | 1,139 | WinsAreReal NothingIsHidden SolverSeesTheGame |
| contribute | ContributeMC | 783,756 | UsedNetsAreLoaded NetsAreInTheirFiles OneDownloadEach StopEnds |

A run takes between ten seconds and three minutes with two workers.  What they show is stated above each property in the modules, and
in a sentence per run in `PROJECT.json`.

Where several promises together say one thing they are conjuncts of one property: `NobodyWaitsForEver` is `ShutdownUnblocks` and
`ReadersKeepItMoving`, `CallsTakeEffect` is `StopIsHonoured` and `CallsReturn` (AsyncBot), `NothingHangs` is `TerminatedIsAnswered` and `QuitEnds`,
`ModelsLiveAsLongAsUsed` is `UsedModelsAreTracked` and `OnlyUsedOrLatest`, `GamesReachTheDisk` is `LoopEndsAlone` and `NoGameIsLost`,
`VisitsAreCounted` is `VisitsAddUp`, `PlayoutsAreBounded` and `RootVisitsCountPlayouts`, `ThreatsAreKnown` is `TablesAreThreats` and
`FivesAreKnown`, `LegalMovesAreTheDefences` is `IllegalMovesLose` and `LegalMovesDefend`.  The type invariants of the modules with proofs
are theorems and not in their runs; those of the others are conjuncts of an invariant that is.  `SynchronousGetsMove` and `NoLostWakeup` of the bot
and `RowsAreWaiting` and `NoLostWakeup` of the evaluator are theorems, too.

### Bounds, and why they are enough

- **Queue:** two writers and two readers, so that one may be asleep while another of its kind runs; one writer calls forcePush
  too (`Forcers`) and the other does not, so that the queue is overfull and crosses the edge maxSize more than once, while the
  refinement still checks that waitPush alone never exceeds the capacity; six pushes to a queue of two places, so that the vector is
  shifted with and without a rest.  `MaxSent` bounds the pushes of a writer.
- **Evaluator:** as many clients as `MaxConcurrentEvals`, the limit at which the ring would overloop; two servers, so that one
  is asleep or in a batch while another runs; two clients and batches of two, so that there are full and partial batches, and the ring of four
  that the constructor would make; two positions that share the one entry of the cache, one of them asked about by both clients.  (The
  proofs are for any size.)  Nothing is counted: the state space is finite by itself.
- **Bot:** three searches (`MaxSearches`), so that a request follows one that was stopped and one that ended.
- **Analysis:** two threads and two requests (`MaxRequests`): a line may open both at once, and a terminate that
  names both meets them in different states; a thread that is to be
  stopped for one request goes on to the other, and both threads are busy or idle.  Any of the requests may be
  for a won game.  Consecutive reports of one search count as one.
- **Self-play:** two game threads, two nets (`MaxModels`), queues of one place, so that the second push of a net blocks; two games
  (`maxGamesTotal`), by one thread or by both, with switches of nets in each.  The invariants also hold with three games (657,299 states
  up to symmetry).
- **Tree:** two threads; two moves, games of three plies, so that nodes below the root have children and leaves are
  terminal; two searches (`MaxSearches`) of at most two playouts, which both threads may exceed by one, and `maxVisits` of four, so that either limit ends a search,
  the second one counting the visits kept from before; two mutexes, so that nodes of different parents share one, and
  neighbours in depth do not.  One position may be a win for the solver.  Bans: none, all moves for two plies, one move at the root.
- **Gatekeeper:** an accepted net, a candidate older than it, which is rejected unplayed, and a newer one; two game threads, so that
  games finish out of order; matches of three games, so that a match may be decided after two with one in play; draws that
  count half; one kill or failed rename (`MaxFaults`).  In `gatekeeper_positions` no start position is loaded.  (The proofs are for any numbers.)
- **Board:** 36 cells are the fewest on which an open four and six in a row exist in every direction.  Whole games on it are too many, so
  four openings lead to what the rules are about (two open threes and a split four, crossing lines with double fours, a race of fours and a block
  that makes four, a board that fills up), and up to five moves (`MaxPlies`) follow on the cells around (`area`), with every legal move there.
- **GTP:** a line of five cells where three in a row win, so that games end by a win, by a full board and by having no legal move; up to four moves
  (`MaxMoves`) by either side out of turn; setups with an overlap, setups that make a move illegal, a sgf that is illegal halfway.
- **Solver:** two openings on a board of 49 cells, for which the solver is compiled in this run, as the program's is for 20 by 20; in one a side wins with three threats, in the other no
  attack gets through at once, and what is found depends on the moves below the root.  `surewinDepth` of 10, so that
  attacks are tried at the depths 1 to 9 and the picker comes to its late stages: those that a penalty of 4 or 6 puts back are tried in these searches, those of both penalties,
  from depth 13 on, are not.  100 nodes, so that some searches run out of them; two searches (`MaxAsks`), at the root and up to two plies
  below, with what the first one left in the table.  In `surewin_smaller` the game has 19 rows and the solver 20, with the configuration's `surewinDepth` and the program's budget;
  the opening is a sequence of legal moves.
- **Contribution:** two task loops, so that one holds the mutex, downloads or waits for a download while the other deletes or lets go; one
  game thread and a queue of one game; the download in advance; one self-play task and one rating task out of two nets, each handed out twice
  (`taskRepFactor`); one download at a time, one attempt each.

Nothing is checked up to symmetry: all runs but gatekeeper_positions, gomoku, gtp and surewin check liveness.

`CHECK_DEADLOCK FALSE` stands where the program ends or where a bound ends the run: bot (deleted), analysis, self-play, tree, contribute,
gomoku (a game ends), gtp (the bound), surewin.  In the queue, the evaluator and the gatekeeper (which is started again) every reachable state has a successor,
and deadlock is checked.

### Fairness

Each thread that can take a step takes one in the end (weak fairness of its steps), which is what the operating system's scheduler gives to
a thread that is not blocked.  What depends on the world is not assumed: nobody has to make a request, to stop or kill anything, to
send a signal or to load a net; wakeups come from notifications only; a search goes on for as long as it likes unless it is stopped
(`WF_vars(shouldStopNow /\ SearchEnds)` in AsyncBot and AnalysisEngine).

- **SelfplayManager** has strong fairness of `FinishGame`: a game, which checks for a new net again and again, ends at some time.  Games have a bounded number of
  moves and the check happens between moves.
- **NNEval** assumes that the backend returns.
- **SearchTree** assumes no fairness of mutexes: the number of playouts is finite, so that weak fairness of each thread is enough,
  and the evaluator returns by `CallsReturn` of NNEval.
- **Gatekeeper** assumes nothing of arrivals, signals, kills and restarts; games are finite.
- **Contribute** needs only that some thread goes on while any can (`WF_vars(Step)`): after a stop, nothing in the program can be repeated for
  ever.  Uploads and downloads end, if by giving up.
- **Gomoku, GtpEngine and Surewin** are sequential, and their properties are of safety.

## The proofs

All are about the specifications as the runs check them, for every value of the constants that the named assumptions
(`QueueAssumption`, `NNEvalAssumption`, `RingAssumption`, `AsyncBotAssumption`, `AnalysisAssumption`, `SelfplayAssumption`, `SearchTreeAssumption`, `ContributeAssumption`,
those of Gatekeeper, `SizeAssumption` and `FiveAssumption` of Gomoku, and those of GtpEngine) allow.  Two modules hold the proofs of two components each:
`SelfplayProofs` those of the games that self-play plays and of its manager, `BotProofs` those of the bot and of the GTP engine that drives it.

### ThreadSafeQueueProofs

The inductive invariant `IInv` is the type invariant, `StorageInv`, `NoLostWakeup` and `StopInv`.  None of the properties is
inductive: `Fifo` as equality of sequences with a concatenation is stated entry by entry in `StorageInv` (the head plus the number of remaining
elements matches the two histories), and a reader that has left needs `StopInv` (what it left behind was nothing, and nothing can
come).  `NoLostWakeup` rests on the edges: a push to an empty queue, a pop from a full one; that a queue filled beyond its capacity by forcePush
still crosses maxSize on its way down is the arithmetic of `PopInv`.  From `IInv` follow `QueueTypeCorrect`, `QueueNoLostWakeup`, `QueueFifo`,
`QueueDrained`, and `QueueSizeAssertion`, with "never closed" as a premise, since it is false otherwise.
`QueueImplementsClosableQueue` maps each step to a step of the abstract queue or to a stutter, also with forcePush and close.

### NNEvalProofs

That the ring never overloops is a counting argument: each place of the ring and of the servers' batches that is in use
points to a waiting client, no client is pointed to from two places, so the places in use are no more than the clients, and the ring has more
places than that by the choice of its size.  `IInv` states this without cardinalities: `RingInv` and `HeldInv` (the live places point to waiting clients, the others to nobody),
`RingDistinct`, `HeldDistinct`, `Disjoint` (no client in two places), `Placed` (each waiting client in one), `Lifecycle`.
`NotAllDistinct`, from the pigeonhole principle of the library, gives the contradiction in `SubmitInv`: a ring with both ends together would be full of different
clients.

Two more invariants are proved on top of `IInv`.  `AnswerInv` says that the outputs a server has computed and not delivered are for the
positions of the clients that the rows point to, and that what a client was given is for its own; it is kept because a client that waits
or holds an output asks for nothing else.  `WakeInv` adds to `NoLostWakeup` that nobody asks unless the servers are up: then the ring is
empty when they are spawned, and each notification for the first row of an empty ring finds a server that is awake or awakens one.  It is
here that `Servers` must not be empty.

`NNEvalImplementsBatchQueue` is the refinement.  Its arithmetic is of places in the ring: place k from the oldest is row `k % MaxBatchSize` of the
buffer `k \div MaxBatchSize` further on (`PlaceSplit`, `PlaceJoin`, `PlaceOrder`, `Wrap`), and `PlaceOf` shows that the places up to the clients' end are
the live cells, so that the pending requests are a sequence of waiting clients (`RequestsAre`).  Three lemmas follow the sequence through a
step: a request appends (`RequestsGrow`, which needs `NoOverloop`), the oldest buffer holds its first entries (`FirstRequests`), and what
is left when that buffer goes is the rest (`RequestsLeft`).  `HandTail` does the same for a server's batch.  `Submit`, `Lookup` with a hit, `Grab` and
`Deliver` are then steps of the queue (`NotServed`: a client that does not wait has no request anywhere), all others stutter (`Unseen`).

Theorems: `NNEvalInvariant`, `NNEvalTypeCorrect`, `NNEvalNoOverloop`, `NNEvalRowsAreWaiting`, `NNEvalOutputIsForPosition`, `NNEvalNoLostWakeup`,
`NNEvalImplementsBatchQueue`.

### BotProofs

For AsyncBot, `IInv` adds to the checked invariants `ReporterInv` (when there is a callback thread, and what it may do), `LifeInv` (who may be
dead or asleep while the bot is or is not killed and running) and `MoveInv` (which searches have passed on their moves).  One
lemma for the steps of the user (`UserInv`), one for the others (`OthersInv`).  Theorems: `BotTypeCorrect`, `BotSearchIsForRequest`,
`BotTreeIsNotShared`, `BotSynchronousGetsMove`, `BotNoLostWakeup`, and `BotImplementsSearchService`.

For GtpEngine, `HistoryReplays` is inductive as it is (`HistoryReplaysIs` states it as `EngineInv`).  What it says is about moves played one after another, a recursive
function on the moves made so far.  The induction is one over sets (`SetInduction`: a set that has 0 and successors has every
number, from the library's theorem that the naturals are well-founded), which needs no operator as a parameter: it shows that the function exists (`PlaysExists`), that with
a move more it is the same up to there (`PlayOneMore`), and so that a set of lists that has the empty one and with each list those longer by a move has them all (`StonesInduction`).
On that rest the three facts that commands need: moves that could be made are remembered in full, while the root's history is their end (`PlayAllKeeps`); the board, the end
of the game and the winner are the same whether or not the history is cleared when a side moves twice (`Outcome`, which has the board only, and `FileIsAGame`); and a
legal move made and remembered is one move more of the replay (`MoveReplays`).  There is one lemma for each command.  `LegalAfter` is any operator: nothing is asked of the rules.

Theorems: `EngineHistoryReplays`, `EngineUndoTakesBack` (from the invariant before and after: the move is the last of a replay that went through), `EngineFailedCommandsKeepGame`.

### GatekeeperProofs

Why a match that is cut short gets the right verdict is arithmetic on a tally; what needs an invariant is that the tally is the match's.  `IInv`
says where each started game is (in play, in the queue, tallied or, after a stop, dropped), with the cardinality of the threads that have one;
that points are bounded by the games tallied; what each thread may be doing in each phase of the main thread; and that `terminated` is set only
when the points decide the match.  `GamesAreCounted`, `VerdictIsRight` and `NoUseAfterDelete` follow for every number of nets, threads, games and
every points of a draw; `TypeCorrect` is among its parts.  The assumptions are those that the module names for its constants.

### AnalysisEngineProofs

A request is in one place at a time: in the queue, with the analysis thread that serves it, or finished and deleted.  `PlaceInv` says so, with the
queue holding each request once; `StatusInv` says what the status word of a request can be at each place (`WaitingInv`, `ServingInv`, and
`NamedInv` for the two words that name a thread); `ApiInv` relates the reader's position in a list of open requests to that list, which it
took before it dropped the mutex; `WriteInv` bounds the answers by place (`UnclaimedInv`: none before a thread or the reader has claimed the request; `ServedInv`;
`ClosedInv`: one after).  The exchange of the status word is what makes two writers exclude each other, so neither property can do
without `StatusInv`: `NoDanglingPointer` needs that a thread named by a status still serves that request, `EachAnsweredOnce` that the one whose
exchange fails leaves the answer to the other, `StopsHitTheirRequest` that a bot is stopped only while it works on the request that was terminated.
`OnlyOneServes`, `PendingIsUnserved`, `AppendOnce` and `WriteOnce` are the facts the steps share; there is one lemma for each action.

Requests for won games are closed without a response, or with one: `ClosedInv` says that of the closed requests all but those of won games are answered once, and `WonInv`, proved on top of the
rest, what can be written to those: the response to a termination and nothing else, since their searches never have results (`WriteToWon`).

### SelfplayProofs

The first half is about Gomoku, on a board of any size, after every sequence of legal moves.  The inductive invariant `RulesInv` is the type
invariant, that the tables are those of a full scan, `LegalInv` and `FivesInv`.

- *Tables.*  A stone changes what is on its four lines only, and on a line what is within reach of it, which is what the local update forgets and
  computes again: after it, the tables equal those of a scan, threat by threat, if they did before.  This is a statement about equal functions, and is proved as such before
  anything is said of what the patterns mean.
- *Patterns.*  Each of the code's tests on a line is shown to be a statement about rows of five and six cells of the board (a five to be made, an open four), in both directions.  The code tries
  them in the order of their strength, and for the fours looks at the last run only; that this is enough is part of the proof.
- *Fives.*  `five_threat` is looked for near the last stone only.  `FivesInv` says why that is right: in a game nobody has five in a row, and the side to
  move has no five to make, because each move had to be legal.  So the fives that there were to make all lie on the cell of the move and may be forgotten, and those that are new go through
  the new stone, one direction for each cell.
- *Legal moves.*  A move is refused only if after it a five that the opponent can make, or an open four that leaves two, is untouched; a move that is left defends against each.  The code
  takes the first open four it finds, the least element of a set of numbers: the only place where the library's induction is used.

Theorems: `GameInvariant`, `GameTypeCorrect`, `GameThreatsAreKnown`, `GameLegalMoves`, `GameUndoRestores`.

The second half is the manager.  A net is deleted when its count of users drops to zero, so the proof must know that the count is the number of those who hold it:
`CountInv` equates `acquireCount[m]` with the cardinalities of the loops that play with m and of the threads that asked for it on the way.
`TrackInv` says which nets the manager still has (the latest, and those in use), `LoopInv` and `UseInv` which loops are counted and what a loop
holds at each line.  For the games, `GameInv` follows each one from the thread that finished it through the queue to the file (`OnItsWay`): a loop
that writes ends only with its queue empty and closed, and the manager closes it only when no user is left who could push.  Theorems:
`SelfplayInvariant`, `NetsLiveAsLongAsUsed`, `GamesAreStored`.

### SearchTreeProofs

That virtual losses are returned means that a counter in shared memory is what the threads, each with a call stack of its own, still owe.  A thread
knows one node; the nodes on its stack are that node's ancestors.  So the lemmas on nodes come first (`PrefixOfParent`: whoever is above a node is
above its parent or is the node), and `LossInv` states the losses of every node that could exist, not only of those that do: a child that is
created on the way down then needs no case of its own.  `ReturnKeepsLosses` serves all the exits of playoutDescend.  `BoundInv` counts the threads
that may still begin a playout, a number that falls with each playout past the limit.  `RootInv` (before the root's nnOutput is of this search, nobody
has gone past the root) gives `TreeRootOutputIsStable`.  The other theorems are `TreeInvariant`, `TreeLossesAreReturned`, `TreePlayoutsAreBounded` and
`TreeRootVisitsCount`, the last two about parts of `VisitsAreCounted`.

The third part, `VisitsAddUp`, equates a node's visits with a sum over its children.  A sum by a fold is out of the prover's reach, so `SumOfVisits` is the number
of pairs of a node and one of its visits, and a visit more is an element more (`PairsGrow`).  `VisitInv` is what the equation needs: a node is
evaluated before it has children or threads that return to it (`ParentInv`), what has visits was evaluated or could be decided without that (`FreshInv`),
and a search all of whose moves are banned at the root never makes a second node (`BanInv`).  The last was not foreseen: `NoChild` adds a visit that no child
has, and would break the equation at any node but the root; a node below the root that has no move to try does not exist, because a ban that
reaches deeper holds at the root too, and so it was when the tree was made, since new bans throw the tree away (`BannedMoves`, `DescendKeepsVisits`).
`ReturnAddsUp` serves all exits of playoutDescend: the visit that one thread adds to a node turns up, in the same step, among those which
it has still to add to the parent.  Theorems: `TreeVisitInvariant`, `TreeVisitsAreCounted`.

### ContributeProofs

Two arguments meet in `IInv`.  One is about the mutex: wherever a task loop relies on the files or on nets that nobody uses yet it
holds `taskLoopMutex` (`LockInv`), so that no other loop is there; `TaskInv` then says that the nets of a task are in their files when it loads
them, which holds because `Relock` goes back to the check after a download, and `ReadyInv` that the nets of the next game are loaded in the managers chosen for them.
The other is a count: `UseCount` equates each acquire count with the number of sides, of games in a thread's hands or in the queue, that use the net there
(`Held` and `Queued`; `CountInHand` is the arithmetic when one thread moves), and `LoadedInv` says that a net with a count is loaded.  Unused
nets are then those that no game uses, and may go; `SwapKeeps` shows that drawing the sides takes the managers along.  `DownloadInv` makes
`downloads` and the threads that download inverse to each other, so that a thread that waits waits for somebody.  `StopInv` is for the end: the
game threads, of which the assumption asks for at least one (with none, a game would stay in the queue), leave an empty queue behind, so that no net is in use when
`Quit` deletes the managers.  After an exception that nobody catches, the variables stay as they are, and so does the invariant.

Theorems: `ContributeInvariant`, `ContributeUsedNetsAreLoaded`, `ContributeNetsAreInTheirFiles`, `ContributeOneDownloadEach`.

### Only model-checked

- Liveness, in every module: fairness and ENABLED are outside of what the prover does.
- Surewin: its search is a pair of mutually recursive operators with a table threaded through, and the prover does without its SMT backend where such operators are declared.
  `WinsAreReal`, `NothingIsHidden` and `SolverSeesTheGame` are for TLC.

## Where the code disagrees with its documentation

The gatekeeper (`command/gatekeeper.cpp:440`) starts game i at the position `gameIndices[i]`, which has two entries for each position that was loaded, though these may be fewer
than the match has games.  Run `gatekeeper_positions`: with none loaded, the first game reads an element that does not exist.

An analysis request for a won game (command/analysis.cpp:975-1022 opens it) is closed without a response.  At its root a playout does nothing, the call of `initNodeNNOutput` being
commented out (search/search.cpp:1899); without a net output there is nothing to report, and the analysis thread writes only if the request was terminated: "this case is only possible if we're just shutting down", "a bug under any
other situation" (command/analysis.cpp:322-324).  `AnalysisEngine` has these requests (`won`), and a request that ends like this is what `OneFinalResponse`
and `NothingHangs` except by name (`DroppedAsWon`): no other request is closed without a response, unless the program quits at once.

The solver is compiled for boards of 20 rows (surewin/position.h:13), and nothing compares that with the board that is played on.  `initSurewinRoot` copies tables that are laid out for the game's
width, and the winning move goes back as a `Loc` of a board of width 20 (search/search.cpp:1793).  The repository's README plays on `boardsize 19` (README.md:33) with a configuration that has the solver on
(data/configs/gtp/default_gtp.cfg:211).  `surewin_smaller.cfg`, a configuration of SurewinMC
that is not among the runs, shows what comes of it: TLC finds `ClaimedWinsAreLegal` violated at once, black making two fours on the edge while the move that the bot plays
is a stone of the board, which genmove calls an "illegal move!?!" (command/gtp.cpp:829-831).  On other boards than 20 by 20 what the solver claims means nothing; `WinsAreReal` and `SolverSeesTheGame` are about boards of its own width.

The following were noticed while modelling; no run checks them, mostly because the models stop where the code's behaviour is not defined any more.

- `ThreadSafeQueue::close` clears the elements and not `headIdx`; `size()` of a closed queue may then trip
  `assert(elts.size() >= headIdx)` (core/threadsafequeue.h:180-185).  No code of the program closes such a queue
  today, and `QueueSizeAssertion` proves the assertion for queues that are not closed.
- `initNodeNNOutput`, called again for a root that was kept, adds a visit when the solver finds a win
  (search/search.cpp:1791), before it comes to "If this is a re-initialization of the nnOutput, we don't want to add any visits or
  anything." (line 1828).  `RootVisitsCountPlayouts` leaves such roots out.
- Bans (`avoidMoveUntilByLoc`) hold "for the number of ply of depth" from the root (search/search.h:185-186), but a tree that is kept
  over a move, with the same bans set again (search/search.cpp:228), may have children that are banned at the new root, and these are
  searched: the ban is tested for new children only.
- `setStone` does not compute the legal moves again (game/board.cpp:1545), nor does a move that fills the board: a play on a stone of a position set by
  `set_position` passes `isLegal` and ends in `assert(false)` (game/board.cpp:379).  `intact` of GtpEngine marks it.
- A task loop decides whether it may ask for rating games before it drops the mutex (command/contribute.cpp:818), so that the limit
  of rating games may be exceeded by another loop that did the same.
- `downloadModelIfNotPresent` takes the lock once before its loop (distributed/client.cpp:795): if the file is not there after a download of its own, it looks at
  the downloads of others without it.
- `PriorityLock::lockLowPriority` locks with high priority (core/prioritymutex.h:91); nothing calls it.
- The solver's table is indexed with `key & size` (search/search.cpp:2247), the size being a power of two: of its entries two are ever
  used.  Surewin has two.
- A search that throws leaves `isRunning` true (search/asyncbot.cpp:366), so that whoever waits for the bot waits for ever; but the exception
  ends the program first.

## What is not modelled

`PROJECT.json` says for every component whether it is modelled, and why not.  In short:

- **Numerical code**: values, selection, noise, statistics, net inputs, the choice of the final move, time heuristics.  It has no state that interacts;
  where a model needs its outcome, it is an open choice.
- **Backends** (CUDA, OpenCL, TensorRT, Eigen: nearly a third of the source) and device tuning: drivers and kernels.  `NNEval` takes a backend to compute
  what it is asked.
- **The stand-alone solver** of `surewin/` (other pickers, `extend`, `evaluate`, its own search): nothing in the program calls it.
- **File formats, configuration, logging, SGF and JSON texts, HTTP and the server**; sequential commands and tests: no shared state that a
  property could be about.
- **`runGame`** is sequential; what it shares with others is in `SelfplayManager` and `Gatekeeper`.  The code that makes use of `ForkData` locks a
  vector for one push or one pop.
- **The training pipeline** is a sequential loop over directories; what the gatekeeper sees of it (directories that appear, files that come later, being started
  again) is in `Gatekeeper`.
- Within modelled parts: exceptions out of searches, collisions of hashes, searches of finished games (but for what becomes of their requests in `AnalysisEngine`), the random symmetries and the
  post-processing of outputs, rollovers of counters.
