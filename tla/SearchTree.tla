------------------------------- MODULE SearchTree -------------------------------
(***************************************************************************)
(* search/search.cpp: the tree that the threads of one search grow         *)
(* together, and what is kept of it from one search and one move to the    *)
(* next.                                                                   *)
(*                                                                         *)
(* A node is named by the moves that lead to it from the first position;   *)
(* a game of MaxMoves moves is finished, and no earlier one.  Of a node's  *)
(* stats the visits, virtual losses and sureWinStatus are modelled, not    *)
(* the values that are averaged; the choice among the moves that a node    *)
(* may try is left open.                                                   *)
(***************************************************************************)
EXTENDS Naturals, Sequences, FiniteSets, SequencesExt

CONSTANTS
  Moves, MaxMoves,
  Threads, NoThread,
  numVirtualLossesPerThread, maxVisits, maxPlayouts,
  Locks, LockIdx(_),  \* the mutex pool, and the mutex of each node
  SureWins,           \* the positions in which surewinSearch may succeed
  MayEvict,           \* does the cache of the evaluator forget?
  Bans,               \* the avoidMoveUntilByLoc that are set, the same for both players
  MaxSearches         \* bounds the number of searches

Nodes == UNION {[1 .. k -> Moves] : k \in 0 .. MaxMoves}
NoBan == [m \in Moves |-> 0]

ASSUME SearchTreeAssumption ==
  /\ IsFiniteSet(Threads) /\ NoThread \notin Threads
  /\ MaxMoves \in Nat /\ MaxSearches \in Nat /\ maxVisits \in Nat /\ maxPlayouts \in Nat
  /\ numVirtualLossesPerThread \in Nat /\ MayEvict \in BOOLEAN
  /\ Bans \subseteq [Moves -> Nat]
  /\ SureWins \subseteq Nodes /\ \A n \in Nodes : LockIdx(n) \in Locks

VARIABLES
  rootNode,      \* the current position
  tree,          \* the nodes that exist
  visits, virtualLosses, sureWin, nnOutput,  \* of each node; sureWin and nnOutput are sets
  rootIsCurrent, \* is the root's nnOutputAge searchNodeAge?
  cached,        \* the positions of SureWins that are in the evaluator's cache
  searches,      \* how many were begun
  phase,         \* "idle" or "searching"
  avoidMoveUntilByLoc, \* for how many plies of a search a move is banned
  shouldStopNow, numNonPlayoutVisits, numPlayoutsShared,
  holder,        \* who holds each mutex
  at, node,      \* what a thread is doing, and at which node
  numPlayouts    \* its local

statVars == <<visits, virtualLosses, sureWin>>
nnVars == <<nnOutput, rootIsCurrent, cached>>
searchVars == <<searches, phase, avoidMoveUntilByLoc, numNonPlayoutVisits>>
threadVars == <<at, node, numPlayouts>>
vars == <<rootNode, tree, visits, virtualLosses, sureWin, nnOutput, rootIsCurrent,
          cached, searches, phase, avoidMoveUntilByLoc, shouldStopNow,
          numNonPlayoutVisits, numPlayoutsShared, holder, at, node, numPlayouts>>

Init ==
  /\ rootNode = <<>> /\ tree = {} /\ sureWin = {} /\ nnOutput = {} /\ cached = {}
  /\ rootIsCurrent = FALSE
  /\ visits = [n \in Nodes |-> 0] /\ virtualLosses = [n \in Nodes |-> 0]
  /\ searches = 0 /\ phase = "idle" /\ avoidMoveUntilByLoc = NoBan
  /\ shouldStopNow = FALSE /\ numNonPlayoutVisits = 0 /\ numPlayoutsShared = 0
  /\ holder = [l \in Locks |-> NoThread]
  /\ at = [t \in Threads |-> "stopped"] /\ node = [t \in Threads |-> <<>>]
  /\ numPlayouts = [t \in Threads |-> 0]

IsFinished(n) == Len(n) = MaxMoves
Children(n) == {Append(n, m) : m \in Moves}
ChildrenOf(n) == tree \cap Children(n)

\* How often the nodes of S were visited: one pair for each visit.
SumOfVisits(S) == Cardinality(UNION {{n} \X (1 .. visits[n]) : n \in S})

\* What is left of the tree when it is cut down to S.
KeepNodes(S) ==
  /\ tree' = S
  /\ visits' = [n \in Nodes |-> IF n \in S THEN visits[n] ELSE 0]
  /\ virtualLosses' = [n \in Nodes |-> IF n \in S THEN virtualLosses[n] ELSE 0]
  /\ sureWin' = sureWin \cap S /\ nnOutput' = nnOutput \cap S

Subtree(n) == {c \in tree : IsPrefix(n, c)}

\* NNEvaluator::evaluate leaves its answer in the cache.
Evaluate(n) == cached' = cached \cup ({n} \cap SureWins)

--------------------------------------------------------------------------------
\* Between two searches.

ChildIsWorthKeeping(c) == c \in nnOutput

\* The child becomes the root when it has an nnOutput, or else the tree goes.
MakeMove(m) ==
  /\ phase = "idle" /\ ~IsFinished(rootNode)
  /\ LET child == Append(rootNode, m)
         kept == IF ChildIsWorthKeeping(child) THEN Subtree(child) ELSE {} IN
       /\ rootNode' = child
       /\ KeepNodes(kept)
  /\ rootIsCurrent' = FALSE
  /\ UNCHANGED <<cached, searchVars, shouldStopNow, numPlayoutsShared, holder, threadVars>>

\* setAvoidMoveUntilByLoc: the tree goes, unless the bans are what they were.
SetAvoidMoveUntilByLoc(ban) ==
  /\ phase = "idle" /\ ban # avoidMoveUntilByLoc
  /\ avoidMoveUntilByLoc' = ban
  /\ KeepNodes({}) /\ rootIsCurrent' = FALSE
  /\ UNCHANGED <<rootNode, cached, searches, phase, shouldStopNow, numNonPlayoutVisits,
                 numPlayoutsShared, holder, threadVars>>

\* beginSearch makes the root if there is none (isAllowedRootMove holds of every
\* move, so it prunes nothing), and runWholeSearch starts the threads.  The
\* program searches positions in which the game is not finished.
BeginSearch ==
  /\ phase = "idle" /\ searches < MaxSearches /\ ~IsFinished(rootNode)
  /\ searches' = searches + 1 /\ phase' = "searching"
  /\ tree' = tree \cup {rootNode}
  /\ IF visits[rootNode] = 0 THEN Evaluate(rootNode) ELSE UNCHANGED cached
  /\ rootIsCurrent' = FALSE
  /\ numNonPlayoutVisits' = visits[rootNode]
  /\ shouldStopNow' = FALSE /\ numPlayoutsShared' = 0
  /\ at' = [t \in Threads |-> "starting"] /\ numPlayouts' = [t \in Threads |-> 0]
  /\ node' = [t \in Threads |-> rootNode]
  /\ UNCHANGED <<rootNode, statVars, nnOutput, avoidMoveUntilByLoc, holder>>

\* The threads are joined; what was local to the search ends with it.
EndSearch ==
  /\ phase = "searching" /\ \A t \in Threads : at[t] = "stopped"
  /\ phase' = "idle" /\ numNonPlayoutVisits' = 0 /\ numPlayoutsShared' = 0
  /\ numPlayouts' = [t \in Threads |-> 0] /\ node' = [t \in Threads |-> <<>>]
  /\ UNCHANGED <<rootNode, tree, statVars, nnVars, searches, avoidMoveUntilByLoc,
                 shouldStopNow, holder, at>>

--------------------------------------------------------------------------------
\* The environment: a stop from outside, and the evaluator, which is shared.

Stop ==
  /\ phase = "searching" /\ ~shouldStopNow
  /\ shouldStopNow' = TRUE
  /\ UNCHANGED <<rootNode, tree, statVars, nnVars, searchVars, numPlayoutsShared,
                 holder, threadVars>>

CacheChanges ==
  /\ \E n \in SureWins : \/ Evaluate(n)
                         \/ MayEvict /\ cached' = cached \ {n}
  /\ UNCHANGED <<rootNode, tree, statVars, nnOutput, rootIsCurrent, searchVars, shouldStopNow,
                 numPlayoutsShared, holder, threadVars>>

--------------------------------------------------------------------------------
\* searchLoop and playoutDescend, thread t.

GoTo(t, where, n) == at' = [at EXCEPT ![t] = where] /\ node' = [node EXCEPT ![t] = n]

\* playoutDescend returns from n to the call for its parent, or to the loop.
Return(t, n) == IF n = rootNode THEN GoTo(t, "counting", n) ELSE GoTo(t, "returning", Front(n))

\* virtualLossesToSubtract, of the call for n.
LossesOf(n) == IF n = rootNode THEN 0 ELSE numVirtualLossesPerThread

AddVisit(n, losses) ==
  /\ visits' = [visits EXCEPT ![n] = @ + 1]
  /\ virtualLosses' = [virtualLosses EXCEPT ![n] = @ - losses]

\* A mistake: the thread ends its playout and keeps the node locked.
KeepLocked(n) == UNCHANGED holder

Unlock(n) == holder' = [holder EXCEPT ![LockIdx(n)] = NoThread]

Start(t) ==
  /\ at[t] = "starting"
  /\ numPlayouts' = [numPlayouts EXCEPT ![t] = numPlayoutsShared]
  /\ GoTo(t, "head", node[t])
  /\ UNCHANGED <<rootNode, tree, statVars, nnVars, searchVars, shouldStopNow,
                 numPlayoutsShared, holder>>

\* A thread that finds its time over does as if it had been stopped before.
LoopHead(t) ==
  /\ at[t] = "head"
  /\ IF \/ numPlayouts[t] >= maxPlayouts \/ numPlayouts[t] + numNonPlayoutVisits >= maxVisits
        \/ shouldStopNow
     THEN shouldStopNow' = TRUE /\ GoTo(t, "stopped", node[t])
     ELSE GoTo(t, "entering", rootNode) /\ UNCHANGED shouldStopNow
  /\ UNCHANGED <<rootNode, tree, statVars, nnVars, searchVars, numPlayoutsShared, holder,
                 numPlayouts>>

IsDecided(n) == IsFinished(n) \/ n \in sureWin

\* A mistake: a decided node is left without taking back the virtual losses.
AddDecidedOnly(t) ==
  /\ at[t] = "entering" /\ IsDecided(node[t])
  /\ AddVisit(node[t], 0)
  /\ Return(t, node[t])
  /\ UNCHANGED <<rootNode, tree, sureWin, nnVars, searchVars, shouldStopNow,
                 numPlayoutsShared, holder, numPlayouts>>

\* The game is over, or sureWinStatus, which is read without any lock, is 1.
AddDecidedValue(t) ==
  /\ at[t] = "entering" /\ IsDecided(node[t])
  /\ AddVisit(node[t], LossesOf(node[t]))
  /\ Return(t, node[t])
  /\ UNCHANGED <<rootNode, tree, sureWin, nnVars, searchVars, shouldStopNow,
                 numPlayoutsShared, holder, numPlayouts>>

WaitForLock(t) ==
  /\ at[t] = "entering" /\ ~IsDecided(node[t])
  /\ GoTo(t, "locking", node[t])
  /\ UNCHANGED <<rootNode, tree, statVars, nnVars, searchVars, shouldStopNow,
                 numPlayoutsShared, holder, numPlayouts>>

Lock(t) ==
  /\ at[t] = "locking" /\ holder[LockIdx(node[t])] = NoThread
  /\ holder' = [holder EXCEPT ![LockIdx(node[t])] = t]
  /\ GoTo(t, "locked", node[t])
  /\ UNCHANGED <<rootNode, tree, statVars, nnVars, searchVars, shouldStopNow,
                 numPlayoutsShared, numPlayouts>>

\* Whether the solver finds a win: it is asked only when the evaluator has no
\* answer at hand, and its transposition table, which is the thread's, decides how
\* far it gets.
SolverResults(n) == IF n \notin cached /\ n \in SureWins THEN BOOLEAN ELSE {FALSE}

\* sureWinStatus, unless the solver was not asked.
SetSureWin(n, won) ==
  sureWin' = IF won THEN sureWin \cup {n}
             ELSE IF n \notin cached THEN sureWin \ {n} ELSE sureWin

\* initNodeNNOutput of a leaf.  A node that is won gets an nnOutput only at the
\* root, and nnOutputAge stays behind then.
InitNode(t) ==
  LET n == node[t] IN
  /\ at[t] = "locked" /\ n \notin nnOutput
  /\ \E won \in SolverResults(n) :
       /\ SetSureWin(n, won)
       /\ IF won /\ n # rootNode
          THEN UNCHANGED nnVars
          ELSE /\ nnOutput' = nnOutput \cup {n} /\ Evaluate(n)
               /\ rootIsCurrent' = (rootIsCurrent \/ (n = rootNode /\ ~won))
  /\ AddVisit(n, LossesOf(n))
  /\ Unlock(n) /\ Return(t, n)
  /\ UNCHANGED <<rootNode, tree, searchVars, shouldStopNow, numPlayoutsShared, numPlayouts>>

\* A mistake: the root is evaluated again when the cache has forgotten it.
StaleWhenForgotten(n) == n = rootNode /\ (~rootIsCurrent \/ n \notin cached)

IsStale(n) == n = rootNode /\ ~rootIsCurrent

\* maybeRecomputeExistingNNOutput: initNodeNNOutput with isReInit.  When the
\* solver finds a win it adds a leaf value first.
ReInit(t) ==
  LET n == node[t] IN
  /\ at[t] = "locked" /\ n \in nnOutput /\ IsStale(n)
  /\ rootIsCurrent' = TRUE /\ Evaluate(n)
  /\ \E won \in SolverResults(n) :
       /\ SetSureWin(n, won)
       /\ IF won THEN AddVisit(n, 0) ELSE UNCHANGED <<visits, virtualLosses>>
  /\ UNCHANGED <<rootNode, tree, nnOutput, searchVars, shouldStopNow, numPlayoutsShared,
                 holder, threadVars>>

\* Is the move to node c one that this search must not try?
IsBanned(c) == Len(c) - 1 - Len(rootNode) < avoidMoveUntilByLoc[Last(c)]

\* The nodes that selectBestChildToDescend chooses from: the children that exist,
\* and the others that are not banned.
Candidates(n) == ChildrenOf(n) \cup {c \in Children(n) : ~IsBanned(c)}

Descend(t) ==
  LET n == node[t] IN
  /\ at[t] = "locked" /\ n \in nnOutput /\ ~IsStale(n)
  /\ \E child \in Candidates(n) :
       /\ tree' = tree \cup {child}
       /\ virtualLosses' = [virtualLosses EXCEPT ![child] = @ + numVirtualLossesPerThread]
       /\ GoTo(t, "entering", child)
  /\ Unlock(n)
  /\ UNCHANGED <<rootNode, visits, sureWin, nnVars, searchVars, shouldStopNow,
                 numPlayoutsShared, numPlayouts>>

\* "This might happen if all moves have been forbidden."
NoChild(t) ==
  LET n == node[t] IN
  /\ at[t] = "locked" /\ n \in nnOutput /\ ~IsStale(n) /\ Candidates(n) = {}
  /\ Unlock(n)
  /\ AddVisit(n, LossesOf(n))
  /\ Return(t, n)
  /\ UNCHANGED <<rootNode, tree, sureWin, nnVars, searchVars, shouldStopNow,
                 numPlayoutsShared, numPlayouts>>

\* A mistake: the node's own stats are refreshed, its visits are forgotten.
RecomputeStats(t) ==
  LET n == node[t] IN
  /\ at[t] = "returning" /\ holder[LockIdx(n)] = NoThread
  /\ virtualLosses' = [virtualLosses EXCEPT ![n] = @ - LossesOf(n)]
  /\ Return(t, n)
  /\ UNCHANGED <<rootNode, tree, visits, sureWin, nnVars, searchVars, shouldStopNow,
                 numPlayoutsShared, holder, numPlayouts>>

\* updateStatsAfterPlayout: the mutex is held while the children are read.
UpdateStats(t) ==
  LET n == node[t] IN
  /\ at[t] = "returning" /\ holder[LockIdx(n)] = NoThread
  /\ AddVisit(n, LossesOf(n))
  /\ Return(t, n)
  /\ UNCHANGED <<rootNode, tree, sureWin, nnVars, searchVars, shouldStopNow,
                 numPlayoutsShared, holder, numPlayouts>>

\* numPlayouts = numPlayoutsShared.fetch_add(1) + 1.
Count(t) ==
  /\ at[t] = "counting"
  /\ numPlayoutsShared' = numPlayoutsShared + 1
  /\ numPlayouts' = [numPlayouts EXCEPT ![t] = numPlayoutsShared + 1]
  /\ GoTo(t, "head", node[t])
  /\ UNCHANGED <<rootNode, tree, statVars, nnVars, searchVars, shouldStopNow, holder>>

--------------------------------------------------------------------------------
ThreadStep(t) ==
  \/ Start(t) \/ LoopHead(t) \/ AddDecidedValue(t) \/ WaitForLock(t) \/ Lock(t) \/ InitNode(t)
  \/ ReInit(t) \/ Descend(t) \/ NoChild(t) \/ UpdateStats(t) \/ Count(t)

Next ==
  \/ \E m \in Moves : MakeMove(m)
  \/ \E ban \in Bans : SetAvoidMoveUntilByLoc(ban)
  \/ BeginSearch \/ EndSearch \/ Stop \/ CacheChanges
  \/ \E t \in Threads : ThreadStep(t)

Spec == Init /\ [][Next]_vars

\* The threads run, and an evaluation returns (see NNEval).
FairSpec == Spec /\ WF_vars(EndSearch) /\ \A t \in Threads : WF_vars(ThreadStep(t))

--------------------------------------------------------------------------------

\* The values the variables range over.
TypeOK ==
  /\ rootNode \in Nodes /\ tree \subseteq Nodes
  /\ visits \in [Nodes -> Nat] /\ virtualLosses \in [Nodes -> Nat]
  /\ sureWin \subseteq tree /\ nnOutput \subseteq tree
  /\ rootIsCurrent \in BOOLEAN /\ cached \subseteq SureWins
  /\ searches \in 0 .. MaxSearches /\ phase \in {"idle", "searching"}
  /\ avoidMoveUntilByLoc \in [Moves -> Nat]
  /\ shouldStopNow \in BOOLEAN /\ numNonPlayoutVisits \in Nat /\ numPlayoutsShared \in Nat
  /\ holder \in [Locks -> Threads \cup {NoThread}]
  /\ at \in [Threads -> {"starting", "head", "entering", "locking", "locked", "returning", "counting",
                         "stopped"}]
  /\ node \in [Threads -> Nodes] /\ numPlayouts \in [Threads -> Nat]

\* The threads whose playout has passed n and not come back to it.
Below(n) == {t \in Threads : /\ at[t] \in {"entering", "locking", "locked", "returning"}
                             /\ IsPrefix(n, node[t])}

\* Every virtual loss belongs to a playout that is under way below its node: none
\* is left when the playouts have ended, however they met.
VirtualLossesAreReturned ==
  \A n \in tree : virtualLosses[n] =
    IF n = rootNode THEN 0 ELSE numVirtualLossesPerThread * Cardinality(Below(n))

Returning(n) == {t \in Threads : at[t] = "returning" /\ node[t] = n}

\* Below the root a node has been visited once for itself and once for each visit
\* of its children, but for the playouts that are about to be counted ("For the
\* node's own visit itself", as beginSearch has it), and a node that the solver may
\* decide no less than that.
VisitsAddUp ==
  \A n \in nnOutput \ {rootNode} :
    LET counted == visits[n] + Cardinality(Returning(n))
        expected == 1 + SumOfVisits(ChildrenOf(n)) IN
      counted >= expected /\ (n \in SureWins \/ counted = expected)

\* No search begins a playout once it has done its number, but the threads that
\* have begun one finish it.
PlayoutsAreBounded ==
  numPlayoutsShared <= IF maxPlayouts = 0 THEN 0 ELSE maxPlayouts + Cardinality(Threads) - 1

\* A thread below the root may read the root's nnOutput without the lock: nobody
\* replaces it then.
RootOutputIsStable ==
  [][\A t \in Threads : ReInit(t) =>
       \A u \in Below(rootNode) : node[u] = rootNode /\ at[u] # "returning"]_vars

\* What runWholeSearch compares with maxVisits, the visits the root had before and
\* the playouts since, is what the root has, unless the solver may win there: ReInit
\* then adds a visit, against "If this is a re-initialization of the nnOutput, we
\* don't want to add any visits or anything."
RootVisitsCountPlayouts ==
  (phase = "searching" /\ rootNode \notin SureWins) =>
    visits[rootNode] = numNonPlayoutVisits + numPlayoutsShared
                         + Cardinality({t \in Threads : at[t] = "counting"})

\* The three counts of a search agree: what nodes were visited, what their children
\* were, and what the limits of the search look at.
VisitsAreCounted ==
  TypeOK /\ VisitsAddUp /\ PlayoutsAreBounded /\ RootVisitsCountPlayouts

\* A search ends: no thread waits for a mutex forever.
SearchEnds == []<>(phase = "idle")
================================================================================
