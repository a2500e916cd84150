--------------------------------- MODULE NNEval ---------------------------------
(***************************************************************************)
(* neuralnet/nneval.cpp: search threads (Clients) ask for the evaluation   *)
(* of a position; server threads batch the requests and run the net.       *)
(*                                                                         *)
(* The requests sit in a ring of result buffers, each with MaxBatchSize    *)
(* places for pointers to the clients' NNResultBuf.  Clients fill the      *)
(* buffer at curIdx, servers take the one at oldestIdx, and both meet in   *)
(* the same buffer when no full one is waiting.  bufferMutex is held       *)
(* through each step below that touches the ring.                          *)
(***************************************************************************)
EXTENDS Integers, FiniteSets, Sequences

CONSTANTS Clients, Servers,
          Positions,           \* positions asked about; the net's output is
                               \* identified with the position it is for
          Asks,                \* the positions that each client may ask about
          MaxBatchSize, MaxConcurrentEvals, NumResultBufss,
          UseCache,            \* was the evaluator built with a cache table?
          Slots, SlotOf,       \* its entries, and the entry of a position
          NoClient, NoOutput   \* the null pointers

Idx == 0 .. NumResultBufss - 1
Rows == 0 .. MaxBatchSize - 1
Outputs == Positions \cup {NoOutput}

\* The constructor: positive sizes, and the smallest power of two that is at
\* least maxConcurrentEvals / maxBatchSize + 3 (nneval.cpp:126-141).
ASSUME NNEvalAssumption ==
  /\ IsFiniteSet(Servers) /\ Servers # {} /\ IsFiniteSet(Clients)
  /\ Cardinality(Clients) <= MaxConcurrentEvals
  /\ MaxBatchSize \in Nat \ {0} /\ MaxConcurrentEvals \in Nat \ {0}
  /\ NoClient \notin Clients /\ NoOutput \notin Positions
  /\ Asks \in [Clients -> SUBSET Positions]
  /\ SlotOf \in [Positions -> Slots] /\ UseCache \in BOOLEAN

ASSUME RingAssumption ==
  /\ NumResultBufss \in {2^k : k \in 0 .. 30}
  /\ NumResultBufss >= MaxConcurrentEvals \div MaxBatchSize + 3
  /\ NumResultBufss < 2 * (MaxConcurrentEvals \div MaxBatchSize + 3)

VARIABLES
  resultBufs,   \* m_resultBufss: the ring, pointers to clients or null
  curLen,       \* m_currentResultBufsLen
  curIdx,       \* m_currentResultBufsIdx
  oldestIdx,    \* m_oldestResultBufsIdx
  isKilled,
  startingUp,   \* numServerThreadsStartingUp
  main,         \* the owner: "down", "spawning", "up" or "killing"
  server,       \* what each server thread is doing
  held,         \* NNServerBuf::resultBufs of each server
  numRows, row, \* the size of its batch, and the row it is at
  output,       \* outputBuf: what the net returned for the batch
  client,       \* what each client is doing
  position,     \* the position it asked for last
  hasResult, result,  \* of the client's NNResultBuf
  cache,        \* NNCacheTable: the output in each entry
  overlooped    \* has evaluate ever seen its local overlooped true?

ring == <<resultBufs, curLen, curIdx, oldestIdx, overlooped>>
life == <<isKilled, startingUp, main>>
serverVars == <<server, held, numRows, row, output>>
clientVars == <<client, position, hasResult, result, cache>>
vars == <<resultBufs, curLen, curIdx, oldestIdx, overlooped, isKilled,
          startingUp, main, server, held, numRows, row, output, client,
          position, hasResult, result, cache>>

EmptyBuf == [r \in Rows |-> NoClient]

Init ==
  /\ resultBufs = [i \in Idx |-> EmptyBuf]
  /\ curLen = 0 /\ curIdx = 0 /\ oldestIdx = 0 /\ overlooped = FALSE
  /\ isKilled = FALSE /\ startingUp = 0 /\ main = "down"
  /\ server = [s \in Servers |-> "off"]
  /\ held = [s \in Servers |-> EmptyBuf]
  /\ numRows = [s \in Servers |-> 0]
  /\ row = [s \in Servers |-> 0]
  /\ output = [s \in Servers |-> [r \in Rows |-> NoOutput]]
  /\ client = [c \in Clients |-> "idle"]
  /\ position \in [Clients -> Positions]
  /\ hasResult = [c \in Clients |-> FALSE]
  /\ result = [c \in Clients |-> NoOutput]
  /\ cache = [e \in Slots |-> NoOutput]

\* A mistake: a ring with just enough buffers for all requests, and none to spare.
NextIdxOfTightRing(i) == (i + 1) % (MaxConcurrentEvals \div MaxBatchSize)

\* (i + 1) & numResultBufssMask, the mask of a power of two.
NextIdx(i) == (i + 1) % NumResultBufss

--------------------------------------------------------------------------------
\* The owner of the evaluator.

\* spawnServerThreads, up to its wait.
Spawn ==
  /\ main = "down"
  /\ main' = "spawning"
  /\ startingUp' = Cardinality(Servers)
  /\ server' = [s \in Servers |-> "starting"]
  /\ held' = [s \in Servers |-> EmptyBuf]
  /\ UNCHANGED <<ring, isKilled, numRows, row, output, clientVars>>

SpawnReturns ==
  /\ main = "spawning" /\ startingUp <= 0
  /\ main' = "up"
  /\ UNCHANGED <<ring, isKilled, startingUp, serverVars, clientVars>>

\* A mistake: no server is woken.
ServersAreNotWoken == UNCHANGED server

\* serverWaitingForBatchStart.notify_all().
NotifyAllServers ==
  server' = [s \in Servers |-> IF server[s] = "asleep" THEN "loop" ELSE server[s]]

\* killServerThreads up to the joins; callers stop their search threads first.
Kill ==
  /\ main = "up" /\ \A c \in Clients : client[c] = "idle"
  /\ main' = "killing" /\ isKilled' = TRUE
  /\ NotifyAllServers
  /\ UNCHANGED <<ring, startingUp, held, numRows, row, output, clientVars>>

KillReturns ==
  /\ main = "killing" /\ \A s \in Servers : server[s] = "off"
  /\ main' = "down" /\ isKilled' = FALSE
  /\ UNCHANGED <<ring, startingUp, serverVars, clientVars>>

--------------------------------------------------------------------------------
\* serve, by a server thread.

\* Lines 365-370.
Started(s) ==
  /\ server[s] = "starting"
  /\ server' = [server EXCEPT ![s] = "loop"]
  /\ startingUp' = startingUp - 1
  /\ UNCHANGED <<ring, isKilled, main, held, numRows, row, output, clientVars>>

NothingToServe == curLen <= 0 /\ curIdx = oldestIdx

ServerSleeps(s) ==
  /\ server[s] = "loop" /\ NothingToServe /\ ~isKilled
  /\ server' = [server EXCEPT ![s] = "asleep"]
  /\ UNCHANGED <<ring, life, held, numRows, row, output, clientVars>>

ServerExits(s) ==
  /\ server[s] = "loop" /\ isKilled
  /\ server' = [server EXCEPT ![s] = "off"]
  /\ UNCHANGED <<ring, life, held, numRows, row, output, clientVars>>

\* A mistake: every batch is taken for a full one.
RowsOfFullBuf == MaxBatchSize

\* The oldest buffer is full unless it is the one that clients still fill.
RowsToTake == IF curIdx = oldestIdx THEN curLen ELSE MaxBatchSize

\* Lines 383-400: swap the oldest buffer with the server's own, and move the
\* clients on when they were still filling it.
Grab(s) ==
  /\ server[s] = "loop" /\ ~NothingToServe /\ ~isKilled
  /\ server' = [server EXCEPT ![s] = "grabbed"]
  /\ resultBufs' = [resultBufs EXCEPT ![oldestIdx] = held[s]]
  /\ held' = [held EXCEPT ![s] = resultBufs[oldestIdx]]
  /\ oldestIdx' = NextIdx(oldestIdx)
  /\ numRows' = [numRows EXCEPT ![s] = RowsToTake]
  /\ IF curIdx = oldestIdx THEN curIdx' = NextIdx(oldestIdx) /\ curLen' = 0
                           ELSE UNCHANGED <<curIdx, curLen>>
  /\ row' = [row EXCEPT ![s] = 0]
  /\ UNCHANGED <<overlooped, life, output, clientVars>>

\* getOutput reads the clients' inputs through the pointers of the batch.
Infer(s) ==
  /\ server[s] = "grabbed"
  /\ server' = [server EXCEPT ![s] = "inferred"]
  /\ output' = [output EXCEPT ![s] =
       [r \in Rows |-> IF r < numRows[s] /\ held[s][r] # NoClient
                         THEN position[held[s][r]] ELSE NoOutput]]
  /\ UNCHANGED <<ring, life, held, numRows, row, clientVars>>

\* Lines 482-493, one row: under the client's resultMutex, set and notify.
Deliver(s) ==
  LET c == held[s][row[s]] IN
  /\ server[s] = "inferred" /\ row[s] < numRows[s]
  /\ c # NoClient
  /\ held' = [held EXCEPT ![s][row[s]] = NoClient]
  /\ result' = [result EXCEPT ![c] = output[s][row[s]]]
  /\ hasResult' = [hasResult EXCEPT ![c] = TRUE]
  /\ client' = [client EXCEPT ![c] = IF @ = "asleep" THEN "waiting" ELSE @]
  /\ row' = [row EXCEPT ![s] = @ + 1]
  /\ UNCHANGED <<ring, life, server, numRows, output, position, cache>>

\* The end of the loop body, and of its locals.
BatchDone(s) ==
  /\ server[s] = "inferred" /\ row[s] = numRows[s]
  /\ server' = [server EXCEPT ![s] = "loop"]
  /\ numRows' = [numRows EXCEPT ![s] = 0]
  /\ row' = [row EXCEPT ![s] = 0]
  /\ output' = [output EXCEPT ![s] = [r \in Rows |-> NoOutput]]
  /\ UNCHANGED <<ring, life, held, clientVars>>

\* A condition variable may return without a notification.
SpuriousWakeup(s) ==
  /\ server[s] = "asleep"
  /\ server' = [server EXCEPT ![s] = "loop"]
  /\ UNCHANGED <<ring, life, held, numRows, row, output, clientVars>>

--------------------------------------------------------------------------------
\* evaluate and isInCacheTable, by a search thread.

\* serverWaitingForBatchStart.notify_one().
NotifyOneServer ==
  \/ \E s \in Servers : /\ server[s] = "asleep"
                        /\ server' = [server EXCEPT ![s] = "loop"]
  \/ (\A s \in Servers : server[s] # "asleep") /\ UNCHANGED server

\* A mistake: a buffer is left one request too late.
IsOverfull(len) == len > MaxBatchSize

IsFullAt(len) == len >= MaxBatchSize

\* evaluate up to line 588.  Everything before bufferMutex is taken touches the
\* caller's own NNResultBuf only.
Submit(c, p) ==
  LET len == curLen + 1 IN
  /\ client[c] = "idle" /\ main = "up" /\ ~isKilled
  /\ client' = [client EXCEPT ![c] = "waiting"]
  /\ position' = [position EXCEPT ![c] = p]
  /\ hasResult' = [hasResult EXCEPT ![c] = FALSE]
  /\ resultBufs' = [resultBufs EXCEPT ![curIdx][curLen] = c]
  /\ IF len = 1 /\ curIdx = oldestIdx THEN NotifyOneServer ELSE UNCHANGED server
  /\ IF IsFullAt(len)
     THEN /\ curLen' = 0
          /\ curIdx' = NextIdx(curIdx)
          /\ overlooped' = (overlooped \/ NextIdx(curIdx) = oldestIdx)
     ELSE /\ curLen' = len
          /\ UNCHANGED <<curIdx, overlooped>>
  /\ UNCHANGED <<oldestIdx, life, held, numRows, row, output, result, cache>>

ClientSleeps(c) ==
  /\ client[c] = "waiting" /\ ~hasResult[c]
  /\ client' = [client EXCEPT ![c] = "asleep"]
  /\ UNCHANGED <<ring, life, serverVars, position, hasResult, result, cache>>

\* The rest of evaluate: the output, postprocessed in place, goes to the cache
\* under its hash.
EvaluateReturns(c) ==
  /\ client[c] = "waiting" /\ hasResult[c]
  /\ client' = [client EXCEPT ![c] = "idle"]
  /\ cache' = IF UseCache THEN [cache EXCEPT ![SlotOf[position[c]]] = result[c]]
                          ELSE cache
  /\ UNCHANGED <<ring, life, serverVars, position, hasResult, result>>

\* A mistake: the hash of the entry is not compared.
SlotIsTaken(p) == cache[SlotOf[p]] # NoOutput

\* NNCacheTable::get compares the hash of the entry.
Hit(p) == cache[SlotOf[p]] = p

\* isInCacheTable with NNCacheTable::get: a miss drops the buffer's old result.
Lookup(c, p) ==
  /\ UseCache /\ client[c] = "idle"
  /\ position' = [position EXCEPT ![c] = p]
  /\ result' = [result EXCEPT ![c] = IF Hit(p) THEN cache[SlotOf[p]] ELSE NoOutput]
  /\ hasResult' = [hasResult EXCEPT ![c] = @ \/ Hit(p)]
  /\ UNCHANGED <<ring, life, serverVars, client, cache>>

\* NNCacheTable::clear locks and empties one entry after the other.
ClearEntry(e) ==
  /\ UseCache
  /\ cache' = [cache EXCEPT ![e] = NoOutput]
  /\ UNCHANGED <<ring, life, serverVars, client, position, hasResult, result>>

--------------------------------------------------------------------------------
ServerStep(s) == \/ Started(s) \/ ServerSleeps(s) \/ ServerExits(s) \/ Grab(s)
                 \/ Infer(s) \/ Deliver(s) \/ BatchDone(s)

ClientWaits(c) == ClientSleeps(c) \/ EvaluateReturns(c)

Next ==
  \/ Spawn \/ SpawnReturns \/ Kill \/ KillReturns
  \/ \E s \in Servers : ServerStep(s) \/ SpuriousWakeup(s)
  \/ \E c \in Clients : ClientWaits(c) \/ \E p \in Asks[c] : Submit(c, p) \/ Lookup(c, p)
  \/ \E e \in Slots : ClearEntry(e)

Spec == Init /\ [][Next]_vars

\* Threads that are not asleep run: servers, a client inside evaluate, and the
\* owner inside spawnServerThreads or killServerThreads.  Requests, kills and
\* spurious wakeups need not happen.
Fairness == /\ \A s \in Servers : WF_vars(ServerStep(s))
            /\ \A c \in Clients : WF_vars(ClientWaits(c))
            /\ WF_vars(SpawnReturns) /\ WF_vars(KillReturns)

FairSpec == Spec /\ Fairness

--------------------------------------------------------------------------------

\* The values the variables range over.
TypeOK ==
  /\ resultBufs \in [Idx -> [Rows -> Clients \cup {NoClient}]]
  /\ curLen \in Rows /\ curIdx \in Idx /\ oldestIdx \in Idx
  /\ overlooped \in BOOLEAN /\ isKilled \in BOOLEAN
  /\ startingUp \in Int
  /\ main \in {"down", "spawning", "up", "killing"}
  /\ server \in [Servers -> {"off", "starting", "loop", "asleep", "grabbed", "inferred"}]
  /\ held \in [Servers -> [Rows -> Clients \cup {NoClient}]]
  /\ numRows \in [Servers -> 0 .. MaxBatchSize]
  /\ row \in [Servers -> 0 .. MaxBatchSize]
  /\ output \in [Servers -> [Rows -> Outputs]]
  /\ client \in [Clients -> {"idle", "waiting", "asleep"}]
  /\ position \in [Clients -> Positions]
  /\ hasResult \in [Clients -> BOOLEAN]
  /\ result \in [Clients -> Outputs]
  /\ cache \in [Slots -> Outputs]

\* assert(!overlooped), nneval.cpp:590-592: as long as no more than
\* maxConcurrentEvals threads evaluate, the clients' end of the ring never
\* catches up with the servers' end.
NoOverloop == ~overlooped

\* The rows a server took and has not delivered.
InHand(s) == {r \in Rows : /\ server[s] \in {"grabbed", "inferred"}
                           /\ row[s] <= r /\ r < numRows[s]}

\* The buffers that clients have filled and left, from the oldest on.
FullBufs == IF oldestIdx <= curIdx
              THEN oldestIdx .. (curIdx - 1)
              ELSE (oldestIdx .. (NumResultBufss - 1)) \cup (0 .. (curIdx - 1))

\* assert(buf.resultBufs[row] != NULL) and assert(resultBuf->hasResult == false),
\* nneval.cpp:459, 483 and 488: every row a server still has to deliver points
\* to a client that waits and has no result.
RowsAreWaiting ==
  \A s \in Servers : \A r \in InHand(s) :
    held[s][r] \in {c \in Clients : client[c] # "idle" /\ ~hasResult[c]}

\* The one notify_one, on the first row of an empty ring (line 579), is enough:
\* while something is to be served, not every server sleeps, and no client
\* sleeps on a result it already has.
NoLostWakeup ==
  /\ (main = "up" /\ ~NothingToServe) => \E s \in Servers : server[s] # "asleep"
  /\ \A c \in Clients : client[c] = "asleep" => ~hasResult[c]

\* The output a client holds is the one for the position it asked about last,
\* although outputs travel through batches, reused buffers and a cache in which
\* positions share entries.
OutputIsForPosition ==
  \A c \in Clients :
    (client[c] = "idle" /\ hasResult[c]) => result[c] \in {position[c], NoOutput}

\* Every evaluation returns, whatever the other clients do, and so do
\* spawnServerThreads and killServerThreads: no server sleeps through the
\* notification of a request or of a kill.
CallsReturn ==
  /\ \A c \in Clients : []<>(client[c] = "idle")
  /\ []<>(main \in {"up", "down"})

--------------------------------------------------------------------------------
\* The ring, read from the oldest buffer on, is a queue of requests.

PendingLen == Cardinality(FullBufs) * MaxBatchSize + curLen

PendingRows ==
  [i \in 1 .. PendingLen |->
    resultBufs[(oldestIdx + (i - 1) \div MaxBatchSize) % NumResultBufss]
              [(i - 1) % MaxBatchSize]]

UndeliveredRows(s) ==
  [i \in 1 .. Cardinality(InHand(s)) |-> held[s][row[s] + i - 1]]

BQ == INSTANCE BatchQueue WITH
        pending <- PendingRows,
        inHand <- [s \in Servers |-> UndeliveredRows(s)],
        answered <- {c \in Clients : hasResult[c]}

ImplementsBatchQueue == BQ!Spec
================================================================================
