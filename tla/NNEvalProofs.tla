------------------------------ MODULE NNEvalProofs ------------------------------
(***************************************************************************)
(* Theorems about NNEval, for every number of clients and servers, every   *)
(* batch size and every admissible ring.                                   *)
(***************************************************************************)
EXTENDS NNEval, FiniteSetTheorems, SequenceTheorems, TLAPS

\* The ring, cell by cell: buffer i was filled and left by the clients, and
\* row r of buffer i holds a request.
IsFull(i) == IF oldestIdx <= curIdx THEN oldestIdx <= i /\ i < curIdx
                                    ELSE oldestIdx <= i \/ i < curIdx
IsLive(i, r) == IsFull(i) \/ (i = curIdx /\ r < curLen)

Waiting == {c \in Clients : client[c] # "idle" /\ ~hasResult[c]}

\* Exactly the live cells point to a client, and each of these waits.
RingInv == \A i \in Idx, r \in Rows :
  IF IsLive(i, r) THEN resultBufs[i][r] \in Waiting ELSE resultBufs[i][r] = NoClient

\* Exactly the undelivered rows of a server point to a client, and it waits.
HeldInv == \A s \in Servers, r \in Rows :
  IF r \in InHand(s) THEN held[s][r] \in Waiting ELSE held[s][r] = NoClient

\* No client is pointed to from two places.
RingDistinct == \A i, j \in Idx, r, q \in Rows :
  resultBufs[i][r] = resultBufs[j][q] /\ resultBufs[i][r] # NoClient => i = j /\ r = q
HeldDistinct == \A s, t \in Servers, r, q \in Rows :
  held[s][r] = held[t][q] /\ held[s][r] # NoClient => s = t /\ r = q
Disjoint == \A i \in Idx, s \in Servers, r, q \in Rows :
  resultBufs[i][r] = held[s][q] => resultBufs[i][r] = NoClient

\* Every waiting client is pointed to.
Placed == \A c \in Waiting :
  \/ \E i \in Idx, r \in Rows : resultBufs[i][r] = c
  \/ \E s \in Servers, r \in Rows : held[s][r] = c

\* Without servers, nothing is in their hands.
Lifecycle ==
  /\ main = "down" => \A s \in Servers : server[s] = "off"
  /\ \A s \in Servers : row[s] <= numRows[s]

IInv == /\ TypeOK /\ NoOverloop /\ Lifecycle
        /\ RingInv /\ HeldInv
        /\ RingDistinct /\ HeldDistinct /\ Disjoint /\ Placed

--------------------------------------------------------------------------------
\* Arithmetic of the ring.

\* The constructor's sizes are positive integers.
LEMMA Sizes ==
  /\ NumResultBufss \in Nat /\ NumResultBufss >= 3
  /\ MaxBatchSize \in Nat /\ MaxBatchSize >= 1 /\ MaxConcurrentEvals \in Nat
  /\ 0 \in Idx /\ 0 \in Rows
<1>1. MaxBatchSize \in Nat /\ MaxBatchSize >= 1 /\ MaxConcurrentEvals \in Nat
  BY NNEvalAssumption
<1>2. MaxConcurrentEvals \div MaxBatchSize \in Nat
  BY <1>1
<1>3. \A k \in 0 .. 30 : 2^k \in Int
  OBVIOUS
<1>4. NumResultBufss \in Int
  BY <1>3, RingAssumption
<1> QED
  BY <1>1, <1>2, <1>4, RingAssumption DEF Idx, Rows

\* The mask wraps the last index to the first.
LEMMA NextIdxIs ==
  ASSUME NEW i \in Idx
  PROVE  /\ NextIdx(i) \in Idx
         /\ NextIdx(i) = IF i = NumResultBufss - 1 THEN 0 ELSE i + 1
BY Sizes DEF NextIdx, Idx

\* The ring has more places than there are clients.
LEMMA RingIsLargeEnough == MaxConcurrentEvals < NumResultBufss * MaxBatchSize
<1> DEFINE q == MaxConcurrentEvals \div MaxBatchSize
<1>1. q \in Nat /\ MaxConcurrentEvals < (q + 1) * MaxBatchSize
  BY Sizes
<1>2. NumResultBufss >= q + 1
  BY <1>1, Sizes, RingAssumption
<1> HIDE DEF q
<1>3. (q + 1) * MaxBatchSize <= NumResultBufss * MaxBatchSize
  BY <1>1, <1>2, Sizes
<1> QED
  BY <1>1, <1>3, Sizes

\* Every place of the ring cannot point to a client of its own.
LEMMA NotAllDistinct ==
  ASSUME NEW b \in [Idx \X Rows -> Clients]
  PROVE  \E x, y \in Idx \X Rows : x # y /\ b[x] = b[y]
<1>1. IsFiniteSet(Idx) /\ Cardinality(Idx) = NumResultBufss
  <2>1. Cardinality(Idx) = IF 0 > NumResultBufss - 1 THEN 0
                                                     ELSE NumResultBufss - 1 - 0 + 1
    BY Sizes, FS_Interval DEF Idx
  <2> QED
    BY <2>1, Sizes, FS_Interval DEF Idx
<1>2. IsFiniteSet(Rows) /\ Cardinality(Rows) = MaxBatchSize
  <2>1. Cardinality(Rows) = IF 0 > MaxBatchSize - 1 THEN 0 ELSE MaxBatchSize - 1 - 0 + 1
    BY Sizes, FS_Interval DEF Rows
  <2> QED
    BY <2>1, Sizes, FS_Interval DEF Rows
<1>3. IsFiniteSet(Idx \X Rows) /\ Cardinality(Idx \X Rows) = NumResultBufss * MaxBatchSize
  BY <1>1, <1>2, FS_Product
<1>4. Cardinality(Clients) \in Nat /\ Cardinality(Clients) <= MaxConcurrentEvals
  BY NNEvalAssumption, FS_CardinalityType
<1>5. NumResultBufss * MaxBatchSize \in Int
  BY Sizes
<1>6. Cardinality(Clients) < Cardinality(Idx \X Rows)
  BY <1>3, <1>4, <1>5, RingIsLargeEnough, Sizes
<1> QED
  BY <1>3, <1>6, NNEvalAssumption, FS_PigeonHole

--------------------------------------------------------------------------------

\* The initial state satisfies the invariant.
LEMMA InitInv == Init => IInv
<1> SUFFICES ASSUME Init PROVE IInv
  OBVIOUS
<1> USE DEF Init, EmptyBuf
<1>1. TypeOK
  <2>1. resultBufs \in [Idx -> [Rows -> Clients \cup {NoClient}]]
        /\ held \in [Servers -> [Rows -> Clients \cup {NoClient}]]
    OBVIOUS
  <2>2. curLen \in Rows /\ curIdx \in Idx /\ oldestIdx \in Idx /\ startingUp \in Int
    BY Sizes
  <2>3. numRows \in [Servers -> 0 .. MaxBatchSize] /\ row \in [Servers -> 0 .. MaxBatchSize]
    BY Sizes
  <2>4. output \in [Servers -> [Rows -> Outputs]] /\ result \in [Clients -> Outputs]
        /\ cache \in [Slots -> Outputs]
    BY DEF Outputs
  <2> QED
    BY <2>1, <2>2, <2>3, <2>4 DEF TypeOK
<1>2. ~\E i \in Idx, r \in Rows : IsLive(i, r)
  BY Sizes DEF IsLive, IsFull, Idx, Rows
<1>3. RingInv /\ HeldInv
  BY <1>2 DEF RingInv, HeldInv, InHand
<1>4. Lifecycle /\ NoOverloop
  BY DEF Lifecycle, NoOverloop
<1>5. RingDistinct /\ HeldDistinct /\ Disjoint /\ Placed
  BY NNEvalAssumption DEF RingDistinct, HeldDistinct, Disjoint, Placed, Waiting
<1> QED
  BY <1>1, <1>3, <1>4, <1>5 DEF IInv

\* A step that leaves the ring, the rows in hand and the set of waiting clients
\* alone, and keeps the types and the life cycle, preserves the invariant.
LEMMA FrameInv ==
  ASSUME IInv, TypeOK', Lifecycle', UNCHANGED <<ring, held>>,
         \A s \in Servers : InHand(s)' = InHand(s), Waiting' = Waiting
  PROVE  IInv'
<1>1. RingInv'
  BY DEF IInv, RingInv, IsLive, IsFull, ring
<1>2. HeldInv'
  BY DEF IInv, HeldInv
<1>3. NoOverloop' /\ RingDistinct' /\ HeldDistinct' /\ Disjoint' /\ Placed'
  BY DEF IInv, NoOverloop, RingDistinct, HeldDistinct, Disjoint, Placed, ring
<1> QED
  BY <1>1, <1>2, <1>3 DEF IInv

\* The steps of the owner.
LEMMA OwnerInv ==
  ASSUME IInv, Spawn \/ SpawnReturns \/ Kill \/ KillReturns
  PROVE  IInv'
<1> USE DEF ring, life, serverVars, clientVars
<1>1. CASE Spawn
  <2>1. \A s \in Servers : server[s] = "off"
    BY <1>1 DEF IInv, Lifecycle, Spawn
  <2>2. \A s \in Servers, r \in Rows : held[s][r] = NoClient
    BY <2>1 DEF IInv, HeldInv, InHand
  <2>3. held' = held
    BY <1>1, <2>2 DEF Spawn, EmptyBuf, IInv, TypeOK
  <2>4. Cardinality(Servers) \in Int
    BY NNEvalAssumption, FS_CardinalityType
  <2>5. TypeOK'
    BY <1>1, <2>3, <2>4 DEF IInv, TypeOK, Spawn
  <2>6. Lifecycle' /\ Waiting' = Waiting
    BY <1>1 DEF IInv, Lifecycle, Spawn, Waiting
  <2>7. \A s \in Servers : InHand(s)' = InHand(s)
    BY <1>1, <2>1 DEF InHand, Spawn
  <2> QED
    BY <1>1, <2>3, <2>5, <2>6, <2>7, FrameInv DEF Spawn
<1>2. CASE SpawnReturns
  <2>1. TypeOK' /\ Lifecycle' /\ Waiting' = Waiting
    BY <1>2 DEF IInv, TypeOK, Lifecycle, SpawnReturns, Waiting
  <2>2. \A s \in Servers : InHand(s)' = InHand(s)
    BY <1>2 DEF InHand, SpawnReturns
  <2> QED
    BY <1>2, <2>1, <2>2, FrameInv DEF SpawnReturns
<1>3. CASE Kill
  <2>1. TypeOK'
    BY <1>3 DEF IInv, TypeOK, Kill, NotifyAllServers
  <2>2. Lifecycle' /\ Waiting' = Waiting
    BY <1>3 DEF IInv, Lifecycle, Kill, NotifyAllServers, Waiting
  <2>3. \A s \in Servers : InHand(s)' = InHand(s)
    BY <1>3 DEF InHand, Kill, NotifyAllServers
  <2> QED
    BY <1>3, <2>1, <2>2, <2>3, FrameInv DEF Kill
<1>4. CASE KillReturns
  <2>1. TypeOK' /\ Lifecycle' /\ Waiting' = Waiting
    BY <1>4 DEF IInv, TypeOK, Lifecycle, KillReturns, Waiting
  <2>2. \A s \in Servers : InHand(s)' = InHand(s)
    BY <1>4 DEF InHand, KillReturns
  <2> QED
    BY <1>4, <2>1, <2>2, FrameInv DEF KillReturns
<1> QED
  BY <1>1, <1>2, <1>3, <1>4

\* The steps of a server that move no request.
LEMMA ServerFrameInv ==
  ASSUME IInv, NEW s \in Servers,
         \/ Started(s) \/ ServerSleeps(s) \/ ServerExits(s) \/ Infer(s)
         \/ BatchDone(s) \/ SpuriousWakeup(s)
  PROVE  IInv'
<1> USE DEF ring, life, clientVars
<1>1. UNCHANGED <<ring, held>> /\ Waiting' = Waiting
  BY DEF Started, ServerSleeps, ServerExits, Infer, BatchDone, SpuriousWakeup, Waiting
<1>2. TypeOK'
  <2>1. CASE Infer(s)
    <3>1. \A r \in Rows : held[s][r] # NoClient => position[held[s][r]] \in Positions
      BY DEF IInv, TypeOK
    <3>2. output' \in [Servers -> [Rows -> Outputs]]
      BY <2>1, <3>1 DEF Infer, Outputs, IInv, TypeOK
    <3> QED
      BY <2>1, <3>2 DEF Infer, IInv, TypeOK
  <2>2. CASE BatchDone(s)
    <3>1. output' \in [Servers -> [Rows -> Outputs]]
      BY <2>2 DEF BatchDone, Outputs, IInv, TypeOK
    <3> QED
      BY <2>2, <3>1, Sizes DEF BatchDone, IInv, TypeOK
  <2>3. CASE Started(s) \/ ServerSleeps(s) \/ ServerExits(s) \/ SpuriousWakeup(s)
    BY <2>3, SMTT(30) DEF IInv, TypeOK, Started, ServerSleeps, ServerExits, SpuriousWakeup
  <2> QED
    BY <2>1, <2>2, <2>3
<1>3. Lifecycle'
  <2>1. main # "down" /\ main' = main
    BY DEF IInv, Lifecycle, Started, ServerSleeps, ServerExits, Infer, BatchDone,
           SpuriousWakeup
  <2>2. ASSUME NEW t \in Servers PROVE row'[t] <= numRows'[t]
    <3>1. CASE BatchDone(s)
      BY <3>1 DEF IInv, TypeOK, Lifecycle, BatchDone
    <3>2. CASE ~BatchDone(s)
      <4>1. row' = row /\ numRows' = numRows
        BY <3>2 DEF Started, ServerSleeps, ServerExits, Infer, SpuriousWakeup
      <4> QED
        BY <4>1 DEF IInv, Lifecycle
    <3> QED
      BY <3>1, <3>2
  <2> QED
    BY <2>1, <2>2 DEF Lifecycle
<1>4. ASSUME NEW t \in Servers PROVE InHand(t)' = InHand(t)
  <2>1. CASE BatchDone(s) /\ t = s
    <3>1. row[s] = numRows[s] /\ row'[s] = 0 /\ numRows'[s] = 0
          /\ row[s] \in Int /\ numRows[s] \in Int
      BY <2>1 DEF BatchDone, IInv, TypeOK
    <3>2. InHand(s) = {} /\ InHand(s)' = {}
      BY <3>1, Sizes DEF InHand, Rows
    <3> QED
      BY <2>1, <3>2
  <2>2. CASE BatchDone(s) /\ t # s
    BY <2>2 DEF BatchDone, InHand, IInv, TypeOK
  <2>3. CASE Infer(s)
    BY <2>3 DEF Infer, InHand, IInv, TypeOK
  <2>4. CASE Started(s) \/ ServerSleeps(s) \/ ServerExits(s) \/ SpuriousWakeup(s)
    BY <2>4 DEF Started, ServerSleeps, ServerExits, SpuriousWakeup, InHand, IInv, TypeOK
  <2> QED
    BY <2>1, <2>2, <2>3, <2>4
<1> QED
  BY <1>1, <1>2, <1>3, <1>4, FrameInv

\* The steps of a client that move no request, and the clearing of the cache.
LEMMA ClientFrameInv ==
  ASSUME IInv,
         \/ \E c \in Clients : \/ ClientSleeps(c) \/ EvaluateReturns(c)
                               \/ \E p \in Positions : Lookup(c, p)
         \/ \E e \in Slots : ClearEntry(e)
  PROVE  IInv'
<1> USE DEF ring, life, serverVars
<1>1. UNCHANGED <<ring, held, main, server, row, numRows>>
  BY DEF ClientSleeps, EvaluateReturns, Lookup, ClearEntry
<1>2. Lifecycle' /\ \A s \in Servers : InHand(s)' = InHand(s)
  BY <1>1 DEF IInv, Lifecycle, InHand
<1>3. ASSUME NEW c \in Clients, ClientSleeps(c)
      PROVE  TypeOK' /\ Waiting' = Waiting
  BY <1>3 DEF IInv, TypeOK, ClientSleeps, Waiting
<1>4. ASSUME NEW c \in Clients, EvaluateReturns(c)
      PROVE  TypeOK' /\ Waiting' = Waiting
  <2>1. SlotOf[position[c]] \in Slots /\ result[c] \in Outputs
    BY NNEvalAssumption DEF IInv, TypeOK
  <2>2. TypeOK'
    BY <1>4, <2>1 DEF IInv, TypeOK, EvaluateReturns
  <2>3. Waiting' = Waiting
    BY <1>4 DEF IInv, TypeOK, EvaluateReturns, Waiting
  <2> QED
    BY <2>2, <2>3
<1>5. ASSUME NEW c \in Clients, NEW p \in Positions, Lookup(c, p)
      PROVE  TypeOK' /\ Waiting' = Waiting
  <2>1. SlotOf[p] \in Slots
    BY NNEvalAssumption
  <2>2. result' \in [Clients -> Outputs]
    BY <1>5, <2>1 DEF IInv, TypeOK, Lookup, Hit, Outputs
  <2>3. TypeOK'
    BY <1>5, <2>2 DEF IInv, TypeOK, Lookup
  <2>4. Waiting' = Waiting
    BY <1>5 DEF IInv, TypeOK, Lookup, Waiting
  <2> QED
    BY <2>3, <2>4
<1>6. ASSUME NEW e \in Slots, ClearEntry(e)
      PROVE  TypeOK' /\ Waiting' = Waiting
  BY <1>6 DEF IInv, TypeOK, ClearEntry, Waiting, Outputs
<1> QED
  BY <1>1, <1>2, <1>3, <1>4, <1>5, <1>6, FrameInv

--------------------------------------------------------------------------------

\* A request goes to a free place, and never closes the ring.
LEMMA SubmitInv ==
  ASSUME IInv, NEW c \in Clients, NEW p \in Positions, Submit(c, p)
  PROVE  IInv'
<1> USE DEF life
<1>1. /\ c \notin Waiting
      /\ Waiting' = Waiting \cup {c}
      /\ c # NoClient
  BY NNEvalAssumption DEF Submit, Waiting, IInv, TypeOK
<1>2. /\ curIdx \in Idx /\ oldestIdx \in Idx /\ curLen \in Rows
      /\ curLen \in Int /\ curLen >= 0 /\ curLen <= MaxBatchSize - 1
  BY Sizes DEF IInv, TypeOK, Rows
<1>3. ASSUME NEW i \in Idx, NEW r \in Rows
      PROVE  resultBufs'[i][r] = IF i = curIdx /\ r = curLen THEN c ELSE resultBufs[i][r]
  BY <1>2 DEF Submit, IInv, TypeOK
<1>4. resultBufs' \in [Idx -> [Rows -> Clients \cup {NoClient}]]
  BY <1>2 DEF Submit, IInv, TypeOK
<1>5. ASSUME NEW i \in Idx, NEW r \in Rows, IsLive(i, r) \/ (i = curIdx /\ r = curLen)
      PROVE  resultBufs'[i][r] \in Waiting \cup {c}
  BY <1>3, <1>5 DEF IInv, RingInv
<1>6. ASSUME NEW i \in Idx, NEW j \in Idx, NEW r \in Rows, NEW q \in Rows,
             resultBufs'[i][r] = resultBufs'[j][q], resultBufs'[i][r] # NoClient
      PROVE  i = j /\ r = q
  <2>1. \A k \in Idx, m \in Rows : resultBufs[k][m] # c
    BY <1>1 DEF IInv, RingInv
  <2> QED
    BY <1>3, <1>6, <2>1 DEF IInv, RingDistinct
<1>7. ~(curLen + 1 >= MaxBatchSize /\ NextIdx(curIdx) = oldestIdx)
  <2> SUFFICES ASSUME curLen + 1 >= MaxBatchSize, NextIdx(curIdx) = oldestIdx
               PROVE  FALSE
    OBVIOUS
  <2>1. curLen = MaxBatchSize - 1
    BY <1>2, Sizes
  <2>2. ASSUME NEW i \in Idx, NEW r \in Rows
        PROVE  IsLive(i, r) \/ (i = curIdx /\ r = curLen)
    BY <1>2, <2>1, NextIdxIs, Sizes DEF IsLive, IsFull, Idx, Rows
  <2>3. \A i \in Idx, r \in Rows : resultBufs'[i][r] \in Clients
    BY <1>5, <2>2 DEF Waiting
  <2> DEFINE b == [x \in Idx \X Rows |-> resultBufs'[x[1]][x[2]]]
  <2>4. b \in [Idx \X Rows -> Clients]
    BY <2>3
  <2>5. PICK x, y \in Idx \X Rows : x # y /\ b[x] = b[y]
    BY <2>4, NotAllDistinct
  <2>6. /\ x[1] \in Idx /\ x[2] \in Rows /\ y[1] \in Idx /\ y[2] \in Rows
        /\ resultBufs'[x[1]][x[2]] = resultBufs'[y[1]][y[2]]
        /\ x[1] # y[1] \/ x[2] # y[2]
    BY <2>5
  <2>7. resultBufs'[x[1]][x[2]] # NoClient
    BY <2>3, <2>6, NNEvalAssumption
  <2> QED
    BY <1>6, <2>6, <2>7
<1>8. /\ curLen' \in Rows /\ curIdx' \in Idx /\ oldestIdx' = oldestIdx
      /\ overlooped' = FALSE
      /\ held' = held /\ row' = row /\ numRows' = numRows /\ main' = main
  <2>1. /\ oldestIdx' = oldestIdx /\ held' = held /\ row' = row
        /\ numRows' = numRows /\ main' = main
    BY DEF Submit
  <2>2. overlooped' = FALSE
    <3>1. ~overlooped /\ overlooped = FALSE
      BY DEF IInv, TypeOK, NoOverloop
    <3>2. CASE curLen + 1 >= MaxBatchSize
      <4>1. overlooped' = (overlooped \/ NextIdx(curIdx) = oldestIdx)
        BY <3>2 DEF Submit, IsFullAt
      <4> QED
        BY <1>7, <3>1, <3>2, <4>1, Zenon
    <3>3. CASE ~(curLen + 1 >= MaxBatchSize)
      BY <3>1, <3>3 DEF Submit, IsFullAt
    <3> QED
      BY <3>2, <3>3
  <2>3. curLen' \in Rows /\ curIdx' \in Idx
    BY <1>2, NextIdxIs, Sizes DEF Submit, IsFullAt, Rows
  <2> QED
    BY <2>1, <2>2, <2>3
<1>9. ASSUME NEW i \in Idx, NEW r \in Rows
      PROVE  IsLive(i, r)' <=> IsLive(i, r) \/ (i = curIdx /\ r = curLen)
  <2>1. CASE curLen + 1 >= MaxBatchSize
    <3>1. curLen = MaxBatchSize - 1 /\ curLen' = 0 /\ curIdx' = NextIdx(curIdx)
          /\ curIdx' # oldestIdx
      BY <1>2, <1>7, <2>1, Sizes DEF Submit, IsFullAt
    <3> QED
      BY <1>2, <1>8, <3>1, NextIdxIs, Sizes DEF IsLive, IsFull, Idx, Rows
  <2>2. CASE ~(curLen + 1 >= MaxBatchSize)
    <3>1. curLen' = curLen + 1 /\ curIdx' = curIdx
      BY <2>2 DEF Submit, IsFullAt
    <3> QED
      BY <1>2, <1>8, <3>1 DEF IsLive, IsFull, Idx, Rows
  <2> QED
    BY <2>1, <2>2
<1>10. /\ server' \in [Servers -> {"off", "starting", "loop", "asleep", "grabbed", "inferred"}]
       /\ \A s \in Servers : \/ server'[s] = server[s]
                             \/ server[s] = "asleep" /\ server'[s] = "loop"
  BY DEF Submit, NotifyOneServer, IInv, TypeOK
<1>11. TypeOK'
  BY <1>4, <1>8, <1>10 DEF Submit, IInv, TypeOK
<1>12. NoOverloop' /\ Lifecycle' /\ \A s \in Servers : InHand(s)' = InHand(s)
  BY <1>8, <1>10 DEF IInv, NoOverloop, Lifecycle, InHand, Submit
<1>13. RingInv'
  <2> SUFFICES ASSUME NEW i \in Idx, NEW r \in Rows
               PROVE  IF IsLive(i, r)' THEN resultBufs'[i][r] \in Waiting'
                                       ELSE resultBufs'[i][r] = NoClient
    BY DEF RingInv
  <2> QED
    BY <1>1, <1>3, <1>5, <1>9 DEF IInv, RingInv
<1>14. HeldInv' /\ HeldDistinct'
  BY <1>1, <1>8, <1>12 DEF IInv, HeldInv, HeldDistinct
<1>15. RingDistinct'
  BY <1>6 DEF RingDistinct
<1>16. Disjoint'
  <2>1. \A s \in Servers, r \in Rows : held[s][r] # c
    BY <1>1 DEF IInv, HeldInv
  <2> QED
    BY <1>3, <1>8, <2>1 DEF IInv, Disjoint
<1>17. Placed'
  <2>1. ~IsLive(curIdx, curLen)
    BY <1>2, Sizes DEF IsLive, IsFull, Idx
  <2>2. resultBufs[curIdx][curLen] = NoClient
    BY <1>2, <2>1 DEF IInv, RingInv
  <2>3. ASSUME NEW d \in Waiting
        PROVE  \/ \E i \in Idx, r \in Rows : resultBufs'[i][r] = d
               \/ \E s \in Servers, r \in Rows : held'[s][r] = d
    <3>1. d # NoClient
      BY NNEvalAssumption DEF Waiting
    <3>2. CASE \E s \in Servers, r \in Rows : held[s][r] = d
      BY <1>8, <3>2
    <3>3. ASSUME NEW i \in Idx, NEW r \in Rows, resultBufs[i][r] = d
          PROVE  resultBufs'[i][r] = d
      BY <1>3, <2>2, <3>1, <3>3
    <3> QED
      BY <3>2, <3>3 DEF IInv, Placed
  <2>4. resultBufs'[curIdx][curLen] = c
    BY <1>2, <1>3
  <2> QED
    BY <1>1, <1>2, <2>3, <2>4 DEF Placed
<1> QED
  BY <1>11, <1>12, <1>13, <1>14, <1>15, <1>16, <1>17 DEF IInv

\* A server takes the oldest buffer: its rows pass from the ring to the server.
LEMMA GrabInv ==
  ASSUME IInv, NEW s \in Servers, Grab(s)
  PROVE  IInv'
<1> USE DEF life, clientVars
<1> DEFINE o == oldestIdx
<1>1. /\ curIdx \in Idx /\ o \in Idx /\ curLen \in Rows
      /\ curLen \in Int /\ curLen >= 0 /\ curLen <= MaxBatchSize - 1
      /\ curIdx = o => curLen > 0
  BY Sizes DEF IInv, TypeOK, Rows, Grab, NothingToServe
<1>2. /\ oldestIdx' = NextIdx(o) /\ Waiting' = Waiting /\ main' = main
      /\ server[s] = "loop" /\ server' = [server EXCEPT ![s] = "grabbed"]
      /\ overlooped' = overlooped
      /\ row' = [row EXCEPT ![s] = 0]
  BY DEF Grab, Waiting
<1>3. \A r \in Rows : held[s][r] = NoClient
  BY <1>2 DEF IInv, HeldInv, InHand
<1>4. ASSUME NEW i \in Idx, NEW r \in Rows
      PROVE  resultBufs'[i][r] = IF i = o THEN NoClient ELSE resultBufs[i][r]
  BY <1>1, <1>3 DEF Grab, IInv, TypeOK
<1>5. ASSUME NEW t \in Servers, NEW r \in Rows
      PROVE  held'[t][r] = IF t = s THEN resultBufs[o][r] ELSE held[t][r]
  BY <1>1 DEF Grab, IInv, TypeOK
<1>6. ASSUME NEW i \in Idx, NEW r \in Rows
      PROVE  IsLive(i, r)' <=> IsLive(i, r) /\ i # o
  <2>1. CASE curIdx = o
    <3>1. curIdx' = NextIdx(o) /\ curLen' = 0
      BY <2>1 DEF Grab
    <3> QED
      BY <1>1, <1>2, <2>1, <3>1, NextIdxIs, Sizes DEF IsLive, IsFull, Idx, Rows
  <2>2. CASE curIdx # o
    <3>1. curIdx' = curIdx /\ curLen' = curLen
      BY <2>2 DEF Grab
    <3> QED
      BY <1>1, <1>2, <2>2, <3>1, NextIdxIs, Sizes DEF IsLive, IsFull, Idx, Rows
  <2> QED
    BY <2>1, <2>2
<1>7. /\ numRows' \in [Servers -> 0 .. MaxBatchSize]
      /\ \A t \in Servers : t # s => numRows'[t] = numRows[t]
      /\ numRows'[s] = IF curIdx = o THEN curLen ELSE MaxBatchSize
  <2>1. curLen \in 0 .. MaxBatchSize /\ MaxBatchSize \in 0 .. MaxBatchSize
    BY <1>1, Sizes
  <2>2. numRows' = [numRows EXCEPT ![s] = IF curIdx = o THEN curLen ELSE MaxBatchSize]
    BY DEF Grab, RowsToTake
  <2> QED
    BY <2>1, <2>2 DEF IInv, TypeOK
<1>8. ASSUME NEW r \in Rows
      PROVE  r \in InHand(s)' <=> IsLive(o, r)
  <2>1. r \in InHand(s)' <=> r < numRows'[s]
    BY <1>2, <1>7, Sizes DEF InHand, Rows, IInv, TypeOK
  <2>2. IsLive(o, r) <=> (curIdx # o \/ r < curLen)
    BY <1>1, Sizes DEF IsLive, IsFull, Idx
  <2> QED
    BY <1>7, <2>1, <2>2, Sizes DEF Rows
<1>9. ASSUME NEW t \in Servers, t # s PROVE InHand(t)' = InHand(t)
  BY <1>2, <1>7, <1>9 DEF InHand, IInv, TypeOK
<1>10. TypeOK'
  <2>1. curLen' \in Rows /\ curIdx' \in Idx /\ oldestIdx' \in Idx
    BY <1>1, NextIdxIs, Sizes DEF Grab
  <2>2. resultBufs' \in [Idx -> [Rows -> Clients \cup {NoClient}]]
        /\ held' \in [Servers -> [Rows -> Clients \cup {NoClient}]]
    BY <1>1 DEF Grab, IInv, TypeOK
  <2>3. row' \in [Servers -> 0 .. MaxBatchSize]
    BY <1>2, Sizes DEF IInv, TypeOK
  <2> QED
    BY <1>2, <1>7, <2>1, <2>2, <2>3 DEF Grab, IInv, TypeOK
<1>11. NoOverloop' /\ Lifecycle'
  <2>1. row'[s] = 0 /\ 0 <= numRows'[s]
    <3>1. row'[s] = 0
      BY <1>2 DEF IInv, TypeOK
    <3>2. numRows'[s] \in 0 .. MaxBatchSize
      BY <1>7
    <3> QED
      BY <3>1, <3>2, Sizes
  <2>2. \A t \in Servers : t # s => row'[t] = row[t]
    BY <1>2 DEF IInv, TypeOK
  <2>3. \A t \in Servers : row'[t] <= numRows'[t]
    BY <1>7, <2>1, <2>2 DEF IInv, Lifecycle
  <2>4. main' # "down"
    BY <1>2 DEF IInv, Lifecycle
  <2> QED
    BY <1>2, <2>3, <2>4 DEF IInv, NoOverloop, Lifecycle
<1>12. RingInv'
  <2> SUFFICES ASSUME NEW i \in Idx, NEW r \in Rows
               PROVE  IF IsLive(i, r)' THEN resultBufs'[i][r] \in Waiting'
                                       ELSE resultBufs'[i][r] = NoClient
    BY DEF RingInv
  <2> QED
    BY <1>2, <1>4, <1>6 DEF IInv, RingInv
<1>13. HeldInv'
  <2> SUFFICES ASSUME NEW t \in Servers, NEW r \in Rows
               PROVE  IF r \in InHand(t)' THEN held'[t][r] \in Waiting'
                                          ELSE held'[t][r] = NoClient
    BY DEF HeldInv
  <2>1. CASE t = s
    BY <1>1, <1>2, <1>5, <1>8, <2>1 DEF IInv, RingInv
  <2>2. CASE t # s
    BY <1>2, <1>5, <1>9, <2>2 DEF IInv, HeldInv
  <2> QED
    BY <2>1, <2>2
<1>14. RingDistinct'
  BY <1>4 DEF IInv, RingDistinct
<1>15. HeldDistinct'
  <2> SUFFICES ASSUME NEW t \in Servers, NEW u \in Servers, NEW r \in Rows, NEW q \in Rows,
                      held'[t][r] = held'[u][q], held'[t][r] # NoClient
               PROVE  t = u /\ r = q
    BY DEF HeldDistinct
  <2>1. /\ held'[t][r] = IF t = s THEN resultBufs[o][r] ELSE held[t][r]
        /\ held'[u][q] = IF u = s THEN resultBufs[o][q] ELSE held[u][q]
    BY <1>5
  <2>2. CASE t = s /\ u = s
    <3>1. resultBufs[o][r] = resultBufs[o][q] /\ resultBufs[o][r] # NoClient
      BY <2>1, <2>2
    <3> QED
      BY <1>1, <2>2, <3>1 DEF IInv, RingDistinct
  <2>3. CASE t # s /\ u # s
    <3>1. held[t][r] = held[u][q] /\ held[t][r] # NoClient
      BY <2>1, <2>3
    <3> QED
      BY <3>1 DEF IInv, HeldDistinct
  <2>4. CASE t = s /\ u # s
    <3>1. resultBufs[o][r] = held[u][q] /\ resultBufs[o][r] # NoClient
      BY <2>1, <2>4
    <3> QED
      BY <1>1, <3>1 DEF IInv, Disjoint
  <2>5. CASE t # s /\ u = s
    <3>1. resultBufs[o][q] = held[t][r] /\ resultBufs[o][q] # NoClient
      BY <2>1, <2>5
    <3> QED
      BY <1>1, <3>1 DEF IInv, Disjoint
  <2> QED
    BY <2>2, <2>3, <2>4, <2>5
<1>16. Disjoint'
  <2> SUFFICES ASSUME NEW i \in Idx, NEW t \in Servers, NEW r \in Rows, NEW q \in Rows,
                      resultBufs'[i][r] = held'[t][q], resultBufs'[i][r] # NoClient
               PROVE  FALSE
    BY DEF Disjoint
  <2>1. i # o /\ resultBufs[i][r] = held'[t][q] /\ resultBufs[i][r] # NoClient
    BY <1>4
  <2>2. CASE t = s
    BY <1>1, <1>5, <2>1, <2>2 DEF IInv, RingDistinct
  <2>3. CASE t # s
    BY <1>5, <2>1, <2>3 DEF IInv, Disjoint
  <2> QED
    BY <2>2, <2>3
<1>17. Placed'
  <2> SUFFICES ASSUME NEW c \in Waiting
               PROVE  \/ \E i \in Idx, r \in Rows : resultBufs'[i][r] = c
                      \/ \E t \in Servers, r \in Rows : held'[t][r] = c
    BY <1>2 DEF Placed
  <2>1. c # NoClient
    BY NNEvalAssumption DEF Waiting
  <2>2. ASSUME NEW i \in Idx, NEW r \in Rows, resultBufs[i][r] = c
        PROVE  resultBufs'[i][r] = c \/ held'[s][r] = c
    BY <1>4, <1>5, <2>2
  <2>3. ASSUME NEW t \in Servers, NEW r \in Rows, held[t][r] = c
        PROVE  held'[t][r] = c
    BY <1>3, <1>5, <2>1, <2>3
  <2> QED
    BY <2>2, <2>3 DEF IInv, Placed
<1> QED
  BY <1>10, <1>11, <1>12, <1>13, <1>14, <1>15, <1>16, <1>17 DEF IInv

\* A server answers one row: its client waits no longer and is pointed to no more.
LEMMA DeliverInv ==
  ASSUME IInv, NEW s \in Servers, Deliver(s)
  PROVE  IInv'
<1> USE DEF ring, life
<1> DEFINE k == row[s]
           c == held[s][k]
<1>1. /\ k \in Rows /\ k < numRows[s] /\ k \in InHand(s)
      /\ numRows[s] \in Int /\ numRows[s] <= MaxBatchSize /\ k \in Int
      /\ server[s] = "inferred" /\ server' = server /\ numRows' = numRows
      /\ row' = [row EXCEPT ![s] = k + 1] /\ main' = main
      /\ UNCHANGED ring
  BY Sizes DEF Deliver, InHand, Rows, IInv, TypeOK
<1>2. c \in Waiting /\ c \in Clients /\ c # NoClient
  BY <1>1, NNEvalAssumption DEF IInv, HeldInv, Waiting
<1>3. Waiting' = Waiting \ {c}
  BY <1>2 DEF Waiting, Deliver, IInv, TypeOK
<1>4. ASSUME NEW t \in Servers, NEW r \in Rows
      PROVE  held'[t][r] = IF t = s /\ r = k THEN NoClient ELSE held[t][r]
  BY <1>1 DEF Deliver, IInv, TypeOK
<1>5. ASSUME NEW t \in Servers, NEW r \in Rows, r \in InHand(t)
      PROVE  held[t][r] = c => t = s /\ r = k
  BY <1>1, <1>2, <1>5 DEF IInv, HeldDistinct
<1>6. ASSUME NEW t \in Servers
      PROVE  InHand(t)' = IF t = s THEN InHand(s) \ {k} ELSE InHand(t)
  <2>1. row'[t] = IF t = s THEN k + 1 ELSE row[t]
    BY <1>1 DEF IInv, TypeOK
  <2> QED
    BY <1>1, <2>1, Sizes DEF InHand, Rows, IInv, TypeOK
<1>7. TypeOK'
  <2>1. output[s][k] \in Outputs
    BY <1>1 DEF IInv, TypeOK
  <2>2. result' \in [Clients -> Outputs] /\ hasResult' \in [Clients -> BOOLEAN]
    BY <1>2, <2>1 DEF Deliver, IInv, TypeOK
  <2>3. client' \in [Clients -> {"idle", "waiting", "asleep"}]
    BY <1>2 DEF Deliver, IInv, TypeOK
  <2>4. held' \in [Servers -> [Rows -> Clients \cup {NoClient}]]
    BY <1>1 DEF Deliver, IInv, TypeOK
  <2>5. row' \in [Servers -> 0 .. MaxBatchSize]
    BY <1>1, Sizes DEF IInv, TypeOK
  <2> QED
    BY <1>1, <2>2, <2>3, <2>4, <2>5 DEF Deliver, IInv, TypeOK
<1>8. NoOverloop' /\ Lifecycle'
  BY <1>1 DEF IInv, TypeOK, NoOverloop, Lifecycle
<1>9. RingInv'
  <2> SUFFICES ASSUME NEW i \in Idx, NEW r \in Rows
               PROVE  IF IsLive(i, r) THEN resultBufs[i][r] \in Waiting'
                                      ELSE resultBufs[i][r] = NoClient
    BY <1>1 DEF RingInv, IsLive, IsFull
  <2>1. resultBufs[i][r] # c
    BY <1>1, <1>2 DEF IInv, Disjoint
  <2> QED
    BY <1>3, <2>1 DEF IInv, RingInv
<1>10. HeldInv'
  <2> SUFFICES ASSUME NEW t \in Servers, NEW r \in Rows
               PROVE  IF r \in InHand(t)' THEN held'[t][r] \in Waiting'
                                          ELSE held'[t][r] = NoClient
    BY DEF HeldInv
  <2> QED
    BY <1>3, <1>4, <1>5, <1>6 DEF IInv, HeldInv
<1>11. RingDistinct' /\ HeldDistinct' /\ Disjoint'
  BY <1>1, <1>4 DEF IInv, RingDistinct, HeldDistinct, Disjoint
<1>12. Placed'
  <2> SUFFICES ASSUME NEW d \in Waiting, d # c
               PROVE  \/ \E i \in Idx, r \in Rows : resultBufs'[i][r] = d
                      \/ \E t \in Servers, r \in Rows : held'[t][r] = d
    BY <1>3 DEF Placed
  <2>1. ASSUME NEW t \in Servers, NEW r \in Rows, held[t][r] = d
        PROVE  held'[t][r] = d
    BY <1>4, <2>1
  <2> QED
    BY <1>1, <2>1 DEF IInv, Placed
<1> QED
  BY <1>7, <1>8, <1>9, <1>10, <1>11, <1>12 DEF IInv

--------------------------------------------------------------------------------

\* Every step preserves the invariant.
LEMMA NextInv == IInv /\ [Next]_vars => IInv'
<1> SUFFICES ASSUME IInv, [Next]_vars PROVE IInv'
  OBVIOUS
<1>1. CASE Spawn \/ SpawnReturns \/ Kill \/ KillReturns
  BY <1>1, OwnerInv
<1>2. ASSUME NEW s \in Servers, ServerStep(s) \/ SpuriousWakeup(s) PROVE IInv'
  BY <1>2, ServerFrameInv, GrabInv, DeliverInv DEF ServerStep
<1>3. ASSUME NEW c \in Clients, NEW p \in Positions, Submit(c, p) PROVE IInv'
  BY <1>3, SubmitInv
<1>4. CASE \/ \E c \in Clients : \/ ClientSleeps(c) \/ EvaluateReturns(c)
                                 \/ \E p \in Positions : Lookup(c, p)
           \/ \E e \in Slots : ClearEntry(e)
  BY <1>4, ClientFrameInv
<1>5. CASE UNCHANGED vars
  <2>1. TypeOK' /\ Lifecycle'
    BY <1>5 DEF vars, IInv, TypeOK, Lifecycle
  <2>2. UNCHANGED <<ring, held>> /\ Waiting' = Waiting
        /\ \A s \in Servers : InHand(s)' = InHand(s)
    BY <1>5 DEF vars, ring, Waiting, InHand
  <2> QED
    BY <2>1, <2>2, FrameInv
<1>6. \A c \in Clients : Asks[c] \subseteq Positions
  BY NNEvalAssumption
<1> QED
  BY <1>1, <1>2, <1>3, <1>4, <1>5, <1>6 DEF Next, ClientWaits

\* IInv is an invariant of the evaluator.
THEOREM NNEvalInvariant == Spec => []IInv
BY InitInv, NextInv, PTL DEF Spec

\* The types are right in every reachable state.
THEOREM NNEvalTypeCorrect == Spec => []TypeOK
<1>1. IInv => TypeOK
  BY DEF IInv
<1> QED
  BY <1>1, NNEvalInvariant, PTL

\* The clients' end of the ring never catches up with the servers' end
\* (assert(!overlooped), nneval.cpp:590-592), for every number of clients up to
\* maxConcurrentEvals and every batch size.
THEOREM NNEvalNoOverloop == Spec => []NoOverloop
<1>1. IInv => NoOverloop
  BY DEF IInv
<1> QED
  BY <1>1, NNEvalInvariant, PTL

\* Every row that a server still has to deliver points to a client that waits
\* and has no result (nneval.cpp:459, 483 and 488).
THEOREM NNEvalRowsAreWaiting == Spec => []RowsAreWaiting
<1>1. IInv => RowsAreWaiting
  BY DEF IInv, HeldInv, RowsAreWaiting, Waiting, InHand
<1> QED
  BY <1>1, NNEvalInvariant, PTL
--------------------------------------------------------------------------------
\* The outputs on their way to the clients.

\* What a server will deliver is for the position of the client that it will
\* deliver it to, and what was delivered still is: a client that waits, or holds an
\* output, asks for nothing else meanwhile.
AnswerInv ==
  /\ OutputIsForPosition
  /\ \A c \in Clients : hasResult[c] => result[c] \in {position[c], NoOutput}
  /\ \A s \in Servers, r \in Rows :
       server[s] = "inferred" /\ r \in InHand(s) => output[s][r] = position[held[s][r]]

\* Steps that leave the clients' buffers alone and infer nothing.
LEMMA AnswersStay ==
  ASSUME IInv, AnswerInv, UNCHANGED <<position, hasResult, result>>,
         \A s \in Servers : server'[s] = "inferred" =>
           /\ server[s] = "inferred" /\ output'[s] = output[s] /\ held'[s] = held[s]
           /\ row'[s] = row[s] /\ numRows'[s] = numRows[s]
  PROVE  AnswerInv'
<1>1. \A c \in Clients : hasResult'[c] => result'[c] \in {position'[c], NoOutput}
  BY DEF AnswerInv
<1>2. OutputIsForPosition'
  BY <1>1 DEF OutputIsForPosition
<1>3. ASSUME NEW s \in Servers, NEW r \in Rows, server'[s] = "inferred", r \in InHand(s)'
      PROVE  output'[s][r] = position'[held'[s][r]]
  <2>1. /\ server[s] = "inferred" /\ output'[s] = output[s] /\ held'[s] = held[s]
        /\ row'[s] = row[s] /\ numRows'[s] = numRows[s]
    BY <1>3
  <2>2. r \in InHand(s)
    BY <1>3, <2>1 DEF InHand
  <2> QED
    BY <2>1, <2>2 DEF AnswerInv
<1> QED
  BY <1>1, <1>2, <1>3 DEF AnswerInv

\* A client that is not inside evaluate may ask for another position, since no
\* server has a row of it.
LEMMA AskingKeepsAnswers ==
  ASSUME IInv, AnswerInv, NEW c \in Clients, NEW p \in Positions, client[c] = "idle",
         position' = [position EXCEPT ![c] = p],
         \A d \in Clients : d # c => hasResult'[d] = hasResult[d] /\ result'[d] = result[d],
         hasResult'[c] => result'[c] \in {p, NoOutput},
         UNCHANGED <<held, numRows, row, output>>,
         \A s \in Servers : server'[s] = "inferred" => server[s] = "inferred"
  PROVE  AnswerInv'
<1>1. position \in [Clients -> Positions]
  BY DEF IInv, TypeOK
<1>2. position'[c] = p /\ \A d \in Clients : d # c => position'[d] = position[d]
  BY <1>1
<1>3. \A d \in Clients : hasResult'[d] => result'[d] \in {position'[d], NoOutput}
  BY <1>2 DEF AnswerInv
<1>4. OutputIsForPosition'
  BY <1>3 DEF OutputIsForPosition
<1>5. ASSUME NEW s \in Servers, NEW r \in Rows, server'[s] = "inferred", r \in InHand(s)'
      PROVE  output'[s][r] = position'[held'[s][r]]
  <2>1. server[s] = "inferred" /\ r \in InHand(s)
    BY <1>5 DEF InHand
  <2>2. held[s][r] \in Clients /\ held[s][r] # c
    BY <2>1 DEF IInv, HeldInv, Waiting
  <2>3. output[s][r] = position[held[s][r]]
    BY <2>1 DEF AnswerInv
  <2> QED
    BY <1>2, <2>2, <2>3
<1> QED
  BY <1>3, <1>4, <1>5 DEF AnswerInv

LEMMA ServersKeepAnswers ==
  ASSUME IInv, AnswerInv, NEW s \in Servers,
         \/ Started(s) \/ ServerSleeps(s) \/ ServerExits(s) \/ Grab(s) \/ BatchDone(s)
         \/ SpuriousWakeup(s)
  PROVE  AnswerInv'
<1>1. UNCHANGED <<position, hasResult, result>>
  BY DEF Started, ServerSleeps, ServerExits, Grab, BatchDone, SpuriousWakeup, clientVars
<1>2. PICK to \in {"loop", "asleep", "off", "grabbed"} : server' = [server EXCEPT ![s] = to]
  BY DEF Started, ServerSleeps, ServerExits, Grab, BatchDone, SpuriousWakeup
<1>3. server'[s] # "inferred" /\ \A t \in Servers : t # s => server'[t] = server[t]
  BY <1>2 DEF IInv, TypeOK
<1>4. \A t \in Servers : t # s => /\ output'[t] = output[t] /\ held'[t] = held[t]
                                  /\ row'[t] = row[t] /\ numRows'[t] = numRows[t]
  <2> USE DEF IInv, TypeOK
  <2>1. CASE Started(s) \/ ServerSleeps(s) \/ ServerExits(s) \/ SpuriousWakeup(s)
    BY <2>1 DEF Started, ServerSleeps, ServerExits, SpuriousWakeup
  <2>2. CASE Grab(s)
    BY <2>2 DEF Grab
  <2>3. CASE BatchDone(s)
    BY <2>3 DEF BatchDone
  <2> QED
    BY <2>1, <2>2, <2>3
<1> QED
  BY <1>1, <1>3, <1>4, AnswersStay

LEMMA InferKeepsAnswers ==
  ASSUME IInv, AnswerInv, NEW s \in Servers, Infer(s)
  PROVE  AnswerInv'
<1>1. /\ UNCHANGED <<position, hasResult, result, held, numRows, row>>
      /\ \A t \in Servers : t # s => server'[t] = server[t] /\ output'[t] = output[t]
      /\ server[s] = "grabbed"
      /\ output'[s] = [r \in Rows |-> IF r < numRows[s] /\ held[s][r] # NoClient
                                        THEN position[held[s][r]] ELSE NoOutput]
  BY DEF Infer, clientVars, IInv, TypeOK
<1>2. \A c \in Clients : hasResult'[c] => result'[c] \in {position'[c], NoOutput}
  BY <1>1 DEF AnswerInv
<1>3. OutputIsForPosition'
  BY <1>2 DEF OutputIsForPosition
<1>4. ASSUME NEW t \in Servers, NEW r \in Rows, server'[t] = "inferred", r \in InHand(t)'
      PROVE  output'[t][r] = position'[held'[t][r]]
  <2>1. CASE t # s
    <3>1. server[t] = "inferred" /\ r \in InHand(t)
      BY <1>1, <1>4, <2>1 DEF InHand
    <3> QED
      BY <1>1, <2>1, <3>1 DEF AnswerInv
  <2>2. CASE t = s
    <3>1. r \in InHand(s) /\ r < numRows[s]
      BY <1>1, <1>4, <2>2 DEF InHand
    <3>2. held[s][r] # NoClient
      BY <3>1, NNEvalAssumption DEF IInv, HeldInv, Waiting
    <3> QED
      BY <1>1, <2>2, <3>1, <3>2
  <2> QED
    BY <2>1, <2>2
<1> QED
  BY <1>2, <1>3, <1>4 DEF AnswerInv

LEMMA DeliverKeepsAnswers ==
  ASSUME IInv, AnswerInv, NEW s \in Servers, Deliver(s)
  PROVE  AnswerInv'
<1> PICK n \in Nat : n = row[s]
  BY DEF IInv, TypeOK
<1> PICK c : c = held[s][n]
  OBVIOUS
<1>1. /\ server[s] = "inferred" /\ n < numRows[s]
      /\ held' = [held EXCEPT ![s][n] = NoClient]
      /\ result' = [result EXCEPT ![c] = output[s][n]]
      /\ hasResult' = [hasResult EXCEPT ![c] = TRUE]
      /\ row' = [row EXCEPT ![s] = @ + 1]
      /\ UNCHANGED <<server, numRows, output, position>>
  BY DEF Deliver
<1>2. /\ held \in [Servers -> [Rows -> Clients \cup {NoClient}]] /\ row \in [Servers -> 0 .. MaxBatchSize]
      /\ numRows \in [Servers -> 0 .. MaxBatchSize]
      /\ result \in [Clients -> Outputs] /\ hasResult \in [Clients -> BOOLEAN]
  BY DEF IInv, TypeOK
<1>3. n \in Rows
  BY <1>1, <1>2, Sizes DEF Rows
<1>4. n \in InHand(s)
  BY <1>1, <1>3 DEF InHand
<1>5. c \in Clients
  BY <1>3, <1>4 DEF IInv, HeldInv, Waiting
<1>6. output[s][n] = position[c]
  BY <1>1, <1>3, <1>4 DEF AnswerInv
<1>7. \A d \in Clients : hasResult'[d] => result'[d] \in {position'[d], NoOutput}
  <2>1. result'[c] = position[c] /\ \A d \in Clients : d # c => result'[d] = result[d] /\ hasResult'[d] = hasResult[d]
    BY <1>1, <1>2, <1>5, <1>6
  <2> QED
    BY <1>1, <2>1 DEF AnswerInv
<1>8. OutputIsForPosition'
  BY <1>7 DEF OutputIsForPosition
<1>9. ASSUME NEW t \in Servers, NEW r \in Rows, server'[t] = "inferred", r \in InHand(t)'
      PROVE  output'[t][r] = position'[held'[t][r]]
  <2>1. r \in InHand(t) /\ server[t] = "inferred" /\ (t = s => r # n)
    <3>1. CASE t # s
      BY <1>1, <1>2, <1>9, <3>1 DEF InHand
    <3>2. CASE t = s
      <4>1. row'[s] = n + 1 /\ numRows'[s] = numRows[s]
        BY <1>1, <1>2
      <4>2. n + 1 <= r /\ r < numRows[s] /\ r \in Nat
        BY <1>9, <3>2, <4>1, Sizes DEF InHand, Rows
      <4>3. n <= r /\ r # n
        BY <4>2
      <4> QED
        BY <1>1, <1>9, <3>2, <4>2, <4>3 DEF InHand
    <3> QED
      BY <3>1, <3>2
  <2>2. held'[t][r] = held[t][r]
    BY <1>1, <1>2, <1>3, <2>1
  <2> QED
    BY <1>1, <2>1, <2>2 DEF AnswerInv
<1> QED
  BY <1>7, <1>8, <1>9 DEF AnswerInv

LEMMA SubmitKeepsAnswers ==
  ASSUME IInv, AnswerInv, NEW c \in Clients, NEW p \in Positions, Submit(c, p)
  PROVE  AnswerInv'
<1>1. /\ client[c] = "idle" /\ position' = [position EXCEPT ![c] = p]
      /\ hasResult' = [hasResult EXCEPT ![c] = FALSE]
      /\ UNCHANGED <<held, numRows, row, output, result>>
      /\ NotifyOneServer \/ UNCHANGED server
  BY DEF Submit
<1>2. \A s \in Servers : server'[s] = "inferred" => server[s] = "inferred"
  BY <1>1 DEF NotifyOneServer, IInv, TypeOK
<1>3. \A d \in Clients : d # c => hasResult'[d] = hasResult[d]
  BY <1>1 DEF IInv, TypeOK
<1>4. ~hasResult'[c]
  BY <1>1 DEF IInv, TypeOK
<1> QED
  BY <1>1, <1>2, <1>3, <1>4, AskingKeepsAnswers

LEMMA LookupKeepsAnswers ==
  ASSUME IInv, AnswerInv, NEW c \in Clients, NEW p \in Positions, Lookup(c, p)
  PROVE  AnswerInv'
<1>1. /\ client[c] = "idle" /\ position' = [position EXCEPT ![c] = p]
      /\ result' = [result EXCEPT ![c] = IF Hit(p) THEN cache[SlotOf[p]] ELSE NoOutput]
      /\ hasResult' = [hasResult EXCEPT ![c] = @ \/ Hit(p)]
      /\ UNCHANGED <<held, numRows, row, output, server>>
  BY DEF Lookup, serverVars
<1>2. /\ \A d \in Clients : d # c => hasResult'[d] = hasResult[d] /\ result'[d] = result[d]
      /\ result'[c] = IF Hit(p) THEN cache[SlotOf[p]] ELSE NoOutput
  BY <1>1 DEF IInv, TypeOK
<1>3. result'[c] \in {p, NoOutput}
  BY <1>2 DEF Hit
<1> QED
  BY <1>1, <1>2, <1>3, AskingKeepsAnswers

LEMMA NextKeepsAnswers == IInv /\ AnswerInv /\ [Next]_vars => AnswerInv'
<1> SUFFICES ASSUME IInv, AnswerInv, [Next]_vars PROVE AnswerInv'
  OBVIOUS
<1>1. CASE Spawn \/ SpawnReturns \/ Kill \/ KillReturns
  <2>1. UNCHANGED <<position, hasResult, result, row, numRows, output>>
    BY <1>1 DEF Spawn, SpawnReturns, Kill, KillReturns, serverVars, clientVars
  <2>2. \A s \in Servers : server'[s] = "inferred" => server[s] = "inferred" /\ held'[s] = held[s]
    BY <1>1 DEF Spawn, SpawnReturns, Kill, KillReturns, NotifyAllServers, serverVars
  <2> QED
    BY <2>1, <2>2, AnswersStay
<1>2. ASSUME NEW s \in Servers, ServerStep(s) \/ SpuriousWakeup(s) PROVE AnswerInv'
  BY <1>2, ServersKeepAnswers, InferKeepsAnswers, DeliverKeepsAnswers DEF ServerStep
<1>3. ASSUME NEW c \in Clients, NEW p \in Positions, Submit(c, p) \/ Lookup(c, p) PROVE AnswerInv'
  BY <1>3, SubmitKeepsAnswers, LookupKeepsAnswers
<1>4. CASE \/ \E c \in Clients : ClientSleeps(c) \/ EvaluateReturns(c)
           \/ \E e \in Slots : ClearEntry(e)
           \/ UNCHANGED vars
  BY <1>4, AnswersStay DEF ClientSleeps, EvaluateReturns, ClearEntry, vars, serverVars
<1>5. \A c \in Clients : Asks[c] \subseteq Positions
  BY NNEvalAssumption
<1> QED
  BY <1>1, <1>2, <1>3, <1>4, <1>5 DEF Next, ClientWaits

\* The output that a client holds is for the position it asked about last: the row
\* of a batch, the client it points to and that client's position stay together
\* until the output is delivered, and a cache entry is used for its own position
\* only.
THEOREM NNEvalOutputIsForPosition == Spec => []OutputIsForPosition
<1>1. Init => AnswerInv
  BY DEF Init, AnswerInv, OutputIsForPosition, InHand
<1>2. AnswerInv => OutputIsForPosition
  BY DEF AnswerInv
<1> QED
  BY <1>1, <1>2, NNEvalInvariant, NextKeepsAnswers, PTL DEF Spec
--------------------------------------------------------------------------------
\* Wakeups.

\* Requests are made, and not finished, only while the servers are up; that is why
\* those that are spawned find an empty ring.
WakeInv == NoLostWakeup /\ (main # "up" => \A c \in Clients : client[c] = "idle")

LEMMA NobodyAsks ==
  ASSUME IInv, \A c \in Clients : client[c] = "idle"
  PROVE  NothingToServe
<1>1. Waiting = {}
  BY DEF Waiting
<1>2. \A i \in Idx, r \in Rows : ~IsLive(i, r)
  BY <1>1 DEF IInv, RingInv
<1>3. 0 \in Rows /\ curIdx \in Idx /\ oldestIdx \in Idx /\ curLen \in Rows
  BY Sizes DEF IInv, TypeOK
<1>4. ~(0 < curLen)
  BY <1>2, <1>3 DEF IsLive
<1>5. curIdx = oldestIdx
  <2>1. ~IsFull(oldestIdx)
    BY <1>2, <1>3 DEF IsLive
  <2> QED
    BY <1>3, <2>1 DEF IsFull, Idx
<1> QED
  BY <1>3, <1>4, <1>5 DEF NothingToServe, Rows

\* Steps that put no server to sleep and bring no request.
LEMMA AwakeStays ==
  ASSUME IInv, WakeInv,
         main' = "up" => main = "up" /\ (NothingToServe => NothingToServe'),
         \A s \in Servers : server[s] # "asleep" => server'[s] # "asleep",
         main' # "up" => \A c \in Clients : client'[c] = "idle",
         \A c \in Clients : client'[c] = "asleep" => ~hasResult'[c]
  PROVE  WakeInv'
<1>1. ASSUME main' = "up", ~NothingToServe' PROVE \E s \in Servers : server'[s] # "asleep"
  <2>1. \E s \in Servers : server[s] # "asleep"
    BY <1>1 DEF WakeInv, NoLostWakeup
  <2> QED
    BY <2>1
<1> QED
  BY <1>1 DEF WakeInv, NoLostWakeup

LEMMA OwnerKeepsAwake ==
  ASSUME IInv, WakeInv, Spawn \/ SpawnReturns \/ Kill \/ KillReturns
  PROVE  WakeInv'
<1>1. UNCHANGED <<client, hasResult, curLen, curIdx, oldestIdx>>
  BY DEF Spawn, SpawnReturns, Kill, KillReturns, ring, clientVars
<1>2. \A c \in Clients : client'[c] = "asleep" => ~hasResult'[c]
  BY <1>1 DEF WakeInv, NoLostWakeup
<1>3. \A c \in Clients : client'[c] = "idle"
  BY <1>1 DEF Spawn, SpawnReturns, Kill, KillReturns, WakeInv
<1>4. NothingToServe'
  BY <1>1, <1>3, NobodyAsks DEF NothingToServe
<1> QED
  BY <1>2, <1>3, <1>4 DEF WakeInv, NoLostWakeup

LEMMA ServerKeepsAwake ==
  ASSUME IInv, WakeInv, NEW s \in Servers, ServerStep(s) \/ SpuriousWakeup(s)
  PROVE  WakeInv'
<1>1. main' = main
  BY DEF ServerStep, Started, ServerSleeps, ServerExits, Grab, Infer, Deliver, BatchDone,
         SpuriousWakeup, life
<1>2. CASE ServerSleeps(s)
  <2>1. /\ NothingToServe /\ UNCHANGED <<main, curLen, curIdx, oldestIdx, client, hasResult>>
    BY <1>2 DEF ServerSleeps, ring, life, clientVars
  <2> QED
    BY <2>1 DEF WakeInv, NoLostWakeup, NothingToServe
<1>3. CASE Started(s) \/ ServerExits(s) \/ Grab(s) \/ Infer(s) \/ BatchDone(s) \/ SpuriousWakeup(s)
  <2>1. UNCHANGED <<client, hasResult>>
    BY <1>3 DEF Started, ServerExits, Grab, Infer, BatchDone, SpuriousWakeup, clientVars
  <2>2. PICK to \in {"loop", "off", "grabbed", "inferred"} : server' = [server EXCEPT ![s] = to]
    BY <1>3 DEF Started, ServerExits, Grab, Infer, BatchDone, SpuriousWakeup
  <2>3. server'[s] # "asleep"
    BY <2>2 DEF IInv, TypeOK
  <2> QED
    BY <1>1, <2>1, <2>3 DEF WakeInv, NoLostWakeup
<1>4. CASE Deliver(s)
  <2>1. UNCHANGED <<server, curLen, curIdx, oldestIdx>>
    BY <1>4 DEF Deliver, ring
  <2>2. PICK c : /\ client' = [client EXCEPT ![c] = IF @ = "asleep" THEN "waiting" ELSE @]
                 /\ hasResult' = [hasResult EXCEPT ![c] = TRUE]
    BY <1>4 DEF Deliver
  <2>3. \A d \in Clients : /\ d # c => client'[d] = client[d] /\ hasResult'[d] = hasResult[d]
                           /\ d = c => client'[d] # "asleep"
                           /\ client[d] = "idle" => client'[d] = "idle"
    BY <2>2 DEF IInv, TypeOK
  <2>4. \A d \in Clients : client'[d] = "asleep" => ~hasResult'[d]
    BY <2>3 DEF WakeInv, NoLostWakeup
  <2> QED
    BY <1>1, <2>1, <2>3, <2>4, AwakeStays DEF NothingToServe, WakeInv
<1> QED
  BY <1>2, <1>3, <1>4 DEF ServerStep

\* The first request in an empty ring wakes a server; the others find one awake.
LEMMA SubmitKeepsAwake ==
  ASSUME IInv, WakeInv, NEW c \in Clients, NEW p \in Positions, Submit(c, p)
  PROVE  WakeInv'
<1>1. /\ main = "up" /\ main' = "up"
      /\ client' = [client EXCEPT ![c] = "waiting"]
      /\ hasResult' = [hasResult EXCEPT ![c] = FALSE]
      /\ IF curLen + 1 = 1 /\ curIdx = oldestIdx THEN NotifyOneServer ELSE UNCHANGED server
  BY DEF Submit, life
<1>2. \A d \in Clients : client'[d] = "asleep" => ~hasResult'[d]
  BY <1>1 DEF WakeInv, NoLostWakeup, IInv, TypeOK
<1>3. \E s \in Servers : server'[s] # "asleep"
  <2>1. CASE NothingToServe
    <3>1. curLen + 1 = 1 /\ curIdx = oldestIdx
      BY <2>1, Sizes DEF NothingToServe, IInv, TypeOK, Rows
    <3>2. NotifyOneServer
      BY <1>1, <3>1
    <3> QED
      BY <3>2, NNEvalAssumption DEF NotifyOneServer, IInv, TypeOK
  <2>2. CASE ~NothingToServe
    <3>1. PICK s \in Servers : server[s] # "asleep"
      BY <1>1, <2>2 DEF WakeInv, NoLostWakeup
    <3>2. server'[s] # "asleep"
      BY <1>1, <3>1 DEF NotifyOneServer, IInv, TypeOK
    <3> QED
      BY <3>2
  <2> QED
    BY <2>1, <2>2
<1> QED
  BY <1>1, <1>2, <1>3 DEF WakeInv, NoLostWakeup

LEMMA ClientKeepsAwake ==
  ASSUME IInv, WakeInv,
         \/ \E c \in Clients : \/ ClientSleeps(c) \/ EvaluateReturns(c)
                               \/ \E p \in Positions : Lookup(c, p)
         \/ \E e \in Slots : ClearEntry(e)
         \/ UNCHANGED vars
  PROVE  WakeInv'
<1>1. UNCHANGED <<main, server, curLen, curIdx, oldestIdx>>
  BY DEF ClientSleeps, EvaluateReturns, Lookup, ClearEntry, vars, ring, life, serverVars
<1>2. \A d \in Clients : /\ client'[d] = "asleep" => ~hasResult'[d]
                         /\ client[d] = "idle" => client'[d] = "idle"
  BY DEF ClientSleeps, EvaluateReturns, Lookup, ClearEntry, vars, WakeInv, NoLostWakeup, IInv, TypeOK
<1> QED
  BY <1>1, <1>2, AwakeStays DEF NothingToServe, WakeInv

LEMMA NextKeepsAwake == IInv /\ WakeInv /\ [Next]_vars => WakeInv'
<1> SUFFICES ASSUME IInv, WakeInv, [Next]_vars PROVE WakeInv'
  OBVIOUS
<1>1. \A c \in Clients : Asks[c] \subseteq Positions
  BY NNEvalAssumption
<1> QED
  BY <1>1, OwnerKeepsAwake, ServerKeepsAwake, SubmitKeepsAwake, ClientKeepsAwake
     DEF Next, ClientWaits

\* One notify_one for the first row of an empty ring, and none for the others, is
\* enough: while there is something to serve, some server is awake, and no client
\* sleeps on a result that it already has.
THEOREM NNEvalNoLostWakeup == Spec => []NoLostWakeup
<1>1. Init => WakeInv
  BY DEF Init, WakeInv, NoLostWakeup
<1>2. WakeInv => NoLostWakeup
  BY DEF WakeInv
<1> QED
  BY <1>1, <1>2, NNEvalInvariant, NextKeepsAwake, PTL DEF Spec

--------------------------------------------------------------------------------
\* The ring as a queue: the refinement of BatchQueue.

\* The place k of the ring, counted from the oldest, is row k % MaxBatchSize of buffer
\* k \div MaxBatchSize.
LEMMA PlaceSplit ==
  ASSUME NEW k \in Nat
  PROVE  /\ k \div MaxBatchSize \in Nat /\ k % MaxBatchSize \in Rows
         /\ k = (k \div MaxBatchSize) * MaxBatchSize + (k % MaxBatchSize)
<1>1. PICK b \in Nat : b = MaxBatchSize /\ b >= 1
  BY Sizes
<1>2. k % b \in 0 .. b - 1
  BY <1>1
<1>3. k \div b \in Nat
  BY <1>1
<1>4. k = (k \div b) * b + (k % b)
  BY <1>1
<1> QED
  BY <1>1, <1>2, <1>3, <1>4 DEF Rows

\* And back.
LEMMA PlaceJoin ==
  ASSUME NEW j \in Nat, NEW r \in Rows
  PROVE  /\ j * MaxBatchSize + r \in Nat
         /\ (j * MaxBatchSize + r) \div MaxBatchSize = j
         /\ (j * MaxBatchSize + r) % MaxBatchSize = r
BY Sizes DEF Rows

\* The places are in the order of their buffers, then of their rows.
LEMMA PlaceOrder ==
  ASSUME NEW j \in Nat, NEW r \in Rows, NEW f \in Nat, NEW l \in Rows
  PROVE  j * MaxBatchSize + r < f * MaxBatchSize + l <=> j < f \/ (j = f /\ r < l)
BY Sizes DEF Rows

\* MaxBatchSize places further is the same row of the next buffer.
LEMMA NextBuf ==
  ASSUME NEW k \in Nat
  PROVE  /\ (k + MaxBatchSize) \div MaxBatchSize = k \div MaxBatchSize + 1
         /\ (k + MaxBatchSize) % MaxBatchSize = k % MaxBatchSize
BY Sizes

\* Buffer j after buffer i, in the ring.
LEMMA Wrap ==
  ASSUME NEW i \in Idx, NEW j \in Idx
  PROVE  (i + j) % NumResultBufss = IF i + j < NumResultBufss THEN i + j ELSE i + j - NumResultBufss
BY Sizes DEF Idx

\* How many buffers lie from buffer o up to buffer c.
FullCount(o, c) == IF o <= c THEN c - o ELSE c - o + NumResultBufss

\* They lie inside the ring; a buffer that is filled adds one, a buffer that is taken
\* removes one.
LEMMA FullCountIs ==
  ASSUME NEW o \in Idx, NEW c \in Idx
  PROVE  /\ FullCount(o, c) \in Idx /\ FullCount(o, c) \in Nat
         /\ (o + FullCount(o, c)) % NumResultBufss = c
         /\ FullCount(o, c) = 0 <=> o = c
         /\ NextIdx(c) # o => FullCount(o, NextIdx(c)) = FullCount(o, c) + 1
         /\ o # c => FullCount(NextIdx(o), c) = FullCount(o, c) - 1
<1>1. FullCount(o, c) \in Idx /\ FullCount(o, c) \in Nat
  BY Sizes DEF FullCount, Idx
<1>2. (o + FullCount(o, c)) % NumResultBufss = c
  <2>1. PICK f \in Idx : f = FullCount(o, c)
    BY <1>1
  <2>2. (o + f) % NumResultBufss = IF o + f < NumResultBufss THEN o + f ELSE o + f - NumResultBufss
    BY <2>1, Wrap
  <2>3. IF o + f < NumResultBufss THEN o + f = c ELSE o + f - NumResultBufss = c
    BY <2>1, Sizes DEF FullCount, Idx
  <2> QED
    BY <2>1, <2>2, <2>3
<1>3. FullCount(o, c) = 0 <=> o = c
  BY Sizes DEF FullCount, Idx
<1>4. NextIdx(c) # o => FullCount(o, NextIdx(c)) = FullCount(o, c) + 1
  BY NextIdxIs, Sizes DEF FullCount, Idx
<1>5. o # c => FullCount(NextIdx(o), c) = FullCount(o, c) - 1
  BY NextIdxIs, Sizes DEF FullCount, Idx
<1> QED
  BY <1>1, <1>2, <1>3, <1>4, <1>5

\* The size of an interval.
LEMMA IntervalSize ==
  ASSUME NEW a \in Nat, NEW b \in Nat, a <= b
  PROVE  IsFiniteSet(a .. (b - 1)) /\ Cardinality(a .. (b - 1)) = b - a
<1>1. /\ IsFiniteSet(a .. (b - 1))
      /\ Cardinality(a .. (b - 1)) = IF a > b - 1 THEN 0 ELSE (b - 1) - a + 1
  BY FS_Interval
<1> QED
  BY <1>1

\* FullBufs has that many elements.
LEMMA FullBufsSize ==
  ASSUME NEW o \in Idx, NEW c \in Idx
  PROVE  Cardinality(IF o <= c THEN o .. (c - 1) ELSE (o .. (NumResultBufss - 1)) \cup (0 .. (c - 1)))
           = FullCount(o, c)
<1>1. o \in Nat /\ c \in Nat /\ o <= NumResultBufss /\ NumResultBufss \in Nat
  BY Sizes DEF Idx
<1>2. CASE o <= c
  BY <1>1, <1>2, IntervalSize DEF FullCount
<1>3. CASE ~(o <= c)
  <2> DEFINE A == o .. (NumResultBufss - 1)
             B == 0 .. (c - 1)
  <2>1. IsFiniteSet(A) /\ Cardinality(A) = NumResultBufss - o
    BY <1>1, IntervalSize
  <2>2. IsFiniteSet(B) /\ Cardinality(B) = c
    BY <1>1, IntervalSize
  <2>3. A \cap B = {}
    BY <1>1, <1>3
  <2> HIDE DEF A, B
  <2>4. Cardinality(A \cup B) = Cardinality(A) + Cardinality(B)
    <3>1. Cardinality(A \cup B) = Cardinality(A) + Cardinality(B) - Cardinality(A \cap B)
      BY <2>1, <2>2, FS_Union
    <3>2. Cardinality(A \cap B) = 0
      BY <2>3, FS_EmptySet
    <3> QED
      BY <1>1, <2>1, <2>2, <3>1, <3>2
  <2>5. Cardinality(A \cup B) = FullCount(o, c)
    BY <1>1, <1>3, <2>1, <2>2, <2>4 DEF FullCount
  <2> QED
    BY <1>3, <2>5 DEF A, B
<1> QED
  BY <1>2, <1>3

\* The requests in a ring with bufs, whose oldest buffer is o and whose clients are
\* at place l of buffer c.
Requests(bufs, o, c, l) ==
  [k \in 1 .. (FullCount(o, c) * MaxBatchSize + l) |->
     bufs[(o + (k - 1) \div MaxBatchSize) % NumResultBufss][(k - 1) % MaxBatchSize]]

\* IsLive, for such a ring.
Live(i, r, o, c, l) ==
  \/ IF o <= c THEN o <= i /\ i < c ELSE o <= i \/ i < c
  \/ i = c /\ r < l

\* All requests are in W.
RequestsIn(W, bufs, o, c, l) == \A i \in Idx, r \in Rows : Live(i, r, o, c, l) => bufs[i][r] \in W

\* Live is IsLive in the ring of a state.
LEMMA LiveCells == \A i \in Idx, r \in Rows : IsLive(i, r) <=> Live(i, r, oldestIdx, curIdx, curLen)
BY DEF IsLive, IsFull, Live

\* PendingRows are the requests in the ring, before a step and after it.
LEMMA PendingIs ==
  /\ TypeOK => PendingRows = Requests(resultBufs, oldestIdx, curIdx, curLen)
  /\ TypeOK' => PendingRows' = Requests(resultBufs', oldestIdx', curIdx', curLen')
<1>1. TypeOK => Cardinality(FullBufs) = FullCount(oldestIdx, curIdx)
  BY FullBufsSize DEF FullBufs, TypeOK
<1>2. TypeOK' => Cardinality(FullBufs') = FullCount(oldestIdx', curIdx')
  BY FullBufsSize DEF FullBufs, TypeOK
<1> QED
  BY <1>1, <1>2 DEF PendingRows, PendingLen, Requests

\* Where the k-th request is.
LEMMA PlaceOf ==
  ASSUME NEW o \in Idx, NEW c \in Idx, NEW l \in Rows, NEW j \in Nat, NEW r \in Rows,
         j < FullCount(o, c) \/ (j = FullCount(o, c) /\ r < l)
  PROVE  /\ (o + j) % NumResultBufss \in Idx
         /\ Live((o + j) % NumResultBufss, r, o, c, l)
         /\ (o + j) % NumResultBufss = c => j = FullCount(o, c)
         /\ (o + j) % NumResultBufss = o => j = 0
<1>1. j \in Idx
  <2>1. PICK f \in Idx : f = FullCount(o, c)
    BY FullCountIs
  <2>2. l \in Nat /\ r \in Nat /\ j <= f
    BY <2>1, Sizes DEF Idx, Rows
  <2> QED
    BY <2>1, <2>2, Sizes DEF Idx
<1>2. (o + j) % NumResultBufss = IF o + j < NumResultBufss THEN o + j ELSE o + j - NumResultBufss
  BY <1>1, Wrap
<1> DEFINE i == (o + j) % NumResultBufss
<1> HIDE DEF i
<1>3. i = IF o + j < NumResultBufss THEN o + j ELSE o + j - NumResultBufss
  BY <1>2 DEF i
<1>4. /\ i \in Idx /\ Live(i, r, o, c, l)
      /\ i = c => j = FullCount(o, c)
      /\ i = o => j = 0
  BY <1>1, <1>3, Sizes DEF Live, FullCount, Idx, Rows
<1> QED
  BY <1>4 DEF i

\* The requests are a sequence, as long as there are live cells.
LEMMA RequestsAre ==
  ASSUME NEW W, NEW bufs, NEW o \in Idx, NEW c \in Idx, NEW l \in Rows,
         RequestsIn(W, bufs, o, c, l)
  PROVE  /\ Requests(bufs, o, c, l) \in Seq(W)
         /\ Len(Requests(bufs, o, c, l)) = FullCount(o, c) * MaxBatchSize + l
         /\ FullCount(o, c) * MaxBatchSize + l \in Nat
<1> DEFINE n == FullCount(o, c) * MaxBatchSize + l
           Q == Requests(bufs, o, c, l)
<1>1. n \in Nat
  BY FullCountIs, PlaceJoin
<1> HIDE DEF n
<1>2. ASSUME NEW k \in 1 .. n
      PROVE  bufs[(o + (k - 1) \div MaxBatchSize) % NumResultBufss][(k - 1) % MaxBatchSize] \in W
  <2> DEFINE m == k - 1
             j == m \div MaxBatchSize
             r == m % MaxBatchSize
  <2>1. m \in Nat /\ m < n
    BY <1>1
  <2>2. j \in Nat /\ r \in Rows /\ m = j * MaxBatchSize + r
    BY <2>1, PlaceSplit
  <2> HIDE DEF j, r
  <2>3. j < FullCount(o, c) \/ (j = FullCount(o, c) /\ r < l)
    BY <2>1, <2>2, FullCountIs, PlaceOrder DEF n
  <2>4. (o + j) % NumResultBufss \in Idx /\ Live((o + j) % NumResultBufss, r, o, c, l)
    BY <2>2, <2>3, PlaceOf
  <2>5. bufs[(o + j) % NumResultBufss][r] \in W
    BY <2>2, <2>4 DEF RequestsIn
  <2> QED
    BY <2>5 DEF j, r
<1>3. Q \in [1 .. n -> W]
  BY <1>2 DEF Requests, n
<1>4. Q \in Seq(W)
  BY <1>1, <1>3, SeqDef
<1>5. Len(Q) = n
  <2>1. DOMAIN Q = 1 .. n /\ DOMAIN Q = 1 .. Len(Q) /\ Len(Q) \in Nat
    BY <1>3, <1>4, LenProperties
  <2> HIDE DEF Q
  <2> QED
    BY <1>1, <2>1
<1> QED
  BY <1>1, <1>4, <1>5 DEF n

\* The k-th request, k from 0.
RequestAt(bufs, o, k) == bufs[(o + k \div MaxBatchSize) % NumResultBufss][k % MaxBatchSize]

\* The entries of the sequence, one by one ...
LEMMA RequestsEntry ==
  ASSUME NEW bufs, NEW o, NEW c, NEW l, NEW k \in 1 .. (FullCount(o, c) * MaxBatchSize + l)
  PROVE  Requests(bufs, o, c, l)[k] = RequestAt(bufs, o, k - 1)
BY DEF Requests, RequestAt

\* ... say what it is.
LEMMA RequestsIs ==
  ASSUME NEW bufs, NEW o, NEW c, NEW l, NEW n, n = FullCount(o, c) * MaxBatchSize + l,
         NEW W, NEW Q \in Seq(W), Len(Q) = n,
         \A k \in 1 .. n : Q[k] = RequestAt(bufs, o, k - 1)
  PROVE  Requests(bufs, o, c, l) = Q
<1>1. Q = [k \in 1 .. n |-> Q[k]]
  BY LenProperties
<1>2. Requests(bufs, o, c, l) = [k \in 1 .. n |-> RequestAt(bufs, o, k - 1)]
  BY DEF Requests, RequestAt
<1> QED
  BY <1>1, <1>2

\* x is put at place l of buffer c.
Put(bufs, bufs2, c, l, x) ==
  \A i \in Idx, r \in Rows : bufs2[i][r] = IF i = c /\ r = l THEN x ELSE bufs[i][r]

\* The place after l of buffer c, in a ring that has one.
Advance(o, c, l, c2, l2) ==
  \/ l + 1 >= MaxBatchSize /\ c2 = NextIdx(c) /\ c2 # o /\ l2 = 0
  \/ l + 1 < MaxBatchSize /\ c2 = c /\ l2 = l + 1

\* q2 is q with x at its end.
IsAppend(q2, q, x) == q2 = Append(q, x)

\* A request goes to the end of the queue.
LEMMA RequestsGrow ==
  ASSUME NEW W, NEW bufs, NEW o \in Idx, NEW c \in Idx, NEW l \in Rows,
         RequestsIn(W, bufs, o, c, l),
         NEW x \in W, NEW bufs2,
         Put(bufs, bufs2, c, l, x), NEW c2, NEW l2, Advance(o, c, l, c2, l2)
  PROVE  IsAppend(Requests(bufs2, o, c2, l2), Requests(bufs, o, c, l), x)
<1> DEFINE f == FullCount(o, c)
           n == f * MaxBatchSize + l
           Q == Requests(bufs, o, c, l)
<1>1. Q \in Seq(W) /\ Len(Q) = n /\ n \in Nat
  BY RequestsAre
<1>2. f \in Nat /\ (o + f) % NumResultBufss = c
  BY FullCountIs
<1>3. FullCount(o, c2) * MaxBatchSize + l2 = n + 1
  <2>1. CASE l + 1 >= MaxBatchSize
    <3>1. FullCount(o, c2) = f + 1 /\ l2 = 0 /\ l = MaxBatchSize - 1
      BY <2>1, FullCountIs, Sizes DEF Rows, Advance
    <3>2. (f + 1) * MaxBatchSize = f * MaxBatchSize + MaxBatchSize
      BY <1>2, Sizes
    <3>3. f * MaxBatchSize \in Nat
      BY <1>2, Sizes
    <3> HIDE DEF f
    <3> QED
      BY <3>1, <3>2, <3>3, Sizes
  <2>2. CASE ~(l + 1 >= MaxBatchSize)
    <3>1. FullCount(o, c2) = f /\ l2 = l + 1
      BY <2>2, Sizes DEF Rows, Advance
    <3>2. f * MaxBatchSize \in Nat /\ l \in Nat
      BY <1>2, Sizes DEF Rows
    <3> HIDE DEF f
    <3> QED
      BY <3>1, <3>2
  <2> QED
    BY <2>1, <2>2
<1>4. RequestAt(bufs2, o, n) = x
  <2>1. n \div MaxBatchSize = f /\ n % MaxBatchSize = l
    BY <1>2, PlaceJoin
  <2> HIDE DEF f, n
  <2> QED
    BY <1>2, <2>1 DEF RequestAt, Put
<1>5. ASSUME NEW k \in 1 .. n
      PROVE  RequestAt(bufs2, o, k - 1) = RequestAt(bufs, o, k - 1)
  <2> DEFINE m == k - 1
             j == m \div MaxBatchSize
             r == m % MaxBatchSize
             i == (o + j) % NumResultBufss
  <2>1. m \in Nat /\ m < n
    BY <1>1
  <2>2. j \in Nat /\ r \in Rows /\ m = j * MaxBatchSize + r
    BY <2>1, PlaceSplit
  <2> HIDE DEF j, r
  <2>3. j < f \/ (j = f /\ r < l)
    BY <1>2, <2>1, <2>2, PlaceOrder
  <2>4. i \in Idx /\ (i = c => j = f)
    BY <2>2, <2>3, PlaceOf
  <2>5. r \in Int /\ l \in Int /\ j \in Int
    BY <2>2, Sizes DEF Rows
  <2> HIDE DEF f
  <2>6. ~(i = c /\ r = l)
    BY <2>3, <2>4, <2>5
  <2> HIDE DEF i
  <2>7. bufs2[i][r] = bufs[i][r]
    BY <2>2, <2>4, <2>6 DEF Put
  <2> QED
    BY <2>7 DEF RequestAt, i, j, r
<1> DEFINE A == Append(Q, x)
<1>6. A \in Seq(W) /\ Len(A) = n + 1 /\ (\A k \in 1 .. n : A[k] = Q[k]) /\ A[n + 1] = x
  BY <1>1, AppendProperties
<1>7. \A k \in 1 .. n : Q[k] = RequestAt(bufs, o, k - 1)
  BY RequestsEntry
<1> HIDE DEF n, A, Q
<1>8. ASSUME NEW k \in 1 .. n + 1 PROVE A[k] = RequestAt(bufs2, o, k - 1)
  <2>1. CASE k = n + 1
    <3>1. k - 1 = n
      BY <1>1, <2>1
    <3> QED
      BY <1>4, <1>6, <2>1, <3>1
  <2>2. CASE k # n + 1
    <3>1. k \in 1 .. n
      BY <1>1, <2>2
    <3> QED
      BY <1>5, <1>6, <1>7, <3>1
  <2> QED
    BY <2>1, <2>2
<1>9. Requests(bufs2, o, c2, l2) = A
  BY <1>3, <1>6, <1>8, RequestsIs
<1> QED
  BY <1>9 DEF A, Q, IsAppend

\* p is the part of q from m to n.
IsCut(p, q, m, n) == p = SubSeq(q, m, n)

\* The first requests are those in the oldest buffer.
LEMMA FirstRequests ==
  ASSUME NEW W, NEW bufs, NEW o \in Idx, NEW c \in Idx, NEW l \in Rows,
         RequestsIn(W, bufs, o, c, l),
         NEW n \in Nat, n <= MaxBatchSize, n <= Len(Requests(bufs, o, c, l))
  PROVE  IsCut([k \in 1 .. n |-> bufs[o][k - 1]], Requests(bufs, o, c, l), 1, n)
<1> DEFINE len == FullCount(o, c) * MaxBatchSize + l
           Q == Requests(bufs, o, c, l)
           S == SubSeq(Q, 1, n)
<1>1. Q \in Seq(W) /\ Len(Q) = len /\ len \in Nat
  BY RequestsAre
<1>2. ASSUME NEW k \in 1 .. n PROVE Q[k] = bufs[o][k - 1]
  <2>1. k - 1 \in Rows /\ k \in 1 .. len /\ k - 1 \in Nat
    <3> HIDE DEF len, Q
    <3>1. n <= len
      BY <1>1 DEF Q
    <3> QED
      BY <1>1, <3>1, Sizes DEF Rows
  <2> DEFINE m == k - 1
  <2>2. 0 * MaxBatchSize + m = m
    BY <2>1, Sizes
  <2> HIDE DEF m
  <2>3. m \div MaxBatchSize = 0 /\ m % MaxBatchSize = m
    <3>1. m \in Rows
      BY <2>1 DEF m
    <3> QED
      BY <2>2, <3>1, PlaceJoin
  <2>4. (o + 0) % NumResultBufss = o
    <3>1. 0 \in Idx /\ o + 0 = o /\ o < NumResultBufss
      BY Sizes DEF Idx
    <3>2. (o + 0) % NumResultBufss = IF o + 0 < NumResultBufss THEN o + 0 ELSE o + 0 - NumResultBufss
      BY <3>1, Wrap
    <3> QED
      BY <3>1, <3>2
  <2>5. RequestAt(bufs, o, m) = bufs[o][m]
    BY <2>3, <2>4 DEF RequestAt
  <2>6. Q[k] = RequestAt(bufs, o, m)
    BY <2>1, RequestsEntry DEF m
  <2> QED
    BY <2>5, <2>6 DEF m
<1> HIDE DEF Q, len
<1>3. \A k \in 1 .. n : Q[k] \in W
  <2>1. n <= len
    BY <1>1 DEF Q
  <2> QED
    BY <1>1, <2>1, LenProperties
<1>4. /\ S \in Seq(W) /\ Len(S) = IF 1 <= n THEN n - 1 + 1 ELSE 0
      /\ \A k \in 1 .. n - 1 + 1 : S[k] = Q[1 + k - 1]
  BY <1>3, SubSeqProperties
<1> HIDE DEF S
<1>5. Len(S) = n
  BY <1>4
<1>6. \A k \in 1 .. n : S[k] = Q[k]
  <2> TAKE k \in 1 .. n
  <2>1. k \in 1 .. n - 1 + 1 /\ 1 + k - 1 = k
    OBVIOUS
  <2> QED
    BY <1>4, <2>1
<1>7. S = [k \in 1 .. n |-> S[k]]
  BY <1>4, <1>5, LenProperties
<1>8. S = [k \in 1 .. n |-> bufs[o][k - 1]]
  BY <1>2, <1>6, <1>7
<1> QED
  BY <1>8 DEF S, Q, IsCut

\* The buffers other than o are as they were.
SameElsewhere(bufs, bufs2, o) ==
  \A i \in Idx, r \in Rows : i # o => bufs2[i][r] = bufs[i][r]

\* When the oldest buffer is gone, the requests after it are left.
LEMMA RequestsLeft ==
  ASSUME NEW W, NEW bufs, NEW o \in Idx, NEW c \in Idx, NEW l \in Rows,
         RequestsIn(W, bufs, o, c, l),
         o # c, NEW bufs2, SameElsewhere(bufs, bufs2, o)
  PROVE  /\ IsCut(Requests(bufs2, NextIdx(o), c, l), Requests(bufs, o, c, l),
                  MaxBatchSize + 1, Len(Requests(bufs, o, c, l)))
         /\ Len(Requests(bufs, o, c, l)) >= MaxBatchSize
<1> DEFINE f == FullCount(o, c)
           n == f * MaxBatchSize + l
           Q == Requests(bufs, o, c, l)
           p == NextIdx(o)
           B == MaxBatchSize
           S == SubSeq(Q, B + 1, n)
<1>1. Q \in Seq(W) /\ Len(Q) = n /\ n \in Nat
  BY RequestsAre
<1>2. f \in Nat /\ f \in Idx /\ f # 0 /\ p \in Idx /\ FullCount(p, c) = f - 1 /\ B \in Nat /\ B >= 1 /\ l \in Nat
  BY FullCountIs, NextIdxIs, Sizes DEF Rows
<1>3. n - B \in Nat /\ FullCount(p, c) * B + l = n - B
  <2> HIDE DEF f, p
  <2>1. (f - 1) * B = f * B - B /\ (f - 1) * B \in Nat
    BY <1>2
  <2> QED
    BY <1>2, <2>1
<1>4. ASSUME NEW k \in 1 .. (n - B)
      PROVE  RequestAt(bufs2, p, k - 1) = RequestAt(bufs, o, k - 1 + B)
  <2> DEFINE m == k - 1
             j == m \div B
             r == m % B
  <2>1. m \in Nat /\ m < n - B
    BY <1>1, <1>3
  <2>2. j \in Nat /\ r \in Rows /\ m = j * B + r
    BY <2>1, PlaceSplit
  <2>3. (m + B) \div B = j + 1 /\ (m + B) % B = r
    BY <2>1, NextBuf
  <2> HIDE DEF j, r
  <2>4. j < f - 1 \/ (j = f - 1 /\ r < l)
    <3>1. f - 1 \in Nat /\ j * B + r < (f - 1) * B + l
      BY <1>2, <1>3, <2>1, <2>2
    <3> QED
      BY <2>2, <3>1, PlaceOrder
  <2>5. /\ j + 1 \in Nat /\ j + 1 # 0
        /\ j + 1 < f \/ (j + 1 = f /\ r < l)
    <3>1. f \in Nat /\ j \in Nat
      BY <1>2, <2>2
    <3> HIDE DEF f, n, p, B
    <3> QED
      BY <2>4, <3>1
  <2>6. (o + (j + 1)) % NumResultBufss \in Idx /\ (o + (j + 1)) % NumResultBufss # o
    BY <2>2, <2>5, PlaceOf
  <2>7. (p + j) % NumResultBufss = (o + (j + 1)) % NumResultBufss
    <3>1. j \in Idx /\ j + 1 \in Idx
      <4>1. f \in Idx /\ j + 1 <= f
        BY <1>2, <2>2, <2>5
      <4> HIDE DEF f
      <4> QED
        BY <2>2, <4>1, Sizes DEF Idx
    <3>2. /\ (p + j) % NumResultBufss = IF p + j < NumResultBufss THEN p + j ELSE p + j - NumResultBufss
          /\ (o + (j + 1)) % NumResultBufss =
               IF o + (j + 1) < NumResultBufss THEN o + (j + 1) ELSE o + (j + 1) - NumResultBufss
      BY <1>2, <3>1, Wrap
    <3>3. p = IF o = NumResultBufss - 1 THEN 0 ELSE o + 1
      BY NextIdxIs
    <3>4. (IF p + j < NumResultBufss THEN p + j ELSE p + j - NumResultBufss)
            = IF o + (j + 1) < NumResultBufss THEN o + (j + 1) ELSE o + (j + 1) - NumResultBufss
      BY <3>1, <3>3, Sizes DEF Idx
    <3> QED
      BY <3>2, <3>4
  <2>8. RequestAt(bufs2, p, m) = bufs2[(p + j) % NumResultBufss][r]
    BY DEF RequestAt, j, r
  <2>9. RequestAt(bufs, o, m + B) = bufs[(o + (j + 1)) % NumResultBufss][r]
    BY <2>3 DEF RequestAt
  <2> DEFINE i == (o + (j + 1)) % NumResultBufss
  <2>10. bufs2[i][r] = bufs[i][r]
    <3> HIDE DEF i
    <3>1. i \in Idx /\ i # o
      BY <2>6 DEF i
    <3> QED
      BY <2>2, <3>1 DEF SameElsewhere
  <2>11. RequestAt(bufs2, p, m) = RequestAt(bufs, o, m + B)
    BY <2>7, <2>8, <2>9, <2>10
  <2> QED
    BY <2>11 DEF m
<1>5. \A k \in 1 .. n : Q[k] = RequestAt(bufs, o, k - 1)
  BY RequestsEntry
<1> HIDE DEF Q, n
<1>6. \A k \in B + 1 .. n : Q[k] \in W
  BY <1>1, <1>2, LenProperties
<1>7. /\ S \in Seq(W) /\ Len(S) = IF B + 1 <= n THEN n - (B + 1) + 1 ELSE 0
      /\ \A k \in 1 .. n - (B + 1) + 1 : S[k] = Q[B + 1 + k - 1]
  <2>1. B + 1 \in Int /\ n \in Int
    BY <1>1, <1>2
  <2> QED
    BY <1>6, <2>1, SubSeqProperties
<1> HIDE DEF S
<1>8. Len(S) = n - B
  BY <1>1, <1>2, <1>3, <1>7
<1>9. ASSUME NEW k \in 1 .. (n - B) PROVE S[k] = RequestAt(bufs2, p, k - 1)
  <2>1. k \in 1 .. n - (B + 1) + 1 /\ B + 1 + k - 1 = k + B /\ k + B \in 1 .. n /\ k + B - 1 = k - 1 + B
    <3>1. n \in Nat /\ B \in Nat /\ n - B \in Nat
      BY <1>1, <1>2, <1>3
    <3> HIDE DEF B
    <3> QED
      BY <3>1
  <2>2. S[k] = Q[k + B]
    <3>1. S[k] = Q[B + 1 + k - 1]
      BY <1>7, <2>1
    <3> QED
      BY <2>1, <3>1
  <2>3. Q[k + B] = RequestAt(bufs, o, k - 1 + B)
    <3> DEFINE e == k + B
    <3>1. e \in 1 .. n /\ e - 1 = k - 1 + B
      <4>1. n \in Nat /\ B \in Nat /\ n - B \in Nat
        BY <1>1, <1>2, <1>3
      <4> HIDE DEF B
      <4> QED
        BY <4>1
    <3> HIDE DEF e
    <3>2. Q[e] = RequestAt(bufs, o, e - 1)
      BY <1>5, <3>1
    <3>3. Q[e] = RequestAt(bufs, o, k - 1 + B)
      BY <3>1, <3>2
    <3> QED
      BY <3>3 DEF e
  <2> QED
    BY <1>4, <2>2, <2>3
<1>10. Requests(bufs2, p, c, l) = S
  BY <1>3, <1>7, <1>8, <1>9, RequestsIs
<1> QED
  BY <1>1, <1>2, <1>3, <1>10 DEF S, Q, IsCut

--------------------------------------------------------------------------------
\* What a server has to deliver.

\* By a server that does sv, with n rows in buf and w of them delivered.
Undelivered(sv, buf, w, n) ==
  IF sv \in {"grabbed", "inferred"} THEN [i \in 1 .. (n - w) |-> buf[w + i - 1]] ELSE <<>>

\* The number of these rows.
LEMMA HandSize ==
  ASSUME NEW w \in Nat, NEW n \in 0 .. MaxBatchSize, w <= n
  PROVE  Cardinality({r \in Rows : w <= r /\ r < n}) = n - w
<1>1. {r \in Rows : w <= r /\ r < n} = w .. (n - 1)
  BY Sizes DEF Rows
<1>2. n \in Nat
  BY Sizes
<1> QED
  BY <1>1, <1>2, IntervalSize

\* UndeliveredRows are these rows, before a step and after it.
LEMMA UndeliveredIs ==
  /\ TypeOK /\ Lifecycle =>
       \A s \in Servers :
         UndeliveredRows(s) = Undelivered(server[s], held[s], row[s], numRows[s])
  /\ TypeOK' /\ Lifecycle' =>
       \A s \in Servers :
         UndeliveredRows(s)' = Undelivered(server'[s], held'[s], row'[s], numRows'[s])
<1>1. ASSUME TypeOK, Lifecycle, NEW s \in Servers
      PROVE  UndeliveredRows(s) = Undelivered(server[s], held[s], row[s], numRows[s])
  <2>1. row[s] \in Nat /\ numRows[s] \in 0 .. MaxBatchSize /\ row[s] <= numRows[s]
    BY <1>1, Sizes DEF TypeOK, Lifecycle
  <2>2. CASE server[s] \in {"grabbed", "inferred"}
    <3>1. InHand(s) = {r \in Rows : row[s] <= r /\ r < numRows[s]}
      BY <2>2 DEF InHand
    <3>2. Cardinality(InHand(s)) = numRows[s] - row[s]
      BY <2>1, <3>1, HandSize
    <3> QED
      BY <2>2, <3>2 DEF UndeliveredRows, Undelivered
  <2>3. CASE ~(server[s] \in {"grabbed", "inferred"})
    <3>1. InHand(s) = {}
      BY <2>3 DEF InHand
    <3>2. Cardinality(InHand(s)) = 0
      BY <3>1, FS_EmptySet
    <3>3. UndeliveredRows(s) = <<>>
      BY <3>2 DEF UndeliveredRows
    <3> QED
      BY <2>3, <3>3 DEF Undelivered
  <2> QED
    BY <2>2, <2>3
<1>2. ASSUME TypeOK', Lifecycle', NEW s \in Servers
      PROVE  UndeliveredRows(s)' = Undelivered(server'[s], held'[s], row'[s], numRows'[s])
  <2>1. row'[s] \in Nat /\ numRows'[s] \in 0 .. MaxBatchSize /\ row'[s] <= numRows'[s]
    BY <1>2, Sizes DEF TypeOK, Lifecycle
  <2>2. CASE server'[s] \in {"grabbed", "inferred"}
    <3>1. InHand(s)' = {r \in Rows : row'[s] <= r /\ r < numRows'[s]}
      BY <2>2 DEF InHand
    <3>2. Cardinality(InHand(s)') = numRows'[s] - row'[s]
      BY <2>1, <3>1, HandSize
    <3> QED
      BY <2>2, <3>2 DEF UndeliveredRows, Undelivered
  <2>3. CASE ~(server'[s] \in {"grabbed", "inferred"})
    <3>1. InHand(s)' = {}
      BY <2>3 DEF InHand
    <3>2. Cardinality(InHand(s)') = 0
      BY <3>1, FS_EmptySet
    <3>3. UndeliveredRows(s)' = <<>>
      BY <3>2 DEF UndeliveredRows
    <3> QED
      BY <2>3, <3>3 DEF Undelivered
  <2> QED
    BY <2>2, <2>3
<1> QED
  BY <1>1, <1>2

\* The rows from w up to n are in W.
RowsIn(W, buf, w, n) == \A r \in Rows : w <= r /\ r < n => buf[r] \in W

\* The rows other than w are as they were.
SameBut(buf, buf2, w) == \A r \in Rows : r # w => buf2[r] = buf[r]

\* q is x followed by q2.
IsHeadTail(q, x, q2) == q # <<>> /\ Head(q) = x /\ Tail(q) = q2

\* A delivery takes the first row away.
LEMMA HandTail ==
  ASSUME NEW sv \in {"grabbed", "inferred"}, NEW W, NEW buf, NEW w \in Nat,
         NEW n \in 0 .. MaxBatchSize, w < n,
         RowsIn(W, buf, w, n), NEW buf2, SameBut(buf, buf2, w)
  PROVE  IsHeadTail(Undelivered(sv, buf, w, n), buf[w], Undelivered(sv, buf2, w + 1, n))
<1> DEFINE U == Undelivered(sv, buf, w, n)
           m == n - w
           V == Undelivered(sv, buf2, w + 1, n)
<1>1. m \in Nat /\ m >= 1
  BY Sizes
<1>2. U = [i \in 1 .. m |-> buf[w + i - 1]]
  BY DEF Undelivered
<1>3. \A i \in 1 .. m : w + i - 1 \in Rows /\ buf[w + i - 1] \in W
  BY Sizes DEF Rows, RowsIn
<1>4. V = [i \in 1 .. (m - 1) |-> buf2[w + 1 + i - 1]]
  <2>1. n - (w + 1) = m - 1
    BY Sizes
  <2> HIDE DEF m
  <2> QED
    BY <2>1 DEF Undelivered
<1>5. \A i \in 1 .. (m - 1) :
        /\ i + 1 \in 1 .. m /\ w + 1 + i - 1 \in Rows /\ w + 1 + i - 1 # w
        /\ w + 1 + i - 1 = w + (i + 1) - 1
  BY Sizes DEF Rows
<1> HIDE DEF m, U, V
<1>6. U \in Seq(W) /\ Len(U) = m
  <2>1. U \in [1 .. m -> W]
    BY <1>2, <1>3
  <2>2. U \in Seq(W)
    BY <1>1, <2>1, SeqDef
  <2>3. DOMAIN U = 1 .. m /\ DOMAIN U = 1 .. Len(U) /\ Len(U) \in Nat
    BY <2>1, <2>2, LenProperties
  <2> QED
    BY <1>1, <2>2, <2>3
<1>7. U # <<>>
  BY <1>1, <1>6
<1>8. Head(U) = buf[w]
  <2>1. U[1] = buf[w + 1 - 1] /\ w + 1 - 1 = w
    BY <1>1, <1>2
  <2> QED
    BY <1>6, <1>7, <2>1, HeadTailProperties
<1>9. /\ Tail(U) \in Seq(W) /\ Len(Tail(U)) = m - 1
      /\ \A i \in 1 .. (m - 1) : Tail(U)[i] = U[i + 1]
  BY <1>6, <1>7, HeadTailProperties
<1>10. Tail(U) = [i \in 1 .. (m - 1) |-> Tail(U)[i]]
  BY <1>9, LenProperties
<1>11. ASSUME NEW i \in 1 .. (m - 1) PROVE Tail(U)[i] = buf2[w + 1 + i - 1]
  <2>1. Tail(U)[i] = buf[w + (i + 1) - 1]
    BY <1>2, <1>5, <1>9
  <2> QED
    BY <1>5, <2>1 DEF SameBut
<1>12. Tail(U) = V
  BY <1>4, <1>10, <1>11
<1> QED
  BY <1>7, <1>8, <1>12 DEF U, V, IsHeadTail

--------------------------------------------------------------------------------
\* The queue of requests, step by step.

\* Every request, pending or in a server's hands, is one of a client that waits.
LEMMA QueueOfWaiting ==
  ASSUME IInv
  PROVE  /\ RequestsIn(Waiting, resultBufs, oldestIdx, curIdx, curLen)
         /\ PendingRows \in Seq(Waiting)
         /\ \A s \in Servers, r \in Rows : r \in InHand(s) => held[s][r] \in Waiting
<1>1. RequestsIn(Waiting, resultBufs, oldestIdx, curIdx, curLen)
  BY LiveCells DEF IInv, RingInv, RequestsIn
<1>2. PendingRows \in Seq(Waiting)
  BY <1>1, PendingIs, RequestsAre DEF IInv, TypeOK
<1> QED
  BY <1>1, <1>2 DEF IInv, HeldInv

\* A client that does not wait has no request.
LEMMA NotServed ==
  ASSUME IInv, NEW c, c \notin Waiting
  PROVE  ~BQ!Served(c)
<1>1. c \notin BQ!ToSet(PendingRows)
  <2>1. \A i \in DOMAIN PendingRows : PendingRows[i] \in Waiting
    BY QueueOfWaiting, ElementOfSeq, LenProperties
  <2> QED
    BY <2>1 DEF BQ!ToSet
<1>2. ASSUME NEW s \in Servers PROVE c \notin BQ!ToSet(UndeliveredRows(s))
  <2>1. UndeliveredRows(s) = Undelivered(server[s], held[s], row[s], numRows[s])
    BY UndeliveredIs DEF IInv
  <2>2. row[s] \in Nat /\ numRows[s] \in 0 .. MaxBatchSize
    BY Sizes DEF IInv, TypeOK
  <2>3. CASE server[s] \in {"grabbed", "inferred"}
    <3>1. UndeliveredRows(s) = [i \in 1 .. (numRows[s] - row[s]) |-> held[s][row[s] + i - 1]]
      BY <2>1, <2>3 DEF Undelivered
    <3>2. ASSUME NEW i \in 1 .. (numRows[s] - row[s])
          PROVE  held[s][row[s] + i - 1] \in Waiting
      <4>1. row[s] + i - 1 \in InHand(s) /\ row[s] + i - 1 \in Rows
        BY <2>2, <2>3, Sizes DEF InHand, Rows
      <4> QED
        BY <4>1, QueueOfWaiting
    <3> QED
      BY <3>1, <3>2 DEF BQ!ToSet
  <2>4. CASE ~(server[s] \in {"grabbed", "inferred"})
    BY <2>1, <2>4 DEF Undelivered, BQ!ToSet
  <2> QED
    BY <2>3, <2>4
<1> QED
  BY <1>1, <1>2 DEF BQ!Served

\* A step that leaves the ring alone leaves the queue alone.
LEMMA SameQueue ==
  ASSUME UNCHANGED <<resultBufs, curLen, curIdx, oldestIdx>>
  PROVE  PendingRows' = PendingRows
BY DEF PendingRows, PendingLen, FullBufs

\* A step leaves what s has to deliver alone when it leaves its rows alone, or when
\* there is nothing before the step nor after it.
LEMMA SameHand ==
  ASSUME IInv, IInv', NEW s \in Servers,
         \/ /\ held'[s] = held[s] /\ row'[s] = row[s] /\ numRows'[s] = numRows[s]
            /\ server[s] \in {"grabbed", "inferred"} <=> server'[s] \in {"grabbed", "inferred"}
         \/ InHand(s) = {} /\ InHand(s)' = {}
  PROVE  UndeliveredRows(s)' = UndeliveredRows(s)
<1>1. CASE InHand(s) = {} /\ InHand(s)' = {}
  BY <1>1, FS_EmptySet DEF UndeliveredRows
<1>2. CASE /\ held'[s] = held[s] /\ row'[s] = row[s] /\ numRows'[s] = numRows[s]
           /\ server[s] \in {"grabbed", "inferred"} <=> server'[s] \in {"grabbed", "inferred"}
  <2>1. /\ UndeliveredRows(s) = Undelivered(server[s], held[s], row[s], numRows[s])
        /\ UndeliveredRows(s)' = Undelivered(server'[s], held'[s], row'[s], numRows'[s])
    BY UndeliveredIs DEF IInv
  <2> QED
    BY <1>2, <2>1 DEF Undelivered
<1> QED
  BY <1>1, <1>2

\* Steps that the queue does not see.
LEMMA Unseen ==
  ASSUME IInv, IInv', UNCHANGED <<resultBufs, curLen, curIdx, oldestIdx>>,
         \A c \in Clients : hasResult'[c] = hasResult[c],
         \A s \in Servers :
           \/ /\ held'[s] = held[s] /\ row'[s] = row[s] /\ numRows'[s] = numRows[s]
              /\ server[s] \in {"grabbed", "inferred"} <=> server'[s] \in {"grabbed", "inferred"}
           \/ InHand(s) = {} /\ InHand(s)' = {}
  PROVE  UNCHANGED BQ!vars
<1>1. PendingRows' = PendingRows
  BY SameQueue
<1>2. \A s \in Servers : UndeliveredRows(s)' = UndeliveredRows(s)
  BY SameHand
<1>3. [s \in Servers |-> UndeliveredRows(s)]' = [s \in Servers |-> UndeliveredRows(s)]
  BY <1>2
<1>4. {c \in Clients : hasResult[c]}' = {c \in Clients : hasResult[c]}
  OBVIOUS
<1> QED
  BY <1>1, <1>3, <1>4 DEF BQ!vars

\* evaluate queues a request.
LEMMA SubmitRequests ==
  ASSUME IInv, IInv', NEW c \in Clients, NEW p \in Asks[c], Submit(c, p)
  PROVE  BQ!Request(c)
<1>1. ~BQ!Served(c)
  <2>1. c \notin Waiting
    BY DEF Submit, Waiting
  <2> QED
    BY <2>1, NotServed
<1>2. PendingRows' = Append(PendingRows, c)
  <2> DEFINE W == Waiting \cup {c}
  <2>1. /\ PendingRows = Requests(resultBufs, oldestIdx, curIdx, curLen)
        /\ PendingRows' = Requests(resultBufs', oldestIdx, curIdx', curLen')
    BY PendingIs DEF IInv, Submit
  <2>2. RequestsIn(W, resultBufs, oldestIdx, curIdx, curLen)
    BY QueueOfWaiting DEF RequestsIn
  <2>3. Put(resultBufs, resultBufs', curIdx, curLen, c)
    BY DEF Put, Submit, IInv, TypeOK
  <2>4. Advance(oldestIdx, curIdx, curLen, curIdx', curLen')
    <3>1. curLen + 1 \in Int /\ MaxBatchSize \in Int
      BY Sizes DEF IInv, TypeOK, Rows
    <3>2. CASE IsFullAt(curLen + 1)
      <4>1. /\ curLen' = 0 /\ curIdx' = NextIdx(curIdx)
            /\ overlooped' = (overlooped \/ NextIdx(curIdx) = oldestIdx)
        BY <3>2 DEF Submit
      <4>2. NextIdx(curIdx) # oldestIdx
        BY <4>1, Zenon DEF IInv, NoOverloop
      <4> QED
        BY <3>2, <4>1, <4>2 DEF IsFullAt, Advance
    <3>3. CASE ~IsFullAt(curLen + 1)
      <4>1. curLen' = curLen + 1 /\ curIdx' = curIdx
        BY <3>3 DEF Submit
      <4> QED
        BY <3>1, <3>3, <4>1 DEF IsFullAt, Advance
    <3> QED
      BY <3>2, <3>3
  <2>5. oldestIdx \in Idx /\ curIdx \in Idx /\ curLen \in Rows /\ c \in W
    BY DEF IInv, TypeOK
  <2> HIDE DEF W
  <2>6. IsAppend(Requests(resultBufs', oldestIdx, curIdx', curLen'),
                 Requests(resultBufs, oldestIdx, curIdx, curLen), c)
    BY <2>2, <2>3, <2>4, <2>5, RequestsGrow
  <2> QED
    BY <2>1, <2>6 DEF IsAppend
<1>3. {d \in Clients : hasResult[d]}' = {d \in Clients : hasResult[d]} \ {c}
  BY DEF Submit, IInv, TypeOK
<1>4. [s \in Servers |-> UndeliveredRows(s)]' = [s \in Servers |-> UndeliveredRows(s)]
  <2>1. \A s \in Servers : server'[s] \in {"grabbed", "inferred"} <=> server[s] \in {"grabbed", "inferred"}
    BY DEF Submit, NotifyOneServer, IInv, TypeOK
  <2>2. UNCHANGED <<held, row, numRows>>
    BY DEF Submit
  <2>3. \A s \in Servers : UndeliveredRows(s)' = UndeliveredRows(s)
    BY <2>1, <2>2, SameHand
  <2> QED
    BY <2>3
<1> QED
  BY <1>1, <1>2, <1>3, <1>4 DEF BQ!Request

\* isInCacheTable answers at once, or leaves the queue alone.
LEMMA LookupHits ==
  ASSUME IInv, IInv', NEW c \in Clients, NEW p \in Asks[c], Lookup(c, p)
  PROVE  BQ!Hit(c) \/ UNCHANGED BQ!vars
<1>1. UNCHANGED <<resultBufs, curLen, curIdx, oldestIdx, server, held, row, numRows>>
  BY DEF Lookup, ring, serverVars
<1>2. CASE Hit(p)
  <2>1. ~BQ!Served(c)
    <3>1. c \notin Waiting
      BY DEF Lookup, Waiting
    <3> QED
      BY <3>1, NotServed
  <2>2. {d \in Clients : hasResult[d]}' = {d \in Clients : hasResult[d]} \cup {c}
    <3>1. /\ hasResult'[c] = (hasResult[c] \/ Hit(p))
          /\ \A d \in Clients : d # c => hasResult'[d] = hasResult[d]
      BY DEF Lookup, IInv, TypeOK
    <3>2. hasResult'[c]
      BY <1>2, <3>1
    <3> QED
      BY <3>1, <3>2
  <2>3. PendingRows' = PendingRows
    BY <1>1, SameQueue
  <2>4. [s \in Servers |-> UndeliveredRows(s)]' = [s \in Servers |-> UndeliveredRows(s)]
    <3>1. \A s \in Servers : UndeliveredRows(s)' = UndeliveredRows(s)
      BY <1>1, SameHand
    <3> QED
      BY <3>1
  <2> QED
    BY <2>1, <2>2, <2>3, <2>4 DEF BQ!Hit
<1>3. CASE ~Hit(p)
  <2>1. \A d \in Clients : hasResult'[d] = hasResult[d]
    BY <1>3 DEF Lookup, IInv, TypeOK
  <2> QED
    BY <1>1, <2>1, Unseen
<1> QED
  BY <1>2, <1>3

\* A server answers the oldest request in its hands.
LEMMA DeliverAnswers ==
  ASSUME IInv, IInv', NEW s \in Servers, Deliver(s)
  PROVE  BQ!Answer(s)
<1> DEFINE c == held[s][row[s]]
           U == UndeliveredRows(s)
<1>1. /\ server[s] = "inferred" /\ server' = server /\ row[s] < numRows[s]
      /\ row[s] \in Nat /\ numRows[s] \in 0 .. MaxBatchSize
      /\ row' = [row EXCEPT ![s] = @ + 1] /\ numRows' = numRows
  BY Sizes DEF Deliver, IInv, TypeOK
<1>2. row[s] \in Rows /\ row[s] \in InHand(s)
  BY <1>1, Sizes DEF InHand, Rows
<1>3. /\ c \in Waiting /\ c \in Clients
      /\ RowsIn(Waiting, held[s], row[s], numRows[s])
  BY <1>1, <1>2, QueueOfWaiting DEF InHand, Waiting, RowsIn
<1>4. /\ SameBut(held[s], held'[s], row[s])
      /\ \A t \in Servers : t # s => held'[t] = held[t]
  BY <1>2 DEF Deliver, IInv, TypeOK, SameBut
<1>5. row'[s] = row[s] + 1 /\ \A t \in Servers : t # s => row'[t] = row[t]
  BY <1>1 DEF IInv, TypeOK
<1>6. /\ \A t \in Servers : UndeliveredRows(t) = Undelivered(server[t], held[t], row[t], numRows[t])
      /\ \A t \in Servers : UndeliveredRows(t)' = Undelivered(server'[t], held'[t], row'[t], numRows'[t])
  BY UndeliveredIs DEF IInv
<1>7. U # <<>> /\ Head(U) = c /\ Tail(U) = UndeliveredRows(s)'
  <2>1. /\ U = Undelivered(server[s], held[s], row[s], numRows[s])
        /\ UndeliveredRows(s)' = Undelivered(server[s], held'[s], row[s] + 1, numRows[s])
    BY <1>1, <1>5, <1>6
  <2>2. server[s] \in {"grabbed", "inferred"}
    BY <1>1
  <2>3. IsHeadTail(Undelivered(server[s], held[s], row[s], numRows[s]), c,
                   Undelivered(server[s], held'[s], row[s] + 1, numRows[s]))
    BY <1>1, <1>3, <1>4, <2>2, HandTail
  <2> HIDE DEF U
  <2> QED
    BY <2>1, <2>3 DEF IsHeadTail
<1>8. \A t \in Servers : t # s => UndeliveredRows(t)' = UndeliveredRows(t)
  BY <1>1, <1>4, <1>5, <1>6
<1>9. [t \in Servers |-> UndeliveredRows(t)]' = [[t \in Servers |-> UndeliveredRows(t)] EXCEPT ![s] = Tail(@)]
  BY <1>7, <1>8
<1>10. c \notin {d \in Clients : hasResult[d]}
  BY <1>3 DEF Waiting
<1>11. {d \in Clients : hasResult[d]}' = {d \in Clients : hasResult[d]} \cup {c}
  BY <1>3 DEF Deliver, IInv, TypeOK
<1>12. PendingRows' = PendingRows
  BY SameQueue DEF Deliver, ring
<1> QED
  BY <1>7, <1>9, <1>10, <1>11, <1>12 DEF BQ!Answer

\* A server takes as many of the oldest requests as fit in a batch.
LEMMA GrabTakes ==
  ASSUME IInv, IInv', NEW s \in Servers, Grab(s)
  PROVE  BQ!Take(s)
<1> DEFINE Q == PendingRows
           Q2 == PendingRows'
           len == Len(Q)
           n == IF len < MaxBatchSize THEN len ELSE MaxBatchSize
           U2 == UndeliveredRows(s)'
<1>1. /\ oldestIdx \in Idx /\ curIdx \in Idx /\ curLen \in Rows
      /\ RequestsIn(Waiting, resultBufs, oldestIdx, curIdx, curLen)
  BY QueueOfWaiting DEF IInv, TypeOK
<1>2. /\ Q = Requests(resultBufs, oldestIdx, curIdx, curLen)
      /\ Q2 = Requests(resultBufs', oldestIdx', curIdx', curLen')
  BY PendingIs DEF IInv
<1>3. Q \in Seq(Waiting) /\ len \in Nat
      /\ len = FullCount(oldestIdx, curIdx) * MaxBatchSize + curLen
  BY <1>1, <1>2, RequestsAre
<1>4. UndeliveredRows(s) = <<>>
  <2>1. server[s] = "loop" /\ UndeliveredRows(s) = Undelivered(server[s], held[s], row[s], numRows[s])
    BY UndeliveredIs DEF IInv, Grab
  <2> QED
    BY <2>1 DEF Undelivered
<1>5. U2 = [i \in 1 .. numRows'[s] |-> resultBufs[oldestIdx][i - 1]]
  <2>1. /\ server'[s] = "grabbed" /\ held'[s] = resultBufs[oldestIdx] /\ row'[s] = 0
        /\ numRows'[s] \in 0 .. MaxBatchSize
    BY DEF Grab, IInv, TypeOK
  <2>2. U2 = Undelivered(server'[s], held'[s], row'[s], numRows'[s])
    BY UndeliveredIs DEF IInv
  <2>3. U2 = [i \in 1 .. (numRows'[s] - 0) |-> resultBufs[oldestIdx][0 + i - 1]]
    BY <2>1, <2>2 DEF Undelivered
  <2>4. numRows'[s] - 0 = numRows'[s] /\ \A i \in 1 .. numRows'[s] : 0 + i - 1 = i - 1
    BY <2>1, Sizes
  <2> QED
    BY <2>3, <2>4
<1>6. numRows'[s] = RowsToTake
  BY DEF Grab, IInv, TypeOK
<1>7. /\ numRows'[s] = n /\ Q # <<>>
      /\ Q2 = SubSeq(Q, n + 1, len)
  <2>1. CASE curIdx = oldestIdx
    <3>1. curLen \in Nat /\ curLen # 0 /\ curLen < MaxBatchSize
      BY <1>1, <2>1, Sizes DEF Grab, NothingToServe, Rows
    <3>2. FullCount(oldestIdx, curIdx) = 0
      BY <1>1, <2>1, FullCountIs
    <3>3. len = curLen
      BY <1>3, <3>1, <3>2, Sizes
    <3>4. n = len /\ numRows'[s] = n /\ Q # <<>>
      BY <1>3, <1>6, <2>1, <3>1, <3>3 DEF RowsToTake
    <3>5. Q2 = <<>>
      <4>1. curIdx' = oldestIdx' /\ curLen' = 0 /\ oldestIdx' \in Idx
        BY <1>1, <2>1, NextIdxIs DEF Grab
      <4>2. FullCount(oldestIdx', curIdx') = 0
        BY <4>1, FullCountIs
      <4>3. FullCount(oldestIdx', curIdx') * MaxBatchSize + curLen' = 0
        BY <4>1, <4>2, Sizes
      <4> QED
        BY <1>2, <4>3 DEF Requests
    <3>6. SubSeq(Q, n + 1, len) = <<>>
      <4> HIDE DEF Q, n, len
      <4>1. \A i \in n + 1 .. len : Q[i] \in Waiting
        BY <1>3, <3>4
      <4>2. n + 1 \in Int /\ len \in Int /\ n + 1 > len
        BY <1>3, <3>4
      <4>3. SubSeq(Q, n + 1, len) \in Seq(Waiting) /\ Len(SubSeq(Q, n + 1, len)) = 0
        BY <4>1, <4>2, SubSeqProperties
      <4> QED
        BY <4>3, EmptySeq
    <3> QED
      BY <3>4, <3>5, <3>6
  <2>2. CASE curIdx # oldestIdx
    <3>1. SameElsewhere(resultBufs, resultBufs', oldestIdx)
      BY DEF Grab, IInv, TypeOK, SameElsewhere
    <3>2. oldestIdx' = NextIdx(oldestIdx) /\ UNCHANGED <<curIdx, curLen>>
      BY <2>2 DEF Grab
    <3>3. /\ IsCut(Requests(resultBufs', NextIdx(oldestIdx), curIdx, curLen),
                   Requests(resultBufs, oldestIdx, curIdx, curLen),
                   MaxBatchSize + 1, Len(Requests(resultBufs, oldestIdx, curIdx, curLen)))
          /\ Len(Requests(resultBufs, oldestIdx, curIdx, curLen)) >= MaxBatchSize
      BY <1>1, <2>2, <3>1, RequestsLeft
    <3>4. IsCut(Q2, Q, MaxBatchSize + 1, len) /\ len >= MaxBatchSize
      BY <1>2, <3>2, <3>3
    <3>5. n = MaxBatchSize /\ numRows'[s] = n
      BY <1>3, <1>6, <2>2, <3>4, Sizes DEF RowsToTake
    <3>6. Q # <<>>
      BY <1>3, <3>4, Sizes
    <3> QED
      BY <3>4, <3>5, <3>6 DEF IsCut
  <2> QED
    BY <2>1, <2>2
<1>8. U2 = SubSeq(Q, 1, n)
  <2>1. n \in Nat /\ n <= MaxBatchSize /\ n <= len
    BY <1>3, Sizes
  <2> HIDE DEF n
  <2>2. n <= Len(Requests(resultBufs, oldestIdx, curIdx, curLen))
    BY <1>2, <2>1
  <2>3. IsCut([k \in 1 .. n |-> resultBufs[oldestIdx][k - 1]],
              Requests(resultBufs, oldestIdx, curIdx, curLen), 1, n)
    BY <1>1, <2>1, <2>2, FirstRequests
  <2>4. IsCut(U2, Q, 1, n)
    BY <1>2, <1>5, <1>7, <2>3
  <2> QED
    BY <2>4 DEF IsCut
<1>9. ASSUME NEW t \in Servers, t # s PROVE UndeliveredRows(t)' = UndeliveredRows(t)
  <2>1. held'[t] = held[t] /\ row'[t] = row[t] /\ numRows'[t] = numRows[t] /\ server'[t] = server[t]
    BY <1>9 DEF Grab, IInv, TypeOK
  <2> QED
    BY <2>1, SameHand
<1>10. [t \in Servers |-> UndeliveredRows(t)]' =
         [[t \in Servers |-> UndeliveredRows(t)] EXCEPT ![s] = SubSeq(Q, 1, n)]
  <2> HIDE DEF Q, n
  <2> QED
    BY <1>8, <1>9
<1>11. UNCHANGED {c \in Clients : hasResult[c]}
  BY DEF Grab, clientVars
<1> QED
  BY <1>4, <1>7, <1>10, <1>11 DEF BQ!Take

\* Every step of the evaluator is a step of the queue, or leaves it alone.
LEMMA QueueSimulation == IInv /\ IInv' /\ [Next]_vars => [BQ!Next]_BQ!vars
<1> SUFFICES ASSUME IInv, IInv', [Next]_vars PROVE BQ!Next \/ UNCHANGED BQ!vars
  OBVIOUS
<1>1. CASE Spawn
  <2>1. \A s \in Servers : InHand(s) = {} /\ InHand(s)' = {}
    BY <1>1 DEF Spawn, IInv, Lifecycle, InHand
  <2> QED
    BY <1>1, <2>1, Unseen DEF Spawn, ring, clientVars
<1>2. CASE SpawnReturns \/ KillReturns
  BY <1>2, Unseen DEF SpawnReturns, KillReturns, ring, serverVars, clientVars
<1>3. CASE Kill
  <2>1. \A s \in Servers : server'[s] \in {"grabbed", "inferred"} <=> server[s] \in {"grabbed", "inferred"}
    BY <1>3 DEF Kill, NotifyAllServers
  <2> QED
    BY <1>3, <2>1, Unseen DEF Kill, ring, clientVars
<1>4. ASSUME NEW s \in Servers, Started(s) \/ ServerSleeps(s) \/ ServerExits(s) \/ SpuriousWakeup(s)
      PROVE  UNCHANGED BQ!vars
  <2>1. /\ server[s] \notin {"grabbed", "inferred"} /\ server'[s] \notin {"grabbed", "inferred"}
        /\ \A t \in Servers : t # s => server'[t] = server[t]
    BY <1>4 DEF Started, ServerSleeps, ServerExits, SpuriousWakeup, IInv, TypeOK
  <2>2. UNCHANGED <<resultBufs, curLen, curIdx, oldestIdx, held, row, numRows, hasResult>>
    BY <1>4 DEF Started, ServerSleeps, ServerExits, SpuriousWakeup, ring, clientVars
  <2> QED
    BY <2>1, <2>2, Unseen
<1>5. ASSUME NEW s \in Servers, Infer(s) PROVE UNCHANGED BQ!vars
  <2>1. /\ server[s] = "grabbed" /\ server'[s] = "inferred"
        /\ \A t \in Servers : t # s => server'[t] = server[t]
    BY <1>5 DEF Infer, IInv, TypeOK
  <2>2. UNCHANGED <<resultBufs, curLen, curIdx, oldestIdx, held, row, numRows, hasResult>>
    BY <1>5 DEF Infer, ring, clientVars
  <2> QED
    BY <2>1, <2>2, Unseen
<1>6. ASSUME NEW s \in Servers, BatchDone(s) PROVE UNCHANGED BQ!vars
  <2>1. InHand(s) = {} /\ InHand(s)' = {}
    BY <1>6, Sizes DEF BatchDone, IInv, TypeOK, InHand, Rows
  <2>2. \A t \in Servers : t # s => server'[t] = server[t] /\ row'[t] = row[t] /\ numRows'[t] = numRows[t]
    BY <1>6 DEF BatchDone, IInv, TypeOK
  <2>3. UNCHANGED <<resultBufs, curLen, curIdx, oldestIdx, held, hasResult>>
    BY <1>6 DEF BatchDone, ring, clientVars
  <2> QED
    BY <2>1, <2>2, <2>3, Unseen
<1>7. ASSUME NEW c \in Clients, ClientWaits(c) PROVE UNCHANGED BQ!vars
  BY <1>7, Unseen DEF ClientWaits, ClientSleeps, EvaluateReturns, ring, serverVars
<1>8. ASSUME NEW e \in Slots, ClearEntry(e) PROVE UNCHANGED BQ!vars
  BY <1>8, Unseen DEF ClearEntry, ring, serverVars
<1>9. CASE UNCHANGED vars
  BY <1>9, Unseen DEF vars
<1>10. ASSUME NEW s \in Servers, Grab(s) \/ Deliver(s) PROVE BQ!Next
  BY <1>10, GrabTakes, DeliverAnswers DEF BQ!Next
<1>11. ASSUME NEW c \in Clients, NEW p \in Asks[c], Submit(c, p) \/ Lookup(c, p)
       PROVE  BQ!Next \/ UNCHANGED BQ!vars
  BY <1>11, SubmitRequests, LookupHits DEF BQ!Next
<1> QED
  BY <1>1, <1>2, <1>3, <1>4, <1>5, <1>6, <1>7, <1>8, <1>9, <1>10, <1>11
     DEF Next, ServerStep

\* The evaluator starts with an empty queue.
LEMMA QueueStarts == Init => BQ!Init
<1> SUFFICES ASSUME Init PROVE BQ!Init
  OBVIOUS
<1>1. IInv
  BY InitInv
<1>2. PendingRows = <<>>
  <2>1. oldestIdx = curIdx /\ oldestIdx \in Idx /\ curLen = 0
    BY Sizes DEF Init
  <2>2. FullCount(oldestIdx, curIdx) * MaxBatchSize + curLen = 0
    BY <2>1, FullCountIs, Sizes
  <2> QED
    BY <1>1, <2>2, PendingIs DEF Requests, IInv
<1>3. ASSUME NEW s \in Servers PROVE UndeliveredRows(s) = <<>>
  <2>1. UndeliveredRows(s) = Undelivered(server[s], held[s], row[s], numRows[s])
    BY <1>1, UndeliveredIs DEF IInv
  <2> QED
    BY <2>1 DEF Init, Undelivered
<1> QED
  BY <1>2, <1>3 DEF BQ!Init, Init

\* For every number of clients and servers, every batch size and every admissible
\* ring, the ring of buffers, the batches in the servers' hands and the answers
\* behave as one queue: requests are taken in the order in which they were made, in
\* batches of the oldest ones, and each is answered once, in that order.
THEOREM NNEvalImplementsBatchQueue == Spec => ImplementsBatchQueue
BY QueueStarts, QueueSimulation, NNEvalInvariant, PTL DEF Spec, ImplementsBatchQueue, BQ!Spec
================================================================================
