------------------------- MODULE ThreadSafeQueueProofs -------------------------
(***************************************************************************)
(* Theorems about ThreadSafeQueue, for every set of threads, every         *)
(* capacity and any number of calls.                                       *)
(***************************************************************************)
EXTENDS ThreadSafeQueue, SequenceTheorems, TLAPS

\* Element by element, what Fifo says with sequences: the live part of the
\* vector continues the history of deliveries up to the history of pushes.
StorageInv ==
  ~closed =>
    /\ headIdx <= Len(elts)
    /\ Len(accepted) = Len(delivered) + Size
    /\ \A i \in 1 .. Len(delivered) : delivered[i] = accepted[i]
    /\ \A i \in 1 .. Size : elts[headIdx + i] = accepted[Len(delivered) + i]

\* Readers stop only on a queue that was ended, and a queue that was drained
\* after setReadOnly stays drained.
StopInv ==
  finished # {} => closed \/ (readOnly /\ Len(elts) = headIdx)

IInv == TypeOK /\ StorageInv /\ NoLostWakeup /\ StopInv

\* The critical sections, whichever operation runs them.
LEMMA StepCases ==
  ASSUME Next
  PROVE  \/ \E p \in Producers : /\ p \notin asleep
                                 /\ ~closed /\ ~readOnly /\ Size >= MaxSize
                                 /\ Sleep(p)
         \/ \E p \in Producers : sent[p] < MaxSent /\ p \notin asleep /\ PushElement(p)
         \/ \E p \in Producers : sent[p] < MaxSent /\ p \notin asleep /\ PushRefused(p)
         \/ \E c \in Consumers : ~closed /\ ~readOnly /\ Size <= 0 /\ Sleep(c)
         \/ \E c \in Consumers : c \notin asleep /\ PopElement(c)
         \/ \E c \in Consumers :
              /\ c \notin asleep
              /\ closed \/ (readOnly /\ Size <= 0)
              /\ calling' = calling \ {c}
              /\ finished' = finished \cup {c}
              /\ UNCHANGED <<storage, flags, asleep, sent, accepted, delivered>>
         \/ SetReadOnly \/ Close
         \/ \E t \in Threads : SpuriousWakeup(t)
BY DEF Next, WaitPush, ForcePush, WaitPop, TryPop, IsFull, HasEnded, MayCallPush, MayCallPop
--------------------------------------------------------------------------------

\* The initial state satisfies the invariant.
LEMMA InitInv == Init => IInv
<1> SUFFICES ASSUME Init PROVE IInv
  OBVIOUS
<1>1. TypeOK
  <2>1. <<>> \in Seq(Items)
    BY EmptySeq
  <2>2. [p \in Producers |-> 0] \in [Producers -> 0 .. MaxSent]
    BY QueueAssumption
  <2> QED
    BY <2>1, <2>2 DEF Init, TypeOK
<1>2. StorageInv /\ NoLostWakeup /\ StopInv
  BY DEF Init, StorageInv, NoLostWakeup, StopInv, Size
<1> QED
  BY <1>1, <1>2 DEF IInv

\* A thread that goes to sleep has just seen the condition it waits for.
LEMMA SleepInv ==
  ASSUME IInv, NEW t \in Threads, Sleep(t), ~closed, ~readOnly,
         IF t \in Producers THEN Size >= MaxSize ELSE Size <= 0
  PROVE  IInv'
<1>1. TypeOK'
  BY DEF IInv, TypeOK, Sleep
<1>2. StorageInv' /\ StopInv'
  BY DEF IInv, StorageInv, StopInv, Sleep, Size
<1>3. Size >= 0
  BY DEF IInv, StorageInv, TypeOK, Size
<1>4. NoLostWakeup'
  BY <1>3 DEF IInv, TypeOK, NoLostWakeup, Sleep, Size
<1> QED
  BY <1>1, <1>2, <1>4 DEF IInv

\* A push extends both histories' ends alike, and wakes the readers exactly
\* when one may be asleep.
LEMMA PushInv ==
  ASSUME IInv, NEW p \in Producers, sent[p] < MaxSent,
         p \notin asleep, PushElement(p)
  PROVE  IInv'
<1> USE QueueAssumption
<1> DEFINE item == NextItem(p)
<1>1. item \in Items
  BY DEF IInv, TypeOK, NextItem, Items
<1>2. /\ elts \in Seq(Items) /\ accepted \in Seq(Items) /\ delivered \in Seq(Items)
      /\ headIdx \in Nat /\ Len(elts) \in Nat /\ Len(accepted) \in Nat
      /\ Len(delivered) \in Nat
  BY LenProperties DEF IInv, TypeOK
<1>3. elts' = Append(elts, item) /\ accepted' = Append(accepted, item)
  BY DEF PushElement
<1>4. /\ Len(elts') = Len(elts) + 1
      /\ elts' \in Seq(Items)
      /\ \A i \in 1 .. Len(elts) : elts'[i] = elts[i]
      /\ elts'[Len(elts) + 1] = item
  BY <1>1, <1>2, <1>3, AppendProperties
<1>5. /\ Len(accepted') = Len(accepted) + 1
      /\ accepted' \in Seq(Items)
      /\ \A i \in 1 .. Len(accepted) : accepted'[i] = accepted[i]
      /\ accepted'[Len(accepted) + 1] = item
  BY <1>1, <1>2, <1>3, AppendProperties
<1>6. TypeOK'
  <2>1. calling' \in SUBSET Threads /\ asleep' \in SUBSET calling'
    BY DEF IInv, TypeOK, PushElement, NotifyNotEmpty, Threads, NoLostWakeup, StorageInv
  <2>2. sent' \in [Producers -> 0 .. MaxSent]
    BY DEF IInv, TypeOK, PushElement
  <2> QED
    BY <2>1, <2>2, <1>4, <1>5 DEF IInv, TypeOK, PushElement
<1>7. StorageInv'
  <2>1. /\ headIdx <= Len(elts)
        /\ Len(accepted) = Len(delivered) + Size
        /\ headIdx' = headIdx /\ delivered' = delivered
    BY DEF IInv, StorageInv, PushElement
  <2>2. Len(accepted') = Len(delivered') + (Len(elts') - headIdx')
    BY <1>2, <1>4, <1>5, <2>1 DEF Size
  <2>3. \A i \in 1 .. Len(delivered) : delivered[i] = accepted'[i]
    BY <1>2, <1>5, <2>1 DEF IInv, StorageInv, PushElement, Size
  <2>4. ASSUME NEW i \in 1 .. Size + 1
        PROVE  elts'[headIdx + i] = accepted'[Len(delivered) + i]
    <3>1. CASE i = Size + 1
      BY <3>1, <1>2, <1>4, <1>5, <2>1 DEF Size
    <3>2. CASE i \in 1 .. Size
      <4>1. elts[headIdx + i] = accepted[Len(delivered) + i]
        BY <3>2 DEF IInv, StorageInv, PushElement
      <4> QED
        BY <3>2, <4>1, <1>2, <1>4, <1>5, <2>1 DEF Size
    <3> QED
      BY <3>1, <3>2, <1>2 DEF Size
  <2> QED
    BY <1>2, <1>4, <2>1, <2>2, <2>3, <2>4 DEF StorageInv, Size
<1>8. NoLostWakeup'
  <2>1. Size' = Size + 1 /\ Size \in Int /\ Size >= 0
    BY <1>2, <1>4 DEF Size, PushElement, IInv, StorageInv
  <2>2. ~closed' /\ ~readOnly'
    BY DEF PushElement
  <2>3. ASSUME NEW t \in asleep'
        PROVE  IF t \in Producers THEN Size' >= MaxSize ELSE Size' = 0
    BY <2>1, <2>3 DEF IInv, TypeOK, Threads, NoLostWakeup, PushElement, NotifyNotEmpty
  <2> QED
    BY <2>2, <2>3 DEF NoLostWakeup
<1>9. StopInv'
  BY DEF IInv, StopInv, PushElement
<1> QED
  BY <1>6, <1>7, <1>8, <1>9 DEF IInv

\* A pop takes the oldest element, whether or not it shifts the vector, and
\* wakes the writers exactly when one may be asleep.
LEMMA PopInv ==
  ASSUME IInv, NEW c \in Consumers, c \notin asleep, PopElement(c)
  PROVE  IInv'
<1> USE QueueAssumption
<1>1. /\ elts \in Seq(Items) /\ accepted \in Seq(Items) /\ delivered \in Seq(Items)
      /\ headIdx \in Nat /\ Len(elts) \in Nat /\ Len(accepted) \in Nat
      /\ Len(delivered) \in Nat
  BY LenProperties DEF IInv, TypeOK
<1>2. /\ headIdx < Len(elts)
      /\ Len(accepted) = Len(delivered) + (Len(elts) - headIdx)
      /\ ~closed
  BY <1>1 DEF IInv, StorageInv, PopElement, Size
<1>3. elts[headIdx + 1] \in Items /\ elts[headIdx + 1] = accepted[Len(delivered) + 1]
  <2>1. headIdx + 1 \in 1 .. Len(elts) /\ 1 \in 1 .. Size
    BY <1>1, <1>2 DEF Size
  <2> QED
    BY <1>1, <1>2, <2>1, ElementOfSeq DEF IInv, StorageInv
<1>4. /\ delivered' \in Seq(Items)
      /\ Len(delivered') = Len(delivered) + 1
      /\ \A i \in 1 .. Len(delivered) : delivered'[i] = delivered[i]
      /\ delivered'[Len(delivered) + 1] = elts[headIdx + 1]
  BY <1>1, <1>3, AppendProperties DEF PopElement
<1>5. /\ elts' \in Seq(Items) /\ headIdx' \in Nat
      /\ Len(elts') - headIdx' = Len(elts) - headIdx - 1
      /\ \A i \in 1 .. Len(elts') - headIdx' :
            elts'[headIdx' + i] = elts[headIdx + 1 + i]
  <2>1. CASE headIdx + 1 > Len(elts) \div 2
    <3>1. elts' = SubSeq(elts, headIdx + 2, Len(elts)) /\ headIdx' = 0
      BY <2>1, <1>1 DEF PopElement
    <3>2. \A i \in headIdx + 2 .. Len(elts) : elts[i] \in Items
      BY <1>1, ElementOfSeq
    <3>3. /\ elts' \in Seq(Items)
          /\ Len(elts') = IF headIdx + 2 <= Len(elts)
                            THEN Len(elts) - (headIdx + 2) + 1 ELSE 0
          /\ \A i \in 1 .. Len(elts) - (headIdx + 2) + 1 :
                elts'[i] = elts[headIdx + 2 + i - 1]
      BY <1>1, <3>1, <3>2, SubSeqProperties
    <3>4. Len(elts') = Len(elts) - headIdx - 1
      BY <1>1, <1>2, <3>3
    <3> QED
      BY <1>1, <1>2, <3>1, <3>3, <3>4
  <2>2. CASE ~(headIdx + 1 > Len(elts) \div 2)
    BY <2>2, <1>1, <1>2 DEF PopElement
  <2> QED
    BY <2>1, <2>2
<1>6. TypeOK'
  BY <1>4, <1>5 DEF IInv, TypeOK, PopElement, NotifyNotFull, Threads
<1>7. StorageInv'
  <2>1. accepted' = accepted
    BY DEF PopElement
  <2>2. headIdx' <= Len(elts')
    BY <1>1, <1>2, <1>5, LenProperties
  <2>3. Len(accepted') = Len(delivered') + (Len(elts') - headIdx')
    <3>1. Len(elts') \in Nat /\ headIdx' \in Nat
      BY <1>5, LenProperties
    <3>2. Len(elts') - headIdx' = Len(elts) - headIdx - 1
      BY <1>5
    <3>3. Len(delivered') = Len(delivered) + 1
      BY <1>4
    <3> QED
      BY <1>1, <1>2, <2>1, <3>1, <3>2, <3>3
  <2>4. ASSUME NEW i \in 1 .. Len(delivered) + 1
        PROVE  delivered'[i] = accepted'[i]
    <3>1. CASE i = Len(delivered) + 1
      BY <3>1, <1>3, <1>4, <2>1
    <3>2. CASE i \in 1 .. Len(delivered)
      <4>1. delivered[i] = accepted[i]
        BY <1>2, <3>2 DEF IInv, StorageInv
      <4> QED
        BY <3>2, <4>1, <1>4, <2>1
    <3>3. i = Len(delivered) + 1 \/ i \in 1 .. Len(delivered)
      BY LenProperties DEF IInv, TypeOK
    <3> QED
      BY <3>1, <3>2, <3>3
  <2>5. ASSUME NEW i \in 1 .. Len(elts') - headIdx'
        PROVE  elts'[headIdx' + i] = accepted'[Len(delivered') + i]
    <3>1. i + 1 \in 1 .. Size
      BY <1>1, <1>5 DEF Size
    <3>2. elts[headIdx + (i + 1)] = accepted[Len(delivered) + (i + 1)]
      BY <1>2, <3>1 DEF IInv, StorageInv
    <3>3. headIdx + (i + 1) = headIdx + 1 + i
          /\ Len(delivered) + (i + 1) = Len(delivered) + 1 + i
      BY <1>1, <3>1
    <3> QED
      BY <1>4, <1>5, <2>1, <3>2, <3>3
  <2> QED
    BY <1>4, <2>2, <2>3, <2>4, <2>5 DEF StorageInv, Size
<1>8. NoLostWakeup'
  <2>1. Size' = Size - 1 /\ Size \in Int /\ Size > 0
    BY <1>1, <1>5 DEF Size, PopElement
  <2>2. closed' = closed /\ readOnly' = readOnly
    BY DEF PopElement
  <2>3. asleep' \subseteq asleep
    BY DEF PopElement, NotifyNotFull
  <2>4. ASSUME NEW t \in asleep'
        PROVE  IF t \in Producers THEN Size' >= MaxSize ELSE Size' = 0
    <3>1. t \in Producers /\ Size >= MaxSize
      BY <2>1, <2>3, <2>4 DEF IInv, NoLostWakeup
    <3>2. Size # MaxSize
      BY <3>1, <2>4 DEF PopElement, NotifyNotFull
    <3> QED
      BY <3>1, <3>2, <2>1
  <2> QED
    BY <2>2, <2>3, <2>4 DEF IInv, NoLostWakeup
<1>9. StopInv'
  <2>1. finished = {}
    BY <1>1, <1>2 DEF IInv, StopInv
  <2> QED
    BY <2>1 DEF StopInv, PopElement
<1> QED
  BY <1>6, <1>7, <1>8, <1>9 DEF IInv

\* Every step preserves the invariant.
LEMMA NextInv == IInv /\ [Next]_vars => IInv'
<1> SUFFICES ASSUME IInv, [Next]_vars PROVE IInv'
  OBVIOUS
<1>1. CASE UNCHANGED vars
  BY <1>1 DEF vars, IInv, TypeOK, StorageInv, NoLostWakeup, StopInv, Size
<1>2. CASE Next
  <2>1. ASSUME NEW p \in Producers, p \notin asleep, ~closed, ~readOnly,
               Size >= MaxSize, Sleep(p)
        PROVE  IInv'
    BY <2>1, SleepInv DEF Threads
  <2>2. ASSUME NEW c \in Consumers, ~closed, ~readOnly, Size <= 0, Sleep(c)
        PROVE  IInv'
    BY <2>2, SleepInv, QueueAssumption DEF Threads
  <2>3. ASSUME NEW p \in Producers, sent[p] < MaxSent, p \notin asleep, PushRefused(p)
        PROVE  IInv'
    <3>1. TypeOK'
      BY <2>3, QueueAssumption DEF IInv, TypeOK, PushRefused
    <3>2. StorageInv' /\ NoLostWakeup' /\ StopInv'
      BY <2>3 DEF IInv, StorageInv, NoLostWakeup, StopInv, PushRefused, Size
    <3> QED
      BY <3>1, <3>2 DEF IInv
  <2>4. ASSUME NEW c \in Consumers, c \notin asleep,
               closed \/ (readOnly /\ Size <= 0),
               calling' = calling \ {c}, finished' = finished \cup {c},
               UNCHANGED <<storage, flags, asleep, sent, accepted, delivered>>
        PROVE  IInv'
    <3> USE DEF storage, flags
    <3>1. TypeOK'
      BY <2>4 DEF IInv, TypeOK
    <3>2. StorageInv' /\ NoLostWakeup'
      BY <2>4 DEF IInv, StorageInv, NoLostWakeup, Size
    <3>3. StopInv'
      BY <2>4, LenProperties DEF IInv, StorageInv, TypeOK, StopInv, Size
    <3> QED
      BY <3>1, <3>2, <3>3 DEF IInv
  <2>5. CASE SetReadOnly
    BY <2>5 DEF IInv, TypeOK, StorageInv, NoLostWakeup, StopInv, SetReadOnly, Size
  <2>6. CASE Close
    <3>1. <<>> \in Seq(Items)
      BY EmptySeq
    <3> QED
      BY <2>6, <3>1 DEF IInv, TypeOK, StorageInv, NoLostWakeup, StopInv, Close, Size
  <2>7. ASSUME NEW t \in Threads, SpuriousWakeup(t)
        PROVE  IInv'
    BY <2>7 DEF IInv, TypeOK, StorageInv, NoLostWakeup, StopInv, SpuriousWakeup, Size,
                storage, flags
  <2>8. ASSUME NEW p \in Producers, sent[p] < MaxSent, p \notin asleep, PushElement(p)
        PROVE  IInv'
    BY <2>8, PushInv
  <2>9. ASSUME NEW c \in Consumers, c \notin asleep, PopElement(c)
        PROVE  IInv'
    BY <2>9, PopInv
  <2> QED
    BY <1>2, StepCases, <2>1, <2>2, <2>3, <2>4, <2>5, <2>6, <2>7, <2>8, <2>9
<1> QED
  BY <1>1, <1>2

--------------------------------------------------------------------------------

\* The invariant in the words of the properties.
LEMMA InvImpliesFifo == IInv => Fifo
<1> SUFFICES ASSUME IInv, ~closed
             PROVE  accepted = delivered \o SubSeq(elts, headIdx + 1, Len(elts))
  BY DEF Fifo
<1> DEFINE rest == SubSeq(elts, headIdx + 1, Len(elts))
<1>1. /\ elts \in Seq(Items) /\ accepted \in Seq(Items) /\ delivered \in Seq(Items)
      /\ headIdx \in Nat /\ Len(elts) \in Nat /\ Len(accepted) \in Nat
      /\ Len(delivered) \in Nat /\ headIdx <= Len(elts)
      /\ Len(accepted) = Len(delivered) + (Len(elts) - headIdx)
  BY LenProperties DEF IInv, TypeOK, StorageInv, Size
<1>2. /\ rest \in Seq(Items)
      /\ Len(rest) = Len(elts) - headIdx
      /\ \A i \in 1 .. Len(rest) : rest[i] = elts[headIdx + i]
  <2>1. \A i \in headIdx + 1 .. Len(elts) : elts[i] \in Items
    BY <1>1, ElementOfSeq
  <2>2. /\ rest \in Seq(Items)
        /\ Len(rest) = IF headIdx + 1 <= Len(elts)
                         THEN Len(elts) - (headIdx + 1) + 1 ELSE 0
        /\ \A i \in 1 .. Len(elts) - (headIdx + 1) + 1 :
              rest[i] = elts[headIdx + 1 + i - 1]
    BY <1>1, <2>1, SubSeqProperties
  <2> QED
    BY <1>1, <2>2
<1> HIDE DEF rest
<1>3. /\ delivered \o rest \in Seq(Items)
      /\ Len(delivered \o rest) = Len(accepted)
      /\ \A i \in 1 .. Len(delivered) + Len(rest) :
            (delivered \o rest)[i] =
               IF i <= Len(delivered) THEN delivered[i] ELSE rest[i - Len(delivered)]
  BY <1>1, <1>2, ConcatProperties
<1>4. ASSUME NEW i \in 1 .. Len(accepted)
      PROVE  accepted[i] = (delivered \o rest)[i]
  <2>1. CASE i <= Len(delivered)
    BY <2>1, <1>1, <1>2, <1>3 DEF IInv, StorageInv
  <2>2. CASE i > Len(delivered)
    <3>1. PICK j \in 1 .. Size : i = Len(delivered) + j
      <4>1. i - Len(delivered) \in 1 .. Size /\ i = Len(delivered) + (i - Len(delivered))
        BY <2>2, <1>1 DEF Size
      <4> QED
        BY <4>1
    <3>2. elts[headIdx + j] = accepted[Len(delivered) + j]
      BY DEF IInv, StorageInv
    <3>3. rest[j] = elts[headIdx + j]
      BY <1>1, <1>2 DEF Size
    <3>4. i \in 1 .. Len(delivered) + Len(rest) /\ i - Len(delivered) = j
      BY <3>1, <1>1, <1>2 DEF Size
    <3>5. (delivered \o rest)[i] = rest[j]
      BY <2>2, <3>4, <1>1, <1>3
    <3> QED
      BY <3>1, <3>2, <3>3, <3>5
  <2>3. i <= Len(delivered) \/ i > Len(delivered)
    BY <1>1
  <2> QED
    BY <2>1, <2>2, <2>3
<1> QED
  BY <1>1, <1>3, <1>4, SeqEqual DEF rest

\* Once every reader was told to stop, the vector is empty of live elements.
LEMMA InvImpliesDrained == IInv => DrainedWhenReadersStop
<1> SUFFICES ASSUME IInv, Consumers # {}, Consumers \subseteq finished, ~closed
             PROVE  accepted = delivered /\ readOnly
  BY DEF DrainedWhenReadersStop
<1>1. readOnly /\ Len(elts) = headIdx
  BY DEF IInv, StopInv
<1>2. Len(accepted) = Len(delivered)
  BY <1>1, LenProperties DEF IInv, TypeOK, StorageInv, Size
<1>3. \A i \in 1 .. Len(accepted) : accepted[i] = delivered[i]
  BY <1>2 DEF IInv, StorageInv
<1> QED
  BY <1>1, <1>2, <1>3, SeqEqual DEF IInv, TypeOK

\* The invariant holds in every reachable state.
THEOREM QueueInvariant == Spec => []IInv
BY InitInv, NextInv, PTL DEF Spec

\* Every reachable state is well typed.
THEOREM QueueTypeCorrect == Spec => []TypeOK
<1>1. IInv => TypeOK
  BY DEF IInv
<1> QED
  BY <1>1, QueueInvariant, PTL

\* Whatever the number of threads and the capacity, no thread is ever left
\* asleep on a condition that holds (waitPush, forcePush, waitPop, tryPop).
THEOREM QueueNoLostWakeup == Spec => []NoLostWakeup
<1>1. IInv => NoLostWakeup
  BY DEF IInv
<1> QED
  BY <1>1, QueueInvariant, PTL

\* The vector with its lazy shift behaves as a first-in first-out queue.
THEOREM QueueFifo == Spec => []Fifo
BY InvImpliesFifo, QueueInvariant, PTL

\* Readers that were all told to stop have left nothing behind.
THEOREM QueueDrained == Spec => []DrainedWhenReadersStop
BY InvImpliesDrained, QueueInvariant, PTL

\* Nobody but close() leaves headIdx behind a shorter vector.
THEOREM QueueSizeAssertion == Spec => [](MayClose \/ SizeAssertion)
<1> DEFINE Open == MayClose \/ ~closed
<1>1. Init => Open
  BY DEF Init
<1>2. Open /\ [Next]_vars => Open'
  BY DEF vars, Next, WaitPush, ForcePush, WaitPop, TryPop, IsFull, HasEnded, Sleep, PushElement,
         PushRefused, PopElement, SetReadOnly, Close, SpuriousWakeup, flags
<1>3. IInv /\ Open => MayClose \/ SizeAssertion
  BY DEF IInv, StorageInv, SizeAssertion
<1> QED
  BY <1>1, <1>2, <1>3, QueueInvariant, PTL DEF Spec

--------------------------------------------------------------------------------

\* An element leaves the vector in the position in which it was accepted.
LEMMA PopIsAbstractPop ==
  ASSUME IInv, NEW c \in Consumers, PopElement(c)
  PROVE  CQ!Pop
<1>1. /\ headIdx \in Nat /\ Len(elts) \in Nat /\ Len(delivered) \in Nat
      /\ Len(accepted) = Len(delivered) + Size
  BY LenProperties DEF IInv, TypeOK, StorageInv, PopElement
<1>2. Size > 0 /\ Size \in Int /\ ~closed
  BY <1>1 DEF Size, PopElement
<1>3. elts[headIdx + 1] = accepted[Len(delivered) + 1]
  BY <1>1, <1>2 DEF IInv, StorageInv
<1>4. CQ!Backlog > 0
  BY <1>1, <1>2 DEF CQ!Backlog
<1> QED
  BY <1>2, <1>3, <1>4 DEF CQ!Pop, PopElement

\* Every step of the queue is a step of ClosableQueue or leaves it unchanged.
LEMMA StepSimulation == IInv /\ [Next]_vars => [CQ!Next]_CQ!vars
<1> SUFFICES ASSUME IInv, [Next]_vars PROVE [CQ!Next]_CQ!vars
  OBVIOUS
<1>1. CASE UNCHANGED vars
  BY <1>1 DEF vars, CQ!vars
<1>2. ASSUME NEW p \in Producers, MayCallPush(p), PushElement(p),
             p \in Forcers \/ Size < MaxSize
      PROVE  CQ!Next
  <2>1. NextItem(p) \in Items
    BY <1>2, QueueAssumption DEF IInv, TypeOK, NextItem, Items, MayCallPush
  <2>2. CQ!Accept(NextItem(p)) /\ (p \in Forcers => NextItem(p) \in Forcers \X (1 .. MaxSent))
    BY <1>2, <2>1 DEF CQ!Accept, PushElement, NextItem, Items
  <2>3. CQ!Backlog = Size
    BY <1>2, LenProperties DEF IInv, TypeOK, StorageInv, CQ!Backlog, PushElement, Size
  <2> QED
    BY <1>2, <2>1, <2>2, <2>3 DEF CQ!Next, CQ!ForcePush, CQ!WaitPush
<1>3. ASSUME NEW c \in Consumers, PopElement(c)
      PROVE  CQ!Next
  BY <1>3, PopIsAbstractPop DEF CQ!Next
<1>4. SetReadOnly => CQ!Next
  BY DEF SetReadOnly, CQ!Next, CQ!SetReadOnly
<1>5. Close => CQ!Next
  BY DEF Close, CQ!Next, CQ!Close
<1>6. ASSUME NEW p \in Producers, WaitPush(p) \/ ForcePush(p)
      PROVE  [CQ!Next]_CQ!vars
  <2>1. ~IsFull <=> Size < MaxSize
    BY QueueAssumption, LenProperties DEF IsFull, Size, IInv, TypeOK
  <2>2. MayCallPush(p)
    BY <1>6 DEF WaitPush, ForcePush
  <2> QED
    BY <1>2, <1>6, <2>1, <2>2 DEF WaitPush, ForcePush, Sleep, PushRefused, CQ!vars
<1>7. ASSUME NEW c \in Consumers, WaitPop(c) \/ TryPop(c)
      PROVE  [CQ!Next]_CQ!vars
  BY <1>3, <1>7 DEF WaitPop, TryPop, HasEnded, Sleep, flags, CQ!vars
<1>8. ASSUME NEW t \in Threads, SpuriousWakeup(t)
      PROVE  [CQ!Next]_CQ!vars
  BY <1>8 DEF SpuriousWakeup, flags, CQ!vars
<1> QED
  BY <1>1, <1>4, <1>5, <1>6, <1>7, <1>8 DEF Next

\* For every capacity, with and without forcePush and close, the vector, the
\* wait loops and the notifications implement the queue the header promises.
THEOREM QueueImplementsClosableQueue == Spec => ImplementsClosableQueue
<1>1. Init => CQ!Init
  BY DEF Init, CQ!Init
<1> QED
  BY <1>1, StepSimulation, QueueInvariant, PTL
     DEF Spec, ImplementsClosableQueue, CQ!Spec
================================================================================
