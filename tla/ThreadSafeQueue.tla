---------------------------- MODULE ThreadSafeQueue ----------------------------
(***************************************************************************)
(* core/threadsafequeue.h: a queue guarded by one mutex and two condition  *)
(* variables.  Each critical section of the code is one step, because the  *)
(* mutex is held from its first to its last line; a thread that waits on a *)
(* condition variable gives the mutex up and runs its while test again     *)
(* when it is notified (or wakes spuriously, which C++ allows).            *)
(*                                                                         *)
(* Storage: elts is a vector whose first headIdx entries were popped       *)
(* already; popUnsynchronized shifts the rest down when they are more than *)
(* half of the vector.                                                     *)
(***************************************************************************)
EXTENDS Naturals, Integers, Sequences

CONSTANTS Producers, Consumers,  \* threads that push, threads that pop
          MaxSize,               \* capacity given to the constructor
          MaxSent,               \* bound: calls of push by one producer
          Forcers,               \* producers that call forcePush as well
          MayClose               \* does somebody call close()?

ASSUME QueueAssumption ==
  /\ Producers \cap Consumers = {}
  /\ MaxSize \in Nat \ {0} /\ MaxSent \in Nat
  /\ Forcers \subseteq Producers /\ MayClose \in BOOLEAN

VARIABLES elts, headIdx,     \* the storage of ThreadSafeQueue
          closed, readOnly,  \* the flags of ThreadSafeContainer
          calling,           \* threads inside waitPush or waitPop that waited
          asleep,            \* those that wait on a condition variable now
          sent,              \* number of push calls each producer has made
          finished,          \* consumers whose waitPop returned false
          accepted, delivered  \* histories of the successful pushes and pops

storage == <<elts, headIdx>>
flags == <<closed, readOnly>>
threads == <<calling, asleep>>
vars == <<elts, headIdx, closed, readOnly, calling, asleep, sent, finished,
          accepted, delivered>>

Threads == Producers \cup Consumers
Items == Producers \X (1 .. MaxSent)

Init ==
  /\ elts = <<>> /\ headIdx = 0
  /\ closed = FALSE /\ readOnly = FALSE
  /\ calling = {} /\ asleep = {}
  /\ sent = [p \in Producers |-> 0]
  /\ finished = {}
  /\ accepted = <<>> /\ delivered = <<>>

\* sizeUnsynchronized; its assertion is the property SizeAssertion below.
Size == Len(elts) - headIdx

\* A mistake: nobody is woken.
NobodyIsNotified == asleep

\* notFullCondVar.notify_all() and notEmptyCondVar.notify_all().
NotifyNotFull == asleep \ Producers
NotifyNotEmpty == asleep \ Consumers

Sleep(t) ==
  /\ calling' = calling \cup {t}
  /\ asleep' = asleep \cup {t}
  /\ UNCHANGED <<elts, headIdx, closed, readOnly, sent, finished, accepted, delivered>>

NextItem(p) == <<p, sent[p] + 1>>

MayCallPush(p) == p \notin asleep /\ sent[p] < MaxSent

\* The accepting end of waitPush and forcePush, with pushUnsynchronized: the
\* consumers are notified only when the queue has just stopped being empty.
PushElement(p) ==
  /\ ~closed /\ ~readOnly
  /\ elts' = Append(elts, NextItem(p))
  /\ accepted' = Append(accepted, NextItem(p))
  /\ asleep' = IF Size + 1 = 1 THEN NotifyNotEmpty ELSE asleep
  /\ calling' = calling \ {p}
  /\ sent' = [sent EXCEPT ![p] = @ + 1]
  /\ UNCHANGED <<headIdx, closed, readOnly, finished, delivered>>

\* if(closed || readOnly) return false;
PushRefused(p) ==
  /\ closed \/ readOnly
  /\ calling' = calling \ {p}
  /\ sent' = [sent EXCEPT ![p] = @ + 1]
  /\ UNCHANGED <<elts, headIdx, closed, readOnly, asleep, finished, accepted, delivered>>

IsFull == Size >= MaxSize

WaitPush(p) ==
  /\ MayCallPush(p)
  /\ \/ ~closed /\ ~readOnly /\ IsFull /\ Sleep(p)
     \/ ~IsFull /\ PushElement(p)
     \/ PushRefused(p)

ForcePush(p) ==
  /\ p \in Forcers /\ MayCallPush(p) /\ p \notin calling
  /\ PushElement(p) \/ PushRefused(p)

\* A mistake: the elements are shifted and headIdx stays.
PopWithoutReset(c) ==
  LET h == headIdx + 1 IN
  /\ ~closed /\ Size > 0
  /\ asleep' = IF Size = MaxSize THEN NotifyNotFull ELSE asleep
  /\ delivered' = Append(delivered, elts[h])
  /\ headIdx' = h
  /\ elts' = IF h > Len(elts) \div 2 THEN SubSeq(elts, h + 1, Len(elts)) ELSE elts
  /\ calling' = calling \ {c}
  /\ UNCHANGED <<closed, readOnly, sent, finished, accepted>>

\* popUnsynchronized: the shift happens when more than half was popped.
PopElement(c) ==
  LET h == headIdx + 1 IN
  /\ ~closed /\ Size > 0
  /\ asleep' = IF Size = MaxSize THEN NotifyNotFull ELSE asleep
  /\ delivered' = Append(delivered, elts[h])
  /\ IF h > Len(elts) \div 2
     THEN elts' = SubSeq(elts, h + 1, Len(elts)) /\ headIdx' = 0
     ELSE elts' = elts /\ headIdx' = h
  /\ calling' = calling \ {c}
  /\ UNCHANGED <<closed, readOnly, sent, finished, accepted>>

MayCallPop(c) == c \notin asleep /\ c \notin finished

\* A mistake: a reader of a read-only queue leaves the rest behind.
StopsAtOnce == closed \/ readOnly

\* What is left in a read-only queue is still popped.
HasEnded == closed \/ (readOnly /\ Size <= 0)

\* Every reader of the program leaves its loop when waitPop returns false.
WaitPop(c) ==
  /\ MayCallPop(c)
  /\ \/ ~closed /\ ~readOnly /\ Size <= 0 /\ Sleep(c)
     \/ PopElement(c)
     \/ /\ HasEnded
        /\ calling' = calling \ {c}
        /\ finished' = finished \cup {c}
        /\ UNCHANGED <<storage, flags, asleep, sent, accepted, delivered>>

\* Its false return (closed or empty) changes nothing.
TryPop(c) == MayCallPop(c) /\ c \notin calling /\ PopElement(c)

SetReadOnly ==
  /\ readOnly' = TRUE
  /\ asleep' = {}
  /\ UNCHANGED <<elts, headIdx, closed, calling, sent, finished, accepted, delivered>>

\* clearUnsynchronized empties the vector and leaves headIdx as it is.
Close ==
  /\ MayClose
  /\ closed' = TRUE
  /\ elts' = <<>>
  /\ asleep' = {}
  /\ UNCHANGED <<headIdx, readOnly, calling, sent, finished, accepted, delivered>>

\* A condition variable may return without a notification.
SpuriousWakeup(t) ==
  /\ t \in asleep
  /\ asleep' = asleep \ {t}
  /\ UNCHANGED <<storage, flags, calling, sent, finished, accepted, delivered>>

Next ==
  \/ \E p \in Producers : WaitPush(p) \/ ForcePush(p)
  \/ \E c \in Consumers : WaitPop(c) \/ TryPop(c)
  \/ SetReadOnly \/ Close
  \/ \E t \in Threads : SpuriousWakeup(t)

Spec == Init /\ [][Next]_vars

\* Threads that are not asleep keep running: readers are loops around waitPop,
\* and a writer inside waitPush tests again once it is notified.  Nothing makes
\* a writer start a push, nobody has to end the queue, and no wakeup is
\* guaranteed except by a notification.
Fairness == /\ \A c \in Consumers : WF_vars(WaitPop(c))
            /\ \A p \in Producers : WF_vars(p \in calling /\ WaitPush(p))

FairSpec == Spec /\ Fairness

--------------------------------------------------------------------------------

\* The values the variables range over.
TypeOK ==
  /\ elts \in Seq(Items) /\ headIdx \in Nat
  /\ closed \in BOOLEAN /\ readOnly \in BOOLEAN
  /\ calling \in SUBSET Threads /\ asleep \in SUBSET calling
  /\ sent \in [Producers -> 0 .. MaxSent]
  /\ finished \in SUBSET Consumers
  /\ accepted \in Seq(Items) /\ delivered \in Seq(Items)

\* Notifying only on the edges empty -> non-empty and full -> not full
\* (lines 95, 108, 122, 139) loses no wakeup: a thread is asleep only while the
\* condition it waits for is false, although forcePush overshoots the capacity.
NoLostWakeup ==
  \A t \in asleep :
    /\ ~closed /\ ~readOnly
    /\ IF t \in Producers THEN Size >= MaxSize ELSE Size = 0

\* assert(elts.size() >= headIdx), threadsafequeue.h:185: size() may be called in
\* any state.  It is proved of queues that are never closed; close() breaks it.
SizeAssertion == headIdx <= Len(elts)

\* What an open queue holds is exactly what was accepted and not delivered, in
\* order: the lazy shift of popUnsynchronized neither loses, repeats nor
\* reorders an element.
Fifo ==
  ~closed => accepted = delivered \o SubSeq(elts, headIdx + 1, Len(elts))

\* "will continue to pop remaining elements in the queue until none are left":
\* once every reader of a queue that was not closed has been told to stop,
\* every accepted element was delivered, and none will ever be accepted again.
DrainedWhenReadersStop ==
  (Consumers # {} /\ Consumers \subseteq finished /\ ~closed)
     => accepted = delivered /\ readOnly

\* "All blocked threads will unblock": after setReadOnly or close no thread
\* stays inside waitPush or waitPop, and every reader reaches the end.
ShutdownUnblocks ==
  (closed \/ readOnly) ~> (calling = {} /\ finished = Consumers)

\* While readers keep popping, a writer blocked on a full queue gets through, and
\* every accepted element is delivered unless the queue is closed under it.
ReadersKeepItMoving ==
  /\ \A p \in Producers : p \in calling ~> p \notin calling
  /\ \A i \in 1 .. MaxSent : Len(accepted) >= i ~> (Len(delivered) >= i \/ closed)

\* No call of waitPush or waitPop waits for ever while the queue is in use, and
\* none outlives its shutdown.
NobodyWaitsForEver == ShutdownUnblocks /\ ReadersKeepItMoving

--------------------------------------------------------------------------------
\* The queue implements what its header promises.
CQ == INSTANCE ClosableQueue WITH
        Capacity <- MaxSize, Forced <- Forcers \X (1 .. MaxSent)

ImplementsClosableQueue == CQ!Spec
================================================================================
