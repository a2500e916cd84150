------------------------- MODULE AnalysisEngineProofs -------------------------
(***************************************************************************)
(* Proofs about AnalysisEngine, for any number of threads and requests: no *)
(* pointer to a deleted request is followed, each request has one final    *)
(* response, and only a terminated search is cut short.                    *)
(*                                                                         *)
(* The three need each other: who may write to a request follows from its  *)
(* status, its status from the thread that serves it, and which thread     *)
(* that is from where the pointers are.                                    *)
(***************************************************************************)
EXTENDS AnalysisEngine, TLAPS

USE AnalysisAssumption
USE DEF Threads, Requests, STATUS_IN_QUEUE, STATUS_POPPED, STATUS_TERMINATED, NoBot,
        requestVars, queueVars, writeVars, apiVars, botVars, threadVars

Kinds == {"duringSearch", "analysis", "noResults"}
Serves(t) == at[t] \notin {"waiting", "exited"}

\* The requests that no thread has taken yet.
Pending == toAnalyze \cup (IF api = "pushing" THEN todo ELSE {})

\* What the API thread is doing, and what it may not have done yet.
ApiInv ==
  /\ quit = "no" <=> api \in {"reading", "pushing", "terminating"}
  /\ api = "pushing" => todo \subseteq open
  /\ api = "terminating" => todo \subseteq open
  /\ api \in {"stopping", "killing"} => todo \subseteq Threads /\ quit = "now"
  /\ writesClosed => quit = "now" \/ (api = "done" /\ \A t \in Threads : at[t] = "exited")
  /\ \A t \in Threads : isKilled[t] => quit = "now"

\* Where each request is: opened, then in the queue, then served by one thread,
\* which closes it before it deletes it.
PlaceInv ==
  /\ alive \subseteq 1 .. received /\ open \subseteq alive /\ toAnalyze \subseteq open
  /\ api = "pushing" => todo \cap toAnalyze = {}
  /\ \A t \in Threads : Serves(t) =>
       /\ serving[t] \in alive \ Pending
       /\ serving[t] \in open <=> at[t] # "closed"
  /\ \A t, u \in Threads : Serves(t) /\ Serves(u) /\ serving[t] = serving[u] => t = u

\* The status of a request while it waits, and while a thread serves it.
WaitingInv ==
  /\ \A r \in Requests : r > received => status[r] = STATUS_IN_QUEUE
  /\ \A r \in Pending : status[r] \in {STATUS_IN_QUEUE, STATUS_TERMINATED}

ServingInv ==
  \A t \in Threads :
    /\ at[t] = "taken" => status[serving[t]] \in {STATUS_IN_QUEUE, STATUS_TERMINATED}
    /\ at[t] \in {"popped", "queued", "beginning"}
         => status[serving[t]] \in {STATUS_POPPED, STATUS_TERMINATED}
    /\ at[t] = "searching" => status[serving[t]] \in {t, STATUS_TERMINATED}
    /\ at[t] \in {"searched", "written", "cleared"}
         => status[serving[t]] \in {STATUS_POPPED, t, STATUS_TERMINATED}

\* The thread that the status names has the request, and the bot that the API
\* thread is about to stop still has it.
Has(t, r) == serving[t] = r /\ at[t] \in {"searching", "searched", "written", "cleared"}

NamedInv ==
  /\ \A r \in open : status[r] \in Threads => Has(status[r], r)
  /\ toStop # NoBot =>
       /\ api = "terminating" /\ status[toStop.request] = STATUS_TERMINATED
       /\ Has(toStop.thread, toStop.request)

StatusInv == WaitingInv /\ ServingInv /\ NamedInv

EndsOnce(w) == \A i \in 1 .. Len(w) - 1 : w[i] = "duringSearch"
Final(w) == w # <<>> /\ w[Len(w)] # "duringSearch"

\* Who has written the final response, and who is still to write it: the API thread
\* for requests that nobody claimed, else the thread that serves them.
UnclaimedInv ==
  /\ \A r \in Requests : status[r] = STATUS_IN_QUEUE => ~Final(written[r])
  /\ \A r \in Pending : status[r] = STATUS_TERMINATED => Final(written[r])
  /\ \A t \in Threads :
       at[t] = "taken" /\ status[serving[t]] = STATUS_TERMINATED => Final(written[serving[t]])

ServedInv ==
  \A t \in Threads :
    /\ at[t] \in {"popped", "queued", "beginning", "searching", "searched"}
         => ~Final(written[serving[t]])
    /\ at[t] = "searched" /\ ~hasResults[t]
         => status[serving[t]] = STATUS_TERMINATED \/ quit = "now" \/ serving[t] \in won
    /\ at[t] \in {"written", "cleared", "closed"}
         => Final(written[serving[t]]) \/ quit = "now" \/ serving[t] \in won

ClosedInv ==
  /\ \A r \in Requests : EndsOnce(written[r])
  /\ \A r \in 1 .. received : r \in open \/ Final(written[r]) \/ quit = "now" \/ r \in won

WriteInv == UnclaimedInv /\ ServedInv /\ ClosedInv

IInv == TypeOK /\ ApiInv /\ PlaceInv /\ StatusInv /\ WriteInv /\ OnlyTerminatedIsCutShort

-----------------------------------------------------------------------------
(* Requests that wait, and requests that other threads serve.              *)

LEMMA OnlyOneServes ==
  ASSUME TypeOK, PlaceInv, NEW t \in Threads, Serves(t)
  PROVE  /\ serving[t] \in Requests
         /\ \A u \in Threads : Serves(u) /\ u # t => serving[u] \in Requests \ {serving[t]}
BY DEF TypeOK, PlaceInv, Serves

LEMMA PendingIsUnserved ==
  ASSUME TypeOK, ApiInv, PlaceInv
  PROVE  /\ Pending \subseteq Requests
         /\ \A t \in Threads : Serves(t) => serving[t] \notin Pending
BY DEF TypeOK, ApiInv, PlaceInv, Pending, Serves

-----------------------------------------------------------------------------
(* What is written to one request.                                         *)

LEMMA AppendOnce ==
  ASSUME NEW w \in Seq(Kinds), NEW k \in Kinds, EndsOnce(w), ~Final(w)
  PROVE  /\ Append(w, k) \in Seq(Kinds) /\ EndsOnce(Append(w, k))
         /\ Final(Append(w, k)) <=> k # "duringSearch"
BY DEF EndsOnce, Final, Kinds

LEMMA WriteOnce ==
  ASSUME TypeOK, WriteInv, NEW r \in Requests, NEW k \in Kinds, ~Final(written[r]), Write(r, k)
  PROVE  /\ written' \in [Requests -> Seq(Kinds)] /\ writesClosed' = writesClosed
         /\ \A q \in Requests : EndsOnce(written'[q])
         /\ \A q \in Requests \ {r} : written'[q] = written[q]
         /\ k = "duringSearch" => ~Final(written'[r])
         /\ k # "duringSearch" => Final(written'[r]) \/ writesClosed
<1>1. written \in [Requests -> Seq(Kinds)] /\ written[r] \in Seq(Kinds)
  BY DEF TypeOK, Kinds
<1>2. /\ Append(written[r], k) \in Seq(Kinds) /\ EndsOnce(Append(written[r], k))
      /\ Final(Append(written[r], k)) <=> k # "duringSearch"
  BY <1>1, AppendOnce DEF WriteInv, ClosedInv
<1>3. CASE written' = written /\ (writesClosed \/ k = "duringSearch")
  BY <1>1, <1>3 DEF WriteInv, ClosedInv, Write
<1>4. CASE written' = [written EXCEPT ![r] = Append(@, k)]
  BY <1>1, <1>2, <1>4 DEF WriteInv, ClosedInv, Write
<1> QED BY <1>3, <1>4 DEF Write

LEMMA ReceiveKeeps ==
  ASSUME IInv, NEW n \in 1 .. MaxRequests, Receive(n)
  PROVE  IInv'
<1>1. TypeOK'
  BY DEF IInv, TypeOK, Receive
<1>2. ApiInv'
  BY DEF IInv, ApiInv, Receive
<1>3. PlaceInv'
  BY SMTT(30) DEF IInv, TypeOK, PlaceInv, Pending, Serves, Receive
<1>4. StatusInv'
  BY DEF IInv, TypeOK, StatusInv, WaitingInv, ServingInv, NamedInv, Has, Pending, Receive
<1>5. WriteInv'
  BY SMTT(60) DEF IInv, TypeOK, StatusInv, WaitingInv, WriteInv, UnclaimedInv, ServedInv,
     ClosedInv, Pending, Receive
<1>6. OnlyTerminatedIsCutShort'
  BY DEF IInv, OnlyTerminatedIsCutShort, Serves, Receive
<1> QED BY <1>1, <1>2, <1>3, <1>4, <1>5, <1>6 DEF IInv

LEMMA PushKeeps ==
  ASSUME IInv, Push
  PROVE  IInv'
<1>1. TypeOK'
  BY DEF IInv, TypeOK, ApiInv, Push, First
<1>2. ApiInv'
  BY DEF IInv, ApiInv, Push, First
<1>3. PlaceInv'
  BY DEF IInv, TypeOK, ApiInv, PlaceInv, Pending, Serves, Push, First
<1>4. StatusInv'
  BY DEF IInv, StatusInv, WaitingInv, ServingInv, NamedInv, Has, Pending, Push, First
<1>5. WriteInv'
  BY DEF IInv, WriteInv, UnclaimedInv, ServedInv, ClosedInv, Pending, Push, First
<1>6. OnlyTerminatedIsCutShort'
  BY DEF IInv, OnlyTerminatedIsCutShort, Push, First
<1> QED BY <1>1, <1>2, <1>3, <1>4, <1>5, <1>6 DEF IInv

LEMMA TerminateKeeps ==
  ASSUME IInv, NEW S \in SUBSET open, Terminate(S)
  PROVE  IInv'
<1>1. TypeOK'
  BY DEF IInv, TypeOK, Terminate
<1>2. ApiInv'
  BY DEF IInv, ApiInv, Terminate
<1>3. PlaceInv'
  BY DEF IInv, PlaceInv, Pending, Serves, Terminate
<1>4. StatusInv'
  BY DEF IInv, StatusInv, WaitingInv, ServingInv, NamedInv, Has, Pending, Terminate
<1>5. WriteInv'
  BY DEF IInv, WriteInv, UnclaimedInv, ServedInv, ClosedInv, Pending, Terminate
<1>6. OnlyTerminatedIsCutShort'
  BY DEF IInv, OnlyTerminatedIsCutShort, Serves, Terminate
<1> QED BY <1>1, <1>2, <1>3, <1>4, <1>5, <1>6 DEF IInv

LEMMA TerminateRequestKeeps ==
  ASSUME IInv, TerminateRequest
  PROVE  IInv'
<1>1. PICK r \in First(todo) :
        /\ api = "terminating" /\ toStop = NoBot
        /\ status' = [status EXCEPT ![r] = STATUS_TERMINATED]
        /\ todo' = todo \ {r}
        /\ IF status[r] = STATUS_IN_QUEUE THEN Write(r, "noResults") ELSE UNCHANGED writeVars
        /\ toStop' = IF IsSearched(status[r]) THEN [request |-> r, thread |-> status[r]] ELSE NoBot
        /\ UNCHANGED <<received, won, open, alive, queueVars, api, quit, botVars, threadVars>>
  BY DEF TerminateRequest
<1>2. r \in open /\ r \in Requests
  BY <1>1 DEF IInv, TypeOK, ApiInv, First
<1>3. written \in [Requests -> Seq(Kinds)]
  BY DEF IInv, TypeOK, Kinds
<1>4. ~writesClosed
  BY <1>1 DEF IInv, ApiInv
<1>5. /\ written' \in [Requests -> Seq(Kinds)] /\ writesClosed' = writesClosed
      /\ \A q \in Requests : EndsOnce(written'[q])
      /\ \A q \in Requests : q # r => written'[q] = written[q]
      /\ IF status[r] = STATUS_IN_QUEUE THEN Final(written'[r]) ELSE written'[r] = written[r]
  <2>1. CASE status[r] = STATUS_IN_QUEUE
    <3>1. ~Final(written[r]) /\ Write(r, "noResults")
      BY <1>1, <1>2, <2>1 DEF IInv, WriteInv, UnclaimedInv, ServedInv, ClosedInv
    <3> QED BY <1>2, <1>4, <2>1, <3>1, WriteOnce DEF IInv, Kinds
  <2>2. CASE status[r] # STATUS_IN_QUEUE
    BY <1>1, <1>3, <2>2 DEF IInv, WriteInv, UnclaimedInv, ServedInv, ClosedInv
  <2> QED BY <2>1, <2>2
<1>6. TypeOK'
  BY <1>1, <1>2, <1>5 DEF IInv, TypeOK, IsSearched, Kinds
<1>7. ApiInv'
  BY <1>1, <1>5 DEF IInv, TypeOK, ApiInv
<1>8. PlaceInv'
  BY <1>1 DEF IInv, PlaceInv, Pending, Serves
<1>9. StatusInv'
  <2>1. WaitingInv'
    BY <1>1, <1>2 DEF IInv, TypeOK, PlaceInv, StatusInv, WaitingInv, Pending, IsSearched
  <2>2. ServingInv'
    BY <1>1, <1>2 DEF IInv, StatusInv, ServingInv, IsSearched
  <2>3. NamedInv'
    BY <1>1, <1>2 DEF IInv, TypeOK, StatusInv, NamedInv, Has, IsSearched
  <2> QED BY <2>1, <2>2, <2>3 DEF StatusInv
<1>10. WriteInv'
  <2>1. /\ UNCHANGED <<received, won, open, at, serving, hasResults, quit>> /\ Pending' = toAnalyze
        /\ Pending = toAnalyze /\ status'[r] = STATUS_TERMINATED
        /\ \A q \in Requests : q # r => status'[q] = status[q] /\ written'[q] = written[q]
    BY <1>1, <1>2, <1>5 DEF IInv, TypeOK, Pending
  <2>2. toAnalyze \subseteq Requests /\ \A u \in Threads : Serves(u) => serving[u] \in Requests
    BY OnlyOneServes DEF IInv, TypeOK
  <2>3. status[r] # STATUS_IN_QUEUE => UNCHANGED written[r]
    BY <1>5
  <2>4. r \in toAnalyze \/ (\E u \in Threads : at[u] = "taken" /\ serving[u] = r)
          => status[r] \in {STATUS_IN_QUEUE, STATUS_TERMINATED}
    BY <2>1 DEF IInv, StatusInv, WaitingInv, ServingInv
  <2>5. UnclaimedInv'
    <3>1. \A q \in Requests : status'[q] = STATUS_IN_QUEUE => ~Final(written'[q])
      BY <2>1 DEF IInv, WriteInv, UnclaimedInv
    <3>2. \A q \in toAnalyze : status'[q] = STATUS_TERMINATED => Final(written'[q])
      BY <1>5, <2>1, <2>2, <2>4 DEF IInv, WriteInv, UnclaimedInv
    <3>3. \A u \in Threads : at[u] = "taken" /\ status'[serving[u]] = STATUS_TERMINATED
                               => Final(written'[serving[u]])
      BY <1>5, <2>1, <2>2, <2>4 DEF IInv, WriteInv, UnclaimedInv, Serves
    <3> QED BY <2>1, <3>1, <3>2, <3>3 DEF UnclaimedInv
  <2>6. ASSUME NEW u \in Threads, Serves(u), at[u] # "taken"
        PROVE  status[serving[u]] # STATUS_IN_QUEUE \/ at[u] = "closed"
    <3>1. at[u] \in {"popped", "queued", "beginning", "searching", "searched", "written",
                     "cleared", "closed"}
      BY <2>6 DEF IInv, TypeOK, Serves
    <3>2. u # STATUS_IN_QUEUE
      OBVIOUS
    <3> QED BY <3>1, <3>2 DEF IInv, StatusInv, ServingInv
  <2>7. \A u \in Threads : Serves(u) /\ at[u] = "closed" => serving[u] # r
    BY <1>2 DEF IInv, PlaceInv
  <2>8. \A u \in Threads : Serves(u) /\ at[u] # "taken" => written'[serving[u]] = written[serving[u]]
    BY <1>5, <2>1, <2>2, <2>6, <2>7
  <2>9. ServedInv'
    BY <1>2, <2>1, <2>2, <2>8 DEF IInv, WriteInv, ServedInv, Serves
  <2>10. \A q \in 1 .. received : q \in Requests
    BY DEF IInv, TypeOK
  <2>11. ClosedInv'
    BY <1>2, <1>5, <2>1, <2>10 DEF IInv, WriteInv, ClosedInv
  <2> QED BY <2>5, <2>9, <2>11 DEF WriteInv
<1>11. OnlyTerminatedIsCutShort'
  BY <1>1, <1>2 DEF IInv, OnlyTerminatedIsCutShort, Serves
<1> QED BY <1>6, <1>7, <1>8, <1>9, <1>10, <1>11 DEF IInv

LEMMA StopWithoutWaitKeeps ==
  ASSUME IInv, StopWithoutWait
  PROVE  IInv'
<1>1. TypeOK'
  BY DEF IInv, TypeOK, StopWithoutWait
<1>2. ApiInv'
  BY DEF IInv, ApiInv, StopWithoutWait
<1>3. PlaceInv'
  BY DEF IInv, PlaceInv, Pending, Serves, StopWithoutWait
<1>4. StatusInv'
  BY DEF IInv, StatusInv, WaitingInv, ServingInv, NamedInv, Has, Pending, StopWithoutWait
<1>5. WriteInv'
  BY DEF IInv, WriteInv, UnclaimedInv, ServedInv, ClosedInv, Pending, StopWithoutWait
<1>6. OnlyTerminatedIsCutShort'
  BY DEF IInv, StatusInv, NamedInv, Has, OnlyTerminatedIsCutShort, StopWithoutWait
<1> QED BY <1>1, <1>2, <1>3, <1>4, <1>5, <1>6 DEF IInv

LEMMA TerminateDoneKeeps ==
  ASSUME IInv, TerminateDone
  PROVE  IInv'
<1>1. TypeOK'
  BY DEF IInv, TypeOK, TerminateDone
<1>2. ApiInv'
  BY DEF IInv, ApiInv, TerminateDone
<1>3. PlaceInv'
  BY DEF IInv, PlaceInv, Pending, Serves, TerminateDone
<1>4. StatusInv'
  BY DEF IInv, StatusInv, WaitingInv, ServingInv, NamedInv, Has, Pending, TerminateDone
<1>5. WriteInv'
  BY DEF IInv, WriteInv, UnclaimedInv, ServedInv, ClosedInv, Pending, TerminateDone
<1>6. OnlyTerminatedIsCutShort'
  BY DEF IInv, OnlyTerminatedIsCutShort, Serves, TerminateDone
<1> QED BY <1>1, <1>2, <1>3, <1>4, <1>5, <1>6 DEF IInv

LEMMA EndOfInputKeeps ==
  ASSUME IInv, EndOfInput
  PROVE  IInv'
<1>1. TypeOK'
  BY DEF IInv, TypeOK, EndOfInput
<1>2. ApiInv'
  BY DEF IInv, ApiInv, EndOfInput
<1>3. PlaceInv'
  BY DEF IInv, PlaceInv, Pending, Serves, EndOfInput
<1>4. StatusInv'
  BY DEF IInv, StatusInv, WaitingInv, ServingInv, NamedInv, Has, Pending, EndOfInput
<1>5. WriteInv'
  BY DEF IInv, ApiInv, WriteInv, UnclaimedInv, ServedInv, ClosedInv, Pending, EndOfInput
<1>6. OnlyTerminatedIsCutShort'
  BY DEF IInv, ApiInv, OnlyTerminatedIsCutShort, EndOfInput
<1> QED BY <1>1, <1>2, <1>3, <1>4, <1>5, <1>6 DEF IInv

LEMMA CloseAnalyzeQueueKeeps ==
  ASSUME IInv, CloseAnalyzeQueue
  PROVE  IInv'
<1>1. TypeOK'
  BY DEF IInv, TypeOK, CloseAnalyzeQueue
<1>2. ApiInv'
  BY DEF IInv, ApiInv, CloseAnalyzeQueue
<1>3. PlaceInv'
  BY DEF IInv, PlaceInv, Pending, Serves, CloseAnalyzeQueue
<1>4. StatusInv'
  BY DEF IInv, StatusInv, WaitingInv, ServingInv, NamedInv, Has, Pending, CloseAnalyzeQueue
<1>5. WriteInv'
  BY DEF IInv, WriteInv, UnclaimedInv, ServedInv, ClosedInv, Pending, CloseAnalyzeQueue
<1>6. OnlyTerminatedIsCutShort'
  BY DEF IInv, OnlyTerminatedIsCutShort, Serves, CloseAnalyzeQueue
<1> QED BY <1>1, <1>2, <1>3, <1>4, <1>5, <1>6 DEF IInv

LEMMA StopBotKeeps ==
  ASSUME IInv, StopBot
  PROVE  IInv'
<1>1. TypeOK'
  BY DEF IInv, TypeOK, StopBot, First
<1>2. ApiInv'
  BY DEF IInv, ApiInv, StopBot, First
<1>3. PlaceInv'
  BY DEF IInv, PlaceInv, Pending, Serves, StopBot
<1>4. StatusInv'
  BY DEF IInv, StatusInv, WaitingInv, ServingInv, NamedInv, Has, Pending, StopBot
<1>5. WriteInv'
  BY DEF IInv, WriteInv, UnclaimedInv, ServedInv, ClosedInv, Pending, StopBot
<1>6. OnlyTerminatedIsCutShort'
  BY DEF IInv, ApiInv, OnlyTerminatedIsCutShort, StopBot, First
<1> QED BY <1>1, <1>2, <1>3, <1>4, <1>5, <1>6 DEF IInv

LEMMA KillBotKeeps ==
  ASSUME IInv, KillBot
  PROVE  IInv'
<1>1. TypeOK'
  BY DEF IInv, TypeOK, KillBot, First
<1>2. ApiInv'
  BY DEF IInv, ApiInv, KillBot, First
<1>3. PlaceInv'
  BY DEF IInv, PlaceInv, Pending, Serves, KillBot
<1>4. StatusInv'
  BY DEF IInv, StatusInv, WaitingInv, ServingInv, NamedInv, Has, Pending, KillBot
<1>5. WriteInv'
  BY DEF IInv, WriteInv, UnclaimedInv, ServedInv, ClosedInv, Pending, KillBot
<1>6. OnlyTerminatedIsCutShort'
  BY DEF IInv, ApiInv, OnlyTerminatedIsCutShort, KillBot, First
<1> QED BY <1>1, <1>2, <1>3, <1>4, <1>5, <1>6 DEF IInv

LEMMA JoinKeeps ==
  ASSUME IInv, Join
  PROVE  IInv'
<1>1. TypeOK'
  BY DEF IInv, TypeOK, Join
<1>2. ApiInv'
  BY DEF IInv, ApiInv, Join
<1>3. PlaceInv'
  BY DEF IInv, PlaceInv, Serves, Join
<1>4. StatusInv'
  BY DEF IInv, StatusInv, WaitingInv, ServingInv, NamedInv, Has, Pending, Join
<1>5. WriteInv'
  BY DEF IInv, WriteInv, UnclaimedInv, ServedInv, ClosedInv, Pending, Join
<1>6. OnlyTerminatedIsCutShort'
  BY DEF IInv, OnlyTerminatedIsCutShort, Serves, Join
<1> QED BY <1>1, <1>2, <1>3, <1>4, <1>5, <1>6 DEF IInv

LEMMA WaitPopKeeps ==
  ASSUME IInv, NEW t \in Threads, WaitPop(t)
  PROVE  IInv'
<1>1. TypeOK'
  BY SMTT(30) DEF IInv, TypeOK, WaitPop, Become
<1>2. ApiInv'
  BY DEF IInv, ApiInv, WaitPop, Become
<1>3. PlaceInv'
  BY SMTT(30) DEF IInv, TypeOK, PlaceInv, Pending, Serves, WaitPop, Become
<1>4. StatusInv'
  BY SMTT(30) DEF IInv, TypeOK, StatusInv, WaitingInv, ServingInv, NamedInv, Has, Pending, WaitPop, Become
<1>5. WriteInv'
  BY SMTT(30) DEF IInv, TypeOK, WriteInv, UnclaimedInv, ServedInv, ClosedInv, Pending, WaitPop, Become
<1>6. OnlyTerminatedIsCutShort'
  BY DEF IInv, OnlyTerminatedIsCutShort, WaitPop, Become
<1> QED BY <1>1, <1>2, <1>3, <1>4, <1>5, <1>6 DEF IInv

LEMMA LeaveKeeps ==
  ASSUME IInv, NEW t \in Threads, Leave(t)
  PROVE  IInv'
<1>1. TypeOK'
  BY DEF IInv, TypeOK, Leave, Become
<1>2. ApiInv'
  BY DEF IInv, ApiInv, Leave, Become
<1>3. PlaceInv'
  BY DEF IInv, PlaceInv, Pending, Serves, Leave, Become
<1>4. StatusInv'
  BY DEF IInv, StatusInv, WaitingInv, ServingInv, NamedInv, Has, Pending, Leave, Become
<1>5. WriteInv'
  BY DEF IInv, WriteInv, UnclaimedInv, ServedInv, ClosedInv, Pending, Leave, Become
<1>6. OnlyTerminatedIsCutShort'
  BY DEF IInv, OnlyTerminatedIsCutShort, Leave, Become
<1> QED BY <1>1, <1>2, <1>3, <1>4, <1>5, <1>6 DEF IInv

LEMMA ClaimKeeps ==
  ASSUME IInv, NEW t \in Threads, Claim(t)
  PROVE  IInv'
<1>1. serving[t] \in Requests /\ at[t] = "taken"
  BY DEF IInv, TypeOK, PlaceInv, Serves, Claim
<1>2. CASE /\ status[serving[t]] = STATUS_IN_QUEUE
           /\ status' = [status EXCEPT ![serving[t]] = STATUS_POPPED] /\ Become(t, "popped")
           /\ UNCHANGED <<received, won, open, alive, queueVars, writeVars, apiVars, botVars, serving>>
  <2>0. /\ Serves(t) /\ Pending' = Pending /\ at'[t] = "popped" /\ status'[serving[t]] = STATUS_POPPED
        /\ \A u \in Threads : u # t => at'[u] = at[u]
        /\ \A q \in Requests : q # serving[t] => status'[q] = status[q]
    BY <1>1, <1>2 DEF IInv, TypeOK, Serves, Become, Pending
  <2>1. TypeOK'
    BY <1>1, <1>2 DEF IInv, TypeOK, Become
  <2>2. ApiInv'
    BY <1>1, <1>2 DEF IInv, ApiInv, Become
  <2>3. PlaceInv'
    BY <1>1, <1>2 DEF IInv, PlaceInv, Pending, Serves, Become
  <2>4. StatusInv'
    <3>1. WaitingInv'
      <4>1. received' = received /\ WaitingInv
        BY <1>2 DEF IInv, StatusInv
      <4>2. serving[t] \notin Pending /\ Pending \subseteq Requests
        BY <2>0, PendingIsUnserved DEF IInv
      <4>3. ~(serving[t] > received)
        BY <1>1, <2>0 DEF IInv, TypeOK, PlaceInv
      <4> QED
        BY <2>0, <4>1, <4>2, <4>3 DEF WaitingInv
    <3>2. ServingInv'
      BY <1>2, <2>0, OnlyOneServes DEF IInv, StatusInv, ServingInv, Serves
    <3>3. NamedInv'
      BY <1>1, <1>2 DEF IInv, StatusInv, NamedInv, Has, Become
    <3> QED BY <3>1, <3>2, <3>3 DEF StatusInv
  <2>5. WriteInv'
    <3>1. UnclaimedInv'
      BY <1>1, <1>2, <2>0, PendingIsUnserved, OnlyOneServes DEF IInv, WriteInv, UnclaimedInv,
         Serves
    <3>2. ServedInv'
      BY <1>1, <1>2, <2>0, OnlyOneServes DEF IInv, WriteInv, UnclaimedInv, ServedInv, Serves
    <3>3. ClosedInv'
      BY <1>2 DEF IInv, WriteInv, ClosedInv
    <3> QED BY <3>1, <3>2, <3>3 DEF WriteInv
  <2>6. OnlyTerminatedIsCutShort'
    BY <1>1, <1>2 DEF IInv, OnlyTerminatedIsCutShort, Serves, Become
  <2> QED BY <2>1, <2>2, <2>3, <2>4, <2>5, <2>6 DEF IInv
<1>3. CASE /\ status[serving[t]] = STATUS_TERMINATED /\ Become(t, "written")
           /\ UNCHANGED <<requestVars, queueVars, writeVars, apiVars, botVars, serving>>
  <2>1. TypeOK'
    BY <1>1, <1>3 DEF IInv, TypeOK, Become
  <2>2. ApiInv'
    BY <1>1, <1>3 DEF IInv, ApiInv, Become
  <2>3. PlaceInv'
    BY <1>1, <1>3 DEF IInv, PlaceInv, Pending, Serves, Become
  <2>4. StatusInv'
    <3>1. WaitingInv'
      BY <1>1, <1>3 DEF IInv, StatusInv, WaitingInv, Pending, Become
    <3>2. ServingInv'
      BY <1>1, <1>3 DEF IInv, StatusInv, ServingInv, Become
    <3>3. NamedInv'
      BY <1>1, <1>3 DEF IInv, StatusInv, NamedInv, Has, Become
    <3> QED BY <3>1, <3>2, <3>3 DEF StatusInv
  <2>5. WriteInv'
    BY <1>1, <1>3 DEF IInv, WriteInv, UnclaimedInv, ServedInv, ClosedInv, Pending, Become
  <2>6. OnlyTerminatedIsCutShort'
    BY <1>1, <1>3 DEF IInv, OnlyTerminatedIsCutShort, Become
  <2> QED BY <2>1, <2>2, <2>3, <2>4, <2>5, <2>6 DEF IInv
<1>4. status[serving[t]] \in {STATUS_IN_QUEUE, STATUS_TERMINATED}
  BY <1>1 DEF IInv, StatusInv, WaitingInv, ServingInv
<1> QED BY <1>2, <1>3, <1>4 DEF Claim, MayClaim

LEMMA GenMoveKeeps ==
  ASSUME IInv, NEW t \in Threads, GenMove(t)
  PROVE  IInv'
<1>1. TypeOK'
  BY DEF IInv, TypeOK, GenMove, Become
<1>2. ApiInv'
  BY DEF IInv, ApiInv, GenMove, Become
<1>3. PlaceInv'
  BY DEF IInv, PlaceInv, Pending, Serves, GenMove, Become
<1>4. StatusInv'
  BY DEF IInv, StatusInv, WaitingInv, ServingInv, NamedInv, Has, Pending, GenMove, Become
<1>5. WriteInv'
  BY DEF IInv, ApiInv, WriteInv, UnclaimedInv, ServedInv, ClosedInv, Pending, GenMove, Become
<1>6. OnlyTerminatedIsCutShort'
  BY DEF IInv, TypeOK, OnlyTerminatedIsCutShort, GenMove, Become
<1> QED BY <1>1, <1>2, <1>3, <1>4, <1>5, <1>6 DEF IInv

LEMMA StartSearchKeeps ==
  ASSUME IInv, NEW t \in Threads, StartSearch(t)
  PROVE  IInv'
<1>1. TypeOK'
  BY DEF IInv, TypeOK, StartSearch, Become
<1>2. ApiInv'
  BY DEF IInv, ApiInv, StartSearch, Become
<1>3. PlaceInv'
  BY DEF IInv, PlaceInv, Pending, Serves, StartSearch, Become
<1>4. StatusInv'
  BY DEF IInv, StatusInv, WaitingInv, ServingInv, NamedInv, Has, Pending, StartSearch, Become
<1>5. WriteInv'
  BY DEF IInv, ApiInv, WriteInv, UnclaimedInv, ServedInv, ClosedInv, Pending, StartSearch, Become
<1>6. OnlyTerminatedIsCutShort'
  BY DEF IInv, OnlyTerminatedIsCutShort, StartSearch, Become
<1> QED BY <1>1, <1>2, <1>3, <1>4, <1>5, <1>6 DEF IInv

LEMMA OnSearchBegunKeeps ==
  ASSUME IInv, NEW t \in Threads, OnSearchBegun(t)
  PROVE  IInv'
<1>1. serving[t] \in Requests /\ at[t] = "beginning"
  BY DEF IInv, TypeOK, PlaceInv, Serves, OnSearchBegun
<1>2. CASE /\ status[serving[t]] = STATUS_POPPED /\ Become(t, "searching")
           /\ status' = [status EXCEPT ![serving[t]] = t]
           /\ UNCHANGED <<received, won, open, alive, queueVars, writeVars, apiVars, botVars, serving>>
  <2>0. /\ Serves(t) /\ at'[t] = "searching" /\ status'[serving[t]] = t
        /\ \A u \in Threads : u # t => at'[u] = at[u]
        /\ \A q \in Requests : q # serving[t] => status'[q] = status[q]
    BY <1>1, <1>2 DEF IInv, TypeOK, Serves, Become
  <2>1. TypeOK'
    BY <1>1, <1>2 DEF IInv, TypeOK, Become
  <2>2. ApiInv'
    BY <1>1, <1>2 DEF IInv, ApiInv, Become
  <2>3. PlaceInv'
    BY <1>1, <1>2 DEF IInv, PlaceInv, Pending, Serves, Become
  <2>4. StatusInv'
    <3>1. WaitingInv'
      BY <1>1, <1>2 DEF IInv, StatusInv, WaitingInv, Pending, Become
    <3>2. ServingInv'
      BY <1>2, <2>0, OnlyOneServes DEF IInv, StatusInv, ServingInv, Serves
    <3>3. NamedInv'
      BY <1>1, <1>2 DEF IInv, TypeOK, StatusInv, NamedInv, Has, Become
    <3> QED BY <3>1, <3>2, <3>3 DEF StatusInv
  <2>5. WriteInv'
    BY <1>1, <1>2 DEF IInv, WaitingInv, ServingInv, NamedInv, Has, WriteInv, UnclaimedInv,
       ServedInv, ClosedInv, Pending, Become
  <2>6. OnlyTerminatedIsCutShort'
    BY <1>1, <1>2 DEF IInv, OnlyTerminatedIsCutShort, Serves, Become
  <2> QED BY <2>1, <2>2, <2>3, <2>4, <2>5, <2>6 DEF IInv
<1>3. CASE /\ status[serving[t]] = STATUS_TERMINATED /\ Become(t, "searching")
           /\ shouldStop' = [shouldStop EXCEPT ![t] = TRUE]
           /\ UNCHANGED <<requestVars, queueVars, writeVars, apiVars, isKilled, hasResults, serving>>
  <2>1. TypeOK'
    BY <1>1, <1>3 DEF IInv, TypeOK, Become
  <2>2. ApiInv'
    BY <1>1, <1>3 DEF IInv, ApiInv, Become
  <2>3. PlaceInv'
    BY <1>1, <1>3 DEF IInv, PlaceInv, Pending, Serves, Become
  <2>4. StatusInv'
    <3>1. WaitingInv'
      BY <1>1, <1>3 DEF IInv, StatusInv, WaitingInv, Pending, Become
    <3>2. ServingInv'
      BY <1>1, <1>3 DEF IInv, StatusInv, ServingInv, Become
    <3>3. NamedInv'
      BY <1>1, <1>3 DEF IInv, StatusInv, NamedInv, Has, Become
    <3> QED BY <3>1, <3>2, <3>3 DEF StatusInv
  <2>5. WriteInv'
    BY <1>1, <1>3 DEF IInv, WriteInv, UnclaimedInv, ServedInv, ClosedInv, Pending, Become
  <2>6. OnlyTerminatedIsCutShort'
    BY <1>1, <1>3 DEF IInv, OnlyTerminatedIsCutShort, Become
  <2> QED BY <2>1, <2>2, <2>3, <2>4, <2>5, <2>6 DEF IInv
<1>4. status[serving[t]] \in {STATUS_POPPED, STATUS_TERMINATED}
  BY <1>1 DEF IInv, StatusInv, WaitingInv, ServingInv
<1> QED BY <1>2, <1>3, <1>4 DEF OnSearchBegun

LEMMA PlayoutKeeps ==
  ASSUME IInv, NEW t \in Threads, Playout(t)
  PROVE  IInv'
<1>1. TypeOK'
  BY DEF IInv, TypeOK, Playout
<1>2. ApiInv'
  BY DEF IInv, ApiInv, Playout
<1>3. PlaceInv'
  BY DEF IInv, PlaceInv, Pending, Serves, Playout
<1>4. StatusInv'
  BY DEF IInv, StatusInv, WaitingInv, ServingInv, NamedInv, Has, Pending, Playout
<1>5. WriteInv'
  BY DEF IInv, WriteInv, UnclaimedInv, ServedInv, ClosedInv, Pending, Playout
<1>6. OnlyTerminatedIsCutShort'
  BY DEF IInv, OnlyTerminatedIsCutShort, Serves, Playout
<1> QED BY <1>1, <1>2, <1>3, <1>4, <1>5, <1>6 DEF IInv

LEMMA ReportKeeps ==
  ASSUME IInv, NEW t \in Threads, Report(t)
  PROVE  IInv'
<1> DEFINE r == serving[t]
<1>1. r \in Requests /\ at[t] = "searching"
  BY DEF IInv, TypeOK, PlaceInv, Serves, Report
<1>2. /\ written' \in [Requests -> Seq(Kinds)] /\ writesClosed' = writesClosed
      /\ \A q \in Requests : EndsOnce(written'[q])
      /\ \A q \in Requests \ {r} : written'[q] = written[q]
      /\ ~Final(written'[r])
  <2>1. ~Final(written[r]) /\ Write(r, "duringSearch")
    BY <1>1 DEF IInv, WriteInv, UnclaimedInv, ServedInv, Report
  <2> QED BY <1>1, <2>1, WriteOnce DEF IInv, Kinds
<1>3. TypeOK'
  BY <1>2 DEF IInv, TypeOK, Report, Kinds
<1>4. ApiInv'
  BY <1>2 DEF IInv, ApiInv, Report
<1>5. PlaceInv'
  BY DEF IInv, PlaceInv, Pending, Serves, Report
<1>6. StatusInv'
  BY DEF IInv, StatusInv, WaitingInv, ServingInv, NamedInv, Has, Pending, Report
<1>7. WriteInv'
  <2>1. Serves(t) /\ UNCHANGED <<received, won, status, open, Pending, at, serving, hasResults, quit>>
    BY <1>1 DEF Serves, Report, Pending
  <2>2. \A q \in Pending : q \in Requests /\ written'[q] = written[q]
    BY <1>2, <2>1, PendingIsUnserved DEF IInv
  <2>3. \A u \in Threads : Serves(u) /\ u # t => written'[serving[u]] = written[serving[u]]
    BY <1>2, <2>1, OnlyOneServes DEF IInv
  <2>4. UnclaimedInv'
    BY <1>1, <1>2, <2>1, <2>2, <2>3 DEF IInv, WriteInv, UnclaimedInv, Serves
  <2>5. ServedInv'
    BY <1>1, <1>2, <2>1, <2>3 DEF IInv, WriteInv, ServedInv, Serves
  <2>6. \A q \in 1 .. received : q \in Requests
    BY DEF IInv, TypeOK
  <2>7. r \in open
    BY <1>1, <2>1 DEF IInv, PlaceInv
  <2>8. ClosedInv'
    BY <1>1, <1>2, <2>1, <2>6, <2>7 DEF IInv, WriteInv, ClosedInv
  <2> QED BY <2>4, <2>5, <2>8 DEF WriteInv
<1>8. OnlyTerminatedIsCutShort'
  BY DEF IInv, OnlyTerminatedIsCutShort, Report
<1> QED BY <1>3, <1>4, <1>5, <1>6, <1>7, <1>8 DEF IInv

LEMMA SearchEndsKeeps ==
  ASSUME IInv, NEW t \in Threads, SearchEnds(t)
  PROVE  IInv'
<1>1. TypeOK'
  BY DEF IInv, TypeOK, SearchEnds, Become
<1>2. ApiInv'
  BY DEF IInv, ApiInv, SearchEnds, Become
<1>3. PlaceInv'
  BY DEF IInv, PlaceInv, Pending, Serves, SearchEnds, Become
<1>4. StatusInv'
  BY DEF IInv, StatusInv, WaitingInv, ServingInv, NamedInv, Has, Pending, SearchEnds, Become
<1>5. WriteInv'
  BY DEF IInv, WriteInv, UnclaimedInv, ServedInv, ClosedInv, Pending, OnlyTerminatedIsCutShort,
     SearchEnds, Become
<1>6. OnlyTerminatedIsCutShort'
  BY DEF IInv, TypeOK, OnlyTerminatedIsCutShort, SearchEnds, Become
<1> QED BY <1>1, <1>2, <1>3, <1>4, <1>5, <1>6 DEF IInv

LEMMA WriteResultKeeps ==
  ASSUME IInv, NEW t \in Threads, WriteResult(t)
  PROVE  IInv'
<1> DEFINE r == serving[t]
<1>1. r \in Requests /\ at[t] = "searched"
  BY DEF IInv, TypeOK, PlaceInv, Serves, WriteResult
<1>2. at' = [at EXCEPT ![t] = "written"]
  BY DEF WriteResult, Become
<1>3. writesClosed => quit = "now"
  BY <1>1 DEF IInv, ApiInv
<1>4. /\ written' \in [Requests -> Seq(Kinds)] /\ writesClosed' = writesClosed
      /\ \A q \in Requests : EndsOnce(written'[q])
      /\ \A q \in Requests \ {r} : written'[q] = written[q]
      /\ Final(written'[r]) \/ quit = "now" \/ r \in won
  <2>1. ASSUME NEW k \in {"analysis", "noResults"}, Write(r, k)
        PROVE  <1>4!:
    <3>1. ~Final(written[r])
      BY <1>1 DEF IInv, WriteInv, UnclaimedInv, ServedInv, ClosedInv
    <3> QED BY <1>1, <1>3, <2>1, <3>1, WriteOnce DEF IInv, Kinds
  <2>2. CASE UNCHANGED writeVars /\ ~hasResults[t] /\ ~NeedsDummy(t)
    <3>1. quit = "now" \/ r \in won
      BY <1>1, <2>2 DEF IInv, WriteInv, UnclaimedInv, ServedInv, NeedsDummy
    <3> QED BY <2>2, <3>1 DEF IInv, TypeOK, WriteInv, UnclaimedInv, ServedInv, ClosedInv, Kinds
  <2> QED BY <2>1, <2>2 DEF WriteResult
<1>5. TypeOK'
  BY <1>2, <1>4 DEF IInv, TypeOK, WriteResult, Kinds
<1>6. ApiInv'
  BY <1>1, <1>2, <1>4 DEF IInv, ApiInv, WriteResult
<1>7. PlaceInv'
  BY <1>1, <1>2 DEF IInv, PlaceInv, Pending, Serves, WriteResult
<1>8. StatusInv'
  <2>1. WaitingInv'
    BY <1>1, <1>2 DEF IInv, StatusInv, WaitingInv, Pending, WriteResult
  <2>2. ServingInv'
    BY <1>1, <1>2 DEF IInv, StatusInv, ServingInv, WriteResult
  <2>3. NamedInv'
    BY <1>1, <1>2 DEF IInv, StatusInv, NamedInv, Has, WriteResult
  <2> QED BY <2>1, <2>2, <2>3 DEF StatusInv
<1>9. WriteInv'
  <2>1. Serves(t) /\ UNCHANGED <<received, won, status, open, Pending, serving, hasResults, quit>>
    BY <1>1 DEF Serves, WriteResult, Pending
  <2>2. \A q \in Pending : q \in Requests /\ written'[q] = written[q]
    BY <1>4, <2>1, PendingIsUnserved DEF IInv
  <2>3. \A u \in Threads : u # t => at'[u] = at[u]
    BY <1>2 DEF IInv, TypeOK
  <2>4. \A u \in Threads : Serves(u) /\ u # t => written'[serving[u]] = written[serving[u]]
    BY <1>4, <2>1, OnlyOneServes DEF IInv
  <2>5. at'[t] = "written"
    BY <1>2 DEF IInv, TypeOK
  <2>6. status[r] # STATUS_IN_QUEUE
    BY <1>1 DEF IInv, StatusInv, ServingInv
  <2>7. UnclaimedInv'
    BY <1>1, <1>4, <2>1, <2>2, <2>3, <2>4, <2>5, <2>6 DEF IInv, WriteInv, UnclaimedInv, Serves
  <2>8. ServedInv'
    <3>1. ASSUME NEW u \in Threads, u # t, at[u] \notin {"waiting", "taken", "exited"}
          PROVE  Serves(u) /\ at'[u] = at[u] /\ written'[serving[u]] = written[serving[u]]
      BY <2>3, <2>4, <3>1 DEF Serves
    <3> QED BY ZenonT(60), <1>4, <2>1, <2>3, <2>5, <3>1 DEF IInv, WriteInv, ServedInv
  <2>9. \A q \in 1 .. received : q \in Requests
    BY DEF IInv, TypeOK
  <2>10. ClosedInv'
    BY <1>1, <1>4, <2>1, <2>9 DEF IInv, WriteInv, ClosedInv
  <2> QED BY <2>7, <2>8, <2>10 DEF WriteInv
<1>10. OnlyTerminatedIsCutShort'
  BY <1>1, <1>2 DEF IInv, OnlyTerminatedIsCutShort, WriteResult
<1> QED BY <1>5, <1>6, <1>7, <1>8, <1>9, <1>10 DEF IInv

LEMMA ClearSearchKeeps ==
  ASSUME IInv, NEW t \in Threads, ClearSearch(t)
  PROVE  IInv'
<1>1. TypeOK'
  BY DEF IInv, TypeOK, ClearSearch, Become
<1>2. ApiInv'
  BY DEF IInv, ApiInv, ClearSearch, Become
<1>3. PlaceInv'
  BY DEF IInv, PlaceInv, Pending, Serves, ClearSearch, Become
<1>4. StatusInv'
  BY DEF IInv, StatusInv, WaitingInv, ServingInv, NamedInv, Has, Pending, ClearSearch, Become
<1>5. WriteInv'
  BY DEF IInv, WriteInv, UnclaimedInv, ServedInv, ClosedInv, Pending, ClearSearch, Become
<1>6. OnlyTerminatedIsCutShort'
  BY DEF IInv, OnlyTerminatedIsCutShort, ClearSearch, Become
<1> QED BY <1>1, <1>2, <1>3, <1>4, <1>5, <1>6 DEF IInv

LEMMA CloseRequestKeeps ==
  ASSUME IInv, NEW t \in Threads, CloseRequest(t)
  PROVE  IInv'
<1>1. TypeOK'
  BY DEF IInv, TypeOK, CloseRequest, Become
<1>2. ApiInv'
  BY DEF IInv, ApiInv, PlaceInv, Pending, Serves, CloseRequest, Become, OpenRequestsIsFree
<1>3. PlaceInv'
  BY ZenonT(60) DEF IInv, TypeOK, PlaceInv, Pending, Serves, CloseRequest, Become, OpenRequestsIsFree
<1>4. StatusInv'
  BY DEF IInv, StatusInv, WaitingInv, ServingInv, NamedInv, Has, Pending, CloseRequest, Become,
     OpenRequestsIsFree
<1>5. WriteInv'
  <2>1. UnclaimedInv'
    BY DEF IInv, WriteInv, UnclaimedInv, Pending, CloseRequest, Become
  <2>2. ServedInv'
    BY DEF IInv, WriteInv, ServedInv, CloseRequest, Become
  <2>3. ClosedInv'
    BY DEF IInv, WriteInv, ServedInv, ClosedInv, CloseRequest
  <2> QED BY <2>1, <2>2, <2>3 DEF WriteInv
<1>6. OnlyTerminatedIsCutShort'
  BY DEF IInv, OnlyTerminatedIsCutShort, CloseRequest, Become
<1> QED BY <1>1, <1>2, <1>3, <1>4, <1>5, <1>6 DEF IInv

LEMMA DeleteKeeps ==
  ASSUME IInv, NEW t \in Threads, Delete(t)
  PROVE  IInv'
<1>1. TypeOK'
  BY DEF IInv, TypeOK, Delete, Become
<1>2. ApiInv'
  BY DEF IInv, ApiInv, Delete, Become
<1>3. PlaceInv'
  BY ZenonT(60) DEF IInv, TypeOK, PlaceInv, Pending, Serves, Delete, Become
<1>4. StatusInv'
  BY DEF IInv, ApiInv, StatusInv, WaitingInv, ServingInv, NamedInv, Has, Pending, Delete, Become
<1>5. WriteInv'
  BY DEF IInv, TypeOK, WriteInv, UnclaimedInv, ServedInv, ClosedInv, Pending, Delete, Become
<1>6. OnlyTerminatedIsCutShort'
  BY DEF IInv, OnlyTerminatedIsCutShort, Delete, Become
<1> QED BY <1>1, <1>2, <1>3, <1>4, <1>5, <1>6 DEF IInv

-----------------------------------------------------------------------------
(* What is written to the requests of won games.                           *)

\* Their searches have no results, and only their termination is answered.
WonInv ==
  /\ won \subseteq 1 .. received
  /\ \A r \in Requests : r > received => written[r] = <<>>
  /\ \A r \in won : written[r] # <<>> =>
       written[r] = <<"noResults">> /\ status[r] = STATUS_TERMINATED
  /\ \A t \in Threads : hasResults[t] =>
       at[t] \in {"searching", "searched", "written"} /\ serving[t] \notin won

LEMMA WriteToWon ==
  ASSUME TypeOK, WonInv, NEW r \in Requests, r \in 1 .. received, NEW k \in Kinds, Write(r, k),
         ~Final(written[r]), r \in won => k = "noResults" /\ status'[r] = STATUS_TERMINATED,
         UNCHANGED <<received, won>>,
         \A q \in Requests : status'[q] \in {status[q], STATUS_TERMINATED}
  PROVE  /\ \A q \in Requests : q > received' => written'[q] = <<>>
         /\ \A q \in won' : written'[q] # <<>> =>
              written'[q] = <<"noResults">> /\ status'[q] = STATUS_TERMINATED
<1>1. written \in [Requests -> Seq(Kinds)] /\ written[r] \in Seq(Kinds)
  BY DEF TypeOK, Kinds
<1>2. \A q \in Requests \ {r} : written'[q] = written[q]
  BY <1>1 DEF Write
<1>3. r \in won => written[r] = <<>>
  BY <1>1 DEF WonInv, Final
<1>4. r \in won => written'[r] \in {<<>>, <<"noResults">>}
  BY <1>1, <1>3 DEF Write
<1>5. ASSUME NEW q \in Requests, q > received' PROVE written'[q] = <<>>
  <2>1. received \in Nat /\ received' = received /\ q \in Nat /\ r \in Nat /\ r <= received
    BY DEF TypeOK
  <2>2. q \in Requests \ {r} /\ q > received
    BY <1>5, <2>1
  <2> QED BY <1>2, <2>2 DEF WonInv
<1>6. ASSUME NEW q \in won', written'[q] # <<>>
      PROVE  written'[q] = <<"noResults">> /\ status'[q] = STATUS_TERMINATED
  <2>1. q \in won /\ q \in Requests
    BY <1>6 DEF TypeOK
  <2>2. CASE q = r
    BY <1>4, <1>6, <2>1, <2>2
  <2>3. CASE q # r
    BY <1>2, <1>6, <2>1, <2>3 DEF WonInv
  <2> QED BY <2>2, <2>3
<1> QED BY <1>5, <1>6

LEMMA WonKeeps ==
  ASSUME IInv, WonInv, Next
  PROVE  WonInv'
<1> USE DEF Become
<1>0. /\ TypeOK /\ received \in Nat
      /\ \A t \in Threads : Serves(t) => serving[t] \in 1 .. received /\ serving[t] \in Requests
      /\ open \subseteq 1 .. received /\ open \subseteq Requests
  BY DEF IInv, TypeOK, PlaceInv
<1>1. ASSUME NEW n \in 1 .. MaxRequests, Receive(n) PROVE WonInv'
  <2>1. \A t \in Threads : hasResults[t] => serving[t] \in 1 .. received
    BY <1>0 DEF WonInv, Serves
  <2>2. PICK W \in SUBSET (received + 1 .. received + n) : won' = won \cup W
    BY <1>1 DEF Receive
  <2>3. \A r \in W : r \in Requests /\ r > received /\ written'[r] = <<>>
    BY <1>0, <1>1, <2>2 DEF Receive, WonInv
  <2> QED BY <1>0, <1>1, <2>1, <2>2, <2>3 DEF Receive, WonInv
<1>2. ASSUME NEW S \in SUBSET open, Terminate(S) PROVE WonInv'
  BY <1>2 DEF Terminate, WonInv
<1>3. CASE TerminateRequest
  <2>1. PICK r \in First(todo) :
          /\ status' = [status EXCEPT ![r] = STATUS_TERMINATED]
          /\ IF status[r] = STATUS_IN_QUEUE THEN Write(r, "noResults") ELSE UNCHANGED writeVars
    BY <1>3 DEF TerminateRequest
  <2>2. r \in open /\ UNCHANGED <<received, won, at, serving, hasResults>>
    BY <1>3, <2>1 DEF TerminateRequest, IInv, ApiInv, First
  <2>3. /\ status'[r] = STATUS_TERMINATED
        /\ \A q \in Requests : status'[q] \in {status[q], STATUS_TERMINATED}
    BY <1>0, <2>1, <2>2 DEF TypeOK
  <2>4. CASE status[r] = STATUS_IN_QUEUE
    <3>1. ~Final(written[r])
      BY <1>0, <2>2, <2>4 DEF IInv, WriteInv, UnclaimedInv
    <3> QED BY <1>0, <2>1, <2>2, <2>3, <2>4, <3>1, WriteToWon DEF WonInv, Kinds
  <2>5. CASE status[r] # STATUS_IN_QUEUE
    BY <1>0, <2>1, <2>2, <2>3, <2>5 DEF WonInv, TypeOK
  <2> QED BY <2>4, <2>5
<1>4. CASE Push \/ StopWithoutWait \/ TerminateDone \/ EndOfInput \/ CloseAnalyzeQueue
           \/ StopBot \/ KillBot \/ Join
  BY <1>4 DEF WonInv, Push, StopWithoutWait, TerminateDone, EndOfInput, CloseAnalyzeQueue,
     StopBot, KillBot, Join
<1>5. ASSUME NEW t \in Threads, Claim(t) \/ OnSearchBegun(t) PROVE WonInv'
  <2>1. /\ at[t] \in {"taken", "beginning"} /\ UNCHANGED <<received, won, written, serving, hasResults>>
        /\ \E where \in {"popped", "written", "searching"} : at' = [at EXCEPT ![t] = where]
        /\ \A q \in Requests : status[q] = STATUS_TERMINATED => status'[q] = STATUS_TERMINATED
    BY <1>0, <1>5 DEF Claim, MayClaim, OnSearchBegun, TypeOK
  <2>2. ~hasResults[t] /\ \A u \in Threads : u # t => at'[u] = at[u]
    BY <1>0, <2>1 DEF WonInv, TypeOK
  <2> QED BY <1>0, <2>1, <2>2 DEF WonInv, TypeOK
<1>6. ASSUME NEW t \in Threads,
             \/ WaitPop(t) \/ Leave(t) \/ GenMove(t) \/ StartSearch(t) \/ SearchEnds(t)
             \/ CloseRequest(t) \/ Delete(t)
      PROVE  WonInv'
  <2>1. UNCHANGED <<received, won, status, written, hasResults>>
    BY <1>6 DEF WaitPop, Leave, GenMove, StartSearch, SearchEnds, CloseRequest, Delete
  <2>2. \/ SearchEnds(t)
        \/ at[t] \in {"waiting", "popped", "queued", "cleared", "closed"}
    BY <1>6 DEF WaitPop, Leave, GenMove, StartSearch, CloseRequest, Delete
  <2>3. /\ \A u \in Threads : u # t => at'[u] = at[u] /\ serving'[u] = serving[u]
        /\ SearchEnds(t) => at'[t] = "searched" /\ serving' = serving
    BY <1>0, <1>6 DEF WaitPop, Leave, GenMove, StartSearch, SearchEnds, CloseRequest, Delete, TypeOK
  <2>4. \A u \in Threads : hasResults'[u] =>
          at'[u] \in {"searching", "searched", "written"} /\ serving'[u] \notin won'
    BY <2>1, <2>2, <2>3 DEF WonInv
  <2> QED BY <2>1, <2>4 DEF WonInv
<1>7. ASSUME NEW t \in Threads, Playout(t) PROVE WonInv'
  BY <1>0, <1>7 DEF Playout, WonInv, TypeOK
<1>8. ASSUME NEW t \in Threads, ClearSearch(t) PROVE WonInv'
  BY <1>0, <1>8 DEF ClearSearch, WonInv, TypeOK
<1>9. ASSUME NEW t \in Threads, Report(t) PROVE WonInv'
  <2>1. ~Final(written[serving[t]]) /\ Serves(t) /\ serving[t] \notin won
    BY <1>9 DEF Report, IInv, WriteInv, ServedInv, WonInv, Serves
  <2> QED BY <1>0, <1>9, <2>1, WriteToWon DEF Report, WonInv, Kinds
<1>10. ASSUME NEW t \in Threads, WriteResult(t) PROVE WonInv'
  <2>1. /\ ~Final(written[serving[t]]) /\ Serves(t)
        /\ hasResults[t] => serving[t] \notin won
        /\ UNCHANGED <<received, won, status, serving, hasResults>>
    BY <1>10 DEF WriteResult, IInv, WriteInv, ServedInv, WonInv, Serves
  <2>2. /\ \A q \in Requests : q > received' => written'[q] = <<>>
        /\ \A q \in won' : written'[q] # <<>> =>
             written'[q] = <<"noResults">> /\ status'[q] = STATUS_TERMINATED
    <3>1. CASE hasResults[t] /\ Write(serving[t], "analysis")
      BY <1>0, <2>1, <3>1, WriteToWon DEF Kinds
    <3>2. CASE NeedsDummy(t) /\ Write(serving[t], "noResults")
      BY <1>0, <2>1, <3>2, WriteToWon DEF Kinds, NeedsDummy
    <3>3. CASE UNCHANGED writeVars
      BY <2>1, <3>3 DEF WonInv
    <3> QED BY <1>10, <3>1, <3>2, <3>3 DEF WriteResult
  <2> QED BY <1>0, <1>10, <2>1, <2>2 DEF WriteResult, WonInv, TypeOK
<1> QED BY <1>1, <1>2, <1>3, <1>4, <1>5, <1>6, <1>7, <1>8, <1>9, <1>10 DEF Next, ApiStep, ThreadStep

-----------------------------------------------------------------------------
LEMMA InitInv == Init => IInv
BY DEF Init, IInv, 
       Pending, Serves, EndsOnce, Final, NoBot

LEMMA NextInv == IInv /\ [Next]_vars => IInv'
<1> SUFFICES ASSUME IInv, [Next]_vars PROVE IInv'
  OBVIOUS
<1>1. CASE \E n \in 1 .. MaxRequests : Receive(n)
  BY <1>1, ReceiveKeeps
<1>2. CASE \E S \in SUBSET open : Terminate(S)
  BY <1>2, TerminateKeeps
<1>3. CASE EndOfInput
  BY <1>3, EndOfInputKeeps
<1>4. CASE ApiStep
  BY <1>4, PushKeeps, TerminateRequestKeeps, StopWithoutWaitKeeps, TerminateDoneKeeps,
     CloseAnalyzeQueueKeeps, StopBotKeeps, KillBotKeeps, JoinKeeps DEF ApiStep
<1>5. ASSUME NEW t \in Threads, ThreadStep(t) PROVE IInv'
  BY <1>5, WaitPopKeeps, LeaveKeeps, ClaimKeeps, GenMoveKeeps, StartSearchKeeps,
     OnSearchBegunKeeps, WriteResultKeeps, ClearSearchKeeps, CloseRequestKeeps, DeleteKeeps
     DEF ThreadStep
<1>6. ASSUME NEW t \in Threads, Playout(t) \/ Report(t) \/ SearchEnds(t) PROVE IInv'
  BY <1>6, PlayoutKeeps, ReportKeeps, SearchEndsKeeps
<1>7. CASE UNCHANGED vars
  <2>1. TypeOK' /\ ApiInv'
    BY <1>7 DEF vars, IInv, TypeOK, ApiInv
  <2>2. PlaceInv' /\ StatusInv'
    BY <1>7 DEF vars, IInv, PlaceInv, StatusInv, WaitingInv, ServingInv, NamedInv, Has,
       Pending, Serves
  <2>3. WriteInv' /\ OnlyTerminatedIsCutShort'
    BY <1>7 DEF vars, IInv, WriteInv, UnclaimedInv, ServedInv, ClosedInv,
       OnlyTerminatedIsCutShort, Pending
  <2> QED BY <2>1, <2>2, <2>3 DEF IInv
<1> QED BY <1>1, <1>2, <1>3, <1>4, <1>5, <1>6, <1>7 DEF Next

\* What each request is, where it is, and what each thread does with it fit together
\* in every state.
THEOREM AnalysisInvariant == Spec => []IInv
BY InitInv, NextInv, PTL DEF Spec

\* No thread follows a pointer to a request that was deleted (analysis.cpp:453).
THEOREM NoDanglingPointer == Spec => []PointersAreLive
<1>1. IInv => PointersAreLive
  <2> SUFFICES ASSUME IInv PROVE PointersAreLive
    OBVIOUS
  <2>1. open \subseteq alive /\ toAnalyze \subseteq alive
    BY DEF IInv, PlaceInv
  <2>2. api \in {"pushing", "terminating"} => todo \subseteq alive
    BY <2>1 DEF IInv, ApiInv
  <2>3. \A t \in Threads : at[t] \notin {"waiting", "exited"} => serving[t] \in alive
    BY DEF IInv, PlaceInv, Serves
  <2> QED BY <2>1, <2>2, <2>3 DEF IInv, PointersAreLive, Followed
<1> QED BY <1>1, AnalysisInvariant, PTL

\* The requests of won games are answered only when they are terminated.
LEMMA WonInvariant == Spec => []WonInv
<1>1. Init => WonInv
  BY DEF Init, WonInv
<1>2. IInv /\ WonInv /\ [Next]_vars => WonInv'
  <2>1. IInv /\ WonInv /\ UNCHANGED vars => WonInv'
    BY DEF vars, WonInv
  <2> QED BY <2>1, WonKeeps
<1> QED BY <1>1, <1>2, AnalysisInvariant, PTL DEF Spec

\* Each request gets one final response, whoever wins the race for its status
\* (analysis.cpp:428), unless we quit without waiting; the request of a won game
\* gets one only to its termination, and may be closed without any
\* (analysis.cpp:320).
THEOREM EachAnsweredOnce == Spec => []OneFinalResponse
<1>1. IInv /\ WonInv => OneFinalResponse
  <2> SUFFICES ASSUME IInv, WonInv PROVE OneFinalResponse
    OBVIOUS
  <2>1. ASSUME NEW r \in 1 .. received, r \in won, r \notin open, ~Final(written[r])
        PROVE  DroppedAsWon(r)
    BY <2>1 DEF WonInv, Final, DroppedAsWon
  <2>2. \A r \in Requests : \A i \in 1 .. Len(written[r]) - 1 : written[r][i] = "duringSearch"
    BY DEF IInv, WriteInv, ClosedInv, EndsOnce
  <2>3. \A r \in 1 .. received : r \in open \/ Answered(r) \/ DroppedAsWon(r) \/ quit = "now"
    BY <2>1 DEF IInv, WriteInv, ClosedInv, Final, Answered
  <2>4. \A r \in won : written[r] # <<>> =>
          written[r] = <<"noResults">> /\ status[r] = STATUS_TERMINATED
    BY DEF WonInv
  <2> QED BY <2>2, <2>3, <2>4 DEF OneFinalResponse
<1> QED BY <1>1, AnalysisInvariant, WonInvariant, PTL

\* A bot is never stopped for a request that its thread has finished
\* (analysis.cpp:446).
THEOREM StopsHitTheirRequest == Spec => []OnlyTerminatedIsCutShort
<1>1. IInv => OnlyTerminatedIsCutShort
  BY DEF IInv
<1> QED BY <1>1, AnalysisInvariant, PTL
=============================================================================
