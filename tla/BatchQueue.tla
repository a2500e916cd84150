------------------------------- MODULE BatchQueue -------------------------------
(***************************************************************************)
(* What NNEvaluator promises to the search threads, whatever its buffers,  *)
(* mutexes and condition variables do: requests queue up in the order in   *)
(* which they were made, a server thread takes as many of the oldest as    *)
(* fit in a batch, and answers each of them once, in order.                *)
(***************************************************************************)
EXTENDS Naturals, Sequences, SequencesExt

CONSTANTS Clients, Servers, MaxBatchSize

VARIABLES pending,   \* clients that asked and were not taken yet
          inHand,    \* inHand[s]: what server s took and has to answer still
          answered   \* clients that hold an answer

vars == <<pending, inHand, answered>>

Served(c) == c \in ToSet(pending) \/ \E s \in Servers : c \in ToSet(inHand[s])

Init == /\ pending = <<>>
        /\ inHand = [s \in Servers |-> <<>>]
        /\ answered = {}

Request(c) ==
  /\ ~Served(c)
  /\ pending' = Append(pending, c)
  /\ answered' = answered \ {c}
  /\ UNCHANGED inHand

\* An answer from the cache: nobody is asked.
Hit(c) ==
  /\ ~Served(c)
  /\ answered' = answered \cup {c}
  /\ UNCHANGED <<pending, inHand>>

Take(s) ==
  LET n == IF Len(pending) < MaxBatchSize THEN Len(pending) ELSE MaxBatchSize IN
  /\ pending # <<>> /\ inHand[s] = <<>>
  /\ inHand' = [inHand EXCEPT ![s] = SubSeq(pending, 1, n)]
  /\ pending' = SubSeq(pending, n + 1, Len(pending))
  /\ UNCHANGED answered

Answer(s) ==
  /\ inHand[s] # <<>>
  /\ Head(inHand[s]) \notin answered
  /\ answered' = answered \cup {Head(inHand[s])}
  /\ inHand' = [inHand EXCEPT ![s] = Tail(@)]
  /\ UNCHANGED pending

Next == \/ \E c \in Clients : Request(c) \/ Hit(c)
        \/ \E s \in Servers : Take(s) \/ Answer(s)

Spec == Init /\ [][Next]_vars
================================================================================
