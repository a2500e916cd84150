----------------------------- MODULE ClosableQueue -----------------------------
(***************************************************************************)
(* What core/threadsafequeue.h promises to its callers, whatever the       *)
(* storage and the condition variables do: elements come out in the order  *)
(* in which they were accepted, each one once; waitPush accepts only below *)
(* the capacity; setReadOnly stops the writes and lets the reads drain the *)
(* rest; close stops both and drops the rest.                              *)
(***************************************************************************)
EXTENDS Naturals, Sequences

CONSTANTS Items,    \* what callers push
          Capacity, \* maxSize of the queue
          Forced    \* the items that may be pushed by forcePush, which ignores the capacity

VARIABLES accepted,   \* every element a push returned true for, in order
          delivered,  \* every element a pop returned true for, in order
          closed, readOnly

vars == <<accepted, delivered, closed, readOnly>>

Backlog == Len(accepted) - Len(delivered)

Init == /\ accepted = <<>> /\ delivered = <<>>
        /\ closed = FALSE /\ readOnly = FALSE

Accept(item) ==
  /\ ~closed /\ ~readOnly
  /\ accepted' = Append(accepted, item)
  /\ UNCHANGED <<delivered, closed, readOnly>>

ForcePush(item) == item \in Forced /\ Accept(item)

WaitPush(item) == Backlog < Capacity /\ Accept(item)

Pop ==
  /\ ~closed /\ Backlog > 0
  /\ delivered' = Append(delivered, accepted[Len(delivered) + 1])
  /\ UNCHANGED <<accepted, closed, readOnly>>

SetReadOnly == readOnly' = TRUE /\ UNCHANGED <<accepted, delivered, closed>>

Close == closed' = TRUE /\ UNCHANGED <<accepted, delivered, readOnly>>

Next == \/ \E item \in Items : ForcePush(item) \/ WaitPush(item)
        \/ Pop \/ SetReadOnly \/ Close

Spec == Init /\ [][Next]_vars
================================================================================
