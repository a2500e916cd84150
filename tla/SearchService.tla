----------------------------- MODULE SearchService -----------------------------
(***************************************************************************)
(* What search/asyncbot.h promises to the thread that drives a bot,        *)
(* whatever its threads, flags and condition variables do: one search at a *)
(* time, each with an outcome of its own.  A search that was asked for a   *)
(* move yields it when it ends; only a kill drops a search, and only one   *)
(* that has not begun.                                                     *)
(***************************************************************************)
EXTENDS Naturals

CONSTANTS MaxSearches

VARIABLES phase,    \* "idle", "queued" or "running"
          id,       \* the number of the latest search that was asked for
          wantsMove,\* was it asked for a move?
          killed,
          moves     \* the searches whose move was passed on

vars == <<phase, id, wantsMove, killed, moves>>

Init == /\ phase = "idle" /\ id = 0 /\ wantsMove = FALSE
        /\ killed = FALSE /\ moves = {}

Ask ==
  /\ phase = "idle" /\ ~killed /\ id < MaxSearches
  /\ phase' = "queued" /\ id' = id + 1 /\ wantsMove' \in BOOLEAN
  /\ UNCHANGED <<killed, moves>>

Begin ==
  /\ phase = "queued" /\ ~killed
  /\ phase' = "running"
  /\ UNCHANGED <<id, wantsMove, killed, moves>>

End ==
  /\ phase = "running"
  /\ phase' = "idle"
  /\ moves' = IF wantsMove THEN moves \cup {id} ELSE moves
  /\ UNCHANGED <<id, wantsMove, killed>>

Drop ==
  /\ phase = "queued" /\ killed
  /\ phase' = "idle"
  /\ UNCHANGED <<id, wantsMove, killed, moves>>

Kill == killed' = TRUE /\ UNCHANGED <<phase, id, wantsMove, moves>>

Next == Ask \/ Begin \/ End \/ Drop \/ Kill

Spec == Init /\ [][Next]_vars
================================================================================
