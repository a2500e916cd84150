---- MODULE ContributeMC ----
(* An instance of Contribute for TLC: self-play with one net, which is rated against another. *)
EXTENDS Contribute

CONSTANTS m1, m2

MCServerTasks == {[rating |-> FALSE, model |-> [black |-> m1, white |-> m1]],
                  [rating |-> TRUE, model |-> [black |-> m2, white |-> m1]]}
MCNewestModels == {m1}
=============================
