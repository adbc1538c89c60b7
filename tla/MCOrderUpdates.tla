---------------------------- MODULE MCOrderUpdates ----------------------------
(* An order that is open, partly filled and filled: three states, of which  *)
(* two are not terminal, the number of signatures that are remembered.      *)
EXTENDS OrderUpdates
CONSTANTS open, partial, complete
UpdatesMC == {open, partial, complete}
HistoryMC == <<open, partial, complete>>
StatusOfMC == [u \in UpdatesMC |-> CASE u = open -> "OPEN"
                                     [] u = partial -> "PARTIAL"
                                     [] u = complete -> "COMPLETE"]

Queued == [ours |-> TRUE, leg |-> "PANIC_EXIT", byTimer |-> FALSE, watched |-> FALSE,
           fails |-> FALSE, ahead |-> FALSE, deliveries |-> 2]
Watched == [Queued EXCEPT !.watched = TRUE]
Stop == [Watched EXCEPT !.leg = "SL", !.ahead = TRUE]
ByTimer == [Queued EXCEPT !.byTimer = TRUE]
TimerOnce == [ByTimer EXCEPT !.fails = TRUE, !.deliveries = 1]
Squareoff == [Queued EXCEPT !.ours = FALSE, !.deliveries = 3]
SetupsMC ==
    {Queued, Watched, Stop, Squareoff, [Watched EXCEPT !.fails = TRUE],
     [Watched EXCEPT !.ahead = TRUE], ByTimer, TimerOnce}
===============================================================================
