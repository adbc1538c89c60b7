--------------------------- MODULE MCEngineSession ---------------------------
(* The circumstances that the runs of EngineSession start from.  Each       *)
(* bounds what the others let vary: time, logins, faults.                   *)
EXTENDS EngineSession

Calm == [lifecycle |-> TRUE, direct |-> FALSE, stream |-> FALSE, faults |-> {},
         logins |-> 1, handlers |-> 1, from |-> 2, until |-> 2]

MCSessionSetups ==
    {[Calm EXCEPT !.from = 3, !.until = 3, !.faults = {"positions"}],
     [Calm EXCEPT !.direct = TRUE],
     [Calm EXCEPT !.lifecycle = FALSE, !.direct = TRUE, !.handlers = 2],
     [Calm EXCEPT !.until = 5],
     [Calm EXCEPT !.lifecycle = FALSE, !.stream = TRUE, !.handlers = 2, !.faults = {"drop", "init"}],
     [Calm EXCEPT !.logins = 2, !.stream = TRUE, !.faults = {"blocked"}],
     [Calm EXCEPT !.from = 1, !.until = 3, !.faults = {"invalidate"}],
     [Calm EXCEPT !.logins = 2, !.stream = TRUE, !.faults = {"start"}],
     [Calm EXCEPT !.stream = TRUE, !.faults = {"read"}]}
=============================================================================
