----------------------------- MODULE MCMongoWork -----------------------------
(* The circumstances that the runs of MongoWork start from.                 *)
EXTENDS MongoWork

Quiet == [jobs |-> {"reconcile"}, token |-> TRUE, failures |-> 0, candles |-> 0, late |-> 0]

MCWorkSetups ==
    {[Quiet EXCEPT !.jobs = Jobs, !.token = FALSE, !.failures = 3],
     [Quiet EXCEPT !.jobs = {"reconcile", "token_watcher"}, !.failures = 2, !.candles = 3],
     [Quiet EXCEPT !.jobs = {}, !.failures = 3, !.candles = 4, !.late = 1]}

=============================================================================
