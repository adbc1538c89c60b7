---------------------------- MODULE SerialCommands ----------------------------
(***************************************************************************)
(* What the engine expects of a per-trade command queue, with nothing of   *)
(* how it is built: the calls of one key run one at a time, in the order   *)
(* in which they were made, and each runs as often as it was made.         *)
(* ExecutionCoordinator implements it for the calls that reach its queue;  *)
(* the calls of callbacks that handlers leave behind do not.               *)
(***************************************************************************)
EXTENDS Sequences

CONSTANTS Keys,      \* trade ids
          Requests   \* calls that go through a queue

VARIABLES waiting,   \* [Keys -> Seq(Requests)]: made, not begun
          holder     \* [Keys -> SUBSET Requests]: running, at most one

svars == <<waiting, holder>>

Init ==
    /\ waiting = [k \in Keys |-> <<>>]
    /\ holder = [k \in Keys |-> {}]

Submit(k, r) ==
    /\ waiting' = [waiting EXCEPT ![k] = Append(@, r)]
    /\ UNCHANGED holder

Grant(k) ==
    /\ waiting[k] # <<>>
    /\ holder[k] = {}
    /\ holder' = [holder EXCEPT ![k] = {Head(waiting[k])}]
    /\ waiting' = [waiting EXCEPT ![k] = Tail(@)]

Release(k) ==
    /\ holder[k] # {}
    /\ holder' = [holder EXCEPT ![k] = {}]
    /\ UNCHANGED waiting

Next ==
    \E k \in Keys : Grant(k) \/ Release(k) \/ \E r \in Requests : Submit(k, r)

Spec == Init /\ [][Next]_svars

(* A call that was made runs in the end, and gives the key back.            *)
Fairness == \A k \in Keys : WF_svars(Grant(k)) /\ WF_svars(Release(k))
FairSpec == Spec /\ Fairness
=============================================================================
