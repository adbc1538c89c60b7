------------------------- MODULE ExecutionCoordinator -------------------------
(***************************************************************************)
(* src/src/trading/executionCoordinator.js: the queue that is to run the   *)
(* commands of one trade one after the other.  A call of run(key, handler) *)
(* chains its handler behind the last promise of the key, unless the       *)
(* async-local store of its caller already belongs to the key: then the    *)
(* handler runs at once, inside the command that is running.               *)
(*                                                                         *)
(* The async-local store follows every callback armed by a handler: a      *)
(* timer set by a command carries the store of that command after it       *)
(* ended.  A call such a callback makes is a detached one.  tradeManager.js*)
(* has both kinds: awaited inner commands (line 11614 under 18569), and    *)
(* calls from timers that commands set (line 8191 fires the command of     *)
(* line 8211; line 18576 arms the timer whose reconcile reaches 11614).    *)
(***************************************************************************)
EXTENDS Naturals, Sequences, FiniteSets

CONSTANTS
    Calls,      \* the calls of run() of a behaviour
    Keys,       \* trade ids
    KeyOf,      \* [Calls -> Keys]
    Detached,   \* the calls that a callback of an earlier handler may make
    NoCall      \* no promise, no active command, no async-local store

ASSUME CoordinatorAssumption ==
    /\ KeyOf \in [Calls -> Keys]
    /\ Detached \subseteq Calls
    /\ NoCall \notin Calls

VARIABLES
    pc,         \* where each call is
    store,      \* the async-local store its handler runs with (a call)
    behind,     \* the call whose promise a queued call is chained to
    awaitedBy,  \* the handler that awaits an inner call
    queues,     \* _queues: the last tracked promise of a key
    active,     \* _active: the running command of a key
    order       \* history: the queued calls of a key, in the order made

vars == <<pc, store, behind, awaitedBy, queues, active, order>>

Phases == {"idle", "queued", "running", "inline", "returned", "settled"}

Init ==
    /\ pc = [c \in Calls |-> "idle"]
    /\ store = [c \in Calls |-> NoCall]
    /\ behind = [c \in Calls |-> NoCall]
    /\ awaitedBy = [c \in Calls |-> NoCall]
    /\ queues = [k \in Keys |-> NoCall]
    /\ active = [k \in Keys |-> NoCall]
    /\ order = [k \in Keys |-> <<>>]

HasBegun(c) == pc[c] \in {"running", "inline", "returned", "settled"}
InHandler(c) == pc[c] \in {"running", "inline"}
Awaits(c) == \E d \in Calls : awaitedBy[d] = c /\ pc[d] # "settled"

(* Mutants of the next definitions: a run() that chains behind nothing, a    *)
(* store that holds the key.                                                *)
runBehindNothing(c, caller, awaiter) ==
    LET k == KeyOf[c] IN
    /\ pc[c] = "idle"
    /\ awaitedBy' = [awaitedBy EXCEPT ![c] = awaiter]
    /\ pc' = [pc EXCEPT ![c] = "queued"]
    /\ queues' = [queues EXCEPT ![k] = c]
    /\ order' = [order EXCEPT ![k] = Append(@, c)]
    /\ UNCHANGED <<store, behind, active>>

(* run(): line 16 reads the store, line 17 compares its key, line 21 takes  *)
(* the tail of the key's queue.                                             *)
run(c, caller, awaiter) ==
    LET k == KeyOf[c] IN
    /\ pc[c] = "idle"
    /\ awaitedBy' = [awaitedBy EXCEPT ![c] = awaiter]
    /\ IF caller # NoCall /\ KeyOf[caller] = k
       THEN /\ pc' = [pc EXCEPT ![c] = "inline"]
            /\ store' = [store EXCEPT ![c] = caller]
            /\ UNCHANGED <<behind, queues, order>>
       ELSE /\ pc' = [pc EXCEPT ![c] = "queued"]
            /\ behind' = [behind EXCEPT ![c] = queues[k]]
            /\ queues' = [queues EXCEPT ![k] = c]
            /\ order' = [order EXCEPT ![k] = Append(@, c)]
            /\ UNCHANGED store
    /\ UNCHANGED active

(* A broker postback, a tick or a timer armed outside every command.        *)
RunFromEventLoop(c) == run(c, NoCall, NoCall)

(* A handler awaits a call on a trade of its own key.                       *)
RunAwaited(c, p) ==
    /\ InHandler(p)
    /\ ~Awaits(p)
    /\ KeyOf[p] = KeyOf[c]
    /\ run(c, store[p], p)

(* A callback that the handler of p armed: at any time after p began.       *)
RunDetached(c, p) ==
    /\ c \in Detached
    /\ HasBegun(p)
    /\ run(c, store[p], NoCall)

StartWithKey(c) ==
    /\ pc[c] = "queued"
    /\ behind[c] # NoCall => pc[behind[c]] = "settled"
    /\ pc' = [pc EXCEPT ![c] = "running"]
    /\ store' = [store EXCEPT ![c] = KeyOf[c]]
    /\ active' = [active EXCEPT ![KeyOf[c]] = c]
    /\ UNCHANGED <<behind, awaitedBy, queues, order>>

(* The promise ahead settled, however it did (line 30): the handler starts  *)
(* under a store of its own.                                                *)
Start(c) ==
    /\ pc[c] = "queued"
    /\ behind[c] # NoCall => pc[behind[c]] = "settled"
    /\ pc' = [pc EXCEPT ![c] = "running"]
    /\ store' = [store EXCEPT ![c] = c]
    /\ active' = [active EXCEPT ![KeyOf[c]] = c]
    /\ UNCHANGED <<behind, awaitedBy, queues, order>>

(* The handler returns or throws, and the finally of line 35 runs.          *)
Return(c) ==
    /\ pc[c] = "running"
    /\ ~Awaits(c)
    /\ pc' = [pc EXCEPT ![c] = "returned"]
    /\ active' = [active EXCEPT ![KeyOf[c]] = IF @ = c THEN NoCall ELSE @]
    /\ UNCHANGED <<store, behind, awaitedBy, queues, order>>

(* The tracked promise settles after its finally of line 42.                *)
Settle(c) ==
    /\ pc[c] = "returned"
    /\ pc' = [pc EXCEPT ![c] = "settled"]
    /\ queues' = [queues EXCEPT ![KeyOf[c]] = IF @ = c THEN NoCall ELSE @]
    /\ UNCHANGED <<store, behind, awaitedBy, active, order>>

(* A call that ran inside another command is no command of its own.         *)
ReturnInline(c) ==
    /\ pc[c] = "inline"
    /\ ~Awaits(c)
    /\ pc' = [pc EXCEPT ![c] = "settled"]
    /\ UNCHANGED <<store, behind, awaitedBy, queues, active, order>>

(* Every call was made and settled: the behaviour ends there.               *)
AllSettled ==
    /\ \A c \in Calls : pc[c] = "settled"
    /\ UNCHANGED vars

Progress(c) == Start(c) \/ Return(c) \/ Settle(c) \/ ReturnInline(c)

Next ==
    \/ \E c \in Calls :
          \/ RunFromEventLoop(c)
          \/ Start(c)
          \/ Return(c)
          \/ Settle(c)
          \/ ReturnInline(c)
          \/ \E p \in Calls : RunAwaited(c, p) \/ RunDetached(c, p)
    \/ AllSettled

(* Handlers end: each awaits the broker or the database, whose calls time   *)
(* out.  Promise reactions are run by the event loop.                       *)
Fairness == \A c \in Calls : WF_vars(Progress(c))

Spec == Init /\ [][Next]_vars
FairSpec == Spec /\ Fairness

-----------------------------------------------------------------------------
TypeOK ==
    /\ pc \in [Calls -> Phases]
    /\ store \in [Calls -> Calls \cup {NoCall}]
    /\ behind \in [Calls -> Calls \cup {NoCall}]
    /\ awaitedBy \in [Calls -> Calls \cup {NoCall}]
    /\ queues \in [Keys -> Calls \cup {NoCall}]
    /\ active \in [Keys -> Calls \cup {NoCall}]
    /\ order \in [Keys -> Seq(Calls)]

(* The coordinator implements the serial queue of SerialCommands: the calls *)
(* of a key that reach its queue run one at a time and in order, and each   *)
(* runs and ends, whatever handlers do: neither an inner command, a callback*)
(* that runs beside, nor a failure of the one ahead blocks it.              *)
FrontOf(calls, phase) ==
    CHOOSE n \in 0 .. Len(calls) :
        /\ \A i \in 1 .. n : phase[calls[i]] # "queued"
        /\ n < Len(calls) => phase[calls[n + 1]] = "queued"
WaitingOf(k) == SubSeq(order[k], FrontOf(order[k], pc) + 1, Len(order[k]))
HolderOf(k) == {c \in Calls : pc[c] = "running" /\ KeyOf[c] = k}
Serial == INSTANCE SerialCommands
            WITH Requests <- Calls,
                 waiting <- [k \in Keys |-> WaitingOf(k)],
                 holder <- [k \in Keys |-> HolderOf(k)]
ImplementsSerial == Serial!FairSpec
=============================================================================
