------------------------------ MODULE OrderUpdates ------------------------------
(***************************************************************************)
(* How the postbacks of one exit order reach its trade: onOrderUpdate,     *)
(* _replayOrphanUpdates, _matchUnlinkedBrokerExit, _closeByBrokerSquareoff *)
(* and _bookRealizedPnl of src/src/trading/tradeManager.js over the order  *)
(* links and orphans of src/src/trading/tradeStore.js.                     *)
(*                                                                         *)
(* Updates come from the pipeline, whose queue handles one at a time, from *)
(* the exit watch, which polls beside it, and from the replay of updates   *)
(* that were stored because their order had no link yet.  The order is     *)
(* placed by a handler of the queue (an exit leg after a fill) or by a     *)
(* timer (a watchdog, the panic-exit timeout: line 8339); both place it    *)
(* inside a command of the trade.  Every await ends a step.                *)
(***************************************************************************)
EXTENDS Integers, Sequences, FiniteSets

CONSTANTS
    Updates,        \* the distinct states of the order the broker reports
    History,        \* Seq(Updates): the order in which it goes through them
    StatusOf,       \* [Updates -> OrderStatuses]
    Setups,         \* the circumstances a behaviour may have
    CacheLimit,     \* ORDER_UPDATE_SIGNATURE_CACHE_LIMIT
    NoUpdate

(* ours: the engine places the order; leg: as what; byTimer: outside the    *)
(* pipeline queue; watched: an exit watch polls it; fails: calls to the     *)
(* database may fail; ahead: the clock of the broker may be ahead of ours;  *)
(* deliveries: bound on the postbacks of one update.                        *)
Legs == {"SL", "PANIC_EXIT"}
Setup == [ours : BOOLEAN, leg : Legs, byTimer : BOOLEAN, watched : BOOLEAN,
          fails : BOOLEAN, ahead : BOOLEAN, deliveries : Nat]

OrderStatuses == {"OPEN", "PARTIAL", "COMPLETE", "CANCELLED", "REJECTED"}

ASSUME OrderAssumption ==
    /\ NoUpdate \notin Updates
    /\ StatusOf \in [Updates -> OrderStatuses]
    /\ History \in Seq(Updates)
    /\ Setups \subseteq Setup
    /\ CacheLimit \in Nat \ {0}

(* The exchange completes an order in one state: once filled it stays so.   *)
ASSUME FillAssumption ==
    \A u, v \in Updates : StatusOf[u] = "COMPLETE" /\ StatusOf[v] = "COMPLETE" => u = v

Sources == {"pipeline", "watch", "replay"}
CallPhases == {"idle", "finding", "matching", "storing", "squaring", "logging",
               "relinking", "waiting", "closing", "reading", "booking"}
PlacerPhases == {"idle", "placed", "linked", "popped", "replaying", "done"}
Roles == Legs \cup {"none", "BROKER_SQUAREOFF"}

VARIABLES
    setup,       \* the circumstances: never changes
    emitted,     \* how far the broker is in History
    delivered,   \* [Updates -> Nat]: postbacks made
    call,        \* [Sources -> the onOrderUpdate in progress]
    placer,      \* the handler that places the order
    replays,     \* the payloads it popped and has not replayed
    link,        \* order_links: the role of the order
    orphans,     \* orphan_order_updates
    processed,   \* _processedOrderUpdateSignatureById
    orphanSeen,  \* _orphanOrderUpdateSignatureById
    last,        \* _lastOrdersById: its last known status
    trade,       \* the status of the trade
    realized,    \* realizedPnl of daily_risk, in closes of this trade
    handled,     \* history: updates that were applied or found superseded
    missed       \* history: updates stored after the orphans were read

orderVars == <<link, orphans, processed, orphanSeen, last>>
vars == <<setup, emitted, delivered, call, placer, replays, orderVars, trade, realized,
          handled, missed>>

Idle == [pc |-> "idle", u |-> NoUpdate, role |-> "none", held |-> FALSE, read |-> 0]

Init ==
    /\ setup \in Setups
    /\ emitted = 0
    /\ delivered = [u \in Updates |-> 0]
    /\ call = [s \in Sources |-> Idle]
    /\ placer = "idle"
    /\ replays = <<>>
    /\ link = "none"
    /\ orphans = <<>>
    /\ processed = <<>>
    /\ orphanSeen = <<>>
    /\ last = "none"
    /\ trade = "LIVE"
    /\ realized = 0
    /\ handled = {}
    /\ missed = {}

-----------------------------------------------------------------------------
isTerminalOrderStatus(status) == status \in {"COMPLETE", "CANCELLED", "REJECTED"}

orderStatusRank(status) ==
    CASE status = "OPEN" -> 1
      [] status = "PARTIAL" -> 3
      [] isTerminalOrderStatus(status) -> 4
      [] OTHER -> 0

isOrderStatusRegression(prev, next) ==
    /\ orderStatusRank(prev) > 0
    /\ orderStatusRank(next) < orderStatusRank(prev)

Holds(signatures, u) == \E i \in DOMAIN signatures : signatures[i] = u

(* Mutant: a memory without its limit.                                      *)
rememberEvery(signatures, u) ==
    IF Holds(signatures, u) THEN signatures ELSE Append(signatures, u)

rememberOrderUpdateSignature(signatures, u) ==
    IF Holds(signatures, u) THEN signatures
    ELSE LET next == Append(signatures, u)
         IN SubSeq(next, 1 + Len(next) - IF Len(next) > CacheLimit THEN CacheLimit
                                         ELSE Len(next), Len(next))

(* _runTradeCommand: the replay runs inside the command of the placer.      *)
Placing == placer \notin {"idle", "done"}
HasTurn(s) ==
    \/ s = "replay"
    \/ ~Placing /\ \A r \in Sources \ {s} : ~call[r].held

Goes(s, pc) == call' = [call EXCEPT ![s].pc = pc]
Returns(s) == call' = [call EXCEPT ![s] = Idle]

-----------------------------------------------------------------------------
(* onOrderUpdate.                                                           *)

(* Up to its first await: an update that is older than a terminal one, or   *)
(* was processed, is ignored.                                               *)
Receive(s, u) ==
    /\ call[s].pc = "idle"
    /\ IF \/ isTerminalOrderStatus(last) /\ isOrderStatusRegression(last, StatusOf[u])
          \/ Holds(processed, u)
       THEN /\ handled' = handled \cup {u}
            /\ UNCHANGED <<call, last>>
       ELSE /\ call' = [call EXCEPT ![s] = [Idle EXCEPT !.pc = "finding", !.u = u]]
            /\ last' = StatusOf[u]
            /\ UNCHANGED handled
    /\ UNCHANGED <<link, orphans, processed, orphanSeen, trade, realized, missed>>

(* findTradeByOrder.                                                        *)
FindLink(s) ==
    LET u == call[s].u IN
    /\ call[s].pc = "finding"
    /\ \/ /\ link # "none"
          /\ processed' = rememberOrderUpdateSignature(processed, u)
          /\ orphanSeen' = <<>>
          /\ call' = [call EXCEPT ![s].pc = "logging", ![s].role = link]
       \/ /\ link = "none"
          /\ Holds(orphanSeen, u)
          /\ Returns(s)
          /\ UNCHANGED <<processed, orphanSeen>>
       \/ /\ link = "none"
          /\ ~Holds(orphanSeen, u)
          /\ orphanSeen' = rememberOrderUpdateSignature(orphanSeen, u)
          /\ Goes(s, IF StatusOf[u] = "COMPLETE" THEN "matching" ELSE "storing")
          /\ UNCHANGED processed
    /\ UNCHANGED <<setup, emitted, delivered, placer, replays, link, orphans,
                   last, trade, realized, handled, missed>>

(* _matchUnlinkedBrokerExit: a fill of the size and side that would close   *)
(* the live trade.  The time of its last change decides too.                *)
_matchUnlinkedBrokerExit(s, matches) ==
    /\ call[s].pc = "matching"
    /\ matches => trade = "LIVE"
    /\ Goes(s, IF matches THEN "squaring" ELSE "storing")
    /\ UNCHANGED <<setup, emitted, delivered, placer, replays, orderVars, trade,
                   realized, handled, missed>>

(* The order is linked as a square-off by the broker; then it closes.       *)
LinkSquareoff(s) ==
    /\ call[s].pc = "squaring"
    /\ link' = "BROKER_SQUAREOFF"
    /\ handled' = handled \cup {call[s].u}
    /\ Goes(s, "closing")
    /\ UNCHANGED <<setup, emitted, delivered, placer, replays, orphans,
                   processed, orphanSeen, last, trade, realized, missed>>

saveOrphanOrderUpdate(s) ==
    /\ call[s].pc = "storing"
    /\ orphans' = Append(orphans, call[s].u)
    /\ missed' = IF placer \in {"idle", "placed", "linked"} THEN missed
                 ELSE missed \cup {call[s].u}
    /\ Returns(s)
    /\ UNCHANGED <<setup, emitted, delivered, placer, replays, link, processed,
                   orphanSeen, last, trade, realized, handled>>

(* appendOrderLog.  The log itself decides nothing and is not kept.         *)
appendOrderLog(s) ==
    /\ call[s].pc = "logging"
    /\ Goes(s, "relinking")
    /\ UNCHANGED <<setup, emitted, delivered, placer, replays, orderVars, trade,
                   realized, handled, missed>>

(* linkOrder with the role that was read with the link (18540).             *)
Relink(s) ==
    /\ call[s].pc = "relinking"
    /\ link' = call[s].role
    /\ Goes(s, "waiting")
    /\ UNCHANGED <<setup, emitted, delivered, placer, replays, orphans,
                   processed, orphanSeen, last, trade, realized, handled, missed>>

(* Mutants: no fence, a fence without its look at the trade.                *)
neverSuppress(role, later) == FALSE
alwaysSuppress(role, later) == role \in Legs

(* An order of ours does not touch a trade that closed after the update was *)
(* made; one that is stamped later than the close passes.                   *)
_shouldSuppressTerminalOrderMutation(role, later) ==
    trade = "CLOSED" /\ role \in Legs /\ ~later

(* Which fill closes the trade: that of a stop is ignored when the trade is *)
(* closed, that of a panic exit or of a square-off is not looked at again.  *)
FillCloses(c, later) ==
    /\ StatusOf[c.u] = "COMPLETE"
    /\ ~_shouldSuppressTerminalOrderMutation(c.role, later)
    /\ c.role = "SL" => trade = "LIVE"

(* Mutant: a command that gives up when the trade is busy.                  *)
ApplyIfFree(s) ==
    LET c == call[s] IN
    /\ c.pc = "waiting"
    /\ handled' = IF HasTurn(s) THEN handled \cup {c.u} ELSE handled
    /\ IF HasTurn(s) /\ FillCloses(c, FALSE)
       THEN call' = [call EXCEPT ![s].pc = "closing", ![s].held = TRUE]
       ELSE Returns(s)
    /\ UNCHANGED <<setup, emitted, delivered, placer, replays, orderVars, trade,
                   realized, missed>>

(* The turn of the APPLY_ORDER_UPDATE command.  A fill closes the trade.    *)
(* The stamp of the update is the broker's, that of the close is ours.      *)
Apply(s) ==
    LET c == call[s] IN
    /\ c.pc = "waiting"
    /\ HasTurn(s)
    /\ handled' = handled \cup {c.u}
    /\ \E later \in {FALSE, setup.ahead} :
          IF FillCloses(c, later)
          THEN call' = [call EXCEPT ![s].pc = "closing", ![s].held = TRUE]
          ELSE Returns(s)
    /\ UNCHANGED <<setup, emitted, delivered, placer, replays, orderVars, trade,
                   realized, missed>>

(* _updateTrade to CLOSED, from the command or as a command of its own.     *)
CloseTrade(s) ==
    /\ call[s].pc = "closing"
    /\ HasTurn(s)
    /\ trade' = "CLOSED"
    /\ Goes(s, "reading")
    /\ UNCHANGED <<setup, emitted, delivered, placer, replays, orderVars,
                   realized, handled, missed>>

(* _bookRealizedPnl: getDailyRisk, then upsertDailyRisk of the sum.         *)
ReadRealized(s) ==
    /\ call[s].pc = "reading"
    /\ call' = [call EXCEPT ![s].pc = "booking", ![s].read = realized]
    /\ UNCHANGED <<setup, emitted, delivered, placer, replays, orderVars, trade,
                   realized, handled, missed>>

BookRealized(s) ==
    /\ call[s].pc = "booking"
    /\ realized' = call[s].read + 1
    /\ Returns(s)
    /\ UNCHANGED <<setup, emitted, delivered, placer, replays, orderVars, trade,
                   handled, missed>>

(* A call to the database throws.  The log and the link are best effort;    *)
(* the pipeline, the watch and the replay log the error and go on.          *)
CallFails(s) ==
    /\ setup.fails
    /\ \/ /\ \/ call[s].pc \in {"finding", "storing", "reading", "booking"}
             \/ call[s].pc = "closing" /\ call[s].role # "none"
          /\ Returns(s)
       \/ /\ \/ call[s].pc \in {"matching", "squaring"}
             \/ call[s].pc = "closing" /\ call[s].role = "none"
          /\ Goes(s, "storing")
       \/ /\ call[s].pc = "logging"
          /\ Goes(s, "relinking")
       \/ /\ call[s].pc = "relinking"
          /\ Goes(s, "waiting")
    /\ UNCHANGED <<setup, emitted, delivered, placer, replays, orderVars, trade,
                   realized, handled, missed>>

-----------------------------------------------------------------------------
(* The broker, and who calls onOrderUpdate.                                 *)

Emit ==
    /\ emitted < Len(History)
    /\ setup.ours => placer # "idle"
    /\ emitted' = emitted + 1
    /\ UNCHANGED <<setup, delivered, call, placer, replays, orderVars, trade,
                   realized, handled, missed>>

(* A postback, late or repeated, taken up by the pipeline.                  *)
Deliver(u) ==
    /\ \E i \in 1 .. emitted : History[i] = u
    /\ delivered[u] < setup.deliveries
    /\ Placing => setup.byTimer
    /\ delivered' = [delivered EXCEPT ![u] = @ + 1]
    /\ Receive("pipeline", u)
    /\ UNCHANGED <<setup, emitted, placer, replays>>

(* _watchExitLeg: starts after the replay, ends with the trade.             *)
Poll ==
    /\ setup.watched
    /\ placer = "done"
    /\ trade = "LIVE"
    /\ emitted > 0
    /\ Receive("watch", History[emitted])
    /\ UNCHANGED <<setup, emitted, delivered, placer, replays>>

-----------------------------------------------------------------------------
(* The placer: place, linkOrder, _replayOrphanUpdates.                      *)

PlaceOrder ==
    /\ setup.ours
    /\ placer = "idle"
    /\ trade = "LIVE"
    /\ \A s \in Sources : ~call[s].held
    /\ ~setup.byTimer => call["pipeline"].pc = "idle"
    /\ placer' = "placed"
    /\ UNCHANGED <<setup, emitted, delivered, call, replays, orderVars, trade,
                   realized, handled, missed>>

linkOrder ==
    /\ placer = "placed"
    /\ link' = setup.leg
    /\ placer' = "linked"
    /\ UNCHANGED <<setup, emitted, delivered, call, replays, orphans, processed,
                   orphanSeen, last, trade, realized, handled, missed>>

(* popOrphanOrderUpdates: a find, then a deleteMany if it found any.        *)
FindOrphans ==
    /\ placer = "linked"
    /\ replays' = orphans
    /\ placer' = IF orphans = <<>> THEN "done" ELSE "popped"
    /\ UNCHANGED <<setup, emitted, delivered, call, orderVars, trade, realized,
                   handled, missed>>

DeleteOrphans ==
    /\ placer = "popped"
    /\ orphans' = <<>>
    /\ placer' = "replaying"
    /\ UNCHANGED <<setup, emitted, delivered, call, replays, link, processed,
                   orphanSeen, last, trade, realized, handled, missed>>

PopFails ==
    /\ setup.fails
    /\ placer \in {"linked", "popped"}
    /\ placer' = "done"
    /\ replays' = <<>>
    /\ UNCHANGED <<setup, emitted, delivered, call, orderVars, trade, realized,
                   handled, missed>>

_replayOrphanUpdates ==
    /\ placer = "replaying"
    /\ \/ /\ replays # <<>>
          /\ Receive("replay", Head(replays))
          /\ replays' = Tail(replays)
          /\ UNCHANGED placer
       \/ /\ replays = <<>>
          /\ call["replay"].pc = "idle"
          /\ placer' = "done"
          /\ UNCHANGED <<call, replays, orderVars, trade, realized, handled, missed>>
    /\ UNCHANGED <<setup, emitted, delivered>>

-----------------------------------------------------------------------------
CallStep(s) ==
    \/ FindLink(s)
    \/ \E matches \in BOOLEAN : _matchUnlinkedBrokerExit(s, matches)
    \/ LinkSquareoff(s)
    \/ saveOrphanOrderUpdate(s)
    \/ appendOrderLog(s)
    \/ Relink(s)
    \/ Apply(s)
    \/ CloseTrade(s)
    \/ ReadRealized(s)
    \/ BookRealized(s)
    \/ CallFails(s)

PlacerStep ==
    linkOrder \/ FindOrphans \/ DeleteOrphans \/ PopFails \/ _replayOrphanUpdates

Next ==
    \/ Emit
    \/ \E u \in Updates : Deliver(u)
    \/ Poll
    \/ PlaceOrder
    \/ PlacerStep
    \/ \E s \in Sources : CallStep(s)

(* A handler that has begun goes on: each of its awaits ends.  A postback   *)
(* may never come, and the order may never be placed.                       *)
Fairness ==
    /\ WF_vars(PlacerStep)
    /\ \A s \in Sources : WF_vars(CallStep(s))

Spec == Init /\ [][Next]_vars
FairSpec == Spec /\ Fairness

-----------------------------------------------------------------------------
TypeOK ==
    /\ setup \in Setups
    /\ emitted \in 0 .. Len(History)
    /\ delivered \in [Updates -> 0 .. setup.deliveries]
    /\ call \in [Sources -> [pc : CallPhases, u : Updates \cup {NoUpdate},
                             role : Roles, held : BOOLEAN, read : Nat]]
    /\ placer \in PlacerPhases
    /\ replays \in Seq(Updates)
    /\ link \in Roles
    /\ orphans \in Seq(Updates)
    /\ processed \in Seq(Updates) /\ Len(processed) <= CacheLimit
    /\ orphanSeen \in Seq(Updates) /\ Len(orphanSeen) <= CacheLimit
    /\ last \in OrderStatuses \cup {"none"}
    /\ trade \in {"LIVE", "CLOSED"}
    /\ realized \in Nat
    /\ handled \subseteq Updates
    /\ missed \subseteq Updates

(* The profit of a trade that an exit order of ours closed enters the       *)
(* realised profit of the day once, which the daily-loss halt reads,        *)
(* however often its fill is reported, to whichever of the handlers, and    *)
(* whatever calls fail (docs/feature-wiring-audit-2026-03-01.md:17:         *)
(* "Deduplicates trade-close processing").  An order that a timer placed    *)
(* can be taken for a square-off by the broker before it is linked, and     *)
(* that branch books again what is delivered, or polled, again; so does the *)
(* branch of a panic exit with an update that a clock ahead of ours stamped *)
(* later than the close (lines 3009-3018).                                  *)
OwnExitBookedOnce ==
    (/\ setup.ours
     /\ setup.byTimer => setup.deliveries = 1 /\ ~setup.watched
     /\ setup.ahead => setup.leg = "SL")
        => realized <= 1

(* When no handler is at work and no call failed, every update of an order  *)
(* of ours that was delivered was applied or superseded, whether it came    *)
(* before or after the link ("store and replay after link exists",          *)
(* tradeManager.js:18505), but for those whose link was looked up too early *)
(* and that were stored too late, once the orphans had been read (668).     *)
(* Only an order placed beside the queue can have these.                    *)
Quiet == placer \in {"idle", "done"} /\ \A s \in Sources : call[s].pc = "idle"
OnlyLateOrphansAreMissed ==
    setup.ours /\ ~setup.fails =>
        /\ Quiet /\ link # "none" =>
              \A u \in Updates : delivered[u] > 0 => u \in handled \cup missed
        /\ missed # {} => setup.byTimer

(* A reported fill of an exit order that a handler of the queue placed      *)
(* closes the trade and is booked in the end, unless calls fail.            *)
FillIsBooked ==
    (/\ setup.ours /\ ~setup.byTimer /\ ~setup.fails
     /\ \E u \in Updates : StatusOf[u] = "COMPLETE" /\ delivered[u] > 0)
        ~> (trade = "CLOSED" /\ realized >= 1)
=============================================================================
