--------------------------- MODULE TradeLifecycle ---------------------------
(***************************************************************************)
(* The life of a filled trade: its protective orders, the panic exit, the  *)
(* reactions to what the broker reports, the two reconcilers that compare  *)
(* it with the broker, and its close (src/src/trading/tradeManager.js).    *)
(*                                                                         *)
(* The pipeline queue of src/src/pipeline.js runs one task at a time: an   *)
(* order update, a reconcile, the OCO tick, the forced flatten.  The       *)
(* watchdog timers were armed inside a command of the trade, run in its    *)
(* context and therefore beside the queue (see ExecutionCoordinator).  A   *)
(* handler is a stack of frames, a frame the call in progress; a step ends *)
(* at an await of the broker, or of the database where another handler can *)
(* tell.  The broker and the market move between any two steps.            *)
(*                                                                         *)
(* The trade is a long position of one lot (qty units), its entry order is *)
(* complete when a behaviour begins.  Scale-out (TP1), trailing of stops   *)
(* and virtual targets are left out, as are failures of the database,      *)
(* which TradeStore has, and repeated postbacks, which OrderUpdates has.   *)
(***************************************************************************)
EXTENDS TradeStateMachine, Integers, Sequences, FiniteSets

CONSTANTS
    Setups,                  \* the circumstances a behaviour may have
    MaxOrders,               \* bound: the exit orders of the trade
    TARGET_REPLACE_MAX,
    PANIC_EXIT_MAX_RETRIES

(* What may go wrong, as often as setup.faults says.  refused: an order is  *)
(* not accepted; uncancelled: a cancellation fails; unread: positions or an *)
(* order cannot be read; unreported: a postback is lost; byHand: someone    *)
(* sells the position; REJECTED, CANCELLED: the broker so ends a working    *)
(* order.                                                                   *)
DeadStatuses == {"CANCELLED", "REJECTED"}
Faults == {"refused", "uncancelled", "unread", "unreported", "byHand"} \cup DeadStatuses

(* _armStopLossSla, _schedulePanicExitWatch, _forceFlattenIfNeeded.         *)
TimerKinds == {"SL_SLA", "PANIC_TIMEOUT", "FORCE_FLATTEN_AT"}

(* What the entry fill does to the trade: nothing; it is beyond the limit   *)
(* of slippage; its risk to the stop is beyond the hard limit.              *)
Fills == {"FAIR", "ENTRY_SLIPPAGE", "POST_FILL_RISK_HARD_BREACH"}

(* tp: OPT_TP_ENABLED; timers: those that may fire while we look.           *)
Setup == [qty : 1 .. 2, tp : BOOLEAN, fill : Fills, timers : SUBSET TimerKinds,
          faults : Nat, kinds : SUBSET Faults]

ASSUME LifecycleAssumption ==
    /\ Setups \subseteq Setup
    /\ MaxOrders \in Nat
    /\ TARGET_REPLACE_MAX \in Nat
    /\ PANIC_EXIT_MAX_RETRIES \in Nat

VARIABLES
    setup,     \* the circumstances: never changes
    breach,    \* history: the watchdog of the stop has gone on to a panic exit
    faults,    \* the faults still to come
    orders,    \* at the broker: the exit orders, by number
    pos,       \* at the broker: the net position
    news,      \* postbacks on their way
    orphans,   \* orphan_order_updates
    linked,    \* order_links
    row,       \* the trade in the database
    mem,       \* the memory of the trade manager
    h          \* [Procs -> Seq(frames)]: the handlers in progress

broker == <<orders, pos, news>>
vars == <<setup, breach, faults, broker, orphans, linked, row, mem, h>>

Procs == {"pipeline", "timer"}
OrderIds == 1 .. MaxOrders
NoOrder == 0
Roles == {"SL", "TARGET", "PANIC_EXIT"}
BrokerStatuses == {"OPEN", "COMPLETE", "CANCELLED", "REJECTED"}

NewRow ==
    [status |-> "ENTRY_OPEN", sl |-> NoOrder, tgt |-> NoOrder, panic |-> NoOrder,
     exit |-> NoOrder, cleanup |-> FALSE, replaced |-> 0]

Frame(pc) ==
    [pc |-> pc, id |-> NoOrder, st |-> "OPEN", t |-> NewRow, q |-> 0, todo |-> <<>>,
     flag |-> FALSE]

Init ==
    /\ setup \in Setups
    /\ breach = FALSE
    /\ faults = setup.faults
    /\ orders = <<>>
    /\ pos = setup.qty
    /\ news = {}
    /\ orphans = {}
    /\ linked = {}
    /\ row = NewRow
    /\ mem = [kill |-> FALSE, halted |-> FALSE, active |-> TRUE, closed |-> FALSE,
              lock |-> FALSE, inFlight |-> FALSE, expected |-> {}, seen |-> {},
              known |-> [i \in OrderIds |-> "none"], sla |-> NoOrder,
              watch |-> NoOrder, retries |-> 0]
    /\ h \in [Procs -> {<<>>, <<Frame("entry")>>}]
    /\ h["timer"] = <<>>

-----------------------------------------------------------------------------
(* Frames.                                                                  *)

Top(p) == h[p][Len(h[p])]
Below(p) == SubSeq(h[p], 1, Len(h[p]) - 1)
At(p, pc) == h[p] # <<>> /\ Top(p).pc = pc
Goes(p, frames) == h' = [h EXCEPT ![p] = Below(p) \o frames]
GoesTo(p, pc) == Goes(p, <<[Top(p) EXCEPT !.pc = pc]>>)
Returns(p) == Goes(p, <<>>)
Begins(p, frame) == h[p] = <<>> /\ h' = [h EXCEPT ![p] = <<frame>>]

Fault(kind) == faults > 0 /\ kind \in setup.kinds /\ faults' = faults - 1
NoFault == UNCHANGED faults

(* _panicExit of the trade, allowWhenHalted or not.                         *)
Panic(allow) == [Frame("panic") EXCEPT !.flag = allow]

(* _handleOcoDoubleFill, and the tick of a position that should not be.     *)
FlattenAndHalt == <<Frame("halt"), Panic(TRUE)>>

-----------------------------------------------------------------------------
(* The row.                                                                 *)

Terminal(status) == status \in TERMINAL_TRADE_STATUSES
Filled == {"ENTRY_FILLED", "LIVE"}

(* updateTrade: see TradeStore.                                             *)
Written(patch) ==
    LET moves == "status" \in DOMAIN patch
        takes == /\ moves
                 /\ canTransition(row.status, patch.status)
                 /\ ~staleEntryFill(row.status, patch.status)
        late == /\ moves
                /\ Terminal(row.status)
                /\ patch.status \in ENTRY_RELATED_STATUS_TARGETS
        fields == IF takes THEN DOMAIN patch ELSE DOMAIN patch \ {"status"}
    IN IF late THEN row
       ELSE [f \in DOMAIN row |-> IF f \in fields THEN patch[f] ELSE row[f]]

Writes(patch) == row' = Written(patch)
Status(s) == [status |-> s]

Leg(id) == IF id = NoOrder THEN <<>> ELSE <<id>>
Legs == Leg(row.sl) \o Leg(row.tgt)

(* _cleanupTradeRuntimeState.                                               *)
Cleaned(m) == [m EXCEPT !.lock = FALSE, !.inFlight = FALSE, !.sla = NoOrder,
                        !.watch = NoOrder, !.retries = 0, !.active = FALSE]

-----------------------------------------------------------------------------
(* The broker.                                                              *)

Working(id) == id \in DOMAIN orders /\ orders[id].st = "OPEN"
StatusAt(id) == orders[id].st

(* A postback is late when its order changed after the close of the trade,  *)
(* which the fence of _shouldSuppressTerminalOrderMutation lets through.    *)
Reports(id, st) == {[id |-> id, st |-> st, late |-> Terminal(row.status)]}
Fenced(updates) == {[u EXCEPT !.late = FALSE] : u \in updates}

Accepts(role, n) ==
    /\ Len(orders) < MaxOrders
    /\ orders' = Append(orders, [role |-> role, side |-> IF n > 0 THEN -1 ELSE 1,
                                 left |-> IF n > 0 THEN n ELSE -n, got |-> 0,
                                 st |-> "OPEN"])
    /\ UNCHANGED <<pos, news>>
NextId == Len(orders) + 1

(* A unit of a working order trades.                                        *)
Trades(id) ==
    LET o == orders[id]
        st == IF o.left = 1 THEN "COMPLETE" ELSE "OPEN"
    IN /\ Working(id)
       /\ orders' = [orders EXCEPT ![id].left = @ - 1, ![id].got = @ + 1, ![id].st = st]
       /\ pos' = pos + o.side
       /\ news' = news \cup Reports(id, IF st = "OPEN" THEN "PARTIAL" ELSE st)
       /\ UNCHANGED <<setup, breach, faults, orphans, linked, row, mem, h>>

Dies(id, st) ==
    /\ Fault(st)
    /\ Working(id)
    /\ orders' = [orders EXCEPT ![id].st = st]
    /\ news' = news \cup Reports(id, st)
    /\ UNCHANGED <<setup, breach, pos, orphans, linked, row, mem, h>>

SoldByHand ==
    /\ Fault("byHand")
    /\ pos > 0
    /\ pos' = 0
    /\ UNCHANGED <<setup, breach, orders, news, orphans, linked, row, mem, h>>

IsLost(u) ==
    /\ Fault("unreported")
    /\ news' = news \ {u}
    /\ UNCHANGED <<setup, breach, orders, pos, orphans, linked, row, mem, h>>

(* _safeCancelOrder: an order known to be dead or complete is skipped, and  *)
(* the broker takes no cancellation of one that is.                         *)
Cancelled(id) ==
    /\ NoFault
    /\ IF Working(id) /\ id \notin mem.seen
       THEN /\ orders' = [orders EXCEPT ![id].st = "CANCELLED"]
            /\ news' = news \cup Reports(id, "CANCELLED")
            /\ UNCHANGED pos
       ELSE UNCHANGED broker
NotCancelled == Fault("uncancelled") /\ UNCHANGED broker

-----------------------------------------------------------------------------
(* onOrderUpdate of a linked order, up to its first await: the handler it   *)
(* starts, none when it confirms a cancellation of ours or is fenced.       *)
Handling(u) ==
    IF \/ u.st = "CANCELLED" /\ u.id \in mem.expected
       \/ Terminal(row.status) /\ ~u.late
    THEN <<>>
    ELSE <<[Frame("update") EXCEPT !.id = u.id, !.st = u.st, !.t = row]>>

Remembers(u) ==
    mem' = [mem EXCEPT
        !.known[u.id] = IF @ \in {"none", "OPEN"}
                        THEN IF u.st = "PARTIAL" THEN "OPEN" ELSE u.st ELSE @,
        !.seen = IF u.st = "PARTIAL" THEN @ ELSE @ \cup {u.id},
        !.expected = IF u.id \in linked /\ u.st = "CANCELLED" THEN @ \ {u.id} ELSE @]

Regresses(u) == u.st = "PARTIAL" /\ mem.known[u.id] \notin {"none", "OPEN"}

Deliver(u) ==
    /\ h["pipeline"] = <<>>
    /\ news' = news \ {u}
    /\ IF Regresses(u)
       THEN UNCHANGED <<orphans, mem, h>>
       ELSE /\ Remembers(u)
            /\ IF u.id \in linked
               THEN h' = [h EXCEPT !["pipeline"] = Handling(u)] /\ UNCHANGED orphans
               ELSE orphans' = orphans \cup {u} /\ UNCHANGED h
    /\ UNCHANGED <<setup, breach, faults, orders, pos, linked, row>>

(* linkOrder after an order was placed and noted in the row.                *)
ReplayAfter == [slLink |-> "slReplay", tgtLink |-> "tgtReplay",
                panicLink |-> "panicReplay", timeoutLink |-> "timeoutReplay"]

Link(p) ==
    /\ h[p] # <<>>
    /\ Top(p).pc \in DOMAIN ReplayAfter
    /\ linked' = linked \cup {Top(p).id}
    /\ GoesTo(p, ReplayAfter[Top(p).pc])
    /\ UNCHANGED <<setup, breach, faults, broker, orphans, row, mem>>

(* _replayOrphanUpdates, and the timer that is armed when it is done: the   *)
(* SLA of a stop, the watch of a panic exit.                                *)
Replay(p) ==
    LET f == Top(p)
        mine == {u \in orphans : u.id = f.id}
    IN /\ h[p] # <<>>
       /\ \E pc \in DOMAIN ReplayAfter : ReplayAfter[pc] = f.pc
       /\ \/ \E u \in mine :
              /\ orphans' = orphans \ {u}
              /\ IF Regresses(u)
                 THEN UNCHANGED <<mem, h>>
                 ELSE Remembers(u) /\ Goes(p, <<f>> \o Handling(u))
          \/ /\ mine = {}
             /\ mem' = CASE f.pc = "slReplay" -> [mem EXCEPT !.sla = f.id]
                         [] f.pc = "tgtReplay" -> mem
                         [] OTHER -> [mem EXCEPT !.watch = f.id]
             /\ IF f.pc = "slReplay" THEN GoesTo(p, "target") ELSE Returns(p)
             /\ UNCHANGED orphans
       /\ UNCHANGED <<setup, breach, faults, broker, linked, row>>

-----------------------------------------------------------------------------
(* _finalizeEntryFill and _placeExitsIfMissing.                             *)

(* A fill far beyond the limit sets the kill switch too.                    *)
FinalizeEntryFill(p) ==
    /\ At(p, "entry")
    /\ IF setup.fill = "ENTRY_SLIPPAGE"
       THEN /\ Writes(Status("GUARD_FAILED"))
            /\ \E kill \in {mem.kill, TRUE} : mem' = [mem EXCEPT !.kill = kill]
            /\ Goes(p, <<Panic(FALSE)>>)
       ELSE /\ Writes(Status("ENTRY_FILLED"))
            /\ Goes(p, IF setup.fill = "FAIR" THEN <<Frame("exits")>>
                       ELSE <<Frame("recheck"), Frame("exits")>>)
            /\ UNCHANGED mem
    /\ UNCHANGED <<setup, breach, faults, broker, orphans, linked>>

(* _postFillRiskRecheckAndAdjust, when the exits are placed: one lot cannot *)
(* be reduced, so a hard breach is sold, and then marked as failed.         *)
Recheck(p) ==
    LET over == \/ row.status \in {"GUARD_FAILED", "EXITED_TARGET", "EXITED_SL", "CLOSED"}
                \/ row.panic # NoOrder
                \/ mem.inFlight
    IN /\ At(p, "recheck")
       /\ Goes(p, IF over THEN <<>> ELSE <<Frame("breach"), Panic(FALSE)>>)
       /\ UNCHANGED <<setup, breach, faults, broker, orphans, linked, row, mem>>

MarkBreach(p) ==
    /\ At(p, "breach")
    /\ Writes(Status("GUARD_FAILED"))
    /\ Returns(p)
    /\ UNCHANGED <<setup, breach, faults, broker, orphans, linked, mem>>

(* Mutant: a second stop is placed where the first is in the row.           *)
PlaceExitsTwice(p) ==
    /\ At(p, "exits")
    /\ IF mem.lock
       THEN Returns(p) /\ UNCHANGED mem
       ELSE /\ mem' = [mem EXCEPT !.lock = TRUE]
            /\ Goes(p, <<[Frame("stop") EXCEPT !.flag = row.status \in Filled]>>)
    /\ UNCHANGED <<setup, breach, faults, broker, orphans, linked, row>>

(* flag: the status as it was then lets the trade be marked LIVE.           *)
PlaceExits(p) ==
    /\ At(p, "exits")
    /\ IF mem.lock
       THEN Returns(p) /\ UNCHANGED mem
       ELSE /\ mem' = [mem EXCEPT !.lock = TRUE]
            /\ Goes(p, <<[Frame(IF row.sl = NoOrder THEN "stop" ELSE "target")
                           EXCEPT !.flag = row.status \in Filled]>>)
    /\ UNCHANGED <<setup, breach, faults, broker, orphans, linked, row>>

Unlock(p) ==
    /\ At(p, "unlock")
    /\ mem' = [mem EXCEPT !.lock = FALSE]
    /\ Returns(p)
    /\ UNCHANGED <<setup, breach, faults, broker, orphans, linked, row>>

(* The stop is placed; or its price was passed already, or the broker       *)
(* refuses it, and the position is sold at the market.                      *)
PlaceStop(p) ==
    /\ At(p, "stop")
    /\ \/ /\ mem.halted
          /\ GoesTo(p, "unlock")
          /\ NoFault
          /\ UNCHANGED <<broker, mem>>
       \/ /\ ~mem.halted
          /\ Accepts("SL", setup.qty)
          /\ Goes(p, <<[Top(p) EXCEPT !.pc = "slRow", !.id = NextId]>>)
          /\ NoFault
          /\ UNCHANGED mem
       \/ /\ NoFault \/ (~mem.halted /\ Fault("refused"))
          /\ mem' = [mem EXCEPT !.kill = TRUE]
          /\ Goes(p, <<Frame("unlock"), Panic(FALSE)>>)
          /\ UNCHANGED broker
    /\ UNCHANGED <<setup, breach, orphans, linked, row>>

StopRow(p) ==
    /\ At(p, "slRow")
    /\ Writes([status |-> "SL_PLACED", sl |-> Top(p).id])
    /\ GoesTo(p, "slLink")
    /\ UNCHANGED <<setup, breach, faults, broker, orphans, linked, mem>>

(* Without targets the trade is LIVE now; with one it is placed first.      *)
ConsiderTarget(p) ==
    /\ At(p, "target")
    /\ IF setup.tp /\ row.tgt = NoOrder
       THEN Goes(p, <<[Top(p) EXCEPT !.pc = "live", !.id = NoOrder], Frame("place")>>)
       ELSE Goes(p, <<[Top(p) EXCEPT !.pc = "live", !.id = NoOrder]>>)
    /\ UNCHANGED <<setup, breach, faults, broker, orphans, linked, row, mem>>

MarkLive(p) ==
    /\ At(p, "live")
    /\ IF Top(p).flag THEN Writes(Status("LIVE")) ELSE UNCHANGED row
    /\ GoesTo(p, "unlock")
    /\ UNCHANGED <<setup, breach, faults, broker, orphans, linked, mem>>

(* _placeTargetOnly, of the exits or instead of a dead target.              *)
PlaceTarget(p) ==
    /\ At(p, "place")
    /\ \/ /\ IF mem.halted THEN NoFault ELSE Fault("refused")
          /\ Returns(p)
          /\ UNCHANGED broker
       \/ /\ ~mem.halted
          /\ NoFault
          /\ Accepts("TARGET", setup.qty)
          /\ Goes(p, <<[Top(p) EXCEPT !.pc = "tgtRow", !.id = NextId]>>)
    /\ UNCHANGED <<setup, breach, orphans, linked, row, mem>>

TargetRow(p) ==
    /\ At(p, "tgtRow")
    /\ Writes(IF row.status \in Filled
              THEN [status |-> "LIVE", tgt |-> Top(p).id] ELSE [tgt |-> Top(p).id])
    /\ GoesTo(p, "tgtLink")
    /\ UNCHANGED <<setup, breach, faults, broker, orphans, linked, mem>>

(* _handleDeadTargetImpl.                                                   *)
HandleDeadTarget(p) ==
    /\ At(p, "deadTarget")
    /\ IF Terminal(row.status) \/ row.status = "GUARD_FAILED"
       THEN Returns(p) /\ UNCHANGED row
       ELSE IF row.replaced >= TARGET_REPLACE_MAX
       THEN Writes([tgt |-> NoOrder]) /\ Returns(p)
       ELSE /\ Writes([tgt |-> NoOrder, replaced |-> row.replaced + 1])
            /\ Goes(p, <<Frame("place")>>)
    /\ UNCHANGED <<setup, breach, faults, broker, orphans, linked, mem>>

-----------------------------------------------------------------------------
(* The command APPLY_ORDER_UPDATE, by the role of the order.                *)

(* An exit leg fills: the other one is to be cancelled.                     *)
Other(role) == IF role = "SL" THEN "TARGET" ELSE "SL"
ExitedBy(role) == IF role = "SL" THEN "EXITED_SL" ELSE "EXITED_TARGET"
OtherLeg(t, role) == IF role = "SL" THEN t.tgt ELSE t.sl

LegFilled(p, id, t) ==
    Goes(p, <<[Frame("oco") EXCEPT !.id = id, !.todo = Leg(OtherLeg(t, orders[id].role))]>>)

(* A leg that fills after the close of the trade turned the position over.  *)
UpdateOfLeg(p) ==
    LET f == Top(p)
        role == orders[f.id].role
    IN /\ At(p, "update")
       /\ role \in {"SL", "TARGET"}
       /\ CASE f.st = "COMPLETE" /\ row.status \in {ExitedBy(Other(role)), "CLOSED"} ->
                  IF row.exit = f.id
                  THEN Returns(p) /\ UNCHANGED mem
                  ELSE /\ mem' = [mem EXCEPT !.kill = TRUE]
                       /\ Goes(p, FlattenAndHalt)
            [] f.st = "COMPLETE" /\ row.status = ExitedBy(role) ->
                  Returns(p) /\ UNCHANGED mem
            [] f.st = "COMPLETE" /\ ~Terminal(row.status) ->
                  LegFilled(p, f.id, f.t) /\ UNCHANGED mem
            [] f.st # "COMPLETE" /\ Terminal(row.status) ->
                  Returns(p) /\ UNCHANGED mem
            [] f.st \in DeadStatuses /\ ~Terminal(row.status) /\ role = "TARGET" ->
                  GoesTo(p, "deadTarget") /\ UNCHANGED mem
            [] OTHER ->
                  GoesTo(p, "guard") /\ UNCHANGED mem
       /\ UNCHANGED <<setup, breach, faults, broker, orphans, linked, row>>

(* Mutant: a panic exit that is over closes the trade, dead or complete.    *)
UpdateOfDeadPanicExitCloses(p) ==
    LET f == Top(p) IN
    /\ At(p, "update")
    /\ orders[f.id].role = "PANIC_EXIT"
    /\ IF f.st = "PARTIAL"
       THEN Returns(p) /\ UNCHANGED <<row, mem>>
       ELSE /\ mem' = [mem EXCEPT !.watch = NoOrder, !.retries = 0]
            /\ Writes(Status("CLOSED"))
            /\ GoesTo(p, "finalize")
    /\ UNCHANGED <<setup, breach, faults, broker, orphans, linked>>

UpdateOfPanicExit(p) ==
    LET f == Top(p) IN
    /\ At(p, "update")
    /\ orders[f.id].role = "PANIC_EXIT"
    /\ IF f.st = "PARTIAL"
       THEN Returns(p) /\ UNCHANGED <<row, mem>>
       ELSE /\ mem' = [mem EXCEPT !.watch = NoOrder, !.retries = 0]
            /\ IF f.st = "COMPLETE"
               THEN Writes(Status("CLOSED")) /\ GoesTo(p, "finalize")
               ELSE Writes(Status("GUARD_FAILED")) /\ Returns(p)
    /\ UNCHANGED <<setup, breach, faults, broker, orphans, linked>>

(* _onSlFilled, _onTargetFilled.                                            *)
CancelOther(p) ==
    /\ At(p, "oco")
    /\ Top(p).todo # <<>>
    /\ LET id == Head(Top(p).todo)
       IN /\ mem' = [mem EXCEPT !.expected = @ \cup {id}]
          /\ Cancelled(id) \/ NotCancelled
    /\ Goes(p, <<[Top(p) EXCEPT !.todo = Tail(@)]>>)
    /\ UNCHANGED <<setup, breach, orphans, linked, row>>

LegFilledRow(p) ==
    /\ At(p, "oco")
    /\ Top(p).todo = <<>>
    /\ Writes([status |-> ExitedBy(orders[Top(p).id].role), exit |-> Top(p).id])
    /\ Goes(p, <<Frame("finalize")>>)
    /\ UNCHANGED <<setup, breach, faults, broker, orphans, linked, mem>>

(* _finalizeClosedImpl: the fence moves to now.                             *)
FinalizeClosed(p) ==
    /\ At(p, "finalize")
    /\ Writes(IF row.status \in {"EXITED_TARGET", "EXITED_SL"}
              THEN <<>> ELSE Status("CLOSED"))
    /\ mem' = [Cleaned(mem) EXCEPT !.closed = TRUE]
    /\ news' = Fenced(news)
    /\ orphans' = Fenced(orphans)
    /\ Returns(p)
    /\ UNCHANGED <<setup, breach, faults, orders, pos, linked>>

Halt(p) ==
    /\ At(p, "halt")
    /\ mem' = [mem EXCEPT !.halted = TRUE]
    /\ Returns(p)
    /\ UNCHANGED <<setup, breach, faults, broker, orphans, linked, row>>

-----------------------------------------------------------------------------
(* _guardFail.                                                              *)

(* The cancellation of a stop is expected while the position is sold.       *)
GuardChecks(p) ==
    LET f == Top(p)
        stopped == f.st = "CANCELLED" /\ orders[f.id].role = "SL"
    IN /\ At(p, "guard")
       /\ IF stopped /\ row.panic # NoOrder
          THEN Returns(p) /\ NoFault
          ELSE \/ /\ NoFault
                  /\ IF stopped /\ pos = 0 THEN Returns(p) ELSE GoesTo(p, "guardMark")
               \/ /\ stopped
                  /\ Fault("unread")
                  /\ GoesTo(p, "guardMark")
       /\ UNCHANGED <<setup, breach, broker, orphans, linked, row, mem>>

GuardMarks(p) ==
    /\ At(p, "guardMark")
    /\ mem' = [mem EXCEPT !.kill = TRUE]
    /\ Writes(Status("GUARD_FAILED"))
    /\ Goes(p, <<[Frame("guardCancel") EXCEPT !.todo = Legs]>>)
    /\ UNCHANGED <<setup, breach, faults, broker, orphans, linked>>

(* One failure ends the cancellations, and the exit goes ahead.             *)
GuardCancels(p) ==
    LET todo == Top(p).todo IN
    /\ At(p, "guardCancel")
    /\ IF todo = <<>>
       THEN Goes(p, <<Panic(FALSE)>>) /\ NoFault /\ UNCHANGED <<broker, mem>>
       ELSE LET id == Head(todo)
                taken == Working(id) \/ id \in mem.seen
            IN /\ mem' = [mem EXCEPT !.expected = @ \cup {id}]
               /\ \/ /\ Cancelled(id)
                     /\ Goes(p, <<[Top(p) EXCEPT !.todo = IF taken THEN Tail(@)
                                                          ELSE <<>>]>>)
                  \/ /\ NotCancelled
                     /\ Goes(p, <<[Top(p) EXCEPT !.todo = <<>>]>>)
    /\ UNCHANGED <<setup, breach, orphans, linked, row>>

-----------------------------------------------------------------------------
(* _panicExitImpl.  The marker is dropped by every return that placed no    *)
(* order, of a call that found another one in flight too.                   *)

PanicIsInFlight(p) ==
    /\ At(p, "panic")
    /\ IF mem.inFlight
       THEN /\ mem' = [mem EXCEPT !.inFlight = FALSE]
            /\ Returns(p)
       ELSE GoesTo(p, "panicRead") /\ UNCHANGED mem
    /\ UNCHANGED <<setup, breach, faults, broker, orphans, linked, row>>

(* Mutants: the order in the row is not looked at; the kill switch refuses  *)
(* exits as a halt does.                                                    *)
PanicStartsAgain(p) ==
    LET goes == mem.halted => Top(p).flag IN
    /\ At(p, "panicRead")
    /\ mem' = [mem EXCEPT !.inFlight = goes]
    /\ IF goes
       THEN Goes(p, <<[Frame("panicCancel") EXCEPT !.todo = Legs]>>)
       ELSE Returns(p)
    /\ UNCHANGED <<setup, breach, faults, broker, orphans, linked, row>>

PanicStartsUnlessKilled(p) ==
    LET goes == row.panic = NoOrder /\ (mem.kill => Top(p).flag) IN
    /\ At(p, "panicRead")
    /\ mem' = [mem EXCEPT !.inFlight = goes]
    /\ IF goes
       THEN Goes(p, <<[Frame("panicCancel") EXCEPT !.todo = Legs]>>)
       ELSE Returns(p)
    /\ UNCHANGED <<setup, breach, faults, broker, orphans, linked, row>>

(* flag: allowWhenHalted.                                                   *)
PanicStarts(p) ==
    LET goes == row.panic = NoOrder /\ (mem.halted => Top(p).flag) IN
    /\ At(p, "panicRead")
    /\ mem' = [mem EXCEPT !.inFlight = goes]
    /\ IF goes
       THEN Goes(p, <<[Frame("panicCancel") EXCEPT !.todo = Legs]>>)
       ELSE Returns(p)
    /\ UNCHANGED <<setup, breach, faults, broker, orphans, linked, row>>

PanicCancels(p) ==
    LET id == Head(Top(p).todo)
        status == IF mem.known[id] = "none" THEN StatusAt(id) ELSE mem.known[id]
    IN /\ At(p, "panicCancel")
       /\ Top(p).todo # <<>>
       /\ Goes(p, <<[Top(p) EXCEPT !.todo = Tail(@)]>>)
       /\ IF status = "OPEN"
          THEN /\ mem' = [mem EXCEPT !.expected = @ \cup {id}]
               /\ Cancelled(id) \/ NotCancelled
          ELSE NoFault /\ UNCHANGED <<broker, mem>>
       /\ UNCHANGED <<setup, breach, orphans, linked, row>>

(* The live position, or the quantity of the trade when it cannot be read.  *)
PanicReadsPosition(p) ==
    /\ At(p, "panicCancel")
    /\ Top(p).todo = <<>>
    /\ \/ NoFault /\ Goes(p, <<[Frame("panicPlace") EXCEPT !.q = pos]>>)
       \/ Fault("unread") /\ Goes(p, <<[Frame("panicPlace") EXCEPT !.q = setup.qty]>>)
    /\ UNCHANGED <<setup, breach, broker, orphans, linked, row, mem>>

PanicFindsNothing(p) ==
    /\ At(p, "panicPlace")
    /\ Top(p).q = 0
    /\ Writes(Status("CLOSED"))
    /\ Goes(p, <<Frame("finalize")>>)
    /\ UNCHANGED <<setup, breach, faults, broker, orphans, linked, mem>>

(* A market order; if it is refused a limit order (flag); else none.        *)
PanicPlaces(p) ==
    LET f == Top(p) IN
    /\ At(p, "panicPlace")
    /\ f.q # 0
    /\ \/ /\ NoFault
          /\ Accepts("PANIC_EXIT", f.q)
          /\ Goes(p, <<[Frame("panicRow") EXCEPT !.id = NextId]>>)
          /\ UNCHANGED mem
       \/ /\ Fault("refused")
          /\ UNCHANGED broker
          /\ IF f.flag
             THEN Returns(p) /\ mem' = [mem EXCEPT !.inFlight = FALSE]
             ELSE Goes(p, <<[f EXCEPT !.flag = TRUE]>>) /\ UNCHANGED mem
    /\ UNCHANGED <<setup, breach, orphans, linked, row>>

PanicRow(p) ==
    /\ At(p, "panicRow")
    /\ Writes([status |-> "PANIC_EXIT_PLACED", panic |-> Top(p).id])
    /\ GoesTo(p, "panicLink")
    /\ UNCHANGED <<setup, breach, faults, broker, orphans, linked, mem>>

-----------------------------------------------------------------------------
(* The timers: the SLA of the stop, and _panicExitTimeoutCheckImpl.         *)

SlaFires ==
    /\ "SL_SLA" \in setup.timers
    /\ mem.sla # NoOrder
    /\ Begins("timer", [Frame("sla") EXCEPT !.id = mem.sla])
    /\ mem' = [mem EXCEPT !.sla = NoOrder]
    /\ UNCHANGED <<setup, breach, faults, broker, orphans, linked, row>>

(* The stop is confirmed at the broker, or the position is sold.            *)
SlaChecks(p) ==
    LET confirmed == StatusAt(Top(p).id) \in {"OPEN", "COMPLETE"} IN
    /\ At(p, "sla")
    /\ \/ /\ NoFault
          /\ IF Terminal(row.status) THEN Returns(p)
             ELSE Goes(p, IF confirmed THEN <<Frame("confirm")>> ELSE <<Panic(TRUE)>>)
          /\ breach' = (breach \/ (~Terminal(row.status) /\ ~confirmed))
       \/ /\ Fault("unread")
          /\ Returns(p)
          /\ UNCHANGED breach
    /\ UNCHANGED <<setup, broker, orphans, linked, row, mem>>

Confirm(p) ==
    /\ At(p, "confirm")
    /\ Writes(Status("SL_CONFIRMED"))
    /\ Returns(p)
    /\ UNCHANGED <<setup, breach, faults, broker, orphans, linked, mem>>

PanicTimeout ==
    /\ "PANIC_TIMEOUT" \in setup.timers
    /\ mem.watch # NoOrder
    /\ Begins("timer", [Frame("timeout") EXCEPT !.id = mem.watch])
    /\ mem' = [mem EXCEPT !.watch = NoOrder]
    /\ UNCHANGED <<setup, breach, faults, broker, orphans, linked, row>>

(* Mutant: one replacement too many.                                        *)
TimeoutCancelsOnceMore(p) ==
    LET id == Top(p).id IN
    /\ At(p, "timeout")
    /\ IF ~Working(id)
       THEN /\ mem' = [mem EXCEPT !.retries = 0]
            /\ Returns(p) /\ NoFault /\ UNCHANGED broker
       ELSE IF mem.retries > PANIC_EXIT_MAX_RETRIES
       THEN Returns(p) /\ NoFault /\ UNCHANGED <<broker, mem>>
       ELSE /\ mem' = [mem EXCEPT !.expected = @ \cup {id}]
            /\ Cancelled(id) \/ NotCancelled
            /\ GoesTo(p, "timeoutPlace")
    /\ UNCHANGED <<setup, breach, orphans, linked, row>>

(* A panic exit that is still open is cancelled, once or a few times.       *)
TimeoutCancels(p) ==
    LET id == Top(p).id IN
    /\ At(p, "timeout")
    /\ IF ~Working(id)
       THEN /\ mem' = [mem EXCEPT !.retries = 0]
            /\ Returns(p) /\ NoFault /\ UNCHANGED broker
       ELSE IF mem.retries >= PANIC_EXIT_MAX_RETRIES
       THEN Returns(p) /\ NoFault /\ UNCHANGED <<broker, mem>>
       ELSE /\ mem' = [mem EXCEPT !.expected = @ \cup {id}]
            /\ Cancelled(id) \/ NotCancelled
            /\ GoesTo(p, "timeoutPlace")
    /\ UNCHANGED <<setup, breach, orphans, linked, row>>

(* What is left of it is placed again, if it is gone.                       *)
TimeoutPlaces(p) ==
    LET o == orders[Top(p).id] IN
    /\ At(p, "timeoutPlace")
    /\ \/ /\ o.st \in DeadStatuses
          /\ Accepts("PANIC_EXIT", o.left * (0 - o.side))
          /\ NoFault
          /\ Goes(p, <<[Frame("timeoutRow") EXCEPT !.id = NextId]>>)
          /\ UNCHANGED mem
       \/ /\ IF o.st \in DeadStatuses THEN Fault("refused") ELSE NoFault
          /\ mem' = [mem EXCEPT !.retries = IF o.st = "COMPLETE" THEN 0 ELSE @]
          /\ Returns(p)
          /\ UNCHANGED broker
    /\ UNCHANGED <<setup, breach, orphans, linked, row>>

TimeoutRow(p) ==
    /\ At(p, "timeoutRow")
    /\ mem' = [mem EXCEPT !.retries = @ + 1]
    /\ Writes([status |-> "GUARD_FAILED", panic |-> Top(p).id])
    /\ GoesTo(p, "timeoutLink")
    /\ UNCHANGED <<setup, breach, faults, broker, orphans, linked>>

-----------------------------------------------------------------------------
(* The reconcilers and the forced flatten.                                  *)

ExpectedFlat == {"ENTRY_FILLED", "LIVE", "GUARD_FAILED"}
ExitIds(t) == {t.sl, t.tgt, t.panic} \ {NoOrder}

(* _isFlatStateLikelyExitInProgress.                                        *)
ExitIsComplete(t) ==
    \E id \in ExitIds(t) : mem.known[id] = "COMPLETE" \/ StatusAt(id) = "COMPLETE"
InGrace(t) ==
    \E id \in ExitIds(t) : mem.known[id] = "OPEN" \/ StatusAt(id) = "OPEN"

(* positionFirstReconcile: the position, then the row.  Ticks are seconds   *)
(* apart and the last closed trade is looked at for two minutes: it is said *)
(* to be watched no more when the last of its ticks has passed, so not      *)
(* before the first has cancelled its legs, nor while a position waits for  *)
(* the next one.                                                            *)
Watched == mem.active \/ mem.closed
OcoTick ==
    /\ Watched
    /\ \/ Begins("pipeline", [Frame("tick") EXCEPT !.q = pos]) /\ NoFault
       \/ h["pipeline"] = <<>> /\ Fault("unread") /\ UNCHANGED h
    /\ UNCHANGED <<setup, breach, broker, orphans, linked, row, mem>>

WindowCloses ==
    /\ mem.closed /\ h["pipeline"] = <<>> /\ pos = 0 /\ (row.cleanup \/ Legs = <<>>)
    /\ mem' = [mem EXCEPT !.closed = FALSE]
    /\ UNCHANGED <<setup, breach, faults, broker, orphans, linked, row, h>>

(* Mutant: a position of the other side is not wrong.                       *)
OcoComparesSize(p) ==
    LET q == Top(p).q
        legs == IF row.cleanup THEN <<>> ELSE Legs
        wrong == q # 0 /\ (Terminal(row.status) \/ q > setup.qty)
    IN /\ At(p, "tick")
       /\ CASE q = 0 ->
                  /\ Writes([cleanup |-> row.cleanup \/ legs # <<>>])
                  /\ Goes(p, <<[Frame("tickFlat") EXCEPT !.t = row, !.todo = legs]>>)
                  /\ UNCHANGED mem
            [] wrong ->
                  /\ mem' = [mem EXCEPT !.kill = TRUE]
                  /\ Goes(p, FlattenAndHalt)
                  /\ UNCHANGED row
            [] OTHER -> Returns(p) /\ UNCHANGED <<row, mem>>
       /\ UNCHANGED <<setup, breach, faults, broker, orphans, linked>>

OcoCompares(p) ==
    LET q == Top(p).q
        legs == IF row.cleanup THEN <<>> ELSE Legs
        wrong == q # 0 /\ (Terminal(row.status) \/ q < 0 \/ q > setup.qty)
    IN /\ At(p, "tick")
       /\ CASE q = 0 ->
                  /\ Writes([cleanup |-> row.cleanup \/ legs # <<>>])
                  /\ Goes(p, <<[Frame("tickFlat") EXCEPT !.t = row, !.todo = legs]>>)
                  /\ UNCHANGED mem
            [] wrong ->
                  /\ mem' = [mem EXCEPT !.kill = TRUE]
                  /\ Goes(p, FlattenAndHalt)
                  /\ UNCHANGED row
            [] OTHER -> Returns(p) /\ UNCHANGED <<row, mem>>
       /\ UNCHANGED <<setup, breach, faults, broker, orphans, linked>>

(* _cancelRemainingExitsOnce.                                               *)
CancelRemaining(p) ==
    /\ h[p] # <<>>
    /\ Top(p).pc \in {"tickFlat", "flat"}
    /\ Top(p).todo # <<>>
    /\ LET id == Head(Top(p).todo)
       IN /\ mem' = [mem EXCEPT !.expected = @ \cup {id}]
          /\ Cancelled(id) \/ NotCancelled
    /\ Goes(p, <<[Top(p) EXCEPT !.todo = Tail(@)]>>)
    /\ UNCHANGED <<setup, breach, orphans, linked, row>>

(* A flat position of a trade that should have one closes it, unless an     *)
(* exit has filled, or is under way and recent.                             *)
OcoFlat(p) ==
    LET t == Top(p).t IN
    /\ At(p, "tickFlat")
    /\ Top(p).todo = <<>>
    /\ IF t.status \in ExpectedFlat /\ ~ExitIsComplete(t)
       THEN \/ /\ mem' = [mem EXCEPT !.kill = TRUE]
               /\ Writes(Status("CLOSED"))
               /\ Goes(p, <<Frame("finalize")>>)
            \/ InGrace(t) /\ Returns(p) /\ UNCHANGED <<row, mem>>
       ELSE Returns(p) /\ UNCHANGED <<row, mem>>
    /\ UNCHANGED <<setup, breach, faults, broker, orphans, linked>>

(* reconcile: the orders, the positions (flag: they were read; without them *)
(* every position counts as flat), the memory, then the trade.              *)
Reconcile ==
    /\ Begins("pipeline", Frame("positions"))
    /\ mem' = [mem EXCEPT !.known = [i \in OrderIds |->
                  IF i \in DOMAIN orders THEN StatusAt(i) ELSE "none"]]
    /\ UNCHANGED <<setup, breach, faults, broker, orphans, linked, row>>

ReadPositions(p) ==
    /\ At(p, "positions")
    /\ \/ NoFault /\ Goes(p, <<[Frame("heal") EXCEPT !.q = pos, !.flag = TRUE]>>)
       \/ Fault("unread") /\ GoesTo(p, "heal")
    /\ UNCHANGED <<setup, breach, broker, orphans, linked, row, mem>>

(* _validateAndHealActiveTradeRuntimeState.                                 *)
NeedsPosition ==
    {"ENTRY_FILLED", "LIVE", "SL_PLACED", "SL_CONFIRMED", "PANIC_EXIT_PLACED", "GUARD_FAILED"}

Heal(p) ==
    LET f == Top(p)
        flat == IF f.flag THEN f.q = 0 ELSE pos = 0
        stale == \/ Terminal(row.status)
                 \/ flat /\ row.status \in NeedsPosition /\ ~InGrace(row)
    IN /\ At(p, "heal")
       /\ mem' = IF mem.active /\ stale THEN Cleaned(mem) ELSE mem
       /\ GoesTo(p, "reconcile")
       /\ UNCHANGED <<setup, breach, faults, broker, orphans, linked, row>>

(* _reconcileTradeImpl, by what it finds.                                   *)
LooksFlat(p) == Top(p).q = 0 /\ row.status \in ExpectedFlat
KnownAs(id, statuses) == id # NoOrder /\ mem.known[id] \in statuses
Unended(id) == IF KnownAs(id, {"none", "OPEN"}) THEN <<id>> ELSE <<>>

ReconcileFlat(p) ==
    LET ids == Unended(row.sl) \o Unended(row.tgt) \o Unended(row.panic)
    IN /\ At(p, "reconcile")
       /\ LooksFlat(p)
       /\ \/ /\ ExitIsComplete(row) \/ InGrace(row)
             /\ Returns(p)
             /\ UNCHANGED mem
          \/ /\ ~ExitIsComplete(row)
             /\ mem' = [mem EXCEPT !.kill = TRUE]
             /\ Goes(p, <<[Frame("flat") EXCEPT !.todo = ids]>>)
       /\ UNCHANGED <<setup, breach, faults, broker, orphans, linked, row>>

FlatCloses(p) ==
    /\ At(p, "flat")
    /\ Top(p).todo = <<>>
    /\ Writes(Status("CLOSED"))
    /\ Goes(p, <<Frame("finalize")>>)
    /\ UNCHANGED <<setup, breach, faults, broker, orphans, linked, mem>>

ReconcileGuardFailed(p) ==
    /\ At(p, "reconcile")
    /\ ~LooksFlat(p)
    /\ row.status = "GUARD_FAILED"
    /\ IF KnownAs(row.panic, {"COMPLETE"})
       THEN /\ mem' = [mem EXCEPT !.watch = NoOrder, !.retries = 0]
            /\ Writes(Status("CLOSED"))
            /\ Goes(p, <<Frame("finalize")>>)
       ELSE /\ mem' = IF KnownAs(row.panic, DeadStatuses)
                      THEN [mem EXCEPT !.watch = NoOrder, !.retries = 0] ELSE mem
            /\ UNCHANGED row
            /\ Goes(p, IF KnownAs(row.panic, BrokerStatuses) \/ Top(p).q = 0
                       THEN <<>> ELSE <<Panic(FALSE)>>)
    /\ UNCHANGED <<setup, breach, faults, broker, orphans, linked>>

(* Every other status but LIVE: the entry is complete, so it is finalized.  *)
ReconcileUnfinished(p) ==
    /\ At(p, "reconcile")
    /\ ~LooksFlat(p)
    /\ row.status \notin {"GUARD_FAILED", "LIVE"}
    /\ IF Terminal(row.status) THEN Returns(p) ELSE Goes(p, <<Frame("entry")>>)
    /\ UNCHANGED <<setup, breach, faults, broker, orphans, linked, row, mem>>

ReconcileLive(p) ==
    LET leg(pc, id) == <<[Frame(pc) EXCEPT !.id = id, !.st = mem.known[id]]>> IN
    /\ At(p, "reconcile")
    /\ ~LooksFlat(p)
    /\ row.status = "LIVE"
    /\ IF KnownAs(row.tgt, {"COMPLETE"}) THEN LegFilled(p, row.tgt, row)
       ELSE IF KnownAs(row.sl, {"COMPLETE"}) THEN LegFilled(p, row.sl, row)
       ELSE Goes(p, IF KnownAs(row.sl, DeadStatuses) THEN leg("guard", row.sl)
                    ELSE IF KnownAs(row.tgt, DeadStatuses) THEN leg("deadTarget", row.tgt)
                    ELSE IF row.sl = NoOrder \/ (setup.tp /\ row.tgt = NoOrder)
                    THEN <<Frame("exits")>> ELSE <<>>)
    /\ UNCHANGED <<setup, breach, faults, broker, orphans, linked, row, mem>>

(* _forceFlattenIfNeeded, from a tick after FORCE_FLATTEN_AT.               *)
ForceFlatten ==
    /\ "FORCE_FLATTEN_AT" \in setup.timers
    /\ mem.active /\ ~mem.kill
    /\ row.status \in {"ENTRY_OPEN", "ENTRY_FILLED", "SL_PLACED", "SL_CONFIRMED", "LIVE"}
    /\ Begins("pipeline", Panic(FALSE))
    /\ mem' = [mem EXCEPT !.kill = TRUE]
    /\ UNCHANGED <<setup, breach, faults, broker, orphans, linked, row>>

-----------------------------------------------------------------------------
Placing(p) ==
    \/ FinalizeEntryFill(p) \/ Recheck(p) \/ MarkBreach(p) \/ PlaceExits(p) \/ PlaceStop(p) \/ StopRow(p)
    \/ ConsiderTarget(p) \/ MarkLive(p) \/ PlaceTarget(p) \/ TargetRow(p)
    \/ HandleDeadTarget(p) \/ Unlock(p) \/ Link(p) \/ Replay(p)

Reacting(p) ==
    \/ UpdateOfLeg(p) \/ UpdateOfPanicExit(p) \/ CancelOther(p) \/ LegFilledRow(p)
    \/ GuardChecks(p) \/ GuardMarks(p) \/ GuardCancels(p)
    \/ FinalizeClosed(p) \/ Halt(p)

Panicking(p) ==
    \/ PanicIsInFlight(p) \/ PanicStarts(p) \/ PanicCancels(p) \/ PanicReadsPosition(p)
    \/ PanicFindsNothing(p) \/ PanicPlaces(p) \/ PanicRow(p)

Watching(p) ==
    \/ SlaChecks(p) \/ Confirm(p) \/ TimeoutCancels(p) \/ TimeoutPlaces(p)
    \/ TimeoutRow(p)

Comparing(p) ==
    \/ OcoCompares(p) \/ CancelRemaining(p) \/ OcoFlat(p) \/ ReadPositions(p) \/ Heal(p)
    \/ ReconcileFlat(p) \/ FlatCloses(p) \/ ReconcileGuardFailed(p)
    \/ ReconcileUnfinished(p) \/ ReconcileLive(p)

Step(p) == Placing(p) \/ Reacting(p) \/ Panicking(p) \/ Watching(p) \/ Comparing(p)

Market ==
    \/ \E id \in DOMAIN orders : Trades(id) \/ \E st \in DeadStatuses : Dies(id, st)
    \/ SoldByHand
    \/ \E u \in news : IsLost(u)

Timers == SlaFires \/ PanicTimeout

Next ==
    \/ \E p \in Procs : Step(p)
    \/ Market
    \/ Timers
    \/ \E u \in news : Deliver(u)
    \/ OcoTick
    \/ WindowCloses
    \/ Reconcile
    \/ ForceFlatten

Spec == Init /\ [][Next]_vars

(* The steps of a handler go on, timers fire, the queue is first-in         *)
(* first-out: the tick of 5 seconds, the reconcile and the postbacks get    *)
(* their turn.                                                              *)
Fairness ==
    /\ \A p \in Procs : WF_vars(Step(p))
    /\ WF_vars(SlaFires) /\ WF_vars(PanicTimeout)
    /\ SF_vars(OcoTick)
    /\ SF_vars(Reconcile)
    /\ SF_vars(\E u \in news : Deliver(u))

FairSpec == Spec /\ Fairness

-----------------------------------------------------------------------------
(* Properties.                                                              *)

RowType ==
    [status : STATUS, sl : Nat, tgt : Nat, panic : Nat, exit : Nat, cleanup : BOOLEAN,
     replaced : 0 .. TARGET_REPLACE_MAX]

FrameType(f) ==
    /\ f.id \in {NoOrder} \cup DOMAIN orders
    /\ f.t \in RowType
    /\ f.q \in Int
    /\ \A i \in DOMAIN f.todo : f.todo[i] \in DOMAIN orders

(* Every variable has its type; a row, a link and a frame name orders that  *)
(* were placed, the replacements of targets and of panic exits stay within  *)
(* their limits, and no behaviour meets the bound MaxOrders.                *)
TypeOK ==
    /\ setup \in Setups
    /\ faults \in 0 .. setup.faults
    /\ Len(orders) < MaxOrders
    /\ \A id \in DOMAIN orders :
          /\ orders[id].role \in Roles
          /\ orders[id].st \in BrokerStatuses
          /\ orders[id].left = 0 <=> orders[id].st = "COMPLETE"
    /\ pos \in Int
    /\ \A u \in news \cup orphans : u.id \in DOMAIN orders
    /\ linked \subseteq DOMAIN orders
    /\ row \in RowType
    /\ {row.sl, row.tgt, row.panic, row.exit} \subseteq {NoOrder} \cup DOMAIN orders
    /\ mem.seen \cup mem.expected \subseteq DOMAIN orders
    /\ mem.retries \in 0 .. PANIC_EXIT_MAX_RETRIES
    /\ \A p \in Procs : \A i \in DOMAIN h[p] : FrameType(h[p][i])

WorkingOf(role) == {id \in DOMAIN orders : Working(id) /\ orders[id].role = role}

(* At most one stop of the trade works at the broker: neither the handlers  *)
(* of its fill nor the reconcilers, which place exits that are missing,     *)
(* place a second one (_placeExitsIfMissing, the slOrderId of the row).     *)
OneStopLoss == Cardinality(WorkingOf("SL")) <= 1

(* At most one panic exit works, or two sales close one position: the       *)
(* marker in memory and the panicExitOrderId of the row keep a guard, a     *)
(* reconciler, the forced flatten and the timeout from selling twice.  The  *)
(* watchdog of the stop sells beside the queue, and the marker is set an    *)
(* await after it was tested: with it there may be two, and never three.    *)
(* And the marker keeps none away for good: unless an order was placed it   *)
(* is dropped by the attempt that set it (the finally of _panicExitImpl).   *)
PanicPcs == {"panicCancel", "panicPlace", "panicRow", "finalize"}
OnePanicExit ==
    /\ Cardinality(WorkingOf("PANIC_EXIT")) <= IF breach THEN 2 ELSE 1
    /\ mem.inFlight => \/ row.panic # NoOrder
                       \/ \E p \in Procs : \E i \in DOMAIN h[p] : h[p][i].pc \in PanicPcs

(* No trade is closed while its units are held, whoever closes it: an exit  *)
(* leg, a panic exit, the OCO tick or a reconcile.  The exception is a      *)
(* reconcile whose positions could not be read: it takes every position     *)
(* for flat (_reconcileTradeImpl), and two panic exits, the watchdog's and  *)
(* another, of which one buys back what the other was to sell.              *)
PositionsUnread == "unread" \in setup.kinds /\ faults < setup.faults
Bought == breach /\ \E id \in DOMAIN orders : orders[id].side = 1
ClosesOnlyFlat ==
    [][~Terminal(row.status) /\ Terminal(row'.status)
          => pos' <= 0 \/ PositionsUnread \/ Bought]_vars

(* A held position that no order protects does not stay so: it is sold, or  *)
(* an order works for it again, unless its panic exit was ended by the      *)
(* broker, which the code leaves to the operator.                           *)
Exposed == pos > 0 /\ \A id \in DOMAIN orders : ~Working(id)
PanicExitIsDead == row.panic # NoOrder /\ StatusAt(row.panic) \in DeadStatuses
ExposureEnds == Exposed ~> (~Exposed \/ PanicExitIsDead)

(* A position that was turned over, both legs having filled, is bought back *)
(* or halts the engine: the tick looks at the active and at the last closed *)
(* trade (positionFirstReconcile), and an exit that fills later is reported *)
(* (the fills after a close), but for a postback that is lost, and for an   *)
(* exit that is filled in part and works on.                                *)
Unreported == "unreported" \in setup.kinds /\ faults < setup.faults
InPart == \E id \in DOMAIN orders : Working(id) /\ orders[id].got > 0
FlipIsNoticed ==
    pos < 0 ~> (pos >= 0 \/ mem.halted \/ (~Watched /\ (Unreported \/ InPart)))
=============================================================================
