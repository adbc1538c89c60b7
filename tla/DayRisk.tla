------------------------------ MODULE DayRisk ------------------------------
(***************************************************************************)
(* The risk of one trading day: the realised profit, the limits of trades  *)
(* and orders, the kill switch, the check of the daily loss and the forced *)
(* flatten (src/src/trading/tradeManager.js, src/src/risk/riskEngine.js).  *)
(*                                                                         *)
(* The document daily_risk has writers that know nothing of each other:    *)
(* handlers of the serial queue (a signal, a close), checks that ticks     *)
(* start beside it, the administrator, the end of the process.  Each sets  *)
(* fields it has read or decided some awaits before.  The risk engine is   *)
(* in memory; its snapshots go to risk_state in no order.                  *)
(*                                                                         *)
(* A unit of profit is a number, the same for every unit of a trade.  One  *)
(* trade is open at a time and its entry is one MARKET order: TradeEntry   *)
(* tells when this is so, TradeLifecycle how its exits work.  An order that*)
(* works, or a position that is held, when its row is given up leaves this *)
(* module: TradeEntry tells what becomes of it.                            *)
(***************************************************************************)
EXTENDS Integers, Sequences, FiniteSets

CONSTANTS
    DaySetups,               \* the circumstances a behaviour may have
    CAP, GOAL,               \* dailyLossCapInr, DAILY_PROFIT_GOAL_INR
    INSANE,                  \* twice MAX_POSITION_VALUE_INR
    MAX_TRADES_PER_DAY, MAX_ORDERS_PER_DAY,
    PnLs,                    \* what a unit of a trade may be worth
    MaxRows                  \* bound: the trades of the day

(* crash: the process ends; fatal: by an uncaught error; database: a call   *)
(* fails; refused: the broker refuses an entry; lost: it takes an order and *)
(* its answer is lost; memory: the switch is set without a write of the     *)
(* document (slippage, an unresolved timeout).                              *)
DayFaults == {"crash", "fatal", "database", "refused", "lost", "memory"}

(* qty: units of a trade; partial: who books the sale of one of two units   *)
(* (a handler of the queue, or the watch of the entry beside it); moves:    *)
(* bound on the moves of the price; admin: the calls of /admin/kill; late:  *)
(* FORCE_FLATTEN_AT may come; reset: RESET_FAILURES_ON_START; auto:         *)
(* AUTO_EXIT_ON_DAILY_LOSS; stops: the orders of stops and targets are told *)
(* one by one.                                                              *)
DaySetup == [qty : 1 .. 2, partial : {"none", "queue", "watch"}, moves : Nat,
             admin : {<<>>, <<TRUE>>, <<TRUE, FALSE>>}, late : BOOLEAN, reset : BOOLEAN,
             auto : BOOLEAN, stops : BOOLEAN, faults : Nat, kinds : SUBSET DayFaults]

ASSUME DayAssumption ==
    /\ DaySetups \subseteq DaySetup
    /\ {CAP, GOAL, MAX_TRADES_PER_DAY, MAX_ORDERS_PER_DAY, MaxRows} \subseteq Nat \ {0}
    /\ INSANE \in Nat
    /\ PnLs \subseteq Int /\ 0 \in PnLs

VARIABLES
    setup,     \* the circumstances: never changes
    faults,    \* the faults still to come
    moves,     \* the moves of the price still to come
    late,      \* it is FORCE_FLATTEN_AT
    day,       \* daily_risk
    saved,     \* the kill switch in risk_state
    snaps,     \* writes of risk_state nobody waits for
    mem,       \* the process: the risk engine and the trade manager
    trade,     \* the last row of the day, and what the broker has of it
    rows,      \* the rows of the day
    asked,     \* the calls of the administrator so far
    h,         \* the handlers in progress
    hist       \* history, see below

db == <<day, saved>>
vars == <<setup, faults, moves, late, db, snaps, mem, trade, rows, asked, h, hist>>

Queued == {"signal", "close"}
Checks == {"check", "flatten"}
(* other: whoever places, moves or cancels a stop or a target.              *)
Placers == Checks \cup {"signal", "other"}
Handlers == Queued \cup Placers \cup {"partial", "admin", "fatal"}

(* n: a number read or decided before an await; s: a state of the day;      *)
(* t: the row it is about; again: a panic exit that failed is tried again.  *)
Idle == [pc |-> "idle", n |-> 0, s |-> "RUNNING", t |-> 0, again |-> FALSE]
At(p, pc) == mem.up /\ h[p].pc = pc
Goes(p, pc) == h' = [h EXCEPT ![p].pc = pc]
Begins(p, pc, n) == h' = [h EXCEPT ![p] = [Idle EXCEPT !.pc = pc, !.n = n, !.t = rows]]
GoesWith(p, pc, n) == h' = [h EXCEPT ![p].pc = pc, ![p].n = n]
Returns(p) == h' = [h EXCEPT ![p] = Idle]
(* A mutant: the sale of a part is booked outside the queue.                *)
QueueFreeButPartial == \A p \in Queued : h[p] = Idle
QueueFree ==
    /\ \A p \in Queued : h[p] = Idle
    /\ setup.partial = "queue" => h["partial"] = Idle

(* units: held at the broker; entry: the entry order works there; qty: of   *)
(* the row; exit: a panic exit works at the broker; panic: the row has its  *)
(* number; due: an exit filled and its update was not handled yet.          *)
NoTrade == [st |-> "NONE", units |-> 0, entry |-> FALSE, qty |-> 0, pnl |-> 0, exit |-> FALSE,
            panic |-> FALSE, due |-> FALSE]
Terminal == trade.st \in {"NONE", "CLOSED"}
Held == trade.units > 0

(* owed: profit the broker made; missed: some of it is not booked, or will  *)
(* not be; slipped: entries placed with the switch set; cleared: the switch *)
(* was taken back since; sent, entries: orders the broker took; forgotten:  *)
(* orders that no count has any more; uncounted: entries that failed to     *)
(* their signal although the broker took them; waiting: the most orders     *)
(* that were not answered yet when another was placed.                      *)
Init ==
    /\ setup \in DaySetups
    /\ faults = setup.faults
    /\ moves = setup.moves
    /\ late = FALSE
    /\ day = [realized |-> 0, kill |-> FALSE, state |-> "RUNNING", orders |-> 0]
    /\ saved = FALSE
    /\ snaps = {}
    /\ mem = [up |-> TRUE, kill |-> FALSE, halted |-> FALSE, trades |-> 0, orders |-> 0,
              active |-> FALSE]
    /\ trade = NoTrade
    /\ rows = 0
    /\ asked = 0
    /\ h = [p \in Handlers |-> Idle]
    /\ hist = [owed |-> 0, missed |-> FALSE, slipped |-> 0, cleared |-> FALSE, sent |-> 0,
               entries |-> 0, forgotten |-> 0, uncounted |-> 0, waiting |-> 0]

Fault(kind) == faults > 0 /\ kind \in setup.kinds /\ faults' = faults - 1
NoFault == UNCHANGED faults

(* A handler whose call of the database fails throws and ends.              *)
Throws(p) ==
    /\ Fault("database")
    /\ Returns(p)
    /\ UNCHANGED <<setup, moves, late, db, snaps, mem, trade, rows, asked, hist>>

-----------------------------------------------------------------------------
(* The risk engine.                                                         *)

(* Every change of it starts a write of its state, read by a restart only.  *)
Emits(kill) ==
    snaps' = IF setup.kinds \cap {"crash", "fatal"} = {} THEN {} ELSE snaps \cup {kill}
Sets(kill) ==
    /\ mem' = [mem EXCEPT !.kill = kill]
    /\ Emits(kill)

SnapshotLands ==
    /\ \E k \in snaps : saved' = k /\ snaps' = snaps \ {k}
    /\ UNCHANGED <<setup, faults, moves, late, day, mem, trade, rows, asked, h, hist>>

KillsInMemory ==
    /\ mem.up /\ ~mem.kill /\ Fault("memory")
    /\ Sets(TRUE)
    /\ UNCHANGED <<setup, moves, late, db, trade, rows, asked, h, hist>>

(* The order limiter and the trade manager count the same orders against    *)
(* the same limit; the limiter comes first, and its refusal sets no switch. *)
MayPlace == mem.orders + 1 <= MAX_ORDERS_PER_DAY
Unanswered == {p \in Placers : h[p].pc = "count"}
Most(m, n) == IF m < n THEN n ELSE m
Sends(entries, slipped) ==
    hist' = [hist EXCEPT !.sent = @ + 1, !.waiting = Most(@, Cardinality(Unanswered)),
                         !.entries = @ + entries, !.slipped = @ + slipped]

(* The answer of the broker is counted in memory, then in the document.     *)
Answered(p) ==
    /\ At(p, "count")
    /\ mem' = [mem EXCEPT !.orders = @ + 1]
    /\ GoesWith(p, "write", mem.orders + 1)
    /\ UNCHANGED <<setup, faults, moves, late, db, snaps, trade, rows, asked, hist>>
WritesCount(p) == At(p, "write") /\ day' = [day EXCEPT !.orders = h[p].n]

(* All of it is one call to whoever places: without the answer, or without  *)
(* the write, the order failed, although the broker has it.                 *)
CallFails(p) ==
    \/ At(p, "count") /\ Fault("lost")
    \/ At(p, "write") /\ Fault("database")
Forgotten(p) == hist.forgotten + IF h[p].pc = "count" THEN 1 ELSE 0

-----------------------------------------------------------------------------
(* The broker and the clock.                                                *)

PriceMoves ==
    /\ Held /\ moves > 0 /\ moves' = moves - 1
    /\ \E v \in PnLs \ {trade.pnl} : trade' = [trade EXCEPT !.pnl = v]
    /\ UNCHANGED <<setup, faults, late, db, snaps, mem, rows, asked, h, hist>>

EntryFills ==
    /\ trade.entry
    /\ trade' = [trade EXCEPT !.entry = FALSE, !.units = trade.qty]
    /\ UNCHANGED <<setup, faults, moves, late, db, snaps, mem, rows, asked, h, hist>>

(* A stop, a target or a panic exit fills.                                  *)
ExitFills ==
    /\ Held
    /\ trade.exit \/ trade.st \in {"LIVE", "SL_CONFIRMED"}
    /\ trade' = [trade EXCEPT !.units = 0, !.due = TRUE]
    /\ hist' = [hist EXCEPT !.owed = @ + trade.units * trade.pnl]
    /\ UNCHANGED <<setup, faults, moves, late, db, snaps, mem, rows, asked, h>>

DayEnds ==
    /\ setup.late /\ ~late /\ late' = TRUE
    /\ UNCHANGED <<setup, faults, moves, db, snaps, mem, trade, rows, asked, h, hist>>

-----------------------------------------------------------------------------
(* A signal.                                                                *)

SignalReads ==
    /\ mem.up /\ QueueFree /\ rows < MaxRows
    /\ ~mem.active /\ Terminal /\ h["partial"] = Idle
    /\ h' = [h EXCEPT !["signal"] = [Idle EXCEPT !.pc = "gate", !.s = day.state]]
    /\ UNCHANGED <<setup, faults, moves, late, db, snaps, mem, trade, rows, asked, hist>>

(* The state of the day as it was read, the rest as it is.                  *)
CanTrade ==
    /\ h["signal"].s = "RUNNING"
    /\ ~mem.halted /\ ~mem.kill
    /\ mem.trades < MAX_TRADES_PER_DAY

SignalGate ==
    /\ At("signal", "gate")
    /\ IF CanTrade THEN Goes("signal", "insert") ELSE Returns("signal")
    /\ NoFault
    /\ UNCHANGED <<setup, moves, late, db, snaps, mem, trade, rows, asked, hist>>

SignalInserts ==
    /\ At("signal", "insert")
    /\ rows' = rows + 1
    /\ trade' = [NoTrade EXCEPT !.st = "ENTRY_PLACED", !.qty = setup.qty]
    /\ Goes("signal", "place")
    /\ UNCHANGED <<setup, faults, moves, late, db, snaps, mem, asked, hist>>

(* Nothing asks for the switch again before the order is placed.            *)
KillInForce == mem.kill \/ (day.kill /\ ~hist.cleared)
SignalPlaces ==
    /\ At("signal", "place") /\ MayPlace
    /\ trade' = [trade EXCEPT !.entry = TRUE]
    /\ Sends(1, IF KillInForce THEN 1 ELSE 0)
    /\ Goes("signal", "count")
    /\ UNCHANGED <<setup, faults, moves, late, db, snaps, mem, rows, asked>>

SignalFails ==
    /\ At("signal", "place")
    /\ IF MayPlace THEN Fault("refused") ELSE NoFault
    /\ trade' = [trade EXCEPT !.st = "CLOSED"]
    /\ Returns("signal")
    /\ UNCHANGED <<setup, moves, late, db, snaps, mem, rows, asked, hist>>

(* The row is failed and the trade not counted; the order lives on.         *)
SignalLoses ==
    /\ CallFails("signal")
    /\ trade' = [trade EXCEPT !.st = "CLOSED", !.entry = FALSE, !.units = 0]
    /\ hist' = [hist EXCEPT !.missed = TRUE, !.forgotten = Forgotten("signal"),
                            !.uncounted = @ + 1]
    /\ Returns("signal")
    /\ UNCHANGED <<setup, moves, late, db, snaps, mem, rows, asked>>

SignalCounted ==
    /\ WritesCount("signal")
    /\ Goes("signal", "link")
    /\ UNCHANGED <<setup, faults, moves, late, saved, snaps, mem, trade, rows, asked, hist>>

(* The row gets its order; the trade becomes the active one.                *)
SignalLinks ==
    /\ At("signal", "link")
    /\ trade' = [trade EXCEPT !.st = "ENTRY_OPEN"]
    /\ mem' = [mem EXCEPT !.active = TRUE, !.trades = @ + 1]
    /\ Emits(mem.kill)
    /\ Returns("signal")
    /\ UNCHANGED <<setup, faults, moves, late, db, rows, asked, hist>>

SignalGoesOn ==
    \/ SignalGate \/ SignalInserts \/ SignalPlaces \/ SignalFails
    \/ SignalLoses \/ Answered("signal") \/ SignalCounted \/ SignalLinks
Signal == SignalReads \/ SignalGoesOn

-----------------------------------------------------------------------------
(* The trade between its entry and its close.                               *)

Protects ==
    /\ mem.up /\ QueueFree
    /\ trade.st = "ENTRY_OPEN" /\ Held
    /\ trade' = [trade EXCEPT !.st = "LIVE"]
    /\ UNCHANGED <<setup, faults, moves, late, db, snaps, mem, rows, asked, h, hist>>

(* The watchdog of the stop found it working at the broker.                 *)
SlaConfirms ==
    /\ mem.up /\ trade.st = "LIVE"
    /\ trade' = [trade EXCEPT !.st = "SL_CONFIRMED"]
    /\ UNCHANGED <<setup, faults, moves, late, db, snaps, mem, rows, asked, h, hist>>

(* A row that was left without its order is failed, though the order may    *)
(* work, or adopted when the broker has a position (TradeEntry tells how).  *)
Recovers ==
    /\ mem.up /\ QueueFree
    /\ trade.st = "ENTRY_PLACED"
    /\ trade' = [trade EXCEPT !.st = IF Held THEN "LIVE" ELSE "CLOSED", !.entry = FALSE]
    /\ mem' = [mem EXCEPT !.active = Held]
    /\ hist' = [hist EXCEPT !.missed = @ \/ trade.entry]
    /\ UNCHANGED <<setup, faults, moves, late, db, snaps, rows, asked, h>>

(* Stops and targets are placed, moved and cancelled by handlers, timers    *)
(* and ticks; each is an order of the day.                                  *)
OtherPlaces ==
    /\ mem.up /\ setup.stops /\ h["other"] = Idle
    /\ ~Terminal /\ trade.st # "ENTRY_PLACED" /\ MayPlace
    /\ Begins("other", "count", 0)
    /\ Sends(0, 0)
    /\ UNCHANGED <<setup, faults, moves, late, db, snaps, mem, trade, rows, asked>>

OtherCounted ==
    /\ WritesCount("other")
    /\ Returns("other")
    /\ UNCHANGED <<setup, faults, moves, late, saved, snaps, mem, trade, rows, asked, hist>>

OtherFails ==
    /\ CallFails("other")
    /\ hist' = [hist EXCEPT !.forgotten = Forgotten("other")]
    /\ Returns("other")
    /\ UNCHANGED <<setup, moves, late, db, snaps, mem, trade, rows, asked>>

Other == OtherPlaces \/ Answered("other") \/ OtherCounted \/ OtherFails

-----------------------------------------------------------------------------
(* The check of the daily loss, and the forced flatten.                     *)

CheckedStatuses == {"ENTRY_OPEN", "ENTRY_FILLED", "LIVE"}
(* A mutant: the flatten looks at the statuses of the check.                *)
FlattenedAsChecked == CheckedStatuses
FlattenedStatuses == CheckedStatuses \cup {"SL_PLACED", "SL_CONFIRMED"}

(* The trade is read; for one in ENTRY_OPEN, the position of the broker.    *)
OpenPnl == trade.pnl * (IF trade.st = "ENTRY_OPEN" THEN trade.units ELSE trade.qty)
CheckBegins ==
    /\ mem.up /\ h["check"] = Idle
    /\ mem.active /\ ~mem.kill
    /\ trade.st \in CheckedStatuses /\ (trade.st = "ENTRY_OPEN" => Held)
    /\ Begins("check", "day", OpenPnl)
    /\ UNCHANGED <<setup, faults, moves, late, db, snaps, mem, trade, rows, asked, hist>>

StateOf(total) ==
    IF total <= -CAP THEN "HARD_STOP" ELSE IF total >= GOAL THEN "SOFT_STOP" ELSE "RUNNING"
Sane(total) == total \in -INSANE .. INSANE

CheckReadsDay ==
    /\ At("check", "day")
    /\ LET total == day.realized + h["check"].n
       IN IF Sane(total)
          THEN h' = [h EXCEPT !["check"].pc = "state", !["check"].s = StateOf(total)]
          ELSE Returns("check")
    /\ UNCHANGED <<setup, faults, moves, late, db, snaps, mem, trade, rows, asked, hist>>

CheckWritesState ==
    /\ At("check", "state")
    /\ day' = [day EXCEPT !.state = h["check"].s]
    /\ IF h["check"].s = "HARD_STOP"
       THEN Sets(TRUE) /\ Goes("check", "kill")
            /\ hist' = [hist EXCEPT !.cleared = FALSE]
       ELSE Returns("check") /\ UNCHANGED <<snaps, mem, hist>>
    /\ UNCHANGED <<setup, faults, moves, late, saved, trade, rows, asked>>

FlattenBegins ==
    /\ mem.up /\ h["flatten"] = Idle
    /\ late /\ mem.active /\ ~mem.kill
    /\ trade.st \in FlattenedStatuses
    /\ Sets(TRUE)
    /\ Begins("flatten", "kill", 0)
    /\ hist' = [hist EXCEPT !.cleared = FALSE]
    /\ UNCHANGED <<setup, faults, moves, late, db, trade, rows, asked>>

WritesKill(p) ==
    /\ At(p, "kill")
    /\ day' = [day EXCEPT !.kill = TRUE]
    /\ IF p = "check" /\ ~setup.auto THEN Returns(p) ELSE Goes(p, "exit")
    /\ UNCHANGED <<setup, faults, moves, late, saved, snaps, mem, trade, rows, asked, hist>>

(* The panic exit, once for a trade: it cancels the entry order, and closes *)
(* the row, without a booking, when the broker has no position.  A MARKET   *)
(* order that failed is followed by a LIMIT order for what was held.        *)
InFlight(p) ==
    \E q \in Checks \ {p} : h[q].t = rows /\ (h[q].pc \in {"count", "write"} \/ h[q].again)
MayExit(p) == h[p].t = rows /\ ~trade.panic /\ ~InFlight(p) /\ ~mem.halted
Exits(p) ==
    /\ At(p, "exit") /\ MayPlace
    /\ h[p].again \/ (MayExit(p) /\ Held)
    /\ trade' = [trade EXCEPT !.exit = @ \/ (h[p].t = rows /\ Held)]
    /\ Goes(p, "count") /\ Sends(0, 0)
    /\ UNCHANGED <<setup, faults, moves, late, db, snaps, mem, rows, asked>>

ExitIsRefused(p) ==
    /\ At(p, "exit")
    /\ h[p].again \/ (MayExit(p) => Held)
    /\ h[p].again \/ MayExit(p) => ~MayPlace
    /\ Returns(p)
    /\ UNCHANGED <<setup, faults, moves, late, db, snaps, mem, trade, rows, asked, hist>>

(* A mutant: the entry order is left working.                               *)
ExitLeavesEntry(p) ==
    /\ At(p, "exit") /\ ~h[p].again /\ MayExit(p) /\ ~Held
    /\ trade' = [trade EXCEPT !.st = "CLOSED"]
    /\ mem' = [mem EXCEPT !.active = FALSE]
    /\ Emits(mem.kill)
    /\ Returns(p)
    /\ UNCHANGED <<setup, faults, moves, late, db, rows, asked, hist>>

ExitFindsNothing(p) ==
    /\ At(p, "exit") /\ ~h[p].again /\ MayExit(p) /\ ~Held
    /\ trade' = [trade EXCEPT !.entry = FALSE, !.st = "CLOSED"]
    /\ hist' = [hist EXCEPT !.missed = @ \/ trade.due]
    /\ mem' = [mem EXCEPT !.active = FALSE]
    /\ Emits(mem.kill)
    /\ Returns(p)
    /\ UNCHANGED <<setup, faults, moves, late, db, rows, asked>>

ExitFails(p) ==
    /\ CallFails(p)
    /\ hist' = [hist EXCEPT !.forgotten = Forgotten(p)]
    /\ IF h[p].again THEN Returns(p)
       ELSE h' = [h EXCEPT ![p].pc = "exit", ![p].again = TRUE]
    /\ UNCHANGED <<setup, moves, late, db, snaps, mem, trade, rows, asked>>

ExitCounted(p) ==
    /\ WritesCount(p)
    /\ trade' = IF h[p].t # rows THEN trade
                ELSE [trade EXCEPT !.panic = TRUE,
                                   !.st = IF @ \in {"LIVE", "SL_CONFIRMED"}
                                          THEN "PANIC_EXIT_PLACED" ELSE @]
    /\ Returns(p)
    /\ UNCHANGED <<setup, faults, moves, late, saved, snaps, mem, rows, asked, hist>>

CheckGoesOn(p) ==
    \/ WritesKill(p) \/ Exits(p) \/ ExitIsRefused(p) \/ ExitFindsNothing(p)
    \/ ExitFails(p) \/ Answered(p) \/ ExitCounted(p)
DayStep(p) == CheckGoesOn(p) \/ (p = "check" /\ (CheckReadsDay \/ CheckWritesState))
CheckThrows(p) == mem.up /\ h[p].pc \in {"day", "state", "kill"} /\ Throws(p)

-----------------------------------------------------------------------------
(* Bookings.                                                                *)

(* The row becomes terminal by the update of its exit or by a reconcile.    *)
CloseBegins ==
    /\ mem.up /\ QueueFree
    /\ trade.due /\ ~Terminal
    /\ trade' = [trade EXCEPT !.st = "CLOSED", !.due = FALSE]
    /\ Begins("close", "read", trade.qty * trade.pnl)
    /\ UNCHANGED <<setup, faults, moves, late, db, snaps, mem, rows, asked, hist>>

(* A panic exit that found nothing closed the row: the update is older than *)
(* that and dropped, or it is a second exit and stops the trading of the    *)
(* day; it is booked in neither case.                                       *)
CloseIsLate ==
    /\ mem.up /\ QueueFree
    /\ trade.due /\ Terminal
    /\ trade' = [trade EXCEPT !.due = FALSE]
UpdateIsDropped ==
    /\ CloseIsLate
    /\ UNCHANGED <<setup, faults, moves, late, db, snaps, mem, rows, asked, h, hist>>

DoubleExit ==
    /\ CloseIsLate
    /\ Sets(TRUE)
    /\ Begins("close", "double", 0)
    /\ hist' = [hist EXCEPT !.cleared = FALSE]
    /\ UNCHANGED <<setup, faults, moves, late, db, rows, asked>>

DoubleExitHalts ==
    /\ At("close", "double")
    /\ day' = [day EXCEPT !.kill = TRUE]
    /\ mem' = [mem EXCEPT !.halted = TRUE]
    /\ Returns("close")
    /\ UNCHANGED <<setup, faults, moves, late, saved, snaps, trade, rows, asked, hist>>

DoubleExitThrows == At("close", "double") /\ Throws("close")

BookReads(p) ==
    /\ At(p, "read")
    /\ GoesWith(p, "book", day.realized + h[p].n)
    /\ UNCHANGED <<setup, faults, moves, late, db, snaps, mem, trade, rows, asked, hist>>

BookWrites(p) ==
    /\ At(p, "book")
    /\ day' = [day EXCEPT !.realized = h[p].n]
    /\ Goes(p, "booked")
    /\ UNCHANGED <<setup, faults, moves, late, saved, snaps, mem, trade, rows, asked, hist>>

(* The trade is given up whether or not its booking failed.                 *)
BookFails(p) ==
    /\ mem.up /\ h[p].pc \in {"read", "book"} /\ Fault("database")
    /\ IF p = "close" THEN Goes(p, "booked") ELSE Returns(p)
    /\ hist' = [hist EXCEPT !.missed = TRUE]
    /\ UNCHANGED <<setup, moves, late, db, snaps, mem, trade, rows, asked>>

Finalize ==
    /\ At("close", "booked")
    /\ mem' = [mem EXCEPT !.active = FALSE]
    /\ Emits(mem.kill)
    /\ Returns("close")
    /\ UNCHANGED <<setup, faults, moves, late, db, trade, rows, asked, hist>>

(* One of two units is sold; the row learns its new quantity after the      *)
(* profit was booked and the state of the day was made from it.             *)
PartialBegins ==
    /\ mem.up /\ setup.partial # "none" /\ h["partial"] = Idle
    /\ setup.partial = "queue" => QueueFree
    /\ trade.st \in {"LIVE", "SL_CONFIRMED"} /\ ~trade.exit
    /\ trade.units = 2 /\ trade.qty = 2
    /\ trade' = [trade EXCEPT !.units = 1]
    /\ hist' = [hist EXCEPT !.owed = @ + trade.pnl]
    /\ Begins("partial", "read", trade.pnl)
    /\ UNCHANGED <<setup, faults, moves, late, db, snaps, mem, rows, asked>>

PartialWritesState ==
    /\ At("partial", "booked")
    /\ day' = [day EXCEPT !.state = StateOf(h["partial"].n)]
    /\ Goes("partial", "qty")
    /\ UNCHANGED <<setup, faults, moves, late, saved, snaps, mem, trade, rows, asked, hist>>

PartialWritesQty ==
    /\ At("partial", "qty")
    /\ trade' = [trade EXCEPT !.qty = 1]
    /\ Returns("partial")
    /\ UNCHANGED <<setup, faults, moves, late, db, snaps, mem, rows, asked, hist>>

Booking ==
    \/ \E p \in {"close", "partial"} : BookReads(p) \/ BookWrites(p) \/ BookFails(p)
    \/ CloseBegins \/ UpdateIsDropped \/ DoubleExit \/ DoubleExitHalts
    \/ DoubleExitThrows \/ Finalize
    \/ PartialBegins \/ PartialWritesState \/ PartialWritesQty

-----------------------------------------------------------------------------
(* The administrator, and the end of the process.                           *)

AdminSets ==
    /\ mem.up /\ h["admin"] = Idle /\ asked < Len(setup.admin)
    /\ asked' = asked + 1
    /\ Sets(setup.admin[asked + 1])
    /\ Begins("admin", "set", asked + 1)
    /\ hist' = IF setup.admin[asked + 1] THEN [hist EXCEPT !.cleared = FALSE]
               ELSE [hist EXCEPT !.cleared = TRUE, !.slipped = 0]
    /\ UNCHANGED <<setup, faults, moves, late, db, trade, rows>>

AdminWrites ==
    /\ At("admin", "set")
    /\ day' = [day EXCEPT !.kill = setup.admin[h["admin"].n]]
    /\ Returns("admin")
    /\ UNCHANGED <<setup, faults, moves, late, saved, snaps, mem, trade, rows, asked, hist>>

(* An uncaught error halts the engine, sets the switch of the document, and *)
(* ends the process.                                                        *)
Halts ==
    /\ mem.up /\ ~mem.halted /\ Fault("fatal")
    /\ mem' = [mem EXCEPT !.halted = TRUE]
    /\ Goes("fatal", "kill")
    /\ UNCHANGED <<setup, moves, late, db, snaps, trade, rows, asked, hist>>

HaltPersists ==
    /\ At("fatal", "kill")
    /\ day' = [day EXCEPT !.kill = TRUE]
    /\ Goes("fatal", "exit")
    /\ hist' = [hist EXCEPT !.cleared = FALSE]
    /\ UNCHANGED <<setup, faults, moves, late, saved, snaps, mem, trade, rows, asked>>

InBooking == h["close"].pc \in {"read", "book"} \/ h["partial"] # Idle
Ends ==
    /\ mem' = [mem EXCEPT !.up = FALSE]
    /\ snaps' = {}
    /\ h' = [p \in Handlers |-> Idle]
    /\ hist' = [hist EXCEPT !.missed = @ \/ InBooking, !.forgotten = hist.sent - day.orders]
    /\ trade' = [trade EXCEPT !.due = @ /\ ~Terminal]
    /\ UNCHANGED <<setup, moves, late, db, rows, asked>>

Crash == mem.up /\ Fault("crash") /\ Ends
ExitsAfterHalt == At("fatal", "exit") /\ NoFault /\ Ends

(* init: the state of the risk engine, the reset, then the document.        *)
(* A mutant: the reset comes after the document.                            *)
HydratedThenReset == ~setup.reset /\ (saved \/ day.kill)
Hydrated == IF day.kill THEN TRUE ELSE IF setup.reset THEN FALSE ELSE saved
Restart ==
    /\ ~mem.up
    /\ mem' = [up |-> TRUE, kill |-> Hydrated, halted |-> FALSE, trades |-> rows,
               orders |-> day.orders, active |-> ~Terminal]
    /\ snaps' = (IF setup.reset THEN {FALSE} ELSE {saved}) \cup {Hydrated}
    /\ hist' = [hist EXCEPT !.cleared = @ /\ ~Hydrated,
                            !.slipped = IF Hydrated \/ day.kill THEN @ ELSE 0]
    /\ UNCHANGED <<setup, faults, moves, late, db, trade, rows, asked, h>>

-----------------------------------------------------------------------------
Process == AdminSets \/ AdminWrites \/ Halts \/ HaltPersists \/ Crash \/ ExitsAfterHalt \/ Restart
World == PriceMoves \/ EntryFills \/ ExitFills \/ DayEnds
Between == Protects \/ SlaConfirms \/ Recovers \/ Other \/ SnapshotLands \/ KillsInMemory
Looking ==
    \/ CheckBegins \/ FlattenBegins
    \/ \E p \in Checks : DayStep(p) \/ CheckThrows(p)

Next == World \/ Signal \/ Between \/ Looking \/ Booking \/ Process
Spec == Init /\ [][Next]_vars

(* Ticks start the checks, a supervisor the process; handlers go on.        *)
Fairness ==
    /\ WF_vars(CheckBegins) /\ WF_vars(FlattenBegins) /\ WF_vars(Restart)
    /\ WF_vars(ExitsAfterHalt) /\ WF_vars(SignalGoesOn)
    /\ \A p \in Checks : WF_vars(DayStep(p))
FairSpec == Spec /\ Fairness

-----------------------------------------------------------------------------
PartialPcs == {"read", "book", "booked", "qty"}
PcsOf == [p \in Handlers |->
            CASE p = "signal" -> {"gate", "insert", "place", "count", "write", "link"}
              [] p = "close" -> {"read", "book", "booked", "double"}
              [] p = "other" -> {"count", "write"}
              [] p = "partial" -> PartialPcs
              [] p = "admin" -> {"set"}
              [] p = "fatal" -> {"kill", "exit"}
              [] OTHER -> {"day", "state", "kill", "exit", "count", "write"}]
Days == {"RUNNING", "SOFT_STOP", "HARD_STOP"}
DayTypeOK ==
    /\ day.realized \in Int /\ day.kill \in BOOLEAN /\ day.state \in Days
    /\ day.orders \in Nat
    /\ saved \in BOOLEAN /\ snaps \subseteq BOOLEAN
    /\ mem.orders \in day.orders .. hist.sent
    /\ mem.trades \in 0 .. rows /\ rows \in 0 .. MaxRows
    /\ \A p \in Handlers : h[p].pc \in PcsOf[p] \cup {"idle"} /\ h[p].t \in 0 .. rows
    /\ trade.units \in 0 .. trade.qty
    (* the row of a trade that is held is an open one                        *)
    /\ Held => ~Terminal
    (* the switch in memory is never off while the document has it on,       *)
    (* but for the two awaits between them                                   *)
    /\ mem.up /\ day.kill => mem.kill \/ mem.halted \/ hist.cleared

(* The realised profit of the day is what the trades of the day made, when  *)
(* none is being booked, although each booking writes a sum it read before, *)
(* beside writers of the other fields.  Not after a booking that failed or  *)
(* was cut off, an entry that was given up while the broker had it, and a   *)
(* panic exit that found the position sold and closed the row before its    *)
(* exit was booked: none of them is made good.  And not when the watch of   *)
(* an entry books the sale of a part beside a close.                        *)
Booked == ~trade.due /\ \A p \in {"close", "partial"} : h[p] = Idle
RealizedIsSum ==
    Booked /\ Terminal /\ ~hist.missed /\ setup.partial # "watch" => day.realized = hist.owed

(* What ends the entries of a day holds across crashes: after the switch    *)
(* was set, one entry at most is placed (the signal that had passed the     *)
(* gate), until the administrator takes it back or the process ends before  *)
(* the document had it.  Trades stay below their limit, but for the entries *)
(* that failed to their signal although the broker took them.  Orders stay  *)
(* below theirs, but for those that no count has (their answer was lost, or *)
(* the process ended before the document had them) and those that waited    *)
(* for their answer when another was placed.                                *)
LimitsHold ==
    /\ hist.slipped <= 1
    /\ hist.entries <= MAX_TRADES_PER_DAY + hist.uncounted
    /\ hist.sent <= MAX_ORDERS_PER_DAY + hist.forgotten + hist.waiting

(* A loss of the day beyond the cap, with what the open trade has lost,     *)
(* sets the switch, whatever handlers run beside the check.                 *)
Lost == day.realized + OpenPnl <= -CAP /\ Sane(day.realized + OpenPnl)
Exposed == mem.up /\ mem.active /\ Held /\ Lost
LossIsStopped ==
    (Exposed /\ trade.st \in CheckedStatuses)
        ~> (mem.kill \/ ~Exposed \/ trade.st \notin CheckedStatuses)

(* A position that is held at FORCE_FLATTEN_AT gets a panic exit, unless    *)
(* the switch is set by then, a call fails between the switch and the exit, *)
(* the limit of orders is reached, or a check of the trade before it is     *)
(* still going on (and sets the switch for that trade).                     *)
Unhindered ==
    /\ setup.auto /\ setup.admin = <<>> /\ setup.kinds \subseteq {"refused"}
    /\ MayPlace
    /\ \A p \in Checks : h[p] # Idle => h[p].t = rows
HeldLate == late /\ Held /\ mem.active
FlatAtClose ==
    (HeldLate /\ ~mem.kill /\ Unhindered) ~> (trade.exit \/ ~HeldLate \/ ~Unhindered)

ExposureIsCut == LossIsStopped /\ FlatAtClose

(* README.md:281 names "Daily loss caps and auto-exit" without a condition  *)
(* on the status of the trade.                                              *)
CapIsKept == Exposed ~> (mem.kill \/ ~Exposed)
=============================================================================
