----------------------------- MODULE TradeEntry -----------------------------
(***************************************************************************)
(* The entry of a trade: from the signal to a position that a trade row    *)
(* accounts for (src/src/trading/tradeManager.js).                         *)
(*                                                                         *)
(* Signals, order updates, reconciliation and the tick of the position     *)
(* reconciler run on the pipeline queue, one at a time.  Beside it run, of *)
(* each trade, the watch of its entry order, the ladder that reprices a    *)
(* LIMIT order, and the timer that replaces it by a MARKET order.  The     *)
(* timer runs in a command of the trade from its start to its end, and so  *)
(* do the recovery of an unclear entry and an order update; whoever else   *)
(* writes the row of that trade waits.  The process may crash and start    *)
(* again; the broker fills, cancels and rejects in between.                *)
(*                                                                         *)
(* A step ends at an await another handler can tell.  Trades are long, on  *)
(* one instrument each.  What the protective orders do to a filled trade,  *)
(* and the panic exit that follows a leftover position, is TradeLifecycle. *)
(* Failures of the database are left out.                                  *)
(***************************************************************************)
EXTENDS TradeStateMachine, Integers, Sequences, FiniteSets

CONSTANTS
    Setups,      \* the circumstances a behaviour may have
    MaxTrades,   \* bound: the signals that become trades
    MaxOrders    \* bound: the entry orders of all trades

(* What may go wrong, as often as setup.faults says.  refused: an order is  *)
(* not accepted; lost: it is, and the answer is lost; uncancelled: a        *)
(* cancellation fails; slow: it is accepted and takes effect later; unread: *)
(* an order or the positions cannot be read; unreported: a postback is      *)
(* lost; REJECTED, CANCELLED: the broker so ends a working order.           *)
DeadStatuses == {"CANCELLED", "REJECTED"}
Faults == {"refused", "lost", "uncancelled", "slow", "unread", "unreported", "crash"}
              \cup DeadStatuses

(* limit: ENTRY_ORDER_TYPE is LIMIT; of such an order, ladder:              *)
(* ENTRY_LADDER_ENABLED, fallback: ENTRY_LIMIT_FALLBACK_TO_MARKET.          *)
Setup == [qty : 1 .. 2, trades : 1 .. MaxTrades,
          limit : BOOLEAN, ladder : BOOLEAN, fallback : BOOLEAN, faults : Nat, kinds : SUBSET Faults]

ASSUME EntryAssumption ==
    /\ MaxTrades \in Nat \ {0}
    /\ MaxOrders \in Nat
    /\ Setups \subseteq Setup

VARIABLES
    setup,     \* the circumstances: never changes
    faults,    \* the faults still to come
    orders,    \* at the broker: the entry orders, by number
    pos,       \* at the broker: the net position of each instrument
    news,      \* postbacks on their way
    orphans,   \* orphan_order_updates
    linked,    \* order_links
    row,       \* the trades in the database, in the order of their creation
    kill,      \* the kill switch: kept in the database, read at the start
    mem,       \* the memory of the trade manager
    h          \* [Procs -> Seq(frames)]: the handlers in progress

broker == <<orders, pos, news>>
db == <<orphans, linked, row>>
vars == <<setup, faults, broker, db, kill, mem, h>>

Trades == 1 .. MaxTrades
NoTrade == 0
OrderIds == 1 .. MaxOrders
NoOrder == 0
Procs == {<<"pipeline", NoTrade>>} \cup ({"watch", "ladder", "timer"} \X Trades)
Pipeline == <<"pipeline", NoTrade>>

Unknown == [st |-> "", got |-> 0]

Frame(pc, t) ==
    [pc |-> pc, t |-> t, id |-> NoOrder, st |-> "", got |-> 0, flag |-> FALSE,
     cmd |-> FALSE, net |-> [i \in Trades |-> 0], todo |-> {}]

Forgotten ==
    [up |-> FALSE, active |-> NoTrade, closed |-> NoTrade, booked |-> {}, expected |-> {},
     seen |-> {}, known |-> [i \in OrderIds |-> Unknown], fallbacks |-> {}]

Init ==
    /\ setup \in Setups
    /\ faults = setup.faults
    /\ orders = <<>>
    /\ pos = [i \in Trades |-> 0]
    /\ news = {}
    /\ orphans = {}
    /\ linked = {}
    /\ row = <<>>
    /\ kill = FALSE
    /\ mem = [Forgotten EXCEPT !.up = TRUE]
    /\ h = [p \in Procs |-> <<>>]

-----------------------------------------------------------------------------
(* Frames.  cmd: the frame runs in a command of its trade.                  *)

Top(p) == h[p][Len(h[p])]
Below(p) == SubSeq(h[p], 1, Len(h[p]) - 1)
At(p, pc) == h[p] # <<>> /\ Top(p).pc = pc
Goes(p, frames) == h' = [h EXCEPT ![p] = Below(p) \o frames]
As(p, pc) == [Top(p) EXCEPT !.pc = pc]
GoesTo(p, pc) == Goes(p, <<As(p, pc)>>)
Returns(p) == Goes(p, <<>>)

(* _runTradeCommand: nobody else is in a command of the trade.              *)
Free(p, t) ==
    ~ \E q \in Procs \ {p} : h[q] # <<>> /\ Top(q).t = t /\ Top(q).cmd

Fault(kind) == faults > 0 /\ kind \in setup.kinds /\ faults' = faults - 1
NoFault == UNCHANGED faults

-----------------------------------------------------------------------------
(* The rows.                                                                *)

Terminal(status) == status \in TERMINAL_TRADE_STATUSES
EntryStatuses == {"ENTRY_PLACED", "ENTRY_OPEN", "ENTRY_REPLACED"}

(* Mutant: the row begins with a status the table does not know.            *)
NewRowPending(t) == [st |-> "ENTRY_PENDING", oid |-> NoOrder, qty |-> setup.qty, fin |-> FALSE,
                     token |-> t]
NewRow(t) == [st |-> "ENTRY_PLACED", oid |-> NoOrder, qty |-> setup.qty, fin |-> FALSE,
              token |-> t]

(* updateTrade: see TradeStore.                                             *)
Written(t, patch) ==
    LET r == row[t]
        moves == "st" \in DOMAIN patch
        late == /\ moves
                /\ Terminal(r.st)
                /\ patch.st \in ENTRY_RELATED_STATUS_TARGETS
        takes == /\ moves
                 /\ canTransition(r.st, patch.st)
                 /\ ~staleEntryFill(r.st, patch.st)
        fields == IF takes THEN DOMAIN patch ELSE DOMAIN patch \ {"st"}
    IN IF late THEN r ELSE [f \in DOMAIN r |-> IF f \in fields THEN patch[f] ELSE r[f]]

Writes(t, patch) == row' = [row EXCEPT ![t] = Written(t, patch)]

(* getActiveTrades.                                                         *)
Actives ==
    {t \in DOMAIN row : row[t].st \in EntryStatuses \cup
        {"ENTRY_FILLED", "LIVE", "RECOVERY_REHYDRATED", "GUARD_FAILED"}}

-----------------------------------------------------------------------------
(* The broker.                                                              *)

Working(id) == id \in DOMAIN orders /\ orders[id].st = "OPEN"

Reports(id, st, got) ==
    IF mem.up THEN news \cup {[id |-> id, st |-> st, got |-> got]} ELSE news

NextId == Len(orders) + 1
Accepts(t) ==
    /\ NextId \in OrderIds
    /\ orders' = Append(orders, [t |-> t, left |-> setup.qty, got |-> 0,
                                 st |-> "OPEN", ends |-> FALSE])
    /\ UNCHANGED <<pos, news>>

(* A unit of a working order trades.                                        *)
Fills(id) ==
    LET o == orders[id]
        st == IF o.left = 1 THEN "COMPLETE" ELSE "OPEN"
    IN /\ Working(id)
       /\ orders' = [orders EXCEPT ![id].left = @ - 1, ![id].got = @ + 1, ![id].st = st]
       /\ pos' = [pos EXCEPT ![o.t] = @ + 1]
       /\ news' = Reports(id, IF st = "OPEN" THEN "PARTIAL" ELSE st, o.got + 1)
       /\ UNCHANGED <<setup, faults, db, kill, mem, h>>

(* It ends unasked, or as asked for a while ago.                            *)
Dies(id, st) ==
    /\ Working(id)
    /\ Fault(st) \/ (orders[id].ends /\ st = "CANCELLED" /\ NoFault)
    /\ orders' = [orders EXCEPT ![id].st = st]
    /\ news' = Reports(id, st, orders[id].got)
    /\ UNCHANGED <<setup, pos, db, kill, mem, h>>

IsLost(u) ==
    /\ Fault("unreported")
    /\ news' = news \ {u}
    /\ UNCHANGED <<setup, orders, pos, db, kill, mem, h>>

(* _getOrderStatus: what the broker says of the order, or nothing.          *)
Says(r, id) ==
    \/ NoFault /\ r = [st |-> orders[id].st, got |-> orders[id].got]
    \/ Fault("unread") /\ r = Unknown
Answers(id) == {Unknown, [st |-> orders[id].st, got |-> orders[id].got]}

(* _safeCancelOrder, with the answer: an order known to be over is skipped; *)
(* "being processed" counts as accepted; any other error is thrown.         *)
Cancels(id, answer) ==
    \/ /\ NoFault
       /\ answer = "taken"
       /\ IF Working(id) /\ id \notin mem.seen
          THEN /\ orders' = [orders EXCEPT ![id].st = "CANCELLED"]
               /\ news' = Reports(id, "CANCELLED", orders[id].got)
               /\ UNCHANGED pos
          ELSE id \in mem.seen /\ UNCHANGED broker
    \/ /\ Fault("slow")
       /\ answer = "taken"
       /\ Working(id)
       /\ orders' = [orders EXCEPT ![id].ends = TRUE]
       /\ UNCHANGED <<pos, news>>
    \/ /\ IF Working(id) THEN Fault("uncancelled") ELSE NoFault
       /\ id \notin mem.seen
       /\ answer = "thrown"
       /\ UNCHANGED broker

-----------------------------------------------------------------------------
(* The memory of the trade manager.                                         *)

FallbacksOf(t) == {i \in mem.fallbacks : orders[i].t = t}

(* The open positions of the risk engine, by key: markTradeOpened uses the  *)
(* instrument, all others the risk key of the trade, if there is one.       *)
InstrumentKey(token) == <<"instrument", token>>
RiskKey(t) == <<"trade", t>>
UnknownKey == <<"unknown", NoTrade>>

(* _clearActiveTradeRuntimeState.                                           *)
Cleared(m, t) ==
    [m EXCEPT !.active = IF @ = t THEN NoTrade ELSE @, !.fallbacks = @ \ FallbacksOf(t)]

(* _finalizeClosedImpl.                                                     *)
Close(p) ==
    LET t == Top(p).t
        kept == {"EXITED_TARGET", "EXITED_SL", "ENTRY_FAILED", "ENTRY_CANCELLED"}
    IN /\ At(p, "close")
       /\ Free(p, t)
       /\ IF row[t].st \in kept THEN UNCHANGED row ELSE Writes(t, [st |-> "CLOSED"])
       /\ mem' = [Cleared(mem, t) EXCEPT !.closed = t, !.booked = @ \ {RiskKey(t)}]
       /\ Returns(p)
       /\ UNCHANGED <<setup, faults, broker, orphans, linked, kill>>

(* What ends an entry: the row is written, then the trade is closed.        *)
Failing(f, st) == <<[f EXCEPT !.pc = "close"], [f EXCEPT !.pc = "dead", !.st = st]>>

Dead(p) ==
    LET t == Top(p).t IN
    /\ At(p, "dead")
    /\ Free(p, t)
    /\ Writes(t, [st |-> IF Top(p).st = "REJECTED" THEN "ENTRY_FAILED" ELSE "ENTRY_CANCELLED"])
    /\ Returns(p)
    /\ UNCHANGED <<setup, faults, broker, orphans, linked, kill, mem>>

(* _finalizeEntryFill, a command: what filled becomes the quantity of the   *)
(* trade, and is protected.  The last part makes a complete entry LIVE.     *)
Filling(f, got, partial) ==
    <<[f EXCEPT !.pc = "finalize", !.got = got, !.flag = partial]>>

FinalizeEntryFill(p) ==
    LET f == Top(p) IN
    /\ At(p, "finalize")
    /\ Free(p, f.t)
    /\ Writes(f.t, [st |-> IF f.flag THEN "ENTRY_OPEN" ELSE "ENTRY_FILLED",
                    qty |-> f.got, fin |-> TRUE])
    /\ Goes(p, <<[f EXCEPT !.pc = "protect", !.cmd = TRUE]>>)
    /\ UNCHANGED <<setup, faults, broker, orphans, linked, kill, mem>>

Protect(p) ==
    LET t == Top(p).t IN
    /\ At(p, "protect")
    /\ IF row[t].st = "ENTRY_FILLED" THEN Writes(t, [st |-> "LIVE"]) ELSE UNCHANGED row
    /\ Returns(p)
    /\ UNCHANGED <<setup, faults, broker, orphans, linked, kill, mem>>

-----------------------------------------------------------------------------
(* onSignal.                                                                *)

(* _validateAndHealActiveTradeRuntimeState, of the active trade and its net *)
(* position: the row is over; or it stands for a position the broker does   *)
(* not have, and no order protects it.                                      *)
Stale(t, n) ==
    \/ Terminal(row[t].st)
    \/ row[t].st \in {"ENTRY_FILLED", "GUARD_FAILED"} /\ n = 0

(* A signal while a trade is active is ignored: no step.                    *)
Signal ==
    /\ mem.up
    /\ h[Pipeline] = <<>>
    /\ Len(row) < setup.trades
    /\ IF mem.active = NoTrade
       THEN UNCHANGED mem
       ELSE Stale(mem.active, pos[row[mem.active].token]) /\ mem' = Cleared(mem, mem.active)
    /\ h' = [h EXCEPT ![Pipeline] = <<Frame("admit", Len(row) + 1)>>]
    /\ UNCHANGED <<setup, faults, broker, db, kill>>

(* canTrade of the risk engine, and the checks around it.                   *)
Declines(p) ==
    /\ At(p, "admit") \/ At(p, "insert")
    /\ Returns(p)
    /\ UNCHANGED <<setup, faults, broker, db, kill, mem>>

Admits(p) ==
    /\ At(p, "admit")
    /\ ~kill
    /\ mem.booked = {}
    /\ GoesTo(p, "insert")
    /\ UNCHANGED <<setup, faults, broker, db, kill, mem>>

InsertTrade(p) ==
    /\ At(p, "insert")
    /\ row' = Append(row, NewRow(Top(p).t))
    /\ GoesTo(p, "place")
    /\ UNCHANGED <<setup, faults, broker, orphans, linked, kill, mem>>

(* An order that is placed and whose answer is lost counts as refused.  The *)
(* ladder starts and the timer is armed before the row knows the order.     *)
PlaceEntry(p) ==
    LET f == Top(p) IN
    /\ At(p, "place")
    /\ \/ /\ NoFault
          /\ Accepts(f.t)
          /\ h' = [h EXCEPT ![p] = <<[f EXCEPT !.pc = "entryRow", !.id = NextId]>>,
                            ![<<"ladder", f.t>>] =
                                IF setup.ladder THEN <<[Frame("ladder", f.t) EXCEPT !.id = NextId]>>
                                ELSE <<>>]
          /\ mem' = [mem EXCEPT !.fallbacks = IF setup.fallback
                                              THEN @ \cup {NextId} ELSE @]
       \/ /\ \/ Fault("refused") /\ UNCHANGED broker
             \/ Fault("lost") /\ Accepts(f.t)
          /\ Goes(p, Failing(f, "REJECTED"))
          /\ UNCHANGED mem
    /\ UNCHANGED <<setup, db, kill>>

EntryRow(p) ==
    LET f == Top(p) IN
    /\ At(p, "entryRow")
    /\ Free(p, f.t)
    /\ Writes(f.t, [oid |-> f.id, st |-> "ENTRY_OPEN", fin |-> FALSE])
    /\ GoesTo(p, "link")
    /\ UNCHANGED <<setup, faults, broker, orphans, linked, kill, mem>>

Link(p) ==
    /\ At(p, "link")
    /\ linked' = linked \cup {Top(p).id}
    /\ GoesTo(p, "replay")
    /\ UNCHANGED <<setup, faults, broker, orphans, row, kill, mem>>

(* The stream does not go back from the end of an order.                    *)
Regresses(u) == mem.known[u.id].st \in DeadStatuses \cup {"COMPLETE"} /\ u.st = "PARTIAL"

Remembers(u) ==
    mem' = [mem EXCEPT !.known[u.id] = [st |-> u.st, got |-> u.got],
                       !.seen = IF u.st = "PARTIAL" THEN @ ELSE @ \cup {u.id}]

Update(u) ==
    [Frame("update", orders[u.id].t) EXCEPT !.id = u.id, !.st = u.st, !.got = u.got]

(* _replayOrphanUpdates; then the trade is the active one and its watch     *)
(* starts, or the timer is done.                                            *)
Replay(p) ==
    LET f == Top(p)
        mine == {u \in orphans : u.id = f.id}
    IN /\ At(p, "replay")
       /\ \/ \E u \in mine :
              /\ orphans' = orphans \ {u}
              /\ IF Regresses(u)
                 THEN UNCHANGED <<mem, h>>
                 ELSE Remembers(u) /\ Goes(p, <<f, [Update(u) EXCEPT !.cmd = f.cmd]>>)
          \/ /\ mine = {}
             /\ UNCHANGED orphans
             /\ IF p = Pipeline
                THEN /\ mem' = [mem EXCEPT !.active = f.t,
                                           !.booked = @ \cup {InstrumentKey(f.t)}]
                     /\ h' = [h EXCEPT ![p] = <<>>,
                                       ![<<"watch", f.t>>] =
                                           <<[Frame("poll", f.t) EXCEPT !.id = f.id]>>]
                ELSE Returns(p) /\ UNCHANGED mem
       /\ UNCHANGED <<setup, faults, broker, linked, row, kill>>

-----------------------------------------------------------------------------
(* onOrderUpdate.                                                           *)

Deliver(u) ==
    /\ mem.up
    /\ h[Pipeline] = <<>>
    /\ news' = news \ {u}
    /\ IF Regresses(u)
       THEN UNCHANGED <<orphans, mem, h>>
       ELSE /\ Remembers(u)
            /\ IF u.id \in linked
               THEN h' = [h EXCEPT ![Pipeline] = <<Update(u)>>] /\ UNCHANGED orphans
               ELSE orphans' = orphans \cup {u} /\ UNCHANGED h
    /\ UNCHANGED <<setup, faults, orders, pos, linked, row, kill>>

ENTRY_REPLAY_BLOCKED_STATUSES ==
    {"ENTRY_FILLED", "LIVE", "ENTRY_FAILED", "ENTRY_CANCELLED", "GUARD_FAILED", "CLOSED"}

(* An order that the row has replaced by another moves nothing.             *)
UpdateOfEntry(p) ==
    LET f == [Top(p) EXCEPT !.cmd = TRUE]
        r == row[f.t]
        current == r.oid \in {NoOrder, f.id}
        confirms == f.st = "CANCELLED" /\ f.id \in mem.expected
        late == \/ Terminal(r.st)
                \/ r.st \in ENTRY_REPLAY_BLOCKED_STATUSES /\ f.st \notin DeadStatuses
        moves == ~confirms /\ ~late
    IN /\ At(p, "update")
       /\ Free(p, f.t)
       /\ mem' = [mem EXCEPT !.expected = IF confirms THEN @ \ {f.id} ELSE @,
                             !.fallbacks = IF moves /\ (current \/ f.st \in DeadStatuses)
                                           THEN @ \ FallbacksOf(f.t) ELSE @]
       /\ Goes(p, IF ~moves \/ ~current THEN <<>>
                  ELSE IF f.st \in DeadStatuses THEN Failing(f, f.st)
                  ELSE Filling(f, f.got, f.st = "PARTIAL"))
       /\ UNCHANGED <<setup, faults, broker, db, kill>>

-----------------------------------------------------------------------------
(* _watchEntryUntilDone.  flag: the window is over, this is the last look.  *)

WatchEnds(r, f) ==
    \/ r.oid # f.id
    \/ r.st \in {"LIVE", "EXITED_TARGET", "EXITED_SL", "ENTRY_FAILED", "ENTRY_CANCELLED",
                 "CLOSED", "GUARD_FAILED"}
    \/ f.flag /\ r.st = "ENTRY_FILLED"

(* The row is read, and the order is asked for.                             *)
WatchReadsRow(p) ==
    LET f == Top(p) IN
    /\ At(p, "poll")
    /\ \E last \in BOOLEAN :
           LET now == [f EXCEPT !.flag = last, !.pc = "watch"]
           IN IF WatchEnds(row[f.t], now) THEN Returns(p) ELSE Goes(p, <<now>>)
    /\ UNCHANGED <<setup, faults, broker, db, kill, mem>>

(* An order that still works is waited for; or cancelled, when its edge has *)
(* decayed (a LIMIT order) or the window is over.                           *)
WatchReadsOrder(p) ==
    LET f == Top(p)
        again == [f EXCEPT !.pc = "poll", !.flag = FALSE]
        cancel == [f EXCEPT !.pc = "cancel"]
    IN /\ At(p, "watch")
       /\ \E r \in Answers(f.id) :
              /\ Says(r, f.id)
              /\ \/ /\ r.st = "COMPLETE"
                    /\ Goes(p, Filling(f, r.got, FALSE))
                 \/ /\ r.st \in DeadStatuses
                    /\ Goes(p, Failing(f, r.st))
                 \/ /\ r.st \notin DeadStatuses \cup {"COMPLETE"}
                    /\ \/ f.flag /\ Goes(p, <<cancel>>)
                       \/ ~f.flag /\ Goes(p, <<again>>)
                       \/ /\ ~f.flag
                          /\ setup.limit /\ row[f.t].st \in EntryStatuses
                          /\ Goes(p, <<again, cancel>>)
       /\ UNCHANGED <<setup, broker, db, kill, mem>>

(* _startEntryLadder: as long as the trade and the order are open, a new    *)
(* price or a cancellation; it may be out of steps.                         *)
Ladder(p) ==
    LET f == Top(p) IN
    /\ At(p, "ladder")
    /\ \/ /\ row[f.t].st = "ENTRY_OPEN"
          /\ \E r \in Answers(f.id) :
                 /\ Says(r, f.id)
                 /\ IF r.st = "OPEN" THEN GoesTo(p, "cancel") ELSE Returns(p)
       \/ NoFault /\ Returns(p)
    /\ UNCHANGED <<setup, broker, db, kill, mem>>

-----------------------------------------------------------------------------
(* _cancelOpenEntryOrder, which is no command.  Its frame stays below what  *)
(* it leads to: while it does, another such call for the order is refused.  *)
(* flag, afterwards: the caller goes on.                                    *)

InFlight(p, id) ==
    \E q \in Procs \ {p} : \E i \in DOMAIN h[q] :
        h[q][i].id = id /\ h[q][i].pc \in {"cancelLate", "cancelDone"}

CancelTerminal ==
    {"LIVE", "SL_PLACED", "SL_OPEN", "SL_CONFIRMED", "ENTRY_FILLED", "EXITED_TARGET",
     "EXITED_SL", "ENTRY_FAILED", "ENTRY_CANCELLED", "CLOSED", "GUARD_FAILED"}

CancelEntry(p) ==
    LET f == Top(p)
        refused == \/ InFlight(p, f.id)
                   \/ row[f.t].oid # f.id
                   \/ row[f.t].st \in CancelTerminal
    IN /\ At(p, "cancel")
       /\ IF refused
          THEN h' = [h EXCEPT ![p] = <<>>] /\ NoFault /\ UNCHANGED <<broker, mem>>
          ELSE /\ mem' = [mem EXCEPT !.expected = @ \cup {f.id},
                                     !.fallbacks = @ \ FallbacksOf(f.t)]
               /\ \E answer \in {"taken", "thrown"} :
                      /\ Cancels(f.id, answer)
                      /\ Goes(p, <<[f EXCEPT !.pc = "cancelLate", !.st = answer]>>)
       /\ UNCHANGED <<setup, db, kill>>

(* _checkLateFillAfterCancel.                                               *)
CancelLate(p) ==
    LET f == Top(p)
        then(frames, on) == Goes(p, <<[f EXCEPT !.pc = "cancelDone", !.flag = on]>> \o frames)
    IN /\ At(p, "cancelLate")
       /\ \E r \in Answers(f.id) :
              /\ Says(r, f.id)
              /\ CASE r.got > 0 -> then(Filling(f, r.got, r.st # "COMPLETE"), FALSE)
                   [] r.got = 0 /\ f.st = "thrown" /\ r.st \in {"", "OPEN"} ->
                          then(<<[f EXCEPT !.pc = "ambiguous"]>>, TRUE)
                   [] OTHER -> then(Failing(f, r.st), FALSE)
       /\ UNCHANGED <<setup, broker, db, kill, mem>>

CancelDone(p) ==
    /\ At(p, "cancelDone")
    /\ IF Top(p).flag THEN Returns(p) ELSE h' = [h EXCEPT ![p] = <<>>]
    /\ UNCHANGED <<setup, faults, broker, db, kill, mem>>

-----------------------------------------------------------------------------
(* _recoverAmbiguousEntryState, a command: the order is asked for, then the *)
(* position, until one of them tells, or there is no more time.             *)

RecoverBegins(p) ==
    /\ At(p, "ambiguous")
    /\ Free(p, Top(p).t)
    /\ Goes(p, <<[Top(p) EXCEPT !.pc = "recover", !.cmd = TRUE]>>)
    /\ UNCHANGED <<setup, faults, broker, db, kill, mem>>

RecoverReadsOrder(p) ==
    LET f == Top(p) IN
    /\ At(p, "recover")
    /\ IF row[f.t].oid # f.id
       THEN Returns(p) /\ NoFault
       ELSE \E r \in Answers(f.id) :
                /\ Says(r, f.id)
                /\ CASE r.st \in DeadStatuses -> Goes(p, Failing(f, r.st))
                     [] r.st \notin DeadStatuses /\ r.got > 0 ->
                            Goes(p, Filling(f, r.got, r.st # "COMPLETE"))
                     [] OTHER -> GoesTo(p, "recoverPosition")
    /\ UNCHANGED <<setup, broker, db, kill, mem>>

RecoverReadsPosition(p) ==
    LET f == Top(p)
        n == pos[f.t]
        polls == \E next \in {"recover", "unresolved"} : GoesTo(p, next)
    IN /\ At(p, "recoverPosition")
       /\ IF n > 0
          THEN \/ NoFault /\ Goes(p, Filling(f, n, n < row[f.t].qty))
               \/ Fault("unread") /\ polls
          ELSE NoFault /\ polls
       /\ UNCHANGED <<setup, broker, db, kill, mem>>

(* The time is over: the row is written by what was read before.            *)
RecoverUnresolved(p) ==
    /\ At(p, "unresolved")
    /\ Writes(Top(p).t, [st |-> "GUARD_FAILED"])
    /\ kill' = TRUE
    /\ Returns(p)
    /\ UNCHANGED <<setup, faults, broker, orphans, linked, mem>>

-----------------------------------------------------------------------------
(* _entryLimitFallbackFire, a command from its start to its end.            *)

FallbackTerminal ==
    {"LIVE", "SL_PLACED", "SL_OPEN", "SL_CONFIRMED", "PANIC_EXIT_PLACED",
     "PANIC_EXIT_CONFIRMED", "ENTRY_FILLED", "EXITED_TARGET", "EXITED_SL", "ENTRY_FAILED",
     "ENTRY_CANCELLED", "ENTRY_REPLACED", "CLOSED", "GUARD_FAILED"}

FallbackFires(id) ==
    LET t == orders[id].t
        p == <<"timer", t>>
    IN /\ id \in mem.fallbacks
       /\ h[p] = <<>>
       /\ Free(p, t)
       /\ mem' = [mem EXCEPT !.fallbacks = @ \ {id}]
       /\ IF row[t].fin \/ row[t].st \in FallbackTerminal
          THEN UNCHANGED h
          ELSE h' = [h EXCEPT ![p] = <<[Frame("check", t) EXCEPT !.id = id, !.cmd = TRUE]>>]
       /\ UNCHANGED <<setup, faults, broker, db, kill>>

(* Twice, the second time (flag) after a moment of grace.                   *)
FallbackChecks(p) ==
    LET f == Top(p) IN
    /\ At(p, "check")
    /\ \E r \in Answers(f.id) :
           /\ Says(r, f.id)
           /\ CASE r.st = "REJECTED" -> Goes(p, Failing(f, r.st))
                [] r.st # "REJECTED" /\ r.got > 0 ->
                       Goes(p, Filling(f, r.got, r.st # "COMPLETE"))
                [] OTHER -> Goes(p, <<IF f.flag THEN [f EXCEPT !.pc = "giveUp"]
                                      ELSE [f EXCEPT !.flag = TRUE]>>)
    /\ UNCHANGED <<setup, broker, db, kill, mem>>

(* An error of the cancellation is noted; the order will tell.              *)
FallbackCancels(p) ==
    LET f == Top(p) IN
    /\ At(p, "giveUp")
    /\ mem' = [mem EXCEPT !.expected = @ \cup {f.id}]
    /\ \E answer \in {"taken", "thrown"} : Cancels(f.id, answer)
    /\ GoesTo(p, "late")
    /\ UNCHANGED <<setup, db, kill>>

(* Mutant: an order that was not filled is taken for cancelled.             *)
FallbackTrusts(p) ==
    LET f == Top(p) IN
    /\ At(p, "late")
    /\ \E r \in Answers(f.id) :
           /\ Says(r, f.id)
           /\ IF r.got > 0 THEN Goes(p, Filling(f, r.got, r.st # "COMPLETE"))
              ELSE GoesTo(p, "market")
    /\ UNCHANGED <<setup, broker, db, kill, mem>>

(* Only an order that is dead, or of which nothing can be read, is replaced. *)
FallbackLate(p) ==
    LET f == Top(p) IN
    /\ At(p, "late")
    /\ \E r \in Answers(f.id) :
           /\ Says(r, f.id)
           /\ CASE r.got > 0 -> Goes(p, Filling(f, r.got, r.st # "COMPLETE"))
                [] r.got = 0 /\ r.st \notin DeadStatuses \cup {""} -> GoesTo(p, "recover")
                [] OTHER -> GoesTo(p, "market")
    /\ UNCHANGED <<setup, broker, db, kill, mem>>

(* The row and the stream are looked at once more.                          *)
FallbackPlaces(p) ==
    LET f == Top(p)
        known == mem.known[f.id]
    IN /\ At(p, "market")
       /\ IF row[f.t].st \in FallbackTerminal
          THEN Returns(p) /\ NoFault /\ UNCHANGED broker
          ELSE IF known.got > 0
          THEN Goes(p, Filling(f, known.got, known.st # "COMPLETE")) /\ NoFault /\ UNCHANGED broker
          ELSE \/ /\ NoFault
                  /\ Accepts(f.t)
                  /\ Goes(p, <<[f EXCEPT !.pc = "marketRow", !.id = NextId]>>)
               \/ /\ \/ Fault("refused") /\ UNCHANGED broker
                     \/ Fault("lost") /\ Accepts(f.t)
                  /\ Returns(p)
       /\ UNCHANGED <<setup, db, kill, mem>>

FallbackRow(p) ==
    LET f == Top(p) IN
    /\ At(p, "marketRow")
    /\ Writes(f.t, [oid |-> f.id, st |-> "ENTRY_REPLACED", fin |-> FALSE])
    /\ GoesTo(p, "link")
    /\ UNCHANGED <<setup, faults, broker, orphans, linked, kill, mem>>

-----------------------------------------------------------------------------
(* reconcile: the orders of the broker, the positions, the active trades.   *)

(* The book replaces what the stream told of the orders.                    *)
ReconcileBegins ==
    /\ mem.up
    /\ h[Pipeline] = <<>>
    /\ mem' = [mem EXCEPT !.known =
                  [i \in OrderIds |-> IF i \in DOMAIN orders
                                      THEN [st |-> orders[i].st, got |-> orders[i].got]
                                      ELSE Unknown]]
    /\ h' = [h EXCEPT ![Pipeline] = <<Frame("positions", NoTrade)>>]
    /\ UNCHANGED <<setup, faults, broker, db, kill>>

(* Positions that cannot be read count as none; flag: they were not.        *)
ReadPositions(p) ==
    LET f == As(p, "rows") IN
    /\ At(p, "positions")
    /\ \/ NoFault /\ Goes(p, <<[f EXCEPT !.net = pos]>>)
       \/ Fault("unread") /\ Goes(p, <<[f EXCEPT !.flag = TRUE]>>)
    /\ UNCHANGED <<setup, broker, db, kill, mem>>

Adopted(token, n) ==
    [st |-> "RECOVERY_REHYDRATED", oid |-> NoOrder, qty |-> n, fin |-> TRUE, token |-> token]

(* _syncRiskFromPositions: a key of each position, and no other.            *)
Booked(net) ==
    LET open == {i \in Trades : net[i] > 0}
        of(i) == {t \in Actives : row[t].token = i}
    IN {RiskKey(t) : t \in UNION {of(i) : i \in open}}
           \cup {UnknownKey : i \in {i \in open : of(i) = {}}}

(* The active trade of m is looked at.                                      *)
Healed(m, f) ==
    LET a == m.active IN
    IF a # NoTrade /\ Stale(a, (IF f.flag THEN pos ELSE f.net)[row[a].token])
    THEN Cleared(m, a) ELSE m

(* Mutant: a position is adopted although a trade stands, when it is not    *)
(* the active one.                                                          *)
ReadRowsAlways(p) ==
    LET f == Top(p)
        healed == Healed([mem EXCEPT !.booked = Booked(f.net)], f)
        open == {i \in Trades : f.net[i] > 0}
        new == Len(row) + 1
    IN /\ At(p, "rows")
       /\ IF healed.active = NoTrade /\ open # {}
          THEN /\ \E i \in open : row' = Append(row, Adopted(i, f.net[i]))
               /\ mem' = [healed EXCEPT !.active = new, !.booked = @ \cup {RiskKey(new)}]
          ELSE UNCHANGED row /\ mem' = healed
       /\ Goes(p, <<[f EXCEPT !.pc = "diff", !.todo = Actives]>>)
       /\ UNCHANGED <<setup, faults, broker, orphans, linked, kill>>

(* Mutant: a position whose trade is in the database already is left, also  *)
(* when that trade is over.                                                 *)
ReadRowsOfNew(p) ==
    LET f == Top(p)
        healed == Healed([mem EXCEPT !.booked = Booked(f.net)], f)
        open == {i \in Trades : f.net[i] > 0 /\ ~ \E t \in DOMAIN row : row[t].token = i}
        adopts == healed.active = NoTrade /\ Actives = {} /\ open # {}
        new == Len(row) + 1
    IN /\ At(p, "rows")
       /\ IF adopts
          THEN /\ \E i \in open : row' = Append(row, Adopted(i, f.net[i]))
               /\ mem' = [healed EXCEPT !.active = new, !.booked = @ \cup {RiskKey(new)}]
          ELSE UNCHANGED row /\ mem' = healed
       /\ Goes(p, <<[f EXCEPT !.pc = "diff", !.todo = Actives]>>)
       /\ UNCHANGED <<setup, faults, broker, orphans, linked, kill>>

(* A position nobody stands for is adopted, as a trade of its own.  The gate *)
(* before it holds the reading back for a row without price or quantity; a  *)
(* row has the planned ones from its insertion on.                          *)
ReadRows(p) ==
    LET f == Top(p)
        healed == Healed([mem EXCEPT !.booked = Booked(f.net)], f)
        open == {i \in Trades : f.net[i] > 0}
        adopts == healed.active = NoTrade /\ Actives = {} /\ open # {}
        new == Len(row) + 1
    IN /\ At(p, "rows")
       /\ IF adopts
          THEN /\ \E i \in open : row' = Append(row, Adopted(i, f.net[i]))
               /\ mem' = [healed EXCEPT !.active = new, !.booked = @ \cup {RiskKey(new)}]
          ELSE UNCHANGED row /\ mem' = healed
       /\ Goes(p, <<[f EXCEPT !.pc = "diff", !.todo = Actives]>>)
       /\ UNCHANGED <<setup, faults, broker, orphans, linked, kill>>

(* The broker is flat, the row is not: an exit of a LIVE trade may be about *)
(* to be reported, which is waited for.                                     *)
FlatIsWrong(status) == status \in {"ENTRY_FILLED", "GUARD_FAILED", "LIVE"}
FlatIsBenign(status) == status = "LIVE"

(* _reconcileTradeImpl of an active trade, in its command.                  *)
Diffs(p, t) == At(p, "diff") /\ t \in Top(p).todo /\ Free(p, t)
DiffGoes(p, t, frames) == Goes(p, <<[Top(p) EXCEPT !.todo = @ \ {t}]>> \o frames)
InCommand(p, t) == [Top(p) EXCEPT !.t = t, !.id = row[t].oid, !.cmd = TRUE]
BookOf(t) == IF row[t].oid = NoOrder THEN Unknown ELSE mem.known[row[t].oid]
Flat(p, t) == Top(p).net[row[t].token] = 0 /\ FlatIsWrong(row[t].st)

DiffOfFlat(p, t) ==
    LET id == row[t].oid IN
    /\ Diffs(p, t)
    /\ Flat(p, t)
    /\ kill' = TRUE
    /\ DiffGoes(p, t, <<[InCommand(p, t) EXCEPT !.pc = "close"]>>)
    /\ IF id = NoOrder \/ BookOf(t).st \in DeadStatuses \cup {"COMPLETE"}
       THEN NoFault /\ UNCHANGED <<broker, mem>>
       ELSE /\ mem' = [mem EXCEPT !.expected = @ \cup {id}]
            /\ \E answer \in {"taken", "thrown"} : Cancels(id, answer)
    /\ UNCHANGED <<setup, db>>

(* An order the book does not have is asked for, but only its end counts.   *)
DiffOfEntry(p, t) ==
    LET g == InCommand(p, t)
        book == BookOf(t)
    IN /\ Diffs(p, t)
       /\ row[t].st \in EntryStatuses
       /\ CASE g.id = NoOrder -> DiffGoes(p, t, Failing(g, "REJECTED")) /\ NoFault
            [] g.id # NoOrder /\ book.st = "" ->
                   \E r \in Answers(g.id) :
                       /\ Says(r, g.id)
                       /\ DiffGoes(p, t, IF r.st \in DeadStatuses THEN Failing(g, r.st) ELSE <<>>)
            [] g.id # NoOrder /\ book.st \in DeadStatuses ->
                   DiffGoes(p, t, Failing(g, book.st)) /\ NoFault
            [] OTHER ->
                   /\ DiffGoes(p, t, IF book.got > 0
                                     THEN Filling(g, book.got, book.st # "COMPLETE") ELSE <<>>)
                   /\ NoFault
       /\ UNCHANGED <<setup, broker, db, kill, mem>>

DiffOfOther(p, t) ==
    LET completes == row[t].st = "ENTRY_FILLED" /\ BookOf(t).st = "COMPLETE" IN
    /\ Diffs(p, t)
    /\ row[t].st \notin EntryStatuses
    /\ ~Flat(p, t) \/ FlatIsBenign(row[t].st)
    /\ DiffGoes(p, t, IF completes THEN Filling(InCommand(p, t), BookOf(t).got, FALSE) ELSE <<>>)
    /\ UNCHANGED <<setup, faults, broker, db, kill, mem>>

DiffsDone(p) ==
    /\ At(p, "diff") \/ At(p, "tick")
    /\ Top(p).todo = {}
    /\ Returns(p)
    /\ UNCHANGED <<setup, faults, broker, db, kill, mem>>

-----------------------------------------------------------------------------
(* positionFirstReconcile: the trade that is active, and the one that was   *)
(* closed last, as long as that is recent.                                  *)

Tick ==
    LET watched == {mem.active, mem.closed} \ {NoTrade} IN
    /\ mem.up
    /\ h[Pipeline] = <<>>
    /\ watched # {}
    /\ h' = [h EXCEPT ![Pipeline] =
                <<[Frame("tick", NoTrade) EXCEPT !.todo = watched, !.net = pos]>>]
    /\ UNCHANGED <<setup, faults, broker, db, kill, mem>>

(* A position on a trade that is over, or larger than the trade, is sold    *)
(* and trading halts: see TradeLifecycle.  A position that is gone closes   *)
(* the trade.                                                               *)
TickOf(p, t) ==
    LET r == row[t]
        n == Top(p).net[r.token]
        flat == n = 0 /\ FlatIsWrong(r.st)
        leftover == n > 0 /\ (Terminal(r.st) \/ n > r.qty)
    IN /\ At(p, "tick")
       /\ t \in Top(p).todo
       /\ \/ /\ flat \/ leftover
             /\ kill' = TRUE
             /\ DiffGoes(p, t, IF flat THEN <<[Top(p) EXCEPT !.pc = "close", !.t = t]>> ELSE <<>>)
          \/ /\ ~leftover
             /\ ~flat \/ FlatIsBenign(r.st)
             /\ DiffGoes(p, t, <<>>)
             /\ UNCHANGED kill
       /\ UNCHANGED <<setup, faults, broker, db, mem>>

(* OCO_RECENT_CLOSED_WINDOW_SEC have passed since the close.                *)
WindowPasses ==
    /\ mem.closed # NoTrade
    /\ mem' = [mem EXCEPT !.closed = NoTrade]
    /\ UNCHANGED <<setup, faults, broker, db, kill, h>>

-----------------------------------------------------------------------------
(* The process.                                                             *)

Crash ==
    /\ mem.up
    /\ Fault("crash")
    /\ mem' = [Forgotten EXCEPT !.booked = mem.booked]
    /\ news' = {}
    /\ h' = [p \in Procs |-> <<>>]
    /\ UNCHANGED <<setup, orders, pos, db, kill>>

(* init: the latest of the active trades becomes the active one; all of     *)
(* them are open positions, beside those of before (the risk state).        *)
Restart ==
    /\ ~mem.up
    /\ mem' = [mem EXCEPT !.up = TRUE,
                          !.booked = @ \cup {RiskKey(t) : t \in Actives},
                          !.active = IF Actives = {} THEN NoTrade
                                     ELSE CHOOSE t \in Actives : \A u \in Actives : u <= t]
    /\ UNCHANGED <<setup, faults, broker, db, kill, h>>

-----------------------------------------------------------------------------
(* A step of a handler, an event of the pipeline, a move of the broker.     *)
Step(p) ==
    /\ h[p] # <<>>
    /\ \/ Close(p) \/ Dead(p) \/ FinalizeEntryFill(p) \/ Protect(p)
       \/ Admits(p) \/ Declines(p) \/ InsertTrade(p) \/ PlaceEntry(p) \/ EntryRow(p) \/ Link(p) \/ Replay(p)
       \/ UpdateOfEntry(p)
       \/ WatchReadsRow(p) \/ WatchReadsOrder(p) \/ Ladder(p)
       \/ CancelEntry(p) \/ CancelLate(p) \/ CancelDone(p)
       \/ RecoverBegins(p) \/ RecoverReadsOrder(p) \/ RecoverReadsPosition(p) \/ RecoverUnresolved(p)
       \/ FallbackChecks(p) \/ FallbackCancels(p) \/ FallbackLate(p) \/ FallbackPlaces(p)
       \/ FallbackRow(p)
       \/ ReadPositions(p) \/ ReadRows(p) \/ DiffsDone(p)
       \/ \E t \in DOMAIN row :
              DiffOfFlat(p, t) \/ DiffOfEntry(p, t) \/ DiffOfOther(p, t) \/ TickOf(p, t)

Broker ==
    \/ \E id \in DOMAIN orders : Fills(id) \/ \E st \in DeadStatuses : Dies(id, st)
    \/ \E u \in news : IsLost(u)

Next ==
    \/ \E p \in Procs : Step(p)
    \/ Signal \/ ReconcileBegins \/ Tick \/ WindowPasses
    \/ \E u \in news : Deliver(u)
    \/ \E id \in mem.fallbacks : FallbackFires(id)
    \/ Broker \/ Crash \/ Restart

(* The handlers end, the process is started again, and the two intervals of *)
(* the pipeline get their turn on its queue.                                *)
Fairness ==
    /\ WF_vars(Step(Pipeline))
    /\ \A kind \in {"watch", "ladder", "timer"} : WF_vars(\E t \in Trades : Step(<<kind, t>>))
    /\ WF_vars(Restart)
    /\ SF_vars(ReconcileBegins)
    /\ SF_vars(Tick)

Spec == Init /\ [][Next]_vars /\ Fairness

-----------------------------------------------------------------------------
(* Properties.                                                              *)

(* Two orders of two lots may fill for a trade.                             *)
RowType == [st : STATUS, oid : 0 .. MaxOrders, qty : 1 .. 4, fin : BOOLEAN, token : Trades]
Steps ==
    {"admit", "insert", "place", "entryRow", "link", "replay", "update", "finalize", "protect",
     "dead", "close", "poll", "watch", "ladder", "cancel", "cancelLate", "cancelDone",
     "ambiguous", "recover", "recoverPosition", "unresolved", "check", "giveUp", "late", "market",
     "marketRow", "positions", "rows", "diff", "tick"}
Answered == {"", "OPEN", "PARTIAL", "COMPLETE", "taken", "thrown"} \cup DeadStatuses
FrameType ==
    [pc : Steps, t : 0 .. MaxTrades + 1, id : 0 .. MaxOrders,
     st : Answered, got : 0 .. 4, flag : BOOLEAN, cmd : BOOLEAN, net : [Trades -> 0 .. 4],
     todo : SUBSET (1 .. MaxTrades + 1)]

(* The variables have their types.                                          *)
TypeOK ==
    /\ setup \in Setups
    /\ faults \in 0 .. setup.faults
    /\ \A id \in DOMAIN orders :
          orders[id] \in [t : Trades, left : 0 .. 2, got : 0 .. 2,
                         st : {"OPEN", "COMPLETE"} \cup DeadStatuses, ends : BOOLEAN]
    /\ Len(orders) <= MaxOrders
    /\ pos \in [Trades -> 0 .. 4]
    /\ \A u \in news \cup orphans : u.id \in DOMAIN orders
    /\ linked \subseteq DOMAIN orders
    /\ \A t \in DOMAIN row : row[t] \in RowType
    /\ kill \in BOOLEAN
    /\ mem.active \in 0 .. Len(row) /\ mem.closed \in 0 .. Len(row)
    /\ mem.fallbacks \subseteq DOMAIN orders
    /\ \A p \in Procs : \A i \in DOMAIN h[p] : h[p][i] \in FrameType

(* What the entry orders of a trade have bought and may still buy is never  *)
(* more than the trade was sized for: the MARKET order comes when the LIMIT *)
(* order can no longer fill (_entryLimitFallbackFireImpl).                  *)
Exposure(t) ==
    LET working == {id \in DOMAIN orders : orders[id].t = t /\ Working(id)}
    IN pos[t] + Cardinality({u \in working \X (1 .. 2) : u[2] <= orders[u[1]].left})

OneEntryWorks == \A t \in Trades : Exposure(t) <= setup.qty

(* A trade that reconciliation made for a position it found is the only     *)
(* open one: none is open when it is made, and the signal gate, the risk    *)
(* engine and the start of the process let no other begin (ReadRows, Signal, *)
(* Restart).                                                                *)
AdoptedIsAlone ==
    \A t, u \in DOMAIN row :
        \/ row[t].st # "RECOVERY_REHYDRATED"
        \/ t = u
        \/ Terminal(row[u].st)

(* Positions are noticed: again and again, each has an open trade that      *)
(* stands for it in full, or the kill switch is set; unless a trade on      *)
(* another instrument is open, whose end would have to come first (the      *)
(* watch, the update, reconcile and the tick of the reconciler together).   *)
StandsFor(t, token) ==
    /\ row[t].token = token
    /\ row[t].qty = pos[token]
    /\ \/ row[t].st \in {"ENTRY_FILLED", "LIVE", "RECOVERY_REHYDRATED", "GUARD_FAILED"}
       \/ row[t].st \in EntryStatuses /\ row[t].fin
OtherIsOpen(token) == \E t \in DOMAIN row : row[t].token # token /\ ~Terminal(row[t].st)

PositionsAreNoticed ==
    []<>(\/ kill
         \/ \A token \in Trades :
                \/ pos[token] = 0
                \/ OtherIsOpen(token)
                \/ \E t \in DOMAIN row : StandsFor(t, token))

(* "ensure we don't double-place trades after restart": the entry orders of *)
(* two trades never both work or stand at the broker (reconcile, after      *)
(* MAX_OPEN_POSITIONS=1).                                                   *)
OneTradeExposed == \A t, u \in Trades : t = u \/ Exposure(t) = 0 \/ Exposure(u) = 0
=============================================================================
