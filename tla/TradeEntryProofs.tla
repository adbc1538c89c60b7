--------------------------- MODULE TradeEntryProofs ---------------------------
(***************************************************************************)
(* Theorems about TradeEntry, for any number of trades and orders and any   *)
(* circumstances: the types, that a trade is not entered twice, and that a  *)
(* position that was adopted stands alone.                                  *)
(***************************************************************************)
EXTENDS TradeEntry, SequenceTheorems, FiniteSetTheorems, WellFoundedInduction, TLAPS

Alive == {"OPEN", "COMPLETE"}
OrderType == [t : Trades, left : 0 .. 2, got : 0 .. 2, st : Alive \cup DeadStatuses,
              ends : BOOLEAN]
PostType == [id : Nat, st : {"PARTIAL", "COMPLETE"} \cup DeadStatuses, got : 0 .. 2]
KnownType == [st : {"", "PARTIAL"} \cup Alive \cup DeadStatuses, got : 0 .. 2]
MemType == [up : BOOLEAN, active : Nat, closed : Nat, booked : SUBSET ({"instrument", "trade", "unknown"} \X Nat),
            expected : SUBSET Nat, seen : SUBSET Nat, known : [OrderIds -> KnownType],
            fallbacks : SUBSET Nat]

(* A trade that a signal began.  A row that was adopted is never written.   *)
Adopting == "RECOVERY_REHYDRATED"
OnTrade(t) == t \in DOMAIN row /\ row[t].st # Adopting
OrderOf(t, id) == id \in DOMAIN orders /\ orders[id].t = t
Sole(t, id) == OrderOf(t, id) /\ \A b \in DOMAIN orders : orders[b].t = t => b = id

(* The MARKET order follows a LIMIT order of which all can be read.         *)
Readable == setup.fallback => "unread" \notin setup.kinds
Unfilled(id) == id \in DOMAIN orders /\ orders[id].st \in DeadStatuses /\ orders[id].got = 0

OrdersInv ==
    /\ setup \in Setups /\ faults \in 0 .. setup.faults
    /\ orders \in Seq(OrderType) /\ Len(orders) <= MaxOrders
    /\ pos \in [Trades -> 0 .. 4]
    /\ \A id \in DOMAIN orders :
          /\ orders[id].left + orders[id].got = setup.qty
          /\ orders[id].st = "OPEN" => orders[id].left > 0
          /\ orders[id].st = "COMPLETE" => orders[id].left = 0
          /\ OnTrade(orders[id].t)
    /\ news \cup orphans \subseteq PostType
    /\ \A u \in news \cup orphans :
          u.id \in DOMAIN orders /\ (u.st \notin DeadStatuses => u.got > 0)
    /\ linked \subseteq DOMAIN orders

(* A trade has two orders at most, and its position is what they bought.    *)
Got(id) == IF id = NoOrder THEN 0 ELSE orders[id].got
Tally(t, a, b) ==
    /\ a = NoOrder => b = NoOrder
    /\ a # NoOrder => OrderOf(t, a)
    /\ b # NoOrder => OrderOf(t, b) /\ a # b /\ (Readable => Unfilled(a))
    /\ \A id \in DOMAIN orders : orders[id].t = t => id \in {a, b}
    /\ pos[t] = Got(a) + Got(b)
TallyInv == \A t \in Trades : \E a, b \in 0 .. Len(orders) : Tally(t, a, b)

RowStatuses == EntryStatuses \cup {"ENTRY_FILLED", "LIVE", Adopting, "GUARD_FAILED"}
                  \cup TERMINAL_TRADE_STATUSES
RowsInv ==
    /\ row \in Seq(RowType) /\ Len(row) <= setup.trades + 1
    /\ kill \in BOOLEAN
    /\ \A t \in DOMAIN row :
          /\ row[t].st \in RowStatuses
          /\ row[t].oid # NoOrder => OrderOf(t, row[t].oid)
          /\ row[t].st # Adopting => t <= setup.trades
          /\ row[t].st = Adopting =>
                /\ row[t].oid = NoOrder
                /\ t = Len(row) /\ \A u \in DOMAIN row : u # t => Terminal(row[u].st)
                /\ mem.up => mem.active = t

MemInv ==
    /\ mem \in MemType
    /\ mem.active \in 0 .. Len(row) /\ mem.closed \in 0 .. Len(row)
    /\ \A id \in OrderIds :
          mem.known[id].st \in {"PARTIAL", "COMPLETE"} => mem.known[id].got > 0
    /\ \A id \in mem.fallbacks :
          setup.fallback /\ id \in DOMAIN orders /\ Sole(orders[id].t, id)

(* The steps of the replacement by a MARKET order, up to its placement.     *)
Replacing == {"check", "giveUp", "late", "market"}
Begins == {"admit", "insert"}
Scans == {"positions", "rows", "diff", "tick"}
AboutOrder == {"entryRow", "link", "replay", "update", "poll", "watch", "ladder", "cancel",
               "cancelLate", "cancelDone", "ambiguous", "recover", "recoverPosition", "unresolved",
               "marketRow"} \cup Replacing
(* Nothing is below these in a process.                                     *)
Alone == Begins \cup Replacing \cup {"place", "entryRow", "link", "marketRow", "positions", "rows"}

(* What a signal does, from its admission to the start of the watch.        *)
Signalled == {"admit", "insert", "place", "entryRow", "link", "replay"}
NoneAdopted == \A t \in DOMAIN row : row[t].st # Adopting

FrameOK(p, f) ==
    /\ f \in FrameType
    /\ f.pc \in Signalled /\ p = Pipeline => NoneAdopted
    /\ f.pc \in Begins => p = Pipeline /\ f.t = Len(row) + 1 /\ f.t <= setup.trades
    /\ f.pc \in Scans => p = Pipeline /\ f.t = NoTrade
    /\ f.pc \notin Begins \cup Scans => OnTrade(f.t)
    /\ f.pc \in AboutOrder => OrderOf(f.t, f.id)
    /\ f.pc = "place" => p = Pipeline /\ \A id \in DOMAIN orders : orders[id].t # f.t
    /\ f.pc = "finalize" => f.got > 0
    /\ f.pc = "update" => f.st \in DeadStatuses \/ f.got > 0
    /\ f.pc \in Replacing =>
          /\ p = <<"timer", f.t>> /\ setup.fallback
          /\ Sole(f.t, f.id) /\ f.id \notin mem.fallbacks
    /\ f.pc = "market" /\ Readable => Unfilled(f.id)
    /\ f.pc = "marketRow" => p # Pipeline

StackOK(p, s) ==
    /\ s \in Seq(FrameType)
    /\ \A i \in DOMAIN s : FrameOK(p, s[i]) /\ (s[i].pc \in Alone => Len(s) = 1)
FramesInv ==
    /\ h \in [Procs -> Seq(FrameType)]
    /\ \A p \in Procs : StackOK(p, h[p])

World == OrdersInv /\ TallyInv /\ RowsInv /\ MemInv
IInv == World /\ FramesInv

-----------------------------------------------------------------------------
(* Frames: their types, and what makes one proper after a step.             *)

(* The processes are told apart by their names and trades.                  *)
LEMMA ProcFacts ==
    /\ Pipeline \in Procs
    /\ \A t \in Trades : /\ <<"timer", t>> \in Procs /\ <<"watch", t>> \in Procs
                         /\ <<"ladder", t>> \in Procs
                         /\ <<"timer", t>> # Pipeline /\ <<"watch", t>> # Pipeline
                         /\ <<"ladder", t>> # Pipeline
  BY DEF Procs, Pipeline

(* A new frame.                                                             *)
LEMMA NewFrame ==
    ASSUME NEW c \in Steps, NEW t \in 0 .. MaxTrades + 1
    PROVE  /\ Frame(c, t) \in FrameType
           /\ Frame(c, t).pc = c /\ Frame(c, t).t = t /\ Frame(c, t).cmd = FALSE
  <1>1. "" \in Answered /\ NoOrder \in 0 .. MaxOrders /\ 0 \in 0 .. 4
    BY EntryAssumption DEF NoOrder, Answered
  <1>2. [i \in Trades |-> 0] \in [Trades -> 0 .. 4]
    BY <1>1
  <1> QED BY <1>1, <1>2 DEF Frame, FrameType

(* A frame that goes on elsewhere.                                          *)
LEMMA FramePc ==
    ASSUME NEW f \in FrameType, NEW c \in Steps, NEW g, g = [f EXCEPT !.pc = c]
    PROVE  /\ g \in FrameType /\ g.pc = c /\ g.t = f.t /\ g.id = f.id /\ g.st = f.st
           /\ g.got = f.got /\ g.flag = f.flag /\ g.cmd = f.cmd /\ g.todo = f.todo
           /\ g.net = f.net
  BY DEF FrameType

-----------------------------------------------------------------------------
(* What a write makes of the row of a trade.                                *)
Outcomes == {"ENTRY_OPEN", "ENTRY_REPLACED", "ENTRY_FILLED", "LIVE", "GUARD_FAILED",
             "ENTRY_FAILED", "ENTRY_CANCELLED", "CLOSED"}
Rewritten(r, s, ids) ==
    /\ s \in RowType
    /\ s.st \in RowStatuses /\ s.st # Adopting
    /\ Terminal(r.st) => Terminal(s.st)
    /\ s.oid \in {r.oid} \cup ids

(* A write of a status, with or without other fields.                       *)
LEMMA StatusMoves ==
    ASSUME NEW r \in RowType, r.st \in RowStatuses, r.st # Adopting, NEW st \in Outcomes,
           canTransition(r.st, st)
    PROVE  st \in RowStatuses /\ st # Adopting /\ st \in STATUS
           /\ (Terminal(r.st) => Terminal(st))
  BY DEF Outcomes, RowStatuses, EntryStatuses, Adopting, canTransition, Terminal, TERMINAL,
         TERMINAL_TRADE_STATUSES, STATUS

LEMMA WrittenStatus ==
    ASSUME NEW t, row[t] \in RowType, row[t].st \in RowStatuses, row[t].st # Adopting,
           NEW st \in Outcomes
    PROVE  Rewritten(row[t], Written(t, [st |-> st]), {})
  <1> DEFINE p == [st |-> st]
  <1>1. PICK r : r = row[t]
    OBVIOUS
  <1>2. r \in RowType /\ r.st \in RowStatuses /\ r.st # Adopting /\ DOMAIN p = {"st"} /\ p.st = st
    BY <1>1
  <1>3. Written(t, p) = r \/ (canTransition(r.st, st) /\ Written(t, p) = [r EXCEPT !.st = st])
    BY <1>1, <1>2 DEF Written, RowType
  <1>4. CASE canTransition(r.st, st) /\ Written(t, p) = [r EXCEPT !.st = st]
    BY <1>1, <1>2, <1>4, StatusMoves DEF Rewritten, RowType
  <1> QED BY <1>1, <1>2, <1>3, <1>4 DEF Rewritten

LEMMA WrittenFill ==
    ASSUME NEW t, row[t] \in RowType, row[t].st \in RowStatuses, row[t].st # Adopting,
           NEW st \in Outcomes, NEW n \in 1 .. 4, NEW b \in BOOLEAN
    PROVE  Rewritten(row[t], Written(t, [st |-> st, qty |-> n, fin |-> b]), {})
  <1> DEFINE p == [st |-> st, qty |-> n, fin |-> b]
  <1>1. PICK r : r = row[t]
    OBVIOUS
  <1>2. r \in RowType /\ r.st \in RowStatuses /\ r.st # Adopting /\ DOMAIN p = {"st", "qty", "fin"}
        /\ p.st = st /\ p.qty = n /\ p.fin = b
    BY <1>1
  <1>3. \/ Written(t, p) = r
        \/ canTransition(r.st, st) /\ Written(t, p) = [r EXCEPT !.st = st, !.qty = n, !.fin = b]
        \/ Written(t, p) = [r EXCEPT !.qty = n, !.fin = b]
    BY <1>1, <1>2 DEF Written, RowType
  <1>4. CASE canTransition(r.st, st) /\ Written(t, p) = [r EXCEPT !.st = st, !.qty = n, !.fin = b]
    <2>1. PICK s : s = [r EXCEPT !.st = st, !.qty = n, !.fin = b]
      OBVIOUS
    <2>2. st \in RowStatuses /\ st # Adopting /\ st \in STATUS /\ (Terminal(r.st) => Terminal(st))
      BY <1>2, <1>4, StatusMoves
    <2>3. s \in RowType /\ s.st = st /\ s.oid \in {r.oid} \cup {}
      BY <1>2, <2>1, <2>2 DEF RowType
    <2> QED BY <1>1, <1>4, <2>1, <2>2, <2>3 DEF Rewritten
  <1>5. CASE Written(t, p) = [r EXCEPT !.qty = n, !.fin = b]
    BY <1>1, <1>2, <1>5 DEF Rewritten, RowType
  <1> QED BY <1>1, <1>2, <1>3, <1>4, <1>5 DEF Rewritten

LEMMA WrittenOrder ==
    ASSUME NEW t, row[t] \in RowType, row[t].st \in RowStatuses, row[t].st # Adopting,
           NEW st \in Outcomes, NEW id \in 0 .. MaxOrders, NEW b \in BOOLEAN
    PROVE  Rewritten(row[t], Written(t, [oid |-> id, st |-> st, fin |-> b]), {id})
  <1> DEFINE p == [oid |-> id, st |-> st, fin |-> b]
  <1>1. PICK r : r = row[t]
    OBVIOUS
  <1>2. r \in RowType /\ r.st \in RowStatuses /\ r.st # Adopting /\ DOMAIN p = {"st", "oid", "fin"}
        /\ p.st = st /\ p.oid = id /\ p.fin = b
    BY <1>1
  <1>3. \/ Written(t, p) = r
        \/ canTransition(r.st, st) /\ Written(t, p) = [r EXCEPT !.st = st, !.oid = id, !.fin = b]
        \/ Written(t, p) = [r EXCEPT !.oid = id, !.fin = b]
    BY <1>1, <1>2 DEF Written, RowType
  <1>4. CASE canTransition(r.st, st) /\ Written(t, p) = [r EXCEPT !.st = st, !.oid = id, !.fin = b]
    <2>1. PICK s : s = [r EXCEPT !.st = st, !.oid = id, !.fin = b]
      OBVIOUS
    <2>2. st \in RowStatuses /\ st # Adopting /\ st \in STATUS /\ (Terminal(r.st) => Terminal(st))
      BY <1>2, <1>4, StatusMoves
    <2>3. s \in RowType /\ s.st = st /\ s.oid \in {r.oid} \cup {id}
      BY <1>2, <2>1, <2>2 DEF RowType
    <2> QED BY <1>1, <1>4, <2>1, <2>2, <2>3 DEF Rewritten
  <1>5. CASE Written(t, p) = [r EXCEPT !.oid = id, !.fin = b]
    BY <1>1, <1>2, <1>5 DEF Rewritten, RowType
  <1> QED BY <1>1, <1>2, <1>3, <1>4, <1>5 DEF Rewritten

-----------------------------------------------------------------------------
(* What a step may do to rows, orders and memory without a new row or order. *)
RowsGo ==
    /\ row' \in Seq(RowType) /\ Len(row') = Len(row)
    /\ \A t \in DOMAIN row :
          \/ row'[t] = row[t]
          \/ /\ row[t].st # Adopting /\ row'[t].st # Adopting /\ row'[t].st \in RowStatuses
             /\ Terminal(row[t].st) => Terminal(row'[t].st)
             /\ row'[t].oid \notin {NoOrder, row[t].oid} => OrderOf(t, row'[t].oid)
OrdersGo ==
    /\ orders' \in Seq(OrderType) /\ Len(orders') = Len(orders)
    /\ \A id \in DOMAIN orders :
          /\ orders'[id].t = orders[id].t
          /\ orders'[id].left = orders[id].left /\ orders'[id].got = orders[id].got
          /\ orders'[id].st \in {orders[id].st} \cup DeadStatuses
          /\ orders[id].st \in DeadStatuses => orders'[id].st \in DeadStatuses
    /\ pos' = pos
MemGoes ==
    /\ mem' \in MemType
    /\ mem'.active \in 0 .. Len(row) /\ mem'.closed \in 0 .. Len(row)
    /\ \A id \in OrderIds :
          mem'.known[id].st \in {"PARTIAL", "COMPLETE"} => mem'.known[id].got > 0
    /\ mem'.fallbacks \subseteq mem.fallbacks
    /\ \A t \in DOMAIN row : row[t].st = Adopting /\ mem'.up => mem'.active = t
NewsGo ==
    /\ news' \cup orphans' \subseteq PostType
    /\ \A u \in news' \cup orphans' :
          u.id \in DOMAIN orders /\ (u.st \notin DeadStatuses => u.got > 0)
    /\ linked' \subseteq DOMAIN orders
    /\ faults' \in 0 .. setup.faults
    /\ setup' = setup
    /\ kill' \in BOOLEAN
Calm == RowsGo /\ OrdersGo /\ MemGoes /\ NewsGo

(* Nothing happened to them.                                                *)
LEMMA RowsStill ==
    ASSUME RowsInv, row' = row
    PROVE  RowsGo
  BY DEF RowsInv, RowsGo

LEMMA OrdersStill ==
    ASSUME OrdersInv, orders' = orders, pos' = pos
    PROVE  OrdersGo
  BY DEF OrdersInv, OrdersGo

LEMMA MemStill ==
    ASSUME RowsInv, MemInv, mem' = mem
    PROVE  MemGoes
  BY DEF RowsInv, MemInv, MemGoes

LEMMA NewsStill ==
    ASSUME OrdersInv, RowsInv, setup' = setup, news' \subseteq news, orphans' \subseteq orphans,
           linked' = linked, kill' = kill, faults' = faults \/ (faults > 0 /\ faults' = faults - 1)
    PROVE  NewsGo
  <1>1. setup.faults \in Nat
    BY EntryAssumption DEF OrdersInv, Setup
  <1>2. faults' \in 0 .. setup.faults
    BY <1>1 DEF OrdersInv
  <1> QED BY <1>2 DEF OrdersInv, RowsInv, NewsGo

(* One row is written.                                                      *)
LEMMA RowWritten ==
    ASSUME RowsInv, NEW t, OnTrade(t), NEW s, NEW ids, Rewritten(row[t], s, ids),
           \A id \in ids : OrderOf(t, id), row' = [row EXCEPT ![t] = s]
    PROVE  RowsGo
  <1>1. s \in RowType /\ s.st \in RowStatuses /\ s.st # Adopting
        /\ (Terminal(row[t].st) => Terminal(s.st)) /\ s.oid \in {row[t].oid} \cup ids
        /\ t \in DOMAIN row /\ row[t].st # Adopting
    BY DEF Rewritten, OnTrade
  <1>2. row \in Seq(RowType)
    BY DEF RowsInv
  <1>3. row' \in Seq(RowType) /\ Len(row') = Len(row) /\ row'[t] = s
        /\ \A u \in DOMAIN row : u # t => row'[u] = row[u]
    BY <1>1, <1>2
  <1>4. \A u \in DOMAIN row : u = t \/ row'[u] = row[u]
    BY <1>3
  <1>5. s.oid \notin {NoOrder, row[t].oid} => OrderOf(t, s.oid)
    BY <1>1
  <1> QED BY <1>1, <1>3, <1>4, <1>5 DEF RowsGo

(* Such a step keeps the invariant of the world.                            *)
LEMMA WorldGoes ==
    ASSUME World, Calm
    PROVE  World'
  <1>1. DOMAIN row' = DOMAIN row /\ DOMAIN orders' = DOMAIN orders /\ setup' = setup
        /\ row \in Seq(RowType) /\ orders \in Seq(OrderType)
    BY DEF World, Calm, RowsGo, OrdersGo, NewsGo, RowsInv, OrdersInv
  <1>2. \A t \in DOMAIN row : row'[t].st = Adopting <=> row[t].st = Adopting
    BY DEF Calm, RowsGo
  <1>3. \A t, id : OrderOf(t, id)' <=> OrderOf(t, id)
    BY <1>1 DEF Calm, OrdersGo, OrderOf
  <1>4. \A t : OnTrade(t)' <=> OnTrade(t)
    BY <1>1, <1>2 DEF OnTrade
  <1>5. OrdersInv'
    <2>1. \A id \in DOMAIN orders :
              /\ orders'[id].left + orders'[id].got = setup.qty
              /\ orders'[id].st = "OPEN" => orders'[id].left > 0
              /\ orders'[id].st = "COMPLETE" => orders'[id].left = 0
              /\ orders'[id].t = orders[id].t
      BY DEF World, OrdersInv, Calm, OrdersGo, DeadStatuses
    <2>2. (\A id \in DOMAIN orders : OnTrade(orders[id].t))'
      BY <1>1, <1>4, <2>1 DEF World, OrdersInv
    <2> QED BY <1>1, <2>1, <2>2 DEF World, OrdersInv, Calm, OrdersGo, NewsGo
  <1>6. TallyInv'
    <2>1. \A id : Unfilled(id) => Unfilled(id)'
      BY <1>1 DEF Calm, OrdersGo, Unfilled
    <2>2. \A id : id = NoOrder \/ id \in DOMAIN orders => Got(id)' = Got(id)
      BY DEF Calm, OrdersGo, Got
    <2>3. \A id \in DOMAIN orders : orders'[id].t = orders[id].t
      BY DEF Calm, OrdersGo
    <2>4. Readable' <=> Readable
      BY <1>1 DEF Readable
    <2>5. \A t, a, b : Tally(t, a, b) => Tally(t, a, b)'
      <3> SUFFICES ASSUME NEW t, NEW a, NEW b, Tally(t, a, b)
                   PROVE  Tally(t, a, b)'
        OBVIOUS
      <3>1. pos'[t] = pos[t]
        BY DEF Calm, OrdersGo
      <3>2. Got(a)' = Got(a) /\ Got(b)' = Got(b)
        BY <2>2 DEF Tally, OrderOf
      <3> QED BY <1>1, <1>3, <2>1, <2>3, <2>4, <3>1, <3>2 DEF Tally
    <2>6. Len(orders') = Len(orders)
      BY DEF Calm, OrdersGo
    <2> QED BY <2>5, <2>6 DEF World, TallyInv
  <1>7. RowsInv'
    <2>1. \A t \in DOMAIN row : row'[t].st \in RowStatuses
      BY DEF World, RowsInv, Calm, RowsGo
    <2>2. (\A t \in DOMAIN row : row[t].oid # NoOrder => OrderOf(t, row[t].oid))'
      BY <1>1, <1>3 DEF World, RowsInv, Calm, RowsGo
    <2>3. ASSUME NEW t \in DOMAIN row, row'[t].st = Adopting
          PROVE  /\ row'[t].oid = NoOrder
                 /\ t = Len(row') /\ \A u \in DOMAIN row' : u # t => Terminal(row'[u].st)
                 /\ mem'.up => mem'.active = t
      <3>1. row'[t] = row[t] /\ row[t].st = Adopting
        BY <2>3 DEF Calm, RowsGo
      <3>2. \A u \in DOMAIN row : u # t => Terminal(row[u].st)
        BY <3>1 DEF World, RowsInv
      <3>3. \A u \in DOMAIN row : u # t => Terminal(row'[u].st)
        BY <3>2 DEF Calm, RowsGo
      <3> QED BY <1>1, <3>1, <3>3 DEF World, RowsInv, Calm, RowsGo, MemGoes
    <2>4. \A t \in DOMAIN row : row'[t].st # Adopting => t <= setup.trades
      BY <1>2 DEF World, RowsInv
    <2>6. row' \in Seq(RowType) /\ Len(row') = Len(row) /\ kill' \in BOOLEAN /\ Len(row) <= setup.trades + 1
      BY DEF World, RowsInv, Calm, RowsGo, NewsGo
    <2> QED BY <1>1, <2>1, <2>2, <2>3, <2>4, <2>6 DEF RowsInv, Terminal
  <1>8. MemInv'
    <2>1. \A id \in DOMAIN orders : \A t : Sole(t, id) => Sole(t, id)'
      BY <1>1, <1>3 DEF Calm, OrdersGo, Sole
    <2>2. \A id \in mem.fallbacks :
              setup.fallback /\ id \in DOMAIN orders /\ Sole(orders[id].t, id)
      BY DEF World, MemInv
    <2>3. \A id \in DOMAIN orders : orders'[id].t = orders[id].t
      BY DEF Calm, OrdersGo
    <2>4. (\A id \in mem.fallbacks :
               setup.fallback /\ id \in DOMAIN orders /\ Sole(orders[id].t, id))'
      BY <1>1, <2>1, <2>2, <2>3 DEF Calm, MemGoes
    <2> QED BY <1>1, <2>4 DEF MemInv, Calm, MemGoes, RowsGo
  <1> QED BY <1>5, <1>6, <1>7, <1>8 DEF World

-----------------------------------------------------------------------------
(* Frames after a step.                                                     *)

(* The frame on top.                                                        *)
LEMMA TopFrame ==
    ASSUME FramesInv, NEW p \in Procs, h[p] # <<>>
    PROVE  /\ Top(p) \in FrameType /\ FrameOK(p, Top(p))
           /\ Below(p) \in Seq(FrameType)
           /\ \A i \in DOMAIN Below(p) : i \in DOMAIN h[p] /\ Below(p)[i] = h[p][i]
           /\ Top(p).pc \in Alone => Below(p) = <<>>
           /\ (\E i \in DOMAIN h[p] : h[p][i].pc \in Alone) => Below(p) = <<>>
  <1>1. h[p] \in Seq(FrameType)
    BY DEF FramesInv, StackOK
  <1>2. Len(h[p]) \in Nat \ {0} /\ DOMAIN h[p] = 1 .. Len(h[p])
    BY <1>1
  <1>3. Len(h[p]) \in DOMAIN h[p] /\ h[p][Len(h[p])] \in FrameType
    BY <1>1, <1>2
  <1>4. Below(p) \in Seq(FrameType) /\ DOMAIN Below(p) = 1 .. Len(h[p]) - 1
        /\ \A i \in 1 .. Len(h[p]) - 1 : Below(p)[i] = h[p][i]
    BY <1>1, <1>2 DEF Below
  <1>5. Len(h[p]) = 1 => Below(p) = <<>>
    BY <1>4
  <1> QED BY <1>2, <1>3, <1>4, <1>5 DEF FramesInv, StackOK, Top

(* A frame that a calm step leaves alone stays as it should be.             *)
LEMMA FrameKept ==
    ASSUME World, Calm, NEW p, NEW f, FrameOK(p, f)
    PROVE  FrameOK(p, f)'
  <1>1. DOMAIN row' = DOMAIN row /\ Len(row') = Len(row) /\ setup' = setup
        /\ DOMAIN orders' = DOMAIN orders /\ mem'.fallbacks \subseteq mem.fallbacks
    BY DEF World, Calm, RowsGo, OrdersGo, NewsGo, MemGoes, RowsInv, OrdersInv
  <1>2. \A t \in DOMAIN row : row'[t].st = Adopting <=> row[t].st = Adopting
    BY DEF Calm, RowsGo
  <1>3. \A t, id : OrderOf(t, id)' <=> OrderOf(t, id)
    BY <1>1 DEF Calm, OrdersGo, OrderOf
  <1>4. \A t : OnTrade(t)' <=> OnTrade(t)
    BY <1>1, <1>2 DEF OnTrade
  <1>5. \A t, id : Sole(t, id) => Sole(t, id)'
    BY <1>1, <1>3 DEF Calm, OrdersGo, Sole
  <1>6. \A id : Unfilled(id) => Unfilled(id)'
    BY <1>1 DEF Calm, OrdersGo, Unfilled
  <1>7. \A id \in DOMAIN orders : orders'[id].t = orders[id].t
    BY DEF Calm, OrdersGo
  <1>8. NoneAdopted => NoneAdopted'
    BY <1>1, <1>2 DEF NoneAdopted
  <1> QED BY <1>1, <1>3, <1>4, <1>5, <1>6, <1>7, <1>8 DEF FrameOK, Readable

(* Frames to go on with: none of them must be alone in its process.         *)
Proper(p, s) ==
    s \in Seq(FrameType) /\ \A k \in DOMAIN s : FrameOK(p, s[k]) /\ s[k].pc \notin Alone

LEMMA NoFrames ==
    ASSUME NEW p
    PROVE  Proper(p, <<>>)'
  BY DEF Proper

LEMMA OneFrame ==
    ASSUME NEW p, NEW f, FrameOK(p, f)', f.pc \notin Alone
    PROVE  Proper(p, <<f>>)'
  <1>1. f \in FrameType
    BY DEF FrameOK
  <1>2. <<f>> \in Seq(FrameType) /\ DOMAIN <<f>> = {1} /\ <<f>>[1] = f
    BY <1>1
  <1> QED BY <1>2 DEF Proper

LEMMA TwoFrames ==
    ASSUME NEW p, NEW f, FrameOK(p, f)', f.pc \notin Alone, NEW g, FrameOK(p, g)', g.pc \notin Alone
    PROVE  Proper(p, <<f, g>>)'
  <1>1. f \in FrameType /\ g \in FrameType
    BY DEF FrameOK
  <1>2. <<f, g>> \in Seq(FrameType) /\ DOMAIN <<f, g>> = {1, 2} /\ <<f, g>>[1] = f /\ <<f, g>>[2] = g
    BY <1>1
  <1> QED BY <1>2 DEF Proper

LEMMA MoreFrames ==
    ASSUME NEW p, NEW s, NEW z, Proper(p, s)', Proper(p, z)'
    PROVE  Proper(p, s \o z)'
  <1>1. s \in Seq(FrameType) /\ z \in Seq(FrameType)
    BY DEF Proper
  <1>2. s \o z \in Seq(FrameType) /\ \A k \in DOMAIN (s \o z) :
            \/ k \in DOMAIN s /\ (s \o z)[k] = s[k]
            \/ \E j \in DOMAIN z : (s \o z)[k] = z[j]
    <2>1. s \o z \in Seq(FrameType) /\ Len(s \o z) = Len(s) + Len(z)
          /\ \A k \in 1 .. Len(s) + Len(z) : (s \o z)[k] = IF k <= Len(s) THEN s[k] ELSE z[k - Len(s)]
      BY <1>1
    <2>2. \A k \in 1 .. Len(s) + Len(z) : k <= Len(s) \/ k - Len(s) \in 1 .. Len(z)
      BY <1>1
    <2> QED BY <1>1, <2>1, <2>2
  <1> QED BY <1>2 DEF Proper

(* The end of an entry that failed, and what follows a fill.                *)
LEMMA FailingFrames ==
    ASSUME NEW p, NEW f \in FrameType, OnTrade(f.t)', NEW st \in Answered
    PROVE  Proper(p, Failing(f, st))'
  <1>1. PICK a : a = [f EXCEPT !.pc = "close"]
    OBVIOUS
  <1>2. PICK b : b = [f EXCEPT !.pc = "dead", !.st = st]
    OBVIOUS
  <1>3. a \in FrameType /\ a.pc = "close" /\ a.t = f.t
    BY <1>1 DEF FrameType, Steps
  <1>4. b \in FrameType /\ b.pc = "dead" /\ b.t = f.t
    BY <1>2 DEF FrameType, Steps
  <1>5. FrameOK(p, a)' /\ FrameOK(p, b)' /\ a.pc \notin Alone /\ b.pc \notin Alone
    BY <1>3, <1>4 DEF FrameOK, Alone, Begins, Replacing, Scans, AboutOrder, Signalled
  <1>6. Failing(f, st) = <<a, b>> /\ <<a, b>> \in Seq(FrameType) /\ DOMAIN <<a, b>> = {1, 2}
        /\ <<a, b>>[1] = a /\ <<a, b>>[2] = b
    BY <1>1, <1>2, <1>3, <1>4 DEF Failing
  <1> QED BY <1>5, <1>6 DEF Proper

LEMMA FillingFrames ==
    ASSUME NEW p, NEW f \in FrameType, OnTrade(f.t)', NEW n \in 1 .. 4, NEW b \in BOOLEAN
    PROVE  Proper(p, Filling(f, n, b))'
  <1>1. PICK a : a = [f EXCEPT !.pc = "finalize", !.got = n, !.flag = b]
    OBVIOUS
  <1> n \in 0 .. 4 /\ "finalize" \in Steps
    BY DEF Steps
  <1>2. a \in FrameType /\ a.pc = "finalize" /\ a.t = f.t /\ a.got = n
    BY <1>1 DEF FrameType
  <1>3. FrameOK(p, a)' /\ a.pc \notin Alone
    BY <1>2 DEF FrameOK, Alone, Begins, Replacing, Scans, AboutOrder, Signalled
  <1>4. Filling(f, n, b) = <<a>>
    BY <1>1 DEF Filling
  <1> QED BY <1>3, <1>4, OneFrame

(* Stacks of a process.                                                     *)
LEMMA StackKept ==
    ASSUME NEW p, NEW s, StackOK(p, s), \A f : FrameOK(p, f) => FrameOK(p, f)'
    PROVE  StackOK(p, s)'
  BY DEF StackOK

LEMMA ProperStack ==
    ASSUME NEW p, NEW s, Proper(p, s)'
    PROVE  StackOK(p, s)'
  BY DEF StackOK, Proper

LEMMA OneStack ==
    ASSUME NEW p, NEW g, FrameOK(p, g)'
    PROVE  StackOK(p, <<g>>)'
  <1>1. g \in FrameType
    BY DEF FrameOK
  <1>2. <<g>> \in Seq(FrameType) /\ Len(<<g>>) = 1 /\ DOMAIN <<g>> = {1} /\ <<g>>[1] = g
    BY <1>1
  <1> QED BY <1>2 DEF StackOK

(* One process changes, or two.                                             *)
LEMMA FramesOne ==
    ASSUME FramesInv, NEW p \in Procs, NEW s, StackOK(p, s)', h' = [h EXCEPT ![p] = s],
           \A q \in Procs \ {p} : \A f : FrameOK(q, f) => FrameOK(q, f)'
    PROVE  FramesInv'
  <1>1. s \in Seq(FrameType)
    BY DEF StackOK
  <1>2. h' \in [Procs -> Seq(FrameType)] /\ h'[p] = s /\ \A q \in Procs : q # p => h'[q] = h[q]
    BY <1>1 DEF FramesInv
  <1>3. ASSUME NEW q \in Procs, NEW z, z = h'[q]
        PROVE  StackOK(q, z)'
    BY <1>2, <1>3, StackKept DEF FramesInv
  <1>4. (\A q \in Procs : StackOK(q, h[q]))'
    BY <1>3
  <1> QED BY <1>2, <1>4 DEF FramesInv

LEMMA FramesTwo ==
    ASSUME FramesInv, NEW p \in Procs, NEW r \in Procs, p # r, NEW s, StackOK(p, s)',
           NEW y, StackOK(r, y)', h' = [h EXCEPT ![p] = s, ![r] = y],
           \A q \in Procs \ {p} : \A f : FrameOK(q, f) => FrameOK(q, f)'
    PROVE  FramesInv'
  <1>1. s \in Seq(FrameType) /\ y \in Seq(FrameType)
    BY DEF StackOK
  <1>2. h' \in [Procs -> Seq(FrameType)] /\ h'[p] = s /\ h'[r] = y
        /\ \A q \in Procs : q # p /\ q # r => h'[q] = h[q]
    BY <1>1 DEF FramesInv
  <1>3. ASSUME NEW q \in Procs, NEW z, z = h'[q]
        PROVE  StackOK(q, z)'
    BY <1>2, <1>3, StackKept DEF FramesInv
  <1>4. (\A q \in Procs : StackOK(q, h[q]))'
    BY <1>3
  <1> QED BY <1>2, <1>4 DEF FramesInv

(* The process goes on with frames that are proper; or with any, if it has  *)
(* no other frame.                                                          *)
LEMMA FramesGo ==
    ASSUME FramesInv, NEW p \in Procs, h[p] # <<>>, NEW s, Proper(p, s)', Goes(p, s),
           \A q \in Procs : \A f : FrameOK(q, f) => FrameOK(q, f)'
    PROVE  FramesInv'
  <1>1. PICK b : b = Below(p)
    OBVIOUS
  <1>2. b \in Seq(FrameType) /\ \A i \in DOMAIN b : i \in DOMAIN h[p] /\ b[i] = h[p][i]
    BY <1>1, TopFrame
  <1>3. \A i \in DOMAIN b : b[i].pc \notin Alone
    <2> SUFFICES ASSUME NEW i \in DOMAIN b, b[i].pc \in Alone
                 PROVE  FALSE
      OBVIOUS
    <2>1. b = <<>>
      BY <1>1, <1>2, TopFrame
    <2> QED BY <2>1
  <1>4. Proper(p, b)'
    BY <1>2, <1>3 DEF Proper, FramesInv, StackOK
  <1>5. PICK z : z = b \o s
    OBVIOUS
  <1>6. StackOK(p, z)'
    BY <1>4, <1>5, MoreFrames, ProperStack
  <1>7. h' = [h EXCEPT ![p] = z]
    BY <1>1, <1>5 DEF Goes
  <1> QED BY <1>6, <1>7, FramesOne

LEMMA FramesReplace ==
    ASSUME FramesInv, NEW p \in Procs, h[p] # <<>>, Top(p).pc \in Alone, NEW s,
           s \in Seq(FrameType), Goes(p, s)
    PROVE  h' = [h EXCEPT ![p] = s]
  <1>1. Below(p) = <<>>
    BY TopFrame
  <1>2. <<>> \o s = s
    OBVIOUS
  <1> QED BY <1>1, <1>2 DEF Goes

-----------------------------------------------------------------------------
(* Steps that place no order and make no row.                               *)

(* Such a step that leaves rows, orders and memory as they are.             *)
LEMMA StillCalm ==
    ASSUME IInv, setup' = setup, orders' = orders, pos' = pos, news' \subseteq news,
           orphans' \subseteq orphans, linked' = linked, row' = row, kill' \in BOOLEAN, mem' = mem,
           faults' = faults \/ (faults > 0 /\ faults' = faults - 1)
    PROVE  Calm
  <1>1. RowsGo /\ OrdersGo /\ MemGoes
    BY RowsStill, OrdersStill, MemStill DEF IInv, World
  <1>2. setup.faults \in Nat
    BY EntryAssumption DEF IInv, World, OrdersInv, Setup
  <1>3. faults' \in 0 .. setup.faults
    BY <1>2 DEF IInv, World, OrdersInv
  <1>4. NewsGo
    BY <1>3 DEF IInv, World, OrdersInv, NewsGo
  <1> QED BY <1>1, <1>4 DEF Calm

(* The process of such a step goes on, with frames that are proper or with  *)
(* one that must be alone.                                                  *)
LEMMA CalmGoes ==
    ASSUME IInv, Calm, NEW p \in Procs, h[p] # <<>>, NEW s, Proper(p, s)', Goes(p, s)
    PROVE  IInv'
  <1>1. \A q, f : FrameOK(q, f) => FrameOK(q, f)'
    BY FrameKept DEF IInv
  <1>2. FramesInv'
    BY <1>1, FramesGo DEF IInv
  <1> QED BY <1>2, WorldGoes DEF IInv

LEMMA CalmReturns ==
    ASSUME IInv, Calm, NEW p \in Procs, h[p] # <<>>, Returns(p)
    PROVE  IInv'
  BY CalmGoes, NoFrames DEF Returns

LEMMA CalmOne ==
    ASSUME IInv, Calm, NEW p \in Procs, h[p] # <<>>, NEW g, FrameOK(p, g)',
           g.pc \in Alone => Top(p).pc \in Alone, Goes(p, <<g>>)
    PROVE  IInv'
  <1>1. CASE g.pc \notin Alone
    BY <1>1, OneFrame, CalmGoes
  <1>2. CASE g.pc \in Alone
    <2>1. <<g>> \in Seq(FrameType)
      BY DEF FrameOK
    <2>2. h' = [h EXCEPT ![p] = <<g>>]
      BY <1>2, <2>1, FramesReplace DEF IInv
    <2>3. \A q, f : FrameOK(q, f) => FrameOK(q, f)'
      BY FrameKept DEF IInv
    <2>4. FramesInv'
      BY <2>2, <2>3, OneStack, FramesOne DEF IInv
    <2> QED BY <2>4, WorldGoes DEF IInv
  <1> QED BY <1>1, <1>2

(* The process has nothing to do and takes something up, or drops all.      *)
LEMMA CalmStack ==
    ASSUME IInv, Calm, NEW p \in Procs, NEW s, StackOK(p, s)', h' = [h EXCEPT ![p] = s]
    PROVE  IInv'
  <1>1. \A q, f : FrameOK(q, f) => FrameOK(q, f)'
    BY FrameKept DEF IInv
  <1>2. FramesInv'
    BY <1>1, FramesOne DEF IInv
  <1> QED BY <1>2, WorldGoes DEF IInv

(* The handlers stand still.                                                *)
LEMMA CalmSame ==
    ASSUME IInv, Calm, h' = h
    PROVE  IInv'
  <1>1. \A q, f : FrameOK(q, f) => FrameOK(q, f)'
    BY FrameKept DEF IInv
  <1>2. \A q \in Procs : \A s : s = h'[q] => StackOK(q, s)'
    BY <1>1, StackKept DEF IInv, FramesInv
  <1>3. FramesInv'
    BY <1>2 DEF IInv, FramesInv
  <1> QED BY <1>3, WorldGoes DEF IInv

(* A frame that goes on about the same order.                               *)
Plain == {"poll", "watch", "ladder", "cancel", "cancelLate", "cancelDone", "ambiguous",
          "recover", "recoverPosition", "unresolved"}
LEMMA PlainFrame ==
    ASSUME NEW p, NEW f, FrameOK(p, f)', f.pc \in AboutOrder, NEW g \in FrameType,
           g.t = f.t, g.id = f.id, g.pc \in Plain
    PROVE  FrameOK(p, g)' /\ g.pc \notin Alone
  BY DEF FrameOK, Plain, AboutOrder, Replacing, Alone, Begins, Scans, Signalled

(* The frame on top, before and after.                                      *)
LEMMA TopKept ==
    ASSUME IInv, Calm, NEW p \in Procs, h[p] # <<>>, NEW f, f = Top(p)
    PROVE  f \in FrameType /\ FrameOK(p, f) /\ FrameOK(p, f)'
  BY TopFrame, FrameKept DEF IInv

LEMMA TradeOfFrame ==
    ASSUME NEW p, NEW f, FrameOK(p, f)', f.pc \notin Begins \cup Scans
    PROVE  OnTrade(f.t)'
  BY DEF FrameOK

-----------------------------------------------------------------------------
(* Answers of the broker.                                                   *)
LEMMA AnswerType ==
    ASSUME World, NEW id \in DOMAIN orders, NEW r \in Answers(id)
    PROVE  /\ r.st \in {"", "OPEN", "COMPLETE"} \cup DeadStatuses /\ r.got \in 0 .. 2
           /\ r.st \in Answered /\ (r.got > 0 => r.got \in 1 .. 4) /\ (r.got > 0 \/ r.got = 0)
           /\ r.st = "COMPLETE" => r.got > 0
  <1>1. orders[id] \in OrderType /\ orders[id].left + orders[id].got = setup.qty
        /\ (orders[id].st = "COMPLETE" => orders[id].left = 0)
    BY DEF World, OrdersInv
  <1>2. setup.qty \in 1 .. 2
    BY EntryAssumption DEF World, OrdersInv, Setup
  <1>3. CASE r = Unknown
    <2>1. r.st = "" /\ r.got = 0
      BY <1>3 DEF Unknown
    <2>2. "" \in Answered /\ "" # "COMPLETE"
      BY DEF Answered
    <2>3. r.got \in 0 .. 2 /\ ~(r.got > 0)
      <3>1. 0 \in 0 .. 2 /\ ~(0 > 0)
        OBVIOUS
      <3> QED BY <2>1, <3>1, Zenon
    <2>4. r.st \in {"", "OPEN", "COMPLETE"} \cup DeadStatuses /\ r.st # "COMPLETE" /\ r.st \in Answered
      BY <2>1, <2>2
    <2> QED BY <2>1, <2>3, <2>4
  <1>4. CASE r = [st |-> orders[id].st, got |-> orders[id].got]
    <2>1. r.st = orders[id].st /\ r.got = orders[id].got
      BY <1>4
    <2>2. r.st \in {"OPEN", "COMPLETE"} \cup DeadStatuses /\ r.got \in 0 .. 2
      BY <1>1, <2>1 DEF OrderType, Alive
    <2>3. r.st = "COMPLETE" => r.got > 0
      BY <1>1, <1>2, <2>1 DEF OrderType
    <2>4. r.st \in Answered
      BY <2>2 DEF Answered
    <2>5. (r.got > 0 => r.got \in 1 .. 4) /\ (r.got > 0 \/ r.got = 0)
      BY <2>2
    <2> QED BY <2>2, <2>3, <2>4, <2>5
  <1> QED BY <1>3, <1>4 DEF Answers

LEMMA SaysFault ==
    ASSUME NEW r, NEW id, Says(r, id)
    PROVE  faults' = faults \/ (faults > 0 /\ faults' = faults - 1)
  BY DEF Says, NoFault, Fault

(* The end of a handler.                                                    *)
LEMMA ReturnSteps ==
    ASSUME IInv, NEW p \in Procs, h[p] # <<>>, Declines(p) \/ DiffsDone(p)
    PROVE  IInv'
  <1>1. Calm
    BY StillCalm DEF Declines, DiffsDone, broker, db, IInv, World, RowsInv
  <1> QED BY <1>1, CalmReturns DEF Declines, DiffsDone

LEMMA AdmitsStep ==
    ASSUME IInv, NEW p \in Procs, h[p] # <<>>, Admits(p)
    PROVE  IInv'
  <1>1. Calm
    BY StillCalm DEF Admits, broker, db, IInv, World, RowsInv
  <1>2. PICK f : f = Top(p)
    OBVIOUS
  <1>3. f \in FrameType /\ FrameOK(p, f)' /\ f.pc = "admit"
    BY <1>1, <1>2, TopKept DEF Admits, At
  <1>4. PICK g : g = [f EXCEPT !.pc = "insert"]
    OBVIOUS
  <1>5. g \in FrameType /\ g.pc = "insert" /\ g.t = f.t
    BY <1>3, <1>4, FramePc DEF Steps
  <1>6. FrameOK(p, g)' /\ f.pc \in Alone
    BY <1>3, <1>5 DEF FrameOK, Begins, Scans, AboutOrder, Replacing, Signalled, Alone
  <1>7. Goes(p, <<g>>)
    BY <1>2, <1>4 DEF Admits, GoesTo, As
  <1> QED BY <1>1, <1>2, <1>6, <1>7, CalmOne

LEMMA LinkStep ==
    ASSUME IInv, NEW p \in Procs, h[p] # <<>>, Link(p)
    PROVE  IInv'
  <1>1. PICK f : f = Top(p)
    OBVIOUS
  <1>2. f \in FrameType /\ FrameOK(p, f) /\ f.pc = "link"
    BY <1>1, TopFrame DEF Link, At, IInv
  <1>3. f.id \in DOMAIN orders
    BY <1>2 DEF FrameOK, AboutOrder, OrderOf
  <1>4. Calm
    <2>1. RowsGo /\ OrdersGo /\ MemGoes
      BY RowsStill, OrdersStill, MemStill DEF IInv, World, Link, broker
    <2>2. NewsGo
      BY <1>1, <1>3 DEF IInv, World, OrdersInv, RowsInv, NewsGo, Link, broker
    <2> QED BY <2>1, <2>2 DEF Calm
  <1>5. PICK g : g = [f EXCEPT !.pc = "replay"]
    OBVIOUS
  <1>6. g \in FrameType /\ g.pc = "replay" /\ g.t = f.t /\ g.id = f.id
    BY <1>2, <1>5, FramePc DEF Steps
  <1>7. FrameOK(p, f)'
    BY <1>1, <1>4, TopKept
  <1>8. FrameOK(p, g)' /\ g.pc \notin Alone
    BY <1>2, <1>6, <1>7 DEF FrameOK, Begins, Scans, AboutOrder, Replacing, Signalled, Alone
  <1>9. Goes(p, <<g>>)
    BY <1>1, <1>5 DEF Link, GoesTo, As
  <1> QED BY <1>4, <1>8, <1>9, CalmOne

(* The watch, the ladder and a cancellation.                                *)
LEMMA WatchReadsRowStep ==
    ASSUME IInv, NEW p \in Procs, h[p] # <<>>, WatchReadsRow(p)
    PROVE  IInv'
  <1>1. Calm
    BY StillCalm DEF WatchReadsRow, broker, db, IInv, World, RowsInv
  <1>2. PICK f : f = Top(p)
    OBVIOUS
  <1>3. f \in FrameType /\ FrameOK(p, f)' /\ f.pc = "poll"
    BY <1>1, <1>2, TopKept DEF WatchReadsRow, At
  <1>4. PICK last \in BOOLEAN :
            \/ Returns(p)
            \/ Goes(p, <<[f EXCEPT !.flag = last, !.pc = "watch"]>>)
    BY <1>2 DEF WatchReadsRow
  <1>5. CASE Returns(p)
    BY <1>1, <1>5, CalmReturns
  <1>6. CASE Goes(p, <<[f EXCEPT !.flag = last, !.pc = "watch"]>>)
    <2>1. PICK g : g = [f EXCEPT !.flag = last, !.pc = "watch"]
      OBVIOUS
    <2>2. g \in FrameType /\ g.pc = "watch" /\ g.t = f.t /\ g.id = f.id
      BY <1>3, <2>1 DEF FrameType, Steps
    <2>3. FrameOK(p, g)' /\ g.pc \notin Alone
      BY <1>3, <2>2, PlainFrame DEF Plain, AboutOrder
    <2> QED BY <1>1, <1>6, <2>1, <2>3, CalmOne
  <1> QED BY <1>4, <1>5, <1>6

LEMMA WatchReadsOrderStep ==
    ASSUME IInv, NEW p \in Procs, h[p] # <<>>, WatchReadsOrder(p)
    PROVE  IInv'
  <1>1. PICK f : f = Top(p)
    OBVIOUS
  <1>2. f \in FrameType /\ FrameOK(p, f) /\ f.pc = "watch"
    BY <1>1, TopFrame DEF WatchReadsOrder, At, IInv
  <1>3. f.id \in DOMAIN orders
    BY <1>2 DEF FrameOK, AboutOrder, OrderOf
  <1>4. PICK a : a = [f EXCEPT !.pc = "poll", !.flag = FALSE]
    OBVIOUS
  <1>5. PICK c : c = [f EXCEPT !.pc = "cancel"]
    OBVIOUS
  <1>6. PICK r \in Answers(f.id) :
            /\ Says(r, f.id)
            /\ \/ r.st = "COMPLETE" /\ Goes(p, Filling(f, r.got, FALSE))
               \/ r.st \in DeadStatuses /\ Goes(p, Failing(f, r.st))
               \/ Goes(p, <<c>>) \/ Goes(p, <<a>>) \/ Goes(p, <<a, c>>)
    BY <1>1, <1>4, <1>5 DEF WatchReadsOrder
  <1>7. Calm
    BY <1>6, SaysFault, StillCalm DEF WatchReadsOrder, broker, db, IInv, World, RowsInv
  <1>8. FrameOK(p, f)' /\ OnTrade(f.t)'
    BY <1>1, <1>2, <1>7, TopKept, TradeOfFrame DEF Begins, Scans
  <1>9. r.st \in Answered /\ (r.st = "COMPLETE" => r.got \in 1 .. 4)
    BY <1>3, <1>6, AnswerType DEF IInv
  <1>10. FrameOK(p, a)' /\ a.pc \notin Alone /\ FrameOK(p, c)' /\ c.pc \notin Alone
    <2>1. a \in FrameType /\ a.pc = "poll" /\ a.t = f.t /\ a.id = f.id
      BY <1>2, <1>4 DEF FrameType, Steps
    <2>2. c \in FrameType /\ c.pc = "cancel" /\ c.t = f.t /\ c.id = f.id
      BY <1>2, <1>5 DEF FrameType, Steps
    <2> QED BY <1>2, <1>8, <2>1, <2>2, PlainFrame DEF Plain, AboutOrder
  <1>11. CASE r.st = "COMPLETE" /\ Goes(p, Filling(f, r.got, FALSE))
    BY <1>2, <1>7, <1>8, <1>9, <1>11, FillingFrames, CalmGoes
  <1>12. CASE r.st \in DeadStatuses /\ Goes(p, Failing(f, r.st))
    BY <1>2, <1>7, <1>8, <1>9, <1>12, FailingFrames, CalmGoes
  <1>13. CASE Goes(p, <<c>>) \/ Goes(p, <<a>>)
    BY <1>7, <1>10, <1>13, CalmOne
  <1>14. CASE Goes(p, <<a, c>>)
    BY <1>7, <1>10, <1>14, TwoFrames, CalmGoes
  <1> QED BY <1>6, <1>11, <1>12, <1>13, <1>14

LEMMA LadderStep ==
    ASSUME IInv, NEW p \in Procs, h[p] # <<>>, Ladder(p)
    PROVE  IInv'
  <1>1. PICK f : f = Top(p)
    OBVIOUS
  <1>2. PICK g : g = [f EXCEPT !.pc = "cancel"]
    OBVIOUS
  <1>3. Goes(p, <<g>>) \/ Returns(p)
    BY <1>1, <1>2 DEF Ladder, GoesTo, As
  <1>4. faults' = faults \/ (faults > 0 /\ faults' = faults - 1)
    BY SaysFault DEF Ladder, NoFault
  <1>5. Calm
    BY <1>4, StillCalm DEF Ladder, broker, db, IInv, World, RowsInv
  <1>6. f \in FrameType /\ FrameOK(p, f)' /\ f.pc = "ladder"
    BY <1>1, <1>5, TopKept DEF Ladder, At
  <1>7. g \in FrameType /\ g.pc = "cancel" /\ g.t = f.t /\ g.id = f.id
    BY <1>2, <1>6, FramePc DEF Steps
  <1>8. FrameOK(p, g)' /\ g.pc \notin Alone
    BY <1>6, <1>7, PlainFrame DEF Plain, AboutOrder
  <1> QED BY <1>3, <1>5, <1>8, CalmOne, CalmReturns

LEMMA CancelLateStep ==
    ASSUME IInv, NEW p \in Procs, h[p] # <<>>, CancelLate(p)
    PROVE  IInv'
  <1>1. PICK f : f = Top(p)
    OBVIOUS
  <1>2. f \in FrameType /\ FrameOK(p, f) /\ f.pc = "cancelLate"
    BY <1>1, TopFrame DEF CancelLate, At, IInv
  <1>3. f.id \in DOMAIN orders
    BY <1>2 DEF FrameOK, AboutOrder, OrderOf
  <1>4. PICK r \in Answers(f.id) :
            /\ Says(r, f.id)
            /\ \E s : \E on \in BOOLEAN :
                  /\ Goes(p, <<[f EXCEPT !.pc = "cancelDone", !.flag = on]>> \o s)
                  /\ \/ r.got > 0 /\ s = Filling(f, r.got, r.st # "COMPLETE")
                     \/ s = <<[f EXCEPT !.pc = "ambiguous"]>>
                     \/ s = Failing(f, r.st)
    BY <1>1 DEF CancelLate
  <1>5. PICK s :
            /\ \E on \in BOOLEAN :
                  Goes(p, <<[f EXCEPT !.pc = "cancelDone", !.flag = on]>> \o s)
            /\ \/ r.got > 0 /\ s = Filling(f, r.got, r.st # "COMPLETE")
               \/ s = <<[f EXCEPT !.pc = "ambiguous"]>>
               \/ s = Failing(f, r.st)
    BY <1>4
  <1>6. Calm
    BY <1>4, SaysFault, StillCalm DEF CancelLate, broker, db, IInv, World, RowsInv
  <1>7. FrameOK(p, f)' /\ OnTrade(f.t)'
    BY <1>1, <1>2, <1>6, TopKept, TradeOfFrame DEF Begins, Scans
  <1>8. r.st \in Answered /\ (r.got > 0 => r.got \in 1 .. 4)
    BY <1>3, <1>4, AnswerType DEF IInv
  <1>9. PICK d :
            /\ \E on \in BOOLEAN : d = [f EXCEPT !.pc = "cancelDone", !.flag = on]
            /\ Goes(p, <<d>> \o s)
    BY <1>5
  <1>10. PICK a : a = [f EXCEPT !.pc = "ambiguous"]
    OBVIOUS
  <1>11. FrameOK(p, d)' /\ d.pc \notin Alone /\ FrameOK(p, a)' /\ a.pc \notin Alone
    <2>1. d \in FrameType /\ d.pc = "cancelDone" /\ d.t = f.t /\ d.id = f.id
      BY <1>2, <1>9 DEF FrameType, Steps
    <2>2. a \in FrameType /\ a.pc = "ambiguous" /\ a.t = f.t /\ a.id = f.id
      BY <1>2, <1>10 DEF FrameType, Steps
    <2> QED BY <1>2, <1>7, <2>1, <2>2, PlainFrame DEF Plain, AboutOrder
  <1>12. Proper(p, s)'
    <2>1. CASE r.got > 0 /\ s = Filling(f, r.got, r.st # "COMPLETE")
      BY <1>2, <1>7, <1>8, <2>1, FillingFrames
    <2>2. CASE s = <<[f EXCEPT !.pc = "ambiguous"]>>
      BY <1>10, <1>11, <2>2, OneFrame
    <2>3. CASE s = Failing(f, r.st)
      BY <1>2, <1>7, <1>8, <2>3, FailingFrames
    <2> QED BY <1>5, <2>1, <2>2, <2>3
  <1>13. Proper(p, <<d>> \o s)'
    BY <1>11, <1>12, OneFrame, MoreFrames
  <1> QED BY <1>6, <1>9, <1>13, CalmGoes

(* The recovery of an unclear entry.                                        *)
LEMMA RecoverBeginsStep ==
    ASSUME IInv, NEW p \in Procs, h[p] # <<>>, RecoverBegins(p)
    PROVE  IInv'
  <1>1. Calm
    BY StillCalm DEF RecoverBegins, broker, db, IInv, World, RowsInv
  <1>2. PICK f : f = Top(p)
    OBVIOUS
  <1>3. f \in FrameType /\ FrameOK(p, f)' /\ f.pc = "ambiguous"
    BY <1>1, <1>2, TopKept DEF RecoverBegins, At
  <1>4. PICK g : g = [f EXCEPT !.pc = "recover", !.cmd = TRUE]
    OBVIOUS
  <1>5. g \in FrameType /\ g.pc = "recover" /\ g.t = f.t /\ g.id = f.id
    BY <1>3, <1>4 DEF FrameType, Steps
  <1>6. FrameOK(p, g)' /\ g.pc \notin Alone
    BY <1>3, <1>5, PlainFrame DEF Plain, AboutOrder
  <1>7. Goes(p, <<g>>)
    BY <1>2, <1>4 DEF RecoverBegins
  <1> QED BY <1>1, <1>6, <1>7, CalmOne

LEMMA RecoverReadsOrderStep ==
    ASSUME IInv, NEW p \in Procs, h[p] # <<>>, RecoverReadsOrder(p)
    PROVE  IInv'
  <1>1. PICK f : f = Top(p)
    OBVIOUS
  <1>2. f \in FrameType /\ FrameOK(p, f) /\ f.pc = "recover"
    BY <1>1, TopFrame DEF RecoverReadsOrder, At, IInv
  <1>3. f.id \in DOMAIN orders
    BY <1>2 DEF FrameOK, AboutOrder, OrderOf
  <1>4. PICK g : g = [f EXCEPT !.pc = "recoverPosition"]
    OBVIOUS
  <1>5. CASE row[f.t].oid # f.id
    <2>1. Returns(p) /\ faults' = faults
      BY <1>1, <1>5 DEF RecoverReadsOrder, NoFault
    <2>2. Calm
      BY <2>1, StillCalm DEF RecoverReadsOrder, broker, db, IInv, World, RowsInv
    <2> QED BY <2>1, <2>2, CalmReturns
  <1>6. CASE ~(row[f.t].oid # f.id)
    <2>1. PICK r \in Answers(f.id) :
              /\ Says(r, f.id)
              /\ \/ r.st \in DeadStatuses /\ Goes(p, Failing(f, r.st))
                 \/ r.got > 0 /\ Goes(p, Filling(f, r.got, r.st # "COMPLETE"))
                 \/ Goes(p, <<g>>)
      BY <1>1, <1>4, <1>6 DEF RecoverReadsOrder, GoesTo, As
    <2>2. Calm
      BY <2>1, SaysFault, StillCalm DEF RecoverReadsOrder, broker, db, IInv, World, RowsInv
    <2>3. FrameOK(p, f)' /\ OnTrade(f.t)'
      BY <1>1, <1>2, <2>2, TopKept, TradeOfFrame DEF Begins, Scans
    <2>4. r.st \in Answered /\ (r.got > 0 => r.got \in 1 .. 4)
      BY <1>3, <2>1, AnswerType DEF IInv
    <2>5. CASE r.st \in DeadStatuses /\ Goes(p, Failing(f, r.st))
      BY <1>2, <2>2, <2>3, <2>4, <2>5, FailingFrames, CalmGoes
    <2>6. CASE r.got > 0 /\ Goes(p, Filling(f, r.got, r.st # "COMPLETE"))
      BY <1>2, <2>2, <2>3, <2>4, <2>6, FillingFrames, CalmGoes
    <2>7. CASE Goes(p, <<g>>)
      <3>1. g \in FrameType /\ g.pc = "recoverPosition" /\ g.t = f.t /\ g.id = f.id
        BY <1>2, <1>4 DEF FrameType, Steps
      <3>2. FrameOK(p, g)' /\ g.pc \notin Alone
        BY <1>2, <2>3, <3>1, PlainFrame DEF Plain, AboutOrder
      <3> QED BY <2>2, <2>7, <3>2, CalmOne
    <2> QED BY <2>1, <2>5, <2>6, <2>7
  <1> QED BY <1>5, <1>6

LEMMA RecoverReadsPositionStep ==
    ASSUME IInv, NEW p \in Procs, h[p] # <<>>, RecoverReadsPosition(p)
    PROVE  IInv'
  <1>1. PICK f : f = Top(p)
    OBVIOUS
  <1>2. f \in FrameType /\ FrameOK(p, f) /\ f.pc = "recoverPosition"
    BY <1>1, TopFrame DEF RecoverReadsPosition, At, IInv
  <1>3. OrderOf(f.t, f.id)
    BY <1>2 DEF FrameOK, AboutOrder
  <1>4. PICK n : n = pos[f.t]
    OBVIOUS
  <1>5. n \in 0 .. 4
    <2>1. orders[f.id] \in OrderType /\ orders[f.id].t = f.t
      BY <1>3 DEF IInv, World, OrdersInv, OrderOf
    <2>2. f.t \in Trades
      BY <2>1 DEF OrderType
    <2> QED BY <1>4, <2>2 DEF IInv, World, OrdersInv
  <1>6. PICK b \in BOOLEAN : b = (n < row[f.t].qty)
    <2>1. (n < row[f.t].qty) \in BOOLEAN
      OBVIOUS
    <2> QED BY <2>1, Zenon
  <1>7. PICK next \in {"recover", "unresolved"} :
            (n > 0 /\ Goes(p, Filling(f, n, b))) \/ Goes(p, <<[f EXCEPT !.pc = next]>>)
    BY <1>1, <1>4, <1>6 DEF RecoverReadsPosition, GoesTo, As
  <1>8. PICK g : g = [f EXCEPT !.pc = next]
    OBVIOUS
  <1>9. faults' = faults \/ (faults > 0 /\ faults' = faults - 1)
    BY DEF RecoverReadsPosition, NoFault, Fault
  <1>10. Calm
    BY <1>9, StillCalm DEF RecoverReadsPosition, broker, db, IInv, World, RowsInv
  <1>11. FrameOK(p, f)' /\ OnTrade(f.t)'
    BY <1>1, <1>2, <1>10, TopKept, TradeOfFrame DEF Begins, Scans
  <1>12. CASE n > 0 /\ Goes(p, Filling(f, n, b))
    <2>1. n \in 1 .. 4
      BY <1>5, <1>12
    <2> QED BY <1>2, <1>6, <1>10, <1>11, <1>12, <2>1, FillingFrames, CalmGoes
  <1>13. CASE Goes(p, <<g>>)
    <2>1. g \in FrameType /\ g.pc \in {"recover", "unresolved"} /\ g.t = f.t /\ g.id = f.id
      BY <1>2, <1>7, <1>8 DEF FrameType, Steps
    <2>2. FrameOK(p, g)' /\ g.pc \notin Alone
      BY <1>2, <1>11, <2>1, PlainFrame DEF Plain, AboutOrder
    <2> QED BY <1>10, <1>13, <2>2, CalmOne
  <1> QED BY <1>7, <1>8, <1>12, <1>13

LEMMA CancelDoneStep ==
    ASSUME IInv, NEW p \in Procs, h[p] # <<>>, CancelDone(p)
    PROVE  IInv'
  <1>1. Calm
    BY StillCalm DEF CancelDone, broker, db, IInv, World, RowsInv
  <1>2. CASE Returns(p)
    BY <1>1, <1>2, CalmReturns
  <1>3. CASE h' = [h EXCEPT ![p] = <<>>]
    BY <1>1, <1>3, NoFrames, ProperStack, CalmStack
  <1> QED BY <1>2, <1>3 DEF CancelDone

(* The timer that replaces a LIMIT order.                                   *)
LEMMA ReplacingFrame ==
    ASSUME NEW p, NEW f, FrameOK(p, f)', f.pc \in Replacing, NEW g \in FrameType,
           g.t = f.t, g.id = f.id, g.pc \in Replacing,
           g.pc = "market" /\ Readable' => Unfilled(g.id)'
    PROVE  FrameOK(p, g)'
  <1>1. f.pc \in AboutOrder /\ g.pc \in AboutOrder
    BY DEF AboutOrder
  <1>2. f.pc \notin Begins \cup Scans \cup Signalled \cup {"finalize", "update", "place", "marketRow"}
    BY DEF Begins, Scans, Signalled, Replacing
  <1>3. g.pc \notin Begins \cup Scans \cup Signalled \cup {"finalize", "update", "place", "marketRow"}
    BY DEF Begins, Scans, Signalled, Replacing
  <1> QED BY <1>1, <1>2, <1>3 DEF FrameOK

LEMMA FallbackChecksStep ==
    ASSUME IInv, NEW p \in Procs, h[p] # <<>>, FallbackChecks(p)
    PROVE  IInv'
  <1>1. PICK f : f = Top(p)
    OBVIOUS
  <1>2. f \in FrameType /\ FrameOK(p, f) /\ f.pc = "check"
    BY <1>1, TopFrame DEF FallbackChecks, At, IInv
  <1>3. f.id \in DOMAIN orders
    BY <1>2 DEF FrameOK, AboutOrder, Replacing, OrderOf
  <1>4. PICK g : g = IF f.flag THEN [f EXCEPT !.pc = "giveUp"] ELSE [f EXCEPT !.flag = TRUE]
    OBVIOUS
  <1>5. PICK r \in Answers(f.id) :
            /\ Says(r, f.id)
            /\ \/ Goes(p, Failing(f, r.st))
               \/ r.got > 0 /\ Goes(p, Filling(f, r.got, r.st # "COMPLETE"))
               \/ Goes(p, <<g>>)
    BY <1>1, <1>4 DEF FallbackChecks
  <1>6. Calm
    BY <1>5, SaysFault, StillCalm DEF FallbackChecks, broker, db, IInv, World, RowsInv
  <1>7. FrameOK(p, f)' /\ OnTrade(f.t)'
    BY <1>1, <1>2, <1>6, TopKept, TradeOfFrame DEF Begins, Scans
  <1>8. r.st \in Answered /\ (r.got > 0 => r.got \in 1 .. 4)
    BY <1>3, <1>5, AnswerType DEF IInv
  <1>9. CASE Goes(p, Failing(f, r.st))
    BY <1>2, <1>6, <1>7, <1>8, <1>9, FailingFrames, CalmGoes
  <1>10. CASE r.got > 0 /\ Goes(p, Filling(f, r.got, r.st # "COMPLETE"))
    BY <1>2, <1>6, <1>7, <1>8, <1>10, FillingFrames, CalmGoes
  <1>11. CASE Goes(p, <<g>>)
    <2>1. g \in FrameType /\ g.pc \in {"check", "giveUp"} /\ g.t = f.t /\ g.id = f.id
      BY <1>2, <1>4 DEF FrameType, Steps
    <2>2. FrameOK(p, g)'
      BY <1>2, <1>7, <2>1, ReplacingFrame DEF Replacing
    <2>3. Top(p).pc \in Alone
      BY <1>1, <1>2 DEF Alone, Replacing
    <2> QED BY <1>6, <1>11, <2>2, <2>3, CalmOne
  <1> QED BY <1>5, <1>9, <1>10, <1>11

LEMMA FallbackLateStep ==
    ASSUME IInv, NEW p \in Procs, h[p] # <<>>, FallbackLate(p)
    PROVE  IInv'
  <1>1. PICK f : f = Top(p)
    OBVIOUS
  <1>2. f \in FrameType /\ FrameOK(p, f) /\ f.pc = "late"
    BY <1>1, TopFrame DEF FallbackLate, At, IInv
  <1>3. f.id \in DOMAIN orders /\ setup.fallback
    BY <1>2 DEF FrameOK, AboutOrder, Replacing, OrderOf
  <1>4. PICK a : a = [f EXCEPT !.pc = "recover"]
    OBVIOUS
  <1>5. PICK b : b = [f EXCEPT !.pc = "market"]
    OBVIOUS
  <1>6. PICK r \in Answers(f.id) :
            /\ Says(r, f.id)
            /\ \/ r.got > 0 /\ Goes(p, Filling(f, r.got, r.st # "COMPLETE"))
               \/ Goes(p, <<a>>)
               \/ r.got = 0 /\ r.st \in DeadStatuses \cup {""} /\ Goes(p, <<b>>)
    <2>1. PICK r \in Answers(f.id) :
              /\ Says(r, f.id)
              /\ CASE r.got > 0 -> Goes(p, Filling(f, r.got, r.st # "COMPLETE"))
                   [] r.got = 0 /\ r.st \notin DeadStatuses \cup {""} -> Goes(p, <<a>>)
                   [] OTHER -> Goes(p, <<b>>)
      BY <1>1, <1>4, <1>5 DEF FallbackLate, GoesTo, As
    <2>2. r.got > 0 \/ r.got = 0
      BY <1>3, <2>1, AnswerType DEF IInv
    <2> QED BY <2>1, <2>2
  <1>7. Calm
    BY <1>6, SaysFault, StillCalm DEF FallbackLate, broker, db, IInv, World, RowsInv
  <1>8. FrameOK(p, f)' /\ OnTrade(f.t)'
    BY <1>1, <1>2, <1>7, TopKept, TradeOfFrame DEF Begins, Scans
  <1>9. r.got > 0 => r.got \in 1 .. 4
    BY <1>3, <1>6, AnswerType DEF IInv
  <1>10. CASE r.got > 0 /\ Goes(p, Filling(f, r.got, r.st # "COMPLETE"))
    BY <1>2, <1>7, <1>8, <1>9, <1>10, FillingFrames, CalmGoes
  <1>11. CASE Goes(p, <<a>>)
    <2>1. a \in FrameType /\ a.pc = "recover" /\ a.t = f.t /\ a.id = f.id
      BY <1>2, <1>4 DEF FrameType, Steps
    <2>2. FrameOK(p, a)' /\ a.pc \notin Alone
      BY <1>2, <1>8, <2>1, PlainFrame DEF Plain, AboutOrder, Replacing
    <2> QED BY <1>7, <1>11, <2>2, CalmOne
  <1>12. CASE r.got = 0 /\ r.st \in DeadStatuses \cup {""} /\ Goes(p, <<b>>)
    <2>1. b \in FrameType /\ b.pc = "market" /\ b.t = f.t /\ b.id = f.id
      BY <1>2, <1>5 DEF FrameType, Steps
    <2>2. Readable => Unfilled(f.id)
      <3>1. ASSUME Readable
            PROVE  r = [st |-> orders[f.id].st, got |-> orders[f.id].got]
        BY <1>3, <1>6, <3>1 DEF Says, Fault, Readable
      <3>2. orders[f.id] \in OrderType
        BY <1>3 DEF IInv, World, OrdersInv
      <3>3. orders[f.id].st # ""
        BY <3>2 DEF OrderType, Alive, DeadStatuses
      <3>4. Readable => r.st = orders[f.id].st /\ r.got = orders[f.id].got
        BY <3>1
      <3> QED BY <1>3, <1>12, <3>3, <3>4 DEF Unfilled
    <2>3. Readable' => Unfilled(f.id)'
      BY <2>2 DEF FallbackLate, broker, Readable, Unfilled
    <2>4. FrameOK(p, b)'
      BY <1>2, <1>8, <2>1, <2>3, ReplacingFrame DEF Replacing
    <2>5. Top(p).pc \in Alone
      BY <1>1, <1>2 DEF Alone, Replacing
    <2> QED BY <1>7, <1>12, <2>4, <2>5, CalmOne
  <1> QED BY <1>6, <1>10, <1>11, <1>12

(* Reconciliation, trade by trade.                                          *)
LEMMA ReadPositionsStep ==
    ASSUME IInv, NEW p \in Procs, h[p] # <<>>, ReadPositions(p)
    PROVE  IInv'
  <1>1. PICK f : f = Top(p)
    OBVIOUS
  <1>2. PICK n : n = pos
    OBVIOUS
  <1>3. PICK g : \/ g = [[f EXCEPT !.pc = "rows"] EXCEPT !.net = n]
                 \/ g = [[f EXCEPT !.pc = "rows"] EXCEPT !.flag = TRUE]
        /\ Goes(p, <<g>>)
    BY <1>1, <1>2 DEF ReadPositions, As
  <1>4. faults' = faults \/ (faults > 0 /\ faults' = faults - 1)
    BY DEF ReadPositions, NoFault, Fault
  <1>5. Calm
    BY <1>4, StillCalm DEF ReadPositions, broker, db, IInv, World, RowsInv
  <1>6. f \in FrameType /\ FrameOK(p, f)' /\ f.pc = "positions"
    BY <1>1, <1>5, TopKept DEF ReadPositions, At
  <1>7. n \in [Trades -> 0 .. 4]
    BY <1>2 DEF IInv, World, OrdersInv
  <1>8. PICK e : e = [f EXCEPT !.pc = "rows"]
    OBVIOUS
  <1>9. e \in FrameType /\ e.pc = "rows" /\ e.t = f.t
    BY <1>6, <1>8, FramePc DEF Steps
  <1>10. g \in FrameType /\ g.pc = "rows" /\ g.t = f.t
    BY <1>3, <1>7, <1>8, <1>9 DEF FrameType
  <1>11. FrameOK(p, g)' /\ f.pc \in Alone
    BY <1>6, <1>10 DEF FrameOK, Begins, Scans, AboutOrder, Replacing, Signalled, Alone
  <1> QED BY <1>1, <1>3, <1>5, <1>11, CalmOne

LEMMA DiffGoesOn ==
    ASSUME IInv, Calm, NEW p \in Procs, h[p] # <<>>, Top(p).pc \in {"diff", "tick"}, NEW t,
           NEW s, Proper(p, s)', DiffGoes(p, t, s)
    PROVE  IInv'
  <1>1. PICK f : f = Top(p)
    OBVIOUS
  <1>2. f \in FrameType /\ FrameOK(p, f)' /\ f.pc \in {"diff", "tick"}
    BY <1>1, TopKept
  <1>3. PICK g : g = [f EXCEPT !.todo = f.todo \ {t}]
    OBVIOUS
  <1>4. g \in FrameType /\ g.pc = f.pc /\ g.t = f.t
    BY <1>2, <1>3 DEF FrameType
  <1>5. FrameOK(p, g)' /\ g.pc \notin Alone
    BY <1>2, <1>4 DEF FrameOK, Begins, Scans, AboutOrder, Replacing, Signalled, Alone
  <1>6. Proper(p, <<g>> \o s)'
    BY <1>5, OneFrame, MoreFrames
  <1>7. Goes(p, <<g>> \o s)
    <2>1. [Top(p) EXCEPT !.todo = @ \ {t}] = g
      BY <1>1, <1>3
    <2> QED BY <2>1 DEF DiffGoes
  <1> QED BY <1>6, <1>7, CalmGoes

(* The frame of the command of a trade that is reconciled.                  *)
LEMMA CommandFrame ==
    ASSUME IInv, NEW p \in Procs, h[p] # <<>>, NEW t \in DOMAIN row
    PROVE  InCommand(p, t) \in FrameType /\ InCommand(p, t).t = t /\ InCommand(p, t).id = row[t].oid
  <1>1. PICK f : f = Top(p)
    OBVIOUS
  <1>2. PICK id : id = row[t].oid
    OBVIOUS
  <1>3. f \in FrameType
    BY <1>1, TopFrame DEF IInv
  <1>4. row[t] \in RowType
    BY DEF IInv, World, RowsInv
  <1>5. id \in 0 .. MaxOrders
    BY <1>2, <1>4 DEF RowType
  <1>6. t \in 0 .. MaxTrades + 1
    <2>1. setup.trades \in 1 .. MaxTrades
      BY EntryAssumption DEF IInv, World, OrdersInv, Setup
    <2>2. Len(row) <= setup.trades + 1 /\ t \in 1 .. Len(row)
      BY DEF IInv, World, RowsInv
    <2> QED BY <2>1, <2>2, EntryAssumption DEF IInv, World, RowsInv
  <1>7. PICK g : g = [f EXCEPT !.t = t, !.id = id, !.cmd = TRUE]
    OBVIOUS
  <1>8. g \in FrameType /\ g.t = t /\ g.id = id
    BY <1>3, <1>5, <1>6, <1>7 DEF FrameType
  <1> QED BY <1>1, <1>2, <1>7, <1>8 DEF InCommand

LEMMA CalmTrade ==
    ASSUME World, Calm, NEW t, OnTrade(t)
    PROVE  OnTrade(t)'
  BY DEF World, RowsInv, Calm, RowsGo, OnTrade

LEMMA BookType ==
    ASSUME IInv, NEW t \in DOMAIN row
    PROVE  /\ BookOf(t).st \in Answered
           /\ BookOf(t).st = "COMPLETE" \/ BookOf(t).got > 0 => BookOf(t).got \in 1 .. 4
  <1>1. PICK b : b = BookOf(t)
    OBVIOUS
  <1>2. CASE row[t].oid = NoOrder
    <2>1. b.st = "" /\ b.got = 0
      BY <1>1, <1>2 DEF BookOf, Unknown
    <2>2. b.st \in Answered /\ b.st # "COMPLETE"
      BY <2>1 DEF Answered
    <2>3. ~(0 > 0)
      OBVIOUS
    <2>4. ~(b.got > 0)
      BY <2>1, <2>3, Zenon
    <2> QED BY <1>1, <2>2, <2>4
  <1>3. CASE row[t].oid # NoOrder
    <2>1. row[t].oid \in OrderIds
      <3>1. row[t] \in RowType
        BY DEF IInv, World, RowsInv
      <3> QED BY <1>3, <3>1 DEF RowType, NoOrder, OrderIds
    <2>2. b = mem.known[row[t].oid]
      BY <1>1, <1>3 DEF BookOf
    <2>3. b \in KnownType
      BY <2>1, <2>2 DEF IInv, World, MemInv, MemType
    <2>4. b.st \in {"PARTIAL", "COMPLETE"} => b.got > 0
      BY <2>1, <2>2 DEF IInv, World, MemInv
    <2>5. b.st \in Answered
      BY <2>3 DEF KnownType, Answered, Alive
    <2>6. b.got \in 0 .. 2
      BY <2>3 DEF KnownType
    <2> QED BY <1>1, <2>4, <2>5, <2>6
  <1> QED BY <1>2, <1>3

LEMMA DiffOfEntryStep ==
    ASSUME IInv, NEW p \in Procs, h[p] # <<>>, NEW t \in DOMAIN row, DiffOfEntry(p, t)
    PROVE  IInv'
  <1>1. PICK g : g = InCommand(p, t)
    OBVIOUS
  <1>2. PICK b : b = BookOf(t)
    OBVIOUS
  <1>3. g \in FrameType /\ g.t = t /\ g.id = row[t].oid
    BY <1>1, CommandFrame
  <1>4. OnTrade(t)
    BY DEF DiffOfEntry, EntryStatuses, OnTrade, Adopting
  <1>5. b.st \in Answered /\ (b.got > 0 => b.got \in 1 .. 4)
    BY <1>2, BookType
  <1>6. \/ faults' = faults /\ \E st \in Answered : DiffGoes(p, t, Failing(g, st))
        \/ /\ g.id # NoOrder
           /\ \E r \in Answers(g.id) :
                  /\ Says(r, g.id)
                  /\ DiffGoes(p, t, IF r.st \in DeadStatuses THEN Failing(g, r.st) ELSE <<>>)
        \/ /\ faults' = faults
           /\ DiffGoes(p, t, IF b.got > 0 THEN Filling(g, b.got, b.st # "COMPLETE") ELSE <<>>)
    <2>1. "REJECTED" \in Answered
      BY DEF Answered, DeadStatuses
    <2> QED BY <1>1, <1>2, <1>5, <2>1 DEF DiffOfEntry, NoFault
  <1>7. ASSUME faults' = faults \/ (faults > 0 /\ faults' = faults - 1)
        PROVE  Calm
    BY <1>7, StillCalm DEF DiffOfEntry, broker, db, IInv, World, RowsInv
  <1>8. Top(p).pc \in {"diff", "tick"}
    BY DEF DiffOfEntry, Diffs, At
  <1>9. ASSUME faults' = faults, NEW st \in Answered, DiffGoes(p, t, Failing(g, st))
        PROVE  IInv'
    BY <1>3, <1>4, <1>7, <1>8, <1>9, CalmTrade, FailingFrames, DiffGoesOn DEF IInv
  <1>10. ASSUME g.id # NoOrder, NEW r \in Answers(g.id), Says(r, g.id),
                DiffGoes(p, t, IF r.st \in DeadStatuses THEN Failing(g, r.st) ELSE <<>>)
         PROVE  IInv'
    <2>1. Calm
      BY <1>7, <1>10, SaysFault
    <2>2. g.id \in DOMAIN orders
      BY <1>3, <1>10 DEF IInv, World, RowsInv, OrderOf
    <2>3. r.st \in Answered
      BY <1>10, <2>2, AnswerType DEF IInv
    <2>4. Proper(p, IF r.st \in DeadStatuses THEN Failing(g, r.st) ELSE <<>>)'
      <3>1. Proper(p, Failing(g, r.st))' /\ Proper(p, <<>>)'
        BY <1>3, <1>4, <2>1, <2>3, CalmTrade, FailingFrames, NoFrames DEF IInv
      <3>2. CASE r.st \in DeadStatuses
        BY <3>1, <3>2
      <3>3. CASE r.st \notin DeadStatuses
        BY <3>1, <3>3
      <3> QED BY <3>2, <3>3
    <2> QED BY <1>8, <1>10, <2>1, <2>4, DiffGoesOn
  <1>11. ASSUME faults' = faults,
                DiffGoes(p, t, IF b.got > 0 THEN Filling(g, b.got, b.st # "COMPLETE") ELSE <<>>)
         PROVE  IInv'
    <2>1. Calm
      BY <1>7, <1>11
    <2>2. CASE b.got > 0
      <3>1. Proper(p, Filling(g, b.got, b.st # "COMPLETE"))'
        BY <1>3, <1>4, <1>5, <2>1, <2>2, CalmTrade, FillingFrames DEF IInv
      <3> QED BY <1>8, <1>11, <2>1, <2>2, <3>1, DiffGoesOn
    <2>3. CASE ~(b.got > 0)
      BY <1>8, <1>11, <2>1, <2>3, NoFrames, DiffGoesOn
    <2> QED BY <2>2, <2>3
  <1> QED BY <1>6, <1>9, <1>10, <1>11

LEMMA DiffOfOtherStep ==
    ASSUME IInv, NEW p \in Procs, h[p] # <<>>, NEW t \in DOMAIN row, DiffOfOther(p, t)
    PROVE  IInv'
  <1>1. PICK g : g = InCommand(p, t)
    OBVIOUS
  <1>2. PICK b : b = BookOf(t)
    OBVIOUS
  <1>3. g \in FrameType /\ g.t = t
    BY <1>1, CommandFrame
  <1>4. Calm
    BY StillCalm DEF DiffOfOther, broker, db, IInv, World, RowsInv
  <1>5. Top(p).pc \in {"diff", "tick"}
    BY DEF DiffOfOther, Diffs, At
  <1>6. CASE row[t].st = "ENTRY_FILLED" /\ b.st = "COMPLETE"
    <2>1. OnTrade(t)
      BY <1>6 DEF OnTrade, Adopting
    <2>2. b.got \in 1 .. 4
      BY <1>2, <1>6, BookType
    <2>3. Proper(p, Filling(g, b.got, FALSE))'
      BY <1>3, <1>4, <2>1, <2>2, CalmTrade, FillingFrames DEF IInv
    <2>4. DiffGoes(p, t, Filling(g, b.got, FALSE))
      BY <1>1, <1>2, <1>6 DEF DiffOfOther
    <2> QED BY <1>4, <1>5, <2>3, <2>4, DiffGoesOn
  <1>7. CASE ~(row[t].st = "ENTRY_FILLED" /\ b.st = "COMPLETE")
    <2>1. DiffGoes(p, t, <<>>)
      BY <1>2, <1>7 DEF DiffOfOther
    <2> QED BY <1>4, <1>5, <2>1, NoFrames, DiffGoesOn
  <1> QED BY <1>6, <1>7

LEMMA TickOfStep ==
    ASSUME IInv, NEW p \in Procs, h[p] # <<>>, NEW t \in DOMAIN row, TickOf(p, t)
    PROVE  IInv'
  <1>1. PICK f : f = Top(p)
    OBVIOUS
  <1>2. f \in FrameType /\ f.pc = "tick"
    BY <1>1, TopFrame DEF TickOf, At, IInv
  <1>3. PICK g : g = [f EXCEPT !.pc = "close", !.t = t]
    OBVIOUS
  <1>4. \/ FlatIsWrong(row[t].st) /\ DiffGoes(p, t, <<g>>)
        \/ DiffGoes(p, t, <<>>)
    BY <1>1, <1>3, Zenon DEF TickOf
  <1>5. kill' \in BOOLEAN
    BY DEF TickOf, IInv, World, RowsInv
  <1>6. Calm
    BY <1>5, StillCalm DEF TickOf, broker, db
  <1>7. Top(p).pc \in {"diff", "tick"}
    BY <1>1, <1>2
  <1>8. CASE FlatIsWrong(row[t].st) /\ DiffGoes(p, t, <<g>>)
    <2>1. OnTrade(t)
      BY <1>8 DEF OnTrade, Adopting, FlatIsWrong
    <2>2. OnTrade(t)'
      BY <1>6, <2>1, CalmTrade DEF IInv
    <2>3. t \in 0 .. MaxTrades + 1
      BY CommandFrame DEF FrameType
    <2>4. g \in FrameType /\ g.pc = "close" /\ g.t = t
      BY <1>2, <1>3, <2>3 DEF FrameType, Steps
    <2>5. FrameOK(p, g)' /\ g.pc \notin Alone
      BY <2>2, <2>4 DEF FrameOK, Begins, Scans, AboutOrder, Replacing, Signalled, Alone
    <2> QED BY <1>6, <1>7, <1>8, <2>5, OneFrame, DiffGoesOn
  <1>9. CASE DiffGoes(p, t, <<>>)
    BY <1>6, <1>7, <1>9, NoFrames, DiffGoesOn
  <1> QED BY <1>4, <1>8, <1>9

-----------------------------------------------------------------------------
(* Steps that change the memory.                                            *)
LEMMA MemLess ==
    ASSUME World, NEW e \in SUBSET Nat, NEW b \in SUBSET mem.fallbacks,
           mem' = [mem EXCEPT !.expected = e, !.fallbacks = b]
    PROVE  MemGoes
  <1>1. mem \in MemType /\ mem.fallbacks \subseteq Nat
    BY DEF World, MemInv, MemType
  <1>2. mem' \in MemType /\ mem'.active = mem.active /\ mem'.closed = mem.closed
        /\ mem'.known = mem.known /\ mem'.fallbacks = b /\ mem'.up = mem.up
    BY <1>1 DEF MemType
  <1> QED BY <1>2 DEF World, MemInv, RowsInv, MemGoes

LEMMA KnownRecord ==
    ASSUME NEW st \in {"", "PARTIAL"} \cup Alive \cup DeadStatuses, NEW n \in 0 .. 2
    PROVE  [st |-> st, got |-> n] \in KnownType
  BY DEF KnownType

LEMMA RememberedMem ==
    ASSUME World, NEW u \in PostType, u.st \notin DeadStatuses => u.got > 0,
           u.id \in DOMAIN orders, Remembers(u)
    PROVE  MemGoes
  <1>1. mem \in MemType
    BY DEF World, MemInv
  <1>2. u.id \in OrderIds
    BY EntryAssumption DEF World, OrdersInv, OrderIds
  <1>3. PICK k : k = [st |-> u.st, got |-> u.got]
    OBVIOUS
  <1>4. k \in KnownType /\ k.st = u.st /\ k.got = u.got
    BY <1>3 DEF KnownType, PostType, Alive
  <1>5. PICK e : e = IF u.st = "PARTIAL" THEN mem.seen ELSE mem.seen \cup {u.id}
    OBVIOUS
  <1>6. e \in SUBSET Nat
    BY <1>1, <1>2, <1>5 DEF MemType, OrderIds
  <1>7. PICK n : n = [mem.known EXCEPT ![u.id] = k]
    OBVIOUS
  <1>8. n \in [OrderIds -> KnownType] /\ n[u.id] = k
        /\ \A id \in OrderIds : id # u.id => n[id] = mem.known[id]
    BY <1>1, <1>2, <1>4, <1>7 DEF MemType
  <1>9. mem' = [mem EXCEPT !.known = n, !.seen = e]
    BY <1>1, <1>3, <1>5, <1>7 DEF Remembers, MemType
  <1>10. mem' \in MemType /\ mem'.active = mem.active /\ mem'.closed = mem.closed
         /\ mem'.known = n /\ mem'.fallbacks = mem.fallbacks /\ mem'.up = mem.up
    BY <1>1, <1>6, <1>8, <1>9 DEF MemType
  <1>11. \A id \in OrderIds : n[id].st \in {"PARTIAL", "COMPLETE"} => n[id].got > 0
    <2> SUFFICES ASSUME NEW id \in OrderIds, n[id].st \in {"PARTIAL", "COMPLETE"}
                 PROVE  n[id].got > 0
      OBVIOUS
    <2>1. CASE id = u.id
      <3>1. u.st \notin DeadStatuses
        BY <1>4, <1>8, <2>1 DEF DeadStatuses
      <3> QED BY <1>4, <1>8, <2>1, <3>1
    <2>2. CASE id # u.id
      BY <1>8, <2>2 DEF World, MemInv
    <2> QED BY <2>1, <2>2
  <1> QED BY <1>10, <1>11 DEF World, MemInv, RowsInv, MemGoes

(* The frame that handles a postback of an order.                           *)
LEMMA UpdateFrame ==
    ASSUME World, NEW u \in PostType, u.st \notin DeadStatuses => u.got > 0,
           u.id \in DOMAIN orders, NEW g, g = Update(u)
    PROVE  /\ g \in FrameType /\ g.pc = "update" /\ g.id = u.id /\ g.t = orders[u.id].t
           /\ g.st \in DeadStatuses \/ g.got > 0
  <1>1. PICK t : t = orders[u.id].t
    OBVIOUS
  <1>2. orders[u.id] \in OrderType
    BY DEF World, OrdersInv
  <1>3. t \in 1 .. MaxTrades
    BY <1>1, <1>2 DEF OrderType, Trades
  <1>4. t \in 0 .. MaxTrades + 1
    BY <1>3, EntryAssumption
  <1>5. PICK f : f = Frame("update", t)
    OBVIOUS
  <1>6. f \in FrameType /\ f.pc = "update" /\ f.t = t
    <2>1. "update" \in Steps
      BY DEF Steps
    <2> QED BY <1>4, <1>5, <2>1, NewFrame
  <1>7. u.id \in 0 .. MaxOrders /\ u.st \in Answered /\ u.got \in 0 .. 4
    <2>1. u.id \in 1 .. Len(orders) /\ Len(orders) \in Nat /\ Len(orders) <= MaxOrders
      BY DEF World, OrdersInv
    <2>2. u.st \in Answered
      BY DEF PostType, Answered
    <2>3. u.got \in 0 .. 4
      BY DEF PostType
    <2>4. u.id \in 0 .. MaxOrders
      BY <2>1, EntryAssumption
    <2> QED BY <2>2, <2>3, <2>4
  <1>8. g = [f EXCEPT !.id = u.id, !.st = u.st, !.got = u.got]
    BY <1>1, <1>5 DEF Update
  <1>9. g \in FrameType /\ g.pc = f.pc /\ g.id = u.id /\ g.t = f.t /\ g.st = u.st /\ g.got = u.got
    BY <1>6, <1>7, <1>8 DEF FrameType
  <1> QED BY <1>1, <1>6, <1>9

LEMMA UpdateOK ==
    ASSUME World, World', NEW p, NEW g \in FrameType, g.pc = "update",
           g.st \in DeadStatuses \/ g.got > 0,
           g.id \in DOMAIN orders, g.t = orders[g.id].t, orders' = orders
    PROVE  FrameOK(p, g)' /\ g.pc \notin Alone
  <1>1. OrderOf(g.t, g.id)' /\ OnTrade(g.t)'
    BY DEF World, OrdersInv, OrderOf
  <1> QED BY <1>1 DEF FrameOK, Begins, Scans, AboutOrder, Replacing, Signalled, Alone

LEMMA UpdateOfEntryStep ==
    ASSUME IInv, NEW p \in Procs, h[p] # <<>>, UpdateOfEntry(p)
    PROVE  IInv'
  <1>1. PICK f : f = Top(p)
    OBVIOUS
  <1>2. f \in FrameType /\ FrameOK(p, f) /\ f.pc = "update"
    BY <1>1, TopFrame DEF UpdateOfEntry, At, IInv
  <1>3. PICK g : g = [f EXCEPT !.cmd = TRUE]
    OBVIOUS
  <1>4. g \in FrameType /\ g.t = f.t /\ g.st = f.st /\ g.got = f.got /\ g.id = f.id
    BY <1>2, <1>3 DEF FrameType
  <1>5. \E e \in SUBSET Nat, b \in SUBSET mem.fallbacks :
            mem' = [mem EXCEPT !.expected = e, !.fallbacks = b]
    <2>1. mem.expected \in SUBSET Nat
      BY DEF IInv, World, MemInv, MemType
    <2>2. FallbacksOf(g.t) \subseteq mem.fallbacks
      BY DEF FallbacksOf
    <2>3. \E e \in {mem.expected, mem.expected \ {g.id}},
             b \in {mem.fallbacks, mem.fallbacks \ FallbacksOf(g.t)} :
              mem' = [mem EXCEPT !.expected = e, !.fallbacks = b]
      BY <1>1, <1>3 DEF UpdateOfEntry
    <2> QED BY <2>1, <2>2, <2>3
  <1>6. MemGoes
    BY <1>5, MemLess DEF IInv
  <1>7. Calm
    BY <1>6, RowsStill, OrdersStill, NewsStill DEF UpdateOfEntry, broker, db, Calm, IInv, World
  <1>8. \/ Returns(p)
        \/ f.st \in DeadStatuses /\ Goes(p, Failing(g, g.st))
        \/ f.st \notin DeadStatuses /\ Goes(p, Filling(g, g.got, g.st = "PARTIAL"))
    BY <1>1, <1>3, <1>4 DEF UpdateOfEntry, Returns
  <1>9. OnTrade(g.t)'
    BY <1>1, <1>2, <1>4, <1>7, TopKept, TradeOfFrame DEF Begins, Scans
  <1>10. g.st \in Answered /\ g.got \in 0 .. 4
    BY <1>4 DEF FrameType
  <1>11. CASE Returns(p)
    BY <1>7, <1>11, CalmReturns
  <1>12. CASE f.st \in DeadStatuses /\ Goes(p, Failing(g, g.st))
    BY <1>4, <1>7, <1>9, <1>10, <1>12, FailingFrames, CalmGoes
  <1>13. CASE f.st \notin DeadStatuses /\ Goes(p, Filling(g, g.got, g.st = "PARTIAL"))
    <2>1. g.got > 0
      BY <1>2, <1>4, <1>13 DEF FrameOK
    <2>2. g.got \in 1 .. 4
      BY <1>10, <2>1
    <2> QED BY <1>4, <1>7, <1>9, <1>13, <2>2, FillingFrames, CalmGoes
  <1> QED BY <1>8, <1>11, <1>12, <1>13

LEMMA ReplayStep ==
    ASSUME IInv, NEW p \in Procs, h[p] # <<>>, Replay(p)
    PROVE  IInv'
  <1>1. PICK f : f = Top(p)
    OBVIOUS
  <1>2. f \in FrameType /\ FrameOK(p, f) /\ f.pc = "replay"
    BY <1>1, TopFrame DEF Replay, At, IInv
  <1>3. OnTrade(f.t) /\ OrderOf(f.t, f.id)
    BY <1>2 DEF FrameOK, Begins, Scans, AboutOrder
  <1>4. RowsGo /\ OrdersGo
    BY RowsStill, OrdersStill DEF Replay, broker, IInv, World
  <1>5. (orphans' \subseteq orphans) => NewsGo
    BY NewsStill DEF Replay, broker, IInv, World
  <1>6. ASSUME NEW u \in orphans, u.id = f.id, orphans' = orphans \ {u},
               IF Regresses(u) THEN UNCHANGED <<mem, h>>
               ELSE Remembers(u) /\ Goes(p, <<f, [Update(u) EXCEPT !.cmd = f.cmd]>>)
        PROVE  IInv'
    <2>1. u \in PostType /\ (u.st \notin DeadStatuses => u.got > 0) /\ u.id \in DOMAIN orders
      BY DEF IInv, World, OrdersInv
    <2>2. MemGoes
      BY <1>6, <2>1, MemStill, RememberedMem DEF IInv, World
    <2>3. Calm
      BY <1>4, <1>5, <1>6, <2>2 DEF Calm
    <2>4. CASE UNCHANGED <<mem, h>>
      BY <2>3, <2>4, CalmSame
    <2>5. CASE Goes(p, <<f, [Update(u) EXCEPT !.cmd = f.cmd]>>)
      <3>1. PICK c \in BOOLEAN : c = f.cmd
        BY <1>2 DEF FrameType
      <3> PICK e : e = Update(u)
        OBVIOUS
      <3>2. PICK g : g = [e EXCEPT !.cmd = c]
        OBVIOUS
      <3> e \in FrameType /\ e.pc = "update" /\ e.id = u.id /\ e.t = orders[u.id].t
          /\ (e.st \in DeadStatuses \/ e.got > 0)
        BY <2>1, UpdateFrame DEF IInv
      <3>3. /\ g \in FrameType /\ g.pc = "update" /\ g.id = u.id /\ g.t = orders[u.id].t
            /\ g.st \in DeadStatuses \/ g.got > 0
        BY <3>2 DEF FrameType
      <3>4. FrameOK(p, g)' /\ g.pc \notin Alone
        BY <2>1, <2>3, <3>3, WorldGoes, UpdateOK DEF IInv, Replay, broker
      <3>5. FrameOK(p, f)' /\ f.pc \notin Alone
        BY <1>1, <1>2, <2>3, TopKept DEF Alone, Begins, Replacing
      <3> QED BY <2>3, <2>5, <3>1, <3>2, <3>4, <3>5, TwoFrames, CalmGoes
    <2> QED BY <1>6, <2>4, <2>5
  <1>7. ASSUME p # Pipeline, orphans' = orphans, Returns(p), mem' = mem
        PROVE  IInv'
    <2>1. Calm
      BY <1>4, <1>5, <1>7, MemStill DEF Calm, IInv, World
    <2> QED BY <1>7, <2>1, CalmReturns
  <1>8. ASSUME p = Pipeline, orphans' = orphans,
               mem' = [mem EXCEPT !.active = f.t, !.booked = @ \cup {InstrumentKey(f.t)}],
               h' = [h EXCEPT ![p] = <<>>,
                              ![<<"watch", f.t>>] = <<[Frame("poll", f.t) EXCEPT !.id = f.id]>>]
        PROVE  IInv'
    <2>1. NoneAdopted
      BY <1>2, <1>8 DEF FrameOK, Signalled
    <2>2. f.t \in 1 .. Len(row) /\ Len(row) \in Nat
      BY <1>3 DEF OnTrade, IInv, World, RowsInv
    <2>3. MemGoes
      <3>1. PICK k : k = mem.booked \cup {InstrumentKey(f.t)}
        OBVIOUS
      <3>2. mem \in MemType
        BY DEF IInv, World, MemInv
      <3>3. f.t \in Nat /\ f.t \in 0 .. Len(row)
        BY <2>2
      <3>4. k \in SUBSET ({"instrument", "trade", "unknown"} \X Nat)
        BY <3>1, <3>2, <3>3 DEF MemType, InstrumentKey
      <3>5. mem' = [mem EXCEPT !.active = f.t, !.booked = k]
        BY <1>8, <3>1
      <3>6. mem' \in MemType /\ mem'.active = f.t /\ mem'.closed = mem.closed
            /\ mem'.known = mem.known /\ mem'.fallbacks = mem.fallbacks
        BY <3>2, <3>3, <3>4, <3>5 DEF MemType
      <3> QED BY <2>1, <3>3, <3>6 DEF MemGoes, IInv, World, MemInv, NoneAdopted
    <2>4. Calm
      BY <1>4, <1>5, <1>8, <2>3 DEF Calm
    <2>5. f.t \in Trades /\ f.t \in 0 .. MaxTrades + 1
      <3>1. orders[f.id] \in OrderType /\ orders[f.id].t = f.t
        BY <1>3 DEF OrderOf, IInv, World, OrdersInv
      <3>2. f.t \in 1 .. MaxTrades
        BY <3>1 DEF OrderType, Trades
      <3> QED BY <3>2, EntryAssumption DEF Trades
    <2>6. PICK e : e = Frame("poll", f.t)
      OBVIOUS
    <2>7. PICK g : g = [e EXCEPT !.id = f.id]
      OBVIOUS
    <2>8. e \in FrameType /\ e.pc = "poll" /\ e.t = f.t
      <3>1. "poll" \in Steps
        BY DEF Steps
      <3> QED BY <2>5, <2>6, <3>1, NewFrame
    <2>9. g \in FrameType /\ g.pc = "poll" /\ g.t = f.t /\ g.id = f.id
      BY <1>2, <2>7, <2>8 DEF FrameType
    <2>10. FrameOK(p, f)'
      BY <1>1, <2>4, TopKept
    <2>11. OnTrade(f.t)' /\ OrderOf(f.t, f.id)'
      BY <1>2, <2>10 DEF FrameOK, Begins, Scans, AboutOrder
    <2>12. PICK q : q = <<"watch", f.t>>
      OBVIOUS
    <2>13. FrameOK(q, g)'
      BY <2>9, <2>11 DEF FrameOK, Begins, Scans, AboutOrder, Replacing, Signalled
    <2>14. StackOK(q, <<g>>)' /\ StackOK(p, <<>>)'
      BY <2>13, OneStack, NoFrames, ProperStack
    <2>15. q \in Procs /\ q # p
      BY <1>8, <2>5, <2>12, ProcFacts
    <2>16. \A x, y : FrameOK(x, y) => FrameOK(x, y)'
      BY <2>4, FrameKept DEF IInv
    <2>17. FramesInv'
      BY <1>8, <2>6, <2>7, <2>12, <2>14, <2>15, <2>16, FramesTwo DEF IInv
    <2> QED BY <2>4, <2>17, WorldGoes DEF IInv
  <1> QED BY <1>1, <1>6, <1>7, <1>8 DEF Replay

-----------------------------------------------------------------------------
(* What the pipeline and the timer take up.                                 *)

(* A handler that begins on an idle process.                                *)
LEMMA Taken ==
    ASSUME IInv, Calm, NEW p \in Procs, NEW g, FrameOK(p, g)', h' = [h EXCEPT ![p] = <<g>>]
    PROVE  IInv'
  BY OneStack, CalmStack

LEMMA SignalStep ==
    ASSUME IInv, Signal
    PROVE  IInv'
  <1>1. setup.trades \in 1 .. MaxTrades /\ Len(row) \in Nat
    BY EntryAssumption DEF IInv, World, OrdersInv, Setup, RowsInv
  <1>2. PICK t : t = Len(row) + 1
    OBVIOUS
  <1>3. t \in 0 .. MaxTrades + 1 /\ t <= setup.trades
    BY <1>1, <1>2, EntryAssumption DEF Signal
  <1>4. PICK g : g = Frame("admit", t)
    OBVIOUS
  <1>5. g \in FrameType /\ g.pc = "admit" /\ g.t = t
    <2>1. "admit" \in Steps
      BY DEF Steps
    <2> QED BY <1>3, <1>4, <2>1, NewFrame
  <1>6. mem \in MemType /\ mem.active \in 0 .. Len(row)
    BY DEF IInv, World, MemInv
  <1>7. NoneAdopted
    <2> SUFFICES ASSUME NEW u \in DOMAIN row, row[u].st = Adopting
                 PROVE  FALSE
      BY DEF NoneAdopted
    <2>1. mem.active = u /\ u # NoTrade
      BY DEF Signal, IInv, World, RowsInv, NoTrade
    <2>2. Stale(u, pos[row[u].token])
      BY <2>1 DEF Signal
    <2> QED BY <2>2 DEF Stale, Terminal, TERMINAL_TRADE_STATUSES, Adopting
  <1>8. MemGoes
    <2>1. CASE mem' = mem
      BY <2>1, MemStill DEF IInv, World
    <2>2. CASE mem' = Cleared(mem, mem.active)
      <3>1. PICK b : b = mem.fallbacks \ FallbacksOf(mem.active)
        OBVIOUS
      <3>2. mem' = [mem EXCEPT !.active = NoTrade, !.fallbacks = b]
        BY <2>2, <3>1 DEF Cleared
      <3>3. b \subseteq mem.fallbacks /\ NoTrade \in 0 .. Len(row) /\ NoTrade \in Nat
        BY <1>1, <3>1 DEF NoTrade
      <3>4. mem' \in MemType /\ mem'.active = NoTrade /\ mem'.closed = mem.closed
            /\ mem'.known = mem.known /\ mem'.fallbacks = b
        BY <1>6, <3>2, <3>3 DEF MemType
      <3> QED BY <1>7, <3>3, <3>4 DEF MemGoes, IInv, World, MemInv, NoneAdopted
    <2> QED BY <2>1, <2>2 DEF Signal
  <1>9. Calm
    BY <1>8, RowsStill, OrdersStill, NewsStill DEF Signal, broker, db, Calm, IInv, World
  <1>10. FrameOK(Pipeline, g)'
    BY <1>2, <1>3, <1>5, <1>7
       DEF FrameOK, Begins, Scans, AboutOrder, Replacing, Signalled, NoneAdopted, Signal, db
  <1>11. h' = [h EXCEPT ![Pipeline] = <<g>>]
    BY <1>2, <1>4 DEF Signal
  <1> QED BY <1>9, <1>10, <1>11, ProcFacts, Taken

LEMMA DeliverStep ==
    ASSUME IInv, NEW u \in news, Deliver(u)
    PROVE  IInv'
  <1>1. u \in PostType /\ (u.st \notin DeadStatuses => u.got > 0) /\ u.id \in DOMAIN orders
    BY DEF IInv, World, OrdersInv
  <1>2. MemGoes
    BY <1>1, MemStill, RememberedMem DEF Deliver, IInv, World
  <1>3. NewsGo
    <2>1. news' \subseteq news /\ orphans' \subseteq orphans \cup {u}
      BY DEF Deliver
    <2>2. news' \cup orphans' \subseteq news \cup orphans
      BY <2>1
    <2> QED BY <2>2 DEF Deliver, IInv, World, OrdersInv, RowsInv, NewsGo
  <1>4. Calm
    BY <1>2, <1>3, RowsStill, OrdersStill DEF Deliver, Calm, IInv, World
  <1>5. CASE h' = h
    BY <1>4, <1>5, CalmSame
  <1>6. CASE h' = [h EXCEPT ![Pipeline] = <<Update(u)>>]
    <2>1. PICK g : g = Update(u)
      OBVIOUS
    <2>3. /\ g \in FrameType /\ g.pc = "update" /\ g.id = u.id /\ g.t = orders[u.id].t
          /\ g.st \in DeadStatuses \/ g.got > 0
      BY <1>1, <2>1, UpdateFrame DEF IInv
    <2>5. FrameOK(Pipeline, g)'
      BY <1>1, <1>4, <2>3, WorldGoes, UpdateOK DEF IInv, Deliver
    <2> QED BY <1>4, <1>6, <2>1, <2>5, ProcFacts, Taken
  <1> QED BY <1>5, <1>6 DEF Deliver

LEMMA ReconcileBeginsStep ==
    ASSUME IInv, ReconcileBegins
    PROVE  IInv'
  <1>1. PICK n : n = [i \in OrderIds |-> IF i \in DOMAIN orders
                                         THEN [st |-> orders[i].st, got |-> orders[i].got]
                                         ELSE Unknown]
    OBVIOUS
  <1>2. \A id \in OrderIds : n[id] \in KnownType
            /\ (n[id].st \in {"PARTIAL", "COMPLETE"} => n[id].got > 0)
    <2> SUFFICES ASSUME NEW id \in OrderIds
                 PROVE  n[id] \in KnownType
                        /\ (n[id].st \in {"PARTIAL", "COMPLETE"} => n[id].got > 0)
      OBVIOUS
    <2>1. CASE id \in DOMAIN orders
      <3>1. orders[id] \in OrderType /\ orders[id].left + orders[id].got = setup.qty
            /\ (orders[id].st = "COMPLETE" => orders[id].left = 0)
        BY <2>1 DEF IInv, World, OrdersInv
      <3>2. setup.qty \in 1 .. 2
        BY EntryAssumption DEF IInv, World, OrdersInv, Setup
      <3>3. n[id] = [st |-> orders[id].st, got |-> orders[id].got]
        BY <1>1, <2>1
      <3>4. n[id] \in KnownType
        <4>1. orders[id].st \in {"", "PARTIAL"} \cup Alive \cup DeadStatuses /\ orders[id].got \in 0 .. 2
          BY <3>1 DEF OrderType
        <4> QED BY <3>3, <4>1, KnownRecord
      <3>5. orders[id].st # "PARTIAL"
        BY <3>1 DEF OrderType, Alive, DeadStatuses
      <3>6. n[id].st = orders[id].st /\ n[id].got = orders[id].got
        BY <3>3
      <3>7. orders[id].st = "COMPLETE" => orders[id].got > 0
        BY <3>1, <3>2 DEF OrderType
      <3> QED BY <3>4, <3>5, <3>6, <3>7
    <2>2. CASE id \notin DOMAIN orders
      <3>1. PICK k : k = [st |-> "", got |-> 0]
        OBVIOUS
      <3>2. n[id] = k
        BY <1>1, <2>2, <3>1 DEF Unknown
      <3>3. "" \in {"", "PARTIAL"} \cup Alive \cup DeadStatuses /\ 0 \in 0 .. 2
        OBVIOUS
      <3>4. k \in KnownType
        BY <3>1, <3>3, KnownRecord
      <3>5. k.st = "" /\ "" # "PARTIAL" /\ "" # "COMPLETE"
        BY <3>1
      <3> QED BY <3>2, <3>4, <3>5
    <2> QED BY <2>1, <2>2
  <1>3. mem' = [mem EXCEPT !.known = n]
    BY <1>1 DEF ReconcileBegins
  <1>4. n \in [OrderIds -> KnownType]
    BY <1>1, <1>2
  <1>5. mem' \in MemType /\ mem'.active = mem.active /\ mem'.closed = mem.closed
        /\ mem'.known = n /\ mem'.fallbacks = mem.fallbacks /\ mem'.up = mem.up
    BY <1>3, <1>4 DEF IInv, World, MemInv, MemType
  <1>6. MemGoes
    BY <1>2, <1>5 DEF MemGoes, IInv, World, MemInv, RowsInv
  <1>7. Calm
    BY <1>6, RowsStill, OrdersStill, NewsStill DEF ReconcileBegins, broker, db, Calm, IInv, World
  <1>8. PICK g : g = Frame("positions", NoTrade)
    OBVIOUS
  <1>9. g \in FrameType /\ g.pc = "positions" /\ g.t = NoTrade
    <2>1. "positions" \in Steps /\ NoTrade \in 0 .. MaxTrades + 1
      BY EntryAssumption DEF Steps, NoTrade
    <2> QED BY <1>8, <2>1, NewFrame
  <1>10. FrameOK(Pipeline, g)'
    BY <1>9 DEF FrameOK, Begins, Scans, AboutOrder, Replacing, Signalled
  <1> QED BY <1>7, <1>8, <1>10, ProcFacts, Taken DEF ReconcileBegins

LEMMA TickStep ==
    ASSUME IInv, Tick
    PROVE  IInv'
  <1>1. Calm
    BY StillCalm DEF Tick, broker, db, IInv, World, RowsInv
  <1>2. PICK w : w = {mem.active, mem.closed} \ {NoTrade}
    OBVIOUS
  <1>3. w \subseteq 1 .. MaxTrades + 1
    <2>1. setup.trades \in 1 .. MaxTrades
      BY EntryAssumption DEF IInv, World, OrdersInv, Setup
    <2>2. Len(row) \in Nat /\ Len(row) <= setup.trades + 1
      BY DEF IInv, World, RowsInv
    <2>3. mem.active \in 0 .. Len(row) /\ mem.closed \in 0 .. Len(row)
      BY DEF IInv, World, MemInv
    <2> QED BY <1>2, <2>1, <2>2, <2>3, EntryAssumption DEF NoTrade
  <1>4. PICK n : n = pos
    OBVIOUS
  <1>5. n \in [Trades -> 0 .. 4]
    BY <1>4 DEF IInv, World, OrdersInv
  <1>6. PICK e : e = Frame("tick", NoTrade)
    OBVIOUS
  <1>7. PICK g : g = [e EXCEPT !.todo = w, !.net = n]
    OBVIOUS
  <1>8. e \in FrameType /\ e.pc = "tick" /\ e.t = NoTrade
    <2>1. "tick" \in Steps /\ NoTrade \in 0 .. MaxTrades + 1
      BY EntryAssumption DEF Steps, NoTrade
    <2> QED BY <1>6, <2>1, NewFrame
  <1>9. g \in FrameType /\ g.pc = "tick" /\ g.t = NoTrade
    BY <1>3, <1>5, <1>7, <1>8 DEF FrameType
  <1>10. FrameOK(Pipeline, g)'
    BY <1>9 DEF FrameOK, Begins, Scans, AboutOrder, Replacing, Signalled
  <1>11. h' = [h EXCEPT ![Pipeline] = <<g>>]
    BY <1>2, <1>4, <1>6, <1>7 DEF Tick
  <1> QED BY <1>1, <1>10, <1>11, ProcFacts, Taken

LEMMA FallbackFiresStep ==
    ASSUME IInv, NEW id \in mem.fallbacks, FallbackFires(id)
    PROVE  IInv'
  <1>1. PICK t : t = orders[id].t
    OBVIOUS
  <1>2. PICK p : p = <<"timer", t>>
    OBVIOUS
  <1>3. setup.fallback /\ id \in DOMAIN orders /\ Sole(t, id)
    BY <1>1 DEF IInv, World, MemInv
  <1>4. orders[id] \in OrderType /\ OnTrade(t)
    BY <1>1, <1>3 DEF IInv, World, OrdersInv
  <1>5. t \in Trades /\ t \in 0 .. MaxTrades + 1 /\ id \in 0 .. MaxOrders
    <2>1. t \in 1 .. MaxTrades
      BY <1>1, <1>4 DEF OrderType, Trades
    <2>2. id \in 1 .. Len(orders) /\ Len(orders) \in Nat /\ Len(orders) <= MaxOrders
      BY <1>3 DEF IInv, World, OrdersInv
    <2> QED BY <2>1, <2>2, EntryAssumption DEF Trades
  <1>6. PICK b : b = mem.fallbacks \ {id}
    OBVIOUS
  <1>7. mem' = [mem EXCEPT !.fallbacks = b] /\ mem'.fallbacks = b
    BY <1>6 DEF FallbackFires, IInv, World, MemInv, MemType
  <1>8. MemGoes
    <2>1. mem \in MemType /\ b \subseteq mem.fallbacks
      BY <1>6 DEF IInv, World, MemInv
    <2>2. mem' \in MemType /\ mem'.active = mem.active /\ mem'.closed = mem.closed
          /\ mem'.known = mem.known /\ mem'.up = mem.up
      BY <1>7, <2>1 DEF MemType
    <2> QED BY <1>7, <2>1, <2>2 DEF MemGoes, IInv, World, MemInv, RowsInv
  <1>9. Calm
    BY <1>8, RowsStill, OrdersStill, NewsStill DEF FallbackFires, broker, db, Calm, IInv, World
  <1>10. CASE h' = h
    BY <1>9, <1>10, CalmSame
  <1>11. CASE h' = [h EXCEPT ![p] = <<[Frame("check", t) EXCEPT !.id = id, !.cmd = TRUE]>>]
    <2>1. PICK e : e = Frame("check", t)
      OBVIOUS
    <2>2. PICK g : g = [e EXCEPT !.id = id, !.cmd = TRUE]
      OBVIOUS
    <2>3. e \in FrameType /\ e.pc = "check" /\ e.t = t
      <3>1. "check" \in Steps
        BY DEF Steps
      <3> QED BY <1>5, <2>1, <3>1, NewFrame
    <2>4. g \in FrameType /\ g.pc = "check" /\ g.t = t /\ g.id = id
      BY <1>5, <2>2, <2>3 DEF FrameType
    <2>5. OnTrade(t)' /\ Sole(t, id)' /\ setup' = setup
      BY <1>3, <1>4 DEF FallbackFires, broker, db, OnTrade, Sole, OrderOf
    <2>6. FrameOK(p, g)'
      <3>1. g.pc \in Replacing /\ g.pc \notin Begins \cup Scans \cup Signalled
            /\ g.pc \notin {"place", "finalize", "update", "market"}
        BY <2>4 DEF Replacing, Begins, Scans, Signalled
      <3>2. OrderOf(t, id)'
        BY <2>5 DEF Sole
      <3> QED BY <1>2, <1>3, <1>6, <1>7, <2>4, <2>5, <3>1, <3>2 DEF FrameOK
    <2>7. p \in Procs
      BY <1>2, <1>5, ProcFacts
    <2> QED BY <1>9, <1>11, <2>1, <2>2, <2>6, <2>7, Taken
  <1> QED BY <1>1, <1>2, <1>10, <1>11 DEF FallbackFires

-----------------------------------------------------------------------------
(* Steps that write a row.                                                  *)
LEMMA WriterFrame ==
    ASSUME IInv, NEW p \in Procs, h[p] # <<>>, NEW f, f = Top(p), f.pc \notin Begins \cup Scans
    PROVE  /\ f \in FrameType /\ FrameOK(p, f) /\ OnTrade(f.t)
           /\ row[f.t] \in RowType /\ row[f.t].st \in RowStatuses /\ row[f.t].st # Adopting
  <1>1. f \in FrameType /\ FrameOK(p, f)
    BY TopFrame DEF IInv
  <1>2. OnTrade(f.t)
    BY <1>1 DEF FrameOK
  <1> QED BY <1>1, <1>2 DEF OnTrade, IInv, World, RowsInv

OnlyRows ==
    /\ UNCHANGED <<setup, faults, orders, pos, news, orphans, linked>>
    /\ kill' \in BOOLEAN
Rewrites(t, s) == row' = row \/ row' = [row EXCEPT ![t] = s]
Allowed(t, s) == \E ids : Rewritten(row[t], s, ids) /\ \A id \in ids : OrderOf(t, id)
LEMMA WriteCalm ==
    ASSUME IInv, NEW t, OnTrade(t), NEW s, Allowed(t, s), Rewrites(t, s),
           MemGoes, OnlyRows
    PROVE  Calm
  <1>1. RowsGo
    BY RowsStill, RowWritten DEF IInv, World, Rewrites, Allowed
  <1>2. OrdersGo
    BY OrdersStill DEF IInv, World, OnlyRows
  <1>3. NewsGo
    BY DEF NewsGo, OnlyRows, IInv, World, OrdersInv
  <1> QED BY <1>1, <1>2, <1>3 DEF Calm

LEMMA CloseStep ==
    ASSUME IInv, NEW p \in Procs, h[p] # <<>>, Close(p)
    PROVE  IInv'
  <1>1. PICK f : f = Top(p)
    OBVIOUS
  <1>2. f.pc = "close" /\ f.pc \notin Begins \cup Scans
    BY <1>1 DEF Close, At, Begins, Scans
  <1>3. /\ f \in FrameType /\ OnTrade(f.t)
        /\ row[f.t] \in RowType /\ row[f.t].st \in RowStatuses /\ row[f.t].st # Adopting
    BY <1>1, <1>2, WriterFrame
  <1>4. PICK s : s = Written(f.t, [st |-> "CLOSED"])
    OBVIOUS
  <1>5. Rewritten(row[f.t], s, {})
    BY <1>3, <1>4, WrittenStatus DEF Outcomes
  <1>6. Rewrites(f.t, s)
    BY <1>1, <1>4 DEF Close, Writes, Rewrites
  <1>7. MemGoes
    <2>1. mem \in MemType /\ mem.active \in 0 .. Len(row)
      BY DEF IInv, World, MemInv
    <2>2. Len(row) \in Nat /\ f.t \in 1 .. Len(row)
      BY <1>3 DEF OnTrade, IInv, World, RowsInv
    <2>3. PICK a : a = IF mem.active = f.t THEN NoTrade ELSE mem.active
      OBVIOUS
    <2>4. PICK b : b = mem.fallbacks \ FallbacksOf(f.t)
      OBVIOUS
    <2>5. PICK k : k = mem.booked \ {RiskKey(f.t)}
      OBVIOUS
    <2>6. a \in 0 .. Len(row) /\ a \in Nat /\ f.t \in 0 .. Len(row) /\ f.t \in Nat
      BY <2>1, <2>2, <2>3 DEF NoTrade
    <2>7. b \subseteq mem.fallbacks /\ k \subseteq mem.booked
      BY <2>4, <2>5
    <2>8. mem' = [mem EXCEPT !.active = a, !.fallbacks = b, !.closed = f.t, !.booked = k]
      BY <1>1, <2>1, <2>3, <2>4, <2>5 DEF Close, Cleared, MemType
    <2>9. mem' \in MemType /\ mem'.active = a /\ mem'.closed = f.t /\ mem'.up = mem.up
          /\ mem'.known = mem.known /\ mem'.fallbacks = b
      BY <2>1, <2>6, <2>7, <2>8 DEF MemType
    <2>10. \A t \in DOMAIN row : row[t].st = Adopting /\ mem'.up => a = t
      BY <1>3, <2>3, <2>9 DEF IInv, World, RowsInv
    <2> QED BY <2>6, <2>7, <2>9, <2>10 DEF MemGoes, IInv, World, MemInv
  <1>8. Calm
    <2>1. OnlyRows
      BY DEF OnlyRows, Close, broker, IInv, World, RowsInv
    <2>2. Allowed(f.t, s)
      BY <1>5 DEF Allowed
    <2> QED BY <1>3, <1>5, <1>6, <1>7, <2>1, <2>2, WriteCalm
  <1> QED BY <1>8, CalmReturns DEF Close

LEMMA DeadStep ==
    ASSUME IInv, NEW p \in Procs, h[p] # <<>>, Dead(p)
    PROVE  IInv'
  <1>1. PICK f : f = Top(p)
    OBVIOUS
  <1>2. f.pc = "dead" /\ f.pc \notin Begins \cup Scans
    BY <1>1 DEF Dead, At, Begins, Scans
  <1>3. /\ f \in FrameType /\ OnTrade(f.t)
        /\ row[f.t] \in RowType /\ row[f.t].st \in RowStatuses /\ row[f.t].st # Adopting
    BY <1>1, <1>2, WriterFrame
  <1>4. PICK st \in Outcomes : st = IF f.st = "REJECTED" THEN "ENTRY_FAILED" ELSE "ENTRY_CANCELLED"
    BY DEF Outcomes
  <1>5. PICK s : s = Written(f.t, [st |-> st])
    OBVIOUS
  <1>6. Rewritten(row[f.t], s, {})
    BY <1>3, <1>5, WrittenStatus
  <1>7. Rewrites(f.t, s)
    BY <1>1, <1>4, <1>5 DEF Dead, Writes, Rewrites
  <1>8. Calm
    <2>1. OnlyRows
      BY DEF OnlyRows, Dead, broker, IInv, World, RowsInv
    <2>2. MemGoes
      BY MemStill DEF Dead, IInv, World
    <2>3. Allowed(f.t, s)
      BY <1>6 DEF Allowed
    <2> QED BY <1>3, <1>6, <1>7, <2>1, <2>2, <2>3, WriteCalm
  <1> QED BY <1>8, CalmReturns DEF Dead

LEMMA FinalizeEntryFillStep ==
    ASSUME IInv, NEW p \in Procs, h[p] # <<>>, FinalizeEntryFill(p)
    PROVE  IInv'
  <1>1. PICK f : f = Top(p)
    OBVIOUS
  <1>2. f.pc = "finalize" /\ f.pc \notin Begins \cup Scans
    BY <1>1 DEF FinalizeEntryFill, At, Begins, Scans
  <1>3. /\ f \in FrameType /\ OnTrade(f.t) /\ FrameOK(p, f)
        /\ row[f.t] \in RowType /\ row[f.t].st \in RowStatuses /\ row[f.t].st # Adopting
    BY <1>1, <1>2, WriterFrame
  <1>4. PICK st \in Outcomes : st = IF f.flag THEN "ENTRY_OPEN" ELSE "ENTRY_FILLED"
    BY DEF Outcomes
  <1>5. PICK n \in 1 .. 4 : n = f.got
    <2>1. f.got \in 0 .. 4 /\ f.got > 0
      BY <1>2, <1>3 DEF FrameOK, FrameType
    <2> QED BY <2>1
  <1>6. PICK s : s = Written(f.t, [st |-> st, qty |-> n, fin |-> TRUE])
    OBVIOUS
  <1>7. Rewritten(row[f.t], s, {})
    BY <1>3, <1>6, WrittenFill
  <1>8. Rewrites(f.t, s)
    BY <1>1, <1>4, <1>5, <1>6 DEF FinalizeEntryFill, Writes, Rewrites
  <1>9. Calm
    <2>1. OnlyRows
      BY DEF OnlyRows, FinalizeEntryFill, broker, IInv, World, RowsInv
    <2>2. MemGoes
      BY MemStill DEF FinalizeEntryFill, IInv, World
    <2>3. Allowed(f.t, s)
      BY <1>7 DEF Allowed
    <2> QED BY <1>3, <1>7, <1>8, <2>1, <2>2, <2>3, WriteCalm
  <1>10. PICK g : g = [f EXCEPT !.pc = "protect", !.cmd = TRUE]
    OBVIOUS
  <1>11. g \in FrameType /\ g.pc = "protect" /\ g.t = f.t
    BY <1>3, <1>10 DEF FrameType, Steps
  <1>12. OnTrade(f.t)'
    BY <1>3, <1>9, CalmTrade DEF IInv
  <1>13. FrameOK(p, g)' /\ g.pc \notin Alone
    BY <1>11, <1>12 DEF FrameOK, Begins, Scans, AboutOrder, Replacing, Signalled, Alone
  <1>14. Goes(p, <<g>>)
    BY <1>1, <1>10 DEF FinalizeEntryFill
  <1> QED BY <1>9, <1>13, <1>14, CalmOne

LEMMA ProtectStep ==
    ASSUME IInv, NEW p \in Procs, h[p] # <<>>, Protect(p)
    PROVE  IInv'
  <1>1. PICK f : f = Top(p)
    OBVIOUS
  <1>2. f.pc = "protect" /\ f.pc \notin Begins \cup Scans
    BY <1>1 DEF Protect, At, Begins, Scans
  <1>3. /\ f \in FrameType /\ OnTrade(f.t)
        /\ row[f.t] \in RowType /\ row[f.t].st \in RowStatuses /\ row[f.t].st # Adopting
    BY <1>1, <1>2, WriterFrame
  <1>4. PICK s : s = Written(f.t, [st |-> "LIVE"])
    OBVIOUS
  <1>5. Rewritten(row[f.t], s, {})
    BY <1>3, <1>4, WrittenStatus DEF Outcomes
  <1>6. Rewrites(f.t, s)
    BY <1>1, <1>4 DEF Protect, Writes, Rewrites
  <1>7. Calm
    <2>1. OnlyRows
      BY DEF OnlyRows, Protect, broker, IInv, World, RowsInv
    <2>2. MemGoes
      BY MemStill DEF Protect, IInv, World
    <2>3. Allowed(f.t, s)
      BY <1>5 DEF Allowed
    <2> QED BY <1>3, <1>5, <1>6, <2>1, <2>2, <2>3, WriteCalm
  <1> QED BY <1>7, CalmReturns DEF Protect

LEMMA RecoverUnresolvedStep ==
    ASSUME IInv, NEW p \in Procs, h[p] # <<>>, RecoverUnresolved(p)
    PROVE  IInv'
  <1>1. PICK f : f = Top(p)
    OBVIOUS
  <1>2. f.pc = "unresolved" /\ f.pc \notin Begins \cup Scans
    BY <1>1 DEF RecoverUnresolved, At, Begins, Scans
  <1>3. /\ f \in FrameType /\ OnTrade(f.t)
        /\ row[f.t] \in RowType /\ row[f.t].st \in RowStatuses /\ row[f.t].st # Adopting
    BY <1>1, <1>2, WriterFrame
  <1>4. PICK s : s = Written(f.t, [st |-> "GUARD_FAILED"])
    OBVIOUS
  <1>5. Rewritten(row[f.t], s, {})
    BY <1>3, <1>4, WrittenStatus DEF Outcomes
  <1>6. Rewrites(f.t, s)
    BY <1>1, <1>4 DEF RecoverUnresolved, Writes, Rewrites
  <1>7. Calm
    <2>1. OnlyRows
      BY DEF OnlyRows, RecoverUnresolved, broker, IInv, World, RowsInv
    <2>2. MemGoes
      BY MemStill DEF RecoverUnresolved, IInv, World
    <2>3. Allowed(f.t, s)
      BY <1>5 DEF Allowed
    <2> QED BY <1>3, <1>5, <1>6, <2>1, <2>2, <2>3, WriteCalm
  <1> QED BY <1>7, CalmReturns DEF RecoverUnresolved

(* The row learns of its order.                                             *)
LEMMA OrderRowStep ==
    ASSUME IInv, NEW p \in Procs, h[p] # <<>>, EntryRow(p) \/ FallbackRow(p)
    PROVE  IInv'
  <1>1. PICK f : f = Top(p)
    OBVIOUS
  <1>2. f.pc \in {"entryRow", "marketRow"} /\ f.pc \notin Begins \cup Scans
    BY <1>1 DEF EntryRow, FallbackRow, At, Begins, Scans
  <1>3. /\ f \in FrameType /\ OnTrade(f.t) /\ FrameOK(p, f)
        /\ row[f.t] \in RowType /\ row[f.t].st \in RowStatuses /\ row[f.t].st # Adopting
    BY <1>1, <1>2, WriterFrame
  <1>4. OrderOf(f.t, f.id) /\ f.id \in 0 .. MaxOrders
    BY <1>2, <1>3 DEF FrameOK, FrameType, AboutOrder
  <1>5. PICK st \in Outcomes : row' = [row EXCEPT ![f.t] =
                                      Written(f.t, [oid |-> f.id, st |-> st, fin |-> FALSE])]
    BY <1>1 DEF EntryRow, FallbackRow, Writes, Outcomes
  <1>6. PICK s : s = Written(f.t, [oid |-> f.id, st |-> st, fin |-> FALSE])
    OBVIOUS
  <1>7. Rewrites(f.t, s)
    BY <1>5, <1>6 DEF Rewrites
  <1>8. Rewritten(row[f.t], s, {f.id})
    BY <1>3, <1>4, <1>6, WrittenOrder
  <1>9. Calm
    <2>1. OnlyRows
      BY DEF OnlyRows, EntryRow, FallbackRow, broker, IInv, World, RowsInv
    <2>2. MemGoes
      BY MemStill DEF EntryRow, FallbackRow, IInv, World
    <2>3. Allowed(f.t, s)
      BY <1>4, <1>8 DEF Allowed
    <2> QED BY <1>3, <1>7, <1>8, <2>1, <2>2, <2>3, WriteCalm
  <1>10. PICK g : g = [f EXCEPT !.pc = "link"]
    OBVIOUS
  <1>11. g \in FrameType /\ g.pc = "link" /\ g.t = f.t /\ g.id = f.id
    BY <1>3, <1>10 DEF FrameType, Steps
  <1>12. FrameOK(p, f)'
    BY <1>1, <1>9, TopKept
  <1>13. FrameOK(p, g)' /\ f.pc \in Alone
    BY <1>2, <1>11, <1>12 DEF FrameOK, Begins, Scans, AboutOrder, Replacing, Signalled, Alone
  <1>14. Goes(p, <<g>>)
    BY <1>1, <1>10 DEF EntryRow, FallbackRow, GoesTo, As
  <1> QED BY <1>1, <1>9, <1>13, <1>14, CalmOne

-----------------------------------------------------------------------------
(* Cancellations, and what the broker does of itself.                       *)

(* One order changes, and nothing of it that was bought or may be bought.   *)
LEMMA OrderChanged ==
    ASSUME OrdersInv, NEW id \in DOMAIN orders, NEW o \in OrderType, o.t = orders[id].t,
           o.left = orders[id].left, o.got = orders[id].got,
           o.st \in {orders[id].st} \cup DeadStatuses,
           orders[id].st \in DeadStatuses => o.st \in DeadStatuses,
           orders' = [orders EXCEPT ![id] = o], pos' = pos
    PROVE  OrdersGo
  <1>1. orders \in Seq(OrderType)
    BY DEF OrdersInv
  <1>2. orders' \in Seq(OrderType) /\ Len(orders') = Len(orders) /\ orders'[id] = o
        /\ \A b \in DOMAIN orders : b # id => orders'[b] = orders[b]
    BY <1>1
  <1>3. \A b \in DOMAIN orders : b = id \/ orders'[b] = orders[b]
    BY <1>2
  <1> QED BY <1>2, <1>3 DEF OrdersGo

(* A postback is sent.                                                      *)
Quiet ==
    /\ orphans' = orphans /\ linked' = linked /\ setup' = setup /\ kill' \in BOOLEAN
    /\ faults' = faults \/ (faults > 0 /\ faults' = faults - 1)
LEMMA NewsTold ==
    ASSUME OrdersInv, NEW id \in DOMAIN orders,
           NEW st \in {"PARTIAL", "COMPLETE"} \cup DeadStatuses, NEW n \in 0 .. 2,
           st \notin DeadStatuses => n > 0, news' = news \/ news' = Reports(id, st, n), Quiet
    PROVE  NewsGo
  <1>1. PICK u : u = [id |-> id, st |-> st, got |-> n]
    OBVIOUS
  <1>2. id \in Nat
    BY DEF OrdersInv
  <1>3. u \in PostType /\ u.id = id /\ u.st = st /\ u.got = n
    BY <1>1, <1>2 DEF PostType
  <1>4. news' \subseteq news \cup {u}
    BY <1>1 DEF Reports
  <1>5. setup.faults \in Nat
    BY EntryAssumption DEF OrdersInv, Setup
  <1>6. faults' \in 0 .. setup.faults
    BY <1>5 DEF OrdersInv, Quiet
  <1>7. \A x \in news' \cup orphans' : x = u \/ x \in news \cup orphans
    BY <1>4 DEF Quiet
  <1>8. \A x \in news' \cup orphans' :
            x \in PostType /\ x.id \in DOMAIN orders /\ (x.st \notin DeadStatuses => x.got > 0)
    BY <1>3, <1>7 DEF OrdersInv
  <1> QED BY <1>6, <1>8 DEF Quiet, NewsGo, OrdersInv

LEMMA CancelsCalm ==
    ASSUME World, NEW id \in DOMAIN orders, NEW answer, Cancels(id, answer),
           orphans' = orphans, linked' = linked, setup' = setup, kill' \in BOOLEAN
    PROVE  OrdersGo /\ NewsGo
  <1>1. PICK o : o = orders[id]
    OBVIOUS
  <1>2. o \in OrderType /\ OrdersInv
    BY <1>1 DEF World, OrdersInv
  <1>3. Quiet
    BY DEF Quiet, Cancels, NoFault, Fault
  <1>4. o.got \in 0 .. 2 /\ "CANCELLED" \in DeadStatuses
    BY <1>2 DEF OrderType, DeadStatuses
  <1>5. news' = news \/ news' = Reports(id, "CANCELLED", o.got)
    BY <1>1 DEF Cancels, broker
  <1>6. NewsGo
    BY <1>2, <1>3, <1>4, <1>5, NewsTold
  <1>7. /\ pos' = pos
        /\ \/ orders' = orders
           \/ orders' = [orders EXCEPT ![id].st = "CANCELLED"]
           \/ orders' = [orders EXCEPT ![id].ends = TRUE]
    BY DEF Cancels, broker
  <1>8. CASE orders' = orders
    BY <1>6, <1>7, <1>8, OrdersStill DEF World
  <1>9. CASE orders' = [orders EXCEPT ![id].st = "CANCELLED"]
    <2>1. PICK x : x = [o EXCEPT !.st = "CANCELLED"]
      OBVIOUS
    <2>2. x \in OrderType /\ x.t = o.t /\ x.left = o.left /\ x.got = o.got /\ x.st = "CANCELLED"
      BY <1>2, <1>4, <2>1 DEF OrderType
    <2>3. orders' = [orders EXCEPT ![id] = x]
      BY <1>1, <1>9, <2>1
    <2> QED BY <1>1, <1>2, <1>4, <1>6, <1>7, <2>2, <2>3, OrderChanged
  <1>10. CASE orders' = [orders EXCEPT ![id].ends = TRUE]
    <2>1. PICK x : x = [o EXCEPT !.ends = TRUE]
      OBVIOUS
    <2>2. x \in OrderType /\ x.t = o.t /\ x.left = o.left /\ x.got = o.got /\ x.st = o.st
      BY <1>2, <2>1 DEF OrderType
    <2>3. orders' = [orders EXCEPT ![id] = x]
      BY <1>1, <1>10, <2>1
    <2> QED BY <1>1, <1>2, <1>6, <1>7, <2>2, <2>3, OrderChanged
  <1> QED BY <1>7, <1>8, <1>9, <1>10

(* An order is expected to be cancelled.                                    *)
LEMMA ExpectedMem ==
    ASSUME World, NEW id \in DOMAIN orders, NEW b \in SUBSET mem.fallbacks,
           \/ mem' = [mem EXCEPT !.expected = @ \cup {id}, !.fallbacks = b]
           \/ mem' = [mem EXCEPT !.expected = @ \cup {id}]
    PROVE  MemGoes
  <1>1. mem \in MemType
    BY DEF World, MemInv
  <1>2. PICK e : e = mem.expected \cup {id}
    OBVIOUS
  <1>3. e \in SUBSET Nat
    BY <1>1, <1>2 DEF MemType, World, OrdersInv
  <1>4. CASE mem' = [mem EXCEPT !.expected = @ \cup {id}, !.fallbacks = b]
    BY <1>2, <1>3, <1>4, MemLess
  <1>5. CASE mem' = [mem EXCEPT !.expected = @ \cup {id}]
    <2>1. mem' = [mem EXCEPT !.expected = e, !.fallbacks = mem.fallbacks]
      BY <1>1, <1>2, <1>5 DEF MemType
    <2> QED BY <1>3, <2>1, MemLess
  <1> QED BY <1>4, <1>5

LEMMA CancelEntryStep ==
    ASSUME IInv, NEW p \in Procs, h[p] # <<>>, CancelEntry(p)
    PROVE  IInv'
  <1>1. PICK f : f = Top(p)
    OBVIOUS
  <1>2. f \in FrameType /\ FrameOK(p, f) /\ f.pc = "cancel"
    BY <1>1, TopFrame DEF CancelEntry, At, IInv
  <1>3. f.id \in DOMAIN orders
    BY <1>2 DEF FrameOK, AboutOrder, OrderOf
  <1>4. CASE h' = [h EXCEPT ![p] = <<>>] /\ NoFault /\ UNCHANGED <<broker, mem>>
    <2>1. Calm
      BY <1>4, StillCalm DEF CancelEntry, NoFault, broker, db, IInv, World, RowsInv
    <2> QED BY <1>4, <2>1, NoFrames, ProperStack, CalmStack
  <1>5. ASSUME NEW answer \in {"taken", "thrown"}, Cancels(f.id, answer),
               mem' = [mem EXCEPT !.expected = @ \cup {f.id}, !.fallbacks = @ \ FallbacksOf(f.t)],
               Goes(p, <<[f EXCEPT !.pc = "cancelLate", !.st = answer]>>)
        PROVE  IInv'
    <2>1. MemGoes
      <3>1. PICK b : b = mem.fallbacks \ FallbacksOf(f.t)
        OBVIOUS
      <3>2. mem' = [mem EXCEPT !.expected = @ \cup {f.id}, !.fallbacks = b]
        BY <1>5, <3>1
      <3> QED BY <1>3, <3>1, <3>2, ExpectedMem DEF IInv
    <2>2. kill' \in BOOLEAN
      BY DEF CancelEntry, IInv, World, RowsInv
    <2>3. OrdersGo /\ NewsGo
      BY <1>3, <1>5, <2>2, CancelsCalm DEF CancelEntry, db, IInv
    <2>4. Calm
      BY <2>1, <2>3, RowsStill DEF Calm, CancelEntry, db, IInv, World
    <2>5. PICK g : g = [f EXCEPT !.pc = "cancelLate", !.st = answer]
      OBVIOUS
    <2>6. answer \in Answered
      BY <1>5 DEF Answered
    <2>7. g \in FrameType /\ g.pc = "cancelLate" /\ g.t = f.t /\ g.id = f.id
      BY <1>2, <2>5, <2>6 DEF FrameType, Steps
    <2>8. FrameOK(p, f)'
      BY <1>1, <2>4, TopKept
    <2>9. FrameOK(p, g)' /\ g.pc \notin Alone
      BY <1>2, <2>7, <2>8, PlainFrame DEF Plain, AboutOrder
    <2> QED BY <1>5, <2>4, <2>5, <2>9, CalmOne
  <1> QED BY <1>1, <1>4, <1>5 DEF CancelEntry

LEMMA FallbackCancelsStep ==
    ASSUME IInv, NEW p \in Procs, h[p] # <<>>, FallbackCancels(p)
    PROVE  IInv'
  <1>1. PICK f : f = Top(p)
    OBVIOUS
  <1>2. f \in FrameType /\ FrameOK(p, f) /\ f.pc = "giveUp"
    BY <1>1, TopFrame DEF FallbackCancels, At, IInv
  <1>3. f.id \in DOMAIN orders
    BY <1>2 DEF FrameOK, AboutOrder, Replacing, OrderOf
  <1>4. PICK answer : Cancels(f.id, answer)
    BY <1>1 DEF FallbackCancels
  <1>5. MemGoes
    <2>1. mem' = [mem EXCEPT !.expected = @ \cup {f.id}]
      BY <1>1 DEF FallbackCancels
    <2>2. mem.fallbacks \in SUBSET mem.fallbacks
      OBVIOUS
    <2> QED BY <1>3, <2>1, <2>2, ExpectedMem DEF IInv
  <1>6. kill' \in BOOLEAN
    BY DEF FallbackCancels, IInv, World, RowsInv
  <1>7. OrdersGo /\ NewsGo
    BY <1>3, <1>4, <1>6, CancelsCalm DEF FallbackCancels, db, IInv
  <1>8. Calm
    BY <1>5, <1>7, RowsStill DEF Calm, FallbackCancels, db, IInv, World
  <1>9. PICK g : g = [f EXCEPT !.pc = "late"]
    OBVIOUS
  <1>10. g \in FrameType /\ g.pc = "late" /\ g.t = f.t /\ g.id = f.id
    BY <1>2, <1>9 DEF FrameType, Steps
  <1>11. FrameOK(p, f)'
    BY <1>1, <1>8, TopKept
  <1>12. FrameOK(p, g)'
    BY <1>2, <1>10, <1>11, ReplacingFrame DEF Replacing
  <1>13. Top(p).pc \in Alone
    BY <1>1, <1>2 DEF Alone, Replacing
  <1>14. Goes(p, <<g>>)
    BY <1>1, <1>9 DEF FallbackCancels, GoesTo, As
  <1> QED BY <1>8, <1>12, <1>13, <1>14, CalmOne

LEMMA DiffOfFlatStep ==
    ASSUME IInv, NEW p \in Procs, h[p] # <<>>, NEW t \in DOMAIN row, DiffOfFlat(p, t)
    PROVE  IInv'
  <1>1. PICK e : e = InCommand(p, t)
    OBVIOUS
  <1>2. PICK g : g = [e EXCEPT !.pc = "close"]
    OBVIOUS
  <1>3. e \in FrameType /\ e.t = t
    BY <1>1, CommandFrame
  <1>4. g \in FrameType /\ g.pc = "close" /\ g.t = t
    BY <1>2, <1>3 DEF FrameType, Steps
  <1>5. OnTrade(t)
    BY DEF DiffOfFlat, Flat, FlatIsWrong, OnTrade, Adopting
  <1>6. Calm
    <2>1. CASE NoFault /\ UNCHANGED <<broker, mem>>
      BY <2>1, StillCalm DEF DiffOfFlat, NoFault, broker, db, IInv, World, RowsInv
    <2>2. CASE /\ row[t].oid # NoOrder
               /\ mem' = [mem EXCEPT !.expected = @ \cup {row[t].oid}]
               /\ \E answer \in {"taken", "thrown"} : Cancels(row[t].oid, answer)
      <3>1. PICK id : id = row[t].oid
        OBVIOUS
      <3>2. id \in DOMAIN orders
        BY <2>2, <3>1 DEF IInv, World, RowsInv, OrderOf
      <3>3. PICK answer : Cancels(id, answer)
        BY <2>2, <3>1
      <3>4. mem.fallbacks \in SUBSET mem.fallbacks
        OBVIOUS
      <3>5. MemGoes
        BY <2>2, <3>1, <3>2, <3>4, ExpectedMem DEF IInv
      <3>6. OrdersGo /\ NewsGo
        BY <3>2, <3>3, CancelsCalm DEF DiffOfFlat, db, IInv
      <3> QED BY <3>5, <3>6, RowsStill DEF Calm, DiffOfFlat, db, IInv, World
    <2> QED BY <2>1, <2>2 DEF DiffOfFlat
  <1>7. OnTrade(t)'
    BY <1>5, <1>6, CalmTrade DEF IInv
  <1>8. FrameOK(p, g)' /\ g.pc \notin Alone
    BY <1>4, <1>7 DEF FrameOK, Begins, Scans, AboutOrder, Replacing, Signalled, Alone
  <1>9. DiffGoes(p, t, <<g>>) /\ Top(p).pc \in {"diff", "tick"}
    BY <1>1, <1>2 DEF DiffOfFlat, Diffs, At
  <1> QED BY <1>6, <1>8, <1>9, OneFrame, DiffGoesOn

LEMMA DiesStep ==
    ASSUME IInv, NEW id \in DOMAIN orders, NEW st \in DeadStatuses, Dies(id, st)
    PROVE  IInv'
  <1>1. PICK o : o = orders[id]
    OBVIOUS
  <1>2. o \in OrderType /\ OrdersInv
    BY <1>1 DEF IInv, World, OrdersInv
  <1> o.got \in 0 .. 2
    BY <1>2 DEF OrderType
  <1>3. Quiet
    BY DEF Quiet, Dies, db, NoFault, Fault, IInv, World, RowsInv
  <1>4. NewsGo
    BY <1>1, <1>2, <1>3, NewsTold DEF Dies
  <1>5. PICK x : x = [o EXCEPT !.st = st]
    OBVIOUS
  <1>6. x \in OrderType /\ x.t = o.t /\ x.left = o.left /\ x.got = o.got /\ x.st = st
    BY <1>2, <1>5 DEF OrderType
  <1>7. orders' = [orders EXCEPT ![id] = x] /\ pos' = pos
    BY <1>1, <1>5 DEF Dies
  <1>8. OrdersGo
    BY <1>1, <1>2, <1>6, <1>7, OrderChanged
  <1>9. Calm
    BY <1>4, <1>8, RowsStill, MemStill DEF Calm, Dies, db, IInv, World
  <1> QED BY <1>9, CalmSame DEF Dies

LEMMA IsLostStep ==
    ASSUME IInv, NEW u \in news, IsLost(u)
    PROVE  IInv'
  <1>1. Calm
    BY StillCalm DEF IsLost, Fault, db, IInv, World, RowsInv
  <1> QED BY <1>1, CalmSame DEF IsLost

-----------------------------------------------------------------------------
(* The process.                                                             *)
LEMMA WindowPassesStep ==
    ASSUME IInv, WindowPasses
    PROVE  IInv'
  <1>1. mem \in MemType /\ NoTrade \in Nat
    BY DEF IInv, World, MemInv, NoTrade
  <1>2. mem' = [mem EXCEPT !.closed = NoTrade]
    BY DEF WindowPasses
  <1>3. mem' \in MemType /\ mem'.active = mem.active /\ mem'.closed = NoTrade
        /\ mem'.known = mem.known /\ mem'.fallbacks = mem.fallbacks /\ mem'.up = mem.up
    BY <1>1, <1>2 DEF MemType
  <1>4. NoTrade \in 0 .. Len(row)
    BY DEF NoTrade, IInv, World, RowsInv
  <1>5. MemGoes
    BY <1>3, <1>4 DEF MemGoes, IInv, World, MemInv, RowsInv
  <1>6. Calm
    BY <1>5, RowsStill, OrdersStill, NewsStill DEF WindowPasses, broker, db, Calm, IInv, World
  <1> QED BY <1>6, CalmSame DEF WindowPasses

LEMMA CrashStep ==
    ASSUME IInv, Crash
    PROVE  IInv'
  <1>1. PICK k : k = mem.booked
    OBVIOUS
  <1>2. PICK n : n = [i \in OrderIds |-> Unknown]
    OBVIOUS
  <1>3. Unknown \in KnownType /\ Unknown.st = ""
    <2>1. "" \in {"", "PARTIAL"} \cup Alive \cup DeadStatuses /\ 0 \in 0 .. 2
      OBVIOUS
    <2> QED BY <2>1, KnownRecord DEF Unknown
  <1>4. n \in [OrderIds -> KnownType] /\ \A id \in OrderIds : n[id].st = ""
    BY <1>2, <1>3
  <1>5. mem' = [up |-> FALSE, active |-> NoTrade, closed |-> NoTrade, booked |-> k, expected |-> {},
                seen |-> {}, known |-> n, fallbacks |-> {}]
    BY <1>1, <1>2 DEF Crash, Forgotten
  <1>6. NoTrade \in Nat /\ NoTrade \in 0 .. Len(row)
    BY DEF NoTrade, IInv, World, RowsInv
  <1>7. k \in SUBSET ({"instrument", "trade", "unknown"} \X Nat)
    BY <1>1 DEF IInv, World, MemInv, MemType
  <1>8. mem' \in MemType /\ mem'.active = NoTrade /\ mem'.closed = NoTrade
        /\ mem'.known = n /\ mem'.fallbacks = {} /\ mem'.up = FALSE
    BY <1>4, <1>5, <1>6, <1>7 DEF MemType
  <1>9. MemGoes
    BY <1>4, <1>6, <1>8 DEF MemGoes
  <1>10. Calm
    BY <1>9, RowsStill, OrdersStill, NewsStill DEF Crash, Fault, db, Calm, IInv, World
  <1>11. \A p : StackOK(p, <<>>)'
    BY NoFrames, ProperStack
  <1>12. FramesInv'
    <2>1. h' \in [Procs -> Seq(FrameType)] /\ \A p \in Procs : h'[p] = <<>>
      BY DEF Crash
    <2>2. \A p \in Procs : \A s : s = h'[p] => StackOK(p, s)'
      BY <1>11, <2>1
    <2> QED BY <2>1, <2>2 DEF FramesInv
  <1> QED BY <1>10, <1>12, WorldGoes DEF IInv

(* There is a latest one of some trades.                                    *)
LEMMA LatestOf ==
    ASSUME NEW n \in Nat, NEW S \in SUBSET (1 .. n), S # {}
    PROVE  \E t \in S : \A u \in S : u <= t
  <1>1. PICK D : D = {n - t : t \in S}
    OBVIOUS
  <1>2. D \subseteq Nat /\ D # {}
    <2>1. \A t \in S : t \in 1 .. n
      OBVIOUS
    <2>2. \A t \in 1 .. n : n - t \in Nat
      OBVIOUS
    <2>3. \A t \in S : n - t \in Nat
      BY <2>1, <2>2
    <2> QED BY <1>1, <2>3
  <1>3. PICK R : R = OpToRel(<, Nat)
    OBVIOUS
  <1>4. PICK x \in D : \A y \in D : <<y, x>> \notin R
    BY <1>2, <1>3, NatLessThanWellFounded, WFMin
  <1>5. \A y \in D : ~(y < x)
    BY <1>2, <1>3, <1>4 DEF OpToRel
  <1>6. PICK t \in S : x = n - t
    BY <1>1
  <1>7. \A u \in S : n - u \in D
    BY <1>1
  <1> QED BY <1>5, <1>6, <1>7

(* The latest active trade is the adopted one, if there is one: all others  *)
(* are over.                                                                *)
LEMMA RestartStep ==
    ASSUME IInv, Restart
    PROVE  IInv'
  <1>1. PICK a : a = IF Actives = {} THEN NoTrade
                     ELSE CHOOSE t \in Actives : \A u \in Actives : u <= t
    OBVIOUS
  <1>2. PICK k : k = mem.booked \cup {RiskKey(t) : t \in Actives}
    OBVIOUS
  <1>3. mem' = [mem EXCEPT !.up = TRUE, !.booked = k, !.active = a]
    BY <1>1, <1>2 DEF Restart
  <1>4. Len(row) \in Nat /\ DOMAIN row = 1 .. Len(row) /\ Actives \subseteq DOMAIN row
    BY DEF IInv, World, RowsInv, Actives
  <1>5. a \in 0 .. Len(row) /\ (Actives # {} => a \in Actives)
    <2>1. CASE Actives = {}
      BY <1>1, <1>4, <2>1 DEF NoTrade
    <2>2. CASE Actives # {}
      <3>1. \E t \in Actives : \A u \in Actives : u <= t
        BY <1>4, <2>2, LatestOf
      <3>2. a \in Actives
        BY <1>1, <2>2, <3>1
      <3> QED BY <1>4, <3>2
    <2> QED BY <2>1, <2>2
  <1>6. k \in SUBSET ({"instrument", "trade", "unknown"} \X Nat)
    BY <1>2, <1>4 DEF RiskKey, IInv, World, MemInv, MemType
  <1>7. mem \in MemType /\ a \in Nat
    BY <1>4, <1>5 DEF IInv, World, MemInv
  <1>8. mem' \in MemType /\ mem'.active = a /\ mem'.closed = mem.closed
        /\ mem'.known = mem.known /\ mem'.fallbacks = mem.fallbacks
    BY <1>3, <1>6, <1>7 DEF MemType
  <1>9. \A t \in DOMAIN row : row[t].st = Adopting => a = t
    <2> SUFFICES ASSUME NEW t \in DOMAIN row, row[t].st = Adopting
                 PROVE  a = t
      OBVIOUS
    <2>1. t \in Actives
      BY DEF Actives, Adopting
    <2>2. a \in Actives /\ a \in DOMAIN row
      BY <1>4, <1>5, <2>1
    <2>3. ~Terminal(row[a].st)
      BY <2>2 DEF Actives, EntryStatuses, Terminal, TERMINAL_TRADE_STATUSES
    <2> QED BY <2>2, <2>3 DEF IInv, World, RowsInv
  <1>10. MemGoes
    BY <1>5, <1>8, <1>9 DEF MemGoes, IInv, World, MemInv
  <1>11. Calm
    BY <1>10, RowsStill, OrdersStill, NewsStill DEF Restart, broker, db, Calm, IInv, World
  <1> QED BY <1>11, CalmSame DEF Restart

-----------------------------------------------------------------------------
(* A unit trades.                                                           *)

(* Frames stay as they should be as long as what they rely on does.         *)
LEMMA FrameStays ==
    ASSUME NEW p, NEW f, FrameOK(p, f), row' = row, setup' = setup,
           mem'.fallbacks \subseteq mem.fallbacks, DOMAIN orders' = DOMAIN orders,
           \A id \in DOMAIN orders : orders'[id].t = orders[id].t,
           \A id : Unfilled(id) => Unfilled(id)'
    PROVE  FrameOK(p, f)'
  <1>1. \A t, id : OrderOf(t, id)' <=> OrderOf(t, id)
    BY DEF OrderOf
  <1>2. \A t, id : Sole(t, id) => Sole(t, id)'
    BY <1>1 DEF Sole
  <1>3. \A t : OnTrade(t)' <=> OnTrade(t)
    BY DEF OnTrade
  <1> QED BY <1>1, <1>2, <1>3 DEF FrameOK, Readable, NoneAdopted

LEMMA FramesStay ==
    ASSUME FramesInv, h' = h, \A q \in Procs : \A f : FrameOK(q, f) => FrameOK(q, f)'
    PROVE  FramesInv'
  <1>1. \A q \in Procs : \A s : s = h'[q] => StackOK(q, s)'
    BY StackKept DEF FramesInv
  <1> QED BY <1>1 DEF FramesInv

LEMMA FillsStep ==
    ASSUME IInv, NEW id \in DOMAIN orders, Fills(id)
    PROVE  IInv'
  <1>1. PICK o : o = orders[id]
    OBVIOUS
  <1>2. o \in OrderType /\ o.st = "OPEN" /\ o.left > 0 /\ o.left + o.got = setup.qty
        /\ OnTrade(o.t) /\ orders \in Seq(OrderType) /\ id \in Nat /\ id # NoOrder
    BY <1>1 DEF Fills, Working, IInv, World, OrdersInv, NoOrder
  <1>3. setup.qty \in 1 .. 2 /\ setup' = setup /\ row' = row /\ mem' = mem /\ h' = h
    BY EntryAssumption DEF Fills, db, IInv, World, OrdersInv, Setup
  <1>4. PICK l \in 0 .. 1 : l = o.left - 1
    BY <1>2 DEF OrderType
  <1>5. PICK g \in 1 .. 2 : g = o.got + 1
    BY <1>2, <1>3 DEF OrderType
  <1>6. PICK st \in Alive : st = (IF o.left = 1 THEN "COMPLETE" ELSE "OPEN")
    BY DEF Alive
  <1>7. PICK x : x = [o EXCEPT !.left = l, !.got = g, !.st = st]
    OBVIOUS
  <1>8. x \in OrderType /\ x.t = o.t /\ x.left = l /\ x.got = g /\ x.st = st
    <2>1. l \in 0 .. 2 /\ g \in 0 .. 2 /\ st \in Alive \cup DeadStatuses
      OBVIOUS
    <2> QED BY <1>2, <1>7, <2>1 DEF OrderType
  <1>9. orders' = [orders EXCEPT ![id] = x]
    BY <1>1, <1>4, <1>5, <1>6, <1>7 DEF Fills
  <1>10. orders' \in Seq(OrderType) /\ Len(orders') = Len(orders) /\ orders'[id] = x
         /\ \A b \in DOMAIN orders : b # id => orders'[b] = orders[b]
    BY <1>2, <1>8, <1>9
  <1>11. DOMAIN orders' = DOMAIN orders /\ DOMAIN orders = 1 .. Len(orders)
    BY <1>2, <1>10
  <1>12. \A b \in DOMAIN orders : orders'[b].t = orders[b].t
    BY <1>1, <1>8, <1>10
  <1>13. \A b : Unfilled(b) => Unfilled(b)'
    BY <1>1, <1>2, <1>10, <1>11 DEF Unfilled, DeadStatuses
  <1>14. \A q, f : FrameOK(q, f) => FrameOK(q, f)'
    BY <1>3, <1>11, <1>12, <1>13, FrameStays
  <1>15. \A t, b : OrderOf(t, b)' <=> OrderOf(t, b)
    BY <1>11, <1>12 DEF OrderOf
  <1>16. \A t : OnTrade(t)' <=> OnTrade(t)
    BY <1>3 DEF OnTrade
  <1>17. pos \in [Trades -> 0 .. 4] /\ pos' = [pos EXCEPT ![o.t] = @ + 1] /\ o.t \in Trades
    BY <1>1, <1>2 DEF Fills, IInv, World, OrdersInv, OrderType
  <1>18. ASSUME NEW t \in Trades, NEW a \in 0 .. Len(orders), NEW b \in 0 .. Len(orders),
                Tally(t, a, b)
         PROVE  Tally(t, a, b)' /\ pos'[t] \in 0 .. 4
    <2>1. \A c \in 0 .. Len(orders) : Got(c) \in 0 .. 2
      <3> SUFFICES ASSUME NEW c \in 0 .. Len(orders)
                   PROVE  Got(c) \in 0 .. 2
        OBVIOUS
      <3>1. CASE c = NoOrder
        BY <3>1 DEF Got
      <3>2. CASE c # NoOrder
        <4>1. c \in DOMAIN orders
          BY <1>11, <3>2 DEF NoOrder
        <4>2. orders[c] \in OrderType
          BY <1>2, <4>1
        <4> QED BY <3>2, <4>2 DEF Got, OrderType
      <3> QED BY <3>1, <3>2
    <2>2. \A c \in 0 .. Len(orders) : c # id => Got(c)' = Got(c)
      BY <1>10, <1>11 DEF Got, NoOrder
    <2>3. Got(id)' = g /\ Got(id) = o.got
      BY <1>1, <1>2, <1>8, <1>10 DEF Got
    <2>4. \A c \in 0 .. Len(orders) : Got(c)' \in 0 .. 2
      BY <2>1, <2>2, <2>3
    <2>5. pos'[t] = Got(a)' + Got(b)'
      <3>1. CASE t = o.t
        <4>1. id \in {a, b} /\ (id = a => b # id)
          BY <1>1, <1>2, <1>18, <3>1 DEF Tally
        <4>2. pos[t] = Got(a) + Got(b) /\ pos'[t] = pos[t] + 1
          BY <1>17, <1>18, <3>1 DEF Tally
        <4>3. CASE id = a
          BY <1>2, <1>5, <2>1, <2>2, <2>3, <4>1, <4>2, <4>3 DEF OrderType
        <4>4. CASE id # a
          BY <1>2, <1>5, <2>1, <2>2, <2>3, <4>1, <4>2, <4>4 DEF OrderType
        <4> QED BY <4>3, <4>4
      <3>2. CASE t # o.t
        <4>1. id # a /\ id # b
          BY <1>1, <1>2, <1>18, <3>2 DEF Tally, OrderOf
        <4>2. pos'[t] = pos[t] /\ pos[t] = Got(a) + Got(b)
          BY <1>17, <1>18, <3>2 DEF Tally
        <4> QED BY <2>2, <4>1, <4>2
      <3> QED BY <3>1, <3>2
    <2>6. pos'[t] \in 0 .. 4
      BY <2>4, <2>5
    <2>7. Readable' <=> Readable
      BY <1>3 DEF Readable
    <2> QED BY <1>11, <1>12, <1>13, <1>15, <1>18, <2>5, <2>6, <2>7 DEF Tally
  <1>19. TallyInv' /\ \A t \in Trades : pos'[t] \in 0 .. 4
    BY <1>10, <1>18 DEF IInv, World, TallyInv
  <1>20. NewsGo
    <2>1. Quiet
      BY DEF Quiet, Fills, db, IInv, World, RowsInv
    <2>2. PICK s : s = IF st = "OPEN" THEN "PARTIAL" ELSE st
      OBVIOUS
    <2>3. s \in {"PARTIAL", "COMPLETE"} \cup DeadStatuses /\ g \in 0 .. 2 /\ g > 0
      BY <2>2 DEF Alive
    <2>4. news' = Reports(id, s, g)
      BY <1>1, <1>5, <1>6, <2>2 DEF Fills
    <2> QED BY <2>1, <2>3, <2>4, NewsTold DEF IInv, World
  <1>21. OrdersInv'
    <2>1. pos' \in [Trades -> 0 .. 4]
      BY <1>17, <1>19
    <2>2. \A b \in DOMAIN orders :
              /\ orders'[b].left + orders'[b].got = setup.qty
              /\ orders'[b].st = "OPEN" => orders'[b].left > 0
              /\ orders'[b].st = "COMPLETE" => orders'[b].left = 0
              /\ OnTrade(orders'[b].t)
      <3> SUFFICES ASSUME NEW b \in DOMAIN orders
                   PROVE  /\ orders'[b].left + orders'[b].got = setup.qty
                          /\ orders'[b].st = "OPEN" => orders'[b].left > 0
                          /\ orders'[b].st = "COMPLETE" => orders'[b].left = 0
                          /\ OnTrade(orders'[b].t)
        OBVIOUS
      <3>1. CASE b = id
        BY <1>2, <1>4, <1>5, <1>6, <1>8, <1>10, <3>1 DEF OrderType
      <3>2. CASE b # id
        BY <1>10, <3>2 DEF IInv, World, OrdersInv
      <3> QED BY <3>1, <3>2
    <2>3. (\A b \in DOMAIN orders :
              /\ orders[b].left + orders[b].got = setup.qty
              /\ orders[b].st = "OPEN" => orders[b].left > 0
              /\ orders[b].st = "COMPLETE" => orders[b].left = 0
              /\ OnTrade(orders[b].t))'
      BY <1>3, <1>11, <1>16, <2>2
    <2> QED BY <1>3, <1>10, <1>11, <1>20, <2>1, <2>3 DEF OrdersInv, NewsGo, IInv, World
  <1>22. RowsInv' /\ MemInv'
    <2>1. \A t, b : Sole(t, b) => Sole(t, b)'
      BY <1>11, <1>12, <1>15 DEF Sole
    <2>2. RowsInv'
      BY <1>3, <1>15 DEF Fills, IInv, World, RowsInv
    <2>3. (\A b \in mem.fallbacks :
               setup.fallback /\ b \in DOMAIN orders /\ Sole(orders[b].t, b))'
      BY <1>3, <1>11, <1>12, <2>1 DEF IInv, World, MemInv
    <2> QED BY <1>3, <2>2, <2>3 DEF IInv, World, MemInv
  <1>23. FramesInv'
    BY <1>3, <1>14, FramesStay DEF IInv
  <1> QED BY <1>19, <1>21, <1>22, <1>23 DEF IInv, World

-----------------------------------------------------------------------------
(* Orders are placed.                                                       *)

(* Who places an order for a trade: the signal, when there is none; the     *)
(* timer, when there is one.                                                *)
Unordered(t) == \A id \in DOMAIN orders : orders[id].t # t
MayPlace(p, t) ==
    \/ p = Pipeline /\ Unordered(t)
    \/ p = <<"timer", t>> /\ \E a : Sole(t, a) /\ a \notin mem.fallbacks /\ (Readable => Unfilled(a))

LEMMA OrderPlaced ==
    ASSUME OrdersInv, NEW t \in Trades, Accepts(t)
    PROVE  /\ NextId = Len(orders) + 1 /\ NextId \in OrderIds /\ NextId \notin DOMAIN orders
           /\ NextId \in Nat \ {NoOrder} /\ NextId \in 0 .. MaxOrders
           /\ orders' \in Seq(OrderType) /\ Len(orders') = Len(orders) + 1 /\ Len(orders') <= MaxOrders
           /\ DOMAIN orders' = DOMAIN orders \cup {NextId}
           /\ \A id \in DOMAIN orders : orders'[id] = orders[id]
           /\ orders'[NextId] = [t |-> t, left |-> setup.qty, got |-> 0, st |-> "OPEN", ends |-> FALSE]
           /\ pos' = pos /\ news' = news
  <1>1. setup.qty \in 1 .. 2
    BY EntryAssumption DEF OrdersInv, Setup
  <1>2. PICK n : n = [t |-> t, left |-> setup.qty, got |-> 0, st |-> "OPEN", ends |-> FALSE]
    OBVIOUS
  <1>3. n \in OrderType
    <2>1. setup.qty \in 0 .. 2 /\ 0 \in 0 .. 2 /\ "OPEN" \in Alive \cup DeadStatuses
      BY <1>1 DEF Alive
    <2> QED BY <1>2, <2>1 DEF OrderType
  <1>4. orders \in Seq(OrderType) /\ orders' = Append(orders, n)
    BY <1>2 DEF OrdersInv, Accepts
  <1>5. Len(orders) \in Nat /\ DOMAIN orders = 1 .. Len(orders)
    BY <1>4
  <1>6. orders' \in Seq(OrderType) /\ Len(orders') = Len(orders) + 1
        /\ DOMAIN orders' = 1 .. Len(orders) + 1
        /\ orders'[Len(orders) + 1] = n /\ \A id \in 1 .. Len(orders) : orders'[id] = orders[id]
    BY <1>3, <1>4
  <1>7. NextId = Len(orders) + 1 /\ NextId \in 1 .. MaxOrders
    BY DEF Accepts, NextId, OrderIds
  <1>8. DOMAIN orders' = DOMAIN orders \cup {NextId}
    BY <1>5, <1>6, <1>7
  <1> QED BY <1>2, <1>5, <1>6, <1>7, <1>8, EntryAssumption DEF Accepts, OrderIds, NoOrder

LEMMA PlacedWorld ==
    ASSUME World, NEW p, NEW t \in Trades, OnTrade(t), MayPlace(p, t), Accepts(t),
           setup' = setup, UNCHANGED <<orphans, linked, row, kill>>,
           faults' = faults \/ (faults > 0 /\ faults' = faults - 1),
           \/ mem' = mem
           \/ Unordered(t) /\ setup.fallback
              /\ mem' = [mem EXCEPT !.fallbacks = @ \cup {NextId}]
    PROVE  World'
  <1>1. PICK n : n = NextId
    OBVIOUS
  <1>2. /\ n = Len(orders) + 1 /\ n \in OrderIds /\ n \notin DOMAIN orders
        /\ n \in Nat \ {NoOrder} /\ n \in 0 .. MaxOrders
        /\ orders' \in Seq(OrderType) /\ Len(orders') = Len(orders) + 1 /\ Len(orders') <= MaxOrders
        /\ DOMAIN orders' = DOMAIN orders \cup {n}
        /\ \A id \in DOMAIN orders : orders'[id] = orders[id]
        /\ orders'[n] = [t |-> t, left |-> setup.qty, got |-> 0, st |-> "OPEN", ends |-> FALSE]
        /\ pos' = pos /\ news' = news
    BY <1>1, OrderPlaced DEF World
  <1>3. orders'[n].t = t /\ orders'[n].left = setup.qty /\ orders'[n].got = 0 /\ orders'[n].st = "OPEN"
    BY <1>2
  <1>4. setup.qty \in 1 .. 2 /\ setup.faults \in Nat
    BY EntryAssumption DEF World, OrdersInv, Setup
  <1>5. \A u, id : OrderOf(u, id) => OrderOf(u, id)'
    BY <1>2 DEF OrderOf
  <1>6. \A u : OnTrade(u)' <=> OnTrade(u)
    BY DEF OnTrade
  <1>7. \A id : Unfilled(id) => Unfilled(id)'
    BY <1>2 DEF Unfilled
  <1>8. \A u, id : u # t /\ Sole(u, id) => Sole(u, id)'
    BY <1>2, <1>3, <1>5 DEF Sole
  <1>9. orders \in Seq(OrderType) /\ Len(orders) \in Nat /\ DOMAIN orders = 1 .. Len(orders)
    BY DEF World, OrdersInv
  <1>10. OrdersInv'
    <2>1. \A id \in DOMAIN orders' :
              /\ orders'[id].left + orders'[id].got = setup.qty
              /\ orders'[id].st = "OPEN" => orders'[id].left > 0
              /\ orders'[id].st = "COMPLETE" => orders'[id].left = 0
              /\ OnTrade(orders'[id].t)
      <3> SUFFICES ASSUME NEW id \in DOMAIN orders'
                   PROVE  /\ orders'[id].left + orders'[id].got = setup.qty
                          /\ orders'[id].st = "OPEN" => orders'[id].left > 0
                          /\ orders'[id].st = "COMPLETE" => orders'[id].left = 0
                          /\ OnTrade(orders'[id].t)
        OBVIOUS
      <3>1. CASE id = n
        BY <1>3, <1>4, <3>1
      <3>2. CASE id # n
        BY <1>2, <3>2 DEF World, OrdersInv
      <3> QED BY <3>1, <3>2
    <2>2. (\A id \in DOMAIN orders :
              /\ orders[id].left + orders[id].got = setup.qty
              /\ orders[id].st = "OPEN" => orders[id].left > 0
              /\ orders[id].st = "COMPLETE" => orders[id].left = 0
              /\ OnTrade(orders[id].t))'
      BY <1>6, <2>1
    <2>3. faults' \in 0 .. setup.faults
      BY <1>4 DEF World, OrdersInv
    <2> QED BY <1>2, <2>2, <2>3 DEF World, OrdersInv
  <1>11. TallyInv'
    <2>1. \A c : c = NoOrder \/ c \in DOMAIN orders => Got(c)' = Got(c)
      BY <1>2 DEF Got
    <2>2. Got(n)' = 0
      BY <1>2, <1>3 DEF Got
    <2>3. Readable' <=> Readable
      BY DEF Readable
    <2>4. \A u, a, b : u # t /\ Tally(u, a, b) => Tally(u, a, b)'
      <3> SUFFICES ASSUME NEW u, NEW a, NEW b, u # t, Tally(u, a, b)
                   PROVE  Tally(u, a, b)'
        OBVIOUS
      <3>1. Got(a)' = Got(a) /\ Got(b)' = Got(b)
        BY <2>1 DEF Tally, OrderOf
      <3>2. \A id \in DOMAIN orders' : orders'[id].t = u => id \in {a, b}
        BY <1>2, <1>3 DEF Tally
      <3> QED BY <1>2, <1>5, <1>7, <2>3, <3>1, <3>2 DEF Tally
    <2>5. 0 .. Len(orders) \subseteq 0 .. Len(orders') /\ n \in 0 .. Len(orders')
          /\ NoOrder \in 0 .. Len(orders')
      BY <1>2, <1>9 DEF NoOrder
    <2>6. PICK a, b \in 0 .. Len(orders) : Tally(t, a, b)
      BY DEF World, TallyInv
    <2>7. CASE Unordered(t)
      <3>1. a = NoOrder /\ b = NoOrder
        BY <2>6, <2>7 DEF Tally, Unordered, OrderOf
      <3>2. pos[t] = 0
        BY <2>6, <3>1 DEF Tally, Got
      <3>3. Got(NoOrder)' = 0
        BY DEF Got
      <3>4. pos'[t] = Got(n)' + Got(NoOrder)'
        BY <1>2, <2>2, <3>2, <3>3
      <3>5. OrderOf(t, n)'
        BY <1>2, <1>3 DEF OrderOf
      <3>6. \A id \in DOMAIN orders' : orders'[id].t = t => id \in {n, NoOrder}
        BY <1>2, <2>7 DEF Unordered
      <3>7. Tally(t, n, NoOrder)'
        BY <1>2, <3>4, <3>5, <3>6 DEF Tally
      <3> QED BY <2>4, <2>5, <3>7 DEF World, TallyInv
    <2>8. CASE ~Unordered(t)
      <3>1. PICK c : Sole(t, c) /\ (Readable => Unfilled(c))
        BY <2>8 DEF MayPlace
      <3>2. a = c /\ b = NoOrder
        <4>1. c \in {a, b}
          BY <2>6, <3>1 DEF Tally, Sole, OrderOf
        <4>2. a # NoOrder => a = c
          BY <2>6, <3>1 DEF Tally, Sole, OrderOf
        <4>3. b # NoOrder => b = c /\ a # b
          BY <2>6, <3>1 DEF Tally, Sole, OrderOf
        <4>4. c # NoOrder
          BY <1>9, <3>1 DEF Sole, OrderOf, NoOrder
        <4> QED BY <2>6, <4>1, <4>2, <4>3, <4>4 DEF Tally
      <3>3. OrderOf(t, c) /\ c # n
        BY <1>2, <3>1 DEF Sole, OrderOf
      <3>4. pos'[t] = Got(c)' + Got(n)'
        <4>1. Got(NoOrder) = 0 /\ pos[t] = Got(c) + Got(NoOrder)
          BY <2>6, <3>2 DEF Tally, Got
        <4>2. Got(c)' = Got(c)
          BY <2>1, <3>3 DEF OrderOf
        <4> QED BY <1>2, <2>2, <4>1, <4>2
      <3>5. OrderOf(t, n)'
        BY <1>2, <1>3 DEF OrderOf
      <3>6. \A id \in DOMAIN orders' : orders'[id].t = t => id \in {c, n}
        BY <1>2, <3>1 DEF Sole
      <3>7. c # NoOrder /\ c \in 0 .. Len(orders)
        BY <1>9, <3>3 DEF OrderOf, NoOrder
      <3>8. Tally(t, c, n)'
        BY <1>2, <1>5, <1>7, <2>3, <3>1, <3>3, <3>4, <3>5, <3>6, <3>7 DEF Tally
      <3> QED BY <2>4, <2>5, <3>7, <3>8 DEF World, TallyInv
    <2> QED BY <2>7, <2>8
  <1>12. mem \in MemType /\ mem' \in MemType /\ mem'.active = mem.active /\ mem'.closed = mem.closed
         /\ mem'.known = mem.known /\ mem'.up = mem.up
         /\ \/ mem'.fallbacks = mem.fallbacks
            \/ Unordered(t) /\ setup.fallback /\ mem'.fallbacks = mem.fallbacks \cup {n}
    <2>1. mem \in MemType
      BY DEF World, MemInv
    <2>2. CASE mem' = mem
      BY <2>1, <2>2
    <2>3. CASE Unordered(t) /\ setup.fallback /\ mem' = [mem EXCEPT !.fallbacks = @ \cup {NextId}]
      <3>1. PICK s : s = mem.fallbacks \cup {n}
        OBVIOUS
      <3>2. s \in SUBSET Nat
        BY <1>2, <2>1, <3>1 DEF MemType
      <3>3. mem' = [mem EXCEPT !.fallbacks = s]
        BY <1>1, <2>3, <3>1
      <3> QED BY <2>1, <2>3, <3>1, <3>2, <3>3 DEF MemType
    <2> QED BY <2>2, <2>3
  <1>13. RowsInv'
    BY <1>5, <1>12 DEF World, RowsInv
  <1>14. MemInv'
    <2>1. \A id \in mem.fallbacks : id \in DOMAIN orders /\ setup.fallback /\ orders[id].t # t
          /\ Sole(orders[id].t, id)
      <3> SUFFICES ASSUME NEW id \in mem.fallbacks, orders[id].t = t
                   PROVE  FALSE
        BY DEF World, MemInv
      <3>1. id \in DOMAIN orders
        BY DEF World, MemInv
      <3>2. ~Unordered(t)
        BY <3>1 DEF Unordered
      <3>3. PICK c : Sole(t, c) /\ c \notin mem.fallbacks
        BY <3>2 DEF MayPlace
      <3> QED BY <3>1, <3>3 DEF Sole
    <2>2. \A u, id : id \in mem.fallbacks /\ u = orders[id].t =>
              id \in DOMAIN orders' /\ orders'[id].t = u /\ Sole(u, id)'
      BY <1>2, <1>8, <2>1
    <2>3. Unordered(t) => Sole(t, n)'
      BY <1>2, <1>3 DEF Sole, OrderOf, Unordered
    <2>4. \A u, id : id \in mem'.fallbacks /\ u = orders'[id].t =>
              setup.fallback /\ id \in DOMAIN orders' /\ Sole(u, id)'
      BY <1>2, <1>3, <1>12, <2>1, <2>2, <2>3
    <2>5. (\A id \in mem.fallbacks :
               setup.fallback /\ id \in DOMAIN orders /\ Sole(orders[id].t, id))'
      BY <2>4
    <2> QED BY <1>12, <2>5 DEF World, MemInv
  <1> QED BY <1>10, <1>11, <1>13, <1>14 DEF World

(* No frame of another process relies on there being no such order.         *)
LEMMA PlacedFrame ==
    ASSUME World, NEW p, NEW t \in Trades, MayPlace(p, t), Accepts(t), setup' = setup, row' = row,
           mem'.fallbacks \subseteq mem.fallbacks
           \/ (Unordered(t) /\ mem'.fallbacks \subseteq mem.fallbacks \cup {NextId}),
           NEW q, q # p, NEW f, FrameOK(q, f)
    PROVE  FrameOK(q, f)'
  <1>1. PICK n : n = NextId
    OBVIOUS
  <1>2. /\ n \notin DOMAIN orders /\ DOMAIN orders' = DOMAIN orders \cup {n}
        /\ \A id \in DOMAIN orders : orders'[id] = orders[id]
        /\ orders'[n] = [t |-> t, left |-> setup.qty, got |-> 0, st |-> "OPEN", ends |-> FALSE]
    BY <1>1, OrderPlaced DEF World
  <1>3. orders'[n].t = t
    BY <1>2
  <1>4. \A u, id : OrderOf(u, id) => OrderOf(u, id)'
    BY <1>2 DEF OrderOf
  <1>5. \A u : OnTrade(u)' <=> OnTrade(u)
    BY DEF OnTrade
  <1>6. \A id : Unfilled(id) => Unfilled(id)'
    BY <1>2 DEF Unfilled
  <1>7. \A u, id : u # t /\ Sole(u, id) => Sole(u, id)'
    BY <1>2, <1>3, <1>4 DEF Sole
  <1>8. f.pc = "place" => \A id \in DOMAIN orders' : orders'[id].t # f.t
    <2> SUFFICES ASSUME f.pc = "place"
                 PROVE  f.t # t /\ \A id \in DOMAIN orders : orders[id].t # f.t
      BY <1>2, <1>3
    <2>1. q = Pipeline /\ \A id \in DOMAIN orders : orders[id].t # f.t
      BY DEF FrameOK
    <2>2. \E a : Sole(t, a)
      BY <2>1 DEF MayPlace
    <2> QED BY <2>1, <2>2 DEF Sole, OrderOf
  <1>9. f.pc \in Replacing => Sole(f.t, f.id)' /\ f.id \notin mem'.fallbacks
    <2> SUFFICES ASSUME f.pc \in Replacing
                 PROVE  Sole(f.t, f.id)' /\ f.id \notin mem'.fallbacks
      OBVIOUS
    <2>1. q = <<"timer", f.t>> /\ Sole(f.t, f.id) /\ f.id \notin mem.fallbacks
      BY DEF FrameOK
    <2>2. f.id \in DOMAIN orders /\ orders[f.id].t = f.t
      BY <2>1 DEF Sole, OrderOf
    <2>3. f.t # t
      BY <2>1, <2>2 DEF MayPlace, Unordered
    <2> QED BY <1>1, <1>2, <1>7, <2>1, <2>2, <2>3
  <1>10. NoneAdopted' <=> NoneAdopted
    BY DEF NoneAdopted
  <1> QED BY <1>4, <1>5, <1>6, <1>8, <1>9, <1>10 DEF FrameOK, Readable

(* The frame of who places an order, after it.                              *)
LEMMA PlacedBy ==
    ASSUME IInv, NEW p \in Procs, h[p] # <<>>, Top(p).pc \in {"place", "market"}, NEW f, f = Top(p)
    PROVE  /\ f \in FrameType /\ FrameOK(p, f) /\ OnTrade(f.t) /\ f.t \in Trades
           /\ MayPlace(p, f.t) /\ f.pc \in Alone
           /\ f.pc = "place" => p = Pipeline /\ Unordered(f.t) /\ NoneAdopted
           /\ f.pc = "market" => p # Pipeline /\ f.id \in DOMAIN orders
  <1>1. f \in FrameType /\ FrameOK(p, f)
    BY TopFrame DEF IInv
  <1>2. OnTrade(f.t) /\ f.pc \in Alone
    BY <1>1 DEF FrameOK, Begins, Scans, Alone, Replacing
  <1>3. f.pc = "place" => p = Pipeline /\ Unordered(f.t) /\ NoneAdopted
    BY <1>1 DEF FrameOK, Unordered, Signalled
  <1>4. f.pc = "market" => /\ p = <<"timer", f.t>> /\ Sole(f.t, f.id) /\ f.id \notin mem.fallbacks
                           /\ Readable => Unfilled(f.id)
    BY <1>1 DEF FrameOK, Replacing
  <1>5. MayPlace(p, f.t)
    BY <1>3, <1>4 DEF MayPlace
  <1>6. f.t \in Trades
    <2>1. setup.trades \in 1 .. MaxTrades
      BY EntryAssumption DEF IInv, World, OrdersInv, Setup
    <2>2. f.t \in 1 .. Len(row) /\ Len(row) \in Nat /\ f.t <= setup.trades
      BY <1>2 DEF OnTrade, IInv, World, RowsInv
    <2> QED BY <2>1, <2>2, EntryAssumption DEF Trades
  <1>7. f.pc = "market" => f.id \in DOMAIN orders /\ p # Pipeline
    BY <1>4 DEF Sole, OrderOf, Pipeline
  <1> QED BY <1>1, <1>2, <1>3, <1>5, <1>6, <1>7

(* The other processes, when the one that places an order goes on as it     *)
(* should.                                                                  *)
LEMMA PlacedFrames ==
    ASSUME IInv, NEW p \in Procs, NEW t \in Trades, MayPlace(p, t), Accepts(t),
           setup' = setup, row' = row,
           mem'.fallbacks \subseteq mem.fallbacks
           \/ (Unordered(t) /\ mem'.fallbacks \subseteq mem.fallbacks \cup {NextId})
    PROVE  \A q \in Procs \ {p} : \A f : FrameOK(q, f) => FrameOK(q, f)'
  BY PlacedFrame DEF IInv

(* A frame about the new order.                                             *)
LEMMA NewOrderFrame ==
    ASSUME World, NEW t \in Trades, OnTrade(t), Accepts(t), setup' = setup, row' = row, NEW p,
           NEW g \in FrameType, g.t = t, g.id = NextId,
           g.pc \in {"entryRow", "ladder", "marketRow"},
           g.pc = "entryRow" => NoneAdopted, g.pc = "marketRow" => p # Pipeline
    PROVE  FrameOK(p, g)'
  <1>1. PICK n : n = NextId
    OBVIOUS
  <1>2. DOMAIN orders' = DOMAIN orders \cup {n} /\ orders'[n].t = t
    <2>1. /\ DOMAIN orders' = DOMAIN orders \cup {n}
          /\ orders'[n] = [t |-> t, left |-> setup.qty, got |-> 0, st |-> "OPEN", ends |-> FALSE]
      BY <1>1, OrderPlaced DEF World
    <2> QED BY <2>1
  <1>3. OrderOf(t, n)' /\ OnTrade(t)' /\ (NoneAdopted' <=> NoneAdopted)
    BY <1>2 DEF OrderOf, OnTrade, NoneAdopted
  <1>4. g.pc \notin Begins \cup Scans \cup Replacing \cup {"place", "finalize", "update", "market"}
    BY DEF Begins, Scans, Replacing
  <1>5. g.pc \in Signalled => g.pc = "entryRow"
    BY DEF Signalled
  <1> QED BY <1>1, <1>3, <1>4, <1>5 DEF FrameOK

LEMMA PlaceEntryStep ==
    ASSUME IInv, NEW p \in Procs, h[p] # <<>>, PlaceEntry(p)
    PROVE  IInv'
  <1>1. PICK f : f = Top(p)
    OBVIOUS
  <1>2. f.pc = "place" /\ Top(p).pc \in {"place", "market"}
    BY <1>1 DEF PlaceEntry, At
  <1>3. /\ f \in FrameType /\ FrameOK(p, f) /\ OnTrade(f.t) /\ f.t \in Trades
        /\ MayPlace(p, f.t) /\ f.pc \in Alone /\ p = Pipeline /\ Unordered(f.t) /\ NoneAdopted
    BY <1>1, <1>2, PlacedBy
  <1>4. UNCHANGED <<orphans, linked, row, kill>> /\ setup' = setup
    BY DEF PlaceEntry, db
  <1>5. mem \in MemType
    BY DEF IInv, World, MemInv
  <1>6. OnTrade(f.t)' /\ "REJECTED" \in Answered
    BY <1>3, <1>4 DEF OnTrade, Answered, DeadStatuses
  <1>7. Proper(p, Failing(f, "REJECTED"))'
    BY <1>3, <1>6, FailingFrames
  <1>8. CASE Fault("refused") /\ UNCHANGED broker /\ Goes(p, Failing(f, "REJECTED")) /\ mem' = mem
    <2>1. Calm
      BY <1>4, <1>8, StillCalm DEF broker, Fault, IInv, World, RowsInv
    <2> QED BY <1>7, <1>8, <2>1, CalmGoes
  <1>9. CASE Fault("lost") /\ Accepts(f.t) /\ Goes(p, Failing(f, "REJECTED")) /\ mem' = mem
    <2>1. World'
      BY <1>3, <1>4, <1>9, PlacedWorld DEF Fault, IInv
    <2>2. \A q \in Procs \ {p} : \A x : FrameOK(q, x) => FrameOK(q, x)'
      BY <1>3, <1>4, <1>9, PlacedFrames
    <2>3. PICK s : s = Failing(f, "REJECTED")
      OBVIOUS
    <2>4. Proper(p, s)' /\ StackOK(p, s)'
      BY <1>7, <2>3, ProperStack
    <2>5. s \in Seq(FrameType)
      BY <2>4 DEF StackOK
    <2>6. h' = [h EXCEPT ![p] = s]
      BY <1>1, <1>3, <1>9, <2>3, <2>5, FramesReplace DEF IInv
    <2>7. FramesInv'
      BY <2>2, <2>4, <2>6, FramesOne DEF IInv
    <2> QED BY <2>1, <2>7 DEF IInv
  <1>10. CASE /\ NoFault /\ Accepts(f.t)
              /\ h' = [h EXCEPT ![p] = <<[f EXCEPT !.pc = "entryRow", !.id = NextId]>>,
                                ![<<"ladder", f.t>>] =
                                    IF setup.ladder THEN <<[Frame("ladder", f.t) EXCEPT !.id = NextId]>>
                                    ELSE <<>>]
              /\ mem' = [mem EXCEPT !.fallbacks = IF setup.fallback THEN @ \cup {NextId} ELSE @]
    <2>1. mem' = mem \/ (setup.fallback /\ mem' = [mem EXCEPT !.fallbacks = @ \cup {NextId}])
      BY <1>5, <1>10 DEF MemType
    <2>2. World'
      BY <1>3, <1>4, <1>10, <2>1, PlacedWorld DEF NoFault, IInv
    <2>3. mem'.fallbacks \subseteq mem.fallbacks \cup {NextId}
      BY <1>5, <2>1 DEF MemType
    <2>4. \A q \in Procs \ {p} : \A x : FrameOK(q, x) => FrameOK(q, x)'
      BY <1>3, <1>4, <1>10, <2>3, PlacedFrames
    <2>5. PICK n : n = NextId
      OBVIOUS
    <2>6. n \in 0 .. MaxOrders
      BY <1>3, <1>10, <2>5, OrderPlaced DEF IInv, World
    <2>7. PICK g : g = [f EXCEPT !.pc = "entryRow", !.id = n]
      OBVIOUS
    <2>8. g \in FrameType /\ g.pc = "entryRow" /\ g.t = f.t /\ g.id = n
      BY <1>3, <2>6, <2>7 DEF FrameType, Steps
    <2>9. FrameOK(p, g)'
      <3>1. g.pc \in {"entryRow", "ladder", "marketRow"} /\ (g.pc = "marketRow" => p # Pipeline)
        BY <2>8
      <3> QED BY <1>3, <1>4, <1>10, <2>5, <2>8, <3>1, NewOrderFrame DEF IInv
    <2>10. PICK e : e = Frame("ladder", f.t)
      OBVIOUS
    <2>11. e \in FrameType /\ e.pc = "ladder" /\ e.t = f.t
      <3>1. "ladder" \in Steps /\ f.t \in 0 .. MaxTrades + 1
        BY <1>3, EntryAssumption DEF Steps, Trades
      <3> QED BY <2>10, <3>1, NewFrame
    <2>12. PICK x : x = [e EXCEPT !.id = n]
      OBVIOUS
    <2>13. x \in FrameType /\ x.pc = "ladder" /\ x.t = f.t /\ x.id = n
      BY <2>6, <2>11, <2>12 DEF FrameType
    <2>14. PICK r : r = <<"ladder", f.t>>
      OBVIOUS
    <2>15. FrameOK(r, x)'
      <3>1. x.pc \in {"entryRow", "ladder", "marketRow"} /\ (x.pc = "marketRow" => r # Pipeline)
        BY <2>13
      <3> QED BY <1>3, <1>4, <1>10, <2>5, <2>13, <3>1, NewOrderFrame DEF IInv
    <2>16. PICK y : y = IF setup.ladder THEN <<x>> ELSE <<>>
      OBVIOUS
    <2>17. StackOK(r, y)'
      <3>1. StackOK(r, <<x>>)' /\ StackOK(r, <<>>)'
        BY <2>15, OneStack, NoFrames, ProperStack
      <3>2. y = <<x>> \/ y = <<>>
        BY <2>16
      <3> QED BY <3>1, <3>2
    <2>18. StackOK(p, <<g>>)'
      BY <2>9, OneStack
    <2>19. r \in Procs /\ p # r
      BY <1>3, <2>14, ProcFacts
    <2>20. h' = [h EXCEPT ![p] = <<g>>, ![r] = y]
      BY <1>10, <2>5, <2>7, <2>10, <2>12, <2>14, <2>16
    <2>21. FramesInv'
      BY <2>4, <2>17, <2>18, <2>19, <2>20, FramesTwo DEF IInv
    <2> QED BY <2>2, <2>21 DEF IInv
  <1> QED BY <1>1, <1>8, <1>9, <1>10 DEF PlaceEntry

LEMMA FallbackPlacesStep ==
    ASSUME IInv, NEW p \in Procs, h[p] # <<>>, FallbackPlaces(p)
    PROVE  IInv'
  <1>1. PICK f : f = Top(p)
    OBVIOUS
  <1>2. f.pc = "market" /\ Top(p).pc \in {"place", "market"}
    BY <1>1 DEF FallbackPlaces, At
  <1>3. /\ f \in FrameType /\ FrameOK(p, f) /\ OnTrade(f.t) /\ f.t \in Trades
        /\ MayPlace(p, f.t) /\ f.pc \in Alone /\ p # Pipeline /\ f.id \in DOMAIN orders
    BY <1>1, <1>2, PlacedBy
  <1>4. UNCHANGED <<orphans, linked, row, kill>> /\ setup' = setup /\ mem' = mem
    BY DEF FallbackPlaces, db
  <1>5. ASSUME UNCHANGED broker, faults' = faults \/ (faults > 0 /\ faults' = faults - 1)
        PROVE  Calm
    BY <1>4, <1>5, StillCalm DEF broker, IInv, World, RowsInv
  <1>6. CASE Returns(p) /\ UNCHANGED broker /\ (NoFault \/ Fault("refused"))
    <2>1. Calm
      BY <1>5, <1>6 DEF NoFault, Fault
    <2> QED BY <1>6, <2>1, CalmReturns
  <1>7. CASE /\ mem.known[f.id].got > 0
             /\ Goes(p, Filling(f, mem.known[f.id].got, mem.known[f.id].st # "COMPLETE"))
             /\ NoFault /\ UNCHANGED broker
    <2>1. Calm
      BY <1>5, <1>7 DEF NoFault
    <2>2. PICK n : n = mem.known[f.id].got
      OBVIOUS
    <2>3. f.id \in OrderIds
      BY <1>3, EntryAssumption DEF IInv, World, OrdersInv, OrderIds
    <2>4. n \in 0 .. 2
      BY <2>2, <2>3 DEF IInv, World, MemInv, MemType, KnownType
    <2>5. n \in 1 .. 4
      BY <1>7, <2>2, <2>4
    <2>6. OnTrade(f.t)'
      BY <1>3, <2>1, CalmTrade DEF IInv
    <2>7. PICK b \in BOOLEAN : b = (mem.known[f.id].st # "COMPLETE")
      OBVIOUS
    <2>8. Goes(p, Filling(f, n, b))
      BY <1>7, <2>2, <2>7
    <2>9. Proper(p, Filling(f, n, b))'
      BY <1>3, <2>5, <2>6, FillingFrames
    <2> QED BY <2>1, <2>8, <2>9, CalmGoes
  <1>8. ASSUME Accepts(f.t), faults' = faults \/ (faults > 0 /\ faults' = faults - 1),
               NEW s, StackOK(p, s)', Goes(p, s)
        PROVE  IInv'
    <2>1. World'
      BY <1>3, <1>4, <1>8, PlacedWorld DEF IInv
    <2>2. \A q \in Procs \ {p} : \A x : FrameOK(q, x) => FrameOK(q, x)'
      BY <1>3, <1>4, <1>8, PlacedFrames
    <2>3. s \in Seq(FrameType)
      BY <1>8 DEF StackOK
    <2>4. h' = [h EXCEPT ![p] = s]
      BY <1>1, <1>3, <1>8, <2>3, FramesReplace DEF IInv
    <2>5. FramesInv'
      BY <1>8, <2>2, <2>4, FramesOne DEF IInv
    <2> QED BY <2>1, <2>5 DEF IInv
  <1>9. CASE Fault("lost") /\ Accepts(f.t) /\ Returns(p)
    <2>1. StackOK(p, <<>>)'
      BY NoFrames, ProperStack
    <2> QED BY <1>8, <1>9, <2>1 DEF Fault, Returns
  <1>10. CASE NoFault /\ Accepts(f.t) /\ Goes(p, <<[f EXCEPT !.pc = "marketRow", !.id = NextId]>>)
    <2>1. PICK n : n = NextId
      OBVIOUS
    <2>2. n \in 0 .. MaxOrders
      BY <1>3, <1>10, <2>1, OrderPlaced DEF IInv, World
    <2>3. PICK g : g = [f EXCEPT !.pc = "marketRow", !.id = n]
      OBVIOUS
    <2>4. g \in FrameType /\ g.pc = "marketRow" /\ g.t = f.t /\ g.id = n
      BY <1>3, <2>2, <2>3 DEF FrameType, Steps
    <2>5. FrameOK(p, g)'
      <3>1. g.pc \in {"entryRow", "ladder", "marketRow"} /\ (g.pc = "entryRow" => NoneAdopted)
        BY <2>4
      <3> QED BY <1>3, <1>4, <1>10, <2>1, <2>4, <3>1, NewOrderFrame DEF IInv
    <2>6. StackOK(p, <<g>>)' /\ Goes(p, <<g>>)
      BY <1>10, <2>1, <2>3, <2>5, OneStack
    <2> QED BY <1>8, <1>10, <2>6 DEF NoFault
  <1> QED BY <1>1, <1>6, <1>7, <1>9, <1>10 DEF FallbackPlaces

-----------------------------------------------------------------------------
(* Rows are made.                                                           *)
LEMMA RowAdded ==
    ASSUME World, NEW r \in RowType, row' = Append(row, r)
    PROVE  /\ row' \in Seq(RowType) /\ Len(row) \in Nat /\ Len(row') = Len(row) + 1
           /\ DOMAIN row = 1 .. Len(row) /\ DOMAIN row' = DOMAIN row \cup {Len(row) + 1}
           /\ Len(row) + 1 \notin DOMAIN row /\ row'[Len(row) + 1] = r
           /\ \A t \in DOMAIN row : row'[t] = row[t]
  <1>1. row \in Seq(RowType)
    BY DEF World, RowsInv
  <1>2. Len(row) \in Nat /\ DOMAIN row = 1 .. Len(row)
    BY <1>1
  <1>3. row' \in Seq(RowType) /\ Len(row') = Len(row) + 1 /\ row'[Len(row) + 1] = r
        /\ DOMAIN row' = 1 .. Len(row) + 1 /\ \A t \in 1 .. Len(row) : row'[t] = row[t]
    BY <1>1
  <1>4. DOMAIN row' = DOMAIN row \cup {Len(row) + 1} /\ Len(row) + 1 \notin DOMAIN row
    BY <1>2, <1>3
  <1> QED BY <1>2, <1>3, <1>4

(* Orders and positions do not mind.                                        *)
LEMMA RowAddedOrders ==
    ASSUME World, NEW r \in RowType, row' = Append(row, r),
           UNCHANGED <<setup, faults, orders, pos, news, orphans, linked>>
    PROVE  OrdersInv' /\ TallyInv'
  <1>1. \A t : OnTrade(t) => OnTrade(t)'
    BY RowAdded DEF OnTrade
  <1>2. \A t, b : OrderOf(t, b)' <=> OrderOf(t, b)
    BY DEF OrderOf
  <1>3. \A b : (Unfilled(b)' <=> Unfilled(b)) /\ Got(b)' = Got(b)
    BY DEF Unfilled, Got
  <1>4. Readable' <=> Readable
    BY DEF Readable
  <1>5. \A t, a, b : Tally(t, a, b) => Tally(t, a, b)'
    BY <1>2, <1>3, <1>4 DEF Tally
  <1>6. TallyInv'
    BY <1>5 DEF World, TallyInv
  <1>7. OrdersInv'
    BY <1>1 DEF World, OrdersInv
  <1> QED BY <1>6, <1>7

(* A frame of another process does not mind either.                         *)
LEMMA RowAddedFrame ==
    ASSUME World, NEW r \in RowType, row' = Append(row, r),
           UNCHANGED <<setup, orders>>, mem'.fallbacks \subseteq mem.fallbacks,
           NEW q, q # Pipeline, NEW f, FrameOK(q, f)
    PROVE  FrameOK(q, f)'
  <1>1. \A t : OnTrade(t) => OnTrade(t)'
    BY RowAdded DEF OnTrade
  <1>2. \A t, b : (OrderOf(t, b)' <=> OrderOf(t, b)) /\ (Sole(t, b)' <=> Sole(t, b))
    BY DEF OrderOf, Sole
  <1>3. \A b : Unfilled(b)' <=> Unfilled(b)
    BY DEF Unfilled
  <1> QED BY <1>1, <1>2, <1>3 DEF FrameOK, Readable

LEMMA InsertTradeStep ==
    ASSUME IInv, NEW p \in Procs, h[p] # <<>>, InsertTrade(p)
    PROVE  IInv'
  <1>1. PICK f : f = Top(p)
    OBVIOUS
  <1>2. f \in FrameType /\ FrameOK(p, f) /\ f.pc = "insert"
    BY <1>1, TopFrame DEF InsertTrade, At, IInv
  <1>3. p = Pipeline /\ f.t = Len(row) + 1 /\ f.t <= setup.trades /\ NoneAdopted
    BY <1>2 DEF FrameOK, Begins, Signalled
  <1>4. PICK r : r = NewRow(f.t)
    OBVIOUS
  <1>5. setup.qty \in 1 .. 2 /\ setup.trades \in 1 .. MaxTrades
    BY EntryAssumption DEF IInv, World, OrdersInv, Setup
  <1>6. r \in RowType /\ r.st = "ENTRY_PLACED" /\ r.oid = NoOrder
    <2>1. f.t \in Trades
      <3>1. f.t \in Nat \ {0}
        BY <1>3 DEF IInv, World, RowsInv
      <3> QED BY <1>3, <1>5, <3>1, EntryAssumption DEF Trades
    <2>2. "ENTRY_PLACED" \in STATUS
      BY DEF STATUS
    <2>3. NoOrder \in 0 .. MaxOrders /\ setup.qty \in 1 .. 4
      BY <1>5, EntryAssumption DEF NoOrder
    <2> QED BY <1>4, <2>1, <2>2, <2>3 DEF NewRow, RowType
  <1>7. row' = Append(row, r)
    BY <1>1, <1>4 DEF InsertTrade
  <1>8. /\ row' \in Seq(RowType) /\ Len(row) \in Nat /\ Len(row') = f.t
        /\ DOMAIN row = 1 .. Len(row) /\ DOMAIN row' = DOMAIN row \cup {f.t}
        /\ f.t \notin DOMAIN row /\ row'[f.t] = r /\ \A t \in DOMAIN row : row'[t] = row[t]
    BY <1>3, <1>6, <1>7, RowAdded DEF IInv
  <1>9. UNCHANGED <<setup, faults, orders, pos, news, orphans, linked, kill, mem>>
    BY DEF InsertTrade, broker
  <1>10. OrdersInv' /\ TallyInv'
    BY <1>6, <1>7, <1>9, RowAddedOrders DEF IInv
  <1>11. NoneAdopted'
    BY <1>3, <1>6, <1>8 DEF NoneAdopted, Adopting
  <1>12. RowsInv'
    <2>1. r.st \in RowStatuses
      BY <1>6 DEF RowStatuses, EntryStatuses
    <2>2. \A t, b : OrderOf(t, b)' <=> OrderOf(t, b)
      BY <1>9 DEF OrderOf
    <2>3. \A t \in DOMAIN row' : row'[t].st \in RowStatuses
          /\ (row'[t].oid # NoOrder => OrderOf(t, row'[t].oid)) /\ t <= setup.trades
      <3> SUFFICES ASSUME NEW t \in DOMAIN row'
                   PROVE  row'[t].st \in RowStatuses /\ t <= setup.trades
                          /\ (row'[t].oid # NoOrder => OrderOf(t, row'[t].oid))
        OBVIOUS
      <3>1. CASE t = f.t
        BY <1>3, <1>6, <1>8, <2>1, <3>1
      <3>2. CASE t # f.t
        BY <1>3, <1>8, <3>2 DEF IInv, World, RowsInv, NoneAdopted
      <3> QED BY <3>1, <3>2
    <2>4. Len(row') <= setup.trades + 1
      BY <1>3, <1>5, <1>8
    <2>5. (\A t \in DOMAIN row :
              /\ row[t].st \in RowStatuses
              /\ row[t].oid # NoOrder => OrderOf(t, row[t].oid)
              /\ row[t].st # Adopting => t <= setup.trades)'
      BY <1>9, <2>2, <2>3
    <2> QED BY <1>8, <1>9, <1>11, <2>4, <2>5 DEF IInv, World, RowsInv, NoneAdopted
  <1>13. MemInv'
    <2>1. \A t, b : Sole(t, b)' <=> Sole(t, b)
      BY <1>9 DEF Sole, OrderOf
    <2>2. 0 .. Len(row) \subseteq 0 .. Len(row')
      BY <1>3, <1>8
    <2> QED BY <1>9, <2>1, <2>2 DEF IInv, World, MemInv
  <1>14. PICK g : g = [f EXCEPT !.pc = "place"]
    OBVIOUS
  <1>15. g \in FrameType /\ g.pc = "place" /\ g.t = f.t
    BY <1>2, <1>14 DEF FrameType, Steps
  <1>16. FrameOK(p, g)'
    <2>1. OnTrade(f.t)'
      BY <1>6, <1>8 DEF OnTrade, Adopting
    <2>2. \A b \in DOMAIN orders' : orders'[b].t # f.t
      BY <1>8, <1>9 DEF IInv, World, OrdersInv, OnTrade
    <2> QED BY <1>3, <1>11, <1>15, <2>1, <2>2
         DEF FrameOK, Begins, Scans, AboutOrder, Replacing, Signalled
  <1>17. \A q \in Procs \ {p} : \A x : FrameOK(q, x) => FrameOK(q, x)'
    BY <1>3, <1>6, <1>7, <1>9, RowAddedFrame DEF IInv
  <1>18. StackOK(p, <<g>>)' /\ <<g>> \in Seq(FrameType)
    BY <1>15, <1>16, OneStack
  <1>19. h' = [h EXCEPT ![p] = <<g>>]
    <2>1. Top(p).pc \in Alone
      BY <1>1, <1>2 DEF Alone, Begins
    <2>2. Goes(p, <<g>>)
      BY <1>1, <1>14 DEF InsertTrade, GoesTo, As
    <2> QED BY <1>18, <2>1, <2>2, FramesReplace DEF IInv
  <1>20. FramesInv'
    BY <1>17, <1>18, <1>19, FramesOne DEF IInv
  <1> QED BY <1>10, <1>12, <1>13, <1>20 DEF IInv, World

(* What reconciliation makes of the memory, before it adopts a position.    *)
Keys == {"instrument", "trade", "unknown"} \X Nat

LEMMA ActiveRows ==
    ASSUME World
    PROVE  /\ DOMAIN row = 1 .. Len(row) /\ Len(row) \in Nat
           /\ Actives \subseteq DOMAIN row /\ DOMAIN row \subseteq Nat
           /\ Actives \subseteq 1 .. MaxTrades + 1
  <1>1. row \in Seq(RowType) /\ Len(row) <= setup.trades + 1 /\ setup.trades \in 1 .. MaxTrades
    BY EntryAssumption DEF World, RowsInv, OrdersInv, Setup
  <1>2. DOMAIN row = 1 .. Len(row) /\ Len(row) \in Nat
    BY <1>1
  <1>3. Actives \subseteq DOMAIN row
    BY DEF Actives
  <1>4. 1 .. Len(row) \subseteq 1 .. MaxTrades + 1
    BY <1>1, <1>2, EntryAssumption
  <1> QED BY <1>2, <1>3, <1>4

LEMMA BookedType ==
    ASSUME World, NEW net
    PROVE  Booked(net) \in SUBSET Keys
  <1>1. \A t \in Actives : RiskKey(t) \in Keys
    BY ActiveRows DEF RiskKey, Keys
  <1>2. UnknownKey \in Keys
    BY DEF UnknownKey, Keys, NoTrade
  <1>3. \A k \in Booked(net) : k = UnknownKey \/ \E t \in Actives : k = RiskKey(t)
    BY DEF Booked
  <1> QED BY <1>1, <1>2, <1>3

LEMMA HealedMem ==
    ASSUME World, NEW f, NEW b \in SUBSET Keys, NEW m, m = Healed([mem EXCEPT !.booked = b], f)
    PROVE  /\ m \in MemType /\ m.closed = mem.closed /\ m.known = mem.known /\ m.up = mem.up
           /\ m.active \in {mem.active, NoTrade} /\ m.fallbacks \subseteq mem.fallbacks
           /\ \A t \in DOMAIN row : row[t].st = Adopting /\ mem.up => m.active = t
  <1>1. mem \in MemType /\ NoTrade \in Nat
    BY DEF World, MemInv, NoTrade
  <1>2. PICK n : n = [mem EXCEPT !.booked = b]
    OBVIOUS
  <1>3. n \in MemType /\ n.active = mem.active /\ n.closed = mem.closed /\ n.known = mem.known
        /\ n.up = mem.up /\ n.fallbacks = mem.fallbacks
    BY <1>1, <1>2 DEF MemType, Keys
  <1>4. \A t \in DOMAIN row : row[t].st = Adopting /\ mem.up => mem.active = t
    BY DEF World, RowsInv
  <1>5. \/ m = n
        \/ m = Cleared(n, n.active) /\ \E x : Stale(n.active, x)
    BY <1>2 DEF Healed
  <1>6. CASE m = n
    BY <1>3, <1>4, <1>6
  <1>7. CASE m = Cleared(n, n.active) /\ \E x : Stale(n.active, x)
    <2>1. PICK k : k = n.fallbacks \ FallbacksOf(n.active)
      OBVIOUS
    <2>2. m = [n EXCEPT !.active = NoTrade, !.fallbacks = k]
      BY <1>7, <2>1 DEF Cleared
    <2>3. m \in MemType /\ m.active = NoTrade /\ m.closed = n.closed /\ m.known = n.known
          /\ m.up = n.up /\ m.fallbacks \subseteq n.fallbacks
      BY <1>1, <1>3, <2>1, <2>2 DEF MemType
    <2>4. row[n.active].st # Adopting
      BY <1>7 DEF Stale, Terminal, TERMINAL_TRADE_STATUSES, Adopting
    <2>5. \A t \in DOMAIN row : ~(row[t].st = Adopting /\ mem.up)
      BY <1>3, <1>4, <2>4
    <2> QED BY <1>3, <2>3, <2>5
  <1> QED BY <1>5, <1>6, <1>7

LEMMA ReadRowsStep ==
    ASSUME IInv, NEW p \in Procs, h[p] # <<>>, ReadRows(p)
    PROVE  IInv'
  <1>1. PICK f : f = Top(p)
    OBVIOUS
  <1>2. f \in FrameType /\ FrameOK(p, f) /\ f.pc = "rows"
    BY <1>1, TopFrame DEF ReadRows, At, IInv
  <1>3. p = Pipeline /\ f.t = NoTrade /\ f.pc \in Alone
    BY <1>2 DEF FrameOK, Scans, Alone
  <1>4. PICK b : b = Booked(f.net)
    OBVIOUS
  <1>5. PICK m : m = Healed([mem EXCEPT !.booked = b], f)
    OBVIOUS
  <1>6. b \in SUBSET Keys
    BY <1>4, BookedType DEF IInv
  <1>7. /\ m \in MemType /\ m.closed = mem.closed /\ m.known = mem.known /\ m.up = mem.up
        /\ m.active \in {mem.active, NoTrade} /\ m.fallbacks \subseteq mem.fallbacks
        /\ \A t \in DOMAIN row : row[t].st = Adopting /\ mem.up => m.active = t
    BY <1>5, <1>6, HealedMem DEF IInv
  <1>8. UNCHANGED <<setup, faults, orders, pos, news, orphans, linked, kill>>
    BY DEF ReadRows, broker
  <1>9. PICK g : g = [f EXCEPT !.pc = "diff", !.todo = Actives]
    OBVIOUS
  <1>10. Goes(p, <<g>>)
    BY <1>1, <1>9 DEF ReadRows
  <1>11. g \in FrameType /\ g.pc = "diff" /\ g.t = NoTrade
    <2>1. Actives \in SUBSET (1 .. MaxTrades + 1)
      BY ActiveRows DEF IInv
    <2> QED BY <1>2, <1>3, <1>9, <2>1 DEF FrameType, Steps
  <1>12. FrameOK(p, g)'
    BY <1>3, <1>11 DEF FrameOK, Begins, Scans, AboutOrder, Replacing, Signalled
  <1>13. CASE row' = row /\ mem' = m
    <2>1. NoTrade \in 0 .. Len(row)
      BY ActiveRows DEF NoTrade, IInv
    <2>2. MemGoes
      BY <1>7, <1>13, <2>1 DEF MemGoes, IInv, World, MemInv
    <2>3. Calm
      BY <1>8, <1>13, <2>2, RowsStill, OrdersStill, NewsStill DEF Calm, IInv, World
    <2> QED BY <1>1, <1>3, <1>10, <1>12, <2>3, CalmOne
  <1>14. CASE /\ Actives = {}
              /\ \E i \in {i \in Trades : f.net[i] > 0} : row' = Append(row, Adopted(i, f.net[i]))
              /\ mem' = [m EXCEPT !.active = Len(row) + 1, !.booked = @ \cup {RiskKey(Len(row) + 1)}]
    <2>1. PICK i \in Trades : f.net[i] > 0 /\ row' = Append(row, Adopted(i, f.net[i]))
      BY <1>14
    <2>2. PICK n : n = f.net[i]
      OBVIOUS
    <2>3. n \in 1 .. 4
      <3>1. f.net[i] \in 0 .. 4
        BY <1>2, <2>1 DEF FrameType
      <3> QED BY <2>1, <2>2, <3>1
    <2>4. PICK r : r = Adopted(i, n)
      OBVIOUS
    <2>5. r \in RowType /\ r.st = Adopting /\ r.oid = NoOrder
      <3>1. Adopting \in STATUS /\ NoOrder \in 0 .. MaxOrders
        BY EntryAssumption DEF Adopting, STATUS, NoOrder
      <3> QED BY <2>3, <2>4, <3>1 DEF Adopted, RowType, Adopting
    <2>6. PICK t : t = Len(row) + 1
      OBVIOUS
    <2>7. row' = Append(row, r)
      BY <2>1, <2>2, <2>4
    <2>8. /\ row' \in Seq(RowType) /\ Len(row) \in Nat /\ Len(row') = t
          /\ DOMAIN row = 1 .. Len(row) /\ DOMAIN row' = DOMAIN row \cup {t}
          /\ t \notin DOMAIN row /\ row'[t] = r /\ \A u \in DOMAIN row : row'[u] = row[u]
      BY <2>5, <2>6, <2>7, RowAdded DEF IInv
    <2>9. \A u \in DOMAIN row : Terminal(row[u].st) /\ row[u].st # Adopting
      <3> SUFFICES ASSUME NEW u \in DOMAIN row
                   PROVE  Terminal(row[u].st) /\ row[u].st # Adopting
        OBVIOUS
      <3>1. row[u].st \in RowStatuses
        BY DEF IInv, World, RowsInv
      <3>2. u \notin Actives
        BY <1>14
      <3> QED BY <3>1, <3>2 DEF Actives, RowStatuses, EntryStatuses, Adopting, Terminal,
                                TERMINAL_TRADE_STATUSES
    <2>10. PICK k : k = m.booked \cup {RiskKey(t)}
      OBVIOUS
    <2>11. mem' = [m EXCEPT !.active = t, !.booked = k]
      BY <1>14, <2>6, <2>10
    <2>12. t \in Nat /\ k \in SUBSET Keys
      <3>1. t \in Nat
        BY <2>6, <2>8
      <3> QED BY <1>7, <2>10, <3>1 DEF MemType, RiskKey, Keys
    <2>13. mem' \in MemType /\ mem'.active = t /\ mem'.closed = mem.closed /\ mem'.known = mem.known
           /\ mem'.up = mem.up /\ mem'.fallbacks \subseteq mem.fallbacks
      BY <1>7, <2>11, <2>12 DEF MemType, Keys
    <2>14. OrdersInv' /\ TallyInv'
      BY <1>8, <2>5, <2>7, RowAddedOrders DEF IInv
    <2>15. RowsInv'
      <3>1. \A u, x : OrderOf(u, x)' <=> OrderOf(u, x)
        BY <1>8 DEF OrderOf
      <3>2. Len(row') <= setup.trades + 1
        <4>1. setup.trades \in Nat
          BY EntryAssumption DEF IInv, World, OrdersInv, Setup
        <4>2. Len(row) # 0 => Len(row) <= setup.trades
          <5>1. Len(row) # 0 => Len(row) \in DOMAIN row
            BY <2>8
          <5> QED BY <2>9, <5>1 DEF IInv, World, RowsInv
        <4> QED BY <2>6, <2>8, <4>1, <4>2
      <3>3. \A u \in DOMAIN row' : u = t \/ (u \in DOMAIN row /\ row'[u] = row[u])
        BY <2>8
      <3>4. (\A u \in DOMAIN row :
                /\ row[u].st \in RowStatuses
                /\ row[u].oid # NoOrder => OrderOf(u, row[u].oid)
                /\ row[u].st # Adopting => u <= setup.trades)'
        <4>1. Adopting \in RowStatuses
          BY DEF RowStatuses
        <4> QED BY <1>8, <2>5, <2>8, <3>1, <3>3, <4>1 DEF IInv, World, RowsInv
      <3>5. (\A u \in DOMAIN row : row[u].st = Adopting =>
                /\ row[u].oid = NoOrder
                /\ u = Len(row) /\ \A x \in DOMAIN row : x # u => Terminal(row[x].st)
                /\ mem.up => mem.active = u)'
        <4>1. \A u \in DOMAIN row' : row'[u].st = Adopting => u = t
          BY <2>9, <3>3
        <4>2. \A x \in DOMAIN row' : x # t => Terminal(row'[x].st)
          BY <2>9, <3>3
        <4> QED BY <2>5, <2>8, <2>13, <4>1, <4>2 DEF Terminal
      <3>6. kill' \in BOOLEAN
        BY <1>8 DEF IInv, World, RowsInv
      <3>7. (\A u \in DOMAIN row :
                /\ row[u].st \in RowStatuses
                /\ row[u].oid # NoOrder => OrderOf(u, row[u].oid)
                /\ row[u].st # Adopting => u <= setup.trades
                /\ row[u].st = Adopting =>
                      /\ row[u].oid = NoOrder
                      /\ u = Len(row) /\ \A x \in DOMAIN row : x # u => Terminal(row[x].st)
                      /\ mem.up => mem.active = u)'
        BY <3>4, <3>5, Zenon
      <3>8. (/\ row \in Seq(RowType) /\ Len(row) <= setup.trades + 1
             /\ kill \in BOOLEAN)'
        BY <1>8, <2>8, <3>2, <3>6
      <3> QED BY <3>7, <3>8, Zenon DEF RowsInv
    <2>16. MemInv'
      <3>1. \A u, x : Sole(u, x)' <=> Sole(u, x)
        BY <1>8 DEF Sole, OrderOf
      <3>2. 0 .. Len(row) \subseteq 0 .. Len(row') /\ t \in 0 .. Len(row')
        BY <2>6, <2>8
      <3>3. (\A x \in mem.fallbacks :
                setup.fallback /\ x \in DOMAIN orders /\ Sole(orders[x].t, x))'
        BY <1>8, <2>13, <3>1 DEF IInv, World, MemInv
      <3> QED BY <2>13, <3>2, <3>3 DEF IInv, World, MemInv
    <2>17. \A q \in Procs \ {p} : \A x : FrameOK(q, x) => FrameOK(q, x)'
      BY <1>3, <1>8, <2>5, <2>7, <2>13, RowAddedFrame DEF IInv
    <2>18. StackOK(p, <<g>>)' /\ <<g>> \in Seq(FrameType)
      BY <1>11, <1>12, OneStack
    <2>19. h' = [h EXCEPT ![p] = <<g>>]
      BY <1>1, <1>3, <1>10, <2>18, FramesReplace DEF IInv
    <2>20. FramesInv'
      BY <2>17, <2>18, <2>19, FramesOne DEF IInv
    <2> QED BY <2>14, <2>15, <2>16, <2>20 DEF IInv, World
  <1> QED BY <1>1, <1>4, <1>5, <1>13, <1>14 DEF ReadRows

-----------------------------------------------------------------------------
(* The invariant.                                                           *)
LEMMA InitIInv ==
    ASSUME Init
    PROVE  IInv
  <1>1. orders = <<>> /\ row = <<>> /\ news = {} /\ orphans = {} /\ linked = {} /\ kill = FALSE
        /\ faults = setup.faults /\ setup \in Setups
    BY DEF Init
  <1>2. setup.faults \in Nat /\ setup.trades \in 1 .. MaxTrades
    BY <1>1, EntryAssumption DEF Setup
  <1>3. <<>> \in Seq(OrderType) /\ <<>> \in Seq(RowType) /\ <<>> \in Seq(FrameType)
        /\ DOMAIN <<>> = {} /\ Len(<<>>) = 0
    OBVIOUS
  <1>4. OrdersInv
    BY <1>1, <1>2, <1>3, EntryAssumption DEF Init, OrdersInv
  <1>5. TallyInv
    <2>1. \A t \in Trades : Tally(t, NoOrder, NoOrder)
      BY <1>1, <1>3 DEF Tally, Got, Init
    <2>2. NoOrder \in 0 .. Len(orders)
      BY <1>1, <1>3 DEF NoOrder
    <2> QED BY <2>1, <2>2 DEF TallyInv
  <1>6. RowsInv
    <2>1. DOMAIN row = {} /\ row \in Seq(RowType) /\ Len(row) = 0
      BY <1>1, <1>3
    <2>2. Len(row) <= setup.trades + 1
      BY <1>2, <2>1, EntryAssumption
    <2>3. kill \in BOOLEAN
      BY <1>1
    <2> QED BY <2>1, <2>2, <2>3 DEF RowsInv
  <1>7. MemInv
    <2>1. PICK n : n = [i \in OrderIds |-> Unknown]
      OBVIOUS
    <2>2. Unknown \in KnownType /\ Unknown.st = ""
      <3>1. "" \in {"", "PARTIAL"} \cup Alive \cup DeadStatuses /\ 0 \in 0 .. 2
        OBVIOUS
      <3> QED BY <3>1, KnownRecord DEF Unknown
    <2>3. n \in [OrderIds -> KnownType] /\ \A id \in OrderIds : n[id].st = ""
      BY <2>1, <2>2
    <2>4. mem = [up |-> TRUE, active |-> NoTrade, closed |-> NoTrade, booked |-> {}, expected |-> {},
                 seen |-> {}, known |-> n, fallbacks |-> {}]
      BY <2>1 DEF Init, Forgotten
    <2>5. NoTrade \in Nat /\ NoTrade \in 0 .. Len(row)
      BY <1>1, <1>3 DEF NoTrade
    <2>6. mem \in MemType /\ mem.active = NoTrade /\ mem.closed = NoTrade /\ mem.known = n
          /\ mem.fallbacks = {}
      BY <2>3, <2>4, <2>5 DEF MemType
    <2> QED BY <2>3, <2>5, <2>6 DEF MemInv
  <1>8. FramesInv
    BY <1>3 DEF Init, FramesInv, StackOK
  <1> QED BY <1>4, <1>5, <1>6, <1>7, <1>8 DEF IInv, World

LEMMA StepIInv ==
    ASSUME IInv, NEW p \in Procs, Step(p)
    PROVE  IInv'
  <1> h[p] # <<>>
    BY DEF Step
  <1>1. CASE Close(p) \/ Dead(p) \/ FinalizeEntryFill(p) \/ Protect(p)
    BY <1>1, CloseStep, DeadStep, FinalizeEntryFillStep, ProtectStep
  <1>2. CASE Admits(p) \/ Declines(p) \/ DiffsDone(p) \/ InsertTrade(p) \/ PlaceEntry(p)
    BY <1>2, AdmitsStep, ReturnSteps, InsertTradeStep, PlaceEntryStep
  <1>3. CASE EntryRow(p) \/ FallbackRow(p) \/ Link(p) \/ Replay(p) \/ UpdateOfEntry(p)
    BY <1>3, OrderRowStep, LinkStep, ReplayStep, UpdateOfEntryStep
  <1>4. CASE WatchReadsRow(p) \/ WatchReadsOrder(p) \/ Ladder(p)
    BY <1>4, WatchReadsRowStep, WatchReadsOrderStep, LadderStep
  <1>5. CASE CancelEntry(p) \/ CancelLate(p) \/ CancelDone(p)
    BY <1>5, CancelEntryStep, CancelLateStep, CancelDoneStep
  <1>6. CASE \/ RecoverBegins(p) \/ RecoverReadsOrder(p)
             \/ RecoverReadsPosition(p) \/ RecoverUnresolved(p)
    BY <1>6, RecoverBeginsStep, RecoverReadsOrderStep, RecoverReadsPositionStep,
       RecoverUnresolvedStep
  <1>7. CASE FallbackChecks(p) \/ FallbackCancels(p) \/ FallbackLate(p) \/ FallbackPlaces(p)
    BY <1>7, FallbackChecksStep, FallbackCancelsStep, FallbackLateStep, FallbackPlacesStep
  <1>8. CASE ReadPositions(p) \/ ReadRows(p)
    BY <1>8, ReadPositionsStep, ReadRowsStep
  <1>9. ASSUME NEW t \in DOMAIN row,
               DiffOfFlat(p, t) \/ DiffOfEntry(p, t) \/ DiffOfOther(p, t) \/ TickOf(p, t)
        PROVE  IInv'
    BY <1>9, DiffOfFlatStep, DiffOfEntryStep, DiffOfOtherStep, TickOfStep
  <1> QED BY <1>1, <1>2, <1>3, <1>4, <1>5, <1>6, <1>7, <1>8, <1>9 DEF Step

LEMMA NextIInv ==
    ASSUME IInv, [Next]_vars
    PROVE  IInv'
  <1>1. ASSUME NEW p \in Procs, Step(p)
        PROVE  IInv'
    BY <1>1, StepIInv
  <1>2. CASE Signal \/ ReconcileBegins \/ Tick \/ WindowPasses \/ Crash \/ Restart
    BY <1>2, SignalStep, ReconcileBeginsStep, TickStep, WindowPassesStep, CrashStep, RestartStep
  <1>3. ASSUME NEW u \in news, Deliver(u) \/ IsLost(u)
        PROVE  IInv'
    BY <1>3, DeliverStep, IsLostStep
  <1>4. ASSUME NEW id \in mem.fallbacks, FallbackFires(id)
        PROVE  IInv'
    BY <1>4, FallbackFiresStep
  <1>5. ASSUME NEW id \in DOMAIN orders, Fills(id) \/ \E st \in DeadStatuses : Dies(id, st)
        PROVE  IInv'
    BY <1>5, FillsStep, DiesStep
  <1>6. CASE UNCHANGED vars
    <2>1. UNCHANGED <<setup, faults, orders, pos, news, orphans, linked, row, kill, mem, h>>
      BY <1>6 DEF vars, broker, db
    <2>2. Calm
      BY <2>1, StillCalm DEF IInv, World, RowsInv
    <2> QED BY <2>1, <2>2, CalmSame
  <1> QED BY <1>1, <1>2, <1>3, <1>4, <1>5, <1>6 DEF Next, Broker

LEMMA Invariance == Spec => []IInv
  BY InitIInv, NextIInv, PTL DEF Spec

(* The variables have their types, whatever goes wrong and in whatever      *)
(* order: no row stands in a status that the table does not know.           *)
THEOREM EntryTypeCorrect == Spec => []TypeOK
  <1>1. IInv => TypeOK
    <2> SUFFICES ASSUME IInv
                 PROVE  TypeOK
      OBVIOUS
    <2>1. \A id \in DOMAIN orders :
              orders[id] \in [t : Trades, left : 0 .. 2, got : 0 .. 2,
                             st : {"OPEN", "COMPLETE"} \cup DeadStatuses, ends : BOOLEAN]
      <3>1. \A id \in DOMAIN orders : orders[id] \in OrderType
        BY DEF IInv, World, OrdersInv
      <3> QED BY <3>1 DEF OrderType, Alive
    <2>2. /\ setup \in Setups /\ faults \in 0 .. setup.faults /\ Len(orders) <= MaxOrders
          /\ pos \in [Trades -> 0 .. 4] /\ \A u \in news \cup orphans : u.id \in DOMAIN orders
          /\ linked \subseteq DOMAIN orders
      BY DEF IInv, World, OrdersInv
    <2>3. \A t \in DOMAIN row : row[t] \in RowType
      BY DEF IInv, World, RowsInv
    <2>4. kill \in BOOLEAN /\ mem.active \in 0 .. Len(row) /\ mem.closed \in 0 .. Len(row)
          /\ mem.fallbacks \subseteq DOMAIN orders
      BY DEF IInv, World, RowsInv, MemInv
    <2>5. \A p \in Procs : \A i \in DOMAIN h[p] : h[p][i] \in FrameType
      BY DEF IInv, FramesInv, StackOK, FrameOK
    <2> QED BY <2>1, <2>2, <2>3, <2>4, <2>5 DEF TypeOK
  <1> QED BY <1>1, Invariance, PTL

(* What the orders W may still buy, each f of its own: the count of         *)
(* Exposure.                                                                *)
Units(W, f) == {u \in W \X (1 .. 2) : u[2] <= f[u[1]]}

LEMMA LeftUnits ==
    ASSUME NEW W, NEW b, W \subseteq {b}, NEW f, f[b] \in 0 .. 2
    PROVE  IsFiniteSet(Units(W, f)) /\ Cardinality(Units(W, f)) <= f[b]
  <1>0. PICK U : U = Units(W, f)
    OBVIOUS
  <1>1. PICK n \in 0 .. 2 : n = f[b]
    OBVIOUS
  <1>2. \A u \in U : u = <<b, u[2]>> /\ u[2] \in 1 .. 2 /\ u[2] <= n
    BY <1>0, <1>1 DEF Units
  <1>3. Cardinality({}) = 0 /\ IsFiniteSet({})
    BY FS_EmptySet
  <1>4. CASE n = 0
    <2>1. U = {}
      BY <1>2, <1>4
    <2> QED BY <1>0, <1>1, <1>3, <1>4, <2>1
  <1>5. CASE n = 1
    <2>1. U \subseteq {<<b, 1>>}
      BY <1>2, <1>5
    <2>2. IsFiniteSet({<<b, 1>>}) /\ Cardinality({<<b, 1>>}) = 1
      BY FS_Singleton
    <2>3. IsFiniteSet(U) /\ Cardinality(U) <= 1
      BY <2>1, <2>2, FS_Subset
    <2> QED BY <1>0, <1>1, <1>5, <2>3
  <1>6. CASE n = 2
    <2>1. PICK x, y : x = <<b, 1>> /\ y = <<b, 2>>
      OBVIOUS
    <2>2. x # y
      BY <2>1
    <2>3. PICK S : S = {x}
      OBVIOUS
    <2>4. IsFiniteSet(S) /\ Cardinality(S) = 1 /\ y \notin S
      BY <2>2, <2>3, FS_Singleton
    <2>5. IsFiniteSet(S \cup {y}) /\ Cardinality(S \cup {y}) = 2
      BY <2>4, FS_AddElement
    <2>6. U \subseteq S \cup {y}
      BY <1>2, <1>6, <2>1, <2>3
    <2>7. IsFiniteSet(U) /\ Cardinality(U) <= 2
      BY <2>5, <2>6, FS_Subset
    <2> QED BY <1>0, <1>1, <1>6, <2>7
  <1> QED BY <1>1, <1>4, <1>5, <1>6

(* What the entry orders of a trade have bought and may still buy is never  *)
(* more than the trade was sized for, whatever else fails, as long as what  *)
(* the broker knows of a LIMIT order that is to be replaced can be read:    *)
(* the MARKET order comes only when the LIMIT order is dead and bought      *)
(* nothing, and no other handler replaces or enters that trade again        *)
(* (_entryLimitFallbackFireImpl).                                           *)
THEOREM OneEntryAtMost == Spec => [](Readable => OneEntryWorks)
  <1>1. IInv => (Readable => OneEntryWorks)
    <2> SUFFICES ASSUME IInv, Readable, NEW t \in Trades
                 PROVE  Exposure(t) <= setup.qty
      BY DEF OneEntryWorks
    <2>1. PICK a, b \in 0 .. Len(orders) : Tally(t, a, b)
      BY DEF IInv, World, TallyInv
    <2>2. PICK W : W = {id \in DOMAIN orders : orders[id].t = t /\ Working(id)}
      OBVIOUS
    <2>3. PICK n : n = Cardinality({u \in W \X (1 .. 2) : u[2] <= orders[u[1]].left})
      OBVIOUS
    <2>4. Exposure(t) = pos[t] + n
      BY <2>2, <2>3 DEF Exposure
    <2>5. setup.qty \in 1 .. 2
      BY EntryAssumption DEF IInv, World, OrdersInv, Setup
    <2>6. PICK f : f = [id \in DOMAIN orders |-> orders[id].left]
      OBVIOUS
    <2>7. n = Cardinality(Units(W, f))
      <3>1. \A u \in W \X (1 .. 2) : f[u[1]] = orders[u[1]].left
        BY <2>2, <2>6
      <3>2. {u \in W \X (1 .. 2) : u[2] <= f[u[1]]}
                = {u \in W \X (1 .. 2) : u[2] <= orders[u[1]].left}
        BY <3>1
      <3> QED BY <2>3, <3>2 DEF Units
    <2>8. \A id \in DOMAIN orders : /\ f[id] \in 0 .. 2 /\ orders[id].got \in 0 .. 2
                                    /\ f[id] + orders[id].got = setup.qty
      <3> SUFFICES ASSUME NEW id \in DOMAIN orders
                   PROVE  /\ f[id] \in 0 .. 2 /\ orders[id].got \in 0 .. 2
                          /\ f[id] + orders[id].got = setup.qty
        OBVIOUS
      <3>1. orders[id] \in OrderType /\ orders[id].left + orders[id].got = setup.qty
        BY DEF IInv, World, OrdersInv
      <3> QED BY <2>6, <3>1 DEF OrderType
    (* The order that counts: the last of the trade.                        *)
    <2>9. CASE a = NoOrder
      <3>1. W = {} /\ pos[t] = 0
        BY <2>1, <2>2, <2>9 DEF Tally, Got, NoOrder
      <3>2. Units(W, f) = {}
        BY <3>1 DEF Units
      <3>3. n = 0
        BY <2>7, <3>2, FS_EmptySet
      <3> QED BY <2>4, <2>5, <3>1, <3>3
    <2>10. ASSUME NEW c \in DOMAIN orders, W \subseteq {c}, pos[t] = orders[c].got
           PROVE  Exposure(t) <= setup.qty
      <3>1. n <= f[c] /\ n \in Nat
        <4>1. f[c] \in 0 .. 2
          BY <2>8
        <4>2. IsFiniteSet(Units(W, f)) /\ n <= f[c]
          BY <2>7, <2>10, <4>1, LeftUnits
        <4> QED BY <2>7, <4>2, FS_CardinalityType
      <3>2. f[c] \in 0 .. 2 /\ orders[c].got \in 0 .. 2 /\ f[c] + orders[c].got = setup.qty
        BY <2>8
      <3> QED BY <2>4, <2>5, <2>10, <3>1, <3>2
    <2>11. CASE a # NoOrder /\ b = NoOrder
      <3>1. a \in DOMAIN orders /\ pos[t] = orders[a].got + 0 /\ W \subseteq {a}
        BY <2>1, <2>2, <2>11 DEF Tally, Got, OrderOf, NoOrder
      <3>2. orders[a].got \in 0 .. 2
        BY <2>8, <3>1
      <3> QED BY <2>10, <3>1, <3>2
    <2>12. CASE a # NoOrder /\ b # NoOrder
      <3>1. Unfilled(a) /\ b \in DOMAIN orders /\ pos[t] = orders[a].got + orders[b].got
        BY <2>1, <2>12 DEF Tally, Got, OrderOf
      <3>2. a \notin W
        BY <2>2, <3>1 DEF Unfilled, Working, DeadStatuses
      <3>3. W \subseteq {b}
        BY <2>1, <2>2, <3>2 DEF Tally
      <3>4. pos[t] = orders[b].got
        <4>1. orders[a].got = 0 /\ orders[b].got \in 0 .. 2
          BY <2>8, <3>1 DEF Unfilled
        <4> QED BY <3>1, <4>1
      <3> QED BY <2>10, <3>1, <3>3, <3>4
    <2> QED BY <2>9, <2>11, <2>12
  <1> QED BY <1>1, Invariance, PTL

(* A trade that reconciliation made for a position it found is the only     *)
(* open one, for as long as it is open: ReadRows makes it when none is,     *)
(* nothing ever writes its row, and the signal gate and the restart keep it *)
(* the active trade (_rehydrateOrphanPosition, canTrade, init).             *)
THEOREM AdoptedStandsAlone == Spec => []AdoptedIsAlone
  <1>1. IInv => AdoptedIsAlone
    BY DEF IInv, World, RowsInv, AdoptedIsAlone, Adopting
  <1> QED BY <1>1, Invariance, PTL
=============================================================================
