------------------------- MODULE TradeLifecycleProofs -------------------------
(***************************************************************************)
(* Theorems about TradeLifecycle, for any circumstances and any bounds on   *)
(* orders and replacements: the types, that one stop works at most, that    *)
(* one panic exit works at most, two where the watchdog sells beside the    *)
(* queue, and that a trade is closed only when it holds nothing.            *)
(***************************************************************************)
EXTENDS TradeLifecycle, SequenceTheorems, FiniteSetTheorems, TLAPS

OrderType == [role : Roles, side : {-1, 1}, left : Nat, got : Nat, st : BrokerStatuses]
UpdateStatuses == {"PARTIAL", "COMPLETE"} \cup DeadStatuses
UpdateType == [id : Nat, st : UpdateStatuses, late : BOOLEAN]
KnownStatuses == {"none"} \cup BrokerStatuses
MemType == [kill : BOOLEAN, halted : BOOLEAN, active : BOOLEAN, closed : BOOLEAN,
            lock : BOOLEAN, inFlight : BOOLEAN, expected : SUBSET Nat, seen : SUBSET Nat,
            known : [OrderIds -> KnownStatuses], sla : Nat, watch : Nat,
            retries : 0 .. PANIC_EXIT_MAX_RETRIES]

(* Until the watchdog of the stop goes on to a panic exit, only the queue   *)
(* sells the trade.                                                         *)
Alone == ~breach

Ids == DOMAIN orders
RoleOf(id, role) == id \in Ids /\ orders[id].role = role
Complete(id) == id \in Ids /\ orders[id].st = "COMPLETE"
NoStop == \A id \in Ids : orders[id].role # "SL"
NoPanic == \A id \in Ids : orders[id].role # "PANIC_EXIT"
LastPanic(id) == \A k \in Ids : orders[k].role = "PANIC_EXIT" => k <= id

-----------------------------------------------------------------------------
(* The inductive invariant.  What the broker, the database and the memory   *)
(* say fits together.                                                       *)
OrdersInv ==
    /\ setup \in Setups /\ faults \in 0 .. setup.faults /\ breach \in BOOLEAN
    /\ orders \in Seq(OrderType) /\ Len(orders) <= MaxOrders
    /\ pos \in Int
    /\ \A id \in Ids :
          /\ orders[id].left = 0 <=> orders[id].st = "COMPLETE"
          /\ orders[id].role # "PANIC_EXIT" => orders[id].side = -1

UpdatesOK(updates) ==
    /\ updates \subseteq UpdateType
    /\ \A u \in updates : u.id \in Ids /\ (u.st = "COMPLETE" => Complete(u.id))
NewsInv == UpdatesOK(news) /\ UpdatesOK(orphans) /\ linked \subseteq Ids

Named(t) ==
    /\ t.sl # NoOrder => RoleOf(t.sl, "SL")
    /\ t.tgt # NoOrder => RoleOf(t.tgt, "TARGET")
    /\ t.panic # NoOrder => RoleOf(t.panic, "PANIC_EXIT")
    /\ t.exit # NoOrder => t.exit \in Ids
RowInv == row \in RowType /\ Named(row)

MemOK(m) ==
    /\ m \in MemType
    /\ m.seen \subseteq Ids /\ m.expected \subseteq Ids
    /\ m.sla # NoOrder => m.sla \in Ids
    /\ m.watch # NoOrder => RoleOf(m.watch, "PANIC_EXIT")
    /\ \A id \in OrderIds : m.known[id] = "COMPLETE" => Complete(id)

(* One stop is ever placed.  While only the queue sells, one panic exit     *)
(* works, the last, and if it buys, no more than what is short.  What is    *)
(* held is never more than any sale may still sell, unless two panic exits  *)
(* may have bought back.                                                    *)
SoleInv ==
    /\ \A i, k \in Ids : orders[i].role = "SL" /\ orders[k].role = "SL" => i = k
    /\ ~Bought =>
          /\ pos <= setup.qty
          /\ \A id \in Ids : orders[id].side = -1 => pos <= orders[id].left
    /\ Alone =>
          \A id \in Ids : orders[id].role = "PANIC_EXIT" =>
              /\ orders[id].st \in DeadStatuses \/ LastPanic(id)
              /\ LastPanic(id) /\ orders[id].side = 1 => pos + orders[id].left <= 0

World == OrdersInv /\ NewsInv /\ RowInv /\ MemOK(mem) /\ SoleInv

(* Who does what.                                                           *)
TimeoutPcs == {"timeout", "timeoutPlace", "timeoutRow", "timeoutLink", "timeoutReplay"}
PanickingPcs == {"panic", "panicRead", "panicCancel", "panicPlace", "panicRow", "panicLink",
                 "panicReplay"}
StopPcs == {"slRow", "slLink", "slReplay"}
TargetPcs == {"tgtRow", "tgtLink", "tgtReplay"}
SoldPcs == {"panicRow", "panicLink", "panicReplay"} \cup TimeoutPcs
LoneTimerPcs == TimeoutPcs \cup {"update", "finalize", "sla", "confirm"}
TimerPcs == LoneTimerPcs \cup PanickingPcs
PipelinePcs == StopPcs \cup TargetPcs \cup PanickingPcs \cup
    {"entry", "recheck", "breach", "exits", "unlock", "stop", "target", "live", "place",
     "deadTarget", "update", "oco", "finalize", "halt", "guard", "guardMark", "guardCancel",
     "tick", "tickFlat", "positions", "heal", "reconcile", "flat"}
Pcs == TimerPcs \cup PipelinePcs
PcsOf(p) == IF p = "pipeline" THEN PipelinePcs ELSE IF Alone THEN LoneTimerPcs ELSE TimerPcs
(* A handler waits for another one in these only.                           *)
Nested == {"recheck", "breach", "unlock", "live", "slReplay", "tgtReplay", "panicReplay",
           "timeoutReplay", "halt"}

FrameT == [pc : Pcs, id : Nat, st : BrokerStatuses \cup UpdateStatuses, t : RowType, q : Int,
           todo : Seq(Nat), flag : BOOLEAN]

(* What a frame names was placed.                                           *)
Refers(f) ==
    /\ f.id # NoOrder => f.id \in Ids
    /\ Named(f.t)
    /\ \A i \in DOMAIN f.todo : f.todo[i] \in Ids
Role(p, f) ==
    /\ f.pc \in StopPcs => RoleOf(f.id, "SL")
    /\ f.pc \in TargetPcs => RoleOf(f.id, "TARGET")
    /\ f.pc \in SoldPcs => RoleOf(f.id, "PANIC_EXIT")
    /\ f.pc \in {"update", "guard", "sla"} => f.id \in Ids
    /\ f.pc = "update" /\ f.st = "COMPLETE" => Complete(f.id)
    /\ f.pc = "update" /\ p = "timer" => RoleOf(f.id, "PANIC_EXIT")
    /\ f.pc = "oco" => Complete(f.id) /\ ~RoleOf(f.id, "PANIC_EXIT")
(* What a frame in front of a placement may rely on.                        *)
Places(f) ==
    /\ f.pc \in {"timeoutPlace", "timeoutRow"} => mem.retries < PANIC_EXIT_MAX_RETRIES
    /\ f.pc \in {"entry", "exits"} => NoStop \/ row.sl # NoOrder
    /\ f.pc = "stop" => NoStop
    /\ Alone /\ f.pc = "timeoutPlace" => LastPanic(f.id)
    /\ Alone /\ f.pc \in {"panicCancel", "panicPlace"} => NoPanic
(* What a frame in front of a close knows of the position.                  *)
Sold == pos <= 0 \/ PositionsUnread
Closes(f) ==
    ~Bought =>
        /\ f.pc = "panicPlace" => pos <= f.q
        /\ f.pc = "tick" /\ f.q = 0 => Sold
        /\ f.pc \in {"heal", "reconcile"} /\ f.q = 0 => Sold
        /\ f.pc \in {"tickFlat", "flat", "finalize"} => Sold

FrameOK(p, f) ==
    f \in FrameT /\ f.pc \in PcsOf(p) /\ Refers(f) /\ Role(p, f) /\ Places(f) /\ Closes(f)
StackOK(p, s) ==
    /\ s \in Seq(FrameT)
    /\ \A i \in DOMAIN s : FrameOK(p, s[i]) /\ (i < Len(s) => s[i].pc \in Nested)
FramesInv == h \in [Procs -> Seq(FrameT)] /\ \A p \in Procs : StackOK(p, h[p])

(* Who will note in the row, or drop, what the row does not show yet.       *)
StopHeld ==
    \A i \in Ids : orders[i].role = "SL" =>
        \/ row.sl = i
        \/ Terminal(row.status)
        \/ \E p \in Procs : At(p, "slRow") /\ Top(p).id = i
PanicHeld == NoPanic \/ row.panic # NoOrder \/ \E p \in Procs : At(p, "panicRow")
Marked == \E p \in Procs : h[p] # <<>> /\ Top(p).pc \in PanicPcs
MarkerHeld == mem.inFlight => row.panic # NoOrder \/ Marked
(* The panic exits: two at most are at work, or about to be replaced by the *)
(* timeout, or may yet be placed, one by the queue and one by the watchdog. *)
HotPcs == {"panicCancel", "panicPlace", "timeoutPlace"}
Line(i) ==
    /\ RoleOf(i, "PANIC_EXIT")
    /\ orders[i].st = "OPEN" \/ (At("timer", "timeoutPlace") /\ Top("timer").id = i)
MayPanic(p) ==
    \/ At(p, "panicCancel") \/ At(p, "panicPlace")
    \/ row.panic = NoOrder /\ ~At(p, "panicRow")
TwoHeld ==
    /\ \A i, j, k \in Ids : Line(i) /\ Line(j) /\ Line(k) => i = j \/ j = k \/ i = k
    /\ \A p \in Procs : MayPanic(p) => \A i, j \in Ids : Line(i) /\ Line(j) => i = j
    /\ (\A p \in Procs : MayPanic(p)) => \A i \in Ids : ~Line(i)
Claims == StopHeld /\ (Alone => PanicHeld) /\ MarkerHeld /\ TwoHeld

IInv == World /\ FramesInv /\ Claims

(* The step of ClosesOnlyFlat.                                              *)
FlatWhenClosed ==
    ~Bought => (~Terminal(row.status) /\ Terminal(row'.status) => pos' <= 0 \/ PositionsUnread)
Well == IInv' /\ FlatWhenClosed

-----------------------------------------------------------------------------
(* Frames and processes.                                                    *)

(* The processes, and the orders that exist.                                *)
LEMMA ProcNames == "pipeline" \in Procs /\ "timer" \in Procs /\ "pipeline" # "timer"
                   /\ \A p \in Procs : p = "pipeline" \/ p = "timer"
  BY DEF Procs

LEMMA IdFacts ==
    ASSUME OrdersInv
    PROVE  /\ Ids = 1 .. Len(orders) /\ Len(orders) \in Nat /\ Ids \subseteq OrderIds
           /\ Ids \subseteq Nat \ {0}
           /\ \A id \in Ids : orders[id] \in OrderType /\ orders[id].left \in Nat
  <1>1. orders \in Seq(OrderType) /\ Len(orders) <= MaxOrders
    BY DEF OrdersInv
  <1>2. Ids = 1 .. Len(orders) /\ Len(orders) \in Nat /\ \A id \in Ids : orders[id] \in OrderType
    BY <1>1 DEF Ids
  <1> QED BY <1>1, <1>2, LifecycleAssumption DEF OrderIds, OrderType

LEMMA NewRowType == NewRow \in RowType /\ NewRow.sl = NoOrder /\ NewRow.tgt = NoOrder
                    /\ NewRow.panic = NoOrder /\ NewRow.exit = NoOrder
  <1>1. 0 \in 0 .. TARGET_REPLACE_MAX
    BY LifecycleAssumption
  <1> QED BY <1>1 DEF NewRow, RowType, STATUS, NoOrder

(* A new frame.                                                             *)
LEMMA NewFrame ==
    ASSUME NEW c \in Pcs
    PROVE  /\ Frame(c) \in FrameT /\ Frame(c).pc = c /\ Frame(c).id = NoOrder
           /\ Frame(c).t = NewRow /\ Frame(c).todo = <<>> /\ Frame(c).q = 0
  BY NewRowType DEF Frame, FrameT, NoOrder, BrokerStatuses

-----------------------------------------------------------------------------
(* What a step does that places no order and moves no position: cancels.    *)
OrdersGo ==
    /\ orders' \in Seq(OrderType) /\ Len(orders') = Len(orders)
    /\ \A id \in Ids :
          /\ orders'[id].role = orders[id].role /\ orders'[id].side = orders[id].side
          /\ orders'[id].left = orders[id].left
          /\ \/ orders'[id].st = orders[id].st
             \/ orders[id].st = "OPEN" /\ orders'[id].st \in DeadStatuses
    /\ pos' = pos
RowGoes ==
    /\ row' \in RowType /\ Named(row)'
    /\ row.sl # NoOrder => row'.sl # NoOrder
    /\ row.panic # NoOrder => row'.panic # NoOrder
    /\ Terminal(row.status) => Terminal(row'.status)
    /\ FlatWhenClosed
MemGoes ==
    /\ MemOK(mem)'
    /\ mem'.retries <= mem.retries
    /\ mem'.inFlight => mem.inFlight \/ Marked'
FaultsGo ==
    /\ setup' = setup /\ breach' \in {breach, TRUE} /\ (breach => breach')
    /\ (faults' = faults \/ (faults > 0 /\ faults' = faults - 1))
NewsGo == NewsInv'
Calm == OrdersGo /\ RowGoes /\ MemGoes /\ FaultsGo /\ NewsGo
(* And one that may count a replacement of a panic exit, too.               *)
Mild == OrdersGo /\ RowGoes /\ MemOK(mem)' /\ FaultsGo /\ NewsGo

LEMMA CalmMild == Calm => Mild
  BY DEF Calm, Mild, MemGoes

(* What every step does.                                                    *)
RolesStay ==
    /\ Ids \subseteq Ids'
    /\ \A id \in Ids : orders'[id].role = orders[id].role /\ orders'[id].side = orders[id].side
                       /\ (orders[id].st = "COMPLETE" => orders'[id].st = "COMPLETE")
Sinks == pos' \in Int /\ (~Bought' => pos' <= pos \/ (Alone /\ pos' <= 0 /\ ~NoPanic))
RowStays == row.sl # NoOrder => row'.sl # NoOrder
Onward == FaultsGo /\ RolesStay /\ Sinks /\ RowStays

LEMMA FaultsFacts ==
    ASSUME OrdersInv, FaultsGo
    PROVE  /\ setup' \in Setups /\ faults' \in 0 .. setup'.faults
           /\ PositionsUnread => PositionsUnread'
           /\ breach' \in BOOLEAN /\ (Alone' => Alone)
           /\ RolesStay => (~Bought' => ~Bought)
  <1>1. setup.faults \in Nat
    BY LifecycleAssumption DEF OrdersInv, Setup
  <1>2. setup' = setup /\ breach' \in BOOLEAN /\ (breach => breach')
    BY DEF OrdersInv, FaultsGo
  <1>3. setup' \in Setups /\ faults' \in 0 .. setup'.faults /\ (PositionsUnread => PositionsUnread')
    BY <1>1 DEF OrdersInv, FaultsGo, PositionsUnread
  <1>4. RolesStay => (~Bought' => ~Bought)
    BY <1>2 DEF Bought, RolesStay, Ids
  <1> QED BY <1>2, <1>3, <1>4 DEF Alone

LEMMA RolesGo ==
    ASSUME OrdersInv, OrdersGo
    PROVE  /\ Ids' = Ids
           /\ \A id, role : RoleOf(id, role)' <=> RoleOf(id, role)
           /\ \A id : Complete(id)' <=> Complete(id)
           /\ \A id : LastPanic(id)' <=> LastPanic(id)
           /\ (NoPanic' <=> NoPanic) /\ (NoStop' <=> NoStop)
           /\ RolesStay
  <1>1. Ids = 1 .. Len(orders) /\ Ids' = 1 .. Len(orders')
    BY DEF OrdersInv, OrdersGo, Ids
  <1>2. Ids' = Ids
    BY <1>1 DEF OrdersGo
  <1>3. \A id \in Ids : orders'[id].role = orders[id].role
        /\ (orders'[id].st = "COMPLETE" <=> orders[id].st = "COMPLETE")
    BY DEF OrdersGo, DeadStatuses
  <1> QED BY <1>2, <1>3 DEF RoleOf, Complete, LastPanic, NoPanic, NoStop, RolesStay, OrdersGo

LEMMA CalmOnward ==
    ASSUME World, Calm
    PROVE  Onward
  <1>1. pos \in Int /\ pos' = pos
    BY DEF World, OrdersInv, Calm, OrdersGo
  <1> QED BY <1>1, RolesGo DEF World, Calm, Onward, Sinks, RowGoes, RowStays

(* Such a step keeps the invariant of the world.                            *)
LEMMA WorldGoes ==
    ASSUME World, Mild
    PROVE  World'
  <1>1. OrdersInv /\ OrdersGo /\ FaultsGo
    BY DEF World, Mild
  <1>2. Ids' = Ids /\ \A id : LastPanic(id)' <=> LastPanic(id)
    BY <1>1, RolesGo
  <1>3. /\ setup' \in Setups /\ faults' \in 0 .. setup'.faults /\ breach' \in BOOLEAN
        /\ (Alone' => Alone) /\ (~Bought' => ~Bought) /\ setup' = setup
    BY <1>1, FaultsFacts, RolesGo DEF FaultsGo
  <1>4. OrdersInv'
    <2>1. \A id \in Ids : /\ orders'[id].left = 0 <=> orders'[id].st = "COMPLETE"
                          /\ orders'[id].role # "PANIC_EXIT" => orders'[id].side = -1
      BY <1>1 DEF OrdersInv, OrdersGo, DeadStatuses
    <2>2. orders' \in Seq(OrderType) /\ Len(orders') <= MaxOrders /\ pos' \in Int
      BY <1>1 DEF OrdersInv, OrdersGo
    <2> QED BY <1>2, <1>3, <2>1, <2>2 DEF OrdersInv
  <1>5. SoleInv'
    <2>1. \A id \in Ids :
              /\ orders'[id].role = orders[id].role /\ orders'[id].side = orders[id].side
              /\ orders'[id].left = orders[id].left
              /\ orders[id].st \in DeadStatuses => orders'[id].st \in DeadStatuses
      BY <1>1 DEF OrdersGo, DeadStatuses
    <2>2. pos' = pos
      BY <1>1 DEF OrdersGo
    <2> QED BY <1>2, <1>3, <2>1, <2>2 DEF World, SoleInv
  <1> QED BY <1>4, <1>5 DEF World, Mild, RowGoes, NewsGo, RowInv

-----------------------------------------------------------------------------
(* Frames after a step.                                                     *)

(* The step does not take from a frame what it relies on.                   *)
Spared(f) ==
    /\ f.pc \in {"timeoutPlace", "timeoutRow"} /\ mem.retries < PANIC_EXIT_MAX_RETRIES
          => mem'.retries < PANIC_EXIT_MAX_RETRIES
    /\ f.pc \in {"entry", "exits", "stop"} /\ NoStop => NoStop'
    /\ Alone /\ f.pc = "timeoutPlace" /\ LastPanic(f.id) => LastPanic(f.id)'
    /\ Alone /\ f.pc \in {"panicCancel", "panicPlace"} /\ NoPanic => NoPanic'
Keeps(q) == \A f : FrameOK(q, f) => FrameOK(q, f)'
KeepsNested(q) == \A f : FrameOK(q, f) /\ f.pc \in Nested => FrameOK(q, f)'

LEMMA NamedKept ==
    ASSUME RolesStay, NEW t, Named(t)
    PROVE  Named(t)'
  BY DEF RolesStay, Named, RoleOf

LEMMA FrameKept ==
    ASSUME World, Onward, NEW p, NEW f, FrameOK(p, f), Spared(f)
    PROVE  FrameOK(p, f)'
  <1>1. OrdersInv /\ FaultsGo /\ RolesStay /\ Sinks /\ RowStays
    BY DEF World, Onward
  <1>2. (Alone' => Alone) /\ (~Bought' => ~Bought) /\ (PositionsUnread => PositionsUnread')
    BY <1>1, FaultsFacts
  <1>3. \A id, role : RoleOf(id, role) => RoleOf(id, role)'
    BY <1>1 DEF RolesStay, RoleOf
  <1>4. \A id : Complete(id) => Complete(id)'
    BY <1>1 DEF RolesStay, Complete
  <1>5. \A id \in Ids : id \in Ids' /\ orders'[id].role = orders[id].role
    BY <1>1 DEF RolesStay
  <1>6. PcsOf(p) \subseteq PcsOf(p)'
    BY <1>2 DEF PcsOf, TimerPcs
  <1>7. Refers(f)'
    BY <1>1, <1>5, NamedKept DEF FrameOK, Refers
  <1>8. Role(p, f)'
    <2>1. Complete(f.id) /\ ~RoleOf(f.id, "PANIC_EXIT") => ~RoleOf(f.id, "PANIC_EXIT")'
      BY <1>5 DEF Complete, RoleOf
    <2> QED BY <1>3, <1>4, <1>5, <2>1 DEF FrameOK, Role
  <1>9. Places(f)'
    <2>1. mem.retries < PANIC_EXIT_MAX_RETRIES /\ f.pc \in {"timeoutPlace", "timeoutRow"}
            => mem'.retries < PANIC_EXIT_MAX_RETRIES
      BY DEF Spared
    <2>2. /\ f.pc \in {"entry", "exits"} => NoStop' \/ row'.sl # NoOrder
          /\ f.pc = "stop" => NoStop'
      BY <1>1 DEF FrameOK, Places, Spared, RowStays
    <2>3. /\ Alone /\ f.pc = "timeoutPlace" => LastPanic(f.id)'
          /\ Alone /\ f.pc \in {"panicCancel", "panicPlace"} => NoPanic'
      BY DEF FrameOK, Places, Spared
    <2> QED BY <1>2, <2>1, <2>2, <2>3 DEF FrameOK, Places
  <1>10. Closes(f)'
    <2> SUFFICES ASSUME ~Bought'
                 PROVE  Closes(f)'
      BY DEF Closes
    <2>1. /\ ~Bought /\ pos \in Int /\ pos' \in Int
          /\ pos' <= pos \/ (Alone /\ pos' <= 0 /\ ~NoPanic)
      BY <1>1, <1>2 DEF OrdersInv, Sinks
    <2>2. Sold => Sold'
      BY <1>2, <2>1 DEF Sold
    <2>3. f.pc = "panicPlace" => pos' <= f.q
      <3>1. f.pc = "panicPlace" => (Alone => NoPanic) /\ pos <= f.q /\ f.q \in Int
        BY <2>1 DEF FrameOK, FrameT, Closes, Places
      <3> QED BY <2>1, <3>1
    <2> QED BY <2>1, <2>2, <2>3 DEF FrameOK, Closes
  <1> QED BY <1>6, <1>7, <1>8, <1>9, <1>10 DEF FrameOK

LEMMA NestedKept ==
    ASSUME World, Onward, NEW q
    PROVE  KeepsNested(q)
  <1>1. \A f : f.pc \in Nested => Spared(f)
    BY DEF Nested, Spared
  <1> QED BY <1>1, FrameKept DEF KeepsNested

LEMMA CalmKeeps ==
    ASSUME World, Calm, NEW q
    PROVE  Keeps(q)
  <1>1. OrdersInv /\ OrdersGo
    BY DEF World, Calm
  <1>2. mem'.retries <= mem.retries /\ mem.retries \in Nat /\ mem'.retries \in Nat
    BY DEF World, Calm, MemGoes, MemOK, MemType
  <1>3. mem.retries < PANIC_EXIT_MAX_RETRIES => mem'.retries < PANIC_EXIT_MAX_RETRIES
    BY <1>2, LifecycleAssumption
  <1>4. \A f : Spared(f)
    BY <1>1, <1>3, RolesGo DEF Spared
  <1> QED BY <1>4, FrameKept, CalmOnward DEF Keeps

(* The frame on top, and those below.                                       *)
LEMMA TopFrame ==
    ASSUME FramesInv, NEW p \in Procs, h[p] # <<>>
    PROVE  /\ Top(p) \in FrameT /\ FrameOK(p, Top(p))
           /\ Below(p) \in Seq(FrameT)
           /\ \A i \in DOMAIN Below(p) : FrameOK(p, Below(p)[i]) /\ Below(p)[i].pc \in Nested
  <1>1. h[p] \in Seq(FrameT)
    BY DEF FramesInv, StackOK
  <1>2. Len(h[p]) \in Nat \ {0} /\ DOMAIN h[p] = 1 .. Len(h[p])
    BY <1>1
  <1>3. Len(h[p]) \in DOMAIN h[p] /\ h[p][Len(h[p])] \in FrameT
    BY <1>1, <1>2
  <1>4. Below(p) \in Seq(FrameT) /\ DOMAIN Below(p) = 1 .. Len(h[p]) - 1
        /\ \A i \in 1 .. Len(h[p]) - 1 : Below(p)[i] = h[p][i]
    BY <1>1, <1>2 DEF Below
  <1>5. \A i \in DOMAIN Below(p) : i \in DOMAIN h[p] /\ i < Len(h[p]) /\ Below(p)[i] = h[p][i]
    BY <1>2, <1>4
  <1> QED BY <1>3, <1>4, <1>5 DEF FramesInv, StackOK, Top

LEMMA NothingBelow ==
    ASSUME NEW p \in Procs, h[p] = <<>>
    PROVE  Below(p) = <<>>
  BY DEF Below

LEMMA BelowFacts ==
    ASSUME FramesInv, NEW p \in Procs, NEW b, b = Below(p)
    PROVE  b \in Seq(FrameT) /\ \A i \in DOMAIN b : FrameOK(p, b[i]) /\ b[i].pc \in Nested
  <1>1. CASE h[p] # <<>>
    BY <1>1, TopFrame
  <1>2. CASE h[p] = <<>>
    <2>1. b = <<>>
      BY <1>2, NothingBelow
    <2>2. <<>> \in Seq(FrameT) /\ DOMAIN <<>> = {}
      OBVIOUS
    <2> QED BY <2>1, <2>2
  <1> QED BY <1>1, <1>2

(* Frames to go on with.                                                    *)
Proper(p, s) ==
    s \in Seq(FrameT) /\ \A k \in DOMAIN s : FrameOK(p, s[k]) /\ (k < Len(s) => s[k].pc \in Nested)

LEMMA NoFrames ==
    ASSUME NEW p
    PROVE  Proper(p, <<>>)'
  BY DEF Proper

LEMMA OneFrame ==
    ASSUME NEW p, NEW f, FrameOK(p, f)'
    PROVE  Proper(p, <<f>>)'
  <1>1. f \in FrameT
    BY DEF FrameOK
  <1>2. <<f>> \in Seq(FrameT) /\ DOMAIN <<f>> = {1} /\ <<f>>[1] = f /\ Len(<<f>>) = 1
    BY <1>1
  <1> QED BY <1>2 DEF Proper

LEMMA TwoFrames ==
    ASSUME NEW p, NEW f, FrameOK(p, f)', f.pc \in Nested, NEW g, FrameOK(p, g)'
    PROVE  Proper(p, <<f, g>>)'
  <1>1. f \in FrameT /\ g \in FrameT
    BY DEF FrameOK
  <1>2. <<f, g>> \in Seq(FrameT) /\ DOMAIN <<f, g>> = {1, 2} /\ <<f, g>>[1] = f /\ <<f, g>>[2] = g
        /\ Len(<<f, g>>) = 2
    BY <1>1
  <1> QED BY <1>2 DEF Proper

LEMMA MoreFrames ==
    ASSUME NEW p, NEW b \in Seq(FrameT), \A i \in DOMAIN b : b[i].pc \in Nested,
           \A i \in DOMAIN b : FrameOK(p, b[i])', NEW s, Proper(p, s)'
    PROVE  StackOK(p, b \o s)'
  <1>1. s \in Seq(FrameT)
    BY DEF Proper
  <1>2. b \o s \in Seq(FrameT) /\ \A k \in DOMAIN (b \o s) :
            \/ k \in DOMAIN b /\ (b \o s)[k] = b[k]
            \/ \E j \in DOMAIN s : (b \o s)[k] = s[j] /\ (k < Len(b \o s) => j < Len(s))
    <2>1. b \o s \in Seq(FrameT) /\ Len(b \o s) = Len(b) + Len(s)
          /\ \A k \in 1 .. Len(b) + Len(s) : (b \o s)[k] = IF k <= Len(b) THEN b[k] ELSE s[k - Len(b)]
      BY <1>1
    <2>2. \A k \in 1 .. Len(b) + Len(s) : \/ k <= Len(b)
                                          \/ /\ k - Len(b) \in 1 .. Len(s)
                                             /\ k < Len(b) + Len(s) => k - Len(b) < Len(s)
      BY <1>1
    <2>3. DOMAIN (b \o s) = 1 .. Len(b) + Len(s) /\ DOMAIN b = 1 .. Len(b) /\ DOMAIN s = 1 .. Len(s)
      BY <1>1, <2>1
    <2> QED BY <2>1, <2>2, <2>3
  <1> QED BY <1>2 DEF Proper, StackOK

(* Stacks of a process, and of them all.                                    *)
LEMMA FramesChange ==
    ASSUME FramesInv, NEW p \in Procs, NEW s, StackOK(p, s)', h' = [h EXCEPT ![p] = s],
           \A q \in Procs : q # p => Keeps(q)
    PROVE  FramesInv'
  <1>1. s \in Seq(FrameT)
    BY DEF StackOK
  <1>2. h' \in [Procs -> Seq(FrameT)] /\ h'[p] = s /\ \A q \in Procs : q # p => h'[q] = h[q]
    BY <1>1 DEF FramesInv
  <1>3. ASSUME NEW q \in Procs, NEW z, z = h'[q]
        PROVE  StackOK(q, z)'
    <2>1. CASE q = p
      BY <1>2, <1>3, <2>1
    <2>2. CASE q # p
      <3>1. StackOK(q, z)
        BY <1>2, <1>3, <2>2 DEF FramesInv
      <3> QED BY <2>2, <3>1 DEF StackOK, Keeps
    <2> QED BY <2>1, <2>2
  <1>4. (\A q \in Procs : StackOK(q, h[q]))'
    BY <1>3
  <1> QED BY <1>2, <1>4 DEF FramesInv

LEMMA FramesGo ==
    ASSUME FramesInv, NEW p \in Procs, NEW s, Proper(p, s)', Goes(p, s), KeepsNested(p),
           \A q \in Procs : q # p => Keeps(q)
    PROVE  FramesInv'
  <1>1. PICK b : b = Below(p)
    OBVIOUS
  <1>2. b \in Seq(FrameT) /\ \A i \in DOMAIN b : FrameOK(p, b[i]) /\ b[i].pc \in Nested
    BY <1>1, BelowFacts
  <1>3. \A i \in DOMAIN b : FrameOK(p, b[i])'
    BY <1>2 DEF KeepsNested
  <1>4. PICK z : z = b \o s
    OBVIOUS
  <1>5. StackOK(p, z)'
    BY <1>2, <1>3, <1>4, MoreFrames
  <1>6. h' = [h EXCEPT ![p] = z]
    BY <1>1, <1>4 DEF Goes
  <1> QED BY <1>5, <1>6, FramesChange

LEMMA FramesSame ==
    ASSUME FramesInv, h' = h, \A q \in Procs : Keeps(q)
    PROVE  FramesInv'
  <1>1. ASSUME NEW q \in Procs, NEW z, z = h'[q]
        PROVE  StackOK(q, z)'
    BY <1>1 DEF FramesInv, StackOK, Keeps
  <1>2. (\A q \in Procs : StackOK(q, h[q]))'
    BY <1>1
  <1> QED BY <1>2 DEF FramesInv

LEMMA BeginsGoes ==
    ASSUME NEW p \in Procs, NEW g, Begins(p, g)
    PROVE  h[p] = <<>> /\ Goes(p, <<g>>)
  <1>1. <<>> \o <<g>> = <<g>>
    OBVIOUS
  <1> QED BY <1>1, NothingBelow DEF Begins, Goes

(* The top of a stack after a step of its process, and of another.          *)
LEMMA NewTop ==
    ASSUME FramesInv, NEW p \in Procs, NEW g \in FrameT, Goes(p, <<g>>)
    PROVE  h'[p] # <<>> /\ Top(p)' = g
  <1>1. PICK b \in Seq(FrameT) : b = Below(p)
    BY BelowFacts
  <1>2. b \o <<g>> \in Seq(FrameT) /\ Len(b \o <<g>>) = Len(b) + 1 /\ (b \o <<g>>)[Len(b) + 1] = g
    BY <1>1
  <1>3. h'[p] = b \o <<g>>
    BY <1>1 DEF Goes, FramesInv
  <1>4. Len(h'[p]) = Len(b) + 1 /\ Len(b) \in Nat
    BY <1>1, <1>2, <1>3
  <1> QED BY <1>2, <1>3, <1>4 DEF Top

LEMMA OtherTop ==
    ASSUME FramesInv, NEW p \in Procs, NEW s, Goes(p, s), NEW q \in Procs, q # p
    PROVE  h'[q] = h[q] /\ Top(q)' = Top(q) /\ \A pc : At(q, pc)' <=> At(q, pc)
  <1>1. h'[q] = h[q]
    BY DEF Goes, FramesInv
  <1> QED BY <1>1 DEF Top, At

-----------------------------------------------------------------------------
(* The claims after a step.                                                 *)

(* Nothing that notes an order in the row is skipped.                       *)
LEMMA StopStays ==
    ASSUME IInv, Mild, NEW p \in Procs, NEW s, Goes(p, s), ~At(p, "slRow")
    PROVE  StopHeld'
  <1>1. Ids' = Ids /\ \A id \in Ids : orders'[id].role = orders[id].role
    BY RolesGo DEF IInv, World, Mild, OrdersGo
  <1>2. ASSUME NEW i \in Ids, orders[i].role = "SL"
        PROVE  \/ row'.sl = i
               \/ Terminal(row'.status)
               \/ \E q \in Procs : At(q, "slRow")' /\ Top(q)'.id = i
    <2>1. CASE row.sl = i
      <3>1. i # NoOrder
        BY IdFacts DEF IInv, World, NoOrder
      <3>2. RoleOf(row.sl, "SL")'
        BY <2>1, <3>1 DEF Mild, RowGoes, Named
      <3>3. row'.sl \in Ids /\ orders[row'.sl].role = "SL"
        BY <1>1, <3>2 DEF RoleOf
      <3> QED BY <1>2, <3>3 DEF IInv, World, SoleInv
    <2>2. CASE Terminal(row.status)
      BY <2>2 DEF Mild, RowGoes
    <2>3. CASE \E q \in Procs : At(q, "slRow") /\ Top(q).id = i
      <3>1. PICK q \in Procs : At(q, "slRow") /\ Top(q).id = i
        BY <2>3
      <3>2. At(q, "slRow")' /\ Top(q)' = Top(q)
        BY <3>1, OtherTop DEF IInv
      <3> QED BY <3>1, <3>2
    <2> QED BY <1>2, <2>1, <2>2, <2>3 DEF IInv, Claims, StopHeld
  <1> QED BY <1>1, <1>2 DEF StopHeld

LEMMA PanicStays ==
    ASSUME IInv, Mild, NEW p \in Procs, NEW s, Goes(p, s),
           ~At(p, "panicRow") \/ row'.panic # NoOrder
    PROVE  (Alone => PanicHeld)'
  <1>1. (NoPanic' <=> NoPanic) /\ (Alone' => Alone) /\ (~Bought' => ~Bought)
    BY RolesGo, FaultsFacts DEF IInv, World, Mild
  <1>2. row.panic # NoOrder => row'.panic # NoOrder
    BY DEF Mild, RowGoes
  <1>3. ASSUME NEW q \in Procs, At(q, "panicRow")
        PROVE  row'.panic # NoOrder \/ At(q, "panicRow")'
    BY <1>3, OtherTop DEF IInv
  <1> QED BY <1>1, <1>2, <1>3 DEF IInv, Claims, PanicHeld

(* A marker that is set is in the hands of a panic exit.                    *)
LEMMA MarkerStays ==
    ASSUME IInv, Calm, NEW p \in Procs, NEW s, Goes(p, s),
           \/ ~mem'.inFlight
           \/ row'.panic # NoOrder
           \/ h[p] = <<>> \/ Top(p).pc \notin PanicPcs
           \/ \E g \in FrameT : s = <<g>> /\ g.pc \in PanicPcs
    PROVE  MarkerHeld'
  <1> SUFFICES ASSUME mem'.inFlight, row'.panic = NoOrder, mem.inFlight
               PROVE  \E q \in Procs : h'[q] # <<>> /\ Top(q)'.pc \in PanicPcs
    BY DEF MarkerHeld, Marked, Calm, MemGoes
  <1>1. mem.inFlight /\ row.panic = NoOrder
    BY DEF Calm, MemGoes, RowGoes
  <1>2. PICK q \in Procs : h[q] # <<>> /\ Top(q).pc \in PanicPcs
    BY <1>1 DEF IInv, Claims, MarkerHeld, Marked
  <1>3. CASE q # p
    BY <1>2, <1>3, OtherTop DEF IInv
  <1>4. CASE q = p
    <2>1. PICK g \in FrameT : s = <<g>> /\ g.pc \in PanicPcs
      BY <1>2, <1>4
    <2> QED BY <2>1, NewTop DEF IInv
  <1> QED BY <1>3, <1>4

(* No panic exit is added to those at work or to come.                      *)
LEMMA TwoStays ==
    ASSUME TwoHeld, \A i \in Ids' : Line(i)' => i \in Ids /\ Line(i),
           \A q \in Procs : MayPanic(q)' => MayPanic(q)
    PROVE  TwoHeld'
  BY DEF TwoHeld

LEMMA TwoGoes ==
    ASSUME IInv, Mild, NEW p \in Procs, NEW s, Goes(p, s),
           ~At(p, "panicRow") \/ row'.panic # NoOrder,
           At(p, "panicCancel")' \/ At(p, "panicPlace")' => MayPanic(p),
           At(p, "timeoutPlace")' => Line(Top(p)'.id)
    PROVE  TwoHeld'
  <1>1. /\ Ids' = Ids
        /\ \A id \in Ids : orders'[id].role = orders[id].role
                           /\ (orders'[id].st = "OPEN" => orders[id].st = "OPEN")
    BY RolesGo DEF IInv, World, Mild, OrdersGo, DeadStatuses
  <1>2. row.panic # NoOrder => row'.panic # NoOrder
    BY DEF Mild, RowGoes
  <1>3. \A q \in Procs : q # p => Top(q)' = Top(q) /\ \A pc : At(q, pc)' <=> At(q, pc)
    BY OtherTop DEF IInv
  <1>4. ASSUME NEW i \in Ids', Line(i)'
        PROVE  i \in Ids /\ Line(i)
    <2>1. i \in Ids /\ orders[i].role = "PANIC_EXIT"
      BY <1>1, <1>4 DEF Line, RoleOf
    <2>2. CASE orders'[i].st = "OPEN"
      BY <1>1, <2>1, <2>2 DEF Line, RoleOf
    <2>3. CASE At("timer", "timeoutPlace")' /\ Top("timer")'.id = i
      <3>1. CASE p = "timer"
        BY <2>1, <2>3, <3>1
      <3>2. CASE p # "timer"
        BY <1>3, <2>1, <2>3, <3>2, ProcNames DEF Line, RoleOf
      <3> QED BY <3>1, <3>2
    <2> QED BY <1>4, <2>2, <2>3 DEF Line
  <1>5. ASSUME NEW q \in Procs, MayPanic(q)'
        PROVE  MayPanic(q)
    BY <1>2, <1>3, <1>5 DEF MayPanic
  <1> QED BY <1>4, <1>5, TwoStays DEF IInv, Claims

(* The process is not in front of a placement of a panic exit.              *)
Cool(p) == \A pc \in HotPcs : ~At(p, pc)

LEMMA TwoCool ==
    ASSUME IInv, Mild, NEW p \in Procs, NEW s, Goes(p, s), Cool(p)',
           ~At(p, "panicRow") \/ row'.panic # NoOrder
    PROVE  TwoHeld'
  BY TwoGoes DEF Cool, HotPcs

LEMMA CoolReturn ==
    ASSUME FramesInv, NEW p \in Procs, Returns(p)
    PROVE  Cool(p)'
  <1>1. PICK b \in Seq(FrameT) : b = Below(p) /\ \A i \in DOMAIN b : b[i].pc \in Nested
    BY BelowFacts
  <1>2. h'[p] = b
    <2>1. b \o <<>> = b
      BY <1>1
    <2> QED BY <1>1, <2>1 DEF Returns, Goes, FramesInv
  <1>3. b # <<>> => b[Len(b)].pc \in Nested
    <2>1. b # <<>> => Len(b) \in DOMAIN b
      BY <1>1
    <2> QED BY <1>1, <2>1
  <1> QED BY <1>2, <1>3 DEF Cool, HotPcs, Nested, At, Top

LEMMA CoolOne ==
    ASSUME FramesInv, NEW p \in Procs, NEW g \in FrameT, Goes(p, <<g>>),
           g.pc \notin {"panicCancel", "panicPlace", "timeoutPlace"}
    PROVE  Cool(p)'
  BY NewTop DEF Cool, HotPcs, At

LEMMA CoolTwo ==
    ASSUME FramesInv, NEW p \in Procs, NEW f \in FrameT, NEW g \in FrameT, Goes(p, <<f, g>>),
           g.pc \notin {"panicCancel", "panicPlace", "timeoutPlace"}
    PROVE  Cool(p)'
  <1>1. PICK b \in Seq(FrameT) : b = Below(p)
    BY BelowFacts
  <1>2. PICK s : s = <<f, g>>
    OBVIOUS
  <1>3. s \in Seq(FrameT) /\ Len(s) = 2 /\ s[2] = g
    BY <1>2
  <1>4. Len(b) \in Nat /\ Len(b \o s) = Len(b) + 2
    <2>1. Len(b) \in Nat
      BY <1>1
    <2>2. Len(b \o s) = Len(b) + Len(s)
      BY <1>1, <1>3, ConcatProperties
    <2> QED BY <1>3, <2>1, <2>2
  <1>7. (b \o s)[Len(b) + 2] = g
    <2>1. \A i \in 1..(Len(b) + Len(s)) :
            (b \o s)[i] = IF i <= Len(b) THEN b[i] ELSE s[i - Len(b)]
      BY <1>1, <1>3, ConcatProperties
    <2>2. Len(b) + 2 \in 1..(Len(b) + Len(s)) /\ ~(Len(b) + 2 <= Len(b)) /\ Len(b) + 2 - Len(b) = 2
      BY <1>3, <1>4
    <2>3. (b \o s)[Len(b) + 2] = s[Len(b) + 2 - Len(b)]
      BY <2>1, <2>2
    <2> QED BY <1>3, <2>2, <2>3
  <1>5. h'[p] = b \o s
    BY <1>1, <1>2 DEF Goes, FramesInv
  <1>6. h'[p][Len(h'[p])] = g
    BY <1>4, <1>5, <1>7
  <1> QED BY <1>6 DEF Cool, HotPcs, At, Top

(* A calm step of a process.                                                *)
Quiet(p) == h[p] = <<>> \/ Top(p).pc \notin PanicPcs \cup {"slRow"}
CalmFrames(p, s) == Calm /\ Proper(p, s)' /\ Goes(p, s)

LEMMA CalmWorld ==
    ASSUME IInv, NEW p \in Procs, NEW s, CalmFrames(p, s)
    PROVE  World' /\ FramesInv' /\ FlatWhenClosed
  <1>1. \A q \in Procs : Keeps(q) /\ KeepsNested(q)
    BY CalmKeeps, CalmOnward, NestedKept DEF CalmFrames, IInv
  <1> QED BY <1>1, FramesGo, CalmMild, WorldGoes DEF CalmFrames, IInv, Calm, RowGoes

LEMMA CalmGoes ==
    ASSUME IInv, NEW p \in Procs, NEW s, CalmFrames(p, s), Quiet(p), Cool(p)'
    PROVE  Well
  <1>1. ~At(p, "slRow") /\ ~At(p, "panicRow") /\ (h[p] = <<>> \/ Top(p).pc \notin PanicPcs)
    BY DEF Quiet, At, PanicPcs
  <1>2. Calm /\ Goes(p, s)
    BY DEF CalmFrames
  <1>3. Claims'
    BY <1>1, <1>2, CalmMild, StopStays, PanicStays, MarkerStays, TwoCool DEF Claims
  <1> QED BY <1>3, CalmWorld DEF Well, IInv

LEMMA CalmReturns ==
    ASSUME IInv, Calm, NEW p \in Procs, Quiet(p), Returns(p)
    PROVE  Well
  <1>1. Cool(p)'
    BY CoolReturn DEF IInv
  <1> QED BY <1>1, CalmGoes, NoFrames DEF Returns, CalmFrames

LEMMA CalmOne ==
    ASSUME IInv, Calm, NEW p \in Procs, Quiet(p), NEW g, FrameOK(p, g)', Goes(p, <<g>>),
           g.pc \notin {"panicCancel", "panicPlace", "timeoutPlace"}
    PROVE  Well
  <1>1. Cool(p)'
    BY CoolOne DEF IInv, FrameOK
  <1> QED BY <1>1, CalmGoes, OneFrame DEF CalmFrames

LEMMA CalmTwo ==
    ASSUME IInv, Calm, NEW p \in Procs, Quiet(p), NEW f, FrameOK(p, f)', f.pc \in Nested,
           NEW g, FrameOK(p, g)', Goes(p, <<f, g>>),
           g.pc \notin {"panicCancel", "panicPlace", "timeoutPlace"}
    PROVE  Well
  <1>1. Cool(p)'
    BY CoolTwo DEF IInv, FrameOK
  <1> QED BY <1>1, CalmGoes, TwoFrames DEF CalmFrames

(* A step in front of the placement of a panic exit.                        *)
LEMMA CalmHeats ==
    ASSUME IInv, Calm, NEW p \in Procs, Quiet(p), NEW g, FrameOK(p, g)', Goes(p, <<g>>),
           (g.pc = "panicCancel" /\ MayPanic(p)) \/ (g.pc = "timeoutPlace" /\ Line(g.id))
    PROVE  Well
  <1>1. ~At(p, "slRow") /\ ~At(p, "panicRow") /\ (h[p] = <<>> \/ Top(p).pc \notin PanicPcs)
    BY DEF Quiet, At, PanicPcs
  <1>2. g \in FrameT
    BY DEF FrameOK
  <1>3. h'[p] # <<>> /\ Top(p)' = g
    BY <1>2, NewTop DEF IInv
  <1>4. TwoHeld'
    BY <1>1, <1>3, CalmMild, TwoGoes DEF At
  <1>5. Claims'
    BY <1>1, <1>4, CalmMild, StopStays, PanicStays, MarkerStays DEF Claims
  <1> QED BY <1>5, CalmWorld, OneFrame DEF Well, IInv, CalmFrames

(* A panic exit that goes on, or that closes the trade.                     *)
LEMMA CalmPanics ==
    ASSUME IInv, Calm, NEW p \in Procs, ~At(p, "slRow"), ~At(p, "panicRow"),
           At(p, "panicCancel") \/ At(p, "panicPlace"),
           NEW g, FrameOK(p, g)', g.pc \in PanicPcs, Goes(p, <<g>>)
    PROVE  Well
  <1>1. Claims'
    <2>1. g \in FrameT
      BY DEF FrameOK
    <2>2. h'[p] # <<>> /\ Top(p)' = g
      BY <2>1, NewTop DEF IInv
    <2>3. TwoHeld'
      BY <2>2, CalmMild, TwoGoes DEF At, MayPanic, PanicPcs
    <2> QED BY <2>1, <2>3, CalmMild, StopStays, PanicStays, MarkerStays DEF Claims
  <1> QED BY <1>1, CalmWorld, OneFrame DEF Well, IInv, CalmFrames

(* A panic exit that drops its marker.                                      *)
LEMMA CalmDrops ==
    ASSUME IInv, Calm, NEW p \in Procs, ~At(p, "slRow"), ~At(p, "panicRow"), ~mem'.inFlight,
           Returns(p)
    PROVE  Well
  <1>1. Goes(p, <<>>)
    BY DEF Returns
  <1>2. Cool(p)'
    BY CoolReturn DEF IInv
  <1>3. Claims'
    BY <1>1, <1>2, CalmMild, StopStays, PanicStays, MarkerStays, TwoCool DEF Claims
  <1> QED BY <1>1, <1>3, CalmWorld, NoFrames DEF Well, IInv, CalmFrames

(* The handlers stand still.                                                *)
LEMMA ClaimsSame ==
    ASSUME IInv, RolesStay, Ids' = Ids, FaultsGo, row' = row, h' = h,
           \A id \in Ids : orders'[id].st = "OPEN" => orders[id].st = "OPEN",
           mem'.inFlight => mem.inFlight \/ Marked'
    PROVE  Claims'
  <1>1. \A q : Top(q)' = Top(q) /\ \A pc : At(q, pc)' <=> At(q, pc)
    BY DEF Top, At
  <1>2. StopHeld'
    BY <1>1 DEF IInv, Claims, StopHeld, RolesStay
  <1>3. NoPanic => NoPanic'
    BY DEF NoPanic, RolesStay
  <1>4. Alone' => Alone
    BY DEF Alone, FaultsGo
  <1>5. (Alone => PanicHeld)'
    BY <1>1, <1>3, <1>4 DEF IInv, Claims, PanicHeld
  <1>6. MarkerHeld'
    BY <1>1 DEF IInv, Claims, MarkerHeld, Marked
  <1>7. TwoHeld'
    <2>1. \A i \in Ids' : Line(i)' => i \in Ids /\ Line(i)
      BY <1>1 DEF Line, RoleOf, RolesStay
    <2>2. \A q \in Procs : MayPanic(q)' => MayPanic(q)
      BY <1>1 DEF MayPanic
    <2> QED BY <2>1, <2>2, TwoStays DEF IInv, Claims
  <1> QED BY <1>2, <1>5, <1>6, <1>7 DEF Claims

LEMMA CalmSame ==
    ASSUME IInv, Calm, row' = row, h' = h
    PROVE  Well
  <1>1. \A q \in Procs : Keeps(q)
    BY CalmKeeps DEF IInv
  <1>2. FramesInv'
    BY <1>1, FramesSame DEF IInv
  <1>3. RolesStay /\ Ids' = Ids /\ FaultsGo
    BY RolesGo DEF IInv, World, Calm
  <1>4. Claims'
    <2>1. \A id \in Ids : orders'[id].st = "OPEN" => orders[id].st = "OPEN"
      BY DEF Calm, OrdersGo, DeadStatuses
    <2> QED BY <1>3, <2>1, ClaimsSame DEF Calm, MemGoes
  <1> QED BY <1>2, <1>4, CalmMild, WorldGoes DEF Well, IInv, Calm, RowGoes

-----------------------------------------------------------------------------
(* The parts of a calm step.                                                *)

LEMMA UpdatesKept ==
    ASSUME RolesStay, NEW w, UpdatesOK(w)
    PROVE  UpdatesOK(w)'
  BY DEF RolesStay, UpdatesOK, Complete

LEMMA MemKept ==
    ASSUME RolesStay, NEW m, MemOK(m)
    PROVE  MemOK(m)'
  <1>1. \A id : Complete(id) => Complete(id)'
    BY DEF RolesStay, Complete
  <1>2. \A id, role : RoleOf(id, role) => RoleOf(id, role)'
    BY DEF RolesStay, RoleOf
  <1>3. m.seen \subseteq Ids' /\ m.expected \subseteq Ids' /\ (m.sla # NoOrder => m.sla \in Ids')
    BY DEF MemOK, RolesStay
  <1> QED BY <1>1, <1>2, <1>3 DEF MemOK

(* What the memory may become.                                              *)
MemTo(m) == MemOK(m) /\ m.retries <= mem.retries /\ (m.inFlight => mem.inFlight)

LEMMA MemMoves ==
    ASSUME RolesStay, MemTo(mem')
    PROVE  MemGoes
  <1>1. PICK m : m = mem'
    OBVIOUS
  <1>2. MemOK(m) /\ m.retries <= mem.retries /\ (m.inFlight => mem.inFlight)
    BY <1>1 DEF MemTo
  <1>3. MemOK(m)'
    BY <1>2, MemKept
  <1>4. MemOK(mem)'
    BY <1>1, <1>3
  <1> QED BY <1>1, <1>2, <1>4 DEF MemGoes

LEMMA RetriesFacts ==
    ASSUME MemOK(mem)
    PROVE  /\ mem.retries \in 0 .. PANIC_EXIT_MAX_RETRIES /\ mem.retries <= mem.retries
           /\ 0 <= mem.retries /\ 0 \in 0 .. PANIC_EXIT_MAX_RETRIES
  BY LifecycleAssumption DEF MemOK, MemType

LEMMA MemSame ==
    ASSUME MemOK(mem), mem' = mem
    PROVE  MemTo(mem')
  BY RetriesFacts DEF MemTo

LEMMA MemFlags ==
    ASSUME MemOK(mem), NEW b \in BOOLEAN,
           \/ mem' = [mem EXCEPT !.kill = b]
           \/ mem' = [mem EXCEPT !.halted = b]
           \/ mem' = [mem EXCEPT !.lock = b]
           \/ mem' = [mem EXCEPT !.closed = b]
    PROVE  MemTo(mem')
  BY RetriesFacts DEF MemTo, MemOK, MemType

LEMMA MemUnmarked ==
    ASSUME MemOK(mem), mem' = [mem EXCEPT !.inFlight = FALSE]
    PROVE  MemTo(mem')
  BY RetriesFacts DEF MemTo, MemOK, MemType

LEMMA MemExpects ==
    ASSUME MemOK(mem), NEW id \in Ids, id \in Nat, mem' = [mem EXCEPT !.expected = @ \cup {id}]
    PROVE  MemTo(mem')
  BY RetriesFacts DEF MemTo, MemOK, MemType

LEMMA MemUnwatched ==
    ASSUME MemOK(mem),
           \/ mem' = [mem EXCEPT !.watch = NoOrder, !.retries = 0]
           \/ mem' = [mem EXCEPT !.watch = NoOrder]
           \/ mem' = [mem EXCEPT !.sla = NoOrder]
           \/ mem' = [mem EXCEPT !.retries = 0]
    PROVE  MemTo(mem')
  <1>1. NoOrder \in Nat
    BY DEF NoOrder
  <1> QED BY <1>1, RetriesFacts DEF MemTo, MemOK, MemType

LEMMA MemArmed ==
    ASSUME MemOK(mem), NEW id \in Nat, id \in Ids,
           \/ mem' = [mem EXCEPT !.sla = id]
           \/ RoleOf(id, "PANIC_EXIT") /\ mem' = [mem EXCEPT !.watch = id]
    PROVE  MemTo(mem')
  BY RetriesFacts DEF MemTo, MemOK, MemType

LEMMA MemCleaned ==
    ASSUME MemOK(mem), mem' = Cleaned(mem) \/ mem' = [Cleaned(mem) EXCEPT !.closed = TRUE]
    PROVE  MemTo(mem') /\ ~mem'.inFlight
  <1>1. NoOrder \in Nat
    BY DEF NoOrder
  <1> QED BY <1>1, RetriesFacts DEF MemTo, MemOK, MemType, Cleaned

LEMMA MemRemembers ==
    ASSUME OrdersInv, MemOK(mem), NEW u \in UpdateType, u.id \in Ids,
           u.st = "COMPLETE" => Complete(u.id), Remembers(u)
    PROVE  MemTo(mem')
  <1>1. PICK m : m = mem'
    OBVIOUS
  <1>2. u.id \in OrderIds /\ u.id \in Nat /\ u.st \in UpdateStatuses
    BY IdFacts DEF UpdateType
  <1>3. /\ mem \in MemType /\ mem.known \in [OrderIds -> KnownStatuses]
        /\ mem.seen \subseteq Ids /\ mem.expected \subseteq Ids
        /\ mem.seen \subseteq Nat /\ mem.expected \subseteq Nat
    BY DEF MemOK, MemType
  <1>4. PICK c : c = IF mem.known[u.id] \in {"none", "OPEN"}
                     THEN IF u.st = "PARTIAL" THEN "OPEN" ELSE u.st ELSE mem.known[u.id]
    OBVIOUS
  <1>5. c \in KnownStatuses /\ (c = "COMPLETE" => Complete(u.id))
    BY <1>2, <1>3, <1>4 DEF KnownStatuses, UpdateStatuses, BrokerStatuses, DeadStatuses, MemOK
  <1>6. PICK seen : seen = IF u.st = "PARTIAL" THEN mem.seen ELSE mem.seen \cup {u.id}
    OBVIOUS
  <1>7. PICK ex : ex = IF u.id \in linked /\ u.st = "CANCELLED"
                       THEN mem.expected \ {u.id} ELSE mem.expected
    OBVIOUS
  <1>8. m = [mem EXCEPT !.known[u.id] = c, !.seen = seen, !.expected = ex]
    BY <1>1, <1>4, <1>6, <1>7 DEF Remembers
  <1>9. seen \subseteq Ids /\ ex \subseteq Ids /\ seen \subseteq Nat /\ ex \subseteq Nat
    BY <1>2, <1>3, <1>6, <1>7
  <1>10. PICK kn : kn = [mem.known EXCEPT ![u.id] = c]
    OBVIOUS
  <1>11. kn \in [OrderIds -> KnownStatuses] /\ \A id \in OrderIds : kn[id] = "COMPLETE" => Complete(id)
    BY <1>2, <1>3, <1>5, <1>10 DEF MemOK
  <1>12. m = [mem EXCEPT !.known = kn, !.seen = seen, !.expected = ex]
    BY <1>8, <1>10
  <1>13. m \in MemType /\ m.known = kn /\ m.seen = seen /\ m.expected = ex /\ m.sla = mem.sla
         /\ m.watch = mem.watch /\ m.retries = mem.retries /\ m.inFlight = mem.inFlight
    BY <1>3, <1>9, <1>11, <1>12 DEF MemType
  <1>14. MemOK(m)
    BY <1>9, <1>11, <1>13 DEF MemOK
  <1> QED BY <1>1, <1>13, <1>14, RetriesFacts DEF MemTo

(* What the row may become.                                                 *)
RowTo(r) ==
    /\ r \in RowType /\ Named(r)
    /\ row.sl # NoOrder => r.sl # NoOrder
    /\ row.panic # NoOrder => r.panic # NoOrder
    /\ Terminal(row.status) => Terminal(r.status)
    /\ ~Bought /\ ~Terminal(row.status) /\ Terminal(r.status) => Sold

LEMMA RowMoves ==
    ASSUME RolesStay, pos' = pos, RowTo(row')
    PROVE  RowGoes
  <1>1. PICK r : r = row'
    OBVIOUS
  <1>2. Named(r)
    BY <1>1 DEF RowTo
  <1>3. Named(r)'
    BY <1>2, NamedKept
  <1>4. Named(row)'
    BY <1>1, <1>3
  <1> QED BY <1>4 DEF RowTo, RowGoes, FlatWhenClosed, Sold

LEMMA RowSame ==
    ASSUME RowInv, row' = row
    PROVE  RowTo(row')
  BY DEF RowInv, RowTo

(* The orders are left alone, or one is cancelled.                          *)
LEMMA OrdersSame ==
    ASSUME OrdersInv, orders' = orders, pos' = pos
    PROVE  OrdersGo /\ RolesStay
  BY RolesGo DEF OrdersInv, OrdersGo

LEMMA OrderDies ==
    ASSUME OrdersInv, NEW id, Working(id), NEW st \in DeadStatuses, pos' = pos,
           orders' = [orders EXCEPT ![id].st = st]
    PROVE  OrdersGo /\ RolesStay
  <1>1. id \in Ids /\ orders[id].st = "OPEN" /\ orders[id] \in OrderType
    BY IdFacts DEF Working, Ids
  <1>2. PICK o : o = [orders[id] EXCEPT !.st = st]
    OBVIOUS
  <1>3. o \in OrderType /\ o.role = orders[id].role /\ o.side = orders[id].side
        /\ o.left = orders[id].left /\ o.st = st
    BY <1>1, <1>2 DEF OrderType, BrokerStatuses, DeadStatuses
  <1>4. orders' = [orders EXCEPT ![id] = o] /\ orders \in Seq(OrderType)
    BY <1>2 DEF OrdersInv
  <1>5. orders' \in Seq(OrderType) /\ Len(orders') = Len(orders) /\ orders'[id] = o
        /\ \A k \in Ids : k # id => orders'[k] = orders[k]
    BY <1>1, <1>3, <1>4 DEF Ids
  <1>6. OrdersGo
    BY <1>1, <1>3, <1>5 DEF OrdersGo
  <1> QED BY <1>6, RolesGo

LEMMA ReportsOK ==
    ASSUME OrdersInv, RolesStay, UpdatesOK(news), NEW id \in Ids, NEW st \in UpdateStatuses,
           st = "COMPLETE" => Complete(id)', news' = news \cup Reports(id, st)
    PROVE  UpdatesOK(news)'
  <1>1. PICK u : u = [id |-> id, st |-> st, late |-> Terminal(row.status)]
    OBVIOUS
  <1>2. u \in UpdateType /\ u.id = id /\ u.st = st
    BY <1>1, IdFacts DEF UpdateType, Terminal
  <1>3. id \in Ids'
    BY DEF RolesStay
  <1>4. news' = news \cup {u}
    BY <1>1 DEF Reports
  <1>5. PICK w : w = news
    OBVIOUS
  <1>6. UpdatesOK(w)'
    BY <1>5, UpdatesKept
  <1> QED BY <1>2, <1>3, <1>4, <1>5, <1>6 DEF UpdatesOK

LEMMA NewsSame ==
    ASSUME RolesStay, NewsInv, news' \subseteq news, orphans' \subseteq orphans, linked' = linked
    PROVE  NewsInv'
  <1>1. PICK n, o : n = news /\ o = orphans
    OBVIOUS
  <1>2. UpdatesOK(n)' /\ UpdatesOK(o)'
    BY <1>1, UpdatesKept DEF NewsInv
  <1>3. linked' \subseteq Ids'
    BY DEF NewsInv, RolesStay
  <1> QED BY <1>1, <1>2, <1>3 DEF NewsInv, UpdatesOK

LEMMA CancelGoes ==
    ASSUME World, NEW id, Cancelled(id) \/ NotCancelled, setup' = setup /\ breach' = breach,
           orphans' = orphans,
           linked' = linked
    PROVE  OrdersGo /\ RolesStay /\ FaultsGo /\ NewsGo
  <1>1. OrdersInv /\ NewsInv
    BY DEF World
  <1>2. FaultsGo
    BY DEF FaultsGo, Cancelled, NotCancelled, NoFault, Fault
  <1>3. CASE broker' = broker
    BY <1>1, <1>2, <1>3, OrdersSame, NewsSame DEF broker, NewsGo
  <1>4. CASE /\ Working(id) /\ orders' = [orders EXCEPT ![id].st = "CANCELLED"]
             /\ news' = news \cup Reports(id, "CANCELLED") /\ pos' = pos
    <2>1. "CANCELLED" \in DeadStatuses /\ "CANCELLED" \in UpdateStatuses
      BY DEF DeadStatuses, UpdateStatuses
    <2>2. OrdersGo /\ RolesStay
      BY <1>1, <1>4, <2>1, OrderDies
    <2>3. id \in Ids
      BY <1>4 DEF Working, Ids
    <2>4. UpdatesOK(news)'
      BY <1>1, <1>4, <2>1, <2>2, <2>3, ReportsOK DEF NewsInv
    <2>5. PICK o : o = orphans
      OBVIOUS
    <2>6. UpdatesOK(o)'
      BY <1>1, <2>2, <2>5, UpdatesKept DEF NewsInv
    <2>7. linked' \subseteq Ids'
      BY <1>1, <2>2 DEF NewsInv, RolesStay
    <2> QED BY <1>2, <2>2, <2>4, <2>5, <2>6, <2>7 DEF NewsGo, NewsInv
  <1>5. broker' = broker \/ (/\ Working(id) /\ orders' = [orders EXCEPT ![id].st = "CANCELLED"]
                             /\ news' = news \cup Reports(id, "CANCELLED") /\ pos' = pos)
    BY DEF Cancelled, NotCancelled
  <1> QED BY <1>3, <1>4, <1>5

(* A step that leaves the broker alone, and one that cancels.               *)
LEMMA CalmWrites ==
    ASSUME World, setup' = setup, breach' \in {breach, TRUE}, breach => breach',
           broker' = broker,
           orphans' = orphans, linked' = linked,
           faults' = faults \/ (faults > 0 /\ faults' = faults - 1), RowTo(row'), MemTo(mem')
    PROVE  Calm
  <1>1. orders' = orders /\ pos' = pos /\ news' = news
    BY DEF broker
  <1>2. OrdersGo /\ RolesStay
    BY <1>1, OrdersSame DEF World
  <1>3. NewsGo
    BY <1>1, <1>2, NewsSame DEF World, NewsGo
  <1>4. FaultsGo
    BY DEF FaultsGo
  <1> QED BY <1>1, <1>2, <1>3, <1>4, RowMoves, MemMoves DEF Calm

LEMMA CalmCancels ==
    ASSUME World, NEW id, Cancelled(id) \/ NotCancelled, setup' = setup /\ breach' = breach,
           orphans' = orphans,
           linked' = linked, row' = row, MemTo(mem')
    PROVE  Calm
  <1>1. OrdersGo /\ RolesStay /\ FaultsGo /\ NewsGo /\ pos' = pos
    BY CancelGoes DEF OrdersGo
  <1>2. RowTo(row')
    BY RowSame DEF World
  <1> QED BY <1>1, <1>2, RowMoves, MemMoves DEF Calm

-----------------------------------------------------------------------------
(* What a write makes of the row.                                           *)
Outcomes == {"GUARD_FAILED", "ENTRY_FILLED", "LIVE", "CLOSED", "SL_CONFIRMED", "SL_PLACED",
             "PANIC_EXIT_PLACED", "EXITED_SL", "EXITED_TARGET"}
MayEnd(st) == Terminal(st) /\ ~Bought /\ ~Terminal(row.status) => Sold

LEMMA StatusMoves ==
    ASSUME NEW st \in Outcomes, NEW from \in STATUS, canTransition(from, st), Terminal(from)
    PROVE  Terminal(st)
  BY DEF Outcomes, canTransition, Terminal, TERMINAL, TERMINAL_TRADE_STATUSES

LEMMA OutcomeFacts ==
    /\ Outcomes \subseteq STATUS
    /\ \A st \in {"GUARD_FAILED", "ENTRY_FILLED", "LIVE", "SL_CONFIRMED", "SL_PLACED",
                  "PANIC_EXIT_PLACED"} : st \in Outcomes /\ ~Terminal(st)
    /\ \A st \in {"CLOSED", "EXITED_SL", "EXITED_TARGET"} : st \in Outcomes /\ Terminal(st)
  BY DEF Outcomes, STATUS, Terminal, TERMINAL_TRADE_STATUSES

(* The row is s, but for a status that may be taken or not.                 *)
Stated(r, s, st) ==
    \/ r = s
    \/ canTransition(row.status, st) /\ r = [s EXCEPT !.status = st]

LEMMA StatedGoes ==
    ASSUME RowInv, NEW st \in Outcomes, MayEnd(st), NEW s, RowTo(s), s.status = row.status,
           NEW r, Stated(r, s, st)
    PROVE  RowTo(r) /\ r.sl = s.sl /\ r.panic = s.panic /\ r.status \in {row.status, st}
  <1>1. s \in RowType /\ Named(s) /\ row.status \in STATUS /\ st \in STATUS
    BY OutcomeFacts DEF RowTo, RowInv, RowType
  <1>2. CASE r = s
    BY <1>2
  <1>3. CASE canTransition(row.status, st) /\ r = [s EXCEPT !.status = st]
    <2>1. r \in RowType /\ r.status = st /\ r.sl = s.sl /\ r.tgt = s.tgt /\ r.panic = s.panic
          /\ r.exit = s.exit
      BY <1>1, <1>3 DEF RowType
    <2>2. Named(r)
      BY <1>1, <2>1 DEF Named
    <2>3. Terminal(row.status) => Terminal(st)
      BY <1>1, <1>3, StatusMoves
    <2> QED BY <2>1, <2>2, <2>3 DEF RowTo, MayEnd
  <1> QED BY <1>2, <1>3 DEF Stated

LEMMA WroteStatus ==
    ASSUME RowInv, NEW st \in Outcomes, MayEnd(st), Writes(Status(st))
    PROVE  RowTo(row')
  <1>1. PICK p : p = [status |-> st]
    OBVIOUS
  <1>2. DOMAIN p = {"status"} /\ p.status = st
    BY <1>1
  <1>3. PICK s : s = row
    OBVIOUS
  <1>4. s \in RowType /\ RowTo(s) /\ s.status = row.status
    BY <1>3 DEF RowInv, RowTo
  <1>5. Written(p) = s \/ (canTransition(row.status, st) /\ Written(p) = [s EXCEPT !.status = st])
    BY <1>2, <1>3, <1>4 DEF Written, RowType
  <1>6. row' = Written(p)
    BY <1>1 DEF Writes, Status
  <1>7. Stated(row', s, st)
    BY <1>5, <1>6 DEF Stated
  <1> QED BY <1>4, <1>7, StatedGoes

LEMMA WroteStop ==
    ASSUME RowInv, NEW id \in Nat \ {NoOrder}, RoleOf(id, "SL"),
           Writes([status |-> "SL_PLACED", sl |-> id])
    PROVE  RowTo(row') /\ (row'.sl = id \/ Terminal(row'.status))
  <1>1. PICK p : p = [status |-> "SL_PLACED", sl |-> id]
    OBVIOUS
  <1>2. DOMAIN p = {"status", "sl"} /\ p.status = "SL_PLACED" /\ p.sl = id
    BY <1>1
  <1>3. PICK r, s : r = row /\ s = [row EXCEPT !.sl = id]
    OBVIOUS
  <1>4. r \in RowType /\ s \in RowType /\ s.sl = id /\ s.status = r.status /\ s.tgt = r.tgt
        /\ s.panic = r.panic /\ s.exit = r.exit /\ Named(r)
    BY <1>3 DEF RowInv, RowType
  <1>5. RowTo(r) /\ RowTo(s)
    BY <1>3, <1>4 DEF RowTo, Named
  <1>6. row' = Written(p)
    BY <1>1 DEF Writes
  <1>7. CASE Terminal(row.status)
    <2>1. "SL_PLACED" \in ENTRY_RELATED_STATUS_TARGETS
      BY DEF ENTRY_RELATED_STATUS_TARGETS
    <2>2. Written(p) = row
      BY <1>2, <1>7, <2>1 DEF Written
    <2> QED BY <1>3, <1>5, <1>6, <1>7, <2>2
  <1>8. CASE ~Terminal(row.status)
    <2>1. Stated(Written(p), s, "SL_PLACED")
      <3> DEFINE takes == /\ canTransition(row.status, "SL_PLACED")
                          /\ ~staleEntryFill(row.status, "SL_PLACED")
      <3>1. row \in RowType
        BY <1>3, <1>4
      <3>2. CASE takes
        <4>1. Written(p) = [f \in DOMAIN row |-> IF f \in DOMAIN p THEN p[f] ELSE row[f]]
          BY <1>2, <1>8, <3>2 DEF Written
        <4>2. Written(p) = [s EXCEPT !.status = "SL_PLACED"]
          BY <1>2, <1>3, <3>1, <4>1 DEF RowType
        <4> QED BY <3>2, <4>2 DEF Stated
      <3>3. CASE ~takes
        <4>1. Written(p) = [f \in DOMAIN row |-> IF f \in DOMAIN p \ {"status"} THEN p[f]
                                                 ELSE row[f]]
          BY <1>2, <1>8, <3>3 DEF Written
        <4>2. Written(p) = s
          BY <1>2, <1>3, <3>1, <4>1 DEF RowType
        <4> QED BY <4>2 DEF Stated
      <3> QED BY <3>2, <3>3
    <2>2. "SL_PLACED" \in Outcomes /\ MayEnd("SL_PLACED")
      BY OutcomeFacts DEF MayEnd
    <2>3. s.status = row.status /\ s.sl = id
      BY <1>3, <1>4
    <2> QED BY <1>5, <1>6, <2>1, <2>2, <2>3, StatedGoes
  <1> QED BY <1>7, <1>8

LEMMA WrotePanic ==
    ASSUME RowInv, NEW id \in Nat \ {NoOrder}, RoleOf(id, "PANIC_EXIT"),
           NEW st \in {"GUARD_FAILED", "PANIC_EXIT_PLACED"},
           Writes([status |-> st, panic |-> id])
    PROVE  RowTo(row') /\ row'.panic # NoOrder
  <1>1. PICK p : p = [status |-> st, panic |-> id]
    OBVIOUS
  <1>2. DOMAIN p = {"status", "panic"} /\ p.status = st /\ p.panic = id
    BY <1>1
  <1>3. PICK s : s = [row EXCEPT !.panic = id]
    OBVIOUS
  <1>4. row \in RowType /\ s \in RowType /\ s.panic = id /\ s.status = row.status /\ s.tgt = row.tgt
        /\ s.sl = row.sl /\ s.exit = row.exit /\ Named(row)
    BY <1>3 DEF RowInv, RowType
  <1>5. RowTo(s)
    BY <1>4 DEF RowTo, Named
  <1>6. st \notin ENTRY_RELATED_STATUS_TARGETS
    BY DEF ENTRY_RELATED_STATUS_TARGETS
  <1>7. Stated(Written(p), s, st)
    BY <1>2, <1>3, <1>4, <1>6 DEF Written, RowType, Stated
  <1>8. row' = Written(p)
    BY <1>1 DEF Writes
  <1>9. st \in Outcomes /\ MayEnd(st)
    BY OutcomeFacts DEF MayEnd
  <1> QED BY <1>4, <1>5, <1>7, <1>8, <1>9, StatedGoes

LEMMA WroteExit ==
    ASSUME RowInv, NEW id \in Nat, id \in Ids, NEW st \in {"EXITED_SL", "EXITED_TARGET"},
           MayEnd(st), Writes([status |-> st, exit |-> id])
    PROVE  RowTo(row')
  <1>1. PICK p : p = [status |-> st, exit |-> id]
    OBVIOUS
  <1>2. DOMAIN p = {"status", "exit"} /\ p.status = st /\ p.exit = id
    BY <1>1
  <1>3. PICK s : s = [row EXCEPT !.exit = id]
    OBVIOUS
  <1>4. row \in RowType /\ s \in RowType /\ s.exit = id /\ s.status = row.status /\ s.tgt = row.tgt
        /\ s.sl = row.sl /\ s.panic = row.panic /\ Named(row)
    BY <1>3 DEF RowInv, RowType
  <1>5. RowTo(s)
    BY <1>4 DEF RowTo, Named
  <1>6. st \notin ENTRY_RELATED_STATUS_TARGETS
    BY DEF ENTRY_RELATED_STATUS_TARGETS
  <1>7. Stated(Written(p), s, st)
    BY <1>2, <1>3, <1>4, <1>6 DEF Written, RowType, Stated
  <1>8. row' = Written(p)
    BY <1>1 DEF Writes
  <1>9. st \in Outcomes
    BY OutcomeFacts
  <1> QED BY <1>4, <1>5, <1>7, <1>8, <1>9, StatedGoes

LEMMA WroteTarget ==
    ASSUME RowInv, NEW id \in Nat \ {NoOrder}, RoleOf(id, "TARGET"),
           Writes([status |-> "LIVE", tgt |-> id]) \/ Writes([tgt |-> id])
    PROVE  RowTo(row')
  <1>1. PICK r, s : r = row /\ s = [row EXCEPT !.tgt = id]
    OBVIOUS
  <1>2. r \in RowType /\ s \in RowType /\ s.tgt = id /\ s.status = row.status /\ s.sl = row.sl
        /\ s.panic = row.panic /\ s.exit = row.exit /\ Named(row)
    BY <1>1 DEF RowInv, RowType
  <1>3. RowTo(s) /\ RowTo(r)
    BY <1>1, <1>2 DEF RowTo, Named
  <1>4. CASE Writes([status |-> "LIVE", tgt |-> id])
    <2>1. PICK p : p = [status |-> "LIVE", tgt |-> id]
      OBVIOUS
    <2>2. DOMAIN p = {"status", "tgt"} /\ p.status = "LIVE" /\ p.tgt = id
      BY <2>1
    <2>3. Written(p) = r \/ Stated(Written(p), s, "LIVE")
      BY <1>1, <1>2, <2>2 DEF Written, RowType, Stated
    <2>4. row' = Written(p)
      BY <1>4, <2>1 DEF Writes
    <2>5. "LIVE" \in Outcomes /\ MayEnd("LIVE")
      BY OutcomeFacts DEF MayEnd
    <2> QED BY <1>2, <1>3, <2>3, <2>4, <2>5, StatedGoes
  <1>5. CASE Writes([tgt |-> id])
    <2>1. PICK p : p = [tgt |-> id]
      OBVIOUS
    <2>2. DOMAIN p = {"tgt"} /\ p.tgt = id
      BY <2>1
    <2>3. Written(p) = s
      BY <1>1, <1>2, <2>2 DEF Written, RowType
    <2>4. row' = Written(p)
      BY <1>5, <2>1 DEF Writes
    <2> QED BY <1>3, <2>3, <2>4
  <1> QED BY <1>4, <1>5

LEMMA WroteNoTarget ==
    ASSUME RowInv, \/ Writes([tgt |-> NoOrder])
                   \/ /\ row.replaced < TARGET_REPLACE_MAX
                      /\ Writes([tgt |-> NoOrder, replaced |-> row.replaced + 1])
    PROVE  RowTo(row')
  <1>1. row \in RowType /\ Named(row) /\ NoOrder \in Nat
    BY DEF RowInv, NoOrder
  <1>2. ASSUME NEW s \in RowType, s.tgt = NoOrder, s.status = row.status, s.sl = row.sl,
               s.panic = row.panic, s.exit = row.exit
        PROVE  RowTo(s)
    BY <1>1, <1>2 DEF RowTo, Named
  <1>3. CASE Writes([tgt |-> NoOrder])
    <2>1. PICK p : p = [tgt |-> NoOrder]
      OBVIOUS
    <2>2. DOMAIN p = {"tgt"} /\ p.tgt = NoOrder
      BY <2>1
    <2>3. Written(p) = [row EXCEPT !.tgt = NoOrder]
      BY <1>1, <2>2 DEF Written, RowType
    <2>4. row' = [row EXCEPT !.tgt = NoOrder]
      BY <1>3, <2>1, <2>3 DEF Writes
    <2>5. row' \in RowType /\ row'.tgt = NoOrder /\ row'.status = row.status /\ row'.sl = row.sl
          /\ row'.panic = row.panic /\ row'.exit = row.exit
      BY <1>1, <2>4 DEF RowType
    <2> QED BY <1>2, <2>5
  <1>4. CASE row.replaced < TARGET_REPLACE_MAX
             /\ Writes([tgt |-> NoOrder, replaced |-> row.replaced + 1])
    <2>1. PICK n : n = row.replaced + 1
      OBVIOUS
    <2>2. row.replaced \in 0 .. TARGET_REPLACE_MAX
      BY <1>1 DEF RowType
    <2>3. n \in 0 .. TARGET_REPLACE_MAX
      BY <1>4, <2>1, <2>2, LifecycleAssumption
    <2>4. PICK p : p = [tgt |-> NoOrder, replaced |-> n]
      OBVIOUS
    <2>5. DOMAIN p = {"tgt", "replaced"} /\ p.tgt = NoOrder /\ p.replaced = n
      BY <2>4
    <2>6. Written(p) = [row EXCEPT !.tgt = NoOrder, !.replaced = n]
      BY <1>1, <2>5 DEF Written, RowType
    <2>7. row' = [row EXCEPT !.tgt = NoOrder, !.replaced = n]
      BY <1>4, <2>1, <2>4, <2>6 DEF Writes
    <2>8. row' \in RowType /\ row'.tgt = NoOrder /\ row'.status = row.status /\ row'.sl = row.sl
          /\ row'.panic = row.panic /\ row'.exit = row.exit
      BY <1>1, <2>3, <2>7 DEF RowType
    <2> QED BY <1>2, <2>8
  <1> QED BY <1>3, <1>4

LEMMA WroteCleanup ==
    ASSUME RowInv, NEW b \in BOOLEAN, Writes([cleanup |-> b])
    PROVE  RowTo(row') /\ row'.status = row.status
  <1>1. PICK p : p = [cleanup |-> b]
    OBVIOUS
  <1>2. DOMAIN p = {"cleanup"} /\ p.cleanup = b
    BY <1>1
  <1>3. row \in RowType /\ Named(row)
    BY DEF RowInv
  <1>4. Written(p) = [row EXCEPT !.cleanup = b]
    BY <1>2, <1>3 DEF Written, RowType
  <1>5. row' = [row EXCEPT !.cleanup = b]
    BY <1>1, <1>4 DEF Writes
  <1>6. row' \in RowType /\ row'.tgt = row.tgt /\ row'.status = row.status /\ row'.sl = row.sl
        /\ row'.panic = row.panic /\ row'.exit = row.exit
    BY <1>3, <1>5 DEF RowType
  <1> QED BY <1>3, <1>6 DEF RowTo, Named

LEMMA WroteNothing ==
    ASSUME RowInv, Writes(<<>>)
    PROVE  RowTo(row')
  <1>1. PICK p : p = <<>>
    OBVIOUS
  <1>2. DOMAIN p = {}
    BY <1>1
  <1>3. Written(p) = row
    BY <1>2 DEF Written, RowInv, RowType
  <1>4. row' = row
    BY <1>1, <1>3 DEF Writes
  <1> QED BY <1>4, RowSame

-----------------------------------------------------------------------------
(* Frames to go on with.                                                    *)

LEMMA TopFacts ==
    ASSUME IInv, NEW p \in Procs, NEW pc, At(p, pc), NEW f, f = Top(p)
    PROVE  f \in FrameT /\ FrameOK(p, f) /\ f.pc = pc /\ pc \in PcsOf(p) /\ h[p] # <<>>
  <1>1. h[p] # <<>> /\ f.pc = pc
    BY DEF At
  <1>2. FrameOK(p, f)
    BY <1>1, TopFrame DEF IInv
  <1> QED BY <1>1, <1>2 DEF FrameOK

LEMMA OnlyPipeline ==
    ASSUME IInv, NEW p \in Procs, NEW pc, At(p, pc), pc \notin TimerPcs
    PROVE  p = "pipeline" /\ PcsOf(p) = PipelinePcs
  <1>1. pc \in PcsOf(p)
    BY TopFacts
  <1> QED BY <1>1, ProcNames DEF PcsOf, TimerPcs

LEMMA OnlyTimer ==
    ASSUME IInv, NEW p \in Procs, NEW pc, At(p, pc), pc \notin PipelinePcs
    PROVE  p = "timer"
  <1>1. pc \in PcsOf(p)
    BY TopFacts
  <1> QED BY <1>1, ProcNames DEF PcsOf

(* A panic exit of the pipeline, or of the watchdog of the stop.            *)
LEMMA PanicProcs ==
    ASSUME IInv, NEW p \in Procs, NEW pc, At(p, pc), pc \in PanickingPcs \cup {"sla", "confirm"}
    PROVE  /\ pc \in PanickingPcs => p = "pipeline" \/ ~Alone
           /\ pc \in PanickingPcs => PanickingPcs \cup {"finalize"} \subseteq PcsOf(p)
  <1>1. pc \in PcsOf(p)
    BY TopFacts
  <1>2. "finalize" \in TimerPcs /\ "finalize" \in PipelinePcs
        /\ PanickingPcs \subseteq TimerPcs /\ PanickingPcs \subseteq PipelinePcs
    BY DEF TimerPcs, PipelinePcs, LoneTimerPcs
  <1>3. pc \in PanickingPcs => pc \notin LoneTimerPcs
    BY DEF PanickingPcs, LoneTimerPcs, TimeoutPcs
  <1>4. ASSUME pc \in PanickingPcs, p # "pipeline"
        PROVE  ~Alone
    BY <1>1, <1>3, <1>4 DEF PcsOf
  <1>5. ASSUME pc \in PanickingPcs, p # "pipeline"
        PROVE  PcsOf(p) = TimerPcs
    BY <1>4, <1>5 DEF PcsOf
  <1>6. PcsOf("pipeline") = PipelinePcs
    BY DEF PcsOf
  <1> QED BY <1>2, <1>4, <1>5, <1>6

PlainPcs ==
    {"recheck", "breach", "unlock", "target", "live", "place", "halt", "guardMark",
     "guardCancel", "positions", "deadTarget", "panic", "panicRead", "confirm"}

LEMMA PcsFacts ==
    /\ PcsOf("pipeline") = PipelinePcs
    /\ PipelinePcs \subseteq Pcs /\ TimerPcs \subseteq Pcs /\ LoneTimerPcs \subseteq TimerPcs
    /\ \A p : PcsOf(p) \subseteq Pcs
  BY DEF PcsOf, Pcs, TimerPcs

LEMMA PcsStay ==
    ASSUME breach => breach', NEW p
    PROVE  PcsOf(p) \subseteq PcsOf(p)'
  BY DEF PcsOf, TimerPcs, Alone

LEMMA LaterFrame ==
    ASSUME NEW p \in Procs, NEW g \in FrameT, g.pc \in PcsOf(p)', Refers(g)', g.pc \in PlainPcs
    PROVE  FrameOK(p, g)'
  <1>1. Role(p, g)'
    BY DEF PlainPcs, Role, StopPcs, TargetPcs, SoldPcs, TimeoutPcs
  <1>2. Places(g)' /\ Closes(g)'
    BY DEF PlainPcs, Places, Closes
  <1> QED BY <1>1, <1>2 DEF FrameOK

LEMMA PlainFrame ==
    ASSUME breach => breach', NEW p \in Procs, NEW g \in FrameT, g.pc \in PcsOf(p), Refers(g)',
           g.pc \in PlainPcs
    PROVE  FrameOK(p, g)'
  BY PcsStay, LaterFrame

LEMMA RefersNothing ==
    ASSUME NEW g, g.id = NoOrder, g.t = NewRow, g.todo = <<>>
    PROVE  Refers(g)'
  <1>1. Named(g.t)'
    BY NewRowType DEF Named
  <1>2. DOMAIN g.todo = {}
    OBVIOUS
  <1> QED BY <1>1, <1>2 DEF Refers

LEMMA NewPlain ==
    ASSUME breach => breach', NEW p \in Procs, NEW c \in PlainPcs, c \in PcsOf(p), NEW g,
           g = Frame(c) \/ \E b \in BOOLEAN : g = [Frame(c) EXCEPT !.flag = b]
    PROVE  FrameOK(p, g)' /\ g.pc = c
  <1>1. c \in Pcs
    BY PcsFacts
  <1>2. PICK f : f = Frame(c)
    OBVIOUS
  <1>3. f \in FrameT /\ f.pc = c /\ f.id = NoOrder /\ f.t = NewRow /\ f.todo = <<>>
    BY <1>1, <1>2, NewFrame
  <1>4. g \in FrameT /\ g.pc = c /\ g.id = NoOrder /\ g.t = NewRow /\ g.todo = <<>>
    BY <1>2, <1>3 DEF FrameT
  <1> QED BY <1>4, RefersNothing, PlainFrame

LEMMA PanicFrame ==
    ASSUME breach => breach', NEW p \in Procs, "panic" \in PcsOf(p), NEW b \in BOOLEAN, NEW g,
           g = Panic(b)
    PROVE  FrameOK(p, g)' /\ g.pc = "panic"
  <1>1. "panic" \in PlainPcs
    BY DEF PlainPcs
  <1>2. g = [Frame("panic") EXCEPT !.flag = b]
    BY DEF Panic
  <1> QED BY <1>1, <1>2, NewPlain

(* A frame that goes on elsewhere.                                          *)
LEMMA FramePc ==
    ASSUME NEW f \in FrameT, NEW c \in Pcs, NEW g, g = [f EXCEPT !.pc = c]
    PROVE  /\ g \in FrameT /\ g.pc = c /\ g.id = f.id /\ g.st = f.st /\ g.t = f.t /\ g.q = f.q
           /\ g.todo = f.todo /\ g.flag = f.flag
  BY DEF FrameT

LEMMA PlainNext ==
    ASSUME breach => breach', NEW p \in Procs, NEW f, FrameOK(p, f)', NEW g \in FrameT,
           g.id \in {f.id, NoOrder}, g.t = f.t, g.todo = f.todo, g.pc \in PlainPcs,
           g.pc \in PcsOf(p)
    PROVE  FrameOK(p, g)'
  <1>1. Refers(g)'
    BY DEF FrameOK, Refers
  <1> QED BY <1>1, PlainFrame

LEMMA PairOfFrames ==
    ASSUME NEW f \in FrameT, NEW g \in FrameT
    PROVE  <<f>> \o <<g>> = <<f, g>>
  <1>1. <<f>> \in Seq(FrameT) /\ <<g>> \in Seq(FrameT) /\ <<f, g>> \in Seq(FrameT)
        /\ Len(<<f>>) = 1 /\ Len(<<g>>) = 1 /\ Len(<<f, g>>) = 2
    OBVIOUS
  <1>2. PICK z : z = <<f>> \o <<g>>
    OBVIOUS
  <1>3. z \in Seq(FrameT) /\ Len(z) = 2 /\ z[1] = f /\ z[2] = g
    BY <1>1, <1>2
  <1>4. z = <<f, g>>
    BY <1>1, <1>3
  <1> QED BY <1>2, <1>4

(* What is not shown by the row is in the hands of the pipeline.            *)
LEMMA StopKnown ==
    ASSUME IInv, NEW pc, At("pipeline", pc), pc # "slRow", ~Terminal(row.status)
    PROVE  NoStop \/ row.sl # NoOrder
  <1>1. ASSUME NEW i \in Ids, orders[i].role = "SL"
        PROVE  row.sl # NoOrder
    <2>1. \A q \in Procs : ~At(q, "slRow")
      <3> SUFFICES ASSUME NEW q \in Procs, At(q, "slRow")
                   PROVE  FALSE
        OBVIOUS
      <3>1. "slRow" \notin TimerPcs
        BY DEF TimerPcs, LoneTimerPcs, TimeoutPcs, PanickingPcs
      <3>2. q = "pipeline"
        BY <3>1, OnlyPipeline
      <3> QED BY <3>2 DEF At
    <2>2. row.sl = i
      BY <1>1, <2>1 DEF IInv, Claims, StopHeld
    <2> QED BY <2>2, IdFacts DEF IInv, World, NoOrder
  <1> QED BY <1>1 DEF NoStop

(* A calm step of a process that starts with its top frame.                 *)
LEMMA TopKept ==
    ASSUME IInv, Calm, NEW p \in Procs, NEW f, FrameOK(p, f)
    PROVE  FrameOK(p, f)'
  BY CalmKeeps DEF IInv, Keeps

LEMMA QuietAt ==
    ASSUME NEW p \in Procs, NEW pc, At(p, pc), pc \notin PanicPcs \cup {"slRow"}
    PROVE  Quiet(p)
  BY DEF Quiet, At

-----------------------------------------------------------------------------
(* Steps that place no order: of the entry and the exits.                   *)

LEMMA WorldParts ==
    ASSUME IInv
    PROVE  World /\ OrdersInv /\ NewsInv /\ RowInv /\ MemOK(mem) /\ SoleInv /\ FramesInv
  BY DEF IInv, World

LEMMA EntrySteps ==
    ASSUME IInv, NEW p \in Procs, FinalizeEntryFill(p)
    PROVE  Well
  <1>1. At(p, "entry") /\ setup' = setup /\ breach' = breach /\ faults' = faults
        /\ broker' = broker
        /\ orphans' = orphans /\ linked' = linked
    BY DEF FinalizeEntryFill
  <1>2. PICK f : f = Top(p)
    OBVIOUS
  <1>3. "entry" \notin TimerPcs /\ "entry" \notin PanicPcs \cup {"slRow"}
    BY DEF TimerPcs, LoneTimerPcs, TimeoutPcs, PanickingPcs, PanicPcs
  <1>4. p = "pipeline" /\ PcsOf(p) = PipelinePcs /\ Quiet(p)
    BY <1>1, <1>3, OnlyPipeline, QuietAt
  <1>5. FrameOK(p, f) /\ f.pc = "entry"
    BY <1>1, <1>2, TopFacts
  <1>6. {"panic", "recheck"} \subseteq PlainPcs /\ {"panic", "recheck", "exits"} \subseteq PipelinePcs
    BY DEF PlainPcs, PipelinePcs, PanickingPcs
  <1>7. CASE setup.fill = "ENTRY_SLIPPAGE"
    <2>1. Writes(Status("GUARD_FAILED")) /\ Goes(p, <<Panic(FALSE)>>)
      BY <1>7 DEF FinalizeEntryFill
    <2>2. PICK k \in {mem.kill, TRUE} : mem' = [mem EXCEPT !.kill = k]
      BY <1>7 DEF FinalizeEntryFill
    <2>3. k \in BOOLEAN
      BY <2>2, WorldParts DEF MemOK, MemType
    <2>4. MemTo(mem')
      BY <2>2, <2>3, WorldParts, MemFlags
    <2>5. RowTo(row')
      BY <2>1, WorldParts, OutcomeFacts, WroteStatus DEF MayEnd
    <2>6. Calm
      BY <1>1, <2>4, <2>5, WorldParts, CalmWrites
    <2>7. PICK g : g = Panic(FALSE)
      OBVIOUS
    <2>8. FrameOK(p, g)' /\ g.pc = "panic"
      BY <1>1, <1>4, <1>6, <2>7, PanicFrame
    <2> QED BY <1>4, <2>1, <2>6, <2>7, <2>8, CalmOne
  <1>8. CASE setup.fill # "ENTRY_SLIPPAGE"
    <2>1. Writes(Status("ENTRY_FILLED")) /\ mem' = mem
          /\ Goes(p, IF setup.fill = "FAIR" THEN <<Frame("exits")>>
                     ELSE <<Frame("recheck"), Frame("exits")>>)
      BY <1>8 DEF FinalizeEntryFill
    <2>2. MemTo(mem')
      BY <2>1, WorldParts, MemSame
    <2>3. RowTo(row')
      BY <2>1, WorldParts, OutcomeFacts, WroteStatus DEF MayEnd
    <2>4. Calm
      BY <1>1, <2>2, <2>3, WorldParts, CalmWrites
    <2>5. PICK g : g = Frame("exits")
      OBVIOUS
    <2>6. FrameOK(p, f)'
      BY <1>5, <2>4, TopKept
    <2>7. "exits" \in Pcs /\ "recheck" \in Pcs
      BY <1>6, PcsFacts
    <2>8. g \in FrameT /\ g.pc = "exits" /\ g.id = NoOrder /\ g.t = NewRow /\ g.todo = <<>>
      BY <2>5, <2>7, NewFrame
    <2>9. FrameOK(p, g)'
      <3>1. Refers(g)' /\ PcsOf(p) \subseteq PcsOf(p)'
        BY <1>1, <2>8, RefersNothing, PcsStay
      <3>2. Places(g)'
        BY <1>5, <2>6, <2>8 DEF FrameOK, Places
      <3>3. Role(p, g)' /\ Closes(g)'
        BY <2>8 DEF Role, Closes, StopPcs, TargetPcs, SoldPcs, TimeoutPcs
      <3> QED BY <1>4, <1>6, <2>8, <3>1, <3>2, <3>3 DEF FrameOK
    <2>10. PICK e : e = Frame("recheck")
      OBVIOUS
    <2>11. FrameOK(p, e)' /\ e.pc = "recheck" /\ e.pc \in Nested
      BY <1>1, <1>4, <1>6, <2>10, NewPlain DEF Nested
    <2>12. CASE setup.fill = "FAIR"
      <3>1. Goes(p, <<g>>)
        BY <2>1, <2>5, <2>12
      <3> QED BY <1>4, <2>4, <2>8, <2>9, <3>1, CalmOne
    <2>13. CASE setup.fill # "FAIR"
      <3>1. Goes(p, <<e, g>>)
        BY <2>1, <2>5, <2>10, <2>13
      <3> QED BY <1>4, <2>4, <2>8, <2>9, <2>11, <3>1, CalmTwo
    <2> QED BY <2>12, <2>13
  <1> QED BY <1>7, <1>8

LEMMA RecheckSteps ==
    ASSUME IInv, NEW p \in Procs, Recheck(p)
    PROVE  Well
  <1>1. At(p, "recheck") /\ setup' = setup /\ breach' = breach /\ faults' = faults
        /\ broker' = broker
        /\ orphans' = orphans /\ linked' = linked /\ row' = row /\ mem' = mem
    BY DEF Recheck
  <1>2. Goes(p, <<>>) \/ Goes(p, <<Frame("breach"), Panic(FALSE)>>)
    BY DEF Recheck
  <1>3. "recheck" \notin TimerPcs /\ "recheck" \notin PanicPcs \cup {"slRow"}
    BY DEF TimerPcs, LoneTimerPcs, TimeoutPcs, PanickingPcs, PanicPcs
  <1>4. p = "pipeline" /\ PcsOf(p) = PipelinePcs /\ Quiet(p)
    BY <1>1, <1>3, OnlyPipeline, QuietAt
  <1>5. "breach" \in PlainPcs /\ {"panic", "breach"} \subseteq PipelinePcs
    BY DEF PlainPcs, PipelinePcs, PanickingPcs
  <1>6. Calm
    BY <1>1, WorldParts, MemSame, RowSame, CalmWrites
  <1>7. PICK e, g : e = Frame("breach") /\ g = Panic(FALSE)
    OBVIOUS
  <1>8. FrameOK(p, e)' /\ e.pc = "breach" /\ e.pc \in Nested
    BY <1>1, <1>4, <1>5, <1>7, NewPlain DEF Nested
  <1>9. FrameOK(p, g)' /\ g.pc = "panic"
    BY <1>1, <1>4, <1>5, <1>7, PanicFrame
  <1>10. CASE Goes(p, <<>>)
    BY <1>4, <1>6, <1>10, CalmReturns DEF Returns
  <1>11. CASE Goes(p, <<Frame("breach"), Panic(FALSE)>>)
    <2>1. Goes(p, <<e, g>>)
      BY <1>7, <1>11
    <2> QED BY <1>4, <1>6, <1>8, <1>9, <2>1, CalmTwo
  <1> QED BY <1>2, <1>10, <1>11

LEMMA BreachSteps ==
    ASSUME IInv, NEW p \in Procs, MarkBreach(p)
    PROVE  Well
  <1>1. At(p, "breach") /\ setup' = setup /\ breach' = breach /\ faults' = faults
        /\ broker' = broker
        /\ orphans' = orphans /\ linked' = linked /\ mem' = mem /\ Returns(p)
        /\ Writes(Status("GUARD_FAILED"))
    BY DEF MarkBreach
  <1>2. Quiet(p)
    BY <1>1, QuietAt DEF PanicPcs
  <1>3. RowTo(row')
    BY <1>1, WorldParts, OutcomeFacts, WroteStatus DEF MayEnd
  <1>4. Calm
    BY <1>1, <1>3, WorldParts, MemSame, CalmWrites
  <1> QED BY <1>1, <1>2, <1>4, CalmReturns

LEMMA PlaceExitsSteps ==
    ASSUME IInv, NEW p \in Procs, PlaceExits(p)
    PROVE  Well
  <1>1. At(p, "exits") /\ setup' = setup /\ breach' = breach /\ faults' = faults
        /\ broker' = broker
        /\ orphans' = orphans /\ linked' = linked /\ row' = row
    BY DEF PlaceExits
  <1>2. PICK f : f = Top(p)
    OBVIOUS
  <1>3. "exits" \notin TimerPcs /\ "exits" \notin PanicPcs \cup {"slRow"}
    BY DEF TimerPcs, LoneTimerPcs, TimeoutPcs, PanickingPcs, PanicPcs
  <1>4. p = "pipeline" /\ PcsOf(p) = PipelinePcs /\ Quiet(p)
    BY <1>1, <1>3, OnlyPipeline, QuietAt
  <1>5. FrameOK(p, f) /\ f.pc = "exits"
    BY <1>1, <1>2, TopFacts
  <1>6. RowTo(row')
    BY <1>1, WorldParts, RowSame
  <1>7. CASE mem.lock
    <2>1. Returns(p) /\ mem' = mem
      BY <1>7 DEF PlaceExits
    <2>2. Calm
      BY <1>1, <1>6, <2>1, WorldParts, MemSame, CalmWrites
    <2> QED BY <1>4, <2>1, <2>2, CalmReturns
  <1>8. CASE ~mem.lock
    <2>1. mem' = [mem EXCEPT !.lock = TRUE]
      BY <1>8 DEF PlaceExits
    <2>2. MemTo(mem')
      BY <2>1, WorldParts, MemFlags
    <2>3. Calm
      BY <1>1, <1>6, <2>2, WorldParts, CalmWrites
    <2>4. PICK c : c = IF row.sl = NoOrder THEN "stop" ELSE "target"
      OBVIOUS
    <2>5. PICK b : b = (row.status \in Filled)
      OBVIOUS
    <2>6. PICK g : g = [Frame(c) EXCEPT !.flag = b]
      OBVIOUS
    <2>7. Goes(p, <<g>>)
      BY <1>8, <2>4, <2>5, <2>6 DEF PlaceExits
    <2>8. c \in PipelinePcs /\ c \in Pcs /\ b \in BOOLEAN
      BY <2>4, <2>5, PcsFacts DEF PipelinePcs
    <2>9. PICK e : e = Frame(c)
      OBVIOUS
    <2>10. e \in FrameT /\ e.pc = c /\ e.id = NoOrder /\ e.t = NewRow /\ e.todo = <<>>
      BY <2>8, <2>9, NewFrame
    <2>11. g \in FrameT /\ g.pc = c /\ g.id = NoOrder /\ g.t = NewRow /\ g.todo = <<>>
      BY <2>6, <2>8, <2>9, <2>10 DEF FrameT
    <2>12. FrameOK(p, g)'
      <3>1. Refers(g)' /\ PcsOf(p) \subseteq PcsOf(p)'
        BY <1>1, <2>11, RefersNothing, PcsStay
      <3>2. FrameOK(p, f)'
        BY <1>5, <2>3, TopKept
      <3>3. g.pc = "stop" => NoStop'
        BY <1>1, <1>5, <2>4, <2>11, <3>2 DEF FrameOK, Places
      <3>4. Places(g)'
        BY <2>4, <2>11, <3>3 DEF Places
      <3>5. Role(p, g)' /\ Closes(g)'
        BY <2>4, <2>11 DEF Role, Closes, StopPcs, TargetPcs, SoldPcs, TimeoutPcs
      <3> QED BY <1>4, <2>8, <2>11, <3>1, <3>4, <3>5 DEF FrameOK
    <2> QED BY <1>4, <2>3, <2>4, <2>7, <2>11, <2>12, CalmOne
  <1> QED BY <1>7, <1>8

LEMMA UnlockSteps ==
    ASSUME IInv, NEW p \in Procs, Unlock(p)
    PROVE  Well
  <1>1. At(p, "unlock") /\ setup' = setup /\ breach' = breach /\ faults' = faults
        /\ broker' = broker
        /\ orphans' = orphans /\ linked' = linked /\ row' = row /\ Returns(p)
        /\ mem' = [mem EXCEPT !.lock = FALSE]
    BY DEF Unlock
  <1>2. Quiet(p)
    BY <1>1, QuietAt DEF PanicPcs
  <1>3. MemTo(mem')
    BY <1>1, WorldParts, MemFlags
  <1>4. Calm
    BY <1>1, <1>3, WorldParts, RowSame, CalmWrites
  <1> QED BY <1>1, <1>2, <1>4, CalmReturns

LEMMA StopRowSteps ==
    ASSUME IInv, NEW p \in Procs, StopRow(p)
    PROVE  Well
  <1>1. At(p, "slRow") /\ setup' = setup /\ breach' = breach /\ faults' = faults
        /\ broker' = broker
        /\ orphans' = orphans /\ linked' = linked /\ mem' = mem
        /\ Writes([status |-> "SL_PLACED", sl |-> Top(p).id]) /\ GoesTo(p, "slLink")
    BY DEF StopRow
  <1>2. PICK f : f = Top(p)
    OBVIOUS
  <1>3. "slRow" \notin TimerPcs
    BY DEF TimerPcs, LoneTimerPcs, TimeoutPcs, PanickingPcs
  <1>4. p = "pipeline" /\ PcsOf(p) = PipelinePcs
    BY <1>1, <1>3, OnlyPipeline
  <1>5. FrameOK(p, f) /\ f.pc = "slRow" /\ f \in FrameT
    BY <1>1, <1>2, TopFacts
  <1>6. RoleOf(f.id, "SL") /\ f.id \in Ids /\ f.id \in Nat \ {NoOrder}
    <2>1. RoleOf(f.id, "SL")
      BY <1>5 DEF FrameOK, Role, StopPcs
    <2> QED BY <2>1, WorldParts, IdFacts DEF RoleOf, NoOrder
  <1>7. RowTo(row') /\ (row'.sl = f.id \/ Terminal(row'.status))
    BY <1>1, <1>2, <1>6, WorldParts, WroteStop
  <1>8. Calm
    BY <1>1, <1>7, WorldParts, MemSame, CalmWrites
  <1>9. PICK g : g = [f EXCEPT !.pc = "slLink"]
    OBVIOUS
  <1>10. "slLink" \in Pcs /\ "slLink" \in PipelinePcs
    BY PcsFacts DEF PipelinePcs, StopPcs
  <1>11. g \in FrameT /\ g.pc = "slLink" /\ g.id = f.id /\ g.t = f.t /\ g.todo = f.todo
    BY <1>5, <1>9, <1>10, FramePc
  <1>12. FrameOK(p, f)'
    BY <1>5, <1>8, TopKept
  <1>13. FrameOK(p, g)'
    <2>1. Refers(g)' /\ PcsOf(p) \subseteq PcsOf(p)'
      BY <1>1, <1>11, <1>12, PcsStay DEF FrameOK, Refers
    <2>2. Role(p, g)' /\ Places(g)' /\ Closes(g)'
      BY <1>5, <1>11, <1>12 DEF FrameOK, Role, Places, Closes, StopPcs, TargetPcs, SoldPcs, TimeoutPcs
    <2> QED BY <1>4, <1>10, <1>11, <2>1, <2>2 DEF FrameOK
  <1>14. Goes(p, <<g>>)
    BY <1>1, <1>2, <1>9 DEF GoesTo
  <1>15. StopHeld'
    <2>1. Ids' = Ids /\ \A i \in Ids : orders'[i].role = orders[i].role
      BY <1>8, WorldParts, RolesGo DEF Calm, OrdersGo
    <2>2. \A i \in Ids : orders[i].role = "SL" => i = f.id
      BY <1>6, WorldParts DEF SoleInv, RoleOf
    <2> QED BY <1>7, <2>1, <2>2 DEF StopHeld
  <1>16. ~At(p, "panicRow") /\ Top(p).pc \notin PanicPcs
    BY <1>1 DEF At, PanicPcs
  <1>17. Cool(p)'
    BY <1>11, <1>14, WorldParts, CoolOne DEF HotPcs
  <1>18. Claims'
    BY <1>8, <1>14, <1>15, <1>16, <1>17, CalmMild, PanicStays, MarkerStays, TwoCool DEF Claims
  <1> QED BY <1>8, <1>13, <1>14, <1>18, OneFrame, CalmWorld DEF CalmFrames, Well, IInv

LEMMA TargetSteps ==
    ASSUME IInv, NEW p \in Procs, ConsiderTarget(p)
    PROVE  Well
  <1>1. At(p, "target") /\ setup' = setup /\ breach' = breach /\ faults' = faults
        /\ broker' = broker
        /\ orphans' = orphans /\ linked' = linked /\ row' = row /\ mem' = mem
    BY DEF ConsiderTarget
  <1>2. PICK f : f = Top(p)
    OBVIOUS
  <1>3. "target" \notin TimerPcs /\ "target" \notin PanicPcs \cup {"slRow"}
    BY DEF TimerPcs, LoneTimerPcs, TimeoutPcs, PanickingPcs, PanicPcs
  <1>4. p = "pipeline" /\ PcsOf(p) = PipelinePcs /\ Quiet(p)
    BY <1>1, <1>3, OnlyPipeline, QuietAt
  <1>5. FrameOK(p, f) /\ f \in FrameT
    BY <1>1, <1>2, TopFacts
  <1>6. Calm
    BY <1>1, WorldParts, MemSame, RowSame, CalmWrites
  <1>7. PICK g : g = [f EXCEPT !.pc = "live", !.id = NoOrder]
    OBVIOUS
  <1>8. PICK e : e = Frame("place")
    OBVIOUS
  <1>9. {"live", "place"} \subseteq PlainPcs /\ {"live", "place"} \subseteq PipelinePcs
    BY DEF PlainPcs, PipelinePcs
  <1>10. g \in FrameT /\ g.pc = "live" /\ g.id = NoOrder /\ g.t = f.t /\ g.todo = f.todo
    BY <1>5, <1>7, <1>9, PcsFacts DEF FrameT, NoOrder
  <1>11. FrameOK(p, f)'
    BY <1>5, <1>6, TopKept
  <1>12. FrameOK(p, g)' /\ g.pc \in Nested
    BY <1>1, <1>4, <1>9, <1>10, <1>11, PlainNext DEF Nested
  <1>13. FrameOK(p, e)' /\ e.pc = "place"
    BY <1>1, <1>4, <1>8, <1>9, NewPlain
  <1>14. Goes(p, <<g, e>>) \/ Goes(p, <<g>>)
    BY <1>2, <1>7, <1>8 DEF ConsiderTarget
  <1> QED BY <1>4, <1>6, <1>10, <1>12, <1>13, <1>14, CalmOne, CalmTwo

LEMMA LiveSteps ==
    ASSUME IInv, NEW p \in Procs, MarkLive(p)
    PROVE  Well
  <1>1. At(p, "live") /\ setup' = setup /\ breach' = breach /\ faults' = faults
        /\ broker' = broker
        /\ orphans' = orphans /\ linked' = linked /\ mem' = mem /\ GoesTo(p, "unlock")
    BY DEF MarkLive
  <1>2. Writes(Status("LIVE")) \/ row' = row
    BY DEF MarkLive
  <1>3. RowTo(row')
    <2>1. "LIVE" \in Outcomes /\ MayEnd("LIVE")
      BY OutcomeFacts DEF MayEnd
    <2> QED BY <1>2, <2>1, WorldParts, WroteStatus, RowSame
  <1>4. Calm
    BY <1>1, <1>3, WorldParts, MemSame, CalmWrites
  <1>5. PICK f : f = Top(p)
    OBVIOUS
  <1>6. "live" \notin TimerPcs /\ "live" \notin PanicPcs \cup {"slRow"}
    BY DEF TimerPcs, LoneTimerPcs, TimeoutPcs, PanickingPcs, PanicPcs
  <1>7. p = "pipeline" /\ PcsOf(p) = PipelinePcs /\ Quiet(p)
    BY <1>1, <1>6, OnlyPipeline, QuietAt
  <1>8. FrameOK(p, f)' /\ f \in FrameT
    BY <1>1, <1>4, <1>5, TopFacts, TopKept
  <1>9. PICK g : g = [f EXCEPT !.pc = "unlock"]
    OBVIOUS
  <1>10. "unlock" \in PlainPcs /\ "unlock" \in PipelinePcs /\ "unlock" \in Pcs
    BY PcsFacts DEF PlainPcs, PipelinePcs
  <1>11. g \in FrameT /\ g.pc = "unlock" /\ g.id = f.id /\ g.t = f.t /\ g.todo = f.todo
    BY <1>8, <1>9, <1>10, FramePc
  <1>12. FrameOK(p, g)'
    BY <1>1, <1>7, <1>8, <1>10, <1>11, PlainNext
  <1>13. Goes(p, <<g>>)
    BY <1>1, <1>5, <1>9 DEF GoesTo
  <1> QED BY <1>4, <1>7, <1>11, <1>12, <1>13, CalmOne

LEMMA TargetRowSteps ==
    ASSUME IInv, NEW p \in Procs, TargetRow(p)
    PROVE  Well
  <1>1. At(p, "tgtRow") /\ setup' = setup /\ breach' = breach /\ faults' = faults
        /\ broker' = broker
        /\ orphans' = orphans /\ linked' = linked /\ mem' = mem /\ GoesTo(p, "tgtLink")
    BY DEF TargetRow
  <1>2. PICK f : f = Top(p)
    OBVIOUS
  <1>3. "tgtRow" \notin TimerPcs /\ "tgtRow" \notin PanicPcs \cup {"slRow"}
    BY DEF TimerPcs, LoneTimerPcs, TimeoutPcs, PanickingPcs, PanicPcs
  <1>4. p = "pipeline" /\ PcsOf(p) = PipelinePcs /\ Quiet(p)
    BY <1>1, <1>3, OnlyPipeline, QuietAt
  <1>5. FrameOK(p, f) /\ f.pc = "tgtRow" /\ f \in FrameT
    BY <1>1, <1>2, TopFacts
  <1>6. RoleOf(f.id, "TARGET") /\ f.id \in Nat \ {NoOrder}
    <2>1. RoleOf(f.id, "TARGET")
      BY <1>5 DEF FrameOK, Role, TargetPcs
    <2> QED BY <2>1, WorldParts, IdFacts DEF RoleOf, NoOrder
  <1>7. RowTo(row')
    <2>1. Writes([status |-> "LIVE", tgt |-> f.id]) \/ Writes([tgt |-> f.id])
      BY <1>2 DEF TargetRow
    <2> QED BY <1>6, <2>1, WorldParts, WroteTarget
  <1>8. Calm
    BY <1>1, <1>7, WorldParts, MemSame, CalmWrites
  <1>9. PICK g : g = [f EXCEPT !.pc = "tgtLink"]
    OBVIOUS
  <1>10. "tgtLink" \in Pcs /\ "tgtLink" \in PipelinePcs
    BY PcsFacts DEF PipelinePcs, TargetPcs
  <1>11. g \in FrameT /\ g.pc = "tgtLink" /\ g.id = f.id /\ g.t = f.t /\ g.todo = f.todo
    BY <1>5, <1>9, <1>10, FramePc
  <1>12. FrameOK(p, f)'
    BY <1>5, <1>8, TopKept
  <1>13. FrameOK(p, g)'
    <2>1. Refers(g)' /\ PcsOf(p) \subseteq PcsOf(p)'
      BY <1>1, <1>11, <1>12, PcsStay DEF FrameOK, Refers
    <2>2. Role(p, g)' /\ Places(g)' /\ Closes(g)'
      BY <1>5, <1>11, <1>12 DEF FrameOK, Role, Places, Closes, StopPcs, TargetPcs, SoldPcs, TimeoutPcs
    <2> QED BY <1>4, <1>10, <1>11, <2>1, <2>2 DEF FrameOK
  <1>14. Goes(p, <<g>>)
    BY <1>1, <1>2, <1>9 DEF GoesTo
  <1> QED BY <1>4, <1>8, <1>11, <1>13, <1>14, CalmOne

LEMMA DeadTargetSteps ==
    ASSUME IInv, NEW p \in Procs, HandleDeadTarget(p)
    PROVE  Well
  <1>1. At(p, "deadTarget") /\ setup' = setup /\ breach' = breach /\ faults' = faults
        /\ broker' = broker
        /\ orphans' = orphans /\ linked' = linked /\ mem' = mem
    BY DEF HandleDeadTarget
  <1>2. "deadTarget" \notin TimerPcs /\ "deadTarget" \notin PanicPcs \cup {"slRow"}
    BY DEF TimerPcs, LoneTimerPcs, TimeoutPcs, PanickingPcs, PanicPcs
  <1>3. p = "pipeline" /\ PcsOf(p) = PipelinePcs /\ Quiet(p)
    BY <1>1, <1>2, OnlyPipeline, QuietAt
  <1>4. PICK g : g = Frame("place")
    OBVIOUS
  <1>5. "place" \in PlainPcs /\ "place" \in PipelinePcs
    BY DEF PlainPcs, PipelinePcs
  <1>6. FrameOK(p, g)' /\ g.pc = "place"
    BY <1>1, <1>3, <1>4, <1>5, NewPlain
  <1>7. row.replaced \in 0 .. TARGET_REPLACE_MAX
    BY WorldParts DEF RowInv, RowType
  <1>8. row.replaced >= TARGET_REPLACE_MAX \/ row.replaced < TARGET_REPLACE_MAX
    BY <1>7, LifecycleAssumption
  <1>9. \/ row' = row
        \/ Writes([tgt |-> NoOrder])
        \/ /\ row.replaced < TARGET_REPLACE_MAX
           /\ Writes([tgt |-> NoOrder, replaced |-> row.replaced + 1])
    BY <1>8 DEF HandleDeadTarget
  <1>10. RowTo(row')
    BY <1>9, WorldParts, RowSame, WroteNoTarget
  <1>11. Calm
    BY <1>1, <1>10, WorldParts, MemSame, CalmWrites
  <1>12. Returns(p) \/ Goes(p, <<g>>)
    BY <1>4 DEF HandleDeadTarget
  <1> QED BY <1>3, <1>6, <1>11, <1>12, CalmOne, CalmReturns

-----------------------------------------------------------------------------
(* Links, replays and postbacks.                                            *)

LEMMA CalmReads ==
    ASSUME World, setup' = setup /\ breach' = breach,
           faults' = faults \/ (faults > 0 /\ faults' = faults - 1),
           orders' = orders, pos' = pos, news' \subseteq news, orphans' \subseteq orphans,
           linked' = linked, RowTo(row'), MemTo(mem')
    PROVE  Calm
  <1>1. OrdersGo /\ RolesStay
    BY OrdersSame DEF World
  <1>2. NewsGo
    BY <1>1, NewsSame DEF World, NewsGo
  <1>3. FaultsGo
    BY DEF FaultsGo
  <1> QED BY <1>1, <1>2, <1>3, RowMoves, MemMoves DEF Calm

LEMMA CalmLinks ==
    ASSUME World, NEW id \in Ids, setup' = setup /\ breach' = breach, faults' = faults,
           broker' = broker,
           orphans' = orphans, linked' = linked \cup {id}, row' = row, mem' = mem
    PROVE  Calm
  <1>1. orders' = orders /\ pos' = pos /\ news' = news
    BY DEF broker
  <1>2. OrdersGo /\ RolesStay
    BY <1>1, OrdersSame DEF World
  <1>3. PICK n, o : n = news /\ o = orphans
    OBVIOUS
  <1>4. UpdatesOK(n)' /\ UpdatesOK(o)'
    BY <1>2, <1>3, UpdatesKept DEF World, NewsInv
  <1>5. linked' \subseteq Ids'
    BY <1>2 DEF World, NewsInv, RolesStay
  <1>6. NewsGo
    BY <1>1, <1>3, <1>4, <1>5 DEF NewsGo, NewsInv
  <1>7. RowTo(row') /\ MemTo(mem')
    BY RowSame, MemSame DEF World
  <1>8. FaultsGo
    BY DEF FaultsGo
  <1> QED BY <1>1, <1>2, <1>6, <1>7, <1>8, RowMoves, MemMoves DEF Calm

LEMMA SameOrder ==
    ASSUME breach => breach', NEW p \in Procs, NEW f, FrameOK(p, f)', NEW g \in FrameT,
           g.id = f.id,
           g.t = f.t, g.todo = f.todo, g.pc \in PcsOf(p),
           \/ f.pc \in StopPcs /\ g.pc \in {"slLink", "slReplay"}
           \/ f.pc \in TargetPcs /\ g.pc \in {"tgtLink", "tgtReplay"}
           \/ f.pc \in SoldPcs
              /\ g.pc \in {"panicLink", "panicReplay", "timeoutLink", "timeoutReplay"}
    PROVE  FrameOK(p, g)'
  <1>1. Refers(g)' /\ PcsOf(p) \subseteq PcsOf(p)'
    BY PcsStay DEF FrameOK, Refers
  <1>2. Role(p, g)'
    BY DEF FrameOK, Role, StopPcs, TargetPcs, SoldPcs, TimeoutPcs
  <1>3. Places(g)' /\ Closes(g)'
    BY DEF Places, Closes
  <1> QED BY <1>1, <1>2, <1>3 DEF FrameOK

LEMMA PlacedId ==
    ASSUME IInv, NEW p \in Procs, NEW f, FrameOK(p, f),
           f.pc \in StopPcs \cup TargetPcs \cup SoldPcs
    PROVE  /\ f.id \in Ids /\ f.id \in Nat
           /\ f.pc \in SoldPcs => RoleOf(f.id, "PANIC_EXIT")
  <1>1. f.id \in Ids
    BY DEF FrameOK, Role, RoleOf
  <1> QED BY <1>1, WorldParts, IdFacts DEF FrameOK, Role

Replays == {"slReplay", "tgtReplay", "panicReplay", "timeoutReplay"}
LEMMA ReplayFacts ==
    /\ DOMAIN ReplayAfter = {"slLink", "tgtLink", "panicLink", "timeoutLink"}
    /\ ReplayAfter["slLink"] = "slReplay" /\ ReplayAfter["tgtLink"] = "tgtReplay"
    /\ ReplayAfter["panicLink"] = "panicReplay" /\ ReplayAfter["timeoutLink"] = "timeoutReplay"
  BY DEF ReplayAfter

LEMMA LinkSteps ==
    ASSUME IInv, NEW p \in Procs, Link(p)
    PROVE  Well
  <1>1. PICK f : f = Top(p)
    OBVIOUS
  <1>2. PICK c : c = ReplayAfter[f.pc]
    OBVIOUS
  <1>3. /\ h[p] # <<>> /\ f.pc \in DOMAIN ReplayAfter /\ GoesTo(p, c) /\ setup' = setup
        /\ breach' = breach
        /\ faults' = faults /\ broker' = broker /\ orphans' = orphans /\ row' = row /\ mem' = mem
        /\ linked' = linked \cup {f.id}
    BY <1>1, <1>2 DEF Link
  <1>4. At(p, f.pc)
    BY <1>1, <1>3 DEF At
  <1>5. FrameOK(p, f) /\ f \in FrameT /\ f.pc \in PcsOf(p)
    BY <1>1, <1>4, TopFacts
  <1>6. \/ f.pc = "slLink" /\ c = "slReplay"
        \/ f.pc = "tgtLink" /\ c = "tgtReplay"
        \/ f.pc = "panicLink" /\ c = "panicReplay"
        \/ f.pc = "timeoutLink" /\ c = "timeoutReplay"
    BY <1>2, <1>3, ReplayFacts
  <1>7. f.pc \in StopPcs \cup TargetPcs \cup SoldPcs /\ f.pc \notin PanicPcs \cup {"slRow"}
    BY <1>6 DEF StopPcs, TargetPcs, SoldPcs, TimeoutPcs, PanicPcs
  <1>8. f.id \in Ids /\ Quiet(p)
    BY <1>4, <1>5, <1>7, PlacedId, QuietAt
  <1>9. Calm
    BY <1>3, <1>8, WorldParts, CalmLinks
  <1>10. c \in PcsOf(p) /\ c \in Pcs
    <2>1. c \in PcsOf(p)
      BY <1>5, <1>6 DEF PcsOf, PipelinePcs, LoneTimerPcs, TimerPcs, TimeoutPcs, PanickingPcs, StopPcs,
                        TargetPcs
    <2> QED BY <2>1, PcsFacts
  <1>11. PICK g : g = [f EXCEPT !.pc = c]
    OBVIOUS
  <1>12. g \in FrameT /\ g.pc = c /\ g.id = f.id /\ g.t = f.t /\ g.todo = f.todo
    BY <1>5, <1>10, <1>11, FramePc
  <1>13. FrameOK(p, f)'
    BY <1>5, <1>9, TopKept
  <1>14. \/ f.pc \in StopPcs /\ g.pc \in {"slLink", "slReplay"}
         \/ f.pc \in TargetPcs /\ g.pc \in {"tgtLink", "tgtReplay"}
         \/ f.pc \in SoldPcs
              /\ g.pc \in {"panicLink", "panicReplay", "timeoutLink", "timeoutReplay"}
    BY <1>6, <1>12 DEF StopPcs, TargetPcs, SoldPcs, TimeoutPcs
  <1>15. FrameOK(p, g)'
    BY <1>3, <1>10, <1>12, <1>13, <1>14, SameOrder
  <1>16. Goes(p, <<g>>)
    BY <1>1, <1>3, <1>11 DEF GoesTo
  <1> QED BY <1>8, <1>9, <1>14, <1>15, <1>16, CalmOne

(* The handler of a postback.                                               *)
LEMMA HandlingFrame ==
    ASSUME World, Calm, NEW p \in Procs, NEW u \in UpdateType, u.id \in Ids,
           u.st = "COMPLETE" => Complete(u.id), p = "timer" => RoleOf(u.id, "PANIC_EXIT"),
           Handling(u) # <<>>
    PROVE  \E g : Handling(u) = <<g>> /\ FrameOK(p, g)' /\ g.pc = "update"
  <1>1. PICK t : t = row
    OBVIOUS
  <1>2. PICK g : g = [Frame("update") EXCEPT !.id = u.id, !.st = u.st, !.t = t]
    OBVIOUS
  <1>3. Handling(u) = <<g>>
    BY <1>1, <1>2 DEF Handling
  <1>4. "update" \in Pcs /\ "update" \in PcsOf(p)
    BY PcsFacts DEF PcsOf, PipelinePcs, LoneTimerPcs, TimerPcs
  <1>5. PICK e : e = Frame("update")
    OBVIOUS
  <1>6. e \in FrameT /\ e.pc = "update" /\ e.todo = <<>>
    BY <1>4, <1>5, NewFrame
  <1>7. t \in RowType /\ Named(t) /\ u.id \in Nat /\ u.st \in UpdateStatuses
    BY <1>1 DEF World, RowInv, UpdateType
  <1>8. g \in FrameT /\ g.pc = "update" /\ g.id = u.id /\ g.st = u.st /\ g.t = t /\ g.todo = <<>>
    BY <1>2, <1>5, <1>6, <1>7 DEF FrameT
  <1>9. RolesStay /\ (breach => breach') /\ (\A id : Complete(id)' <=> Complete(id))
        /\ (\A id, role : RoleOf(id, role)' <=> RoleOf(id, role)) /\ Ids' = Ids
    BY RolesGo DEF World, Calm, FaultsGo
  <1>10. Refers(g)'
    <2>1. Named(t)' /\ DOMAIN g.todo = {}
      BY <1>7, <1>8, <1>9, NamedKept
    <2> QED BY <1>8, <1>9, <2>1 DEF Refers
  <1>11. Role(p, g)' /\ Places(g)' /\ Closes(g)'
    BY <1>8, <1>9 DEF Role, Places, Closes, StopPcs, TargetPcs, SoldPcs, TimeoutPcs
  <1>12. PcsOf(p) \subseteq PcsOf(p)'
    BY <1>9, PcsStay
  <1> QED BY <1>3, <1>4, <1>8, <1>10, <1>11, <1>12 DEF FrameOK

LEMMA ReplaySteps ==
    ASSUME IInv, NEW p \in Procs, Replay(p)
    PROVE  Well
  <1>1. PICK f : f = Top(p)
    OBVIOUS
  <1>2. /\ h[p] # <<>> /\ setup' = setup /\ breach' = breach /\ faults' = faults
        /\ broker' = broker /\ linked' = linked
        /\ row' = row /\ \E pc \in DOMAIN ReplayAfter : ReplayAfter[pc] = f.pc
    BY <1>1 DEF Replay
  <1>3. f.pc \in Replays
    BY <1>2, ReplayFacts DEF Replays
  <1>4. At(p, f.pc) /\ f.pc \notin PanicPcs \cup {"slRow"}
    BY <1>1, <1>2, <1>3 DEF At, Replays, PanicPcs
  <1>5. FrameOK(p, f) /\ f \in FrameT /\ f.pc \in PcsOf(p) /\ Quiet(p)
    BY <1>1, <1>4, TopFacts, QuietAt
  <1>6. f.pc \in StopPcs \cup TargetPcs \cup SoldPcs /\ f.pc \in Nested
        /\ (f.pc \in {"panicReplay", "timeoutReplay"} => f.pc \in SoldPcs)
    BY <1>3 DEF Replays, StopPcs, TargetPcs, SoldPcs, TimeoutPcs, Nested
  <1>7. f.id \in Ids /\ f.id \in Nat /\ (f.pc \in SoldPcs => RoleOf(f.id, "PANIC_EXIT"))
    BY <1>5, <1>6, PlacedId
  <1>8. p = "timer" => f.pc \in SoldPcs
    <2>1. f.pc \in {"slReplay", "tgtReplay"} => f.pc \notin TimerPcs
      BY DEF TimerPcs, LoneTimerPcs, TimeoutPcs, PanickingPcs
    <2>2. f.pc \in {"slReplay", "tgtReplay"} => p = "pipeline"
      BY <1>4, <2>1, OnlyPipeline
    <2> QED BY <1>3, <1>6, <2>2, ProcNames DEF Replays
  <1>9. orders' = orders /\ pos' = pos /\ news' = news /\ RowTo(row')
    BY <1>2, WorldParts, RowSame DEF broker
  <1>10. CASE \E u \in orphans : u.id = f.id /\ orphans' = orphans \ {u}
                   /\ IF Regresses(u) THEN UNCHANGED <<mem, h>>
                      ELSE Remembers(u) /\ Goes(p, <<f>> \o Handling(u))
    <2>1. PICK u \in orphans : u.id = f.id /\ orphans' = orphans \ {u}
                   /\ IF Regresses(u) THEN UNCHANGED <<mem, h>>
                      ELSE Remembers(u) /\ Goes(p, <<f>> \o Handling(u))
      BY <1>10
    <2>2. u \in UpdateType /\ (u.st = "COMPLETE" => Complete(u.id))
      BY WorldParts DEF NewsInv, UpdatesOK
    <2>3. MemTo(mem')
      BY <1>7, <2>1, <2>2, WorldParts, MemSame, MemRemembers
    <2>4. Calm
      BY <1>2, <1>9, <2>1, <2>3, WorldParts, CalmReads
    <2>5. CASE Regresses(u)
      BY <1>2, <2>1, <2>4, <2>5, CalmSame
    <2>6. CASE ~Regresses(u)
      <3>1. PICK s : s = Handling(u)
        OBVIOUS
      <3>2. Goes(p, <<f>> \o s) /\ FrameOK(p, f)'
        BY <1>5, <2>1, <2>4, <2>6, <3>1, TopKept
      <3>3. CASE s = <<>>
        <4>1. <<f>> \o <<>> = <<f>>
          BY <1>5
        <4> QED BY <1>3, <1>5, <2>4, <3>2, <3>3, <4>1, CalmOne DEF Replays
      <3>4. CASE s # <<>>
        <4>1. PICK g : Handling(u) = <<g>> /\ FrameOK(p, g)' /\ g.pc = "update"
          BY <1>7, <1>8, <2>1, <2>2, <2>4, <3>1, <3>4, WorldParts, HandlingFrame
        <4>2. g \in FrameT
          BY <4>1 DEF FrameOK
        <4>3. <<f>> \o <<g>> = <<f, g>>
          BY <1>5, <4>2, PairOfFrames
        <4> QED BY <1>5, <1>6, <2>4, <3>1, <3>2, <4>1, <4>3, CalmTwo
      <3> QED BY <3>3, <3>4
    <2> QED BY <2>5, <2>6
  <1>11. CASE /\ mem' = CASE f.pc = "slReplay" -> [mem EXCEPT !.sla = f.id]
                          [] f.pc = "tgtReplay" -> mem
                          [] OTHER -> [mem EXCEPT !.watch = f.id]
              /\ IF f.pc = "slReplay" THEN GoesTo(p, "target") ELSE Returns(p)
              /\ orphans' = orphans
    <2>1. MemTo(mem')
      <3>1. CASE f.pc = "slReplay"
        BY <1>7, <1>11, <3>1, WorldParts, MemArmed
      <3>2. CASE f.pc = "tgtReplay"
        BY <1>11, <3>2, WorldParts, MemSame
      <3>3. CASE f.pc \in {"panicReplay", "timeoutReplay"}
        <4>1. mem' = [mem EXCEPT !.watch = f.id]
          BY <1>11, <3>3
        <4> QED BY <1>6, <1>7, <3>3, <4>1, WorldParts, MemArmed
      <3> QED BY <1>3, <3>1, <3>2, <3>3 DEF Replays
    <2>2. Calm
      BY <1>2, <1>9, <1>11, <2>1, WorldParts, CalmReads
    <2>3. CASE f.pc = "slReplay"
      <3>1. PICK g : g = [f EXCEPT !.pc = "target"]
        OBVIOUS
      <3>2. p = "pipeline" /\ "target" \in PcsOf(p) /\ "target" \in PlainPcs /\ "target" \in Pcs
        <4>1. p = "pipeline"
          BY <1>8, <2>3, ProcNames DEF SoldPcs, TimeoutPcs
        <4> QED BY <4>1, PcsFacts DEF PipelinePcs, PlainPcs
      <3>3. g \in FrameT /\ g.pc = "target" /\ g.id = f.id /\ g.t = f.t /\ g.todo = f.todo
        BY <1>5, <3>1, <3>2, FramePc
      <3>4. FrameOK(p, f)'
        BY <1>5, <2>2, TopKept
      <3>5. FrameOK(p, g)'
        BY <1>2, <3>2, <3>3, <3>4, PlainNext
      <3>6. Goes(p, <<g>>)
        BY <1>1, <1>11, <2>3, <3>1 DEF GoesTo
      <3> QED BY <1>5, <2>2, <3>3, <3>5, <3>6, CalmOne
    <2>4. CASE f.pc # "slReplay"
      BY <1>5, <1>11, <2>2, <2>4, CalmReturns
    <2> QED BY <2>3, <2>4
  <1> QED BY <1>1, <1>10, <1>11 DEF Replay

LEMMA DeliverSteps ==
    ASSUME IInv, NEW u \in news, Deliver(u)
    PROVE  Well
  <1>1. /\ h["pipeline"] = <<>> /\ news' = news \ {u} /\ setup' = setup /\ breach' = breach
        /\ faults' = faults
        /\ orders' = orders /\ pos' = pos /\ linked' = linked /\ row' = row
    BY DEF Deliver
  <1>2. u \in UpdateType /\ u.id \in Ids /\ (u.st = "COMPLETE" => Complete(u.id))
    BY WorldParts DEF NewsInv, UpdatesOK
  <1>3. MemTo(mem')
    BY <1>2, WorldParts, MemSame, MemRemembers DEF Deliver
  <1>4. OrdersGo /\ RolesStay /\ RowTo(row')
    BY <1>1, WorldParts, OrdersSame, RowSame
  <1>5. orphans' = orphans \/ orphans' = orphans \cup {u}
    BY DEF Deliver
  <1>6. NewsGo
    <2>1. PICK n, o : n = news /\ o = orphans
      OBVIOUS
    <2>2. UpdatesOK(n)' /\ UpdatesOK(o)'
      BY <1>4, <2>1, WorldParts, UpdatesKept DEF NewsInv
    <2>3. linked' \subseteq Ids'
      BY <1>1, <1>4, WorldParts DEF NewsInv, RolesStay
    <2>4. u \in n
      BY <2>1
    <2> QED BY <1>1, <1>5, <2>1, <2>2, <2>3, <2>4 DEF NewsGo, NewsInv, UpdatesOK
  <1>7. Calm
    BY <1>1, <1>3, <1>4, <1>6, RowMoves, MemMoves DEF Calm, FaultsGo
  <1>8. CASE h' = h
    BY <1>1, <1>7, <1>8, CalmSame
  <1>9. CASE h' = [h EXCEPT !["pipeline"] = Handling(u)]
    <2>1. PICK s : s = Handling(u)
      OBVIOUS
    <2>2. h' = [h EXCEPT !["pipeline"] = s] /\ Quiet("pipeline")
      BY <1>1, <1>9, <2>1 DEF Quiet
    <2>3. CASE s = <<>>
      <3>1. h' = h
        BY <1>1, <2>2, <2>3, WorldParts DEF FramesInv
      <3> QED BY <1>1, <1>7, <3>1, CalmSame
    <2>4. CASE s # <<>>
      <3>1. PICK g : Handling(u) = <<g>> /\ FrameOK("pipeline", g)' /\ g.pc = "update"
        BY <1>2, <1>7, <2>1, <2>4, ProcNames, WorldParts, HandlingFrame
      <3>2. Begins("pipeline", g)
        BY <1>1, <2>1, <2>2, <3>1 DEF Begins
      <3>3. Goes("pipeline", <<g>>)
        BY <3>2, ProcNames, BeginsGoes
      <3> QED BY <1>7, <2>2, <3>1, <3>3, ProcNames, CalmOne
    <2> QED BY <2>3, <2>4
  <1>10. h' = h \/ h' = [h EXCEPT !["pipeline"] = Handling(u)]
    BY DEF Deliver
  <1> QED BY <1>8, <1>9, <1>10

-----------------------------------------------------------------------------
(* Steps that react to what the broker reports.                             *)

(* The sequences of orders to cancel.                                       *)
TodoOK(s) == s \in Seq(Nat) /\ \A i \in DOMAIN s : s[i] \in Ids

LEMMA NothingToDo == TodoOK(<<>>)
  <1>1. <<>> \in Seq(Nat) /\ DOMAIN <<>> = {}
    OBVIOUS
  <1> QED BY <1>1 DEF TodoOK

LEMMA OneToDo ==
    ASSUME NEW k \in Nat, k \in Ids
    PROVE  TodoOK(<<k>>)
  <1>1. <<k>> \in Seq(Nat) /\ DOMAIN <<k>> = {1} /\ <<k>>[1] = k
    OBVIOUS
  <1> QED BY <1>1 DEF TodoOK

LEMMA MoreToDo ==
    ASSUME NEW s, TodoOK(s), NEW z, TodoOK(z)
    PROVE  TodoOK(s \o z)
  <1>1. s \in Seq(Nat) /\ z \in Seq(Nat)
    BY DEF TodoOK
  <1>2. s \o z \in Seq(Nat) /\ DOMAIN (s \o z) = 1 .. Len(s) + Len(z)
        /\ \A k \in 1 .. Len(s) + Len(z) : (s \o z)[k] = IF k <= Len(s) THEN s[k] ELSE z[k - Len(s)]
    BY <1>1
  <1>3. \A k \in 1 .. Len(s) + Len(z) : \/ k \in DOMAIN s /\ k <= Len(s)
                                        \/ k - Len(s) \in DOMAIN z /\ ~(k <= Len(s))
    BY <1>1
  <1> QED BY <1>2, <1>3 DEF TodoOK

LEMMA RestToDo ==
    ASSUME NEW s, TodoOK(s), s # <<>>
    PROVE  Head(s) \in Ids /\ Head(s) \in Nat /\ TodoOK(Tail(s))
  <1>1. s \in Seq(Nat) /\ Len(s) \in Nat \ {0}
    BY DEF TodoOK
  <1>2. Head(s) = s[1] /\ 1 \in DOMAIN s /\ Tail(s) \in Seq(Nat) /\ DOMAIN Tail(s) = 1 .. Len(s) - 1
        /\ \A i \in 1 .. Len(s) - 1 : Tail(s)[i] = s[i + 1] /\ i + 1 \in DOMAIN s
    BY <1>1
  <1> QED BY <1>1, <1>2 DEF TodoOK

LEMMA LegToDo ==
    ASSUME NEW k \in Nat, k # NoOrder => k \in Ids
    PROVE  TodoOK(Leg(k))
  BY NothingToDo, OneToDo DEF Leg

LEMMA NamedIds ==
    ASSUME NEW t \in RowType, Named(t)
    PROVE  /\ t.sl \in Nat /\ t.tgt \in Nat /\ t.panic \in Nat
           /\ t.sl # NoOrder => t.sl \in Ids
           /\ t.tgt # NoOrder => t.tgt \in Ids
           /\ t.panic # NoOrder => t.panic \in Ids
  BY DEF RowType, Named, RoleOf

LEMMA LegsToDo ==
    ASSUME RowInv
    PROVE  TodoOK(Legs)
  <1>1. TodoOK(Leg(row.sl)) /\ TodoOK(Leg(row.tgt))
    BY NamedIds, LegToDo DEF RowInv
  <1> QED BY <1>1, MoreToDo DEF Legs

(* A frame that is new but for orders to cancel, and one that has still to  *)
(* cancel some.                                                             *)
LEMMA TodoKept ==
    ASSUME RolesStay, NEW s, TodoOK(s)
    PROVE  TodoOK(s)'
  BY DEF RolesStay, TodoOK

ToCancel(c, s) == [Frame(c) EXCEPT !.todo = s]
LEMMA TodoFrame ==
    ASSUME RolesStay, NEW c \in Pcs, NEW s, TodoOK(s), NEW g, g = ToCancel(c, s)
    PROVE  g \in FrameT /\ g.pc = c /\ g.todo = s /\ g.id = NoOrder /\ g.t = NewRow /\ Refers(g)'
  <1>1. PICK f : f = Frame(c)
    OBVIOUS
  <1>2. f \in FrameT /\ f.pc = c /\ f.id = NoOrder /\ f.t = NewRow
    BY <1>1, NewFrame
  <1>3. s \in Seq(Nat)
    BY DEF TodoOK
  <1>4. g \in FrameT /\ g.pc = c /\ g.todo = s /\ g.id = NoOrder /\ g.t = NewRow
    BY <1>1, <1>2, <1>3 DEF FrameT, ToCancel
  <1>5. Named(g.t)'
    BY <1>4, NewRowType DEF Named
  <1>6. TodoOK(s)'
    BY TodoKept
  <1> QED BY <1>4, <1>5, <1>6 DEF Refers, TodoOK

LEMMA TodoNext ==
    ASSUME World, Calm, NEW p \in Procs, NEW f, FrameOK(p, f), NEW s, TodoOK(s), NEW g,
           g = [f EXCEPT !.todo = s]
    PROVE  FrameOK(p, g)' /\ g.pc = f.pc
  <1>1. f \in FrameT /\ FrameOK(p, f)'
    BY CalmKeeps DEF FrameOK, Keeps
  <1>2. s \in Seq(Nat)
    BY DEF TodoOK
  <1>3. g \in FrameT /\ g.pc = f.pc /\ g.todo = s /\ g.id = f.id /\ g.t = f.t /\ g.st = f.st
        /\ g.q = f.q
    BY <1>1, <1>2 DEF FrameT
  <1>4. TodoOK(s)'
    BY TodoKept, RolesGo DEF World, Calm
  <1>5. Refers(g)'
    BY <1>1, <1>3, <1>4 DEF FrameOK, Refers, TodoOK
  <1>6. Role(p, g)' /\ Places(g)' /\ Closes(g)'
    BY <1>1, <1>3 DEF FrameOK, Role, Places, Closes
  <1> QED BY <1>1, <1>3, <1>5, <1>6 DEF FrameOK

LEMMA FrameTodo ==
    ASSUME NEW p, NEW f, FrameOK(p, f)
    PROVE  TodoOK(f.todo)
  BY DEF FrameOK, FrameT, Refers, TodoOK

(* What a completed exit says of the position.                              *)
LEMMA ExitSold ==
    ASSUME OrdersInv, SoleInv, NEW id, Complete(id)
    PROVE  ~Bought => Sold
  <1>1. id \in Ids /\ orders[id].left = 0 /\ orders[id] \in OrderType /\ pos \in Int
    BY IdFacts DEF OrdersInv, Complete
  <1>2. CASE orders[id].side = -1
    BY <1>1, <1>2 DEF SoleInv, Sold
  <1>3. CASE orders[id].side = 1
    <2>1. orders[id].role = "PANIC_EXIT"
      BY <1>1, <1>3 DEF OrdersInv
    <2>2. orders[id].st \notin DeadStatuses
      BY DEF Complete, DeadStatuses
    <2>3. Alone => pos + orders[id].left <= 0
      BY <1>1, <1>3, <2>1, <2>2 DEF SoleInv
    <2>4. Alone => Sold
      BY <1>1, <2>3 DEF Sold
    <2>5. ~Alone => Bought
      BY <1>1, <1>3 DEF Alone, Bought, Ids
    <2> QED BY <2>4, <2>5
  <1> QED BY <1>1, <1>2, <1>3 DEF OrderType

LEMMA SoldStays ==
    ASSUME World, Calm
    PROVE  /\ Sold => Sold'
           /\ (Alone' => Alone) /\ (~Bought' => ~Bought)
  <1>1. OrdersInv /\ FaultsGo /\ OrdersGo /\ pos' = pos
    BY DEF World, Calm, OrdersGo
  <1> QED BY <1>1, RolesGo, FaultsFacts DEF Sold

(* The frame that closes the trade.                                         *)
LEMMA FinalizeFrame ==
    ASSUME World, Calm, ~Bought => Sold, NEW p \in Procs, NEW g \in FrameT, g.pc = "finalize",
           Refers(g)'
    PROVE  FrameOK(p, g)'
  <1>1. g.pc \in PcsOf(p)'
    <2>1. "finalize" \in PcsOf(p)
      BY DEF PcsOf, PipelinePcs, LoneTimerPcs, TimerPcs
    <2> QED BY <2>1, PcsStay DEF Calm, FaultsGo
  <1>2. Role(p, g)' /\ Places(g)'
    BY DEF Role, Places, StopPcs, TargetPcs, SoldPcs, TimeoutPcs
  <1>3. Closes(g)'
    BY SoldStays DEF Closes
  <1> QED BY <1>1, <1>2, <1>3 DEF FrameOK

LEMMA NewFinalize ==
    ASSUME World, Calm, ~Bought => Sold, NEW p \in Procs, NEW g, g = Frame("finalize")
    PROVE  FrameOK(p, g)' /\ g.pc = "finalize"
  <1>1. "finalize" \in Pcs
    BY PcsFacts DEF PipelinePcs
  <1>2. g \in FrameT /\ g.pc = "finalize" /\ g.id = NoOrder /\ g.t = NewRow /\ g.todo = <<>>
    BY <1>1, NewFrame
  <1> QED BY <1>2, RefersNothing, FinalizeFrame

(* The pipeline flattens and halts.                                         *)
LEMMA FlattenGoes ==
    ASSUME IInv, Calm, Quiet("pipeline"), Goes("pipeline", FlattenAndHalt)
    PROVE  Well
  <1>1. PICK e, g : e = Frame("halt") /\ g = Panic(TRUE)
    OBVIOUS
  <1>2. (breach => breach') /\ "halt" \in PlainPcs /\ {"halt", "panic"} \subseteq PcsOf("pipeline")
    BY PcsFacts DEF Calm, FaultsGo, PlainPcs, PipelinePcs, PanickingPcs
  <1>3. FrameOK("pipeline", e)' /\ e.pc \in Nested
    BY <1>1, <1>2, ProcNames, NewPlain DEF Nested
  <1>4. FrameOK("pipeline", g)' /\ g.pc = "panic"
    BY <1>1, <1>2, ProcNames, PanicFrame
  <1>5. Goes("pipeline", <<e, g>>)
    BY <1>1 DEF FlattenAndHalt
  <1> QED BY <1>3, <1>4, <1>5, ProcNames, CalmTwo

(* The pipeline takes up a leg that has filled.                             *)
LEMMA LegGoes ==
    ASSUME IInv, Calm, Quiet("pipeline"), NEW id, Complete(id), ~RoleOf(id, "PANIC_EXIT"),
           NEW t \in RowType, Named(t), LegFilled("pipeline", id, t)
    PROVE  Well
  <1>1. PICK s : s = Leg(OtherLeg(t, orders[id].role))
    OBVIOUS
  <1>2. TodoOK(s)
    BY <1>1, NamedIds, LegToDo DEF OtherLeg
  <1>3. PICK e : e = ToCancel("oco", s)
    OBVIOUS
  <1> "oco" \in Pcs
    BY PcsFacts DEF PipelinePcs
  <1>4. "oco" \in PcsOf("pipeline")
    BY PcsFacts DEF PipelinePcs
  <1>5. World /\ OrdersInv /\ OrdersGo /\ RolesStay /\ (breach => breach')
    BY RolesGo, WorldParts DEF Calm, FaultsGo
  <1>6. e \in FrameT /\ e.pc = "oco" /\ e.todo = s /\ e.t = NewRow /\ Refers(e)'
    BY <1>2, <1>3, <1>4, <1>5, TodoFrame
  <1>7. PICK g : g = [e EXCEPT !.id = id]
    OBVIOUS
  <1>8. id \in Ids /\ id \in Nat
    BY <1>5, IdFacts DEF Complete
  <1>9. g \in FrameT /\ g.pc = "oco" /\ g.todo = s /\ g.t = NewRow /\ g.id = id
    BY <1>6, <1>7, <1>8 DEF FrameT
  <1>10. Complete(id)' /\ ~RoleOf(id, "PANIC_EXIT")' /\ id \in Ids'
    BY <1>5, <1>8, RolesGo
  <1>11. FrameOK("pipeline", g)'
    <2>1. Refers(g)'
      BY <1>6, <1>9, <1>10 DEF Refers
    <2>2. Role("pipeline", g)' /\ Places(g)' /\ Closes(g)'
      BY <1>9, <1>10 DEF Role, Places, Closes, StopPcs, TargetPcs, SoldPcs, TimeoutPcs
    <2>3. PcsOf("pipeline") \subseteq PcsOf("pipeline")'
      BY <1>5, PcsStay
    <2> QED BY <1>4, <1>9, <2>1, <2>2, <2>3 DEF FrameOK
  <1>12. g = [Frame("oco") EXCEPT !.id = id, !.todo = s]
    BY <1>3, <1>7 DEF Frame, ToCancel
  <1>13. Goes("pipeline", <<g>>)
    BY <1>1, <1>12 DEF LegFilled
  <1> QED BY <1>9, <1>11, <1>13, ProcNames, CalmOne

LEMMA UpdateFacts ==
    ASSUME IInv, NEW p \in Procs, At(p, "update"), NEW f, f = Top(p)
    PROVE  /\ FrameOK(p, f) /\ f \in FrameT /\ f.pc = "update" /\ Quiet(p)
           /\ f.id \in Ids /\ f.id \in Nat /\ f.t \in RowType /\ Named(f.t)
           /\ f.st = "COMPLETE" => Complete(f.id)
           /\ p = "timer" => orders[f.id].role = "PANIC_EXIT"
  <1>1. FrameOK(p, f) /\ f \in FrameT /\ f.pc = "update"
    BY TopFacts
  <1>2. "update" \notin PanicPcs \cup {"slRow"}
    BY DEF PanicPcs
  <1>3. Quiet(p)
    BY <1>2, QuietAt
  <1>4. f.id \in Ids /\ f.id \in Nat /\ f.t \in RowType
    BY <1>1, WorldParts, IdFacts DEF FrameOK, Role, FrameT
  <1> QED BY <1>1, <1>3, <1>4 DEF FrameOK, Role, Refers, RoleOf

LEMMA UpdateOfLegSteps ==
    ASSUME IInv, NEW p \in Procs, UpdateOfLeg(p)
    PROVE  Well
  <1>1. PICK f : f = Top(p)
    OBVIOUS
  <1>2. /\ At(p, "update") /\ orders[f.id].role \in {"SL", "TARGET"} /\ setup' = setup
        /\ breach' = breach
        /\ faults' = faults /\ broker' = broker /\ orphans' = orphans /\ linked' = linked /\ row' = row
    BY <1>1 DEF UpdateOfLeg
  <1>3. /\ FrameOK(p, f) /\ f \in FrameT /\ f.pc = "update" /\ Quiet(p)
        /\ f.id \in Ids /\ f.t \in RowType /\ Named(f.t)
        /\ f.st = "COMPLETE" => Complete(f.id)
    BY <1>1, <1>2, UpdateFacts
  <1>4. p = "pipeline"
    BY <1>1, <1>2, UpdateFacts, ProcNames
  <1>5. PcsOf(p) = PipelinePcs /\ ~RoleOf(f.id, "PANIC_EXIT")
    BY <1>2, <1>4, PcsFacts DEF RoleOf
  <1>6. \/ Returns(p) /\ mem' = mem
        \/ mem' = [mem EXCEPT !.kill = TRUE] /\ Goes(p, FlattenAndHalt)
        \/ f.st = "COMPLETE" /\ LegFilled(p, f.id, f.t) /\ mem' = mem
        \/ GoesTo(p, "deadTarget") /\ mem' = mem
        \/ GoesTo(p, "guard") /\ mem' = mem
    BY <1>1 DEF UpdateOfLeg
  <1>7. MemTo(mem')
    BY <1>6, WorldParts, MemSame, MemFlags
  <1>8. Calm
    BY <1>2, <1>7, WorldParts, RowSame, CalmWrites
  <1>9. FrameOK(p, f)'
    BY <1>3, <1>8, TopKept
  <1>10. CASE Returns(p)
    BY <1>3, <1>8, <1>10, CalmReturns
  <1>11. CASE Goes(p, FlattenAndHalt)
    BY <1>3, <1>4, <1>8, <1>11, FlattenGoes
  <1>12. CASE f.st = "COMPLETE" /\ LegFilled(p, f.id, f.t)
    BY <1>3, <1>4, <1>5, <1>8, <1>12, LegGoes
  <1>13. CASE GoesTo(p, "deadTarget")
    <2>1. PICK g : g = [f EXCEPT !.pc = "deadTarget"]
      OBVIOUS
    <2> "deadTarget" \in Pcs
      BY PcsFacts DEF PipelinePcs
    <2>2. g \in FrameT /\ g.pc = "deadTarget" /\ g.id = f.id /\ g.t = f.t /\ g.todo = f.todo
      BY <1>3, <2>1, FramePc
    <2>3. "deadTarget" \in PcsOf(p) /\ "deadTarget" \in PlainPcs
      BY <1>5 DEF PlainPcs, PipelinePcs
    <2>4. FrameOK(p, g)'
      BY <1>2, <1>9, <2>2, <2>3, PlainNext
    <2>5. Goes(p, <<g>>)
      BY <1>1, <1>13, <2>1 DEF GoesTo
    <2> QED BY <1>3, <1>8, <2>2, <2>4, <2>5, CalmOne
  <1>14. CASE GoesTo(p, "guard")
    <2>1. PICK g : g = [f EXCEPT !.pc = "guard"]
      OBVIOUS
    <2> "guard" \in Pcs
      BY PcsFacts DEF PipelinePcs
    <2>2. g \in FrameT /\ g.pc = "guard" /\ g.id = f.id /\ g.t = f.t /\ g.todo = f.todo
      BY <1>3, <2>1, FramePc
    <2>3. "guard" \in PcsOf(p)
      BY <1>5 DEF PipelinePcs
    <2>4. FrameOK(p, g)'
      <3>1. Refers(g)' /\ PcsOf(p) \subseteq PcsOf(p)'
        BY <1>2, <1>9, <2>2, PcsStay DEF FrameOK, Refers
      <3>2. Role(p, g)'
        BY <1>3, <1>9, <2>2 DEF FrameOK, Role, StopPcs, TargetPcs, SoldPcs, TimeoutPcs
      <3>3. Places(g)' /\ Closes(g)'
        BY <2>2 DEF Places, Closes
      <3> QED BY <2>2, <2>3, <3>1, <3>2, <3>3 DEF FrameOK
    <2>5. Goes(p, <<g>>)
      BY <1>1, <1>14, <2>1 DEF GoesTo
    <2> QED BY <1>3, <1>8, <2>2, <2>4, <2>5, CalmOne
  <1> QED BY <1>6, <1>10, <1>11, <1>12, <1>13, <1>14

LEMMA UpdateOfPanicSteps ==
    ASSUME IInv, NEW p \in Procs, UpdateOfPanicExit(p)
    PROVE  Well
  <1>1. PICK f : f = Top(p)
    OBVIOUS
  <1>2. /\ At(p, "update") /\ orders[f.id].role = "PANIC_EXIT" /\ setup' = setup
        /\ breach' = breach
        /\ faults' = faults /\ broker' = broker /\ orphans' = orphans /\ linked' = linked
    BY <1>1 DEF UpdateOfPanicExit
  <1>3. /\ FrameOK(p, f) /\ f \in FrameT /\ f.pc = "update" /\ Quiet(p)
        /\ f.id \in Ids /\ (f.st = "COMPLETE" => Complete(f.id))
    BY <1>1, <1>2, UpdateFacts
  <1>4. CASE f.st = "PARTIAL"
    <2>1. Returns(p) /\ row' = row /\ mem' = mem
      BY <1>1, <1>4 DEF UpdateOfPanicExit
    <2>2. Calm
      BY <1>2, <2>1, WorldParts, RowSame, MemSame, CalmWrites
    <2> QED BY <1>3, <2>1, <2>2, CalmReturns
  <1>5. CASE f.st = "COMPLETE"
    <2>1. mem' = [mem EXCEPT !.watch = NoOrder, !.retries = 0] /\ Writes(Status("CLOSED"))
          /\ GoesTo(p, "finalize")
      BY <1>1, <1>5 DEF UpdateOfPanicExit
    <2>2. ~Bought => Sold
      BY <1>3, <1>5, WorldParts, ExitSold
    <2>3. "CLOSED" \in Outcomes /\ MayEnd("CLOSED")
      BY <2>2, OutcomeFacts DEF MayEnd
    <2>4. RowTo(row') /\ MemTo(mem')
      BY <2>1, <2>3, WorldParts, WroteStatus, MemUnwatched
    <2>5. Calm
      BY <1>2, <2>4, WorldParts, CalmWrites
    <2>6. PICK g : g = [f EXCEPT !.pc = "finalize"]
      OBVIOUS
    <2> "finalize" \in Pcs
      BY PcsFacts DEF PipelinePcs
    <2>7. g \in FrameT /\ g.pc = "finalize" /\ g.id = f.id /\ g.t = f.t /\ g.todo = f.todo
      BY <1>3, <2>6, FramePc
    <2>8. FrameOK(p, f)'
      BY <1>3, <2>5, TopKept
    <2>9. Refers(g)'
      BY <2>7, <2>8 DEF FrameOK, Refers
    <2>10. FrameOK(p, g)'
      BY <2>2, <2>5, <2>7, <2>9, WorldParts, FinalizeFrame
    <2>11. Goes(p, <<g>>)
      BY <1>1, <2>1, <2>6 DEF GoesTo
    <2> QED BY <1>3, <2>5, <2>7, <2>10, <2>11, CalmOne
  <1>6. CASE f.st \notin {"PARTIAL", "COMPLETE"}
    <2>1. mem' = [mem EXCEPT !.watch = NoOrder, !.retries = 0] /\ Writes(Status("GUARD_FAILED"))
          /\ Returns(p)
      BY <1>1, <1>6 DEF UpdateOfPanicExit
    <2>2. "GUARD_FAILED" \in Outcomes /\ MayEnd("GUARD_FAILED")
      BY OutcomeFacts DEF MayEnd
    <2>3. RowTo(row') /\ MemTo(mem')
      BY <2>1, <2>2, WorldParts, WroteStatus, MemUnwatched
    <2>4. Calm
      BY <1>2, <2>3, WorldParts, CalmWrites
    <2> QED BY <1>3, <2>1, <2>4, CalmReturns
  <1> QED BY <1>4, <1>5, <1>6

LEMMA CancelOtherSteps ==
    ASSUME IInv, NEW p \in Procs, CancelOther(p)
    PROVE  Well
  <1>1. PICK f, id : f = Top(p) /\ id = Head(f.todo)
    OBVIOUS
  <1>2. /\ At(p, "oco") /\ f.todo # <<>> /\ mem' = [mem EXCEPT !.expected = @ \cup {id}]
        /\ Cancelled(id) \/ NotCancelled
        /\ setup' = setup /\ breach' = breach /\ orphans' = orphans /\ linked' = linked
        /\ row' = row
    BY <1>1 DEF CancelOther
  <1>3. FrameOK(p, f) /\ f.pc = "oco"
    BY <1>1, <1>2, TopFacts
  <1>4. Quiet(p)
    BY <1>2, QuietAt DEF PanicPcs
  <1>5. id \in Ids /\ id \in Nat /\ TodoOK(Tail(f.todo))
    BY <1>1, <1>2, <1>3, FrameTodo, RestToDo
  <1>6. MemTo(mem')
    BY <1>2, <1>5, WorldParts, MemExpects
  <1>7. Calm
    BY <1>2, <1>6, WorldParts, CalmCancels
  <1>8. PICK s : s = Tail(f.todo)
    OBVIOUS
  <1>9. PICK g : g = [f EXCEPT !.todo = s]
    OBVIOUS
  <1>10. FrameOK(p, g)' /\ g.pc = "oco"
    BY <1>3, <1>5, <1>7, <1>8, <1>9, WorldParts, TodoNext
  <1>11. Goes(p, <<g>>)
    BY <1>1, <1>8, <1>9 DEF CancelOther
  <1> QED BY <1>4, <1>7, <1>10, <1>11, CalmOne

LEMMA LegRowSteps ==
    ASSUME IInv, NEW p \in Procs, LegFilledRow(p)
    PROVE  Well
  <1>1. PICK f : f = Top(p)
    OBVIOUS
  <1>2. PICK st : st = ExitedBy(orders[f.id].role)
    OBVIOUS
  <1>3. /\ At(p, "oco") /\ Writes([status |-> st, exit |-> f.id]) /\ Goes(p, <<Frame("finalize")>>)
        /\ setup' = setup /\ breach' = breach /\ faults' = faults /\ broker' = broker
        /\ orphans' = orphans
        /\ linked' = linked /\ mem' = mem
    BY <1>1, <1>2 DEF LegFilledRow
  <1>4. FrameOK(p, f) /\ f.pc = "oco"
    BY <1>1, <1>3, TopFacts
  <1>5. Quiet(p)
    BY <1>3, QuietAt DEF PanicPcs
  <1>6. Complete(f.id) /\ f.id \in Ids /\ f.id \in Nat
    BY <1>4, WorldParts, IdFacts DEF FrameOK, Role, Complete
  <1>7. ~Bought => Sold
    BY <1>6, WorldParts, ExitSold
  <1>8. st \in {"EXITED_SL", "EXITED_TARGET"} /\ MayEnd(st)
    BY <1>2, <1>7 DEF ExitedBy, MayEnd
  <1>9. RowTo(row')
    BY <1>3, <1>6, <1>8, WorldParts, WroteExit
  <1>10. Calm
    BY <1>3, <1>9, WorldParts, MemSame, CalmWrites
  <1>11. PICK g : g = Frame("finalize")
    OBVIOUS
  <1>12. FrameOK(p, g)' /\ g.pc = "finalize"
    BY <1>7, <1>10, <1>11, WorldParts, NewFinalize
  <1> QED BY <1>3, <1>5, <1>10, <1>11, <1>12, CalmOne

(* The fence moves: no postback is late any more.                           *)
LEMMA FencedOK ==
    ASSUME NEW w, UpdatesOK(w)
    PROVE  UpdatesOK(Fenced(w))
  <1>1. ASSUME NEW v \in Fenced(w)
        PROVE  v \in UpdateType /\ v.id \in Ids /\ (v.st = "COMPLETE" => Complete(v.id))
    <2>1. PICK u \in w : v = [u EXCEPT !.late = FALSE]
      BY <1>1 DEF Fenced
    <2>2. u \in UpdateType /\ u.id \in Ids /\ (u.st = "COMPLETE" => Complete(u.id))
      BY DEF UpdatesOK
    <2>3. v \in UpdateType /\ v.id = u.id /\ v.st = u.st
      BY <2>1, <2>2 DEF UpdateType
    <2> QED BY <2>2, <2>3
  <1> QED BY <1>1 DEF UpdatesOK

LEMMA FinalizeSteps ==
    ASSUME IInv, NEW p \in Procs, FinalizeClosed(p)
    PROVE  Well
  <1>1. /\ At(p, "finalize") /\ mem' = [Cleaned(mem) EXCEPT !.closed = TRUE]
        /\ news' = Fenced(news) /\ orphans' = Fenced(orphans) /\ Returns(p)
        /\ setup' = setup /\ breach' = breach /\ faults' = faults /\ orders' = orders
        /\ pos' = pos /\ linked' = linked
        /\ Writes(<<>>) \/ Writes(Status("CLOSED"))
    BY DEF FinalizeClosed
  <1>2. PICK f : f = Top(p)
    OBVIOUS
  <1>3. ~Bought => Sold
    <2>1. FrameOK(p, f) /\ f.pc = "finalize"
      BY <1>1, <1>2, TopFacts
    <2> QED BY <2>1 DEF FrameOK, Closes
  <1>4. "CLOSED" \in Outcomes /\ MayEnd("CLOSED")
    BY <1>3, OutcomeFacts DEF MayEnd
  <1>5. RowTo(row') /\ MemTo(mem') /\ ~mem'.inFlight
    BY <1>1, <1>4, WorldParts, WroteStatus, WroteNothing, MemCleaned
  <1>6. OrdersGo /\ RolesStay
    BY <1>1, WorldParts, OrdersSame
  <1>7. NewsGo
    <2>1. PICK n, o : n = Fenced(news) /\ o = Fenced(orphans)
      OBVIOUS
    <2>2. UpdatesOK(n) /\ UpdatesOK(o)
      BY <2>1, WorldParts, FencedOK DEF NewsInv
    <2>3. UpdatesOK(n)' /\ UpdatesOK(o)'
      BY <1>6, <2>2, UpdatesKept
    <2>4. linked' \subseteq Ids'
      BY <1>1, <1>6, WorldParts DEF NewsInv, RolesStay
    <2> QED BY <1>1, <2>1, <2>3, <2>4 DEF NewsGo, NewsInv
  <1>8. Calm
    BY <1>1, <1>5, <1>6, <1>7, RowMoves, MemMoves DEF Calm, FaultsGo
  <1>9. ~At(p, "slRow") /\ ~At(p, "panicRow")
    BY <1>1 DEF At
  <1> QED BY <1>1, <1>5, <1>8, <1>9, CalmDrops

LEMMA HaltSteps ==
    ASSUME IInv, NEW p \in Procs, Halt(p)
    PROVE  Well
  <1>1. At(p, "halt") /\ setup' = setup /\ breach' = breach /\ faults' = faults
        /\ broker' = broker
        /\ orphans' = orphans /\ linked' = linked /\ row' = row /\ Returns(p)
        /\ mem' = [mem EXCEPT !.halted = TRUE]
    BY DEF Halt
  <1>2. Quiet(p)
    BY <1>1, QuietAt DEF PanicPcs
  <1>3. MemTo(mem')
    BY <1>1, WorldParts, MemFlags
  <1>4. Calm
    BY <1>1, <1>3, WorldParts, RowSame, CalmWrites
  <1> QED BY <1>1, <1>2, <1>4, CalmReturns

-----------------------------------------------------------------------------
(* Guards.                                                                  *)

LEMMA GuardCheckSteps ==
    ASSUME IInv, NEW p \in Procs, GuardChecks(p)
    PROVE  Well
  <1>1. PICK f : f = Top(p)
    OBVIOUS
  <1>2. /\ At(p, "guard")
        /\ Returns(p) \/ GoesTo(p, "guardMark")
        /\ setup' = setup /\ breach' = breach
        /\ faults' = faults \/ (faults > 0 /\ faults' = faults - 1)
        /\ broker' = broker /\ orphans' = orphans /\ linked' = linked /\ row' = row /\ mem' = mem
    BY DEF GuardChecks, NoFault, Fault
  <1>3. Calm
    BY <1>2, WorldParts, RowSame, MemSame, CalmWrites
  <1>4. "guard" \notin TimerPcs /\ "guard" \notin PanicPcs \cup {"slRow"}
    BY DEF TimerPcs, LoneTimerPcs, TimeoutPcs, PanickingPcs, PanicPcs
  <1>5. p = "pipeline" /\ PcsOf(p) = PipelinePcs /\ Quiet(p)
    BY <1>2, <1>4, OnlyPipeline, QuietAt
  <1>6. FrameOK(p, f)' /\ f \in FrameT
    BY <1>1, <1>2, <1>3, TopFacts, TopKept
  <1>7. CASE Returns(p)
    BY <1>3, <1>5, <1>7, CalmReturns
  <1>8. CASE GoesTo(p, "guardMark")
    <2>1. PICK g : g = [f EXCEPT !.pc = "guardMark"]
      OBVIOUS
    <2> "guardMark" \in Pcs
      BY PcsFacts DEF PipelinePcs
    <2>2. g \in FrameT /\ g.pc = "guardMark" /\ g.id = f.id /\ g.t = f.t /\ g.todo = f.todo
      BY <1>6, <2>1, FramePc
    <2>3. "guardMark" \in PcsOf(p) /\ "guardMark" \in PlainPcs
      BY <1>5 DEF PlainPcs, PipelinePcs
    <2>4. FrameOK(p, g)'
      BY <1>2, <1>6, <2>2, <2>3, PlainNext
    <2>5. Goes(p, <<g>>)
      BY <1>1, <1>8, <2>1 DEF GoesTo
    <2> QED BY <1>3, <1>5, <2>2, <2>4, <2>5, CalmOne
  <1> QED BY <1>2, <1>7, <1>8

LEMMA GuardMarkSteps ==
    ASSUME IInv, NEW p \in Procs, GuardMarks(p)
    PROVE  Well
  <1>1. /\ At(p, "guardMark") /\ mem' = [mem EXCEPT !.kill = TRUE] /\ Writes(Status("GUARD_FAILED"))
        /\ Goes(p, <<[Frame("guardCancel") EXCEPT !.todo = Legs]>>)
        /\ setup' = setup /\ breach' = breach /\ faults' = faults /\ broker' = broker
        /\ orphans' = orphans
        /\ linked' = linked
    BY DEF GuardMarks
  <1>2. "guardMark" \notin TimerPcs /\ "guardMark" \notin PanicPcs \cup {"slRow"}
    BY DEF TimerPcs, LoneTimerPcs, TimeoutPcs, PanickingPcs, PanicPcs
  <1>3. p = "pipeline" /\ PcsOf(p) = PipelinePcs /\ Quiet(p)
    BY <1>1, <1>2, OnlyPipeline, QuietAt
  <1>4. "GUARD_FAILED" \in Outcomes /\ MayEnd("GUARD_FAILED")
    BY OutcomeFacts DEF MayEnd
  <1>5. RowTo(row') /\ MemTo(mem')
    BY <1>1, <1>4, WorldParts, WroteStatus, MemFlags
  <1>6. Calm
    BY <1>1, <1>5, WorldParts, CalmWrites
  <1>7. RolesStay
    BY <1>6, WorldParts, RolesGo DEF Calm
  <1>8. PICK s : s = Legs
    OBVIOUS
  <1>9. TodoOK(s)
    BY <1>8, WorldParts, LegsToDo
  <1>10. PICK g : g = ToCancel("guardCancel", s)
    OBVIOUS
  <1> "guardCancel" \in Pcs
    BY PcsFacts DEF PipelinePcs
  <1>11. g \in FrameT /\ g.pc = "guardCancel" /\ Refers(g)'
    BY <1>7, <1>9, <1>10, TodoFrame
  <1>12. "guardCancel" \in PcsOf(p) /\ "guardCancel" \in PlainPcs
    BY <1>3 DEF PlainPcs, PipelinePcs
  <1>13. FrameOK(p, g)'
    BY <1>1, <1>11, <1>12, PlainFrame
  <1>14. Goes(p, <<g>>)
    BY <1>1, <1>8, <1>10 DEF ToCancel
  <1> QED BY <1>3, <1>6, <1>11, <1>13, <1>14, CalmOne

LEMMA GuardCancelSteps ==
    ASSUME IInv, NEW p \in Procs, GuardCancels(p)
    PROVE  Well
  <1>1. PICK f : f = Top(p)
    OBVIOUS
  <1>2. /\ At(p, "guardCancel") /\ setup' = setup /\ breach' = breach /\ orphans' = orphans
        /\ linked' = linked
        /\ row' = row
    BY DEF GuardCancels
  <1>3. "guardCancel" \notin TimerPcs /\ "guardCancel" \notin PanicPcs \cup {"slRow"}
    BY DEF TimerPcs, LoneTimerPcs, TimeoutPcs, PanickingPcs, PanicPcs
  <1>4. p = "pipeline" /\ PcsOf(p) = PipelinePcs /\ Quiet(p)
    BY <1>2, <1>3, OnlyPipeline, QuietAt
  <1>5. FrameOK(p, f) /\ f \in FrameT /\ f.pc = "guardCancel"
    BY <1>1, <1>2, TopFacts
  <1>6. CASE f.todo = <<>>
    <2>1. Goes(p, <<Panic(FALSE)>>) /\ faults' = faults /\ broker' = broker /\ mem' = mem
      BY <1>1, <1>6 DEF GuardCancels, NoFault
    <2>2. Calm
      BY <1>2, <2>1, WorldParts, RowSame, MemSame, CalmWrites
    <2>3. PICK g : g = Panic(FALSE)
      OBVIOUS
    <2>4. "panic" \in PcsOf(p)
      BY <1>4 DEF PipelinePcs, PanickingPcs
    <2>5. FrameOK(p, g)' /\ g.pc = "panic"
      BY <1>2, <2>3, <2>4, PanicFrame
    <2> QED BY <1>4, <2>1, <2>2, <2>3, <2>5, CalmOne
  <1>7. CASE f.todo # <<>>
    <2>1. PICK id : id = Head(f.todo)
      OBVIOUS
    <2>2. /\ mem' = [mem EXCEPT !.expected = @ \cup {id}]
          /\ Cancelled(id) \/ NotCancelled
          /\ \/ Goes(p, <<[f EXCEPT !.todo = Tail(f.todo)]>>)
             \/ Goes(p, <<[f EXCEPT !.todo = <<>>]>>)
      BY <1>1, <1>7, <2>1 DEF GuardCancels
    <2>3. id \in Ids /\ id \in Nat /\ TodoOK(Tail(f.todo))
      BY <1>5, <1>7, <2>1, FrameTodo, RestToDo
    <2>4. MemTo(mem')
      BY <2>2, <2>3, WorldParts, MemExpects
    <2>5. Calm
      BY <1>2, <2>2, <2>4, WorldParts, CalmCancels
    <2>6. PICK s : (s = Tail(f.todo) \/ s = <<>>) /\ Goes(p, <<[f EXCEPT !.todo = s]>>)
      BY <2>2
    <2>7. TodoOK(s)
      BY <2>3, <2>6, NothingToDo
    <2>8. PICK g : g = [f EXCEPT !.todo = s]
      OBVIOUS
    <2>9. FrameOK(p, g)' /\ g.pc = "guardCancel"
      BY <1>5, <2>5, <2>7, <2>8, WorldParts, TodoNext
    <2> QED BY <1>4, <2>5, <2>6, <2>8, <2>9, CalmOne
  <1> QED BY <1>6, <1>7

-----------------------------------------------------------------------------
(* The panic exit, but for the placement.                                   *)

LEMMA PanicInFlightSteps ==
    ASSUME IInv, NEW p \in Procs, PanicIsInFlight(p)
    PROVE  Well
  <1>1. PICK f : f = Top(p)
    OBVIOUS
  <1>2. /\ At(p, "panic") /\ setup' = setup /\ breach' = breach /\ faults' = faults
        /\ broker' = broker
        /\ orphans' = orphans /\ linked' = linked /\ row' = row
        /\ \/ mem' = [mem EXCEPT !.inFlight = FALSE] /\ Returns(p)
           \/ GoesTo(p, "panicRead") /\ mem' = mem
    BY DEF PanicIsInFlight
  <1>3. MemTo(mem')
    BY <1>2, WorldParts, MemUnmarked, MemSame
  <1>4. Calm
    BY <1>2, <1>3, WorldParts, RowSame, CalmWrites
  <1>5. "panic" \notin PanicPcs \cup {"slRow"} /\ "panic" \in PanickingPcs \cup {"sla", "confirm"}
    BY DEF PanicPcs, PanickingPcs
  <1>6. Quiet(p) /\ PanickingPcs \subseteq PcsOf(p)
    BY <1>2, <1>5, QuietAt, PanicProcs
  <1>7. FrameOK(p, f)' /\ f \in FrameT
    BY <1>1, <1>2, <1>4, TopFacts, TopKept
  <1>8. PICK g : g = [f EXCEPT !.pc = "panicRead"]
    OBVIOUS
  <1> "panicRead" \in Pcs
    BY PcsFacts DEF PipelinePcs, PanickingPcs
  <1>9. g \in FrameT /\ g.pc = "panicRead" /\ g.id = f.id /\ g.t = f.t /\ g.todo = f.todo
    BY <1>7, <1>8, FramePc
  <1>10. "panicRead" \in PcsOf(p) /\ "panicRead" \in PlainPcs
    BY <1>6 DEF PlainPcs, PanickingPcs
  <1>11. FrameOK(p, g)'
    BY <1>2, <1>7, <1>9, <1>10, PlainNext
  <1>12. Returns(p) \/ Goes(p, <<g>>)
    BY <1>1, <1>2, <1>8 DEF GoesTo
  <1> QED BY <1>4, <1>6, <1>9, <1>11, <1>12, CalmOne, CalmReturns

(* A trade without a panic exit in its row has none, but for one that is    *)
(* about to be noted.                                                       *)
LEMMA PanicKnown ==
    ASSUME IInv, NEW p \in Procs, At(p, "panicRead"), row.panic = NoOrder
    PROVE  Alone => NoPanic
  <1> SUFFICES ASSUME Alone
               PROVE  NoPanic
    OBVIOUS
  <1>1. ASSUME NEW q \in Procs, NEW pc, At(q, pc), pc \in {"panicRead", "panicRow"}
        PROVE  q = "pipeline"
    <2>1. pc \in PanickingPcs \cup {"sla", "confirm"}
      BY <1>1 DEF PanickingPcs
    <2> QED BY <1>1, <2>1, PanicProcs
  <1>2. \A q \in Procs : ~At(q, "panicRow")
    <2> SUFFICES ASSUME NEW q \in Procs, At(q, "panicRow")
                 PROVE  FALSE
      OBVIOUS
    <2>1. q = "pipeline" /\ p = "pipeline"
      BY <1>1
    <2> QED BY <2>1 DEF At
  <1> QED BY <1>2 DEF IInv, Claims, PanicHeld

LEMMA PanicStartSteps ==
    ASSUME IInv, NEW p \in Procs, PanicStarts(p)
    PROVE  Well
  <1>1. /\ At(p, "panicRead") /\ setup' = setup /\ breach' = breach /\ faults' = faults
        /\ broker' = broker
        /\ orphans' = orphans /\ linked' = linked /\ row' = row
    BY DEF PanicStarts
  <1>2. "panicRead" \notin PanicPcs \cup {"slRow"} /\ "panicRead" \in PanickingPcs \cup {"sla", "confirm"}
    BY DEF PanicPcs, PanickingPcs
  <1>3. Quiet(p) /\ PanickingPcs \subseteq PcsOf(p)
    BY <1>1, <1>2, QuietAt, PanicProcs
  <1>4. RowTo(row') /\ World
    BY <1>1, WorldParts, RowSame
  <1>5. CASE mem' = [mem EXCEPT !.inFlight = FALSE] /\ Returns(p)
    <2>1. MemTo(mem')
      BY <1>5, WorldParts, MemUnmarked
    <2>2. Calm
      BY <1>1, <1>4, <2>1, CalmWrites
    <2> QED BY <1>3, <1>5, <2>2, CalmReturns
  <1>6. CASE /\ row.panic = NoOrder /\ mem' = [mem EXCEPT !.inFlight = TRUE]
             /\ Goes(p, <<[Frame("panicCancel") EXCEPT !.todo = Legs]>>)
    <2>1. PICK s : s = Legs
      OBVIOUS
    <2>2. PICK g : g = ToCancel("panicCancel", s)
      OBVIOUS
    <2>3. Goes(p, <<g>>)
      BY <1>6, <2>1, <2>2 DEF ToCancel
    <2>4. TodoOK(s) /\ orders' = orders /\ pos' = pos
      BY <1>1, <2>1, WorldParts, LegsToDo DEF broker
    <2>5. OrdersGo /\ RolesStay
      BY <2>4, WorldParts, OrdersSame
    <2> "panicCancel" \in Pcs
      BY PcsFacts DEF PipelinePcs, PanickingPcs
    <2>6. g \in FrameT /\ g.pc = "panicCancel" /\ Refers(g)'
      BY <2>2, <2>4, <2>5, TodoFrame
    <2>7. Marked'
      <3>1. h'[p] # <<>> /\ Top(p)' = g
        BY <2>3, <2>6, WorldParts, NewTop
      <3> QED BY <2>6, <3>1 DEF Marked, PanicPcs
    <2>8. MemGoes
      <3>1. PICK m : m = mem'
        OBVIOUS
      <3>2. MemOK(m) /\ m.retries <= mem.retries
        BY <1>6, <3>1, WorldParts, RetriesFacts DEF MemOK, MemType
      <3>3. MemOK(m)'
        BY <2>5, <3>2, MemKept
      <3>4. MemOK(mem)'
        BY <3>1, <3>3
      <3> QED BY <2>7, <3>1, <3>2, <3>4 DEF MemGoes
    <2>9. NewsGo
      BY <1>1, <2>5, WorldParts, NewsSame DEF broker, NewsGo
    <2>10. Calm
      BY <1>1, <1>4, <2>4, <2>5, <2>8, <2>9, RowMoves DEF Calm, FaultsGo
    <2>11. FrameOK(p, g)'
      <3>1. (Alone => NoPanic) /\ (Alone' => Alone) /\ (~Bought' => ~Bought) /\ (NoPanic' <=> NoPanic)
        BY <1>1, <1>6, <2>5, <2>10, WorldParts, PanicKnown, RolesGo, SoldStays
      <3>2. Places(g)'
        BY <2>6, <3>1 DEF Places
      <3>3. Role(p, g)' /\ Closes(g)'
        BY <2>6 DEF Role, Closes, StopPcs, TargetPcs, SoldPcs, TimeoutPcs
      <3>4. "panicCancel" \in PcsOf(p)'
        BY <1>1, <1>3, PcsStay DEF PanickingPcs
      <3> QED BY <2>6, <3>2, <3>3, <3>4 DEF FrameOK
    <2>12. MayPanic(p)
      BY <1>1, <1>6 DEF MayPanic, At
    <2> QED BY <1>3, <2>3, <2>6, <2>10, <2>11, <2>12, CalmHeats
  <1>7. PICK goes : goes = (row.panic = NoOrder /\ (mem.halted => Top(p).flag))
    OBVIOUS
  <1>8. CASE goes
    BY <1>6, <1>7, <1>8 DEF PanicStarts
  <1>9. CASE ~goes
    <2>1. goes = FALSE
      BY <1>7, <1>9
    <2>2. mem' = [mem EXCEPT !.inFlight = goes] /\ Returns(p)
      BY <1>7, <1>9 DEF PanicStarts
    <2> QED BY <1>5, <2>1, <2>2
  <1> QED BY <1>8, <1>9

LEMMA PanicCancelSteps ==
    ASSUME IInv, NEW p \in Procs, PanicCancels(p)
    PROVE  Well
  <1>1. PICK f : f = Top(p)
    OBVIOUS
  <1>2. PICK id : id = Head(f.todo)
    OBVIOUS
  <1>3. /\ At(p, "panicCancel") /\ f.todo # <<>> /\ setup' = setup /\ breach' = breach
        /\ orphans' = orphans
        /\ linked' = linked /\ row' = row
        /\ Goes(p, <<[f EXCEPT !.todo = Tail(f.todo)]>>)
        /\ \/ /\ mem' = [mem EXCEPT !.expected = @ \cup {id}]
              /\ Cancelled(id) \/ NotCancelled
           \/ faults' = faults /\ broker' = broker /\ mem' = mem
    BY <1>1, <1>2 DEF PanicCancels, NoFault
  <1>4. FrameOK(p, f) /\ f \in FrameT /\ f.pc = "panicCancel"
    BY <1>1, <1>3, TopFacts
  <1>5. id \in Ids /\ id \in Nat /\ TodoOK(Tail(f.todo))
    BY <1>2, <1>3, <1>4, FrameTodo, RestToDo
  <1>6. Calm
    <2>1. CASE faults' = faults /\ broker' = broker /\ mem' = mem
      BY <1>3, <2>1, WorldParts, RowSame, MemSame, CalmWrites
    <2>2. CASE /\ mem' = [mem EXCEPT !.expected = @ \cup {id}]
               /\ Cancelled(id) \/ NotCancelled
      <3>1. MemTo(mem')
        BY <1>5, <2>2, WorldParts, MemExpects
      <3> QED BY <1>3, <2>2, <3>1, WorldParts, CalmCancels
    <2> QED BY <1>3, <2>1, <2>2
  <1>7. PICK s : s = Tail(f.todo)
    OBVIOUS
  <1>8. PICK g : g = [f EXCEPT !.todo = s]
    OBVIOUS
  <1>9. FrameOK(p, g)' /\ g.pc = "panicCancel"
    BY <1>4, <1>5, <1>6, <1>7, <1>8, WorldParts, TodoNext
  <1>10. ~At(p, "slRow") /\ ~At(p, "panicRow")
    BY <1>3 DEF At
  <1>11. Goes(p, <<g>>) /\ g.pc \in PanicPcs
    BY <1>3, <1>7, <1>8, <1>9 DEF PanicPcs
  <1> QED BY <1>3, <1>6, <1>9, <1>10, <1>11, CalmPanics

LEMMA PanicReadSteps ==
    ASSUME IInv, NEW p \in Procs, PanicReadsPosition(p)
    PROVE  Well
  <1>1. PICK f : f = Top(p)
    OBVIOUS
  <1>2. /\ At(p, "panicCancel") /\ setup' = setup /\ breach' = breach /\ broker' = broker
        /\ orphans' = orphans
        /\ linked' = linked /\ row' = row /\ mem' = mem
        /\ faults' = faults \/ (faults > 0 /\ faults' = faults - 1)
    BY DEF PanicReadsPosition, NoFault, Fault
  <1>3. PICK q : q \in {pos, setup.qty} /\ Goes(p, <<[Frame("panicPlace") EXCEPT !.q = q]>>)
    BY DEF PanicReadsPosition
  <1>4. FrameOK(p, f) /\ f.pc = "panicCancel"
    BY <1>1, <1>2, TopFacts
  <1>5. Calm
    BY <1>2, WorldParts, RowSame, MemSame, CalmWrites
  <1>6. pos \in Int /\ setup.qty \in Int
    <2>1. setup \in Setups /\ pos \in Int
      BY WorldParts DEF OrdersInv
    <2>2. setup.qty \in 1 .. 2
      BY <2>1, LifecycleAssumption DEF Setup
    <2> QED BY <2>1, <2>2
  <1>7. PICK g : g = [Frame("panicPlace") EXCEPT !.q = q]
    OBVIOUS
  <1> "panicPlace" \in Pcs
    BY PcsFacts DEF PipelinePcs, PanickingPcs
  <1>8. g \in FrameT /\ g.pc = "panicPlace" /\ g.id = NoOrder /\ g.t = NewRow /\ g.todo = <<>>
        /\ g.q = q
    <2>1. PICK e : e = Frame("panicPlace")
      OBVIOUS
    <2>2. e \in FrameT /\ e.pc = "panicPlace" /\ e.id = NoOrder /\ e.t = NewRow /\ e.todo = <<>>
      BY <2>1, NewFrame
    <2>3. q \in Int /\ g = [e EXCEPT !.q = q]
      BY <1>3, <1>6, <1>7, <2>1
    <2> QED BY <2>2, <2>3 DEF FrameT
  <1>9. FrameOK(p, g)'
    <2>1. (Alone' => Alone) /\ (~Bought' => ~Bought) /\ (NoPanic' <=> NoPanic) /\ pos' = pos
      BY <1>5, WorldParts, RolesGo, SoldStays DEF Calm, OrdersGo
    <2>2. Alone => NoPanic
      BY <1>4 DEF FrameOK, Places
    <2>3. ~Bought => pos <= q
      BY <1>3, <1>6, WorldParts DEF SoleInv
    <2>4. Places(g)' /\ Closes(g)'
      BY <1>8, <2>1, <2>2, <2>3 DEF Places, Closes
    <2>5. Role(p, g)'
      BY <1>8 DEF Role, StopPcs, TargetPcs, SoldPcs, TimeoutPcs
    <2>6. "panicCancel" \in PanickingPcs \cup {"sla", "confirm"}
      BY DEF PanickingPcs
    <2>7. g.pc \in PcsOf(p)'
      BY <1>2, <1>8, <2>6, PanicProcs, PcsStay DEF PanickingPcs
    <2> QED BY <1>8, <2>4, <2>5, <2>7, RefersNothing DEF FrameOK
  <1>10. ~At(p, "slRow") /\ ~At(p, "panicRow")
    BY <1>2 DEF At
  <1>11. Goes(p, <<g>>) /\ g.pc \in PanicPcs
    BY <1>3, <1>7, <1>8 DEF PanicPcs
  <1> QED BY <1>2, <1>5, <1>9, <1>10, <1>11, CalmPanics

LEMMA PanicNothingSteps ==
    ASSUME IInv, NEW p \in Procs, PanicFindsNothing(p)
    PROVE  Well
  <1>1. PICK f : f = Top(p)
    OBVIOUS
  <1>2. /\ At(p, "panicPlace") /\ f.q = 0 /\ Writes(Status("CLOSED"))
        /\ Goes(p, <<Frame("finalize")>>) /\ setup' = setup /\ breach' = breach
        /\ faults' = faults
        /\ broker' = broker /\ orphans' = orphans /\ linked' = linked /\ mem' = mem
    BY <1>1 DEF PanicFindsNothing
  <1>3. FrameOK(p, f) /\ f.pc = "panicPlace"
    BY <1>1, <1>2, TopFacts
  <1>4. ~Bought => Sold
    BY <1>2, <1>3 DEF FrameOK, Closes, Sold
  <1>5. "CLOSED" \in Outcomes /\ MayEnd("CLOSED")
    BY <1>4, OutcomeFacts DEF MayEnd
  <1>6. Calm
    BY <1>2, <1>5, WorldParts, WroteStatus, MemSame, CalmWrites
  <1>7. PICK g : g = Frame("finalize")
    OBVIOUS
  <1>8. FrameOK(p, g)' /\ g.pc = "finalize"
    BY <1>4, <1>6, <1>7, WorldParts, NewFinalize
  <1>9. ~At(p, "slRow") /\ ~At(p, "panicRow")
    BY <1>2 DEF At
  <1>10. Goes(p, <<g>>) /\ g.pc \in PanicPcs
    BY <1>2, <1>7, <1>8 DEF PanicPcs
  <1> QED BY <1>2, <1>6, <1>8, <1>9, <1>10, CalmPanics

(* The broker refuses the order of a panic exit.                            *)
LEMMA PanicRefused ==
    ASSUME IInv, NEW p \in Procs, At(p, "panicPlace"), NEW f, f = Top(p),
           setup' = setup /\ breach' = breach,
           Fault("refused"), broker' = broker, orphans' = orphans, linked' = linked, row' = row,
           \/ Returns(p) /\ mem' = [mem EXCEPT !.inFlight = FALSE]
           \/ Goes(p, <<[f EXCEPT !.flag = TRUE]>>) /\ mem' = mem
    PROVE  Well
  <1>1. FrameOK(p, f) /\ f \in FrameT /\ f.pc = "panicPlace"
    BY TopFacts
  <1>2. Calm
    <2>1. MemTo(mem')
      BY WorldParts, MemUnmarked, MemSame
    <2> QED BY <2>1, WorldParts, RowSame, CalmWrites DEF Fault
  <1>3. ~At(p, "slRow") /\ ~At(p, "panicRow")
    BY DEF At
  <1>4. CASE Returns(p) /\ mem' = [mem EXCEPT !.inFlight = FALSE]
    <2>1. ~mem'.inFlight
      BY <1>4, WorldParts DEF MemOK, MemType
    <2> QED BY <1>2, <1>3, <1>4, <2>1, CalmDrops
  <1>5. CASE Goes(p, <<[f EXCEPT !.flag = TRUE]>>)
    <2>1. PICK g : g = [f EXCEPT !.flag = TRUE]
      OBVIOUS
    <2>2. g \in FrameT /\ g.pc = f.pc /\ g.id = f.id /\ g.t = f.t /\ g.todo = f.todo
          /\ g.q = f.q /\ g.st = f.st
      BY <1>1, <2>1 DEF FrameT
    <2>3. FrameOK(p, f)'
      BY <1>1, <1>2, TopKept
    <2>4. FrameOK(p, g)'
      BY <2>2, <2>3 DEF FrameOK, Refers, Role, Places, Closes
    <2>5. Goes(p, <<g>>) /\ g.pc \in PanicPcs
      BY <1>1, <1>5, <2>1, <2>2 DEF PanicPcs
    <2> QED BY <1>2, <1>3, <2>4, <2>5, CalmPanics
  <1> QED BY <1>4, <1>5

LEMMA PanicRowSteps ==
    ASSUME IInv, NEW p \in Procs, PanicRow(p)
    PROVE  Well
  <1>1. PICK f : f = Top(p)
    OBVIOUS
  <1>2. /\ At(p, "panicRow") /\ Writes([status |-> "PANIC_EXIT_PLACED", panic |-> f.id])
        /\ Goes(p, <<[f EXCEPT !.pc = "panicLink"]>>) /\ setup' = setup /\ breach' = breach
        /\ faults' = faults
        /\ broker' = broker /\ orphans' = orphans /\ linked' = linked /\ mem' = mem
    BY <1>1 DEF PanicRow, GoesTo
  <1>3. FrameOK(p, f) /\ f \in FrameT /\ f.pc = "panicRow"
    BY <1>1, <1>2, TopFacts
  <1>4. RoleOf(f.id, "PANIC_EXIT") /\ f.id \in Nat /\ f.id # NoOrder
    <2>1. f.pc \in SoldPcs
      BY <1>3 DEF SoldPcs
    <2>2. RoleOf(f.id, "PANIC_EXIT") /\ f.id \in Ids
      BY <1>3, <2>1, PlacedId
    <2> QED BY <2>2, WorldParts, IdFacts DEF NoOrder
  <1>5. RowTo(row') /\ row'.panic # NoOrder
    <2> "PANIC_EXIT_PLACED" \in {"GUARD_FAILED", "PANIC_EXIT_PLACED"}
      OBVIOUS
    <2> QED BY <1>2, <1>4, WorldParts, WrotePanic
  <1>6. Calm
    BY <1>2, <1>5, WorldParts, MemSame, CalmWrites
  <1>7. PICK g : g = [f EXCEPT !.pc = "panicLink"]
    OBVIOUS
  <1> "panicLink" \in Pcs
    BY PcsFacts DEF PipelinePcs, PanickingPcs
  <1>8. g \in FrameT /\ g.pc = "panicLink" /\ g.id = f.id /\ g.t = f.t /\ g.todo = f.todo
    BY <1>3, <1>7, FramePc
  <1>9. FrameOK(p, g)'
    <2>1. "panicRow" \in PanickingPcs \cup {"sla", "confirm"}
      BY DEF PanickingPcs
    <2>2. g.pc \in PcsOf(p)
      BY <1>2, <1>8, <2>1, PanicProcs DEF PanickingPcs
    <2>3. FrameOK(p, f)'
      BY <1>3, <1>6, TopKept
    <2>4. f.pc \in SoldPcs /\ g.pc \in {"panicLink", "panicReplay", "timeoutLink", "timeoutReplay"}
      BY <1>3, <1>8 DEF SoldPcs
    <2> QED BY <1>2, <1>8, <2>2, <2>3, <2>4, SameOrder
  <1>10. Goes(p, <<g>>) /\ ~At(p, "slRow")
    BY <1>2, <1>7 DEF At
  <1>11. Claims'
    <2>1. Cool(p)'
      BY <1>8, <1>10, WorldParts, CoolOne DEF HotPcs
    <2> QED BY <1>5, <1>6, <1>10, <2>1, CalmMild, StopStays, PanicStays, MarkerStays, TwoCool DEF Claims
  <1> QED BY <1>6, <1>9, <1>10, <1>11, CalmWorld, OneFrame DEF Well, IInv, CalmFrames

-----------------------------------------------------------------------------
(* The timers, but for the placement.                                       *)

IdFrame(c, k) == [Frame(c) EXCEPT !.id = k]

LEMMA IdFrameOK ==
    ASSUME NEW c \in Pcs, NEW k \in Nat, (k \in Ids)', NEW g, g = IdFrame(c, k)
    PROVE  g \in FrameT /\ g.pc = c /\ g.id = k /\ Refers(g)'
  <1>1. PICK e : e = Frame(c)
    OBVIOUS
  <1>2. e \in FrameT /\ e.pc = c /\ e.t = NewRow /\ e.todo = <<>>
    BY <1>1, NewFrame
  <1>3. g \in FrameT /\ g.pc = c /\ g.id = k /\ g.t = NewRow /\ g.todo = <<>>
    BY <1>1, <1>2 DEF IdFrame, FrameT
  <1>4. Named(g.t)'
    BY <1>3, NewRowType DEF Named
  <1> QED BY <1>3, <1>4 DEF Refers

(* A timer fires.                                                           *)
LEMMA TimerBegins ==
    ASSUME IInv, NEW c \in {"sla", "timeout"}, NEW k \in Nat, k \in Ids,
           c = "timeout" => RoleOf(k, "PANIC_EXIT"),
           Begins("timer", IdFrame(c, k)), setup' = setup /\ breach' = breach,
           faults' = faults, broker' = broker,
           orphans' = orphans, linked' = linked, row' = row, MemTo(mem')
    PROVE  Well
  <1>1. PICK g : g = IdFrame(c, k)
    OBVIOUS
  <1>2. Calm
    BY WorldParts, RowSame, CalmWrites
  <1>3. RolesStay /\ (RoleOf(k, "PANIC_EXIT") => RoleOf(k, "PANIC_EXIT")') /\ (k \in Ids)'
    BY <1>2, WorldParts, RolesGo DEF Calm
  <1> c \in Pcs
    BY DEF Pcs, TimerPcs, LoneTimerPcs, TimeoutPcs
  <1>4. g \in FrameT /\ g.pc = c /\ g.id = k /\ Refers(g)'
    BY <1>1, <1>3, IdFrameOK
  <1>5. Role("timer", g)'
    BY <1>3, <1>4 DEF Role, StopPcs, TargetPcs, SoldPcs, TimeoutPcs
  <1>6. Places(g)' /\ Closes(g)'
    BY <1>4 DEF Places, Closes
  <1>7. c \in PcsOf("timer")'
    BY PcsStay DEF PcsOf, TimerPcs, LoneTimerPcs, TimeoutPcs
  <1>8. FrameOK("timer", g)'
    BY <1>4, <1>5, <1>6, <1>7 DEF FrameOK
  <1>9. h["timer"] = <<>> /\ Goes("timer", <<g>>) /\ Quiet("timer")
    BY <1>1, ProcNames, BeginsGoes DEF Quiet
  <1> QED BY <1>2, <1>4, <1>8, <1>9, ProcNames, CalmOne

LEMMA SlaFireSteps ==
    ASSUME IInv, SlaFires
    PROVE  Well
  <1>1. PICK k : k = mem.sla
    OBVIOUS
  <1>2. /\ k # NoOrder /\ Begins("timer", IdFrame("sla", k))
        /\ mem' = [mem EXCEPT !.sla = NoOrder] /\ setup' = setup /\ breach' = breach
        /\ faults' = faults
        /\ broker' = broker /\ orphans' = orphans /\ linked' = linked /\ row' = row
    BY <1>1 DEF SlaFires, IdFrame
  <1>3. k \in Nat /\ k \in Ids
    BY <1>1, <1>2, WorldParts DEF MemOK, MemType
  <1>4. MemTo(mem')
    BY <1>2, WorldParts, MemUnwatched
  <1> "sla" \in {"sla", "timeout"}
    OBVIOUS
  <1> QED BY <1>2, <1>3, <1>4, TimerBegins

LEMMA TimeoutFireSteps ==
    ASSUME IInv, PanicTimeout
    PROVE  Well
  <1>1. PICK k : k = mem.watch
    OBVIOUS
  <1>2. /\ k # NoOrder /\ Begins("timer", IdFrame("timeout", k))
        /\ mem' = [mem EXCEPT !.watch = NoOrder] /\ setup' = setup /\ breach' = breach
        /\ faults' = faults
        /\ broker' = broker /\ orphans' = orphans /\ linked' = linked /\ row' = row
    BY <1>1 DEF PanicTimeout, IdFrame
  <1>3. k \in Nat /\ k \in Ids /\ RoleOf(k, "PANIC_EXIT")
    BY <1>1, <1>2, WorldParts DEF MemOK, MemType, RoleOf
  <1>4. MemTo(mem')
    BY <1>2, WorldParts, MemUnwatched
  <1> "timeout" \in {"sla", "timeout"}
    OBVIOUS
  <1> QED BY <1>2, <1>3, <1>4, TimerBegins

LEMMA SlaCheckSteps ==
    ASSUME IInv, NEW p \in Procs, SlaChecks(p)
    PROVE  Well
  <1>1. /\ At(p, "sla") /\ setup' = setup /\ broker' = broker /\ orphans' = orphans
        /\ linked' = linked /\ row' = row /\ mem' = mem
        /\ faults' = faults \/ (faults > 0 /\ faults' = faults - 1)
    BY DEF SlaChecks, NoFault, Fault
  <1>2. /\ breach' \in {breach, TRUE} /\ (breach => breach')
        /\ Returns(p) \/ Goes(p, <<Frame("confirm")>>) \/ (Goes(p, <<Panic(TRUE)>>) /\ breach')
    <2>1. breach \in BOOLEAN
      BY WorldParts DEF OrdersInv
    <2>2. CASE Returns(p) /\ breach' = breach
      BY <2>2
    <2>3. PICK ends, good :
              /\ ends = (Terminal(row.status) = TRUE)
              /\ good = (StatusAt(Top(p).id) \in {"OPEN", "COMPLETE"})
      OBVIOUS
    <2>4. CASE /\ breach' = (breach \/ (~ends /\ ~good))
               /\ IF ends THEN Returns(p)
                  ELSE Goes(p, IF good THEN <<Frame("confirm")>> ELSE <<Panic(TRUE)>>)
      BY <2>1, <2>3, <2>4
    <2> QED BY <2>2, <2>3, <2>4 DEF SlaChecks
  <1>3. "sla" \in PanickingPcs \cup {"sla", "confirm"} /\ "sla" \notin PanicPcs \cup {"slRow"}
        /\ "sla" \notin PipelinePcs
    BY DEF PanicPcs, PipelinePcs, StopPcs, TargetPcs, PanickingPcs
  <1>4. Quiet(p) /\ p = "timer"
    BY <1>1, <1>3, QuietAt, OnlyTimer
  <1>5. Calm
    BY <1>1, <1>2, WorldParts, RowSame, MemSame, CalmWrites
  <1>6. CASE Returns(p)
    BY <1>4, <1>5, <1>6, CalmReturns
  <1>7. CASE Goes(p, <<Frame("confirm")>>)
    <2>1. PICK g : g = Frame("confirm")
      OBVIOUS
    <2> "confirm" \in PlainPcs
      BY DEF PlainPcs
    <2>2. "confirm" \in PcsOf(p)
      BY <1>4, ProcNames DEF PcsOf, LoneTimerPcs, TimerPcs
    <2>3. FrameOK(p, g)' /\ g.pc = "confirm"
      BY <1>2, <2>1, <2>2, NewPlain
    <2> QED BY <1>4, <1>5, <1>7, <2>1, <2>3, CalmOne
  <1>8. CASE Goes(p, <<Panic(TRUE)>>) /\ breach'
    <2>1. PICK g : g = Panic(TRUE)
      OBVIOUS
    <2>2. "panic" \in PlainPcs /\ "panic" \in Pcs /\ "panic" \in PcsOf(p)'
      BY <1>4, <1>8, ProcNames, PcsFacts DEF PlainPcs, PcsOf, Alone, TimerPcs, PanickingPcs
    <2>3. PICK e : e = Frame("panic")
      OBVIOUS
    <2>4. e \in FrameT /\ e.pc = "panic" /\ e.id = NoOrder /\ e.t = NewRow /\ e.todo = <<>>
      BY <2>2, <2>3, NewFrame
    <2>5. g = [e EXCEPT !.flag = TRUE]
      BY <2>1, <2>3 DEF Panic
    <2>6. g \in FrameT /\ g.pc = "panic" /\ g.id = NoOrder /\ g.t = NewRow /\ g.todo = <<>>
      BY <2>4, <2>5 DEF FrameT
    <2>7. FrameOK(p, g)'
      BY <2>2, <2>6, RefersNothing, LaterFrame
    <2> QED BY <1>4, <1>5, <1>8, <2>1, <2>6, <2>7, CalmOne
  <1> QED BY <1>2, <1>6, <1>7, <1>8

LEMMA ConfirmSteps ==
    ASSUME IInv, NEW p \in Procs, Confirm(p)
    PROVE  Well
  <1>1. /\ At(p, "confirm") /\ Writes(Status("SL_CONFIRMED")) /\ Returns(p) /\ setup' = setup
        /\ breach' = breach
        /\ faults' = faults /\ broker' = broker /\ orphans' = orphans /\ linked' = linked
        /\ mem' = mem
    BY DEF Confirm
  <1>2. "confirm" \notin PanicPcs \cup {"slRow"}
    BY DEF PanicPcs
  <1>3. "SL_CONFIRMED" \in Outcomes /\ MayEnd("SL_CONFIRMED")
    BY OutcomeFacts DEF MayEnd
  <1>4. Calm
    BY <1>1, <1>3, WorldParts, WroteStatus, MemSame, CalmWrites
  <1> QED BY <1>1, <1>2, <1>4, QuietAt, CalmReturns

(* The frames of the timeout.                                               *)
LEMMA TimeoutFacts ==
    ASSUME IInv, NEW p \in Procs, NEW pc, At(p, pc), pc \in TimeoutPcs, NEW f, f = Top(p)
    PROVE  /\ p = "timer" /\ Quiet(p) /\ TimeoutPcs \subseteq PcsOf(p)
           /\ FrameOK(p, f) /\ f \in FrameT /\ f.pc = pc
           /\ f.id \in Ids /\ f.id \in Nat \ {NoOrder} /\ RoleOf(f.id, "PANIC_EXIT")
  <1>1. pc \notin PipelinePcs /\ pc \notin PanicPcs \cup {"slRow"} /\ pc \in SoldPcs
    BY DEF TimeoutPcs, PipelinePcs, StopPcs, TargetPcs, PanickingPcs, PanicPcs, SoldPcs
  <1>2. p = "timer" /\ Quiet(p)
    BY <1>1, OnlyTimer, QuietAt
  <1>3. TimeoutPcs \subseteq PcsOf(p)
    BY <1>2, ProcNames DEF PcsOf, TimerPcs, LoneTimerPcs
  <1>4. FrameOK(p, f) /\ f \in FrameT /\ f.pc = pc
    BY TopFacts
  <1>5. f.id \in Ids /\ RoleOf(f.id, "PANIC_EXIT")
    BY <1>1, <1>4, PlacedId
  <1>6. f.id \in Nat \ {NoOrder}
    BY <1>5, WorldParts, IdFacts DEF NoOrder
  <1> QED BY <1>2, <1>3, <1>4, <1>5, <1>6

LEMMA TimeoutCancelSteps ==
    ASSUME IInv, NEW p \in Procs, TimeoutCancels(p)
    PROVE  Well
  <1>1. PICK f : f = Top(p)
    OBVIOUS
  <1>2. PICK id : id = f.id
    OBVIOUS
  <1>3. At(p, "timeout") /\ setup' = setup /\ breach' = breach /\ orphans' = orphans
        /\ linked' = linked /\ row' = row
    BY DEF TimeoutCancels
  <1>4. "timeout" \in TimeoutPcs
    BY DEF TimeoutPcs
  <1>5. /\ p = "timer" /\ Quiet(p) /\ TimeoutPcs \subseteq PcsOf(p) /\ FrameOK(p, f) /\ f \in FrameT
        /\ f.pc = "timeout" /\ id \in Ids /\ id \in Nat /\ RoleOf(id, "PANIC_EXIT")
    BY <1>1, <1>2, <1>3, <1>4, TimeoutFacts
  <1>6. CASE /\ Returns(p) /\ faults' = faults /\ broker' = broker
             /\ mem' = mem \/ mem' = [mem EXCEPT !.retries = 0]
    <2>1. MemTo(mem')
      BY <1>6, WorldParts, MemSame, MemUnwatched
    <2>2. Calm
      BY <1>3, <1>6, <2>1, WorldParts, RowSame, CalmWrites
    <2> QED BY <1>5, <1>6, <2>2, CalmReturns
  <1>7. CASE /\ Working(id) /\ ~(mem.retries >= PANIC_EXIT_MAX_RETRIES)
             /\ mem' = [mem EXCEPT !.expected = @ \cup {id}]
             /\ Cancelled(id) \/ NotCancelled
             /\ GoesTo(p, "timeoutPlace")
    <2>1. MemTo(mem')
      BY <1>5, <1>7, WorldParts, MemExpects
    <2>2. Calm
      BY <1>3, <1>7, <2>1, WorldParts, CalmCancels
    <2>3. PICK g : g = [f EXCEPT !.pc = "timeoutPlace"]
      OBVIOUS
    <2> "timeoutPlace" \in Pcs
      BY DEF Pcs, TimerPcs, LoneTimerPcs, TimeoutPcs
    <2>4. g \in FrameT /\ g.pc = "timeoutPlace" /\ g.id = f.id /\ g.t = f.t /\ g.todo = f.todo
      BY <1>5, <2>3, FramePc
    <2>5. FrameOK(p, f)'
      BY <1>5, <2>2, TopKept
    <2>6. mem'.retries < PANIC_EXIT_MAX_RETRIES
      <3>1. mem'.retries = mem.retries /\ mem.retries \in Nat
        BY <1>7, WorldParts DEF MemOK, MemType
      <3> QED BY <1>7, <3>1, LifecycleAssumption
    <2>7. Alone => LastPanic(id)
      <3>1. orders[id].role = "PANIC_EXIT" /\ orders[id].st \notin DeadStatuses
        BY <1>5, <1>7 DEF RoleOf, Working, DeadStatuses
      <3> QED BY <1>5, <3>1, WorldParts DEF SoleInv
    <2>8. (Alone' => Alone) /\ (~Bought' => ~Bought) /\ (LastPanic(id)' <=> LastPanic(id))
      BY <2>2, WorldParts, RolesGo, SoldStays DEF Calm
    <2>9. Places(g)'
      BY <1>2, <2>4, <2>6, <2>7, <2>8 DEF Places
    <2>10. Refers(g)' /\ Role(p, g)' /\ Closes(g)'
      BY <1>5, <2>4, <2>5 DEF FrameOK, Refers, Role, Closes, StopPcs, TargetPcs, SoldPcs, TimeoutPcs
    <2>11. g.pc \in PcsOf(p)'
      BY <1>3, <1>5, <2>4, PcsStay DEF TimeoutPcs
    <2>12. FrameOK(p, g)'
      BY <2>4, <2>9, <2>10, <2>11 DEF FrameOK
    <2>13. Goes(p, <<g>>)
      BY <1>1, <1>7, <2>3 DEF GoesTo
    <2>14. Line(g.id)
      BY <1>2, <1>5, <1>7, <2>4 DEF Line, Working
    <2> QED BY <1>5, <2>2, <2>4, <2>12, <2>13, <2>14, CalmHeats
  <1>8. \/ /\ Returns(p) /\ faults' = faults /\ broker' = broker
           /\ mem' = mem \/ mem' = [mem EXCEPT !.retries = 0]
        \/ /\ Working(id) /\ ~(mem.retries >= PANIC_EXIT_MAX_RETRIES)
           /\ mem' = [mem EXCEPT !.expected = @ \cup {id}]
           /\ Cancelled(id) \/ NotCancelled
           /\ GoesTo(p, "timeoutPlace")
    BY <1>1, <1>2 DEF TimeoutCancels, NoFault
  <1> QED BY <1>6, <1>7, <1>8

(* The panic exit is not placed again.                                      *)
LEMMA TimeoutEnds ==
    ASSUME IInv, NEW p \in Procs, At(p, "timeoutPlace"), setup' = setup /\ breach' = breach,
           faults' = faults \/ (faults > 0 /\ faults' = faults - 1), broker' = broker,
           orphans' = orphans, linked' = linked, row' = row, Returns(p),
           mem' = mem \/ mem' = [mem EXCEPT !.retries = 0]
    PROVE  Well
  <1>1. "timeoutPlace" \in TimeoutPcs
    BY DEF TimeoutPcs
  <1>2. Quiet(p)
    BY <1>1, TimeoutFacts
  <1>3. MemTo(mem')
    BY WorldParts, MemSame, MemUnwatched
  <1>4. Calm
    BY <1>3, WorldParts, RowSame, CalmWrites
  <1> QED BY <1>2, <1>4, CalmReturns

LEMMA TimeoutRowSteps ==
    ASSUME IInv, NEW p \in Procs, TimeoutRow(p)
    PROVE  Well
  <1>1. PICK f : f = Top(p)
    OBVIOUS
  <1>2. /\ At(p, "timeoutRow") /\ Writes([status |-> "GUARD_FAILED", panic |-> f.id])
        /\ Goes(p, <<[f EXCEPT !.pc = "timeoutLink"]>>) /\ setup' = setup /\ breach' = breach
        /\ faults' = faults
        /\ broker' = broker /\ orphans' = orphans /\ linked' = linked
        /\ mem' = [mem EXCEPT !.retries = @ + 1]
    BY <1>1 DEF TimeoutRow, GoesTo
  <1>3. "timeoutRow" \in TimeoutPcs
    BY DEF TimeoutPcs
  <1>4. /\ p = "timer" /\ Quiet(p) /\ TimeoutPcs \subseteq PcsOf(p) /\ FrameOK(p, f) /\ f \in FrameT
        /\ f.pc = "timeoutRow" /\ f.id \in Nat \ {NoOrder} /\ RoleOf(f.id, "PANIC_EXIT")
    BY <1>1, <1>2, <1>3, TimeoutFacts
  <1>5. RowTo(row') /\ row'.panic # NoOrder
    <2> "GUARD_FAILED" \in {"GUARD_FAILED", "PANIC_EXIT_PLACED"}
      OBVIOUS
    <2> QED BY <1>2, <1>4, WorldParts, WrotePanic
  <1>6. orders' = orders /\ pos' = pos /\ news' = news
    BY <1>2 DEF broker
  <1>7. OrdersGo /\ RolesStay
    BY <1>6, WorldParts, OrdersSame
  <1>8. MemOK(mem)' /\ mem'.inFlight = mem.inFlight
    <2>1. PICK m : m = mem'
      OBVIOUS
    <2>2. mem.retries \in Nat /\ mem.retries < PANIC_EXIT_MAX_RETRIES
      BY <1>4, WorldParts DEF FrameOK, Places, MemOK, MemType
    <2>3. mem.retries + 1 \in 0 .. PANIC_EXIT_MAX_RETRIES
      BY <2>2, LifecycleAssumption
    <2>4. MemOK(m)
      BY <1>2, <2>1, <2>3, WorldParts DEF MemOK, MemType
    <2>5. MemOK(m)'
      BY <1>7, <2>4, MemKept
    <2> QED BY <1>2, <2>1, <2>5, WorldParts DEF MemOK, MemType
  <1>9. Mild
    <2>1. NewsGo
      BY <1>2, <1>6, <1>7, WorldParts, NewsSame DEF NewsGo
    <2> QED BY <1>2, <1>5, <1>6, <1>7, <1>8, <2>1, RowMoves DEF Mild, FaultsGo
  <1>10. Onward
    BY <1>5, <1>6, <1>7, <1>9, WorldParts DEF Onward, Mild, Sinks, RowStays, RowTo, OrdersInv
  <1>11. PICK g : g = [f EXCEPT !.pc = "timeoutLink"]
    OBVIOUS
  <1> "timeoutLink" \in Pcs
    BY DEF Pcs, TimerPcs, LoneTimerPcs, TimeoutPcs
  <1>12. g \in FrameT /\ g.pc = "timeoutLink" /\ g.id = f.id /\ g.t = f.t /\ g.todo = f.todo
    BY <1>4, <1>11, FramePc
  <1>13. FrameOK(p, g)'
    <2>1. Refers(g)'
      <3>1. PICK t : t = f.t
        OBVIOUS
      <3>2. Named(t)'
        BY <1>4, <1>7, <3>1, NamedKept DEF FrameOK, Refers
      <3> QED BY <1>4, <1>7, <1>12, <3>1, <3>2 DEF FrameOK, Refers, RolesStay
    <2>2. RoleOf(g.id, "PANIC_EXIT")'
      BY <1>4, <1>7, <1>12 DEF RoleOf, RolesStay
    <2>3. Role(p, g)' /\ Places(g)' /\ Closes(g)'
      BY <1>12, <2>2 DEF Role, Places, Closes, StopPcs, TargetPcs
    <2>4. g.pc \in PcsOf(p)'
      BY <1>2, <1>4, <1>12, PcsStay DEF TimeoutPcs
    <2> QED BY <1>12, <2>1, <2>3, <2>4 DEF FrameOK
  <1>14. \A q \in Procs : q # p => Keeps(q)
    <2> SUFFICES ASSUME NEW q \in Procs, q # p
                 PROVE  Keeps(q)
      OBVIOUS
    <2>1. q = "pipeline"
      BY <1>4, ProcNames
    <2>2. \A f0 : FrameOK(q, f0) => f0.pc \notin {"timeoutPlace", "timeoutRow"}
      BY <2>1 DEF FrameOK, PcsOf, PipelinePcs, StopPcs, TargetPcs, PanickingPcs
    <2>3. (NoStop' <=> NoStop) /\ (NoPanic' <=> NoPanic) /\ \A id : LastPanic(id)' <=> LastPanic(id)
      BY <1>7, WorldParts, RolesGo
    <2>4. \A f0 : FrameOK(q, f0) => Spared(f0)
      BY <2>2, <2>3 DEF Spared
    <2> QED BY <1>10, <2>4, WorldParts, FrameKept DEF Keeps
  <1>15. Goes(p, <<g>>)
    BY <1>2, <1>11
  <1>16. FramesInv'
    BY <1>10, <1>13, <1>14, <1>15, WorldParts, OneFrame, NestedKept, FramesGo
  <1>17. Claims'
    <2>1. ~At(p, "slRow")
      BY <1>2 DEF At
    <2>2. StopHeld' /\ (Alone => PanicHeld)'
      BY <1>5, <1>9, <1>15, <2>1, StopStays, PanicStays
    <2>3. Cool(p)'
      BY <1>12, <1>15, WorldParts, CoolOne DEF HotPcs
    <2>4. TwoHeld'
      BY <1>5, <1>9, <1>15, <2>3, TwoCool
    <2> QED BY <1>5, <2>2, <2>4 DEF Claims, MarkerHeld
  <1> QED BY <1>9, <1>16, <1>17, WorldParts, WorldGoes DEF Well, IInv, Mild, RowGoes

-----------------------------------------------------------------------------
(* The reconcilers and the forced flatten.                                  *)
ComparingPcs == {"tick", "tickFlat", "positions", "heal", "reconcile", "flat"}

LEMMA ComparingFacts ==
    ASSUME IInv, NEW p \in Procs, NEW pc, At(p, pc), pc \in ComparingPcs, NEW f, f = Top(p)
    PROVE  /\ p = "pipeline" /\ Quiet(p) /\ PcsOf(p) = PipelinePcs
           /\ FrameOK(p, f) /\ f \in FrameT /\ f.pc = pc
  <1>1. pc \notin TimerPcs /\ pc \notin PanicPcs \cup {"slRow"}
    BY DEF ComparingPcs, TimerPcs, LoneTimerPcs, TimeoutPcs, PanickingPcs, PanicPcs
  <1> QED BY <1>1, OnlyPipeline, QuietAt, TopFacts

(* The frame of a position that was read.                                   *)
LEMMA ReadFrame ==
    ASSUME breach => breach', NEW c \in {"tick", "heal"}, NEW q \in Int,
           (~Bought /\ q = 0 => Sold)', NEW g,
           g = [Frame(c) EXCEPT !.q = q] \/ g = [Frame(c) EXCEPT !.q = q, !.flag = TRUE]
    PROVE  FrameOK("pipeline", g)' /\ g.pc = c
  <1>1. PICK e : e = Frame(c)
    OBVIOUS
  <1> c \in Pcs
    BY DEF Pcs, PipelinePcs
  <1>2. e \in FrameT /\ e.pc = c /\ e.id = NoOrder /\ e.t = NewRow /\ e.todo = <<>>
    BY <1>1, NewFrame
  <1>3. g \in FrameT /\ g.pc = c /\ g.id = NoOrder /\ g.t = NewRow /\ g.todo = <<>> /\ g.q = q
    BY <1>1, <1>2 DEF FrameT
  <1>4. Refers(g)'
    BY <1>3, RefersNothing
  <1>5. Role("pipeline", g)' /\ Places(g)'
    BY <1>3 DEF Role, Places, StopPcs, TargetPcs, SoldPcs, TimeoutPcs
  <1>6. Closes(g)'
    BY <1>3 DEF Closes
  <1>7. g.pc \in PcsOf("pipeline")'
    BY <1>3, PcsFacts, PcsStay DEF PipelinePcs
  <1> QED BY <1>3, <1>4, <1>5, <1>6, <1>7 DEF FrameOK

LEMMA TickSteps ==
    ASSUME IInv, OcoTick
    PROVE  Well
  <1>1. /\ setup' = setup /\ breach' = breach /\ broker' = broker /\ orphans' = orphans
        /\ linked' = linked
        /\ row' = row /\ mem' = mem
        /\ \/ Begins("pipeline", [Frame("tick") EXCEPT !.q = pos]) /\ faults' = faults
           \/ h' = h /\ faults > 0 /\ faults' = faults - 1
    BY DEF OcoTick, NoFault, Fault
  <1>2. Calm
    BY <1>1, WorldParts, RowSame, MemSame, CalmWrites
  <1>3. CASE h' = h
    BY <1>1, <1>2, <1>3, CalmSame
  <1>4. CASE Begins("pipeline", [Frame("tick") EXCEPT !.q = pos])
    <2>1. PICK q : q = pos
      OBVIOUS
    <2>2. PICK g : g = [Frame("tick") EXCEPT !.q = q]
      OBVIOUS
    <2>3. q \in Int /\ (~Bought /\ q = 0 => Sold)'
      BY <1>1, <2>1, WorldParts DEF OrdersInv, Sold, broker
    <2> "tick" \in {"tick", "heal"}
      OBVIOUS
    <2>4. FrameOK("pipeline", g)' /\ g.pc = "tick"
      BY <1>1, <2>2, <2>3, ReadFrame
    <2>5. Begins("pipeline", g)
      BY <1>4, <2>1, <2>2
    <2>6. Goes("pipeline", <<g>>) /\ Quiet("pipeline")
      BY <2>5, ProcNames, BeginsGoes DEF Quiet
    <2> QED BY <1>2, <2>4, <2>6, ProcNames, CalmOne
  <1> QED BY <1>1, <1>3, <1>4

(* The frame that cancels the legs of a trade that is flat.                 *)
LEMMA FlatFrame ==
    ASSUME World, Calm, ~Bought => Sold, NEW c \in {"tickFlat", "flat"}, NEW t \in RowType,
           Named(t),
           NEW s, TodoOK(s), NEW g,
           g = [Frame(c) EXCEPT !.t = t, !.todo = s] \/ g = [Frame(c) EXCEPT !.todo = s]
    PROVE  FrameOK("pipeline", g)' /\ g.pc = c
  <1>1. PICK e : e = Frame(c)
    OBVIOUS
  <1> c \in Pcs
    BY DEF Pcs, PipelinePcs
  <1>2. e \in FrameT /\ e.pc = c /\ e.id = NoOrder /\ e.t = NewRow
    BY <1>1, NewFrame
  <1>3. s \in Seq(Nat)
    BY DEF TodoOK
  <1>4. g \in FrameT /\ g.pc = c /\ g.id = NoOrder /\ g.t \in {t, NewRow} /\ g.todo = s
    BY <1>1, <1>2, <1>3 DEF FrameT
  <1>5. RolesStay /\ (breach => breach')
    BY RolesGo DEF World, Calm, FaultsGo
  <1>6. Refers(g)'
    <2>1. Named(NewRow)
      BY NewRowType DEF Named
    <2>2. PICK z : z = g.t
      OBVIOUS
    <2>3. Named(z)
      BY <1>4, <2>1, <2>2
    <2>4. Named(z)' /\ TodoOK(s)'
      BY <1>5, <2>3, NamedKept, TodoKept
    <2> QED BY <1>4, <2>2, <2>4 DEF Refers, TodoOK
  <1>7. Role("pipeline", g)' /\ Places(g)'
    BY <1>4 DEF Role, Places, StopPcs, TargetPcs, SoldPcs, TimeoutPcs
  <1>8. Closes(g)'
    BY <1>4, SoldStays DEF Closes
  <1>9. g.pc \in PcsOf("pipeline")'
    BY <1>4, <1>5, PcsFacts, PcsStay DEF PipelinePcs
  <1> QED BY <1>4, <1>6, <1>7, <1>8, <1>9 DEF FrameOK

LEMMA CompareSteps ==
    ASSUME IInv, NEW p \in Procs, OcoCompares(p)
    PROVE  Well
  <1>1. PICK f : f = Top(p)
    OBVIOUS
  <1>2. PICK legs : legs = IF row.cleanup THEN <<>> ELSE Legs
    OBVIOUS
  <1>3. PICK b : b = (row.cleanup \/ legs # <<>>)
    OBVIOUS
  <1>4. /\ At(p, "tick") /\ setup' = setup /\ breach' = breach /\ faults' = faults
        /\ broker' = broker
        /\ orphans' = orphans /\ linked' = linked
    BY DEF OcoCompares
  <1> "tick" \in ComparingPcs
    BY DEF ComparingPcs
  <1>5. /\ p = "pipeline" /\ Quiet(p) /\ PcsOf(p) = PipelinePcs
        /\ FrameOK(p, f) /\ f \in FrameT /\ f.pc = "tick"
    BY <1>1, <1>4, ComparingFacts
  <1>6. CASE /\ f.q = 0
             /\ Writes([cleanup |-> b])
             /\ Goes(p, <<[Frame("tickFlat") EXCEPT !.t = row, !.todo = legs]>>)
             /\ mem' = mem
    <2>1. row.cleanup \in BOOLEAN /\ b \in BOOLEAN
      BY <1>3, WorldParts DEF RowInv, RowType
    <2>2. Calm
      BY <1>4, <1>6, <2>1, WorldParts, WroteCleanup, MemSame, CalmWrites
    <2>3. TodoOK(legs)
      BY <1>2, WorldParts, LegsToDo, NothingToDo
    <2>4. ~Bought => Sold
      BY <1>5, <1>6 DEF FrameOK, Closes
    <2>5. PICK t : t = row
      OBVIOUS
    <2>6. t \in RowType /\ Named(t)
      BY <2>5, WorldParts DEF RowInv
    <2>7. PICK g : g = [Frame("tickFlat") EXCEPT !.t = t, !.todo = legs]
      OBVIOUS
    <2> "tickFlat" \in {"tickFlat", "flat"}
      OBVIOUS
    <2>8. FrameOK("pipeline", g)' /\ g.pc = "tickFlat"
      BY <2>2, <2>3, <2>4, <2>6, <2>7, WorldParts, FlatFrame
    <2>9. Goes(p, <<g>>)
      BY <1>6, <2>5, <2>7
    <2> QED BY <1>5, <2>2, <2>8, <2>9, CalmOne
  <1>7. CASE mem' = [mem EXCEPT !.kill = TRUE] /\ Goes(p, FlattenAndHalt) /\ row' = row
    <2>1. Calm
      BY <1>4, <1>7, WorldParts, RowSame, MemFlags, CalmWrites
    <2> QED BY <1>5, <1>7, <2>1, FlattenGoes
  <1>8. CASE Returns(p) /\ row' = row /\ mem' = mem
    <2>1. Calm
      BY <1>4, <1>8, WorldParts, RowSame, MemSame, CalmWrites
    <2> QED BY <1>5, <1>8, <2>1, CalmReturns
  <1>9. \/ /\ f.q = 0
           /\ Writes([cleanup |-> b])
           /\ Goes(p, <<[Frame("tickFlat") EXCEPT !.t = row, !.todo = legs]>>)
           /\ mem' = mem
        \/ mem' = [mem EXCEPT !.kill = TRUE] /\ Goes(p, FlattenAndHalt) /\ row' = row
        \/ Returns(p) /\ row' = row /\ mem' = mem
    BY <1>1, <1>2, <1>3 DEF OcoCompares
  <1> QED BY <1>6, <1>7, <1>8, <1>9

LEMMA CancelRemainingSteps ==
    ASSUME IInv, NEW p \in Procs, CancelRemaining(p)
    PROVE  Well
  <1>1. PICK f : f = Top(p)
    OBVIOUS
  <1>2. PICK id : id = Head(f.todo)
    OBVIOUS
  <1>3. /\ h[p] # <<>> /\ f.pc \in {"tickFlat", "flat"} /\ f.todo # <<>> /\ setup' = setup
        /\ breach' = breach
        /\ orphans' = orphans /\ linked' = linked /\ row' = row
        /\ Goes(p, <<[f EXCEPT !.todo = Tail(f.todo)]>>)
        /\ mem' = [mem EXCEPT !.expected = @ \cup {id}]
        /\ Cancelled(id) \/ NotCancelled
    BY <1>1, <1>2 DEF CancelRemaining
  <1>4. At(p, f.pc) /\ f.pc \in ComparingPcs
    BY <1>1, <1>3 DEF At, ComparingPcs
  <1>5. Quiet(p) /\ FrameOK(p, f) /\ f \in FrameT
    BY <1>1, <1>4, ComparingFacts
  <1>6. id \in Ids /\ id \in Nat /\ TodoOK(Tail(f.todo))
    BY <1>2, <1>3, <1>5, FrameTodo, RestToDo
  <1>7. MemTo(mem')
    BY <1>3, <1>6, WorldParts, MemExpects
  <1>8. Calm
    BY <1>3, <1>7, WorldParts, CalmCancels
  <1>9. PICK s : s = Tail(f.todo)
    OBVIOUS
  <1>10. PICK g : g = [f EXCEPT !.todo = s]
    OBVIOUS
  <1>11. FrameOK(p, g)' /\ g.pc = f.pc
    BY <1>5, <1>6, <1>8, <1>9, <1>10, WorldParts, TodoNext
  <1>12. Goes(p, <<g>>)
    BY <1>3, <1>9, <1>10
  <1> QED BY <1>4, <1>5, <1>8, <1>11, <1>12, CalmOne DEF ComparingPcs

(* The pipeline closes a trade that is flat, or leaves it.                  *)
LEMMA ClosesGoes ==
    ASSUME IInv, Calm, Quiet("pipeline"), ~Bought => Sold,
           Goes("pipeline", <<Frame("finalize")>>)
    PROVE  Well
  <1>1. PICK g : g = Frame("finalize")
    OBVIOUS
  <1>2. FrameOK("pipeline", g)' /\ g.pc = "finalize"
    BY <1>1, ProcNames, WorldParts, NewFinalize
  <1> QED BY <1>1, <1>2, ProcNames, CalmOne

LEMMA OcoFlatSteps ==
    ASSUME IInv, NEW p \in Procs, OcoFlat(p)
    PROVE  Well
  <1>1. PICK f : f = Top(p)
    OBVIOUS
  <1>2. /\ At(p, "tickFlat") /\ setup' = setup /\ breach' = breach /\ faults' = faults
        /\ broker' = broker
        /\ orphans' = orphans /\ linked' = linked
        /\ \/ /\ mem' = [mem EXCEPT !.kill = TRUE] /\ Writes(Status("CLOSED"))
              /\ Goes(p, <<Frame("finalize")>>)
           \/ Returns(p) /\ row' = row /\ mem' = mem
    BY DEF OcoFlat
  <1> "tickFlat" \in ComparingPcs
    BY DEF ComparingPcs
  <1>3. p = "pipeline" /\ Quiet(p) /\ FrameOK(p, f) /\ f.pc = "tickFlat"
    BY <1>1, <1>2, ComparingFacts
  <1>4. ~Bought => Sold
    BY <1>3 DEF FrameOK, Closes
  <1>5. "CLOSED" \in Outcomes /\ MayEnd("CLOSED")
    BY <1>4, OutcomeFacts DEF MayEnd
  <1>6. CASE /\ mem' = [mem EXCEPT !.kill = TRUE] /\ Writes(Status("CLOSED"))
             /\ Goes(p, <<Frame("finalize")>>)
    <2>1. Calm
      BY <1>2, <1>5, <1>6, WorldParts, WroteStatus, MemFlags, CalmWrites
    <2> QED BY <1>3, <1>4, <1>6, <2>1, ClosesGoes
  <1>7. CASE Returns(p) /\ row' = row /\ mem' = mem
    <2>1. Calm
      BY <1>2, <1>7, WorldParts, RowSame, MemSame, CalmWrites
    <2> QED BY <1>3, <1>7, <2>1, CalmReturns
  <1> QED BY <1>2, <1>6, <1>7

LEMMA FlatCloseSteps ==
    ASSUME IInv, NEW p \in Procs, FlatCloses(p)
    PROVE  Well
  <1>1. PICK f : f = Top(p)
    OBVIOUS
  <1>2. /\ At(p, "flat") /\ setup' = setup /\ breach' = breach /\ faults' = faults
        /\ broker' = broker
        /\ orphans' = orphans /\ linked' = linked /\ mem' = mem /\ Writes(Status("CLOSED"))
        /\ Goes(p, <<Frame("finalize")>>)
    BY DEF FlatCloses
  <1> "flat" \in ComparingPcs
    BY DEF ComparingPcs
  <1>3. p = "pipeline" /\ Quiet(p) /\ FrameOK(p, f) /\ f.pc = "flat"
    BY <1>1, <1>2, ComparingFacts
  <1>4. ~Bought => Sold
    BY <1>3 DEF FrameOK, Closes
  <1>5. "CLOSED" \in Outcomes /\ MayEnd("CLOSED")
    BY <1>4, OutcomeFacts DEF MayEnd
  <1>6. Calm
    BY <1>2, <1>5, WorldParts, WroteStatus, MemSame, CalmWrites
  <1> QED BY <1>2, <1>3, <1>4, <1>6, ClosesGoes

LEMMA ReconcileSteps ==
    ASSUME IInv, Reconcile
    PROVE  Well
  <1>1. /\ Begins("pipeline", Frame("positions")) /\ setup' = setup /\ breach' = breach
        /\ faults' = faults
        /\ broker' = broker /\ orphans' = orphans /\ linked' = linked /\ row' = row
    BY DEF Reconcile
  <1>2. PICK kn : kn = [i \in OrderIds |-> IF i \in Ids THEN orders[i].st ELSE "none"]
    OBVIOUS
  <1>3. mem' = [mem EXCEPT !.known = kn]
    BY <1>2 DEF Reconcile, StatusAt, Ids
  <1>4. kn \in [OrderIds -> KnownStatuses] /\ \A i \in OrderIds : kn[i] = "COMPLETE" => Complete(i)
    <2>1. \A i \in Ids : orders[i].st \in BrokerStatuses
      BY WorldParts, IdFacts DEF OrderType
    <2> QED BY <1>2, <2>1 DEF KnownStatuses, Complete
  <1>5. MemTo(mem')
    BY <1>3, <1>4, WorldParts, RetriesFacts DEF MemTo, MemOK, MemType
  <1>6. Calm
    BY <1>1, <1>5, WorldParts, RowSame, CalmWrites
  <1>7. PICK g : g = Frame("positions")
    OBVIOUS
  <1> "positions" \in PlainPcs
    BY DEF PlainPcs
  <1>8. "positions" \in PcsOf("pipeline")
    BY PcsFacts DEF PipelinePcs
  <1>9. FrameOK("pipeline", g)' /\ g.pc = "positions"
    BY <1>1, <1>7, <1>8, ProcNames, NewPlain
  <1>10. Goes("pipeline", <<g>>) /\ Quiet("pipeline")
    BY <1>1, <1>7, ProcNames, BeginsGoes DEF Quiet
  <1> QED BY <1>6, <1>9, <1>10, ProcNames, CalmOne

LEMMA ReadPositionSteps ==
    ASSUME IInv, NEW p \in Procs, ReadPositions(p)
    PROVE  Well
  <1>1. PICK f : f = Top(p)
    OBVIOUS
  <1>2. /\ At(p, "positions") /\ setup' = setup /\ breach' = breach /\ broker' = broker
        /\ orphans' = orphans
        /\ linked' = linked /\ row' = row /\ mem' = mem
        /\ faults' = faults \/ (faults > 0 /\ faults' = faults - 1)
    BY DEF ReadPositions, NoFault, Fault
  <1> "positions" \in ComparingPcs
    BY DEF ComparingPcs
  <1>3. p = "pipeline" /\ Quiet(p) /\ PcsOf(p) = PipelinePcs /\ FrameOK(p, f) /\ f \in FrameT
    BY <1>1, <1>2, ComparingFacts
  <1>4. Calm
    BY <1>2, WorldParts, RowSame, MemSame, CalmWrites
  <1>5. CASE Goes(p, <<[Frame("heal") EXCEPT !.q = pos, !.flag = TRUE]>>)
    <2>1. PICK q : q = pos
      OBVIOUS
    <2>2. PICK g : g = [Frame("heal") EXCEPT !.q = q, !.flag = TRUE]
      OBVIOUS
    <2>3. q \in Int /\ (~Bought /\ q = 0 => Sold)'
      BY <1>2, <2>1, WorldParts DEF OrdersInv, Sold, broker
    <2> "heal" \in {"tick", "heal"}
      OBVIOUS
    <2>4. FrameOK("pipeline", g)' /\ g.pc = "heal"
      BY <1>2, <2>2, <2>3, ReadFrame
    <2>5. Goes(p, <<g>>)
      BY <1>5, <2>1, <2>2
    <2> QED BY <1>3, <1>4, <2>4, <2>5, CalmOne
  <1>6. CASE Fault("unread") /\ GoesTo(p, "heal")
    <2>1. PositionsUnread'
      <3>1. faults \in 0 .. setup.faults /\ setup.faults \in Nat
        BY WorldParts, LifecycleAssumption DEF OrdersInv, Setup
      <3> QED BY <1>2, <1>6, <3>1 DEF PositionsUnread, Fault
    <2>2. PICK g : g = [f EXCEPT !.pc = "heal"]
      OBVIOUS
    <2> "heal" \in Pcs
      BY PcsFacts DEF PipelinePcs
    <2>3. g \in FrameT /\ g.pc = "heal" /\ g.id = f.id /\ g.t = f.t /\ g.todo = f.todo
      BY <1>3, <2>2, FramePc
    <2>4. Refers(g)'
      BY <1>3, <1>4, <2>3, TopKept DEF FrameOK, Refers
    <2>5. Role(p, g)' /\ Places(g)'
      BY <2>3 DEF Role, Places, StopPcs, TargetPcs, SoldPcs, TimeoutPcs
    <2>6. Closes(g)'
      BY <2>1, <2>3 DEF Closes, Sold
    <2>7. g.pc \in PcsOf(p)'
      BY <1>2, <1>3, <2>3, PcsStay DEF PipelinePcs
    <2>8. FrameOK(p, g)'
      BY <2>3, <2>4, <2>5, <2>6, <2>7 DEF FrameOK
    <2>9. Goes(p, <<g>>)
      BY <1>1, <1>6, <2>2 DEF GoesTo
    <2> QED BY <1>3, <1>4, <2>3, <2>8, <2>9, CalmOne
  <1> QED BY <1>5, <1>6 DEF ReadPositions

LEMMA HealSteps ==
    ASSUME IInv, NEW p \in Procs, Heal(p)
    PROVE  Well
  <1>1. PICK f : f = Top(p)
    OBVIOUS
  <1>2. /\ At(p, "heal") /\ setup' = setup /\ breach' = breach /\ faults' = faults
        /\ broker' = broker
        /\ orphans' = orphans /\ linked' = linked /\ row' = row
        /\ Goes(p, <<[f EXCEPT !.pc = "reconcile"]>>)
        /\ mem' = Cleaned(mem) \/ mem' = mem
    BY <1>1 DEF Heal, GoesTo
  <1> "heal" \in ComparingPcs
    BY DEF ComparingPcs
  <1>3. /\ p = "pipeline" /\ Quiet(p) /\ PcsOf(p) = PipelinePcs /\ FrameOK(p, f) /\ f \in FrameT
        /\ f.pc = "heal"
    BY <1>1, <1>2, ComparingFacts
  <1>4. MemTo(mem')
    BY <1>2, WorldParts, MemCleaned, MemSame
  <1>5. Calm
    BY <1>2, <1>4, WorldParts, RowSame, CalmWrites
  <1>6. PICK g : g = [f EXCEPT !.pc = "reconcile"]
    OBVIOUS
  <1> "reconcile" \in Pcs
    BY PcsFacts DEF PipelinePcs
  <1>7. g \in FrameT /\ g.pc = "reconcile" /\ g.id = f.id /\ g.t = f.t /\ g.todo = f.todo
        /\ g.q = f.q
    BY <1>3, <1>6, FramePc
  <1>8. FrameOK(p, f)'
    BY <1>3, <1>5, TopKept
  <1>9. Refers(g)'
    BY <1>7, <1>8 DEF FrameOK, Refers
  <1>10. Role(p, g)' /\ Places(g)' /\ Closes(g)'
    BY <1>3, <1>7, <1>8 DEF FrameOK, Role, Places, Closes, StopPcs, TargetPcs, SoldPcs, TimeoutPcs
  <1>11. g.pc \in PcsOf(p)'
    BY <1>2, <1>3, <1>7, PcsStay DEF PipelinePcs
  <1>12. FrameOK(p, g)'
    BY <1>7, <1>9, <1>10, <1>11 DEF FrameOK
  <1> QED BY <1>2, <1>3, <1>5, <1>6, <1>7, <1>12, CalmOne

(* The reconcile of a trade starts from what its frame knows.               *)
LEMMA ReconcileFacts ==
    ASSUME IInv, NEW p \in Procs, At(p, "reconcile"), NEW f, f = Top(p)
    PROVE  /\ p = "pipeline" /\ Quiet(p) /\ PcsOf(p) = PipelinePcs /\ FrameOK(p, f)
           /\ ~Bought /\ f.q = 0 => Sold
           /\ ~Terminal(row.status) => NoStop \/ row.sl # NoOrder
           /\ row \in RowType /\ Named(row)
  <1> "reconcile" \in ComparingPcs
    BY DEF ComparingPcs
  <1>1. /\ p = "pipeline" /\ Quiet(p) /\ PcsOf(p) = PipelinePcs /\ FrameOK(p, f)
        /\ f.pc = "reconcile"
    BY ComparingFacts
  <1>2. ~Bought /\ f.q = 0 => Sold
    BY <1>1 DEF FrameOK, Closes
  <1>3. ~Terminal(row.status) => NoStop \/ row.sl # NoOrder
    BY <1>1, StopKnown
  <1> QED BY <1>1, <1>2, <1>3, WorldParts DEF RowInv

LEMMA UnendedToDo ==
    ASSUME NEW k \in Nat, k # NoOrder => k \in Ids
    PROVE  TodoOK(Unended(k))
  BY NothingToDo, OneToDo DEF Unended, KnownAs

LEMMA ReconcileFlatSteps ==
    ASSUME IInv, NEW p \in Procs, ReconcileFlat(p)
    PROVE  Well
  <1>1. PICK f : f = Top(p)
    OBVIOUS
  <1>2. PICK ids : ids = Unended(row.sl) \o Unended(row.tgt) \o Unended(row.panic)
    OBVIOUS
  <1>3. /\ At(p, "reconcile") /\ f.q = 0 /\ setup' = setup /\ breach' = breach
        /\ faults' = faults /\ broker' = broker
        /\ orphans' = orphans /\ linked' = linked /\ row' = row
        /\ \/ Returns(p) /\ mem' = mem
           \/ /\ mem' = [mem EXCEPT !.kill = TRUE]
              /\ Goes(p, <<[Frame("flat") EXCEPT !.todo = ids]>>)
    BY <1>1, <1>2 DEF ReconcileFlat, LooksFlat
  <1>4. p = "pipeline" /\ Quiet(p) /\ (~Bought => Sold) /\ row \in RowType /\ Named(row)
    BY <1>1, <1>3, ReconcileFacts
  <1>5. MemTo(mem')
    BY <1>3, WorldParts, MemFlags, MemSame
  <1>6. Calm
    BY <1>3, <1>5, WorldParts, RowSame, CalmWrites
  <1>7. TodoOK(ids)
    <2>1. PICK a, b, c : a = Unended(row.sl) /\ b = Unended(row.tgt) /\ c = Unended(row.panic)
      OBVIOUS
    <2>2. TodoOK(a) /\ TodoOK(b) /\ TodoOK(c)
      BY <1>4, <2>1, NamedIds, UnendedToDo
    <2>3. PICK d : d = a \o b
      OBVIOUS
    <2>4. TodoOK(d)
      BY <2>2, <2>3, MoreToDo
    <2>5. TodoOK(d \o c)
      BY <2>2, <2>4, MoreToDo
    <2> QED BY <1>2, <2>1, <2>3, <2>5
  <1>8. PICK g : g = [Frame("flat") EXCEPT !.todo = ids]
    OBVIOUS
  <1> "flat" \in {"tickFlat", "flat"}
    OBVIOUS
  <1>9. FrameOK("pipeline", g)' /\ g.pc = "flat"
    <2>1. PICK t : t = row
      OBVIOUS
    <2>2. t \in RowType /\ Named(t)
      BY <1>4, <2>1
    <2> QED BY <1>4, <1>6, <1>7, <1>8, <2>2, WorldParts, FlatFrame
  <1>10. Returns(p) \/ Goes(p, <<g>>)
    BY <1>3, <1>8
  <1> QED BY <1>4, <1>6, <1>9, <1>10, CalmReturns, CalmOne

LEMMA GuardFailedSteps ==
    ASSUME IInv, NEW p \in Procs, ReconcileGuardFailed(p)
    PROVE  Well
  <1>1. /\ At(p, "reconcile") /\ setup' = setup /\ breach' = breach /\ faults' = faults
        /\ broker' = broker
        /\ orphans' = orphans /\ linked' = linked
    BY DEF ReconcileGuardFailed
  <1>2. PICK f : f = Top(p)
    OBVIOUS
  <1>3. p = "pipeline" /\ Quiet(p) /\ PcsOf(p) = PipelinePcs /\ row \in RowType /\ Named(row)
    BY <1>1, <1>2, ReconcileFacts
  <1>4. CASE KnownAs(row.panic, {"COMPLETE"})
    <2>1. /\ mem' = [mem EXCEPT !.watch = NoOrder, !.retries = 0] /\ Writes(Status("CLOSED"))
          /\ Goes(p, <<Frame("finalize")>>)
      BY <1>4 DEF ReconcileGuardFailed
    <2>2. row.panic \in Ids /\ mem.known[row.panic] = "COMPLETE"
      BY <1>3, <1>4, NamedIds DEF KnownAs
    <2>3. PICK k : k = row.panic
      OBVIOUS
    <2>4. Complete(k)
      BY <2>2, <2>3, WorldParts, IdFacts DEF MemOK
    <2>5. ~Bought => Sold
      BY <2>4, WorldParts, ExitSold
    <2>6. "CLOSED" \in Outcomes /\ MayEnd("CLOSED")
      BY <2>5, OutcomeFacts DEF MayEnd
    <2>7. MemTo(mem')
      BY <2>1, WorldParts, MemUnwatched
    <2>8. Calm
      BY <1>1, <2>1, <2>6, <2>7, WorldParts, WroteStatus, CalmWrites
    <2> QED BY <1>3, <2>1, <2>5, <2>8, ClosesGoes
  <1>5. CASE ~KnownAs(row.panic, {"COMPLETE"})
    <2>1. /\ row' = row
          /\ mem' = mem \/ mem' = [mem EXCEPT !.watch = NoOrder, !.retries = 0]
          /\ Returns(p) \/ Goes(p, <<Panic(FALSE)>>)
      BY <1>5 DEF ReconcileGuardFailed, Returns
    <2>2. Calm
      <3>1. MemTo(mem')
        BY <2>1, WorldParts, MemSame, MemUnwatched
      <3> QED BY <1>1, <2>1, <3>1, WorldParts, RowSame, CalmWrites
    <2>3. PICK g : g = Panic(FALSE)
      OBVIOUS
    <2>4. "panic" \in PcsOf(p)
      BY <1>3 DEF PipelinePcs, PanickingPcs
    <2>5. FrameOK(p, g)' /\ g.pc = "panic"
      BY <1>1, <2>3, <2>4, PanicFrame
    <2> QED BY <1>3, <2>1, <2>2, <2>3, <2>5, CalmReturns, CalmOne
  <1> QED BY <1>4, <1>5

(* The pipeline finalizes the entry again, or places what is missing.       *)
LEMMA MissingGoes ==
    ASSUME IInv, Calm, Quiet("pipeline"), NoStop \/ row.sl # NoOrder,
           NEW c \in {"entry", "exits"},
           Goes("pipeline", <<Frame(c)>>)
    PROVE  Well
  <1>1. PICK g : g = Frame(c)
    OBVIOUS
  <1> c \in Pcs
    BY DEF Pcs, PipelinePcs
  <1>2. g \in FrameT /\ g.pc = c /\ g.id = NoOrder /\ g.t = NewRow /\ g.todo = <<>>
    BY <1>1, NewFrame
  <1>3. NoStop' \/ row'.sl # NoOrder
    BY WorldParts, RolesGo DEF Calm, RowGoes
  <1>4. Refers(g)' /\ Role("pipeline", g)' /\ Places(g)' /\ Closes(g)'
    <2>1. Refers(g)'
      BY <1>2, RefersNothing
    <2> QED BY <1>2, <1>3, <2>1 DEF Role, Places, Closes, StopPcs, TargetPcs, SoldPcs, TimeoutPcs
  <1>5. g.pc \in PcsOf("pipeline")'
    BY <1>2, PcsFacts, PcsStay DEF PipelinePcs, Calm, FaultsGo
  <1>6. FrameOK("pipeline", g)'
    BY <1>2, <1>4, <1>5 DEF FrameOK
  <1> QED BY <1>1, <1>2, <1>6, ProcNames, CalmOne

LEMMA UnfinishedSteps ==
    ASSUME IInv, NEW p \in Procs, ReconcileUnfinished(p)
    PROVE  Well
  <1>1. /\ At(p, "reconcile") /\ setup' = setup /\ breach' = breach /\ faults' = faults
        /\ broker' = broker
        /\ orphans' = orphans /\ linked' = linked /\ row' = row /\ mem' = mem
        /\ \/ Returns(p)
           \/ ~Terminal(row.status) /\ Goes(p, <<Frame("entry")>>)
    BY DEF ReconcileUnfinished
  <1>2. p = "pipeline" /\ Quiet(p) /\ (~Terminal(row.status) => NoStop \/ row.sl # NoOrder)
    BY <1>1, ReconcileFacts
  <1>3. Calm
    BY <1>1, WorldParts, RowSame, MemSame, CalmWrites
  <1> "entry" \in {"entry", "exits"}
    OBVIOUS
  <1> QED BY <1>1, <1>2, <1>3, CalmReturns, MissingGoes

(* A leg that is dead is handled as its postback would be.                  *)
LEMMA DeadLegGoes ==
    ASSUME IInv, Calm, Quiet("pipeline"), NEW k \in Nat, k \in Ids,
           NEW st \in BrokerStatuses, NEW c \in {"guard", "deadTarget"},
           Goes("pipeline", <<[Frame(c) EXCEPT !.id = k, !.st = st]>>)
    PROVE  Well
  <1>1. PICK e : e = Frame(c)
    OBVIOUS
  <1>2. PICK g : g = [Frame(c) EXCEPT !.id = k, !.st = st]
    OBVIOUS
  <1> c \in Pcs
    BY DEF Pcs, PipelinePcs
  <1>3. e \in FrameT /\ e.pc = c /\ e.t = NewRow /\ e.todo = <<>>
    BY <1>1, NewFrame
  <1>4. g \in FrameT /\ g.pc = c /\ g.id = k /\ g.t = NewRow /\ g.todo = <<>>
    BY <1>1, <1>2, <1>3 DEF FrameT
  <1>5. k \in Ids' /\ (breach => breach')
    BY WorldParts, RolesGo DEF Calm, FaultsGo
  <1>6. Refers(g)'
    BY <1>4, <1>5, NewRowType DEF Refers, Named
  <1>7. Role("pipeline", g)' /\ Places(g)' /\ Closes(g)'
    BY <1>4, <1>5 DEF Role, Places, Closes, StopPcs, TargetPcs, SoldPcs, TimeoutPcs
  <1>8. g.pc \in PcsOf("pipeline")'
    BY <1>4, <1>5, PcsFacts, PcsStay DEF PipelinePcs
  <1>9. FrameOK("pipeline", g)'
    BY <1>4, <1>6, <1>7, <1>8 DEF FrameOK
  <1> QED BY <1>2, <1>4, <1>9, ProcNames, CalmOne

LEMMA LiveReconcileSteps ==
    ASSUME IInv, NEW p \in Procs, ReconcileLive(p)
    PROVE  Well
  <1>1. /\ At(p, "reconcile") /\ row.status = "LIVE" /\ setup' = setup /\ breach' = breach
        /\ faults' = faults
        /\ broker' = broker /\ orphans' = orphans /\ linked' = linked /\ row' = row /\ mem' = mem
    BY DEF ReconcileLive
  <1>2. /\ p = "pipeline" /\ Quiet(p) /\ row \in RowType /\ Named(row)
        /\ ~Terminal(row.status) => NoStop \/ row.sl # NoOrder
    BY <1>1, ReconcileFacts
  <1>3. ~Terminal(row.status)
    BY <1>1, OutcomeFacts
  <1>4. Calm
    BY <1>1, WorldParts, RowSame, MemSame, CalmWrites
  <1>5. PICK sl, tgt, t : sl = row.sl /\ tgt = row.tgt /\ t = row
    OBVIOUS
  <1>6. /\ t \in RowType /\ Named(t) /\ sl \in Nat /\ tgt \in Nat
        /\ sl # NoOrder => sl \in Ids
        /\ tgt # NoOrder => tgt \in Ids
    BY <1>2, <1>5, NamedIds
  <1>7. ASSUME NEW k \in {sl, tgt}, KnownAs(k, {"COMPLETE"})
        PROVE  Complete(k) /\ ~RoleOf(k, "PANIC_EXIT")
    <2>1. k \in Ids /\ mem.known[k] = "COMPLETE"
      BY <1>6, <1>7 DEF KnownAs
    <2>2. Complete(k)
      BY <2>1, WorldParts, IdFacts DEF MemOK
    <2>3. RoleOf(k, "SL") \/ RoleOf(k, "TARGET")
      BY <1>2, <1>5, <1>7 DEF Named, KnownAs
    <2> QED BY <2>2, <2>3 DEF RoleOf
  <1>8. ASSUME NEW k \in {sl, tgt}, KnownAs(k, DeadStatuses)
        PROVE  k \in Nat /\ k \in Ids /\ mem.known[k] \in BrokerStatuses
    BY <1>6, <1>8 DEF KnownAs, DeadStatuses, BrokerStatuses
  <1>9. CASE KnownAs(tgt, {"COMPLETE"}) /\ LegFilled(p, tgt, t)
    BY <1>2, <1>4, <1>6, <1>7, <1>9, LegGoes
  <1>10. CASE KnownAs(sl, {"COMPLETE"}) /\ LegFilled(p, sl, t)
    BY <1>2, <1>4, <1>6, <1>7, <1>10, LegGoes
  <1>11. CASE /\ KnownAs(sl, DeadStatuses)
              /\ Goes(p, <<[Frame("guard") EXCEPT !.id = sl, !.st = mem.known[sl]]>>)
    <2>1. PICK st : st = mem.known[sl]
      OBVIOUS
    <2> "guard" \in {"guard", "deadTarget"}
      OBVIOUS
    <2>2. sl \in Nat /\ sl \in Ids /\ st \in BrokerStatuses
      BY <1>8, <1>11, <2>1
    <2>3. Goes("pipeline", <<[Frame("guard") EXCEPT !.id = sl, !.st = st]>>)
      BY <1>2, <1>11, <2>1
    <2> QED BY <1>2, <1>4, <2>2, <2>3, DeadLegGoes
  <1>12. CASE /\ KnownAs(tgt, DeadStatuses)
              /\ Goes(p, <<[Frame("deadTarget") EXCEPT !.id = tgt, !.st = mem.known[tgt]]>>)
    <2>1. PICK st : st = mem.known[tgt]
      OBVIOUS
    <2> "deadTarget" \in {"guard", "deadTarget"}
      OBVIOUS
    <2>2. tgt \in Nat /\ tgt \in Ids /\ st \in BrokerStatuses
      BY <1>8, <1>12, <2>1
    <2>3. Goes("pipeline", <<[Frame("deadTarget") EXCEPT !.id = tgt, !.st = st]>>)
      BY <1>2, <1>12, <2>1
    <2> QED BY <1>2, <1>4, <2>2, <2>3, DeadLegGoes
  <1>13. CASE Goes(p, <<Frame("exits")>>)
    <2> "exits" \in {"entry", "exits"}
      OBVIOUS
    <2> QED BY <1>2, <1>3, <1>4, <1>13, MissingGoes
  <1>14. CASE Returns(p)
    BY <1>2, <1>4, <1>14, CalmReturns
  <1>15. \/ KnownAs(tgt, {"COMPLETE"}) /\ LegFilled(p, tgt, t)
         \/ KnownAs(sl, {"COMPLETE"}) /\ LegFilled(p, sl, t)
         \/ /\ KnownAs(sl, DeadStatuses)
            /\ Goes(p, <<[Frame("guard") EXCEPT !.id = sl, !.st = mem.known[sl]]>>)
         \/ /\ KnownAs(tgt, DeadStatuses)
            /\ Goes(p, <<[Frame("deadTarget") EXCEPT !.id = tgt, !.st = mem.known[tgt]]>>)
         \/ Goes(p, <<Frame("exits")>>)
         \/ Returns(p)
    BY <1>5 DEF ReconcileLive, Returns
  <1> QED BY <1>9, <1>10, <1>11, <1>12, <1>13, <1>14, <1>15

LEMMA ForceFlattenSteps ==
    ASSUME IInv, ForceFlatten
    PROVE  Well
  <1>1. /\ Begins("pipeline", Panic(FALSE)) /\ mem' = [mem EXCEPT !.kill = TRUE]
        /\ setup' = setup /\ breach' = breach
        /\ faults' = faults /\ broker' = broker /\ orphans' = orphans /\ linked' = linked
        /\ row' = row
    BY DEF ForceFlatten
  <1>2. Calm
    BY <1>1, WorldParts, RowSame, MemFlags, CalmWrites
  <1>3. PICK g : g = Panic(FALSE)
    OBVIOUS
  <1>4. "panic" \in PcsOf("pipeline")
    BY PcsFacts DEF PipelinePcs, PanickingPcs
  <1>5. FrameOK("pipeline", g)' /\ g.pc = "panic"
    BY <1>1, <1>3, <1>4, ProcNames, PanicFrame
  <1>6. Goes("pipeline", <<g>>) /\ Quiet("pipeline")
    BY <1>1, <1>3, ProcNames, BeginsGoes DEF Quiet
  <1> QED BY <1>2, <1>5, <1>6, ProcNames, CalmOne

-----------------------------------------------------------------------------
(* The broker and the market.                                               *)

LEMMA DeadSteps ==
    ASSUME IInv, NEW id \in Ids, NEW st \in DeadStatuses, Dies(id, st)
    PROVE  Well
  <1>1. /\ Working(id) /\ orders' = [orders EXCEPT ![id].st = st] /\ pos' = pos
        /\ news' = news \cup Reports(id, st) /\ setup' = setup /\ breach' = breach
        /\ orphans' = orphans
        /\ linked' = linked /\ row' = row /\ mem' = mem /\ h' = h /\ FaultsGo
    BY DEF Dies, Fault, FaultsGo
  <1>2. OrdersGo /\ RolesStay
    BY <1>1, WorldParts, OrderDies
  <1>3. NewsGo
    <2>1. st \in UpdateStatuses /\ st # "COMPLETE"
      BY DEF DeadStatuses, UpdateStatuses
    <2>2. UpdatesOK(news)'
      BY <1>1, <1>2, <2>1, WorldParts, ReportsOK DEF NewsInv
    <2>3. PICK o : o = orphans
      OBVIOUS
    <2>4. UpdatesOK(o)'
      BY <1>2, <2>3, WorldParts, UpdatesKept DEF NewsInv
    <2>5. linked' \subseteq Ids'
      BY <1>1, <1>2, WorldParts DEF NewsInv, RolesStay
    <2> QED BY <1>1, <2>2, <2>3, <2>4, <2>5 DEF NewsGo, NewsInv
  <1>4. Calm
    BY <1>1, <1>2, <1>3, WorldParts, RowSame, MemSame, RowMoves, MemMoves DEF Calm
  <1> QED BY <1>1, <1>4, CalmSame

LEMMA LostSteps ==
    ASSUME IInv, NEW u \in news, IsLost(u)
    PROVE  Well
  <1>1. /\ setup' = setup /\ breach' = breach /\ orders' = orders /\ pos' = pos
        /\ news' \subseteq news
        /\ orphans' = orphans /\ linked' = linked /\ row' = row /\ mem' = mem /\ h' = h
        /\ faults' = faults \/ (faults > 0 /\ faults' = faults - 1)
    BY DEF IsLost, Fault
  <1>2. Calm
    BY <1>1, WorldParts, RowSame, MemSame, CalmReads
  <1> QED BY <1>1, <1>2, CalmSame

(* The frames when orders and the position move, but no order is added.     *)
LEMMA MarketGoes ==
    ASSUME IInv, World', Onward, Ids' = Ids, row' = row, mem' = mem, h' = h,
           \A id \in Ids : orders'[id].st = "OPEN" => orders[id].st = "OPEN"
    PROVE  Well
  <1>1. RolesStay /\ FaultsGo
    BY DEF Onward
  <1>2. (NoStop => NoStop') /\ (NoPanic => NoPanic') /\ \A id : LastPanic(id) => LastPanic(id)'
    BY <1>1 DEF RolesStay, NoStop, NoPanic, LastPanic
  <1>3. \A f : Spared(f)
    BY <1>2 DEF Spared
  <1>4. \A q \in Procs : Keeps(q)
    BY <1>3, WorldParts, FrameKept DEF Keeps
  <1>5. FramesInv'
    BY <1>4, WorldParts, FramesSame
  <1>6. Claims'
    BY <1>1, ClaimsSame
  <1> QED BY <1>5, <1>6 DEF Well, IInv, FlatWhenClosed

(* The parts of the world that a placement or a trade leaves alone.         *)
LEMMA RestKept ==
    ASSUME World, RolesStay, row' = row, mem' = mem
    PROVE  RowInv' /\ MemOK(mem)'
  <1>1. PICK t, m : t = row /\ m = mem
    OBVIOUS
  <1>2. t \in RowType /\ Named(t) /\ MemOK(m)
    BY <1>1 DEF World, RowInv
  <1>3. Named(t)' /\ MemOK(m)'
    BY <1>2, NamedKept, MemKept
  <1> QED BY <1>1, <1>2, <1>3 DEF RowInv

LEMMA SoldByHandSteps ==
    ASSUME IInv, SoldByHand
    PROVE  Well
  <1>1. /\ pos > 0 /\ pos' = 0 /\ setup' = setup /\ breach' = breach /\ orders' = orders
        /\ news' = news
        /\ orphans' = orphans /\ linked' = linked /\ row' = row /\ mem' = mem /\ h' = h /\ FaultsGo
    BY DEF SoldByHand, Fault, FaultsGo
  <1>2. pos \in Int /\ orders \in Seq(OrderType)
    BY WorldParts DEF OrdersInv
  <1>3. Ids' = Ids /\ RolesStay
    BY <1>1 DEF Ids, RolesStay
  <1>4. /\ setup' \in Setups /\ faults' \in 0 .. setup'.faults /\ breach' \in BOOLEAN
        /\ (Alone' => Alone) /\ (~Bought' => ~Bought)
    BY <1>1, <1>3, WorldParts, FaultsFacts
  <1>5. OrdersInv'
    BY <1>1, <1>3, <1>4, WorldParts DEF OrdersInv
  <1>6. NewsInv'
    BY <1>1, <1>3, WorldParts, NewsSame
  <1>7. SoleInv'
    <2>1. setup.qty \in 1 .. 2
      BY WorldParts, LifecycleAssumption DEF OrdersInv, Setup
    <2>2. \A id \in Ids : orders[id].left \in Nat
      BY WorldParts, IdFacts
    <2>3. \A id : LastPanic(id)' <=> LastPanic(id)
      BY <1>1, <1>3 DEF LastPanic
    <2>4. ASSUME Alone, NEW id \in Ids, orders[id].role = "PANIC_EXIT", LastPanic(id),
                 orders[id].side = 1
          PROVE  FALSE
      <3>1. pos + orders[id].left <= 0
        BY <2>4, WorldParts DEF SoleInv
      <3> QED BY <1>1, <1>2, <2>2, <3>1
    <2> QED BY <1>1, <1>3, <1>4, <2>1, <2>2, <2>3, <2>4, WorldParts DEF SoleInv
  <1>8. World'
    BY <1>1, <1>3, <1>5, <1>6, <1>7, WorldParts, RestKept DEF World
  <1>9. Onward
    BY <1>1, <1>2, <1>3 DEF Onward, Sinks, RowStays
  <1> QED BY <1>1, <1>3, <1>8, <1>9, MarketGoes

LEMMA TradeSteps ==
    ASSUME IInv, NEW id \in Ids, Trades(id)
    PROVE  Well
  <1>1. PICK o : o = orders[id]
    OBVIOUS
  <1>2. PICK st : st = IF o.left = 1 THEN "COMPLETE" ELSE "OPEN"
    OBVIOUS
  <1>3. PICK n : n = [o EXCEPT !.left = @ - 1, !.got = @ + 1, !.st = st]
    OBVIOUS
  <1>4. PICK up : up = IF st = "OPEN" THEN "PARTIAL" ELSE st
    OBVIOUS
  <1>5. /\ o.st = "OPEN" /\ orders' = [orders EXCEPT ![id] = n] /\ pos' = pos + o.side
        /\ news' = news \cup Reports(id, up) /\ setup' = setup /\ breach' = breach
        /\ faults' = faults
        /\ orphans' = orphans /\ linked' = linked /\ row' = row /\ mem' = mem /\ h' = h
    BY <1>1, <1>2, <1>3, <1>4 DEF Trades, Working
  <1>6. o \in OrderType /\ o.left \in Nat /\ o.left # 0
    BY <1>1, <1>5, WorldParts, IdFacts DEF OrdersInv
  <1>7. /\ n \in OrderType /\ n.role = o.role /\ n.side = o.side /\ n.left = o.left - 1 /\ n.st = st
        /\ n.left = 0 <=> st = "COMPLETE"
    <2>1. o.left - 1 \in Nat /\ o.got + 1 \in Nat /\ st \in BrokerStatuses
      BY <1>2, <1>6 DEF OrderType, BrokerStatuses
    <2>2. o.left - 1 = 0 <=> st = "COMPLETE"
      BY <1>2, <1>6
    <2> QED BY <1>3, <1>6, <2>1, <2>2 DEF OrderType
  <1>8. /\ orders' \in Seq(OrderType) /\ Len(orders') = Len(orders) /\ Ids' = Ids
        /\ orders'[id] = n
        /\ \A k \in Ids : k # id => orders'[k] = orders[k]
    <2>1. orders \in Seq(OrderType)
      BY WorldParts DEF OrdersInv
    <2> QED BY <1>5, <1>7, <2>1 DEF Ids
  <1>9. \A k \in Ids : /\ orders'[k].role = orders[k].role /\ orders'[k].side = orders[k].side
                       /\ orders'[k].left \in Nat
                       /\ orders[k].st = "COMPLETE" => orders'[k].st = "COMPLETE"
    <2>1. \A k \in Ids : orders[k].left \in Nat
      BY WorldParts, IdFacts
    <2> QED BY <1>1, <1>5, <1>6, <1>7, <1>8, <2>1
  <1>10. RolesStay /\ FaultsGo
    BY <1>5, <1>8, <1>9 DEF RolesStay, FaultsGo
  <1>11. /\ pos \in Int /\ o.side \in {-1, 1} /\ pos' \in Int
         /\ o.side = -1 => pos' = pos - 1
         /\ o.side = 1 => pos' = pos + 1
    BY <1>5, <1>6, WorldParts DEF OrdersInv, OrderType
  <1>12. /\ setup' \in Setups /\ faults' \in 0 .. setup'.faults /\ breach' \in BOOLEAN
         /\ (Alone' => Alone) /\ (~Bought' => ~Bought)
    BY <1>10, WorldParts, FaultsFacts
  <1>13. OrdersInv'
    <2>1. \A k \in Ids : /\ orders'[k].left = 0 <=> orders'[k].st = "COMPLETE"
                         /\ orders'[k].role # "PANIC_EXIT" => orders'[k].side = -1
      <3>1. \A k \in Ids : /\ orders[k].left = 0 <=> orders[k].st = "COMPLETE"
                           /\ orders[k].role # "PANIC_EXIT" => orders[k].side = -1
        BY WorldParts DEF OrdersInv
      <3> QED BY <1>7, <1>8, <1>9, <3>1
    <2> QED BY <1>8, <1>11, <1>12, <2>1, WorldParts DEF OrdersInv
  <1>14. NewsInv'
    <2>1. up \in UpdateStatuses /\ (up = "COMPLETE" => Complete(id)')
      BY <1>2, <1>4, <1>7, <1>8 DEF UpdateStatuses, Complete
    <2>2. UpdatesOK(news)'
      BY <1>5, <1>10, <2>1, WorldParts, ReportsOK DEF NewsInv
    <2>3. PICK z : z = orphans
      OBVIOUS
    <2>4. UpdatesOK(z)'
      BY <1>10, <2>3, WorldParts, UpdatesKept DEF NewsInv
    <2>5. linked' \subseteq Ids'
      BY <1>5, <1>10, WorldParts DEF NewsInv, RolesStay
    <2> QED BY <1>5, <2>2, <2>3, <2>4, <2>5 DEF NewsInv
  <1>15. ASSUME ~Bought, o.side = 1
         PROVE  Alone
    BY <1>1, <1>15 DEF Alone, Bought, Ids
  <1>16. ASSUME Alone, o.side = 1
         PROVE  /\ o.role = "PANIC_EXIT" /\ LastPanic(id) /\ pos' <= 0
                /\ pos' + n.left = pos + o.left /\ pos' + n.left <= 0
    <2>1. o.role = "PANIC_EXIT"
      BY <1>1, <1>16, WorldParts DEF OrdersInv
    <2>2. LastPanic(id)
      BY <1>1, <1>5, <1>16, <2>1, WorldParts DEF SoleInv, DeadStatuses
    <2>3. pos + o.left <= 0
      BY <1>1, <1>16, <2>1, <2>2, WorldParts DEF SoleInv
    <2>4. pos' <= 0 /\ pos' + n.left = pos + o.left
      BY <1>6, <1>7, <1>11, <1>16, <2>3
    <2> QED BY <2>1, <2>2, <2>3, <2>4
  <1>17. SoleInv'
    <2>1. \A k : LastPanic(k)' <=> LastPanic(k)
      BY <1>8, <1>9 DEF LastPanic
    <2>2. \A i, k \in Ids : orders'[i].role = "SL" /\ orders'[k].role = "SL" => i = k
      BY <1>9, WorldParts DEF SoleInv
    <2>3. ASSUME ~Bought
          PROVE  pos' <= setup.qty
      <3>1. setup.qty \in 1 .. 2 /\ pos <= setup.qty
        BY <2>3, WorldParts, LifecycleAssumption DEF OrdersInv, Setup, SoleInv
      <3> QED BY <1>11, <1>15, <1>16, <2>3, <3>1
    <2>4. ASSUME ~Bought, NEW k \in Ids, orders[k].side = -1
          PROVE  pos' <= orders'[k].left
      <3>1. pos <= orders[k].left /\ orders[k].left \in Nat /\ orders'[k].left \in Nat
        BY <1>9, <2>4, WorldParts, IdFacts DEF SoleInv
      <3>2. CASE o.side = 1
        BY <1>11, <1>15, <1>16, <2>4, <3>1, <3>2
      <3>3. CASE o.side = -1 /\ k = id
        BY <1>1, <1>6, <1>7, <1>8, <1>11, <3>1, <3>3
      <3>4. CASE o.side = -1 /\ k # id
        BY <1>8, <1>11, <3>1, <3>4
      <3> QED BY <1>11, <3>2, <3>3, <3>4
    <2>5. ASSUME Alone, NEW k \in Ids, orders[k].role = "PANIC_EXIT"
          PROVE  orders'[k].st \in DeadStatuses \/ LastPanic(k)
      <3>1. orders[k].st \in DeadStatuses \/ LastPanic(k)
        BY <2>5, WorldParts DEF SoleInv
      <3>2. o.st \notin DeadStatuses
        BY <1>5 DEF DeadStatuses
      <3> QED BY <1>1, <1>8, <3>1, <3>2
    <2>6. ASSUME Alone, NEW k \in Ids, orders[k].role = "PANIC_EXIT", LastPanic(k),
                 orders[k].side = 1
          PROVE  pos' + orders'[k].left <= 0
      <3>1. CASE o.side = 1
        <4>1. id <= k /\ k <= id /\ id \in Nat /\ k \in Nat
          BY <1>1, <1>16, <2>6, <3>1, WorldParts, IdFacts DEF LastPanic
        <4>2. k = id
          BY <4>1
        <4> QED BY <1>8, <1>16, <2>6, <3>1, <4>2
      <3>2. CASE o.side = -1
        <4>1. k # id /\ orders'[k].left = orders[k].left /\ orders[k].left \in Nat
          BY <1>1, <1>8, <2>6, <3>2, WorldParts, IdFacts
        <4>2. pos + orders[k].left <= 0
          BY <2>6, WorldParts DEF SoleInv
        <4> QED BY <1>11, <3>2, <4>1, <4>2
      <3> QED BY <1>11, <3>1, <3>2
    <2> QED BY <1>5, <1>8, <1>9, <1>12, <2>1, <2>2, <2>3, <2>4, <2>5, <2>6 DEF SoleInv
  <1>18. World'
    BY <1>5, <1>10, <1>13, <1>14, <1>17, WorldParts, RestKept DEF World
  <1>19. Onward
    <2>1. ~Bought => pos' <= pos \/ (Alone /\ pos' <= 0 /\ ~NoPanic)
      BY <1>1, <1>11, <1>15, <1>16 DEF NoPanic
    <2> QED BY <1>5, <1>10, <1>11, <1>12, <2>1 DEF Onward, Sinks, RowStays
  <1>20. \A k \in Ids : orders'[k].st = "OPEN" => orders[k].st = "OPEN"
    BY <1>1, <1>5, <1>8
  <1> QED BY <1>5, <1>8, <1>18, <1>19, <1>20, MarketGoes

-----------------------------------------------------------------------------
(* Placements.                                                              *)

(* A sale of n > 0 units is placed, or a purchase of -n; what is so placed  *)
(* is no more than what was, and of the panic exits no other one works.     *)
MayPlace(role, n) ==
    /\ role # "PANIC_EXIT" => n > 0
    /\ role = "SL" => NoStop
    /\ ~Bought /\ n > 0 => pos <= n
    /\ Alone /\ role = "PANIC_EXIT" =>
          /\ \A id \in Ids : orders[id].role = "PANIC_EXIT" => orders[id].st \in DeadStatuses
          /\ n < 0 => pos <= n

LEMMA Placed ==
    ASSUME World, NEW role \in Roles, NEW n \in Int, n # 0, Accepts(role, n), NEW k, k = NextId
    PROVE  /\ orders' \in Seq(OrderType) /\ Len(orders') <= MaxOrders
           /\ Ids' = Ids \cup {k} /\ k \notin Ids /\ k \in Nat \ {NoOrder}
           /\ \A id \in Ids : id < k /\ orders'[id] = orders[id]
           /\ orders'[k].role = role /\ orders'[k].st = "OPEN" /\ orders'[k].left \in Nat \ {0}
           /\ n > 0 => orders'[k].side = -1 /\ orders'[k].left = n
           /\ n < 0 => orders'[k].side = 1 /\ orders'[k].left = -n
           /\ pos' = pos /\ news' = news
  <1>1. PICK o : o = [role |-> role, side |-> IF n > 0 THEN -1 ELSE 1,
                      left |-> IF n > 0 THEN n ELSE -n, got |-> 0, st |-> "OPEN"]
    OBVIOUS
  <1>2. orders' = Append(orders, o) /\ Len(orders) < MaxOrders /\ pos' = pos /\ news' = news
    BY <1>1 DEF Accepts
  <1>3. orders \in Seq(OrderType) /\ Len(orders) \in Nat /\ MaxOrders \in Nat
    BY LifecycleAssumption DEF World, OrdersInv
  <1>4. o.role = role /\ o.st = "OPEN"
    BY <1>1
  <1>5. n > 0 => o.side = -1 /\ o.left = n
    BY <1>1
  <1>6. n < 0 => o.side = 1 /\ o.left = -n
    BY <1>1
  <1>7. o.left \in Nat \ {0}
    BY <1>5, <1>6
  <1>8. o \in OrderType
    BY <1>1, <1>7 DEF OrderType, BrokerStatuses
  <1>9. /\ orders' \in Seq(OrderType) /\ Len(orders') = Len(orders) + 1
        /\ \A id \in 1 .. Len(orders) : orders'[id] = orders[id]
        /\ orders'[Len(orders) + 1] = o
    BY <1>2, <1>3, <1>8
  <1>10. k = Len(orders) + 1
    BY DEF NextId
  <1>11. Ids = 1 .. Len(orders) /\ Ids' = 1 .. Len(orders) + 1
    BY <1>3, <1>9 DEF Ids
  <1>12. /\ Ids' = Ids \cup {k} /\ k \notin Ids /\ k \in Nat \ {NoOrder}
         /\ \A id \in Ids : id < k
    BY <1>3, <1>10, <1>11 DEF NoOrder
  <1>13. Len(orders') <= MaxOrders
    BY <1>2, <1>3, <1>9
  <1> QED BY <1>2, <1>4, <1>5, <1>6, <1>7, <1>9, <1>10, <1>11, <1>12, <1>13

LEMMA PlacedWorld ==
    ASSUME World, NEW role \in Roles, NEW n \in Int, n # 0, Accepts(role, n), MayPlace(role, n),
           setup' = setup /\ breach' = breach, faults' = faults, orphans' = orphans,
           linked' = linked, row' = row,
           mem' = mem
    PROVE  World' /\ Onward
  <1>1. PICK k : k = NextId
    OBVIOUS
  <1>2. /\ orders' \in Seq(OrderType) /\ Len(orders') <= MaxOrders
        /\ Ids' = Ids \cup {k} /\ k \notin Ids
        /\ \A id \in Ids : id < k /\ orders'[id] = orders[id]
        /\ orders'[k].role = role /\ orders'[k].st = "OPEN" /\ orders'[k].left \in Nat \ {0}
        /\ n > 0 => orders'[k].side = -1 /\ orders'[k].left = n
        /\ n < 0 => orders'[k].side = 1 /\ orders'[k].left = -n
        /\ pos' = pos /\ news' = news
    BY <1>1, Placed
  <1>3. OrdersInv /\ NewsInv /\ SoleInv /\ pos \in Int /\ k \in Nat
    BY <1>1, Placed DEF World, OrdersInv
  <1>4. RolesStay /\ FaultsGo
    BY <1>2 DEF RolesStay, FaultsGo
  <1>5. /\ setup' \in Setups /\ faults' \in 0 .. setup'.faults /\ breach' \in BOOLEAN
        /\ (Alone' => Alone) /\ (~Bought' => ~Bought)
    BY <1>3, <1>4, FaultsFacts
  <1>6. OrdersInv'
    <2>1. \A id \in Ids : /\ orders'[id].left = 0 <=> orders'[id].st = "COMPLETE"
                          /\ orders'[id].role # "PANIC_EXIT" => orders'[id].side = -1
      BY <1>2, <1>3 DEF OrdersInv
    <2>2. /\ orders'[k].left = 0 <=> orders'[k].st = "COMPLETE"
          /\ orders'[k].role # "PANIC_EXIT" => orders'[k].side = -1
      BY <1>2 DEF MayPlace
    <2> QED BY <1>2, <1>3, <1>5, <2>1, <2>2 DEF OrdersInv
  <1>7. NewsInv'
    BY <1>2, <1>3, <1>4, NewsSame
  <1>8. SoleInv'
    <2>1. \A i, j \in Ids' : orders'[i].role = "SL" /\ orders'[j].role = "SL" => i = j
      BY <1>2, <1>3 DEF SoleInv, NoStop, MayPlace
    <2>2. ASSUME ~Bought
          PROVE  /\ pos <= setup.qty
                 /\ \A id \in Ids : orders'[id].side = -1 => pos <= orders'[id].left
                 /\ orders'[k].side = -1 => pos <= orders'[k].left
      <3>1. orders'[k].side = -1 => pos <= orders'[k].left
        <4>1. n < 0 => orders'[k].side = 1
          BY <1>2
        <4> QED BY <1>2, <2>2, <4>1 DEF MayPlace
      <3> QED BY <1>2, <1>3, <2>2, <3>1 DEF SoleInv
    <2>3. ASSUME Alone, role = "PANIC_EXIT"
          PROVE  \A id \in Ids : orders'[id].role = "PANIC_EXIT" =>
                     orders'[id].st \in DeadStatuses /\ ~LastPanic(id)'
      <3>1. \A id \in Ids : ~LastPanic(id)'
        <4> SUFFICES ASSUME NEW id \in Ids, LastPanic(id)'
                     PROVE  FALSE
          OBVIOUS
        <4>1. k <= id /\ id < k /\ id \in Nat
          BY <1>2, <1>3, <2>3, IdFacts DEF LastPanic
        <4> QED BY <1>3, <4>1
      <3> QED BY <1>2, <2>3, <3>1 DEF MayPlace
    <2>4. ASSUME Alone, role = "PANIC_EXIT"
          PROVE  /\ LastPanic(k)'
                 /\ orders'[k].side = 1 => pos + orders'[k].left <= 0
      <3>1. LastPanic(k)'
        <4>1. \A j \in Ids' : j <= k
          BY <1>2, <1>3, IdFacts
        <4> QED BY <4>1 DEF LastPanic
      <3>2. orders'[k].side = 1 => n < 0 /\ pos <= n
        <4>1. n > 0 => orders'[k].side = -1
          BY <1>2
        <4> QED BY <2>4, <4>1 DEF MayPlace
      <3>3. orders'[k].side = 1 => pos + orders'[k].left <= 0
        BY <1>2, <1>3, <3>2
      <3> QED BY <3>1, <3>3
    <2>5. ASSUME Alone, role # "PANIC_EXIT", NEW id \in Ids, orders'[id].role = "PANIC_EXIT"
          PROVE  /\ orders'[id].st \in DeadStatuses \/ LastPanic(id)'
                 /\ LastPanic(id)' /\ orders'[id].side = 1 => pos + orders'[id].left <= 0
      <3>1. LastPanic(id)' <=> LastPanic(id)
        BY <1>2, <2>5 DEF LastPanic
      <3> QED BY <1>2, <1>3, <2>5, <3>1 DEF SoleInv
    <2>6. ASSUME Alone, NEW id \in Ids', orders'[id].role = "PANIC_EXIT"
          PROVE  /\ orders'[id].st \in DeadStatuses \/ LastPanic(id)'
                 /\ LastPanic(id)' /\ orders'[id].side = 1 => pos + orders'[id].left <= 0
      <3>1. CASE id = k
        BY <1>2, <2>4, <2>6, <3>1
      <3>2. CASE id # k
        BY <1>2, <2>3, <2>5, <2>6, <3>2
      <3> QED BY <3>1, <3>2
    <2> QED BY <1>2, <1>5, <2>1, <2>2, <2>6 DEF SoleInv
  <1>9. World'
    BY <1>4, <1>6, <1>7, <1>8, RestKept DEF World
  <1>10. Onward
    BY <1>2, <1>3, <1>4 DEF Onward, Sinks, RowStays
  <1> QED BY <1>9, <1>10

(* The panic exits after a placement: of another order, by a panic exit,    *)
(* and by the timeout of one that is dead.                                  *)
LEMMA TwoPlaced ==
    ASSUME IInv, NEW k, Ids' = Ids \cup {k}, \A id \in Ids : orders'[id] = orders[id],
           row' = row, NEW p \in Procs, NEW g \in FrameT, Goes(p, <<g>>),
           g.pc \notin {"panicCancel", "panicPlace", "timeoutPlace"},
           ~At(p, "panicRow")
    PROVE  /\ \A q \in Procs : MayPanic(q)' => MayPanic(q)
           /\ \A i \in Ids : Line(i)' => Line(i)
           /\ g.pc = "panicRow" /\ row.panic = NoOrder => ~MayPanic(p)'
  <1>1. h'[p] # <<>> /\ Top(p)' = g
    BY WorldParts, NewTop
  <1>2. \A q \in Procs : q # p => Top(q)' = Top(q) /\ \A pc : At(q, pc)' <=> At(q, pc)
    BY WorldParts, OtherTop
  <1>3. \A pc : At(p, pc)' <=> g.pc = pc
    BY <1>1 DEF At
  <1>4. \A q \in Procs : MayPanic(q)' => MayPanic(q)
    BY <1>2, <1>3 DEF MayPanic, HotPcs
  <1>5. \A i \in Ids : Line(i)' => Line(i)
    <2> SUFFICES ASSUME NEW i \in Ids, Line(i)'
                 PROVE  Line(i)
      OBVIOUS
    <2>1. orders[i].role = "PANIC_EXIT" /\ orders'[i] = orders[i]
      BY DEF Line, RoleOf
    <2>2. p # "timer" \/ ~At("timer", "timeoutPlace")'
      BY <1>3 DEF HotPcs
    <2> QED BY <1>2, <2>1, <2>2, ProcNames DEF Line, RoleOf
  <1> QED BY <1>3, <1>4, <1>5 DEF MayPanic, HotPcs

LEMMA TwoOther ==
    ASSUME IInv, NEW k, Ids' = Ids \cup {k}, \A id \in Ids : orders'[id] = orders[id],
           orders'[k].role # "PANIC_EXIT", row' = row, NEW p \in Procs, NEW g \in FrameT,
           Goes(p, <<g>>), g.pc \notin {"panicCancel", "panicPlace", "timeoutPlace"}, ~At(p, "panicRow")
    PROVE  TwoHeld'
  <1>1. ~Line(k)'
    BY DEF Line, RoleOf
  <1> QED BY <1>1, TwoPlaced, TwoStays DEF IInv, Claims

LEMMA TwoPanics ==
    ASSUME IInv, NEW k, Ids' = Ids \cup {k}, k \notin Ids,
           \A id \in Ids : orders'[id] = orders[id],
           row' = row, NEW p \in Procs, At(p, "panicPlace"), NEW g \in FrameT, g.pc = "panicRow",
           Goes(p, <<g>>)
    PROVE  TwoHeld'
  <1>1. MayPanic(p) /\ ~At(p, "panicRow") /\ g.pc \notin {"panicCancel", "panicPlace", "timeoutPlace"}
    BY DEF MayPanic, At, HotPcs
  <1>2. /\ \A q \in Procs : MayPanic(q)' => MayPanic(q)
        /\ \A i \in Ids : Line(i)' => Line(i)
    BY <1>1, TwoPlaced
  <1>3. ~MayPanic(p)'
    <2>1. h'[p] # <<>> /\ Top(p)' = g
      BY WorldParts, NewTop
    <2> QED BY <2>1 DEF MayPanic, At
  <1>4. \A i, j \in Ids : Line(i) /\ Line(j) => i = j
    BY <1>1 DEF IInv, Claims, TwoHeld
  <1>5. ASSUME NEW q \in Procs, MayPanic(q)'
        PROVE  \A i \in Ids : ~Line(i)
    <2>1. q # p /\ MayPanic(q)
      BY <1>2, <1>3, <1>5
    <2>2. \A r \in Procs : MayPanic(r)
      BY <1>1, <2>1, ProcNames
    <2> QED BY <2>2 DEF IInv, Claims, TwoHeld
  <1> QED BY <1>2, <1>3, <1>4, <1>5 DEF TwoHeld

LEMMA TwoReplaced ==
    ASSUME IInv, NEW k, Ids' = Ids \cup {k}, k \notin Ids,
           \A id \in Ids : orders'[id] = orders[id],
           row' = row, At("timer", "timeoutPlace"), NEW o \in Ids, o = Top("timer").id,
           RoleOf(o, "PANIC_EXIT"), orders[o].st # "OPEN", NEW g \in FrameT, g.pc = "timeoutRow",
           Goes("timer", <<g>>)
    PROVE  TwoHeld'
  <1>1. "timer" \in Procs /\ ~At("timer", "panicRow")
        /\ g.pc \notin {"panicCancel", "panicPlace", "timeoutPlace"}
    BY ProcNames DEF At, HotPcs
  <1>2. /\ \A q \in Procs : MayPanic(q)' => MayPanic(q)
        /\ \A i \in Ids : Line(i)' => Line(i)
    BY <1>1, TwoPlaced
  <1>3. Line(o)
    BY DEF Line
  <1>4. ~Line(o)'
    <2>1. h'["timer"] # <<>> /\ Top("timer")' = g
      BY <1>1, WorldParts, NewTop
    <2> QED BY <2>1 DEF Line, At
  <1>5. ASSUME NEW i \in Ids', NEW j \in Ids', Line(i)', Line(j)', i # j
        PROVE  /\ ~\E q \in Procs : MayPanic(q)'
               /\ \A m \in Ids' : Line(m)' => m = i \/ m = j
    BY <1>2, <1>3, <1>4, <1>5 DEF IInv, Claims, TwoHeld
  <1>6. ASSUME NEW i \in Ids', Line(i)'
        PROVE  ~\A q \in Procs : MayPanic(q)'
    BY <1>2, <1>3, <1>6 DEF IInv, Claims, TwoHeld
  <1> QED BY <1>5, <1>6 DEF TwoHeld

(* The claims after a placement: the frame that notes the order holds them. *)
LEMMA PlacedClaims ==
    ASSUME IInv, RolesStay, FaultsGo, row' = row, mem' = mem, NEW p \in Procs, NEW g \in FrameT,
           Goes(p, <<g>>), ~At(p, "slRow"), ~At(p, "panicRow"),
           \A i \in Ids' \ Ids : orders'[i].role = "SL" => g.pc = "slRow" /\ g.id = i,
           Alone /\ NoPanic => NoPanic' \/ g.pc = "panicRow",
           Top(p).pc \in PanicPcs => g.pc \in PanicPcs, TwoHeld'
    PROVE  Claims'
  <1>1. h'[p] # <<>> /\ Top(p)' = g
    BY WorldParts, NewTop
  <1>2. \A q \in Procs : q # p => /\ h'[q] = h[q] /\ Top(q)' = Top(q)
                                  /\ \A pc : At(q, pc)' <=> At(q, pc)
    BY WorldParts, OtherTop
  <1>3. StopHeld'
    <2>1. ASSUME NEW i \in Ids', orders'[i].role = "SL", i \in Ids
          PROVE  \/ row'.sl = i
                 \/ Terminal(row'.status)
                 \/ \E q \in Procs : At(q, "slRow")' /\ Top(q)'.id = i
      <3>1. orders[i].role = "SL"
        BY <2>1 DEF RolesStay
      <3>2. \A q \in Procs : At(q, "slRow") => q # p
        OBVIOUS
      <3> QED BY <1>2, <2>1, <3>1, <3>2 DEF IInv, Claims, StopHeld
    <2>2. ASSUME NEW i \in Ids', orders'[i].role = "SL", i \notin Ids
          PROVE  At(p, "slRow")' /\ Top(p)'.id = i
      BY <1>1, <2>2 DEF At
    <2> QED BY <2>1, <2>2 DEF StopHeld
  <1>4. (Alone => PanicHeld)'
    <2> SUFFICES ASSUME Alone
                 PROVE  PanicHeld'
      BY DEF FaultsGo, Alone
    <2>1. CASE NoPanic
      <3>1. NoPanic' \/ At(p, "panicRow")'
        BY <1>1, <2>1 DEF At
      <3> QED BY <3>1 DEF PanicHeld
    <2>2. CASE row.panic # NoOrder
      BY <2>2 DEF PanicHeld
    <2>3. CASE \E q \in Procs : At(q, "panicRow")
      BY <1>2, <2>3 DEF PanicHeld
    <2> QED BY <2>1, <2>2, <2>3 DEF IInv, Claims, PanicHeld
  <1>5. MarkerHeld'
    <2> SUFFICES ASSUME mem.inFlight, row.panic = NoOrder
                 PROVE  Marked'
      BY DEF MarkerHeld
    <2>1. PICK q \in Procs : h[q] # <<>> /\ Top(q).pc \in PanicPcs
      BY DEF IInv, Claims, MarkerHeld, Marked
    <2>2. h'[q] # <<>> /\ Top(q)'.pc \in PanicPcs
      BY <1>1, <1>2, <2>1
    <2> QED BY <2>2 DEF Marked
  <1> QED BY <1>3, <1>4, <1>5 DEF Claims

(* No frame of the process relies on there being no such order.             *)
Apart(q, role) ==
    \A f : FrameOK(q, f) =>
        /\ role = "SL" => f.pc \notin {"entry", "exits", "stop"}
        /\ Alone /\ role = "PANIC_EXIT" => f.pc \notin {"timeoutPlace", "panicCancel", "panicPlace"}

LEMMA PlacedGoes ==
    ASSUME IInv, NEW role \in Roles, NEW n \in Int, n # 0, Accepts(role, n), MayPlace(role, n),
           setup' = setup /\ breach' = breach, faults' = faults, orphans' = orphans,
           linked' = linked, row' = row,
           mem' = mem, NEW p \in Procs, NEW g, FrameOK(p, g)', Goes(p, <<g>>), ~At(p, "slRow"),
           ~At(p, "panicRow"),
           role = "SL" => g.pc = "slRow" /\ g.id = NextId,
           Alone /\ NoPanic /\ role = "PANIC_EXIT" => g.pc = "panicRow",
           Top(p).pc \in PanicPcs => g.pc \in PanicPcs, TwoHeld',
           \A q \in Procs : q # p => Apart(q, role)
    PROVE  Well
  <1>1. World' /\ Onward /\ RolesStay /\ FaultsGo
    BY WorldParts, PlacedWorld DEF Onward
  <1>2. PICK k : k = NextId
    OBVIOUS
  <1>3. Ids' = Ids \cup {k} /\ (\A id \in Ids : orders'[id] = orders[id]) /\ orders'[k].role = role
    BY <1>2, WorldParts, Placed
  <1>4. /\ role # "SL" /\ NoStop => NoStop'
        /\ role # "PANIC_EXIT" /\ NoPanic => NoPanic'
        /\ role # "PANIC_EXIT" => \A id : LastPanic(id) => LastPanic(id)'
    BY <1>3 DEF NoStop, NoPanic, LastPanic
  <1>5. ASSUME NEW q \in Procs, q # p
        PROVE  Keeps(q)
    <2>1. Apart(q, role)
      BY <1>5
    <2>2. \A f : FrameOK(q, f) => Spared(f)
      BY <1>4, <2>1 DEF Apart, Spared
    <2> QED BY <1>1, <2>2, WorldParts, FrameKept DEF Keeps
  <1>6. FramesInv'
    BY <1>1, <1>5, WorldParts, OneFrame, NestedKept, FramesGo
  <1>7. Claims'
    <2>1. g \in FrameT
      BY DEF FrameOK
    <2>2. \A i \in Ids' \ Ids : orders'[i].role = "SL" => g.pc = "slRow" /\ g.id = i
      BY <1>2, <1>3
    <2>3. Alone /\ NoPanic => NoPanic' \/ g.pc = "panicRow"
      BY <1>4
    <2> QED BY <1>1, <2>1, <2>2, <2>3, PlacedClaims
  <1> QED BY <1>1, <1>6, <1>7 DEF Well, IInv, FlatWhenClosed

LEMMA TargetApart == \A q : Apart(q, "TARGET")
  BY DEF Apart

LEMMA StopApart == Apart("timer", "SL")
  BY DEF Apart, FrameOK, PcsOf, TimerPcs, LoneTimerPcs, TimeoutPcs, PanickingPcs

(* The pipeline or the timer sells without the other one selling.           *)
LEMMA SaleApart ==
    ASSUME NEW p \in Procs, NEW f, FrameOK(p, f), f.pc \in {"panicPlace", "timeoutPlace"},
           p = "pipeline" \/ ~Alone \/ f.pc = "timeoutPlace", NEW q \in Procs, q # p
    PROVE  Apart(q, "PANIC_EXIT")
  <1> SUFFICES ASSUME Alone, NEW e, FrameOK(q, e),
                      e.pc \in {"timeoutPlace", "panicCancel", "panicPlace"}
               PROVE  FALSE
    BY DEF Apart
  <1>1. f.pc = "timeoutPlace" => RoleOf(f.id, "PANIC_EXIT")
    BY DEF FrameOK, Role, SoldPcs, TimeoutPcs
  <1>2. e.pc = "timeoutPlace" => RoleOf(e.id, "PANIC_EXIT")
    BY DEF FrameOK, Role, SoldPcs, TimeoutPcs
  <1>3. /\ f.pc = "panicPlace" => NoPanic
        /\ e.pc \in {"panicCancel", "panicPlace"} => NoPanic
    BY DEF FrameOK, Places
  <1>4. f.pc \in PcsOf(p) /\ e.pc \in PcsOf(q)
    BY DEF FrameOK
  <1>5. "timeoutPlace" \notin PipelinePcs /\ "panicPlace" \notin LoneTimerPcs
        /\ "panicCancel" \notin LoneTimerPcs
    BY DEF PipelinePcs, LoneTimerPcs, TimeoutPcs, PanickingPcs, StopPcs, TargetPcs
  <1>6. /\ p = "pipeline" => q = "timer" /\ f.pc = "panicPlace" /\ e.pc = "timeoutPlace"
        /\ p = "timer" => q = "pipeline" /\ f.pc = "timeoutPlace"
                          /\ e.pc \in {"panicCancel", "panicPlace"}
    BY <1>4, <1>5, ProcNames DEF PcsOf
  <1>7. \A id : RoleOf(id, "PANIC_EXIT") => ~NoPanic
    BY DEF RoleOf, NoPanic
  <1> QED BY <1>1, <1>2, <1>3, <1>6, <1>7, ProcNames

(* The frame of an order that was placed in the place of the top one.       *)
LEMMA PlacedFrame ==
    ASSUME World, NEW role \in Roles, NEW n \in Int, n # 0, Accepts(role, n), MayPlace(role, n),
           setup' = setup /\ breach' = breach, faults' = faults, orphans' = orphans,
           linked' = linked, row' = row,
           mem' = mem, NEW p \in Procs, NEW k, k = NextId, NEW c \in PcsOf(p), NEW g \in FrameT,
           g.pc = c, g.id = k, Refers(g)',
           \/ role = "SL" /\ c = "slRow"
           \/ role = "TARGET" /\ c = "tgtRow"
           \/ role = "PANIC_EXIT" /\ c = "panicRow"
           \/ role = "PANIC_EXIT" /\ c = "timeoutRow" /\ mem.retries < PANIC_EXIT_MAX_RETRIES
    PROVE  FrameOK(p, g)'
  <1>1. RoleOf(k, role)'
    BY Placed DEF RoleOf
  <1>2. Role(p, g)'
    BY <1>1 DEF Role, StopPcs, TargetPcs, SoldPcs, TimeoutPcs
  <1>3. Places(g)' /\ Closes(g)'
    BY DEF Places, Closes
  <1>4. g.pc \in PcsOf(p)'
    BY PcsStay
  <1> QED BY <1>2, <1>3, <1>4 DEF FrameOK

(* It refers to what was placed.                                            *)
LEMMA PlacedNew ==
    ASSUME World, NEW role \in Roles, NEW n \in Int, n # 0, Accepts(role, n),
           NEW k, k = NextId, NEW c \in Pcs, NEW g, g = IdFrame(c, k)
    PROVE  g \in FrameT /\ g.pc = c /\ g.id = k /\ Refers(g)'
  <1>1. Ids' = Ids \cup {k} /\ k \in Nat \ {NoOrder}
    BY Placed
  <1>2. k \in Nat /\ (k \in Ids)'
    BY <1>1
  <1> QED BY <1>2, IdFrameOK

PlacedBy(f, c, k) == [f EXCEPT !.pc = c, !.id = k]

LEMMA PlacedNext ==
    ASSUME World, NEW role \in Roles, NEW n \in Int, n # 0, Accepts(role, n),
           NEW k, k = NextId, NEW c \in Pcs, NEW f \in FrameT, Refers(f), NEW g,
           g = PlacedBy(f, c, k)
    PROVE  g \in FrameT /\ g.pc = c /\ g.id = k /\ Refers(g)'
  <1>1. Ids' = Ids \cup {k} /\ k \in Nat \ {NoOrder} /\ \A id \in Ids : orders'[id] = orders[id]
    BY Placed
  <1>2. RolesStay
    BY <1>1 DEF RolesStay
  <1>3. g \in FrameT /\ g.pc = c /\ g.id = k /\ g.t = f.t /\ g.todo = f.todo
    BY <1>1 DEF PlacedBy, FrameT
  <1>4. PICK t, s : t = f.t /\ s = f.todo
    OBVIOUS
  <1>5. Named(t) /\ \A i \in DOMAIN s : s[i] \in Ids
    BY <1>4 DEF Refers
  <1>6. Named(t)'
    BY <1>2, <1>5, NamedKept
  <1>7. \A i \in DOMAIN s : s[i] \in Ids'
    BY <1>1, <1>5
  <1>8. g.t = t /\ g.todo = s /\ g.id \in Ids'
    BY <1>1, <1>3, <1>4
  <1>9. Refers(g)'
    BY <1>6, <1>7, <1>8 DEF Refers
  <1> QED BY <1>3, <1>9

LEMMA StopBranches ==
    ASSUME NEW p, PlaceStop(p), NEW f, f = Top(p)
    PROVE  /\ At(p, "stop") /\ setup' = setup /\ breach' = breach /\ orphans' = orphans
           /\ linked' = linked
           /\ row' = row
           /\ \/ /\ Goes(p, <<[f EXCEPT !.pc = "unlock"]>>)
                 /\ faults' = faults /\ broker' = broker /\ mem' = mem
              \/ /\ Accepts("SL", setup.qty)
                 /\ Goes(p, <<[f EXCEPT !.pc = "slRow", !.id = NextId]>>)
                 /\ faults' = faults /\ mem' = mem
              \/ /\ faults' = faults \/ (faults > 0 /\ faults' = faults - 1)
                 /\ mem' = [mem EXCEPT !.kill = TRUE]
                 /\ Goes(p, <<Frame("unlock"), Panic(FALSE)>>)
                 /\ broker' = broker
  BY DEF PlaceStop, GoesTo, NoFault, Fault

LEMMA StopSteps ==
    ASSUME IInv, NEW p \in Procs, PlaceStop(p)
    PROVE  Well
  <1>1. PICK f : f = Top(p)
    OBVIOUS
  <1>2. At(p, "stop") /\ setup' = setup /\ breach' = breach /\ orphans' = orphans
        /\ linked' = linked /\ row' = row
    BY <1>1, StopBranches
  <1>3. "stop" \notin TimerPcs /\ "stop" \notin PanicPcs \cup {"slRow"}
    BY DEF TimerPcs, LoneTimerPcs, TimeoutPcs, PanickingPcs, PanicPcs
  <1>4. p = "pipeline" /\ PcsOf(p) = PipelinePcs /\ Quiet(p)
    BY <1>2, <1>3, OnlyPipeline, QuietAt
  <1>5. FrameOK(p, f) /\ f \in FrameT /\ f.pc = "stop"
    BY <1>1, <1>2, TopFacts
  <1>6. CASE /\ Goes(p, <<[f EXCEPT !.pc = "unlock"]>>)
             /\ faults' = faults /\ broker' = broker /\ mem' = mem
    <2>1. Calm
      BY <1>2, <1>6, WorldParts, RowSame, MemSame, CalmWrites
    <2>2. PICK g : g = [f EXCEPT !.pc = "unlock"]
      OBVIOUS
    <2> "unlock" \in Pcs
      BY PcsFacts DEF PipelinePcs
    <2>3. g \in FrameT /\ g.pc = "unlock" /\ g.id = f.id /\ g.t = f.t /\ g.todo = f.todo
      BY <1>5, <2>2, FramePc
    <2>4. "unlock" \in PcsOf(p) /\ "unlock" \in PlainPcs
      BY <1>4 DEF PlainPcs, PipelinePcs
    <2>5. FrameOK(p, f)'
      BY <1>5, <2>1, TopKept
    <2>6. FrameOK(p, g)'
      BY <1>2, <2>3, <2>4, <2>5, PlainNext
    <2> QED BY <1>4, <1>6, <2>1, <2>2, <2>3, <2>6, CalmOne
  <1>7. CASE /\ Accepts("SL", setup.qty)
             /\ Goes(p, <<[f EXCEPT !.pc = "slRow", !.id = NextId]>>)
             /\ faults' = faults /\ mem' = mem
    <2>1. PICK k : k = NextId
      OBVIOUS
    <2>2. PICK n : n = setup.qty
      OBVIOUS
    <2>3. n \in Int /\ n # 0 /\ n > 0 /\ Accepts("SL", n)
      <3>1. setup.qty \in 1 .. 2
        BY WorldParts, LifecycleAssumption DEF OrdersInv, Setup
      <3> QED BY <1>7, <2>2, <3>1
    <2>4. MayPlace("SL", n)
      <3>1. NoStop
        BY <1>5 DEF FrameOK, Places
      <3> QED BY <2>2, <2>3, <3>1, WorldParts DEF MayPlace, SoleInv
    <2>5. PICK g : g = PlacedBy(f, "slRow", k)
      OBVIOUS
    <2> "SL" \in Roles
      BY DEF Roles
    <2> "slRow" \in Pcs
      BY PcsFacts DEF PipelinePcs, StopPcs
    <2>6. Refers(f)
      BY <1>5 DEF FrameOK
    <2>7. g \in FrameT /\ g.pc = "slRow" /\ g.id = k /\ Refers(g)'
      BY <1>5, <2>1, <2>3, <2>5, <2>6, WorldParts, PlacedNext
    <2>8. "slRow" \in PcsOf(p)
      BY <1>4 DEF PipelinePcs, StopPcs
    <2>9. FrameOK(p, g)'
      BY <1>2, <1>7, <2>1, <2>3, <2>4, <2>7, <2>8, WorldParts, PlacedFrame
    <2>10. Goes(p, <<g>>) /\ g.pc = "slRow" /\ g.id = NextId
      BY <1>7, <2>1, <2>5, <2>7 DEF PlacedBy
    <2>11. ~At(p, "slRow") /\ ~At(p, "panicRow") /\ Top(p).pc \notin PanicPcs
      BY <1>2, <1>3 DEF At
    <2>12. \A q \in Procs : q # p => Apart(q, "SL")
      BY <1>4, ProcNames, StopApart
    <2>13. TwoHeld'
      <3>1. /\ Ids' = Ids \cup {k} /\ \A id \in Ids : orders'[id] = orders[id]
            /\ orders'[k].role # "PANIC_EXIT"
        BY <2>1, <2>3, WorldParts, Placed
      <3> QED BY <1>2, <2>7, <2>10, <2>11, <3>1, TwoOther
    <2> QED BY <1>2, <1>7, <2>3, <2>4, <2>9, <2>10, <2>11, <2>12, <2>13, PlacedGoes
  <1>8. CASE /\ faults' = faults \/ (faults > 0 /\ faults' = faults - 1)
             /\ mem' = [mem EXCEPT !.kill = TRUE]
             /\ Goes(p, <<Frame("unlock"), Panic(FALSE)>>)
             /\ broker' = broker
    <2>1. Calm
      BY <1>2, <1>8, WorldParts, RowSame, MemFlags, CalmWrites
    <2>2. PICK e, g : e = Frame("unlock") /\ g = Panic(FALSE)
      OBVIOUS
    <2> "unlock" \in PlainPcs
      BY DEF PlainPcs
    <2>3. {"unlock", "panic"} \subseteq PcsOf(p)
      BY <1>4 DEF PipelinePcs, PanickingPcs
    <2>4. FrameOK(p, e)' /\ e.pc \in Nested
      BY <1>2, <2>2, <2>3, NewPlain DEF Nested
    <2>5. FrameOK(p, g)' /\ g.pc = "panic"
      BY <1>2, <2>2, <2>3, PanicFrame
    <2> QED BY <1>4, <1>8, <2>1, <2>2, <2>4, <2>5, CalmTwo
  <1>9. \/ /\ Goes(p, <<[f EXCEPT !.pc = "unlock"]>>)
           /\ faults' = faults /\ broker' = broker /\ mem' = mem
        \/ /\ Accepts("SL", setup.qty)
           /\ Goes(p, <<[f EXCEPT !.pc = "slRow", !.id = NextId]>>)
           /\ faults' = faults /\ mem' = mem
        \/ /\ faults' = faults \/ (faults > 0 /\ faults' = faults - 1)
           /\ mem' = [mem EXCEPT !.kill = TRUE]
           /\ Goes(p, <<Frame("unlock"), Panic(FALSE)>>)
           /\ broker' = broker
    BY <1>1, StopBranches
  <1> QED BY <1>6, <1>7, <1>8, <1>9

LEMMA TargetPlaceSteps ==
    ASSUME IInv, NEW p \in Procs, PlaceTarget(p)
    PROVE  Well
  <1>1. PICK f : f = Top(p)
    OBVIOUS
  <1>2. /\ At(p, "place") /\ setup' = setup /\ breach' = breach /\ orphans' = orphans
        /\ linked' = linked
        /\ row' = row /\ mem' = mem
        /\ \/ /\ faults' = faults \/ (faults > 0 /\ faults' = faults - 1)
              /\ Returns(p) /\ broker' = broker
           \/ /\ faults' = faults /\ Accepts("TARGET", setup.qty)
              /\ Goes(p, <<[f EXCEPT !.pc = "tgtRow", !.id = NextId]>>)
    BY <1>1 DEF PlaceTarget, NoFault, Fault
  <1>3. "place" \notin TimerPcs /\ "place" \notin PanicPcs \cup {"slRow"}
    BY DEF TimerPcs, LoneTimerPcs, TimeoutPcs, PanickingPcs, PanicPcs
  <1>4. p = "pipeline" /\ PcsOf(p) = PipelinePcs /\ Quiet(p)
    BY <1>2, <1>3, OnlyPipeline, QuietAt
  <1>5. FrameOK(p, f) /\ f \in FrameT /\ f.pc = "place"
    BY <1>1, <1>2, TopFacts
  <1>6. CASE /\ faults' = faults \/ (faults > 0 /\ faults' = faults - 1)
             /\ Returns(p) /\ broker' = broker
    <2>1. Calm
      BY <1>2, <1>6, WorldParts, RowSame, MemSame, CalmWrites
    <2> QED BY <1>4, <1>6, <2>1, CalmReturns
  <1>7. CASE /\ faults' = faults /\ Accepts("TARGET", setup.qty)
             /\ Goes(p, <<[f EXCEPT !.pc = "tgtRow", !.id = NextId]>>)
    <2>1. PICK k : k = NextId
      OBVIOUS
    <2>2. PICK n : n = setup.qty
      OBVIOUS
    <2>3. n \in Int /\ n # 0 /\ n > 0 /\ Accepts("TARGET", n)
      <3>1. setup.qty \in 1 .. 2
        BY WorldParts, LifecycleAssumption DEF OrdersInv, Setup
      <3> QED BY <1>7, <2>2, <3>1
    <2>4. MayPlace("TARGET", n)
      BY <2>2, <2>3, WorldParts DEF MayPlace, SoleInv
    <2>5. PICK g : g = PlacedBy(f, "tgtRow", k)
      OBVIOUS
    <2> "TARGET" \in Roles
      BY DEF Roles
    <2> "tgtRow" \in Pcs
      BY PcsFacts DEF PipelinePcs, TargetPcs
    <2>6. Refers(f)
      BY <1>5 DEF FrameOK
    <2>7. g \in FrameT /\ g.pc = "tgtRow" /\ g.id = k /\ Refers(g)'
      BY <1>5, <2>1, <2>3, <2>5, <2>6, WorldParts, PlacedNext
    <2>8. "tgtRow" \in PcsOf(p)
      BY <1>4 DEF PipelinePcs, TargetPcs
    <2>9. FrameOK(p, g)'
      BY <1>2, <1>7, <2>1, <2>3, <2>4, <2>7, <2>8, WorldParts, PlacedFrame
    <2>10. Goes(p, <<g>>)
      BY <1>7, <2>1, <2>5 DEF PlacedBy
    <2>11. ~At(p, "slRow") /\ ~At(p, "panicRow") /\ Top(p).pc \notin PanicPcs
      BY <1>2, <1>3 DEF At
    <2>12. TwoHeld'
      <3>1. /\ Ids' = Ids \cup {k} /\ \A id \in Ids : orders'[id] = orders[id]
            /\ orders'[k].role # "PANIC_EXIT"
        BY <2>1, <2>3, WorldParts, Placed
      <3> QED BY <1>2, <2>7, <2>10, <2>11, <3>1, TwoOther
    <2> QED BY <1>2, <1>7, <2>3, <2>4, <2>9, <2>10, <2>11, <2>12, TargetApart, PlacedGoes
  <1> QED BY <1>2, <1>6, <1>7

LEMMA PanicPlaceSteps ==
    ASSUME IInv, NEW p \in Procs, PanicPlaces(p)
    PROVE  Well
  <1>1. PICK f : f = Top(p)
    OBVIOUS
  <1>2. /\ At(p, "panicPlace") /\ f.q # 0 /\ setup' = setup /\ breach' = breach
        /\ orphans' = orphans
        /\ linked' = linked /\ row' = row
        /\ \/ /\ faults' = faults /\ Accepts("PANIC_EXIT", f.q) /\ mem' = mem
              /\ Goes(p, <<[Frame("panicRow") EXCEPT !.id = NextId]>>)
           \/ /\ Fault("refused") /\ broker' = broker
              /\ \/ Returns(p) /\ mem' = [mem EXCEPT !.inFlight = FALSE]
                 \/ Goes(p, <<[f EXCEPT !.flag = TRUE]>>) /\ mem' = mem
    BY <1>1 DEF PanicPlaces, NoFault
  <1>3. FrameOK(p, f) /\ f \in FrameT /\ f.pc = "panicPlace"
    BY <1>1, <1>2, TopFacts
  <1>4. CASE /\ Fault("refused") /\ broker' = broker
             /\ \/ Returns(p) /\ mem' = [mem EXCEPT !.inFlight = FALSE]
                \/ Goes(p, <<[f EXCEPT !.flag = TRUE]>>) /\ mem' = mem
    BY <1>1, <1>2, <1>4, PanicRefused
  <1>5. CASE /\ faults' = faults /\ Accepts("PANIC_EXIT", f.q) /\ mem' = mem
             /\ Goes(p, <<[Frame("panicRow") EXCEPT !.id = NextId]>>)
    <2>1. PICK k : k = NextId
      OBVIOUS
    <2>2. PICK n : n = f.q
      OBVIOUS
    <2>3. n \in Int /\ n # 0 /\ Accepts("PANIC_EXIT", n)
      BY <1>2, <1>3, <1>5, <2>2 DEF FrameT
    <2>4. MayPlace("PANIC_EXIT", n)
      <3>1. (Alone => NoPanic) /\ (~Bought => pos <= n) /\ (Alone => ~Bought)
        BY <1>3, <2>2 DEF FrameOK, Places, Closes, Alone, Bought
      <3>2. NoPanic => \A id \in Ids : orders[id].role = "PANIC_EXIT" => orders[id].st \in DeadStatuses
        BY DEF NoPanic
      <3> QED BY <3>1, <3>2 DEF MayPlace
    <2>5. PICK g : g = IdFrame("panicRow", k)
      OBVIOUS
    <2> "PANIC_EXIT" \in Roles
      BY DEF Roles
    <2> "panicRow" \in Pcs
      BY PcsFacts DEF PipelinePcs, PanickingPcs
    <2>6. g \in FrameT /\ g.pc = "panicRow" /\ g.id = k /\ Refers(g)'
      BY <2>1, <2>3, <2>5, WorldParts, PlacedNew
    <2>7. "panicPlace" \in PanickingPcs \cup {"sla", "confirm"} /\ "panicRow" \in PanickingPcs
      BY DEF PanickingPcs
    <2>8. "panicRow" \in PcsOf(p) /\ (p = "pipeline" \/ ~Alone)
      BY <1>2, <2>7, PanicProcs
    <2>9. FrameOK(p, g)'
      BY <1>2, <1>5, <2>1, <2>3, <2>4, <2>6, <2>8, WorldParts, PlacedFrame
    <2>10. Goes(p, <<g>>)
      BY <1>5, <2>1, <2>5 DEF IdFrame
    <2>11. ~At(p, "slRow") /\ ~At(p, "panicRow") /\ g.pc \in PanicPcs
      BY <1>2, <2>6 DEF At, PanicPcs
    <2>12. \A q \in Procs : q # p => Apart(q, "PANIC_EXIT")
      BY <1>3, <2>8, SaleApart
    <2>13. TwoHeld'
      <3>1. Ids' = Ids \cup {k} /\ k \notin Ids /\ \A id \in Ids : orders'[id] = orders[id]
        BY <2>1, <2>3, WorldParts, Placed
      <3> QED BY <1>2, <2>6, <2>10, <3>1, TwoPanics
    <2> QED BY <1>2, <1>5, <2>3, <2>4, <2>6, <2>9, <2>10, <2>11, <2>12, <2>13, PlacedGoes
  <1> QED BY <1>2, <1>4, <1>5

LEMMA TimeoutPlaceSteps ==
    ASSUME IInv, NEW p \in Procs, TimeoutPlaces(p)
    PROVE  Well
  <1>1. PICK f : f = Top(p)
    OBVIOUS
  <1>2. PICK o : o = orders[f.id]
    OBVIOUS
  <1>3. /\ At(p, "timeoutPlace") /\ setup' = setup /\ breach' = breach /\ orphans' = orphans
        /\ linked' = linked /\ row' = row
        /\ \/ /\ o.st \in DeadStatuses /\ faults' = faults /\ mem' = mem
              /\ Accepts("PANIC_EXIT", o.left * (0 - o.side))
              /\ Goes(p, <<[Frame("timeoutRow") EXCEPT !.id = NextId]>>)
           \/ /\ faults' = faults \/ (faults > 0 /\ faults' = faults - 1)
              /\ mem' = mem \/ mem' = [mem EXCEPT !.retries = 0]
              /\ Returns(p) /\ broker' = broker
    <2>1. \/ /\ o.st \in DeadStatuses /\ faults' = faults /\ mem' = mem
             /\ Accepts("PANIC_EXIT", o.left * (0 - o.side))
             /\ Goes(p, <<[Frame("timeoutRow") EXCEPT !.id = NextId]>>)
          \/ /\ faults' = faults \/ (faults > 0 /\ faults' = faults - 1)
             /\ mem' = [mem EXCEPT !.retries = IF o.st = "COMPLETE" THEN 0 ELSE @]
             /\ Returns(p) /\ broker' = broker
      BY <1>1, <1>2 DEF TimeoutPlaces, NoFault, Fault
    <2>2. mem = [mem EXCEPT !.retries = mem.retries]
      BY WorldParts DEF MemOK, MemType
    <2>3. At(p, "timeoutPlace") /\ setup' = setup /\ breach' = breach /\ orphans' = orphans
          /\ linked' = linked /\ row' = row
      BY DEF TimeoutPlaces
    <2> QED BY <2>1, <2>2, <2>3
  <1>4. CASE /\ faults' = faults \/ (faults > 0 /\ faults' = faults - 1)
             /\ mem' = mem \/ mem' = [mem EXCEPT !.retries = 0]
             /\ Returns(p) /\ broker' = broker
    BY <1>3, <1>4, TimeoutEnds
  <1>5. CASE /\ o.st \in DeadStatuses /\ faults' = faults /\ mem' = mem
             /\ Accepts("PANIC_EXIT", o.left * (0 - o.side))
             /\ Goes(p, <<[Frame("timeoutRow") EXCEPT !.id = NextId]>>)
    <2>1. PICK k : k = NextId
      OBVIOUS
    <2>2. PICK n : n = o.left * (0 - o.side)
      OBVIOUS
    <2> "timeoutPlace" \in TimeoutPcs
      BY DEF TimeoutPcs
    <2>3. /\ p = "timer" /\ TimeoutPcs \subseteq PcsOf(p) /\ FrameOK(p, f) /\ f.pc = "timeoutPlace"
          /\ f.id \in Ids /\ RoleOf(f.id, "PANIC_EXIT") /\ Quiet(p)
      BY <1>1, <1>3, TimeoutFacts
    <2>4. o.left \in Nat \ {0} /\ o.side \in {-1, 1} /\ o.role = "PANIC_EXIT"
      <3>1. o.left \in Nat /\ o.side \in {-1, 1} /\ (o.left = 0 <=> o.st = "COMPLETE")
        BY <1>2, <2>3, WorldParts, IdFacts DEF OrdersInv, OrderType
      <3> QED BY <1>2, <1>5, <2>3, <3>1 DEF RoleOf, DeadStatuses
    <2>5. /\ o.side = -1 => n = o.left
          /\ o.side = 1 => n = -o.left
      BY <2>2, <2>4
    <2>6. n \in Int /\ n # 0 /\ Accepts("PANIC_EXIT", n)
      BY <1>5, <2>2, <2>4, <2>5
    <2>7. Alone => LastPanic(f.id)
      BY <2>3 DEF FrameOK, Places
    <2>8. MayPlace("PANIC_EXIT", n)
      <3>1. ASSUME Alone, NEW id \in Ids, orders[id].role = "PANIC_EXIT"
            PROVE  orders[id].st \in DeadStatuses
        <4>1. orders[id].st \in DeadStatuses \/ LastPanic(id)
          BY <3>1, WorldParts DEF SoleInv
        <4>2. CASE LastPanic(id)
          <5>1. id <= f.id /\ f.id <= id /\ id \in Nat /\ f.id \in Nat
            BY <2>3, <2>4, <2>7, <3>1, <4>2, WorldParts, IdFacts DEF LastPanic, RoleOf
          <5>2. id = f.id
            BY <5>1
          <5> QED BY <1>2, <1>5, <5>2
        <4> QED BY <4>1, <4>2
      <3>2. ASSUME ~Bought, n > 0
            PROVE  pos <= n
        <4>1. o.side = -1 /\ n = o.left
          BY <2>4, <2>5, <3>2
        <4> QED BY <1>2, <2>3, <3>2, <4>1, WorldParts DEF SoleInv
      <3>3. ASSUME Alone, n < 0
            PROVE  pos <= n
        <4>1. o.side = 1 /\ pos \in Int /\ n = -o.left
          BY <2>4, <2>5, <3>3, WorldParts DEF OrdersInv
        <4>2. pos + o.left <= 0
          BY <1>2, <2>3, <2>4, <2>7, <3>3, <4>1, WorldParts DEF SoleInv
        <4> QED BY <2>4, <4>1, <4>2
      <3> QED BY <3>1, <3>2, <3>3 DEF MayPlace
    <2>9. PICK g : g = IdFrame("timeoutRow", k)
      OBVIOUS
    <2> "PANIC_EXIT" \in Roles
      BY DEF Roles
    <2> "timeoutRow" \in Pcs
      BY DEF Pcs, TimerPcs, LoneTimerPcs, TimeoutPcs
    <2>10. g \in FrameT /\ g.pc = "timeoutRow" /\ g.id = k /\ Refers(g)'
      BY <2>1, <2>6, <2>9, WorldParts, PlacedNew
    <2>11. "timeoutRow" \in PcsOf(p) /\ mem.retries < PANIC_EXIT_MAX_RETRIES
      BY <2>3 DEF TimeoutPcs, FrameOK, Places
    <2>12. FrameOK(p, g)'
      BY <1>3, <1>5, <2>1, <2>6, <2>8, <2>10, <2>11, WorldParts, PlacedFrame
    <2>13. Goes(p, <<g>>)
      BY <1>5, <2>1, <2>9 DEF IdFrame
    <2>14. ~At(p, "slRow") /\ ~At(p, "panicRow") /\ Top(p).pc \notin PanicPcs /\ ~NoPanic
      BY <1>3, <2>3 DEF At, PanicPcs, NoPanic, RoleOf
    <2>15. \A q \in Procs : q # p => Apart(q, "PANIC_EXIT")
      BY <2>3, SaleApart
    <2>16. TwoHeld'
      <3>1. Ids' = Ids \cup {k} /\ k \notin Ids /\ \A id \in Ids : orders'[id] = orders[id]
        BY <2>1, <2>6, WorldParts, Placed
      <3>2. f.id = Top("timer").id /\ orders[f.id].st # "OPEN" /\ At("timer", "timeoutPlace")
        BY <1>1, <1>2, <1>3, <1>5, <2>3 DEF DeadStatuses
      <3> QED BY <1>3, <2>3, <2>10, <2>13, <3>1, <3>2, TwoReplaced
    <2> QED BY <1>3, <1>5, <2>6, <2>8, <2>12, <2>13, <2>14, <2>15, <2>16, PlacedGoes
  <1> QED BY <1>3, <1>4, <1>5

-----------------------------------------------------------------------------
(* The invariant holds at first, and every step keeps it.                   *)

LEMMA EntryFrame ==
    ASSUME Ids = {}, NEW g, g = Frame("entry")
    PROVE  FrameOK("pipeline", g)
  <1> "entry" \in Pcs
    BY PcsFacts DEF PipelinePcs
  <1>1. g \in FrameT /\ g.pc = "entry" /\ g.id = NoOrder /\ g.t = NewRow /\ g.todo = <<>>
    BY NewFrame
  <1>2. Refers(g)
    BY <1>1, NewRowType DEF Refers, Named
  <1>3. Role("pipeline", g) /\ Places(g) /\ Closes(g)
    BY <1>1 DEF Role, Places, Closes, NoStop, StopPcs, TargetPcs, SoldPcs, TimeoutPcs
  <1>4. "entry" \in PcsOf("pipeline")
    BY PcsFacts DEF PipelinePcs
  <1> QED BY <1>1, <1>2, <1>3, <1>4 DEF FrameOK

LEMMA InitInv == Init => IInv
  <1> SUFFICES ASSUME Init
               PROVE  IInv
    OBVIOUS
  <1>1. orders = <<>> /\ pos = setup.qty /\ setup \in Setups /\ faults = setup.faults
        /\ breach = FALSE /\ news = {} /\ orphans = {} /\ linked = {} /\ row = NewRow
    BY DEF Init
  <1>2. Ids = {} /\ Len(orders) = 0
    BY <1>1 DEF Ids
  <1>3. setup.qty \in 1 .. 2 /\ setup.faults \in Nat /\ MaxOrders \in Nat
    BY <1>1, LifecycleAssumption DEF Setup
  <1>4. OrdersInv
    <2>1. orders \in Seq(OrderType)
      BY <1>1
    <2>2. breach \in BOOLEAN
      BY <1>1
    <2>3. pos \in Int /\ faults \in 0 .. setup.faults /\ Len(orders) <= MaxOrders
      BY <1>1, <1>2, <1>3
    <2> QED BY <1>1, <1>2, <2>1, <2>2, <2>3 DEF OrdersInv
  <1>5. NewsInv
    BY <1>1 DEF NewsInv, UpdatesOK
  <1>6. RowInv
    BY <1>1, NewRowType DEF RowInv, Named
  <1>7. MemOK(mem) /\ ~mem.inFlight
    <2>1. 0 \in 0 .. PANIC_EXIT_MAX_RETRIES
      BY LifecycleAssumption
    <2>2. [i \in OrderIds |-> "none"] \in [OrderIds -> KnownStatuses]
      BY DEF KnownStatuses
    <2>3. PICK kn : kn = [i \in OrderIds |-> "none"]
      OBVIOUS
    <2>4. mem = [kill |-> FALSE, halted |-> FALSE, active |-> TRUE, closed |-> FALSE,
                 lock |-> FALSE, inFlight |-> FALSE, expected |-> {}, seen |-> {},
                 known |-> kn, sla |-> NoOrder, watch |-> NoOrder, retries |-> 0]
      BY <2>3 DEF Init
    <2>5. kn \in [OrderIds -> KnownStatuses] /\ \A i \in OrderIds : kn[i] # "COMPLETE"
      BY <2>2, <2>3
    <2>6. mem \in MemType
      BY <2>1, <2>4, <2>5 DEF MemType, NoOrder
    <2> QED BY <2>4, <2>5, <2>6 DEF MemOK
  <1>8. SoleInv
    BY <1>1, <1>2, <1>3 DEF SoleInv
  <1>9. \A p \in Procs : h[p] = <<>> \/ (p = "pipeline" /\ h[p] = <<Frame("entry")>>)
    BY ProcNames DEF Init
  <1>10. FramesInv
    <2>1. PICK g : g = Frame("entry")
      OBVIOUS
    <2>2. FrameOK("pipeline", g) /\ g \in FrameT
      BY <1>2, <2>1, EntryFrame DEF FrameOK
    <2>3. \A p : StackOK(p, <<>>)
      BY DEF StackOK
    <2>4. StackOK("pipeline", <<g>>)
      <3>1. <<g>> \in Seq(FrameT) /\ DOMAIN <<g>> = {1} /\ <<g>>[1] = g /\ Len(<<g>>) = 1
        BY <2>2
      <3> QED BY <2>2, <3>1 DEF StackOK
    <2>5. \A p \in Procs : StackOK(p, h[p])
      BY <1>9, <2>1, <2>3, <2>4
    <2>6. h \in [Procs -> Seq(FrameT)]
      <3>1. h \in [Procs -> {<<>>, <<Frame("entry")>>}]
        BY DEF Init
      <3> QED BY <2>5, <3>1 DEF StackOK
    <2> QED BY <2>5, <2>6 DEF FramesInv
  <1>11. Claims
    BY <1>2, <1>7 DEF Claims, StopHeld, PanicHeld, NoPanic, MarkerHeld, TwoHeld
  <1> QED BY <1>4, <1>5, <1>6, <1>7, <1>8, <1>10, <1>11 DEF IInv, World

LEMMA PlacingSteps ==
    ASSUME IInv, NEW p \in Procs, Placing(p)
    PROVE  Well
  BY EntrySteps, RecheckSteps, BreachSteps, PlaceExitsSteps, StopSteps, StopRowSteps, TargetSteps,
     LiveSteps, TargetPlaceSteps, TargetRowSteps, DeadTargetSteps, UnlockSteps, LinkSteps,
     ReplaySteps DEF Placing

LEMMA ReactingSteps ==
    ASSUME IInv, NEW p \in Procs, Reacting(p)
    PROVE  Well
  BY UpdateOfLegSteps, UpdateOfPanicSteps, CancelOtherSteps, LegRowSteps, GuardCheckSteps,
     GuardMarkSteps, GuardCancelSteps, FinalizeSteps, HaltSteps DEF Reacting

LEMMA PanickingSteps ==
    ASSUME IInv, NEW p \in Procs, Panicking(p)
    PROVE  Well
  BY PanicInFlightSteps, PanicStartSteps, PanicCancelSteps, PanicReadSteps, PanicNothingSteps,
     PanicPlaceSteps, PanicRowSteps DEF Panicking

LEMMA WatchingSteps ==
    ASSUME IInv, NEW p \in Procs, Watching(p)
    PROVE  Well
  BY SlaCheckSteps, ConfirmSteps, TimeoutCancelSteps, TimeoutPlaceSteps, TimeoutRowSteps DEF Watching

LEMMA ComparingSteps ==
    ASSUME IInv, NEW p \in Procs, Comparing(p)
    PROVE  Well
  BY CompareSteps, CancelRemainingSteps, OcoFlatSteps, ReadPositionSteps, HealSteps,
     ReconcileFlatSteps, FlatCloseSteps, GuardFailedSteps, UnfinishedSteps, LiveReconcileSteps
     DEF Comparing

LEMMA MarketSteps ==
    ASSUME IInv, Market
    PROVE  Well
  <1>1. \/ \E id \in Ids : Trades(id)
        \/ \E id \in Ids : \E st \in DeadStatuses : Dies(id, st)
        \/ SoldByHand
        \/ \E u \in news : IsLost(u)
    BY DEF Market, Ids
  <1> QED BY <1>1, TradeSteps, DeadSteps, SoldByHandSteps, LostSteps

(* Nothing happens.                                                         *)
LEMMA Stutters ==
    ASSUME IInv, UNCHANGED vars
    PROVE  Well
  <1>1. /\ setup' = setup /\ breach' = breach /\ faults' = faults /\ broker' = broker
        /\ orphans' = orphans
        /\ linked' = linked /\ row' = row /\ mem' = mem /\ h' = h
    BY DEF vars
  <1>2. Calm
    BY <1>1, WorldParts, RowSame, MemSame, CalmWrites
  <1> QED BY <1>1, <1>2, CalmSame

(* The trade that closed is watched no longer.                              *)
LEMMA WindowSteps ==
    ASSUME IInv, WindowCloses
    PROVE  Well
  <1>1. /\ mem' = [mem EXCEPT !.closed = FALSE] /\ setup' = setup /\ breach' = breach
        /\ faults' = faults /\ broker' = broker /\ orphans' = orphans /\ linked' = linked
        /\ row' = row /\ h' = h
    BY DEF WindowCloses
  <1>2. MemTo(mem')
    BY <1>1, WorldParts, MemFlags
  <1>3. Calm
    BY <1>1, <1>2, WorldParts, RowSame, CalmWrites
  <1> QED BY <1>1, <1>3, CalmSame

LEMMA NextSteps == IInv /\ [Next]_vars => Well
  <1> SUFFICES ASSUME IInv, [Next]_vars
               PROVE  Well
    OBVIOUS
  <1>1. CASE UNCHANGED vars
    BY <1>1, Stutters
  <1>2. ASSUME NEW p \in Procs, Step(p)
        PROVE  Well
    BY <1>2, PlacingSteps, ReactingSteps, PanickingSteps, WatchingSteps, ComparingSteps DEF Step
  <1>3. CASE Market
    BY <1>3, MarketSteps
  <1>4. CASE Timers
    BY <1>4, SlaFireSteps, TimeoutFireSteps DEF Timers
  <1>5. CASE \E u \in news : Deliver(u)
    BY <1>5, DeliverSteps
  <1>6. CASE OcoTick \/ WindowCloses \/ Reconcile \/ ForceFlatten
    BY <1>6, TickSteps, WindowSteps, ReconcileSteps, ForceFlattenSteps
  <1> QED BY <1>1, <1>2, <1>3, <1>4, <1>5, <1>6 DEF Next

(* What is claimed holds of every state of a behaviour.                     *)
THEOREM LifecycleInvariant == Spec => []IInv
  <1>1. IInv /\ [Next]_vars => IInv'
    BY NextSteps DEF Well
  <1> QED BY <1>1, InitInv, PTL DEF Spec

(* Every variable has its type; what a row, a link, a frame or a postback   *)
(* names was placed, and replacements of targets and of panic exits stay    *)
(* within their limits, as long as the bound on orders is not reached.      *)
THEOREM LifecycleTypeCorrect == Spec => [](Len(orders) < MaxOrders => TypeOK)
  <1>1. IInv => (Len(orders) < MaxOrders => TypeOK)
    <2> SUFFICES ASSUME IInv, Len(orders) < MaxOrders
                 PROVE  TypeOK
      OBVIOUS
    <2>1. OrdersInv /\ NewsInv /\ RowInv /\ MemOK(mem) /\ FramesInv
      BY WorldParts
    <2>2. setup \in Setups /\ faults \in 0 .. setup.faults /\ pos \in Int
      BY <2>1 DEF OrdersInv
    <2>3. \A id \in DOMAIN orders :
              /\ orders[id].role \in Roles
              /\ orders[id].st \in BrokerStatuses
              /\ orders[id].left = 0 <=> orders[id].st = "COMPLETE"
      BY <2>1, IdFacts DEF OrdersInv, OrderType, Ids
    <2>4. (\A u \in news \cup orphans : u.id \in DOMAIN orders) /\ linked \subseteq DOMAIN orders
      BY <2>1 DEF NewsInv, UpdatesOK, Ids
    <2>5. row \in RowType /\ {row.sl, row.tgt, row.panic, row.exit} \subseteq {NoOrder} \cup DOMAIN orders
      BY <2>1 DEF RowInv, Named, RoleOf, Ids
    <2>6. mem.seen \cup mem.expected \subseteq DOMAIN orders /\ mem.retries \in 0 .. PANIC_EXIT_MAX_RETRIES
      BY <2>1 DEF MemOK, MemType, Ids
    <2>7. ASSUME NEW p \in Procs, NEW i \in DOMAIN h[p], NEW f, f = h[p][i]
          PROVE  FrameType(f)
      <3>1. FrameOK(p, f)
        BY <2>1, <2>7 DEF FramesInv, StackOK
      <3>2. f \in FrameT /\ Refers(f)
        BY <3>1 DEF FrameOK
      <3> QED BY <3>2 DEF FrameT, Refers, FrameType, Ids
    <2>8. \A p \in Procs : \A i \in DOMAIN h[p] : FrameType(h[p][i])
      BY <2>7
    <2> QED BY <2>2, <2>3, <2>4, <2>5, <2>6, <2>8 DEF TypeOK
  <1> QED BY <1>1, LifecycleInvariant, PTL

(* A set of one number at most.                                             *)
LEMMA OneAtMost ==
    ASSUME NEW S, \A i, k \in S : i = k
    PROVE  Cardinality(S) <= 1
  <1>1. CASE S = {}
    <2>1. Cardinality({}) = 0
      BY FS_EmptySet
    <2> QED BY <1>1, <2>1
  <1>2. CASE S # {}
    <2>1. PICK i \in S : TRUE
      BY <1>2
    <2>2. S = {i}
      BY <2>1
    <2>3. Cardinality({i}) = 1
      BY FS_Singleton
    <2> QED BY <2>2, <2>3
  <1> QED BY <1>1, <1>2

(* One stop works at most, under every circumstance and fault: none of the  *)
(* handlers that place exits that are missing places a second one.          *)
THEOREM OneStopIsPlaced == Spec => []OneStopLoss
  <1>1. IInv => OneStopLoss
    <2> SUFFICES ASSUME IInv
                 PROVE  OneStopLoss
      OBVIOUS
    <2>1. \A i, k \in WorkingOf("SL") : i = k
      BY WorldParts DEF WorkingOf, SoleInv, Ids
    <2> QED BY <2>1, OneAtMost DEF OneStopLoss
  <1> QED BY <1>1, LifecycleInvariant, PTL

(* Until the watchdog of the stop goes on to a panic exit, one panic exit   *)
(* works at most, whatever guards, reconciles, the forced flatten, the      *)
(* timeout and the broker do.                                               *)
LEMMA OnePanicWorks ==
    ASSUME IInv, Alone
    PROVE  Cardinality(WorkingOf("PANIC_EXIT")) <= 1
  <1>1. ASSUME NEW i \in WorkingOf("PANIC_EXIT"), NEW k \in WorkingOf("PANIC_EXIT")
        PROVE  i = k
    <2>1. /\ i \in Ids /\ orders[i].role = "PANIC_EXIT" /\ orders[i].st \notin DeadStatuses
          /\ k \in Ids /\ orders[k].role = "PANIC_EXIT" /\ orders[k].st \notin DeadStatuses
      BY DEF WorkingOf, Working, Ids, DeadStatuses
    <2>2. LastPanic(i) /\ LastPanic(k)
      BY <2>1, WorldParts DEF SoleInv
    <2>3. i <= k /\ k <= i /\ i \in Nat /\ k \in Nat
      BY <2>1, <2>2, WorldParts, IdFacts DEF LastPanic
    <2> QED BY <2>3
  <1> QED BY <1>1, OneAtMost

(* A marker of a panic exit is held by an order in the row or by a handler  *)
(* that places one.                                                         *)
LEMMA MarkerIsHeld ==
    ASSUME IInv, mem.inFlight, row.panic = NoOrder
    PROVE  \E p \in Procs : \E i \in DOMAIN h[p] : h[p][i].pc \in PanicPcs
  <1>1. PICK p \in Procs : h[p] # <<>> /\ Top(p).pc \in PanicPcs
    BY DEF IInv, Claims, MarkerHeld, Marked
  <1>2. h[p] \in Seq(FrameT)
    BY WorldParts DEF FramesInv
  <1>3. Len(h[p]) \in DOMAIN h[p]
    BY <1>1, <1>2
  <1> QED BY <1>1, <1>3 DEF Top

(* Of three elements of the set two are the same.                           *)
LEMMA TwoAtMost ==
    ASSUME NEW S, \A i, j, k \in S : i = j \/ j = k \/ i = k
    PROVE  Cardinality(S) <= 2
  <1>1. CASE \A i, k \in S : i = k
    <2>1. S = {} \/ \E i : S = {i}
      BY <1>1
    <2>2. Cardinality({}) = 0
      BY FS_EmptySet
    <2>3. ASSUME NEW i, S = {i}
          PROVE  Cardinality(S) = 1
      BY <2>3, FS_Singleton
    <2> QED BY <2>1, <2>2, <2>3
  <1>2. CASE ~\A i, k \in S : i = k
    <2>1. PICK i \in S, k \in S : i # k
      BY <1>2
    <2>2. S = {i} \cup {k}
      BY <2>1
    <2>3. IsFiniteSet({i}) /\ Cardinality({i}) = 1
      BY FS_Singleton
    <2>4. Cardinality({i} \cup {k}) = 2
      BY <2>1, <2>3, FS_AddElement
    <2> QED BY <2>2, <2>4
  <1> QED BY <1>1, <1>2

(* One panic exit works at most, and once the watchdog of the stop sells    *)
(* beside the queue two at most, whatever guards, reconciles, the forced    *)
(* flatten, the timeout and the broker do; and a marker that is set belongs *)
(* to an order in the row or to a handler that is placing one.              *)
THEOREM OnePanicExitWorks == Spec => []OnePanicExit
  <1>1. IInv => OnePanicExit
    <2> SUFFICES ASSUME IInv
                 PROVE  OnePanicExit
      OBVIOUS
    <2>1. Cardinality(WorkingOf("PANIC_EXIT")) <= 2
      <3>1. \A i \in WorkingOf("PANIC_EXIT") : i \in Ids /\ Line(i)
        BY DEF WorkingOf, Working, Ids, Line, RoleOf
      <3>2. \A i, j, k \in WorkingOf("PANIC_EXIT") : i = j \/ j = k \/ i = k
        BY <3>1 DEF IInv, Claims, TwoHeld
      <3> QED BY <3>2, TwoAtMost
    <2>2. ~breach => Cardinality(WorkingOf("PANIC_EXIT")) <= 1
      BY OnePanicWorks DEF Alone
    <2> QED BY <2>1, <2>2, MarkerIsHeld DEF OnePanicExit
  <1> QED BY <1>1, LifecycleInvariant, PTL

(* No trade is closed while units of it are held, whoever closes it: but    *)
(* for a reconcile whose positions were not read, and where a panic exit    *)
(* bought back beside the one of the watchdog.                              *)
THEOREM TradesCloseFlat == Spec => ClosesOnlyFlat
  <1>1. IInv /\ [Next]_vars =>
            [~Terminal(row.status) /\ Terminal(row'.status)
                => pos' <= 0 \/ PositionsUnread \/ Bought]_vars
    BY NextSteps DEF Well, FlatWhenClosed
  <1> QED BY <1>1, LifecycleInvariant, PTL DEF Spec, ClosesOnlyFlat
=============================================================================
