----------------------------- MODULE DayRiskProofs -----------------------------
(***************************************************************************)
(* Theorems about DayRisk, for any limits, prices and circumstances of the *)
(* day: the types, that the booked profit is the profit made, and that the *)
(* limits of the day hold across crashes.                                  *)
(***************************************************************************)
EXTENDS DayRisk, FiniteSetTheorems, TLAPS

Pc(p) == h[p].pc
Runs(p) == Pc(p) # "idle"

Statuses == {"NONE", "CLOSED", "ENTRY_PLACED", "ENTRY_OPEN", "LIVE", "SL_CONFIRMED",
             "PANIC_EXIT_PLACED"}
Day == [realized : Int, kill : BOOLEAN, state : Days, orders : Int]
Memory == [up : BOOLEAN, kill : BOOLEAN, halted : BOOLEAN, trades : Nat, orders : Int,
           active : BOOLEAN]
Trade == [st : Statuses, units : 0 .. 2, entry : BOOLEAN, qty : 0 .. 2, pnl : PnLs,
          exit : BOOLEAN, panic : BOOLEAN, due : BOOLEAN]
Pcs == {"idle", "gate", "insert", "place", "count", "write", "link", "read", "book",
        "booked", "double", "qty", "set", "kill", "exit", "day", "state"}
Handler == [pc : Pcs, n : Int, s : Days, t : Nat, again : BOOLEAN]
History == [owed : Int, missed : BOOLEAN, slipped : Nat, cleared : BOOLEAN, sent : Nat,
            entries : Nat, forgotten : Int, uncounted : Nat, waiting : Nat]

HandlersInv ==
    /\ h \in [Handlers -> Handler]
    /\ \A p \in Handlers :
          /\ Runs(p) => Pc(p) \in PcsOf[p]
          /\ h[p].t <= rows
          /\ ~Runs(p) => h[p] = Idle
TypeInv ==
    /\ setup \in DaySetups
    /\ day \in Day
    /\ saved \in BOOLEAN /\ snaps \subseteq BOOLEAN
    /\ mem \in Memory
    /\ trade \in Trade
    /\ rows \in Nat
    /\ asked \in 0 .. Len(setup.admin)
    /\ hist \in History
    /\ HandlersInv
    /\ ~mem.up => \A p \in Handlers : ~Runs(p)

-----------------------------------------------------------------------------
(* The row: what may happen beside a signal, and beside the sale of a part. *)
Placing == Pc("signal") \in {"place", "count", "write", "link"}
RowInv ==
    /\ rows <= MaxRows
    /\ trade.units <= trade.qty
    /\ Held => ~Terminal /\ ~trade.entry /\ ~trade.due
    /\ trade.entry => ~Terminal /\ ~trade.due
    /\ trade.st = "ENTRY_PLACED" =>
          /\ ~trade.exit /\ ~trade.due
          /\ \A p \in Checks : Runs(p) => h[p].t < rows
    /\ Runs("signal") => ~mem.active /\ ~Runs("partial") /\ ~Runs("close")
    /\ Pc("signal") \in {"gate", "insert"} => Terminal /\ rows < MaxRows
    /\ Placing => trade.st = "ENTRY_PLACED"
    /\ Pc("signal") = "place" => ~trade.entry /\ ~Held
    /\ Runs("partial") => trade.units <= 1 /\ trade.qty = 2 /\ ~trade.entry

-----------------------------------------------------------------------------
(* The switch: whoever is about to write it into the document set it in     *)
(* memory, and nobody takes it back unseen.  After an entry that slipped    *)
(* through, the gate is shut.                                               *)
Guarded == mem.kill \/ mem.halted \/ hist.cleared
KillInv ==
    /\ mem.up /\ day.kill => Guarded
    /\ Runs("fatal") => mem.halted
    /\ \A p \in Checks : Pc(p) = "kill" => Guarded
    /\ Pc("close") = "double" => Guarded
    /\ Runs("admin") =>
          /\ h["admin"].n = asked /\ asked \in 1 .. Len(setup.admin)
          /\ setup.admin[asked] => Guarded
    /\ hist.slipped <= 1
    /\ hist.slipped > 0 =>
          /\ Pc("signal") \notin {"insert", "place"}
          /\ mem.up => mem.kill \/ mem.halted

-----------------------------------------------------------------------------
(* The limits.                                                              *)
Entered == IF Pc("signal") \in {"count", "write", "link"} THEN 1 ELSE 0
EntriesInv ==
    /\ hist.entries <= rows /\ mem.trades <= rows
    /\ Pc("signal") = "place" => hist.entries < rows
    /\ mem.up => hist.entries <= mem.trades + Entered + hist.uncounted
    /\ Pc("signal") = "insert" \/ Placing => mem.trades < MAX_TRADES_PER_DAY
    /\ Placing => mem.trades < rows
    /\ hist.entries <= MAX_TRADES_PER_DAY + hist.uncounted

(* Every order the broker took is in the count of the memory, or waits to   *)
(* be counted, or no count has it any more.                                 *)
OrdersInv ==
    /\ day.orders \in 0 .. mem.orders /\ mem.orders <= hist.sent
    /\ hist.forgotten >= 0
    /\ \A p \in Placers : Pc(p) = "write" => h[p].n \in 0 .. mem.orders
    /\ IF mem.up THEN hist.sent = mem.orders + Cardinality(Unanswered) + hist.forgotten
                 ELSE hist.sent = day.orders + hist.forgotten
    /\ hist.sent <= MAX_ORDERS_PER_DAY + hist.forgotten + hist.waiting

-----------------------------------------------------------------------------
(* The bookings.                                                            *)

(* The profit of an exit that filled and is not being booked yet.  While a  *)
(* part is sold, one unit is left of the two the row tells.                 *)
Due == IF ~trade.due THEN 0
       ELSE IF Runs("partial") THEN trade.pnl ELSE trade.qty * trade.pnl
Kept == ~hist.missed /\ setup.partial # "watch"
BookInv ==
    /\ Runs("partial") => setup.partial # "none"
    /\ Kept =>
        /\ trade.due => ~Terminal
        /\ Runs("partial") => ~Runs("close")
        /\ Runs("close") => Terminal /\ ~trade.due /\ ~trade.entry
        /\ Held => trade.units = IF Runs("partial") THEN 1 ELSE trade.qty
        /\ Pc("close") = "read" => hist.owed = day.realized + h["close"].n
        /\ Pc("close") = "book" => hist.owed = h["close"].n
        /\ Pc("partial") = "read" => hist.owed = day.realized + h["partial"].n + Due
        /\ Pc("partial") = "book" => hist.owed = h["partial"].n + Due
        /\ Pc("close") \notin {"read", "book"} /\ Pc("partial") \notin {"read", "book"}
              => hist.owed = day.realized + Due

-----------------------------------------------------------------------------
(* The handlers.                                                            *)

LEMMA HandlerNames ==
    /\ Handlers = {"signal", "close", "check", "flatten", "other", "partial", "admin", "fatal"}
    /\ Checks = {"check", "flatten"} /\ Queued = {"signal", "close"}
    /\ Placers = {"signal", "check", "flatten", "other"}
  BY DEF Handlers, Queued, Checks, Placers

CheckPcs == {"day", "state", "kill", "exit", "count", "write"}
LEMMA PcsOfEach ==
    /\ PcsOf["signal"] = {"gate", "insert", "place", "count", "write", "link"}
    /\ PcsOf["close"] = {"read", "book", "booked", "double"}
    /\ PcsOf["other"] = {"count", "write"}
    /\ PcsOf["partial"] = {"read", "book", "booked", "qty"}
    /\ PcsOf["admin"] = {"set"}
    /\ PcsOf["fatal"] = {"kill", "exit"}
    /\ PcsOf["check"] = CheckPcs /\ PcsOf["flatten"] = CheckPcs
    /\ \A p \in Handlers : PcsOf[p] \subseteq Pcs \ {"idle"}
    /\ \A p \in Placers : {"count", "write"} \subseteq PcsOf[p]
  <1>1. /\ PcsOf["signal"] = {"gate", "insert", "place", "count", "write", "link"}
        /\ PcsOf["close"] = {"read", "book", "booked", "double"}
        /\ PcsOf["other"] = {"count", "write"}
        /\ PcsOf["partial"] = {"read", "book", "booked", "qty"}
        /\ PcsOf["admin"] = {"set"}
        /\ PcsOf["fatal"] = {"kill", "exit"}
        /\ PcsOf["check"] = CheckPcs /\ PcsOf["flatten"] = CheckPcs
    BY HandlerNames DEF PcsOf, PartialPcs, CheckPcs
  <1> QED BY <1>1, HandlerNames DEF Pcs, CheckPcs

(* What a step of one handler leaves of the handlers.                       *)
OthersStay(p) ==
    \A q \in Handlers : q # p =>
        h'[q] = h[q] /\ Pc(q)' = Pc(q) /\ (Runs(q)' <=> Runs(q))
LEMMA HandlerStep ==
    ASSUME HandlersInv, rows \in Nat, rows' \in Nat, rows <= rows',
           NEW p \in Handlers, NEW new \in Handler,
           h' = [h EXCEPT ![p] = new], new.t <= rows',
           new = Idle \/ new.pc \in PcsOf[p]
    PROVE  /\ HandlersInv'
           /\ h'[p] = new
           /\ OthersStay(p)
  <1>1. h' \in [Handlers -> Handler] /\ h'[p] = new
        /\ \A q \in Handlers : q # p => h'[q] = h[q]
    BY DEF HandlersInv
  <1>2. "idle" \notin PcsOf[p] /\ Idle.pc = "idle"
    BY PcsOfEach DEF Idle
  <1>3. /\ Runs(p)' => Pc(p)' \in PcsOf[p]
        /\ ~Runs(p)' => h'[p] = Idle
    BY <1>1, <1>2 DEF Runs, Pc
  <1>4. \A q \in Handlers : q # p => Pc(q)' = Pc(q) /\ (Runs(q)' <=> Runs(q))
    BY <1>1 DEF Runs, Pc
  <1>5. ASSUME NEW q \in Handlers
        PROVE  /\ Runs(q)' => Pc(q)' \in PcsOf[q]
               /\ h'[q].t <= rows'
               /\ ~Runs(q)' => h'[q] = Idle
    <2>1. CASE q = p
      BY <1>1, <1>3, <2>1
    <2>2. CASE q # p
      BY <1>1, <1>4, <2>2 DEF HandlersInv, Handler
    <2> QED BY <2>1, <2>2
  <1> QED BY <1>1, <1>4, <1>5 DEF HandlersInv, OthersStay

LEMMA IdleIsHandler == Idle \in Handler /\ Idle.t = 0 /\ Idle.pc = "idle"
  BY DEF Idle, Handler, Pcs, Days

LEMMA GoesStep ==
    ASSUME HandlersInv, rows \in Nat, rows' \in Nat, rows <= rows',
           NEW p \in Handlers, NEW pc \in PcsOf[p], Goes(p, pc)
    PROVE  /\ HandlersInv'
           /\ Pc(p)' = pc /\ h'[p].n = h[p].n /\ h'[p].s = h[p].s /\ h'[p].t = h[p].t
           /\ OthersStay(p)
  <1> DEFINE new == [h[p] EXCEPT !.pc = pc]
  <1>1. h[p] \in Handler /\ h[p].t <= rows /\ pc \in Pcs
    BY PcsOfEach DEF HandlersInv
  <1>2. /\ new \in Handler /\ new.pc = pc /\ new.n = h[p].n /\ new.s = h[p].s
        /\ new.t = h[p].t
    BY <1>1 DEF Handler
  <1>3. h' = [h EXCEPT ![p] = new]
    BY DEF Goes
  <1>4. new.t <= rows'
    BY <1>1, <1>2 DEF Handler
  <1> HIDE DEF new
  <1>5. /\ HandlersInv' /\ h'[p] = new
        /\ OthersStay(p)
    BY <1>2, <1>3, <1>4, HandlerStep
  <1> QED BY <1>2, <1>5 DEF Pc

LEMMA GoesWithStep ==
    ASSUME HandlersInv, rows \in Nat, rows' = rows,
           NEW p \in Handlers, NEW pc \in PcsOf[p], NEW n \in Int, GoesWith(p, pc, n)
    PROVE  /\ HandlersInv'
           /\ Pc(p)' = pc /\ h'[p].n = n /\ h'[p].s = h[p].s /\ h'[p].t = h[p].t
           /\ OthersStay(p)
  <1> DEFINE new == [h[p] EXCEPT !.pc = pc, !.n = n]
  <1>1. h[p] \in Handler /\ h[p].t <= rows /\ pc \in Pcs
    BY PcsOfEach DEF HandlersInv
  <1>2. /\ new \in Handler /\ new.pc = pc /\ new.n = n /\ new.s = h[p].s /\ new.t = h[p].t
    BY <1>1 DEF Handler
  <1>3. h' = [h EXCEPT ![p] = new]
    BY DEF GoesWith
  <1>4. new.t <= rows' /\ rows <= rows'
    BY <1>1, <1>2 DEF Handler
  <1> HIDE DEF new
  <1>5. /\ HandlersInv' /\ h'[p] = new
        /\ OthersStay(p)
    BY <1>2, <1>3, <1>4, HandlerStep
  <1> QED BY <1>2, <1>5 DEF Pc

LEMMA BeginsStep ==
    ASSUME HandlersInv, rows \in Nat, rows' = rows,
           NEW p \in Handlers, NEW pc \in PcsOf[p], NEW n \in Int, Begins(p, pc, n)
    PROVE  /\ HandlersInv'
           /\ Pc(p)' = pc /\ h'[p].n = n /\ h'[p].t = rows
           /\ OthersStay(p)
  <1> DEFINE new == [Idle EXCEPT !.pc = pc, !.n = n, !.t = rows]
  <1>1. pc \in Pcs
    BY PcsOfEach
  <1>2. new \in Handler /\ new.pc = pc /\ new.n = n /\ new.t = rows
    BY <1>1 DEF Handler, Idle, Days
  <1>3. h' = [h EXCEPT ![p] = new]
    BY DEF Begins
  <1>4. new.t <= rows' /\ rows <= rows'
    BY <1>2 DEF Handler
  <1> HIDE DEF new
  <1>5. /\ HandlersInv' /\ h'[p] = new
        /\ OthersStay(p)
    BY <1>2, <1>3, <1>4, HandlerStep
  <1> QED BY <1>2, <1>5 DEF Pc

LEMMA ReturnsStep ==
    ASSUME HandlersInv, rows \in Nat, rows' = rows, NEW p \in Handlers, Returns(p)
    PROVE  /\ HandlersInv'
           /\ Pc(p)' = "idle" /\ ~Runs(p)' /\ h'[p] = Idle
           /\ OthersStay(p)
  <1>1. h' = [h EXCEPT ![p] = Idle] /\ rows <= rows'
    BY DEF Returns
  <1>2. Idle.t <= rows'
    BY IdleIsHandler
  <1>3. /\ HandlersInv' /\ h'[p] = Idle
        /\ OthersStay(p)
    BY <1>1, <1>2, IdleIsHandler, HandlerStep
  <1> QED BY <1>3, IdleIsHandler DEF Pc, Runs

(* CheckReadsDay and SignalReads.                                           *)
LEMMA ReadsStep ==
    ASSUME HandlersInv, rows \in Nat, rows' = rows, NEW p \in Handlers, NEW pc \in PcsOf[p],
           NEW s \in Days, NEW old \in {h[p], Idle},
           h' = [h EXCEPT ![p] = [old EXCEPT !.pc = pc, !.s = s]]
    PROVE  /\ HandlersInv'
           /\ Pc(p)' = pc /\ h'[p].n = old.n /\ h'[p].s = s /\ h'[p].t = old.t
           /\ OthersStay(p)
  <1> DEFINE new == [old EXCEPT !.pc = pc, !.s = s]
  <1>1. old \in Handler /\ old.t <= rows /\ pc \in Pcs
    BY PcsOfEach, IdleIsHandler DEF HandlersInv
  <1>2. /\ new \in Handler /\ new.pc = pc /\ new.n = old.n /\ new.s = s /\ new.t = old.t
    BY <1>1 DEF Handler
  <1>3. h' = [h EXCEPT ![p] = new]
    OBVIOUS
  <1>4. new.t <= rows' /\ rows <= rows'
    BY <1>1, <1>2 DEF Handler
  <1> HIDE DEF new
  <1>5. /\ HandlersInv' /\ h'[p] = new
        /\ OthersStay(p)
    BY <1>2, <1>3, <1>4, HandlerStep
  <1> QED BY <1>2, <1>5 DEF Pc

(* A panic exit that failed is tried again.                                 *)
LEMMA AgainStep ==
    ASSUME HandlersInv, rows \in Nat, rows' = rows, NEW p \in Checks,
           h' = [h EXCEPT ![p].pc = "exit", ![p].again = TRUE]
    PROVE  /\ HandlersInv'
           /\ Pc(p)' = "exit" /\ h'[p].n = h[p].n /\ h'[p].t = h[p].t
           /\ OthersStay(p)
  <1> DEFINE new == [h[p] EXCEPT !.pc = "exit", !.again = TRUE]
  <1>1. /\ h[p] \in Handler /\ h[p].t <= rows /\ p \in Handlers
        /\ "exit" \in PcsOf[p] /\ "exit" \in Pcs
    BY PcsOfEach, HandlerNames DEF HandlersInv, CheckPcs, Pcs
  <1>2. new \in Handler /\ new.pc = "exit" /\ new.n = h[p].n /\ new.t = h[p].t
    BY <1>1 DEF Handler
  <1>3. h' = [h EXCEPT ![p] = new]
    OBVIOUS
  <1>4. new.t <= rows' /\ rows <= rows'
    BY <1>1, <1>2 DEF Handler
  <1> HIDE DEF new
  <1>5. HandlersInv' /\ h'[p] = new /\ OthersStay(p)
    BY <1>1, <1>2, <1>3, <1>4, HandlerStep
  <1> QED BY <1>2, <1>5 DEF Pc

-----------------------------------------------------------------------------
(* Type correctness.                                                        *)

LEMMA SetupType ==
    ASSUME setup \in DaySetups
    PROVE  /\ setup \in DaySetup
           /\ setup.qty \in 1 .. 2 /\ setup.partial \in {"none", "queue", "watch"}
           /\ setup.admin \in {<<>>, <<TRUE>>, <<TRUE, FALSE>>}
  BY DayAssumption DEF DaySetup

LEMMA AdminCalls ==
    ASSUME NEW calls \in {<<>>, <<TRUE>>, <<TRUE, FALSE>>}
    PROVE  /\ Len(calls) \in Nat
           /\ \A i \in 1 .. Len(calls) : calls[i] \in BOOLEAN
           /\ calls # <<TRUE, FALSE>> => \A i \in 1 .. Len(calls) : calls[i] = TRUE
  <1>1. CASE calls = <<>>
    BY <1>1
  <1>2. CASE calls = <<TRUE>>
    <2>1. Len(calls) = 1 /\ calls[1] = TRUE
      BY <1>2
    <2>2. 1 .. Len(calls) = {1}
      BY <2>1
    <2> QED BY <2>1, <2>2, Zenon
  <1>3. CASE calls = <<TRUE, FALSE>>
    <2>1. Len(calls) = 2 /\ calls[1] = TRUE /\ calls[2] = FALSE
      BY <1>3
    <2>2. 1 .. Len(calls) = {1, 2}
      BY <2>1
    <2>3. Len(calls) \in Nat
      BY <2>1
    <2> QED BY <1>3, <2>1, <2>2, <2>3, Zenon
  <1> QED BY <1>1, <1>2, <1>3

LEMMA Amounts ==
    ASSUME TypeInv
    PROVE  /\ trade.pnl \in Int /\ trade.units \in 0 .. 2 /\ trade.qty \in 0 .. 2
           /\ trade.units * trade.pnl \in Int /\ trade.qty * trade.pnl \in Int
           /\ OpenPnl \in Int
  <1>1. trade.pnl \in Int /\ trade.units \in 0 .. 2 /\ trade.qty \in 0 .. 2
    BY DayAssumption DEF TypeInv, Trade
  <1>2. trade.units * trade.pnl \in Int /\ trade.qty * trade.pnl \in Int
        /\ trade.pnl * trade.units \in Int /\ trade.pnl * trade.qty \in Int
    BY <1>1
  <1> QED BY <1>1, <1>2 DEF OpenPnl

(* A step of one handler keeps the types if its other assignments do.       *)
LEMMA TypeOfStep ==
    ASSUME TypeInv, setup' = setup, HandlersInv', mem'.up = mem.up, mem.up \/ h' = h,
           day' \in Day, saved' \in BOOLEAN, snaps' \subseteq BOOLEAN, mem' \in Memory,
           trade' \in Trade, rows' \in Nat, asked' \in 0 .. Len(setup.admin), hist' \in History
    PROVE  TypeInv'
  <1>1. ~mem'.up => \A p \in Handlers : ~Runs(p)'
    BY DEF TypeInv, Runs, Pc
  <1> QED BY <1>1 DEF TypeInv

LEMMA EmitsType ==
    ASSUME NEW kill \in BOOLEAN, snaps \subseteq BOOLEAN, Emits(kill)
    PROVE  snaps' \subseteq BOOLEAN
  BY DEF Emits

LEMMA SetsType ==
    ASSUME NEW kill \in BOOLEAN, snaps \subseteq BOOLEAN, mem \in Memory, Sets(kill)
    PROVE  /\ snaps' \subseteq BOOLEAN
           /\ mem' \in Memory /\ mem' = [mem EXCEPT !.kill = kill] /\ mem'.kill = kill
           /\ mem'.up = mem.up /\ mem'.halted = mem.halted /\ mem'.active = mem.active
           /\ mem'.trades = mem.trades /\ mem'.orders = mem.orders
  BY EmitsType DEF Sets, Memory

(* The orders that wait for their answer are a finite set.                  *)
LEMMA UnansweredIsFinite ==
    /\ IsFiniteSet(Unanswered) /\ Cardinality(Unanswered) \in Nat
    /\ Unanswered \subseteq Placers
  <1>1. IsFiniteSet({"signal", "check", "flatten", "other"})
    <2>1. IsFiniteSet({"signal"})
      <3>1. IsFiniteSet({} \cup {"signal"})
        BY FS_EmptySet, FS_AddElement
      <3> QED BY <3>1
    <2>2. IsFiniteSet({"signal", "check"})
      <3>1. IsFiniteSet({"signal"} \cup {"check"})
        BY <2>1, FS_AddElement
      <3>2. {"signal"} \cup {"check"} = {"signal", "check"}
        OBVIOUS
      <3> QED BY <3>1, <3>2
    <2>3. IsFiniteSet({"signal", "check", "flatten"})
      <3>1. IsFiniteSet({"signal", "check"} \cup {"flatten"})
        BY <2>2, FS_AddElement
      <3>2. {"signal", "check"} \cup {"flatten"} = {"signal", "check", "flatten"}
        OBVIOUS
      <3> QED BY <3>1, <3>2
    <2>4. IsFiniteSet({"signal", "check", "flatten"} \cup {"other"})
      BY <2>3, FS_AddElement
    <2>5. {"signal", "check", "flatten"} \cup {"other"} = {"signal", "check", "flatten", "other"}
      OBVIOUS
    <2> QED BY <2>4, <2>5
  <1>2. Unanswered \subseteq Placers
    BY DEF Unanswered
  <1> QED BY <1>1, <1>2, HandlerNames, FS_Subset, FS_CardinalityType

(* What a placing changes of the history.                                   *)
LEMMA SendsEffects ==
    ASSUME TypeInv, NEW entries \in Nat, NEW slipped \in Nat, Sends(entries, slipped)
    PROVE  /\ hist' \in History
           /\ hist'.sent = hist.sent + 1
           /\ hist'.waiting >= hist.waiting /\ hist'.waiting >= Cardinality(Unanswered)
           /\ hist'.entries = hist.entries + entries
           /\ hist'.slipped = hist.slipped + slipped
           /\ hist'.owed = hist.owed /\ hist'.missed = hist.missed
           /\ hist'.cleared = hist.cleared /\ hist'.forgotten = hist.forgotten
           /\ hist'.uncounted = hist.uncounted
  <1>1. hist \in History
    BY DEF TypeInv
  <1>2. PICK n \in Nat : n = Cardinality(Unanswered)
    BY UnansweredIsFinite
  <1>3. PICK w \in Nat : w = Most(hist.waiting, n) /\ w >= hist.waiting /\ w >= n
    BY <1>1, <1>2 DEF Most, History
  <1>4. PICK a : a = [hist EXCEPT !.sent = @ + 1]
    OBVIOUS
  <1>5. a \in History /\ a.sent = hist.sent + 1 /\ a.entries = hist.entries
        /\ a.slipped = hist.slipped /\ a.owed = hist.owed /\ a.missed = hist.missed
        /\ a.cleared = hist.cleared /\ a.forgotten = hist.forgotten
        /\ a.uncounted = hist.uncounted /\ a.waiting = hist.waiting
    BY <1>1, <1>4 DEF History
  <1>6. PICK b : b = [a EXCEPT !.waiting = w]
    OBVIOUS
  <1>7. b \in History /\ b.sent = a.sent /\ b.entries = a.entries
        /\ b.slipped = a.slipped /\ b.owed = a.owed /\ b.missed = a.missed
        /\ b.cleared = a.cleared /\ b.forgotten = a.forgotten
        /\ b.uncounted = a.uncounted /\ b.waiting = w
    BY <1>5, <1>6 DEF History
  <1>8. PICK c : c = [b EXCEPT !.entries = @ + entries]
    OBVIOUS
  <1>9. c \in History /\ c.sent = b.sent /\ c.entries = b.entries + entries
        /\ c.slipped = b.slipped /\ c.owed = b.owed /\ c.missed = b.missed
        /\ c.cleared = b.cleared /\ c.forgotten = b.forgotten
        /\ c.uncounted = b.uncounted /\ c.waiting = b.waiting
    BY <1>7, <1>8 DEF History
  <1>10. hist' = [c EXCEPT !.slipped = @ + slipped]
    BY <1>2, <1>3, <1>4, <1>6, <1>8 DEF Sends
  <1>11. hist' \in History /\ hist'.sent = c.sent /\ hist'.entries = c.entries
        /\ hist'.slipped = c.slipped + slipped /\ hist'.owed = c.owed
        /\ hist'.missed = c.missed /\ hist'.cleared = c.cleared
        /\ hist'.forgotten = c.forgotten /\ hist'.uncounted = c.uncounted
        /\ hist'.waiting = c.waiting
    BY <1>9, <1>10 DEF History
  <1> QED BY <1>2, <1>3, <1>5, <1>7, <1>9, <1>11

(* The answer of the broker, whoever placed the order.                      *)
LEMMA AnsweredEffects ==
    ASSUME TypeInv, NEW p \in Placers, Answered(p)
    PROVE  /\ HandlersInv' /\ mem' \in Memory
           /\ OthersStay(p) /\ Pc(p) = "count" /\ Pc(p)' = "write" /\ Runs(p) /\ Runs(p)'
           /\ h'[p].n = mem.orders + 1 /\ h'[p].t = h[p].t
           /\ mem.up /\ mem'.up = mem.up /\ mem'.kill = mem.kill /\ mem'.halted = mem.halted
           /\ mem'.trades = mem.trades /\ mem'.active = mem.active
           /\ mem'.orders = mem.orders + 1
           /\ UNCHANGED <<setup, faults, moves, late, day, saved, snaps, trade, rows, asked, hist>>
  <1>1. /\ HandlersInv /\ rows \in Nat /\ mem \in Memory
        /\ p \in Handlers /\ "write" \in PcsOf[p]
    BY HandlerNames, PcsOfEach DEF TypeInv
  <1>2. /\ mem' \in Memory /\ mem'.up = mem.up /\ mem'.kill = mem.kill
        /\ mem'.halted = mem.halted /\ mem'.trades = mem.trades /\ mem'.active = mem.active
        /\ mem'.orders = mem.orders + 1 /\ mem.orders + 1 \in Int
    BY <1>1 DEF Answered, Memory
  <1>3. UNCHANGED <<setup, faults, moves, late, day, saved, snaps, trade, rows, asked, hist>>
    BY DEF Answered, db
  <1>4. Pc(p) = "count" /\ mem.up /\ GoesWith(p, "write", mem.orders + 1)
    BY DEF Answered, At, Pc
  <1>5. /\ HandlersInv' /\ OthersStay(p) /\ Pc(p)' = "write"
        /\ h'[p].n = mem.orders + 1 /\ h'[p].t = h[p].t
    BY <1>1, <1>2, <1>3, <1>4, GoesWithStep
  <1> QED BY <1>2, <1>3, <1>4, <1>5 DEF Runs

LEMMA AnsweredType ==
    ASSUME TypeInv, NEW p \in Placers, Answered(p)
    PROVE  TypeInv'
  <1>1. day \in Day /\ saved \in BOOLEAN /\ snaps \subseteq BOOLEAN /\ trade \in Trade
        /\ rows \in Nat /\ asked \in 0 .. Len(setup.admin) /\ hist \in History
    BY DEF TypeInv
  <1> QED BY <1>1, AnsweredEffects, TypeOfStep

(* An order that failed to who placed it, although the broker has it.       *)
LEMMA ForgottenType ==
    ASSUME TypeInv, NEW p \in Handlers
    PROVE  /\ Forgotten(p) \in Int
           /\ Forgotten(p) = hist.forgotten + IF Pc(p) = "count" THEN 1 ELSE 0
  BY DEF TypeInv, History, Forgotten, Pc

LEMMA ForgetsEffects ==
    ASSUME TypeInv, NEW n \in Int, hist' = [hist EXCEPT !.forgotten = n]
    PROVE  /\ hist' \in History /\ hist'.forgotten = n
           /\ hist'.sent = hist.sent /\ hist'.waiting = hist.waiting
           /\ hist'.entries = hist.entries /\ hist'.uncounted = hist.uncounted
           /\ hist'.slipped = hist.slipped /\ hist'.cleared = hist.cleared
           /\ hist'.owed = hist.owed /\ hist'.missed = hist.missed
  BY DEF TypeInv, History

LEMMA LosesEffects ==
    ASSUME TypeInv, SignalLoses
    PROVE  /\ hist' \in History /\ hist'.forgotten = Forgotten("signal")
           /\ hist'.sent = hist.sent /\ hist'.waiting = hist.waiting
           /\ hist'.entries = hist.entries /\ hist'.uncounted = hist.uncounted + 1
           /\ hist'.slipped = hist.slipped /\ hist'.cleared = hist.cleared
           /\ hist'.owed = hist.owed /\ hist'.missed = TRUE
           /\ trade' \in Trade /\ trade'.st = "CLOSED" /\ ~trade'.entry /\ trade'.units = 0
           /\ trade'.qty = trade.qty /\ trade'.pnl = trade.pnl /\ trade'.exit = trade.exit
           /\ trade'.due = trade.due
  <1>1. hist \in History /\ trade \in Trade /\ Forgotten("signal") \in Int
    BY HandlerNames, ForgottenType DEF TypeInv
  <1>2. PICK n \in Int : n = Forgotten("signal")
    BY <1>1
  <1>3. PICK a : a = [hist EXCEPT !.missed = TRUE]
    OBVIOUS
  <1>4. a \in History /\ a.sent = hist.sent /\ a.entries = hist.entries
        /\ a.slipped = hist.slipped /\ a.owed = hist.owed /\ a.missed = TRUE
        /\ a.cleared = hist.cleared /\ a.uncounted = hist.uncounted
        /\ a.waiting = hist.waiting
    BY <1>1, <1>3 DEF History
  <1>5. PICK b : b = [a EXCEPT !.forgotten = n]
    OBVIOUS
  <1>6. b \in History /\ b.sent = a.sent /\ b.entries = a.entries
        /\ b.slipped = a.slipped /\ b.owed = a.owed /\ b.missed = a.missed
        /\ b.cleared = a.cleared /\ b.forgotten = n /\ b.uncounted = a.uncounted
        /\ b.waiting = a.waiting
    BY <1>4, <1>5 DEF History
  <1>7. hist' = [b EXCEPT !.uncounted = @ + 1]
    BY <1>2, <1>3, <1>5 DEF SignalLoses
  <1>8. hist' \in History /\ hist'.sent = b.sent /\ hist'.entries = b.entries
        /\ hist'.slipped = b.slipped /\ hist'.owed = b.owed /\ hist'.missed = b.missed
        /\ hist'.cleared = b.cleared /\ hist'.forgotten = b.forgotten
        /\ hist'.uncounted = b.uncounted + 1 /\ hist'.waiting = b.waiting
    BY <1>6, <1>7 DEF History
  <1>9. PICK t : t = [trade EXCEPT !.st = "CLOSED", !.entry = FALSE]
    OBVIOUS
  <1>10. t \in Trade /\ t.st = "CLOSED" /\ ~t.entry /\ t.qty = trade.qty
         /\ t.pnl = trade.pnl /\ t.exit = trade.exit /\ t.due = trade.due
    BY <1>1, <1>9 DEF Trade, Statuses
  <1>11. trade' = [t EXCEPT !.units = 0]
    BY <1>9 DEF SignalLoses
  <1>12. trade' \in Trade /\ trade'.st = t.st /\ trade'.entry = t.entry /\ trade'.units = 0
         /\ trade'.qty = t.qty /\ trade'.pnl = t.pnl /\ trade'.exit = t.exit
         /\ trade'.due = t.due
    BY <1>10, <1>11 DEF Trade
  <1> QED BY <1>2, <1>4, <1>6, <1>8, <1>10, <1>12

LEMMA InitType == Init => TypeInv
  <1> SUFFICES ASSUME Init PROVE TypeInv
    OBVIOUS
  <1>1. HandlersInv
    BY IdleIsHandler DEF Init, HandlersInv, Runs, Pc
  <1>2. day \in Day
    BY DEF Init, Day, Days
  <1>8. saved \in BOOLEAN /\ snaps \subseteq BOOLEAN
    BY DEF Init
  <1>6. mem \in Memory
    BY DEF Init, Memory
  <1>7. hist \in History
    BY DEF Init, History
  <1>3. trade \in Trade
    BY DayAssumption DEF Init, NoTrade, Trade, Statuses
  <1>4. rows \in Nat /\ asked \in 0 .. Len(setup.admin) /\ setup \in DaySetups
    BY SetupType, AdminCalls DEF Init
  <1>5. mem.up
    BY DEF Init
  <1> QED BY <1>1, <1>2, <1>3, <1>4, <1>5, <1>6, <1>7, <1>8 DEF TypeInv

LEMMA SignalType ==
    ASSUME TypeInv, Signal
    PROVE  TypeInv'
  <1>1. /\ HandlersInv /\ rows \in Nat /\ day \in Day /\ mem \in Memory /\ trade \in Trade
        /\ hist \in History /\ snaps \subseteq BOOLEAN
        /\ \A p \in Handlers : h[p] \in Handler
    BY DEF TypeInv, HandlersInv
  <1>2. "signal" \in Handlers /\ PcsOf["signal"] = {"gate", "insert", "place", "count", "write", "link"}
    BY HandlerNames, PcsOfEach
  <1>3. CASE SignalReads
    <2>1. HandlersInv'
      <3>1. PICK s \in Days : s = day.state
        BY <1>1 DEF Day
      <3>2. h' = [h EXCEPT !["signal"] = [Idle EXCEPT !.pc = "gate", !.s = s]] /\ rows' = rows
        BY <1>3, <3>1 DEF SignalReads
      <3> QED BY <1>1, <1>2, <3>2, ReadsStep
    <2> QED BY <1>1, <1>3, <2>1, TypeOfStep DEF SignalReads, TypeInv, db, At
  <1>4. CASE SignalGate
    <2>1. HandlersInv'
      BY <1>1, <1>2, <1>4, GoesStep, ReturnsStep DEF SignalGate
    <2> QED BY <1>1, <1>4, <2>1, TypeOfStep DEF SignalGate, TypeInv, db, At
  <1>5. CASE SignalInserts
    <2>1. HandlersInv'
      BY <1>1, <1>2, <1>5, GoesStep DEF SignalInserts
    <2>2. trade' \in Trade /\ rows' \in Nat
      <3>1. setup.qty \in 0 .. 2
        BY SetupType DEF TypeInv
      <3>2. NoTrade \in Trade
        BY DayAssumption DEF NoTrade, Trade, Statuses
      <3>3. PICK t : t = [NoTrade EXCEPT !.st = "ENTRY_PLACED"]
        OBVIOUS
      <3>4. t \in Trade
        BY <3>2, <3>3 DEF Trade, Statuses
      <3>5. trade' = [t EXCEPT !.qty = setup.qty] /\ rows' = rows + 1
        BY <1>5, <3>3 DEF SignalInserts
      <3> QED BY <1>1, <3>1, <3>4, <3>5 DEF Trade
    <2> QED BY <1>1, <1>5, <2>1, <2>2, TypeOfStep DEF SignalInserts, TypeInv, db, At
  <1>6. CASE SignalPlaces
    <2>1. HandlersInv'
      BY <1>1, <1>2, <1>6, GoesStep DEF SignalPlaces
    <2>2. trade' \in Trade
      BY <1>1, <1>6 DEF SignalPlaces, Trade
    <2>3. hist' \in History
      <3>1. PICK n \in Nat : n = IF KillInForce THEN 1 ELSE 0
        OBVIOUS
      <3> QED BY <1>6, <3>1, SendsEffects DEF SignalPlaces
    <2> QED BY <1>1, <1>6, <2>1, <2>2, <2>3, TypeOfStep DEF SignalPlaces, TypeInv, db, At
  <1>7. CASE SignalFails
    <2>1. HandlersInv'
      BY <1>1, <1>2, <1>7, ReturnsStep DEF SignalFails
    <2>2. trade' \in Trade
      BY <1>1, <1>2, <1>7 DEF SignalFails, Trade, Statuses
    <2> QED BY <1>1, <1>7, <2>1, <2>2, TypeOfStep DEF SignalFails, TypeInv, db, At
  <1>8. CASE Answered("signal")
    BY <1>8, HandlerNames, AnsweredType
  <1>9. CASE SignalCounted
    <2>1. HandlersInv'
      BY <1>1, <1>2, <1>9, GoesStep DEF SignalCounted
    <2>2. day' \in Day
      BY <1>1, <1>2, <1>9 DEF SignalCounted, WritesCount, Day, Handler
    <2> QED BY <1>1, <1>9, <2>1, <2>2, TypeOfStep DEF SignalCounted, WritesCount, TypeInv, db, At
  <1>10. CASE SignalLinks
    <2>1. HandlersInv'
      BY <1>1, <1>2, <1>10, ReturnsStep DEF SignalLinks
    <2>2. trade' \in Trade
      BY <1>1, <1>10 DEF SignalLinks, Trade, Statuses
    <2>3. mem' \in Memory /\ mem'.up = mem.up /\ mem.kill \in BOOLEAN
      <3>1. PICK m : m = [mem EXCEPT !.active = TRUE]
        OBVIOUS
      <3>2. m \in Memory /\ m.trades = mem.trades /\ m.up = mem.up /\ mem.kill \in BOOLEAN
        BY <1>1, <3>1 DEF Memory
      <3>3. mem' = [m EXCEPT !.trades = @ + 1]
        BY <1>10, <3>1 DEF SignalLinks
      <3> QED BY <3>2, <3>3 DEF Memory
    <2>4. snaps' \subseteq BOOLEAN
      BY <1>1, <1>10, <2>3, EmitsType DEF SignalLinks
    <2> QED BY <1>1, <1>10, <2>1, <2>2, <2>3, <2>4, TypeOfStep DEF SignalLinks, TypeInv, db, At
  <1>11. CASE SignalLoses
    <2>1. HandlersInv'
      BY <1>1, <1>2, <1>11, ReturnsStep DEF SignalLoses
    <2>2. mem.up
      BY <1>11 DEF SignalLoses, CallFails, At
    <2> QED BY <1>1, <1>11, <2>1, <2>2, LosesEffects, TypeOfStep DEF SignalLoses, TypeInv, db
  <1> QED BY <1>3, <1>4, <1>5, <1>6, <1>7, <1>8, <1>9, <1>10, <1>11 DEF Signal, SignalGoesOn

LEMMA CheckType ==
    ASSUME TypeInv, NEW p \in Checks, CheckGoesOn(p)
    PROVE  TypeInv'
  <1>1. /\ HandlersInv /\ rows \in Nat /\ day \in Day /\ mem \in Memory /\ trade \in Trade
        /\ hist \in History /\ snaps \subseteq BOOLEAN
        /\ \A q \in Handlers : h[q] \in Handler
    BY DEF TypeInv, HandlersInv
  <1>2. p \in Handlers /\ PcsOf[p] = {"day", "state", "kill", "exit", "count", "write"}
    BY HandlerNames, PcsOfEach DEF CheckPcs
  <1>3. CASE WritesKill(p)
    <2>1. HandlersInv'
      BY <1>1, <1>2, <1>3, GoesStep, ReturnsStep DEF WritesKill
    <2>2. day' \in Day
      BY <1>1, <1>2, <1>3 DEF WritesKill, Day
    <2> QED BY <1>1, <1>3, <2>1, <2>2, TypeOfStep DEF WritesKill, TypeInv, db, At
  <1>4. CASE Exits(p)
    <2>1. HandlersInv'
      BY <1>1, <1>2, <1>4, GoesStep DEF Exits
    <2>2. trade' \in Trade
      <3>1. PICK b \in BOOLEAN : b = (trade.exit \/ (h[p].t = rows /\ Held))
        OBVIOUS
      <3>2. trade' = [trade EXCEPT !.exit = b]
        BY <1>4, <3>1 DEF Exits
      <3> QED BY <1>1, <3>2 DEF Trade
    <2>3. hist' \in History
      BY <1>4, SendsEffects DEF Exits
    <2> QED BY <1>1, <1>4, <2>1, <2>2, <2>3, TypeOfStep DEF Exits, TypeInv, db, At
  <1>5. CASE ExitIsRefused(p)
    <2>1. HandlersInv'
      BY <1>1, <1>2, <1>5, ReturnsStep DEF ExitIsRefused
    <2> QED BY <1>1, <1>5, <2>1, TypeOfStep DEF ExitIsRefused, TypeInv, db, At
  <1>6. CASE ExitFindsNothing(p)
    <2>1. HandlersInv'
      BY <1>1, <1>2, <1>6, ReturnsStep DEF ExitFindsNothing
    <2>2. trade' \in Trade /\ mem' \in Memory /\ mem'.up = mem.up /\ snaps' \subseteq BOOLEAN
      BY <1>1, <1>2, <1>6, EmitsType DEF ExitFindsNothing, Trade, Memory, Statuses
    <2>3. hist' \in History
      <3>1. PICK b \in BOOLEAN : b = (hist.missed \/ trade.due)
        OBVIOUS
      <3>2. hist' = [hist EXCEPT !.missed = b]
        BY <1>6, <3>1 DEF ExitFindsNothing
      <3> QED BY <1>1, <3>2 DEF History
    <2> QED BY <1>1, <1>6, <2>1, <2>2, <2>3, TypeOfStep DEF ExitFindsNothing, TypeInv, db, At
  <1>7. CASE Answered(p)
    BY <1>7, HandlerNames, AnsweredType
  <1>9. CASE ExitFails(p)
    <2>1. HandlersInv'
      BY <1>1, <1>2, <1>9, ReturnsStep, AgainStep DEF ExitFails
    <2>2. hist' \in History
      BY <1>2, <1>9, ForgottenType, ForgetsEffects DEF ExitFails
    <2>3. mem.up
      BY <1>9 DEF ExitFails, CallFails, At
    <2> QED BY <1>1, <1>9, <2>1, <2>2, <2>3, TypeOfStep DEF ExitFails, TypeInv, db
  <1>8. CASE ExitCounted(p)
    <2>1. HandlersInv'
      BY <1>1, <1>2, <1>8, ReturnsStep DEF ExitCounted
    <2>2. trade' \in Trade
      <3>1. PICK t : t = [trade EXCEPT !.panic = TRUE]
        OBVIOUS
      <3>2. t \in Trade /\ t.st = trade.st
        BY <1>1, <3>1 DEF Trade
      <3>3. PICK st \in Statuses :
                st = IF trade.st \in {"LIVE", "SL_CONFIRMED"} THEN "PANIC_EXIT_PLACED" ELSE trade.st
        BY <1>1 DEF Trade, Statuses
      <3>4. trade' \in {trade, [t EXCEPT !.st = st]}
        BY <1>8, <3>1, <3>2, <3>3 DEF ExitCounted
      <3> QED BY <1>1, <3>2, <3>3, <3>4 DEF Trade
    <2>3. day' \in Day
      BY <1>1, <1>2, <1>8 DEF ExitCounted, WritesCount, Day, Handler
    <2> QED BY <1>1, <1>8, <2>1, <2>2, <2>3, TypeOfStep DEF ExitCounted, WritesCount, TypeInv, db, At
  <1> QED BY <1>3, <1>4, <1>5, <1>6, <1>7, <1>8, <1>9 DEF CheckGoesOn

LEMMA LookingType ==
    ASSUME TypeInv, Looking
    PROVE  TypeInv'
  <1>1. /\ HandlersInv /\ rows \in Nat /\ day \in Day /\ mem \in Memory /\ trade \in Trade
        /\ hist \in History /\ snaps \subseteq BOOLEAN
        /\ \A p \in Handlers : h[p] \in Handler
    BY DEF TypeInv, HandlersInv
  <1>2. /\ Checks \subseteq Handlers /\ "check" \in Handlers /\ "flatten" \in Handlers
        /\ \A p \in Checks : PcsOf[p] = {"day", "state", "kill", "exit", "count", "write"}
    BY HandlerNames, PcsOfEach DEF CheckPcs
  <1>3. CASE CheckBegins
    <2>1. HandlersInv'
      <3>1. "check" \in Handlers /\ "day" \in PcsOf["check"]
        BY <1>2, HandlerNames
      <3> QED BY <1>1, <1>3, <3>1, BeginsStep, Amounts DEF CheckBegins
    <2> QED BY <1>1, <1>3, <2>1, TypeOfStep DEF CheckBegins, TypeInv, db, At
  <1>4. CASE FlattenBegins
    <2>1. HandlersInv'
      <3>1. "flatten" \in Handlers /\ "kill" \in PcsOf["flatten"]
        BY <1>2, HandlerNames
      <3> QED BY <1>1, <1>4, <3>1, BeginsStep DEF FlattenBegins
    <2>2. mem' \in Memory /\ mem'.up = mem.up /\ snaps' \subseteq BOOLEAN /\ hist' \in History
      BY <1>1, <1>2, <1>4, SetsType DEF FlattenBegins, History
    <2> QED BY <1>1, <1>4, <2>1, <2>2, TypeOfStep DEF FlattenBegins, TypeInv, db, At
  <1>5. CASE CheckReadsDay
    <2>1. HandlersInv'
      <3>1. CASE Returns("check")
        BY <1>1, <1>2, <1>5, <3>1, ReturnsStep DEF CheckReadsDay
      <3>2. ASSUME NEW s \in Days, h' = [h EXCEPT !["check"].pc = "state", !["check"].s = s]
            PROVE  HandlersInv'
        <4>1. h' = [h EXCEPT !["check"] = [h["check"] EXCEPT !.pc = "state", !.s = s]]
          BY <3>2
        <4>2. rows' = rows
          BY <1>5 DEF CheckReadsDay
        <4>3. "check" \in Handlers /\ "state" \in PcsOf["check"]
          BY <1>2, HandlerNames
        <4> QED BY <1>1, <4>1, <4>2, <4>3, ReadsStep
      <3>3. \A total : StateOf(total) \in Days
        BY DEF StateOf, Days
      <3> QED BY <1>5, <3>1, <3>2, <3>3 DEF CheckReadsDay
    <2> QED BY <1>1, <1>5, <2>1, TypeOfStep DEF CheckReadsDay, TypeInv, db, At
  <1>6. CASE CheckWritesState
    <2>1. HandlersInv'
      <3>1. Goes("check", "kill") \/ Returns("check")
        BY <1>6 DEF CheckWritesState
      <3>2. rows' = rows /\ rows <= rows'
        BY <1>1, <1>6 DEF CheckWritesState
      <3>3. "check" \in Handlers /\ "kill" \in PcsOf["check"]
        BY <1>2, HandlerNames
      <3> QED BY <1>1, <3>1, <3>2, <3>3, GoesStep, ReturnsStep
    <2>2. day' \in Day /\ mem' \in Memory /\ mem'.up = mem.up /\ snaps' \subseteq BOOLEAN /\ hist' \in History
      BY <1>1, <1>2, <1>6, SetsType DEF CheckWritesState, Day, Handler, History
    <2> QED BY <1>1, <1>6, <2>1, <2>2, TypeOfStep DEF CheckWritesState, TypeInv, db, At
  <1>7. ASSUME NEW p \in Checks, CheckThrows(p) PROVE TypeInv'
    <2>1. HandlersInv'
      BY <1>1, <1>2, <1>7, ReturnsStep DEF CheckThrows, Throws
    <2> QED BY <1>1, <1>7, <2>1, TypeOfStep DEF CheckThrows, Throws, TypeInv, db
  <1>8. ASSUME NEW p \in Checks, CheckGoesOn(p) PROVE TypeInv'
    BY <1>8, CheckType
  <1> QED BY <1>3, <1>4, <1>5, <1>6, <1>7, <1>8 DEF Looking, DayStep

LEMMA BookingType ==
    ASSUME TypeInv, Booking
    PROVE  TypeInv'
  <1>1. /\ HandlersInv /\ rows \in Nat /\ day \in Day /\ mem \in Memory /\ trade \in Trade
        /\ hist \in History /\ snaps \subseteq BOOLEAN
        /\ \A p \in Handlers : h[p] \in Handler
    BY DEF TypeInv, HandlersInv
  <1>2. /\ "close" \in Handlers /\ PcsOf["close"] = {"read", "book", "booked", "double"}
        /\ "partial" \in Handlers /\ PcsOf["partial"] = {"read", "book", "booked", "qty"}
    BY HandlerNames, PcsOfEach
  <1>3. ASSUME NEW p \in {"close", "partial"}, BookReads(p) PROVE TypeInv'
    <2>1. HandlersInv'
      <3>1. day.realized + h[p].n \in Int
        BY <1>1, <1>2, <1>3 DEF Day, Handler
      <3> QED BY <1>1, <1>2, <1>3, <3>1, GoesWithStep DEF BookReads
    <2> QED BY <1>1, <1>3, <2>1, TypeOfStep DEF BookReads, TypeInv, db, At
  <1>4. ASSUME NEW p \in {"close", "partial"}, BookWrites(p) PROVE TypeInv'
    <2>1. HandlersInv'
      BY <1>1, <1>2, <1>4, GoesStep DEF BookWrites
    <2>2. day' \in Day
      BY <1>1, <1>2, <1>4 DEF BookWrites, Day, Handler
    <2> QED BY <1>1, <1>4, <2>1, <2>2, TypeOfStep DEF BookWrites, TypeInv, db, At
  <1>5. ASSUME NEW p \in {"close", "partial"}, BookFails(p) PROVE TypeInv'
    <2>1. HandlersInv'
      BY <1>1, <1>2, <1>5, GoesStep, ReturnsStep DEF BookFails
    <2>2. hist' \in History
      BY <1>1, <1>2, <1>5 DEF BookFails, History
    <2> QED BY <1>1, <1>5, <2>1, <2>2, TypeOfStep DEF BookFails, TypeInv, db, At
  <1>6. CASE CloseBegins
    <2>1. HandlersInv'
      BY <1>1, <1>2, <1>6, BeginsStep, Amounts DEF CloseBegins
    <2>2. trade' \in Trade
      BY <1>1, <1>2, <1>6 DEF CloseBegins, Trade, Statuses
    <2> QED BY <1>1, <1>6, <2>1, <2>2, TypeOfStep DEF CloseBegins, TypeInv, db, At
  <1>7. CASE Finalize
    <2>1. HandlersInv'
      BY <1>1, <1>2, <1>7, ReturnsStep DEF Finalize
    <2>2. mem' \in Memory /\ mem'.up = mem.up /\ snaps' \subseteq BOOLEAN
      BY <1>1, <1>2, <1>7, EmitsType DEF Finalize, Memory
    <2> QED BY <1>1, <1>7, <2>1, <2>2, TypeOfStep DEF Finalize, TypeInv, db, At
  <1>8. CASE PartialBegins
    <2>1. HandlersInv'
      BY <1>1, <1>2, <1>8, BeginsStep, Amounts DEF PartialBegins
    <2>2. trade' \in Trade
      BY <1>1, <1>8 DEF PartialBegins, Trade
    <2>3. hist' \in History
      BY <1>1, <1>8, Amounts DEF PartialBegins, History
    <2> QED BY <1>1, <1>8, <2>1, <2>2, <2>3, TypeOfStep DEF PartialBegins, TypeInv, db, At
  <1>9. CASE PartialWritesState
    <2>1. HandlersInv'
      BY <1>1, <1>2, <1>9, GoesStep DEF PartialWritesState
    <2>2. day' \in Day
      BY <1>1, <1>2, <1>9 DEF PartialWritesState, Day, StateOf, Days
    <2> QED BY <1>1, <1>9, <2>1, <2>2, TypeOfStep DEF PartialWritesState, TypeInv, db, At
  <1>10. CASE PartialWritesQty
    <2>1. HandlersInv'
      BY <1>1, <1>2, <1>10, ReturnsStep DEF PartialWritesQty
    <2>2. trade' \in Trade
      BY <1>1, <1>2, <1>10 DEF PartialWritesQty, Trade
    <2> QED BY <1>1, <1>10, <2>1, <2>2, TypeOfStep DEF PartialWritesQty, TypeInv, db, At
  <1>11. CASE UpdateIsDropped \/ DoubleExit
    <2>1. trade' \in Trade /\ mem.up
      BY <1>1, <1>11 DEF UpdateIsDropped, DoubleExit, CloseIsLate, Trade
    <2>2. CASE UpdateIsDropped
      <3>1. HandlersInv'
        BY <1>1, <2>2 DEF UpdateIsDropped, HandlersInv, Runs, Pc
      <3> QED BY <1>1, <2>1, <2>2, <3>1, TypeOfStep DEF UpdateIsDropped, TypeInv, db
    <2>3. CASE DoubleExit
      <3>1. HandlersInv'
        BY <1>1, <1>2, <2>3, BeginsStep DEF DoubleExit
      <3>2. /\ mem' \in Memory /\ mem'.up = mem.up /\ snaps' \subseteq BOOLEAN
            /\ hist' \in History
        BY <1>1, <2>3, SetsType DEF DoubleExit, History
      <3> QED BY <1>1, <2>1, <2>3, <3>1, <3>2, TypeOfStep DEF DoubleExit, TypeInv, db
    <2> QED BY <1>11, <2>2, <2>3
  <1>12. CASE DoubleExitHalts
    <2>1. HandlersInv'
      BY <1>1, <1>2, <1>12, ReturnsStep DEF DoubleExitHalts
    <2>2. day' \in Day /\ mem' \in Memory /\ mem'.up = mem.up
      BY <1>1, <1>12 DEF DoubleExitHalts, Day, Memory
    <2> QED BY <1>1, <1>12, <2>1, <2>2, TypeOfStep DEF DoubleExitHalts, TypeInv, db, At
  <1>13. CASE DoubleExitThrows
    <2>1. HandlersInv'
      BY <1>1, <1>2, <1>13, ReturnsStep DEF DoubleExitThrows, Throws
    <2> QED BY <1>1, <1>13, <2>1, TypeOfStep DEF DoubleExitThrows, Throws, TypeInv, db, At
  <1> QED BY <1>3, <1>4, <1>5, <1>6, <1>7, <1>8, <1>9, <1>10, <1>11, <1>12, <1>13 DEF Booking

LEMMA BetweenType ==
    ASSUME TypeInv, World \/ Between
    PROVE  TypeInv'
  <1>1. /\ HandlersInv /\ rows \in Nat /\ day \in Day /\ mem \in Memory /\ trade \in Trade
        /\ hist \in History /\ snaps \subseteq BOOLEAN
        /\ \A p \in Handlers : h[p] \in Handler
    BY DEF TypeInv, HandlersInv
  <1>3. CASE PriceMoves
    <2>1. HandlersInv'
      BY <1>1, <1>3 DEF PriceMoves, HandlersInv, Runs, Pc
    <2>2. trade' \in Trade
      BY <1>1, <1>3 DEF PriceMoves, Trade
    <2> QED BY <1>1, <1>3, <2>1, <2>2, TypeOfStep DEF PriceMoves, TypeInv, db, At
  <1>4. CASE EntryFills
    <2>1. HandlersInv'
      BY <1>1, <1>4 DEF EntryFills, HandlersInv, Runs, Pc
    <2>2. trade' \in Trade
      BY <1>1, <1>4 DEF EntryFills, Trade
    <2> QED BY <1>1, <1>4, <2>1, <2>2, TypeOfStep DEF EntryFills, TypeInv, db, At
  <1>5. CASE ExitFills
    <2>1. HandlersInv'
      BY <1>1, <1>5 DEF ExitFills, HandlersInv, Runs, Pc
    <2>2. trade' \in Trade
      <3>1. PICK t : t = [trade EXCEPT !.units = 0]
        OBVIOUS
      <3>2. t \in Trade
        BY <1>1, <3>1 DEF Trade
      <3>3. trade' = [t EXCEPT !.due = TRUE]
        BY <1>5, <3>1 DEF ExitFills
      <3> QED BY <3>2, <3>3 DEF Trade
    <2>3. hist' \in History
      BY <1>1, <1>5, Amounts DEF ExitFills, History
    <2> QED BY <1>1, <1>5, <2>1, <2>2, <2>3, TypeOfStep DEF ExitFills, TypeInv, db, At
  <1>6. CASE DayEnds
    <2>1. HandlersInv'
      BY <1>1, <1>6 DEF DayEnds, HandlersInv, Runs, Pc
    <2> QED BY <1>1, <1>6, <2>1, TypeOfStep DEF DayEnds, TypeInv, db, At
  <1>7. CASE SnapshotLands
    <2>1. HandlersInv'
      BY <1>1, <1>7 DEF SnapshotLands, HandlersInv, Runs, Pc
    <2>2. snaps' \subseteq BOOLEAN /\ saved' \in BOOLEAN
      BY <1>1, <1>7 DEF SnapshotLands
    <2> QED BY <1>1, <1>7, <2>1, <2>2, TypeOfStep DEF SnapshotLands, TypeInv, db, At
  <1>8. CASE KillsInMemory
    <2>1. HandlersInv'
      BY <1>1, <1>8 DEF KillsInMemory, HandlersInv, Runs, Pc
    <2>2. mem' \in Memory /\ mem'.up = mem.up /\ snaps' \subseteq BOOLEAN
      BY <1>1, <1>8, SetsType DEF KillsInMemory
    <2> QED BY <1>1, <1>8, <2>1, <2>2, TypeOfStep DEF KillsInMemory, TypeInv, db, At
  <1>9. CASE Protects
    <2>1. HandlersInv'
      BY <1>1, <1>9 DEF Protects, HandlersInv, Runs, Pc
    <2>2. trade' \in Trade
      BY <1>1, <1>9 DEF Protects, Trade, Statuses
    <2> QED BY <1>1, <1>9, <2>1, <2>2, TypeOfStep DEF Protects, TypeInv, db, At
  <1>10. CASE SlaConfirms
    <2>1. HandlersInv'
      BY <1>1, <1>10 DEF SlaConfirms, HandlersInv, Runs, Pc
    <2>2. trade' \in Trade
      BY <1>1, <1>10 DEF SlaConfirms, Trade, Statuses
    <2> QED BY <1>1, <1>10, <2>1, <2>2, TypeOfStep DEF SlaConfirms, TypeInv, db, At
  <1>11. CASE Recovers
    <2>1. HandlersInv'
      BY <1>1, <1>11 DEF Recovers, HandlersInv, Runs, Pc
    <2>2. trade' \in Trade
      <3>1. PICK t : t = [trade EXCEPT !.st = IF Held THEN "LIVE" ELSE "CLOSED"]
        OBVIOUS
      <3>2. t \in Trade
        BY <1>1, <3>1 DEF Trade, Statuses
      <3>3. trade' = [t EXCEPT !.entry = FALSE]
        BY <1>11, <3>1 DEF Recovers
      <3> QED BY <3>2, <3>3 DEF Trade
    <2>3. mem' \in Memory /\ mem'.up = mem.up
      <3>1. mem \in Memory /\ mem' = [mem EXCEPT !.active = Held] /\ Held \in BOOLEAN
        BY <1>1, <1>11 DEF Recovers, Held
      <3> QED BY <3>1 DEF Memory
    <2>4. hist' \in History
      <3>1. PICK b \in BOOLEAN : b = (hist.missed \/ trade.entry)
        OBVIOUS
      <3>2. hist' = [hist EXCEPT !.missed = b]
        BY <1>11, <3>1 DEF Recovers
      <3> QED BY <1>1, <3>2 DEF History
    <2> QED BY <1>1, <1>11, <2>1, <2>2, <2>3, <2>4, TypeOfStep DEF Recovers, TypeInv, db, At
  <1>12. "other" \in Handlers /\ "other" \in Placers /\ PcsOf["other"] = {"count", "write"}
    BY HandlerNames, PcsOfEach
  <1>13. CASE OtherPlaces
    <2>1. HandlersInv'
      BY <1>1, <1>12, <1>13, BeginsStep DEF OtherPlaces
    <2>2. hist' \in History
      BY <1>13, SendsEffects DEF OtherPlaces
    <2> QED BY <1>1, <1>13, <2>1, <2>2, TypeOfStep DEF OtherPlaces, TypeInv, db
  <1>14. CASE OtherCounted
    <2>1. HandlersInv'
      BY <1>1, <1>12, <1>14, ReturnsStep DEF OtherCounted
    <2>2. day' \in Day
      BY <1>1, <1>12, <1>14 DEF OtherCounted, WritesCount, Day, Handler
    <2> QED BY <1>1, <1>14, <2>1, <2>2, TypeOfStep DEF OtherCounted, WritesCount, TypeInv, At
  <1>15. CASE OtherFails
    <2>1. HandlersInv'
      BY <1>1, <1>12, <1>15, ReturnsStep DEF OtherFails
    <2>2. hist' \in History
      BY <1>12, <1>15, ForgottenType, ForgetsEffects DEF OtherFails
    <2>3. mem.up
      BY <1>15 DEF OtherFails, CallFails, At
    <2> QED BY <1>1, <1>15, <2>1, <2>2, <2>3, TypeOfStep DEF OtherFails, TypeInv, db
  <1>16. CASE Answered("other")
    BY <1>12, <1>16, AnsweredType
  <1> QED BY <1>3, <1>4, <1>5, <1>6, <1>7, <1>8, <1>9, <1>10, <1>11, <1>13, <1>14, <1>15, <1>16
          DEF World, Between, Other

LEMMA EndsType ==
    ASSUME TypeInv, Ends
    PROVE  TypeInv'
  <1>1. h' = [p \in Handlers |-> Idle] /\ rows' = rows
    BY DEF Ends
  <1>2. \A p \in Handlers : ~Runs(p)' /\ h'[p] = Idle
    BY <1>1, IdleIsHandler DEF Runs, Pc
  <1>3. HandlersInv'
    BY <1>1, <1>2, IdleIsHandler DEF TypeInv, HandlersInv
  <1>4. mem' \in Memory /\ ~mem'.up
    BY DEF TypeInv, Ends, Memory
  <1>5. PICK b \in BOOLEAN : b = (hist.missed \/ InBooking)
    OBVIOUS
  <1>6. hist' \in History
    <2>1. PICK r : r = [hist EXCEPT !.missed = b]
      OBVIOUS
    <2>2. r \in History
      BY <1>5, <2>1 DEF TypeInv, History
    <2>3. PICK n \in Int : n = hist.sent - day.orders
      BY DEF TypeInv, History, Day
    <2>4. hist' = [r EXCEPT !.forgotten = n]
      BY <1>5, <2>1, <2>3 DEF Ends
    <2> QED BY <2>2, <2>4 DEF History
  <1>7. trade' \in Trade
    <2>1. PICK d \in BOOLEAN : d = (trade.due /\ ~Terminal)
      BY DEF Terminal
    <2>2. trade' = [trade EXCEPT !.due = d]
      BY <2>1 DEF Ends
    <2> QED BY <2>2 DEF TypeInv, Trade
  <1> QED BY <1>2, <1>3, <1>4, <1>6, <1>7 DEF TypeInv, Ends, db

LEMMA ProcessType ==
    ASSUME TypeInv, KillInv, Process
    PROVE  TypeInv'
  <1>1. /\ HandlersInv /\ rows \in Nat /\ day \in Day /\ mem \in Memory /\ trade \in Trade
        /\ hist \in History /\ snaps \subseteq BOOLEAN
        /\ \A p \in Handlers : h[p] \in Handler
    BY DEF TypeInv, HandlersInv
  <1>2. /\ "admin" \in Handlers /\ PcsOf["admin"] = {"set"}
        /\ "fatal" \in Handlers /\ PcsOf["fatal"] = {"kill", "exit"}
    BY HandlerNames, PcsOfEach
  <1>3. CASE AdminSets
    <2>1. /\ asked + 1 \in 1 .. Len(setup.admin) /\ setup.admin[asked + 1] \in BOOLEAN
          /\ asked + 1 \in Int
      <3>1. PICK calls \in {<<>>, <<TRUE>>, <<TRUE, FALSE>>} : calls = setup.admin
        BY SetupType DEF TypeInv
      <3>2. Len(calls) \in Nat /\ \A i \in 1 .. Len(calls) : calls[i] \in BOOLEAN
        BY AdminCalls
      <3>3. asked \in 0 .. Len(calls) /\ asked < Len(calls)
        BY <1>3, <3>1 DEF AdminSets, TypeInv
      <3>4. asked + 1 \in 1 .. Len(calls) /\ asked + 1 \in Int
        BY <3>2, <3>3
      <3> QED BY <3>1, <3>2, <3>4
    <2>2. HandlersInv'
      BY <1>1, <1>2, <1>3, <2>1, BeginsStep DEF AdminSets
    <2>3. mem' \in Memory /\ mem'.up = mem.up /\ snaps' \subseteq BOOLEAN
      BY <1>1, <1>3, <2>1, SetsType DEF AdminSets
    <2>4. hist' \in History
      <3>1. CASE hist' = [hist EXCEPT !.cleared = FALSE]
        BY <1>1, <3>1 DEF History
      <3>2. CASE hist' = [hist EXCEPT !.cleared = TRUE, !.slipped = 0]
        BY <1>1, <3>2 DEF History
      <3> QED BY <1>3, <3>1, <3>2 DEF AdminSets
    <2>5. asked' \in 0 .. Len(setup.admin)
      BY <1>3, <2>1 DEF AdminSets
    <2> QED BY <1>1, <1>3, <2>2, <2>3, <2>4, <2>5, TypeOfStep DEF AdminSets, TypeInv, db
  <1>4. CASE AdminWrites
    <2>1. HandlersInv'
      BY <1>1, <1>2, <1>4, ReturnsStep DEF AdminWrites
    <2>2. setup.admin[h["admin"].n] \in BOOLEAN
      BY <1>4, SetupType, AdminCalls DEF AdminWrites, At, KillInv, Runs, Pc, TypeInv
    <2>3. day' \in Day
      BY <1>1, <1>4, <2>2 DEF AdminWrites, Day
    <2> QED BY <1>1, <1>4, <2>1, <2>3, TypeOfStep DEF AdminWrites, TypeInv, At
  <1>5. CASE Halts
    <2>1. HandlersInv'
      BY <1>1, <1>2, <1>5, GoesStep DEF Halts
    <2>2. mem' \in Memory /\ mem'.up = mem.up
      BY <1>1, <1>5 DEF Halts, Memory
    <2> QED BY <1>1, <1>5, <2>1, <2>2, TypeOfStep DEF Halts, TypeInv, db
  <1>6. CASE HaltPersists
    <2>1. HandlersInv'
      BY <1>1, <1>2, <1>6, GoesStep DEF HaltPersists
    <2>2. day' \in Day
      BY <1>1, <1>6 DEF HaltPersists, Day
    <2>3. hist' \in History
      BY <1>1, <1>6 DEF HaltPersists, History
    <2> QED BY <1>1, <1>6, <2>1, <2>2, <2>3, TypeOfStep DEF HaltPersists, TypeInv, At
  <1>7. CASE Crash \/ ExitsAfterHalt
    BY <1>7, EndsType DEF Crash, ExitsAfterHalt
  <1>8. CASE Restart
    <2>1. Hydrated \in BOOLEAN /\ Terminal \in BOOLEAN
      <3>1. saved \in BOOLEAN
        BY DEF TypeInv
      <3>2. Hydrated \in BOOLEAN
        BY <3>1, Zenon DEF Hydrated
      <3> QED BY <3>2 DEF Terminal
    <2>2. mem' \in Memory
      BY <1>1, <1>8, <2>1 DEF Restart, Memory, Day
    <2>3. snaps' \subseteq BOOLEAN
      BY <1>8, <2>1 DEF Restart, TypeInv
    <2>4. hist' \in History
      <3>1. PICK c \in BOOLEAN : c = (hist.cleared /\ ~Hydrated)
        OBVIOUS
      <3>2. PICK n \in Nat : n = IF Hydrated \/ day.kill THEN hist.slipped ELSE 0
        BY <1>1 DEF History
      <3>3. PICK r : r = [hist EXCEPT !.cleared = c]
        OBVIOUS
      <3>4. r \in History
        BY <1>1, <3>3 DEF History
      <3>5. r.slipped = hist.slipped
        BY <1>1, <3>3 DEF History
      <3>6. hist' = [r EXCEPT !.slipped = n]
        BY <1>8, <3>1, <3>2, <3>3, <3>5 DEF Restart
      <3> QED BY <3>4, <3>6 DEF History
    <2>5. \A p \in Handlers : ~Runs(p)'
      BY <1>8 DEF Restart, TypeInv, Runs, Pc
    <2>6. HandlersInv'
      BY <1>1, <1>8 DEF Restart, HandlersInv, Runs, Pc
    <2> QED BY <1>8, <2>2, <2>3, <2>4, <2>5, <2>6 DEF Restart, TypeInv, db
  <1> QED BY <1>3, <1>4, <1>5, <1>6, <1>7, <1>8 DEF Process

LEMMA NextType == TypeInv /\ KillInv /\ [Next]_vars => TypeInv'
  <1>1. ASSUME TypeInv, UNCHANGED vars PROVE TypeInv'
    BY <1>1 DEF TypeInv, HandlersInv, Runs, Pc, vars, db
  <1> QED BY <1>1, SignalType, LookingType, BookingType, BetweenType, ProcessType DEF Next

-----------------------------------------------------------------------------
(* What each action does to the handlers, and to records it changes in      *)
(* several fields.                                                          *)

LEMMA SignalEffects ==
    ASSUME TypeInv
    PROVE  /\ SignalReads => OthersStay("signal") /\ Pc("signal")' = "gate"
           /\ SignalGate =>
                 /\ OthersStay("signal")
                 /\ (Pc("signal")' = "insert" /\ CanTrade) \/ Pc("signal")' = "idle"
           /\ SignalInserts => OthersStay("signal") /\ Pc("signal")' = "place"
           /\ SignalPlaces => OthersStay("signal") /\ Pc("signal")' = "count"
           /\ SignalFails => OthersStay("signal") /\ Pc("signal")' = "idle"
           /\ SignalLoses => OthersStay("signal") /\ Pc("signal")' = "idle"
           /\ Answered("signal") => OthersStay("signal") /\ Pc("signal")' = "write"
                                    /\ h'["signal"].n = mem.orders + 1
           /\ SignalCounted => OthersStay("signal") /\ Pc("signal")' = "link"
           /\ SignalLinks => OthersStay("signal") /\ Pc("signal")' = "idle"
  <1>1. HandlersInv /\ rows \in Nat /\ mem \in Memory /\ day \in Day
    BY DEF TypeInv
  <1>2. "signal" \in Handlers /\ PcsOf["signal"] = {"gate", "insert", "place", "count", "write", "link"}
    BY HandlerNames, PcsOfEach
  <1>3. ASSUME SignalReads PROVE OthersStay("signal") /\ Pc("signal")' = "gate"
    <2>1. PICK s \in Days : s = day.state
      BY <1>1 DEF Day
    <2>2. h' = [h EXCEPT !["signal"] = [Idle EXCEPT !.pc = "gate", !.s = s]] /\ rows' = rows
      BY <1>3, <2>1 DEF SignalReads
    <2> QED BY <1>1, <1>2, <2>2, ReadsStep
  <1>4. ASSUME SignalGate
        PROVE  OthersStay("signal") /\ ((Pc("signal")' = "insert" /\ CanTrade) \/ Pc("signal")' = "idle")
    BY <1>1, <1>2, <1>4, GoesStep, ReturnsStep DEF SignalGate
  <1>5. ASSUME SignalInserts PROVE OthersStay("signal") /\ Pc("signal")' = "place"
    BY <1>1, <1>2, <1>5, GoesStep DEF SignalInserts
  <1>6. ASSUME SignalPlaces PROVE OthersStay("signal") /\ Pc("signal")' = "count"
    BY <1>1, <1>2, <1>6, GoesStep DEF SignalPlaces
  <1>7. ASSUME SignalFails PROVE OthersStay("signal") /\ Pc("signal")' = "idle"
    BY <1>1, <1>2, <1>7, ReturnsStep DEF SignalFails
  <1>8. ASSUME Answered("signal")
        PROVE  OthersStay("signal") /\ Pc("signal")' = "write" /\ h'["signal"].n = mem.orders + 1
    BY <1>8, HandlerNames, AnsweredEffects
  <1>11. ASSUME SignalLoses PROVE OthersStay("signal") /\ Pc("signal")' = "idle"
    BY <1>1, <1>2, <1>11, ReturnsStep DEF SignalLoses
  <1>9. ASSUME SignalCounted PROVE OthersStay("signal") /\ Pc("signal")' = "link"
    BY <1>1, <1>2, <1>9, GoesStep DEF SignalCounted
  <1>10. ASSUME SignalLinks PROVE OthersStay("signal") /\ Pc("signal")' = "idle"
    BY <1>1, <1>2, <1>10, ReturnsStep DEF SignalLinks
  <1> QED BY <1>3, <1>4, <1>5, <1>6, <1>7, <1>8, <1>9, <1>10, <1>11

LEMMA LookingEffects ==
    ASSUME TypeInv
    PROVE  /\ CheckBegins => OthersStay("check") /\ Pc("check")' = "day" /\ h'["check"].t = rows
           /\ FlattenBegins => OthersStay("flatten") /\ Pc("flatten")' = "kill" /\ h'["flatten"].t = rows
           /\ CheckReadsDay => OthersStay("check") /\ h'["check"].t \in {0, h["check"].t}
                               /\ Pc("check")' \in {"state", "idle"}
           /\ CheckWritesState => OthersStay("check") /\ h'["check"].t \in {0, h["check"].t}
                                  /\ IF h["check"].s = "HARD_STOP" THEN Pc("check")' = "kill" ELSE Pc("check")' = "idle"
           /\ \A p \in Checks :
                /\ WritesKill(p) => OthersStay(p) /\ ((Pc(p)' = "exit" /\ h'[p].t = h[p].t) \/ Pc(p)' = "idle")
                /\ Exits(p) => OthersStay(p) /\ Pc(p)' = "count" /\ h'[p].t = h[p].t
                /\ ExitIsRefused(p) => OthersStay(p) /\ Pc(p)' = "idle"
                /\ ExitFindsNothing(p) => OthersStay(p) /\ Pc(p)' = "idle"
                /\ ExitFails(p) => OthersStay(p) /\ ((Pc(p)' = "exit" /\ h'[p].t = h[p].t) \/ Pc(p)' = "idle")
                /\ Answered(p) => OthersStay(p) /\ Pc(p)' = "write" /\ h'[p].t = h[p].t
                                  /\ h'[p].n = mem.orders + 1
                /\ ExitCounted(p) => OthersStay(p) /\ Pc(p)' = "idle"
                /\ CheckThrows(p) => OthersStay(p) /\ Pc(p)' = "idle"
  <1>1. HandlersInv /\ rows \in Nat /\ mem \in Memory /\ day \in Day /\ rows <= rows
    BY DEF TypeInv
  <1>2. /\ Checks \subseteq Handlers /\ "check" \in Handlers /\ "flatten" \in Handlers
        /\ \A p \in Checks : PcsOf[p] = CheckPcs
        /\ {"day", "state", "kill", "exit", "count", "write"} \subseteq CheckPcs
    BY HandlerNames, PcsOfEach DEF CheckPcs
  <1>3. ASSUME CheckBegins
        PROVE  OthersStay("check") /\ Pc("check")' = "day" /\ h'["check"].t = rows
    <2>1. "check" \in Handlers /\ "day" \in PcsOf["check"]
      BY <1>2, HandlerNames
    <2> QED BY <1>1, <1>3, <2>1, BeginsStep, Amounts DEF CheckBegins
  <1>4. ASSUME FlattenBegins
        PROVE  OthersStay("flatten") /\ Pc("flatten")' = "kill" /\ h'["flatten"].t = rows
    <2>1. "flatten" \in Handlers /\ "kill" \in PcsOf["flatten"]
      BY <1>2, HandlerNames
    <2> QED BY <1>1, <1>4, <2>1, BeginsStep DEF FlattenBegins
  <1>5. ASSUME CheckReadsDay
        PROVE  OthersStay("check") /\ h'["check"].t \in {0, h["check"].t}
               /\ Pc("check")' \in {"state", "idle"}
    <2>1. rows' = rows
      BY <1>5 DEF CheckReadsDay
    <2>2. CASE Returns("check")
      BY <1>1, <1>2, <2>1, <2>2, ReturnsStep, IdleIsHandler
    <2>3. ASSUME NEW s \in Days, h' = [h EXCEPT !["check"].pc = "state", !["check"].s = s]
          PROVE  OthersStay("check") /\ h'["check"].t = h["check"].t /\ Pc("check")' = "state"
      <3>1. h' = [h EXCEPT !["check"] = [h["check"] EXCEPT !.pc = "state", !.s = s]]
        BY <2>3
      <3>2. "check" \in Handlers /\ "state" \in PcsOf["check"]
        BY <1>2, HandlerNames
      <3> QED BY <1>1, <2>1, <3>1, <3>2, ReadsStep
    <2>4. \A total : StateOf(total) \in Days
      BY DEF StateOf, Days
    <2> QED BY <1>5, <2>2, <2>3, <2>4 DEF CheckReadsDay
  <1>6. ASSUME CheckWritesState
        PROVE  /\ OthersStay("check") /\ h'["check"].t \in {0, h["check"].t}
               /\ IF h["check"].s = "HARD_STOP" THEN Pc("check")' = "kill" ELSE Pc("check")' = "idle"
    <2>1. rows' = rows /\ rows <= rows'
      BY <1>1, <1>6 DEF CheckWritesState
    <2>2. "check" \in Handlers /\ "kill" \in PcsOf["check"]
      BY <1>2, HandlerNames
    <2>3. CASE h["check"].s = "HARD_STOP" /\ Goes("check", "kill")
      <3>1. OthersStay("check") /\ Pc("check")' = "kill" /\ h'["check"].t = h["check"].t
        BY <1>1, <2>1, <2>2, <2>3, GoesStep
      <3> QED BY <2>3, <3>1
    <2>4. CASE h["check"].s # "HARD_STOP" /\ Returns("check")
      BY <1>1, <2>1, <2>2, <2>4, ReturnsStep, IdleIsHandler
    <2> QED BY <1>6, <2>3, <2>4 DEF CheckWritesState
  <1>7. ASSUME NEW p \in Checks
        PROVE  /\ WritesKill(p) => OthersStay(p) /\ ((Pc(p)' = "exit" /\ h'[p].t = h[p].t) \/ Pc(p)' = "idle")
               /\ Exits(p) => OthersStay(p) /\ Pc(p)' = "count" /\ h'[p].t = h[p].t
               /\ ExitIsRefused(p) => OthersStay(p) /\ Pc(p)' = "idle"
               /\ ExitFindsNothing(p) => OthersStay(p) /\ Pc(p)' = "idle"
               /\ ExitFails(p) => OthersStay(p) /\ ((Pc(p)' = "exit" /\ h'[p].t = h[p].t) \/ Pc(p)' = "idle")
               /\ Answered(p) => OthersStay(p) /\ Pc(p)' = "write" /\ h'[p].t = h[p].t
                                 /\ h'[p].n = mem.orders + 1
               /\ ExitCounted(p) => OthersStay(p) /\ Pc(p)' = "idle"
               /\ CheckThrows(p) => OthersStay(p) /\ Pc(p)' = "idle"
    <2>1. p \in Handlers /\ {"exit", "count", "write"} \subseteq PcsOf[p]
      BY <1>2
    <2>2. ASSUME WritesKill(p)
          PROVE  OthersStay(p) /\ ((Pc(p)' = "exit" /\ h'[p].t = h[p].t) \/ Pc(p)' = "idle")
      BY <1>1, <2>1, <2>2, GoesStep, ReturnsStep DEF WritesKill
    <2>3. ASSUME Exits(p) PROVE OthersStay(p) /\ Pc(p)' = "count" /\ h'[p].t = h[p].t
      BY <1>1, <2>1, <2>3, GoesStep DEF Exits
    <2>4. ASSUME ExitIsRefused(p) PROVE OthersStay(p) /\ Pc(p)' = "idle"
      BY <1>1, <2>1, <2>4, ReturnsStep DEF ExitIsRefused
    <2>5. ASSUME ExitFindsNothing(p) PROVE OthersStay(p) /\ Pc(p)' = "idle"
      BY <1>1, <2>1, <2>5, ReturnsStep DEF ExitFindsNothing
    <2>6. ASSUME Answered(p)
          PROVE  OthersStay(p) /\ Pc(p)' = "write" /\ h'[p].t = h[p].t /\ h'[p].n = mem.orders + 1
      BY <2>6, HandlerNames, AnsweredEffects
    <2>9. ASSUME ExitFails(p)
          PROVE  OthersStay(p) /\ ((Pc(p)' = "exit" /\ h'[p].t = h[p].t) \/ Pc(p)' = "idle")
      BY <1>1, <2>1, <2>9, ReturnsStep, AgainStep DEF ExitFails
    <2>7. ASSUME ExitCounted(p) PROVE OthersStay(p) /\ Pc(p)' = "idle"
      BY <1>1, <2>1, <2>7, ReturnsStep DEF ExitCounted
    <2>8. ASSUME CheckThrows(p) PROVE OthersStay(p) /\ Pc(p)' = "idle"
      BY <1>1, <2>1, <2>8, ReturnsStep DEF CheckThrows, Throws
    <2> QED BY <2>2, <2>3, <2>4, <2>5, <2>6, <2>7, <2>8, <2>9
  <1> QED BY <1>3, <1>4, <1>5, <1>6, <1>7

LEMMA BookingEffects ==
    ASSUME TypeInv
    PROVE  /\ \A p \in {"close", "partial"} :
                /\ BookReads(p) => OthersStay(p) /\ Pc(p)' = "book"
                                   /\ h'[p].n = day.realized + h[p].n
                /\ BookWrites(p) => OthersStay(p) /\ Pc(p)' = "booked"
                /\ BookFails(p) => OthersStay(p) /\ Pc(p)' = IF p = "close" THEN "booked" ELSE "idle"
           /\ CloseBegins => OthersStay("close") /\ Pc("close")' = "read"
                             /\ h'["close"].n = trade.qty * trade.pnl
           /\ UpdateIsDropped => h' = h
           /\ DoubleExit => OthersStay("close") /\ Pc("close")' = "double"
           /\ DoubleExitHalts \/ DoubleExitThrows => OthersStay("close") /\ Pc("close")' = "idle"
           /\ Finalize => OthersStay("close") /\ Pc("close")' = "idle"
           /\ PartialBegins => OthersStay("partial") /\ Pc("partial")' = "read"
                               /\ h'["partial"].n = trade.pnl
           /\ PartialWritesState => OthersStay("partial") /\ Pc("partial")' = "qty"
           /\ PartialWritesQty => OthersStay("partial") /\ Pc("partial")' = "idle"
  <1>1. HandlersInv /\ rows \in Nat /\ mem \in Memory /\ day \in Day /\ rows <= rows
        /\ \A p \in Handlers : h[p] \in Handler
    BY DEF TypeInv, HandlersInv
  <1>2. /\ "close" \in Handlers /\ PcsOf["close"] = {"read", "book", "booked", "double"}
        /\ "partial" \in Handlers /\ PcsOf["partial"] = {"read", "book", "booked", "qty"}
    BY HandlerNames, PcsOfEach
  <1>3. ASSUME NEW p \in {"close", "partial"}
        PROVE  /\ BookReads(p) => OthersStay(p) /\ Pc(p)' = "book"
                                  /\ h'[p].n = day.realized + h[p].n
               /\ BookWrites(p) => OthersStay(p) /\ Pc(p)' = "booked"
               /\ BookFails(p) => OthersStay(p) /\ Pc(p)' = IF p = "close" THEN "booked" ELSE "idle"
    <2>1. p \in Handlers /\ {"book", "booked"} \subseteq PcsOf[p]
      BY <1>2
    <2>2. ASSUME BookReads(p)
          PROVE  OthersStay(p) /\ Pc(p)' = "book" /\ h'[p].n = day.realized + h[p].n
      <3>1. day.realized + h[p].n \in Int
        BY <1>1, <2>1 DEF Day, Handler
      <3> QED BY <1>1, <2>1, <2>2, <3>1, GoesWithStep DEF BookReads
    <2>3. ASSUME BookWrites(p) PROVE OthersStay(p) /\ Pc(p)' = "booked"
      BY <1>1, <2>1, <2>3, GoesStep DEF BookWrites
    <2>4. ASSUME BookFails(p)
          PROVE  OthersStay(p) /\ Pc(p)' = IF p = "close" THEN "booked" ELSE "idle"
      BY <1>1, <2>1, <2>4, GoesStep, ReturnsStep DEF BookFails
    <2> QED BY <2>2, <2>3, <2>4
  <1>4. ASSUME CloseBegins
        PROVE  OthersStay("close") /\ Pc("close")' = "read" /\ h'["close"].n = trade.qty * trade.pnl
    <2>1. "close" \in Handlers /\ "read" \in PcsOf["close"]
      BY <1>2
    <2> QED BY <1>1, <1>4, <2>1, BeginsStep, Amounts DEF CloseBegins
  <1>5. ASSUME Finalize PROVE OthersStay("close") /\ Pc("close")' = "idle"
    BY <1>1, <1>2, <1>5, ReturnsStep DEF Finalize
  <1>6. ASSUME PartialBegins
        PROVE  OthersStay("partial") /\ Pc("partial")' = "read" /\ h'["partial"].n = trade.pnl
    <2>1. "partial" \in Handlers /\ "read" \in PcsOf["partial"]
      BY <1>2
    <2> QED BY <1>1, <1>6, <2>1, BeginsStep, Amounts DEF PartialBegins
  <1>7. ASSUME PartialWritesState PROVE OthersStay("partial") /\ Pc("partial")' = "qty"
    BY <1>1, <1>2, <1>7, GoesStep DEF PartialWritesState
  <1>8. ASSUME PartialWritesQty PROVE OthersStay("partial") /\ Pc("partial")' = "idle"
    BY <1>1, <1>2, <1>8, ReturnsStep DEF PartialWritesQty
  <1>9. ASSUME DoubleExit PROVE OthersStay("close") /\ Pc("close")' = "double"
    <2>1. "close" \in Handlers /\ "double" \in PcsOf["close"]
      BY <1>2
    <2> QED BY <1>1, <1>9, <2>1, BeginsStep DEF DoubleExit
  <1>10. ASSUME DoubleExitHalts \/ DoubleExitThrows
         PROVE  OthersStay("close") /\ Pc("close")' = "idle"
    BY <1>1, <1>2, <1>10, ReturnsStep DEF DoubleExitHalts, DoubleExitThrows, Throws
  <1>11. ASSUME UpdateIsDropped PROVE h' = h
    BY <1>11 DEF UpdateIsDropped
  <1> QED BY <1>3, <1>4, <1>5, <1>6, <1>7, <1>8, <1>9, <1>10, <1>11

LEMMA OtherEffects ==
    ASSUME TypeInv
    PROVE  /\ OtherPlaces => OthersStay("other") /\ Pc("other")' = "count"
           /\ OtherCounted => OthersStay("other") /\ Pc("other")' = "idle"
           /\ OtherFails => OthersStay("other") /\ Pc("other")' = "idle"
           /\ Other => /\ OthersStay("other")
                       /\ trade' = trade /\ rows' = rows /\ setup' = setup /\ asked' = asked
                       /\ mem'.up = mem.up /\ mem'.kill = mem.kill /\ mem'.halted = mem.halted
                       /\ mem'.trades = mem.trades /\ mem'.active = mem.active
                       /\ day'.kill = day.kill /\ day'.realized = day.realized
                       /\ hist'.owed = hist.owed /\ hist'.missed = hist.missed
                       /\ hist'.slipped = hist.slipped /\ hist'.cleared = hist.cleared
                       /\ hist'.entries = hist.entries /\ hist'.uncounted = hist.uncounted
  <1>1. /\ HandlersInv /\ rows \in Nat /\ rows <= rows /\ day \in Day /\ hist \in History
        /\ "other" \in Handlers /\ "other" \in Placers /\ "count" \in PcsOf["other"]
    BY HandlerNames, PcsOfEach DEF TypeInv
  <1>2. ASSUME OtherPlaces PROVE OthersStay("other") /\ Pc("other")' = "count"
    BY <1>1, <1>2, BeginsStep DEF OtherPlaces
  <1>3. ASSUME OtherCounted \/ OtherFails PROVE OthersStay("other") /\ Pc("other")' = "idle"
    BY <1>1, <1>3, ReturnsStep DEF OtherCounted, OtherFails
  <1>4. ASSUME Other
        PROVE  /\ trade' = trade /\ rows' = rows /\ setup' = setup /\ asked' = asked
               /\ mem'.up = mem.up /\ mem'.kill = mem.kill /\ mem'.halted = mem.halted
               /\ mem'.trades = mem.trades /\ mem'.active = mem.active
    BY <1>1, <1>4, AnsweredEffects DEF Other, OtherPlaces, OtherCounted, OtherFails
  <1>5. ASSUME Other PROVE day'.kill = day.kill /\ day'.realized = day.realized
    BY <1>1, <1>5, AnsweredEffects
       DEF Other, OtherPlaces, OtherCounted, OtherFails, WritesCount, Day, db
  <1>6. ASSUME Other
        PROVE  /\ hist'.owed = hist.owed /\ hist'.missed = hist.missed
               /\ hist'.slipped = hist.slipped /\ hist'.cleared = hist.cleared
               /\ hist'.entries = hist.entries /\ hist'.uncounted = hist.uncounted
    <2>1. CASE OtherPlaces
      BY <1>1, <2>1, SendsEffects DEF OtherPlaces, History
    <2>2. CASE OtherFails
      BY <1>1, <2>2, ForgottenType, ForgetsEffects DEF OtherFails
    <2>3. CASE OtherCounted \/ Answered("other")
      BY <1>1, <2>3, AnsweredEffects DEF OtherCounted
    <2> QED BY <1>6, <2>1, <2>2, <2>3 DEF Other
  <1>7. ASSUME Other PROVE OthersStay("other")
    BY <1>1, <1>2, <1>3, <1>7, AnsweredEffects DEF Other
  <1> QED BY <1>2, <1>3, <1>4, <1>5, <1>6, <1>7

LEMMA ProcessEffects ==
    ASSUME TypeInv
    PROVE  /\ AdminSets => OthersStay("admin") /\ Pc("admin")' = "set" /\ h'["admin"].n = asked + 1
           /\ AdminWrites => OthersStay("admin") /\ Pc("admin")' = "idle"
           /\ Halts => OthersStay("fatal") /\ Pc("fatal")' = "kill"
           /\ HaltPersists => OthersStay("fatal") /\ Pc("fatal")' = "exit"
           /\ Ends => \A p \in Handlers : Pc(p)' = "idle" /\ ~Runs(p)' /\ h'[p] = Idle
           /\ Restart => h' = h
  <1>1. HandlersInv /\ rows \in Nat /\ rows <= rows
    BY DEF TypeInv
  <1>2. /\ "admin" \in Handlers /\ "set" \in PcsOf["admin"]
        /\ "fatal" \in Handlers /\ "kill" \in PcsOf["fatal"] /\ "exit" \in PcsOf["fatal"]
    BY HandlerNames, PcsOfEach
  <1>3. ASSUME AdminSets
        PROVE  OthersStay("admin") /\ Pc("admin")' = "set" /\ h'["admin"].n = asked + 1
    <2>1. asked + 1 \in Int
      <3>1. PICK calls \in {<<>>, <<TRUE>>, <<TRUE, FALSE>>} : calls = setup.admin
        BY SetupType DEF TypeInv
      <3>2. Len(calls) \in Nat
        BY AdminCalls
      <3> QED BY <3>1, <3>2 DEF TypeInv
    <2> QED BY <1>1, <1>2, <1>3, <2>1, BeginsStep DEF AdminSets
  <1>4. ASSUME AdminWrites PROVE OthersStay("admin") /\ Pc("admin")' = "idle"
    BY <1>1, <1>2, <1>4, ReturnsStep DEF AdminWrites
  <1>5. ASSUME Halts PROVE OthersStay("fatal") /\ Pc("fatal")' = "kill"
    BY <1>1, <1>2, <1>5, GoesStep DEF Halts
  <1>6. ASSUME HaltPersists PROVE OthersStay("fatal") /\ Pc("fatal")' = "exit"
    BY <1>1, <1>2, <1>6, GoesStep DEF HaltPersists
  <1>7. ASSUME Ends, NEW p \in Handlers PROVE Pc(p)' = "idle" /\ ~Runs(p)' /\ h'[p] = Idle
    BY <1>7, IdleIsHandler DEF Ends, Pc, Runs
  <1>8. ASSUME Restart PROVE h' = h
    BY <1>8 DEF Restart
  <1> QED BY <1>3, <1>4, <1>5, <1>6, <1>7, <1>8

(* The fields of the trade an action changes.                               *)
LEMMA TradeEffects ==
    ASSUME TypeInv
    PROVE  /\ trade \in Trade
           /\ EntryFills => /\ trade'.entry = FALSE /\ trade'.units = trade.qty
                            /\ trade'.st = trade.st /\ trade'.qty = trade.qty /\ trade'.pnl = trade.pnl
                            /\ trade'.exit = trade.exit /\ trade'.due = trade.due
           /\ ExitFills => /\ trade'.units = 0 /\ trade'.due = TRUE
                           /\ trade'.st = trade.st /\ trade'.qty = trade.qty /\ trade'.pnl = trade.pnl
                           /\ trade'.exit = trade.exit /\ trade'.entry = trade.entry
           /\ SignalInserts => /\ trade'.st = "ENTRY_PLACED" /\ trade'.qty = setup.qty
                               /\ trade'.units = 0 /\ trade'.pnl = 0
                               /\ ~trade'.entry /\ ~trade'.exit /\ ~trade'.due
           /\ CloseBegins => /\ trade'.st = "CLOSED" /\ trade'.due = FALSE
                             /\ trade'.units = trade.units /\ trade'.qty = trade.qty
                             /\ trade'.pnl = trade.pnl /\ trade'.exit = trade.exit
                             /\ trade'.entry = trade.entry
           /\ CloseIsLate => /\ trade'.st = trade.st /\ trade'.due = FALSE
                             /\ trade'.units = trade.units /\ trade'.qty = trade.qty
                             /\ trade'.pnl = trade.pnl /\ trade'.exit = trade.exit
                             /\ trade'.entry = trade.entry
           /\ Recovers => /\ trade'.st = (IF Held THEN "LIVE" ELSE "CLOSED")
                          /\ trade'.entry = FALSE
                          /\ trade'.units = trade.units /\ trade'.qty = trade.qty
                          /\ trade'.pnl = trade.pnl /\ trade'.exit = trade.exit
                          /\ trade'.due = trade.due
                          /\ hist'.missed = (hist.missed \/ trade.entry)
                          /\ hist'.owed = hist.owed /\ hist'.sent = hist.sent
                          /\ hist'.waiting = hist.waiting /\ hist'.forgotten = hist.forgotten
                          /\ hist'.entries = hist.entries /\ hist'.uncounted = hist.uncounted
                          /\ hist'.slipped = hist.slipped /\ hist'.cleared = hist.cleared
           /\ \A p \in Checks : ExitFindsNothing(p) =>
                 /\ hist'.missed = (hist.missed \/ trade.due)
                 /\ hist'.owed = hist.owed /\ hist'.sent = hist.sent
                 /\ hist'.waiting = hist.waiting /\ hist'.forgotten = hist.forgotten
                 /\ hist'.entries = hist.entries /\ hist'.uncounted = hist.uncounted
                 /\ hist'.slipped = hist.slipped /\ hist'.cleared = hist.cleared
           /\ \A p \in Checks : ExitCounted(p) =>
                 /\ trade'.units = trade.units /\ trade'.qty = trade.qty
                 /\ trade'.pnl = trade.pnl /\ trade'.exit = trade.exit /\ trade'.due = trade.due
                 /\ trade'.entry = trade.entry
                 /\ \/ trade'.st = trade.st
                    \/ /\ trade.st \in {"LIVE", "SL_CONFIRMED"} /\ h[p].t = rows
                       /\ trade'.st = "PANIC_EXIT_PLACED"
           /\ \A p \in Checks : Exits(p) =>
                 /\ trade'.st = trade.st /\ trade'.entry = trade.entry
                 /\ trade'.units = trade.units /\ trade'.qty = trade.qty
                 /\ trade'.pnl = trade.pnl /\ trade'.due = trade.due
                 /\ trade'.exit = trade.exit \/ h[p].t = rows
           /\ \A p \in Checks : ExitFindsNothing(p) =>
                 /\ trade'.st = "CLOSED" /\ trade'.entry = FALSE
                 /\ trade'.units = trade.units /\ trade'.qty = trade.qty
                 /\ trade'.pnl = trade.pnl /\ trade'.exit = trade.exit /\ trade'.due = trade.due
  <1>1. trade \in Trade
    BY DEF TypeInv
  <1>2. ASSUME EntryFills
        PROVE  /\ trade'.entry = FALSE /\ trade'.units = trade.qty
               /\ trade'.st = trade.st /\ trade'.qty = trade.qty /\ trade'.pnl = trade.pnl
               /\ trade'.exit = trade.exit /\ trade'.due = trade.due
    BY <1>1, <1>2 DEF EntryFills, Trade
  <1>3. ASSUME ExitFills
        PROVE  /\ trade'.units = 0 /\ trade'.due = TRUE
               /\ trade'.st = trade.st /\ trade'.qty = trade.qty /\ trade'.pnl = trade.pnl
               /\ trade'.exit = trade.exit /\ trade'.entry = trade.entry
    BY <1>1, <1>3 DEF ExitFills, Trade
  <1>4. ASSUME SignalInserts
        PROVE  /\ trade'.st = "ENTRY_PLACED" /\ trade'.qty = setup.qty
               /\ trade'.units = 0 /\ trade'.pnl = 0
               /\ ~trade'.entry /\ ~trade'.exit /\ ~trade'.due
    BY <1>4 DEF SignalInserts, NoTrade
  <1>5. ASSUME CloseBegins
        PROVE  /\ trade'.st = "CLOSED" /\ trade'.due = FALSE
               /\ trade'.units = trade.units /\ trade'.qty = trade.qty
               /\ trade'.pnl = trade.pnl /\ trade'.exit = trade.exit
               /\ trade'.entry = trade.entry
    BY <1>1, <1>5 DEF CloseBegins, Trade
  <1>6. ASSUME NEW p \in Checks, ExitFindsNothing(p)
        PROVE  /\ trade'.st = "CLOSED" /\ trade'.entry = FALSE
               /\ trade'.units = trade.units /\ trade'.qty = trade.qty
               /\ trade'.pnl = trade.pnl /\ trade'.exit = trade.exit /\ trade'.due = trade.due
    BY <1>1, <1>6 DEF ExitFindsNothing, Trade
  <1>7. ASSUME CloseIsLate
        PROVE  /\ trade'.st = trade.st /\ trade'.due = FALSE
               /\ trade'.units = trade.units /\ trade'.qty = trade.qty
               /\ trade'.pnl = trade.pnl /\ trade'.exit = trade.exit
               /\ trade'.entry = trade.entry
    BY <1>1, <1>7 DEF CloseIsLate, Trade
  <1>0. hist \in History
    BY DEF TypeInv
  <1>8. ASSUME NEW b, hist' = [hist EXCEPT !.missed = b]
        PROVE  /\ hist'.missed = b
               /\ hist'.owed = hist.owed /\ hist'.sent = hist.sent
               /\ hist'.waiting = hist.waiting /\ hist'.forgotten = hist.forgotten
               /\ hist'.entries = hist.entries /\ hist'.uncounted = hist.uncounted
               /\ hist'.slipped = hist.slipped /\ hist'.cleared = hist.cleared
    BY <1>0, <1>8 DEF History
  <1>9. ASSUME Recovers
        PROVE  /\ trade'.st = (IF Held THEN "LIVE" ELSE "CLOSED") /\ trade'.entry = FALSE
               /\ trade'.units = trade.units /\ trade'.qty = trade.qty
               /\ trade'.pnl = trade.pnl /\ trade'.exit = trade.exit
               /\ trade'.due = trade.due
    BY <1>1, <1>9 DEF Recovers, Trade
  <1>10. Recovers => hist' = [hist EXCEPT !.missed = (hist.missed \/ trade.entry)]
    BY DEF Recovers
  <1>11. \A p \in Checks : ExitFindsNothing(p) =>
            hist' = [hist EXCEPT !.missed = (hist.missed \/ trade.due)]
    BY DEF ExitFindsNothing
  <1>12. ASSUME NEW p \in Checks, ExitCounted(p)
         PROVE  /\ trade'.units = trade.units /\ trade'.qty = trade.qty
                /\ trade'.pnl = trade.pnl /\ trade'.exit = trade.exit /\ trade'.due = trade.due
                /\ trade'.entry = trade.entry
                /\ \/ trade'.st = trade.st
                   \/ /\ trade.st \in {"LIVE", "SL_CONFIRMED"} /\ h[p].t = rows
                      /\ trade'.st = "PANIC_EXIT_PLACED"
    <2>1. PICK st : st = IF trade.st \in {"LIVE", "SL_CONFIRMED"}
                         THEN "PANIC_EXIT_PLACED" ELSE trade.st
      OBVIOUS
    <2>2. CASE trade' = trade
      BY <2>2
    <2>3. CASE h[p].t = rows /\ trade' = [trade EXCEPT !.panic = TRUE, !.st = st]
      BY <1>1, <2>1, <2>3 DEF Trade
    <2> QED BY <1>12, <2>1, <2>2, <2>3 DEF ExitCounted
  <1>13. ASSUME NEW p \in Checks, Exits(p)
         PROVE  /\ trade'.st = trade.st /\ trade'.entry = trade.entry
                /\ trade'.units = trade.units /\ trade'.qty = trade.qty
                /\ trade'.pnl = trade.pnl /\ trade'.due = trade.due
                /\ trade'.exit = trade.exit \/ h[p].t = rows
    <2>1. PICK b \in BOOLEAN : b = (trade.exit \/ (h[p].t = rows /\ Held))
      OBVIOUS
    <2>2. trade' = [trade EXCEPT !.exit = b]
      BY <1>13, <2>1 DEF Exits
    <2>3. b = trade.exit \/ h[p].t = rows
      BY <1>1, <2>1 DEF Trade
    <2> QED BY <1>1, <2>2, <2>3 DEF Trade
  <1> QED BY <1>1, <1>2, <1>3, <1>4, <1>5, <1>6, <1>7, <1>8, <1>9, <1>10, <1>11, <1>12, <1>13

(* The end of the process, and its restart.                                 *)
LEMMA EndsEffects ==
    ASSUME TypeInv, Ends
    PROVE  /\ mem'.up = FALSE /\ mem'.active = mem.active
           /\ mem'.trades = mem.trades /\ mem'.orders = mem.orders
           /\ hist'.missed = (hist.missed \/ InBooking) /\ hist'.forgotten = hist.sent - day.orders
           /\ hist'.owed = hist.owed /\ hist'.slipped = hist.slipped
           /\ hist'.cleared = hist.cleared /\ hist'.sent = hist.sent
           /\ hist'.entries = hist.entries
           /\ hist'.uncounted = hist.uncounted /\ hist'.waiting = hist.waiting
           /\ trade'.due = (trade.due /\ ~Terminal) /\ trade'.st = trade.st
           /\ trade'.entry = trade.entry /\ trade'.qty = trade.qty
           /\ trade'.units = trade.units /\ trade'.pnl = trade.pnl
  <1>1. mem \in Memory /\ hist \in History /\ trade \in Trade
    BY DEF TypeInv
  <1>2. /\ mem'.up = FALSE /\ mem'.active = mem.active
        /\ mem'.trades = mem.trades /\ mem'.orders = mem.orders
    BY <1>1 DEF Ends, Memory
  <1>3. PICK b \in BOOLEAN : b = (hist.missed \/ InBooking)
    OBVIOUS
  <1>4. PICK r : r = [hist EXCEPT !.missed = b]
    OBVIOUS
  <1>5. /\ r \in History /\ r.missed = b /\ r.waiting = hist.waiting /\ r.owed = hist.owed
        /\ r.slipped = hist.slipped /\ r.cleared = hist.cleared /\ r.sent = hist.sent
        /\ r.entries = hist.entries /\ r.uncounted = hist.uncounted
    BY <1>1, <1>4 DEF History
  <1>10. PICK n \in Int : n = hist.sent - day.orders
    BY DEF TypeInv, History, Day
  <1>6. hist' = [r EXCEPT !.forgotten = n]
    BY <1>3, <1>4, <1>10 DEF Ends
  <1>7. /\ hist'.missed = (hist.missed \/ InBooking) /\ hist'.forgotten = hist.sent - day.orders
        /\ hist'.owed = hist.owed /\ hist'.slipped = hist.slipped
        /\ hist'.cleared = hist.cleared /\ hist'.sent = hist.sent
        /\ hist'.entries = hist.entries
           /\ hist'.uncounted = hist.uncounted /\ hist'.waiting = hist.waiting
    BY <1>3, <1>5, <1>6, <1>10 DEF History
  <1>8. PICK d \in BOOLEAN : d = (trade.due /\ ~Terminal)
    BY DEF Terminal
  <1>9. trade' = [trade EXCEPT !.due = d]
    BY <1>8 DEF Ends
  <1> QED BY <1>1, <1>2, <1>7, <1>8, <1>9 DEF Trade

LEMMA RestartEffects ==
    ASSUME TypeInv, Restart
    PROVE  /\ ~mem.up /\ mem'.up /\ mem'.kill = Hydrated /\ mem'.halted = FALSE
           /\ mem'.trades = rows /\ mem'.orders = day.orders
           /\ h' = h /\ day' = day /\ trade' = trade /\ rows' = rows
           /\ \A q \in Handlers : ~Runs(q) /\ ~Runs(q)' /\ Pc(q) = "idle" /\ Pc(q)' = "idle"
           /\ hist'.slipped = (IF Hydrated \/ day.kill THEN hist.slipped ELSE 0)
           /\ hist'.owed = hist.owed /\ hist'.missed = hist.missed
           /\ hist'.sent = hist.sent /\ hist'.entries = hist.entries /\ hist'.forgotten = hist.forgotten
           /\ hist'.uncounted = hist.uncounted /\ hist'.waiting = hist.waiting
  <1>1. hist \in History
    BY DEF TypeInv
  <1>2. /\ ~mem.up /\ mem'.up /\ mem'.kill = Hydrated /\ mem'.halted = FALSE
        /\ mem'.trades = rows /\ mem'.orders = day.orders
        /\ h' = h /\ day' = day /\ trade' = trade /\ rows' = rows
    BY DEF Restart, db
  <1>3. \A q \in Handlers : ~Runs(q) /\ ~Runs(q)' /\ Pc(q) = "idle" /\ Pc(q)' = "idle"
    BY <1>2 DEF TypeInv, Runs, Pc
  <1>4. PICK c \in BOOLEAN : c = (hist.cleared /\ ~Hydrated)
    OBVIOUS
  <1>5. PICK n \in Nat : n = IF Hydrated \/ day.kill THEN hist.slipped ELSE 0
    BY <1>1 DEF History
  <1>6. PICK r : r = [hist EXCEPT !.cleared = c]
    OBVIOUS
  <1>7. /\ r \in History /\ r.slipped = hist.slipped /\ r.owed = hist.owed
        /\ r.missed = hist.missed /\ r.sent = hist.sent /\ r.entries = hist.entries
        /\ r.forgotten = hist.forgotten
        /\ r.uncounted = hist.uncounted /\ r.waiting = hist.waiting
    BY <1>1, <1>6 DEF History
  <1>8. hist' = [r EXCEPT !.slipped = n]
    BY <1>4, <1>5, <1>6, <1>7 DEF Restart
  <1>9. /\ hist'.slipped = n /\ hist'.owed = hist.owed /\ hist'.missed = hist.missed
        /\ hist'.sent = hist.sent /\ hist'.entries = hist.entries /\ hist'.forgotten = hist.forgotten
           /\ hist'.uncounted = hist.uncounted /\ hist'.waiting = hist.waiting
    BY <1>7, <1>8 DEF History
  <1> QED BY <1>2, <1>3, <1>5, <1>9

-----------------------------------------------------------------------------
(* The row.                                                                 *)

(* A step that leaves the row and starts no handler.                        *)
LEMMA RowStays ==
    ASSUME RowInv, trade' = trade, rows' = rows, rows \in Nat, mem'.active => mem.active,
           \A q \in {"partial", "close"} : Runs(q)' => Runs(q),
           \/ Pc("signal")' \in {Pc("signal"), "idle"}
           \/ Pc("signal") = "gate" /\ Pc("signal")' = "insert"
           \/ Pc("signal") = "count" /\ Pc("signal")' = "write"
           \/ Pc("signal") = "write" /\ Pc("signal")' = "link",
           \A q \in Checks : Runs(q)' => Runs(q) /\ h[q].t \in Nat /\ h'[q].t \in {0, h[q].t}
    PROVE  RowInv'
  <1>1. rows' <= MaxRows /\ trade'.units <= trade'.qty
    BY DEF RowInv
  <1>2. /\ Held' => ~Terminal' /\ ~trade'.entry /\ ~trade'.due
        /\ trade'.entry => ~Terminal' /\ ~trade'.due
    BY DEF RowInv, Held, Terminal
  <1>3. /\ Runs("signal")' => ~mem'.active /\ ~Runs("partial")' /\ ~Runs("close")'
        /\ Pc("signal")' \in {"gate", "insert"} => Terminal' /\ rows' < MaxRows
        /\ Pc("signal")' = "place" => ~trade'.entry /\ ~Held'
    BY DEF RowInv, Held, Terminal, Runs
  <1>4. Placing' => trade'.st = "ENTRY_PLACED"
    BY DEF RowInv, Placing
  <1>6. trade'.st = "ENTRY_PLACED" =>
          /\ ~trade'.exit /\ ~trade'.due
          /\ \A p \in Checks : Runs(p)' => h'[p].t < rows'
    BY DEF RowInv
  <1>5. Runs("partial")' => trade'.units <= 1 /\ trade'.qty = 2 /\ ~trade'.entry
    BY DEF RowInv
  <1> QED BY <1>1, <1>2, <1>3, <1>4, <1>5, <1>6 DEF RowInv

LEMMA SignalRow ==
    ASSUME TypeInv, RowInv, Signal
    PROVE  RowInv'
  <1>1. /\ rows \in Nat /\ MaxRows \in Nat /\ mem \in Memory /\ trade \in Trade
        /\ \A q \in Handlers : h[q] \in Handler
    BY DayAssumption DEF TypeInv, HandlersInv
  <1>2. \A q \in {"close", "partial", "check", "flatten"} :
            OthersStay("signal") => h'[q] = h[q] /\ (Runs(q)' <=> Runs(q))
    BY HandlerNames DEF OthersStay
  <1>0. ASSUME OthersStay("signal")
        PROVE  /\ \A q \in {"partial", "close"} : Runs(q)' => Runs(q)
               /\ \A q \in Checks :
                    Runs(q)' => Runs(q) /\ h[q].t \in Nat /\ h'[q].t \in {0, h[q].t}
    BY <1>1, <1>2, <1>0, HandlerNames DEF Handler
  <1>3. CASE SignalReads
    BY <1>1, <1>2, <1>3, SignalEffects, HandlerNames
       DEF SignalReads, RowInv, Placing, Held, Terminal, QueueFree, Queued, Runs, Pc, Idle
  <1>4. CASE SignalGate
    <2>1. OthersStay("signal") /\ Pc("signal") = "gate" /\ Pc("signal")' \in {"insert", "idle"}
      BY <1>4, SignalEffects DEF SignalGate, At, Pc
    <2> QED BY <1>1, <1>0, <1>4, <2>1, RowStays DEF SignalGate
  <1>5. CASE SignalInserts
    <2>1. OthersStay("signal") /\ Pc("signal") = "insert" /\ Pc("signal")' = "place"
      BY <1>5, SignalEffects DEF SignalInserts, At, Pc
    <2>2. /\ trade'.st = "ENTRY_PLACED" /\ trade'.qty \in 1 .. 2 /\ trade'.units = 0
          /\ ~trade'.entry /\ ~trade'.exit /\ ~trade'.due
      BY <1>5, TradeEffects, SetupType DEF TypeInv
    <2>3. rows' = rows + 1 /\ mem' = mem
      BY <1>5 DEF SignalInserts
    <2>4. \A q \in Checks : h'[q].t < rows'
      <3>1. \A q \in Checks : h'[q].t = h[q].t /\ h[q].t <= rows /\ h[q].t \in Nat
        BY <1>1, <1>2, <2>1, HandlerNames DEF TypeInv, HandlersInv, Handler
      <3> QED BY <1>1, <2>3, <3>1
    <2>5. rows < MaxRows /\ ~mem.active /\ ~Runs("partial") /\ ~Runs("close")
      BY <2>1 DEF RowInv, Runs
    <2> QED BY <1>1, <1>2, <2>1, <2>2, <2>3, <2>4, <2>5 DEF RowInv, Held, Terminal, Placing
  <1>6. CASE SignalPlaces
    <2>1. OthersStay("signal") /\ Pc("signal") = "place" /\ Pc("signal")' = "count"
      BY <1>6, SignalEffects DEF SignalPlaces, At, Pc
    <2>2. /\ trade'.entry /\ trade'.st = trade.st /\ trade'.qty = trade.qty /\ trade'.units = trade.units
          /\ trade'.exit = trade.exit /\ trade'.due = trade.due
      BY <1>1, <1>6 DEF SignalPlaces, Trade
    <2>3. rows' = rows /\ mem' = mem
      BY <1>6 DEF SignalPlaces
    <2>4. Placing /\ Runs("signal")
      BY <2>1 DEF Placing, Runs
    <2>5. trade.st = "ENTRY_PLACED" /\ \A q \in Checks : Runs(q)' => h'[q].t < rows'
      BY <1>2, <2>1, <2>3, <2>4, HandlerNames DEF RowInv
    <2> QED BY <1>1, <1>2, <2>1, <2>2, <2>3, <2>4, <2>5 DEF RowInv, Held, Terminal
  <1>7. CASE SignalFails
    <2>1. OthersStay("signal") /\ Pc("signal") = "place" /\ Pc("signal")' = "idle"
      BY <1>7, SignalEffects DEF SignalFails, At, Pc
    <2>2. /\ trade'.st = "CLOSED" /\ trade'.entry = trade.entry /\ trade'.qty = trade.qty
          /\ trade'.units = trade.units /\ trade'.exit = trade.exit /\ trade'.due = trade.due
      BY <1>1, <1>7 DEF SignalFails, Trade
    <2>3. rows' = rows /\ mem' = mem
      BY <1>7 DEF SignalFails
    <2> QED BY <1>1, <1>2, <2>1, <2>2, <2>3 DEF RowInv, Held, Terminal, Placing, Runs
  <1>8. CASE Answered("signal")
    <2>1. /\ OthersStay("signal") /\ Pc("signal") = "count" /\ Pc("signal")' = "write"
          /\ mem'.active = mem.active /\ trade' = trade /\ rows' = rows
      BY <1>8, HandlerNames, AnsweredEffects
    <2> QED BY <1>1, <1>0, <2>1, RowStays
  <1>11. CASE SignalLoses
    <2>1. OthersStay("signal") /\ Runs("signal") /\ Pc("signal")' = "idle" /\ ~Runs("signal")'
      BY <1>11, SignalEffects DEF SignalLoses, CallFails, At, Runs, Pc
    <2>2. /\ trade'.st = "CLOSED" /\ ~trade'.entry /\ trade'.units = 0 /\ trade'.qty = trade.qty
          /\ trade'.due = trade.due /\ 0 <= trade.qty
      BY <1>1, <1>11, LosesEffects DEF Trade
    <2>3. rows' = rows /\ mem' = mem
      BY <1>11 DEF SignalLoses
    <2>4. ~Placing' /\ ~Runs("partial")' /\ ~Held'
      BY <1>2, <2>1, <2>2 DEF Placing, RowInv, Held
    <2> QED BY <1>1, <2>1, <2>2, <2>3, <2>4 DEF RowInv
  <1>9. CASE SignalCounted
    <2>1. OthersStay("signal") /\ Pc("signal") = "write" /\ Pc("signal")' = "link"
      BY <1>9, SignalEffects DEF SignalCounted, WritesCount, At, Pc
    <2> QED BY <1>1, <1>0, <1>9, <2>1, RowStays DEF SignalCounted
  <1>10. CASE SignalLinks
    <2>1. OthersStay("signal") /\ Pc("signal") = "link" /\ Pc("signal")' = "idle"
      BY <1>10, SignalEffects DEF SignalLinks, At, Pc
    <2>2. /\ trade'.st = "ENTRY_OPEN" /\ trade'.entry = trade.entry /\ trade'.qty = trade.qty
          /\ trade'.units = trade.units /\ trade'.exit = trade.exit /\ trade'.due = trade.due
      BY <1>1, <1>10 DEF SignalLinks, Trade
    <2>3. rows' = rows
      BY <1>10 DEF SignalLinks
    <2> QED BY <1>1, <1>2, <2>1, <2>2, <2>3 DEF RowInv, Held, Terminal, Placing, Runs
  <1> QED BY <1>3, <1>4, <1>5, <1>6, <1>7, <1>8, <1>9, <1>10, <1>11 DEF Signal, SignalGoesOn

(* What a step of a check leaves of the signal and the bookings.            *)
LEMMA BesideCheck ==
    ASSUME TypeInv, NEW p \in Checks, OthersStay(p)
    PROVE  /\ \A q \in {"signal", "close", "other", "partial", "admin", "fatal"} :
                h'[q] = h[q] /\ Pc(q)' = Pc(q) /\ (Runs(q)' <=> Runs(q))
           /\ (Placing' <=> Placing)
           /\ \A q \in Checks : q # p => h'[q] = h[q] /\ Pc(q)' = Pc(q) /\ (Runs(q)' <=> Runs(q))
           /\ \A q \in Checks : h[q].t \in Nat /\ h[q].t <= rows
  <1>1. \A q \in {"signal", "close", "other", "partial", "admin", "fatal"} : q \in Handlers /\ q # p
    BY HandlerNames
  <1>2. \A q \in {"signal", "close", "other", "partial", "admin", "fatal"} :
            h'[q] = h[q] /\ Pc(q)' = Pc(q) /\ (Runs(q)' <=> Runs(q))
    BY <1>1 DEF OthersStay
  <1>3. \A q \in Checks : q \in Handlers
    BY HandlerNames
  <1>4. \A q \in Checks : q # p => h'[q] = h[q] /\ Pc(q)' = Pc(q) /\ (Runs(q)' <=> Runs(q))
    BY <1>3 DEF OthersStay
  <1>5. \A q \in Checks : h[q].t \in Nat /\ h[q].t <= rows
    BY <1>3 DEF TypeInv, HandlersInv, Handler
  <1> QED BY <1>2, <1>4, <1>5 DEF Placing

LEMMA LookingRow ==
    ASSUME TypeInv, RowInv, Looking
    PROVE  RowInv'
  <1>1. /\ rows \in Nat /\ mem \in Memory /\ trade \in Trade
        /\ "check" \in Checks /\ "flatten" \in Checks /\ Checks \subseteq Handlers
    BY HandlerNames DEF TypeInv
  <1>2. ASSUME NEW p \in Checks, OthersStay(p), trade' = trade, rows' = rows,
               mem'.active => mem.active,
               Pc(p)' = "idle" \/ (Runs(p) /\ h'[p].t \in {0, h[p].t})
        PROVE  RowInv'
    <2>1. \A q \in Checks : Runs(q)' => Runs(q) /\ h[q].t \in Nat /\ h'[q].t \in {0, h[q].t}
      BY <1>2, BesideCheck DEF Runs
    <2>2. \A q \in {"partial", "close"} : Runs(q)' => Runs(q)
      BY <1>2, BesideCheck
    <2>3. Pc("signal")' = Pc("signal")
      BY <1>2, BesideCheck
    <2> QED BY <1>1, <1>2, <2>1, <2>2, <2>3, RowStays
  <1>3. ASSUME NEW p \in Checks, OthersStay(p), trade' = trade, rows' = rows,
               mem'.active => mem.active, mem.active, trade.st # "ENTRY_PLACED"
        PROVE  RowInv'
    <2>1. Pc("signal")' = "idle" /\ Pc("signal") = "idle" /\ ~Placing
      BY <1>3, BesideCheck DEF RowInv, Runs, Placing
    <2>2. \A q \in {"partial", "close"} : Runs(q)' => Runs(q)
      BY <1>3, BesideCheck
    <2> QED BY <1>1, <1>3, <2>1, <2>2 DEF RowInv, Held, Terminal, Runs, Placing
  <1>4. CASE CheckBegins
    <2>1. /\ OthersStay("check") /\ mem.active /\ mem' = mem /\ trade' = trade /\ rows' = rows
          /\ trade.st # "ENTRY_PLACED"
      BY <1>4, LookingEffects DEF CheckBegins, CheckedStatuses
    <2> QED BY <1>1, <1>3, <2>1
  <1>5. CASE FlattenBegins
    <2>1. /\ OthersStay("flatten") /\ mem.active /\ trade' = trade /\ rows' = rows
          /\ trade.st # "ENTRY_PLACED"
      BY <1>5, LookingEffects DEF FlattenBegins, FlattenedStatuses, CheckedStatuses
    <2>2. mem'.active = mem.active
      BY <1>1, <1>5 DEF FlattenBegins, Sets, Memory
    <2> QED BY <1>1, <1>3, <2>1, <2>2
  <1>6. CASE CheckReadsDay
    <2>1. /\ OthersStay("check") /\ mem' = mem /\ trade' = trade /\ rows' = rows
          /\ Runs("check") /\ h'["check"].t \in {0, h["check"].t}
      BY <1>6, LookingEffects DEF CheckReadsDay, At, Runs, Pc
    <2> QED BY <1>1, <1>2, <2>1
  <1>7. CASE CheckWritesState
    <2>1. /\ OthersStay("check") /\ trade' = trade /\ rows' = rows
          /\ Runs("check") /\ h'["check"].t \in {0, h["check"].t}
      BY <1>7, LookingEffects DEF CheckWritesState, At, Runs, Pc
    <2>2. mem'.active = mem.active
      BY <1>1, <1>7 DEF CheckWritesState, Sets, Memory
    <2> QED BY <1>1, <1>2, <2>1, <2>2
  <1>8. ASSUME NEW p \in Checks, CheckGoesOn(p) \/ CheckThrows(p) PROVE RowInv'
    <2>1. CASE WritesKill(p)
      <3>1. /\ OthersStay(p) /\ mem' = mem /\ trade' = trade /\ rows' = rows
            /\ Pc(p)' = "idle" \/ (Runs(p) /\ h'[p].t \in {0, h[p].t})
        BY <2>1, LookingEffects DEF WritesKill, At, Runs, Pc
      <3> QED BY <1>2, <3>1
    <2>2. CASE ExitIsRefused(p)
      <3>1. OthersStay(p) /\ mem' = mem /\ trade' = trade /\ rows' = rows /\ Pc(p)' = "idle"
        BY <2>2, LookingEffects DEF ExitIsRefused
      <3> QED BY <1>2, <3>1
    <2>3. CASE CheckThrows(p)
      <3>1. OthersStay(p) /\ mem' = mem /\ trade' = trade /\ rows' = rows /\ Pc(p)' = "idle"
        BY <2>3, LookingEffects DEF CheckThrows, Throws
      <3> QED BY <1>2, <3>1
    <2>4. CASE Answered(p)
      <3>1. /\ OthersStay(p) /\ trade' = trade /\ rows' = rows /\ mem'.active = mem.active
            /\ Runs(p) /\ h'[p].t \in {0, h[p].t}
        BY <2>4, HandlerNames, AnsweredEffects
      <3> QED BY <1>2, <3>1
    <2>8. CASE ExitFails(p)
      <3>1. /\ OthersStay(p) /\ mem' = mem /\ trade' = trade /\ rows' = rows
            /\ Pc(p)' = "idle" \/ (Runs(p) /\ h'[p].t \in {0, h[p].t})
        BY <2>8, LookingEffects DEF ExitFails, CallFails, At, Runs, Pc
      <3> QED BY <1>2, <3>1
    <2>5. CASE Exits(p)
      <3>1. /\ OthersStay(p) /\ mem' = mem /\ rows' = rows
            /\ Runs(p) /\ h'[p].t = h[p].t
        BY <2>5, LookingEffects DEF Exits, At, Runs, Pc
      <3>2. /\ trade'.st = trade.st /\ trade'.entry = trade.entry /\ trade'.qty = trade.qty
            /\ trade'.units = trade.units /\ trade'.due = trade.due
            /\ trade'.exit = trade.exit \/ h[p].t = rows
        BY <2>5, TradeEffects
      <3>3. trade'.st = "ENTRY_PLACED" =>
              /\ ~trade'.exit /\ ~trade'.due
              /\ \A q \in Checks : Runs(q)' => h'[q].t < rows'
        BY <1>1, <3>1, <3>2, BesideCheck DEF RowInv
      <3>4. /\ \A q \in {"signal", "partial", "close"} : Pc(q)' = Pc(q) /\ (Runs(q)' <=> Runs(q))
            /\ (Placing' <=> Placing)
        BY <3>1, BesideCheck
      <3> QED BY <3>1, <3>2, <3>3, <3>4 DEF RowInv, Held, Terminal
    <2>6. CASE ExitFindsNothing(p)
      <3>1. OthersStay(p) /\ rows' = rows /\ Runs(p) /\ h[p].t = rows /\ ~Held
        BY <2>6, LookingEffects DEF ExitFindsNothing, MayExit, At, Runs, Pc
      <3>2. mem'.active = FALSE
        BY <1>1, <2>6 DEF ExitFindsNothing, Memory
      <3>3. ~Placing /\ ~Placing'
        BY <1>1, <3>1, BesideCheck DEF RowInv
      <3>4. \A q \in {"signal", "partial", "close"} : Pc(q)' = Pc(q) /\ (Runs(q)' <=> Runs(q))
        BY <3>1, BesideCheck
      <3>5. /\ trade'.st = "CLOSED" /\ trade'.entry = FALSE
            /\ trade'.units = trade.units /\ trade'.qty = trade.qty /\ trade'.due = trade.due
        BY <2>6, TradeEffects
      <3> QED BY <3>1, <3>2, <3>3, <3>4, <3>5 DEF RowInv, Held, Terminal
    <2>7. CASE ExitCounted(p)
      <3>1. OthersStay(p) /\ rows' = rows /\ mem' = mem /\ Runs(p) /\ Pc(p)' = "idle"
        BY <2>7, LookingEffects DEF ExitCounted, WritesCount, At, Runs, Pc
      <3>2. /\ trade'.units = trade.units /\ trade'.qty = trade.qty /\ trade'.exit = trade.exit
            /\ trade'.due = trade.due /\ trade'.entry = trade.entry
            /\ \/ trade'.st = trade.st
               \/ trade.st \in {"LIVE", "SL_CONFIRMED"} /\ trade'.st = "PANIC_EXIT_PLACED"
        BY <2>7, TradeEffects
      <3>3. /\ \A q \in {"signal", "partial", "close"} : Pc(q)' = Pc(q) /\ (Runs(q)' <=> Runs(q))
            /\ (Placing' <=> Placing)
            /\ \A q \in Checks : Runs(q)' => Runs(q) /\ h'[q].t = h[q].t
        BY <3>1, BesideCheck DEF Runs
      <3>4. CASE trade'.st = trade.st
        BY <3>1, <3>2, <3>3, <3>4 DEF RowInv, Held, Terminal
      <3>5. CASE trade.st \in {"LIVE", "SL_CONFIRMED"} /\ trade'.st = "PANIC_EXIT_PLACED"
        <4>1. ~Placing /\ ~Terminal
          BY <3>5 DEF RowInv, Terminal
        <4> QED BY <3>1, <3>2, <3>3, <3>5, <4>1 DEF RowInv, Held, Terminal
      <3> QED BY <3>2, <3>4, <3>5
    <2> QED BY <1>8, <2>1, <2>2, <2>3, <2>4, <2>5, <2>6, <2>7, <2>8 DEF CheckGoesOn
  <1> QED BY <1>4, <1>5, <1>6, <1>7, <1>8 DEF Looking, DayStep

(* What a step of another handler than a check leaves of the rest.          *)
LEMMA BesideOther ==
    ASSUME TypeInv, NEW p \in {"close", "other", "partial", "admin", "fatal"}, OthersStay(p)
    PROVE  /\ \A q \in Handlers : q # p => h'[q] = h[q] /\ Pc(q)' = Pc(q) /\ (Runs(q)' <=> Runs(q))
           /\ \A q \in {"signal", "check", "flatten"} :
                h'[q] = h[q] /\ Pc(q)' = Pc(q) /\ (Runs(q)' <=> Runs(q))
           /\ (Placing' <=> Placing)
           /\ \A q \in Checks : h'[q] = h[q] /\ Pc(q)' = Pc(q) /\ (Runs(q)' <=> Runs(q)) /\ h[q].t \in Nat
  <1>1. \A q \in {"signal", "check", "flatten"} : q \in Handlers /\ q # p
    BY HandlerNames
  <1>2. \A q \in {"signal", "check", "flatten"} :
            h'[q] = h[q] /\ Pc(q)' = Pc(q) /\ (Runs(q)' <=> Runs(q))
    BY <1>1 DEF OthersStay
  <1>3. \A q \in Checks : h[q].t \in Nat
    BY HandlerNames DEF TypeInv, HandlersInv, Handler
  <1> QED BY <1>2, <1>3, HandlerNames DEF Placing, OthersStay

(* A step of the world or between handlers leaves every handler.            *)
LEMMA HandlersStay ==
    ASSUME h' = h
    PROVE  /\ \A q : h'[q] = h[q] /\ Pc(q)' = Pc(q) /\ (Runs(q)' <=> Runs(q))
           /\ (Placing' <=> Placing)
  BY DEF Pc, Runs, Placing

LEMMA BookingRow ==
    ASSUME TypeInv, RowInv, Booking
    PROVE  RowInv'
  <1>1. rows \in Nat /\ mem \in Memory /\ trade \in Trade /\ Checks = {"check", "flatten"}
        /\ {"close", "partial"} \subseteq Handlers
    BY HandlerNames DEF TypeInv
  <1>2. ASSUME NEW p \in {"close", "partial"}, OthersStay(p), trade' = trade, rows' = rows,
               mem'.active => mem.active, Runs(p)
        PROVE  RowInv'
    <2>1. \A q \in Checks : Runs(q)' => Runs(q) /\ h[q].t \in Nat /\ h'[q].t \in {0, h[q].t}
      BY <1>2, BesideOther
    <2>2. \A q \in {"partial", "close"} : Runs(q)' => Runs(q)
      BY <1>1, <1>2, BesideOther
    <2>3. Pc("signal")' = Pc("signal")
      BY <1>2, BesideOther
    <2> QED BY <1>1, <1>2, <2>1, <2>2, <2>3, RowStays
  <1>3. ASSUME NEW p \in {"close", "partial"}, BookReads(p) PROVE RowInv'
    <2>1. OthersStay(p) /\ trade' = trade /\ rows' = rows /\ mem' = mem /\ Runs(p)
      BY <1>3, BookingEffects DEF BookReads, At, Runs, Pc
    <2> QED BY <1>2, <2>1
  <1>4. ASSUME NEW p \in {"close", "partial"}, BookWrites(p) PROVE RowInv'
    <2>1. OthersStay(p) /\ trade' = trade /\ rows' = rows /\ mem' = mem /\ Runs(p)
      BY <1>4, BookingEffects DEF BookWrites, At, Runs, Pc
    <2> QED BY <1>2, <2>1
  <1>5. ASSUME NEW p \in {"close", "partial"}, BookFails(p) PROVE RowInv'
    <2>1. OthersStay(p) /\ trade' = trade /\ rows' = rows /\ mem' = mem /\ Runs(p)
      BY <1>5, BookingEffects DEF BookFails, Runs, Pc
    <2> QED BY <1>2, <2>1
  <1>6. CASE Finalize
    <2>1. OthersStay("close") /\ trade' = trade /\ rows' = rows /\ Runs("close")
      BY <1>6, BookingEffects DEF Finalize, At, Runs, Pc
    <2>2. mem'.active = FALSE
      BY <1>1, <1>6 DEF Finalize, Memory
    <2> QED BY <1>2, <2>1, <2>2
  <1>7. CASE PartialWritesState
    <2>1. OthersStay("partial") /\ trade' = trade /\ rows' = rows /\ mem' = mem /\ Runs("partial")
      BY <1>7, BookingEffects DEF PartialWritesState, At, Runs, Pc
    <2> QED BY <1>2, <2>1
  <1>8. CASE CloseBegins
    <2>1. /\ OthersStay("close") /\ rows' = rows /\ mem' = mem
          /\ h["signal"] = Idle /\ trade.due
      BY <1>8, BookingEffects DEF CloseBegins, QueueFree, Queued
    <2>2. Pc("signal") = "idle" /\ Pc("signal")' = "idle" /\ ~Placing'
          /\ (Runs("partial")' => Runs("partial"))
      BY <1>1, <2>1, BesideOther DEF Pc, Idle, Placing
    <2> QED BY <1>8, <2>1, <2>2, TradeEffects DEF RowInv, Held, Terminal, Runs
  <1>9. CASE PartialBegins
    <2>1. /\ OthersStay("partial") /\ rows' = rows /\ mem' = mem
          /\ trade.st \in {"LIVE", "SL_CONFIRMED"} /\ trade.units = 2 /\ trade.qty = 2
      BY <1>9, BookingEffects DEF PartialBegins
    <2>2. /\ trade'.st = trade.st /\ trade'.entry = trade.entry /\ trade'.qty = trade.qty
          /\ trade'.units = 1 /\ trade'.due = trade.due
      BY <1>1, <1>9 DEF PartialBegins, Trade
    <2>3. ~Terminal /\ ~Placing /\ Pc("signal") \notin {"gate", "insert", "place"}
      BY <2>1 DEF RowInv, Terminal, Placing
    <2>4. ~Runs("signal")
      <3>1. Runs("signal") => Pc("signal") \in {"gate", "insert", "place", "count", "write", "link"}
        BY PcsOfEach, HandlerNames DEF TypeInv, HandlersInv
      <3> QED BY <2>3, <3>1 DEF Placing
    <2>5. Pc("signal")' = Pc("signal") /\ ~Runs("signal")' /\ ~Placing'
      BY <2>1, <2>3, <2>4, BesideOther
    <2> QED BY <2>1, <2>2, <2>3, <2>5 DEF RowInv, Held, Terminal, Runs
  <1>10. CASE PartialWritesQty
    <2>1. /\ OthersStay("partial") /\ rows' = rows /\ mem' = mem /\ Runs("partial")
          /\ Pc("partial")' = "idle"
      BY <1>10, BookingEffects DEF PartialWritesQty, At, Runs, Pc
    <2>2. /\ trade'.st = trade.st /\ trade'.entry = trade.entry /\ trade'.qty = 1
          /\ trade'.units = trade.units /\ trade'.due = trade.due
          /\ trade'.exit = trade.exit
      BY <1>1, <1>10 DEF PartialWritesQty, Trade
    <2>3. ~Runs("signal") /\ ~Runs("signal")'
      BY <2>1, BesideOther DEF RowInv
    <2>4. \A q \in Checks : h'[q] = h[q] /\ (Runs(q)' <=> Runs(q))
      BY <2>1, BesideOther
    <2>5. ~Runs("partial")'
      BY <2>1 DEF Runs
    <2>6. ~Placing' /\ Pc("signal")' \notin {"gate", "insert", "place"}
      BY <2>3 DEF Runs, Placing
    <2> QED BY <2>1, <2>2, <2>3, <2>4, <2>5, <2>6 DEF RowInv, Held, Terminal
  <1>11. CASE UpdateIsDropped \/ DoubleExit
    <2>1. /\ trade'.st = trade.st /\ trade'.due = FALSE /\ trade'.units = trade.units
          /\ trade'.qty = trade.qty /\ trade'.exit = trade.exit /\ trade'.entry = trade.entry
      BY <1>11, TradeEffects DEF UpdateIsDropped, DoubleExit
    <2>2. rows' = rows /\ h["signal"] = Idle
      BY <1>11 DEF UpdateIsDropped, DoubleExit, CloseIsLate, QueueFree, Queued
    <2>3. \A q \in {"signal", "check", "flatten", "partial"} :
              h'[q] = h[q] /\ Pc(q)' = Pc(q) /\ (Runs(q)' <=> Runs(q))
      BY <1>11, HandlersStay, BookingEffects, HandlerNames DEF OthersStay
    <2>4. ~Runs("signal")' /\ ~Placing' /\ Pc("signal")' = "idle"
      BY <2>2, <2>3 DEF Runs, Pc, Idle, Placing
    <2> QED BY <1>1, <2>1, <2>2, <2>3, <2>4 DEF RowInv, Held, Terminal
  <1>12. CASE DoubleExitHalts \/ DoubleExitThrows
    <2>1. OthersStay("close") /\ trade' = trade /\ rows' = rows /\ Runs("close")
      BY <1>12, BookingEffects DEF DoubleExitHalts, DoubleExitThrows, Throws, At, Runs, Pc
    <2>2. mem'.active = mem.active
      BY <1>1, <1>12 DEF DoubleExitHalts, DoubleExitThrows, Throws, Memory
    <2> QED BY <1>2, <2>1, <2>2
  <1> QED BY <1>3, <1>4, <1>5, <1>6, <1>7, <1>8, <1>9, <1>10, <1>11, <1>12 DEF Booking

LEMMA BetweenRow ==
    ASSUME TypeInv, RowInv, World \/ Between
    PROVE  RowInv'
  <1>1. rows \in Nat /\ mem \in Memory /\ trade \in Trade
        /\ \A q \in Checks : h[q].t \in Nat
    BY HandlerNames DEF TypeInv, HandlersInv, Handler
  <1>0. CASE Other
    <2>1. OthersStay("other") /\ trade' = trade /\ rows' = rows /\ mem'.active = mem.active
      BY <1>0, OtherEffects
    <2>2. \A q \in {"signal", "check", "flatten", "partial", "close"} :
              h'[q] = h[q] /\ Pc(q)' = Pc(q) /\ (Runs(q)' <=> Runs(q))
      BY <2>1, HandlerNames DEF OthersStay
    <2> QED BY <1>1, <2>1, <2>2, HandlerNames, RowStays
  <1> SUFFICES ASSUME ~Other PROVE RowInv'
    BY <1>0
  <1>2. h' = h /\ rows' = rows
    BY DEF World, Between, PriceMoves, EntryFills, ExitFills, DayEnds, Protects, SlaConfirms,
           Recovers, SnapshotLands, KillsInMemory
  <1>3. /\ \A q : h'[q] = h[q] /\ Pc(q)' = Pc(q) /\ (Runs(q)' <=> Runs(q))
        /\ (Placing' <=> Placing)
    BY <1>2, HandlersStay
  <1>4. CASE trade' = trade /\ mem'.active = mem.active
    BY <1>1, <1>2, <1>3, <1>4, RowStays
  <1>5. CASE PriceMoves
    <2>1. /\ trade'.st = trade.st /\ trade'.entry = trade.entry /\ trade'.qty = trade.qty
          /\ trade'.units = trade.units /\ trade'.due = trade.due /\ trade'.exit = trade.exit
          /\ mem' = mem
      BY <1>1, <1>5 DEF PriceMoves, Trade
    <2> QED BY <1>2, <1>3, <2>1 DEF RowInv, Held, Terminal
  <1>6. CASE EntryFills
    <2>1. trade.entry /\ mem' = mem /\ trade.qty \in 0 .. 2
      BY <1>1, <1>6 DEF EntryFills, Trade
    <2>2. Pc("signal") # "place" /\ ~Runs("partial")
      BY <2>1 DEF RowInv
    <2>3. /\ trade'.entry = FALSE /\ trade'.units = trade.qty
          /\ trade'.st = trade.st /\ trade'.qty = trade.qty
          /\ trade'.exit = trade.exit /\ trade'.due = trade.due
      BY <1>6, TradeEffects
    <2>4. Terminal' = Terminal /\ ~Terminal
      BY <2>1, <2>3 DEF RowInv, Terminal
    <2>5. trade'.units <= trade'.qty /\ ~trade'.due
      BY <2>1, <2>3 DEF RowInv
    <2> QED BY <1>2, <1>3, <2>1, <2>2, <2>3, <2>4, <2>5 DEF RowInv
  <1>7. CASE ExitFills
    <2>1. Held /\ ~Terminal /\ trade.st # "ENTRY_PLACED" /\ ~Placing /\ mem' = mem
      BY <1>7 DEF ExitFills, RowInv, Held, Terminal
    <2>2. ~Runs("signal")
      <3>1. Runs("signal") => Pc("signal") \in {"gate", "insert", "place", "count", "write", "link"}
        BY PcsOfEach, HandlerNames DEF TypeInv, HandlersInv
      <3> QED BY <2>1, <3>1 DEF Placing, RowInv
    <2>3. /\ trade'.units = 0
          /\ trade'.st = trade.st /\ trade'.qty = trade.qty /\ trade'.entry = trade.entry
          /\ trade'.exit = trade.exit
      BY <1>7, TradeEffects
    <2>4. ~Held' /\ 0 <= trade'.qty /\ ~trade'.entry
      BY <1>1, <2>1, <2>3 DEF Held, Trade, RowInv
    <2>5. Pc("signal")' \notin {"gate", "insert", "place"}
      BY <1>3, <2>2 DEF Runs
    <2>6. ~Placing' /\ Terminal' = Terminal /\ trade'.st # "ENTRY_PLACED"
      BY <1>3, <2>1, <2>3 DEF Terminal
    <2>7. ~Runs("signal")'
      BY <1>3, <2>2
    <2>8. Runs("partial")' => trade'.qty = 2
      BY <1>3, <2>3 DEF RowInv
    <2>9. rows' <= MaxRows /\ trade'.units <= trade'.qty
      BY <1>2, <2>3, <2>4 DEF RowInv
    <2> QED BY <2>3, <2>4, <2>5, <2>6, <2>7, <2>8, <2>9 DEF RowInv
  <1>8. CASE Protects
    <2>1. /\ trade'.st = "LIVE" /\ trade'.entry = trade.entry /\ trade'.qty = trade.qty
          /\ trade'.units = trade.units /\ trade'.due = trade.due /\ mem' = mem
      BY <1>1, <1>8 DEF Protects, Trade
    <2>2. h["signal"] = Idle
      BY <1>8 DEF Protects, QueueFree, Queued
    <2>3. Pc("signal") = "idle"
      BY <2>2 DEF Pc, Idle
    <2> QED BY <1>2, <1>3, <2>1, <2>3 DEF RowInv, Held, Terminal, Placing, Runs
  <1>9. CASE SlaConfirms
    <2>1. /\ trade'.st = "SL_CONFIRMED" /\ trade'.entry = trade.entry /\ trade'.qty = trade.qty
          /\ trade'.units = trade.units /\ trade'.due = trade.due /\ mem' = mem
          /\ trade.st = "LIVE"
      BY <1>1, <1>9 DEF SlaConfirms, Trade
    <2>2. ~Terminal /\ ~Placing
      BY <2>1 DEF RowInv, Terminal
    <2> QED BY <1>2, <1>3, <2>1, <2>2 DEF RowInv, Held, Terminal
  <1>10. CASE Recovers
    <2>1. /\ trade'.st = (IF Held THEN "LIVE" ELSE "CLOSED")
          /\ trade'.entry = FALSE /\ trade'.qty = trade.qty
          /\ trade'.units = trade.units /\ trade'.due = trade.due
      BY <1>10, TradeEffects
    <2>2. h["signal"] = Idle
      BY <1>10 DEF Recovers, QueueFree, Queued
    <2>3. Pc("signal") = "idle"
      BY <2>2 DEF Pc, Idle
    <2> QED BY <1>2, <1>3, <2>1, <2>3 DEF RowInv, Held, Terminal, Placing, Runs
  <1>11. CASE DayEnds \/ SnapshotLands
    BY <1>4, <1>11 DEF DayEnds, SnapshotLands
  <1>12. CASE KillsInMemory
    BY <1>1, <1>4, <1>12 DEF KillsInMemory, Sets, Memory
  <1> QED BY <1>5, <1>6, <1>7, <1>8, <1>9, <1>10, <1>11, <1>12 DEF World, Between

LEMMA ProcessRow ==
    ASSUME TypeInv, RowInv, Process
    PROVE  RowInv'
  <1>1. rows \in Nat /\ mem \in Memory /\ trade \in Trade /\ Checks = {"check", "flatten"}
        /\ {"signal", "close", "partial", "check", "flatten"} \subseteq Handlers
    BY HandlerNames DEF TypeInv
  <1>2. ASSUME NEW p \in {"admin", "fatal"}, OthersStay(p), trade' = trade, rows' = rows,
               mem'.active = mem.active
        PROVE  RowInv'
    <2>1. \A q \in Checks : Runs(q)' => Runs(q) /\ h[q].t \in Nat /\ h'[q].t \in {0, h[q].t}
      BY <1>2, BesideOther
    <2>2. \A q \in {"partial", "close"} : Runs(q)' => Runs(q)
      BY <1>1, <1>2, BesideOther
    <2>3. Pc("signal")' = Pc("signal")
      BY <1>2, BesideOther
    <2> QED BY <1>1, <1>2, <2>1, <2>2, <2>3, RowStays
  <1>3. CASE AdminSets
    <2>1. OthersStay("admin") /\ trade' = trade /\ rows' = rows
      BY <1>3, ProcessEffects DEF AdminSets
    <2>2. mem'.active = mem.active
      BY <1>1, <1>3 DEF AdminSets, Sets, Memory
    <2> QED BY <1>2, <2>1, <2>2
  <1>4. CASE AdminWrites
    <2>1. OthersStay("admin") /\ trade' = trade /\ rows' = rows /\ mem' = mem
      BY <1>4, ProcessEffects DEF AdminWrites
    <2> QED BY <1>2, <2>1
  <1>5. CASE Halts
    <2>1. OthersStay("fatal") /\ trade' = trade /\ rows' = rows
      BY <1>5, ProcessEffects DEF Halts
    <2>2. mem'.active = mem.active
      BY <1>1, <1>5 DEF Halts, Memory
    <2> QED BY <1>2, <2>1, <2>2
  <1>6. CASE HaltPersists
    <2>1. OthersStay("fatal") /\ trade' = trade /\ rows' = rows /\ mem' = mem
      BY <1>6, ProcessEffects DEF HaltPersists
    <2> QED BY <1>2, <2>1
  <1>7. CASE Ends
    <2>1. \A q \in Handlers : Pc(q)' = "idle" /\ ~Runs(q)'
      BY <1>7, ProcessEffects
    <2>2. /\ trade'.st = trade.st /\ trade'.entry = trade.entry /\ trade'.qty = trade.qty
          /\ trade'.units = trade.units /\ trade'.due = (trade.due /\ ~Terminal)
      BY <1>7, EndsEffects
    <2>3. rows' = rows /\ trade'.exit = trade.exit
      BY <1>1, <1>7 DEF Ends, Trade
    <2> QED BY <1>1, <2>1, <2>2, <2>3 DEF RowInv, Held, Terminal, Placing
  <1>8. CASE Restart
    <2>1. /\ trade' = trade /\ rows' = rows
          /\ \A q \in Handlers : ~Runs(q)' /\ Pc(q)' = "idle"
      BY <1>8, RestartEffects
    <2> QED BY <1>1, <2>1 DEF RowInv, Held, Terminal, Placing
  <1> QED BY <1>3, <1>4, <1>5, <1>6, <1>7, <1>8 DEF Process, Crash, ExitsAfterHalt

LEMMA NextRow == TypeInv /\ RowInv /\ [Next]_vars => RowInv'
  <1>1. ASSUME RowInv, UNCHANGED vars PROVE RowInv'
    BY <1>1 DEF RowInv, Held, Terminal, Placing, Runs, Pc, vars, db
  <1> QED BY <1>1, SignalRow, LookingRow, BookingRow, BetweenRow, ProcessRow DEF Next

-----------------------------------------------------------------------------
(* The switch.                                                              *)
(* A step that neither sets the switch nor takes it back, and brings no     *)
(* handler to the point where it writes the switch or places an entry.      *)
KillKept ==
    /\ mem'.up = mem.up /\ mem'.kill = mem.kill /\ mem'.halted = mem.halted
    /\ hist'.cleared = hist.cleared /\ hist'.slipped = hist.slipped
    /\ asked' = asked /\ setup' = setup
LEMMA KillStays ==
    ASSUME KillInv, KillKept, day'.kill = day.kill, Runs("fatal")' => Runs("fatal"),
           \A p \in Checks : Pc(p)' = "kill" => Pc(p) = "kill",
           Pc("close")' = "double" => Pc("close") = "double",
           Runs("admin")' => Runs("admin") /\ h'["admin"].n = h["admin"].n,
           Pc("signal")' \in {"insert", "place"} => Pc("signal") \in {"insert", "place"}
    PROVE  KillInv'
  BY DEF KillInv, KillKept, Guarded

LEMMA SignalKill ==
    ASSUME TypeInv, KillInv, Signal
    PROVE  KillInv'
  <1>1. mem \in Memory /\ day \in Day /\ hist \in History /\ Checks = {"check", "flatten"}
    BY HandlerNames DEF TypeInv
  <1>2. ASSUME OthersStay("signal")
        PROVE  /\ Runs("fatal")' => Runs("fatal")
               /\ \A p \in Checks : Pc(p)' = "kill" => Pc(p) = "kill"
               /\ Pc("close")' = "double" => Pc("close") = "double"
               /\ Runs("admin")' => Runs("admin") /\ h'["admin"].n = h["admin"].n
    BY <1>1, <1>2, HandlerNames DEF OthersStay
  <1>3. CASE SignalReads
    <2>1. OthersStay("signal") /\ Pc("signal")' = "gate"
      BY <1>3, SignalEffects
    <2> QED BY <1>2, <1>3, <2>1, KillStays DEF SignalReads, KillKept, db
  <1>4. CASE SignalGate
    <2>1. /\ OthersStay("signal") /\ mem.up
          /\ Pc("signal")' = "idle" \/ (CanTrade /\ Pc("signal")' = "insert")
      BY <1>4, SignalEffects DEF SignalGate, At
    <2>2. KillKept /\ day' = day
      BY <1>4 DEF SignalGate, KillKept, db
    <2>3. CASE Pc("signal")' = "idle"
      BY <1>2, <2>1, <2>2, <2>3, KillStays
    <2>4. CASE CanTrade
      <3>1. hist.slipped = 0
        BY <1>1, <2>1, <2>4 DEF KillInv, CanTrade, History
      <3> QED BY <1>2, <2>1, <2>2, <3>1 DEF KillInv, KillKept, Guarded
    <2> QED BY <2>1, <2>3, <2>4
  <1>5. CASE SignalInserts
    <2>1. OthersStay("signal") /\ Pc("signal") = "insert"
      BY <1>5, SignalEffects DEF SignalInserts, At, Pc
    <2> QED BY <1>2, <1>5, <2>1, KillStays DEF SignalInserts, KillKept, db
  <1>6. CASE SignalPlaces
    <2>1. OthersStay("signal") /\ mem.up /\ Pc("signal") = "place" /\ Pc("signal")' = "count"
      BY <1>6, SignalEffects DEF SignalPlaces, At, Pc
    <2>2. /\ hist'.cleared = hist.cleared
          /\ hist'.slipped = hist.slipped + IF KillInForce THEN 1 ELSE 0
      <3>1. PICK n \in Nat : n = IF KillInForce THEN 1 ELSE 0
        OBVIOUS
      <3>2. Sends(1, n)
        BY <1>6, <3>1 DEF SignalPlaces
      <3> QED BY <3>1, <3>2, SendsEffects
    <2>3. hist.slipped = 0
      BY <1>1, <2>1 DEF KillInv, History
    <2>4. KillInForce => mem.kill \/ mem.halted
      BY <2>1 DEF KillInv, Guarded, KillInForce
    <2>5. hist'.slipped = (IF KillInForce THEN 1 ELSE 0)
      BY <2>2, <2>3
    <2>6. mem' = mem /\ day' = day /\ setup' = setup /\ asked' = asked
      BY <1>6 DEF SignalPlaces, db
    <2> QED BY <1>2, <2>1, <2>2, <2>4, <2>5, <2>6 DEF KillInv, Guarded
  <1>7. CASE SignalFails
    <2>1. OthersStay("signal") /\ Pc("signal")' = "idle"
      BY <1>7, SignalEffects
    <2> QED BY <1>2, <1>7, <2>1, KillStays DEF SignalFails, KillKept, db
  <1>8. CASE Answered("signal")
    <2>1. OthersStay("signal") /\ Pc("signal")' = "write"
      BY <1>8, SignalEffects
    <2>2. KillKept /\ day' = day
      BY <1>8, HandlerNames, AnsweredEffects DEF KillKept
    <2> QED BY <1>2, <2>1, <2>2, KillStays
  <1>11. CASE SignalLoses
    <2>1. OthersStay("signal") /\ Pc("signal")' = "idle"
      BY <1>11, SignalEffects
    <2>2. KillKept /\ day' = day
      BY <1>11, LosesEffects DEF SignalLoses, KillKept, db
    <2> QED BY <1>2, <2>1, <2>2, KillStays
  <1>9. CASE SignalCounted
    <2>1. OthersStay("signal") /\ Pc("signal")' = "link"
      BY <1>9, SignalEffects
    <2>2. KillKept /\ day'.kill = day.kill
      BY <1>1, <1>9 DEF SignalCounted, WritesCount, Day, KillKept
    <2> QED BY <1>2, <2>1, <2>2, KillStays
  <1>10. CASE SignalLinks
    <2>1. OthersStay("signal") /\ Pc("signal")' = "idle"
      BY <1>10, SignalEffects
    <2>2. KillKept /\ day' = day
      BY <1>1, <1>10 DEF SignalLinks, Memory, KillKept, db
    <2> QED BY <1>2, <2>1, <2>2, KillStays
  <1> QED BY <1>3, <1>4, <1>5, <1>6, <1>7, <1>8, <1>9, <1>10, <1>11 DEF Signal, SignalGoesOn

(* A step that sets the switch guards the document.                         *)
LEMMA SetsKill ==
    ASSUME TypeInv, KillInv, Sets(TRUE), hist'.slipped = hist.slipped,
           setup' = setup, asked' = asked,
           Runs("fatal")' => Runs("fatal"),
           Runs("admin")' => Runs("admin") /\ h'["admin"].n = h["admin"].n,
           Pc("signal")' = Pc("signal")
    PROVE  KillInv'
  <1>1. mem'.kill = TRUE /\ mem'.halted = mem.halted
    BY DEF Sets, TypeInv, Memory
  <1> QED BY <1>1 DEF KillInv, Guarded

LEMMA LookingKill ==
    ASSUME TypeInv, KillInv, Looking
    PROVE  KillInv'
  <1>1. mem \in Memory /\ day \in Day /\ hist \in History /\ Checks = {"check", "flatten"}
        /\ "check" \in Checks /\ "flatten" \in Checks
    BY HandlerNames DEF TypeInv
  <1>2. ASSUME NEW p \in Checks, OthersStay(p)
        PROVE  /\ Runs("fatal")' => Runs("fatal")
               /\ Runs("admin")' => Runs("admin") /\ h'["admin"].n = h["admin"].n
               /\ Pc("signal")' = Pc("signal") /\ Pc("close")' = Pc("close")
               /\ \A q \in Checks \ {p} : Pc(q)' = Pc(q)
    BY <1>2, BesideCheck
  <1>3. ASSUME NEW p \in Checks, OthersStay(p), Pc(p)' # "kill", KillKept, day'.kill = day.kill
        PROVE  KillInv'
    <2>1. \A q \in Checks : Pc(q)' = "kill" => Pc(q) = "kill"
      BY <1>2, <1>3
    <2> QED BY <1>2, <1>3, <2>1, KillStays
  <1>4. CASE CheckBegins
    <2>1. OthersStay("check") /\ Pc("check")' # "kill" /\ KillKept /\ day' = day
      BY <1>4, LookingEffects DEF CheckBegins, KillKept, db
    <2> QED BY <1>1, <1>3, <2>1
  <1>5. CASE FlattenBegins
    <2>1. OthersStay("flatten") /\ Sets(TRUE) /\ setup' = setup /\ asked' = asked
      BY <1>5, LookingEffects DEF FlattenBegins
    <2>2. hist'.slipped = hist.slipped
      BY <1>1, <1>5 DEF FlattenBegins, History
    <2> QED BY <1>1, <1>2, <2>1, <2>2, SetsKill
  <1>6. CASE CheckReadsDay
    <2>1. OthersStay("check") /\ Pc("check")' # "kill" /\ KillKept /\ day' = day
      BY <1>6, LookingEffects DEF CheckReadsDay, KillKept, db
    <2> QED BY <1>1, <1>3, <2>1
  <1>7. CASE CheckWritesState
    <2>1. OthersStay("check") /\ setup' = setup /\ asked' = asked
      BY <1>7, LookingEffects DEF CheckWritesState
    <2>2. CASE h["check"].s = "HARD_STOP"
      <3>1. Sets(TRUE) /\ hist' = [hist EXCEPT !.cleared = FALSE]
        BY <1>7, <2>2 DEF CheckWritesState
      <3>2. hist'.slipped = hist.slipped
        BY <1>1, <3>1 DEF History
      <3> QED BY <1>1, <1>2, <2>1, <3>1, <3>2, SetsKill
    <2>3. CASE h["check"].s # "HARD_STOP"
      <3>1. Pc("check")' # "kill" /\ mem' = mem /\ hist' = hist
        BY <1>7, <2>3, LookingEffects DEF CheckWritesState
      <3>2. day'.kill = day.kill
        BY <1>1, <1>7 DEF CheckWritesState, Day
      <3> QED BY <1>1, <1>3, <2>1, <3>1, <3>2 DEF KillKept
    <2> QED BY <2>2, <2>3
  <1>8. ASSUME NEW p \in Checks, CheckGoesOn(p) \/ CheckThrows(p) PROVE KillInv'
    <2>1. CASE WritesKill(p)
      <3>1. OthersStay(p) /\ Pc(p)' # "kill" /\ Pc(p) = "kill" /\ KillKept
        BY <2>1, LookingEffects DEF WritesKill, KillKept, At, Pc
      <3>2. Guarded
        BY <3>1 DEF KillInv, Guarded
      <3>3. \A q \in Checks : Pc(q)' = "kill" => Pc(q) = "kill"
        BY <1>2, <3>1
      <3> QED BY <1>2, <3>1, <3>2, <3>3 DEF KillInv, KillKept, Guarded
    <2>2. CASE ExitIsRefused(p)
      <3>1. OthersStay(p) /\ Pc(p)' # "kill" /\ KillKept /\ day' = day
        BY <2>2, LookingEffects DEF ExitIsRefused, KillKept, db
      <3> QED BY <1>3, <3>1
    <2>3. CASE CheckThrows(p)
      <3>1. OthersStay(p) /\ Pc(p)' # "kill" /\ KillKept /\ day' = day
        BY <2>3, LookingEffects DEF CheckThrows, Throws, KillKept, db
      <3> QED BY <1>3, <3>1
    <2>4. CASE Answered(p)
      <3>1. p \in Placers
        BY HandlerNames
      <3>2. OthersStay(p) /\ Pc(p)' # "kill" /\ day' = day /\ KillKept
        BY <2>4, <3>1, AnsweredEffects DEF KillKept
      <3> QED BY <1>3, <3>2
    <2>8. CASE ExitFails(p)
      <3>1. OthersStay(p) /\ Pc(p)' # "kill" /\ day' = day
        BY <2>8, LookingEffects DEF ExitFails, db
      <3>2. KillKept
        BY <2>8, HandlerNames, ForgottenType, ForgetsEffects DEF ExitFails, KillKept
      <3> QED BY <1>3, <3>1, <3>2
    <2>5. CASE Exits(p)
      <3>1. OthersStay(p) /\ Pc(p)' # "kill" /\ day' = day
        BY <2>5, LookingEffects DEF Exits, db
      <3>2. KillKept
        BY <1>1, <2>5, SendsEffects DEF Exits, KillKept, History
      <3> QED BY <1>3, <3>1, <3>2
    <2>6. CASE ExitFindsNothing(p)
      <3>1. OthersStay(p) /\ Pc(p)' # "kill" /\ day' = day
        BY <2>6, LookingEffects DEF ExitFindsNothing, db
      <3>2. KillKept
        BY <1>1, <2>6, TradeEffects DEF ExitFindsNothing, Memory, KillKept
      <3> QED BY <1>3, <3>1, <3>2
    <2>7. CASE ExitCounted(p)
      <3>1. OthersStay(p) /\ Pc(p)' # "kill" /\ KillKept
        BY <2>7, LookingEffects DEF ExitCounted, KillKept
      <3>2. day'.kill = day.kill
        BY <1>1, <2>7 DEF ExitCounted, WritesCount, Day
      <3> QED BY <1>3, <3>1, <3>2
    <2> QED BY <1>8, <2>1, <2>2, <2>3, <2>4, <2>5, <2>6, <2>7, <2>8 DEF CheckGoesOn
  <1> QED BY <1>4, <1>5, <1>6, <1>7, <1>8 DEF Looking, DayStep

LEMMA BookingKill ==
    ASSUME TypeInv, KillInv, Booking
    PROVE  KillInv'
  <1>1. mem \in Memory /\ day \in Day /\ hist \in History
    BY DEF TypeInv
  <1>2. ASSUME NEW p \in {"close", "partial"}, OthersStay(p), KillKept, day'.kill = day.kill,
               p = "close" => Pc(p)' # "double"
        PROVE  KillInv'
    <2>1. /\ Runs("fatal")' => Runs("fatal")
          /\ Runs("admin")' => Runs("admin") /\ h'["admin"].n = h["admin"].n
      BY <1>2, HandlerNames, BesideOther
    <2>2. /\ Pc("signal")' = Pc("signal")
          /\ \A q \in Checks : Pc(q)' = "kill" => Pc(q) = "kill"
      BY <1>2, BesideOther
    <2>3. Pc("close")' = "double" => Pc("close") = "double"
      BY <1>2, HandlerNames, BesideOther
    <2> QED BY <1>2, <2>1, <2>2, <2>3, KillStays
  <1>3. ASSUME NEW p \in {"close", "partial"}, BookReads(p) \/ BookWrites(p) \/ BookFails(p)
        PROVE  KillInv'
    <2>1. OthersStay(p) /\ Pc(p)' # "double"
      BY <1>3, BookingEffects
    <2>2. KillKept
      BY <1>1, <1>3 DEF BookReads, BookWrites, BookFails, KillKept, History
    <2>3. day'.kill = day.kill
      BY <1>1, <1>3 DEF BookReads, BookWrites, BookFails, Day, db
    <2> QED BY <1>2, <2>1, <2>2, <2>3
  <1>4. CASE CloseBegins \/ Finalize
    <2>1. OthersStay("close") /\ Pc("close")' # "double" /\ day' = day
      BY <1>4, BookingEffects DEF CloseBegins, Finalize, db
    <2>2. KillKept
      BY <1>1, <1>4 DEF CloseBegins, Finalize, KillKept, Memory
    <2> QED BY <1>2, <2>1, <2>2
  <1>5. CASE PartialBegins \/ PartialWritesState \/ PartialWritesQty
    <2>1. OthersStay("partial")
      BY <1>5, BookingEffects
    <2>2. KillKept
      BY <1>1, <1>5 DEF PartialBegins, PartialWritesState, PartialWritesQty, KillKept, History
    <2>3. day'.kill = day.kill
      BY <1>1, <1>5 DEF PartialBegins, PartialWritesState, PartialWritesQty, Day, db
    <2> QED BY <1>2, <2>1, <2>2, <2>3
  <1>6. CASE UpdateIsDropped
    <2>1. KillKept /\ day' = day /\ h' = h
      BY <1>6 DEF UpdateIsDropped, KillKept, db
    <2>2. \A q : h'[q] = h[q] /\ Pc(q)' = Pc(q) /\ (Runs(q)' <=> Runs(q))
      BY <2>1, HandlersStay
    <2> QED BY <2>1, <2>2, KillStays
  <1>7. CASE DoubleExit
    <2>1. OthersStay("close") /\ Sets(TRUE) /\ setup' = setup /\ asked' = asked
      BY <1>7, BookingEffects DEF DoubleExit
    <2>2. hist'.slipped = hist.slipped
      BY <1>1, <1>7 DEF DoubleExit, History
    <2>3. /\ Runs("fatal")' => Runs("fatal")
          /\ Runs("admin")' => Runs("admin") /\ h'["admin"].n = h["admin"].n
          /\ Pc("signal")' = Pc("signal")
      BY <2>1, HandlerNames, BesideOther
    <2> QED BY <2>1, <2>2, <2>3, SetsKill
  <1>8. CASE DoubleExitHalts
    <2>1. /\ OthersStay("close") /\ Pc("close")' = "idle"
          /\ hist' = hist /\ setup' = setup /\ asked' = asked
      BY <1>8, BookingEffects DEF DoubleExitHalts
    <2>2. mem'.halted = TRUE
      BY <1>1, <1>8 DEF DoubleExitHalts, Memory
    <2>3. /\ Runs("fatal")' => Runs("fatal")
          /\ Runs("admin")' => Runs("admin") /\ h'["admin"].n = h["admin"].n
          /\ Pc("signal")' = Pc("signal")
      BY <2>1, HandlerNames, BesideOther
    <2> QED BY <2>1, <2>2, <2>3 DEF KillInv, Guarded
  <1>9. CASE DoubleExitThrows
    <2>1. OthersStay("close") /\ Pc("close")' # "double" /\ KillKept /\ day' = day
      BY <1>9, BookingEffects DEF DoubleExitThrows, Throws, KillKept, db
    <2> QED BY <1>2, <2>1
  <1> QED BY <1>3, <1>4, <1>5, <1>6, <1>7, <1>8, <1>9 DEF Booking

LEMMA BetweenKill ==
    ASSUME TypeInv, KillInv, World \/ Between
    PROVE  KillInv'
  <1>1. mem \in Memory /\ hist \in History
    BY DEF TypeInv
  <1>0. CASE Other
    <2>1. OthersStay("other") /\ KillKept /\ day'.kill = day.kill
      BY <1>0, OtherEffects DEF KillKept
    <2>2. /\ \A q \in {"fatal", "admin", "close"} :
                h'[q] = h[q] /\ Pc(q)' = Pc(q) /\ (Runs(q)' <=> Runs(q))
          /\ Pc("signal")' = Pc("signal") /\ \A q \in Checks : Pc(q)' = Pc(q)
      BY <2>1, HandlerNames, BesideOther
    <2> QED BY <2>1, <2>2, KillStays
  <1> SUFFICES ASSUME ~Other PROVE KillInv'
    BY <1>0
  <1>2. h' = h /\ setup' = setup /\ asked' = asked /\ day' = day
    BY DEF World, Between, PriceMoves, EntryFills, ExitFills, DayEnds, Protects, SlaConfirms,
           Recovers, SnapshotLands, KillsInMemory, db
  <1>3. \A q : h'[q] = h[q] /\ Pc(q)' = Pc(q) /\ (Runs(q)' <=> Runs(q))
    BY <1>2, HandlersStay
  <1>4. CASE KillsInMemory
    BY <1>2, <1>3, <1>4, SetsKill DEF KillsInMemory
  <1>5. CASE KillKept
    BY <1>2, <1>3, <1>5, KillStays
  <1>6. CASE PriceMoves \/ EntryFills \/ DayEnds \/ Protects \/ SlaConfirms \/ SnapshotLands
    BY <1>5, <1>6 DEF PriceMoves, EntryFills, DayEnds, Protects, SlaConfirms, SnapshotLands, KillKept
  <1>7. CASE ExitFills
    BY <1>1, <1>5, <1>7 DEF ExitFills, KillKept, History
  <1>8. CASE Recovers
    BY <1>1, <1>5, <1>8, TradeEffects DEF Recovers, KillKept, Memory
  <1> QED BY <1>4, <1>6, <1>7, <1>8 DEF World, Between

LEMMA ProcessKill ==
    ASSUME TypeInv, KillInv, Process
    PROVE  KillInv'
  <1>1. mem \in Memory /\ day \in Day /\ hist \in History /\ Checks \subseteq Handlers
        /\ {"admin", "fatal", "signal", "close"} \subseteq Handlers
    BY HandlerNames DEF TypeInv
  <1>2. ASSUME NEW p \in {"admin", "fatal"}, OthersStay(p)
        PROVE  /\ Pc("signal")' = Pc("signal") /\ Pc("close")' = Pc("close")
               /\ \A q \in Checks : Pc(q)' = Pc(q)
               /\ \A q \in {"admin", "fatal"} \ {p} : (Runs(q)' <=> Runs(q)) /\ h'[q] = h[q]
    BY <1>1, <1>2, BesideOther
  <1>3. CASE AdminSets
    <2>1. PICK calls \in {<<>>, <<TRUE>>, <<TRUE, FALSE>>} : calls = setup.admin
      BY SetupType DEF TypeInv
    <2>2. Len(calls) \in Nat /\ \A i \in 1 .. Len(calls) : calls[i] \in BOOLEAN
      BY AdminCalls
    <2>3. asked \in 0 .. Len(calls) /\ asked < Len(calls)
      BY <1>3, <2>1 DEF AdminSets, TypeInv
    <2>4. asked + 1 \in 1 .. Len(calls)
      BY <2>2, <2>3
    <2>5. PICK v \in BOOLEAN : v = setup.admin[asked + 1]
      BY <2>1, <2>2, <2>4
    <2>6. OthersStay("admin") /\ h'["admin"].n = asked' /\ asked' = asked + 1 /\ setup' = setup
          /\ day' = day
      BY <1>3, ProcessEffects DEF AdminSets, db
    <2>7. mem'.kill = v /\ mem'.halted = mem.halted /\ mem'.up = mem.up
      BY <1>1, <1>3, <2>5 DEF AdminSets, Sets, Memory
    <2>8. /\ v => hist'.cleared = FALSE /\ hist'.slipped = hist.slipped
          /\ ~v => hist'.cleared = TRUE /\ hist'.slipped = 0
      BY <1>1, <1>3, <2>5 DEF AdminSets, History
    <2>9. asked' \in 1 .. Len(setup'.admin) /\ Guarded'
      BY <2>1, <2>4, <2>6, <2>7, <2>8 DEF Guarded
    <2> QED BY <1>2, <2>6, <2>7, <2>8, <2>9 DEF KillInv, Guarded
  <1>4. CASE AdminWrites
    <2>1. OthersStay("admin") /\ Pc("admin")' = "idle" /\ Runs("admin") /\ mem.up
      BY <1>4, ProcessEffects DEF AdminWrites, At, Runs, Pc
    <2>2. KillKept
      BY <1>4 DEF AdminWrites, KillKept
    <2>3. day'.kill = setup.admin[asked]
      BY <1>1, <1>4, <2>1 DEF AdminWrites, Day, KillInv
    <2>4. day'.kill => Guarded
      BY <2>1, <2>3 DEF KillInv, Guarded
    <2>5. ~Runs("admin")'
      BY <2>1 DEF Runs
    <2> QED BY <1>2, <2>1, <2>2, <2>4, <2>5 DEF KillInv, KillKept, Guarded
  <1>5. CASE Halts
    <2>1. OthersStay("fatal") /\ setup' = setup /\ asked' = asked /\ day' = day /\ hist' = hist
      BY <1>5, ProcessEffects DEF Halts, db
    <2>2. mem'.halted = TRUE /\ mem'.kill = mem.kill
      BY <1>1, <1>5 DEF Halts, Memory
    <2> QED BY <1>2, <2>1, <2>2 DEF KillInv, Guarded
  <1>6. CASE HaltPersists
    <2>1. /\ OthersStay("fatal") /\ setup' = setup /\ asked' = asked /\ mem' = mem
          /\ Runs("fatal")
      BY <1>6, ProcessEffects DEF HaltPersists, At, Runs, Pc
    <2>2. hist'.slipped = hist.slipped
      BY <1>1, <1>6 DEF HaltPersists, History
    <2>3. mem.halted
      BY <2>1 DEF KillInv, Guarded
    <2> QED BY <1>2, <2>1, <2>2, <2>3 DEF KillInv, Guarded
  <1>7. CASE Ends
    <2>1. \A q \in Handlers : Pc(q)' = "idle" /\ ~Runs(q)'
      BY <1>7, ProcessEffects
    <2>2. mem'.up = FALSE
      BY <1>1, <1>7 DEF Ends, Memory
    <2>3. hist'.slipped = hist.slipped
      BY <1>7, EndsEffects
    <2> QED BY <1>1, <2>1, <2>2, <2>3 DEF KillInv, Guarded
  <1>8. CASE Restart
    <2>1. /\ day' = day /\ mem'.kill = Hydrated
          /\ \A q \in Handlers : ~Runs(q)' /\ Pc(q)' = "idle"
          /\ hist'.slipped = (IF Hydrated \/ day.kill THEN hist.slipped ELSE 0)
      BY <1>8, RestartEffects
    <2>2. day.kill => Hydrated
      BY DEF Hydrated
    <2> QED BY <1>1, <2>1, <2>2 DEF KillInv, Guarded
  <1> QED BY <1>3, <1>4, <1>5, <1>6, <1>7, <1>8 DEF Process, Crash, ExitsAfterHalt

LEMMA NextKill == TypeInv /\ KillInv /\ [Next]_vars => KillInv'
  <1>1. ASSUME KillInv, UNCHANGED vars PROVE KillInv'
    BY <1>1 DEF KillInv, Guarded, Runs, Pc, vars, db
  <1> QED BY <1>1, SignalKill, LookingKill, BookingKill, BetweenKill, ProcessKill DEF Next

-----------------------------------------------------------------------------
(* The limit of trades.                                                     *)
SignalKept ==
    /\ Pc("signal")' = Pc("signal") /\ rows' = rows
    /\ mem'.up = mem.up /\ mem'.trades = mem.trades
    /\ hist'.entries = hist.entries /\ hist'.uncounted = hist.uncounted
LEMMA EntriesStay == ASSUME EntriesInv, SignalKept PROVE EntriesInv'
  BY DEF EntriesInv, SignalKept, Entered, Placing

LEMMA SignalEntries ==
    ASSUME TypeInv, EntriesInv, Signal
    PROVE  EntriesInv'
  <1>1. mem \in Memory /\ hist \in History /\ rows \in Nat /\ MAX_TRADES_PER_DAY \in Nat
    BY DayAssumption DEF TypeInv
  <1>2. mem.trades \in Nat /\ hist.entries \in Nat /\ hist.uncounted \in Nat
    BY <1>1 DEF Memory, History
  <1> USE DEF EntriesInv, Entered, Placing
  <1>3. CASE SignalReads
    <2>1. h["signal"] = Idle
      BY <1>3 DEF SignalReads, QueueFree, Queued
    <2>2. Pc("signal") = "idle" /\ Pc("signal")' = "gate" /\ rows' = rows /\ mem' = mem /\ hist' = hist
      BY <1>3, <2>1, SignalEffects DEF SignalReads, Pc, Idle
    <2> QED BY <1>2, <2>2
  <1>4. CASE SignalGate
    <2>1. /\ Pc("signal") = "gate"
          /\ Pc("signal")' = "idle" \/ (CanTrade /\ Pc("signal")' = "insert")
          /\ rows' = rows /\ mem' = mem /\ hist' = hist
      BY <1>4, SignalEffects DEF SignalGate, At, Pc
    <2>2. CanTrade => mem.trades < MAX_TRADES_PER_DAY
      BY DEF CanTrade
    <2> QED BY <1>2, <2>1, <2>2
  <1>5. CASE SignalInserts
    <2>1. /\ Pc("signal") = "insert" /\ Pc("signal")' = "place"
          /\ rows' = rows + 1 /\ mem' = mem /\ hist' = hist
      BY <1>5, SignalEffects DEF SignalInserts, At, Pc
    <2> QED BY <1>1, <1>2, <2>1
  <1>6. CASE SignalPlaces
    <2>1. /\ Pc("signal") = "place" /\ Pc("signal")' = "count" /\ mem.up
          /\ rows' = rows /\ mem' = mem
      BY <1>6, SignalEffects DEF SignalPlaces, At, Pc
    <2>2. hist'.entries = hist.entries + 1 /\ hist'.uncounted = hist.uncounted
      <3>1. PICK n \in Nat : n = IF KillInForce THEN 1 ELSE 0
        OBVIOUS
      <3>2. Sends(1, n)
        BY <1>6, <3>1 DEF SignalPlaces
      <3> QED BY <3>2, SendsEffects
    <2> QED BY <1>1, <1>2, <2>1, <2>2
  <1>7. CASE SignalFails
    <2>1. /\ Pc("signal") = "place" /\ Pc("signal")' = "idle"
          /\ rows' = rows /\ mem' = mem /\ hist' = hist
      BY <1>7, SignalEffects DEF SignalFails, At, Pc
    <2> QED BY <1>1, <1>2, <2>1
  <1>8. CASE Answered("signal")
    <2>1. /\ Pc("signal") = "count" /\ Pc("signal")' = "write"
          /\ rows' = rows /\ hist' = hist
          /\ mem'.up = mem.up /\ mem'.trades = mem.trades
      BY <1>8, HandlerNames, AnsweredEffects
    <2> QED BY <1>1, <1>2, <2>1
  <1>11. CASE SignalLoses
    <2>1. /\ Pc("signal") \in {"count", "write"} /\ Pc("signal")' = "idle"
          /\ rows' = rows /\ mem' = mem
      BY <1>11, SignalEffects DEF SignalLoses, CallFails, At, Pc
    <2>2. hist'.entries = hist.entries /\ hist'.uncounted = hist.uncounted + 1
      BY <1>11, LosesEffects
    <2> QED BY <1>1, <1>2, <2>1, <2>2
  <1>9. CASE SignalCounted
    <2>1. /\ Pc("signal") = "write" /\ Pc("signal")' = "link"
          /\ rows' = rows /\ mem' = mem /\ hist' = hist
      BY <1>9, SignalEffects DEF SignalCounted, WritesCount, At, Pc
    <2> QED BY <1>1, <1>2, <2>1
  <1>10. CASE SignalLinks
    <2>1. /\ Pc("signal") = "link" /\ Pc("signal")' = "idle"
          /\ rows' = rows /\ hist' = hist
      BY <1>10, SignalEffects DEF SignalLinks, At, Pc
    <2>2. mem'.up = mem.up /\ mem'.trades = mem.trades + 1
      BY <1>1, <1>10 DEF SignalLinks, Memory
    <2> QED BY <1>1, <1>2, <2>1, <2>2
  <1> QED BY <1>3, <1>4, <1>5, <1>6, <1>7, <1>8, <1>9, <1>10, <1>11 DEF Signal, SignalGoesOn

LEMMA NextEntries == TypeInv /\ EntriesInv /\ [Next]_vars => EntriesInv'
  <1> SUFFICES ASSUME TypeInv, EntriesInv, [Next]_vars PROVE EntriesInv'
    OBVIOUS
  <1>1. mem \in Memory /\ hist \in History /\ Checks \subseteq Handlers
        /\ Checks \subseteq Placers
        /\ {"signal", "close", "partial", "check", "flatten", "admin", "fatal"} \subseteq Handlers
        /\ "check" \in Checks /\ "flatten" \in Checks
    BY HandlerNames DEF TypeInv
  <1>2. CASE UNCHANGED vars
    BY <1>2 DEF EntriesInv, Entered, Placing, Pc, vars, db
  <1>3. CASE Looking
    <2>1. \E p \in Checks : OthersStay(p)
      BY <1>1, <1>3, LookingEffects DEF Looking, DayStep, CheckGoesOn
    <2>2. Pc("signal")' = Pc("signal")
      BY <2>1, BesideCheck
    <2>3. rows' = rows
      BY <1>1, <1>3, AnsweredEffects
         DEF Looking, DayStep, CheckGoesOn, CheckBegins, FlattenBegins, CheckReadsDay,
         CheckWritesState, WritesKill, Exits, ExitIsRefused, ExitFindsNothing, ExitFails,
         ExitCounted, CheckThrows, Throws
    <2>4. mem'.up = mem.up /\ mem'.trades = mem.trades
      BY <1>1, <1>3, AnsweredEffects
         DEF Looking, DayStep, CheckGoesOn, CheckBegins, FlattenBegins, CheckReadsDay,
         CheckWritesState, WritesKill, Exits, ExitIsRefused, ExitFindsNothing, ExitFails,
         ExitCounted, CheckThrows, Throws, Sets, Memory
    <2>5. hist'.entries = hist.entries /\ hist'.uncounted = hist.uncounted
      <3>1. ASSUME NEW p \in Checks, Exits(p)
            PROVE  hist'.entries = hist.entries /\ hist'.uncounted = hist.uncounted
        BY <1>1, <3>1, SendsEffects DEF Exits, History
      <3>2. ASSUME NEW p \in Checks, ExitFails(p)
            PROVE  hist'.entries = hist.entries /\ hist'.uncounted = hist.uncounted
        BY <1>1, <3>2, ForgottenType, ForgetsEffects DEF ExitFails
      <3>3. ASSUME FlattenBegins \/ CheckWritesState
            PROVE  hist'.entries = hist.entries /\ hist'.uncounted = hist.uncounted
        BY <1>1, <3>3 DEF FlattenBegins, CheckWritesState, History
      <3> QED BY <1>1, <1>3, <3>1, <3>2, <3>3, AnsweredEffects, TradeEffects
              DEF Looking, DayStep, CheckGoesOn, CheckBegins, CheckReadsDay, WritesKill,
                  ExitIsRefused, ExitCounted, CheckThrows, Throws
    <2> QED BY <2>2, <2>3, <2>4, <2>5, EntriesStay DEF SignalKept
  <1>4. CASE Booking
    <2>1. h' = h \/ \E p \in {"close", "partial"} : OthersStay(p)
      BY <1>4, BookingEffects DEF Booking
    <2>2. Pc("signal")' = Pc("signal")
      BY <2>1, BesideOther, HandlersStay
    <2>3. rows' = rows
      BY <1>4 DEF Booking, BookReads, BookWrites, BookFails, CloseBegins, UpdateIsDropped,
         DoubleExit, DoubleExitHalts, DoubleExitThrows, Throws, Finalize,
         PartialBegins, PartialWritesState, PartialWritesQty
    <2>4. mem'.up = mem.up /\ mem'.trades = mem.trades
      BY <1>1, <1>4 DEF Booking, BookReads, BookWrites, BookFails, CloseBegins, UpdateIsDropped,
         DoubleExit, DoubleExitHalts, DoubleExitThrows, Throws, Finalize, Sets,
         PartialBegins, PartialWritesState, PartialWritesQty, Memory
    <2>5. hist'.entries = hist.entries /\ hist'.uncounted = hist.uncounted
      BY <1>1, <1>4 DEF Booking, BookReads, BookWrites, BookFails, CloseBegins, UpdateIsDropped,
         DoubleExit, DoubleExitHalts, DoubleExitThrows, Throws, Finalize,
         PartialBegins, PartialWritesState, PartialWritesQty, History
    <2> QED BY <2>2, <2>3, <2>4, <2>5, EntriesStay DEF SignalKept
  <1>9. CASE Other
    <2>1. OthersStay("other")
      BY <1>9, OtherEffects
    <2>2. Pc("signal")' = Pc("signal")
      BY <2>1, BesideOther
    <2> QED BY <1>9, <2>2, OtherEffects, EntriesStay DEF SignalKept
  <1>5. CASE ~Other /\ (World \/ Between)
    <2>1. h' = h /\ rows' = rows
      BY <1>5 DEF World, Between, PriceMoves, EntryFills, ExitFills, DayEnds, Protects,
         SlaConfirms, Recovers, SnapshotLands, KillsInMemory
    <2>2. mem'.up = mem.up /\ mem'.trades = mem.trades
      BY <1>1, <1>5 DEF World, Between, PriceMoves, EntryFills, ExitFills, DayEnds, Protects,
         SlaConfirms, Recovers, SnapshotLands, KillsInMemory, Sets, Memory
    <2>3. hist'.entries = hist.entries /\ hist'.uncounted = hist.uncounted
      BY <1>1, <1>5, TradeEffects DEF World, Between, PriceMoves, EntryFills, ExitFills, DayEnds,
         Protects, SlaConfirms, SnapshotLands, KillsInMemory, History
    <2> QED BY <2>1, <2>2, <2>3, HandlersStay, EntriesStay DEF SignalKept
  <1>6. CASE AdminSets \/ AdminWrites \/ Halts \/ HaltPersists
    <2>1. \E p \in {"admin", "fatal"} : OthersStay(p)
      BY <1>6, ProcessEffects
    <2>2. Pc("signal")' = Pc("signal")
      BY <2>1, BesideOther
    <2>3. rows' = rows
      BY <1>6 DEF AdminSets, AdminWrites, Halts, HaltPersists
    <2>4. mem'.up = mem.up /\ mem'.trades = mem.trades
      BY <1>1, <1>6 DEF AdminSets, AdminWrites, Halts, HaltPersists, Sets, Memory
    <2>5. hist'.entries = hist.entries /\ hist'.uncounted = hist.uncounted
      BY <1>1, <1>6 DEF AdminSets, AdminWrites, Halts, HaltPersists, History
    <2> QED BY <2>2, <2>3, <2>4, <2>5, EntriesStay DEF SignalKept
  <1>7. CASE Ends
    <2>1. Pc("signal")' = "idle"
      BY <1>1, <1>7, ProcessEffects
    <2>2. mem'.up = FALSE /\ mem'.trades = mem.trades /\ hist'.entries = hist.entries
          /\ hist'.uncounted = hist.uncounted
      BY <1>7, EndsEffects
    <2>3. rows' = rows
      BY <1>7 DEF Ends
    <2> QED BY <2>1, <2>2, <2>3 DEF EntriesInv, Placing
  <1>8. CASE Restart
    <2>1. Pc("signal")' = "idle"
      BY <1>1, <1>8, RestartEffects
    <2>2. mem'.trades = rows /\ hist'.entries = hist.entries /\ rows' = rows /\ rows \in Nat
          /\ hist'.uncounted = hist.uncounted
      BY <1>8, RestartEffects DEF TypeInv
    <2> QED BY <1>1, <2>1, <2>2 DEF EntriesInv, Placing, Entered, History
  <1> QED BY <1>2, <1>3, <1>4, <1>5, <1>6, <1>7, <1>8, <1>9, SignalEntries
          DEF Next, Process, Crash, ExitsAfterHalt

-----------------------------------------------------------------------------
(* The limit of orders.                                                     *)

(* The actions that place an order, that count it, or that fail after the   *)
(* broker took it; Answered(p) is the fourth.                               *)
Places(p) == \/ p = "signal" /\ SignalPlaces
             \/ p = "other" /\ OtherPlaces
             \/ p \in Checks /\ Exits(p)
Counted(p) == \/ p = "signal" /\ SignalCounted
              \/ p = "other" /\ OtherCounted
              \/ p \in Checks /\ ExitCounted(p)
Fails(p) == \/ p = "signal" /\ SignalLoses
            \/ p = "other" /\ OtherFails
            \/ p \in Checks /\ ExitFails(p)
(* The others.                                                              *)
CheckKeeps(p) == WritesKill(p) \/ ExitIsRefused(p) \/ ExitFindsNothing(p) \/ CheckThrows(p)
Keeps ==
    \/ SignalReads \/ SignalGate \/ SignalInserts \/ SignalFails \/ SignalLinks
    \/ CheckBegins \/ FlattenBegins \/ CheckReadsDay \/ CheckWritesState
    \/ \E p \in Checks : CheckKeeps(p)
    \/ Booking \/ (~Other /\ (World \/ Between))
    \/ AdminSets \/ AdminWrites \/ Halts \/ HaltPersists
OrdersKept ==
    /\ mem'.orders = mem.orders /\ mem'.up = mem.up
    /\ day'.orders = day.orders
    /\ hist'.sent = hist.sent /\ hist'.forgotten = hist.forgotten
    /\ hist'.waiting = hist.waiting
    /\ \A p \in Placers : /\ Pc(p)' = "count" <=> Pc(p) = "count"
                          /\ Pc(p)' = "write" => Pc(p) = "write" /\ h'[p].n = h[p].n

LEMMA NextIsKept ==
    ASSUME [Next]_vars
    PROVE  \/ Keeps \/ UNCHANGED vars \/ (mem.up /\ Ends) \/ Restart
           \/ \E p \in Placers : Places(p) \/ Answered(p) \/ Counted(p) \/ Fails(p)
  BY HandlerNames
     DEF Next, Signal, SignalGoesOn, Looking, DayStep, CheckGoesOn, Process, Crash,
         ExitsAfterHalt, At, Keeps, CheckKeeps, Between, Other, Places, Counted, Fails

LEMMA KeepsOrders ==
    ASSUME TypeInv, Keeps
    PROVE  OrdersKept
  <1>1. mem \in Memory /\ hist \in History /\ day \in Day /\ Placers = {"signal", "check", "flatten", "other"}
        /\ Checks = {"check", "flatten"} /\ Placers \subseteq Handlers /\ Checks \subseteq Placers
    BY HandlerNames DEF TypeInv
  <1> DEFINE Numbers == /\ mem'.orders = mem.orders /\ mem'.up = mem.up
                        /\ day'.orders = day.orders
                        /\ hist'.sent = hist.sent /\ hist'.forgotten = hist.forgotten
                        /\ hist'.waiting = hist.waiting
  <1>2. ASSUME NEW p \in Placers, OthersStay(p), Numbers,
               Pc(p) \notin {"count", "write"}, Pc(p)' \notin {"count", "write"}
        PROVE  OrdersKept
    <2>1. \A q \in Placers : q # p => h'[q] = h[q] /\ Pc(q)' = Pc(q)
      BY <1>1, <1>2 DEF OthersStay
    <2> QED BY <1>2, <2>1 DEF OrdersKept
  <1>3. ASSUME Numbers, \A q \in Placers : h'[q] = h[q] /\ Pc(q)' = Pc(q)
        PROVE  OrdersKept
    BY <1>3 DEF OrdersKept
  <1>4. ASSUME SignalReads \/ SignalGate \/ SignalInserts \/ SignalFails
        PROVE  OrdersKept
    <2>1. OthersStay("signal") /\ Pc("signal")' \notin {"count", "write"}
      BY <1>4, SignalEffects
    <2>2. Pc("signal") \notin {"count", "write"}
      BY <1>4 DEF SignalReads, SignalGate, SignalInserts, SignalFails, QueueFree, Queued, At, Pc, Idle
    <2>3. Numbers
      BY <1>4 DEF SignalReads, SignalGate, SignalInserts, SignalFails, db
    <2> QED BY <1>1, <1>2, <2>1, <2>2, <2>3
  <1>5. ASSUME SignalLinks PROVE OrdersKept
    <2>1. OthersStay("signal") /\ Pc("signal")' \notin {"count", "write"}
      BY <1>5, SignalEffects
    <2>2. Pc("signal") \notin {"count", "write"}
      BY <1>5 DEF SignalLinks, At, Pc
    <2>3. Numbers
      BY <1>1, <1>5 DEF SignalLinks, db, Memory
    <2> QED BY <1>1, <1>2, <2>1, <2>2, <2>3
  <1>6. ASSUME CheckBegins PROVE OrdersKept
    <2>1. OthersStay("check") /\ Pc("check")' \notin {"count", "write"}
      BY <1>6, LookingEffects
    <2>2. Pc("check") \notin {"count", "write"}
      BY <1>6 DEF CheckBegins, Pc, Idle
    <2>3. Numbers
      BY <1>6 DEF CheckBegins, db
    <2> QED BY <1>1, <1>2, <2>1, <2>2, <2>3
  <1>7. ASSUME FlattenBegins PROVE OrdersKept
    <2>1. OthersStay("flatten") /\ Pc("flatten")' \notin {"count", "write"}
      BY <1>7, LookingEffects
    <2>2. Pc("flatten") \notin {"count", "write"}
      BY <1>7 DEF FlattenBegins, Pc, Idle
    <2>3. Numbers
      BY <1>1, <1>7 DEF FlattenBegins, Sets, Memory, History, db
    <2> QED BY <1>1, <1>2, <2>1, <2>2, <2>3
  <1>8. ASSUME CheckReadsDay PROVE OrdersKept
    <2>1. OthersStay("check") /\ Pc("check")' \notin {"count", "write"}
      BY <1>8, LookingEffects
    <2>2. Pc("check") \notin {"count", "write"} /\ Numbers
      BY <1>8 DEF CheckReadsDay, At, Pc, db
    <2> QED BY <1>1, <1>2, <2>1, <2>2
  <1>9. ASSUME CheckWritesState PROVE OrdersKept
    <2>1. OthersStay("check") /\ Pc("check")' \notin {"count", "write"}
      BY <1>9, LookingEffects
    <2>2. Pc("check") \notin {"count", "write"}
      BY <1>9 DEF CheckWritesState, At, Pc
    <2>3. Numbers
      BY <1>1, <1>9 DEF CheckWritesState, Sets, Memory, History, Day
    <2> QED BY <1>1, <1>2, <2>1, <2>2, <2>3
  <1>10. ASSUME NEW p \in Checks, CheckKeeps(p) PROVE OrdersKept
    <2>1. OthersStay(p) /\ Pc(p)' \notin {"count", "write"}
      BY <1>10, LookingEffects DEF CheckKeeps
    <2>2. Pc(p) \notin {"count", "write"}
      BY <1>10 DEF CheckKeeps, WritesKill, ExitIsRefused, ExitFindsNothing, CheckThrows, At, Pc
    <2>3. Numbers
      BY <1>1, <1>10, TradeEffects
         DEF CheckKeeps, WritesKill, ExitIsRefused, ExitFindsNothing, CheckThrows,
         Throws, Memory, Day, db
    <2> QED BY <1>1, <1>2, <2>1, <2>2, <2>3
  <1>11. ASSUME Booking PROVE OrdersKept
    <2>1. h' = h \/ \E p \in {"close", "partial"} : OthersStay(p)
      BY <1>11, BookingEffects DEF Booking
    <2>2. \A q \in Placers : h'[q] = h[q] /\ Pc(q)' = Pc(q)
      BY <1>1, <2>1, BesideOther, HandlersStay
    <2>3. Numbers
      BY <1>1, <1>11 DEF Booking, BookReads, BookWrites, BookFails, CloseBegins,
         UpdateIsDropped, DoubleExit, DoubleExitHalts, DoubleExitThrows, Throws, Finalize,
         PartialBegins, PartialWritesState, PartialWritesQty, Sets, Memory, History, Day, db
    <2> QED BY <1>3, <2>2, <2>3
  <1>12. ASSUME ~Other, World \/ Between PROVE OrdersKept
    <2>1. h' = h
      BY <1>12 DEF World, Between, PriceMoves, EntryFills, ExitFills, DayEnds, Protects,
         SlaConfirms, Recovers, SnapshotLands, KillsInMemory
    <2>2. Numbers
      BY <1>1, <1>12, TradeEffects DEF World, Between, PriceMoves, EntryFills, ExitFills, DayEnds,
         Protects, SlaConfirms, Recovers, SnapshotLands, KillsInMemory, Sets, Memory, History, db
    <2> QED BY <1>3, <2>1, <2>2, HandlersStay
  <1>13. ASSUME AdminSets \/ AdminWrites \/ Halts \/ HaltPersists PROVE OrdersKept
    <2>1. \E p \in {"admin", "fatal"} : OthersStay(p)
      BY <1>13, ProcessEffects
    <2>2. \A q \in Placers : h'[q] = h[q] /\ Pc(q)' = Pc(q)
      BY <1>1, <2>1, BesideOther
    <2>3. Numbers
      BY <1>1, <1>13 DEF AdminSets, AdminWrites, Halts, HaltPersists, Sets, Memory, History, Day, db
    <2> QED BY <1>3, <2>2, <2>3
  <1> QED BY <1>4, <1>5, <1>6, <1>7, <1>8, <1>9, <1>10, <1>11, <1>12, <1>13 DEF Keeps

(* What the other four do to their handler and to the numbers.              *)
LEMMA PlacersApart ==
    ASSUME NEW p \in Placers, OthersStay(p)
    PROVE  \A q \in Placers \ {p} : h'[q] = h[q] /\ Pc(q)' = Pc(q)
  BY HandlerNames DEF OthersStay

LEMMA PlacesEffects ==
    ASSUME TypeInv, NEW p \in Placers, Places(p)
    PROVE  /\ OthersStay(p) /\ Pc(p) # "count" /\ Pc(p)' = "count"
           /\ mem.up /\ mem' = mem /\ day' = day
           /\ mem.orders + 1 <= MAX_ORDERS_PER_DAY /\ hist' \in History
           /\ hist'.sent = hist.sent + 1 /\ hist'.forgotten = hist.forgotten
           /\ hist'.waiting >= hist.waiting /\ hist'.waiting >= Cardinality(Unanswered)
  <1>1. CASE p = "signal" /\ SignalPlaces
    <2>1. PICK n \in Nat : n = IF KillInForce THEN 1 ELSE 0
      OBVIOUS
    <2>2. Sends(1, n)
      BY <1>1, <2>1 DEF SignalPlaces
    <2> QED BY <1>1, <2>2, SignalEffects, SendsEffects DEF SignalPlaces, MayPlace, At, Pc, db
  <1>2. CASE p = "other" /\ OtherPlaces
    <2>1. Pc("other") # "count"
      BY <1>2 DEF OtherPlaces, Pc, Idle
    <2> QED BY <1>2, <2>1, OtherEffects, SendsEffects DEF OtherPlaces, MayPlace, db
  <1>3. CASE p \in Checks /\ Exits(p)
    BY <1>3, LookingEffects, SendsEffects DEF Exits, MayPlace, At, Pc, db
  <1> QED BY <1>1, <1>2, <1>3 DEF Places

LEMMA CountedEffects ==
    ASSUME TypeInv, NEW p \in Placers, Counted(p)
    PROVE  /\ OthersStay(p) /\ Pc(p) = "write" /\ Pc(p)' \in {"idle", "link"}
           /\ mem.up /\ mem' = mem /\ hist' = hist /\ day'.orders = h[p].n
  <1>1. WritesCount(p) /\ mem' = mem /\ hist' = hist
    BY DEF Counted, SignalCounted, OtherCounted, ExitCounted
  <1>2. mem.up /\ Pc(p) = "write" /\ day'.orders = h[p].n
    BY <1>1 DEF WritesCount, At, Pc, TypeInv, Day
  <1>3. OthersStay(p) /\ Pc(p)' \in {"idle", "link"}
    BY SignalEffects, OtherEffects, LookingEffects DEF Counted
  <1> QED BY <1>1, <1>2, <1>3

LEMMA FailsEffects ==
    ASSUME TypeInv, NEW p \in Placers, Fails(p)
    PROVE  /\ OthersStay(p) /\ Pc(p) \in {"count", "write"} /\ Pc(p)' \in {"idle", "exit"}
           /\ mem.up /\ mem' = mem /\ day' = day
           /\ hist'.sent = hist.sent /\ hist'.waiting = hist.waiting
           /\ hist'.forgotten = hist.forgotten + IF Pc(p) = "count" THEN 1 ELSE 0
  <1>1. CallFails(p) /\ mem' = mem /\ day' = day
    BY DEF Fails, SignalLoses, OtherFails, ExitFails, db
  <1>2. mem.up /\ Pc(p) \in {"count", "write"}
    BY <1>1 DEF CallFails, At, Pc
  <1>3. OthersStay(p) /\ Pc(p)' \in {"idle", "exit"}
    BY SignalEffects, OtherEffects, LookingEffects DEF Fails
  <1>4. p \in Handlers
    BY HandlerNames
  <1>5. /\ hist'.sent = hist.sent /\ hist'.waiting = hist.waiting
        /\ hist'.forgotten = Forgotten(p)
    BY <1>4, LosesEffects, ForgottenType, ForgetsEffects DEF Fails, OtherFails, ExitFails
  <1> QED BY <1>1, <1>2, <1>3, <1>4, <1>5, ForgottenType

(* How the orders that wait for their answer become more and fewer.         *)
LEMMA UnansweredGrows ==
    ASSUME NEW p \in Placers, OthersStay(p), Pc(p) # "count", Pc(p)' = "count"
    PROVE  Cardinality(Unanswered') = Cardinality(Unanswered) + 1
  <1>1. Unanswered' = Unanswered \cup {p} /\ p \notin Unanswered
    BY PlacersApart DEF Unanswered, Pc
  <1> QED BY <1>1, UnansweredIsFinite, FS_AddElement

LEMMA UnansweredShrinks ==
    ASSUME NEW p \in Placers, OthersStay(p), Pc(p) = "count", Pc(p)' # "count"
    PROVE  Cardinality(Unanswered') = Cardinality(Unanswered) - 1
  <1>1. Unanswered' = Unanswered \ {p} /\ p \in Unanswered
    BY PlacersApart DEF Unanswered, Pc
  <1> QED BY <1>1, UnansweredIsFinite, FS_RemoveElement

LEMMA UnansweredHas ==
    ASSUME NEW p \in Placers, Answered(p)
    PROVE  Cardinality(Unanswered) >= 1
  <1>1. p \in Unanswered
    BY DEF Answered, At, Unanswered
  <1>2. Cardinality(Unanswered) = 0 => Unanswered = {}
    BY UnansweredIsFinite, FS_EmptySet
  <1> QED BY <1>1, <1>2, UnansweredIsFinite

LEMMA UnansweredStays ==
    ASSUME \A p \in Placers : Pc(p)' = "count" <=> Pc(p) = "count"
    PROVE  Unanswered' = Unanswered
  BY DEF Unanswered, Pc

LEMMA NobodyWaits ==
    ASSUME \A p \in Placers : Pc(p)' = "idle"
    PROVE  Cardinality(Unanswered') = 0
  <1>1. Unanswered' = {}
    BY DEF Unanswered, Pc
  <1> QED BY <1>1, FS_EmptySet

LEMMA NextOrders == TypeInv /\ OrdersInv /\ [Next]_vars => OrdersInv'
  <1> SUFFICES ASSUME TypeInv, OrdersInv, [Next]_vars PROVE OrdersInv'
    OBVIOUS
  <1>1. /\ mem.orders \in Int /\ day.orders \in Int /\ hist.sent \in Nat
        /\ hist.forgotten \in Int /\ hist.waiting \in Nat /\ MAX_ORDERS_PER_DAY \in Nat
        /\ Checks \subseteq Placers
        /\ Placers \subseteq Handlers /\ \A p \in Placers : h[p].n \in Int
    BY DayAssumption, HandlerNames DEF TypeInv, HandlersInv, Handler, Memory, Day, History
  <1>2. PICK n \in Nat : n = Cardinality(Unanswered)
    BY UnansweredIsFinite
  <1>3. CASE Keeps
    <2>1. OrdersKept
      BY <1>3, KeepsOrders
    <2>2. Unanswered' = Unanswered
      BY <2>1, UnansweredStays DEF OrdersKept
    <2> QED BY <1>1, <2>1, <2>2 DEF OrdersInv, OrdersKept
  <1>4. CASE UNCHANGED vars
    BY <1>4 DEF OrdersInv, Unanswered, Pc, vars, db
  <1>5. ASSUME NEW p \in Placers, Places(p) PROVE OrdersInv'
    <2>1. Cardinality(Unanswered') = n + 1
      BY <1>2, <1>5, PlacesEffects, UnansweredGrows
    <2>2. \A q \in Placers \ {p} : h'[q] = h[q] /\ Pc(q)' = Pc(q)
      BY <1>5, PlacesEffects, PlacersApart
    <2>3. PICK w \in Nat : w = hist'.waiting /\ w >= hist.waiting /\ w >= n
      BY <1>1, <1>2, <1>5, PlacesEffects DEF History
    <2> QED BY <1>1, <1>2, <1>5, <2>1, <2>2, <2>3, PlacesEffects DEF OrdersInv
  <1>6. ASSUME NEW p \in Placers, Answered(p) PROVE OrdersInv'
    <2>1. Cardinality(Unanswered') = n - 1
      BY <1>2, <1>6, AnsweredEffects, UnansweredShrinks
    <2>2. \A q \in Placers \ {p} : h'[q] = h[q] /\ Pc(q)' = Pc(q)
      BY <1>6, AnsweredEffects, PlacersApart
    <2>3. /\ mem.up /\ mem'.up /\ mem'.orders = mem.orders + 1 /\ h'[p].n = mem.orders + 1
          /\ day' = day /\ hist' = hist
      BY <1>6, AnsweredEffects
    <2>4. \A q \in Placers : Pc(q)' = "write" => h'[q].n \in 0 .. mem'.orders
      <3>1. \A q \in Placers \ {p} : Pc(q)' = "write" => h'[q].n \in 0 .. mem.orders
        BY <2>2 DEF OrdersInv
      <3>2. 0 <= mem.orders
        BY <1>1 DEF OrdersInv
      <3>3. h'[p].n \in 0 .. mem'.orders /\ 0 .. mem.orders \subseteq 0 .. mem'.orders
        BY <1>1, <2>3, <3>2
      <3> QED BY <3>1, <3>3
    <2>5. day.orders \in 0 .. mem'.orders /\ mem'.orders <= hist.sent
      BY <1>1, <1>2, <1>6, <2>3, UnansweredHas DEF OrdersInv
    <2> QED BY <1>1, <1>2, <2>1, <2>3, <2>4, <2>5 DEF OrdersInv
  <1>7. ASSUME NEW p \in Placers, Counted(p) PROVE OrdersInv'
    <2>1. \A q \in Placers \ {p} : h'[q] = h[q] /\ Pc(q)' = Pc(q)
      BY <1>7, CountedEffects, PlacersApart
    <2>2. /\ mem' = mem /\ hist' = hist /\ mem.up /\ Pc(p) = "write"
          /\ Pc(p)' \in {"idle", "link"} /\ day'.orders = h[p].n
      BY <1>7, CountedEffects
    <2>3. Unanswered' = Unanswered
      BY <2>1, <2>2, UnansweredStays
    <2> QED BY <1>1, <2>1, <2>2, <2>3 DEF OrdersInv
  <1>8. ASSUME NEW p \in Placers, Fails(p) PROVE OrdersInv'
    <2>1. \A q \in Placers \ {p} : h'[q] = h[q] /\ Pc(q)' = Pc(q)
      BY <1>8, FailsEffects, PlacersApart
    <2>2. /\ mem' = mem /\ day' = day /\ mem.up /\ Pc(p)' \in {"idle", "exit"}
          /\ hist'.sent = hist.sent /\ hist'.waiting = hist.waiting
      BY <1>8, FailsEffects
    <2>3. CASE Pc(p) = "count"
      <3>1. hist'.forgotten = hist.forgotten + 1
        BY <1>8, <2>3, FailsEffects
      <3>2. Cardinality(Unanswered') = n - 1
        BY <1>2, <1>8, <2>2, <2>3, FailsEffects, UnansweredShrinks
      <3> QED BY <1>1, <1>2, <2>1, <2>2, <3>1, <3>2 DEF OrdersInv
    <2>4. CASE Pc(p) = "write"
      <3>1. hist'.forgotten = hist.forgotten
        BY <1>1, <1>8, <2>4, FailsEffects
      <3>2. Unanswered' = Unanswered
        BY <2>1, <2>2, <2>4, UnansweredStays
      <3> QED BY <1>1, <2>1, <2>2, <3>1, <3>2 DEF OrdersInv
    <2> QED BY <1>8, <2>3, <2>4, FailsEffects
  <1>9. CASE mem.up /\ Ends
    <2>1. /\ mem'.orders = mem.orders /\ ~mem'.up /\ day' = day
          /\ hist'.sent = hist.sent /\ hist'.waiting = hist.waiting
          /\ hist'.forgotten = hist.sent - day.orders
          /\ \A p \in Placers : Pc(p)' = "idle"
      BY <1>1, <1>9, EndsEffects, ProcessEffects DEF Ends, db
    <2> QED BY <1>1, <1>2, <1>9, <2>1 DEF OrdersInv
  <1>10. CASE Restart
    <2>1. /\ ~mem.up /\ mem'.up /\ mem'.orders = day.orders /\ day' = day
          /\ hist'.sent = hist.sent /\ hist'.waiting = hist.waiting
          /\ hist'.forgotten = hist.forgotten
          /\ \A p \in Placers : Pc(p)' = "idle"
      BY <1>1, <1>10, RestartEffects
    <2>2. Cardinality(Unanswered') = 0
      BY <2>1, NobodyWaits
    <2> QED BY <1>1, <2>1, <2>2 DEF OrdersInv
  <1> QED BY <1>3, <1>4, <1>5, <1>6, <1>7, <1>8, <1>9, <1>10, NextIsKept

LEMMA SetupStays == ASSUME [Next]_vars PROVE setup' = setup
  <1>1. CASE World \/ Between
    BY <1>1 DEF World, Between, PriceMoves, EntryFills, ExitFills, DayEnds, Protects,
       SlaConfirms, Recovers, Other, OtherPlaces, Answered, OtherCounted, OtherFails,
       SnapshotLands, KillsInMemory
  <1>2. CASE Signal
    BY <1>2 DEF Signal, SignalGoesOn, SignalReads, SignalGate, SignalInserts, SignalPlaces,
       SignalFails, SignalLoses, Answered, SignalCounted, SignalLinks
  <1>3. CASE Looking
    BY <1>3 DEF Looking, CheckBegins, FlattenBegins, DayStep, CheckGoesOn, CheckReadsDay,
       CheckWritesState, WritesKill, Exits, ExitIsRefused, ExitFindsNothing, ExitFails,
       Answered, ExitCounted, CheckThrows, Throws
  <1>4. CASE Booking
    BY <1>4 DEF Booking, BookReads, BookWrites, BookFails, CloseBegins, UpdateIsDropped,
       DoubleExit, DoubleExitHalts, DoubleExitThrows, Throws, Finalize,
       PartialBegins, PartialWritesState, PartialWritesQty
  <1>5. CASE Process
    BY <1>5 DEF Process, AdminSets, AdminWrites, Halts, HaltPersists, Crash, ExitsAfterHalt,
       Ends, Restart
  <1>6. CASE UNCHANGED vars
    BY <1>6 DEF vars
  <1> QED BY <1>1, <1>2, <1>3, <1>4, <1>5, <1>6 DEF Next

-----------------------------------------------------------------------------
(* The bookings.                                                            *)
BookersKept == \A p \in {"close", "partial"} :
                  h'[p] = h[p] /\ Pc(p)' = Pc(p) /\ (Runs(p)' <=> Runs(p))
LEMMA BookStays ==
    ASSUME BookInv, setup' = setup, BookersKept,
           hist'.owed = hist.owed, hist'.missed = hist.missed, day'.realized = day.realized,
           trade'.units = trade.units, trade'.qty = trade.qty, trade'.pnl = trade.pnl,
           trade'.due = trade.due,
           Kept /\ trade.due => ~Terminal',
           Kept /\ Runs("close") => Terminal' /\ ~trade'.entry
    PROVE  BookInv'
  <1>1. (Kept' <=> Kept) /\ Due' = Due /\ (Held' <=> Held)
    BY DEF Kept, Due, Held, BookersKept
  <1> QED BY <1>1 DEF BookInv, BookersKept

(* Nothing is claimed of a day in which a booking was missed.               *)
LEMMA BookMissed ==
    ASSUME BookInv, setup' = setup, BookersKept, hist'.missed = TRUE
    PROVE  BookInv'
  BY DEF BookInv, Kept, BookersKept

LEMMA SignalBook ==
    ASSUME TypeInv, RowInv, BookInv, Signal
    PROVE  BookInv'
  <1>1. trade \in Trade /\ hist \in History /\ day \in Day /\ setup' = setup
    BY SetupStays DEF TypeInv, Next
  <1>2. OthersStay("signal") /\ BookersKept
    <2>1. OthersStay("signal")
      BY SignalEffects DEF Signal, SignalGoesOn
    <2> QED BY <2>1, HandlerNames DEF OthersStay, BookersKept
  <1>0. CASE SignalLoses
    BY <1>0, <1>1, <1>2, LosesEffects, BookMissed
  <1>3. ~SignalLoses => hist'.owed = hist.owed /\ hist'.missed = hist.missed
    <2>1. PICK n \in Nat : n = IF KillInForce THEN 1 ELSE 0
      OBVIOUS
    <2>2. SignalPlaces => Sends(1, n)
      BY <2>1 DEF SignalPlaces
    <2> QED BY <1>1, <2>2, SendsEffects, AnsweredEffects, HandlerNames
            DEF Signal, SignalGoesOn, SignalReads, SignalGate, SignalInserts,
                SignalFails, SignalCounted, SignalLinks
  <1>4. day'.realized = day.realized
    BY <1>1 DEF Signal, SignalGoesOn, SignalReads, SignalGate, SignalInserts, SignalPlaces,
       SignalFails, SignalLoses, Answered, SignalCounted, SignalLinks, WritesCount, Day, db
  <1>5. CASE SignalReads \/ SignalGate \/ Answered("signal") \/ SignalCounted
    <2>1. trade' = trade
      BY <1>5 DEF SignalReads, SignalGate, Answered, SignalCounted
    <2>2. /\ Kept /\ trade.due => ~Terminal'
          /\ Kept /\ Runs("close") => Terminal' /\ ~trade'.entry
      BY <2>1 DEF BookInv, Terminal
    <2>3. hist' = hist
      BY <1>5 DEF SignalReads, SignalGate, Answered, SignalCounted
    <2> QED BY <1>1, <1>2, <1>4, <2>1, <2>2, <2>3, BookStays
  <1>6. CASE SignalPlaces \/ SignalFails \/ SignalLinks
    <2>1. /\ trade'.units = trade.units /\ trade'.qty = trade.qty /\ trade'.pnl = trade.pnl
          /\ trade'.due = trade.due
      BY <1>1, <1>6 DEF SignalPlaces, SignalFails, SignalLinks, Trade
    <2>2. Pc("signal") \in {"place", "link"}
      BY <1>6 DEF SignalPlaces, SignalFails, SignalLinks, At, Pc
    <2>3. ~Runs("close") /\ ~trade.due
      BY <2>2 DEF RowInv, Runs, Placing
    <2>4. hist'.owed = hist.owed /\ hist'.missed = hist.missed
      <3>1. PICK n \in Nat : n = IF KillInForce THEN 1 ELSE 0
        OBVIOUS
      <3>2. SignalPlaces => Sends(1, n)
        BY <3>1 DEF SignalPlaces
      <3> QED BY <1>6, <3>2, SendsEffects DEF SignalFails, SignalLinks
    <2> QED BY <1>1, <1>2, <1>4, <2>1, <2>3, <2>4, BookStays
  <1>7. CASE SignalInserts
    <2>1. ~Runs("close") /\ ~Runs("partial") /\ Terminal
      BY <1>7 DEF SignalInserts, At, Runs, Pc, RowInv
    <2>2. trade'.units = 0 /\ ~trade'.due
      BY <1>7, TradeEffects
    <2>3. hist' = hist
      BY <1>7 DEF SignalInserts
    <2>4. (Kept => Due = 0) /\ Due' = 0 /\ ~Held' /\ (Kept' <=> Kept)
      BY <1>1, <2>1, <2>2, <2>3 DEF BookInv, Due, Held, Kept
    <2>5. ~Runs("close")' /\ ~Runs("partial")' /\ Pc("close")' = "idle" /\ Pc("partial")' = "idle"
          /\ Pc("close") = "idle" /\ Pc("partial") = "idle"
      BY <1>2, <2>1 DEF BookersKept, Runs
    <2> QED BY <1>4, <2>2, <2>3, <2>4, <2>5 DEF BookInv
  <1> QED BY <1>0, <1>5, <1>6, <1>7 DEF Signal, SignalGoesOn

LEMMA LookingBook ==
    ASSUME TypeInv, RowInv, BookInv, Looking
    PROVE  BookInv'
  <1>1. trade \in Trade /\ hist \in History /\ day \in Day /\ mem \in Memory /\ setup' = setup
        /\ Checks \subseteq Placers /\ Checks \subseteq Handlers
    BY SetupStays, HandlerNames DEF TypeInv, Next
  <1>2. BookersKept
    <2>1. \E p \in Checks : OthersStay(p)
      BY HandlerNames, LookingEffects DEF Looking, DayStep, CheckGoesOn
    <2> QED BY <2>1, BesideCheck DEF BookersKept
  <1>3. day'.realized = day.realized
    BY <1>1, AnsweredEffects
       DEF Looking, DayStep, CheckGoesOn, CheckBegins, FlattenBegins, CheckReadsDay,
       CheckWritesState, WritesKill, Exits, ExitIsRefused, ExitFindsNothing, ExitFails,
       ExitCounted, CheckThrows, Throws, WritesCount, Day, db
  <1>4. ASSUME NEW p \in Checks, ExitFindsNothing(p) PROVE BookInv'
    <2>1. /\ trade'.entry = FALSE /\ trade'.st = "CLOSED"
          /\ trade'.units = trade.units /\ trade'.qty = trade.qty
          /\ trade'.pnl = trade.pnl /\ trade'.due = trade.due
          /\ hist'.owed = hist.owed /\ hist'.missed = (hist.missed \/ trade.due)
      BY <1>4, TradeEffects
    <2>2. CASE trade.due
      BY <1>1, <1>2, <2>1, <2>2, BookMissed
    <2>3. CASE ~trade.due
      <3>1. hist'.missed = hist.missed
        BY <1>1, <2>1, <2>3 DEF History
      <3>2. Terminal'
        BY <2>1 DEF Terminal
      <3> QED BY <1>1, <1>2, <1>3, <2>1, <2>3, <3>1, <3>2, BookStays
    <2> QED BY <2>2, <2>3
  <1> SUFFICES ASSUME \A p \in Checks : ~ExitFindsNothing(p) PROVE BookInv'
    BY <1>4
  <1>5. hist'.owed = hist.owed /\ hist'.missed = hist.missed
    <2>1. ASSUME NEW p \in Checks, Exits(p) \/ ExitFails(p)
          PROVE  hist'.owed = hist.owed /\ hist'.missed = hist.missed
      BY <1>1, <2>1, SendsEffects, ForgottenType, ForgetsEffects DEF Exits, ExitFails
    <2>2. ASSUME FlattenBegins \/ CheckWritesState
          PROVE  hist'.owed = hist.owed /\ hist'.missed = hist.missed
      BY <1>1, <2>2 DEF FlattenBegins, CheckWritesState, History
    <2> QED BY <1>1, <2>1, <2>2, AnsweredEffects
            DEF Looking, DayStep, CheckGoesOn, CheckBegins, CheckReadsDay, WritesKill,
                ExitIsRefused, ExitCounted, CheckThrows, Throws
  <1>6. /\ trade'.units = trade.units /\ trade'.qty = trade.qty /\ trade'.pnl = trade.pnl
        /\ trade'.due = trade.due /\ trade'.entry = trade.entry
        /\ \/ trade'.st = trade.st
           \/ trade.st \in {"LIVE", "SL_CONFIRMED"} /\ trade'.st = "PANIC_EXIT_PLACED"
    BY <1>1, TradeEffects, AnsweredEffects DEF Looking, DayStep, CheckGoesOn, CheckBegins,
       FlattenBegins, CheckReadsDay, CheckWritesState, WritesKill, ExitIsRefused, ExitFails,
       CheckThrows, Throws
  <1>7. Terminal' <=> Terminal
    BY <1>6 DEF Terminal
  <1>8. /\ Kept /\ trade.due => ~Terminal'
        /\ Kept /\ Runs("close") => Terminal' /\ ~trade'.entry
    BY <1>6, <1>7 DEF BookInv
  <1> QED BY <1>1, <1>2, <1>3, <1>5, <1>6, <1>8, BookStays

LEMMA BetweenBook ==
    ASSUME TypeInv, RowInv, BookInv, World \/ Between
    PROVE  BookInv'
  <1>1. trade \in Trade /\ hist \in History /\ hist.owed \in Int /\ setup' = setup
        /\ day.realized \in Int /\ h["close"].n \in Int /\ h["partial"].n \in Int
    BY SetupStays, HandlerNames DEF TypeInv, HandlersInv, Handler, Day, History, Next
  <1>0. CASE Other
    <2>1. /\ OthersStay("other") /\ trade' = trade /\ hist'.owed = hist.owed
          /\ hist'.missed = hist.missed /\ day'.realized = day.realized
      BY <1>0, OtherEffects
    <2>2. BookersKept
      BY <2>1, BesideOther, HandlerNames DEF BookersKept
    <2>3. /\ Kept /\ trade.due => ~Terminal'
          /\ Kept /\ Runs("close") => Terminal' /\ ~trade'.entry
      BY <2>1 DEF BookInv, Terminal
    <2> QED BY <1>1, <2>1, <2>2, <2>3, BookStays
  <1> SUFFICES ASSUME ~Other PROVE BookInv'
    BY <1>0
  <1>2. h' = h /\ day' = day
    BY DEF World, Between, PriceMoves, EntryFills, ExitFills, DayEnds, Protects, SlaConfirms,
           Recovers, SnapshotLands, KillsInMemory, db
  <1>3. BookersKept
    BY <1>2, HandlersStay DEF BookersKept
  <1>4. CASE DayEnds \/ SnapshotLands \/ KillsInMemory
    <2>1. trade' = trade /\ hist' = hist
      BY <1>4 DEF DayEnds, SnapshotLands, KillsInMemory
    <2>2. /\ Kept /\ trade.due => ~Terminal'
          /\ Kept /\ Runs("close") => Terminal' /\ ~trade'.entry
      BY <2>1 DEF BookInv, Terminal
    <2> QED BY <1>1, <1>2, <1>3, <2>1, <2>2, BookStays
  <1>5. CASE Protects \/ SlaConfirms
    <2>1. /\ trade'.units = trade.units /\ trade'.qty = trade.qty /\ trade'.pnl = trade.pnl
          /\ trade'.due = trade.due /\ trade'.st \in {"LIVE", "SL_CONFIRMED"} /\ hist' = hist
      BY <1>1, <1>5 DEF Protects, SlaConfirms, Trade
    <2>2. ~Terminal /\ ~Terminal'
      BY <1>5, <2>1 DEF Protects, SlaConfirms, Terminal
    <2>3. ~(Kept /\ Runs("close"))
      BY <2>2 DEF BookInv
    <2> QED BY <1>1, <1>2, <1>3, <2>1, <2>2, <2>3, BookStays
  <1>9. CASE Recovers
    <2>1. /\ trade'.units = trade.units /\ trade'.qty = trade.qty /\ trade'.pnl = trade.pnl
          /\ trade'.due = trade.due /\ hist'.owed = hist.owed
          /\ hist'.missed = (hist.missed \/ trade.entry)
      BY <1>9, TradeEffects
    <2>2. ~trade.due /\ ~(Kept /\ Runs("close"))
      BY <1>9 DEF Recovers, RowInv, BookInv, Terminal
    <2>3. CASE trade.entry
      BY <1>1, <1>3, <2>1, <2>3, BookMissed
    <2>4. CASE ~trade.entry
      <3>1. hist'.missed = hist.missed
        BY <1>1, <2>1, <2>4 DEF History
      <3> QED BY <1>1, <1>2, <1>3, <2>1, <2>2, <3>1, BookStays
    <2> QED BY <2>3, <2>4
  <1>6. CASE PriceMoves
    <2>1. /\ trade'.units = trade.units /\ trade'.qty = trade.qty /\ trade'.st = trade.st
          /\ trade'.due = trade.due /\ trade'.entry = trade.entry /\ hist' = hist
      BY <1>1, <1>6 DEF PriceMoves, Trade
    <2>2. ~trade.due
      BY <1>6 DEF PriceMoves, RowInv
    <2>3. Due = 0 /\ Due' = 0 /\ (Held' <=> Held) /\ (Kept' <=> Kept) /\ (Terminal' <=> Terminal)
      BY <1>1, <2>1, <2>2 DEF Due, Held, Kept, Terminal
    <2> QED BY <1>1, <1>2, <1>3, <2>1, <2>2, <2>3 DEF BookInv, BookersKept
  <1>7. CASE EntryFills
    <2>1. /\ trade'.units = trade.qty /\ trade'.qty = trade.qty /\ trade'.st = trade.st
          /\ trade'.due = trade.due /\ trade'.entry = FALSE /\ trade'.pnl = trade.pnl
          /\ trade.entry /\ hist' = hist
      BY <1>7, TradeEffects DEF EntryFills
    <2>2. ~Runs("partial") /\ (Kept => ~Runs("close")) /\ ~trade.due
      BY <2>1 DEF RowInv, BookInv
    <2>3. Due' = Due /\ (Kept' <=> Kept)
      BY <1>1, <1>3, <2>1 DEF Due, Kept, BookersKept
    <2> QED BY <1>2, <1>3, <2>1, <2>2, <2>3 DEF BookInv, BookersKept
  <1>8. CASE ExitFills
    <2>1. /\ trade'.units = 0 /\ trade'.qty = trade.qty /\ trade'.st = trade.st
          /\ trade'.due = TRUE /\ trade'.pnl = trade.pnl /\ Held
      BY <1>8, TradeEffects DEF ExitFills
    <2>2. ~trade.due /\ ~Terminal /\ Due = 0
      BY <2>1 DEF RowInv, Due
    <2>3. PICK units \in Int : units = trade.units
      BY <1>1 DEF Trade
    <2>4. PICK pnl \in Int : pnl = trade.pnl
      BY Amounts
    <2>5. units * pnl \in Int
      BY <2>3, <2>4
    <2>6. hist'.owed = hist.owed + units * pnl /\ hist'.missed = hist.missed
      BY <1>1, <1>8, <2>3, <2>4, <2>5 DEF ExitFills, History
    <2>7. Kept' <=> Kept
      BY <1>1, <2>6 DEF Kept
    <2> SUFFICES ASSUME Kept PROVE BookInv'
      BY <1>1, <1>3, <2>7 DEF BookInv, BookersKept
    <2>8. ~Runs("close") /\ Pc("close") = "idle" /\ trade.units = IF Runs("partial") THEN 1 ELSE trade.qty
      BY <2>1, <2>2 DEF BookInv, Runs
    <2>9. Due' = units * pnl
      <3>1. CASE Runs("partial")
        <4>1. units * pnl = pnl
          BY <2>3, <2>4, <2>8, <3>1
        <4> QED BY <1>3, <2>1, <2>4, <3>1, <4>1 DEF Due, BookersKept
      <3>2. CASE ~Runs("partial")
        BY <1>3, <2>1, <2>3, <2>4, <2>8, <3>2 DEF Due, BookersKept
      <3> QED BY <3>1, <3>2
    <2>10. ~Held' /\ ~Terminal'
      BY <2>1, <2>2 DEF Held, Terminal
    <2>11. PICK gain \in Int : gain = units * pnl
      BY <2>5
    <2>12. Due' = gain /\ hist'.owed = hist.owed + gain
      BY <2>6, <2>9, <2>11
    <2> QED BY <1>1, <1>2, <1>3, <2>2, <2>7, <2>8, <2>10, <2>12 DEF BookInv, BookersKept
  <1> QED BY <1>4, <1>5, <1>6, <1>7, <1>8, <1>9 DEF World, Between

LEMMA BookingBook ==
    ASSUME TypeInv, RowInv, BookInv, Booking
    PROVE  BookInv'
  <1>1. trade \in Trade /\ hist \in History /\ day \in Day /\ hist.owed \in Int /\ setup' = setup
        /\ day.realized \in Int /\ h["close"].n \in Int /\ h["partial"].n \in Int
    BY SetupStays, HandlerNames DEF TypeInv, HandlersInv, Handler, Day, History, Next
  <1>2. Due \in Int /\ trade.pnl \in Int /\ trade.qty * trade.pnl \in Int
    BY Amounts DEF Due
  <1>3. ASSUME NEW p \in {"close", "partial"}, OthersStay(p)
        PROVE  \A q \in {"close", "partial"} \ {p} :
                   h'[q] = h[q] /\ Pc(q)' = Pc(q) /\ (Runs(q)' <=> Runs(q))
    BY <1>3, HandlerNames DEF OthersStay
  <1>4. ASSUME NEW p \in {"close", "partial"}, BookReads(p) PROVE BookInv'
    <2>1. /\ OthersStay(p) /\ trade' = trade /\ hist' = hist /\ day' = day
          /\ Pc(p) = "read" /\ Pc(p)' = "book" /\ h'[p].n = day.realized + h[p].n
      BY <1>4, BookingEffects DEF BookReads, At, Pc, db
    <2>2. \A q \in {"close", "partial"} : Runs(q)' <=> Runs(q)
      BY <1>3, <2>1 DEF Runs
    <2>3. (Kept' <=> Kept) /\ Due' = Due /\ (Held' <=> Held) /\ (Terminal' <=> Terminal)
      BY <1>1, <2>1, <2>2 DEF Kept, Due, Held, Terminal
    <2>4. \A q \in {"close", "partial"} \ {p} : h'[q] = h[q] /\ Pc(q)' = Pc(q)
      BY <1>3, <2>1
    <2>5. CASE p = "close"
      BY <1>1, <1>2, <2>1, <2>2, <2>3, <2>4, <2>5 DEF BookInv, Runs
    <2>6. CASE p = "partial"
      BY <1>1, <1>2, <2>1, <2>2, <2>3, <2>4, <2>6 DEF BookInv, Runs
    <2> QED BY <2>5, <2>6
  <1>5. ASSUME NEW p \in {"close", "partial"}, BookWrites(p) PROVE BookInv'
    <2>1. /\ OthersStay(p) /\ trade' = trade /\ hist' = hist
          /\ Pc(p) = "book" /\ Pc(p)' = "booked"
      BY <1>5, BookingEffects DEF BookWrites, At, Pc
    <2>2. \A q \in {"close", "partial"} : Runs(q)' <=> Runs(q)
      BY <1>3, <2>1 DEF Runs
    <2>3. (Kept' <=> Kept) /\ Due' = Due /\ (Held' <=> Held) /\ (Terminal' <=> Terminal)
      BY <1>1, <2>1, <2>2 DEF Kept, Due, Held, Terminal
    <2>4. \A q \in {"close", "partial"} \ {p} : h'[q] = h[q] /\ Pc(q)' = Pc(q)
      BY <1>3, <2>1
    <2>5. day'.realized = h[p].n
      BY <1>1, <1>5 DEF BookWrites, Day
    <2>6. CASE p = "close"
      <3>1. Kept => Due = 0
        BY <2>1, <2>6 DEF BookInv, Due, Runs
      <3> QED BY <1>1, <1>2, <2>1, <2>2, <2>3, <2>4, <2>5, <2>6, <3>1 DEF BookInv, Runs
    <2>7. CASE p = "partial"
      BY <1>1, <1>2, <2>1, <2>2, <2>3, <2>4, <2>5, <2>7 DEF BookInv, Runs
    <2> QED BY <2>6, <2>7
  <1>6. ASSUME NEW p \in {"close", "partial"}, BookFails(p) PROVE BookInv'
    <2>1. OthersStay(p) /\ p # "close" => Pc(p)' = "idle"
      BY <1>6, BookingEffects DEF BookFails
    <2>2. hist'.missed = TRUE
      BY <1>1, <1>6 DEF BookFails, History
    <2>3. Runs("partial")' => Runs("partial")
      BY <1>3, <1>6, BookingEffects DEF Runs, BookFails
    <2> QED BY <1>1, <2>2, <2>3 DEF BookInv, Kept
  <1>7. CASE CloseBegins
    <2>1. /\ OthersStay("close") /\ day' = day /\ hist' = hist /\ trade.due
          /\ h["close"] = Idle /\ h["signal"] = Idle
          /\ setup.partial = "queue" => h["partial"] = Idle
          /\ Pc("close")' = "read" /\ h'["close"].n = trade.qty * trade.pnl
      BY <1>7, BookingEffects DEF CloseBegins, QueueFree, Queued, db
    <2>2. /\ trade'.st = "CLOSED" /\ ~trade'.due /\ trade'.units = trade.units
          /\ trade'.qty = trade.qty /\ trade'.entry = trade.entry
      BY <1>7, TradeEffects
    <2>3. h'["partial"] = h["partial"] /\ Pc("partial")' = Pc("partial") /\ (Runs("partial")' <=> Runs("partial"))
      BY <1>3, <2>1
    <2>4. (Kept' <=> Kept) /\ Due' = 0 /\ Terminal'
      BY <1>1, <2>1, <2>2 DEF Kept, Due, Terminal
    <2>5. ~trade.entry /\ ~Held /\ ~Held'
      BY <2>1, <2>2 DEF RowInv, Held
    <2>6. Kept => ~Runs("partial") /\ Pc("partial") = "idle"
      <3>1. Kept /\ Runs("partial") => setup.partial = "queue"
        BY SetupType DEF BookInv, Kept, TypeInv
      <3>2. ~Runs("partial") => Pc("partial") = "idle"
        BY DEF Runs
      <3>3. h["partial"] = Idle => ~Runs("partial")
        BY IdleIsHandler DEF Runs, Pc
      <3> QED BY <2>1, <3>1, <3>2, <3>3
    <2>7. Pc("close") = "idle"
      BY <2>1, IdleIsHandler DEF Pc
    <2>8. Kept => hist.owed = day.realized + trade.qty * trade.pnl
      <3>1. Kept => Due = trade.qty * trade.pnl
        BY <2>1, <2>6 DEF Due
      <3>2. Kept => hist.owed = day.realized + Due
        BY <2>6, <2>7 DEF BookInv
      <3> QED BY <3>1, <3>2
    <2>9. Kept' => hist'.owed = day'.realized + h'["close"].n
      BY <2>1, <2>4, <2>8
    <2> QED BY <1>1, <2>1, <2>2, <2>3, <2>4, <2>5, <2>6, <2>9 DEF BookInv
  <1>8. CASE Finalize
    <2>1. /\ OthersStay("close") /\ trade' = trade /\ hist' = hist /\ day' = day
          /\ Pc("close") = "booked" /\ Pc("close")' = "idle"
      BY <1>8, BookingEffects DEF Finalize, At, Pc, db
    <2>2. h'["partial"] = h["partial"] /\ Pc("partial")' = Pc("partial") /\ (Runs("partial")' <=> Runs("partial"))
      BY <1>3, <2>1
    <2>3. (Kept' <=> Kept) /\ Due' = Due /\ (Held' <=> Held) /\ (Terminal' <=> Terminal)
      BY <1>1, <2>1, <2>2 DEF Kept, Due, Held, Terminal
    <2> QED BY <1>1, <2>1, <2>2, <2>3 DEF BookInv, Runs
  <1>9. CASE PartialBegins
    <2>1. /\ OthersStay("partial") /\ day' = day /\ trade.units = 2 /\ trade.qty = 2
          /\ setup.partial # "none" /\ h["partial"] = Idle
          /\ setup.partial = "queue" => h["close"] = Idle
          /\ Pc("partial")' = "read" /\ h'["partial"].n = trade.pnl
          /\ trade.st \in {"LIVE", "SL_CONFIRMED"}
      BY <1>9, BookingEffects DEF PartialBegins, QueueFree, Queued, db
    <2>2. /\ trade'.units = 1 /\ trade'.qty = 2 /\ trade'.due = trade.due
          /\ trade'.pnl = trade.pnl
      BY <1>1, <1>9 DEF PartialBegins, Trade
    <2>3. hist'.owed = hist.owed + trade.pnl /\ hist'.missed = hist.missed
      BY <1>1, <1>9 DEF PartialBegins, History
    <2>4. ~trade.due
      BY <2>1 DEF RowInv, Held
    <2>5. Due = 0 /\ Due' = 0 /\ (Kept' <=> Kept)
      BY <1>1, <2>2, <2>3, <2>4 DEF Due, Kept
    <2>6. h'["close"] = h["close"] /\ Pc("close")' = Pc("close") /\ (Runs("close")' <=> Runs("close"))
      BY <1>3, <2>1
    <2>7. Pc("partial") = "idle"
      BY <2>1, IdleIsHandler DEF Pc
    <2>8. Kept => ~Runs("close") /\ Pc("close") = "idle"
      BY <2>1 DEF BookInv, Terminal, Runs
    <2>11. ~trade'.due
      BY <2>2, <2>4
    <2>9. Kept => hist.owed = day.realized
      BY <1>1, <2>5, <2>7, <2>8 DEF BookInv
    <2>10. Runs("partial")'
      BY <2>1 DEF Runs
    <2> QED BY <1>1, <1>2, <2>1, <2>2, <2>3, <2>5, <2>6, <2>8, <2>9, <2>10, <2>11 DEF BookInv
  <1>10. CASE PartialWritesState
    <2>1. /\ OthersStay("partial") /\ trade' = trade /\ hist' = hist
          /\ Pc("partial") = "booked" /\ Pc("partial")' = "qty"
      BY <1>10, BookingEffects DEF PartialWritesState, At, Pc
    <2>2. day'.realized = day.realized
      BY <1>1, <1>10 DEF PartialWritesState, Day
    <2>3. Runs("partial") /\ Runs("partial")'
      BY <2>1 DEF Runs
    <2>4. h'["close"] = h["close"] /\ Pc("close")' = Pc("close") /\ (Runs("close")' <=> Runs("close"))
      BY <1>3, <2>1
    <2>5. (Kept' <=> Kept) /\ Due' = Due /\ (Held' <=> Held) /\ (Terminal' <=> Terminal)
      BY <1>1, <2>1, <2>3 DEF Kept, Due, Held, Terminal
    <2> QED BY <1>1, <2>1, <2>2, <2>3, <2>4, <2>5 DEF BookInv
  <1>11. CASE PartialWritesQty
    <2>1. /\ OthersStay("partial") /\ hist' = hist /\ day' = day
          /\ Pc("partial") = "qty" /\ Pc("partial")' = "idle"
      BY <1>11, BookingEffects DEF PartialWritesQty, At, Pc, db
    <2>2. /\ trade'.units = trade.units /\ trade'.qty = 1 /\ trade'.due = trade.due
          /\ trade'.pnl = trade.pnl /\ trade'.st = trade.st
      BY <1>1, <1>11 DEF PartialWritesQty, Trade
    <2>3. Runs("partial") /\ ~Runs("partial")'
      BY <2>1 DEF Runs
    <2>4. h'["close"] = h["close"] /\ Pc("close")' = Pc("close") /\ (Runs("close")' <=> Runs("close"))
      BY <1>3, <2>1
    <2>5. trade'.qty * trade'.pnl = trade.pnl
      BY <1>2, <2>2
    <2>6. (Kept' <=> Kept) /\ (Held' <=> Held) /\ Due' = Due /\ (Terminal' <=> Terminal)
      BY <1>1, <2>1, <2>2, <2>3, <2>5 DEF Kept, Due, Held, Terminal
    <2>7. Kept => ~Runs("close") /\ (Held => trade.units = 1)
      BY <2>3 DEF BookInv
    <2> QED BY <1>1, <2>1, <2>2, <2>3, <2>4, <2>6, <2>7 DEF BookInv
  <1>12. CASE UpdateIsDropped \/ DoubleExit
    <2>1. trade.due /\ Terminal
      BY <1>12 DEF UpdateIsDropped, DoubleExit, CloseIsLate
    <2>2. ~Kept
      BY <2>1 DEF BookInv
    <2>3. hist'.missed = hist.missed
      BY <1>1, <1>12 DEF UpdateIsDropped, DoubleExit, History
    <2>4. Runs("partial")' <=> Runs("partial")
      BY <1>3, <1>12, BookingEffects, HandlersStay
    <2> QED BY <1>1, <2>2, <2>3, <2>4 DEF BookInv, Kept
  <1>13. CASE DoubleExitHalts \/ DoubleExitThrows
    <2>1. /\ OthersStay("close") /\ trade' = trade /\ hist' = hist
          /\ Pc("close") = "double" /\ Pc("close")' = "idle"
      BY <1>13, BookingEffects DEF DoubleExitHalts, DoubleExitThrows, Throws, At, Pc
    <2>2. day'.realized = day.realized
      BY <1>1, <1>13 DEF DoubleExitHalts, DoubleExitThrows, Throws, Day, db
    <2>3. h'["partial"] = h["partial"] /\ Pc("partial")' = Pc("partial") /\ (Runs("partial")' <=> Runs("partial"))
      BY <1>3, <2>1
    <2>4. (Kept' <=> Kept) /\ Due' = Due /\ (Held' <=> Held) /\ (Terminal' <=> Terminal)
      BY <1>1, <2>1, <2>3 DEF Kept, Due, Held, Terminal
    <2> QED BY <1>1, <2>1, <2>2, <2>3, <2>4 DEF BookInv, Runs
  <1> QED BY <1>4, <1>5, <1>6, <1>7, <1>8, <1>9, <1>10, <1>11, <1>12, <1>13 DEF Booking

LEMMA ProcessBook ==
    ASSUME TypeInv, RowInv, BookInv, Process
    PROVE  BookInv'
  <1>1. trade \in Trade /\ hist \in History /\ day \in Day /\ mem \in Memory /\ setup' = setup
    BY SetupStays DEF TypeInv, Next
  <1>2. CASE AdminSets \/ AdminWrites \/ Halts \/ HaltPersists
    <2>1. \E p \in {"admin", "fatal"} : OthersStay(p)
      BY <1>2, ProcessEffects
    <2>2. BookersKept
      BY <2>1, BesideOther, HandlerNames DEF BookersKept
    <2>3. trade' = trade
      BY <1>2 DEF AdminSets, AdminWrites, Halts, HaltPersists
    <2>4. hist'.owed = hist.owed /\ hist'.missed = hist.missed
      BY <1>1, <1>2 DEF AdminSets, AdminWrites, Halts, HaltPersists, History
    <2>5. day'.realized = day.realized
      BY <1>1, <1>2 DEF AdminSets, AdminWrites, Halts, HaltPersists, Day, db
    <2>6. /\ Kept /\ trade.due => ~Terminal'
          /\ Kept /\ Runs("close") => Terminal' /\ ~trade'.entry
      BY <2>3 DEF BookInv, Terminal
    <2> QED BY <1>1, <2>2, <2>3, <2>4, <2>5, <2>6, BookStays
  <1>3. CASE Ends
    <2>1. /\ ~Runs("close")' /\ ~Runs("partial")' /\ Pc("close")' = "idle" /\ Pc("partial")' = "idle"
      BY <1>3, ProcessEffects, HandlerNames
    <2>2. /\ hist'.missed = (hist.missed \/ InBooking) /\ hist'.owed = hist.owed
          /\ trade'.due = (trade.due /\ ~Terminal) /\ trade'.qty = trade.qty
          /\ trade'.units = trade.units /\ trade'.pnl = trade.pnl /\ trade'.st = trade.st
      BY <1>3, EndsEffects
    <2>3. day' = day
      BY <1>3 DEF Ends, db
    <2> SUFFICES ASSUME Kept' PROVE BookInv'
      BY <2>1 DEF BookInv
    <2>4. Kept /\ ~InBooking
      BY <1>1, <2>2 DEF Kept
    <2>5. /\ h["partial"] = Idle /\ Pc("close") \notin {"read", "book"}
          /\ ~(trade.due /\ Terminal)
      BY <2>4 DEF InBooking, Pc, BookInv
    <2>6. ~Runs("partial") /\ Pc("partial") = "idle"
      BY <2>5, IdleIsHandler DEF Runs, Pc
    <2>7. Due' = Due /\ (Held' <=> Held) /\ (Terminal' <=> Terminal)
      BY <2>1, <2>2, <2>5, <2>6 DEF Due, Held, Terminal
    <2> QED BY <2>1, <2>2, <2>3, <2>4, <2>5, <2>6, <2>7 DEF BookInv
  <1>4. CASE Restart
    <2>1. /\ h' = h /\ day' = day /\ trade' = trade
          /\ hist'.owed = hist.owed /\ hist'.missed = hist.missed
      BY <1>4, RestartEffects
    <2>2. BookersKept
      BY <2>1, HandlersStay DEF BookersKept
    <2>3. /\ Kept /\ trade.due => ~Terminal'
          /\ Kept /\ Runs("close") => Terminal' /\ ~trade'.entry
      BY <2>1 DEF BookInv, Terminal
    <2> QED BY <1>1, <2>1, <2>2, <2>3, BookStays
  <1> QED BY <1>2, <1>3, <1>4 DEF Process, Crash, ExitsAfterHalt

LEMMA NextBook == TypeInv /\ RowInv /\ BookInv /\ [Next]_vars => BookInv'
  <1>1. ASSUME BookInv, UNCHANGED vars PROVE BookInv'
    BY <1>1 DEF BookInv, Kept, Due, Held, Terminal, Runs, Pc, vars, db
  <1> QED BY <1>1, SignalBook, LookingBook, BetweenBook, BookingBook, ProcessBook DEF Next

-----------------------------------------------------------------------------
(* The inductive invariant.                                                 *)
IInv == TypeInv /\ RowInv /\ KillInv /\ EntriesInv /\ OrdersInv /\ BookInv

LEMMA InitIInv == Init => IInv
  <1> SUFFICES ASSUME Init PROVE IInv
    OBVIOUS
  <1>1. TypeInv
    BY InitType
  <1>2. /\ \A p \in Handlers : ~Runs(p) /\ Pc(p) = "idle"
        /\ rows = 0 /\ 0 < MaxRows /\ Placers \subseteq Handlers /\ Checks \subseteq Handlers
        /\ Handlers = {"signal", "close", "check", "flatten", "other", "partial", "admin", "fatal"}
        /\ {CAP, GOAL, MAX_TRADES_PER_DAY, MAX_ORDERS_PER_DAY, MaxRows} \subseteq Nat \ {0}
    BY DayAssumption, IdleIsHandler, HandlerNames DEF Init, Runs, Pc
  <1>3. /\ trade.st = "NONE" /\ trade.units = 0 /\ ~trade.entry /\ trade.qty = 0 /\ ~trade.due
        /\ ~trade.exit /\ mem.up /\ ~mem.kill /\ mem.trades = 0 /\ mem.orders = 0
        /\ day.orders = 0 /\ ~day.kill /\ day.realized = 0
        /\ hist.slipped = 0 /\ hist.owed = 0 /\ hist.sent = 0 /\ hist.entries = 0
        /\ hist.forgotten = 0 /\ hist.uncounted = 0 /\ hist.waiting = 0
    BY DEF Init, NoTrade
  <1>4. Cardinality(Unanswered) = 0
    <2>1. Unanswered = {}
      BY <1>2 DEF Unanswered, Pc
    <2> QED BY <2>1, FS_EmptySet
  <1>5. RowInv
    BY <1>2, <1>3 DEF RowInv, Held, Terminal, Placing
  <1>6. KillInv
    BY <1>2, <1>3 DEF KillInv
  <1>7. EntriesInv
    BY <1>2, <1>3 DEF EntriesInv, Entered, Placing
  <1>8. OrdersInv
    BY <1>2, <1>3, <1>4 DEF OrdersInv
  <1>10. BookInv
    BY <1>2, <1>3 DEF BookInv, Due, Held
  <1> QED BY <1>1, <1>5, <1>6, <1>7, <1>8, <1>10 DEF IInv

LEMMA NextIInv == IInv /\ [Next]_vars => IInv'
  BY NextType, NextRow, NextKill, NextEntries, NextOrders, NextBook DEF IInv

LEMMA Invariant == Spec => []IInv
  BY InitIInv, NextIInv, PTL DEF Spec

(* The types of the day: the orders in memory are between those of the      *)
(* document and those the broker took, who holds units has an open row, and *)
(* the switch in memory is off beside that of the document only when the    *)
(* administrator took it back.                                              *)
THEOREM DayTypeCorrect == Spec => []DayTypeOK
  <1>1. IInv => DayTypeOK
    <2> SUFFICES ASSUME IInv PROVE DayTypeOK
      OBVIOUS
    <2>1. /\ mem \in Memory /\ day \in Day /\ trade \in Trade /\ hist \in History
          /\ rows \in Nat /\ MaxRows \in Nat /\ saved \in BOOLEAN /\ snaps \subseteq BOOLEAN
      BY DayAssumption DEF IInv, TypeInv
    <2>2. /\ day.realized \in Int /\ day.kill \in BOOLEAN /\ day.state \in Days
      BY <2>1 DEF Day
    <2>3. day.orders \in Nat /\ mem.orders \in day.orders .. hist.sent
      <3>1. day.orders \in Int /\ mem.orders \in Int /\ hist.sent \in Nat
        BY <2>1 DEF Day, Memory, History
      <3> QED BY <3>1 DEF IInv, OrdersInv
    <2>4. mem.trades \in 0 .. rows /\ rows \in 0 .. MaxRows
      BY <2>1 DEF IInv, EntriesInv, RowInv, Memory
    <2>5. ASSUME NEW p \in Handlers
          PROVE  h[p].pc \in PcsOf[p] \cup {"idle"} /\ h[p].t \in 0 .. rows
      BY <2>1 DEF IInv, TypeInv, HandlersInv, Handler, Runs, Pc
    <2>6. trade.units \in 0 .. trade.qty
      BY <2>1 DEF IInv, RowInv, Trade
    <2>7. (Held => ~Terminal) /\ (mem.up /\ day.kill => mem.kill \/ mem.halted \/ hist.cleared)
      BY DEF IInv, RowInv, KillInv, Guarded
    <2> QED BY <2>1, <2>2, <2>3, <2>4, <2>5, <2>6, <2>7 DEF DayTypeOK
  <1> QED BY <1>1, Invariant, PTL

(* What ends the entries of a day holds across crashes, lost answers and    *)
(* failing writes of the count: the switch, the limit of trades but for the *)
(* entries that failed to their signal, the limit of orders but for those   *)
(* no count has and those that waited for their answer.                     *)
THEOREM LimitsAreKept == Spec => []LimitsHold
  <1>1. IInv => LimitsHold
    BY DEF IInv, KillInv, EntriesInv, OrdersInv, LimitsHold
  <1> QED BY <1>1, Invariant, PTL

(* The realised profit of the day is what its trades made, when none is     *)
(* being booked and no booking was missed: by a failure, by an entry or an  *)
(* exit of a row that was given up.                                         *)
THEOREM ProfitIsBooked == Spec => []RealizedIsSum
  <1>1. IInv => RealizedIsSum
    <2> SUFFICES ASSUME IInv, Booked, ~hist.missed, setup.partial # "watch"
                 PROVE  day.realized = hist.owed
      BY DEF RealizedIsSum
    <2>1. Kept /\ Due = 0
      BY DEF Kept, Due, Booked
    <2>2. Pc("close") = "idle" /\ Pc("partial") = "idle"
      BY IdleIsHandler DEF Booked, Pc
    <2>3. day.realized \in Int /\ hist.owed \in Int
      BY DEF IInv, TypeInv, Day, History
    <2> QED BY <2>1, <2>2, <2>3 DEF IInv, BookInv
  <1> QED BY <1>1, Invariant, PTL
================================================================================
