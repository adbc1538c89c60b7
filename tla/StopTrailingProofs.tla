-------------------------- MODULE StopTrailingProofs --------------------------
(***************************************************************************)
(* Theorems about StopTrailing, for any prices, ladders, limits and         *)
(* circumstances: the types, that the row promises no tighter stop than the *)
(* broker holds, and that one stop works at most.                           *)
(***************************************************************************)
EXTENDS StopTrailing, SequenceTheorems, FiniteSetTheorems, TLAPS

Alc == [target : 0 .. 2, submitted : 0 .. 2, applied : 0 .. 2, pending : BOOLEAN,
        asked : 0 .. MaxPrice, retries : Nat]
Ends == {"none", "SL", "SL_CANCELLED", "FLAT", "EXIT_NOW", "SHADOW_EXIT_BREACH",
         "SL_ALREADY_BREACHED", "SL_PLACE_FAILED"}
Row == [sl : 0 .. MaxOrders, stop : Prices, peak : Prices, tier : Nat, floor : 0 .. MaxPrice,
        shown : Int, final : Int, pend : BOOLEAN, target : 0 .. MaxPrice, shadow : BOOLEAN,
        alc : Alc, end : Ends]
Statuses == {Pending, "OPEN", "none"} \cup Ended
Known == [st : Statuses, trig : 0 .. MaxPrice]
Memory == [known : [OrderIds -> Known], ended : SUBSET OrderIds, mods : [OrderIds -> Nat],
           expected : SUBSET OrderIds, fails : 0 .. 2]
Places == {"send", "retry", "again", "failed", "capCancel", "capPlace", "capLink", "done",
           "cancel", "place"}
Command == [pc : Places, cand : Prices, first : Prices, alc : 0 .. 2, trail : BOOLEAN,
            final : Int, stop : Prices, px : Int, retried : BOOLEAN, soft : BOOLEAN,
            sure : BOOLEAN]

RowOK(r) == r \in Row /\ (r.pend => r.target \in Prices)
MemoryOK(m) ==
    /\ m \in Memory
    /\ \A id \in OrderIds : /\ m.known[id].st = "none" <=> m.known[id].trig = 0
                            /\ m.mods[id] <= KITE_MAX_MODIFICATIONS_PER_ORDER + 1

(* The broker, and the postbacks it sent: an order never ends twice, nor     *)
(* works again; unless a stop was lowered, a later trigger is not below an  *)
(* earlier one.                                                             *)
BrokerInv ==
    /\ setup \in TrailSetups /\ faults \in 0 .. setup.faults
    /\ ltp \in Prices /\ eased \in BOOLEAN
    /\ orders \in Seq(OrderType) /\ Len(orders) \in 1 .. MaxOrders
    /\ news \subseteq PostType
    /\ \A n \in news : n.id \in DOMAIN orders /\ (n.st \in Ended => ~Works(n.id))
    /\ ~eased =>
          /\ \A a, b \in DOMAIN orders : a <= b => orders[a].trig <= orders[b].trig
          /\ \A n \in news : n.trig <= orders[n.id].trig

(* What was heard is true or old.                                           *)
HeardInv ==
    /\ MemoryOK(mem)
    /\ queue \in Seq(PostType)
    /\ \A k \in DOMAIN queue : queue[k].id \in DOMAIN orders
    /\ \A id \in mem.ended : id \in DOMAIN orders /\ ~Works(id)
    /\ \A id \in OrderIds : id \notin DOMAIN orders => mem.known[id].trig = 0
    /\ ~eased =>
          /\ \A k \in DOMAIN queue : queue[k].trig <= orders[queue[k].id].trig
          /\ \A id \in DOMAIN orders : mem.known[id].trig <= orders[id].trig

(* The row names the last order, but in the middle of a replacement.        *)
RowInv ==
    /\ RowOK(row)
    /\ row.sl = IF At("capLink") THEN Len(orders) - 1
                ELSE IF row.sl = NoOrder THEN NoOrder ELSE Len(orders)
    /\ row.sl = NoOrder => At("place") \/ ~Live
    /\ row.sl # NoOrder /\ ~eased => row.stop <= orders[row.sl].trig

(* One command of the exit loop places one order at most; what it calls     *)
(* done the broker has.                                                     *)
CmdInv ==
    /\ cmd \in {Idle} \cup Command
    /\ ~Live => cmd = Idle
    /\ At("place") => row.sl = NoOrder
    /\ cmd.pc \notin {"idle", "done", "capLink"} => Len(orders) < MaxOrders
    /\ At("again") => cmd.retried
    /\ At("retry") \/ At("again") => mem.mods[row.sl] <= KITE_MAX_MODIFICATIONS_PER_ORDER
    /\ At("done") /\ ~eased => cmd.cand <= orders[row.sl].trig
    /\ At("capLink") => cmd.cand = orders[Len(orders)].trig

(* The last order is the one that works, and none does when a new one is    *)
(* placed.                                                                  *)
SoleInv ==
    "processing" \notin setup.kinds =>
        \A id \in DOMAIN orders :
            Works(id) => id = Len(orders) /\ ~At("place") /\ ~At("capPlace")

(* A write to the row that leaves the order and the stop alone.              *)
SameStop(r, s) == r.sl = s.sl /\ r.stop = s.stop /\ r.end = s.end

IInv == BrokerInv /\ HeardInv /\ RowInv /\ CmdInv /\ SoleInv

-----------------------------------------------------------------------------
(* Largest and least.                                                       *)

LEMMA MaxIn ==
    ASSUME NEW S \in SUBSET Int, NEW x \in S, \A y \in S : x >= y
    PROVE  Max(S) = x
  <1>1. \E y \in S : \A z \in S : y >= z
    OBVIOUS
  <1>2. Max(S) \in S /\ \A y \in S : Max(S) >= y
    BY <1>1 DEF Max
  <1>3. Max(S) \in Int /\ x \in Int /\ x >= Max(S) /\ Max(S) >= x
    BY <1>2
  <1> QED BY <1>3

LEMMA MinIn ==
    ASSUME NEW S \in SUBSET Int, NEW x \in S, \A y \in S : x =< y
    PROVE  Min(S) = x
  <1>1. \E y \in S : \A z \in S : y =< z
    OBVIOUS
  <1>2. Min(S) \in S /\ \A y \in S : Min(S) =< y
    BY <1>1 DEF Min
  <1>3. Min(S) \in Int /\ x \in Int /\ x =< Min(S) /\ Min(S) =< x
    BY <1>2
  <1> QED BY <1>3

LEMMA MinPair ==
    ASSUME NEW a \in Int, NEW b \in Int
    PROVE  Min({a, b}) = IF a <= b THEN a ELSE b
  <1>1. CASE a <= b
    BY <1>1, MinIn
  <1>2. CASE ~(a <= b)
    BY <1>2, MinIn
  <1> QED BY <1>1, <1>2

LEMMA MaxPair ==
    ASSUME NEW a \in Int, NEW b \in Int
    PROVE  Max({a, b}) = IF a >= b THEN a ELSE b
  <1>1. CASE a >= b
    BY <1>1, MaxIn
  <1>2. CASE ~(a >= b)
    BY <1>2, MaxIn
  <1> QED BY <1>1, <1>2

LEMMA MaxThree ==
    ASSUME NEW a \in Int, NEW b \in Int, NEW c \in Int
    PROVE  /\ Max({a, b, c}) \in {a, b, c}
           /\ Max({a, b, c}) >= a /\ Max({a, b, c}) >= b /\ Max({a, b, c}) >= c
  <1>1. PICK x \in {a, b, c} : x >= a /\ x >= b /\ x >= c
    OBVIOUS
  <1>2. Max({a, b, c}) = x
    BY <1>1, MaxIn
  <1> QED BY <1>1, <1>2

LEMMA MaxFour ==
    ASSUME NEW a \in Int, NEW b \in Int, NEW c \in Int, NEW d \in Int
    PROVE  Max({a, b, c, d}) \in {a, b, c, d}
  <1>1. PICK x \in {a, b, c, d} : x >= a /\ x >= b /\ x >= c /\ x >= d
    OBVIOUS
  <1>2. Max({a, b, c, d}) = x
    BY <1>1, MaxIn
  <1> QED BY <1>1, <1>2

-----------------------------------------------------------------------------
(* The writes to the row.                                                   *)

(* What the assumption says of the constants.                               *)
LEMMA Bounds ==
    /\ MaxPrice \in Nat \ {0} /\ MaxOrders \in Nat \ {0}
    /\ DYN_STEP_TICKS \in Nat \ {0} /\ KITE_MAX_MODIFICATIONS_PER_ORDER \in Nat \ {0}
    /\ TIGHTEN_TIER \in Nat /\ ALC_MAX_RETRIES \in Nat
  BY TrailingAssumption

LEMMA PriceInt ==
    \A p \in Prices : p \in Int /\ p >= 1 /\ p <= MaxPrice /\ p \in 0 .. MaxPrice /\ p # 0
  BY Bounds DEF Prices

LEMMA StatusIn == \A s \in {Pending} \cup Ended : s \in Statuses /\ s # "none"
  BY DEF Statuses, Pending, Ended

LEMMA ClearedRow ==
    ASSUME NEW r, RowOK(r)
    PROVE  RowOK(ClearPending(r)) /\ SameStop(ClearPending(r), r)
  <1>1. 0 \in 0 .. MaxPrice /\ r \in Row
    BY Bounds DEF RowOK
  <1>2. PICK c : c = [r EXCEPT !.pend = FALSE, !.target = 0]
    OBVIOUS
  <1>3. c \in Row /\ c.pend = FALSE /\ SameStop(c, r)
    BY <1>1, <1>2 DEF Row, SameStop
  <1> QED BY <1>2, <1>3 DEF RowOK, ClearPending

LEMMA PendingRow ==
    ASSUME NEW r, RowOK(r), NEW stop \in Prices
    PROVE  RowOK(SetPending(r, stop)) /\ SameStop(SetPending(r, stop), r)
  <1>1. stop \in 0 .. MaxPrice /\ r \in Row
    BY Bounds DEF RowOK, Prices
  <1>2. PICK c : c = [r EXCEPT !.pend = TRUE, !.target = stop]
    OBVIOUS
  <1>3. c \in Row /\ c.target = stop /\ SameStop(c, r)
    BY <1>1, <1>2 DEF Row, SameStop
  <1> QED BY <1>2, <1>3 DEF RowOK, SetPending

LEMMA StopRow ==
    ASSUME NEW r, RowOK(r), NEW stop \in Prices
    PROVE  LET s == [r EXCEPT !.stop = stop]
           IN RowOK(s) /\ s.stop = stop /\ s.sl = r.sl /\ s.end = r.end
  BY DEF RowOK, Row

LEMMA ShadowRow ==
    ASSUME NEW r, RowOK(r), NEW b \in BOOLEAN
    PROVE  RowOK([r EXCEPT !.shadow = b]) /\ SameStop([r EXCEPT !.shadow = b], r)
  BY DEF RowOK, Row, SameStop

LEMMA AlcRow ==
    ASSUME NEW r, RowOK(r), NEW a \in Alc
    PROVE  RowOK([r EXCEPT !.alc = a]) /\ SameStop([r EXCEPT !.alc = a], r)
  BY DEF RowOK, Row, SameStop

LEMMA EndRow ==
    ASSUME NEW r, RowOK(r), NEW e \in Ends
    PROVE  LET s == [r EXCEPT !.end = e]
           IN RowOK(s) /\ s.stop = r.stop /\ s.sl = r.sl /\ s.end = e
  BY DEF RowOK, Row

LEMMA OrderRow ==
    ASSUME NEW r, RowOK(r), NEW id \in 0 .. MaxOrders
    PROVE  LET s == [r EXCEPT !.sl = id]
           IN RowOK(s) /\ s.stop = r.stop /\ s.sl = id /\ s.end = r.end
  BY DEF RowOK, Row

LEMMA ShadowedRow ==
    ASSUME NEW r, RowOK(r)
    PROVE  RowOK(Shadowed(r)) /\ Shadowed(r).sl = r.sl /\ Shadowed(r).stop = r.stop
  BY DEF RowOK, Row, Shadowed, Ends

(* What is asked of the broker, refused, or confirmed.                      *)
LEMMA AlcAsked ==
    ASSUME NEW r, RowOK(r), NEW n \in 0 .. 2, NEW p \in Prices
    PROVE  LET s == [r EXCEPT !.shadow = FALSE, !.alc.submitted = n, !.alc.pending = TRUE,
                              !.alc.asked = p]
           IN RowOK(s) /\ SameStop(s, r)
  <1>1. p \in 0 .. MaxPrice
    BY Bounds DEF Prices
  <1>2. PICK a : a = [r.alc EXCEPT !.submitted = n, !.pending = TRUE, !.asked = p]
    OBVIOUS
  <1>3. a \in Alc
    BY <1>1, <1>2 DEF RowOK, Row, Alc
  <1>4. PICK c : c = [r EXCEPT !.shadow = FALSE]
    OBVIOUS
  <1>5. RowOK(c) /\ SameStop(c, r) /\ c.alc = r.alc
    BY <1>4, ShadowRow DEF RowOK, Row
  <1>6. [r EXCEPT !.shadow = FALSE, !.alc.submitted = n, !.alc.pending = TRUE, !.alc.asked = p]
          = [c EXCEPT !.alc = a]
    BY <1>2, <1>4, <1>5 DEF RowOK, Row, Alc
  <1> QED BY <1>3, <1>5, <1>6, AlcRow DEF SameStop

LEMMA AlcConfirmedRow ==
    ASSUME NEW r, RowOK(r), NEW n \in 0 .. 2
    PROVE  LET s == [r EXCEPT !.alc.submitted = n, !.alc.applied = n, !.alc.pending = FALSE,
                              !.alc.retries = 0]
           IN RowOK(s) /\ SameStop(s, r)
  <1>1. PICK a : a = [r.alc EXCEPT !.submitted = n, !.applied = n, !.pending = FALSE,
                                   !.retries = 0]
    OBVIOUS
  <1>2. a \in Alc
    BY <1>1 DEF RowOK, Row, Alc
  <1>3. [r EXCEPT !.alc.submitted = n, !.alc.applied = n, !.alc.pending = FALSE,
                  !.alc.retries = 0] = [r EXCEPT !.alc = a]
    BY <1>1 DEF RowOK, Row, Alc
  <1> QED BY <1>2, <1>3, AlcRow

LEMMA AlcFailedRow ==
    ASSUME NEW r, RowOK(r), cmd.first \in Prices
    PROVE  RowOK(AlcFailed(r)) /\ SameStop(AlcFailed(r), r)
  <1>1. cmd.first \in 0 .. MaxPrice /\ r.alc \in Alc
    BY Bounds DEF Prices, RowOK, Row
  <1>2. PICK n : n = Min({r.alc.retries + 1, ALC_MAX_RETRIES})
    OBVIOUS
  <1>3. n \in Nat
    BY <1>1, <1>2, Bounds, MinPair DEF Alc
  <1>4. PICK a : a = [r.alc EXCEPT !.retries = n, !.asked = cmd.first]
    OBVIOUS
  <1>5. a \in Alc
    BY <1>1, <1>3, <1>4 DEF Alc
  <1>6. AlcFailed(r) = [r EXCEPT !.alc = a]
    BY <1>2, <1>4 DEF AlcFailed, RowOK, Row, Alc
  <1> QED BY <1>5, <1>6, AlcRow

-----------------------------------------------------------------------------
(* The plan.                                                                *)

LEMMA ReadingTypes ==
    ASSUME BrokerInv, NEW i \in Readings
    PROVE  /\ i.px \in Prices /\ i.trail \in Int /\ i.alc \in 0 .. 2 /\ ltp \in Int
           /\ i.own \in BOOLEAN /\ i.stale \in BOOLEAN
  <1>1. ltp \in 1 .. MaxPrice /\ MaxPrice \in Nat
    BY Bounds DEF BrokerInv, Prices
  <1>2. /\ i.px \in {ltp, ltp - 1} /\ i.trail \in 0 .. ltp - 1 /\ i.alc \in 0 .. 2
        /\ i.own \in BOOLEAN /\ i.stale \in BOOLEAN /\ (i.px < ltp => i.px > 0)
    BY DEF Readings
  <1> QED BY <1>1, <1>2 DEF Prices

LEMMA PlanTypes ==
    ASSUME BrokerInv, RowOK(row), NEW i \in Readings
    PROVE  /\ Peak(i) \in Prices /\ Tier(i) \in Nat /\ Floor(i) \in 0 .. MaxPrice
           /\ AlcTarget(i) \in 0 .. 2 /\ AlcFloor(i) \in Int /\ WinnerFloor(i) \in Int
  <1>1. /\ row.peak \in Prices /\ row.tier \in Nat /\ row.floor \in 0 .. MaxPrice
        /\ row.alc \in Alc
    BY DEF RowOK, Row
  <1>2. i.px \in Prices /\ i.alc \in 0 .. 2 /\ i.trail \in Int
    BY ReadingTypes
  <1>3. Peak(i) \in Prices
    BY <1>1, <1>2, MaxPair DEF Peak, Prices
  <1>4. TierOf[Peak(i)] \in Nat /\ FloorOf[Peak(i)] \in 0 .. MaxPrice
    BY <1>3, TrailingAssumption
  <1>5. Tier(i) \in Nat
    BY <1>1, <1>4, MaxPair DEF Tier
  <1>6. Floor(i) \in 0 .. MaxPrice
    BY <1>1, <1>4, MaxPair DEF Floor
  <1>7. AlcTarget(i) \in 0 .. 2
    <2>1. row.alc.target \in 0 .. 2 /\ row.alc.applied \in 0 .. 2
      BY <1>1 DEF Alc
    <2>2. row.alc.target \in Int /\ row.alc.applied \in Int /\ i.alc \in Int
      BY <2>1, <1>2
    <2>3. Max({row.alc.target, row.alc.applied, i.alc}) \in {row.alc.target, row.alc.applied, i.alc}
      BY <2>2, MaxThree
    <2>4. Max({row.alc.target, row.alc.applied, i.alc}) \in 0 .. 2
      BY <2>1, <2>3, <1>2
    <2> QED BY <2>1, <2>4 DEF AlcTarget
  <1>8. AlcFloor(i) \in Int
    <2>1. CASE AlcActive(i)
      <3>1. AlcTarget(i) > row.alc.applied /\ row.alc.applied \in 0 .. 2
        BY <1>1, <2>1 DEF AlcActive, Alc
      <3>2. AlcTarget(i) \in 1 .. 2
        BY <3>1, <1>7
      <3>3. ALC_STOP[AlcTarget(i)] \in Prices
        BY <3>2, TrailingAssumption
      <3> QED BY <3>3, <2>1 DEF AlcFloor, Prices
    <2>2. CASE ~AlcActive(i)
      BY <2>2 DEF AlcFloor
    <2> QED BY <2>1, <2>2
  <1>9. WinnerFloor(i) \in Int
    <2>1. PICK w \in Int : w = IF i.own THEN i.trail ELSE 0
      BY <1>2
    <2>2. Max({Floor(i), w}) \in Int
      BY <1>6, MaxPair
    <2> QED BY <2>1, <2>2 DEF WinnerFloor
  <1> QED BY <1>3, <1>5, <1>6, <1>7, <1>8, <1>9

LEMMA ClampType ==
    ASSUME BrokerInv, NEW s \in Int
    PROVE  Clamp(s) \in Int /\ Clamp(s) < MaxPrice
  <1>1. ltp \in 1 .. MaxPrice /\ MaxPrice \in Nat
    BY Bounds DEF BrokerInv, Prices
  <1> QED BY <1>1, MinPair DEF Clamp

LEMMA StopTypes ==
    ASSUME BrokerInv, RowOK(row), NEW i \in Readings
    PROVE  /\ Desired(i) \in Int /\ Proposal(i) \in Int /\ FinalStop(i) \in Int
           /\ Final(i) \in Int /\ Final(i) <= MaxPrice
  <1>1. row.stop \in Int /\ MaxPrice \in Nat
    BY Bounds DEF RowOK, Row, Prices
  <1>2. i.trail \in Int /\ AlcFloor(i) \in Int /\ WinnerFloor(i) \in Int
    BY ReadingTypes, PlanTypes
  <1>3. Max({row.stop, AlcFloor(i), WinnerFloor(i)}) \in Int
    BY <1>1, <1>2, MaxThree
  <1>4. Desired(i) \in Int
    BY <1>1, <1>3, ClampType, MaxPair DEF Desired
  <1>5. Max({row.stop, AlcFloor(i), WinnerFloor(i), i.trail}) \in Int
    BY <1>1, <1>2, MaxFour
  <1>6. Proposal(i) \in Int
    BY <1>5, ClampType DEF Proposal
  <1>7. Desired(i) + 1 \in Int
    BY <1>4
  <1>8. Final(i) \in Int /\ Final(i) <= MaxPrice
    BY <1>1, <1>7, ClampType DEF Final
  <1> QED BY <1>4, <1>6, <1>8 DEF FinalStop

LEMMA ProtectedRow ==
    ASSUME BrokerInv, RowOK(row), NEW i \in Readings
    PROVE  RowOK(Protected(i)) /\ SameStop(Protected(i), row)
  <1>1. row \in Row /\ row.alc \in Alc
    BY DEF RowOK, Row
  <1>2. PICK shown : shown = Max({row.shown, Desired(i), Proposal(i)})
    OBVIOUS
  <1>3. shown \in Int
    BY <1>1, <1>2, StopTypes, MaxThree DEF Row
  <1>4. PICK final : final = IF Final(i) > 0 THEN Max({row.final, Final(i)}) ELSE 0
    OBVIOUS
  <1>5. final \in Int
    <2>1. Max({row.final, Final(i)}) \in Int
      BY <1>1, StopTypes, MaxPair DEF Row
    <2> QED BY <1>4, <2>1
  <1>6. PICK pending \in BOOLEAN : pending = (row.alc.pending /\ ~AlcConfirmed(i))
    OBVIOUS
  <1>7. PICK retries : retries = IF AlcConfirmed(i) THEN 0 ELSE row.alc.retries
    OBVIOUS
  <1>8. PICK a : a = [row.alc EXCEPT !.target = AlcTarget(i), !.pending = pending,
                                     !.retries = retries]
    OBVIOUS
  <1>9. a \in Alc
    <2>1. retries \in Nat
      BY <1>1, <1>7 DEF Alc
    <2>2. a = [target |-> AlcTarget(i), submitted |-> row.alc.submitted,
               applied |-> row.alc.applied, pending |-> pending, asked |-> row.alc.asked,
               retries |-> retries]
      BY <1>1, <1>8 DEF Alc
    <2> QED BY <1>1, <2>1, <2>2, PlanTypes DEF Alc
  <1>10. PICK c : c = [sl |-> row.sl, stop |-> row.stop, peak |-> Peak(i), tier |-> Tier(i),
                       floor |-> Floor(i), shown |-> shown, final |-> final,
                       pend |-> row.pend, target |-> row.target, shadow |-> row.shadow,
                       alc |-> a, end |-> row.end]
    OBVIOUS
  <1>11. RowOK(c) /\ SameStop(c, row)
    BY <1>1, <1>3, <1>5, <1>9, <1>10, PlanTypes DEF RowOK, Row, SameStop
  <1>12. Protected(i) = c
    <2>1. Protected(i) = [row EXCEPT !.peak = Peak(i), !.tier = Tier(i), !.floor = Floor(i),
                                     !.shown = shown, !.final = final,
                                     !.alc.target = AlcTarget(i), !.alc.pending = pending,
                                     !.alc.retries = retries]
      BY <1>1, <1>2, <1>4, <1>6, <1>7 DEF Protected, Row, Alc
    <2>2. PICK d : d = [row EXCEPT !.peak = Peak(i), !.tier = Tier(i), !.floor = Floor(i),
                                   !.shown = shown, !.final = final, !.alc = a]
      OBVIOUS
    <2>3. d = Protected(i)
      BY <1>1, <1>8, <2>1, <2>2 DEF Row, Alc
    <2>4. /\ row.sl = d.sl /\ row.stop = d.stop /\ row.pend = d.pend /\ row.target = d.target
          /\ row.shadow = d.shadow /\ row.end = d.end /\ d.alc = a /\ d.shown = shown
          /\ d.final = final /\ d.peak = Peak(i) /\ d.tier = Tier(i) /\ d.floor = Floor(i)
      BY <1>1, <2>2 DEF Row
    <2>5. d = [sl |-> d.sl, stop |-> d.stop, peak |-> d.peak, tier |-> d.tier,
               floor |-> d.floor, shown |-> d.shown, final |-> d.final, pend |-> d.pend,
               target |-> d.target, shadow |-> d.shadow, alc |-> d.alc, end |-> d.end]
      BY <1>1, <2>2 DEF Row
    <2>6. d = c
      BY <1>10, <2>4, <2>5
    <2> QED BY <2>3, <2>6
  <1> QED BY <1>11, <1>12

LEMMA RequestType ==
    ASSUME BrokerInv, RowOK(row), NEW i \in Readings, MayModify(i)
    PROVE  /\ Request(i) \in Command /\ Request(i).pc = "send"
           /\ Request(i) # Idle
  <1>1. row.stop \in Prices
    BY DEF RowOK, Row
  <1>2. Final(i) \in Prices
    <2>1. Final(i) > row.stop
      BY DEF MayModify
    <2> QED BY <1>1, <2>1, StopTypes DEF Prices
  <1>3. PICK n : n = IF OwnedByAlc(i) THEN AlcTarget(i) ELSE 0
    OBVIOUS
  <1>4. n \in 0 .. 2
    BY <1>3, PlanTypes
  <1>5. PICK b \in BOOLEAN : b = (~OwnedByAlc(i) /\ WinnerFloor(i) > Floor(i))
    OBVIOUS
  <1>6. i.px \in Int /\ FinalStop(i) \in Int
    BY ReadingTypes, StopTypes DEF Prices
  <1>7. Request(i) = [pc |-> "send", cand |-> Final(i), first |-> Final(i), alc |-> n,
                      trail |-> b, final |-> FinalStop(i), stop |-> row.stop, px |-> i.px,
                      retried |-> FALSE, soft |-> FALSE, sure |-> FALSE]
    BY <1>3, <1>5 DEF Request
  <1> QED BY <1>1, <1>2, <1>4, <1>6, <1>7 DEF Command, Places, Idle

-----------------------------------------------------------------------------
(* The broker.                                                              *)

LEMMA IsSeq ==
    ASSUME NEW S, NEW n \in Nat, NEW f \in [1 .. n -> S]
    PROVE  f \in Seq(S) /\ Len(f) = n
  <1>1. f \in Seq(S)
    OBVIOUS
  <1>2. DOMAIN f = 1 .. n /\ DOMAIN f = 1 .. Len(f) /\ Len(f) \in Nat
    BY <1>1, LenProperties
  <1> QED BY <1>1, <1>2

(* Orders are never taken back and never work again; a trigger falls only   *)
(* if a stop was lowered.                                                   *)
Grown ==
    /\ setup' = setup /\ (eased => eased') /\ Len(orders) <= Len(orders')
    /\ \A id \in DOMAIN orders :
          /\ orders'[id].st = Pending => orders[id].st = Pending
          /\ ~eased' => orders[id].trig <= orders'[id].trig

(* Nothing but the end of orders.                                           *)
Same ==
    /\ setup' = setup /\ eased' = eased /\ Len(orders') = Len(orders)
    /\ \A id \in DOMAIN orders :
          /\ orders'[id].st = Pending => orders[id].st = Pending
          /\ orders'[id].trig = orders[id].trig

LEMMA OrderTypes ==
    ASSUME BrokerInv
    PROVE  /\ Len(orders) \in 1 .. MaxOrders /\ DOMAIN orders = 1 .. Len(orders)
           /\ orders \in [1 .. Len(orders) -> OrderType]
           /\ \A id \in DOMAIN orders : /\ orders[id] \in OrderType /\ orders[id].trig \in Prices
                                        /\ orders[id].trig \in Int /\ id \in OrderIds
           /\ Len(orders) \in DOMAIN orders
  <1>1. /\ orders \in Seq(OrderType) /\ Len(orders) \in 1 .. MaxOrders /\ MaxOrders \in Nat
    BY Bounds DEF BrokerInv
  <1>2. DOMAIN orders = 1 .. Len(orders) /\ orders \in [1 .. Len(orders) -> OrderType]
    BY <1>1, LenProperties
  <1>3. \A id \in DOMAIN orders : orders[id] \in OrderType
    BY <1>2
  <1> QED BY <1>1, <1>2, <1>3 DEF OrderType, Prices, OrderIds

LEMMA SameGrows == BrokerInv /\ Same => Grown
  BY OrderTypes DEF Same, Grown

LEMMA BrokerSame ==
    ASSUME BrokerInv, Same, faults' \in 0 .. setup.faults, ltp' \in Prices,
           orders' \in Seq(OrderType), news' \subseteq PostType,
           \A n \in news' :
              \/ n \in news
              \/ /\ n.id \in DOMAIN orders /\ n.trig = orders[n.id].trig
                 /\ n.st \in Ended => orders'[n.id].st # Pending
    PROVE  BrokerInv'
  <1>1. DOMAIN orders' = DOMAIN orders /\ Len(orders') = Len(orders)
    BY LenProperties, OrderTypes DEF Same
  <1>2. \A n \in news' : n.id \in DOMAIN orders' /\ (n.st \in Ended => orders'[n.id].st # Pending)
    BY <1>1 DEF BrokerInv, Same, Works
  <1>3. ~eased' =>
          /\ \A a, b \in DOMAIN orders' : a <= b => orders'[a].trig <= orders'[b].trig
          /\ \A n \in news' : n.trig <= orders'[n.id].trig
    <2> SUFFICES ASSUME ~eased'
                 PROVE  /\ \A a, b \in DOMAIN orders' : a <= b => orders'[a].trig <= orders'[b].trig
                        /\ \A n \in news' : n.trig <= orders'[n.id].trig
      OBVIOUS
    <2>1. /\ \A a, b \in DOMAIN orders : a <= b => orders[a].trig <= orders[b].trig
          /\ \A n \in news : n.id \in DOMAIN orders /\ n.trig <= orders[n.id].trig
      BY DEF BrokerInv, Same
    <2>2. \A id \in DOMAIN orders : orders'[id].trig = orders[id].trig /\ orders[id].trig \in Int
      BY OrderTypes DEF Same
    <2>3. \A n \in news' : n.trig <= orders'[n.id].trig
      <3> TAKE n \in news'
      <3>1. CASE n \in news
        BY <2>1, <2>2, <3>1
      <3>2. CASE n.id \in DOMAIN orders /\ n.trig = orders[n.id].trig
        BY <2>2, <3>2
      <3> QED BY <3>1, <3>2
    <2> QED BY <1>1, <2>1, <2>2, <2>3
  <1> QED BY <1>1, <1>2, <1>3 DEF BrokerInv, Same, Works

LEMMA FaultTypes ==
    ASSUME BrokerInv, UNCHANGED setup, NoFault \/ \E kind \in TrailFaults : Fault(kind)
    PROVE  faults' \in 0 .. setup.faults
  <1>1. faults \in 0 .. setup.faults /\ setup.faults \in Nat
    BY TrailingAssumption DEF BrokerInv, TrailSetup
  <1> QED BY <1>1 DEF NoFault, Fault

LEMMA MarketStill ==
    ASSUME BrokerInv, UNCHANGED setup, UNCHANGED market, faults' \in 0 .. setup.faults
    PROVE  BrokerInv' /\ Same /\ Grown /\ orders' = orders
  <1>1. /\ ltp' = ltp /\ orders' = orders /\ news' = news /\ eased' = eased
    BY DEF market
  <1>2. Same
    BY <1>1 DEF Same
  <1> QED BY <1>1, <1>2, BrokerSame, SameGrows DEF BrokerInv

LEMMA CancelStep ==
    ASSUME BrokerInv, UNCHANGED setup, NEW id \in DOMAIN orders, Cancelled(id),
           faults' \in 0 .. setup.faults
    PROVE  BrokerInv' /\ Same /\ orders'[id].st # Pending
  <1>1. /\ orders' = [orders EXCEPT ![id].st = "CANCELLED"] /\ ltp' = ltp /\ eased' = eased
        /\ news' = news \cup {Post(id, "CANCELLED", orders[id].trig)}
    BY DEF Cancelled
  <1>2. PICK o : o = [orders[id] EXCEPT !.st = "CANCELLED"]
    OBVIOUS
  <1>3. o \in OrderType /\ o.trig = orders[id].trig /\ o.st = "CANCELLED"
    BY <1>2, OrderTypes DEF OrderType, Ended
  <1>4. orders' = [orders EXCEPT ![id] = o]
    BY <1>1, <1>2
  <1>5. /\ orders' \in Seq(OrderType) /\ Len(orders') = Len(orders)
        /\ \A k \in DOMAIN orders : orders'[k] = IF k = id THEN o ELSE orders[k]
    BY <1>3, <1>4, ExceptSeq, OrderTypes DEF BrokerInv
  <1>6. Same /\ orders'[id].st # Pending
    BY <1>1, <1>3, <1>5 DEF Same, Pending
  <1>7. Post(id, "CANCELLED", orders[id].trig) \in PostType
    BY OrderTypes DEF Post, PostType, Ended
  <1>8. ltp' \in Prices /\ news' \subseteq PostType
    BY <1>1, <1>7 DEF BrokerInv
  <1>9. \A n \in news' :
              \/ n \in news
              \/ /\ n.id \in DOMAIN orders /\ n.trig = orders[n.id].trig
                 /\ n.st \in Ended => orders'[n.id].st # Pending
    <2> TAKE n \in news'
    <2>1. CASE n = Post(id, "CANCELLED", orders[id].trig)
      BY <1>6, <2>1 DEF Post
    <2> QED BY <1>1, <2>1
  <1> QED BY <1>5, <1>6, <1>8, <1>9, BrokerSame

Dies(id) == orders' = [orders EXCEPT ![id].dying = TRUE]

LEMMA DyingStep ==
    ASSUME BrokerInv, UNCHANGED <<setup, ltp, news, eased>>, NEW id \in DOMAIN orders,
           Dies(id), faults' \in 0 .. setup.faults
    PROVE  BrokerInv' /\ Same
  <1>1. PICK o : o = [orders[id] EXCEPT !.dying = TRUE]
    OBVIOUS
  <1>2. o \in OrderType /\ o.trig = orders[id].trig /\ o.st = orders[id].st
    BY <1>1, OrderTypes DEF OrderType
  <1>3. orders' = [orders EXCEPT ![id] = o]
    BY <1>1 DEF Dies
  <1>4. /\ orders' \in Seq(OrderType) /\ Len(orders') = Len(orders)
        /\ \A k \in DOMAIN orders : orders'[k] = IF k = id THEN o ELSE orders[k]
    BY <1>2, <1>3, ExceptSeq, OrderTypes DEF BrokerInv
  <1>5. Same
    BY <1>2, <1>4 DEF Same
  <1> QED BY <1>4, <1>5, BrokerSame DEF BrokerInv

LEMMA MarketStep ==
    ASSUME BrokerInv, MarketMoves
    PROVE  BrokerInv' /\ Same
  <1>1. PICK p \in Prices : \E hit \in {{id \in DOMAIN orders : Works(id) /\ p <= orders[id].trig}} :
           /\ ltp' = p
           /\ orders' = [id \in DOMAIN orders |->
                            IF id \in hit THEN [orders[id] EXCEPT !.st = "COMPLETE"]
                            ELSE orders[id]]
           /\ news' = news \cup {Post(id, "COMPLETE", orders[id].trig) : id \in hit}
    BY DEF MarketMoves
  <1>2. PICK hit : hit = {id \in DOMAIN orders : Works(id) /\ p <= orders[id].trig}
    OBVIOUS
  <1>3. /\ ltp' = p
        /\ orders' = [id \in DOMAIN orders |->
                         IF id \in hit THEN [orders[id] EXCEPT !.st = "COMPLETE"]
                         ELSE orders[id]]
        /\ news' = news \cup {Post(id, "COMPLETE", orders[id].trig) : id \in hit}
        /\ setup' = setup /\ faults' = faults /\ eased' = eased
    BY <1>1, <1>2 DEF MarketMoves
  <1>4. \A id \in DOMAIN orders :
           /\ [orders[id] EXCEPT !.st = "COMPLETE"] \in OrderType
           /\ [orders[id] EXCEPT !.st = "COMPLETE"].trig = orders[id].trig
           /\ [orders[id] EXCEPT !.st = "COMPLETE"].st = "COMPLETE"
    BY OrderTypes DEF OrderType, Ended
  <1>5. /\ orders' \in [1 .. Len(orders) -> OrderType]
        /\ \A id \in DOMAIN orders :
              /\ orders'[id].trig = orders[id].trig
              /\ orders'[id].st = IF id \in hit THEN "COMPLETE" ELSE orders[id].st
    BY <1>3, <1>4, OrderTypes
  <1>6. orders' \in Seq(OrderType) /\ Len(orders') = Len(orders)
    BY <1>5, OrderTypes, IsSeq
  <1>7. Same
    <2>1. \A id \in DOMAIN orders : orders'[id].st = Pending => orders[id].st = Pending
      BY <1>5 DEF Pending
    <2> QED BY <1>3, <1>5, <1>6, <2>1 DEF Same
  <1>8. \A id \in hit : Post(id, "COMPLETE", orders[id].trig) \in PostType
    BY <1>2, OrderTypes DEF Post, PostType, Ended
  <1>9. ltp' \in Prices /\ news' \subseteq PostType /\ faults' \in 0 .. setup.faults
    BY <1>3, <1>8 DEF BrokerInv
  <1>10. \A n \in news' :
              \/ n \in news
              \/ /\ n.id \in DOMAIN orders /\ n.trig = orders[n.id].trig
                 /\ n.st \in Ended => orders'[n.id].st # Pending
    <2> TAKE n \in news'
    <2>1. ASSUME NEW id \in hit, n = Post(id, "COMPLETE", orders[id].trig)
          PROVE  /\ n.id \in DOMAIN orders /\ n.trig = orders[n.id].trig
                 /\ orders'[n.id].st # Pending
      <3>1. id \in DOMAIN orders /\ n.id = id /\ n.trig = orders[id].trig
        BY <1>2, <2>1 DEF Post
      <3> QED BY <1>5, <3>1 DEF Pending
    <2> QED BY <1>3, <2>1
  <1> QED BY <1>6, <1>7, <1>9, <1>10, BrokerSame

LEMMA MovedStep ==
    ASSUME BrokerInv, UNCHANGED setup, NEW price \in Prices, Moved(Len(orders), price),
           faults' \in 0 .. setup.faults
    PROVE  /\ BrokerInv' /\ Grown /\ Len(orders') = Len(orders)
           /\ orders'[Len(orders)].trig = price
  <1>1. PICK id : id = Len(orders)
    OBVIOUS
  <1>2. /\ orders' = [orders EXCEPT ![id].trig = price] /\ ltp' = ltp
        /\ news' = news \cup {Post(id, Pending, price)}
        /\ eased' = (eased \/ price < orders[id].trig)
    BY <1>1 DEF Moved
  <1>3. id \in DOMAIN orders /\ orders[id] \in OrderType /\ orders[id].trig \in Int
    BY <1>1, OrderTypes
  <1>4. PICK o : o = [orders[id] EXCEPT !.trig = price]
    OBVIOUS
  <1>5. o \in OrderType /\ o.trig = price /\ o.st = orders[id].st
    BY <1>3, <1>4 DEF OrderType
  <1>6. orders' = [orders EXCEPT ![id] = o]
    BY <1>2, <1>4
  <1>7. /\ orders' \in Seq(OrderType) /\ Len(orders') = Len(orders)
        /\ \A k \in DOMAIN orders : orders'[k] = IF k = id THEN o ELSE orders[k]
    BY <1>3, <1>5, <1>6, ExceptSeq, OrderTypes DEF BrokerInv
  <1>8. DOMAIN orders' = DOMAIN orders
    BY <1>7, LenProperties, OrderTypes
  <1>9. ~eased' => ~eased /\ orders[id].trig <= price
    <2>1. ~eased' => ~eased /\ ~(price < orders[id].trig)
      BY <1>2, Zenon
    <2> QED BY <2>1, <1>3, PriceInt
  <1>10. \A k \in DOMAIN orders :
            /\ orders'[k].st = orders[k].st
            /\ orders[k].trig \in Int /\ k \in Int
            /\ orders'[k].trig = IF k = id THEN price ELSE orders[k].trig
            /\ k <= id
    BY <1>1, <1>5, <1>7, OrderTypes
  <1>11. Grown
    BY <1>7, <1>9, <1>10 DEF Grown
  <1>12. Post(id, Pending, price) \in PostType
    BY <1>3, OrderTypes DEF Post, PostType
  <1>13. /\ ltp' \in Prices /\ eased' \in BOOLEAN /\ news' \subseteq PostType
         /\ setup' \in TrailSetups /\ faults' \in 0 .. setup'.faults /\ Len(orders') \in 1 .. MaxOrders
    BY <1>2, <1>7, <1>12 DEF BrokerInv
  <1>14. \A n \in news' :
            /\ n.id \in DOMAIN orders' /\ (n.st \in Ended => orders'[n.id].st # Pending)
            /\ ~eased' => n.trig <= orders'[n.id].trig
    <2> TAKE n \in news'
    <2>1. CASE n = Post(id, Pending, price)
      <3>1. n.id = id /\ n.st = Pending /\ n.trig = price
        BY <2>1 DEF Post
      <3>2. n.st \notin Ended /\ n.trig \in Int
        BY <3>1, PriceInt DEF Pending, Ended
      <3> QED BY <1>3, <1>8, <1>10, <3>1, <3>2
    <2>2. CASE n \in news
      <3>1. /\ n.id \in DOMAIN orders /\ (n.st \in Ended => orders[n.id].st # Pending)
            /\ n.trig \in Int /\ (~eased => n.trig <= orders[n.id].trig)
        BY <2>2 DEF BrokerInv, Works, PostType, Prices
      <3> QED BY <1>8, <1>9, <1>10, <3>1 DEF Prices
    <2> QED BY <1>2, <2>1, <2>2
  <1>15. ~eased' => \A a, b \in DOMAIN orders' : a <= b => orders'[a].trig <= orders'[b].trig
    <2> SUFFICES ASSUME ~eased', NEW a \in DOMAIN orders, NEW b \in DOMAIN orders, a <= b
                 PROVE  orders'[a].trig <= orders'[b].trig
      BY <1>8
    <2>1. orders[a].trig <= orders[b].trig /\ price \in Int
      BY <1>9 DEF BrokerInv, Prices
    <2> QED BY <1>9, <1>10, <2>1
  <1> QED BY <1>1, <1>3, <1>7, <1>10, <1>11, <1>13, <1>14, <1>15 DEF BrokerInv, Works

LEMMA PlacedStep ==
    ASSUME BrokerInv, UNCHANGED setup, NEW price \in Prices, Placed(price),
           Len(orders) < MaxOrders, faults' \in 0 .. setup.faults
    PROVE  /\ BrokerInv' /\ Grown /\ Len(orders') = Len(orders) + 1
           /\ orders'[Len(orders) + 1].trig = price
  <1>1. PICK o : o = [st |-> Pending, trig |-> price, dying |-> FALSE]
    OBVIOUS
  <1>2. PICK last : last = Len(orders)
    OBVIOUS
  <1>3. /\ orders' = Append(orders, o) /\ ltp' = ltp
        /\ news' = news \cup {Post(last + 1, Pending, price)}
        /\ eased' = (eased \/ price < orders[last].trig)
    BY <1>1, <1>2 DEF Placed
  <1>4. o \in OrderType /\ o.trig = price
    BY <1>1 DEF OrderType
  <1>5. /\ orders \in Seq(OrderType) /\ last \in 1 .. MaxOrders /\ last + 1 \in 1 .. MaxOrders
        /\ last \in DOMAIN orders /\ DOMAIN orders = 1 .. last /\ orders[last].trig \in Int
        /\ MaxOrders \in Nat
    BY <1>2, OrderTypes, Bounds DEF BrokerInv
  <1>6. /\ orders' \in Seq(OrderType) /\ Len(orders') = last + 1 /\ orders'[last + 1] = o
        /\ \A k \in 1 .. last : orders'[k] = orders[k]
    BY <1>2, <1>3, <1>4, <1>5, AppendProperties
  <1>7. DOMAIN orders' = 1 .. last + 1
    BY <1>6, LenProperties
  <1>8. ~eased' => ~eased /\ orders[last].trig <= price
    <2>1. ~eased' => ~eased /\ ~(price < orders[last].trig)
      BY <1>3, Zenon
    <2> QED BY <2>1, <1>5, PriceInt
  <1>9. \A k \in DOMAIN orders : /\ orders[k].trig \in Int /\ k \in Int /\ k <= last
                                 /\ orders'[k] = orders[k] /\ k \in DOMAIN orders'
    BY <1>5, <1>6, <1>7, OrderTypes
  <1>10. Grown
    BY <1>2, <1>5, <1>6, <1>8, <1>9 DEF Grown
  <1>11. Post(last + 1, Pending, price) \in PostType
    BY <1>5 DEF Post, PostType, OrderIds
  <1>12. /\ ltp' \in Prices /\ eased' \in BOOLEAN /\ news' \subseteq PostType
         /\ setup' \in TrailSetups /\ faults' \in 0 .. setup'.faults /\ Len(orders') \in 1 .. MaxOrders
    BY <1>3, <1>5, <1>6, <1>11 DEF BrokerInv
  <1>13. \A n \in news' :
            /\ n.id \in DOMAIN orders' /\ (n.st \in Ended => orders'[n.id].st # Pending)
            /\ ~eased' => n.trig <= orders'[n.id].trig
    <2> TAKE n \in news'
    <2>1. CASE n = Post(last + 1, Pending, price)
      <3>1. n.id = last + 1 /\ n.st = Pending /\ n.trig = price
        BY <2>1 DEF Post
      <3>2. n.st \notin Ended /\ n.trig \in Int
        BY <3>1, PriceInt DEF Pending, Ended
      <3> QED BY <1>4, <1>5, <1>6, <1>7, <3>1, <3>2
    <2>2. CASE n \in news
      <3>1. /\ n.id \in DOMAIN orders /\ (n.st \in Ended => orders[n.id].st # Pending)
            /\ n.trig \in Int /\ (~eased => n.trig <= orders[n.id].trig)
        BY <2>2 DEF BrokerInv, Works, PostType, Prices
      <3> QED BY <1>8, <1>9, <3>1
    <2> QED BY <1>3, <2>1, <2>2
  <1>14. ~eased' => \A a, b \in DOMAIN orders' : a <= b => orders'[a].trig <= orders'[b].trig
    <2> SUFFICES ASSUME ~eased', NEW a \in 1 .. last + 1, NEW b \in 1 .. last + 1, a <= b
                 PROVE  orders'[a].trig <= orders'[b].trig
      BY <1>7
    <2>1. \A k, l \in DOMAIN orders : k <= l => orders[k].trig <= orders[l].trig
      BY <1>8 DEF BrokerInv
    <2>2. CASE b # last + 1
      <3>1. a \in DOMAIN orders /\ b \in DOMAIN orders
        BY <1>5, <2>2
      <3> QED BY <1>9, <2>1, <3>1
    <2>3. CASE b = last + 1 /\ a # last + 1
      <3>1. a \in DOMAIN orders /\ a <= last
        BY <1>5, <2>3
      <3>2. orders[a].trig <= orders[last].trig /\ orders[a].trig \in Int /\ price \in Int
        BY <1>5, <1>9, <2>1, <3>1 DEF Prices
      <3> QED BY <1>4, <1>5, <1>6, <1>8, <1>9, <2>3, <3>1, <3>2
    <2>4. CASE b = last + 1 /\ a = last + 1
      BY <1>4, <1>6, <2>4 DEF Prices
    <2> QED BY <2>2, <2>3, <2>4
  <1> QED BY <1>2, <1>4, <1>6, <1>10, <1>12, <1>13, <1>14 DEF BrokerInv, Works

-----------------------------------------------------------------------------
(* What a step leaves as it was.                                            *)

LEMMA GrownDomain ==
    ASSUME BrokerInv, BrokerInv', Grown
    PROVE  /\ DOMAIN orders \subseteq DOMAIN orders'
           /\ DOMAIN orders' = 1 .. Len(orders') /\ Len(orders') \in 1 .. MaxOrders
           /\ \A id \in DOMAIN orders' : /\ orders'[id].trig \in Int
                                         /\ orders'[id].trig \in Prices /\ id \in OrderIds
  <1>1. DOMAIN orders = 1 .. Len(orders) /\ Len(orders) \in Nat
    BY OrderTypes
  <1>2. /\ orders' \in Seq(OrderType) /\ Len(orders') \in 1 .. MaxOrders
    BY DEF BrokerInv
  <1>3. DOMAIN orders' = 1 .. Len(orders') /\ orders' \in [1 .. Len(orders') -> OrderType]
    BY <1>2, LenProperties
  <1>4. \A id \in DOMAIN orders' : /\ orders'[id].trig \in Int
                                   /\ orders'[id].trig \in Prices /\ id \in OrderIds
    BY <1>2, <1>3, PriceInt, Bounds DEF OrderType, OrderIds
  <1> QED BY <1>1, <1>2, <1>3, <1>4 DEF Grown

LEMMA HeardKept ==
    ASSUME BrokerInv, BrokerInv', Grown, HeardInv, queue' = queue, MemoryOK(mem'),
           mem'.known = mem.known, mem'.ended = mem.ended
    PROVE  HeardInv'
  <1>1. \A id \in DOMAIN orders :
           /\ id \in DOMAIN orders' /\ (orders'[id].st = Pending => orders[id].st = Pending)
           /\ orders[id].trig \in Int /\ orders'[id].trig \in Int
           /\ (~eased' => ~eased /\ orders[id].trig <= orders'[id].trig)
    BY GrownDomain, OrderTypes DEF Grown
  <1>2. /\ \A k \in DOMAIN queue' : queue'[k].id \in DOMAIN orders'
        /\ \A id \in mem'.ended : id \in DOMAIN orders' /\ orders'[id].st # Pending
    BY <1>1 DEF HeardInv, Works
  <1>3. \A id \in OrderIds : id \notin DOMAIN orders' => mem'.known[id].trig = 0
    BY <1>1 DEF HeardInv
  <1>4. ASSUME ~eased', NEW k \in DOMAIN queue'
        PROVE  queue'[k].trig <= orders'[queue'[k].id].trig
    <2>1. /\ queue[k] \in PostType /\ queue[k].id \in DOMAIN orders
      BY <1>4, ElementOfSeq, LenProperties DEF HeardInv
    <2>2. ~eased /\ queue[k].trig <= orders[queue[k].id].trig
      BY <1>1, <1>4, <2>1 DEF HeardInv
    <2>3. queue[k].trig \in Int
      BY <2>1, PriceInt DEF PostType
    <2> QED BY <1>1, <1>4, <2>1, <2>2, <2>3
  <1>5. ASSUME ~eased', NEW id \in DOMAIN orders'
        PROVE  mem'.known[id].trig <= orders'[id].trig
    <2>1. id \in OrderIds /\ mem.known[id].trig \in Int /\ orders'[id].trig \in Prices
      <3>1. id \in OrderIds /\ orders'[id].trig \in Prices
        BY <1>5, GrownDomain
      <3>2. mem.known[id] \in Known
        BY <3>1 DEF HeardInv, MemoryOK, Memory
      <3> QED BY <3>1, <3>2 DEF Known
    <2>2. CASE id \in DOMAIN orders
      <3>1. ~eased /\ mem.known[id].trig <= orders[id].trig
        BY <1>1, <1>5, <2>2 DEF HeardInv
      <3> QED BY <1>1, <1>5, <2>1, <2>2, <3>1
    <2>3. CASE id \notin DOMAIN orders
      <3>1. mem.known[id].trig = 0
        BY <2>1, <2>3 DEF HeardInv
      <3> QED BY <2>1, <3>1, PriceInt
    <2> QED BY <2>2, <2>3
  <1> QED BY <1>2, <1>3, <1>4, <1>5 DEF HeardInv, Works

LEMMA HeardStill ==
    ASSUME BrokerInv, BrokerInv', Grown, HeardInv, queue' = queue, mem' = mem
    PROVE  HeardInv'
  <1>1. MemoryOK(mem')
    BY DEF HeardInv
  <1> QED BY <1>1, HeardKept

LEMMA RowKept ==
    ASSUME BrokerInv, BrokerInv', Grown, RowInv, RowOK(row'), Len(orders') = Len(orders),
           row'.sl = row.sl, row'.stop = row.stop, row.sl # NoOrder,
           ~At("capLink"), cmd'.pc # "capLink"
    PROVE  RowInv'
  <1>1. row.sl = Len(orders) /\ row.sl \in DOMAIN orders
    BY OrderTypes DEF RowInv
  <1>2. ASSUME ~eased' PROVE row'.stop <= orders'[row'.sl].trig
    <2>1. row.stop <= orders[row.sl].trig /\ orders[row.sl].trig <= orders'[row.sl].trig
      BY <1>1, <1>2 DEF RowInv, Grown
    <2>2. row.stop \in Int /\ orders[row.sl].trig \in Int /\ orders'[row.sl].trig \in Int
      BY <1>1, OrderTypes, GrownDomain, PriceInt DEF RowInv, RowOK, Row
    <2> QED BY <2>1, <2>2
  <1> QED BY <1>1, <1>2 DEF RowInv, At

LEMMA SoleKept ==
    ASSUME BrokerInv, BrokerInv', Grown, SoleInv, Len(orders') = Len(orders),
           cmd'.pc \notin {"place", "capPlace"}
    PROVE  SoleInv'
  <1>1. DOMAIN orders' = DOMAIN orders
    BY OrderTypes, GrownDomain
  <1> QED BY <1>1 DEF SoleInv, Works, At, Grown

LEMMA CmdIdle ==
    ASSUME cmd' = Idle
    PROVE  CmdInv'
  BY DEF CmdInv, Idle, At

LEMMA CmdGoes ==
    ASSUME cmd' \in Command, cmd'.pc \in {"send", "failed", "cancel", "capCancel", "capPlace"},
           Live', Len(orders') < MaxOrders
    PROVE  CmdInv'
  BY DEF CmdInv, At

LEMMA InCommand ==
    ASSUME IInv, cmd.pc # "idle"
    PROVE  /\ cmd \in Command /\ Live
           /\ ~At("place") => row.sl # NoOrder
           /\ ~At("place") /\ ~At("capLink") => row.sl = Len(orders) /\ row.sl \in DOMAIN orders
           /\ ~At("capLink") /\ ~At("done") => Len(orders) < MaxOrders
  <1>1. cmd \in Command
    BY DEF IInv, CmdInv, Idle
  <1>2. Live
    BY DEF IInv, CmdInv, Idle
  <1>3. ~At("place") => row.sl # NoOrder
    BY <1>2 DEF IInv, RowInv
  <1>4. ~At("place") /\ ~At("capLink") => row.sl = Len(orders) /\ row.sl \in DOMAIN orders
    BY <1>3, OrderTypes DEF IInv, RowInv
  <1>5. ~At("capLink") /\ ~At("done") => Len(orders) < MaxOrders
    BY DEF IInv, CmdInv, At
  <1> QED BY <1>1, <1>2, <1>3, <1>4, <1>5

LEMMA AtRest ==
    ASSUME IInv, cmd = Idle, Live
    PROVE  /\ row.sl = Len(orders) /\ row.sl \in DOMAIN orders /\ row.sl # NoOrder
           /\ ~At("capLink") /\ ~At("place")
  <1>1. ~At("capLink") /\ ~At("place")
    BY DEF Idle, At
  <1> QED BY <1>1, OrderTypes DEF IInv, RowInv

-----------------------------------------------------------------------------
(* The market, and what is heard.                                           *)

LEMMA WorldStep ==
    ASSUME IInv, BrokerInv', Same, cmd' = cmd, row' = row, mem'.mods = mem.mods, HeardInv'
    PROVE  IInv'
  <1>1. Grown
    BY SameGrows DEF IInv
  <1>2. /\ Len(orders') = Len(orders) /\ DOMAIN orders' = DOMAIN orders /\ eased' = eased
        /\ \A id \in DOMAIN orders : orders'[id].trig = orders[id].trig
        /\ Len(orders) \in DOMAIN orders
    BY <1>1, OrderTypes, GrownDomain DEF IInv, Same
  <1>3. RowInv'
    <2>1. row.sl # NoOrder => row.sl \in DOMAIN orders
      <3>1. row.sl \in {Len(orders) - 1, NoOrder, Len(orders)}
        BY DEF IInv, RowInv
      <3>2. Len(orders) \in Nat /\ DOMAIN orders = 1 .. Len(orders) /\ NoOrder = 0
        BY OrderTypes DEF IInv, NoOrder
      <3>3. Len(orders) >= 1
        BY OrderTypes DEF IInv
      <3> QED BY <3>1, <3>2, <3>3
    <2>2. row'.sl # NoOrder /\ ~eased' => row'.stop <= orders'[row'.sl].trig
      BY <1>2, <2>1 DEF IInv, RowInv
    <2>3. /\ RowOK(row')
          /\ row'.sl = IF cmd'.pc = "capLink" THEN Len(orders') - 1
                       ELSE IF row'.sl = NoOrder THEN NoOrder ELSE Len(orders')
          /\ row'.sl = NoOrder => cmd'.pc = "place" \/ ~Live'
      BY <1>2 DEF IInv, RowInv, At, Live
    <2> QED BY <2>2, <2>3 DEF RowInv, At
  <1>4. CmdInv'
    <2>1. At("done") => row.sl \in DOMAIN orders
      BY InCommand DEF At
    <2>2. /\ cmd'.pc = "done" /\ ~eased' => cmd'.cand <= orders'[row'.sl].trig
          /\ cmd'.pc = "capLink" => cmd'.cand = orders'[Len(orders')].trig
      BY <1>2, <2>1 DEF IInv, CmdInv, At
    <2>3. /\ cmd' \in {Idle} \cup Command
          /\ ~Live' => cmd' = Idle
          /\ cmd'.pc = "place" => row'.sl = NoOrder
          /\ cmd'.pc \notin {"idle", "done", "capLink"} => Len(orders') < MaxOrders
          /\ cmd'.pc = "again" => cmd'.retried
          /\ cmd'.pc = "retry" \/ cmd'.pc = "again"
               => mem'.mods[row'.sl] <= KITE_MAX_MODIFICATIONS_PER_ORDER
      BY <1>2 DEF IInv, CmdInv, At, Live
    <2> QED BY <2>2, <2>3 DEF CmdInv, At
  <1>5. SoleInv'
    BY <1>1, <1>2 DEF IInv, SoleInv, Works, At, Same, Grown
  <1> QED BY <1>3, <1>4, <1>5 DEF IInv

KnownOK(known) ==
    /\ known \in [OrderIds -> Known]
    /\ \A id \in OrderIds : known[id].st = "none" <=> known[id].trig = 0

Hears(c, m, known, ended) == c = [m EXCEPT !.known = known, !.ended = ended]

LEMMA HeardMemory ==
    ASSUME NEW m, MemoryOK(m), NEW known, KnownOK(known), NEW ended \in SUBSET OrderIds,
           NEW c, Hears(c, m, known, ended)
    PROVE  MemoryOK(c) /\ c.known = known /\ c.ended = ended /\ c.mods = m.mods
  <1>1. c \in Memory /\ c.known = known /\ c.ended = ended /\ c.mods = m.mods
    BY DEF MemoryOK, Memory, KnownOK, Hears
  <1> QED BY <1>1 DEF MemoryOK, KnownOK

LEMMA PostKnown ==
    ASSUME NEW n \in PostType
    PROVE  LET k == [st |-> n.st, trig |-> n.trig]
           IN k \in Known /\ k.trig = n.trig /\ k.st = n.st /\ n.st # "none" /\ n.trig # 0
  <1>1. n.st \in {Pending} \cup Ended /\ n.trig \in Prices
    BY DEF PostType
  <1>2. n.st \in Statuses /\ n.st # "none" /\ n.trig \in 0 .. MaxPrice /\ n.trig # 0
    BY <1>1, StatusIn, PriceInt
  <1> QED BY <1>2 DEF Known

LEMMA HearStep ==
    ASSUME IInv, Hear
    PROVE  IInv'
  <1>1. PICK n \in news :
           /\ news' = news \ {n}
           /\ IF mem.known[n.id].st \in Ended /\ n.st = Pending
              THEN UNCHANGED <<queue, mem>>
              ELSE /\ mem' = [mem EXCEPT !.known[n.id] = [st |-> n.st, trig |-> n.trig],
                                         !.ended = IF n.st \in Ended THEN @ \cup {n.id} ELSE @]
                   /\ queue' = Append(queue, n)
           /\ UNCHANGED <<setup, faults, moves, ltp, orders, row, cmd, rec, eased>>
    BY DEF Hear
  <1>2. Same /\ news' \subseteq news /\ orders' = orders
    BY <1>1 DEF Same
  <1>3. BrokerInv'
    BY <1>1, <1>2, BrokerSame DEF IInv, BrokerInv
  <1>4. Grown
    BY <1>2, SameGrows DEF IInv
  <1>5. CASE UNCHANGED <<queue, mem>>
    BY <1>1, <1>2, <1>3, <1>4, <1>5, HeardStill, WorldStep DEF IInv
  <1>6. CASE /\ mem' = [mem EXCEPT !.known[n.id] = [st |-> n.st, trig |-> n.trig],
                                   !.ended = IF n.st \in Ended THEN @ \cup {n.id} ELSE @]
             /\ queue' = Append(queue, n)
    <2>1. /\ n \in PostType /\ n.id \in DOMAIN orders /\ (n.st \in Ended => ~Works(n.id))
          /\ n.id \in OrderIds /\ (~eased => n.trig <= orders[n.id].trig)
      BY OrderTypes DEF IInv, BrokerInv
    <2>2. PICK k : k = [st |-> n.st, trig |-> n.trig]
      OBVIOUS
    <2>3. k \in Known /\ k.trig = n.trig /\ k.st = n.st /\ n.st # "none" /\ n.trig # 0
      BY <2>1, <2>2, PostKnown
    <2>4. PICK known : known = [mem.known EXCEPT ![n.id] = k]
      OBVIOUS
    <2>5. PICK ended : ended = IF n.st \in Ended THEN mem.ended \cup {n.id} ELSE mem.ended
      OBVIOUS
    <2>6. /\ MemoryOK(mem) /\ mem.known \in [OrderIds -> Known] /\ mem.ended \in SUBSET OrderIds
          /\ mem \in Memory
      BY DEF IInv, HeardInv, MemoryOK, Memory
    <2>7. /\ known \in [OrderIds -> Known]
          /\ \A id \in OrderIds : known[id] = IF id = n.id THEN k ELSE mem.known[id]
      BY <2>1, <2>3, <2>4, <2>6
    <2>8. ended \in SUBSET OrderIds
      BY <2>1, <2>5, <2>6
    <2>9. mem' = [mem EXCEPT !.known = known, !.ended = ended]
      BY <1>6, <2>2, <2>4, <2>5, <2>6 DEF Memory
    <2>10. \A id \in OrderIds : known[id].st = "none" <=> known[id].trig = 0
      BY <2>3, <2>6, <2>7 DEF MemoryOK
    <2>11. MemoryOK(mem') /\ mem'.known = known /\ mem'.ended = ended /\ mem'.mods = mem.mods
      <3>1. PICK c : c = mem'
        OBVIOUS
      <3>2. MemoryOK(mem) /\ Hears(c, mem, known, ended)
        BY <2>6, <2>9, <3>1 DEF Hears
      <3>3. KnownOK(known)
        BY <2>7, <2>10 DEF KnownOK
      <3>4. MemoryOK(c) /\ c.known = known /\ c.ended = ended /\ c.mods = mem.mods
        BY <2>8, <3>2, <3>3, HeardMemory
      <3> QED BY <3>1, <3>4
    <2>12. /\ queue' \in Seq(PostType) /\ DOMAIN queue' = 1 .. Len(queue) + 1
           /\ queue'[Len(queue) + 1] = n
           /\ \A j \in 1 .. Len(queue) : j \in DOMAIN queue /\ queue'[j] = queue[j]
      <3>1. queue \in Seq(PostType) /\ Len(queue) \in Nat /\ DOMAIN queue = 1 .. Len(queue)
        BY LenProperties DEF IInv, HeardInv
      <3>2. /\ queue' \in Seq(PostType) /\ Len(queue') = Len(queue) + 1
            /\ queue'[Len(queue) + 1] = n
            /\ \A j \in 1 .. Len(queue) : queue'[j] = queue[j]
        BY <1>6, <2>1, <3>1, AppendProperties
      <3> QED BY <3>1, <3>2, LenProperties
    <2>13. \A j \in DOMAIN queue' : j = Len(queue) + 1 \/ j \in 1 .. Len(queue)
      <3>1. Len(queue) \in Nat
        BY LenProperties DEF IInv, HeardInv
      <3> QED BY <2>12, <3>1
    <2>14. \A j \in DOMAIN queue' :
              /\ queue'[j].id \in DOMAIN orders
              /\ ~eased => queue'[j].trig <= orders[queue'[j].id].trig
      BY <2>1, <2>12, <2>13 DEF IInv, HeardInv
    <2>15. \A id \in mem'.ended : id \in DOMAIN orders /\ ~Works(id)
      BY <2>1, <2>5, <2>11 DEF IInv, HeardInv
    <2>16. \A id \in OrderIds : id \notin DOMAIN orders => mem'.known[id].trig = 0
      BY <2>1, <2>7, <2>11 DEF IInv, HeardInv
    <2>17. ~eased => \A id \in DOMAIN orders : mem'.known[id].trig <= orders[id].trig
      BY <2>1, <2>3, <2>7, <2>11, OrderTypes DEF IInv, HeardInv
    <2>18. HeardInv'
      BY <1>1, <2>11, <2>12, <2>14, <2>15, <2>16, <2>17 DEF HeardInv, Works
    <2> QED BY <1>1, <1>2, <1>3, <2>11, <2>18, WorldStep
  <1> QED BY <1>1, <1>5, <1>6

LEMMA ReadStep ==
    ASSUME IInv, ReconcileReads
    PROVE  IInv'
  <1>1. PICK known : known = [id \in OrderIds |->
                  IF id \in DOMAIN orders THEN [st |-> orders[id].st, trig |-> orders[id].trig]
                  ELSE Unknown]
    OBVIOUS
  <1>2. /\ mem' = [mem EXCEPT !.known = known] /\ UNCHANGED <<setup, faults, market, queue, row, cmd>>
    BY <1>1 DEF ReconcileReads
  <1>3. mem \in Memory /\ MemoryOK(mem)
    BY DEF IInv, HeardInv, MemoryOK
  <1>4. \A id \in DOMAIN orders :
           LET k == [st |-> orders[id].st, trig |-> orders[id].trig]
           IN k \in Known /\ k.trig = orders[id].trig /\ k.st # "none" /\ k.trig # 0
    <2> TAKE id \in DOMAIN orders
    <2>1. orders[id].st \in {Pending} \cup Ended /\ orders[id].trig \in Prices
      BY OrderTypes DEF IInv, OrderType
    <2>2. /\ orders[id].st \in Statuses /\ orders[id].st # "none"
          /\ orders[id].trig \in 0 .. MaxPrice /\ orders[id].trig # 0
      BY <2>1, StatusIn, PriceInt
    <2> QED BY <2>2 DEF Known
  <1>5. Unknown \in Known /\ Unknown.trig = 0 /\ Unknown.st = "none"
    BY Bounds DEF Unknown, Known, Statuses
  <1>6. /\ known \in [OrderIds -> Known]
        /\ \A id \in OrderIds : known[id].st = "none" <=> known[id].trig = 0
        /\ \A id \in OrderIds : known[id].trig = IF id \in DOMAIN orders THEN orders[id].trig ELSE 0
    BY <1>1, <1>4, <1>5
  <1>7. MemoryOK(mem') /\ mem'.known = known /\ mem'.ended = mem.ended /\ mem'.mods = mem.mods
    BY <1>2, <1>3, <1>6 DEF MemoryOK, Memory
  <1>8. BrokerInv' /\ Same /\ Grown /\ orders' = orders /\ eased' = eased
    BY <1>2, MarketStill DEF IInv, market, BrokerInv
  <1>9. /\ \A id \in OrderIds : id \notin DOMAIN orders => mem'.known[id].trig = 0
        /\ \A id \in DOMAIN orders : mem'.known[id].trig <= orders[id].trig
    BY <1>6, <1>7, OrderTypes DEF IInv
  <1>10. HeardInv'
    BY <1>2, <1>7, <1>8, <1>9 DEF IInv, HeardInv, Works
  <1> QED BY <1>2, <1>7, <1>8, <1>10, WorldStep

LEMMA WorldSteps ==
    ASSUME IInv, Broker \/ Hear \/ ReconcileReads
    PROVE  IInv'
  <1>1. CASE MarketMoves
    <2>1. BrokerInv' /\ Same
      BY <1>1, MarketStep DEF IInv
    <2>2. mem' = mem /\ queue' = queue /\ row' = row /\ cmd' = cmd
      BY <1>1 DEF MarketMoves
    <2> QED BY <2>1, <2>2, SameGrows, HeardStill, WorldStep DEF IInv
  <1>2. CASE CancelLands
    <2>1. PICK id \in DOMAIN orders : /\ Cancelled(id)
                                     /\ UNCHANGED <<setup, faults, queue, mem, row, cmd, rec>>
      BY <1>2 DEF CancelLands
    <2>2. BrokerInv' /\ Same
      BY <2>1, CancelStep DEF IInv, BrokerInv
    <2> QED BY <2>1, <2>2, SameGrows, HeardStill, WorldStep DEF IInv
  <1>3. CASE Lost
    <2>1. /\ news' \subseteq news /\ Fault("unreported")
          /\ UNCHANGED <<setup, moves, ltp, orders, queue, mem, row, cmd, rec, eased>>
      BY <1>3 DEF Lost
    <2>2. Same /\ faults' \in 0 .. setup.faults
      BY <2>1, FaultTypes DEF Same, IInv, TrailFaults
    <2>3. BrokerInv'
      BY <2>1, <2>2, BrokerSame DEF IInv, BrokerInv
    <2> QED BY <2>1, <2>2, <2>3, SameGrows, HeardStill, WorldStep DEF IInv
  <1> QED BY <1>1, <1>2, <1>3, HearStep, ReadStep DEF Broker

-----------------------------------------------------------------------------
(* Steps that end a command, or are one.                                    *)

LEMMA SettlesSame ==
    ASSUME IInv, BrokerInv', Same, HeardInv',
           RowOK(row'), row'.sl = row.sl, row.sl = Len(orders), cmd' = Idle,
           ~eased => row'.stop <= orders[row.sl].trig
    PROVE  IInv'
  <1>1. /\ Grown /\ Len(orders') = Len(orders) /\ eased' = eased
        /\ orders'[row.sl].trig = orders[row.sl].trig
    BY SameGrows, OrderTypes DEF IInv, Same
  <1>2. CmdInv' /\ cmd'.pc = "idle"
    BY CmdIdle DEF Idle
  <1>3. RowInv'
    <2>1. Len(orders) # NoOrder
      BY OrderTypes DEF IInv, NoOrder
    <2> QED BY <1>1, <1>2, <2>1 DEF RowInv, At
  <1>4. SoleInv'
    BY <1>1, <1>2, SoleKept DEF IInv
  <1> QED BY <1>2, <1>3, <1>4 DEF IInv

LEMMA Settles ==
    ASSUME IInv, UNCHANGED <<setup, market>>, faults' \in 0 .. setup.faults, HeardInv',
           RowOK(row'), row'.sl = row.sl, row.sl = Len(orders), cmd' = Idle,
           ~eased => row'.stop <= orders[row.sl].trig
    PROVE  IInv'
  BY MarketStill, SettlesSame DEF IInv

(* The stop of the row stays.                                               *)
LEMMA Rests ==
    ASSUME IInv, UNCHANGED <<setup, market>>, faults' \in 0 .. setup.faults, HeardInv',
           RowOK(row'), row'.sl = row.sl, row.sl = Len(orders), cmd' = Idle,
           row'.stop = row.stop
    PROVE  IInv'
  <1>1. row.sl # NoOrder
    BY OrderTypes DEF IInv, NoOrder
  <1> QED BY <1>1, Settles DEF IInv, RowInv

LEMMA PanicRests ==
    ASSUME IInv, UNCHANGED <<setup, market, queue, mem>>, faults' \in 0 .. setup.faults,
           row.sl = Len(orders), NEW cause \in Ends, Panics(cause)
    PROVE  IInv'
  <1>1. RowOK(row') /\ row'.sl = row.sl /\ row'.stop = row.stop
    BY EndRow DEF Panics, IInv, RowInv
  <1>2. HeardInv'
    BY MarketStill, HeardStill DEF IInv
  <1> QED BY <1>1, <1>2, Rests DEF Panics

LEMMA LoopSteps ==
    ASSUME IInv, ExitLoop
    PROVE  IInv'
  <1>1. /\ cmd = Idle /\ Live /\ Len(orders) < MaxOrders
        /\ UNCHANGED <<setup, faults, market, queue, mem, rec>>
    BY DEF ExitLoop, Evaluate, ShadowExit, ExitNow, Evaluates
  <1>2. row.sl = Len(orders) /\ row.sl # NoOrder /\ ~At("capLink") /\ ~At("place")
    BY <1>1, AtRest
  <1>3. faults' \in 0 .. setup.faults
    BY <1>1 DEF IInv, BrokerInv
  <1>4. /\ BrokerInv' /\ Grown /\ orders' = orders /\ HeardInv'
    BY <1>1, <1>3, MarketStill, HeardStill DEF IInv
  <1>5. CASE ShadowExit \/ ExitNow
    BY <1>1, <1>2, <1>3, <1>5, PanicRests DEF ShadowExit, ExitNow, Ends
  <1>6. CASE Evaluate
    <2>1. PICK i \in Readings :
             /\ row' = Protected(i)
             /\ cmd' = IF MayModify(i) /\ ~DuplicatePending(i) /\ ~Dominated(i)
                       THEN Request(i) ELSE Idle
      BY <1>6 DEF Evaluate
    <2>2. RowOK(row') /\ row'.sl = row.sl /\ row'.stop = row.stop /\ row'.end = row.end
      BY <2>1, ProtectedRow DEF IInv, RowInv, SameStop
    <2>3. CASE cmd' = Idle
      BY <1>1, <1>2, <1>3, <1>4, <2>2, <2>3, Rests
    <2>4. CASE MayModify(i) /\ cmd' = Request(i)
      <3>1. cmd' \in Command /\ cmd'.pc = "send"
        BY <2>4, RequestType DEF IInv, RowInv
      <3>2. Live' /\ Len(orders') < MaxOrders
        BY <1>1, <1>4, <2>2 DEF Live
      <3>3. CmdInv'
        BY <3>1, <3>2, CmdGoes
      <3>4. RowInv'
        BY <1>2, <1>4, <2>2, <3>1, RowKept DEF IInv
      <3>5. SoleInv'
        BY <1>4, <3>1, SoleKept DEF IInv
      <3> QED BY <1>4, <3>3, <3>4, <3>5 DEF IInv
    <2> QED BY <2>1, <2>3, <2>4
  <1> QED BY <1>5, <1>6 DEF ExitLoop

(* The row learns what the broker reports, which is never more than what    *)
(* the last order has.                                                      *)
LEMMA LearnsRow ==
    ASSUME NEW n \in PostType, RowOK(row)
    PROVE  /\ RowOK(Learns(n)) /\ Learns(n).sl = row.sl
           /\ Learns(n).stop = IF row.stop >= n.trig THEN row.stop ELSE n.trig
  <1>1. n.trig \in Prices /\ row.stop \in Prices
    BY DEF PostType, RowOK, Row
  <1>2. PICK s : s = Max({row.stop, n.trig})
    OBVIOUS
  <1>3. s \in Prices /\ s = IF row.stop >= n.trig THEN row.stop ELSE n.trig
    BY <1>1, <1>2, PriceInt, MaxPair
  <1>4. PICK r : r = [row EXCEPT !.stop = s]
    OBVIOUS
  <1>5. RowOK(r) /\ r.stop = s /\ r.sl = row.sl /\ r.alc = row.alc /\ r \in Row
    BY <1>3, <1>4, StopRow DEF RowOK, Row
  <1>6. PICK a : a = [row.alc EXCEPT !.applied = row.alc.submitted, !.pending = FALSE]
    OBVIOUS
  <1>7. a \in Alc
    BY <1>6 DEF RowOK, Row, Alc
  <1>8. PICK c : c = [r EXCEPT !.alc = a]
    OBVIOUS
  <1>9. RowOK(c) /\ SameStop(c, r)
    BY <1>5, <1>7, <1>8, AlcRow
  <1>10. c = [r EXCEPT !.alc.applied = row.alc.submitted, !.alc.pending = FALSE]
    BY <1>5, <1>6, <1>8 DEF Row, Alc, RowOK
  <1>11. Learns(n) = r \/ Learns(n) = ClearPending(c)
    BY <1>2, <1>4, <1>10 DEF Learns
  <1>12. RowOK(ClearPending(c)) /\ SameStop(ClearPending(c), c)
    BY <1>9, ClearedRow
  <1> QED BY <1>3, <1>5, <1>9, <1>11, <1>12 DEF SameStop

LEMMA UpdateStep ==
    ASSUME IInv, HandleUpdate
    PROVE  IInv'
  <1>1. PICK n : n = Head(queue)
    OBVIOUS
  <1>2. PICK e \in BOOLEAN : e = (n.st = "CANCELLED" /\ n.id \in mem.expected)
    OBVIOUS
  <1>3. /\ queue # <<>> /\ cmd = Idle /\ Live
        /\ mem' = IF e THEN [mem EXCEPT !.expected = @ \ {n.id}] ELSE mem
        /\ row' = CASE e -> row
                    [] n.st = "COMPLETE" -> [Learns(n) EXCEPT !.end = "SL"]
                    [] n.st = "CANCELLED" /\ Position # 0 ->
                          [Learns(n) EXCEPT !.end = "SL_CANCELLED"]
                    [] OTHER -> Learns(n)
        /\ queue' = Tail(queue)
        /\ UNCHANGED <<setup, faults, market, cmd, rec>>
    BY <1>1, <1>2 DEF HandleUpdate
  <1>4. /\ queue \in Seq(PostType) /\ Len(queue) \in Nat \ {0} /\ DOMAIN queue = 1 .. Len(queue)
    BY <1>3, LenProperties, EmptySeq DEF IInv, HeardInv
  <1>5. /\ n = queue[1] /\ 1 \in DOMAIN queue /\ n \in PostType
        /\ queue' \in Seq(PostType) /\ Len(queue') = Len(queue) - 1
        /\ \A k \in 1 .. Len(queue') : queue'[k] = queue[k + 1]
    BY <1>1, <1>3, <1>4, HeadTailProperties, ElementOfSeq
  <1>6. DOMAIN queue' = 1 .. Len(queue')
    BY <1>5, LenProperties
  <1>7. \A k \in DOMAIN queue' : k + 1 \in DOMAIN queue /\ queue'[k] = queue[k + 1]
    BY <1>4, <1>5, <1>6
  <1>8. MemoryOK(mem') /\ mem'.known = mem.known /\ mem'.ended = mem.ended
    <2>1. MemoryOK(mem)
      BY DEF IInv, HeardInv
    <2>2. CASE mem' = mem
      BY <2>1, <2>2
    <2>3. CASE mem' = [mem EXCEPT !.expected = @ \ {n.id}]
      BY <2>1, <2>3 DEF MemoryOK, Memory
    <2> QED BY <1>3, <2>2, <2>3
  <1>9. /\ row.sl = Len(orders) /\ row.sl \in DOMAIN orders /\ row.sl # NoOrder
        /\ orders' = orders /\ eased' = eased
    BY <1>3, AtRest DEF market
  <1>10. faults' \in 0 .. setup.faults
    BY <1>3 DEF IInv, BrokerInv
  <1>11. HeardInv'
    <2>1. \A k \in DOMAIN queue' : /\ queue'[k].id \in DOMAIN orders
                                   /\ ~eased => queue'[k].trig <= orders[queue'[k].id].trig
      BY <1>7 DEF IInv, HeardInv
    <2> QED BY <1>5, <1>8, <1>9, <2>1 DEF IInv, HeardInv, Works
  <1>12. ~eased => n.trig <= orders[row.sl].trig /\ row.stop <= orders[row.sl].trig
    <2> SUFFICES ASSUME ~eased PROVE n.trig <= orders[row.sl].trig /\ row.stop <= orders[row.sl].trig
      OBVIOUS
    <2>1. n.id \in DOMAIN orders /\ n.trig <= orders[n.id].trig
      BY <1>5 DEF IInv, HeardInv
    <2>2. n.id <= row.sl
      BY <1>9, <2>1, OrderTypes DEF IInv
    <2>3. orders[n.id].trig <= orders[row.sl].trig
      BY <1>9, <2>1, <2>2 DEF IInv, BrokerInv
    <2>4. n.trig \in Int /\ orders[n.id].trig \in Int /\ orders[row.sl].trig \in Int
      BY <1>5, <1>9, <2>1, PriceInt, OrderTypes DEF PostType, IInv
    <2> QED BY <1>9, <2>1, <2>3, <2>4 DEF IInv, RowInv
  <1>13. /\ RowOK(row') /\ row'.sl = row.sl
         /\ row'.stop \in {row.stop, n.trig}
    <2>1. PICK l : l = Learns(n)
      OBVIOUS
    <2>2. RowOK(row) /\ RowOK(l) /\ l.sl = row.sl /\ l.stop \in {row.stop, n.trig}
      BY <1>5, <2>1, LearnsRow DEF IInv, RowInv
    <2>3. \A x \in Ends : /\ RowOK([l EXCEPT !.end = x]) /\ [l EXCEPT !.end = x].sl = row.sl
                          /\ [l EXCEPT !.end = x].stop \in {row.stop, n.trig}
      BY <2>2, EndRow
    <2>4. \/ row' = row \/ row' = l \/ row' = [l EXCEPT !.end = "SL"]
          \/ row' = [l EXCEPT !.end = "SL_CANCELLED"]
      BY <1>3, <2>1
    <2> QED BY <2>2, <2>3, <2>4 DEF Ends
  <1>14. ~eased => row'.stop <= orders[row.sl].trig
    BY <1>12, <1>13
  <1> QED BY <1>3, <1>9, <1>10, <1>11, <1>13, <1>14, Settles

LEMMA ReconcileStep ==
    ASSUME IInv, ReconcileTrade
    PROVE  IInv'
  <1>1. /\ cmd = Idle /\ Live /\ UNCHANGED <<setup, faults, market, queue, mem, cmd>>
        /\ \/ row' = row
           \/ \E x \in Ends : row' = [row EXCEPT !.end = x]
    BY DEF ReconcileTrade, Ends
  <1>2. RowOK(row') /\ row'.sl = row.sl /\ row'.stop = row.stop
    <2>1. RowOK(row)
      BY DEF IInv, RowInv
    <2>2. CASE row' = row
      BY <2>1, <2>2
    <2>3. ASSUME NEW x \in Ends, row' = [row EXCEPT !.end = x]
          PROVE  RowOK(row') /\ row'.sl = row.sl /\ row'.stop = row.stop
      <3>1. PICK r : r = [row EXCEPT !.end = x]
        OBVIOUS
      <3>2. RowOK(r) /\ r.sl = row.sl /\ r.stop = row.stop
        BY <2>1, <3>1, EndRow
      <3> QED BY <2>3, <3>1, <3>2
    <2> QED BY <1>1, <2>2, <2>3
  <1>3. faults' \in 0 .. setup.faults
    BY <1>1 DEF IInv, BrokerInv
  <1>4. HeardInv'
    BY <1>1, <1>3, MarketStill, HeardStill DEF IInv
  <1> QED BY <1>1, <1>2, <1>3, <1>4, AtRest, Rests

-----------------------------------------------------------------------------
(* The modification of the stop.                                            *)

(* A step of a command that leaves the row and, but for the counts, the     *)
(* memory.                                                                  *)
LEMMA Goes ==
    ASSUME IInv, UNCHANGED <<setup, queue, row>>, BrokerInv', Grown, Len(orders') = Len(orders),
           MemoryOK(mem'), mem'.known = mem.known, mem'.ended = mem.ended,
           cmd.pc \in {"send", "retry", "again", "failed", "capCancel", "capPlace", "cancel"},
           cmd' \in Command, cmd'.pc \in {"failed", "cancel", "capCancel"}
    PROVE  IInv'
  <1>1. /\ cmd \in Command /\ Live /\ row.sl # NoOrder /\ row.sl = Len(orders)
        /\ ~At("capLink") /\ Len(orders) < MaxOrders
    BY InCommand DEF At
  <1>2. HeardInv'
    BY HeardKept DEF IInv
  <1>3. RowInv'
    BY <1>1, RowKept DEF IInv, RowInv
  <1>4. CmdInv'
    BY <1>1, CmdGoes DEF Live
  <1>5. SoleInv'
    BY SoleKept DEF IInv
  <1> QED BY <1>2, <1>3, <1>4, <1>5 DEF IInv

(* What the broker has is done.                                             *)
LEMMA GoesDone ==
    ASSUME IInv, UNCHANGED <<setup, queue, row>>, BrokerInv', Grown, Len(orders') = Len(orders),
           MemoryOK(mem'), mem'.known = mem.known, mem'.ended = mem.ended,
           cmd.pc \in {"send", "again"}, cmd' \in Command, cmd'.pc = "done",
           ~eased' => cmd'.cand <= orders'[row.sl].trig
    PROVE  IInv'
  <1>1. /\ cmd \in Command /\ Live /\ row.sl # NoOrder /\ row.sl = Len(orders)
        /\ ~At("capLink")
    BY InCommand DEF At
  <1>2. HeardInv'
    BY HeardKept DEF IInv
  <1>3. RowInv'
    BY <1>1, RowKept DEF IInv, RowInv
  <1>4. CmdInv'
    BY <1>1 DEF CmdInv, At, Live
  <1>5. SoleInv'
    BY SoleKept DEF IInv
  <1> QED BY <1>2, <1>3, <1>4, <1>5 DEF IInv

LEMMA GoesOnTrying ==
    ASSUME IInv, UNCHANGED <<setup, market, queue, row>>, faults' \in 0 .. setup.faults,
           MemoryOK(mem'), mem'.known = mem.known, mem'.ended = mem.ended,
           cmd.pc \in {"send", "retry", "again"}, cmd' \in Command, cmd'.pc \in {"retry", "again"},
           cmd'.pc = "again" => cmd'.retried,
           mem'.mods[row.sl] <= KITE_MAX_MODIFICATIONS_PER_ORDER
    PROVE  IInv'
  <1>1. /\ cmd \in Command /\ Live /\ row.sl # NoOrder /\ row.sl = Len(orders)
        /\ ~At("capLink") /\ Len(orders) < MaxOrders
    BY InCommand DEF At
  <1>2. BrokerInv' /\ Grown /\ orders' = orders
    BY MarketStill DEF IInv
  <1>3. HeardInv'
    BY <1>2, HeardKept DEF IInv
  <1>4. RowInv'
    BY <1>1, <1>2, RowKept DEF IInv, RowInv
  <1>5. CmdInv'
    BY <1>1, <1>2 DEF CmdInv, At, Live
  <1>6. SoleInv'
    BY <1>2, SoleKept DEF IInv
  <1> QED BY <1>2, <1>3, <1>4, <1>5, <1>6 DEF IInv

LEMMA SkipStep ==
    ASSUME IInv, SendSkips
    PROVE  IInv'
  <1>1. /\ cmd.pc = "send" /\ UNCHANGED <<setup, faults, market, queue, mem, row, rec>>
    BY DEF SendSkips, At
  <1>2. cmd \in Command /\ row.sl = Len(orders) /\ row.sl \in DOMAIN orders
    BY <1>1, InCommand DEF At
  <1>3. faults' \in 0 .. setup.faults
    BY <1>1 DEF IInv, BrokerInv
  <1>4. BrokerInv' /\ Grown /\ orders' = orders /\ eased' = eased /\ HeardInv'
    BY <1>1, <1>3, MarketStill, HeardStill DEF IInv, market
  <1>5. CASE cmd' = Idle
    BY <1>1, <1>2, <1>3, <1>4, <1>5, Rests DEF IInv, RowInv
  <1>6. CASE /\ mem.known[row.sl].trig = cmd.cand
             /\ cmd' = [cmd EXCEPT !.pc = "done", !.sure = TRUE]
    <2>1. cmd' \in Command /\ cmd'.pc = "done" /\ cmd'.cand = cmd.cand
      BY <1>2, <1>6 DEF Command, Places
    <2>2. ~eased' => cmd'.cand <= orders'[row.sl].trig
      BY <1>2, <1>4, <1>6, <2>1 DEF IInv, HeardInv
    <2>3. MemoryOK(mem')
      BY <1>1 DEF IInv, HeardInv
    <2> QED BY <1>1, <1>4, <2>1, <2>2, <2>3, GoesDone
  <1> QED BY <1>5, <1>6 DEF SendSkips

LEMMA CountedMemory ==
    ASSUME IInv, Counted, row.sl \in OrderIds,
           mem.mods[row.sl] <= KITE_MAX_MODIFICATIONS_PER_ORDER
    PROVE  /\ MemoryOK(mem') /\ mem'.known = mem.known /\ mem'.ended = mem.ended
           /\ mem'.mods[row.sl] = mem.mods[row.sl] + 1
  <1>1. MemoryOK(mem) /\ mem \in Memory /\ mem.mods \in [OrderIds -> Nat]
    BY DEF IInv, HeardInv, MemoryOK, Memory
  <1>2. PICK mods : mods = [mem.mods EXCEPT ![row.sl] = @ + 1]
    OBVIOUS
  <1>3. /\ mods \in [OrderIds -> Nat] /\ mods[row.sl] = mem.mods[row.sl] + 1
        /\ \A id \in OrderIds : id # row.sl => mods[id] = mem.mods[id]
    BY <1>1, <1>2
  <1>4. PICK m : m = [mem EXCEPT !.mods = mods]
    OBVIOUS
  <1>5. m \in Memory /\ m.known = mem.known /\ m.ended = mem.ended /\ m.mods = mods
    BY <1>1, <1>3, <1>4 DEF Memory
  <1>6. \A id \in OrderIds : mods[id] <= KITE_MAX_MODIFICATIONS_PER_ORDER + 1
    BY <1>1, <1>3, Bounds DEF MemoryOK
  <1>7. mem' = m
    BY <1>1, <1>2, <1>4 DEF Counted, Memory
  <1> QED BY <1>1, <1>3, <1>5, <1>6, <1>7 DEF MemoryOK

LEMMA AttemptStep ==
    ASSUME IInv, Attempt
    PROVE  IInv'
  <1>1. /\ cmd.pc \in {"send", "again"} /\ Counted /\ UNCHANGED <<setup, queue, row, rec>>
        /\ cmd.pc = "send" => ~Capped
    BY DEF Attempt, At, SendsNew
  <1>2. /\ cmd \in Command /\ row.sl = Len(orders) /\ row.sl \in DOMAIN orders
        /\ row.sl \in OrderIds /\ Len(orders) < MaxOrders
    BY <1>1, InCommand, OrderTypes DEF At, IInv
  <1>3. mem.mods[row.sl] <= KITE_MAX_MODIFICATIONS_PER_ORDER
    <2>1. CASE cmd.pc = "send"
      <3>1. mem.mods[row.sl] \in Nat
        BY <1>2 DEF IInv, HeardInv, MemoryOK, Memory
      <3> QED BY <1>1, <2>1, <3>1, Bounds DEF Capped
    <2>2. CASE cmd.pc = "again"
      BY <2>2 DEF IInv, CmdInv, At
    <2> QED BY <1>1, <2>1, <2>2
  <1>4. /\ MemoryOK(mem') /\ mem'.known = mem.known /\ mem'.ended = mem.ended
        /\ mem'.mods[row.sl] = mem.mods[row.sl] + 1
    BY <1>1, <1>2, <1>3, CountedMemory
  <1>5. \/ Accepts /\ Moved(row.sl, cmd.cand) /\ GoesTo("done") /\ NoFault
        \/ /\ Works(row.sl) /\ cmd.cand = orders[row.sl].trig
           /\ IF cmd.retried THEN Fails(FALSE)
              ELSE cmd' = [cmd EXCEPT !.pc = "done", !.sure = TRUE]
           /\ NoFault /\ UNCHANGED market
        \/ /\ ~Works(row.sl) \/ cmd.cand >= ltp
           /\ IF cmd.retried THEN Fails(FALSE) ELSE GoesTo("retry")
           /\ NoFault /\ UNCHANGED market
        \/ /\ Fault("unanswered")
           /\ Fails(~cmd.retried)
           /\ UNCHANGED market \/ (Accepts /\ Moved(row.sl, cmd.cand))
        \/ Fault("refused") /\ Fails(FALSE) /\ UNCHANGED market
    BY DEF Attempt
  <1>6. faults' \in 0 .. setup.faults
    BY <1>1, <1>5, FaultTypes DEF IInv, TrailFaults
  <1>7. UNCHANGED market \/ Moved(row.sl, cmd.cand)
    BY <1>5
  <1>8. cmd.cand \in Prices /\ cmd.retried \in BOOLEAN
    BY <1>2 DEF Command
  <1>9. BrokerInv' /\ Grown /\ Len(orders') = Len(orders)
    BY <1>1, <1>2, <1>6, <1>7, <1>8, MarketStill, MovedStep DEF IInv
  <1>10. CASE GoesTo("done") /\ Moved(row.sl, cmd.cand)
    <2>1. cmd' \in Command /\ cmd'.pc = "done" /\ cmd'.cand = cmd.cand
      BY <1>2, <1>10 DEF GoesTo, Command, Places
    <2>2. orders'[row.sl].trig = cmd.cand
      BY <1>1, <1>2, <1>6, <1>8, <1>10, MovedStep DEF IInv
    <2> QED BY <1>1, <1>4, <1>8, <1>9, <2>1, <2>2, PriceInt, GoesDone
  <1>11. CASE /\ cmd.cand = orders[row.sl].trig /\ UNCHANGED market
              /\ cmd' = [cmd EXCEPT !.pc = "done", !.sure = TRUE]
    <2>1. cmd' \in Command /\ cmd'.pc = "done" /\ cmd'.cand = cmd.cand
      BY <1>2, <1>11 DEF Command, Places
    <2>2. orders'[row.sl].trig = cmd.cand
      BY <1>11 DEF market
    <2> QED BY <1>1, <1>4, <1>8, <1>9, <2>1, <2>2, PriceInt, GoesDone
  <1>12. ASSUME NEW b \in BOOLEAN, Fails(b) PROVE IInv'
    <2>1. cmd' \in Command /\ cmd'.pc = "failed"
      BY <1>2, <1>12 DEF Fails, Command, Places
    <2> QED BY <1>1, <1>4, <1>9, <2>1, Goes
  <1>13. CASE ~cmd.retried /\ GoesTo("retry") /\ UNCHANGED market
    <2>1. cmd' \in Command /\ cmd'.pc = "retry"
      BY <1>2, <1>13 DEF GoesTo, Command, Places
    <2>2. cmd.pc = "send"
      BY <1>1, <1>13 DEF IInv, CmdInv, At
    <2>3. mem'.mods[row.sl] <= KITE_MAX_MODIFICATIONS_PER_ORDER
      <3>1. mem.mods[row.sl] \in Nat
        BY <1>2 DEF IInv, HeardInv, MemoryOK, Memory
      <3> QED BY <1>1, <1>4, <2>2, <3>1, Bounds DEF Capped
    <2> QED BY <1>1, <1>4, <1>6, <1>13, <2>1, <2>2, <2>3, GoesOnTrying
  <1> QED BY <1>5, <1>8, <1>10, <1>11, <1>12, <1>13

LEMMA RetryStep ==
    ASSUME IInv, Retry
    PROVE  IInv'
  <1>1. /\ cmd.pc = "retry" /\ UNCHANGED <<setup, faults, market, queue, mem, row, rec>>
    BY DEF Retry, At
  <1>2. cmd \in Command /\ row.sl = Len(orders) /\ row.sl \in DOMAIN orders /\ cmd.stop \in Prices
    BY <1>1, InCommand DEF At, Command
  <1>3. PICK next : next = Min({cmd.cand, ltp - 2})
    OBVIOUS
  <1>4. \/ cmd' = [cmd EXCEPT !.pc = "failed"]
        \/ /\ next >= cmd.stop
           /\ cmd' = [cmd EXCEPT !.pc = "again", !.cand = next, !.retried = TRUE]
    <2>1. next \in Int /\ cmd.stop \in Int
      <3>1. cmd.cand \in Int /\ ltp - 2 \in Int
        BY <1>2, PriceInt DEF Command, IInv, BrokerInv
      <3> QED BY <1>2, <1>3, <3>1, MinPair, PriceInt
    <2> QED BY <1>3, <2>1 DEF Retry
  <1>5. faults' \in 0 .. setup.faults /\ MemoryOK(mem')
    BY <1>1 DEF IInv, BrokerInv, HeardInv
  <1>6. BrokerInv' /\ Grown /\ orders' = orders
    BY <1>1, <1>5, MarketStill DEF IInv
  <1>7. CASE cmd' = [cmd EXCEPT !.pc = "failed"]
    <2>1. cmd' \in Command /\ cmd'.pc = "failed"
      BY <1>2, <1>7 DEF Command, Places
    <2> QED BY <1>1, <1>5, <1>6, <2>1, Goes
  <1>8. CASE /\ next >= cmd.stop
             /\ cmd' = [cmd EXCEPT !.pc = "again", !.cand = next, !.retried = TRUE]
    <2>1. next \in Prices
      <3>1. cmd.cand \in Int /\ cmd.cand <= MaxPrice /\ ltp - 2 \in Int /\ ltp - 2 <= MaxPrice
        BY <1>2, PriceInt, Bounds DEF Command, IInv, BrokerInv
      <3>2. next \in Int /\ next <= MaxPrice
        BY <1>3, <3>1, MinPair
      <3> QED BY <1>2, <1>8, <3>2, PriceInt DEF Prices
    <2>2. PICK c : c = [cmd EXCEPT !.pc = "again", !.cand = next, !.retried = TRUE]
      OBVIOUS
    <2>3. c \in Command /\ c.pc = "again" /\ c.retried
      BY <1>2, <2>1, <2>2 DEF Command, Places
    <2>4. mem'.mods[row.sl] <= KITE_MAX_MODIFICATIONS_PER_ORDER
      BY <1>1 DEF IInv, CmdInv, At
    <2> QED BY <1>1, <1>5, <1>8, <2>2, <2>3, <2>4, GoesOnTrying
  <1> QED BY <1>4, <1>7, <1>8

-----------------------------------------------------------------------------
(* A cancellation.                                                          *)

LEMMA Cancels ==
    ASSUME IInv, UNCHANGED setup, row.sl \in DOMAIN orders,
           CancelGoesOn \/ CancelProcessing \/ CancelRefused \/ CancelUnanswered
    PROVE  /\ BrokerInv' /\ Same /\ Grown
           /\ CancelGoesOn => orders'[row.sl].st # Pending
           /\ CancelProcessing => "processing" \in setup.kinds
  <1>1. faults' \in 0 .. setup.faults
    <2>1. NoFault \/ \E kind \in TrailFaults : Fault(kind)
      BY DEF CancelGoesOn, CancelProcessing, CancelRefused, CancelUnanswered, TrailFaults
    <2> QED BY <2>1, FaultTypes DEF IInv
  <1>2. UNCHANGED market => BrokerInv' /\ Same /\ orders' = orders
    BY <1>1, MarketStill DEF IInv
  <1>3. Cancelled(row.sl) => BrokerInv' /\ Same /\ orders'[row.sl].st # Pending
    BY <1>1, CancelStep DEF IInv
  <1>4. CancelProcessing => BrokerInv' /\ Same
    BY <1>1, DyingStep DEF IInv, CancelProcessing, Dies
  <1>5. BrokerInv' /\ Same
    BY <1>2, <1>3, <1>4 DEF CancelGoesOn, CancelRefused, CancelUnanswered
  <1>6. CancelGoesOn => orders'[row.sl].st # Pending
    <2>1. EndsAsKnown => orders[row.sl].st # Pending
      BY DEF EndsAsKnown, IInv, HeardInv, Works
    <2> QED BY <1>2, <1>3, <2>1 DEF CancelGoesOn
  <1>7. CancelProcessing => "processing" \in setup.kinds
    BY DEF CancelProcessing, Fault
  <1> QED BY <1>5, <1>6, <1>7, SameGrows DEF IInv

LEMMA CapHitStep ==
    ASSUME IInv, CapHit
    PROVE  IInv'
  <1>1. /\ cmd.pc = "send" /\ UNCHANGED <<setup, market, queue, mem, row, rec>>
        /\ NoFault \/ Fault("unread")
        /\ cmd' = Idle \/ GoesTo("capCancel")
    BY DEF CapHit, SendsNew, At
  <1>2. cmd \in Command /\ row.sl = Len(orders)
    BY <1>1, InCommand DEF At
  <1>3. faults' \in 0 .. setup.faults
    BY <1>1, FaultTypes DEF IInv, TrailFaults
  <1>4. BrokerInv' /\ Grown /\ orders' = orders /\ HeardInv'
    BY <1>1, <1>3, MarketStill, HeardStill DEF IInv
  <1>5. CASE cmd' = Idle
    BY <1>1, <1>2, <1>3, <1>4, <1>5, Rests DEF IInv, RowInv
  <1>6. CASE GoesTo("capCancel")
    <2>1. cmd' \in Command /\ cmd'.pc = "capCancel"
      BY <1>2, <1>6 DEF GoesTo, Command, Places
    <2>2. MemoryOK(mem')
      BY <1>1 DEF IInv, HeardInv
    <2> QED BY <1>1, <1>4, <2>1, <2>2, Goes
  <1> QED BY <1>1, <1>5, <1>6

LEMMA CapCancelStep ==
    ASSUME IInv, CapCancel
    PROVE  IInv'
  <1>1. /\ cmd.pc = "capCancel" /\ UNCHANGED <<setup, queue, mem, row, rec>>
        /\ \/ CancelGoesOn /\ GoesTo("capPlace")
           \/ CancelProcessing /\ cmd' = Idle
           \/ CancelRefused /\ Fails(FALSE)
           \/ CancelUnanswered /\ Fails(TRUE)
    BY DEF CapCancel, At
  <1>2. /\ cmd \in Command /\ row.sl = Len(orders) /\ row.sl \in DOMAIN orders
        /\ row.sl # NoOrder /\ Live /\ Len(orders) < MaxOrders /\ ~At("capLink")
    BY <1>1, InCommand DEF At
  <1>3. BrokerInv' /\ Same /\ Grown /\ Len(orders') = Len(orders)
    BY <1>1, <1>2, Cancels DEF Same
  <1>4. HeardInv' /\ MemoryOK(mem')
    BY <1>1, <1>3, HeardStill DEF IInv, HeardInv
  <1>5. CASE CancelGoesOn /\ GoesTo("capPlace")
    <2>1. cmd' \in Command /\ cmd'.pc = "capPlace"
      BY <1>2, <1>5 DEF GoesTo, Command, Places
    <2>2. orders'[row.sl].st # Pending
      BY <1>1, <1>2, <1>5, Cancels
    <2>3. RowInv'
      BY <1>1, <1>2, <1>3, <2>1, RowKept DEF IInv, RowInv
    <2>4. CmdInv'
      BY <1>1, <1>2, <1>3, <2>1, CmdGoes DEF Live
    <2>5. SoleInv'
      <3>1. DOMAIN orders' = DOMAIN orders
        BY <1>3, GrownDomain, OrderTypes DEF IInv
      <3>2. ASSUME "processing" \notin setup.kinds, NEW id \in DOMAIN orders'
            PROVE  orders'[id].st # Pending
        BY <1>2, <1>3, <2>2, <3>1, <3>2 DEF IInv, SoleInv, Grown, Works
      <3> QED BY <1>1, <3>2 DEF SoleInv, Works
    <2> QED BY <1>3, <1>4, <2>3, <2>4, <2>5 DEF IInv
  <1>6. CASE cmd' = Idle
    BY <1>1, <1>2, <1>3, <1>4, <1>6, SettlesSame DEF IInv, RowInv
  <1>7. ASSUME NEW b \in BOOLEAN, Fails(b) PROVE IInv'
    <2>1. cmd' \in Command /\ cmd'.pc = "failed"
      BY <1>2, <1>7 DEF Fails, Command, Places
    <2> QED BY <1>1, <1>3, <1>4, <2>1, Goes
  <1> QED BY <1>1, <1>5, <1>6, <1>7

LEMMA CapPlaceStep ==
    ASSUME IInv, CapPlace
    PROVE  IInv'
  <1>1. /\ cmd.pc = "capPlace" /\ UNCHANGED <<setup, queue, mem, row, rec>>
        /\ \/ NoFault /\ Placed(cmd.cand) /\ GoesTo("capLink")
           \/ /\ NoFault \/ Fault("refused")
              /\ Fails(FALSE) /\ UNCHANGED market
    BY DEF CapPlace, At
  <1>2. /\ cmd \in Command /\ row.sl = Len(orders) /\ row.sl \in DOMAIN orders
        /\ row.sl # NoOrder /\ Live /\ Len(orders) < MaxOrders /\ cmd.cand \in Prices
    BY <1>1, InCommand DEF At, Command
  <1>3. faults' \in 0 .. setup.faults
    BY <1>1, FaultTypes DEF IInv, TrailFaults
  <1>4. CASE Placed(cmd.cand) /\ GoesTo("capLink")
    <2>1. cmd' \in Command /\ cmd'.pc = "capLink" /\ cmd'.cand = cmd.cand
      BY <1>2, <1>4 DEF GoesTo, Command, Places
    <2>2. /\ BrokerInv' /\ Grown /\ Len(orders') = Len(orders) + 1
          /\ orders'[Len(orders')].trig = cmd.cand
      BY <1>1, <1>2, <1>3, <1>4, PlacedStep DEF IInv
    <2>3. HeardInv'
      BY <1>1, <2>2, HeardStill DEF IInv
    <2>4. Len(orders) \in Nat
      BY OrderTypes DEF IInv
    <2>5. RowInv'
      <3>1. RowOK(row') /\ row'.sl = Len(orders') - 1 /\ row'.sl = row.sl /\ row'.stop = row.stop
        BY <1>1, <1>2, <2>2, <2>4 DEF IInv, RowInv
      <3>2. ASSUME ~eased' PROVE row'.stop <= orders'[row'.sl].trig
        <4>1. /\ row.stop <= orders[row.sl].trig /\ orders[row.sl].trig <= orders'[row.sl].trig
              /\ row.sl \in DOMAIN orders'
          BY <1>2, <2>2, <3>2, GrownDomain DEF IInv, RowInv, Grown
        <4>2. row.stop \in Int /\ orders[row.sl].trig \in Int /\ orders'[row.sl].trig \in Int
          BY <1>2, <2>2, <4>1, OrderTypes, GrownDomain, PriceInt DEF IInv, RowInv, RowOK, Row
        <4> QED BY <3>1, <4>1, <4>2
      <3> QED BY <1>2, <2>1, <3>1, <3>2 DEF RowInv, At
    <2>6. CmdInv'
      BY <1>1, <1>2, <2>1, <2>2 DEF CmdInv, At, Live
    <2>7. SoleInv'
      <3>1. /\ DOMAIN orders' = 1 .. Len(orders) + 1 /\ DOMAIN orders = 1 .. Len(orders)
        BY <2>2, GrownDomain, OrderTypes DEF IInv
      <3>2. ASSUME "processing" \notin setup.kinds, NEW id \in DOMAIN orders,
                   orders'[id].st = Pending
            PROVE  FALSE
        BY <1>1, <2>2, <3>2 DEF IInv, SoleInv, Grown, Works, At
      <3>3. \A id \in DOMAIN orders' : id = Len(orders') \/ id \in DOMAIN orders
        BY <2>2, <2>4, <3>1
      <3> QED BY <1>1, <2>1, <3>2, <3>3 DEF SoleInv, Works, At
    <2> QED BY <2>2, <2>3, <2>5, <2>6, <2>7 DEF IInv
  <1>5. CASE Fails(FALSE) /\ UNCHANGED market
    <2>1. cmd' \in Command /\ cmd'.pc = "failed"
      BY <1>2, <1>5 DEF Fails, Command, Places
    <2>2. BrokerInv' /\ Grown /\ orders' = orders
      BY <1>1, <1>3, <1>5, MarketStill DEF IInv
    <2>3. MemoryOK(mem')
      BY <1>1 DEF IInv, HeardInv
    <2> QED BY <1>1, <2>1, <2>2, <2>3, Goes
  <1> QED BY <1>1, <1>4, <1>5

LEMMA CapLinkStep ==
    ASSUME IInv, CapLink
    PROVE  IInv'
  <1>1. PICK new : new = Len(orders)
    OBVIOUS
  <1>2. /\ cmd.pc = "capLink" /\ GoesTo("done") /\ row' = [row EXCEPT !.sl = new]
        /\ mem' = [mem EXCEPT !.known[new] =
                      [st |-> IF @.st \in Ended THEN @.st ELSE "OPEN", trig |-> cmd.cand]]
        /\ UNCHANGED <<setup, faults, market, queue, rec>>
    BY <1>1 DEF CapLink, At
  <1>3. cmd \in Command /\ Live /\ cmd.cand \in Prices
    BY <1>2, InCommand DEF Command
  <1>4. /\ row.sl = new - 1 /\ cmd.cand = orders[new].trig /\ new \in DOMAIN orders
        /\ new \in OrderIds /\ new \in 0 .. MaxOrders /\ new # 0 /\ row.sl # NoOrder
        /\ DOMAIN orders = 1 .. new /\ new \in Nat
    <2>1. row.sl # NoOrder
      BY <1>2, InCommand DEF At
    <2> QED BY <1>1, <1>2, <2>1, OrderTypes DEF IInv, RowInv, CmdInv, At, OrderIds
  <1>5. faults' \in 0 .. setup.faults
    BY <1>2 DEF IInv, BrokerInv
  <1>6. BrokerInv' /\ Same /\ Grown /\ orders' = orders /\ eased' = eased
    BY <1>2, <1>5, MarketStill DEF IInv, market
  <1>7. PICK k : k = [st |-> IF mem.known[new].st \in Ended THEN mem.known[new].st ELSE "OPEN",
                      trig |-> cmd.cand]
    OBVIOUS
  <1>8. k \in Known /\ k.st # "none" /\ k.trig = cmd.cand /\ k.trig # 0
    <2>1. cmd.cand \in 0 .. MaxPrice /\ cmd.cand # 0
      BY <1>3, PriceInt
    <2>2. (IF mem.known[new].st \in Ended THEN mem.known[new].st ELSE "OPEN") \in Ended \cup {"OPEN"}
      OBVIOUS
    <2>3. \A x \in Ended \cup {"OPEN"} : x \in Statuses /\ x # "none"
      BY DEF Ended, Statuses
    <2> QED BY <1>7, <2>1, <2>2, <2>3 DEF Known
  <1>9. PICK known : known = [mem.known EXCEPT ![new] = k]
    OBVIOUS
  <1>10. mem \in Memory /\ MemoryOK(mem) /\ mem.known \in [OrderIds -> Known]
         /\ mem.ended \in SUBSET OrderIds
    BY DEF IInv, HeardInv, MemoryOK, Memory
  <1>11. /\ known \in [OrderIds -> Known]
         /\ \A id \in OrderIds : known[id] = IF id = new THEN k ELSE mem.known[id]
    BY <1>4, <1>8, <1>9, <1>10
  <1>12. KnownOK(known)
    BY <1>8, <1>10, <1>11 DEF KnownOK, MemoryOK
  <1>13. PICK c : c = [mem EXCEPT !.known = known]
    OBVIOUS
  <1>14. c \in Memory /\ c.known = known /\ c.ended = mem.ended /\ c.mods = mem.mods
    BY <1>10, <1>11, <1>13 DEF Memory
  <1>15. mem' = c
    BY <1>2, <1>7, <1>9, <1>10, <1>13 DEF Memory
  <1>16. MemoryOK(mem') /\ mem'.known = known /\ mem'.ended = mem.ended
    BY <1>10, <1>12, <1>14, <1>15 DEF MemoryOK, KnownOK
  <1>17. HeardInv'
    <2>1. \A id \in OrderIds : id \notin DOMAIN orders => mem'.known[id].trig = 0
      BY <1>4, <1>11, <1>16 DEF IInv, HeardInv
    <2>2. ~eased => \A id \in DOMAIN orders : mem'.known[id].trig <= orders[id].trig
      BY <1>3, <1>4, <1>8, <1>11, <1>16, OrderTypes, PriceInt DEF IInv, HeardInv
    <2> QED BY <1>2, <1>6, <1>16, <2>1, <2>2 DEF IInv, HeardInv, Works
  <1>18. RowOK(row') /\ row'.sl = new /\ row'.stop = row.stop /\ row'.end = row.end
    <2>1. PICK r : r = [row EXCEPT !.sl = new]
      OBVIOUS
    <2>2. RowOK(row)
      BY DEF IInv, RowInv
    <2> QED BY <1>2, <1>4, <2>1, <2>2, OrderRow
  <1>19. cmd' \in Command /\ cmd'.pc = "done" /\ cmd'.cand = cmd.cand
    BY <1>2, <1>3 DEF GoesTo, Command, Places
  <1>20. ~eased => row.stop <= orders[new].trig
    <2> SUFFICES ASSUME ~eased PROVE row.stop <= orders[new].trig
      OBVIOUS
    <2>1. row.sl \in DOMAIN orders /\ row.sl <= new
      <3>1. row.sl = new - 1 /\ row.sl # 0 /\ new >= 1
        BY <1>4 DEF NoOrder
      <3> QED BY <1>4, <3>1
    <2>2. row.stop <= orders[row.sl].trig /\ orders[row.sl].trig <= orders[new].trig
      BY <1>4, <2>1 DEF IInv, RowInv, BrokerInv
    <2>3. row.stop \in Int /\ orders[row.sl].trig \in Int /\ orders[new].trig \in Int
      BY <1>4, <2>1, OrderTypes, PriceInt DEF IInv, RowInv, RowOK, Row
    <2> QED BY <2>2, <2>3
  <1>21. RowInv'
    BY <1>1, <1>4, <1>6, <1>18, <1>19, <1>20 DEF RowInv, At, NoOrder
  <1>22. CmdInv'
    BY <1>3, <1>4, <1>6, <1>18, <1>19, PriceInt DEF CmdInv, At, Live
  <1>23. SoleInv'
    BY <1>6, <1>19, SoleKept DEF IInv
  <1> QED BY <1>6, <1>17, <1>21, <1>22, <1>23 DEF IInv

-----------------------------------------------------------------------------
(* After the call.                                                          *)

LEMMA FailsMemory ==
    ASSUME IInv, NEW n \in 0 .. 2, mem' = [mem EXCEPT !.fails = n]
    PROVE  MemoryOK(mem') /\ mem'.known = mem.known /\ mem'.ended = mem.ended
  <1>1. MemoryOK(mem) /\ mem \in Memory
    BY DEF IInv, HeardInv, MemoryOK
  <1>2. PICK m : m = [mem EXCEPT !.fails = n]
    OBVIOUS
  <1>3. m \in Memory /\ m.known = mem.known /\ m.ended = mem.ended /\ m.mods = mem.mods
    BY <1>1, <1>2 DEF Memory
  <1> QED BY <1>1, <1>2, <1>3 DEF MemoryOK

LEMMA DoneStep ==
    ASSUME IInv, Done
    PROVE  IInv'
  <1>1. /\ cmd.pc = "done" /\ cmd' = Idle /\ mem' = [mem EXCEPT !.fails = 0]
        /\ UNCHANGED <<setup, faults, market, queue, rec>>
    BY DEF Done, At
  <1>2. /\ cmd \in Command /\ row.sl = Len(orders) /\ row.sl \in DOMAIN orders
        /\ cmd.cand \in Prices /\ cmd.alc \in 0 .. 2
    BY <1>1, InCommand DEF At, Command
  <1>3. faults' \in 0 .. setup.faults
    BY <1>1 DEF IInv, BrokerInv
  <1>4. BrokerInv' /\ Same /\ Grown /\ orders' = orders
    BY <1>1, <1>3, MarketStill DEF IInv
  <1>5. HeardInv'
    BY <1>1, <1>4, FailsMemory, HeardKept DEF IInv
  <1>6. RowOK(row)
    BY DEF IInv, RowInv
  <1>7. PICK asked : asked = [row EXCEPT !.shadow = FALSE, !.alc.submitted = cmd.alc,
                                         !.alc.pending = TRUE, !.alc.asked = cmd.cand]
    OBVIOUS
  <1>8. PICK moved : moved = [row EXCEPT !.shadow = FALSE, !.stop = cmd.cand]
    OBVIOUS
  <1>9. PICK held : held = ClearPending(moved)
    OBVIOUS
  <1>10. PICK confirmed : confirmed = [held EXCEPT !.alc.submitted = cmd.alc,
                                                   !.alc.applied = cmd.alc,
                                                   !.alc.pending = FALSE, !.alc.retries = 0]
    OBVIOUS
  <1>11. row' = held \/ row' = confirmed \/ row' = SetPending(asked, cmd.cand)
    BY <1>7, <1>8, <1>9, <1>10 DEF Done
  <1>12. RowOK(asked) /\ asked.sl = row.sl /\ asked.stop = row.stop
    <2>1. LET a == [row EXCEPT !.shadow = FALSE, !.alc.submitted = cmd.alc,
                               !.alc.pending = TRUE, !.alc.asked = cmd.cand]
          IN RowOK(a) /\ SameStop(a, row)
      BY <1>2, <1>6, AlcAsked
    <2> QED BY <1>7, <2>1 DEF SameStop
  <1>13. /\ RowOK(SetPending(asked, cmd.cand)) /\ SetPending(asked, cmd.cand).sl = row.sl
         /\ SetPending(asked, cmd.cand).stop = row.stop
    BY <1>2, <1>12, PendingRow DEF SameStop
  <1>14. RowOK(moved) /\ moved.sl = row.sl /\ moved.stop = cmd.cand
    BY <1>2, <1>6, <1>8 DEF RowOK, Row
  <1>15. RowOK(held) /\ held.sl = row.sl /\ held.stop = cmd.cand
    BY <1>9, <1>14, ClearedRow DEF SameStop
  <1>16. RowOK(confirmed) /\ confirmed.sl = row.sl /\ confirmed.stop = cmd.cand
    BY <1>2, <1>10, <1>15, AlcConfirmedRow DEF SameStop
  <1>17. RowOK(row') /\ row'.sl = row.sl /\ row'.stop \in {row.stop, cmd.cand}
    BY <1>11, <1>13, <1>15, <1>16
  <1>18. ~eased => row'.stop <= orders[row.sl].trig
    <2>1. ~eased => /\ row.stop <= orders[row.sl].trig
                    /\ cmd.cand <= orders[row.sl].trig
      BY <1>1, <1>2, OrderTypes DEF IInv, RowInv, CmdInv, At, NoOrder
    <2> QED BY <1>17, <2>1
  <1> QED BY <1>1, <1>2, <1>4, <1>5, <1>17, <1>18, SettlesSame

LEMMA FailedRows ==
    ASSUME IInv, cmd \in Command
    PROVE  /\ RowOK(Shadowed(SetPending(row, cmd.first)))
           /\ Shadowed(SetPending(row, cmd.first)).sl = row.sl
           /\ Shadowed(SetPending(row, cmd.first)).stop = row.stop
           /\ \A n \in 0 .. 2 :
                LET r == [AlcFailed(SetPending(row, cmd.first)) EXCEPT !.alc.submitted = n,
                                                                      !.alc.pending = TRUE]
                IN RowOK(r) /\ r.sl = row.sl /\ r.stop = row.stop
           /\ LET r == ClearPending([AlcFailed(row) EXCEPT !.alc.pending = FALSE])
              IN RowOK(r) /\ r.sl = row.sl /\ r.stop = row.stop /\ r.end = row.end
  <1>1. RowOK(row) /\ cmd.first \in Prices
    BY DEF IInv, RowInv, Command
  <1>2. PICK p : p = SetPending(row, cmd.first)
    OBVIOUS
  <1>3. RowOK(p) /\ p.sl = row.sl /\ p.stop = row.stop
    BY <1>1, <1>2, PendingRow DEF SameStop
  <1>4. RowOK(Shadowed(p)) /\ Shadowed(p).sl = row.sl /\ Shadowed(p).stop = row.stop
    BY <1>3, ShadowedRow
  <1>5. PICK f : f = AlcFailed(p)
    OBVIOUS
  <1>6. RowOK(f) /\ f.sl = row.sl /\ f.stop = row.stop
    BY <1>1, <1>3, <1>5, AlcFailedRow DEF SameStop
  <1>7. ASSUME NEW n \in 0 .. 2
        PROVE  LET r == [f EXCEPT !.alc.submitted = n, !.alc.pending = TRUE]
               IN RowOK(r) /\ r.sl = row.sl /\ r.stop = row.stop
    <2>1. PICK a : a = [f.alc EXCEPT !.submitted = n, !.pending = TRUE]
      OBVIOUS
    <2>2. a \in Alc
      BY <1>6, <2>1 DEF RowOK, Row, Alc
    <2>3. [f EXCEPT !.alc.submitted = n, !.alc.pending = TRUE] = [f EXCEPT !.alc = a]
      BY <1>6, <2>1 DEF RowOK, Row, Alc
    <2> QED BY <1>6, <2>2, <2>3, AlcRow DEF SameStop
  <1>8. PICK g : g = AlcFailed(row)
    OBVIOUS
  <1>9. RowOK(g) /\ g.sl = row.sl /\ g.stop = row.stop /\ g.end = row.end
    BY <1>1, <1>8, AlcFailedRow DEF SameStop
  <1>10. PICK h : h = [g EXCEPT !.alc.pending = FALSE]
    OBVIOUS
  <1>11. RowOK(h) /\ h.sl = row.sl /\ h.stop = row.stop /\ h.end = row.end
    BY <1>9, <1>10 DEF RowOK, Row, Alc
  <1>12. /\ RowOK(ClearPending(h)) /\ ClearPending(h).sl = row.sl
         /\ ClearPending(h).stop = row.stop /\ ClearPending(h).end = row.end
    BY <1>11, ClearedRow DEF SameStop
  <1> QED BY <1>2, <1>4, <1>5, <1>7, <1>8, <1>10, <1>12

LEMMA FailedSteps ==
    ASSUME IInv, FailedInRace \/ FailedSoftly \/ TrailFailsSoftly \/ FailedHard
    PROVE  IInv'
  <1>1. /\ cmd.pc = "failed" /\ UNCHANGED <<setup, market, queue, rec>>
        /\ NoFault \/ Fault("unread")
    BY DEF FailedInRace, FailedSoftly, TrailFailsSoftly, FailedHard, At, StatusReadAfterFailure,
           NoFault
  <1>2. /\ cmd \in Command /\ row.sl = Len(orders) /\ row.sl \in DOMAIN orders
        /\ row.sl # NoOrder /\ Live /\ Len(orders) < MaxOrders /\ ~At("capLink")
    BY <1>1, InCommand DEF At
  <1>3. faults' \in 0 .. setup.faults
    BY <1>1, FaultTypes DEF IInv, TrailFaults
  <1>4. BrokerInv' /\ Same /\ Grown /\ orders' = orders
    BY <1>1, <1>3, MarketStill DEF IInv
  <1>5. RowOK(row) /\ cmd.alc \in 0 .. 2 /\ mem.fails \in 0 .. 2 /\ MemoryOK(mem)
    BY <1>2 DEF IInv, RowInv, Command, HeardInv, MemoryOK, Memory
  <1>6. CASE FailedInRace
    <2>1. mem' = [mem EXCEPT !.fails = 0] /\ row' = row /\ cmd' = Idle
      BY <1>6 DEF FailedInRace
    <2>2. HeardInv'
      BY <1>1, <1>4, <2>1, FailsMemory, HeardKept DEF IInv
    <2> QED BY <1>1, <1>2, <1>3, <1>5, <2>1, <2>2, Rests
  <1>7. CASE TrailFailsSoftly
    <2>1. mem' = mem /\ row' = row /\ cmd' = Idle
      BY <1>7 DEF TrailFailsSoftly
    <2>2. HeardInv'
      BY <1>1, <1>4, <2>1, HeardStill DEF IInv
    <2> QED BY <1>1, <1>2, <1>3, <1>5, <2>1, <2>2, Rests
  <1>8. CASE FailedSoftly
    <2>1. PICK pending : pending = SetPending(row, cmd.first)
      OBVIOUS
    <2>2. /\ \/ row' = Shadowed(pending)
             \/ row' = [AlcFailed(pending) EXCEPT !.alc.submitted = cmd.alc, !.alc.pending = TRUE]
          /\ mem' = mem /\ cmd' = Idle
      BY <1>8, <2>1 DEF FailedSoftly
    <2>3. RowOK(row') /\ row'.sl = row.sl /\ row'.stop = row.stop
      <3>1. CASE row' = Shadowed(pending)
        BY <1>2, <2>1, <3>1, FailedRows
      <3>2. CASE row' = [AlcFailed(pending) EXCEPT !.alc.submitted = cmd.alc,
                                                   !.alc.pending = TRUE]
        <4>1. PICK r : r = [AlcFailed(pending) EXCEPT !.alc.submitted = cmd.alc,
                                                      !.alc.pending = TRUE]
          OBVIOUS
        <4>2. RowOK(r) /\ r.sl = row.sl /\ r.stop = row.stop
          BY <1>2, <1>5, <2>1, <4>1, FailedRows
        <4> QED BY <3>2, <4>1, <4>2
      <3> QED BY <2>2, <3>1, <3>2
    <2>4. HeardInv'
      BY <1>1, <1>4, <2>2, HeardStill DEF IInv
    <2> QED BY <1>1, <1>2, <1>3, <2>2, <2>3, <2>4, Rests
  <1>9. CASE FailedHard
    <2>1. PICK failed : failed = IF cmd.alc = 0 THEN row
                     ELSE ClearPending([AlcFailed(row) EXCEPT !.alc.pending = FALSE])
      OBVIOUS
    <2>2. RowOK(failed) /\ failed.sl = row.sl /\ failed.stop = row.stop /\ failed.end = row.end
      BY <1>2, <1>5, <2>1, FailedRows
    <2>3. /\ \/ row' = Shadowed(failed) /\ cmd' = Idle
             \/ row' = failed /\ GoesTo("cancel")
          /\ mem' = [mem EXCEPT !.fails = Min({@ + 1, 2})]
      BY <1>9, <2>1 DEF FailedHard
    <2>4. MemoryOK(mem') /\ mem'.known = mem.known /\ mem'.ended = mem.ended
      <3>1. PICK n : n = Min({mem.fails + 1, 2})
        OBVIOUS
      <3>2. n \in 0 .. 2
        BY <1>5, <3>1, MinPair
      <3> QED BY <2>3, <3>1, <3>2, FailsMemory
    <2>5. HeardInv'
      BY <1>1, <1>4, <2>4, HeardKept DEF IInv
    <2>6. CASE row' = Shadowed(failed) /\ cmd' = Idle
      BY <1>1, <1>2, <1>3, <2>2, <2>5, <2>6, ShadowedRow, Rests
    <2>7. CASE row' = failed /\ GoesTo("cancel")
      <3>1. cmd' \in Command /\ cmd'.pc = "cancel"
        BY <1>2, <2>7 DEF GoesTo, Command, Places
      <3>2. row'.end = row.end
        BY <2>2, <2>7
      <3>3. CmdInv'
        BY <1>2, <1>4, <3>1, <3>2, CmdGoes DEF Live
      <3>4. RowInv'
        BY <1>2, <1>4, <2>2, <2>7, <3>1, RowKept DEF IInv
      <3>5. SoleInv'
        BY <1>4, <3>1, SoleKept DEF IInv
      <3> QED BY <1>4, <2>5, <3>3, <3>4, <3>5 DEF IInv
    <2> QED BY <2>3, <2>6, <2>7
  <1> QED BY <1>6, <1>7, <1>8, <1>9

-----------------------------------------------------------------------------
(* The replacement of the stop.                                             *)

LEMMA ReplaceCancelsStep ==
    ASSUME IInv, ReplaceCancels
    PROVE  IInv'
  <1>1. /\ cmd.pc = "cancel" /\ UNCHANGED <<setup, queue, rec>>
        /\ mem' = [mem EXCEPT !.expected = @ \cup {row.sl}]
        /\ \/ /\ CancelGoesOn \/ CancelProcessing
              /\ row' = ClearPending([row EXCEPT !.sl = NoOrder, !.stop = cmd.first,
                                                 !.shadow = FALSE])
              /\ GoesTo("place")
           \/ /\ CancelRefused \/ CancelUnanswered
              /\ row' = Shadowed(row) /\ cmd' = Idle
    BY DEF ReplaceCancels, At
  <1>2. /\ cmd \in Command /\ row.sl = Len(orders) /\ row.sl \in DOMAIN orders
        /\ row.sl # NoOrder /\ Live /\ Len(orders) < MaxOrders /\ cmd.first \in Prices
        /\ row.sl \in OrderIds
    BY <1>1, InCommand, OrderTypes DEF At, Command, IInv
  <1>3. BrokerInv' /\ Same /\ Grown /\ Len(orders') = Len(orders)
    BY <1>1, <1>2, Cancels DEF Same
  <1>4. RowOK(row)
    BY DEF IInv, RowInv
  <1>5. MemoryOK(mem') /\ mem'.known = mem.known /\ mem'.ended = mem.ended
    <2>1. MemoryOK(mem) /\ mem \in Memory
      BY DEF IInv, HeardInv, MemoryOK
    <2>2. PICK m : m = [mem EXCEPT !.expected = @ \cup {row.sl}]
      OBVIOUS
    <2>3. m \in Memory /\ m.known = mem.known /\ m.ended = mem.ended /\ m.mods = mem.mods
      BY <1>2, <2>1, <2>2 DEF Memory
    <2> QED BY <1>1, <2>1, <2>2, <2>3 DEF MemoryOK
  <1>6. HeardInv'
    BY <1>1, <1>3, <1>5, HeardKept DEF IInv
  <1>7. CASE row' = Shadowed(row) /\ cmd' = Idle
    <2>1. RowOK(row') /\ row'.sl = row.sl /\ row'.stop = row.stop
      BY <1>4, <1>7, ShadowedRow
    <2> QED BY <1>2, <1>3, <1>6, <1>7, <2>1, SettlesSame DEF IInv, RowInv
  <1>8. CASE /\ CancelGoesOn \/ CancelProcessing
             /\ row' = ClearPending([row EXCEPT !.sl = NoOrder, !.stop = cmd.first,
                                                !.shadow = FALSE])
             /\ GoesTo("place")
    <2>1. PICK r : r = [row EXCEPT !.sl = NoOrder, !.stop = cmd.first, !.shadow = FALSE]
      OBVIOUS
    <2>2. RowOK(r) /\ r.sl = NoOrder /\ r.end = row.end
      <3>1. NoOrder \in 0 .. MaxOrders
        BY Bounds DEF NoOrder
      <3> QED BY <1>2, <1>4, <2>1, <3>1 DEF RowOK, Row
    <2>3. RowOK(row') /\ row'.sl = NoOrder /\ row'.end = row.end
      BY <1>8, <2>1, <2>2, ClearedRow DEF SameStop
    <2>4. cmd' \in Command /\ cmd'.pc = "place"
      BY <1>2, <1>8 DEF GoesTo, Command, Places
    <2>5. RowInv'
      BY <2>3, <2>4 DEF RowInv, At
    <2>6. CmdInv'
      BY <1>2, <1>3, <2>3, <2>4 DEF CmdInv, At, Live
    <2>7. SoleInv'
      <3>1. DOMAIN orders' = DOMAIN orders
        BY <1>3, GrownDomain, OrderTypes DEF IInv
      <3>2. ASSUME "processing" \notin setup.kinds, NEW id \in DOMAIN orders'
            PROVE  orders'[id].st # Pending
        <4>1. orders'[row.sl].st # Pending
          BY <1>1, <1>2, <1>8, <3>2, Cancels
        <4> QED BY <1>2, <1>3, <3>1, <3>2, <4>1 DEF IInv, SoleInv, Grown, Works
      <3> QED BY <1>1, <3>2 DEF SoleInv, Works
    <2> QED BY <1>3, <1>6, <2>5, <2>6, <2>7 DEF IInv
  <1> QED BY <1>1, <1>7, <1>8

LEMMA ReplacePlacesStep ==
    ASSUME IInv, ReplacePlaces
    PROVE  IInv'
  <1>1. /\ cmd.pc = "place" /\ cmd' = Idle /\ UNCHANGED <<setup, queue, rec>>
        /\ NoFault \/ Fault("refused")
        /\ \/ /\ Placed(row.stop) /\ row' = [row EXCEPT !.sl = Len(orders) + 1]
              /\ mem' = [mem EXCEPT !.fails = 0]
           \/ /\ \E x \in Ends \ {"none"} : row' = [row EXCEPT !.end = x]
              /\ UNCHANGED <<market, mem>>
    BY DEF ReplacePlaces, Panics, At, Ends
  <1>2. /\ cmd \in Command /\ row.sl = NoOrder /\ Live /\ Len(orders) < MaxOrders
        /\ RowOK(row) /\ row.stop \in Prices
    BY <1>1, InCommand DEF At, IInv, CmdInv, RowInv, RowOK, Row
  <1>3. faults' \in 0 .. setup.faults
    BY <1>1, FaultTypes DEF IInv, TrailFaults
  <1>4. CmdInv' /\ cmd'.pc = "idle"
    BY <1>1, CmdIdle DEF Idle
  <1>5. CASE /\ Placed(row.stop) /\ row' = [row EXCEPT !.sl = Len(orders) + 1]
             /\ mem' = [mem EXCEPT !.fails = 0]
    <2>1. /\ BrokerInv' /\ Grown /\ Len(orders') = Len(orders) + 1
          /\ orders'[Len(orders')].trig = row.stop
      BY <1>1, <1>2, <1>3, <1>5, PlacedStep DEF IInv
    <2>2. HeardInv'
      BY <1>1, <1>5, <2>1, FailsMemory, HeardKept DEF IInv
    <2>3. Len(orders) + 1 \in 0 .. MaxOrders /\ Len(orders) \in Nat /\ Len(orders) + 1 # 0
      BY <1>2, OrderTypes, Bounds DEF IInv
    <2>4. RowOK(row') /\ row'.sl = Len(orders') /\ row'.stop = row.stop
      <3>1. PICK id : id = Len(orders) + 1
        OBVIOUS
      <3>2. PICK r : r = [row EXCEPT !.sl = id]
        OBVIOUS
      <3> QED BY <1>2, <1>5, <2>1, <2>3, <3>1, <3>2, OrderRow
    <2>5. RowInv'
      BY <1>2, <1>4, <2>1, <2>3, <2>4, PriceInt DEF RowInv, At, NoOrder
    <2>6. SoleInv'
      <3>1. /\ DOMAIN orders' = 1 .. Len(orders) + 1 /\ DOMAIN orders = 1 .. Len(orders)
        BY <2>1, GrownDomain, OrderTypes DEF IInv
      <3>2. ASSUME "processing" \notin setup.kinds, NEW id \in DOMAIN orders,
                   orders'[id].st = Pending
            PROVE  FALSE
        BY <1>1, <2>1, <3>2 DEF IInv, SoleInv, Grown, Works, At
      <3>3. \A id \in DOMAIN orders' : id = Len(orders') \/ id \in DOMAIN orders
        BY <2>1, <2>3, <3>1
      <3> QED BY <1>1, <1>4, <3>2, <3>3 DEF SoleInv, Works, At
    <2> QED BY <1>4, <2>1, <2>2, <2>5, <2>6 DEF IInv
  <1>6. CASE /\ \E x \in Ends \ {"none"} : row' = [row EXCEPT !.end = x]
             /\ UNCHANGED <<market, mem>>
    <2>1. BrokerInv' /\ Grown /\ orders' = orders
      BY <1>1, <1>3, <1>6, MarketStill DEF IInv
    <2>2. HeardInv'
      BY <1>1, <1>6, <2>1, HeardStill DEF IInv
    <2>3. PICK x \in Ends \ {"none"} : row' = [row EXCEPT !.end = x]
      BY <1>6
    <2>4. RowOK(row') /\ row'.sl = NoOrder /\ row'.end # "none"
      <3>1. PICK r : r = [row EXCEPT !.end = x]
        OBVIOUS
      <3> QED BY <1>2, <2>3, <3>1, EndRow
    <2>5. RowInv'
      BY <1>4, <2>4 DEF RowInv, At, Live
    <2>6. SoleInv'
      BY <1>4, <2>1, SoleKept DEF IInv
    <2> QED BY <1>4, <2>1, <2>2, <2>5, <2>6 DEF IInv
  <1> QED BY <1>1, <1>5, <1>6

-----------------------------------------------------------------------------
LEMMA InitIInv == Init => IInv
  <1> SUFFICES ASSUME Init PROVE IInv
    OBVIOUS
  <1>1. /\ INITIAL_STOP \in Prices /\ ENTRY \in Prices /\ 1 \in OrderIds
        /\ 0 \in 0 .. MaxPrice /\ INITIAL_STOP \in Int
    BY TrailingAssumption, Bounds, PriceInt DEF OrderIds
  <1>2. PICK o : o = [st |-> Pending, trig |-> INITIAL_STOP, dying |-> FALSE]
    OBVIOUS
  <1>3. o \in OrderType /\ o.trig = INITIAL_STOP
    BY <1>1, <1>2 DEF OrderType
  <1>4. orders = <<o>> /\ news = {} /\ queue = <<>> /\ cmd = Idle /\ eased = FALSE /\ ltp = ENTRY
        /\ setup \in TrailSetups /\ faults = setup.faults
    BY <1>2 DEF Init
  <1>5. orders \in Seq(OrderType) /\ Len(orders) = 1 /\ DOMAIN orders = {1} /\ orders[1] = o
    BY <1>3, <1>4
  <1>6. setup.faults \in Nat
    BY <1>4, TrailingAssumption DEF TrailSetup
  <1>7. BrokerInv
    <2>1. faults \in 0 .. setup.faults /\ eased \in BOOLEAN /\ Len(orders) \in 1 .. MaxOrders
      <3>1. \A f \in Nat : f \in 0 .. f
        OBVIOUS
      <3>2. faults = setup.faults /\ setup.faults \in Nat
        BY <1>4, <1>6
      <3>3. setup.faults \in 0 .. setup.faults
        BY <3>1, <3>2
      <3>4. Len(orders) \in 1 .. MaxOrders
        BY <1>5, Bounds
      <3> QED BY <1>4, <3>2, <3>3, <3>4
    <2>2. \A a, b \in DOMAIN orders : orders[a].trig <= orders[b].trig
      BY <1>1, <1>3, <1>5
    <2>3. news \subseteq PostType /\ \A n \in news : FALSE
      BY <1>4
    <2> QED BY <1>1, <1>4, <1>5, <2>1, <2>2, <2>3 DEF BrokerInv
  <1>8. PICK k : k = [st |-> Pending, trig |-> INITIAL_STOP]
    OBVIOUS
  <1>9. PICK known : known = [id \in OrderIds |-> IF id = 1 THEN k ELSE Unknown]
    OBVIOUS
  <1>10. PICK mods : mods = [id \in OrderIds |-> 0]
    OBVIOUS
  <1>11. mem = [known |-> known, ended |-> {}, mods |-> mods, expected |-> {}, fails |-> 0]
    BY <1>8, <1>9, <1>10 DEF Init
  <1>12. k \in Known /\ k.st # "none" /\ k.trig = INITIAL_STOP /\ k.trig # 0
    BY <1>1, <1>8, StatusIn, PriceInt DEF Known
  <1>13. Unknown \in Known /\ Unknown.trig = 0 /\ Unknown.st = "none"
    BY <1>1 DEF Unknown, Known, Statuses
  <1>14. /\ known \in [OrderIds -> Known]
         /\ \A id \in OrderIds : known[id] = IF id = 1 THEN k ELSE Unknown
    BY <1>9, <1>12, <1>13
  <1>15. mods \in [OrderIds -> Nat] /\ \A id \in OrderIds : mods[id] = 0
    BY <1>10
  <1>16. mem \in Memory /\ mem.known = known /\ mem.mods = mods /\ mem.ended = {}
    BY <1>11, <1>14, <1>15 DEF Memory
  <1>17. MemoryOK(mem)
    BY <1>12, <1>13, <1>14, <1>15, <1>16, Bounds DEF MemoryOK
  <1>18. HeardInv
    <2>1. queue \in Seq(PostType) /\ DOMAIN queue = {}
      BY <1>4
    <2> QED BY <1>1, <1>3, <1>5, <1>12, <1>13, <1>14, <1>16, <1>17, <2>1 DEF HeardInv
  <1>19. PICK alc : alc = NoAlc
    OBVIOUS
  <1>20. alc \in Alc
    BY <1>1, <1>19 DEF NoAlc, Alc
  <1>21. row = [sl |-> 1, stop |-> INITIAL_STOP, peak |-> ENTRY, tier |-> 0, floor |-> 0,
                shown |-> INITIAL_STOP, final |-> 0, pend |-> FALSE, target |-> 0,
                shadow |-> FALSE, alc |-> alc, end |-> "none"]
    BY <1>19 DEF Init
  <1>22. RowOK(row) /\ row.sl = 1 /\ row.stop = INITIAL_STOP
    <2>1. 1 \in 0 .. MaxOrders
      BY Bounds
    <2> QED BY <1>1, <1>20, <1>21, <2>1 DEF RowOK, Row, Ends
  <1>23. cmd.pc = "idle"
    BY <1>4 DEF Idle
  <1>24. RowInv
    BY <1>1, <1>3, <1>5, <1>22, <1>23 DEF RowInv, At, NoOrder
  <1>25. CmdInv
    BY <1>4, <1>23 DEF CmdInv, At
  <1>26. SoleInv
    BY <1>5, <1>23 DEF SoleInv, At
  <1> QED BY <1>7, <1>18, <1>24, <1>25, <1>26 DEF IInv

LEMMA NextIInv == IInv /\ [Next]_vars => IInv'
  <1> SUFFICES ASSUME IInv, [Next]_vars PROVE IInv'
    OBVIOUS
  <1>1. CASE Engine
    BY <1>1, SkipStep, AttemptStep, RetryStep, CapHitStep, CapCancelStep, CapPlaceStep,
       CapLinkStep, DoneStep, FailedSteps, ReplaceCancelsStep, ReplacePlacesStep DEF Engine
  <1>2. CASE Broker \/ Hear \/ ReconcileReads
    BY <1>2, WorldSteps
  <1>3. CASE ExitLoop
    BY <1>3, LoopSteps
  <1>4. CASE HandleUpdate
    BY <1>4, UpdateStep
  <1>5. CASE ReconcileTrade
    BY <1>5, ReconcileStep
  <1>6. CASE UNCHANGED vars
    <2>1. UNCHANGED <<setup, faults, market, queue, mem, row, cmd>>
      BY <1>6 DEF vars
    <2>2. faults' \in 0 .. setup.faults
      BY <2>1 DEF IInv, BrokerInv
    <2>3. BrokerInv' /\ Same /\ Grown
      BY <2>1, <2>2, MarketStill DEF IInv
    <2> QED BY <2>1, <2>3, HeardStill, WorldStep DEF IInv
  <1> QED BY <1>1, <1>2, <1>3, <1>4, <1>5, <1>6 DEF Next

LEMMA Invariance == Spec => []IInv
  BY InitIInv, NextIInv, PTL DEF Spec

(* Types: for any prices, ladder, limits and circumstances what             *)
(* tradeManager.js keeps of the stop has its types, and the row names an    *)
(* order of the broker but in the middle of _replaceDynamicSlOrder.         *)
THEOREM TrailTypeCorrect == Spec => []TypeOK
  <1>1. IInv => TypeOK
    <2> SUFFICES ASSUME IInv PROVE TypeOK
      OBVIOUS
    <2>1. /\ setup \in TrailSetups /\ faults \in 0 .. setup.faults /\ ltp \in Prices
          /\ orders \in Seq(OrderType) /\ Len(orders) <= MaxOrders /\ news \subseteq PostType
          /\ queue \in Seq(PostType)
      BY Bounds DEF IInv, BrokerInv, HeardInv
    <2>2. MemoryOK(mem) /\ mem \in Memory /\ RowOK(row)
      BY DEF IInv, HeardInv, RowInv, MemoryOK
    <2>3. mem.ended \cup mem.expected \subseteq OrderIds
      BY <2>2 DEF Memory
    <2>4. ASSUME NEW id \in OrderIds
          PROVE  /\ \/ mem.known[id] = Unknown
                    \/ mem.known[id] \in [st : {Pending, "OPEN"} \cup Ended, trig : Prices]
                 /\ mem.mods[id] <= KITE_MAX_MODIFICATIONS_PER_ORDER + 1
      <3>1. /\ mem.known[id] \in Known /\ mem.mods[id] <= KITE_MAX_MODIFICATIONS_PER_ORDER + 1
            /\ mem.known[id].st = "none" <=> mem.known[id].trig = 0
        BY <2>2 DEF MemoryOK, Memory
      <3>2. PICK s, t : mem.known[id] = [st |-> s, trig |-> t] /\ s \in Statuses /\ t \in 0 .. MaxPrice
        BY <3>1 DEF Known
      <3>3. s = "none" <=> t = 0
        BY <3>1, <3>2
      <3>4. CASE s = "none"
        BY <3>1, <3>2, <3>3, <3>4 DEF Unknown
      <3>5. CASE s # "none"
        <4>1. s \in {Pending, "OPEN"} \cup Ended
          BY <3>2, <3>5 DEF Statuses
        <4>2. t \in Prices
          BY <3>2, <3>3, <3>5, Bounds DEF Prices
        <4> QED BY <3>1, <3>2, <4>1, <4>2
      <3> QED BY <3>4, <3>5
    <2>5. row.sl \in DOMAIN orders \/ (row.sl = NoOrder /\ (At("place") \/ ~Live))
      <3>1. row.sl \in {Len(orders) - 1, NoOrder, Len(orders)}
        BY DEF IInv, RowInv
      <3>2. Len(orders) \in Nat /\ Len(orders) >= 1 /\ DOMAIN orders = 1 .. Len(orders)
        BY OrderTypes DEF IInv
      <3>3. row.sl = NoOrder => At("place") \/ ~Live
        BY DEF IInv, RowInv
      <3> QED BY <3>1, <3>2, <3>3 DEF NoOrder
    <2>6. row.stop \in Prices /\ row.peak \in Prices /\ (row.pend => row.target \in Prices)
      BY <2>2 DEF RowOK, Row
    <2> QED BY <2>1, <2>3, <2>4, <2>5, <2>6 DEF TypeOK
  <1> QED BY <1>1, Invariance, PTL

(* Whatever modifications were refused, unanswered, skipped for what the    *)
(* order memory says, or reported late, the stop that the row shows is not  *)
(* tighter than the stop that works, unless the broker's stop was lowered.  *)
THEOREM RowNeverPromisesMore == Spec => []RowPromisesNoMore
  <1>1. IInv => RowPromisesNoMore
    BY DEF IInv, RowInv, RowPromisesNoMore, StopWorks
  <1> QED BY <1>1, Invariance, PTL

(* No modification at the cap, no replacement after failures and no answer  *)
(* that was lost leaves two stops that work, unless the broker takes a      *)
(* cancellation and carries it out later.                                   *)
THEOREM OneStopAtMost == Spec => []OneStopWorks
  <1>1. IInv => OneStopWorks
    <2> SUFFICES ASSUME IInv, "processing" \notin setup.kinds
                 PROVE  Cardinality({id \in DOMAIN orders : Works(id)}) <= 1
      BY DEF OneStopWorks
    <2>1. {id \in DOMAIN orders : Works(id)} \subseteq {Len(orders)}
      BY DEF IInv, SoleInv
    <2>2. IsFiniteSet({Len(orders)}) /\ Cardinality({Len(orders)}) = 1
      BY FS_Singleton
    <2>3. /\ IsFiniteSet({id \in DOMAIN orders : Works(id)})
          /\ Cardinality({id \in DOMAIN orders : Works(id)}) <= Cardinality({Len(orders)})
      BY <2>1, <2>2, FS_Subset
    <2> QED BY <2>2, <2>3
  <1> QED BY <1>1, Invariance, PTL
=====
