-------------------------- MODULE OrderUpdatesProofs --------------------------
(***************************************************************************)
(* Theorems about OrderUpdates, for any updates, history of the order and  *)
(* circumstances: the types, that the profit of a close is booked once,    *)
(* and which updates of an order of ours may be lost.                      *)
(***************************************************************************)
EXTENDS OrderUpdates, SequenceTheorems, TLAPS

(* A call that is in progress has an update.                                *)
Busy(s) == call[s].pc # "idle"
TypeInv ==
    /\ TypeOK
    /\ \A s \in Sources : Busy(s) => call[s].u \in Updates

-----------------------------------------------------------------------------
(* An order that a handler of the queue placed: nothing is delivered before *)
(* its link, so no update is stored, and none is taken for a square-off.    *)
Committed == {"closing", "reading", "booking"}
Queued == setup.ours /\ ~setup.byTimer

(* A panic exit whose updates are stamped after the close is not fenced.    *)
Fenced == setup.ahead => setup.leg = "SL"

(* Who is to close the trade has its turn until the profit is booked.       *)
QueuedCall(s) ==
    /\ call[s].pc \in {"idle", "finding", "logging", "relinking", "waiting"} \cup Committed
    /\ call[s].pc \notin {"idle", "finding"} => call[s].role = setup.leg
    /\ call[s].held <=> call[s].pc \in Committed
    /\ Fenced =>
          /\ call[s].pc = "closing" => trade = "LIVE"
          /\ call[s].pc = "reading" => trade = "CLOSED" /\ realized = 0
          /\ call[s].pc = "booking" => trade = "CLOSED" /\ realized = 0 /\ call[s].read = 0

PlacedFirst ==
    /\ placer \in {"idle", "placed", "linked", "done"}
    /\ placer = "idle" => emitted = 0
    /\ placer # "done" => \A s \in Sources : ~Busy(s)
    /\ ~Busy("replay")
    /\ orphans = <<>>
    /\ replays = <<>>
    /\ link = IF placer \in {"idle", "placed"} THEN "none" ELSE setup.leg

QueuedInv ==
    Queued =>
        /\ PlacedFirst
        /\ \A s \in Sources : QueuedCall(s)
        /\ \A s, r \in Sources : call[s].held /\ call[r].held => s = r
        /\ Fenced => (trade = "LIVE" => realized = 0) /\ realized <= 1

(* Without failing calls an update of an order of ours is looked up by a    *)
(* call, or is kept: applied, stored, to be replayed, or in a call that is  *)
(* past the lookup.  What the memory of orphans holds before the link is    *)
(* there is kept, so that a copy of it may be dropped.                      *)
Early == placer \in {"idle", "placed", "linked"}
PastLookup == {"matching", "squaring", "storing", "logging", "relinking", "waiting"}
Kept(u) ==
    \/ u \in handled \cup missed
    \/ Early /\ Holds(orphans, u)
    \/ Holds(replays, u)
    \/ \E s \in Sources : call[s].pc \in PastLookup /\ call[s].u = u
LookedUp(u) == \E s \in Sources : call[s].pc = "finding" /\ call[s].u = u
Answered == setup.ours /\ ~setup.fails

HandledInv ==
    /\ Answered =>
          /\ \A u \in Updates : delivered[u] > 0 => Kept(u) \/ LookedUp(u)
          /\ \A u \in Updates : link = "none" /\ Holds(orphanSeen, u) => Kept(u)
          /\ placer = "idle" => emitted = 0 /\ \A u \in Updates : delivered[u] = 0
          /\ replays # <<>> => placer \in {"popped", "replaying"}
          /\ link = "none" => placer \in {"idle", "placed"}
          /\ \A s \in Sources : call[s].pc \in {"logging", "relinking"} => call[s].role # "none"
    /\ Queued => missed = {}

-----------------------------------------------------------------------------
(* An order that a timer placed, of which each update is delivered once.    *)
(* Its fill is in one place: a call, the orphans that are still to be       *)
(* popped, or the payloads that are still to be replayed.                   *)
Once == setup.byTimer /\ ~setup.watched /\ setup.deliveries = 1
IsFill(u) == StatusOf[u] = "COMPLETE"
HasFill(updates) == \E i \in 1 .. Len(updates) : IsFill(updates[i])
OneFill(updates) ==
    \A i, j \in 1 .. Len(updates) : IsFill(updates[i]) /\ IsFill(updates[j]) => i = j
CallCarries(s) == Busy(s) /\ IsFill(call[s].u)
OrphansCarry == placer \in {"idle", "placed", "linked"} /\ HasFill(orphans)
Travels == OrphansCarry \/ HasFill(replays) \/ \E s \in Sources : CallCarries(s)

InOnePlace ==
    /\ placer \in {"idle", "placed", "linked"} => OneFill(orphans)
    /\ OneFill(replays)
    /\ \A s \in Sources : CallCarries(s) => ~OrphansCarry /\ ~HasFill(replays)
    /\ \A s, r \in Sources : CallCarries(s) /\ CallCarries(r) => s = r

OnceInv ==
    Once =>
        /\ ~Busy("watch")
        /\ Busy("replay") => placer = "replaying"
        /\ replays # <<>> => placer \in {"popped", "replaying"}
        /\ \A s \in Sources :
              /\ call[s].pc \in {"matching", "squaring"} \cup Committed => IsFill(call[s].u)
              /\ call[s].pc = "booking" => call[s].read = 0
        /\ InOnePlace
        /\ Travels => realized = 0
        /\ Travels \/ realized > 0 => \E u \in Updates : IsFill(u) /\ delivered[u] > 0
        /\ realized <= 1

-----------------------------------------------------------------------------
(* Type correctness.                                                        *)

CallRecord == [pc : CallPhases, u : Updates \cup {NoUpdate}, role : Roles,
               held : BOOLEAN, read : Nat]

(* What is remembered: updates, and no more than the limit.                 *)
LEMMA RememberedType ==
    ASSUME NEW signatures \in Seq(Updates), Len(signatures) <= CacheLimit,
           NEW u \in Updates
    PROVE  /\ rememberOrderUpdateSignature(signatures, u) \in Seq(Updates)
           /\ Len(rememberOrderUpdateSignature(signatures, u)) <= CacheLimit
  <1> DEFINE next == Append(signatures, u)
             m == 1 + Len(next) - IF Len(next) > CacheLimit THEN CacheLimit ELSE Len(next)
  <1>1. next \in Seq(Updates) /\ Len(next) = Len(signatures) + 1
    BY AppendProperties
  <1>2. m \in 1 .. Len(next) /\ Len(next) - m + 1 <= CacheLimit
    <2>1. PICK n \in Nat : n = Len(next) /\ n > 0
      BY <1>1
    <2>2. CacheLimit \in Nat /\ CacheLimit > 0
      BY OrderAssumption
    <2> HIDE DEF next
    <2>3. CASE n > CacheLimit
      BY <2>1, <2>2, <2>3
    <2>4. CASE ~(n > CacheLimit)
      BY <2>1, <2>2, <2>4
    <2> QED BY <2>3, <2>4
  <1>3. \A i \in m .. Len(next) : next[i] \in Updates
    <2>1. \A i \in 1 .. Len(next) : next[i] \in Updates
      BY <1>1, ElementOfSeq
    <2>2. m \in Int /\ m >= 1
      BY <1>2
    <2> HIDE DEF next, m
    <2> QED BY <2>1, <2>2
  <1> HIDE DEF next, m
  <1>4. /\ SubSeq(next, m, Len(next)) \in Seq(Updates)
        /\ Len(SubSeq(next, m, Len(next))) = IF m <= Len(next) THEN Len(next) - m + 1 ELSE 0
    BY <1>1, <1>2, <1>3, SubSeqProperties
  <1>5. Len(SubSeq(next, m, Len(next))) <= CacheLimit
    BY <1>1, <1>2, <1>4
  <1>6. rememberOrderUpdateSignature(signatures, u)
          = IF Holds(signatures, u) THEN signatures ELSE SubSeq(next, m, Len(next))
    BY DEF rememberOrderUpdateSignature, next, m
  <1> QED BY <1>4, <1>5, <1>6

LEMMA ReceiveType ==
    ASSUME TypeInv, NEW s \in Sources, NEW u \in Updates, Receive(s, u)
    PROVE  /\ call' \in [Sources -> CallRecord]
           /\ \A r \in Sources : Busy(r)' => call'[r].u \in Updates
           /\ last' \in OrderStatuses \cup {"none"}
           /\ handled' \subseteq Updates
           /\ missed' = missed
  <1>1. call \in [Sources -> CallRecord] /\ handled \subseteq Updates
        /\ last \in OrderStatuses \cup {"none"}
    BY DEF TypeInv, TypeOK, CallRecord
  <1>2. \A r \in Sources : Busy(r) => call[r].u \in Updates
    BY DEF TypeInv
  <1>3. StatusOf[u] \in OrderStatuses
    BY OrderAssumption
  <1>4. [Idle EXCEPT !.pc = "finding", !.u = u] \in CallRecord
    BY DEF Idle, CallRecord, CallPhases, Roles
  <1>5. [Idle EXCEPT !.pc = "finding", !.u = u].u = u
    BY DEF Idle
  <1>6. CASE call' = call
    BY <1>1, <1>2, <1>3, <1>6 DEF Receive, Busy
  <1>7. CASE call' = [call EXCEPT ![s] = [Idle EXCEPT !.pc = "finding", !.u = u]]
    BY <1>1, <1>2, <1>3, <1>4, <1>5, <1>7 DEF Receive, Busy
  <1> QED BY <1>6, <1>7 DEF Receive

LEMMA SetupStays == [Next]_vars => setup' = setup
  BY DEF Next, Emit, Deliver, Poll, PlaceOrder, PlacerStep, linkOrder, FindOrphans,
         DeleteOrphans, PopFails, _replayOrphanUpdates, CallStep, FindLink,
         _matchUnlinkedBrokerExit, LinkSquareoff, saveOrphanOrderUpdate, appendOrderLog,
         Relink, Apply, CloseTrade, ReadRealized, BookRealized, CallFails, vars

(* What a step of a call does to the calls.                                 *)
LEMMA CallStepType ==
    ASSUME TypeInv, NEW s \in Sources, CallStep(s)
    PROVE  /\ Busy(s)
           /\ call' \in [Sources -> CallRecord]
           /\ \A r \in Sources \ {s} : call'[r] = call[r]
           /\ call'[s].u = call[s].u \/ call'[s] = Idle
  <1>1. call \in [Sources -> CallRecord]
    BY DEF TypeInv, TypeOK, CallRecord
  <1>2. link \in Roles /\ realized \in Nat
    BY DEF TypeInv, TypeOK
  <1>3. Idle \in CallRecord
    BY DEF Idle, CallRecord, CallPhases, Roles
  <1>4. CASE Returns(s) /\ Busy(s)
    BY <1>1, <1>3, <1>4 DEF Returns
  <1>5. ASSUME NEW p \in CallPhases, Goes(s, p), Busy(s)
        PROVE  /\ call' \in [Sources -> CallRecord]
               /\ \A r \in Sources \ {s} : call'[r] = call[r]
               /\ call'[s].u = call[s].u
    BY <1>1, <1>5 DEF Goes, CallRecord
  <1>6. CASE FindLink(s)
    <2>1. CASE call' = [call EXCEPT ![s].pc = "logging", ![s].role = link]
      BY <1>1, <1>2, <1>6, <2>1 DEF FindLink, Busy, CallRecord, CallPhases
    <2>2. CASE \E p \in CallPhases : Goes(s, p)
      BY <1>5, <1>6, <2>2 DEF FindLink, Busy
    <2>3. CASE Returns(s)
      BY <1>4, <1>6, <2>3 DEF FindLink, Busy
    <2>4. "matching" \in CallPhases /\ "storing" \in CallPhases
      BY DEF CallPhases
    <2> QED BY <1>6, <2>1, <2>2, <2>3, <2>4 DEF FindLink
  <1>7. CASE \E matches \in BOOLEAN : _matchUnlinkedBrokerExit(s, matches)
    BY <1>5, <1>7 DEF _matchUnlinkedBrokerExit, Busy, CallPhases
  <1>8. CASE LinkSquareoff(s)
    BY <1>5, <1>8 DEF LinkSquareoff, Busy, CallPhases
  <1>9. CASE saveOrphanOrderUpdate(s)
    BY <1>4, <1>9 DEF saveOrphanOrderUpdate, Busy
  <1>10. CASE appendOrderLog(s)
    BY <1>5, <1>10 DEF appendOrderLog, Busy, CallPhases
  <1>11. CASE Relink(s)
    BY <1>5, <1>11 DEF Relink, Busy, CallPhases
  <1>12. CASE Apply(s)
    BY <1>1, <1>4, <1>12 DEF Apply, Busy, CallRecord, CallPhases
  <1>13. CASE CloseTrade(s)
    BY <1>5, <1>13 DEF CloseTrade, Busy, CallPhases
  <1>14. CASE ReadRealized(s)
    BY <1>1, <1>2, <1>14 DEF ReadRealized, Busy, CallRecord, CallPhases
  <1>15. CASE BookRealized(s)
    BY <1>4, <1>15 DEF BookRealized, Busy
  <1>16. CASE CallFails(s)
    BY <1>4, <1>5, <1>16 DEF CallFails, Busy, CallPhases
  <1> QED BY <1>6, <1>7, <1>8, <1>9, <1>10, <1>11, <1>12, <1>13, <1>14, <1>15, <1>16 DEF CallStep

LEMMA CallStepTypeInv ==
    ASSUME TypeInv, NEW s \in Sources, CallStep(s)
    PROVE  TypeInv'
  <1>1. /\ Busy(s) /\ call' \in [Sources -> CallRecord]
        /\ \A r \in Sources \ {s} : call'[r] = call[r]
        /\ call'[s].u = call[s].u \/ call'[s] = Idle
    BY CallStepType
  <1>2. \A r \in Sources : Busy(r)' => call'[r].u \in Updates
    BY <1>1 DEF TypeInv, Busy, Idle
  <1>3. call[s].u \in Updates /\ call[s] \in CallRecord
    BY <1>1 DEF TypeInv, TypeOK, CallRecord
  <1>4. UNCHANGED <<setup, emitted, delivered, placer, replays, last>>
    BY DEF CallStep, FindLink, _matchUnlinkedBrokerExit, LinkSquareoff,
           saveOrphanOrderUpdate, appendOrderLog, Relink, Apply, CloseTrade, ReadRealized,
           BookRealized, CallFails, orderVars
  <1>5. handled' \subseteq Updates /\ missed' \subseteq Updates
    BY <1>3 DEF TypeInv, TypeOK, CallStep, FindLink, _matchUnlinkedBrokerExit,
           LinkSquareoff, saveOrphanOrderUpdate, appendOrderLog, Relink, Apply, CloseTrade,
           ReadRealized, BookRealized, CallFails, orderVars
  <1>6. link' \in Roles
    BY <1>3 DEF TypeInv, TypeOK, CallRecord, Roles, CallStep, FindLink,
           _matchUnlinkedBrokerExit, LinkSquareoff, saveOrphanOrderUpdate, appendOrderLog,
           Relink, Apply, CloseTrade, ReadRealized, BookRealized, CallFails, orderVars
  <1>7. orphans' \in Seq(Updates)
    <2>1. Append(orphans, call[s].u) \in Seq(Updates)
      BY <1>3, AppendProperties DEF TypeInv, TypeOK
    <2> QED BY <2>1 DEF TypeInv, TypeOK, CallStep, FindLink,
           _matchUnlinkedBrokerExit, LinkSquareoff, saveOrphanOrderUpdate, appendOrderLog,
           Relink, Apply, CloseTrade, ReadRealized, BookRealized, CallFails, orderVars
  <1>8. /\ processed' \in Seq(Updates) /\ Len(processed') <= CacheLimit
        /\ orphanSeen' \in Seq(Updates) /\ Len(orphanSeen') <= CacheLimit
    <2>1. /\ processed \in Seq(Updates) /\ Len(processed) <= CacheLimit
          /\ orphanSeen \in Seq(Updates) /\ Len(orphanSeen) <= CacheLimit
      BY DEF TypeInv, TypeOK
    <2>2. CASE FindLink(s)
      <3>1. processed' = rememberOrderUpdateSignature(processed, call[s].u)
            \/ processed' = processed
        BY <2>2 DEF FindLink
      <3>2. orphanSeen' = rememberOrderUpdateSignature(orphanSeen, call[s].u)
            \/ orphanSeen' = orphanSeen \/ orphanSeen' = <<>>
        BY <2>2 DEF FindLink
      <3>3. <<>> \in Seq(Updates) /\ Len(<<>>) <= CacheLimit
        BY OrderAssumption
      <3> QED BY <1>3, <2>1, <3>1, <3>2, <3>3, RememberedType
    <2>3. CASE UNCHANGED <<processed, orphanSeen>>
      BY <2>1, <2>3
    <2> QED BY <2>2, <2>3 DEF CallStep, _matchUnlinkedBrokerExit, LinkSquareoff,
           saveOrphanOrderUpdate, appendOrderLog, Relink, Apply, CloseTrade,
           ReadRealized, BookRealized, CallFails, orderVars
  <1>9. trade' \in {"LIVE", "CLOSED"}
    BY DEF TypeInv, TypeOK, CallStep, FindLink, _matchUnlinkedBrokerExit,
           LinkSquareoff, saveOrphanOrderUpdate, appendOrderLog, Relink, Apply, CloseTrade,
           ReadRealized, BookRealized, CallFails, orderVars
  <1>10. realized' \in Nat
    <2>1. call[s].read \in Nat /\ realized \in Nat
      BY <1>3 DEF TypeInv, TypeOK, CallRecord
    <2>2. realized' = realized \/ realized' = call[s].read + 1
      BY DEF CallStep, FindLink, _matchUnlinkedBrokerExit, LinkSquareoff,
             saveOrphanOrderUpdate, appendOrderLog, Relink, Apply, CloseTrade,
             ReadRealized, BookRealized, CallFails
    <2> QED BY <2>1, <2>2
  <1> QED BY <1>1, <1>2, <1>4, <1>5, <1>6, <1>7, <1>8, <1>9, <1>10
          DEF TypeInv, TypeOK, CallRecord

LEMMA InitTypeInv == Init => TypeInv
  <1>1. <<>> \in Seq(Updates) /\ Len(<<>>) = 0 /\ Len(History) \in Nat
    BY OrderAssumption
  <1> SUFFICES ASSUME Init PROVE TypeInv
    OBVIOUS
  <1>2. setup.deliveries \in Nat
    BY OrderAssumption DEF Init, Setup
  <1>3. Idle \in CallRecord /\ Idle.pc = "idle"
    BY DEF Idle, CallRecord, CallPhases, Roles
  <1> QED BY <1>1, <1>2, <1>3, OrderAssumption
          DEF Init, TypeInv, TypeOK, Busy, PlacerPhases, Roles, CallRecord

LEMMA NextTypeInv == TypeInv /\ [Next]_vars => TypeInv'
  <1> SUFFICES ASSUME TypeInv, [Next]_vars PROVE TypeInv'
    OBVIOUS
  <1>1. setup.deliveries \in Nat /\ Len(History) \in Nat
    BY OrderAssumption DEF TypeInv, TypeOK, Setup
  <1>2. CASE Emit
    BY <1>1, <1>2 DEF TypeInv, TypeOK, Busy, Emit, orderVars
  <1>3. ASSUME NEW u \in Updates, Deliver(u) PROVE TypeInv'
    <2>1. delivered' \in [Updates -> 0 .. setup.deliveries]
      BY <1>1, <1>3 DEF TypeInv, TypeOK, Deliver
    <2>2. "pipeline" \in Sources /\ Receive("pipeline", u)
      BY <1>3 DEF Deliver, Sources
    <2> QED BY <1>3, <2>1, <2>2, ReceiveType
            DEF TypeInv, TypeOK, CallRecord, Deliver, Receive
  <1>4. CASE Poll
    <2>1. History[emitted] \in Updates
      BY <1>1, <1>4, OrderAssumption DEF TypeInv, TypeOK, Poll
    <2>2. "watch" \in Sources /\ Receive("watch", History[emitted])
      BY <1>4 DEF Poll, Sources
    <2> QED BY <1>4, <2>1, <2>2, ReceiveType
            DEF TypeInv, TypeOK, CallRecord, Poll, Receive
  <1>5. CASE PlaceOrder
    BY <1>5 DEF TypeInv, TypeOK, Busy, PlaceOrder, orderVars, PlacerPhases
  <1>6. CASE linkOrder
    <2>1. setup.leg \in Roles
      BY OrderAssumption DEF TypeInv, TypeOK, Setup, Roles
    <2> QED BY <1>6, <2>1 DEF TypeInv, TypeOK, Busy, linkOrder, PlacerPhases
  <1>7. CASE FindOrphans
    BY <1>7 DEF TypeInv, TypeOK, Busy, FindOrphans, orderVars, PlacerPhases
  <1>8. CASE DeleteOrphans
    BY <1>8 DEF TypeInv, TypeOK, Busy, DeleteOrphans, PlacerPhases
  <1>9. CASE PopFails
    BY <1>9 DEF TypeInv, TypeOK, Busy, PopFails, orderVars, PlacerPhases
  <1>10. CASE _replayOrphanUpdates
    <2>1. CASE replays # <<>>
      <3>1. Head(replays) \in Updates /\ Tail(replays) \in Seq(Updates)
        BY <2>1, HeadTailProperties DEF TypeInv, TypeOK
      <3>2. "replay" \in Sources /\ Receive("replay", Head(replays))
        BY <1>10, <2>1 DEF _replayOrphanUpdates, Sources
      <3> QED BY <1>10, <2>1, <3>1, <3>2, ReceiveType
              DEF TypeInv, TypeOK, CallRecord, _replayOrphanUpdates, Receive
    <2>2. CASE replays = <<>>
      BY <1>10, <2>2 DEF TypeInv, TypeOK, Busy, _replayOrphanUpdates, orderVars, PlacerPhases
    <2> QED BY <2>1, <2>2
  <1>11. ASSUME NEW s \in Sources, CallStep(s) PROVE TypeInv'
    BY <1>11, CallStepTypeInv
  <1>12. CASE UNCHANGED vars
    BY <1>12 DEF TypeInv, TypeOK, Busy, vars, orderVars
  <1> QED BY <1>2, <1>3, <1>4, <1>5, <1>6, <1>7, <1>8, <1>9, <1>10, <1>11, <1>12
          DEF Next, PlacerStep

LEMMA TypeInvHolds == Spec => []TypeInv
  BY InitTypeInv, NextTypeInv, PTL DEF Spec

(* Every variable keeps its type; the memory of the signatures of an order  *)
(* (tradeManager.js:1440) never exceeds its limit.                          *)
THEOREM UpdatesTypeCorrect == Spec => []TypeOK
  <1>1. TypeInv => TypeOK
    BY DEF TypeInv
  <1> QED BY <1>1, TypeInvHolds, PTL

-----------------------------------------------------------------------------
(* Orders the queue placed.                                                 *)

(* An update that is taken up is the only new thing there is.               *)
LEMMA ReceiveEffect ==
    ASSUME TypeInv, NEW s \in Sources, NEW u \in Updates, Receive(s, u)
    PROVE  /\ ~Busy(s)
           /\ UNCHANGED <<link, orphans, trade, realized>>
           /\ \A r \in Sources \ {s} : call'[r] = call[r]
           /\ \/ call' = call /\ handled' = handled \cup {u}
              \/ /\ call'[s].pc = "finding" /\ call'[s].u = u
                 /\ call'[s].held = FALSE /\ call'[s].read = 0
                 /\ handled' = handled
  <1>1. call \in [Sources -> CallRecord]
    BY DEF TypeInv, TypeOK, CallRecord
  <1>2. ~Busy(s) /\ UNCHANGED <<link, orphans, trade, realized>>
    BY DEF Receive, Busy
  <1>3. \A r \in Sources \ {s} : call'[r] = call[r]
    BY <1>1 DEF Receive
  <1>4. ASSUME call' = call PROVE handled' = handled \cup {u}
    <2>1. CASE call' = [call EXCEPT ![s] = [Idle EXCEPT !.pc = "finding", !.u = u]]
      <3>1. call'[s].pc = "finding"
        BY <1>1, <2>1 DEF Idle
      <3> QED BY <1>2, <1>4, <3>1 DEF Busy
    <2> QED BY <2>1 DEF Receive
  <1>5. CASE call' = [call EXCEPT ![s] = [Idle EXCEPT !.pc = "finding", !.u = u]]
    <2>1. call'[s] = [Idle EXCEPT !.pc = "finding", !.u = u]
      BY <1>1, <1>5
    <2>2. handled' = handled
      BY <1>1, <1>2, <2>1 DEF Receive, Busy, Idle
    <2> QED BY <1>2, <1>3, <2>1, <2>2 DEF Idle
  <1> QED BY <1>2, <1>3, <1>4, <1>5 DEF Receive

LEMMA ReceiveQueued ==
    ASSUME TypeInv, QueuedInv, Queued, placer = "done",
           NEW s \in {"pipeline", "watch"}, NEW u \in Updates, Receive(s, u),
           UNCHANGED <<setup, placer, replays>>
    PROVE  QueuedInv'
  <1>1. s \in Sources /\ s # "replay"
    BY DEF Sources
  <1>2. /\ UNCHANGED <<link, orphans, trade, realized>>
        /\ \A r \in Sources \ {s} : call'[r] = call[r]
        /\ call' = call \/ (call'[s].pc = "finding" /\ call'[s].held = FALSE)
    BY <1>1, ReceiveEffect
  <1>3. PlacedFirst'
    BY <1>1, <1>2 DEF QueuedInv, PlacedFirst, Busy, Sources
  <1>fence. Fenced' <=> Fenced
    BY DEF Fenced
  <1>4. \A r \in Sources : QueuedCall(r)'
    BY <1>1, <1>2, <1>fence DEF QueuedInv, QueuedCall, Committed
  <1>5. \A r \in Sources : call'[r].held => call[r].held
    BY <1>1, <1>2
  <1>6. \A q, r \in Sources : call'[q].held /\ call'[r].held => q = r
    BY <1>5 DEF QueuedInv
  <1> QED BY <1>2, <1>3, <1>4, <1>6, <1>fence DEF QueuedInv

(* A call of such an order finds the link and takes the way to the close.   *)
LEMMA CallStepQueued ==
    ASSUME TypeInv, QueuedInv, Queued, NEW s \in Sources, CallStep(s)
    PROVE  QueuedInv' /\ UNCHANGED <<setup, emitted, delivered, placer>>
  <1>1. /\ Busy(s)
        /\ call' \in [Sources -> CallRecord]
        /\ \A r \in Sources \ {s} : call'[r] = call[r]
    BY CallStepType
  <1>2. UNCHANGED <<setup, emitted, delivered, placer, replays>>
    BY DEF CallStep, FindLink, _matchUnlinkedBrokerExit, LinkSquareoff,
           saveOrphanOrderUpdate, appendOrderLog, Relink, Apply, CloseTrade, ReadRealized,
           BookRealized, CallFails, orderVars
  <1> SUFFICES QueuedInv'
    BY <1>2
  <1>3. placer = "done" /\ link = setup.leg /\ s # "replay"
    BY <1>1 DEF QueuedInv, PlacedFirst
  <1>leg. setup.leg \in Legs /\ setup.ahead \in BOOLEAN
    BY OrderAssumption DEF TypeInv, TypeOK, Setup
  <1>4. QueuedCall(s) /\ call[s].pc \notin {"matching", "storing", "squaring"}
    BY DEF QueuedInv, QueuedCall, Committed
  <1>5. call[s] \in CallRecord /\ call \in [Sources -> CallRecord]
    BY DEF TypeInv, TypeOK, CallRecord
  <1>6. UNCHANGED <<link, orphans>>
    BY <1>3, <1>4 DEF QueuedCall, CallStep, FindLink, _matchUnlinkedBrokerExit,
           LinkSquareoff, saveOrphanOrderUpdate, appendOrderLog, Relink, Apply, CloseTrade,
           ReadRealized, BookRealized, CallFails, orderVars
  <1>7. PlacedFirst'
    BY <1>1, <1>2, <1>3, <1>6 DEF QueuedInv, PlacedFirst, Busy, Sources
  <1>8. \A r \in Sources : call[s].held /\ r # s => ~call[r].held
    BY DEF QueuedInv
  (* What one step of the call does: the rest of the invariant.             *)
  <1> DEFINE Rest == /\ QueuedCall(s)'
                     /\ call'[s].held =>
                          call[s].held \/ \A r \in Sources \ {s} : ~call[r].held
                     /\ trade' # trade \/ realized' # realized => call[s].held
                     /\ Fenced => (trade' = "LIVE" => realized' = 0) /\ realized' <= 1
                     /\ trade = "CLOSED" => trade' = "CLOSED"
  <1>fence. Fenced' <=> Fenced
    BY <1>2 DEF Fenced
  <1>9. ASSUME Rest PROVE QueuedInv'
    <2>1. \A q, r \in Sources : call'[q].held /\ call'[r].held => q = r
      BY <1>1, <1>8, <1>9 DEF QueuedInv
    <2>2. ASSUME NEW r \in Sources \ {s} PROVE QueuedCall(r)'
      <3>1. QueuedCall(r) /\ call'[r] = call[r]
        BY <1>1 DEF QueuedInv
      <3>2. CASE UNCHANGED <<trade, realized>>
        BY <1>2, <1>fence, <3>1, <3>2 DEF QueuedCall
      <3>3. CASE call[s].held
        <4>1. ~call[r].held
          BY <1>8, <3>3
        <4> QED BY <1>2, <1>fence, <3>1, <4>1 DEF QueuedCall, Committed
      <3> QED BY <1>9, <3>2, <3>3
    <2> QED BY <1>2, <1>7, <1>9, <1>fence, <2>1, <2>2 DEF QueuedInv
  <1>10. trade \in {"LIVE", "CLOSED"} /\ realized \in Nat
         /\ (Fenced => realized <= 1 /\ (trade = "LIVE" => realized = 0))
    BY DEF TypeInv, TypeOK, QueuedInv
  <1>11. CASE Returns(s) /\ UNCHANGED <<trade, realized>>
    <2>1. call'[s] = Idle
      BY <1>5, <1>11 DEF Returns
    <2> QED BY <1>9, <1>10, <1>11, <2>1 DEF QueuedCall, Idle, Committed, Rest
  <1>12. CASE FindLink(s)
    <2>1. /\ call'[s].pc = "logging" /\ call'[s].role = setup.leg
          /\ call'[s].held = call[s].held /\ UNCHANGED <<trade, realized>>
          /\ call[s].pc = "finding"
      BY <1>3, <1>5, <1>12, <1>leg DEF FindLink, CallRecord, Legs
    <2> QED BY <1>2, <1>4, <1>9, <1>10, <2>1 DEF QueuedCall, Committed, Rest
  <1>13. ASSUME NEW p \in {"relinking", "waiting"}, Goes(s, p),
                call[s].pc \in {"logging", "relinking"}, UNCHANGED <<trade, realized>>
         PROVE QueuedInv'
    <2>1. /\ call'[s].pc = p /\ call'[s].role = call[s].role
          /\ call'[s].held = call[s].held
      BY <1>5, <1>13 DEF Goes, CallRecord
    <2> QED BY <1>2, <1>4, <1>9, <1>10, <1>13, <2>1 DEF QueuedCall, Committed, Rest
  <1>14. CASE appendOrderLog(s) \/ Relink(s)
    BY <1>13, <1>14 DEF appendOrderLog, Relink
  <1>15. CASE Apply(s)
    <2>1. CASE Returns(s)
      BY <1>11, <1>15, <2>1 DEF Apply
    <2>2. ASSUME NEW later \in {FALSE, setup.ahead}, FillCloses(call[s], later),
                 call' = [call EXCEPT ![s].pc = "closing", ![s].held = TRUE]
          PROVE  QueuedInv'
      <3>1. /\ call'[s].pc = "closing" /\ call'[s].role = call[s].role
            /\ call'[s].held = TRUE
        BY <1>5, <2>2 DEF CallRecord
      <3>2. call[s].role = setup.leg /\ call[s].pc = "waiting"
        BY <1>4, <1>15 DEF QueuedCall, Apply
      <3>3. (Fenced => trade = "LIVE") /\ UNCHANGED <<trade, realized>>
        <4>1. Fenced /\ trade = "CLOSED" => later
          BY <1>leg, <2>2, <3>2 DEF FillCloses, _shouldSuppressTerminalOrderMutation
        <4>2. Fenced /\ later => setup.leg = "SL"
          BY <2>2 DEF Fenced
        <4>3. setup.leg = "SL" => trade = "LIVE"
          BY <2>2, <3>2 DEF FillCloses
        <4> QED BY <1>10, <1>15, <4>1, <4>2, <4>3 DEF Apply
      <3>4. \A r \in Sources \ {s} : ~call[r].held
        BY <1>3, <1>15 DEF Apply, HasTurn
      <3> QED BY <1>2, <1>9, <1>10, <1>fence, <3>1, <3>2, <3>3, <3>4 DEF QueuedCall, Committed, Rest
    <2> QED BY <1>15, <2>1, <2>2 DEF Apply
  <1>16. CASE CloseTrade(s)
    <2>1. /\ call'[s].pc = "reading" /\ call'[s].role = call[s].role
          /\ call'[s].held = call[s].held /\ call[s].pc = "closing"
          /\ trade' = "CLOSED" /\ realized' = realized
      BY <1>5, <1>16 DEF CloseTrade, Goes, CallRecord
    <2>2. (Fenced => trade = "LIVE") /\ call[s].held
      BY <1>4, <2>1 DEF QueuedCall, Committed
    <2> QED BY <1>2, <1>4, <1>9, <1>10, <1>fence, <2>1, <2>2 DEF QueuedCall, Committed, Rest
  <1>17. CASE ReadRealized(s)
    <2>1. /\ call'[s].pc = "booking" /\ call'[s].role = call[s].role
          /\ call'[s].held = call[s].held /\ call[s].pc = "reading"
          /\ call'[s].read = realized /\ UNCHANGED <<trade, realized>>
      BY <1>5, <1>17 DEF ReadRealized, CallRecord
    <2> QED BY <1>2, <1>fence, <1>4, <1>9, <1>10, <2>1 DEF QueuedCall, Committed, Rest
  <1>18. CASE BookRealized(s)
    <2>1. /\ call'[s] = Idle /\ call[s].pc = "booking"
          /\ realized' = call[s].read + 1 /\ trade' = trade
      BY <1>5, <1>18 DEF BookRealized, Returns
    <2>2. (Fenced => trade = "CLOSED" /\ call[s].read = 0) /\ call[s].held
      BY <1>4, <2>1 DEF QueuedCall, Committed
    <2> QED BY <1>2, <1>9, <1>10, <1>fence, <2>1, <2>2 DEF QueuedCall, Idle, Committed, Rest
  <1>19. CASE CallFails(s)
    <2>1. UNCHANGED <<trade, realized>>
      BY <1>19 DEF CallFails
    <2>2. call[s].pc = "closing" => call[s].role # "none"
      BY <1>4, <1>leg DEF QueuedCall, Legs
    <2> QED BY <1>4, <1>11, <1>13, <1>19, <2>1, <2>2 DEF CallFails
  <1> QED BY <1>2, <1>4, <1>12, <1>14, <1>15, <1>16, <1>17, <1>18, <1>19
          DEF CallStep, _matchUnlinkedBrokerExit, LinkSquareoff, saveOrphanOrderUpdate

(* The placer finds no orphans: none was stored before the link.            *)
LEMMA NextQueued == TypeInv /\ QueuedInv /\ [Next]_vars => QueuedInv'
  <1> SUFFICES ASSUME TypeInv, QueuedInv, [Next]_vars, Queued' PROVE QueuedInv'
    BY DEF QueuedInv
  <1>1. setup' = setup
    BY SetupStays
  <1>2. Queued
    BY <1>1 DEF Queued
  <1>3. CASE Emit
    BY <1>2, <1>3 DEF QueuedInv, Queued, PlacedFirst, QueuedCall, Fenced, Busy, Emit, orderVars
  <1>4. ASSUME NEW u \in Updates, Deliver(u) PROVE QueuedInv'
    <2>1. placer = "done"
      <3>1. emitted # 0
        BY <1>4 DEF Deliver, TypeInv, TypeOK
      <3> QED BY <1>2, <1>4, <3>1 DEF Deliver, Placing, Queued, QueuedInv, PlacedFirst
    <2> QED BY <1>2, <1>4, <2>1, ReceiveQueued DEF Deliver
  <1>5. CASE Poll
    <2>1. History[emitted] \in Updates
      BY <1>5, OrderAssumption DEF TypeInv, TypeOK, Poll
    <2> QED BY <1>2, <1>5, <2>1, ReceiveQueued DEF Poll
  <1>6. CASE PlaceOrder
    BY <1>2, <1>6 DEF QueuedInv, PlacedFirst, QueuedCall, Fenced, Busy, PlaceOrder, orderVars
  <1>7. CASE linkOrder
    BY <1>2, <1>7 DEF QueuedInv, PlacedFirst, QueuedCall, Fenced, Busy, linkOrder
  <1>8. CASE FindOrphans
    BY <1>2, <1>8 DEF QueuedInv, PlacedFirst, QueuedCall, Fenced, Busy, FindOrphans, orderVars
  <1>9. CASE PopFails
    BY <1>2, <1>9 DEF QueuedInv, PlacedFirst, QueuedCall, Fenced, Busy, PopFails, orderVars
  <1>10. ~DeleteOrphans /\ ~_replayOrphanUpdates
    BY <1>2 DEF QueuedInv, PlacedFirst, DeleteOrphans, _replayOrphanUpdates
  <1>11. ASSUME NEW s \in Sources, CallStep(s) PROVE QueuedInv'
    BY <1>2, <1>11, CallStepQueued
  <1>12. CASE UNCHANGED vars
    BY <1>12 DEF QueuedInv, Queued, PlacedFirst, QueuedCall, Fenced, Busy, vars, orderVars
  <1> QED BY <1>3, <1>4, <1>5, <1>6, <1>7, <1>8, <1>9, <1>10, <1>11, <1>12
          DEF Next, PlacerStep

(* Storing an update, taking the first one, remembering a signature.        *)
LEMMA HoldsMore ==
    ASSUME NEW updates \in Seq(Updates), NEW u \in Updates
    PROVE  /\ Holds(Append(updates, u), u)
           /\ \A v \in Updates : Holds(updates, v) => Holds(Append(updates, u), v)
           /\ \A v \in Updates : Holds(Append(updates, u), v) => Holds(updates, v) \/ v = u
  <1>1. PICK longer : longer = Append(updates, u)
    OBVIOUS
  <1>2. PICK n \in Nat : n = Len(updates)
    OBVIOUS
  <1>3. /\ longer \in Seq(Updates) /\ Len(longer) = n + 1 /\ longer[n + 1] = u
        /\ \A i \in 1 .. n : longer[i] = updates[i]
    BY <1>1, <1>2, AppendProperties
  <1>4. DOMAIN longer = 1 .. n + 1 /\ DOMAIN updates = 1 .. n
    BY <1>2, <1>3
  <1>5. \A i \in 1 .. n + 1 : i \in 1 .. n \/ i = n + 1
    OBVIOUS
  <1>6. n + 1 \in 1 .. n + 1 /\ \A i \in 1 .. n : i \in 1 .. n + 1
    OBVIOUS
  <1> QED BY <1>1, <1>3, <1>4, <1>5, <1>6 DEF Holds

LEMMA HoldsFewer ==
    ASSUME NEW updates \in Seq(Updates), updates # <<>>
    PROVE  \A v \in Updates :
              Holds(updates, v) => v = Head(updates) \/ Holds(Tail(updates), v)
  <1>1. PICK rest : rest = Tail(updates)
    OBVIOUS
  <1>2. PICK n \in Nat : n = Len(updates) /\ n >= 1
    BY EmptySeq
  <1>3. /\ rest \in Seq(Updates) /\ Len(rest) = n - 1
        /\ \A i \in 1 .. n - 1 : rest[i] = updates[i + 1]
    BY <1>1, <1>2, HeadTailProperties
  <1>4. DOMAIN updates = 1 .. n /\ DOMAIN rest = 1 .. n - 1 /\ Head(updates) = updates[1]
    BY <1>2, <1>3
  <1>5. \A i \in 1 .. n : i = 1 \/ (i - 1 \in 1 .. n - 1 /\ (i - 1) + 1 = i)
    OBVIOUS
  <1>6. ASSUME NEW v \in Updates, NEW i \in 1 .. n, updates[i] = v, i # 1
        PROVE  Holds(rest, v)
    <2>1. i - 1 \in DOMAIN rest /\ rest[i - 1] = v
      BY <1>3, <1>4, <1>5, <1>6
    <2> QED BY <2>1 DEF Holds
  <1> QED BY <1>1, <1>4, <1>6 DEF Holds

LEMMA HoldsRemembered ==
    ASSUME NEW signatures \in Seq(Updates), NEW u \in Updates
    PROVE  \A v \in Updates :
              Holds(rememberOrderUpdateSignature(signatures, u), v)
                => Holds(signatures, v) \/ v = u
  <1>1. PICK next : next = Append(signatures, u)
    OBVIOUS
  <1>2. PICK n \in Nat : n = Len(signatures)
    OBVIOUS
  <1>3. next \in Seq(Updates) /\ Len(next) = n + 1
    BY <1>1, <1>2, AppendProperties
  <1>4. PICK m \in 1 .. n + 1 :
           m = 1 + Len(next) - IF Len(next) > CacheLimit THEN CacheLimit ELSE Len(next)
    <2>1. CacheLimit \in Nat /\ CacheLimit > 0
      BY OrderAssumption
    <2>2. CASE n + 1 > CacheLimit
      BY <1>3, <2>1, <2>2
    <2>3. CASE ~(n + 1 > CacheLimit)
      BY <1>3, <2>1, <2>3
    <2> QED BY <2>2, <2>3
  <1>5. /\ Len(SubSeq(next, m, n + 1)) = (n + 1) - m + 1
        /\ \A i \in 1 .. (n + 1) - m + 1 : SubSeq(next, m, n + 1)[i] = next[m + i - 1]
        /\ SubSeq(next, m, n + 1) \in Seq(Updates)
    <2>1. \A i \in m .. n + 1 : next[i] \in Updates
      <3>1. \A i \in 1 .. n + 1 : next[i] \in Updates
        BY <1>3, ElementOfSeq
      <3> QED BY <3>1
    <2> QED BY <1>3, <2>1, SubSeqProperties
  <1>6. ASSUME NEW v \in Updates, Holds(SubSeq(next, m, n + 1), v) PROVE Holds(next, v)
    <2> DEFINE cut == SubSeq(next, m, n + 1)
    <2>0. DOMAIN cut = 1 .. (n + 1) - m + 1
      BY <1>5
    <2>1. PICK i \in 1 .. (n + 1) - m + 1 : cut[i] = v
      <3> HIDE DEF cut
      <3> QED BY <1>6, <2>0 DEF Holds, cut
    <2>2. m + i - 1 \in 1 .. n + 1
      OBVIOUS
    <2>3. m + i - 1 \in DOMAIN next /\ next[m + i - 1] = v
      BY <1>3, <1>5, <2>1, <2>2
    <2> QED BY <2>3 DEF Holds
  <1>7. \A v \in Updates : Holds(next, v) => Holds(signatures, v) \/ v = u
    BY <1>1, HoldsMore
  <1>8. rememberOrderUpdateSignature(signatures, u)
          = IF Holds(signatures, u) THEN signatures ELSE SubSeq(next, m, n + 1)
    BY <1>1, <1>3, <1>4 DEF rememberOrderUpdateSignature
  <1> QED BY <1>6, <1>7, <1>8

(* A call that looks an update up keeps it, or drops a copy of it.          *)
LEMMA CallStepHandled ==
    ASSUME TypeInv, QueuedInv, HandledInv, NEW s \in Sources, CallStep(s)
    PROVE  HandledInv'
  <1>1. /\ Busy(s)
        /\ call' \in [Sources -> CallRecord]
        /\ \A r \in Sources \ {s} : call'[r] = call[r]
        /\ call'[s].u = call[s].u \/ call'[s] = Idle
    BY CallStepType
  <1>2. UNCHANGED <<setup, emitted, delivered, placer, replays>>
    BY DEF CallStep, FindLink, _matchUnlinkedBrokerExit, LinkSquareoff,
           saveOrphanOrderUpdate, appendOrderLog, Relink, Apply, CloseTrade, ReadRealized,
           BookRealized, CallFails, orderVars
  <1>3. call \in [Sources -> CallRecord] /\ call[s].u \in Updates
    BY <1>1 DEF TypeInv, TypeOK, CallRecord
  <1>4. Queued => missed' = {}
    <2>1. Queued => call[s].pc # "storing"
      BY DEF QueuedInv, QueuedCall, Committed
    <2> QED BY <2>1 DEF HandledInv, CallStep, FindLink, _matchUnlinkedBrokerExit,
           LinkSquareoff, saveOrphanOrderUpdate, appendOrderLog, Relink, Apply, CloseTrade,
           ReadRealized, BookRealized, CallFails
  <1>5. CASE ~Answered
    BY <1>2, <1>4, <1>5 DEF HandledInv, Answered, Queued
  <1> SUFFICES ASSUME Answered PROVE HandledInv'
    BY <1>5
  <1>u. PICK u \in Updates : u = call[s].u
    BY <1>3
  <1>6. /\ \A v \in Updates : delivered[v] > 0 => Kept(v) \/ LookedUp(v)
        /\ \A v \in Updates : link = "none" /\ Holds(orphanSeen, v) => Kept(v)
        /\ placer = "idle" => emitted = 0 /\ \A v \in Updates : delivered[v] = 0
        /\ replays # <<>> => placer \in {"popped", "replaying"}
        /\ link = "none" => placer \in {"idle", "placed"}
        /\ \A r \in Sources : call[r].pc \in {"logging", "relinking"} => call[r].role # "none"
    BY DEF HandledInv
  (* What the step has to keep.                                             *)
  <1>7. ASSUME \A v \in Updates : v # u /\ Kept(v) => Kept(v)',
               \/ Kept(u)'
               \/ /\ call[s].pc \notin PastLookup \cup {"finding"}
                  /\ Kept(u) => Kept(u)'
                  /\ LookedUp(u) => LookedUp(u)',
               \A v \in Updates : link' = "none" /\ Holds(orphanSeen', v) =>
                   (v = u /\ Kept(u)') \/ (link = "none" /\ Holds(orphanSeen, v)),
               link' = "none" => link = "none",
               call'[s].pc \in {"logging", "relinking"} => call'[s].role # "none"
        PROVE  HandledInv'
    <2>1. ASSUME NEW v \in Updates, v # u, LookedUp(v) PROVE LookedUp(v)'
      BY <1>1, <1>u, <2>1 DEF LookedUp
    <2>2. \A v \in Updates : delivered'[v] > 0 => Kept(v)' \/ LookedUp(v)'
      BY <1>2, <1>6, <1>7, <2>1
    <2>3. \A v \in Updates : link' = "none" /\ Holds(orphanSeen', v) => Kept(v)'
      BY <1>6, <1>7
    <2>4. \A r \in Sources : call'[r].pc \in {"logging", "relinking"} => call'[r].role # "none"
      BY <1>1, <1>6, <1>7
    <2> QED BY <1>2, <1>4, <1>6, <1>7, <2>2, <2>3, <2>4 DEF HandledInv, Answered, Queued
  <1>8. ASSUME handled \subseteq handled', missed \subseteq missed',
               Early => \A v \in Updates : Holds(orphans, v) => Holds(orphans', v)
        PROVE  \A v \in Updates : v # u /\ Kept(v) => Kept(v)'
    BY <1>1, <1>2, <1>8, <1>u DEF Kept, Early
  <1>9. ASSUME NEW p \in PastLookup, Goes(s, p) PROVE Kept(u)'
    <2>1. call'[s].pc = p /\ call'[s].u = u
      BY <1>3, <1>9, <1>u DEF Goes, CallRecord
    <2> QED BY <1>9, <2>1 DEF Kept
  <1>10. CASE FindLink(s)
    <2>1. UNCHANGED <<handled, missed, orphans, link>> /\ call[s].pc = "finding"
      BY <1>10 DEF FindLink
    <2>2. CASE link # "none" /\ call' = [call EXCEPT ![s].pc = "logging", ![s].role = link]
      <3>1. call'[s].pc = "logging" /\ call'[s].u = u /\ call'[s].role # "none"
        BY <1>3, <1>u, <2>2 DEF CallRecord
      <3>2. Kept(u)'
        BY <3>1 DEF Kept, PastLookup
      <3> QED BY <1>7, <1>8, <2>1, <2>2, <3>1, <3>2
    <2>3. CASE link = "none" /\ Holds(orphanSeen, u) /\ Returns(s)
               /\ UNCHANGED <<processed, orphanSeen>>
      <3>1. call'[s] = Idle
        BY <1>3, <2>3 DEF Returns
      <3>2. Kept(u)
        BY <1>3, <1>6, <2>3
      <3>3. Kept(u)'
        BY <1>1, <1>2, <2>1, <3>2 DEF Kept, Early, PastLookup
      <3> QED BY <1>7, <1>8, <2>1, <2>3, <3>1, <3>3 DEF Idle
    <2>4. CASE /\ link = "none"
               /\ orphanSeen' = rememberOrderUpdateSignature(orphanSeen, u)
               /\ Goes(s, IF StatusOf[u] = "COMPLETE" THEN "matching" ELSE "storing")
      <3>1. PICK p \in {"matching", "storing"} : Goes(s, p)
        BY <2>4
      <3>2. Kept(u)' /\ call'[s].pc = p
        BY <1>3, <1>9, <3>1 DEF PastLookup, Goes, CallRecord
      <3>3. \A v \in Updates : Holds(orphanSeen', v) => Holds(orphanSeen, v) \/ v = u
        BY <1>3, <2>4, HoldsRemembered DEF TypeInv, TypeOK
      <3> QED BY <1>7, <1>8, <2>1, <2>4, <3>2, <3>3
    <2> QED BY <1>10, <1>u, <2>2, <2>3, <2>4 DEF FindLink
  <1>11. CASE saveOrphanOrderUpdate(s)
    <2>1. /\ orphans' = Append(orphans, u) /\ call'[s] = Idle
          /\ UNCHANGED <<handled, link, orphanSeen>>
          /\ missed' = IF Early THEN missed ELSE missed \cup {u}
      BY <1>3, <1>11, <1>u DEF saveOrphanOrderUpdate, Returns, Early
    <2>2. Holds(orphans', u) /\ \A v \in Updates : Holds(orphans, v) => Holds(orphans', v)
      BY <1>3, <2>1, HoldsMore DEF TypeInv, TypeOK
    <2>3. Kept(u)'
      BY <1>2, <2>1, <2>2 DEF Kept, Early
    <2> QED BY <1>7, <1>8, <2>1, <2>2, <2>3 DEF Idle
  <1>12. CASE LinkSquareoff(s)
    <2>1. /\ handled' = handled \cup {u} /\ UNCHANGED <<missed, orphans, orphanSeen>>
          /\ link' = "BROKER_SQUAREOFF" /\ call'[s].pc = "closing"
      BY <1>3, <1>12, <1>u DEF LinkSquareoff, Goes, CallRecord
    <2>2. Kept(u)'
      BY <2>1 DEF Kept
    <2> QED BY <1>7, <1>8, <2>1, <2>2
  <1>13. CASE Apply(s)
    <2>1. /\ handled' = handled \cup {u} /\ UNCHANGED <<missed, orphans, orphanSeen, link>>
          /\ call'[s].pc \in {"closing", "idle"}
      BY <1>3, <1>13, <1>u DEF Apply, orderVars, Returns, Idle, CallRecord
    <2>2. Kept(u)'
      BY <2>1 DEF Kept
    <2> QED BY <1>7, <1>8, <2>1, <2>2
  <1>14. ASSUME NEW p \in PastLookup, Goes(s, p),
                UNCHANGED <<handled, missed, orphans, orphanSeen>>,
                link' = "none" => link = "none", p = "relinking" => call[s].role # "none",
                p # "logging"
         PROVE  HandledInv'
    <2>1. call'[s].pc = p /\ call'[s].role = call[s].role
      BY <1>3, <1>14 DEF Goes, CallRecord
    <2>2. Kept(u)'
      BY <1>9, <1>14
    <2> QED BY <1>7, <1>8, <1>14, <2>1, <2>2
  <1>15. CASE \E matches \in BOOLEAN : _matchUnlinkedBrokerExit(s, matches)
    BY <1>14, <1>15 DEF _matchUnlinkedBrokerExit, orderVars, PastLookup
  <1>16. CASE appendOrderLog(s)
    BY <1>6, <1>14, <1>16 DEF appendOrderLog, orderVars, PastLookup
  <1>17. CASE Relink(s)
    <2>1. link' # "none" /\ Goes(s, "waiting")
          /\ UNCHANGED <<handled, missed, orphans, orphanSeen>>
      BY <1>6, <1>17 DEF Relink
    <2> QED BY <1>14, <2>1 DEF PastLookup
  <1>18. CASE CloseTrade(s) \/ ReadRealized(s) \/ BookRealized(s)
    <2>1. /\ UNCHANGED <<handled, missed, orphans, orphanSeen, link>>
          /\ call[s].pc \in Committed /\ call'[s].pc \notin {"logging", "relinking"}
      BY <1>3, <1>18 DEF CloseTrade, ReadRealized, BookRealized, orderVars, Committed,
           Goes, Returns, Idle, CallRecord
    <2>2. (Kept(u) => Kept(u)') /\ (LookedUp(u) => LookedUp(u)')
      BY <1>1, <1>2, <2>1 DEF Kept, LookedUp, Early, PastLookup, Committed
    <2>3. call[s].pc \notin PastLookup \cup {"finding"}
      BY <2>1 DEF PastLookup, Committed
    <2> QED BY <1>7, <1>8, <2>1, <2>2, <2>3
  <1>19. ~CallFails(s)
    BY DEF CallFails, Answered
  <1> QED BY <1>10, <1>11, <1>12, <1>13, <1>15, <1>16, <1>17, <1>18, <1>19 DEF CallStep

(* What is taken up is looked up; what is stored is replayed.               *)
LEMMA NextHandled == TypeInv /\ QueuedInv /\ HandledInv /\ [Next]_vars => HandledInv'
  <1> SUFFICES ASSUME TypeInv, QueuedInv, HandledInv, [Next]_vars PROVE HandledInv'
    OBVIOUS
  <1>1. setup' = setup
    BY SetupStays
  <1>2. ASSUME NEW s \in Sources, CallStep(s) PROVE HandledInv'
    BY <1>2, CallStepHandled
  <1>3. CASE \A s \in Sources : ~CallStep(s)
    <2>1. missed' = missed
      BY <1>3 DEF Next, PlacerStep, Emit, Deliver, Poll, PlaceOrder, linkOrder, FindOrphans,
                  DeleteOrphans, PopFails, _replayOrphanUpdates, Receive, vars
    <2>2. CASE ~Answered
      BY <1>1, <2>1, <2>2 DEF HandledInv, Answered, Queued
    <2> SUFFICES ASSUME Answered PROVE HandledInv'
      BY <2>2
    <2>3. /\ \A v \in Updates : delivered[v] > 0 => Kept(v) \/ LookedUp(v)
          /\ \A v \in Updates : link = "none" /\ Holds(orphanSeen, v) => Kept(v)
          /\ placer = "idle" => emitted = 0 /\ \A v \in Updates : delivered[v] = 0
          /\ replays # <<>> => placer \in {"popped", "replaying"}
          /\ link = "none" => placer \in {"idle", "placed"}
          /\ \A r \in Sources : call[r].pc \in {"logging", "relinking"} => call[r].role # "none"
      BY DEF HandledInv
    <2>4. delivered \in [Updates -> Nat] /\ emitted \in Nat
      BY OrderAssumption DEF TypeInv, TypeOK, Setup
    (* A call with a new update.                                            *)
    <2>5. ASSUME NEW s \in Sources, NEW u \in Updates, Receive(s, u), placer # "idle",
                 UNCHANGED <<placer, emitted, missed>>,
                 \A v \in Updates : v # u => delivered'[v] = delivered[v],
                 \A v \in Updates : v # u /\ Holds(replays, v) => Holds(replays', v),
                 s = "replay" => replays # <<>> /\ link # "none",
                 s # "replay" => replays' = replays,
                 replays' # <<>> => replays # <<>>
          PROVE  HandledInv'
      <3>1. /\ ~Busy(s) /\ UNCHANGED <<link, orphans, orphanSeen>>
            /\ \A r \in Sources \ {s} : call'[r] = call[r]
            /\ \/ call' = call /\ handled' = handled \cup {u}
               \/ /\ call'[s].pc = "finding" /\ call'[s].u = u
                  /\ handled' = handled
        BY <2>5, ReceiveEffect DEF Receive
      <3>2. Kept(u)' \/ LookedUp(u)'
        BY <3>1 DEF Kept, LookedUp
      <3>3. \A r \in Sources : call[r].pc # "idle" => call'[r] = call[r]
        BY <3>1 DEF Busy
      <3>4. \A v \in Updates : v # u => (Kept(v) => Kept(v)') /\ (LookedUp(v) => LookedUp(v)')
        BY <2>5, <3>1, <3>3 DEF Kept, LookedUp, Early, PastLookup
      <3>5. Kept(u) /\ link = "none" => Kept(u)'
        BY <2>5, <3>1, <3>3 DEF Kept, Early, PastLookup
      <3>6. \A r \in Sources : call'[r].pc \in {"logging", "relinking"} => call'[r].role # "none"
        BY <2>3, <3>1
      <3> QED BY <1>1, <2>1, <2>3, <2>5, <3>1, <3>2, <3>4, <3>5, <3>6
              DEF HandledInv, Answered, Queued
    <2>6. ASSUME NEW u \in Updates, Deliver(u) PROVE HandledInv'
      <3>1. placer # "idle"
        <4>1. emitted # 0
          BY <2>4, <2>6 DEF Deliver
        <4> QED BY <2>3, <4>1
      <3>2. Receive("pipeline", u) /\ UNCHANGED <<placer, emitted, replays>>
            /\ \A v \in Updates : v # u => delivered'[v] = delivered[v]
        BY <2>4, <2>6 DEF Deliver
      <3> HIDE DEF Receive
      <3> QED BY <2>1, <2>5, <3>1, <3>2 DEF Sources
    <2>7. CASE Poll
      <3>1. History[emitted] \in Updates
        BY <2>4, <2>7, OrderAssumption DEF TypeInv, TypeOK, Poll
      <3>2. Receive("watch", History[emitted])
            /\ UNCHANGED <<placer, emitted, replays, delivered>> /\ placer # "idle"
        BY <2>7 DEF Poll
      <3> HIDE DEF Receive
      <3> QED BY <2>1, <2>5, <3>1, <3>2 DEF Sources
    <2>8. CASE _replayOrphanUpdates /\ replays # <<>>
      <3>1. /\ Receive("replay", Head(replays)) /\ replays' = Tail(replays)
            /\ placer = "replaying" /\ UNCHANGED <<placer, emitted, delivered>>
        BY <2>8 DEF _replayOrphanUpdates
      <3>2. Head(replays) \in Updates
            /\ \A v \in Updates : v # Head(replays) /\ Holds(replays, v) => Holds(replays', v)
        BY <2>8, <3>1, HeadTailProperties, HoldsFewer DEF TypeInv, TypeOK
      <3>3. link # "none"
        BY <2>3, <3>1
      <3> HIDE DEF Receive
      <3> QED BY <2>1, <2>5, <2>8, <3>1, <3>2, <3>3 DEF Sources
    (* A step of the placer, or of the order.                               *)
    <2>9. ASSUME UNCHANGED <<call, delivered, handled, orphanSeen>>,
                 \A v \in Updates : Kept(v) => Kept(v)',
                 link' = "none" => link = "none",
                 placer' = "idle" => placer = "idle" /\ emitted' = emitted,
                 replays' # <<>> => placer' \in {"popped", "replaying"},
                 link' = "none" => placer' \in {"idle", "placed"}
          PROVE  HandledInv'
      <3>1. \A v \in Updates : LookedUp(v) => LookedUp(v)'
        BY <2>9 DEF LookedUp
      <3> QED BY <1>1, <2>1, <2>3, <2>9, <3>1 DEF HandledInv, Answered, Queued
    <2>10. ASSUME UNCHANGED <<call, handled, orphans, replays>>, Early => Early'
           PROVE  \A v \in Updates : Kept(v) => Kept(v)'
      BY <2>1, <2>10 DEF Kept
    <2>11. CASE Emit
      <3>1. placer # "idle" /\ UNCHANGED <<call, delivered, handled, orphanSeen, orphans,
                                           replays, placer, link>>
        BY <2>11 DEF Emit, Answered, orderVars
      <3> QED BY <2>3, <2>9, <2>10, <3>1 DEF Early
    <2>12. CASE PlaceOrder
      <3>1. placer = "idle" /\ placer' = "placed"
            /\ UNCHANGED <<call, delivered, handled, orphanSeen, orphans, replays, link>>
        BY <2>12 DEF PlaceOrder, orderVars
      <3> QED BY <2>3, <2>9, <2>10, <3>1 DEF Early
    <2>13. CASE linkOrder
      <3>1. placer = "placed" /\ placer' = "linked" /\ link' = setup.leg
            /\ UNCHANGED <<call, delivered, handled, orphanSeen, orphans, replays>>
        BY <2>13 DEF linkOrder
      <3>2. setup.leg # "none"
        BY OrderAssumption DEF TypeInv, TypeOK, Setup, Legs
      <3> QED BY <2>3, <2>9, <2>10, <3>1, <3>2 DEF Early
    <2>14. CASE FindOrphans
      <3>1. /\ placer = "linked" /\ replays' = orphans /\ placer' \in {"done", "popped"}
            /\ orphans # <<>> => placer' = "popped"
            /\ UNCHANGED <<call, delivered, handled, orphanSeen, link>>
        BY <2>14 DEF FindOrphans, orderVars
      <3>2. replays = <<>> /\ link # "none"
        BY <2>3, <3>1
      <3>3. \A v \in Updates : ~Holds(replays, v)
        BY <3>2 DEF Holds
      <3>4. \A v \in Updates : Kept(v) => Kept(v)'
        BY <2>1, <3>1, <3>3 DEF Kept
      <3> QED BY <2>9, <3>1, <3>2, <3>4
    <2>15. CASE DeleteOrphans
      <3>1. /\ placer = "popped" /\ placer' = "replaying"
            /\ UNCHANGED <<call, delivered, handled, orphanSeen, link, replays>>
        BY <2>15 DEF DeleteOrphans
      <3>2. \A v \in Updates : Kept(v) => Kept(v)'
        BY <2>1, <3>1 DEF Kept, Early
      <3> QED BY <2>3, <2>9, <3>1, <3>2
    <2>16. ~PopFails
      BY DEF PopFails, Answered
    <2>17. CASE _replayOrphanUpdates /\ replays = <<>>
      <3>1. /\ placer = "replaying" /\ placer' = "done" /\ replays' = replays
            /\ UNCHANGED <<call, delivered, handled, orphanSeen, orphans, link>>
        BY <2>17 DEF _replayOrphanUpdates, orderVars
      <3> QED BY <2>3, <2>9, <2>10, <2>17, <3>1 DEF Early
    <2>18. CASE UNCHANGED vars
      <3>1. UNCHANGED <<call, delivered, handled, orphanSeen, orphans, link, replays,
                        placer, emitted>>
        BY <2>18 DEF vars, orderVars
      <3> QED BY <2>3, <2>9, <2>10, <3>1 DEF Early
    <2> QED BY <1>3, <2>6, <2>7, <2>8, <2>11, <2>12, <2>13, <2>14, <2>15, <2>16, <2>17, <2>18
            DEF Next, PlacerStep
  <1> QED BY <1>2, <1>3

-----------------------------------------------------------------------------
(* Orders a timer placed.                                                   *)

(* Storing one more update, if it is the first fill, keeps fills single.    *)
LEMMA OneMoreFill ==
    ASSUME NEW updates \in Seq(Updates), NEW u \in Updates
    PROVE  LET longer == Append(updates, u) IN
           /\ ~IsFill(u) => (HasFill(longer) <=> HasFill(updates))
           /\ ~IsFill(u) /\ OneFill(updates) => OneFill(longer)
           /\ ~HasFill(updates) => OneFill(longer)
  <1>1. PICK longer : longer = Append(updates, u)
    OBVIOUS
  <1>2. PICK n \in Nat : n = Len(updates)
    OBVIOUS
  <1>3. /\ Len(longer) = n + 1 /\ longer[n + 1] = u
        /\ \A i \in 1 .. n : longer[i] = updates[i]
    BY <1>1, <1>2, AppendProperties
  <1>4. \A i \in 1 .. n + 1 : i \in 1 .. n \/ i = n + 1
    OBVIOUS
  <1>5. \A i \in 1 .. n : i \in 1 .. n + 1
    OBVIOUS
  <1>6. ~IsFill(u) => (HasFill(longer) <=> HasFill(updates))
    BY <1>2, <1>3, <1>4, <1>5 DEF HasFill
  <1>7. ~IsFill(u) /\ OneFill(updates) => OneFill(longer)
    BY <1>2, <1>3, <1>4 DEF OneFill
  <1>8. ~HasFill(updates) => OneFill(longer)
    BY <1>2, <1>3, <1>4 DEF OneFill, HasFill
  <1> QED BY <1>1, <1>6, <1>7, <1>8

(* Taking the first update: what has the fill then, has had it before.      *)
LEMMA OneFillLess ==
    ASSUME NEW updates \in Seq(Updates), updates # <<>>, OneFill(updates)
    PROVE  LET rest == Tail(updates) IN
           /\ OneFill(rest)
           /\ HasFill(rest) => HasFill(updates) /\ ~IsFill(Head(updates))
           /\ IsFill(Head(updates)) => HasFill(updates)
  <1>1. PICK rest : rest = Tail(updates)
    OBVIOUS
  <1>2. PICK n \in Nat : n = Len(updates) /\ n >= 1
    BY EmptySeq
  <1>3. Len(rest) = n - 1 /\ \A i \in 1 .. n - 1 : rest[i] = updates[i + 1]
    BY <1>1, <1>2, HeadTailProperties
  <1>4. Head(updates) = updates[1]
    OBVIOUS
  <1>5. \A i \in 1 .. n - 1 : i + 1 \in 1 .. n /\ i + 1 # 1
    OBVIOUS
  <1>6. 1 \in 1 .. n
    BY <1>2
  <1>7. ASSUME NEW i \in 1 .. n - 1, NEW j \in 1 .. n - 1, IsFill(rest[i]), IsFill(rest[j])
        PROVE  i = j
    <2>1. i + 1 = j + 1
      BY <1>2, <1>3, <1>5, <1>7 DEF OneFill
    <2> QED BY <2>1
  <1>8. HasFill(rest) => HasFill(updates) /\ ~IsFill(Head(updates))
    BY <1>2, <1>3, <1>4, <1>5, <1>6 DEF HasFill, OneFill
  <1>9. IsFill(Head(updates)) => HasFill(updates)
    BY <1>2, <1>4, <1>6 DEF HasFill
  <1> QED BY <1>1, <1>3, <1>7, <1>8, <1>9 DEF OneFill

(* What carries the fill after a step carried it before.                    *)
LEMMA CarryLess ==
    ASSUME InOnePlace, UNCHANGED <<placer, orphans, replays>>,
           \A r \in Sources : CallCarries(r)' => CallCarries(r)
    PROVE  InOnePlace' /\ (Travels' => Travels)
  <1>1. (OrphansCarry' <=> OrphansCarry) /\ HasFill(replays') = HasFill(replays)
    BY DEF OrphansCarry
  <1>2. Travels' => Travels
    BY <1>1 DEF Travels
  <1>3. OneFill(replays') = OneFill(replays) /\ OneFill(orphans') = OneFill(orphans)
    OBVIOUS
  <1> QED BY <1>1, <1>2, <1>3 DEF InOnePlace

LEMMA ApplyEffect ==
    ASSUME NEW s \in Sources, Apply(s)
    PROVE  \/ Returns(s)
           \/ /\ call' = [call EXCEPT ![s].pc = "closing", ![s].held = TRUE]
              /\ IsFill(call[s].u)
  BY DEF Apply, FillCloses, IsFill

LEMMA CallStepOnce ==
    ASSUME TypeInv, OnceInv, Once, NEW s \in Sources, CallStep(s)
    PROVE  OnceInv'
  <1>1. /\ Busy(s)
        /\ call' \in [Sources -> CallRecord]
        /\ \A r \in Sources \ {s} : call'[r] = call[r]
        /\ call'[s].u = call[s].u \/ call'[s] = Idle
    BY CallStepType
  <1>2. UNCHANGED <<setup, emitted, delivered, placer, replays>>
    BY DEF CallStep, FindLink, _matchUnlinkedBrokerExit, LinkSquareoff,
           saveOrphanOrderUpdate, appendOrderLog, Relink, Apply, CloseTrade, ReadRealized,
           BookRealized, CallFails, orderVars
  <1>3. call \in [Sources -> CallRecord] /\ realized \in Nat
    BY DEF TypeInv, TypeOK, CallRecord
  <1>4. \A r \in Sources : (Busy(r)' => Busy(r)) /\ (CallCarries(r)' => CallCarries(r))
    BY <1>1 DEF Busy, CallCarries, Idle
  <1>5. ~Busy("watch")' /\ (Busy("replay")' => placer' = "replaying")
        /\ (replays' # <<>> => placer' \in {"popped", "replaying"})
    BY <1>2, <1>4 DEF OnceInv, Sources
  <1>6. call[s].u \in Updates
    BY <1>1 DEF TypeInv
  (* What a call is at, it carries the fill to.                             *)
  <1>7. ASSUME NEW r \in Sources
        PROVE  /\ call'[r].pc \in {"matching", "squaring"} \cup Committed => IsFill(call'[r].u)
               /\ call'[r].pc = "booking" => call'[r].read = 0
    <2>1. CASE r # s
      BY <1>1, <1>7, <2>1 DEF OnceInv
    <2>2. CASE call'[s] = Idle
      BY <1>7, <2>1, <2>2 DEF Idle, Committed
    <2>3. CASE r = s /\ call'[s].u = call[s].u /\ IsFill(call[s].u)
      <3>1. CASE ReadRealized(s)
        <4>1. CallCarries(s)
          BY <1>1, <2>3 DEF CallCarries
        <4>2. realized = 0
          BY <4>1 DEF OnceInv, Travels
        <4> QED BY <1>3, <2>3, <3>1, <4>2 DEF ReadRealized, CallRecord
      <3>2. CASE ~ReadRealized(s)
        <4>1. CASE Apply(s)
          <5>1. CASE Returns(s)
            BY <1>3, <2>3, <5>1 DEF Returns, Idle, Committed
          <5>2. CASE call' = [call EXCEPT ![s].pc = "closing", ![s].held = TRUE]
            <6>1. call'[s].pc = "closing"
              BY <1>3, <5>2 DEF CallRecord
            <6> QED BY <2>3, <6>1
          <5> QED BY <4>1, <5>1, <5>2, ApplyEffect
        <4>2. CASE ~Apply(s)
          <5>1. call'[s].pc # "booking"
            BY <1>1, <1>3, <3>2, <4>2 DEF CallStep, FindLink, _matchUnlinkedBrokerExit,
               LinkSquareoff, saveOrphanOrderUpdate, appendOrderLog, Relink, CloseTrade,
               BookRealized, CallFails, Goes, Returns, Idle, CallRecord
          <5> QED BY <2>3, <5>1
        <4> QED BY <4>1, <4>2
      <3> QED BY <3>1, <3>2
    <2>4. CASE r = s /\ call'[s].u = call[s].u /\ ~IsFill(call[s].u)
      <3>1. call[s].pc \notin {"matching", "squaring"} \cup Committed
        BY <2>4 DEF OnceInv
      <3>2. call'[s].pc \notin {"matching", "squaring"} \cup Committed
        <4>1. CASE Apply(s)
          <5>1. Returns(s)
            BY <2>4, <4>1, ApplyEffect
          <5> QED BY <1>3, <5>1 DEF Returns, Idle, Committed
        <4>2. CASE ~Apply(s)
          BY <1>1, <1>3, <2>4, <3>1, <4>2 DEF CallStep, FindLink, _matchUnlinkedBrokerExit,
             LinkSquareoff, saveOrphanOrderUpdate, appendOrderLog, Relink, CloseTrade,
             ReadRealized, BookRealized, CallFails, Goes, Returns, Idle, CallRecord, Committed,
             IsFill
        <4> QED BY <4>1, <4>2
      <3> QED BY <2>4, <3>2, <1>7 DEF Committed
    <2> QED BY <1>1, <2>1, <2>2, <2>3, <2>4
  <1>8. /\ InOnePlace /\ (Travels => realized = 0) /\ realized <= 1
        /\ Travels \/ realized > 0 => \E u \in Updates : IsFill(u) /\ delivered[u] > 0
    BY DEF OnceInv
  <1>9. ASSUME InOnePlace', Travels' => realized' = 0, realized' <= 1,
               Travels' \/ realized' > 0 => Travels \/ realized > 0
        PROVE  OnceInv'
    BY <1>2, <1>5, <1>7, <1>8, <1>9 DEF OnceInv
  <1>10. CASE saveOrphanOrderUpdate(s)
    <2>1. /\ call'[s] = Idle /\ realized' = realized
          /\ orphans' = Append(orphans, call[s].u) /\ orphans \in Seq(Updates)
      BY <1>3, <1>10 DEF saveOrphanOrderUpdate, Returns, TypeInv, TypeOK
    <2>2. ~CallCarries(s)'
      BY <2>1 DEF CallCarries, Busy, Idle
    <2>3. HasFill(replays') = HasFill(replays) /\ OneFill(replays') = OneFill(replays)
      BY <1>2
    <2>4. CASE placer \notin {"idle", "placed", "linked"}
      <3>1. ~OrphansCarry'
        BY <1>2, <2>4 DEF OrphansCarry
      <3>2. InOnePlace' /\ (Travels' => Travels)
        BY <1>2, <1>4, <1>8, <2>3, <2>4, <3>1 DEF InOnePlace, Travels
      <3> QED BY <1>8, <1>9, <2>1, <3>2
    <2>5. CASE placer \in {"idle", "placed", "linked"} /\ ~IsFill(call[s].u)
      <3>1. (HasFill(orphans') <=> HasFill(orphans)) /\ (OneFill(orphans) => OneFill(orphans'))
        BY <1>6, <2>1, <2>5, OneMoreFill
      <3>2. OrphansCarry' <=> OrphansCarry
        BY <1>2, <3>1 DEF OrphansCarry
      <3>3. InOnePlace' /\ (Travels' => Travels)
        BY <1>2, <1>4, <1>8, <2>3, <3>1, <3>2 DEF InOnePlace, Travels
      <3> QED BY <1>8, <1>9, <2>1, <3>3
    <2>6. CASE placer \in {"idle", "placed", "linked"} /\ IsFill(call[s].u)
      <3>1. CallCarries(s)
        BY <1>1, <2>6 DEF CallCarries
      <3>2. /\ ~HasFill(orphans) /\ ~HasFill(replays)
            /\ \A r \in Sources : ~CallCarries(r)' /\ (r # s => ~CallCarries(r))
        BY <1>4, <1>8, <2>2, <2>6, <3>1 DEF InOnePlace, OrphansCarry
      <3>3. OneFill(orphans')
        BY <1>6, <2>1, <3>2, OneMoreFill
      <3>4. InOnePlace' /\ Travels
        BY <1>8, <2>3, <3>1, <3>2, <3>3 DEF InOnePlace, Travels
      <3> QED BY <1>8, <1>9, <2>1, <3>4
    <2> QED BY <2>4, <2>5, <2>6
  <1>11. CASE BookRealized(s)
    <2>1. /\ call'[s] = Idle /\ realized' = call[s].read + 1 /\ orphans' = orphans
          /\ call[s].pc = "booking"
      BY <1>3, <1>11 DEF BookRealized, Returns, orderVars
    <2>2. CallCarries(s) /\ call[s].read = 0
      BY <1>1, <2>1 DEF CallCarries, OnceInv, Committed
    <2>3. ~CallCarries(s)'
      BY <2>1 DEF CallCarries, Busy, Idle
    <2>4. InOnePlace' /\ HasFill(replays') = HasFill(replays) /\ OrphansCarry' = OrphansCarry
      BY <1>2, <1>4, <1>8, <2>1, CarryLess DEF OrphansCarry
    <2>5. ~Travels' /\ Travels
      BY <1>4, <1>8, <2>2, <2>3, <2>4 DEF InOnePlace, Travels
    <2> QED BY <1>9, <2>1, <2>2, <2>4, <2>5
  <1>12. CASE UNCHANGED <<orphans, realized>>
    BY <1>2, <1>4, <1>8, <1>9, <1>12, CarryLess
  <1> QED BY <1>10, <1>11, <1>12
          DEF CallStep, FindLink, _matchUnlinkedBrokerExit, LinkSquareoff, appendOrderLog,
              Relink, Apply, CloseTrade, ReadRealized, CallFails, orderVars

LEMMA NextOnce == TypeInv /\ OnceInv /\ [Next]_vars => OnceInv'
  <1> SUFFICES ASSUME TypeInv, OnceInv, [Next]_vars, Once' PROVE OnceInv'
    BY DEF OnceInv
  <1>1. setup' = setup
    BY SetupStays
  <1>2. Once
    BY <1>1 DEF Once
  <1>3. call \in [Sources -> CallRecord] /\ orphans \in Seq(Updates) /\ replays \in Seq(Updates)
    BY DEF TypeInv, TypeOK, CallRecord
  <1>4. ~HasFill(<<>>) /\ OneFill(<<>>)
    BY DEF HasFill, OneFill
  <1>5. CASE UNCHANGED <<call, orphans, replays, delivered, realized>>
             /\ (placer' \in {"idle", "placed", "linked"} <=>
                   placer \in {"idle", "placed", "linked"})
             /\ (placer \in {"popped", "replaying"} => placer' = placer)
    <2>1. /\ OrphansCarry' <=> OrphansCarry
          /\ \A s \in Sources : (CallCarries(s)' <=> CallCarries(s)) /\ (Busy(s)' <=> Busy(s))
      BY <1>5 DEF OrphansCarry, CallCarries, Busy
    <2>2. Travels' <=> Travels
      BY <1>5, <2>1 DEF Travels
    <2>3. InOnePlace'
      BY <1>2, <1>5, <2>1 DEF OnceInv, InOnePlace
    <2>4. ~Busy("watch")' /\ (Busy("replay")' => placer' = "replaying")
          /\ (replays' # <<>> => placer' \in {"popped", "replaying"})
      BY <1>2, <1>5, <2>1 DEF OnceInv, Sources
    <2> QED BY <1>2, <1>5, <2>2, <2>3, <2>4 DEF OnceInv
  <1>6. CASE Emit \/ PlaceOrder \/ linkOrder \/ UNCHANGED vars
    BY <1>5, <1>6 DEF Emit, PlaceOrder, linkOrder, vars, orderVars
  (* A call with a new update: there was no fill, or it is no fill.         *)
  <1>7. ASSUME NEW s \in {"pipeline", "replay"}, NEW u \in Updates, Receive(s, u),
               UNCHANGED placer, s = "replay" => placer = "replaying",
               replays' # <<>> => placer \in {"popped", "replaying"},
               OneFill(replays'), HasFill(replays') => HasFill(replays),
               \A v \in Updates : delivered[v] > 0 => delivered'[v] > 0,
               IsFill(u) => /\ ~HasFill(replays') /\ ~OrphansCarry /\ realized = 0
                            /\ \A r \in Sources : ~CallCarries(r)
                            /\ \E v \in Updates : IsFill(v) /\ delivered'[v] > 0
        PROVE  OnceInv'
    <2>1. s \in Sources /\ s # "watch" /\ "watch" \in Sources
      BY DEF Sources
    <2>2. /\ UNCHANGED <<link, orphans, trade, realized>>
          /\ \A r \in Sources \ {s} : call'[r] = call[r]
          /\ \/ call' = call
             \/ call'[s].pc = "finding" /\ call'[s].u = u
      BY <1>7, <2>1, ReceiveEffect
    <2>3. \A r \in Sources :
            /\ Busy(r)' => Busy(r) \/ r = s
            /\ CallCarries(r)' => CallCarries(r) \/ (r = s /\ IsFill(u))
      BY <2>2 DEF Busy, CallCarries
    <2>4. \A r \in Sources :
            /\ call'[r].pc \in {"matching", "squaring"} \cup Committed => IsFill(call'[r].u)
            /\ call'[r].pc = "booking" => call'[r].read = 0
      BY <1>2, <2>2 DEF OnceInv, Committed
    <2>5. OrphansCarry' <=> OrphansCarry
      BY <1>7, <2>2 DEF OrphansCarry
    <2>6. InOnePlace'
      BY <1>2, <1>7, <2>2, <2>3, <2>5 DEF OnceInv, InOnePlace
    <2>7. Travels' => Travels \/ IsFill(u)
      BY <1>7, <2>3, <2>5 DEF Travels
    <2>8. ~Busy("watch")' /\ (Busy("replay")' => placer' = "replaying")
      BY <1>2, <1>7, <2>1, <2>3 DEF OnceInv, Sources
    <2> QED BY <1>2, <1>7, <2>2, <2>4, <2>6, <2>7, <2>8 DEF OnceInv
  <1>8. ASSUME NEW u \in Updates, Deliver(u) PROVE OnceInv'
    <2>1. /\ delivered[u] = 0 /\ delivered'[u] > 0
          /\ \A v \in Updates : delivered[v] > 0 => delivered'[v] > 0
      <3>1. delivered \in [Updates -> Nat] /\ delivered[u] < 1
        BY <1>2, <1>8 DEF Deliver, TypeInv, TypeOK, Once
      <3> QED BY <1>8, <3>1 DEF Deliver
    <2>2. ASSUME IsFill(u) PROVE ~Travels /\ realized = 0
      <3>1. ~(\E v \in Updates : IsFill(v) /\ delivered[v] > 0)
        BY <2>1, <2>2, FillAssumption DEF IsFill
      <3> QED BY <1>2, <3>1 DEF OnceInv, TypeInv, TypeOK
    <2>3. Receive("pipeline", u) /\ UNCHANGED <<placer, replays>>
      BY <1>8 DEF Deliver
    <2>4. /\ replays' # <<>> => placer \in {"popped", "replaying"}
          /\ OneFill(replays') /\ (HasFill(replays') => HasFill(replays))
      BY <1>2, <2>3 DEF OnceInv, InOnePlace
    <2>5. IsFill(u) => /\ ~HasFill(replays') /\ ~OrphansCarry /\ realized = 0
                       /\ \A r \in Sources : ~CallCarries(r)
                       /\ \E v \in Updates : IsFill(v) /\ delivered'[v] > 0
      BY <2>1, <2>2, <2>3 DEF Travels
    <2> HIDE DEF Receive
    <2> QED BY <1>7, <2>1, <2>3, <2>4, <2>5
  <1>9. ~Poll
    BY <1>2 DEF Poll, Once
  <1>10. CASE FindOrphans
    <2>1. /\ placer = "linked" /\ replays' = orphans /\ placer' \in {"done", "popped"}
          /\ orphans # <<>> => placer' = "popped"
          /\ UNCHANGED <<call, orphans, delivered, realized>>
      BY <1>10 DEF FindOrphans, orderVars
    <2>2. \A s \in Sources : (CallCarries(s)' <=> CallCarries(s)) /\ (Busy(s)' <=> Busy(s))
      BY <2>1 DEF CallCarries, Busy
    <2>3. ~OrphansCarry' /\ (HasFill(replays') => OrphansCarry) /\ OneFill(replays')
      BY <1>2, <2>1 DEF OrphansCarry, OnceInv, InOnePlace
    <2>4. InOnePlace' /\ (Travels' => Travels)
      BY <1>2, <2>1, <2>2, <2>3 DEF OnceInv, InOnePlace, Travels
    <2>5. ~Busy("watch")' /\ ~Busy("replay")'
      BY <1>2, <2>1, <2>2 DEF OnceInv, Sources
    <2> QED BY <1>2, <2>1, <2>4, <2>5 DEF OnceInv
  <1>11. CASE DeleteOrphans \/ PopFails
    <2>1. /\ placer \in {"linked", "popped"} /\ placer' \in {"replaying", "done"}
          /\ (placer' = "replaying" /\ replays' = replays) \/ replays' = <<>>
          /\ UNCHANGED <<call, delivered, realized>>
      BY <1>11 DEF DeleteOrphans, PopFails, orderVars
    <2>2. \A s \in Sources : (CallCarries(s)' <=> CallCarries(s)) /\ (Busy(s)' <=> Busy(s))
      BY <2>1 DEF CallCarries, Busy
    <2>3. ~OrphansCarry' /\ OneFill(replays') /\ (HasFill(replays') => HasFill(replays))
      BY <1>2, <1>4, <2>1 DEF OrphansCarry, OnceInv, InOnePlace
    <2>4. InOnePlace' /\ (Travels' => Travels)
      BY <1>2, <2>1, <2>2, <2>3 DEF OnceInv, InOnePlace, Travels
    <2>5. ~Busy("watch")' /\ ~Busy("replay")'
      BY <1>2, <2>1, <2>2 DEF OnceInv, Sources
    <2> QED BY <1>2, <2>1, <2>4, <2>5 DEF OnceInv
  <1>12. CASE _replayOrphanUpdates
    <2>1. CASE replays = <<>>
      <3>1. /\ placer = "replaying" /\ placer' = "done" /\ ~Busy("replay")
            /\ UNCHANGED <<call, orphans, replays, delivered, realized>>
        BY <1>12, <2>1 DEF _replayOrphanUpdates, orderVars, Busy
      <3>2. \A s \in Sources : (CallCarries(s)' <=> CallCarries(s)) /\ (Busy(s)' <=> Busy(s))
        BY <3>1 DEF CallCarries, Busy
      <3>3. ~OrphansCarry' /\ OneFill(replays') /\ ~HasFill(replays')
        BY <1>4, <2>1, <3>1 DEF OrphansCarry
      <3>4. InOnePlace' /\ (Travels' => Travels)
        BY <1>2, <3>1, <3>2, <3>3 DEF OnceInv, InOnePlace, Travels
      <3>5. ~Busy("watch")' /\ ~Busy("replay")'
        BY <1>2, <3>1, <3>2 DEF OnceInv, Sources
      <3> QED BY <1>2, <2>1, <3>1, <3>4, <3>5 DEF OnceInv
    <2>2. CASE replays # <<>>
      <3>1. /\ placer = "replaying" /\ Receive("replay", Head(replays))
            /\ replays' = Tail(replays) /\ UNCHANGED <<placer, delivered>>
        BY <1>12, <2>2 DEF _replayOrphanUpdates
      <3>2. Head(replays) \in Updates
        BY <1>3, <2>2, HeadTailProperties
      <3>3. /\ OneFill(replays') /\ (HasFill(replays') => HasFill(replays))
            /\ IsFill(Head(replays)) => HasFill(replays) /\ ~HasFill(replays')
        BY <1>2, <1>3, <2>2, <3>1, OneFillLess DEF OnceInv, InOnePlace
      <3>4. ASSUME IsFill(Head(replays))
            PROVE  /\ ~HasFill(replays') /\ ~OrphansCarry /\ realized = 0
                   /\ \A r \in Sources : ~CallCarries(r)
                   /\ \E v \in Updates : IsFill(v) /\ delivered'[v] > 0
        BY <1>2, <3>1, <3>3, <3>4 DEF OnceInv, InOnePlace, Travels, OrphansCarry
      <3> HIDE DEF Receive
      <3> QED BY <1>7, <3>1, <3>2, <3>3, <3>4
    <2> QED BY <2>1, <2>2
  <1>13. ASSUME NEW s \in Sources, CallStep(s) PROVE OnceInv'
    BY <1>2, <1>13, CallStepOnce
  <1> QED BY <1>6, <1>8, <1>9, <1>10, <1>11, <1>12, <1>13 DEF Next, PlacerStep

-----------------------------------------------------------------------------
(* The inductive invariant, and the two properties.                         *)
IInv == TypeInv /\ QueuedInv /\ HandledInv /\ OnceInv

LEMMA InitIInv == Init => IInv
  <1> SUFFICES ASSUME Init PROVE IInv
    OBVIOUS
  <1>1. TypeInv
    BY InitTypeInv
  <1>2. \A s \in Sources : call[s] = Idle /\ ~Busy(s)
    BY DEF Init, Busy, Idle
  <1>3. QueuedInv
    <2>1. PlacedFirst
      BY <1>2 DEF Init, PlacedFirst, Sources
    <2>2. \A s \in Sources : QueuedCall(s) /\ ~call[s].held
      BY <1>2 DEF QueuedCall, Idle, Committed
    <2> QED BY <2>1, <2>2 DEF Init, QueuedInv
  <1>4. HandledInv
    <2>1. \A u \in Updates : ~Holds(orphanSeen, u) /\ delivered[u] = 0
      BY DEF Init, Holds
    <2> QED BY <1>2, <2>1 DEF Init, HandledInv, Idle
  <1>5. ~HasFill(<<>>) /\ OneFill(<<>>)
    BY DEF HasFill, OneFill
  <1>6. OnceInv
    <2>1. ~OrphansCarry /\ ~HasFill(replays) /\ \A s \in Sources : ~CallCarries(s)
      BY <1>2, <1>5 DEF Init, OrphansCarry, CallCarries
    <2> QED BY <1>2, <1>5, <2>1 DEF Init, OnceInv, InOnePlace, Travels, Committed, Idle, Sources
  <1> QED BY <1>1, <1>3, <1>4, <1>6 DEF IInv

LEMMA NextIInv == IInv /\ [Next]_vars => IInv'
  BY NextTypeInv, NextQueued, NextHandled, NextOnce DEF IInv

LEMMA IInvHolds == Spec => []IInv
  BY InitIInv, NextIInv, PTL DEF Spec

(* The profit of a close by an exit order of ours enters the realised       *)
(* profit of the day at most once (_bookRealizedPnl, tradeManager.js:22338),*)
(* however many updates there are, in whatever order, and whatever fails.   *)
THEOREM OwnExitIsBookedOnce == Spec => []OwnExitBookedOnce
  <1>1. IInv => OwnExitBookedOnce
    BY DEF IInv, QueuedInv, OnceInv, Queued, Fenced, Once, OwnExitBookedOnce
  <1> QED BY <1>1, IInvHolds, PTL

(* When the handlers have come to rest and no call to the database failed,  *)
(* every update delivered of an order of ours was applied or superseded     *)
(* (onOrderUpdate, tradeManager.js:18432), but for those that were stored   *)
(* once the orphans had been read, which only an order placed beside the    *)
(* queue can have.                                                          *)
THEOREM OnlyLateOrphansAreLost == Spec => []OnlyLateOrphansAreMissed
  <1>1. ASSUME IInv, setup.ours, ~setup.fails, Quiet, link # "none",
               NEW u \in Updates, delivered[u] > 0
        PROVE  u \in handled \cup missed
    <2>1. Kept(u) \/ LookedUp(u)
      BY <1>1 DEF IInv, HandledInv, Answered
    <2>2. placer = "done" /\ replays = <<>>
      BY <1>1 DEF IInv, HandledInv, Answered, Quiet, TypeInv, TypeOK
    <2> QED BY <1>1, <2>1, <2>2 DEF Kept, LookedUp, Early, PastLookup, Quiet, Holds
  <1>2. IInv => OnlyLateOrphansAreMissed
    BY <1>1 DEF IInv, HandledInv, Queued, OnlyLateOrphansAreMissed
  <1> QED BY <1>2, IInvHolds, PTL
=============================================================================
