---------------------------- MODULE StopTrailing ----------------------------
(***************************************************************************)
(* How the protective stop of a live trade follows the price.              *)
(*                                                                         *)
(* The exit loop evaluates a plan (src/src/trading/proExitLayers.js), lets *)
(* the trade manager decide whether the broker's stop may be moved, and    *)
(* sends the modification (src/src/trading/tradeManager.js).  The broker   *)
(* may refuse it or answer late; then it is tried again, the order is      *)
(* cancelled and placed anew, or the engine watches the price itself (the  *)
(* shadow stop).  A losing trade has its stop compressed in two levels     *)
(* (src/src/trading/adaptiveLoserCompression.js), a request that only the  *)
(* broker's report makes true.                                             *)
(*                                                                         *)
(* The exit loop and the handling of order updates are commands of one     *)
(* trade and exclude each other (ExecutionCoordinator); an update reaches  *)
(* the order memory at once.  The market moves between any two steps.      *)
(*                                                                         *)
(* The trade is a long position of one lot, a price a number of ticks.     *)
(* The winner floors (green lock, ladder, early winner, post-1R) are one   *)
(* function of the peak; the break-even lock, scale-out and the target are *)
(* left out.  A panic exit ends what this module looks at: TradeLifecycle  *)
(* has the rest.                                                           *)
(***************************************************************************)
EXTENDS Integers, Sequences, FiniteSets, FiniteSetsExt

CONSTANTS
    TrailSetups,         \* the circumstances a behaviour may have
    MaxPrice,            \* bound: the prices are 1 .. MaxPrice
    MaxOrders,           \* bound: the stop orders of the trade
    ENTRY, INITIAL_STOP,
    TierOf,              \* tier of the winner ladder a peak reaches
    FloorOf,             \* the stop that tier retains, 0 when there is none
    ALC_STOP,            \* the stop of the two levels of loser compression
    TIGHTEN_TIER,        \* EXIT_TIGHTEN_AT_R as a tier
    DYN_STEP_TICKS,
    ALC_MAX_RETRIES,
    KITE_MAX_MODIFICATIONS_PER_ORDER

Prices == 1 .. MaxPrice
TrailFaults == {"unanswered", "refused", "unread", "processing", "unreported"}

(* quote: the executable price may be below the last price, and the         *)
(* conditions of an executable stop may fail; loser: the trade may fail the *)
(* test of the loser compression; moves: bound on the moves of the price.   *)
TrailSetup == [quote : BOOLEAN, loser : BOOLEAN, trail : BOOLEAN, moves : Nat, faults : Nat,
               kinds : SUBSET TrailFaults]

ASSUME TrailingAssumption ==
    /\ TrailSetups \subseteq TrailSetup
    /\ {MaxPrice, MaxOrders, DYN_STEP_TICKS, KITE_MAX_MODIFICATIONS_PER_ORDER} \subseteq Nat \ {0}
    /\ {TIGHTEN_TIER, ALC_MAX_RETRIES} \subseteq Nat
    /\ {ENTRY, INITIAL_STOP} \subseteq Prices /\ INITIAL_STOP < ENTRY
    /\ TierOf \in [Prices -> Nat] /\ TierOf[ENTRY] = 0
    /\ FloorOf \in [Prices -> 0 .. MaxPrice] /\ FloorOf[ENTRY] = 0
    /\ \A p, q \in Prices : p <= q => TierOf[p] <= TierOf[q] /\ FloorOf[p] <= FloorOf[q]
    /\ ALC_STOP \in [1 .. 2 -> Prices]
    /\ INITIAL_STOP < ALC_STOP[1] /\ ALC_STOP[1] < ALC_STOP[2] /\ ALC_STOP[2] < ENTRY

VARIABLES
    setup,     \* the circumstances: never changes
    faults,    \* the faults still to come
    moves,     \* the moves of the price still to come
    ltp,       \* the last price
    orders,    \* at the broker: the stop orders, by number
    news,      \* postbacks on their way
    queue,     \* postbacks heard, their commands still to run
    mem,       \* the order memory of the trade manager
    row,       \* the trade in the database
    cmd,       \* the command of the exit loop in progress
    rec,       \* a reconcile has read the orders, its command is still to run
    eased      \* history: the stop at the broker was ever lowered

market == <<moves, ltp, orders, news, eased>>
vars == <<setup, faults, market, queue, mem, row, cmd, rec>>

(* end: why the trade left the care of this module.                         *)
Live == row.end = "none"

NoOrder == 0
OrderIds == 1 .. MaxOrders
Pending == "TRIGGER PENDING"
Ended == {"COMPLETE", "CANCELLED"}

Idle == [pc |-> "idle"]
Unknown == [st |-> "none", trig |-> 0]

NoAlc == [target |-> 0, submitted |-> 0, applied |-> 0, pending |-> FALSE, asked |-> 0,
          retries |-> 0]

(* stop: stopLoss, brokerStopLoss and slTrigger, which the store mirrors;   *)
(* shown: the best of desiredStopLoss and telemetryProposalFloor; final:    *)
(* finalStopLoss; pend, target: protectionUpgradePending and its stop.      *)
Init ==
    /\ setup \in TrailSetups
    /\ faults = setup.faults
    /\ moves = setup.moves
    /\ ltp = ENTRY
    /\ orders = <<[st |-> Pending, trig |-> INITIAL_STOP, dying |-> FALSE]>>
    /\ news = {}
    /\ queue = <<>>
    /\ mem = [known |-> [id \in OrderIds |->
                            IF id = 1 THEN [st |-> Pending, trig |-> INITIAL_STOP]
                            ELSE Unknown],
              ended |-> {}, mods |-> [id \in OrderIds |-> 0], expected |-> {}, fails |-> 0]
    /\ row = [sl |-> 1, stop |-> INITIAL_STOP, peak |-> ENTRY, tier |-> 0, floor |-> 0,
              shown |-> INITIAL_STOP, final |-> 0, pend |-> FALSE, target |-> 0,
              shadow |-> FALSE, alc |-> NoAlc, end |-> "none"]
    /\ cmd = Idle
    /\ rec = FALSE
    /\ eased = FALSE

Fault(kind) == faults > 0 /\ kind \in setup.kinds /\ faults' = faults - 1
NoFault == UNCHANGED faults

-----------------------------------------------------------------------------
(* The broker.                                                              *)

Works(id) == orders[id].st = Pending
Position == 1 - Cardinality({id \in DOMAIN orders : orders[id].st = "COMPLETE"})
Post(id, st, trig) == [id |-> id, st |-> st, trig |-> trig]

(* The price moves; the stops it reaches are executed.                      *)
MarketMoves ==
    /\ Live /\ moves > 0 /\ moves' = moves - 1
    /\ \E p \in Prices \ {ltp} :
        LET hit == {id \in DOMAIN orders : Works(id) /\ p <= orders[id].trig}
        IN /\ ltp' = p
           /\ orders' = [id \in DOMAIN orders |->
                            IF id \in hit THEN [orders[id] EXCEPT !.st = "COMPLETE"]
                            ELSE orders[id]]
           /\ news' = news \cup {Post(id, "COMPLETE", orders[id].trig) : id \in hit}
           /\ UNCHANGED <<setup, faults, queue, mem, row, cmd, rec, eased>>

Moved(id, price) ==
    /\ orders' = [orders EXCEPT ![id].trig = price]
    /\ news' = news \cup {Post(id, Pending, price)}
    /\ eased' = (eased \/ price < orders[id].trig)
    /\ UNCHANGED <<moves, ltp>>

Cancelled(id) ==
    /\ orders' = [orders EXCEPT ![id].st = "CANCELLED"]
    /\ news' = news \cup {Post(id, "CANCELLED", orders[id].trig)}
    /\ UNCHANGED <<moves, ltp, eased>>

Placed(price) ==
    /\ orders' = Append(orders, [st |-> Pending, trig |-> price, dying |-> FALSE])
    /\ news' = news \cup {Post(Len(orders) + 1, Pending, price)}
    /\ eased' = (eased \/ price < orders[Len(orders)].trig)
    /\ UNCHANGED <<moves, ltp>>

(* A cancellation that the broker still processes goes through later.       *)
CancelLands ==
    \E id \in DOMAIN orders :
        /\ Live /\ orders[id].dying /\ Works(id)
        /\ Cancelled(id)
        /\ UNCHANGED <<setup, faults, queue, mem, row, cmd, rec>>

-----------------------------------------------------------------------------
(* The plan.  i holds what an evaluation reads besides the row.             *)

(* alc: the level the failure score asks for; stale: the pending request is *)
(* old; cool: the last attempt is recent.                                   *)
Readings ==
    {i \in [px : {ltp, ltp - 1}, trail : 0 .. ltp - 1, own : BOOLEAN, safe : BOOLEAN,
            alc : 0 .. 2, stale : BOOLEAN, cool : BOOLEAN] :
        /\ i.px < ltp => setup.quote /\ i.px > 0
        /\ ~i.safe => setup.quote
        /\ i.trail > 0 => setup.trail /\ i.trail > row.stop
        /\ i.own => i.trail > 0 /\ row.tier > 0
        /\ i.alc > 0 => setup.loser /\ i.px < ENTRY
        /\ i.stale => row.alc.pending
        /\ i.cool => row.alc.retries > 0}

Peak(i) == Max({row.peak, i.px})
Tier(i) == Max({row.tier, TierOf[Peak(i)]})
Floor(i) == Max({row.floor, FloorOf[Peak(i)]})

AlcTarget(i) == IF row.tier > 0 THEN row.alc.target
                ELSE Max({row.alc.target, row.alc.applied, i.alc})

(* The request of level 2 takes the place of the pending one of level 1.    *)
Supersedes(i) == AlcTarget(i) = 2 /\ row.alc.submitted = 1 /\ row.alc.pending

AlcActive(i) ==
    /\ row.tier = 0
    /\ AlcTarget(i) > row.alc.applied
    /\ ALC_STOP[AlcTarget(i)] > row.stop
    /\ \/ i.stale
       \/ Supersedes(i)
       \/ /\ ~row.alc.pending
          /\ row.alc.retries < ALC_MAX_RETRIES
          /\ ~i.cool

AlcConfirmed(i) ==
    row.tier = 0 /\ row.alc.applied > 0 /\ row.alc.applied >= AlcTarget(i)

AlcFloor(i) == IF AlcActive(i) THEN ALC_STOP[AlcTarget(i)] ELSE 0
WinnerFloor(i) == Max({Floor(i), IF i.own THEN i.trail ELSE 0})
OwnedByAlc(i) == AlcFloor(i) > WinnerFloor(i)

Clamp(stop) == Min({stop, ltp - 1})
Desired(i) == Max({row.stop, Clamp(Max({row.stop, AlcFloor(i), WinnerFloor(i)}))})

(* What every candidate proposes, those the gates hold back included.       *)
Proposal(i) == Clamp(Max({row.stop, AlcFloor(i), WinnerFloor(i), i.trail}))

Authorized(i) == Tier(i) > 0 \/ row.shadow \/ AlcActive(i)
Forced(i) == row.shadow \/ AlcActive(i) \/ Tier(i) > row.tier
MovesStop(i) ==
    /\ Desired(i) > row.stop \/ Tier(i) >= TIGHTEN_TIER
    /\ i.safe \/ Floor(i) > row.stop
    /\ Desired(i) - row.stop >= DYN_STEP_TICKS \/ Forced(i)

Final(i) == IF MovesStop(i) /\ Authorized(i) THEN Clamp(Desired(i) + 1) ELSE 0
FinalStop(i) == IF Final(i) > 0 THEN Final(i) ELSE Desired(i)

(* _applyProtectionStatePatch: floors and proposals never fall.             *)
Protected(i) ==
    [row EXCEPT !.peak = Peak(i), !.tier = Tier(i), !.floor = Floor(i),
                !.shown = Max({@, Desired(i), Proposal(i)}),
                !.final = IF Final(i) > 0 THEN Max({@, Final(i)}) ELSE 0,
                !.alc.target = AlcTarget(i),
                !.alc.pending = @ /\ ~AlcConfirmed(i),
                !.alc.retries = IF AlcConfirmed(i) THEN 0 ELSE @]

-----------------------------------------------------------------------------
(* The command of the exit loop.                                            *)

Evaluates == cmd = Idle /\ Live /\ row.sl # NoOrder /\ Len(orders) < MaxOrders
Panics(cause) == row' = [row EXCEPT !.end = cause] /\ cmd' = Idle

ShadowBreached(i) == row.shadow /\ i.px <= FinalStop(i)

(* evaluateDynamicSlModifyAuthority, and what the order memory says.        *)
MayModify(i) ==
    /\ Final(i) > row.stop
    /\ LET known == mem.known[row.sl].st
       IN (IF known = "none" THEN orders[row.sl].st ELSE known) = Pending

(* The pending target is as good; the protection shown in the row is better. *)
DuplicatePending(i) ==
    /\ row.pend
    /\ ~(OwnedByAlc(i) /\ i.stale)
    /\ Final(i) <= row.target
Dominated(i) == Max({Protected(i).shown, Protected(i).final}) > Final(i)

Request(i) ==
    [pc |-> "send", cand |-> Final(i), first |-> Final(i),
     alc |-> IF OwnedByAlc(i) THEN AlcTarget(i) ELSE 0,
     trail |-> ~OwnedByAlc(i) /\ WinnerFloor(i) > Floor(i), final |-> FinalStop(i),
     stop |-> row.stop, px |-> i.px, retried |-> FALSE, soft |-> FALSE, sure |-> FALSE]

Evaluate ==
    /\ Evaluates
    /\ \E i \in Readings :
          /\ ~ShadowBreached(i)
          /\ row' = Protected(i)
          /\ cmd' = IF MayModify(i) /\ ~DuplicatePending(i) /\ ~Dominated(i)
                    THEN Request(i) ELSE Idle
    /\ UNCHANGED <<setup, faults, market, queue, mem, rec>>

ShadowExit ==
    /\ Evaluates
    /\ \E i \in Readings : ShadowBreached(i)
    /\ Panics("SHADOW_EXIT_BREACH")
    /\ UNCHANGED <<setup, faults, market, queue, mem, rec>>

(* The plan says to exit: hard giveback, time stop, failed loser.           *)
ExitNow ==
    /\ Evaluates
    /\ row.tier > 0 \/ ltp < ENTRY
    /\ Panics("EXIT_NOW")
    /\ UNCHANGED <<setup, faults, market, queue, mem, rec>>

-----------------------------------------------------------------------------
(* _safeModifyOrder.                                                        *)

At(pc) == cmd.pc = pc
GoesTo(pc) == cmd' = [cmd EXCEPT !.pc = pc]
Fails(soft) == cmd' = [cmd EXCEPT !.pc = "failed", !.soft = soft]
EndsAsKnown == row.sl \in mem.ended
(* Mutant: one modification too many.                                       *)
CappedLate == mem.mods[row.sl] > KITE_MAX_MODIFICATIONS_PER_ORDER

Capped == mem.mods[row.sl] >= KITE_MAX_MODIFICATIONS_PER_ORDER

(* The memory has the price already: taken for the broker's word.           *)
SendSkips ==
    /\ At("send")
    /\ \/ EndsAsKnown /\ cmd' = Idle
       \/ /\ ~EndsAsKnown
          /\ mem.known[row.sl].trig = cmd.cand
          /\ cmd' = [cmd EXCEPT !.pc = "done", !.sure = TRUE]
    /\ UNCHANGED <<setup, faults, market, queue, mem, row, rec>>

SendsNew == At("send") /\ ~EndsAsKnown /\ mem.known[row.sl].trig # cmd.cand

Counted == mem' = [mem EXCEPT !.mods[row.sl] = @ + 1]

(* An attempt that is accepted, whose answer is lost, or that is refused.   *)
Accepts == Works(row.sl) /\ cmd.cand < ltp /\ cmd.cand # orders[row.sl].trig

Attempt ==
    /\ \/ SendsNew /\ ~Capped
       \/ At("again")
    /\ Counted
    /\ \/ Accepts /\ Moved(row.sl, cmd.cand) /\ GoesTo("done") /\ NoFault
       \/ /\ Works(row.sl) /\ cmd.cand = orders[row.sl].trig
          /\ IF cmd.retried THEN Fails(FALSE)
             ELSE cmd' = [cmd EXCEPT !.pc = "done", !.sure = TRUE]
          /\ NoFault /\ UNCHANGED market
       \/ /\ ~Works(row.sl) \/ cmd.cand >= ltp
          /\ IF cmd.retried THEN Fails(FALSE) ELSE GoesTo("retry")
          /\ NoFault /\ UNCHANGED market
       \/ /\ Fault("unanswered")
          /\ Fails(~cmd.retried)
          /\ UNCHANGED market \/ (Accepts /\ Moved(row.sl, cmd.cand))
       \/ Fault("refused") /\ Fails(FALSE) /\ UNCHANGED market
    /\ UNCHANGED <<setup, queue, row, rec>>

(* A price that was passed is tried once more, below the fresh price but    *)
(* not below the stop of the row.                                           *)
Retry ==
    /\ At("retry")
    /\ LET next == Min({cmd.cand, ltp - 2})
       IN cmd' = IF next < cmd.stop THEN [cmd EXCEPT !.pc = "failed"]
                 ELSE [cmd EXCEPT !.pc = "again", !.cand = next, !.retried = TRUE]
    /\ UNCHANGED <<setup, faults, market, queue, mem, row, rec>>

-----------------------------------------------------------------------------
(* _safeCancelOrder, by what it returns or throws.                          *)

CancelGoesOn ==
    /\ \/ EndsAsKnown /\ UNCHANGED market
       \/ ~EndsAsKnown /\ Works(row.sl) /\ Cancelled(row.sl)
    /\ NoFault

CancelProcessing ==
    /\ ~EndsAsKnown /\ Works(row.sl)
    /\ Fault("processing")
    /\ orders' = [orders EXCEPT ![row.sl].dying = TRUE]
    /\ UNCHANGED <<moves, ltp, news, eased>>

CancelRefused ==
    /\ ~EndsAsKnown
    /\ \/ ~Works(row.sl) /\ NoFault
       \/ Fault("refused")
    /\ UNCHANGED market

CancelUnanswered ==
    /\ ~EndsAsKnown
    /\ Fault("unanswered")
    /\ UNCHANGED market \/ (Works(row.sl) /\ Cancelled(row.sl))

-----------------------------------------------------------------------------
(* _handleModifyCapHit: an order modified as often as the broker allows is  *)
(* cancelled, and placed anew with the new stop.                            *)
CapHit ==
    /\ SendsNew /\ Capped
    /\ \/ /\ mem.known[row.sl] = Unknown
          /\ (orders[row.sl].st \in Ended /\ NoFault) \/ Fault("unread")
          /\ cmd' = Idle
       \/ /\ mem.known[row.sl] # Unknown \/ Works(row.sl)
          /\ NoFault
          /\ GoesTo("capCancel")
    /\ UNCHANGED <<setup, market, queue, mem, row, rec>>

(* Mutant: the new order is placed although the old one was not cancelled.  *)
CapCancelOrNot ==
    /\ At("capCancel")
    /\ \/ (CancelGoesOn \/ CancelRefused) /\ GoesTo("capPlace")
       \/ CancelProcessing /\ cmd' = Idle
       \/ CancelUnanswered /\ Fails(TRUE)
    /\ UNCHANGED <<setup, queue, mem, row, rec>>

CapCancel ==
    /\ At("capCancel")
    /\ \/ CancelGoesOn /\ GoesTo("capPlace")
       \/ CancelProcessing /\ cmd' = Idle
       \/ CancelRefused /\ Fails(FALSE)
       \/ CancelUnanswered /\ Fails(TRUE)
    /\ UNCHANGED <<setup, queue, mem, row, rec>>

CapPlace ==
    /\ At("capPlace")
    /\ \/ cmd.cand < ltp /\ NoFault /\ Placed(cmd.cand) /\ GoesTo("capLink")
       \/ /\ (cmd.cand >= ltp /\ NoFault) \/ Fault("refused")
          /\ Fails(FALSE)
          /\ UNCHANGED market
    /\ UNCHANGED <<setup, queue, mem, row, rec>>

(* The new order is remembered as OPEN, whatever was heard of it unless     *)
(* that was its end.                                                        *)
CapLink ==
    /\ At("capLink")
    /\ LET new == Len(orders)
       IN /\ row' = [row EXCEPT !.sl = new]
          /\ mem' = [mem EXCEPT !.known[new] =
                        [st |-> IF @.st \in Ended THEN @.st ELSE "OPEN", trig |-> cmd.cand]]
    /\ GoesTo("done")
    /\ UNCHANGED <<setup, faults, market, queue, rec>>

-----------------------------------------------------------------------------
(* After the call: the writes to the row.                                   *)

ClearPending(r) == [r EXCEPT !.pend = FALSE, !.target = 0]
SetPending(r, stop) == [r EXCEPT !.pend = TRUE, !.target = stop]

(* A compression that the broker did not confirm is a request: the stop of  *)
(* the row stays.                                                           *)
Done ==
    /\ At("done")
    /\ LET asked == [row EXCEPT !.shadow = FALSE, !.alc.submitted = cmd.alc,
                                !.alc.pending = TRUE, !.alc.asked = cmd.cand]
           held == ClearPending([row EXCEPT !.shadow = FALSE, !.stop = cmd.cand])
           confirmed == [held EXCEPT !.alc.submitted = cmd.alc, !.alc.applied = cmd.alc,
                                     !.alc.pending = FALSE, !.alc.retries = 0]
       IN row' = IF cmd.alc = 0 THEN held
                 ELSE IF cmd.sure THEN confirmed
                 ELSE SetPending(asked, cmd.cand)
    /\ mem' = [mem EXCEPT !.fails = 0]
    /\ cmd' = Idle
    /\ UNCHANGED <<setup, faults, market, queue, rec>>

(* An order that is found to work no more had its race with the price.      *)
FailedInRace ==
    /\ At("failed")
    /\ ~Works(row.sl)
    /\ mem' = [mem EXCEPT !.fails = 0]
    /\ cmd' = Idle
    /\ UNCHANGED <<setup, faults, market, queue, row, rec>>

StatusReadAfterFailure ==
    \/ Works(row.sl) /\ NoFault
    \/ Fault("unread")

(* _activateDynamicShadowMode, then _isShadowStopBreached.                  *)
Shadowed(r) ==
    IF cmd.px <= cmd.final THEN [r EXCEPT !.shadow = TRUE, !.end = "SHADOW_EXIT_BREACH"]
    ELSE [r EXCEPT !.shadow = TRUE]

AlcFailed(r) ==
    [r EXCEPT !.alc.retries = Min({@ + 1, ALC_MAX_RETRIES}), !.alc.asked = cmd.first]

FailedSoftly ==
    /\ At("failed") /\ cmd.soft
    /\ StatusReadAfterFailure
    /\ LET pending == SetPending(row, cmd.first)
       IN row' = IF cmd.alc = 0 THEN Shadowed(pending)
                 ELSE [AlcFailed(pending) EXCEPT !.alc.submitted = cmd.alc, !.alc.pending = TRUE]
    /\ cmd' = Idle
    /\ UNCHANGED <<setup, market, queue, mem, rec>>

(* The failure of a trail is passed over, unless another protection is armed.*)
TrailFailsSoftly ==
    /\ At("failed") /\ cmd.soft /\ cmd.trail
    /\ StatusReadAfterFailure
    /\ cmd' = Idle
    /\ UNCHANGED <<setup, market, queue, mem, row, rec>>

(* The first failure is answered with the shadow stop, the second by        *)
(* cancelling the order and placing it anew.                                *)
FailedHard ==
    /\ At("failed") /\ ~cmd.soft
    /\ StatusReadAfterFailure
    /\ LET failed == IF cmd.alc = 0 THEN row
                     ELSE ClearPending([AlcFailed(row) EXCEPT !.alc.pending = FALSE])
       IN IF mem.fails = 0
          THEN row' = Shadowed(failed) /\ cmd' = Idle
          ELSE row' = failed /\ GoesTo("cancel")
    /\ mem' = [mem EXCEPT !.fails = Min({@ + 1, 2})]
    /\ UNCHANGED <<setup, market, queue, rec>>

-----------------------------------------------------------------------------
(* _replaceDynamicSlOrder.                                                  *)

(* Mutant: the new stop is written before the cancellation is known.        *)
ReplaceWritesFirst ==
    /\ At("cancel")
    /\ mem' = [mem EXCEPT !.expected = @ \cup {row.sl}]
    /\ \/ /\ CancelGoesOn \/ CancelProcessing
          /\ row' = ClearPending([row EXCEPT !.sl = NoOrder, !.stop = cmd.first,
                                             !.shadow = FALSE])
          /\ GoesTo("place")
       \/ /\ CancelRefused \/ CancelUnanswered
          /\ row' = Shadowed([row EXCEPT !.stop = cmd.first])
          /\ cmd' = Idle
    /\ UNCHANGED <<setup, queue, rec>>

ReplaceCancels ==
    /\ At("cancel")
    /\ mem' = [mem EXCEPT !.expected = @ \cup {row.sl}]
    /\ \/ /\ CancelGoesOn \/ CancelProcessing
          /\ row' = ClearPending([row EXCEPT !.sl = NoOrder, !.stop = cmd.first,
                                             !.shadow = FALSE])
          /\ GoesTo("place")
       \/ /\ CancelRefused \/ CancelUnanswered
          /\ row' = Shadowed(row)
          /\ cmd' = Idle
    /\ UNCHANGED <<setup, queue, rec>>

(* _placeExitsIfMissing: the trade is sold when the price has passed the    *)
(* stop, or when the stop is refused.                                       *)
ReplacePlaces ==
    /\ At("place")
    /\ \/ /\ ltp > row.stop /\ NoFault
          /\ Placed(row.stop)
          /\ row' = [row EXCEPT !.sl = Len(orders) + 1]
          /\ mem' = [mem EXCEPT !.fails = 0]
          /\ cmd' = Idle
       \/ /\ ltp <= row.stop /\ NoFault
          /\ Panics("SL_ALREADY_BREACHED")
          /\ UNCHANGED <<market, mem>>
       \/ /\ ltp > row.stop /\ Fault("refused")
          /\ Panics("SL_PLACE_FAILED")
          /\ UNCHANGED <<market, mem>>
    /\ UNCHANGED <<setup, queue, rec>>

-----------------------------------------------------------------------------
(* What the broker reports.                                                 *)

(* onOrderUpdate up to the command: an update older than the end of the     *)
(* order is ignored.                                                        *)
Hear ==
    Live /\ \E n \in news :
        /\ news' = news \ {n}
        /\ IF mem.known[n.id].st \in Ended /\ n.st = Pending
           THEN UNCHANGED <<queue, mem>>
           ELSE /\ mem' = [mem EXCEPT !.known[n.id] = [st |-> n.st, trig |-> n.trig],
                                      !.ended = IF n.st \in Ended THEN @ \cup {n.id} ELSE @]
                /\ queue' = Append(queue, n)
        /\ UNCHANGED <<setup, faults, moves, ltp, orders, row, cmd, rec, eased>>

Lost ==
    Live /\ \E n \in news :
        /\ Fault("unreported")
        /\ news' = news \ {n}
        /\ UNCHANGED <<setup, moves, ltp, orders, queue, mem, row, cmd, rec, eased>>

(* The trigger confirms the stop; the first level of compression that it    *)
(* reaches counts as applied, later levels do not.                          *)
Learns(n) ==
    LET r == [row EXCEPT !.stop = Max({@, n.trig})]
    IN IF row.alc.pending /\ row.pend /\ row.alc.applied = 0 /\ n.trig >= row.alc.asked
       THEN ClearPending([r EXCEPT !.alc.applied = row.alc.submitted, !.alc.pending = FALSE])
       ELSE r

HandleUpdate ==
    /\ queue # <<>> /\ cmd = Idle /\ Live
    /\ LET n == Head(queue)
           expected == n.st = "CANCELLED" /\ n.id \in mem.expected
       IN /\ mem' = IF expected THEN [mem EXCEPT !.expected = @ \ {n.id}] ELSE mem
          /\ row' = CASE expected -> row
                      [] n.st = "COMPLETE" -> [Learns(n) EXCEPT !.end = "SL"]
                      [] n.st = "CANCELLED" /\ Position # 0 ->
                            [Learns(n) EXCEPT !.end = "SL_CANCELLED"]
                      [] OTHER -> Learns(n)
    /\ queue' = Tail(queue)
    /\ UNCHANGED <<setup, faults, market, cmd, rec>>

(* reconcile: the orders as the broker has them; then its command.          *)
ReconcileReads ==
    /\ ~rec /\ Live
    /\ rec' = TRUE
    /\ mem' = [mem EXCEPT !.known = [id \in OrderIds |->
                  IF id \in DOMAIN orders THEN [st |-> orders[id].st, trig |-> orders[id].trig]
                  ELSE Unknown]]
    /\ UNCHANGED <<setup, faults, market, queue, row, cmd>>

(* Mutant: a stop that was cancelled is not noticed.                        *)
ReconcileFills ==
    /\ rec /\ cmd = Idle /\ Live
    /\ rec' = FALSE
    /\ LET known == mem.known[row.sl].st
           flat == Position = 0
       IN row' = CASE flat /\ orders[row.sl].st # "COMPLETE" -> [row EXCEPT !.end = "FLAT"]
                   [] ~flat /\ known = "COMPLETE" -> [row EXCEPT !.end = "SL"]
                   [] OTHER -> row
    /\ UNCHANGED <<setup, faults, market, queue, mem, cmd>>

(* A flat position whose stop filled waits for the report of the fill.      *)
ReconcileTrade ==
    /\ rec /\ cmd = Idle /\ Live
    /\ rec' = FALSE
    /\ LET known == mem.known[row.sl].st
           flat == Position = 0
       IN row' = CASE flat /\ orders[row.sl].st # "COMPLETE" -> [row EXCEPT !.end = "FLAT"]
                   [] ~flat /\ known = "COMPLETE" -> [row EXCEPT !.end = "SL"]
                   [] ~flat /\ known = "CANCELLED" -> [row EXCEPT !.end = "SL_CANCELLED"]
                   [] OTHER -> row
    /\ UNCHANGED <<setup, faults, market, queue, mem, cmd>>

-----------------------------------------------------------------------------
Engine ==
    \/ SendSkips \/ Attempt \/ Retry
    \/ CapHit \/ CapCancel \/ CapPlace \/ CapLink
    \/ Done \/ FailedInRace \/ FailedSoftly \/ TrailFailsSoftly \/ FailedHard
    \/ ReplaceCancels \/ ReplacePlaces

Broker == MarketMoves \/ CancelLands \/ Lost

ExitLoop == Evaluate \/ ShadowExit \/ ExitNow

Next == Engine \/ Broker \/ ExitLoop \/ Hear \/ HandleUpdate \/ ReconcileReads \/ ReconcileTrade

Spec == Init /\ [][Next]_vars

(* The steps of a command go on; the exit loop, the postbacks and the       *)
(* reconcile, which come by timers, get their turns in the queue of the     *)
(* trade; a cancellation goes through.                                      *)
Fairness ==
    /\ WF_vars(Engine) /\ WF_vars(Hear) /\ WF_vars(CancelLands)
    /\ SF_vars(HandleUpdate) /\ WF_vars(ReconcileReads) /\ SF_vars(ReconcileTrade)

FairSpec == Spec /\ Fairness

-----------------------------------------------------------------------------
(* Properties.                                                              *)

OrderType == [st : {Pending} \cup Ended, trig : Prices, dying : BOOLEAN]
PostType == [id : OrderIds, st : {Pending} \cup Ended, trig : Prices]

(* Every variable has its type; the row names an order of the broker or, in *)
(* the middle of a replacement, none.                                       *)
TypeOK ==
    /\ setup \in TrailSetups
    /\ faults \in 0 .. setup.faults
    /\ ltp \in Prices
    /\ orders \in Seq(OrderType) /\ Len(orders) <= MaxOrders
    /\ news \subseteq PostType
    /\ queue \in Seq(PostType)
    /\ mem.ended \cup mem.expected \subseteq OrderIds
    /\ \A id \in OrderIds :
          /\ mem.known[id] = Unknown
             \/ mem.known[id] \in [st : {Pending, "OPEN"} \cup Ended, trig : Prices]
          /\ mem.mods[id] <= KITE_MAX_MODIFICATIONS_PER_ORDER + 1
    /\ row.sl \in DOMAIN orders \/ (row.sl = NoOrder /\ (At("place") \/ ~Live))
    /\ row.stop \in Prices /\ row.peak \in Prices
    /\ row.pend => row.target \in Prices

StopWorks == row.sl # NoOrder /\ Works(row.sl)

(* The stop of the row, which the risk of the trade is judged by, is not    *)
(* tighter than the stop that works at the broker, unless the broker's stop *)
(* was lowered: it is raised when the broker took the modification, said    *)
(* that it has the price already, or reported it.                           *)
RowPromisesNoMore ==
    cmd = Idle /\ Live /\ StopWorks /\ ~eased => row.stop <= orders[row.sl].trig

(* Two stops never work for one lot, whatever was modified, cancelled at    *)
(* the limit of modifications, or replaced after failures, unless the       *)
(* broker still processes a cancellation.                                   *)
OneStopWorks ==
    "processing" \notin setup.kinds =>
        Cardinality({id \in DOMAIN orders : Works(id)}) <= 1

(* A position whose stop works no more, because a replacement failed half   *)
(* way or its answer was lost, does not stay that way: it gets a stop, or   *)
(* the trade ends in a panic exit or a close.                               *)
NakedIsNoticed ==
    (Live /\ Position = 1 /\ ~\E id \in DOMAIN orders : Works(id)) ~>
        (~Live \/ \E id \in DOMAIN orders : Works(id))
=============================================================================
