--------------------------- MODULE MCStopTrailing ---------------------------
(* Prices of a few ticks: the entry at 5, the stop at 1, the two levels of  *)
(* compression at 2 and 3, the tiers of the ladder from 6 and from 7.       *)
EXTENDS StopTrailing

MCTierOf == [p \in Prices |-> IF p >= 7 THEN 2 ELSE IF p >= 6 THEN 1 ELSE 0]
MCFloorOf == [p \in Prices |-> IF p >= 7 THEN 5 ELSE IF p >= 6 THEN 4 ELSE 0]
MCAlcStop == <<2, 3>>

Trail(moves_, faults_, kinds, loser, trail, quote) ==
    [quote |-> quote, loser |-> loser, trail |-> trail, moves |-> moves_, faults |-> faults_,
     kinds |-> kinds]

MCTrailSetups ==
    {Trail(2, 3, {"unanswered", "refused"}, FALSE, FALSE, FALSE),
     Trail(2, 2, {"refused", "processing", "unread"}, FALSE, FALSE, FALSE),
     Trail(1, 3, {"refused", "unreported"}, FALSE, FALSE, FALSE),
     Trail(2, 1, {"unanswered"}, FALSE, TRUE, FALSE),
     Trail(1, 1, {"unanswered"}, TRUE, FALSE, FALSE),
     Trail(2, 0, {}, TRUE, FALSE, FALSE),
     Trail(2, 0, {}, FALSE, FALSE, TRUE)}
=============================================================================
