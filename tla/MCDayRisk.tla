----------------------------- MODULE MCDayRisk -----------------------------
(* A unit loses or gains one; two trades that lose one each reach the cap.  *)
EXTENDS DayRisk

MCPnLs == {-1, 0, 1}

Circumstances(qty, partial, moves_, admin, late_, reset, auto, stops, faults_, kinds) ==
    [qty |-> qty, partial |-> partial, moves |-> moves_, admin |-> admin, late |-> late_,
     reset |-> reset, auto |-> auto, stops |-> stops, faults |-> faults_, kinds |-> kinds]

MCDaySetups ==
    {Circumstances(1, "none", 2, <<>>, TRUE, FALSE, TRUE, FALSE, 1, {"refused"}),
     Circumstances(2, "none", 1, <<>>, TRUE, FALSE, TRUE, FALSE, 1, {"database"}),
     Circumstances(1, "none", 1, <<TRUE, FALSE>>, FALSE, FALSE, FALSE, FALSE, 0, {}),
     Circumstances(1, "none", 0, <<TRUE>>, FALSE, TRUE, TRUE, FALSE, 1, {"crash", "memory"}),
     Circumstances(2, "none", 1, <<>>, FALSE, TRUE, TRUE, FALSE, 1, {"crash", "fatal"}),
     Circumstances(2, "queue", 1, <<>>, FALSE, FALSE, TRUE, FALSE, 1, {"crash"}),
     Circumstances(2, "watch", 1, <<>>, FALSE, FALSE, TRUE, FALSE, 0, {}),
     Circumstances(1, "none", 0, <<>>, TRUE, FALSE, TRUE, FALSE, 2, {"lost", "database"}),
     Circumstances(1, "none", 0, <<TRUE, FALSE>>, TRUE, FALSE, TRUE, FALSE, 0, {}),
     Circumstances(1, "none", 0, <<>>, FALSE, FALSE, TRUE, TRUE, 1, {"lost", "database", "crash"})}
MCLossOnly == {Circumstances(2, "none", 1, <<>>, FALSE, FALSE, TRUE, FALSE, 0, {})}
=============================================================================
