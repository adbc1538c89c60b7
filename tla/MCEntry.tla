------------------------------ MODULE MCEntry ------------------------------
(* The circumstances that the runs of TradeEntry start from.                *)
EXTENDS TradeEntry

Market == [qty |-> 1, trades |-> 1, limit |-> FALSE, ladder |-> FALSE, fallback |-> FALSE,
           faults |-> 0, kinds |-> {}]
Limit == [Market EXCEPT !.limit = TRUE]
Laddered == [Limit EXCEPT !.ladder = TRUE]
Replaced == [Limit EXCEPT !.fallback = TRUE]

OneOf(kinds, s) == [s EXCEPT !.faults = 1, !.kinds = kinds]
Twice(s) == [s EXCEPT !.trades = 2]

MCSetups ==
    {OneOf({"lost"}, Twice(Market)),
     OneOf(Faults, Market),
     OneOf({"slow", "uncancelled", "unread"}, Limit),
     Laddered,
     OneOf({"uncancelled"}, Replaced),
     [Limit EXCEPT !.qty = 2]}

MCUnread == {OneOf({"unread"}, Replaced)}
MCCrash == {OneOf({"crash"}, Twice(Market))}
=============================================================================
