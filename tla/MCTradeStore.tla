----------------------------- MODULE MCTradeStore -----------------------------
(* A command that writes several times, a lone write, and a command that a  *)
(* timer makes, with the patches around the fill and the end of a trade.    *)
EXTENDS TradeStore, TLC
CONSTANTS a, b, d, e1, e2, s1, s2

Nobody == {}
LoneB == {b}
TimerD == {d}

WritesMC == [c \in Commands |-> IF c = a THEN 2 ELSE 1]
TwoWrites == [c \in Commands |-> IF c = b THEN 1 ELSE 2]

To(s) == [NoPatch EXCEPT !.status = s]
Fill == [NoPatch EXCEPT !.status = "ENTRY_FILLED", !.entry = e2]
Anchor(s) == [NoPatch EXCEPT !.stop = s]

CloseOrAnchor == {To("CLOSED"), Anchor(s2)}
FillAndClose == {Fill, To("LIVE"), To("CLOSED")}
===============================================================================
