----------------------- MODULE MCExecutionCoordinator -----------------------
(* Four calls on two trades: three for one trade (so that a queue of two    *)
(* forms behind a running command), one for the other.                      *)
EXTENDS ExecutionCoordinator
CONSTANTS c1, c2, c3, c4, ka, kb
CallsMC == {c1, c2, c3, c4}
KeyOfMC == [c \in CallsMC |-> IF c \in {c1, c2, c3} THEN ka ELSE kb]
DetachedMC == {c2}
=============================================================================
