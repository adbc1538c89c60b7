-------------------------- MODULE MCTradeLifecycle --------------------------
(* The circumstances that the runs of TradeLifecycle start from.            *)
EXTENDS TradeLifecycle

Plain == [qty |-> 1, tp |-> FALSE, fill |-> "FAIR", timers |-> {}, faults |-> 0,
          kinds |-> {}]
WithTarget == [Plain EXCEPT !.tp = TRUE]
Slipped == [Plain EXCEPT !.fill = "ENTRY_SLIPPAGE"]
Breached == [Plain EXCEPT !.fill = "POST_FILL_RISK_HARD_BREACH"]

Timed(s, timers) == [s EXCEPT !.timers = timers]
OneOf(kinds, s) == [s EXCEPT !.faults = 1, !.kinds = kinds]

MCSetups ==
    {Timed(WithTarget, {"FORCE_FLATTEN_AT"}),
     [Plain EXCEPT !.qty = 2],
     Timed(OneOf(Faults, Plain), {"FORCE_FLATTEN_AT"}),
     Timed(Plain, {"SL_SLA", "FORCE_FLATTEN_AT"}),
     Timed(OneOf({"CANCELLED", "refused", "unread"}, Slipped), {"PANIC_TIMEOUT"}),
     OneOf({"refused"}, Breached),
     [OneOf({"refused"}, Slipped) EXCEPT !.faults = 2],
     Timed(OneOf({"CANCELLED"}, Slipped), {"FORCE_FLATTEN_AT"}),
     Timed(OneOf({"REJECTED"}, Plain), {"SL_SLA"}),
     OneOf({"unreported", "uncancelled"}, WithTarget),
     OneOf({"uncancelled", "byHand"}, Plain)}

=============================================================================
