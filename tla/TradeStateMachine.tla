-------------------------- MODULE TradeStateMachine --------------------------
(***************************************************************************)
(* The status of a trade row and the transitions updateTrade lets a patch  *)
(* make: src/src/trading/tradeStateMachine.js, and the status classes that *)
(* src/src/trading/tradeStore.js adds to them.  A module of pure           *)
(* definitions, which TradeStore extends.                                  *)
(***************************************************************************)

STATUS ==
    {"ENTRY_PLACED", "ENTRY_OPEN", "ENTRY_REPLACED", "ENTRY_CANCELLED",
     "ENTRY_FILLED", "LIVE", "SL_PLACED", "SL_OPEN", "SL_CONFIRMED",
     "EXIT_PLACED", "EXIT_OPEN", "EXIT_PARTIAL", "EXIT_FILLED",
     "PANIC_EXIT_PLACED", "PANIC_EXIT_CONFIRMED", "RECOVERY_REHYDRATED",
     "EXITED_TARGET", "EXITED_SL", "ENTRY_FAILED", "GUARD_FAILED", "CLOSED"}

ALLOWED_TRANSITIONS ==
    [s \in STATUS |->
       CASE s = "ENTRY_PLACED" ->
              {"ENTRY_OPEN", "ENTRY_FILLED", "ENTRY_FAILED", "ENTRY_CANCELLED",
               "ENTRY_REPLACED"}
         [] s = "ENTRY_OPEN" ->
              {"ENTRY_FILLED", "ENTRY_FAILED", "ENTRY_CANCELLED",
               "ENTRY_REPLACED", "GUARD_FAILED"}
         [] s = "ENTRY_REPLACED" ->
              {"ENTRY_OPEN", "ENTRY_FILLED", "ENTRY_FAILED", "ENTRY_CANCELLED",
               "GUARD_FAILED"}
         [] s = "ENTRY_FILLED" ->
              {"SL_PLACED", "SL_OPEN", "SL_CONFIRMED", "LIVE", "EXITED_TARGET",
               "EXITED_SL", "GUARD_FAILED", "CLOSED"}
         [] s = "LIVE" ->
              {"SL_OPEN", "SL_CONFIRMED", "EXIT_PLACED", "EXIT_OPEN",
               "EXIT_PARTIAL", "EXIT_FILLED", "PANIC_EXIT_PLACED",
               "PANIC_EXIT_CONFIRMED", "EXITED_TARGET", "EXITED_SL",
               "GUARD_FAILED", "CLOSED"}
         [] s = "SL_PLACED" ->
              {"SL_OPEN", "SL_CONFIRMED", "LIVE", "PANIC_EXIT_PLACED",
               "GUARD_FAILED", "CLOSED"}
         [] s = "SL_OPEN" ->
              {"SL_CONFIRMED", "PANIC_EXIT_PLACED", "GUARD_FAILED", "CLOSED"}
         [] s = "SL_CONFIRMED" ->
              {"LIVE", "EXIT_PLACED", "EXIT_OPEN", "EXIT_PARTIAL",
               "EXIT_FILLED", "EXITED_TARGET", "EXITED_SL",
               "PANIC_EXIT_CONFIRMED", "PANIC_EXIT_PLACED", "GUARD_FAILED",
               "CLOSED"}
         [] s = "EXIT_PLACED" ->
              {"EXIT_OPEN", "EXIT_PARTIAL", "EXIT_FILLED", "PANIC_EXIT_PLACED",
               "EXITED_TARGET", "EXITED_SL", "CLOSED"}
         [] s = "EXIT_OPEN" ->
              {"EXIT_PARTIAL", "EXIT_FILLED", "PANIC_EXIT_PLACED",
               "EXITED_TARGET", "EXITED_SL", "CLOSED"}
         [] s = "EXIT_PARTIAL" ->
              {"EXIT_FILLED", "PANIC_EXIT_PLACED", "EXITED_TARGET",
               "EXITED_SL", "CLOSED"}
         [] s = "PANIC_EXIT_PLACED" ->
              {"PANIC_EXIT_CONFIRMED", "GUARD_FAILED", "CLOSED"}
         [] s = "RECOVERY_REHYDRATED" ->
              {"SL_PLACED", "SL_OPEN", "SL_CONFIRMED", "LIVE", "GUARD_FAILED",
               "CLOSED"}
         [] s = "GUARD_FAILED" ->
              {"PANIC_EXIT_PLACED", "PANIC_EXIT_CONFIRMED", "CLOSED"}
         [] OTHER -> {"CLOSED"}]

TERMINAL ==
    {"CLOSED", "EXITED_TARGET", "EXITED_SL", "EXIT_FILLED",
     "PANIC_EXIT_CONFIRMED", "ENTRY_FAILED", "ENTRY_CANCELLED"}

(* A status the database holds that is no member of STATUS (an old release  *)
(* wrote it, or the field is empty) has no transition at all.               *)
canTransition(from, to) ==
    /\ to \in STATUS
    /\ from \in STATUS
    /\ \/ from = to
       \/ /\ from \in TERMINAL => to = "CLOSED"
          /\ to \in ALLOWED_TRANSITIONS[from]

-----------------------------------------------------------------------------
(* The status classes of tradeStore.js.                                     *)

TERMINAL_TRADE_STATUSES ==
    {"CLOSED", "EXITED_TARGET", "EXITED_SL", "ENTRY_FAILED",
     "ENTRY_CANCELLED", "EXIT_FILLED", "PANIC_EXIT_CONFIRMED"}

ENTRY_RELATED_STATUS_TARGETS ==
    {"ENTRY_PLACED", "ENTRY_OPEN", "ENTRY_REPLACED", "ENTRY_FILLED",
     "SL_PLACED", "SL_OPEN", "SL_CONFIRMED", "LIVE", "RECOVERY_REHYDRATED"}

(* Broker postbacks come out of order: a patch to ENTRY_FILLED is a late    *)
(* one when the row already has protection, and its status is dropped.      *)
staleEntryFill(from, to) ==
    /\ to = "ENTRY_FILLED"
    /\ from \in {"SL_PLACED", "SL_OPEN", "SL_CONFIRMED", "LIVE"}
=============================================================================
