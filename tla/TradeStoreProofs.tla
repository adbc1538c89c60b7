--------------------------- MODULE TradeStoreProofs ---------------------------
(***************************************************************************)
(* Theorems about TradeStore, for any number of commands, any patches and  *)
(* any overlap of commands.                                                *)
(***************************************************************************)
EXTENDS TradeStore, TLAPS

(* What the row becomes is a trade.                                         *)
LEMMA PatchedRowIsTrade ==
    ASSUME NEW t \in Trade, NEW p \in Patch
    PROVE  /\ patchedRow(t, p) \in Trade
           /\ patchedRow(t, p).version = t.version + 1
  BY StoreAssumption DEF patchedRow, Trade, TradesOf, Patch

LEMMA ValidatedIsPatch ==
    ASSUME NEW p \in Patch, NEW t
    PROVE  validated(p, t) \in Patch
  BY DEF validated, validatedStatus, Patch

LEMMA UnstoppedIsPatch ==
    ASSUME NEW p \in Patch
    PROVE  [p EXCEPT !.stop = NoField] \in Patch
  BY DEF Patch

LEMMA TradesOfAreTrades ==
    ASSUME NEW v \in Nat, NEW S \in SUBSET Statuses, NEW t \in TradesOf({v}, S)
    PROVE  t \in Trade /\ t.version = v
  BY DEF Trade, TradesOf

-----------------------------------------------------------------------------
(* Type correctness.                                                        *)

LEMMA FinishType ==
    ASSUME TypeOK, NEW c \in Commands, NEW result \in Outcomes,
           NEW ctx \in Commands \cup {NoCommand}, NEW t \in Trade \cup {NoTrade},
           Finish(c, result, ctx, t)
    PROVE  /\ pc' \in [Commands -> Phases]
           /\ outcome' \in [Commands -> Outcomes]
           /\ patch' \in [Commands -> Patch]
           /\ guard' \in [Commands -> Nat \cup {NoVersion}]
           /\ context' \in [Commands -> Trade \cup {NoTrade}]
           /\ unchecked' \in [Commands -> BOOLEAN]
  <1>1. NoPatch \in Patch
    BY DEF NoPatch, Patch
  <1>2. pc' \in [Commands -> Phases] /\ outcome' \in [Commands -> Outcomes]
    BY DEF TypeOK, Finish, Phases
  <1>3. patch' \in [Commands -> Patch]
    BY <1>1 DEF TypeOK, Finish
  <1>4. guard' \in [Commands -> Nat \cup {NoVersion}]
    BY DEF TypeOK, Finish
  <1>5. context' \in [Commands -> Trade \cup {NoTrade}]
    BY DEF TypeOK, Finish
  <1>6. unchecked' \in [Commands -> BOOLEAN]
    BY DEF TypeOK, Finish
  <1> QED BY <1>2, <1>3, <1>4, <1>5, <1>6

LEMMA ValidateType ==
    ASSUME TypeOK, NEW c \in Commands, NEW p \in Patch,
           NEW current \in Trade \cup {NoTrade}, NEW version \in Nat \cup {NoVersion},
           NEW ctx \in Commands \cup {NoCommand},
           Validate(c, p, current, version, ctx)
    PROVE  /\ pc' \in [Commands -> Phases]
           /\ outcome' \in [Commands -> Outcomes]
           /\ patch' \in [Commands -> Patch]
           /\ guard' \in [Commands -> Nat \cup {NoVersion}]
           /\ context' \in [Commands -> Trade \cup {NoTrade}]
           /\ unchecked' \in [Commands -> BOOLEAN]
  <1>1. CASE Finish(c, "MISSING", ctx, NoTrade)
    BY <1>1, FinishType DEF Outcomes
  <1>2. CASE Finish(c, "NOOP_TERMINAL_STALE", ctx, current)
    BY <1>2, FinishType DEF Outcomes
  <1>3. CASE /\ current # NoTrade
             /\ pc' = [pc EXCEPT ![c] =
                         IF needsStopCheck(p) THEN "checking" ELSE "saving"]
             /\ patch' = [patch EXCEPT ![c] = validated(p, current)]
             /\ guard' = [guard EXCEPT ![c] =
                            IF version = NoVersion THEN current.version ELSE version]
             /\ outcome' = [outcome EXCEPT ![c] = "none"]
             /\ UNCHANGED <<context, unchecked>>
    <2>1. current.version \in Nat
      BY <1>3 DEF Trade, TradesOf
    <2>2. pc' \in [Commands -> Phases] /\ outcome' \in [Commands -> Outcomes]
      BY <1>3 DEF TypeOK, Phases, Outcomes
    <2>3. patch' \in [Commands -> Patch]
      BY <1>3, ValidatedIsPatch DEF TypeOK
    <2>4. guard' \in [Commands -> Nat \cup {NoVersion}]
      BY <1>3, <2>1 DEF TypeOK
    <2> QED BY <1>3, <2>2, <2>3, <2>4 DEF TypeOK
  <1> QED BY <1>1, <1>2, <1>3 DEF Validate

LEMMA InitType == Init => TypeOK
  <1> SUFFICES ASSUME Init PROVE TypeOK
    OBVIOUS
  <1>1. NoPatch \in Patch
    BY DEF NoPatch, Patch
  <1>2. row \in Trade \cup {NoTrade}
    BY DEF Init, Trade, TradesOf
  <1> QED BY <1>1, <1>2 DEF Init, TypeOK, Phases, Outcomes

LEMMA NextType == TypeOK /\ [Next]_vars => TypeOK'
  <1> SUFFICES ASSUME TypeOK, [Next]_vars PROVE TypeOK'
    OBVIOUS
  <1> USE DEF TypeOK
  <1>1. ASSUME NEW t \in TradesOf({1}, InsertedStatuses), insertTrade(t) PROVE TypeOK'
    <2>1. t \in Trade
      BY TradesOfAreTrades DEF InsertedStatuses
    <2> QED BY <1>1, <2>1 DEF insertTrade, writeVars, history
  <1>2. ASSUME NEW c \in Commands, NEW p \in Commands, Call(c, p) PROVE TypeOK'
    BY <1>2 DEF Call, history, Phases
  <1>3. ASSUME NEW c \in Commands, Begin(c) PROVE TypeOK'
    BY <1>3 DEF Begin, writeVars, history, Phases
  <1>4. ASSUME NEW c \in Commands, NEW m \in BOOLEAN, Load(c, m) PROVE TypeOK'
    BY <1>4 DEF Load, Enter, writeVars, history, Phases
  <1>5. ASSUME NEW c \in Commands, NEW s \in BOOLEAN, LoadFails(c, s) PROVE TypeOK'
    BY <1>5 DEF LoadFails, Enter, writeVars, history, Phases
  <1>6. ASSUME NEW c \in Commands, End(c) PROVE TypeOK'
    BY <1>6 DEF End, Phases, Outcomes
  <1>7. ASSUME NEW c \in Commands, NEW p \in Patches, NEW held \in BOOLEAN,
               _updateTrade(c, p, held)
        PROVE  TypeOK'
    <2> DEFINE ctx == IF c \in Direct /\ ~WritesBare(c) THEN using[c] ELSE contexts
               current == IF held THEN local[c]
                          ELSE IF ctx # NoCommand THEN context[ctx] ELSE NoTrade
               version == IF held THEN local[c].version
                          ELSE IF ctx # NoCommand THEN versionOf(context[ctx])
                          ELSE NoVersion
    <2>1. p \in Patch
      BY StoreAssumption
    <2>2. ctx \in Commands \cup {NoCommand}
      OBVIOUS
    <2>3. current \in Trade \cup {NoTrade}
      BY <2>2
    <2>4. version \in Nat \cup {NoVersion}
      <3>1. CASE held
        BY <1>7, <3>1 DEF _updateTrade, Trade, TradesOf
      <3>2. CASE ~held
        BY <2>2, <3>2 DEF versionOf, Trade, TradesOf
      <3> QED BY <3>1, <3>2
    <2> HIDE DEF ctx, current, version
    <2>5. /\ pc' \in [Commands -> Phases]
          /\ outcome' \in [Commands -> Outcomes]
          /\ patch' \in [Commands -> Patch]
          /\ guard' \in [Commands -> Nat \cup {NoVersion}]
          /\ context' \in [Commands -> Trade \cup {NoTrade}]
          /\ unchecked' \in [Commands -> BOOLEAN]
      <3>1. CASE Validate(c, p, current, version, ctx)
        BY <2>1, <2>2, <2>3, <2>4, <3>1, ValidateType
      <3>2. CASE /\ pc' = [pc EXCEPT ![c] = "reading"]
                 /\ patch' = [patch EXCEPT ![c] = p]
                 /\ guard' = [guard EXCEPT ![c] = version]
                 /\ outcome' = [outcome EXCEPT ![c] = "none"]
                 /\ UNCHANGED <<context, unchecked>>
        BY <2>1, <2>4, <3>2 DEF Phases, Outcomes
      <3> QED BY <1>7, <3>1, <3>2 DEF _updateTrade, ctx, current, version
    <2>6. /\ using' \in [Commands -> Commands \cup {NoCommand}]
          /\ entryRelated' \in [Commands -> BOOLEAN]
          /\ retried' \in [Commands -> BOOLEAN]
          /\ landed' \in [Commands -> Nat]
          /\ writes' \in [Commands -> Nat]
      BY <1>7, <2>2 DEF _updateTrade, ctx, collectEntryRelatedPatchKeys
    <2> QED BY <1>7, <2>5, <2>6 DEF _updateTrade
  <1>8. ASSUME NEW c \in Commands, ReadCurrent(c) PROVE TypeOK'
    <2>1. Validate(c, patch[c], row, guard[c], using[c])
      BY <1>8 DEF ReadCurrent
    <2>2. /\ pc' \in [Commands -> Phases]
          /\ outcome' \in [Commands -> Outcomes]
          /\ patch' \in [Commands -> Patch]
          /\ guard' \in [Commands -> Nat \cup {NoVersion}]
          /\ context' \in [Commands -> Trade \cup {NoTrade}]
          /\ unchecked' \in [Commands -> BOOLEAN]
      BY <2>1, ValidateType
    <2> QED BY <1>8, <2>2 DEF ReadCurrent
  <1>9. ASSUME NEW c \in Commands, NEW s \in BOOLEAN, CheckStop(c, s) PROVE TypeOK'
    <2>1. patch[c] \in Patch
      OBVIOUS
    <2>2. [patch[c] EXCEPT !.stop = NoField] \in Patch
      BY <2>1, UnstoppedIsPatch
    <2> QED BY <1>9, <2>2 DEF CheckStop, history, Phases
  <1>10. ASSUME NEW c \in Commands, Save(c) PROVE TypeOK'
    <2>1. row' \in Trade /\ landed' \in [Commands -> Nat]
      BY <1>10, PatchedRowIsTrade DEF Save, Land, buildTradeVersionFilter
    <2>2. Finish(c, "APPLIED", using[c], row')
      BY <1>10 DEF Save
    <2>3. /\ pc' \in [Commands -> Phases]
          /\ outcome' \in [Commands -> Outcomes]
          /\ patch' \in [Commands -> Patch]
          /\ guard' \in [Commands -> Nat \cup {NoVersion}]
          /\ context' \in [Commands -> Trade \cup {NoTrade}]
          /\ unchecked' \in [Commands -> BOOLEAN]
      BY <2>1, <2>2, FinishType DEF Outcomes
    <2> QED BY <1>10, <2>1, <2>3 DEF Save
  <1>11. ASSUME NEW c \in Commands, SaveMisses(c) PROVE TypeOK'
    BY <1>11 DEF SaveMisses, writeVars, history, Phases
  <1>12. ASSUME NEW c \in Commands, NEW t \in BOOLEAN, SaveFails(c, t) PROVE TypeOK'
    <2>1. row' \in Trade \cup {NoTrade} /\ landed' \in [Commands -> Nat]
      <3>1. CASE UNCHANGED <<row, landed>>
        BY <3>1
      <3>2. CASE Land(c)
        <4>1. row \in Trade /\ patch[c] \in Patch
          BY <3>2 DEF Land, buildTradeVersionFilter
        <4>2. row' \in Trade
          BY <3>2, <4>1, PatchedRowIsTrade DEF Land
        <4>3. landed' \in [Commands -> Nat]
          BY <3>2 DEF Land
        <4> QED BY <4>2, <4>3
      <3> QED BY <1>12, <3>1, <3>2 DEF SaveFails
    <2>2. CASE t /\ ~retried[c]
      BY <1>12, <2>1, <2>2 DEF SaveFails
    <2>3. CASE ~(t /\ ~retried[c])
      <3>1. Finish(c, "thrown", NoCommand, NoTrade)
        BY <1>12, <2>3 DEF SaveFails
      <3>2. /\ pc' \in [Commands -> Phases]
            /\ outcome' \in [Commands -> Outcomes]
            /\ patch' \in [Commands -> Patch]
            /\ guard' \in [Commands -> Nat \cup {NoVersion}]
            /\ context' \in [Commands -> Trade \cup {NoTrade}]
            /\ unchecked' \in [Commands -> BOOLEAN]
        BY <3>1, FinishType DEF Outcomes
      <3> QED BY <1>12, <2>1, <2>3, <3>2 DEF SaveFails
    <2> QED BY <2>2, <2>3
  <1>13. ASSUME NEW c \in Commands, Reread(c) PROVE TypeOK'
    <2>1. \/ Finish(c, "NOOP_TERMINAL_STALE", using[c], row)
          \/ Finish(c, "CONFLICT", using[c], row)
      BY <1>13 DEF Reread
    <2>2. /\ pc' \in [Commands -> Phases]
          /\ outcome' \in [Commands -> Outcomes]
          /\ patch' \in [Commands -> Patch]
          /\ guard' \in [Commands -> Nat \cup {NoVersion}]
          /\ context' \in [Commands -> Trade \cup {NoTrade}]
          /\ unchecked' \in [Commands -> BOOLEAN]
      BY <2>1, FinishType DEF Outcomes
    <2>3. local' \in [Commands -> Trade \cup {NoTrade}]
      BY <1>13 DEF Reread
    <2> QED BY <1>13, <2>2, <2>3 DEF Reread
  <1>14. CASE UNCHANGED vars
    BY <1>14 DEF vars, writeVars, history
  <1> QED BY <1>1, <1>2, <1>3, <1>4, <1>5, <1>6, <1>7, <1>8, <1>9, <1>10,
             <1>11, <1>12, <1>13, <1>14 DEF Next

(* The variables have their types in every reachable state.                 *)
THEOREM TypeCorrect == Spec => []TypeOK
  BY InitType, NextType, PTL DEF Spec

-----------------------------------------------------------------------------
(* The inductive invariant.  The row only ever grows, so a copy stays a     *)
(* copy and the guard of a write in progress stays behind the row.          *)

Grows(r, s) ==
    /\ s \in Trade
    /\ r # NoTrade => s = r \/ s.version = r.version + 1

LEMMA VersionIsNat ==
    ASSUME NEW t \in Trade
    PROVE  t.version \in Nat /\ t # NoTrade
  BY StoreAssumption DEF Trade, TradesOf

LEMMA CopyKept ==
    ASSUME NEW t \in Trade \cup {NoTrade}, NEW r \in Trade \cup {NoTrade}, NEW s,
           IsCopyOf(t, r), Grows(r, s)
    PROVE  IsCopyOf(t, s)
  <1>1. CASE t = NoTrade
    BY <1>1 DEF IsCopyOf
  <1>2. CASE t # NoTrade
    <2>1. /\ r \in Trade /\ s \in Trade /\ t \in Trade
          /\ r.version \in Nat /\ s.version \in Nat /\ t.version \in Nat
      BY <1>2, VersionIsNat DEF IsCopyOf, Grows
    <2> QED BY <1>2, <2>1, VersionIsNat DEF IsCopyOf, Grows
  <1> QED BY <1>1, <1>2

LEMMA CopyOfItself ==
    ASSUME NEW r \in Trade
    PROVE  IsCopyOf(r, r)
  BY VersionIsNat DEF IsCopyOf

(* What the growth of the row leaves to a command that takes no step.       *)
LEMMA WriteKept ==
    ASSUME TypeOK, NEW d \in Commands, WriteInv(d), Grows(row, row') \/ row' = row,
           pc'[d] = pc[d], guard'[d] = guard[d], patch'[d] = patch[d],
           landed'[d] = landed[d], retried'[d] = retried[d], outcome'[d] = outcome[d],
           unchecked'[d] = unchecked[d]
    PROVE  WriteInv(d)'
  <1> USE DEF TypeOK
  <1>0. guard[d] \in Int
    BY DEF NoVersion
  <1>1. CASE row' = row
    BY <1>1 DEF WriteInv, GuardIsOld, PendingIsValid, LandsOnce, ResultIsTrue
  <1>2. CASE Grows(row, row') /\ row' # row
    <2>1. row' \in Trade /\ row'.version \in Nat /\ row' # NoTrade
      BY <1>2, VersionIsNat DEF Grows
    <2>2. CASE row = NoTrade
      <3>1. pc[d] \notin {"checking", "saving", "rereading"}
        BY <2>2 DEF WriteInv, GuardIsOld
      <3>2. pc[d] = "reading" => guard[d] <= 0
        BY <2>2 DEF WriteInv, GuardIsOld, versionOf
      <3>3. GuardIsOld(d)'
        BY <1>0, <2>1, <3>1, <3>2 DEF GuardIsOld, versionOf
      <3>4. PendingIsValid(d)' /\ LandsOnce(d)' /\ ResultIsTrue(d)'
        BY <3>1 DEF WriteInv, PendingIsValid, LandsOnce, ResultIsTrue
      <3> QED BY <3>3, <3>4 DEF WriteInv
    <2>3. CASE row # NoTrade
      <3>1. row.version \in Nat /\ row'.version = row.version + 1
        BY <1>2, <2>3, VersionIsNat DEF Grows
      <3>2. GuardIsOld(d)'
        BY <1>0, <2>1, <2>3, <3>1 DEF WriteInv, GuardIsOld, versionOf
      <3>3. pc[d] \in {"checking", "saving"} => guard[d] # row'.version
        BY <3>1 DEF WriteInv, GuardIsOld
      <3>4. PendingIsValid(d)' /\ LandsOnce(d)' /\ ResultIsTrue(d)'
        BY <3>3 DEF WriteInv, PendingIsValid, LandsOnce, ResultIsTrue
      <3> QED BY <3>2, <3>4 DEF WriteInv
    <2> QED BY <2>2, <2>3
  <1> QED BY <1>1, <1>2

LEMMA InitIInv == Init => IInv
  <1> SUFFICES ASSUME Init PROVE IInv
    OBVIOUS
  <1>1. TypeOK
    BY InitType
  <1>2. CopiesAreSnapshots
    BY DEF Init, CopiesAreSnapshots, IsCopyOf
  <1>3. \A c \in Commands : WriteInv(c)
    BY DEF Init, WriteInv, GuardIsOld, PendingIsValid, LandsOnce, ResultIsTrue
  <1> QED BY <1>1, <1>2, <1>3 DEF IInv

(* A result: the context that takes its trade stays a copy of the row.      *)
LEMMA FinishCopies ==
    ASSUME TypeOK, NEW c \in Commands, NEW result, NEW ctx \in Commands \cup {NoCommand},
           NEW t, IsCopyOf(t, row'), Finish(c, result, ctx, t),
           \A e \in Commands : IsCopyOf(context[e], row'),
           NEW e \in Commands
    PROVE  IsCopyOf(context'[e], row')
  BY DEF TypeOK, Finish

(* A write that is over has nothing pending.                                *)
LEMMA FinishedWrite ==
    ASSUME NEW c \in Commands, TypeOK', pc'[c] = "handling", ResultIsTrue(c)'
    PROVE  WriteInv(c)'
  BY DEF WriteInv, GuardIsOld, PendingIsValid, LandsOnce

(* What validation on a copy of the row means for the row.                  *)
LEMMA ValidatedWrite ==
    ASSUME NEW p \in Patch, NEW t \in Trade, NEW r \in Trade, IsCopyOf(t, r),
           t.version = r.version
    PROVE  /\ validated(p, t).status # NoField =>
                 canTransition(r.status, validated(p, t).status)
           /\ validated(p, t).entry = p.entry
           /\ ~needsStopCheck(p) => ~blockedStop(validated(p, t), r)
  <1>1. t = r
    BY VersionIsNat DEF IsCopyOf
  <1> QED BY <1>1 DEF validated, validatedStatus, needsStopCheck, blockedStop, Patch

(* Validate on a copy of the row.  The version it is to be guarded with is  *)
(* the copy's own, or the copy is the row itself and the version is none or *)
(* no later than the row's.                                                 *)
LEMMA ValidateInv ==
    ASSUME TypeOK, TypeOK', CopiesAreSnapshots, row' = row,
           NEW c \in Commands, NEW p \in Patch,
           NEW current \in Trade \cup {NoTrade}, IsCopyOf(current, row),
           NEW version \in Nat \cup {NoVersion},
           \/ current = row /\ version <= versionOf(row)
           \/ current # NoTrade /\ version = current.version,
           NEW ctx \in Commands \cup {NoCommand},
           landed'[c] = 0,
           Validate(c, p, current, version, ctx)
    PROVE  /\ WriteInv(c)'
           /\ \A e \in Commands : IsCopyOf(context'[e], row')
  <1>1. \A e \in Commands : IsCopyOf(context[e], row')
    BY DEF CopiesAreSnapshots
  <1>2. CASE Finish(c, "MISSING", ctx, NoTrade)
    <2>1. IsCopyOf(NoTrade, row')
      BY DEF IsCopyOf
    <2>2. pc'[c] = "handling" /\ outcome'[c] = "MISSING"
      BY <1>2 DEF Finish, TypeOK
    <2> QED BY <1>1, <1>2, <2>1, <2>2, FinishCopies, FinishedWrite DEF ResultIsTrue
  <1>3. CASE Finish(c, "NOOP_TERMINAL_STALE", ctx, current)
    <2>1. IsCopyOf(current, row')
      OBVIOUS
    <2>2. pc'[c] = "handling" /\ outcome'[c] = "NOOP_TERMINAL_STALE"
      BY <1>3 DEF Finish, TypeOK
    <2> QED BY <1>1, <1>3, <2>1, <2>2, FinishCopies, FinishedWrite DEF ResultIsTrue
  <1>4. CASE /\ current # NoTrade
             /\ collectEntryRelatedPatchKeys(p) =>
                   current.status \notin TERMINAL_TRADE_STATUSES
             /\ pc' = [pc EXCEPT ![c] =
                         IF needsStopCheck(p) THEN "checking" ELSE "saving"]
             /\ patch' = [patch EXCEPT ![c] = validated(p, current)]
             /\ guard' = [guard EXCEPT ![c] =
                            IF version = NoVersion THEN current.version ELSE version]
             /\ outcome' = [outcome EXCEPT ![c] = "none"]
             /\ UNCHANGED <<context, unchecked>>
    <2> DEFINE g == IF version = NoVersion THEN current.version ELSE version
    <2>1. /\ pc'[c] = IF needsStopCheck(p) THEN "checking" ELSE "saving"
          /\ patch'[c] = validated(p, current)
          /\ guard'[c] = g
          /\ outcome'[c] = "none"
      BY <1>4 DEF TypeOK
    <2>2. /\ row \in Trade /\ row.version \in Nat /\ current.version \in Nat
          /\ row # NoTrade /\ current \in Trade /\ current.version <= row.version
      BY <1>4, VersionIsNat DEF IsCopyOf, TypeOK
    <2>3. g \in 0 .. row.version
      BY <2>2 DEF NoVersion, versionOf
    <2>4. g = row.version => current.version = row.version
      BY <2>2
    <2>5. GuardIsOld(c)'
      BY <2>1, <2>2, <2>3 DEF GuardIsOld
    <2>6. ASSUME guard'[c] = row'.version PROVE PendingIsValid(c)'
      <3>1. current = row
        BY <2>1, <2>2, <2>4, <2>6 DEF IsCopyOf
      <3>2. /\ patch'[c].status # NoField => canTransition(row.status, patch'[c].status)
            /\ patch'[c].entry = p.entry
            /\ pc'[c] = "checking" \/ ~blockedStop(patch'[c], row)
        BY <2>1, <2>2, <3>1, ValidatedWrite
      <3>3. patch'[c].entry # NoField => row.status \notin TERMINAL_TRADE_STATUSES
        BY <1>4, <3>1, <3>2 DEF collectEntryRelatedPatchKeys
      <3> QED BY <3>2, <3>3 DEF PendingIsValid
    <2>7. PendingIsValid(c)'
      BY <2>6 DEF PendingIsValid
    <2>8. LandsOnce(c)' /\ ResultIsTrue(c)'
      BY <2>1, <2>2 DEF LandsOnce, ResultIsTrue
    <2> QED BY <1>1, <1>4, <2>5, <2>7, <2>8 DEF WriteInv
  <1> QED BY <1>2, <1>3, <1>4 DEF Validate

(* What is left to show of a step of c.                                     *)
LEMMA StepKeeps ==
    ASSUME IInv, TypeOK', NEW c \in Commands,
           Grows(row, row') \/ row' = row,
           WriteInv(c)',
           \A e \in Commands : IsCopyOf(context'[e], row') /\ IsCopyOf(local'[e], row'),
           \A d \in Commands \ {c} :
               /\ pc'[d] = pc[d] /\ guard'[d] = guard[d] /\ patch'[d] = patch[d]
               /\ unchecked'[d] = unchecked[d]
               /\ landed'[d] = landed[d] /\ retried'[d] = retried[d]
               /\ outcome'[d] = outcome[d]
    PROVE  IInv'
  <1>1. ASSUME NEW d \in Commands PROVE WriteInv(d)'
    <2>1. CASE d = c
      BY <2>1
    <2>2. CASE d # c
      BY <2>2, WriteKept DEF IInv
    <2> QED BY <2>1, <2>2
  <1>2. CopiesAreSnapshots'
    BY DEF CopiesAreSnapshots
  <1> QED BY <1>1, <1>2 DEF IInv

LEMMA CopiesKept ==
    ASSUME TypeOK, CopiesAreSnapshots, Grows(row, row') \/ row' = row,
           NEW e \in Commands
    PROVE  IsCopyOf(context[e], row') /\ IsCopyOf(local[e], row')
  BY CopyKept DEF TypeOK, CopiesAreSnapshots

LEMMA LandGrows ==
    ASSUME TypeOK, NEW c \in Commands, Land(c)
    PROVE  /\ Grows(row, row') /\ row' \in Trade /\ row \in Trade
           /\ row.version = guard[c] /\ row'.version = row.version + 1
           /\ landed'[c] = landed[c] + 1
           /\ \A d \in Commands \ {c} : landed'[d] = landed[d]
  <1>1. row \in Trade /\ patch[c] \in Patch /\ row.version = guard[c]
    BY DEF TypeOK, Land, buildTradeVersionFilter
  <1>2. row' \in Trade /\ row'.version = row.version + 1
    BY <1>1, PatchedRowIsTrade DEF Land
  <1> QED BY <1>1, <1>2 DEF Grows, Land, TypeOK

LEMMA NextIInv == IInv /\ [Next]_vars => IInv'
  <1> SUFFICES ASSUME IInv, [Next]_vars PROVE IInv'
    OBVIOUS
  <1> USE DEF IInv
  <1>0. TypeOK /\ TypeOK'
    BY NextType
  <1>c. \A e \in Commands : IsCopyOf(context[e], row) /\ IsCopyOf(local[e], row)
    BY DEF CopiesAreSnapshots
  <1>n. \A r \in {row, row'} : IsCopyOf(NoTrade, r) /\ (r \in Trade => IsCopyOf(r, r))
    BY CopyOfItself DEF IsCopyOf
  <1>1. ASSUME NEW t \in TradesOf({1}, InsertedStatuses), insertTrade(t) PROVE IInv'
    <2>1. Grows(row, row')
      BY <1>1, TradesOfAreTrades DEF insertTrade, InsertedStatuses, Grows
    <2>2. \A d \in Commands : WriteInv(d)'
      BY <1>0, <1>1, <2>1, WriteKept DEF insertTrade, writeVars, history
    <2>3. CopiesAreSnapshots'
      BY <1>0, <1>1, <2>1, CopiesKept DEF insertTrade, CopiesAreSnapshots
    <2> QED BY <1>0, <2>2, <2>3
  <1>2. ASSUME NEW c \in Commands, NEW p \in Commands, Call(c, p) PROVE IInv'
    <2>1. WriteInv(c)'
      BY <1>0, <1>2 DEF Call, history, TypeOK, WriteInv, GuardIsOld, PendingIsValid,
                        LandsOnce, ResultIsTrue
    <2>2. \A e \in Commands : IsCopyOf(context'[e], row') /\ IsCopyOf(local'[e], row')
      BY <1>0, <1>2, <1>c, <1>n DEF Call, TypeOK
    <2> QED BY <1>0, <1>2, <2>1, <2>2, StepKeeps DEF Call, history, TypeOK
  <1>3. ASSUME NEW c \in Commands, Begin(c) PROVE IInv'
    <2>1. WriteInv(c)'
      BY <1>0, <1>3 DEF Begin, history, writeVars, TypeOK, WriteInv, GuardIsOld,
                        PendingIsValid, LandsOnce, ResultIsTrue
    <2>2. \A e \in Commands : IsCopyOf(context'[e], row') /\ IsCopyOf(local'[e], row')
      BY <1>3, <1>c DEF Begin
    <2> QED BY <1>0, <1>3, <2>1, <2>2, StepKeeps DEF Begin, history, writeVars, TypeOK
  <1>4. ASSUME NEW c \in Commands,
               \/ \E m \in BOOLEAN : Load(c, m)
               \/ \E s \in BOOLEAN : LoadFails(c, s)
        PROVE  IInv'
    <2>1. WriteInv(c)'
      BY <1>0, <1>4 DEF Load, LoadFails, Enter, history, writeVars, TypeOK, WriteInv,
                        GuardIsOld, PendingIsValid, LandsOnce, ResultIsTrue
    <2>2. \A e \in Commands : IsCopyOf(context'[e], row') /\ IsCopyOf(local'[e], row')
      BY <1>0, <1>4, <1>c, <1>n DEF Load, LoadFails, Enter, TypeOK
    <2> QED BY <1>0, <1>4, <2>1, <2>2, StepKeeps
            DEF Load, LoadFails, Enter, history, writeVars, TypeOK
  <1>5. ASSUME NEW c \in Commands, End(c) PROVE IInv'
    <2>1. WriteInv(c)'
      BY <1>0, <1>5 DEF End, TypeOK, WriteInv, GuardIsOld, PendingIsValid, LandsOnce,
                        ResultIsTrue
    <2>2. \A e \in Commands : IsCopyOf(context'[e], row') /\ IsCopyOf(local'[e], row')
      BY <1>0, <1>5, <1>c, <1>n DEF End, TypeOK
    <2> QED BY <1>0, <1>5, <2>1, <2>2, StepKeeps DEF End, TypeOK
  <1>6. ASSUME NEW c \in Commands, NEW p \in Patches, NEW held \in BOOLEAN,
               _updateTrade(c, p, held)
        PROVE  IInv'
    <2> DEFINE ctx == IF c \in Direct /\ ~WritesBare(c) THEN using[c] ELSE contexts
               current == IF held THEN local[c]
                          ELSE IF ctx # NoCommand THEN context[ctx] ELSE NoTrade
               version == IF held THEN local[c].version
                          ELSE IF ctx # NoCommand THEN versionOf(context[ctx])
                          ELSE NoVersion
    <2>1. /\ p \in Patch /\ ctx \in Commands \cup {NoCommand}
          /\ current \in Trade \cup {NoTrade} /\ IsCopyOf(current, row)
      BY <1>0, <1>c, <1>n, StoreAssumption DEF TypeOK
    <2>2. current # NoTrade => version = current.version
      BY StoreAssumption, <2>1 DEF versionOf
    <2>3. version \in Nat \cup {NoVersion} /\ version <= versionOf(row)
      <3>1. CASE current # NoTrade
        <4>1. version = current.version /\ current \in Trade
          BY <2>1, <2>2, <3>1
        <4>2. row \in Trade /\ current.version <= row.version /\ row # NoTrade
          BY <1>0, <2>1, <3>1 DEF IsCopyOf, TypeOK
        <4> HIDE DEF current, version, ctx
        <4> QED BY <4>1, <4>2, VersionIsNat DEF versionOf
      <3>2. CASE current = NoTrade
        <4>1. versionOf(row) \in Nat
          BY <1>0, VersionIsNat DEF TypeOK, versionOf
        <4>2. ~held /\ version \in {0, NoVersion}
          BY <1>6, <3>2 DEF _updateTrade, versionOf
        <4> QED BY <4>1, <4>2 DEF NoVersion
      <3> QED BY <3>1, <3>2
    <2>4. /\ pc[c] = "handling" /\ row' = row /\ local' = local
          /\ landed'[c] = 0 /\ retried'[c] = FALSE
          /\ \A d \in Commands \ {c} : landed'[d] = landed[d] /\ retried'[d] = retried[d]
      BY <1>0, <1>6 DEF _updateTrade, TypeOK
    <2>5. \/ Validate(c, p, current, version, ctx) /\ current # NoTrade
          \/ /\ pc' = [pc EXCEPT ![c] = "reading"]
             /\ patch' = [patch EXCEPT ![c] = p]
             /\ guard' = [guard EXCEPT ![c] = version]
             /\ outcome' = [outcome EXCEPT ![c] = "none"]
             /\ UNCHANGED <<context, unchecked>>
      BY <1>6 DEF _updateTrade
    <2> HIDE DEF ctx, current, version
    <2>6. CASE Validate(c, p, current, version, ctx) /\ current # NoTrade
      <3>1. /\ WriteInv(c)'
            /\ \A e \in Commands : IsCopyOf(context'[e], row')
        BY <1>0, <2>1, <2>2, <2>3, <2>4, <2>6, ValidateInv
      <3>2. \A d \in Commands \ {c} :
                /\ pc'[d] = pc[d] /\ guard'[d] = guard[d] /\ patch'[d] = patch[d]
                /\ unchecked'[d] = unchecked[d]
                /\ outcome'[d] = outcome[d]
        BY <1>0, <2>6 DEF Validate, Finish, TypeOK
      <3> QED BY <1>0, <1>c, <2>4, <3>1, <3>2, StepKeeps
    <2>7. CASE /\ pc' = [pc EXCEPT ![c] = "reading"]
               /\ patch' = [patch EXCEPT ![c] = p]
               /\ guard' = [guard EXCEPT ![c] = version]
               /\ outcome' = [outcome EXCEPT ![c] = "none"]
               /\ UNCHANGED <<context, unchecked>>
      <3>1. pc'[c] = "reading" /\ guard'[c] = version /\ outcome'[c] = "none"
        BY <1>0, <2>7 DEF TypeOK
      <3>2. WriteInv(c)'
        BY <2>3, <2>4, <3>1 DEF WriteInv, GuardIsOld, PendingIsValid, LandsOnce, ResultIsTrue
      <3> QED BY <1>0, <1>c, <2>4, <2>7, <3>2, StepKeeps DEF TypeOK
    <2> QED BY <2>5, <2>6, <2>7
  <1>7. ASSUME NEW c \in Commands, ReadCurrent(c) PROVE IInv'
    <2>1. /\ Validate(c, patch[c], row, guard[c], using[c])
          /\ row' = row /\ local' = local /\ landed' = landed /\ retried' = retried
          /\ pc[c] = "reading"
      BY <1>7 DEF ReadCurrent
    <2>2. landed'[c] = 0 /\ guard[c] <= versionOf(row)
      BY <2>1 DEF WriteInv, LandsOnce, GuardIsOld
    <2>3. /\ row \in Trade \cup {NoTrade} /\ IsCopyOf(row, row) /\ patch[c] \in Patch
          /\ guard[c] \in Nat \cup {NoVersion} /\ using[c] \in Commands \cup {NoCommand}
      BY <1>0, <1>n DEF TypeOK
    <2>4. WriteInv(c)' /\ \A e \in Commands : IsCopyOf(context'[e], row')
      BY <1>0, <2>1, <2>2, <2>3, ValidateInv
    <2>5. \A d \in Commands \ {c} :
              /\ pc'[d] = pc[d] /\ guard'[d] = guard[d] /\ patch'[d] = patch[d]
              /\ unchecked'[d] = unchecked[d]
              /\ outcome'[d] = outcome[d]
      BY <1>0, <2>1 DEF Validate, Finish, TypeOK
    <2> QED BY <1>0, <1>c, <2>1, <2>4, <2>5, StepKeeps
  <1>8. ASSUME NEW c \in Commands, NEW skipped \in BOOLEAN, CheckStop(c, skipped)
        PROVE  IInv'
    <2>1. /\ pc[c] = "checking" /\ pc'[c] = "saving" /\ row' = row /\ guard' = guard
          /\ landed' = landed /\ retried' = retried /\ outcome' = outcome
          /\ patch[c] \in Patch /\ row # NoTrade /\ guard[c] \in 0 .. row.version
          /\ landed[c] = 0 /\ outcome[c] = "none"
      BY <1>0, <1>8 DEF CheckStop, history, TypeOK, WriteInv, GuardIsOld, LandsOnce
    <2>2. /\ patch'[c].status = patch[c].status /\ patch'[c].entry = patch[c].entry
          /\ \A d \in Commands \ {c} : unchecked'[d] = unchecked[d]
          /\ unchecked'[c] \/ ~blockedStop(patch'[c], row)
      BY <1>0, <1>8, <2>1 DEF CheckStop, TypeOK, Patch, blockedStop
    <2>3. PendingIsValid(c)'
      BY <2>1, <2>2 DEF WriteInv, PendingIsValid
    <2>4. WriteInv(c)'
      BY <2>1, <2>3 DEF WriteInv, GuardIsOld, LandsOnce, ResultIsTrue
    <2>5. \A e \in Commands : IsCopyOf(context'[e], row') /\ IsCopyOf(local'[e], row')
      BY <1>8, <1>c DEF CheckStop
    <2> QED BY <1>0, <1>8, <2>1, <2>2, <2>4, <2>5, StepKeeps DEF CheckStop, TypeOK
  <1>9. ASSUME NEW c \in Commands, Save(c) PROVE IInv'
    <2>1. /\ Land(c) /\ Finish(c, "APPLIED", using[c], row') /\ local' = local
          /\ retried' = retried /\ pc[c] = "saving"
      BY <1>9 DEF Save
    <2>2. /\ Grows(row, row') /\ row' \in Trade /\ row.version = guard[c]
          /\ landed'[c] = landed[c] + 1
          /\ \A d \in Commands \ {c} : landed'[d] = landed[d]
      BY <1>0, <2>1, LandGrows
    <2>3. landed[c] = 0
      <3>1. landed[c] \in Nat /\ WriteInv(c)
        BY <1>0 DEF TypeOK
      <3>2. landed[c] <= 1 /\ landed[c] # 1
        BY <2>1, <2>2, <3>1 DEF WriteInv, LandsOnce, ResultIsTrue
      <3> QED BY <3>1, <3>2
    <2>4. pc'[c] = "handling" /\ outcome'[c] = "APPLIED"
      BY <1>0, <2>1 DEF Finish, TypeOK
    <2>5. WriteInv(c)'
      BY <1>0, <2>2, <2>3, <2>4, FinishedWrite DEF ResultIsTrue
    <2>6. \A e \in Commands : IsCopyOf(context[e], row') /\ IsCopyOf(local[e], row')
      BY <1>0, <2>2, CopiesKept
    <2>7. \A e \in Commands : IsCopyOf(context'[e], row')
      BY <1>0, <1>n, <2>1, <2>2, <2>6, FinishCopies DEF TypeOK
    <2> QED BY <1>0, <2>1, <2>2, <2>5, <2>6, <2>7, StepKeeps DEF Finish, TypeOK
  <1>10. ASSUME NEW c \in Commands, SaveMisses(c) PROVE IInv'
    <2>1. WriteInv(c)'
      BY <1>0, <1>10 DEF SaveMisses, history, writeVars, TypeOK, WriteInv, GuardIsOld,
                         PendingIsValid, LandsOnce, ResultIsTrue
    <2>2. \A e \in Commands : IsCopyOf(context'[e], row') /\ IsCopyOf(local'[e], row')
      BY <1>10, <1>c DEF SaveMisses
    <2> QED BY <1>0, <1>10, <2>1, <2>2, StepKeeps DEF SaveMisses, history, writeVars, TypeOK
  <1>11. ASSUME NEW c \in Commands, NEW transient \in BOOLEAN, SaveFails(c, transient)
         PROVE  IInv'
    <2>1. pc[c] = "saving" /\ local' = local /\ (Land(c) \/ UNCHANGED <<row, landed>>)
      BY <1>11 DEF SaveFails
    <2>2. /\ Grows(row, row') \/ row' = row
          /\ \A d \in Commands \ {c} : landed'[d] = landed[d]
      BY <1>0, <2>1, LandGrows
    <2>3. /\ row # NoTrade /\ row \in Trade /\ row' # NoTrade /\ row' \in Trade
          /\ guard[c] \in 0 .. row.version
          /\ \/ row' = row /\ landed'[c] = landed[c]
             \/ /\ row.version = guard[c] /\ row'.version = row.version + 1
                /\ landed[c] = 0 /\ landed'[c] = 1
      <3>1. row # NoTrade /\ row \in Trade /\ guard[c] \in 0 .. row.version
        BY <1>0, <2>1 DEF WriteInv, GuardIsOld, TypeOK
      <3>2. CASE UNCHANGED <<row, landed>>
        BY <3>1, <3>2
      <3>3. CASE Land(c)
        <4>1. /\ row.version = guard[c] /\ row'.version = row.version + 1
              /\ row' \in Trade /\ landed'[c] = landed[c] + 1
          BY <1>0, <3>3, LandGrows
        <4>2. landed[c] = 0
          <5>1. landed[c] \in Nat /\ WriteInv(c)
            BY <1>0 DEF TypeOK
          <5>2. landed[c] <= 1 /\ landed[c] # 1
            BY <2>1, <4>1, <5>1 DEF WriteInv, LandsOnce, ResultIsTrue
          <5> QED BY <5>1, <5>2
        <4> QED BY <3>1, <4>1, <4>2, VersionIsNat
      <3> QED BY <2>1, <3>2, <3>3
    <2>4. \A e \in Commands : IsCopyOf(context[e], row') /\ IsCopyOf(local[e], row')
      BY <1>0, <2>2, CopiesKept
    <2>5. landed'[c] <= 1 /\ row.version \in Nat /\ row'.version \in Nat
      BY <2>3, VersionIsNat DEF WriteInv, ResultIsTrue
    <2>6. CASE transient /\ ~retried[c]
      <3>1. /\ pc' = pc /\ outcome' = outcome /\ patch' = patch /\ guard' = guard
            /\ unchecked' = unchecked
            /\ context' = context /\ retried' = [retried EXCEPT ![c] = TRUE]
        BY <1>11, <2>6 DEF SaveFails
      <3>2. landed[c] = 0 /\ outcome[c] = "none"
        BY <2>1, <2>6 DEF WriteInv, LandsOnce
      <3>3. GuardIsOld(c)'
        BY <2>1, <2>3, <2>5, <3>1 DEF GuardIsOld
      <3>4. PendingIsValid(c)'
        <4>1. CASE row' = row
          BY <3>1, <4>1 DEF WriteInv, PendingIsValid
        <4>2. CASE row'.version = row.version + 1
          BY <2>3, <2>5, <3>1, <4>2 DEF PendingIsValid
        <4> QED BY <2>3, <4>1, <4>2
      <3>5. LandsOnce(c)' /\ ResultIsTrue(c)'
        BY <1>0, <2>1, <2>3, <2>5, <3>1, <3>2 DEF LandsOnce, ResultIsTrue, TypeOK
      <3>6. WriteInv(c)'
        BY <3>3, <3>4, <3>5 DEF WriteInv
      <3> QED BY <1>0, <2>1, <2>2, <2>4, <3>1, <3>6, StepKeeps DEF TypeOK
    <2>7. CASE ~(transient /\ ~retried[c])
      <3>1. Finish(c, "thrown", NoCommand, NoTrade) /\ retried' = retried
        BY <1>11, <2>7 DEF SaveFails
      <3>2. pc'[c] = "handling" /\ outcome'[c] = "thrown" /\ context' = context
        BY <1>0, <3>1 DEF Finish, TypeOK
      <3>3. WriteInv(c)'
        BY <1>0, <2>5, <3>2, FinishedWrite DEF ResultIsTrue
      <3> QED BY <1>0, <2>1, <2>2, <2>4, <3>1, <3>2, <3>3, StepKeeps DEF Finish, TypeOK
    <2> QED BY <2>6, <2>7
  <1>12. ASSUME NEW c \in Commands, Reread(c) PROVE IInv'
    <2>1. /\ pc[c] = "rereading" /\ row' = row /\ landed' = landed /\ retried' = retried
          /\ \/ Finish(c, "NOOP_TERMINAL_STALE", using[c], row)
             \/ Finish(c, "CONFLICT", using[c], row)
          /\ local' = local \/ local' = [local EXCEPT ![c] = row]
      BY <1>12 DEF Reread
    <2>2. /\ pc'[c] = "handling" /\ outcome'[c] \in {"NOOP_TERMINAL_STALE", "CONFLICT"}
          /\ \A d \in Commands \ {c} :
                /\ pc'[d] = pc[d] /\ guard'[d] = guard[d] /\ patch'[d] = patch[d]
                /\ unchecked'[d] = unchecked[d]
                /\ outcome'[d] = outcome[d]
      BY <1>0, <2>1 DEF Finish, TypeOK
    <2>3. landed[c] <= 1 /\ (~retried[c] => landed[c] = 0)
      BY <2>1 DEF WriteInv, LandsOnce, ResultIsTrue
    <2>4. WriteInv(c)'
      BY <1>0, <2>1, <2>2, <2>3, FinishedWrite DEF ResultIsTrue
    <2>5. row \in Trade /\ IsCopyOf(row, row')
      BY <1>0, <1>n, <2>1 DEF WriteInv, GuardIsOld, TypeOK
    <2>6. \A e \in Commands : IsCopyOf(context'[e], row')
      BY <1>0, <1>c, <2>1, <2>5, FinishCopies DEF TypeOK
    <2>7. \A e \in Commands : IsCopyOf(local'[e], row')
      BY <1>0, <1>c, <2>1, <2>5 DEF TypeOK
    <2> QED BY <1>0, <2>1, <2>2, <2>4, <2>6, <2>7, StepKeeps
  <1>13. CASE UNCHANGED vars
    BY <1>13 DEF vars, writeVars, history, TypeOK, CopiesAreSnapshots, WriteInv, GuardIsOld,
                 PendingIsValid, LandsOnce, ResultIsTrue
  <1> QED BY <1>1, <1>2, <1>3, <1>4, <1>5, <1>6, <1>7, <1>8, <1>9, <1>10, <1>11,
             <1>12, <1>13 DEF Next

LEMMA Invariance == Spec => []IInv
  BY InitIInv, NextIInv, PTL DEF Spec

-----------------------------------------------------------------------------
(* Every cached trade is a trade the row once was, so that a version that   *)
(* still matches means a row that is still the same.                        *)
THEOREM CopiesStaySnapshots == Spec => []CopiesAreSnapshots
  BY Invariance, PTL DEF IInv

(* A result that reports a landed write is true, a write lands at most once *)
(* although it is retried, and a refusal without a failure is true.         *)
THEOREM ResultsStayTrue == Spec => []ResultsAreTrue
  <1>1. IInv => ResultsAreTrue
    BY DEF IInv, WriteInv, ResultsAreTrue
  <1> QED BY <1>1, Invariance, PTL

(* The steps that change the row.                                           *)
LEMMA RowSteps ==
    ASSUME IInv, [Next]_vars, row # NoTrade, row' # row
    PROVE  \E c \in Commands : pc[c] = "saving" /\ Land(c)
  BY DEF Next, insertTrade, Call, Begin, Load, LoadFails, End, _updateTrade, ReadCurrent,
         CheckStop, Save, SaveMisses, SaveFails, Reread, vars

LEMMA LandIsLegal ==
    ASSUME IInv, NEW c \in Commands, pc[c] = "saving", Land(c)
    PROVE  /\ row'.status = row.status \/ canTransition(row.status, row'.status)
           /\ row.status \in TERMINAL_TRADE_STATUSES => row'.entry = row.entry
           /\ row.stop # NoField => row'.stop = row.stop \/ unchecked[c]
           /\ row' # NoTrade
  <1>1. row \in Trade /\ row.version = guard[c] /\ patch[c] \in Patch /\ row' # NoTrade
    BY LandGrows, VersionIsNat DEF IInv, TypeOK
  <1>2. row' = patchedRow(row, patch[c])
    BY DEF Land
  <1>3. PendingIsValid(c)
    BY DEF IInv, WriteInv
  <1>4. /\ patch[c].status # NoField => canTransition(row.status, patch[c].status)
        /\ patch[c].entry # NoField => row.status \notin TERMINAL_TRADE_STATUSES
        /\ unchecked[c] \/ ~blockedStop(patch[c], row)
    BY <1>1, <1>3 DEF PendingIsValid
  <1> QED BY <1>1, <1>2, <1>4 DEF patchedRow, blockedStop

(* Every status the row ever takes is one ALLOWED_TRANSITIONS leads to from *)
(* the status before, however commands overlap and whatever copies they     *)
(* validated their patches on.                                              *)
THEOREM StatusesMoveLegally == Spec => LegalTransitions
  <1>1. IInv /\ [Next]_vars =>
           [row # NoTrade => /\ row' # NoTrade
                             /\ \/ row'.status = row.status
                                \/ canTransition(row.status, row'.status)]_row
    BY RowSteps, LandIsLegal
  <1> QED BY <1>1, Invariance, PTL DEF Spec, LegalTransitions

(* No write changes what the row of a finished trade says of its entry.     *)
THEOREM EntryFactsFrozen == Spec => TerminalFactsFrozen
  <1>1. IInv /\ [Next]_vars =>
           [row # NoTrade /\ row.status \in TERMINAL_TRADE_STATUSES =>
               row'.entry = row.entry]_row
    BY RowSteps, LandIsLegal
  <1> QED BY <1>1, Invariance, PTL DEF Spec, TerminalFactsFrozen

(* The strategy stop of a trade, once set, is changed by no write but one   *)
(* whose guard could not be read, whatever fails: a write that was checked  *)
(* on a copy reaches the row only while the row is that copy.               *)
THEOREM StrategyStopStays == Spec => StrategyStopFixed
  <1>1. IInv /\ [Next]_vars =>
           [row # NoTrade /\ row.stop # NoField =>
               row'.stop = row.stop \/ LandsUnchecked]_vars
    <2> SUFFICES ASSUME IInv, [Next]_vars, row # NoTrade, row.stop # NoField,
                        row'.stop # row.stop
                 PROVE  LandsUnchecked
      OBVIOUS
    <2>1. PICK c \in Commands : pc[c] = "saving" /\ Land(c)
      BY RowSteps
    <2>2. unchecked[c]
      BY <2>1, LandIsLegal
    <2>3. landed[c] \in Nat /\ landed'[c] = landed[c] + 1
      BY <2>1, LandGrows DEF IInv, TypeOK
    <2> QED BY <2>1, <2>2, <2>3 DEF LandsUnchecked
  <1> QED BY <1>1, Invariance, PTL DEF Spec, StrategyStopFixed

-----------------------------------------------------------------------------
(* Without callbacks that escape the queue, one command is in progress; it  *)
(* owns the context, and the version its write is guarded with is that of a *)
(* trade it holds.  A context without a trade was made before the row was.  *)
Working(c) == pc[c] \in {"handling", "reading", "checking", "saving", "rereading"}
Guards(c) ==
    \/ \E t \in {context[c], local[c]} : t # NoTrade /\ guard[c] = t.version
    \/ context[c] = NoTrade /\ guard[c] = 0
OwnWrite(c) ==
    c \notin Direct =>
        /\ pc[c] \in {"reading", "checking", "saving", "rereading"} => using[c] = c
        /\ pc[c] \in {"reading", "checking", "saving"} => Guards(c)
LateRow(c) == context[c] = NoTrade => row = NoTrade \/ row.version >= 1
SerialInv ==
    /\ identity = [c \in Commands |-> c]
    /\ \A c, d \in Commands : InProgress(c) /\ InProgress(d) => c = d
    /\ contexts # NoCommand => Working(contexts)
    /\ \A c \in Commands : Working(c) => contexts = c /\ LateRow(c) /\ OwnWrite(c)

LEMMA SerialKept ==
    ASSUME TypeOK, SerialInv, NEW c \in Commands, InProgress(c), identity' = identity,
           \A d \in Commands \ {c} : pc'[d] = pc[d],
           \/ contexts' = NoCommand /\ ~Working(c)'
           \/ contexts' = c /\ Working(c)' /\ LateRow(c)' /\ OwnWrite(c)'
    PROVE  SerialInv'
  <1>1. \A d \in Commands \ {c} : ~InProgress(d) /\ ~InProgress(d)'
    BY DEF SerialInv, InProgress
  <1>2. \A d \in Commands : Working(d)' => InProgress(d)'
    BY DEF Working, InProgress
  <1> QED BY <1>1, <1>2, StoreAssumption DEF SerialInv

LEMMA ValidateOwn ==
    ASSUME TypeOK, NEW c \in Commands, NEW p, NEW current, NEW version,
           NEW ctx, c \notin Direct => ctx = c,
           Validate(c, p, current, version, ctx),
           LateRow(c), row' = row, contexts = c, contexts' = contexts,
           local' = local, c \notin Direct => using'[c] = c,
           c \notin Direct =>
             \/ \E t \in {context[c], local[c]} : t # NoTrade /\ version = t.version
             \/ context[c] = NoTrade /\ version = 0
    PROVE  /\ \A d \in Commands \ {c} : pc'[d] = pc[d]
           /\ Working(c)' /\ LateRow(c)' /\ OwnWrite(c)'
  <1>1. CASE \/ current = NoTrade /\ Finish(c, "MISSING", ctx, NoTrade)
             \/ current # NoTrade /\ Finish(c, "NOOP_TERMINAL_STALE", ctx, current)
    <2>1. pc' = [pc EXCEPT ![c] = "handling"] /\ (context'[c] = NoTrade => context[c] = NoTrade)
      BY <1>1 DEF Finish, TypeOK
    <2> QED BY <2>1 DEF Working, LateRow, OwnWrite, TypeOK
  <1>2. CASE /\ pc' = [pc EXCEPT ![c] = IF needsStopCheck(p) THEN "checking" ELSE "saving"]
             /\ guard' = [guard EXCEPT ![c] =
                            IF version = NoVersion THEN current.version ELSE version]
             /\ context' = context
    <2>0. c \notin Direct => version # NoVersion
      <3>1. \A t \in {context[c], local[c]} : t # NoTrade => t.version \in Nat
        BY DEF TypeOK, Trade, TradesOf
      <3> QED BY <3>1 DEF NoVersion
    <2>1. (c \notin Direct => guard'[c] = version) /\ pc'[c] \in {"checking", "saving"}
      BY <1>2, <2>0 DEF TypeOK
    <2> QED BY <1>2, <2>1 DEF Working, LateRow, OwnWrite, Guards, TypeOK
  <1> QED BY <1>1, <1>2 DEF Validate

LEMMA FinishOwn ==
    ASSUME TypeOK, NEW c \in Commands, NEW result, NEW ctx, NEW t, Finish(c, result, ctx, t),
           LateRow(c), row' = row \/ (row' # NoTrade /\ row'.version >= 1)
    PROVE  /\ \A d \in Commands \ {c} : pc'[d] = pc[d]
           /\ Working(c)' /\ LateRow(c)' /\ OwnWrite(c)'
  <1>1. pc' = [pc EXCEPT ![c] = "handling"] /\ (context'[c] = NoTrade => context[c] = NoTrade)
    BY DEF Finish, TypeOK
  <1> QED BY <1>1 DEF Working, LateRow, OwnWrite, TypeOK

LEMMA SerialStep ==
    ASSUME Detached = {}, IInv, SerialInv, [Next]_vars
    PROVE  SerialInv'
  <1>0. /\ TypeOK /\ NoCommand \notin Commands
        /\ \A c \in Commands : ~WritesBare(c) /\ Queued(c) /\ identity[c] = c
    BY StoreAssumption DEF IInv, WritesBare, Queued, SerialInv
  <1>1. \A c \in Commands : Working(c) => InProgress(c)
    BY DEF Working, InProgress
  <1>2. ASSUME NEW c \in Commands, Working(c)
        PROVE  InProgress(c) /\ contexts = c /\ LateRow(c) /\ OwnWrite(c)
    BY <1>1, <1>2 DEF SerialInv
  <1>3. ASSUME NEW t \in TradesOf({1}, InsertedStatuses), insertTrade(t) PROVE SerialInv'
    BY <1>3 DEF insertTrade, writeVars, history, SerialInv, InProgress, Working, LateRow,
                OwnWrite, Guards, TradesOf
  <1>4. ASSUME NEW c \in Commands, NEW p \in Commands, Call(c, p) PROVE SerialInv'
    <2>1. /\ pc[c] = "idle" /\ pc' = [pc EXCEPT ![c] = "called"] /\ identity' = identity
          /\ UNCHANGED <<row, contexts, context, guard>>
          /\ \A d \in Commands \ {c} : local'[d] = local[d] /\ using'[d] = using[d]
      BY <1>0, <1>4 DEF Call, TypeOK
    <2> QED BY <1>0, <2>1 DEF SerialInv, InProgress, Working, LateRow, OwnWrite, Guards, TypeOK
  <1>5. ASSUME NEW c \in Commands, Begin(c) PROVE SerialInv'
    <2>1. /\ pc[c] = "called" /\ \A d \in Commands : ~InProgress(d)
          /\ UNCHANGED <<row, contexts, context, guard, local, using, identity>>
      BY <1>0, <1>5 DEF Begin, writeVars
    <2>2. contexts = NoCommand
      BY <1>0, <1>1, <2>1 DEF SerialInv, TypeOK
    <2>3. pc' = [pc EXCEPT ![c] = "loading"]
      BY <1>0, <1>5, <2>2 DEF Begin
    <2> QED BY <1>0, <2>1, <2>2, <2>3 DEF SerialInv, InProgress, Working, TypeOK
  <1>6. ASSUME NEW c \in Commands, NEW t, pc[c] = "loading", Enter(c, t),
               t = NoTrade => row = NoTrade, UNCHANGED <<row, identity>>
        PROVE  SerialInv'
    <2>1. /\ pc' = [pc EXCEPT ![c] = "handling"] /\ contexts' = c /\ context'[c] = t
          /\ InProgress(c)
      BY <1>0, <1>6 DEF Enter, TypeOK, InProgress
    <2>2. Working(c)' /\ LateRow(c)' /\ OwnWrite(c)' /\ \A d \in Commands \ {c} : pc'[d] = pc[d]
      BY <1>0, <1>6, <2>1 DEF Working, LateRow, OwnWrite, TypeOK
    <2> QED BY <1>0, <1>6, <2>1, <2>2, SerialKept
  <1>7. ASSUME NEW c \in Commands, pc[c] = "loading", pc' = [pc EXCEPT ![c] = "done"],
               UNCHANGED <<identity, contexts, context>>
        PROVE  SerialInv'
    <2>1. InProgress(c) /\ ~Working(c) /\ \A d \in Commands \ {c} : ~InProgress(d)
      BY <1>7 DEF SerialInv, InProgress, Working
    <2>2. contexts = NoCommand
      BY <1>0, <1>1, <2>1 DEF SerialInv, TypeOK
    <2>3. ~Working(c)' /\ \A d \in Commands \ {c} : pc'[d] = pc[d]
      BY <1>0, <1>7 DEF Working, TypeOK
    <2> QED BY <1>0, <1>7, <2>1, <2>2, <2>3, SerialKept
  <1>8. ASSUME NEW c \in Commands, NEW allowMissing \in BOOLEAN, Load(c, allowMissing)
        PROVE  SerialInv'
    BY <1>6, <1>7, <1>8 DEF Load
  <1>9. ASSUME NEW c \in Commands, NEW seeded \in BOOLEAN, LoadFails(c, seeded)
        PROVE  SerialInv'
    BY <1>6, <1>7, <1>9 DEF LoadFails
  <1>10. ASSUME NEW c \in Commands, End(c) PROVE SerialInv'
    <2>1. Working(c)
      BY <1>10 DEF End, Working
    <2>2. contexts' = NoCommand /\ identity' = identity /\ pc' = [pc EXCEPT ![c] = "done"]
      BY <1>2, <1>10, <2>1 DEF End
    <2>3. ~Working(c)' /\ \A d \in Commands \ {c} : pc'[d] = pc[d]
      BY <1>0, <2>2 DEF Working, TypeOK
    <2> QED BY <1>0, <1>2, <2>1, <2>2, <2>3, SerialKept
  <1>11. ASSUME NEW c \in Commands, NEW p \in Patches, NEW held \in BOOLEAN,
                _updateTrade(c, p, held)
         PROVE  SerialInv'
    <2> DEFINE ctx == IF c \in Direct /\ ~WritesBare(c) THEN using[c] ELSE contexts
               current == IF held THEN local[c]
                          ELSE IF ctx # NoCommand THEN context[ctx] ELSE NoTrade
               version == IF held THEN local[c].version
                          ELSE IF ctx # NoCommand THEN versionOf(context[ctx])
                          ELSE NoVersion
    <2>1. /\ pc[c] = "handling" /\ Working(c)
          /\ UNCHANGED <<row, identity, contexts, local>>
          /\ using' = [using EXCEPT ![c] = ctx]
          /\ held => local[c] # NoTrade /\ c \notin Direct
      BY <1>11 DEF _updateTrade, Working
    <2>2. InProgress(c) /\ contexts = c /\ LateRow(c) /\ OwnWrite(c)
      BY <1>2, <2>1
    <2>3. c \notin Direct => ctx = c /\ using'[c] = c
      BY <1>0, <2>1, <2>2 DEF TypeOK
    <2>4. c \notin Direct =>
            \/ \E t \in {context[c], local[c]} : t # NoTrade /\ version = t.version
            \/ context[c] = NoTrade /\ version = 0
      BY <1>0, <2>1, <2>3 DEF versionOf
    <2> HIDE DEF ctx, current, version
    <2>5. CASE pc' = [pc EXCEPT ![c] = "reading"] /\ guard' = [guard EXCEPT ![c] = version]
               /\ context' = context
      <3>1. pc'[c] = "reading" /\ guard'[c] = version /\ \A d \in Commands \ {c} : pc'[d] = pc[d]
        BY <1>0, <2>5 DEF TypeOK
      <3>2. Working(c)' /\ LateRow(c)' /\ OwnWrite(c)'
        BY <2>1, <2>2, <2>3, <2>4, <2>5, <3>1 DEF Working, LateRow, OwnWrite, Guards
      <3> QED BY <1>0, <2>1, <2>2, <3>1, <3>2, SerialKept
    <2>6. CASE Validate(c, p, current, version, ctx) /\ current # NoTrade
      <3>1. /\ \A d \in Commands \ {c} : pc'[d] = pc[d]
            /\ Working(c)' /\ LateRow(c)' /\ OwnWrite(c)'
        BY <1>0, <2>1, <2>2, <2>3, <2>4, <2>6, ValidateOwn
      <3> QED BY <1>0, <2>1, <2>2, <3>1, SerialKept
    <2> QED BY <1>11, <2>5, <2>6 DEF _updateTrade, ctx, current, version
  <1>12. ASSUME NEW c \in Commands, ReadCurrent(c) PROVE SerialInv'
    <2>1. /\ pc[c] = "reading" /\ Working(c)
          /\ UNCHANGED <<row, identity, contexts, local, using>>
          /\ Validate(c, patch[c], row, guard[c], using[c])
      BY <1>12 DEF ReadCurrent, Working
    <2>2. InProgress(c) /\ contexts = c /\ LateRow(c) /\ OwnWrite(c)
      BY <1>2, <2>1
    <2>3. c \notin Direct =>
            /\ using[c] = c
            /\ \/ \E t \in {context[c], local[c]} : t # NoTrade /\ guard[c] = t.version
               \/ context[c] = NoTrade /\ guard[c] = 0
      BY <2>1, <2>2 DEF OwnWrite, Guards
    <2>4. /\ \A d \in Commands \ {c} : pc'[d] = pc[d]
          /\ Working(c)' /\ LateRow(c)' /\ OwnWrite(c)'
      BY <1>0, <2>1, <2>2, <2>3, ValidateOwn
    <2> QED BY <1>0, <2>1, <2>2, <2>4, SerialKept
  <1>13. ASSUME NEW c \in Commands, NEW skipped \in BOOLEAN, CheckStop(c, skipped)
         PROVE  SerialInv'
    <2>1. /\ pc[c] = "checking" /\ Working(c) /\ pc' = [pc EXCEPT ![c] = "saving"]
          /\ UNCHANGED <<row, identity, contexts, context, local, using, guard>>
      BY <1>13 DEF CheckStop, Working
    <2>2. InProgress(c) /\ contexts = c /\ LateRow(c) /\ OwnWrite(c)
      BY <1>2, <2>1
    <2>3. /\ \A d \in Commands \ {c} : pc'[d] = pc[d]
          /\ Working(c)' /\ LateRow(c)' /\ OwnWrite(c)'
      BY <1>0, <2>1, <2>2 DEF Working, LateRow, OwnWrite, Guards, TypeOK
    <2> QED BY <1>0, <2>1, <2>2, <2>3, SerialKept
  <1>14. ASSUME NEW c \in Commands, NEW result, NEW ctx, NEW t, Finish(c, result, ctx, t),
                Working(c), UNCHANGED <<identity, contexts>>,
                row' = row \/ (row' # NoTrade /\ row'.version >= 1)
         PROVE  SerialInv'
    <2>1. InProgress(c) /\ contexts = c /\ LateRow(c)
      BY <1>2, <1>14
    <2>2. /\ \A d \in Commands \ {c} : pc'[d] = pc[d]
          /\ Working(c)' /\ LateRow(c)' /\ OwnWrite(c)'
      BY <1>0, <1>14, <2>1, FinishOwn
    <2> QED BY <1>0, <1>14, <2>1, <2>2, SerialKept
  <1>15. ASSUME NEW c \in Commands, Land(c), WriteInv(c), pc[c] = "saving"
         PROVE  row' # NoTrade /\ row'.version >= 1
    BY <1>0, <1>15, LandGrows, VersionIsNat DEF WriteInv, GuardIsOld
  <1>16. ASSUME NEW c \in Commands, Save(c) PROVE SerialInv'
    <2>1. pc[c] = "saving" /\ Working(c) /\ Land(c) /\ WriteInv(c)
      BY <1>16 DEF Save, Working, IInv
    <2>2. Finish(c, "APPLIED", using[c], row') /\ UNCHANGED <<identity, contexts>>
      BY <1>16 DEF Save
    <2> QED BY <1>14, <1>15, <2>1, <2>2
  <1>17. ASSUME NEW c \in Commands, SaveMisses(c) PROVE SerialInv'
    <2>1. /\ pc[c] = "saving" /\ Working(c) /\ pc' = [pc EXCEPT ![c] = "rereading"]
          /\ UNCHANGED <<row, identity, contexts, context, using>>
      BY <1>17 DEF SaveMisses, Working, writeVars
    <2>2. InProgress(c) /\ contexts = c /\ LateRow(c) /\ OwnWrite(c)
      BY <1>2, <2>1
    <2>3. /\ \A d \in Commands \ {c} : pc'[d] = pc[d]
          /\ Working(c)' /\ LateRow(c)' /\ OwnWrite(c)'
      BY <1>0, <2>1, <2>2 DEF Working, LateRow, OwnWrite, TypeOK
    <2> QED BY <1>0, <2>1, <2>2, <2>3, SerialKept
  <1>18. ASSUME NEW c \in Commands, NEW transient \in BOOLEAN, SaveFails(c, transient)
         PROVE  SerialInv'
    <2>1. /\ pc[c] = "saving" /\ Working(c) /\ WriteInv(c) /\ UNCHANGED <<identity, contexts>>
          /\ Land(c) \/ UNCHANGED <<row, landed>>
      BY <1>18 DEF SaveFails, Working, IInv
    <2>2. row' = row \/ (row' # NoTrade /\ row'.version >= 1)
      BY <1>15, <2>1
    <2>3. CASE Finish(c, "thrown", NoCommand, NoTrade)
      BY <1>14, <2>1, <2>2, <2>3
    <2>4. CASE UNCHANGED <<pc, guard, context, local, using>>
      <3>1. InProgress(c) /\ contexts = c /\ LateRow(c) /\ OwnWrite(c)
        BY <1>2, <2>1
      <3>2. Working(c)' /\ LateRow(c)' /\ OwnWrite(c)'
        BY <2>1, <2>2, <2>4, <3>1 DEF Working, LateRow, OwnWrite, Guards
      <3> QED BY <1>0, <2>1, <2>4, <3>1, <3>2, SerialKept
    <2> QED BY <1>18, <2>3, <2>4 DEF SaveFails
  <1>19. ASSUME NEW c \in Commands, Reread(c) PROVE SerialInv'
    <2>1. Working(c) /\ UNCHANGED <<row, identity, contexts>>
      BY <1>19 DEF Reread, Working
    <2> QED BY <1>14, <1>19, <2>1 DEF Reread
  <1>20. CASE UNCHANGED vars
    BY <1>20 DEF vars, writeVars, SerialInv, InProgress, Working, LateRow, OwnWrite, Guards
  <1> QED BY <1>3, <1>4, <1>5, <1>8, <1>9, <1>10, <1>11, <1>12, <1>13, <1>16, <1>17, <1>18,
             <1>19, <1>20 DEF Next

LEMMA LandOnCopy ==
    ASSUME IInv, SerialInv, NEW c \in Commands \ Direct, pc[c] = "saving", Land(c)
    PROVE  row \in {context[c], local[c]}
  <1>1. row \in Trade /\ row.version = guard[c] /\ row # NoTrade /\ row.version \in Nat
    BY LandGrows, VersionIsNat DEF IInv, TypeOK
  <1>2. LateRow(c) /\ Guards(c)
    BY DEF SerialInv, OwnWrite, Working
  <1>3. IsCopyOf(context[c], row) /\ IsCopyOf(local[c], row)
    BY DEF IInv, CopiesAreSnapshots
  <1> QED BY <1>1, <1>2, <1>3 DEF Guards, LateRow, IsCopyOf

(* When every command goes through the queue, a write that lands was made   *)
(* on the row itself: no other write lies between what the handler read and *)
(* what it wrote, although calls of the database may fail and be retried.   *)
THEOREM WritesAreOnWhatWasRead ==
    ASSUME Detached = {}
    PROVE  Spec => WritesWhatItRead
  <1>1. Init => SerialInv
    BY DEF Init, SerialInv, InProgress, Working
  <1>2. Spec => []SerialInv
    <2>1. IInv /\ SerialInv /\ [Next]_vars => SerialInv'
      BY SerialStep
    <2> QED BY <1>1, <2>1, Invariance, PTL DEF Spec
  <1>3. IInv /\ SerialInv /\ [Next]_vars =>
           [\A c \in Commands \ Direct :
              landed'[c] > landed[c] => row \in {context[c], local[c]}]_vars
    <2> SUFFICES ASSUME IInv, SerialInv, [Next]_vars, NEW c \in Commands \ Direct,
                        landed'[c] > landed[c]
                 PROVE  row \in {context[c], local[c]}
      OBVIOUS
    <2>1. pc[c] = "saving" /\ Land(c)
      <3>1. landed \in [Commands -> Nat]
        BY DEF IInv, TypeOK
      <3>2. \A d \in Commands : landed'[d] > landed[d] => landed' # landed
        BY <3>1
      <3> QED BY <3>1, <3>2 DEF Next, insertTrade, Call, Begin, Load, LoadFails, End,
              _updateTrade, ReadCurrent, CheckStop, Save, SaveMisses, SaveFails, Reread, vars,
              history, Land
    <2> QED BY <2>1, LandOnCopy
  <1> QED BY <1>2, <1>3, Invariance, PTL DEF Spec, WritesWhatItRead
=============================================================================
