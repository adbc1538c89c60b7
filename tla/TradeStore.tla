------------------------------ MODULE TradeStore ------------------------------
(***************************************************************************)
(* One row of the trades collection and the commands that read and write   *)
(* it: updateTrade of src/src/trading/tradeStore.js under _runTradeCommand *)
(* and _updateTrade of src/src/trading/tradeManager.js.                    *)
(*                                                                         *)
(* A command caches the row in a context.  Its writes are validated        *)
(* against that copy and saved only if the row still has the version of    *)
(* the copy.  The rows of two trades share nothing, so one row is enough;  *)
(* every await of the code ends a step.                                    *)
(*                                                                         *)
(* The queue of ExecutionCoordinator is used through what SerialCommands   *)
(* promises: queued commands run one at a time.  A Detached command is the *)
(* one that promise does not cover (a timer set by a command, see          *)
(* ExecutionCoordinator); it runs beside the others.                       *)
(***************************************************************************)
EXTENDS TradeStateMachine, Integers

CONSTANTS
    Commands,        \* calls of _runTradeCommand for the trade
    Direct,          \* those that _updateTrade makes for a lone write
    Detached,        \* those that bypass the queue
    Statuses,        \* the statuses rows and patches of a behaviour have
    Patches,         \* the patches writes of a behaviour have
    EntryFacts,      \* values of the fields ENTRY_RELATED_PATCH_KEYS names
    Stops,           \* values of strategyStopLoss
    NoField,         \* a field a patch does not carry, a stop that is not set
    NoCommand,       \* no context, no command
    NoTrade,         \* null
    DatabaseFails,   \* whether calls to the database may fail
    MaxWrites        \* [Commands -> Nat]: bound on the writes of a command

NoVersion == -1      \* expectedVersion is undefined

TradesOf(versions, statuses) ==
    [version : versions, status : statuses,
     entry : EntryFacts, stop : Stops \cup {NoField}]
Trade == TradesOf(Nat, Statuses)

Patch == [status : Statuses \cup {NoField},
          entry : EntryFacts \cup {NoField},
          stop : Stops \cup {NoField}]

ASSUME StoreAssumption ==
    /\ Direct \subseteq Commands
    /\ Detached \subseteq Commands
    /\ NoCommand \notin Commands
    /\ Patches \subseteq Patch
    /\ NoField \notin Statuses \cup EntryFacts \cup Stops
    /\ NoTrade \notin Trade
    /\ DatabaseFails \in BOOLEAN
    /\ MaxWrites \in [Commands -> Nat]
    /\ \A c \in Direct : MaxWrites[c] = 1

Phases == {"idle", "called", "loading", "handling", "reading", "checking",
           "saving", "rereading", "done"}
Outcomes == {"none", "APPLIED", "NOOP_TERMINAL_STALE", "CONFLICT", "MISSING",
             "thrown"}

VARIABLES
    row,        \* the document, or NoTrade
    pc,         \* where each command is
    identity,   \* the command of the coordinator it runs as
    contexts,   \* _tradeCommandContexts: whose context the map holds
    context,    \* the trade of each context object
    local,      \* the trade object a handler holds
    using,      \* the context the write in progress captured
    patch,      \* the update of the write in progress
    entryRelated, \* whether it touched the entry before it was validated
    guard,      \* its expectedVersion
    retried,    \* whether its transient failure was retried
    unchecked,  \* history: the read that guards its strategy stop failed
    outcome,    \* how the last write of the command ended
    landed,     \* history: how often the last write reached the row
    writes      \* history: writes begun by the command

writeVars == <<using, patch, entryRelated, guard, retried, unchecked>>
history == <<outcome, landed, writes>>
vars == <<row, pc, identity, contexts, context, local, writeVars, history>>

NoPatch == [status |-> NoField, entry |-> NoField, stop |-> NoField]

Init ==
    /\ row \in {NoTrade} \cup TradesOf({0}, Statuses)
    /\ pc = [c \in Commands |-> "idle"]
    /\ identity = [c \in Commands |-> c]
    /\ contexts = NoCommand
    /\ context = [c \in Commands |-> NoTrade]
    /\ local = [c \in Commands |-> NoTrade]
    /\ using = [c \in Commands |-> NoCommand]
    /\ patch = [c \in Commands |-> NoPatch]
    /\ entryRelated = [c \in Commands |-> FALSE]
    /\ guard = [c \in Commands |-> NoVersion]
    /\ retried = [c \in Commands |-> FALSE]
    /\ unchecked = [c \in Commands |-> FALSE]
    /\ outcome = [c \in Commands |-> "none"]
    /\ landed = [c \in Commands |-> 0]
    /\ writes = [c \in Commands |-> 0]

-----------------------------------------------------------------------------
(* What updateTrade decides from a patch and the trade it was validated on. *)

collectEntryRelatedPatchKeys(p) ==
    p.entry # NoField \/ p.status \in ENTRY_RELATED_STATUS_TARGETS

(* A refused or late status is dropped; the other fields are written.       *)
validatedStatus(p, current) ==
    IF p.status = NoField
       \/ staleEntryFill(current.status, p.status)
       \/ ~canTransition(current.status, p.status)
    THEN NoField ELSE p.status

(* Beside a status, strategyStopLoss is checked on the same trade.          *)
blockedStop(p, current) ==
    p.stop # NoField /\ current.stop # NoField /\ p.stop # current.stop

validated(p, current) ==
    [status |-> validatedStatus(p, current),
     entry |-> p.entry,
     stop |-> IF p.status # NoField /\ blockedStop(p, current)
              THEN NoField ELSE p.stop]

(* Mutants: no check of the strategy stop, no $inc, an absent status        *)
(* written, a filter on the id alone.                                       *)
neverChecksStop(p) == FALSE

patchedRowSameVersion(t, p) ==
    [version |-> t.version,
     status |-> IF p.status = NoField THEN t.status ELSE p.status,
     entry |-> IF p.entry = NoField THEN t.entry ELSE p.entry,
     stop |-> IF p.stop = NoField THEN t.stop ELSE p.stop]

patchedRowAnyStatus(t, p) ==
    [version |-> t.version + 1, status |-> p.status,
     entry |-> IF p.entry = NoField THEN t.entry ELSE p.entry,
     stop |-> IF p.stop = NoField THEN t.stop ELSE p.stop]

filterById(c) == row # NoTrade

needsStopCheck(p) == p.status = NoField /\ p.stop # NoField

(* $set and $inc of the update.                                             *)
patchedRow(t, p) ==
    [version |-> t.version + 1,
     status |-> IF p.status = NoField THEN t.status ELSE p.status,
     entry |-> IF p.entry = NoField THEN t.entry ELSE p.entry,
     stop |-> IF p.stop = NoField THEN t.stop ELSE p.stop]

(* normalizeTradeVersionValue, of null too: 0.                              *)
versionOf(t) == IF t = NoTrade THEN 0 ELSE t.version

buildTradeVersionFilter(c) == row # NoTrade /\ row.version = guard[c]

-----------------------------------------------------------------------------
(* Commands: _runTradeCommand.                                              *)

Queued(c) == c \notin Detached
InProgress(c) == pc[c] \notin {"idle", "called", "done"}

(* A lone write that a detached callback makes: _updateTrade finds the      *)
(* ended command as the current one and writes without a command (2930).    *)
WritesBare(c) == c \in Direct \cap Detached

(* insertTrade: by onSignal or by the recovery of a position.               *)
InsertedStatuses == {"ENTRY_PLACED", "RECOVERY_REHYDRATED"} \cap Statuses

insertTrade(t) ==
    /\ row = NoTrade
    /\ row' = t
    /\ UNCHANGED <<pc, identity, contexts, context, local, writeVars, history>>

(* The call: the trade object the caller holds was read before it.  A lone  *)
(* write captures the context of whatever command runs now (2850).  A       *)
(* detached call runs as the command that armed it.                         *)
Call(c, p) ==
    /\ pc[c] = "idle"
    /\ IF Queued(c) THEN p = c ELSE p # c /\ pc[p] \notin {"idle", "called"}
    /\ pc' = [pc EXCEPT ![c] = "called"]
    /\ identity' = [identity EXCEPT ![c] = identity[p]]
    /\ local' = [local EXCEPT ![c] = row]
    /\ using' = [using EXCEPT ![c] = contexts]
    /\ UNCHANGED <<row, contexts, context, patch, entryRelated, guard, retried,
                   unchecked, history>>

(* Mutant: a command that does not wait for its turn.                       *)
BeginAtOnce(c) ==
    /\ pc[c] = "called"
    /\ pc' = [pc EXCEPT ![c] =
                IF \/ WritesBare(c)
                   \/ contexts # NoCommand /\ identity[contexts] = identity[c]
                THEN "handling" ELSE "loading"]
    /\ UNCHANGED <<row, identity, contexts, context, local, writeVars, history>>

(* Its turn: a handler inside the command that owns the context shares it.  *)
Begin(c) ==
    /\ pc[c] = "called"
    /\ Queued(c) => \A d \in Commands : InProgress(d) => ~Queued(d)
    /\ pc' = [pc EXCEPT ![c] =
                IF \/ WritesBare(c)
                   \/ contexts # NoCommand /\ identity[contexts] = identity[c]
                THEN "handling" ELSE "loading"]
    /\ UNCHANGED <<row, identity, contexts, context, local, writeVars, history>>

Enter(c, t) ==
    /\ pc' = [pc EXCEPT ![c] = "handling"]
    /\ contexts' = c
    /\ context' = [context EXCEPT ![c] = t]

(* getTrade.  A missing row ends the command unless it allows it.           *)
Load(c, allowMissing) ==
    /\ pc[c] = "loading"
    /\ IF row # NoTrade \/ allowMissing
       THEN Enter(c, row)
       ELSE /\ pc' = [pc EXCEPT ![c] = "done"]
            /\ UNCHANGED <<contexts, context>>
    /\ UNCHANGED <<row, identity, local, writeVars, history>>

(* getTrade throws: the seed the caller passed stands in for the row.       *)
LoadFails(c, seeded) ==
    /\ DatabaseFails
    /\ pc[c] = "loading"
    /\ IF seeded /\ local[c] # NoTrade
       THEN Enter(c, local[c])
       ELSE /\ pc' = [pc EXCEPT ![c] = "done"]
            /\ UNCHANGED <<contexts, context>>
    /\ UNCHANGED <<row, identity, local, writeVars, history>>

(* The handler returns or throws: the finally removes its own context only. *)
(* What only the handler held is garbage.                                   *)
End(c) ==
    /\ pc[c] = "handling"
    /\ c \in Direct => writes[c] > 0
    /\ pc' = [pc EXCEPT ![c] = "done"]
    /\ contexts' = IF contexts = c THEN NoCommand ELSE contexts
    /\ local' = [local EXCEPT ![c] = NoTrade]
    /\ retried' = [retried EXCEPT ![c] = FALSE]
    /\ outcome' = [outcome EXCEPT ![c] = "none"]
    /\ landed' = [landed EXCEPT ![c] = 0]
    /\ UNCHANGED <<row, identity, context, using, patch, entryRelated, guard,
                   unchecked, writes>>

-----------------------------------------------------------------------------
(* Writes: _updateTrade and updateTrade.                                    *)

(* The result a write ends with.  The captured context takes the trade the  *)
(* result carries.                                                          *)
Finish(c, result, ctx, t) ==
    /\ pc' = [pc EXCEPT ![c] = "handling"]
    /\ outcome' = [outcome EXCEPT ![c] = result]
    /\ patch' = [patch EXCEPT ![c] = NoPatch]
    /\ guard' = [guard EXCEPT ![c] = NoVersion]
    /\ unchecked' = [unchecked EXCEPT ![c] = FALSE]
    /\ context' = IF ctx # NoCommand /\ t # NoTrade
                  THEN [context EXCEPT ![ctx] = t] ELSE context

(* updateTrade up to its first await after the trade is known: the row may  *)
(* be missing, the patch may be late, its status may be refused.            *)
Validate(c, p, current, version, ctx) ==
    \/ /\ current = NoTrade
       /\ Finish(c, "MISSING", ctx, NoTrade)
    \/ /\ current # NoTrade
       /\ collectEntryRelatedPatchKeys(p)
       /\ current.status \in TERMINAL_TRADE_STATUSES
       /\ Finish(c, "NOOP_TERMINAL_STALE", ctx, current)
    \/ /\ current # NoTrade
       /\ collectEntryRelatedPatchKeys(p) =>
             current.status \notin TERMINAL_TRADE_STATUSES
       /\ pc' = [pc EXCEPT ![c] =
                   IF needsStopCheck(p) THEN "checking" ELSE "saving"]
       /\ patch' = [patch EXCEPT ![c] = validated(p, current)]
       /\ guard' = [guard EXCEPT ![c] =
                      IF version = NoVersion THEN current.version ELSE version]
       /\ outcome' = [outcome EXCEPT ![c] = "none"]
       /\ UNCHANGED <<context, unchecked>>

(* _updateTrade with options that carry a trade and its version (held), or  *)
(* with none.  A lone write uses the context it captured when it was made,  *)
(* any other the context the map holds now.                                 *)
_updateTrade(c, p, held) ==
    LET ctx == IF c \in Direct /\ ~WritesBare(c) THEN using[c] ELSE contexts
        current == IF held THEN local[c]
                   ELSE IF ctx # NoCommand THEN context[ctx] ELSE NoTrade
        version == IF held THEN local[c].version
                   ELSE IF ctx # NoCommand THEN versionOf(context[ctx])
                   ELSE NoVersion
    IN
    /\ pc[c] = "handling"
    /\ writes[c] < MaxWrites[c]
    /\ held => local[c] # NoTrade /\ c \notin Direct
    /\ writes' = [writes EXCEPT ![c] = @ + 1]
    /\ landed' = [landed EXCEPT ![c] = 0]
    /\ retried' = [retried EXCEPT ![c] = FALSE]
    /\ using' = [using EXCEPT ![c] = ctx]
    /\ entryRelated' = [entryRelated EXCEPT ![c] = collectEntryRelatedPatchKeys(p)]
    /\ IF current = NoTrade \/ collectEntryRelatedPatchKeys(p)
       THEN /\ pc' = [pc EXCEPT ![c] = "reading"]
            /\ patch' = [patch EXCEPT ![c] = p]
            /\ guard' = [guard EXCEPT ![c] = version]
            /\ outcome' = [outcome EXCEPT ![c] = "none"]
            /\ UNCHANGED <<context, unchecked>>
       ELSE Validate(c, p, current, version, ctx)
    /\ UNCHANGED <<row, identity, contexts, local>>

(* The write needs the row itself.                                          *)
ReadCurrent(c) ==
    /\ pc[c] = "reading"
    /\ Validate(c, patch[c], row, guard[c], using[c])
    /\ UNCHANGED <<row, identity, contexts, local, using, entryRelated, retried,
                   landed, writes>>

(* A patch of strategyStopLoss without a status is checked on a new read;   *)
(* if that read throws, the check is skipped (line 473).                    *)
CheckStop(c, skipped) ==
    /\ pc[c] = "checking"
    /\ skipped => DatabaseFails
    /\ pc' = [pc EXCEPT ![c] = "saving"]
    /\ patch' = IF ~skipped /\ row # NoTrade /\ blockedStop(patch[c], row)
                THEN [patch EXCEPT ![c] = [@ EXCEPT !.stop = NoField]]
                ELSE patch
    /\ unchecked' = [unchecked EXCEPT ![c] = skipped]
    /\ UNCHANGED <<row, identity, contexts, context, local, using, entryRelated,
                   guard, retried, history>>

Land(c) ==
    /\ buildTradeVersionFilter(c)
    /\ row' = patchedRow(row, patch[c])
    /\ landed' = [landed EXCEPT ![c] = @ + 1]

(* findOneAndUpdate answers with the new row.                               *)
Save(c) ==
    /\ pc[c] = "saving"
    /\ Land(c)
    /\ Finish(c, "APPLIED", using[c], row')
    /\ UNCHANGED <<identity, contexts, local, using, entryRelated, retried,
                   writes>>

(* findOneAndUpdate finds no row with that version.                         *)
SaveMisses(c) ==
    /\ pc[c] = "saving"
    /\ ~buildTradeVersionFilter(c)
    /\ pc' = [pc EXCEPT ![c] = "rereading"]
    /\ UNCHANGED <<row, identity, contexts, context, local, writeVars, history>>

(* The call fails, before or after the server wrote.  A transient failure   *)
(* is retried once with the same filter; any other is thrown.               *)
SaveFails(c, transient) ==
    /\ DatabaseFails
    /\ pc[c] = "saving"
    /\ Land(c) \/ UNCHANGED <<row, landed>>
    /\ IF transient /\ ~retried[c]
       THEN /\ retried' = [retried EXCEPT ![c] = TRUE]
            /\ UNCHANGED <<pc, outcome, patch, guard, context, unchecked>>
       ELSE /\ Finish(c, "thrown", NoCommand, NoTrade)
            /\ UNCHANGED retried
    /\ UNCHANGED <<identity, contexts, local, using, entryRelated, writes>>

(* What the miss means.  The handler of a conflict goes on with the row it  *)
(* reports (_applyProtectionStatePatch, 3176).                              *)
Reread(c) ==
    /\ pc[c] = "rereading"
    /\ IF /\ entryRelated[c]
          /\ row.status \in TERMINAL_TRADE_STATUSES
       THEN /\ Finish(c, "NOOP_TERMINAL_STALE", using[c], row)
            /\ UNCHANGED local
       ELSE /\ Finish(c, "CONFLICT", using[c], row)
            /\ local' = [local EXCEPT ![c] = row]
    /\ UNCHANGED <<row, identity, contexts, using, entryRelated, retried, landed,
                   writes>>

Next ==
    \/ \E t \in TradesOf({1}, InsertedStatuses) : insertTrade(t)
    \/ \E c \in Commands :
          \/ \E p \in Commands : Call(c, p)
          \/ Begin(c)
          \/ \E allowMissing \in BOOLEAN : Load(c, allowMissing)
          \/ \E seeded \in BOOLEAN : LoadFails(c, seeded)
          \/ End(c)
          \/ \E p \in Patches, held \in BOOLEAN : _updateTrade(c, p, held)
          \/ ReadCurrent(c)
          \/ \E skipped \in BOOLEAN : CheckStop(c, skipped)
          \/ Save(c)
          \/ SaveMisses(c)
          \/ \E transient \in BOOLEAN : SaveFails(c, transient)
          \/ Reread(c)

Spec == Init /\ [][Next]_vars

-----------------------------------------------------------------------------
TypeOK ==
    /\ row \in Trade \cup {NoTrade}
    /\ pc \in [Commands -> Phases]
    /\ identity \in [Commands -> Commands]
    /\ contexts \in Commands \cup {NoCommand}
    /\ context \in [Commands -> Trade \cup {NoTrade}]
    /\ local \in [Commands -> Trade \cup {NoTrade}]
    /\ using \in [Commands -> Commands \cup {NoCommand}]
    /\ patch \in [Commands -> Patch]
    /\ entryRelated \in [Commands -> BOOLEAN]
    /\ guard \in [Commands -> Nat \cup {NoVersion}]
    /\ retried \in [Commands -> BOOLEAN]
    /\ unchecked \in [Commands -> BOOLEAN]
    /\ outcome \in [Commands -> Outcomes]
    /\ landed \in [Commands -> Nat]
    /\ writes \in [Commands -> Nat]

(* A trade row only ever changes its status along ALLOWED_TRANSITIONS,      *)
(* although the transition is checked on a cached copy of the row, awaits   *)
(* lie between the check and the save, and commands may overlap.            *)
LegalTransitions ==
    [][row # NoTrade => /\ row' # NoTrade
                        /\ \/ row'.status = row.status
                           \/ canTransition(row.status, row'.status)]_row

(* Once a trade is over, a late entry fill, an entry finalisation or any    *)
(* other write of entry fields does not change what the row says of the     *)
(* entry, whatever copy the writer holds.                                   *)
TerminalFactsFrozen ==
    [][row # NoTrade /\ row.status \in TERMINAL_TRADE_STATUSES =>
          row'.entry = row.entry]_row

(* A cached trade is a trade the row once was: the copy with the row's      *)
(* present version is the present row, and no copy is ahead of it.  The     *)
(* version filter protects nothing without it.                              *)
IsCopyOf(t, r) ==
    t # NoTrade => /\ r # NoTrade
                   /\ t.version <= r.version
                   /\ t.version = r.version => t = r
CopiesAreSnapshots ==
    \A c \in Commands : IsCopyOf(context[c], row) /\ IsCopyOf(local[c], row)

(* The result of a write is true of the row: APPLIED means that the patch   *)
(* landed once (the retry of a write whose answer was lost cannot land it   *)
(* again), and a refusal that no failure preceded means it did not land.    *)
ResultIsTrue(c) ==
    /\ landed[c] <= 1
    /\ outcome[c] = "APPLIED" => landed[c] = 1
    /\ outcome[c] \in {"CONFLICT", "NOOP_TERMINAL_STALE", "MISSING"} /\ ~retried[c] =>
          landed[c] = 0
ResultsAreTrue == \A c \in Commands : ResultIsTrue(c)

(* The strategy stop of a trade is its risk anchor: once set, only a write  *)
(* whose guard could not be read changes it (tradeStore.js:473).  Any other *)
(* keeps it, with a status or without, on an old copy of the row, retried   *)
(* or late.  docs/STOP_RISK_SEMANTICS.md:5 knows no exception.              *)
LandsUnchecked == \E c \in Commands : unchecked[c] /\ landed'[c] > landed[c]
StrategyStopFixed ==
    [][row # NoTrade /\ row.stop # NoField =>
          row'.stop = row.stop \/ LandsUnchecked]_vars

(* What a command writes lands on the trade it read: no write of another    *)
(* command lies between the copy its handler decided on and its own.  A     *)
(* version check against the row that was read last would not show it.      *)
WritesWhatItRead ==
    [][\A c \in Commands \ Direct :
          landed'[c] > landed[c] => row \in {context[c], local[c]}]_vars

-----------------------------------------------------------------------------
(* The strengthening that makes the safety properties inductive: what a     *)
(* write in progress may still rely on when it reaches the row.             *)

(* The version a write is guarded with is no later than the row's.          *)
GuardIsOld(c) ==
    /\ pc[c] = "reading" => guard[c] <= versionOf(row)
    /\ pc[c] \in {"checking", "saving"} => row # NoTrade /\ guard[c] \in 0 .. row.version
    /\ pc[c] = "rereading" => row # NoTrade

(* If the save of a write would find its version, then what was validated   *)
(* on a copy is valid for the row.                                          *)
PendingIsValid(c) ==
    pc[c] \in {"checking", "saving"} /\ guard[c] = row.version =>
        /\ patch[c].status # NoField => canTransition(row.status, patch[c].status)
        /\ patch[c].entry # NoField => row.status \notin TERMINAL_TRADE_STATUSES
        /\ \/ pc[c] = "checking" \/ unchecked[c]
           \/ ~blockedStop(patch[c], row)

(* A write that landed cannot land again, and only a lost answer leaves a   *)
(* landed write in progress.                                                *)
LandsOnce(c) ==
    /\ pc[c] \in {"reading", "checking"} => landed[c] = 0
    /\ pc[c] \in {"saving", "rereading"} /\ ~retried[c] => landed[c] = 0
    /\ pc[c] = "saving" /\ landed[c] = 1 => guard[c] # row.version
    /\ pc[c] \in {"reading", "checking", "saving", "rereading"} => outcome[c] = "none"

WriteInv(c) ==
    /\ GuardIsOld(c)
    /\ PendingIsValid(c)
    /\ LandsOnce(c)
    /\ ResultIsTrue(c)

IInv == TypeOK /\ CopiesAreSnapshots /\ \A c \in Commands : WriteInv(c)
=============================================================================
