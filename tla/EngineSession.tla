---------------------------- MODULE EngineSession ----------------------------
(***************************************************************************)
(* The session with the broker: who starts it, who stops it, and whether   *)
(* the engine notices a new access token.                                  *)
(*                                                                         *)
(*   tokenWatcher.js          finds the token in MongoDB (timer, stream)   *)
(*   index.js                 hands it to the lifecycle or to the session  *)
(*   runtime/engineLifecycle  modes of the day, cooldown poll              *)
(*   kite/sessionControl.js   invalidates tokens (timer)                   *)
(*   kite/kiteLogin.js        stores a token and applies it at once        *)
(*   kite/tickerManager.js    pipeline, ticker, handlers of "connect"      *)
(*                                                                         *)
(* A step ends where the code awaits I/O.  What follows an await that is   *)
(* already settled belongs to the same step, save where noted.  The four   *)
(* processes below and the connect handlers interleave at these points.    *)
(***************************************************************************)
EXTENDS Naturals, FiniteSets

CONSTANTS
    SessionSetups,  \* the circumstances a behaviour may have
    MaxSessions     \* bound: sessions with the broker

(* lifecycle: ENGINE_LIFECYCLE_ENABLED; direct: logins come through         *)
(* /admin/kite/session, not from a program that writes the token; stream:   *)
(* MongoDB has change streams; faults: what goes wrong, once each.          *)
(* start: setSession throws; read: a read of the token fails, not as a      *)
(* transient error; positions: the positions cannot be read; blocked: the   *)
(* live preflight fails; invalidate: the write of an invalidation fails;    *)
(* drop: the ticker loses its connection; init: the initialisation after a  *)
(* connect fails, or finds nothing to subscribe.  Bounds: logins, each with *)
(* a token of its own; handlers of "connect" in progress at once; from and  *)
(* until, the first and the last phase of the clock, four in each day.      *)
SessionFaults == {"start", "read", "positions", "blocked", "invalidate", "drop", "init"}
SessionSetup == [lifecycle : BOOLEAN, direct : BOOLEAN, stream : BOOLEAN,
                 faults : SUBSET SessionFaults, logins : 0 .. 3,
                 handlers : 1 .. 2, from : 0 .. 3, until : 0 .. 7]

ASSUME SessionAssumption ==
    /\ SessionSetups \subseteq {s \in SessionSetup : s.from <= s.until}
    /\ MaxSessions \in Nat

VARIABLES
    setup,    \* the circumstances: never changes
    left,     \* the faults still to come
    clock,    \* the wall clock, in phases; late: who was at work when it moved
    issued,   \* the number of logins: tokens are 1 .. issued
    store,    \* the document of the token: [token, day]
    track,    \* sessionControl.js: [token, day], logout: the day of the last one
    watch,    \* tokenWatcher.js: lastToken, poll armed, a change to be told
    life,     \* engineLifecycle.js: mode, token, sessionRunning, closePollTimer,
              \* failed: the serial chain is a rejected promise
    trading,  \* the override of runtime/tradingEnabled.js
    halted,   \* runtime/halt.js
    kite,     \* tickerManager.js: pipeline and ticker (0: null), currentToken,
              \* tickerConnected, reconcileTimer, runtimeInitInFlight
    wired,    \* tickers that have listeners and a socket
    proc,     \* the processes: where each is, what it stops, what it carries
    up,       \* those of them whose socket is open
    made,     \* the number of sessions so far
    conn,     \* the handlers of "connect" in progress
    flat,     \* the account has no open position
    overlap   \* history: a session was being started when another start began

sockets == <<wired, up, made>>
engine == <<life, trading, halted>>
world == <<clock, issued, store, flat>>
vars == <<setup, left, clock, issued, store, track, watch, life, trading, halted,
          kite, sockets, proc, conn, flat, overlap>>

None == 0
Tokens == 0 .. 3
Sessions == 0 .. MaxSessions
Phase == <<"IDLE", "WARMUP", "LIVE", "COOLDOWN">>[(clock.now % 4) + 1]
Today == clock.now \div 4
Modes == {"IDLE", "WARMUP", "LIVE", "COOLDOWN"}
Handlers == 1 .. setup.handlers
Procs == {"watcher", "poll", "control", "login"}
AtRest == [pc |-> "rest", then |-> "rest", prev |-> None, token |-> None, plan |-> "IDLE"]
Busy == {p \in Procs : proc[p].pc # "rest"}

InitSession ==
    /\ setup \in SessionSetups
    /\ left = setup.faults
    /\ clock = [now |-> setup.from, late |-> {}]
    /\ issued = 0
    /\ store = [token |-> None, day |-> 0]
    /\ track = [token |-> None, day |-> 0, logout |-> 2]
    /\ watch = [last |-> None, poll |-> TRUE, news |-> FALSE]
    /\ life = [mode |-> "IDLE", token |-> None, running |-> FALSE, timer |-> FALSE,
               failed |-> FALSE]
    /\ trading = FALSE
    /\ halted = FALSE
    /\ kite = [pipe |-> None, token |-> None, connected |-> FALSE, loop |-> FALSE,
               inFlight |-> FALSE]
    /\ wired = {}
    /\ proc = [p \in Procs |-> AtRest]
    /\ up = {}
    /\ made = 0
    /\ conn = [c \in Handlers |-> "idle"]
    /\ flat \in BOOLEAN
    /\ overlap = FALSE

At(p, pc) == proc[p].pc = pc
Goes(p, pc) == proc' = [proc EXCEPT ![p].pc = pc]
Rests(p) == proc' = [proc EXCEPT ![p] = AtRest]
Fault(f) == f \in left /\ left' = left \ {f}
NoFault == UNCHANGED left

-----------------------------------------------------------------------------
(* tickerManager.js: the session.                                           *)

Reset == [pipe |-> None, token |-> kite.token, connected |-> FALSE, loop |-> FALSE,
          inFlight |-> FALSE]

(* cleanupSessionRuntime up to the await of pipeline.stop; then is where    *)
(* the caller goes on.  Nothing to stop: there is no await of I/O.          *)
Cleanup(p, then) ==
    IF kite.pipe = None
    THEN Goes(p, then) /\ kite' = Reset
    ELSE /\ proc' = [proc EXCEPT ![p].pc = "stopping", ![p].then = then,
                                 ![p].prev = kite.pipe]
         /\ kite' = [kite EXCEPT !.loop = FALSE, !.inFlight = FALSE]

(* The stop of a pipeline settles.  It is one promise however often stop is *)
(* called, so all who wait for it go on in the same turn: each takes the    *)
(* listeners off the ticker it found, and sets the globals to null.         *)
Waiting(s) == {q \in Procs : proc[q].pc = "stopping" /\ proc[q].prev = s}
Resumed(who) ==
    [q \in Procs |-> IF q \in who THEN [proc[q] EXCEPT !.pc = proc[q].then, !.prev = None] ELSE proc[q]]
(* Mutant of PipelineStops: nobody disconnects the ticker.                  *)
PipelineStopsOnly(s) ==
    /\ Waiting(s) # {}
    /\ proc' = Resumed(Waiting(s))
    /\ kite' = Reset
    /\ wired' = wired \ {s}
    /\ UNCHANGED <<setup, left, world, track, watch, engine, up, made, conn, overlap>>

(* Mutant of PipelineStops: each call of stop is a promise of its own.      *)
PipelineStopsEach(s) ==
    \E q \in Waiting(s) :
        /\ proc' = Resumed({q})
        /\ kite' = Reset
        /\ wired' = wired \ {s}
        /\ up' = up \ {s}
        /\ UNCHANGED <<setup, left, world, track, watch, engine, made, conn, overlap>>

PipelineStops(s) ==
    /\ Waiting(s) # {}
    /\ proc' = Resumed(Waiting(s))
    /\ kite' = Reset
    /\ wired' = wired \ {s}
    /\ up' = up \ {s}
    /\ UNCHANGED <<setup, left, world, track, watch, engine, made, conn, overlap>>

(* The end of stopSession, in the turn in which the pipeline stopped.       *)
Settling == \E q \in Procs : proc[q].pc \in {"stopped", "idle", "refreshed"}
Forgotten == [kite EXCEPT !.token = None]

(* setSession up to its await.                                              *)
Starting ==
    {q \in Procs : proc[q].pc = "create" \/ (proc[q].pc = "stopping" /\ proc[q].then = "create")}
SetSession(p, token, after) ==
    IF token = kite.token
    THEN Goes(p, after) /\ UNCHANGED <<kite, overlap>>
    ELSE /\ Cleanup(p, "create")
         /\ overlap' = (overlap \/ Starting \ {p} # {})

(* The rest of setSession: client, ticker, pipeline, wireEvents, connect.   *)
(* Nothing in it looks at what the globals hold by now.                     *)
Created(token) ==
    /\ made < MaxSessions
    /\ made' = made + 1
    /\ kite' = [kite EXCEPT !.pipe = made + 1, !.token = token]
    /\ wired' = wired \cup {made + 1}
    /\ UNCHANGED up

-----------------------------------------------------------------------------
(* tickerManager.js: the handlers of the ticker.                            *)

Connects(s, c) ==
    /\ s \in wired \ up /\ conn[c] \in {"idle", "failed"}
    /\ up' = up \cup {s}
    /\ conn' = [d \in Handlers |-> IF d = c THEN "boot"
                                  ELSE IF conn[d] = "failed" THEN "idle" ELSE conn[d]]
    /\ kite' = [kite EXCEPT !.connected = TRUE]
    /\ UNCHANGED <<setup, left, world, track, watch, engine, wired, made, proc, overlap>>

(* "close" and "disconnect".                                                *)
Disconnects(s) ==
    /\ s \in up /\ Fault("drop")
    /\ up' = up \ {s}
    /\ kite' = [kite EXCEPT !.connected = FALSE, !.loop = FALSE]
    /\ UNCHANGED <<setup, world, track, watch, engine, wired, made, proc, conn, overlap>>

(* buildConnectBootstrapContext is done: the tokens are subscribed on       *)
(* whatever ticker there is now, then runPostConnectRuntimeInit begins.     *)
Bootstraps(c) ==
    /\ conn[c] = "boot"
    /\ IF kite.pipe = None
       THEN /\ conn' = [conn EXCEPT ![c] = "idle"]
            /\ kite' = [kite EXCEPT !.connected = FALSE, !.loop = FALSE, !.inFlight = FALSE]
       ELSE IF ~kite.connected \/ kite.inFlight
            THEN conn' = [conn EXCEPT ![c] = "idle"] /\ UNCHANGED kite
            ELSE /\ conn' = [conn EXCEPT ![c] = "resolve"]
                 /\ kite' = [kite EXCEPT !.inFlight = TRUE]
    /\ UNCHANGED <<setup, left, world, track, watch, engine, sockets, proc, overlap>>

(* Its awaits: resolve the instruments, initForTokens, reconcile.  The last *)
(* two are calls on the pipeline there is then, and throw if there is none. *)
Initializes(c) ==
    /\ conn[c] \in {"resolve", "init"}
    /\ IF kite.pipe = None
       THEN /\ conn' = [conn EXCEPT ![c] = "idle"]
            /\ kite' = [kite EXCEPT !.inFlight = FALSE]
       ELSE /\ conn' = [conn EXCEPT ![c] = IF @ = "resolve" THEN "init" ELSE "reconcile"]
            /\ UNCHANGED kite
    /\ UNCHANGED <<setup, left, world, track, watch, engine, sockets, proc, overlap>>

(* One of them throws, or there are no tokens: the handler is over.  The    *)
(* retry that a transient error asks for returns at once, as the flag it    *)
(* looks at is set until the finally; any other error is only logged.  That *)
(* it failed stands (a history) until the next connection.                  *)
InitializationFails(c) ==
    /\ conn[c] \in {"resolve", "init", "reconcile"} /\ Fault("init")
    /\ conn' = [conn EXCEPT ![c] = "failed"]
    /\ kite' = [kite EXCEPT !.inFlight = FALSE]
    /\ UNCHANGED <<setup, world, track, watch, engine, sockets, proc, overlap>>

(* startReconcileLoop, whatever happened to the session in between.         *)
(* Mutant of StartsReconcileLoop: runtimeInitInFlight stays.                *)
StartsLoopOnce(c) ==
    /\ conn[c] = "reconcile"
    /\ conn' = [conn EXCEPT ![c] = "idle"]
    /\ kite' = [kite EXCEPT !.loop = TRUE]
    /\ UNCHANGED <<setup, left, world, track, watch, engine, sockets, proc, overlap>>

StartsReconcileLoop(c) ==
    /\ conn[c] = "reconcile"
    /\ conn' = [conn EXCEPT ![c] = "idle"]
    /\ kite' = [kite EXCEPT !.loop = TRUE, !.inFlight = FALSE]
    /\ UNCHANGED <<setup, left, world, track, watch, engine, sockets, proc, overlap>>

-----------------------------------------------------------------------------
(* tokenWatcher.js.                                                         *)

(* runRefresh: by the timer, or by a change; a change is lost on a refresh  *)
(* in flight, which may have read already.                                  *)
PollFires ==
    /\ watch.poll /\ At("watcher", "rest")
    /\ Goes("watcher", "read")
    /\ watch' = [watch EXCEPT !.poll = FALSE]
    /\ UNCHANGED <<setup, left, world, track, engine, kite, sockets, conn, overlap>>

ChangeArrives ==
    /\ watch.news
    /\ watch' = [watch EXCEPT !.news = FALSE]
    /\ IF At("watcher", "rest") THEN Goes("watcher", "read") ELSE UNCHANGED proc
    /\ UNCHANGED <<setup, left, world, track, engine, kite, sockets, conn, overlap>>

Finishes == /\ Rests("watcher")
            /\ watch' = [watch EXCEPT !.poll = TRUE]

(* The Mongo gate defers the refresh, or its read fails as a transient      *)
(* error: the poll is armed again.                                          *)
(* Mutant of ReadDeferred: the gate defers, nothing arms the poll.          *)
ReadDropped ==
    /\ At("watcher", "read")
    /\ Rests("watcher")
    /\ UNCHANGED <<setup, left, world, track, watch, engine, kite, sockets, conn, overlap>>

ReadDeferred ==
    /\ At("watcher", "read")
    /\ Finishes
    /\ UNCHANGED <<setup, left, world, track, engine, kite, sockets, conn, overlap>>

(* Any other error is thrown past schedulePoll.                             *)
ReadFails ==
    /\ At("watcher", "read") /\ Fault("read")
    /\ Rests("watcher")
    /\ UNCHANGED <<setup, world, track, watch, engine, kite, sockets, conn, overlap>>

(* refreshAndNotify, the four cases of the document.                        *)
FindsNoToken ==
    /\ At("watcher", "read") /\ store.token = None
    /\ Rests("watcher")
    /\ watch' = [watch EXCEPT !.last = None, !.poll = TRUE]
    /\ track' = [track EXCEPT !.token = None]
    /\ UNCHANGED <<setup, left, world, engine, kite, sockets, conn, overlap>>

FindsOldToken ==
    /\ At("watcher", "read") /\ store.token # None /\ store.day # Today
    /\ proc' = [proc EXCEPT !["watcher"].pc = "invalidate", !["watcher"].token = store.token]
    /\ UNCHANGED <<setup, left, world, track, watch, engine, kite, sockets, conn, overlap>>

FindsSameToken ==
    /\ At("watcher", "read") /\ store.day = Today
    /\ store.token # None /\ store.token = watch.last
    /\ Finishes
    /\ UNCHANGED <<setup, left, world, track, engine, kite, sockets, conn, overlap>>

FindsToken ==
    /\ At("watcher", "read") /\ store.day = Today
    /\ store.token \notin {None, watch.last}
    /\ proc' = [proc EXCEPT !["watcher"].pc = "preflight", !["watcher"].token = store.token]
    /\ watch' = [watch EXCEPT !.last = store.token]
    /\ track' = [track EXCEPT !.token = store.token, !.day = store.day]
    /\ UNCHANGED <<setup, left, world, engine, kite, sockets, conn, overlap>>

(* invalidateStoredSession updates the document by its _id.  A login through *)
(* the engine writes that document again, another program may add one.      *)
Invalidated(token) ==
    IF setup.direct \/ store.token = token THEN [store EXCEPT !.token = None] ELSE store

BlocksOldToken ==
    /\ At("watcher", "invalidate")
    /\ \/ NoFault /\ store' = Invalidated(proc["watcher"].token)
       \/ Fault("invalidate") /\ UNCHANGED store
    /\ Rests("watcher")
    /\ watch' = [watch EXCEPT !.last = None, !.poll = TRUE]
    /\ track' = [track EXCEPT !.token = None]
    /\ UNCHANGED <<setup, clock, issued, flat, engine, kite, sockets, conn, overlap>>

-----------------------------------------------------------------------------
(* index.js: onToken.                                                       *)

PreflightBlocks ==
    /\ At("watcher", "preflight") /\ Fault("blocked")
    /\ Cleanup("watcher", "stopped")
    /\ UNCHANGED <<setup, world, track, watch, engine, sockets, conn, overlap>>

StartsDirectly ==
    /\ ~setup.lifecycle
    /\ At("watcher", "preflight")
    /\ SetSession("watcher", proc["watcher"].token, "finish")
    /\ UNCHANGED <<setup, left, world, track, watch, engine, sockets, conn>>

(* setToken on a serial chain that an earlier transition left rejected.     *)
SetTokenRejects ==
    /\ setup.lifecycle /\ life.failed
    /\ At("watcher", "preflight")
    /\ halted' = TRUE
    /\ Finishes
    /\ UNCHANGED <<setup, left, world, track, life, trading, kite, sockets, conn, overlap>>

SetToken ==
    LET t == proc["watcher"].token
    IN /\ setup.lifecycle /\ ~life.failed
       /\ At("watcher", "preflight")
       /\ life' = [life EXCEPT !.token = t]
       /\ Goes("watcher", IF life.token \in {None, t} THEN "apply" ELSE "refresh")
       /\ UNCHANGED <<setup, left, world, track, watch, trading, halted, kite, sockets, conn,
                      overlap>>

Finish ==
    /\ At("watcher", "finish")
    /\ Finishes
    /\ UNCHANGED <<setup, left, world, track, engine, kite, sockets, conn, overlap>>

-----------------------------------------------------------------------------
(* engineLifecycle.js.                                                      *)

(* TOKEN_REFRESHED is told; then the session of the old token is stopped.   *)
StopsForRefresh ==
    /\ At("watcher", "refresh")
    /\ trading' = FALSE
    /\ Cleanup("watcher", "refreshed")
    /\ UNCHANGED <<setup, left, world, track, watch, life, halted, sockets, conn, overlap>>

Refreshed ==
    /\ At("watcher", "refreshed")
    /\ Goes("watcher", "apply")
    /\ life' = [life EXCEPT !.running = FALSE]
    /\ kite' = Forgotten
    /\ UNCHANGED <<setup, left, world, track, watch, trading, halted, sockets, conn, overlap>>

(* applySchedule and ensureSession.  The turn of a stop is over before.     *)
SessionIsRunning == kite.connected \/ kite.pipe # None \/ life.running

AppliesIdle ==
    /\ At("watcher", "apply") /\ ~Settling /\ Phase = "IDLE"
    /\ trading' = FALSE
    /\ life' = [life EXCEPT !.timer = FALSE, !.mode = IF life.running THEN @ ELSE "IDLE"]
    /\ IF life.running THEN Cleanup("watcher", "idle")
       ELSE Goes("watcher", "finish") /\ UNCHANGED kite
    /\ UNCHANGED <<setup, left, world, track, watch, halted, sockets, conn, overlap>>

AppliesSchedule ==
    LET plan == Phase
    IN /\ At("watcher", "apply") /\ ~Settling /\ plan # "IDLE"
       /\ IF SessionIsRunning \/ life.token = kite.token
          THEN /\ proc' = [proc EXCEPT !["watcher"].pc = "mode", !["watcher"].plan = plan]
               /\ UNCHANGED <<kite, overlap>>
          ELSE /\ kite' = Reset
               /\ proc' = [proc EXCEPT !["watcher"].pc = "create", !["watcher"].plan = plan]
               /\ overlap' = (overlap \/ Starting # {})
       /\ UNCHANGED <<setup, left, world, track, watch, engine, sockets, conn>>

(* setMode follows the session in every branch.                             *)
EntersMode ==
    LET plan == proc["watcher"].plan
    IN /\ At("watcher", "mode")
       /\ trading' = (plan = "LIVE")
       /\ life' = [life EXCEPT !.running = TRUE, !.mode = plan,
                               !.timer = IF plan = "COOLDOWN" THEN @ ELSE FALSE]
       /\ Goes("watcher", IF plan = "COOLDOWN" THEN "cooldown" ELSE "finish")
       /\ UNCHANGED <<setup, left, world, track, watch, halted, kite, sockets, conn, overlap>>

(* startCooldownPolling: its first poll is part of the transition.          *)
StartsCooldownPolling ==
    /\ At("watcher", "cooldown")
    /\ life' = [life EXCEPT !.timer = (kite.pipe = None /\ life.mode = "COOLDOWN")]
    /\ Goes("watcher", IF kite.pipe = None THEN "finish" ELSE "positions")
    /\ UNCHANGED <<setup, left, world, track, watch, trading, halted, kite, sockets, conn,
                   overlap>>

(* pollCooldownState by the interval, beside the serial chain.  Without a   *)
(* client it holds, and nothing changes.                                    *)
CooldownPoll ==
    /\ life.timer /\ kite.pipe # None
    /\ At("poll", "rest")
    /\ Goes("poll", "positions")
    /\ UNCHANGED <<setup, left, world, track, watch, engine, kite, sockets, conn, overlap>>

(* The positions cannot be read, or are open.                               *)
(* Mutant of HoldsCooldown: the first poll arms no interval.                *)
HoldsCooldownOnce(p) ==
    /\ At(p, "positions") /\ ~flat /\ NoFault
    /\ IF p = "poll" THEN Rests(p) ELSE Goes(p, "finish")
    /\ UNCHANGED <<setup, world, track, watch, engine, kite, sockets, conn, overlap>>

HoldsCooldown(p) ==
    /\ At(p, "positions")
    /\ \/ ~flat /\ NoFault
       \/ Fault("positions")
    /\ IF p = "poll" THEN Rests(p) /\ UNCHANGED life
       ELSE /\ Goes(p, "finish")
            /\ life' = [life EXCEPT !.timer = (life.mode = "COOLDOWN")]
    /\ UNCHANGED <<setup, world, track, watch, trading, halted, kite, sockets, conn, overlap>>

(* stopIntoIdle, whatever mode the engine is in by now.                     *)
StopsIntoIdle(p) ==
    /\ At(p, "positions") /\ flat
    /\ trading' = FALSE
    /\ life' = [life EXCEPT !.timer = FALSE]
    /\ Cleanup(p, "idle")
    /\ UNCHANGED <<setup, left, world, track, watch, halted, sockets, conn, overlap>>

IntoIdle(p) ==
    /\ At(p, "idle")
    /\ life' = [life EXCEPT !.running = FALSE, !.mode = "IDLE"]
    /\ kite' = Forgotten
    /\ IF p = "poll" THEN Rests(p) ELSE Goes(p, "finish")
    /\ UNCHANGED <<setup, left, world, track, watch, trading, halted, sockets, conn, overlap>>

-----------------------------------------------------------------------------
(* sessionControl.js and kiteLogin.js.                                      *)

(* runSessionControlTick finds a token of another day, or it is time for    *)
(* the forced logout of the day.                                            *)
ControlTick ==
    LET Invalidate(then) ==
            proc' = [proc EXCEPT !["control"].pc = "invalidate", !["control"].then = then,
                                 !["control"].token = track.token]
    IN /\ At("control", "rest") /\ track.token # None
       /\ \/ track.day # Today /\ Invalidate("rest")
          \/ /\ track.day = Today /\ track.logout # Today
             /\ Phase \in {"LIVE", "COOLDOWN"}
             /\ Invalidate("logout")
       /\ UNCHANGED <<setup, left, world, track, watch, engine, kite, sockets, conn, overlap>>

InvalidationFails ==
    /\ At("control", "invalidate") /\ Fault("invalidate")
    /\ Rests("control")
    /\ UNCHANGED <<setup, world, track, watch, engine, kite, sockets, conn, overlap>>

(* The document is written; onSessionInvalidated then forgets what is       *)
(* tracked by now and stops the session there is by now.  The lifecycle is  *)
(* not told.                                                                *)
Invalidates ==
    /\ At("control", "invalidate")
    /\ store' = Invalidated(proc["control"].token)
    /\ track' = [track EXCEPT !.token = None,
                              !.logout = IF proc["control"].then = "logout" THEN Today ELSE @]
    /\ watch' = [watch EXCEPT !.news = setup.stream]
    /\ Cleanup("control", "stopped")
    /\ UNCHANGED <<setup, left, clock, issued, flat, engine, sockets, conn, overlap>>

(* The end of a stop that was not the lifecycle's.                          *)
SessionStopped(p) ==
    /\ At(p, "stopped")
    /\ IF p = "watcher" THEN Goes(p, "finish") ELSE Rests(p)
    /\ kite' = Forgotten
    /\ UNCHANGED <<setup, left, world, track, watch, engine, sockets, conn, overlap>>

(* A new token is stored.                                                   *)
Login ==
    /\ issued < setup.logins /\ At("login", "rest")
    /\ issued' = issued + 1
    /\ store' = [token |-> issued + 1, day |-> Today]
    /\ watch' = [watch EXCEPT !.news = setup.stream]
    /\ IF setup.direct
       THEN proc' = [proc EXCEPT !["login"].pc = "stored", !["login"].token = issued + 1]
       ELSE UNCHANGED proc
    /\ UNCHANGED <<setup, left, clock, flat, track, engine, kite, sockets, conn, overlap>>

(* exchangeAndStoreKiteSession applies it at once, past the lifecycle.      *)
AppliesLogin ==
    LET t == proc["login"].token
    IN /\ At("login", "stored")
       /\ track' = [track EXCEPT !.token = t, !.day = store.day]
       /\ SetSession("login", t, "rest")
       /\ UNCHANGED <<setup, left, world, watch, engine, sockets, conn>>

SessionStarts(p) ==
    /\ At(p, "create")
    /\ Created(proc[p].token)
    /\ CASE p = "login" -> Rests(p)
         [] p = "watcher" /\ setup.lifecycle -> Goes(p, "mode")
         [] OTHER -> Goes(p, "finish")
    /\ UNCHANGED <<setup, left, world, track, watch, engine, conn, overlap>>

(* setSession throws: a transition of the lifecycle that fails rejects the  *)
(* serial chain for good.                                                   *)
SessionFails(p) ==
    /\ At(p, "create") /\ Fault("start")
    /\ IF p = "login" THEN Rests(p) /\ UNCHANGED <<life, halted>>
       ELSE /\ Goes(p, "finish")
            /\ halted' = TRUE
            /\ life' = [life EXCEPT !.failed = setup.lifecycle]
    /\ UNCHANGED <<setup, world, track, watch, trading, kite, sockets, conn, overlap>>

-----------------------------------------------------------------------------
(* The world: time and positions.  A phase of the day is longer than any    *)
(* await: who was at work when the clock moved is done before it moves      *)
(* again.                                                                   *)
ClockMoves ==
    /\ clock.late \cap Busy = {}
    /\ clock.now < setup.until
    /\ clock' = [now |-> clock.now + 1, late |-> Busy]
    /\ UNCHANGED <<setup, left, issued, store, flat, track, watch, engine, kite, sockets,
                   proc, conn, overlap>>

PositionsClose ==
    /\ ~flat
    /\ flat' = TRUE
    /\ UNCHANGED <<setup, left, clock, issued, store, track, watch, engine, kite, sockets,
                   proc, conn, overlap>>

-----------------------------------------------------------------------------
WatcherStep ==
    \/ FindsNoToken \/ FindsOldToken \/ FindsSameToken \/ FindsToken \/ BlocksOldToken
    \/ StartsDirectly \/ SetToken \/ SetTokenRejects \/ Finish
    \/ StopsForRefresh \/ Refreshed \/ AppliesIdle \/ AppliesSchedule \/ EntersMode
    \/ StartsCooldownPolling

StopStep ==
    \/ \E s \in 1 .. MaxSessions : PipelineStops(s)
    \/ \E p \in {"watcher", "control"} : SessionStopped(p)
    \/ \E p \in {"watcher", "poll"} : IntoIdle(p)

ChecksPositions(p) == StopsIntoIdle(p) \/ HoldsCooldown(p)

StartStep == AppliesLogin \/ \E p \in {"watcher", "login"} : SessionStarts(p)

ConnectStep(c) == c \in Handlers /\ (Bootstraps(c) \/ Initializes(c) \/ StartsReconcileLoop(c))

NextSession ==
    \/ PollFires \/ ChangeArrives \/ ReadDeferred \/ ReadFails
    \/ WatcherStep \/ PreflightBlocks
    \/ StopStep \/ StartStep
    \/ \E p \in {"watcher", "poll"} : ChecksPositions(p)
    \/ \E p \in {"watcher", "login"} : SessionFails(p)
    \/ \E c \in Handlers :
         ConnectStep(c) \/ InitializationFails(c) \/ \E s \in 1 .. MaxSessions : Connects(s, c)
    \/ \E s \in 1 .. MaxSessions : Disconnects(s)
    \/ CooldownPoll
    \/ ControlTick \/ Invalidates \/ InvalidationFails
    \/ Login
    \/ ClockMoves \/ PositionsClose

(* Calls of the broker and of the database settle or time out, timers fire. *)
(* A refresh that is deferred again and again is tried in the end.          *)
FairSession ==
    /\ WF_vars(PollFires) /\ WF_vars(CooldownPoll)
    /\ SF_vars(WatcherStep)
    /\ WF_vars(StopStep) /\ WF_vars(StartStep) /\ WF_vars(Invalidates)
    /\ WF_vars(ChecksPositions("watcher")) /\ WF_vars(ChecksPositions("poll"))
    /\ \A c \in 1 .. 2 : WF_vars(ConnectStep(c))

SpecSession == InitSession /\ [][NextSession]_vars /\ FairSession

-----------------------------------------------------------------------------
SessionTypes ==
    /\ setup \in SessionSetups /\ left \subseteq setup.faults
    /\ clock \in [now : 0 .. setup.until, late : SUBSET Procs]
    /\ issued \in Tokens
    /\ store \in [token : Tokens, day : 0 .. 1]
    /\ track \in [token : Tokens, day : 0 .. 1, logout : 0 .. 2]
    /\ watch \in [last : Tokens, poll : BOOLEAN, news : BOOLEAN]
    /\ life \in [mode : Modes, token : Tokens, running : BOOLEAN, timer : BOOLEAN,
                 failed : BOOLEAN]
    /\ trading \in BOOLEAN /\ halted \in BOOLEAN /\ flat \in BOOLEAN /\ overlap \in BOOLEAN
    /\ kite \in [pipe : Sessions, token : Tokens, connected : BOOLEAN, loop : BOOLEAN,
                 inFlight : BOOLEAN]
    /\ up \subseteq wired /\ wired \subseteq 1 .. made /\ made \in Sessions
    /\ \A p \in Procs : proc[p].pc \in
         {"rest", "read", "invalidate", "preflight", "refresh", "refreshed", "apply", "create",
          "mode", "cooldown", "positions", "stopping", "stopped", "idle", "finish", "stored"}
    /\ conn \in [Handlers -> {"idle", "boot", "resolve", "init", "reconcile", "failed"}]

(* Types, and two facts of the circumstances of a run.  Trades are allowed  *)
(* in mode LIVE only, although a cooldown poll may stop the engine while a  *)
(* token change starts it.  The bound on sessions hides none.               *)
SessionTypeOK ==
    /\ SessionTypes
    /\ (setup.lifecycle /\ trading => life.mode = "LIVE")
    /\ (made = MaxSessions => \A p \in Procs : ~At(p, "create"))

(* A ticker that has listeners is the one the engine knows and will         *)
(* disconnect.  Stops may overlap stops and starts, because pipeline.stop   *)
(* is one promise and all who wait for it resume together; only two starts  *)
(* at once (a login beside the watcher) leave a socket behind.              *)
LeakNeedsTwoStarts == wired \subseteq {kite.pipe} \/ overlap

(* A token that stays in the store is handed to the lifecycle (or to the    *)
(* session): changes may be coalesced with a refresh in flight, refreshes   *)
(* deferred and tokens invalidated meanwhile, the poll finds it.  Not after *)
(* the preflight blocked a token, a read failed or a transition failed: a   *)
(* token is tried once, and the two failures end all trying.                *)
Tried(t) == (IF setup.lifecycle THEN life.token ELSE kite.token) = t
GivenUp == (setup.faults \ left) \cap {"blocked", "read", "start"} # {}
TokenIsTried ==
    \A t \in 1 .. 3 : (store.token = t) ~> (store.token # t \/ Tried(t) \/ GivenUp)

(* Once the account is flat, an engine in cooldown gives up its session:    *)
(* the timer of the poll is never lost between the transitions that clear   *)
(* and set it.                                                              *)
CooldownEnds ==
    (life.mode = "COOLDOWN" /\ flat /\ kite.pipe # None)
        ~> (kite.pipe = None \/ life.mode # "COOLDOWN")

(* While the ticker is connected the reconcile loop runs, in the end: the   *)
(* handlers of older connections cannot leave the new one without it, only  *)
(* one that failed since the last connection can.  That one is not tried    *)
(* again.                                                                   *)
InitFailed == \E c \in Handlers : conn[c] = "failed"
ConnectedIsReconciled ==
    (kite.connected /\ kite.pipe # None)
        ~> (kite.loop \/ ~kite.connected \/ kite.pipe = None \/ InitFailed)
=============================================================================
