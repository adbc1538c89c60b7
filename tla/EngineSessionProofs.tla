-------------------------- MODULE EngineSessionProofs --------------------------
(***************************************************************************)
(* Theorems about EngineSession, for any circumstances and any number of   *)
(* sessions: the types, and that no ticker stays wired beside the one the   *)
(* engine knows unless two starts overlapped.                               *)
(***************************************************************************)
EXTENDS EngineSession, TLAPS

Places == {"rest", "read", "invalidate", "preflight", "refresh", "refreshed", "apply", "create",
           "mode", "cooldown", "positions", "stopping", "stopped", "idle", "finish", "stored"}
Stops == {"create", "refreshed", "stopped", "idle"}
Process == [pc : Places, then : Stops \cup {"rest", "logout"}, prev : Sessions,
            token : Tokens, plan : Modes]
ConnPlaces == {"idle", "boot", "resolve", "init", "reconcile", "failed"}
Kite == [pipe : Sessions, token : Tokens, connected : BOOLEAN, loop : BOOLEAN,
         inFlight : BOOLEAN]
Track == [token : Tokens, day : 0 .. 1, logout : 0 .. 2]
Watch == [last : Tokens, poll : BOOLEAN, news : BOOLEAN]
Life == [mode : Modes, token : Tokens, running : BOOLEAN, timer : BOOLEAN, failed : BOOLEAN]

WorldInv ==
    /\ setup \in SessionSetups /\ left \subseteq setup.faults
    /\ clock \in [now : 0 .. setup.until, late : SUBSET Procs]
    /\ issued \in Tokens /\ issued <= setup.logins
    /\ store \in [token : Tokens, day : 0 .. 1]
    /\ flat \in BOOLEAN
EngineInv ==
    /\ track \in Track /\ watch \in Watch /\ life \in Life
    /\ trading \in BOOLEAN /\ halted \in BOOLEAN
SocketInv ==
    /\ kite \in Kite
    /\ up \subseteq wired /\ wired \subseteq 1 .. made /\ made \in Sessions
    /\ conn \in [Handlers -> ConnPlaces]
    /\ overlap \in BOOLEAN
ProcInv ==
    /\ proc \in [Procs -> Process]
    /\ \A p \in Procs : proc[p].pc = "stopping" => proc[p].then \in Stops

(* Unless two starts overlapped: who stops a session stops the one the      *)
(* engine knows, and who starts one is alone and finds none.                *)
LeakInv ==
    ~overlap =>
        /\ wired \subseteq {kite.pipe}
        /\ \A p \in Procs :
              /\ proc[p].pc = "stopping" => proc[p].prev = kite.pipe /\ kite.pipe # None
              /\ proc[p].pc = "create" => kite.pipe = None
        /\ \A p, q \in Starting : p = q

IInv == WorldInv /\ EngineInv /\ SocketInv /\ ProcInv /\ LeakInv

-----------------------------------------------------------------------------
(* What a step does to a process.                                           *)

Becomes(p, r) == proc' = [proc EXCEPT ![p] = r]

LEMMA GoesBecomes ==
    ASSUME ProcInv, NEW p \in Procs, NEW pc \in Places, Goes(p, pc)
    PROVE  \E r \in Process : Becomes(p, r) /\ r.pc = pc /\ r.then = proc[p].then
  <1>1. proc[p] \in Process /\ proc \in [Procs -> Process]
    BY DEF ProcInv
  <1>2. PICK r : r = [proc[p] EXCEPT !.pc = pc]
    OBVIOUS
  <1>3. r \in Process /\ r.pc = pc /\ r.then = proc[p].then
    BY <1>1, <1>2 DEF Process
  <1>4. Becomes(p, r)
    BY <1>1, <1>2 DEF Becomes, Goes
  <1> QED BY <1>3, <1>4

LEMMA RestsBecomes ==
    ASSUME NEW p \in Procs, Rests(p)
    PROVE  \E r \in Process : Becomes(p, r) /\ r.pc = "rest"
  <1>1. AtRest \in Process /\ AtRest.pc = "rest"
    BY SessionAssumption DEF AtRest, Process, Places, Stops, Sessions, Tokens, Modes, None
  <1> QED BY <1>1 DEF Rests, Becomes

(* A step that neither stops nor starts a session, and leaves them alone.   *)
LEMMA PlainStep ==
    ASSUME ProcInv, LeakInv, NEW p \in Procs,
           \E r \in Process : Becomes(p, r) /\ r.pc \notin {"stopping", "create"},
           kite'.pipe = kite.pipe, UNCHANGED <<wired, overlap>>
    PROVE  ProcInv' /\ LeakInv'
  <1>1. PICK r \in Process : Becomes(p, r) /\ r.pc \notin {"stopping", "create"}
    OBVIOUS
  <1>2. /\ proc' \in [Procs -> Process] /\ proc'[p] = r
        /\ \A q \in Procs : q # p => proc'[q] = proc[q]
    BY <1>1 DEF ProcInv, Becomes
  <1>3. ProcInv'
    BY <1>1, <1>2 DEF ProcInv
  <1>4. Starting' \subseteq Starting
    BY <1>1, <1>2 DEF Starting
  <1> QED BY <1>1, <1>2, <1>3, <1>4 DEF LeakInv

(* A step that moves no process and leaves the sessions alone.              *)
LEMMA StillStep ==
    ASSUME ProcInv, LeakInv, kite'.pipe = kite.pipe, UNCHANGED <<proc, wired, overlap>>
    PROVE  ProcInv' /\ LeakInv'
  <1>1. Starting' = Starting
    BY DEF Starting
  <1> QED BY <1>1 DEF ProcInv, LeakInv

LEMMA StoppingRecord ==
    ASSUME NEW x \in Process, NEW then, NEW prev
    PROVE  [x EXCEPT !.pc = "stopping", !.then = then, !.prev = prev] =
           [pc |-> "stopping", then |-> then, prev |-> prev, token |-> x.token, plan |-> x.plan]
  <1>1. PICK A, B : Process = [pc : A, then : B, prev : Sessions, token : Tokens, plan : Modes]
    BY DEF Process
  <1>2. PICK r : r = [x EXCEPT !.pc = "stopping", !.then = then, !.prev = prev]
    OBVIOUS
  <1>3. r = [pc |-> "stopping", then |-> then, prev |-> prev, token |-> x.token, plan |-> x.plan]
    BY <1>1, <1>2
  <1> QED BY <1>2, <1>3

LEMMA CleanupStep ==
    ASSUME SocketInv, ProcInv, LeakInv, NEW p \in Procs, NEW then \in Stops, Cleanup(p, then),
           proc[p].pc \notin {"stopping", "create"}, wired' = wired, overlap \in BOOLEAN,
           overlap' = overlap \/ overlap' = (overlap \/ Starting \ {p} # {}),
           then = "create" => overlap' = (overlap \/ Starting \ {p} # {})
    PROVE  kite' \in Kite /\ ProcInv' /\ LeakInv'
  <1>1. /\ kite \in Kite /\ proc \in [Procs -> Process] /\ proc[p] \in Process
        /\ kite.pipe \in Sessions /\ None \in Sessions
        /\ wired \subseteq 1 .. made /\ None \notin wired
    BY SessionAssumption DEF SocketInv, ProcInv, Kite, Sessions, None
  <1>2. overlap => overlap'
    OBVIOUS
  <1>3. CASE kite.pipe = None
    <2>1. Goes(p, then) /\ kite' = Reset
      BY <1>3 DEF Cleanup
    <2>2. kite' \in Kite /\ kite'.pipe = None
      BY <1>1, <2>1 DEF Reset, Kite
    <2>3. then \in Places
      BY DEF Stops, Places
    <2>4. PICK r \in Process : Becomes(p, r) /\ r.pc = then
      BY <2>1, <2>3, GoesBecomes
    <2>5. /\ proc' \in [Procs -> Process] /\ proc'[p] = r
          /\ \A q \in Procs : q # p => proc'[q] = proc[q]
      BY <1>1, <2>4 DEF Becomes
    <2>6. then # "stopping"
      BY DEF Stops
    <2>7. ProcInv'
      BY <2>4, <2>5, <2>6 DEF ProcInv
    <2>8. Starting' \subseteq Starting \cup {p} /\ (then # "create" => Starting' \subseteq Starting)
      BY <2>4, <2>5, <2>6 DEF Starting
    <2>9. ASSUME ~overlap' PROVE \A x, y \in Starting' : x = y
      BY <1>2, <2>8, <2>9 DEF LeakInv
    <2>10. ASSUME ~overlap', NEW q \in Procs
           PROVE  proc'[q].pc # "stopping"
      BY <1>2, <1>3, <2>4, <2>5, <2>6, <2>10 DEF LeakInv
    <2>11. ~overlap' => wired' \subseteq {kite'.pipe}
      BY <1>2, <1>3, <2>2 DEF LeakInv
    <2>12. LeakInv'
      BY <2>2, <2>9, <2>10, <2>11 DEF LeakInv
    <2> QED BY <2>2, <2>7, <2>12
  <1>4. CASE kite.pipe # None
    <2>1. /\ proc' = [proc EXCEPT ![p].pc = "stopping", ![p].then = then, ![p].prev = kite.pipe]
          /\ kite' = [kite EXCEPT !.loop = FALSE, !.inFlight = FALSE]
      BY <1>4 DEF Cleanup
    <2>2. kite' = [pipe |-> kite.pipe, token |-> kite.token, connected |-> kite.connected,
                   loop |-> FALSE, inFlight |-> FALSE]
      BY <1>1, <2>1 DEF Kite
    <2>3. kite' \in Kite /\ kite'.pipe = kite.pipe
      BY <1>1, <2>2 DEF Kite
    <2>4. PICK r : r = [pc |-> "stopping", then |-> then, prev |-> kite.pipe,
                        token |-> proc[p].token, plan |-> proc[p].plan]
      OBVIOUS
    <2>5. r \in Process /\ r.pc = "stopping" /\ r.then = then /\ r.prev = kite.pipe
      BY <1>1, <2>4 DEF Process, Places
    <2>6. /\ proc' \in [Procs -> Process] /\ proc'[p] = r
          /\ \A q \in Procs : q # p => proc'[q] = proc[q]
      <3>1. PICK a : a = [proc[p] EXCEPT !.pc = "stopping", !.then = then, !.prev = kite.pipe]
        OBVIOUS
      <3>2. a = r
        BY <1>1, <2>4, <3>1, StoppingRecord
      <3>3. proc' = [proc EXCEPT ![p] = a]
        BY <1>1, <2>1, <3>1
      <3> QED BY <1>1, <2>5, <3>2, <3>3
    <2>7. ProcInv'
      BY <2>5, <2>6 DEF ProcInv
    <2>8. Starting' \subseteq Starting \cup {p} /\ (then # "create" => Starting' \subseteq Starting)
      BY <2>5, <2>6 DEF Starting
    <2>9. ASSUME ~overlap' PROVE \A x, y \in Starting' : x = y
      BY <1>2, <2>8, <2>9 DEF LeakInv
    <2>10. ASSUME ~overlap', NEW q \in Procs
           PROVE  /\ proc'[q].pc = "stopping" => proc'[q].prev = kite'.pipe /\ kite'.pipe # None
                  /\ proc'[q].pc # "create"
      BY <1>2, <1>4, <2>3, <2>5, <2>6, <2>10 DEF LeakInv
    <2>11. ~overlap' => wired' \subseteq {kite'.pipe}
      BY <1>2, <2>3 DEF LeakInv
    <2>12. LeakInv'
      BY <2>9, <2>10, <2>11 DEF LeakInv
    <2> QED BY <2>3, <2>7, <2>12
  <1> QED BY <1>3, <1>4

-----------------------------------------------------------------------------
(* Steps that change several fields of a process.                           *)

LEMMA TokenBecomes ==
    ASSUME ProcInv, NEW p \in Procs, NEW pc \in Places, NEW token \in Tokens,
           proc' = [proc EXCEPT ![p].pc = pc, ![p].token = token]
    PROVE  \E r \in Process : Becomes(p, r) /\ r.pc = pc
  <1>1. PICK x \in Process : x = proc[p]
    BY DEF ProcInv
  <1>2. PICK A, B : Process = [pc : Places, then : B, prev : Sessions, token : Tokens, plan : A]
    BY DEF Process
  <1>3. PICK r : r = [x EXCEPT !.pc = pc, !.token = token]
    OBVIOUS
  <1>4. r = [pc |-> pc, then |-> x.then, prev |-> x.prev, token |-> token, plan |-> x.plan]
    BY <1>2, <1>3
  <1>5. r \in Process /\ r.pc = pc
    BY <1>2, <1>4
  <1>6. Becomes(p, r)
    BY <1>1, <1>3 DEF Becomes, ProcInv
  <1> QED BY <1>5, <1>6

LEMMA PlanBecomes ==
    ASSUME ProcInv, NEW p \in Procs, NEW pc \in Places, NEW plan \in Modes,
           proc' = [proc EXCEPT ![p].pc = pc, ![p].plan = plan]
    PROVE  \E r \in Process : Becomes(p, r) /\ r.pc = pc
  <1>1. PICK x \in Process : x = proc[p]
    BY DEF ProcInv
  <1>2. PICK B : Process = [pc : Places, then : B, prev : Sessions, token : Tokens, plan : Modes]
    BY DEF Process
  <1>3. PICK r : r = [x EXCEPT !.pc = pc, !.plan = plan]
    OBVIOUS
  <1>4. r = [pc |-> pc, then |-> x.then, prev |-> x.prev, token |-> x.token, plan |-> plan]
    BY <1>2, <1>3
  <1>5. r \in Process /\ r.pc = pc
    BY <1>2, <1>4
  <1>6. Becomes(p, r)
    BY <1>1, <1>3 DEF Becomes, ProcInv
  <1> QED BY <1>5, <1>6

LEMMA ThenBecomes ==
    ASSUME ProcInv, NEW p \in Procs, NEW pc \in Places, NEW token \in Tokens,
           NEW then \in Stops \cup {"rest", "logout"},
           proc' = [proc EXCEPT ![p].pc = pc, ![p].then = then, ![p].token = token]
    PROVE  \E r \in Process : Becomes(p, r) /\ r.pc = pc
  <1>1. PICK x \in Process : x = proc[p]
    BY DEF ProcInv
  <1>2. PICK A, B : /\ Process = [pc : Places, then : B, prev : Sessions, token : Tokens, plan : A]
                    /\ B = Stops \cup {"rest", "logout"}
    BY DEF Process
  <1>3. PICK r : r = [x EXCEPT !.pc = pc, !.then = then, !.token = token]
    OBVIOUS
  <1>4. r = [pc |-> pc, then |-> then, prev |-> x.prev, token |-> token, plan |-> x.plan]
    BY <1>2, <1>3
  <1>5. r \in Process /\ r.pc = pc
    BY <1>2, <1>4
  <1>6. Becomes(p, r)
    BY <1>1, <1>3 DEF Becomes, ProcInv
  <1> QED BY <1>5, <1>6

-----------------------------------------------------------------------------
(* Parts of the state that a step leaves alone, and the types of the rest.  *)

LEMMA SetupType ==
    ASSUME setup \in SessionSetups
    PROVE  /\ setup.lifecycle \in BOOLEAN /\ setup.direct \in BOOLEAN /\ setup.stream \in BOOLEAN
           /\ setup.logins \in 0 .. 3 /\ setup.handlers \in 1 .. 2
           /\ setup.from \in Nat /\ setup.until \in 0 .. 7 /\ setup.from <= setup.until
  BY SessionAssumption DEF SessionSetup

LEMMA WorldFrame ==
    ASSUME WorldInv, left' \subseteq left, UNCHANGED <<setup, world>>
    PROVE  WorldInv'
  BY DEF WorldInv, world

LEMMA EngineFrame ==
    ASSUME EngineInv, UNCHANGED <<track, watch, engine>>
    PROVE  EngineInv'
  BY DEF EngineInv, engine

LEMMA SocketFrame ==
    ASSUME SocketInv, kite' \in Kite, overlap' \in BOOLEAN, UNCHANGED <<setup, sockets, conn>>
    PROVE  SocketInv'
  BY DEF SocketInv, sockets, Handlers

LEMMA DayType ==
    ASSUME WorldInv
    PROVE  Today \in 0 .. 1 /\ Phase \in Modes
  <1>1. clock.now \in 0 .. 7
    BY SetupType DEF WorldInv
  <1>2. clock.now \div 4 \in 0 .. 1 /\ clock.now % 4 \in 0 .. 3
    BY <1>1
  <1>3. \A i \in 1 .. 4 : <<"IDLE", "WARMUP", "LIVE", "COOLDOWN">>[i] \in Modes
    BY DEF Modes
  <1>4. (clock.now % 4) + 1 \in 1 .. 4
    BY <1>2
  <1> QED BY <1>2, <1>3, <1>4 DEF Today, Phase

(* A step that only moves one process, and not to a stop or a start.        *)
LEMMA PlainMove ==
    ASSUME IInv, NEW p \in Procs, UNCHANGED <<setup, kite, sockets, conn, overlap>>,
           \E r \in Process : Becomes(p, r) /\ r.pc \notin {"stopping", "create"}
    PROVE  SocketInv' /\ ProcInv' /\ LeakInv'
  <1>1. SocketInv /\ ProcInv /\ LeakInv
    BY DEF IInv
  <1>2. SocketInv'
    BY <1>1, SocketFrame DEF SocketInv
  <1>3. ProcInv' /\ LeakInv'
    BY <1>1, PlainStep DEF sockets
  <1> QED BY <1>2, <1>3

LEMMA PlainGoes ==
    ASSUME IInv, NEW p \in Procs, UNCHANGED <<setup, kite, sockets, conn, overlap>>,
           NEW pc \in Places \ {"stopping", "create"}, Goes(p, pc)
    PROVE  SocketInv' /\ ProcInv' /\ LeakInv'
  BY GoesBecomes, PlainMove DEF IInv

LEMMA PlainRests ==
    ASSUME IInv, NEW p \in Procs, UNCHANGED <<setup, kite, sockets, conn, overlap>>, Rests(p)
    PROVE  SocketInv' /\ ProcInv' /\ LeakInv'
  BY RestsBecomes, PlainMove

-----------------------------------------------------------------------------
(* The token watcher's reads.                                               *)

LEMMA WatchRecord ==
    ASSUME NEW w \in Watch, NEW last \in Tokens
    PROVE  /\ [w EXCEPT !.last = last, !.poll = TRUE] \in Watch
           /\ [w EXCEPT !.last = last] \in Watch
           /\ [w EXCEPT !.poll = TRUE] \in Watch /\ [w EXCEPT !.poll = FALSE] \in Watch
           /\ \A b \in BOOLEAN : [w EXCEPT !.news = b] \in Watch
  <1>1. PICK r : r = [w EXCEPT !.last = last, !.poll = TRUE]
    OBVIOUS
  <1>2. r = [last |-> last, poll |-> TRUE, news |-> w.news]
    BY <1>1 DEF Watch
  <1>3. r \in Watch
    BY <1>2 DEF Watch
  <1>4. /\ [w EXCEPT !.last = last] \in Watch
        /\ [w EXCEPT !.poll = TRUE] \in Watch /\ [w EXCEPT !.poll = FALSE] \in Watch
        /\ \A b \in BOOLEAN : [w EXCEPT !.news = b] \in Watch
    BY DEF Watch
  <1> QED BY <1>1, <1>3, <1>4

LEMMA TrackRecord ==
    ASSUME NEW t \in Track, NEW token \in Tokens, NEW day \in 0 .. 1
    PROVE  /\ [t EXCEPT !.token = token, !.day = day] \in Track
           /\ [t EXCEPT !.token = token] \in Track
  <1>1. PICK r : r = [t EXCEPT !.token = token, !.day = day]
    OBVIOUS
  <1>2. r = [token |-> token, day |-> day, logout |-> t.logout]
    BY <1>1 DEF Track
  <1>3. r \in Track
    BY <1>2 DEF Track
  <1>4. [t EXCEPT !.token = token] \in Track
    BY DEF Track
  <1> QED BY <1>1, <1>3, <1>4

LEMMA LogoutRecord ==
    ASSUME NEW t \in Track, NEW token \in Tokens, NEW logout \in 0 .. 2
    PROVE  [t EXCEPT !.token = token, !.logout = logout] \in Track
  <1>1. PICK r : r = [t EXCEPT !.token = token, !.logout = logout]
    OBVIOUS
  <1>2. r = [token |-> token, day |-> t.day, logout |-> logout]
    BY <1>1 DEF Track
  <1>3. r \in Track
    BY <1>2 DEF Track
  <1> QED BY <1>1, <1>3

LEMMA TokenTypes ==
    ASSUME IInv
    PROVE  /\ None \in Tokens /\ store.token \in Tokens /\ store.day \in 0 .. 1
           /\ \A p \in Procs : proc[p].token \in Tokens /\ proc[p].plan \in Modes
           /\ track \in Track /\ watch \in Watch /\ life \in Life
           /\ \A t \in Tokens : Invalidated(t) \in [token : Tokens, day : 0 .. 1]
           /\ Today \in 0 .. 1 /\ Phase \in Modes /\ setup.stream \in BOOLEAN
           /\ setup.lifecycle \in BOOLEAN /\ setup.direct \in BOOLEAN
  <1>1. None \in Tokens
    BY DEF None, Tokens
  <1>2. store \in [token : Tokens, day : 0 .. 1]
    BY DEF IInv, WorldInv
  <1>3. [store EXCEPT !.token = None] \in [token : Tokens, day : 0 .. 1]
    BY <1>1, <1>2
  <1>4. \A t \in Tokens : Invalidated(t) \in [token : Tokens, day : 0 .. 1]
    BY <1>2, <1>3 DEF Invalidated
  <1>5. \A p \in Procs : proc[p].token \in Tokens /\ proc[p].plan \in Modes
    BY DEF IInv, ProcInv, Process
  <1> QED BY <1>1, <1>2, <1>4, <1>5, DayType, SetupType DEF IInv, EngineInv, WorldInv

LEMMA WatcherReads ==
    ASSUME IInv, PollFires \/ ChangeArrives \/ ReadDeferred \/ ReadFails \/ FindsNoToken
                 \/ FindsOldToken \/ FindsSameToken \/ FindsToken \/ BlocksOldToken
    PROVE  IInv'
  <1>1. WorldInv /\ EngineInv /\ SocketInv /\ ProcInv /\ LeakInv
    BY DEF IInv
  <1> DEFINE W == "watcher"
  <1>2. /\ W \in Procs
        /\ {"read", "invalidate", "preflight"} \subseteq Places \ {"stopping", "create"}
    BY DEF Procs, Places
  <1>3. ASSUME watch' \in Watch, track' \in Track, UNCHANGED engine
        PROVE  EngineInv'
    BY <1>1, <1>3 DEF EngineInv, engine
  <1>4. CASE PollFires
    <2>1. Goes(W, "read") /\ watch' = [watch EXCEPT !.poll = FALSE]
          /\ UNCHANGED <<setup, left, world, track, engine, kite, sockets, conn, overlap>>
      BY <1>4 DEF PollFires
    <2>2. WorldInv' /\ EngineInv'
      BY <1>1, <1>3, <2>1, WorldFrame, WatchRecord, TokenTypes
    <2> QED BY <1>2, <2>1, <2>2, PlainGoes DEF IInv
  <1>5. CASE ChangeArrives
    <2>1. watch' = [watch EXCEPT !.news = FALSE] /\ (Goes(W, "read") \/ UNCHANGED proc)
          /\ UNCHANGED <<setup, left, world, track, engine, kite, sockets, conn, overlap>>
      BY <1>5 DEF ChangeArrives
    <2>2. WorldInv' /\ EngineInv'
      BY <1>1, <1>3, <2>1, WorldFrame, WatchRecord, TokenTypes
    <2>3. CASE Goes(W, "read")
      BY <1>2, <2>1, <2>2, <2>3, PlainGoes DEF IInv
    <2>4. CASE UNCHANGED proc
      <3>1. SocketInv'
        BY <1>1, <2>1, SocketFrame DEF SocketInv
      <3>2. ProcInv' /\ LeakInv'
        BY <1>1, <2>1, <2>4, StillStep DEF sockets
      <3> QED BY <2>2, <3>1, <3>2 DEF IInv
    <2> QED BY <2>1, <2>3, <2>4
  <1>6. CASE ReadDeferred \/ ReadFails \/ FindsSameToken
    <2>1. Rests(W) /\ watch' \in {watch, [watch EXCEPT !.poll = TRUE]} /\ left' \subseteq left
          /\ UNCHANGED <<setup, world, track, engine, kite, sockets, conn, overlap>>
      BY <1>6 DEF ReadDeferred, ReadFails, FindsSameToken, Finishes, Fault
    <2>2. WorldInv' /\ EngineInv'
      BY <1>1, <1>3, <2>1, WorldFrame, WatchRecord, TokenTypes
    <2> QED BY <1>2, <2>1, <2>2, PlainRests DEF IInv
  <1>7. CASE FindsNoToken
    <2>1. Rests(W) /\ watch' = [watch EXCEPT !.last = None, !.poll = TRUE]
          /\ track' = [track EXCEPT !.token = None]
          /\ UNCHANGED <<setup, left, world, engine, kite, sockets, conn, overlap>>
      BY <1>7 DEF FindsNoToken
    <2>2. WorldInv' /\ EngineInv'
      BY <1>1, <1>3, <2>1, WorldFrame, WatchRecord, TrackRecord, TokenTypes
    <2> QED BY <1>2, <2>1, <2>2, PlainRests DEF IInv
  <1>8. CASE FindsOldToken
    <2>1. proc' = [proc EXCEPT ![W].pc = "invalidate", ![W].token = store.token]
          /\ UNCHANGED <<setup, left, world, track, watch, engine, kite, sockets, conn, overlap>>
      BY <1>8 DEF FindsOldToken
    <2>2. WorldInv' /\ EngineInv'
      BY <1>1, <2>1, WorldFrame, EngineFrame
    <2>3. \E r \in Process : Becomes(W, r) /\ r.pc = "invalidate"
      BY <1>1, <1>2, <2>1, TokenBecomes, TokenTypes
    <2> QED BY <1>2, <2>1, <2>2, <2>3, PlainMove DEF IInv
  <1>9. CASE FindsToken
    <2>1. proc' = [proc EXCEPT ![W].pc = "preflight", ![W].token = store.token]
          /\ watch' = [watch EXCEPT !.last = store.token]
          /\ track' = [track EXCEPT !.token = store.token, !.day = store.day]
          /\ UNCHANGED <<setup, left, world, engine, kite, sockets, conn, overlap>>
      BY <1>9 DEF FindsToken
    <2>2. WorldInv' /\ EngineInv'
      BY <1>1, <1>3, <2>1, WorldFrame, WatchRecord, TrackRecord, TokenTypes
    <2>3. \E r \in Process : Becomes(W, r) /\ r.pc = "preflight"
      BY <1>1, <1>2, <2>1, TokenBecomes, TokenTypes
    <2> QED BY <1>2, <2>1, <2>2, <2>3, PlainMove DEF IInv
  <1>10. CASE BlocksOldToken
    <2>1. Rests(W) /\ watch' = [watch EXCEPT !.last = None, !.poll = TRUE]
          /\ track' = [track EXCEPT !.token = None] /\ left' \subseteq left
          /\ store' \in {store, Invalidated(proc[W].token)}
          /\ UNCHANGED <<setup, clock, issued, flat, engine, kite, sockets, conn, overlap>>
      BY <1>10 DEF BlocksOldToken, NoFault, Fault
    <2>2. EngineInv'
      BY <1>1, <1>3, <2>1, WatchRecord, TrackRecord, TokenTypes
    <2>3. store' \in [token : Tokens, day : 0 .. 1]
      BY <1>1, <1>2, <2>1, TokenTypes DEF WorldInv
    <2>4. WorldInv'
      BY <1>1, <2>1, <2>3 DEF WorldInv
    <2> QED BY <1>2, <2>1, <2>2, <2>4, PlainRests DEF IInv
  <1> QED BY <1>4, <1>5, <1>6, <1>7, <1>8, <1>9, <1>10

-----------------------------------------------------------------------------
(* The lifecycle, where it neither stops nor starts a session.              *)

LEMMA LifeRecord ==
    ASSUME NEW l \in Life, NEW mode \in Modes, NEW running \in BOOLEAN, NEW timer \in BOOLEAN,
           NEW token \in Tokens
    PROVE  /\ [l EXCEPT !.running = running, !.mode = mode, !.timer = timer] \in Life
           /\ [l EXCEPT !.timer = timer, !.mode = mode] \in Life
           /\ [l EXCEPT !.running = running, !.mode = mode] \in Life
           /\ [l EXCEPT !.timer = timer] \in Life /\ [l EXCEPT !.running = running] \in Life
           /\ [l EXCEPT !.failed = running] \in Life /\ [l EXCEPT !.token = token] \in Life
  <1>1. PICK a, b, c : /\ a = [l EXCEPT !.running = running, !.mode = mode, !.timer = timer]
                       /\ b = [l EXCEPT !.timer = timer, !.mode = mode]
                       /\ c = [l EXCEPT !.running = running, !.mode = mode]
    OBVIOUS
  <1>2. a = [mode |-> mode, token |-> l.token, running |-> running, timer |-> timer,
             failed |-> l.failed]
    BY <1>1 DEF Life
  <1>3. b = [mode |-> mode, token |-> l.token, running |-> l.running, timer |-> timer,
             failed |-> l.failed]
    BY <1>1 DEF Life
  <1>4. c = [mode |-> mode, token |-> l.token, running |-> running, timer |-> l.timer,
             failed |-> l.failed]
    BY <1>1 DEF Life
  <1>5. a \in Life /\ b \in Life /\ c \in Life
    BY <1>2, <1>3, <1>4 DEF Life
  <1>6. /\ [l EXCEPT !.timer = timer] \in Life /\ [l EXCEPT !.running = running] \in Life
        /\ [l EXCEPT !.failed = running] \in Life /\ [l EXCEPT !.token = token] \in Life
    BY DEF Life
  <1> QED BY <1>1, <1>5, <1>6

LEMMA LifeFrame ==
    ASSUME EngineInv, life' \in Life, trading' \in BOOLEAN, halted' \in BOOLEAN,
           UNCHANGED <<track, watch>>
    PROVE  EngineInv'
  BY DEF EngineInv

LEMMA LifecyclePlain ==
    ASSUME IInv, \/ SetTokenRejects \/ SetToken \/ Finish \/ EntersMode
                 \/ StartsCooldownPolling \/ CooldownPoll
                 \/ \E p \in {"watcher", "poll"} : HoldsCooldown(p)
                 \/ \E p \in {"watcher", "login"} : SessionFails(p)
    PROVE  IInv'
  <1>1. /\ WorldInv /\ EngineInv /\ SocketInv /\ ProcInv /\ LeakInv
        /\ life \in Life /\ trading \in BOOLEAN /\ halted \in BOOLEAN
    BY DEF IInv, EngineInv
  <1> DEFINE W == "watcher"
  <1>2. /\ W \in Procs /\ "poll" \in Procs /\ "login" \in Procs
        /\ {"apply", "refresh", "finish", "cooldown", "positions"}
              \subseteq Places \ {"stopping", "create"}
        /\ Modes # {} /\ "COOLDOWN" \in Modes /\ "IDLE" \in Modes
    BY DEF Procs, Places, Modes
  <1>3. CASE SetTokenRejects \/ Finish
    <2>1. Rests(W) /\ watch' = [watch EXCEPT !.poll = TRUE] /\ halted' \in {halted, TRUE}
          /\ UNCHANGED <<setup, left, world, track, life, trading, kite, sockets, conn, overlap>>
      BY <1>3 DEF SetTokenRejects, Finish, Finishes, engine
    <2>2. EngineInv'
      BY <1>1, <2>1, WatchRecord, TokenTypes DEF EngineInv
    <2> QED BY <1>1, <1>2, <2>1, <2>2, WorldFrame, PlainRests DEF IInv
  <1>4. CASE SetToken
    <2>1. PICK t \in Tokens : t = proc[W].token
      BY <1>2, TokenTypes
    <2>2. PICK pc \in {"apply", "refresh"} : Goes(W, pc)
      BY <1>4 DEF SetToken
    <2>3. /\ life' = [life EXCEPT !.token = t]
          /\ UNCHANGED <<setup, left, world, track, watch, trading, halted, kite, sockets, conn,
                         overlap>>
      BY <1>4, <2>1 DEF SetToken
    <2>4. life' \in Life
      BY <1>1, <2>1, <2>3 DEF Life
    <2> QED BY <1>1, <1>2, <2>2, <2>3, <2>4, LifeFrame, WorldFrame, PlainGoes DEF IInv
  <1>5. CASE EntersMode
    <2>1. PICK plan \in Modes : plan = proc[W].plan
      BY <1>2, TokenTypes
    <2>2. PICK timer \in BOOLEAN : timer = IF plan = "COOLDOWN" THEN life.timer ELSE FALSE
      BY <1>1 DEF Life
    <2>3. PICK pc \in {"cooldown", "finish"} : Goes(W, pc)
      BY <1>5 DEF EntersMode
    <2>4. /\ trading' = (plan = "LIVE")
          /\ life' = [life EXCEPT !.running = TRUE, !.mode = plan, !.timer = timer]
          /\ UNCHANGED <<setup, left, world, track, watch, halted, kite, sockets, conn, overlap>>
      BY <1>5, <2>1, <2>2 DEF EntersMode
    <2>5. life' \in Life /\ trading' \in BOOLEAN
      BY <1>1, <2>1, <2>2, <2>4, LifeRecord, TokenTypes
    <2> QED BY <1>1, <1>2, <2>3, <2>4, <2>5, LifeFrame, WorldFrame, PlainGoes DEF IInv
  <1>6. CASE StartsCooldownPolling
    <2>1. PICK timer \in BOOLEAN : timer = (kite.pipe = None /\ life.mode = "COOLDOWN")
      OBVIOUS
    <2>2. PICK pc \in {"positions", "finish"} : Goes(W, pc)
      BY <1>6 DEF StartsCooldownPolling
    <2>3. /\ life' = [life EXCEPT !.timer = timer]
          /\ UNCHANGED <<setup, left, world, track, watch, trading, halted, kite, sockets, conn,
                         overlap>>
      BY <1>6, <2>1 DEF StartsCooldownPolling
    <2>4. life' \in Life
      BY <1>1, <2>1, <2>3 DEF Life
    <2> QED BY <1>1, <1>2, <2>2, <2>3, <2>4, LifeFrame, WorldFrame, PlainGoes DEF IInv
  <1>7. CASE CooldownPoll
    <2>1. Goes("poll", "positions")
          /\ UNCHANGED <<setup, left, world, track, watch, engine, kite, sockets, conn, overlap>>
      BY <1>7 DEF CooldownPoll
    <2> QED BY <1>1, <1>2, <2>1, EngineFrame, WorldFrame, PlainGoes DEF IInv
  <1>8. ASSUME NEW p \in {"watcher", "poll"}, HoldsCooldown(p) PROVE IInv'
    <2>1. left' \subseteq left
          /\ UNCHANGED <<setup, world, track, watch, trading, halted, kite, sockets, conn, overlap>>
      BY <1>8 DEF HoldsCooldown, NoFault, Fault
    <2>2. PICK timer \in BOOLEAN : timer = (life.mode = "COOLDOWN")
      OBVIOUS
    <2>3. \/ Rests(p) /\ life' = life
          \/ Goes(p, "finish") /\ life' = [life EXCEPT !.timer = timer]
      BY <1>8, <2>2 DEF HoldsCooldown
    <2>4. life' \in Life
      BY <1>1, <2>2, <2>3 DEF Life
    <2>5. SocketInv' /\ ProcInv' /\ LeakInv'
      BY <1>2, <2>1, <2>3, PlainGoes, PlainRests
    <2> QED BY <1>1, <2>1, <2>4, <2>5, LifeFrame, WorldFrame DEF IInv
  <1>9. ASSUME NEW p \in {"watcher", "login"}, SessionFails(p) PROVE IInv'
    <2>1. left' \subseteq left
          /\ UNCHANGED <<setup, world, track, watch, trading, kite, sockets, conn, overlap>>
      BY <1>9 DEF SessionFails, Fault
    <2>2. \/ Rests(p) /\ life' = life /\ halted' = halted
          \/ Goes(p, "finish") /\ life' = [life EXCEPT !.failed = setup.lifecycle] /\ halted' = TRUE
      BY <1>9 DEF SessionFails
    <2>3. life' \in Life /\ halted' \in BOOLEAN
      BY <1>1, <2>2, TokenTypes DEF Life
    <2>4. SocketInv' /\ ProcInv' /\ LeakInv'
      BY <1>2, <2>1, <2>2, PlainGoes, PlainRests
    <2> QED BY <1>1, <2>1, <2>3, <2>4, LifeFrame, WorldFrame DEF IInv
  <1> QED BY <1>3, <1>4, <1>5, <1>6, <1>7, <1>8, <1>9

-----------------------------------------------------------------------------
(* Session control and logins, where they neither stop nor start a session. *)

LEMMA ControlPlain ==
    ASSUME IInv, ControlTick \/ InvalidationFails \/ Login
    PROVE  IInv'
  <1>1. WorldInv /\ EngineInv /\ SocketInv /\ ProcInv /\ LeakInv
    BY DEF IInv
  <1>2. /\ "control" \in Procs /\ "login" \in Procs
        /\ {"invalidate", "stored"} \subseteq Places \ {"stopping", "create"}
    BY DEF Procs, Places
  <1>3. CASE ControlTick
    <2>1. PICK then \in {"rest", "logout"} :
            proc' = [proc EXCEPT !["control"].pc = "invalidate", !["control"].then = then,
                                 !["control"].token = track.token]
      BY <1>3 DEF ControlTick
    <2>2. UNCHANGED <<setup, left, world, track, watch, engine, kite, sockets, conn, overlap>>
      BY <1>3 DEF ControlTick
    <2>3. track.token \in Tokens
      BY TokenTypes DEF Track
    <2>4. \E r \in Process : Becomes("control", r) /\ r.pc = "invalidate"
      BY <1>1, <1>2, <2>1, <2>3, ThenBecomes
    <2> QED BY <1>1, <1>2, <2>2, <2>4, EngineFrame, WorldFrame, PlainMove DEF IInv
  <1>4. CASE InvalidationFails
    <2>1. Rests("control") /\ left' \subseteq left
          /\ UNCHANGED <<setup, world, track, watch, engine, kite, sockets, conn, overlap>>
      BY <1>4 DEF InvalidationFails, Fault
    <2> QED BY <1>1, <1>2, <2>1, EngineFrame, WorldFrame, PlainRests DEF IInv
  <1>5. CASE Login
    <2>1. /\ issued < setup.logins /\ issued' = issued + 1
          /\ store' = [token |-> issued + 1, day |-> Today]
          /\ watch' = [watch EXCEPT !.news = setup.stream]
          /\ UNCHANGED <<setup, left, clock, flat, track, engine, kite, sockets, conn, overlap>>
      BY <1>5 DEF Login
    <2>2. issued + 1 \in Tokens /\ issued + 1 <= setup.logins
      <3>1. setup.logins \in 0 .. 3 /\ issued \in 0 .. 3
        BY <1>1, SetupType DEF WorldInv, Tokens
      <3> QED BY <2>1, <3>1 DEF Tokens
    <2>3. WorldInv'
      BY <1>1, <2>1, <2>2, DayType DEF WorldInv
    <2>4. EngineInv'
      BY <1>1, <2>1, WatchRecord, TokenTypes DEF EngineInv, engine
    <2>5. \/ proc' = [proc EXCEPT !["login"].pc = "stored", !["login"].token = issued + 1]
          \/ UNCHANGED proc
      BY <1>5 DEF Login
    <2>6. CASE UNCHANGED proc
      <3>1. SocketInv'
        BY <1>1, <2>1, SocketFrame DEF SocketInv
      <3>2. ProcInv' /\ LeakInv'
        BY <1>1, <2>1, <2>6, StillStep DEF sockets
      <3> QED BY <2>3, <2>4, <3>1, <3>2 DEF IInv
    <2>7. CASE proc' = [proc EXCEPT !["login"].pc = "stored", !["login"].token = issued + 1]
      <3>1. \E r \in Process : Becomes("login", r) /\ r.pc = "stored"
        BY <1>1, <1>2, <2>2, <2>7, TokenBecomes
      <3> QED BY <1>2, <2>1, <2>3, <2>4, <3>1, PlainMove DEF IInv
    <2> QED BY <2>5, <2>6, <2>7
  <1> QED BY <1>3, <1>4, <1>5

-----------------------------------------------------------------------------
(* Steps that stop a session, or stop the old one before a start.           *)

LEMMA StopMove ==
    ASSUME IInv, NEW p \in Procs, NEW then \in Stops \ {"create"}, Cleanup(p, then),
           proc[p].pc \notin {"stopping", "create"}, UNCHANGED <<setup, sockets, conn, overlap>>
    PROVE  SocketInv' /\ ProcInv' /\ LeakInv'
  <1>1. SocketInv /\ ProcInv /\ LeakInv /\ overlap \in BOOLEAN
    BY DEF IInv, SocketInv
  <1>2. kite' \in Kite /\ ProcInv' /\ LeakInv'
    BY <1>1, CleanupStep DEF sockets
  <1> QED BY <1>1, <1>2, SocketFrame

LEMMA SetSessionMove ==
    ASSUME IInv, NEW p \in Procs, NEW token, NEW after \in Places \ {"stopping", "create"},
           SetSession(p, token, after), proc[p].pc \notin {"stopping", "create"},
           UNCHANGED <<setup, sockets, conn>>
    PROVE  SocketInv' /\ ProcInv' /\ LeakInv'
  <1>1. SocketInv /\ ProcInv /\ LeakInv /\ overlap \in BOOLEAN
    BY DEF IInv, SocketInv
  <1>2. CASE token = kite.token
    <2>1. Goes(p, after) /\ UNCHANGED <<kite, overlap>>
      BY <1>2 DEF SetSession
    <2> QED BY <2>1, PlainGoes
  <1>3. CASE token # kite.token
    <2>1. Cleanup(p, "create") /\ overlap' = (overlap \/ Starting \ {p} # {})
      BY <1>3 DEF SetSession
    <2>2. overlap' \in BOOLEAN
      BY <2>1
    <2>3. kite' \in Kite /\ ProcInv' /\ LeakInv'
      BY <1>1, <2>1, CleanupStep DEF sockets, Stops
    <2> QED BY <1>1, <2>2, <2>3, SocketFrame
  <1> QED BY <1>2, <1>3

LEMMA StopSteps ==
    ASSUME IInv, \/ PreflightBlocks \/ StartsDirectly \/ StopsForRefresh \/ AppliesIdle
                 \/ \E p \in {"watcher", "poll"} : StopsIntoIdle(p)
                 \/ Invalidates \/ AppliesLogin
    PROVE  IInv'
  <1>1. /\ WorldInv /\ EngineInv /\ SocketInv /\ ProcInv /\ LeakInv
        /\ life \in Life /\ trading \in BOOLEAN /\ halted \in BOOLEAN
    BY DEF IInv, EngineInv
  <1> DEFINE W == "watcher"
  <1>2. /\ W \in Procs /\ "poll" \in Procs /\ "login" \in Procs /\ "control" \in Procs
        /\ {"rest", "finish"} \subseteq Places \ {"stopping", "create"}
        /\ {"refreshed", "stopped", "idle"} \subseteq Stops \ {"create"}
        /\ "IDLE" \in Modes
    BY DEF Procs, Places, Stops, Modes
  <1>3. CASE PreflightBlocks
    <2>1. At(W, "preflight") /\ Cleanup(W, "stopped") /\ left' \subseteq left
          /\ UNCHANGED <<setup, world, track, watch, engine, sockets, conn, overlap>>
      BY <1>3 DEF PreflightBlocks, Fault
    <2> QED BY <1>1, <1>2, <2>1, WorldFrame, EngineFrame, StopMove DEF At, IInv
  <1>4. CASE StartsDirectly
    <2>1. At(W, "preflight") /\ SetSession(W, proc[W].token, "finish")
          /\ UNCHANGED <<setup, left, world, track, watch, engine, sockets, conn>>
      BY <1>4 DEF StartsDirectly
    <2> QED BY <1>1, <1>2, <2>1, WorldFrame, EngineFrame, SetSessionMove DEF At, IInv
  <1>5. CASE StopsForRefresh
    <2>1. At(W, "refresh") /\ Cleanup(W, "refreshed") /\ trading' = FALSE
          /\ UNCHANGED <<setup, left, world, track, watch, life, halted, sockets, conn, overlap>>
      BY <1>5 DEF StopsForRefresh
    <2>2. EngineInv'
      BY <1>1, <2>1, LifeFrame
    <2> QED BY <1>1, <1>2, <2>1, <2>2, WorldFrame, StopMove DEF At, IInv
  <1>6. CASE AppliesIdle
    <2>1. PICK mode \in Modes : mode = IF life.running THEN life.mode ELSE "IDLE"
      BY <1>1, <1>2 DEF Life
    <2>2. /\ At(W, "apply") /\ trading' = FALSE
          /\ life' = [life EXCEPT !.timer = FALSE, !.mode = mode]
          /\ UNCHANGED <<setup, left, world, track, watch, halted, sockets, conn, overlap>>
      BY <1>6, <2>1 DEF AppliesIdle
    <2>3. Cleanup(W, "idle") \/ (Goes(W, "finish") /\ UNCHANGED kite)
      BY <1>6 DEF AppliesIdle
    <2>4. life' \in Life
      BY <1>1, <2>1, <2>2, LifeRecord, TokenTypes
    <2>5. SocketInv' /\ ProcInv' /\ LeakInv'
      BY <1>2, <2>2, <2>3, StopMove, PlainGoes DEF At
    <2> QED BY <1>1, <2>2, <2>4, <2>5, WorldFrame, LifeFrame DEF IInv
  <1>7. ASSUME NEW p \in {"watcher", "poll"}, StopsIntoIdle(p) PROVE IInv'
    <2>1. At(p, "positions") /\ Cleanup(p, "idle") /\ trading' = FALSE
          /\ life' = [life EXCEPT !.timer = FALSE]
          /\ UNCHANGED <<setup, left, world, track, watch, halted, sockets, conn, overlap>>
      BY <1>7 DEF StopsIntoIdle
    <2>2. life' \in Life
      BY <1>1, <2>1 DEF Life
    <2>3. SocketInv' /\ ProcInv' /\ LeakInv'
      BY <1>2, <2>1, StopMove DEF At
    <2> QED BY <1>1, <2>1, <2>2, <2>3, WorldFrame, LifeFrame DEF IInv
  <1>8. CASE Invalidates
    <2>1. track \in Track /\ watch \in Watch /\ None \in Tokens
      BY TokenTypes
    <2>2. PICK logout \in 0 .. 2 :
            logout = IF proc["control"].then = "logout" THEN Today ELSE track.logout
      BY <1>1, <2>1, DayType DEF Track
    <2>3. /\ At("control", "invalidate") /\ Cleanup("control", "stopped")
          /\ store' = Invalidated(proc["control"].token)
          /\ track' = [track EXCEPT !.token = None, !.logout = logout]
          /\ watch' = [watch EXCEPT !.news = setup.stream]
          /\ UNCHANGED <<setup, left, clock, issued, flat, engine, sockets, conn, overlap>>
      BY <1>8, <2>2 DEF Invalidates
    <2>4. track' \in Track /\ watch' \in Watch
      BY <2>1, <2>2, <2>3, LogoutRecord, WatchRecord, TokenTypes
    <2>5. store' \in [token : Tokens, day : 0 .. 1]
      BY <1>2, <2>3, TokenTypes
    <2>6. WorldInv' /\ EngineInv'
      BY <1>1, <2>3, <2>4, <2>5 DEF WorldInv, EngineInv, engine
    <2> QED BY <1>2, <2>3, <2>6, StopMove DEF At, IInv
  <1>9. CASE AppliesLogin
    <2>1. /\ At("login", "stored") /\ SetSession("login", proc["login"].token, "rest")
          /\ track' = [track EXCEPT !.token = proc["login"].token, !.day = store.day]
          /\ UNCHANGED <<setup, left, world, watch, engine, sockets, conn>>
      BY <1>9 DEF AppliesLogin
    <2>2. track' \in Track
      BY <1>2, <2>1, TrackRecord, TokenTypes
    <2>3. WorldInv' /\ EngineInv'
      BY <1>1, <2>1, <2>2, WorldFrame DEF EngineInv, engine
    <2> QED BY <1>2, <2>1, <2>3, SetSessionMove DEF At, IInv
  <1> QED BY <1>3, <1>4, <1>5, <1>6, <1>7, <1>8, <1>9

-----------------------------------------------------------------------------
(* The pipeline has stopped: all who wait for it go on.                     *)

LEMMA PipelineStep ==
    ASSUME IInv, NEW s, PipelineStops(s)
    PROVE  IInv'
  <1>1. /\ WorldInv /\ EngineInv /\ SocketInv /\ ProcInv /\ LeakInv
        /\ kite \in Kite /\ proc \in [Procs -> Process] /\ overlap \in BOOLEAN
        /\ wired \subseteq 1 .. made /\ up \subseteq wired
    BY DEF IInv, SocketInv, ProcInv
  <1>2. /\ Waiting(s) # {} /\ proc' = Resumed(Waiting(s)) /\ kite' = Reset
        /\ wired' = wired \ {s} /\ up' = up \ {s}
        /\ UNCHANGED <<setup, left, world, track, watch, engine, made, conn, overlap>>
    BY DEF PipelineStops
  <1>3. kite' \in Kite /\ kite'.pipe = None
    BY <1>1, <1>2, SessionAssumption DEF Reset, Kite, Sessions, None
  <1>4. SocketInv'
    BY <1>1, <1>2, <1>3 DEF SocketInv, Handlers
  <1>5. \A q \in Procs :
          /\ q \in Waiting(s) => /\ proc'[q] = [proc[q] EXCEPT !.pc = proc[q].then, !.prev = None]
                                 /\ proc[q].pc = "stopping" /\ proc[q].then \in Stops
          /\ q \notin Waiting(s) => proc'[q] = proc[q]
    BY <1>1, <1>2 DEF Resumed, Waiting, ProcInv
  <1>6. ASSUME NEW q \in Waiting(s)
        PROVE  proc'[q] \in Process /\ proc'[q].pc = proc[q].then /\ proc[q].then \in Stops
    <2>1. q \in Procs
      BY DEF Waiting
    <2>2. PICK x \in Process : x = proc[q]
      BY <1>1, <2>1
    <2>3. PICK A, B : Process = [pc : Places, then : B, prev : Sessions, token : Tokens, plan : A]
      BY DEF Process
    <2>4. x.then \in Stops /\ Stops \subseteq Places /\ None \in Sessions
      <3>1. Stops \subseteq Places /\ None \in Sessions
        BY SessionAssumption DEF Stops, Places, Sessions, None
      <3> QED BY <1>5, <2>1, <2>2, <3>1
    <2>5. PICK r : r = [x EXCEPT !.pc = x.then, !.prev = None]
      OBVIOUS
    <2>6. r = [pc |-> x.then, then |-> x.then, prev |-> None, token |-> x.token, plan |-> x.plan]
      BY <2>3, <2>5
    <2>7. r \in Process /\ r.pc = x.then
      BY <2>3, <2>4, <2>6
    <2> QED BY <1>5, <2>1, <2>2, <2>4, <2>5, <2>7
  <1>7. proc' \in [Procs -> Process]
    <2>1. \A q \in Procs : proc'[q] \in Process
      BY <1>1, <1>5, <1>6
    <2> QED BY <1>2, <2>1 DEF Resumed
  <1>8. ProcInv'
    <2>1. ASSUME NEW q \in Procs, proc'[q].pc = "stopping" PROVE proc'[q].then \in Stops
      <3>1. q \notin Waiting(s)
        BY <1>6, <2>1 DEF Stops
      <3> QED BY <1>1, <1>5, <2>1, <3>1 DEF ProcInv
    <2> QED BY <1>7, <2>1 DEF ProcInv
  <1>9. LeakInv'
    <2> SUFFICES ASSUME ~overlap PROVE LeakInv'
      BY <1>2 DEF LeakInv
    <2>1. kite.pipe = s
      <3>1. PICK q \in Procs : proc[q].pc = "stopping" /\ proc[q].prev = s
        BY <1>2 DEF Waiting
      <3> QED BY <1>1, <3>1 DEF LeakInv
    <2>2. wired' \subseteq {}
      BY <1>1, <1>2, <2>1 DEF LeakInv
    <2>3. ASSUME NEW q \in Procs PROVE proc'[q].pc # "stopping"
      <3>1. CASE q \in Waiting(s)
        BY <1>6, <3>1 DEF Stops
      <3>2. CASE q \notin Waiting(s)
        BY <1>1, <1>5, <2>1, <3>2 DEF Waiting, LeakInv
      <3> QED BY <3>1, <3>2
    <2>4. Starting' \subseteq Starting
      <3> SUFFICES ASSUME NEW q \in Procs, proc'[q].pc = "create" PROVE q \in Starting
        BY <2>3 DEF Starting
      <3>1. CASE q \in Waiting(s)
        BY <1>5, <1>6, <3>1 DEF Starting
      <3>2. CASE q \notin Waiting(s)
        BY <1>5, <3>2 DEF Starting
      <3> QED BY <3>1, <3>2
    <2> QED BY <1>1, <1>3, <2>2, <2>3, <2>4 DEF LeakInv
  <1> QED BY <1>1, <1>2, <1>4, <1>8, <1>9, WorldFrame, EngineFrame DEF IInv

-----------------------------------------------------------------------------
(* The end of a stop, and the start of a session.                           *)

LEMMA ForgetMove ==
    ASSUME IInv, NEW p \in Procs, kite' = Forgotten, UNCHANGED <<setup, sockets, conn, overlap>>,
           \/ Rests(p)
           \/ \E pc \in Places \ {"stopping", "create"} : Goes(p, pc)
    PROVE  SocketInv' /\ ProcInv' /\ LeakInv'
  <1>1. SocketInv /\ ProcInv /\ LeakInv /\ kite \in Kite /\ None \in Tokens
    BY TokenTypes DEF IInv, SocketInv
  <1>2. kite' \in Kite /\ kite'.pipe = kite.pipe
    BY <1>1 DEF Forgotten, Kite
  <1>3. \E r \in Process : Becomes(p, r) /\ r.pc \notin {"stopping", "create"}
    BY <1>1, GoesBecomes, RestsBecomes
  <1>4. ProcInv' /\ LeakInv'
    BY <1>1, <1>2, <1>3, PlainStep DEF sockets
  <1>5. SocketInv'
    BY <1>1, <1>2, SocketFrame DEF SocketInv
  <1> QED BY <1>4, <1>5

LEMMA StopEnds ==
    ASSUME IInv, \/ Refreshed
                 \/ \E p \in {"watcher", "control"} : SessionStopped(p)
                 \/ \E p \in {"watcher", "poll"} : IntoIdle(p)
    PROVE  IInv'
  <1>1. /\ WorldInv /\ EngineInv /\ life \in Life /\ trading \in BOOLEAN /\ halted \in BOOLEAN
        /\ None \in Tokens
    BY TokenTypes DEF IInv, EngineInv
  <1>2. /\ "watcher" \in Procs /\ "poll" \in Procs /\ "control" \in Procs
        /\ "apply" \in Places \ {"stopping", "create"}
        /\ "finish" \in Places \ {"stopping", "create"} /\ "IDLE" \in Modes
    BY DEF Procs, Places, Modes
  <1>3. CASE Refreshed
    <2>1. Goes("watcher", "apply") /\ kite' = Forgotten
          /\ life' = [life EXCEPT !.running = FALSE]
          /\ UNCHANGED <<setup, left, world, track, watch, trading, halted, sockets, conn, overlap>>
      BY <1>3 DEF Refreshed
    <2>2. life' \in Life
      BY <1>1, <2>1 DEF Life
    <2> QED BY <1>1, <1>2, <2>1, <2>2, WorldFrame, LifeFrame, ForgetMove DEF IInv
  <1>4. ASSUME NEW p \in {"watcher", "control"}, SessionStopped(p) PROVE IInv'
    <2>1. (Goes(p, "finish") \/ Rests(p)) /\ kite' = Forgotten
          /\ UNCHANGED <<setup, left, world, track, watch, engine, sockets, conn, overlap>>
      BY <1>4 DEF SessionStopped
    <2> QED BY <1>1, <1>2, <2>1, WorldFrame, EngineFrame, ForgetMove DEF IInv
  <1>5. ASSUME NEW p \in {"watcher", "poll"}, IntoIdle(p) PROVE IInv'
    <2>1. (Goes(p, "finish") \/ Rests(p)) /\ kite' = Forgotten
          /\ life' = [life EXCEPT !.running = FALSE, !.mode = "IDLE"]
          /\ UNCHANGED <<setup, left, world, track, watch, trading, halted, sockets, conn, overlap>>
      BY <1>5 DEF IntoIdle
    <2>2. life' \in Life
      BY <1>1, <1>2, <2>1, LifeRecord
    <2> QED BY <1>1, <1>2, <2>1, <2>2, WorldFrame, LifeFrame, ForgetMove DEF IInv
  <1> QED BY <1>3, <1>4, <1>5

LEMMA ScheduleStep ==
    ASSUME IInv, AppliesSchedule
    PROVE  IInv'
  <1>1. /\ WorldInv /\ EngineInv /\ SocketInv /\ ProcInv /\ LeakInv
        /\ kite \in Kite /\ overlap \in BOOLEAN /\ Phase \in Modes
        /\ wired \subseteq 1 .. made /\ "watcher" \in Procs
        /\ "mode" \in Places /\ "create" \in Places
    BY TokenTypes DEF IInv, SocketInv, Procs, Places
  <1>2. UNCHANGED <<setup, left, world, track, watch, engine, sockets, conn>>
    BY DEF AppliesSchedule
  <1>3. CASE /\ proc' = [proc EXCEPT !["watcher"].pc = "mode", !["watcher"].plan = Phase]
             /\ UNCHANGED <<kite, overlap>>
    <2>1. \E r \in Process : Becomes("watcher", r) /\ r.pc = "mode"
      BY <1>1, <1>3, PlanBecomes
    <2> QED BY <1>1, <1>2, <1>3, <2>1, PlainMove, WorldFrame, EngineFrame DEF IInv
  <1>4. CASE /\ ~SessionIsRunning /\ kite' = Reset
             /\ proc' = [proc EXCEPT !["watcher"].pc = "create", !["watcher"].plan = Phase]
             /\ overlap' = (overlap \/ Starting # {})
    <2>1. kite.pipe = None
      BY <1>4 DEF SessionIsRunning
    <2>2. kite' \in Kite /\ kite'.pipe = None
      BY <1>1, <1>4, SessionAssumption DEF Reset, Kite, Sessions, None
    <2>3. PICK r \in Process : Becomes("watcher", r) /\ r.pc = "create"
      BY <1>1, <1>4, PlanBecomes
    <2>4. /\ proc' \in [Procs -> Process] /\ proc'["watcher"] = r
          /\ \A q \in Procs : q # "watcher" => proc'[q] = proc[q]
      BY <1>1, <2>3 DEF ProcInv, Becomes
    <2>5. ProcInv'
      BY <1>1, <2>3, <2>4 DEF ProcInv
    <2>6. overlap' \in BOOLEAN /\ (overlap => overlap')
      BY <1>4
    <2>7. SocketInv'
      BY <1>1, <1>2, <2>2, <2>6, SocketFrame
    <2>8. LeakInv'
      <3> SUFFICES ASSUME ~overlap' PROVE LeakInv'
        BY DEF LeakInv
      <3>1. Starting = {} /\ ~overlap
        BY <1>1, <1>4
      <3>2. Starting' \subseteq {"watcher"}
        BY <2>3, <2>4, <3>1 DEF Starting
      <3>3. ASSUME NEW q \in Procs PROVE proc'[q].pc # "stopping"
        BY <1>1, <2>1, <2>3, <2>4, <3>1 DEF LeakInv
      <3>4. wired' = wired
        BY <1>2 DEF sockets
      <3> QED BY <1>1, <2>1, <2>2, <3>1, <3>2, <3>3, <3>4 DEF LeakInv
    <2> QED BY <1>1, <1>2, <2>5, <2>7, <2>8, WorldFrame, EngineFrame DEF IInv
  <1> QED BY <1>3, <1>4 DEF AppliesSchedule

LEMMA StartStepKeeps ==
    ASSUME IInv, NEW p \in {"watcher", "login"}, SessionStarts(p)
    PROVE  IInv'
  <1>1. /\ WorldInv /\ EngineInv /\ SocketInv /\ ProcInv /\ LeakInv
        /\ kite \in Kite /\ overlap \in BOOLEAN /\ proc \in [Procs -> Process]
        /\ wired \subseteq 1 .. made /\ up \subseteq wired /\ made \in 0 .. MaxSessions
        /\ MaxSessions \in Nat
    BY SessionAssumption DEF IInv, SocketInv, ProcInv, Sessions
  <1>2. /\ p \in Procs /\ "mode" \in Places \ {"stopping", "create"}
        /\ "finish" \in Places \ {"stopping", "create"}
    BY DEF Procs, Places
  <1>3. /\ proc[p].pc = "create" /\ made < MaxSessions /\ made' = made + 1
        /\ kite' = [kite EXCEPT !.pipe = made + 1, !.token = proc[p].token]
        /\ wired' = wired \cup {made + 1}
        /\ Rests(p) \/ Goes(p, "mode") \/ Goes(p, "finish")
        /\ UNCHANGED <<setup, left, world, track, watch, engine, up, conn, overlap>>
    BY DEF SessionStarts, Created, At
  <1>4. kite' \in Kite /\ kite'.pipe = made + 1
    <2>1. kite' = [pipe |-> made + 1, token |-> proc[p].token, connected |-> kite.connected,
                   loop |-> kite.loop, inFlight |-> kite.inFlight]
      BY <1>1, <1>3 DEF Kite
    <2>2. made + 1 \in Sessions /\ proc[p].token \in Tokens
      BY <1>1, <1>2, <1>3, TokenTypes DEF Sessions
    <2> QED BY <1>1, <2>1, <2>2 DEF Kite
  <1>5. SocketInv'
    <2>1. made' \in Sessions /\ wired' \subseteq 1 .. made' /\ up' \subseteq wired'
      BY <1>1, <1>3 DEF Sessions
    <2> QED BY <1>1, <1>3, <1>4, <2>1 DEF SocketInv, Handlers
  <1>6. PICK r \in Process : Becomes(p, r) /\ r.pc \notin {"stopping", "create"}
    BY <1>1, <1>2, <1>3, GoesBecomes, RestsBecomes
  <1>7. /\ proc' \in [Procs -> Process] /\ proc'[p] = r
        /\ \A q \in Procs : q # p => proc'[q] = proc[q]
    BY <1>1, <1>2, <1>6 DEF Becomes
  <1>8. ProcInv'
    BY <1>1, <1>6, <1>7 DEF ProcInv
  <1>9. LeakInv'
    <2> SUFFICES ASSUME ~overlap PROVE LeakInv'
      BY <1>3 DEF LeakInv
    <2>1. kite.pipe = None
      BY <1>1, <1>2, <1>3 DEF LeakInv
    <2>2. wired = {}
      BY <1>1, <2>1 DEF LeakInv, None
    <2>3. p \in Starting
      BY <1>2, <1>3 DEF Starting
    <2>4. ASSUME NEW q \in Procs PROVE proc'[q].pc \notin {"stopping", "create"}
      <3>1. CASE q = p
        BY <1>6, <1>7, <3>1
      <3>2. CASE q # p
        <4>1. q \notin Starting
          BY <1>1, <2>3, <3>2 DEF LeakInv
        <4>2. proc[q].pc # "stopping"
          BY <1>1, <2>1 DEF LeakInv
        <4> QED BY <1>7, <3>2, <4>1, <4>2 DEF Starting
      <3> QED BY <3>1, <3>2
    <2>5. Starting' = {}
      BY <2>4 DEF Starting
    <2> QED BY <1>3, <1>4, <2>2, <2>4, <2>5 DEF LeakInv
  <1> QED BY <1>1, <1>3, <1>5, <1>8, <1>9, WorldFrame, EngineFrame DEF IInv

-----------------------------------------------------------------------------
(* The ticker, its handlers, and the world.                                 *)

LEMMA KiteRecord ==
    ASSUME NEW k \in Kite
    PROVE  /\ [k EXCEPT !.connected = TRUE] \in Kite /\ [k EXCEPT !.connected = TRUE].pipe = k.pipe
           /\ [k EXCEPT !.inFlight = FALSE] \in Kite /\ [k EXCEPT !.inFlight = FALSE].pipe = k.pipe
           /\ [k EXCEPT !.inFlight = TRUE] \in Kite /\ [k EXCEPT !.inFlight = TRUE].pipe = k.pipe
           /\ [k EXCEPT !.connected = FALSE, !.loop = FALSE] \in Kite
           /\ [k EXCEPT !.connected = FALSE, !.loop = FALSE].pipe = k.pipe
           /\ [k EXCEPT !.connected = FALSE, !.loop = FALSE, !.inFlight = FALSE] \in Kite
           /\ [k EXCEPT !.connected = FALSE, !.loop = FALSE, !.inFlight = FALSE].pipe = k.pipe
           /\ [k EXCEPT !.loop = TRUE, !.inFlight = FALSE] \in Kite
           /\ [k EXCEPT !.loop = TRUE, !.inFlight = FALSE].pipe = k.pipe
  <1>1. PICK a : a = [k EXCEPT !.connected = FALSE, !.loop = FALSE]
    OBVIOUS
  <1>2. PICK b : b = [k EXCEPT !.connected = FALSE, !.loop = FALSE, !.inFlight = FALSE]
    OBVIOUS
  <1>3. PICK c : c = [k EXCEPT !.loop = TRUE, !.inFlight = FALSE]
    OBVIOUS
  <1>4. a = [pipe |-> k.pipe, token |-> k.token, connected |-> FALSE, loop |-> FALSE,
             inFlight |-> k.inFlight]
    BY <1>1 DEF Kite
  <1>5. b = [pipe |-> k.pipe, token |-> k.token, connected |-> FALSE, loop |-> FALSE,
             inFlight |-> FALSE]
    BY <1>2 DEF Kite
  <1>6. c = [pipe |-> k.pipe, token |-> k.token, connected |-> k.connected, loop |-> TRUE,
             inFlight |-> FALSE]
    BY <1>3 DEF Kite
  <1>7. /\ a \in Kite /\ a.pipe = k.pipe /\ b \in Kite /\ b.pipe = k.pipe
        /\ c \in Kite /\ c.pipe = k.pipe
    BY <1>4, <1>5, <1>6 DEF Kite
  <1>8. /\ [k EXCEPT !.connected = TRUE] \in Kite /\ [k EXCEPT !.connected = TRUE].pipe = k.pipe
        /\ [k EXCEPT !.inFlight = FALSE] \in Kite /\ [k EXCEPT !.inFlight = FALSE].pipe = k.pipe
        /\ [k EXCEPT !.inFlight = TRUE] \in Kite /\ [k EXCEPT !.inFlight = TRUE].pipe = k.pipe
    BY DEF Kite
  <1> QED BY <1>1, <1>2, <1>3, <1>7, <1>8

LEMMA TickerSteps ==
    ASSUME IInv, \/ \E c \in Handlers : \/ ConnectStep(c) \/ InitializationFails(c)
                                       \/ \E s \in 1 .. MaxSessions : Connects(s, c)
                 \/ \E s \in 1 .. MaxSessions : Disconnects(s)
    PROVE  IInv'
  <1>1. /\ WorldInv /\ EngineInv /\ SocketInv /\ ProcInv /\ LeakInv /\ kite \in Kite
        /\ up \subseteq wired
        /\ conn \in [Handlers -> ConnPlaces]
    BY DEF IInv, SocketInv
  <1>2. /\ kite' \in Kite /\ kite'.pipe = kite.pipe
        /\ up' \subseteq wired /\ left' \subseteq left
        /\ conn' \in [Handlers -> ConnPlaces]
        /\ UNCHANGED <<setup, world, track, watch, engine, wired, made, proc, overlap>>
    <2>1. ASSUME NEW c \in Handlers, NEW s \in 1 .. MaxSessions, Connects(s, c) PROVE <1>2!:
      <3>1. /\ s \in wired /\ up' = up \cup {s}
            /\ kite' = [kite EXCEPT !.connected = TRUE]
            /\ UNCHANGED <<setup, left, world, track, watch, engine, wired, made, proc, overlap>>
        BY <2>1 DEF Connects
      <3>2. conn' \in [Handlers -> ConnPlaces]
        BY <1>1, <2>1 DEF Connects, ConnPlaces
      <3> QED BY <1>1, <3>1, <3>2, KiteRecord
    <2>2. ASSUME NEW s \in 1 .. MaxSessions, Disconnects(s) PROVE <1>2!:
      <3>1. /\ up' = up \ {s} /\ left' \subseteq left
            /\ kite' = [kite EXCEPT !.connected = FALSE, !.loop = FALSE]
            /\ UNCHANGED <<setup, world, track, watch, engine, wired, made, proc, conn, overlap>>
        BY <2>2 DEF Disconnects, Fault
      <3> QED BY <1>1, <3>1, KiteRecord
    <2>3. ASSUME NEW c \in Handlers, Bootstraps(c) PROVE <1>2!:
      <3>1. /\ \/ conn' = [conn EXCEPT ![c] = "idle"]
               \/ conn' = [conn EXCEPT ![c] = "resolve"]
            /\ UNCHANGED <<setup, left, world, track, watch, engine, sockets, proc, overlap>>
        BY <2>3 DEF Bootstraps
      <3>2. \/ kite' = [kite EXCEPT !.connected = FALSE, !.loop = FALSE, !.inFlight = FALSE]
            \/ kite' = [kite EXCEPT !.inFlight = TRUE]
            \/ kite' = kite
        BY <2>3 DEF Bootstraps
      <3>3. conn' \in [Handlers -> ConnPlaces]
        BY <1>1, <3>1 DEF ConnPlaces
      <3>4. kite' \in Kite /\ kite'.pipe = kite.pipe
        BY <1>1, <3>2, KiteRecord
      <3> QED BY <1>1, <3>1, <3>3, <3>4 DEF sockets
    <2>4. ASSUME NEW c \in Handlers, Initializes(c) PROVE <1>2!:
      <3>1. UNCHANGED <<setup, left, world, track, watch, engine, sockets, proc, overlap>>
        BY <2>4 DEF Initializes
      <3>2. kite' = [kite EXCEPT !.inFlight = FALSE] \/ kite' = kite
        BY <2>4 DEF Initializes
      <3>3. PICK pc \in {"idle", "init", "reconcile"} : conn' = [conn EXCEPT ![c] = pc]
        <4>1. PICK pc \in {"init", "reconcile"} :
                pc = IF conn[c] = "resolve" THEN "init" ELSE "reconcile"
          OBVIOUS
        <4> QED BY <1>1, <2>4, <4>1 DEF Initializes
      <3>4. conn' \in [Handlers -> ConnPlaces]
        BY <1>1, <3>3 DEF ConnPlaces
      <3>5. kite' \in Kite /\ kite'.pipe = kite.pipe
        BY <1>1, <3>2, KiteRecord
      <3> QED BY <1>1, <3>1, <3>4, <3>5 DEF sockets
    <2>5. ASSUME NEW c \in Handlers, StartsReconcileLoop(c) PROVE <1>2!:
      <3>1. /\ conn' = [conn EXCEPT ![c] = "idle"]
            /\ kite' = [kite EXCEPT !.loop = TRUE, !.inFlight = FALSE]
            /\ UNCHANGED <<setup, left, world, track, watch, engine, sockets, proc, overlap>>
        BY <2>5 DEF StartsReconcileLoop
      <3>2. conn' \in [Handlers -> ConnPlaces]
        BY <1>1, <3>1 DEF ConnPlaces
      <3> QED BY <1>1, <3>1, <3>2, KiteRecord DEF sockets
    <2>6. ASSUME NEW c \in Handlers, InitializationFails(c) PROVE <1>2!:
      <3>1. /\ conn' = [conn EXCEPT ![c] = "failed"] /\ left' \subseteq left
            /\ kite' = [kite EXCEPT !.inFlight = FALSE]
            /\ UNCHANGED <<setup, world, track, watch, engine, sockets, proc, overlap>>
        BY <2>6 DEF InitializationFails, Fault
      <3>2. conn' \in [Handlers -> ConnPlaces]
        BY <1>1, <3>1 DEF ConnPlaces
      <3> QED BY <1>1, <3>1, <3>2, KiteRecord DEF sockets
    <2> QED BY <2>1, <2>2, <2>3, <2>4, <2>5, <2>6 DEF ConnectStep
  <1>3. SocketInv'
    BY <1>1, <1>2 DEF SocketInv, Handlers
  <1>4. ProcInv' /\ LeakInv'
    BY <1>1, <1>2, StillStep
  <1> QED BY <1>1, <1>2, <1>3, <1>4, WorldFrame, EngineFrame DEF IInv

LEMMA WorldSteps ==
    ASSUME IInv, ClockMoves \/ PositionsClose
    PROVE  IInv'
  <1>1. WorldInv /\ EngineInv /\ SocketInv /\ ProcInv /\ LeakInv /\ kite \in Kite
    BY DEF IInv, SocketInv
  <1>2. UNCHANGED <<setup, left, issued, store, track, watch, engine, kite, sockets, proc, conn,
                    overlap>>
    BY DEF ClockMoves, PositionsClose
  <1>3. WorldInv'
    <2>1. CASE ClockMoves
      <3>1. setup.until \in 0 .. 7 /\ clock.now \in 0 .. setup.until
        BY <1>1, SetupType DEF WorldInv
      <3>2. /\ clock.now < setup.until /\ clock' = [now |-> clock.now + 1, late |-> Busy]
            /\ UNCHANGED flat
        BY <2>1 DEF ClockMoves
      <3>3. clock' \in [now : 0 .. setup.until, late : SUBSET Procs]
        BY <3>1, <3>2 DEF Busy
      <3> QED BY <1>1, <1>2, <3>2, <3>3 DEF WorldInv
    <2>2. CASE PositionsClose
      BY <1>1, <1>2, <2>2 DEF WorldInv, PositionsClose
    <2> QED BY <2>1, <2>2
  <1>4. EngineInv' /\ SocketInv' /\ ProcInv' /\ LeakInv'
    BY <1>1, <1>2, EngineFrame, SocketFrame, StillStep DEF SocketInv, sockets
  <1> QED BY <1>3, <1>4 DEF IInv

-----------------------------------------------------------------------------
(* The invariant.                                                           *)

LEMMA InitIInv == InitSession => IInv
  <1> SUFFICES ASSUME InitSession PROVE IInv
    OBVIOUS
  <1>1. /\ setup.from \in 0 .. setup.until /\ setup.logins \in 0 .. 3
        /\ None \in Tokens /\ None \in Sessions
    BY SetupType, SessionAssumption DEF InitSession, None, Tokens, Sessions
  <1>2. WorldInv
    BY <1>1 DEF InitSession, WorldInv, None, Tokens
  <1>3. EngineInv
    <2>1. /\ track = [token |-> None, day |-> 0, logout |-> 2]
          /\ watch = [last |-> None, poll |-> TRUE, news |-> FALSE]
          /\ life = [mode |-> "IDLE", token |-> None, running |-> FALSE, timer |-> FALSE,
                     failed |-> FALSE]
          /\ trading = FALSE /\ halted = FALSE
      BY DEF InitSession
    <2>2. track \in Track
      BY <1>1, <2>1 DEF Track
    <2>3. watch \in Watch
      BY <1>1, <2>1 DEF Watch
    <2>4. life \in Life
      BY <1>1, <2>1 DEF Life, Modes
    <2> QED BY <2>1, <2>2, <2>3, <2>4 DEF EngineInv
  <1>4. SocketInv
    BY <1>1 DEF InitSession, SocketInv, Kite, Sessions, None, ConnPlaces
  <1>5. AtRest \in Process /\ AtRest.pc = "rest"
    BY <1>1 DEF AtRest, Process, Places, Stops, Modes
  <1>6. proc = [p \in Procs |-> AtRest] /\ wired = {}
    BY DEF InitSession
  <1>7. ProcInv /\ LeakInv
    BY <1>5, <1>6 DEF ProcInv, LeakInv, Starting
  <1> QED BY <1>2, <1>3, <1>4, <1>7 DEF IInv

LEMMA NextIInv == IInv /\ [NextSession]_vars => IInv'
  <1> SUFFICES ASSUME IInv, [NextSession]_vars PROVE IInv'
    OBVIOUS
  <1>1. CASE PollFires \/ ChangeArrives \/ ReadDeferred \/ ReadFails \/ FindsNoToken
             \/ FindsOldToken \/ FindsSameToken \/ FindsToken \/ BlocksOldToken
    BY <1>1, WatcherReads
  <1>2. CASE \/ SetTokenRejects \/ SetToken \/ Finish \/ EntersMode
             \/ StartsCooldownPolling \/ CooldownPoll
             \/ \E p \in {"watcher", "poll"} : HoldsCooldown(p)
             \/ \E p \in {"watcher", "login"} : SessionFails(p)
    BY <1>2, LifecyclePlain
  <1>3. CASE ControlTick \/ InvalidationFails \/ Login
    BY <1>3, ControlPlain
  <1>4. CASE \/ PreflightBlocks \/ StartsDirectly \/ StopsForRefresh \/ AppliesIdle
             \/ \E p \in {"watcher", "poll"} : StopsIntoIdle(p)
             \/ Invalidates \/ AppliesLogin
    BY <1>4, StopSteps
  <1>5. CASE \E s \in 1 .. MaxSessions : PipelineStops(s)
    BY <1>5, PipelineStep
  <1>6. CASE \/ Refreshed
             \/ \E p \in {"watcher", "control"} : SessionStopped(p)
             \/ \E p \in {"watcher", "poll"} : IntoIdle(p)
    BY <1>6, StopEnds
  <1>7. CASE AppliesSchedule
    BY <1>7, ScheduleStep
  <1>8. CASE \E p \in {"watcher", "login"} : SessionStarts(p)
    BY <1>8, StartStepKeeps
  <1>9. CASE \/ \E c \in Handlers : \/ ConnectStep(c) \/ InitializationFails(c)
                                    \/ \E s \in 1 .. MaxSessions : Connects(s, c)
             \/ \E s \in 1 .. MaxSessions : Disconnects(s)
    BY <1>9, TickerSteps
  <1>10. CASE ClockMoves \/ PositionsClose
    BY <1>10, WorldSteps
  <1>11. CASE UNCHANGED vars
    <2>1. UNCHANGED <<setup, left, world, track, watch, engine, kite, sockets, proc, conn, overlap>>
      BY <1>11 DEF vars, world, engine, sockets
    <2> QED BY <2>1, WorldFrame, EngineFrame, SocketFrame, StillStep DEF IInv, SocketInv, sockets
  <1> QED BY <1>1, <1>2, <1>3, <1>4, <1>5, <1>6, <1>7, <1>8, <1>9, <1>10, <1>11
          DEF NextSession, WatcherStep, StopStep, StartStep, ChecksPositions

LEMMA Invariance == SpecSession => []IInv
  BY InitIInv, NextIInv, PTL DEF SpecSession

(* Types: for any circumstances and any number of sessions the processes    *)
(* of tokenWatcher.js, engineLifecycle.js, sessionControl.js and            *)
(* kiteLogin.js, and the state of tickerManager.js that they share, have    *)
(* their types; a socket is open only where listeners are wired.            *)
THEOREM SessionTypeCorrect == SpecSession => []SessionTypes
  <1>1. IInv => SessionTypes
    BY DEF IInv, WorldInv, EngineInv, SocketInv, ProcInv, SessionTypes, Track, Watch, Life, Kite,
           Process, Places, ConnPlaces
  <1> QED BY <1>1, Invariance, PTL

(* No ticker stays wired beside the one that tickerManager.js knows and     *)
(* will disconnect, however stops overlap stops and starts: unless a        *)
(* session was being started when another start began.                      *)
THEOREM NoLeakWithoutTwoStarts == SpecSession => []LeakNeedsTwoStarts
  <1>1. IInv => LeakNeedsTwoStarts
    BY DEF IInv, LeakInv, LeakNeedsTwoStarts
  <1> QED BY <1>1, Invariance, PTL
=============================================================================
