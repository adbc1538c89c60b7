----------------------------- MODULE QueueProofs -----------------------------
(***************************************************************************)
(* Theorems about the two queues of the system that nothing may drop out   *)
(* of: the commands of a trade (ExecutionCoordinator), which implement the *)
(* safety part of SerialCommands, for any number of calls, trades and      *)
(* callbacks; and the candles on their way to the database (MongoWork),    *)
(* for any limits, batches and circumstances.                              *)
(***************************************************************************)
EXTENDS ExecutionCoordinator, MongoWork, SequenceTheorems, FiniteSetTheorems,
        WellFoundedInduction, TLAPS

-----------------------------------------------------------------------------
(* The commands of a trade.                                                 *)

(* A running call has a place in the queue of its key, and the queue has    *)
(* calls of its key only, each once.                                        *)
InItsQueue(c) == \E i \in 1 .. Len(order[KeyOf[c]]) : order[KeyOf[c]][i] = c
QueueIsOfKey(k) ==
    \A i \in 1 .. Len(order[k]) :
        /\ KeyOf[order[k][i]] = k
        /\ pc[order[k][i]] \in {"queued", "running", "returned", "settled"}
        /\ \A j \in 1 .. Len(order[k]) : order[k][i] = order[k][j] => i = j

(* n calls of the key have begun, all but the last of them settled.         *)
Served(k, n) ==
    /\ \A i \in 1 .. n : pc[order[k][i]] # "queued"
    /\ \A i \in 1 .. n - 1 : pc[order[k][i]] = "settled"
    /\ \A i \in n + 1 .. Len(order[k]) : pc[order[k][i]] = "queued"

(* A call waits for the one before it, unless that one is through; so will  *)
(* the next one that is made.                                               *)
IsLinked(k) ==
    /\ \A i \in 2 .. Len(order[k]) :
          \/ behind[order[k][i]] = order[k][i - 1]
          \/ pc[order[k][i - 1]] = "settled"
    /\ Len(order[k]) > 0 =>
          \/ queues[k] = order[k][Len(order[k])]
          \/ pc[order[k][Len(order[k])]] = "settled"

KeyInv(k) ==
    /\ QueueIsOfKey(k)
    /\ \E n \in 0 .. Len(order[k]) : Served(k, n)
    /\ IsLinked(k)

QueueInv ==
    /\ TypeOK
    /\ \A c \in Calls : pc[c] \in {"queued", "running", "returned"} => InItsQueue(c)
    /\ \A k \in Keys : KeyInv(k)

-----------------------------------------------------------------------------
(* Type correctness.                                                        *)

LEMMA InitType == Init => TypeOK
  BY CoordinatorAssumption DEF Init, TypeOK, Phases

LEMMA RunType ==
    ASSUME TypeOK, NEW c \in Calls, NEW caller \in Calls \cup {NoCall},
           NEW awaiter \in Calls \cup {NoCall}, run(c, caller, awaiter)
    PROVE  TypeOK'
  <1>1. KeyOf[c] \in Keys /\ order[KeyOf[c]] \in Seq(Calls)
    BY CoordinatorAssumption DEF TypeOK
  <1>2. Append(order[KeyOf[c]], c) \in Seq(Calls)
    BY <1>1, AppendProperties
  <1>3. CASE caller # NoCall /\ KeyOf[caller] = KeyOf[c]
    BY <1>3 DEF run, TypeOK, Phases
  <1>4. CASE ~(caller # NoCall /\ KeyOf[caller] = KeyOf[c])
    BY <1>1, <1>2, <1>4 DEF run, TypeOK, Phases
  <1> QED BY <1>3, <1>4

LEMMA NextType == TypeOK /\ [Next]_vars => TypeOK'
  <1> SUFFICES ASSUME TypeOK, [Next]_vars PROVE TypeOK'
    OBVIOUS
  <1>1. ASSUME NEW c \in Calls, RunFromEventLoop(c) PROVE TypeOK'
    BY <1>1, RunType DEF RunFromEventLoop
  <1>2. ASSUME NEW c \in Calls, NEW p \in Calls, RunAwaited(c, p) PROVE TypeOK'
    <2>1. store[p] \in Calls \cup {NoCall}
      BY DEF TypeOK
    <2> QED BY <1>2, <2>1, RunType DEF RunAwaited
  <1>3. ASSUME NEW c \in Calls, NEW p \in Calls, RunDetached(c, p) PROVE TypeOK'
    <2>1. store[p] \in Calls \cup {NoCall}
      BY DEF TypeOK
    <2> QED BY <1>3, <2>1, RunType DEF RunDetached
  <1>4. ASSUME NEW c \in Calls, Start(c) PROVE TypeOK'
    BY <1>4, CoordinatorAssumption DEF Start, TypeOK, Phases
  <1>5. ASSUME NEW c \in Calls, Return(c) PROVE TypeOK'
    BY <1>5, CoordinatorAssumption DEF Return, TypeOK, Phases
  <1>6. ASSUME NEW c \in Calls, Settle(c) PROVE TypeOK'
    BY <1>6, CoordinatorAssumption DEF Settle, TypeOK, Phases
  <1>7. ASSUME NEW c \in Calls, ReturnInline(c) PROVE TypeOK'
    BY <1>7 DEF ReturnInline, TypeOK, Phases
  <1>8. CASE UNCHANGED vars
    BY <1>8 DEF vars, TypeOK
  <1> QED BY <1>1, <1>2, <1>3, <1>4, <1>5, <1>6, <1>7, <1>8 DEF Next, AllSettled

(* Every variable keeps the type its declaration gives it.                  *)
THEOREM CoordinatorTypeCorrect == Spec => []TypeOK
  BY InitType, NextType, PTL DEF Spec

-----------------------------------------------------------------------------
(* The queue of a key.                                                      *)

LEMMA OrderIsSeq ==
    ASSUME TypeOK, NEW k \in Keys
    PROVE  /\ order[k] \in Seq(Calls)
           /\ Len(order[k]) \in Nat
           /\ \A i \in 1 .. Len(order[k]) : order[k][i] \in Calls
  <1>1. order[k] \in Seq(Calls)
    BY DEF TypeOK
  <1> QED BY <1>1, LenProperties, ElementOfSeq

(* A call that is not in the queue of a key, or of another key, may move    *)
(* without a change for this key.                                           *)
LEMMA OtherKeyKeeps ==
    ASSUME TypeOK, NEW k \in Keys, KeyInv(k), NEW c \in Calls, NEW phase,
           pc' = [pc EXCEPT ![c] = phase],
           \A i \in 1 .. Len(order[k]) : order[k][i] # c,
           order'[k] = order[k],
           \A d \in Calls : d # c => behind'[d] = behind[d],
           queues'[k] = queues[k]
    PROVE  KeyInv(k)'
  <1>1. \A i \in 1 .. Len(order[k]) : /\ order[k][i] \in Calls
                                     /\ pc'[order[k][i]] = pc[order[k][i]]
                                     /\ behind'[order[k][i]] = behind[order[k][i]]
    BY OrderIsSeq DEF TypeOK
  <1>2. Len(order[k]) \in Nat
    BY OrderIsSeq
  <1>3. QueueIsOfKey(k)'
    BY <1>1 DEF KeyInv, QueueIsOfKey
  <1>4. PICK n \in 0 .. Len(order[k]) : Served(k, n)
    BY DEF KeyInv
  <1>5. Served(k, n)'
    BY <1>1, <1>2, <1>4 DEF Served
  <1>6. IsLinked(k)'
    BY <1>1, <1>2 DEF KeyInv, IsLinked
  <1> QED BY <1>3, <1>5, <1>6 DEF KeyInv

LEMMA InitQueueInv == Init => QueueInv
  <1> SUFFICES ASSUME Init PROVE QueueInv
    OBVIOUS
  <1>1. \A k \in Keys : Len(order[k]) = 0
    BY DEF Init
  <1>2. \A k \in Keys : KeyInv(k)
    BY <1>1 DEF KeyInv, QueueIsOfKey, Served, IsLinked
  <1>3. \A c \in Calls : pc[c] = "idle"
    BY DEF Init
  <1> QED BY <1>2, <1>3, InitType DEF QueueInv

(* A new call: inside the command of its caller, or at the end of the queue.*)
LEMMA RunKeepsQueue ==
    ASSUME QueueInv, TypeOK', NEW c \in Calls, NEW caller \in Calls \cup {NoCall},
           NEW awaiter \in Calls \cup {NoCall}, run(c, caller, awaiter)
    PROVE  QueueInv'
  <1> DEFINE k0 == KeyOf[c]
  <1>1. k0 \in Keys /\ TypeOK
    BY CoordinatorAssumption DEF QueueInv
  <1>2. \A k \in Keys : \A i \in 1 .. Len(order[k]) : order[k][i] # c
    BY DEF QueueInv, KeyInv, QueueIsOfKey, run
  <1>3. CASE caller # NoCall /\ KeyOf[caller] = KeyOf[c]
    <2>1. pc' = [pc EXCEPT ![c] = "inline"] /\ UNCHANGED <<behind, queues, order>>
      BY <1>3 DEF run
    <2>2. \A k \in Keys : KeyInv(k)'
      BY <1>1, <1>2, <2>1, OtherKeyKeeps DEF QueueInv
    <2>3. \A d \in Calls :
             pc'[d] \in {"queued", "running", "returned"} =>
                pc[d] \in {"queued", "running", "returned"}
      BY <2>1, <1>1 DEF TypeOK
    <2> QED BY <2>1, <2>2, <2>3 DEF QueueInv, InItsQueue
  <1>4. CASE ~(caller # NoCall /\ KeyOf[caller] = KeyOf[c])
    <2> DEFINE len == Len(order[k0])
    <2>1. /\ pc' = [pc EXCEPT ![c] = "queued"]
          /\ behind' = [behind EXCEPT ![c] = queues[k0]]
          /\ queues' = [queues EXCEPT ![k0] = c]
          /\ order' = [order EXCEPT ![k0] = Append(@, c)]
      BY <1>4 DEF run
    <2>2. \A k \in Keys : k # k0 => KeyInv(k)'
      BY <1>1, <1>2, <2>1, OtherKeyKeeps DEF QueueInv, TypeOK
    <2>3. /\ order[k0] \in Seq(Calls) /\ len \in Nat
          /\ \A i \in 1 .. len : order[k0][i] \in Calls
      BY <1>1, OrderIsSeq
    <2>4. /\ Len(order'[k0]) = len + 1
          /\ \A i \in 1 .. len : order'[k0][i] = order[k0][i]
          /\ order'[k0][len + 1] = c
      BY <1>1, <2>1, <2>3, AppendProperties DEF TypeOK
    <2>5. /\ \A i \in 1 .. len : /\ pc'[order[k0][i]] = pc[order[k0][i]]
                                 /\ behind'[order[k0][i]] = behind[order[k0][i]]
          /\ pc'[c] = "queued" /\ behind'[c] = queues[k0] /\ queues'[k0] = c
      BY <1>1, <1>2, <2>1, <2>3 DEF TypeOK
    <2>6. QueueIsOfKey(k0)'
      <3>1. QueueIsOfKey(k0)
        BY <1>1 DEF QueueInv, KeyInv
      <3> SUFFICES ASSUME NEW i \in 1 .. len + 1
                   PROVE  /\ KeyOf[order'[k0][i]] = k0
                          /\ pc'[order'[k0][i]] \in {"queued", "running", "returned", "settled"}
                          /\ \A j \in 1 .. len + 1 : order'[k0][i] = order'[k0][j] => i = j
        BY <2>4 DEF QueueIsOfKey
      <3>2. CASE i = len + 1
        <4>1. order'[k0][i] = c /\ pc'[c] = "queued" /\ KeyOf[c] = k0
          BY <2>4, <2>5, <3>2
        <4>2. \A j \in 1 .. len + 1 : j # i => j \in 1 .. len
          BY <2>3, <3>2
        <4>3. \A j \in 1 .. len : order'[k0][j] # c
          BY <1>1, <1>2, <2>4
        <4> QED BY <4>1, <4>2, <4>3
      <3>3. CASE i \in 1 .. len
        <4>1. order'[k0][i] = order[k0][i] /\ pc'[order[k0][i]] = pc[order[k0][i]]
          BY <2>4, <2>5, <3>3
        <4>2. \A j \in 1 .. len + 1 : j = len + 1 \/ j \in 1 .. len
          BY <2>3
        <4>3. order'[k0][len + 1] # order'[k0][i]
          BY <1>1, <1>2, <2>4, <3>3, <4>1
        <4> QED BY <2>4, <3>1, <3>3, <4>1, <4>2, <4>3 DEF QueueIsOfKey
      <3> QED BY <2>3, <3>2, <3>3
    <2>7. PICK n \in 0 .. len : Served(k0, n)
      BY <1>1 DEF QueueInv, KeyInv
    <2>8. Served(k0, n)'
      <3>1. \A i \in 1 .. len : pc'[order'[k0][i]] = pc[order[k0][i]]
        BY <2>4, <2>5
      <3>2. pc'[order'[k0][len + 1]] = "queued"
        BY <2>4, <2>5
      <3>3. /\ \A i \in n + 1 .. len + 1 : i \in n + 1 .. len \/ i = len + 1
            /\ 1 .. n \subseteq 1 .. len /\ 1 .. n - 1 \subseteq 1 .. len
            /\ n + 1 .. len \subseteq 1 .. len
        BY <2>3
      <3> QED BY <2>4, <2>7, <3>1, <3>2, <3>3 DEF Served
    <2>9. IsLinked(k0)'
      <3>1. IsLinked(k0)
        BY <1>1 DEF QueueInv, KeyInv
      <3>2. ASSUME NEW i \in 2 .. len + 1
            PROVE  \/ behind'[order'[k0][i]] = order'[k0][i - 1]
                   \/ pc'[order'[k0][i - 1]] = "settled"
        <4>1. CASE i \in 2 .. len
          <5>1. i \in 1 .. len /\ i - 1 \in 1 .. len
            BY <2>3, <4>1
          <5>2. /\ order'[k0][i] = order[k0][i] /\ order'[k0][i - 1] = order[k0][i - 1]
                /\ behind'[order[k0][i]] = behind[order[k0][i]]
                /\ pc'[order[k0][i - 1]] = pc[order[k0][i - 1]]
            BY <2>4, <2>5, <5>1
          <5> QED BY <3>1, <4>1, <5>2 DEF IsLinked
        <4>2. CASE i = len + 1
          <5>1. len \in 1 .. len /\ i - 1 = len
            BY <2>3, <4>2
          <5>2. /\ order'[k0][i] = c /\ order'[k0][i - 1] = order[k0][len]
                /\ behind'[c] = queues[k0]
                /\ pc'[order[k0][len]] = pc[order[k0][len]]
            BY <2>4, <2>5, <4>2, <5>1
          <5> QED BY <2>3, <3>1, <5>1, <5>2 DEF IsLinked
        <4> QED BY <2>3, <4>1, <4>2
      <3> QED BY <2>4, <2>5, <3>2 DEF IsLinked
    <2>10. KeyInv(k0)'
      BY <2>3, <2>4, <2>6, <2>7, <2>8, <2>9 DEF KeyInv
    <2>11. ASSUME NEW d \in Calls, pc'[d] \in {"queued", "running", "returned"}
           PROVE  InItsQueue(d)'
      <3>1. CASE d = c
        BY <2>3, <2>4, <3>1 DEF InItsQueue
      <3>2. CASE d # c
        <4>1. InItsQueue(d)
          BY <1>1, <2>1, <2>11, <3>2 DEF QueueInv, TypeOK
        <4>2. CASE KeyOf[d] = k0
          BY <2>3, <2>4, <4>1, <4>2 DEF InItsQueue
        <4>3. CASE KeyOf[d] # k0
          <5>1. order'[KeyOf[d]] = order[KeyOf[d]]
            BY <1>1, <2>1, <4>3, CoordinatorAssumption DEF TypeOK
          <5> QED BY <4>1, <5>1 DEF InItsQueue
        <4> QED BY <4>2, <4>3
      <3> QED BY <3>1, <3>2
    <2> QED BY <2>2, <2>10, <2>11 DEF QueueInv
  <1> QED BY <1>3, <1>4

(* The place of a call that begins is the first one not served; that of one *)
(* that has begun and is not through is the last one served.                *)
LEMMA PlaceOfStart ==
    ASSUME TypeOK, NEW k \in Keys, KeyInv(k), NEW n \in 0 .. Len(order[k]), Served(k, n),
           NEW i \in 1 .. Len(order[k]), pc[order[k][i]] = "queued",
           behind[order[k][i]] # NoCall => pc[behind[order[k][i]]] = "settled"
    PROVE  /\ i = n + 1
           /\ \A j \in 1 .. n : pc[order[k][j]] = "settled"
  <1>1. Len(order[k]) \in Nat /\ \A j \in 1 .. Len(order[k]) : order[k][j] \in Calls
    BY OrderIsSeq
  <1>2. i \in n + 1 .. Len(order[k])
    BY <1>1 DEF Served
  <1>3. i > 1 => pc[order[k][i - 1]] = "settled"
    <2> SUFFICES ASSUME i > 1 PROVE pc[order[k][i - 1]] = "settled"
      OBVIOUS
    <2>1. i \in 2 .. Len(order[k]) /\ i - 1 \in 1 .. Len(order[k])
      BY <1>1
    <2>2. behind[order[k][i]] = order[k][i - 1] \/ pc[order[k][i - 1]] = "settled"
      BY <2>1 DEF KeyInv, IsLinked
    <2>3. order[k][i - 1] # NoCall
      BY <1>1, <2>1, CoordinatorAssumption
    <2> QED BY <2>2, <2>3
  <1>4. i = n + 1
    BY <1>1, <1>2, <1>3 DEF Served
  <1> QED BY <1>1, <1>3, <1>4 DEF Served

LEMMA PlaceOfBegun ==
    ASSUME TypeOK, NEW k \in Keys, NEW n \in 0 .. Len(order[k]), Served(k, n),
           NEW i \in 1 .. Len(order[k]), pc[order[k][i]] \in {"running", "returned"}
    PROVE  i = n
  BY OrderIsSeq DEF Served

(* The call at place i of the queue moves on.                               *)
LEMMA MoveKeepsKey ==
    ASSUME TypeOK, NEW k \in Keys, KeyInv(k), NEW i \in 1 .. Len(order[k]),
           NEW phase \in {"running", "returned", "settled"},
           NEW n \in 0 .. Len(order[k]), Served(k, n),
           NEW m \in 0 .. Len(order[k]), m = i,
           \/ i = n
           \/ i = n + 1 /\ \A j \in 1 .. n : pc[order[k][j]] = "settled",
           pc' = [pc EXCEPT ![order[k][i]] = phase],
           order' = order, behind' = behind,
           queues'[k] = queues[k] \/ (phase = "settled" /\ queues[k] = order[k][i]),
           pc[order[k][i]] # "settled"
    PROVE  KeyInv(k)'
  <1>1. Len(order[k]) \in Nat /\ \A j \in 1 .. Len(order[k]) : order[k][j] \in Calls
    BY OrderIsSeq
  <1>2. QueueIsOfKey(k)
    BY DEF KeyInv
  <1>3. pc'[order[k][i]] = phase
    BY <1>1 DEF TypeOK
  <1>4. \A j \in 1 .. Len(order[k]) : j # i => pc'[order[k][j]] = pc[order[k][j]]
    BY <1>1, <1>2 DEF TypeOK, QueueIsOfKey
  <1>5. QueueIsOfKey(k)'
    BY <1>2, <1>3, <1>4 DEF QueueIsOfKey
  <1>6. Served(k, i)'
    <2>1. \A j \in 1 .. i - 1 : pc[order[k][j]] = "settled"
      BY <1>1 DEF Served
    <2>2. \A j \in i + 1 .. Len(order[k]) : pc[order[k][j]] = "queued"
      BY <1>1 DEF Served
    <2>3. \A j \in 1 .. i - 1 : pc'[order[k][j]] = "settled"
      BY <1>1, <1>4, <2>1
    <2>4. \A j \in i + 1 .. Len(order[k]) : pc'[order[k][j]] = "queued"
      BY <1>1, <1>4, <2>2
    <2>5. \A j \in 1 .. i : j \in 1 .. i - 1 \/ j = i
      BY <1>1
    <2> QED BY <1>3, <2>3, <2>4, <2>5 DEF Served
  <1>7. \A j \in 1 .. Len(order[k]) : pc[order[k][j]] = "settled" => pc'[order[k][j]] = "settled"
    BY <1>4
  <1>8. IsLinked(k)'
    <2>1. IsLinked(k)
      BY DEF KeyInv
    <2>2. \A j \in 2 .. Len(order[k]) : j - 1 \in 1 .. Len(order[k])
      BY <1>1
    <2>3. Len(order[k]) > 0 => Len(order[k]) \in 1 .. Len(order[k])
      BY <1>1
    <2>4. CASE queues'[k] = queues[k]
      BY <1>1, <1>7, <2>1, <2>2, <2>3, <2>4 DEF IsLinked
    <2>5. CASE phase = "settled" /\ queues[k] = order[k][i]
      <3>1. Len(order[k]) > 0 => pc'[order[k][Len(order[k])]] = "settled"
        BY <1>3, <1>7, <2>1, <2>3, <2>5 DEF IsLinked
      <3> QED BY <1>7, <2>1, <2>2, <3>1 DEF IsLinked
    <2> QED BY <2>4, <2>5
  <1>9. i \in 0 .. Len(order[k])
    BY <1>1
  <1> QED BY <1>5, <1>6, <1>8, <1>9 DEF KeyInv

(* A call that starts, returns or settles.                                  *)
LEMMA MoveKeepsQueue ==
    ASSUME QueueInv, TypeOK', NEW c \in Calls, Start(c) \/ Return(c) \/ Settle(c)
    PROVE  QueueInv'
  <1> DEFINE k0 == KeyOf[c]
  <1>1. k0 \in Keys /\ TypeOK /\ KeyInv(k0)
    BY CoordinatorAssumption DEF QueueInv
  <1>2. PICK phase \in {"running", "returned", "settled"} :
           /\ pc' = [pc EXCEPT ![c] = phase] /\ order' = order /\ behind' = behind
           /\ pc[c] \in {"queued", "running", "returned"}
           /\ \A k \in Keys : \/ queues'[k] = queues[k]
                              \/ k = k0 /\ phase = "settled" /\ queues[k] = c
    <2>1. CASE Start(c)
      BY <2>1 DEF Start
    <2>2. CASE Return(c)
      BY <2>2 DEF Return
    <2>3. CASE Settle(c)
      <3>1. \A k \in Keys : queues'[k] = queues[k] \/ (k = k0 /\ queues[k] = c)
        BY <1>1, <2>3 DEF Settle, TypeOK
      <3> QED BY <2>3, <3>1 DEF Settle
    <2> QED BY <2>1, <2>2, <2>3
  <1>3. PICK i \in 1 .. Len(order[k0]) : order[k0][i] = c
    BY <1>2 DEF QueueInv, InItsQueue
  <1>4. PICK n \in 0 .. Len(order[k0]) : Served(k0, n)
    BY <1>1 DEF KeyInv
  <1>5. \/ i = n
        \/ i = n + 1 /\ \A j \in 1 .. n : pc[order[k0][j]] = "settled"
    <2>1. CASE Start(c)
      BY <1>1, <1>3, <1>4, <2>1, PlaceOfStart DEF Start
    <2>2. CASE Return(c) \/ Settle(c)
      BY <1>1, <1>3, <1>4, <2>2, PlaceOfBegun DEF Return, Settle
    <2> QED BY <2>1, <2>2
  <1>6. i \in 0 .. Len(order[k0])
    BY <1>1, OrderIsSeq
  <1>7. KeyInv(k0)'
    BY <1>1, <1>2, <1>3, <1>4, <1>5, <1>6, MoveKeepsKey
  <1>8. ASSUME NEW k \in Keys, k # k0 PROVE KeyInv(k)'
    <2>1. KeyInv(k)
      BY DEF QueueInv
    <2>2. \A j \in 1 .. Len(order[k]) : order[k][j] # c
      BY <1>8, <2>1 DEF KeyInv, QueueIsOfKey
    <2> QED BY <1>1, <1>2, <1>8, <2>1, <2>2, OtherKeyKeeps
  <1>9. \A d \in Calls : pc'[d] \in {"queued", "running", "returned"} =>
                            pc[d] \in {"queued", "running", "returned"}
    BY <1>1, <1>2 DEF TypeOK
  <1> QED BY <1>2, <1>7, <1>8, <1>9 DEF QueueInv, InItsQueue

LEMMA InlineKeepsQueue ==
    ASSUME QueueInv, TypeOK', NEW c \in Calls, ReturnInline(c)
    PROVE  QueueInv'
  <1>1. TypeOK /\ pc' = [pc EXCEPT ![c] = "settled"] /\ pc[c] = "inline"
        /\ UNCHANGED <<behind, queues, order>>
    BY DEF ReturnInline, QueueInv
  <1>2. \A k \in Keys : \A i \in 1 .. Len(order[k]) : order[k][i] # c
    BY <1>1 DEF QueueInv, KeyInv, QueueIsOfKey
  <1>3. \A k \in Keys : KeyInv(k)'
    BY <1>1, <1>2, OtherKeyKeeps DEF QueueInv
  <1>4. \A d \in Calls : pc'[d] \in {"queued", "running", "returned"} => pc'[d] = pc[d]
    BY <1>1 DEF TypeOK
  <1> QED BY <1>1, <1>3, <1>4 DEF QueueInv, InItsQueue

LEMMA NextQueueInv == QueueInv /\ [Next]_vars => QueueInv'
  <1> SUFFICES ASSUME QueueInv, [Next]_vars PROVE QueueInv'
    OBVIOUS
  <1>1. TypeOK /\ TypeOK'
    BY NextType DEF QueueInv
  <1>2. ASSUME NEW c \in Calls, RunFromEventLoop(c) PROVE QueueInv'
    BY <1>1, <1>2, RunKeepsQueue DEF RunFromEventLoop
  <1>3. ASSUME NEW c \in Calls, NEW p \in Calls, RunAwaited(c, p) \/ RunDetached(c, p)
        PROVE  QueueInv'
    <2>1. store[p] \in Calls \cup {NoCall}
      BY <1>1 DEF TypeOK
    <2> QED BY <1>1, <1>3, <2>1, RunKeepsQueue DEF RunAwaited, RunDetached
  <1>4. ASSUME NEW c \in Calls, Start(c) \/ Return(c) \/ Settle(c) PROVE QueueInv'
    BY <1>1, <1>4, MoveKeepsQueue
  <1>5. ASSUME NEW c \in Calls, ReturnInline(c) PROVE QueueInv'
    BY <1>1, <1>5, InlineKeepsQueue
  <1>6. CASE UNCHANGED vars
    <2>1. pc' = pc /\ behind' = behind /\ queues' = queues /\ order' = order
      BY <1>6 DEF vars
    <2>2. ASSUME NEW k \in Keys PROVE KeyInv(k)'
      <3>1. QueueIsOfKey(k)' /\ IsLinked(k)'
        BY <2>1 DEF QueueInv, KeyInv, QueueIsOfKey, IsLinked
      <3>2. \E n \in 0 .. Len(order[k]) : Served(k, n)'
        BY <2>1 DEF QueueInv, KeyInv, Served
      <3> QED BY <2>1, <3>1, <3>2 DEF KeyInv
    <2>3. \A c \in Calls : InItsQueue(c)' <=> InItsQueue(c)
      BY <2>1 DEF InItsQueue
    <2> QED BY <1>1, <2>1, <2>2, <2>3 DEF QueueInv
  <1> QED BY <1>2, <1>3, <1>4, <1>5, <1>6 DEF Next, AllSettled

LEMMA QueueInvariance == Spec => []QueueInv
  BY InitQueueInv, NextQueueInv, PTL DEF Spec

-----------------------------------------------------------------------------
(* The refinement.                                                          *)

LEMMA FrontIsServed ==
    ASSUME NEW calls, NEW phase, Len(calls) \in Nat, NEW n \in 0 .. Len(calls),
           \A i \in 1 .. n : phase[calls[i]] # "queued",
           \A i \in n + 1 .. Len(calls) : phase[calls[i]] = "queued"
    PROVE  FrontOf(calls, phase) = n
  <1> DEFINE Begun(m) == /\ \A i \in 1 .. m : phase[calls[i]] # "queued"
                         /\ m < Len(calls) => phase[calls[m + 1]] = "queued"
  <1>1. Begun(n)
    OBVIOUS
  <1>2. ASSUME NEW m \in 0 .. Len(calls), Begun(m) PROVE m = n
    <2>1. ~(m < n)
      <3> SUFFICES ASSUME m < n PROVE FALSE
        OBVIOUS
      <3>1. m + 1 \in 1 .. n /\ phase[calls[m + 1]] = "queued"
        BY <1>2
      <3> QED BY <3>1
    <2>2. ~(n < m)
      <3> SUFFICES ASSUME n < m PROVE FALSE
        OBVIOUS
      <3>1. n + 1 \in 1 .. m /\ n + 1 \in n + 1 .. Len(calls)
        OBVIOUS
      <3>2. phase[calls[n + 1]] # "queued"
        BY <1>2, <3>1
      <3>3. phase[calls[n + 1]] = "queued"
        BY <3>1
      <3> QED BY <3>2, <3>3
    <2> QED BY <2>1, <2>2
  <1>3. FrontOf(calls, phase) = CHOOSE m \in 0 .. Len(calls) : Begun(m)
    BY DEF FrontOf
  <1> QED BY <1>1, <1>2, <1>3

LEMMA SubSeqOfAppend ==
    ASSUME NEW S, NEW s \in Seq(S), NEW e \in S, NEW n \in 0 .. Len(s)
    PROVE  SubSeq(Append(s, e), n + 1, Len(s) + 1) = Append(SubSeq(s, n + 1, Len(s)), e)
  <1>1. Len(s) \in Nat
    BY LenProperties
  <1>2. PICK t : t = Append(s, e)
    OBVIOUS
  <1>3. /\ t \in Seq(S) /\ Len(t) = Len(s) + 1 /\ t[Len(s) + 1] = e
        /\ \A i \in 1 .. Len(s) : t[i] = s[i]
    BY <1>2, AppendProperties
  <1>4. PICK w : w = SubSeq(s, n + 1, Len(s))
    OBVIOUS
  <1>5. /\ w \in Seq(S) /\ Len(w) = Len(s) - n
        /\ \A i \in 1 .. Len(s) - n : w[i] = s[n + i]
    <2>1. \A i \in n + 1 .. Len(s) : s[i] \in S
      BY <1>1, ElementOfSeq
    <2> QED BY <1>1, <1>4, <2>1, SubSeqProperties
  <1>6. PICK v : v = SubSeq(t, n + 1, Len(s) + 1)
    OBVIOUS
  <1>7. /\ v \in Seq(S) /\ Len(v) = Len(s) + 1 - n
        /\ \A i \in 1 .. Len(s) + 1 - n : v[i] = t[n + i]
    <2>1. \A i \in n + 1 .. Len(s) + 1 : t[i] \in S
      BY <1>1, <1>3, ElementOfSeq
    <2> QED BY <1>1, <1>6, <2>1, SubSeqProperties
  <1>8. PICK u : u = Append(w, e)
    OBVIOUS
  <1>9. /\ u \in Seq(S) /\ Len(u) = Len(w) + 1 /\ u[Len(w) + 1] = e
        /\ \A i \in 1 .. Len(w) : u[i] = w[i]
    BY <1>5, <1>8, AppendProperties
  <1>10. Len(u) = Len(v)
    BY <1>1, <1>5, <1>7, <1>9
  <1>11. ASSUME NEW i \in 1 .. Len(v) PROVE v[i] = u[i]
    <2>1. CASE i \in 1 .. Len(w)
      <3>1. n + i \in 1 .. Len(s) /\ i \in 1 .. Len(s) + 1 - n /\ i \in 1 .. Len(s) - n
        BY <1>1, <1>5, <2>1
      <3>2. v[i] = t[n + i] /\ t[n + i] = s[n + i] /\ w[i] = s[n + i] /\ u[i] = w[i]
        BY <1>3, <1>5, <1>7, <1>9, <2>1, <3>1
      <3> QED BY <3>2
    <2>2. CASE i = Len(w) + 1
      <3>1. n + i = Len(s) + 1
        BY <1>1, <1>5, <2>2
      <3> QED BY <1>3, <1>7, <1>9, <2>2, <3>1
    <2> QED BY <1>1, <1>5, <1>7, <2>1, <2>2
  <1>12. v = u
    BY <1>7, <1>9, <1>10, <1>11, SeqEqual
  <1> QED BY <1>2, <1>4, <1>6, <1>8, <1>12

(* What a step leaves alone for a key stays for the abstract queue.         *)
LEMMA SameForKey ==
    ASSUME TypeOK, NEW k \in Keys, KeyInv(k), order'[k] = order[k],
           \A i \in 1 .. Len(order[k]) :
               (pc'[order[k][i]] = "queued") <=> (pc[order[k][i]] = "queued"),
           \A c \in Calls : KeyOf[c] = k => (pc'[c] = "running" <=> pc[c] = "running")
    PROVE  WaitingOf(k)' = WaitingOf(k) /\ HolderOf(k)' = HolderOf(k)
  <1>1. Len(order[k]) \in Nat
    BY OrderIsSeq
  <1>2. PICK n \in 0 .. Len(order[k]) : Served(k, n)
    BY DEF KeyInv
  <1>3. FrontOf(order[k], pc) = n
    BY <1>1, <1>2, FrontIsServed DEF Served
  <1>4. 1 .. n \subseteq 1 .. Len(order[k]) /\ n + 1 .. Len(order[k]) \subseteq 1 .. Len(order[k])
    BY <1>1
  <1>5. /\ \A i \in 1 .. n : pc'[order[k][i]] # "queued"
        /\ \A i \in n + 1 .. Len(order[k]) : pc'[order[k][i]] = "queued"
    BY <1>2, <1>4 DEF Served
  <1>6. FrontOf(order[k], pc') = n
    BY <1>1, <1>5, FrontIsServed
  <1>7. WaitingOf(k)' = WaitingOf(k)
    BY <1>3, <1>6 DEF WaitingOf
  <1>8. HolderOf(k)' = HolderOf(k)
    BY DEF HolderOf
  <1> QED BY <1>7, <1>8

LEMMA InitRefines == Init => Serial!Init
  <1> SUFFICES ASSUME Init PROVE Serial!Init
    OBVIOUS
  <1>1. ASSUME NEW k \in Keys PROVE WaitingOf(k) = <<>> /\ HolderOf(k) = {}
    <2>1. order[k] = <<>>
      BY DEF Init
    <2>2. Served(k, 0) /\ Len(order[k]) = 0
      BY <2>1 DEF Served
    <2>3. FrontOf(order[k], pc) = 0
      BY <2>2, FrontIsServed DEF Served
    <2>4. WaitingOf(k) = <<>>
      BY <2>2, <2>3, SubSeqEmpty DEF WaitingOf
    <2> QED BY <2>4 DEF HolderOf, Init
  <1> QED BY <1>1 DEF Serial!Init

LEMMA RunRefines ==
    ASSUME QueueInv, QueueInv', NEW c \in Calls, NEW caller \in Calls \cup {NoCall},
           NEW awaiter \in Calls \cup {NoCall}, run(c, caller, awaiter)
    PROVE  [Serial!Next]_(Serial!svars)
  <1> DEFINE k0 == KeyOf[c]
  <1>1. k0 \in Keys /\ TypeOK /\ TypeOK' /\ KeyInv(k0)
    BY CoordinatorAssumption DEF QueueInv
  <1>2. \A k \in Keys : \A i \in 1 .. Len(order[k]) : order[k][i] # c
    BY DEF QueueInv, KeyInv, QueueIsOfKey, run
  <1>3. \A d \in Calls : d # c => pc'[d] = pc[d]
    BY <1>1 DEF run, TypeOK
  <1>4. pc[c] # "running" /\ pc'[c] # "running"
    BY <1>1 DEF run, TypeOK
  <1>5. \A k \in Keys : \A i \in 1 .. Len(order[k]) : pc'[order[k][i]] = pc[order[k][i]]
    BY <1>1, <1>2, <1>3, OrderIsSeq
  <1>6. \A k \in Keys : order'[k] = order[k] =>
                           WaitingOf(k)' = WaitingOf(k) /\ HolderOf(k)' = HolderOf(k)
    BY <1>1, <1>3, <1>4, <1>5, SameForKey DEF QueueInv
  <1>7. CASE UNCHANGED order
    BY <1>6, <1>7 DEF Serial!svars
  <1>8. CASE order' = [order EXCEPT ![k0] = Append(@, c)] /\ pc' = [pc EXCEPT ![c] = "queued"]
    <2> DEFINE len == Len(order[k0])
    <2>1. \A k \in Keys : k # k0 => order'[k] = order[k]
      BY <1>8 DEF TypeOK
    <2>2. order[k0] \in Seq(Calls) /\ len \in Nat
      BY <1>1, OrderIsSeq
    <2>3. /\ order'[k0] = Append(order[k0], c) /\ order'[k0] \in Seq(Calls)
          /\ Len(order'[k0]) = len + 1 /\ order'[k0][len + 1] = c
          /\ \A i \in 1 .. len : order'[k0][i] = order[k0][i]
      BY <1>1, <1>8, <2>2, AppendProperties DEF TypeOK
    <2>4. PICK n \in 0 .. len : Served(k0, n)
      BY <1>1 DEF KeyInv
    <2>5. PICK m \in 0 .. len + 1 : Served(k0, m)'
      BY <1>1, <2>3 DEF QueueInv, KeyInv
    <2>6. m = n
      <3>1. \A i \in 1 .. len : pc'[order'[k0][i]] = pc[order[k0][i]]
        BY <1>1, <1>5, <2>3
      <3>2. pc'[order'[k0][len + 1]] = "queued"
        BY <1>1, <1>8, <2>3 DEF TypeOK
      <3>3. m # len + 1
        BY <2>2, <3>2, <2>5 DEF Served
      <3>4. ~(m < n)
        BY <2>2, <2>3, <2>4, <2>5, <3>1 DEF Served
      <3>5. ~(n < m)
        BY <2>2, <2>3, <2>4, <2>5, <3>1, <3>3 DEF Served
      <3> QED BY <2>2, <3>4, <3>5
    <2>7. FrontOf(order[k0], pc) = n /\ FrontOf(order'[k0], pc') = n
      <3>1. FrontOf(order[k0], pc) = n
        BY <1>1, <2>2, <2>4, FrontIsServed DEF Served
      <3>2. Len(order'[k0]) \in Nat /\ n \in 0 .. Len(order'[k0]) /\ Served(k0, n)'
        BY <2>2, <2>3, <2>5, <2>6
      <3>3. FrontOf(order'[k0], pc') = n
        BY <3>2, FrontIsServed DEF Served
      <3> QED BY <3>1, <3>3
    <2>8. WaitingOf(k0)' = Append(WaitingOf(k0), c)
      <3>1. SubSeq(order'[k0], n + 1, len + 1) = Append(SubSeq(order[k0], n + 1, len), c)
        BY <2>2, <2>3, SubSeqOfAppend
      <3> QED BY <2>3, <2>7, <3>1 DEF WaitingOf
    <2>9. HolderOf(k0)' = HolderOf(k0)
      BY <1>3, <1>4 DEF HolderOf
    <2>10. Serial!Submit(k0, c)
      BY <1>1, <1>6, <2>1, <2>8, <2>9 DEF Serial!Submit
    <2> QED BY <1>1, <2>10 DEF Serial!Next
  <1> QED BY <1>7, <1>8 DEF run

(* The next call of a key takes it.                                         *)
LEMMA StartRefines ==
    ASSUME QueueInv, QueueInv', NEW c \in Calls, Start(c)
    PROVE  [Serial!Next]_(Serial!svars)
  <1> DEFINE k0 == KeyOf[c]
             len == Len(order[k0])
  <1>1. k0 \in Keys /\ TypeOK /\ KeyInv(k0) /\ order' = order
    BY CoordinatorAssumption DEF QueueInv, Start
  <1>2. pc[c] = "queued" /\ pc'[c] = "running" /\ \A d \in Calls : d # c => pc'[d] = pc[d]
    BY <1>1 DEF Start, TypeOK
  <1>3. order[k0] \in Seq(Calls) /\ len \in Nat /\ \A i \in 1 .. len : order[k0][i] \in Calls
    BY <1>1, OrderIsSeq
  <1>4. PICK n \in 0 .. len : Served(k0, n)
    BY <1>1 DEF KeyInv
  <1>5. PICK i \in 1 .. len : order[k0][i] = c
    BY <1>2 DEF QueueInv, InItsQueue
  <1>6. i = n + 1 /\ \A j \in 1 .. n : pc[order[k0][j]] = "settled"
    BY <1>1, <1>4, <1>5, PlaceOfStart DEF Start
  <1>7. \A j \in 1 .. len : j # i => pc'[order[k0][j]] = pc[order[k0][j]]
    BY <1>1, <1>2, <1>3, <1>5 DEF KeyInv, QueueIsOfKey
  <1>8. FrontOf(order[k0], pc) = n
    BY <1>3, <1>4, FrontIsServed DEF Served
  <1>9. FrontOf(order[k0], pc') = n + 1
    <2>1. \A j \in 1 .. n + 1 : pc'[order[k0][j]] # "queued"
      <3>1. \A j \in 1 .. n + 1 : j = i \/ (j \in 1 .. n /\ j \in 1 .. len /\ j # i)
        BY <1>3, <1>6
      <3> QED BY <1>2, <1>5, <1>6, <1>7, <3>1
    <2>2. \A j \in n + 2 .. len : pc'[order[k0][j]] = "queued"
      <3>1. \A j \in n + 2 .. len : j \in n + 1 .. len /\ j \in 1 .. len /\ j # i
        BY <1>3, <1>6
      <3> QED BY <1>4, <1>7, <3>1 DEF Served
    <2>3. n + 1 \in 0 .. len /\ (n + 1) + 1 = n + 2
      BY <1>3, <1>6
    <2> QED BY <1>3, <2>1, <2>2, <2>3, FrontIsServed
  <1>10. /\ WaitingOf(k0) # <<>>
         /\ Head(WaitingOf(k0)) = c
         /\ WaitingOf(k0)' = Tail(WaitingOf(k0))
    <2>1. n + 1 \in 1 .. len /\ len \in n + 1 .. len /\ (n + 1) + 1 = n + 2
      BY <1>3, <1>6
    <2>2. /\ Head(SubSeq(order[k0], n + 1, len)) = c
          /\ Tail(SubSeq(order[k0], n + 1, len)) = SubSeq(order[k0], n + 2, len)
      BY <1>3, <1>5, <1>6, <2>1, HeadTailOfSubSeq
    <2>3. Len(SubSeq(order[k0], n + 1, len)) = len - n /\ len - n > 0
      <3>1. \A j \in n + 1 .. len : order[k0][j] \in Calls
        BY <1>3
      <3> QED BY <1>3, <2>1, <3>1, SubSeqProperties
    <2>4. SubSeq(order[k0], n + 1, len) # <<>>
      <3>1. Len(<<>>) = 0
        OBVIOUS
      <3>2. \A w : Len(w) = len - n => w # <<>>
        BY <2>3, <3>1
      <3> QED BY <2>3, <3>2
    <2> QED BY <1>1, <1>8, <1>9, <2>1, <2>2, <2>4 DEF WaitingOf
  <1>11. HolderOf(k0) = {}
    <2> SUFFICES ASSUME NEW d \in Calls, pc[d] = "running", KeyOf[d] = k0 PROVE FALSE
      BY DEF HolderOf
    <2>1. PICK j \in 1 .. len : order[k0][j] = d
      BY DEF QueueInv, InItsQueue
    <2>2. j = n
      BY <1>1, <1>4, <2>1, PlaceOfBegun
    <2> QED BY <1>3, <1>6, <2>1, <2>2
  <1>12. HolderOf(k0)' = {c}
    BY <1>2, <1>11 DEF HolderOf
  <1>13. ASSUME NEW k \in Keys, k # k0
         PROVE  WaitingOf(k)' = WaitingOf(k) /\ HolderOf(k)' = HolderOf(k)
    <2>1. KeyInv(k)
      BY DEF QueueInv
    <2>2. \A j \in 1 .. Len(order[k]) : order[k][j] # c
      BY <1>13, <2>1 DEF KeyInv, QueueIsOfKey
    <2>3. \A j \in 1 .. Len(order[k]) : pc'[order[k][j]] = pc[order[k][j]]
      BY <1>1, <1>2, <2>2, OrderIsSeq
    <2> QED BY <1>1, <1>2, <1>13, <2>1, <2>3, SameForKey
  <1>14. Serial!Grant(k0)
    BY <1>1, <1>10, <1>11, <1>12, <1>13 DEF Serial!Grant
  <1> QED BY <1>1, <1>14 DEF Serial!Next

(* A handler that ends gives its key back.                                  *)
LEMMA ReturnRefines ==
    ASSUME QueueInv, NEW c \in Calls, Return(c)
    PROVE  [Serial!Next]_(Serial!svars)
  <1> DEFINE k0 == KeyOf[c]
  <1>1. k0 \in Keys /\ TypeOK /\ KeyInv(k0) /\ order' = order
    BY CoordinatorAssumption DEF QueueInv, Return
  <1>2. pc[c] = "running" /\ pc'[c] = "returned" /\ \A d \in Calls : d # c => pc'[d] = pc[d]
    BY <1>1 DEF Return, TypeOK
  <1>3. \A k \in Keys : \A i \in 1 .. Len(order[k]) :
           (pc'[order[k][i]] = "queued") <=> (pc[order[k][i]] = "queued")
    BY <1>1, <1>2, OrderIsSeq
  <1>4. WaitingOf(k0)' = WaitingOf(k0)
    <2>1. PICK n \in 0 .. Len(order[k0]) : Served(k0, n)
      BY <1>1 DEF KeyInv
    <2>2. Len(order[k0]) \in Nat
      BY <1>1, OrderIsSeq
    <2>3. FrontOf(order[k0], pc) = n
      BY <2>1, <2>2, FrontIsServed DEF Served
    <2>4. 1 .. n \subseteq 1 .. Len(order[k0]) /\ n + 1 .. Len(order[k0]) \subseteq 1 .. Len(order[k0])
      BY <2>2
    <2>5. /\ \A i \in 1 .. n : pc'[order[k0][i]] # "queued"
          /\ \A i \in n + 1 .. Len(order[k0]) : pc'[order[k0][i]] = "queued"
      BY <1>1, <1>3, <2>1, <2>4 DEF Served
    <2>6. FrontOf(order[k0], pc') = n
      BY <2>2, <2>5, FrontIsServed
    <2> QED BY <1>1, <2>3, <2>6 DEF WaitingOf
  <1>5. HolderOf(k0) = {c}
    <2> SUFFICES ASSUME NEW d \in Calls, pc[d] = "running", KeyOf[d] = k0 PROVE d = c
      BY <1>2 DEF HolderOf
    <2>1. PICK j \in 1 .. Len(order[k0]) : order[k0][j] = d
      BY DEF QueueInv, InItsQueue
    <2>2. PICK i \in 1 .. Len(order[k0]) : order[k0][i] = c
      BY <1>2 DEF QueueInv, InItsQueue
    <2>3. PICK n \in 0 .. Len(order[k0]) : Served(k0, n)
      BY <1>1 DEF KeyInv
    <2>4. j = n /\ i = n
      BY <1>1, <1>2, <2>1, <2>2, <2>3, PlaceOfBegun
    <2> QED BY <2>1, <2>2, <2>4
  <1>6. HolderOf(k0)' = {}
    BY <1>2, <1>5 DEF HolderOf
  <1>7. ASSUME NEW k \in Keys, k # k0
        PROVE  WaitingOf(k)' = WaitingOf(k) /\ HolderOf(k)' = HolderOf(k)
    <2>1. KeyInv(k)
      BY DEF QueueInv
    <2> QED BY <1>1, <1>2, <1>3, <1>7, <2>1, SameForKey
  <1>8. Serial!Release(k0)
    BY <1>1, <1>4, <1>5, <1>6, <1>7 DEF Serial!Release
  <1> QED BY <1>1, <1>8 DEF Serial!Next

LEMMA StutterRefines ==
    ASSUME QueueInv, NEW c \in Calls, NEW phase \in {"settled"},
           pc[c] \in {"returned", "inline"}, pc' = [pc EXCEPT ![c] = phase], order' = order
    PROVE  [Serial!Next]_(Serial!svars)
  <1>1. TypeOK
    BY DEF QueueInv
  <1>2. /\ \A d \in Calls : pc'[d] = "running" <=> pc[d] = "running"
        /\ \A d \in Calls : pc'[d] = "queued" <=> pc[d] = "queued"
    BY <1>1 DEF TypeOK
  <1>3. ASSUME NEW k \in Keys
        PROVE  WaitingOf(k)' = WaitingOf(k) /\ HolderOf(k)' = HolderOf(k)
    <2>1. KeyInv(k)
      BY DEF QueueInv
    <2> QED BY <1>1, <1>2, <2>1, OrderIsSeq, SameForKey
  <1> QED BY <1>3 DEF Serial!svars

(* For any number of trades and of calls, inner calls and calls of late     *)
(* callbacks included: the calls that reach the queue of a trade run one at *)
(* a time and in the order in which they were made.                         *)
THEOREM ImplementsQueue == Spec => Serial!Spec
  <1>1. QueueInv /\ QueueInv' /\ [Next]_vars => [Serial!Next]_(Serial!svars)
    <2> SUFFICES ASSUME QueueInv, QueueInv', [Next]_vars
                 PROVE  [Serial!Next]_(Serial!svars)
      OBVIOUS
    <2>1. ASSUME NEW c \in Calls, RunFromEventLoop(c) PROVE [Serial!Next]_(Serial!svars)
      BY <2>1, RunRefines DEF RunFromEventLoop
    <2>2. ASSUME NEW c \in Calls, NEW p \in Calls, RunAwaited(c, p) \/ RunDetached(c, p)
          PROVE  [Serial!Next]_(Serial!svars)
      <3>1. store[p] \in Calls \cup {NoCall}
        BY DEF QueueInv, TypeOK
      <3> QED BY <2>2, <3>1, RunRefines DEF RunAwaited, RunDetached
    <2>3. ASSUME NEW c \in Calls, Start(c) PROVE [Serial!Next]_(Serial!svars)
      BY <2>3, StartRefines
    <2>4. ASSUME NEW c \in Calls, Return(c) PROVE [Serial!Next]_(Serial!svars)
      BY <2>4, ReturnRefines
    <2>5. ASSUME NEW c \in Calls, Settle(c) \/ ReturnInline(c)
          PROVE  [Serial!Next]_(Serial!svars)
      BY <2>5, StutterRefines DEF Settle, ReturnInline
    <2>6. CASE UNCHANGED vars
      BY <2>6 DEF vars, Serial!svars, WaitingOf, HolderOf
    <2> QED BY <2>1, <2>2, <2>3, <2>4, <2>5, <2>6 DEF Next, AllSettled
  <1> QED BY InitRefines, QueueInvariance, <1>1, PTL DEF Spec, Serial!Spec

-----------------------------------------------------------------------------
(* The candles on their way to the database.                                *)

Health == [state : States, failureStreak : Nat, recoveryStreak : 0 .. 3,
           calm : BOOLEAN, stale : BOOLEAN]

(* Each failure makes the streak longer by one at most.                     *)
HealthInv ==
    /\ setup \in WorkSetups
    /\ failures \in Nat
    /\ health \in Health
    /\ health.failureStreak + failures <= setup.failures
    /\ backoff \subseteq Jobs \cup {Writer}
    /\ job \in [Jobs -> Priorities \cup {"rest"}]
    /\ cache \in {"none", "new", "old"}

(* The timer keeps the live candle within one bucket of the clock; a late   *)
(* tick makes one candle come twice.                                        *)
Used == setup.late - late
ClockInv ==
    /\ late \in 0 .. setup.late
    /\ clock \in Nat \ {0} /\ IF setup.candles = 0 THEN clock = 1 ELSE clock <= setup.candles
    /\ live \in 0 .. clock /\ (live > 0 => setup.candles > 0)
    /\ closed \in [Candles -> Nat]
    /\ \A k \in Candles : closed[k] <= Used + IF k < live THEN 1 ELSE 0

BufferInv ==
    /\ buf \in Seq(Entry) /\ batch \in Seq(Entry)
    /\ total = Len(buf) + Len(batch) /\ total <= MAX_BACKLOG
    /\ flushes \in 0 .. 2
    /\ batch # <<>> => flushes > 0
    /\ accepted \in [Candles -> Nat]
    /\ \A k \in Candles : accepted[k] <= closed[k]

(* What waits, in the order in which it will be written: versions of one    *)
(* candle come in their order and the newest, which was accepted last, is   *)
(* there; a candle of which nothing waits is stored in its newest version.  *)
Line == batch \o buf
Ordered(line) ==
    \A i, j \in 1 .. Len(line) : i < j /\ line[i].key = line[j].key => line[i].v < line[j].v
Newest(k, line) == \E i \in 1 .. Len(line) : line[i] = [key |-> k, v |-> accepted[k]]
Waits(k, line) == \E i \in 1 .. Len(line) : line[i].key = k
LineInv ==
    setup.late <= 1 =>
        /\ Ordered(Line)
        /\ \A i \in 1 .. Len(Line) : Line[i].v <= accepted[Line[i].key]
        /\ \A k \in Candles :
              IF Waits(k, Line) THEN Newest(k, Line) ELSE accepted[k] \in {0, stored[k]}

IInv == HealthInv /\ ClockInv /\ BufferInv /\ LineInv

-----------------------------------------------------------------------------
(* The state of the database.                                               *)

LEMMA NotedHealth ==
    ASSUME NEW m \in Health, NEW backlog
    PROVE  Noted(m, backlog) \in Health /\ Noted(m, backlog).failureStreak = m.failureStreak
  BY DEF Noted, Health, States

LEMMA DegradedHealth ==
    ASSUME NEW m \in Health, NEW backlog
    PROVE  /\ markMongoDegraded(m, backlog) \in Health
           /\ markMongoDegraded(m, backlog).failureStreak = m.failureStreak + 1
  <1>1. PICK s \in States : s = IF m.state \in {HEALTHY, "RECOVERING"} THEN "DEGRADED" ELSE m.state
    BY DEF Health, States
  <1>2. PICK r : r = [m EXCEPT !.state = IF @ \in {HEALTHY, "RECOVERING"} THEN "DEGRADED" ELSE @,
                    !.failureStreak = @ + 1, !.recoveryStreak = 0, !.calm = FALSE]
    OBVIOUS
  <1>3. r = [state |-> s, failureStreak |-> m.failureStreak + 1, recoveryStreak |-> 0,
             calm |-> FALSE, stale |-> m.stale]
    BY <1>1, <1>2 DEF Health
  <1>4. r \in Health /\ r.failureStreak = m.failureStreak + 1
    BY <1>3 DEF Health
  <1> QED BY <1>2, <1>4, NotedHealth DEF markMongoDegraded

LEMMA HealthyHealth ==
    ASSUME NEW m \in Health, NEW backlog
    PROVE  /\ markMongoHealthy(m, backlog) \in Health
           /\ markMongoHealthy(m, backlog).failureStreak <= m.failureStreak
  <1>1. PICK n : n = [m EXCEPT !.state = "RECOVERING",
                       !.recoveryStreak = IF m.state = "RECOVERING" THEN @ + 1 ELSE 1]
    OBVIOUS
  <1>2. PICK x \in 1 .. 4 : x = IF m.state = "RECOVERING" THEN m.recoveryStreak + 1 ELSE 1
    BY DEF Health
  <1>3. n = [state |-> "RECOVERING", failureStreak |-> m.failureStreak, recoveryStreak |-> x,
             calm |-> m.calm, stale |-> m.stale]
    BY <1>1, <1>2 DEF Health
  <1>4. PICK r : r = [n EXCEPT !.recoveryStreak = IF @ > 3 THEN 3 ELSE @]
    OBVIOUS
  <1>5. r \in Health /\ r.failureStreak = m.failureStreak
    BY <1>3, <1>4 DEF Health, States
  <1>6. PICK w : w = [m EXCEPT !.state = HEALTHY, !.failureStreak = 0, !.recoveryStreak = 0,
                        !.stale = FALSE]
    OBVIOUS
  <1>7. w \in Health /\ w.failureStreak <= m.failureStreak
    <2>1. w = [state |-> HEALTHY, failureStreak |-> 0, recoveryStreak |-> 0, calm |-> m.calm,
               stale |-> FALSE]
      BY <1>6 DEF Health
    <2> QED BY <2>1 DEF Health, States
  <1>8. markMongoHealthy(m, backlog) \in {m, w, r}
    BY <1>1, <1>4, <1>6 DEF markMongoHealthy
  <1>9. m.failureStreak \in Nat
    BY DEF Health
  <1> QED BY <1>5, <1>7, <1>8, <1>9

LEMMA ReportedHealth ==
    ASSUME NEW m \in Health, NEW age
    PROVE  Reported(m, age) \in Health /\ Reported(m, age).failureStreak = m.failureStreak
  <1>1. PICK b \in BOOLEAN : b = (age = "old")
    OBVIOUS
  <1>2. [m EXCEPT !.stale = b] \in Health /\ [m EXCEPT !.stale = b].failureStreak = m.failureStreak
    BY DEF Health
  <1> QED BY <1>1, <1>2, NotedHealth DEF Reported

-----------------------------------------------------------------------------
(* The least number of a set.                                               *)

LEMMA LeastOf ==
    ASSUME NEW T \in SUBSET Nat, T # {}
    PROVE  \E x \in T : \A y \in T : x <= y
  <1>1. PICK x \in T : \A y \in T : <<y, x>> \notin OpToRel(<, Nat)
    BY NatLessThanWellFounded, WFMin
  <1>2. \A y \in T : ~(y < x)
    BY <1>1 DEF OpToRel
  <1> QED BY <1>2

-----------------------------------------------------------------------------
(* Where a candle waits in the queue.                                       *)

LEMMA EntryAt ==
    ASSUME NEW s \in Seq(Entry), NEW i \in 1 .. Len(s)
    PROVE  s[i] \in Entry /\ s[i].key \in Candles /\ s[i].v \in 1 .. 3
  <1>1. s[i] \in Entry
    BY ElementOfSeq
  <1> QED BY <1>1 DEF Entry

LEMMA IndexOfFirst ==
    ASSUME buf \in Seq(Entry), NEW k
    PROVE  /\ IndexOf(k) \in 0 .. Len(buf)
           /\ IndexOf(k) = 0 => \A i \in 1 .. Len(buf) : buf[i].key # k
           /\ IndexOf(k) # 0 =>
                /\ buf[IndexOf(k)].key = k
                /\ \A i \in 1 .. Len(buf) : buf[i].key = k => IndexOf(k) <= i
  <1> DEFINE I == {i \in 1 .. Len(buf) : buf[i].key = k}
  <1>1. IndexOf(k) = IF I # {} THEN Min(I) ELSE 0
    BY DEF IndexOf, SelectInSeq
  <1>2. CASE I = {}
    BY <1>1, <1>2
  <1>3. CASE I # {}
    <2>1. I \in SUBSET Nat
      OBVIOUS
    <2>2. Min(I) \in I /\ \A y \in I : Min(I) <= y
      BY <1>3, <2>1, LeastOf DEF Min
    <2> QED BY <1>1, <1>3, <2>2
  <1> QED BY <1>2, <1>3

(* What makes room in a full buffer is older than another that waits.       *)
LEMMA OldestDuplicateIsOld ==
    ASSUME buf \in Seq(Entry)
    PROVE  /\ OldestDuplicate \in 0 .. Len(buf)
           /\ OldestDuplicate # 0 =>
                \E j \in 1 .. Len(buf) :
                    OldestDuplicate < j /\ buf[j].key = buf[OldestDuplicate].key
  <1> DEFINE A == {i \in DOMAIN buf : Again(i)}
  <1>1. CASE A = {}
    BY <1>1 DEF OldestDuplicate
  <1>2. CASE A # {}
    <2> DEFINE c == CHOOSE i \in DOMAIN buf : Again(i) /\ \A j \in DOMAIN buf : Again(j) => i <= j
    <2>1. A \in SUBSET Nat
      OBVIOUS
    <2>2. \E i \in DOMAIN buf : Again(i) /\ \A j \in DOMAIN buf : Again(j) => i <= j
      BY <1>2, <2>1, LeastOf
    <2>3. c \in DOMAIN buf /\ Again(c)
      BY <2>2
    <2>4. OldestDuplicate = IndexOf(buf[c].key)
      BY <1>2 DEF OldestDuplicate
    <2> HIDE DEF c
    <2>5. PICK a \in 1 .. (c - 1) : buf[a].key = buf[c].key
      BY <2>3 DEF Again
    <2>6. c \in 1 .. Len(buf) /\ a \in 1 .. Len(buf) /\ a < c
      BY <2>3, <2>5
    <2>7. /\ IndexOf(buf[c].key) # 0 /\ IndexOf(buf[c].key) \in 0 .. Len(buf)
          /\ buf[IndexOf(buf[c].key)].key = buf[c].key
          /\ IndexOf(buf[c].key) <= a
      BY <2>5, <2>6, IndexOfFirst
    <2> QED BY <2>4, <2>6, <2>7
  <1> QED BY <1>1, <1>2

-----------------------------------------------------------------------------
(* What a change of the line needs to keep the newest versions in it.       *)

LEMMA LineLen ==
    ASSUME BufferInv
    PROVE  /\ Line \in Seq(Entry) /\ Len(Line) = total
           /\ Len(buf) \in Nat /\ Len(batch) \in Nat
           /\ \A i \in 1 .. Len(batch) : Line[i] = batch[i]
           /\ \A i \in 1 .. Len(buf) : Line[Len(batch) + i] = buf[i]
           /\ \A i \in 1 .. Len(Line) :
                \/ i \in 1 .. Len(batch)
                \/ i - Len(batch) \in 1 .. Len(buf) /\ Line[i] = buf[i - Len(batch)]
  <1>1. /\ Line \in Seq(Entry) /\ Len(Line) = Len(batch) + Len(buf)
        /\ \A i \in 1 .. Len(batch) + Len(buf) : Line[i] =
              IF i <= Len(batch) THEN batch[i] ELSE buf[i - Len(batch)]
    BY ConcatProperties DEF BufferInv, Line
  <1>2. Len(buf) \in Nat /\ Len(batch) \in Nat
    BY LenProperties DEF BufferInv
  <1>3. total = Len(buf) + Len(batch)
    BY DEF BufferInv
  <1>4. \A i \in 1 .. Len(buf) : Line[Len(batch) + i] = buf[i]
    <2> TAKE i \in 1 .. Len(buf)
    <2>1. Len(batch) + i \in 1 .. Len(batch) + Len(buf) /\ ~(Len(batch) + i <= Len(batch))
          /\ (Len(batch) + i) - Len(batch) = i
      BY <1>2
    <2> QED BY <1>1, <2>1
  <1>5. \A i \in 1 .. Len(Line) :
                \/ i \in 1 .. Len(batch)
                \/ i - Len(batch) \in 1 .. Len(buf) /\ Line[i] = buf[i - Len(batch)]
    BY <1>1, <1>2
  <1> QED BY <1>1, <1>2, <1>3, <1>4, <1>5

(* The batch goes back to where it was.                                     *)
LEMMA PutBackKeepsLine ==
    ASSUME BufferInv, buf' = batch \o buf, batch' = <<>>
    PROVE  Line' = Line
  <1>1. buf' \in Seq(Entry)
    BY ConcatProperties DEF BufferInv
  <1> QED BY <1>1, ConcatEmptySeq DEF Line

(* A batch is cut off the front of the queue.                               *)
LEMMA BatchIsCut ==
    ASSUME BufferInv, NEW m, NEW n, TakesBatch(m, n)
    PROVE  /\ Line' = buf
           /\ buf' \in Seq(Entry) /\ batch' \in Seq(Entry)
           /\ Len(buf') + Len(batch') = Len(buf)
           /\ buf # <<>> => batch' # <<>>
           /\ buf = <<>> => batch' = <<>>
  <1>1. buf \in Seq(Entry) /\ Len(buf) \in Nat /\ MAX_BATCH \in Nat \ {0}
    BY WorkAssumption, LenProperties DEF BufferInv
  <1>2. PICK size : size = IF Len(buf) < MAX_BATCH THEN Len(buf) ELSE MAX_BATCH
    OBVIOUS
  <1>3. size \in 0 .. Len(buf) /\ (Len(buf) > 0 => size > 0)
    BY <1>1, <1>2
  <1>4. batch' = SubSeq(buf, 1, size) /\ buf' = SubSeq(buf, size + 1, Len(buf))
    BY <1>2 DEF TakesBatch
  <1>5. \A i \in 1 .. Len(buf) : buf[i] \in Entry
    BY <1>1, ElementOfSeq
  <1>6. batch' \in Seq(Entry) /\ Len(batch') = size
    BY <1>1, <1>3, <1>4, <1>5, SubSeqProperties
  <1>7. buf' \in Seq(Entry) /\ Len(buf') = Len(buf) - size
    <2>1. \A i \in size + 1 .. Len(buf) : buf[i] \in Entry
      BY <1>3, <1>5
    <2>2. /\ buf' \in Seq(Entry)
          /\ Len(buf') = IF size + 1 <= Len(buf) THEN Len(buf) - (size + 1) + 1 ELSE 0
      BY <1>1, <1>3, <1>4, <2>1, SubSeqProperties
    <2> QED BY <1>1, <1>3, <2>2
  <1>8. Line' = buf
    <2>1. SubSeq(buf, 1, size) \o SubSeq(buf, size + 1, Len(buf)) = SubSeq(buf, 1, Len(buf))
      <3>1. 1 \in 1 .. Len(buf) + 1 /\ size \in 1 - 1 .. Len(buf) /\ Len(buf) \in size .. Len(buf)
        BY <1>1, <1>3
      <3> QED BY <1>1, <3>1, ConcatAdjacentSubSeq
    <2> QED BY <1>1, <1>4, <2>1, SubSeqFull DEF Line
  <1>9. buf = <<>> <=> Len(buf) = 0
    BY <1>1, EmptySeq
  <1>10. batch' = <<>> <=> Len(batch') = 0
    BY <1>6, EmptySeq
  <1> QED BY <1>1, <1>3, <1>6, <1>7, <1>8, <1>9, <1>10

(* The newest entry of a candle in the line is the last of it.              *)
OldOnes(line) == \A i \in 1 .. Len(line) : line[i].v <= accepted[line[i].key]
Kept(line) ==
    /\ Ordered(line)
    /\ OldOnes(line)
    /\ \A k \in Candles : Waits(k, line) => Newest(k, line)

LEMMA AppendKeeps ==
    ASSUME NEW s \in Seq(Entry), NEW e \in Entry, Kept(s),
           accepted \in [Candles -> Nat], e.v > accepted[e.key],
           accepted' = [accepted EXCEPT ![e.key] = e.v]
    PROVE  /\ Kept(Append(s, e))'
           /\ Waits(e.key, Append(s, e))
           /\ \A k \in Candles \ {e.key} : Waits(k, Append(s, e)) <=> Waits(k, s)
  <1> DEFINE t == Append(s, e)
  <1>1. /\ t \in Seq(Entry) /\ Len(t) = Len(s) + 1 /\ Len(s) \in Nat
        /\ \A i \in 1 .. Len(s) : t[i] = s[i]
        /\ t[Len(s) + 1] = e
    BY AppendProperties, LenProperties
  <1>2. \A i \in 1 .. Len(t) : (i \in 1 .. Len(s) /\ t[i] = s[i]) \/ (i = Len(s) + 1 /\ t[i] = e)
    BY <1>1
  <1> HIDE DEF t
  <1>3. /\ \A i \in 1 .. Len(s) : s[i].key \in Candles /\ s[i].v \in Nat /\ s[i].v <= accepted[s[i].key]
        /\ e.key \in Candles /\ e.v \in Nat /\ \A k \in Candles : accepted[k] \in Nat
        /\ e = [key |-> e.key, v |-> e.v]
    BY EntryAt DEF Kept, OldOnes, Entry
  <1>4. /\ accepted'[e.key] = e.v /\ \A k \in Candles : accepted'[k] >= accepted[k]
        /\ \A k \in Candles \ {e.key} : accepted'[k] = accepted[k]
    BY <1>3
  <1>5. Ordered(t)
    <2> SUFFICES ASSUME NEW i \in 1 .. Len(t), NEW j \in 1 .. Len(t), i < j, t[i].key = t[j].key
                 PROVE  t[i].v < t[j].v
      BY DEF Ordered
    <2>1. i \in 1 .. Len(s) /\ t[i] = s[i]
      BY <1>1, <1>2
    <2>2. CASE j \in 1 .. Len(s) /\ t[j] = s[j]
      BY <2>1, <2>2 DEF Kept, Ordered
    <2>3. CASE t[j] = e
      BY <1>3, <2>1, <2>3
    <2> QED BY <1>2, <2>2, <2>3
  <1>6. \A i \in 1 .. Len(t) : t[i].v <= accepted'[t[i].key]
    <2> TAKE i \in 1 .. Len(t)
    <2>1. CASE i \in 1 .. Len(s) /\ t[i] = s[i]
      <3>1. s[i].v <= accepted[s[i].key] /\ accepted[s[i].key] <= accepted'[s[i].key]
            /\ accepted[s[i].key] \in Nat /\ s[i].v \in Nat /\ accepted'[s[i].key] \in Nat
        BY <1>3, <1>4, <2>1
      <3> QED BY <2>1, <3>1
    <2>2. CASE t[i] = e
      BY <1>3, <1>4, <2>2
    <2> QED BY <1>2, <2>1, <2>2
  <1>7. Waits(e.key, t)
    BY <1>1 DEF Waits
  <1>8. \A k \in Candles \ {e.key} : Waits(k, t) <=> Waits(k, s)
    BY <1>1, <1>2 DEF Waits
  <1>9. \A k \in Candles : Waits(k, t) => \E i \in 1 .. Len(t) : t[i] = [key |-> k, v |-> accepted'[k]]
    <2> SUFFICES ASSUME NEW k \in Candles, Waits(k, t)
                 PROVE  \E i \in 1 .. Len(t) : t[i] = [key |-> k, v |-> accepted'[k]]
      OBVIOUS
    <2>1. CASE k = e.key
      BY <1>1, <1>3, <1>4, <2>1
    <2>2. CASE k # e.key
      <3>1. PICK i \in 1 .. Len(s) : s[i] = [key |-> k, v |-> accepted[k]]
        BY <1>8, <2>2 DEF Kept, Newest
      <3> QED BY <1>1, <1>4, <2>2, <3>1
    <2> QED BY <2>1, <2>2
  <1> QED BY <1>5, <1>6, <1>7, <1>8, <1>9 DEF t, Kept, Ordered, OldOnes, Waits, Newest

LastAt(k, line, p) == line[p].key = k /\ \A j \in 1 .. Len(line) : line[j].key = k => j <= p
Replaced(t, line, p, e) ==
    Len(t) = Len(line) /\ \A i \in 1 .. Len(line) : t[i] = IF i = p THEN e ELSE line[i]

LEMMA ReplaceKeeps ==
    ASSUME NEW s \in Seq(Entry), NEW e \in Entry, NEW p \in 1 .. Len(s), NEW t,
           Kept(s), LastAt(e.key, s, p), Replaced(t, s, p, e),
           accepted \in [Candles -> Nat], e.v > accepted[e.key],
           accepted' = [accepted EXCEPT ![e.key] = e.v]
    PROVE  Kept(t)' /\ \A k \in Candles : Waits(k, t) <=> Waits(k, s)
  <1>1. /\ \A i \in 1 .. Len(s) : s[i].key \in Candles /\ s[i].v \in Nat /\ s[i].v <= accepted[s[i].key]
        /\ e.key \in Candles /\ e.v \in Nat /\ \A k \in Candles : accepted[k] \in Nat
        /\ e = [key |-> e.key, v |-> e.v]
        /\ Len(s) \in Nat
    <2>1. e.key \in Candles /\ e.v \in Nat /\ e = [key |-> e.key, v |-> e.v] /\ Len(s) \in Nat
      BY LenProperties DEF Entry
    <2>2. OldOnes(s)
      BY DEF Kept
    <2>3. \A i \in 1 .. Len(s) : s[i].key \in Candles /\ s[i].v \in Nat
      BY EntryAt
    <2> QED BY <2>1, <2>2, <2>3 DEF OldOnes
  <1>2. /\ accepted'[e.key] = e.v /\ \A k \in Candles : accepted'[k] >= accepted[k]
        /\ \A k \in Candles \ {e.key} : accepted'[k] = accepted[k]
    BY <1>1
  <1> USE DEF LastAt, Replaced
  <1>3. \A i \in 1 .. Len(s) : (i = p /\ t[i] = e) \/ (i # p /\ t[i] = s[i])
    OBVIOUS
  <1>4. ASSUME NEW i \in 1 .. Len(s), NEW j \in 1 .. Len(s), i < j, t[i].key = t[j].key
        PROVE  t[i].v < t[j].v
    <2>1. CASE i = p
      <3>1. t[j] = s[j] /\ s[j].key = e.key
        BY <1>3, <1>4, <2>1
      <3> QED BY <1>4, <2>1, <3>1
    <2>2. CASE j = p
      BY <1>1, <1>3, <1>4, <2>2
    <2>3. CASE i # p /\ j # p
      BY <1>4, <2>3 DEF Kept, Ordered
    <2> QED BY <2>1, <2>2, <2>3
  <1>5. ASSUME NEW i \in 1 .. Len(s) PROVE t[i].v <= accepted'[t[i].key]
    <2>1. CASE i = p
      BY <1>1, <1>2, <2>1
    <2>2. CASE i # p
      <3>1. s[i].v <= accepted[s[i].key] /\ accepted[s[i].key] <= accepted'[s[i].key]
            /\ accepted[s[i].key] \in Nat /\ s[i].v \in Nat /\ accepted'[s[i].key] \in Nat
        BY <1>1, <1>2
      <3> QED BY <2>2, <3>1
    <2> QED BY <2>1, <2>2
  <1>6. \A i \in 1 .. Len(s) : t[i].key = s[i].key
    BY <1>3
  <1>7. \A k \in Candles : Waits(k, t) <=> Waits(k, s)
    BY <1>6 DEF Waits
  <1>8. ASSUME NEW k \in Candles, Waits(k, t)
        PROVE  \E i \in 1 .. Len(t) : t[i] = [key |-> k, v |-> accepted'[k]]
    <2>1. CASE k = e.key
      BY <1>1, <1>2, <2>1
    <2>2. CASE k # e.key
      <3>1. PICK i \in 1 .. Len(s) : s[i] = [key |-> k, v |-> accepted[k]]
        BY <1>7, <1>8, <2>2 DEF Kept, Newest
      <3>2. i # p
        BY <2>2, <3>1
      <3> QED BY <1>2, <2>2, <3>1, <3>2
    <2> QED BY <2>1, <2>2
  <1> QED BY <1>4, <1>5, <1>7, <1>8 DEF Kept, Ordered, OldOnes, Waits, Newest

LEMMA RemoveKeeps ==
    ASSUME NEW s \in Seq(Entry), NEW d \in 1 .. Len(s), Kept(s),
           NEW n \in d + 1 .. Len(s), s[n].key = s[d].key,
           accepted \in [Candles -> Nat],
           NEW t, Len(t) = Len(s) - 1,
           \A i \in 1 .. Len(t) : t[i] = IF i < d THEN s[i] ELSE s[i + 1]
    PROVE  Kept(t) /\ \A k \in Candles : Waits(k, t) <=> Waits(k, s)
  <1>1. Len(s) \in Nat /\ n \in 1 .. Len(s) /\ d < n
    BY LenProperties
  <1> DEFINE At1(i) == IF i < d THEN i ELSE i + 1
  <1>2. /\ \A i \in 1 .. Len(t) : At1(i) \in 1 .. Len(s) /\ At1(i) # d /\ t[i] = s[At1(i)]
        /\ \A i, j \in 1 .. Len(t) : i < j => At1(i) < At1(j)
        /\ \A j \in 1 .. Len(s) : j # d => \E i \in 1 .. Len(t) : At1(i) = j
    <2>1. \A i \in 1 .. Len(t) : At1(i) \in 1 .. Len(s) /\ At1(i) # d /\ t[i] = s[At1(i)]
      BY <1>1
    <2>2. \A i, j \in 1 .. Len(t) : i < j => At1(i) < At1(j)
      OBVIOUS
    <2>3. ASSUME NEW j \in 1 .. Len(s), j # d PROVE \E i \in 1 .. Len(t) : At1(i) = j
      <3>1. CASE j < d
        <4>1. j \in 1 .. Len(t) /\ At1(j) = j
          BY <1>1, <3>1
        <4> QED BY <4>1
      <3>2. CASE j > d
        <4>1. j - 1 \in 1 .. Len(t) /\ At1(j - 1) = j
          BY <1>1, <3>2
        <4> QED BY <4>1
      <3> QED BY <1>1, <2>3, <3>1, <3>2
    <2> QED BY <2>1, <2>2, <2>3
  <1> HIDE DEF At1
  <1>3. \A i \in 1 .. Len(s) : s[i].key \in Candles /\ s[i].v \in Nat /\ s[i].v <= accepted[s[i].key]
    <2>1. OldOnes(s)
      BY DEF Kept
    <2>2. \A i \in 1 .. Len(s) : s[i].key \in Candles /\ s[i].v \in Nat
      BY EntryAt
    <2> QED BY <2>1, <2>2 DEF OldOnes
  <1>4. Ordered(t) /\ OldOnes(t)
    <2>1. Ordered(s) /\ OldOnes(s)
      BY DEF Kept
    <2>2. Ordered(t)
      <3> SUFFICES ASSUME NEW i \in 1 .. Len(t), NEW j \in 1 .. Len(t), i < j, t[i].key = t[j].key
                   PROVE  t[i].v < t[j].v
        BY DEF Ordered
      <3>1. At1(i) \in 1 .. Len(s) /\ At1(j) \in 1 .. Len(s) /\ At1(i) < At1(j)
            /\ t[i] = s[At1(i)] /\ t[j] = s[At1(j)]
        BY <1>2
      <3> QED BY <2>1, <3>1 DEF Ordered
    <2>3. OldOnes(t)
      BY <1>2, <2>1 DEF OldOnes
    <2> QED BY <2>2, <2>3
  <1>5. ASSUME NEW k \in Candles PROVE Waits(k, t) <=> Waits(k, s)
    <2>1. ASSUME NEW j \in 1 .. Len(s), s[j].key = k PROVE \E i \in 1 .. Len(t) : t[i].key = k
      <3>1. CASE j = d
        <4>1. PICK i \in 1 .. Len(t) : At1(i) = n
          BY <1>1, <1>2
        <4>2. t[i] = s[n]
          BY <1>2, <4>1
        <4> QED BY <2>1, <3>1, <4>2
      <3>2. CASE j # d
        BY <1>2, <2>1, <3>2
      <3> QED BY <3>1, <3>2
    <2> QED BY <1>2, <2>1 DEF Waits
  <1>6. ASSUME NEW k \in Candles, Waits(k, t) PROVE Newest(k, t)
    <2>1. PICK j \in 1 .. Len(s) : s[j] = [key |-> k, v |-> accepted[k]]
      BY <1>5, <1>6 DEF Kept, Newest
    <2>2. j # d
      <3> SUFFICES ASSUME j = d PROVE FALSE
        OBVIOUS
      <3>1. s[n].key = k /\ s[d].v = accepted[k] /\ s[n].v <= accepted[k] /\ s[d].v < s[n].v
        BY <1>1, <1>3, <2>1 DEF Kept, Ordered
      <3> QED BY <1>1, <1>3, <3>1
    <2> QED BY <1>2, <2>1, <2>2 DEF Newest
  <1> QED BY <1>4, <1>5, <1>6 DEF Kept

-----------------------------------------------------------------------------
(* A candle that is closed comes to the buffer in its next version.         *)
Closing(e) ==
    /\ enqueue(e)
    /\ e \in Entry /\ e.v = closed[e.key] + 1
    /\ closed' = [closed EXCEPT ![e.key] = @ + 1]
    /\ UNCHANGED <<setup, batch, flushes, stored>>

(* The ways of enqueue: in place of a version that waits, at the end, at    *)
(* the end in the place of the oldest duplicate, or not at all.             *)
Replaces(e) == IndexOf(e.key) # 0 /\ Takes([buf EXCEPT ![IndexOf(e.key)] = e], total, e)
Appends(e) == IndexOf(e.key) = 0 /\ total < MAX_BACKLOG /\ Takes(Append(buf, e), total + 1, e)
Drops(e) ==
    /\ IndexOf(e.key) = 0 /\ OldestDuplicate # 0
    /\ Takes(Append(RemoveAt(buf, OldestDuplicate), e), total, e)
Refuses == UNCHANGED <<buf, total, accepted>> /\ health' = Noted(health, total)

LEMMA EnqueueWays ==
    ASSUME BufferInv, NEW e, enqueue(e)
    PROVE  Replaces(e) \/ Appends(e) \/ Drops(e) \/ Refuses
  <1>1. total \in Nat /\ MAX_BACKLOG \in Nat /\ buf \in Seq(Entry)
    BY WorkAssumption, LenProperties DEF BufferInv
  <1>2. IndexOf(e.key) = 0 \/ IndexOf(e.key) # 0
    OBVIOUS
  <1>3. total < MAX_BACKLOG \/ total >= MAX_BACKLOG
    BY <1>1
  <1> QED BY <1>1, <1>2, <1>3 DEF enqueue, Replaces, Appends, Drops, Refuses

LEMMA Removed ==
    ASSUME NEW s \in Seq(Entry), NEW d \in 1 .. Len(s)
    PROVE  /\ RemoveAt(s, d) \in Seq(Entry)
           /\ Len(RemoveAt(s, d)) = Len(s) - 1
           /\ \A i \in 1 .. Len(s) - 1 : RemoveAt(s, d)[i] = IF i < d THEN s[i] ELSE s[i + 1]
  <1>1. Len(s) \in Nat /\ \A i \in 1 .. Len(s) : s[i] \in Entry
    BY LenProperties, ElementOfSeq
  <1> DEFINE a == SubSeq(s, 1, d - 1)
             b == SubSeq(s, d + 1, Len(s))
  <1>2. /\ a \in Seq(Entry) /\ Len(a) = d - 1
        /\ \A i \in 1 .. d - 1 : a[i] = s[i]
    <2>1. 1 \in Int /\ d - 1 \in Int /\ \A i \in 1 .. d - 1 : s[i] \in Entry
      BY <1>1
    <2>2. /\ a \in Seq(Entry) /\ Len(a) = IF 1 <= d - 1 THEN (d - 1) - 1 + 1 ELSE 0
          /\ \A i \in 1 .. (d - 1) - 1 + 1 : a[i] = s[1 + i - 1]
      BY <2>1, SubSeqProperties
    <2> QED BY <1>1, <2>2
  <1>3. /\ b \in Seq(Entry) /\ Len(b) = Len(s) - d
        /\ \A i \in 1 .. Len(s) - d : b[i] = s[d + i]
    <2>1. d + 1 \in Int /\ Len(s) \in Int /\ \A i \in d + 1 .. Len(s) : s[i] \in Entry
      BY <1>1
    <2>2. /\ b \in Seq(Entry) /\ Len(b) = IF d + 1 <= Len(s) THEN Len(s) - (d + 1) + 1 ELSE 0
          /\ \A i \in 1 .. Len(s) - (d + 1) + 1 : b[i] = s[(d + 1) + i - 1]
      BY <2>1, SubSeqProperties
    <2> QED BY <1>1, <2>2
  <1>4. RemoveAt(s, d) = a \o b
    BY DEF RemoveAt
  <1> HIDE DEF a, b
  <1>5. /\ a \o b \in Seq(Entry) /\ Len(a \o b) = Len(s) - 1
        /\ \A i \in 1 .. Len(s) - 1 : (a \o b)[i] = IF i <= d - 1 THEN a[i] ELSE b[i - (d - 1)]
    <2>1. /\ a \o b \in Seq(Entry) /\ Len(a \o b) = Len(a) + Len(b)
          /\ \A i \in 1 .. Len(a) + Len(b) : (a \o b)[i] = IF i <= Len(a) THEN a[i] ELSE b[i - Len(a)]
      BY <1>2, <1>3, ConcatProperties
    <2> QED BY <1>1, <1>2, <1>3, <2>1
  <1>6. ASSUME NEW i \in 1 .. Len(s) - 1
        PROVE  (a \o b)[i] = IF i < d THEN s[i] ELSE s[i + 1]
    <2>1. CASE i < d
      BY <1>1, <1>2, <1>5, <2>1
    <2>2. CASE ~(i < d)
      <3>1. i - (d - 1) \in 1 .. Len(s) - d /\ d + (i - (d - 1)) = i + 1 /\ ~(i <= d - 1)
        BY <1>1, <2>2
      <3> QED BY <1>3, <1>5, <2>2, <3>1
    <2> QED BY <2>1, <2>2
  <1> QED BY <1>4, <1>5, <1>6

LEMMA EnqueueBuffer ==
    ASSUME BufferInv, ClockInv, NEW e, Closing(e)
    PROVE  BufferInv'
  <1>1. /\ buf \in Seq(Entry) /\ batch \in Seq(Entry) /\ e \in Entry
        /\ Len(buf) \in Nat /\ Len(batch) \in Nat /\ MAX_BACKLOG \in Nat
        /\ total = Len(buf) + Len(batch) /\ total <= MAX_BACKLOG
    BY WorkAssumption, LenProperties DEF BufferInv, Closing
  <1>2. e.key \in Candles /\ e.v \in Nat /\ closed \in [Candles -> Nat]
    BY <1>1 DEF Entry, ClockInv
  <1>3. /\ accepted \in [Candles -> Nat] /\ closed'[e.key] = e.v
        /\ \A k \in Candles : closed'[k] >= closed[k] /\ accepted[k] <= closed[k]
        /\ \A k \in Candles : closed'[k] \in Nat /\ closed[k] \in Nat
    BY <1>2 DEF BufferInv, Closing
  <1>4. ASSUME NEW entries, NEW n, Takes(entries, n, e) \/ (entries = buf /\ n = total /\ Refuses),
               entries \in Seq(Entry), n = Len(entries) + Len(batch), n <= MAX_BACKLOG
        PROVE  BufferInv'
    <2>1. buf' = entries /\ total' = n /\ batch' = batch /\ flushes' = flushes
      BY <1>4 DEF Takes, Refuses, Closing
    <2>2. accepted' = accepted \/ accepted' = [accepted EXCEPT ![e.key] = e.v]
      BY <1>4 DEF Takes, Refuses
    <2>3. accepted' \in [Candles -> Nat] /\ \A k \in Candles : accepted'[k] <= closed'[k]
      <3>1. accepted' \in [Candles -> Nat]
        BY <1>2, <1>3, <2>2
      <3>2. ASSUME NEW k \in Candles PROVE accepted'[k] <= closed'[k]
        <4>1. accepted'[k] = accepted[k] \/ (k = e.key /\ accepted'[k] = e.v)
          BY <1>2, <1>3, <2>2
        <4> QED BY <1>3, <4>1
      <3> QED BY <3>1, <3>2
    <2> QED BY <1>1, <1>4, <2>1, <2>3 DEF BufferInv
  <1>5. CASE Replaces(e)
    <2>1. IndexOf(e.key) \in 1 .. Len(buf)
      BY <1>1, <1>5, IndexOfFirst DEF Replaces
    <2>2. /\ [buf EXCEPT ![IndexOf(e.key)] = e] \in Seq(Entry)
          /\ Len([buf EXCEPT ![IndexOf(e.key)] = e]) = Len(buf)
      BY <1>1, <2>1, ExceptSeq
    <2> QED BY <1>1, <1>4, <1>5, <2>2 DEF Replaces
  <1>6. CASE Appends(e)
    <2>1. Append(buf, e) \in Seq(Entry) /\ Len(Append(buf, e)) = Len(buf) + 1
      BY <1>1, AppendProperties
    <2>2. total + 1 = Len(Append(buf, e)) + Len(batch) /\ total + 1 <= MAX_BACKLOG
      BY <1>1, <1>6, <2>1 DEF Appends
    <2>3. Takes(Append(buf, e), total + 1, e)
      BY <1>6 DEF Appends
    <2> QED BY <1>4, <2>1, <2>2, <2>3
  <1>7. CASE Drops(e)
    <2>1. OldestDuplicate \in 1 .. Len(buf)
      BY <1>1, <1>7, OldestDuplicateIsOld DEF Drops
    <2>2. /\ RemoveAt(buf, OldestDuplicate) \in Seq(Entry)
          /\ Len(RemoveAt(buf, OldestDuplicate)) = Len(buf) - 1
      BY <1>1, <2>1, Removed
    <2>3. /\ Append(RemoveAt(buf, OldestDuplicate), e) \in Seq(Entry)
          /\ Len(Append(RemoveAt(buf, OldestDuplicate), e)) = (Len(buf) - 1) + 1
      BY <1>1, <2>2, AppendProperties
    <2>4. total = Len(Append(RemoveAt(buf, OldestDuplicate), e)) + Len(batch)
      BY <1>1, <2>3
    <2>5. Takes(Append(RemoveAt(buf, OldestDuplicate), e), total, e)
      BY <1>7 DEF Drops
    <2> QED BY <1>1, <1>4, <2>3, <2>4, <2>5
  <1>8. CASE Refuses
    BY <1>1, <1>4, <1>8
  <1> QED BY <1>5, <1>6, <1>7, <1>8, EnqueueWays DEF Closing

LEMMA KeptLine ==
    ASSUME LineInv, setup.late <= 1
    PROVE  Kept(Line) /\ \A k \in Candles : ~Waits(k, Line) => accepted[k] \in {0, stored[k]}
  BY DEF LineInv, Kept, OldOnes

LEMMA LineStep ==
    ASSUME NEW t, Line' = t, Kept(t)',
           \A k \in Candles : Waits(k, t) \/ accepted'[k] \in {0, stored'[k]}
    PROVE  LineInv'
  <1>1. /\ \A i, j \in 1 .. Len(t) : i < j /\ t[i].key = t[j].key => t[i].v < t[j].v
        /\ \A i \in 1 .. Len(t) : t[i].v <= accepted'[t[i].key]
        /\ \A k \in Candles : (\E i \in 1 .. Len(t) : t[i].key = k)
              => \E i \in 1 .. Len(t) : t[i] = [key |-> k, v |-> accepted'[k]]
    BY DEF Kept, Ordered, OldOnes, Waits, Newest
  <1> QED BY <1>1 DEF LineInv, Ordered, Waits, Newest

LEMMA EnqueueLine ==
    ASSUME BufferInv, ClockInv, LineInv, NEW e, Closing(e), e.v <= 2, setup.late <= 1
    PROVE  LineInv'
  <1>1. /\ buf \in Seq(Entry) /\ batch \in Seq(Entry) /\ e \in Entry
        /\ Len(buf) \in Nat /\ Len(batch) \in Nat /\ batch' = batch /\ stored' = stored
        /\ accepted \in [Candles -> Nat] /\ e.key \in Candles /\ e.v \in Nat
    BY LenProperties DEF BufferInv, Closing, Entry
  <1>2. e.v > accepted[e.key] /\ accepted[e.key] <= 1
    BY <1>1 DEF BufferInv, Closing, ClockInv
  <1>3. PICK s \in Seq(Entry) : s = Line
    BY LineLen
  <1>4. /\ Kept(s) /\ \A k \in Candles : ~Waits(k, s) => accepted[k] \in {0, stored[k]}
        /\ Len(s) = Len(batch) + Len(buf)
        /\ \A i \in 1 .. Len(batch) : s[i] = batch[i]
        /\ \A i \in 1 .. Len(buf) : s[Len(batch) + i] = buf[i]
        /\ \A i \in 1 .. Len(s) :
                \/ i \in 1 .. Len(batch)
                \/ i - Len(batch) \in 1 .. Len(buf) /\ s[i] = buf[i - Len(batch)]
    <2>1. Kept(s) /\ \A k \in Candles : ~Waits(k, s) => accepted[k] \in {0, stored[k]}
      BY <1>3, KeptLine
    <2>2. Len(s) = Len(batch) + Len(buf)
      BY <1>1, <1>3, LineLen DEF BufferInv
    <2> QED BY <1>3, <2>1, <2>2, LineLen
  <1>5. ASSUME NEW entries \in Seq(Entry), batch' = batch, buf' = entries
        PROVE  /\ Line' \in Seq(Entry) /\ Len(Line') = Len(batch) + Len(entries)
               /\ \A i \in 1 .. Len(batch) + Len(entries) : Line'[i] =
                     IF i <= Len(batch) THEN batch[i] ELSE entries[i - Len(batch)]
    <2>1. Line' = batch \o entries
      BY <1>5 DEF Line
    <2> QED BY <1>1, <1>5, <2>1, ConcatProperties
  <1>6. ASSUME accepted' = [accepted EXCEPT ![e.key] = e.v]
        PROVE  \A k \in Candles \ {e.key} : accepted'[k] = accepted[k]
    BY <1>1, <1>6
  <1>7. CASE Replaces(e)
    <2>1. PICK p \in 1 .. Len(buf) : p = IndexOf(e.key)
      BY <1>1, <1>7, IndexOfFirst DEF Replaces
    <2>2. /\ buf' = [buf EXCEPT ![p] = e] /\ accepted' = [accepted EXCEPT ![e.key] = e.v]
          /\ buf[p].key = e.key
      BY <1>1, <1>7, <2>1, IndexOfFirst DEF Replaces, Takes
    <2>3. PICK q \in 1 .. Len(s) : q = Len(batch) + p
      BY <1>1, <1>4, <2>1
    <2>4. s[q] = buf[p]
      BY <1>4, <2>3
    <2>5. \A j \in 1 .. Len(s) : s[j].key = e.key => j <= q
      <3> SUFFICES ASSUME NEW j \in 1 .. Len(s), s[j].key = e.key, q < j PROVE FALSE
        BY <1>1, <1>4
      <3>1. s[q].v < s[j].v /\ s[j].v <= accepted[e.key] /\ s[q].v \in 1 .. 3 /\ s[j].v \in 1 .. 3
        BY <1>4, <2>2, <2>4, EntryAt DEF Kept, Ordered, OldOnes
      <3> QED BY <1>1, <1>2, <3>1
    <2>6. PICK t : t = Line'
      OBVIOUS
    <2>7. Replaced(t, s, q, e)
      <3>1. PICK entries \in Seq(Entry) :
              /\ entries = buf' /\ Len(entries) = Len(buf)
              /\ \A i \in 1 .. Len(buf) : entries[i] = IF i = p THEN e ELSE buf[i]
        <4>1. /\ [buf EXCEPT ![p] = e] \in Seq(Entry) /\ Len([buf EXCEPT ![p] = e]) = Len(buf)
              /\ \A i \in 1 .. Len(buf) : [buf EXCEPT ![p] = e][i] = IF i = p THEN e ELSE buf[i]
          BY <1>1, <2>1, ExceptSeq
        <4> QED BY <2>2, <4>1
      <3>2. /\ Len(t) = Len(batch) + Len(buf)
            /\ \A i \in 1 .. Len(batch) + Len(buf) : t[i] =
                  IF i <= Len(batch) THEN batch[i] ELSE entries[i - Len(batch)]
        BY <1>1, <1>5, <2>6, <3>1
      <3>3. ASSUME NEW i \in 1 .. Len(s) PROVE t[i] = IF i = q THEN e ELSE s[i]
        <4>1. CASE i <= Len(batch)
          <5>1. i \in 1 .. Len(batch) /\ i # q /\ i \in 1 .. Len(batch) + Len(buf)
            BY <1>1, <1>4, <2>1, <2>3, <4>1
          <5> QED BY <1>4, <3>2, <4>1, <5>1
        <4>2. CASE ~(i <= Len(batch))
          <5>1. i - Len(batch) \in 1 .. Len(buf) /\ s[i] = buf[i - Len(batch)]
                /\ (i = q <=> i - Len(batch) = p)
            BY <1>1, <1>4, <2>3, <4>2
          <5> QED BY <1>1, <1>4, <3>1, <3>2, <4>2, <5>1
        <4> QED BY <4>1, <4>2
      <3> QED BY <1>4, <3>2, <3>3 DEF Replaced
    <2>8. /\ Kept(t)' /\ \A k \in Candles : Waits(k, t) <=> Waits(k, s)
      <3>1. LastAt(e.key, s, q)
        BY <2>2, <2>4, <2>5 DEF LastAt
      <3> QED BY <1>1, <1>2, <1>4, <2>2, <2>7, <3>1, ReplaceKeeps
    <2>9. ASSUME NEW k \in Candles, ~Waits(k, t) PROVE accepted'[k] \in {0, stored'[k]}
      <3>1. k # e.key
        BY <2>2, <2>4, <2>8, <2>9 DEF Waits
      <3> QED BY <1>1, <1>4, <1>6, <2>2, <2>8, <2>9, <3>1
    <2> QED BY <2>6, <2>8, <2>9, LineStep
  <1>8. ASSUME NEW r \in Seq(Entry), Kept(r), \A k \in Candles : Waits(k, r) <=> Waits(k, s),
               Line' = Append(r, e), accepted' = [accepted EXCEPT ![e.key] = e.v]
        PROVE  LineInv'
    <2>1. PICK t : t = Append(r, e)
      OBVIOUS
    <2>2. Kept(t)' /\ Waits(e.key, t) /\ \A k \in Candles \ {e.key} : Waits(k, t) <=> Waits(k, r)
      BY <1>1, <1>2, <1>8, <2>1, AppendKeeps
    <2>3. ASSUME NEW k \in Candles, ~Waits(k, t) PROVE accepted'[k] \in {0, stored'[k]}
      BY <1>1, <1>4, <1>6, <1>8, <2>2, <2>3
    <2> QED BY <1>8, <2>1, <2>2, <2>3, LineStep
  <1>9. CASE Appends(e)
    <2>1. buf' = Append(buf, e) /\ accepted' = [accepted EXCEPT ![e.key] = e.v]
      BY <1>9 DEF Appends, Takes
    <2>2. Line' = Append(s, e)
      <3>1. batch \o Append(buf, e) = batch \o (buf \o <<e>>) /\ <<e>> \in Seq(Entry)
        BY <1>1, AppendIsConcat
      <3>2. batch \o (buf \o <<e>>) = (batch \o buf) \o <<e>>
        BY <1>1, <3>1, ConcatAssociative
      <3>3. s \o <<e>> = Append(s, e)
        BY <1>1, AppendIsConcat
      <3> QED BY <1>1, <1>3, <2>1, <3>1, <3>2, <3>3 DEF Line
    <2> QED BY <1>4, <1>8, <2>1, <2>2
  <1>10. CASE Drops(e)
    <2>1. PICK d \in 1 .. Len(buf) :
            /\ d = OldestDuplicate
            /\ \E j \in 1 .. Len(buf) : d < j /\ buf[j].key = buf[d].key
      BY <1>1, <1>10, OldestDuplicateIsOld DEF Drops
    <2>2. PICK j \in 1 .. Len(buf) : d < j /\ buf[j].key = buf[d].key
      BY <2>1
    <2>3. PICK rest \in Seq(Entry) :
            /\ rest = RemoveAt(buf, d) /\ Len(rest) = Len(buf) - 1
            /\ \A i \in 1 .. Len(buf) - 1 : rest[i] = IF i < d THEN buf[i] ELSE buf[i + 1]
      BY <1>1, Removed
    <2>4. buf' = Append(rest, e) /\ accepted' = [accepted EXCEPT ![e.key] = e.v]
      BY <1>10, <2>1, <2>3 DEF Drops, Takes
    <2>5. PICK r \in Seq(Entry) :
            /\ r = batch \o rest /\ Len(r) = Len(batch) + Len(rest)
            /\ \A i \in 1 .. Len(batch) + Len(rest) : r[i] =
                  IF i <= Len(batch) THEN batch[i] ELSE rest[i - Len(batch)]
      <3>1. /\ batch \o rest \in Seq(Entry) /\ Len(batch \o rest) = Len(batch) + Len(rest)
            /\ \A i \in 1 .. Len(batch) + Len(rest) : (batch \o rest)[i] =
                  IF i <= Len(batch) THEN batch[i] ELSE rest[i - Len(batch)]
        BY <1>1, <2>3, ConcatProperties
      <3> QED BY <3>1
    <2>6. Line' = Append(r, e)
      <3>1. batch \o Append(rest, e) = batch \o (rest \o <<e>>) /\ <<e>> \in Seq(Entry)
        <4>1. rest \in Seq(Entry) /\ e \in Entry
          BY <1>1, <2>3
        <4>2. Append(rest, e) = rest \o <<e>>
          BY <4>1, AppendIsConcat
        <4>3. <<e>> \in Seq(Entry)
          BY <4>1
        <4> QED BY <4>2, <4>3
      <3>2. batch \o (rest \o <<e>>) = (batch \o rest) \o <<e>>
        <4>1. rest \in Seq(Entry) /\ batch \in Seq(Entry) /\ <<e>> \in Seq(Entry)
          BY <1>1, <2>3, <3>1
        <4> QED BY <4>1, ConcatAssociative
      <3>3. r \o <<e>> = Append(r, e)
        BY <1>1, <2>5, AppendIsConcat
      <3>4. Line' = batch \o Append(rest, e)
        BY <1>1, <2>4 DEF Line
      <3> QED BY <2>5, <3>1, <3>2, <3>3, <3>4
    <2>7. PICK g \in 1 .. Len(s) : g = Len(batch) + d
      BY <1>1, <1>4
    <2>8. PICK n \in g + 1 .. Len(s) : n = Len(batch) + j
      <3>1. Len(batch) + j \in g + 1 .. Len(s)
        BY <1>1, <1>4, <2>1, <2>2, <2>7
      <3> QED BY <3>1
    <2>9. s[n].key = s[g].key
      BY <1>4, <2>2, <2>7, <2>8
    <2>10. Len(r) = Len(s) - 1 /\ \A i \in 1 .. Len(r) : r[i] = IF i < g THEN s[i] ELSE s[i + 1]
      <3>1. Len(r) = Len(s) - 1
        BY <1>1, <1>4, <2>3, <2>5
      <3>2. ASSUME NEW i \in 1 .. Len(r) PROVE r[i] = IF i < g THEN s[i] ELSE s[i + 1]
        <4>1. CASE i <= Len(batch)
          BY <1>1, <1>4, <2>5, <2>7, <4>1
        <4>2. CASE ~(i <= Len(batch))
          <5>1. PICK x \in 1 .. Len(buf) - 1 : x = i - Len(batch) /\ i = Len(batch) + x
            <6>1. i - Len(batch) \in 1 .. Len(buf) - 1 /\ i = Len(batch) + (i - Len(batch))
              BY <1>1, <2>3, <2>5, <4>2
            <6> QED BY <6>1
          <5>2. r[i] = IF x < d THEN buf[x] ELSE buf[x + 1]
            BY <1>1, <2>3, <2>5, <4>2, <5>1
          <5>3. s[i] = buf[x] /\ s[i + 1] = buf[x + 1] /\ (i < g <=> x < d)
            <6>1. x \in 1 .. Len(buf) /\ x + 1 \in 1 .. Len(buf) /\ i + 1 = Len(batch) + (x + 1)
              BY <1>1, <5>1
            <6>2. s[Len(batch) + x] = buf[x] /\ s[Len(batch) + (x + 1)] = buf[x + 1]
              BY <1>4, <6>1
            <6>3. i < g <=> x < d
              <7>1. Len(batch) \in Int /\ d \in Int /\ x \in Int
                BY <1>1, <2>1, <5>1
              <7> QED BY <2>7, <5>1, <7>1
            <6> QED BY <5>1, <6>1, <6>2, <6>3
          <5> QED BY <5>2, <5>3
        <4> QED BY <4>1, <4>2
      <3> QED BY <3>1, <3>2
    <2>11. Kept(r) /\ \A k \in Candles : Waits(k, r) <=> Waits(k, s)
      BY <1>1, <1>4, <2>9, <2>10, RemoveKeeps
    <2> QED BY <1>8, <2>4, <2>6, <2>11
  <1>11. CASE Refuses
    <2>1. Line' = s /\ accepted' = accepted
      BY <1>1, <1>3, <1>11 DEF Refuses, Line
    <2>2. Kept(s)'
      BY <1>4, <2>1 DEF Kept, Ordered, OldOnes, Waits, Newest
    <2> QED BY <1>1, <1>4, <2>1, <2>2, LineStep
  <1> QED BY <1>7, <1>9, <1>10, <1>11, EnqueueWays DEF Closing

-----------------------------------------------------------------------------
(* A flush: what it writes, and what is left of the line.                   *)

LEMMA UpsertedOthers ==
    ASSUME NEW W \in SUBSET DOMAIN batch, NEW k \in Candles, batch \in Seq(Entry),
           \A i \in 1 .. Len(batch) : batch[i].key # k
    PROVE  Upserted(W)[k] = stored[k]
  <1>1. DOMAIN batch = 1 .. Len(batch)
    BY LenProperties
  <1>2. {i \in W : batch[i].key = k} = {}
    BY <1>1
  <1> QED BY <1>2 DEF Upserted

LEMMA UpsertedLast ==
    ASSUME NEW k \in Candles, batch \in Seq(Entry), NEW m \in 1 .. Len(batch), LastAt(k, batch, m)
    PROVE  Upserted(DOMAIN batch)[k] = batch[m].v
  <1> DEFINE of == {i \in DOMAIN batch : batch[i].key = k}
  <1>1. DOMAIN batch = 1 .. Len(batch) /\ Len(batch) \in Nat
    BY LenProperties
  <1>2. m \in of /\ \A j \in of : j <= m
    BY <1>1 DEF LastAt
  <1>3. \A i \in of : (\A j \in of : j <= i) => i = m
    BY <1>1, <1>2
  <1>4. (CHOOSE i \in of : \A j \in of : j <= i) = m
    <2> HIDE DEF of
    <2> QED BY <1>2, <1>3
  <1> QED BY <1>2, <1>4 DEF Upserted

LEMMA SameLine ==
    ASSUME LineInv, Line' = Line, UNCHANGED <<setup, accepted>>,
           \A k \in Candles : Waits(k, Line) \/ stored'[k] = stored[k]
    PROVE  LineInv'
  <1> SUFFICES ASSUME setup.late <= 1 PROVE LineInv'
    BY DEF LineInv
  <1>1. PICK t : t = Line
    OBVIOUS
  <1>2. Kept(t) /\ \A k \in Candles : Waits(k, t) \/ accepted[k] \in {0, stored[k]}
    BY <1>1, KeptLine
  <1>3. Kept(t)'
    BY <1>2 DEF Kept, Ordered, OldOnes, Waits, Newest
  <1> QED BY <1>1, <1>2, <1>3, LineStep

(* What the batch held of a candle is older than what the queue holds, and  *)
(* the last of what the batch held is stored.                               *)
LEMMA WrittenLine ==
    ASSUME BufferInv, LineInv, UNCHANGED <<setup, accepted>>,
           Line' = buf, stored' = Upserted(DOMAIN batch)
    PROVE  LineInv'
  <1> SUFFICES ASSUME setup.late <= 1 PROVE LineInv'
    BY DEF LineInv
  <1>1. PICK s \in Seq(Entry) : s = Line
    BY LineLen
  <1>2. PICK t \in Seq(Entry) : t = buf
    BY DEF BufferInv
  <1>3. PICK b \in Seq(Entry) : b = batch
    BY DEF BufferInv
  <1>4. /\ Kept(s) /\ \A k \in Candles : Waits(k, s) \/ accepted[k] \in {0, stored[k]}
        /\ accepted \in [Candles -> Nat]
    BY <1>1, KeptLine DEF BufferInv
  <1>5. /\ Len(t) \in Nat /\ Len(b) \in Nat /\ Len(s) = Len(b) + Len(t)
        /\ \A i \in 1 .. Len(b) : s[i] = b[i]
        /\ \A i \in 1 .. Len(t) : s[Len(b) + i] = t[i]
        /\ \A i \in 1 .. Len(s) : i \in 1 .. Len(b) \/ i - Len(b) \in 1 .. Len(t)
    <2>1. Len(s) = Len(b) + Len(t)
      BY <1>1, <1>2, <1>3, LineLen DEF BufferInv
    <2> QED BY <1>1, <1>2, <1>3, <2>1, LineLen
  <1>6. \A i \in 1 .. Len(t) : Len(b) + i \in 1 .. Len(s)
    BY <1>5
  <1>7. \A i \in 1 .. Len(b) : i \in 1 .. Len(s)
    BY <1>5
  <1>8. \A i \in 1 .. Len(s) : s[i].v \in Nat /\ s[i].v <= accepted[s[i].key] /\ s[i].key \in Candles
    <2>1. OldOnes(s)
      BY <1>4 DEF Kept
    <2>2. \A i \in 1 .. Len(s) : s[i].v \in Nat /\ s[i].key \in Candles
      BY EntryAt
    <2> QED BY <2>1, <2>2 DEF OldOnes
  <1>9. ASSUME NEW k \in Candles, NEW m \in 1 .. Len(s), s[m] = [key |-> k, v |-> accepted[k]]
        PROVE  LastAt(k, s, m)
    <2> SUFFICES ASSUME NEW j \in 1 .. Len(s), s[j].key = k, m < j PROVE FALSE
      BY <1>5, <1>9 DEF LastAt
    <2>1. s[m].v < s[j].v
      BY <1>4, <1>9 DEF Kept, Ordered
    <2>2. s[j].v <= accepted[k] /\ s[m].v = accepted[k] /\ s[j].v \in Nat /\ accepted[k] \in Nat
      BY <1>4, <1>8, <1>9
    <2> QED BY <2>1, <2>2
  <1>10. Ordered(t)
    <2> SUFFICES ASSUME NEW i \in 1 .. Len(t), NEW j \in 1 .. Len(t), i < j, t[i].key = t[j].key
                 PROVE  t[i].v < t[j].v
      BY DEF Ordered
    <2>1. Len(b) + i < Len(b) + j
      BY <1>5
    <2> QED BY <1>4, <1>5, <1>6, <2>1 DEF Kept, Ordered
  <1>11. OldOnes(t)
    BY <1>5, <1>6, <1>8 DEF OldOnes
  <1>12. ASSUME NEW k \in Candles, Waits(k, t) PROVE Newest(k, t)
    <2>1. PICK j \in 1 .. Len(t) : t[j].key = k
      BY <1>12 DEF Waits
    <2>2. Waits(k, s)
      BY <1>5, <1>6, <2>1 DEF Waits
    <2>3. PICK m \in 1 .. Len(s) : s[m] = [key |-> k, v |-> accepted[k]]
      BY <1>4, <2>2 DEF Kept, Newest
    <2>4. Len(b) + j <= m
      BY <1>5, <1>6, <1>9, <2>1, <2>3 DEF LastAt
    <2>5. PICK i \in 1 .. Len(t) : i = m - Len(b) /\ m = Len(b) + i
      <3>1. m - Len(b) \in 1 .. Len(t) /\ m = Len(b) + (m - Len(b))
        BY <1>5, <2>4
      <3> QED BY <3>1
    <2> QED BY <1>5, <2>3, <2>5 DEF Newest
  <1>13. Kept(t)'
    BY <1>10, <1>11, <1>12 DEF Kept, Ordered, OldOnes, Waits, Newest
  <1>14. ASSUME NEW k \in Candles, ~Waits(k, t) PROVE accepted'[k] \in {0, stored'[k]}
    <2>1. CASE Waits(k, s)
      <3>1. PICK m \in 1 .. Len(s) : s[m] = [key |-> k, v |-> accepted[k]]
        BY <1>4, <2>1 DEF Kept, Newest
      <3>2. m \in 1 .. Len(b)
        <4>1. ASSUME m - Len(b) \in 1 .. Len(t) PROVE FALSE
          <5>1. Len(b) + (m - Len(b)) = m
            BY <1>5
          <5>2. t[m - Len(b)].key = k
            BY <1>5, <3>1, <4>1, <5>1
          <5> QED BY <1>14, <4>1, <5>2 DEF Waits
        <4> QED BY <1>5, <4>1
      <3>3. LastAt(k, s, m)
        BY <1>9, <3>1
      <3>4. LastAt(k, b, m)
        BY <1>5, <1>7, <3>2, <3>3 DEF LastAt
      <3>5. Upserted(DOMAIN batch)[k] = b[m].v
        BY <1>3, <3>2, <3>4, UpsertedLast
      <3>6. b[m].v = accepted[k]
        BY <1>5, <3>1, <3>2
      <3> QED BY <3>5, <3>6
    <2>2. CASE ~Waits(k, s)
      <3>1. \A i \in 1 .. Len(b) : b[i].key # k
        BY <1>5, <1>7, <2>2 DEF Waits
      <3>2. Upserted(DOMAIN batch)[k] = stored[k]
        BY <1>3, <3>1, UpsertedOthers
      <3> QED BY <1>4, <2>2, <3>2
    <2> QED BY <2>1, <2>2
  <1> QED BY <1>2, <1>13, <1>14, LineStep

-----------------------------------------------------------------------------
(* Steps that leave a part of the state alone.                              *)

LEMMA SetupType ==
    ASSUME setup \in WorkSetups
    PROVE  /\ setup.jobs \subseteq Jobs /\ setup.late \in 0 .. 2
           /\ setup.failures \in Nat /\ setup.failures <= MaxFailures
           /\ setup.candles \in Nat /\ setup.candles <= MaxCandle
           /\ MaxCandle \in Nat /\ MaxFailures \in Nat
  BY WorkAssumption DEF WorkSetup

LEMMA HealthStep ==
    ASSUME HealthInv, setup' = setup, failures' \in Nat, health' \in Health,
           health'.failureStreak + failures' <= health.failureStreak + failures,
           backoff' \subseteq backoff \cup Jobs \cup {Writer},
           job' \in [Jobs -> Priorities \cup {"rest"}], cache' \in {"none", "new", "old"}
    PROVE  HealthInv'
  <1>1. /\ health.failureStreak \in Nat /\ health'.failureStreak \in Nat
        /\ failures \in Nat /\ setup.failures \in Nat
        /\ health.failureStreak + failures <= setup.failures
    BY SetupType DEF HealthInv, Health
  <1>2. health'.failureStreak + failures' <= setup.failures
    BY <1>1
  <1> QED BY <1>2 DEF HealthInv

LEMMA ClockFrame ==
    ASSUME ClockInv, UNCHANGED quiet
    PROVE  ClockInv'
  BY DEF ClockInv, quiet, Used

LEMMA BufferFrame ==
    ASSUME BufferInv, LineInv, UNCHANGED <<setup, closed, buffer>>
    PROVE  BufferInv' /\ LineInv'
  <1>1. BufferInv'
    BY DEF BufferInv, buffer
  <1>2. Line' = Line /\ accepted' = accepted /\ stored' = stored
    BY DEF Line, buffer
  <1> QED BY <1>1, <1>2, SameLine

-----------------------------------------------------------------------------
(* The steps of the jobs and of the database.                               *)

LEMMA PermitTypes ==
    ASSUME setup \in WorkSetups, NEW j \in Jobs
    PROVE  PriorityOf(j) \in Priorities
  BY DEF PriorityOf, Priorities

LEMMA JobSteps ==
    ASSUME HealthInv, NEW j \in Jobs, Granted(j) \/ Deferred(j) \/ JobEnds(j)
    PROVE  HealthInv' /\ UNCHANGED <<quiet, buffer>>
  <1>1. /\ health \in Health /\ failures \in Nat /\ health.failureStreak \in Nat
        /\ setup \in WorkSetups /\ backoff \subseteq Jobs \cup {Writer}
        /\ job \in [Jobs -> Priorities \cup {"rest"}] /\ cache \in {"none", "new", "old"}
    BY DEF HealthInv, Health
  <1>2. PICK n \in Health : n = Noted(health, total) /\ n.failureStreak = health.failureStreak
    BY <1>1, NotedHealth
  <1>3. CASE Granted(j)
    <2>1. PriorityOf(j) \in Priorities
      BY <1>1, PermitTypes
    <2>2. /\ job' = [job EXCEPT ![j] = PriorityOf(j)] /\ health' = n
          /\ backoff' \subseteq backoff /\ UNCHANGED <<quiet, failures, cache, buffer>>
      BY <1>2, <1>3 DEF Granted, Passed
    <2>3. job' \in [Jobs -> Priorities \cup {"rest"}]
      BY <1>1, <2>1, <2>2
    <2>4. health'.failureStreak + failures' <= health.failureStreak + failures
      BY <1>1, <1>2, <2>2
    <2> QED BY <1>1, <2>2, <2>3, <2>4, HealthStep DEF quiet
  <1>4. CASE Deferred(j)
    <2>1. /\ backoff' = backoff \cup {j} /\ UNCHANGED <<quiet, failures, job, cache, buffer>>
          /\ health' \in {n, Reported(n, cache)}
      BY <1>2, <1>4 DEF Deferred
    <2>2. health' \in Health /\ health'.failureStreak = health.failureStreak
      BY <1>2, <2>1, ReportedHealth
    <2>3. health'.failureStreak + failures' <= health.failureStreak + failures
      BY <1>1, <2>1, <2>2
    <2> QED BY <1>1, <2>1, <2>2, <2>3, HealthStep DEF quiet
  <1>5. CASE Succeeds(j)
    <2>1. PICK m \in Health : /\ m = markMongoHealthy(health, total)
                              /\ m.failureStreak <= health.failureStreak
      BY <1>1, HealthyHealth
    <2>2. /\ job' = [job EXCEPT ![j] = "rest"] /\ backoff' = backoff \ {j}
          /\ cache' \in {"new", cache} /\ UNCHANGED <<quiet, failures, buffer>>
          /\ health' \in {m, Reported(m, "new")}
      BY <1>5, <2>1 DEF Succeeds
    <2>3. health' \in Health /\ health'.failureStreak = m.failureStreak
      BY <2>1, <2>2, ReportedHealth
    <2>4. health'.failureStreak + failures' <= health.failureStreak + failures
      <3>1. m.failureStreak \in Nat
        BY <2>1 DEF Health
      <3> QED BY <1>1, <2>1, <2>2, <2>3, <3>1
    <2>5. job' \in [Jobs -> Priorities \cup {"rest"}]
      BY <1>1, <2>2
    <2> QED BY <1>1, <2>2, <2>3, <2>4, <2>5, HealthStep DEF quiet
  <1>6. CASE Fails(j)
    <2>1. PICK m \in Health : /\ m = markMongoDegraded(health, total)
                              /\ m.failureStreak = health.failureStreak + 1
      BY <1>1, DegradedHealth
    <2>2. /\ job' = [job EXCEPT ![j] = "rest"] /\ backoff' = backoff \cup {j}
          /\ failures > 0 /\ failures' = failures - 1 /\ UNCHANGED <<quiet, cache, buffer>>
          /\ health' \in {m, Reported(m, cache)}
      BY <1>6, <2>1 DEF Fails
    <2>3. health' \in Health /\ health'.failureStreak = m.failureStreak
      BY <2>1, <2>2, ReportedHealth
    <2>4. failures' \in Nat /\ health'.failureStreak + failures' <= health.failureStreak + failures
      BY <1>1, <2>1, <2>2, <2>3
    <2>5. job' \in [Jobs -> Priorities \cup {"rest"}]
      BY <1>1, <2>2
    <2> QED BY <1>1, <2>2, <2>3, <2>4, <2>5, HealthStep DEF quiet
  <1>7. CASE FailsOtherwise(j)
    <2>1. /\ job' = [job EXCEPT ![j] = "rest"] /\ backoff' \subseteq backoff
          /\ failures > 0 /\ failures' = failures - 1 /\ UNCHANGED <<quiet, cache, buffer>>
          /\ health' \in {health, Reported(health, "none")}
      BY <1>7 DEF FailsOtherwise
    <2>2. health' \in Health /\ health'.failureStreak = health.failureStreak
      BY <1>1, <2>1, ReportedHealth
    <2>3. failures' \in Nat /\ health'.failureStreak + failures' <= health.failureStreak + failures
      BY <1>1, <2>1, <2>2
    <2>4. job' \in [Jobs -> Priorities \cup {"rest"}]
      BY <1>1, <2>1
    <2> QED BY <1>1, <2>1, <2>2, <2>3, <2>4, HealthStep DEF quiet
  <1>8. HealthInv'
    BY <1>3, <1>4, <1>5, <1>6, <1>7 DEF JobEnds
  <1>9. UNCHANGED <<quiet, buffer>>
    BY DEF Granted, Deferred, JobEnds, Succeeds, Fails, FailsOtherwise
  <1> QED BY <1>8, <1>9

LEMMA DatabaseSteps ==
    ASSUME HealthInv, DriverFails \/ CalmComes \/ CacheAges
    PROVE  HealthInv' /\ UNCHANGED <<quiet, buffer>>
  <1>1. /\ health \in Health /\ failures \in Nat /\ health.failureStreak \in Nat
        /\ backoff \subseteq Jobs \cup {Writer}
        /\ job \in [Jobs -> Priorities \cup {"rest"}] /\ cache \in {"none", "new", "old"}
    BY DEF HealthInv, Health
  <1>2. CASE DriverFails
    <2>1. health' = markMongoDegraded(health, total) /\ failures > 0 /\ failures' = failures - 1
          /\ UNCHANGED <<quiet, backoff, job, cache, buffer>>
      BY <1>2 DEF DriverFails
    <2>2. health' \in Health /\ health'.failureStreak = health.failureStreak + 1
      BY <1>1, <2>1, DegradedHealth
    <2>3. failures' \in Nat /\ health'.failureStreak + failures' <= health.failureStreak + failures
      BY <1>1, <2>1, <2>2
    <2> QED BY <1>1, <2>1, <2>2, <2>3, HealthStep DEF quiet
  <1>3. CASE CalmComes
    <2>1. health' = [health EXCEPT !.calm = TRUE]
          /\ UNCHANGED <<quiet, failures, backoff, job, cache, buffer>>
      BY <1>3 DEF CalmComes
    <2>2. health' \in Health /\ health'.failureStreak = health.failureStreak
      BY <1>1, <2>1 DEF Health
    <2>3. health'.failureStreak + failures' <= health.failureStreak + failures
      BY <1>1, <2>1, <2>2
    <2> QED BY <1>1, <2>1, <2>2, <2>3, HealthStep DEF quiet
  <1>4. CASE CacheAges
    <2>1. cache' = "old" /\ UNCHANGED <<quiet, failures, health, backoff, job, buffer>>
      BY <1>4 DEF CacheAges
    <2>2. health'.failureStreak + failures' <= health.failureStreak + failures
      BY <1>1, <2>1
    <2> QED BY <1>1, <2>1, <2>2, HealthStep DEF quiet
  <1> QED BY <1>2, <1>3, <1>4

-----------------------------------------------------------------------------
(* The steps of the candles.                                                *)

LEMMA ClosesHealth ==
    ASSUME HealthInv, NEW next, Closes(next)
    PROVE  HealthInv'
  <1>1. /\ health \in Health /\ failures \in Nat /\ health.failureStreak \in Nat
        /\ backoff \subseteq Jobs \cup {Writer}
        /\ job \in [Jobs -> Priorities \cup {"rest"}] /\ cache \in {"none", "new", "old"}
    BY DEF HealthInv, Health
  <1>2. UNCHANGED <<setup, failures, backoff, job, cache>>
    BY DEF Closes
  <1>3. PICK n \in {total, total + 1} : health' = Noted(health, n)
    BY DEF Closes, enqueue, Takes
  <1>4. health' \in Health /\ health'.failureStreak = health.failureStreak
    BY <1>1, <1>3, NotedHealth
  <1>5. health'.failureStreak + failures' <= health.failureStreak + failures
    BY <1>1, <1>2, <1>4
  <1> QED BY <1>1, <1>2, <1>4, <1>5, HealthStep

(* The candle that is closed: one of the behaviour's, and in its third      *)
(* version only after two late ticks.                                       *)
LEMMA ClosesCandle ==
    ASSUME IInv, NEW next, live # 0, Closes(next),
           closed[live] <= 2, setup.late <= 1 => closed[live] <= 1
    PROVE  /\ live \in Candles /\ closed' = [closed EXCEPT ![live] = @ + 1]
           /\ HealthInv' /\ BufferInv' /\ LineInv'
  <1>1. /\ setup \in WorkSetups /\ live \in Nat /\ clock \in Nat /\ live <= clock
        /\ IF setup.candles = 0 THEN clock = 1 ELSE clock <= setup.candles
        /\ live > 0 => setup.candles > 0
        /\ closed \in [Candles -> Nat]
    BY DEF IInv, HealthInv, ClockInv
  <1>2. live \in Candles
    BY <1>1, SetupType DEF Candles
  <1>3. PICK e : e = [key |-> live, v |-> closed[live] + 1]
    OBVIOUS
  <1>4. e \in Entry /\ e.key = live /\ e.v = closed[live] + 1
    <2>1. closed[live] + 1 \in 1 .. 3
      BY <1>1, <1>2
    <2> QED BY <1>2, <1>3, <2>1 DEF Entry
  <1>5. Closing(e)
    BY <1>3, <1>4 DEF Closes, Closing
  <1>6. setup' = setup
    BY DEF Closes
  <1>7. BufferInv'
    BY <1>5, EnqueueBuffer DEF IInv
  <1>8. LineInv'
    <2>1. CASE setup.late <= 1
      <3>1. e.v <= 2
        BY <1>1, <1>2, <1>4, <2>1
      <3> QED BY <1>5, <2>1, <3>1, EnqueueLine DEF IInv
    <2>2. CASE ~(setup.late <= 1)
      BY <1>6, <2>2 DEF LineInv
    <2> QED BY <2>1, <2>2
  <1>9. HealthInv'
    BY ClosesHealth DEF IInv
  <1> QED BY <1>2, <1>7, <1>8, <1>9 DEF Closes

LEMMA CandleSteps ==
    ASSUME IInv, NextBucket \/ Tick \/ LateTick
    PROVE  IInv'
  <1>1. /\ setup \in WorkSetups /\ late \in 0 .. setup.late /\ setup.late \in 0 .. 2
        /\ clock \in Nat \ {0} /\ setup.candles \in Nat
        /\ IF setup.candles = 0 THEN clock = 1 ELSE clock <= setup.candles
        /\ live \in 0 .. clock /\ (live > 0 => setup.candles > 0)
        /\ closed \in [Candles -> Nat]
        /\ Used = setup.late - late /\ Used \in 0 .. 2
        /\ \A k \in Candles : k \in Nat /\ closed[k] <= Used + IF k < live THEN 1 ELSE 0
    BY SetupType DEF IInv, HealthInv, ClockInv, Used, Candles
  <1>2. live # 0 => live \in Candles
    BY <1>1, SetupType DEF Candles
  <1>3. CASE NextBucket
    <2>1. /\ clock < setup.candles /\ live \in {0, clock} /\ clock' = clock + 1
          /\ UNCHANGED <<setup, late, live, closed, failures, health, backoff, job, cache, buffer>>
      BY <1>3 DEF NextBucket
    <2>2. ClockInv'
      BY <1>1, <2>1 DEF ClockInv, Used
    <2>3. HealthInv'
      BY <2>1 DEF IInv, HealthInv
    <2> QED BY <2>1, <2>2, <2>3, BufferFrame DEF IInv
  <1>4. CASE /\ live = 0 /\ setup.candles > 0 /\ live' = clock
             /\ UNCHANGED <<setup, late, clock, closed, failures, health, backoff, job, cache, buffer>>
    <2>1. ASSUME NEW k \in Candles PROVE closed[k] <= Used + IF k < clock THEN 1 ELSE 0
      <3>1. closed[k] <= Used /\ closed[k] \in Nat /\ Used \in Nat
        BY <1>1, <1>4
      <3> QED BY <3>1
    <2>2. ClockInv'
      BY <1>1, <1>4, <2>1 DEF ClockInv, Used
    <2>3. HealthInv'
      BY <1>4 DEF IInv, HealthInv
    <2> QED BY <1>4, <2>2, <2>3, BufferFrame DEF IInv
  <1>5. CASE live # 0 /\ live = clock - 1 /\ Closes(clock) /\ UNCHANGED late
    <2>1. closed[live] <= Used /\ closed[live] \in Nat /\ Used <= setup.late
      BY <1>1, <1>2, <1>5
    <2>2. closed[live] <= 2 /\ (setup.late <= 1 => closed[live] <= 1)
      <3>1. Used \in Nat /\ setup.late \in Nat /\ setup.late <= 2
        BY <1>1
      <3> QED BY <2>1, <3>1
    <2>3. closed' = [closed EXCEPT ![live] = @ + 1] /\ HealthInv' /\ BufferInv' /\ LineInv'
      BY <1>5, <2>2, ClosesCandle
    <2>4. setup' = setup /\ clock' = clock /\ live' = clock /\ late' = late
      BY <1>5 DEF Closes
    <2>5. ASSUME NEW k \in Candles PROVE closed'[k] <= Used + IF k < clock THEN 1 ELSE 0
      <3>1. CASE k = live
        BY <1>1, <1>5, <2>1, <2>3, <3>1
      <3>2. CASE k # live
        BY <1>1, <1>5, <2>3, <3>2
      <3> QED BY <3>1, <3>2
    <2>6. closed' \in [Candles -> Nat]
      <3>1. closed[live] + 1 \in Nat
        BY <2>1
      <3> QED BY <1>1, <2>3, <3>1
    <2>7. ClockInv'
      BY <1>1, <1>5, <2>4, <2>5, <2>6 DEF ClockInv, Used
    <2> QED BY <2>3, <2>7 DEF IInv
  <1>6. CASE LateTick
    <2>1. /\ late > 0 /\ live = clock /\ clock > 1 /\ late' = late - 1 /\ Closes(clock - 1)
          /\ live # 0
      BY <1>1, <1>6 DEF LateTick
    <2>2. closed[live] <= Used /\ closed[live] \in Nat /\ Used < setup.late
      BY <1>1, <1>2, <2>1
    <2>3. closed[live] <= 2 /\ (setup.late <= 1 => closed[live] <= 1)
      BY <1>1, <2>2
    <2>4. closed' = [closed EXCEPT ![live] = @ + 1] /\ HealthInv' /\ BufferInv' /\ LineInv'
      BY <2>1, <2>3, ClosesCandle
    <2>5. setup' = setup /\ clock' = clock /\ live' = clock - 1
      BY <2>1 DEF Closes
    <2>6. ASSUME NEW k \in Candles
          PROVE  closed'[k] <= (setup.late - (late - 1)) + IF k < clock - 1 THEN 1 ELSE 0
      <3>1. CASE k = live
        BY <1>1, <2>1, <2>2, <2>4, <3>1
      <3>2. CASE k # live
        BY <1>1, <2>1, <2>4, <3>2
      <3> QED BY <3>1, <3>2
    <2>7. closed' \in [Candles -> Nat]
      <3>1. closed[live] + 1 \in Nat
        BY <2>2
      <3> QED BY <1>1, <2>4, <3>1
    <2>8. ClockInv'
      BY <1>1, <2>1, <2>5, <2>6, <2>7 DEF ClockInv, Used
    <2> QED BY <2>4, <2>8 DEF IInv
  <1> QED BY <1>3, <1>4, <1>5, <1>6 DEF Tick

-----------------------------------------------------------------------------
(* The steps of a flush.                                                    *)

LEMMA FlushAsks ==
    ASSUME HealthInv, ClockInv, BufferInv, LineInv, FlushIdle \/ FlushGranted \/ FlushDeferred
    PROVE  HealthInv' /\ ClockInv' /\ BufferInv' /\ LineInv'
  <1>1. /\ health \in Health /\ failures \in Nat /\ health.failureStreak \in Nat
        /\ backoff \subseteq Jobs \cup {Writer}
        /\ job \in [Jobs -> Priorities \cup {"rest"}] /\ cache \in {"none", "new", "old"}
    BY DEF HealthInv, Health
  <1>2. health' = Noted(health, total)
    BY DEF FlushIdle, FlushGranted, FlushDeferred
  <1>3. health' \in Health /\ health'.failureStreak = health.failureStreak
    BY <1>1, <1>2, NotedHealth
  <1>4. UNCHANGED <<quiet, failures, job, cache, buf, batch, total, accepted, stored>>
    BY DEF FlushIdle, FlushGranted, FlushDeferred, buffer
  <1>5. backoff' \subseteq backoff \cup Jobs \cup {Writer}
    BY DEF FlushIdle, FlushGranted, FlushDeferred, Passed
  <1>6. health'.failureStreak + failures' <= health.failureStreak + failures
    BY <1>1, <1>3, <1>4
  <1>7. HealthInv' /\ ClockInv'
    BY <1>1, <1>3, <1>4, <1>5, <1>6, HealthStep, ClockFrame DEF quiet
  <1>8. flushes' \in 0 .. 2 /\ flushes' >= flushes
    <2>1. flushes \in 0 .. 2
      BY DEF BufferInv
    <2>2. CASE FlushGranted
      <3> DEFINE C == {j \in Jobs : job[j] = "important"}
      <3>1. IsFiniteSet(Jobs)
        <4>1. Jobs = ((({} \cup {"reconcile"}) \cup {"token_watcher"}) \cup {"socket_status"})
                        \cup {"notifications_outbox"}
          BY DEF Jobs
        <4>2. IsFiniteSet({} \cup {"reconcile"})
          BY FS_EmptySet, FS_AddElement
        <4>3. IsFiniteSet(({} \cup {"reconcile"}) \cup {"token_watcher"})
          BY <4>2, FS_AddElement
        <4>4. IsFiniteSet((({} \cup {"reconcile"}) \cup {"token_watcher"}) \cup {"socket_status"})
          BY <4>3, FS_AddElement
        <4> QED BY <4>1, <4>4, FS_AddElement
      <3>2. PICK c \in Nat : c = Cardinality(C)
        BY <3>1, FS_Subset, FS_CardinalityType
      <3>3. PICK m : m = Noted(health, total)
        OBVIOUS
      <3>4. PICK most \in 0 .. 2 : most = priorityLimitForState(m.state, "important", FALSE)
        BY DEF priorityLimitForState
      <3>5. c + flushes < most
        BY <2>2, <3>2, <3>3, <3>4 DEF FlushGranted, HasPermit, inflightByPriority
      <3>6. flushes' = flushes + 1
        BY <2>2 DEF FlushGranted
      <3> QED BY <2>1, <3>5, <3>6
    <2>3. CASE FlushIdle \/ FlushDeferred
      <3>1. flushes' = flushes
        BY <2>3 DEF FlushIdle, FlushDeferred, buffer
      <3> QED BY <2>1, <3>1
    <2> QED BY <2>2, <2>3
  <1>9. BufferInv'
    <2>1. flushes \in 0 .. 2
      BY DEF BufferInv
    <2> QED BY <1>4, <1>8, <2>1 DEF BufferInv, quiet
  <1>10. LineInv'
    BY <1>4, SameLine DEF Line, quiet
  <1> QED BY <1>7, <1>9, <1>10

LEMMA TakesBatchHealth ==
    ASSUME HealthInv, NEW m \in Health, NEW n, m.failureStreak = health.failureStreak,
           TakesBatch(m, n), UNCHANGED <<setup, failures, job, cache>>
    PROVE  HealthInv'
  <1>1. /\ health \in Health /\ failures \in Nat /\ health.failureStreak \in Nat
        /\ backoff \subseteq Jobs \cup {Writer}
        /\ job \in [Jobs -> Priorities \cup {"rest"}] /\ cache \in {"none", "new", "old"}
    BY DEF HealthInv, Health
  <1>2. health' \in {m, markMongoHealthy(m, n)} /\ backoff' \subseteq backoff
    BY DEF TakesBatch
  <1>3. health' \in Health /\ health'.failureStreak <= m.failureStreak
    BY <1>1, <1>2, HealthyHealth
  <1>4. health'.failureStreak + failures' <= health.failureStreak + failures
    <2>1. health'.failureStreak \in Nat
      BY <1>3 DEF Health
    <2> QED BY <1>1, <1>3, <2>1
  <1> QED BY <1>1, <1>2, <1>3, <1>4, HealthStep

LEMMA TakesBatchBuffer ==
    ASSUME BufferInv, NEW m, NEW n, TakesBatch(m, n), flushes > 0,
           total' = Len(buf), UNCHANGED <<closed, accepted>>
    PROVE  BufferInv'
  <1>1. /\ buf \in Seq(Entry) /\ Len(buf) \in Nat /\ Len(batch) \in Nat /\ flushes \in 0 .. 2
        /\ total = Len(buf) + Len(batch) /\ total <= MAX_BACKLOG /\ MAX_BACKLOG \in Nat
    BY WorkAssumption, LenProperties DEF BufferInv
  <1>2. IF buf = <<>> THEN flushes' = flushes - 1 ELSE flushes' = flushes
    BY DEF TakesBatch
  <1>3. flushes' \in 0 .. 2 /\ (batch' # <<>> => flushes' > 0)
    BY <1>1, <1>2, BatchIsCut
  <1>4. /\ buf' \in Seq(Entry) /\ batch' \in Seq(Entry)
        /\ Len(buf') + Len(batch') = Len(buf)
    BY BatchIsCut
  <1>5. total' = Len(buf') + Len(batch') /\ total' <= MAX_BACKLOG
    BY <1>1, <1>4
  <1> QED BY <1>3, <1>4, <1>5 DEF BufferInv

LEMMA FlushLoops ==
    ASSUME IInv, FlushBegins \/ FlushWrites
    PROVE  IInv'
  <1>1. HealthInv /\ ClockInv /\ BufferInv /\ LineInv
    BY DEF IInv
  <1>2. /\ health \in Health /\ buf \in Seq(Entry) /\ Len(buf) \in Nat /\ Len(batch) \in Nat
        /\ total = Len(buf) + Len(batch) /\ flushes \in 0 .. 2
        /\ (batch # <<>> => flushes > 0)
    BY <1>1, LenProperties DEF HealthInv, BufferInv
  <1>3. CASE FlushBegins
    <2>1. /\ flushes > 0 /\ batch = <<>> /\ TakesBatch(health, total)
          /\ UNCHANGED <<quiet, failures, job, cache, total, accepted, stored>>
      BY <1>3 DEF FlushBegins
    <2>2. HealthInv' /\ ClockInv'
      BY <1>1, <1>2, <2>1, TakesBatchHealth, ClockFrame DEF quiet
    <2>3. total' = Len(buf)
      <3>1. Len(batch) = 0
        BY <2>1
      <3> QED BY <1>2, <2>1, <3>1
    <2>4. BufferInv'
      BY <1>1, <2>1, <2>3, TakesBatchBuffer DEF quiet
    <2>5. Line' = Line
      <3>1. Line = buf
        BY <1>2, <2>1, ConcatEmptySeq DEF Line
      <3> QED BY <1>1, <2>1, <3>1, BatchIsCut
    <2>6. LineInv'
      BY <1>1, <2>1, <2>5, SameLine DEF quiet
    <2> QED BY <2>2, <2>4, <2>6 DEF IInv
  <1>4. CASE FlushWrites
    <2>1. PICK n : /\ n = total - Len(batch) /\ total' = n
                   /\ TakesBatch(Noted(health, n), n)
      BY <1>4 DEF FlushWrites
    <2>2. /\ batch # <<>> /\ stored' = Upserted(DOMAIN batch)
          /\ UNCHANGED <<quiet, failures, job, cache, accepted>>
      BY <1>4 DEF FlushWrites
    <2>3. HealthInv' /\ ClockInv'
      <3>1. Noted(health, n) \in Health /\ Noted(health, n).failureStreak = health.failureStreak
        BY <1>2, NotedHealth
      <3> QED BY <1>1, <2>1, <2>2, <3>1, TakesBatchHealth, ClockFrame DEF quiet
    <2>4. total' = Len(buf)
      BY <1>2, <2>1
    <2>5. BufferInv'
      BY <1>1, <1>2, <2>1, <2>2, <2>4, TakesBatchBuffer DEF quiet
    <2>6. LineInv'
      BY <1>1, <2>1, <2>2, BatchIsCut, WrittenLine DEF quiet
    <2> QED BY <2>3, <2>5, <2>6 DEF IInv
  <1> QED BY <1>3, <1>4

LEMMA FlushEndsBadly ==
    ASSUME IInv, NEW written \in SUBSET DOMAIN batch,
           FlushFails(written) \/ FlushFailsOtherwise(written)
    PROVE  IInv'
  <1>1. HealthInv /\ ClockInv /\ BufferInv /\ LineInv
    BY DEF IInv
  <1>2. /\ health \in Health /\ failures \in Nat /\ health.failureStreak \in Nat
        /\ backoff \subseteq Jobs \cup {Writer}
        /\ job \in [Jobs -> Priorities \cup {"rest"}] /\ cache \in {"none", "new", "old"}
    BY <1>1 DEF HealthInv, Health
  <1>3. /\ batch # <<>> /\ failures > 0 /\ failures' = failures - 1
        /\ stored' = Upserted(written) /\ buf' = batch \o buf /\ batch' = <<>>
        /\ flushes' = flushes - 1
        /\ UNCHANGED <<quiet, job, cache, total, accepted>>
    BY DEF FlushFails, FlushFailsOtherwise, PutBack
  <1>4. HealthInv'
    <2>1. PICK n \in Health : n = Noted(health, total) /\ n.failureStreak = health.failureStreak
      BY <1>2, NotedHealth
    <2>2. health' \in {n, markMongoDegraded(n, total)} /\ backoff' \subseteq backoff \cup {Writer}
      BY <2>1 DEF FlushFails, FlushFailsOtherwise
    <2>3. health' \in Health /\ health'.failureStreak <= health.failureStreak + 1
      BY <1>2, <2>1, <2>2, DegradedHealth
    <2>4. failures' \in Nat /\ health'.failureStreak + failures' <= health.failureStreak + failures
      <3>1. health'.failureStreak \in Nat
        BY <2>3 DEF Health
      <3> QED BY <1>2, <1>3, <2>3, <3>1
    <2> QED BY <1>1, <1>2, <1>3, <2>2, <2>3, <2>4, HealthStep DEF quiet
  <1>5. ClockInv'
    BY <1>1, <1>3, ClockFrame
  <1>6. BufferInv'
    <2>1. /\ buf \in Seq(Entry) /\ batch \in Seq(Entry) /\ Len(buf) \in Nat /\ Len(batch) \in Nat
          /\ total = Len(buf) + Len(batch) /\ flushes \in 0 .. 2 /\ flushes > 0
      BY <1>1, <1>3, LenProperties DEF BufferInv
    <2>2. buf' \in Seq(Entry) /\ Len(buf') = Len(batch) + Len(buf)
      BY <1>3, <2>1, ConcatProperties
    <2>3. batch' \in Seq(Entry) /\ Len(batch') = 0
      BY <1>3
    <2>4. total' = Len(buf') + Len(batch') /\ flushes' \in 0 .. 2
      BY <1>3, <2>1, <2>2, <2>3
    <2> QED BY <1>1, <1>3, <2>2, <2>3, <2>4 DEF BufferInv, quiet
  <1>7. Line' = Line
    BY <1>1, <1>3, PutBackKeepsLine
  <1>8. ASSUME NEW k \in Candles, ~Waits(k, Line) PROVE stored'[k] = stored[k]
    <2>1. ASSUME NEW i \in 1 .. Len(batch) PROVE batch[i].key # k
      <3>1. Line[i] = batch[i] /\ i \in 1 .. Len(Line)
        <4>1. Len(Line) = Len(buf) + Len(batch) /\ Len(buf) \in Nat /\ Len(batch) \in Nat
          BY <1>1, LineLen DEF BufferInv
        <4> QED BY <1>1, <4>1, LineLen
      <3> QED BY <1>8, <3>1 DEF Waits
    <2> QED BY <1>1, <1>3, <2>1, UpsertedOthers DEF BufferInv
  <1>9. LineInv'
    BY <1>1, <1>3, <1>7, <1>8, SameLine DEF quiet
  <1> QED BY <1>4, <1>5, <1>6, <1>9 DEF IInv

-----------------------------------------------------------------------------
(* The invariant.                                                           *)

LEMMA InitIInv == InitWork => IInv
  <1> SUFFICES ASSUME InitWork PROVE IInv
    OBVIOUS
  <1>1. /\ setup.late \in 0 .. 2 /\ setup.failures \in Nat /\ setup.candles \in Nat
        /\ MAX_BACKLOG \in Nat \ {0}
    BY SetupType, WorkAssumption DEF InitWork
  <1>2. HealthInv
    BY <1>1 DEF InitWork, HealthInv, Health, States
  <1>3. ClockInv
    BY <1>1 DEF InitWork, ClockInv, Used
  <1>4. BufferInv
    BY <1>1 DEF InitWork, BufferInv
  <1>5. LineInv
    <2>1. Len(Line) = 0
      BY ConcatEmptySeq DEF InitWork, Line
    <2> QED BY <2>1 DEF InitWork, LineInv, Ordered, Waits
  <1> QED BY <1>2, <1>3, <1>4, <1>5 DEF IInv

LEMMA NextIInv == IInv /\ [NextWork]_workVars => IInv'
  <1> SUFFICES ASSUME IInv, [NextWork]_workVars PROVE IInv'
    OBVIOUS
  <1>1. HealthInv /\ ClockInv /\ BufferInv /\ LineInv
    BY DEF IInv
  <1>2. ASSUME HealthInv', UNCHANGED <<quiet, buffer>> PROVE IInv'
    BY <1>1, <1>2, ClockFrame, BufferFrame DEF IInv, quiet
  <1>3. ASSUME NEW j \in Jobs, Granted(j) \/ Deferred(j) \/ JobEnds(j) PROVE IInv'
    BY <1>1, <1>2, <1>3, JobSteps
  <1>4. CASE DriverFails \/ CalmComes \/ CacheAges
    BY <1>1, <1>2, <1>4, DatabaseSteps
  <1>5. CASE NextBucket \/ Tick \/ LateTick
    BY <1>5, CandleSteps
  <1>6. CASE FlushIdle \/ FlushGranted \/ FlushDeferred
    BY <1>1, <1>6, FlushAsks DEF IInv
  <1>7. CASE FlushBegins \/ FlushWrites
    BY <1>7, FlushLoops
  <1>8. ASSUME NEW written \in SUBSET DOMAIN batch,
               FlushFails(written) \/ FlushFailsOtherwise(written)
        PROVE  IInv'
    BY <1>8, FlushEndsBadly
  <1>9. CASE UNCHANGED workVars
    <2>1. HealthInv'
      BY <1>1, <1>9 DEF HealthInv, workVars
    <2> QED BY <1>2, <1>9, <2>1 DEF workVars, quiet
  <1> QED BY <1>3, <1>4, <1>5, <1>6, <1>7, <1>8, <1>9 DEF NextWork, FlushStep

LEMMA Invariance == SpecWork => []IInv
  BY InitIInv, NextIInv, PTL DEF SpecWork

(* Types, and the limit of the buffer (candleWriteBuffer.js): for any       *)
(* limits, batches and circumstances no burst of candles, failing flush or  *)
(* overflow makes the buffer hold more than MAX_BACKLOG, and no more than   *)
(* two flushes ever hold a permit.                                          *)
THEOREM WorkTypeCorrect == SpecWork => []WorkTypeOK
  <1>1. IInv => WorkTypeOK
    <2> SUFFICES ASSUME IInv PROVE WorkTypeOK
      OBVIOUS
    <2>1. HealthInv /\ ClockInv /\ BufferInv
      BY DEF IInv
    <2>2. /\ setup.failures \in Nat /\ setup.failures <= MaxFailures /\ setup.candles \in Nat
          /\ setup.candles <= MaxCandle /\ MaxCandle \in Nat /\ MaxFailures \in Nat
      BY <2>1, SetupType DEF HealthInv
    <2>3. health \in Health /\ health.failureStreak \in Nat /\ failures \in Nat
          /\ health.failureStreak + failures <= setup.failures
      BY <2>1 DEF HealthInv, Health
    <2>4. health.failureStreak \in 0 .. MaxFailures /\ failures \in 0 .. setup.failures
      BY <2>2, <2>3
    <2>5. health \in [state : States, failureStreak : 0 .. MaxFailures, recoveryStreak : 0 .. 3,
                      calm : BOOLEAN, stale : BOOLEAN]
      BY <2>3, <2>4 DEF Health
    <2>6. /\ clock \in Nat \ {0} /\ IF setup.candles = 0 THEN clock = 1 ELSE clock <= setup.candles
          /\ live \in 0 .. clock /\ (live > 0 => setup.candles > 0)
      BY <2>1 DEF ClockInv
    <2>7. clock \in 1 .. MaxCandle + 1 /\ live \in 0 .. MaxCandle
      BY <2>2, <2>6
    <2>8. /\ \A i \in DOMAIN buf : buf[i] \in Entry
          /\ \A i \in DOMAIN batch : batch[i] \in Entry
      BY <2>1, ElementOfSeq, LenProperties DEF BufferInv
    <2>9. total \in 0 .. MAX_BACKLOG
      BY <2>1, WorkAssumption, LenProperties DEF BufferInv
    <2> QED BY <2>1, <2>4, <2>5, <2>7, <2>8, <2>9 DEF WorkTypeOK, HealthInv, ClockInv, BufferInv
  <1> QED BY <1>1, Invariance, PTL

(* What candleWriteBuffer.js promises of the candles it takes: one that     *)
(* enqueue accepted is in the database or still waits, in its newest        *)
(* version, and totalBuffered is the number of those that wait.             *)
THEOREM AcceptedCandlesAreKept == SpecWork => []CandlesAreKept
  <1>1. IInv => CandlesAreKept
    <2> SUFFICES ASSUME IInv PROVE CandlesAreKept
      OBVIOUS
    <2>1. BufferInv /\ LineInv
      BY DEF IInv
    <2>2. ASSUME setup.late <= 1, NEW k \in Candles
          PROVE  accepted[k] \in {0, stored[k]} \/ [key |-> k, v |-> accepted[k]] \in Waiting
      <3>1. PICK s \in Seq(Entry) : s = Line
        BY <2>1, LineLen
      <3>2. CASE Waits(k, s)
        <4>1. PICK i \in 1 .. Len(s) : s[i] = [key |-> k, v |-> accepted[k]]
          BY <2>1, <2>2, <3>1, <3>2, KeptLine DEF Kept, Newest
        <4>2. \/ i \in 1 .. Len(batch)
              \/ i - Len(batch) \in 1 .. Len(buf) /\ s[i] = buf[i - Len(batch)]
          BY <2>1, <3>1, LineLen
        <4>3. i \in 1 .. Len(batch) => s[i] = batch[i]
          BY <2>1, <3>1, LineLen
        <4>4. DOMAIN batch = 1 .. Len(batch) /\ DOMAIN buf = 1 .. Len(buf)
          BY <2>1, LenProperties DEF BufferInv
        <4> QED BY <4>1, <4>2, <4>3, <4>4 DEF Waiting
      <3>3. CASE ~Waits(k, s)
        BY <2>1, <2>2, <3>1, <3>3, KeptLine
      <3> QED BY <3>2, <3>3
    <2> QED BY <2>1, <2>2 DEF CandlesAreKept, BufferInv
  <1> QED BY <1>1, Invariance, PTL
=============================================================================
