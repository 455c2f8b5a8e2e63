---------------------------- MODULE PeerJobProofs ----------------------------
(***************************************************************************)
(* Proofs about PeerBroadcast and PeerJob for any number of targets, slots *)
(* and tries: first about a broadcast alone, then about the whole job of a *)
(* committee member, for which all of it holds as well.                    *)
(***************************************************************************)
EXTENDS PeerJob, FiniteSetTheorems, TLAPS

----------------------------------------------------------------------------
(* A broadcast: the inductive invariant, in parts *)

\* The types, without the bound on the goroutines.
Types ==
  /\ pc \in {"loop", "wait", "returned"} /\ spawned \in 0 .. Last
  /\ job \in [Targets -> {"idle", "ready", "waiting", "backoff", "acked",
                          "failed"}]
  /\ tries \in [Targets -> 0 .. Tries]
  /\ lastErr \in [Targets -> ErrorKinds \cup {"none"}]
  /\ firstErr \in ErrorKinds \cup {"none"}
  /\ request \in [Targets -> [Attempts ->
                   {"none", "travels", "checked", "stored", "dropped"}]]
  /\ expired \in BOOLEAN /\ sealed \subseteq Targets /\ messagesSent \in Nat
  /\ result \in ErrorKinds \cup {"none", "ok"}

\* A goroutine is in the retry loop only while it has tries left, and its
\* failed attempts have an error to return.
TriesCounted ==
  \A t \in Targets :
    /\ job[t] \in {"idle", "ready"} => tries[t] < Tries
    /\ job[t] \in {"waiting", "backoff"} => tries[t] \in Attempts
    /\ job[t] = "backoff" => lastErr[t] \in ErrorKinds

\* The loop starts the goroutines one after the other, all of them before it
\* waits, and Broadcast returns after the last one.
Order ==
  /\ \A t \in Targets : job[t] = "idle" <=> t > spawned
  /\ pc # "loop" => spawned = Last
  /\ pc = "returned" => Running = {}
  /\ result # "none" <=> pc = "returned"

\* No target seals before that, so no request is dropped before that.
SealLast ==
  /\ sealed # {} => pc = "returned"
  /\ \A t \in Targets, i \in Attempts :
       request[t][i] = "dropped" => pc = "returned"

\* What the end of a goroutine says.
Verdicts ==
  /\ \A t \in Targets : job[t] = "acked" => Stored(t) # {}
  /\ \A t \in Targets : job[t] = "failed" => firstErr # "none"
  /\ result = "ok" => firstErr = "none"

Inv == Types /\ TriesCounted /\ Order /\ SealLast /\ Verdicts

\* The invariant holds at the start.
LEMMA InvInit == Init => Inv
BY SizesAssumption
   DEF Init, Inv, Types, TriesCounted, Order, SealLast, Verdicts, Targets,
       Attempts, ErrorKinds, Running

\* A goroutine runs only before Broadcast returns.
LEMMA RunningBeforeReturn ==
  ASSUME Inv, NEW t \in Targets, job[t] \in {"ready", "waiting", "backoff"}
  PROVE  pc # "returned" /\ result = "none" /\ t <= spawned
<1>1. t \in Running
  BY DEF Running
<1>2. t \in Int /\ spawned \in Int
  BY DEF Inv, Types, Targets
<1> QED
  BY <1>1, <1>2 DEF Inv, Order, Types

\* A goroutine that ends with an error leaves it in the channel.
LEMMA FailKeeps ==
  ASSUME Inv, NEW t \in Targets, NEW kind \in ErrorKinds, Fail(t, kind),
         job[t] \in {"ready", "waiting", "backoff"},
         UNCHANGED <<pc, spawned, tries, lastErr, request, expired, sealed,
                     messagesSent, result>>
  PROVE  Inv'
<1>1. /\ job' = [job EXCEPT ![t] = "failed"]
      /\ firstErr' \in ErrorKinds \cup {"none"} /\ firstErr' # "none"
  BY DEF Fail, Inv, Types, ErrorKinds
<1>2. pc # "returned" /\ result = "none" /\ t <= spawned
  BY RunningBeforeReturn
<1>3. Types'
  BY <1>1 DEF Inv, Types
<1>4. TriesCounted'
  BY <1>1 DEF Inv, Types, TriesCounted
<1>5. Order'
  BY <1>1, <1>2 DEF Inv, Types, Order, Targets
<1>6. SealLast'
  BY DEF Inv, SealLast
<1>7. Verdicts'
  BY <1>1, <1>2 DEF Inv, Types, Verdicts, Stored
<1> QED
  BY <1>3, <1>4, <1>5, <1>6, <1>7 DEF Inv

\* A stored copy stays stored when the other requests move on.
LEMMA StoredStays ==
  ASSUME \A t \in Targets, i \in Attempts :
           request[t][i] = "stored" => request'[t][i] = "stored"
  PROVE  \A t \in Targets : Stored(t) # {} => Stored(t)' # {}
BY DEF Stored

\* Every step keeps the invariant.
LEMMA InvNext == Inv /\ [Next]_vars => Inv'
<1> SUFFICES ASSUME Inv, [Next]_vars PROVE Inv'
  OBVIOUS
<1> USE SizesAssumption
    DEF Inv, Types, TriesCounted, Order, SealLast, Verdicts, Running
<1>1. CASE Spawn
  <2>1. spawned + 1 \in Targets
    BY <1>1 DEF Spawn, Targets
  <2>2. Verdicts'
    BY <1>1 DEF Spawn, Stored
  <2> QED
    BY <1>1, <2>1, <2>2 DEF Spawn, Targets, Attempts
<1>2. CASE LoopEnds
  BY <1>2 DEF LoopEnds, Stored
<1>3. CASE Return
  <2>1. ASSUME NEW t \in Targets PROVE job[t] \in {"acked", "failed"}
    <3>1. t \notin Running /\ spawned = Last
      BY <1>3 DEF Return
    <3>2. ~(t > spawned)
      BY <3>1 DEF Targets
    <3> QED
      BY <3>1, <3>2
  <2> QED
    BY <1>3, <2>1 DEF Return, Stored, ErrorKinds
<1>4. ASSUME NEW t \in Targets, Attempt(t) PROVE Inv'
  <2>1. CASE expired /\ Fail(t, "missed")
    <3>1. "missed" \in ErrorKinds
      BY DEF ErrorKinds
    <3> QED
      BY <1>4, <2>1, <3>1, FailKeeps DEF Attempt
  <2>2. CASE ~expired
    <3>1. /\ job[t] = "ready" /\ tries[t] + 1 \in Attempts
          /\ tries' = [tries EXCEPT ![t] = @ + 1]
          /\ request' = [request EXCEPT ![t][tries[t] + 1] = "travels"]
          /\ job' = [job EXCEPT ![t] = "waiting"]
          /\ UNCHANGED <<pc, spawned, lastErr, firstErr, expired, sealed,
                         messagesSent, result>>
      BY <1>4, <2>2 DEF Attempt, Attempts, Fail
    <3>2. pc # "returned" /\ t <= spawned
      BY <3>1, RunningBeforeReturn
    <3>3. Types' /\ TriesCounted'
      BY <3>1 DEF Attempts
    <3>4. Order'
      BY <3>1, <3>2 DEF Targets
    <3>5. SealLast'
      BY <3>1, <3>2
    <3>6. \A u \in Targets : u # t => Stored(u)' = Stored(u)
      BY <3>1 DEF Stored
    <3>7. Verdicts'
      BY <3>1, <3>6
    <3> QED
      BY <3>3, <3>4, <3>5, <3>7
  <2> QED
    BY <1>4, <2>1, <2>2 DEF Attempt
<1>5. ASSUME NEW t \in Targets, Ack(t) PROVE Inv'
  <2>1. tries[t] \in Attempts /\ request[t][tries[t]] = "stored"
    BY <1>5 DEF Ack
  <2> QED
    BY <1>5, <2>1 DEF Ack, Stored, Targets
<1>6. ASSUME NEW t \in Targets, GiveUp(t) PROVE Inv'
  BY <1>6 DEF GiveUp, Stored, Targets
<1>7. ASSUME NEW t \in Targets, Backoff(t) PROVE Inv'
  <2>1. CASE \E kind \in ErrorKinds : Fail(t, kind)
    BY <1>7, <2>1, FailKeeps DEF Backoff
  <2>2. CASE tries[t] < Tries /\ job' = [job EXCEPT ![t] = "ready"]
               /\ UNCHANGED firstErr
    BY <1>7, <2>2 DEF Backoff, Stored, Targets
  <2> QED
    BY <1>7, <2>1, <2>2 DEF Backoff, ErrorKinds
<1>8. ASSUME NEW t \in Targets, NEW i \in Attempts, Check(t, i) PROVE Inv'
  <2>1. \A u \in Targets, j \in Attempts :
          request[u][j] = "stored" => request'[u][j] = "stored"
    BY <1>8 DEF Check
  <2>2. Verdicts'
    BY <1>8, <2>1, StoredStays DEF Check
  <2> QED
    BY <1>8, <2>2 DEF Check
<1>9. ASSUME NEW t \in Targets, NEW i \in Attempts, Append(t, i) PROVE Inv'
  <2>1. \A u \in Targets, j \in Attempts :
          request[u][j] = "stored" => request'[u][j] = "stored"
    BY <1>9 DEF Append
  <2>2. Verdicts'
    BY <1>9, <2>1, StoredStays DEF Append
  <2> QED
    BY <1>9, <2>2 DEF Append
<1>10. CASE Deadline
  BY <1>10 DEF Deadline, Stored
<1>11. ASSUME NEW t \in Targets, Seal(t) PROVE Inv'
  BY <1>11 DEF Seal, Stored
<1>12. CASE UNCHANGED vars
  BY <1>12 DEF vars, Stored
<1> QED
  BY <1>1, <1>2, <1>3, <1>4, <1>5, <1>6, <1>7, <1>8, <1>9, <1>10, <1>11, <1>12
     DEF Next, Sender, Handlers

\* The invariant holds throughout.
LEMMA InvHolds == Spec => []Inv
BY InvInit, InvNext, PTL DEF Spec

----------------------------------------------------------------------------
\* The invariant says it: a nil result leaves no goroutine running or failed.
LEMMA NilStored == Inv => NilMeansStored
<1> SUFFICES ASSUME Inv, result = "ok", NEW t \in Targets
             PROVE  Stored(t) # {}
  BY DEF NilMeansStored
<1>1. job[t] # "idle" /\ t \notin Running /\ firstErr = "none"
  BY DEF Inv, Order, Verdicts, Types, Targets
<1> QED
  BY <1>1 DEF Inv, Verdicts, Types, Running

\* A broadcast that returns nil has reached every target, for good.
THEOREM NilCorrect == Spec => []NilMeansStored
BY NilStored, InvHolds, PTL

----------------------------------------------------------------------------
(* The whole call is one step *)

\* The two numbers that Delivery keeps for a target.
StoredCount(t) == IF pc = "returned" THEN Cardinality(Stored(t)) ELSE 0
StrayCount(t)  == IF pc = "returned" THEN Cardinality(Stray(t)) ELSE 0

\* The copies of a target and its requests on the way share its attempts.
LEMMA CountsFit ==
  ASSUME NEW t
  PROVE  /\ IsFiniteSet(Stored(t)) /\ IsFiniteSet(Stray(t))
         /\ Cardinality(Stored(t)) \in 0 .. Tries
         /\ Cardinality(Stray(t)) \in 0 .. Tries
         /\ Cardinality(Stored(t)) + Cardinality(Stray(t)) <= Tries
<1>1. IsFiniteSet(Attempts) /\ Cardinality(Attempts) = Tries
  BY SizesAssumption, FS_Interval DEF Attempts
<1>2. /\ Stored(t) \cup Stray(t) \subseteq Attempts
      /\ Stored(t) \cap Stray(t) = {}
  BY DEF Stored, Stray
<1>3. /\ IsFiniteSet(Stored(t)) /\ IsFiniteSet(Stray(t))
      /\ Cardinality(Stored(t) \cup Stray(t)) <= Tries
  BY <1>1, <1>2, FS_Subset
<1>4. Cardinality(Stored(t)) \in Nat /\ Cardinality(Stray(t)) \in Nat
  BY <1>3, FS_CardinalityType
<1>5. Cardinality(Stored(t) \cup Stray(t))
        = Cardinality(Stored(t)) + Cardinality(Stray(t))
            - Cardinality(Stored(t) \cap Stray(t))
  BY <1>3, FS_Union
<1>6. Cardinality(Stored(t) \cap Stray(t)) = 0
  BY <1>2, FS_EmptySet
<1> QED
  BY <1>3, <1>4, <1>5, <1>6, SizesAssumption

\* A request that ends its way leaves one stray less.
LEMMA StrayArrives ==
  ASSUME Inv, NEW t \in Targets, NEW i \in Attempts, i \in Stray(t),
         NEW state \in {"stored", "dropped"},
         request' = [request EXCEPT ![t][i] = state]
  PROVE  /\ Cardinality(Stray(t))' = Cardinality(Stray(t)) - 1
         /\ Cardinality(Stray(t)) > 0
         /\ Cardinality(Stored(t))' = IF state = "stored"
              THEN Cardinality(Stored(t)) + 1 ELSE Cardinality(Stored(t))
         /\ \A u \in Targets \ {t} :
              Stored(u)' = Stored(u) /\ Stray(u)' = Stray(u)
<1> USE DEF Inv, Types
<1>1. Stray(t)' = Stray(t) \ {i}
  BY DEF Stray
<1>2. Stored(t)' = IF state = "stored" THEN Stored(t) \cup {i} ELSE Stored(t)
  BY DEF Stored, Stray
<1>3. i \notin Stored(t)
  BY DEF Stored, Stray
<1>4. Cardinality(Stray(t))' = Cardinality(Stray(t)) - 1
  BY <1>1, CountsFit, FS_RemoveElement
<1>5. Cardinality(Stray(t)) > 0
  <2>1. Cardinality(Stray(t)) # 0 /\ Cardinality(Stray(t)) \in Nat
    BY CountsFit, FS_EmptySet
  <2> QED
    BY <2>1
<1>6. Cardinality(Stored(t) \cup {i}) = Cardinality(Stored(t)) + 1
  BY <1>3, CountsFit, FS_AddElement
<1>7. \A u \in Targets \ {t} : Stored(u)' = Stored(u) /\ Stray(u)' = Stray(u)
  BY DEF Stored, Stray
<1> QED
  BY <1>2, <1>4, <1>5, <1>6, <1>7

\* The step in which Broadcast returns.
LEMMA ReturnDelivers ==
  ASSUME Inv, Return
  PROVE  OneStep!Deliver
<1>1. pc # "returned" /\ pc' = "returned" /\ request' = request /\ result = "none"
  BY DEF Return, Inv, Types, Order
<1>2. result' \in {"ok", "missed", "error"}
  BY DEF Return, Inv, Types, ErrorKinds
<1>3. \A t \in Targets : /\ StoredCount(t)' = Cardinality(Stored(t))
                         /\ StrayCount(t)' = Cardinality(Stray(t))
  BY <1>1 DEF StoredCount, StrayCount, Stored, Stray
<1>4. \A t \in Targets :
        /\ StoredCount(t)' \in 0 .. Tries /\ StrayCount(t)' \in 0 .. Tries
        /\ StoredCount(t)' + StrayCount(t)' <= Tries
  BY <1>3, CountsFit
<1>5. ASSUME result' = "ok", NEW t \in Targets PROVE StoredCount(t)' >= 1
  <2>1. job[t] # "idle" /\ t \notin Running /\ firstErr = "none"
    BY <1>5 DEF Return, Inv, Order, Types, Targets, ErrorKinds
  <2>2. Stored(t) # {}
    BY <2>1 DEF Inv, Verdicts, Types, Running
  <2>3. Cardinality(Stored(t)) # 0 /\ Cardinality(Stored(t)) \in Nat
    BY <2>2, CountsFit, FS_EmptySet
  <2> QED
    BY <1>3, <2>3
<1> QED
  BY <1>1, <1>2, <1>4, <1>5
     DEF OneStep!Deliver, OneStep!Results, StoredCount, StrayCount

\* A request nobody waits for ends its way at its target.
LEMMA StrayIsArrival ==
  ASSUME Inv, pc = "returned", NEW t \in Targets, NEW i \in Attempts,
         i \in Stray(t), NEW state \in {"stored", "dropped"},
         request' = [request EXCEPT ![t][i] = state],
         UNCHANGED <<pc, result>>
  PROVE  OneStep!Arrive(t)
<1>1. result # "none"
  BY DEF Inv, Order
<1>2. StrayCount(t) > 0 /\ StrayCount(t)' = StrayCount(t) - 1
  BY StrayArrives DEF StrayCount
<1>3. StoredCount(t)' = IF state = "stored" THEN StoredCount(t) + 1
                                            ELSE StoredCount(t)
  BY StrayArrives DEF StoredCount
<1>4. \A u \in Targets \ {t} : /\ StoredCount(u)' = StoredCount(u)
                               /\ StrayCount(u)' = StrayCount(u)
  BY StrayArrives DEF StoredCount, StrayCount
<1> DEFINE stored == [u \in Targets |-> StoredCount(u)]
           stray  == [u \in Targets |-> StrayCount(u)]
<1>5. stray' = [stray EXCEPT ![t] = @ - 1]
  BY <1>2, <1>4
<1>6. stored' = [stored EXCEPT ![t] = @ + 1] \/ stored' = stored
  BY <1>3, <1>4
<1> QED
  BY <1>1, <1>2, <1>5, <1>6 DEF OneStep!Arrive, StoredCount, StrayCount

\* Every other step stutters.
LEMMA StepIsStep == Inv /\ [Next]_vars => [OneStep!Next]_(OneStep!vars)
<1> SUFFICES ASSUME Inv, [Next]_vars
             PROVE  OneStep!Next \/ UNCHANGED OneStep!vars
  OBVIOUS
<1>1. CASE Return
  BY <1>1, ReturnDelivers DEF OneStep!Next
<1>2. CASE pc' # "returned"
  <2>1. pc # "returned"
    BY <1>2 DEF Next, Sender, Handlers, Spawn, LoopEnds, Return, Attempt, Ack,
         GiveUp, Backoff, Check, Append, Deadline, Seal, vars
  <2>2. result' = result
    BY <1>2, <2>1 DEF Next, Sender, Handlers, Spawn, LoopEnds, Return, Attempt,
         Ack, GiveUp, Backoff, Check, Append, Deadline, Seal, vars
  <2> QED
    BY <1>2, <2>1, <2>2 DEF OneStep!vars
<1>3. CASE pc' = "returned" /\ ~Return
  <2>1. pc = "returned" /\ UNCHANGED <<pc, result>>
    BY <1>3 DEF Next, Sender, Handlers, Spawn, LoopEnds, Attempt, Ack,
         GiveUp, Backoff, Check, Append, Deadline, Seal, vars
  <2>2. CASE request' = request
    BY <2>1, <2>2 DEF OneStep!vars, Stored, Stray
  <2>3. ASSUME NEW t \in Targets, NEW i \in Attempts, Check(t, i)
        PROVE  OneStep!Next \/ UNCHANGED OneStep!vars
    <3>1. i \in Stray(t)
      BY <2>3 DEF Check, Stray
    <3>2. CASE t \in sealed
      <4>1. request' = [request EXCEPT ![t][i] = "dropped"]
        BY <2>3, <3>2 DEF Check
      <4> QED
        BY <2>1, <3>1, <4>1, StrayIsArrival DEF OneStep!Next
    <3>3. CASE t \notin sealed
      <4>1. \A u \in Targets : Stored(u)' = Stored(u) /\ Stray(u)' = Stray(u)
        BY <2>3, <3>3 DEF Check, Stored, Stray, Inv, Types
      <4> QED
        BY <2>1, <4>1 DEF OneStep!vars
    <3> QED
      BY <3>2, <3>3
  <2>4. ASSUME NEW t \in Targets, NEW i \in Attempts, Append(t, i)
        PROVE  OneStep!Next
    <3>1. i \in Stray(t) /\ request' = [request EXCEPT ![t][i] = "stored"]
      BY <2>4 DEF Append, Stray
    <3> QED
      BY <2>1, <3>1, StrayIsArrival DEF OneStep!Next
  <2>5. ASSUME NEW t \in Targets, Attempt(t) PROVE FALSE
    BY <2>1, <2>5, RunningBeforeReturn DEF Attempt
  <2> QED
    BY <1>3, <2>1, <2>2, <2>3, <2>4, <2>5 DEF Next, Sender, Handlers, Spawn,
       LoopEnds, Ack, GiveUp, Backoff, Deadline, Seal, vars
<1> QED
  BY <1>1, <1>2, <1>3

\* The round loop may take a broadcast for one step: nothing about its
\* deliveries is open when it returns, but for the requests it gave up.
THEOREM OneStepCorrect == Spec => IsOneStep
<1>1. Init => OneStep!Init
  BY DEF Init, OneStep!Init
<1> QED
  BY <1>1, InvHolds, StepIsStep, PTL DEF Spec, IsOneStep, OneStep!Spec
----------------------------------------------------------------------------
(* The counter of acknowledgements and the slots *)

Acked == {t \in Targets : job[t] = "acked"}

\* M counts each acknowledged target once, and every goroutine has a slot.
Counted ==
  /\ messagesSent = Cardinality(Acked)
  /\ Cardinality(Running) <= Slots

\* Sets of targets are finite, and subsets have no more members.
LEMMA TargetSets ==
  ASSUME NEW S \in SUBSET Targets
  PROVE  /\ IsFiniteSet(S) /\ Cardinality(S) \in Nat
         /\ \A T \in SUBSET S : Cardinality(T) <= Cardinality(S)
<1>1. IsFiniteSet(Targets)
  BY SizesAssumption, FS_Interval DEF Targets
<1>2. IsFiniteSet(S)
  BY <1>1, FS_Subset
<1> QED
  BY <1>2, FS_Subset, FS_CardinalityType

\* Nothing is counted at the start.
LEMMA CountedInit == Init => Counted
<1> SUFFICES ASSUME Init PROVE Counted
  OBVIOUS
<1>1. Acked = {} /\ Running = {}
  BY DEF Init, Acked, Running
<1> QED
  BY <1>1, FS_EmptySet, SizesAssumption DEF Init, Counted

\* A goroutine that moves on without an acknowledgement.
LEMMA MoveKeeps ==
  ASSUME Inv, Counted, NEW t \in Targets,
         job[t] \in {"ready", "waiting", "backoff"},
         NEW state \in {"ready", "waiting", "backoff", "failed"},
         job' = [job EXCEPT ![t] = state], messagesSent' = messagesSent
  PROVE  Counted'
<1>1. Acked' = Acked
  BY DEF Acked, Inv, Types
<1>2. Running' \subseteq Running /\ Running \subseteq Targets
  BY DEF Running, Inv, Types
<1>3. Cardinality(Running') <= Slots
  <2>1. /\ Cardinality(Running') <= Cardinality(Running)
        /\ Cardinality(Running) \in Nat /\ Cardinality(Running') \in Nat
    BY <1>2, TargetSets
  <2> QED
    BY <2>1, SizesAssumption DEF Counted
<1> QED
  BY <1>1, <1>3 DEF Counted

\* Every step keeps the counts.
LEMMA CountedNext == Inv /\ Counted /\ [Next]_vars => Counted'
<1> SUFFICES ASSUME Inv, Counted, [Next]_vars PROVE Counted'
  OBVIOUS
<1>1. CASE Spawn
  <2>1. spawned + 1 \in Targets /\ spawned + 1 > spawned
    BY <1>1, SizesAssumption DEF Spawn, Inv, Types, Targets
  <2>2. /\ job[spawned + 1] = "idle"
        /\ job' = [job EXCEPT ![spawned + 1] = "ready"]
        /\ messagesSent' = messagesSent /\ Cardinality(Running) < Slots
    BY <1>1, <2>1 DEF Spawn, Inv, Order
  <2>3. Acked' = Acked
    BY <2>1, <2>2 DEF Acked, Inv, Types
  <2>4. Running' = Running \cup {spawned + 1} /\ spawned + 1 \notin Running
    BY <2>1, <2>2 DEF Running, Inv, Types
  <2>5. Cardinality(Running') = Cardinality(Running) + 1
        /\ Cardinality(Running) \in Nat
    BY <2>4, TargetSets, FS_AddElement DEF Running
  <2> QED
    BY <2>2, <2>3, <2>5, SizesAssumption DEF Counted
<1>2. ASSUME NEW t \in Targets, Attempt(t) PROVE Counted'
  BY <1>2, MoveKeeps DEF Attempt, Fail
<1>3. ASSUME NEW t \in Targets, Ack(t) PROVE Counted'
  <2>1. /\ job[t] = "waiting" /\ job' = [job EXCEPT ![t] = "acked"]
        /\ messagesSent' = messagesSent + 1
    BY <1>3 DEF Ack
  <2>2. Acked' = Acked \cup {t} /\ t \notin Acked
    BY <2>1 DEF Acked, Inv, Types
  <2>3. Cardinality(Acked') = Cardinality(Acked) + 1
    BY <2>2, TargetSets, FS_AddElement DEF Acked
  <2>4. Running' \subseteq Running /\ Running \subseteq Targets
    BY <2>1 DEF Running, Inv, Types
  <2>5. /\ Cardinality(Running') <= Cardinality(Running)
        /\ Cardinality(Running) \in Nat /\ Cardinality(Running') \in Nat
    BY <2>4, TargetSets
  <2> QED
    BY <2>1, <2>3, <2>5, SizesAssumption DEF Counted
<1>4. ASSUME NEW t \in Targets, GiveUp(t) PROVE Counted'
  BY <1>4, MoveKeeps DEF GiveUp
<1>5. ASSUME NEW t \in Targets, Backoff(t) PROVE Counted'
  BY <1>5, MoveKeeps DEF Backoff, Fail
<1>6. CASE UNCHANGED <<job, messagesSent>>
  BY <1>6 DEF Counted, Acked, Running
<1> QED
  BY <1>1, <1>2, <1>3, <1>4, <1>5, <1>6 DEF Next, Sender, Handlers, LoopEnds,
     Return, Check, Append, Deadline, Seal, vars

\* The two parts together.
LEMMA CountedHolds == Spec => [](Inv /\ Counted)
BY InvInit, InvNext, CountedInit, CountedNext, PTL DEF Spec

\* M is at most the targets that have the message.
LEMMA AckedHave == Inv /\ Counted => SentIsReceived
<1> SUFFICES ASSUME Inv, Counted PROVE SentIsReceived
  OBVIOUS
<1> DEFINE Have == {t \in Targets : Stored(t) # {}}
<1>1. Acked \subseteq Have
  BY DEF Inv, Verdicts, Acked
<1>2. Cardinality(Acked) <= Cardinality(Have)
  BY <1>1, TargetSets
<1> QED
  BY <1>2 DEF SentIsReceived, Counted

\* The two parts make the type invariant.
LEMMA Typed == Inv /\ Counted => TypeOK
BY DEF Inv, Types, Counted, TypeOK

\* Types, and never more goroutines than slots.
THEOREM TypeCorrect == Spec => []TypeOK
BY Typed, CountedHolds, PTL

\* The reported M never exceeds the peers that did receive the message.
THEOREM SentCorrect == Spec => []SentIsReceived
BY AckedHave, CountedHolds, PTL

----------------------------------------------------------------------------
(* The job: the inductive invariant, in parts *)

\* The query has not been answered: the broadcast is where it starts.
Untouched ==
  /\ spawned = 0 /\ messagesSent = 0
  /\ job = [t \in Targets |-> "idle"]
  /\ request = [t \in Targets |-> [i \in Attempts |-> "none"]]

\* The job ended without an answer, before a broadcast.
Quit ==
  /\ stage = "over" /\ pc = "returned" /\ result \in ErrorKinds
  /\ Untouched
  /\ tries \in [Targets -> 0 .. Tries]
  /\ lastErr \in [Targets -> ErrorKinds \cup {"none"}]
  /\ firstErr \in ErrorKinds \cup {"none"}
  /\ expired \in BOOLEAN /\ sealed \subseteq Targets

\* Else the broadcast is one of PeerBroadcast.
Broadcasts ==
  /\ stage # "over" /\ Inv /\ Counted
  /\ stage # "answered" => pc = "loop" /\ result = "none" /\ Untouched

\* A request to the source is on its way, served, or none is waited for.
Waits ==
  /\ stage = "waiting" <=> current # "none"
  /\ stage \in {"start", "delay"} => asked = 0
  /\ stage = "ready" => asked < Tries
  /\ stage \in {"waiting", "backoff"} => asked \in 1 .. Tries
  /\ stage = "backoff" => getErr \in ErrorKinds

\* Requests the source has seen or may see.
InFlight == given + (IF current = "travels" THEN 1 ELSE 0)

\* Each of them is an attempt of get, and there is no answer without one.
Ledger ==
  /\ sourceQueries = IF stage = "start" THEN 0 ELSE 1
  /\ primaryQueries = IF stage = "answered" THEN 1 ELSE 0
  /\ queryCount + InFlight <= IF stage \in {"answered", "over"} THEN Tries
                                                                ELSE asked
  /\ stage = "answered" \/ current = "served" => queryCount >= 1

Queries == JobTypeOK /\ Waits /\ Ledger
JobInv  == (Broadcasts \/ Quit) /\ Queries

\* The invariant holds at the start.
LEMMA JobInvInit == JobInit => JobInv
<1> SUFFICES ASSUME JobInit PROVE JobInv
  OBVIOUS
<1>1. Inv /\ Counted
  BY InvInit, CountedInit DEF JobInit
<1>2. Broadcasts
  BY <1>1 DEF JobInit, Init, Broadcasts, Untouched
<1>3. Queries
  BY SizesAssumption
     DEF JobInit, Queries, JobTypeOK, Waits, Ledger, InFlight, ErrorKinds
<1> QED
  BY <1>2, <1>3 DEF JobInv

----------------------------------------------------------------------------
(* The queries *)

\* The job gives up.
LEMMA QuitQueries ==
  ASSUME Queries, NEW kind, QuitWith(kind),
         stage \in {"delay", "ready", "waiting", "backoff"}
  PROVE  Queries'
<1> USE SizesAssumption DEF Queries, JobTypeOK, Waits, Ledger, InFlight, QuitWith
<1>1. JobTypeOK'
  BY DEF ErrorKinds
<1>2. Waits'
  OBVIOUS
<1>3. Ledger'
  OBVIOUS
<1> QED
  BY <1>1, <1>2, <1>3

\* Every step keeps the account of the queries.
LEMMA QueriesNext == Queries /\ [JobNext]_jobVars => Queries'
<1> SUFFICES ASSUME Queries, [JobNext]_jobVars PROVE Queries'
  OBVIOUS
<1>1. CASE Begin
  BY <1>1, SizesAssumption
     DEF Begin, Queries, JobTypeOK, Waits, Ledger, InFlight
<1>2. CASE Delay
  <2>1. CASE QuitWith("missed")
    BY <1>2, <2>1, QuitQueries DEF Delay
  <2>2. CASE ~QuitWith("missed")
    BY <1>2, <2>2, SizesAssumption
       DEF Delay, Queries, JobTypeOK, Waits, Ledger, InFlight
  <2> QED
    BY <2>1, <2>2
<1>3. CASE Ask
  <2>1. CASE QuitWith("missed")
    BY <1>3, <2>1, QuitQueries DEF Ask
  <2>2. CASE ~QuitWith("missed")
    BY <1>3, <2>2, SizesAssumption
       DEF Ask, Queries, JobTypeOK, Waits, Ledger, InFlight
  <2> QED
    BY <2>1, <2>2
<1>4. CASE AskFails
  BY <1>4, SizesAssumption
     DEF AskFails, Queries, JobTypeOK, Waits, Ledger, InFlight, ErrorKinds
<1>5. CASE AskAgain
  <2>1. CASE \E kind : QuitWith(kind)
    BY <1>5, <2>1, QuitQueries DEF AskAgain
  <2>2. CASE ~\E kind : QuitWith(kind)
    BY <1>5, <2>2, SizesAssumption
       DEF AskAgain, Queries, JobTypeOK, Waits, Ledger, InFlight
  <2> QED
    BY <2>1, <2>2
<1>6. CASE Answer
  <2>1. CASE \E kind : QuitWith(kind)
    BY <1>6, <2>1, QuitQueries DEF Answer
  <2>2. CASE ~\E kind : QuitWith(kind)
    BY <1>6, <2>2, SizesAssumption
       DEF Answer, Queries, JobTypeOK, Waits, Ledger, InFlight, ErrorKinds
  <2> QED
    BY <2>1, <2>2
<1>7. CASE Serve
  BY <1>7, SizesAssumption
     DEF Serve, Queries, JobTypeOK, Waits, Ledger, InFlight
<1>8. CASE UNCHANGED queryVars
  BY <1>8 DEF queryVars, Queries, JobTypeOK, Waits, Ledger, InFlight
<1> QED
  BY <1>1, <1>2, <1>3, <1>4, <1>5, <1>6, <1>7, <1>8
     DEF JobNext, QueryBit, Send, jobVars

----------------------------------------------------------------------------
(* The broadcast *)

\* Giving up ends the job before its broadcast.
LEMMA QuitQuits ==
  ASSUME Broadcasts, NEW kind \in ErrorKinds, QuitWith(kind),
         stage # "answered"
  PROVE  Quit'
BY DEF Broadcasts, QuitWith, Quit, Untouched, Inv, Types

\* Nothing of the broadcast moves before the query is answered, and nothing
\* after the job was given up.
LEMMA BroadcastNext ==
  Queries /\ (Broadcasts \/ Quit) /\ [JobNext]_jobVars
    => (Broadcasts \/ Quit)'
<1> SUFFICES ASSUME Queries, Broadcasts \/ Quit, [JobNext]_jobVars
             PROVE  Broadcasts' \/ Quit'
  OBVIOUS
<1>1. CASE UNCHANGED vars
  <2>1. CASE stage = "over"
    <3>1. stage' = "over"
      BY <1>1, <2>1 DEF JobNext, jobVars, queryVars, QueryBit, Begin, Delay,
         Ask, AskFails, AskAgain, Answer, Serve, Send, QuitWith
    <3> QED
      BY <1>1, <2>1, <3>1 DEF Broadcasts, Quit, Untouched, vars
  <2>2. CASE stage # "over"
    <3>1. Broadcasts
      BY <2>2 DEF Quit
    <3>2. Inv' /\ Counted'
      BY <1>1, <3>1, InvNext, CountedNext DEF Broadcasts
    <3>3. ASSUME NEW kind, QuitWith(kind), stage # "answered" PROVE FALSE
      BY <1>1, <3>1, <3>3 DEF QuitWith, Broadcasts, vars
    <3>4. stage' # "over" /\ (stage = "answered" => stage' = "answered")
      BY <2>2, <3>3 DEF JobNext, jobVars, queryVars, QueryBit, Begin, Delay,
         Ask, AskFails, AskAgain, Answer, Serve, Send
    <3> QED
      BY <1>1, <3>1, <3>2, <3>4 DEF Broadcasts, Untouched, vars
  <2> QED
    BY <2>1, <2>2
<1>2. CASE \E kind \in ErrorKinds :
             QuitWith(kind) /\ stage \notin {"answered", "over"}
  BY <1>2, QuitQuits DEF Quit
<1>3. CASE Send
  <2>1. Broadcasts /\ stage = "answered" /\ stage' = "answered" /\ Next
    BY <1>3 DEF Send, Quit, queryVars, Next
  <2> QED
    BY <2>1, InvNext, CountedNext DEF Broadcasts
<1>4. CASE Elsewhere /\ UNCHANGED queryVars
  <2>1. stage' = stage /\ Next
    BY <1>4 DEF queryVars, Elsewhere, Next
  <2>2. CASE Quit
    BY <1>4, <2>1, <2>2 DEF Quit, Untouched, Elsewhere, Handlers, Check, Append,
       Deadline, Seal
  <2>3. CASE Broadcasts
    <3>1. Inv' /\ Counted'
      BY <2>1, <2>3, InvNext, CountedNext DEF Broadcasts
    <3>2. stage # "answered" => Untouched' /\ pc' = "loop" /\ result' = "none"
      BY <1>4, <2>3 DEF Broadcasts, Untouched, Elsewhere, Handlers, Check,
         Append, Deadline, Seal
    <3> QED
      BY <2>1, <2>3, <3>1, <3>2 DEF Broadcasts
  <2> QED
    BY <2>2, <2>3
<1> QED
  BY <1>1, <1>2, <1>3, <1>4 DEF JobNext, QueryBit, Begin, Delay, Ask, AskFails,
     AskAgain, Answer, Serve, jobVars, Queries, Waits, ErrorKinds

\* The invariant holds throughout.
LEMMA JobInvHolds == JobSpec => []JobInv
<1>1. JobInv /\ [JobNext]_jobVars => JobInv'
  BY QueriesNext, BroadcastNext DEF JobInv
<1> QED
  BY <1>1, JobInvInit, PTL DEF JobSpec

----------------------------------------------------------------------------
\* A peer votes only what the source has answered, and its counters are tied to
\* the counter of the source.
THEOREM QueriesCorrect == JobSpec => []QueriesAreSeen
<1>1. JobInv => QueriesAreSeen
  <2> SUFFICES ASSUME JobInv PROVE QueriesAreSeen
    OBVIOUS
  <2>1. spawned > 0 => primaryQueries = 1
    BY DEF JobInv, Broadcasts, Quit, Untouched, Queries, Ledger
  <2>2. primaryQueries <= queryCount
    BY DEF JobInv, Queries, Ledger, JobTypeOK
  <2>3. queryCount <= Tries * sourceQueries
    BY SizesAssumption
       DEF JobInv, Queries, Ledger, JobTypeOK, Waits, InFlight
  <2> QED
    BY <2>1, <2>2, <2>3 DEF QueriesAreSeen
<1> QED
  BY <1>1, JobInvHolds, PTL

----------------------------------------------------------------------------
(* The broadcast in its job *)

\* A job that was given up has sent nothing.
LEMMA QuitIsSafe == Quit => TypeOK /\ NilMeansStored /\ SentIsReceived
<1> SUFFICES ASSUME Quit PROVE TypeOK /\ NilMeansStored /\ SentIsReceived
  OBVIOUS
<1>1. Running = {}
  BY DEF Quit, Untouched, Running
<1>2. Cardinality(Running) = 0
  BY <1>1, FS_EmptySet
<1>3. expired \in BOOLEAN
  BY DEF Quit
<1>4. TypeOK
  BY <1>2, <1>3, SizesAssumption DEF Quit, Untouched, TypeOK
<1>5. NilMeansStored
  BY DEF Quit, NilMeansStored, ErrorKinds
<1>6. Cardinality({t \in Targets : Stored(t) # {}}) \in Nat
  BY TargetSets
<1>7. SentIsReceived
  BY <1>6 DEF Quit, Untouched, SentIsReceived
<1> QED
  BY <1>4, <1>5, <1>7

\* Types, and never more goroutines than slots, in every job.
THEOREM JobTypesCorrect == JobSpec => []TypeOK
<1>1. JobInv => TypeOK
  BY QuitIsSafe, Typed DEF JobInv, Broadcasts
<1> QED
  BY <1>1, JobInvHolds, PTL

\* A job that returns nil has its vote in the store of every target, for good.
THEOREM JobNilCorrect == JobSpec => []NilMeansStored
<1>1. JobInv => NilMeansStored
  BY QuitIsSafe, NilStored DEF JobInv, Broadcasts
<1> QED
  BY <1>1, JobInvHolds, PTL

\* The M of a job never exceeds the peers that did receive its vote.
THEOREM JobSentCorrect == JobSpec => []SentIsReceived
<1>1. JobInv => SentIsReceived
  BY QuitIsSafe, AckedHave DEF JobInv, Broadcasts
<1> QED
  BY <1>1, JobInvHolds, PTL

\* Giving up is a delivery of nothing.
LEMMA QuitDelivers ==
  ASSUME Broadcasts, stage # "answered", Quit', request' = request
  PROVE  OneStep!Deliver
<1>1. pc = "loop" /\ result = "none" /\ Untouched
  BY DEF Broadcasts
<1>2. pc' = "returned" /\ result' \in ErrorKinds
  BY DEF Quit
<1>3. \A t \in Targets : Stored(t)' = {} /\ Stray(t)' = {}
  BY <1>1 DEF Untouched, Stored, Stray
<1>4. \A t \in Targets : StoredCount(t)' = 0 /\ StrayCount(t)' = 0
  BY <1>3, FS_EmptySet DEF StoredCount, StrayCount
<1> QED
  BY <1>1, <1>2, <1>4, SizesAssumption DEF OneStep!Deliver, OneStep!Results,
     StoredCount, StrayCount, ErrorKinds

\* Every step of the job is a step of a delivery, or stutters.
LEMMA JobStepIsStep ==
  JobInv /\ [JobNext]_jobVars => [OneStep!Next]_(OneStep!vars)
<1> SUFFICES ASSUME JobInv, [JobNext]_jobVars
             PROVE  OneStep!Next \/ UNCHANGED OneStep!vars
  OBVIOUS
<1>1. CASE UNCHANGED vars
  BY <1>1 DEF vars, OneStep!vars, Stored, Stray
<1>2. CASE \E kind \in ErrorKinds :
             QuitWith(kind) /\ stage \notin {"answered", "over"}
  <2>1. Broadcasts /\ stage # "answered"
    BY <1>2 DEF JobInv, Quit
  <2>2. Quit' /\ request' = request
    BY <1>2, <2>1, QuitQuits DEF QuitWith
  <2> QED
    BY <2>1, <2>2, QuitDelivers DEF OneStep!Next
<1>3. CASE Broadcasts /\ Next
  BY <1>3, StepIsStep DEF Broadcasts
<1>4. CASE Quit /\ Next /\ (Elsewhere \/ Send)
  <2>1. UNCHANGED <<pc, request, result>>
    BY <1>4 DEF Quit, Untouched, Send, Elsewhere, Handlers, Check, Append,
       Deadline, Seal
  <2> QED
    BY <2>1 DEF OneStep!vars, Stored, Stray
<1> QED
  BY <1>1, <1>2, <1>3, <1>4 DEF JobInv, JobNext, QueryBit, Begin, Delay, Ask,
     AskFails, AskAgain, Answer, Serve, Send, Elsewhere, Next, jobVars, Queries,
     Waits, ErrorKinds

\* The round loop may take a whole job for a query and one delivery.
THEOREM JobIsOneStep == JobSpec => IsOneStep
<1>1. JobInit => OneStep!Init
  BY DEF JobInit, Init, OneStep!Init
<1> QED
  BY <1>1, JobInvHolds, JobStepIsStep, PTL
     DEF JobSpec, IsOneStep, OneStep!Spec

----------------------------------------------------------------------------
(* Every step counts *)

\* A loop of attempts, by the state it is in.
LEMMA LoopStepsAre ==
  ASSUME NEW made \in Int, NEW state
  PROVE  LoopSteps(state, made) =
           IF state \in {"start", "waiting"} THEN 3 * (Tries - made) + 3
           ELSE IF state \in {"delay", "idle", "backoff"}
           THEN 3 * (Tries - made) + 2
           ELSE IF state = "ready" THEN 3 * (Tries - made) + 1
           ELSE 0
BY DEF LoopSteps, RestOf

\* Every move of such a loop takes one from its number.
LEMMA LoopFalls ==
  ASSUME NEW made \in 0 .. Tries, NEW more \in Int, NEW state, NEW next,
         \/ /\ state \in {"start", "delay", "ready", "waiting", "backoff"}
            /\ next \in {"answered", "over", "acked", "failed"}
         \/ /\ state = "start" /\ next \in {"delay", "ready"} /\ more = made
         \/ /\ state \in {"delay", "idle"} /\ next = "ready" /\ more = made
         \/ /\ state = "ready" /\ next = "waiting" /\ more = made + 1
         \/ /\ state = "waiting" /\ next = "backoff" /\ more = made
         \/ /\ state = "backoff" /\ next = "ready" /\ more = made
  PROVE  /\ LoopSteps(next, more) < LoopSteps(state, made)
         /\ LoopSteps(next, more) \in Int
<1> DEFINE d == Tries - made
<1>1. d \in Nat /\ made \in Int /\ Tries - (made + 1) = d - 1
  BY SizesAssumption
<1> HIDE DEF d
<1>2. LoopSteps(state, made) =
        IF state \in {"start", "waiting"} THEN 3 * d + 3
        ELSE IF state \in {"delay", "idle", "backoff"} THEN 3 * d + 2
        ELSE IF state = "ready" THEN 3 * d + 1 ELSE 0
  BY <1>1, LoopStepsAre DEF d
<1>3. CASE next \in {"answered", "over", "acked", "failed"}
  <2>1. LoopSteps(next, more) = 0
    BY <1>3, LoopStepsAre
  <2> QED
    BY <1>1, <1>2, <1>3, <2>1
<1>4. CASE next \in {"delay", "ready", "backoff"} /\ more = made
  <2>1. LoopSteps(next, more) = IF next = "ready" THEN 3 * d + 1 ELSE 3 * d + 2
    BY <1>1, <1>4, LoopStepsAre DEF d
  <2> QED
    BY <1>1, <1>2, <1>4, <2>1
<1>5. CASE next = "waiting" /\ more = made + 1
  <2>1. LoopSteps(next, more) = 3 * (d - 1) + 3
    BY <1>1, <1>5, LoopStepsAre
  <2> QED
    BY <1>1, <1>2, <1>5, <2>1
<1> QED
  BY <1>3, <1>4, <1>5

\* Nobody has a negative number of steps left.
LEMMA StepsAreNat == JobInv => \A a \in 0 .. Last + 1 : StepsLeft(a) \in Nat
<1> SUFFICES ASSUME JobInv, NEW a \in 0 .. Last + 1 PROVE StepsLeft(a) \in Nat
  OBVIOUS
<1>1. ASSUME NEW made \in 0 .. Tries, NEW state PROVE LoopSteps(state, made) \in Nat
  BY SizesAssumption, LoopStepsAre
<1>2. CASE a = 0
  BY <1>1, <1>2 DEF StepsLeft, JobInv, Queries, JobTypeOK
<1>3. CASE a \in Targets
  <2>1. tries[a] \in 0 .. Tries
    BY <1>3 DEF JobInv, Broadcasts, Inv, Types, Quit
  <2> QED
    BY <1>1, <1>3, <2>1 DEF StepsLeft, Targets
<1>4. CASE a = Last + 1
  <2>1. pc \in {"loop", "wait", "returned"}
    BY DEF JobInv, Broadcasts, Inv, Types, Quit
  <2> QED
    BY <1>4, <2>1, SizesAssumption DEF StepsLeft, Targets
<1> QED
  BY <1>2, <1>3, <1>4, SizesAssumption DEF Targets

\* Every step of the query takes one from its number.
LEMMA QueryFalls ==
  ASSUME JobInv, QueryBit
  PROVE  /\ StepsLeft(0)' < StepsLeft(0)
         /\ UNCHANGED <<job, tries>>
         /\ pc' = pc \/ pc' = "returned"
<1>1. UNCHANGED <<job, tries>> /\ (pc' = pc \/ pc' = "returned")
  BY DEF QueryBit, Begin, Delay, Ask, AskFails, AskAgain, Answer, QuitWith, vars
<1>2. /\ asked \in 0 .. Tries /\ Tries \in Nat
      /\ stage \in {"start", "delay"} => asked = 0
      /\ stage = "ready" => asked < Tries
  BY SizesAssumption DEF JobInv, Queries, JobTypeOK, Waits
<1>3. stage \in {"start", "delay", "ready", "waiting", "backoff"}
  BY DEF QueryBit, Begin, Delay, Ask, AskFails, AskAgain, Answer
<1>4. \/ stage' \in {"answered", "over"} /\ asked' = 0
      \/ stage = "start" /\ stage' \in {"delay", "ready"} /\ asked' = asked
      \/ stage = "delay" /\ stage' = "ready" /\ asked' = asked
      \/ stage = "ready" /\ stage' = "waiting" /\ asked' = asked + 1
      \/ stage = "waiting" /\ stage' = "backoff" /\ asked' = asked
      \/ stage = "backoff" /\ stage' = "ready" /\ asked' = asked
  BY DEF QueryBit, Begin, Delay, Ask, AskFails, AskAgain, Answer, QuitWith
<1>5. LoopSteps(stage', asked') < LoopSteps(stage, asked)
  <2>1. asked' \in Int
    BY <1>2, <1>4
  <2> QED
    BY <1>2, <1>3, <1>4, <2>1, LoopFalls
<1> QED
  BY <1>1, <1>5 DEF StepsLeft

\* Every step of the broadcast takes one from the number of its loop or of the
\* post of a target.
LEMMA SenderFalls ==
  ASSUME Inv, Sender
  PROVE  /\ \A a \in 1 .. Last + 1 : StepsLeft(a)' <= StepsLeft(a)
         /\ \E a \in 1 .. Last + 1 : StepsLeft(a)' < StepsLeft(a)
<1>1. /\ Last \in Nat /\ Tries \in Nat \ {0} /\ Targets = 1 .. Last
      /\ job \in [Targets -> {"idle", "ready", "waiting", "backoff", "acked",
                                "failed"}]
      /\ tries \in [Targets -> 0 .. Tries]
  BY SizesAssumption DEF Inv, Types, Targets
<1>2. \A t \in Targets : StepsLeft(t) = LoopSteps(job[t], tries[t])
                          /\ StepsLeft(t)' = LoopSteps(job'[t], tries'[t])
  BY <1>1 DEF StepsLeft
<1>3. \A t \in Targets : StepsLeft(t) \in Int
  BY <1>1, <1>2, LoopStepsAre
<1>4. /\ \A a \in 1 .. Last + 1 : a \in Targets \/ a = Last + 1
      /\ Last + 1 # 0 /\ Last + 1 \notin Targets /\ Last + 1 \in 1 .. Last + 1
      /\ \A t \in Targets : t \in 1 .. Last + 1
      /\ StepsLeft(Last + 1) \in Int
  <2>1. /\ \A a \in 1 .. Last + 1 : a \in Targets \/ a = Last + 1
        /\ Last + 1 # 0 /\ Last + 1 \notin Targets /\ Last + 1 \in 1 .. Last + 1
        /\ \A t \in Targets : t \in 1 .. Last + 1
    BY <1>1
  <2>2. pc \in {"loop", "wait", "returned"}
    BY DEF Inv, Types
  <2> QED
    BY <2>1, <2>2 DEF StepsLeft
<1>5. CASE LoopEnds \/ Return
  <2>1. StepsLeft(Last + 1)' < StepsLeft(Last + 1) /\ UNCHANGED <<job, tries>>
    BY <1>1, <1>5 DEF StepsLeft, LoopEnds, Return
  <2>2. \A t \in Targets : StepsLeft(t)' = StepsLeft(t)
    BY <1>2, <2>1
  <2>3. StepsLeft(Last + 1)' \in Int
    BY <1>4, <1>5 DEF StepsLeft, LoopEnds, Return
  <2> QED
    BY <1>3, <1>4, <2>1, <2>2, <2>3
<1>6. ASSUME NEW t \in Targets, UNCHANGED pc,
             \A u \in Targets \ {t} : job'[u] = job[u] /\ tries'[u] = tries[u],
             LoopSteps(job'[t], tries'[t]) < LoopSteps(job[t], tries[t]),
             LoopSteps(job'[t], tries'[t]) \in Int
      PROVE  /\ \A a \in 1 .. Last + 1 : StepsLeft(a)' <= StepsLeft(a)
             /\ \E a \in 1 .. Last + 1 : StepsLeft(a)' < StepsLeft(a)
  <2>1. StepsLeft(Last + 1)' = StepsLeft(Last + 1)
    <3>1. pc' = pc /\ pc \in {"loop", "wait", "returned"}
      BY <1>6 DEF Inv, Types
    <3> QED
      BY <1>4, <3>1 DEF StepsLeft
  <2>2. \A u \in Targets \ {t} : StepsLeft(u)' = StepsLeft(u)
    BY <1>2, <1>6
  <2>3. StepsLeft(t)' < StepsLeft(t) /\ StepsLeft(t)' <= StepsLeft(t)
    BY <1>2, <1>3, <1>6
  <2>4. \A a \in 1 .. Last + 1 : a # t => StepsLeft(a)' = StepsLeft(a)
    BY <1>4, <2>1, <2>2
  <2>5. \A a \in 1 .. Last + 1 : StepsLeft(a) \in Int
    BY <1>3, <1>4
  <2>6. ASSUME NEW a \in 1 .. Last + 1 PROVE StepsLeft(a)' <= StepsLeft(a)
    BY <2>3, <2>4, <2>5
  <2> QED
    BY <1>4, <2>3, <2>6
<1>7. CASE Spawn
  <2>1. spawned + 1 \in Targets /\ job[spawned + 1] = "idle"
    BY <1>1, <1>7 DEF Spawn, Inv, Types, Order
  <2>2. /\ job' = [job EXCEPT ![spawned + 1] = "ready"]
        /\ UNCHANGED <<tries, pc>>
    BY <1>7 DEF Spawn
  <2>3. /\ LoopSteps(job'[spawned + 1], tries'[spawned + 1])
             < LoopSteps(job[spawned + 1], tries[spawned + 1])
        /\ LoopSteps(job'[spawned + 1], tries'[spawned + 1]) \in Int
    <3>1. job'[spawned + 1] = "ready" /\ tries'[spawned + 1] = tries[spawned + 1]
          /\ tries[spawned + 1] \in 0 .. Tries
      BY <1>1, <2>1, <2>2
    <3>2. tries[spawned + 1] \in Int
      BY <1>1, <3>1
    <3> QED
      BY <2>1, <3>1, <3>2, LoopFalls
  <2> QED
    BY <1>1, <1>6, <2>1, <2>2, <2>3
<1>8. ASSUME NEW t \in Targets, Attempt(t) \/ Ack(t) \/ GiveUp(t) \/ Backoff(t)
      PROVE  /\ \A a \in 1 .. Last + 1 : StepsLeft(a)' <= StepsLeft(a)
             /\ \E a \in 1 .. Last + 1 : StepsLeft(a)' < StepsLeft(a)
  <2>1. /\ UNCHANGED pc
        /\ \A u \in Targets \ {t} : job'[u] = job[u] /\ tries'[u] = tries[u]
    BY <1>1, <1>8 DEF Attempt, Ack, GiveUp, Backoff, Fail
  <2>2. \/ /\ job[t] \in {"ready", "waiting", "backoff"}
           /\ job'[t] \in {"acked", "failed"}
        \/ job[t] = "ready" /\ job'[t] = "waiting" /\ tries'[t] = tries[t] + 1
        \/ job[t] = "waiting" /\ job'[t] = "backoff" /\ tries'[t] = tries[t]
        \/ job[t] = "backoff" /\ job'[t] = "ready" /\ tries'[t] = tries[t]
    BY <1>1, <1>8 DEF Attempt, Ack, GiveUp, Backoff, Fail
  <2>3. tries'[t] \in Int /\ tries[t] \in 0 .. Tries
    BY <1>1, <1>8 DEF Attempt, Ack, GiveUp, Backoff
  <2>4. /\ LoopSteps(job'[t], tries'[t]) < LoopSteps(job[t], tries[t])
        /\ LoopSteps(job'[t], tries'[t]) \in Int
    BY <2>2, <2>3, LoopFalls
  <2> QED
    BY <1>6, <2>1, <2>4
<1> QED
  BY <1>5, <1>7, <1>8 DEF Sender

\* Every step takes one from somebody's number and adds to nobody's.
LEMMA StepsFall == JobInv /\ JobInv' /\ [JobNext]_jobVars => [StepCounts]_jobVars
<1> SUFFICES ASSUME JobInv, JobInv', JobNext PROVE StepCounts
  BY DEF jobVars
<1>1. \A a \in 0 .. Last + 1 : StepsLeft(a) \in Nat /\ StepsLeft(a)' \in Nat
  <2>1. (JobInv => \A a \in 0 .. Last + 1 : StepsLeft(a) \in Nat)'
    BY StepsAreNat, PTL
  <2> QED
    BY <2>1, StepsAreNat
<1>2. SUFFICES /\ \A a \in 0 .. Last + 1 : StepsLeft(a)' <= StepsLeft(a)
               /\ QueryBit \/ Send =>
                    \E a \in 0 .. Last + 1 : StepsLeft(a)' < StepsLeft(a)
  BY <1>1 DEF StepCounts
<1>3. Last \in Nat /\ Targets = 1 .. Last
  BY SizesAssumption DEF Targets
<1>4. CASE QueryBit
  <2>1. /\ StepsLeft(0)' < StepsLeft(0) /\ UNCHANGED <<job, tries>>
        /\ pc' = pc \/ pc' = "returned"
    BY <1>4, QueryFalls
  <2>2. \A t \in Targets : StepsLeft(t)' = StepsLeft(t)
    BY <1>3, <2>1 DEF StepsLeft
  <2>3. StepsLeft(Last + 1)' <= StepsLeft(Last + 1)
    <3>1. pc \in {"loop", "wait", "returned"}
      BY DEF JobInv, Broadcasts, Inv, Types, Quit
    <3> QED
      BY <1>3, <2>1, <3>1 DEF StepsLeft
  <2> QED
    BY <1>1, <1>3, <2>1, <2>2, <2>3
<1>5. CASE Send
  <2>1. Inv /\ Sender /\ UNCHANGED <<stage, asked>>
    BY <1>5 DEF Send, JobInv, Quit, Broadcasts, queryVars
  <2>2. StepsLeft(0)' = StepsLeft(0)
    BY <2>1 DEF StepsLeft
  <2> QED
    BY <1>1, <1>3, <2>1, <2>2, SenderFalls
<1>6. CASE ~QueryBit /\ ~Send
  <2>1. UNCHANGED <<stage, asked, job, tries, pc>>
    BY <1>6 DEF JobNext, Serve, Elsewhere, Handlers, Check, Append, Deadline,
       Seal, queryVars, vars
  <2>2. \A a \in 0 .. Last + 1 : StepsLeft(a)' = StepsLeft(a)
    BY <2>1 DEF StepsLeft
  <2> QED
    BY <1>1, <1>6, <2>2
<1> QED
  BY <1>4, <1>5, <1>6

\* A job is over after a number of its own steps that the number of targets and
\* of tries fix, whatever is lost or late and whenever the deadline passes.
THEOREM StepsCount == JobSpec => EveryStepCounts
<1>1. JobInv /\ [JobNext]_jobVars => JobInv'
  BY QueriesNext, BroadcastNext DEF JobInv
<1> QED
  BY <1>1, JobInvHolds, StepsFall, PTL DEF JobSpec, EveryStepCounts
=============================================================================
