--------------------------- MODULE RoundLoopProofs ---------------------------
(***************************************************************************)
(* Proofs about the rounds of BlacklistDownload, for every value of its    *)
(* constants: what is complete, counted, freed and agreed between rounds.  *)
(***************************************************************************)
EXTENDS BlacklistDownloadProofs, WellFoundedInduction

----------------------------------------------------------------------------
(* Every bit is there at the end *)

\* An error of a job is found by the barrier of its phase.
ErrorsAbort == phase \in {"start", "seal", "forget", "done"} => errors = 0

\* The bits of the rounds behind us, and of this one where it is decided.
Filled ==
  phase # "aborted" =>
    \A a \in Honest :
      /\ \A r \in Rounds : r < round => bits[a][r] # NoBit
      /\ (phase = "decide" /\ errors = 0 /\ a \notin todo) \/ phase = "forget"
           => bits[a][round] # NoBit

EndsAfterAll == phase = "done" => round = N

Progress == ErrorsAbort /\ Filled /\ EndsAfterAll

\* A decided bit is one.
LEMMA DecidedIsBit ==
  ASSUME Inv, NEW a \in Honest, DecideByMajority(a) \/ DecideAtSource(a)
  PROVE  /\ round \in Rounds /\ bits'[a][round] # NoBit
         /\ \A b \in Honest, r \in Rounds :
              b # a \/ r # round => bits'[b][r] = bits[b][r]
<1>1. round \in Rounds /\ bits \in [Honest -> [Rounds -> Bit \cup {NoBit}]]
  BY DEF DecideByMajority, DecideAtSource, Inv, TypeOK
<1>2. /\ object[round] \in Bit
      /\ Majority(RoundVotes(a), blacklist[a]) \in Bit
  BY <1>1 DEF Inv, TypeOK, Majority, Bit
<1>3. PICK b \in Bit : bits' = [bits EXCEPT ![a][round] = b]
  BY <1>2 DEF DecideByMajority, DecideAtSource
<1> QED
  BY <1>1, <1>3 DEF Bit, NoBit

\* Every step keeps the progress.
LEMMA ProgressNext == Inv /\ Progress /\ [Next]_vars => Progress'
<1> SUFFICES ASSUME Inv, Progress, [Next]_vars PROVE Progress'
  OBVIOUS
<1> USE DEF Progress, ErrorsAbort, EndsAfterAll, storeVars, outputVars, envVars,
            roundVars
<1>1. CASE StartRound \/ Deadline
  BY <1>1 DEF StartRound, Deadline, Filled
<1>2. CASE Barrier
  <2>1. round \in Rounds /\ errors \in Nat
    BY <1>2 DEF Barrier, Inv, TypeOK
  <2>2. ErrorsAbort' /\ EndsAfterAll'
    BY <1>2, <2>1 DEF Barrier
  <2>3. Filled'
    <3>1. CASE phase = "forget"
      BY <1>2, <2>1, <3>1 DEF Barrier, Filled, Rounds
    <3>2. CASE phase # "forget"
      BY <1>2, <2>1, <3>2 DEF Barrier, Filled
    <3> QED
      BY <3>1, <3>2
  <2> QED
    BY <2>2, <2>3
<1>3. ASSUME NEW a \in Peers, VoteStep(a) \/ Seal(a) \/ Forget(a)
      PROVE  Progress'
  BY <1>3 DEF VoteStep, Query, QueryFails, Broadcast, Seal, Forget, Filled
<1>4. ASSUME NEW a \in Peers, DecideStep(a) PROVE Progress'
  <2>1. a \in Honest /\ phase = "decide"
    BY <1>4 DEF DecideStep, DecideByMajority, DecideAtSource, DecideFails, Inv,
         TypeOK
  <2>2. CASE DecideByMajority(a) \/ DecideAtSource(a)
    <3>1. UNCHANGED <<round, phase, errors>> /\ todo' = todo \ {a}
      BY <2>2 DEF DecideByMajority, DecideAtSource
    <3> QED
      BY <2>1, <2>2, <3>1, DecidedIsBit DEF Filled
  <2>3. CASE DecideFails(a)
    <3>1. errors' # 0
      BY <2>3 DEF DecideFails, Inv, TypeOK
    <3> QED
      BY <2>1, <2>3, <3>1 DEF DecideFails, Filled
  <2> QED
    BY <1>4, <2>2, <2>3 DEF DecideStep
<1>5. ASSUME NEW q \in late, CheckSeal(q) \/ AppendLate(q) PROVE Progress'
  BY <1>5 DEF CheckSeal, AppendLate, Filled
<1>6. CASE UNCHANGED vars
  BY <1>6 DEF vars, Filled
<1> QED
  BY <1>1, <1>2, <1>3, <1>4, <1>5, <1>6
     DEF Next, Program, PeerStep, Handlers, Terminated

\* A run that reports results has every bit at every honest peer.
THEOREM CompleteCorrect == Spec => []CompleteAtEnd
<1>1. Init => Progress
  BY DEF Init, Progress, ErrorsAbort, Filled, EndsAfterAll, Rounds
<1>2. Inv /\ Progress => CompleteAtEnd
  BY ParametersAssumption
     DEF Progress, Filled, EndsAfterAll, CompleteAtEnd, Rounds
<1> QED
  BY <1>1, <1>2, ProgressNext, InvInit, InvNext, PTL DEF Spec

----------------------------------------------------------------------------
(* The queries add up *)

Smooth == faults = 0 /\ overruns = 0 /\ errors = 0

\* The queries of a peer that gave it nothing, and the one it is bound to lose
\* because its round has overrun.
Wasted(a) == sourceQueries[a] - primaryQueries[a] - verifyQueries[a]
Doomed(a) == phase = "vote" /\ expired /\ a \in todo \ queried
Due(a)    == Wasted(a) + (IF Doomed(a) THEN 1 ELSE 0)

\* A query fails only after something went wrong, and each for its own cause.
Counters ==
  /\ expired => overruns > 0
  /\ \A a \in Honest : 0 <= Wasted(a) /\ Due(a) <= faults + overruns + errors

\* What went wrong is never undone.
LEMMA TroubleGrows ==
  ASSUME Inv, [Next]_vars
  PROVE  faults <= faults' /\ overruns <= overruns' /\ errors <= errors'
<1> USE DEF storeVars, outputVars, envVars
<1>1. CASE \E a \in Peers : Broadcast(a)
  <2>1. PICK a \in Peers : Broadcast(a)
    BY <1>1
  <2>2. PICK outcome \in [Honest \ {a} -> Outcome] :
          /\ faults' = faults + Cost(outcome)
          /\ UNCHANGED errors \/ errors' = errors + 1
    BY <2>1 DEF Broadcast
  <2>3. Cost(outcome) \in Nat
    BY CostIsNat
  <2> QED
    BY <2>1, <2>2, <2>3 DEF Inv, TypeOK, Broadcast
<1>2. CASE ~\E a \in Peers : Broadcast(a)
  BY <1>2 DEF Next, Program, Handlers, Terminated, PeerStep, VoteStep,
     DecideStep, StartRound, Barrier, Deadline, CheckSeal, AppendLate, Query,
     QueryFails, Seal, DecideByMajority, DecideAtSource, DecideFails, Forget,
     vars, Inv, TypeOK
<1> QED
  BY <1>1, <1>2

LEMMA SmoothBefore ==
  ASSUME Inv, [Next]_vars, Smooth'
  PROVE  Smooth
BY TroubleGrows, InvNext DEF Smooth, Inv, TypeOK

\* A sum grows with its parts.
LEMMA SumGrows ==
  ASSUME NEW i \in Nat, NEW j \in Nat, NEW k \in Nat,
         NEW l \in Nat, NEW m \in Nat, NEW n \in Nat,
         i <= l, j <= m, k <= n
  PROVE  /\ i + j + k \in Nat /\ l + m + n \in Nat
         /\ i + j + k <= l + m + n
         /\ i + 1 <= l \/ j + 1 <= m \/ k + 1 <= n
              => (i + j + k) + 1 <= l + m + n
OBVIOUS

\* A query that fails has its own cause: the round that overran, a request
\* that timed out, or one that gave up.
LEMMA WasteHasCause ==
  ASSUME Inv, NEW h \in Honest, Counters, [Next]_vars
  PROVE  0 <= Wasted(h)' /\ Due(h)' <= (faults + overruns + errors)'
<1> USE DEF storeVars, outputVars, envVars, roundVars
<1> DEFINE trouble == faults + overruns + errors
<1>1. /\ Wasted(h) \in Int /\ 0 <= Wasted(h) /\ Due(h) <= trouble
      /\ faults \in Nat /\ overruns \in Nat /\ errors \in Nat
      /\ trouble \in Nat
  BY DEF Counters, Inv, TypeOK, Wasted
<1>2. /\ faults' \in Nat /\ overruns' \in Nat /\ errors' \in Nat
      /\ faults <= faults' /\ overruns <= overruns' /\ errors <= errors'
  BY InvNext, TroubleGrows DEF Inv, TypeOK
<1>3. /\ trouble' \in Nat /\ trouble <= trouble'
      /\ faults + 1 <= faults' \/ overruns + 1 <= overruns' \/ errors + 1 <= errors'
           => trouble + 1 <= trouble'
  BY <1>1, <1>2, SumGrows
<1> SUFFICES 0 <= Wasted(h)' /\ Due(h)' <= trouble'
  OBVIOUS
<1> HIDE DEF trouble
<1>types. /\ sourceQueries \in [Honest -> Nat]
          /\ primaryQueries \in [Honest -> Nat]
          /\ verifyQueries \in [Honest -> Nat]
  BY DEF Inv, TypeOK
<1>4. ASSUME Wasted(h)' = Wasted(h), Doomed(h)' => Doomed(h)
      PROVE  0 <= Wasted(h)' /\ Due(h)' <= trouble'
  BY <1>3, <1>1, <1>4 DEF Due
<1>5. ASSUME Wasted(h)' = Wasted(h) + 1, ~Doomed(h)',
             trouble + 1 <= trouble'
      PROVE  0 <= Wasted(h)' /\ Due(h)' <= trouble'
  <2>1. Due(h)' = Wasted(h) + 1 /\ Wasted(h) <= trouble
    BY <1>1, <1>5 DEF Due
  <2> QED
    BY <1>3, <1>1, <1>5, <2>1
<1>6. CASE Deadline
  <2>1. /\ Wasted(h)' = Wasted(h) /\ overruns' = overruns + 1
        /\ ~Doomed(h)
    BY <1>6 DEF Deadline, Wasted, Doomed
  <2>2. trouble + 1 <= trouble' /\ Due(h) = Wasted(h)
    BY <1>3, <1>1, <1>2, <2>1 DEF Due
  <2> QED
    BY <1>3, <1>1, <2>1, <2>2 DEF Due
<1>7. ASSUME NEW a \in Peers, Query(a)
      PROVE  Wasted(h)' = Wasted(h) /\ (Doomed(h)' => Doomed(h))
  BY <1>types, <1>7 DEF Query, Wasted, Doomed
<1>8. ASSUME NEW a \in Peers, DecideAtSource(a)
      PROVE  Wasted(h)' = Wasted(h) /\ (Doomed(h)' => Doomed(h))
  BY <1>types, <1>8 DEF DecideAtSource, Wasted, Doomed
<1>9. ASSUME NEW a \in Peers, QueryFails(a)
      PROVE  0 <= Wasted(h)' /\ Due(h)' <= trouble'
  <2>1. CASE a # h
    BY <1>types, <1>4, <1>9, <2>1 DEF QueryFails, Wasted, Doomed
  <2>2. CASE a = h
    <3>1. Wasted(h)' = Wasted(h) + 1 /\ ~Doomed(h)'
      BY <1>types, <1>9, <2>2 DEF QueryFails, Wasted, Doomed
    <3>2. CASE expired
      <4>1. Doomed(h)
        BY <1>9, <2>2, <3>2 DEF QueryFails, Doomed
      <4>2. Due(h) = Wasted(h) + 1 /\ Due(h)' = Wasted(h) + 1
        BY <1>1, <3>1, <4>1 DEF Due
      <4> QED
        BY <1>3, <1>1, <3>1, <4>2
    <3>3. CASE ~expired
      <4>1. faults' = faults + 1 \/ errors' = errors + 1
        BY <1>9, <3>3 DEF QueryFails
      <4>2. trouble + 1 <= trouble'
        BY <1>3, <1>1, <1>2, <4>1
      <4> QED
        BY <1>5, <3>1, <4>2
    <3> QED
      BY <3>2, <3>3
  <2> QED
    BY <2>1, <2>2
<1>10. ASSUME NEW a \in Peers, DecideFails(a)
       PROVE  0 <= Wasted(h)' /\ Due(h)' <= trouble'
  <2>1. phase' = "decide" /\ errors' = errors + 1
    BY <1>10 DEF DecideFails
  <2>2. ~Doomed(h)' /\ ~Doomed(h)
    BY <1>10, <2>1 DEF DecideFails, Doomed
  <2>3. Wasted(h)' = Wasted(h) \/ Wasted(h)' = Wasted(h) + 1
    BY <1>types, <1>10 DEF DecideFails, Wasted
  <2>4. trouble + 1 <= trouble'
    BY <1>3, <1>1, <1>2, <2>1
  <2> QED
    BY <1>4, <1>5, <2>2, <2>3, <2>4
<1>11. CASE UNCHANGED <<sourceQueries, primaryQueries, verifyQueries>>
  <2>1. Wasted(h)' = Wasted(h)
    BY <1>11 DEF Wasted
  <2>2. CASE StartRound
    BY <1>4, <2>1, <2>2 DEF StartRound, Doomed
  <2>3. CASE Barrier
    <3>1. phase' # "vote"
      BY <2>3 DEF Barrier, Inv, TypeOK
    <3> QED
      BY <1>4, <2>1, <3>1 DEF Doomed
  <2>4. CASE todo' \subseteq todo /\ UNCHANGED <<phase, expired, queried>>
    BY <1>4, <2>1, <2>4 DEF Doomed
  <2>5. ASSUME NEW a \in Peers,
               Query(a) \/ QueryFails(a) \/ DecideAtSource(a) \/ DecideFails(a)
        PROVE  0 <= Wasted(h)' /\ Due(h)' <= trouble'
    BY <1>4, <1>7, <1>8, <1>9, <1>10, <2>5
  <2> QED
    BY <1>6, <2>2, <2>3, <2>4, <2>5 DEF Next, Program, Handlers, Terminated,
       PeerStep, VoteStep, DecideStep, CheckSeal, AppendLate, Broadcast, Seal,
       DecideByMajority, Forget, vars
<1> QED
  BY <1>4, <1>6, <1>7, <1>8, <1>9, <1>10, <1>11 DEF Next, Program, Handlers,
     Terminated, PeerStep, VoteStep, DecideStep, StartRound, Barrier, CheckSeal,
     AppendLate, Broadcast, Seal, DecideByMajority, Forget, vars

\* Every step keeps the counters.
LEMMA CountersNext == Inv /\ Counters /\ [Next]_vars => Counters'
<1> SUFFICES ASSUME Inv, Counters, [Next]_vars PROVE Counters'
  OBVIOUS
<1> USE DEF storeVars, outputVars, envVars, roundVars
<1>1. (expired => overruns > 0)'
  <2>1. CASE StartRound
    BY <2>1 DEF StartRound
  <2>2. CASE Deadline
    BY <2>2 DEF Deadline, Inv, TypeOK
  <2>3. CASE UNCHANGED <<expired, overruns>>
    BY <2>3 DEF Counters
  <2> QED
    BY <2>1, <2>2, <2>3 DEF Next, Program, Handlers, Terminated, PeerStep,
       VoteStep, DecideStep, Barrier, CheckSeal, AppendLate, Query, QueryFails,
       Broadcast, Seal, DecideByMajority, DecideAtSource, DecideFails, Forget,
       vars
<1>2. \A h \in Honest :
        0 <= Wasted(h)' /\ Due(h)' <= (faults + overruns + errors)'
  BY WasteHasCause
<1> QED
  BY <1>1, <1>2 DEF Counters

LEMMA CountersInit == Init => Counters
BY DEF Init, Counters, Wasted, Due, Doomed

\* Q is the committee queries, the conflict queries and at most one failed
\* query for each request lost or given up and each round that overran.
THEOREM LedgerCorrect == Spec => []QueryLedger
<1>1. Inv /\ Counters => QueryLedger
  <2> SUFFICES ASSUME Inv, Counters, NEW a \in Honest
               PROVE  Wasted(a) \in 0 .. faults + overruns + errors
    BY DEF QueryLedger, Wasted
  <2>1. /\ Wasted(a) \in Int /\ faults \in Nat /\ overruns \in Nat
        /\ errors \in Nat
    BY DEF Inv, TypeOK, Wasted
  <2>2. 0 <= Wasted(a) /\ Due(a) <= faults + overruns + errors
    BY DEF Counters
  <2> QED
    BY <2>1, <2>2 DEF Due
<1> QED
  BY <1>1, CountersInit, CountersNext, InvInit, InvNext, PTL DEF Spec

----------------------------------------------------------------------------
(* The stores are empty between rounds *)

\* A broadcast without a fault puts the same single vote into every store that
\* is open, and leaves nothing on the way.
LEMMA CleanBroadcast ==
  ASSUME Inv, NEW a \in Peers, Broadcast(a), faults' = 0
  PROVE  /\ faults = 0 /\ late' = late
         /\ \E value \in VoteValues(a) :
              messages' = [h \in Honest |-> Received(h, OwnCopy(a, value))]
<1>1. PICK value \in VoteValues(a), outcome \in [Honest \ {a} -> Outcome] :
        /\ faults' = faults + Cost(outcome)
        /\ messages' = [h \in Honest |-> Received(h,
             IF h = a THEN OwnCopy(a, value)
                      ELSE Copies(a, value, 1, outcome[h].stored))]
        /\ late' = late \cup Strays(a, value, outcome)
  BY DEF Broadcast
<1>2. faults = 0 /\ Cost(outcome) = 0
  <2>1. Cost(outcome) \in Nat /\ faults \in Nat
    BY CostIsNat DEF Inv, TypeOK
  <2> QED
    BY <1>1, <2>1
<1>3. \A h \in Honest \ {a} : outcome[h] = Once
  <2> DEFINE odd   == {h \in DOMAIN outcome : outcome[h] # Once}
             twice == {h \in odd : outcome[h].stored + outcome[h].stray > 1}
  <2>1. odd \subseteq Honest /\ twice \subseteq Honest
    OBVIOUS
  <2>2. IsFiniteSet(odd) /\ IsFiniteSet(twice)
    BY <2>1, HonestFinite, FS_Subset
  <2>3. Cardinality(odd) \in Nat /\ Cardinality(twice) \in Nat
    BY <2>2, FS_CardinalityType
  <2>4. Cost(outcome) = IF expired /\ odd # {} THEN 1 + Cardinality(twice)
                                               ELSE Cardinality(odd)
    BY DEF Cost
  <2>5. Cardinality(odd) = 0 <=> odd = {}
    BY <2>2, FS_EmptySet
  <2>6. odd = {}
    <3> HIDE DEF odd, twice
    <3> QED
      BY <1>2, <2>3, <2>4, <2>5
  <2> QED
    BY <2>6
<1>4. Strays(a, value, outcome) = {}
  <2>1. \A h \in DOMAIN outcome :
          Copies(a, value, outcome[h].stored + 1,
                 outcome[h].stored + outcome[h].stray) = {}
    BY <1>3 DEF Once, Copies
  <2>2. \A h \in DOMAIN outcome :
          [to : {h}, checked : {FALSE},
           msg : Copies(a, value, outcome[h].stored + 1,
                        outcome[h].stored + outcome[h].stray)] = {}
    BY <2>1
  <2> QED
    BY <2>2 DEF Strays
<1>5. \A h \in Honest : (IF h = a THEN OwnCopy(a, value)
                         ELSE Copies(a, value, 1, outcome[h].stored))
                          = OwnCopy(a, value)
  BY <1>3 DEF Once, OwnCopy
<1> QED
  BY <1>1, <1>2, <1>4, <1>5

\* Without a fault, the stores hold votes of this round only, and none of it
\* is left when it is over.
Fresh ==
  faults = 0 =>
    /\ late = {}
    /\ \A a \in Honest : \A m \in messages[a] : m.round = round
    /\ \A a \in Honest :
         phase \in {"start", "done"} \/ (phase = "forget" /\ a \notin todo)
           => messages[a] = {}

\* Every step keeps the stores fresh.
LEMMA FreshNext == Inv /\ Fresh /\ [Next]_vars => Fresh'
<1> SUFFICES ASSUME Inv, Fresh, [Next]_vars, faults' = 0
             PROVE  /\ late' = {}
                    /\ \A a \in Honest : \A m \in messages'[a] : m.round = round'
                    /\ \A a \in Honest :
                         phase' \in {"start", "done"}
                           \/ (phase' = "forget" /\ a \notin todo')
                             => messages'[a] = {}
  BY DEF Fresh
<1> USE DEF storeVars, outputVars, envVars, roundVars
<1>1. CASE \E a \in Peers : Broadcast(a)
  <2>1. PICK a \in Peers : Broadcast(a)
    BY <1>1
  <2>2. faults = 0 /\ late' = late
    BY <2>1, CleanBroadcast
  <2>3. PICK value \in VoteValues(a) :
          messages' = [h \in Honest |-> Received(h, OwnCopy(a, value))]
    BY <2>1, CleanBroadcast
  <2>4. round' = round /\ phase = "vote" /\ phase' = "vote"
    BY <2>1 DEF Broadcast
  <2>5. \A m \in OwnCopy(a, value) : m.round = round
    BY DEF OwnCopy, Copies
  <2> QED
    BY <2>2, <2>3, <2>4, <2>5 DEF Fresh, Received
<1>2. CASE Barrier
  <2>1. faults = 0 /\ round \in Rounds /\ UNCHANGED <<messages, late>>
    BY <1>2 DEF Barrier, Inv, TypeOK
  <2>2. CASE phase = "forget"
    BY <1>2, <2>1, <2>2 DEF Barrier, Fresh
  <2>3. CASE phase # "forget"
    <3>1. errors \in Nat /\ phase \in {"vote", "seal", "decide"}
      BY <1>2, <2>3 DEF Barrier, Inv, TypeOK
    <3>2. round' = round /\ phase' \in {"seal", "decide", "forget", "aborted"}
      BY <1>2, <2>3, <3>1 DEF Barrier
    <3>3. phase' = "forget" => todo' = Honest
      BY <1>2 DEF Barrier
    <3> QED
      BY <2>1, <3>2, <3>3 DEF Fresh
  <2> QED
    BY <2>2, <2>3
<1>3. ASSUME NEW a \in Peers, Forget(a) PROVE Fresh'
  <2>1. /\ a \in Honest /\ phase = "forget" /\ todo' = todo \ {a}
        /\ messages' = [messages EXCEPT ![a] = {m \in @ : m.round # round}]
        /\ UNCHANGED <<round, phase, late, faults>>
    BY <1>3 DEF Forget, NextInLine, Inv, TypeOK
  <2>2. messages \in [Honest -> SUBSET Message]
    BY DEF Inv, TypeOK
  <2> QED
    BY <2>1, <2>2 DEF Fresh
<1>4. ASSUME NEW q \in late, CheckSeal(q) \/ AppendLate(q) PROVE FALSE
  BY <1>4 DEF CheckSeal, AppendLate, Fresh
<1>5. ASSUME NEW a \in Peers, QueryFails(a), faults' = 0 PROVE faults = 0
  BY <1>5 DEF QueryFails, Inv, TypeOK
<1>6. CASE \E a \in Peers : Query(a) \/ QueryFails(a) \/ Seal(a) \/ DecideStep(a)
  <2>1. UNCHANGED <<round, phase, messages, late>> /\ faults = 0
    BY <1>5, <1>6 DEF Query, QueryFails, Seal, DecideStep, DecideByMajority,
       DecideAtSource, DecideFails
  <2>2. phase \in {"vote", "seal", "decide"}
    BY <1>6 DEF Query, QueryFails, Seal, DecideStep, DecideByMajority,
       DecideAtSource, DecideFails
  <2> QED
    BY <2>1, <2>2 DEF Fresh
<1>7. CASE StartRound \/ Deadline \/ UNCHANGED vars
  BY <1>7 DEF StartRound, Deadline, vars, Fresh
<1> QED
  BY <1>1, <1>2, <1>3, <1>4, <1>6, <1>7
     DEF Next, Program, PeerStep, VoteStep, Handlers, Terminated, Fresh

----------------------------------------------------------------------------
(* Honest peers agree between rounds *)

\* No store is ahead of the round, so all of them are open for its votes.
SealsInOrder ==
  \A h \in Honest : /\ sealedRound[h] <= round
                    /\ phase \in {"start", "vote"} => sealedRound[h] < round

\* Every step keeps the seals in order.
LEMMA SealsNext == Inv /\ SealsInOrder /\ [Next]_vars => SealsInOrder'
<1> SUFFICES ASSUME Inv, SealsInOrder, [Next]_vars PROVE SealsInOrder'
  OBVIOUS
<1> USE DEF storeVars, outputVars, envVars, roundVars
<1>1. round \in Int /\ \A h \in Honest : sealedRound[h] \in Int
  BY ParametersAssumption DEF Inv, TypeOK, Rounds
<1>2. CASE Barrier
  BY <1>1, <1>2 DEF Barrier, SealsInOrder, Inv, TypeOK
<1>3. ASSUME NEW a \in Peers, Seal(a) PROVE SealsInOrder'
  BY <1>1, <1>3 DEF Seal, SealsInOrder, Inv, TypeOK
<1>4. CASE StartRound
  BY <1>1, <1>4 DEF StartRound, SealsInOrder
<1>5. CASE UNCHANGED <<sealedRound, round, phase>>
  BY <1>5 DEF SealsInOrder
<1> QED
  BY <1>2, <1>3, <1>4, <1>5 DEF Next, Program, Handlers, Terminated, PeerStep,
     VoteStep, DecideStep, Deadline, CheckSeal, AppendLate, Query, QueryFails,
     Broadcast, DecideByMajority, DecideAtSource, DecideFails, Forget, vars

\* What decideBit makes of the votes and the blacklist of a peer.
NewBit(a) == IF NeedsSource(a) THEN object[round]
             ELSE Majority(RoundVotes(a), blacklist[a])
NewBlacklist(a) ==
  blacklist[a] \cup (IF Conflicted(a)
                     THEN Losers(RoundVotes(a), blacklist[a], object[round])
                     ELSE {})

\* decideBit does just that.
LEMMA DecideSets ==
  ASSUME Inv, NEW a \in Honest, DecideByMajority(a) \/ DecideAtSource(a)
  PROVE  /\ bits' = [bits EXCEPT ![a] = [bits[a] EXCEPT ![round] = NewBit(a)]]
         /\ blacklist' = [blacklist EXCEPT ![a] = NewBlacklist(a)]
         /\ todo' = todo \ {a} /\ a \in todo /\ phase = "decide"
         /\ UNCHANGED <<object, round, phase, messages, faults, errors>>
<1> USE DEF storeVars, outputVars, envVars
<1>1. bits \in [Honest -> [Rounds -> Bit \cup {NoBit}]] /\ round \in Rounds
  BY DEF Inv, TypeOK, DecideByMajority, DecideAtSource
<1>2. CASE DecideByMajority(a)
  <2>1. NewBit(a) = Majority(RoundVotes(a), blacklist[a]) /\ ~Conflicted(a)
    BY <1>2 DEF DecideByMajority, NewBit, NeedsSource
  <2>2. NewBlacklist(a) = blacklist[a] /\ blacklist' = blacklist
    BY <1>2, <2>1 DEF DecideByMajority, NewBlacklist
  <2>3. blacklist' = [blacklist EXCEPT ![a] = NewBlacklist(a)]
    BY <2>2 DEF Inv, TypeOK
  <2> QED
    BY <1>1, <1>2, <2>1, <2>3 DEF DecideByMajority
<1>3. CASE DecideAtSource(a)
  <2>1. NewBit(a) = object[round]
    BY <1>3 DEF DecideAtSource, NewBit
  <2>2. blacklist' = [blacklist EXCEPT ![a] = NewBlacklist(a)]
    BY <1>3 DEF DecideAtSource, NewBlacklist
  <2> QED
    BY <1>1, <1>3, <2>1, <2>2 DEF DecideAtSource
<1> QED
  BY <1>2, <1>3

\* Two peers are at the same point.
Alike(a, b) == bits[a] = bits[b] /\ blacklist[a] = blacklist[b]

\* Peer a is where decideBit will take peer b.
Ahead(a, b) == /\ bits[a] = [bits[b] EXCEPT ![round] = NewBit(b)]
               /\ blacklist[a] = NewBlacklist(b)

\* Without a fault all honest peers hold the same votes, and those that have
\* decided are where the others will be.
Agreeing ==
  faults = 0 =>
    \A a, b \in Honest :
      /\ phase \in {"vote", "seal", "decide"} => messages[a] = messages[b]
      /\ phase \in {"start", "vote", "seal", "forget", "done"} => Alike(a, b)
      /\ phase = "decide" /\ errors = 0 =>
           /\ (a \in todo <=> b \in todo) => Alike(a, b)
           /\ a \notin todo /\ b \in todo => Ahead(a, b)

\* Peers with the same votes, and alike, decide alike.
LEMMA DecideAlike ==
  ASSUME NEW a, NEW b, messages[a] = messages[b], blacklist[a] = blacklist[b]
  PROVE  NewBit(a) = NewBit(b) /\ NewBlacklist(a) = NewBlacklist(b)
BY DEF NewBit, NewBlacklist, NeedsSource, Conflicted, RoundVotes

\* A peer decides.
LEMMA AgreeDecide ==
  ASSUME Inv, Agreeing, NEW c \in Honest,
         DecideByMajority(c) \/ DecideAtSource(c)
  PROVE  Agreeing'
<1>1. /\ bits' = [bits EXCEPT ![c] = [bits[c] EXCEPT ![round] = NewBit(c)]]
      /\ blacklist' = [blacklist EXCEPT ![c] = NewBlacklist(c)]
      /\ todo' = todo \ {c} /\ c \in todo /\ phase = "decide"
      /\ UNCHANGED <<object, round, phase, messages, faults, errors>>
  BY DecideSets
<1>2. bits'[c] = [bits[c] EXCEPT ![round] = NewBit(c)]
      /\ blacklist'[c] = NewBlacklist(c)
  BY <1>1 DEF Inv, TypeOK
<1>3. ASSUME NEW d \in Honest, d # c
      PROVE  /\ bits'[d] = bits[d] /\ blacklist'[d] = blacklist[d]
             /\ NewBit(d)' = NewBit(d) /\ NewBlacklist(d)' = NewBlacklist(d)
  <2>1. bits'[d] = bits[d] /\ blacklist'[d] = blacklist[d]
    BY <1>1, <1>3 DEF Inv, TypeOK
  <2> QED
    BY <1>1, <2>1
       DEF NewBit, NewBlacklist, NeedsSource, Conflicted, RoundVotes
<1> SUFFICES ASSUME faults = 0, errors = 0, NEW a \in Honest, NEW b \in Honest
             PROVE  /\ (a \in todo' <=> b \in todo') => Alike(a, b)'
                    /\ a \notin todo' /\ b \in todo' => Ahead(a, b)'
  BY <1>1 DEF Agreeing
<1>4. ASSUME NEW d \in Honest, d \in todo
      PROVE  NewBit(d) = NewBit(c) /\ NewBlacklist(d) = NewBlacklist(c)
             /\ bits[d] = bits[c] /\ blacklist[d] = blacklist[c]
  BY <1>1, <1>4, DecideAlike DEF Agreeing, Alike
<1>5. ASSUME NEW d \in Honest, d \notin todo
      PROVE  /\ bits[d] = [bits[c] EXCEPT ![round] = NewBit(c)]
             /\ blacklist[d] = NewBlacklist(c)
  BY <1>1, <1>5 DEF Agreeing, Ahead
<1>6. CASE a \in todo' /\ b \in todo'
  BY <1>1, <1>3, <1>4, <1>6 DEF Alike
<1>7. CASE a \notin todo' /\ b \notin todo'
  BY <1>1, <1>2, <1>3, <1>5, <1>7 DEF Alike
<1>8. CASE a \notin todo' /\ b \in todo'
  <2>1. b # c /\ b \in todo
    BY <1>1, <1>8
  <2>2. bits'[a] = [bits[c] EXCEPT ![round] = NewBit(c)]
        /\ blacklist'[a] = NewBlacklist(c)
    BY <1>1, <1>2, <1>3, <1>5, <1>8
  <2>3. /\ bits'[b] = bits[c] /\ NewBit(b)' = NewBit(c)
        /\ NewBlacklist(b)' = NewBlacklist(c)
    BY <1>3, <1>4, <2>1
  <2> QED
    BY <1>1, <1>8, <2>2, <2>3 DEF Ahead
<1> QED
  BY <1>6, <1>7, <1>8

\* Every step keeps the agreement.
LEMMA AgreeNext ==
  Inv /\ Progress /\ Fresh /\ SealsInOrder /\ Agreeing /\ [Next]_vars
    => Agreeing'
<1> SUFFICES ASSUME Inv, Progress, Fresh, SealsInOrder, Agreeing, [Next]_vars,
                    faults' = 0
             PROVE  Agreeing'
  BY DEF Agreeing
<1> USE DEF storeVars, outputVars, envVars, roundVars
<1>1. CASE StartRound
  <2>1. /\ phase = "start" /\ phase' = "vote"
        /\ UNCHANGED <<messages, bits, blacklist, faults>>
    BY <1>1 DEF StartRound
  <2> QED
    BY <2>1 DEF Agreeing, Fresh, Alike
<1>2. CASE Barrier
  <2>1. /\ UNCHANGED <<messages, bits, blacklist, faults, errors, object>>
        /\ todo = {} /\ errors \in Nat
    BY <1>2 DEF Barrier, Inv, TypeOK
  <2>2. CASE phase = "vote" \/ phase = "forget"
    <3>1. phase = "vote" => phase' \in {"seal", "aborted"}
      BY <1>2, <2>1 DEF Barrier
    <3>2. phase = "forget" => phase' \in {"start", "done"}
      BY <1>2 DEF Barrier
    <3> QED
      BY <2>1, <2>2, <3>1, <3>2 DEF Agreeing, Alike
  <2>3. CASE phase = "seal"
    <3>1. phase' = "decide" /\ todo' = Honest
      BY <1>2, <2>3 DEF Barrier
    <3> QED
      BY <2>1, <2>3, <3>1 DEF Agreeing, Alike
  <2>4. CASE phase = "decide"
    <3>1. phase' \in {"forget", "aborted"} /\ (phase' = "forget" => errors = 0)
      BY <1>2, <2>1, <2>4 DEF Barrier
    <3> QED
      BY <2>1, <2>4, <3>1 DEF Agreeing, Alike
  <2> QED
    BY <1>2, <2>2, <2>3, <2>4 DEF Barrier
<1>3. ASSUME NEW a \in Peers, Broadcast(a) PROVE Agreeing'
  <2>1. faults = 0
    BY <1>3, CleanBroadcast
  <2>2. PICK value \in VoteValues(a) :
          messages' = [h \in Honest |-> Received(h, OwnCopy(a, value))]
    BY <1>3, CleanBroadcast
  <2>3. phase = "vote" /\ UNCHANGED <<round, phase, bits, blacklist>>
    BY <1>3 DEF Broadcast
  <2>4. \A h \in Honest : Open(h, round)
    BY <2>3, ParametersAssumption
       DEF SealsInOrder, Open, Inv, TypeOK, Rounds
  <2>5. \A h \in Honest : messages'[h] = messages[h] \cup OwnCopy(a, value)
    BY <2>2, <2>4 DEF Received
  <2> QED
    BY <2>1, <2>3, <2>5 DEF Agreeing, Alike
<1>4. ASSUME NEW a \in Peers, DecideStep(a) PROVE Agreeing'
  <2>1. a \in Honest /\ phase = "decide"
    BY <1>4 DEF DecideStep, DecideByMajority, DecideAtSource, DecideFails, Inv,
       TypeOK
  <2>2. CASE DecideFails(a)
    <3>1. errors' # 0 /\ UNCHANGED <<phase, messages, faults>>
      BY <2>2 DEF DecideFails, Inv, TypeOK
    <3> QED
      BY <2>1, <3>1 DEF Agreeing
  <2> QED
    BY <1>4, <2>1, <2>2, AgreeDecide DEF DecideStep
<1>5. ASSUME NEW a \in Peers, Forget(a) PROVE Agreeing'
  BY <1>5 DEF Forget, Agreeing, Alike
<1>6. ASSUME NEW a \in Peers, Query(a) \/ QueryFails(a) \/ Seal(a)
      PROVE  Agreeing'
  <2>1. /\ phase \in {"vote", "seal"}
        /\ UNCHANGED <<phase, messages, bits, blacklist>> /\ faults = 0
    BY <1>6 DEF Query, QueryFails, Seal, Inv, TypeOK
  <2> QED
    BY <2>1 DEF Agreeing, Alike
<1>7. ASSUME NEW q \in late, CheckSeal(q) \/ AppendLate(q) PROVE FALSE
  BY <1>7 DEF CheckSeal, AppendLate, Fresh
<1>8. CASE Deadline
  BY <1>8 DEF Deadline, Agreeing, Alike
<1>9. CASE UNCHANGED vars
  <2>1. UNCHANGED <<faults, errors, phase, todo, round, object, messages, bits,
                    blacklist>>
    BY <1>9 DEF vars
  <2>2. \A b \in Honest : NewBit(b)' = NewBit(b) /\ NewBlacklist(b)' = NewBlacklist(b)
    BY <2>1 DEF NewBit, NewBlacklist, NeedsSource, Conflicted, RoundVotes
  <2>3. ASSUME NEW a \in Honest, NEW b \in Honest
        PROVE  /\ phase \in {"vote", "seal", "decide"} => messages[a] = messages[b]
               /\ phase \in {"start", "vote", "seal", "forget", "done"}
                    => Alike(a, b)'
               /\ phase = "decide" /\ errors = 0 =>
                    /\ (a \in todo <=> b \in todo) => Alike(a, b)'
                    /\ a \notin todo /\ b \in todo => Ahead(a, b)'
    <3>1. Alike(a, b)' <=> Alike(a, b)
      BY <2>1 DEF Alike
    <3>2. Ahead(a, b)' <=> Ahead(a, b)
      BY <2>1, <2>2 DEF Ahead
    <3> QED
      BY <2>1, <3>1, <3>2 DEF Agreeing
  <2> QED
    BY <2>1, <2>3 DEF Agreeing
<1> QED
  BY <1>1, <1>2, <1>3, <1>4, <1>5, <1>6, <1>7, <1>8, <1>9
     DEF Next, Program, PeerStep, VoteStep, Handlers, Terminated

RoundInv == Inv /\ Progress /\ Fresh /\ SealsInOrder /\ Agreeing

\* It holds at the start, and every step keeps it.
LEMMA RoundInvInit == Init => RoundInv
<1> SUFFICES ASSUME Init PROVE RoundInv
  OBVIOUS
<1>1. Progress /\ Fresh
  BY DEF Init, Progress, ErrorsAbort, Filled, EndsAfterAll, Rounds, Fresh
<1>2. SealsInOrder
  BY DEF Init, SealsInOrder
<1>3. Agreeing
  BY DEF Init, Agreeing, Alike
<1> QED
  BY <1>1, <1>2, <1>3, InvInit DEF RoundInv

LEMMA RoundInvNext == RoundInv /\ [Next]_vars => RoundInv'
BY InvNext, ProgressNext, FreshNext, SealsNext, AgreeNext DEF RoundInv

\* So it holds throughout.
LEMMA RoundInvHolds == Spec => []RoundInv
BY RoundInvInit, RoundInvNext, PTL DEF Spec

\* The blacklist of any honest peer is representative, and so are its bits,
\* between rounds of a run in which every message is stored exactly once.
THEOREM AgreementCorrect == Spec => []SyncAgreement
<1>1. RoundInv => SyncAgreement
  BY DEF RoundInv, Agreeing, Alike, SyncAgreement
<1> QED
  BY <1>1, RoundInvHolds, PTL
----------------------------------------------------------------------------
(* The drip adversary *)

\* A set of naturals has a least element.
LEMMA LeastNatural ==
  ASSUME NEW S \in SUBSET Nat, S # {}
  PROVE  \E n \in S : \A m \in S : n <= m
<1> DEFINE R == {ss \in Nat \X Nat : ss[1] < ss[2]}
<1>1. IsWellFoundedOn(R, Nat)
  BY NatLessThanWellFounded DEF OpToRel
<1>2. \A m, n \in Nat : ~(<<m, n>> \in R) => n <= m
  OBVIOUS
<1> HIDE DEF R
<1>3. \E n \in S : \A m \in S : ~(<<m, n>> \in R)
  BY <1>1, WFMin
<1> QED
  BY <1>2, <1>3

\* The representative peer is an honest one, the first of them.
LEMMA RepIsHonest == RepHonest \in Honest
<1>1. Peers \in SUBSET Nat
  BY ParametersAssumption DEF Peers
<1>2. Honest \in SUBSET Nat /\ Honest # {}
  BY <1>1, ParametersAssumption DEF Honest
<1>3. \E h \in Honest : \A g \in Honest : h <= g
  BY <1>2, LeastNatural
<1> QED
  BY <1>3 DEF RepHonest

\* Nobody votes who is already on the blacklist of the representative.
Silenced ==
  Adversary = "drip" =>
    /\ phase \in {"vote", "seal"} => exposed \cap blacklist[RepHonest] = {}
    /\ phase = "vote" => todo \subseteq Honest \cup exposed
    /\ faults = 0 /\ phase \in {"vote", "seal"} =>
         \A a \in Honest : \A m \in messages[a] :
           m.sender \in Honest \cup exposed

\* Every step keeps that.
LEMMA SilencedNext ==
  Inv /\ Fresh /\ Silenced /\ [Next]_vars => Silenced'
<1> SUFFICES ASSUME Inv, Fresh, Silenced, [Next]_vars, Adversary = "drip"
             PROVE  Silenced'
  BY DEF Silenced
<1> USE DEF storeVars, outputVars, envVars, roundVars
<1>1. CASE StartRound
  <2>1. /\ phase = "start" /\ phase' = "vote" /\ exposed' = FirstLive
        /\ committee' \subseteq Honest /\ todo' = committee' \cup exposed'
        /\ UNCHANGED <<messages, blacklist, faults>>
    BY <1>1 DEF StartRound
  <2>2. FirstLive \cap blacklist[RepHonest] = {}
    BY DEF FirstLive
  <2> QED
    BY <2>1, <2>2 DEF Silenced, Fresh
<1>2. CASE Barrier
  <2>1. /\ UNCHANGED <<messages, blacklist, faults, exposed>>
        /\ phase' # "vote" /\ (phase' = "seal" => phase = "vote")
    BY <1>2 DEF Barrier, Inv, TypeOK
  <2> QED
    BY <2>1 DEF Silenced
<1>3. ASSUME NEW a \in Peers, Broadcast(a) PROVE Silenced'
  <2>1. /\ phase = "vote" /\ todo' = todo \ {a} /\ a \in todo
        /\ UNCHANGED <<phase, exposed, blacklist>>
    BY <1>3 DEF Broadcast
  <2>2. ASSUME faults' = 0
        PROVE  \A h \in Honest : \A m \in messages'[h] :
                 m.sender \in Honest \cup exposed
    <3>1. faults = 0
      BY <1>3, <2>2, CleanBroadcast
    <3>2. PICK value \in VoteValues(a) :
            messages' = [h \in Honest |-> Received(h, OwnCopy(a, value))]
      BY <1>3, <2>2, CleanBroadcast
    <3>3. \A m \in OwnCopy(a, value) : m.sender = a
      BY DEF OwnCopy, Copies
    <3> QED
      BY <2>1, <3>1, <3>2, <3>3 DEF Silenced, Received
  <2> QED
    BY <2>1, <2>2 DEF Silenced
<1>4. ASSUME NEW a \in Peers, Query(a) \/ QueryFails(a) \/ Seal(a)
      PROVE  Silenced'
  <2>1. /\ todo' \subseteq todo /\ (faults' = 0 => faults = 0)
        /\ UNCHANGED <<phase, exposed, messages, blacklist>>
    BY <1>4 DEF Query, QueryFails, Seal, Inv, TypeOK
  <2> QED
    BY <2>1 DEF Silenced
<1>5. ASSUME NEW a \in Peers, DecideStep(a) \/ Forget(a) PROVE Silenced'
  <2>1. phase \in {"decide", "forget"} /\ phase' = phase
    BY <1>5 DEF DecideStep, DecideByMajority, DecideAtSource, DecideFails, Forget
  <2> QED
    BY <2>1 DEF Silenced
<1>6. ASSUME NEW q \in late, CheckSeal(q) \/ AppendLate(q) PROVE Silenced'
  <2>1. faults # 0
    BY DEF Fresh
  <2>2. UNCHANGED <<phase, todo, exposed, blacklist, faults>>
    BY <1>6 DEF CheckSeal, AppendLate
  <2> QED
    BY <2>1, <2>2 DEF Silenced
<1>7. CASE Deadline \/ UNCHANGED vars
  BY <1>7 DEF Deadline, vars, Silenced
<1> QED
  BY <1>1, <1>2, <1>3, <1>4, <1>5, <1>6, <1>7
     DEF Next, Program, PeerStep, VoteStep, Handlers, Terminated

\* The peers that drip exposes are more than rho, as long as that many are left.
LEMMA FirstLiveIsEnough ==
  ASSUME Cardinality(Byz \ blacklist[RepHonest]) > Rho
  PROVE  Cardinality(FirstLive) > Rho
<1> DEFINE Live == Byz \ blacklist[RepHonest]
           Below(b) == {c \in Live : c < b}
<1>1. Live \in SUBSET Nat /\ IsFiniteSet(Live)
  <2>1. IsFiniteSet(Peers)
    BY ParametersAssumption, FS_Interval DEF Peers
  <2>2. Peers \in SUBSET Nat
    BY ParametersAssumption DEF Peers
  <2>3. Live \subseteq Peers
    BY ParametersAssumption
  <2> QED
    BY <2>1, <2>2, <2>3, FS_Subset
<1>2. FirstLive = {b \in Live : Cardinality(Below(b)) < Rho + 1}
  BY DEF FirstLive
<1>3. IsFiniteSet(FirstLive) /\ Cardinality(FirstLive) \in Nat
  BY <1>1, <1>2, FS_Subset, FS_CardinalityType
<1>4. ASSUME ~(Cardinality(FirstLive) > Rho) PROVE FALSE
  <2>1. FirstLive # Live
    BY <1>4
  <2>2. Live \ FirstLive # {} /\ Live \ FirstLive \in SUBSET Nat
    BY <1>1, <1>2, <2>1
  <2>3. PICK b \in Live \ FirstLive : \A c \in Live \ FirstLive : b <= c
    BY <2>2, LeastNatural
  <2>4. Below(b) \subseteq FirstLive
    BY <1>1, <2>3
  <2>5. /\ Cardinality(Below(b)) <= Cardinality(FirstLive)
        /\ Cardinality(Below(b)) \in Nat
    BY <1>3, <2>4, FS_Subset, FS_CardinalityType
  <2>6. Cardinality(Below(b)) < Rho + 1
    BY <1>3, <1>4, <2>5, ParametersAssumption
  <2> QED
    BY <1>2, <2>3, <2>6
<1> QED
  BY <1>4

\* What drip lets a peer vote, and whether h has heard it.
DripValue(c) == IF c \in Honest THEN object[round] ELSE 1 - object[round]
Heard(c, h) == \E m \in messages[h] : /\ m.sender = c /\ m.round = round
                                      /\ m.value = DripValue(c)

\* In a smooth round every peer hears every elected and every exposed peer.
Dripping ==
  (Adversary = "drip" /\ Smooth) =>
    /\ phase \in {"vote", "seal"} => exposed = FirstLive
    /\ phase = "vote" =>
         \A c \in (committee \cup exposed) \ todo, h \in Honest : Heard(c, h)
    /\ phase = "seal" =>
         \A c \in committee \cup exposed, h \in Honest : Heard(c, h)

\* Every step keeps that.
LEMMA DrippingNext ==
  RoundInv /\ Counters /\ Dripping /\ [Next]_vars => Dripping'
<1> SUFFICES ASSUME RoundInv, Counters, Dripping, [Next]_vars,
                    Adversary = "drip", Smooth'
             PROVE  Dripping'
  BY DEF Dripping
<1> USE DEF storeVars, outputVars, envVars, roundVars
<1>1. Inv /\ Fresh /\ SealsInOrder /\ Smooth /\ ~expired
  BY SmoothBefore DEF RoundInv, Counters, Smooth
<1>2. /\ phase \in {"vote", "seal"} => exposed = FirstLive
      /\ phase = "vote" =>
           \A c \in (committee \cup exposed) \ todo, h \in Honest : Heard(c, h)
      /\ phase = "seal" =>
           \A c \in committee \cup exposed, h \in Honest : Heard(c, h)
  BY <1>1 DEF Dripping
<1>3. CASE StartRound
  <2>1. /\ phase' = "vote" /\ exposed' = FirstLive /\ blacklist' = blacklist
        /\ todo' = committee' \cup exposed'
    BY <1>3 DEF StartRound
  <2>2. FirstLive' = FirstLive
    BY <2>1 DEF FirstLive, RepHonest
  <2> QED
    BY <2>1, <2>2 DEF Dripping
<1>4. CASE Barrier
  <2>1. /\ UNCHANGED <<exposed, committee, messages, object, blacklist>>
        /\ todo = {} /\ phase' # "vote" /\ (phase' = "seal" => phase = "vote")
        /\ phase # "forget" => round' = round
    BY <1>1, <1>4 DEF Barrier, Inv, TypeOK
  <2>2. FirstLive' = FirstLive
    BY <2>1 DEF FirstLive, RepHonest
  <2>3. round' = round => \A c, h : Heard(c, h)' <=> Heard(c, h)
    BY <2>1 DEF Heard, DripValue
  <2> QED
    BY <1>2, <2>1, <2>2, <2>3 DEF Dripping
<1>5. ASSUME NEW a \in Peers, Broadcast(a) PROVE Dripping'
  <2>1. PICK value \in VoteValues(a) :
          messages' = [h \in Honest |-> Received(h, OwnCopy(a, value))]
    BY <1>1, <1>5, CleanBroadcast DEF Smooth
  <2>2. /\ phase = "vote" /\ phase' = phase /\ todo' = todo \ {a}
        /\ UNCHANGED <<round, object, committee, exposed, blacklist>>
    BY <1>5 DEF Broadcast
  <2>3. \A h \in Honest : messages'[h] = messages[h] \cup OwnCopy(a, value)
    <3>1. \A h \in Honest : Open(h, round)
      BY <1>1, <2>2, ParametersAssumption
         DEF SealsInOrder, Open, Inv, TypeOK, Rounds
    <3> QED
      BY <2>1, <3>1 DEF Received
  <2>4. value = DripValue(a)
    BY DEF VoteValues, DripValue
  <2>5. ASSUME NEW h \in Honest PROVE Heard(a, h)'
    <3> DEFINE m == [sender |-> a, round |-> round, value |-> value, copy |-> 1]
    <3>1. m \in OwnCopy(a, value)
      BY DEF OwnCopy, Copies
    <3>2. m \in messages'[h] /\ m.sender = a /\ m.round = round /\ m.value = value
      BY <2>3, <3>1
    <3> HIDE DEF m
    <3> QED
      BY <2>2, <2>4, <3>2 DEF Heard, DripValue
  <2>6. ASSUME NEW c, NEW h \in Honest, Heard(c, h) PROVE Heard(c, h)'
    BY <2>2, <2>3, <2>6 DEF Heard, DripValue
  <2>7. FirstLive' = FirstLive
    BY <2>2 DEF FirstLive, RepHonest
  <2>8. ASSUME NEW c \in (committee' \cup exposed') \ todo', NEW h \in Honest
        PROVE  Heard(c, h)'
    <3>1. CASE c = a
      BY <2>5, <3>1
    <3>2. CASE c # a
      BY <1>2, <2>2, <2>6, <3>2
    <3> QED
      BY <3>1, <3>2
  <2> QED
    BY <1>2, <2>2, <2>7, <2>8 DEF Dripping
<1>6. ASSUME NEW a \in Peers, QueryFails(a) PROVE FALSE
  BY <1>1, <1>6 DEF QueryFails, Smooth, Inv, TypeOK
<1>7. ASSUME NEW a \in Peers, Query(a) \/ Seal(a) PROVE Dripping'
  <2>1. /\ UNCHANGED <<phase, round, object, committee, exposed, blacklist,
                       messages>>
        /\ phase = "vote" => todo' = todo
    BY <1>7 DEF Query, Seal
  <2>2. FirstLive' = FirstLive /\ \A c, h : Heard(c, h)' <=> Heard(c, h)
    BY <2>1 DEF FirstLive, RepHonest, Heard, DripValue
  <2> QED
    BY <1>2, <2>1, <2>2 DEF Dripping
<1>8. ASSUME NEW a \in Peers, DecideStep(a) \/ Forget(a) PROVE Dripping'
  <2>1. phase \in {"decide", "forget"} /\ phase' = phase
    BY <1>8 DEF DecideStep, DecideByMajority, DecideAtSource, DecideFails, Forget
  <2> QED
    BY <2>1 DEF Dripping
<1>9. ASSUME NEW q \in late, CheckSeal(q) \/ AppendLate(q) PROVE FALSE
  BY <1>1 DEF Fresh, Smooth
<1>10. CASE Deadline \/ UNCHANGED vars
  <2>1. UNCHANGED <<phase, todo, round, object, committee, exposed, blacklist,
                    messages>>
    BY <1>10 DEF Deadline, vars
  <2>2. FirstLive' = FirstLive /\ \A c, h : Heard(c, h)' <=> Heard(c, h)
    BY <2>1 DEF FirstLive, RepHonest, Heard, DripValue
  <2> QED
    BY <1>2, <2>1, <2>2 DEF Dripping
<1> QED
  BY <1>3, <1>4, <1>5, <1>6, <1>7, <1>8, <1>9, <1>10
     DEF Next, Program, PeerStep, VoteStep, Handlers, Terminated

\* Every sender of a trusted vote for b counts.
LEMMA SendersCount ==
  ASSUME TypeOK, NEW a \in Honest, NEW b, NEW S,
         \A c \in S : \E m \in VotesFor(b, RoundVotes(a), blacklist[a]) :
           m.sender = c,
         Cardinality(S) > Rho
  PROVE  Count(b, RoundVotes(a), blacklist[a]) > Rho
<1> DEFINE V == VotesFor(b, RoundVotes(a), blacklist[a])
           f == [m \in V |-> m.sender]
           Senders == {m.sender : m \in V}
<1>1. IsFiniteSet(V) /\ Cardinality(V) \in Nat
  BY VotesFinite
<1>2. f \in Surjection(V, Senders)
  BY DEF Surjection
<1>3. S \subseteq Senders
  OBVIOUS
<1> HIDE DEF V, f, Senders
<1>4. IsFiniteSet(Senders) /\ Cardinality(Senders) <= Cardinality(V)
  BY <1>1, <1>2, FS_Surjection
<1>5. IsFiniteSet(S) /\ Cardinality(S) <= Cardinality(Senders)
  BY <1>3, <1>4, FS_Subset
<1>6. Cardinality(S) \in Nat /\ Cardinality(Senders) \in Nat
  BY <1>4, <1>5, FS_CardinalityType
<1>7. Cardinality(V) > Rho
  BY <1>1, <1>4, <1>5, <1>6, ParametersAssumption
<1> QED
  BY <1>7 DEF V, Count

\* More than rho elected peers say the one thing, more than rho exposed peers
\* the other, and everybody hears and trusts all of them.
LEMMA DripConflicts ==
  ASSUME RoundInv, Silenced, Dripping, Adversary = "drip", Smooth,
         phase = "seal", Cardinality(committee) > Rho,
         Cardinality(Byz \ blacklist[RepHonest]) > Rho, NEW a \in Honest
  PROVE  Conflicted(a)
<1>1. /\ TypeOK /\ committee \subseteq Honest /\ exposed \subseteq Byz
      /\ round \in Rounds /\ object[round] \in {0, 1}
  BY DEF RoundInv, Inv, TypeOK, Bit
<1>2. blacklist[a] = blacklist[RepHonest] /\ blacklist[a] \subseteq Byz
  BY RepIsHonest
     DEF RoundInv, Agreeing, Alike, Smooth, Inv, HonestNeverBlacklisted
<1>3. exposed = FirstLive /\ exposed \cap blacklist[RepHonest] = {}
  BY DEF Dripping, Silenced
<1>4. \A c \in committee \cup exposed : Heard(c, a)
  BY DEF Dripping
<1>5. ASSUME NEW c \in committee \cup exposed
      PROVE  \E m \in VotesFor(DripValue(c), RoundVotes(a), blacklist[a]) :
               m.sender = c
  <2>1. c \notin blacklist[a]
    BY <1>1, <1>2, <1>3 DEF Honest
  <2> QED
    BY <1>4, <2>1 DEF Heard, VotesFor, Trusted, RoundVotes
<1>6. Count(object[round], RoundVotes(a), blacklist[a]) > Rho
  <2>1. \A c \in committee : DripValue(c) = object[round]
    BY <1>1 DEF DripValue
  <2>2. \A c \in committee :
          \E m \in VotesFor(object[round], RoundVotes(a), blacklist[a]) :
            m.sender = c
    BY <1>5, <2>1
  <2> QED
    BY <1>1, <2>2, SendersCount
<1>7. Count(1 - object[round], RoundVotes(a), blacklist[a]) > Rho
  <2>1. \A c \in exposed : DripValue(c) = 1 - object[round]
    BY <1>1 DEF DripValue, Honest
  <2>2. Cardinality(exposed) > Rho
    BY <1>3, FirstLiveIsEnough
  <2>3. \A c \in exposed :
          \E m \in VotesFor(1 - object[round], RoundVotes(a), blacklist[a]) :
            m.sender = c
    BY <1>5, <2>1
  <2> QED
    BY <1>1, <2>2, <2>3, SendersCount
<1>8. CASE object[round] = 0
  BY <1>6, <1>7, <1>8 DEF Conflicted, Conflict
<1>9. CASE object[round] = 1
  BY <1>6, <1>7, <1>9 DEF Conflicted, Conflict
<1> QED
  BY <1>1, <1>8, <1>9

\* In a smooth round with a large enough committee, drip forces every honest
\* peer to ask the source.
THEOREM DripCorrect == Spec => DripForcesConflict
<1>1. Init => Silenced /\ Counters /\ Dripping
  BY CountersInit DEF Init, Silenced, Dripping
<1>2. RoundInv /\ Silenced /\ Counters /\ Dripping /\ [Next]_vars
        => Silenced' /\ Counters' /\ Dripping'
  BY SilencedNext, CountersNext, DrippingNext DEF RoundInv
<1>3. ASSUME RoundInv, Silenced, Dripping, [Next]_vars, NEW a \in Honest,
             Adversary = "drip", faults = 0, overruns = 0,
             Cardinality(committee) > Rho,
             Cardinality(Byz \ blacklist[RepHonest]) > Rho,
             phase = "seal", phase' = "decide"
      PROVE  Conflicted(a)'
  <2>1. Smooth
    BY <1>3 DEF RoundInv, Progress, ErrorsAbort, Smooth
  <2>2. Conflicted(a)
    BY <1>3, <2>1, DripConflicts
  <2>3. UNCHANGED <<messages, round, blacklist>>
    BY <1>3 DEF Next, Program, PeerStep, VoteStep, DecideStep, Handlers,
       Terminated, StartRound, Barrier, Deadline, CheckSeal, AppendLate, Query,
       QueryFails, Broadcast, Seal, DecideByMajority, DecideAtSource,
       DecideFails, Forget, vars, roundVars, storeVars, outputVars
  <2> QED
    BY <2>2, <2>3 DEF Conflicted, RoundVotes
<1>4. RoundInv /\ Silenced /\ Dripping /\ [Next]_vars
        => [\A a \in Honest :
              (/\ Adversary = "drip" /\ faults = 0 /\ overruns = 0
               /\ Cardinality(committee) > Rho
               /\ Cardinality(Byz \ blacklist[RepHonest]) > Rho
               /\ phase = "seal" /\ phase' = "decide")
                => Conflicted(a)']_vars
  BY <1>3
<1> QED
  BY <1>1, <1>2, <1>4, RoundInvHolds, PTL DEF Spec, DripForcesConflict

----------------------------------------------------------------------------
(* Every step of the program counts *)

\* The stage of the jobs of a phase.
StageOf == [start |-> 1, vote |-> 3, seal |-> 4, decide |-> 5, forget |-> 6]

Running == phase \in {"start", "vote", "seal", "decide", "forget"}

\* The jobs that are left, told by the numbers of their stages.
Left(j) ==
  \/ j.round > round
  \/ j.round = round /\ j.stage > StageOf[phase]
  \/ j.round = round /\ j.stage = StageOf[phase] /\ j.peer \in todo \cup {K}
  \/ j.round = round /\ j.stage = 2 /\ phase = "vote" /\ j.peer \in todo \ queried

LEMMA JobsLeftAre == Running => JobsLeft = {j \in Jobs : Left(j)}
<1> SUFFICES ASSUME Running PROVE JobsLeft = {j \in Jobs : Left(j)}
  OBVIOUS
<1>1. /\ DOMAIN Stages = 1 .. 6
      /\ Stages[1] = "start" /\ Stages[2] = "query" /\ Stages[3] = "vote"
      /\ Stages[4] = "seal" /\ Stages[5] = "decide" /\ Stages[6] = "forget"
  BY DEF Stages
<1>2. ASSUME NEW s \in 1 .. 6
      PROVE  /\ (\E i \in 1 .. s-1 : Stages[i] = phase) <=> s > StageOf[phase]
             /\ Stages[s] = phase <=> s = StageOf[phase]
             /\ Stages[s] = "query" <=> s = 2
  <2>1. s \in {1, 2, 3, 4, 5, 6}
    OBVIOUS
  <2>2. \A i \in 1 .. 6 : Stages[i] = phase <=> i = StageOf[phase]
    BY <1>1 DEF Running, StageOf
  <2>3. StageOf[phase] \in 1 .. 6
    BY DEF Running, StageOf
  <2> QED
    BY <1>1, <2>1, <2>2, <2>3
<1>3. \A j \in Jobs : j.stage \in 1 .. 6
  BY <1>1 DEF Jobs
<1>4. ~Over
  BY DEF Running, Over
<1> QED
  BY <1>2, <1>3, <1>4 DEF JobsLeft, Left

\* There is a job at every stage for every peer and for the barrier.
LEMMA JobExists ==
  ASSUME NEW r \in Rounds, NEW s \in 1 .. 6, NEW p \in Peers \cup {K}
  PROVE  \E j \in Jobs : j.round = r /\ j.stage = s /\ j.peer = p
<1>1. [round |-> r, stage |-> s, peer |-> p] \in Jobs
  BY ParametersAssumption DEF Jobs, Stages, Peers
<1> QED
  BY <1>1

\* The jobs are finitely many, so a run can do only so many steps.
LEMMA JobsFinite == IsFiniteSet(Jobs)
<1> DEFINE Tuples == Rounds \X ((1 .. 6) \X (0 .. K))
           f == [t \in Tuples |-> [round |-> t[1], stage |-> t[2][1], peer |-> t[2][2]]]
<1>1. IsFiniteSet(Rounds)
  BY ParametersAssumption, FS_Interval DEF Rounds
<1>2. IsFiniteSet(Tuples)
  <2>1. PICK last \in Int : last = 6
    OBVIOUS
  <2>2. IsFiniteSet(1 .. last)
    BY FS_Interval
  <2>3. IsFiniteSet(1 .. 6)
    BY <2>1, <2>2
  <2>4. IsFiniteSet(0 .. K)
    BY ParametersAssumption, FS_Interval
  <2>5. IsFiniteSet((1 .. 6) \X (0 .. K))
    BY <2>3, <2>4, FS_Product
  <2> QED
    BY <1>1, <2>5, FS_Product
<1>3. DOMAIN Stages = 1 .. 6
  BY DEF Stages
<1>4. f \in Surjection(Tuples, Jobs)
  <2>1. f \in [Tuples -> Jobs]
    BY <1>3 DEF Jobs
  <2>2. ASSUME NEW j \in Jobs PROVE \E t \in Tuples : f[t] = j
    <3> DEFINE t == <<j.round, <<j.stage, j.peer>>>>
    <3>1. t \in Tuples
      BY <1>3 DEF Jobs
    <3>2. f[t] = j
      BY <3>1 DEF Jobs
    <3> QED
      BY <3>1, <3>2
  <2> QED
    BY <2>1, <2>2 DEF Surjection
<1> HIDE DEF Tuples, f
<1> QED
  BY <1>2, <1>4, FS_Surjection

\* Each step of a peer, and of the round loop, does a job.
LEMMA ProgramCounts ==
  ASSUME TypeOK, Program
  PROVE  JobsLeft' \subseteq JobsLeft /\ JobsLeft' # JobsLeft
<1> USE DEF storeVars, outputVars, envVars, roundVars
<1>1. K \in Nat /\ K \in Peers \cup {K} /\ K \notin Peers
  BY ParametersAssumption DEF Peers
<1>2. Running
  BY DEF Program, PeerStep, VoteStep, DecideStep, StartRound, Barrier, Query,
     QueryFails, Broadcast, Seal, DecideByMajority, DecideAtSource,
     DecideFails, Forget, Running
<1>3. round \in Rounds /\ round \in Int /\ errors \in Nat
  BY <1>2 DEF TypeOK, Running, Rounds
<1>4. JobsLeft = {j \in Jobs : Left(j)} /\ StageOf[phase] \in 1 .. 6
  BY <1>2, JobsLeftAre DEF Running, StageOf
<1>5. (Running => JobsLeft = {j \in Jobs : Left(j)})'
  BY JobsLeftAre, PTL
<1>6. Over' => JobsLeft' = {}
  BY DEF JobsLeft, Over
<1>7. \A j \in Jobs : j.round \in Int /\ j.stage \in 1 .. 6 /\ j.peer \in 0 .. K
  <2>1. DOMAIN Stages = 1 .. 6
    BY DEF Stages
  <2> QED
    BY <2>1 DEF Jobs, Rounds
<1>8. CASE StartRound
  <2>1. /\ phase = "start" /\ phase' = "vote" /\ round' = round
    BY <1>8 DEF StartRound
  <2>2. \A j \in Jobs : Left(j)' => Left(j)
    BY <1>3, <1>7, <2>1 DEF Left, StageOf
  <2>3. PICK j \in Jobs : j.round = round /\ j.stage = 1 /\ j.peer = K
    BY <1>1, <1>3, JobExists
  <2>4. Left(j) /\ ~Left(j)'
    BY <1>3, <2>1, <2>3 DEF Left, StageOf
  <2> QED
    BY <1>4, <1>5, <2>1, <2>2, <2>4 DEF Running
<1>9. CASE Barrier
  <2>1. phase # "start" /\ todo = {}
    BY <1>9 DEF Barrier
  <2>2. PICK j \in Jobs : j.round = round /\ j.stage = StageOf[phase] /\ j.peer = K
    BY <1>1, <1>3, <1>4, JobExists
  <2>3. j \in JobsLeft
    BY <1>4, <2>2 DEF Left
  <2>4. CASE Over'
    BY <1>6, <2>3, <2>4
  <2>5. CASE ~Over' /\ phase = "forget"
    <3>1. phase' = "start" /\ round' = round + 1
      BY <1>9, <2>5 DEF Barrier, Over
    <3>2. \A i \in Jobs : Left(i)' => i.round > round
      BY <1>3, <1>7, <3>1 DEF Left
    <3>3. JobsLeft' = {i \in Jobs : Left(i)'}
      BY <1>5, <3>1 DEF Running
    <3> QED
      BY <1>3, <1>4, <2>2, <2>3, <3>2, <3>3 DEF Left
  <2>6. CASE ~Over' /\ phase # "forget"
    <3>1. /\ round' = round
          /\ \/ phase = "vote" /\ phase' = "seal"
             \/ phase = "seal" /\ phase' = "decide"
             \/ phase = "decide" /\ phase' = "forget"
      BY <1>3, <1>9, <2>6 DEF Barrier, Over
    <3>2. StageOf[phase'] = StageOf[phase] + 1 /\ phase' # "vote"
          /\ StageOf[phase] \in Int
      BY <3>1 DEF StageOf
    <3>3. JobsLeft' = {i \in Jobs : Left(i)'}
      BY <1>5, <3>1 DEF Running
    <3>4. \A i \in Jobs : Left(i)' =>
            \/ i.round > round
            \/ i.round = round /\ i.stage > StageOf[phase]
      BY <1>3, <1>7, <3>1, <3>2 DEF Left, StageOf
    <3> QED
      BY <1>3, <1>4, <2>2, <2>3, <3>2, <3>3, <3>4 DEF Left
  <2> QED
    BY <2>4, <2>5, <2>6
<1>10. ASSUME NEW a \in Peers, PeerStep(a)
       PROVE  JobsLeft' \subseteq JobsLeft /\ JobsLeft' # JobsLeft
  <2>1. UNCHANGED <<round, phase>>
    BY <1>10 DEF PeerStep, VoteStep, DecideStep, Query, QueryFails, Broadcast,
       Seal, DecideByMajority, DecideAtSource, DecideFails, Forget
  <2>2. JobsLeft' = {j \in Jobs : Left(j)'}
    BY <1>2, <1>5, <2>1 DEF Running
  <2>3. todo' \subseteq todo /\ todo' \ queried' \subseteq todo \ queried
    BY <1>10 DEF PeerStep, VoteStep, DecideStep, Query, QueryFails, Broadcast,
       Seal, DecideByMajority, DecideAtSource, DecideFails, Forget
  <2>4. \A j \in Jobs : Left(j)' => Left(j)
    BY <2>1, <2>3 DEF Left
  <2>5. CASE Query(a)
    <3>1. PICK j \in Jobs : j.round = round /\ j.stage = 2 /\ j.peer = a
      BY <1>3, JobExists
    <3>2. /\ phase = "vote" /\ a \in todo \ queried /\ a \notin todo' \ queried'
      BY <2>5 DEF Query
    <3>3. Left(j) /\ ~Left(j)'
      BY <1>3, <2>1, <3>1, <3>2 DEF Left, StageOf
    <3> QED
      BY <1>4, <2>2, <2>4, <3>3
  <2>6. CASE ~Query(a)
    <3>1. PICK j \in Jobs : j.round = round /\ j.stage = StageOf[phase] /\ j.peer = a
      BY <1>3, <1>4, JobExists
    <3>2. a \in todo /\ a \notin todo' /\ a # K
      BY <1>1, <1>10, <2>6 DEF PeerStep, VoteStep, DecideStep, QueryFails,
         Broadcast, Seal, NextInLine, DecideByMajority, DecideAtSource,
         DecideFails, Forget
    <3>3. Left(j) /\ ~Left(j)'
      BY <1>2, <1>3, <2>1, <3>1, <3>2 DEF Left, StageOf, Running
    <3> QED
      BY <1>4, <2>2, <2>4, <3>3
  <2> QED
    BY <2>5, <2>6
<1> QED
  BY <1>8, <1>9, <1>10 DEF Program

\* The run gets on with every step of the program, and nothing else undoes
\* what is done.
THEOREM StepsCount == Spec => EveryStepCounts
<1>1. ASSUME TypeOK, [Next]_vars, ~Program PROVE JobsLeft' = JobsLeft
  <2>1. UNCHANGED <<round, phase, todo, queried>>
    BY <1>1 DEF Next, Handlers, Terminated, Deadline, CheckSeal, AppendLate,
       vars, roundVars
  <2> QED
    BY <2>1 DEF JobsLeft, Over
<1>2. ASSUME TypeOK, [Next]_vars
      PROVE  JobsLeft' \subseteq JobsLeft /\ (Program => JobsLeft' # JobsLeft)
  BY <1>1, <1>2, ProgramCounts
<1>3. TypeOK /\ [Next]_vars => 
        [JobsLeft' \subseteq JobsLeft /\ (Program => JobsLeft' # JobsLeft)]_vars
  <2> SUFFICES ASSUME TypeOK, [Next]_vars
               PROVE  /\ JobsLeft' \subseteq JobsLeft
                      /\ Program => JobsLeft' # JobsLeft
    OBVIOUS
  <2> QED
    BY <1>2
<1>4. Spec => []TypeOK /\ [][Next]_vars
  BY TypeCorrect, PTL DEF Spec
<1>5. Spec => 
        [][JobsLeft' \subseteq JobsLeft /\ (Program => JobsLeft' # JobsLeft)]_vars
  BY <1>3, <1>4, PTL
<1> QED
  BY <1>5, PTL DEF EveryStepCounts

\* So a run takes at most as many steps as there are jobs: the number of those
\* that are left falls with each.
THEOREM StepsAreBounded ==
  Spec => [][Program => Cardinality(JobsLeft') < Cardinality(JobsLeft)]_vars
<1>1. ASSUME TypeOK, [Next]_vars, Program
      PROVE  Cardinality(JobsLeft') < Cardinality(JobsLeft)
  <2>1. JobsLeft' \subseteq JobsLeft /\ JobsLeft' # JobsLeft
    BY <1>1, ProgramCounts
  <2>2. IsFiniteSet(JobsLeft) /\ IsFiniteSet(JobsLeft')
    BY JobsFinite, FS_Subset DEF JobsLeft
  <2>3. /\ Cardinality(JobsLeft') <= Cardinality(JobsLeft)
        /\ Cardinality(JobsLeft') # Cardinality(JobsLeft)
    BY <2>1, <2>2, FS_Subset
  <2> QED
    BY <2>2, <2>3, FS_CardinalityType
<1>2. TypeOK /\ [Next]_vars =>
        [Program => Cardinality(JobsLeft') < Cardinality(JobsLeft)]_vars
  BY <1>1
<1> QED
  BY <1>2, TypeCorrect, PTL DEF Spec
=============================================================================
