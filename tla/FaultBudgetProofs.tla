-------------------------- MODULE FaultBudgetProofs --------------------------
(***************************************************************************)
(* Proofs about BlacklistDownload, for every value of its constants: what  *)
(* faults can do to a peer is bounded by their number.  Each proof follows *)
(* one kind of vote from the broadcast that made it until it has done what *)
(* it can: votes left behind, votes repeated, votes missing.               *)
(***************************************************************************)
EXTENDS RoundLoopProofs

----------------------------------------------------------------------------
(* Numbers *)

\* One more factor, one more summand.
LEMMA OneMoreTime ==
  ASSUME NEW x \in Nat, NEW r \in Nat
  PROVE  /\ x * (r + 1) \in Int
         /\ (x + 1) * (r + 1) = x * (r + 1) + (r + 1)
OBVIOUS

\* A product grows with its factor.
LEMMA TimesGrows ==
  ASSUME NEW n \in Nat, NEW x \in Int, NEW y \in Int
  PROVE  /\ n * x \in Int /\ (x \in Nat => n * x \in Nat)
         /\ x <= y => n * x <= n * y
         /\ x + 1 <= y => n * x + n <= n * y
<1>1. n * x \in Int /\ (x \in Nat => n * x \in Nat)
  OBVIOUS
<1>2. ASSUME x <= y PROVE n * x <= n * y
  <2>1. y - x \in Nat /\ n * (y - x) \in Nat /\ n * y = n * x + n * (y - x)
    BY <1>2
  <2> QED
    BY <2>1
<1>3. ASSUME x + 1 <= y PROVE n * x + n <= n * y
  <2>1. /\ y - (x + 1) \in Nat /\ n * (y - (x + 1)) \in Nat
        /\ n * y = n * x + n + n * (y - (x + 1))
    BY <1>3
  <2> QED
    BY <2>1
<1> QED
  BY <1>1, <1>2, <1>3

\* A set that grows by few elements.
LEMMA GrowsBy ==
  ASSUME NEW S, NEW T, NEW U, IsFiniteSet(S), IsFiniteSet(T), U \subseteq S \cup T
  PROVE  /\ IsFiniteSet(U) /\ Cardinality(U) <= Cardinality(S) + Cardinality(T)
         /\ Cardinality(U) \in Nat /\ Cardinality(S) \in Nat
         /\ Cardinality(T) \in Nat
<1>1. /\ IsFiniteSet(S \cup T)
      /\ Cardinality(S \cup T) = Cardinality(S) + Cardinality(T)
                                   - Cardinality(S \cap T)
  BY FS_Union
<1>2. IsFiniteSet(U) /\ Cardinality(U) <= Cardinality(S \cup T)
  BY <1>1, FS_Subset
<1>3. IsFiniteSet(S \cap T)
  <2>1. S \cap T \in SUBSET S
    OBVIOUS
  <2> QED
    BY <2>1, FS_Subset
<1>4. /\ Cardinality(S) \in Nat /\ Cardinality(T) \in Nat
      /\ Cardinality(U) \in Nat /\ Cardinality(S \cap T) \in Nat
      /\ Cardinality(S \cup T) \in Nat
  BY <1>1, <1>2, <1>3, FS_CardinalityType
<1> QED
  BY <1>1, <1>2, <1>4

\* The copies of a message are as many as their numbers.
LEMMA CopiesCount ==
  ASSUME NEW a, NEW value, NEW first \in Int, NEW last \in Int
  PROVE  LET C == Copies(a, value, first, last)
         IN  /\ IsFiniteSet(C)
             /\ Cardinality(C) <= IF first > last THEN 0 ELSE last - first + 1
<1> DEFINE C == Copies(a, value, first, last)
           f == [n \in first .. last |->
                   [sender |-> a, round |-> round, value |-> value, copy |-> n]]
<1>1. /\ IsFiniteSet(first .. last)
      /\ Cardinality(first .. last) = IF first > last THEN 0 ELSE last - first + 1
  BY FS_Interval
<1>2. f \in Surjection(first .. last, C)
  <2>1. f \in [first .. last -> C]
    BY DEF Copies
  <2>2. ASSUME NEW m \in C PROVE \E n \in first .. last : f[n] = m
    <3>1. m.copy \in first .. last /\ f[m.copy] = m
      BY DEF Copies
    <3> QED
      BY <3>1
  <2> QED
    BY <2>1, <2>2 DEF Surjection
<1> HIDE DEF C, f
<1>3. IsFiniteSet(C) /\ Cardinality(C) <= Cardinality(first .. last)
  BY <1>1, <1>2, FS_Surjection
<1> QED
  BY <1>1, <1>3 DEF C

----------------------------------------------------------------------------
(* A broadcast, as one receiver sees it *)

\* The messages of the requests on their way to a peer that nobody waits for.
Strayed(a) == {m \in Message : \E q \in late : q.to = a /\ q.msg = m}

\* Whatever deviates from a single delivery at a receiver costs a fault.
LEMMA OddCosts ==
  ASSUME NEW a, NEW outcome \in [Honest \ {a} -> Outcome],
         NEW h \in Honest \ {a}, outcome[h] # Once
  PROVE  Cost(outcome) >= 1
<1> DEFINE odd   == {g \in DOMAIN outcome : outcome[g] # Once}
           twice == {g \in odd : outcome[g].stored + outcome[g].stray > 1}
<1>1. odd \subseteq Honest /\ twice \subseteq Honest /\ h \in odd
  OBVIOUS
<1>2. IsFiniteSet(odd) /\ IsFiniteSet(twice)
  BY <1>1, HonestFinite, FS_Subset
<1>3. Cardinality(odd) \in Nat /\ Cardinality(twice) \in Nat
  BY <1>2, FS_CardinalityType
<1>4. Cost(outcome) = IF expired /\ odd # {} THEN 1 + Cardinality(twice)
                                             ELSE Cardinality(odd)
  BY DEF Cost
<1>5. Cardinality(odd) # 0
  BY <1>1, <1>2, FS_EmptySet
<1> HIDE DEF odd, twice
<1> QED
  BY <1>3, <1>4, <1>5

\* A receiver stores some copies and may get more of them later.
LEMMA BroadcastAt ==
  ASSUME Inv, SealsInOrder, NEW a \in Peers, Broadcast(a), NEW h \in Honest
  PROVE  \E value \in Bit, stored \in 0 .. Attempts, stray \in 0 .. Attempts :
           /\ stored + stray <= Attempts
           /\ messages'[h] = messages[h] \cup Copies(a, value, 1, stored)
           /\ Strayed(h)' \subseteq
                Strayed(h) \cup Copies(a, value, stored + 1, stored + stray)
           /\ h = a => stored = 1
           /\ faults' \in Nat /\ faults <= faults'
           /\ stored # 1 \/ stray # 0 => faults + 1 <= faults'
<1>1. PICK value \in VoteValues(a), outcome \in [Honest \ {a} -> Outcome] :
        /\ faults' = faults + Cost(outcome)
        /\ messages' = [g \in Honest |-> Received(g,
             IF g = a THEN OwnCopy(a, value)
                      ELSE Copies(a, value, 1, outcome[g].stored))]
        /\ late' = late \cup Strays(a, value, outcome)
  BY DEF Broadcast
<1>2. /\ round \in Rounds /\ phase = "vote" /\ value \in Bit
      /\ faults \in Nat
  <2>1. round \in Rounds /\ phase = "vote" /\ object \in [Rounds -> Bit]
    BY DEF Broadcast, Inv, TypeOK
  <2> QED
    BY <2>1, VoteValuesAreBits DEF Inv, TypeOK
<1>3. Cost(outcome) \in Nat
  BY CostIsNat
<1>4. Open(h, round)
  BY <1>2 DEF SealsInOrder, Open, Inv, TypeOK, Rounds
<1>5. 1 \in 0 .. Attempts /\ 0 \in 0 .. Attempts
  BY ParametersAssumption
<1>6. ASSUME NEW q \in Strays(a, value, outcome), q.to = h
      PROVE  /\ h # a
             /\ q.msg \in Copies(a, value, outcome[h].stored + 1,
                                 outcome[h].stored + outcome[h].stray)
  <2>1. PICK g \in DOMAIN outcome :
          q \in [to : {g}, checked : {FALSE},
                 msg : Copies(a, value, outcome[g].stored + 1,
                              outcome[g].stored + outcome[g].stray)]
    BY Zenon DEF Strays
  <2> QED
    BY <1>6, <2>1
<1>7. CASE h = a
  <2>1. messages'[h] = messages[h] \cup Copies(a, value, 1, 1)
    BY <1>1, <1>4, <1>7 DEF Received, OwnCopy
  <2>2. Strayed(h)' \subseteq Strayed(h)
    BY <1>1, <1>6, <1>7 DEF Strayed
  <2> QED
    BY <1>1, <1>2, <1>3, <1>5, <2>1, <2>2
<1>8. CASE h # a
  <2>1. outcome[h] \in Outcome
    BY <1>8
  <2>2. /\ outcome[h].stored \in 0 .. Attempts
        /\ outcome[h].stray \in 0 .. Attempts
        /\ outcome[h].stored + outcome[h].stray <= Attempts
    BY <2>1 DEF Outcome
  <2>3. messages'[h] = messages[h] \cup Copies(a, value, 1, outcome[h].stored)
    BY <1>1, <1>4, <1>8 DEF Received
  <2>4. Strayed(h)' \subseteq
          Strayed(h) \cup Copies(a, value, outcome[h].stored + 1,
                                 outcome[h].stored + outcome[h].stray)
    BY <1>1, <1>6 DEF Strayed
  <2>5. outcome[h].stored # 1 \/ outcome[h].stray # 0 => faults + 1 <= faults'
    <3>1. ASSUME outcome[h].stored # 1 \/ outcome[h].stray # 0
          PROVE  faults + 1 <= faults'
      <4>1. outcome[h] # Once
        BY <3>1 DEF Once
      <4>2. Cost(outcome) >= 1
        BY <1>8, <4>1, OddCosts
      <4> QED
        BY <1>1, <1>2, <1>3, <4>2
    <3> QED
      BY <3>1
  <2> QED
    BY <1>1, <1>2, <1>3, <1>8, <2>2, <2>3, <2>4, <2>5
<1> QED
  BY <1>7, <1>8

----------------------------------------------------------------------------
(* Every other step *)

\* What the environment has done is never undone.
LEMMA BillsGrow ==
  ASSUME Inv, [Next]_vars
  PROVE  /\ faults \in Nat /\ faults' \in Nat /\ faults <= faults'
         /\ overruns \in Nat /\ overruns' \in Nat /\ overruns <= overruns'
<1> USE DEF storeVars, outputVars, envVars
<1>1. faults \in Nat /\ overruns \in Nat
  BY DEF Inv, TypeOK
<1>2. CASE \E a \in Peers : Broadcast(a)
  <2>0. PICK a \in Peers : Broadcast(a)
    BY <1>2
  <2>1. PICK outcome \in [Honest \ {a} -> Outcome] :
          faults' = faults + Cost(outcome) /\ overruns' = overruns
    BY <2>0 DEF Broadcast
  <2>2. Cost(outcome) \in Nat
    BY CostIsNat
  <2> QED
    BY <1>1, <2>1, <2>2
<1>3. CASE ~\E a \in Peers : Broadcast(a)
  BY <1>1, <1>3 DEF Next, Program, Handlers, Terminated, PeerStep, VoteStep,
     DecideStep, StartRound, Barrier, Deadline, CheckSeal, AppendLate, Query,
     QueryFails, Seal, DecideByMajority, DecideAtSource, DecideFails, Forget,
     vars
<1> QED
  BY <1>2, <1>3

\* Only a broadcast makes votes: the others move them from the network into
\* the store, or drop them.
LEMMA NoNewVotes ==
  ASSUME Inv, [Next]_vars, ~\E b \in Peers : Broadcast(b), NEW a \in Honest
  PROVE  /\ Strayed(a)' \subseteq Strayed(a)
         /\ messages'[a] \subseteq messages[a] \cup Strayed(a)
<1> USE DEF storeVars, outputVars, envVars
<1>1. messages \in [Honest -> SUBSET Message] /\ late \subseteq Request
  BY DEF Inv, TypeOK
<1>2. ASSUME NEW q \in late, CheckSeal(q)
      PROVE  Strayed(a)' \subseteq Strayed(a) /\ messages' = messages
  <2>1. \A p \in late' : \E o \in late : p.to = o.to /\ p.msg = o.msg
    BY <1>1, <1>2 DEF CheckSeal, Request
  <2> QED
    BY <1>2, <2>1 DEF CheckSeal, Strayed
<1>3. ASSUME NEW q \in late, AppendLate(q)
      PROVE  /\ Strayed(a)' \subseteq Strayed(a)
             /\ messages'[a] \subseteq messages[a] \cup Strayed(a)
  <2>1. q.to \in Honest /\ q.msg \in Message
    BY <1>1 DEF Request
  <2> QED
    BY <1>1, <1>3, <2>1 DEF AppendLate, Strayed
<1>4. ASSUME NEW b \in Peers, Forget(b)
      PROVE  late' = late /\ messages'[a] \subseteq messages[a]
  BY <1>1, <1>4 DEF Forget
<1>5. CASE UNCHANGED <<messages, late>>
  BY <1>5 DEF Strayed
<1> QED
  BY <1>2, <1>3, <1>4, <1>5 DEF Next, Program, Handlers, Terminated, PeerStep,
     VoteStep, DecideStep, StartRound, Barrier, Deadline, Query, QueryFails,
     Seal, DecideByMajority, DecideAtSource, DecideFails, vars, Strayed

\* The votes of a peer, stored and on their way, are finitely many.
LEMMA VotesAreFinite ==
  ASSUME TypeOK, NEW a \in Honest, NEW S,
         S \subseteq messages[a] \cup Strayed(a)
  PROVE  IsFiniteSet(S) /\ Cardinality(S) \in Nat
<1>1. S \subseteq Message
  BY DEF TypeOK, Strayed
<1> QED
  BY <1>1, MessageFinite, FS_Subset, FS_CardinalityType

----------------------------------------------------------------------------
(* Votes left behind *)

\* The votes that ForgetRound will not free, or has not freed: those on their
\* way, those of other rounds, and those that came after it.
Astray(a) ==
  Strayed(a) \cup
    {m \in messages[a] :
       \/ m.round # round
       \/ phase \in {"start", "done"}
       \/ phase = "forget" /\ a \notin todo}

FewAstray == \A a \in Honest : Cardinality(Astray(a)) <= Attempts * faults

\* No other step than a broadcast leaves a vote behind.
LEMMA AstrayShrinks ==
  ASSUME Inv, [Next]_vars, ~\E b \in Peers : Broadcast(b), NEW a \in Honest
  PROVE  Astray(a)' \subseteq Astray(a)
<1> USE DEF storeVars, outputVars, envVars, roundVars
<1>1. /\ Strayed(a)' \subseteq Strayed(a)
      /\ messages'[a] \subseteq messages[a] \cup Strayed(a)
  BY NoNewVotes
<1>2. CASE StartRound
  <2>1. round' = round /\ phase' = "vote"
    BY <1>2 DEF StartRound
  <2> QED
    BY <1>1, <2>1 DEF Astray
<1>3. CASE Barrier
  <2>1. messages' = messages /\ todo = {} /\ errors \in Nat
    BY <1>3 DEF Barrier, Inv, TypeOK
  <2>2. CASE phase = "forget"
    BY <1>1, <2>1, <2>2 DEF Astray
  <2>3. CASE phase # "forget"
    <3>1. round' = round /\ phase' \in {"seal", "decide", "forget", "aborted"}
      BY <1>3, <2>1, <2>3 DEF Barrier
    <3>2. phase' = "forget" => a \in todo'
      BY <1>3 DEF Barrier
    <3> QED
      BY <1>1, <3>1, <3>2 DEF Astray
  <2> QED
    BY <2>2, <2>3
<1>4. ASSUME NEW b \in Peers, Forget(b) PROVE Astray(a)' \subseteq Astray(a)
  <2>1. /\ b \in Honest /\ todo' = todo \ {b}
        /\ messages' = [messages EXCEPT ![b] = {m \in @ : m.round # round}]
        /\ UNCHANGED <<round, phase, late>> /\ phase = "forget"
    BY <1>4 DEF Forget, NextInLine, Inv, TypeOK
  <2>2. messages \in [Honest -> SUBSET Message]
    BY DEF Inv, TypeOK
  <2>3. CASE b = a
    <3>1. \A m \in messages'[a] : m \in messages[a] /\ m.round # round
      BY <2>1, <2>2, <2>3
    <3> QED
      BY <1>1, <3>1 DEF Astray
  <2>4. CASE b # a
    <3>1. messages'[a] = messages[a] /\ (a \in todo' <=> a \in todo)
      BY <2>1, <2>2, <2>4
    <3> QED
      BY <1>1, <2>1, <3>1 DEF Astray
  <2> QED
    BY <2>3, <2>4
<1>5. CASE UNCHANGED <<round, phase>> /\ (phase = "forget" => todo' = todo)
  BY <1>1, <1>5 DEF Astray
<1> QED
  BY <1>2, <1>3, <1>4, <1>5 DEF Next, Program, Handlers, Terminated, PeerStep,
     VoteStep, DecideStep, Deadline, CheckSeal, AppendLate, Query, QueryFails,
     Seal, DecideByMajority, DecideAtSource, DecideFails, vars

\* A broadcast leaves copies of one message behind, and pays for them.
LEMMA AstrayBroadcast ==
  ASSUME Inv, SealsInOrder, NEW b \in Peers, Broadcast(b), TypeOK',
         NEW a \in Honest, Cardinality(Astray(a)) <= Attempts * faults
  PROVE  Cardinality(Astray(a)') <= Attempts * faults'
<1>1. PICK value \in Bit, stored \in 0 .. Attempts, stray \in 0 .. Attempts :
        /\ stored + stray <= Attempts
        /\ messages'[a] = messages[a] \cup Copies(b, value, 1, stored)
        /\ Strayed(a)' \subseteq
             Strayed(a) \cup Copies(b, value, stored + 1, stored + stray)
        /\ faults' \in Nat /\ faults <= faults'
        /\ stored # 1 \/ stray # 0 => faults + 1 <= faults'
  BY BroadcastAt
<1> DEFINE C == Copies(b, value, stored + 1, stored + stray)
<1>2. IsFiniteSet(C) /\ Cardinality(C) <= Attempts
      /\ (stray = 0 => Cardinality(C) <= 0)
  <2>1. /\ IsFiniteSet(C)
        /\ Cardinality(C) <= IF stored + 1 > stored + stray THEN 0
                             ELSE (stored + stray) - (stored + 1) + 1
    BY CopiesCount
  <2>2. Cardinality(C) \in Nat
    BY <2>1, FS_CardinalityType
  <2> QED
    BY <2>1, <2>2, ParametersAssumption
<1>3. Astray(a)' \subseteq Astray(a) \cup C
  <2>1. /\ round' = round /\ phase = "vote" /\ phase' = "vote"
    BY DEF Broadcast
  <2>2. \A m \in Copies(b, value, 1, stored) : m.round = round
    BY DEF Copies
  <2> QED
    BY <1>1, <2>1, <2>2 DEF Astray
<1>4. IsFiniteSet(Astray(a))
  BY VotesAreFinite DEF Astray, Inv
<1> HIDE DEF C
<1>5. /\ Cardinality(Astray(a)') <= Cardinality(Astray(a)) + Cardinality(C)
      /\ Cardinality(Astray(a)') \in Nat /\ Cardinality(Astray(a)) \in Nat
      /\ Cardinality(C) \in Nat
  BY <1>2, <1>3, <1>4, GrowsBy
<1> DEFINE X == Attempts * faults
           Y == Attempts * faults'
<1>6. faults \in Int /\ faults' \in Int /\ Attempts \in Nat
  BY <1>1, ParametersAssumption DEF Inv, TypeOK
<1>7. /\ X \in Int /\ Y \in Int /\ X <= Y
      /\ faults + 1 <= faults' => X + Attempts <= Y
  BY <1>1, <1>6, TimesGrows
<1>8. Cardinality(Astray(a)) <= X
  OBVIOUS
<1> HIDE DEF X, Y
<1>9. Cardinality(Astray(a)') <= Y
  BY <1>1, <1>2, <1>5, <1>6, <1>7, <1>8
<1> QED
  BY <1>9 DEF Y

\* Every step keeps the votes left behind few.
LEMMA FewAstrayNext ==
  Inv /\ SealsInOrder /\ FewAstray /\ [Next]_vars => FewAstray'
<1> SUFFICES ASSUME Inv, SealsInOrder, FewAstray, [Next]_vars, NEW a \in Honest
             PROVE  Cardinality(Astray(a)') <= Attempts * faults'
  BY DEF FewAstray, Honest, Peers
<1>1. Cardinality(Astray(a)) <= Attempts * faults
  BY DEF FewAstray
<1>2. CASE \E b \in Peers : Broadcast(b)
  BY <1>1, <1>2, AstrayBroadcast, TypeNext DEF Inv
<1>3. CASE ~\E b \in Peers : Broadcast(b)
  <2>1. Astray(a)' \subseteq Astray(a)
    BY <1>3, AstrayShrinks
  <2>2. IsFiniteSet(Astray(a)) /\ Cardinality(Astray(a)) \in Nat
    BY VotesAreFinite DEF Astray, Inv
  <2>3. /\ Cardinality(Astray(a)') <= Cardinality(Astray(a))
        /\ Cardinality(Astray(a)') \in Nat
    BY <2>1, <2>2, FS_Subset, FS_CardinalityType
  <2>4. /\ Attempts * faults \in Int /\ Attempts * faults' \in Int
        /\ Attempts * faults <= Attempts * faults'
    BY BillsGrow, TimesGrows, ParametersAssumption
  <2> QED
    BY <1>1, <2>2, <2>3, <2>4
<1> QED
  BY <1>2, <1>3

\* Between rounds a store holds at most the copies of one message for each
\* fault that has happened: ForgetRound does keep it to one round.
THEOREM LeakCorrect == Spec => []LeaksArePaid
<1>1. Init => FewAstray
  <2> SUFFICES ASSUME Init, NEW a \in Honest
               PROVE  Cardinality(Astray(a)) <= Attempts * faults
    BY DEF FewAstray
  <2>1. Astray(a) = {} /\ faults = 0
    BY DEF Init, Astray, Strayed
  <2> QED
    BY <2>1, FS_EmptySet, ParametersAssumption
<1>2. Inv /\ FewAstray => LeaksArePaid
  <2> SUFFICES ASSUME Inv, FewAstray, phase \in {"start", "done"}, NEW a \in Honest
               PROVE  Cardinality(messages[a]) <= Attempts * faults
    BY DEF LeaksArePaid
  <2>1. messages[a] \subseteq Astray(a)
    BY DEF Astray
  <2>2. IsFiniteSet(Astray(a)) /\ Cardinality(Astray(a)) \in Nat
    BY VotesAreFinite DEF Astray, Inv
  <2>3. /\ Cardinality(messages[a]) <= Cardinality(Astray(a))
        /\ Cardinality(messages[a]) \in Nat
    BY <2>1, <2>2, FS_Subset, FS_CardinalityType
  <2>4. Attempts * faults \in Nat /\ Cardinality(Astray(a)) <= Attempts * faults
    BY ParametersAssumption DEF FewAstray, Inv, TypeOK
  <2> QED
    BY <2>2, <2>3, <2>4
<1>3. RoundInv => Inv /\ SealsInOrder
  BY DEF RoundInv
<1> QED
  BY <1>1, <1>2, <1>3, FewAstrayNext, RoundInvHolds, PTL DEF Spec

----------------------------------------------------------------------------
(* Votes in time *)


\* No vote is about a round that has not begun.
NoFuture ==
  \A a \in Honest : \A m \in messages[a] \cup Strayed(a) :
    m.round <= round /\ (phase = "start" => m.round < round)

\* A broadcast is about the current round.
LEMMA NoFutureNext ==
  Inv /\ SealsInOrder /\ NoFuture /\ Progress /\ [Next]_vars => NoFuture'
<1> SUFFICES ASSUME Inv, SealsInOrder, NoFuture, Progress, [Next]_vars,
                    NEW a \in Honest, NEW m \in (messages[a] \cup Strayed(a))'
             PROVE  m.round <= round' /\ (phase' = "start" => m.round < round')
  BY DEF NoFuture
<1> USE DEF storeVars, outputVars, envVars, roundVars
<1>1. round \in Int /\ messages[a] \cup Strayed(a) \subseteq Message
  BY DEF Inv, TypeOK, Strayed
<1>2. \A v \in Message : v.round \in Int
  BY DEF Message, Vote, Rounds
<1>3. CASE \E b \in Peers : Broadcast(b)
  <2>1. PICK b \in Peers : Broadcast(b)
    BY <1>3
  <2>2. PICK value \in Bit, stored \in 0 .. Attempts, stray \in 0 .. Attempts :
          /\ messages'[a] = messages[a] \cup Copies(b, value, 1, stored)
          /\ Strayed(a)' \subseteq
               Strayed(a) \cup Copies(b, value, stored + 1, stored + stray)
    BY <2>1, BroadcastAt
  <2>3. round' = round /\ phase' = "vote"
    BY <2>1 DEF Broadcast
  <2>4. m \in messages[a] \cup Strayed(a) \/ m.round = round
    BY <2>2 DEF Copies
  <2> QED
    BY <1>1, <2>3, <2>4 DEF NoFuture
<1>4. CASE ~\E b \in Peers : Broadcast(b)
  <2>1. m \in messages[a] \cup Strayed(a)
    BY <1>4, NoNewVotes
  <2>2. m.round \in Int /\ m.round <= round /\ (phase = "start" => m.round < round)
    BY <1>1, <1>2, <2>1 DEF NoFuture
  <2>3. CASE Barrier
    BY <1>1, <2>2, <2>3 DEF Barrier, Inv, TypeOK
  <2>4. CASE round' = round /\ (phase' = "start" => phase = "start")
    BY <2>2, <2>4
  <2>5. CASE StartRound
    BY <2>2, <2>5 DEF StartRound
  <2> QED
    BY <1>4, <2>3, <2>4, <2>5 DEF Next, Program, Handlers, Terminated, PeerStep,
       VoteStep, DecideStep, Deadline, CheckSeal, AppendLate, Query, QueryFails,
       Seal, DecideByMajority, DecideAtSource, DecideFails, Forget, vars
<1> QED
  BY <1>3, <1>4

----------------------------------------------------------------------------
(* The peers that are caught *)

\* Under drip, nobody but the honest and the exposed peers has a vote of this
\* round in a store or on its way.
OnlyExposed ==
  (Adversary = "drip" /\ phase \in {"vote", "seal"}) =>
    \A a \in Honest : \A m \in messages[a] \cup Strayed(a) :
      m.round = round => m.sender \in Honest \cup exposed

\* Every step keeps that: the votes of a round are made in it.
LEMMA OnlyExposedNext ==
  RoundInv /\ NoFuture /\ Silenced /\ OnlyExposed /\ [Next]_vars
    => OnlyExposed'
<1> SUFFICES ASSUME RoundInv, NoFuture, Silenced, OnlyExposed, [Next]_vars,
                    Adversary = "drip", phase' \in {"vote", "seal"},
                    NEW a \in Honest, NEW m \in (messages[a] \cup Strayed(a))',
                    m.round = round'
             PROVE  m.sender \in Honest \cup exposed'
  BY DEF OnlyExposed
<1> USE DEF storeVars, outputVars, envVars, roundVars
<1>1. Inv /\ SealsInOrder
  BY DEF RoundInv
<1>2. CASE \E b \in Peers : Broadcast(b)
  <2>1. PICK b \in Peers : Broadcast(b)
    BY <1>2
  <2>2. PICK value \in Bit, stored \in 0 .. Attempts, stray \in 0 .. Attempts :
          /\ messages'[a] = messages[a] \cup Copies(b, value, 1, stored)
          /\ Strayed(a)' \subseteq
               Strayed(a) \cup Copies(b, value, stored + 1, stored + stray)
    BY <1>1, <2>1, BroadcastAt
  <2>3. /\ round' = round /\ phase = "vote" /\ exposed' = exposed
        /\ b \in todo
    BY <2>1 DEF Broadcast
  <2>4. m \in messages[a] \cup Strayed(a) \/ m.sender = b
    BY <2>2 DEF Copies
  <2> QED
    BY <2>3, <2>4 DEF OnlyExposed, Silenced
<1>3. CASE ~\E b \in Peers : Broadcast(b)
  <2>1. m \in messages[a] \cup Strayed(a)
    BY <1>1, <1>3, NoNewVotes
  <2>2. CASE StartRound
    <3>1. phase = "start" /\ round' = round
      BY <2>2 DEF StartRound
    <3>2. m.round < round /\ m.round = round /\ round \in Int
      BY <1>1, <2>1, <3>1 DEF NoFuture, Inv, TypeOK
    <3> QED
      BY <3>2
  <2>3. CASE Barrier
    <3>1. phase = "vote" /\ UNCHANGED <<round, exposed>>
      BY <1>1, <2>3 DEF Barrier, Inv, TypeOK
    <3> QED
      BY <2>1, <3>1 DEF OnlyExposed
  <2>4. CASE UNCHANGED <<phase, round, exposed>>
    BY <2>1, <2>4 DEF OnlyExposed
  <2> QED
    BY <1>3, <2>2, <2>3, <2>4 DEF Next, Program, Handlers, Terminated, PeerStep,
       VoteStep, DecideStep, Deadline, CheckSeal, AppendLate, Query, QueryFails,
       Seal, DecideByMajority, DecideAtSource, DecideFails, Forget, vars
<1> QED
  BY <1>2, <1>3

\* Under drip, no peer that the representative has caught is heard again, by
\* anyone and whatever the network does; one that another peer has caught is
\* heard by it only after a fault.
THEOREM CaughtCorrect == Spec => []CaughtAreSilent
<1>1. Init => NoFuture /\ Silenced /\ OnlyExposed
  BY DEF Init, NoFuture, Strayed, Silenced, OnlyExposed
<1>2. RoundInv /\ NoFuture /\ Silenced /\ OnlyExposed /\ [Next]_vars
        => NoFuture' /\ Silenced' /\ OnlyExposed'
  BY NoFutureNext, SilencedNext, OnlyExposedNext DEF RoundInv
<1>3. RoundInv /\ Silenced /\ OnlyExposed => CaughtAreSilent
  <2> SUFFICES ASSUME RoundInv, Silenced, OnlyExposed, Adversary = "drip",
                      phase \in {"vote", "seal"},
                      NEW a \in Honest, NEW m \in RoundVotes(a)
               PROVE  /\ m.sender \notin blacklist[RepHonest]
                      /\ m.sender \in blacklist[a] => faults > 0
    BY DEF CaughtAreSilent
  <2>1. m.sender \in Honest \cup exposed
    BY DEF OnlyExposed, RoundVotes
  <2>2. exposed \cap blacklist[RepHonest] = {}
    BY DEF Silenced
  <2>3. blacklist[RepHonest] \cap Honest = {}
    BY RepIsHonest DEF RoundInv, Inv, HonestNeverBlacklisted, Honest
  <2>4. faults = 0 => blacklist[a] = blacklist[RepHonest]
    BY RepIsHonest DEF RoundInv, Agreeing, Alike
  <2>5. faults \in Nat
    BY DEF RoundInv, Inv, TypeOK
  <2> QED
    BY <2>1, <2>2, <2>3, <2>4, <2>5
<1> QED
  BY <1>1, <1>2, <1>3, RoundInvHolds, PTL DEF Spec

----------------------------------------------------------------------------
(* Votes repeated *)

\* The peer has still to decide the bit of this round.
Undecided(a) == \/ phase \in {"start", "vote", "seal"}
                \/ phase = "decide" /\ a \in todo

\* The further copies of votes, which can still turn a tally of the round.
Extra(a) == {m \in messages[a] \cup Strayed(a) :
               Undecided(a) /\ m.round = round /\ m.copy > 1}

\* The account of one peer: what its conflicts have cost the adversary.
Paid(a) == conflicts[a] * (Rho + 1) + Cardinality(Extra(a))
             <= Cardinality(blacklist[a]) + (Attempts - 1) * faults

\* A conflict exposes more than rho peers that the peer had not blacklisted,
\* but for the votes that are further copies.
LEMMA ConflictExposes ==
  ASSUME Inv, NEW a \in Honest, round \in Rounds, phase = "decide", a \in todo,
         Conflicted(a)
  PROVE  LET L == Losers(RoundVotes(a), blacklist[a], object[round])
         IN  /\ L \cap blacklist[a] = {}
             /\ IsFiniteSet(L) /\ Cardinality(L) \in Nat
             /\ Rho + 1 <= Cardinality(L) + Cardinality(Extra(a))
<1> DEFINE V == VotesFor(1 - object[round], RoundVotes(a), blacklist[a])
           L == Losers(RoundVotes(a), blacklist[a], object[round])
           First == {v \in V : v.copy = 1}
           f == [v \in First |-> v.sender]
           Senders == {v.sender : v \in First}
<1>1. object[round] \in {0, 1} /\ 1 - object[round] \in {0, 1}
  BY DEF Inv, TypeOK, Bit
<1>2. V \subseteq Message /\ IsFiniteSet(V) /\ Cardinality(V) \in Nat
  BY VotesFinite DEF Inv
<1>3. Cardinality(V) >= Rho + 1
  BY <1>1, <1>2, ParametersAssumption DEF Conflicted, Conflict, Count
<1>4. f \in Bijection(First, Senders)
  <2>1. f \in [First -> Senders]
    OBVIOUS
  <2>2. ASSUME NEW v \in First, NEW w \in First, f[v] = f[w] PROVE v = w
    <3>1. v \in Message /\ w \in Message
      BY <1>2
    <3>2. /\ v.round = w.round /\ v.value = w.value /\ v.sender = w.sender
          /\ v.copy = w.copy
      BY <2>2 DEF VotesFor, Trusted, RoundVotes
    <3> QED
      BY <3>1, <3>2 DEF Message, Vote
  <2>3. \A l \in Senders : \E v \in First : f[v] = l
    OBVIOUS
  <2> QED
    BY <2>1, <2>2, <2>3 DEF Bijection, Injection, IsInjective, Surjection
<1>5. /\ IsFiniteSet(First) /\ IsFiniteSet(Senders)
      /\ Cardinality(Senders) = Cardinality(First)
  <2>1. IsFiniteSet(First)
    BY <1>2, FS_Subset
  <2> HIDE DEF f, V, L, First, Senders
  <2>2. ExistsBijection(First, Senders)
    BY <1>4 DEF ExistsBijection
  <2> QED
    BY <2>1, <2>2, FS_Bijection
<1>6. Senders \subseteq L /\ V \subseteq First \cup Extra(a)
  <2>1. Senders \subseteq L
    BY DEF Losers
  <2>2. ASSUME NEW v \in V PROVE v \in First \cup Extra(a)
    <3>1. v \in Message /\ v \in messages[a] /\ v.round = round
      BY <1>2 DEF VotesFor, Trusted, RoundVotes
    <3>2. v.copy = 1 \/ v.copy > 1
      BY <3>1, ParametersAssumption DEF Message, Vote
    <3> QED
      BY <3>1, <3>2 DEF Extra, Undecided
  <2> QED
    BY <2>1, <2>2
<1>7. IsFiniteSet(L) /\ L \cap blacklist[a] = {}
  <2>1. L = {v.sender : v \in V}
    BY DEF Losers
  <2>2. IsFiniteSet(L)
    <3> DEFINE g == [v \in V |-> v.sender]
    <3>1. g \in Surjection(V, L)
      BY <2>1 DEF Surjection
    <3> HIDE DEF g, V, L
    <3> QED
      BY <1>2, <3>1, FS_Surjection
  <2> QED
    BY <2>1, <2>2 DEF VotesFor, Trusted
<1>8. IsFiniteSet(Extra(a))
  BY VotesAreFinite DEF Extra, Inv
<1> HIDE DEF V, L, First, Senders, f
<1>9. /\ Cardinality(V) <= Cardinality(First) + Cardinality(Extra(a))
      /\ Cardinality(First) \in Nat /\ Cardinality(Extra(a)) \in Nat
  BY <1>5, <1>6, <1>8, GrowsBy
<1>10. Cardinality(Senders) <= Cardinality(L) /\ Cardinality(L) \in Nat
  BY <1>6, <1>7, FS_Subset, FS_CardinalityType
<1>11. Rho + 1 <= Cardinality(L) + Cardinality(Extra(a))
  BY <1>2, <1>3, <1>5, <1>9, <1>10, ParametersAssumption
<1> QED
  BY <1>7, <1>10, <1>11 DEF L

\* There are finitely many peers, and rounds.
LEMMA PeersFinite == IsFiniteSet(Peers)
BY ParametersAssumption, FS_Interval DEF Peers

LEMMA RoundsFinite == IsFiniteSet(Rounds)
BY ParametersAssumption, FS_Interval DEF Rounds

\* The blacklist of a peer is a finite set.
LEMMA BlacklistFinite ==
  ASSUME TypeOK, NEW a \in Honest
  PROVE  IsFiniteSet(blacklist[a]) /\ Cardinality(blacklist[a]) \in Nat
<1>1. blacklist[a] \subseteq Peers
  BY DEF TypeOK
<1> QED
  BY <1>1, PeersFinite, FS_Subset, FS_CardinalityType

\* A broadcast brings the further copies it pays for.
LEMMA ExtraBroadcast ==
  ASSUME Inv, SealsInOrder, NEW b \in Peers, Broadcast(b), TypeOK',
         NEW a \in Honest, Paid(a)
  PROVE  Paid(a)'
<1>1. PICK value \in Bit, stored \in 0 .. Attempts, stray \in 0 .. Attempts :
        /\ stored + stray <= Attempts
        /\ messages'[a] = messages[a] \cup Copies(b, value, 1, stored)
        /\ Strayed(a)' \subseteq
             Strayed(a) \cup Copies(b, value, stored + 1, stored + stray)
        /\ faults' \in Nat /\ faults <= faults'
        /\ stored # 1 \/ stray # 0 => faults + 1 <= faults'
  BY BroadcastAt
<1> DEFINE C == Copies(b, value, 2, stored + stray)
<1>2. /\ IsFiniteSet(C) /\ Cardinality(C) \in Nat
      /\ Cardinality(C) <= Attempts - 1
      /\ Cardinality(C) <= 0 \/ faults + 1 <= faults'
  <2>1. /\ IsFiniteSet(C)
        /\ Cardinality(C) <= IF 2 > stored + stray THEN 0
                             ELSE (stored + stray) - 2 + 1
    BY CopiesCount
  <2>2. Cardinality(C) \in Nat
    BY <2>1, FS_CardinalityType
  <2> QED
    BY <1>1, <2>1, <2>2, ParametersAssumption
<1>3. Extra(a)' \subseteq Extra(a) \cup C
  <2>1. round' = round /\ phase = "vote" /\ phase' = "vote"
    BY DEF Broadcast
  <2>2. ASSUME NEW m \in Extra(a)', m \notin Extra(a) PROVE m \in C
    <3>1. /\ m \notin messages[a] \cup Strayed(a) /\ m.round = round /\ m.copy > 1
          /\ m \in messages'[a] \cup Strayed(a)'
      BY <2>1, <2>2 DEF Extra, Undecided
    <3>2. \/ m \in Copies(b, value, 1, stored)
          \/ m \in Copies(b, value, stored + 1, stored + stray)
      BY <1>1, <3>1
    <3>3. m \in [sender : {b}, round : {round}, value : {value},
                copy : 2 .. stored + stray]
      BY <3>1, <3>2 DEF Copies
    <3> QED
      BY <3>3 DEF Copies
  <2> QED
    BY <2>2
<1>4. IsFiniteSet(Extra(a))
  BY VotesAreFinite DEF Extra, Inv
<1> HIDE DEF C
<1>5. /\ Cardinality(Extra(a)') <= Cardinality(Extra(a)) + Cardinality(C)
      /\ Cardinality(Extra(a)') \in Nat /\ Cardinality(Extra(a)) \in Nat
  BY <1>2, <1>3, <1>4, GrowsBy
<1> DEFINE X == (Attempts - 1) * faults
           Y == (Attempts - 1) * faults'
           Z == conflicts[a] * (Rho + 1)
<1>6. /\ faults \in Int /\ faults' \in Int /\ Attempts - 1 \in Nat
      /\ Z \in Int
  BY <1>1, ParametersAssumption DEF Inv, TypeOK
<1>7. /\ X \in Int /\ Y \in Int /\ X <= Y
      /\ faults + 1 <= faults' => X + (Attempts - 1) <= Y
  BY <1>1, <1>6, TimesGrows
<1>8. Z + Cardinality(Extra(a)) <= Cardinality(blacklist[a]) + X
  BY DEF Paid
<1>9. conflicts' = conflicts /\ blacklist' = blacklist
  BY DEF Broadcast, outputVars
<1>10. Cardinality(blacklist[a]) \in Nat
  BY BlacklistFinite DEF Inv
<1> HIDE DEF X, Y, Z
<1>11. Z + Cardinality(Extra(a)') <= Cardinality(blacklist[a]) + Y
  BY <1>1, <1>2, <1>5, <1>6, <1>7, <1>8, <1>10
<1> QED
  BY <1>9, <1>11 DEF Paid, Y, Z

\* A conflict uses up the further copies of its round.
LEMMA ConflictPays ==
  ASSUME Inv, NEW a \in Honest, DecideAtSource(a), Conflicted(a), Paid(a)
  PROVE  Paid(a)'
<1> DEFINE L == Losers(RoundVotes(a), blacklist[a], object[round])
<1>1. round \in Rounds /\ phase = "decide" /\ a \in todo
  BY DEF DecideAtSource, Inv, TypeOK
<1>2. /\ conflicts[a] \in Nat /\ conflicts'[a] = conflicts[a] + 1
      /\ blacklist'[a] = blacklist[a] \cup L
      /\ faults' = faults
  BY DEF DecideAtSource, Inv, TypeOK, envVars
<1>3. /\ L \cap blacklist[a] = {}
      /\ IsFiniteSet(L) /\ Cardinality(L) \in Nat
      /\ Rho + 1 <= Cardinality(L) + Cardinality(Extra(a))
  BY <1>1, ConflictExposes
<1>4. IsFiniteSet(blacklist[a]) /\ Cardinality(blacklist[a]) \in Nat
  BY BlacklistFinite DEF Inv
<1>5. Extra(a)' = {}
  <2>1. phase' = "decide" /\ a \notin todo'
    BY DEF DecideAtSource
  <2> QED
    BY <2>1 DEF Extra, Undecided
<1>6. Cardinality(Extra(a)') = 0
  BY <1>5, FS_EmptySet
<1>7. Cardinality(Extra(a)) \in Nat
  BY VotesAreFinite DEF Extra, Inv
<1> HIDE DEF L
<1>8. Cardinality(blacklist'[a]) = Cardinality(blacklist[a]) + Cardinality(L)
  <2>1. blacklist[a] \cap L = {}
    BY <1>3
  <2>2. Cardinality(blacklist[a] \cap L) = 0
    BY <2>1, FS_EmptySet
  <2>3. Cardinality(blacklist[a] \cup L) = Cardinality(blacklist[a])
          + Cardinality(L) - Cardinality(blacklist[a] \cap L)
    BY <1>3, <1>4, FS_Union
  <2> QED
    BY <1>2, <1>3, <1>4, <2>2, <2>3
<1> DEFINE X == (Attempts - 1) * faults
           Z == conflicts[a] * (Rho + 1)
<1>9. /\ X \in Int /\ Z \in Int /\ Rho \in Nat
      /\ (conflicts[a] + 1) * (Rho + 1) = Z + (Rho + 1)
  <2>1. X \in Int /\ Rho \in Nat
    BY ParametersAssumption DEF Inv, TypeOK
  <2>2. Z \in Int /\ (conflicts[a] + 1) * (Rho + 1) = Z + (Rho + 1)
    BY <1>2, <2>1, OneMoreTime
  <2> QED
    BY <2>1, <2>2
<1>10. Z + Cardinality(Extra(a)) <= Cardinality(blacklist[a]) + X
  BY DEF Paid
<1>11. X' = X
  BY <1>2
<1> HIDE DEF X, Z
<1>12. Z + (Rho + 1) + 0 <= Cardinality(blacklist'[a]) + X
  BY <1>3, <1>4, <1>7, <1>8, <1>9, <1>10
<1>13. conflicts'[a] * (Rho + 1) + Cardinality(Extra(a)') = Z + (Rho + 1) + 0
  BY <1>2, <1>6, <1>9
<1> QED
  BY <1>2, <1>12, <1>13 DEF Paid, X

\* No other step touches the account of a peer.
LEMMA AccountKept ==
  ASSUME Inv, NoFuture, Progress, [Next]_vars, ~\E b \in Peers : Broadcast(b),
         NEW a \in Honest, ~(DecideAtSource(a) /\ Conflicted(a))
  PROVE  /\ conflicts'[a] = conflicts[a] /\ blacklist'[a] = blacklist[a]
         /\ Extra(a)' \subseteq Extra(a)
<1> USE DEF storeVars, outputVars, envVars, roundVars
<1>1. conflicts'[a] = conflicts[a] /\ blacklist'[a] = blacklist[a]
  <2>1. CASE \E b \in Peers : DecideAtSource(b)
    <3>1. PICK b \in Peers : DecideAtSource(b)
      BY <2>1
    <3> QED
      BY <3>1 DEF DecideAtSource, Inv, TypeOK
  <2>2. CASE ~\E b \in Peers : DecideAtSource(b)
    BY <2>2 DEF Next, Program, Handlers, Terminated, PeerStep, VoteStep,
       DecideStep, StartRound, Barrier, Deadline, CheckSeal, AppendLate, Query,
       QueryFails, Seal, DecideByMajority, DecideFails, Forget, vars
  <2> QED
    BY <2>1, <2>2
<1>2. \A m \in Extra(a)' : /\ m \in messages[a] \cup Strayed(a)
                           /\ Undecided(a)' /\ m.round = round' /\ m.copy > 1
  BY NoNewVotes DEF Extra
<1>3. CASE Barrier
  <2>1. errors \in Nat /\ round \in Int /\ todo = {}
    BY <1>3 DEF Barrier, Inv, TypeOK
  <2>2. CASE phase = "forget"
    <3>1. round' = round + 1
      BY <1>3, <2>2 DEF Barrier
    <3>2. \A m \in messages[a] \cup Strayed(a) : m.round \in Int /\ m.round <= round
      BY DEF NoFuture, Inv, TypeOK, Strayed, Message, Vote, Rounds
    <3> QED
      BY <1>1, <1>2, <2>1, <3>1, <3>2
  <2>3. CASE phase # "forget"
    <3>1. /\ round' = round
          /\ phase \in {"vote", "seal"} \/ phase' \in {"forget", "aborted"}
      BY <1>3, <2>1, <2>3 DEF Barrier
    <3> QED
      BY <1>1, <1>2, <3>1 DEF Extra, Undecided
  <2> QED
    BY <2>2, <2>3
<1>4. CASE StartRound
  BY <1>1, <1>2, <1>4 DEF StartRound, Extra, Undecided
<1>5. CASE UNCHANGED <<round, phase>> /\ (phase = "decide" => todo' \subseteq todo)
  BY <1>1, <1>2, <1>5 DEF Extra, Undecided
<1> QED
  BY <1>3, <1>4, <1>5 DEF Next, Program, Handlers, Terminated, PeerStep,
     VoteStep, DecideStep, Deadline, CheckSeal, AppendLate, Query, QueryFails,
     Seal, DecideByMajority, DecideAtSource, DecideFails, Forget, vars

\* Every step keeps the accounts.
LEMMA PaidNext ==
  ASSUME RoundInv, NoFuture, [Next]_vars, NEW a \in Honest, Paid(a)
  PROVE  Paid(a)'
<1>0. Inv /\ SealsInOrder /\ Progress
  BY DEF RoundInv
<1>1. CASE \E b \in Peers : Broadcast(b)
  BY <1>0, <1>1, ExtraBroadcast, TypeNext DEF Inv
<1>2. CASE DecideAtSource(a) /\ Conflicted(a)
  BY <1>0, <1>2, ConflictPays
<1>3. CASE ~(\E b \in Peers : Broadcast(b)) /\ ~(DecideAtSource(a) /\ Conflicted(a))
  <2>1. /\ conflicts'[a] = conflicts[a] /\ blacklist'[a] = blacklist[a]
        /\ Extra(a)' \subseteq Extra(a)
    BY <1>0, <1>3, AccountKept
  <2>2. IsFiniteSet(Extra(a)) /\ Cardinality(Extra(a)) \in Nat
    BY <1>0, VotesAreFinite DEF Extra, Inv
  <2>3. /\ Cardinality(Extra(a)') <= Cardinality(Extra(a))
        /\ Cardinality(Extra(a)') \in Nat
    BY <2>1, <2>2, FS_Subset, FS_CardinalityType
  <2> DEFINE X == (Attempts - 1) * faults
             Y == (Attempts - 1) * faults'
             Z == conflicts[a] * (Rho + 1)
  <2>4. X \in Int /\ Y \in Int /\ X <= Y
    BY <1>0, BillsGrow, TimesGrows, ParametersAssumption
  <2>5. Z \in Int /\ Cardinality(blacklist[a]) \in Nat
    BY <1>0, BlacklistFinite, ParametersAssumption DEF Inv, TypeOK
  <2>6. Z + Cardinality(Extra(a)) <= Cardinality(blacklist[a]) + X
    BY DEF Paid
  <2> HIDE DEF X, Y, Z
  <2>7. Z + Cardinality(Extra(a)') <= Cardinality(blacklist[a]) + Y
    BY <2>2, <2>3, <2>4, <2>5, <2>6
  <2> QED
    BY <2>1, <2>7 DEF Paid, Y, Z
<1> QED
  BY <1>1, <1>2, <1>3

\* Each conflict has cost the adversary rho + 1 peers of the blacklist, but
\* for the copies that faults have brought.
THEOREM ConflictsCorrect == Spec => []ConflictsPaid
<1> DEFINE AllPaid == \A a \in Honest : Paid(a)
<1>1. Init => NoFuture /\ AllPaid
  <2> SUFFICES ASSUME Init, NEW a \in Honest
               PROVE  (\A m \in messages[a] \cup Strayed(a) : FALSE) /\ Paid(a)
    BY DEF NoFuture
  <2>1. messages[a] = {} /\ Strayed(a) = {}
    BY DEF Init, Strayed
  <2>2. Extra(a) = {}
    BY <2>1 DEF Extra
  <2>3. conflicts[a] = 0 /\ faults = 0 /\ blacklist[a] = {}
    BY DEF Init
  <2> QED
    BY <2>1, <2>2, <2>3, FS_EmptySet, ParametersAssumption DEF Paid
<1>2. RoundInv /\ NoFuture /\ AllPaid /\ [Next]_vars => NoFuture' /\ AllPaid'
  <2> SUFFICES ASSUME RoundInv, NoFuture, AllPaid, [Next]_vars
               PROVE  NoFuture' /\ AllPaid'
    OBVIOUS
  <2>1. NoFuture'
    BY NoFutureNext DEF RoundInv
  <2>2. ASSUME NEW a \in Honest PROVE Paid(a)'
    BY PaidNext
  <2> QED
    BY <2>1, <2>2
<1>3. RoundInv /\ AllPaid => ConflictsPaid
  <2> SUFFICES ASSUME RoundInv, AllPaid, NEW a \in Honest
               PROVE  conflicts[a] * (Rho + 1)
                        <= Cardinality(blacklist[a]) + (Attempts - 1) * faults
    BY DEF ConflictsPaid
  <2>1. Paid(a) /\ Inv
    BY DEF RoundInv
  <2>2. Cardinality(Extra(a)) \in Nat /\ Cardinality(blacklist[a]) \in Nat
    BY <2>1, VotesAreFinite, BlacklistFinite DEF Extra, Inv
  <2>3. conflicts[a] * (Rho + 1) \in Int /\ (Attempts - 1) * faults \in Int
    BY <2>1, ParametersAssumption DEF Inv, TypeOK
  <2> QED
    BY <2>1, <2>2, <2>3 DEF Paid
<1> HIDE DEF AllPaid
<1> QED
  BY <1>1, <1>2, <1>3, RoundInvHolds, PTL DEF Spec

\* The verification cost beta*k/rho of README.md, rounded as the code does it:
\* a peer asks the source about |Byz| / (rho+1) conflicts, and about those that
\* repeated votes can stage.
VerificationBudget ==
  \A a \in Honest :
    conflicts[a] * (Rho + 1) <= Cardinality(Byz) + (Attempts - 1) * faults

THEOREM BudgetCorrect == Spec => []VerificationBudget
<1>1. TypeOK /\ HonestNeverBlacklisted /\ ConflictsPaid => VerificationBudget
  <2> SUFFICES ASSUME TypeOK, HonestNeverBlacklisted, ConflictsPaid,
                      NEW a \in Honest
               PROVE  conflicts[a] * (Rho + 1)
                        <= Cardinality(Byz) + (Attempts - 1) * faults
    BY DEF VerificationBudget
  <2>1. IsFiniteSet(Byz)
    BY PeersFinite, ParametersAssumption, FS_Subset
  <2>2. Cardinality(blacklist[a]) <= Cardinality(Byz)
    BY <2>1, FS_Subset DEF HonestNeverBlacklisted
  <2>3. Cardinality(blacklist[a]) \in Nat /\ Cardinality(Byz) \in Nat
    BY <2>1, BlacklistFinite, FS_CardinalityType
  <2>4. conflicts[a] * (Rho + 1) \in Int /\ (Attempts - 1) * faults \in Int
    BY ParametersAssumption DEF TypeOK
  <2> QED
    BY <2>2, <2>3, <2>4 DEF ConflictsPaid
<1> QED
  BY <1>1, TypeCorrect, BlameCorrect, ConflictsCorrect, PTL

----------------------------------------------------------------------------
(* Votes missing *)

Spare == MinCommittee - Rho

\* The committee of the round is large enough.
Elected == phase \in {"vote", "seal", "decide"}
             => Cardinality(committee) >= MinCommittee

\* The tally of the peer, in this round, is still to come.
Pending(a) == \/ phase = "vote" /\ errors = 0
              \/ phase = "seal"
              \/ phase = "decide" /\ a \in todo

\* The members of the committee whose job is over and that a has not heard.
Missing(a) ==
  {c \in committee : /\ phase = "vote" => c \notin todo
                     /\ \A m \in messages[a] : m.sender = c => m.round # round}

\* What the faults of this round have bought so far: votes that a will miss.
Charge(a) == IF ~Pending(a) THEN 0
             ELSE IF expired THEN Spare ELSE Cardinality(Missing(a))

\* The account of a: rounds decided without the committee, and this one.
Settled(a) == Spare * Unheard(a) + Charge(a) <= faults + Spare * overruns

Wrong(a) == {r \in Rounds : bits[a][r] \notin {NoBit, object[r]}}

\* The rounds that were decided without the committee are counted.
LEMMA UnheardIsInt ==
  ASSUME TypeOK, NEW a \in Honest
  PROVE  /\ IsFiniteSet(Wrong(a)) /\ Cardinality(Wrong(a)) \in Nat
         /\ Unheard(a) = Cardinality(Wrong(a)) + verifyQueries[a] - conflicts[a]
         /\ verifyQueries[a] \in Nat /\ conflicts[a] \in Nat
         /\ Unheard(a) \in Int
<1>1. Wrong(a) \subseteq Rounds
  BY DEF Wrong
<1>2. IsFiniteSet(Wrong(a)) /\ Cardinality(Wrong(a)) \in Nat
  BY <1>1, RoundsFinite, FS_Subset, FS_CardinalityType
<1>3. Unheard(a) = Cardinality(Wrong(a)) + verifyQueries[a] - conflicts[a]
  BY DEF Unheard, Wrong
<1>4. verifyQueries[a] \in Nat /\ conflicts[a] \in Nat
  BY DEF TypeOK
<1> QED
  BY <1>2, <1>3, <1>4

\* Only decideBit of the peer itself changes the account of its rounds.
LEMMA UnheardKept ==
  ASSUME Inv, [Next]_vars, NEW a \in Honest,
         ~(DecideByMajority(a) \/ DecideAtSource(a))
  PROVE  Unheard(a)' = Unheard(a)
<1> USE DEF storeVars, outputVars, envVars, roundVars
<1>1. UNCHANGED <<bits[a], verifyQueries[a], conflicts[a], object>>
  <2>1. CASE \E b \in Peers : DecideByMajority(b) \/ DecideAtSource(b)
    <3>1. PICK b \in Peers : DecideByMajority(b) \/ DecideAtSource(b)
      BY <2>1
    <3>2. b # a
      BY <3>1
    <3> QED
      BY <3>1, <3>2 DEF DecideByMajority, DecideAtSource, Inv, TypeOK
  <2>2. CASE ~\E b \in Peers : DecideByMajority(b) \/ DecideAtSource(b)
    BY <2>2 DEF Next, Program, Handlers, Terminated, PeerStep, VoteStep,
       DecideStep, StartRound, Barrier, Deadline, CheckSeal, AppendLate, Query,
       QueryFails, Broadcast, Seal, DecideFails, Forget, vars
  <2> QED
    BY <2>1, <2>2
<1> QED
  BY <1>1 DEF Unheard

\* A peer that holds more than rho honest votes decides with its committee.
LEMMA UnheardGrows ==
  ASSUME Inv, TypeOK', NEW a \in Honest,
         DecideByMajority(a) \/ DecideAtSource(a)
  PROVE  \/ Unheard(a)' <= Unheard(a)
         \/ /\ Unheard(a)' <= Unheard(a) + 1
            /\ Cardinality(HonestVotes(a)) <= Rho
<1>1. /\ IsFiniteSet(Wrong(a)) /\ Cardinality(Wrong(a)) \in Nat
      /\ Unheard(a) = Cardinality(Wrong(a)) + verifyQueries[a] - conflicts[a]
      /\ verifyQueries[a] \in Nat /\ conflicts[a] \in Nat
  BY UnheardIsInt DEF Inv
<1>2. /\ IsFiniteSet(Wrong(a)') /\ Cardinality(Wrong(a)') \in Nat
      /\ Unheard(a)' = Cardinality(Wrong(a)') + verifyQueries'[a] - conflicts'[a]
  <2>1. Wrong(a)' \subseteq Rounds
    BY DEF Wrong
  <2>2. Unheard(a)' = Cardinality(Wrong(a)') + verifyQueries'[a] - conflicts'[a]
    BY DEF Unheard, Wrong
  <2> QED
    BY <2>1, <2>2, RoundsFinite, FS_Subset, FS_CardinalityType
<1>3. /\ round \in Rounds /\ object' = object
      /\ bits \in [Honest -> [Rounds -> Bit \cup {NoBit}]]
  BY DEF DecideByMajority, DecideAtSource, Inv, TypeOK
<1>4. ASSUME bits'[a][round] = object[round]
      PROVE  Cardinality(Wrong(a)') <= Cardinality(Wrong(a))
  <2>1. \A r \in Rounds : r # round => bits'[a][r] = bits[a][r]
    BY DecidedIsBit
  <2>2. Wrong(a)' \subseteq Wrong(a)
    BY <1>3, <1>4, <2>1 DEF Wrong
  <2> QED
    BY <1>1, <2>2, FS_Subset
<1>5. CASE DecideByMajority(a)
  <2>1. verifyQueries' = verifyQueries /\ conflicts' = conflicts
    BY <1>5 DEF DecideByMajority
  <2>2. CASE Cardinality(HonestVotes(a)) > Rho
    <3>1. Majority(RoundVotes(a), blacklist[a]) = object[round]
      BY <1>3, <1>5, <2>2, MajorityIsTrue DEF DecideByMajority, NeedsSource
    <3>2. bits'[a][round] = object[round]
      BY <1>3, <1>5, <3>1 DEF DecideByMajority
    <3> QED
      BY <1>1, <1>2, <1>4, <2>1, <3>2
  <2>3. CASE ~(Cardinality(HonestVotes(a)) > Rho)
    <3>1. Cardinality(HonestVotes(a)) <= Rho
      BY <1>3, <2>3, HonestVotesCount, ParametersAssumption
    <3>2. \A r \in Rounds : r # round => bits'[a][r] = bits[a][r]
      BY <1>5, DecidedIsBit
    <3>3. Wrong(a)' \subseteq Wrong(a) \cup {round}
      BY <1>3, <3>2 DEF Wrong
    <3>4. IsFiniteSet({round}) /\ Cardinality({round}) = 1
      BY FS_Singleton
    <3>5. Cardinality(Wrong(a)') <= Cardinality(Wrong(a)) + Cardinality({round})
      BY <1>1, <3>3, <3>4, GrowsBy
    <3> QED
      BY <1>1, <1>2, <2>1, <3>1, <3>4, <3>5
  <2> QED
    BY <2>2, <2>3
<1>6. CASE DecideAtSource(a)
  <2>1. bits'[a][round] = object[round]
    BY <1>3, <1>6 DEF DecideAtSource
  <2>2. /\ verifyQueries'[a] = verifyQueries[a] + 1
        /\ conflicts'[a] = IF Conflicted(a) THEN conflicts[a] + 1 ELSE conflicts[a]
    BY <1>6 DEF DecideAtSource, Inv, TypeOK
  <2>3. Cardinality(Wrong(a)') <= Cardinality(Wrong(a))
    BY <1>4, <2>1
  <2>4. CASE Conflicted(a)
    BY <1>1, <1>2, <2>2, <2>3, <2>4
  <2>5. CASE ~Conflicted(a)
    <3>1. Trusted(RoundVotes(a), blacklist[a]) = {}
      BY <1>6, <2>5 DEF DecideAtSource, NeedsSource, Silence
    <3>2. HonestVotes(a) = {}
      BY <3>1 DEF HonestVotes, Trusted, Inv, HonestNeverBlacklisted, Honest
    <3>3. Cardinality(HonestVotes(a)) <= Rho
      BY <3>2, FS_EmptySet, ParametersAssumption
    <3> QED
      BY <1>1, <1>2, <2>2, <2>3, <2>5, <3>3
  <2> QED
    BY <2>4, <2>5
<1> QED
  BY <1>5, <1>6

\* The members of a committee are heard or missing.
LEMMA HeardOrMissing ==
  ASSUME Inv, Elected, phase = "decide", NEW a \in Honest
  PROVE  MinCommittee <= Cardinality(HonestVotes(a)) + Cardinality(Missing(a))
<1> DEFINE Senders == {m.sender : m \in HonestVotes(a)}
           f == [m \in HonestVotes(a) |-> m.sender]
<1>1. IsFiniteSet(HonestVotes(a)) /\ Cardinality(HonestVotes(a)) \in Nat
  <2>1. HonestVotes(a) \subseteq messages[a] \cup Strayed(a)
    BY DEF HonestVotes, RoundVotes
  <2> QED
    BY <2>1, VotesAreFinite DEF Inv
<1>2. f \in Surjection(HonestVotes(a), Senders)
  BY DEF Surjection
<1>3. committee \subseteq Senders \cup Missing(a)
  BY DEF Missing, HonestVotes, RoundVotes, Inv, TypeOK
<1>4. IsFiniteSet(Missing(a))
  BY HonestFinite, FS_Subset DEF Missing, Inv, TypeOK
<1> HIDE DEF f, Senders
<1>5. IsFiniteSet(Senders) /\ Cardinality(Senders) <= Cardinality(HonestVotes(a))
  BY <1>1, <1>2, FS_Surjection
<1>6. /\ Cardinality(committee) <= Cardinality(Senders) + Cardinality(Missing(a))
      /\ Cardinality(committee) \in Nat /\ Cardinality(Senders) \in Nat
      /\ Cardinality(Missing(a)) \in Nat
  BY <1>3, <1>4, <1>5, GrowsBy
<1> QED
  BY <1>1, <1>5, <1>6, BoundsAssumption DEF Elected

\* The charge of a round grows by the members that a newly misses.
LEMMA ChargeGrowsBy ==
  ASSUME TypeOK, Spare \in Nat, NEW a \in Honest, NEW D, IsFiniteSet(D),
         expired' = expired,
         Pending(a)' => Pending(a) /\ Missing(a)' \subseteq Missing(a) \cup D
  PROVE  /\ Charge(a) \in Nat /\ Charge(a)' \in Nat /\ Cardinality(D) \in Nat
         /\ Charge(a)' <= Charge(a) + Cardinality(D)
<1>1. IsFiniteSet(Missing(a))
  BY HonestFinite, FS_Subset DEF Missing, TypeOK
<1>2. Cardinality(Missing(a)) \in Nat /\ Cardinality(D) \in Nat
  BY <1>1, FS_CardinalityType
<1>3. CASE Pending(a)'
  <2>1. /\ Cardinality(Missing(a)') <= Cardinality(Missing(a)) + Cardinality(D)
        /\ Cardinality(Missing(a)') \in Nat
    BY <1>1, <1>3, GrowsBy
  <2> QED
    BY <1>2, <1>3, <2>1 DEF Charge
<1>4. CASE ~Pending(a)'
  BY <1>2, <1>4 DEF Charge
<1> QED
  BY <1>3, <1>4

\* The account when the rounds of the peer stay as they are.
LEMMA SettledBy ==
  ASSUME Inv, [Next]_vars, Spare \in Nat, NEW a \in Honest, Settled(a),
         Unheard(a)' = Unheard(a), NEW d \in Nat,
         Charge(a) \in Int, Charge(a)' \in Int, Charge(a)' <= Charge(a) + d,
         faults + d <= faults'
  PROVE  Settled(a)'
<1>1. /\ faults \in Nat /\ faults' \in Nat
      /\ overruns \in Nat /\ overruns' \in Nat /\ overruns <= overruns'
  BY BillsGrow
<1>2. Unheard(a) \in Int
  BY UnheardIsInt DEF Inv
<1> DEFINE U == Spare * Unheard(a)
           X == Spare * overruns
           Y == Spare * overruns'
<1>3. U \in Int /\ overruns \in Int /\ overruns' \in Int
  BY <1>1, <1>2
<1>4. X \in Int /\ Y \in Int /\ X <= Y
  BY <1>1, <1>3, TimesGrows
<1>6. U + Charge(a) <= faults + X
  BY DEF Settled
<1> HIDE DEF U, X, Y
<1>7. U + Charge(a)' <= faults' + Y
  BY <1>1, <1>3, <1>4, <1>6
<1>8. Spare' = Spare
  BY DEF Spare
<1>9. Settled(a)' <=> Spare * Unheard(a) + Charge(a)' <= faults' + Spare * overruns'
  BY <1>8 DEF Settled
<1> QED
  BY <1>7, <1>9 DEF U, Y

\* A vote that fails to reach a is a fault.
LEMMA BroadcastMisses ==
  ASSUME Inv, SealsInOrder, NEW b \in Peers, Broadcast(b), NEW a \in Honest
  PROVE  \E D \in SUBSET {b} :
           /\ Missing(a)' \subseteq Missing(a) \cup D
           /\ D # {} => faults + 1 <= faults'
<1>1. PICK value \in Bit, stored \in 0 .. Attempts, stray \in 0 .. Attempts :
        /\ messages'[a] = messages[a] \cup Copies(b, value, 1, stored)
        /\ stored # 1 \/ stray # 0 => faults + 1 <= faults'
  BY BroadcastAt
<1>2. /\ UNCHANGED <<round, phase, committee>> /\ todo' = todo \ {b}
  BY DEF Broadcast
<1>3. Missing(a)' \subseteq Missing(a) \cup {b}
  BY <1>1, <1>2 DEF Missing
<1>4. CASE stored = 0
  <2>1. {b} \in SUBSET {b} /\ faults + 1 <= faults'
    BY <1>1, <1>4
  <2> QED
    BY <1>3, <2>1
<1>5. CASE stored # 0
  <2> DEFINE m == [sender |-> b, round |-> round, value |-> value, copy |-> 1]
  <2>1. m \in Copies(b, value, 1, stored) /\ m.sender = b /\ m.round = round
    BY <1>5 DEF Copies
  <2>2. b \notin Missing(a)'
    <3> HIDE DEF m
    <3> QED
      BY <1>1, <1>2, <2>1 DEF Missing
  <2>3. Missing(a)' \subseteq Missing(a) \cup {}
    BY <1>3, <2>2
  <2> QED
    BY <2>3
<1> QED
  BY <1>4, <1>5

\* A step that neither starts a round, nor decides, nor does harm.
LEMMA MissingKept ==
  ASSUME Inv, [Next]_vars, NEW a \in Honest,
         Barrier \/ Deadline
           \/ (\E b \in Peers : Query(b) \/ Seal(b) \/ DecideStep(b) \/ Forget(b))
           \/ Handlers \/ UNCHANGED vars
  PROVE  Pending(a)' => Pending(a) /\ Missing(a)' \subseteq Missing(a)
<1> USE DEF storeVars, outputVars, envVars, roundVars
<1>1. CASE Barrier
  <2>1. /\ UNCHANGED <<messages, committee>> /\ errors \in Nat /\ todo = {}
    BY <1>1 DEF Barrier, Inv, TypeOK
  <2>2. CASE phase \in {"vote", "seal"}
    <3>1. /\ round' = round /\ phase' # "vote"
          /\ phase = "vote" => phase' = "aborted" \/ errors = 0
          /\ phase = "vote" => phase' \in {"aborted", "seal"}
      BY <1>1, <2>1, <2>2 DEF Barrier
    <3> QED
      BY <2>1, <2>2, <3>1 DEF Pending, Missing
  <2>3. CASE phase \notin {"vote", "seal"}
    <3>1. phase' \in {"forget", "aborted", "done", "start"}
      BY <1>1, <2>1, <2>3 DEF Barrier
    <3> QED
      BY <3>1 DEF Pending
  <2> QED
    BY <2>2, <2>3
<1>2. CASE \E b \in Peers : DecideStep(b)
  <2>1. /\ UNCHANGED <<messages, committee, round, phase>> /\ todo' \subseteq todo
        /\ phase = "decide"
    BY <1>2 DEF DecideStep, DecideByMajority, DecideAtSource, DecideFails
  <2> QED
    BY <2>1 DEF Pending, Missing
<1>3. CASE \E b \in Peers : Query(b) \/ Seal(b) \/ Forget(b)
  <2>1. /\ UNCHANGED <<committee, round, phase, errors>>
        /\ phase = "vote" => todo' = todo
        /\ phase \in {"vote", "seal"} => messages' = messages
        /\ phase \in {"vote", "seal", "forget"}
    BY <1>3 DEF Query, Seal, Forget
  <2> QED
    BY <2>1 DEF Pending, Missing
<1>4. CASE Handlers
  <2>1. /\ UNCHANGED <<committee, round, phase, errors, todo>>
        /\ messages[a] \subseteq messages'[a]
    BY <1>4 DEF Handlers, CheckSeal, AppendLate, Inv, TypeOK
  <2> QED
    BY <2>1 DEF Pending, Missing
<1>5. CASE UNCHANGED vars \/ Deadline
  BY <1>5 DEF vars, Deadline, Pending, Missing
<1> QED
  BY <1>1, <1>2, <1>3, <1>4, <1>5

\* The steps of the voting phase that can cost a the vote of a member.
LEMMA SettledVote ==
  ASSUME Inv, SealsInOrder, [Next]_vars, Spare \in Nat, NEW a \in Honest,
         Settled(a), NEW b \in Peers, QueryFails(b) \/ Broadcast(b)
  PROVE  Settled(a)'
<1> USE DEF storeVars, outputVars, envVars
<1>1. Unheard(a)' = Unheard(a)
  <2>1. ~(DecideByMajority(a) \/ DecideAtSource(a))
    BY DEF QueryFails, Broadcast, DecideByMajority, DecideAtSource
  <2> QED
    BY <2>1, UnheardKept
<1>2. TypeOK /\ faults \in Nat /\ faults' \in Nat /\ faults <= faults'
  BY BillsGrow DEF Inv
<1>3. Charge(a) \in Nat
  BY <1>2, FS_CardinalityType, HonestFinite, FS_Subset DEF Charge, Missing, TypeOK
<1>4. /\ UNCHANGED <<round, phase, committee, expired>> /\ phase = "vote"
      /\ todo' = todo \ {b} /\ errors \in Nat /\ errors' \in Nat
      /\ errors <= errors'
  BY <1>2, TypeNext DEF QueryFails, Broadcast, TypeOK
<1>5. Pending(a)' => Pending(a)
  BY <1>4 DEF Pending
<1>6. ASSUME NEW D \in SUBSET {b}, D # {} => faults + 1 <= faults',
             Pending(a)' => Missing(a)' \subseteq Missing(a) \cup D
      PROVE  Settled(a)'
  <2>1. IsFiniteSet(D)
    BY FS_Singleton, FS_Subset
  <2>2. /\ Cardinality(D) \in Nat /\ Charge(a)' \in Nat
        /\ Charge(a)' <= Charge(a) + Cardinality(D)
    BY <1>2, <1>4, <1>5, <1>6, <2>1, ChargeGrowsBy
  <2>3. faults + Cardinality(D) <= faults'
    <3>1. CASE D = {}
      BY <1>2, <3>1, FS_EmptySet
    <3>2. CASE D # {}
      <4>1. D = {b}
        BY <3>2
      <4>2. Cardinality(D) = 1
        BY <4>1, FS_Singleton
      <4> QED
        BY <1>6, <3>2, <4>2
    <3> QED
      BY <3>1, <3>2
  <2> QED
    BY <1>1, <1>3, <2>2, <2>3, SettledBy
<1>7. CASE Broadcast(b)
  <2>1. PICK D \in SUBSET {b} :
          /\ Missing(a)' \subseteq Missing(a) \cup D
          /\ D # {} => faults + 1 <= faults'
    BY <1>7, BroadcastMisses
  <2> QED
    BY <1>6, <2>1
<1>8. CASE QueryFails(b)
  <2>1. Missing(a)' \subseteq Missing(a) \cup {b}
    BY <1>4, <1>8 DEF QueryFails, Missing
  <2>2. CASE faults' = faults + 1
    <3>1. {b} \in SUBSET {b} /\ faults + 1 <= faults'
      BY <1>2, <2>2
    <3> QED
      BY <1>6, <2>1, <3>1
  <2>3. CASE errors' = errors + 1
    <3>1. ~Pending(a)'
      BY <1>4, <2>3 DEF Pending
    <3>2. PICK D \in SUBSET {b} : D = {}
      OBVIOUS
    <3> QED
      BY <1>6, <3>1, <3>2
  <2>4. CASE expired /\ UNCHANGED <<faults, errors>>
    <3>1. Charge(a)' <= Charge(a) + 0 /\ Charge(a)' \in Int
      BY <1>3, <1>4, <1>5, <2>4 DEF Charge, Spare
    <3> QED
      BY <1>1, <1>2, <1>3, <3>1, SettledBy
  <2> QED
    BY <1>8, <2>2, <2>3, <2>4 DEF QueryFails
<1> QED
  BY <1>7, <1>8

\* A decision without the committee has been paid for.
LEMMA SettledDecide ==
  ASSUME Inv, Elected, [Next]_vars, Spare \in Nat, NEW a \in Honest, Settled(a),
         DecideByMajority(a) \/ DecideAtSource(a)
  PROVE  Settled(a)'
<1> USE DEF storeVars, outputVars, envVars
<1>1. TypeOK /\ TypeOK' /\ Unheard(a) \in Int
  BY TypeNext, UnheardIsInt DEF Inv
<1>2. Unheard(a)' \in Int
  <2>1. /\ Unheard(a)' = Cardinality(Wrong(a)') + verifyQueries'[a] - conflicts'[a]
        /\ verifyQueries'[a] \in Nat /\ conflicts'[a] \in Nat
        /\ Wrong(a)' \subseteq Rounds
    BY <1>1 DEF Unheard, Wrong, TypeOK
  <2>2. Cardinality(Wrong(a)') \in Nat
    BY <2>1, RoundsFinite, FS_Subset, FS_CardinalityType
  <2> QED
    BY <2>1, <2>2
<1>3. /\ phase = "decide" /\ a \in todo /\ UNCHANGED <<faults, overruns>>
      /\ Pending(a) /\ ~Pending(a)'
  BY DEF DecideByMajority, DecideAtSource, Pending
<1>4. Charge(a)' = 0
  BY <1>3 DEF Charge
<1>5. /\ Charge(a) \in Nat
      /\ Cardinality(HonestVotes(a)) <= Rho => Spare <= Charge(a)
  <2>1. IsFiniteSet(Missing(a)) /\ Cardinality(Missing(a)) \in Nat
    BY <1>1, HonestFinite, FS_Subset, FS_CardinalityType DEF Missing, TypeOK
  <2>2. MinCommittee <= Cardinality(HonestVotes(a)) + Cardinality(Missing(a))
    BY <1>3, HeardOrMissing
  <2>3. Cardinality(HonestVotes(a)) \in Nat
    <3>1. HonestVotes(a) \subseteq messages[a] \cup Strayed(a)
      BY DEF HonestVotes, RoundVotes
    <3> QED
      BY <1>1, <3>1, VotesAreFinite
  <2> QED
    BY <1>3, <2>1, <2>2, <2>3, ParametersAssumption, BoundsAssumption
       DEF Charge, Spare
<1> DEFINE U == Spare * Unheard(a)
           V == Spare * Unheard(a)'
           X == Spare * overruns
<1>6. U \in Int /\ V \in Int /\ X \in Int /\ faults \in Int
  BY <1>1, <1>2 DEF TypeOK
<1>7. /\ Unheard(a)' <= Unheard(a) => V <= U
      /\ Unheard(a)' <= Unheard(a) + 1 => V <= U + Spare
  <2>1. Unheard(a)' <= Unheard(a) => V <= U
    BY <1>1, <1>2, TimesGrows
  <2>2. Unheard(a) + 1 \in Int /\ Spare * (Unheard(a) + 1) = U + Spare
    BY <1>1
  <2>3. Unheard(a)' <= Unheard(a) + 1 => V <= Spare * (Unheard(a) + 1)
    BY <1>2, <2>2, TimesGrows
  <2> QED
    BY <2>1, <2>2, <2>3
<1>8. U + Charge(a) <= faults + X
  BY DEF Settled
<1>9. \/ Unheard(a)' <= Unheard(a)
      \/ /\ Unheard(a)' <= Unheard(a) + 1
         /\ Cardinality(HonestVotes(a)) <= Rho
  BY <1>1, UnheardGrows
<1> HIDE DEF U, V, X
<1>10. V + 0 <= faults + X
  BY <1>5, <1>6, <1>7, <1>8, <1>9
<1>11. Spare' = Spare
  BY DEF Spare
<1> QED
  BY <1>3, <1>4, <1>10, <1>11 DEF Settled, V, X

\* Every step keeps the account of a peer.
LEMMA SettledNext ==
  ASSUME Inv, SealsInOrder, Elected, [Next]_vars, Spare \in Nat,
         NEW a \in Honest, Settled(a)
  PROVE  Settled(a)'
<1> USE DEF storeVars, outputVars, envVars, roundVars
<1>1. TypeOK /\ faults \in Nat /\ overruns \in Nat
  BY DEF Inv, TypeOK
<1>2. Charge(a) \in Nat /\ Charge(a) \in Int
  BY <1>1, FS_CardinalityType, HonestFinite, FS_Subset DEF Charge, Missing, TypeOK
<1>3. CASE StartRound
  <2>1. /\ Missing(a)' = {} /\ ~expired' /\ UNCHANGED <<faults, overruns>>
    BY <1>3 DEF StartRound, Missing
  <2>2. Cardinality(Missing(a)') = 0
    BY <2>1, FS_EmptySet
  <2>3. Charge(a)' = 0
    BY <2>1, <2>2 DEF Charge
  <2>4. Unheard(a)' = Unheard(a)
    BY <1>3, UnheardKept DEF StartRound, DecideByMajority, DecideAtSource
  <2>5. /\ Charge(a)' \in Int /\ Charge(a)' <= Charge(a) + 0
        /\ faults + 0 <= faults' /\ 0 \in Nat
    BY <1>1, <1>2, <2>1, <2>3
  <2> QED
    BY <1>2, <2>4, <2>5, SettledBy
<1>4. CASE Deadline
  <2>1. Unheard(a)' = Unheard(a) /\ Unheard(a) \in Int
    BY <1>1, <1>4, UnheardKept, UnheardIsInt
       DEF Deadline, DecideByMajority, DecideAtSource
  <2>2. Charge(a)' <= Spare /\ Charge(a)' \in Int
    BY <1>4 DEF Deadline, Charge, Spare
  <2>3. faults' = faults /\ overruns' = overruns + 1 /\ Spare' = Spare
    BY <1>4 DEF Deadline, Spare
  <2> DEFINE U == Spare * Unheard(a)
             X == Spare * overruns
  <2>4. /\ U \in Int /\ X \in Int
        /\ Spare * (overruns + 1) = X + Spare
    BY <1>1, <2>1
  <2>5. U + Charge(a) <= faults + X
    BY DEF Settled
  <2> HIDE DEF U, X
  <2>6. U + Charge(a)' <= faults + (X + Spare)
    BY <1>1, <1>2, <2>2, <2>4, <2>5
  <2>7. U + Charge(a)' <= faults + Spare * (overruns + 1)
    BY <2>4, <2>6
  <2> QED
    BY <2>1, <2>3, <2>7 DEF Settled, U
<1>5. ASSUME NEW b \in Peers, QueryFails(b) \/ Broadcast(b) PROVE Settled(a)'
  BY <1>5, SettledVote
<1>6. CASE DecideByMajority(a) \/ DecideAtSource(a)
  BY <1>6, SettledDecide
<1>7. CASE /\ ~(DecideByMajority(a) \/ DecideAtSource(a))
           /\ \/ Barrier
              \/ \E b \in Peers : Query(b) \/ Seal(b) \/ DecideStep(b) \/ Forget(b)
              \/ Handlers \/ UNCHANGED vars
  <2>1. Unheard(a)' = Unheard(a)
    BY <1>7, UnheardKept
  <2>2. Pending(a)' => Pending(a) /\ Missing(a)' \subseteq Missing(a) \cup {}
    BY <1>7, MissingKept
  <2>3. expired' = expired
    BY <1>7 DEF Barrier, Query, Seal, DecideStep, DecideByMajority,
       DecideAtSource, DecideFails, Forget, Handlers, CheckSeal, AppendLate, vars
  <2>4. IsFiniteSet({}) /\ Cardinality({}) = 0
    BY FS_EmptySet
  <2>5. Charge(a)' \in Nat /\ Charge(a)' <= Charge(a) + 0
    BY <1>1, <2>2, <2>3, <2>4, ChargeGrowsBy
  <2>6. faults \in Nat /\ faults' \in Nat /\ faults + 0 <= faults'
    BY BillsGrow
  <2> QED
    BY <1>2, <2>1, <2>5, <2>6, SettledBy
<1> QED
  BY <1>3, <1>4, <1>5, <1>6, <1>7
     DEF Next, Program, PeerStep, VoteStep, Terminated

\* Every step keeps the size of the committee.
LEMMA ElectedNext == Inv /\ Elected /\ [Next]_vars => Elected'
<1> SUFFICES ASSUME Inv, Elected, [Next]_vars PROVE Elected'
  OBVIOUS
<1> USE DEF storeVars, outputVars, envVars, roundVars
<1>1. CASE StartRound
  BY <1>1 DEF StartRound, Elected
<1>2. CASE Barrier
  <2>1. committee' = committee /\ errors \in Nat
    BY <1>2 DEF Barrier, Inv, TypeOK
  <2>2. phase' \in {"seal", "decide"} => phase \in {"vote", "seal"}
    BY <1>2, <2>1 DEF Barrier
  <2>3. phase' # "vote"
    BY <1>2, <2>1 DEF Barrier
  <2> QED
    BY <2>1, <2>2, <2>3 DEF Elected
<1>3. CASE UNCHANGED <<phase, committee>>
  BY <1>3 DEF Elected
<1> QED
  BY <1>1, <1>2, <1>3 DEF Next, Program, Handlers, Terminated, PeerStep,
     VoteStep, DecideStep, Deadline, CheckSeal, AppendLate, Query, QueryFails,
     Broadcast, Seal, DecideByMajority, DecideAtSource, DecideFails, Forget, vars

\* A peer decides without its committee only when faults, or a round that
\* overran, have cost it the votes that the committee had to spare.
THEOREM UnheardCorrect == Spec => []UnheardIsPaid
<1> DEFINE AllSettled == Spare \in Nat => \A a \in Honest : Settled(a)
<1>1. Init => Elected /\ AllSettled
  <2> SUFFICES ASSUME Init, NEW a \in Honest, Spare \in Nat
               PROVE  Elected /\ Settled(a)
    BY DEF Init, Elected
  <2>1. Wrong(a) = {} /\ verifyQueries[a] = 0 /\ conflicts[a] = 0
    BY DEF Init, Wrong
  <2>2. Cardinality(Wrong(a)) = 0
    BY <2>1, FS_EmptySet
  <2>3. Unheard(a) = 0
    BY <2>1, <2>2 DEF Unheard, Wrong
  <2>4. Charge(a) = 0 /\ faults = 0 /\ overruns = 0 /\ Elected
    BY DEF Init, Charge, Pending, Elected
  <2> QED
    BY <2>3, <2>4 DEF Settled
<1>2. RoundInv /\ Elected /\ AllSettled /\ [Next]_vars => Elected' /\ AllSettled'
  <2> SUFFICES ASSUME RoundInv, Elected, AllSettled, [Next]_vars
               PROVE  Elected' /\ AllSettled'
    OBVIOUS
  <2>1. Inv /\ SealsInOrder
    BY DEF RoundInv
  <2>2. Elected'
    BY <2>1, ElectedNext
  <2>3. ASSUME Spare \in Nat, NEW a \in Honest PROVE Settled(a)'
    BY <2>1, <2>3, SettledNext
  <2>4. Spare' = Spare
    BY DEF Spare
  <2> QED
    BY <2>2, <2>3, <2>4
<1>3. RoundInv /\ AllSettled => UnheardIsPaid
  <2> SUFFICES ASSUME RoundInv, AllSettled, MinCommittee - Rho > 0, NEW a \in Honest
               PROVE  Unheard(a) * (MinCommittee - Rho)
                        <= faults + overruns * (MinCommittee - Rho)
    BY DEF UnheardIsPaid
  <2>1. Spare \in Nat /\ Spare = MinCommittee - Rho /\ TypeOK
    BY ParametersAssumption, BoundsAssumption DEF Spare, RoundInv, Inv
  <2>2. Settled(a)
    BY <2>1
  <2>3. Charge(a) \in Nat
    BY <2>1, FS_CardinalityType, HonestFinite, FS_Subset
       DEF Charge, Missing, TypeOK
  <2>4. Unheard(a) \in Int /\ faults \in Int /\ overruns \in Int
    BY <2>1, UnheardIsInt DEF TypeOK
  <2>5. /\ Spare * Unheard(a) = Unheard(a) * Spare
        /\ Spare * overruns = overruns * Spare
        /\ Spare * Unheard(a) \in Int /\ Spare * overruns \in Int
    BY <2>1, <2>4
  <2>6. Spare * Unheard(a) <= faults + Spare * overruns
    BY <2>2, <2>3, <2>4, <2>5 DEF Settled
  <2> QED
    BY <2>1, <2>5, <2>6
<1> HIDE DEF AllSettled
<1> QED
  BY <1>1, <1>2, <1>3, RoundInvHolds, PTL DEF Spec

----------------------------------------------------------------------------
(* What a peer queries *)

\* In a run that nothing cuts into, a peer whose committees are large enough
\* asks the source about conflicts only, and of these there are |Byz| / (rho+1).
THEOREM QueryCorrect == Spec => []QueryComplexity
<1>1. ASSUME TypeOK, QueryLedger, UnheardIsPaid, VerificationBudget
      PROVE  QueryComplexity
  <2> SUFFICES ASSUME MinCommittee > Rho, faults = 0, overruns = 0, errors = 0,
                      NEW a \in Honest
               PROVE  (sourceQueries[a] - primaryQueries[a]) * (Rho + 1)
                        <= Cardinality(Byz)
    BY DEF QueryComplexity
  <2>1. /\ Cardinality(Wrong(a)) \in Nat /\ Unheard(a) \in Int
        /\ Unheard(a) = Cardinality(Wrong(a)) + verifyQueries[a] - conflicts[a]
        /\ verifyQueries[a] \in Nat /\ conflicts[a] \in Nat
    BY <1>1, UnheardIsInt
  <2>2. Unheard(a) <= 0
    <3>1. Spare \in Nat /\ Spare >= 1 /\ Spare = MinCommittee - Rho
      BY ParametersAssumption, BoundsAssumption DEF Spare
    <3>2. Unheard(a) * Spare <= 0 + 0 * Spare
      BY <1>1, <3>1 DEF UnheardIsPaid
    <3>3. Unheard(a) * Spare <= 0
      BY <3>1, <3>2
    <3>4. 0 + 1 <= Unheard(a) => Spare * 0 + Spare <= Spare * Unheard(a)
      BY <2>1, <3>1, TimesGrows
    <3>5. Spare * 0 = 0 /\ Spare * Unheard(a) = Unheard(a) * Spare
      BY <2>1, <3>1
    <3> DEFINE U == Unheard(a) * Spare
    <3>6. U <= 0 /\ U \in Int /\ (1 <= Unheard(a) => Spare <= U)
      BY <2>1, <3>1, <3>3, <3>4, <3>5
    <3> HIDE DEF U
    <3> QED
      BY <2>1, <3>1, <3>6
  <2>3. verifyQueries[a] <= conflicts[a]
    BY <2>1, <2>2
  <2>4. sourceQueries[a] - primaryQueries[a] = verifyQueries[a]
    <3>1. sourceQueries[a] - primaryQueries[a] - verifyQueries[a] \in 0 .. 0 + 0 + 0
      BY <1>1 DEF QueryLedger
    <3>2. /\ sourceQueries[a] \in Nat /\ primaryQueries[a] \in Nat
          /\ verifyQueries[a] \in Nat
      BY <1>1 DEF TypeOK
    <3> QED
      BY <3>1, <3>2
  <2>5. (Rho + 1) * verifyQueries[a] <= (Rho + 1) * conflicts[a]
    <3>1. Rho + 1 \in Nat /\ verifyQueries[a] \in Int /\ conflicts[a] \in Int
      BY <2>1, ParametersAssumption
    <3> QED
      BY <2>3, <3>1, TimesGrows
  <2>6. conflicts[a] * (Rho + 1) <= Cardinality(Byz)
    <3>1. conflicts[a] * (Rho + 1) <= Cardinality(Byz) + (Attempts - 1) * 0
      BY <1>1 DEF VerificationBudget
    <3>2. Cardinality(Byz) \in Nat
      BY PeersFinite, ParametersAssumption, FS_Subset, FS_CardinalityType
    <3>3. (Attempts - 1) * 0 = 0
      BY ParametersAssumption
    <3> QED
      BY <3>1, <3>2, <3>3
  <2>7. /\ (Rho + 1) * verifyQueries[a] = verifyQueries[a] * (Rho + 1)
        /\ (Rho + 1) * conflicts[a] = conflicts[a] * (Rho + 1)
        /\ verifyQueries[a] * (Rho + 1) \in Int
        /\ conflicts[a] * (Rho + 1) \in Int
    <3>1. verifyQueries[a] \in Int /\ conflicts[a] \in Int /\ Rho + 1 \in Int
      BY <2>1, ParametersAssumption
    <3> QED
      BY <3>1
  <2>8. Cardinality(Byz) \in Nat
    BY PeersFinite, ParametersAssumption, FS_Subset, FS_CardinalityType
  <2>9. verifyQueries[a] * (Rho + 1) <= Cardinality(Byz)
    BY <2>5, <2>6, <2>7, <2>8
  <2> QED
    BY <2>4, <2>9
<1> QED
  BY <1>1, TypeCorrect, LedgerCorrect, UnheardCorrect, BudgetCorrect, PTL
=============================================================================
