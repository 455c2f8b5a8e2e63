---------------------- MODULE BlacklistDownloadProofs ----------------------
(***************************************************************************)
(* Proofs about BlacklistDownload for every number of peers and bits, every*)
(* set of Byzantine peers that is not the whole network, every adversary,  *)
(* every rho and every budget of faults.                                   *)
(***************************************************************************)
EXTENDS BlacklistDownload, FiniteSetTheorems, TLAPS

----------------------------------------------------------------------------
(* Types *)

\* The honest peers are finitely many.
LEMMA HonestFinite == IsFiniteSet(Honest)
<1>1. IsFiniteSet(0 .. K-1)
  BY ParametersAssumption, FS_Interval
<1> QED
  BY <1>1, FS_Subset DEF Honest, Peers

\* A counter of the honest peers that is incremented stays one.
LEMMA CounterStep ==
  ASSUME NEW counter \in [Honest -> Nat], NEW a \in Honest
  PROVE  [counter EXCEPT ![a] = @ + 1] \in [Honest -> Nat]
OBVIOUS

\* What a peer votes is a bit.
LEMMA VoteValuesAreBits ==
  ASSUME object \in [Rounds -> Bit], round \in Rounds, NEW a
  PROVE  VoteValues(a) \subseteq Bit
BY DEF VoteValues, Bit

\* The copies of a message that post makes are messages.
LEMMA CopiesAreMessages ==
  ASSUME NEW a \in Peers, NEW value \in Bit, round \in Rounds,
         NEW first \in Nat \ {0}, NEW last \in 0 .. Attempts
  PROVE  Copies(a, value, first, last) \subseteq Message
BY ParametersAssumption DEF Copies, Message, Vote

\* A message that is stored at once is stored as a message of its sender.
LEMMA OwnCopyIsMessage ==
  ASSUME NEW a \in Peers, NEW value \in Bit, round \in Rounds
  PROVE  OwnCopy(a, value) \subseteq Message
<1>1. 1 \in Nat \ {0} /\ 1 \in 0 .. Attempts
  BY ParametersAssumption
<1> QED
  BY <1>1, CopiesAreMessages DEF OwnCopy

\* The requests a broadcast leaves behind are requests.
LEMMA StraysAreRequests ==
  ASSUME NEW a \in Peers, NEW value \in Bit, round \in Rounds,
         NEW outcome \in [Honest \ {a} -> Outcome]
  PROVE  Strays(a, value, outcome) \subseteq Request
<1> SUFFICES ASSUME NEW h \in Honest \ {a}
             PROVE  [to : {h}, checked : {FALSE},
                     msg : Copies(a, value, outcome[h].stored + 1,
                             outcome[h].stored + outcome[h].stray)]
                      \subseteq Request
  BY DEF Strays
<1>1. outcome[h] \in Outcome
  OBVIOUS
<1>2. /\ outcome[h].stored + 1 \in Nat \ {0}
      /\ outcome[h].stored + outcome[h].stray \in 0 .. Attempts
  BY <1>1, ParametersAssumption DEF Outcome
<1>3. Copies(a, value, outcome[h].stored + 1,
             outcome[h].stored + outcome[h].stray) \subseteq Message
  BY <1>2, CopiesAreMessages
<1> QED
  BY <1>3 DEF Request

\* The price of a broadcast is a number.
LEMMA CostIsNat ==
  ASSUME NEW a, NEW outcome \in [Honest \ {a} -> Outcome]
  PROVE  Cost(outcome) \in Nat
<1> DEFINE odd   == {h \in DOMAIN outcome : outcome[h] # Once}
           twice == {h \in odd : outcome[h].stored + outcome[h].stray > 1}
<1>1. odd \subseteq Honest /\ twice \subseteq Honest
  OBVIOUS
<1>2. IsFiniteSet(odd) /\ IsFiniteSet(twice)
  BY <1>1, HonestFinite, FS_Subset
<1>3. Cardinality(odd) \in Nat /\ Cardinality(twice) \in Nat
  BY <1>2, FS_CardinalityType
<1> QED
  BY <1>3 DEF Cost

\* The type invariant holds at the start.
LEMMA TypeInit == Init => TypeOK
<1> SUFFICES ASSUME Init PROVE TypeOK
  OBVIOUS
<1>1. 0 \in Rounds /\ 0 \in 0 .. N /\ -1 \in -1 .. N-1
  BY ParametersAssumption DEF Rounds
<1>2. phase \in Phases /\ phase \notin {"done", "aborted"}
  BY DEF Init, Phases
<1> QED
  BY <1>1, <1>2 DEF Init, TypeOK

\* A broadcast only stores and leaves behind what it should.
LEMMA TypeBroadcast ==
  ASSUME TypeOK, NEW a \in Peers, Broadcast(a)
  PROVE  TypeOK'
<1>1. round \in Rounds
  BY DEF Broadcast, TypeOK, Phases
<1>2. PICK value \in VoteValues(a), outcome \in [Honest \ {a} -> Outcome] :
        /\ faults' = faults + Cost(outcome)
        /\ \/ UNCHANGED errors
           \/ errors' = errors + 1
        /\ messages' = [h \in Honest |-> Received(h,
             IF h = a THEN OwnCopy(a, value)
                      ELSE Copies(a, value, 1, outcome[h].stored))]
        /\ late' = late \cup Strays(a, value, outcome)
  BY DEF Broadcast
<1>3. value \in Bit
  BY <1>1, VoteValuesAreBits DEF TypeOK
<1>4. messages' \in [Honest -> SUBSET Message]
  <2>1. ASSUME NEW h \in Honest, h # a
        PROVE  Copies(a, value, 1, outcome[h].stored) \subseteq Message
    <3>1. outcome[h] \in Outcome
      BY <2>1
    <3>2. outcome[h].stored \in 0 .. Attempts
      BY <3>1 DEF Outcome
    <3> QED
      BY <3>2, <1>1, <1>3, CopiesAreMessages
  <2>2. OwnCopy(a, value) \subseteq Message
    BY <1>1, <1>3, OwnCopyIsMessage
  <2>3. ASSUME NEW h \in Honest
        PROVE  Received(h, IF h = a THEN OwnCopy(a, value)
                           ELSE Copies(a, value, 1, outcome[h].stored))
                 \subseteq Message
    BY <2>1, <2>2 DEF Received, TypeOK
  <2> QED
    BY <1>2, <2>3
<1>5. late' \subseteq Request
  BY <1>1, <1>2, <1>3, StraysAreRequests DEF TypeOK
<1>6. faults' \in Nat
  <2>1. Cost(outcome) \in Nat
    BY CostIsNat
  <2> QED
    BY <1>2, <2>1 DEF TypeOK
<1>7. errors' \in Nat
  BY <1>2 DEF TypeOK
<1> QED
  BY <1>4, <1>5, <1>6, <1>7
     DEF TypeOK, Broadcast, outputVars

\* The barrier counts the rounds.
LEMMA TypeBarrier == TypeOK /\ Barrier => TypeOK'
<1> SUFFICES ASSUME TypeOK, Barrier PROVE TypeOK'
  OBVIOUS
<1>1. round \in Rounds
  BY DEF Barrier, TypeOK
<1>2. phase' \in Phases
  BY DEF Barrier, TypeOK, Phases
<1>3. todo' \subseteq Peers
  BY DEF Barrier, Honest
<1>4. round' \in 0 .. N
  BY <1>1, ParametersAssumption DEF Barrier, Rounds
<1>5. phase' \notin {"done", "aborted"} => round' \in Rounds
  <2>1. CASE phase = "forget"
    BY <2>1, <1>1, ParametersAssumption DEF Barrier, Rounds
  <2>2. CASE phase # "forget"
    BY <2>2, <1>1 DEF Barrier
  <2> QED
    BY <2>1, <2>2
<1> QED
  BY <1>2, <1>3, <1>4, <1>5 DEF TypeOK, Barrier, storeVars, outputVars, envVars

\* decideBit keeps the types.
LEMMA TypeDecide ==
  ASSUME TypeOK, NEW a \in Peers, DecideStep(a)
  PROVE  TypeOK'
<1>1. round \in Rounds /\ a \in Honest /\ todo' \subseteq todo
  BY DEF DecideStep, DecideByMajority, DecideAtSource, DecideFails, TypeOK
<1>2. /\ [sourceQueries EXCEPT ![a] = @ + 1] \in [Honest -> Nat]
      /\ [verifyQueries EXCEPT ![a] = @ + 1] \in [Honest -> Nat]
      /\ [conflicts EXCEPT ![a] = @ + 1] \in [Honest -> Nat]
  BY <1>1, CounterStep DEF TypeOK
<1> USE DEF storeVars, outputVars, envVars
<1>3. CASE DecideByMajority(a)
  <2>1. Majority(RoundVotes(a), blacklist[a]) \in Bit
    BY DEF Majority, Bit
  <2>2. bits' \in [Honest -> [Rounds -> Bit \cup {NoBit}]]
    BY <1>1, <1>3, <2>1 DEF TypeOK, DecideByMajority
  <2> QED
    BY <1>1, <1>3, <2>2 DEF TypeOK, DecideByMajority
<1>4. CASE DecideAtSource(a)
  <2>1. bits' \in [Honest -> [Rounds -> Bit \cup {NoBit}]]
    BY <1>1, <1>4 DEF TypeOK, DecideAtSource
  <2>2. Losers(RoundVotes(a), blacklist[a], object[round]) \subseteq Peers
    <3> SUFFICES ASSUME NEW v \in VotesFor(1 - object[round], RoundVotes(a),
                                          blacklist[a])
                 PROVE  v.sender \in Peers
      BY DEF Losers
    <3>1. v \in Message
      BY <1>1 DEF VotesFor, Trusted, RoundVotes, TypeOK
    <3> QED
      BY <3>1 DEF Message, Vote
  <2>3. blacklist' \in [Honest -> SUBSET Peers]
    BY <1>4, <2>2 DEF TypeOK, DecideAtSource
  <2>4. /\ sourceQueries' \in [Honest -> Nat]
        /\ verifyQueries' \in [Honest -> Nat]
    BY <1>2, <1>4 DEF DecideAtSource
  <2>5. conflicts' \in [Honest -> Nat]
    <3>1. CASE Conflicted(a)
      BY <1>2, <1>4, <3>1 DEF DecideAtSource
    <3>2. CASE ~Conflicted(a)
      BY <1>1, <1>4, <3>2 DEF DecideAtSource, TypeOK
    <3> QED
      BY <3>1, <3>2
  <2> QED
    BY <1>1, <1>4, <2>1, <2>3, <2>4, <2>5 DEF TypeOK, DecideAtSource
<1>5. CASE DecideFails(a)
  <2>1. sourceQueries' \in [Honest -> Nat] /\ errors' \in Nat
    BY <1>2, <1>5 DEF DecideFails, TypeOK
  <2> QED
    BY <1>1, <1>5, <2>1 DEF TypeOK, DecideFails
<1> QED
  BY <1>3, <1>4, <1>5 DEF DecideStep

\* Every step keeps the types.
LEMMA TypeNext == TypeOK /\ [Next]_vars => TypeOK'
<1> SUFFICES ASSUME TypeOK, [Next]_vars PROVE TypeOK'
  OBVIOUS
<1> USE DEF storeVars, outputVars, envVars
<1>1. CASE StartRound
  <2>1. exposed' \subseteq Byz
    BY <1>1 DEF StartRound, FirstLive
  <2>2. committee' \subseteq Honest /\ todo' \subseteq Peers
    BY <1>1, <2>1, ParametersAssumption DEF StartRound, Honest
  <2>3. phase' \in Phases /\ phase' = "vote" /\ round' \in Rounds
    BY <1>1 DEF StartRound, TypeOK, Phases
  <2> QED
    BY <1>1, <2>1, <2>2, <2>3 DEF TypeOK, StartRound
<1>2. CASE Barrier
  BY <1>2, TypeBarrier
<1>3. CASE Deadline
  BY <1>3 DEF TypeOK, Deadline
<1>4. ASSUME NEW a \in Peers, PeerStep(a) PROVE TypeOK'
  <2>1. CASE Query(a)
    BY <2>1 DEF TypeOK, Query
  <2>2. CASE QueryFails(a)
    BY <2>2 DEF TypeOK, QueryFails
  <2>3. CASE Broadcast(a)
    BY <2>3, TypeBroadcast
  <2>4. CASE Seal(a)
    <3>1. round \in -1 .. N-1
      BY <2>4, ParametersAssumption DEF Seal, TypeOK, Rounds
    <3>2. sealedRound' \in [Honest -> -1 .. N-1]
      BY <2>4, <3>1 DEF TypeOK, Seal
    <3> QED
      BY <2>4, <3>2 DEF TypeOK, Seal
  <2>5. CASE DecideStep(a)
    BY <2>5, TypeDecide
  <2>6. CASE Forget(a)
    BY <2>6 DEF TypeOK, Forget
  <2> QED
    BY <1>4, <2>1, <2>2, <2>3, <2>4, <2>5, <2>6 DEF PeerStep, VoteStep
<1>5. ASSUME NEW q \in late, CheckSeal(q) PROVE TypeOK'
  <2>1. late' \subseteq Request
    BY <1>5 DEF CheckSeal, TypeOK, Request
  <2> QED
    BY <1>5, <2>1 DEF TypeOK, CheckSeal, roundVars
<1>6. ASSUME NEW q \in late, AppendLate(q) PROVE TypeOK'
  <2>1. q.to \in Honest /\ q.msg \in Message
    BY DEF TypeOK, Request
  <2> QED
    BY <1>6, <2>1 DEF TypeOK, AppendLate, roundVars
<1>7. CASE UNCHANGED vars
  BY <1>7 DEF TypeOK, vars, roundVars
<1> QED
  BY <1>1, <1>2, <1>3, <1>4, <1>5, <1>6, <1>7
     DEF Next, Program, Handlers, Terminated

\* Every variable keeps its type, for every number of peers and bits.
THEOREM TypeCorrect == Spec => []TypeOK
BY TypeInit, TypeNext, PTL DEF Spec

----------------------------------------------------------------------------
(* No honest peer is ever blamed *)

\* What an honest peer votes is what the source answered, in the stores and
\* on the way.
Truthful(m) == m.sender \in Honest => m.value = object[m.round]

HonestVotesTrue ==
  /\ \A h \in Honest : \A m \in messages[h] : Truthful(m)
  /\ \A q \in late : Truthful(q.msg)

\* The inductive invariant: blame falls on the senders of false votes, and
\* these are Byzantine as long as no honest vote in store is false.
Inv == TypeOK /\ HonestVotesTrue /\ HonestNeverBlacklisted

\* No vote and no blame at the start.
LEMMA InvInit == Init => Inv
BY TypeInit DEF Init, Inv, HonestVotesTrue, HonestNeverBlacklisted

\* The copies of one broadcast are truthful.
LEMMA CopiesAreTruthful ==
  ASSUME NEW a \in Peers, NEW value \in VoteValues(a), NEW first, NEW last,
         NEW m \in Copies(a, value, first, last)
  PROVE  Truthful(m)
BY DEF Copies, Truthful, VoteValues

\* A broadcast puts truthful votes into the stores and on the way.
LEMMA BroadcastIsTruthful ==
  ASSUME Inv, NEW a \in Peers, Broadcast(a)
  PROVE  HonestVotesTrue'
<1>1. PICK value \in VoteValues(a), outcome \in [Honest \ {a} -> Outcome] :
        /\ messages' = [h \in Honest |-> Received(h,
             IF h = a THEN OwnCopy(a, value)
                      ELSE Copies(a, value, 1, outcome[h].stored))]
        /\ late' = late \cup Strays(a, value, outcome)
  BY DEF Broadcast
<1>2. object' = object
  BY DEF Broadcast
<1>3. ASSUME NEW h \in Honest, NEW m \in messages'[h] PROVE Truthful(m)
  <2>1. \/ m \in messages[h]
        \/ m \in Copies(a, value, 1, 1)
        \/ m \in Copies(a, value, 1, outcome[h].stored)
    BY <1>1, <1>3 DEF Received, OwnCopy
  <2> QED
    BY <2>1, CopiesAreTruthful DEF Inv, HonestVotesTrue
<1>4. ASSUME NEW q \in late' PROVE Truthful(q.msg)
  <2>1. CASE q \in late
    BY <2>1 DEF Inv, HonestVotesTrue
  <2>2. CASE q \in Strays(a, value, outcome)
    <3>1. PICK h \in DOMAIN outcome :
            q \in [to : {h}, checked : {FALSE},
                   msg : Copies(a, value, outcome[h].stored + 1,
                                outcome[h].stored + outcome[h].stray)]
      BY <2>2, Zenon DEF Strays
    <3>2. q.msg \in Copies(a, value, outcome[h].stored + 1,
                           outcome[h].stored + outcome[h].stray)
      BY <3>1
    <3> QED
      BY <3>2, CopiesAreTruthful
  <2> QED
    BY <1>1, <1>4, <2>1, <2>2
<1> QED
  BY <1>2, <1>3, <1>4 DEF HonestVotesTrue, Truthful

\* The peers that decideBit blames voted against the source.
LEMMA BlameIsJust ==
  ASSUME Inv, NEW a \in Peers, DecideAtSource(a)
  PROVE  HonestNeverBlacklisted'
<1>1. round \in Rounds /\ a \in Honest /\ object[round] \in Bit
  BY DEF DecideAtSource, Inv, TypeOK
<1>2. Losers(RoundVotes(a), blacklist[a], object[round]) \subseteq Byz
  <2> SUFFICES ASSUME NEW v \in VotesFor(1 - object[round], RoundVotes(a),
                                        blacklist[a])
               PROVE  v.sender \in Byz
    BY DEF Losers
  <2>1. /\ v \in messages[a] /\ v \in Message
        /\ v.round = round /\ v.value # object[round]
    BY <1>1 DEF VotesFor, Trusted, RoundVotes, Inv, TypeOK, Bit
  <2>2. v.sender \in Peers /\ Truthful(v)
    BY <1>1, <2>1 DEF Inv, HonestVotesTrue, Message, Vote
  <2> QED
    BY <2>1, <2>2 DEF Truthful, Honest
<1> QED
  BY <1>1, <1>2 DEF Inv, HonestNeverBlacklisted, DecideAtSource, TypeOK

\* Every step keeps the invariant.
LEMMA InvNext == Inv /\ [Next]_vars => Inv'
<1> SUFFICES ASSUME Inv, [Next]_vars PROVE Inv'
  OBVIOUS
<1>0. TypeOK /\ TypeOK'
  BY TypeNext DEF Inv
<1> USE DEF storeVars, outputVars, envVars
<1>1. CASE StartRound \/ Barrier \/ Deadline \/ UNCHANGED vars
  BY <1>0, <1>1 DEF Inv, HonestVotesTrue, Truthful, HonestNeverBlacklisted,
       StartRound, Barrier, Deadline, vars
<1>2. ASSUME NEW a \in Peers, PeerStep(a) PROVE Inv'
  <2>1. CASE Query(a) \/ QueryFails(a) \/ Seal(a) \/ DecideByMajority(a)
               \/ DecideFails(a)
    BY <1>0, <2>1 DEF Inv, HonestVotesTrue, Truthful, HonestNeverBlacklisted,
         Query, QueryFails, Seal, DecideByMajority, DecideFails
  <2>2. CASE Broadcast(a)
    <3>1. HonestNeverBlacklisted'
      BY <2>2 DEF Inv, HonestNeverBlacklisted, Broadcast
    <3> QED
      BY <1>0, <2>2, <3>1, BroadcastIsTruthful DEF Inv
  <2>3. CASE DecideAtSource(a)
    <3>1. HonestVotesTrue'
      BY <2>3 DEF Inv, HonestVotesTrue, Truthful, DecideAtSource
    <3> QED
      BY <1>0, <2>3, <3>1, BlameIsJust DEF Inv
  <2>4. CASE Forget(a)
    <3>1. \A h \in Honest : messages'[h] \subseteq messages[h]
      BY <1>0, <2>4 DEF Forget, TypeOK
    <3> QED
      BY <1>0, <2>4, <3>1
         DEF Inv, HonestVotesTrue, Truthful, HonestNeverBlacklisted, Forget
  <2> QED
    BY <1>2, <2>1, <2>2, <2>3, <2>4 DEF PeerStep, VoteStep, DecideStep
<1>3. ASSUME NEW q \in late, CheckSeal(q) PROVE Inv'
  <2>1. \A p \in late' : \E o \in late : p.msg = o.msg
    BY <1>0, <1>3 DEF CheckSeal, TypeOK, Request
  <2> QED
    BY <1>0, <1>3, <2>1
       DEF Inv, HonestVotesTrue, Truthful, HonestNeverBlacklisted, CheckSeal
<1>4. ASSUME NEW q \in late, AppendLate(q) PROVE Inv'
  <2>1. \A h \in Honest : messages'[h] \subseteq messages[h] \cup {q.msg}
    BY <1>0, <1>4 DEF AppendLate, TypeOK
  <2> QED
    BY <1>0, <1>4, <2>1
       DEF Inv, HonestVotesTrue, Truthful, HonestNeverBlacklisted, AppendLate
<1> QED
  BY <1>1, <1>2, <1>3, <1>4 DEF Next, Program, Handlers, Terminated

\* Whatever is lost, repeated or late, decideBit blames Byzantine peers only.
THEOREM BlameCorrect == Spec => []HonestNeverBlacklisted
<1>1. Spec => []Inv
  BY InvInit, InvNext, PTL DEF Spec
<1>2. Inv => HonestNeverBlacklisted
  BY DEF Inv
<1> QED
  BY <1>1, <1>2, PTL

----------------------------------------------------------------------------
(* More than rho honest votes carry the truth *)

\* There are finitely many messages, so every set of votes can be counted.
LEMMA MessageFinite == IsFiniteSet(Message)
<1> DEFINE Tuples == (Peers \X Rounds) \X (Bit \X (1 .. Attempts))
           f == [t \in Tuples |-> [sender |-> t[1][1], round |-> t[1][2],
                                   value |-> t[2][1], copy |-> t[2][2]]]
<1>1. /\ IsFiniteSet(Peers) /\ IsFiniteSet(Rounds)
      /\ IsFiniteSet(1 .. Attempts)
  BY ParametersAssumption, FS_Interval DEF Peers, Rounds
<1>2. IsFiniteSet(Bit)
  <2>1. IsFiniteSet({0}) /\ IsFiniteSet({1}) /\ Bit = {0} \cup {1}
    BY FS_Singleton DEF Bit
  <2> QED
    BY <2>1, FS_Union
<1>3. IsFiniteSet(Peers \X Rounds) /\ IsFiniteSet(Bit \X (1 .. Attempts))
  BY <1>1, <1>2, FS_Product
<1>4. IsFiniteSet(Tuples)
  BY <1>3, FS_Product
<1>5. f \in Surjection(Tuples, Message)
  <2>1. f \in [Tuples -> Message]
    BY DEF Message, Vote
  <2>2. ASSUME NEW m \in Message PROVE \E t \in Tuples : f[t] = m
    <3> DEFINE t == <<<<m.sender, m.round>>, <<m.value, m.copy>>>>
    <3>1. t \in Tuples
      BY DEF Message, Vote
    <3>2. f[t] = m
      BY <3>1 DEF Message, Vote
    <3> QED
      BY <3>1, <3>2
  <2> QED
    BY <2>1, <2>2 DEF Surjection
<1> HIDE DEF Tuples, f
<1> QED
  BY <1>4, <1>5, FS_Surjection

\* The votes for a bit that an honest peer trusts can be counted.
LEMMA VotesFinite ==
  ASSUME TypeOK, NEW a \in Honest, NEW b
  PROVE  LET V == VotesFor(b, RoundVotes(a), blacklist[a])
         IN  V \subseteq Message /\ IsFiniteSet(V) /\ Cardinality(V) \in Nat
<1> DEFINE V == VotesFor(b, RoundVotes(a), blacklist[a])
<1>1. V \subseteq Message
  BY DEF TypeOK, VotesFor, Trusted, RoundVotes
<1>2. IsFiniteSet(V)
  BY <1>1, MessageFinite, FS_Subset
<1> QED
  BY <1>1, <1>2, FS_CardinalityType

\* The honest votes a peer holds are all trusted and all for the true bit.
LEMMA HonestVotesCount ==
  ASSUME Inv, NEW a \in Honest, round \in Rounds
  PROVE  /\ Cardinality(HonestVotes(a))
              <= Count(object[round], RoundVotes(a), blacklist[a])
         /\ Cardinality(HonestVotes(a)) \in Nat
<1> DEFINE V == VotesFor(object[round], RoundVotes(a), blacklist[a])
<1>1. HonestVotes(a) \subseteq V
  <2> SUFFICES ASSUME NEW m \in HonestVotes(a) PROVE m \in V
    OBVIOUS
  <2>1. /\ m \in RoundVotes(a) /\ m \in messages[a] /\ m.round = round
        /\ m.sender \in Honest
    BY DEF HonestVotes, RoundVotes
  <2>2. m.sender \notin blacklist[a] /\ m.value = object[round]
    BY <2>1 DEF Inv, HonestVotesTrue, Truthful, HonestNeverBlacklisted, Honest
  <2> QED
    BY <2>1, <2>2 DEF VotesFor, Trusted
<1>2. IsFiniteSet(V)
  BY VotesFinite DEF Inv
<1>3. IsFiniteSet(HonestVotes(a)) /\ Cardinality(HonestVotes(a)) <= Cardinality(V)
  BY <1>1, <1>2, FS_Subset
<1> QED
  BY <1>3, FS_CardinalityType DEF Count

\* Without a conflict the majority is on the side of more than rho honest
\* votes.
LEMMA MajorityIsTrue ==
  ASSUME Inv, NEW a \in Honest, round \in Rounds,
         Cardinality(HonestVotes(a)) > Rho, ~Conflicted(a)
  PROVE  Majority(RoundVotes(a), blacklist[a]) = object[round]
<1>1. object[round] \in {0, 1}
  BY DEF Inv, TypeOK, Bit
<1>2. /\ Count(0, RoundVotes(a), blacklist[a]) \in Nat
      /\ Count(1, RoundVotes(a), blacklist[a]) \in Nat
  BY VotesFinite DEF Inv, Count
<1>3. Count(object[round], RoundVotes(a), blacklist[a]) > Rho
  BY <1>1, <1>2, HonestVotesCount, ParametersAssumption
<1> QED
  BY <1>1, <1>2, <1>3, ParametersAssumption DEF Conflicted, Conflict, Majority

\* Only decideBit of a peer itself gives the peer a bit.
LEMMA DecidesAlone ==
  ASSUME Inv, [Next]_vars, NEW a \in Honest, Decides(a)
  PROVE  DecideByMajority(a) \/ DecideAtSource(a)
<1>1. bits'[a] # bits[a]
  BY DEF Decides
<1> USE DEF storeVars, outputVars, envVars, roundVars
<1>2. CASE \E b \in Peers : PeerStep(b)
  <2>1. PICK b \in Peers : PeerStep(b)
    BY <1>2
  <2>2. DecideByMajority(b) \/ DecideAtSource(b)
    BY <1>1, <2>1 DEF PeerStep, VoteStep, DecideStep, Query, QueryFails,
         Broadcast, Seal, DecideFails, Forget
  <2>3. b = a
    BY <1>1, <2>2 DEF DecideByMajority, DecideAtSource, Inv, TypeOK
  <2> QED
    BY <2>2, <2>3
<1>3. CASE ~\E b \in Peers : PeerStep(b)
  BY <1>1, <1>3 DEF Next, Program, Handlers, Terminated, StartRound, Barrier,
       Deadline, CheckSeal, AppendLate, vars
<1> QED
  BY <1>2, <1>3

\* Algorithm 2 rests on this: more than rho honest votes at a peer are enough
\* for the peer to decide the true bit, whatever else it was sent.
THEOREM DecisionCorrect == Spec => RepresentativeDecidesTruth
<1>1. ASSUME Inv, [Next]_vars, NEW a \in Honest, phase = "decide", Decides(a),
             Cardinality(HonestVotes(a)) > Rho
      PROVE  bits'[a][round] = object[round]
  <2>1. round \in Rounds
    BY <1>1 DEF Inv, TypeOK
  <2>2. CASE DecideByMajority(a)
    <3>1. Majority(RoundVotes(a), blacklist[a]) = object[round]
      BY <1>1, <2>1, <2>2, MajorityIsTrue DEF DecideByMajority, NeedsSource
    <3> QED
      BY <1>1, <2>1, <2>2, <3>1 DEF DecideByMajority, Inv, TypeOK
  <2>3. CASE DecideAtSource(a)
    <3>1. /\ bits \in [Honest -> [Rounds -> Bit \cup {NoBit}]]
          /\ bits' = [bits EXCEPT ![a][round] = object[round]]
      BY <1>1, <2>3 DEF DecideAtSource, Inv, TypeOK
    <3> QED
      BY <2>1, <3>1
  <2> QED
    BY <1>1, <2>2, <2>3, DecidesAlone
<1>2. Inv /\ [Next]_vars =>
        [\A a \in Honest :
           (phase = "decide" /\ Decides(a) /\ Cardinality(HonestVotes(a)) > Rho)
             => bits'[a][round] = object[round]]_vars
  BY <1>1
<1>3. Spec => []Inv
  BY InvInit, InvNext, PTL DEF Spec
<1> QED
  BY <1>2, <1>3, PTL DEF Spec, RepresentativeDecidesTruth


----------------------------------------------------------------------------
(* The receive window *)

\* A broadcast and a handler test the seal before they let a vote in, and the
\* append of a request that has passed the test only moves it.
LEMMA WindowStep ==
  ASSUME TypeOK, [Next]_vars, NEW a \in Honest, NEW m \in Window(a)',
         m.round <= sealedRound[a]
  PROVE  m \in Window(a)
<1> USE DEF storeVars, outputVars, envVars, roundVars
<1>1. messages \in [Honest -> SUBSET Message] /\ late \subseteq Request
  BY DEF TypeOK
<1>2. m \in messages'[a]
        \/ \E q \in late' : q.to = a /\ q.checked /\ m = q.msg
  BY DEF Window
<1>3. ASSUME NEW b \in Peers, Broadcast(b) PROVE m \in Window(a)
  <2>1. PICK value \in VoteValues(b), outcome \in [Honest \ {b} -> Outcome] :
          /\ messages' = [h \in Honest |-> Received(h,
               IF h = b THEN OwnCopy(b, value)
                        ELSE Copies(b, value, 1, outcome[h].stored))]
          /\ late' = late \cup Strays(b, value, outcome)
    BY <1>3 DEF Broadcast
  <2>2. round \in Int /\ sealedRound[a] \in Int
    BY <1>3, ParametersAssumption DEF TypeOK, Broadcast, Rounds
  <2>3. CASE m \in messages'[a]
    <3>1. m \in messages[a] \/ (Open(a, round) /\ m.round = round)
      BY <2>1, <2>3 DEF Received, OwnCopy, Copies
    <3> QED
      BY <2>2, <3>1 DEF Open, Window
  <2>4. ASSUME NEW q \in late', q.to = a, q.checked, m = q.msg
        PROVE  m \in Window(a)
    <3>1. \A p \in Strays(b, value, outcome) : p.checked = FALSE
      BY DEF Strays
    <3> QED
      BY <2>1, <2>4, <3>1 DEF Window
  <2> QED
    BY <1>2, <2>3, <2>4
<1>4. ASSUME NEW p \in late, CheckSeal(p) PROVE m \in Window(a)
  <2>1. messages' = messages
    BY <1>4 DEF CheckSeal
  <2>2. ASSUME NEW q \in late', q.to = a, q.checked, m = q.msg
        PROVE  m \in Window(a)
    <3>1. CASE q \in late
      BY <2>2, <3>1 DEF Window
    <3>2. CASE q \notin late
      <4>1. Open(p.to, p.msg.round) /\ q = [p EXCEPT !.checked = TRUE]
        BY <1>4, <3>2 DEF CheckSeal
      <4>2. q.to = p.to /\ q.msg = p.msg
        BY <1>1, <4>1 DEF Request
      <4>3. m.round \in Int /\ sealedRound[a] \in Int
        BY <1>1, <2>2, <4>2, ParametersAssumption
           DEF Request, Message, Vote, Rounds, TypeOK
      <4> QED
        BY <2>2, <4>1, <4>2, <4>3 DEF Open
    <3> QED
      BY <3>1, <3>2
  <2> QED
    BY <1>2, <2>1, <2>2 DEF Window
<1>5. ASSUME NEW p \in late, AppendLate(p) PROVE m \in Window(a)
  <2>1. p.to \in Honest /\ p.checked /\ late' \subseteq late
    BY <1>1, <1>5 DEF AppendLate, Request
  <2>2. m \in messages'[a] => m \in messages[a] \/ (p.to = a /\ m = p.msg)
    BY <1>1, <1>5, <2>1 DEF AppendLate
  <2> QED
    BY <1>2, <2>1, <2>2 DEF Window
<1>6. ASSUME NEW b \in Peers, Forget(b) PROVE m \in Window(a)
  <2>1. late' = late /\ messages'[a] \subseteq messages[a]
    BY <1>1, <1>6 DEF Forget
  <2> QED
    BY <1>2, <2>1 DEF Window
<1>7. CASE UNCHANGED <<messages, late>>
  BY <1>2, <1>7 DEF Window
<1> QED
  BY <1>3, <1>4, <1>5, <1>6, <1>7 DEF Next, Program, Handlers, Terminated,
     PeerStep, VoteStep, DecideStep, StartRound, Barrier, Deadline, Query,
     QueryFails, Seal, DecideByMajority, DecideAtSource, DecideFails, vars

\* SealRound closes the window: what a peer has sealed gains no vote.
THEOREM WindowCorrect == Spec => WindowIsClosed
<1>1. TypeOK /\ [Next]_vars =>
        [\A a \in Honest :
           {m \in Window(a)' : m.round <= sealedRound[a]} \subseteq Window(a)]_vars
  BY WindowStep
<1> QED
  BY <1>1, TypeCorrect, PTL DEF Spec, WindowIsClosed
=============================================================================
