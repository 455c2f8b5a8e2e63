---------------------- MODULE BlacklistRefinementProofs ----------------------
(***************************************************************************)
(* BlacklistDownload implements Download, for every value of its constants.*)
(***************************************************************************)
EXTENDS BlacklistRefinement, RoundLoopProofs

----------------------------------------------------------------------------
(* Bits are learned once *)

\* The bits of the rounds before us are missing, and the one of this round
\* until it is decided.
Unlearned ==
  \A a \in Honest, r \in Rounds :
    (\/ r > round
     \/ r = round /\ phase \in {"start", "vote", "seal"}
     \/ r = round /\ phase = "decide" /\ a \in todo) => bits[a][r] = NoBit

\* Every step keeps that.
LEMMA UnlearnedNext == Inv /\ Unlearned /\ [Next]_vars => Unlearned'
<1> SUFFICES ASSUME Inv, Unlearned, [Next]_vars PROVE Unlearned'
  OBVIOUS
<1> USE DEF storeVars, outputVars, envVars, roundVars
<1>1. round \in Int /\ Rounds \subseteq Int
  BY DEF Inv, TypeOK, Rounds
<1>2. CASE StartRound
  BY <1>2 DEF StartRound, Unlearned
<1>3. CASE Barrier
  <2>1. bits' = bits /\ errors \in Nat
    BY <1>3 DEF Barrier, Inv, TypeOK
  <2>2. CASE phase = "forget"
    BY <1>1, <1>3, <2>1, <2>2 DEF Barrier, Unlearned
  <2>3. CASE phase # "forget"
    <3>1. round' = round
      BY <1>3, <2>3 DEF Barrier
    <3>2. /\ phase = "vote" => phase' \in {"seal", "aborted"}
          /\ phase = "seal" => phase' = "decide"
          /\ phase = "decide" => phase' \in {"forget", "aborted"}
      BY <1>3, <2>1 DEF Barrier
    <3>3. phase \in {"vote", "seal", "decide"}
      BY <1>3, <2>3 DEF Barrier
    <3> QED
      BY <1>1, <2>1, <3>1, <3>2, <3>3 DEF Unlearned
  <2> QED
    BY <2>2, <2>3
<1>4. ASSUME NEW a \in Peers, DecideStep(a) PROVE Unlearned'
  <2>1. /\ a \in Honest /\ phase = "decide" /\ phase' = "decide"
        /\ round' = round /\ todo' = todo \ {a}
    BY <1>4 DEF DecideStep, DecideByMajority, DecideAtSource, DecideFails, Inv,
       TypeOK
  <2>2. CASE DecideFails(a)
    BY <2>1, <2>2 DEF DecideFails, Unlearned
  <2>3. CASE DecideByMajority(a) \/ DecideAtSource(a)
    <3>1. \A b \in Honest, r \in Rounds :
            b # a \/ r # round => bits'[b][r] = bits[b][r]
      BY <2>1, <2>3, DecidedIsBit
    <3>2. ASSUME NEW b \in Honest, NEW r \in Rounds,
                 r > round \/ (r = round /\ b \in todo')
          PROVE  bits[b][r] = NoBit /\ (b # a \/ r # round)
      BY <1>1, <2>1, <3>2 DEF Unlearned
    <3> QED
      BY <2>1, <3>1, <3>2 DEF Unlearned
  <2> QED
    BY <1>4, <2>2, <2>3 DEF DecideStep
<1>5. ASSUME NEW a \in Peers, VoteStep(a) \/ Seal(a) \/ Forget(a)
      PROVE  Unlearned'
  <2>1. UNCHANGED <<bits, round, phase>> /\ phase # "decide"
    BY <1>5 DEF VoteStep, Query, QueryFails, Broadcast, Seal, Forget
  <2> QED
    BY <2>1 DEF Unlearned
<1>6. CASE UNCHANGED <<bits, round, phase, todo>>
  BY <1>6 DEF Unlearned
<1> QED
  BY <1>2, <1>3, <1>4, <1>5, <1>6
     DEF Next, Program, PeerStep, Handlers, Terminated, Deadline, CheckSeal,
         AppendLate, vars

----------------------------------------------------------------------------
(* A reliable round *)

Reliable == MinCommittee > Rho /\ MaxFaults = 0 /\ MaxOverruns = 0

\* The vote of an honest peer in this round.
TrueVote(c) == [sender |-> c, round |-> round, value |-> object[round], copy |-> 1]

\* Nothing goes wrong but errors, which abort the run, so the votes of a
\* committee of more than rho members are in every store.
Represented ==
  Reliable =>
    /\ faults = 0 /\ overruns = 0 /\ ~expired
    /\ phase \in {"vote", "seal", "decide"} => Cardinality(committee) > Rho
    /\ phase = "vote" /\ errors = 0 =>
         \A c \in committee \ todo, h \in Honest : TrueVote(c) \in messages[h]
    /\ phase \in {"seal", "decide"} =>
         \A c \in committee, h \in Honest : TrueVote(c) \in messages[h]

\* A broadcast in a reliable round is clean.
LEMMA ReliableBroadcast ==
  ASSUME Inv, Represented, Reliable, NEW a \in Peers, Broadcast(a)
  PROVE  faults' = 0
<1>1. PICK outcome \in [Honest \ {a} -> Outcome] :
        faults + Cost(outcome) <= MaxFaults /\ faults' = faults + Cost(outcome)
  BY DEF Broadcast
<1>2. Cost(outcome) \in Nat
  BY CostIsNat
<1> QED
  BY <1>1, <1>2 DEF Represented, Reliable

\* Every step keeps the votes.
LEMMA RepresentedNext == RoundInv /\ Represented /\ [Next]_vars => Represented'
<1> SUFFICES ASSUME RoundInv, Represented, [Next]_vars, Reliable
             PROVE  Represented'
  BY DEF Represented, Reliable
<1> USE DEF storeVars, outputVars, envVars, roundVars
<1>1. Inv /\ Progress /\ Fresh /\ SealsInOrder
  BY DEF RoundInv
<1>2. /\ faults = 0 /\ overruns = 0 /\ ~expired /\ errors \in Nat
      /\ MaxFaults = 0 /\ MaxOverruns = 0 /\ MinCommittee > Rho
  BY <1>1 DEF Represented, Reliable, Inv, TypeOK
<1>3. CASE StartRound
  <2>1. PICK C \in SUBSET Honest : Cardinality(C) >= MinCommittee /\ committee' = C
    BY <1>3 DEF StartRound
  <2>2. IsFiniteSet(C)
    BY HonestFinite, FS_Subset
  <2>3. Cardinality(committee') > Rho
    BY <1>2, <2>1, <2>2, FS_CardinalityType, ParametersAssumption,
       BoundsAssumption
  <2>4. /\ phase' = "vote" /\ committee' \ todo' = {} /\ ~expired'
        /\ UNCHANGED <<faults, overruns>>
    BY <1>3 DEF StartRound
  <2> QED
    BY <1>2, <2>3, <2>4 DEF Represented
<1>4. CASE Barrier
  <2>1. /\ UNCHANGED <<faults, overruns, errors, expired, committee, messages,
                       object>>
        /\ todo = {}
    BY <1>4 DEF Barrier
  <2>2. CASE phase = "vote"
    <3>1. (phase' = "seal" /\ errors = 0) \/ phase' = "aborted"
      BY <1>2, <1>4, <2>2 DEF Barrier
    <3>2. round' = round
      BY <1>4, <2>2 DEF Barrier
    <3>3. \A c : TrueVote(c)' = TrueVote(c)
      BY <2>1, <3>2 DEF TrueVote
    <3> QED
      BY <1>2, <2>1, <2>2, <3>1, <3>3 DEF Represented, Reliable
  <2>3. CASE phase = "seal"
    <3>1. phase' = "decide" /\ round' = round
      BY <1>4, <2>3 DEF Barrier
    <3>2. \A c : TrueVote(c)' = TrueVote(c)
      BY <2>1, <3>1 DEF TrueVote
    <3> QED
      BY <1>2, <2>1, <2>3, <3>1, <3>2 DEF Represented, Reliable
  <2>4. CASE phase \in {"decide", "forget"}
    <3>1. phase' \notin {"vote", "seal", "decide"}
      BY <1>2, <1>4, <2>4 DEF Barrier
    <3> QED
      BY <1>2, <2>1, <3>1 DEF Represented
  <2> QED
    BY <1>4, <2>2, <2>3, <2>4 DEF Barrier
<1>5. CASE Deadline
  BY <1>2, <1>5 DEF Deadline
<1>6. ASSUME NEW a \in Peers, Broadcast(a) PROVE Represented'
  <2>1. faults' = 0
    BY <1>1, <1>6, ReliableBroadcast
  <2>2. PICK value \in VoteValues(a) :
          messages' = [h \in Honest |-> Received(h, OwnCopy(a, value))]
    BY <1>1, <1>6, <2>1, CleanBroadcast
  <2>3. /\ phase = "vote" /\ todo' = todo \ {a}
        /\ UNCHANGED <<round, phase, committee, expired, overruns, object>>
        /\ UNCHANGED errors \/ errors' = errors + 1
    BY <1>6 DEF Broadcast
  <2>4. \A h \in Honest : messages'[h] = messages[h] \cup OwnCopy(a, value)
    <3>1. \A h \in Honest : Open(h, round)
      BY <1>1, <2>3, ParametersAssumption
         DEF SealsInOrder, Open, Inv, TypeOK, Rounds
    <3> QED
      BY <2>2, <3>1 DEF Received
  <2>5. a \in Honest => TrueVote(a) \in OwnCopy(a, value)
    BY DEF VoteValues, TrueVote, OwnCopy, Copies
  <2>6. \A c : TrueVote(c)' = TrueVote(c)
    BY <2>3 DEF TrueVote
  <2>7. committee \subseteq Honest
    BY <1>1 DEF Inv, TypeOK
  <2>8. errors' = 0 => errors = 0
    BY <1>2, <2>3
  <2>9. ASSUME errors' = 0, NEW c \in committee' \ todo', NEW h \in Honest
        PROVE  TrueVote(c)' \in messages'[h]
    BY <2>3, <2>4, <2>5, <2>6, <2>7, <2>8, <2>9 DEF Represented, Reliable
  <2> QED
    BY <1>2, <2>1, <2>3, <2>9 DEF Represented, Reliable
<1>7. ASSUME NEW a \in Peers, QueryFails(a) PROVE Represented'
  <2>1. /\ phase = "vote" /\ errors' # 0
        /\ UNCHANGED <<phase, committee, expired, overruns, faults>>
    BY <1>2, <1>7 DEF QueryFails
  <2> QED
    BY <1>2, <2>1 DEF Represented, Reliable
<1>8. ASSUME NEW a \in Peers, Query(a) \/ Seal(a) \/ DecideStep(a)
      PROVE  Represented'
  <2>1. /\ UNCHANGED <<phase, round, committee, expired, messages, object,
                       overruns, faults>>
        /\ phase = "vote" => UNCHANGED <<todo, errors>>
    BY <1>8 DEF Query, Seal, DecideStep, DecideByMajority, DecideAtSource,
       DecideFails
  <2>2. \A c : TrueVote(c)' = TrueVote(c)
    BY <2>1 DEF TrueVote
  <2> QED
    BY <1>2, <2>1, <2>2 DEF Represented, Reliable
<1>9. ASSUME NEW a \in Peers, Forget(a) PROVE Represented'
  <2>1. /\ phase = "forget" /\ UNCHANGED <<phase, expired, overruns, faults>>
    BY <1>9 DEF Forget
  <2> QED
    BY <1>2, <2>1 DEF Represented
<1>10. ASSUME NEW q \in late, CheckSeal(q) \/ AppendLate(q) PROVE FALSE
  BY <1>1, <1>2, <1>10 DEF Fresh
<1>11. CASE UNCHANGED vars
  <2>1. \A c : TrueVote(c)' = TrueVote(c)
    BY <1>11 DEF TrueVote, vars
  <2> QED
    BY <1>11, <2>1 DEF vars, Represented
<1> QED
  BY <1>3, <1>4, <1>5, <1>6, <1>7, <1>8, <1>9, <1>10, <1>11
     DEF Next, Program, PeerStep, VoteStep, Handlers, Terminated

\* A represented peer holds more than rho votes of honest peers.
LEMMA CommitteeIsHeard ==
  ASSUME RoundInv, Represented, Reliable, NEW a \in Honest, phase = "decide"
  PROVE  Cardinality(HonestVotes(a)) > Rho
<1> DEFINE f == [m \in HonestVotes(a) |-> m.sender]
           Speakers == {m.sender : m \in HonestVotes(a)}
<1>1. Inv /\ committee \subseteq Honest
  BY DEF RoundInv, Inv, TypeOK
<1>2. IsFiniteSet(HonestVotes(a))
  <2>1. HonestVotes(a) \subseteq Message
    BY <1>1 DEF HonestVotes, RoundVotes, Inv, TypeOK
  <2> QED
    BY <2>1, MessageFinite, FS_Subset
<1>3. committee \subseteq Speakers
  <2> SUFFICES ASSUME NEW c \in committee PROVE c \in Speakers
    OBVIOUS
  <2>1. TrueVote(c) \in messages[a]
    BY DEF Represented
  <2>2. TrueVote(c) \in HonestVotes(a) /\ TrueVote(c).sender = c
    BY <1>1, <2>1 DEF HonestVotes, RoundVotes, TrueVote
  <2> QED
    BY <2>2
<1>4. f \in Surjection(HonestVotes(a), Speakers)
  BY DEF Surjection
<1> HIDE DEF f, Speakers
<1>5. IsFiniteSet(Speakers) /\ Cardinality(Speakers) <= Cardinality(HonestVotes(a))
  BY <1>2, <1>4, FS_Surjection
<1>6. Cardinality(committee) <= Cardinality(Speakers) /\ IsFiniteSet(committee)
  BY <1>3, <1>5, FS_Subset
<1>7. /\ Cardinality(committee) \in Nat /\ Cardinality(Speakers) \in Nat
      /\ Cardinality(HonestVotes(a)) \in Nat
  BY <1>2, <1>5, <1>6, FS_CardinalityType
<1>8. Cardinality(committee) > Rho
  BY DEF Represented
<1> QED
  BY <1>5, <1>6, <1>7, <1>8, ParametersAssumption

----------------------------------------------------------------------------
(* The refinement *)

RefInv == RoundInv /\ Unlearned /\ Represented

\* A decision is a Learn step.
LEMMA DecideIsLearn ==
  ASSUME RefInv, NEW a \in Honest, DecideByMajority(a) \/ DecideAtSource(a),
         HonestNeverBlacklisted'
  PROVE  Promise!Learn(a, round)
<1>1. Inv /\ Progress
  BY DEF RefInv, RoundInv
<1>2. /\ bits' = [bits EXCEPT ![a] = [bits[a] EXCEPT ![round] = NewBit(a)]]
      /\ blacklist' = [blacklist EXCEPT ![a] = NewBlacklist(a)]
      /\ a \in todo /\ phase = "decide" /\ object' = object
  BY <1>1, DecideSets
<1>3. round \in Rounds /\ object[round] \in {0, 1}
  BY <1>1, <1>2 DEF Inv, TypeOK, Bit
<1>4. Promise!Reached(round) /\ bits[a][round] = Promise!NoBit
  BY <1>1, <1>2, <1>3
     DEF Promise!Reached, Promise!Indices, Promise!NoBit, Progress, Filled,
         RefInv, Unlearned, Rounds, NoBit
<1>5. NewBlacklist(a) \in SUBSET Byz /\ blacklist[a] \subseteq NewBlacklist(a)
  <2>1. blacklist'[a] = NewBlacklist(a)
    BY <1>1, <1>2 DEF Inv, TypeOK
  <2> QED
    BY <2>1 DEF HonestNeverBlacklisted, NewBlacklist
<1>6. \E value \in {0, 1}, culprits \in SUBSET Byz :
        /\ value = object[round] \/ (culprits = {} /\ ~Reliable)
        /\ NewBit(a) = value
        /\ NewBlacklist(a) = blacklist[a] \cup culprits
  <2>1. CASE NewBit(a) = object[round]
    <3>1. NewBlacklist(a) = blacklist[a] \cup NewBlacklist(a)
      BY <1>5
    <3> QED
      BY <1>3, <1>5, <2>1, <3>1
  <2>2. CASE NewBit(a) # object[round]
    <3>1. /\ ~Conflicted(a) /\ NewBit(a) = Majority(RoundVotes(a), blacklist[a])
      BY <2>2 DEF NewBit, NeedsSource
    <3>2. NewBit(a) \in {0, 1} /\ NewBlacklist(a) = blacklist[a] \cup {}
      BY <3>1 DEF Majority, NewBlacklist
    <3>3. ~Reliable
      <4>1. ASSUME Reliable PROVE FALSE
        <5>1. Cardinality(HonestVotes(a)) > Rho
          BY <1>2, <4>1, CommitteeIsHeard DEF RefInv
        <5> QED
          BY <1>1, <1>3, <2>2, <3>1, <5>1, MajorityIsTrue
      <4> QED
        BY <4>1
    <3> QED
      BY <3>2, <3>3
  <2> QED
    BY <2>1, <2>2
<1>7. PICK value \in {0, 1}, culprits \in SUBSET Byz :
        /\ value = object[round] \/ (culprits = {} /\ ~Reliable)
        /\ NewBit(a) = value
        /\ NewBlacklist(a) = blacklist[a] \cup culprits
  BY <1>6
<1>8. /\ bits' = [bits EXCEPT ![a][round] = value]
      /\ blacklist' = [blacklist EXCEPT ![a] = @ \cup culprits]
  BY <1>2, <1>7
<1>9. \E v \in {0, 1}, c \in SUBSET Byz :
        /\ v = object[round] \/ (c = {} /\ ~Reliable)
        /\ bits' = [bits EXCEPT ![a][round] = v]
        /\ blacklist' = [blacklist EXCEPT ![a] = @ \cup c]
  BY <1>7, <1>8, Zenon
<1> QED
  BY <1>2, <1>4, <1>9, Zenon DEF Promise!Learn, Reliable

\* Every step of the round loop is a Learn step or changes nothing the promise
\* speaks of.
LEMMA StepIsLearn == RefInv /\ [Next]_vars => [Promise!Next]_(Promise!vars)
<1> SUFFICES ASSUME RefInv, [Next]_vars
             PROVE  Promise!Next \/ UNCHANGED Promise!vars
  OBVIOUS
<1>1. Inv
  BY DEF RefInv, RoundInv
<1>2. HonestNeverBlacklisted'
  BY <1>1, InvNext DEF Inv
<1>3. ASSUME NEW a \in Peers, DecideByMajority(a) \/ DecideAtSource(a)
      PROVE  Promise!Next
  <2>1. a \in Honest /\ round \in Rounds
    BY <1>1, <1>3 DEF DecideByMajority, DecideAtSource, Inv, TypeOK
  <2>2. Promise!Learn(a, round)
    BY <1>2, <1>3, <2>1, DecideIsLearn
  <2> QED
    BY <2>1, <2>2 DEF Promise!Next, Promise!Indices, Rounds
<1>4. CASE UNCHANGED <<object, bits, blacklist>>
  BY <1>4 DEF Promise!vars
<1> QED
  BY <1>3, <1>4 DEF Next, Program, Handlers, Terminated, PeerStep, VoteStep,
     DecideStep, StartRound, Barrier, Deadline, CheckSeal, AppendLate, Query,
     QueryFails, Broadcast, Seal, DecideFails, Forget, vars, storeVars,
     outputVars, envVars, roundVars

\* The round loop keeps the promise of Download: bits are learned in order and
\* in lock step, blame comes with the truth and falls on Byzantine peers, and
\* where committees are large enough and the network is clean no bit is wrong.
THEOREM RefinementCorrect == Spec => ImplementsDownload
<1>1. Init => RefInv /\ Promise!Init
  <2> SUFFICES ASSUME Init PROVE RefInv /\ Promise!Init
    OBVIOUS
  <2>1. Unlearned
    BY DEF Init, Unlearned
  <2>2. Represented
    BY DEF Init, Represented
  <2>3. RoundInv
    BY RoundInvInit
  <2>4. Promise!Init
    BY DEF Init, Promise!Init, Promise!Indices, Promise!NoBit, Rounds, Bit, NoBit
  <2> QED
    BY <2>1, <2>2, <2>3, <2>4 DEF RefInv
<1>2. RefInv /\ [Next]_vars => RefInv'
  BY RoundInvNext, UnlearnedNext, RepresentedNext DEF RefInv, RoundInv
<1> QED
  BY <1>1, <1>2, StepIsLearn, PTL DEF Spec, ImplementsDownload, Promise!Spec
=============================================================================
