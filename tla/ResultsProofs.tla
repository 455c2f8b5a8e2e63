---------------------------- MODULE ResultsProofs ----------------------------
(***************************************************************************)
(* Proofs about what a benchmark reports and what the trace and the demo   *)
(* show of a round, for every value of the constants.                      *)
(***************************************************************************)
EXTENDS Results, RoundView, RoundLoopProofs

----------------------------------------------------------------------------
(* The success rate *)

\* A run without a lost, repeated or late message succeeds or fails as a whole.
THEOREM AllOrNothingCorrect == Spec => []AllOrNothing
<1>1. RoundInv => AllOrNothing
  <2> SUFFICES ASSUME RoundInv, Reported, faults = 0
               PROVE  Completed \in {{}, Honest} /\ MissingBits = 0
    BY DEF AllOrNothing
  <2>1. \A a \in Honest, r \in Rounds : bits[a][r] # NoBit
    BY ParametersAssumption
       DEF RoundInv, Progress, Filled, EndsAfterAll, Reported, Rounds
  <2>2. \A a, b \in Honest : bits[a] = bits[b]
    BY DEF RoundInv, Agreeing, Alike, Reported
  <2>3. \A a \in Honest : ReconstructedCorrectly(a) <=> bits[a] = object
    BY <2>1 DEF ReconstructedCorrectly, Reconstruct
  <2>4. Completed \in {{}, Honest}
    BY <2>2, <2>3 DEF Completed
  <2>5. {p \in (Honest \ Completed) \X Rounds : bits[p[1]][p[2]] = NoBit} = {}
    BY <2>1
  <2>6. MissingBits = 0
    BY <2>5, FS_EmptySet DEF MissingBits
  <2> QED
    BY <2>4, <2>6
<1> QED
  BY <1>1, RoundInvHolds, PTL

----------------------------------------------------------------------------
(* The decomposition of Q *)

\* A counter of the peers below some number has a bound.
LEMMA CounterBounded ==
  ASSUME NEW f \in [Honest -> Nat]
  PROVE  \E q \in Nat : \A a \in Honest : f[a] <= q
<1> DEFINE Bounded(k) == \E q \in Nat : \A a \in Honest : a < k => f[a] <= q
           Loose == {k \in Nat : ~Bounded(k)}
<1>1. Honest \subseteq 0 .. K-1 /\ K \in Nat
  BY ParametersAssumption DEF Honest, Peers
<1>2. ASSUME Loose # {} PROVE FALSE
  <2>1. PICK k \in Loose : \A m \in Loose : k <= m
    BY <1>2, LeastNatural
  <2>2. k # 0
    BY <1>1, <2>1
  <2>3. k - 1 \in Nat /\ Bounded(k - 1)
    BY <2>1, <2>2
  <2>4. PICK q \in Nat : \A a \in Honest : a < k - 1 => f[a] <= q
    BY <2>3
  <2>5. CASE k - 1 \in Honest
    <3>1. PICK p \in Nat : q <= p /\ f[k - 1] <= p
      BY <2>5
    <3>2. \A a \in Honest : a < k => f[a] <= p
      BY <1>1, <2>1, <2>4, <3>1
    <3> QED
      BY <2>1, <3>2
  <2>6. CASE k - 1 \notin Honest
    <3>1. \A a \in Honest : a < k => a < k - 1
      BY <1>1, <2>1, <2>6
    <3>2. \A a \in Honest : a < k => f[a] <= q
      BY <2>4, <3>1
    <3> QED
      BY <2>1, <3>2
  <2> QED
    BY <2>5, <2>6
<1>3. Bounded(K)
  BY <1>1, <1>2
<1> QED
  BY <1>1, <1>3

\* So some peer has the most queries, and the least of those is a peer.
LEMMA MaxAgentExists ==
  ASSUME Inv
  PROVE  MaxAgent \in Honest /\ sourceQueries[MaxAgent] = MaxHonestSourceQueries
<1>1. sourceQueries \in [Honest -> Nat]
  BY DEF Inv, TypeOK
<1> DEFINE Bounds == {q \in Nat : \A a \in Honest : sourceQueries[a] <= q}
<1>2. PICK q \in Bounds : \A p \in Bounds : q <= p
  BY <1>1, CounterBounded, LeastNatural
<1>3. PICK h \in Honest : sourceQueries[h] = q
  <2>1. ASSUME \A h \in Honest : sourceQueries[h] # q PROVE FALSE
    <3>1. \A h \in Honest : sourceQueries[h] < q
      BY <1>1, <1>2, <2>1
    <3>2. q > 0
      BY <1>1, <3>1, RepIsHonest
    <3>3. q - 1 \in Bounds
      BY <1>1, <1>2, <3>1, <3>2
    <3> QED
      BY <1>2, <3>3
  <2> QED
    BY <2>1
<1>4. \E p \in {sourceQueries[a] : a \in Honest} :
        \A a \in Honest : sourceQueries[a] <= p
  BY <1>2, <1>3
<1>5. /\ MaxHonestSourceQueries \in {sourceQueries[a] : a \in Honest}
      /\ \A a \in Honest : sourceQueries[a] <= MaxHonestSourceQueries
  BY <1>4 DEF MaxHonestSourceQueries
<1> DEFINE Most == {a \in Honest : sourceQueries[a] = MaxHonestSourceQueries}
<1>6. Most # {} /\ Most \in SUBSET Nat
  <2>1. Peers \in SUBSET Nat
    BY ParametersAssumption DEF Peers
  <2> QED
    BY <1>5, <2>1 DEF Honest
<1>7. \E a \in Most : \A b \in Most : a <= b
  BY <1>6, LeastNatural
<1> QED
  BY <1>7 DEF MaxAgent

\* The four numbers of the decomposition are those of one peer when no message
\* was lost, repeated or late: the largest blacklist is everybody's.
THEOREM DecompositionCorrect == Spec => []DecompositionIsOnePeer
<1>1. RoundInv => DecompositionIsOnePeer
  <2> SUFFICES ASSUME RoundInv, Reported, faults = 0
               PROVE  Decomposition =
                        [Q |-> sourceQueries[MaxAgent],
                         committee |-> primaryQueries[MaxAgent],
                         conflict |-> verifyQueries[MaxAgent],
                         blacklistSize |-> Cardinality(blacklist[MaxAgent])]
    BY MaxAgentExists DEF DecompositionIsOnePeer, RoundInv
  <2>1. MaxAgent \in Honest /\ sourceQueries[MaxAgent] = MaxHonestSourceQueries
    BY MaxAgentExists DEF RoundInv
  <2>2. \A a \in Honest : blacklist[a] = blacklist[MaxAgent]
    BY <2>1 DEF RoundInv, Agreeing, Alike, Reported
  <2> DEFINE size == Cardinality(blacklist[MaxAgent])
  <2>3. size \in Nat
    <3>1. IsFiniteSet(Peers) /\ blacklist[MaxAgent] \subseteq Peers
      BY <2>1, FS_Interval, ParametersAssumption
         DEF RoundInv, Inv, TypeOK, Peers
    <3> QED
      BY <3>1, FS_Subset, FS_CardinalityType
  <2>4. {Cardinality(blacklist[a]) : a \in Honest} = {size}
    BY <2>1, <2>2
  <2>5. MaxBlacklistSize = size
    BY <2>1, <2>2, <2>3, <2>4 DEF MaxBlacklistSize
  <2> QED
    BY <2>1, <2>5
       DEF Decomposition, MaxAgentPrimaryQueries, MaxAgentVerifyQueries
<1> QED
  BY <1>1, RoundInvHolds, PTL

----------------------------------------------------------------------------
(* The printed rounds *)

\* The views only look: a step of theirs is a step of the round loop or none.
LEMMA ViewStep == [ViewNext]_viewVars => [Next]_vars
BY DEF ViewNext, viewVars, Show, LoopStep

LEMMA ViewHasRounds == ViewSpec => []RoundInv
<1>1. ViewInit => RoundInv
  BY RoundInvInit DEF ViewInit
<1>2. RoundInv /\ [ViewNext]_viewVars => RoundInv'
  BY RoundInvNext, ViewStep
<1> QED
  BY <1>1, <1>2, PTL DEF ViewSpec

\* The peer has decided, and its votes are read again next.
Unseen == \/ phase = "decide" /\ errors = 0 /\ TraceAgent \notin todo
          \/ phase = "forget" /\ shown = NotShown

\* Those it decided on are still there, and with the copy of the blacklist
\* they give the decision that was made.
Decided ==
  /\ tallied \subseteq RoundVotes(TraceAgent)
  /\ IsDecisionMade(Shown(tallied))
  /\ blacklist[TraceAgent] \ before.blacklist # {}
       <=> conflicts[TraceAgent] > before.conflicts

\* What has been printed.
Told ==
  /\ tallied \subseteq shown.votes
  /\ shown.votes = tallied => IsDecisionMade(shown.trace)
  /\ shown.liars # {} <=> conflicts[TraceAgent] > before.conflicts
  /\ shown.liars \subseteq blacklist[TraceAgent]

\* The copy of the blacklist is the one the decision starts from, and the
\* decision derived from it stays the one made until the round is printed.
Looking ==
  /\ phase \in {"vote", "seal", "decide"} => shown = NotShown
  /\ phase = "decide" /\ TraceAgent \in todo => before = Snapshot
  /\ Unseen => Decided
  /\ ShownNow => Told

\* Without a fault no vote is stored twice, and none comes after the decision.
Clear ==
  faults = 0 =>
    /\ \A a \in Honest : \A m \in messages[a] : m.copy = 1
    /\ Unseen => tallied = RoundVotes(TraceAgent)
    /\ ShownNow => shown.votes = tallied /\ shown.demo = shown.trace

\* The decision stays what it is while nothing it rests on changes.
LEMMA DecidedStays ==
  ASSUME UNCHANGED <<object, round, bits, blacklist, verifyQueries, conflicts,
                     before, tallied>>,
         RoundVotes(TraceAgent) \subseteq RoundVotes(TraceAgent)', Decided
  PROVE  Decided'
<1>1. Shown(tallied)' = Shown(tallied)
  BY DEF Shown, Filter
<1>2. TraceAgent' = TraceAgent
  BY DEF TraceAgent, RepHonest
<1> QED
  BY <1>1, <1>2 DEF Decided, IsDecisionMade

LEMMA ToldStays ==
  ASSUME UNCHANGED <<round, bits, blacklist, verifyQueries, conflicts, before,
                     tallied, shown>>, Told
  PROVE  Told'
BY DEF Told, IsDecisionMade, TraceAgent, RepHonest

\* A conflict exposes somebody who was trusted.
LEMMA ConflictBlames ==
  ASSUME Inv, NEW a \in Honest, round \in Rounds, Conflicted(a)
  PROVE  NewBlacklist(a) \ blacklist[a] # {}
<1> DEFINE V == VotesFor(1 - object[round], RoundVotes(a), blacklist[a])
<1>1. 1 - object[round] \in {0, 1}
  BY DEF Inv, TypeOK, Bit
<1>2. Cardinality(V) > Rho
  BY <1>1 DEF Conflicted, Conflict, Count
<1>3. V # {}
  BY <1>2, FS_EmptySet, ParametersAssumption
<1>4. PICK v \in V : TRUE
  BY <1>3
<1>5. v.sender \in Losers(RoundVotes(a), blacklist[a], object[round])
        /\ v.sender \notin blacklist[a]
  BY <1>4 DEF Losers, VotesFor, Trusted
<1> QED
  BY <1>5 DEF NewBlacklist

\* The first honest peer decides as its votes and the copy of its blacklist say.
LEMMA DecideIsShown ==
  ASSUME Inv, before = Snapshot, before' = before,
         tallied' = RoundVotes(TraceAgent),
         DecideByMajority(TraceAgent) \/ DecideAtSource(TraceAgent)
  PROVE  Decided'
<1> USE DEF storeVars, outputVars, envVars
<1> DEFINE a == TraceAgent
           votes == RoundVotes(a)
           list == blacklist[a]
<1>1. a \in Honest /\ round \in Rounds
  BY RepIsHonest DEF TraceAgent, Inv, TypeOK, DecideByMajority, DecideAtSource
<1>2. UNCHANGED <<object, round, messages>> /\ votes' = votes /\ Filter' = list
      /\ tallied' = votes
  BY DEF DecideByMajority, DecideAtSource, RoundVotes, TraceAgent, Filter,
     Snapshot
<1>3. /\ bits' = [bits EXCEPT ![a] = [bits[a] EXCEPT ![round] = NewBit(a)]]
      /\ blacklist' = [blacklist EXCEPT ![a] = NewBlacklist(a)]
  BY <1>1, DecideSets
<1>4. bits'[a][round] = NewBit(a) /\ blacklist'[a] = NewBlacklist(a)
  BY <1>1, <1>3 DEF Inv, TypeOK
<1>5. /\ verifyQueries[a] \in Nat /\ conflicts[a] \in Nat
      /\ verifyQueries \in [Honest -> Nat] /\ conflicts \in [Honest -> Nat]
  BY <1>1 DEF Inv, TypeOK
<1>6. /\ before.blacklist = list /\ before.verifyQueries = verifyQueries[a]
      /\ before.conflicts = conflicts[a]
  BY DEF Snapshot
<1>7. Shown(tallied)' =
        IF Silence(votes, list) THEN <<"silence", object[round]>>
        ELSE IF Conflict(votes, list, Rho) THEN <<"conflict", object[round]>>
        ELSE <<"majority", Majority(votes, list)>>
  BY <1>2 DEF Shown, TraceAgent
<1>8. CASE DecideByMajority(a)
  <2>1. ~Silence(votes, list) /\ ~Conflict(votes, list, Rho)
    BY <1>8 DEF DecideByMajority, NeedsSource, Conflicted
  <2>2. UNCHANGED <<blacklist, verifyQueries, conflicts>>
    BY <1>8 DEF DecideByMajority
  <2>3. NewBit(a) = Majority(votes, list)
    BY <2>1 DEF NewBit, NeedsSource, Conflicted
  <2>4. Shown(tallied)' = <<"majority", NewBit(a)>>
    BY <1>7, <2>1, <2>3
  <2> QED
    BY <1>2, <1>5, <1>6, <2>2, <2>4, <1>4 DEF Decided, IsDecisionMade, TraceAgent
<1>9. CASE DecideAtSource(a)
  <2>1. NewBit(a) = object[round]
    BY <1>9 DEF DecideAtSource, NewBit
  <2>2. /\ verifyQueries'[a] = verifyQueries[a] + 1
        /\ conflicts'[a] = IF Conflicted(a) THEN conflicts[a] + 1
                                            ELSE conflicts[a]
    BY <1>1, <1>5, <1>9 DEF DecideAtSource
  <2>3. CASE Conflicted(a)
    <3>1. ~Silence(votes, list)
      <4>1. ASSUME Silence(votes, list) PROVE FALSE
        <5>1. VotesFor(0, votes, list) = {}
          BY <4>1 DEF Silence, VotesFor
        <5>2. Count(0, votes, list) = 0
          BY <5>1, FS_EmptySet DEF Count
        <5> QED
          BY <2>3, <5>2, ParametersAssumption DEF Conflicted, Conflict
      <4> QED
        BY <4>1
    <3>2. Shown(tallied)' = <<"conflict", object[round]>>
      BY <1>7, <2>3, <3>1 DEF Conflicted
    <3>3. NewBlacklist(a) \ list # {}
      BY <1>1, <2>3, ConflictBlames
    <3> QED
      BY <1>2, <1>4, <1>5, <1>6, <2>1, <2>2, <2>3, <3>2, <3>3
         DEF Decided, IsDecisionMade, TraceAgent
  <2>4. CASE ~Conflicted(a)
    <3>1. Shown(tallied)' = <<"silence", object[round]>>
      BY <1>7, <1>9, <2>4 DEF DecideAtSource, NeedsSource, Conflicted
    <3>2. NewBlacklist(a) = list
      BY <2>4 DEF NewBlacklist
    <3> QED
      BY <1>2, <1>4, <1>5, <1>6, <2>1, <2>2, <2>4, <3>1, <3>2
         DEF Decided, IsDecisionMade, TraceAgent
  <2> QED
    BY <2>3, <2>4
<1> QED
  BY <1>8, <1>9

\* The round is printed.
LEMMA LookingShow == RoundInv /\ Looking /\ Clear /\ Show => Looking' /\ Clear'
<1> SUFFICES ASSUME RoundInv, Looking, Clear, Show PROVE Looking' /\ Clear'
  OBVIOUS
<1> USE DEF roundVars, storeVars, outputVars, envVars
<1>1. /\ UNCHANGED <<object, round, phase, todo, messages, bits, blacklist,
                     verifyQueries, conflicts, faults, errors, before, tallied>>
      /\ phase = "forget" /\ shown = NotShown /\ Unseen
  BY DEF Show, vars, Unseen
<1>2. Decided
  BY <1>1 DEF Looking
<1>3. /\ shown'.votes = RoundVotes(TraceAgent)
      /\ shown'.trace = Shown(RoundVotes(TraceAgent))
      /\ shown'.demo = Shown(OnePerSender(RoundVotes(TraceAgent)))
      /\ shown'.liars = blacklist[TraceAgent] \ before.blacklist
      /\ TraceAgent' = TraceAgent
  BY DEF Show, TraceAgent, RepHonest
<1>4. Told'
  BY <1>1, <1>2, <1>3 DEF Decided, Told, IsDecisionMade
<1>5. shown' # NotShown
  BY <1>3 DEF NotShown, Shown
<1>6. NotShown' = NotShown /\ ~Unseen'
  BY <1>1, <1>5 DEF NotShown, Unseen
<1>7. Looking'
  BY <1>1, <1>4, <1>6 DEF Looking
<1>8. ASSUME faults = 0
      PROVE  OnePerSender(RoundVotes(TraceAgent)) = RoundVotes(TraceAgent)
  <2>1. \A v \in RoundVotes(TraceAgent) : v.copy = 1
    BY <1>8, RepIsHonest DEF Clear, RoundVotes, TraceAgent
  <2> QED
    BY <2>1 DEF OnePerSender
<1>9. Clear'
  BY <1>1, <1>3, <1>6, <1>8 DEF Clear
<1> QED
  BY <1>7, <1>9

\* A step of the round loop keeps what will be printed.
LEMMA LookingLoop ==
  RoundInv /\ Looking /\ Clear /\ LoopStep => Looking' /\ Clear'
<1> SUFFICES ASSUME RoundInv, Looking, Clear, LoopStep PROVE Looking' /\ Clear'
  OBVIOUS
<1> USE DEF roundVars, storeVars, outputVars, envVars
<1>1. /\ Next /\ Inv /\ TraceAgent \in Honest
      /\ before' = IF phase = "seal" /\ phase' = "decide" THEN Snapshot
                                                          ELSE before
      /\ tallied' = IF phase = "decide" /\ TraceAgent \in todo \ todo'
                    THEN RoundVotes(TraceAgent) ELSE tallied
      /\ phase = "forget" /\ todo' # todo => shown # NotShown
      /\ shown' = IF phase = "start" THEN NotShown ELSE shown
      /\ TraceAgent' = TraceAgent /\ NotShown' = NotShown
      /\ messages \in [Honest -> SUBSET Message]
  BY RepIsHonest
     DEF RoundInv, LoopStep, TraceAgent, RepHonest, NotShown, Inv, TypeOK
<1>2. faults' = 0 => faults = 0
  <2>1. faults \in Nat /\ faults' \in Nat /\ faults <= faults'
    BY <1>1, TroubleGrows, InvNext DEF Inv, TypeOK
  <2> QED
    BY <2>1
\* What was decided, or printed, stays what it is.
<1>3. ASSUME UNCHANGED <<object, round, phase, errors, bits, blacklist,
                         verifyQueries, conflicts, before, tallied, shown>>,
             TraceAgent \in todo' <=> TraceAgent \in todo,
             RoundVotes(TraceAgent) \subseteq RoundVotes(TraceAgent)'
      PROVE  Looking'
  <2>1. Snapshot' = Snapshot /\ (Unseen' <=> Unseen) /\ (ShownNow' <=> ShownNow)
    BY <1>1, <1>3 DEF Snapshot, Unseen, ShownNow
  <2>2. (Decided => Decided') /\ (Told => Told')
    BY <1>3, DecidedStays, ToldStays
  <2> QED
    BY <1>1, <1>3, <2>1, <2>2 DEF Looking
<1>4. ASSUME phase' \in {"start", "vote", "seal", "done", "aborted"},
             phase' \in {"vote", "seal"} => shown' = NotShown,
             faults' = 0 => \A a \in Honest : \A m \in messages'[a] : m.copy = 1
      PROVE  Looking' /\ Clear'
  BY <1>1, <1>4 DEF Looking, Clear, Unseen, ShownNow
<1>5. ASSUME phase' = phase,
             phase \in {"start", "vote", "seal", "done", "aborted"},
             faults' = 0 => \A a \in Honest : \A m \in messages'[a] : m.copy = 1
      PROVE  Looking' /\ Clear'
  <2>1. phase' \in {"vote", "seal"} => shown' = NotShown
    BY <1>1, <1>5 DEF Looking
  <2> QED
    BY <1>4, <1>5, <2>1
<1>6. CASE StartRound
  <2>1. /\ phase = "start" /\ phase' = "vote" /\ UNCHANGED <<messages, faults>>
    BY <1>6 DEF StartRound
  <2> QED
    BY <1>1, <1>4, <2>1 DEF Clear
<1>7. CASE Deadline
  <2>1. phase = "vote" /\ UNCHANGED <<phase, messages, faults>>
    BY <1>7 DEF Deadline
  <2> QED
    BY <1>5, <2>1 DEF Clear
<1>8. CASE Barrier
  <2>1. /\ UNCHANGED <<object, messages, bits, blacklist, verifyQueries,
                       conflicts, faults, errors>>
        /\ todo = {} /\ (phase # "forget" => round' = round)
    BY <1>1, <1>8 DEF Barrier, Inv, TypeOK
  <2>2. CASE phase \in {"vote", "forget"}
    <3>1. /\ phase' \in {"seal", "start", "done", "aborted"}
          /\ phase' = "seal" => phase = "vote"
      BY <1>1, <1>8, <2>2 DEF Barrier, Inv, TypeOK
    <3>2. phase' \in {"vote", "seal"} => shown' = NotShown
      BY <1>1, <2>2, <3>1 DEF Looking
    <3> QED
      BY <1>4, <2>1, <3>1, <3>2 DEF Clear
  <2>3. CASE phase = "seal"
    <3>1. phase' = "decide" /\ todo' = Honest
      BY <1>8, <2>3 DEF Barrier
    <3>2. before' = Snapshot' /\ ~Unseen' /\ ~ShownNow' /\ shown' = NotShown'
      BY <1>1, <2>1, <2>3, <3>1 DEF Snapshot, Unseen, ShownNow, Looking
    <3> QED
      BY <1>1, <2>1, <3>1, <3>2 DEF Looking, Clear
  <2>4. CASE phase = "decide"
    <3>1. phase' \in {"forget", "aborted"} /\ (phase' = "forget" => errors = 0)
      BY <1>1, <1>8, <2>4 DEF Barrier, Inv, TypeOK
    <3>2. CASE phase' = "aborted"
      BY <1>4, <2>1, <3>2 DEF Clear
    <3>3. CASE phase' = "forget"
      <4>1. UNCHANGED <<before, tallied, shown>> /\ shown = NotShown
        BY <1>1, <2>1, <2>4 DEF Looking
      <4>2. Unseen /\ Unseen' /\ ~ShownNow'
        BY <1>1, <2>1, <2>4, <3>1, <3>3, <4>1 DEF Unseen, ShownNow
      <4>3. RoundVotes(TraceAgent)' = RoundVotes(TraceAgent)
        BY <1>1, <2>1, <2>4 DEF RoundVotes
      <4>4. Decided'
        BY <2>1, <2>4, <4>1, <4>2, <4>3, DecidedStays DEF Looking
      <4> QED
        BY <2>1, <3>3, <4>1, <4>2, <4>3, <4>4 DEF Looking, Clear
    <3> QED
      BY <3>1, <3>2, <3>3
  <2> QED
    BY <1>8, <2>2, <2>3, <2>4 DEF Barrier
<1>9. ASSUME NEW a \in Peers, Broadcast(a) PROVE Looking' /\ Clear'
  <2>1. ASSUME faults' = 0, NEW h \in Honest, NEW m \in messages'[h]
        PROVE  m.copy = 1
    <3>1. PICK value \in VoteValues(a) :
            messages' = [g \in Honest |-> Received(g, OwnCopy(a, value))]
      BY <1>1, <1>9, <2>1, CleanBroadcast
    <3>2. \A v \in OwnCopy(a, value) : v.copy = 1
      BY DEF OwnCopy, Copies
    <3> QED
      BY <1>2, <2>1, <3>1, <3>2 DEF Clear, Received
  <2>2. phase = "vote" /\ phase' = phase
    BY <1>9 DEF Broadcast
  <2> QED
    BY <1>5, <2>1, <2>2
<1>10. ASSUME NEW a \in Peers, Query(a) \/ QueryFails(a) \/ Seal(a)
       PROVE  Looking' /\ Clear'
  <2>1. phase \in {"vote", "seal"} /\ phase' = phase /\ messages' = messages
    BY <1>10 DEF Query, QueryFails, Seal
  <2> QED
    BY <1>2, <1>5, <2>1 DEF Clear
<1>11. ASSUME NEW a \in Peers, DecideStep(a) PROVE Looking' /\ Clear'
  <2>1. /\ phase = "decide" /\ phase' = phase /\ a \in Honest
        /\ todo' = todo \ {a} /\ a \in todo
        /\ UNCHANGED <<object, round, messages, faults>>
        /\ before' = before /\ shown' = shown /\ shown = NotShown
        /\ tallied' = IF a = TraceAgent THEN RoundVotes(a) ELSE tallied
    BY <1>1, <1>11 DEF DecideStep, DecideByMajority, DecideAtSource, DecideFails,
       Inv, TypeOK, Looking
  <2>2. RoundVotes(TraceAgent)' = RoundVotes(TraceAgent) /\ ~ShownNow'
    BY <1>1, <2>1 DEF RoundVotes, ShownNow
  <2>3. CASE DecideFails(a)
    <3>1. errors' # 0 /\ UNCHANGED <<blacklist, verifyQueries, conflicts>>
      BY <1>1, <2>3 DEF DecideFails, Inv, TypeOK
    <3>2. Snapshot' = Snapshot /\ ~Unseen'
      BY <1>1, <2>1, <3>1 DEF Snapshot, Unseen
    <3> QED
      BY <1>1, <2>1, <2>2, <3>2 DEF Looking, Clear
  <2>4. CASE DecideByMajority(a) \/ DecideAtSource(a)
    <3>1. errors' = errors
      BY <2>4 DEF DecideByMajority, DecideAtSource
    <3>2. CASE a = TraceAgent
      <4>1. before = Snapshot
        BY <2>1, <3>2 DEF Looking
      <4>2. Decided'
        BY <1>1, <2>1, <2>4, <3>2, <4>1, DecideIsShown
      <4>3. TraceAgent \notin todo'
        BY <2>1, <3>2
      <4> QED
        BY <1>1, <2>1, <2>2, <3>2, <4>2, <4>3 DEF Looking, Clear
    <3>3. CASE a # TraceAgent
      <4>1. /\ bits'[TraceAgent] = bits[TraceAgent]
            /\ blacklist'[TraceAgent] = blacklist[TraceAgent]
        BY <1>1, <2>1, <2>4, <3>3, DecideSets DEF Inv, TypeOK
      <4>2. /\ verifyQueries'[TraceAgent] = verifyQueries[TraceAgent]
            /\ conflicts'[TraceAgent] = conflicts[TraceAgent]
        BY <1>1, <2>1, <2>4, <3>3
           DEF DecideByMajority, DecideAtSource, Inv, TypeOK
      <4>3. Snapshot' = Snapshot /\ (Unseen' <=> Unseen) /\ tallied' = tallied
        BY <1>1, <2>1, <3>1, <3>3, <4>1, <4>2 DEF Snapshot, Unseen
      <4>4. Shown(tallied)' = Shown(tallied)
        BY <2>1, <4>3 DEF Shown, Filter
      <4>5. Decided => Decided'
        BY <1>1, <2>1, <2>2, <4>1, <4>2, <4>3, <4>4 DEF Decided, IsDecisionMade
      <4>6. TraceAgent \in todo' <=> TraceAgent \in todo
        BY <2>1, <3>3
      <4> QED
        BY <1>1, <2>1, <2>2, <4>3, <4>5, <4>6 DEF Looking, Clear
    <3> QED
      BY <3>2, <3>3
  <2> QED
    BY <1>11, <2>3, <2>4 DEF DecideStep
<1>12. ASSUME NEW a \in Peers, Forget(a) PROVE Looking' /\ Clear'
  <2>1. /\ phase = "forget" /\ phase' = phase /\ todo' = todo \ {a} /\ a \in todo
        /\ messages' = [messages EXCEPT ![a] = {m \in @ : m.round # round}]
        /\ UNCHANGED <<round, bits, blacklist, verifyQueries, conflicts, faults>>
        /\ before' = before /\ tallied' = tallied /\ shown' = shown
        /\ shown # NotShown
    BY <1>1, <1>12 DEF Forget, NextInLine, Inv, TypeOK
  <2>2. Told => Told'
    BY <2>1, ToldStays
  <2>3. ~Unseen' /\ ShownNow /\ ShownNow'
    BY <1>1, <2>1 DEF Unseen, ShownNow
  <2>4. \A h \in Honest : messages'[h] \subseteq messages[h]
    BY <1>1, <2>1
  <2> QED
    BY <1>1, <2>1, <2>2, <2>3, <2>4 DEF Looking, Clear
<1>13. ASSUME NEW q \in late, CheckSeal(q) \/ AppendLate(q)
       PROVE  Looking' /\ Clear'
  <2>1. faults # 0 /\ faults' # 0
    BY <1>2, <1>13 DEF RoundInv, Fresh
  <2>2. UNCHANGED <<object, round, phase, todo, errors, bits, blacklist,
                    verifyQueries, conflicts>>
    BY <1>13 DEF CheckSeal, AppendLate
  <2>3. UNCHANGED <<before, tallied>>
    BY <1>1, <2>2
  <2>4. \A h \in Honest : messages[h] \subseteq messages'[h]
    BY <1>1, <1>13 DEF CheckSeal, AppendLate
  <2>5. RoundVotes(TraceAgent) \subseteq RoundVotes(TraceAgent)'
    BY <1>1, <2>2, <2>4 DEF RoundVotes
  <2>6. CASE phase = "start"
    BY <2>1, <2>2, <2>6, <1>5
  <2>7. CASE phase # "start"
    BY <1>1, <1>3, <2>1, <2>2, <2>3, <2>5, <2>7 DEF Clear
  <2> QED
    BY <2>6, <2>7
<1>14. CASE Terminated
  <2>1. phase \in {"done", "aborted"} /\ UNCHANGED <<phase, messages, faults>>
    BY <1>14 DEF Terminated, Over, vars
  <2> QED
    BY <1>5, <2>1 DEF Clear
<1> QED
  BY <1>1, <1>6, <1>7, <1>8, <1>9, <1>10, <1>11, <1>12, <1>13, <1>14
     DEF Next, Program, PeerStep, VoteStep, Handlers

\* The trace tells the decision that was made whenever it finds the votes it
\* was made of, further votes and a demo that differs take a fault, and the
\* liars that are printed are those of a conflict.
THEOREM ViewsCorrect == ViewSpec => []ViewsTellTheDecision
<1>1. ViewInit => Looking /\ Clear
  BY DEF ViewInit, Init, Looking, Clear, Unseen, ShownNow
<1>2. RoundInv /\ Looking /\ Clear /\ [ViewNext]_viewVars => Looking' /\ Clear'
  <2>1. RoundInv /\ Looking /\ Clear /\ UNCHANGED viewVars => Looking' /\ Clear'
    <3> SUFFICES ASSUME Looking, Clear, UNCHANGED viewVars
                 PROVE  Looking' /\ Clear'
      OBVIOUS
    <3>1. UNCHANGED <<object, round, phase, todo, messages, bits, blacklist,
                      verifyQueries, conflicts, faults, errors, before, tallied,
                      shown>>
      BY DEF viewVars, vars, roundVars, storeVars, outputVars, envVars
    <3>2. /\ TraceAgent' = TraceAgent /\ NotShown' = NotShown
          /\ Snapshot' = Snapshot
          /\ RoundVotes(TraceAgent)' = RoundVotes(TraceAgent)
      BY <3>1 DEF TraceAgent, RepHonest, NotShown, Snapshot, RoundVotes
    <3>3. (Unseen' <=> Unseen) /\ (ShownNow' <=> ShownNow)
      BY <3>1, <3>2 DEF Unseen, ShownNow
    <3>4. (Decided => Decided') /\ (Told => Told')
      BY <3>1, <3>2, DecidedStays, ToldStays
    <3> QED
      BY <3>1, <3>2, <3>3, <3>4 DEF Looking, Clear
  <2> QED
    BY <2>1, LookingShow, LookingLoop DEF ViewNext
<1>3. RoundInv /\ Looking /\ Clear => ViewsTellTheDecision
  <2> SUFFICES ASSUME RoundInv, Looking, Clear, ShownNow
               PROVE  ViewsTellTheDecision
    BY DEF ViewsTellTheDecision
  <2>1. Told /\ (faults = 0 => shown.votes = tallied /\ shown.demo = shown.trace)
    BY DEF Looking, Clear
  <2>2. blacklist[TraceAgent] \subseteq Byz
    BY RepIsHonest DEF RoundInv, Inv, HonestNeverBlacklisted, TraceAgent
  <2>3. faults = 0 => \A a \in Honest : blacklist[a] = blacklist[TraceAgent]
    BY RepIsHonest DEF ShownNow, RoundInv, Agreeing, Alike, TraceAgent
  <2> QED
    BY <2>1, <2>2, <2>3 DEF Told, ViewsTellTheDecision
<1> QED
  BY <1>1, <1>2, <1>3, ViewHasRounds, PTL DEF ViewSpec
=============================================================================
