------------------------- MODULE BlacklistDownload -------------------------
(***************************************************************************)
(* Algorithm 2 as sim/algo_blacklist.go runs it: N bit-rounds, each made   *)
(* of four phases separated by the barriers of runRoundJobs/runAgentJobs.  *)
(*                                                                         *)
(*   vote    elected honest peers query the source and broadcast, Byzantine*)
(*           peers broadcast a fabrication; a deadline may cut peers off   *)
(*   seal    the receive window of the round is closed, peer after peer    *)
(*   decide  every honest peer tallies, asks the source when it has to,    *)
(*           and blacklists the peers a conflict exposes                   *)
(*   forget  the votes of the round are freed, peer after peer             *)
(*                                                                         *)
(* A broadcast is one step here: its outcome says, for every peer, how     *)
(* many copies of the message were stored and how many requests are still  *)
(* on their way when the sender gives them up.  The requests still on      *)
(* their way reach their handler at any later time, in any phase.          *)
(*                                                                         *)
(* Only honest peers are receivers: nothing ever reads what a Byzantine    *)
(* peer has stored.                                                        *)
(***************************************************************************)
EXTENDS Votes

CONSTANTS
  K,            \* number of peers; they are 0 .. K-1
  N,            \* number of bits, one round each
  Byz,          \* the Byzantine peers
  Rho,          \* floor of the committee strength rho
  Adversary,    \* "random", "collude", "flood" or "drip"
  MinCommittee, \* fewest honest peers a coin elects (0: any outcome)
  Attempts,     \* bound on the copies of one message: tries of post
  MaxFaults,    \* bound on the deliveries that are lost, late or repeated
  MaxOverruns,  \* bound on the rounds that overrun their deadline
  MaxErrors     \* bound on the requests that fail for good

Peers  == 0 .. K-1
Honest == Peers \ Byz
Rounds == 0 .. N-1
NoBit  == -1    \* the bit is missing from the peer's map

ASSUME ParametersAssumption ==
  /\ K \in Nat /\ N \in Nat \ {0}
  /\ Byz \subseteq Peers /\ Byz # Peers
  /\ Rho \in Nat
  /\ Adversary \in {"random", "collude", "flood", "drip"}
  /\ Attempts \in Nat \ {0}

ASSUME BoundsAssumption ==
  /\ MinCommittee \in Nat
  /\ MaxFaults \in Nat /\ MaxOverruns \in Nat /\ MaxErrors \in Nat

VARIABLES
  object,         \* the bits of the source, never written after New
  round, phase,   \* where runBlacklistScenario is
  todo,           \* the peers whose job of this phase is not finished
  committee,      \* the honest peers elected for this round
  exposed,        \* the Byzantine peers that vote in this round
  queried,        \* committee members that hold the source's answer
  expired,        \* the deadline of this round has passed
  messages,       \* the stored votes of each honest peer
  sealedRound,    \* last sealed round of each honest peer, -1 at first
  late,           \* requests no sender waits for any more
  bits, blacklist,
  sourceQueries, primaryQueries, verifyQueries,
  conflicts,      \* history: conflicts each peer took to the source
  faults, overruns, errors  \* what the environment has done so far

roundVars  == <<round, phase, todo, committee, exposed, queried, expired>>
storeVars  == <<messages, sealedRound, late>>
outputVars == <<bits, blacklist, verifyQueries, conflicts>>
envVars    == <<faults, overruns, errors>>
vars == <<object, roundVars, storeVars, outputVars, sourceQueries,
          primaryQueries, envVars>>

Phases == {"start", "vote", "seal", "decide", "forget", "done", "aborted"}

Message == Vote(Peers, Rounds, 1 .. Attempts)
Request == [to : Honest, msg : Message, checked : BOOLEAN]

TypeOK ==
  /\ object \in [Rounds -> Bit]
  /\ round \in 0 .. N /\ phase \in Phases
  /\ phase \notin {"done", "aborted"} => round \in Rounds
  /\ todo \subseteq Peers /\ exposed \subseteq Byz
  /\ phase \in {"seal", "decide", "forget"} => todo \subseteq Honest
  /\ committee \subseteq Honest /\ queried \subseteq Honest
  /\ expired \in BOOLEAN
  /\ messages \in [Honest -> SUBSET Message]
  /\ sealedRound \in [Honest -> -1 .. N-1]
  /\ late \subseteq Request
  /\ bits \in [Honest -> [Rounds -> Bit \cup {NoBit}]]
  /\ blacklist \in [Honest -> SUBSET Peers]
  /\ sourceQueries \in [Honest -> Nat] /\ primaryQueries \in [Honest -> Nat]
  /\ verifyQueries \in [Honest -> Nat] /\ conflicts \in [Honest -> Nat]
  /\ faults \in Nat /\ overruns \in Nat /\ errors \in Nat

----------------------------------------------------------------------------
Init ==
  /\ object \in [Rounds -> Bit]
  /\ round = 0 /\ phase = "start"
  /\ todo = {} /\ committee = {} /\ exposed = {} /\ queried = {}
  /\ expired = FALSE
  /\ messages = [h \in Honest |-> {}]
  /\ sealedRound = [h \in Honest |-> -1]
  /\ late = {}
  /\ bits = [h \in Honest |-> [r \in Rounds |-> NoBit]]
  /\ blacklist = [h \in Honest |-> {}]
  /\ sourceQueries = [h \in Honest |-> 0]
  /\ primaryQueries = [h \in Honest |-> 0]
  /\ verifyQueries = [h \in Honest |-> 0]
  /\ conflicts = [h \in Honest |-> 0]
  /\ faults = 0 /\ overruns = 0 /\ errors = 0

\* honestAgents(env.agents)[0], the peer whose blacklist drip reads.
RepHonest == CHOOSE h \in Honest : \A g \in Honest : h <= g

\* Slip: one Byzantine peer too few is exposed.
FirstLiveShort ==
  LET Live == Byz \ blacklist[RepHonest]
  IN  {b \in Live : Cardinality({c \in Live : c < b}) < Rho}

\* Slip: peers that are already caught are exposed again.
FirstLiveStale ==
  {b \in Byz : Cardinality({c \in Byz : c < b}) < Rho + 1}

\* The first floor(rho)+1 Byzantine peers that repHonest has not caught.
FirstLive ==
  LET Live == Byz \ blacklist[RepHonest]
  IN  {b \in Live : Cardinality({c \in Live : c < b}) < Rho + 1}

\* The top of the loop body.  A peer that is neither elected nor exposed
\* returns from its job at once, so it is not waited for.
StartRound ==
  /\ phase = "start"
  /\ \E C \in SUBSET Honest :
       /\ Cardinality(C) >= MinCommittee
       /\ committee' = C
  /\ exposed' = IF Adversary = "drip" THEN FirstLive ELSE Byz
  /\ phase' = "vote"
  /\ todo' = committee' \cup exposed'
  /\ queried' = {} /\ expired' = FALSE
  /\ UNCHANGED <<object, round, storeVars, outputVars, sourceQueries,
                 primaryQueries, envVars>>

\* The context of the round times out: the jobs still running are cut off.
Deadline ==
  /\ phase = "vote" /\ ~expired /\ todo # {}
  /\ overruns < MaxOverruns
  /\ expired' = TRUE /\ overruns' = overruns + 1
  /\ UNCHANGED <<object, round, phase, todo, committee, exposed, queried,
                 storeVars, outputVars, sourceQueries, primaryQueries,
                 faults, errors>>

\* Slip: the query is not recorded as a primary one.
QueryUnrecorded(a) ==
  /\ phase = "vote" /\ a \in (todo \cap Honest) \ queried
  /\ ~expired
  /\ sourceQueries' = [sourceQueries EXCEPT ![a] = @ + 1]
  /\ queried' = queried \cup {a}
  /\ UNCHANGED <<object, round, phase, todo, committee, exposed, expired,
                 storeVars, outputVars, primaryQueries, envVars>>

\* QueryBit of a committee member succeeds.
Query(a) ==
  /\ phase = "vote" /\ a \in (todo \cap Honest) \ queried
  /\ ~expired
  /\ sourceQueries' = [sourceQueries EXCEPT ![a] = @ + 1]
  /\ primaryQueries' = [primaryQueries EXCEPT ![a] = @ + 1]
  /\ queried' = queried \cup {a}
  /\ UNCHANGED <<object, round, phase, todo, committee, exposed, expired,
                 storeVars, outputVars, envVars>>

\* Slip: a query that the deadline has cut off is tried again for ever.
QueryHangs(a) ==
  /\ phase = "vote" /\ a \in (todo \cap Honest) \ queried
  /\ expired /\ UNCHANGED vars

\* Slip: the job of a peer whose query has failed begins anew.
QueryStartsOver(a) ==
  /\ phase = "vote" /\ a \in (todo \cap Honest) \ queried
  /\ \/ expired /\ UNCHANGED <<faults, errors>>
     \/ faults < MaxFaults /\ faults' = faults + 1 /\ UNCHANGED errors
     \/ errors < MaxErrors /\ errors' = errors + 1 /\ UNCHANGED faults
  /\ sourceQueries' = [sourceQueries EXCEPT ![a] = @ + 1]
  /\ UNCHANGED <<object, roundVars, storeVars, outputVars, primaryQueries,
                 overruns>>

\* QueryBit of a committee member fails: the deadline has passed, or its last
\* attempt times out (which errors.Is takes for a missed deadline as well), or
\* it gives up with an error.  The query is in sourceQueries already, and the
\* peer does not vote.
QueryFails(a) ==
  /\ phase = "vote" /\ a \in (todo \cap Honest) \ queried
  /\ \/ expired /\ UNCHANGED <<faults, errors>>
     \/ faults < MaxFaults /\ faults' = faults + 1 /\ UNCHANGED errors
     \/ errors < MaxErrors /\ errors' = errors + 1 /\ UNCHANGED faults
  /\ sourceQueries' = [sourceQueries EXCEPT ![a] = @ + 1]
  /\ todo' = todo \ {a}
  /\ UNCHANGED <<object, round, phase, committee, exposed, queried, expired,
                 storeVars, outputVars, primaryQueries, overruns>>

----------------------------------------------------------------------------
\* What became of one message on its way to one peer: the copies stored and
\* the requests that nobody waits for but may still reach their handler.
Outcome == {o \in [stored : 0 .. Attempts, stray : 0 .. Attempts] :
              o.stored + o.stray <= Attempts}
Once    == [stored |-> 1, stray |-> 0]

Copies(a, value, first, last) ==
  [sender : {a}, round : {round}, value : {value}, copy : first .. last]

\* Slip: the round sealed last is still open.
OpenTooLong(h, r) == r >= sealedRound[h]

\* StoreMessage's guard: the round of the message is not sealed.
Open(h, r) == r > sealedRound[h]

Received(h, msgs) == IF Open(h, round) THEN messages[h] \cup msgs ELSE messages[h]

Strays(a, value, outcome) ==
  UNION {[to : {h}, checked : {FALSE},
          msg : Copies(a, value, outcome[h].stored + 1,
                       outcome[h].stored + outcome[h].stray)] :
         h \in DOMAIN outcome}

\* What a peer votes: honest ones the answer of the source, Byzantine ones
\* the wrong bit, or either bit for the random adversary.
VoteValues(a) == IF a \in Honest THEN {object[round]}
                 ELSE IF Adversary = "random" THEN Bit
                 ELSE {1 - object[round]}

\* Slip: the sender does not keep its own message.
NoOwnCopy(a, value) == {}

\* a.StoreMessage(msg) of the sender, so that its own vote is tallied too.
OwnCopy(a, value) == Copies(a, value, 1, 1)

\* The faults an outcome costs.  A deadline that cuts a broadcast off, which
\* leaves at most one request on its way to each peer, counts as one.
Cost(outcome) ==
  LET odd   == {h \in DOMAIN outcome : outcome[h] # Once}
      twice == {h \in odd : outcome[h].stored + outcome[h].stray > 1}
  IN  IF expired /\ odd # {} THEN 1 + Cardinality(twice) ELSE Cardinality(odd)

\* Broadcast: the message is stored locally and posted to every peer.  When
\* some peer did not acknowledge it, even one that has stored it, the job is
\* missed (the deadline or the last attempt timed out), or it failed for good
\* and the run will be aborted.
Broadcast(a) ==
  /\ phase = "vote" /\ a \in todo \cap (Byz \cup queried)
  /\ \E value \in VoteValues(a), outcome \in [Honest \ {a} -> Outcome] :
       /\ faults + Cost(outcome) <= MaxFaults
       /\ faults' = faults + Cost(outcome)
       /\ \/ UNCHANGED errors
          \/ errors < MaxErrors /\ errors' = errors + 1
       /\ messages' = [h \in Honest |-> Received(h,
            IF h = a THEN OwnCopy(a, value)
                     ELSE Copies(a, value, 1, outcome[h].stored))]
       /\ late' = late \cup Strays(a, value, outcome)
  /\ todo' = todo \ {a}
  /\ UNCHANGED <<object, round, phase, committee, exposed, queried, expired,
                 sealedRound, outputVars, sourceQueries, primaryQueries,
                 overruns>>

\* The handler of a request no sender waits for: first the test of the seal,
\* then, under the lock it takes only now, the append.
CheckSeal(q) ==
  /\ q \in late /\ ~q.checked
  /\ late' = (late \ {q}) \cup
               (IF Open(q.to, q.msg.round) THEN {[q EXCEPT !.checked = TRUE]}
                ELSE {})
  /\ UNCHANGED <<object, roundVars, messages, sealedRound, outputVars,
                 sourceQueries, primaryQueries, envVars>>

\* The append of a request that has passed the test, whatever was sealed since.
AppendLate(q) ==
  /\ q \in late /\ q.checked
  /\ messages' = [messages EXCEPT ![q.to] = @ \cup {q.msg}]
  /\ late' = late \ {q}
  /\ UNCHANGED <<object, roundVars, sealedRound, outputVars, sourceQueries,
                 primaryQueries, envVars>>

----------------------------------------------------------------------------
\* Slip: the error of a decide job is not looked at.
BarrierDeaf ==
  /\ phase \in {"vote", "seal", "decide", "forget"} /\ todo = {}
  /\ phase' = CASE phase = "vote" -> IF errors > 0 THEN "aborted" ELSE "seal"
                [] phase = "seal" -> "decide"
                [] phase = "decide" -> "forget"
                [] phase = "forget" -> IF round + 1 = N THEN "done" ELSE "start"
  /\ todo' = IF phase' \in {"seal", "decide", "forget"} THEN Honest ELSE {}
  /\ round' = IF phase = "forget" THEN round + 1 ELSE round
  /\ UNCHANGED <<object, committee, exposed, queried, expired, storeVars,
                 outputVars, sourceQueries, primaryQueries, envVars>>

\* wg.Wait and the return to the round loop.  A failed job aborts the run.
Barrier ==
  /\ phase \in {"vote", "seal", "decide", "forget"} /\ todo = {}
  /\ phase' = CASE phase \in {"vote", "decide"} /\ errors > 0 -> "aborted"
                [] phase = "vote" /\ errors = 0 -> "seal"
                [] phase = "seal" -> "decide"
                [] phase = "decide" /\ errors = 0 -> "forget"
                [] phase = "forget" -> IF round + 1 = N THEN "done" ELSE "start"
  /\ todo' = IF phase' \in {"seal", "decide", "forget"} THEN Honest ELSE {}
  /\ round' = IF phase = "forget" THEN round + 1 ELSE round
  /\ UNCHANGED <<object, committee, exposed, queried, expired, storeVars,
                 outputVars, sourceQueries, primaryQueries, envVars>>

\* The loops over env.agents go in the order of the ids.
NextInLine(a) == a \in todo /\ \A b \in todo : a <= b

\* Slip: the round that has not begun yet is sealed as well.
SealAhead(a) ==
  /\ phase = "seal" /\ NextInLine(a)
  /\ sealedRound' = [sealedRound EXCEPT ![a] = round + 1]
  /\ todo' = todo \ {a}
  /\ UNCHANGED <<object, round, phase, committee, exposed, queried, expired,
                 messages, late, outputVars, sourceQueries, primaryQueries,
                 envVars>>

\* SealRound: the window of this round, and of the earlier ones, is closed.
Seal(a) ==
  /\ phase = "seal" /\ NextInLine(a)
  /\ sealedRound' = [sealedRound EXCEPT ![a] = IF round <= @ THEN @ ELSE round]
  /\ todo' = todo \ {a}
  /\ UNCHANGED <<object, round, phase, committee, exposed, queried, expired,
                 messages, late, outputVars, sourceQueries, primaryQueries,
                 envVars>>

\* Slip: the previous round is freed instead of this one.
ForgetPrevious(a) ==
  /\ phase = "forget" /\ NextInLine(a)
  /\ messages' = [messages EXCEPT ![a] = {m \in @ : m.round # round - 1}]
  /\ todo' = todo \ {a}
  /\ UNCHANGED <<object, round, phase, committee, exposed, queried, expired,
                 sealedRound, late, outputVars, sourceQueries, primaryQueries,
                 envVars>>

\* ForgetRound: the votes of this round are freed.
Forget(a) ==
  /\ phase = "forget" /\ NextInLine(a)
  /\ messages' = [messages EXCEPT ![a] = {m \in @ : m.round # round}]
  /\ todo' = todo \ {a}
  /\ UNCHANGED <<object, round, phase, committee, exposed, queried, expired,
                 sealedRound, late, outputVars, sourceQueries, primaryQueries,
                 envVars>>

\* Messages(bit, 0): the snapshot of the round's votes decideBit works on.
RoundVotes(a) == {m \in messages[a] : m.round = round}

Conflicted(a) == Conflict(RoundVotes(a), blacklist[a], Rho)
NeedsSource(a) == Conflicted(a) \/ Silence(RoundVotes(a), blacklist[a])

\* decideBit without the source: the majority of the trusted votes.
DecideByMajority(a) ==
  /\ phase = "decide" /\ a \in todo /\ ~NeedsSource(a)
  /\ bits' = [bits EXCEPT ![a][round] = Majority(RoundVotes(a), blacklist[a])]
  /\ todo' = todo \ {a}
  /\ UNCHANGED <<object, round, phase, committee, exposed, queried, expired,
                 storeVars, blacklist, verifyQueries, conflicts,
                 sourceQueries, primaryQueries, envVars>>

\* decideBit with the source: a conflict, or no vote at all.
DecideAtSource(a) ==
  /\ phase = "decide" /\ a \in todo /\ NeedsSource(a)
  /\ sourceQueries' = [sourceQueries EXCEPT ![a] = @ + 1]
  /\ verifyQueries' = [verifyQueries EXCEPT ![a] = @ + 1]
  /\ bits' = [bits EXCEPT ![a][round] = object[round]]
  /\ blacklist' = [blacklist EXCEPT ![a] = @ \cup
       (IF Conflicted(a) THEN Losers(RoundVotes(a), @, object[round]) ELSE {})]
  /\ conflicts' = [conflicts EXCEPT ![a] = IF Conflicted(a) THEN @ + 1 ELSE @]
  /\ todo' = todo \ {a}
  /\ UNCHANGED <<object, round, phase, committee, exposed, queried, expired,
                 storeVars, primaryQueries, envVars>>

\* decideBit returns the error of its QueryBit; the bit stays missing.
DecideFails(a) ==
  /\ phase = "decide" /\ a \in todo /\ NeedsSource(a)
  /\ errors < MaxErrors /\ errors' = errors + 1
  /\ sourceQueries' = [sourceQueries EXCEPT ![a] = @ + 1]
  /\ todo' = todo \ {a}
  /\ UNCHANGED <<object, round, phase, committee, exposed, queried, expired,
                 storeVars, outputVars, primaryQueries, faults, overruns>>

Over == phase \in {"done", "aborted"}

----------------------------------------------------------------------------
VoteStep(a)   == Query(a) \/ QueryFails(a) \/ Broadcast(a)
DecideStep(a) == DecideByMajority(a) \/ DecideAtSource(a) \/ DecideFails(a)
PeerStep(a)   == VoteStep(a) \/ Seal(a) \/ DecideStep(a) \/ Forget(a)
Program       == StartRound \/ Barrier \/ \E a \in Peers : PeerStep(a)
Handlers      == \E q \in late : CheckSeal(q) \/ AppendLate(q)
Terminated    == Over /\ UNCHANGED vars

Next == Program \/ Deadline \/ Handlers \/ Terminated

Spec == Init /\ [][Next]_vars

\* Every job ends: each request has a timeout and at most five attempts, and
\* the Go scheduler runs every goroutine.  Nothing makes a late request arrive.
FairSpec == Spec /\ WF_vars(Program)

----------------------------------------------------------------------------
(* Safety *)

\* decideBit blacklists the senders on the losing side of a conflict: no
\* honest peer is ever among them, however requests are lost, repeated, late.
HonestNeverBlacklisted == \A a \in Honest : blacklist[a] \subseteq Byz

HonestVotes(a) == {m \in RoundVotes(a) : m.sender \in Honest}
Decides(a)     == bits[a][round] = NoBit /\ bits'[a][round] # NoBit

\* The lemma Algorithm 2 rests on: a peer that holds more than rho votes of
\* honest peers decides the true bit, whatever else it was sent.
RepresentativeDecidesTruth ==
  [][\A a \in Honest :
       (phase = "decide" /\ Decides(a) /\ Cardinality(HonestVotes(a)) > Rho)
         => bits'[a][round] = object[round]]_vars

\* "all honest agents blacklist the same liars, so any one of them is
\* representative" (runBlacklistScenario): true between rounds, and of the
\* decided bits too, as long as every message was stored exactly once.
SyncAgreement ==
  (faults = 0 /\ phase = "start") =>
    \A a, b \in Honest : blacklist[a] = blacklist[b] /\ bits[a] = bits[b]

\* Every conflict a peer takes to the source costs the adversary more than
\* rho peers, the bound beta*k/rho of README.md, but for the votes a retry has
\* repeated, of which a fault brings at most Attempts - 1.
ConflictsPaid ==
  \A a \in Honest :
    conflicts[a] * (Rho + 1) <= Cardinality(blacklist[a])
                                  + (Attempts - 1) * faults

\* The rounds a peer decided without its committee: wrong bits, and rounds in
\* which nobody it trusts was heard.
Unheard(a) ==
  Cardinality({r \in Rounds : bits[a][r] \notin {NoBit, object[r]}})
    + verifyQueries[a] - conflicts[a]

\* With committees of MinCommittee > rho peers, it takes MinCommittee - rho lost
\* votes, or a round that overran its deadline, to make a peer decide without
\* its committee: neither the adversary nor one lost request can do it alone.
UnheardIsPaid ==
  LET spare == MinCommittee - Rho
  IN  spare > 0 =>
        \A a \in Honest : Unheard(a) * spare <= faults + overruns * spare

\* The line "Q = committee + conflict" of PrintResults: what it misses are the
\* queries that failed, which QueryBit counts before it asks.  A peer has at
\* most one for each request that timed out or gave up and each round that
\* overran, and none in a run that nothing has cut into.
QueryLedger ==
  \A a \in Honest :
    sourceQueries[a] - primaryQueries[a] - verifyQueries[a]
      \in 0 .. faults + overruns + errors

\* A run that reports results has every bit at every honest peer: Reconstruct
\* is never nil and MissingBits stays 0.
CompleteAtEnd ==
  phase = "done" => \A a \in Honest, r \in Rounds : bits[a][r] # NoBit

\* What a peer queries besides its own turns in the committee, in a run that
\* nothing has cut into: at most |Byz| / (rho+1) conflicts, however many bits
\* are downloaded.
QueryComplexity ==
  (MinCommittee > Rho /\ faults = 0 /\ overruns = 0 /\ errors = 0) =>
    \A a \in Honest :
      (sourceQueries[a] - primaryQueries[a]) * (Rho + 1) <= Cardinality(Byz)

\* ForgetRound keeps the store to one round, but for requests that outlive the
\* barrier of their round: each fault leaves at most Attempts votes behind.
LeaksArePaid ==
  phase \in {"start", "done"} =>
    \A a \in Honest : Cardinality(messages[a]) <= Attempts * faults

\* The votes a peer has accepted: those stored, and those whose handler has
\* passed the test of the seal and will append them.
Window(a) == messages[a] \cup {q.msg : q \in {p \in late : p.to = a /\ p.checked}}

\* SealRound closes the window peer after peer, while handlers still run: once
\* a peer has sealed a round, no vote of it, or of an earlier one, is accepted
\* there any more, be it late, repeated, or let in by a peer sealed later.
WindowIsClosed ==
  [][\A a \in Honest :
       {m \in Window(a)' : m.round <= sealedRound[a]} \subseteq Window(a)]_vars

----------------------------------------------------------------------------
(* The drip adversary *)

\* It exposes just enough peers "to trip the conflict test and force every
\* honest agent to spend a source query", once the committee is large enough.
DripForcesConflict ==
  [][\A a \in Honest :
       (/\ Adversary = "drip" /\ faults = 0 /\ overruns = 0
        /\ Cardinality(committee) > Rho
        /\ Cardinality(Byz \ blacklist[RepHonest]) > Rho
        /\ phase = "seal" /\ phase' = "decide")
         => Conflicted(a)']_vars

\* "Once blacklisted, a Byzantine peer is silent for the remainder of the
\* run" (README.md): no vote of this round is from a peer that repHonest has
\* caught, at any peer and whatever the network does.  A vote of a peer that
\* only the receiver has caught, the adversary's view being another one, takes
\* a message that was lost, late or repeated.
CaughtAreSilent ==
  (Adversary = "drip" /\ phase \in {"vote", "seal"}) =>
    \A a \in Honest : \A m \in RoundVotes(a) :
      /\ m.sender \notin blacklist[RepHonest]
      /\ m.sender \in blacklist[a] => faults > 0

----------------------------------------------------------------------------
(* Liveness *)

\* The jobs of the run, in the order of their stages: for each round its start,
\* the query and the job of each peer in each phase, and the barriers, which
\* stand here as jobs of peer K.
Stages == <<"start", "query", "vote", "seal", "decide", "forget">>
Jobs   == [round : Rounds, stage : DOMAIN Stages, peer : 0 .. K]

\* The jobs that are not done yet.
JobsLeft ==
  {j \in Jobs :
     /\ ~Over
     /\ \/ j.round > round
        \/ j.round = round /\ \E i \in 1 .. j.stage-1 : Stages[i] = phase
        \/ j.round = round /\ Stages[j.stage] = phase /\ j.peer \in todo \cup {K}
        \/ j.round = round /\ Stages[j.stage] = "query" /\ phase = "vote"
             /\ j.peer \in todo \ queried}

\* The safety half of Terminates: each step of the program does one of the jobs
\* that are left, and no deadline, retry or late handler brings one back.
EveryStepCounts ==
  [][JobsLeft' \subseteq JobsLeft /\ (Program => JobsLeft' # JobsLeft)]_vars

\* The run comes to its end or reports an error: no barrier waits forever.
Terminates == <>(phase = "done" \/ (phase = "aborted" /\ errors > 0))
=============================================================================
