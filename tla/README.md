# Verification of Blacklist_Download

TLA+ models, TLC runs and TLAPS proofs for the simulation of Algorithm 2
(*Blacklist_Download*) in this repository. K agents, each a real HTTP server,
download the N bits of a trusted source. Some of them are Byzantine: they
broadcast wrong bits. Paths below are relative to the repository.

## 1. Inventory

| Component | Code | State | Operations | Talks to |
|---|---|---|---|---|
| Round loop | `sim/algo_blacklist.go` `runBlacklistScenario` | `bit`, `exposed`, `repHonest` | vote / seal / decide / forget of every round, adversary, aggregation | all the others, by direct calls |
| Decision | `decideBit`, `byzantineVote` | none | tally, conflict test, source query, blacklisting, majority | agent state, source |
| Message store | `agent/message.go`, `/message` handler of `agent/server.go` | `messages[round][topic]`, `sealedRound` | `StoreMessage`, `SealRound`, `Messages`, `ForgetRound` | written by HTTP handlers, read by the round loop |
| Client | `agent/client.go` | retry counters, semaphore of 16, `messagesSent` | `QueryBit`, `Broadcast`, `post`, `get` | source and peers over HTTP |
| Agent state | `agent/agent.go`, `blacklist.go` | `bits`, `blacklist`, counters | `StoreBit`, `Blacklist`, `Record…Query`, `Reconstruct` | `decideBit`, reports |
| Committee coin | `agent/committee.go` | seed | `InCommittee`, `CommitteeProbability` | round loop |
| Source | `source/source.go` | immutable bits, `queryCount` | `GetBit`, `/bit` handler | `QueryBit` |
| Round runner | `sim/sim.go` `runRoundJobs`, `runAgentJobs` | semaphore, `missed`, error channel | one goroutine per peer, deadline, barrier | round loop |
| Scenario | `sim/scenario.go`, `Run` and `RunBenchmarks` of `sim/sim.go` | servers, listeners, ratios done | open servers, measure, cleanup, next ratio | everything; ports of the machine |
| Results | end of `runBlacklistScenario`, `sim/metrics.go` | the CSV file | aggregation, `PrintResults`, `AppendCSV` | agent counters, disk |
| Grid generator | `cmd/gridgen/main.go` | the grid file | predicts c Byzantine peers, writes beta | grid runner, by the file |
| Grid runner | `scripts/run_grid_multiseed.py` | pool of port slots, threads | `run_task` | starts processes of the binary |
| Trace, demo | `sim/trace.go`, `sim/demo.go` | — | printing | the first honest agent |

What is hard: every request of a broadcast is a goroutine and an HTTP handler
of its own. The client gives up on a request (its own timeout, or the deadline
of the round) while the handler still runs, so a vote may be stored twice, or
stored after the round was sealed, tallied and freed; the source counts queries
nobody waits for. The deadline cuts a broadcast off between two peers. The
decision of a peer is final, its blacklist permanent, and the adversary and the
reports treat the blacklist of one honest peer as everybody's. Around the
protocol, a listener may outlive its server, processes share the ports of one
machine without asking each other, and a failed write is found too late.
`PROJECT.json` lists these hazards at their lines, with the properties that
cover each.

What makes the components correct:

* decision: an honest peer is never blacklisted; more than rho honest votes at
  a peer decide the true bit; a conflict costs the adversary more than rho peers;
  a wrong bit costs as many lost votes as the committee has above rho;
* round loop: honest peers agree between rounds if the network is clean, a
  finished run has every bit at every honest peer, it always ends;
* store: no vote that was acknowledged before the seal is lost, what survives
  `ForgetRound` is bounded by the faults there were, the seal never goes back;
* client: a vote is what the source answered; success means that every peer has
  the message; at most five tries;
* runner: the barrier waits for every job and is always reached;
* scenario: servers are shut down on every path, ports do not collide;
* results: the four numbers of the Q decomposition belong together, a file has
  all ratios of a process or none;
* grid: what runs is what was predicted, no slot is lost or shared.

## 2. Modules

| Module | Models | Run as |
|---|---|---|
| `Votes` | the pure part of `decideBit` | part of the next one |
| `BlacklistDownload` | round loop, decision, store, seal, deadline, late handlers, adversaries | `fair`, and the next ones |
| `Download` | abstract specification: what the algorithm promises | property of the next one |
| `BlacklistRefinement` | `BlacklistDownload` implements `Download` | `drip`, and the next but one |
| `RoundView` | `BlacklistDownload` with what the trace and the demo print of a round | `demo_tells_the_decision`, and the next one |
| `MCLossy` | the two above together, over a lossy network | `lossy_network` |
| `Results` | what is reported of a run: aggregation, decomposition, success rate | `clean_network` |
| `DocClaims` | sentences of README and comments the code refutes | two violation runs |
| `PeerBroadcast` | one `Broadcast`, request by request | part of the next one |
| `PeerJob` | the whole job of a committee member: `QueryBit`, `get`, the `/bit` handler, then the broadcast | `peer_job` |
| `Delivery` | abstract specification: a broadcast as one step | property of `peer_job` |
| `RoundJobs` | one `runRoundJobs` or `runAgentJobs`, goroutine by goroutine | `round_jobs` |
| `JobBarrier` | abstract specification: a phase of single-step jobs | property of `round_jobs` |
| `Grid` | a Byzantine count on its way through six decimals and a second floor | part of the next one |
| `Campaign` | grid, runner, processes, servers, ports and CSV files of an experiment | by `MCCampaign` |
| `MCCampaign` | small campaigns | `campaign`, `port_isolation`, `rows_on_disk` |
| `BlacklistDownloadProofs`, `RoundLoopProofs`, `FaultBudgetProofs`, `BlacklistRefinementProofs`, `ResultsProofs` | theorems about the round loop, what faults can do to it, its refinement, its views and reports | TLAPS |
| `PeerJobProofs`, `RoundJobsProofs`, `CampaignProofs` | theorems about the other components, `PeerBroadcast` with `PeerJob` | TLAPS |

The layers fit together by refinement. `BlacklistDownload` takes a broadcast for
one step and a phase for a set of single-step jobs; `PeerJob` and `RoundJobs` are
the code of `client.go` and `sim.go` at the grain of requests and goroutines, and
are shown to implement `Delivery` and `JobBarrier`, which state exactly these two
assumptions. `Download` is what the whole promises. `Campaign` takes a whole
benchmark for one step, which `Terminates` justifies.

### BlacklistDownload against the code

* `phase`, `round`, `todo`: where the loop of `runBlacklistScenario` is and
  whose job (or whose turn in a sequential loop) is still open. `Barrier` is
  `wg.Wait` plus the error check; a failed job leads to `"aborted"`.
* `committee` is the set of honest peers whose private coin came up. The coin
  is pseudo-random, so every set with at least `MinCommittee` members is
  possible. `exposed` is the set the adversary lets vote; for `drip` it is the
  first floor(rho)+1 peers `repHonest` has not blacklisted.
* `Query` and `QueryFails` are `QueryBit` in the vote phase. The counter is
  incremented on both; `primaryQueries` and the right to vote on the first only.
  A failure is a missed deadline, a last attempt that times out (the error of
  an `http.Client` timeout is `context.DeadlineExceeded` for `errors.Is`, so
  `runRoundJobs` takes it for a missed deadline too), or a hard error that
  aborts the run.
* `Broadcast(a)` is one step. Its `outcome` says for each honest peer how many
  copies of the message were stored and how many requests are still on their way
  when the sender gives them up. `OwnCopy` is the sender's own `StoreMessage`.
  The order of the requests of one broadcast does not matter, because nothing
  reads the stores before the barrier.
* `CheckSeal` and `AppendLate` are the two halves of `StoreMessage` for such
  late requests: the seal is tested before the lock is taken. They may run in
  any phase, between any two steps.
* `Seal`, `Forget`: one peer after the other, in the order of the loop.
* `DecideByMajority`, `DecideAtSource`, `DecideFails`: the three ways through
  `decideBit`. The tally uses `Votes`; a vote is a record with a `copy` number,
  so a set of records counts a repeated vote twice, as the slice of the code does.
* rho is a float64. Only `float64(min(s0,s1)) > rho` and `floor(rho)+1` use it,
  so the constant `Rho` is its floor.
* A decide job whose request times out fails the run: `runAgentJobs` has no
  deadline to forgive it (`DecideFails`, which needs an error of the budget).
* Only honest peers are receivers, because nothing reads the store of a
  Byzantine agent. Byzantine peers never equivocate in this code: a broadcast
  carries one value for everybody.

### PeerBroadcast against the code

* `Spawn` is `sem <- struct{}{}` and the `go` statement; the goroutine gives the
  slot back when it ends (`Running` counts them). `Attempt`, `GiveUp`, `Backoff` are
  the three places of the loop in `post`; `Ack` is the 200 of the handler, which
  the handler sends whether or not `StoreMessage` kept the message.
* `request[t][i]` is what became of attempt i for target t. `Check` and `Append` are
  the two halves of `StoreMessage`. They need not happen, and may happen after
  the client has given the request up, after `Return`, and around `Seal`.
* A failed request is `"missed"` if its error is `context.DeadlineExceeded` for
  `errors.Is` (the deadline and the timeout of the client), else `"error"`. `firstErr`
  is the head of `errCh`.

### PeerJob against the code

* `stage` is where `QueryBit` is. `Begin` counts the query before anything is sent;
  `Delay` is the select on the artificial delay; `Ask`, `AskFails` and `AskAgain` are
  the three places of the loop in `get`; `Answer` reads the body, whose failure is
  not tried again. When the query is answered, `PeerBroadcast` goes on.
* `Serve` is the `/bit` handler: it counts every request that arrives, also one that
  the client has given up (`given`). It may never run.
* The deadline is the one of `PeerBroadcast`: one context for the whole job.

### RoundJobs against the code

* `timed` tells `runRoundJobs` from `runAgentJobs`, which differ in `IsMissed` only.
  `LoopChecks` is the look at the context, `Start` the wait for a slot and the `go`
  statement: the context may be cancelled between the two.
* What a job does is open: it succeeds, or returns one of the three kinds of
  error the code distinguishes. `main` passes a context that is never cancelled;
  `RunBenchmarks` is exported and takes any, so `Cancel` is modelled.

### RoundView against the code

* `before` is `preBlacklist`, copied after the last seal; its two counters are history
  variables to compare with. `Show` is `printRoundTrace` and `printRoundDemo`: both
  results are kept, although one run prints only one of them.
* The trace counts messages like `decideBit`; the demo puts them into a map
  by sender first (`OnePerSender`).
* The code states the rule of `decideBit` three times, each copy equal to the
  others; here `Votes` states it once. What the three can differ in are the votes they
  are applied to and the blacklist they leave out: `tallied` keeps, as history, the votes
  `decideBit` worked on, `shown` those that were read again.

### Results against the code

* The operators are the variables of the loop over the agents at the end of
  `runBlacklistScenario`. They are read when the run is `"done"`: `Terminated` keeps
  the state, as the program does while it reports.
* The code keeps the counters of the first peer with strictly more queries than
  all before it, which is `MaxAgent`; `MaxBlacklistSize` is a maximum of its own.

### Campaign against the code

* A process is `Run`: `Bind` is one `net.Listen`, in the order source, agents;
  `Measure` is a benchmark that ends and its `cleanup`; `MeasureFails` and `Refused` are
  the error paths, on which `RunBenchmarks` throws the results of the ratios before
  away. A process that ends, ends its listeners.
* `Shutdown` closes the listeners its server knows of, and `Serve`, a goroutine of
  its own, may register the listener only later: `Measure` leaves a set of ports
  `unseen`, which `CloseLate` frees at any time.
* `portOffset` is the scenario number times agents + 32, and a scenario uses agents + 1
  ports. `Gap` stands for the 32, so `Gap - 1` ports stay free between two scenarios, 31
  in the code. Callers that pass a base port other
  than the source port plus one do not exist in this repository.
* `Report` is `AppendCSV`: the header goes into an empty file only; a `csv.Writer`
  writes when its buffer is full and at the deferred `Flush`, after `writer.Error()`
  was asked. A failed write leaves a prefix of the lines, and is `Noticed` if there
  was a later one before the question.
* A thread of the runner is `run_task`: `Take`, `Launch` or `Raise` (no log file),
  `Reap`. `subprocess.run` returns for every exit code, so every way ends in `PutBack`.
* `Decimals` and `Floor` are `FormatFloat(c/k, 'f', 6, 64)` and `int(math.Floor(ratio * k))` in
  integers; where the last bit of the float decides, both results are possible.
* A process that is refused at once by `validateOptions` stands for every rejected
  row; its number of agents stands for all that is validated.

## 3. Runs

All runs are exhaustive.

| Run | Instance | Shows |
|---|---|---|
| `lossy_network` | 5 peers, 3 Byzantine under drip, rho 1, 2 rounds, one network fault, one overrun, 2 tries | types; no honest peer is blamed; more than rho honest votes decide truth; a sealed round takes no vote; what faults leave in the stores; who is caught is silent; what the trace tells; the round loop implements `Download` |
| `clean_network` | 5 peers, 2 random voters, rho 1, 2 rounds, one overrun, one hard error | agreement of honest peers, completeness; the decomposition is one peer's and the success rate 0 or 1 |
| `drip` | 7 peers, 4 Byzantine, rho 1, 3 rounds, committees of 2 or 3 | the exposed peers force a conflict at every honest peer; a peer verifies at most 4/2 rounds; implements the reliable `Download` |
| `fair` | 3 peers, 1 colluding, rho 1, honest committees of 2, 2 rounds, one fault, one overrun, one error, 2 tries, `FairSpec` | each step does a job for good, the run ends; what conflicts cost the adversary, what it takes to make a peer decide without its committee, and how many queries fail |
| `peer_job` | query, then 2 targets, 1 slot, 3 tries | only what the source answered is voted, query counters are tied, nil means stored everywhere before any seal, M counts only peers that have the message, the job is one step of `Delivery`, each of its steps counts, it returns |
| `round_jobs` | 4 agents, 2 slots | nil means every agent had its turn, no error but a missed deadline is forgiven, one call is one phase, each step counts, it returns |
| `campaign` | 3 rows (one rejected) on 2 slots, a process by hand with 2 ratios, one fault, one torn write, one late listener | ports never collide, slots are conserved, a file holds the first lines of its report, all or none unless a write is torn, the predicted Byzantine count or one less runs, each step counts, the campaign ends |
| `memory_is_one_round` | 3 peers, one fault | violation: a late append outlives `ForgetRound` |
| `representative_blacklist` | 3 peers, drip | violation: two honest peers with different blacklists |
| `demo_tells_the_decision` | 4 peers, 2 tries, all honest peers elected | violation: the demo shows an accepted majority where the agent found a conflict |
| `port_isolation` | a row with more ports than a slot has | violation: two rows collide |
| `rows_on_disk` | rows that fit into the buffer, one torn write | violation: exit code 0 without the rows |

Bounds and why they are enough. Two rounds show what a round leaves to the
next one (blacklist, leaked votes, seal); three rounds let `drip` use up its
four peers two by two and then be silent. With rho 0 or 1 the instances have
committees below, at and above the threshold, rounds without any vote, ties,
and Byzantine majorities. `MaxFaults` bounds the peers a broadcast reaches in an
odd way (not at all, later, more than once); a broadcast that the deadline cuts
off costs one. One fault is enough to make two honest peers see different votes;
in `fair` it takes the vote that puts a committee of two above rho, or repeats that of the liar.
`Attempts` is 5 in the code; 2 already gives a repeated vote. `MaxOverruns` and `MaxErrors` bound deadlines and hard errors;
a hard error ends the run, so one is all there ever is before the abort of its
phase. In `peer_job` one slot makes the second peer wait for the end of the
retries of the first; three tries (five in the code) leave two requests on their way to a peer or to the source.
In `round_jobs` two slots for four agents let failed, missed and running
jobs hold and free slots while others wait. In `campaign` three rows on two
slots make one task wait and get the slot of another; beta is rounded down in
one row and up in another; the two ratios by hand are the least for which an
error in the second can lose the first, and their ports touch (`Gap` is 1, which leaves
no port free, where the code has 32, which leaves 31). `PortStride` is 4 for the code's 200 and `PortBase` 7, so that the spans just
fit; `Buffer` is two lines, which the header and two rows overflow and one row does
not; row 1 appends to the file of an earlier run (`Reused`), the others start theirs. `MaxFaults`, `MaxTorn` and `MaxDelays` are one each: two faults in different
processes do not meet, as processes share ports only.

Properties that speak of a clean network (`SyncAgreement`, `QueryComplexity`,
`DripForcesConflict`, `DecompositionIsOnePeer`, `AllOrNothing`) carry the condition in their text, on the
fault counters; `representative_blacklist` shows what a single fault does to agreement. The others
hold in every run and charge the faults for what they do. A conflict is paid by
blacklisted peers, except for repeated votes, of which a fault brings `Attempts - 1`
(`ConflictsPaid`); a vote that outlives its round, by a fault, which leaves at most `Attempts`
(`LeaksArePaid`); a round decided without its committee, by `MinCommittee - Rho` faults or by an
overrun (`UnheardIsPaid`); a failed query, by a fault, an overrun or an error (`QueryLedger`); a
vote at a peer that has caught its sender (`CaughtAreSilent`), a trace that reads other votes than
`decideBit` and a demo that differs from the trace (`ViewsTellTheDecision`), by a fault. The run `fair`
reaches the bound of `ConflictsPaid` and of `UnheardIsPaid`.
Deadlock is not checked where the system stops when it is done: `peer_job`, `round_jobs`
and the campaign runs.

Fairness: `FairSpec` asks for weak fairness of the program's own steps only
(round loop, jobs, barrier). The code justifies it: every request has a timeout
and at most five tries, and the runtime schedules every goroutine. The
deadline and the handlers of late requests are not fair: they may never happen.
In `PeerJob` the client is fair and the handlers of the source and of the peers
are not; in `RoundJobs` the call and its jobs are fair and the caller is not. In
`Campaign` the runner's threads and the processes are fair, for the operating
system schedules them and a benchmark ends (`Terminates`); nobody has to start the
process by hand, and a late listener may never be closed.

## 4. Proofs

Every safety property of the passing runs is a theorem, and so are the three
refinements; liveness is left to TLC.

`BlacklistDownloadProofs` holds theorems about `Spec` for every K, N, Byzantine set
(other than all peers), rho, adversary and fault budget. They assume only
`ParametersAssumption` and `BoundsAssumption`, which `validateOptions` and the
clamp of `byzantineCount` in `newScenarioEnv` guarantee.

* `TypeCorrect`: `Spec => []TypeOK`.
* `BlameCorrect`: `Spec => []HonestNeverBlacklisted`. This is not inductive: a peer
  is blamed for a vote that was stored long before. `Inv` adds `HonestVotesTrue`,
  that each honest vote, in a store or still on its way, carries the bit of the
  source, which a broadcast establishes (`BroadcastIsTruthful`) and which makes the
  losers of a conflict Byzantine (`BlameIsJust`).
* `DecisionCorrect`: `Spec => RepresentativeDecidesTruth`. Honest votes are trusted
  because honest peers are never blacklisted, so the true side has more than rho
  votes; without a conflict the other side has at most rho (`MajorityIsTrue`).
* `WindowCorrect`: `Spec => WindowIsClosed`. A vote is accepted when its handler passes the
  test of the seal, not when it is appended; a step that accepts one leaves it in the
  store or with such a handler, and both ways in ask for a later round than the
  sealed one (`WindowStep`).

`RoundLoopProofs`, about the same `Spec`, builds one invariant (`RoundInv`) out of four parts:
`Progress` (an error aborts at the barrier of its phase; the bits of the rounds behind
are there), `Fresh` (without a fault nothing is on its way and stores hold this
round only, so the stores are empty between rounds), `SealsInOrder` (no store is
ahead of the round, so every store is open for its votes), and `Agreeing` (without a fault all
stores are equal while it matters, and a peer that has decided is where
`decideBit` will take each of the others, `Ahead`). From it:

* `CompleteCorrect` (`CompleteAtEnd`) and `AgreementCorrect` (`SyncAgreement`), the sentence "any one of them is representative"
  with the condition it needs.
* `LedgerCorrect` (`QueryLedger`): `Counters`, that the queries of a peer which are in no
  printed part (`Wasted`) are at most the faults, overruns and errors so far. A query
  the deadline will cut off is charged as soon as the deadline passes (`Doomed`): the
  overrun is one, and every peer that has not asked yet may lose its query to it.
* `DripCorrect` (`DripForcesConflict`): in a smooth round each elected and each exposed
  peer is heard everywhere (`Dripping`); `FirstLiveIsEnough` shows, by a least element, that
  the exposed peers are more than rho.
* `StepsCount` (`EveryStepCounts`): the jobs of a run are a finite set (`JobsFinite`: a round, a
  stage, a peer or the barrier), each step of `Program` takes one out of those that are left
  (`ProgramCounts`), and no other step puts one in. `StepsAreBounded` draws the
  conclusion: the number of jobs left falls with every step of the program.

`FaultBudgetProofs`, about the same `Spec`, proves what faults can do, and no more than
that. Each invariant is an account per peer that every action must balance:

* `LeakCorrect` (`LeaksArePaid`): `FewAstray`, that the votes which `ForgetRound` will not free, in
  the store or on their way, are at most `Attempts` for each fault. A broadcast pays for the
  strays of its outcome; after that they only move from `late` to the store.
* `ConflictsCorrect` (`ConflictsPaid`): `Paid`, that conflicts times rho+1, plus the further copies
  that may still turn the tally (`Extra`), are at most the blacklist plus
  `(Attempts - 1) * faults`. When a conflict is decided, the copies become part of its price, and no
  vote is ever about a round to come (`NoFuture`), so that the next tally pays for its own.
* `BudgetCorrect`: the bound on conflicts, the `βk/ρ` of README.md, with that correction.
* `UnheardCorrect` (`UnheardIsPaid`): `Settled`, that `Spare` (`MinCommittee - Rho`) for each round decided
  wrongly or unheard, plus the members of the present committee this peer has missed
  (`Charge`), are at most faults plus `Spare` for each overrun. A peer that has missed fewer
  than `Spare` members holds more than rho honest votes, and `DecisionCorrect`'s argument applies.
* `CaughtCorrect` (`CaughtAreSilent`): a vote of the present round is of an honest or an exposed
  peer, in a store or still on its way (`OnlyExposed`, which rests on `NoFuture`), and the
  representative has caught none of these, whatever was lost. For the other peers the
  agreement of `RoundLoopProofs` closes the case without a fault.
* `QueryCorrect` (`QueryComplexity`): in a run that nothing cuts into, `UnheardIsPaid` leaves conflicts
  as the only reason to ask, `QueryLedger` counts the questions, and `ConflictsPaid` bounds them.

`BlacklistRefinementProofs`: `RefinementCorrect`, `Spec => ImplementsDownload`. A decision is
a `Learn` step, everything else a stutter. It needs that the bit was missing
before (`Unlearned`) and, where `Download` promises reliability, that the votes of a
committee of more than rho are in every store (`Represented`).

`ResultsProofs`: `AllOrNothingCorrect` and `DecompositionCorrect`, about `Spec`, read `RoundInv` in the last
state. `ViewsCorrect` (`ViewsTellTheDecision`), about `ViewSpec`, needs `Looking`: the copy of the blacklist is the
one the decision starts from, and the votes it was made from stay in the store
(`Decided`, `ToldStays`) until it is printed, whatever is appended to them. `Clear` adds that
without a fault nothing is appended and no vote is stored twice.

`PeerJobProofs`, for any number of targets, slots and attempts, first about `PeerBroadcast`:

* `NilCorrect`: `Spec => []NilMeansStored`, and `OneStepCorrect`: `Spec => IsOneStep`. The
  invariant says that a goroutine has tries left or an error to return
  (`TriesCounted`), that the call returns after all of them (`Order`), that nobody
  seals, so that no request is dropped, before that (`SealLast`), and what the
  end of a goroutine means (`Verdicts`). When the call returns, the copies and
  stray requests of each target add up to at most its tries (`ReturnDelivers`);
  afterwards each handler is an `Arrive` step (`StrayIsArrival`).
* `SentCorrect` (`SentIsReceived`) and `TypeCorrect`: the section `Counted` ties M to the
  targets that acknowledged, and the running goroutines to the slots.

The second half carries these over to the whole job: until the query is answered
nothing of the broadcast has happened, afterwards every step is one of
`PeerBroadcast` or leaves it alone (`Broadcasts`), and a job that quits has sent nothing
(`Quit`). So `JobTypesCorrect`, `JobNilCorrect`, `JobSentCorrect` and `JobIsOneStep` follow from
the invariants above; `QueriesCorrect` (`QueriesAreSeen`) counts requests made, given up,
served and outstanding. `StepsCount` (`EveryStepCounts`): the query, the post of each target and the
loop of `Broadcast` have a number of steps left each; both retry loops have the shape
of `LoopFalls`, three steps for an attempt.

`RoundJobsProofs`, for any number of agents and slots:

* `AllRan`, `NoErrorSwallowed` and `PhaseCorrect`: `Spec => []NilMeansAll`,
  `Spec => []ErrorsSurface`, `Spec => IsBarrier`. The invariant relates the loop to the
  jobs it has started (`Order`), the jobs to what they returned (`Errors`), and both
  to the counter and the channel (`Reports`): errCh has an error if and only if
  some job failed, and the result is nil only if it is empty and the context
  was alive at the end.

`TypeCorrect` there bounds the running goroutines by the slots. `StepsCount`: a call is over after
`4 * Last + 2` steps of its own and of its jobs, however they end.

`CampaignProofs`, for every grid, pool and number of ratios, from the three named
assumptions of `Campaign`. The inductive invariant is `TypeOK /\ Progress /\ Launched /\
SlotBySlot /\ Within`: what a process has done agrees with where it is, a process of a
row was started by its thread once, and a process listens within its span on
ports it has opened.

* `SlotsCorrect` (`SlotsConserved`), `TypeCorrect`.
* `PortsCorrect`: `Fits => (Spec => []PortsIsolated)`. `Fits` says that the scenarios of each
  process fit into its share; then shares of live processes never meet
  (`SharesApart`), and a late listener belongs to an earlier scenario of its own. It is
  exactly what the run `port_isolation` lacks.
* `CountSurvives`, `PredictionCorrect` (`RunsThePrediction`): for up to a million peers the
  decimals and the second floor cost at most one Byzantine peer, and none if they were rounded up.
* `ReportsCorrect` (`WholeReports`): the file of a process is untouched until it reports, so the
  lines it appends are those of its full report (`LinesAreFull`), all of them or, in a torn
  write, the first ones.
* `StepsCount` (`EveryStepCounts`): what is left to a process, servers, benchmarks and report, and to
  its thread, falls with every step (`ProcessFalls`, `TaskFalls`), and starting a process
  by hand or closing a listener late adds nothing.

Model-checked only: `Terminates`, `CampaignEnds` and the two `Returns`. Liveness and ENABLED are
out of the prover's reach, so the proofs give the safety half of each, `EveryStepCounts`: the
program can take finitely many steps only. That it can always take one until it is
done, and that fairness makes it, is left to TLC (the deadlock check of the runs of
`BlacklistDownload`, and these four properties).

## 5. Where the code and its words differ

Five runs end in a violation on purpose; `PROJECT.json` quotes the lines:

* `memory_is_one_round`: votes may outlive the round they were freed with;
* `representative_blacklist`: a deadline gives two honest peers different blacklists;
* `demo_tells_the_decision`: the demo counts senders, the agent messages;
* `port_isolation`: a grid row with 200 peers or more leaves the ports of its slot;
* `rows_on_disk`: `AppendCSV` asks for the error before it flushes.

More divergences, on which no run is spent:

* "Q = committee + conflict" (`sim/metrics.go`): a query that the deadline cuts off, or that
  fails, is in Q and in neither of the other two (`QueryLedger` bounds their number).
* The bound on conflicts of README.md needs that no vote is repeated: a retry
  after a lost acknowledgement lets one peer count more than once. `ConflictsPaid` has
  the term that is missing.
* The decomposition prints the largest blacklist of all honest peers under the
  title of the peer with the most queries; under faults it may be another's.
* README.md redirects the output of `gridgen` to `benchmarks/results/grid_feasible.csv`; what is
  printed is a summary, the grid goes to `-out-dir`, and the runner reads a third
  directory by default.
* "If two committee members broadcast different values … a conflict is detected"
  (README.md): up to rho dissenters are outvoted without a query.
* "Non-committee peers take a majority vote" (README.md): committee members do too,
  and drop the answer they hold.
* `verifyQueries`, "conflict-resolution source queries", also counts the queries of
  rounds in which nobody voted.

## 6. Not modelled

* The committee probability, `PaperRho` and the w.h.p. bounds: floating point
  and probability are out of TLC's reach. The models take rho as a parameter and the
  committee as any set.
* The cost formulas of `cmd/gridgen` (floating point, no state), its feasibility test and its lists of
  flags; the Byzantine count and the file it writes are modelled.
* Seeds, the connection pool of the HTTP client and its settings: nothing the
  models tell apart depends on them.
* The repeats of net/http itself: its transport sends a GET once more, unasked, when a
  kept connection breaks before the first byte of the answer. `QueriesAreSeen` counts an
  attempt of `get` as one request.
* Averages, times, formats, the layout of the trace and the demo; plotting and
  sweep scripts other than the grid runner; configuration and entry point:
  constants and sequential glue.
* `/getbit` of the agent's server, `ResetQueryCount` and the other accessors nothing calls.

## 7. Plan

Done, in this order: `Votes`, `BlacklistDownload`, its runs, `DocClaims`, `Download` and the
refinement, the first proofs; `PeerBroadcast` under `Delivery` and `RoundJobs` under
`JobBarrier` with their proofs; `RoundView`; `Grid` and `Campaign` with their proofs;
`PeerJob`; `Results`; the proofs of the whole round loop, of the refinement to `Download`
and of the views and reports; the accounts of faults against conflicts, leaks and wrong
bits; the safety halves of termination.

Left:

1. The bound of `UnheardIsPaid` as a promise of `Download` itself, so that an unreliable
   download is refined too.
2. Processes that are killed: the grid runner has no timeout for a task today, so
   nothing in the code restarts one.
3. One composed model of `RoundJobs` over `PeerJob`. The two are joined by the
   abstract specifications now; their product is too large for TLC.
