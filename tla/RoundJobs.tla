----------------------------- MODULE RoundJobs -----------------------------
(***************************************************************************)
(* runRoundJobs and runAgentJobs (sim/sim.go), which run the job of every  *)
(* agent in a goroutine of its own, a limited number of them at a time.    *)
(* The first has a deadline, and takes a job the deadline or a timeout of  *)
(* a request ended for a missed round; the second has none, and takes the  *)
(* same error for a failure.                                               *)
(*                                                                         *)
(* main passes a context that is never cancelled; RunBenchmarks accepts    *)
(* one that is, and both functions handle it.                              *)
(***************************************************************************)
EXTENDS Integers, FiniteSets

CONSTANTS
  Last,        \* the agents are 1 .. Last, in the order of env.agents
  Parallelism  \* the slots of the semaphore

ASSUME SizesAssumption == Last \in Nat /\ Parallelism \in Nat \ {0}

Agents == 1 .. Last

VARIABLES
  timed,      \* the call is one of runRoundJobs
  pc,         \* where the call is
  started,    \* agents whose goroutine was started: 1 .. started
  job,        \* where the job of each agent is
  err,        \* what the job of each agent returned, "nil" if no error
  missed,     \* the counter of missed jobs
  firstErr,   \* the head of errCh, "none" when it is empty
  cancelled,  \* the caller has cancelled its context
  result      \* the error the call returned, "nil" if there was none

vars == <<timed, pc, started, job, err, missed, firstErr, cancelled, result>>

\* What a job returns: context.DeadlineExceeded, which a client timeout is too,
\* context.Canceled, or the error of a request that failed for good.
ErrorKinds == {"missed", "cancelled", "error"}

Ended == {a \in Agents : job[a] \in {"done", "missed", "failed"}}

\* The goroutines wg.Wait waits for.
Running == {a \in Agents : job[a] = "running"}

\* Slip: the slot of a failed job is not given back.
HeldByFailed == {a \in Agents : job[a] \in {"running", "failed"}}

\* The slots of the semaphore in use; the deferred receive frees one on every
\* way out of the goroutine.
Held == {a \in Agents : job[a] = "running"}

TypeOK ==
  /\ timed \in BOOLEAN /\ cancelled \in BOOLEAN
  /\ pc \in {"loop", "slot", "wait", "returned"} /\ started \in 0 .. Last
  /\ job \in [Agents -> {"idle", "running", "done", "missed", "failed"}]
  /\ err \in [Agents -> ErrorKinds \cup {"nil"}]
  /\ missed \in 0 .. Last
  /\ firstErr \in ErrorKinds \cup {"none"}
  /\ result \in ErrorKinds \cup {"none", "nil"}
  /\ Cardinality(Running) <= Parallelism

Init ==
  /\ timed \in BOOLEAN
  /\ pc = "loop" /\ started = 0
  /\ job = [a \in Agents |-> "idle"] /\ err = [a \in Agents |-> "nil"]
  /\ missed = 0 /\ firstErr = "none"
  /\ cancelled = FALSE
  /\ result = "none"

----------------------------------------------------------------------------
\* The loop looks at its context, then waits for a slot.
LoopChecks ==
  /\ pc = "loop" /\ started < Last /\ ~cancelled
  /\ pc' = "slot"
  /\ UNCHANGED <<timed, started, job, err, missed, firstErr, cancelled, result>>

\* Slip: the semaphore has a slot too many.
StartOneMore ==
  /\ pc = "slot" /\ Cardinality(Held) <= Parallelism
  /\ pc' = "loop" /\ started' = started + 1
  /\ job' = [job EXCEPT ![started + 1] = "running"]
  /\ UNCHANGED <<timed, err, missed, firstErr, cancelled, result>>

\* The loop takes a slot and starts the goroutine of the next agent, even if the
\* context was cancelled while it waited for the slot.
Start ==
  /\ pc = "slot" /\ Cardinality(Held) < Parallelism
  /\ pc' = "loop" /\ started' = started + 1
  /\ job' = [job EXCEPT ![started + 1] = "running"]
  /\ UNCHANGED <<timed, err, missed, firstErr, cancelled, result>>

\* The loop is through, or finds its context cancelled and skips the rest.
LoopEnds ==
  /\ pc = "loop" /\ (started = Last \/ cancelled)
  /\ pc' = "wait"
  /\ UNCHANGED <<timed, started, job, err, missed, firstErr, cancelled, result>>

JobSucceeds(a) ==
  /\ job[a] = "running"
  /\ job' = [job EXCEPT ![a] = "done"]
  /\ UNCHANGED <<timed, pc, started, err, missed, firstErr, cancelled, result>>

\* Slip: every error in a round counts as a missed deadline.
Forgiven(kind) == timed

\* errors.Is(err, context.DeadlineExceeded) && ctx.Err() == nil.
IsMissed(kind) == timed /\ kind = "missed" /\ ~cancelled

\* Slip: a job that has missed its round runs once more.
JobStartsOver(a) ==
  /\ job[a] = "running"
  /\ \E kind \in ErrorKinds :
       /\ kind = "cancelled" => cancelled
       /\ err' = [err EXCEPT ![a] = kind]
       /\ IF IsMissed(kind)
          THEN missed' = missed + 1 /\ UNCHANGED <<job, firstErr>>
          ELSE /\ job' = [job EXCEPT ![a] = "failed"]
               /\ firstErr' = IF firstErr = "none" THEN kind ELSE firstErr
               /\ UNCHANGED missed
  /\ UNCHANGED <<timed, pc, started, cancelled, result>>

\* A job returns an error: it has missed the round, or the error goes to errCh.
JobFails(a) ==
  /\ job[a] = "running"
  /\ \E kind \in ErrorKinds :
       /\ kind = "cancelled" => cancelled
       /\ err' = [err EXCEPT ![a] = kind]
       /\ IF IsMissed(kind)
          THEN /\ job' = [job EXCEPT ![a] = "missed"]
               /\ missed' = missed + 1
               /\ UNCHANGED firstErr
          ELSE /\ job' = [job EXCEPT ![a] = "failed"]
               /\ firstErr' = IF firstErr = "none" THEN kind ELSE firstErr
               /\ UNCHANGED missed
  /\ UNCHANGED <<timed, pc, started, cancelled, result>>

\* Slip: the context is not looked at again after the wait.
ReturnBlind ==
  /\ pc = "wait" /\ Running = {}
  /\ pc' = "returned"
  /\ result' = IF firstErr # "none" THEN firstErr ELSE "nil"
  /\ UNCHANGED <<timed, started, job, err, missed, firstErr, cancelled>>

\* Slip: the goroutines are not waited for.
ReturnEarly ==
  /\ pc = "wait"
  /\ pc' = "returned"
  /\ result' = IF firstErr # "none" THEN firstErr
               ELSE IF cancelled THEN "cancelled" ELSE "nil"
  /\ UNCHANGED <<timed, started, job, err, missed, firstErr, cancelled>>

\* wg.Wait, the first error of the channel, else the error of the context.
Return ==
  /\ pc = "wait" /\ Running = {}
  /\ pc' = "returned"
  /\ result' = IF firstErr # "none" THEN firstErr
               ELSE IF cancelled THEN "cancelled" ELSE "nil"
  /\ UNCHANGED <<timed, started, job, err, missed, firstErr, cancelled>>

\* The caller gives the run up.
Cancel ==
  /\ pc # "returned" /\ ~cancelled
  /\ cancelled' = TRUE
  /\ UNCHANGED <<timed, pc, started, job, err, missed, firstErr, result>>

Caller == \/ LoopChecks \/ Start \/ LoopEnds \/ Return
          \/ \E a \in Agents : JobSucceeds(a) \/ JobFails(a)

Next == Caller \/ Cancel

\* Every request of a job has a timeout and a limited number of attempts, and
\* the runtime schedules every goroutine, so that the jobs end.
Spec == Init /\ [][Next]_vars /\ WF_vars(Caller)

----------------------------------------------------------------------------
\* The round loop goes on after nil: then every agent had its turn, however
\* the caller's cancellation and the loop met, and each agent that did not get
\* through is in the counter of missed jobs.
NilMeansAll ==
  result = "nil" =>
    /\ Ended = Agents
    /\ missed = Cardinality({a \in Agents : job[a] # "done"})

\* No error but a missed deadline is forgiven, and that one only in a round.
ErrorsSurface ==
  result = "nil" =>
    \A a \in Agents : err[a] = "nil" \/ (err[a] = "missed" /\ timed)

\* The call is one phase of the round loop: the jobs are all over when it
\* returns, so the votes are in before the first peer is sealed.
Phase == INSTANCE JobBarrier WITH
  done    <- Ended,
  failed  <- \E a \in Agents : job[a] = "failed",
  stopped <- cancelled,
  result  <- CASE result = "none" -> "none"
               [] result = "nil" -> "ok"
               [] OTHER -> "error"

IsBarrier == Phase!Spec

\* The steps that are left to the call (0), two for each agent it still has to
\* start, and to the job of each agent.
StepsLeft(a) ==
  IF a = 0
  THEN CASE pc = "loop" -> 2 * (Last - started) + 2
         [] pc = "slot" -> 2 * (Last - started) + 1
         [] pc = "wait" -> 1
         [] pc = "returned" -> 0
  ELSE CASE job[a] = "idle" -> 2 [] job[a] = "running" -> 1 [] OTHER -> 0

StepCounts ==
  /\ \A a \in 0 .. Last : StepsLeft(a)' \in 0 .. StepsLeft(a)
  /\ Caller => \E a \in 0 .. Last : StepsLeft(a)' < StepsLeft(a)

\* The safety half of Returns: every step of the call or of a job is one step
\* less for it and one more for nobody, so the call is over after 4 * Last + 2 of
\* them.  No cancellation, however late, starts a job twice or an ended one.
EveryStepCounts == [][StepCounts]_vars

\* The barrier is always reached: the slots of jobs that end in any way, also
\* by an error, let the jobs behind them start.
Returns == <>(pc = "returned")
=============================================================================
