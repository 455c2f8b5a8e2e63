-------------------------- MODULE RoundJobsProofs --------------------------
(***************************************************************************)
(* Proofs about RoundJobs for any number of agents and slots.              *)
(***************************************************************************)
EXTENDS RoundJobs, FiniteSetTheorems, TLAPS

----------------------------------------------------------------------------
(* The inductive invariant, in parts *)

\* The types, without the bounds on the goroutines and the counter.
Types ==
  /\ timed \in BOOLEAN /\ cancelled \in BOOLEAN
  /\ pc \in {"loop", "slot", "wait", "returned"} /\ started \in 0 .. Last
  /\ job \in [Agents -> {"idle", "running", "done", "missed", "failed"}]
  /\ err \in [Agents -> ErrorKinds \cup {"nil"}]
  /\ missed \in Nat
  /\ firstErr \in ErrorKinds \cup {"none"}
  /\ result \in ErrorKinds \cup {"none", "nil"}

\* The loop starts the jobs one after the other, stops short only if it is
\* cancelled, and the call returns after the last job.
Order ==
  /\ \A a \in Agents : job[a] = "idle" <=> a > started
  /\ pc = "slot" => started < Last
  /\ pc \in {"wait", "returned"} => started = Last \/ cancelled
  /\ pc = "returned" => Running = {}
  /\ result # "none" <=> pc = "returned"

\* How a job ended, and what it returned.
Errors ==
  /\ \A a \in Agents : job[a] = "missed" => err[a] = "missed" /\ timed
  /\ \A a \in Agents : job[a] \notin {"missed", "failed"} => err[a] = "nil"

MissedJobs == {a \in Agents : job[a] = "missed"}

\* What the counter and the channel know of it.
Reports ==
  /\ missed = Cardinality(MissedJobs)
  /\ (\E a \in Agents : job[a] = "failed") <=> firstErr # "none"
  /\ result = "nil" <=> (pc = "returned" /\ firstErr = "none" /\ ~cancelled)

Inv == Types /\ Order /\ Errors /\ Reports

\* The invariant holds at the start.
LEMMA InvInit == Init => Inv
<1> SUFFICES ASSUME Init PROVE Inv
  OBVIOUS
<1>1. Types
  <2>1. timed \in BOOLEAN /\ cancelled \in BOOLEAN
    BY DEF Init
  <2>2. pc \in {"loop", "slot", "wait", "returned"} /\ started \in 0 .. Last
    BY SizesAssumption DEF Init
  <2> QED
    BY <2>1, <2>2 DEF Init, Types
<1>2. Errors
  BY DEF Init, Errors
<1>3. Order
  BY SizesAssumption DEF Init, Order, Agents, Running
<1>4. MissedJobs = {}
  BY DEF Init, MissedJobs
<1>5. Reports
  BY <1>4, FS_EmptySet DEF Init, Reports
<1> QED
  BY <1>1, <1>2, <1>3, <1>5 DEF Inv

\* A step that neither starts nor ends a missed job keeps the counter exact.
LEMMA SameMissed ==
  ASSUME Types, Reports, missed' = missed, NEW a \in Agents,
         NEW state \in {"running", "done", "failed"}, job[a] # "missed",
         job' = [job EXCEPT ![a] = state]
  PROVE  missed' = Cardinality(MissedJobs)'
<1>1. MissedJobs' = MissedJobs
  BY DEF Types, MissedJobs
<1> QED
  BY <1>1 DEF Reports

\* A job runs only before the call returns.
LEMMA RunningBeforeReturn ==
  ASSUME Inv, NEW a \in Agents, job[a] = "running"
  PROVE  pc # "returned" /\ result = "none" /\ ~(a > started)
BY DEF Inv, Order, Running

\* One job more is counted when it misses the round.
LEMMA OneMoreMissed ==
  ASSUME Types, Reports, NEW a \in Agents, job[a] = "running",
         job' = [job EXCEPT ![a] = "missed"], missed' = missed + 1
  PROVE  missed' = Cardinality(MissedJobs)'
<1>1. MissedJobs' = MissedJobs \cup {a} /\ a \notin MissedJobs
  BY DEF Types, MissedJobs
<1>2. IsFiniteSet(MissedJobs)
  <2>1. IsFiniteSet(Agents)
    BY SizesAssumption, FS_Interval DEF Agents
  <2> QED
    BY <2>1, FS_Subset DEF MissedJobs
<1> QED
  BY <1>1, <1>2, FS_AddElement DEF Reports

\* Every step keeps the invariant.
LEMMA InvNext == Inv /\ [Next]_vars => Inv'
<1> SUFFICES ASSUME Inv, [Next]_vars PROVE Inv'
  OBVIOUS
<1> USE SizesAssumption DEF Inv, Types, Order, Errors, Running
<1>1. CASE LoopChecks
  BY <1>1 DEF LoopChecks, Reports, MissedJobs, Agents
<1>2. CASE Start
  <2>1. started + 1 \in Agents /\ job[started + 1] = "idle"
    BY <1>2 DEF Start, Agents
  <2>2. job' = [job EXCEPT ![started + 1] = "running"] /\ missed' = missed
    BY <1>2 DEF Start
  <2>3. missed' = Cardinality(MissedJobs)'
    BY <2>1, <2>2, SameMissed
  <2>4. Reports'
    BY <1>2, <2>1, <2>2, <2>3 DEF Start, Reports
  <2>5. Types' /\ Errors'
    BY <1>2, <2>1 DEF Start
  <2>6. Order'
    BY <1>2, <2>1 DEF Start, Agents
  <2> QED
    BY <2>4, <2>5, <2>6
<1>3. CASE LoopEnds
  BY <1>3 DEF LoopEnds, Reports, MissedJobs
<1>4. ASSUME NEW a \in Agents, JobSucceeds(a) PROVE Inv'
  <2>1. /\ job' = [job EXCEPT ![a] = "done"] /\ missed' = missed
        /\ job[a] = "running"
    BY <1>4 DEF JobSucceeds
  <2>2. pc # "returned" /\ ~(a > started)
    BY <2>1, RunningBeforeReturn
  <2>3. missed' = Cardinality(MissedJobs)'
    BY <2>1, SameMissed
  <2>4. Reports'
    BY <1>4, <2>1, <2>3 DEF JobSucceeds, Reports
  <2>5. Types' /\ Errors'
    BY <1>4, <2>1 DEF JobSucceeds
  <2>6. Order'
    BY <1>4, <2>1, <2>2 DEF JobSucceeds
  <2> QED
    BY <2>4, <2>5, <2>6
<1>5. ASSUME NEW a \in Agents, JobFails(a) PROVE Inv'
  <2>1. PICK kind \in ErrorKinds :
          /\ err' = [err EXCEPT ![a] = kind]
          /\ IF IsMissed(kind)
             THEN /\ job' = [job EXCEPT ![a] = "missed"]
                  /\ missed' = missed + 1
                  /\ UNCHANGED firstErr
             ELSE /\ job' = [job EXCEPT ![a] = "failed"]
                  /\ firstErr' = IF firstErr = "none" THEN kind ELSE firstErr
                  /\ UNCHANGED missed
    BY <1>5 DEF JobFails
  <2>2. /\ job[a] = "running"
        /\ UNCHANGED <<timed, pc, started, cancelled, result>>
    BY <1>5 DEF JobFails
  <2>3. pc # "returned" /\ ~(a > started)
    BY <2>2, RunningBeforeReturn
  <2>4. CASE IsMissed(kind)
    <3>1. missed' = Cardinality(MissedJobs)'
      BY <2>1, <2>2, <2>4, OneMoreMissed
    <3>2. Reports'
      BY <2>1, <2>2, <2>4, <3>1 DEF Reports
    <3>3. Types' /\ Errors'
      BY <2>1, <2>2, <2>4 DEF IsMissed
    <3>4. Order'
      BY <2>1, <2>2, <2>3, <2>4
    <3> QED
      BY <3>2, <3>3, <3>4
  <2>5. CASE ~IsMissed(kind)
    <3>1. missed' = Cardinality(MissedJobs)'
      BY <2>1, <2>2, <2>5, SameMissed
    <3>2. firstErr' # "none" /\ firstErr' \in ErrorKinds
      BY <2>1, <2>5 DEF ErrorKinds
    <3>3. Reports'
      BY <2>1, <2>2, <2>3, <2>5, <3>1, <3>2 DEF Reports
    <3>4. Types' /\ Errors'
      BY <2>1, <2>2, <2>5, <3>2
    <3>5. Order'
      BY <2>1, <2>2, <2>3, <2>5
    <3> QED
      BY <3>3, <3>4, <3>5
  <2> QED
    BY <2>4, <2>5
<1>6. CASE Return
  <2>1. Types' /\ Order' /\ Errors'
    BY <1>6 DEF Return, ErrorKinds
  <2>2. Reports'
    BY <1>6 DEF Return, Reports, MissedJobs, ErrorKinds
  <2> QED
    BY <2>1, <2>2
<1>7. CASE Cancel
  BY <1>7 DEF Cancel, Reports, MissedJobs
<1>8. CASE UNCHANGED vars
  BY <1>8 DEF vars, Reports, MissedJobs
<1> QED
  BY <1>1, <1>2, <1>3, <1>4, <1>5, <1>6, <1>7, <1>8 DEF Next, Caller

\* The invariant holds in every reachable state.
LEMMA InvHolds == Spec => []Inv
BY InvInit, InvNext, PTL DEF Spec

----------------------------------------------------------------------------
\* A call that returned nil: no job is idle, running or failed.
LEMMA NilState ==
  ASSUME Inv, result = "nil"
  PROVE  \A a \in Agents : job[a] \in {"done", "missed"}
<1>1. pc = "returned" /\ firstErr = "none" /\ ~cancelled /\ started = Last
  BY DEF Inv, Reports, Order
<1> SUFFICES ASSUME NEW a \in Agents PROVE job[a] \in {"done", "missed"}
  OBVIOUS
<1>2. job[a] # "idle"
  <2>1. ~(a > started)
    BY <1>1, SizesAssumption DEF Agents
  <2> QED
    BY <2>1 DEF Inv, Order
<1>3. job[a] # "running"
  BY <1>1 DEF Inv, Order, Running
<1>4. job[a] # "failed"
  BY <1>1 DEF Inv, Reports
<1> QED
  BY <1>2, <1>3, <1>4 DEF Inv, Types

\* When runRoundJobs or runAgentJobs returns nil, every agent had its turn and
\* the missed ones are counted.
THEOREM AllRan == Spec => []NilMeansAll
<1>1. Inv => NilMeansAll
  <2> SUFFICES ASSUME Inv, result = "nil"
               PROVE  /\ Ended = Agents
                      /\ missed = Cardinality({a \in Agents : job[a] # "done"})
    BY DEF NilMeansAll
  <2>1. \A a \in Agents : job[a] \in {"done", "missed"}
    BY NilState
  <2>2. Ended = Agents /\ {a \in Agents : job[a] # "done"} = MissedJobs
    BY <2>1 DEF Ended, MissedJobs
  <2> QED
    BY <2>2 DEF Inv, Reports
<1> QED
  BY <1>1, InvHolds, PTL

\* When they return nil, no error was forgiven but missed deadlines of a round.
THEOREM NoErrorSwallowed == Spec => []ErrorsSurface
<1>1. Inv => ErrorsSurface
  BY NilState DEF ErrorsSurface, Inv, Errors
<1> QED
  BY <1>1, InvHolds, PTL

----------------------------------------------------------------------------
(* The call is one phase *)

\* The end of a job is the one step Job of the abstract phase.
LEMMA EndIsJob ==
  ASSUME Inv, NEW a \in Agents, job[a] = "running",
         NEW state \in {"done", "missed", "failed"},
         job' = [job EXCEPT ![a] = state], UNCHANGED <<cancelled, result>>
  PROVE  Phase!Job(a)
<1>1. result = "none"
  BY RunningBeforeReturn
<1>2. a \notin Ended /\ Ended' = Ended \cup {a}
  BY DEF Inv, Types, Ended
<1>3. \/ (\E b \in Agents : job'[b] = "failed")
      \/ (\E b \in Agents : job'[b] = "failed")
           = (\E b \in Agents : job[b] = "failed")
  BY DEF Inv, Types
<1> QED
  BY <1>1, <1>2, <1>3 DEF Phase!Job

\* Every step of the call is a step of the phase, or stutters.
LEMMA StepIsStep == Inv /\ [Next]_vars => [Phase!Next]_(Phase!vars)
<1> SUFFICES ASSUME Inv, [Next]_vars
             PROVE  Phase!Next \/ UNCHANGED Phase!vars
  OBVIOUS
<1>1. CASE LoopChecks \/ LoopEnds \/ UNCHANGED vars
  BY <1>1 DEF LoopChecks, LoopEnds, vars, Phase!vars, Ended
<1>2. CASE Start
  <2>1. started + 1 \in Agents /\ job[started + 1] = "idle"
    BY <1>2, SizesAssumption DEF Start, Agents, Inv, Types, Order
  <2>2. /\ job' = [job EXCEPT ![started + 1] = "running"]
        /\ UNCHANGED <<cancelled, result>>
    BY <1>2 DEF Start
  <2>3. Ended' = Ended
    BY <2>1, <2>2 DEF Ended, Inv, Types
  <2>4. (\E b \in Agents : job'[b] = "failed")
          = (\E b \in Agents : job[b] = "failed")
    BY <2>1, <2>2 DEF Inv, Types
  <2> QED
    BY <2>2, <2>3, <2>4 DEF Phase!vars
<1>3. ASSUME NEW a \in Agents, JobSucceeds(a) PROVE Phase!Next
  BY <1>3, EndIsJob DEF JobSucceeds, Phase!Next
<1>4. ASSUME NEW a \in Agents, JobFails(a) PROVE Phase!Next
  <2>1. \E state \in {"missed", "failed"} : job' = [job EXCEPT ![a] = state]
    BY <1>4 DEF JobFails
  <2> QED
    BY <1>4, <2>1, EndIsJob DEF JobFails, Phase!Next
<1>5. CASE Return
  <2>1. result = "none"
    BY <1>5 DEF Return, Inv, Order
  <2>2. Ended = Agents \/ cancelled
    <3>1. CASE started = Last
      <4>1. \A a \in Agents : ~(a > started)
        BY <3>1, SizesAssumption DEF Agents
      <4> QED
        BY <1>5, <4>1 DEF Return, Ended, Running, Inv, Order, Types
    <3> QED
      BY <1>5, <3>1 DEF Return, Inv, Order
  <2>3. /\ result' = IF firstErr # "none" THEN firstErr
                     ELSE IF cancelled THEN "cancelled" ELSE "nil"
        /\ UNCHANGED <<job, cancelled>>
    BY <1>5 DEF Return
  <2>4. (\E a \in Agents : job[a] = "failed") <=> firstErr # "none"
    BY DEF Inv, Reports
  <2>5. firstErr \notin {"nil"} /\ firstErr \in ErrorKinds \cup {"none"}
    BY DEF Inv, Types, ErrorKinds
  <2> QED
    BY <2>1, <2>2, <2>3, <2>4, <2>5
       DEF Phase!Return, Phase!Next, Ended, ErrorKinds
<1>6. CASE Cancel
  <2>1. result = "none"
    BY <1>6 DEF Cancel, Inv, Order
  <2> QED
    BY <1>6, <2>1 DEF Cancel, Phase!Stop, Phase!Next, Ended
<1> QED
  BY <1>1, <1>2, <1>3, <1>4, <1>5, <1>6 DEF Next, Caller

\* The round loop may take runRoundJobs and runAgentJobs for a phase whose jobs
\* are single steps, all of them taken when the barrier lets it through.
THEOREM PhaseCorrect == Spec => IsBarrier
<1>1. Init => Phase!Init
  BY DEF Init, Phase!Init, Ended
<1> QED
  BY <1>1, InvHolds, StepIsStep, PTL DEF Spec, IsBarrier, Phase!Spec
----------------------------------------------------------------------------
(* The slots of the semaphore *)

Bounded == Cardinality(Running) <= Parallelism

\* Sets of agents are finite, and subsets have no more members.
LEMMA AgentSets ==
  ASSUME NEW S \in SUBSET Agents
  PROVE  /\ IsFiniteSet(S) /\ Cardinality(S) \in 0 .. Last
         /\ \A T \in SUBSET S : Cardinality(T) <= Cardinality(S)
<1>1. IsFiniteSet(Agents) /\ Cardinality(Agents) = Last
  BY SizesAssumption, FS_Interval DEF Agents
<1>2. IsFiniteSet(S) /\ Cardinality(S) <= Last
  BY <1>1, FS_Subset
<1>3. Cardinality(S) \in Nat
  BY <1>2, FS_CardinalityType
<1> QED
  BY <1>2, <1>3, FS_Subset, SizesAssumption

\* A step that starts no job frees slots at most.
LEMMA FewerRunning ==
  ASSUME Bounded, Running' \subseteq Running
  PROVE  Bounded'
<1>1. Running \subseteq Agents
  BY DEF Running
<1>2. Cardinality(Running') <= Cardinality(Running)
  BY <1>1, AgentSets
<1>3. Cardinality(Running) \in Nat /\ Cardinality(Running') \in Nat
  BY <1>1, AgentSets
<1> QED
  BY <1>2, <1>3, SizesAssumption DEF Bounded

\* Every step keeps the bound.
LEMMA BoundedNext == Inv /\ Bounded /\ [Next]_vars => Bounded'
<1> SUFFICES ASSUME Inv, Bounded, [Next]_vars PROVE Bounded'
  OBVIOUS
<1>1. CASE Start
  <2>1. /\ job' = [job EXCEPT ![started + 1] = "running"]
        /\ Cardinality(Running) < Parallelism
    BY <1>1 DEF Start, Held, Running
  <2>2. started + 1 \in Agents /\ job[started + 1] = "idle"
    BY <1>1, SizesAssumption DEF Start, Agents, Inv, Types, Order
  <2>3. Running' = Running \cup {started + 1} /\ started + 1 \notin Running
    BY <2>1, <2>2 DEF Running, Inv, Types
  <2>4. IsFiniteSet(Running) /\ Cardinality(Running) \in Nat
    BY AgentSets DEF Running
  <2>5. Cardinality(Running') = Cardinality(Running) + 1
    BY <2>3, <2>4, FS_AddElement
  <2> QED
    BY <2>1, <2>4, <2>5, SizesAssumption DEF Bounded
<1>2. ASSUME NEW a \in Agents, JobSucceeds(a) PROVE Bounded'
  <2>1. Running' \subseteq Running
    BY <1>2 DEF JobSucceeds, Running, Inv, Types
  <2> QED
    BY <2>1, FewerRunning
<1>3. ASSUME NEW a \in Agents, JobFails(a) PROVE Bounded'
  <2>1. \E state \in {"missed", "failed"} : job' = [job EXCEPT ![a] = state]
    BY <1>3 DEF JobFails
  <2>2. Running' \subseteq Running
    BY <2>1 DEF Running, Inv, Types
  <2> QED
    BY <2>2, FewerRunning
<1>4. CASE UNCHANGED job
  BY <1>4 DEF Bounded, Running
<1> QED
  BY <1>1, <1>2, <1>3, <1>4
     DEF Next, Caller, LoopChecks, LoopEnds, Return, Cancel, vars

\* Types, never more jobs than slots, and a counter that stays within the
\* number of agents.
THEOREM TypeCorrect == Spec => []TypeOK
<1>1. Init => Bounded
  <2>1. Init => Running = {}
    BY DEF Init, Running
  <2> QED
    BY <2>1, FS_EmptySet, SizesAssumption DEF Bounded
<1>2. Inv /\ Bounded => TypeOK
  <2> SUFFICES ASSUME Inv, Bounded PROVE TypeOK
    OBVIOUS
  <2>1. missed \in 0 .. Last
    BY AgentSets DEF Inv, Reports, MissedJobs
  <2>2. timed \in BOOLEAN /\ cancelled \in BOOLEAN
    BY DEF Inv, Types
  <2> QED
    BY <2>1, <2>2 DEF Inv, Types, Bounded, TypeOK
<1> QED
  BY <1>1, <1>2, InvHolds, InvNext, BoundedNext, PTL DEF Spec

----------------------------------------------------------------------------
(* Every step counts *)

\* Nobody has a negative number of steps left.
LEMMA StepsAreNat == Inv => \A a \in 0 .. Last : StepsLeft(a) \in Nat
<1> SUFFICES ASSUME Inv, NEW a \in 0 .. Last PROVE StepsLeft(a) \in Nat
  OBVIOUS
<1>1. started \in Nat /\ Last \in Nat /\ Last - started \in Nat
  BY SizesAssumption DEF Inv, Types
<1>2. CASE a = 0
  BY <1>1, <1>2 DEF StepsLeft, Inv, Types
<1>3. CASE a # 0
  BY <1>3 DEF StepsLeft
<1> QED
  BY <1>2, <1>3

\* Every step takes one from somebody's number and adds to nobody's.
LEMMA StepsFall == Inv /\ [Next]_vars => [StepCounts]_vars
<1> SUFFICES ASSUME Inv, Next PROVE StepCounts
  BY DEF vars
<1>1. Last \in Nat /\ Agents = 1 .. Last /\ started \in 0 .. Last
  BY SizesAssumption DEF Agents, Inv, Types
<1>2. Inv'
  BY InvNext
<1>3. \A a \in 0 .. Last : StepsLeft(a) \in Nat /\ StepsLeft(a)' \in Nat
  <2>1. (Inv => \A a \in 0 .. Last : StepsLeft(a) \in Nat)'
    BY StepsAreNat, PTL
  <2> QED
    BY <1>2, <2>1, StepsAreNat
<1>4. SUFFICES /\ \A a \in 0 .. Last : StepsLeft(a)' <= StepsLeft(a)
               /\ Caller => \E a \in 0 .. Last : StepsLeft(a)' < StepsLeft(a)
  BY <1>3 DEF StepCounts
<1>5. CASE LoopChecks \/ LoopEnds \/ Return
  <2>1. UNCHANGED <<job, started>>
    BY <1>5 DEF LoopChecks, LoopEnds, Return
  <2>2. \A a \in Agents : StepsLeft(a)' = StepsLeft(a)
    BY <1>1, <2>1 DEF StepsLeft
  <2>3. StepsLeft(0)' < StepsLeft(0)
    BY <1>1, <1>5 DEF StepsLeft, LoopChecks, LoopEnds, Return
  <2> QED
    BY <1>1, <1>3, <2>2, <2>3
<1>6. CASE Start
  <2>1. started + 1 \in Agents /\ job[started + 1] = "idle"
    BY <1>1, <1>6 DEF Start, Inv, Order
  <2>2. \A a \in Agents : StepsLeft(a)' <= StepsLeft(a)
    BY <1>1, <1>6, <2>1 DEF StepsLeft, Start, Inv, Types
  <2>3. StepsLeft(0)' < StepsLeft(0)
    BY <1>1, <1>6 DEF StepsLeft, Start
  <2> QED
    BY <1>1, <1>3, <2>2, <2>3
<1>7. ASSUME NEW a \in Agents, JobSucceeds(a) \/ JobFails(a)
      PROVE  /\ \A b \in 0 .. Last : StepsLeft(b)' <= StepsLeft(b)
             /\ \E b \in 0 .. Last : StepsLeft(b)' < StepsLeft(b)
  <2>1. /\ UNCHANGED <<pc, started>> /\ job[a] = "running"
        /\ \E end \in {"done", "missed", "failed"} :
             job' = [job EXCEPT ![a] = end]
    BY <1>7 DEF JobSucceeds, JobFails
  <2>2. StepsLeft(a)' < StepsLeft(a)
    BY <1>1, <2>1 DEF StepsLeft, Inv, Types
  <2>3. \A b \in 0 .. Last : b # a => StepsLeft(b)' = StepsLeft(b)
    BY <1>1, <2>1 DEF StepsLeft, Inv, Types
  <2> QED
    BY <1>1, <1>3, <2>2, <2>3
<1>8. CASE Cancel
  <2>1. UNCHANGED <<pc, started, job>> /\ ~Caller
    <3>1. UNCHANGED <<pc, started, job>> /\ cancelled' # cancelled
      BY <1>8 DEF Cancel
    <3> QED
      BY <3>1 DEF Caller, LoopChecks, Start, LoopEnds, Return, JobSucceeds,
         JobFails
  <2>2. \A a \in 0 .. Last : StepsLeft(a)' = StepsLeft(a)
    BY <2>1 DEF StepsLeft
  <2> QED
    BY <1>3, <2>1, <2>2
<1> QED
  BY <1>5, <1>6, <1>7, <1>8 DEF Next, Caller

\* runRoundJobs and runAgentJobs are over after at most 4 * Last + 2 steps of
\* their own and of the jobs, whatever the jobs return and whenever the caller
\* cancels the context.
THEOREM StepsCount == Spec => EveryStepCounts
BY InvHolds, StepsFall, PTL DEF Spec, EveryStepCounts
=============================================================================
