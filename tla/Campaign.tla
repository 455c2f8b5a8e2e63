------------------------------ MODULE Campaign ------------------------------
(***************************************************************************)
(* An experiment: run_grid_multiseed.py runs one process of the binary for *)
(* each row of a grid that gridgen wrote, a limited number of them at a    *)
(* time, each on the ports of a slot of its own; next to them somebody runs*)
(* a benchmark by hand, with several ratios, on the default ports.         *)
(*                                                                         *)
(* A process (Run, sim/sim.go) goes through its ratios one by one: it opens*)
(* one server for the source and one for each agent (newScenarioEnv), runs *)
(* the protocol, shuts the servers down, and appends its results to a CSV  *)
(* file of its own in the end.  The protocol is one step here, which ends  *)
(* or fails; it is the subject of BlacklistDownload.                       *)
(*                                                                         *)
(* Every caller of the binary in this repository passes a base port that is*)
(* the source port plus one, so a scenario uses one interval of ports.     *)
(***************************************************************************)
EXTENDS Grid, FiniteSets, Sequences

CONSTANTS
  Agents,     \* -agents of the process run by hand (0) and of rows 1, 2, ...
  Predicted,  \* Byzantine peers gridgen predicts for rows 1, 2, ...
  HandRatios, \* ratios of the process run by hand; a row has one
  HandPort,   \* its -source-port
  Concurrent, \* N_CONCURRENT, the number of slots
  PortBase, PortStride,
  Reused,     \* processes whose CSV file an earlier run has left
  Gap,        \* from the number of agents of a scenario to the stride to the
              \* next one: 32 in the code.  A scenario has a port more than it
              \* has agents, so Gap - 1 ports stay free.
  Buffer,     \* lines the buffer of the CSV writer holds
  MaxFaults,  \* bound on what goes wrong outside of the programs
  MaxTorn,    \* bound on the writes to a CSV file that fail
  MaxDelays   \* bound on the servers whose Serve runs only after Shutdown

Procs == DOMAIN Agents
Tasks == DOMAIN Predicted
Hand  == 0
Slots == 0 .. Concurrent - 1

ASSUME RowsAssumption ==
  /\ Tasks = Procs \ {Hand} /\ Hand \in Procs /\ Procs \subseteq Nat
  /\ IsFiniteSet(Procs)
  /\ \A p \in Procs : Agents[p] \in Nat \ {0}
  /\ \A t \in Tasks : Predicted[t] \in 0 .. Agents[t] - 1

ASSUME PortsAssumption ==
  /\ HandRatios \in Nat \ {0} /\ Concurrent \in Nat \ {0}
  /\ {HandPort, PortBase, PortStride} \subseteq Nat /\ Gap \in Nat \ {0}

ASSUME BoundsAssumption ==
  Buffer \in Nat \ {0} /\ {MaxFaults, MaxTorn, MaxDelays} \subseteq Nat

VARIABLES
  loaded,     \* the rows the runner has read, {} before
  started,    \* the runner has started its threads
  pool,       \* slot_pool
  slot,       \* the slot each thread took last
  thread,     \* where the thread of each task is
  pc,         \* where each process is
  port,       \* its -source-port
  scenario,   \* ratios it has finished
  opened,     \* servers it has opened for the current ratio
  listening,  \* ports it listens on
  byzantine,  \* Byzantine peers of each row that is run, NotYet before
  file,       \* lines of the CSV file of each process
  faults, torn, delays  \* what the environment has done so far

runnerVars  == <<loaded, started, pool, slot, thread>>
processVars == <<pc, port, scenario, opened, listening, byzantine, file>>
envVars     == <<faults, torn, delays>>
vars        == <<runnerVars, processVars, envVars>>

NotYet == -1

\* Lines of a CSV file: the header, rows of an earlier run, and this run's.
Header == 0
Old    == -1
Earlier == <<Header, Old>>

Running == {"bind", "run", "report"}
Ended   == {"ok", "error"}  \* exit codes 0 and 1

Ratios(p) == IF p = Hand THEN HandRatios ELSE 1

TypeOK ==
  /\ loaded \subseteq Tasks /\ started \in BOOLEAN /\ pool \subseteq Slots
  /\ slot \in [Tasks -> Slots]
  /\ thread \in [Tasks -> {"idle", "slot", "process", "over"}]
  /\ pc \in [Procs -> {"off"} \cup Running \cup Ended]
  /\ port \in [Procs -> Nat] /\ listening \in [Procs -> SUBSET Nat]
  /\ scenario \in [Procs -> Nat] /\ \A p \in Procs : scenario[p] <= Ratios(p)
  /\ opened \in [Procs -> Nat] /\ \A p \in Procs : opened[p] <= Agents[p] + 1
  /\ byzantine \in [Tasks -> Int] /\ file \in [Procs -> Seq(Int)]
  /\ faults \in Nat /\ torn \in Nat /\ delays \in Nat

Init ==
  /\ loaded = {} /\ started = FALSE /\ pool = Slots
  /\ slot = [t \in Tasks |-> 0] /\ thread = [t \in Tasks |-> "idle"]
  /\ pc = [p \in Procs |-> "off"] /\ port = [p \in Procs |-> 0]
  /\ scenario = [p \in Procs |-> 0] /\ opened = [p \in Procs |-> 0]
  /\ listening = [p \in Procs |-> {}]
  /\ byzantine = [t \in Tasks |-> NotYet]
  /\ file = [p \in Procs |-> IF p \in Reused THEN Earlier ELSE <<>>]
  /\ faults = 0 /\ torn = 0 /\ delays = 0

Fault == faults < MaxFaults /\ faults' = faults + 1

----------------------------------------------------------------------------
(* A process *)

\* Slip: every scenario uses the same ports.
SamePorts(p, s) == port[p]

\* portOffset: the ports of the scenarios of a process do not overlap.
ScenarioPort(p, s) == port[p] + s * (Agents[p] + Gap)

PortsOf(p, s) == {ScenarioPort(p, s) + i : i \in 0 .. Agents[p]}

NextPort(p) == ScenarioPort(p, scenario[p]) + opened[p]
Taken       == UNION {listening[p] : p \in Procs}

\* validateOptions.  The number of agents stands for everything it tests.
Valid(p) == Agents[p] >= 2

\* A process starts.  It ends at once if it does not accept its options.
Start(p, sourcePort) ==
  /\ pc' = [pc EXCEPT ![p] = IF Valid(p) THEN "bind" ELSE "error"]
  /\ port' = [port EXCEPT ![p] = sourcePort]
  /\ IF p \in Tasks /\ Valid(p)
     THEN \E m \in Decimals(Predicted[p], Agents[p]) :
            \E r \in Floor(m, Agents[p]) :
              byzantine' = [byzantine EXCEPT ![p] = r]
     ELSE UNCHANGED byzantine
  /\ UNCHANGED <<scenario, opened, listening, file>>

\* Slip: a server too many is opened.
BindOneMore(p) ==
  /\ pc[p] = "bind" /\ NextPort(p) \notin Taken
  /\ listening' = [listening EXCEPT ![p] = @ \cup {NextPort(p)}]
  /\ opened' = [opened EXCEPT ![p] = @ + 1]
  /\ pc' = [pc EXCEPT ![p] = IF opened[p] > Agents[p] THEN "run" ELSE "bind"]
  /\ UNCHANGED <<runnerVars, port, scenario, byzantine, file, envVars>>

\* net.Listen of the source server, then of one agent after the other.
Bind(p) ==
  /\ pc[p] = "bind" /\ NextPort(p) \notin Taken
  /\ listening' = [listening EXCEPT ![p] = @ \cup {NextPort(p)}]
  /\ opened' = [opened EXCEPT ![p] = @ + 1]
  /\ pc' = [pc EXCEPT ![p] = IF opened[p] = Agents[p] THEN "run" ELSE "bind"]
  /\ UNCHANGED <<runnerVars, port, scenario, byzantine, file, envVars>>

\* os.Exit(1): RunBenchmarks returns the error without the results it has.
Die(p) ==
  /\ pc' = [pc EXCEPT ![p] = "error"]
  /\ listening' = [listening EXCEPT ![p] = {}]
  /\ UNCHANGED <<port, scenario, opened, byzantine, file>>

\* net.Listen fails: the port is taken, by one of these processes or by
\* another one.  The servers that are open are shut down.
Refused(p) ==
  /\ pc[p] = "bind"
  /\ \/ NextPort(p) \in Taken /\ UNCHANGED faults
     \/ Fault
  /\ Die(p)
  /\ UNCHANGED <<runnerVars, torn, delays>>

\* runBlacklistScenario returns its results and cleanup shuts the servers down.
\* Shutdown does not see a listener whose Serve has not run yet: that one is
\* closed by Serve itself, later.
Measure(p) ==
  /\ pc[p] = "run"
  /\ \E unseen \in SUBSET PortsOf(p, scenario[p]) :
       /\ delays + Cardinality(unseen) <= MaxDelays
       /\ delays' = delays + Cardinality(unseen)
       /\ listening' = [listening EXCEPT ![p] =
            (@ \ PortsOf(p, scenario[p])) \cup unseen]
  /\ scenario' = [scenario EXCEPT ![p] = @ + 1]
  /\ opened' = [opened EXCEPT ![p] = 0]
  /\ pc' = [pc EXCEPT ![p] =
              IF scenario[p] + 1 = Ratios(p) THEN "report" ELSE "bind"]
  /\ UNCHANGED <<runnerVars, port, byzantine, file, faults, torn>>

\* Slip: the results that are there are reported after an error as well.
MeasureFailsSoft(p) ==
  /\ pc[p] = "run" /\ Fault
  /\ pc' = [pc EXCEPT ![p] = "report"]
  /\ listening' = [listening EXCEPT ![p] = {}]
  /\ UNCHANGED <<port, scenario, opened, byzantine, file>>
  /\ UNCHANGED <<runnerVars, torn, delays>>

\* Slip: a benchmark that has failed is run again.
MeasureAgain(p) ==
  /\ pc[p] = "run" /\ Fault
  /\ pc' = [pc EXCEPT ![p] = "bind"]
  /\ opened' = [opened EXCEPT ![p] = 0]
  /\ listening' = [listening EXCEPT ![p] = {}]
  /\ UNCHANGED <<runnerVars, port, scenario, byzantine, file, torn, delays>>

\* runBlacklistScenario returns an error.
MeasureFails(p) ==
  /\ pc[p] = "run" /\ Fault
  /\ Die(p)
  /\ UNCHANGED <<runnerVars, torn, delays>>

\* Serve finds its server shut down and closes the listener.
CloseLate(p) ==
  /\ \E x \in listening[p] \ PortsOf(p, scenario[p]) :
       listening' = [listening EXCEPT ![p] = @ \ {x}]
  /\ UNCHANGED <<runnerVars, pc, port, scenario, opened, byzantine, file,
                 envVars>>

\* csvRow of every ratio, in their order.
Rows(p) == [i \in 1 .. scenario[p] |-> i]

\* What AppendCSV writes: the header only into an empty file.
Lines(p) == IF file[p] = <<>> THEN <<Header>> \o Rows(p) ELSE Rows(p)

\* A failed write leaves the first n lines in the file.  It is noticed if a full
\* buffer was written out; the rest is written by the deferred Flush, after
\* writer.Error() was asked.
Noticed(p, n) == (n \div Buffer + 1) * Buffer < Len(Lines(p))

\* AppendCSV and the end of the process.
Report(p) ==
  /\ pc[p] = "report"
  /\ \/ /\ file' = [file EXCEPT ![p] = @ \o Lines(p)]
        /\ pc' = [pc EXCEPT ![p] = "ok"]
        /\ UNCHANGED <<faults, torn>>
     \/ /\ Fault  \* the file cannot be opened
        /\ pc' = [pc EXCEPT ![p] = "error"]
        /\ UNCHANGED <<file, torn>>
     \/ /\ torn < MaxTorn /\ torn' = torn + 1
        /\ \E n \in 0 .. Len(Lines(p)) - 1 :
             /\ file' = [file EXCEPT ![p] = @ \o SubSeq(Lines(p), 1, n)]
             /\ pc' = [pc EXCEPT ![p] = IF Noticed(p, n) THEN "error" ELSE "ok"]
        /\ UNCHANGED faults
  /\ listening' = [listening EXCEPT ![p] = {}]
  /\ UNCHANGED <<runnerVars, port, scenario, opened, byzantine, delays>>

----------------------------------------------------------------------------
(* The runner *)

\* writeGrid and csv.DictReader.  What a failed Flush of writeGrid loses, which
\* gridgen does not notice either, is not run.
Load ==
  /\ ~started /\ started' = TRUE
  /\ \/ loaded' = Tasks /\ UNCHANGED torn
     \/ /\ torn < MaxTorn /\ torn' = torn + 1
        /\ \E t \in Tasks : loaded' = {u \in Tasks : u < t}
  /\ UNCHANGED <<pool, slot, thread, processVars, faults, delays>>

\* slot_pool.get(); in which order slots come back is left open.
Take(t) ==
  /\ t \in loaded /\ thread[t] = "idle"
  /\ \E s \in pool : slot' = [slot EXCEPT ![t] = s] /\ pool' = pool \ {s}
  /\ thread' = [thread EXCEPT ![t] = "slot"]
  /\ UNCHANGED <<loaded, started, processVars, envVars>>

\* subprocess.run starts the process on the ports of the slot.
Launch(t) ==
  /\ thread[t] = "slot"
  /\ thread' = [thread EXCEPT ![t] = "process"]
  /\ Start(t, PortBase + slot[t] * PortStride)
  /\ UNCHANGED <<loaded, started, pool, slot, envVars>>

\* finally: slot_pool.put(slot).
PutBack(t) ==
  /\ pool' = pool \cup {slot[t]}
  /\ thread' = [thread EXCEPT ![t] = "over"]
  /\ UNCHANGED <<loaded, started, slot, processVars, torn, delays>>

\* Slip: an exception leaves the slot taken.
RaiseKeeps(t) ==
  /\ thread[t] = "slot" /\ Fault
  /\ thread' = [thread EXCEPT ![t] = "over"]
  /\ UNCHANGED <<loaded, started, pool, slot, processVars, torn, delays>>

\* The log file cannot be opened: the thread ends and the task is not run.
Raise(t) == thread[t] = "slot" /\ Fault /\ PutBack(t)

\* Slip: only a process that ended well is taken off the list.
ReapOk(t) ==
  /\ thread[t] = "process" /\ pc[t] = "ok"
  /\ PutBack(t) /\ UNCHANGED faults

\* subprocess.run returns when the process has ended, in whatever way.
Reap(t) ==
  /\ thread[t] = "process" /\ pc[t] \in Ended
  /\ PutBack(t) /\ UNCHANGED faults

\* run_canonical.sh and the like, next to the grid.
RunByHand ==
  /\ pc[Hand] = "off" /\ Start(Hand, HandPort)
  /\ UNCHANGED <<runnerVars, envVars>>

ProcessStep(p) == \/ Bind(p) \/ Refused(p) \/ Measure(p) \/ MeasureFails(p)
                  \/ Report(p)
TaskStep(t) == Take(t) \/ Launch(t) \/ Raise(t) \/ Reap(t)
Program == \/ Load \/ \E t \in Tasks : TaskStep(t)
           \/ \E p \in Procs : ProcessStep(p)

Next == Program \/ RunByHand \/ \E p \in Procs : CloseLate(p)

\* The runner's threads and the processes are scheduled, and a benchmark ends
\* (Terminates of BlacklistDownload).
Spec == Init /\ [][Next]_vars /\ WF_vars(Program)

----------------------------------------------------------------------------
\* The ports of all scenarios of a process fit into its share of the ports.
Span(p) == (Ratios(p) - 1) * (Agents[p] + Gap) + Agents[p] + 1

Fits == /\ \A t \in Tasks : Span(t) <= PortStride
        /\ HandPort + Span(Hand) <= PortBase

\* "Run all tasks in grid_feasible.csv in parallel with proper port isolation"
\* (run_grid_multiseed.py): no process finds a port taken by another one, nor
\* by a listener of its own that is closed late.  It takes Fits.
PortsIsolated ==
  \A p \in Procs : pc[p] = "bind" => NextPort(p) \notin Taken

Holders == {t \in Tasks : thread[t] \in {"slot", "process"}}

\* A slot is in the pool or with one task, whatever becomes of the tasks, and a
\* process of a task runs only while its task holds the slot.
SlotsConserved ==
  /\ pool \cup {slot[t] : t \in Holders} = Slots
  /\ \A t \in Holders : slot[t] \notin pool
  /\ \A t, u \in Holders : slot[t] = slot[u] => t = u
  /\ \A t \in Tasks : pc[t] \in Running => thread[t] = "process"

\* What an earlier run has left in the file of a process, and what a run that
\* measures all of its ratios appends to it.
Before(p) == IF p \in Reused THEN Earlier ELSE <<>>

FullReport(p) ==
  LET all == [i \in 1 .. Ratios(p) |-> i]
  IN  IF p \in Reused THEN all ELSE <<Header>> \o all

\* A process appends to its file the first n lines of its full report, under
\* the one header of the file, and nothing before it ends.  Unless a write
\* fails it is all of them if the process ends well and none otherwise (an error
\* in a later ratio throws the results of the earlier ones away); and whatever
\* fails, a process that ends with an error has lines missing.
WholeReports ==
  \A p \in Procs :
    \E n \in 0 .. Len(FullReport(p)) :
      /\ file[p] = Before(p) \o SubSeq(FullReport(p), 1, n)
      /\ pc[p] = "ok" => torn > 0 \/ n = Len(FullReport(p))
      /\ pc[p] = "error" => n < Len(FullReport(p)) /\ (torn > 0 \/ n = 0)
      /\ pc[p] \notin Ended => n = 0

\* gridgen "predicts each config's wall-clock cost": what is run has the number
\* of Byzantine peers that was predicted, or one less.
RunsThePrediction ==
  \A t \in Tasks : byzantine[t] # NotYet =>
    \E m \in Decimals(Predicted[t], Agents[t]) :
      Survives(Predicted[t], Agents[t], m, byzantine[t])

\* AppendCSV returns "flush csv: %w" when the rows did not get to the disk, so
\* a process that ended well has its rows in the file.  The code asks for the
\* error before it flushes.
RowsAreOnDisk ==
  \A p \in Procs : pc[p] = "ok" =>
    \A i \in 1 .. Ratios(p) : \E j \in DOMAIN file[p] : file[p][j] = i

\* The steps that are left to a process: for each ratio the servers and the
\* benchmark, then the report.
ProcessSteps(p) ==
  IF pc[p] \in Ended THEN 0
  ELSE (Ratios(p) - scenario[p]) * (Agents[p] + 2) + 1 - opened[p]

\* Those that are left to the thread of its task.
ThreadSteps(p) ==
  IF p = Hand THEN 0
  ELSE CASE thread[p] = "idle" -> 3 [] thread[p] = "slot" -> 2
         [] thread[p] = "process" -> 1 [] thread[p] = "over" -> 0

\* The start of the runner is a step of everybody.
StepsLeft(p) == (IF started THEN 0 ELSE 1) + ThreadSteps(p) + ProcessSteps(p)

StepCounts ==
  /\ \A p \in Procs : StepsLeft(p)' \in 0 .. StepsLeft(p)
  /\ Program => \E p \in Procs : StepsLeft(p)' < StepsLeft(p)

\* The safety half of CampaignEnds: every step of the runner and of a process
\* brings it nearer to its end and sends nobody back, whatever fails: nothing is
\* measured twice, and no process is started again.
EveryStepCounts == [][StepCounts]_vars

\* "ALL DONE": every row of the grid had its turn and every slot is back; only a
\* failed write of the grid takes rows from it.
CampaignEnds ==
  <>(/\ started /\ pool = Slots
     /\ \A t \in Tasks : thread[t] = "over" \/ (t \notin loaded /\ torn > 0))
=============================================================================
