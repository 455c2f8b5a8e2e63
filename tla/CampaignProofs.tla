--------------------------- MODULE CampaignProofs ---------------------------
(***************************************************************************)
(* Proofs about Campaign for every grid, every number of slots, every      *)
(* number of ratios and every layout of the ports.                         *)
(***************************************************************************)
EXTENDS Campaign, SequenceTheorems, FiniteSetTheorems, TLAPS

----------------------------------------------------------------------------
(* The number of Byzantine peers of a row *)

\* Quotient and remainder.
LEMMA Division ==
  ASSUME NEW a \in Nat, NEW b \in Nat \ {0}
  PROVE  /\ a \div b \in Nat
         /\ (a \div b) * b <= a /\ a < (a \div b) * b + b
OBVIOUS

\* A million is a number.
LEMMA MillionIsNat == Million \in Nat \ {0}
BY DEF Million

\* A common factor can be left out of an inequality.
LEMMA Cancel ==
  ASSUME NEW a \in Int, NEW b \in Int, NEW f \in Nat \ {0}, a * f < b * f
  PROVE  a < b
OBVIOUS

\* Six decimals and a second floor cost a row at most one of its Byzantine
\* peers, and none if they were rounded up, for every k the decimals can tell
\* apart: gridgen's prediction and newScenarioEnv's count.
THEOREM CountSurvives ==
  ASSUME NEW k \in 1 .. Million, NEW c \in 0 .. k - 1,
         NEW m \in Decimals(c, k), NEW r \in Floor(m, k)
  PROVE  Survives(c, k, m, r)
<1> DEFINE q == (m * k) \div Million
<1> USE MillionIsNat
<1>1. m \in Nat /\ 2 * Distance(m * k, c * Million) <= k
  <2>1. c * Million \in Nat /\ k \in Nat \ {0}
    OBVIOUS
  <2>2. (c * Million) \div k \in Nat
    BY <2>1, Division
  <2> QED
    BY <2>2 DEF Decimals
<1>2. m * k \in Nat /\ c * Million \in Nat
  BY <1>1
<1>3. m * k - c * Million < Million /\ c * Million - m * k < Million
  BY <1>1, <1>2 DEF Distance
<1>4. q \in Nat /\ q * Million <= m * k /\ m * k < q * Million + Million
  BY <1>2, Division
<1> HIDE DEF q
<1>5. q \in {c - 1, c}
  <2>1. q * Million < (c + 1) * Million /\ (c - 1) * Million < (q + 1) * Million
    BY <1>2, <1>3, <1>4
  <2>2. q < c + 1 /\ c - 1 < q + 1
    BY <2>1, <1>4, Cancel
  <2> QED
    BY <2>2, <1>4
<1>6. m * k >= c * Million => q = c
  BY <1>2, <1>4, <1>5
<1>7. m * k = q * Million => q = c
  BY <1>2, <1>3, <1>4, <1>5
<1>8. \/ r = Clamp(q, k)
      \/ q - 1 >= 0 /\ m * k = q * Million /\ r = Clamp(q - 1, k)
  BY DEF Floor, q
<1>9. Clamp(q, k) = q /\ Clamp(q - 1, k) = q - 1
  BY <1>4, <1>5 DEF Clamp
<1> QED
  BY <1>2, <1>5, <1>6, <1>7, <1>8, <1>9 DEF Survives
----------------------------------------------------------------------------
(* The inductive invariant *)

\* What a process has done when it is somewhere in its life.
Progress ==
  \A p \in Procs :
    /\ pc[p] = "off" => scenario[p] = 0 /\ opened[p] = 0
    /\ pc[p] = "bind" => scenario[p] < Ratios(p) /\ opened[p] <= Agents[p]
    /\ pc[p] = "run" => scenario[p] < Ratios(p) /\ opened[p] = Agents[p] + 1
    /\ pc[p] = "report" => scenario[p] = Ratios(p) /\ opened[p] = 0

\* A process of a row is started by its thread, once.
Launched == \A t \in Tasks : thread[t] \in {"idle", "slot"} => pc[t] = "off"

Home(p) == IF p = Hand THEN HandPort ELSE PortBase + slot[p] * PortStride

\* A process listens within its span, on ports it has already opened.
WithinOf(p) ==
  /\ pc[p] \notin Running => listening[p] = {}
  /\ pc[p] \in Running => port[p] = Home(p)
  /\ \A x \in listening[p] : port[p] <= x /\ x < port[p] + Span(p)
  /\ pc[p] \in {"bind", "run"} => \A x \in listening[p] : x < NextPort(p)
Within == \A p \in Procs : WithinOf(p)

\* SlotsConserved, slot by slot.
SlotBySlot ==
  /\ \A s \in Slots : s \in pool \/ \E t \in Holders : slot[t] = s
  /\ \A t \in Holders : slot[t] \notin pool
  /\ \A t, u \in Holders : slot[t] = slot[u] => t = u
  /\ \A t \in Tasks : pc[t] \in Running => thread[t] = "process"

Inv == TypeOK /\ Progress /\ Launched /\ SlotBySlot /\ Within

\* Every process has a number of agents and of ratios, and a span of ports.
LEMMA ProcessNumbers ==
  ASSUME NEW p \in Procs
  PROVE  /\ Agents[p] \in Nat \ {0} /\ Ratios(p) \in Nat \ {0}
         /\ Span(p) \in Nat
<1>1. Agents[p] \in Nat \ {0} /\ Ratios(p) \in Nat \ {0}
  BY RowsAssumption, PortsAssumption DEF Ratios
<1>2. (Ratios(p) - 1) * (Agents[p] + Gap) \in Nat
  BY <1>1, PortsAssumption
<1> QED
  BY <1>1, <1>2 DEF Span

\* The lines a process appends are lines.
LEMMA LinesAreLines ==
  ASSUME TypeOK, NEW p \in Procs
  PROVE  Lines(p) \in Seq(Int) /\ Rows(p) \in Seq(Int)
<1>1. Rows(p) \in Seq(Int)
  BY DEF Rows, TypeOK
<1> QED
  BY <1>1 DEF Lines, Header

\* What a failed write leaves is a beginning of the lines.
LEMMA BeginningIsLines ==
  ASSUME NEW s \in Seq(Int), NEW n \in 0 .. Len(s) - 1
  PROVE  SubSeq(s, 1, n) \in Seq(Int)
OBVIOUS

LEMMA TypeInit == Init => TypeOK
<1> SUFFICES ASSUME Init PROVE TypeOK
  OBVIOUS
<1>1. 0 \in Slots
  BY PortsAssumption DEF Slots
<1>2. Earlier \in Seq(Int) /\ <<>> \in Seq(Int)
  BY DEF Earlier, Header, Old
<1>3. started \in BOOLEAN
  BY DEF Init
<1>4. \A p \in Procs : scenario[p] <= Ratios(p) /\ opened[p] <= Agents[p] + 1
  BY ProcessNumbers DEF Init
<1>5. file \in [Procs -> Seq(Int)]
  BY <1>2 DEF Init
<1> QED
  BY <1>1, <1>3, <1>4, <1>5 DEF Init, TypeOK, NotYet

\* A failed or finished Byzantine count is a number.
LEMMA CountIsInt ==
  ASSUME NEW p \in Tasks, NEW m \in Decimals(Predicted[p], Agents[p]),
         NEW r \in Floor(m, Agents[p])
  PROVE  r \in Int
<1>1. Agents[p] \in Nat \ {0} /\ Predicted[p] \in Nat
  BY RowsAssumption
<1>2. Predicted[p] * Million \in Nat
  BY <1>1, MillionIsNat
<1>3. m \in Int
  BY <1>1, <1>2, Division DEF Decimals
<1>4. m * Agents[p] \in Int
  BY <1>1, <1>3
<1>5. (m * Agents[p]) \div Million \in Int
  BY <1>4, MillionIsNat
<1> QED
  BY <1>1, <1>5 DEF Floor, Clamp

\* A process that starts keeps the types.
LEMMA TypeStart ==
  ASSUME TypeOK, NEW p \in Procs, NEW base \in Nat, Start(p, base)
  PROVE  /\ pc' \in [Procs -> {"off"} \cup Running \cup Ended]
         /\ port' \in [Procs -> Nat]
         /\ byzantine' \in [Tasks -> Int]
<1>1. byzantine' \in [Tasks -> Int]
  BY CountIsInt DEF Start, TypeOK
<1> QED
  BY <1>1 DEF Start, TypeOK, Running, Ended

\* A scenario uses a finite set of ports.
LEMMA PortsAreFinite ==
  ASSUME port \in [Procs -> Nat], NEW p \in Procs, NEW s \in Nat
  PROVE  /\ ScenarioPort(p, s) \in Nat
         /\ PortsOf(p, s) \subseteq Nat /\ IsFiniteSet(PortsOf(p, s))
<1> DEFINE a == ScenarioPort(p, s)
<1>1. a \in Nat
  <2>1. Agents[p] + Gap \in Nat
    BY ProcessNumbers, PortsAssumption
  <2>2. s * (Agents[p] + Gap) \in Nat
    BY <2>1
  <2> QED
    BY <2>2 DEF ScenarioPort
<1>2. Agents[p] \in Nat
  BY ProcessNumbers
<1> HIDE DEF a
<1>3. {a + i : i \in 0 .. Agents[p]} \subseteq a .. a + Agents[p]
  BY <1>1, <1>2
<1>4. IsFiniteSet(a .. a + Agents[p])
  <2>1. a \in Int /\ a + Agents[p] \in Int
    BY <1>1, <1>2
  <2> QED
    BY <2>1, FS_Interval
<1>5. IsFiniteSet({a + i : i \in 0 .. Agents[p]})
  BY <1>3, <1>4, FS_Subset
<1>6. {a + i : i \in 0 .. Agents[p]} \subseteq Nat
  BY <1>1, <1>2
<1> QED
  BY <1>1, <1>5, <1>6 DEF PortsOf, a

\* So is the next port a process opens.
LEMMA NextPortIsNat ==
  ASSUME TypeOK, NEW p \in Procs
  PROVE  NextPort(p) \in Nat
<1>1. port \in [Procs -> Nat] /\ scenario[p] \in Nat /\ opened[p] \in Nat
  BY DEF TypeOK
<1>2. ScenarioPort(p, scenario[p]) \in Nat
  BY <1>1, PortsAreFinite
<1> QED
  BY <1>1, <1>2 DEF NextPort

\* Every step keeps the types.
LEMMA TypeNext == TypeOK /\ Progress /\ [Next]_vars => TypeOK'
<1> SUFFICES ASSUME TypeOK, Progress, [Next]_vars PROVE TypeOK'
  OBVIOUS
<1> USE DEF runnerVars, processVars, envVars
<1>1. CASE Load
  BY <1>1 DEF Load, TypeOK
<1>2. ASSUME NEW t \in Tasks, Take(t) PROVE TypeOK'
  BY <1>2 DEF Take, TypeOK
<1>3. ASSUME NEW t \in Tasks, Launch(t) PROVE TypeOK'
  <2>1. PortBase + slot[t] * PortStride \in Nat
    <3>1. slot[t] \in Nat /\ PortStride \in Nat /\ PortBase \in Nat
      BY PortsAssumption DEF TypeOK, Slots
    <3>2. slot[t] * PortStride \in Nat
      BY <3>1
    <3> QED
      BY <3>1, <3>2
  <2>2. t \in Procs /\ Start(t, PortBase + slot[t] * PortStride)
    BY <1>3, RowsAssumption DEF Launch
  <2> QED
    BY <1>3, <2>1, <2>2, TypeStart DEF Launch, Start, TypeOK
<1>4. ASSUME NEW t \in Tasks, Raise(t) \/ Reap(t) PROVE TypeOK'
  <2>1. PutBack(t) /\ faults' \in Nat
    BY <1>4 DEF Raise, Reap, Fault, TypeOK
  <2> QED
    BY <2>1 DEF PutBack, TypeOK
<1>5. ASSUME NEW p \in Procs, Bind(p) PROVE TypeOK'
  <2>1. NextPort(p) \in Nat
    BY NextPortIsNat
  <2>2. opened[p] + 1 <= Agents[p] + 1
    BY <1>5, ProcessNumbers DEF Bind, Progress, TypeOK
  <2> QED
    <3>1. listening' \in [Procs -> SUBSET Nat]
      <4>1. listening[p] \cup {NextPort(p)} \in SUBSET Nat
        BY <2>1 DEF TypeOK
      <4>2. listening' = [listening EXCEPT ![p] = @ \cup {NextPort(p)}]
        BY <1>5 DEF Bind
      <4> QED
        BY <4>1, <4>2 DEF TypeOK
    <3>2. opened' = [opened EXCEPT ![p] = @ + 1]
      BY <1>5 DEF Bind
    <3>3. opened' \in [Procs -> Nat] /\ \A q \in Procs : opened'[q] <= Agents[q] + 1
      BY <2>2, <3>2 DEF TypeOK
    <3>4. pc' \in [Procs -> {"off"} \cup Running \cup Ended]
      BY <1>5 DEF Bind, TypeOK, Running
    <3> QED
      BY <1>5, <3>1, <3>3, <3>4 DEF Bind, TypeOK
<1>6. ASSUME NEW p \in Procs, Refused(p) \/ MeasureFails(p) PROVE TypeOK'
  <2>1. Die(p) /\ UNCHANGED <<runnerVars, torn, delays>> /\ faults' \in Nat
    BY <1>6 DEF Refused, MeasureFails, Fault, TypeOK
  <2> QED
    BY <2>1 DEF Die, TypeOK, Ended
<1>7. ASSUME NEW p \in Procs, Measure(p) PROVE TypeOK'
  <2>2. PortsOf(p, scenario[p]) \subseteq Nat /\ IsFiniteSet(PortsOf(p, scenario[p]))
    BY PortsAreFinite DEF TypeOK
  <2>3. PICK unseen \in SUBSET PortsOf(p, scenario[p]) :
          /\ delays' = delays + Cardinality(unseen)
          /\ listening' = [listening EXCEPT ![p] =
               (@ \ PortsOf(p, scenario[p])) \cup unseen]
    BY <1>7 DEF Measure
  <2>4. Cardinality(unseen) \in Nat
    <3>1. IsFiniteSet(unseen)
      BY <2>2, FS_Subset
    <3> QED
      BY <3>1, FS_CardinalityType
  <2>5. listening' \in [Procs -> SUBSET Nat] /\ delays' \in Nat
    BY <2>2, <2>3, <2>4 DEF TypeOK
  <2>6. scenario[p] < Ratios(p) /\ Ratios(p) \in Nat /\ scenario[p] \in Nat
    BY <1>7, ProcessNumbers DEF Measure, Progress, TypeOK
  <2>7. \A q \in Procs : scenario'[q] <= Ratios(q)
    BY <1>7, <2>6 DEF Measure, TypeOK
  <2>8. \A q \in Procs : opened'[q] <= Agents[q] + 1
    <3>1. opened' = [opened EXCEPT ![p] = 0]
      BY <1>7 DEF Measure
    <3>2. \A q \in Procs : Agents[q] \in Nat
      BY ProcessNumbers
    <3> QED
      BY <3>1, <3>2 DEF TypeOK
  <2> QED
    BY <1>7, <2>5, <2>7, <2>8 DEF Measure, TypeOK, Running
<1>8. ASSUME NEW p \in Procs, Report(p) PROVE TypeOK'
  <2>1. Lines(p) \in Seq(Int) /\ file[p] \in Seq(Int)
    BY LinesAreLines DEF TypeOK
  <2>2. \A n \in 0 .. Len(Lines(p)) - 1 : SubSeq(Lines(p), 1, n) \in Seq(Int)
    BY <2>1, BeginningIsLines
  <2>3. \A s \in Seq(Int) : file[p] \o s \in Seq(Int)
    BY <2>1
  <2>4. file' \in [Procs -> Seq(Int)]
    <3>1. PICK s \in Seq(Int) :
            file' = file \/ file' = [file EXCEPT ![p] = @ \o s]
      BY <1>8, <2>1, <2>2 DEF Report
    <3>2. file[p] \o s \in Seq(Int)
      BY <2>3
    <3> QED
      BY <3>1, <3>2 DEF TypeOK
  <2>5. pc' \in [Procs -> {"off"} \cup Running \cup Ended]
    BY <1>8 DEF Report, TypeOK, Ended
  <2>6. faults' \in Nat /\ torn' \in Nat
    BY <1>8 DEF Report, Fault, TypeOK
  <2> QED
    BY <1>8, <2>4, <2>5, <2>6 DEF Report, TypeOK
<1>9. CASE RunByHand
  <2>1. Hand \in Procs /\ HandPort \in Nat
    BY RowsAssumption, PortsAssumption
  <2> QED
    BY <1>9, <2>1, TypeStart DEF RunByHand, Start, TypeOK
<1>10. ASSUME NEW p \in Procs, CloseLate(p) PROVE TypeOK'
  BY <1>10 DEF CloseLate, TypeOK
<1>11. CASE UNCHANGED vars
  BY <1>11 DEF TypeOK, vars
<1> QED
  BY <1>1, <1>2, <1>3, <1>4, <1>5, <1>6, <1>7, <1>8, <1>9, <1>10, <1>11
     DEF Next, Program, TaskStep, ProcessStep

\* Where a process is agrees with what it has done.
LEMMA ProgressNext ==
  TypeOK /\ Progress /\ Launched /\ [Next]_vars => Progress'
<1> SUFFICES ASSUME TypeOK, Progress, Launched, [Next]_vars PROVE Progress'
  OBVIOUS
<1> USE DEF runnerVars, processVars, envVars
<1>0. \A p \in Procs : Agents[p] \in Nat \ {0} /\ Ratios(p) \in Nat \ {0}
  BY ProcessNumbers
<1>1. ASSUME NEW p \in Procs, NEW base, pc[p] = "off", Start(p, base)
      PROVE  Progress'
  BY <1>0, <1>1 DEF Start, Progress, TypeOK
<1>2. ASSUME NEW t \in Tasks, Launch(t) PROVE Progress'
  BY <1>1, <1>2, RowsAssumption DEF Launch, Launched
<1>3. CASE RunByHand
  BY <1>1, <1>3, RowsAssumption DEF RunByHand
<1>4. ASSUME NEW p \in Procs, Bind(p) PROVE Progress'
  BY <1>0, <1>4 DEF Bind, Progress, TypeOK
<1>5. ASSUME NEW p \in Procs, Measure(p) PROVE Progress'
  <2>1. scenario[p] \in Nat /\ scenario[p] < Ratios(p)
    BY <1>5 DEF Measure, Progress, TypeOK
  <2>2. /\ scenario' = [scenario EXCEPT ![p] = @ + 1]
        /\ opened' = [opened EXCEPT ![p] = 0]
        /\ pc' = [pc EXCEPT ![p] =
                    IF scenario[p] + 1 = Ratios(p) THEN "report" ELSE "bind"]
    BY <1>5 DEF Measure
  <2> QED
    BY <1>0, <2>1, <2>2 DEF Progress, TypeOK
<1>6. ASSUME NEW p \in Procs, Refused(p) \/ MeasureFails(p) PROVE Progress'
  <2>1. Die(p)
    BY <1>6 DEF Refused, MeasureFails
  <2> QED
    BY <2>1 DEF Die, Progress, TypeOK
<1>7. ASSUME NEW p \in Procs, Report(p) PROVE Progress'
  <2>1. /\ UNCHANGED <<scenario, opened>>
        /\ \E e \in Ended : pc' = [pc EXCEPT ![p] = e]
    BY <1>7 DEF Report, Ended
  <2> QED
    BY <2>1 DEF Progress, TypeOK, Ended
<1>8. ASSUME UNCHANGED <<pc, scenario, opened>> PROVE Progress'
  BY <1>8 DEF Progress
<1>9. ASSUME NEW t \in Tasks, Take(t) \/ Raise(t) \/ Reap(t)
      PROVE  UNCHANGED <<pc, scenario, opened>>
  BY <1>9 DEF Take, Raise, Reap, PutBack
<1>10. Load \/ (\E p \in Procs : CloseLate(p)) \/ UNCHANGED vars
         => UNCHANGED <<pc, scenario, opened>>
  BY DEF Load, CloseLate, vars
<1> QED
  BY <1>2, <1>3, <1>4, <1>5, <1>6, <1>7, <1>8, <1>9, <1>10
     DEF Next, Program, TaskStep, ProcessStep

\* A process that takes a step has been started.
LEMMA LaunchedNext ==
  TypeOK /\ Launched /\ [Next]_vars => Launched'
<1> SUFFICES ASSUME TypeOK, Launched, [Next]_vars PROVE Launched'
  OBVIOUS
<1> USE DEF runnerVars, processVars, envVars
<1>1. ASSUME NEW t \in Tasks, Take(t) PROVE Launched'
  BY <1>1 DEF Take, Launched, TypeOK
<1>2. ASSUME NEW t \in Tasks, Launch(t) PROVE Launched'
  BY <1>2 DEF Launch, Start, Launched, TypeOK
<1>3. ASSUME NEW t \in Tasks, Raise(t) \/ Reap(t) PROVE Launched'
  <2>1. PutBack(t)
    BY <1>3 DEF Raise, Reap
  <2> QED
    BY <2>1 DEF PutBack, Launched, TypeOK
<1>4. ASSUME NEW p \in Procs, ProcessStep(p) PROVE Launched'
  <2>1. pc[p] # "off" /\ UNCHANGED thread
    BY <1>4 DEF ProcessStep, Bind, Refused, Measure, MeasureFails, Report
  <2>2. \E v : pc' = [pc EXCEPT ![p] = v]
    BY <1>4 DEF ProcessStep, Bind, Refused, Measure, MeasureFails, Report, Die
  <2> QED
    BY <2>1, <2>2, RowsAssumption DEF Launched, TypeOK
<1>5. CASE RunByHand
  BY <1>5, RowsAssumption DEF RunByHand, Start, Launched, TypeOK
<1>6. ASSUME UNCHANGED <<pc, thread>> PROVE Launched'
  BY <1>6 DEF Launched
<1>7. Load \/ (\E p \in Procs : CloseLate(p)) \/ UNCHANGED vars
         => UNCHANGED <<pc, thread>>
  BY DEF Load, CloseLate, vars
<1> QED
  BY <1>1, <1>2, <1>3, <1>4, <1>5, <1>6, <1>7 DEF Next, Program, TaskStep

\* What SlotBySlot says is what SlotsConserved says.
LEMMA SlotsMeanSlotBySlot == TypeOK => (SlotsConserved <=> SlotBySlot)
<1> SUFFICES ASSUME TypeOK PROVE SlotsConserved <=> SlotBySlot
  OBVIOUS
<1>1. pool \subseteq Slots /\ \A t \in Holders : slot[t] \in Slots
  BY DEF TypeOK, Holders
<1>2. pool \cup {slot[t] : t \in Holders} = Slots
        <=> \A s \in Slots : s \in pool \/ \E t \in Holders : slot[t] = s
  BY <1>1
<1> QED
  BY <1>2 DEF SlotsConserved, SlotBySlot

\* A slot stays in the pool or with one task.
LEMMA SlotsNext ==
  TypeOK /\ Launched /\ SlotBySlot /\ [Next]_vars => SlotBySlot'
<1> SUFFICES ASSUME TypeOK, Launched, SlotBySlot, [Next]_vars
             PROVE  SlotBySlot'
  OBVIOUS
<1> USE DEF runnerVars, processVars, envVars
<1>1. ASSUME NEW t \in Tasks, Take(t) PROVE SlotBySlot'
  BY <1>1 DEF Take, Holders, SlotBySlot, TypeOK
<1>2. ASSUME NEW t \in Tasks, Launch(t) PROVE SlotBySlot'
  <2>1. /\ thread[t] = "slot" /\ thread' = [thread EXCEPT ![t] = "process"]
        /\ UNCHANGED <<pool, slot>>
        /\ \E v : pc' = [pc EXCEPT ![t] = v]
    BY <1>2 DEF Launch, Start
  <2>2. Holders' = Holders
    BY <2>1 DEF Holders, TypeOK
  <2>3. \A u \in Tasks : pc'[u] \in Running => thread'[u] = "process"
    BY <2>1 DEF SlotBySlot, TypeOK
  <2> QED
    BY <2>1, <2>2, <2>3 DEF SlotBySlot
<1>3. ASSUME NEW t \in Tasks, Raise(t) \/ Reap(t) PROVE SlotBySlot'
  <2>1. /\ t \in Holders /\ UNCHANGED <<pc, slot>>
        /\ pool' = pool \cup {slot[t]}
        /\ thread' = [thread EXCEPT ![t] = "over"]
        /\ pc[t] \notin Running
    BY <1>3 DEF Raise, Reap, PutBack, Holders, Launched, Running, Ended
  <2>2. Holders' = Holders \ {t}
    BY <2>1 DEF Holders, TypeOK
  <2> QED
    BY <2>1, <2>2 DEF SlotBySlot, TypeOK
<1>4. ASSUME NEW p \in Procs, ProcessStep(p) PROVE SlotBySlot'
  <2>1. pc[p] \in Running /\ UNCHANGED <<thread, pool, slot>>
    BY <1>4 DEF ProcessStep, Bind, Refused, Measure, MeasureFails, Report,
                Running
  <2>2. \E v : pc' = [pc EXCEPT ![p] = v]
    BY <1>4 DEF ProcessStep, Bind, Refused, Measure, MeasureFails, Report, Die
  <2>3. \A t \in Tasks : pc'[t] \in Running => pc[t] \in Running
    BY <2>1, <2>2 DEF TypeOK
  <2> QED
    BY <2>1, <2>3 DEF Holders, SlotBySlot
<1>5. CASE RunByHand
  <2>1. UNCHANGED <<thread, pool, slot>> /\ \A t \in Tasks : pc'[t] = pc[t]
    BY <1>5, RowsAssumption DEF RunByHand, Start, TypeOK
  <2> QED
    BY <2>1 DEF Holders, SlotBySlot
<1>6. ASSUME UNCHANGED <<pc, thread, pool, slot>> PROVE SlotBySlot'
  BY <1>6 DEF Holders, SlotBySlot
<1>7. Load \/ (\E p \in Procs : CloseLate(p)) \/ UNCHANGED vars
         => UNCHANGED <<pc, thread, pool, slot>>
  BY DEF Load, CloseLate, vars
<1> QED
  BY <1>1, <1>2, <1>3, <1>4, <1>5, <1>6, <1>7 DEF Next, Program, TaskStep

\* The ports of a scenario lie in the span of the process.
LEMMA InSpan ==
  ASSUME TypeOK, NEW p \in Procs, NEW s \in Nat, s < Ratios(p),
         NEW i \in 0 .. Agents[p]
  PROVE  /\ ScenarioPort(p, s) + i >= port[p]
         /\ ScenarioPort(p, s) + i < port[p] + Span(p)
<1> DEFINE w == Agents[p] + Gap
           r == Ratios(p) - 1 - s
<1>1. Agents[p] \in Nat /\ w \in Nat /\ Ratios(p) \in Nat /\ port[p] \in Nat
  BY ProcessNumbers, PortsAssumption DEF TypeOK
<1>2. r \in Nat /\ Ratios(p) - 1 = s + r
  BY <1>1
<1> HIDE DEF w, r
<1>3. r * w \in Nat /\ s * w \in Nat /\ (s + r) * w = s * w + r * w
  BY <1>1, <1>2
<1>4. Span(p) = s * w + r * w + Agents[p] + 1
  BY <1>2, <1>3 DEF Span, w
<1>5. ScenarioPort(p, s) = port[p] + s * w
  BY DEF ScenarioPort, w
<1> QED
  BY <1>1, <1>3, <1>4, <1>5

\* The ports of a scenario come before those of the next.
LEMMA NextScenario ==
  ASSUME TypeOK, NEW p \in Procs, NEW s \in Nat
  PROVE  ScenarioPort(p, s + 1) = ScenarioPort(p, s) + Agents[p] + Gap
<1> DEFINE w == Agents[p] + Gap
<1>1. w \in Nat /\ Agents[p] \in Nat /\ Gap \in Nat /\ port[p] \in Nat
  BY ProcessNumbers, PortsAssumption DEF TypeOK
<1> HIDE DEF w
<1>2. s * w \in Nat /\ (s + 1) * w = s * w + w
  BY <1>1
<1>3. /\ ScenarioPort(p, s) = port[p] + s * w
      /\ ScenarioPort(p, s + 1) = port[p] + (s + 1) * w
  BY DEF ScenarioPort, w
<1> QED
  BY <1>1, <1>2, <1>3 DEF w

\* A process that is not touched stays within its span; Take moves the slot of
\* a task that has no process.
LEMMA WithinOthers ==
  ASSUME TypeOK, Launched, [Next]_vars, NEW q \in Procs, WithinOf(q),
         UNCHANGED <<pc[q], port[q], listening[q], scenario[q], opened[q]>>
  PROVE  WithinOf(q)'
<1> USE DEF runnerVars, processVars, envVars
<1>1. q \in Tasks /\ pc[q] \in Running => slot'[q] = slot[q]
  <2>1. ASSUME NEW t \in Tasks, Take(t)
        PROVE  q \in Tasks /\ pc[q] \in Running => slot'[q] = slot[q]
    <3>1. pc[t] = "off" /\ slot \in [Tasks -> Slots]
      BY <2>1 DEF Take, Launched, TypeOK
    <3> QED
      BY <2>1, <3>1 DEF Take, Running
  <2>2. ASSUME NEW t \in Tasks, Launch(t) \/ Raise(t) \/ Reap(t)
        PROVE  UNCHANGED slot
    BY <2>2 DEF Launch, Raise, Reap, PutBack
  <2>3. ASSUME NEW p \in Procs, ProcessStep(p) \/ CloseLate(p)
        PROVE  UNCHANGED slot
    BY <2>3 DEF ProcessStep, Bind, Refused, Measure, MeasureFails, Report,
                CloseLate
  <2>4. Load \/ RunByHand \/ UNCHANGED vars => UNCHANGED slot
    BY DEF Load, RunByHand, vars
  <2> QED
    BY <2>1, <2>2, <2>3, <2>4 DEF Next, Program, TaskStep
<1>2. pc[q] \in Running => Home(q)' = Home(q)
  BY <1>1, RowsAssumption DEF Home
<1>3. ScenarioPort(q, scenario[q])' = ScenarioPort(q, scenario[q])
  BY DEF ScenarioPort
<1>4. NextPort(q)' = NextPort(q)
  BY <1>3 DEF NextPort
<1> QED
  BY <1>2, <1>4 DEF WithinOf, Span, Ratios

\* A process listens within its span after every step.
LEMMA WithinNext ==
  TypeOK /\ TypeOK' /\ Progress /\ Launched /\ Within /\ [Next]_vars => Within'
<1> SUFFICES ASSUME TypeOK, TypeOK', Progress, Launched, Within, [Next]_vars,
                    NEW q \in Procs
             PROVE  WithinOf(q)'
  BY DEF Within
<1> USE DEF runnerVars, processVars, envVars
<1>0. WithinOf(q)
  BY DEF Within
<1>1. ASSUME UNCHANGED <<pc[q], port[q], listening[q], scenario[q], opened[q]>>
      PROVE  WithinOf(q)'
  BY <1>0, <1>1, WithinOthers
<1>2. ASSUME Bind(q) PROVE WithinOf(q)'
  <2>1. /\ pc[q] = "bind" /\ UNCHANGED <<port, scenario, slot>>
        /\ listening'[q] = listening[q] \cup {NextPort(q)}
        /\ opened'[q] = opened[q] + 1
        /\ pc'[q] \in {"bind", "run"}
    BY <1>2 DEF Bind, TypeOK
  <2>2. /\ scenario[q] \in Nat /\ scenario[q] < Ratios(q)
        /\ opened[q] \in 0 .. Agents[q]
    BY <2>1, ProcessNumbers DEF Progress, TypeOK
  <2>3. /\ NextPort(q) >= port[q] /\ NextPort(q) < port[q] + Span(q)
    BY <2>2, InSpan DEF NextPort
  <2>4. NextPort(q)' = NextPort(q) + 1
    <3>1. ScenarioPort(q, scenario[q])' = ScenarioPort(q, scenario[q])
      BY <2>1 DEF ScenarioPort
    <3>2. ScenarioPort(q, scenario[q]) \in Nat
      BY <2>2, PortsAreFinite DEF TypeOK
    <3> QED
      BY <2>1, <2>2, <3>1, <3>2 DEF NextPort
  <2>5. NextPort(q) \in Nat /\ listening[q] \subseteq Nat
    BY NextPortIsNat DEF TypeOK
  <2>6. \A x \in listening'[q] : x < NextPort(q) + 1
    BY <1>0, <2>1, <2>5 DEF WithinOf
  <2>7. port'[q] = Home(q)' /\ pc'[q] \in Running
    BY <1>0, <2>1 DEF WithinOf, Home, Running
  <2>8. \A x \in listening'[q] : port'[q] <= x /\ x < port'[q] + Span(q)
    BY <1>0, <2>1, <2>3 DEF WithinOf
  <2> QED
    BY <2>4, <2>6, <2>7, <2>8 DEF WithinOf, Span, Ratios
<1>3. ASSUME Measure(q) PROVE WithinOf(q)'
  <2>1. /\ pc[q] = "run" /\ UNCHANGED <<port, slot>>
        /\ scenario'[q] = scenario[q] + 1 /\ opened'[q] = 0
        /\ pc'[q] \in {"bind", "report"}
    BY <1>3 DEF Measure, TypeOK
  <2>2. listening'[q] \subseteq listening[q] \cup PortsOf(q, scenario[q])
    BY <1>3 DEF Measure, TypeOK
  <2>3. /\ scenario[q] \in Nat /\ scenario[q] < Ratios(q)
        /\ opened[q] = Agents[q] + 1
    BY <2>1 DEF Progress, TypeOK
  <2>4. ScenarioPort(q, scenario[q]) \in Nat /\ Agents[q] \in Nat /\ Gap \in Nat \ {0}
    BY <2>3, PortsAreFinite, ProcessNumbers, PortsAssumption DEF TypeOK
  <2>5. NextPort(q) = ScenarioPort(q, scenario[q]) + Agents[q] + 1
    BY <2>3, <2>4 DEF NextPort
  <2>6. \A x \in PortsOf(q, scenario[q]) :
          /\ port[q] <= x /\ x < port[q] + Span(q) /\ x < NextPort(q)
    BY <2>3, <2>4, <2>5, InSpan DEF PortsOf
  <2>7. \A x \in listening'[q] :
          /\ port'[q] <= x /\ x < port'[q] + Span(q) /\ x < NextPort(q)
    BY <1>0, <2>1, <2>2, <2>6 DEF WithinOf
  <2>8. NextPort(q)' >= NextPort(q)
    <3>1. ScenarioPort(q, scenario[q] + 1)
            = ScenarioPort(q, scenario[q]) + Agents[q] + Gap
      BY <2>3, NextScenario
    <3>2. NextPort(q)' = ScenarioPort(q, scenario[q] + 1) + 0
      BY <2>1 DEF NextPort, ScenarioPort
    <3> QED
      BY <2>4, <2>5, <3>1, <3>2
  <2>9. NextPort(q) \in Nat /\ NextPort(q)' \in Nat /\ listening'[q] \subseteq Nat
    <3>1. NextPort(q)' \in Nat
      BY <2>1, <2>3, <2>4, NextScenario DEF NextPort, ScenarioPort
    <3> QED
      BY <3>1, NextPortIsNat DEF TypeOK
  <2>10. port'[q] = Home(q)' /\ pc'[q] \in Running
    BY <1>0, <2>1 DEF WithinOf, Home, Running
  <2>11. \A x \in listening'[q] : x < NextPort(q)'
    BY <2>7, <2>8, <2>9
  <2> QED
    BY <2>7, <2>10, <2>11 DEF WithinOf, Span, Ratios
<1>4. ASSUME Refused(q) \/ MeasureFails(q) PROVE WithinOf(q)'
  <2>1. pc'[q] = "error" /\ listening'[q] = {}
    BY <1>4 DEF Refused, MeasureFails, Die, TypeOK
  <2> QED
    BY <2>1 DEF WithinOf, Running
<1>5. ASSUME Report(q) PROVE WithinOf(q)'
  <2>1. pc'[q] \in Ended /\ listening'[q] = {}
    BY <1>5 DEF Report, Ended, TypeOK
  <2> QED
    BY <2>1 DEF WithinOf, Running, Ended
<1>6. ASSUME pc[q] = "off", port'[q] = Home(q)', pc'[q] \in {"bind", "error"},
             UNCHANGED listening
      PROVE  WithinOf(q)'
  BY <1>0, <1>6 DEF WithinOf, Running
<1>7. ASSUME NEW t \in Tasks, Launch(t) PROVE WithinOf(q)'
  <2>1. CASE t = q
    <3>1. pc[q] = "off" /\ q # Hand
      BY <1>7, <2>1, RowsAssumption DEF Launch, Launched
    <3>2. /\ port'[q] = PortBase + slot[q] * PortStride
          /\ pc'[q] \in {"bind", "error"} /\ UNCHANGED <<listening, slot>>
      BY <1>7, <2>1 DEF Launch, Start, TypeOK
    <3> QED
      BY <1>6, <3>1, <3>2 DEF Home
  <2>2. CASE t # q
    BY <1>1, <1>7, <2>2 DEF Launch, Start, TypeOK
  <2> QED
    BY <2>1, <2>2
<1>8. CASE RunByHand
  <2>1. CASE q = Hand
    <3>1. /\ pc[q] = "off" /\ port'[q] = HandPort
          /\ pc'[q] \in {"bind", "error"} /\ UNCHANGED listening
      BY <1>8, <2>1 DEF RunByHand, Start, TypeOK
    <3> QED
      BY <1>6, <2>1, <3>1 DEF Home
  <2>2. CASE q # Hand
    BY <1>1, <1>8, <2>2 DEF RunByHand, Start, TypeOK
  <2> QED
    BY <2>1, <2>2
<1>9. ASSUME CloseLate(q) PROVE WithinOf(q)'
  <2>1. /\ UNCHANGED <<pc, port, scenario, opened, slot>>
        /\ listening'[q] \subseteq listening[q]
    BY <1>9 DEF CloseLate, TypeOK
  <2>2. NextPort(q)' = NextPort(q) /\ Home(q)' = Home(q)
    BY <2>1 DEF NextPort, ScenarioPort, Home
  <2>3. pc[q] \notin Running => listening'[q] = {}
    BY <1>0, <2>1 DEF WithinOf
  <2>4. \A x \in listening'[q] : x \in listening[q]
    BY <2>1
  <2> QED
    BY <1>0, <2>1, <2>2, <2>3, <2>4 DEF WithinOf, Span, Ratios
<1>10. ASSUME NEW p \in Procs, p # q, ProcessStep(p) \/ CloseLate(p)
       PROVE  WithinOf(q)'
  <2>1. UNCHANGED <<pc[q], port[q], listening[q], scenario[q], opened[q]>>
    BY <1>10 DEF ProcessStep, Bind, Refused, Measure, MeasureFails, Report,
                 CloseLate, Die, TypeOK
  <2> QED
    BY <1>1, <2>1
<1>11. ASSUME UNCHANGED processVars PROVE WithinOf(q)'
  BY <1>1, <1>11
<1>12. ASSUME NEW t \in Tasks, Take(t) \/ Raise(t) \/ Reap(t)
       PROVE  UNCHANGED processVars
  BY <1>12 DEF Take, Raise, Reap, PutBack
<1>13. Load \/ UNCHANGED vars => UNCHANGED processVars
  BY DEF Load, vars
<1> QED
  BY <1>2, <1>3, <1>4, <1>5, <1>7, <1>8, <1>9, <1>10, <1>11, <1>12, <1>13
     DEF Next, Program, TaskStep, ProcessStep

\* Nothing has been started and all slots are in the pool.
LEMMA InvInit == Init => Inv
<1> SUFFICES ASSUME Init PROVE Inv
  OBVIOUS
<1>1. TypeOK
  BY TypeInit
<1>2. Progress /\ Launched
  BY RowsAssumption DEF Init, Progress, Launched
<1>3. SlotBySlot
  BY RowsAssumption DEF Init, SlotBySlot, Holders, Running
<1>4. Within
  BY DEF Init, Within, WithinOf, Running
<1> QED
  BY <1>1, <1>2, <1>3, <1>4 DEF Inv

\* Inv is inductive.
LEMMA InvNext == Inv /\ [Next]_vars => Inv'
<1> SUFFICES ASSUME Inv, [Next]_vars PROVE Inv'
  OBVIOUS
<1>1. TypeOK'
  BY TypeNext DEF Inv
<1>2. Progress' /\ Launched'
  BY ProgressNext, LaunchedNext DEF Inv
<1>3. SlotBySlot'
  BY SlotsNext DEF Inv
<1>4. Within'
  BY <1>1, WithinNext DEF Inv
<1> QED
  BY <1>1, <1>2, <1>3, <1>4 DEF Inv

\* So it holds throughout.
LEMMA Invariance == Spec => []Inv
BY InvInit, InvNext, PTL DEF Spec

\* Every variable keeps its type, for every grid, pool and layout of ports.
THEOREM TypeCorrect == Spec => []TypeOK
<1>1. Inv => TypeOK
  BY DEF Inv
<1> QED
  BY <1>1, Invariance, PTL

\* run_grid_multiseed.py never loses a slot nor gives it to two tasks, and a
\* process runs only while its task holds one.
THEOREM SlotsCorrect == Spec => []SlotsConserved
<1>1. Inv => SlotsConserved
  BY SlotsMeanSlotBySlot DEF Inv
<1> QED
  BY <1>1, Invariance, PTL

\* Two slots that differ are apart by at least the stride.
LEMMA SlotsApart ==
  ASSUME NEW a \in Nat, NEW b \in Nat, a < b
  PROVE  PortBase + a * PortStride + PortStride <= PortBase + b * PortStride
<1>1. PortBase \in Nat /\ PortStride \in Nat
  BY PortsAssumption
<1>2. PICK d \in Nat : b = a + d + 1
  <2>1. b - a - 1 \in Nat /\ b = a + (b - a - 1) + 1
    OBVIOUS
  <2> QED
    BY <2>1
<1>3. (a + d + 1) * PortStride = a * PortStride + d * PortStride + PortStride
  BY <1>1
<1>4. a * PortStride \in Nat /\ d * PortStride \in Nat
  BY <1>1
<1> QED
  BY <1>1, <1>2, <1>3, <1>4

\* Two processes that run have shares of the ports that do not meet.
LEMMA SharesApart ==
  ASSUME Inv, Fits, NEW p \in Procs, NEW q \in Procs, p # q,
         pc[p] \in Running, pc[q] \in Running
  PROVE  \/ port[p] + Span(p) <= port[q]
         \/ port[q] + Span(q) <= port[p]
<1> USE DEF Inv
<1>1. ASSUME NEW t \in Tasks, pc[t] \in Running
      PROVE  /\ t \in Procs /\ t # Hand /\ t \in Holders
             /\ slot[t] \in Nat /\ port[t] = PortBase + slot[t] * PortStride
             /\ slot[t] * PortStride \in Nat /\ port[t] \in Nat
             /\ Span(t) \in Nat /\ Span(t) <= PortStride
  <2>1. t \in Procs /\ t # Hand
    BY <1>1, RowsAssumption
  <2>2. t \in Holders
    BY <1>1 DEF SlotBySlot, Holders
  <2>3. slot[t] \in Nat /\ PortStride \in Nat
    BY <1>1, PortsAssumption DEF TypeOK, Slots
  <2>4. slot[t] * PortStride \in Nat
    BY <2>3
  <2> QED
    BY <1>1, <2>1, <2>2, <2>3, <2>4, ProcessNumbers
       DEF Within, WithinOf, Home, Fits, TypeOK
<1>2. ASSUME NEW t \in Tasks, pc[t] \in Running, pc[Hand] \in Running
      PROVE  port[Hand] + Span(Hand) <= port[t]
  <2>1. port[Hand] = HandPort
    BY <1>2, RowsAssumption DEF Within, WithinOf, Home
  <2>2. HandPort + Span(Hand) <= PortBase /\ Span(Hand) \in Nat
    BY RowsAssumption, ProcessNumbers DEF Fits
  <2> QED
    BY <1>1, <1>2, <2>1, <2>2, PortsAssumption
<1>3. ASSUME NEW t \in Tasks, NEW u \in Tasks, pc[t] \in Running,
             pc[u] \in Running, slot[t] < slot[u]
      PROVE  port[t] + Span(t) <= port[u]
  <2>1. port[t] + PortStride <= port[u]
    BY <1>1, <1>3, SlotsApart
  <2> QED
    BY <1>1, <1>3, <2>1, PortsAssumption
<1>4. CASE p \in Tasks /\ q \in Tasks
  <2>1. slot[p] # slot[q] /\ slot[p] \in Nat /\ slot[q] \in Nat
    BY <1>1, <1>4 DEF SlotBySlot
  <2>2. slot[p] < slot[q] \/ slot[q] < slot[p]
    BY <2>1
  <2> QED
    BY <1>3, <1>4, <2>2
<1>5. CASE p = Hand \/ q = Hand
  BY <1>2, <1>5, RowsAssumption
<1> QED
  BY <1>4, <1>5, RowsAssumption

\* If the ports of each process fit into its share, no process ever finds a port
\* taken: neither by another process, nor by a late-closed listener of its own.
THEOREM PortsCorrect == Fits => (Spec => []PortsIsolated)
<1>1. ASSUME Inv, Fits PROVE PortsIsolated
  <2> SUFFICES ASSUME NEW p \in Procs, pc[p] = "bind",
                      NEW q \in Procs, NextPort(p) \in listening[q]
               PROVE  FALSE
    BY DEF PortsIsolated, Taken
  <2>1. TypeOK /\ WithinOf(p) /\ WithinOf(q)
    BY <1>1 DEF Inv, Within
  <2>2. p # q
    <3>1. NextPort(p) \in Nat
      BY <2>1, NextPortIsNat
    <3> QED
      BY <2>1, <3>1 DEF WithinOf
  <2>3. pc[p] \in Running /\ pc[q] \in Running
    BY <2>1 DEF WithinOf, Running
  <2>4. port[q] <= NextPort(p) /\ NextPort(p) < port[q] + Span(q)
    BY <2>1 DEF WithinOf
  <2>5. port[p] <= NextPort(p) /\ NextPort(p) < port[p] + Span(p)
    <3>1. /\ scenario[p] \in Nat /\ scenario[p] < Ratios(p)
          /\ opened[p] \in 0 .. Agents[p]
      BY <1>1, ProcessNumbers DEF Inv, Progress, TypeOK
    <3> QED
      BY <2>1, <3>1, InSpan DEF NextPort
  <2>6. /\ port[p] \in Nat /\ port[q] \in Nat /\ NextPort(p) \in Nat
        /\ Span(p) \in Nat /\ Span(q) \in Nat
    BY <2>1, NextPortIsNat, ProcessNumbers DEF TypeOK
  <2>7. \/ port[p] + Span(p) <= port[q]
        \/ port[q] + Span(q) <= port[p]
    BY <1>1, <2>2, <2>3, SharesApart
  <2> QED
    BY <2>4, <2>5, <2>6, <2>7
<1>2. Fits => (Inv => PortsIsolated)
  BY <1>1
<1> SUFFICES ASSUME Fits PROVE Spec => []PortsIsolated
  OBVIOUS
<1> QED
  BY <1>2, Invariance, PTL

\* The row of a process that starts keeps gridgen's number of Byzantine peers,
\* or one less: what newScenarioEnv makes of the six decimals.
LEMMA PredictionNext ==
  ASSUME TypeOK, RunsThePrediction, [Next]_vars,
         \A t \in Tasks : Agents[t] <= Million
  PROVE  RunsThePrediction'
<1> USE DEF runnerVars, processVars, envVars
<1>1. ASSUME UNCHANGED byzantine PROVE RunsThePrediction'
  BY <1>1 DEF RunsThePrediction
<1>2. ASSUME NEW p \in Procs, NEW base, Start(p, base)
      PROVE  RunsThePrediction'
  <2>1. CASE p \in Tasks /\ Valid(p)
    <3>1. PICK m \in Decimals(Predicted[p], Agents[p]) :
            \E r \in Floor(m, Agents[p]) :
              byzantine' = [byzantine EXCEPT ![p] = r]
      BY <1>2, <2>1 DEF Start
    <3>2. PICK r \in Floor(m, Agents[p]) :
            byzantine' = [byzantine EXCEPT ![p] = r]
      BY <3>1
    <3>3. Agents[p] \in 1 .. Million /\ Predicted[p] \in 0 .. Agents[p] - 1
      BY <2>1, RowsAssumption, MillionIsNat
    <3>4. Survives(Predicted[p], Agents[p], m, r)
      BY <3>3, CountSurvives
    <3>5. byzantine'[p] = r /\ \A t \in Tasks \ {p} : byzantine'[t] = byzantine[t]
      BY <2>1, <3>2 DEF TypeOK
    <3> SUFFICES ASSUME NEW t \in Tasks, byzantine'[t] # NotYet
                 PROVE  \E d \in Decimals(Predicted[t], Agents[t]) :
                          Survives(Predicted[t], Agents[t], d, byzantine'[t])
      BY DEF RunsThePrediction
    <3>6. CASE t = p
      BY <3>4, <3>5, <3>6
    <3>7. CASE t # p
      BY <3>5, <3>7 DEF RunsThePrediction
    <3> QED
      BY <3>6, <3>7
  <2>2. CASE ~(p \in Tasks /\ Valid(p))
    BY <1>1, <1>2, <2>2 DEF Start
  <2> QED
    BY <2>1, <2>2
<1>3. ASSUME NEW t \in Tasks, Launch(t) PROVE RunsThePrediction'
  BY <1>2, <1>3, RowsAssumption DEF Launch
<1>4. CASE RunByHand
  BY <1>2, <1>4, RowsAssumption DEF RunByHand
<1>5. ASSUME NEW t \in Tasks, Take(t) \/ Raise(t) \/ Reap(t)
      PROVE  UNCHANGED byzantine
  BY <1>5 DEF Take, Raise, Reap, PutBack
<1>6. ASSUME NEW p \in Procs, ProcessStep(p) \/ CloseLate(p)
      PROVE  UNCHANGED byzantine
  BY <1>6 DEF ProcessStep, Bind, Refused, Measure, MeasureFails, Report,
              CloseLate, Die
<1>7. Load \/ UNCHANGED vars => UNCHANGED byzantine
  BY DEF Load, vars
<1> QED
  BY <1>1, <1>3, <1>4, <1>5, <1>6, <1>7 DEF Next, Program, TaskStep

\* For rows of at most a million peers, what is run is what gridgen predicted,
\* or one Byzantine peer less.
THEOREM PredictionCorrect ==
  (\A t \in Tasks : Agents[t] <= Million) => (Spec => []RunsThePrediction)
<1> SUFFICES ASSUME \A t \in Tasks : Agents[t] <= Million
             PROVE  Spec => []RunsThePrediction
  OBVIOUS
<1>1. Init => RunsThePrediction
  BY DEF Init, RunsThePrediction
<1>2. TypeOK /\ RunsThePrediction /\ [Next]_vars => RunsThePrediction'
  BY PredictionNext
<1> QED
  BY <1>1, <1>2, TypeCorrect, PTL DEF Spec

----------------------------------------------------------------------------
(* The CSV files *)

\* The first n lines of its report are in the file of a process.
Wrote(p, n) == file[p] = Before(p) \o SubSeq(FullReport(p), 1, n)

\* What WholeReports says of a process.
Reported(p) ==
  \E n \in 0 .. Len(FullReport(p)) :
    /\ Wrote(p, n)
    /\ pc[p] = "ok" => torn > 0 \/ n = Len(FullReport(p))
    /\ pc[p] = "error" => n < Len(FullReport(p)) /\ (torn > 0 \/ n = 0)
    /\ pc[p] \notin Ended => n = 0

Written == \A p \in Procs : Reported(p)

\* A full report is not empty, and its first lines are what a torn write leaves.
LEMMA FullReportIs ==
  ASSUME NEW p \in Procs
  PROVE  /\ FullReport(p) \in Seq(Int) /\ Len(FullReport(p)) \in Nat \ {0}
         /\ SubSeq(FullReport(p), 1, Len(FullReport(p))) = FullReport(p)
         /\ Before(p) \o SubSeq(FullReport(p), 1, 0) = Before(p)
<1> DEFINE all == [i \in 1 .. Ratios(p) |-> i]
<1>1. Ratios(p) \in Nat \ {0}
  BY ProcessNumbers
<1>2. all \in Seq(Int) /\ Len(all) = Ratios(p)
  BY <1>1
<1>3. FullReport(p) \in Seq(Int) /\ Len(FullReport(p)) \in Nat \ {0}
  <2>1. CASE p \in Reused
    <3>1. FullReport(p) = all
      BY <2>1 DEF FullReport
    <3> HIDE DEF all
    <3> QED
      BY <1>1, <1>2, <3>1
  <2>2. CASE p \notin Reused
    <3>1. FullReport(p) = <<Header>> \o all
      BY <2>2 DEF FullReport
    <3>2. <<Header>> \in Seq(Int) /\ Len(<<Header>>) = 1
      BY DEF Header
    <3> HIDE DEF all
    <3> QED
      BY <1>1, <1>2, <3>1, <3>2
  <2> QED
    BY <2>1, <2>2
<1>4. ASSUME NEW s \in Seq(Int)
      PROVE  SubSeq(s, 1, Len(s)) = s /\ SubSeq(s, 1, 0) = <<>>
  BY <1>4
<1>5. ASSUME NEW s \in Seq(Int) PROVE s \o <<>> = s
  BY <1>5
<1>6. Before(p) \in Seq(Int)
  BY DEF Before, Earlier, Header, Old
<1> QED
  BY <1>3, <1>4, <1>5, <1>6

\* Before it has reported, nothing of a process is in its file; what it then
\* writes is the full report.
LEMMA LinesAreFull ==
  ASSUME TypeOK, Progress, NEW p \in Procs, pc[p] = "report",
         file[p] = Before(p)
  PROVE  Lines(p) = FullReport(p)
<1>1. Rows(p) = [i \in 1 .. Ratios(p) |-> i]
  BY DEF Progress, Rows
<1>2. file[p] = <<>> <=> p \notin Reused
  BY DEF Before, Earlier
<1> QED
  BY <1>1, <1>2 DEF Lines, FullReport

\* Written survives every step.
LEMMA WrittenNext == Inv /\ Written /\ [Next]_vars => Written'
<1> SUFFICES ASSUME Inv, Written, [Next]_vars, NEW q \in Procs
             PROVE  Reported(q)'
  BY DEF Written
<1> DEFINE Same == file'[q] = file[q] /\ torn' \in {torn, torn + 1}
<1> USE DEF runnerVars, processVars, envVars
<1>0. TypeOK /\ Progress /\ Launched
  BY DEF Inv
<1>full. /\ Len(FullReport(q)) \in Nat \ {0}
         /\ SubSeq(FullReport(q), 1, Len(FullReport(q))) = FullReport(q)
         /\ Before(q) \o SubSeq(FullReport(q), 1, 0) = Before(q)
  BY FullReportIs
<1>same. /\ torn \in Nat
         /\ \A n : Wrote(q, n)' <=>
                     file'[q] = Before(q) \o SubSeq(FullReport(q), 1, n)
  BY <1>0 DEF TypeOK, Wrote, Before, FullReport, Ratios
<1>goal. ASSUME NEW n \in 0 .. Len(FullReport(q)), Wrote(q, n)',
                pc'[q] = "ok" => torn' > 0 \/ n = Len(FullReport(q)),
                pc'[q] = "error" =>
                  n < Len(FullReport(q)) /\ (torn' > 0 \/ n = 0),
                pc'[q] \notin Ended => n = 0
         PROVE  Reported(q)'
  BY <1>goal DEF Reported, FullReport, Ratios, Ended
<1>1. ASSUME Same, pc'[q] = pc[q]
      PROVE  Reported(q)'
  <2>1. PICK n \in 0 .. Len(FullReport(q)) :
          /\ Wrote(q, n)
          /\ pc[q] = "ok" => torn > 0 \/ n = Len(FullReport(q))
          /\ pc[q] = "error" => n < Len(FullReport(q)) /\ (torn > 0 \/ n = 0)
          /\ pc[q] \notin Ended => n = 0
    BY DEF Written, Reported
  <2>2. Wrote(q, n)'
    BY <1>1, <1>same, <2>1 DEF Wrote
  <2>3. torn > 0 => torn' > 0
    BY <1>1, <1>same
  <2> QED
    BY <1>1, <1>goal, <2>1, <2>2, <2>3
<1>before. pc[q] \notin Ended => file[q] = Before(q)
  BY <1>full DEF Written, Reported, Wrote
<1>none. ASSUME Same, pc[q] \notin Ended, pc'[q] # "ok"
         PROVE  Reported(q)'
  <2>1. Wrote(q, 0)'
    BY <1>none, <1>same, <1>full, <1>before
  <2>2. 0 \in 0 .. Len(FullReport(q)) /\ 0 < Len(FullReport(q))
    BY <1>full
  <2>3. pc'[q] = "ok" => torn' > 0 \/ 0 = Len(FullReport(q))
    BY <1>none
  <2> HIDE DEF Same
  <2> QED
    BY <1>goal, <2>1, <2>2, <2>3
<1>2. ASSUME Report(q)
      PROVE  Reported(q)'
  <2>1. pc[q] = "report" /\ file[q] = Before(q)
    BY <1>2, <1>before DEF Report, Ended
  <2>2. Lines(q) = FullReport(q)
    BY <1>0, <2>1, LinesAreFull
  <2>3. CASE /\ file' = [file EXCEPT ![q] = @ \o Lines(q)]
             /\ pc' = [pc EXCEPT ![q] = "ok"]
    <3>1. Wrote(q, Len(FullReport(q)))' /\ pc'[q] = "ok"
      BY <1>0, <1>same, <1>full, <2>1, <2>2, <2>3 DEF TypeOK
    <3>2. Len(FullReport(q)) \in 0 .. Len(FullReport(q))
      BY <1>full
    <3>3. pc'[q] \in Ended /\ pc'[q] # "error"
      BY <3>1 DEF Ended
    <3> HIDE DEF Same
    <3> QED
      BY <1>goal, <3>1, <3>2, <3>3
  <2>4. CASE /\ pc' = [pc EXCEPT ![q] = "error"]
             /\ UNCHANGED <<file, torn>>
    BY <1>0, <1>none, <2>1, <2>4 DEF TypeOK, Ended
  <2>5. ASSUME NEW n \in 0 .. Len(Lines(q)) - 1, torn' = torn + 1,
               file' = [file EXCEPT ![q] = @ \o SubSeq(Lines(q), 1, n)],
               pc' = [pc EXCEPT ![q] = IF Noticed(q, n) THEN "error" ELSE "ok"]
        PROVE  Reported(q)'
    <3>1. Wrote(q, n)' /\ pc'[q] \in {"ok", "error"}
      BY <1>0, <1>same, <2>1, <2>2, <2>5 DEF TypeOK
    <3>2. n \in 0 .. Len(FullReport(q)) /\ n < Len(FullReport(q)) /\ torn' > 0
      BY <1>full, <1>same, <2>2, <2>5
    <3> QED
      BY <1>goal, <3>1, <3>2 DEF Ended
  <2> QED
    BY <1>2, <2>3, <2>4, <2>5 DEF Report
<1>3. ASSUME NEW p \in Procs, p # q, Report(p)
      PROVE  Same /\ pc'[q] = pc[q]
  BY <1>0, <1>3 DEF Report, TypeOK
<1>4. ASSUME NEW p \in Procs,
             Bind(p) \/ Refused(p) \/ Measure(p) \/ MeasureFails(p)
      PROVE  Reported(q)'
  <2>1. UNCHANGED <<file, torn>> /\ pc[p] \in {"bind", "run"}
    BY <1>4 DEF Bind, Refused, Measure, MeasureFails, Die
  <2>2. \E v : v # "ok" /\ pc' = [pc EXCEPT ![p] = v]
    BY <1>4 DEF Bind, Refused, Measure, MeasureFails, Die
  <2>3. CASE p = q
    BY <1>0, <1>none, <2>1, <2>2, <2>3 DEF TypeOK, Ended
  <2>4. CASE p # q
    BY <1>0, <1>1, <2>1, <2>2, <2>4 DEF TypeOK
  <2> QED
    BY <2>3, <2>4
<1>5. ASSUME NEW p \in Procs, NEW base, pc[p] = "off", Start(p, base),
             UNCHANGED torn
      PROVE  Reported(q)'
  <2>1. UNCHANGED file /\ \E v : v # "ok" /\ pc' = [pc EXCEPT ![p] = v]
    BY <1>5 DEF Start
  <2>2. CASE p = q
    BY <1>0, <1>none, <1>5, <2>1, <2>2 DEF TypeOK, Ended
  <2>3. CASE p # q
    BY <1>0, <1>1, <1>5, <2>1, <2>3 DEF TypeOK
  <2> QED
    BY <2>2, <2>3
<1>6. ASSUME NEW t \in Tasks, Launch(t)
      PROVE  Reported(q)'
  BY <1>0, <1>5, <1>6, RowsAssumption DEF Launch, Launched
<1>7. CASE RunByHand
  BY <1>5, <1>7, RowsAssumption DEF RunByHand
<1>8. ASSUME UNCHANGED <<pc, file>>, torn' \in {torn, torn + 1}
      PROVE  Reported(q)'
  BY <1>1, <1>8
<1>9. ASSUME NEW t \in Tasks, Take(t) \/ Raise(t) \/ Reap(t)
      PROVE  UNCHANGED <<pc, file, torn>>
  BY <1>9 DEF Take, Raise, Reap, PutBack
<1>10. ASSUME Load \/ (\E p \in Procs : CloseLate(p)) \/ UNCHANGED vars
       PROVE  UNCHANGED <<pc, file>> /\ torn' \in {torn, torn + 1}
  BY <1>10 DEF Load, CloseLate, vars
<1> QED
  BY <1>1, <1>2, <1>3, <1>4, <1>6, <1>7, <1>8, <1>9, <1>10
     DEF Next, Program, TaskStep, ProcessStep

\* Whatever fails, the file of a process holds the first lines of its report,
\* under one header, and all of them or none unless a write has failed.
THEOREM ReportsCorrect == Spec => []WholeReports
<1>1. Init => Written
  <2> SUFFICES ASSUME Init, NEW p \in Procs
               PROVE  Reported(p)
    BY DEF Written
  <2>1. file[p] = Before(p) /\ pc[p] = "off"
    BY DEF Init, Before
  <2>2. Wrote(p, 0) /\ 0 \in 0 .. Len(FullReport(p))
    BY <2>1, FullReportIs DEF Wrote
  <2> QED
    BY <2>1, <2>2 DEF Reported
<1>2. Written => WholeReports
  BY DEF Written, Reported, Wrote, WholeReports
<1> QED
  BY <1>1, <1>2, WrittenNext, Invariance, PTL DEF Spec

----------------------------------------------------------------------------
(* Every step counts *)

\* A process that has not ended has a step left, and one with a ratio to go has
\* its servers and its benchmark left.
LEMMA ProcessStepsAre ==
  ASSUME TypeOK, Progress, NEW p \in Procs
  PROVE  /\ ProcessSteps(p) \in Nat
         /\ pc[p] \notin Ended => ProcessSteps(p) >= 1
<1> DEFINE d == Ratios(p) - scenario[p]
           w == Agents[p] + 2
<1>1. /\ Ratios(p) \in Nat \ {0} /\ Agents[p] \in Nat \ {0}
      /\ scenario[p] \in Nat /\ opened[p] \in Nat /\ d \in Nat /\ w \in Nat
  BY ProcessNumbers DEF TypeOK
<1>2. \/ pc[p] \in Ended
      \/ d = 0 /\ opened[p] = 0
      \/ d >= 1 /\ opened[p] < w
  <2>1. pc[p] \in {"off", "bind", "run", "report"} \cup Ended
    BY DEF TypeOK, Running
  <2> QED
    BY <1>1, <2>1 DEF Progress
<1>3. ProcessSteps(p) = IF pc[p] \in Ended THEN 0 ELSE d * w + 1 - opened[p]
  BY DEF ProcessSteps
<1> HIDE DEF d, w
<1>4. CASE d = 0 /\ opened[p] = 0
  BY <1>1, <1>3, <1>4
<1>5. CASE d >= 1 /\ opened[p] < w
  <2>1. (d - 1) * w \in Nat /\ d * w = (d - 1) * w + w
    BY <1>1, <1>5
  <2> QED
    BY <1>1, <1>3, <1>5, <2>1
<1> QED
  BY <1>2, <1>3, <1>4, <1>5

LEMMA ThreadStepsAre ==
  ASSUME TypeOK, NEW p \in Procs
  PROVE  ThreadSteps(p) \in Nat
<1>1. p # Hand => p \in Tasks
  BY RowsAssumption
<1> QED
  BY <1>1 DEF ThreadSteps, TypeOK

\* Nobody has a negative number of steps left.
LEMMA PartsAreNat ==
  Inv => \A p \in Procs : ProcessSteps(p) \in Nat /\ ThreadSteps(p) \in Nat
BY ProcessStepsAre, ThreadStepsAre DEF Inv

LEMMA StepsAreNat == Inv => \A p \in Procs : StepsLeft(p) \in Nat
BY PartsAreNat DEF StepsLeft

\* A benchmark that ends leaves a ratio less.
LEMMA MeasureFalls ==
  ASSUME TypeOK, Progress, NEW p \in Procs, Measure(p)
  PROVE  ProcessSteps(p)' < ProcessSteps(p)
<1> DEFINE d == Ratios(p) - scenario[p]
           w == Agents[p] + 2
<1>1. /\ Ratios(p) \in Nat \ {0} /\ Agents[p] \in Nat \ {0}
      /\ scenario[p] \in Nat /\ opened[p] = Agents[p] + 1
      /\ d \in Nat /\ w \in Nat /\ w = opened[p] + 1
  <2>1. Ratios(p) \in Nat \ {0} /\ Agents[p] \in Nat \ {0}
    BY ProcessNumbers
  <2>2. scenario[p] \in Nat /\ pc[p] = "run"
    BY DEF TypeOK, Measure
  <2>3. scenario[p] < Ratios(p) /\ opened[p] = Agents[p] + 1
    BY <2>2 DEF Progress
  <2> QED
    BY <2>1, <2>2, <2>3
<1>2. /\ scenario'[p] = scenario[p] + 1 /\ opened'[p] = 0
      /\ pc[p] \notin Ended /\ pc'[p] \notin Ended
  BY DEF Measure, TypeOK, Ended
<1>3. Ratios(p) - scenario'[p] = d - 1
  BY <1>1, <1>2
<1>4. /\ ProcessSteps(p) = d * w + 1 - opened[p]
      /\ ProcessSteps(p)' = (d - 1) * w + 1
  BY <1>2, <1>3 DEF ProcessSteps
<1> HIDE DEF d, w
<1>5. (d - 1) * w \in Int /\ d * w = (d - 1) * w + w
  BY <1>1
<1> QED
  BY <1>1, <1>4, <1>5

\* A step that takes one from the number of p and changes no other.
LEMMA OneFalls ==
  ASSUME Inv, NEW p \in Procs, UNCHANGED started,
         StepsLeft(p)' < StepsLeft(p), StepsLeft(p)' \in Nat,
         \A q \in Tasks \ {p} : thread'[q] = thread[q],
         \A q \in Procs \ {p} : /\ pc'[q] = pc[q] /\ scenario'[q] = scenario[q]
                               /\ opened'[q] = opened[q]
  PROVE  /\ \A q \in Procs : StepsLeft(q)' <= StepsLeft(q)
         /\ \E q \in Procs : StepsLeft(q)' < StepsLeft(q)
<1>1. ASSUME NEW q \in Procs \ {p} PROVE StepsLeft(q)' = StepsLeft(q)
  <2>1. ThreadSteps(q)' = ThreadSteps(q)
    <3>1. q # Hand => q \in Tasks /\ thread'[q] = thread[q]
                      /\ thread[q] \in {"idle", "slot", "process", "over"}
      BY RowsAssumption DEF Inv, TypeOK
    <3> QED
      BY <3>1 DEF ThreadSteps
  <2>2. ProcessSteps(q)' = ProcessSteps(q)
    BY DEF ProcessSteps
  <2> QED
    BY <2>1, <2>2 DEF StepsLeft
<1>2. \A q \in Procs : StepsLeft(q)' <= StepsLeft(q)
  BY <1>1, StepsAreNat
<1> QED
  BY <1>2

\* Every step of a process takes one from its number.
LEMMA ProcessFalls ==
  ASSUME Inv, NEW p \in Procs, ProcessStep(p)
  PROVE  /\ ProcessSteps(p)' < ProcessSteps(p)
         /\ UNCHANGED <<started, thread>>
         /\ \A q \in Procs \ {p} : /\ pc'[q] = pc[q] /\ scenario'[q] = scenario[q]
                                   /\ opened'[q] = opened[q]
<1> USE DEF runnerVars, processVars, envVars
<1>1. /\ UNCHANGED <<started, thread>>
      /\ \A q \in Procs \ {p} : /\ pc'[q] = pc[q] /\ scenario'[q] = scenario[q]
                                /\ opened'[q] = opened[q]
  BY DEF ProcessStep, Bind, Refused, Measure, MeasureFails, Report, Die, Inv,
     TypeOK
<1>2. ProcessSteps(p) \in Nat /\ (pc[p] \notin Ended => ProcessSteps(p) >= 1)
  BY ProcessStepsAre DEF Inv
<1>3. CASE Bind(p)
  <2> DEFINE x == (Ratios(p) - scenario[p]) * (Agents[p] + 2)
  <2>1. /\ opened'[p] = opened[p] + 1 /\ scenario'[p] = scenario[p]
        /\ pc[p] \notin Ended /\ pc'[p] \notin Ended /\ opened[p] \in Nat
    BY <1>3 DEF Bind, Inv, TypeOK, Ended
  <2>2. /\ ProcessSteps(p) = x + 1 - opened[p]
        /\ ProcessSteps(p)' = x + 1 - (opened[p] + 1)
    BY <2>1 DEF ProcessSteps
  <2>3. x \in Int
    BY ProcessNumbers DEF Inv, TypeOK
  <2> HIDE DEF x
  <2> QED
    BY <1>1, <2>1, <2>2, <2>3
<1>4. CASE Measure(p)
  BY <1>1, <1>4, MeasureFalls DEF Inv
<1>5. CASE Refused(p) \/ MeasureFails(p) \/ Report(p)
  <2>1. pc[p] \notin Ended /\ pc'[p] \in Ended
    BY <1>5 DEF Refused, MeasureFails, Report, Die, Inv, TypeOK, Ended
  <2>2. ProcessSteps(p)' = 0
    BY <2>1 DEF ProcessSteps
  <2> QED
    BY <1>1, <1>2, <2>1, <2>2
<1> QED
  BY <1>3, <1>4, <1>5 DEF ProcessStep

\* A process that starts has no more to do than before.
LEMMA StartFalls ==
  ASSUME Inv, NEW p \in Procs, NEW base, pc[p] = "off", Start(p, base)
  PROVE  /\ ProcessSteps(p)' <= ProcessSteps(p)
         /\ \A q \in Procs \ {p} : pc'[q] = pc[q]
         /\ UNCHANGED <<scenario, opened>>
<1>1. /\ pc'[p] \in {"bind", "error"} /\ UNCHANGED <<scenario, opened>>
      /\ \A q \in Procs \ {p} : pc'[q] = pc[q]
  BY DEF Start, Inv, TypeOK
<1>2. ProcessSteps(p) \in Nat
  BY ProcessStepsAre DEF Inv
<1>3. ProcessSteps(p)' \in {0, ProcessSteps(p)}
  BY <1>1 DEF ProcessSteps, Ended
<1> QED
  BY <1>1, <1>2, <1>3

\* Every step of a thread takes one from its number, and a process it launches
\* has no more to do than before.
LEMMA TaskFalls ==
  ASSUME Inv, NEW t \in Tasks, TaskStep(t)
  PROVE  /\ ThreadSteps(t)' < ThreadSteps(t)
         /\ ProcessSteps(t)' <= ProcessSteps(t)
         /\ UNCHANGED <<started, scenario, opened>>
         /\ \A q \in Tasks \ {t} : thread'[q] = thread[q]
         /\ \A q \in Procs \ {t} : pc'[q] = pc[q]
<1> USE DEF runnerVars, processVars, envVars
<1>1. t \in Procs /\ t # Hand
  BY RowsAssumption
<1>2. /\ \/ thread[t] = "idle" /\ thread'[t] = "slot"
         \/ thread[t] = "slot" /\ thread'[t] \in {"process", "over"}
         \/ thread[t] = "process" /\ thread'[t] = "over"
      /\ UNCHANGED started
      /\ \A q \in Tasks \ {t} : thread'[q] = thread[q]
  BY DEF TaskStep, Take, Launch, Raise, Reap, PutBack, Inv, TypeOK
<1>3. ThreadSteps(t)' < ThreadSteps(t)
  BY <1>1, <1>2 DEF ThreadSteps
<1>4. CASE Launch(t)
  <2>1. pc[t] = "off"
    BY <1>4 DEF Launch, Inv, Launched
  <2> QED
    BY <1>1, <1>2, <1>3, <1>4, <2>1, StartFalls DEF Launch
<1>5. CASE UNCHANGED <<pc, scenario, opened>>
  <2>1. ProcessSteps(t)' = ProcessSteps(t) /\ ProcessSteps(t) \in Nat
    BY <1>1, <1>5, ProcessStepsAre DEF ProcessSteps, Inv
  <2> QED
    BY <1>2, <1>3, <1>5, <2>1
<1> QED
  BY <1>4, <1>5 DEF TaskStep, Take, Raise, Reap, PutBack

\* Every step takes one from somebody's number and adds to nobody's.
LEMMA StepsFall == Inv /\ Inv' /\ [Next]_vars => [StepCounts]_vars
<1> SUFFICES ASSUME Inv, Inv', Next PROVE StepCounts
  BY DEF vars
<1> USE DEF runnerVars, processVars, envVars
<1>1. \A p \in Procs : StepsLeft(p) \in Nat /\ StepsLeft(p)' \in Nat
  <2>1. (Inv => \A p \in Procs : StepsLeft(p) \in Nat)'
    BY StepsAreNat, PTL
  <2> QED
    BY <2>1, StepsAreNat
<1>2. SUFFICES /\ \A p \in Procs : StepsLeft(p)' <= StepsLeft(p)
               /\ Program => \E p \in Procs : StepsLeft(p)' < StepsLeft(p)
  BY <1>1 DEF StepCounts
<1>3. \A p \in Procs : ProcessSteps(p) \in Nat /\ ThreadSteps(p) \in Nat
  BY PartsAreNat
<1>4. \A p \in Procs : ProcessSteps(p)' \in Nat /\ ThreadSteps(p)' \in Nat
  <2>1. (Inv => \A p \in Procs : ProcessSteps(p) \in Nat /\ ThreadSteps(p) \in Nat)'
    BY PartsAreNat, PTL
  <2> QED
    BY <2>1
<1>5. CASE Load
  <2>1. ~started /\ started' /\ UNCHANGED <<thread, pc, scenario, opened>>
    BY <1>5 DEF Load
  <2>2. \A p \in Procs : /\ ThreadSteps(p)' = ThreadSteps(p)
                       /\ ProcessSteps(p)' = ProcessSteps(p)
    BY <2>1 DEF ThreadSteps, ProcessSteps
  <2>3. \A p \in Procs : StepsLeft(p)' < StepsLeft(p)
    BY <1>3, <2>1, <2>2 DEF StepsLeft
  <2>4. Hand \in Procs
    BY RowsAssumption
  <2> QED
    BY <1>1, <2>3, <2>4
<1>6. ASSUME NEW t \in Tasks, TaskStep(t)
      PROVE  /\ \A p \in Procs : StepsLeft(p)' <= StepsLeft(p)
             /\ \E p \in Procs : StepsLeft(p)' < StepsLeft(p)
  <2>1. t \in Procs
    BY RowsAssumption
  <2>2. /\ ThreadSteps(t)' < ThreadSteps(t) /\ ProcessSteps(t)' <= ProcessSteps(t)
        /\ UNCHANGED <<started, scenario, opened>>
        /\ \A q \in Tasks \ {t} : thread'[q] = thread[q]
        /\ \A q \in Procs \ {t} : pc'[q] = pc[q]
    BY <1>6, TaskFalls
  <2>3. StepsLeft(t)' < StepsLeft(t)
    BY <1>3, <1>4, <2>1, <2>2 DEF StepsLeft
  <2> QED
    BY <1>1, <2>1, <2>2, <2>3, OneFalls
<1>7. ASSUME NEW p \in Procs, ProcessStep(p)
      PROVE  /\ \A q \in Procs : StepsLeft(q)' <= StepsLeft(q)
             /\ \E q \in Procs : StepsLeft(q)' < StepsLeft(q)
  <2>1. /\ ProcessSteps(p)' < ProcessSteps(p) /\ UNCHANGED <<started, thread>>
        /\ \A q \in Procs \ {p} : /\ pc'[q] = pc[q] /\ scenario'[q] = scenario[q]
                                  /\ opened'[q] = opened[q]
    BY <1>7, ProcessFalls
  <2>2. StepsLeft(p)' < StepsLeft(p)
    <3>1. ThreadSteps(p)' = ThreadSteps(p)
      BY <2>1 DEF ThreadSteps
    <3> QED
      BY <1>3, <1>4, <2>1, <3>1 DEF StepsLeft
  <2> QED
    BY <1>1, <2>1, <2>2, OneFalls
<1>8. CASE Program
  BY <1>5, <1>6, <1>7, <1>8 DEF Program
<1>9. CASE RunByHand
  <2>1. UNCHANGED <<started, thread>> /\ Hand \in Procs
    BY <1>9, RowsAssumption DEF RunByHand
  <2>2. /\ ProcessSteps(Hand)' <= ProcessSteps(Hand)
        /\ \A q \in Procs \ {Hand} : pc'[q] = pc[q]
        /\ UNCHANGED <<scenario, opened>>
    BY <1>9, <2>1, StartFalls DEF RunByHand
  <2>3. \A p \in Procs : /\ ThreadSteps(p)' = ThreadSteps(p)
                       /\ ProcessSteps(p)' <= ProcessSteps(p)
    BY <1>3, <2>1, <2>2 DEF ThreadSteps, ProcessSteps
  <2>4. \A p \in Procs : StepsLeft(p)' <= StepsLeft(p)
    BY <1>3, <1>4, <2>1, <2>3 DEF StepsLeft
  <2> QED
    BY <1>8, <2>4
<1>10. CASE \E p \in Procs : CloseLate(p)
  <2>1. UNCHANGED <<started, thread, pc, scenario, opened>>
    BY <1>10 DEF CloseLate
  <2>2. \A p \in Procs : StepsLeft(p)' = StepsLeft(p)
    BY <2>1 DEF StepsLeft, ThreadSteps, ProcessSteps
  <2> QED
    BY <1>1, <1>8, <2>2
<1> QED
  BY <1>8, <1>9, <1>10 DEF Next

\* An experiment comes nearer to its end with every step of the runner and of
\* its processes, whatever fails, for every grid and pool.
THEOREM StepsCount == Spec => EveryStepCounts
<1>1. Inv /\ [Next]_vars => Inv'
  BY InvNext
<1> QED
  BY <1>1, Invariance, StepsFall, PTL DEF Spec, EveryStepCounts
=============================================================================
