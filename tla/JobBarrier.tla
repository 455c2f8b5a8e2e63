----------------------------- MODULE JobBarrier -----------------------------
(***************************************************************************)
(* A phase of the round loop: every agent has one job, the jobs end in any *)
(* order, each at once, and the phase ends when all of them have.  This is *)
(* how BlacklistDownload uses runRoundJobs and runAgentJobs: todo is what  *)
(* is not done, Barrier is Return, a failed phase aborts the run.          *)
(***************************************************************************)
EXTENDS Integers

CONSTANT Agents

VARIABLES
  done,     \* the agents whose job has ended
  failed,   \* some job has ended with an error
  stopped,  \* the caller has cancelled the run
  result    \* "none" until the phase ends

vars == <<done, failed, stopped, result>>

Init == done = {} /\ failed = FALSE /\ stopped = FALSE /\ result = "none"

\* The job of an agent ends; one that missed the deadline does not fail.
Job(a) ==
  /\ result = "none" /\ a \notin done
  /\ done' = done \cup {a}
  /\ \/ failed' = TRUE
     \/ UNCHANGED failed
  /\ UNCHANGED <<stopped, result>>

Stop ==
  /\ result = "none" /\ ~stopped
  /\ stopped' = TRUE
  /\ UNCHANGED <<done, failed, result>>

\* The phase ends well only if no job is left, none failed and nobody stopped it.
Return ==
  /\ result = "none"
  /\ done = Agents \/ stopped
  /\ result' = IF failed \/ stopped THEN "error" ELSE "ok"
  /\ UNCHANGED <<done, failed, stopped>>

Next == Return \/ Stop \/ \E a \in Agents : Job(a)

Spec == Init /\ [][Next]_vars
=============================================================================
