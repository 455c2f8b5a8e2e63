--------------------------- MODULE PeerBroadcast ---------------------------
(***************************************************************************)
(* One call of Broadcast (agent/client.go), request by request: a loop that*)
(* starts one goroutine for each peer as slots of the semaphore allow, the *)
(* retry loop of post in each of them, the /message handlers at the other  *)
(* end, and the channel that collects the errors.  When the call has       *)
(* returned the round loop seals the round at the targets one by one.      *)
(*                                                                         *)
(* A request the client gives up on stays where it is: it may reach its    *)
(* handler later, or never.  The sender is honest, so it counts its acks.  *)
(* Its own copy of the message, stored before the loop, is the operator    *)
(* OwnCopy of BlacklistDownload.                                           *)
(***************************************************************************)
EXTENDS Integers, FiniteSets

CONSTANTS
  Last,   \* the targets are 1 .. Last, in the order of the ports
  Slots,  \* broadcastParallelism
  Tries   \* attempts of post

ASSUME SizesAssumption ==
  Last \in Nat /\ Slots \in Nat \ {0} /\ Tries \in Nat \ {0}

Targets  == 1 .. Last
Attempts == 1 .. Tries

VARIABLES
  pc,           \* where Broadcast is
  spawned,      \* targets whose goroutine was started: 1 .. spawned
  job,          \* where the goroutine of each target is
  tries,        \* attempts made for each target
  lastErr,      \* outcome of the last failed attempt for each target
  firstErr,     \* the head of errCh, "none" when it is empty
  request,      \* what became of each attempt
  expired,      \* the deadline of the round has passed
  sealed,       \* the targets that have sealed the round
  messagesSent, \* the counter M of the sender
  result        \* what Broadcast returned

vars == <<pc, spawned, job, tries, lastErr, firstErr, request, expired,
          sealed, messagesSent, result>>

\* A missed deadline: context.DeadlineExceeded, also for a client timeout.
ErrorKinds == {"missed", "error"}

Running == {t \in Targets : job[t] \in {"ready", "waiting", "backoff"}}

TypeOK ==
  /\ pc \in {"loop", "wait", "returned"} /\ spawned \in 0 .. Last
  /\ job \in [Targets -> {"idle", "ready", "waiting", "backoff", "acked",
                          "failed"}]
  /\ tries \in [Targets -> 0 .. Tries]
  /\ lastErr \in [Targets -> ErrorKinds \cup {"none"}]
  /\ firstErr \in ErrorKinds \cup {"none"}
  /\ request \in [Targets -> [Attempts ->
                   {"none", "travels", "checked", "stored", "dropped"}]]
  /\ expired \in BOOLEAN /\ sealed \subseteq Targets /\ messagesSent \in Nat
  /\ result \in ErrorKinds \cup {"none", "ok"}
  /\ Cardinality(Running) <= Slots

Init ==
  /\ pc = "loop" /\ spawned = 0
  /\ job = [t \in Targets |-> "idle"]
  /\ tries = [t \in Targets |-> 0]
  /\ lastErr = [t \in Targets |-> "none"] /\ firstErr = "none"
  /\ request = [t \in Targets |-> [i \in Attempts |-> "none"]]
  /\ expired \in BOOLEAN
  /\ sealed = {} /\ messagesSent = 0 /\ result = "none"

----------------------------------------------------------------------------
(* The sender *)

\* Slip: a goroutine starts without a slot of the semaphore.
SpawnUnlimited ==
  /\ pc = "loop" /\ spawned < Last
  /\ spawned' = spawned + 1
  /\ job' = [job EXCEPT ![spawned + 1] = "ready"]
  /\ UNCHANGED <<pc, tries, lastErr, firstErr, request, expired, sealed,
                 messagesSent, result>>

\* sem <- struct{}{} and the start of the goroutine of the next target.
Spawn ==
  /\ pc = "loop" /\ spawned < Last
  /\ Cardinality(Running) < Slots
  /\ spawned' = spawned + 1
  /\ job' = [job EXCEPT ![spawned + 1] = "ready"]
  /\ UNCHANGED <<pc, tries, lastErr, firstErr, request, expired, sealed,
                 messagesSent, result>>

LoopEnds ==
  /\ pc = "loop" /\ spawned = Last
  /\ pc' = "wait"
  /\ UNCHANGED <<spawned, job, tries, lastErr, firstErr, request, expired,
                 sealed, messagesSent, result>>

\* errCh <- err: the goroutine ends, and Broadcast returns the first error.
Fail(t, kind) ==
  /\ job' = [job EXCEPT ![t] = "failed"]
  /\ firstErr' = IF firstErr = "none" THEN kind ELSE firstErr

\* The top of the loop of post: a request is sent unless the context is done.
Attempt(t) ==
  /\ job[t] = "ready"
  /\ \/ expired /\ Fail(t, "missed") /\ UNCHANGED <<tries, request>>
     \/ /\ ~expired
        /\ tries' = [tries EXCEPT ![t] = @ + 1]
        /\ request' = [request EXCEPT ![t][tries[t] + 1] = "travels"]
        /\ job' = [job EXCEPT ![t] = "waiting"]
        /\ UNCHANGED firstErr
  /\ UNCHANGED <<pc, spawned, lastErr, expired, sealed, messagesSent, result>>

\* Slip: the peer is counted once for every request it was sent.
AckCountsTries(t) ==
  /\ job[t] = "waiting" /\ request[t][tries[t]] \in {"stored", "dropped"}
  /\ job' = [job EXCEPT ![t] = "acked"]
  /\ messagesSent' = messagesSent + tries[t]
  /\ UNCHANGED <<pc, spawned, tries, lastErr, firstErr, request, expired,
                 sealed, result>>

\* The handler answers 200, whether StoreMessage kept the message or not.
Ack(t) ==
  /\ job[t] = "waiting" /\ request[t][tries[t]] \in {"stored", "dropped"}
  /\ job' = [job EXCEPT ![t] = "acked"]
  /\ messagesSent' = messagesSent + 1
  /\ UNCHANGED <<pc, spawned, tries, lastErr, firstErr, request, expired,
                 sealed, result>>

\* The request fails at the client: a timeout, the deadline, a connection
\* refused or reset.  Whether the handler ran, runs or will run is open.
GiveUp(t) ==
  /\ job[t] = "waiting"
  /\ \E kind \in ErrorKinds : lastErr' = [lastErr EXCEPT ![t] = kind]
  /\ job' = [job EXCEPT ![t] = "backoff"]
  /\ UNCHANGED <<pc, spawned, tries, firstErr, request, expired, sealed,
                 messagesSent, result>>

\* Slip: post does not come back from the delay after its last attempt.
BackoffForEver(t) ==
  /\ job[t] = "backoff" /\ tries[t] = Tries
  /\ UNCHANGED vars

\* The select after a failed attempt: the context is done, or the delay is
\* over and post tries again or returns its last error.
Backoff(t) ==
  /\ job[t] = "backoff"
  /\ \/ expired /\ Fail(t, "missed")
     \/ /\ tries[t] < Tries
        /\ job' = [job EXCEPT ![t] = "ready"] /\ UNCHANGED firstErr
     \/ tries[t] = Tries /\ Fail(t, lastErr[t])
  /\ UNCHANGED <<pc, spawned, tries, lastErr, request, expired, sealed,
                 messagesSent, result>>

\* Slip: Broadcast does not wait for its goroutines.
ReturnEarly ==
  /\ pc = "wait"
  /\ pc' = "returned"
  /\ result' = IF firstErr = "none" THEN "ok" ELSE firstErr
  /\ UNCHANGED <<spawned, job, tries, lastErr, firstErr, request, expired,
                 sealed, messagesSent>>

\* wg.Wait, close(errCh) and the first error of the channel.
Return ==
  /\ pc = "wait" /\ Running = {}
  /\ pc' = "returned"
  /\ result' = IF firstErr = "none" THEN "ok" ELSE firstErr
  /\ UNCHANGED <<spawned, job, tries, lastErr, firstErr, request, expired,
                 sealed, messagesSent>>

----------------------------------------------------------------------------
(* The targets and the clock *)

\* StoreMessage up to the test of the seal.
Check(t, i) ==
  /\ request[t][i] = "travels"
  /\ request' = [request EXCEPT ![t][i] =
                   IF t \in sealed THEN "dropped" ELSE "checked"]
  /\ UNCHANGED <<pc, spawned, job, tries, lastErr, firstErr, expired, sealed,
                 messagesSent, result>>

\* StoreMessage from the lock on.
Append(t, i) ==
  /\ request[t][i] = "checked"
  /\ request' = [request EXCEPT ![t][i] = "stored"]
  /\ UNCHANGED <<pc, spawned, job, tries, lastErr, firstErr, expired, sealed,
                 messagesSent, result>>

Deadline ==
  /\ ~expired /\ pc # "returned"
  /\ expired' = TRUE
  /\ UNCHANGED <<pc, spawned, job, tries, lastErr, firstErr, request, sealed,
                 messagesSent, result>>

\* Slip: a target seals the round without waiting for the barrier.
SealUnordered(t) ==
  /\ t \notin sealed
  /\ sealed' = sealed \cup {t}
  /\ UNCHANGED <<pc, spawned, job, tries, lastErr, firstErr, request, expired,
                 messagesSent, result>>

\* SealRound, which the round loop calls when every broadcast has returned,
\* unless one of them has failed the round.
Seal(t) ==
  /\ pc = "returned" /\ result # "error" /\ t \notin sealed
  /\ sealed' = sealed \cup {t}
  /\ UNCHANGED <<pc, spawned, job, tries, lastErr, firstErr, request, expired,
                 messagesSent, result>>

Sender == \/ Spawn \/ LoopEnds \/ Return
          \/ \E t \in Targets : Attempt(t) \/ Ack(t) \/ GiveUp(t) \/ Backoff(t)

Handlers == \E t \in Targets, i \in Attempts : Check(t, i) \/ Append(t, i)

Next == Sender \/ Handlers \/ Deadline \/ \E t \in Targets : Seal(t)

\* Requests time out (http.Client.Timeout) and goroutines run, so the sender
\* moves on; handlers may be as slow as they like, and the deadline may fail
\* to come.
Spec == Init /\ [][Next]_vars /\ WF_vars(Sender)

----------------------------------------------------------------------------
Stored(t) == {i \in Attempts : request[t][i] = "stored"}
Stray(t)  == {i \in Attempts : request[t][i] \in {"travels", "checked"}}

\* Broadcast returns nil only if every peer has stored the message, and no
\* seal takes that back: an acknowledged vote is in every tally.
NilMeansStored ==
  result = "ok" => \A t \in Targets : Stored(t) # {}

\* The reported M never exceeds the peers that did receive the message,
\* however often a request was repeated.
SentIsReceived ==
  messagesSent <= Cardinality({t \in Targets : Stored(t) # {}})

\* The whole call is one step of Delivery: what it did to each target is
\* settled when it returns, but for the requests it has given up.
OneStep == INSTANCE Delivery WITH
  stored <- [t \in Targets |->
               IF pc = "returned" THEN Cardinality(Stored(t)) ELSE 0],
  stray  <- [t \in Targets |->
               IF pc = "returned" THEN Cardinality(Stray(t)) ELSE 0]

IsOneStep == OneStep!Spec

\* Broadcast always returns: attempts are limited and slots come back.
Returns == <>(pc = "returned")
=============================================================================
