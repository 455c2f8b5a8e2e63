------------------------------ MODULE PeerJob ------------------------------
(***************************************************************************)
(* The job of a committee member in the vote phase, request by request     *)
(* (sim/algo_blacklist.go): QueryBit (agent/client.go) with its artificial *)
(* delay and the retry loop of get, the /bit handler of the source         *)
(* (source/source.go), RecordPrimaryQuery, and Broadcast.                  *)
(*                                                                         *)
(* The job is one goroutine: PeerBroadcast begins where the query ends.    *)
(* Requests to the source that get has given up are still on their way:    *)
(* the source may count them later, or never.  An attempt of get is one    *)
(* request: that net/http sends a GET once more, by itself, when a kept    *)
(* connection breaks before the first byte of the answer is left out.      *)
(***************************************************************************)
EXTENDS PeerBroadcast

VARIABLES
  stage,          \* where QueryBit is; "answered" and "over" have left it
  asked,          \* attempts of get
  getErr,         \* outcome of its last failed attempt
  current,        \* the request it waits for
  given,          \* requests it has given up that the source may still see
  sourceQueries,  \* Q of the peer
  primaryQueries, \* its committee queries
  queryCount      \* queries seen by the source

queryVars == <<stage, asked, getErr, current, given, sourceQueries,
               primaryQueries, queryCount>>
jobVars   == <<vars, queryVars>>

\* The types of the query, a part of the proofs' invariant.
JobTypeOK ==
  /\ stage \in {"start", "delay", "ready", "waiting", "backoff", "answered",
                "over"}
  /\ asked \in 0 .. Tries /\ given \in 0 .. Tries
  /\ current \in {"none", "travels", "served"}
  /\ getErr \in ErrorKinds \cup {"none"}
  /\ sourceQueries \in Nat /\ primaryQueries \in Nat /\ queryCount \in Nat

JobInit ==
  /\ Init
  /\ stage = "start" /\ asked = 0 /\ getErr = "none"
  /\ current = "none" /\ given = 0
  /\ sourceQueries = 0 /\ primaryQueries = 0 /\ queryCount = 0

----------------------------------------------------------------------------
(* QueryBit *)

\* The query is counted before anything is sent.
Begin ==
  /\ stage = "start"
  /\ sourceQueries' = sourceQueries + 1
  /\ stage' \in {"delay", "ready"}
  /\ UNCHANGED <<vars, asked, getErr, current, given, primaryQueries,
                 queryCount>>

\* The job returns without a vote; its error tells a missed deadline apart.
QuitWith(kind) ==
  /\ stage' = "over" /\ pc' = "returned" /\ result' = kind
  /\ asked' = 0 /\ getErr' = "none" /\ current' = "none"
  /\ given' = IF current = "travels" THEN given + 1 ELSE given
  /\ UNCHANGED <<spawned, job, tries, lastErr, firstErr, request, expired,
                 sealed, messagesSent, sourceQueries, primaryQueries,
                 queryCount>>

\* The select on sourceDelay: the time is over, or the context is done.
Delay ==
  /\ stage = "delay"
  /\ \/ expired /\ QuitWith("missed")
     \/ /\ stage' = "ready"
        /\ UNCHANGED <<vars, asked, getErr, current, given, sourceQueries,
                       primaryQueries, queryCount>>

\* The top of the loop of get.
Ask ==
  /\ stage = "ready"
  /\ \/ expired /\ QuitWith("missed")
     \/ /\ ~expired
        /\ asked' = asked + 1 /\ current' = "travels" /\ stage' = "waiting"
        /\ UNCHANGED <<vars, getErr, given, sourceQueries, primaryQueries,
                       queryCount>>

\* The request fails at the client, whatever the source does with it.
AskFails ==
  /\ stage = "waiting"
  /\ getErr' \in ErrorKinds
  /\ stage' = "backoff" /\ current' = "none"
  /\ given' = IF current = "travels" THEN given + 1 ELSE given
  /\ UNCHANGED <<vars, asked, sourceQueries, primaryQueries, queryCount>>

\* Slip: one attempt too many is made.
AskOnceMore ==
  /\ stage = "backoff"
  /\ \/ expired /\ QuitWith("missed")
     \/ /\ asked <= Tries /\ stage' = "ready"
        /\ UNCHANGED <<vars, asked, getErr, current, given, sourceQueries,
                       primaryQueries, queryCount>>
     \/ asked > Tries /\ QuitWith(getErr)

\* The select after a failed attempt.
AskAgain ==
  /\ stage = "backoff"
  /\ \/ expired /\ QuitWith("missed")
     \/ /\ asked < Tries /\ stage' = "ready"
        /\ UNCHANGED <<vars, asked, getErr, current, given, sourceQueries,
                       primaryQueries, queryCount>>
     \/ asked = Tries /\ QuitWith(getErr)

\* Slip: the query is recorded, and the peer votes, without an answer.
AnswerUnseen ==
  /\ stage = "waiting"
  /\ stage' = "answered" /\ primaryQueries' = primaryQueries + 1
  /\ asked' = 0 /\ getErr' = "none" /\ current' = "none"
  /\ given' = IF current = "travels" THEN given + 1 ELSE given
  /\ UNCHANGED <<vars, sourceQueries, queryCount>>

\* The answer arrives: the query is recorded and the broadcast begins, or the
\* body cannot be read to its end, which is not tried again.
Answer ==
  /\ stage = "waiting" /\ current = "served"
  /\ \/ /\ stage' = "answered" /\ primaryQueries' = primaryQueries + 1
        /\ asked' = 0 /\ getErr' = "none" /\ current' = "none"
        /\ UNCHANGED <<vars, given, sourceQueries, queryCount>>
     \/ \E kind \in ErrorKinds : QuitWith(kind)

\* The /bit handler: every request that gets there is counted.
Serve ==
  /\ \/ current = "travels" /\ current' = "served" /\ UNCHANGED given
     \/ given > 0 /\ given' = given - 1 /\ UNCHANGED current
  /\ queryCount' = queryCount + 1
  /\ UNCHANGED <<vars, stage, asked, getErr, sourceQueries, primaryQueries>>

----------------------------------------------------------------------------
QueryBit == Begin \/ Delay \/ Ask \/ AskFails \/ AskAgain \/ Answer

Send     == stage = "answered" /\ Sender /\ UNCHANGED queryVars
Elsewhere == Handlers \/ Deadline \/ \E t \in Targets : Seal(t)

JobNext == \/ QueryBit \/ Send \/ Serve
           \/ Elsewhere /\ UNCHANGED queryVars

\* The source may be as slow as it likes; requests to it time out.
JobSpec == JobInit /\ [][JobNext]_jobVars /\ WF_jobVars(QueryBit \/ Send)

----------------------------------------------------------------------------
\* A peer votes only what the source has answered, and what it reports as
\* queries is tied to what the source has seen: at least one request for each
\* committee query, at most Tries for each query of the peer (of those its
\* program makes: net/http's own repeats are left out).
QueriesAreSeen ==
  /\ spawned > 0 => primaryQueries = 1
  /\ primaryQueries <= queryCount /\ queryCount <= Tries * sourceQueries

\* The steps that are left to a loop of attempts, of get or of post, once made
\* of them are over: three for each attempt.
RestOf == [start |-> 3, delay |-> 2, idle |-> 2, ready |-> 1, waiting |-> 3,
           backoff |-> 2]
LoopSteps(state, made) ==
  IF state \in DOMAIN RestOf THEN 3 * (Tries - made) + RestOf[state] ELSE 0

\* The steps that are left to the query (0), to the post of each target, and to
\* the loop of Broadcast (Last + 1).
StepsLeft(a) ==
  IF a = 0 THEN LoopSteps(stage, asked)
  ELSE IF a \in Targets THEN LoopSteps(job[a], tries[a])
  ELSE CASE pc = "loop" -> 2 [] pc = "wait" -> 1 [] pc = "returned" -> 0

StepCounts ==
  /\ \A a \in 0 .. Last + 1 : StepsLeft(a)' \in 0 .. StepsLeft(a)
  /\ (QueryBit \/ Send) =>
       \E a \in 0 .. Last + 1 : StepsLeft(a)' < StepsLeft(a)

\* The safety half of Returns: every step of the job is one step less for a part
\* of it and one more for none, so that it is over after a number of steps that
\* Last and Tries fix.  Neither a late handler nor the deadline, whenever it
\* passes, makes the job send once more.
EveryStepCounts == [][StepCounts]_jobVars
=============================================================================
