----------------------------- MODULE RoundView -----------------------------
(***************************************************************************)
(* What -verbose (printRoundTrace, sim/trace.go) and -demo (printRoundDemo,*)
(* sim/demo.go) show of a round.  Both look at the first honest peer after *)
(* all decisions: they read its votes again, filter them with a copy of    *)
(* its blacklist made before, and repeat the decision with code of their   *)
(* own.  So the rule of decideBit is in the program three times, and what  *)
(* it is applied to may have changed in between.  The rule is stated once  *)
(* here, in Votes: what the three can differ in are the votes, one of each *)
(* sender or all of them, and the blacklist they leave out.                *)
(***************************************************************************)
EXTENDS BlacklistDownload

VARIABLES
  before,  \* the peer before the decisions: blacklist, queries, conflicts
  tallied, \* history: the votes its decideBit has worked on
  shown    \* what was printed of this round, NotShown at first

viewVars == <<vars, before, tallied, shown>>

\* The first agent that is not Byzantine, as for the drip adversary.
TraceAgent == RepHonest

NotShown == [votes |-> {}, trace |-> <<>>, demo |-> <<>>, liars |-> {}]

\* preBlacklist, and two counters of the history for comparison.
Snapshot == [blacklist     |-> blacklist[TraceAgent],
             verifyQueries |-> verifyQueries[TraceAgent],
             conflicts     |-> conflicts[TraceAgent]]

\* Slip: the votes are filtered with the blacklist after the decision.
FilterAfter == blacklist[TraceAgent]

\* The blacklist the printed tally leaves out.
Filter == before.blacklist

\* The decision the views derive from votes.  A query is assumed to give the
\* true bit, a blacklisting is read off the blacklist.
Shown(votes) ==
  IF Silence(votes, Filter) THEN <<"silence", object[round]>>
  ELSE IF Conflict(votes, Filter, Rho) THEN <<"conflict", object[round]>>
  ELSE <<"majority", Majority(votes, Filter)>>

\* The map of the demo keeps one vote of each sender; the trace keeps all.
OnePerSender(votes) ==
  {v \in votes : \A w \in votes : w.sender = v.sender => v.copy <= w.copy}

\* After the last decision and before the votes are freed.
Show ==
  /\ phase = "forget" /\ shown = NotShown
  /\ shown' = [votes |-> RoundVotes(TraceAgent),
               trace |-> Shown(RoundVotes(TraceAgent)),
               demo  |-> Shown(OnePerSender(RoundVotes(TraceAgent))),
               liars |-> blacklist[TraceAgent] \ before.blacklist]
  /\ UNCHANGED <<vars, before, tallied>>

\* A step of the round loop: the copy is made when the last peer is sealed,
\* and no vote is freed before the round is shown.
LoopStep ==
  /\ Next
  /\ before' = IF phase = "seal" /\ phase' = "decide" THEN Snapshot ELSE before
  /\ tallied' = IF phase = "decide" /\ TraceAgent \in todo \ todo'
                   THEN RoundVotes(TraceAgent)
                   ELSE tallied
  /\ phase = "forget" /\ todo' # todo => shown # NotShown
  /\ shown' = IF phase = "start" THEN NotShown ELSE shown

ViewInit == Init /\ before = Snapshot /\ tallied = {} /\ shown = NotShown
ViewNext == Show \/ LoopStep
ViewSpec == ViewInit /\ [][ViewNext]_viewVars

----------------------------------------------------------------------------
\* A printed decision is the one decideBit made: the same bit, a query of the
\* source if and only if there was one, a conflict if and only if there was one.
IsDecisionMade(decision) ==
  LET made == bits[TraceAgent][round]
  IN  /\ decision[2] = made
      /\ decision[1] = "majority"
           <=> verifyQueries[TraceAgent] = before.verifyQueries
      /\ decision[1] = "conflict" <=> conflicts[TraceAgent] > before.conflicts

ShownNow == phase = "forget" /\ shown # NotShown

\* The trace tells the decision that was made whenever it finds the votes that
\* decideBit found.  What it finds besides them was appended in between, and
\* that, as a demo which differs from the trace, takes a fault.  Liars are
\* printed after a conflict and only then, they are Byzantine, and without a
\* fault every honest peer has caught them.
ViewsTellTheDecision ==
  ShownNow =>
    /\ tallied \subseteq shown.votes
    /\ shown.votes = tallied => IsDecisionMade(shown.trace)
    /\ shown.liars # {} <=> conflicts[TraceAgent] > before.conflicts
    /\ shown.liars \subseteq Byz
    /\ faults = 0 => /\ shown.votes = tallied /\ shown.demo = shown.trace
                     /\ \A a \in Honest : shown.liars \subseteq blacklist[a]

\* demo.go: "animates one round: committee election, voting, tally, decision",
\* and the tally is headed "Honest agent tallies the votes it trusts".  The
\* agent counts messages, the demo senders: after a repeated vote it shows
\* another decision than the one made.
DemoTellsTheDecision == ShownNow => IsDecisionMade(shown.demo)
=============================================================================
