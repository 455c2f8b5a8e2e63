------------------------------ MODULE Results ------------------------------
(***************************************************************************)
(* What a benchmark reports of a run: the loop over the agents at the end  *)
(* of runBlacklistScenario (sim/algo_blacklist.go), successRate and the    *)
(* table and the decomposition of PrintResults (sim/metrics.go).  The      *)
(* message count M is the subject of PeerBroadcast; times are left out.    *)
(***************************************************************************)
EXTENDS BlacklistDownload

\* Reconstruct: the output of a peer, None (nil) if a bit is missing.
None == <<>>
Reconstruct(a) ==
  IF \E r \in Rounds : bits[a][r] = NoBit THEN None ELSE bits[a]

MissingBitCount(a) == Cardinality({r \in Rounds : bits[a][r] = NoBit})

ReconstructedCorrectly(a) == Reconstruct(a) = object

Completed   == {a \in Honest : ReconstructedCorrectly(a)}
MissingBits ==
  Cardinality({p \in (Honest \ Completed) \X Rounds : bits[p[1]][p[2]] = NoBit})

\* The loop keeps the counters of the first peer with more queries than all
\* before it, if it has made any.
MaxHonestSourceQueries ==
  CHOOSE q \in {sourceQueries[a] : a \in Honest} :
    \A a \in Honest : sourceQueries[a] <= q
MaxAgent ==
  CHOOSE a \in Honest :
    /\ sourceQueries[a] = MaxHonestSourceQueries
    /\ \A b \in Honest : sourceQueries[b] = MaxHonestSourceQueries => a <= b

MaxAgentPrimaryQueries == primaryQueries[MaxAgent]
MaxAgentVerifyQueries  == verifyQueries[MaxAgent]

\* The largest of all honest peers, whichever has the most queries.
MaxBlacklistSize ==
  CHOOSE s \in {Cardinality(blacklist[a]) : a \in Honest} :
    \A a \in Honest : Cardinality(blacklist[a]) <= s

\* The line "Q = committee + conflict (blacklist size = ...)" of PrintResults.
Decomposition ==
  [Q |-> MaxHonestSourceQueries, committee |-> MaxAgentPrimaryQueries,
   conflict |-> MaxAgentVerifyQueries, blacklistSize |-> MaxBlacklistSize]

\* Results are reported of a run that came to its end.
Reported == phase = "done"

----------------------------------------------------------------------------
\* "Q decomposition (max-Q honest agent)": the four numbers are those of one
\* peer, although the loop takes the last one from another, as long as no
\* message was lost, repeated or late.
DecompositionIsOnePeer ==
  (Reported /\ faults = 0) =>
    \E a \in Honest :
      Decomposition = [Q |-> sourceQueries[a], committee |-> primaryQueries[a],
                       conflict |-> verifyQueries[a],
                       blacklistSize |-> Cardinality(blacklist[a])]

\* The success rate of such a run is 0 or 1: the honest peers fail together, by
\* a wrong bit and never by a missing one.
AllOrNothing ==
  (Reported /\ faults = 0) => Completed \in {{}, Honest} /\ MissingBits = 0
=============================================================================
