------------------------------- MODULE Votes -------------------------------
(***************************************************************************)
(* The pure part of decideBit (sim/algo_blacklist.go): how one honest peer *)
(* tallies the votes it holds for a bit.  A vote is a message record; the  *)
(* field copy tells apart the copies of one broadcast that the retries of  *)
(* post (agent/client.go) may deliver, so that a set of records stands for *)
(* the slice the program counts, whose order decideBit never looks at.     *)
(*                                                                         *)
(* The committee strength of the program is a float64 rho; the comparison  *)
(* float64(min(s0, s1)) > rho of two counts with it depends on its floor   *)
(* only, and the parameter rho of the operators below is that floor.       *)
(***************************************************************************)
EXTENDS Integers, FiniteSets

Bit == {0, 1}

\* A message of sender about bit number round, as delivered by one attempt.
Vote(senders, rounds, copies) ==
  [sender : senders, round : rounds, value : Bit, copy : copies]

\* The votes a peer counts: those whose sender it has not blacklisted.
Trusted(votes, blacklist) == {v \in votes : v.sender \notin blacklist}

\* voters0 and voters1, kept as votes so that a repeated vote counts twice.
VotesFor(b, votes, blacklist) ==
  {v \in Trusted(votes, blacklist) : v.value = b}

Count(b, votes, blacklist) == Cardinality(VotesFor(b, votes, blacklist))

\* Slip: the threshold is one vote too high.
ConflictTooLate(votes, blacklist, rho) ==
  /\ Count(0, votes, blacklist) > rho + 1
  /\ Count(1, votes, blacklist) > rho + 1

\* Slip: rho votes on each side are a conflict already.
ConflictTooSoon(votes, blacklist, rho) ==
  /\ Count(0, votes, blacklist) >= rho
  /\ Count(1, votes, blacklist) >= rho

\* min(s0, s1) > rho: both values have more than rho trusted votes.
Conflict(votes, blacklist, rho) ==
  /\ Count(0, votes, blacklist) > rho
  /\ Count(1, votes, blacklist) > rho

\* s0 + s1 == 0.
Silence(votes, blacklist) == Trusted(votes, blacklist) = {}

\* The value taken without the source: a tie goes to 0.
Majority(votes, blacklist) ==
  IF Count(1, votes, blacklist) > Count(0, votes, blacklist) THEN 1 ELSE 0

\* Slip: the peers on the side of the source are blamed.
LosersSwapped(votes, blacklist, value) ==
  {v.sender : v \in VotesFor(value, votes, blacklist)}

\* Slip: the loop over the losers stops after the first.
LosersFirst(votes, blacklist, value) ==
  LET wrong == {v.sender : v \in VotesFor(1 - value, votes, blacklist)}
  IN  {a \in wrong : \A b \in wrong : a <= b}

\* The senders a conflict exposes once the source has answered value.
Losers(votes, blacklist, value) ==
  {v.sender : v \in VotesFor(1 - value, votes, blacklist)}
=============================================================================
