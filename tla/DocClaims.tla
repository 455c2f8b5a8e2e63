----------------------------- MODULE DocClaims -----------------------------
(***************************************************************************)
(* Sentences of the README and of comments that say more than the program  *)
(* does, each as a property of BlacklistDownload that a run refutes.       *)
(***************************************************************************)
EXTENDS BlacklistDownload

\* algo_blacklist.go: "free them so memory stays bounded to one round".  A
\* handler that passed the test of the seal before SealRound may append after
\* ForgetRound, and nothing frees that round again.
MemoryIsOneRound ==
  phase = "start" => \A a \in Honest : \A m \in messages[a] : m.round >= round

\* algo_blacklist.go: "all honest agents blacklist the same liars, so any one
\* of them is representative".  A broadcast the deadline cuts short, or a
\* repeated one, gives two honest peers different tallies.
RepresentativeBlacklist ==
  phase = "start" => \A a, b \in Honest : blacklist[a] = blacklist[b]
=============================================================================
