------------------------ MODULE BlacklistRefinement ------------------------
(***************************************************************************)
(* BlacklistDownload implements Download: a step of decideBit that stores  *)
(* a bit is a Learn step, every other step stutters.  The download is      *)
(* reliable when the coins elect more than rho honest peers in each round  *)
(* and the network loses nothing.                                          *)
(***************************************************************************)
EXTENDS BlacklistDownload

Promise == INSTANCE Download WITH
  Peers <- Honest, Faulty <- Byz, Size <- N,
  Reliable <- (MinCommittee > Rho /\ MaxFaults = 0 /\ MaxOverruns = 0)

\* Every behaviour of the round loop is a behaviour of the promise: bits are
\* learned in order and in lock step, blame falls on Byzantine peers only and
\* comes with the true bit, and no bit is wrong in a reliable setting.
ImplementsDownload == Promise!Spec
=============================================================================
