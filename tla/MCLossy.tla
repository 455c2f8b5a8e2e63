------------------------------ MODULE MCLossy ------------------------------
(***************************************************************************)
(* The round loop with what is printed of it, next to the abstract         *)
(* download, for the runs over a network that loses messages.              *)
(***************************************************************************)
EXTENDS BlacklistRefinement, RoundView
=============================================================================
