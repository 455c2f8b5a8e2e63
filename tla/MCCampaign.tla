----------------------------- MODULE MCCampaign -----------------------------
(***************************************************************************)
(* Small campaigns: three rows on two slots, next to a benchmark by hand.  *)
(***************************************************************************)
EXTENDS Campaign, TLC

\* Row 1 has its beta rounded down (1/3), row 2 up (2/3), row 3 is rejected.
MCAgents    == 0 :> 2 @@ 1 :> 3 @@ 2 :> 3 @@ 3 :> 1
MCPredicted == 1 :> 1 @@ 2 :> 2 @@ 3 :> 0

\* All rows are accepted, and row 2 has more peers than a slot has ports.
MCLargeAgents == 0 :> 2 @@ 1 :> 2 @@ 2 :> 4 @@ 3 :> 2
=============================================================================
