------------------------------ MODULE Delivery ------------------------------
(***************************************************************************)
(* A broadcast as the round loop sees it: one step that settles, for every *)
(* target, how many copies of the message are stored and how many requests *)
(* may still be stored later.  BlacklistDownload uses broadcasts this way. *)
(***************************************************************************)
EXTENDS Integers

CONSTANTS
  Targets,  \* the peers the message is for
  Tries     \* the most requests one peer is ever sent

VARIABLES
  stored, stray,  \* copies in the store, requests on their way, for each target
  result          \* "none" until the broadcast returns

vars == <<stored, stray, result>>

Results == {"ok", "missed", "error"}

Init ==
  /\ stored = [t \in Targets |-> 0] /\ stray = [t \in Targets |-> 0]
  /\ result = "none"

\* The broadcast returns: nil only when every target has the message.
Deliver ==
  /\ result = "none"
  /\ result' \in Results
  /\ stored' \in [Targets -> 0 .. Tries] /\ stray' \in [Targets -> 0 .. Tries]
  /\ \A t \in Targets : stored'[t] + stray'[t] <= Tries
  /\ result' = "ok" => \A t \in Targets : stored'[t] >= 1

\* A request nobody waits for reaches the store, or finds the round sealed.
Arrive(t) ==
  /\ result # "none" /\ stray[t] > 0
  /\ stray' = [stray EXCEPT ![t] = @ - 1]
  /\ \/ stored' = [stored EXCEPT ![t] = @ + 1]
     \/ UNCHANGED stored
  /\ UNCHANGED result

Next == Deliver \/ \E t \in Targets : Arrive(t)

Spec == Init /\ [][Next]_vars
=============================================================================
