------------------------------ MODULE Download ------------------------------
(***************************************************************************)
(* What Blacklist_Download promises, without votes, rounds or messages:    *)
(* every peer of Peers builds up a copy of the source's object bit by bit. *)
(* Nobody learns a bit before everybody has learned the earlier ones, a    *)
(* peer only ever blames peers of Faulty, and what a peer learns together  *)
(* with new culprits is the truth.  When Reliable holds it always is.      *)
(***************************************************************************)
EXTENDS Integers

CONSTANTS
  Peers,     \* the peers that follow the protocol
  Faulty,    \* the others
  Size,      \* the number of bits of the object
  Reliable   \* no wrong bit is learned

VARIABLES object, bits, blacklist

vars == <<object, bits, blacklist>>

Indices == 0 .. Size-1
NoBit   == -1

Init ==
  /\ object \in [Indices -> {0, 1}]
  /\ bits = [p \in Peers |-> [i \in Indices |-> NoBit]]
  /\ blacklist = [p \in Peers |-> {}]

\* The bits before i are known everywhere.
Reached(i) == \A p \in Peers, j \in Indices : j < i => bits[p][j] # NoBit

\* Peer p learns bit i and possibly that some peers are faulty.
Learn(p, i) ==
  /\ Reached(i) /\ bits[p][i] = NoBit
  /\ \E value \in {0, 1}, culprits \in SUBSET Faulty :
       /\ value = object[i] \/ (culprits = {} /\ ~Reliable)
       /\ bits' = [bits EXCEPT ![p][i] = value]
       /\ blacklist' = [blacklist EXCEPT ![p] = @ \cup culprits]
  /\ UNCHANGED object

Next == \E p \in Peers, i \in Indices : Learn(p, i)

Spec == Init /\ [][Next]_vars
=============================================================================
