-------------------------------- MODULE Grid --------------------------------
(***************************************************************************)
(* The number of Byzantine peers of a grid row, on its way from gridgen    *)
(* (cmd/gridgen/main.go), which predicts the cost of c of k peers and      *)
(* writes c/k with six decimals, to newScenarioEnv (sim/scenario.go), which*)
(* reads the decimals back and takes the floor of their product with k.    *)
(***************************************************************************)
EXTENDS Integers

Million == 1000 * 1000

\* One peer is left to be honest: if byzantineCount >= k { k - 1 }.
Clamp(c, k) == IF c >= k THEN k - 1 ELSE c

Distance(a, b) == IF a >= b THEN a - b ELSE b - a

\* FormatFloat(c/k, 'f', 6, 64), in millionths: the nearest, either of the two
\* on a tie (which of them is up to the last bit of the float c/k).
Decimals(c, k) ==
  LET down == (c * Million) \div k
  IN  {m \in {down, down + 1} : 2 * Distance(m * k, c * Million) <= k}

\* Slip: the ratio is taken of the other peers only.
FloorOfOthers(m, k) == {Clamp((m * (k - 1)) \div Million, k)}

\* int(math.Floor(ratio * float64(k))) for a ratio of m millionths.  A product
\* that is a whole number may come out just below it in floating point.
Floor(m, k) ==
  LET down == (m * k) \div Million
  IN  {Clamp(down, k)} \cup
        {Clamp(c, k) : c \in {d \in {down - 1} : d >= 0 /\ m * k = down * Million}}

\* What a row that predicts c of k Byzantine peers can make of r of them.  Six
\* decimals that are too small cost one peer; too large ones cost none.
Survives(c, k, m, r) ==
  /\ r \in {c - 1, c}
  /\ m * k > c * Million => r = c
=============================================================================
