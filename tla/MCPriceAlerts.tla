--------------------------- MODULE MCPriceAlerts ---------------------------
EXTENDS PriceAlerts, TLC

\* A threshold below the base; the other run has one above it.
Falling == {-50}

\* Replicas are interchangeable in the formulas checked for safety.
ReplicaSymmetry == Permutations(Replicas)

\* The interleavings kept: two replicas until time 3 without a fault, until 2 with one; one
\* replica alone one time unit longer.
Engaged == {r \in Replicas : \/ tickers[r].pc # "idle"
                             \/ \E s \in Symbols : cache[r][s] # NoPrice}
Scenarios == now + faults <= IF Cardinality(Engaged) > 1 THEN 3 ELSE 4
=============================================================================
