----------------------------- MODULE MCFinality -----------------------------
(* Instances of Finality: four validators of power 2, 1, 1, 1 and the       *)
(* quorum the node's default threshold of 0.67 gives them, ceil(3.35) = 4.  *)
EXTENDS Finality, TLC

CONSTANTS v1, v2, v3, v4    \* validators, v1 the one with power 2
CONSTANTS A1, B1, A2        \* two competing blocks at height 1, one at height 2

MCPower == [S \in SUBSET {v1, v2, v3, v4} |->
               Cardinality(S) + (IF v1 \in S THEN 1 ELSE 0)]
MCHeight == (A1 :> 1) @@ (B1 :> 1) @@ (A2 :> 2)

\* The same with one height: two competing blocks and nothing else.
MCHeightOne == (A1 :> 1) @@ (B1 :> 1)

Symmetric == Permutations({v2, v3, v4})

=============================================================================
