---------------------------- MODULE MCForkChoice ----------------------------
(* Small block trees for the model checking of ForkChoice. *)
EXTENDS ForkChoice, TLC

CONSTANTS G, A1, A2, A3, X2, B1, B2, B3, B4

\* A fork at genesis, and a second one above it on the A side.
NestedBlocks == {A1, A2, A3, X2, B1, B2}
NestedParent == A1 :> G @@ A2 :> A1 @@ A3 :> A2 @@ X2 :> A1 @@ B1 :> G @@ B2 :> B1

\* Two plain branches, the B side longer.
TwoBlocks == {A1, A2, B1, B2, B3, B4}
TwoParent == A1 :> G @@ A2 :> A1 @@ B1 :> G @@ B2 :> B1 @@ B3 :> B2 @@ B4 :> B3

Depth == G :> 0 @@ A1 :> 1 @@ A2 :> 2 @@ A3 :> 3 @@ X2 :> 2 @@ B1 :> 1 @@ B2 :> 2 @@ B3 :> 3 @@ B4 :> 4
NestedPath == G :> <<G>> @@ A1 :> <<G, A1>> @@ A2 :> <<G, A1, A2>> @@ A3 :> <<G, A1, A2, A3>>
              @@ X2 :> <<G, A1, X2>> @@ B1 :> <<G, B1>> @@ B2 :> <<G, B1, B2>>
TwoPath == G :> <<G>> @@ A1 :> <<G, A1>> @@ A2 :> <<G, A1, A2>>
           @@ B1 :> <<G, B1>> @@ B2 :> <<G, B1, B2>> @@ B3 :> <<G, B1, B2, B3>>
           @@ B4 :> <<G, B1, B2, B3, B4>>

EqualWork == [b \in Known |-> 1]
OneTx == [b \in Known |-> 1]
\* The B side is earlier, and wins ties; later blocks of a side are later.
MCTime == [b \in Known |-> 2 * Depth[b] + (IF b \in {B1, B2, B3, B4} THEN 0 ELSE 1)]
\* Each A block proves twice the work of a B block.
HeavyA == [b \in Known |-> IF b \in {A1, A2, A3, X2} THEN 2 ELSE 1]

AllBlocks == Block
NoBlocks == {}
\* The node mines the highest block itself, with a checkpoint on top.
OwnB4 == {B4}
CertifiableBlocks == {B1}
\* A double spend on the fork above A1.
ExceptX2 == Block \ {X2}
=============================================================================
