--------------------------- MODULE MCNodeStorage ---------------------------
(* A small block tree for the model checking of NodeStorage: two branches. *)
EXTENDS NodeStorage, TLC

CONSTANTS G, A1, A2, B1, B2

TwoParent == A1 :> G @@ A2 :> A1 @@ B1 :> G @@ B2 :> B1
TwoPath == G :> <<G>> @@ A1 :> <<G, A1>> @@ A2 :> <<G, A1, A2>>
           @@ B1 :> <<G, B1>> @@ B2 :> <<G, B1, B2>>
=============================================================================
