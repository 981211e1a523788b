---------------------------- MODULE FinalizedLog ----------------------------
(***************************************************************************)
(* What finality promises the rest of the node: a log of finalised blocks, *)
(* one per height at most, to which blocks are added and from which none   *)
(* is ever removed.  One write of the certificate file may add the blocks  *)
(* of several heights, because a write that failed is made good by the     *)
(* next one.                                                               *)
(***************************************************************************)
CONSTANTS
    Heights,    \* heights blocks can be finalised at
    Blocks      \* blocks[h]: the blocks of height h

VARIABLE final  \* final[h]: {} or the one block finalised at h

Init == final = [h \in Heights |-> {}]

\* Heights H, none of them finalised yet, each get the block f[h].
Finalize(H) ==
    /\ \A h \in H : final[h] = {}
    /\ \E f \in [H -> UNION {Blocks[h] : h \in H}] :
          /\ \A h \in H : f[h] \in Blocks[h]
          /\ final' = [h \in Heights |-> IF h \in H THEN {f[h]} ELSE final[h]]

Next == \E H \in SUBSET Heights : Finalize(H)

Spec == Init /\ [][Next]_final

=============================================================================
