----------------------------- MODULE BlockTree -----------------------------
(***************************************************************************)
(* The tree of all blocks a network produces, and the chains in it.  A     *)
(* block stands for its header and its transactions; its place in the tree *)
(* is what index and previous_hash in the header say.                      *)
(***************************************************************************)
EXTENDS Integers, FiniteSets, SequencesExt

CONSTANTS
    Genesis,
    Block,              \* the other blocks of the network
    NoBlock,            \* absence of a block
    Parent,             \* Parent[b]: the block b's previous_hash names
    Path                \* Path[b]: the blocks from genesis to b

Known == Block \cup {Genesis}
Height == [b \in Known |-> Len(Path[b]) - 1]     \* the index in b's header
Heights == {Height[b] : b \in Block}
Branches == {Path[b] : b \in Known}

ASSUME TreeIsWellFormed ==
    /\ Genesis \notin Block
    /\ NoBlock \notin Known
    /\ Parent \in [Block -> Known]
    /\ Path \in [Known -> Seq(Known)]
    /\ Path[Genesis] = <<Genesis>>
    /\ \A b \in Block : Path[b] = Append(Path[Parent[b]], b)

\* Every block of c names the one before it, back to genesis.
Linked(c) ==
    /\ c \in Seq(Known) \ {<<>>}
    /\ c[1] = Genesis
    /\ \A i \in 2..Len(c) : c[i] \in Block /\ Parent[c[i]] = c[i - 1]

\* Height of the last block that chains c and d have in common.
ForkPoint(c, d) ==
    CHOOSE h \in 0..(Len(c) - 1) :
        /\ IsPrefix(SubSeq(c, 1, h + 1), d)
        /\ h + 1 < Len(c) /\ h + 1 < Len(d) => c[h + 2] # d[h + 2]

=============================================================================
