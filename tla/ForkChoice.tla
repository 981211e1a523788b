----------------------------- MODULE ForkChoice -----------------------------
(***************************************************************************)
(* How one node chooses its chain: Blockchain.add_block with its three     *)
(* cases, the orphan pool, _handle_fork, _check_orphan_chains_for_reorg,   *)
(* replace_chain and _process_orphan_blocks (core/blockchain.py), together *)
(* with the blocks the node mines itself, the checkpoints mining takes and *)
(* the finality certificates that other threads obtain meanwhile.          *)
(*                                                                         *)
(* The block tree is constant; blocks arrive in any order and any number   *)
(* of times.  _chain_lock makes add_block one critical section, split here *)
(* where something else can happen inside it: job is the reorganisation    *)
(* (or the connecting of orphans) under way.  A finality certificate can   *)
(* be issued while it runs, since record_vote takes a lock of its own.     *)
(* Mining takes no lock either: an own block can come between two orphans, *)
(* but this module leaves out those that are appended while replace_chain  *)
(* runs.  MiningRace has them, step by step, without checkpoints.          *)
(* The state derived from the chain (UTXO set, governance state, state     *)
(* files) is the sequence of blocks it was computed from.                  *)
(*                                                                         *)
(* One session of a node is modelled: every entry of chain is a full       *)
(* block, and lineage, which only freshly mined blocks carry, is absent.   *)
(***************************************************************************)
EXTENDS BlockTree

CONSTANTS
    Work,               \* Work[b]: work proved by b's difficulty
    TxCount,            \* TxCount[b]: transactions in b
    Time,               \* Time[b]: timestamp of b
    Applies,            \* blocks whose inputs are all unspent on their branch
    Own,                \* blocks this node mines
    MaxReorgDepth,      \* max_reorg_depth
    MaxOrphans,         \* max_orphan_blocks
    CheckpointEvery,    \* checkpoint interval, in blocks
    Certifiable,        \* blocks a quorum of validators votes for
    VotesDuringReorg,   \* whether a quorum may complete while a reorg runs
    MaxCopies,          \* bound: copies of one block in the orphan pool
    MaxFailures         \* bound: write errors during reorganisations

ASSUME LimitsAreTyped ==
    /\ Work \in [Known -> Nat]
    /\ TxCount \in [Known -> Nat]
    /\ Time \in [Known -> Nat]
    /\ Applies \subseteq Block
    /\ Own \subseteq Applies
    /\ Certifiable \subseteq Block
    /\ MaxReorgDepth \in Nat
    /\ MaxOrphans \in Nat
    /\ CheckpointEvery \in Nat \ {0}
    /\ VotesDuringReorg \in BOOLEAN
    /\ MaxCopies \in Nat
    /\ MaxFailures \in Nat

VARIABLES
    chain,          \* chain: the block at height h is chain[h + 1]
    orphans,        \* orphan_blocks: for each height, blocks in arrival order
    utxo,           \* the blocks whose transactions the UTXO set reflects
    governance,     \* the blocks whose transactions governance_state reflects
    txCount,        \* _cumulative_tx_count
    blockFile,      \* for each height, the block last saved to the block files
    stateFile,      \* the blocks the saved UTXO set reflects
    certified,      \* blocks with a finality certificate
    checkpoint,     \* the block of the latest checkpoint, Genesis without one
    mined,          \* own blocks mined so far
    job,            \* what the holder of _chain_lock has still to do
    failures

vars == <<chain, orphans, utxo, governance, txCount, blockFile, stateFile,
          certified, checkpoint, mined, job, failures>>

-----------------------------------------------------------------------------
(* Chains.                                                                 *)

Tip == Last(chain)
UpTo(h) == SubSeq(chain, 1, h + 1)      \* chain[:h+1]

\* What measure yields for the blocks of c together.
Total(measure, c) ==
    LET sum[n \in 0..Len(c)] == IF n = 0 THEN 0 ELSE sum[n - 1] + measure[c[n]]
    IN  sum[Len(c)]

ChainWork(c) == Total(Work, c)

\* seeded bug: sign error
SubtractTxs(c) == 0 - Total(TxCount, c)

CountTxs(c) == Total(TxCount, c)

\* seeded bug: orphans are taken by height, whatever their parent
AnyOrphan(pool, h, parent) == DOMAIN pool[h]

\* Places in the pool of the orphans at height h that follow block parent.
Continuing(pool, h, parent) == {i \in DOMAIN pool[h] : Parent[pool[h][i]] = parent}

\* c extended height by height with the first orphan that continues it.
Extended(c, pool) ==
    LET FirstOnes(d) == \A i \in (Len(c) + 1)..Len(d) :
                            LET at == Continuing(pool, i - 1, d[i - 1])
                            IN  at # {} /\ d[i] = pool[i - 1][Min(at)]
        extensions == {d \in Branches : IsPrefix(c, d) /\ FirstOnes(d)}
    IN  CHOOSE d \in extensions : \A e \in extensions : Len(e) <= Len(d)

\* The block files once the blocks of c from height h on have been saved.
Saved(file, c, h) ==
    [i \in DOMAIN file |-> IF i >= h /\ i < Len(c) THEN c[i + 1] ELSE file[i]]

\* What replaying the block files up to height h yields: a height without a
\* block is passed over.
Replayed(file, h) ==
    LET replay[n \in 0..(h + 1)] ==
            IF n = 0 THEN <<>>
            ELSE IF file[n - 1] = NoBlock THEN replay[n - 1]
            ELSE Append(replay[n - 1], file[n - 1])
    IN  replay[h + 1]

-----------------------------------------------------------------------------
(* The orphan pool.                                                        *)

Stored(b) == [orphans EXCEPT ![Height[b]] = Append(@, b)]
PoolWith(b) == IF b \in ToSet(orphans[Height[b]]) THEN orphans ELSE Stored(b)
PoolSize(pool, from) ==
    FoldFunctionOnSet(+, 0, [h \in Heights |-> Len(pool[h])], {h \in Heights : h >= from})

\* _prune_orphans drops whole heights, lowest first, until the pool fits.
Pruned(pool) ==
    [h \in Heights |-> IF PoolSize(pool, h) > MaxOrphans THEN <<>> ELSE pool[h]]

\* The branches that start with an orphan on top of a block of the chain, each
\* with the height and the place in the pool of that orphan.
Candidates(pool) ==
    LET onChain(h, i) == h <= Len(chain) /\ Parent[pool[h][i]] = chain[h]
    IN  UNION {{[height |-> h, place |-> i,
                 blocks |-> Extended(Append(UpTo(h - 1), pool[h][i]), pool)]
                : i \in {j \in 1..Len(pool[h]) : onChain(h, j)}} : h \in Heights}

Before(c, d) == \/ c.height < d.height
                \/ c.height = d.height /\ c.place < d.place

\* _check_orphan_chains_for_reorg: the first branch of the most work, if that
\* is more than the chain's; <<>> if there is none.
BestBranch(pool) ==
    LET heaviest ==
            {c \in Candidates(pool) :
                /\ ChainWork(c.blocks) > ChainWork(chain)
                /\ \A d \in Candidates(pool) :
                      /\ ChainWork(d.blocks) <= ChainWork(c.blocks)
                      /\ Before(d, c) => ChainWork(d.blocks) < ChainWork(c.blocks)}
    IN  IF heaviest = {} THEN <<>> ELSE (CHOOSE c \in heaviest : TRUE).blocks

-----------------------------------------------------------------------------
(* replace_chain, up to the point where it starts to change state.         *)

CertifiedHeights == {Height[b] : b \in certified}

RespectsCheckpoint(c) ==
    checkpoint # Genesis =>
        /\ ForkPoint(chain, c) >= Height[checkpoint]
        /\ Len(chain) - ForkPoint(chain, c) - 1 <= MaxReorgDepth

\* seeded bug: the finalized block itself may be replaced
RespectsParentsOnly(c) == \A h \in CertifiedHeights : ForkPoint(chain, c) + 1 >= h

RespectsFinality(c) == \A h \in CertifiedHeights : ForkPoint(chain, c) >= h

\* seeded bug: a chain must be longer by two
PreferredByTwo(c) == Len(c) > Len(chain) + 1

\* seeded bug: at equal length the lighter chain is not turned down
PreferredByLength(c) == Len(c) >= Len(chain) /\ c # chain

\* Longer wins; then more work, more transactions, an earlier tip.
Preferred(c) ==
    \/ Len(c) > Len(chain)
    \/ /\ Len(c) = Len(chain)
       /\ \/ ChainWork(c) > ChainWork(chain)
          \/ /\ ChainWork(c) = ChainWork(chain)
             /\ \/ CountTxs(c) > txCount
                \/ CountTxs(c) = txCount /\ Time[Last(c)] < Time[Tip]

Replaceable(c) ==
    /\ RespectsCheckpoint(c)
    /\ RespectsFinality(c)
    /\ Preferred(c)
    /\ Linked(c)

-----------------------------------------------------------------------------

NoJob == [do |-> "nothing", to |-> <<>>]
Job(kind, c) == [do |-> kind, to |-> c]
Replacing == job.do \in {"orphans", "fork", "undo", "sync"}
Free == job = NoJob

Init ==
    /\ chain = <<Genesis>>
    /\ orphans = [h \in Heights |-> <<>>]
    /\ utxo = <<Genesis>>
    /\ governance = <<Genesis>>
    /\ txCount = TxCount[Genesis]
    /\ blockFile = [h \in Heights \cup {0} |-> IF h = 0 THEN Genesis ELSE NoBlock]
    /\ stateFile = <<Genesis>>
    /\ certified = {}
    /\ checkpoint = Genesis
    /\ mined = {}
    /\ job = NoJob
    /\ failures = 0

\* A block reaches add_block from a peer; unless it is the node's own and
\* not mined yet.
Arrives(b) == Free /\ (b \in Own => b \in mined)
OnChain(b) == b \in ToSet(chain)
Continues(b) == Height[b] = Len(chain) /\ Parent[b] = Tip
Forks(b) == /\ Height[b] < Len(chain)
            /\ ~OnChain(b)
            /\ Parent[b] = chain[Height[b]]

\* Whether b's inputs are unspent; anything goes once the UTXO set is not the
\* chain's any more.
CanApply(b) == utxo = chain => b \in Applies

\* The whole effect of appending b, saving it and the state files.
AppendBlock(b) ==
    /\ chain' = Append(chain, b)
    /\ utxo' = Append(utxo, b)
    /\ governance' = Append(governance, b)
    /\ blockFile' = [blockFile EXCEPT ![Height[b]] = b]
    /\ stateFile' = utxo'

\* Case 1, linked: the block is applied and orphans are looked at next.
ExtendTip(b) ==
    /\ Arrives(b)
    /\ Continues(b)
    /\ CanApply(b)
    /\ AppendBlock(b)
    /\ txCount' = txCount + TxCount[b]
    /\ job' = Job("connect", <<>>)
    /\ UNCHANGED <<orphans, certified, checkpoint, mined, failures>>

\* _process_orphan_blocks, one turn of its loop: the first orphan that
\* continues the chain is applied, without validating its transactions.
ConnectOrphan ==
    /\ job.do = "connect"
    /\ Len(chain) \in Heights
    /\ Continuing(orphans, Len(chain), Tip) # {}
    /\ LET first == Min(Continuing(orphans, Len(chain), Tip))
           b == orphans[Len(chain)][first]
       IN  /\ AppendBlock(b)
           /\ txCount' = txCount + TxCount[b]
           /\ orphans' = [orphans EXCEPT ![Len(chain)] = RemoveAt(@, first)]
    /\ UNCHANGED <<certified, checkpoint, mined, job, failures>>

StopConnecting ==
    /\ job.do = "connect"
    /\ Len(chain) \in Heights => Continuing(orphans, Len(chain), Tip) = {}
    /\ job' = NoJob
    /\ UNCHANGED <<chain, orphans, utxo, governance, txCount, blockFile,
                   stateFile, certified, checkpoint, mined, failures>>

\* Cases 1 and 2 and the end of case 3: a block that links to no block of the
\* chain below its height goes to the pool, and the pool is examined.
StoreOrphan(b) ==
    /\ Arrives(b)
    /\ ~OnChain(b) /\ ~Continues(b) /\ ~Forks(b)
    /\ Len(SelectSeq(orphans[Height[b]], LAMBDA o : o = b)) < MaxCopies
    /\ orphans' = Stored(b)
    /\ LET c == BestBranch(Stored(b))
       IN  job' = IF c # <<>> /\ Replaceable(c) THEN Job("orphans", c) ELSE NoJob
    /\ UNCHANGED <<chain, utxo, governance, txCount, blockFile, stateFile,
                   certified, checkpoint, mined, failures>>

\* Case 3, linked, with the reorg bound exceeded: pooled, nothing more.
ForkTooDeep(b) ==
    /\ Arrives(b)
    /\ Forks(b)
    /\ Len(chain) - Height[b] - 1 > MaxReorgDepth
    /\ orphans' = Pruned(PoolWith(b))
    /\ UNCHANGED <<chain, utxo, governance, txCount, blockFile, stateFile,
                   certified, checkpoint, mined, job, failures>>

\* Case 3, linked: _handle_fork saves the branch it can build from b, and
\* proposes it if it is as long as the chain or has more work.  Otherwise the
\* pool is examined, but the caller is told that the fork failed whatever
\* comes of it ("undo").
HandleFork(b) ==
    /\ Arrives(b)
    /\ Forks(b)
    /\ Len(chain) - Height[b] - 1 <= MaxReorgDepth
    /\ \E pool \in {PoolWith(b)} :
       \E c \in {Extended(Append(UpTo(Height[b] - 1), b), pool)}, best \in {BestBranch(pool)} :
          LET competes == Len(c) >= Len(chain) \/ ChainWork(c) > ChainWork(chain)
          IN  /\ blockFile' = Saved(blockFile, c, Height[b])
              /\ \/ /\ competes
                    /\ Replaceable(c)
                    /\ job' = Job("fork", c)
                    /\ orphans' = pool
                 \/ /\ competes
                    /\ ~Replaceable(c)
                    /\ job' = NoJob
                    /\ orphans' = pool
                 \/ /\ ~competes
                    /\ best # <<>>
                    /\ Replaceable(best)
                    /\ job' = Job("undo", best)
                    /\ orphans' = pool
                 \/ /\ ~competes
                    /\ best # <<>> => ~Replaceable(best)
                    /\ job' = NoJob
                    /\ orphans' = Pruned(pool)
    /\ UNCHANGED <<chain, utxo, governance, txCount, stateFile, certified,
                   checkpoint, mined, failures>>

\* A sync round fetched a longer chain and hands it to replace_chain.
SyncChain(c) ==
    /\ Free
    /\ Len(c) > Len(chain)
    /\ Replaceable(c)
    /\ ToSet(c) \cap Own \subseteq mined
    /\ job' = Job("sync", c)
    /\ UNCHANGED <<chain, orphans, utxo, governance, txCount, blockFile,
                   stateFile, certified, checkpoint, mined, failures>>

-----------------------------------------------------------------------------
(* replace_chain, from the snapshots on; the caller's tail follows it.     *)

\* What the caller does to the pool once replace_chain has returned.
PoolAfter(replaced) ==
    CASE job.do = "undo" -> Pruned(orphans)
      [] job.do = "fork" /\ replaced ->
            [h \in Heights |-> IF h < Len(job.to) THEN <<>> ELSE orphans[h]]
      [] OTHER -> orphans

\* Where the chain of a reorganisation has a block that cannot be applied.
Refused == {i \in DOMAIN job.to : job.to[i] \notin Applies \cup {Genesis}}
AllApply == Refused = {}

\* seeded bug: the UTXO set is not restored with the chain
UndoneKeepsUtxo ==
    /\ chain' = IF job.do = "undo" THEN chain ELSE job.to
    /\ utxo' = job.to

\* add_block restores its snapshots when _handle_fork has returned False.
SwitchTo ==
    /\ chain' = IF job.do = "undo" THEN chain ELSE job.to
    /\ utxo' = IF job.do = "undo" THEN utxo ELSE job.to

\* Governance state (and contract state) is replayed from the block files,
\* before the blocks of the new chain are saved to them.
CompleteReorg ==
    /\ Replacing
    /\ AllApply
    /\ SwitchTo
    /\ txCount' = CountTxs(job.to)
    /\ governance' = Replayed(blockFile, Len(job.to) - 1)
    /\ blockFile' = Saved(blockFile, job.to, 0)
    /\ stateFile' = job.to
    /\ orphans' = PoolAfter(TRUE)
    /\ job' = NoJob
    /\ UNCHANGED <<certified, checkpoint, mined, failures>>

\* An input of the new chain cannot be spent: a plain Exception leaves
\* replace_chain and add_block with the UTXO set rebuilt up to there.
ReorgAborts ==
    /\ Replacing
    /\ ~AllApply
    /\ utxo' = SubSeq(job.to, 1, Min(Refused) - 1)
    /\ job' = NoJob
    /\ UNCHANGED <<chain, orphans, governance, txCount, blockFile, stateFile,
                   certified, checkpoint, mined, failures>>

\* Writing a block fails: the OSError leaves replace_chain and add_block with
\* the new chain in memory.
BlockWriteFails ==
    /\ Replacing
    /\ AllApply
    /\ failures < MaxFailures
    /\ chain' = job.to
    /\ utxo' = job.to
    /\ txCount' = CountTxs(job.to)
    /\ governance' = Replayed(blockFile, Len(job.to) - 1)
    /\ \E n \in 0..(Len(job.to) - 1) :
          blockFile' = Saved(blockFile, SubSeq(job.to, 1, n), 0)
    /\ job' = NoJob
    /\ failures' = failures + 1
    /\ UNCHANGED <<orphans, stateFile, certified, checkpoint, mined>>

\* Writing the state files fails, before or after utxo_set.json is in place:
\* the RuntimeError is caught and the snapshots are restored.
StateWriteFails ==
    /\ Replacing
    /\ AllApply
    /\ failures < MaxFailures
    /\ txCount' = CountTxs(job.to)
    /\ blockFile' = Saved(blockFile, job.to, 0)
    /\ stateFile' \in {stateFile, job.to}
    /\ orphans' = PoolAfter(FALSE)
    /\ job' = NoJob
    /\ failures' = failures + 1
    /\ UNCHANGED <<chain, utxo, governance, certified, checkpoint, mined>>

-----------------------------------------------------------------------------

\* mine_pending_transactions adds a block of its own (here in one step): it
\* counts no transactions and looks at no orphans.  The guard against a
\* reorganisation is the model's: the code has no lock that keeps the block, and
\* the checkpoint taken with it, from coming between the checks of replace_chain
\* and its switch, which then drops both.
Mine(b) ==
    /\ ~Replacing
    /\ b \in Own \ mined
    /\ Continues(b)
    /\ AppendBlock(b)
    /\ checkpoint' = IF Height[b] % CheckpointEvery = 0 THEN b ELSE checkpoint
    /\ mined' = mined \cup {b}
    /\ UNCHANGED <<orphans, txCount, certified, job, failures>>

\* A quorum of votes completes, in the thread of submit_finality_vote, for a
\* block get_block or get_block_by_hash finds on the chain.
Certify(b) ==
    /\ b \in Certifiable \ certified
    /\ OnChain(b)
    /\ (Replacing => VotesDuringReorg)
    /\ certified' = certified \cup {b}
    /\ UNCHANGED <<chain, orphans, utxo, governance, txCount, blockFile,
                   stateFile, checkpoint, mined, job, failures>>

Receive(b) == ExtendTip(b) \/ StoreOrphan(b) \/ ForkTooDeep(b) \/ HandleFork(b)

Finish == ConnectOrphan \/ StopConnecting \/ CompleteReorg \/ ReorgAborts

Next ==
    \/ \E b \in Block : Receive(b) \/ Mine(b) \/ Certify(b)
    \/ \E c \in Branches : SyncChain(c)
    \/ Finish
    \/ BlockWriteFails
    \/ StateWriteFails

Spec == Init /\ [][Next]_vars

\* Peers announce a block until it changes nothing any more, a thread that
\* waits for _chain_lock gets it in the end, and its holder runs on.
Fairness == WF_vars(Finish) /\ \A b \in Block : SF_vars(Receive(b))
FairSpec == Spec /\ Fairness

-----------------------------------------------------------------------------
(* Properties.                                                             *)

\* Every variable has its type.
TypeOK ==
    /\ chain \in Seq(Known)
    /\ orphans \in [Heights -> Seq(Block)]
    /\ utxo \in Seq(Known)
    /\ governance \in Seq(Known)
    /\ txCount \in Nat
    /\ blockFile \in [Heights \cup {0} -> Known \cup {NoBlock}]
    /\ stateFile \in Seq(Known)
    /\ certified \subseteq Block
    /\ checkpoint \in Known
    /\ mined \subseteq Own
    /\ job \in [do : {"nothing", "connect", "orphans", "fork", "undo", "sync"},
                to : Seq(Known)]
    /\ failures \in 0..MaxFailures

\* chain is a branch of the block tree from genesis on, whatever order blocks
\* arrive in and whichever path appended or replaced them.
ChainLinked == Linked(chain)

\* Whatever path of add_block changes chain or UTXO set - finished, rolled back,
\* undone - leaves the set what replaying the chain yields.  The one exception
\* is the reorganisation that aborts on an input it cannot apply.
UtxoFollowsChain ==
    [][utxo = chain /\ ~ReorgAborts => utxo' = chain']_<<chain, utxo>>

\* A block with a finality certificate, and the block of the latest
\* checkpoint, never leave the chain, as long as neither is made in another
\* thread while replace_chain runs (the guards of Certify and Mine).
AnchorsOnChain == certified \cup {checkpoint} \subseteq ToSet(chain)

\* The chain is only ever left for a longer one, or at equal length for one
\* of no less work (replace_chain's fork choice rule).
NeverShorterNorLighter ==
    [][\/ Len(chain') > Len(chain)
       \/ Len(chain') = Len(chain) /\ ChainWork(chain') >= ChainWork(chain)]_chain

\* Once add_block has returned, everything derived from the chain is what
\* replaying it yields: the state files, governance and contract state, and
\* the transaction count fork choice compares.
DerivedStateMatchesChain ==
    Free => /\ governance = chain
            /\ stateFile = chain
            /\ txCount = CountTxs(chain)

\* Once the network has shown the node every block there is, its chain ends
\* for good as high as the highest of them: orphans in any order, forks, syncs
\* and a pool that overflows do not leave it stuck on a shorter branch.
Converges == <>[](\A b \in Block \ (Own \ mined) : Len(chain) > Height[b])

=============================================================================
