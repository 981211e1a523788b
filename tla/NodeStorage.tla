---------------------------- MODULE NodeStorage ----------------------------
(***************************************************************************)
(* What a node keeps on disk and what it finds there when it starts again: *)
(* the append-only block files, the state files written one after another  *)
(* by _atomic_multi_file_write, the checksum file that seals them, the     *)
(* checkpoints mining takes, and the write-ahead log of reorganisations    *)
(* (core/chain/blockchain_storage.py, core/blockchain.py _init_storage,    *)
(* _load_from_disk, restore_checkpoint, core/consensus/checkpoints.py).    *)
(*                                                                         *)
(* Saving is split wherever a crash or a write error leaves different      *)
(* files behind.  A state file is the sequence of blocks its contents were *)
(* computed from.  The transaction log of _atomic_multi_file_write is not  *)
(* part of the state: no start of a node reads it (nothing calls           *)
(* recover_incomplete_transactions).  One thread saves at a time, and the  *)
(* block files never roll over to a new one.  reset_chain_state and the    *)
(* very first start, before any checksum file exists, are left out.        *)
(***************************************************************************)
EXTENDS BlockTree

CONSTANTS
    Own,                \* blocks this node mines
    CheckpointEvery,    \* checkpoint interval, in blocks
    NumFiles,           \* state files, the first of them utxo_set.json
    MaxCrashes,         \* bound: crashes
    MaxFailures,        \* bound: write errors
    MaxForks,           \* bound: branches saved without being adopted
    MaxRestores         \* bound: checkpoints restored

ASSUME StorageIsTyped ==
    /\ Own \subseteq Block
    /\ CheckpointEvery \in Nat \ {0}
    /\ NumFiles \in Nat \ {0}
    /\ MaxCrashes \in Nat
    /\ MaxFailures \in Nat
    /\ MaxForks \in Nat
    /\ MaxRestores \in Nat

VARIABLES
    chain,          \* chain, in memory
    utxo,           \* the blocks the UTXO set in memory reflects
    anchor,         \* latest_checkpoint_height, 0 without a checkpoint
    save,           \* the save under way: its kind, what it has to write, and
                    \* the chain and UTXO set before it
    step,           \* where the node is in that save, or that it is not running
    replaced,       \* state files the save has replaced so far
    log,            \* the block files, a torn last line being NoBlock
    files,          \* the state files
    seal,           \* what checksum.json was computed from
    checkpoints,    \* checkpoint files: the block, and the UTXO set, of each
    wal,            \* reorg_wal.json says "in_progress"
    saved,          \* history: the chain at the last completed checksum file
    stray,          \* history: the block files and the chain have parted
    crashes, failures, forks, restores

memory == <<chain, utxo, anchor>>
disk == <<log, files, seal, checkpoints, wal>>
bounds == <<crashes, failures, forks, restores>>
vars == <<memory, save, step, replaced, disk, saved, stray, bounds>>

File == 1..NumFiles

-----------------------------------------------------------------------------
(* Reading the files.                                                      *)

\* Where the block files have a block of height h.
LinesAt(l, h) == {i \in DOMAIN l : l[i] # NoBlock /\ Height[l[i]] = h}

\* seeded bug: the first block written at a height wins
EarliestAt(l, h) == IF LinesAt(l, h) = {} THEN NoBlock ELSE l[Min(LinesAt(l, h))]

\* The block the files hold for height h: the last one written wins.
LatestAt(l, h) == IF LinesAt(l, h) = {} THEN NoBlock ELSE l[Max(LinesAt(l, h))]

BlocksUpTo(l, h) == [i \in 1..(h + 1) |-> LatestAt(l, i - 1)]

Ascending(H) ==
    CHOOSE f \in [1..Cardinality(H) -> H] : \A i, j \in DOMAIN f : i < j => f[i] < f[j]

\* load_chain_from_disk: a line that does not parse makes it return nothing,
\* a height without a block is passed over.
LoadedChain(l) ==
    LET found == Ascending({h \in Heights \cup {0} : LatestAt(l, h) # NoBlock})
    IN  IF NoBlock \in ToSet(l) THEN <<>>
        ELSE [i \in DOMAIN found |-> LatestAt(l, found[i])]

\* Fast recovery reads blocks by the block index, up to the checkpoint's
\* height and from there on as long as each links to the one before it.
FastChain(l, h) ==
    LET Follows(i) == LatestAt(l, i) # NoBlock /\ Parent[LatestAt(l, i)] = LatestAt(l, i - 1)
    IN  BlocksUpTo(l, Min({i \in Heights \cup {0} : i >= h /\ ~Follows(i + 1)}))

NoChecksum(l, f) == TRUE        \* seeded bug: the node starts on any files
Intact(l, f) == seal = [files |-> f, log |-> l]      \* verify_integrity

NoCheckpoint == [block |-> NoBlock, utxo |-> <<>>]

\* The latest checkpoint file.
LatestCheckpoint ==
    IF checkpoints = {} THEN NoCheckpoint
    ELSE CHOOSE c \in checkpoints : \A d \in checkpoints : Height[d.block] <= Height[c.block]

\* Every height up to the checkpoint's has a block, at its height its own.
Usable(c) ==
    /\ c # NoCheckpoint
    /\ \A h \in 0..Height[c.block] : LatestAt(log, h) # NoBlock
    /\ LatestAt(log, Height[c.block]) = c.block

-----------------------------------------------------------------------------

Saving(kind, blocks) == [kind |-> kind, todo |-> blocks, chain |-> chain, utxo |-> utxo]
NoSave == [kind |-> "none", todo |-> <<>>, chain |-> <<>>, utxo |-> <<>>]
Logged == save.kind \in {"reorg", "restore"}     \* saves the WAL brackets

Init ==
    /\ chain = <<Genesis>>
    /\ utxo = <<Genesis>>
    /\ anchor = 0
    /\ save = NoSave
    /\ step = "idle"
    /\ replaced = 0
    /\ log = <<Genesis>>
    /\ files = [i \in File |-> <<Genesis>>]
    /\ seal = [files |-> files, log |-> log]
    /\ checkpoints = {}
    /\ wal = FALSE
    /\ saved = <<Genesis>>
    /\ stray = FALSE
    /\ crashes = 0 /\ failures = 0 /\ forks = 0 /\ restores = 0

\* A block extends the chain, mined or received.
BeginAppend(b) ==
    /\ step = "idle"
    /\ Height[b] = Len(chain)
    /\ Parent[b] = Last(chain)
    /\ chain' = Append(chain, b)
    /\ utxo' = Append(utxo, b)
    /\ save' = Saving(IF b \in Own THEN "mined" ELSE "received", <<b>>)
    /\ step' = "blocks"
    /\ replaced' = 0
    /\ UNCHANGED <<anchor, disk, saved, stray, bounds>>

\* seeded bug: the checkpoint does not bound the fork point
AnyBranch(c) == TRUE
KeepsCheckpoint(c) == ForkPoint(chain, c) >= anchor

\* replace_chain with a longer chain: the WAL entry, then all of memory.
BeginReorg(c) ==
    /\ step = "idle"
    /\ Linked(chain)
    /\ Len(c) > Len(chain)
    /\ KeepsCheckpoint(c)
    /\ wal' = TRUE
    /\ chain' = c
    /\ utxo' = c
    /\ save' = Saving("reorg", c)
    /\ step' = "blocks"
    /\ replaced' = 0
    /\ UNCHANGED <<anchor, log, files, seal, checkpoints, saved, stray, bounds>>

\* restore_checkpoint: memory goes back to the checkpoint, and the blocks
\* above it stay in the block files.
RestoreCheckpoint(c) ==
    /\ step = "idle"
    /\ restores < MaxRestores
    /\ Height[c.block] < Height[Last(chain)]
    /\ Usable(c)
    /\ wal' = TRUE
    /\ chain' = BlocksUpTo(log, Height[c.block])
    /\ utxo' = c.utxo
    /\ anchor' = Height[c.block]
    /\ save' = Saving("restore", <<>>)
    /\ step' = "blocks"
    /\ replaced' = 0
    /\ stray' = TRUE
    /\ restores' = restores + 1
    /\ UNCHANGED <<log, files, seal, checkpoints, saved, crashes, failures, forks>>

\* _handle_fork saves the blocks of a branch it then does not switch to.
StoreFork(c) ==
    /\ step = "idle"
    /\ forks < MaxForks
    /\ Linked(chain)
    /\ ForkPoint(chain, c) + 1 < Len(chain)
    /\ ForkPoint(chain, c) + 1 < Len(c)
    /\ log' = log \o SubSeq(c, ForkPoint(chain, c) + 2, Len(c))
    /\ stray' = TRUE
    /\ forks' = forks + 1
    /\ UNCHANGED <<memory, save, step, replaced, files, seal, checkpoints, wal,
                   saved, crashes, failures, restores>>

\* _save_block_to_disk: one line, synchronised before it returns.
AppendBlock ==
    /\ step = "blocks"
    /\ save.todo # <<>>
    /\ log' = Append(log, Head(save.todo))
    /\ save' = [save EXCEPT !.todo = Tail(@)]
    /\ UNCHANGED <<memory, step, replaced, files, seal, checkpoints, wal, saved,
                   stray, bounds>>

\* With the blocks written, mining may take a checkpoint (its own file, put in
\* place atomically); then the state files are written to temporary files.
BeginFiles ==
    /\ step = "blocks"
    /\ save.todo = <<>>
    /\ LET h == Len(chain) - 1
           due == save.kind = "mined" /\ h % CheckpointEvery = 0
           new == [block |-> Last(chain), utxo |-> utxo]
       IN  /\ checkpoints' = IF due THEN {c \in checkpoints : Height[c.block] # h} \cup {new}
                                    ELSE checkpoints
           /\ anchor' = IF due THEN h ELSE anchor
    /\ step' = "files"
    /\ UNCHANGED <<chain, utxo, save, replaced, log, files, seal, wal, saved, stray, bounds>>

\* os.replace of the next state file.
ReplaceFile ==
    /\ step = "files"
    /\ replaced < NumFiles
    /\ files' = [files EXCEPT ![replaced + 1] = utxo]
    /\ replaced' = replaced + 1
    /\ UNCHANGED <<memory, save, step, log, seal, checkpoints, wal, saved, stray, bounds>>

\* checksum.json is replaced; a reorganisation has its WAL entry left.
Seal ==
    /\ step = "files"
    /\ replaced = NumFiles
    /\ seal' = [files |-> files, log |-> log]
    /\ saved' = chain
    /\ step' = IF Logged THEN "logged" ELSE "idle"
    /\ save' = IF Logged THEN save ELSE NoSave
    /\ UNCHANGED <<memory, replaced, log, files, checkpoints, wal, stray, bounds>>

CommitWal ==
    /\ step = "logged"
    /\ wal' = FALSE
    /\ step' = "idle"
    /\ save' = NoSave
    /\ UNCHANGED <<memory, replaced, log, files, seal, checkpoints, saved, stray, bounds>>

-----------------------------------------------------------------------------
(* Write errors and crashes.                                               *)

\* Which kinds of save undo their changes in memory on which exception: the
\* OSError of a block or checksum write, the RuntimeError of a state file.
Undoes(kind, error) == \/ kind = "restore"
                       \/ kind = "mined" /\ error = "OSError"
                       \/ kind = "reorg" /\ error = "RuntimeError"

\* The line being written when writing stops may be there in part.
TornLog == {log} \cup (IF step = "blocks" /\ save.todo # <<>> THEN {Append(log, NoBlock)} ELSE {})

SaveFails(error) ==
    /\ failures < MaxFailures
    /\ save.kind \notin {"none", "genesis"}
    /\ \/ error = "OSError" /\ step = "blocks" /\ save.todo # <<>>
       \/ error = "OSError" /\ step = "files" /\ replaced = NumFiles
       \/ error = "RuntimeError" /\ step = "files" /\ replaced < NumFiles
    /\ log' \in TornLog
    /\ IF Undoes(save.kind, error)
       THEN /\ chain' = save.chain
            /\ utxo' = save.utxo
            /\ wal' = FALSE
       ELSE UNCHANGED <<chain, utxo, wal>>
    /\ stray' = (stray \/ LoadedChain(log') # chain')
    /\ step' = "idle"
    /\ save' = NoSave
    /\ failures' = failures + 1
    /\ UNCHANGED <<anchor, replaced, files, seal, checkpoints, saved, crashes, forks, restores>>

\* The process stops, between two steps of a save or while it is idle.
Crash ==
    /\ crashes < MaxCrashes
    /\ step \notin {"down", "refused"}
    /\ log' \in TornLog
    /\ chain' = <<>> /\ utxo' = <<>> /\ anchor' = 0
    /\ save' = NoSave
    /\ replaced' = 0
    /\ step' = "down"
    /\ crashes' = crashes + 1
    /\ UNCHANGED <<files, seal, checkpoints, wal, saved, stray, failures, forks, restores>>

\* verify_integrity fails, before the WAL is looked at: __init__ raises.
RefuseToStart ==
    /\ step = "down"
    /\ ~Intact(log, files)
    /\ step' = "refused"
    /\ UNCHANGED <<memory, save, replaced, disk, saved, stray, bounds>>

\* seeded bug: the absence of checkpoints is not looked at
LastCheckpointHeight == Len(LatestCheckpoint.utxo) - 1
StoredAnchor == IF checkpoints = {} THEN 0 ELSE Height[LatestCheckpoint.block]

StartsFrom(c, u) ==
    /\ chain' = c
    /\ utxo' = u
    /\ anchor' = StoredAnchor
    /\ wal' = FALSE

\* _load_from_disk: from the latest checkpoint and the blocks above it, ...
StartFast ==
    /\ step = "down"
    /\ Intact(log, files)
    /\ ~wal
    /\ Usable(LatestCheckpoint)
    /\ LET h == Height[LatestCheckpoint.block]
           c == FastChain(log, h)
       IN  StartsFrom(c, LatestCheckpoint.utxo \o SubSeq(c, h + 2, Len(c)))
    /\ step' = "idle"
    /\ UNCHANGED <<save, replaced, log, files, seal, checkpoints, saved, stray, bounds>>

\* ... or, with a reorganisation in the WAL or no usable checkpoint, from all
\* the block files and the saved UTXO set, ...
StartFull ==
    /\ step = "down"
    /\ Intact(log, files)
    /\ wal \/ ~Usable(LatestCheckpoint)
    /\ LoadedChain(log) # <<>>
    /\ StartsFrom(LoadedChain(log), files[1])
    /\ step' = "idle"
    /\ UNCHANGED <<save, replaced, log, files, seal, checkpoints, saved, stray, bounds>>

\* ... or, when the block files cannot be read, from a new genesis block.
StartOver ==
    /\ step = "down"
    /\ Intact(log, files)
    /\ wal \/ ~Usable(LatestCheckpoint)
    /\ LoadedChain(log) = <<>>
    /\ StartsFrom(<<Genesis>>, Append(files[1], Genesis))
    /\ save' = [NoSave EXCEPT !.kind = "genesis", !.todo = <<Genesis>>]
    /\ step' = "blocks"
    /\ UNCHANGED <<replaced, log, files, seal, checkpoints, saved, stray, bounds>>

Start == StartFast \/ StartFull \/ StartOver

Next ==
    \/ \E b \in Block : BeginAppend(b)
    \/ \E c \in Branches : BeginReorg(c) \/ StoreFork(c)
    \/ \E c \in checkpoints : RestoreCheckpoint(c)
    \/ AppendBlock
    \/ BeginFiles
    \/ ReplaceFile
    \/ Seal
    \/ CommitWal
    \/ \E error \in {"OSError", "RuntimeError"} : SaveFails(error)
    \/ Crash
    \/ RefuseToStart
    \/ Start

Spec == Init /\ [][Next]_vars

-----------------------------------------------------------------------------
(* Properties.                                                             *)

\* Every variable has its type.
TypeOK ==
    /\ chain \in Seq(Known)
    /\ utxo \in Seq(Known)
    /\ anchor \in Nat
    /\ save \in [kind : {"none", "genesis", "mined", "received", "reorg", "restore"},
                 todo : Seq(Known), chain : Seq(Known), utxo : Seq(Known)]
    /\ step \in {"idle", "blocks", "files", "logged", "down", "refused"}
    /\ replaced \in 0..NumFiles
    /\ log \in Seq(Known \cup {NoBlock})
    /\ files \in [File -> Seq(Known)]
    /\ seal \in [files : [File -> Seq(Known)], log : Seq(Known \cup {NoBlock})]
    /\ checkpoints \subseteq [block : Known, utxo : Seq(Known)]
    /\ wal \in BOOLEAN
    /\ saved \in Seq(Known)
    /\ stray \in BOOLEAN
    /\ crashes \in 0..MaxCrashes
    /\ failures \in 0..MaxFailures
    /\ forks \in 0..MaxForks
    /\ restores \in 0..MaxRestores

\* A node only ever starts on state files that belong to one save: whatever
\* step of whatever save a crash or a write error interrupted, no mixture of
\* old and new files passes the checksum.
StartsOnOneSave == [][Start => \A i \in File : files[i] = files[1]]_vars

\* As long as block files and chain have not parted, a node that starts finds
\* the chain of the last completed save, and the UTXO set of that chain.
StartFindsLastSave == [][Start /\ ~stray => chain' = saved /\ utxo' = saved]_vars

\* Reorganisations and restarts leave every checkpointed block on the chain,
\* and the UTXO set stored with it is the one of the chain up to that block.
CheckpointsStayOnChain ==
    step \notin {"down", "refused"} /\ ~stray =>
        \A c \in checkpoints :
            /\ Height[c.block] < Len(chain)
            /\ chain[Height[c.block] + 1] = c.block
            /\ c.utxo = SubSeq(chain, 1, Height[c.block] + 1)

\* A crash never leaves files the node refuses to start on.
CrashIsRecovered == step # "refused"

=============================================================================
