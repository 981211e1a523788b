----------------------------- MODULE MiningRace -----------------------------
(***************************************************************************)
(* The mining threads of a node (core/node.py, mine_pending_transactions   *)
(* in core/blockchain_components/mining_mixin.py) beside the thread that   *)
(* takes blocks from peers (add_block and replace_chain in                 *)
(* core/blockchain.py).  The second holds _chain_lock; mining does not:    *)
(* it reads the tip, searches for a proof and appends, and the only thing  *)
(* that stops it when a peer's block comes first is a flag it looks at     *)
(* every ten nonces.  Requests of the API start and stop the mining loop,  *)
(* or mine one block themselves; each is served by a thread of its own,    *)
(* and is_mining has no lock.                                              *)
(*                                                                         *)
(* A step is what one thread does between two reads or writes of the       *)
(* chain, the UTXO set, the target height and the flags.  What a block     *)
(* does to the UTXO set is one step: a block stands for one transaction.   *)
(***************************************************************************)
EXTENDS Integers, FiniteSets, Sequences, SequencesExt

CONSTANTS
  MaxBlocks,     \* bound: blocks made by the miners and the peers together
  MaxFailures,   \* bound: how often a block or the state cannot be saved
  MaxRequests    \* bound: requests to start or stop the mining or to mine once

ASSUME MiningAssumption ==
  /\ MaxBlocks \in Nat /\ MaxFailures \in Nat /\ MaxRequests \in Nat

\* the requests in the order they arrive, each with the mining thread that a
\* start makes or that a request to mine once is
Miner == 1 .. MaxRequests

Peer == 0                   \* the thread that takes blocks from peers
None == -1       \* no target height; the id of a block that is not found yet

\* A block: who it is, and what its header says of its place.
Blocks == [id : None .. MaxBlocks, index : 0 .. MaxBlocks, prev : None .. MaxBlocks]
Genesis == [id |-> 0, index |-> 0, prev |-> 0]

VARIABLES
  chain,     \* self.chain
  utxo,      \* the ids of the blocks that the UTXO set reflects
  target,    \* _mining_target_height
  abort,     \* _abort_current_mining
  mining,    \* is_mining of the node
  request,   \* how far each request has come
  at,        \* the next step of each mining thread
  work,      \* the block each mining thread works on
  snap,      \* utxo_snapshot of each mining thread
  peer,      \* what the thread with the peer's blocks does next, and its snapshots
  made,      \* blocks made so far
  failures,  \* failed saves so far
  gaveUp,    \* history: a stop_mining returned while a mining loop was running
  raced,     \* history: a request met another between its test and its effect
  several,   \* history: a thread began to mine while another was running
  taken,     \* history: whether a peer's block took the height a thread searches:
             \* "no", "yes", "raised" with the flag, "ignored" by a later look
  missed,    \* history: the ways in which a thread missed a change of the chain
  during,    \* history: threads since whose snapshot others changed chain or UTXO
  parted     \* history: a rollback or a reorganisation met another thread's change,
             \* or a reorganisation ended half way

requestVars == <<mining, request, gaveUp, raced, several>>
flagVars == <<target, abort>>
historyVars == <<taken, missed, during, parted>>
miningVars == <<chain, utxo, flagVars, requestVars, at, work, snap, peer,
                made, failures, historyVars>>

Ids(c) == {c[i].id : i \in DOMAIN c}

\* the hash that the next block names: "0" when the chain is empty
TipId(c) == IF c = <<>> THEN None ELSE Last(c).id

\* Every block names the one before it and its own place.
Linked(c) == \A i \in DOMAIN c : /\ c[i].index = i - 1
                                 /\ i > 1 => c[i].prev = c[i - 1].id

Running == {m \in Miner : at[m] # "off"}
Loops == {m \in Running : request[m] = "loop"}
Reading == {m \in Miner : at[m] \in {"tip", "target", "reset"}}
Searching == {m \in Miner : at[m] \in {"look", "search"}}
Found == {m \in Miner : at[m] \in {"snapshot", "append"}}
Storing == {m \in Miner : at[m] \in {"append", "apply", "save", "restore", "compare", "pop"}}

\* the threads that hold a snapshot they may go back to
HasSaved == "saved" \in DOMAIN peer /\ peer.saved # <<>>
Holders == Storing \cup (IF HasSaved THEN {Peer} ELSE {})

Goto(m, step) == at' = [at EXCEPT ![m] = step]

\* mine_pending_transactions returns, and its local variables are gone.
Return(m) == /\ Goto(m, IF request[m] = "loop" THEN "idle" ELSE "off")
             /\ work' = [work EXCEPT ![m] = Genesis]
             /\ snap' = [snap EXCEPT ![m] = {}]

---------------------------------------------------------------------------
\* Requests: start_mining, stop_mining and mining once.  A start that finds the
\* flag up and a stop that finds it down return at once.

Arrives(r) == request[r] = "new" /\ \A q \in 1 .. r - 1 : request[q] # "new"
Step(r, step) == request' = [request EXCEPT ![r] = step]
InStep(steps) == \E r \in Miner : request[r] \in steps

\* if self.is_mining: return
StartMining(r) ==
  /\ Arrives(r) /\ ~mining
  /\ Step(r, "set")
  /\ raced' = (raced \/ InStep({"set", "spawn", "join"}))
  /\ UNCHANGED <<chain, utxo, flagVars, mining, gaveUp, several, at, work, snap, peer,
                 made, failures, historyVars>>

SetMining(r) ==
  /\ request[r] = "set" /\ Step(r, "spawn")
  /\ mining' = TRUE
  /\ UNCHANGED <<chain, utxo, flagVars, gaveUp, raced, several, at, work, snap, peer,
                 made, failures, historyVars>>

StartThread(r) ==
  /\ request[r] = "spawn" /\ Step(r, "loop")
  /\ Goto(r, "idle")
  /\ several' = (several \/ Running # {})
  /\ UNCHANGED <<chain, utxo, flagVars, mining, gaveUp, raced, work, snap, peer, made,
                 failures, historyVars>>

\* the route that mines a block in the thread of its request
MineOnce(r) ==
  /\ Arrives(r) /\ Step(r, "once")
  /\ Goto(r, "idle")
  /\ several' = (several \/ Running # {})
  /\ UNCHANGED <<chain, utxo, flagVars, mining, gaveUp, raced, work, snap, peer, made,
                 failures, historyVars>>

\* if not self.is_mining: return
StopMining(r) ==
  /\ Arrives(r) /\ mining
  /\ Step(r, "clear")
  /\ UNCHANGED <<chain, utxo, flagVars, mining, gaveUp, raced, several, at, work, snap,
                 peer, made, failures, historyVars>>

\* seeded bug: stop_mining would not wait for the thread
ClearAtOnce(r) ==
  /\ request[r] = "clear" /\ Step(r, "done")
  /\ mining' = FALSE
  /\ raced' = (raced \/ InStep({"spawn"}))
  /\ UNCHANGED <<chain, utxo, flagVars, gaveUp, several, at, work, snap, peer, made,
                 failures, historyVars>>

ClearMining(r) ==
  /\ request[r] = "clear" /\ Step(r, "join")
  /\ mining' = FALSE
  /\ raced' = (raced \/ InStep({"spawn"}))
  /\ UNCHANGED <<chain, utxo, flagVars, gaveUp, several, at, work, snap, peer, made,
                 failures, historyVars>>

\* join(timeout=5) returns when mining_thread has ended or the time is over
Joined(r) ==
  /\ request[r] = "join" /\ Step(r, "done")
  /\ gaveUp' = (gaveUp \/ Loops # {})
  /\ UNCHANGED <<chain, utxo, flagVars, mining, raced, several, at, work, snap, peer,
                 made, failures, historyVars>>

---------------------------------------------------------------------------
\* History of a change of the chain or the UTXO set by `actor'

\* How the threads that go by the old tip come to miss a change of the chain.
Misses(actor, flagged) ==
  {"early" : m \in Reading \ {actor}} \cup {"late" : m \in Found \ {actor}}
    \cup (IF flagged THEN {} ELSE {"unflagged" : m \in Searching \ {actor}})
    \cup (IF actor # Peer /\ peer.at = "append" THEN {"overtaken"} ELSE {})

\* The ways of the first change that was missed are kept, which is enough to
\* say that one was.
Note(ways) == missed' = IF missed = {} THEN ways ELSE missed

\* How a thread comes to find a proof for a height that a peer's block took.
Unseen(m) == CASE taken[m] = "yes" /\ peer.at \in {"test", "raise"} -> {"pending"}
               [] taken[m] = "raised" -> {"batch"}
               [] OTHER -> {}

NoteChain(actor, flagged) == Note(Misses(actor, flagged))
NoteUtxo(actor) == during' = during \cup (Holders \ {actor})

\* a step of a mining thread between the two halves of a reorganisation
Between == peer.at \in {"rebuild", "replace"}
NoteParted == parted' = (parted \/ Between)

---------------------------------------------------------------------------
\* mine_pending_transactions

\* the loop of the thread, while self.is_mining; a request that mines once may
\* find nothing to mine
LeaveLoop(m) ==
  /\ at[m] = "idle" /\ (mining => request[m] = "once")
  /\ Goto(m, "off")
  /\ UNCHANGED <<chain, utxo, flagVars, requestVars, work, snap, peer, made, failures,
                 historyVars>>

\* seeded bug: the height of the next block is one too high
ReadLength(m) ==
  /\ at[m] = "idle" /\ (mining \/ request[m] = "once") /\ made < MaxBlocks
  /\ work' = [work EXCEPT ![m] = [id |-> None, index |-> Len(chain) + 1, prev |-> 0]]
  /\ Goto(m, "tip")
  /\ UNCHANGED <<chain, utxo, flagVars, requestVars, snap, peer, made, failures,
                 historyVars>>

ReadIndex(m) ==
  /\ at[m] = "idle" /\ (mining \/ request[m] = "once") /\ made < MaxBlocks
  /\ work' = [work EXCEPT ![m] = [id |-> None, index |-> Len(chain), prev |-> 0]]
  /\ Goto(m, "tip")
  /\ UNCHANGED <<chain, utxo, flagVars, requestVars, snap, peer, made, failures,
                 historyVars>>

ReadTip(m) ==
  /\ at[m] = "tip"
  /\ work' = [work EXCEPT ![m].prev = TipId(chain)]
  /\ Goto(m, "target")
  /\ UNCHANGED <<chain, utxo, flagVars, requestVars, snap, peer, made, failures,
                 historyVars>>

SetTarget(m) ==
  /\ at[m] = "target"
  /\ target' = work[m].index
  /\ Goto(m, "reset")
  /\ UNCHANGED <<chain, utxo, abort, requestVars, work, snap, peer, made, failures,
                 historyVars>>

ResetAbort(m) ==
  /\ at[m] = "reset"
  /\ abort' = FALSE
  /\ Goto(m, "look")
  /\ UNCHANGED <<chain, utxo, target, requestVars, work, snap, peer, made, failures,
                 historyVars>>

\* the search is over, found or aborted
ClearFlags == target' = None /\ abort' = FALSE

\* seeded bug: the flag is not looked at
LookAway(m) ==
  /\ at[m] = "look" /\ Goto(m, "search")
  /\ taken' = [taken EXCEPT ![m] = IF @ = "raised" THEN "ignored" ELSE @]
  /\ UNCHANGED <<chain, utxo, flagVars, requestVars, work, snap, peer, made, failures,
                 missed, during, parted>>

\* the first of ten nonces: the flag ends the search
Look(m) ==
  /\ at[m] = "look"
  /\ \/ /\ abort
        /\ ClearFlags /\ Return(m)
        /\ taken' = [taken EXCEPT ![m] = "no"]
     \/ /\ ~abort
        /\ Goto(m, "search")
        /\ taken' = [taken EXCEPT ![m] = IF @ = "raised" THEN "ignored" ELSE @]
        /\ UNCHANGED <<flagVars, work, snap>>
  /\ UNCHANGED <<chain, utxo, requestVars, peer, made, failures,
                 missed, during, parted>>

NotFound(m) ==
  /\ at[m] = "search"
  /\ Goto(m, "look")
  /\ UNCHANGED <<chain, utxo, flagVars, requestVars, work, snap, peer, made, failures,
                 historyVars>>

\* A proof within the batch: the flag is cleared without another look.
Find(m) ==
  /\ at[m] = "search" /\ made < MaxBlocks
  /\ made' = made + 1
  /\ work' = [work EXCEPT ![m].id = made + 1]
  /\ ClearFlags
  /\ Note(Unseen(m))
  /\ taken' = [taken EXCEPT ![m] = "no"]
  /\ Goto(m, "snapshot")
  /\ UNCHANGED <<chain, utxo, requestVars, snap, peer, failures, during, parted>>

SnapshotUtxo(m) ==
  /\ at[m] = "snapshot"
  /\ snap' = [snap EXCEPT ![m] = utxo]
  /\ during' = during \ {m}
  /\ Goto(m, "append")
  /\ UNCHANGED <<chain, utxo, flagVars, requestVars, work, peer, made, failures,
                 taken, missed, parted>>

AppendOwn(m) ==
  /\ at[m] = "append"
  /\ chain' = Append(chain, work[m])
  /\ NoteChain(m, FALSE) /\ NoteUtxo(m) /\ NoteParted
  /\ Goto(m, "apply")
  /\ UNCHANGED <<utxo, flagVars, requestVars, work, snap, peer, made, failures,
                 taken>>

\* the block is in its file; its transactions go to the UTXO set
ApplyOwn(m) ==
  /\ at[m] = "apply"
  /\ utxo' = utxo \cup {work[m].id}
  /\ NoteUtxo(m) /\ NoteParted
  /\ Goto(m, "save")
  /\ UNCHANGED <<chain, flagVars, requestVars, work, snap, peer, made, failures,
                 taken, missed>>

\* The state is saved, or saving it raises a RuntimeError that is not caught here.
SaveOwn(m) ==
  /\ at[m] = "save"
  /\ Return(m)
  /\ during' = during \ {m}
  /\ UNCHANGED <<chain, utxo, flagVars, requestVars, peer, made, failures,
                 taken, missed, parted>>

\* the block or the checksums cannot be written: an error that is caught
SaveFails(m) ==
  /\ at[m] \in {"apply", "save"} /\ failures < MaxFailures
  /\ failures' = failures + 1
  /\ Goto(m, "restore")
  /\ UNCHANGED <<chain, utxo, flagVars, requestVars, work, snap, peer, made,
                 historyVars>>

\* seeded bug: the outputs of the block would stay in the UTXO set
KeepUtxo(m) ==
  /\ at[m] = "restore" /\ Goto(m, "compare")
  /\ UNCHANGED <<chain, utxo, flagVars, requestVars, work, snap, peer, made, failures,
                 historyVars>>

RestoreUtxo(m) ==
  /\ at[m] = "restore"
  /\ utxo' = snap[m]
  /\ NoteUtxo(m)
  /\ parted' = (parted \/ m \in during \/ Between)
  /\ Goto(m, "compare")
  /\ UNCHANGED <<chain, flagVars, requestVars, work, snap, peer, made, failures,
                 taken, missed>>

\* self.chain and self.chain[-1] == new_block, and only then the pop
CompareTip(m) ==
  /\ at[m] = "compare"
  /\ IF chain # <<>> /\ Last(chain) = work[m]
     THEN Goto(m, "pop") /\ UNCHANGED <<during, work, snap>>
     ELSE Return(m) /\ during' = during \ {m}
  /\ parted' = (parted \/ m \in during)
  /\ UNCHANGED <<chain, utxo, flagVars, requestVars, peer, made, failures,
                 taken, missed>>

PopOwn(m) ==
  /\ at[m] = "pop"
  /\ chain' = Front(chain)
  /\ NoteChain(m, FALSE)
  /\ during' = (during \cup Holders) \ {m}
  /\ parted' = (parted \/ m \in during \/ Between)
  /\ Return(m)
  /\ UNCHANGED <<utxo, flagVars, requestVars, peer, made, failures, taken>>

---------------------------------------------------------------------------
\* The thread that holds _chain_lock.  Peers extend only chains that are linked.

\* the block that follows c, where c is linked
PeerBlock(number, c) == [id |-> number, index |-> Len(c), prev |-> TipId(c)]

PeerIdle == [at |-> "idle"]

\* add_block, case 1: the block extends the tip it was compared with
ReceiveBlock ==
  /\ peer = PeerIdle /\ made < MaxBlocks /\ Linked(chain)
  /\ made' = made + 1
  /\ peer' = [at |-> "append", block |-> PeerBlock(made + 1, chain), orphan |-> FALSE]
  /\ UNCHANGED <<chain, utxo, flagVars, requestVars, at, work, snap, failures,
                 historyVars>>

\* the threads that search for the height of block b and are to be stopped
Rivals(b) == {m \in Searching : work[m].index = b.index}

\* _add_block_to_chain; a block of the orphan pool is appended without the flag
AppendPeer ==
  /\ peer.at = "append"
  /\ chain' = Append(chain, peer.block)
  /\ NoteChain(Peer, ~peer.orphan) /\ NoteUtxo(Peer)
  /\ taken' = [m \in Miner |->
                 IF ~peer.orphan /\ m \in Rivals(peer.block) THEN "yes" ELSE taken[m]]
  /\ peer' = [peer EXCEPT !.at = IF peer.orphan THEN "apply" ELSE "test"]
  /\ UNCHANGED <<utxo, flagVars, requestVars, at, work, snap, made, failures, parted>>

\* seeded bug: the block is compared with the height above the target
TestNextTarget ==
  /\ peer.at = "test"
  /\ peer' = [peer EXCEPT !.at = IF target + 1 = peer.block.index THEN "raise" ELSE "apply"]
  /\ UNCHANGED <<chain, utxo, flagVars, requestVars, at, work, snap, made, failures,
                 historyVars>>

TestTarget ==
  /\ peer.at = "test"
  /\ peer' = [peer EXCEPT !.at = IF target = peer.block.index THEN "raise" ELSE "apply"]
  /\ UNCHANGED <<chain, utxo, flagVars, requestVars, at, work, snap, made, failures,
                 historyVars>>

RaiseAbort ==
  /\ peer.at = "raise"
  /\ abort' = TRUE
  /\ taken' = [m \in Miner |-> IF taken[m] = "yes" THEN "raised" ELSE taken[m]]
  /\ peer' = [peer EXCEPT !.at = "apply"]
  /\ UNCHANGED <<chain, utxo, target, requestVars, at, work, snap, made, failures,
                 missed, during, parted>>

ApplyPeer ==
  /\ peer.at = "apply"
  /\ utxo' = utxo \cup {peer.block.id}
  /\ NoteUtxo(Peer)
  /\ peer' = [at |-> "orphans"]
  /\ UNCHANGED <<chain, flagVars, requestVars, at, work, snap, made, failures,
                 taken, missed, parted>>

\* _process_orphan_blocks: an orphan that waited for the tip, or none
ConnectOrphan ==
  /\ peer.at = "orphans" /\ made < MaxBlocks /\ Linked(chain)
  /\ made' = made + 1
  /\ peer' = [at |-> "append", block |-> PeerBlock(made + 1, chain), orphan |-> TRUE]
  /\ UNCHANGED <<chain, utxo, flagVars, requestVars, at, work, snap, failures,
                 historyVars>>

NoOrphan ==
  /\ peer.at = "orphans"
  /\ peer' = PeerIdle
  /\ UNCHANGED <<chain, utxo, flagVars, requestVars, at, work, snap, made, failures,
                 historyVars>>

\* a chain of the peers: the first blocks of this one, then blocks of their own
Branch(kept, count) ==
  [i \in 1 .. kept + count |->
     IF i <= kept THEN chain[i]
     ELSE [id |-> made + i - kept, index |-> i - 1,
           prev |-> IF i = kept + 1 THEN chain[kept].id ELSE made + i - kept - 1]]

\* `saved' is the stack of snapshots: that of add_block's fork handling, and on
\* top of it that of replace_chain.  The UTXO set is read after the chain.
Reorg(step, saved, branch) == [at |-> step, saved |-> saved, branch |-> branch]
PeerAt(step) == peer' = [peer EXCEPT !.at = step]
PushChain(saved) == Append(saved, [chain |-> chain, utxo |-> {}])
PushUtxo(saved) == [saved EXCEPT ![Len(saved)].utxo = utxo]

\* replace_chain or the fork handling is over; `step' goes on with what is saved
Pop(step) == peer' = IF Len(peer.saved) = 1 THEN PeerIdle
                     ELSE Reorg(step, Front(peer.saved), <<>>)

\* add_block, case 3: the block lies below the tip and differs from ours
ReceiveFork ==
  /\ peer = PeerIdle /\ Len(chain) > 1
  /\ peer' = Reorg("snapshot", PushChain(<<>>), <<>>)
  /\ during' = during \ {Peer}
  /\ UNCHANGED <<chain, utxo, flagVars, requestVars, at, work, snap, made, failures,
                 taken, missed, parted>>

\* replace_chain: a chain of the peers that is preferred is found valid.
Reorganise ==
  /\ peer = PeerIdle \/ peer.at = "fork"
  /\ \E kept \in 1 .. Len(chain), count \in 1 .. MaxBlocks - made :
       /\ Linked(SubSeq(chain, 1, kept)) /\ kept + count >= Len(chain)
       /\ made' = made + count
       /\ peer' = Reorg("copy", IF peer = PeerIdle THEN <<>> ELSE peer.saved,
                        Branch(kept, count))
  /\ UNCHANGED <<chain, utxo, flagVars, requestVars, at, work, snap, failures,
                 historyVars>>

CopyChain ==
  /\ peer.at = "copy"
  /\ peer' = Reorg("snapshot", PushChain(peer.saved), peer.branch)
  /\ during' = IF peer.saved = <<>> THEN during \ {Peer} ELSE during
  /\ UNCHANGED <<chain, utxo, flagVars, requestVars, at, work, snap, made, failures,
                 taken, missed, parted>>

CopyUtxo ==
  /\ peer.at = "snapshot"
  /\ peer' = Reorg(IF peer.branch = <<>> THEN "fork" ELSE "clear",
                   PushUtxo(peer.saved), peer.branch)
  /\ UNCHANGED <<chain, utxo, flagVars, requestVars, at, work, snap, made, failures,
                 historyVars>>

\* The UTXO set is emptied and rebuilt from the new chain, which then becomes the
\* chain; the flag is not raised.
ClearUtxo ==
  /\ peer.at = "clear"
  /\ utxo' = {}
  /\ NoteUtxo(Peer)
  /\ parted' = (parted \/ Storing # {})
  /\ PeerAt("rebuild")
  /\ UNCHANGED <<chain, flagVars, requestVars, at, work, snap, made, failures,
                 taken, missed>>

RebuildUtxo ==
  /\ peer.at = "rebuild"
  /\ utxo' = Ids(peer.branch)
  /\ NoteUtxo(Peer)
  /\ parted' = (parted \/ Storing # {})
  /\ PeerAt("replace")
  /\ UNCHANGED <<chain, flagVars, requestVars, at, work, snap, made, failures,
                 taken, missed>>

\* An input that cannot be applied raises an Exception that nobody catches.
RebuildAborts ==
  /\ peer.at = "rebuild"
  /\ \E k \in 1 .. Len(peer.branch) - 1 : utxo' = Ids(SubSeq(peer.branch, 1, k))
  /\ NoteUtxo(Peer)
  /\ parted' = TRUE
  /\ peer' = PeerIdle
  /\ UNCHANGED <<chain, flagVars, requestVars, at, work, snap, made, failures,
                 taken, missed>>

ReplaceChain ==
  /\ peer.at = "replace"
  /\ chain' = peer.branch
  /\ NoteChain(Peer, FALSE) /\ NoteUtxo(Peer)
  /\ parted' = (parted \/ Storing # {})
  /\ PeerAt("save")
  /\ UNCHANGED <<utxo, flagVars, requestVars, at, work, snap, made, failures, taken>>

SaveReorg ==
  /\ peer.at = "save"
  /\ Pop("adopted")
  /\ UNCHANGED <<chain, utxo, flagVars, requestVars, at, work, snap, made, failures,
                 historyVars>>

\* an error of the rebuilding or the saving that replace_chain catches
ReorgFails ==
  /\ peer.at \in {"rebuild", "replace", "save"} /\ failures < MaxFailures
  /\ failures' = failures + 1
  /\ PeerAt("restore")
  /\ UNCHANGED <<chain, utxo, flagVars, requestVars, at, work, snap, made, historyVars>>

\* The fork block is adopted, or becomes an orphan and the chain stays as it is.
KeepFork ==
  /\ peer.at \in {"fork", "adopted"}
  /\ peer' = PeerIdle
  /\ UNCHANGED <<chain, utxo, flagVars, requestVars, at, work, snap, made, failures,
                 historyVars>>

\* _handle_fork returns False, which it does too when the orphans were adopted.
UndoFork ==
  /\ peer.at \in {"fork", "adopted"}
  /\ PeerAt("restore")
  /\ UNCHANGED <<chain, utxo, flagVars, requestVars, at, work, snap, made, failures,
                 historyVars>>

\* Chain and UTXO set are put back, though others may have changed them meanwhile.
RestoreChain ==
  /\ peer.at = "restore"
  /\ chain' = Last(peer.saved).chain
  /\ NoteChain(Peer, FALSE) /\ NoteUtxo(Peer)
  /\ parted' = (parted \/ Peer \in during)
  /\ PeerAt("restoreUtxo")
  /\ UNCHANGED <<utxo, flagVars, requestVars, at, work, snap, made, failures, taken>>

\* seeded bug: only the chain is put back
RestoreHalf ==
  /\ peer.at = "restoreUtxo"
  /\ Pop("fork")
  /\ UNCHANGED <<chain, utxo, flagVars, requestVars, at, work, snap, made, failures,
                 historyVars>>

RestorePeerUtxo ==
  /\ peer.at = "restoreUtxo"
  /\ utxo' = Last(peer.saved).utxo
  /\ NoteUtxo(Peer)
  /\ parted' = (parted \/ Peer \in during)
  /\ Pop("fork")
  /\ UNCHANGED <<chain, flagVars, requestVars, at, work, snap, made, failures,
                 taken, missed>>

---------------------------------------------------------------------------
MiningInit ==
  /\ chain = <<Genesis>> /\ utxo = {0}
  /\ target = None /\ abort = FALSE
  /\ mining = FALSE /\ request = [r \in Miner |-> "new"]
  /\ gaveUp = FALSE /\ raced = FALSE /\ several = FALSE
  /\ at = [m \in Miner |-> "off"]
  /\ work = [m \in Miner |-> Genesis]
  /\ snap = [m \in Miner |-> {}]
  /\ peer = PeerIdle /\ made = 0 /\ failures = 0
  /\ taken = [m \in Miner |-> "no"]
  /\ missed = {} /\ during = {} /\ parted = FALSE

\* what the threads of the requests do
RequestStep(r) ==
  \/ StartMining(r) \/ SetMining(r) \/ StartThread(r) \/ MineOnce(r)
  \/ StopMining(r) \/ ClearMining(r) \/ Joined(r)

\* what a thread does by itself once it mines
MinerStep(m) ==
  \/ ReadTip(m) \/ SetTarget(m) \/ ResetAbort(m) \/ Look(m) \/ NotFound(m) \/ Find(m)
  \/ SnapshotUtxo(m) \/ AppendOwn(m) \/ ApplyOwn(m) \/ SaveOwn(m)
  \/ SaveFails(m) \/ RestoreUtxo(m) \/ CompareTip(m) \/ PopOwn(m)

\* what the thread with a peer's block does by itself
PeerStep ==
  \/ AppendPeer \/ TestTarget \/ RaiseAbort \/ ApplyPeer \/ NoOrphan
  \/ CopyChain \/ CopyUtxo \/ ClearUtxo \/ RebuildUtxo \/ RebuildAborts \/ ReplaceChain
  \/ SaveReorg \/ ReorgFails \/ KeepFork \/ UndoFork \/ RestoreChain \/ RestorePeerUtxo

MiningNext ==
  \/ \E m \in Miner : RequestStep(m) \/ LeaveLoop(m) \/ ReadIndex(m) \/ MinerStep(m)
  \/ ReceiveBlock \/ ConnectOrphan \/ ReceiveFork \/ Reorganise \/ PeerStep

MiningSpec == MiningInit /\ [][MiningNext]_miningVars

\* Threads that have work get to do it.  Nothing makes a search succeed, and
\* nothing makes peers send blocks or operators start and stop the mining.
MiningFairness ==
  /\ \A m \in Miner : WF_miningVars(MinerStep(m))
  /\ WF_miningVars(PeerStep)

FairMiningSpec == MiningSpec /\ MiningFairness

---------------------------------------------------------------------------
\* What the thread with the peer's blocks holds, by its step.
Saved == [chain : Seq(Blocks), utxo : SUBSET (0 .. MaxBlocks)]
PeerTypeOK ==
  \/ peer \in [at : {"idle", "orphans"}]
  \/ peer \in [at : {"append", "test", "raise", "apply"}, block : Blocks, orphan : BOOLEAN]
  \/ /\ peer \in [at : {"copy", "snapshot", "fork", "adopted", "clear", "rebuild", "replace",
                        "save", "restore", "restoreUtxo"},
                  saved : Seq(Saved), branch : Seq(Blocks)]
     /\ peer.at # "copy" => peer.saved # <<>>

\* Types of all variables.  Rollbacks leave at least the genesis block, unless a
\* second thread mines: then each may pop a block after its own look at the tip.
MiningTypeOK ==
  /\ chain \in Seq(Blocks) /\ (chain # <<>> \/ several \/ parted) /\ utxo \subseteq 0 .. MaxBlocks
  /\ target \in None .. MaxBlocks /\ abort \in BOOLEAN
  /\ mining \in BOOLEAN
  /\ request \in [Miner -> {"new", "set", "spawn", "loop", "once", "clear", "join", "done"}]
  /\ gaveUp \in BOOLEAN /\ raced \in BOOLEAN /\ several \in BOOLEAN
  /\ at \in [Miner -> {"off", "idle", "tip", "target", "reset", "look", "search",
                      "snapshot", "append", "apply", "save", "restore", "compare", "pop"}]
  /\ work \in [Miner -> Blocks] /\ snap \in [Miner -> SUBSET (0 .. MaxBlocks)]
  /\ PeerTypeOK
  /\ made \in 0 .. MaxBlocks /\ failures \in 0 .. MaxFailures
  /\ taken \in [Miner -> {"no", "yes", "raised", "ignored"}]
  /\ missed \subseteq {"early", "late", "unflagged", "overtaken", "pending", "batch"}
  /\ during \subseteq Miner \cup {Peer} /\ parted \in BOOLEAN

\* Two mining loops run at once only after a stop gave up waiting for the thread,
\* or when two requests met: a start tested is_mining while another start had not
\* made its thread yet or a stop still waited, or a stop cleared is_mining before
\* a start had made its thread (start_mining, stop_mining, _mine_continuously).
OneMiningThread == Cardinality(Loops) <= 1 \/ gaveUp \/ raced

\* A block that does not follow the tip gets into the chain only through one
\* of these windows: the chain changed before the target was set and the flag
\* reset, or after the proof was found; the proof was found before the flag was
\* raised, or in the batch in which it was; the change was an orphan's, a
\* reorganisation or a chain put back, which raise no flag; or an own block
\* overtook the peer's between its check and its append.  The search itself is
\* covered by the flag (mine_block, _add_block_to_chain), as long as one thread
\* mines.
CompetesOnlyInAWindow == Linked(chain) \/ missed # {} \/ several

\* Between blocks the UTXO set is that of the chain, failed saves, failed
\* reorganisations and forks that are not adopted included, unless one thread
\* changed chain or UTXO set between the snapshot and the rollback of another
\* (mine_pending_transactions, replace_chain, _add_block_internal), an own block
\* was stored while replace_chain was at work, or that raised half way.
UtxoFollowsChain ==
  Storing = {} /\ peer.at \in {"idle", "orphans"} /\ ~parted => utxo = Ids(chain)

\* A thread leaves a height that a peer's block took while it searched, though
\* it may never find a proof: the flag reaches it (_add_block_to_chain,
\* mine_block), as long as one thread mines.
TakenHeightIsLeft == \A m \in Miner : taken[m] # "no" ~> taken[m] = "no" \/ several

=============================================================================
