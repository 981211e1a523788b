---------------------------- MODULE MiningProofs ----------------------------
(***************************************************************************)
(* Proofs about MiningRace for every number of requests, blocks and        *)
(* failures. Requests that do not meet leave at most one loop mining, as   *)
(* long as no stop gives up. No block number is used twice, so that a      *)
(* chain is never longer than the blocks made; with that the types hold.   *)
(* While one thread mines and no change of the chain was missed, the block *)
(* it works on follows the tip or the flag is on its way to it. And while  *)
(* no rollback met another thread's change, the UTXO set is that of the    *)
(* chain but for the blocks that are about to be applied, and so are the   *)
(* pairs that forks and reorganisations may put back.                      *)
(***************************************************************************)
EXTENDS MiningRace, FiniteSetTheorems, TLAPS

---------------------------------------------------------------------------
\* Chains

Distinct(c) == \A i, j \in DOMAIN c : c[i].id = c[j].id => i = j

LEMMA AppendBlock ==
  ASSUME NEW c \in Seq(Blocks), NEW b \in Blocks
  PROVE  LET new == Append(c, b) IN
         /\ new \in Seq(Blocks) /\ new # <<>> /\ Len(new) = Len(c) + 1
         /\ Last(new) = b
         /\ Ids(new) = Ids(c) \cup {b.id}
         /\ Distinct(c) /\ b.id \notin Ids(c) => Distinct(new)
<1> DEFINE new == Append(c, b)
<1>1. /\ new \in Seq(Blocks) /\ Len(new) = Len(c) + 1 /\ Len(c) \in Nat
      /\ DOMAIN c = 1 .. Len(c) /\ DOMAIN new = 1 .. Len(c) + 1
      /\ \A i \in 1 .. Len(c) : new[i] = c[i]
      /\ new[Len(c) + 1] = b
  OBVIOUS
<1> HIDE DEF new
<1>2. new # <<>>
  BY <1>1
<1>3. Last(new) = b
  BY <1>1 DEF Last
<1>4. Ids(new) = Ids(c) \cup {b.id}
  <2>1. ASSUME NEW x \in Ids(new)
        PROVE  x \in Ids(c) \cup {b.id}
    BY <1>1, <2>1 DEF Ids
  <2>2. ASSUME NEW x \in Ids(c)
        PROVE  x \in Ids(new)
    <3>1. PICK i \in 1 .. Len(c) : x = c[i].id
      BY <1>1, <2>2 DEF Ids
    <3>2. i \in DOMAIN new /\ new[i].id = x
      BY <1>1, <3>1
    <3> QED
      BY <3>2 DEF Ids
  <2>3. b.id \in Ids(new)
    <3>1. Len(c) + 1 \in DOMAIN new
      BY <1>1
    <3> QED
      BY <1>1, <3>1 DEF Ids
  <2> QED
    BY <2>1, <2>2, <2>3
<1>5. ASSUME Distinct(c), b.id \notin Ids(c)
      PROVE  Distinct(new)
  <2>1. \A i \in 1 .. Len(c) : c[i].id # b.id
    BY <1>1, <1>5 DEF Ids
  <2> SUFFICES ASSUME NEW i \in 1 .. Len(c) + 1, NEW j \in 1 .. Len(c) + 1,
                      new[i].id = new[j].id
               PROVE  i = j
    BY <1>1 DEF Distinct
  <2> QED
    BY <1>1, <1>5, <2>1 DEF Distinct
<1> QED
  BY <1>1, <1>2, <1>3, <1>4, <1>5 DEF new

\* The chain stays linked when the block follows its tip.
LEMMA AppendLinked ==
  ASSUME NEW c \in Seq(Blocks), NEW b \in Blocks,
         Linked(c), b.index = Len(c), b.prev = TipId(c)
  PROVE  Linked(Append(c, b))
<1> DEFINE new == Append(c, b)
<1>1. /\ Len(c) \in Nat /\ DOMAIN c = 1 .. Len(c) /\ DOMAIN new = 1 .. Len(c) + 1
      /\ \A i \in 1 .. Len(c) : new[i] = c[i]
      /\ new[Len(c) + 1] = b
      /\ Len(c) > 0 => c # <<>>
  OBVIOUS
<1> HIDE DEF new
<1> SUFFICES ASSUME NEW i \in 1 .. Len(c) + 1
             PROVE  new[i].index = i - 1 /\ (i > 1 => new[i].prev = new[i - 1].id)
  BY <1>1 DEF Linked, new
<1>2. CASE i \in 1 .. Len(c)
  <2>1. i \in DOMAIN c /\ (i > 1 => i - 1 \in 1 .. Len(c))
    BY <1>1, <1>2
  <2>2. c[i].index = i - 1 /\ (i > 1 => c[i].prev = c[i - 1].id)
    BY <2>1 DEF Linked
  <2> QED
    BY <1>1, <1>2, <2>1, <2>2
<1>3. CASE i = Len(c) + 1
  <2>1. i > 1 => c # <<>> /\ i - 1 = Len(c) /\ Len(c) \in 1 .. Len(c)
    BY <1>1, <1>3
  <2>2. i > 1 => b.prev = c[i - 1].id
    BY <2>1 DEF TipId, Last
  <2> QED
    BY <1>1, <1>3, <2>1, <2>2
<1> QED
  BY <1>1, <1>2, <1>3

LEMMA Prefix ==
  ASSUME NEW c \in Seq(Blocks), NEW k \in 0 .. Len(c)
  PROVE  /\ SubSeq(c, 1, k) \in Seq(Blocks)
         /\ Len(SubSeq(c, 1, k)) = k
         /\ DOMAIN SubSeq(c, 1, k) = 1 .. k
         /\ \A i \in 1 .. k : SubSeq(c, 1, k)[i] = c[i]
  OBVIOUS

\* The blocks of the shorter chain are blocks of the longer one, up to the last.
LEMMA PopBlock ==
  ASSUME NEW c \in Seq(Blocks)
  PROVE  LET new == Front(c) IN
         /\ new \in Seq(Blocks)
         /\ Len(c) >= 2 => new # <<>>
         /\ Ids(new) \subseteq Ids(c)
         /\ Distinct(c) => Distinct(new)
         /\ Linked(c) => Linked(new)
         /\ Distinct(c) /\ c # <<>> => Ids(new) = Ids(c) \ {Last(c).id}
<1>0. Len(c) \in Nat /\ DOMAIN c = 1 .. Len(c)
  OBVIOUS
<1>1. CASE c = <<>>
  <2>1. Front(c) = c
    BY <1>1 DEF Front
  <2>2. ~(Len(c) >= 2)
    BY <1>1
  <2> QED
    BY <1>1, <2>1, <2>2
<1>2. CASE c # <<>>
  <2> DEFINE n == Len(c) - 1
  <2>1. n \in 0 .. Len(c) /\ Len(c) = n + 1
    BY <1>0, <1>2
  <2> HIDE DEF n
  <2>2. Front(c) = SubSeq(c, 1, n)
    BY DEF Front, n
  <2> DEFINE new == Front(c)
  <2>3. new \in Seq(Blocks) /\ Len(new) = n /\ DOMAIN new = 1 .. n
    BY <2>1, <2>2, Prefix
  <2>4. \A i \in 1 .. n : new[i] = c[i]
    BY <2>1, <2>2, Prefix
  <2> HIDE DEF new
  <2>5. \A i \in 1 .. n : i \in DOMAIN c
    BY <1>0, <2>1
  <2>6. n + 1 \in DOMAIN c /\ Last(c) = c[n + 1]
    BY <1>0, <2>1 DEF Last
  <2>7. Ids(new) \subseteq Ids(c)
    BY <2>3, <2>4, <2>5 DEF Ids
  <2>8. Distinct(c) => Distinct(new)
    BY <2>3, <2>4, <2>5 DEF Distinct
  <2>9. ASSUME Linked(c) PROVE Linked(new)
    <3> SUFFICES ASSUME NEW i \in 1 .. n
                 PROVE  new[i].index = i - 1 /\ (i > 1 => new[i].prev = new[i - 1].id)
      BY <2>3 DEF Linked
    <3>1. i \in DOMAIN c /\ (i > 1 => i - 1 \in 1 .. n)
      BY <2>1, <2>5
    <3>2. c[i].index = i - 1 /\ (i > 1 => c[i].prev = c[i - 1].id)
      BY <2>9, <3>1 DEF Linked
    <3> QED
      BY <2>4, <3>1, <3>2
  <2>10. ASSUME Distinct(c)
         PROVE  Ids(new) = Ids(c) \ {Last(c).id}
    <3>1. \A i \in 1 .. n : c[i].id # c[n + 1].id
      BY <2>1, <2>5, <2>6, <2>10 DEF Distinct
    <3>2. Ids(new) = {c[i].id : i \in 1 .. n}
      BY <2>3, <2>4 DEF Ids
    <3>3. Ids(c) = {c[i].id : i \in 1 .. n} \cup {c[n + 1].id}
      <4>1. DOMAIN c = (1 .. n) \cup {n + 1}
        BY <1>0, <2>1
      <4> QED
        BY <4>1 DEF Ids
    <3> QED
      BY <2>6, <3>1, <3>2, <3>3
  <2>11. Len(c) >= 2 => new # <<>>
    BY <2>1, <2>3
  <2> QED
    BY <2>3, <2>7, <2>8, <2>9, <2>10, <2>11 DEF new
<1> QED
  BY <1>1, <1>2

\* No block number is used twice, so a chain is no longer than there are numbers.
LEMMA ChainIsShort ==
  ASSUME NEW c \in Seq(Blocks), NEW n \in Nat, Distinct(c), Ids(c) \subseteq 0 .. n
  PROVE  Len(c) <= n + 1
<1> DEFINE f == [i \in 1 .. Len(c) |-> c[i].id]
<1>1. Len(c) \in Nat /\ DOMAIN c = 1 .. Len(c)
  OBVIOUS
<1>2. \A i \in 1 .. Len(c) : c[i].id \in 0 .. n
  BY <1>1 DEF Ids
<1>3. f \in [1 .. Len(c) -> 0 .. n] /\ \A i, j \in 1 .. Len(c) : f[i] = f[j] => i = j
  BY <1>1, <1>2 DEF Distinct
<1>4. IsFiniteSet(1 .. Len(c)) /\ Cardinality(1 .. Len(c)) = Len(c)
  <2>1. 1 \in Int /\ Len(c) \in Int
    BY <1>1
  <2>2. PICK k \in Nat : k = Len(c)
    BY <1>1
  <2>3. IsFiniteSet(1 .. k) /\ Cardinality(1 .. k) = IF 1 > k THEN 0 ELSE k - 1 + 1
    BY FS_Interval
  <2> QED
    BY <2>2, <2>3
<1>5. IsFiniteSet(0 .. n) /\ Cardinality(0 .. n) = n + 1
  BY FS_Interval
<1> HIDE DEF f
<1>6. ~ (Cardinality(0 .. n) < Cardinality(1 .. Len(c)))
  BY ONLY SMTT(30), <1>3, <1>4, <1>5, FS_PigeonHole
<1> QED
  BY <1>1, <1>4, <1>5, <1>6

\* A chain that replace_chain may adopt has at least two blocks, and no number twice.
LEMMA BranchIsChain ==
  ASSUME chain \in Seq(Blocks), made \in 0 .. MaxBlocks, Distinct(chain),
         Ids(chain) \subseteq 0 .. made,
         NEW kept \in 1 .. Len(chain), NEW count \in 1 .. MaxBlocks - made
  PROVE  LET new == Branch(kept, count) IN
         /\ new \in Seq(Blocks) /\ Len(new) >= 2 /\ new # <<>>
         /\ Distinct(new)
         /\ \A x \in Ids(new) : x \in Ids(chain) \/ x \in made + 1 .. made + count
         /\ Linked(SubSeq(chain, 1, kept)) => Linked(new)
<1> DEFINE new == Branch(kept, count)
<1> DEFINE n == kept + count
<1> DEFINE own(i) == [id |-> made + i - kept, index |-> i - 1,
                      prev |-> IF i = kept + 1 THEN chain[kept].id ELSE made + i - kept - 1]
<1>1. /\ Len(chain) \in Nat /\ DOMAIN chain = 1 .. Len(chain) /\ MaxBlocks \in Nat
      /\ made \in Nat /\ kept \in Nat /\ count \in Nat /\ kept >= 1 /\ count >= 1
      /\ made + count <= MaxBlocks /\ kept <= Len(chain)
  BY MiningAssumption
<1>2. Len(chain) <= made + 1
  BY <1>1, ChainIsShort
<1>3. /\ n \in Nat /\ n >= 2
      /\ \A i \in 1 .. n : i <= kept => i \in DOMAIN chain
      /\ \A i \in 1 .. n : i > kept => made + i - kept \in made + 1 .. made + count
  BY <1>1
<1>4. /\ DOMAIN new = 1 .. n
      /\ \A i \in 1 .. n : new[i] = IF i <= kept THEN chain[i] ELSE own(i)
      /\ new = [i \in 1 .. n |-> new[i]]
  BY DEF Branch
<1>5. \A i \in DOMAIN chain : chain[i] \in Blocks /\ chain[i].id \in 0 .. made
  BY <1>1 DEF Ids
<1>6. \A i \in 1 .. n : new[i] \in Blocks
  <2> SUFFICES ASSUME NEW i \in 1 .. n, i > kept
               PROVE  own(i) \in Blocks
    <3>1. \A i \in 1 .. n : i <= kept \/ i > kept
      BY <1>1
    <3> QED
      BY <1>3, <1>4, <1>5, <3>1
  <2>1. made + i - kept \in None .. MaxBlocks
    BY <1>1, <1>3 DEF None
  <2>2. i - 1 \in 0 .. MaxBlocks
    BY <1>1, <1>2
  <2>3. made + i - kept - 1 \in None .. MaxBlocks
    BY <1>1, <1>3 DEF None
  <2>4. chain[kept].id \in None .. MaxBlocks
    BY <1>1, <1>5 DEF None
  <2> QED
    BY <2>1, <2>2, <2>3, <2>4 DEF Blocks
<1>7. \A i \in 1 .. n : /\ i <= kept => new[i].id = chain[i].id /\ new[i].id \in 0 .. made
                        /\ i > kept => new[i].id = made + i - kept
  <2>1. \A i \in 1 .. n : ~(i <= kept /\ i > kept)
    BY <1>1
  <2> QED
    BY <1>3, <1>4, <1>5, <2>1
<1> HIDE DEF new, own, n
<1>8. new \in Seq(Blocks) /\ Len(new) = n
  <2>1. n \in Nat
    BY <1>3
  <2>2. new \in [1 .. n -> Blocks]
    BY <1>4, <1>6
  <2> QED
    BY ONLY <2>1, <2>2
<1>9. Distinct(new)
  <2> SUFFICES ASSUME NEW i \in 1 .. n, NEW j \in 1 .. n, new[i].id = new[j].id
               PROVE  i = j
    BY <1>4 DEF Distinct
  <2>1. CASE i <= kept /\ j <= kept
    BY <1>3, <1>7, <2>1 DEF Distinct
  <2>2. CASE i > kept /\ j > kept
    BY <1>1, <1>7, <2>2
  <2>3. CASE i <= kept /\ j > kept
    BY <1>1, <1>3, <1>7, <2>3
  <2>4. CASE i > kept /\ j <= kept
    BY <1>1, <1>3, <1>7, <2>4
  <2> QED
    BY <1>1, <2>1, <2>2, <2>3, <2>4
<1>10. ASSUME NEW x \in Ids(new)
       PROVE  x \in Ids(chain) \/ x \in made + 1 .. made + count
  <2>1. PICK i \in 1 .. n : x = new[i].id
    BY <1>4, <1>10 DEF Ids
  <2>2. CASE i <= kept
    BY <1>3, <1>7, <2>1, <2>2 DEF Ids
  <2>3. CASE i > kept
    BY <1>3, <1>7, <2>1, <2>3
  <2> QED
    BY <1>1, <2>2, <2>3
<1>11. ASSUME Linked(SubSeq(chain, 1, kept))
       PROVE  Linked(new)
  <2>1. kept \in 0 .. Len(chain)
    BY <1>1
  <2>2. \A i \in 1 .. kept : chain[i].index = i - 1 /\ (i > 1 => chain[i].prev = chain[i - 1].id)
    <3> DEFINE old == SubSeq(chain, 1, kept)
    <3>1. DOMAIN old = 1 .. kept /\ \A i \in 1 .. kept : old[i] = chain[i]
      BY <2>1, Prefix
    <3> HIDE DEF old
    <3>2. Linked(old)
      BY <1>11 DEF old
    <3>3. \A i \in 1 .. kept : i > 1 => i - 1 \in 1 .. kept
      BY <1>1
    <3> QED
      BY <3>1, <3>2, <3>3 DEF Linked
  <2> SUFFICES ASSUME NEW i \in 1 .. n
               PROVE  new[i].index = i - 1 /\ (i > 1 => new[i].prev = new[i - 1].id)
    BY <1>4 DEF Linked
  <2>3. CASE i <= kept
    <3>1. i \in 1 .. kept /\ (i > 1 => i - 1 \in 1 .. n /\ i - 1 <= kept)
      BY <1>1, <1>3, <2>3
    <3> QED
      BY <1>4, <2>2, <2>3, <3>1
  <2>4. CASE i = kept + 1
    <3>1. new[i] = own(i) /\ kept \in 1 .. n /\ i > 1 /\ i - 1 = kept
      BY <1>1, <1>3, <1>4, <2>4 DEF n
    <3>2. new[kept].id = chain[kept].id
      BY <1>1, <1>7, <3>1
    <3> QED
      BY <2>4, <3>1, <3>2 DEF own
  <2>5. CASE i > kept + 1
    <3>1. new[i] = own(i) /\ i - 1 \in 1 .. n /\ i - 1 > kept /\ i > 1
      BY <1>1, <1>3, <1>4, <2>5
    <3>2. new[i - 1].id = made + (i - 1) - kept
      BY <1>7, <3>1
    <3>3. made + (i - 1) - kept = made + i - kept - 1 /\ i # kept + 1
      BY <1>1, <1>3, <2>5
    <3> QED
      BY <3>1, <3>2, <3>3 DEF own
  <2> QED
    BY <1>1, <1>3, <2>3, <2>4, <2>5
<1>12. new # <<>>
  BY <1>3, <1>8
<1> QED
  BY <1>3, <1>8, <1>9, <1>10, <1>11, <1>12 DEF new

---------------------------------------------------------------------------
\* Requests and threads

\* Threads mine for requests that started a loop or mine once, and two only
\* after one of them began while the other was running.
OneThread ==
  /\ at = [m \in Miner |-> at[m]]
  /\ \A m \in Running : request[m] \in {"loop", "once"}
  /\ ~several => \A m, n \in Running : m = n

\* What the node knows of its loops as long as no requests meet: a start under way
\* is alone and no loop runs beside it, and the one loop that runs is announced
\* by is_mining or awaited by a stop.
LoopsAreKnown ==
  ~gaveUp /\ ~raced =>
    /\ \A r, q \in Miner : request[r] \in {"set", "spawn"} /\ request[q] \in {"set", "spawn"} => r = q
    /\ InStep({"set", "spawn"}) => Loops = {}
    /\ InStep({"spawn"}) => mining
    /\ \A m, n \in Loops : m = n
    /\ Loops # {} => mining \/ InStep({"join"})

RequestTypeOK ==
  /\ request \in [Miner -> {"new", "set", "spawn", "loop", "once", "clear", "join", "done"}]
  /\ mining \in BOOLEAN /\ gaveUp \in BOOLEAN /\ raced \in BOOLEAN /\ several \in BOOLEAN

ThreadInv == OneThread /\ RequestTypeOK

LEMMA ThreadInit == MiningInit => ThreadInv /\ LoopsAreKnown
BY DEF MiningInit, ThreadInv, OneThread, RequestTypeOK, LoopsAreKnown, Running, Loops, InStep

\* What a request does to the threads: nothing, or the thread of the request begins.
LEMMA RequestMoves ==
  ASSUME NEW r \in Miner, RequestStep(r)
  PROVE  /\ UNCHANGED <<chain, utxo, flagVars, work, snap, peer, made, failures, historyVars>>
         /\ \E step : Step(r, step)
         /\ request[r] \in {"new", "set", "spawn", "clear", "join"}
         /\ \/ at' = at /\ several' = several
            \/ /\ Goto(r, "idle") /\ several' = (several \/ Running # {})
               /\ \/ request[r] = "spawn" /\ Step(r, "loop")
                  \/ request[r] = "new" /\ Step(r, "once")
               /\ UNCHANGED <<mining, gaveUp, raced>>
<1>1. CASE StartMining(r) BY <1>1 DEF StartMining, Arrives
<1>2. CASE SetMining(r) BY <1>2 DEF SetMining
<1>3. CASE StartThread(r) BY <1>3 DEF StartThread
<1>4. CASE MineOnce(r) BY <1>4 DEF MineOnce, Arrives
<1>5. CASE StopMining(r) BY <1>5 DEF StopMining, Arrives
<1>6. CASE ClearMining(r) BY <1>6 DEF ClearMining
<1>7. CASE Joined(r) BY <1>7 DEF Joined
<1> QED
  BY <1>1, <1>2, <1>3, <1>4, <1>5, <1>6, <1>7 DEF RequestStep

\* A thread that mines takes part in no request.
LEMMA MinerMoves ==
  ASSUME NEW m \in Miner, LeaveLoop(m) \/ ReadIndex(m) \/ MinerStep(m)
  PROVE  at[m] # "off" /\ UNCHANGED requestVars /\ \E step : Goto(m, step)
<1>0. CASE LeaveLoop(m) \/ ReadIndex(m) BY <1>0 DEF LeaveLoop, ReadIndex
<1>1. CASE ReadTip(m) BY <1>1 DEF ReadTip
<1>2. CASE SetTarget(m) BY <1>2 DEF SetTarget
<1>3. CASE ResetAbort(m) BY <1>3 DEF ResetAbort
<1>4. CASE Look(m) BY <1>4 DEF Look, Return
<1>5. CASE NotFound(m) BY <1>5 DEF NotFound
<1>6. CASE Find(m) BY <1>6 DEF Find
<1>7. CASE SnapshotUtxo(m) BY <1>7 DEF SnapshotUtxo
<1>8. CASE AppendOwn(m) BY <1>8 DEF AppendOwn
<1>9. CASE ApplyOwn(m) BY <1>9 DEF ApplyOwn
<1>10. CASE SaveOwn(m) BY <1>10 DEF SaveOwn, Return
<1>11. CASE SaveFails(m) BY <1>11 DEF SaveFails
<1>12. CASE RestoreUtxo(m) BY <1>12 DEF RestoreUtxo
<1>13. CASE CompareTip(m) BY <1>13 DEF CompareTip, Return
<1>14. CASE PopOwn(m) BY <1>14 DEF PopOwn, Return
<1> QED
  BY <1>0, <1>1, <1>2, <1>3, <1>4, <1>5, <1>6, <1>7, <1>8, <1>9, <1>10, <1>11, <1>12,
     <1>13, <1>14 DEF MinerStep

\* The thread with the peers' blocks leaves requests and mining threads alone.
LEMMA PeerMoves ==
  ASSUME ReceiveBlock \/ ConnectOrphan \/ ReceiveFork \/ Reorganise \/ PeerStep
  PROVE  UNCHANGED <<requestVars, at, work, snap, target>>
<1>1. CASE ReceiveBlock \/ ConnectOrphan \/ ReceiveFork \/ Reorganise
  BY <1>1 DEF ReceiveBlock, ConnectOrphan, ReceiveFork, Reorganise, flagVars
<1>2. CASE \/ AppendPeer \/ TestTarget \/ RaiseAbort \/ ApplyPeer \/ NoOrphan
           \/ CopyChain \/ CopyUtxo \/ ClearUtxo \/ RebuildUtxo
  BY <1>2 DEF AppendPeer, TestTarget, RaiseAbort, ApplyPeer, NoOrphan, CopyChain, CopyUtxo,
     ClearUtxo, RebuildUtxo, flagVars
<1>3. CASE \/ RebuildAborts \/ ReplaceChain \/ SaveReorg \/ ReorgFails \/ KeepFork \/ UndoFork
           \/ RestoreChain \/ RestorePeerUtxo
  BY <1>3 DEF RebuildAborts, ReplaceChain, SaveReorg, ReorgFails, KeepFork, UndoFork,
     RestoreChain, RestorePeerUtxo, flagVars
<1> QED
  BY <1>1, <1>2, <1>3 DEF PeerStep

LEMMA ThreadNext == ThreadInv /\ [MiningNext]_miningVars => ThreadInv'
<1> SUFFICES ASSUME ThreadInv, [MiningNext]_miningVars
             PROVE  ThreadInv'
  OBVIOUS
<1> USE DEF ThreadInv
<1>1. ASSUME NEW r \in Miner, RequestStep(r)
      PROVE  ThreadInv'
  <2>1. RequestTypeOK'
    <3>1. CASE StartMining(r) \/ SetMining(r) \/ StartThread(r) \/ MineOnce(r)
      BY <3>1 DEF StartMining, SetMining, StartThread, MineOnce, Step, RequestTypeOK
    <3>2. CASE StopMining(r) \/ ClearMining(r) \/ Joined(r)
      BY <3>2 DEF StopMining, ClearMining, Joined, Step, RequestTypeOK
    <3> QED
      BY <1>1, <3>1, <3>2 DEF RequestStep
  <2>2. PICK step : Step(r, step)
    BY <1>1, RequestMoves
  <2>3. /\ request[r] \in {"new", "set", "spawn", "clear", "join"}
        /\ \A m \in Miner : m # r => request'[m] = request[m]
        /\ r \notin Running
    BY <1>1, <2>2, RequestMoves DEF Step, RequestTypeOK, OneThread
  <2>4. CASE at' = at /\ several' = several
    <3>1. Running' = Running /\ \A m \in Running : request'[m] = request[m]
      BY <2>3, <2>4 DEF Running
    <3> QED
      BY <2>1, <2>4, <3>1 DEF OneThread
  <2>5. CASE /\ Goto(r, "idle") /\ several' = (several \/ Running # {})
             /\ Step(r, "loop") \/ Step(r, "once")
    <3>1. /\ Running' = Running \cup {r} /\ at' = [m \in Miner |-> at'[m]]
          /\ request'[r] \in {"loop", "once"}
      BY <2>5 DEF Running, Goto, OneThread, Step, RequestTypeOK
    <3>2. \A m \in Running' : request'[m] \in {"loop", "once"}
      BY <2>3, <3>1 DEF OneThread, Running
    <3>3. ~several' => Running' = {r}
      BY <2>5, <3>1
    <3> QED
      BY <2>1, <3>1, <3>2, <3>3 DEF OneThread
  <2> QED
    BY <1>1, <2>4, <2>5, RequestMoves
<1>2. ASSUME NEW m \in Miner, LeaveLoop(m) \/ ReadIndex(m) \/ MinerStep(m)
      PROVE  ThreadInv'
  <2>1. at[m] # "off" /\ UNCHANGED requestVars
    BY <1>2, MinerMoves
  <2>2. PICK step : Goto(m, step)
    BY <1>2, MinerMoves
  <2>3. Running' \subseteq Running /\ at' = [n \in Miner |-> at'[n]]
    BY <2>1, <2>2 DEF Running, Goto, OneThread
  <2> QED
    BY <2>1, <2>3 DEF requestVars, OneThread, RequestTypeOK
<1>3. CASE ReceiveBlock \/ ConnectOrphan \/ ReceiveFork \/ Reorganise \/ PeerStep
  <2>1. UNCHANGED <<requestVars, at>>
    BY <1>3, PeerMoves
  <2> QED
    BY <2>1 DEF requestVars, OneThread, RequestTypeOK, Running
<1>4. CASE UNCHANGED miningVars
  BY <1>4 DEF miningVars, requestVars, OneThread, RequestTypeOK, Running
<1> QED
  BY <1>1, <1>2, <1>3, <1>4 DEF MiningNext

\* Steps of threads alone: no loop comes into being.
LEMMA LoopsShrink ==
  ASSUME LoopsAreKnown, UNCHANGED requestVars, Running' \subseteq Running
  PROVE  LoopsAreKnown'
<1>1. Loops' \subseteq Loops
  BY DEF Loops, requestVars
<1>2. UNCHANGED <<mining, request, gaveUp, raced>>
  BY DEF requestVars
<1>3. \A steps : InStep(steps)' <=> InStep(steps)
  BY <1>2 DEF InStep
<1> QED
  BY <1>1, <1>2, <1>3 DEF LoopsAreKnown, InStep

LEMMA LoopsNext == ThreadInv /\ LoopsAreKnown /\ [MiningNext]_miningVars => LoopsAreKnown'
<1> SUFFICES ASSUME ThreadInv, LoopsAreKnown, [MiningNext]_miningVars
             PROVE  LoopsAreKnown'
  OBVIOUS
<1>1. ASSUME NEW r \in Miner, RequestStep(r), ~gaveUp', ~raced'
      PROVE  LoopsAreKnown'
  <2>0. /\ request = [q \in Miner |-> request[q]] /\ at = [q \in Miner |-> at[q]]
        /\ \A q \in Running : request[q] \in {"loop", "once"}
    BY DEF ThreadInv, RequestTypeOK, OneThread
  <2>1. ~gaveUp /\ ~raced
    <3>1. CASE StartMining(r) BY <1>1, <3>1 DEF StartMining
    <3>2. CASE SetMining(r) \/ StartThread(r) \/ MineOnce(r) \/ StopMining(r)
      BY <1>1, <3>2 DEF SetMining, StartThread, MineOnce, StopMining
    <3>3. CASE ClearMining(r) BY <1>1, <3>3 DEF ClearMining
    <3>4. CASE Joined(r) BY <1>1, <3>4 DEF Joined
    <3> QED
      BY <1>1, <3>1, <3>2, <3>3, <3>4 DEF RequestStep
  <2>2. /\ \A q, p \in Miner :
              request[q] \in {"set", "spawn"} /\ request[p] \in {"set", "spawn"} => q = p
        /\ InStep({"set", "spawn"}) => Loops = {}
        /\ InStep({"spawn"}) => mining
        /\ \A m, n \in Loops : m = n
        /\ Loops # {} => mining \/ InStep({"join"})
    BY <2>1 DEF LoopsAreKnown, InStep
  <2>3. CASE StartMining(r)
    <3>1. /\ ~mining /\ ~InStep({"set", "spawn", "join"}) /\ UNCHANGED <<mining, at>>
          /\ request' = [request EXCEPT ![r] = "set"] /\ request[r] = "new"
      BY <1>1, <2>3 DEF StartMining, Step, Arrives
    <3>2. Loops = {}
      BY <2>2, <3>1 DEF InStep
    <3>3. Loops' = {}
      BY <2>0, <3>1, <3>2 DEF Loops, Running
    <3>4. \A q \in Miner : request'[q] \in {"set", "spawn"} => q = r
      BY <2>0, <3>1 DEF InStep
    <3>5. ~InStep({"spawn"})'
      BY <2>0, <3>1 DEF InStep
    <3> QED
      BY <3>3, <3>4, <3>5 DEF LoopsAreKnown
  <2>4. CASE SetMining(r)
    <3>1. /\ mining' /\ at' = at /\ request[r] = "set"
          /\ request' = [request EXCEPT ![r] = "spawn"]
      BY <2>4 DEF SetMining, Step
    <3>2. Loops = {}
      BY <2>2, <3>1 DEF InStep
    <3>3. Loops' = {}
      BY <2>0, <3>1, <3>2 DEF Loops, Running
    <3>4. \A q \in Miner : request'[q] \in {"set", "spawn"} => request[q] \in {"set", "spawn"}
      BY <2>0, <3>1
    <3> QED
      BY <2>2, <3>1, <3>3, <3>4 DEF LoopsAreKnown
  <2>5. CASE StartThread(r)
    <3>1. /\ mining' = mining /\ request[r] = "spawn"
          /\ request' = [request EXCEPT ![r] = "loop"] /\ at' = [at EXCEPT ![r] = "idle"]
      BY <2>5 DEF StartThread, Step, Goto
    <3>2. Loops = {} /\ mining
      BY <2>2, <3>1 DEF InStep
    <3>3. Loops' \subseteq {r}
      BY <2>0, <3>1, <3>2 DEF Loops, Running
    <3>4. \A q \in Miner : request'[q] \notin {"set", "spawn"}
      BY <2>0, <2>2, <3>1
    <3> QED
      BY <3>1, <3>2, <3>3, <3>4 DEF LoopsAreKnown, InStep
  <2>6. CASE MineOnce(r)
    <3>1. /\ mining' = mining /\ request[r] = "new"
          /\ request' = [request EXCEPT ![r] = "once"] /\ at' = [at EXCEPT ![r] = "idle"]
      BY <2>6 DEF MineOnce, Step, Goto, Arrives
    <3>2. Loops' = Loops
      BY <2>0, <3>1 DEF Loops, Running
    <3>3. \A q \in Miner, s \in {"set", "spawn", "join"} : request'[q] = s <=> request[q] = s
      BY <2>0, <3>1
    <3> QED
      BY <2>2, <3>1, <3>2, <3>3 DEF LoopsAreKnown, InStep
  <2>7. CASE StopMining(r)
    <3>1. /\ UNCHANGED <<mining, at>> /\ request[r] = "new"
          /\ request' = [request EXCEPT ![r] = "clear"]
      BY <2>7 DEF StopMining, Step, Arrives
    <3>2. Loops' = Loops
      BY <2>0, <3>1 DEF Loops, Running
    <3>3. \A q \in Miner, s \in {"set", "spawn", "join"} : request'[q] = s <=> request[q] = s
      BY <2>0, <3>1
    <3> QED
      BY <2>2, <3>1, <3>2, <3>3 DEF LoopsAreKnown, InStep
  <2>8. CASE ClearMining(r)
    <3>1. /\ at' = at /\ ~InStep({"spawn"}) /\ request[r] = "clear"
          /\ request' = [request EXCEPT ![r] = "join"]
      BY <1>1, <2>8 DEF ClearMining, Step
    <3>2. Loops' = Loops
      BY <2>0, <3>1 DEF Loops, Running
    <3>3. \A q \in Miner, s \in {"set", "spawn"} : request'[q] = s <=> request[q] = s
      BY <2>0, <3>1
    <3>4. InStep({"join"})' /\ ~InStep({"spawn"})' /\ (InStep({"set", "spawn"})' <=> InStep({"set", "spawn"}))
      BY <2>0, <3>1, <3>3 DEF InStep
    <3> QED
      BY <2>2, <3>1, <3>2, <3>3, <3>4 DEF LoopsAreKnown
  <2>9. CASE Joined(r)
    <3>1. /\ UNCHANGED <<mining, at>> /\ request[r] = "join" /\ Loops = {}
          /\ request' = [request EXCEPT ![r] = "done"]
      BY <1>1, <2>9 DEF Joined, Step
    <3>2. Loops' = {}
      BY <2>0, <3>1 DEF Loops, Running
    <3>3. \A q \in Miner, s \in {"set", "spawn"} : request'[q] = s <=> request[q] = s
      BY <2>0, <3>1
    <3> QED
      BY <2>2, <3>1, <3>2, <3>3 DEF LoopsAreKnown, InStep
  <2> QED
    BY <1>1, <2>3, <2>4, <2>5, <2>6, <2>7, <2>8, <2>9 DEF RequestStep
<1>2. ASSUME NEW m \in Miner, LeaveLoop(m) \/ ReadIndex(m) \/ MinerStep(m)
      PROVE  LoopsAreKnown'
  <2>1. at[m] # "off" /\ UNCHANGED requestVars
    BY <1>2, MinerMoves
  <2>2. PICK step : Goto(m, step)
    BY <1>2, MinerMoves
  <2>3. Running' \subseteq Running
    BY <2>1, <2>2 DEF Running, Goto, ThreadInv, OneThread
  <2> QED
    BY <2>1, <2>3, LoopsShrink
<1>3. CASE ReceiveBlock \/ ConnectOrphan \/ ReceiveFork \/ Reorganise \/ PeerStep
  <2>1. UNCHANGED requestVars /\ Running' \subseteq Running
    BY <1>3, PeerMoves DEF Running
  <2> QED
    BY <2>1, LoopsShrink
<1>4. CASE UNCHANGED miningVars
  <2>1. UNCHANGED requestVars /\ Running' \subseteq Running
    BY <1>4 DEF miningVars, Running, requestVars
  <2> QED
    BY <2>1, LoopsShrink
<1>5. gaveUp' \/ raced' => LoopsAreKnown'
  BY DEF LoopsAreKnown
<1> QED
  BY <1>1, <1>2, <1>3, <1>4, <1>5 DEF MiningNext

LEMMA KnownLoopIsOne == LoopsAreKnown => OneMiningThread
<1> SUFFICES ASSUME LoopsAreKnown, ~gaveUp, ~raced
             PROVE  Cardinality(Loops) <= 1
  BY DEF OneMiningThread
<1>1. \A m, n \in Loops : m = n
  BY DEF LoopsAreKnown
<1>2. CASE Loops = {}
  BY <1>2, FS_EmptySet
<1>3. CASE Loops # {}
  <2>1. PICK m : m \in Loops
    BY <1>3
  <2>2. Loops = {m}
    BY <1>1, <2>1
  <2> QED
    BY <2>2, FS_Singleton
<1> QED
  BY <1>2, <1>3

\* At most one mining loop runs, however often the operator starts and stops the
\* mining (start_mining, stop_mining and _mine_continuously of core/node.py),
\* unless a stop gave up waiting for the thread or a request met another between
\* its test of is_mining and its effect.
THEOREM OneThreadMines == MiningSpec => []OneMiningThread
BY ThreadInit, ThreadNext, LoopsNext, KnownLoopIsOne, PTL DEF MiningSpec

---------------------------------------------------------------------------
\* What the thread with the peers' blocks holds

ReorgSteps == {"copy", "snapshot", "fork", "adopted", "clear", "rebuild", "replace",
               "save", "restore", "restoreUtxo"}
InReorg == peer.at \in ReorgSteps
PeerHasBlock == peer.at \in {"append", "test", "raise", "apply"}
Stack == IF InReorg THEN peer.saved ELSE <<>>     \* its snapshots
Chosen == IF InReorg THEN peer.branch ELSE <<>>   \* the chain it goes over to

LEMMA PeerForms ==
  ASSUME PeerTypeOK
  PROVE  /\ PeerHasBlock => /\ peer.block \in Blocks /\ peer.orphan \in BOOLEAN
                            /\ peer \in [at : {"append", "test", "raise", "apply"},
                                        block : Blocks, orphan : BOOLEAN]
         /\ InReorg => /\ peer \in [at : ReorgSteps, saved : Seq(Saved), branch : Seq(Blocks)]
                       /\ peer.saved = Stack /\ peer.branch = Chosen
                       /\ peer.at # "copy" => Stack # <<>>
         /\ Stack \in Seq(Saved) /\ Chosen \in Seq(Blocks)
BY DEF PeerTypeOK, PeerHasBlock, InReorg, ReorgSteps, Stack, Chosen

LEMMA PeerHolds ==
  ASSUME PeerTypeOK
  PROVE  /\ Holders = Storing \cup (IF Stack # <<>> THEN {Peer} ELSE {})
         /\ Peer \notin Storing /\ Storing \subseteq Miner
<1>1. Peer \notin Storing /\ Storing \subseteq Miner
  BY DEF Storing, Miner, Peer
<1>2. HasSaved <=> Stack # <<>>
  <2>1. CASE InReorg
    BY <2>1, PeerForms DEF HasSaved
  <2>2. CASE ~InReorg
    BY <2>2 DEF HasSaved, Stack, PeerTypeOK, InReorg, ReorgSteps
  <2> QED
    BY <2>1, <2>2
<1> QED
  BY <1>1, <1>2 DEF Holders

\* A change of another thread is noted for all that hold a snapshot.
LEMMA UtxoNoted ==
  ASSUME PeerTypeOK, during \subseteq Miner \cup {Peer}, NEW actor \in Miner \cup {Peer},
         NoteUtxo(actor)
  PROVE  /\ during' \subseteq Miner \cup {Peer} /\ during \subseteq during'
         /\ actor # Peer /\ Stack # <<>> => Peer \in during'
         /\ actor = Peer => (Peer \in during' <=> Peer \in during)
         /\ \A m \in Storing : m # actor => m \in during'
BY PeerHolds DEF NoteUtxo

\* The thread with the peers' blocks goes on with what it holds.
LEMMA PeerGoesOn ==
  ASSUME PeerTypeOK, InReorg, peer.at # "copy", NEW s \in ReorgSteps, s # "copy", PeerAt(s)
  PROVE  PeerTypeOK' /\ InReorg' /\ peer'.at = s /\ Stack' = Stack /\ Chosen' = Chosen
<1>1. /\ peer' \in [at : ReorgSteps, saved : Seq(Saved), branch : Seq(Blocks)]
      /\ peer'.at = s /\ peer'.saved = peer.saved /\ peer'.branch = peer.branch
      /\ peer.saved # <<>>
  BY PeerForms DEF PeerAt
<1> QED
  BY <1>1 DEF PeerTypeOK, InReorg, ReorgSteps, Stack, Chosen

LEMMA PeerTakes ==
  ASSUME NEW s \in ReorgSteps, NEW saved \in Seq(Saved), NEW branch \in Seq(Blocks),
         s # "copy" => saved # <<>>, peer' = Reorg(s, saved, branch)
  PROVE  PeerTypeOK' /\ InReorg' /\ peer'.at = s /\ Stack' = saved /\ Chosen' = branch
BY DEF Reorg, PeerTypeOK, InReorg, ReorgSteps, Stack, Chosen

LEMMA PeerRests ==
  ASSUME peer' = PeerIdle
  PROVE  PeerTypeOK' /\ ~InReorg' /\ ~PeerHasBlock' /\ peer'.at = "idle"
         /\ Stack' = <<>> /\ Chosen' = <<>>
BY DEF PeerIdle, PeerTypeOK, InReorg, ReorgSteps, PeerHasBlock, Stack, Chosen

LEMMA FrontIsShorter ==
  ASSUME NEW s \in Seq(Saved), s # <<>>, Len(s) # 1
  PROVE  /\ Front(s) \in Seq(Saved) /\ Front(s) # <<>> /\ Len(s) = Len(Front(s)) + 1
         /\ \A i \in DOMAIN Front(s) : i \in DOMAIN s /\ Front(s)[i] = s[i]
<1> DEFINE n == Len(s) - 1
<1>1. Len(s) \in Nat /\ Len(s) # 0 /\ DOMAIN s = 1 .. Len(s)
  OBVIOUS
<1>2. n \in Nat /\ n # 0 /\ Len(s) = n + 1 /\ n <= Len(s)
  BY <1>1
<1> HIDE DEF n
<1>3. Front(s) = SubSeq(s, 1, n)
  BY DEF Front, n
<1>4. SubSeq(s, 1, n) \in Seq(Saved) /\ Len(SubSeq(s, 1, n)) = n
      /\ DOMAIN SubSeq(s, 1, n) = 1 .. n
      /\ \A i \in 1 .. n : SubSeq(s, 1, n)[i] = s[i]
  BY <1>1, <1>2
<1>5. SubSeq(s, 1, n) # <<>>
  BY <1>2, <1>4
<1>6. \A i \in 1 .. n : i \in DOMAIN s
  BY <1>1, <1>2
<1> QED
  BY <1>2, <1>3, <1>4, <1>5, <1>6

LEMMA PeerPops ==
  ASSUME PeerTypeOK, InReorg, Stack # <<>>, NEW s \in {"fork", "adopted"}, Pop(s)
  PROVE  /\ PeerTypeOK' /\ peer'.at \in {"idle", s} /\ Chosen' = <<>>
         /\ Stack' \in Seq(Saved) /\ Len(Stack) = Len(Stack') + 1
         /\ \A i \in DOMAIN Stack' : i \in DOMAIN Stack /\ Stack'[i] = Stack[i]
<1>1. Stack \in Seq(Saved) /\ peer.saved = Stack
  BY PeerForms
<1>2. CASE Len(Stack) = 1
  <2>1. peer' = PeerIdle
    BY <1>1, <1>2 DEF Pop
  <2> QED
    BY <1>2, <2>1, PeerRests
<1>3. CASE Len(Stack) # 1
  <2>1. /\ Front(Stack) \in Seq(Saved) /\ Len(Stack) = Len(Front(Stack)) + 1
        /\ Front(Stack) # <<>>
        /\ \A i \in DOMAIN Front(Stack) : i \in DOMAIN Stack /\ Front(Stack)[i] = Stack[i]
    BY <1>1, <1>3, FrontIsShorter
  <2>2. peer' = Reorg(s, Front(Stack), <<>>) /\ <<>> \in Seq(Blocks) /\ s \in ReorgSteps
    BY <1>1, <1>3 DEF Pop, ReorgSteps
  <2> QED
    BY <2>1, <2>2, PeerTakes
<1> QED
  BY <1>2, <1>3

\* A snapshot of the chain, and then of the UTXO set.
LEMMA ChainPushed ==
  ASSUME NEW s \in Seq(Saved), chain \in Seq(Blocks)
  PROVE  LET new == PushChain(s) IN
         /\ new \in Seq(Saved) /\ new # <<>> /\ Len(new) = Len(s) + 1
         /\ DOMAIN new = DOMAIN s \cup {Len(s) + 1}
         /\ \A i \in DOMAIN s : new[i] = s[i]
         /\ new[Len(s) + 1].chain = chain /\ new[Len(s) + 1].utxo = {}
<1>1. [chain |-> chain, utxo |-> {}] \in Saved
  BY DEF Saved
<1> QED
  BY <1>1 DEF PushChain

LEMMA UtxoPushed ==
  ASSUME NEW s \in Seq(Saved), s # <<>>, utxo \subseteq 0 .. MaxBlocks
  PROVE  LET new == PushUtxo(s) IN
         /\ new \in Seq(Saved) /\ new # <<>> /\ Len(new) = Len(s) /\ DOMAIN new = DOMAIN s
         /\ \A i \in DOMAIN s : /\ i # Len(s) => new[i] = s[i]
                                /\ new[i].chain = s[i].chain
         /\ new[Len(s)].utxo = utxo
<1>1. /\ Len(s) \in DOMAIN s /\ DOMAIN s = 1 .. Len(s) /\ Len(s) \in Nat
      /\ \A i \in DOMAIN s : s[i] \in Saved
  OBVIOUS
<1> DEFINE new == PushUtxo(s)
<1> DEFINE top == [s[Len(s)] EXCEPT !.utxo = utxo]
<1>2. new = [s EXCEPT ![Len(s)] = top]
  BY DEF PushUtxo
<1>3. top \in Saved /\ top.chain = s[Len(s)].chain /\ top.utxo = utxo
  <2>1. s[Len(s)] \in Saved
    BY <1>1
  <2> QED
    BY <2>1 DEF Saved
<1> HIDE DEF top, new
<1>4. new \in Seq(Saved) /\ Len(new) = Len(s) /\ DOMAIN new = DOMAIN s
  BY <1>1, <1>2, <1>3
<1>5. \A i \in DOMAIN s : new[i] = IF i = Len(s) THEN top ELSE s[i]
  BY <1>1, <1>2
<1> QED
  BY <1>1, <1>3, <1>4, <1>5 DEF new

---------------------------------------------------------------------------
\* Types and block numbers

Holding == Found \cup Storing
Appended == {m \in Storing : at[m] # "append"}

\* The numbers of blocks that are or were in the chain or in the UTXO set.
Known == Ids(chain) \cup utxo \cup Ids(Chosen)
           \cup (UNION {snap[m] : m \in Miner})
           \cup (UNION {Ids(Stack[i].chain) \cup Stack[i].utxo : i \in DOMAIN Stack})

\* No block is twice in a chain, and the genesis block is not all of a new one.
ChainsFresh ==
  /\ Known \subseteq 0 .. made
  /\ Distinct(chain) /\ Distinct(Chosen) /\ \A i \in DOMAIN Stack : Distinct(Stack[i].chain)
  /\ Chosen # <<>> => Len(Chosen) >= 2
  /\ peer.at \in {"copy", "clear", "rebuild", "replace"} => Chosen # <<>>
\* A found block has a number of its own, in whoever's hands it is.
WorkFresh ==
  /\ \A m \in Holding : work[m].id \in 1 .. made
  /\ \A m \in Found : work[m].id \notin Known
  /\ \A m, n \in Holding : work[m].id = work[n].id => m = n
PeerFresh ==
  /\ PeerHasBlock => /\ peer.block.id \in 1 .. made
                     /\ \A m \in Holding : work[m].id # peer.block.id
  /\ peer.at = "append" => peer.block.id \notin Ids(chain)

\* The one thread that mines pops no more than it appended, nor does a chain that
\* is put back hold less.
Grounded(c) == c # <<>> /\ (Appended # {} => Len(c) >= 2)
GenesisStays ==
  ~several /\ ~parted =>
    Grounded(chain) /\ (Peer \notin during => \A i \in DOMAIN Stack : Grounded(Stack[i].chain))

Fresh == ChainsFresh /\ WorkFresh /\ PeerFresh /\ GenesisStays
ShapeInv == MiningTypeOK /\ ThreadInv /\ Fresh

LEMMA ShapeInit == MiningInit => MiningTypeOK /\ Fresh
<1> SUFFICES ASSUME MiningInit
             PROVE  MiningTypeOK /\ Fresh
  OBVIOUS
<1> USE MiningAssumption DEF MiningInit
<1>1. Genesis \in Blocks
  BY DEF Genesis, Blocks, None
<1>2. chain \in Seq(Blocks) /\ chain # <<>> /\ DOMAIN chain = {1} /\ chain[1] = Genesis
  BY <1>1
<1>3. 0 \in 0 .. MaxBlocks /\ 0 \in 0 .. MaxFailures /\ None \in None .. MaxBlocks
  BY DEF None
<1>4. PeerTypeOK
  BY DEF PeerTypeOK, PeerIdle
<1>5. MiningTypeOK
  BY <1>1, <1>2, <1>3, <1>4 DEF MiningTypeOK
<1>6. Holding = {} /\ Appended = {} /\ Found = {}
  BY DEF Holding, Appended, Found, Storing
<1>7. Stack = <<>> /\ Chosen = <<>> /\ ~PeerHasBlock
      /\ peer.at \notin {"append", "copy", "clear", "rebuild", "replace"}
  BY DEF Stack, Chosen, InReorg, ReorgSteps, PeerIdle, PeerHasBlock
<1>8. Ids(chain) = {0} /\ Ids(Chosen) = {} /\ Distinct(chain) /\ Distinct(Chosen)
  BY <1>2, <1>7 DEF Distinct, Ids, Genesis
<1>9. Known = {0}
  BY <1>7, <1>8 DEF Known
<1> QED
  BY <1>2, <1>5, <1>6, <1>7, <1>8, <1>9 DEF Fresh, ChainsFresh, WorkFresh, PeerFresh,
     GenesisStays, Grounded

\* What was known stays so: that two threads mined, or that a rollback met a change.
LEMMA PartedStays ==
  ASSUME [MiningNext]_miningVars
  PROVE  parted => parted'
<1>1. ASSUME NEW r \in Miner, RequestStep(r)
      PROVE  parted => parted'
  BY <1>1, RequestMoves DEF historyVars
<1>2. CASE \/ ReceiveBlock \/ ConnectOrphan \/ ReceiveFork \/ Reorganise
           \/ AppendPeer \/ TestTarget \/ RaiseAbort \/ ApplyPeer \/ NoOrphan
           \/ CopyChain \/ CopyUtxo \/ ClearUtxo \/ RebuildUtxo
  BY <1>2 DEF ReceiveBlock, ConnectOrphan, ReceiveFork, Reorganise, AppendPeer, TestTarget,
     RaiseAbort, ApplyPeer, NoOrphan, CopyChain, CopyUtxo, ClearUtxo, RebuildUtxo, historyVars
<1>3. CASE \/ RebuildAborts \/ ReplaceChain \/ SaveReorg \/ ReorgFails \/ KeepFork \/ UndoFork
           \/ RestoreChain \/ RestorePeerUtxo
  BY <1>3 DEF RebuildAborts, ReplaceChain, SaveReorg, ReorgFails, KeepFork, UndoFork,
     RestoreChain, RestorePeerUtxo, historyVars
<1>4. ASSUME NEW m \in Miner, LeaveLoop(m) \/ ReadIndex(m) \/ MinerStep(m)
      PROVE  parted => parted'
  BY <1>4 DEF LeaveLoop, ReadIndex, MinerStep, ReadTip, SetTarget, ResetAbort, Look, NotFound,
     Find, SnapshotUtxo, AppendOwn, ApplyOwn, SaveOwn, SaveFails, RestoreUtxo, CompareTip,
     PopOwn, NoteParted, historyVars
<1>5. CASE UNCHANGED miningVars
  BY <1>5 DEF miningVars, historyVars
<1> QED
  BY <1>1, <1>2, <1>3, <1>4, <1>5 DEF MiningNext, PeerStep

LEMMA SeveralStays ==
  ASSUME [MiningNext]_miningVars
  PROVE  several => several'
<1>1. ASSUME NEW r \in Miner, RequestStep(r)
      PROVE  several => several'
  BY <1>1, RequestMoves
<1>2. CASE ReceiveBlock \/ ConnectOrphan \/ ReceiveFork \/ Reorganise \/ PeerStep
  BY <1>2, PeerMoves DEF requestVars
<1>3. ASSUME NEW m \in Miner, LeaveLoop(m) \/ ReadIndex(m) \/ MinerStep(m)
      PROVE  several => several'
  BY <1>3, MinerMoves DEF requestVars
<1>4. CASE UNCHANGED miningVars
  BY <1>4 DEF miningVars, requestVars
<1> QED
  BY <1>1, <1>2, <1>3, <1>4 DEF MiningNext

Before == {"off", "idle", "tip", "target", "reset", "look", "search"}
After == {"apply", "save", "restore", "compare", "pop"}

\* A thread that takes no new block in its hands disturbs no number.
LEMMA QuietMove ==
  ASSUME ShapeInv, NEW m \in Miner, NEW s, Goto(m, s),
         UNCHANGED <<chain, made, peer>>, several => several', parted => parted',
         Peer \in during => Peer \in during',
         \A n \in Miner \ {m} : work'[n] = work[n],
         \A b \in Known' : b \in Known \/ (m \in Appended /\ b = work[m].id),
         \/ s \in Before
         \/ at[m] = "snapshot" /\ s = "append" /\ work' = work
         \/ at[m] \in After /\ s \in After /\ work' = work
  PROVE  Fresh'
<1>1. at \in [Miner -> Before \cup {"snapshot", "append"} \cup After]
  BY DEF ShapeInv, MiningTypeOK, Before, After
<1>2. \A n \in Miner : at'[n] = IF n = m THEN s ELSE at[n]
  BY <1>1 DEF Goto
<1>3. /\ Holding' \subseteq Holding /\ Found' \subseteq Found /\ Appended' \subseteq Appended
      /\ \A n \in Holding' : work'[n] = work[n]
      /\ Found \subseteq Holding /\ Appended \subseteq Holding /\ Found \cap Appended = {}
  BY <1>2 DEF Holding, Found, Storing, Appended, Before, After
<1>4. /\ Stack' = Stack /\ Chosen' = Chosen /\ PeerHasBlock' = PeerHasBlock
      /\ Ids(chain)' = Ids(chain) /\ Distinct(chain)' = Distinct(chain)
      /\ Distinct(Chosen)' = Distinct(Chosen) /\ peer' = peer /\ made' = made /\ chain' = chain
  BY DEF Stack, Chosen, InReorg, PeerHasBlock, Ids, Distinct
<1>5. WorkFresh /\ ChainsFresh /\ PeerFresh /\ GenesisStays
  BY DEF ShapeInv, Fresh
<1>6. ChainsFresh'
  <2>1. Known' \subseteq 0 .. made
    <3>1. m \in Appended => work[m].id \in 0 .. made
      <4>1. \A x \in 1 .. made : x \in 0 .. made
        BY DEF ShapeInv, MiningTypeOK
      <4> QED
        BY <1>3, <1>5, <4>1 DEF WorkFresh
    <3> QED
      BY <1>5, <3>1 DEF ChainsFresh
  <2>2. \A i \in DOMAIN Stack : Distinct(Stack[i].chain)' = Distinct(Stack[i].chain)
    BY <1>4 DEF Distinct
  <2> QED
    BY <1>4, <1>5, <2>1, <2>2 DEF ChainsFresh, Distinct
<1>7. WorkFresh'
  <2>1. \A n \in Holding' : work'[n].id \in 1 .. made
    BY <1>3, <1>5 DEF WorkFresh
  <2>2. \A n \in Found' : work'[n].id \notin Known'
    <3> SUFFICES ASSUME NEW n \in Found', work'[n].id \in Known'
                 PROVE  FALSE
      OBVIOUS
    <3>1. n \in Found /\ n \in Holding /\ work'[n] = work[n]
      BY <1>3 DEF Holding
    <3>2. m \in Appended /\ work[n].id = work[m].id
      BY <1>5, <3>1 DEF WorkFresh
    <3>3. n = m
      BY <1>3, <1>5, <3>1, <3>2 DEF WorkFresh
    <3> QED
      BY <1>3, <3>1, <3>2, <3>3
  <2>3. \A n, l \in Holding' : work'[n].id = work'[l].id => n = l
    BY <1>3, <1>5 DEF WorkFresh
  <2> QED
    BY <1>4, <2>1, <2>2, <2>3 DEF WorkFresh
<1>8. PeerFresh'
  BY <1>3, <1>4, <1>5 DEF PeerFresh
<1>9. GenesisStays'
  BY <1>3, <1>4, <1>5 DEF GenesisStays, Grounded
<1> QED
  BY <1>6, <1>7, <1>8, <1>9 DEF Fresh

\* What is known changes only with the chain, the UTXO set, the snapshots of the
\* threads and what the thread with the peers' blocks holds.
LEMMA KnownGrows ==
  ASSUME NEW more,
         \A b \in Ids(chain') : b \in Known \cup more,
         \A b \in utxo' : b \in Known \cup more,
         \A m \in Miner : \A b \in snap'[m] : b \in Known \cup more,
         \A i \in DOMAIN Stack' : \A b \in Ids(Stack'[i].chain) \cup Stack'[i].utxo :
           b \in Known \cup more,
         \A b \in Ids(Chosen') : b \in Known \cup more
  PROVE  \A b \in Known' : b \in Known \/ b \in more
<1> DEFINE A == UNION {snap'[m] : m \in Miner}
<1> DEFINE B == UNION {Ids(Stack'[i].chain) \cup Stack'[i].utxo : i \in DOMAIN Stack'}
<1>1. Known' = Ids(chain') \cup utxo' \cup Ids(Chosen') \cup A \cup B
  BY DEF Known, Ids
<1>2. \A b \in A : b \in Known \cup more
  OBVIOUS
<1>3. \A b \in B : b \in Known \cup more
  OBVIOUS
<1> HIDE DEF A, B
<1> QED
  BY <1>1, <1>2, <1>3

LEMMA KnownHolds ==
  /\ \A b \in Ids(chain) : b \in Known
  /\ \A b \in utxo : b \in Known
  /\ \A m \in Miner : \A b \in snap[m] : b \in Known
  /\ \A i \in DOMAIN Stack : \A b \in Ids(Stack[i].chain) \cup Stack[i].utxo : b \in Known
  /\ \A b \in Ids(Chosen) : b \in Known
<1>1. ASSUME NEW m \in Miner, NEW b \in snap[m]
      PROVE  b \in UNION {snap[n] : n \in Miner}
  BY <1>1
<1>2. ASSUME NEW i \in DOMAIN Stack, NEW b \in Ids(Stack[i].chain) \cup Stack[i].utxo
      PROVE  b \in UNION {Ids(Stack[k].chain) \cup Stack[k].utxo : k \in DOMAIN Stack}
  BY <1>2
<1>3. /\ \A b \in UNION {snap[n] : n \in Miner} : b \in Known
      /\ \A b \in UNION {Ids(Stack[k].chain) \cup Stack[k].utxo : k \in DOMAIN Stack} : b \in Known
      /\ \A b \in Ids(chain) : b \in Known
      /\ \A b \in utxo : b \in Known
      /\ \A b \in Ids(Chosen) : b \in Known
  BY Zenon DEF Known
<1> QED
  BY <1>1, <1>2, <1>3

\* A step of a mining thread: what the thread with the peers' blocks holds stays.
LEMMA KnownByMiners ==
  ASSUME peer' = peer, NEW more,
         \A b \in Ids(chain') : b \in Known \cup more,
         \A b \in utxo' : b \in Known \cup more,
         \A m \in Miner : \A b \in snap'[m] : b \in Known \cup more
  PROVE  \A b \in Known' : b \in Known \/ b \in more
<1>1. Stack' = Stack /\ Chosen' = Chosen
  BY DEF Stack, Chosen, InReorg
<1> QED
  BY <1>1, KnownGrows, KnownHolds

\* The requests leave blocks alone.
LEMMA RequestKeeps ==
  ASSUME ShapeInv, NEW r \in Miner, RequestStep(r), ThreadInv'
  PROVE  MiningTypeOK' /\ Fresh'
<1>1. /\ UNCHANGED <<chain, utxo, flagVars, work, snap, peer, made, failures, historyVars>>
      /\ \/ at' = at /\ several' = several
         \/ /\ Goto(r, "idle") /\ several' = (several \/ Running # {})
            /\ request[r] \in {"spawn", "new"}
  BY RequestMoves
<1>2. Known' = Known
  BY <1>1 DEF Known, Stack, Chosen, InReorg, Ids
<1>3. /\ at' \in [Miner -> {"off", "idle", "tip", "target", "reset", "look", "search",
                      "snapshot", "append", "apply", "save", "restore", "compare", "pop"}]
      /\ several => several'
  BY <1>1 DEF Goto, ShapeInv, MiningTypeOK
<1>4. MiningTypeOK'
  <2>1. PeerTypeOK'
    BY <1>1 DEF PeerTypeOK, ShapeInv, MiningTypeOK
  <2>2. RequestTypeOK'
    BY DEF ThreadInv
  <2> QED
    BY <1>1, <1>3, <2>1, <2>2 DEF ShapeInv, MiningTypeOK, RequestTypeOK, flagVars, historyVars
<1>5. Fresh'
  <2>1. CASE at' = at /\ several' = several
    BY <1>1, <1>2, <2>1 DEF ShapeInv, Fresh, ChainsFresh, WorkFresh, PeerFresh, GenesisStays,
       Grounded, Distinct, Ids, Holding, Appended, Found, Storing, PeerHasBlock, Stack, Chosen,
       InReorg, historyVars
  <2>2. CASE Goto(r, "idle")
    <3>1. /\ UNCHANGED <<chain, made, peer>> /\ (parted => parted')
          /\ (Peer \in during => Peer \in during') /\ "idle" \in Before
          /\ \A n \in Miner \ {r} : work'[n] = work[n]
          /\ \A b \in Known' : b \in Known
      BY <1>1, <1>2 DEF historyVars, Before
    <3> QED
      BY <1>3, <2>2, <3>1, QuietMove
  <2> QED
    BY <1>1, <2>1, <2>2
<1> QED
  BY <1>4, <1>5

Steps == {"off", "idle", "tip", "target", "reset", "look", "search",
          "snapshot", "append", "apply", "save", "restore", "compare", "pop"}

\* What a thread that goes on writes has the types.
LEMMA MoveIsTyped ==
  ASSUME MiningTypeOK, NEW m \in Miner, NEW s \in Steps, Goto(m, s),
         work' \in [Miner -> Blocks], snap' \in [Miner -> SUBSET (0 .. MaxBlocks)],
         chain' \in Seq(Blocks), chain' # <<>> \/ several \/ parted',
         utxo' \subseteq 0 .. MaxBlocks,
         target' \in None .. MaxBlocks, abort' \in BOOLEAN,
         made' \in 0 .. MaxBlocks, failures' \in 0 .. MaxFailures,
         taken' \in [Miner -> {"no", "yes", "raised", "ignored"}],
         missed' \subseteq {"early", "late", "unflagged", "overtaken", "pending", "batch"},
         during' \subseteq Miner \cup {Peer}, parted' \in BOOLEAN,
         UNCHANGED <<requestVars, peer>>
  PROVE  MiningTypeOK'
<1>1. at' \in [Miner -> {"off", "idle", "tip", "target", "reset", "look", "search",
                    "snapshot", "append", "apply", "save", "restore", "compare", "pop"}]
  BY DEF MiningTypeOK, Goto, Steps
<1>2. PeerTypeOK'
  BY DEF MiningTypeOK, PeerTypeOK
<1>3. /\ request' \in [Miner -> {"new", "set", "spawn", "loop", "once", "clear", "join", "done"}]
      /\ mining' \in BOOLEAN /\ gaveUp' \in BOOLEAN /\ raced' \in BOOLEAN
      /\ several' \in BOOLEAN /\ several' = several
  BY DEF MiningTypeOK, requestVars
<1> QED
  BY <1>1, <1>2, <1>3 DEF MiningTypeOK

\* The steps before a proof is found.
LEMMA SearchKeeps ==
  ASSUME ShapeInv, NEW m \in Miner,
         \/ LeaveLoop(m) \/ ReadIndex(m) \/ ReadTip(m) \/ SetTarget(m) \/ ResetAbort(m)
         \/ Look(m) \/ NotFound(m)
  PROVE  MiningTypeOK' /\ Fresh'
<1> USE DEF Goto, flagVars, historyVars
<1>0. Genesis \in Blocks /\ None \in None .. MaxBlocks /\ 0 \in None .. MaxBlocks
  BY MiningAssumption DEF Genesis, Blocks, None
<1>1. PICK s \in Steps \cap Before :
        /\ Goto(m, s) /\ UNCHANGED <<chain, utxo, requestVars, peer, made, failures,
                                     missed, during, parted>>
        /\ \A n \in Miner \ {m} : work'[n] = work[n]
  <2>1. CASE LeaveLoop(m)
    BY <2>1 DEF LeaveLoop, Steps, Before
  <2>2. CASE ReadIndex(m)
    BY <2>2 DEF ReadIndex, Steps, Before, ShapeInv, MiningTypeOK
  <2>3. CASE ReadTip(m)
    BY <2>3 DEF ReadTip, Steps, Before, ShapeInv, MiningTypeOK
  <2>4. CASE SetTarget(m)
    BY <2>4 DEF SetTarget, Steps, Before
  <2>5. CASE ResetAbort(m)
    BY <2>5 DEF ResetAbort, Steps, Before
  <2>6. CASE Look(m)
    BY <2>6 DEF Look, Return, Steps, Before, ShapeInv, MiningTypeOK
  <2>7. CASE NotFound(m)
    BY <2>7 DEF NotFound, Steps, Before
  <2> QED
    BY <2>1, <2>2, <2>3, <2>4, <2>5, <2>6, <2>7
<1>2. /\ work' \in [Miner -> Blocks] /\ snap' \in [Miner -> SUBSET (0 .. MaxBlocks)]
      /\ \A n \in Miner : snap'[n] \subseteq snap[n]
  <2> USE DEF ShapeInv, MiningTypeOK
  <2>1. CASE ReadIndex(m)
    <3>1. Len(chain) \in 0 .. MaxBlocks
      <4>1. chain \in Seq(Blocks) /\ made \in Nat /\ Distinct(chain) /\ Ids(chain) \subseteq 0 .. made
        <5>1. Known \subseteq 0 .. made /\ Distinct(chain)
          BY DEF Fresh, ChainsFresh
        <5>2. \A b \in Ids(chain) : b \in 0 .. made
          BY <5>1, KnownHolds
        <5> QED
          BY <5>1, <5>2
      <4>2. Len(chain) <= made + 1
        BY <4>1, ChainIsShort
      <4>3. made < MaxBlocks
        BY <2>1 DEF ReadIndex
      <4> QED
        BY <4>1, <4>2, <4>3, MiningAssumption
    <3>2. [id |-> None, index |-> Len(chain), prev |-> 0] \in Blocks
      BY <1>0, <3>1 DEF Blocks
    <3> QED
      BY <2>1, <3>2 DEF ReadIndex
  <2>2. CASE ReadTip(m)
    <3>1. TipId(chain) \in None .. MaxBlocks
      <4>1. chain # <<>> => Len(chain) \in 1 .. Len(chain)
        OBVIOUS
      <4>2. chain # <<>> => Last(chain) \in Blocks
        BY <4>1 DEF Last
      <4> QED
        BY <1>0, <4>2 DEF TipId, Blocks
    <3>2. [work[m] EXCEPT !.prev = TipId(chain)] \in Blocks
      BY <3>1 DEF Blocks
    <3> QED
      BY <2>2, <3>2 DEF ReadTip
  <2>3. CASE Look(m)
    BY SMTT(30), <1>0, <2>3 DEF Look, Return
  <2>4. CASE LeaveLoop(m) \/ SetTarget(m) \/ ResetAbort(m) \/ NotFound(m)
    BY <2>4 DEF LeaveLoop, SetTarget, ResetAbort, NotFound
  <2> QED
    BY <2>1, <2>2, <2>3, <2>4
<1>3. Fresh'
  <2>1. /\ UNCHANGED <<chain, made, peer>> /\ (several => several') /\ (parted => parted')
        /\ (Peer \in during => Peer \in during')
    BY <1>1 DEF requestVars
  <2>2. \A b \in Known' : b \in Known
    <3>1. /\ \A b \in Ids(chain') : b \in Known
          /\ \A b \in utxo' : b \in Known
          /\ \A n \in Miner : \A b \in snap'[n] : b \in Known
      BY <1>1, <1>2, KnownHolds
    <3>2. \A b \in Known' : b \in Known \/ b \in {}
      BY <2>1, <3>1, KnownByMiners
    <3> QED
      BY <3>2
  <2> QED
    BY <1>1, <2>1, <2>2, QuietMove
<1>4. /\ target' \in None .. MaxBlocks /\ abort' \in BOOLEAN
      /\ taken' \in [Miner -> {"no", "yes", "raised", "ignored"}]
  <2> USE DEF ShapeInv, MiningTypeOK
  <2>1. CASE SetTarget(m)
    <3>1. work[m].index \in None .. MaxBlocks
      BY MiningAssumption DEF Blocks, None
    <3> QED
      BY <2>1, <3>1 DEF SetTarget
  <2>2. CASE ResetAbort(m)
    BY <2>2 DEF ResetAbort
  <2>3. CASE Look(m)
    BY <1>0, <2>3 DEF Look, Return, ClearFlags
  <2>4. CASE LeaveLoop(m) \/ ReadIndex(m) \/ ReadTip(m) \/ NotFound(m)
    BY <2>4 DEF LeaveLoop, ReadIndex, ReadTip, NotFound
  <2> QED
    BY <2>1, <2>2, <2>3, <2>4
<1>5. MiningTypeOK'
  <2>1. /\ MiningTypeOK /\ Goto(m, s) /\ s \in Steps /\ UNCHANGED <<requestVars, peer>>
    BY <1>1 DEF ShapeInv
  <2>2. /\ chain' \in Seq(Blocks) /\ (chain' # <<>> \/ several \/ parted')
        /\ utxo' \subseteq 0 .. MaxBlocks
        /\ made' \in 0 .. MaxBlocks /\ failures' \in 0 .. MaxFailures
        /\ missed' \subseteq {"early", "late", "unflagged", "overtaken", "pending", "batch"}
        /\ during' \subseteq Miner \cup {Peer} /\ parted' \in BOOLEAN
    BY <1>1, <2>1 DEF MiningTypeOK
  <2> QED
    BY <1>2, <1>4, <2>1, <2>2, MoveIsTyped
<1> QED
  BY <1>3, <1>5

\* The steps that store a found block, but for the append and the pop.
LEMMA StoreKeeps ==
  ASSUME ShapeInv, NEW m \in Miner,
         \/ SnapshotUtxo(m) \/ ApplyOwn(m) \/ SaveOwn(m) \/ SaveFails(m)
         \/ RestoreUtxo(m) \/ CompareTip(m)
  PROVE  MiningTypeOK' /\ Fresh'
<1> USE DEF Goto, flagVars, historyVars
<1>0. Genesis \in Blocks /\ PeerTypeOK /\ during \subseteq Miner \cup {Peer} /\ m # Peer
      /\ m \in Miner \cup {Peer}
  <2>1. Genesis \in Blocks
    BY MiningAssumption DEF Genesis, Blocks, None
  <2>2. PeerTypeOK /\ during \subseteq Miner \cup {Peer}
    BY DEF ShapeInv, MiningTypeOK
  <2>3. m # Peer
    BY DEF Miner, Peer
  <2> QED
    BY <2>1, <2>2, <2>3
<1>1. PICK s \in Steps :
        /\ Goto(m, s) /\ UNCHANGED <<chain, flagVars, requestVars, peer, made, taken, missed>>
        /\ \A n \in Miner \ {m} : work'[n] = work[n]
        /\ \/ s \in Before
           \/ at[m] = "snapshot" /\ s = "append" /\ work' = work
           \/ at[m] \in After /\ s \in After /\ work' = work
  <2>1. CASE SnapshotUtxo(m)
    BY <2>1 DEF SnapshotUtxo, Steps
  <2>2. CASE ApplyOwn(m)
    BY <2>2 DEF ApplyOwn, Steps, After
  <2>3. CASE SaveOwn(m)
    BY <2>3 DEF SaveOwn, Return, Steps, Before, ShapeInv, MiningTypeOK
  <2>4. CASE SaveFails(m)
    BY <2>4 DEF SaveFails, Steps, After
  <2>5. CASE RestoreUtxo(m)
    BY <2>5 DEF RestoreUtxo, Steps, After
  <2>6. CASE CompareTip(m)
    <3>1. CASE chain # <<>> /\ Last(chain) = work[m]
      BY <2>6, <3>1 DEF CompareTip, Steps, After
    <3>2. CASE ~(chain # <<>> /\ Last(chain) = work[m])
      BY <2>6, <3>2 DEF CompareTip, Return, Steps, Before, ShapeInv, MiningTypeOK
    <3> QED
      BY <3>1, <3>2
  <2> QED
    BY <2>1, <2>2, <2>3, <2>4, <2>5, <2>6
<1>2. /\ during' \subseteq Miner \cup {Peer} /\ (Peer \in during => Peer \in during')
      /\ parted' \in BOOLEAN /\ (parted => parted')
  <2> USE DEF ShapeInv, MiningTypeOK
  <2>1. CASE SnapshotUtxo(m) \/ SaveOwn(m) \/ SaveFails(m)
    BY <1>0, <2>1 DEF SnapshotUtxo, SaveOwn, SaveFails
  <2>2. CASE ApplyOwn(m)
    BY <1>0, <2>2, UtxoNoted DEF ApplyOwn, NoteParted
  <2>3. CASE RestoreUtxo(m)
    BY <1>0, <2>3, UtxoNoted DEF RestoreUtxo
  <2>4. CASE CompareTip(m)
    BY <1>0, <2>4 DEF CompareTip
  <2> QED
    BY <2>1, <2>2, <2>3, <2>4
<1>3. /\ work' \in [Miner -> Blocks] /\ snap' \in [Miner -> SUBSET (0 .. MaxBlocks)]
      /\ utxo' \subseteq 0 .. MaxBlocks /\ failures' \in 0 .. MaxFailures
      /\ \A n \in Miner : \A b \in snap'[n] : b \in snap[n] \cup utxo
      /\ \A b \in utxo' : \/ b \in utxo \/ b \in snap[m]
                          \/ m \in Appended /\ b = work[m].id
  <2> USE DEF ShapeInv, MiningTypeOK
  <2>1. CASE SnapshotUtxo(m)
    BY <2>1 DEF SnapshotUtxo
  <2>2. CASE ApplyOwn(m)
    <3>1. m \in Holding /\ m \in Appended
      BY <2>2 DEF ApplyOwn, Holding, Storing, Appended
    <3>2. work[m].id \in 1 .. made
      BY <3>1 DEF Fresh, WorkFresh
    <3>3. work[m].id \in 0 .. MaxBlocks
      BY <3>2, MiningAssumption
    <3> QED
      BY <2>2, <3>1, <3>3 DEF ApplyOwn
  <2>3. CASE SaveOwn(m)
    BY <1>0, <2>3 DEF SaveOwn, Return
  <2>4. CASE SaveFails(m)
    <3>1. failures' \in 0 .. MaxFailures
      BY <2>4, MiningAssumption DEF SaveFails
    <3> QED
      BY <2>4, <3>1 DEF SaveFails
  <2>5. CASE RestoreUtxo(m)
    BY <2>5 DEF RestoreUtxo
  <2>6. CASE CompareTip(m)
    <3>1. CASE chain # <<>> /\ Last(chain) = work[m]
      BY <2>6, <3>1 DEF CompareTip
    <3>2. CASE ~(chain # <<>> /\ Last(chain) = work[m])
      BY <1>0, <2>6, <3>2 DEF CompareTip, Return
    <3> QED
      BY <3>1, <3>2
  <2> QED
    BY <2>1, <2>2, <2>3, <2>4, <2>5, <2>6
<1>4. Fresh'
  <2>1. /\ UNCHANGED <<chain, made, peer>> /\ (several => several')
    BY <1>1 DEF requestVars
  <2>2. \A b \in Known' : b \in Known \/ (m \in Appended /\ b = work[m].id)
    <3> DEFINE more == IF m \in Appended THEN {work[m].id} ELSE {}
    <3>1. /\ \A b \in Ids(chain') : b \in Known \cup more
          /\ \A b \in utxo' : b \in Known \cup more
          /\ \A n \in Miner : \A b \in snap'[n] : b \in Known \cup more
      BY <1>3, <2>1, KnownHolds
    <3> HIDE DEF more
    <3>2. \A b \in Known' : b \in Known \/ b \in more
      BY <2>1, <3>1, KnownByMiners
    <3> QED
      BY <3>2 DEF more
  <2> QED
    BY <1>1, <1>2, <2>1, <2>2, QuietMove
<1>5. MiningTypeOK'
  <2>1. /\ MiningTypeOK /\ Goto(m, s) /\ s \in Steps /\ UNCHANGED <<requestVars, peer>>
    BY <1>1 DEF ShapeInv
  <2>2. /\ chain' \in Seq(Blocks) /\ (chain' # <<>> \/ several \/ parted')
        /\ target' \in None .. MaxBlocks /\ abort' \in BOOLEAN /\ made' \in 0 .. MaxBlocks
        /\ taken' \in [Miner -> {"no", "yes", "raised", "ignored"}]
        /\ missed' \subseteq {"early", "late", "unflagged", "overtaken", "pending", "batch"}
    BY <1>1, <1>2, <2>1 DEF MiningTypeOK
  <2> QED
    BY <1>2, <1>3, <2>1, <2>2, MoveIsTyped
<1> QED
  BY <1>4, <1>5

\* A found block gets the next number.
LEMMA FindKeeps ==
  ASSUME ShapeInv, NEW m \in Miner, Find(m)
  PROVE  MiningTypeOK' /\ Fresh'
<1> USE DEF ShapeInv, MiningTypeOK
<1> DEFINE number == made + 1
<1>1. /\ made' = number /\ number \in 1 .. MaxBlocks /\ made' \in 0 .. MaxBlocks
      /\ number \notin 0 .. made /\ number \in 1 .. made'
      /\ 0 .. made \subseteq 0 .. made' /\ 1 .. made \subseteq 1 .. made'
      /\ 1 .. made \subseteq 0 .. made
  BY MiningAssumption DEF Find
<1> HIDE DEF number
<1>2. work' = [work EXCEPT ![m].id = number] /\ at[m] = "search" /\ Goto(m, "snapshot")
  BY DEF Find, number
<1>3. [work[m] EXCEPT !.id = number] \in Blocks /\ [work[m] EXCEPT !.id = number].id = number
  <2>1. work[m] \in Blocks /\ number \in None .. MaxBlocks
    BY <1>1, MiningAssumption DEF None
  <2> QED
    BY <2>1 DEF Blocks
<1>4. /\ work' \in [Miner -> Blocks] /\ work'[m].id = number
      /\ \A n \in Miner \ {m} : work'[n] = work[n]
  BY <1>2, <1>3
<1>5. \A n \in Miner : at'[n] = IF n = m THEN "snapshot" ELSE at[n]
  BY <1>2 DEF Goto
<1>6. /\ Holding' = Holding \cup {m} /\ m \notin Holding /\ Found' = Found \cup {m}
      /\ Appended' = Appended /\ Found \subseteq Holding
      /\ \A n \in Holding : n \in Miner \ {m}
  BY <1>2, <1>5 DEF Holding, Found, Storing, Appended
<1>7. UNCHANGED <<chain, utxo, requestVars, snap, peer, failures, during, parted>>
  BY DEF Find
<1>8. /\ Stack' = Stack /\ Chosen' = Chosen /\ PeerHasBlock' = PeerHasBlock /\ Known' = Known
      /\ Ids(chain)' = Ids(chain) /\ Distinct(chain)' = Distinct(chain)
      /\ Distinct(Chosen)' = Distinct(Chosen) /\ several' = several
      /\ \A i \in DOMAIN Stack : Distinct(Stack[i].chain)' = Distinct(Stack[i].chain)
  BY <1>7 DEF Stack, Chosen, InReorg, PeerHasBlock, Known, Ids, Distinct, requestVars
<1>9. ChainsFresh'
  BY <1>1, <1>7, <1>8 DEF Fresh, ChainsFresh, Distinct
<1>10. GenesisStays'
  BY <1>6, <1>7, <1>8 DEF Fresh, GenesisStays, Grounded
<1>11. WorkFresh'
  <2>0. WorkFresh /\ Known \subseteq 0 .. made
    BY DEF Fresh, ChainsFresh
  <2>1. \A n \in Holding' : work'[n].id \in 1 .. made'
    BY <1>1, <1>4, <1>6, <2>0 DEF WorkFresh
  <2>2. \A n \in Found' : work'[n].id \notin Known
    BY <1>1, <1>4, <1>6, <2>0 DEF WorkFresh
  <2>3. \A n \in Holding : work'[n].id # number
    BY <1>1, <1>4, <1>6, <2>0 DEF WorkFresh
  <2>4. \A n, l \in Holding' : work'[n].id = work'[l].id => n = l
    BY <1>4, <1>6, <2>0, <2>3 DEF WorkFresh
  <2> QED
    BY <1>8, <2>1, <2>2, <2>4 DEF WorkFresh
<1>12. PeerFresh'
  <2>1. PeerHasBlock => /\ peer.block.id \in 1 .. made'
                        /\ \A n \in Holding' : work'[n].id # peer.block.id
    BY <1>1, <1>4, <1>6 DEF Fresh, PeerFresh
  <2> QED
    BY <1>7, <1>8, <2>1 DEF Fresh, PeerFresh
<1>13. MiningTypeOK'
  <2>1. "snapshot" \in Steps /\ UNCHANGED <<requestVars, peer>> /\ Goto(m, "snapshot")
        /\ MiningTypeOK
    BY <1>2, <1>7 DEF Steps
  <2>2. target' \in None .. MaxBlocks /\ abort' \in BOOLEAN
        /\ taken' \in [Miner -> {"no", "yes", "raised", "ignored"}]
    <3>1. target' = None /\ abort' = FALSE /\ taken' = [taken EXCEPT ![m] = "no"]
      BY DEF Find, ClearFlags
    <3>2. None \in None .. MaxBlocks
      BY MiningAssumption DEF None
    <3> QED
      BY <3>1, <3>2
  <2>3. missed' \subseteq {"early", "late", "unflagged", "overtaken", "pending", "batch"}
    BY DEF Find, Note, Unseen
  <2>4. /\ chain' \in Seq(Blocks) /\ (chain' # <<>> \/ several \/ parted')
        /\ utxo' \subseteq 0 .. MaxBlocks
        /\ snap' \in [Miner -> SUBSET (0 .. MaxBlocks)]
        /\ failures' \in 0 .. MaxFailures /\ during' \subseteq Miner \cup {Peer}
        /\ parted' \in BOOLEAN
    BY <1>7
  <2> HIDE DEF MiningTypeOK
  <2> QED
    BY <1>1, <1>4, <2>1, <2>2, <2>3, <2>4, MoveIsTyped
<1> QED
  BY <1>9, <1>10, <1>11, <1>12, <1>13 DEF Fresh

\* The own block is appended, whatever the tip is by now.
LEMMA AppendOwnKeeps ==
  ASSUME ShapeInv, NEW m \in Miner, AppendOwn(m)
  PROVE  MiningTypeOK' /\ Fresh'
<1> USE DEF ShapeInv, MiningTypeOK
<1>1. /\ at[m] = "append" /\ chain' = Append(chain, work[m]) /\ Goto(m, "apply")
      /\ UNCHANGED <<utxo, flagVars, requestVars, work, snap, peer, made, failures, taken>>
      /\ NoteUtxo(m) /\ NoteParted
  BY DEF AppendOwn
<1>2. \A n \in Miner : at'[n] = IF n = m THEN "apply" ELSE at[n]
  BY <1>1 DEF Goto
<1>3. /\ Holding' = Holding /\ Found' = Found \ {m} /\ Appended' = Appended \cup {m}
      /\ m \in Holding /\ m \in Found /\ Found \subseteq Holding
  BY <1>1, <1>2 DEF Holding, Found, Storing, Appended
<1>4. /\ ChainsFresh /\ WorkFresh /\ PeerFresh /\ GenesisStays
      /\ work[m] \in Blocks /\ work[m].id \in 1 .. made /\ work[m].id \notin Known
      /\ work[m].id \notin Ids(chain) /\ Distinct(chain) /\ work[m].id \in 0 .. made
  <2>1. ChainsFresh /\ WorkFresh /\ PeerFresh /\ GenesisStays
    BY DEF Fresh
  <2>2. work[m].id \in 1 .. made /\ work[m].id \notin Known /\ Distinct(chain)
    BY <1>3, <2>1 DEF WorkFresh, ChainsFresh
  <2>3. work[m].id \notin Ids(chain)
    BY <2>2, KnownHolds
  <2> QED
    BY <2>1, <2>2, <2>3
<1>5. /\ chain' \in Seq(Blocks) /\ chain' # <<>> /\ Len(chain') = Len(chain) + 1
      /\ Ids(chain') = Ids(chain) \cup {work[m].id} /\ Distinct(chain')
  BY <1>1, <1>4, AppendBlock
<1>6. \A b \in Known' : b \in Known \/ b \in {work[m].id}
  <2>1. /\ \A b \in Ids(chain') : b \in Known \cup {work[m].id}
        /\ \A b \in utxo' : b \in Known \cup {work[m].id}
        /\ \A n \in Miner : \A b \in snap'[n] : b \in Known \cup {work[m].id}
    BY <1>1, <1>5, KnownHolds
  <2> QED
    BY <1>1, <2>1, KnownByMiners
<1>7. /\ Stack' = Stack /\ Chosen' = Chosen /\ PeerHasBlock' = PeerHasBlock
      /\ Distinct(Chosen)' = Distinct(Chosen) /\ several' = several /\ peer' = peer
      /\ \A i \in DOMAIN Stack : Distinct(Stack[i].chain)' = Distinct(Stack[i].chain)
      /\ work' = work /\ made' = made
  BY <1>1 DEF Stack, Chosen, InReorg, PeerHasBlock, Distinct, requestVars
<1>8. ChainsFresh'
  BY <1>4, <1>5, <1>6, <1>7 DEF ChainsFresh, Distinct
<1>9. WorkFresh'
  <2>1. \A n \in Found' : work[n].id \notin Known'
    <3> SUFFICES ASSUME NEW n \in Found'
                 PROVE  work[n].id # work[m].id /\ work[n].id \notin Known
      BY <1>6
    <3>1. n \in Found /\ n \in Holding /\ n # m
      BY <1>3
    <3> QED
      BY <1>3, <1>4, <3>1 DEF WorkFresh
  <2> QED
    BY <1>3, <1>4, <1>7, <2>1 DEF WorkFresh
<1>10. PeerFresh'
  <2>1. peer.at = "append" => peer.block.id \notin Ids(chain')
    BY <1>3, <1>4, <1>5 DEF PeerFresh, PeerHasBlock
  <2> QED
    BY <1>3, <1>4, <1>7, <2>1 DEF PeerFresh
<1>11. m # Peer /\ m \in Miner \cup {Peer} /\ PeerTypeOK /\ during \subseteq Miner \cup {Peer}
  BY DEF Miner, Peer
<1>12. /\ during' \subseteq Miner \cup {Peer} /\ (Stack # <<>> => Peer \in during')
       /\ parted' \in BOOLEAN /\ (parted => parted')
  BY <1>1, <1>11, UtxoNoted DEF NoteParted
<1>13. GenesisStays'
  <2> SUFFICES ASSUME ~several, ~parted
               PROVE  /\ Grounded(chain)'
                      /\ Peer \notin during' => \A i \in DOMAIN Stack : Grounded(Stack[i].chain)'
    BY <1>7, <1>12 DEF GenesisStays
  <2>1. Len(chain) \in Nat /\ Len(chain) # 0
    BY <1>4 DEF GenesisStays, Grounded
  <2>2. Grounded(chain)'
    BY <1>5, <2>1 DEF Grounded
  <2> QED
    BY <1>12, <2>2
<1>14. MiningTypeOK'
  <2>1. "apply" \in Steps /\ UNCHANGED <<requestVars, peer>> /\ MiningTypeOK
    BY <1>1 DEF Steps
  <2>2. missed' \subseteq {"early", "late", "unflagged", "overtaken", "pending", "batch"}
    BY DEF AppendOwn, NoteChain, Note, Misses
  <2>3. /\ target' \in None .. MaxBlocks /\ abort' \in BOOLEAN
        /\ taken' \in [Miner -> {"no", "yes", "raised", "ignored"}]
        /\ work' \in [Miner -> Blocks] /\ snap' \in [Miner -> SUBSET (0 .. MaxBlocks)]
        /\ utxo' \subseteq 0 .. MaxBlocks /\ made' \in 0 .. MaxBlocks
        /\ failures' \in 0 .. MaxFailures
    BY <1>1 DEF flagVars
  <2> HIDE DEF MiningTypeOK
  <2> QED
    BY <1>1, <1>5, <1>12, <2>1, <2>2, <2>3, MoveIsTyped
<1> QED
  BY <1>8, <1>9, <1>10, <1>13, <1>14 DEF Fresh

\* The pop takes whatever block is the last by then.
LEMMA PopOwnKeeps ==
  ASSUME ShapeInv, NEW m \in Miner, PopOwn(m)
  PROVE  MiningTypeOK' /\ Fresh'
<1> USE DEF ShapeInv, MiningTypeOK
<1>1. /\ at[m] = "pop" /\ chain' = Front(chain) /\ Return(m)
      /\ UNCHANGED <<utxo, flagVars, requestVars, peer, made, failures, taken>>
      /\ during' = (during \cup Holders) \ {m} /\ (parted => parted') /\ parted' \in BOOLEAN
  BY DEF PopOwn
<1>2. PICK s \in {"idle", "off"} : \A n \in Miner : at'[n] = IF n = m THEN s ELSE at[n]
  BY <1>1 DEF Return, Goto
<1>3. /\ Holding' = Holding \ {m} /\ Found' = Found /\ Appended' = Appended \ {m}
      /\ m \in Appended /\ Found \subseteq Holding /\ m \notin Found
      /\ Appended \subseteq Running
  BY <1>1, <1>2 DEF Holding, Found, Storing, Appended, Running
<1>4. ChainsFresh /\ WorkFresh /\ PeerFresh /\ GenesisStays
  BY DEF Fresh
<1>5. /\ chain' \in Seq(Blocks) /\ (Len(chain) >= 2 => chain' # <<>>)
      /\ Ids(chain') \subseteq Ids(chain) /\ Distinct(chain')
  BY <1>1, <1>4, PopBlock DEF ChainsFresh
<1>6. Genesis \in Blocks
  BY MiningAssumption DEF Genesis, Blocks, None
<1>7. /\ work' \in [Miner -> Blocks] /\ snap' \in [Miner -> SUBSET (0 .. MaxBlocks)]
      /\ \A n \in Miner \ {m} : work'[n] = work[n]
      /\ \A n \in Miner : snap'[n] \subseteq snap[n]
  BY <1>1, <1>6 DEF Return
<1>8. \A b \in Known' : b \in Known
  <2>1. /\ \A b \in Ids(chain') : b \in Known
        /\ \A b \in utxo' : b \in Known
        /\ \A n \in Miner : \A b \in snap'[n] : b \in Known
    BY <1>1, <1>5, <1>7, KnownHolds
  <2>2. \A b \in Known' : b \in Known \/ b \in {}
    BY <1>1, <2>1, KnownByMiners
  <2> QED
    BY <2>2
<1>9. /\ Stack' = Stack /\ Chosen' = Chosen /\ PeerHasBlock' = PeerHasBlock
      /\ Distinct(Chosen)' = Distinct(Chosen) /\ several' = several /\ peer' = peer
      /\ \A i \in DOMAIN Stack : Distinct(Stack[i].chain)' = Distinct(Stack[i].chain)
      /\ made' = made
  BY <1>1 DEF Stack, Chosen, InReorg, PeerHasBlock, Distinct, requestVars
<1>10. ChainsFresh'
  BY <1>4, <1>5, <1>8, <1>9 DEF ChainsFresh, Distinct
<1>11. /\ \A n \in Holding' : n \in Holding /\ work'[n] = work[n]
       /\ \A n \in Found' : n \in Found /\ work'[n] = work[n]
  BY <1>3, <1>7 DEF Holding, Found, Storing
<1>12. WorkFresh'
  BY <1>4, <1>8, <1>9, <1>11 DEF WorkFresh
<1>13. PeerFresh'
  BY <1>4, <1>5, <1>9, <1>11 DEF PeerFresh
<1>14. m # Peer /\ during' \subseteq Miner \cup {Peer} /\ (Stack # <<>> => Peer \in during')
  <2>1. m # Peer /\ PeerTypeOK /\ during \subseteq Miner \cup {Peer}
    BY DEF Miner, Peer
  <2> QED
    BY <1>1, <2>1, PeerHolds
<1>15. GenesisStays' /\ (chain' # <<>> \/ several \/ parted')
  <2> SUFFICES ASSUME ~several, ~parted
               PROVE  /\ Grounded(chain)'
                      /\ Peer \notin during' => \A i \in DOMAIN Stack : Grounded(Stack[i].chain)'
    BY <1>1, <1>9 DEF GenesisStays, Grounded
  <2>1. Len(chain) >= 2
    BY <1>3, <1>4 DEF GenesisStays, Grounded
  <2>2. Appended' = {}
    BY <1>3 DEF ThreadInv, OneThread
  <2>3. Grounded(chain)'
    BY <1>5, <2>1, <2>2 DEF Grounded
  <2> QED
    BY <1>14, <2>3
<1>16. MiningTypeOK'
  <2>1. UNCHANGED <<requestVars, peer>> /\ MiningTypeOK
    BY <1>1
  <2>2. missed' \subseteq {"early", "late", "unflagged", "overtaken", "pending", "batch"}
    BY DEF PopOwn, NoteChain, Note, Misses
  <2>3. /\ target' \in None .. MaxBlocks /\ abort' \in BOOLEAN
        /\ taken' \in [Miner -> {"no", "yes", "raised", "ignored"}]
        /\ utxo' \subseteq 0 .. MaxBlocks /\ made' \in 0 .. MaxBlocks
        /\ failures' \in 0 .. MaxFailures
    BY <1>1 DEF flagVars
  <2>4. PICK step \in Steps : Goto(m, step)
    BY <1>1 DEF Return, Steps
  <2> HIDE DEF MiningTypeOK
  <2> QED
    BY <1>1, <1>5, <1>7, <1>14, <1>15, <2>1, <2>2, <2>3, <2>4, MoveIsTyped
<1> QED
  BY <1>10, <1>12, <1>13, <1>15, <1>16 DEF Fresh

\* What the thread with the peers' blocks writes has the types.
LEMMA PeerMoveIsTyped ==
  ASSUME MiningTypeOK, PeerTypeOK',
         chain' \in Seq(Blocks), chain' # <<>> \/ several \/ parted',
         utxo' \subseteq 0 .. MaxBlocks, abort' \in BOOLEAN, made' \in 0 .. MaxBlocks,
         failures' \in 0 .. MaxFailures,
         taken' \in [Miner -> {"no", "yes", "raised", "ignored"}],
         missed' \subseteq {"early", "late", "unflagged", "overtaken", "pending", "batch"},
         during' \subseteq Miner \cup {Peer}, parted' \in BOOLEAN,
         UNCHANGED <<target, requestVars, at, work, snap>>
  PROVE  MiningTypeOK'
BY DEF MiningTypeOK, requestVars

\* What it does to the numbers of blocks.
LEMMA PeerMoveIsFresh ==
  ASSUME ShapeInv, UNCHANGED <<requestVars, at, work, snap>>, made' \in Nat, made <= made',
         NEW more, \A b \in more : b \in 0 .. made' /\ \A m \in Found : work[m].id # b,
         \A b \in Known' : b \in Known \/ b \in more,
         Distinct(chain'), Distinct(Chosen'), \A i \in DOMAIN Stack' : Distinct(Stack'[i].chain),
         Chosen' # <<>> => Len(Chosen') >= 2,
         peer'.at \in {"copy", "clear", "rebuild", "replace"} => Chosen' # <<>>,
         PeerFresh', GenesisStays'
  PROVE  Fresh'
<1>1. /\ 0 .. made \subseteq 0 .. made' /\ 1 .. made \subseteq 1 .. made'
  BY DEF ShapeInv, MiningTypeOK
<1>2. Holding' = Holding /\ Found' = Found
  BY DEF Holding, Found, Storing
<1>3. ChainsFresh'
  <2>1. Known' \subseteq 0 .. made'
    BY <1>1 DEF ShapeInv, Fresh, ChainsFresh
  <2>2. Distinct(chain)' /\ Distinct(Chosen)' /\ \A i \in DOMAIN Stack' : Distinct(Stack[i].chain)'
    BY DEF Distinct
  <2> QED
    BY <2>1, <2>2 DEF ChainsFresh, Distinct
<1>4. WorkFresh'
  BY <1>1, <1>2 DEF ShapeInv, Fresh, WorkFresh
<1> QED
  BY <1>3, <1>4 DEF Fresh

\* The steps of a reorganisation.
LEMMA ReorgMove ==
  ASSUME ShapeInv, UNCHANGED <<requestVars, flagVars, at, work, snap, taken>>,
         made' \in 0 .. MaxBlocks, made <= made', failures' \in 0 .. MaxFailures,
         PeerTypeOK', ~PeerHasBlock',
         chain' \in Seq(Blocks), Distinct(chain'), Distinct(Chosen'),
         \A i \in DOMAIN Stack' : Distinct(Stack'[i].chain),
         Chosen' # <<>> => Len(Chosen') >= 2,
         peer'.at \in {"copy", "clear", "rebuild", "replace"} => Chosen' # <<>>,
         \A b \in Known' : b \in Known \/ b \in made + 1 .. made',
         missed' \subseteq {"early", "late", "unflagged", "overtaken", "pending", "batch"},
         during' \subseteq Miner \cup {Peer}, parted' \in BOOLEAN, GenesisStays'
  PROVE  MiningTypeOK' /\ Fresh'
<1> DEFINE more == made + 1 .. made'
<1>1. /\ made \in Nat /\ made' \in Nat
      /\ \A b \in more : b \in 0 .. made'
      /\ \A b \in 1 .. made : b \notin more
      /\ \A b \in 0 .. made : b \in 0 .. made'
      /\ \A b \in 0 .. made' : b \in 0 .. MaxBlocks
  BY MiningAssumption DEF ShapeInv, MiningTypeOK
<1>2. \A b \in more : \A m \in Found : work[m].id # b
  BY <1>1 DEF ShapeInv, Fresh, WorkFresh, Holding
<1>3. PeerFresh'
  BY DEF PeerFresh, PeerHasBlock
<1>4. Fresh'
  <2> HIDE DEF more
  <2>1. \A b \in Known' : b \in Known \/ b \in more
    BY DEF more
  <2> QED
    BY <1>1, <1>2, <1>3, <2>1, PeerMoveIsFresh
<1>5. utxo' \subseteq 0 .. MaxBlocks
  <2>1. \A b \in utxo' : b \in Known'
    BY Zenon DEF Known
  <2> QED
    BY <1>1, <1>4, <2>1 DEF Fresh, ChainsFresh
<1>6. chain' # <<>> \/ several \/ parted'
  BY DEF GenesisStays, Grounded, requestVars
<1>7. abort' \in BOOLEAN /\ taken' \in [Miner -> {"no", "yes", "raised", "ignored"}]
      /\ MiningTypeOK /\ target' = target
  BY DEF ShapeInv, MiningTypeOK, flagVars
<1>8. MiningTypeOK'
  BY <1>5, <1>6, <1>7, PeerMoveIsTyped
<1> QED
  BY <1>4, <1>8

\* The genesis block stays while the chain does, and the snapshots are fewer.
LEMMA GroundStays ==
  ASSUME ShapeInv, UNCHANGED <<chain, requestVars, at>>, parted => parted',
         Peer \in during => Peer \in during',
         \A i \in DOMAIN Stack' : i \in DOMAIN Stack /\ Stack'[i].chain = Stack[i].chain
  PROVE  GenesisStays'
<1>1. Appended' = Appended /\ several' = several
  BY DEF Appended, Storing, requestVars
<1> QED
  BY <1>1 DEF ShapeInv, Fresh, GenesisStays, Grounded

\* A peer's block gets the next number and the place after the tip.
LEMMA NewPeerBlock ==
  ASSUME ShapeInv, made < MaxBlocks, NEW orphan \in BOOLEAN, made' = made + 1,
         peer' = [at |-> "append", block |-> PeerBlock(made + 1, chain), orphan |-> orphan],
         UNCHANGED <<chain, utxo, flagVars, requestVars, at, work, snap, failures, historyVars>>
  PROVE  MiningTypeOK' /\ Fresh'
<1>1. /\ made' \in 0 .. MaxBlocks /\ made + 1 \in 1 .. made' /\ made + 1 \notin 0 .. made
      /\ 0 .. made \subseteq 0 .. made' /\ 1 .. made \subseteq 1 .. made'
      /\ 1 .. made \subseteq 0 .. made /\ made + 1 \in None .. MaxBlocks /\ made \in Nat
      /\ made' \in Nat /\ made <= made'
  BY MiningAssumption DEF ShapeInv, MiningTypeOK, None
<1>2. /\ chain \in Seq(Blocks) /\ Distinct(chain) /\ Known \subseteq 0 .. made
      /\ \A b \in Ids(chain) : b \in 0 .. made
  BY KnownHolds DEF ShapeInv, MiningTypeOK, Fresh, ChainsFresh
<1>3. PeerBlock(made + 1, chain) \in Blocks /\ PeerBlock(made + 1, chain).id = made + 1
  <2>1. Len(chain) \in Nat
    BY <1>2
  <2>2. Len(chain) \in 0 .. MaxBlocks
    <3>1. Len(chain) <= made + 1
      BY <1>1, <1>2, <2>1, ChainIsShort
    <3> QED
      BY <1>1, <2>1, <3>1, MiningAssumption
  <2>3. TipId(chain) \in None .. MaxBlocks
    <3>1. chain # <<>> => Len(chain) \in 1 .. Len(chain)
      BY <2>1
    <3>2. chain # <<>> => Last(chain) \in Blocks
      BY <1>2, <3>1 DEF Last
    <3> QED
      BY <3>2, MiningAssumption DEF TipId, Blocks, None
  <2> QED
    BY <1>1, <2>2, <2>3 DEF PeerBlock, Blocks
<1>4. MiningTypeOK'
  <2>1. PeerTypeOK'
    BY <1>3 DEF PeerTypeOK
  <2>2. /\ MiningTypeOK /\ chain' \in Seq(Blocks) /\ (chain' # <<>> \/ several \/ parted')
        /\ utxo' \subseteq 0 .. MaxBlocks /\ abort' \in BOOLEAN
        /\ failures' \in 0 .. MaxFailures
        /\ taken' \in [Miner -> {"no", "yes", "raised", "ignored"}]
        /\ missed' \subseteq {"early", "late", "unflagged", "overtaken", "pending", "batch"}
        /\ during' \subseteq Miner \cup {Peer} /\ parted' \in BOOLEAN
        /\ UNCHANGED <<target, requestVars, at, work, snap>>
    BY DEF ShapeInv, MiningTypeOK, flagVars, historyVars
  <2> QED
    BY <1>1, <2>1, <2>2, PeerMoveIsTyped
<1>5. peer'.at = "append" /\ peer'.block.id = made + 1 /\ Stack' = <<>> /\ Chosen' = <<>>
  BY <1>3 DEF Stack, Chosen, InReorg, ReorgSteps
<1>6. PeerFresh'
  <2>1. made + 1 \notin Ids(chain) /\ \A m \in Holding : work[m].id # made + 1
    BY <1>1, <1>2 DEF ShapeInv, Fresh, WorkFresh
  <2>2. Holding' = Holding /\ work' = work /\ Ids(chain)' = Ids(chain)
    BY DEF Holding, Found, Storing, Ids
  <2> QED
    BY <1>1, <1>5, <2>1, <2>2 DEF PeerFresh
<1>7. \A b \in Known' : b \in Known \/ b \in {}
  <2>1. /\ \A b \in Ids(chain') : b \in Known \cup {}
        /\ \A b \in utxo' : b \in Known \cup {}
        /\ \A n \in Miner : \A b \in snap'[n] : b \in Known \cup {}
    BY KnownHolds
  <2>2. /\ \A i \in DOMAIN Stack' : \A b \in Ids(Stack'[i].chain) \cup Stack'[i].utxo : b \in Known \cup {}
        /\ \A b \in Ids(Chosen') : b \in Known \cup {}
    BY <1>5 DEF Ids
  <2> QED
    BY <2>1, <2>2, KnownGrows
<1>8. GenesisStays'
  BY <1>5, GroundStays DEF historyVars
<1>9. Fresh'
  <2>1. /\ Distinct(chain') /\ Distinct(Chosen') /\ \A i \in DOMAIN Stack' : Distinct(Stack'[i].chain)
        /\ ~(Chosen' # <<>>) /\ peer'.at \notin {"copy", "clear", "rebuild", "replace"}
    BY <1>2, <1>5 DEF Distinct
  <2> DEFINE more == {}
  <2>2. \A b \in more : b \in 0 .. made' /\ \A m \in Found : work[m].id # b
    OBVIOUS
  <2>3. \A b \in Known' : b \in Known \/ b \in more
    BY <1>7
  <2> HIDE DEF more
  <2> QED
    BY <1>1, <1>6, <1>8, <2>1, <2>2, <2>3, PeerMoveIsFresh
<1> QED
  BY <1>4, <1>9

\* What is done with the peer's block once it is in the chain.
LEMMA PeerBlockKeeps ==
  ASSUME ShapeInv, TestTarget \/ RaiseAbort \/ ApplyPeer \/ NoOrphan
  PROVE  MiningTypeOK' /\ Fresh'
<1>0. /\ PeerTypeOK /\ MiningTypeOK /\ during \subseteq Miner \cup {Peer}
      /\ Peer \in Miner \cup {Peer} /\ ChainsFresh /\ WorkFresh /\ PeerFresh
  BY DEF ShapeInv, MiningTypeOK, Fresh
<1>1. /\ UNCHANGED <<chain, target, requestVars, at, work, snap, made, failures, missed, parted>>
      /\ PeerTypeOK'
      /\ (PeerHasBlock' => PeerHasBlock /\ peer'.block = peer.block)
      /\ peer'.at # "append" /\ Stack' = <<>> /\ Chosen' = <<>>
      /\ peer'.at \notin {"copy", "clear", "rebuild", "replace"}
  <2>1. CASE TestTarget
    <3>1. PeerHasBlock
      BY <2>1 DEF TestTarget, PeerHasBlock
    <3>2. /\ peer'.at \in {"raise", "apply"} /\ peer'.block = peer.block
          /\ peer' \in [at : {"append", "test", "raise", "apply"}, block : Blocks, orphan : BOOLEAN]
      BY <1>0, <2>1, <3>1, PeerForms DEF TestTarget
    <3> QED
      BY <2>1, <3>1, <3>2 DEF TestTarget, PeerTypeOK, InReorg, ReorgSteps, Stack, Chosen, flagVars, historyVars
  <2>2. CASE RaiseAbort
    <3>1. PeerHasBlock
      BY <2>2 DEF RaiseAbort, PeerHasBlock
    <3>2. /\ peer'.at = "apply" /\ peer'.block = peer.block
          /\ peer' \in [at : {"append", "test", "raise", "apply"}, block : Blocks, orphan : BOOLEAN]
      BY <1>0, <2>2, <3>1, PeerForms DEF RaiseAbort
    <3> QED
      BY <2>2, <3>1, <3>2 DEF RaiseAbort, PeerTypeOK, InReorg, ReorgSteps, Stack, Chosen
  <2>3. CASE ApplyPeer
    BY <2>3 DEF ApplyPeer, PeerTypeOK, InReorg, ReorgSteps, Stack, Chosen, PeerHasBlock, flagVars
  <2>4. CASE NoOrphan
    BY <2>4 DEF NoOrphan, PeerTypeOK, InReorg, ReorgSteps, Stack, Chosen, PeerHasBlock, PeerIdle,
       flagVars, historyVars
  <2> QED
    BY <2>1, <2>2, <2>3, <2>4
<1>2. /\ utxo' \subseteq 0 .. MaxBlocks /\ abort' \in BOOLEAN
      /\ taken' \in [Miner -> {"no", "yes", "raised", "ignored"}]
      /\ during' \subseteq Miner \cup {Peer} /\ (Peer \in during => Peer \in during')
      /\ \A b \in utxo' : b \in utxo \/ (PeerHasBlock /\ b = peer.block.id)
  <2> USE <1>0 DEF MiningTypeOK
  <2>1. CASE TestTarget \/ NoOrphan
    BY <2>1 DEF TestTarget, NoOrphan, flagVars, historyVars
  <2>2. CASE RaiseAbort
    BY <2>2 DEF RaiseAbort
  <2>3. CASE ApplyPeer
    <3>1. PeerHasBlock
      BY <2>3 DEF ApplyPeer, PeerHasBlock
    <3>2. peer.block.id \in 0 .. MaxBlocks
      <4>1. peer.block.id \in 1 .. made
        BY <3>1 DEF PeerFresh
      <4> QED
        BY <4>1, MiningAssumption
    <3>3. during' \subseteq Miner \cup {Peer} /\ (Peer \in during => Peer \in during')
      BY <1>0, <2>3, UtxoNoted DEF ApplyPeer
    <3> QED
      BY <2>3, <3>1, <3>2, <3>3 DEF ApplyPeer, flagVars
  <2> QED
    BY <2>1, <2>2, <2>3
<1>3. MiningTypeOK'
  <2>1. /\ chain' \in Seq(Blocks) /\ (chain' # <<>> \/ several \/ parted') /\ made' \in 0 .. MaxBlocks
        /\ missed' \subseteq {"early", "late", "unflagged", "overtaken", "pending", "batch"}
        /\ failures' \in 0 .. MaxFailures /\ parted' \in BOOLEAN
    BY <1>0, <1>1 DEF MiningTypeOK
  <2> QED
    BY <1>0, <1>1, <1>2, <2>1, PeerMoveIsTyped
<1> DEFINE more == IF PeerHasBlock THEN {peer.block.id} ELSE {}
<1>4. \A b \in more : b \in 0 .. made /\ \A m \in Found : work[m].id # b
  <2>1. \A x \in 1 .. made : x \in 0 .. made
    BY <1>0 DEF MiningTypeOK
  <2> QED
    BY <1>0, <2>1 DEF PeerFresh, Holding
<1>5. \A b \in Known' : b \in Known \/ b \in more
  <2>1. /\ \A b \in Ids(chain') : b \in Known \cup more
        /\ \A b \in utxo' : b \in Known \cup more
        /\ \A n \in Miner : \A b \in snap'[n] : b \in Known \cup more
    BY <1>1, <1>2, KnownHolds
  <2>2. /\ \A i \in DOMAIN Stack' : \A b \in Ids(Stack'[i].chain) \cup Stack'[i].utxo : b \in Known \cup more
        /\ \A b \in Ids(Chosen') : b \in Known \cup more
    BY <1>1 DEF Ids
  <2> HIDE DEF more
  <2> QED
    BY <2>1, <2>2, KnownGrows
<1>6. PeerFresh'
  <2>1. Holding' = Holding /\ work' = work /\ made' = made
    BY <1>1 DEF Holding, Found, Storing
  <2> QED
    BY <1>0, <1>1, <2>1 DEF PeerFresh
<1>7. GenesisStays'
  BY <1>1, <1>2, GroundStays
<1>8. Fresh'
  <2>1. /\ Distinct(chain') /\ Distinct(Chosen') /\ \A i \in DOMAIN Stack' : Distinct(Stack'[i].chain)
        /\ ~(Chosen' # <<>>)
    BY <1>0, <1>1 DEF Distinct, ChainsFresh
  <2>2. made' \in Nat /\ made <= made' /\ made' = made
    BY <1>0, <1>1 DEF MiningTypeOK
  <2> HIDE DEF more
  <2> QED
    BY <1>1, <1>4, <1>5, <1>6, <1>7, <2>1, <2>2, PeerMoveIsFresh
<1> QED
  BY <1>3, <1>8

\* The peer's block is appended, whatever the tip is by now.
LEMMA AppendPeerKeeps ==
  ASSUME ShapeInv, AppendPeer
  PROVE  MiningTypeOK' /\ Fresh'
<1>0. /\ PeerTypeOK /\ MiningTypeOK /\ ChainsFresh /\ WorkFresh /\ PeerFresh /\ GenesisStays
      /\ during \subseteq Miner \cup {Peer} /\ Peer \in Miner \cup {Peer}
  BY DEF ShapeInv, MiningTypeOK, Fresh
<1>1. /\ chain' = Append(chain, peer.block) /\ NoteUtxo(Peer) /\ peer.at = "append"
      /\ UNCHANGED <<utxo, flagVars, requestVars, at, work, snap, made, failures, parted>>
  BY DEF AppendPeer
<1>2. /\ PeerHasBlock /\ peer.block \in Blocks /\ peer.block.id \in 1 .. made
      /\ peer.block.id \notin Ids(chain) /\ \A m \in Holding : work[m].id # peer.block.id
  BY <1>0, <1>1, PeerForms DEF PeerFresh, PeerHasBlock
<1>3. /\ PeerTypeOK' /\ PeerHasBlock' /\ peer'.block = peer.block /\ peer'.at # "append"
      /\ Stack' = <<>> /\ Chosen' = <<>> /\ peer'.at \notin {"copy", "clear", "rebuild", "replace"}
  <2>1. peer' = [peer EXCEPT !.at = IF peer.orphan THEN "apply" ELSE "test"]
    BY DEF AppendPeer
  <2>2. /\ peer'.at \in {"apply", "test"} /\ peer'.block = peer.block
        /\ peer' \in [at : {"append", "test", "raise", "apply"}, block : Blocks, orphan : BOOLEAN]
    BY <1>0, <1>2, <2>1, PeerForms
  <2> QED
    BY <2>2 DEF PeerTypeOK, PeerHasBlock, InReorg, ReorgSteps, Stack, Chosen
<1>4. /\ chain' \in Seq(Blocks) /\ chain' # <<>> /\ Len(chain') = Len(chain) + 1
      /\ Ids(chain') = Ids(chain) \cup {peer.block.id} /\ Distinct(chain')
  <2>1. chain \in Seq(Blocks) /\ Distinct(chain)
    BY <1>0 DEF MiningTypeOK, ChainsFresh
  <2> QED
    BY <1>1, <1>2, <2>1, AppendBlock
<1>5. MiningTypeOK'
  <2>1. missed' \subseteq {"early", "late", "unflagged", "overtaken", "pending", "batch"}
    BY <1>0 DEF AppendPeer, NoteChain, Note, Misses, MiningTypeOK
  <2>2. taken' \in [Miner -> {"no", "yes", "raised", "ignored"}]
    BY <1>0 DEF AppendPeer, MiningTypeOK
  <2>3. during' \subseteq Miner \cup {Peer}
    BY <1>0, <1>1, UtxoNoted
  <2>4. /\ utxo' \subseteq 0 .. MaxBlocks /\ abort' \in BOOLEAN /\ made' \in 0 .. MaxBlocks
        /\ failures' \in 0 .. MaxFailures /\ parted' \in BOOLEAN
        /\ UNCHANGED <<target, requestVars, at, work, snap>>
    BY <1>0, <1>1 DEF MiningTypeOK, flagVars
  <2> QED
    BY <1>0, <1>3, <1>4, <2>1, <2>2, <2>3, <2>4, PeerMoveIsTyped
<1> DEFINE more == {peer.block.id}
<1>6. \A b \in more : b \in 0 .. made /\ \A m \in Found : work[m].id # b
  <2>1. \A x \in 1 .. made : x \in 0 .. made
    BY <1>0 DEF MiningTypeOK
  <2> QED
    BY <1>2, <2>1 DEF Holding
<1>7. \A b \in Known' : b \in Known \/ b \in more
  <2>1. /\ \A b \in Ids(chain') : b \in Known \cup more
        /\ \A b \in utxo' : b \in Known \cup more
        /\ \A n \in Miner : \A b \in snap'[n] : b \in Known \cup more
    BY <1>1, <1>4, KnownHolds
  <2>2. /\ \A i \in DOMAIN Stack' : \A b \in Ids(Stack'[i].chain) \cup Stack'[i].utxo : b \in Known \cup more
        /\ \A b \in Ids(Chosen') : b \in Known \cup more
    BY <1>3 DEF Ids
  <2> HIDE DEF more
  <2> QED
    BY <2>1, <2>2, KnownGrows
<1>8. PeerFresh'
  <2>1. Holding' = Holding /\ work' = work /\ made' = made
    BY <1>1 DEF Holding, Found, Storing
  <2> QED
    BY <1>2, <1>3, <2>1 DEF PeerFresh
<1>9. GenesisStays'
  <2>1. Appended' = Appended /\ several' = several /\ parted' = parted
    BY <1>1 DEF Appended, Storing, requestVars
  <2>2. chain \in Seq(Blocks)
    BY <1>0 DEF MiningTypeOK
  <2>3. Grounded(chain) => Grounded(chain)'
    BY <1>4, <2>1, <2>2 DEF Grounded
  <2> QED
    BY <1>0, <1>3, <2>1, <2>3 DEF GenesisStays
<1>10. Fresh'
  <2>1. /\ Distinct(chain') /\ Distinct(Chosen') /\ \A i \in DOMAIN Stack' : Distinct(Stack'[i].chain)
        /\ ~(Chosen' # <<>>)
    BY <1>3, <1>4 DEF Distinct
  <2>2. made' \in Nat /\ made <= made' /\ made' = made
    BY <1>0, <1>1 DEF MiningTypeOK
  <2> HIDE DEF more
  <2> QED
    BY <1>1, <1>3, <1>6, <1>7, <1>8, <1>9, <2>1, <2>2, PeerMoveIsFresh
<1> QED
  BY <1>5, <1>10

\* What the thread holds after it took a snapshot or decided.
LEMMA DecideForms ==
  ASSUME ShapeInv,
         ReceiveFork \/ CopyChain \/ CopyUtxo \/ SaveReorg \/ ReorgFails \/ KeepFork \/ UndoFork
  PROVE  /\ PeerTypeOK' /\ ~PeerHasBlock'
         /\ Chosen' = Chosen \/ Chosen' = <<>>
         /\ peer'.at \in {"copy", "clear", "rebuild", "replace"} => Chosen' # <<>>
         /\ \A i \in DOMAIN Stack' :
              \/ /\ i \in DOMAIN Stack /\ Stack'[i].chain = Stack[i].chain
                 /\ Stack'[i].utxo = Stack[i].utxo \/ Stack'[i].utxo = utxo
              \/ Stack'[i].chain = chain /\ Stack'[i].utxo = {}
         /\ during' = during \/ (during' = during \ {Peer} /\ Stack = <<>>)
<1>0. /\ PeerTypeOK /\ chain \in Seq(Blocks) /\ Stack \in Seq(Saved) /\ Chosen \in Seq(Blocks)
      /\ utxo \subseteq 0 .. MaxBlocks /\ ChainsFresh
  BY PeerForms DEF ShapeInv, MiningTypeOK, Fresh
<1>1. CASE ReceiveFork
  <2>1. peer' = Reorg("snapshot", PushChain(<<>>), <<>>) /\ peer = PeerIdle
        /\ during' = during \ {Peer}
    BY <1>1 DEF ReceiveFork
  <2>2. Stack = <<>> /\ Chosen = <<>>
    BY <2>1 DEF PeerIdle, Stack, Chosen, InReorg, ReorgSteps
  <2>3. <<>> \in Seq(Saved) /\ <<>> \in Seq(Blocks) /\ "snapshot" \in ReorgSteps
    BY DEF ReorgSteps
  <2>4. /\ PushChain(<<>>) \in Seq(Saved) /\ PushChain(<<>>) # <<>>
        /\ \A i \in DOMAIN PushChain(<<>>) :
             PushChain(<<>>)[i].chain = chain /\ PushChain(<<>>)[i].utxo = {}
    <3> DEFINE none == <<>>
    <3>1. none \in Seq(Saved) /\ DOMAIN none = {}
      OBVIOUS
    <3> HIDE DEF none
    <3>2. /\ DOMAIN PushChain(none) = DOMAIN none \cup {Len(none) + 1}
          /\ PushChain(none)[Len(none) + 1].chain = chain
          /\ PushChain(none)[Len(none) + 1].utxo = {}
          /\ PushChain(none) \in Seq(Saved) /\ PushChain(none) # <<>>
      BY <1>0, <3>1, ChainPushed
    <3>3. \A i \in DOMAIN PushChain(none) :
            PushChain(none)[i].chain = chain /\ PushChain(none)[i].utxo = {}
      BY <3>1, <3>2
    <3> QED
      BY <3>2, <3>3 DEF none
  <2>5. /\ PeerTypeOK' /\ InReorg' /\ peer'.at = "snapshot" /\ Stack' = PushChain(<<>>)
        /\ Chosen' = <<>>
    BY <2>1, <2>3, <2>4, PeerTakes
  <2> QED
    BY <2>1, <2>2, <2>4, <2>5 DEF PeerHasBlock
<1>2. CASE CopyChain
  <2>0. InReorg /\ peer.at = "copy"
    BY <1>2 DEF CopyChain, InReorg, ReorgSteps
  <2>1. /\ peer' = Reorg("snapshot", PushChain(Stack), Chosen)
        /\ during' = IF Stack = <<>> THEN during \ {Peer} ELSE during
    BY <1>0, <1>2, <2>0, PeerForms DEF CopyChain
  <2>2. "snapshot" \in ReorgSteps
    BY DEF ReorgSteps
  <2>3. /\ PushChain(Stack) \in Seq(Saved) /\ PushChain(Stack) # <<>>
        /\ \A i \in DOMAIN PushChain(Stack) :
             \/ i \in DOMAIN Stack /\ PushChain(Stack)[i] = Stack[i]
             \/ PushChain(Stack)[i].chain = chain /\ PushChain(Stack)[i].utxo = {}
    <3>1. /\ DOMAIN PushChain(Stack) = DOMAIN Stack \cup {Len(Stack) + 1}
          /\ \A i \in DOMAIN Stack : PushChain(Stack)[i] = Stack[i]
          /\ PushChain(Stack)[Len(Stack) + 1].chain = chain
          /\ PushChain(Stack)[Len(Stack) + 1].utxo = {}
          /\ PushChain(Stack) \in Seq(Saved) /\ PushChain(Stack) # <<>>
      BY <1>0, ChainPushed
    <3> QED
      BY <3>1
  <2>4. /\ PeerTypeOK' /\ InReorg' /\ peer'.at = "snapshot" /\ Stack' = PushChain(Stack)
        /\ Chosen' = Chosen
    BY <1>0, <2>1, <2>2, <2>3, PeerTakes
  <2> QED
    BY <2>1, <2>3, <2>4 DEF PeerHasBlock
<1>3. CASE CopyUtxo
  <2>0. InReorg /\ peer.at = "snapshot" /\ Stack # <<>>
    BY <1>0, <1>3, PeerForms DEF CopyUtxo, InReorg, ReorgSteps
  <2>1. /\ peer' = Reorg(IF Chosen = <<>> THEN "fork" ELSE "clear", PushUtxo(Stack), Chosen)
        /\ during' = during
    BY <1>0, <1>3, <2>0, PeerForms DEF CopyUtxo, historyVars
  <2>2. {"fork", "clear"} \subseteq ReorgSteps
    BY DEF ReorgSteps
  <2>3. /\ PushUtxo(Stack) \in Seq(Saved) /\ PushUtxo(Stack) # <<>>
        /\ DOMAIN PushUtxo(Stack) = DOMAIN Stack
        /\ \A i \in DOMAIN Stack : PushUtxo(Stack)[i].chain = Stack[i].chain
        /\ \A i \in DOMAIN Stack : i = Len(Stack) \/ PushUtxo(Stack)[i] = Stack[i]
        /\ PushUtxo(Stack)[Len(Stack)].utxo = utxo
    BY <1>0, <2>0, UtxoPushed
  <2>4. /\ PeerTypeOK' /\ InReorg' /\ Stack' = PushUtxo(Stack) /\ Chosen' = Chosen
        /\ peer'.at = IF Chosen = <<>> THEN "fork" ELSE "clear"
    BY <1>0, <2>1, <2>2, <2>3, PeerTakes
  <2> QED
    BY <2>1, <2>3, <2>4 DEF PeerHasBlock
<1>4. CASE SaveReorg
  <2>1. InReorg /\ Stack # <<>> /\ Pop("adopted") /\ during' = during
    BY <1>0, <1>4, PeerForms DEF SaveReorg, InReorg, ReorgSteps, historyVars
  <2>2. /\ PeerTypeOK' /\ peer'.at \in {"idle", "adopted"} /\ Chosen' = <<>>
        /\ \A i \in DOMAIN Stack' : i \in DOMAIN Stack /\ Stack'[i] = Stack[i]
    BY <1>0, <2>1, PeerPops
  <2> QED
    BY <2>1, <2>2 DEF PeerHasBlock
<1>5. CASE ReorgFails \/ UndoFork
  <2>1. InReorg /\ peer.at # "copy" /\ PeerAt("restore") /\ during' = during
    BY <1>5 DEF ReorgFails, UndoFork, InReorg, ReorgSteps, historyVars
  <2>2. "restore" \in ReorgSteps
    BY DEF ReorgSteps
  <2>3. PeerTypeOK' /\ peer'.at = "restore" /\ Stack' = Stack /\ Chosen' = Chosen
    BY <1>0, <2>1, <2>2, PeerGoesOn
  <2> QED
    BY <2>1, <2>3 DEF PeerHasBlock
<1>6. CASE KeepFork
  <2>1. peer' = PeerIdle /\ during' = during
    BY <1>6 DEF KeepFork, historyVars
  <2>2. /\ PeerTypeOK' /\ ~PeerHasBlock' /\ peer'.at = "idle" /\ Stack' = <<>> /\ Chosen' = <<>>
    BY <2>1, PeerRests
  <2> QED
    BY <2>1, <2>2
<1> QED
  BY <1>1, <1>2, <1>3, <1>4, <1>5, <1>6

\* Chain and UTXO set stay while the thread takes snapshots and decides.
LEMMA DecideKeeps ==
  ASSUME ShapeInv, ReceiveFork \/ CopyChain \/ CopyUtxo \/ SaveReorg \/ ReorgFails \/ KeepFork \/ UndoFork
  PROVE  MiningTypeOK' /\ Fresh'
<1>0. /\ PeerTypeOK /\ MiningTypeOK /\ ChainsFresh /\ WorkFresh /\ PeerFresh
      /\ chain \in Seq(Blocks) /\ Stack \in Seq(Saved) /\ Chosen \in Seq(Blocks)
      /\ utxo \subseteq 0 .. MaxBlocks
  BY PeerForms DEF ShapeInv, MiningTypeOK, Fresh
<1>1. /\ UNCHANGED <<chain, utxo, requestVars, flagVars, at, work, snap, taken, made, missed, parted>>
      /\ failures' \in 0 .. MaxFailures
  <2>1. CASE ReceiveFork \/ CopyChain
    BY <1>0, <2>1 DEF ReceiveFork, CopyChain, MiningTypeOK
  <2>2. CASE CopyUtxo \/ SaveReorg \/ KeepFork \/ UndoFork
    BY <1>0, <2>2 DEF CopyUtxo, SaveReorg, KeepFork, UndoFork, historyVars, MiningTypeOK
  <2>3. CASE ReorgFails
    BY <1>0, <2>3, MiningAssumption DEF ReorgFails, historyVars, MiningTypeOK
  <2> QED
    BY <2>1, <2>2, <2>3
<1>2. /\ PeerTypeOK' /\ ~PeerHasBlock'
      /\ Chosen' = Chosen \/ Chosen' = <<>>
      /\ peer'.at \in {"copy", "clear", "rebuild", "replace"} => Chosen' # <<>>
      /\ \A i \in DOMAIN Stack' :
           \/ /\ i \in DOMAIN Stack /\ Stack'[i].chain = Stack[i].chain
              /\ Stack'[i].utxo = Stack[i].utxo \/ Stack'[i].utxo = utxo
           \/ Stack'[i].chain = chain /\ Stack'[i].utxo = {}
      /\ during' = during \/ (during' = during \ {Peer} /\ Stack = <<>>)
  BY DecideForms
<1>3. \A i \in DOMAIN Stack' : Distinct(Stack'[i].chain)
  BY <1>0, <1>2 DEF ChainsFresh
<1>4. Distinct(chain') /\ Distinct(Chosen') /\ (Chosen' # <<>> => Len(Chosen') >= 2)
  BY <1>0, <1>1, <1>2 DEF ChainsFresh, Distinct
<1>5. \A b \in Known' : b \in Known \/ b \in made + 1 .. made'
  <2> DEFINE more == made + 1 .. made'
  <2>1. /\ \A b \in Ids(chain') : b \in Known \cup more
        /\ \A b \in utxo' : b \in Known \cup more
        /\ \A n \in Miner : \A b \in snap'[n] : b \in Known \cup more
        /\ \A b \in Ids(Chosen') : b \in Known \cup more
    BY <1>1, <1>2, KnownHolds DEF Ids
  <2>2. ASSUME NEW i \in DOMAIN Stack', NEW b \in Ids(Stack'[i].chain) \cup Stack'[i].utxo
        PROVE  b \in Known
    BY <1>2, <2>2, KnownHolds
  <2> HIDE DEF more
  <2>3. \A b \in Known' : b \in Known \/ b \in more
    BY <2>1, <2>2, KnownGrows
  <2> QED
    BY <2>3 DEF more
<1>6. GenesisStays'
  <2>1. Appended' = Appended /\ several' = several /\ parted' = parted /\ chain' = chain
    BY <1>1 DEF Appended, Storing, requestVars
  <2>2. ~several /\ ~parted => Grounded(chain)
        /\ (Peer \notin during => \A i \in DOMAIN Stack : Grounded(Stack[i].chain))
    BY DEF ShapeInv, Fresh, GenesisStays
  <2>3. Stack = <<>> => DOMAIN Stack = {}
    OBVIOUS
  <2> QED
    BY <1>2, <2>1, <2>2, <2>3 DEF GenesisStays, Grounded
<1>7. /\ made' \in 0 .. MaxBlocks /\ made <= made' /\ chain' \in Seq(Blocks)
      /\ missed' \subseteq {"early", "late", "unflagged", "overtaken", "pending", "batch"}
      /\ during' \subseteq Miner \cup {Peer} /\ parted' \in BOOLEAN
  BY <1>0, <1>1, <1>2 DEF MiningTypeOK
<1> QED
  BY <1>1, <1>2, <1>3, <1>4, <1>5, <1>6, <1>7, ReorgMove

\* The chain that replace_chain goes over to has the next numbers.
LEMMA ReorganiseKeeps ==
  ASSUME ShapeInv, Reorganise
  PROVE  MiningTypeOK' /\ Fresh'
<1>0. /\ PeerTypeOK /\ MiningTypeOK /\ ChainsFresh /\ WorkFresh /\ PeerFresh
      /\ chain \in Seq(Blocks) /\ Stack \in Seq(Saved) /\ made \in 0 .. MaxBlocks
      /\ Distinct(chain) /\ Ids(chain) \subseteq 0 .. made
  <2>1. /\ PeerTypeOK /\ MiningTypeOK /\ ChainsFresh /\ WorkFresh /\ PeerFresh
        /\ chain \in Seq(Blocks) /\ Stack \in Seq(Saved) /\ made \in 0 .. MaxBlocks
        /\ Distinct(chain) /\ Known \subseteq 0 .. made
    BY PeerForms DEF ShapeInv, MiningTypeOK, Fresh, ChainsFresh
  <2>2. \A b \in Ids(chain) : b \in Known
    BY KnownHolds
  <2> QED
    BY <2>1, <2>2
<1>1. UNCHANGED <<chain, utxo, requestVars, flagVars, at, work, snap, failures, historyVars>>
  BY DEF Reorganise
<1>2. PICK kept \in 1 .. Len(chain), count \in 1 .. MaxBlocks - made :
        /\ made' = made + count
        /\ peer' = Reorg("copy", IF peer = PeerIdle THEN <<>> ELSE peer.saved, Branch(kept, count))
  BY DEF Reorganise
<1> DEFINE new == Branch(kept, count)
<1>3. /\ new \in Seq(Blocks) /\ Len(new) >= 2 /\ new # <<>> /\ Distinct(new)
      /\ \A x \in Ids(new) : x \in Ids(chain) \/ x \in made + 1 .. made + count
  BY <1>0, BranchIsChain
<1> HIDE DEF new
<1>4. (IF peer = PeerIdle THEN <<>> ELSE peer.saved) = Stack
  <2>1. CASE peer = PeerIdle
    BY <2>1 DEF PeerIdle, Stack, InReorg, ReorgSteps
  <2>2. CASE peer # PeerIdle
    BY <2>2 DEF Reorganise, Stack, InReorg, ReorgSteps
  <2> QED
    BY <2>1, <2>2
<1>5. PeerTypeOK' /\ ~PeerHasBlock' /\ Stack' = Stack /\ Chosen' = new
  <2>1. "copy" \in ReorgSteps /\ peer' = Reorg("copy", Stack, new)
    BY <1>2, <1>4 DEF ReorgSteps, new
  <2> QED
    BY <1>0, <1>3, <2>1, PeerTakes DEF PeerHasBlock
<1>6. \A b \in Known' : b \in Known \/ b \in made + 1 .. made'
  <2> DEFINE more == made + 1 .. made'
  <2>1. /\ \A b \in Ids(chain') : b \in Known \cup more
        /\ \A b \in utxo' : b \in Known \cup more
        /\ \A n \in Miner : \A b \in snap'[n] : b \in Known \cup more
        /\ \A b \in Ids(Chosen') : b \in Known \cup more
    BY <1>1, <1>2, <1>3, <1>5, KnownHolds
  <2>2. \A i \in DOMAIN Stack' : \A b \in Ids(Stack'[i].chain) \cup Stack'[i].utxo : b \in Known \cup more
    BY <1>5, KnownHolds
  <2> HIDE DEF more
  <2>3. \A b \in Known' : b \in Known \/ b \in more
    BY <2>1, <2>2, KnownGrows
  <2> QED
    BY <2>3 DEF more
<1>7. GenesisStays'
  BY <1>1, <1>5, GroundStays DEF historyVars
<1>8. /\ made' \in 0 .. MaxBlocks /\ made <= made' /\ chain' \in Seq(Blocks)
      /\ missed' \subseteq {"early", "late", "unflagged", "overtaken", "pending", "batch"}
      /\ during' \subseteq Miner \cup {Peer} /\ parted' \in BOOLEAN
      /\ failures' \in 0 .. MaxFailures
      /\ UNCHANGED <<requestVars, flagVars, at, work, snap, taken>>
      /\ Distinct(chain') /\ \A i \in DOMAIN Stack' : Distinct(Stack'[i].chain)
  BY <1>0, <1>1, <1>2, <1>5, MiningAssumption DEF MiningTypeOK, historyVars, ChainsFresh, Distinct
<1> QED
  BY <1>3, <1>5, <1>6, <1>7, <1>8, ReorgMove

\* What the thread holds after it wrote the UTXO set.
LEMMA PeerUtxoForms ==
  ASSUME ShapeInv, ClearUtxo \/ RebuildUtxo \/ RebuildAborts \/ RestorePeerUtxo
  PROVE  /\ PeerTypeOK' /\ ~PeerHasBlock'
         /\ Chosen' = Chosen \/ Chosen' = <<>>
         /\ peer'.at \in {"copy", "clear", "rebuild", "replace"} => Chosen' = Chosen /\ Chosen # <<>>
         /\ \A i \in DOMAIN Stack' : i \in DOMAIN Stack /\ Stack'[i] = Stack[i]
<1>0. PeerTypeOK /\ ChainsFresh
  BY DEF ShapeInv, MiningTypeOK, Fresh
<1>a. InReorg /\ peer.at # "copy" /\ peer.saved = Stack /\ peer.branch = Chosen /\ Stack # <<>>
  <2>1. InReorg /\ peer.at # "copy"
    BY DEF ClearUtxo, RebuildUtxo, RebuildAborts, RestorePeerUtxo, InReorg, ReorgSteps
  <2> QED
    BY <1>0, <2>1, PeerForms
<1>1. CASE ClearUtxo \/ RebuildUtxo
  <2>1. PICK s \in {"rebuild", "replace"} : PeerAt(s)
    BY <1>1 DEF ClearUtxo, RebuildUtxo
  <2>2. s \in ReorgSteps /\ s # "copy"
    BY DEF ReorgSteps
  <2>3. PeerTypeOK' /\ peer'.at = s /\ Stack' = Stack /\ Chosen' = Chosen
    BY <1>0, <1>a, <2>1, <2>2, PeerGoesOn
  <2>4. Chosen # <<>>
    BY <1>0, <1>1 DEF ChainsFresh, ClearUtxo, RebuildUtxo
  <2> QED
    BY <2>3, <2>4 DEF PeerHasBlock
<1>2. CASE RebuildAborts
  <2>1. peer' = PeerIdle
    BY <1>2 DEF RebuildAborts
  <2>2. /\ PeerTypeOK' /\ ~PeerHasBlock' /\ peer'.at = "idle" /\ Stack' = <<>> /\ Chosen' = <<>>
    BY <2>1, PeerRests
  <2> QED
    BY <2>2
<1>3. CASE RestorePeerUtxo
  <2>1. Pop("fork")
    BY <1>3 DEF RestorePeerUtxo
  <2>2. /\ PeerTypeOK' /\ peer'.at \in {"idle", "fork"} /\ Chosen' = <<>>
        /\ \A i \in DOMAIN Stack' : i \in DOMAIN Stack /\ Stack'[i] = Stack[i]
    BY <1>0, <1>a, <2>1, PeerPops
  <2> QED
    BY <2>2 DEF PeerHasBlock
<1> QED
  BY <1>1, <1>2, <1>3

\* The UTXO set goes with the chain that replace_chain goes over to, or with the
\* snapshot, as far as that comes.
LEMMA PeerUtxoKeeps ==
  ASSUME ShapeInv, ClearUtxo \/ RebuildUtxo \/ RebuildAborts \/ RestorePeerUtxo
  PROVE  MiningTypeOK' /\ Fresh'
<1>0. /\ PeerTypeOK /\ MiningTypeOK /\ ChainsFresh
      /\ chain \in Seq(Blocks) /\ Stack \in Seq(Saved) /\ Chosen \in Seq(Blocks)
      /\ during \subseteq Miner \cup {Peer} /\ Peer \in Miner \cup {Peer}
  BY PeerForms DEF ShapeInv, MiningTypeOK, Fresh
<1>1. /\ UNCHANGED <<chain, requestVars, flagVars, at, work, snap, made, failures, taken, missed>>
      /\ NoteUtxo(Peer)
  BY DEF ClearUtxo, RebuildUtxo, RebuildAborts, RestorePeerUtxo
<1>2. InReorg /\ peer.at # "copy" /\ peer.saved = Stack /\ peer.branch = Chosen /\ Stack # <<>>
  <2>1. InReorg /\ peer.at # "copy"
    BY DEF ClearUtxo, RebuildUtxo, RebuildAborts, RestorePeerUtxo, InReorg, ReorgSteps
  <2> QED
    BY <1>0, <2>1, PeerForms
<1>3. /\ PeerTypeOK' /\ ~PeerHasBlock'
      /\ Chosen' = Chosen \/ Chosen' = <<>>
      /\ peer'.at \in {"copy", "clear", "rebuild", "replace"} => Chosen' = Chosen /\ Chosen # <<>>
      /\ \A i \in DOMAIN Stack' : i \in DOMAIN Stack /\ Stack'[i] = Stack[i]
  BY PeerUtxoForms
<1>4. \A b \in utxo' : b \in Known
  <2>1. CASE ClearUtxo
    BY <2>1 DEF ClearUtxo
  <2>2. CASE RebuildUtxo
    BY <1>2, <2>2, KnownHolds DEF RebuildUtxo
  <2>3. CASE RebuildAborts
    <3>1. PICK k \in 1 .. Len(Chosen) - 1 : utxo' = Ids(SubSeq(Chosen, 1, k))
      BY <1>2, <2>3 DEF RebuildAborts
    <3>2. k \in 0 .. Len(Chosen) /\ DOMAIN Chosen = 1 .. Len(Chosen)
          /\ \A i \in 1 .. k : i \in DOMAIN Chosen
      BY <1>0
    <3>3. \A b \in Ids(SubSeq(Chosen, 1, k)) : b \in Ids(Chosen)
      <4> DEFINE old == SubSeq(Chosen, 1, k)
      <4>1. DOMAIN old = 1 .. k /\ \A i \in 1 .. k : old[i] = Chosen[i]
        BY <1>0, <3>2, Prefix
      <4> HIDE DEF old
      <4>2. \A b \in Ids(old) : b \in Ids(Chosen)
        BY <3>2, <4>1 DEF Ids
      <4> QED
        BY <4>2 DEF old
    <3> QED
      BY <3>1, <3>3, KnownHolds
  <2>4. CASE RestorePeerUtxo
    <3>1. Len(Stack) \in DOMAIN Stack /\ Last(Stack) = Stack[Len(Stack)]
      BY <1>0, <1>2 DEF Last
    <3> QED
      BY <1>2, <2>4, <3>1, KnownHolds DEF RestorePeerUtxo
  <2> QED
    BY <2>1, <2>2, <2>3, <2>4
<1>5. \A b \in Known' : b \in Known \/ b \in made + 1 .. made'
  <2> DEFINE more == made + 1 .. made'
  <2>1. /\ \A b \in Ids(chain') : b \in Known \cup more
        /\ \A b \in utxo' : b \in Known \cup more
        /\ \A n \in Miner : \A b \in snap'[n] : b \in Known \cup more
        /\ \A b \in Ids(Chosen') : b \in Known \cup more
    BY <1>1, <1>3, <1>4, KnownHolds DEF Ids
  <2>2. \A i \in DOMAIN Stack' : \A b \in Ids(Stack'[i].chain) \cup Stack'[i].utxo : b \in Known \cup more
    BY <1>3, KnownHolds
  <2> HIDE DEF more
  <2>3. \A b \in Known' : b \in Known \/ b \in more
    BY <2>1, <2>2, KnownGrows
  <2> QED
    BY <2>3 DEF more
<1>6. /\ during' \subseteq Miner \cup {Peer} /\ (Peer \in during => Peer \in during')
      /\ parted' \in BOOLEAN /\ (parted => parted')
  <2>1. during' \subseteq Miner \cup {Peer} /\ (Peer \in during => Peer \in during')
    BY <1>0, <1>1, UtxoNoted
  <2> QED
    BY <1>0, <2>1 DEF ClearUtxo, RebuildUtxo, RebuildAborts, RestorePeerUtxo, MiningTypeOK
<1>7. GenesisStays'
  BY <1>1, <1>3, <1>6, GroundStays
<1>8. /\ made' \in 0 .. MaxBlocks /\ made <= made' /\ chain' \in Seq(Blocks)
      /\ missed' \subseteq {"early", "late", "unflagged", "overtaken", "pending", "batch"}
      /\ failures' \in 0 .. MaxFailures
      /\ Distinct(chain') /\ Distinct(Chosen') /\ \A i \in DOMAIN Stack' : Distinct(Stack'[i].chain)
      /\ (Chosen' # <<>> => Len(Chosen') >= 2)
  BY <1>0, <1>1, <1>3 DEF MiningTypeOK, ChainsFresh, Distinct
<1> QED
  BY <1>1, <1>3, <1>5, <1>6, <1>7, <1>8, ReorgMove

\* The chain becomes the new one, or that of the snapshot.
LEMMA SwitchKeeps ==
  ASSUME ShapeInv, ReplaceChain \/ RestoreChain
  PROVE  MiningTypeOK' /\ Fresh'
<1>0. /\ PeerTypeOK /\ MiningTypeOK /\ ChainsFresh /\ GenesisStays
      /\ chain \in Seq(Blocks) /\ Stack \in Seq(Saved) /\ Chosen \in Seq(Blocks)
      /\ during \subseteq Miner \cup {Peer} /\ Peer \in Miner \cup {Peer}
  BY PeerForms DEF ShapeInv, MiningTypeOK, Fresh
<1>1. /\ UNCHANGED <<utxo, requestVars, flagVars, at, work, snap, made, failures, taken>>
      /\ NoteUtxo(Peer) /\ NoteChain(Peer, FALSE)
  BY DEF ReplaceChain, RestoreChain
<1>2. InReorg /\ peer.at # "copy" /\ peer.saved = Stack /\ peer.branch = Chosen /\ Stack # <<>>
  <2>1. InReorg /\ peer.at # "copy"
    BY DEF ReplaceChain, RestoreChain, InReorg, ReorgSteps
  <2> QED
    BY <1>0, <2>1, PeerForms
<1>3. /\ PeerTypeOK' /\ ~PeerHasBlock' /\ Stack' = Stack /\ Chosen' = Chosen
      /\ peer'.at \notin {"copy", "clear", "rebuild", "replace"}
  <2>1. PICK s \in {"save", "restoreUtxo"} : PeerAt(s)
    BY DEF ReplaceChain, RestoreChain
  <2>2. s \in ReorgSteps /\ s # "copy"
    BY DEF ReorgSteps
  <2>3. PeerTypeOK' /\ peer'.at = s /\ Stack' = Stack /\ Chosen' = Chosen
    BY <1>0, <1>2, <2>1, <2>2, PeerGoesOn
  <2> QED
    BY <2>3 DEF PeerHasBlock
<1>4. /\ during' \subseteq Miner \cup {Peer} /\ (Peer \in during <=> Peer \in during')
      /\ parted' \in BOOLEAN /\ (parted => parted')
  <2>1. during' \subseteq Miner \cup {Peer} /\ (Peer \in during <=> Peer \in during')
    BY <1>0, <1>1, UtxoNoted
  <2> QED
    BY <1>0, <2>1 DEF ReplaceChain, RestoreChain, MiningTypeOK
<1>5. /\ chain' \in Seq(Blocks) /\ Distinct(chain') /\ \A b \in Ids(chain') : b \in Known
      /\ ~several /\ ~parted' => Grounded(chain)'
  <2>0. Appended' = Appended
    BY <1>1 DEF Appended, Storing
  <2>1. CASE ReplaceChain
    <3>1. chain' = Chosen /\ parted' = (parted \/ Storing # {}) /\ Chosen # <<>> /\ Len(Chosen) >= 2
      BY <1>0, <1>2, <2>1 DEF ReplaceChain, ChainsFresh
    <3> QED
      BY <1>0, <2>0, <3>1, KnownHolds DEF ChainsFresh, Grounded
  <2>2. CASE RestoreChain
    <3>1. Len(Stack) \in DOMAIN Stack /\ Last(Stack) = Stack[Len(Stack)] /\ Last(Stack) \in Saved
      BY <1>0, <1>2 DEF Last
    <3>2. chain' = Stack[Len(Stack)].chain /\ parted' = (parted \/ Peer \in during)
      BY <1>2, <2>2, <3>1 DEF RestoreChain
    <3>3. ~several /\ ~parted' => Grounded(Stack[Len(Stack)].chain)
      BY <1>0, <3>1, <3>2 DEF GenesisStays
    <3>4. Stack[Len(Stack)].chain \in Seq(Blocks) /\ Distinct(Stack[Len(Stack)].chain)
      BY <1>0, <3>1 DEF Saved, ChainsFresh
    <3> QED
      BY <2>0, <3>1, <3>2, <3>3, <3>4, KnownHolds DEF Grounded
  <2> QED
    BY <2>1, <2>2
<1>6. \A b \in Known' : b \in Known \/ b \in made + 1 .. made'
  <2> DEFINE more == made + 1 .. made'
  <2>1. /\ \A b \in Ids(chain') : b \in Known \cup more
        /\ \A b \in utxo' : b \in Known \cup more
        /\ \A n \in Miner : \A b \in snap'[n] : b \in Known \cup more
        /\ \A b \in Ids(Chosen') : b \in Known \cup more
        /\ \A i \in DOMAIN Stack' : \A b \in Ids(Stack'[i].chain) \cup Stack'[i].utxo : b \in Known \cup more
    BY <1>1, <1>3, <1>5, KnownHolds
  <2> HIDE DEF more
  <2>2. \A b \in Known' : b \in Known \/ b \in more
    BY <2>1, KnownGrows
  <2> QED
    BY <2>2 DEF more
<1>7. GenesisStays'
  <2>1. Appended' = Appended /\ several' = several
    BY <1>1 DEF Appended, Storing, requestVars
  <2> QED
    BY <1>0, <1>3, <1>4, <1>5, <2>1 DEF GenesisStays, Grounded
<1>8. /\ made' \in 0 .. MaxBlocks /\ made <= made'
      /\ missed' \subseteq {"early", "late", "unflagged", "overtaken", "pending", "batch"}
      /\ failures' \in 0 .. MaxFailures
      /\ Distinct(Chosen') /\ \A i \in DOMAIN Stack' : Distinct(Stack'[i].chain)
      /\ (Chosen' # <<>> => Len(Chosen') >= 2)
  <2>1. missed' \subseteq {"early", "late", "unflagged", "overtaken", "pending", "batch"}
    BY <1>0, <1>1 DEF NoteChain, Note, Misses, MiningTypeOK
  <2> QED
    BY <1>0, <1>1, <1>3, <2>1 DEF MiningTypeOK, ChainsFresh
<1> QED
  BY <1>1, <1>3, <1>4, <1>5, <1>6, <1>7, <1>8, ReorgMove

LEMMA ShapeNext == ShapeInv /\ [MiningNext]_miningVars => ShapeInv'
<1> SUFFICES ASSUME ShapeInv, [MiningNext]_miningVars
             PROVE  MiningTypeOK' /\ Fresh'
  BY ThreadNext DEF ShapeInv
<1>0. ThreadInv'
  BY ThreadNext DEF ShapeInv
<1>1. ASSUME NEW m \in Miner, RequestStep(m) PROVE MiningTypeOK' /\ Fresh'
  BY <1>0, <1>1, RequestKeeps
<1>2. ASSUME NEW m \in Miner, LeaveLoop(m) \/ ReadIndex(m) \/ MinerStep(m)
      PROVE  MiningTypeOK' /\ Fresh'
  BY <1>2, SearchKeeps, FindKeeps, StoreKeeps, AppendOwnKeeps, PopOwnKeeps DEF MinerStep
<1>3. CASE ReceiveBlock
  <2>1. FALSE \in BOOLEAN
    OBVIOUS
  <2> QED
    BY <1>3, <2>1, NewPeerBlock DEF ReceiveBlock
<1>4. CASE ConnectOrphan
  <2>1. TRUE \in BOOLEAN
    OBVIOUS
  <2> QED
    BY <1>4, <2>1, NewPeerBlock DEF ConnectOrphan
<1>5. CASE ReceiveFork \/ Reorganise
  BY <1>5, DecideKeeps, ReorganiseKeeps
<1>6. CASE PeerStep
  BY <1>6, AppendPeerKeeps, PeerBlockKeeps, DecideKeeps, PeerUtxoKeeps, SwitchKeeps DEF PeerStep
<1>7. CASE UNCHANGED miningVars
  BY <1>7 DEF miningVars, flagVars, requestVars, historyVars, ShapeInv, MiningTypeOK, PeerTypeOK,
     Fresh, ChainsFresh, WorkFresh, PeerFresh, GenesisStays, Grounded, Known, Distinct, Ids,
     Holding, Found, Storing, Appended, PeerHasBlock, Stack, Chosen, InReorg
<1> QED
  BY <1>1, <1>2, <1>3, <1>4, <1>5, <1>6, <1>7 DEF MiningNext

\* The types hold for every number of requests, blocks and failures; a rollback
\* pops the genesis block only when a second thread mines
\* (mine_pending_transactions, add_block, replace_chain).
THEOREM MiningIsTyped == MiningSpec => []MiningTypeOK
<1>1. MiningInit => ShapeInv
  BY ShapeInit, ThreadInit DEF ShapeInv
<1>2. ShapeInv => MiningTypeOK
  BY DEF ShapeInv
<1> QED
  BY <1>1, <1>2, ShapeNext, PTL DEF MiningSpec

---------------------------------------------------------------------------
\* A search that went off the tip is ended by the flag

\* The block of thread m is made for the place after the tip.
Follows(m) == work[m].index = Len(chain) /\ work[m].prev = TipId(chain)

\* A thread that searches follows the tip, or its height is taken and the flag is
\* on its way or raised.
OnCourse(m) ==
  /\ at[m] = "tip" => work[m].index = Len(chain)
  /\ at[m] \in {"target", "reset", "snapshot", "append"} => Follows(m)
  /\ at[m] \in {"reset", "look", "search"} => target = work[m].index
  /\ at[m] \in {"look", "search"} =>
       \/ taken[m] = "no" /\ Follows(m)
       \/ taken[m] = "yes" /\ peer.at \in {"test", "raise"} /\ target = peer.block.index
       \/ taken[m] = "raised" /\ abort
  /\ at[m] \notin {"look", "search"} => taken[m] = "no"

PeerOnCourse ==
  /\ peer.at = "append" => peer.block.index = Len(chain) /\ peer.block.prev = TipId(chain)
  /\ Linked(Chosen) /\ \A i \in DOMAIN Stack : Linked(Stack[i].chain)

CourseInv ==
  missed = {} /\ ~several => Linked(chain) /\ PeerOnCourse /\ \A m \in Miner : OnCourse(m)

\* What holds in a state in which no change was missed.
InCourse == /\ ShapeInv /\ missed = {} /\ ~several
            /\ Linked(chain) /\ PeerOnCourse /\ \A m \in Miner : OnCourse(m)

LEMMA CourseInit == MiningInit => CourseInv
<1> SUFFICES ASSUME MiningInit
             PROVE  CourseInv
  OBVIOUS
<1> USE DEF MiningInit
<1>1. Linked(chain)
  BY DEF Linked, Genesis
<1>2. PeerOnCourse
  <2>1. Stack = <<>> /\ Chosen = <<>> /\ peer.at # "append"
    BY DEF PeerIdle, Stack, Chosen, InReorg, ReorgSteps
  <2> QED
    BY <2>1 DEF PeerOnCourse, Linked
<1>3. \A m \in Miner : OnCourse(m)
  BY DEF OnCourse
<1> QED
  BY <1>1, <1>2, <1>3 DEF CourseInv

LEMMA PeerStaysOnCourse ==
  ASSUME InCourse, UNCHANGED <<chain, peer>>
  PROVE  /\ Linked(chain') /\ PeerOnCourse'
         /\ Len(chain)' = Len(chain) /\ TipId(chain)' = TipId(chain)
BY DEF InCourse, PeerOnCourse, Stack, Chosen, InReorg, Linked, TipId, Last

\* While one thread runs, the others hold no height.
LEMMA OthersRest ==
  ASSUME InCourse, NEW m \in Miner, at[m] # "off", NEW n \in Miner, n # m
  PROVE  at[n] = "off" /\ taken[n] = "no"
BY DEF InCourse, ShapeInv, ThreadInv, OneThread, Running, OnCourse

\* So a step of the thread that runs is about that thread alone.
LEMMA OneCourse ==
  ASSUME InCourse, NEW m \in Miner, at[m] # "off", NEW s, Goto(m, s),
         \A n \in Miner : n # m => taken'[n] = taken[n],
         OnCourse(m)'
  PROVE  \A n \in Miner : OnCourse(n)'
<1> SUFFICES ASSUME NEW n \in Miner, n # m
             PROVE  OnCourse(n)'
  OBVIOUS
<1>1. at'[n] = "off" /\ taken'[n] = "no"
  BY OthersRest DEF Goto, InCourse, ShapeInv, MiningTypeOK
<1> QED
  BY <1>1 DEF OnCourse

\* The steps of a thread that leave the chain alone.
LEMMA SearchOnCourse ==
  ASSUME InCourse, missed' = {}, NEW m \in Miner,
         \/ LeaveLoop(m) \/ ReadIndex(m) \/ ReadTip(m) \/ SetTarget(m) \/ ResetAbort(m)
         \/ Look(m) \/ NotFound(m) \/ Find(m) \/ SnapshotUtxo(m) \/ ApplyOwn(m)
         \/ SaveOwn(m) \/ SaveFails(m) \/ RestoreUtxo(m) \/ CompareTip(m)
  PROVE  Linked(chain') /\ PeerOnCourse' /\ \A n \in Miner : OnCourse(n)'
<1> USE DEF historyVars, requestVars, flagVars
<1>0. /\ at \in [Miner -> Steps] /\ work \in [Miner -> Blocks] /\ OnCourse(m)
      /\ taken \in [Miner -> {"no", "yes", "raised", "ignored"}]
  BY DEF InCourse, ShapeInv, MiningTypeOK, Steps
<1>1. PICK s : Goto(m, s) /\ at[m] # "off" /\ UNCHANGED <<chain, peer>>
  <2>1. CASE LeaveLoop(m) BY <2>1 DEF LeaveLoop
  <2>2. CASE ReadIndex(m) BY <2>2 DEF ReadIndex
  <2>3. CASE ReadTip(m) BY <2>3 DEF ReadTip
  <2>4. CASE SetTarget(m) BY <2>4 DEF SetTarget
  <2>5. CASE ResetAbort(m) BY <2>5 DEF ResetAbort
  <2>6. CASE Look(m) BY <2>6 DEF Look, Return
  <2>7. CASE NotFound(m) BY <2>7 DEF NotFound
  <2>8. CASE Find(m) BY <2>8 DEF Find
  <2>9. CASE SnapshotUtxo(m) BY <2>9 DEF SnapshotUtxo
  <2>10. CASE ApplyOwn(m) BY <2>10 DEF ApplyOwn
  <2>11. CASE SaveOwn(m) BY <2>11 DEF SaveOwn, Return
  <2>12. CASE SaveFails(m) BY <2>12 DEF SaveFails
  <2>13. CASE RestoreUtxo(m) BY <2>13 DEF RestoreUtxo
  <2>14. CASE CompareTip(m) BY <2>14 DEF CompareTip, Return
  <2> QED
    BY <2>1, <2>2, <2>3, <2>4, <2>5, <2>6, <2>7, <2>8, <2>9, <2>10, <2>11, <2>12, <2>13, <2>14
<1>2. Linked(chain') /\ PeerOnCourse'
  BY <1>1, PeerStaysOnCourse
<1>3. Len(chain)' = Len(chain) /\ TipId(chain)' = TipId(chain)
  BY <1>1 DEF TipId, Last
<1>4. OnCourse(m)' /\ \A n \in Miner : n # m => taken'[n] = taken[n]
  <2>1. CASE LeaveLoop(m) BY <1>0, <2>1 DEF LeaveLoop, Goto, OnCourse
  <2>2. CASE ReadIndex(m) BY <1>0, <1>3, <2>2 DEF ReadIndex, Goto, OnCourse
  <2>3. CASE ReadTip(m)
    <3>1. /\ at'[m] = "target" /\ work'[m].index = work[m].index
          /\ work'[m].prev = TipId(chain) /\ taken' = taken /\ at[m] = "tip"
      <4>1. work'[m] = [work[m] EXCEPT !.prev = TipId(chain)]
        BY <1>0, <2>3 DEF ReadTip
      <4>2. work[m] \in Blocks
        BY <1>0
      <4>3. work'[m].index = work[m].index /\ work'[m].prev = TipId(chain)
        BY <4>1, <4>2 DEF Blocks
      <4> QED
        BY <1>0, <2>3, <4>3 DEF ReadTip, Goto
    <3> QED
      BY <1>0, <1>3, <3>1 DEF OnCourse, Follows
  <2>4. CASE SetTarget(m) BY <1>0, <1>3, <2>4 DEF SetTarget, Goto, OnCourse, Follows
  <2>5. CASE ResetAbort(m) BY <1>0, <1>3, <2>5 DEF ResetAbort, Goto, OnCourse, Follows
  <2>6. CASE Look(m)
    <3>1. CASE abort
      BY <1>0, <2>6, <3>1 DEF Look, Return, Goto, OnCourse
    <3>2. CASE ~abort
      <4>1. /\ at'[m] = "search" /\ work' = work /\ target' = target /\ abort' = abort
            /\ at[m] = "look" /\ taken[m] # "raised"
        BY <1>0, <2>6, <3>2 DEF Look, Goto, OnCourse
      <4>2. taken' = taken
        BY <1>0, <2>6, <3>2, <4>1 DEF Look
      <4> QED
        BY <1>0, <1>1, <1>3, <4>1, <4>2 DEF OnCourse, Follows
    <3> QED
      BY <3>1, <3>2
  <2>7. CASE NotFound(m) BY <1>0, <1>1, <1>3, <2>7 DEF NotFound, Goto, OnCourse, Follows
  <2>8. CASE Find(m)
    <3>1. /\ at[m] = "search" /\ at'[m] = "snapshot" /\ taken'[m] = "no"
          /\ \A n \in Miner : n # m => taken'[n] = taken[n]
          /\ work' = [work EXCEPT ![m].id = made + 1]
      BY <1>0, <2>8 DEF Find, Goto
    <3>2. Unseen(m) = {}
      BY <2>8 DEF Find, Note, InCourse
    <3>3. taken[m] = "no" /\ Follows(m)
      BY <1>0, <3>1, <3>2 DEF OnCourse, Unseen
    <3>4. work'[m].index = work[m].index /\ work'[m].prev = work[m].prev
      <4>1. work'[m] = [work[m] EXCEPT !.id = made + 1] /\ work[m] \in Blocks
        BY <1>0, <3>1
      <4> QED
        BY <4>1 DEF Blocks
    <3> QED
      BY <1>3, <3>1, <3>3, <3>4 DEF OnCourse, Follows
  <2>9. CASE SnapshotUtxo(m)
    BY <1>0, <1>3, <2>9 DEF SnapshotUtxo, Goto, OnCourse, Follows
  <2>10. CASE ApplyOwn(m) BY <1>0, <2>10 DEF ApplyOwn, Goto, OnCourse
  <2>11. CASE SaveOwn(m) BY <1>0, <2>11 DEF SaveOwn, Return, Goto, OnCourse
  <2>12. CASE SaveFails(m) BY <1>0, <2>12 DEF SaveFails, Goto, OnCourse
  <2>13. CASE RestoreUtxo(m) BY <1>0, <2>13 DEF RestoreUtxo, Goto, OnCourse
  <2>14. CASE CompareTip(m)
    <3>1. taken' = taken /\ at[m] = "compare" /\ at'[m] \in {"pop", "idle", "off"}
      BY <1>0, <2>14 DEF CompareTip, Return, Goto
    <3> QED
      BY <1>0, <3>1 DEF OnCourse
  <2> QED
    BY <2>1, <2>2, <2>3, <2>4, <2>5, <2>6, <2>7, <2>8, <2>9, <2>10, <2>11, <2>12, <2>13, <2>14
<1> QED
  BY <1>1, <1>2, <1>4, OneCourse

\* The append and the pop: a peer's block that passed its check and is not yet in
\* the chain would be overtaken.
LEMMA ChainStepOnCourse ==
  ASSUME InCourse, missed' = {}, NEW m \in Miner, AppendOwn(m) \/ PopOwn(m)
  PROVE  Linked(chain') /\ PeerOnCourse' /\ \A n \in Miner : OnCourse(n)'
<1>0. /\ at \in [Miner -> Steps] /\ work \in [Miner -> Blocks] /\ OnCourse(m)
      /\ chain \in Seq(Blocks) /\ Linked(chain)
  BY DEF InCourse, ShapeInv, MiningTypeOK, Steps
<1>1. Misses(m, FALSE) = {}
  BY DEF AppendOwn, PopOwn, NoteChain, Note, InCourse
<1>2. peer' = peer /\ peer.at # "append" /\ taken' = taken
  <2>1. m # Peer
    BY DEF Miner, Peer
  <2> QED
    BY <1>1, <2>1 DEF Misses, AppendOwn, PopOwn
<1>3. PeerOnCourse'
  BY <1>2 DEF InCourse, PeerOnCourse, Stack, Chosen, InReorg, Linked
<1>4. Linked(chain')
  <2>1. CASE AppendOwn(m)
    <3>1. Follows(m) /\ work[m] \in Blocks /\ chain' = Append(chain, work[m])
      BY <1>0, <2>1 DEF AppendOwn, OnCourse
    <3> QED
      BY <1>0, <3>1, AppendLinked DEF Follows
  <2>2. CASE PopOwn(m)
    <3>1. chain' = Front(chain)
      BY <2>2 DEF PopOwn
    <3> QED
      BY <1>0, <3>1, PopBlock
  <2> QED
    BY <2>1, <2>2
<1>5. PICK s \in {"apply", "idle", "off"} : Goto(m, s) /\ at[m] \in {"append", "pop"}
  <2>1. CASE AppendOwn(m)
    BY <2>1 DEF AppendOwn
  <2>2. CASE PopOwn(m)
    BY <2>2 DEF PopOwn, Return
  <2> QED
    BY <2>1, <2>2
<1>6. OnCourse(m)'
  <2>1. at'[m] = s /\ taken'[m] = "no"
    BY <1>0, <1>2, <1>5 DEF Goto, OnCourse
  <2> QED
    BY <2>1 DEF OnCourse
<1>7. at[m] # "off" /\ \A n \in Miner : n # m => taken'[n] = taken[n]
  BY <1>2, <1>5
<1> QED
  BY <1>3, <1>4, <1>5, <1>6, <1>7, OneCourse

\* The requests.
LEMMA RequestOnCourse ==
  ASSUME InCourse, ~several', NEW r \in Miner, RequestStep(r)
  PROVE  Linked(chain') /\ PeerOnCourse' /\ \A n \in Miner : OnCourse(n)'
<1>1. /\ UNCHANGED <<chain, flagVars, work, peer, taken>>
      /\ \/ at' = at
         \/ Goto(r, "idle") /\ Running = {}
  BY RequestMoves DEF historyVars
<1>2. /\ Linked(chain') /\ PeerOnCourse'
      /\ Len(chain)' = Len(chain) /\ TipId(chain)' = TipId(chain)
  BY <1>1, PeerStaysOnCourse
<1>3. ASSUME NEW n \in Miner
      PROVE  OnCourse(n)'
  <2>1. at'[n] = at[n] \/ (at[n] = "off" /\ at'[n] = "idle")
    BY <1>1 DEF InCourse, ShapeInv, ThreadInv, OneThread, Running, Goto
  <2>2. /\ OnCourse(n) /\ target' = target /\ abort' = abort /\ work' = work /\ peer' = peer
        /\ taken' = taken
    BY <1>1 DEF InCourse, flagVars
  <2>3. CASE at'[n] = at[n]
    BY <1>2, <2>2, <2>3 DEF OnCourse, Follows
  <2>4. CASE at[n] = "off" /\ at'[n] = "idle"
    BY <2>2, <2>4 DEF OnCourse
  <2> QED
    BY <2>1, <2>3, <2>4
<1> QED
  BY <1>2, <1>3

\* The thread with the peers' blocks goes on, and chain, threads and flags stay: it
\* was not about to raise the flag.
LEMMA PeerStepOnCourse ==
  ASSUME InCourse, UNCHANGED <<chain, flagVars, at, work, taken>>,
         peer.at \notin {"test", "raise"}, PeerOnCourse'
  PROVE  Linked(chain') /\ PeerOnCourse' /\ \A n \in Miner : OnCourse(n)'
<1>1. Linked(chain') /\ Len(chain)' = Len(chain) /\ TipId(chain)' = TipId(chain)
  BY DEF InCourse, Linked, TipId, Last
<1>2. ASSUME NEW n \in Miner
      PROVE  OnCourse(n)'
  <2>1. OnCourse(n) /\ target' = target /\ abort' = abort
    BY DEF InCourse, flagVars
  <2> QED
    BY <1>1, <2>1 DEF OnCourse, Follows
<1> QED
  BY <1>1, <1>2

\* A peer's block, or a chain of the peers, is taken up: the chain stays.
LEMMA ReceiptOnCourse ==
  ASSUME InCourse, ReceiveBlock \/ ConnectOrphan \/ Reorganise
  PROVE  Linked(chain') /\ PeerOnCourse' /\ \A n \in Miner : OnCourse(n)'
<1>1. /\ UNCHANGED <<chain, flagVars, at, work, taken>> /\ peer.at \notin {"test", "raise"}
  BY DEF ReceiveBlock, ConnectOrphan, Reorganise, historyVars, PeerIdle
<1>2. PeerOnCourse'
  <2>0. Len(chain)' = Len(chain) /\ TipId(chain)' = TipId(chain)
    BY <1>1 DEF TipId, Last
  <2>1. CASE ReceiveBlock \/ ConnectOrphan
    <3>1. peer'.at = "append" /\ peer'.block = PeerBlock(made + 1, chain)
      BY <2>1 DEF ReceiveBlock, ConnectOrphan
    <3>2. Stack' = <<>> /\ Chosen' = <<>>
      BY <3>1 DEF Stack, Chosen, InReorg, ReorgSteps
    <3>3. peer'.block.index = Len(chain) /\ peer'.block.prev = TipId(chain)
      BY <3>1 DEF PeerBlock
    <3> QED
      BY <2>0, <3>2, <3>3 DEF PeerOnCourse, Linked
  <2>2. CASE Reorganise
    <3>1. PICK kept \in 1 .. Len(chain), count \in 1 .. MaxBlocks - made :
            /\ Linked(SubSeq(chain, 1, kept))
            /\ peer' = Reorg("copy", IF peer = PeerIdle THEN <<>> ELSE peer.saved, Branch(kept, count))
      BY <2>2 DEF Reorganise
    <3>2. Linked(Branch(kept, count))
      <4>1. /\ chain \in Seq(Blocks) /\ made \in 0 .. MaxBlocks /\ Distinct(chain)
            /\ Known \subseteq 0 .. made
        BY DEF InCourse, ShapeInv, MiningTypeOK, Fresh, ChainsFresh
      <4>2. Ids(chain) \subseteq 0 .. made
        BY <4>1, KnownHolds
      <4> QED
        BY <3>1, <4>1, <4>2, BranchIsChain
    <3>3. Stack = IF peer = PeerIdle THEN <<>> ELSE peer.saved
      BY <2>2 DEF Reorganise, Stack, InReorg, ReorgSteps, PeerIdle
    <3>4. peer'.at = "copy" /\ Stack' = Stack /\ Chosen' = Branch(kept, count)
      BY <3>1, <3>3 DEF Reorg, Stack, Chosen, InReorg, ReorgSteps
    <3> QED
      BY <3>2, <3>4 DEF InCourse, PeerOnCourse, Linked
  <2> QED
    BY <2>1, <2>2
<1> QED
  BY <1>1, <1>2, PeerStepOnCourse

\* The flag is raised when the height of the block is the target.
LEMMA FlagOnCourse ==
  ASSUME InCourse, TestTarget \/ RaiseAbort
  PROVE  Linked(chain') /\ PeerOnCourse' /\ \A n \in Miner : OnCourse(n)'
<1>0. /\ PeerTypeOK /\ taken \in [Miner -> {"no", "yes", "raised", "ignored"}] /\ PeerHasBlock
  BY DEF InCourse, ShapeInv, MiningTypeOK, TestTarget, RaiseAbort, PeerHasBlock
<1>1. UNCHANGED <<chain, target, at, work>>
  BY DEF TestTarget, RaiseAbort, flagVars
<1>2. Linked(chain') /\ Len(chain)' = Len(chain) /\ TipId(chain)' = TipId(chain)
  BY <1>1 DEF InCourse, Linked, TipId, Last
<1>3. CASE TestTarget
  <2>1. /\ peer.at = "test" /\ peer'.block = peer.block
        /\ peer'.at = IF target = peer.block.index THEN "raise" ELSE "apply"
        /\ UNCHANGED <<abort, taken>>
    BY <1>0, <1>3, PeerForms DEF TestTarget, flagVars, historyVars
  <2>2. PeerOnCourse'
    BY <2>1 DEF PeerOnCourse, Stack, Chosen, InReorg, ReorgSteps, Linked
  <2>3. ASSUME NEW n \in Miner PROVE OnCourse(n)'
    <3>1. OnCourse(n)
      BY DEF InCourse
    <3> QED
      BY <1>1, <1>2, <2>1, <3>1 DEF OnCourse, Follows
  <2> QED
    BY <1>2, <2>2, <2>3
<1>4. CASE RaiseAbort
  <2>1. /\ peer.at = "raise" /\ peer'.at = "apply" /\ abort'
        /\ \A n \in Miner : taken'[n] = IF taken[n] = "yes" THEN "raised" ELSE taken[n]
    BY <1>0, <1>4, PeerForms DEF RaiseAbort
  <2>2. PeerOnCourse'
    BY <2>1 DEF PeerOnCourse, Stack, Chosen, InReorg, ReorgSteps, Linked
  <2>3. ASSUME NEW n \in Miner PROVE OnCourse(n)'
    <3>1. OnCourse(n)
      BY DEF InCourse
    <3> QED
      BY <1>1, <1>2, <2>1, <3>1 DEF OnCourse, Follows
  <2> QED
    BY <1>2, <2>2, <2>3
<1> QED
  BY <1>3, <1>4

\* The UTXO set is written, the flag is not looked at.
LEMMA ApplyOnCourse ==
  ASSUME InCourse, ApplyPeer \/ NoOrphan \/ RebuildAborts \/ KeepFork
  PROVE  Linked(chain') /\ PeerOnCourse' /\ \A n \in Miner : OnCourse(n)'
<1>1. /\ UNCHANGED <<chain, flagVars, at, work, taken>> /\ peer.at \notin {"test", "raise"}
      /\ peer'.at \in {"idle", "orphans"}
  BY DEF ApplyPeer, NoOrphan, RebuildAborts, KeepFork, historyVars, PeerIdle
<1>2. PeerOnCourse'
  <2>1. Stack' = <<>> /\ Chosen' = <<>>
    BY <1>1 DEF Stack, Chosen, InReorg, ReorgSteps
  <2> QED
    BY <1>1, <2>1 DEF PeerOnCourse, Linked
<1> QED
  BY <1>1, <1>2, PeerStepOnCourse

\* The snapshots of a reorganisation are of a chain that is linked.
LEMMA ReorgOnCourse ==
  ASSUME InCourse,
         \/ ReceiveFork \/ CopyChain \/ CopyUtxo \/ ClearUtxo \/ RebuildUtxo
         \/ SaveReorg \/ ReorgFails \/ UndoFork \/ RestorePeerUtxo
  PROVE  Linked(chain') /\ PeerOnCourse' /\ \A n \in Miner : OnCourse(n)'
<1>0. /\ PeerTypeOK /\ chain \in Seq(Blocks) /\ Linked(chain) /\ PeerOnCourse
      /\ utxo \subseteq 0 .. MaxBlocks /\ Stack \in Seq(Saved) /\ Chosen \in Seq(Blocks)
  BY PeerForms DEF InCourse, ShapeInv, MiningTypeOK
<1>1. UNCHANGED <<chain, flagVars, at, work, taken>> /\ peer.at \notin {"test", "raise"}
  BY DEF ReceiveFork, CopyChain, CopyUtxo, ClearUtxo, RebuildUtxo, SaveReorg, ReorgFails,
     UndoFork, RestorePeerUtxo, PeerIdle, historyVars
<1>2. /\ peer'.at # "append" /\ (Chosen' = Chosen \/ Chosen' = <<>>)
      /\ \A i \in DOMAIN Stack' : \/ i \in DOMAIN Stack /\ Stack'[i].chain = Stack[i].chain
                                  \/ Stack'[i].chain = chain
  <2>1. CASE ReceiveFork \/ CopyChain \/ CopyUtxo \/ SaveReorg \/ ReorgFails \/ UndoFork
    BY <2>1, DecideForms DEF InCourse, PeerHasBlock
  <2>2. CASE ClearUtxo \/ RebuildUtxo \/ RestorePeerUtxo
    BY <2>2, PeerUtxoForms DEF InCourse, PeerHasBlock
  <2> QED
    BY <2>1, <2>2
<1>3. PeerOnCourse'
  <2>1. Linked(<<>>)
    BY DEF Linked
  <2>2. Linked(Chosen') /\ \A i \in DOMAIN Stack' : Linked(Stack'[i].chain)
    BY <1>0, <1>2, <2>1 DEF PeerOnCourse
  <2> QED
    BY <1>2, <2>2 DEF PeerOnCourse, Linked
<1> QED
  BY <1>1, <1>3, PeerStepOnCourse

\* A peer's block is appended before everyone's eyes, or the change is missed.
LEMMA AppendPeerOnCourse ==
  ASSUME InCourse, missed' = {}, AppendPeer
  PROVE  Linked(chain') /\ PeerOnCourse' /\ \A n \in Miner : OnCourse(n)'
<1>0. /\ PeerTypeOK /\ chain \in Seq(Blocks) /\ PeerHasBlock /\ Linked(chain)
      /\ taken \in [Miner -> {"no", "yes", "raised", "ignored"}] /\ PeerOnCourse
      /\ at \in [Miner -> Steps]
  BY DEF InCourse, ShapeInv, MiningTypeOK, PeerHasBlock, AppendPeer, Steps
<1>1. /\ peer.at = "append" /\ chain' = Append(chain, peer.block) /\ peer.block \in Blocks
      /\ peer'.block = peer.block /\ peer.orphan \in BOOLEAN
      /\ peer'.at = IF peer.orphan THEN "apply" ELSE "test"
      /\ UNCHANGED <<target, abort, at, work>>
  BY <1>0, PeerForms DEF AppendPeer, flagVars
<1>2. peer.block.index = Len(chain) /\ peer.block.prev = TipId(chain)
  BY <1>0, <1>1 DEF PeerOnCourse
<1>3. Linked(chain')
  BY <1>0, <1>1, <1>2, AppendLinked
<1>4. PeerOnCourse'
  BY <1>1 DEF PeerOnCourse, Stack, Chosen, InReorg, ReorgSteps, Linked
<1>5. Misses(Peer, ~peer.orphan) = {}
  BY DEF AppendPeer, NoteChain, Note, InCourse
<1>6. /\ \A n \in Miner : at[n] \notin {"tip", "target", "reset", "snapshot", "append"}
      /\ peer.orphan => \A n \in Miner : at[n] \notin {"look", "search"}
  <2>1. \A n \in Miner : n # Peer
    BY DEF Miner, Peer
  <2> QED
    BY <1>1, <1>5, <2>1 DEF Misses, Reading, Found, Searching
<1>7. ASSUME NEW n \in Miner
      PROVE  OnCourse(n)'
  <2>1. OnCourse(n)
    BY DEF InCourse
  <2>2. taken'[n] = IF ~peer.orphan /\ n \in Rivals(peer.block) THEN "yes" ELSE taken[n]
    BY DEF AppendPeer
  <2>3. CASE at[n] \in {"look", "search"}
    <3>1. ~peer.orphan /\ peer'.at = "test" /\ target = work[n].index
      BY <1>1, <1>6, <2>1, <2>3 DEF OnCourse
    <3>2. CASE work[n].index = peer.block.index
      <4>1. taken'[n] = "yes" /\ target = peer.block.index
        BY <2>2, <2>3, <3>1, <3>2 DEF Rivals, Searching
      <4> QED
        BY <1>1, <2>1, <2>3, <3>1, <4>1 DEF OnCourse
    <3>3. CASE work[n].index # peer.block.index
      <4>1. taken'[n] = taken[n]
        BY <2>2, <3>3 DEF Rivals
      <4>2. taken[n] = "raised" /\ abort
        BY <1>1, <1>2, <2>1, <2>3, <3>3 DEF OnCourse, Follows
      <4> QED
        BY <1>1, <2>1, <2>3, <4>1, <4>2 DEF OnCourse
    <3> QED
      BY <3>2, <3>3
  <2>4. CASE at[n] \notin {"look", "search"}
    <3>1. taken'[n] = taken[n] /\ taken[n] = "no"
      BY <2>1, <2>2, <2>4 DEF OnCourse, Rivals, Searching
    <3> QED
      BY <1>1, <1>6, <2>4, <3>1 DEF OnCourse
  <2> QED
    BY <2>3, <2>4
<1> QED
  BY <1>3, <1>4, <1>7

\* No thread goes by the tip that a reorganisation replaces, or the change is missed;
\* nor by one that is replaced by a snapshot.
LEMMA SwitchOnCourse ==
  ASSUME InCourse, missed' = {}, ReplaceChain \/ RestoreChain
  PROVE  Linked(chain') /\ PeerOnCourse' /\ \A n \in Miner : OnCourse(n)'
<1>0. /\ PeerTypeOK /\ InReorg /\ peer.at # "copy" /\ peer.saved = Stack /\ peer.branch = Chosen
      /\ Stack # <<>> /\ Stack \in Seq(Saved)
  <2>1. PeerTypeOK /\ InReorg /\ peer.at # "copy"
    BY DEF InCourse, ShapeInv, MiningTypeOK, ReplaceChain, RestoreChain, InReorg, ReorgSteps
  <2> QED
    BY <2>1, PeerForms
<1>1. UNCHANGED <<at, work, target, abort, taken>> /\ Note(Misses(Peer, FALSE))
  BY DEF ReplaceChain, RestoreChain, flagVars, NoteChain
<1>2. Linked(chain')
  <2>1. Len(Stack) \in DOMAIN Stack /\ Last(Stack) = Stack[Len(Stack)]
    BY <1>0 DEF Last
  <2> QED
    BY <1>0, <2>1 DEF ReplaceChain, RestoreChain, InCourse, PeerOnCourse
<1>3. PeerOnCourse'
  <2>1. PICK s \in {"save", "restoreUtxo"} : PeerAt(s)
    BY DEF ReplaceChain, RestoreChain
  <2>2. s \in ReorgSteps /\ s # "copy"
    BY DEF ReorgSteps
  <2>3. peer'.at = s /\ Stack' = Stack /\ Chosen' = Chosen
    BY <1>0, <2>1, <2>2, PeerGoesOn
  <2> QED
    BY <2>3 DEF InCourse, PeerOnCourse, Linked
<1>4. Misses(Peer, FALSE) = {}
  BY <1>1 DEF Note, InCourse
<1>5. \A n \in Miner : at[n] \notin {"tip", "target", "reset", "snapshot", "append",
                                   "look", "search"}
  <2>1. \A n \in Miner : n # Peer
    BY DEF Miner, Peer
  <2> QED
    BY <1>4, <2>1 DEF Misses, Reading, Found, Searching
<1>6. \A n \in Miner : OnCourse(n)'
  BY <1>1, <1>5 DEF InCourse, OnCourse
<1> QED
  BY <1>2, <1>3, <1>6

\* What was missed stays so.
LEMMA MissedStays ==
  ASSUME [MiningNext]_miningVars
  PROVE  missed # {} => missed' # {}
<1>1. ASSUME NEW m \in Miner, RequestStep(m) PROVE missed' = missed
  BY <1>1, RequestMoves DEF historyVars
<1>2. CASE \/ ReceiveBlock \/ ConnectOrphan \/ ReceiveFork \/ Reorganise
           \/ TestTarget \/ RaiseAbort \/ ApplyPeer \/ NoOrphan
           \/ CopyChain \/ CopyUtxo \/ ClearUtxo \/ RebuildUtxo \/ RebuildAborts
           \/ SaveReorg \/ ReorgFails \/ KeepFork \/ UndoFork \/ RestorePeerUtxo
  BY <1>2 DEF ReceiveBlock, ConnectOrphan, ReceiveFork, Reorganise, TestTarget, RaiseAbort,
     ApplyPeer, NoOrphan, CopyChain, CopyUtxo, ClearUtxo, RebuildUtxo, RebuildAborts, SaveReorg,
     ReorgFails, KeepFork, UndoFork, RestorePeerUtxo, historyVars
<1>3. CASE AppendPeer \/ ReplaceChain \/ RestoreChain
  BY <1>3 DEF AppendPeer, ReplaceChain, RestoreChain, NoteChain, Note
<1>4. ASSUME NEW m \in Miner, LeaveLoop(m) \/ ReadIndex(m) \/ MinerStep(m)
      PROVE  missed # {} => missed' # {}
  BY <1>4 DEF LeaveLoop, ReadIndex, MinerStep, ReadTip, SetTarget, ResetAbort, Look, NotFound,
     Find, SnapshotUtxo, AppendOwn, ApplyOwn, SaveOwn, SaveFails, RestoreUtxo, CompareTip,
     PopOwn, NoteChain, Note, historyVars
<1>5. CASE UNCHANGED miningVars
  BY <1>5 DEF miningVars, historyVars
<1> QED
  BY <1>1, <1>2, <1>3, <1>4, <1>5 DEF MiningNext, PeerStep

LEMMA CourseNext == ShapeInv /\ CourseInv /\ [MiningNext]_miningVars => CourseInv'
<1> SUFFICES ASSUME ShapeInv, CourseInv, [MiningNext]_miningVars, missed' = {}, ~several'
             PROVE  Linked(chain') /\ PeerOnCourse' /\ \A n \in Miner : OnCourse(n)'
  BY DEF CourseInv
<1>0. InCourse
  BY MissedStays, SeveralStays DEF InCourse, CourseInv
<1>1. ASSUME NEW m \in Miner, RequestStep(m)
      PROVE  Linked(chain') /\ PeerOnCourse' /\ \A n \in Miner : OnCourse(n)'
  BY <1>0, <1>1, RequestOnCourse
<1>2. ASSUME NEW m \in Miner, LeaveLoop(m) \/ ReadIndex(m) \/ MinerStep(m)
      PROVE  Linked(chain') /\ PeerOnCourse' /\ \A n \in Miner : OnCourse(n)'
  BY <1>0, <1>2, SearchOnCourse, ChainStepOnCourse DEF MinerStep
<1>3. CASE ReceiveBlock \/ ConnectOrphan \/ ReceiveFork \/ Reorganise
  BY <1>0, <1>3, ReceiptOnCourse, ReorgOnCourse
<1>4. CASE PeerStep
  BY <1>0, <1>4, FlagOnCourse, ApplyOnCourse, AppendPeerOnCourse, ReorgOnCourse, SwitchOnCourse
     DEF PeerStep
<1>5. CASE UNCHANGED miningVars
  <2>1. Linked(chain') /\ PeerOnCourse' /\ Len(chain)' = Len(chain) /\ TipId(chain)' = TipId(chain)
    BY <1>0, <1>5, PeerStaysOnCourse DEF miningVars
  <2> QED
    BY <1>0, <1>5, <2>1 DEF miningVars, InCourse, flagVars, historyVars, OnCourse, Follows
<1> QED
  BY <1>1, <1>2, <1>3, <1>4, <1>5 DEF MiningNext

\* A block off the tip gets into the chain only through one of the listed windows,
\* or when two threads mine: in between, the target height and the flag reach every
\* search in time (mine_pending_transactions, mine_block, _add_block_to_chain), forks
\* and reorganisations that are undone included (_add_block_internal, replace_chain).
THEOREM OffTheTipOnlyInAWindow == MiningSpec => []CompetesOnlyInAWindow
<1>1. MiningInit => ShapeInv /\ CourseInv
  BY ShapeInit, ThreadInit, CourseInit DEF ShapeInv
<1>2. CourseInv => CompetesOnlyInAWindow
  BY DEF CourseInv, CompetesOnlyInAWindow
<1> QED
  BY <1>1, <1>2, ShapeNext, CourseNext, PTL DEF MiningSpec

---------------------------------------------------------------------------
\* The UTXO set and the chain

PeerWaits == peer.at \in {"test", "raise", "apply"}
HandsAt(steps) == {work[m].id : m \in {n \in Miner : at[n] \in steps}}

\* The blocks whose save failed before or after they were applied, those in the
\* chain that are not, or no more, in the UTXO set, and those to be applied.
Unsure == HandsAt({"restore"})
Waiting == HandsAt({"apply", "compare", "pop"}) \cup (IF PeerWaits THEN {peer.block.id} ELSE {})
Applying == HandsAt({"apply"})

\* UTXO set u is that of chain c but for the blocks in the threads' hands.
Exact(c, u, unsure, waiting, applying) ==
  /\ \A b \in (0 .. MaxBlocks) \ unsure : b \in u <=> b \in Ids(c) \ waiting
  /\ applying \subseteq Ids(c)

\* replace_chain is half done, or undoes what it did.
Torn == peer.at \in {"rebuild", "replace", "restore", "restoreUtxo"}

UtxoExact ==
  ~Torn => /\ Exact(chain, utxo, Unsure, Waiting, Applying)
           /\ PeerWaits => peer.block.id \in Ids(chain)

UtxoRebuilt == peer.at = "replace" => utxo = Ids(Chosen)

\* What a reorganisation or a fork may put back, unless others changed the chain.
SavedExact ==
  Peer \notin during =>
    /\ \A i \in DOMAIN Stack :
         \/ i = Len(Stack) /\ peer.at = "snapshot"
         \/ Exact(Stack[i].chain, Stack[i].utxo, Unsure, Waiting, Applying)
    /\ peer.at \in {"snapshot", "restoreUtxo"} => chain = Stack[Len(Stack)].chain

\* What the rollback of a thread will find, unless others changed the chain.
SnapExact ==
  \A m \in Storing : m \notin during =>
    /\ at[m] \in {"append", "apply", "save", "restore"} => snap[m] = utxo \ {work[m].id}
    /\ at[m] # "append" => chain # <<>> /\ Last(chain) = work[m]

UtxoParts == UtxoExact /\ UtxoRebuilt /\ SavedExact /\ SnapExact
UtxoInv == ~parted => UtxoParts
InBalance == ShapeInv /\ ~parted /\ UtxoParts

LEMMA UtxoInit == MiningInit => UtxoInv
<1> SUFFICES ASSUME MiningInit
             PROVE  UtxoParts
  BY DEF UtxoInv
<1> USE DEF MiningInit
<1>1. Ids(chain) = {0}
  BY DEF Ids, Genesis
<1>2. ~PeerWaits /\ peer.at = "idle" /\ Storing = {} /\ Stack = <<>>
  BY DEF PeerWaits, PeerIdle, Storing, Stack, InReorg, ReorgSteps
<1>3. Unsure = {} /\ Waiting = {} /\ Applying = {}
  BY <1>2 DEF Unsure, Waiting, Applying, HandsAt
<1>4. utxo = {0}
  OBVIOUS
<1> QED
  BY <1>1, <1>2, <1>3, <1>4 DEF UtxoParts, UtxoExact, UtxoRebuilt, SavedExact, SnapExact, Exact

\* Blocks whose fate becomes unsure are looked at no more.
LEMMA ExactStays ==
  ASSUME NEW c, NEW u, NEW unsure, NEW waiting, NEW applying,
         NEW unsure2, NEW waiting2, NEW applying2,
         Exact(c, u, unsure, waiting, applying),
         unsure \subseteq unsure2, applying2 \subseteq applying,
         \A b : b \notin unsure2 => (b \in waiting2 <=> b \in waiting)
  PROVE  Exact(c, u, unsure2, waiting2, applying2)
BY DEF Exact

\* The blocks in the threads' hands are in those of one thread each.
LEMMA OwnNumber ==
  ASSUME ShapeInv, NEW m \in Holding
  PROVE  /\ work[m].id \in 0 .. MaxBlocks
         /\ \A n \in Miner : n # m /\ at[n] \in {"append", "apply", "save", "restore", "compare", "pop"}
                             => work[n].id # work[m].id
         /\ PeerWaits => peer.block.id # work[m].id
<1>1. \A n \in Miner : at[n] \in {"append", "apply", "save", "restore", "compare", "pop"} => n \in Holding
  BY DEF Holding, Storing
<1>2. work[m].id \in 1 .. made /\ \A x \in 1 .. made : x \in 0 .. MaxBlocks
  BY MiningAssumption DEF ShapeInv, Fresh, WorkFresh, MiningTypeOK
<1>3. PeerWaits => PeerHasBlock
  BY DEF PeerWaits, PeerHasBlock
<1> QED
  BY <1>1, <1>2, <1>3 DEF ShapeInv, Fresh, WorkFresh, PeerFresh

\* What thread m has in its hands when it goes to step s, if it had a block.
LEMMA HandsMove ==
  ASSUME ShapeInv, NEW m \in Storing, NEW s, \A n \in Miner : at'[n] = IF n = m THEN s ELSE at[n],
         \A n \in Miner : n # m => work'[n] = work[n], NEW steps,
         s \notin steps \/ work'[m] = work[m],
         steps \subseteq {"append", "apply", "save", "restore", "compare", "pop"}
  PROVE  HandsAt(steps)' = IF s \in steps THEN HandsAt(steps) \cup {work[m].id}
                           ELSE HandsAt(steps) \ {work[m].id}
<1>1. \A n \in Miner : n # m /\ at[n] \in steps => work[n].id # work[m].id
  BY OwnNumber DEF Holding
<1>2. m \in Miner
  BY DEF Storing
<1>3. CASE s \in steps
  BY <1>2, <1>3 DEF HandsAt
<1>4. CASE s \notin steps
  BY <1>1, <1>2, <1>4 DEF HandsAt
<1> QED
  BY <1>3, <1>4

\* The same of the three sets of blocks whose state a thread decides.
LEMMA HandsGo ==
  ASSUME ShapeInv, NEW m \in Storing, NEW s, \A n \in Miner : at'[n] = IF n = m THEN s ELSE at[n],
         \A n \in Miner : n # m => work'[n] = work[n],
         s \notin {"apply", "compare", "pop", "restore"} \/ work'[m] = work[m]
  PROVE  /\ Unsure' = IF s = "restore" THEN Unsure \cup {work[m].id} ELSE Unsure \ {work[m].id}
         /\ HandsAt({"apply", "compare", "pop"})'
              = IF s \in {"apply", "compare", "pop"} THEN HandsAt({"apply", "compare", "pop"}) \cup {work[m].id}
                ELSE HandsAt({"apply", "compare", "pop"}) \ {work[m].id}
         /\ Applying' = IF s = "apply" THEN Applying \cup {work[m].id} ELSE Applying \ {work[m].id}
<1>1. ASSUME NEW steps \in {{"restore"}, {"apply", "compare", "pop"}, {"apply"}}
      PROVE  HandsAt(steps)' = IF s \in steps THEN HandsAt(steps) \cup {work[m].id}
                               ELSE HandsAt(steps) \ {work[m].id}
  <2>1. s \notin steps \/ work'[m] = work[m]
    OBVIOUS
  <2>2. steps \subseteq {"append", "apply", "save", "restore", "compare", "pop"}
    OBVIOUS
  <2> QED
    BY <2>1, <2>2, HandsMove
<1>2. Unsure' = IF s = "restore" THEN Unsure \cup {work[m].id} ELSE Unsure \ {work[m].id}
  BY <1>1 DEF Unsure
<1>3. Applying' = IF s = "apply" THEN Applying \cup {work[m].id} ELSE Applying \ {work[m].id}
  BY <1>1 DEF Applying
<1> QED
  BY <1>1, <1>2, <1>3

\* A step of a thread that leaves chain and UTXO set alone.
LEMMA QuietThread ==
  ASSUME InBalance, UNCHANGED <<chain, utxo, peer>>, Peer \in during' <=> Peer \in during,
         Unsure \subseteq Unsure', Applying' \subseteq Applying,
         \A b : b \notin Unsure' => (b \in Waiting' <=> b \in Waiting),
         SnapExact'
  PROVE  UtxoParts'
<1>1. /\ Torn' = Torn /\ PeerWaits' = PeerWaits /\ Stack' = Stack /\ Chosen' = Chosen
      /\ Ids(chain') = Ids(chain) /\ Ids(Chosen)' = Ids(Chosen)
      /\ chain' = chain /\ utxo' = utxo /\ peer' = peer
  BY DEF Torn, PeerWaits, Stack, Chosen, InReorg, Ids
<1>2. UtxoExact'
  <2> SUFFICES ASSUME ~Torn
               PROVE  /\ Exact(chain', utxo', Unsure', Waiting', Applying')
                      /\ PeerWaits => peer.block.id \in Ids(chain)
    BY <1>1 DEF UtxoExact, Exact, Ids
  <2>1. Exact(chain, utxo, Unsure, Waiting, Applying) /\ (PeerWaits => peer.block.id \in Ids(chain))
    BY DEF InBalance, UtxoParts, UtxoExact
  <2>2. Exact(chain, utxo, Unsure', Waiting', Applying')
    BY <2>1, ExactStays
  <2> QED
    BY <1>1, <2>1, <2>2
<1>3. UtxoRebuilt'
  BY <1>1 DEF InBalance, UtxoParts, UtxoRebuilt
<1>4. SavedExact'
  <2> SUFFICES ASSUME Peer \notin during
               PROVE  /\ \A i \in DOMAIN Stack :
                           \/ i = Len(Stack) /\ peer.at = "snapshot"
                           \/ Exact(Stack[i].chain, Stack[i].utxo, Unsure', Waiting', Applying')
                      /\ peer.at \in {"snapshot", "restoreUtxo"} => chain = Stack[Len(Stack)].chain
    BY <1>1 DEF SavedExact, Exact, Ids
  <2>1. /\ \A i \in DOMAIN Stack :
             \/ i = Len(Stack) /\ peer.at = "snapshot"
             \/ Exact(Stack[i].chain, Stack[i].utxo, Unsure, Waiting, Applying)
        /\ peer.at \in {"snapshot", "restoreUtxo"} => chain = Stack[Len(Stack)].chain
    BY DEF InBalance, UtxoParts, SavedExact
  <2>2. ASSUME NEW i \in DOMAIN Stack,
               Exact(Stack[i].chain, Stack[i].utxo, Unsure, Waiting, Applying)
        PROVE  Exact(Stack[i].chain, Stack[i].utxo, Unsure', Waiting', Applying')
    BY <2>2, ExactStays
  <2> QED
    BY <2>1, <2>2
<1> QED
  BY <1>2, <1>3, <1>4 DEF UtxoParts

\* One that had no block in its hands and has none.
LEMMA SearchUtxo ==
  ASSUME InBalance, UNCHANGED <<chain, utxo, during, peer>>,
         \A n \in Miner : \/ at'[n] = at[n] /\ work'[n] = work[n] /\ snap'[n] = snap[n]
                          \/ n \notin Storing /\ n \notin Storing'
  PROVE  UtxoParts'
<1>1. \A n \in Miner : /\ n \in Storing' <=> n \in Storing
                       /\ n \in Storing => at'[n] = at[n] /\ work'[n] = work[n] /\ snap'[n] = snap[n]
  BY DEF Storing
<1>2. \A n \in Miner : n \notin Storing => /\ at[n] \notin {"apply", "restore", "compare", "pop"}
                                          /\ at'[n] \notin {"apply", "restore", "compare", "pop"}
  BY <1>1 DEF Storing
<1>3. Unsure' = Unsure /\ Waiting' = Waiting /\ Applying' = Applying
  BY <1>1, <1>2 DEF Unsure, Waiting, Applying, HandsAt, PeerWaits
<1>4. SnapExact'
  <2> SUFFICES ASSUME NEW n \in Storing', n \notin during
               PROVE  /\ at'[n] \in {"append", "apply", "save", "restore"}
                           => snap'[n] = utxo \ {work'[n].id}
                      /\ at'[n] # "append" => chain # <<>> /\ Last(chain) = work'[n]
    BY DEF SnapExact, Last
  <2>1. n \in Storing
    BY <1>1 DEF Storing
  <2> QED
    BY <1>1, <2>1 DEF InBalance, UtxoParts, SnapExact, Storing
<1> QED
  BY <1>3, <1>4, QuietThread

LEMMA SearchStepUtxo ==
  ASSUME InBalance, NEW m \in Miner,
         \/ LeaveLoop(m) \/ ReadIndex(m) \/ ReadTip(m) \/ SetTarget(m)
         \/ ResetAbort(m) \/ Look(m) \/ NotFound(m) \/ Find(m) \/ RequestStep(m)
  PROVE  UtxoParts'
<1> USE DEF historyVars, flagVars
<1>0. /\ at \in [Miner -> Steps] /\ work = [n \in Miner |-> work[n]]
      /\ snap = [n \in Miner |-> snap[n]]
  BY DEF InBalance, ShapeInv, MiningTypeOK, Steps
<1>1. CASE \/ LeaveLoop(m) \/ ReadIndex(m) \/ ReadTip(m) \/ SetTarget(m)
           \/ ResetAbort(m) \/ Look(m) \/ NotFound(m) \/ Find(m)
  <2>1. UNCHANGED <<chain, utxo, during, peer>>
    BY <1>1 DEF LeaveLoop, ReadIndex, ReadTip, SetTarget, ResetAbort, Look, NotFound, Find
  <2>2. at[m] \in {"idle", "tip", "target", "reset", "look", "search"}
    BY <1>1 DEF LeaveLoop, ReadIndex, ReadTip, SetTarget, ResetAbort, Look, NotFound, Find
  <2>3. PICK s \in {"off", "tip", "target", "reset", "look", "search", "idle", "snapshot"} : Goto(m, s)
    BY <1>1 DEF LeaveLoop, ReadIndex, ReadTip, SetTarget, ResetAbort, Look, NotFound, Find, Return
  <2>4. \A n \in Miner \ {m} : work'[n] = work[n] /\ snap'[n] = snap[n]
    <3>1. CASE LeaveLoop(m) \/ SetTarget(m) \/ ResetAbort(m) \/ NotFound(m)
      BY <3>1 DEF LeaveLoop, SetTarget, ResetAbort, NotFound
    <3>2. CASE ReadIndex(m)
      BY <1>0, <3>2 DEF ReadIndex
    <3>3. CASE ReadTip(m)
      BY <1>0, <3>3 DEF ReadTip
    <3>4. CASE Look(m)
      BY <1>0, <3>4 DEF Look, Return
    <3>5. CASE Find(m)
      BY <1>0, <3>5 DEF Find
    <3> QED
      BY <1>1, <3>1, <3>2, <3>3, <3>4, <3>5
  <2>5. \A n \in Miner : at'[n] = IF n = m THEN s ELSE at[n]
    BY <1>0, <2>3 DEF Goto
  <2>6. m \notin Storing /\ m \notin Storing'
    BY <2>2, <2>3, <2>5 DEF Storing
  <2> QED
    BY <2>1, <2>4, <2>5, <2>6, SearchUtxo
<1>2. CASE RequestStep(m)
  <2>1. /\ UNCHANGED <<chain, utxo, during, peer, work, snap>>
        /\ at' = at \/ (Goto(m, "idle") /\ request[m] \in {"new", "spawn"})
    BY <1>2, RequestMoves
  <2>2. at[m] # "off" => request[m] \in {"loop", "once"}
    BY DEF InBalance, ShapeInv, ThreadInv, OneThread, Running
  <2>3. \A n \in Miner : at'[n] = at[n] \/ (n \notin Storing /\ n \notin Storing')
    <3>1. CASE at' = at
      BY <3>1
    <3>2. CASE Goto(m, "idle") /\ request[m] \in {"new", "spawn"}
      <4>1. at[m] = "off" /\ \A n \in Miner : at'[n] = IF n = m THEN "idle" ELSE at[n]
        BY <1>0, <2>2, <3>2 DEF Goto
      <4> QED
        BY <4>1 DEF Storing
    <3> QED
      BY <2>1, <3>1, <3>2
  <2> QED
    BY <2>1, <2>3, SearchUtxo
<1> QED
  BY <1>1, <1>2

\* The thread takes its snapshot: its own block is neither in the chain nor applied.
LEMMA SnapshotUtxoKeeps ==
  ASSUME InBalance, NEW m \in Miner, SnapshotUtxo(m)
  PROVE  UtxoParts'
<1> USE DEF InBalance
<1>1. /\ at[m] = "snapshot" /\ UNCHANGED <<chain, utxo, work, peer>> /\ during' = during \ {m}
      /\ snap'[m] = utxo /\ \A n \in Miner : n # m => snap'[n] = snap[n]
  BY DEF SnapshotUtxo, ShapeInv, MiningTypeOK
<1>2. \A n \in Miner : at'[n] = IF n = m THEN "append" ELSE at[n]
  BY DEF SnapshotUtxo, Goto, ShapeInv, MiningTypeOK
<1>3. Storing' = Storing \cup {m}
  BY <1>1, <1>2 DEF Storing
<1>4. Unsure' = Unsure /\ Waiting' = Waiting /\ Applying' = Applying
  BY <1>1, <1>2 DEF Unsure, Waiting, Applying, HandsAt, PeerWaits
<1>5. work[m].id \notin utxo
  <2>1. m \in Found
    BY <1>1 DEF Found
  <2> QED
    BY <2>1, KnownHolds DEF ShapeInv, Fresh, WorkFresh
<1>6. SnapExact'
  <2> SUFFICES ASSUME NEW n \in Storing', n \notin during'
               PROVE  /\ at'[n] \in {"append", "apply", "save", "restore"}
                           => snap'[n] = utxo \ {work[n].id}
                      /\ at'[n] # "append" => chain # <<>> /\ Last(chain) = work[n]
    BY <1>1 DEF SnapExact, Last
  <2>1. CASE n = m
    BY <1>1, <1>2, <1>5, <2>1
  <2>2. CASE n # m
    BY <1>1, <1>2, <1>3, <2>2 DEF UtxoParts, SnapExact, Storing
  <2> QED
    BY <2>1, <2>2
<1>7. Peer \in during' <=> Peer \in during
  BY <1>1 DEF Miner, Peer
<1> QED
  BY <1>1, <1>4, <1>6, <1>7, QuietThread

\* The block is saved, or could not be.
LEMMA SaveUtxo ==
  ASSUME InBalance, NEW m \in Miner, SaveOwn(m) \/ SaveFails(m)
  PROVE  UtxoParts'
<1> USE DEF InBalance
<1>0. /\ UNCHANGED <<chain, utxo, peer>> /\ m \in Storing /\ at[m] \in {"apply", "save"}
      /\ PeerWaits' = PeerWaits /\ Last(chain)' = Last(chain)
  BY DEF SaveOwn, SaveFails, Storing, PeerWaits, Last
<1>1. CASE SaveOwn(m)
  <2>1. PICK s \in {"idle", "off"} : \A n \in Miner : at'[n] = IF n = m THEN s ELSE at[n]
    BY <1>1 DEF SaveOwn, Return, Goto, ShapeInv, MiningTypeOK
  <2>2. /\ at[m] = "save" /\ during' = during \ {m}
        /\ \A n \in Miner : n # m => work'[n] = work[n] /\ snap'[n] = snap[n]
    BY <1>1 DEF SaveOwn, Return, ShapeInv, MiningTypeOK
  <2>3. Storing' = Storing \ {m}
    BY <2>1 DEF Storing
  <2>4. Unsure' = Unsure /\ Waiting' = Waiting /\ Applying' = Applying
    BY <1>0, <2>1, <2>2 DEF Unsure, Waiting, Applying, HandsAt, PeerWaits
  <2>5. SnapExact'
    <3> SUFFICES ASSUME NEW n \in Storing, n # m, n \notin during
                 PROVE  /\ at[n] \in {"append", "apply", "save", "restore"}
                             => snap[n] = utxo \ {work[n].id}
                        /\ at[n] # "append" => chain # <<>> /\ Last(chain) = work[n]
      BY <1>0, <2>1, <2>2, <2>3 DEF SnapExact, Storing
    <3> QED
      BY DEF UtxoParts, SnapExact
  <2>6. Peer \in during' <=> Peer \in during
    BY <2>2 DEF Miner, Peer
  <2> QED
    BY <1>0, <2>4, <2>5, <2>6, QuietThread
<1>2. CASE SaveFails(m)
  <2>1. /\ UNCHANGED <<work, snap, during>>
        /\ \A n \in Miner : at'[n] = IF n = m THEN "restore" ELSE at[n]
    BY <1>2 DEF SaveFails, Goto, ShapeInv, MiningTypeOK, historyVars
  <2>2. Storing' = Storing
    BY <1>0, <2>1 DEF Storing
  <2>3. /\ Unsure' = Unsure \cup {work[m].id}
        /\ HandsAt({"apply", "compare", "pop"})' = HandsAt({"apply", "compare", "pop"}) \ {work[m].id}
        /\ Applying' = Applying \ {work[m].id}
    BY <1>0, <2>1, HandsGo
  <2>4. \A b : b \notin Unsure' => (b \in Waiting' <=> b \in Waiting)
    BY <1>0, <2>3 DEF Waiting
  <2>5. SnapExact'
    BY <1>0, <2>1, <2>2 DEF UtxoParts, SnapExact, Storing
  <2> QED
    BY <1>0, <2>1, <2>3, <2>4, <2>5, QuietThread
<1> QED
  BY <1>1, <1>2

\* The own block is still the last one.
LEMMA CompareTipUtxo ==
  ASSUME InBalance, ~parted', NEW m \in Miner, CompareTip(m)
  PROVE  UtxoParts'
<1> USE DEF InBalance
<1>1. /\ at[m] = "compare" /\ m \notin during /\ UNCHANGED <<chain, utxo, peer>>
  BY DEF CompareTip
<1>2. m \in Storing
  BY <1>1 DEF Storing
<1>3. chain # <<>> /\ Last(chain) = work[m]
  BY <1>1, <1>2 DEF UtxoParts, SnapExact
<1>4. Goto(m, "pop") /\ UNCHANGED <<during, work, snap>>
  BY <1>3 DEF CompareTip
<1>5. \A n \in Miner : at'[n] = IF n = m THEN "pop" ELSE at[n]
  BY <1>4 DEF Goto, ShapeInv, MiningTypeOK
<1>6. Storing' = Storing
  BY <1>1, <1>5 DEF Storing
<1>7. Unsure' = Unsure /\ Waiting' = Waiting /\ Applying' = Applying
  BY <1>1, <1>4, <1>5 DEF Unsure, Waiting, Applying, HandsAt, PeerWaits
<1>8. Last(chain)' = Last(chain)
  BY <1>1 DEF Last
<1>9. SnapExact'
  BY <1>1, <1>3, <1>4, <1>5, <1>6, <1>8 DEF UtxoParts, SnapExact, Storing
<1> QED
  BY <1>1, <1>4, <1>7, <1>9, QuietThread

\* A change by a mining thread: the thread with the peers' blocks notes it if it
\* holds a snapshot.
LEMMA ChangeIsNoted ==
  ASSUME InBalance, peer' = peer, Stack # <<>> => Peer \in during',
         peer.at \notin {"rebuild", "replace"}
  PROVE  UtxoRebuilt' /\ SavedExact' /\ Torn' = Torn /\ PeerWaits' = PeerWaits
<1>1. /\ Stack' = Stack /\ Torn' = Torn /\ PeerWaits' = PeerWaits /\ PeerTypeOK
      /\ PeerHasBlock' = PeerHasBlock
  BY DEF Stack, InReorg, Torn, PeerWaits, PeerHasBlock, InBalance, ShapeInv, MiningTypeOK
<1>2. peer.at \in {"snapshot", "restoreUtxo"} => Stack # <<>>
  BY <1>1, PeerForms DEF InReorg, ReorgSteps
<1>3. UtxoRebuilt'
  BY DEF UtxoRebuilt
<1>4. SavedExact'
  <2>1. CASE Stack = <<>>
    BY <1>1, <1>2, <2>1 DEF SavedExact
  <2>2. CASE Stack # <<>>
    BY <2>2 DEF SavedExact
  <2> QED
    BY <2>1, <2>2
<1> QED
  BY <1>1, <1>3, <1>4

\* The block is appended and waits to be applied.
LEMMA AppendOwnUtxo ==
  ASSUME InBalance, ~parted', NEW m \in Miner, AppendOwn(m)
  PROVE  UtxoParts'
<1> USE DEF InBalance
<1>0. /\ PeerTypeOK /\ during \subseteq Miner \cup {Peer} /\ m \in Miner \cup {Peer} /\ m # Peer
  BY DEF ShapeInv, MiningTypeOK, Miner, Peer
<1>1. /\ at[m] = "append" /\ chain' = Append(chain, work[m])
      /\ UNCHANGED <<utxo, work, snap, peer>> /\ NoteUtxo(m)
      /\ peer.at \notin {"rebuild", "replace"}
  BY DEF AppendOwn, NoteParted, Between
<1>2. \A n \in Miner : at'[n] = IF n = m THEN "apply" ELSE at[n]
  BY DEF AppendOwn, Goto, ShapeInv, MiningTypeOK
<1>3. m \in Found /\ m \in Storing /\ m \in Holding
  BY <1>1 DEF Holding, Found, Storing
<1>4. Storing' = Storing
  BY <1>1, <1>2 DEF Storing
<1>5. /\ Stack # <<>> => Peer \in during'
      /\ \A n \in Storing : n # m => n \in during'
      /\ during \subseteq during'
  BY <1>0, <1>1, UtxoNoted
<1>6. UtxoRebuilt' /\ SavedExact' /\ Torn' = Torn /\ PeerWaits' = PeerWaits
  BY <1>1, <1>5, ChangeIsNoted
<1>7. /\ Unsure' = Unsure \ {work[m].id}
      /\ HandsAt({"apply", "compare", "pop"})' = HandsAt({"apply", "compare", "pop"}) \cup {work[m].id}
      /\ Applying' = Applying \cup {work[m].id}
  BY <1>1, <1>2, <1>3, HandsGo
<1>8. Waiting' = Waiting \cup {work[m].id}
  BY <1>1, <1>6, <1>7 DEF Waiting
<1>9. /\ Ids(chain') = Ids(chain) \cup {work[m].id} /\ chain' # <<>> /\ Last(chain') = work[m]
  BY <1>1, AppendBlock DEF ShapeInv, MiningTypeOK
<1>10. work[m].id \notin utxo /\ work[m].id \notin Unsure
  <2>1. work[m].id \notin utxo
    BY <1>3, KnownHolds DEF ShapeInv, Fresh, WorkFresh
  <2>2. work[m].id \notin Unsure
    BY <1>1, <1>3, OwnNumber DEF Unsure, HandsAt
  <2> QED
    BY <2>1, <2>2
<1>11. UtxoExact'
  <2> SUFFICES ASSUME ~Torn
               PROVE  /\ Exact(chain', utxo', Unsure', Waiting', Applying')
                      /\ PeerWaits => peer.block.id \in Ids(chain')
    BY <1>1, <1>6 DEF UtxoExact, Exact, Ids
  <2> QED
    BY <1>1, <1>7, <1>8, <1>9, <1>10 DEF UtxoParts, UtxoExact, Exact
<1>12. SnapExact'
  BY <1>1, <1>2, <1>3, <1>4, <1>5, <1>9 DEF UtxoParts, SnapExact
<1> QED
  BY <1>6, <1>11, <1>12 DEF UtxoParts

\* The block is applied.
LEMMA ApplyOwnUtxo ==
  ASSUME InBalance, ~parted', NEW m \in Miner, ApplyOwn(m)
  PROVE  UtxoParts'
<1> USE DEF InBalance
<1>0. /\ PeerTypeOK /\ during \subseteq Miner \cup {Peer} /\ m \in Miner \cup {Peer} /\ m # Peer
  BY DEF ShapeInv, MiningTypeOK, Miner, Peer
<1>1. /\ at[m] = "apply" /\ utxo' = utxo \cup {work[m].id}
      /\ UNCHANGED <<chain, work, snap, peer>> /\ NoteUtxo(m)
      /\ peer.at \notin {"rebuild", "replace"}
  BY DEF ApplyOwn, NoteParted, Between
<1>2. \A n \in Miner : at'[n] = IF n = m THEN "save" ELSE at[n]
  BY DEF ApplyOwn, Goto, ShapeInv, MiningTypeOK
<1>3. m \in Storing /\ m \in Holding
  BY <1>1 DEF Holding, Storing
<1>4. Storing' = Storing
  BY <1>1, <1>2 DEF Storing
<1>5. /\ Stack # <<>> => Peer \in during'
      /\ \A n \in Storing : n # m => n \in during'
      /\ during \subseteq during'
  BY <1>0, <1>1, UtxoNoted
<1>6. UtxoRebuilt' /\ SavedExact' /\ Torn' = Torn /\ PeerWaits' = PeerWaits
  BY <1>1, <1>5, ChangeIsNoted
<1>7. /\ Unsure' = Unsure \ {work[m].id}
      /\ HandsAt({"apply", "compare", "pop"})' = HandsAt({"apply", "compare", "pop"}) \ {work[m].id}
      /\ Applying' = Applying \ {work[m].id}
  BY <1>1, <1>2, <1>3, HandsGo
<1>8. Waiting' = Waiting \ {work[m].id}
  <2>1. PeerWaits => peer.block.id # work[m].id
    BY <1>3, OwnNumber
  <2> QED
    BY <1>1, <1>6, <1>7, <2>1 DEF Waiting
<1>9. /\ Ids(chain)' = Ids(chain) /\ Last(chain)' = Last(chain)
  BY <1>1 DEF Ids, Last
<1>10. work[m].id \in Applying /\ work[m].id \notin Unsure
  BY <1>1, <1>3, OwnNumber DEF Unsure, Applying, HandsAt
<1>11. UtxoExact'
  <2> SUFFICES ASSUME ~Torn
               PROVE  /\ Exact(chain', utxo', Unsure', Waiting', Applying')
                      /\ PeerWaits => peer.block.id \in Ids(chain')
    BY <1>1, <1>6 DEF UtxoExact, Exact, Ids
  <2> QED
    BY <1>1, <1>7, <1>8, <1>10 DEF UtxoParts, UtxoExact, Exact
<1>12. SnapExact'
  BY <1>1, <1>2, <1>3, <1>4, <1>5, <1>9 DEF UtxoParts, SnapExact
<1> QED
  BY <1>6, <1>11, <1>12 DEF UtxoParts

\* The rollback finds the UTXO set as it was before the block.
LEMMA RestoreUtxoKeeps ==
  ASSUME InBalance, ~parted', NEW m \in Miner, RestoreUtxo(m)
  PROVE  UtxoParts'
<1> USE DEF InBalance
<1>0. /\ PeerTypeOK /\ during \subseteq Miner \cup {Peer} /\ m \in Miner \cup {Peer} /\ m # Peer
  BY DEF ShapeInv, MiningTypeOK, Miner, Peer
<1>1. /\ at[m] = "restore" /\ utxo' = snap[m] /\ m \notin during
      /\ UNCHANGED <<chain, work, snap, peer>> /\ NoteUtxo(m)
      /\ peer.at \notin {"rebuild", "replace"}
  BY DEF RestoreUtxo, Between
<1>2. \A n \in Miner : at'[n] = IF n = m THEN "compare" ELSE at[n]
  BY DEF RestoreUtxo, Goto, ShapeInv, MiningTypeOK
<1>3. m \in Storing /\ m \in Holding
  BY <1>1 DEF Holding, Storing
<1>4. Storing' = Storing
  BY <1>1, <1>2 DEF Storing
<1>5. /\ Stack # <<>> => Peer \in during'
      /\ \A n \in Storing : n # m => n \in during'
      /\ during \subseteq during'
  BY <1>0, <1>1, UtxoNoted
<1>6. UtxoRebuilt' /\ SavedExact' /\ Torn' = Torn /\ PeerWaits' = PeerWaits
  BY <1>1, <1>5, ChangeIsNoted
<1>7. /\ Unsure' = Unsure \ {work[m].id}
      /\ HandsAt({"apply", "compare", "pop"})' = HandsAt({"apply", "compare", "pop"}) \cup {work[m].id}
      /\ Applying' = Applying \ {work[m].id}
  BY <1>1, <1>2, <1>3, HandsGo
<1>8. Waiting' = Waiting \cup {work[m].id}
  BY <1>1, <1>6, <1>7 DEF Waiting
<1>9. /\ Ids(chain)' = Ids(chain) /\ Last(chain)' = Last(chain)
  BY <1>1 DEF Ids, Last
<1>10. utxo' = utxo \ {work[m].id}
  BY <1>1, <1>3 DEF UtxoParts, SnapExact
<1>11. UtxoExact'
  <2> SUFFICES ASSUME ~Torn
               PROVE  /\ Exact(chain', utxo', Unsure', Waiting', Applying')
                      /\ PeerWaits => peer.block.id \in Ids(chain')
    BY <1>1, <1>6 DEF UtxoExact, Exact, Ids
  <2> QED
    BY <1>1, <1>7, <1>8, <1>10 DEF UtxoParts, UtxoExact, Exact
<1>12. SnapExact'
  BY <1>1, <1>2, <1>3, <1>4, <1>5, <1>9 DEF UtxoParts, SnapExact
<1> QED
  BY <1>6, <1>11, <1>12 DEF UtxoParts

\* The block leaves the chain that it left the UTXO set for.
LEMMA PopOwnUtxo ==
  ASSUME InBalance, ~parted', NEW m \in Miner, PopOwn(m)
  PROVE  UtxoParts'
<1> USE DEF InBalance
<1>0. /\ PeerTypeOK /\ during \subseteq Miner \cup {Peer} /\ m # Peer
  BY DEF ShapeInv, MiningTypeOK, Miner, Peer
<1>1. /\ at[m] = "pop" /\ m \notin during /\ chain' = Front(chain)
      /\ UNCHANGED <<utxo, peer>> /\ during' = (during \cup Holders) \ {m} /\ Return(m)
      /\ peer.at \notin {"rebuild", "replace"}
  BY DEF PopOwn, Between
<1>2. m \in Holding /\ m \in Storing
  BY <1>1 DEF Holding, Storing
<1>3. chain # <<>> /\ Last(chain) = work[m]
  BY <1>1, <1>2 DEF UtxoParts, SnapExact
<1>4. Ids(chain') = Ids(chain) \ {work[m].id}
  BY <1>1, <1>3, PopBlock DEF ShapeInv, MiningTypeOK, Fresh, ChainsFresh
<1>5. PICK s \in {"idle", "off"} : \A n \in Miner : at'[n] = IF n = m THEN s ELSE at[n]
  BY <1>1 DEF Return, Goto, ShapeInv, MiningTypeOK
<1>6. \A n \in Miner : n # m => work'[n] = work[n]
  BY <1>1 DEF Return, ShapeInv, MiningTypeOK
<1>7. Storing' = Storing \ {m}
  BY <1>1, <1>5 DEF Storing
<1>8. /\ Unsure' = Unsure \ {work[m].id}
      /\ HandsAt({"apply", "compare", "pop"})' = HandsAt({"apply", "compare", "pop"}) \ {work[m].id}
      /\ Applying' = Applying \ {work[m].id}
  BY <1>1, <1>2, <1>5, <1>6, HandsGo
<1>9. /\ Stack # <<>> => Peer \in during'
      /\ \A n \in Storing : n # m => n \in during'
  BY <1>0, <1>1, PeerHolds
<1>10. UtxoRebuilt' /\ SavedExact' /\ Torn' = Torn /\ PeerWaits' = PeerWaits
  BY <1>1, <1>9, ChangeIsNoted
<1>11. PeerWaits => peer.block.id # work[m].id
  BY <1>2, OwnNumber
<1>12. /\ Waiting' = Waiting \ {work[m].id} /\ work[m].id \in Waiting
       /\ work[m].id \notin Unsure /\ work[m].id \in 0 .. MaxBlocks
  <2>1. work[m].id \in HandsAt({"apply", "compare", "pop"})
    BY <1>1 DEF HandsAt
  <2>2. work[m].id \notin Unsure
    BY <1>1, <1>2, OwnNumber DEF Unsure, HandsAt
  <2> QED
    BY <1>1, <1>2, <1>8, <1>10, <1>11, <2>1, <2>2, OwnNumber DEF Waiting
<1>13. UtxoExact'
  <2> SUFFICES ASSUME ~Torn
               PROVE  /\ Exact(chain', utxo', Unsure', Waiting', Applying')
                      /\ PeerWaits => peer.block.id \in Ids(chain')
    BY <1>1, <1>10 DEF UtxoExact, Exact, Ids
  <2> QED
    BY <1>1, <1>4, <1>8, <1>11, <1>12 DEF UtxoParts, UtxoExact, Exact
<1>14. SnapExact'
  BY <1>7, <1>9 DEF SnapExact
<1> QED
  BY <1>10, <1>13, <1>14 DEF UtxoParts


\* A step of the thread with the peers' blocks that leaves chain and UTXO set alone.
LEMMA PeerQuiet ==
  ASSUME InBalance, UNCHANGED <<chain, utxo, at, work, snap>>,
         \A m \in Miner : m \in during' <=> m \in during,
         PeerWaits' <=> PeerWaits, PeerWaits => peer'.block = peer.block,
         Torn => Torn', peer'.at # "replace", SavedExact'
  PROVE  UtxoParts'
<1>1. Unsure' = Unsure /\ Waiting' = Waiting /\ Applying' = Applying
      /\ Storing' = Storing /\ Storing \subseteq Miner
  BY DEF Unsure, Waiting, Applying, HandsAt, Storing
<1>2. Ids(chain)' = Ids(chain) /\ Last(chain)' = Last(chain)
  BY DEF Ids, Last
<1>3. UtxoExact'
  <2> SUFFICES ASSUME ~Torn
               PROVE  /\ Exact(chain', utxo', Unsure', Waiting', Applying')
                      /\ PeerWaits' => peer'.block.id \in Ids(chain')
    BY DEF UtxoExact, Exact, Ids
  <2> QED
    BY <1>1, <1>2 DEF InBalance, UtxoParts, UtxoExact
<1>4. UtxoRebuilt'
  BY DEF UtxoRebuilt
<1>5. SnapExact'
  BY <1>1, <1>2 DEF InBalance, UtxoParts, SnapExact
<1> QED
  BY <1>3, <1>4, <1>5 DEF UtxoParts

\* It receives blocks, or a chain, and raises the flag.
LEMMA ReceiptUtxo ==
  ASSUME InBalance, ReceiveBlock \/ ConnectOrphan \/ TestTarget \/ RaiseAbort \/ NoOrphan
  PROVE  UtxoParts'
<1>0. PeerTypeOK
  BY DEF InBalance, ShapeInv, MiningTypeOK
<1>1. /\ UNCHANGED <<chain, utxo, at, work, snap, during>>
      /\ peer.at \in {"idle", "orphans", "test", "raise"}
      /\ \/ peer'.at \in {"append", "idle"} /\ peer.at \in {"idle", "orphans"}
         \/ /\ peer.at \in {"test", "raise"}
            /\ \E s \in {"raise", "apply"} : peer' = [peer EXCEPT !.at = s]
  BY DEF ReceiveBlock, ConnectOrphan, TestTarget, RaiseAbort, NoOrphan, PeerIdle, historyVars
<1>2. \/ peer'.at \in {"append", "idle"} /\ peer.at \in {"idle", "orphans"}
      \/ /\ peer.at \in {"test", "raise"} /\ peer'.at \in {"raise", "apply"}
         /\ peer'.block = peer.block
  BY <1>0, <1>1, PeerForms DEF PeerHasBlock
<1>3. Stack' = <<>> /\ peer'.at \notin {"replace", "snapshot", "restoreUtxo"} /\ ~Torn
  BY <1>2 DEF Stack, InReorg, ReorgSteps, Torn
<1>4. SavedExact'
  BY <1>3 DEF SavedExact
<1>5. (PeerWaits' <=> PeerWaits) /\ (PeerWaits => peer'.block = peer.block)
  BY <1>2 DEF PeerWaits
<1> QED
  BY <1>1, <1>3, <1>4, <1>5, PeerQuiet

\* What it saved stays, or some of it.
LEMMA StackExact ==
  ASSUME InBalance, UNCHANGED <<at, work>>, PeerWaits' <=> PeerWaits, ~PeerWaits,
         Peer \in during' <=> Peer \in during,
         peer.at # "snapshot",
         \A i \in DOMAIN Stack' : /\ i \in DOMAIN Stack /\ Stack'[i] = Stack[i],
         peer'.at \notin {"snapshot", "restoreUtxo"}
  PROVE  SavedExact'
<1>1. Unsure' = Unsure /\ Waiting' = Waiting /\ Applying' = Applying
  BY DEF Unsure, Waiting, Applying, HandsAt
<1> SUFFICES ASSUME Peer \notin during, NEW i \in DOMAIN Stack'
             PROVE  Exact(Stack'[i].chain, Stack'[i].utxo, Unsure', Waiting', Applying')
  BY DEF SavedExact, Exact, Ids
<1>2. Exact(Stack[i].chain, Stack[i].utxo, Unsure, Waiting, Applying)
  BY DEF InBalance, UtxoParts, SavedExact
<1> QED
  BY <1>1, <1>2

\* It finds a chain, saves what it did, or is to undo it.
LEMMA DecideUtxo ==
  ASSUME InBalance, Reorganise \/ SaveReorg \/ ReorgFails \/ KeepFork \/ UndoFork
  PROVE  UtxoParts'
<1>0. PeerTypeOK
  BY DEF InBalance, ShapeInv, MiningTypeOK
<1>1. /\ UNCHANGED <<chain, utxo, at, work, snap, during>>
      /\ peer.at \in {"idle", "fork", "adopted", "save", "rebuild", "replace"}
      /\ peer.at # "idle" => InReorg
  BY DEF Reorganise, SaveReorg, ReorgFails, KeepFork, UndoFork, PeerIdle, historyVars, InReorg,
     ReorgSteps
<1>2. /\ peer'.at \in {"copy", "idle", "adopted", "restore"}
      /\ peer.at \in {"rebuild", "replace"} => peer'.at = "restore"
      /\ \A i \in DOMAIN Stack' : i \in DOMAIN Stack /\ Stack'[i] = Stack[i]
  <2>1. CASE Reorganise
    <3>1. PICK kept \in 1 .. Len(chain), count \in 1 .. MaxBlocks - made :
            peer' = Reorg("copy", IF peer = PeerIdle THEN <<>> ELSE peer.saved, Branch(kept, count))
      BY <2>1 DEF Reorganise
    <3>2. peer = PeerIdle \/ peer.at = "fork"
      BY <2>1 DEF Reorganise
    <3>3. peer'.at = "copy" /\ Stack' = IF peer = PeerIdle THEN <<>> ELSE peer.saved
      BY <3>1 DEF Reorg, Stack, InReorg, ReorgSteps
    <3>4. Stack' = <<>> \/ Stack' = Stack
      BY <3>2, <3>3 DEF Stack, InReorg, ReorgSteps
    <3>5. Stack' = <<>> => DOMAIN Stack' = {}
      OBVIOUS
    <3> QED
      BY <3>2, <3>3, <3>4, <3>5 DEF PeerIdle
  <2>2. CASE SaveReorg
    <3>1. InReorg /\ Stack # <<>> /\ Pop("adopted") /\ peer.at = "save"
      BY <1>0, <2>2, PeerForms DEF SaveReorg, InReorg, ReorgSteps
    <3> QED
      BY <1>0, <3>1, PeerPops
  <2>3. CASE ReorgFails \/ UndoFork
    <3>1. InReorg /\ peer.at # "copy" /\ PeerAt("restore")
      BY <2>3 DEF ReorgFails, UndoFork, InReorg, ReorgSteps
    <3>2. "restore" \in ReorgSteps
      BY DEF ReorgSteps
    <3> QED
      BY <1>0, <3>1, <3>2, PeerGoesOn
  <2>4. CASE KeepFork
    <3>1. peer' = PeerIdle /\ peer.at \in {"fork", "adopted"}
      BY <2>4 DEF KeepFork
    <3>2. peer'.at = "idle" /\ Stack' = <<>>
      BY <3>1, PeerRests
    <3>3. Stack' = <<>> => DOMAIN Stack' = {}
      OBVIOUS
    <3> QED
      BY <3>1, <3>2, <3>3
  <2> QED
    BY <2>1, <2>2, <2>3, <2>4
<1>3. ~PeerWaits /\ ~PeerWaits' /\ (Torn => Torn') /\ peer'.at # "replace"
  BY <1>1, <1>2 DEF PeerWaits, Torn
<1>4. SavedExact'
  BY <1>1, <1>2, <1>3, StackExact
<1> QED
  BY <1>1, <1>3, <1>4, PeerQuiet

\* It takes a snapshot of the chain: what it saved before stays.
LEMMA SnapshotChainUtxo ==
  ASSUME InBalance, ReceiveFork \/ CopyChain
  PROVE  UtxoParts'
<1>0. PeerTypeOK /\ chain \in Seq(Blocks)
  BY DEF InBalance, ShapeInv, MiningTypeOK
<1>1. /\ UNCHANGED <<chain, utxo, at, work, snap>>
      /\ peer.at \in {"idle", "copy"}
      /\ Stack \in Seq(Saved) /\ Chosen \in Seq(Blocks)
      /\ peer' = Reorg("snapshot", PushChain(Stack), Chosen)
      /\ during' = IF Stack = <<>> THEN during \ {Peer} ELSE during
  <2>1. CASE ReceiveFork
    <3>1. Stack = <<>> /\ Chosen = <<>> /\ peer.at = "idle"
      BY <2>1 DEF ReceiveFork, PeerIdle, Stack, Chosen, InReorg, ReorgSteps
    <3> QED
      BY <1>0, <2>1, <3>1, PeerForms DEF ReceiveFork
  <2>2. CASE CopyChain
    <3>1. InReorg
      BY <2>2 DEF CopyChain, InReorg, ReorgSteps
    <3> QED
      BY <1>0, <2>2, <3>1, PeerForms DEF CopyChain
  <2> QED
    BY <2>1, <2>2
<1>2. /\ PushChain(Stack) \in Seq(Saved) /\ PushChain(Stack) # <<>>
      /\ Len(PushChain(Stack)) = Len(Stack) + 1
      /\ DOMAIN PushChain(Stack) = DOMAIN Stack \cup {Len(Stack) + 1}
      /\ \A i \in DOMAIN Stack : PushChain(Stack)[i] = Stack[i]
      /\ PushChain(Stack)[Len(Stack) + 1].chain = chain
  BY <1>0, <1>1, ChainPushed
<1>3. peer'.at = "snapshot" /\ Stack' = PushChain(Stack)
  <2>1. "snapshot" \in ReorgSteps
    BY DEF ReorgSteps
  <2> QED
    BY <1>1, <1>2, <2>1, PeerTakes
<1>4. /\ ~PeerWaits /\ ~PeerWaits' /\ ~Torn
      /\ \A m \in Miner : m \in during' <=> m \in during
  BY <1>1, <1>3 DEF PeerWaits, Torn, Miner, Peer
<1>5. Unsure' = Unsure /\ Waiting' = Waiting /\ Applying' = Applying
  BY <1>1, <1>4 DEF Unsure, Waiting, Applying, HandsAt
<1>6. SavedExact'
  <2> SUFFICES ASSUME Peer \notin during'
               PROVE  /\ \A i \in DOMAIN Stack' :
                           \/ i = Len(Stack')
                           \/ Exact(Stack'[i].chain, Stack'[i].utxo, Unsure', Waiting', Applying')
                      /\ chain' = Stack'[Len(Stack')].chain
    BY <1>3 DEF SavedExact, Exact, Ids
  <2>1. ASSUME NEW i \in DOMAIN Stack
        PROVE  Exact(Stack[i].chain, Stack[i].utxo, Unsure, Waiting, Applying)
    <3>1. Stack # <<>> /\ Peer \notin during
      BY <1>1, <2>1
    <3> QED
      BY <1>1, <2>1, <3>1 DEF InBalance, UtxoParts, SavedExact
  <2> QED
    BY <1>1, <1>2, <1>3, <1>5, <2>1
<1> QED
  BY <1>1, <1>3, <1>4, <1>6, PeerQuiet

\* It takes a snapshot of the UTXO set, which is still that of the chain in the
\* first half of the snapshot.
LEMMA SnapshotPeerUtxo ==
  ASSUME InBalance, CopyUtxo
  PROVE  UtxoParts'
<1>0. PeerTypeOK /\ utxo \subseteq 0 .. MaxBlocks
  BY DEF InBalance, ShapeInv, MiningTypeOK
<1>1. InReorg /\ peer.at = "snapshot" /\ Stack # <<>> /\ Stack \in Seq(Saved)
      /\ Chosen \in Seq(Blocks)
  BY <1>0, PeerForms DEF CopyUtxo, InReorg, ReorgSteps
<1>2. /\ peer' = Reorg(IF Chosen = <<>> THEN "fork" ELSE "clear", PushUtxo(Stack), Chosen)
      /\ UNCHANGED <<chain, utxo, at, work, snap, during>>
  BY <1>0, <1>1, PeerForms DEF CopyUtxo, historyVars
<1>3. /\ PushUtxo(Stack) \in Seq(Saved) /\ PushUtxo(Stack) # <<>>
      /\ DOMAIN PushUtxo(Stack) = DOMAIN Stack
      /\ \A i \in DOMAIN Stack : /\ PushUtxo(Stack)[i].chain = Stack[i].chain
                                 /\ i # Len(Stack) => PushUtxo(Stack)[i] = Stack[i]
      /\ PushUtxo(Stack)[Len(Stack)].utxo = utxo
      /\ Len(Stack) \in DOMAIN Stack
  BY <1>0, <1>1, UtxoPushed
<1>4. peer'.at \in {"fork", "clear"} /\ Stack' = PushUtxo(Stack)
  <2>1. {"fork", "clear"} \subseteq ReorgSteps
    BY DEF ReorgSteps
  <2> QED
    BY <1>1, <1>2, <1>3, <2>1, PeerTakes
<1>5. ~PeerWaits /\ ~PeerWaits' /\ ~Torn
  BY <1>1, <1>4 DEF PeerWaits, Torn
<1>6. Unsure' = Unsure /\ Waiting' = Waiting /\ Applying' = Applying
  BY <1>2, <1>5 DEF Unsure, Waiting, Applying, HandsAt
<1>7. SavedExact'
  <2> SUFFICES ASSUME Peer \notin during, NEW i \in DOMAIN Stack
               PROVE  Exact(PushUtxo(Stack)[i].chain, PushUtxo(Stack)[i].utxo,
                            Unsure, Waiting, Applying)
    BY <1>2, <1>3, <1>4, <1>6 DEF SavedExact, Exact, Ids
  <2>1. CASE i = Len(Stack)
    <3>1. chain = Stack[Len(Stack)].chain /\ Exact(chain, utxo, Unsure, Waiting, Applying)
      BY <1>1, <1>5 DEF InBalance, UtxoParts, SavedExact, UtxoExact
    <3> QED
      BY <1>3, <2>1, <3>1
  <2>2. CASE i # Len(Stack)
    <3>1. Exact(Stack[i].chain, Stack[i].utxo, Unsure, Waiting, Applying)
      BY <2>2 DEF InBalance, UtxoParts, SavedExact
    <3> QED
      BY <1>3, <2>2, <3>1
  <2> QED
    BY <2>1, <2>2
<1> QED
  BY <1>2, <1>4, <1>5, <1>7, PeerQuiet

\* Its own changes are noted for the mining threads that hold a snapshot.
LEMMA PeerIsNoted ==
  ASSUME InBalance, NoteUtxo(Peer), UNCHANGED <<at, work, snap>>
  PROVE  /\ Storing' = Storing /\ SnapExact' /\ (Peer \in during' <=> Peer \in during)
         /\ Unsure' = Unsure /\ Applying' = Applying
         /\ HandsAt({"apply", "compare", "pop"})' = HandsAt({"apply", "compare", "pop"})
<1>1. PeerTypeOK /\ during \subseteq Miner \cup {Peer} /\ Peer \in Miner \cup {Peer}
      /\ Peer \notin Storing
  BY DEF InBalance, ShapeInv, MiningTypeOK, Storing, Miner, Peer
<1>2. Storing' = Storing
  BY DEF Storing
<1>3. (Peer \in during' <=> Peer \in during) /\ \A m \in Storing : m \in during'
  BY <1>1, UtxoNoted
<1> QED
  BY <1>2, <1>3 DEF SnapExact, Unsure, Applying, HandsAt

\* A peer's block is appended, then applied.
LEMMA PeerBlockUtxo ==
  ASSUME InBalance, AppendPeer \/ ApplyPeer
  PROVE  UtxoParts'
<1>0. /\ PeerTypeOK /\ PeerHasBlock /\ chain \in Seq(Blocks) /\ PeerFresh
      /\ ChainsFresh
  BY DEF AppendPeer, ApplyPeer, PeerHasBlock, InBalance, ShapeInv, MiningTypeOK, Fresh
<1>1. /\ UNCHANGED <<at, work, snap>> /\ NoteUtxo(Peer) /\ ~Torn
      /\ peer'.at \in {"test", "apply", "orphans"}
  <2>1. CASE AppendPeer
    BY <1>0, <2>1, PeerForms DEF AppendPeer, Torn
  <2>2. CASE ApplyPeer
    BY <2>2 DEF ApplyPeer, Torn
  <2> QED
    BY <2>1, <2>2
<1>2. /\ SnapExact' /\ Unsure' = Unsure /\ Applying' = Applying
      /\ HandsAt({"apply", "compare", "pop"})' = HandsAt({"apply", "compare", "pop"})
  BY <1>1, PeerIsNoted
<1>3. Stack' = <<>> /\ UtxoRebuilt' /\ SavedExact'
  BY <1>1 DEF Stack, InReorg, ReorgSteps, UtxoRebuilt, SavedExact
<1> DEFINE b0 == peer.block.id
<1>4. b0 \in 0 .. MaxBlocks /\ b0 \notin Unsure /\ b0 \notin HandsAt({"apply", "compare", "pop"})
  <2>1. b0 \in 1 .. made /\ \A x \in 1 .. made : x \in 0 .. MaxBlocks
    BY <1>0, MiningAssumption DEF InBalance, ShapeInv, PeerFresh, MiningTypeOK
  <2>2. \A n \in Holding : work[n].id # b0
    BY <1>0 DEF PeerFresh
  <2>3. \A n \in Miner : at[n] \in {"apply", "compare", "pop", "restore"} => n \in Holding
    BY DEF Holding, Storing
  <2> QED
    BY <2>1, <2>2, <2>3 DEF Unsure, HandsAt
<1>5. /\ Exact(chain, utxo, Unsure, Waiting, Applying)
      /\ PeerWaits => b0 \in Ids(chain)
  BY <1>1 DEF InBalance, UtxoParts, UtxoExact
<1>6. CASE AppendPeer
  <2>1. /\ chain' = Append(chain, peer.block) /\ peer.block \in Blocks /\ utxo' = utxo
        /\ peer.at = "append" /\ peer'.at \in {"test", "apply"} /\ peer'.block = peer.block
    BY <1>0, <1>6, PeerForms DEF AppendPeer
  <2>2. Ids(chain') = Ids(chain) \cup {b0}
    BY <1>0, <2>1, AppendBlock
  <2>3. b0 \notin Ids(chain)
    BY <1>0, <2>1 DEF PeerFresh
  <2>4. b0 \notin utxo
    BY <1>4, <1>5, <2>3 DEF Exact
  <2>5. Waiting' = Waiting \cup {b0}
    BY <1>2, <2>1 DEF Waiting, PeerWaits
  <2>6. Exact(chain', utxo', Unsure', Waiting', Applying')
    BY <1>2, <1>5, <2>1, <2>2, <2>4, <2>5 DEF Exact
  <2>7. UtxoExact'
    BY <2>1, <2>2, <2>6 DEF UtxoExact, Exact, Ids
  <2> QED
    BY <1>2, <1>3, <2>7 DEF UtxoParts
<1>7. CASE ApplyPeer
  <2>1. chain' = chain /\ utxo' = utxo \cup {b0} /\ PeerWaits /\ ~PeerWaits'
    BY <1>7 DEF ApplyPeer, PeerWaits
  <2>2. Waiting' = Waiting \ {b0}
    BY <1>2, <1>4, <2>1 DEF Waiting
  <2>3. Exact(chain, utxo', Unsure', Waiting', Applying')
    BY <1>2, <1>4, <1>5, <2>1, <2>2 DEF Exact
  <2>4. UtxoExact'
    BY <2>1, <2>3 DEF UtxoExact, Exact, Ids
  <2> QED
    BY <1>2, <1>3, <2>4 DEF UtxoParts
<1> QED
  BY <1>6, <1>7

\* The UTXO set is emptied and rebuilt from the preferred chain, which then becomes
\* the chain.
LEMMA ReorgUtxo ==
  ASSUME InBalance, ~parted', ClearUtxo \/ RebuildUtxo \/ ReplaceChain
  PROVE  UtxoParts'
<1>0. PeerTypeOK
  BY DEF InBalance, ShapeInv, MiningTypeOK
<1>1. /\ Storing = {} /\ UNCHANGED <<at, work, snap>> /\ NoteUtxo(Peer)
      /\ peer.at \in {"clear", "rebuild", "replace"}
  BY DEF ClearUtxo, RebuildUtxo, ReplaceChain
<1>2. /\ Storing' = {} /\ SnapExact' /\ (Peer \in during' <=> Peer \in during)
      /\ Unsure' = Unsure /\ Applying' = Applying
      /\ HandsAt({"apply", "compare", "pop"})' = HandsAt({"apply", "compare", "pop"})
  BY <1>1, PeerIsNoted
<1>3. InReorg /\ peer.branch = Chosen /\ peer.at # "copy"
  <2>1. InReorg
    BY <1>1 DEF InReorg, ReorgSteps
  <2> QED
    BY <1>0, <1>1, <2>1, PeerForms
<1>4. PICK s \in {"rebuild", "replace", "save"} :
        PeerAt(s) /\ (s = "replace" => RebuildUtxo) /\ (s = "save" => ReplaceChain)
  BY DEF ClearUtxo, RebuildUtxo, ReplaceChain
<1>5. peer'.at = s /\ Stack' = Stack /\ Chosen' = Chosen
  <2>1. s \in ReorgSteps
    BY DEF ReorgSteps
  <2> QED
    BY <1>0, <1>3, <1>4, <2>1, PeerGoesOn
<1>6. ~PeerWaits /\ ~PeerWaits'
  BY <1>1, <1>5 DEF PeerWaits
<1>7. SavedExact'
  <2>1. Stack' = <<>> => DOMAIN Stack' = {}
    OBVIOUS
  <2> QED
    BY <1>1, <1>2, <1>5, <1>6, StackExact
<1>8. UtxoRebuilt'
  <2>1. s = "replace" => utxo' = Ids(Chosen)
    BY <1>3, <1>4 DEF RebuildUtxo
  <2>2. Ids(Chosen)' = Ids(Chosen)
    BY <1>5 DEF Ids
  <2> QED
    BY <1>5, <2>1, <2>2 DEF UtxoRebuilt
<1>9. UtxoExact'
  <2> SUFFICES ASSUME s = "save"
               PROVE  Exact(chain', utxo', Unsure', Waiting', Applying')
    BY <1>5, <1>6 DEF UtxoExact, Torn, Exact, Ids
  <2>1. chain' = Chosen /\ utxo' = utxo /\ peer.at = "replace"
    BY <1>3, <1>4 DEF ReplaceChain
  <2>2. utxo' = Ids(chain')
    BY <2>1 DEF InBalance, UtxoParts, UtxoRebuilt
  <2>3. HandsAt({"apply", "compare", "pop"}) = {} /\ Unsure = {} /\ Applying = {}
    <3>1. \A n \in Miner : at[n] \notin {"apply", "restore", "compare", "pop"}
      BY <1>1 DEF Storing
    <3> QED
      BY <3>1 DEF HandsAt, Unsure, Applying
  <2>4. Waiting' = {} /\ Unsure' = {} /\ Applying' = {}
    BY <1>2, <1>6, <2>3 DEF Waiting
  <2> QED
    BY <2>2, <2>4 DEF Exact
<1> QED
  BY <1>2, <1>7, <1>8, <1>9 DEF UtxoParts

\* The chain of the snapshot is put back, which no other thread has changed since.
LEMMA RestoreChainUtxo ==
  ASSUME InBalance, ~parted', RestoreChain
  PROVE  UtxoParts'
<1>0. PeerTypeOK
  BY DEF InBalance, ShapeInv, MiningTypeOK
<1>1. /\ UNCHANGED <<utxo, at, work, snap>> /\ NoteUtxo(Peer) /\ Peer \notin during
      /\ peer.at = "restore" /\ PeerAt("restoreUtxo") /\ chain' = Last(peer.saved).chain
  BY DEF RestoreChain
<1>2. /\ SnapExact' /\ Peer \notin during' /\ Unsure' = Unsure /\ Applying' = Applying
      /\ HandsAt({"apply", "compare", "pop"})' = HandsAt({"apply", "compare", "pop"})
  BY <1>1, PeerIsNoted
<1>3. InReorg /\ peer.saved = Stack
  <2>1. InReorg
    BY <1>1 DEF InReorg, ReorgSteps
  <2> QED
    BY <1>0, <2>1, PeerForms
<1>4. peer'.at = "restoreUtxo" /\ Stack' = Stack
  <2>1. "restoreUtxo" \in ReorgSteps
    BY DEF ReorgSteps
  <2> QED
    BY <1>0, <1>1, <1>3, <2>1, PeerGoesOn
<1>5. ~PeerWaits /\ ~PeerWaits' /\ Torn'
  BY <1>1, <1>4 DEF PeerWaits, Torn
<1>6. Waiting' = Waiting
  BY <1>2, <1>5 DEF Waiting
<1>7. SavedExact'
  <2>1. \A i \in DOMAIN Stack : Exact(Stack[i].chain, Stack[i].utxo, Unsure, Waiting, Applying)
    BY <1>1 DEF InBalance, UtxoParts, SavedExact
  <2>2. chain' = Stack[Len(Stack)].chain
    BY <1>1, <1>3 DEF Last
  <2> QED
    BY <1>2, <1>4, <1>6, <2>1, <2>2 DEF SavedExact, Exact, Ids
<1>8. UtxoExact' /\ UtxoRebuilt'
  BY <1>4, <1>5 DEF UtxoExact, UtxoRebuilt
<1> QED
  BY <1>2, <1>7, <1>8 DEF UtxoParts

\* And the UTXO set that goes with it.
LEMMA RestorePeerUtxoKeeps ==
  ASSUME InBalance, ~parted', RestorePeerUtxo
  PROVE  UtxoParts'
<1>0. PeerTypeOK
  BY DEF InBalance, ShapeInv, MiningTypeOK
<1>1. /\ UNCHANGED <<chain, at, work, snap>> /\ NoteUtxo(Peer) /\ Peer \notin during
      /\ peer.at = "restoreUtxo" /\ Pop("fork") /\ utxo' = Last(peer.saved).utxo
  BY DEF RestorePeerUtxo
<1>2. /\ SnapExact' /\ (Peer \in during' <=> Peer \in during)
      /\ Unsure' = Unsure /\ Applying' = Applying
      /\ HandsAt({"apply", "compare", "pop"})' = HandsAt({"apply", "compare", "pop"})
  BY <1>1, PeerIsNoted
<1>3. InReorg /\ peer.saved = Stack /\ Stack # <<>> /\ Stack \in Seq(Saved)
  <2>1. InReorg
    BY <1>1 DEF InReorg, ReorgSteps
  <2> QED
    BY <1>0, <1>1, <2>1, PeerForms
<1>4. /\ peer'.at \in {"idle", "fork"}
      /\ \A i \in DOMAIN Stack' : i \in DOMAIN Stack /\ Stack'[i] = Stack[i]
  BY <1>0, <1>1, <1>3, PeerPops
<1>5. ~PeerWaits /\ ~PeerWaits'
  BY <1>1, <1>4 DEF PeerWaits
<1>6. Waiting' = Waiting
  BY <1>2, <1>5 DEF Waiting
<1>7. SavedExact'
  BY <1>1, <1>2, <1>4, <1>5, StackExact
<1>8. UtxoRebuilt'
  BY <1>4 DEF UtxoRebuilt
<1>9. UtxoExact'
  <2>1. Len(Stack) \in DOMAIN Stack /\ utxo' = Stack[Len(Stack)].utxo
    BY <1>1, <1>3 DEF Last
  <2>2. /\ Exact(Stack[Len(Stack)].chain, Stack[Len(Stack)].utxo, Unsure, Waiting, Applying)
        /\ chain = Stack[Len(Stack)].chain
    BY <1>1, <2>1 DEF InBalance, UtxoParts, SavedExact
  <2>3. Exact(chain', utxo', Unsure', Waiting', Applying')
    BY <1>1, <1>2, <1>6, <2>1, <2>2
  <2> QED
    BY <1>5, <2>3 DEF UtxoExact, Exact, Ids
<1> QED
  BY <1>2, <1>7, <1>8, <1>9 DEF UtxoParts

LEMMA UtxoNext == ShapeInv /\ UtxoInv /\ [MiningNext]_miningVars => UtxoInv'
<1> SUFFICES ASSUME ShapeInv, UtxoInv, [MiningNext]_miningVars, ~parted'
             PROVE  UtxoParts'
  BY DEF UtxoInv
<1>0. InBalance
  BY PartedStays DEF InBalance, UtxoInv
<1>1. ASSUME NEW m \in Miner, RequestStep(m) \/ LeaveLoop(m) \/ ReadIndex(m) \/ MinerStep(m)
      PROVE  UtxoParts'
  <2>1. CASE \/ LeaveLoop(m) \/ ReadIndex(m) \/ ReadTip(m) \/ SetTarget(m)
             \/ ResetAbort(m) \/ Look(m) \/ NotFound(m) \/ Find(m) \/ RequestStep(m)
    BY <1>0, <2>1, SearchStepUtxo
  <2>2. CASE \/ SnapshotUtxo(m) \/ AppendOwn(m) \/ ApplyOwn(m) \/ SaveOwn(m)
             \/ SaveFails(m) \/ RestoreUtxo(m) \/ CompareTip(m) \/ PopOwn(m)
    BY <1>0, <2>2, SnapshotUtxoKeeps, AppendOwnUtxo, ApplyOwnUtxo, SaveUtxo, RestoreUtxoKeeps,
       CompareTipUtxo, PopOwnUtxo
  <2> QED
    BY <1>1, <2>1, <2>2 DEF MinerStep
<1>2. CASE ReceiveBlock \/ ConnectOrphan \/ TestTarget \/ RaiseAbort \/ NoOrphan
  BY <1>0, <1>2, ReceiptUtxo
<1>3. CASE Reorganise \/ SaveReorg \/ ReorgFails \/ KeepFork \/ UndoFork
  BY <1>0, <1>3, DecideUtxo
<1>4. CASE ReceiveFork \/ CopyChain \/ CopyUtxo
  BY <1>0, <1>4, SnapshotChainUtxo, SnapshotPeerUtxo
<1>5. CASE \/ AppendPeer \/ ApplyPeer \/ ClearUtxo \/ RebuildUtxo \/ RebuildAborts \/ ReplaceChain
           \/ RestoreChain \/ RestorePeerUtxo
  <2>1. ~RebuildAborts
    BY DEF RebuildAborts
  <2> QED
    BY <1>0, <1>5, <2>1, PeerBlockUtxo, ReorgUtxo, RestoreChainUtxo, RestorePeerUtxoKeeps
<1>6. CASE UNCHANGED miningVars
  <2>1. UNCHANGED <<chain, utxo, during, peer, work, snap, at>>
    BY <1>6 DEF miningVars, historyVars
  <2> QED
    BY <1>0, <2>1, SearchUtxo
<1> QED
  BY <1>1, <1>2, <1>3, <1>4, <1>5, <1>6 DEF MiningNext, PeerStep

\* The UTXO set is that of the chain whenever no block is on its way: failed saves,
\* failed reorganisations and forks that are not adopted are undone completely,
\* unless a rollback or a reorganisation met another thread's change
\* (mine_pending_transactions, replace_chain, _add_block_internal).
THEOREM UtxoIsThatOfTheChain == MiningSpec => []UtxoFollowsChain
<1>1. MiningInit => ShapeInv /\ UtxoInv
  BY ShapeInit, ThreadInit, UtxoInit DEF ShapeInv
<1>2. ShapeInv /\ UtxoInv => UtxoFollowsChain
  <2> SUFFICES ASSUME ShapeInv, UtxoParts, Storing = {}, peer.at \in {"idle", "orphans"}
               PROVE  utxo = Ids(chain)
    BY DEF UtxoInv, UtxoFollowsChain
  <2>1. Unsure = {} /\ Waiting = {}
    <3>1. \A n \in Miner : at[n] \notin {"apply", "restore", "compare", "pop"}
      BY DEF Storing
    <3>2. ~PeerWaits
      BY DEF PeerWaits
    <3> QED
      BY <3>1, <3>2 DEF HandsAt, Unsure, Waiting
  <2>2. Exact(chain, utxo, Unsure, Waiting, Applying)
    BY DEF UtxoParts, UtxoExact, Torn
  <2>3. /\ utxo \subseteq 0 .. MaxBlocks /\ \A b \in Ids(chain) : b \in 0 .. made
        /\ \A b \in 0 .. made : b \in 0 .. MaxBlocks
    <3>1. Known \subseteq 0 .. made /\ made \in 0 .. MaxBlocks /\ utxo \subseteq 0 .. MaxBlocks
      BY DEF ShapeInv, MiningTypeOK, Fresh, ChainsFresh
    <3>2. \A b \in Ids(chain) : b \in Known
      BY KnownHolds
    <3>3. \A b \in 0 .. made : b \in 0 .. MaxBlocks
      BY <3>1, MiningAssumption
    <3> QED
      BY <3>1, <3>2, <3>3
  <2> QED
    BY <2>1, <2>2, <2>3 DEF Exact
<1> QED
  BY <1>1, <1>2, ShapeNext, UtxoNext, PTL DEF MiningSpec

=============================================================================
