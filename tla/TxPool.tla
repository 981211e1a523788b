------------------------------- MODULE TxPool -------------------------------
(***************************************************************************)
(* The pool of pending transactions of one node: add_transaction with its  *)
(* pruning, Replace-By-Fee and eviction (blockchain_components/            *)
(* mempool_mixin.py, consensus/transaction_validator.py), the transactions *)
(* that wait for their inputs, the nonce tracker, mining (mining_mixin.py) *)
(* and the blocks of peers (_add_block_to_chain in blockchain.py).         *)
(*                                                                         *)
(* add_transaction prunes the pool before it takes _mempool_lock; a        *)
(* request is therefore in one of three stages before it is decided:       *)
(* "read" when it has copied the list, "written" when it has replaced it,  *)
(* "pruned" when it has replaced the indexes too.  Mining and the blocks   *)
(* of peers do not take that lock.                                         *)
(*                                                                         *)
(* Transactions are signed and balanced; what admission depends on is      *)
(* given by constants.  Wallet locks on UTXOs do not influence admission   *)
(* (validation passes exclude_pending = False) and are left out, as are    *)
(* minimum fees, the size of a block in bytes and sponsored fees.  The     *)
(* pending list is a set: its order decides nothing when fee rates differ. *)
(***************************************************************************)
EXTENDS Integers, FiniteSets, SequencesExt

CONSTANTS
    Tx, NoTx, Sender, Thread, Coin,
    Genesis,            \* the coins there are at the start
    From,               \* From[t]: sender of t
    Nonce,              \* Nonce[t]: its nonce
    Inputs,             \* Inputs[t]: the coins it spends, in order
    Outputs,            \* Outputs[t]: the coins it creates
    FeeRate,            \* FeeRate[t]: get_fee_rate(), different for each t
    Replaces,           \* Replaces[t]: replaces_txid, or NoTx
    OptsIn,             \* transactions with rbf_enabled
    CanAge,             \* bound: transactions that grow old
    Removable,          \* bound: transactions removed on request
    MaxPool,            \* _mempool_max_size
    MaxPerSender,       \* _mempool_max_per_sender
    MaxOrphanTx,        \* MAX_ORPHAN_TRANSACTIONS
    MaxPerBlock,        \* _max_transactions_per_block
    BanAfter,           \* _mempool_invalid_threshold
    Serial              \* whether what takes no common lock never overlaps

ASSUME PoolConstantsAreTyped ==
    /\ NoTx \notin Tx
    /\ Genesis \subseteq Coin
    /\ From \in [Tx -> Sender]
    /\ Nonce \in [Tx -> Nat]
    /\ Inputs \in [Tx -> Seq(Coin) \ {<<>>}]
    /\ Outputs \in [Tx -> SUBSET Coin]
    /\ FeeRate \in [Tx -> Nat]
    /\ Replaces \in [Tx -> Tx \cup {NoTx}]
    /\ OptsIn \subseteq Tx /\ CanAge \subseteq Tx /\ Removable \subseteq Tx
    /\ {MaxPerSender, MaxOrphanTx, MaxPerBlock} \subseteq Nat
    /\ {MaxPool, BanAfter} \subseteq Nat \ {0}
    /\ Serial \in BOOLEAN

ASSUME FeeRatesDiffer == \A t, u \in Tx : FeeRate[t] = FeeRate[u] => t = u

\* A coin is the txid of its creator and the place of the output.
ASSUME CoinsHaveOneOrigin ==
    \A t, u \in Tx : /\ Outputs[t] \cap Genesis = {}
                     /\ t # u => Outputs[t] \cap Outputs[u] = {}

CoinsOf(t) == {Inputs[t][i] : i \in DOMAIN Inputs[t]}
SpentBy(txs) == UNION {CoinsOf(t) : t \in txs}
\* seeded bug: the pair is built the wrong way round
NonceThenSender(t) == <<Nonce[t], From[t]>>

NonceOf(t) == <<From[t], Nonce[t]>>

VARIABLES
    pool,           \* pending_transactions
    ids,            \* seen_txids
    spent,          \* _spent_inputs
    senderCount,    \* _sender_pending_count
    nonceIndex,     \* _pending_nonces
    waiting,        \* orphan_transactions
    strikes,        \* _invalid_sender_tracker: a sender with BanAfter is banned
    confirmed,      \* nonce_tracker.nonces, -1 for an unknown sender
    reserved,       \* nonce_tracker.pending_nonces, -1 without one
    coins,          \* the UTXO set
    ledger,         \* the transactions of the chain, in order
    age,            \* 1: too old to validate, 2: too old to keep
    request,        \* for each thread, the add_transaction it is in
    promoting,      \* waiting transactions _process_orphan_transactions still tries
    work            \* the block being mined

indexes == <<ids, spent, senderCount, nonceIndex>>
nonces == <<confirmed, reserved>>
vars == <<pool, indexes, waiting, strikes, nonces, coins, ledger, age, request,
          promoting, work>>

NoRequest == [stage |-> "idle", tx |-> NoTx, kept |-> {}]
NoWork == [stage |-> "idle", txs |-> <<>>]

Init ==
    /\ pool = {}
    /\ ids = {} /\ spent = {} /\ nonceIndex = {}
    /\ senderCount = [s \in Sender |-> 0]
    /\ waiting = <<>>
    /\ strikes = [s \in Sender |-> 0]
    /\ confirmed = [s \in Sender |-> -1]
    /\ reserved = [s \in Sender |-> -1]
    /\ coins = Genesis
    /\ ledger = <<>>
    /\ age = [t \in Tx |-> 0]
    /\ request = [th \in Thread |-> NoRequest]
    /\ promoting = <<>>
    /\ work = NoWork

\* When steps are serial, an operation under way ends before another begins.
Undisturbed ==
    Serial => promoting = <<>> /\ \A th \in Thread : request[th] = NoRequest

-----------------------------------------------------------------------------
(* Validation.                                                             *)

\* The transactions of s that are in txs, in the order of s.
Among(s, txs) ==
    LET left[n \in 0..Len(s)] ==
            IF n = 0 THEN <<>>
            ELSE IF s[n] \in txs THEN Append(left[n - 1], s[n]) ELSE left[n - 1]
    IN  left[Len(s)]

Fresh(s) == Among(s, {t \in Tx : age[t] < 2})
Unexpired == {t \in pool : age[t] < 2}

\* An output of a pending transaction that no pending transaction spends yet.
PendingOutput(c) == c \notin spent /\ \E u \in pool : c \in Outputs[u]

\* The input checks of validate_transaction.
InputsValid(t) ==
    /\ age[t] = 0
    /\ \A c \in CoinsOf(t) : c \in coins \/ PendingOutput(c)

\* _get_effective_nonce.
Effective(s) == Max({confirmed[s], reserved[s]})

\* _validate_nonce: the next nonce, a first nonce again, or an earlier one
\* that no pending transaction has.
NonceValid(t) ==
    LET s == From[t]
        expected == Effective(s) + 1
    IN  \/ Nonce[t] = expected
        \/ expected = 1 /\ Nonce[t] = 0 /\ confirmed[s] <= 0
        \/ NonceOf(t) \notin nonceIndex /\ Nonce[t] <= expected

Valid(t) == InputsValid(t) /\ NonceValid(t)

-----------------------------------------------------------------------------
(* add_transaction: pruning, outside _mempool_lock.                        *)

Stage(th, from, to) ==
    request[th].stage = from /\ request' = [request EXCEPT ![th].stage = to]

\* _prune_expired_mempool has gone through pending_transactions.
ReadPool(th, t) ==
    /\ Undisturbed
    /\ request[th] = NoRequest
    /\ request' = [request EXCEPT ![th] = [stage |-> "read", tx |-> t, kept |-> Unexpired]]
    /\ UNCHANGED <<pool, indexes, waiting, strikes, nonces, coins, ledger, age, promoting, work>>

\* self.pending_transactions = kept
WritePool(th) ==
    /\ Stage(th, "read", "written")
    /\ pool' = request[th].kept
    /\ UNCHANGED <<indexes, waiting, strikes, nonces, coins, ledger, age, promoting, work>>

CountsOf(txs) == [s \in Sender |-> Cardinality({t \in txs : From[t] = s})]

\* The assignments of the indexes, and _prune_orphan_pool.
WriteIndexes(th) ==
    LET kept == request[th].kept
    IN  /\ Stage(th, "written", "pruned")
        /\ ids' = kept
        /\ spent' = SpentBy(kept)
        /\ senderCount' = CountsOf(kept)
        /\ nonceIndex' = {NonceOf(t) : t \in kept}
        /\ waiting' = Fresh(waiting)
        /\ UNCHANGED <<pool, strikes, nonces, coins, ledger, age, promoting, work>>

-----------------------------------------------------------------------------
(* add_transaction: the critical section.                                  *)

Banned(s) == strikes[s] = BanAfter
Strike(s) == strikes' = [strikes EXCEPT ![s] = Min({@ + 1, BanAfter})]
Examined(t) == t \notin ids /\ ~Banned(From[t])
Conflicts(t) == CoinsOf(t) \cap spent # {}

\* A duplicate, or a transaction of a banned sender.
TurnAway(t) ==
    /\ ~Examined(t)
    /\ UNCHANGED <<pool, indexes, waiting, strikes, nonces>>

\* An input is not known yet: the transaction waits for it.
PutAside(t) ==
    /\ Examined(t) /\ ~Valid(t) /\ ~(CoinsOf(t) \subseteq coins)
    /\ waiting' = IF Len(waiting) < MaxOrphanTx /\ t \notin ToSet(waiting)
                  THEN Append(waiting, t) ELSE waiting
    /\ UNCHANGED <<pool, indexes, strikes, nonces>>

\* seeded bug: the double-spend check is forgotten
NoDoubleSpendCheck(t) == FALSE

\* _check_double_spend leaves replacements to _handle_rbf_replacement.
DoubleSpend(t) == Conflicts(t) /\ Replaces[t] = NoTx

RejectInvalid(t) ==
    /\ Examined(t)
    /\ IF Valid(t) THEN DoubleSpend(t) ELSE CoinsOf(t) \subseteq coins
    /\ Strike(From[t])
    /\ UNCHANGED <<pool, indexes, waiting, nonces>>

\* The rules of _handle_rbf_replacement.
MayReplace(o, t) ==
    /\ o \in pool /\ o \in OptsIn
    /\ From[o] = From[t]
    /\ FeeRate[t] > FeeRate[o]
    /\ CoinsOf(o) \cap CoinsOf(t) # {}

\* The transaction that t replaces.
Original(t) == {Replaces[t]} \ {NoTx}
Admissible(t) == Examined(t) /\ Valid(t) /\ ~DoubleSpend(t)

RejectReplacement(t) ==
    /\ Admissible(t)
    /\ \E o \in Original(t) : ~MayReplace(o, t)
    /\ UNCHANGED <<pool, indexes, waiting, strikes, nonces>>

\* What the later checks see once the original has been removed.
Rest(t) == pool \ Original(t)
Lowest(txs) == CHOOSE u \in txs : \A v \in txs : FeeRate[u] <= FeeRate[v]
Crowded(t) == senderCount[From[t]] - Cardinality(Original(t)) >= MaxPerSender
Full(t) == Cardinality(Rest(t)) >= MaxPool
Outbid(t) == Full(t) /\ FeeRate[t] <= FeeRate[Lowest(Rest(t))]
Evicted(t) == IF Full(t) THEN {Lowest(Rest(t))} ELSE {}

\* The sender cap and the size limit may turn down a replacement whose
\* original is already gone.
TurnDown(t) ==
    LET gone == Original(t)
    IN  /\ Admissible(t)
        /\ \A o \in gone : MayReplace(o, t)
        /\ Crowded(t) \/ Outbid(t)
        /\ pool' = Rest(t)
        /\ ids' = ids \ gone
        /\ spent' = spent \ SpentBy(gone)
        /\ senderCount' = [senderCount EXCEPT ![From[t]] = @ - Cardinality(gone)]
        /\ nonceIndex' = nonceIndex \ {NonceOf(o) : o \in gone}
        /\ UNCHANGED <<waiting, strikes, nonces>>

\* Eviction keeps the nonce of the evicted transaction in _pending_nonces.
Admit(t) ==
    LET s == From[t]
        gone == Original(t) \cup Evicted(t)
        fewer(n, u) == IF \E e \in Evicted(t) : From[e] = u THEN Max({0, n - 1}) ELSE n
    IN  /\ Admissible(t)
        /\ \A o \in Original(t) : MayReplace(o, t)
        /\ ~Crowded(t) /\ ~Outbid(t)
        /\ pool' = (pool \ gone) \cup {t}
        /\ ids' = (ids \ gone) \cup {t}
        /\ spent' = (spent \ SpentBy(gone)) \cup CoinsOf(t)
        /\ senderCount' =
               LET left == [senderCount EXCEPT ![s] = @ - Cardinality(Original(t))]
               IN  [u \in Sender |-> fewer(left[u], u) + (IF u = s THEN 1 ELSE 0)]
        /\ nonceIndex' = (nonceIndex \ {NonceOf(o) : o \in Original(t)}) \cup {NonceOf(t)}
        /\ strikes' = [strikes EXCEPT ![s] = 0]
        /\ reserved' = [reserved EXCEPT ![s] = IF Nonce[t] > Effective(s) THEN Nonce[t] ELSE @]
        /\ UNCHANGED <<waiting, confirmed>>

Decide(th) ==
    LET t == request[th].tx
    IN  /\ request[th].stage = "pruned"
        /\ request' = [request EXCEPT ![th] = NoRequest]
        /\ \/ TurnAway(t)
           \/ PutAside(t)
           \/ RejectInvalid(t)
           \/ RejectReplacement(t)
           \/ TurnDown(t)
           \/ Admit(t)
        /\ UNCHANGED <<coins, ledger, age, promoting, work>>

\* remove_transaction_from_mempool, with or without a ban.
Evict(t) ==
    /\ Undisturbed
    /\ t \in Removable \cap pool
    /\ pool' = pool \ {t}
    /\ ids' = ids \ {t}
    /\ spent' = spent \ CoinsOf(t)
    /\ senderCount' = [senderCount EXCEPT ![From[t]] = Max({0, @ - 1})]
    /\ nonceIndex' = nonceIndex \ {NonceOf(t)}
    /\ \E ban \in BOOLEAN : strikes' = IF ban THEN [strikes EXCEPT ![From[t]] = BanAfter] ELSE strikes
    /\ UNCHANGED <<waiting, nonces, coins, ledger, age, request, promoting, work>>

\* Time: a transaction grows old; a ban or the window of strikes ends.
Age(t) ==
    /\ Undisturbed
    /\ t \in CanAge /\ age[t] < 2
    /\ age' = [age EXCEPT ![t] = @ + 1]
    /\ UNCHANGED <<pool, indexes, waiting, strikes, nonces, coins, ledger, request, promoting, work>>

Forgive(s) ==
    /\ Undisturbed
    /\ strikes[s] > 0
    /\ strikes' = [strikes EXCEPT ![s] = 0]
    /\ UNCHANGED <<pool, indexes, waiting, nonces, coins, ledger, age, request, promoting, work>>

-----------------------------------------------------------------------------
(* Mining.                                                                 *)

Creates(t, u) == Outputs[t] \cap CoinsOf(u) # {}

\* seeded bug: only the inputs order a block
BeforeByInputs(t, u) == Creates(t, u)

\* t is of the sender of u and comes before it by nonce, then by fee rate.
Earlier(t, u) ==
    /\ From[t] = From[u]
    /\ Nonce[t] < Nonce[u] \/ (Nonce[t] = Nonce[u] /\ FeeRate[t] > FeeRate[u])

\* t has to come before u in a block: u spends an output of t, or t is the last
\* one of the sender before u and does not spend an output of u.
Before(t, u) ==
    \/ Creates(t, u)
    \/ /\ Earlier(t, u) /\ ~Creates(u, t)
       /\ ~ \E v \in pool : Earlier(t, v) /\ Earlier(v, u)

\* The pool sorted: of the transactions that nothing else in it has to come
\* before, always the best payer.  It ends early when there is none.
Sorted(before) ==
    LET open(done) == pool \ ToSet(done)
        ready(done) == {t \in open(done) : \A u \in open(done) : <<u, t>> \notin before}
        best(done) == CHOOSE t \in ready(done) : \A u \in ready(done) : FeeRate[u] <= FeeRate[t]
        placed[n \in 0..Cardinality(pool)] ==
            IF n = 0 THEN <<>>
            ELSE IF ready(placed[n - 1]) = {} THEN placed[n - 1]
            ELSE Append(placed[n - 1], best(placed[n - 1]))
    IN  placed[Cardinality(pool)]

\* _prioritize_transactions: predecessors first, or by fee rate alone when
\* they go round in a circle.
Prioritized ==
    LET sorted == Sorted({p \in pool \X pool : p[1] # p[2] /\ Before(p[1], p[2])})
    IN  IF Len(sorted) = Cardinality(pool) THEN sorted ELSE Sorted({})

\* One turn of the selection loop: a transaction is taken when its nonce is
\* the next of its sender and its inputs are valid.  On the way the loop
\* moves the tracker to the nonce before the one it tries.
Select(acc, t) ==
    LET s == From[t]
        tried == [acc EXCEPT !.confirmed[s] = acc.next[s] - 1]
    IN  IF Len(acc.txs) + 1 >= MaxPerBlock \/ Nonce[t] # acc.next[s] THEN acc
        ELSE IF ~InputsValid(t) THEN [tried EXCEPT !.reserved[s] = -1]
        ELSE [tried EXCEPT !.txs = Append(@, t),
                           !.reserved[s] = Nonce[t],
                           !.next[s] = Nonce[t] + 1]

Selection ==
    LET order == Prioritized
        chosen[n \in 0..Len(order)] ==
            IF n = 0
            THEN [txs |-> <<>>, confirmed |-> confirmed, reserved |-> [s \in Sender |-> -1],
                  next |-> [s \in Sender |-> confirmed[s] + 1]]
            ELSE Select(chosen[n - 1], order[n])
    IN  chosen[Len(order)]

StartMining ==
    /\ Undisturbed
    /\ work = NoWork
    /\ pool # {}
    /\ work' = [stage |-> "hashing", txs |-> Selection.txs]
    /\ confirmed' = Selection.confirmed
    /\ reserved' = Selection.reserved
    /\ UNCHANGED <<pool, indexes, waiting, strikes, coins, ledger, age, request, promoting>>

\* mine_block has seen _abort_current_mining.
AbortMining ==
    /\ Undisturbed
    /\ work.stage = "stale"
    /\ work' = NoWork
    /\ UNCHANGED <<pool, indexes, waiting, strikes, nonces, coins, ledger, age, request, promoting>>

\* The proof of work is found before the abort flag is looked at again.
Found ==
    /\ Undisturbed
    /\ work.stage = "hashing" \/ (work.stage = "stale" /\ ~Serial)

\* process_transaction_inputs gives up at the first input that is not there.
Marked(t, from) ==
    {c \in CoinsOf(t) : \E i \in DOMAIN Inputs[t] :
        Inputs[t][i] = c /\ \A j \in 1..i : Inputs[t][j] \in from}

\* All outputs of a block are added before its inputs are marked.
CoinsAfter(txs) ==
    LET left[n \in 0..Len(txs)] ==
            IF n = 0 THEN coins \cup UNION {Outputs[t] : t \in ToSet(txs)}
            ELSE left[n - 1] \ Marked(txs[n], left[n - 1])
    IN  left[Len(txs)]

\* The block is on the chain, its coins are moved and the pool is emptied.
AppendMined ==
    /\ Found
    /\ coins' = CoinsAfter(work.txs)
    /\ ledger' = ledger \o work.txs
    /\ pool' = {}
    /\ work' = NoWork
    /\ UNCHANGED <<indexes, waiting, strikes, age, request, promoting>>

\* increment_nonce keeps the higher nonce.
FinishMining ==
    LET txs == ToSet(work.txs)
        highest(s) == Max({confirmed[s]} \cup {Nonce[t] : t \in {u \in txs : From[u] = s}})
    IN  /\ AppendMined
        /\ confirmed' = [s \in Sender |-> highest(s)]
        /\ reserved' = [s \in Sender |-> IF (\E t \in txs : From[t] = s) /\ reserved[s] <= highest(s)
                                         THEN -1 ELSE reserved[s]]

\* The state files cannot be written: the RuntimeError of
\* _atomic_multi_file_write is not among those that are caught, so that the
\* block stays and only its nonces are not committed.
StateUnsaved ==
    /\ AppendMined
    /\ UNCHANGED nonces

\* Saving the block or the checksums fails with an error that is caught: UTXO
\* set, nonces, chain and pool are put back as they were when the proof of work
\* was found.
MiningFails ==
    /\ Found
    /\ work' = NoWork
    /\ UNCHANGED <<pool, indexes, waiting, strikes, nonces, coins, ledger, age, request, promoting>>

-----------------------------------------------------------------------------
(* Blocks of peers.                                                        *)

LedgerNonce(s) == Max({-1} \cup {Nonce[t] : t \in {u \in ToSet(ledger) : From[u] = s}})

KeepsConfirmed(t) == pool          \* seeded bug: the block is not looked at
Unconfirmed(t) == pool \ {t}       \* what stays pending once t is on the chain

\* A block with one valid transaction extends the chain.  The nonce tracker
\* does not hear of it.
PeerBlock(t) ==
    /\ Undisturbed
    /\ promoting = <<>>
    /\ CoinsOf(t) \subseteq coins
    /\ Nonce[t] = LedgerNonce(From[t]) + 1
    /\ ledger' = Append(ledger, t)
    /\ coins' = (coins \ CoinsOf(t)) \cup Outputs[t]
    /\ pool' = Unconfirmed(t)
    /\ ids' = pool'
    /\ senderCount' = CountsOf(pool')
    /\ work' = IF work = NoWork THEN work ELSE [work EXCEPT !.stage = "stale"]
    /\ promoting' = waiting
    /\ UNCHANGED <<spent, nonceIndex, waiting, strikes, nonces, age, request>>

\* The double-spend check of _process_orphan_transactions.
Clashes(t) == \E u \in pool : CoinsOf(t) \cap CoinsOf(u) # {}

\* _process_orphan_transactions tries the next waiting transaction; no index
\* is updated when it joins the pool.
Promote(t) ==
    LET joins == Valid(t) /\ ~Clashes(t)
    IN  /\ promoting # <<>> /\ t = Head(promoting)
        /\ promoting' = Tail(promoting)
        /\ pool' = IF joins THEN pool \cup {t} ELSE pool
        /\ waiting' = Fresh(Among(waiting, IF joins THEN Tx \ {t} ELSE Tx))
        /\ UNCHANGED <<indexes, strikes, nonces, coins, ledger, age, request, work>>

-----------------------------------------------------------------------------

AddTransaction(th) ==
    (\E t \in Tx : ReadPool(th, t)) \/ WritePool(th) \/ WriteIndexes(th) \/ Decide(th)

Mine == StartMining \/ AbortMining \/ FinishMining \/ StateUnsaved \/ MiningFails

Next ==
    \/ \E th \in Thread : AddTransaction(th)
    \/ \E t \in Tx : Evict(t) \/ Age(t) \/ PeerBlock(t) \/ Promote(t)
    \/ \E s \in Sender : Forgive(s)
    \/ Mine

Spec == Init /\ [][Next]_vars

-----------------------------------------------------------------------------
(* Properties.                                                             *)

\* The lists hold transactions, the indexes are about them, and nonces are -1
\* or more, as NonceTracker and __init__ in blockchain.py declare them.
TypeOK ==
    /\ pool \subseteq Tx
    /\ waiting \in Seq(Tx) /\ promoting \in Seq(Tx) /\ ledger \in Seq(Tx)
    /\ ids \subseteq Tx /\ spent \subseteq Coin /\ coins \subseteq Coin
    /\ senderCount \in [Sender -> Int]
    /\ nonceIndex \subseteq Sender \X Nat
    /\ strikes \in [Sender -> 0..BanAfter]
    /\ confirmed \in [Sender -> Int] /\ reserved \in [Sender -> Int]
    /\ age \in [Tx -> 0..2]
    /\ \A th \in Thread : request[th].stage \in {"idle", "read", "written", "pruned"}
    /\ work.stage \in {"idle", "hashing", "stale"} /\ work.txs \in Seq(Tx)

\* A replacement shares inputs only with its original and with what conflicts
\* with the original already.  Without this a replacement spends a coin of a
\* third pending transaction, for _check_double_spend lets it pass.
ReplacementsStayApart ==
    \A t, u \in Tx :
        /\ Replaces[t] # NoTx
        /\ CoinsOf(t) \cap CoinsOf(u) # {}
        => u = t \/ CoinsOf(u) \cap CoinsOf(Replaces[t]) # {}

\* No two pending transactions spend the same coin: what the check and the
\* insertion in the critical section of add_transaction are there for, and the
\* comparison in _process_orphan_transactions.
NoPoolDoubleSpend ==
    ReplacementsStayApart =>
        \A t, u \in pool : t # u => CoinsOf(t) \cap CoinsOf(u) = {}

\* Every transaction of the chain spends coins of the start or of earlier
\* transactions of the chain.  Mining does not see to that: it selects a
\* transaction that spends an output of a pending one also when it leaves that
\* one out, for its nonce or its age (PendingOutput looks at the pool, not at
\* the block), and what has been spent in this way can be spent again.
LedgerFunded ==
    \A i \in 1..Len(ledger) : \A c \in CoinsOf(ledger[i]) :
        c \in Genesis \/ \E j \in 1..(i - 1) : c \in Outputs[ledger[j]]

\* A pending transaction is not on the chain already, whether it got there by
\* mining or with the block of a peer, and whatever waited or was replaced.
NothingPendingTwice ==
    ReplacementsStayApart /\ LedgerFunded => pool \cap ToSet(ledger) = {}

\* A transaction that could be mined after those with the lower nonces of its
\* sender, all of them pending.
Ready(t) ==
    \A n \in (confirmed[From[t]] + 1)..Nonce[t] :
        \E u \in pool : /\ NonceOf(u) = <<From[t], n>>
                           /\ age[u] = 0 /\ CoinsOf(u) \subseteq coins

\* Inputs and nonces ask for no order that goes round in a circle.  The code
\* says that a circle "shouldn't happen with valid transactions"; it does when
\* the transaction with a lower nonce is removed and another one that spends,
\* perhaps through others, an output of the higher nonce takes its place.
PendingInOrder ==
    \A txs \in SUBSET pool : txs # {} =>
        \E t \in txs : \A u \in txs \ {t} : ~Creates(u, t) /\ ~Earlier(u, t)

\* A block that is not full leaves out no nonce that is ready: the order by
\* fee never puts a later nonce before an earlier one, so that the selection
\* loop does not skip it.  (What is left out is dropped with the pool.)
ReadyNoncesAreMined ==
    [][StartMining /\ PendingInOrder /\ Len(work'.txs) + 1 < MaxPerBlock =>
        \A t \in pool :
            (Ready(t) /\ Nonce[t] > confirmed[From[t]]) =>
                \E u \in ToSet(work'.txs) : NonceOf(u) = NonceOf(t)]_vars

\* When no block is being mined, no nonce is confirmed that the chain has no
\* transaction for.  "Only commit nonce increments AFTER successful
\* persistence", says mine_pending_transactions.
NoncesFollowLedger ==
    work = NoWork => \A s \in Sender : confirmed[s] <= LedgerNonce(s)

=============================================================================
