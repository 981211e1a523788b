---------------------------- MODULE TxPoolProofs ----------------------------
(***************************************************************************)
(* Proofs about TxPool for every set of transactions, every limit and      *)
(* number of threads.  As long as operations do not overlap (Serial), no   *)
(* coin is spent twice in the pool and nothing on the chain is pending;    *)
(* the types hold, and ready nonces are mined, without that.               *)
(*                                                                         *)
(* The indexes are not in step with the pool at all times: transactions    *)
(* that waited join it without them, mining empties it without them.  What *)
(* makes admission safe is that each request rebuilds them just before it  *)
(* is decided, and that nothing comes in between.                          *)
(***************************************************************************)
EXTENDS TxPool, FiniteSetTheorems, WellFoundedInduction, NaturalsInduction, TLAPS

Request == [stage : {"idle", "read", "written", "pruned"},
            tx : Tx \cup {NoTx}, kept : SUBSET Tx]

Apart == \A t, u \in pool : t # u => CoinsOf(t) \cap CoinsOf(u) = {}

\* A request under way is the only operation under way.
Alone ==
    \A th \in Thread :
        request[th] # NoRequest =>
            /\ promoting = <<>>
            /\ \A other \in Thread \ {th} : request[other] = NoRequest

\* What each stage of a request has achieved.
Staged(r) ==
    /\ r # NoRequest => r.tx \in Tx
    /\ r.stage = "read" => r.kept \subseteq pool
    /\ r.stage = "written" => r.kept = pool
    /\ r.stage = "pruned" => ids = pool /\ spent = SpentBy(pool)

PoolInv ==
    /\ pool \subseteq Tx
    /\ request \in [Thread -> Request]
    /\ Apart
    /\ Alone
    /\ \A th \in Thread : Staged(request[th])

-----------------------------------------------------------------------------

LEMMA InitPoolInv == Init => PoolInv
BY DEF Init, PoolInv, Request, Apart, Alone, Staged, NoRequest

\* A thread without a request has nothing to achieve.
LEMMA IdleIsStaged ==
    ASSUME NEW th \in Thread, request'[th] = NoRequest
    PROVE  Staged(request[th])'
<1>1. request'[th].stage = "idle"
  BY DEF NoRequest
<1> QED
  BY <1>1 DEF Staged

\* What happens between requests may shrink the pool and leave the indexes.
LEMMA BetweenRequests ==
    ASSUME PoolInv, \A th \in Thread : request[th] = NoRequest,
           request' = request, pool' \subseteq pool
    PROVE  PoolInv'
<1>1. \A th \in Thread : request'[th] = NoRequest
  OBVIOUS
<1>2. Alone'
  BY <1>1 DEF Alone
<1>3. \A th \in Thread : Staged(request[th])'
  BY <1>1, IdleIsStaged
<1>4. Apart'
  BY DEF PoolInv, Apart
<1> QED
  BY <1>2, <1>3, <1>4 DEF PoolInv

\* A request that goes on leaves the others where they are.
LEMMA OthersIdle ==
    ASSUME PoolInv, NEW th \in Thread, request[th] # NoRequest,
           NEW r \in Request, request' = [request EXCEPT ![th] = r], promoting' = promoting
    PROVE  /\ request' \in [Thread -> Request]
           /\ request'[th] = r
           /\ \A other \in Thread \ {th} : request'[other] = NoRequest
           /\ Alone'
<1>1. request' \in [Thread -> Request] /\ request'[th] = r
  BY DEF PoolInv
<1>2. promoting = <<>> /\ \A other \in Thread \ {th} : request[other] = NoRequest
  BY DEF PoolInv, Alone
<1>3. \A other \in Thread \ {th} : request'[other] = NoRequest
  BY <1>2 DEF PoolInv
<1> QED
  BY <1>1, <1>2, <1>3 DEF Alone

\* A coin of an admitted transaction is spent by no transaction that stays.
LEMMA AdmittedApart ==
    ASSUME PoolInv, ReplacementsStayApart, NEW t \in Tx, Admit(t),
           ids = pool, spent = SpentBy(pool),
           NEW u \in pool, u \notin Original(t)
    PROVE  CoinsOf(t) \cap CoinsOf(u) = {}
<1>1. t \notin pool /\ ~DoubleSpend(t) /\ \A o \in Original(t) : MayReplace(o, t)
  BY DEF Admit, Admissible, Examined
<1>2. CASE Replaces[t] = NoTx
  <2>1. CoinsOf(t) \cap SpentBy(pool) = {}
    BY <1>1, <1>2 DEF DoubleSpend, Conflicts
  <2> QED
    BY <2>1 DEF SpentBy
<1>3. CASE Replaces[t] # NoTx
  <2> DEFINE o == Replaces[t]
  <2>1. o \in pool /\ u # o
    BY <1>1, <1>3 DEF Original, MayReplace
  <2>2. CoinsOf(u) \cap CoinsOf(o) = {}
    BY <2>1 DEF PoolInv, Apart
  <2>3. u \in Tx /\ u # t
    BY <1>1 DEF PoolInv
  <2> QED
    BY <1>3, <2>2, <2>3 DEF ReplacementsStayApart
<1> QED
  BY <1>2, <1>3

\* The decision either admits the transaction or adds nothing to the pool.
LEMMA DecideKeepsApart ==
    ASSUME PoolInv, ReplacementsStayApart, NEW th \in Thread, Decide(th)
    PROVE  Apart' /\ pool' \subseteq Tx
<1> DEFINE t == request[th].tx
<1>1. request[th] # NoRequest /\ request[th].stage = "pruned"
  BY DEF Decide, NoRequest
<1>2. t \in Tx /\ ids = pool /\ spent = SpentBy(pool)
  BY <1>1 DEF PoolInv, Staged
<1>3. CASE Admit(t)
  <2>1. pool' \subseteq (pool \ Original(t)) \cup {t}
    BY <1>3 DEF Admit
  <2>2. \A u \in pool \ Original(t) : CoinsOf(t) \cap CoinsOf(u) = {}
    BY <1>2, <1>3, AdmittedApart
  <2>3. \A u, v \in pool : u # v => CoinsOf(u) \cap CoinsOf(v) = {}
    BY DEF PoolInv, Apart
  <2>4. \A u, v \in (pool \ Original(t)) \cup {t} :
            u # v => CoinsOf(u) \cap CoinsOf(v) = {}
    BY <2>2, <2>3
  <2> QED
    BY <1>2, <2>1, <2>4 DEF Apart, PoolInv
<1>4. CASE TurnDown(t)
  <2>1. pool' \subseteq pool
    BY <1>4 DEF TurnDown, Rest
  <2> QED
    BY <2>1 DEF PoolInv, Apart
<1>5. CASE TurnAway(t) \/ PutAside(t) \/ RejectInvalid(t) \/ RejectReplacement(t)
  <2>1. pool' = pool
    BY <1>5 DEF TurnAway, PutAside, RejectInvalid, RejectReplacement
  <2> QED
    BY <2>1 DEF PoolInv, Apart
<1> QED
  BY <1>3, <1>4, <1>5 DEF Decide

LEMMA NextPoolInv ==
    ASSUME Serial, ReplacementsStayApart, PoolInv, [Next]_vars
    PROVE  PoolInv'
<1>s. Undisturbed => promoting = <<>> /\ \A th \in Thread : request[th] = NoRequest
  BY DEF Undisturbed
<1>1. ASSUME NEW th \in Thread, NEW t \in Tx, ReadPool(th, t)
      PROVE  PoolInv'
  <2> DEFINE r == [stage |-> "read", tx |-> t, kept |-> Unexpired]
  <2>1. /\ request' = [request EXCEPT ![th] = r]
        /\ promoting = <<>> /\ \A other \in Thread : request[other] = NoRequest
        /\ UNCHANGED <<pool, promoting>>
    BY <1>1, <1>s DEF ReadPool
  <2>2. r \in Request /\ Unexpired \subseteq pool
    BY DEF Request, Unexpired, PoolInv
  <2>3. request' \in [Thread -> Request] /\ request'[th] = r
    BY <2>1, <2>2 DEF PoolInv
  <2>4. \A other \in Thread \ {th} : request'[other] = NoRequest
    BY <2>1 DEF PoolInv
  <2>5. /\ request'[th].stage = "read" /\ request'[th].tx \in Tx
        /\ request'[th].kept \subseteq pool'
    BY <2>1, <2>2, <2>3
  <2>6. Staged(request[th])'
    BY <2>5 DEF Staged
  <2>7. \A other \in Thread \ {th} : Staged(request[other])'
    BY <2>4, IdleIsStaged
  <2>8. Alone'
    BY <2>1, <2>4 DEF Alone
  <2> QED
    BY <2>1, <2>3, <2>6, <2>7, <2>8 DEF PoolInv, Apart
<1>2. ASSUME NEW th \in Thread, WritePool(th)
      PROVE  PoolInv'
  <2> DEFINE r == [request[th] EXCEPT !.stage = "written"]
  <2>1. /\ request[th].stage = "read" /\ request' = [request EXCEPT ![th] = r]
        /\ pool' = request[th].kept /\ promoting' = promoting
    BY <1>2 DEF WritePool, Stage
  <2>2. request[th] # NoRequest /\ request[th] \in Request /\ Staged(request[th])
    BY <2>1 DEF PoolInv, NoRequest
  <2>3. r \in Request
    BY <2>2 DEF Request
  <2>4. /\ request' \in [Thread -> Request] /\ request'[th] = r /\ Alone'
        /\ \A other \in Thread \ {th} : request'[other] = NoRequest
    BY <2>1, <2>2, <2>3, OthersIdle
  <2>5. /\ request'[th].stage = "written" /\ request'[th].tx \in Tx
        /\ request'[th].kept = pool' /\ pool' \subseteq pool
    BY <2>1, <2>2, <2>4 DEF Staged, Request
  <2>6. Staged(request[th])'
    BY <2>5 DEF Staged
  <2>7. \A other \in Thread \ {th} : Staged(request[other])'
    BY <2>4, IdleIsStaged
  <2>8. Apart' /\ pool' \subseteq Tx
    BY <2>5 DEF PoolInv, Apart
  <2> QED
    BY <2>4, <2>6, <2>7, <2>8 DEF PoolInv
<1>3. ASSUME NEW th \in Thread, WriteIndexes(th)
      PROVE  PoolInv'
  <2> DEFINE r == [request[th] EXCEPT !.stage = "pruned"]
  <2>1. /\ request[th].stage = "written" /\ request' = [request EXCEPT ![th] = r]
        /\ ids' = request[th].kept /\ spent' = SpentBy(request[th].kept)
        /\ pool' = pool /\ promoting' = promoting
    BY <1>3 DEF WriteIndexes, Stage
  <2>2. request[th] # NoRequest /\ request[th] \in Request /\ Staged(request[th])
    BY <2>1 DEF PoolInv, NoRequest
  <2>3. r \in Request
    BY <2>2 DEF Request
  <2>4. /\ request' \in [Thread -> Request] /\ request'[th] = r /\ Alone'
        /\ \A other \in Thread \ {th} : request'[other] = NoRequest
    BY <2>1, <2>2, <2>3, OthersIdle
  <2>5. /\ request'[th].stage = "pruned" /\ request'[th].tx \in Tx
        /\ ids' = pool' /\ spent' = SpentBy(pool')
    BY <2>1, <2>2, <2>4 DEF Staged, Request
  <2>6. Staged(request[th])'
    BY <2>5 DEF Staged, SpentBy
  <2>7. \A other \in Thread \ {th} : Staged(request[other])'
    BY <2>4, IdleIsStaged
  <2> QED
    BY <2>1, <2>4, <2>6, <2>7 DEF PoolInv, Apart
<1>4. ASSUME NEW th \in Thread, Decide(th)
      PROVE  PoolInv'
  <2>1. /\ request[th] # NoRequest
        /\ request' = [request EXCEPT ![th] = NoRequest] /\ promoting' = promoting
    BY <1>4 DEF Decide, NoRequest
  <2>2. NoRequest \in Request
    BY DEF NoRequest, Request
  <2>3. /\ request' \in [Thread -> Request] /\ request'[th] = NoRequest /\ Alone'
        /\ \A other \in Thread \ {th} : request'[other] = NoRequest
    BY <2>1, <2>2, OthersIdle
  <2>4. \A other \in Thread : Staged(request[other])'
    BY <2>3, IdleIsStaged
  <2> QED
    BY <1>4, <2>3, <2>4, DecideKeepsApart DEF PoolInv
<1>5. ASSUME NEW t \in Tx, Promote(t)
      PROVE  PoolInv'
  <2>1. promoting # <<>> /\ request' = request
    BY <1>5 DEF Promote
  <2>2. \A th \in Thread : request'[th] = NoRequest
    BY <2>1 DEF PoolInv, Alone
  <2>3. Alone' /\ \A th \in Thread : Staged(request[th])'
    BY <2>2, IdleIsStaged DEF Alone
  <2>4. pool' = pool \/ (pool' = pool \cup {t} /\ ~Clashes(t))
    BY <1>5 DEF Promote
  <2>5. Apart' /\ pool' \subseteq Tx
    BY <2>4 DEF PoolInv, Apart, Clashes
  <2> QED
    BY <2>1, <2>3, <2>5 DEF PoolInv
<1>6. ASSUME NEW t \in Tx, Evict(t) \/ Age(t) \/ PeerBlock(t)
      PROVE  PoolInv'
  <2>1. Undisturbed /\ request' = request /\ pool' \subseteq pool
    BY <1>6 DEF Evict, Age, PeerBlock, Unconfirmed
  <2> QED
    BY <1>s, <2>1, BetweenRequests
<1>7. ASSUME NEW s \in Sender, Forgive(s)
      PROVE  PoolInv'
  <2>1. Undisturbed /\ request' = request /\ pool' \subseteq pool
    BY <1>7 DEF Forgive
  <2> QED
    BY <1>s, <2>1, BetweenRequests
<1>8. ASSUME Mine
      PROVE  PoolInv'
  <2>1. Undisturbed /\ request' = request /\ pool' \subseteq pool
    BY <1>8 DEF Mine, StartMining, AbortMining, FinishMining, StateUnsaved, AppendMined,
                MiningFails, Found
  <2> QED
    BY <1>s, <2>1, BetweenRequests
<1>9. ASSUME UNCHANGED vars
      PROVE  PoolInv'
  <2>1. UNCHANGED <<pool, ids, spent, promoting, request>>
    BY <1>9 DEF vars, indexes
  <2> QED
    BY <2>1 DEF PoolInv, Apart, Alone, Staged, SpentBy
<1> QED
  BY <1>1, <1>2, <1>3, <1>4, <1>5, <1>6, <1>7, <1>8, <1>9 DEF Next, AddTransaction

\* No two pending transactions ever spend one coin, when operations that take
\* no common lock do not overlap: pruning, double-spend check, replacement,
\* eviction, promotion and mining together keep the pool consistent, though
\* the indexes are not at all times.
THEOREM PoolIsSpendable ==
    ASSUME Serial
    PROVE  Spec => []NoPoolDoubleSpend
<1>1. CASE ReplacementsStayApart
  <2>1. PoolInv /\ [Next]_vars => PoolInv'
    BY <1>1, NextPoolInv
  <2>2. PoolInv => NoPoolDoubleSpend
    BY DEF PoolInv, Apart, NoPoolDoubleSpend
  <2> QED
    BY <2>1, <2>2, InitPoolInv, PTL DEF Spec
<1>2. CASE ~ReplacementsStayApart
  <2>1. NoPoolDoubleSpend
    BY <1>2 DEF NoPoolDoubleSpend
  <2> QED
    BY <2>1, PTL
<1> QED
  BY <1>1, <1>2

-----------------------------------------------------------------------------
(* Inductions, over sets and functions instead of predicates.              *)

\* A set of natural numbers has a least element.
LEMMA LeastNatural ==
    ASSUME NEW T \in SUBSET Nat, T # {}
    PROVE  \E x \in T : \A y \in T : x <= y
<1> DEFINE R == OpToRel(<, Nat)
<1>1. IsWellFoundedOn(R, Nat)
  BY NatLessThanWellFounded
<1>2. \A x, y \in Nat : y < x => <<y, x>> \in R
  BY DEF OpToRel
<1>3. PICK x \in T : \A y \in T : ~ (<<y, x>> \in R)
  <2> HIDE DEF R
  <2> QED BY <1>1, WFMin
<1>4. \A y \in T : ~ (y < x)
  <2> HIDE DEF R
  <2> QED BY <1>2, <1>3
<1>5. x \in Nat /\ \A y \in T : y \in Nat
  OBVIOUS
<1>6. \A y \in T : x <= y
  BY <1>4, <1>5
<1> QED
  BY <1>6

\* What holds of 0 and goes on from each number to the next holds up to N.
LEMMA Upwards ==
    ASSUME NEW N \in Nat, NEW H \in SUBSET (0..N), 0 \in H,
           \A n \in 1..N : n - 1 \in H => n \in H
    PROVE  H = 0..N
<1> DEFINE T == (0..N) \ H
<1>1. SUFFICES ASSUME T # {} PROVE FALSE
  OBVIOUS
<1>2. PICK n \in T : \A k \in T : n <= k
  <2>1. T \in SUBSET Nat
    OBVIOUS
  <2> HIDE DEF T
  <2> QED BY <1>1, <2>1, LeastNatural
<1>3. n \in 1..N /\ n - 1 \in 0..N /\ n - 1 \notin T
  BY <1>2
<1> QED
  BY <1>2, <1>3

Iterates(f, N, base, step) ==
    /\ DOMAIN f = 0..N
    /\ f[0] = base
    /\ \A n \in 1..N : f[n] = step[n][f[n - 1]]
Iterated(S, N, base, step) == \E f \in [0..N -> S] : Iterates(f, N, base, step)

\* A recursive definition whose steps stay in a set defines a function.
LEMMA IterationExists ==
    ASSUME NEW S, NEW N \in Nat, NEW base \in S, NEW step \in [1..N -> [S -> S]]
    PROVE  Iterated(S, N, base, step)
<1> DEFINE H == {n \in 0..N : Iterated(S, n, base, step)}
<1>1. 0 \in H
  <2> DEFINE f == [i \in 0..0 |-> base]
  <2>1. f \in [0..0 -> S] /\ Iterates(f, 0, base, step)
    BY DEF Iterates
  <2> HIDE DEF f
  <2> QED
    BY <2>1 DEF Iterated
<1>2. ASSUME NEW n \in 1..N, n - 1 \in H
      PROVE  n \in H
  <2>1. PICK f \in [0..(n - 1) -> S] : Iterates(f, n - 1, base, step)
    BY <1>2 DEF Iterated
  <2>2. n - 1 \in 0..(n - 1) /\ f[n - 1] \in S
    OBVIOUS
  <2>3. step[n][f[n - 1]] \in S
    BY <2>2
  <2> DEFINE g == [i \in 0..n |-> IF i = n THEN step[n][f[n - 1]] ELSE f[i]]
  <2>4. \A i \in 0..n : i # n => i \in 0..(n - 1)
    OBVIOUS
  <2>5. g \in [0..n -> S]
    BY <2>3, <2>4
  <2>6. g[n] = step[n][f[n - 1]] /\ \A i \in 0..(n - 1) : g[i] = f[i]
    OBVIOUS
  <2> HIDE DEF g
  <2>7. g[0] = base
    BY <2>1, <2>6 DEF Iterates
  <2>8. ASSUME NEW i \in 1..n
        PROVE  g[i] = step[i][g[i - 1]]
    <3>1. i - 1 \in 0..(n - 1) /\ g[i - 1] = f[i - 1]
      BY <2>6
    <3>2. CASE i = n
      BY <3>1, <3>2, <2>6
    <3>3. CASE i # n
      <4>1. i \in 1..(n - 1) /\ i \in 0..(n - 1)
        BY <3>3
      <4> QED
        BY <4>1, <3>1, <2>1, <2>6 DEF Iterates
    <3> QED
      BY <3>2, <3>3
  <2>9. Iterates(g, n, base, step)
    BY <2>5, <2>7, <2>8 DEF Iterates
  <2>10. n \in 0..N
    OBVIOUS
  <2> HIDE <1>2
  <2> QED
    BY <2>5, <2>9, <2>10 DEF Iterated
<1>3. H = 0..N
  <2>1. H \in SUBSET (0..N)
    OBVIOUS
  <2> HIDE DEF H
  <2> QED BY <1>1, <1>2, <2>1, Upwards
<1> QED
  BY <1>3

\* The largest of finitely many ratings.
LEMMA FiniteHasBest ==
    ASSUME NEW S, IsFiniteSet(S), S # {}, NEW rate \in [S -> Int]
    PROVE  \E m \in S : \A x \in S : rate[x] <= rate[m]
<1>1. PICK N \in Nat : ExistsBijection(1..N, S)
  BY FS_NatBijection
<1>2. PICK e \in Bijection(1..N, S) : TRUE
  BY <1>1 DEF ExistsBijection
<1>3. e \in [1..N -> S] /\ \A x \in S : \E i \in 1..N : e[i] = x
  BY <1>2 DEF Bijection, Surjection
<1> DEFINE H == {n \in 0..N : n = 0 \/ \E m \in 1..n : \A i \in 1..n : rate[e[i]] <= rate[e[m]]}
<1>4. ASSUME NEW n \in 1..N, n - 1 \in H
      PROVE  n \in H
  <2>1. \A i \in 1..n : rate[e[i]] \in Int
    BY <1>3
  <2>2. CASE n = 1
    BY <2>1, <2>2
  <2>3. CASE n # 1
    <3>1. PICK m \in 1..(n - 1) : \A i \in 1..(n - 1) : rate[e[i]] <= rate[e[m]]
      BY <1>4, <2>3
    <3>2. m \in 1..n /\ n \in 1..n /\ \A i \in 1..n : i = n \/ i \in 1..(n - 1)
      OBVIOUS
    <3>3. CASE rate[e[n]] <= rate[e[m]]
      <4>1. \A i \in 1..n : rate[e[i]] <= rate[e[m]]
        BY <3>1, <3>2, <3>3
      <4> QED
        BY <3>2, <4>1
    <3>4. CASE ~(rate[e[n]] <= rate[e[m]])
      <4>1. \A i \in 1..n : rate[e[i]] <= rate[e[n]]
        BY <2>1, <3>1, <3>2, <3>4
      <4> QED
        BY <4>1
    <3> QED
      BY <3>3, <3>4
  <2> QED
    BY <2>2, <2>3
<1>5. H = 0..N
  <2>1. H \in SUBSET (0..N) /\ 0 \in H
    OBVIOUS
  <2> HIDE DEF H
  <2> QED BY <1>4, <2>1, Upwards
<1>6. N # 0
  <2>1. PICK x \in S : TRUE
    OBVIOUS
  <2>2. \E i \in 1..N : e[i] = x
    BY <1>3
  <2> QED
    BY <2>2
<1>7. PICK m \in 1..N : \A i \in 1..N : rate[e[i]] <= rate[e[m]]
  <2>1. N \in H
    <3> HIDE DEF H
    <3> QED BY <1>5
  <2> QED
    BY <2>1, <1>6
<1>8. e[m] \in S /\ \A x \in S : rate[x] <= rate[e[m]]
  BY <1>3, <1>7
<1> QED
  BY <1>8

\* The maximum of finitely many integers is one of them, and the largest.
LEMMA MaxOfFinite ==
    ASSUME NEW S \in SUBSET Int, IsFiniteSet(S), S # {}
    PROVE  Max(S) \in S /\ \A x \in S : x <= Max(S)
<1> DEFINE rate == [x \in S |-> x]
<1>1. rate \in [S -> Int] /\ \A x \in S : rate[x] = x
  OBVIOUS
<1> HIDE DEF rate
<1>2. PICK m \in S : \A x \in S : rate[x] <= rate[m]
  BY <1>1, FiniteHasBest
<1>3. m \in S /\ \A x \in S : m >= x
  BY <1>1, <1>2
<1>4. Max(S) \in S /\ \A x \in S : Max(S) >= x
  BY <1>3, Zenon DEF Max
<1> QED
  BY <1>4

LEMMA MaxOfTwo ==
    ASSUME NEW a \in Int, NEW b \in Int
    PROVE  Max({a, b}) \in Int /\ a <= Max({a, b}) /\ b <= Max({a, b})
<1>1. IsFiniteSet({a, b})
  <2>1. IsFiniteSet({a}) /\ IsFiniteSet({a} \cup {b})
    BY FS_Singleton, FS_AddElement
  <2>2. {a, b} = {a} \cup {b}
    OBVIOUS
  <2> QED
    BY <2>1, <2>2
<1> QED
  BY <1>1, MaxOfFinite

\* The smaller of two numbers.
LEMMA MinOfTwo ==
    ASSUME NEW a \in Int, NEW b \in Int
    PROVE  Min({a, b}) \in {a, b} /\ Min({a, b}) <= a /\ Min({a, b}) <= b
<1>1. \E m \in {a, b} : \A x \in {a, b} : m <= x
  <2>1. CASE a <= b
    BY <2>1
  <2>2. CASE ~(a <= b)
    BY <2>2
  <2> QED
    BY <2>1, <2>2
<1>2. Min({a, b}) \in {a, b} /\ \A x \in {a, b} : Min({a, b}) <= x
  BY <1>1, Zenon DEF Min
<1> QED
  BY <1>2

-----------------------------------------------------------------------------
(* The operators of the pool.                                              *)

\* What stays of a sequence are transactions of it.
LEMMA AmongTyped ==
    ASSUME NEW T, NEW s \in Seq(T), NEW txs
    PROVE  Among(s, txs) \in Seq(T)
<1> DEFINE N == Len(s)
           next(n, r) == IF s[n] \in txs THEN Append(r, s[n]) ELSE r
           body(r) == [n \in 0..N |->
                          IF n = 0 THEN <<>>
                          ELSE IF s[n] \in txs THEN Append(r[n - 1], s[n]) ELSE r[n - 1]]
           left == CHOOSE r : r = body(r)
           step == [n \in 1..N |-> [r \in Seq(T) |-> next(n, r)]]
           H == {n \in 0..N : left[n] \in Seq(T)}
<1>1. N \in Nat /\ <<>> \in Seq(T)
  OBVIOUS
<1>2. \A n \in 1..N, r \in Seq(T) : next(n, r) \in Seq(T)
  OBVIOUS
<1>3. PICK f \in [0..N -> Seq(T)] : Iterates(f, N, <<>>, step)
  <2>1. step \in [1..N -> [Seq(T) -> Seq(T)]]
    <3> HIDE DEF next, N
    <3> QED BY <1>2
  <2> HIDE DEF step, N
  <2> QED BY <1>1, <2>1, IterationExists DEF Iterated
<1>4. \A n \in 1..N : f[n] = next(n, f[n - 1])
  <2>1. ASSUME NEW n \in 1..N
        PROVE  f[n] = next(n, f[n - 1])
    <3>1. n - 1 \in 0..N
      BY <1>1
    <3>2. f[n - 1] \in Seq(T)
      BY <3>1
    <3>3. step[n] = [r \in Seq(T) |-> next(n, r)]
      OBVIOUS
    <3> HIDE DEF step, next, N
    <3> QED
      BY <1>3, <3>2, <3>3 DEF Iterates
  <2> QED
    BY <2>1
<1>5. f = body(f)
  <2>1. DOMAIN f = 0..N /\ f[0] = <<>>
    <3> HIDE DEF step
    <3> QED BY <1>3 DEF Iterates
  <2>2. \A n \in 0..N : n # 0 => n \in 1..N
    BY <1>1
  <2>3. \A n \in 0..N : f[n] = IF n = 0 THEN <<>>
                               ELSE IF s[n] \in txs THEN Append(f[n - 1], s[n]) ELSE f[n - 1]
    BY <1>4, <2>1, <2>2
  <2> QED
    BY <2>1, <2>3
<1>6. left = body(left)
  <2> HIDE DEF body
  <2> QED BY <1>5
<1> HIDE DEF left
<1>7. left[0] = <<>> /\ \A n \in 1..N : left[n] = next(n, left[n - 1])
  <2>1. body(left)[0] = <<>> /\ \A n \in 1..N : body(left)[n] = next(n, left[n - 1])
    BY <1>1
  <2> HIDE DEF body, next, N
  <2> QED BY <1>6, <2>1
<1>8. H = 0..N
  <2>1. H \in SUBSET (0..N) /\ 0 \in H
    <3>1. 0 \in 0..N
      BY <1>1
    <3> HIDE DEF N
    <3> QED BY <1>1, <1>7, <3>1
  <2>2. \A n \in 1..N : n - 1 \in H => n \in H
    <3> HIDE DEF next
    <3> QED BY <1>1, <1>2, <1>7
  <2> HIDE DEF H
  <2> QED BY <1>1, <2>1, <2>2, Upwards
<1>9. Among(s, txs) = left[N]
  BY DEF Among, left
<1>10. N \in H
  <2> HIDE DEF H, N
  <2> QED BY <1>1, <1>8
<1> QED
  BY <1>9, <1>10

\* The turns of Kahn's algorithm: what is not placed yet, what of it is free to
\* be placed, and what pays best.
Open(d) == pool \ ToSet(d)
Free(d, before) == {t \in Open(d) : \A u \in Open(d) : <<u, t>> \notin before}
BestOf(txs) == CHOOSE t \in txs : \A u \in txs : FeeRate[u] <= FeeRate[t]
Placed(d, before) ==
    IF Free(d, before) = {} THEN d ELSE Append(d, BestOf(Free(d, before)))

LEMMA BestIsOne ==
    ASSUME pool \subseteq Tx, IsFiniteSet(pool), NEW R \in SUBSET pool, R # {}
    PROVE  BestOf(R) \in R
<1> DEFINE rate == [t \in R |-> FeeRate[t]]
<1>1. IsFiniteSet(R)
  BY FS_Subset
<1>2. rate \in [R -> Int]
  BY PoolConstantsAreTyped
<1>3. \A t \in R : rate[t] = FeeRate[t]
  OBVIOUS
<1> HIDE DEF rate
<1>4. \E m \in R : \A x \in R : FeeRate[x] <= FeeRate[m]
  <2>1. PICK m \in R : \A x \in R : rate[x] <= rate[m]
    BY <1>1, <1>2, FiniteHasBest
  <2> QED
    BY <1>3, <2>1
<1> QED
  BY <1>4, Zenon DEF BestOf

\* Sorting takes one such turn for each transaction of the pool.
LEMMA SortedUnfolds ==
    ASSUME pool \subseteq Tx, IsFiniteSet(pool), NEW before
    PROVE  \E placed \in [0..Cardinality(pool) -> Seq(pool)] :
               /\ placed[0] = <<>>
               /\ \A n \in 1..Cardinality(pool) : placed[n] = Placed(placed[n - 1], before)
               /\ Sorted(before) = placed[Cardinality(pool)]
<1> DEFINE N == Cardinality(pool)
           open(d) == pool \ ToSet(d)
           ready(d) == {t \in open(d) : \A u \in open(d) : <<u, t>> \notin before}
           best(d) == CHOOSE t \in ready(d) : \A u \in ready(d) : FeeRate[u] <= FeeRate[t]
           body(r) == [n \in 0..N |->
                          IF n = 0 THEN <<>>
                          ELSE IF ready(r[n - 1]) = {} THEN r[n - 1]
                          ELSE Append(r[n - 1], best(r[n - 1]))]
           placed == CHOOSE r : r = body(r)
           next(d) == Placed(d, before)
           step == [n \in 1..N |-> [d \in Seq(pool) |-> next(d)]]
           H == {n \in 0..N : placed[n] \in Seq(pool)}
<1>1. N \in Nat /\ <<>> \in Seq(pool)
  BY FS_CardinalityType
<1>2. ASSUME NEW d \in Seq(pool)
      PROVE  next(d) \in Seq(pool)
  <2>1. Free(d, before) \in SUBSET pool
    BY DEF Free, Open
  <2>2. Free(d, before) # {} => BestOf(Free(d, before)) \in pool
    BY <2>1, BestIsOne
  <2> QED
    BY <2>2 DEF Placed
<1>0. \A d : next(d) = IF ready(d) = {} THEN d ELSE Append(d, best(d))
  BY DEF Placed, Free, Open, BestOf
<1>11. Sorted(before) = placed[N]
  BY DEF Sorted
<1> HIDE DEF N, next
<1>3. PICK f \in [0..N -> Seq(pool)] : Iterates(f, N, <<>>, step)
  <2>1. step \in [1..N -> [Seq(pool) -> Seq(pool)]]
    BY <1>2
  <2> HIDE DEF step
  <2> QED BY <1>1, <2>1, IterationExists DEF Iterated
<1>4. \A n \in 1..N : f[n] = next(f[n - 1])
  <2>1. ASSUME NEW n \in 1..N
        PROVE  f[n] = next(f[n - 1])
    <3>1. n - 1 \in 0..N
      BY <1>1
    <3>2. f[n - 1] \in Seq(pool)
      BY <3>1
    <3>3. step[n] = [d \in Seq(pool) |-> next(d)]
      OBVIOUS
    <3> HIDE DEF step, next
    <3> QED
      BY <1>3, <3>2, <3>3 DEF Iterates
  <2> QED
    BY <2>1
<1>5. f = body(f)
  <2>1. DOMAIN f = 0..N /\ f[0] = <<>>
    <3> HIDE DEF step
    <3> QED BY <1>3 DEF Iterates
  <2>2. \A n \in 0..N : n # 0 => n \in 1..N
    BY <1>1
  <2> HIDE DEF ready, best
  <2>3. \A n \in 0..N : f[n] = IF n = 0 THEN <<>>
                               ELSE IF ready(f[n - 1]) = {} THEN f[n - 1]
                               ELSE Append(f[n - 1], best(f[n - 1]))
    BY <1>0, <1>4, <2>1, <2>2
  <2> QED
    BY <2>1, <2>3
<1>6. placed = body(placed)
  <2> HIDE DEF body
  <2> QED BY <1>5
<1> HIDE DEF placed
<1>7. placed[0] = <<>> /\ \A n \in 1..N : placed[n] = next(placed[n - 1])
  <2> HIDE DEF ready, best
  <2>1. /\ body(placed)[0] = <<>>
        /\ \A n \in 1..N : body(placed)[n] =
               IF ready(placed[n - 1]) = {} THEN placed[n - 1]
               ELSE Append(placed[n - 1], best(placed[n - 1]))
    BY <1>1
  <2> HIDE DEF body, next
  <2> QED BY <1>0, <1>6, <2>1
<1>8. H = 0..N
  <2>1. H \in SUBSET (0..N) /\ 0 \in H
    <3>1. 0 \in 0..N
      BY <1>1
    <3> HIDE DEF N
    <3> QED BY <1>1, <1>7, <3>1
  <2>2. \A n \in 1..N : n - 1 \in H => n \in H
    <3> HIDE DEF next
    <3> QED BY <1>1, <1>2, <1>7
  <2> HIDE DEF H
  <2> QED BY <1>1, <2>1, <2>2, Upwards
<1>9. placed \in [0..N -> Seq(pool)]
  <2>1. DOMAIN body(placed) = 0..N
    OBVIOUS
  <2>2. DOMAIN placed = 0..N
    <3> HIDE DEF body
    <3> QED BY <1>6, <2>1
  <2>3. placed = [n \in 0..N |-> placed[n]]
    <3>1. DOMAIN body(placed) = 0..N /\ body(placed) = [n \in DOMAIN body(placed) |-> body(placed)[n]]
      OBVIOUS
    <3> HIDE DEF body
    <3> QED BY <1>6, <3>1
  <2>4. \A n \in 0..N : placed[n] \in Seq(pool)
    <3>1. \A n \in H : placed[n] \in Seq(pool)
      OBVIOUS
    <3> HIDE DEF H
    <3> QED BY <1>8, <3>1
  <2> QED
    BY <2>3, <2>4
<1>10. \A n \in 1..N : placed[n] = Placed(placed[n - 1], before)
  BY <1>7 DEF next
<1> HIDE DEF placed, H
<1> QED
  BY <1>7, <1>9, <1>10, <1>11 DEF N

\* Sorting yields transactions of the pool.
LEMMA SortedIsOfPool ==
    ASSUME pool \subseteq Tx, IsFiniteSet(pool), NEW before
    PROVE  Sorted(before) \in Seq(pool)
<1> DEFINE N == Cardinality(pool)
<1>1. N \in 0..N
  BY FS_CardinalityType
<1>2. PICK placed \in [0..N -> Seq(pool)] : Sorted(before) = placed[N]
  BY SortedUnfolds
<1> QED
  BY <1>1, <1>2

\* What the selection loop has at each turn: valid transactions of the pool,
\* with nonces below the one that comes next for their sender.
ChosenRecord == [txs : Seq(pool), confirmed : [Sender -> Int],
                 reserved : [Sender -> Int], next : [Sender -> Int]]
ChosenValid(txs, next) ==
    /\ \A k \in 1..Len(txs) : InputsValid(txs[k]) /\ Nonce[txs[k]] < next[From[txs[k]]]
    /\ \A j, k \in 1..Len(txs) : j # k => txs[j] # txs[k]
Chosen == {acc \in ChosenRecord : ChosenValid(acc.txs, acc.next)}

\* A turn of the loop adds the next transaction of a sender or none.
LEMMA SelectStep ==
    ASSUME pool \subseteq Tx, NEW acc \in Chosen, NEW t \in pool
    PROVE  Select(acc, t) \in Chosen
<1> DEFINE s == From[t]
           tried == [acc EXCEPT !.confirmed[s] = acc.next[s] - 1]
           taken == [tried EXCEPT !.txs = Append(@, t),
                                  !.reserved[s] = Nonce[t],
                                  !.next[s] = Nonce[t] + 1]
           passed == [tried EXCEPT !.reserved[s] = -1]
<1>1. t \in Tx /\ s \in Sender /\ Nonce[t] \in Nat
  BY PoolConstantsAreTyped
<1>2. acc \in ChosenRecord /\ ChosenValid(acc.txs, acc.next)
  BY DEF Chosen
<1>3. acc.next[s] \in Int
  BY <1>1, <1>2 DEF ChosenRecord
<1>4. /\ tried \in ChosenRecord
      /\ tried.txs = acc.txs /\ tried.next = acc.next /\ tried.reserved = acc.reserved
  <2> DEFINE c == [acc.confirmed EXCEPT ![s] = acc.next[s] - 1]
  <2>1. c \in [Sender -> Int]
    BY <1>1, <1>2, <1>3 DEF ChosenRecord
  <2>2. tried = [acc EXCEPT !.confirmed = c]
    OBVIOUS
  <2> HIDE DEF c, tried
  <2> QED
    BY <1>2, <2>1, <2>2 DEF ChosenRecord
<1> HIDE DEF tried
<1>5. CASE Select(acc, t) = acc
  BY <1>5
<1>6. CASE Select(acc, t) = passed
  <2>1. passed \in ChosenRecord /\ passed.txs = acc.txs /\ passed.next = acc.next
    <3> DEFINE r == [tried.reserved EXCEPT ![s] = -1]
    <3>1. r \in [Sender -> Int]
      BY <1>1, <1>4 DEF ChosenRecord
    <3>2. passed = [tried EXCEPT !.reserved = r]
      OBVIOUS
    <3> HIDE DEF r, passed
    <3> QED
      BY <1>4, <3>1, <3>2 DEF ChosenRecord
  <2> HIDE DEF passed
  <2> QED
    BY <1>2, <1>6, <2>1 DEF Chosen
<1>7. CASE Select(acc, t) = taken /\ InputsValid(t) /\ Nonce[t] = acc.next[s]
  <2>1. /\ taken \in ChosenRecord /\ taken.txs = Append(acc.txs, t)
        /\ taken.next = [acc.next EXCEPT ![s] = Nonce[t] + 1]
    <3> DEFINE r == [tried.reserved EXCEPT ![s] = Nonce[t]]
               x == [tried.next EXCEPT ![s] = Nonce[t] + 1]
               b == Append(tried.txs, t)
    <3>1. r \in [Sender -> Int] /\ x \in [Sender -> Int] /\ b \in Seq(pool)
      BY <1>1, <1>4 DEF ChosenRecord
    <3>2. taken = [tried EXCEPT !.txs = b, !.reserved = r, !.next = x]
      OBVIOUS
    <3>3. b = Append(acc.txs, t) /\ x = [acc.next EXCEPT ![s] = Nonce[t] + 1]
      BY <1>4
    <3> HIDE DEF r, x, b, taken
    <3>4. taken \in ChosenRecord /\ taken.txs = b /\ taken.next = x
      BY <1>4, <3>1, <3>2 DEF ChosenRecord
    <3> QED
      BY <3>3, <3>4
  <2> HIDE DEF taken
  <2>2. acc.txs \in Seq(pool) /\ acc.next \in [Sender -> Int]
    BY <1>2 DEF ChosenRecord
  <2> DEFINE txs == acc.txs
             more == Append(txs, t)
             next == [acc.next EXCEPT ![s] = Nonce[t] + 1]
  <2>3. /\ Len(more) = Len(txs) + 1 /\ more[Len(txs) + 1] = t
        /\ \A k \in 1..Len(txs) : more[k] = txs[k]
    BY <2>2
  <2>4. \A k \in 1..Len(more) : k = Len(txs) + 1 \/ k \in 1..Len(txs)
    BY <2>2, <2>3
  <2>5. next[s] = Nonce[t] + 1 /\ \A u \in Sender : u # s => next[u] = acc.next[u]
    BY <1>1, <2>2
  <2>6. ASSUME NEW k \in 1..Len(txs)
        PROVE  /\ InputsValid(txs[k]) /\ Nonce[txs[k]] < next[From[txs[k]]]
               /\ txs[k] # t
    <3>1. txs[k] \in Tx /\ From[txs[k]] \in Sender /\ Nonce[txs[k]] \in Nat
      <4>1. txs[k] \in pool
        BY <2>2
      <4> HIDE DEF txs
      <4> QED
        BY <4>1, PoolConstantsAreTyped
    <3>2. InputsValid(txs[k]) /\ Nonce[txs[k]] < acc.next[From[txs[k]]]
      BY <1>2 DEF ChosenValid
    <3> HIDE DEF next, txs, s
    <3>3. CASE From[txs[k]] = s
      BY <1>1, <1>7, <2>5, <3>1, <3>2, <3>3
    <3>4. CASE From[txs[k]] # s
      BY <2>5, <3>1, <3>2, <3>4 DEF s
    <3> QED
      BY <3>3, <3>4
  <2>7. ChosenValid(more, next)
    <3>1. ASSUME NEW k \in 1..Len(more)
          PROVE  InputsValid(more[k]) /\ Nonce[more[k]] < next[From[more[k]]]
      <4>1. CASE k = Len(txs) + 1
        <5>1. more[k] = t
          BY <2>3, <4>1
        <5>2. Nonce[t] < next[From[t]]
          BY <1>1, <2>5
        <5> QED
          BY <1>7, <5>1, <5>2
      <4>2. CASE k \in 1..Len(txs)
        BY <2>3, <2>6, <4>2
      <4> QED
        BY <2>4, <4>1, <4>2
    <3>2. ASSUME NEW j \in 1..Len(more), NEW k \in 1..Len(more), j # k
          PROVE  more[j] # more[k]
      <4>1. CASE j \in 1..Len(txs) /\ k \in 1..Len(txs)
        <5>1. txs[j] # txs[k]
          BY <1>2, <3>2, <4>1 DEF ChosenValid
        <5> QED
          BY <2>3, <4>1, <5>1
      <4>2. CASE j = Len(txs) + 1 /\ k \in 1..Len(txs)
        BY <2>3, <2>6, <4>2
      <4>3. CASE k = Len(txs) + 1 /\ j \in 1..Len(txs)
        BY <2>3, <2>6, <4>3
      <4> QED
        BY <2>4, <3>2, <4>1, <4>2, <4>3
    <3> HIDE DEF more, next
    <3> QED
      BY <3>1, <3>2 DEF ChosenValid
  <2> QED
    BY <1>7, <2>1, <2>7 DEF Chosen
<1>8. \/ Select(acc, t) = acc
      \/ Select(acc, t) = passed
      \/ Select(acc, t) = taken /\ InputsValid(t) /\ Nonce[t] = acc.next[s]
  BY DEF Select, tried
<1> QED
  BY <1>5, <1>6, <1>7, <1>8

\* Mining goes through the order one transaction after the other.
LEMMA SelectionUnfolds ==
    ASSUME pool \subseteq Tx, IsFiniteSet(pool),
           confirmed \in [Sender -> Int]
    PROVE  /\ Prioritized \in Seq(pool)
           /\ \E chosen \in [0..Len(Prioritized) -> Chosen] :
                 /\ chosen[0].txs = <<>>
                 /\ chosen[0].next = [s \in Sender |-> confirmed[s] + 1]
                 /\ \A n \in 1..Len(Prioritized) :
                        chosen[n] = Select(chosen[n - 1], Prioritized[n])
                 /\ Selection = chosen[Len(Prioritized)]
<1> DEFINE order == Prioritized
           N == Len(order)
           base == [txs |-> <<>>, confirmed |-> confirmed, reserved |-> [s \in Sender |-> -1],
                    next |-> [s \in Sender |-> confirmed[s] + 1]]
           body(r) == [n \in 0..N |->
                          IF n = 0
                          THEN [txs |-> <<>>, confirmed |-> confirmed,
                                reserved |-> [s \in Sender |-> -1],
                                next |-> [s \in Sender |-> confirmed[s] + 1]]
                          ELSE Select(r[n - 1], order[n])]
           chosen == CHOOSE r : r = body(r)
           step == [n \in 1..N |-> [acc \in Chosen |-> Select(acc, order[n])]]
           H == {n \in 0..N : chosen[n] \in Chosen}
<1>1. order \in Seq(pool)
  BY SortedIsOfPool DEF Prioritized
<1>2. Selection = chosen[N]
  BY DEF Selection
<1> HIDE DEF order
<1>3. N \in Nat
  BY <1>1
<1>4. base \in Chosen
  <2>1. [s \in Sender |-> -1] \in [Sender -> Int]
    OBVIOUS
  <2>2. [s \in Sender |-> confirmed[s] + 1] \in [Sender -> Int]
    OBVIOUS
  <2>3. base \in ChosenRecord /\ base.txs = <<>>
    BY <2>1, <2>2 DEF ChosenRecord
  <2> HIDE DEF base
  <2>4. ChosenValid(<<>>, base.next)
    BY DEF ChosenValid
  <2> QED
    BY <2>3, <2>4 DEF Chosen
<1>5. \A n \in 1..N : \A acc \in Chosen : Select(acc, order[n]) \in Chosen
  <2>1. \A n \in 1..N : order[n] \in pool
    BY <1>1
  <2> QED
    BY <2>1, SelectStep
<1>6. PICK f \in [0..N -> Chosen] : Iterates(f, N, base, step)
  <2>1. step \in [1..N -> [Chosen -> Chosen]]
    <3> HIDE DEF N
    <3> QED BY <1>5
  <2> HIDE DEF step, base, N
  <2> QED BY <1>3, <1>4, <2>1, IterationExists DEF Iterated
<1> HIDE DEF N
<1>7. \A n \in 1..N : f[n] = Select(f[n - 1], order[n])
  <2>1. ASSUME NEW n \in 1..N
        PROVE  f[n] = Select(f[n - 1], order[n])
    <3>1. n - 1 \in 0..N
      BY <1>3
    <3>2. f[n - 1] \in Chosen
      BY <3>1
    <3>3. step[n] = [acc \in Chosen |-> Select(acc, order[n])]
      OBVIOUS
    <3> HIDE DEF step
    <3> QED
      BY <1>6, <3>2, <3>3 DEF Iterates
  <2> QED
    BY <2>1
<1>8. f = body(f)
  <2>1. DOMAIN f = 0..N /\ f[0] = base
    <3> HIDE DEF step
    <3> QED BY <1>6 DEF Iterates
  <2>2. \A n \in 0..N : n # 0 => n \in 1..N
    BY <1>3
  <2>3. \A n \in 0..N : f[n] = IF n = 0 THEN base ELSE Select(f[n - 1], order[n])
    <3> HIDE DEF base
    <3> QED BY <1>7, <2>1, <2>2
  <2> QED
    BY <2>1, <2>3
<1>9. chosen = body(chosen)
  <2> HIDE DEF body
  <2> QED BY <1>8
<1> HIDE DEF chosen
<1>10. chosen[0] = base /\ \A n \in 1..N : chosen[n] = Select(chosen[n - 1], order[n])
  <2>1. body(chosen)[0] = base /\ \A n \in 1..N : body(chosen)[n] = Select(chosen[n - 1], order[n])
    BY <1>3
  <2> HIDE DEF body, base
  <2> QED BY <1>9, <2>1
<1>11. H = 0..N
  <2> HIDE DEF base
  <2>1. H \in SUBSET (0..N) /\ 0 \in H
    BY <1>3, <1>4, <1>10
  <2>2. \A n \in 1..N : n - 1 \in H => n \in H
    BY <1>3, <1>5, <1>10
  <2> HIDE DEF H
  <2> QED BY <1>3, <2>1, <2>2, Upwards
<1>12. chosen \in [0..N -> Chosen]
  <2>1. chosen = [n \in 0..N |-> chosen[n]]
    <3>1. DOMAIN body(chosen) = 0..N /\ body(chosen) = [n \in DOMAIN body(chosen) |-> body(chosen)[n]]
      OBVIOUS
    <3> HIDE DEF body
    <3> QED BY <1>9, <3>1
  <2>2. \A n \in 0..N : chosen[n] \in Chosen
    <3>1. \A n \in H : chosen[n] \in Chosen
      OBVIOUS
    <3> HIDE DEF H
    <3> QED BY <1>11, <3>1
  <2> QED
    BY <2>1, <2>2
<1>13. base.txs = <<>> /\ base.next = [s \in Sender |-> confirmed[s] + 1]
  OBVIOUS
<1> HIDE DEF base, chosen, H
<1> QED
  BY <1>1, <1>2, <1>10, <1>12, <1>13 DEF N, order

\* What mining selects.
LEMMA SelectionIsChosen ==
    ASSUME pool \subseteq Tx, IsFiniteSet(pool),
           confirmed \in [Sender -> Int]
    PROVE  Selection \in Chosen
<1>1. Prioritized \in Seq(pool) /\ Len(Prioritized) \in 0..Len(Prioritized)
  BY SelectionUnfolds
<1> QED
  BY <1>1, SelectionUnfolds

\* Spending the inputs of a block one transaction after the other: the coins
\* only get fewer.
LEMMA CoinsAfterUnfolds ==
    ASSUME NEW txs \in Seq(Tx), coins \subseteq Coin
    PROVE  \E left \in [0..Len(txs) -> SUBSET Coin] :
               /\ left[0] = coins \cup UNION {Outputs[t] : t \in ToSet(txs)}
               /\ \A n \in 1..Len(txs) : left[n] = left[n - 1] \ Marked(txs[n], left[n - 1])
               /\ CoinsAfter(txs) = left[Len(txs)]
<1> DEFINE N == Len(txs)
           base == coins \cup UNION {Outputs[t] : t \in ToSet(txs)}
           body(r) == [n \in 0..N |->
                          IF n = 0 THEN coins \cup UNION {Outputs[t] : t \in ToSet(txs)}
                          ELSE r[n - 1] \ Marked(txs[n], r[n - 1])]
           left == CHOOSE r : r = body(r)
           step == [n \in 1..N |-> [c \in SUBSET Coin |-> c \ Marked(txs[n], c)]]
           H == {n \in 0..N : left[n] \in SUBSET Coin}
<1>1. N \in Nat
  OBVIOUS
<1>2. base \in SUBSET Coin
  <2>1. \A t \in ToSet(txs) : t \in Tx
    BY DEF ToSet
  <2>2. \A t \in Tx : Outputs[t] \in SUBSET Coin
    BY PoolConstantsAreTyped
  <2> QED
    BY <2>1, <2>2
<1>3. \A n \in 1..N : \A c \in SUBSET Coin : c \ Marked(txs[n], c) \in SUBSET Coin
  OBVIOUS
<1>4. CoinsAfter(txs) = left[N]
  BY DEF CoinsAfter
<1> HIDE DEF N
<1>5. PICK f \in [0..N -> SUBSET Coin] : Iterates(f, N, base, step)
  <2>1. step \in [1..N -> [SUBSET Coin -> SUBSET Coin]]
    BY <1>3
  <2> HIDE DEF step, base
  <2> QED BY <1>1, <1>2, <2>1, IterationExists DEF Iterated
<1>6. \A n \in 1..N : f[n] = f[n - 1] \ Marked(txs[n], f[n - 1])
  <2>1. ASSUME NEW n \in 1..N
        PROVE  f[n] = f[n - 1] \ Marked(txs[n], f[n - 1])
    <3>1. n - 1 \in 0..N
      BY <1>1
    <3>2. f[n - 1] \in SUBSET Coin
      BY <3>1
    <3>3. step[n] = [c \in SUBSET Coin |-> c \ Marked(txs[n], c)]
      OBVIOUS
    <3>4. f[n] = step[n][f[n - 1]]
      <4> HIDE DEF step
      <4> QED BY <1>5 DEF Iterates
    <3> HIDE DEF step
    <3> QED
      BY <3>2, <3>3, <3>4
  <2> QED
    BY <2>1
<1>7. f = body(f)
  <2>1. DOMAIN f = 0..N /\ f[0] = base
    <3> HIDE DEF step
    <3> QED BY <1>5 DEF Iterates
  <2>2. \A n \in 0..N : n # 0 => n \in 1..N
    BY <1>1
  <2>3. \A n \in 0..N : f[n] = IF n = 0 THEN base ELSE f[n - 1] \ Marked(txs[n], f[n - 1])
    <3> HIDE DEF base
    <3> QED BY <1>6, <2>1, <2>2
  <2> QED
    BY <2>1, <2>3
<1>8. left = body(left)
  <2> HIDE DEF body
  <2> QED BY <1>7
<1> HIDE DEF left
<1>9. left[0] = base /\ \A n \in 1..N : left[n] = left[n - 1] \ Marked(txs[n], left[n - 1])
  <2>1. /\ body(left)[0] = base
        /\ \A n \in 1..N : body(left)[n] = left[n - 1] \ Marked(txs[n], left[n - 1])
    BY <1>1
  <2> HIDE DEF body, base
  <2> QED BY <1>8, <2>1
<1>10. H = 0..N
  <2> HIDE DEF base
  <2>1. H \in SUBSET (0..N) /\ 0 \in H
    BY <1>1, <1>2, <1>9
  <2>2. \A n \in 1..N : n - 1 \in H => n \in H
    BY <1>1, <1>3, <1>9
  <2> HIDE DEF H
  <2> QED BY <1>1, <2>1, <2>2, Upwards
<1>11. left \in [0..N -> SUBSET Coin]
  <2>1. DOMAIN left = 0..N /\ left = [n \in 0..N |-> left[n]]
    <3>1. body(left) = [n \in 0..N |-> body(left)[n]]
      OBVIOUS
    <3> HIDE DEF body
    <3> QED BY <1>8, <3>1
  <2>2. \A n \in 0..N : left[n] \in SUBSET Coin
    BY <1>10
  <2> QED
    BY <2>1, <2>2
<1>12. /\ left[0] = base
       /\ \A n \in 1..N : left[n] = left[n - 1] \ Marked(txs[n], left[n - 1])
       /\ CoinsAfter(txs) = left[N]
  <2> HIDE DEF base
  <2> QED BY <1>4, <1>9
<1> QED
  BY <1>11, <1>12 DEF N

-----------------------------------------------------------------------------
(* Types: without any assumption on what overlaps.                         *)

IndexTypes ==
    /\ ids \subseteq Tx /\ spent \subseteq Coin
    /\ senderCount \in [Sender -> Int]
    /\ nonceIndex \subseteq Sender \X Nat

RequestTypes ==
    /\ request \in [Thread -> Request]
    /\ \A th \in Thread :
          /\ IsFiniteSet(request[th].kept)
          /\ request[th].stage # "idle" => request[th].tx \in Tx

WorkTypes == work \in [stage : {"idle", "hashing", "stale"}, txs : Seq(Tx)]

NonceTypes == confirmed \in [Sender -> Int] /\ reserved \in [Sender -> Int]

PoolTypes == pool \subseteq Tx /\ IsFiniteSet(pool)

PoolTyped ==
    /\ PoolTypes /\ IndexTypes /\ RequestTypes /\ WorkTypes /\ NonceTypes
    /\ waiting \in Seq(Tx) /\ promoting \in Seq(Tx) /\ ledger \in Seq(Tx)
    /\ coins \subseteq Coin
    /\ strikes \in [Sender -> 0..BanAfter]
    /\ age \in [Tx -> 0..2]

LEMMA PoolTypedImpliesTypeOK == PoolTyped => TypeOK
<1> SUFFICES ASSUME PoolTyped PROVE TypeOK
  OBVIOUS
<1>1. \A th \in Thread : request[th].stage \in {"idle", "read", "written", "pruned"}
  BY DEF PoolTyped, RequestTypes, Request
<1>2. work.stage \in {"idle", "hashing", "stale"} /\ work.txs \in Seq(Tx)
  BY DEF PoolTyped, WorkTypes
<1> QED
  BY <1>1, <1>2 DEF PoolTyped, PoolTypes, IndexTypes, NonceTypes, TypeOK

LEMMA InitPoolTyped == Init => PoolTyped
<1> SUFFICES ASSUME Init PROVE PoolTyped
  OBVIOUS
<1>1. IsFiniteSet({})
  BY FS_EmptySet
<1>2. NoRequest \in Request /\ NoRequest.kept = {} /\ NoRequest.stage = "idle"
  BY DEF NoRequest, Request
<1>3. RequestTypes
  BY <1>1, <1>2 DEF Init, RequestTypes
<1>4. WorkTypes
  BY DEF Init, WorkTypes, NoWork
<1>5. 0 \in 0..BanAfter
  BY PoolConstantsAreTyped
<1> QED
  BY <1>1, <1>3, <1>4, <1>5, PoolConstantsAreTyped
  DEF Init, PoolTyped, PoolTypes, IndexTypes, NonceTypes

\* What a transaction is made of.
LEMMA TxFields ==
    ASSUME NEW t \in Tx
    PROVE  /\ CoinsOf(t) \subseteq Coin /\ CoinsOf(t) # {}
           /\ NonceOf(t) \in Sender \X Nat
           /\ From[t] \in Sender /\ Nonce[t] \in Nat /\ Outputs[t] \subseteq Coin
<1>1. Inputs[t] \in Seq(Coin) /\ Inputs[t] # <<>>
  BY PoolConstantsAreTyped
<1>2. CoinsOf(t) \subseteq Coin
  BY <1>1 DEF CoinsOf
<1>3. Inputs[t][1] \in CoinsOf(t)
  BY <1>1 DEF CoinsOf
<1> QED
  BY <1>2, <1>3, PoolConstantsAreTyped DEF NonceOf

LEMMA SpentByTyped ==
    ASSUME NEW txs \in SUBSET Tx
    PROVE  SpentBy(txs) \subseteq Coin
BY TxFields DEF SpentBy

LEMMA CountsTyped ==
    ASSUME NEW txs, IsFiniteSet(txs)
    PROVE  CountsOf(txs) \in [Sender -> Int]
<1>1. ASSUME NEW s \in Sender
      PROVE  Cardinality({t \in txs : From[t] = s}) \in Int
  <2> DEFINE mine == {t \in txs : From[t] = s}
  <2>1. mine \in SUBSET txs
    OBVIOUS
  <2> HIDE DEF mine
  <2>2. IsFiniteSet(mine)
    BY <2>1, FS_Subset
  <2>3. Cardinality(mine) \in Int
    BY <2>2, FS_CardinalityType
  <2> QED
    BY <2>3 DEF mine
<1> QED
  BY <1>1 DEF CountsOf

\* The indexes after a request has rebuilt them.
LEMMA RebuiltIndexes ==
    ASSUME NEW txs \in SUBSET Tx, IsFiniteSet(txs)
    PROVE  /\ SpentBy(txs) \subseteq Coin
           /\ CountsOf(txs) \in [Sender -> Int]
           /\ {NonceOf(t) : t \in txs} \subseteq Sender \X Nat
BY SpentByTyped, CountsTyped, TxFields

\* Fewer transactions, or one more, remain finitely many of Tx.
LEMMA FewerPool ==
    ASSUME PoolTypes, NEW txs \in SUBSET pool
    PROVE  txs \subseteq Tx /\ IsFiniteSet(txs)
BY FS_Subset DEF PoolTypes

LEMMA OneMore ==
    ASSUME PoolTypes, NEW txs \in SUBSET pool, NEW t \in Tx
    PROVE  txs \cup {t} \subseteq Tx /\ IsFiniteSet(txs \cup {t})
BY FewerPool, FS_AddElement DEF PoolTypes

LEMMA OriginalCount ==
    ASSUME NEW t
    PROVE  Cardinality(Original(t)) \in Int
<1>1. CASE Original(t) = {}
  BY <1>1, FS_EmptySet
<1>2. CASE Original(t) = {Replaces[t]}
  <2>1. Cardinality({Replaces[t]}) = 1
    BY FS_Singleton
  <2> QED
    BY <1>2, <2>1
<1> QED
  BY <1>1, <1>2 DEF Original

LEMMA FreshTyped ==
    ASSUME NEW s \in Seq(Tx)
    PROVE  Fresh(s) \in Seq(Tx)
BY AmongTyped DEF Fresh

\* Strikes stay within their range.
LEMMA StrikeTyped ==
    ASSUME strikes \in [Sender -> 0..BanAfter], NEW s \in Sender, Strike(s)
    PROVE  strikes' \in [Sender -> 0..BanAfter]
<1>1. BanAfter \in Nat /\ strikes[s] + 1 \in Nat /\ strikes[s] \in Nat
  BY PoolConstantsAreTyped
<1>2. Min({strikes[s] + 1, BanAfter}) \in 0..BanAfter
  BY <1>1, MinOfTwo
<1>3. strikes' = [strikes EXCEPT ![s] = Min({strikes[s] + 1, BanAfter})]
  BY DEF Strike
<1> QED
  BY <1>2, <1>3

-----------------------------------------------------------------------------

LEMMA RequestStepTyped ==
    ASSUME PoolTyped, NEW th \in Thread,
           (\E t \in Tx : ReadPool(th, t)) \/ WritePool(th) \/ WriteIndexes(th)
    PROVE  PoolTyped'
<1>0. request[th] \in Request /\ IsFiniteSet(request[th].kept)
  BY DEF PoolTyped, RequestTypes
<1>1. ASSUME NEW t \in Tx, ReadPool(th, t)
      PROVE  PoolTyped'
  <2> DEFINE r == [stage |-> "read", tx |-> t, kept |-> Unexpired]
  <2>1. Unexpired \in SUBSET pool
    BY DEF Unexpired
  <2>2. Unexpired \subseteq Tx /\ IsFiniteSet(Unexpired)
    BY <2>1, FewerPool DEF PoolTyped
  <2>3. r \in Request /\ r.kept = Unexpired /\ r.tx \in Tx
    BY <2>2 DEF Request
  <2>4. request' = [request EXCEPT ![th] = r]
    BY <1>1 DEF ReadPool
  <2> HIDE DEF r
  <2>5. RequestTypes'
    BY <2>2, <2>3, <2>4 DEF PoolTyped, RequestTypes
  <2> QED
    BY <1>1, <2>5
    DEF ReadPool, PoolTyped, PoolTypes, IndexTypes, WorkTypes, NonceTypes, indexes, nonces
<1>2. ASSUME NEW stage \in {"written", "pruned"}, request[th].stage # "idle",
             request' = [request EXCEPT ![th].stage = stage]
      PROVE  RequestTypes'
  <2> DEFINE r == [request[th] EXCEPT !.stage = stage]
  <2>1. r \in Request /\ r.kept = request[th].kept /\ r.tx = request[th].tx
    BY <1>0 DEF Request
  <2>2. request[th].tx \in Tx
    BY <1>2 DEF PoolTyped, RequestTypes
  <2>3. request' = [request EXCEPT ![th] = r]
    BY <1>2
  <2> HIDE DEF r
  <2> QED
    BY <1>0, <2>1, <2>2, <2>3 DEF PoolTyped, RequestTypes
<1>3. CASE WritePool(th)
  <2>1. RequestTypes'
    BY <1>2, <1>3 DEF WritePool, Stage
  <2>2. PoolTypes'
    BY <1>0, <1>3 DEF WritePool, PoolTypes, Request
  <2> QED
    BY <1>3, <2>1, <2>2
    DEF WritePool, PoolTyped, IndexTypes, WorkTypes, NonceTypes, indexes, nonces
<1>4. CASE WriteIndexes(th)
  <2>1. RequestTypes'
    BY <1>2, <1>4 DEF WriteIndexes, Stage
  <2>2. request[th].kept \in SUBSET Tx
    BY <1>0 DEF Request
  <2>3. /\ ids' = request[th].kept /\ spent' = SpentBy(request[th].kept)
        /\ senderCount' = CountsOf(request[th].kept)
        /\ nonceIndex' = {NonceOf(t) : t \in request[th].kept}
        /\ waiting' = Fresh(waiting)
        /\ UNCHANGED <<pool, strikes, confirmed, reserved, coins, ledger, age, promoting, work>>
    BY <1>4 DEF WriteIndexes, nonces
  <2>4. IndexTypes'
    BY <1>0, <2>2, <2>3, RebuiltIndexes DEF IndexTypes
  <2>5. waiting' \in Seq(Tx)
    BY <2>3, FreshTyped DEF PoolTyped
  <2> QED
    BY <2>1, <2>3, <2>4, <2>5 DEF PoolTyped, PoolTypes, WorkTypes, NonceTypes
<1> QED
  BY <1>1, <1>3, <1>4

\* The outcomes of a decision.
LEMMA TurnedAwayTyped ==
    ASSUME PoolTyped, NEW t \in Tx,
           TurnAway(t) \/ PutAside(t) \/ RejectInvalid(t) \/ RejectReplacement(t)
    PROVE  /\ PoolTypes' /\ IndexTypes' /\ NonceTypes'
           /\ waiting' \in Seq(Tx) /\ strikes' \in [Sender -> 0..BanAfter]
<1>1. UNCHANGED <<pool, ids, spent, senderCount, nonceIndex, confirmed, reserved>>
  BY DEF TurnAway, PutAside, RejectInvalid, RejectReplacement, indexes, nonces
<1>2. PoolTypes' /\ IndexTypes' /\ NonceTypes'
  BY <1>1 DEF PoolTyped, PoolTypes, IndexTypes, NonceTypes
<1>3. waiting' \in Seq(Tx)
  <2>1. waiting' = waiting \/ waiting' = Append(waiting, t)
    BY DEF TurnAway, PutAside, RejectInvalid, RejectReplacement
  <2>2. waiting \in Seq(Tx)
    BY DEF PoolTyped
  <2> QED
    BY <2>1, <2>2
<1>4. strikes' \in [Sender -> 0..BanAfter]
  <2>1. strikes' = strikes \/ Strike(From[t])
    BY DEF TurnAway, PutAside, RejectInvalid, RejectReplacement
  <2>2. From[t] \in Sender
    BY TxFields
  <2> QED
    BY <2>1, <2>2, StrikeTyped DEF PoolTyped
<1> QED
  BY <1>2, <1>3, <1>4

LEMMA TurnedDownTyped ==
    ASSUME PoolTyped, NEW t \in Tx, TurnDown(t)
    PROVE  /\ PoolTypes' /\ IndexTypes' /\ NonceTypes'
           /\ waiting' \in Seq(Tx) /\ strikes' \in [Sender -> 0..BanAfter]
<1> DEFINE gone == Original(t)
<1>1. /\ pool' = Rest(t) /\ ids' = ids \ gone /\ spent' = spent \ SpentBy(gone)
      /\ senderCount' = [senderCount EXCEPT ![From[t]] = @ - Cardinality(gone)]
      /\ nonceIndex' = nonceIndex \ {NonceOf(o) : o \in gone}
      /\ UNCHANGED <<waiting, strikes, confirmed, reserved>>
  BY DEF TurnDown, nonces
<1>2. PoolTypes'
  <2>1. Rest(t) \in SUBSET pool
    BY DEF Rest
  <2> QED
    BY <1>1, <2>1, FewerPool DEF PoolTyped, PoolTypes
<1>3. From[t] \in Sender /\ Cardinality(gone) \in Int
  BY TxFields, OriginalCount
<1>4. IndexTypes'
  <2> HIDE DEF gone
  <2>1. senderCount \in [Sender -> Int]
    BY DEF PoolTyped, IndexTypes
  <2>2. senderCount' \in [Sender -> Int]
    BY <1>1, <1>3, <2>1
  <2> QED
    BY <1>1, <2>2 DEF PoolTyped, IndexTypes
<1> QED
  BY <1>1, <1>2, <1>4 DEF PoolTyped, NonceTypes

LEMMA AdmittedTyped ==
    ASSUME PoolTyped, NEW t \in Tx, Admit(t)
    PROVE  /\ PoolTypes' /\ IndexTypes' /\ NonceTypes'
           /\ waiting' \in Seq(Tx) /\ strikes' \in [Sender -> 0..BanAfter]
<1> DEFINE s == From[t]
           gone == Original(t) \cup Evicted(t)
           fewer(n, u) == IF \E e \in Evicted(t) : From[e] = u THEN Max({0, n - 1}) ELSE n
           left == [senderCount EXCEPT ![s] = @ - Cardinality(Original(t))]
<1>1. /\ pool' = (pool \ gone) \cup {t}
      /\ ids' = (ids \ gone) \cup {t}
      /\ spent' = (spent \ SpentBy(gone)) \cup CoinsOf(t)
      /\ senderCount' = [u \in Sender |-> fewer(left[u], u) + (IF u = s THEN 1 ELSE 0)]
      /\ nonceIndex' = (nonceIndex \ {NonceOf(o) : o \in Original(t)}) \cup {NonceOf(t)}
      /\ strikes' = [strikes EXCEPT ![s] = 0]
      /\ reserved' = [reserved EXCEPT ![s] = IF Nonce[t] > Effective(s) THEN Nonce[t] ELSE @]
      /\ waiting' = waiting /\ confirmed' = confirmed
  BY DEF Admit
<1>2. s \in Sender /\ Nonce[t] \in Int /\ CoinsOf(t) \subseteq Coin /\ NonceOf(t) \in Sender \X Nat
  BY TxFields
<1>3. PoolTypes'
  <2>1. pool \ gone \in SUBSET pool
    OBVIOUS
  <2> HIDE DEF gone
  <2> QED
    BY <1>1, <2>1, OneMore DEF PoolTyped, PoolTypes
<1>4. senderCount' \in [Sender -> Int]
  <2>1. senderCount \in [Sender -> Int] /\ Cardinality(Original(t)) \in Int
    BY OriginalCount DEF PoolTyped, IndexTypes
  <2>2. left \in [Sender -> Int]
    BY <1>2, <2>1
  <2>3. ASSUME NEW u \in Sender, NEW n \in Int
        PROVE  fewer(n, u) \in Int
    <3>1. n - 1 \in Int /\ 0 \in Int
      OBVIOUS
    <3>2. Max({0, n - 1}) \in Int
      BY <3>1, MaxOfTwo
    <3> QED
      BY <3>2
  <2> HIDE DEF fewer, left
  <2>4. \A u \in Sender : fewer(left[u], u) + (IF u = s THEN 1 ELSE 0) \in Int
    BY <2>2, <2>3
  <2> QED
    BY <1>1, <2>4
<1>5. IndexTypes'
  <2> HIDE DEF gone, fewer, left
  <2> QED
    BY <1>1, <1>2, <1>4 DEF PoolTyped, IndexTypes
<1>6. strikes' \in [Sender -> 0..BanAfter]
  <2>1. 0 \in 0..BanAfter
    BY PoolConstantsAreTyped
  <2> HIDE DEF gone, fewer, left
  <2> QED
    BY <1>1, <2>1 DEF PoolTyped
<1>7. NonceTypes'
  <2> HIDE DEF gone, fewer, left
  <2> QED
    BY <1>1, <1>2 DEF PoolTyped, NonceTypes
<1> QED
  BY <1>1, <1>3, <1>5, <1>6, <1>7 DEF PoolTyped

LEMMA DecideTyped ==
    ASSUME PoolTyped, NEW th \in Thread, Decide(th)
    PROVE  PoolTyped'
<1> DEFINE t == request[th].tx
<1>1. t \in Tx
  BY DEF Decide, PoolTyped, RequestTypes
<1>2. TurnAway(t) \/ PutAside(t) \/ RejectInvalid(t) \/ RejectReplacement(t)
      \/ TurnDown(t) \/ Admit(t)
  BY DEF Decide
<1>3. /\ PoolTypes' /\ IndexTypes' /\ NonceTypes'
      /\ waiting' \in Seq(Tx) /\ strikes' \in [Sender -> 0..BanAfter]
  <2> HIDE DEF t
  <2> QED BY <1>1, <1>2, TurnedAwayTyped, TurnedDownTyped, AdmittedTyped
<1>4. request' = [request EXCEPT ![th] = NoRequest] /\ UNCHANGED <<coins, ledger, age, promoting, work>>
  BY DEF Decide
<1>5. RequestTypes'
  <2>1. NoRequest \in Request /\ NoRequest.kept = {} /\ NoRequest.stage = "idle" /\ IsFiniteSet({})
    BY FS_EmptySet DEF NoRequest, Request
  <2> QED
    BY <1>4, <2>1 DEF PoolTyped, RequestTypes
<1> QED
  BY <1>3, <1>4, <1>5 DEF PoolTyped, WorkTypes

\* The highest nonce of a block's transactions and of the tracker.
LEMMA HighestTyped ==
    ASSUME NEW txs \in Seq(Tx), NEW s \in Sender, NEW c \in Int
    PROVE  Max({c} \cup {Nonce[t] : t \in {u \in ToSet(txs) : From[u] = s}}) \in Int
<1> DEFINE mine == {u \in ToSet(txs) : From[u] = s}
           N == {Nonce[t] : t \in mine}
<1>1. ToSet(txs) \subseteq Tx
  BY DEF ToSet
<1>2. IsFiniteSet(ToSet(txs))
  <2> DEFINE at == [i \in 1..Len(txs) |-> txs[i]]
  <2>1. Len(txs) \in Nat /\ DOMAIN txs = 1..Len(txs)
    OBVIOUS
  <2>2. at \in Surjection(1..Len(txs), ToSet(txs))
    BY <2>1 DEF Surjection, ToSet
  <2>3. IsFiniteSet(1..Len(txs))
    BY <2>1, FS_Interval
  <2> HIDE DEF at
  <2> QED
    BY <2>2, <2>3, FS_Surjection
<1>3. IsFiniteSet(mine)
  <2>1. mine \in SUBSET ToSet(txs)
    OBVIOUS
  <2> HIDE DEF mine
  <2> QED BY <1>2, <2>1, FS_Subset
<1>4. N \subseteq Int
  BY <1>1, TxFields
<1>5. IsFiniteSet(N)
  <2> DEFINE nonce == [t \in mine |-> Nonce[t]]
  <2> HIDE DEF mine
  <2>1. nonce \in Surjection(mine, N)
    BY DEF Surjection
  <2> HIDE DEF nonce, N
  <2> QED BY <1>3, <2>1, FS_Surjection
<1>6. {c} \cup N \in SUBSET Int /\ {c} \cup N # {}
  BY <1>4
<1>7. IsFiniteSet({c} \cup N)
  <2>1. IsFiniteSet({c})
    BY FS_Singleton
  <2> HIDE DEF N
  <2> QED BY <1>5, <2>1, FS_Union
<1> HIDE DEF N
<1>8. Max({c} \cup N) \in Int
  BY <1>6, <1>7, MaxOfFinite
<1> QED
  BY <1>8 DEF N

LEMMA EvictTyped ==
    ASSUME PoolTyped, NEW t \in Tx, Evict(t)
    PROVE  PoolTyped'
<1> DEFINE s == From[t]
<1>1. /\ pool' = pool \ {t} /\ ids' = ids \ {t} /\ spent' = spent \ CoinsOf(t)
      /\ senderCount' = [senderCount EXCEPT ![s] = Max({0, @ - 1})]
      /\ nonceIndex' = nonceIndex \ {NonceOf(t)}
      /\ strikes' = strikes \/ strikes' = [strikes EXCEPT ![s] = BanAfter]
      /\ UNCHANGED <<waiting, confirmed, reserved, coins, ledger, age, request, promoting, work>>
  BY DEF Evict, nonces
<1>2. s \in Sender
  BY TxFields
<1>3. PoolTypes'
  <2>1. pool \ {t} \in SUBSET pool
    OBVIOUS
  <2> QED
    BY <1>1, <2>1, FewerPool DEF PoolTyped, PoolTypes
<1> HIDE DEF s
<1>4. senderCount' \in [Sender -> Int]
  <2>1. senderCount \in [Sender -> Int]
    BY DEF PoolTyped, IndexTypes
  <2>2. senderCount[s] - 1 \in Int /\ 0 \in Int
    BY <1>2, <2>1
  <2>3. Max({0, senderCount[s] - 1}) \in Int
    BY <2>2, MaxOfTwo
  <2> QED
    BY <1>1, <1>2, <2>1, <2>3
<1>5. IndexTypes'
  BY <1>1, <1>4 DEF PoolTyped, IndexTypes
<1>6. strikes' \in [Sender -> 0..BanAfter]
  <2>1. BanAfter \in 0..BanAfter
    BY PoolConstantsAreTyped
  <2>2. strikes \in [Sender -> 0..BanAfter]
    BY DEF PoolTyped
  <2> QED
    BY <1>1, <2>1, <2>2
<1> QED
  BY <1>1, <1>3, <1>5, <1>6 DEF PoolTyped, RequestTypes, WorkTypes, NonceTypes

LEMMA StartMiningTyped ==
    ASSUME PoolTyped, StartMining
    PROVE  PoolTyped'
<1>1. /\ work' = [stage |-> "hashing", txs |-> Selection.txs]
      /\ confirmed' = Selection.confirmed /\ reserved' = Selection.reserved
      /\ UNCHANGED <<pool, ids, spent, senderCount, nonceIndex, waiting, strikes, coins,
                     ledger, age, request, promoting>>
  BY DEF StartMining, indexes
<1>2. pool \subseteq Tx /\ IsFiniteSet(pool) /\ confirmed \in [Sender -> Int]
  BY DEF PoolTyped, PoolTypes, NonceTypes
<1>3. Selection \in ChosenRecord
  BY <1>2, SelectionIsChosen DEF Chosen
<1>4. /\ Selection.txs \in Seq(Tx)
      /\ Selection.confirmed \in [Sender -> Int] /\ Selection.reserved \in [Sender -> Int]
  <2>1. /\ Selection.txs \in Seq(pool)
        /\ Selection.confirmed \in [Sender -> Int] /\ Selection.reserved \in [Sender -> Int]
    BY <1>3 DEF ChosenRecord
  <2>2. Selection.txs \in Seq(Tx)
    BY <1>2, <2>1
  <2> QED
    BY <2>1, <2>2
<1>5. NonceTypes' /\ WorkTypes'
  BY <1>1, <1>4 DEF NonceTypes, WorkTypes
<1> QED
  BY <1>1, <1>5 DEF PoolTyped, PoolTypes, IndexTypes, RequestTypes

LEMMA AppendMinedTyped ==
    ASSUME PoolTyped, AppendMined, NonceTypes'
    PROVE  PoolTyped'
<1>1. /\ coins' = CoinsAfter(work.txs) /\ ledger' = ledger \o work.txs /\ pool' = {}
      /\ work' = NoWork
      /\ UNCHANGED <<ids, spent, senderCount, nonceIndex, waiting, strikes, age, request, promoting>>
  BY DEF AppendMined, indexes
<1>2. work.txs \in Seq(Tx) /\ coins \subseteq Coin /\ ledger \in Seq(Tx)
  BY DEF PoolTyped, WorkTypes
<1>3. coins' \subseteq Coin
  <2>1. PICK left \in [0..Len(work.txs) -> SUBSET Coin] : CoinsAfter(work.txs) = left[Len(work.txs)]
    BY <1>2, CoinsAfterUnfolds
  <2>2. Len(work.txs) \in 0..Len(work.txs)
    BY <1>2
  <2> QED
    BY <1>1, <2>1, <2>2
<1>4. ledger' \in Seq(Tx) /\ PoolTypes' /\ WorkTypes'
  <2>1. PoolTypes'
    BY <1>1, FS_EmptySet DEF PoolTypes
  <2>2. WorkTypes'
    BY <1>1 DEF WorkTypes, NoWork
  <2> QED
    BY <1>1, <1>2, <2>1, <2>2
<1>5. IndexTypes' /\ RequestTypes'
  BY <1>1 DEF PoolTyped, IndexTypes, RequestTypes
<1> QED
  BY <1>1, <1>3, <1>4, <1>5 DEF PoolTyped

LEMMA FinishMiningTyped ==
    ASSUME PoolTyped, FinishMining
    PROVE  PoolTyped'
<1> DEFINE txs == ToSet(work.txs)
           highest(s) == Max({confirmed[s]} \cup {Nonce[t] : t \in {u \in txs : From[u] = s}})
<1>1. /\ confirmed' = [s \in Sender |-> highest(s)]
      /\ reserved' = [s \in Sender |-> IF (\E t \in txs : From[t] = s) /\ reserved[s] <= highest(s)
                                       THEN -1 ELSE reserved[s]]
  BY DEF FinishMining
<1>2. work.txs \in Seq(Tx) /\ confirmed \in [Sender -> Int] /\ reserved \in [Sender -> Int]
  BY DEF PoolTyped, WorkTypes, NonceTypes
<1>3. \A s \in Sender : highest(s) \in Int
  <2>1. ASSUME NEW s \in Sender
        PROVE  highest(s) \in Int
    <3>1. confirmed[s] \in Int
      BY <1>2
    <3> QED
      BY <1>2, <3>1, HighestTyped
  <2> QED
    BY <2>1
<1> HIDE DEF highest
<1>4. NonceTypes'
  BY <1>1, <1>2, <1>3 DEF NonceTypes
<1>5. AppendMined
  BY DEF FinishMining
<1> QED
  BY <1>4, <1>5, AppendMinedTyped

LEMMA StateUnsavedTyped ==
    ASSUME PoolTyped, StateUnsaved
    PROVE  PoolTyped'
<1>1. AppendMined /\ NonceTypes'
  BY DEF StateUnsaved, nonces, PoolTyped, NonceTypes
<1> QED
  BY <1>1, AppendMinedTyped

LEMMA PeerBlockTyped ==
    ASSUME PoolTyped, NEW t \in Tx, PeerBlock(t)
    PROVE  PoolTyped'
<1>1. /\ ledger' = Append(ledger, t) /\ coins' = (coins \ CoinsOf(t)) \cup Outputs[t]
      /\ pool' = pool \ {t} /\ ids' = pool' /\ senderCount' = CountsOf(pool')
      /\ work' = IF work = NoWork THEN work ELSE [work EXCEPT !.stage = "stale"]
      /\ promoting' = waiting
      /\ UNCHANGED <<spent, nonceIndex, waiting, strikes, confirmed, reserved, age, request>>
  BY DEF PeerBlock, Unconfirmed, nonces
<1>2. PoolTypes'
  <2>1. pool \ {t} \in SUBSET pool
    OBVIOUS
  <2> QED
    BY <1>1, <2>1, FewerPool DEF PoolTyped, PoolTypes
<1>3. IndexTypes'
  <2>1. IsFiniteSet(pool \ {t})
    BY <1>1, <1>2 DEF PoolTypes
  <2>2. CountsOf(pool \ {t}) \in [Sender -> Int]
    BY <2>1, CountsTyped
  <2>3. senderCount' = CountsOf(pool \ {t})
    BY <1>1
  <2> QED
    BY <1>1, <1>2, <2>2, <2>3 DEF PoolTyped, PoolTypes, IndexTypes
<1>4. WorkTypes'
  <2>1. work \in [stage : {"idle", "hashing", "stale"}, txs : Seq(Tx)]
    BY DEF PoolTyped, WorkTypes
  <2>2. [work EXCEPT !.stage = "stale"] \in [stage : {"idle", "hashing", "stale"}, txs : Seq(Tx)]
    BY <2>1
  <2> QED
    BY <1>1, <2>1, <2>2 DEF WorkTypes
<1>5. ledger' \in Seq(Tx) /\ promoting' \in Seq(Tx) /\ waiting' \in Seq(Tx)
  <2>1. ledger \in Seq(Tx) /\ waiting \in Seq(Tx)
    BY DEF PoolTyped
  <2> QED
    BY <1>1, <2>1
<1>6. coins' \subseteq Coin
  <2>1. coins \subseteq Coin
    BY DEF PoolTyped
  <2> QED
    BY <1>1, <2>1, TxFields
<1>7. RequestTypes' /\ NonceTypes' /\ strikes' = strikes /\ age' = age
  BY <1>1 DEF PoolTyped, RequestTypes, NonceTypes
<1>8. strikes' \in [Sender -> 0..BanAfter] /\ age' \in [Tx -> 0..2]
  BY <1>7 DEF PoolTyped
<1> QED
  BY <1>2, <1>3, <1>4, <1>5, <1>6, <1>7, <1>8 DEF PoolTyped

LEMMA PromoteTyped ==
    ASSUME PoolTyped, NEW t \in Tx, Promote(t)
    PROVE  PoolTyped'
<1> DEFINE joins == Valid(t) /\ ~Clashes(t)
<1>1. /\ promoting # <<>> /\ promoting' = Tail(promoting)
      /\ pool' = IF joins THEN pool \cup {t} ELSE pool
      /\ waiting' = Fresh(Among(waiting, IF joins THEN Tx \ {t} ELSE Tx))
      /\ UNCHANGED <<ids, spent, senderCount, nonceIndex, strikes, confirmed, reserved,
                     coins, ledger, age, request, work>>
  BY DEF Promote, indexes, nonces
<1> HIDE DEF joins
<1>2. PoolTypes'
  <2>1. PoolTypes /\ pool \in SUBSET pool
    BY DEF PoolTyped
  <2>2. pool \cup {t} \subseteq Tx /\ IsFiniteSet(pool \cup {t})
    BY <2>1, OneMore
  <2> QED
    BY <1>1, <2>1, <2>2 DEF PoolTypes
<1>3. waiting' \in Seq(Tx)
  <2>1. waiting \in Seq(Tx)
    BY DEF PoolTyped
  <2> DEFINE w == Among(waiting, IF joins THEN Tx \ {t} ELSE Tx)
  <2>2. w \in Seq(Tx)
    BY <2>1, AmongTyped
  <2> HIDE DEF w
  <2>3. Fresh(w) \in Seq(Tx)
    BY <2>2, FreshTyped
  <2> QED
    BY <1>1, <2>3 DEF w
<1>4. promoting' \in Seq(Tx)
  <2>1. promoting \in Seq(Tx)
    BY DEF PoolTyped
  <2> QED
    BY <1>1, <2>1
<1> QED
  BY <1>1, <1>2, <1>3, <1>4 DEF PoolTyped, IndexTypes, RequestTypes, WorkTypes, NonceTypes

LEMMA NextPoolTyped ==
    ASSUME PoolTyped, [Next]_vars
    PROVE  PoolTyped'
<1>1. ASSUME NEW th \in Thread, AddTransaction(th)
      PROVE  PoolTyped'
  BY <1>1, RequestStepTyped, DecideTyped DEF AddTransaction
<1>2. ASSUME NEW t \in Tx, Evict(t) \/ PeerBlock(t) \/ Promote(t)
      PROVE  PoolTyped'
  BY <1>2, EvictTyped, PeerBlockTyped, PromoteTyped
<1>3. ASSUME NEW t \in Tx, Age(t)
      PROVE  PoolTyped'
  <2>1. /\ age[t] < 2 /\ age' = [age EXCEPT ![t] = @ + 1]
        /\ UNCHANGED <<pool, ids, spent, senderCount, nonceIndex, waiting, strikes, confirmed,
                       reserved, coins, ledger, request, promoting, work>>
    BY <1>3 DEF Age, indexes, nonces
  <2>2. age' \in [Tx -> 0..2]
    <3>1. age \in [Tx -> 0..2]
      BY DEF PoolTyped
    <3> QED
      BY <2>1, <3>1
  <2> QED
    BY <2>1, <2>2 DEF PoolTyped, PoolTypes, IndexTypes, RequestTypes, WorkTypes, NonceTypes
<1>4. ASSUME NEW s \in Sender, Forgive(s)
      PROVE  PoolTyped'
  <2>1. /\ strikes' = [strikes EXCEPT ![s] = 0]
        /\ UNCHANGED <<pool, ids, spent, senderCount, nonceIndex, waiting, confirmed, reserved,
                       coins, ledger, age, request, promoting, work>>
    BY <1>4 DEF Forgive, indexes, nonces
  <2>2. strikes' \in [Sender -> 0..BanAfter]
    <3>1. strikes \in [Sender -> 0..BanAfter] /\ 0 \in 0..BanAfter
      BY PoolConstantsAreTyped DEF PoolTyped
    <3> QED
      BY <2>1, <3>1
  <2> QED
    BY <2>1, <2>2 DEF PoolTyped, PoolTypes, IndexTypes, RequestTypes, WorkTypes, NonceTypes
<1>5. ASSUME AbortMining \/ MiningFails
      PROVE  PoolTyped'
  <2>1. /\ work' = NoWork
        /\ UNCHANGED <<pool, ids, spent, senderCount, nonceIndex, waiting, strikes, confirmed,
                       reserved, coins, ledger, age, request, promoting>>
    BY <1>5 DEF AbortMining, MiningFails, indexes, nonces
  <2>2. WorkTypes'
    BY <2>1 DEF WorkTypes, NoWork
  <2> QED
    BY <2>1, <2>2 DEF PoolTyped, PoolTypes, IndexTypes, RequestTypes, NonceTypes
<1>6. ASSUME UNCHANGED vars
      PROVE  PoolTyped'
  BY <1>6 DEF vars, indexes, nonces, PoolTyped, PoolTypes, IndexTypes, RequestTypes, WorkTypes, NonceTypes
<1> QED
  BY <1>1, <1>2, <1>3, <1>4, <1>5, <1>6, StartMiningTyped, FinishMiningTyped,
     StateUnsavedTyped DEF Next, Mine

\* The pool, its indexes, the waiting list, the nonce tracker and the block
\* being mined are well typed in every state of mempool_mixin.py, also when
\* requests, mining and blocks of peers overlap, and whatever the order that
\* _prioritize_transactions falls back to.
THEOREM PoolTypesHold == Spec => []TypeOK
BY InitPoolTyped, NextPoolTyped, PoolTypedImpliesTypeOK, PTL DEF Spec

-----------------------------------------------------------------------------
(* Nothing on the chain is pending.                                        *)

\* What the transactions of the chain have spent never comes back.
SpentForGood == \A i \in 1..Len(ledger) : CoinsOf(ledger[i]) \cap coins = {}

\* The block being mined, as long as no other has come in between.
BlockIsNew ==
    LET txs == work.txs
    IN  /\ \A k \in 1..Len(txs) : txs[k] \notin ToSet(ledger)
        /\ \A j, k \in 1..Len(txs) : j # k => CoinsOf(txs[j]) \cap CoinsOf(txs[k]) = {}
        /\ \A k \in 1..Len(txs) : \A c \in CoinsOf(txs[k]) :
              c \in coins \/ \E u \in Tx \ ToSet(ledger) : c \in Outputs[u]

Unmined == pool \cap ToSet(ledger) = {}

OnceInv ==
    LedgerFunded => SpentForGood /\ Unmined /\ (work.stage = "hashing" => BlockIsNew)

LEMMA InitOnce == Init => OnceInv
BY DEF Init, OnceInv, SpentForGood, Unmined, NoWork

LEMMA OnLedger ==
    ASSUME ledger \in Seq(Tx)
    PROVE  \A t : t \in ToSet(ledger) <=> \E i \in 1..Len(ledger) : ledger[i] = t
BY DEF ToSet

\* A longer chain is funded only when what was there before is.
LEMMA FundedBefore ==
    ASSUME ledger \in Seq(Tx), ledger' \in Seq(Tx), Len(ledger) <= Len(ledger'),
           \A i \in 1..Len(ledger) : ledger'[i] = ledger[i], LedgerFunded'
    PROVE  LedgerFunded
<1>1. ASSUME NEW i \in 1..Len(ledger), NEW c \in CoinsOf(ledger[i])
      PROVE  c \in Genesis \/ \E j \in 1..(i - 1) : c \in Outputs[ledger[j]]
  <2>1. i \in 1..Len(ledger') /\ c \in CoinsOf(ledger'[i])
    BY <1>1
  <2>2. c \in Genesis \/ \E j \in 1..(i - 1) : c \in Outputs[ledger'[j]]
    BY <2>1 DEF LedgerFunded, CoinsOf
  <2>3. \A j \in 1..(i - 1) : j \in 1..Len(ledger)
    OBVIOUS
  <2> QED
    BY <2>2, <2>3
<1> QED
  BY <1>1 DEF LedgerFunded

\* A coin that a transaction outside the chain creates is spent by none on it.
LEMMA NewCoinsUnspent ==
    ASSUME ledger \in Seq(Tx), LedgerFunded,
           NEW u \in Tx, u \notin ToSet(ledger), NEW c \in Outputs[u],
           NEW i \in 1..Len(ledger)
    PROVE  c \notin CoinsOf(ledger[i])
<1>1. SUFFICES ASSUME c \in CoinsOf(ledger[i]) PROVE FALSE
  OBVIOUS
<1>2. c \notin Genesis
  BY CoinsHaveOneOrigin
<1>3. PICK j \in 1..(i - 1) : c \in Outputs[ledger[j]]
  BY <1>1, <1>2 DEF LedgerFunded
<1>4. j \in 1..Len(ledger) /\ ledger[j] \in Tx
  OBVIOUS
<1>5. ledger[j] = u
  BY <1>3, <1>4, CoinsHaveOneOrigin
<1> QED
  BY <1>4, <1>5, OnLedger

\* A transaction with valid inputs is not on the chain.
LEMMA ValidIsNew ==
    ASSUME ledger \in Seq(Tx), pool \subseteq Tx, LedgerFunded, SpentForGood, Unmined,
           NEW t \in Tx, InputsValid(t)
    PROVE  t \notin ToSet(ledger)
<1>1. SUFFICES ASSUME NEW i \in 1..Len(ledger), ledger[i] = t PROVE FALSE
  BY OnLedger
<1>2. PICK c \in CoinsOf(t) : TRUE
  BY TxFields
<1>3. c \notin coins
  BY <1>1, <1>2 DEF SpentForGood
<1>4. PICK u \in pool : c \in Outputs[u]
  BY <1>2, <1>3 DEF InputsValid, PendingOutput
<1>5. u \in Tx /\ u \notin ToSet(ledger)
  BY <1>4 DEF Unmined
<1>6. c \notin CoinsOf(ledger[i])
  BY <1>4, <1>5, NewCoinsUnspent
<1> QED
  BY <1>1, <1>2, <1>6

\* Steps that leave chain, coins and block alone, and add to the pool at most a
\* transaction with valid inputs.
LEMMA QuietStep ==
    ASSUME OnceInv, ledger \in Seq(Tx), pool \subseteq Tx,
           UNCHANGED <<ledger, coins>>,
           work' = work \/ work'.stage # "hashing",
           pool' \subseteq pool \/ \E t \in Tx : InputsValid(t) /\ pool' \subseteq pool \cup {t}
    PROVE  OnceInv'
<1>1. SUFFICES ASSUME LedgerFunded'
               PROVE  SpentForGood' /\ Unmined' /\ (work'.stage = "hashing" => BlockIsNew')
  BY DEF OnceInv
<1>2. LedgerFunded
  BY <1>1 DEF LedgerFunded
<1>3. SpentForGood /\ Unmined /\ (work.stage = "hashing" => BlockIsNew)
  BY <1>2 DEF OnceInv
<1>4. SpentForGood'
  BY <1>3 DEF SpentForGood
<1>5. work'.stage = "hashing" => BlockIsNew'
  BY <1>3 DEF BlockIsNew
<1>6. Unmined'
  <2>1. CASE pool' \subseteq pool
    BY <1>3, <2>1 DEF Unmined
  <2>2. ASSUME NEW t \in Tx, InputsValid(t), pool' \subseteq pool \cup {t}
        PROVE  Unmined'
    <3>1. t \notin ToSet(ledger)
      BY <1>2, <1>3, <2>2, ValidIsNew
    <3> QED
      BY <1>3, <2>2, <3>1 DEF Unmined
  <2> QED
    BY <2>1, <2>2
<1> QED
  BY <1>4, <1>5, <1>6

\* The block of a peer spends its coins and brings new ones.
LEMMA PeerBlockOnce ==
    ASSUME OnceInv, ledger \in Seq(Tx), pool \subseteq Tx, WorkTypes, NEW t \in Tx, PeerBlock(t)
    PROVE  OnceInv'
<1> DEFINE n == Len(ledger)
<1>1. /\ ledger' = Append(ledger, t) /\ coins' = (coins \ CoinsOf(t)) \cup Outputs[t]
      /\ pool' = pool \ {t} /\ CoinsOf(t) \subseteq coins
      /\ work' = IF work = NoWork THEN work ELSE [work EXCEPT !.stage = "stale"]
  BY DEF PeerBlock, Unconfirmed
<1>2. SUFFICES ASSUME LedgerFunded'
               PROVE  SpentForGood' /\ Unmined' /\ work'.stage # "hashing"
  BY DEF OnceInv
<1>3. /\ n \in Nat /\ Len(ledger') = n + 1 /\ ledger' \in Seq(Tx) /\ ledger'[n + 1] = t
      /\ \A i \in 1..n : ledger'[i] = ledger[i]
  BY <1>1
<1>4. LedgerFunded
  BY <1>2, <1>3, FundedBefore
<1>5. SpentForGood /\ Unmined
  BY <1>4 DEF OnceInv
<1>6. t \notin ToSet(ledger)
  <2>1. SUFFICES ASSUME NEW i \in 1..n, ledger[i] = t PROVE FALSE
    BY OnLedger
  <2>2. CoinsOf(t) \cap coins = {}
    BY <1>5, <2>1 DEF SpentForGood
  <2> QED
    BY <1>1, <2>2, TxFields
<1>7. \A i \in 1..(n + 1) : i = n + 1 \/ i \in 1..n
  BY <1>3
<1>8. SpentForGood'
  <2>1. ASSUME NEW i \in 1..n
        PROVE  CoinsOf(ledger[i]) \cap coins' = {}
    <3>1. CoinsOf(ledger[i]) \cap coins = {}
      BY <1>5 DEF SpentForGood
    <3>2. CoinsOf(ledger[i]) \cap Outputs[t] = {}
      BY <1>4, <1>6, NewCoinsUnspent
    <3> QED
      BY <1>1, <3>1, <3>2
  <2>2. CoinsOf(t) \cap Outputs[t] = {}
    <3>1. SUFFICES ASSUME NEW c \in CoinsOf(t), c \in Outputs[t] PROVE FALSE
      OBVIOUS
    <3>2. c \notin Genesis
      BY <3>1, CoinsHaveOneOrigin
    <3>3. c \in CoinsOf(ledger'[n + 1]) /\ n + 1 \in 1..Len(ledger')
      BY <1>3
    <3>4. PICK j \in 1..n : c \in Outputs[ledger'[j]]
      <4>1. \E j \in 1..((n + 1) - 1) : c \in Outputs[ledger'[j]]
        BY <1>2, <3>2, <3>3 DEF LedgerFunded, CoinsOf
      <4> QED
        BY <1>3, <4>1
    <3>5. ledger[j] \in Tx /\ c \in Outputs[ledger[j]]
      BY <1>3, <3>4
    <3>6. ledger[j] = t
      BY <3>1, <3>5, CoinsHaveOneOrigin
    <3> QED
      BY <1>6, <3>6, OnLedger
  <2>3. CoinsOf(t) \cap coins' = {}
    BY <1>1, <2>2
  <2>4. \A i \in 1..(n + 1) : CoinsOf(ledger'[i]) \cap coins' = {}
    BY <1>3, <1>7, <2>1, <2>3
  <2> QED
    BY <1>3, <2>4 DEF SpentForGood, CoinsOf
<1>9. Unmined'
  <2>1. ToSet(ledger') = ToSet(ledger) \cup {t}
    <3>1. \A x : x \in ToSet(ledger') <=> \E i \in 1..(n + 1) : ledger'[i] = x
      BY <1>3 DEF ToSet
    <3>2. \A x : x \in ToSet(ledger) <=> \E i \in 1..n : ledger[i] = x
      BY OnLedger
    <3>3. n + 1 \in 1..(n + 1) /\ \A i \in 1..n : i \in 1..(n + 1)
      BY <1>3
    <3> QED
      BY <1>3, <1>7, <3>1, <3>2, <3>3
  <2>2. pool' \cap (ToSet(ledger) \cup {t}) = {}
    BY <1>1, <1>5 DEF Unmined
  <2>3. (ToSet(ledger))' = ToSet(ledger')
    BY DEF ToSet
  <2> QED
    BY <2>1, <2>2, <2>3 DEF Unmined
<1>10. work'.stage # "hashing"
  BY <1>1 DEF WorkTypes, NoWork
<1> QED
  BY <1>8, <1>9, <1>10

\* What is selected is new, and its transactions share no coin.
LEMMA StartMiningOnce ==
    ASSUME OnceInv, PoolTyped, Apart, StartMining
    PROVE  OnceInv'
<1> DEFINE txs == Selection.txs
<1>1. work' = [stage |-> "hashing", txs |-> txs] /\ UNCHANGED <<pool, coins, ledger>>
  BY DEF StartMining
<1>2. Selection \in Chosen
  BY SelectionIsChosen DEF PoolTyped, PoolTypes, NonceTypes
<1>3. pool \subseteq Tx
  BY DEF PoolTyped, PoolTypes
<1>4. txs \in Seq(pool)
  BY <1>2 DEF Chosen, ChosenRecord
<1>5. /\ \A k \in 1..Len(txs) : InputsValid(txs[k])
      /\ \A j, k \in 1..Len(txs) : j # k => txs[j] # txs[k]
  BY <1>2 DEF Chosen, ChosenValid
<1>6. work'.txs = txs
  BY <1>1
<1> HIDE DEF txs
<1>7. SUFFICES ASSUME LedgerFunded'
               PROVE  SpentForGood' /\ Unmined' /\ BlockIsNew'
  BY DEF OnceInv
<1>8. LedgerFunded
  BY <1>1, <1>7 DEF LedgerFunded
<1>9. SpentForGood /\ Unmined
  BY <1>8 DEF OnceInv
<1>10. \A k \in 1..Len(txs) : txs[k] \in pool
  BY <1>4
<1>11. \A k \in 1..Len(txs) : txs[k] \notin ToSet(ledger)
  BY <1>9, <1>10 DEF Unmined
<1>12. \A j, k \in 1..Len(txs) : j # k => CoinsOf(txs[j]) \cap CoinsOf(txs[k]) = {}
  BY <1>5, <1>10 DEF Apart
<1>13. ASSUME NEW k \in 1..Len(txs), NEW c \in CoinsOf(txs[k])
       PROVE  c \in coins \/ \E u \in Tx \ ToSet(ledger) : c \in Outputs[u]
  <2>1. c \in coins \/ \E u \in pool : c \in Outputs[u]
    BY <1>5 DEF InputsValid, PendingOutput
  <2> QED
    BY <1>3, <1>9, <2>1 DEF Unmined
<1>14. BlockIsNew'
  <2> DEFINE Known == ToSet(ledger)
  <2>1. ToSet(ledger') = Known
    BY <1>1
  <2>2. (ToSet(ledger))' = Known
    BY <1>1 DEF ToSet
  <2>3. \A k \in 1..Len(txs) : \A c \in CoinsOf(txs[k]) :
            c \in coins' \/ \E u \in Tx \ Known : c \in Outputs[u]
    BY <1>1, <1>13
  <2>4. \A k \in 1..Len(txs) : txs[k] \notin Known
    BY <1>11
  <2> HIDE DEF Known
  <2> QED
    BY <1>6, <1>12, <2>2, <2>3, <2>4 DEF BlockIsNew
<1>15. SpentForGood' /\ Unmined'
  BY <1>1, <1>9 DEF SpentForGood, Unmined, ToSet
<1> QED
  BY <1>14, <1>15

\* When all coins of a transaction are there, all are marked as spent.
LEMMA AllMarked ==
    ASSUME NEW t \in Tx, NEW from, CoinsOf(t) \subseteq from
    PROVE  Marked(t, from) = CoinsOf(t)
<1>1. Inputs[t] \in Seq(Coin)
  BY PoolConstantsAreTyped
<1>2. \A i \in DOMAIN Inputs[t] : \A j \in 1..i : Inputs[t][j] \in from
  <2>1. \A i \in DOMAIN Inputs[t] : \A j \in 1..i : j \in DOMAIN Inputs[t]
    BY <1>1
  <2> QED
    BY <2>1 DEF CoinsOf
<1> QED
  BY <1>2 DEF Marked, CoinsOf

\* A block whose transactions share no coin, with all of their coins there or
\* created in it, leaves none of these coins.
LEMMA BlockSpendsItsCoins ==
    ASSUME NEW txs \in Seq(Tx), coins \subseteq Coin,
           \A j, k \in 1..Len(txs) : j # k => CoinsOf(txs[j]) \cap CoinsOf(txs[k]) = {},
           \A k \in 1..Len(txs) :
              CoinsOf(txs[k]) \subseteq coins \cup UNION {Outputs[t] : t \in ToSet(txs)}
    PROVE  /\ CoinsAfter(txs) \subseteq coins \cup UNION {Outputs[t] : t \in ToSet(txs)}
           /\ \A k \in 1..Len(txs) : CoinsOf(txs[k]) \cap CoinsAfter(txs) = {}
<1> DEFINE N == Len(txs)
           start == coins \cup UNION {Outputs[t] : t \in ToSet(txs)}
<1>1. PICK left \in [0..N -> SUBSET Coin] :
          /\ left[0] = start
          /\ \A n \in 1..N : left[n] = left[n - 1] \ Marked(txs[n], left[n - 1])
          /\ CoinsAfter(txs) = left[N]
  BY CoinsAfterUnfolds
<1>2. N \in Nat /\ \A k \in 1..N : txs[k] \in Tx /\ CoinsOf(txs[k]) \subseteq start
  OBVIOUS
<1>3. \A j, k \in 1..N : j # k => CoinsOf(txs[j]) \cap CoinsOf(txs[k]) = {}
  OBVIOUS
<1> HIDE DEF N, start
<1> DEFINE H == {n \in 0..N : /\ left[n] \subseteq start
                              /\ \A k \in 1..n : CoinsOf(txs[k]) \cap left[n] = {}
                              /\ \A k \in 1..N : k > n => CoinsOf(txs[k]) \subseteq left[n]}
<1>4. ASSUME NEW n \in 1..N, n - 1 \in H
      PROVE  n \in H
  <2>1. /\ left[n - 1] \subseteq start
        /\ \A k \in 1..(n - 1) : CoinsOf(txs[k]) \cap left[n - 1] = {}
        /\ \A k \in 1..N : k > n - 1 => CoinsOf(txs[k]) \subseteq left[n - 1]
    BY <1>4
  <2>2. txs[n] \in Tx /\ CoinsOf(txs[n]) \subseteq left[n - 1]
    BY <1>2, <2>1
  <2>3. left[n] = left[n - 1] \ CoinsOf(txs[n])
    BY <1>1, <2>2, AllMarked
  <2>4. \A k \in 1..n : k = n \/ k \in 1..(n - 1)
    BY <1>2
  <2>5. \A k \in 1..n : CoinsOf(txs[k]) \cap left[n] = {}
    BY <2>1, <2>3, <2>4
  <2>6. ASSUME NEW k \in 1..N, k > n
        PROVE  CoinsOf(txs[k]) \subseteq left[n]
    <3>1. CoinsOf(txs[k]) \subseteq left[n - 1]
      BY <1>2, <2>1, <2>6
    <3>2. CoinsOf(txs[k]) \cap CoinsOf(txs[n]) = {}
      <4>1. k # n
        BY <1>2, <2>6
      <4> QED
        BY <1>3, <4>1
    <3> QED
      BY <2>3, <3>1, <3>2
  <2>7. n \in 0..N /\ left[n] \subseteq start
    BY <1>2, <2>1, <2>3
  <2> QED
    BY <2>5, <2>6, <2>7
<1>5. H = 0..N
  <2>1. H \in SUBSET (0..N) /\ 0 \in H
    BY <1>1, <1>2
  <2> HIDE DEF H
  <2> QED BY <1>2, <1>4, <2>1, Upwards
<1>6. N \in H
  <2> HIDE DEF H
  <2> QED BY <1>2, <1>5
<1>7. left[N] \subseteq start /\ \A k \in 1..N : CoinsOf(txs[k]) \cap left[N] = {}
  BY <1>6
<1> QED
  BY <1>1, <1>7 DEF N, start

\* A block that is found spends what it selected, and nothing pending remains.
LEMMA AppendMinedOnce ==
    ASSUME OnceInv, PoolTyped, AppendMined, work.stage = "hashing"
    PROVE  OnceInv'
<1> DEFINE txs == work.txs
           n == Len(ledger)
           m == Len(txs)
<1>1. coins' = CoinsAfter(txs) /\ ledger' = ledger \o txs /\ pool' = {} /\ work' = NoWork
  BY DEF AppendMined
<1>2. txs \in Seq(Tx) /\ ledger \in Seq(Tx) /\ coins \subseteq Coin
  BY DEF PoolTyped, WorkTypes
<1>3. /\ n \in Nat /\ m \in Nat /\ Len(ledger') = n + m /\ ledger' \in Seq(Tx)
      /\ \A i \in 1..n : ledger'[i] = ledger[i]
      /\ \A k \in 1..m : ledger'[n + k] = txs[k]
  BY <1>1, <1>2
<1>4. SUFFICES ASSUME LedgerFunded' PROVE SpentForGood'
  <2>1. Unmined' /\ work'.stage # "hashing"
    BY <1>1 DEF Unmined, NoWork
  <2> QED
    BY <2>1 DEF OnceInv
<1>5. LedgerFunded
  BY <1>2, <1>3, <1>4, FundedBefore
<1>6. SpentForGood /\ BlockIsNew
  BY <1>5 DEF OnceInv
<1>7. \A k \in 1..m : txs[k] \in Tx /\ txs[k] \in ToSet(txs) /\ txs[k] \notin ToSet(ledger)
  BY <1>2, <1>6 DEF BlockIsNew, ToSet
<1>8. ASSUME NEW k \in 1..m, NEW c \in CoinsOf(txs[k])
      PROVE  c \in coins \cup UNION {Outputs[t] : t \in ToSet(txs)}
  <2>1. c \in coins \/ \E u \in Tx \ ToSet(ledger) : c \in Outputs[u]
    BY <1>6 DEF BlockIsNew
  <2>2. ASSUME NEW u \in Tx \ ToSet(ledger), c \in Outputs[u]
        PROVE  u \in ToSet(txs)
    <3>1. c \notin Genesis
      BY <2>2, CoinsHaveOneOrigin
    <3>2. n + k \in 1..Len(ledger') /\ c \in CoinsOf(ledger'[n + k])
      BY <1>3
    <3>3. PICK j \in 1..((n + k) - 1) : c \in Outputs[ledger'[j]]
      <4> DEFINE i == n + k
      <4> HIDE DEF i, txs, n, m
      <4>1. i \in 1..Len(ledger') /\ c \in CoinsOf(ledger'[i])
        BY <3>2 DEF i
      <4>2. c \in Genesis \/ \E j \in 1..(i - 1) : c \in Outputs[ledger'[j]]
        BY <1>4, <4>1 DEF LedgerFunded
      <4> QED
        BY <3>1, <4>2 DEF i
    <3>4. j \in 1..Len(ledger') /\ ledger'[j] \in Tx
      BY <1>3
    <3>5. ledger'[j] = u
      BY <2>2, <3>3, <3>4, CoinsHaveOneOrigin
    <3>6. CASE j \in 1..n
      <4>1. ledger[j] = u
        BY <1>3, <3>5, <3>6
      <4> QED
        BY <1>2, <2>2, <3>6, <4>1, OnLedger
    <3>7. CASE j \notin 1..n
      <4>1. j - n \in 1..m /\ n + (j - n) = j
        BY <1>3, <3>4, <3>7
      <4>2. ledger'[j] = txs[j - n]
        BY <1>3, <4>1
      <4> QED
        BY <1>7, <3>5, <4>1, <4>2
    <3> QED
      BY <3>6, <3>7
  <2> QED
    BY <2>1, <2>2
<1>9. /\ coins' \subseteq coins \cup UNION {Outputs[t] : t \in ToSet(txs)}
      /\ \A k \in 1..m : CoinsOf(txs[k]) \cap coins' = {}
  <2>1. \A j, k \in 1..m : j # k => CoinsOf(txs[j]) \cap CoinsOf(txs[k]) = {}
    BY <1>6 DEF BlockIsNew
  <2>2. \A k \in 1..m : CoinsOf(txs[k]) \subseteq coins \cup UNION {Outputs[t] : t \in ToSet(txs)}
    BY <1>8
  <2> HIDE DEF txs
  <2> QED
    BY <1>1, <1>2, <2>1, <2>2, BlockSpendsItsCoins
<1>10. ASSUME NEW i \in 1..n
       PROVE  CoinsOf(ledger[i]) \cap coins' = {}
  <2>1. CoinsOf(ledger[i]) \cap coins = {}
    BY <1>6 DEF SpentForGood
  <2>2. ASSUME NEW t \in ToSet(txs)
        PROVE  CoinsOf(ledger[i]) \cap Outputs[t] = {}
    <3>1. t \in Tx /\ t \notin ToSet(ledger)
      BY <1>2, <1>7 DEF ToSet
    <3> QED
      BY <1>2, <1>5, <3>1, NewCoinsUnspent
  <2> QED
    BY <1>9, <2>1, <2>2
<1>11. ASSUME NEW i \in 1..(n + m)
       PROVE  CoinsOf(ledger'[i]) \cap coins' = {}
  <2>1. CASE i \in 1..n
    BY <1>3, <1>10, <2>1
  <2>2. CASE i \notin 1..n
    <3>1. i - n \in 1..m /\ n + (i - n) = i
      BY <1>3, <2>2
    <3> QED
      BY <1>3, <1>9, <3>1
  <2> QED
    BY <2>1, <2>2
<1> QED
  BY <1>3, <1>11 DEF SpentForGood, CoinsOf

LEMMA NextOnce ==
    ASSUME Serial, ReplacementsStayApart, PoolInv, PoolTyped, OnceInv, [Next]_vars
    PROVE  OnceInv'
<1>0. ledger \in Seq(Tx) /\ pool \subseteq Tx /\ WorkTypes
  BY DEF PoolTyped, PoolTypes
<1>1. ASSUME NEW th \in Thread, AddTransaction(th)
      PROVE  OnceInv'
  <2>1. UNCHANGED <<ledger, coins, work>>
    BY <1>1 DEF AddTransaction, ReadPool, WritePool, WriteIndexes, Decide
  <2>2. pool' \subseteq pool \/ \E t \in Tx : InputsValid(t) /\ pool' \subseteq pool \cup {t}
    <3>1. CASE (\E t \in Tx : ReadPool(th, t)) \/ WriteIndexes(th)
      BY <3>1 DEF ReadPool, WriteIndexes
    <3>2. CASE WritePool(th)
      <4>1. request[th].stage = "read" /\ pool' = request[th].kept /\ Staged(request[th])
        BY <3>2 DEF WritePool, Stage, PoolInv
      <4> QED
        BY <4>1 DEF Staged
    <3>3. CASE Decide(th)
      <4> DEFINE t == request[th].tx
      <4>1. t \in Tx
        BY <3>3 DEF Decide, PoolTyped, RequestTypes
      <4>2. TurnAway(t) \/ PutAside(t) \/ RejectInvalid(t) \/ RejectReplacement(t)
            \/ TurnDown(t) \/ Admit(t)
        BY <3>3 DEF Decide
      <4> HIDE DEF t
      <4>3. CASE Admit(t)
        <5>1. InputsValid(t) /\ pool' \subseteq pool \cup {t}
          BY <4>3 DEF Admit, Admissible, Valid
        <5> QED
          BY <4>1, <5>1
      <4>4. CASE TurnAway(t) \/ PutAside(t) \/ RejectInvalid(t) \/ RejectReplacement(t) \/ TurnDown(t)
        BY <4>4 DEF TurnAway, PutAside, RejectInvalid, RejectReplacement, TurnDown, Rest
      <4> QED
        BY <4>2, <4>3, <4>4
    <3> QED
      BY <1>1, <3>1, <3>2, <3>3 DEF AddTransaction
  <2> QED
    BY <1>0, <2>1, <2>2, QuietStep
<1>2. ASSUME NEW t \in Tx, Promote(t)
      PROVE  OnceInv'
  <2>1. UNCHANGED <<ledger, coins, work>>
    BY <1>2 DEF Promote
  <2>2. pool' \subseteq pool \/ (InputsValid(t) /\ pool' \subseteq pool \cup {t})
    BY <1>2 DEF Promote, Valid
  <2> QED
    BY <1>0, <2>1, <2>2, QuietStep
<1>3. ASSUME NEW t \in Tx, Evict(t) \/ Age(t)
      PROVE  OnceInv'
  <2>1. UNCHANGED <<ledger, coins, work>> /\ pool' \subseteq pool
    BY <1>3 DEF Evict, Age
  <2> QED
    BY <1>0, <2>1, QuietStep
<1>4. ASSUME NEW t \in Tx, PeerBlock(t)
      PROVE  OnceInv'
  BY <1>0, <1>4, PeerBlockOnce
<1>5. ASSUME NEW s \in Sender, Forgive(s)
      PROVE  OnceInv'
  <2>1. UNCHANGED <<ledger, coins, work>> /\ pool' \subseteq pool
    BY <1>5 DEF Forgive
  <2> QED
    BY <1>0, <2>1, QuietStep
<1>6. ASSUME AbortMining \/ MiningFails
      PROVE  OnceInv'
  <2>1. /\ UNCHANGED <<ledger, coins>> /\ pool' \subseteq pool
        /\ work' = NoWork
    BY <1>6 DEF AbortMining, MiningFails
  <2>2. work'.stage # "hashing"
    BY <2>1 DEF NoWork
  <2> QED
    BY <1>0, <2>1, <2>2, QuietStep
<1>7. CASE StartMining
  BY <1>7, StartMiningOnce DEF PoolInv
<1>8. CASE FinishMining \/ StateUnsaved
  <2>1. AppendMined /\ work.stage = "hashing"
    BY <1>8 DEF FinishMining, StateUnsaved, AppendMined, Found
  <2> QED
    BY <2>1, AppendMinedOnce
<1>9. CASE UNCHANGED vars
  <2>1. UNCHANGED <<ledger, coins, work, pool>>
    BY <1>9 DEF vars
  <2> QED
    BY <1>0, <2>1, QuietStep
<1> QED
  BY <1>1, <1>2, <1>3, <1>4, <1>5, <1>6, <1>7, <1>8, <1>9 DEF Next, Mine

\* No transaction is pending and on the chain at once, for every set of
\* transactions and coins, when operations that take no common lock do not
\* overlap: what admission, _process_orphan_transactions and mining add is
\* valid, and a coin that the chain has spent never becomes valid again.
THEOREM NothingIsPendingTwice ==
    ASSUME Serial
    PROVE  Spec => []NothingPendingTwice
<1>1. CASE ReplacementsStayApart
  <2>1. PoolInv /\ PoolTyped /\ OnceInv /\ [Next]_vars => PoolInv' /\ PoolTyped' /\ OnceInv'
    BY <1>1, NextPoolInv, NextPoolTyped, NextOnce
  <2>2. OnceInv => NothingPendingTwice
    BY DEF OnceInv, Unmined, NothingPendingTwice
  <2> QED
    BY <2>1, <2>2, InitPoolInv, InitPoolTyped, InitOnce, PTL DEF Spec
<1>2. CASE ~ReplacementsStayApart
  <2>1. NothingPendingTwice
    BY <1>2 DEF NothingPendingTwice
  <2> QED
    BY <2>1, PTL
<1> QED
  BY <1>1, <1>2

-----------------------------------------------------------------------------
(* Ready nonces are mined.                                                 *)

\* A part of an order: each transaction once, and after all that have to come
\* before it.
InOrder(d, before) ==
    /\ \A i, j \in 1..Len(d) : i # j => d[i] # d[j]
    /\ \A i \in 1..Len(d) : \A t \in pool :
           <<t, d[i]>> \in before => \E j \in 1..(i - 1) : d[j] = t

LEMMA DistinctCounted ==
    ASSUME IsFiniteSet(pool), NEW d \in Seq(pool),
           \A i, j \in 1..Len(d) : i # j => d[i] # d[j]
    PROVE  ToSet(d) \in SUBSET pool /\ Cardinality(ToSet(d)) = Len(d)
<1>1. Len(d) \in Nat /\ DOMAIN d = 1..Len(d) /\ d \in [1..Len(d) -> pool]
  OBVIOUS
<1>2. ToSet(d) = {d[i] : i \in 1..Len(d)}
  BY <1>1 DEF ToSet
<1>3. d \in Bijection(1..Len(d), ToSet(d))
  BY <1>1, <1>2 DEF Bijection, Injection, IsInjective, Surjection
<1>4. IsFiniteSet(1..Len(d)) /\ Cardinality(1..Len(d)) = Len(d)
  BY <1>1, FS_Interval
<1>5. Cardinality(ToSet(d)) = Cardinality(1..Len(d))
  BY <1>3, <1>4, FS_Bijection DEF ExistsBijection
<1> QED
  BY <1>1, <1>2, <1>4, <1>5

\* One more turn of Kahn's algorithm, when there is no circle.
LEMMA PlacedInOrder ==
    ASSUME pool \subseteq Tx, IsFiniteSet(pool), NEW before,
           \A txs \in SUBSET pool : txs # {} => \E t \in txs : \A u \in txs : <<u, t>> \notin before,
           NEW d \in Seq(pool), Len(d) < Cardinality(pool), InOrder(d, before)
    PROVE  /\ Len(Placed(d, before)) = Len(d) + 1
           /\ InOrder(Placed(d, before), before)
<1> DEFINE n == Len(d)
           best == BestOf(Free(d, before))
           more == Append(d, best)
<1>1. n \in Nat /\ Cardinality(pool) \in Nat
  BY FS_CardinalityType
<1>2. Open(d) # {}
  <2>1. ToSet(d) \in SUBSET pool /\ Cardinality(ToSet(d)) = n
    BY DistinctCounted DEF InOrder
  <2>2. ToSet(d) # pool
    BY <1>1, <2>1
  <2> QED
    BY <2>1, <2>2 DEF Open
<1>3. Free(d, before) # {}
  <2>1. Open(d) \in SUBSET pool
    BY DEF Open
  <2> QED
    BY <1>2, <2>1 DEF Free
<1>4. best \in Free(d, before)
  <2>1. Free(d, before) \in SUBSET pool
    BY DEF Free, Open
  <2> QED
    BY <1>3, <2>1, BestIsOne
<1>5. Placed(d, before) = more
  BY <1>3 DEF Placed
<1> HIDE DEF best
<1>6. /\ best \in pool /\ best \notin ToSet(d)
      /\ \A t \in pool : <<t, best>> \in before => t \in ToSet(d)
  BY <1>4 DEF Free, Open
<1>7. \A t : t \in ToSet(d) <=> \E i \in 1..n : d[i] = t
  BY DEF ToSet
<1>8. /\ Len(more) = n + 1 /\ more[n + 1] = best
      /\ \A i \in 1..n : more[i] = d[i]
  BY <1>6
<1>9. \A i \in 1..(n + 1) : i = n + 1 \/ i \in 1..n
  BY <1>1
<1> HIDE DEF more
<1>10. ASSUME NEW i \in 1..(n + 1), NEW j \in 1..(n + 1), i # j
       PROVE  more[i] # more[j]
  <2>1. CASE i \in 1..n /\ j \in 1..n
    BY <1>8, <1>10, <2>1 DEF InOrder
  <2>2. CASE i = n + 1 /\ j \in 1..n
    BY <1>6, <1>7, <1>8, <2>2
  <2>3. CASE j = n + 1 /\ i \in 1..n
    BY <1>6, <1>7, <1>8, <2>3
  <2> QED
    BY <1>9, <1>10, <2>1, <2>2, <2>3
<1>11. ASSUME NEW i \in 1..(n + 1), NEW t \in pool, <<t, more[i]>> \in before
       PROVE  \E j \in 1..(i - 1) : more[j] = t
  <2>1. CASE i \in 1..n
    <3>1. PICK j \in 1..(i - 1) : d[j] = t
      BY <1>8, <1>11, <2>1 DEF InOrder
    <3>2. j \in 1..n
      BY <1>1, <2>1
    <3> QED
      BY <1>8, <3>1, <3>2
  <2>2. CASE i = n + 1
    <3>1. PICK j \in 1..n : d[j] = t
      BY <1>6, <1>7, <1>8, <1>11, <2>2
    <3>2. j \in 1..(i - 1)
      BY <1>1, <2>2
    <3> QED
      BY <1>8, <3>1, <3>2
  <2> QED
    BY <1>9, <2>1, <2>2
<1> QED
  BY <1>5, <1>8, <1>10, <1>11 DEF InOrder

\* Without a circle everything is placed, and in order.
LEMMA SortedInOrder ==
    ASSUME pool \subseteq Tx, IsFiniteSet(pool), NEW before,
           \A txs \in SUBSET pool : txs # {} => \E t \in txs : \A u \in txs : <<u, t>> \notin before
    PROVE  /\ Len(Sorted(before)) = Cardinality(pool)
           /\ ToSet(Sorted(before)) = pool
           /\ InOrder(Sorted(before), before)
<1> DEFINE N == Cardinality(pool)
<1>1. N \in Nat
  BY FS_CardinalityType
<1>2. PICK placed \in [0..N -> Seq(pool)] :
          /\ placed[0] = <<>>
          /\ \A n \in 1..N : placed[n] = Placed(placed[n - 1], before)
          /\ Sorted(before) = placed[N]
  BY SortedUnfolds
<1> DEFINE H == {n \in 0..N : Len(placed[n]) = n /\ InOrder(placed[n], before)}
<1>3. 0 \in H
  <2>1. 0 \in 0..N /\ Len(placed[0]) = 0
    BY <1>1, <1>2
  <2> QED
    BY <2>1 DEF InOrder
<1>4. ASSUME NEW n \in 1..N, n - 1 \in H
      PROVE  n \in H
  <2> DEFINE d == placed[n - 1]
  <2>1. n - 1 \in 0..N /\ n \in 0..N /\ n - 1 < N
    BY <1>1
  <2>2. d \in Seq(pool) /\ Len(d) = n - 1 /\ InOrder(d, before)
    BY <1>4, <2>1
  <2>3. placed[n] = Placed(d, before)
    BY <1>2
  <2> HIDE DEF d, N
  <2>4. Len(d) < Cardinality(pool)
    BY <2>1, <2>2 DEF N
  <2>5. Len(Placed(d, before)) = Len(d) + 1 /\ InOrder(Placed(d, before), before)
    BY <2>2, <2>4, PlacedInOrder
  <2>6. Len(placed[n]) = n
    BY <2>2, <2>3, <2>5
  <2> QED
    BY <2>1, <2>3, <2>5, <2>6
<1>5. N \in H
  <2>1. H \in SUBSET (0..N) /\ N \in 0..N
    BY <1>1
  <2>2. \A n \in 1..N : n - 1 \in H => n \in H
    BY <1>4
  <2>3. H = 0..N
    <3> HIDE DEF H, N
    <3> QED BY <1>1, <1>3, <2>1, <2>2, Upwards
  <2> QED
    BY <2>1, <2>3
<1> DEFINE order == Sorted(before)
<1>6. order \in Seq(pool) /\ Len(order) = N /\ InOrder(order, before)
  <2>1. N \in 0..N
    BY <1>1
  <2> QED
    BY <1>2, <1>5, <2>1
<1> HIDE DEF order
<1>7. ToSet(order) \in SUBSET pool /\ Cardinality(ToSet(order)) = Len(order)
  BY <1>6, DistinctCounted DEF InOrder
<1>8. ToSet(order) = pool
  BY <1>6, <1>7, FS_Subset
<1> QED
  BY <1>6, <1>8 DEF order

\* Of some transactions of a sender one is the last.
LEMMA LastOfSender ==
    ASSUME pool \subseteq Tx, IsFiniteSet(pool), NEW S \in SUBSET pool, S # {}
    PROVE  \E m \in S : \A x \in S : ~Earlier(m, x)
<1> DEFINE nonce == [x \in S |-> Nonce[x]]
<1>1. IsFiniteSet(S) /\ \A x \in S : x \in Tx /\ Nonce[x] \in Nat /\ FeeRate[x] \in Nat
  BY FS_Subset, PoolConstantsAreTyped
<1>2. PICK h \in S : \A x \in S : Nonce[x] <= Nonce[h]
  <2>1. nonce \in [S -> Int] /\ \A x \in S : nonce[x] = Nonce[x]
    BY <1>1
  <2> HIDE DEF nonce
  <2>2. PICK h \in S : \A x \in S : nonce[x] <= nonce[h]
    BY <1>1, <2>1, FiniteHasBest
  <2> QED
    BY <2>1, <2>2
<1> DEFINE T == {x \in S : Nonce[x] = Nonce[h]}
           cheap == [x \in T |-> 0 - FeeRate[x]]
<1>3. IsFiniteSet(T) /\ T # {} /\ \A x \in T : x \in S
  <2>1. T \in SUBSET S /\ h \in T
    OBVIOUS
  <2> HIDE DEF T
  <2> QED
    BY <1>1, <2>1, FS_Subset
<1>4. \A x \in S : Nonce[x] = Nonce[h] <=> x \in T
  OBVIOUS
<1> HIDE DEF T
<1>5. PICK m \in T : \A x \in T : FeeRate[m] <= FeeRate[x]
  <2>1. cheap \in [T -> Int] /\ \A x \in T : cheap[x] = 0 - FeeRate[x]
    BY <1>1, <1>3
  <2> HIDE DEF cheap
  <2>2. PICK m \in T : \A x \in T : cheap[x] <= cheap[m]
    BY <1>3, <2>1, FiniteHasBest
  <2>3. \A x \in T : FeeRate[m] <= FeeRate[x]
    BY <1>1, <1>3, <2>1, <2>2
  <2> QED
    BY <2>3
<1>6. m \in S /\ Nonce[m] = Nonce[h]
  BY <1>3, <1>4
<1>7. ASSUME NEW x \in S, Earlier(m, x)
      PROVE  FALSE
  <2>1. Nonce[x] <= Nonce[h] /\ Nonce[x] \in Nat /\ Nonce[h] \in Nat
    BY <1>1, <1>2
  <2>2. Nonce[m] = Nonce[x] /\ FeeRate[m] > FeeRate[x]
    BY <1>6, <1>7, <2>1 DEF Earlier
  <2>3. x \in T
    BY <1>4, <1>6, <2>2
  <2> QED
    BY <1>1, <1>5, <1>6, <2>2, <2>3
<1> QED
  BY <1>6, <1>7

LEMMA EarlierIsOrder ==
    ASSUME NEW t \in Tx, NEW v \in Tx, NEW u \in Tx
    PROVE  ~Earlier(t, t) /\ (Earlier(t, v) /\ Earlier(v, u) => Earlier(t, u))
<1>1. /\ Nonce[t] \in Nat /\ Nonce[v] \in Nat /\ Nonce[u] \in Nat
      /\ FeeRate[t] \in Nat /\ FeeRate[v] \in Nat /\ FeeRate[u] \in Nat
  BY PoolConstantsAreTyped
<1> QED
  BY <1>1 DEF Earlier

\* The order of a block has all of the pool, and the transactions of a sender
\* by nonce: each follows the last before it, which is enough.
LEMMA PrioritizedInOrder ==
    ASSUME pool \subseteq Tx, IsFiniteSet(pool), PendingInOrder
    PROVE  /\ \A t \in pool : \E i \in 1..Len(Prioritized) : Prioritized[i] = t
           /\ \A i, j \in 1..Len(Prioritized) :
                  Earlier(Prioritized[j], Prioritized[i]) => j < i
<1> DEFINE before == {p \in pool \X pool : p[1] # p[2] /\ Before(p[1], p[2])}
           order == Prioritized
<1>1. \A txs \in SUBSET pool : txs # {} => \E t \in txs : \A u \in txs : <<u, t>> \notin before
  <2>1. ASSUME NEW txs \in SUBSET pool, txs # {}
        PROVE  \E t \in txs : \A u \in txs : <<u, t>> \notin before
    <3>1. PICK t \in txs : \A u \in txs \ {t} : ~Creates(u, t) /\ ~Earlier(u, t)
      BY <2>1 DEF PendingInOrder
    <3>2. \A u \in txs : u # t => ~Before(u, t)
      BY <3>1 DEF Before
    <3> QED
      BY <3>2
  <2> QED
    BY <2>1
<1>2. \A t, u \in pool : Earlier(t, u) => t # u /\ ~Creates(u, t)
  <2>1. ASSUME NEW t \in pool, NEW u \in pool, Earlier(t, u)
        PROVE  t # u /\ ~Creates(u, t)
    <3>1. t # u
      BY <2>1, EarlierIsOrder
    <3>2. {t, u} \in SUBSET pool /\ {t, u} # {}
      OBVIOUS
    <3>3. PICK x \in {t, u} : \A y \in {t, u} \ {x} : ~Creates(y, x) /\ ~Earlier(y, x)
      BY <3>2 DEF PendingInOrder
    <3>4. x = t
      BY <2>1, <3>1, <3>3
    <3> QED
      BY <3>1, <3>3, <3>4
  <2> QED
    BY <2>1
<1>3. ASSUME NEW t \in pool, NEW u \in pool, Earlier(t, u),
             ~ \E v \in pool : Earlier(t, v) /\ Earlier(v, u)
      PROVE  <<t, u>> \in before
  <2>1. t # u /\ Before(t, u)
    BY <1>2, <1>3 DEF Before
  <2> QED
    BY <2>1
<1>4. order = Sorted(before) /\ ToSet(order) = pool /\ InOrder(order, before)
  <2>1. /\ Len(Sorted(before)) = Cardinality(pool)
        /\ ToSet(Sorted(before)) = pool /\ InOrder(Sorted(before), before)
    <3> HIDE DEF before
    <3> QED BY <1>1, SortedInOrder
  <2> QED
    BY <2>1 DEF Prioritized
<1>5. order \in Seq(pool)
  <2> HIDE DEF before
  <2> QED BY <1>4, SortedIsOfPool
<1> HIDE DEF before, order
<1>6. Len(order) \in Nat /\ \A i \in 1..Len(order) : order[i] \in pool
  BY <1>5
<1>7. ASSUME NEW i \in 1..Len(order), NEW j \in 1..Len(order), Earlier(order[j], order[i]), ~(j < i)
      PROVE  FALSE
  <2> DEFINE w == order[j]
             V == {k \in 1..Len(order) : k < j /\ Earlier(w, order[k])}
  <2>1. w \in pool /\ \A x \in pool : x \in Tx
    BY <1>6
  <2>2. i \in V
    <3>1. i # j
      BY <1>6, <1>7, EarlierIsOrder
    <3> QED
      BY <1>7, <3>1
  <2>3. PICK k \in V : \A m \in V : k <= m
    <3>1. V \in SUBSET Nat /\ V # {}
      BY <2>2
    <3> HIDE DEF V
    <3> QED BY <3>1, LeastNatural
  <2>4. k \in 1..Len(order) /\ k < j /\ Earlier(w, order[k])
    OBVIOUS
  <2> DEFINE v == order[k]
             B == {x \in pool : (x = w \/ Earlier(w, x)) /\ Earlier(x, v)}
  <2>5. v \in pool /\ Earlier(w, v)
    BY <1>6, <2>4
  <2> HIDE DEF V
  <2>6. PICK x \in B : \A y \in B : ~Earlier(x, y)
    <3>1. B \in SUBSET pool /\ w \in B
      BY <2>1, <2>5
    <3> HIDE DEF B
    <3> QED BY <3>1, LastOfSender
  <2>7. x \in pool /\ (x = w \/ Earlier(w, x)) /\ Earlier(x, v)
    OBVIOUS
  <2>8. ASSUME NEW y \in pool, Earlier(x, y), Earlier(y, v)
        PROVE  FALSE
    <3>1. Earlier(w, y)
      BY <2>1, <2>7, <2>8, EarlierIsOrder
    <3>2. y \in B
      BY <2>8, <3>1
    <3> QED
      BY <2>6, <2>8, <3>2
  <2> HIDE DEF B
  <2>9. <<x, order[k]>> \in before
    BY <1>3, <2>5, <2>7, <2>8
  <2>10. PICK m \in 1..(k - 1) : order[m] = x
    BY <1>4, <2>4, <2>7, <2>9 DEF InOrder
  <2>11. m \in 1..Len(order) /\ m < j /\ m < k /\ m # j
    BY <1>6, <2>4
  <2>12. CASE x = w
    BY <1>4, <2>10, <2>11, <2>12 DEF InOrder
  <2>13. CASE Earlier(w, x)
    <3>1. m \in V
      BY <2>10, <2>11, <2>13 DEF V
    <3> QED
      BY <2>3, <2>4, <2>11, <3>1
  <2> QED
    BY <2>7, <2>12, <2>13
<1>8. \A t \in pool : \E i \in 1..Len(order) : order[i] = t
  BY <1>4 DEF ToSet
<1> QED
  BY <1>7, <1>8 DEF order

\* A turn of the selection loop takes the transaction, or leaves what it has.
LEMMA SelectMoves ==
    ASSUME pool \subseteq Tx, NEW acc \in Chosen, NEW t \in pool
    PROVE  \/ /\ Select(acc, t).txs = acc.txs /\ Select(acc, t).next = acc.next
              /\ ~(Len(acc.txs) + 1 < MaxPerBlock /\ Nonce[t] = acc.next[From[t]] /\ InputsValid(t))
           \/ /\ Select(acc, t).txs = Append(acc.txs, t)
              /\ Nonce[t] = acc.next[From[t]]
              /\ Select(acc, t).next = [acc.next EXCEPT ![From[t]] = Nonce[t] + 1]
<1> DEFINE s == From[t]
           tried == [acc EXCEPT !.confirmed[s] = acc.next[s] - 1]
           taken == [tried EXCEPT !.txs = Append(@, t),
                                  !.reserved[s] = Nonce[t],
                                  !.next[s] = Nonce[t] + 1]
           passed == [tried EXCEPT !.reserved[s] = -1]
           full == Len(acc.txs) + 1 >= MaxPerBlock
<1>1. acc \in ChosenRecord
  BY DEF Chosen
<1>2. Len(acc.txs) \in Nat /\ MaxPerBlock \in Nat
  BY <1>1, PoolConstantsAreTyped DEF ChosenRecord
<1>3. full <=> ~(Len(acc.txs) + 1 < MaxPerBlock)
  BY <1>2
<1>4. Select(acc, t) = IF full \/ Nonce[t] # acc.next[s] THEN acc
                       ELSE IF ~InputsValid(t) THEN passed ELSE taken
  BY DEF Select
<1> HIDE DEF full
<1>5. tried \in ChosenRecord /\ tried.txs = acc.txs /\ tried.next = acc.next
  <2> DEFINE c == [acc.confirmed EXCEPT ![s] = acc.next[s] - 1]
  <2>1. s \in Sender /\ acc.next[s] - 1 \in Int
    BY <1>1, PoolConstantsAreTyped DEF ChosenRecord
  <2>2. c \in [Sender -> Int]
    BY <1>1, <2>1 DEF ChosenRecord
  <2>3. tried = [acc EXCEPT !.confirmed = c]
    OBVIOUS
  <2> HIDE DEF c, tried
  <2> QED
    BY <1>1, <2>2, <2>3 DEF ChosenRecord
<1> HIDE DEF tried
<1>6. passed.txs = acc.txs /\ passed.next = acc.next
  <2> DEFINE r == [tried.reserved EXCEPT ![s] = -1]
  <2>1. passed = [tried EXCEPT !.reserved = r]
    OBVIOUS
  <2> HIDE DEF r, passed
  <2> QED
    BY <1>5, <2>1 DEF ChosenRecord
<1>7. taken.txs = Append(acc.txs, t) /\ taken.next = [acc.next EXCEPT ![s] = Nonce[t] + 1]
  <2> DEFINE r == [tried.reserved EXCEPT ![s] = Nonce[t]]
             x == [tried.next EXCEPT ![s] = Nonce[t] + 1]
             b == Append(tried.txs, t)
  <2>1. taken = [tried EXCEPT !.txs = b, !.reserved = r, !.next = x]
    OBVIOUS
  <2>2. b = Append(acc.txs, t) /\ x = [acc.next EXCEPT ![s] = Nonce[t] + 1]
    BY <1>5
  <2> HIDE DEF r, x, b, taken
  <2>3. taken.txs = b /\ taken.next = x
    BY <1>5, <2>1 DEF ChosenRecord
  <2> QED
    BY <2>2, <2>3
<1> HIDE DEF passed, taken
<1>8. CASE full \/ Nonce[t] # acc.next[s] \/ ~InputsValid(t)
  BY <1>3, <1>4, <1>6, <1>8
<1>9. CASE ~full /\ Nonce[t] = acc.next[s] /\ InputsValid(t)
  BY <1>4, <1>7, <1>9
<1> QED
  BY <1>8, <1>9

\* The same for one sender s: whether the next nonce moves, and to what.
LEMMA SelectNext ==
    ASSUME pool \subseteq Tx, NEW acc \in Chosen, NEW t \in pool, NEW s \in Sender
    PROVE  LET new == Select(acc, t)
           IN  /\ acc.next[s] \in Int /\ Len(acc.txs) \in Nat
               /\ Len(acc.txs) <= Len(new.txs)
               /\ ToSet(acc.txs) \subseteq ToSet(new.txs)
               /\ \/ new.next[s] = acc.next[s]
                  \/ /\ new.next[s] = acc.next[s] + 1
                     /\ t \in ToSet(new.txs) /\ NonceOf(t) = <<s, acc.next[s]>>
               /\ Len(acc.txs) + 1 < MaxPerBlock /\ InputsValid(t) /\ NonceOf(t) = <<s, acc.next[s]>>
                  => new.next[s] = acc.next[s] + 1
<1> DEFINE new == Select(acc, t)
<1>1. acc.txs \in Seq(pool) /\ acc.next \in [Sender -> Int]
  BY DEF Chosen, ChosenRecord
<1>2. From[t] \in Sender /\ Nonce[t] \in Nat
  BY PoolConstantsAreTyped
<1>3. NonceOf(t) = <<From[t], Nonce[t]>>
  BY DEF NonceOf
<1>4. acc.next[s] \in Int /\ Len(acc.txs) \in Nat
  BY <1>1
<1>5. CASE /\ new.txs = acc.txs /\ new.next = acc.next
           /\ ~(Len(acc.txs) + 1 < MaxPerBlock /\ Nonce[t] = acc.next[From[t]] /\ InputsValid(t))
  <2> HIDE DEF new
  <2>1. Len(acc.txs) <= Len(new.txs) /\ ToSet(acc.txs) \subseteq ToSet(new.txs)
    BY <1>4, <1>5
  <2>2. ~(Len(acc.txs) + 1 < MaxPerBlock /\ InputsValid(t) /\ NonceOf(t) = <<s, acc.next[s]>>)
    BY <1>3, <1>5
  <2> QED
    BY <1>4, <1>5, <2>1, <2>2 DEF new
<1>6. CASE /\ new.txs = Append(acc.txs, t) /\ Nonce[t] = acc.next[From[t]]
           /\ new.next = [acc.next EXCEPT ![From[t]] = Nonce[t] + 1]
  <2> DEFINE txs == acc.txs
             more == Append(txs, t)
  <2>1. /\ Len(more) = Len(txs) + 1 /\ more[Len(txs) + 1] = t
        /\ \A i \in 1..Len(txs) : more[i] = txs[i]
    BY <1>1
  <2>2. /\ \A x : x \in ToSet(txs) <=> \E i \in 1..Len(txs) : txs[i] = x
        /\ \A x : x \in ToSet(more) <=> \E i \in 1..Len(more) : more[i] = x
    BY <1>1 DEF ToSet
  <2>3. \A i \in 1..Len(txs) : i \in 1..Len(more)
    BY <1>4, <2>1
  <2>4. Len(more) \in 1..Len(more)
    BY <1>4, <2>1
  <2> HIDE DEF more
  <2>5. ToSet(txs) \subseteq ToSet(more) /\ t \in ToSet(more)
    BY <2>1, <2>2, <2>3, <2>4
  <2>6. CASE From[t] = s
    <3>1. acc.next[s] = Nonce[t] /\ new.next[s] = acc.next[s] + 1 /\ NonceOf(t) = <<s, acc.next[s]>>
      <4> HIDE DEF new
      <4> QED BY <1>1, <1>2, <1>3, <1>6, <2>6
    <3> HIDE DEF new
    <3> QED
      BY <1>4, <1>6, <2>1, <2>5, <3>1 DEF more, new
  <2>7. CASE From[t] # s
    <3>1. new.next[s] = acc.next[s] /\ NonceOf(t) # <<s, acc.next[s]>>
      <4> HIDE DEF new
      <4> QED BY <1>1, <1>2, <1>3, <1>6, <2>7
    <3> HIDE DEF new
    <3> QED
      BY <1>4, <1>6, <2>1, <2>5, <3>1 DEF more, new
  <2> QED
    BY <2>6, <2>7
<1> QED
  BY <1>5, <1>6, SelectMoves

\* The turns of the loop together: nonces only move up, one at a time and with
\* a transaction each.
LEMMA SelectionAdvances ==
    ASSUME pool \subseteq Tx, NEW order \in Seq(pool), NEW s \in Sender,
           NEW chosen \in [0..Len(order) -> Chosen],
           \A n \in 1..Len(order) : chosen[n] = Select(chosen[n - 1], order[n])
    PROVE  \A n \in 0..Len(order) : \A m \in 0..n :
               /\ chosen[m].next[s] <= chosen[n].next[s]
               /\ Len(chosen[m].txs) <= Len(chosen[n].txs)
               /\ \A k \in chosen[m].next[s]..(chosen[n].next[s] - 1) :
                      \E u \in ToSet(chosen[n].txs) : NonceOf(u) = <<s, k>>
<1> DEFINE N == Len(order)
           nx == [n \in 0..N |-> chosen[n].next[s]]
           ln == [n \in 0..N |-> Len(chosen[n].txs)]
           txs(n) == ToSet(chosen[n].txs)
           Moved(m, n) == /\ nx[m] <= nx[n] /\ ln[m] <= ln[n]
                          /\ \A k \in nx[m]..(nx[n] - 1) : \E u \in txs(n) : NonceOf(u) = <<s, k>>
           H == {n \in 0..N : \A m \in 0..n : Moved(m, n)}
<1>1. N \in Nat /\ \A n \in 1..N : order[n] \in pool /\ n - 1 \in 0..N /\ n \in 0..N
  OBVIOUS
<1>2. \A n \in 0..N : nx[n] = chosen[n].next[s] /\ ln[n] = Len(chosen[n].txs)
  OBVIOUS
<1>3. \A n \in 0..N : nx[n] \in Int /\ ln[n] \in Nat
  <2>1. \A n \in 0..N : chosen[n] \in Chosen
    OBVIOUS
  <2>2. \A acc \in Chosen : acc.next[s] \in Int /\ Len(acc.txs) \in Nat
    BY DEF Chosen, ChosenRecord
  <2> HIDE DEF nx, ln
  <2> QED
    BY <1>2, <2>1, <2>2
<1>4. ASSUME NEW n \in 1..N
      PROVE  /\ ln[n - 1] <= ln[n] /\ txs(n - 1) \subseteq txs(n)
             /\ \/ nx[n] = nx[n - 1]
                \/ /\ nx[n] = nx[n - 1] + 1
                   /\ \E u \in txs(n) : NonceOf(u) = <<s, nx[n - 1]>>
  <2>1. chosen[n - 1] \in Chosen /\ order[n] \in pool /\ chosen[n] = Select(chosen[n - 1], order[n])
    BY <1>1
  <2> DEFINE acc == chosen[n - 1]
             new == chosen[n]
             t == order[n]
  <2>2. /\ Len(acc.txs) <= Len(new.txs)
        /\ ToSet(acc.txs) \subseteq ToSet(new.txs)
        /\ \/ new.next[s] = acc.next[s]
           \/ /\ new.next[s] = acc.next[s] + 1
              /\ t \in ToSet(new.txs) /\ NonceOf(t) = <<s, acc.next[s]>>
    BY <2>1, SelectNext
  <2>3. nx[n] = new.next[s] /\ nx[n - 1] = acc.next[s] /\ ln[n] = Len(new.txs) /\ ln[n - 1] = Len(acc.txs)
    BY <1>1
  <2> HIDE DEF nx, ln, acc, new, t
  <2> QED
    BY <2>2, <2>3 DEF acc, new
<1> HIDE DEF nx, ln, N, txs
<1>5. 0 \in H
  <2>1. 0 \in 0..N /\ \A m \in 0..0 : m = 0
    BY <1>1
  <2>2. Moved(0, 0)
    BY <1>3, <2>1
  <2> QED
    BY <2>1, <2>2
<1>6. ASSUME NEW n \in 1..N, n - 1 \in H
      PROVE  n \in H
  <2>1. n - 1 \in 0..N /\ n \in 0..N
    BY <1>1
  <2>2. ASSUME NEW m \in 0..n
        PROVE  Moved(m, n)
    <3>1. m \in 0..N
      BY <1>1
    <3>2. CASE m = n
      BY <1>3, <3>1, <3>2
    <3>3. CASE m # n
      <4>1. m \in 0..(n - 1)
        BY <3>3
      <4>2. Moved(m, n - 1)
        BY <1>6, <4>1
      <4>3. /\ nx[m] \in Int /\ nx[n - 1] \in Int /\ nx[n] \in Int
            /\ ln[m] \in Nat /\ ln[n - 1] \in Nat /\ ln[n] \in Nat
        BY <1>3, <2>1, <3>1
      <4>4. /\ nx[m] <= nx[n - 1] /\ ln[m] <= ln[n - 1] /\ ln[n - 1] <= ln[n]
            /\ nx[n] = nx[n - 1] \/ nx[n] = nx[n - 1] + 1
        BY <1>4, <4>2
      <4>6. nx[m] <= nx[n] /\ ln[m] <= ln[n]
        BY <4>3, <4>4
      <4>5. ASSUME NEW k \in nx[m]..(nx[n] - 1)
            PROVE  \E u \in txs(n) : NonceOf(u) = <<s, k>>
        <5>1. CASE k \in nx[m]..(nx[n - 1] - 1)
          BY <1>4, <4>2, <5>1
        <5>2. CASE k \notin nx[m]..(nx[n - 1] - 1)
          <6>1. nx[n] = nx[n - 1] + 1 /\ k = nx[n - 1]
            BY <4>3, <4>4, <5>2
          <6>2. \E u \in txs(n) : NonceOf(u) = <<s, nx[n - 1]>>
            BY <1>4, <4>3, <6>1
          <6> QED
            BY <6>1, <6>2
        <5> QED
          BY <5>1, <5>2
      <4> QED
        BY <4>5, <4>6
    <3> QED
      BY <3>2, <3>3
  <2> HIDE DEF Moved
  <2> QED
    BY <2>1, <2>2
<1>7. H = 0..N
  <2>1. H \in SUBSET (0..N)
    OBVIOUS
  <2>2. \A n \in 1..N : n - 1 \in H => n \in H
    BY <1>6
  <2> HIDE DEF H
  <2> QED BY <1>1, <1>5, <2>1, <2>2, Upwards
<1>8. \A n \in 0..N : \A m \in 0..n : Moved(m, n) /\ m \in 0..N
  <2> HIDE DEF Moved
  <2>1. \A n \in H : \A m \in 0..n : Moved(m, n)
    OBVIOUS
  <2>2. \A n \in 0..N : \A m \in 0..n : m \in 0..N
    BY <1>1
  <2> HIDE DEF H
  <2> QED
    BY <1>7, <2>1, <2>2
<1>9. ASSUME NEW n \in 0..N, NEW m \in 0..n
      PROVE  /\ chosen[m].next[s] <= chosen[n].next[s]
             /\ Len(chosen[m].txs) <= Len(chosen[n].txs)
             /\ \A k \in chosen[m].next[s]..(chosen[n].next[s] - 1) :
                    \E u \in ToSet(chosen[n].txs) : NonceOf(u) = <<s, k>>
  BY <1>2, <1>8 DEF txs
<1> HIDE DEF Moved, H
<1> QED
  BY <1>9 DEF N

\* When no order goes round in a circle and there is room in the block, the
\* selection has a transaction for each nonce that is ready.
LEMMA ReadyIsSelected ==
    ASSUME pool \subseteq Tx, IsFiniteSet(pool), confirmed \in [Sender -> Int],
           PendingInOrder, Len(Selection.txs) + 1 < MaxPerBlock,
           NEW t \in pool, Ready(t), Nonce[t] > confirmed[From[t]]
    PROVE  \E u \in ToSet(Selection.txs) : NonceOf(u) = NonceOf(t)
<1> DEFINE s == From[t]
           low == confirmed[s] + 1
           order == Prioritized
           N == Len(order)
<1>1. /\ s \in Sender /\ low \in Int /\ Nonce[t] \in Nat /\ low <= Nonce[t]
      /\ MaxPerBlock \in Nat
  <2>1. s \in Sender /\ Nonce[t] \in Nat /\ MaxPerBlock \in Nat
    BY PoolConstantsAreTyped
  <2>2. confirmed[s] \in Int
    BY <2>1
  <2> QED
    BY <2>1, <2>2
<1>2. order \in Seq(pool)
  BY SelectionUnfolds
<1>3. PICK chosen \in [0..N -> Chosen] :
          /\ chosen[0].next = [r \in Sender |-> confirmed[r] + 1]
          /\ \A n \in 1..N : chosen[n] = Select(chosen[n - 1], order[n])
          /\ Selection = chosen[N]
  BY SelectionUnfolds
<1>4. /\ \A u \in pool : \E i \in 1..N : order[i] = u
      /\ \A i, j \in 1..N : Earlier(order[j], order[i]) => j < i
  BY PrioritizedInOrder
<1> HIDE DEF order
<1>5. N \in Nat /\ \A i \in 1..N : order[i] \in pool
  BY <1>2
<1> DEFINE nx == [n \in 0..N |-> chosen[n].next[s]]
           ln == [n \in 0..N |-> Len(chosen[n].txs)]
<1>6. /\ \A n \in 0..N : \A m \in 0..n : nx[m] <= nx[n] /\ ln[m] <= ln[n]
      /\ \A k \in nx[0]..(nx[N] - 1) : \E u \in ToSet(Selection.txs) : NonceOf(u) = <<s, k>>
  <2>1. \A n \in 0..N : \A m \in 0..n :
            /\ chosen[m].next[s] <= chosen[n].next[s]
            /\ Len(chosen[m].txs) <= Len(chosen[n].txs)
            /\ \A k \in chosen[m].next[s]..(chosen[n].next[s] - 1) :
                   \E u \in ToSet(chosen[n].txs) : NonceOf(u) = <<s, k>>
    <3> HIDE DEF s
    <3> QED BY <1>1, <1>2, <1>3, SelectionAdvances
  <2>2. N \in 0..N /\ 0 \in 0..N /\ 0 \in 0..N
    BY <1>5
  <2>3. \A n \in 0..N : nx[n] = chosen[n].next[s] /\ ln[n] = Len(chosen[n].txs)
    OBVIOUS
  <2>4. \A n \in 0..N : \A m \in 0..n : m \in 0..N
    BY <1>5
  <2> HIDE DEF nx, ln, N, s
  <2> QED
    BY <1>3, <2>1, <2>2, <2>3, <2>4
<1>7. /\ nx[0] = low /\ ln[N] + 1 < MaxPerBlock
      /\ \A n \in 0..N : nx[n] \in Int /\ ln[n] \in Nat
  <2>1. \A n \in 0..N : chosen[n] \in Chosen
    OBVIOUS
  <2>2. \A acc \in Chosen : acc.next[s] \in Int /\ Len(acc.txs) \in Nat
    BY <1>1 DEF Chosen, ChosenRecord
  <2>3. nx[0] = chosen[0].next[s] /\ ln[N] = Len(chosen[N].txs)
    BY <1>5
  <2>4. chosen[0].next[s] = confirmed[s] + 1
    BY <1>1, <1>3
  <2>5. \A n \in 0..N : nx[n] = chosen[n].next[s] /\ ln[n] = Len(chosen[n].txs)
    OBVIOUS
  <2> HIDE DEF nx, ln, N
  <2> QED
    BY <1>3, <2>1, <2>2, <2>3, <2>4, <2>5
<1>8. ASSUME NEW i \in 1..N, InputsValid(order[i]), NonceOf(order[i]) = <<s, nx[i - 1]>>
      PROVE  nx[i] = nx[i - 1] + 1
  <2>1. i - 1 \in 0..N /\ i \in 0..N /\ i - 1 \in 0..N /\ N \in 0..N /\ i - 1 \in 0..N
    BY <1>5
  <2>2. ln[i - 1] + 1 < MaxPerBlock
    <3>1. ln[i - 1] <= ln[N]
      BY <1>6, <2>1
    <3> HIDE DEF ln
    <3>2. ln[i - 1] \in Nat /\ ln[N] \in Nat /\ ln[N] + 1 < MaxPerBlock
      BY <1>7, <2>1
    <3> QED
      BY <1>1, <3>1, <3>2
  <2> DEFINE acc == chosen[i - 1]
  <2>3. acc \in Chosen /\ order[i] \in pool /\ chosen[i] = Select(acc, order[i])
    BY <1>3, <1>5, <2>1
  <2>4. nx[i - 1] = acc.next[s] /\ ln[i - 1] = Len(acc.txs) /\ nx[i] = chosen[i].next[s]
    BY <2>1
  <2> HIDE DEF nx, ln, acc, s, N
  <2> QED
    BY <1>1, <1>8, <2>2, <2>3, <2>4, SelectNext
<1> HIDE DEF nx, ln
<1>9. \A k \in low..Nonce[t] : \E i \in 1..N : InputsValid(order[i]) /\ NonceOf(order[i]) = <<s, k>>
  <2>1. ASSUME NEW k \in low..Nonce[t]
        PROVE  \E i \in 1..N : InputsValid(order[i]) /\ NonceOf(order[i]) = <<s, k>>
    <3>1. PICK u \in pool : NonceOf(u) = <<s, k>> /\ age[u] = 0 /\ CoinsOf(u) \subseteq coins
      BY DEF Ready
    <3>2. InputsValid(u)
      BY <3>1 DEF InputsValid
    <3> QED
      BY <1>4, <3>1, <3>2
  <2> QED
    BY <2>1
<1> HIDE DEF low, s
<1> DEFINE Left == {k \in Nat : /\ k \in low..Nonce[t]
                                /\ \E i \in 1..N : /\ InputsValid(order[i])
                                                   /\ NonceOf(order[i]) = <<s, k>>
                                                   /\ nx[i] <= k}
<1>10. Left = {}
  <2> SUFFICES ASSUME Left # {}
               PROVE  FALSE
    OBVIOUS
  <2>1. PICK k \in Left : \A x \in Left : k <= x
    <3>1. Left \in SUBSET Nat
      OBVIOUS
    <3> HIDE DEF Left
    <3> QED BY <3>1, LeastNatural
  <2>2. k \in Nat /\ k \in low..Nonce[t]
    OBVIOUS
  <2>3. PICK i \in 1..N : InputsValid(order[i]) /\ NonceOf(order[i]) = <<s, k>> /\ nx[i] <= k
    OBVIOUS
  <2>4. /\ i \in 0..N /\ i - 1 \in 0..N /\ i - 1 \in 0..i /\ 0 \in 0..(i - 1)
        /\ nx[i] \in Int /\ nx[i - 1] \in Int /\ nx[i - 1] <= nx[i] /\ nx[0] <= nx[i - 1]
    <3>1. i \in 0..N /\ i - 1 \in 0..N /\ i - 1 \in 0..i /\ 0 \in 0..(i - 1)
      BY <1>5
    <3> HIDE DEF N
    <3> QED BY <1>6, <1>7, <3>1
  <2>5. k <= nx[i - 1]
    <3>1. CASE k = low
      BY <1>7, <2>4, <3>1
    <3>2. CASE k # low
      <4>1. k - 1 \in low..Nonce[t]
        <5>1. k \in Int /\ low <= k /\ k <= Nonce[t] /\ low \in Int /\ Nonce[t] \in Int
          BY <1>1, <2>2
        <5> QED
          BY <3>2, <5>1
      <4>2. PICK j \in 1..N : InputsValid(order[j]) /\ NonceOf(order[j]) = <<s, k - 1>>
        BY <1>9, <4>1
      <4>3. j < i
        <5>1. From[order[j]] = From[order[i]] /\ Nonce[order[j]] = k - 1 /\ Nonce[order[i]] = k
          BY <2>3, <4>2 DEF NonceOf
        <5>2. Earlier(order[j], order[i])
          BY <2>2, <5>1 DEF Earlier
        <5> QED
          BY <1>4, <5>2
      <4>4. k - 1 \in Nat
        <5>1. Nonce[order[j]] = k - 1
          BY <4>2 DEF NonceOf
        <5>2. order[j] \in Tx
          BY <1>5
        <5>3. Nonce[order[j]] \in Nat
          BY <5>2, PoolConstantsAreTyped
        <5> QED
          BY <5>1, <5>3
      <4>5. k - 1 \notin Left
        <5> HIDE DEF Left
        <5> QED BY <2>1, <2>2
      <4>6. ~(nx[j] <= k - 1)
        BY <4>1, <4>2, <4>4, <4>5
      <4>7. j \in 0..N /\ j \in 0..(i - 1) /\ nx[j] \in Int /\ nx[j] <= nx[i - 1]
        <5>1. j \in 0..N /\ j \in 0..(i - 1)
          BY <1>5, <4>3
        <5> QED
          BY <1>6, <1>7, <2>4, <5>1
      <4> QED
        BY <2>2, <2>4, <4>6, <4>7
    <3> QED
      BY <3>1, <3>2
  <2>6. nx[i - 1] = k
    <3>1. nx[i] <= k
      BY <2>3
    <3> QED
      BY <2>2, <2>4, <2>5, <3>1
  <2>7. nx[i] = nx[i - 1] + 1
    BY <1>8, <2>3, <2>6
  <2> QED
    BY <2>2, <2>3, <2>6, <2>7
<1>11. Nonce[t] \in low..(nx[N] - 1)
  <2>1. Nonce[t] \in low..Nonce[t]
    BY <1>1
  <2>2. PICK i \in 1..N : InputsValid(order[i]) /\ NonceOf(order[i]) = <<s, Nonce[t]>>
    BY <1>9, <2>1
  <2>3. ~(nx[i] <= Nonce[t])
    BY <1>1, <1>10, <2>1, <2>2
  <2>4. i \in 0..N /\ N \in 0..N
    BY <1>5
  <2>5. nx[i] \in Int /\ nx[N] \in Int /\ nx[i] <= nx[N]
    BY <1>6, <1>7, <2>4
  <2> QED
    BY <1>1, <2>3, <2>5
<1>12. NonceOf(t) = <<s, Nonce[t]>>
  BY DEF NonceOf, s
<1> QED
  BY <1>6, <1>7, <1>11, <1>12

\* A block that is not full leaves out no nonce that is ready, as long as inputs
\* and nonces ask for no order that goes round in a circle: for every pool,
\* every fee and every order in which requests, blocks and mining come, also
\* when they overlap.  This is what _topological_sort_transactions promises the
\* selection loop of mine_pending_transactions.
THEOREM AllReadyNoncesAreMined == Spec => ReadyNoncesAreMined
<1>1. PoolTyped /\ [Next]_vars =>
        [StartMining /\ PendingInOrder /\ Len(work'.txs) + 1 < MaxPerBlock =>
            \A t \in pool :
                (Ready(t) /\ Nonce[t] > confirmed[From[t]]) =>
                    \E u \in ToSet(work'.txs) : NonceOf(u) = NonceOf(t)]_vars
  <2> SUFFICES ASSUME PoolTyped, StartMining, PendingInOrder, Len(work'.txs) + 1 < MaxPerBlock,
                      NEW t \in pool, Ready(t), Nonce[t] > confirmed[From[t]]
               PROVE  \E u \in ToSet(work'.txs) : NonceOf(u) = NonceOf(t)
    OBVIOUS
  <2>1. work'.txs = Selection.txs
    BY DEF StartMining
  <2>2. pool \subseteq Tx /\ IsFiniteSet(pool) /\ confirmed \in [Sender -> Int]
    BY DEF PoolTyped, PoolTypes, NonceTypes
  <2> QED
    BY <2>1, <2>2, ReadyIsSelected
<1> QED
  BY <1>1, InitPoolTyped, NextPoolTyped, PTL DEF Spec, ReadyNoncesAreMined

=============================================================================
