-------------------------- MODULE ForkChoiceProofs --------------------------
(***************************************************************************)
(* Proofs about ForkChoice for every block tree, every set of own and      *)
(* certifiable blocks and every bound on pool, reorganisations and write   *)
(* errors.  A chain the code calls linked is a branch of the tree, so two  *)
(* of them share their blocks up to the fork point and none above; what    *)
(* has to be shown of the code is that each of its paths appends a block   *)
(* only to its parent and replaces the chain only by a linked one, whose   *)
(* guards still hold when it does.                                         *)
(***************************************************************************)
EXTENDS ForkChoice, WellFoundedInduction, NaturalsInduction, TLAPS

-----------------------------------------------------------------------------
(* Natural numbers and sequences                                           *)

\* A set of naturals has a least element.  The inductions below (over heights,
\* over places in a pool) look at the least exception.
LEMMA LeastNatural ==
    ASSUME NEW T \in SUBSET Nat, T # {}
    PROVE  \E x \in T : \A y \in T : x <= y
<1> DEFINE R == OpToRel(<, Nat)
<1>1. IsWellFoundedOn(R, Nat)
  BY NatLessThanWellFounded
<1>2. \A x, y \in Nat : y < x => <<y, x>> \in R
  BY DEF OpToRel
<1>3. PICK x \in T : \A y \in T : ~ (<<y, x>> \in R)
  <2> HIDE DEF R
  <2> QED BY <1>1, WFMin
<1>4. \A y \in T : ~ (y < x)
  <2> HIDE DEF R
  <2> QED BY <1>2, <1>3
<1>5. x \in Nat /\ \A y \in T : y \in Nat
  OBVIOUS
<1>6. \A y \in T : x <= y
  BY <1>4, <1>5
<1> QED
  BY <1>6

\* A set of naturals below a bound has a greatest element.
LEMMA GreatestBelow ==
    ASSUME NEW n \in Nat, NEW T \in SUBSET (0..n), T # {}
    PROVE  \E x \in T : \A y \in T : y <= x
<1> DEFINE D == {n - x : x \in T}
<1>1. D \in SUBSET Nat /\ D # {}
  <2>1. \A x \in T : n - x \in Nat
    OBVIOUS
  <2> QED
    BY <2>1
<1>2. PICK d \in D : \A e \in D : d <= e
  <2> HIDE DEF D
  <2> QED BY <1>1, LeastNatural
<1>3. PICK x \in T : d = n - x
  OBVIOUS
<1>4. \A y \in T : n - x <= n - y
  BY <1>2, <1>3
<1> QED
  BY <1>4

-----------------------------------------------------------------------------
(* Recursive definitions                                                   *)

\* A function that starts with a value and goes on from each value to the next.
Iterates(f, n, base, step) ==
    /\ DOMAIN f = 0..n
    /\ f[0] = base
    /\ \A i \in 1..n : f[i] = step[i][f[i - 1]]
Iterated(S, n, base, step) == \E f \in [0..n -> S] : Iterates(f, n, base, step)

\* There is such a function as far as the steps are defined.
LEMMA IterationExists ==
    ASSUME NEW S, NEW N \in Nat, NEW base \in S,
           NEW step \in [1..N -> [S -> S]]
    PROVE  Iterated(S, N, base, step)
<1> DEFINE T == {n \in 0..N : ~ Iterated(S, n, base, step)}
<1>1. SUFFICES ASSUME T # {} PROVE FALSE
  OBVIOUS
<1>2. PICK n \in T : \A k \in T : n <= k
  <2>1. T \in SUBSET Nat
    OBVIOUS
  <2> HIDE DEF T
  <2> QED BY <1>1, <2>1, LeastNatural
<1>3. n # 0
  <2> DEFINE f == [i \in 0..0 |-> base]
  <2>1. f \in [0..0 -> S] /\ Iterates(f, 0, base, step)
    BY DEF Iterates
  <2> HIDE DEF f
  <2> QED
    BY <2>1, <1>2 DEF Iterated
<1>4. n \in 1..N /\ n - 1 \in 0..N /\ n - 1 \notin T
  BY <1>2, <1>3
<1>5. PICK f \in [0..(n - 1) -> S] : Iterates(f, n - 1, base, step)
  BY <1>4 DEF Iterated
<1>6. n - 1 \in 0..(n - 1) /\ f[n - 1] \in S
  BY <1>4
<1>7. step[n][f[n - 1]] \in S
  BY <1>4, <1>6
<1> DEFINE g == [i \in 0..n |-> IF i = n THEN step[n][f[n - 1]] ELSE f[i]]
<1>8. \A i \in 0..n : i # n => i \in 0..(n - 1)
  BY <1>4
<1>9. g \in [0..n -> S]
  BY <1>7, <1>8
<1>10. g[n] = step[n][f[n - 1]] /\ \A i \in 0..(n - 1) : g[i] = f[i]
  BY <1>4
<1> HIDE DEF g
<1>11. Iterates(g, n, base, step)
  <2>1. g[0] = base
    BY <1>4, <1>5, <1>10 DEF Iterates
  <2>2. ASSUME NEW i \in 1..n
        PROVE  g[i] = step[i][g[i - 1]]
    <3>1. i - 1 \in 0..(n - 1) /\ g[i - 1] = f[i - 1]
      BY <1>4, <1>10
    <3>2. CASE i = n
      BY <3>1, <3>2, <1>10
    <3>3. CASE i # n
      <4>1. i \in 1..(n - 1) /\ i \in 0..(n - 1)
        BY <3>3, <1>4
      <4> QED
        BY <4>1, <3>1, <1>5, <1>10 DEF Iterates
    <3> QED
      BY <3>2, <3>3
  <2> QED
    BY <1>9, <2>1, <2>2 DEF Iterates
<1> QED
  BY <1>2, <1>9, <1>11 DEF Iterated

\* Work and transactions of a chain are natural numbers.
LEMMA TotalTyped ==
    ASSUME NEW measure \in [Known -> Nat], NEW c \in Seq(Known)
    PROVE  Total(measure, c) \in Nat
<1> DEFINE body(s) == [n \in 0..Len(c) |-> IF n = 0 THEN 0 ELSE s[n - 1] + measure[c[n]]]
           sum == CHOOSE s : s = body(s)
           step == [n \in 1..Len(c) |-> [total \in Nat |-> total + measure[c[n]]]]
<1>1. Len(c) \in Nat /\ \A n \in 1..Len(c) : measure[c[n]] \in Nat
  OBVIOUS
<1>2. step \in [1..Len(c) -> [Nat -> Nat]]
  BY <1>1
<1>3. PICK f \in [0..Len(c) -> Nat] : Iterates(f, Len(c), 0, step)
  <2> HIDE DEF step
  <2> QED BY <1>1, <1>2, IterationExists DEF Iterated
<1>4. ASSUME NEW n \in 1..Len(c)
      PROVE  n - 1 \in 0..Len(c) /\ f[n] = f[n - 1] + measure[c[n]]
  <2>1. n - 1 \in 0..Len(c) /\ f[n - 1] \in Nat
    <3> HIDE DEF step
    <3>1. n - 1 \in 0..Len(c)
      BY <1>1
    <3> QED
      BY <3>1, <1>3
  <2>2. step[n] = [total \in Nat |-> total + measure[c[n]]]
    OBVIOUS
  <2> HIDE DEF step
  <2>3. f[n] = step[n][f[n - 1]]
    BY <1>3 DEF Iterates
  <2> QED
    BY <2>1, <2>2, <2>3
<1>5. f = body(f)
  <2>1. DOMAIN f = 0..Len(c) /\ f[0] = 0 /\ \A n \in 1..Len(c) : f[n] = f[n - 1] + measure[c[n]]
    <3> HIDE DEF step
    <3> QED BY <1>3, <1>4 DEF Iterates
  <2>2. \A n \in 0..Len(c) : f[n] = IF n = 0 THEN 0 ELSE f[n - 1] + measure[c[n]]
    BY <1>1, <2>1
  <2> QED
    BY <2>1, <2>2
<1>6. sum = body(sum)
  <2> HIDE DEF body
  <2> QED BY <1>5
<1>7. \A n \in 0..Len(c) : sum[n] \in Nat
  <2> DEFINE T == {n \in 0..Len(c) : sum[n] \notin Nat}
  <2>1. SUFFICES ASSUME T # {} PROVE FALSE
    OBVIOUS
  <2> HIDE DEF sum
  <2>2. PICK n \in T : \A k \in T : n <= k
    <3>1. T \in SUBSET Nat
      BY <1>1
    <3> HIDE DEF T
    <3> QED BY <2>1, <3>1, LeastNatural
  <2>3. n # 0
    BY <1>6, <2>2
  <2>4. n \in 1..Len(c) /\ n - 1 \in 0..Len(c) /\ n - 1 \notin T
    BY <1>1, <2>2, <2>3
  <2>5. sum[n] = sum[n - 1] + measure[c[n]]
    <3>1. n \in 0..Len(c) /\ n # 0
      BY <2>2, <2>3
    <3> HIDE DEF T
    <3>2. body(sum)[n] = sum[n - 1] + measure[c[n]]
      BY <3>1
    <3> QED
      BY <1>6, <3>2
  <2> QED
    BY <1>1, <2>2, <2>4, <2>5
<1>8. Total(measure, c) = sum[Len(c)]
  BY DEF Total
<1> QED
  BY <1>1, <1>7, <1>8

\* Replaying block files up to a height yields blocks.
LEMMA ReplayedTyped ==
    ASSUME NEW h \in Nat, NEW file, \A n \in 0..h : file[n] \in Known \cup {NoBlock}
    PROVE  Replayed(file, h) \in Seq(Known)
<1> DEFINE next(n, r) == IF file[n - 1] = NoBlock THEN r ELSE Append(r, file[n - 1])
           body(r) == [n \in 0..(h + 1) |->
                          IF n = 0 THEN <<>>
                          ELSE IF file[n - 1] = NoBlock THEN r[n - 1]
                          ELSE Append(r[n - 1], file[n - 1])]
           replay == CHOOSE r : r = body(r)
           step == [n \in 1..(h + 1) |-> [r \in Seq(Known) |-> next(n, r)]]
<1>1. ASSUME NEW n \in 1..(h + 1), NEW r \in Seq(Known)
      PROVE  next(n, r) \in Seq(Known)
  <2>1. n - 1 \in 0..h
    OBVIOUS
  <2>2. file[n - 1] = NoBlock \/ file[n - 1] \in Known
    BY <2>1
  <2> QED
    BY <2>2
<1>2. step \in [1..(h + 1) -> [Seq(Known) -> Seq(Known)]]
  <2> HIDE DEF next
  <2> QED BY <1>1
<1>3. PICK f \in [0..(h + 1) -> Seq(Known)] : Iterates(f, h + 1, <<>>, step)
  <2> HIDE DEF step
  <2>1. <<>> \in Seq(Known) /\ h + 1 \in Nat
    OBVIOUS
  <2> QED BY <1>2, <2>1, IterationExists DEF Iterated
<1>4. ASSUME NEW n \in 1..(h + 1)
      PROVE  f[n] = next(n, f[n - 1])
  <2>1. f[n - 1] \in Seq(Known)
    <3> HIDE DEF step
    <3>1. n - 1 \in 0..(h + 1)
      OBVIOUS
    <3> QED
      BY <3>1, <1>3
  <2>2. step[n] = [r \in Seq(Known) |-> next(n, r)]
    <3> HIDE DEF next
    <3> QED OBVIOUS
  <2> HIDE DEF step
  <2>3. f[n] = step[n][f[n - 1]]
    BY <1>3 DEF Iterates
  <2> HIDE DEF next
  <2> QED
    BY <2>1, <2>2, <2>3
<1>5. f = body(f)
  <2>1. DOMAIN f = 0..(h + 1) /\ f[0] = <<>>
    <3> HIDE DEF step
    <3> QED BY <1>3 DEF Iterates
  <2>2. \A n \in 0..(h + 1) : n # 0 => n \in 1..(h + 1)
    OBVIOUS
  <2>3. \A n \in 0..(h + 1) :
           f[n] = IF n = 0 THEN <<>>
                  ELSE IF file[n - 1] = NoBlock THEN f[n - 1]
                  ELSE Append(f[n - 1], file[n - 1])
    BY <1>4, <2>1, <2>2
  <2> QED
    BY <2>1, <2>3
<1>6. replay = body(replay)
  <2> HIDE DEF body
  <2> QED BY <1>5
<1>7. \A n \in 0..(h + 1) : replay[n] \in Seq(Known)
  <2> DEFINE T == {n \in 0..(h + 1) : replay[n] \notin Seq(Known)}
  <2>1. SUFFICES ASSUME T # {} PROVE FALSE
    OBVIOUS
  <2> HIDE DEF replay
  <2>2. PICK n \in T : \A k \in T : n <= k
    <3>1. T \in SUBSET Nat
      OBVIOUS
    <3> HIDE DEF T
    <3> QED BY <2>1, <3>1, LeastNatural
  <2>3. n # 0
    <3>1. body(replay)[0] = <<>>
      OBVIOUS
    <3> HIDE DEF body
    <3>2. replay[0] = <<>>
      BY <1>6, <3>1, Zenon
    <3>3. <<>> \in Seq(Known)
      OBVIOUS
    <3> QED
      BY <2>2, <3>2, <3>3
  <2>4. n \in 1..(h + 1) /\ n - 1 \in 0..(h + 1) /\ n - 1 \notin T
    BY <2>2, <2>3
  <2>5. replay[n] = next(n, replay[n - 1])
    <3>1. n \in 0..(h + 1) /\ n # 0
      BY <2>2, <2>3
    <3> HIDE DEF T
    <3>2. body(replay)[n] = next(n, replay[n - 1])
      BY <3>1
    <3> QED
      BY <1>6, <3>2
  <2>6. replay[n - 1] \in Seq(Known)
    BY <2>4
  <2> HIDE DEF next
  <2> QED
    BY <1>1, <2>2, <2>4, <2>5, <2>6
<1>8. Replayed(file, h) = replay[h + 1]
  BY DEF Replayed
<1> HIDE DEF replay
<1> QED
  BY <1>7, <1>8

-----------------------------------------------------------------------------
(* Chains in the block tree                                                *)

\* What Linked says of one block.
LEMMA LinkedBlock ==
    ASSUME NEW c, Linked(c), NEW i \in 2..Len(c)
    PROVE  c[i] \in Block /\ c[i - 1] \in Known /\ Parent[c[i]] = c[i - 1]
<1>1. c \in Seq(Known) /\ i - 1 \in 1..Len(c)
  BY DEF Linked
<1> QED
  BY <1>1 DEF Linked

\* A block is one higher than its parent.
LEMMA HeightOfChild ==
    ASSUME NEW b \in Block
    PROVE  /\ Height[b] \in Nat
           /\ Parent[b] \in Known
           /\ Height[Parent[b]] \in Nat
           /\ Height[b] = Height[Parent[b]] + 1
<1>1. Parent[b] \in Known /\ b \in Known
  BY TreeIsWellFormed DEF TreeIsWellFormed, Known
<1>2. Path[Parent[b]] \in Seq(Known) /\ Path[b] = Append(Path[Parent[b]], b)
  BY <1>1, TreeIsWellFormed DEF TreeIsWellFormed
<1>3. Len(Path[b]) = Len(Path[Parent[b]]) + 1 /\ Len(Path[Parent[b]]) \in Nat
  BY <1>1, <1>2
<1>4. Path[Parent[b]] # <<>>
  <2>1. CASE Parent[b] = Genesis
    BY <2>1, TreeIsWellFormed DEF TreeIsWellFormed
  <2>2. CASE Parent[b] \in Block
    <3>1. /\ Parent[Parent[b]] \in Known
          /\ Path[Parent[b]] = Append(Path[Parent[Parent[b]]], Parent[b])
          /\ Path[Parent[Parent[b]]] \in Seq(Known)
      BY <2>2, TreeIsWellFormed DEF TreeIsWellFormed
    <3> QED
      BY <3>1, <1>1
  <2> QED
    BY <1>1, <2>1, <2>2 DEF Known
<1>5. Len(Path[Parent[b]]) >= 1
  BY <1>2, <1>4
<1> QED
  BY <1>1, <1>3, <1>5 DEF Height

LEMMA HeightOfGenesis == Genesis \in Known /\ Height[Genesis] = 0
<1>1. Genesis \in Known
  BY DEF Known
<1>2. Len(Path[Genesis]) = 1
  <2>1. Path[Genesis] = <<Genesis>>
    BY TreeIsWellFormed DEF TreeIsWellFormed
  <2> QED
    BY <2>1
<1> QED
  BY <1>1, <1>2 DEF Height

\* The block at height h of a linked chain has height h.
LEMMA LinkedHeights ==
    ASSUME NEW c, Linked(c)
    PROVE  \A i \in 1..Len(c) : Height[c[i]] = i - 1
<1> DEFINE T == {i \in 1..Len(c) : Height[c[i]] # i - 1}
<1>1. Len(c) \in Nat /\ c[1] = Genesis
  BY DEF Linked
<1>2. SUFFICES ASSUME T # {} PROVE FALSE
  OBVIOUS
<1>3. PICK i \in T : \A j \in T : i <= j
  <2>1. T \in SUBSET Nat
    BY <1>1
  <2> HIDE DEF T
  <2> QED BY <1>2, <2>1, LeastNatural
<1>4. i \in 2..Len(c)
  BY <1>1, HeightOfGenesis
<1>5. i - 1 \in 1..Len(c) /\ i - 1 \notin T
  BY <1>1, <1>3, <1>4
<1>6. Height[c[i - 1]] = i - 2
  BY <1>5, <1>4, <1>1
<1>7. Height[c[i]] = i - 1
  BY <1>1, <1>4, <1>6, LinkedBlock, HeightOfChild
<1> QED
  BY <1>7

\* What it is for c up to height h to be a prefix of d.
LEMMA CommonPrefix ==
    ASSUME NEW c \in Seq(Known), NEW d \in Seq(Known), NEW h \in 0..(Len(c) - 1)
    PROVE  IsPrefix(SubSeq(c, 1, h + 1), d)
               <=> h + 1 <= Len(d) /\ \A i \in 1..(h + 1) : c[i] = d[i]
<1> DEFINE s == SubSeq(c, 1, h + 1)
<1>1. /\ s \in Seq(Known) /\ Len(s) = h + 1
      /\ \A i \in 1..(h + 1) : s[i] = c[i]
  OBVIOUS
<1>2. IsPrefix(s, d) <=> h + 1 <= Len(d) /\ SubSeq(s, 1, h + 1) = SubSeq(d, 1, h + 1)
  <2> HIDE DEF s
  <2> QED BY <1>1 DEF IsPrefix
<1>3. SubSeq(s, 1, h + 1) = s
  <2> HIDE DEF s
  <2> QED BY <1>1
<1>4. ASSUME h + 1 <= Len(d)
      PROVE  s = SubSeq(d, 1, h + 1) <=> \A i \in 1..(h + 1) : c[i] = d[i]
  <2>1. /\ SubSeq(d, 1, h + 1) \in Seq(Known)
        /\ Len(SubSeq(d, 1, h + 1)) = h + 1
        /\ \A i \in 1..(h + 1) : SubSeq(d, 1, h + 1)[i] = d[i]
    BY <1>4
  <2> DEFINE t == SubSeq(d, 1, h + 1)
  <2> HIDE DEF s, t
  <2>2. s = t <=> \A i \in 1..(h + 1) : s[i] = t[i]
    BY <1>1, <2>1 DEF t
  <2> QED
    BY <1>1, <2>1, <2>2 DEF t
<1> QED
  BY <1>2, <1>3, <1>4

\* Two linked chains agree up to their fork point.
LEMMA AgreeUpToForkPoint ==
    ASSUME NEW c, NEW d, Linked(c), Linked(d)
    PROVE  /\ ForkPoint(c, d) \in 0..(Len(c) - 1)
           /\ ForkPoint(c, d) + 1 <= Len(d)
           /\ \A i \in 1..(ForkPoint(c, d) + 1) : c[i] = d[i]
<1> DEFINE common(h) == IsPrefix(SubSeq(c, 1, h + 1), d)
           T == {h \in 0..(Len(c) - 1) : common(h)}
<1>1. /\ c \in Seq(Known) /\ d \in Seq(Known)
      /\ Len(c) \in Nat \ {0} /\ Len(d) \in Nat \ {0}
      /\ c[1] = d[1]
  BY DEF Linked
<1>2. 0 \in T
  BY <1>1, CommonPrefix
<1>3. PICK h \in T : \A k \in T : k <= h
  <2>1. T \in SUBSET (0..(Len(c) - 1)) /\ Len(c) - 1 \in Nat
    BY <1>1
  <2> HIDE DEF T
  <2> QED BY <1>2, <2>1, GreatestBelow
<1>4. /\ h \in 0..(Len(c) - 1) /\ common(h)
      /\ h + 1 < Len(c) /\ h + 1 < Len(d) => c[h + 2] # d[h + 2]
  <2>1. ASSUME h + 1 < Len(c), h + 1 < Len(d), c[h + 2] = d[h + 2]
        PROVE  FALSE
    <3>1. \A i \in 1..(h + 1) : c[i] = d[i]
      BY <1>1, CommonPrefix
    <3>2. h + 1 \in 0..(Len(c) - 1) /\ \A i \in 1..(h + 2) : c[i] = d[i]
      BY <1>1, <2>1, <3>1
    <3>3. common(h + 1)
      BY <1>1, <2>1, <3>2, CommonPrefix
    <3> QED
      BY <1>3, <3>2, <3>3
  <2> QED
    BY <2>1
<1>5. ForkPoint(c, d) \in 0..(Len(c) - 1) /\ common(ForkPoint(c, d))
  BY <1>4 DEF ForkPoint
<1> QED
  BY <1>1, <1>5, CommonPrefix

-----------------------------------------------------------------------------
(* Linkage                                                                 *)

PoolTyped == orphans \in [Heights -> Seq(Block)]

\* The strengthening of ChainLinked: what a reorganisation is about to switch
\* to was linked when it was proposed.
Linkage ==
    /\ PoolTyped
    /\ Linked(chain)
    /\ Replacing => Linked(job.to)

LEMMA HeightInHeights == \A b \in Block : Height[b] \in Heights
BY DEF Heights

LEMMA PrunedTyped ==
    ASSUME NEW pool \in [Heights -> Seq(Block)]
    PROVE  Pruned(pool) \in [Heights -> Seq(Block)]
BY DEF Pruned

LEMMA StoredTyped ==
    ASSUME PoolTyped, NEW b \in Block
    PROVE  /\ Stored(b) \in [Heights -> Seq(Block)]
           /\ PoolWith(b) \in [Heights -> Seq(Block)]
<1>1. Stored(b) \in [Heights -> Seq(Block)]
  BY HeightInHeights DEF Stored, PoolTyped
<1> QED
  BY <1>1 DEF PoolWith, PoolTyped

LEMMA PoolAfterTyped ==
    ASSUME PoolTyped, NEW done \in BOOLEAN
    PROVE  PoolAfter(done) \in [Heights -> Seq(Block)]
BY PrunedTyped DEF PoolAfter, PoolTyped

\* A chain stays linked when a child of its tip is appended.
LEMMA AppendLinked ==
    ASSUME NEW c, Linked(c), NEW b \in Block, Parent[b] = Last(c)
    PROVE  Linked(Append(c, b))
<1> DEFINE d == Append(c, b)
<1>1. c \in Seq(Known) /\ Len(c) \in Nat \ {0} /\ c[1] = Genesis /\ b \in Known
  BY DEF Linked, Known
<1>2. /\ d \in Seq(Known) \ {<<>>} /\ Len(d) = Len(c) + 1
      /\ d[Len(d)] = b
      /\ \A i \in 1..Len(c) : d[i] = c[i]
  BY <1>1
<1>3. \A i \in 2..Len(d) : d[i] \in Block /\ Parent[d[i]] = d[i - 1]
  <2> SUFFICES ASSUME NEW i \in 2..Len(d)
               PROVE  d[i] \in Block /\ Parent[d[i]] = d[i - 1]
    OBVIOUS
  <2> HIDE DEF d
  <2>1. CASE i = Len(d)
    BY <2>1, <1>1, <1>2 DEF Last
  <2>2. CASE i # Len(d)
    <3>1. i \in 2..Len(c) /\ i - 1 \in 1..Len(c)
      BY <2>2, <1>1, <1>2
    <3> QED
      BY <3>1, <1>2, LinkedBlock
  <2> QED
    BY <2>1, <2>2
<1> QED
  BY <1>1, <1>2, <1>3 DEF Linked

\* The place ConnectOrphan takes from the pool is one of those it looks at.
LEMMA FirstContinuing ==
    ASSUME PoolTyped, NEW h \in Heights, NEW p, Continuing(orphans, h, p) # {}
    PROVE  /\ Min(Continuing(orphans, h, p)) \in 1..Len(orphans[h])
           /\ orphans[h][Min(Continuing(orphans, h, p))] \in Block
           /\ Parent[orphans[h][Min(Continuing(orphans, h, p))]] = p
<1> DEFINE at == Continuing(orphans, h, p)
<1>1. orphans[h] \in Seq(Block)
  BY DEF PoolTyped
<1>2. at \in SUBSET Nat /\ at \subseteq 1..Len(orphans[h])
  BY <1>1 DEF Continuing
<1>3. Min(at) \in at
  <2> HIDE DEF at
  <2>1. \E x \in at : \A y \in at : x <= y
    BY <1>2, LeastNatural DEF at
  <2> QED
    BY <2>1 DEF Min
<1>4. \A i \in at : /\ i \in 1..Len(orphans[h])
                    /\ orphans[h][i] \in Block
                    /\ Parent[orphans[h][i]] = p
  BY <1>1 DEF Continuing
<1> QED
  BY <1>3, <1>4

LEMMA LinkageInit == Init => Linkage
<1>1. Linked(<<Genesis>>)
  BY DEF Linked, Known
<1> QED
  BY <1>1 DEF Init, Linkage, PoolTyped, Replacing, NoJob

LEMMA LinkageNext == Linkage /\ [Next]_vars => Linkage'
<1> SUFFICES ASSUME Linkage, [Next]_vars
             PROVE  Linkage'
  OBVIOUS
<1> USE DEF Linkage
<1>1. ASSUME NEW b \in Block, ExtendTip(b)
      PROVE  Linkage'
  BY <1>1, AppendLinked
     DEF ExtendTip, Continues, AppendBlock, Tip, PoolTyped, Replacing, Job
<1>2. CASE ConnectOrphan
  <2> DEFINE h == Len(chain)
             first == Min(Continuing(orphans, h, Tip))
             b == orphans[h][first]
  <2>1. /\ h \in Heights /\ first \in 1..Len(orphans[h])
        /\ b \in Block /\ Parent[b] = Tip
    BY <1>2, FirstContinuing DEF ConnectOrphan
  <2>2. Linked(Append(chain, b))
    BY <2>1, AppendLinked DEF Tip
  <2>3. RemoveAt(orphans[h], first) \in Seq(Block)
    BY <2>1 DEF RemoveAt, PoolTyped
  <2>4. PoolTyped'
    BY <1>2, <2>3 DEF ConnectOrphan, PoolTyped
  <2> QED
    BY <1>2, <2>2, <2>4 DEF ConnectOrphan, AppendBlock, Replacing
<1>3. CASE StopConnecting
  BY <1>3 DEF StopConnecting, PoolTyped, Replacing, NoJob
<1>4. ASSUME NEW b \in Block, StoreOrphan(b)
      PROVE  Linkage'
  BY <1>4, StoredTyped DEF StoreOrphan, Replaceable, PoolTyped, Replacing, Job, NoJob
<1>5. ASSUME NEW b \in Block, ForkTooDeep(b)
      PROVE  Linkage'
  BY <1>5, StoredTyped, PrunedTyped DEF ForkTooDeep, PoolTyped, Replacing
<1>6. ASSUME NEW b \in Block, HandleFork(b)
      PROVE  Linkage'
  <2>1. PICK pool, c, best :
           /\ pool \in {PoolWith(b)}
           /\ \/ Replaceable(c) /\ job' = Job("fork", c)
              \/ Replaceable(best) /\ job' = Job("undo", best)
              \/ job' = NoJob
           /\ orphans' = pool \/ orphans' = Pruned(pool)
    BY <1>6 DEF HandleFork
  <2>2. PoolTyped'
    BY <2>1, StoredTyped, PrunedTyped DEF PoolTyped
  <2>3. Replacing' => Linked(job'.to)
    BY <2>1 DEF Replaceable, Replacing, Job, NoJob
  <2>4. UNCHANGED chain
    BY <1>6 DEF HandleFork
  <2> QED
    BY <2>2, <2>3, <2>4
<1>7. ASSUME NEW c \in Branches, SyncChain(c)
      PROVE  Linkage'
  BY <1>7 DEF SyncChain, Replaceable, PoolTyped, Replacing, Job
<1>8. CASE CompleteReorg
  BY <1>8, PoolAfterTyped DEF CompleteReorg, SwitchTo, PoolTyped, Replacing, NoJob
<1>9. CASE ReorgAborts
  BY <1>9 DEF ReorgAborts, PoolTyped, Replacing, NoJob
<1>10. CASE BlockWriteFails
  BY <1>10 DEF BlockWriteFails, PoolTyped, Replacing, NoJob
<1>11. CASE StateWriteFails
  BY <1>11, PoolAfterTyped DEF StateWriteFails, PoolTyped, Replacing, NoJob
<1>12. ASSUME NEW b \in Block, Mine(b)
       PROVE  Linkage'
  BY <1>12, AppendLinked DEF Mine, Continues, AppendBlock, Tip, PoolTyped, Replacing
<1>13. ASSUME NEW b \in Block, Certify(b)
       PROVE  Linkage'
  BY <1>13 DEF Certify, PoolTyped, Replacing
<1>14. CASE UNCHANGED vars
  BY <1>14 DEF vars, PoolTyped, Replacing
<1> QED
  BY <1>1, <1>2, <1>3, <1>4, <1>5, <1>6, <1>7, <1>8, <1>9, <1>10, <1>11, <1>12, <1>13, <1>14
     DEF Next, Receive, Finish

LEMMA LinkageAlways == Spec => []Linkage
BY LinkageInit, LinkageNext, PTL DEF Spec

\* Whatever order blocks arrive in and whichever path of add_block appends or
\* replaces them, chain is a branch of the block tree: every block on it names
\* the one before it, back to genesis.
THEOREM ChainStaysLinked == Spec => []ChainLinked
<1>1. Linkage => ChainLinked
  BY DEF Linkage, ChainLinked
<1> QED
  BY <1>1, LinkageAlways, PTL

-----------------------------------------------------------------------------
(* Types                                                                   *)

\* A linked chain, cut after one of its blocks, is linked.
LEMMA PrefixLinked ==
    ASSUME NEW c, Linked(c), NEW h \in 1..Len(c)
    PROVE  Linked(SubSeq(c, 1, h)) /\ Last(SubSeq(c, 1, h)) = c[h]
<1> DEFINE d == SubSeq(c, 1, h)
<1>1. c \in Seq(Known) /\ Len(c) \in Nat /\ c[1] = Genesis
  BY DEF Linked
<1>2. /\ d \in Seq(Known) /\ Len(d) = h
      /\ \A i \in 1..h : d[i] = c[i]
  BY <1>1
<1> HIDE DEF d
<1>3. d # <<>> /\ d[1] = Genesis /\ Last(d) = c[h]
  BY <1>1, <1>2 DEF Last
<1>4. \A i \in 2..Len(d) : d[i] \in Block /\ Parent[d[i]] = d[i - 1]
  <2> SUFFICES ASSUME NEW i \in 2..Len(d)
               PROVE  d[i] \in Block /\ Parent[d[i]] = d[i - 1]
    OBVIOUS
  <2>1. i \in 2..Len(c) /\ i \in 1..h /\ i - 1 \in 1..h
    BY <1>1, <1>2
  <2> QED
    BY <2>1, <1>2, LinkedBlock
<1>5. Linked(d)
  BY <1>2, <1>3, <1>4 DEF Linked
<1> QED
  BY <1>3, <1>5 DEF d

\* A linked chain is the branch of its last block.
LEMMA LinkedIsBranch ==
    ASSUME NEW c, Linked(c)
    PROVE  c \in Branches
<1> DEFINE T == {i \in 1..Len(c) : Path[c[i]] # SubSeq(c, 1, i)}
<1>1. c \in Seq(Known) /\ Len(c) \in Nat \ {0} /\ c[1] = Genesis
  BY DEF Linked
<1>2. T = {}
  <2> SUFFICES ASSUME T # {} PROVE FALSE
    OBVIOUS
  <2>1. PICK i \in T : \A j \in T : i <= j
    <3>1. T \in SUBSET Nat
      BY <1>1
    <3> HIDE DEF T
    <3> QED BY <3>1, LeastNatural
  <2>2. i # 1
    <3> DEFINE s == SubSeq(c, 1, 1)
    <3>1. s \in Seq(Known) /\ Len(s) = 1 /\ s[1] = Genesis
      BY <1>1
    <3> HIDE DEF s
    <3>2. s = <<Genesis>>
      BY <3>1
    <3> QED
      BY <3>2, <1>1, <2>1, TreeIsWellFormed DEF TreeIsWellFormed, s
  <2>3. i \in 2..Len(c) /\ i - 1 \in 1..Len(c) /\ i - 1 \notin T
    BY <1>1, <2>1, <2>2
  <2>4. c[i] \in Block /\ Parent[c[i]] = c[i - 1]
    BY <2>3, LinkedBlock
  <2>5. Path[c[i]] = Append(SubSeq(c, 1, i - 1), c[i])
    BY <2>3, <2>4, TreeIsWellFormed DEF TreeIsWellFormed
  <2>6. SubSeq(c, 1, i) = Append(SubSeq(c, 1, i - 1), c[i])
    BY <1>1, <2>3
  <2> QED
    BY <2>1, <2>5, <2>6
<1>3. Path[c[Len(c)]] = SubSeq(c, 1, Len(c)) /\ c[Len(c)] \in Known
  <2>1. \A i \in 1..Len(c) : Path[c[i]] = SubSeq(c, 1, i)
    BY <1>2
  <2>2. Len(c) \in 1..Len(c)
    BY <1>1
  <2> QED
    BY <1>1, <2>1, <2>2
<1>4. SubSeq(c, 1, Len(c)) = c
  BY <1>1
<1> QED
  BY <1>3, <1>4 DEF Branches

LEMMA BranchTyped ==
    ASSUME NEW c \in Branches
    PROVE  /\ c \in Seq(Known)
           /\ Len(c) \in Nat
           /\ Len(c) > 1 => Len(c) - 1 \in Heights
<1>1. PICK b \in Known : c = Path[b]
  BY DEF Branches
<1>2. c \in Seq(Known) /\ Len(c) \in Nat
  BY <1>1, TreeIsWellFormed DEF TreeIsWellFormed
<1>3. ASSUME Len(c) > 1 PROVE Len(c) - 1 \in Heights
  <2>1. b # Genesis
    <3>1. Path[Genesis] = <<Genesis>> /\ Len(<<Genesis>>) = 1
      BY TreeIsWellFormed DEF TreeIsWellFormed
    <3>2. Len(Path[Genesis]) = 1
      BY <3>1
    <3>3. ASSUME b = Genesis PROVE FALSE
      <4>1. Len(c) = 1
        BY <1>1, <3>2, <3>3
      <4> QED
        BY <1>3, <4>1
    <3> QED
      BY <3>3
  <2>2. b \in Block /\ Height[b] = Len(c) - 1
    BY <1>1, <2>1 DEF Known, Height
  <2> QED
    BY <2>2 DEF Heights
<1> QED
  BY <1>2, <1>3

\* The orphans of a pool are no higher than top.
Within(pool, top) == \A h \in Heights : pool[h] # <<>> => h <= top

\* The branch built from the pool on top of a linked chain exists: there is
\* one, and orphans do not go on for ever.
LEMMA ExtendedTyped ==
    ASSUME NEW c, Linked(c), NEW pool \in [Heights -> Seq(Block)],
           NEW top \in Nat, Within(pool, top)
    PROVE  Extended(c, pool) \in Branches
<1> DEFINE FirstOnes(d) == \A i \in (Len(c) + 1)..Len(d) :
                               LET at == Continuing(pool, i - 1, d[i - 1])
                               IN  at # {} /\ d[i] = pool[i - 1][Min(at)]
           extensions == {d \in Branches : IsPrefix(c, d) /\ FirstOnes(d)}
           T == {Len(d) : d \in extensions}
<1>1. c \in Seq(Known) /\ Len(c) \in Nat \ {0} /\ c \in Branches
  BY LinkedIsBranch DEF Linked
<1>2. c \in extensions
  <2>1. IsPrefix(c, c)
    BY <1>1 DEF IsPrefix
  <2>2. (Len(c) + 1)..Len(c) = {}
    BY <1>1
  <2> QED
    BY <1>1, <2>1, <2>2
<1>3. ASSUME NEW d \in extensions
      PROVE  Len(d) \in 0..(Len(c) + top + 1)
  <2>1. Len(d) \in Nat /\ (Len(d) > 1 => Len(d) - 1 \in Heights)
    BY BranchTyped
  <2>2. CASE Len(d) <= Len(c)
    BY <2>1, <2>2, <1>1
  <2>3. CASE Len(d) > Len(c)
    <3>1. Len(d) \in (Len(c) + 1)..Len(d) /\ Len(d) - 1 \in Heights
      BY <2>1, <2>3, <1>1
    <3>2. Continuing(pool, Len(d) - 1, d[Len(d) - 1]) # {}
      BY <3>1
    <3>3. pool[Len(d) - 1] # <<>>
      BY <3>2 DEF Continuing
    <3>4. Len(d) - 1 <= top
      BY <3>1, <3>3 DEF Within
    <3> QED
      BY <3>4, <2>1, <1>1
  <2> QED
    BY <2>1, <2>2, <2>3, <1>1
<1>4. T \in SUBSET (0..(Len(c) + top + 1)) /\ T # {}
  <2> HIDE DEF extensions
  <2> QED BY <1>2, <1>3
<1>5. PICK n \in T : \A k \in T : k <= n
  <2> HIDE DEF T
  <2>1. Len(c) + top + 1 \in Nat
    BY <1>1
  <2> QED BY <1>4, <2>1, GreatestBelow
<1>6. \E d \in extensions : \A e \in extensions : Len(e) <= Len(d)
  <2> HIDE DEF extensions
  <2> QED BY <1>5
<1>7. Extended(c, pool) \in extensions
  BY <1>6 DEF Extended
<1> QED
  BY <1>7

\* Orphans come in one at a time, so there is a highest one.
PoolBounded == \E top \in Nat : Within(orphans, top)

\* What the operations on the pool keep below a bound.
LEMMA PoolStaysWithin ==
    ASSUME PoolTyped, NEW top \in Nat, Within(orphans, top), NEW b \in Block
    PROVE  \E up \in Nat : Within(Stored(b), up) /\ Within(PoolWith(b), up)
<1>1. Height[b] \in Nat /\ Height[b] \in Heights
  BY HeightOfChild, HeightInHeights
<1>2. PICK up \in Nat : top <= up /\ Height[b] <= up
  <2>1. CASE top <= Height[b]
    BY <2>1, <1>1
  <2>2. CASE ~ (top <= Height[b])
    BY <2>2, <1>1
  <2> QED
    BY <2>1, <2>2
<1>3. \A h \in Heights : h \in Nat
  BY HeightOfChild DEF Heights
<1>4. Within(orphans, up)
  BY <1>2, <1>3 DEF Within
<1>5. Within(Stored(b), up)
  <2> SUFFICES ASSUME NEW h \in Heights, Stored(b)[h] # <<>>
               PROVE  h <= up
    BY DEF Within
  <2>1. h # Height[b] => Stored(b)[h] = orphans[h]
    BY DEF Stored, PoolTyped
  <2> QED
    BY <1>2, <1>4, <2>1 DEF Within
<1> QED
  BY <1>4, <1>5 DEF PoolWith

LEMMA PrunedStaysWithin ==
    ASSUME NEW pool, NEW top \in Nat, Within(pool, top)
    PROVE  Within(Pruned(pool), top)
BY DEF Within, Pruned

LEMMA PoolAfterStaysWithin ==
    ASSUME NEW top \in Nat, Within(orphans, top), NEW done \in BOOLEAN
    PROVE  Within(PoolAfter(done), top)
<1>1. CASE job.do = "undo"
  BY <1>1, PrunedStaysWithin DEF PoolAfter
<1>2. CASE job.do # "undo" /\ job.do = "fork" /\ done
  BY <1>2 DEF PoolAfter, Within
<1>3. CASE job.do # "undo" /\ ~ (job.do = "fork" /\ done)
  BY <1>3 DEF PoolAfter
<1> QED
  BY <1>1, <1>2, <1>3

\* Saving blocks of a chain to the block files.
LEMMA SavedTyped ==
    ASSUME NEW file \in [Heights \cup {0} -> Known \cup {NoBlock}],
           NEW c \in Seq(Known), NEW h \in Nat
    PROVE  Saved(file, c, h) \in [Heights \cup {0} -> Known \cup {NoBlock}]
<1>1. \A i \in Heights \cup {0} : i \in Nat
  BY HeightOfChild DEF Heights
<1>2. ASSUME NEW i \in Heights \cup {0}, i >= h, i < Len(c)
      PROVE  c[i + 1] \in Known
  <2>1. i + 1 \in 1..Len(c)
    BY <1>1, <1>2
  <2> QED
    BY <2>1
<1> QED
  BY <1>2 DEF Saved

\* What a reorganisation replays from the block files.
LEMMA ReplayTyped ==
    ASSUME blockFile \in [Heights \cup {0} -> Known \cup {NoBlock}],
           NEW c, Linked(c)
    PROVE  Replayed(blockFile, Len(c) - 1) \in Seq(Known)
<1>1. Len(c) \in Nat \ {0} /\ c \in Seq(Known) /\ c[1] = Genesis
  BY DEF Linked
<1>2. \A n \in 0..(Len(c) - 1) : n \in Heights \cup {0}
  <2> SUFFICES ASSUME NEW n \in 0..(Len(c) - 1), n # 0
               PROVE  n \in Heights
    OBVIOUS
  <2>1. n + 1 \in 2..Len(c) /\ n + 1 \in 1..Len(c) /\ (n + 1) - 1 = n
    BY <1>1
  <2>2. c[n + 1] \in Block /\ Height[c[n + 1]] = n
    BY <2>1, LinkedBlock, LinkedHeights
  <2> QED
    BY <2>2 DEF Heights
<1>3. Len(c) - 1 \in Nat
  BY <1>1
<1> QED
  BY <1>2, <1>3, ReplayedTyped

ForkTyped == TypeOK /\ PoolBounded

LEMMA ForkTypedInit == Init => ForkTyped
<1> SUFFICES ASSUME Init PROVE ForkTyped
  OBVIOUS
<1>1. Genesis \in Known /\ <<Genesis>> \in Seq(Known) /\ <<>> \in Seq(Known)
  BY DEF Known
<1>2. TypeOK
  BY <1>1, LimitsAreTyped DEF Init, TypeOK, NoJob, LimitsAreTyped
<1>3. Within(orphans, 0)
  BY DEF Init, Within
<1> QED
  BY <1>2, <1>3 DEF ForkTyped, PoolBounded

\* Appending a block, whichever path it came by.
LEMMA AppendBlockTyped ==
    ASSUME TypeOK, NEW b \in Block, AppendBlock(b)
    PROVE  /\ chain' \in Seq(Known) /\ utxo' \in Seq(Known)
           /\ governance' \in Seq(Known) /\ stateFile' \in Seq(Known)
           /\ blockFile' \in [Heights \cup {0} -> Known \cup {NoBlock}]
<1>1. b \in Known /\ chain \in Seq(Known) /\ utxo \in Seq(Known) /\ governance \in Seq(Known)
  BY DEF TypeOK, Known
<1>2. blockFile' \in [Heights \cup {0} -> Known \cup {NoBlock}]
  BY <1>1 DEF AppendBlock, TypeOK
<1> QED
  BY <1>1, <1>2 DEF AppendBlock

LEMMA ForkTypedNext == Linkage /\ ForkTyped /\ [Next]_vars => ForkTyped'
<1> SUFFICES ASSUME Linkage, ForkTyped, [Next]_vars
             PROVE  ForkTyped'
  OBVIOUS
<1>0. /\ TypeOK /\ PoolTyped /\ PoolTyped' /\ PoolBounded /\ Linked(chain)
      /\ Replacing => Linked(job.to)
      /\ <<>> \in Seq(Known)
  BY LinkageNext DEF Linkage, ForkTyped
<1> PICK top \in Nat : Within(orphans, top)
  BY <1>0 DEF PoolBounded
<1> DEFINE Jobs == [do : {"nothing", "connect", "orphans", "fork", "undo", "sync"},
                    to : Seq(Known)]
<1>a. ASSUME NEW kind \in {"orphans", "fork", "undo", "sync"}, NEW c, Replaceable(c)
      PROVE  Job(kind, c) \in Jobs
  BY <1>a DEF Replaceable, Linked, Job
<1>b. NoJob \in Jobs /\ Job("connect", <<>>) \in Jobs
  BY <1>0 DEF NoJob, Job
<1> HIDE DEF Jobs
<1>1. ASSUME NEW b \in Block, ExtendTip(b)
      PROVE  ForkTyped'
  <2>1. TxCount[b] \in Nat
    BY LimitsAreTyped DEF LimitsAreTyped, Known
  <2>2. /\ chain' \in Seq(Known) /\ utxo' \in Seq(Known)
        /\ governance' \in Seq(Known) /\ stateFile' \in Seq(Known)
        /\ blockFile' \in [Heights \cup {0} -> Known \cup {NoBlock}]
    BY <1>0, <1>1, AppendBlockTyped DEF ExtendTip
  <2>3. job' \in Jobs /\ txCount' \in Nat
    BY <1>0, <1>1, <1>b, <2>1 DEF ExtendTip, TypeOK
  <2>4. UNCHANGED <<orphans, certified, checkpoint, mined, failures>>
    BY <1>1 DEF ExtendTip
  <2>5. TypeOK'
    BY <1>0, <2>2, <2>3, <2>4 DEF TypeOK, Jobs
  <2> QED
    BY <1>1, <2>5 DEF ExtendTip, ForkTyped, PoolBounded
<1>2. CASE ConnectOrphan
  <2> DEFINE h == Len(chain)
             first == Min(Continuing(orphans, h, Tip))
             b == orphans[h][first]
  <2>1. h \in Heights /\ Continuing(orphans, h, Tip) # {}
    BY <1>2 DEF ConnectOrphan
  <2>2. first \in 1..Len(orphans[h]) /\ b \in Block /\ TxCount[b] \in Nat
    BY <1>0, <2>1, FirstContinuing, LimitsAreTyped DEF LimitsAreTyped, Known
  <2>3. /\ AppendBlock(b)
        /\ txCount' = txCount + TxCount[b]
        /\ orphans' = [orphans EXCEPT ![h] = RemoveAt(@, first)]
        /\ UNCHANGED <<certified, checkpoint, mined, job, failures>>
    BY <1>2 DEF ConnectOrphan
  <2>4. orphans[h] # <<>>
    BY <2>1 DEF Continuing
  <2> HIDE DEF h, first, b
  <2>5. TypeOK'
    <3>1. /\ chain' \in Seq(Known) /\ utxo' \in Seq(Known)
          /\ governance' \in Seq(Known) /\ stateFile' \in Seq(Known)
          /\ blockFile' \in [Heights \cup {0} -> Known \cup {NoBlock}]
      BY <1>0, <2>2, <2>3, AppendBlockTyped
    <3>2. txCount' \in Nat
      BY <1>0, <2>2, <2>3 DEF TypeOK
    <3> QED
      BY <1>0, <2>3, <3>1, <3>2 DEF TypeOK, PoolTyped
  <2>6. Within(orphans', top)
    BY <1>0, <2>1, <2>3, <2>4 DEF Within, PoolTyped
  <2> QED
    BY <2>5, <2>6 DEF ForkTyped, PoolBounded
<1>3. CASE StopConnecting
  BY <1>0, <1>3, <1>b DEF StopConnecting, TypeOK, Jobs, ForkTyped, PoolBounded
<1>4. ASSUME NEW b \in Block, StoreOrphan(b)
      PROVE  ForkTyped'
  <2>1. job' \in Jobs
    BY <1>4, <1>a, <1>b DEF StoreOrphan
  <2>2. TypeOK'
    BY <1>0, <1>4, <2>1 DEF StoreOrphan, TypeOK, Jobs, PoolTyped
  <2>3. PoolBounded'
    BY <1>0, <1>4, PoolStaysWithin DEF StoreOrphan, PoolBounded
  <2> QED
    BY <2>2, <2>3 DEF ForkTyped
<1>5. ASSUME NEW b \in Block, ForkTooDeep(b)
      PROVE  ForkTyped'
  <2>1. PICK up \in Nat : Within(PoolWith(b), up)
    BY <1>0, PoolStaysWithin
  <2>2. PoolBounded'
    BY <1>5, <2>1, PrunedStaysWithin DEF ForkTooDeep, PoolBounded
  <2>3. TypeOK'
    BY <1>0, <1>5 DEF ForkTooDeep, TypeOK, PoolTyped
  <2> QED
    BY <2>2, <2>3 DEF ForkTyped
<1>6. ASSUME NEW b \in Block, HandleFork(b)
      PROVE  ForkTyped'
  <2> DEFINE base == Append(UpTo(Height[b] - 1), b)
             pool == PoolWith(b)
             c == Extended(base, pool)
             best == BestBranch(pool)
  <2>1. PICK up \in Nat : Within(pool, up)
    BY <1>0, PoolStaysWithin
  <2>2. Linked(base)
    <3>1. Height[b] \in 1..Len(chain) /\ Parent[b] = chain[Height[b]]
      BY <1>0, <1>6, HeightOfChild DEF HandleFork, Forks, Linked
    <3>2. UpTo(Height[b] - 1) = SubSeq(chain, 1, Height[b])
      BY <3>1 DEF UpTo
    <3> QED
      BY <1>0, <3>1, <3>2, PrefixLinked, AppendLinked
  <2> HIDE DEF base
  <2>3. c \in Seq(Known)
    BY <1>0, <2>1, <2>2, StoredTyped, ExtendedTyped, BranchTyped
  <2>4. /\ \/ Replaceable(c) /\ job' = Job("fork", c)
           \/ Replaceable(best) /\ job' = Job("undo", best)
           \/ job' = NoJob
        /\ orphans' = pool \/ orphans' = Pruned(pool)
        /\ blockFile' = Saved(blockFile, c, Height[b])
        /\ UNCHANGED <<chain, utxo, governance, txCount, stateFile, certified,
                       checkpoint, mined, failures>>
    BY <1>6 DEF HandleFork, base
  <2> HIDE DEF c, pool, best
  <2>5. job' \in Jobs
    BY <2>4, <1>a, <1>b
  <2>6. blockFile' \in [Heights \cup {0} -> Known \cup {NoBlock}]
    BY <1>0, <2>3, <2>4, SavedTyped, HeightOfChild DEF TypeOK
  <2>7. TypeOK'
    BY <1>0, <2>4, <2>5, <2>6 DEF TypeOK, Jobs, PoolTyped
  <2>8. PoolBounded'
    BY <2>1, <2>4, PrunedStaysWithin DEF PoolBounded
  <2> QED
    BY <2>7, <2>8 DEF ForkTyped
<1>7. ASSUME NEW c \in Branches, SyncChain(c)
      PROVE  ForkTyped'
  <2>1. job' \in Jobs
    BY <1>7, <1>a DEF SyncChain
  <2>2. TypeOK'
    BY <1>0, <1>7, <2>1 DEF SyncChain, TypeOK, Jobs
  <2> QED
    BY <1>0, <1>7, <2>2 DEF SyncChain, ForkTyped, PoolBounded
<1>8. ASSUME Replacing
      PROVE  /\ job.to \in Seq(Known) /\ Len(job.to) \in Nat /\ CountTxs(job.to) \in Nat
             /\ Replayed(blockFile, Len(job.to) - 1) \in Seq(Known)
             /\ Saved(blockFile, job.to, 0) \in [Heights \cup {0} -> Known \cup {NoBlock}]
  <2>1. job.to \in Seq(Known) /\ Linked(job.to)
    BY <1>0, <1>8 DEF Linked
  <2>2. CountTxs(job.to) \in Nat
    BY <2>1, TotalTyped, LimitsAreTyped DEF CountTxs, LimitsAreTyped
  <2>3. Replayed(blockFile, Len(job.to) - 1) \in Seq(Known)
    BY <1>0, <2>1, ReplayTyped DEF TypeOK
  <2>4. Saved(blockFile, job.to, 0) \in [Heights \cup {0} -> Known \cup {NoBlock}]
    BY <1>0, <2>1, SavedTyped DEF TypeOK
  <2> QED
    BY <2>1, <2>2, <2>3, <2>4
<1>9. ASSUME Replacing, NEW done \in BOOLEAN, orphans' = PoolAfter(done) \/ orphans' = orphans
      PROVE  PoolBounded'
  BY <1>9, PoolAfterStaysWithin DEF PoolBounded
<1>10. CASE CompleteReorg
  <2>1. Replacing /\ PoolBounded'
    BY <1>9, <1>10 DEF CompleteReorg
  <2>2. TypeOK'
    BY <1>0, <1>8, <1>10, <1>b, <2>1 DEF CompleteReorg, SwitchTo, TypeOK, Jobs, PoolTyped
  <2> QED
    BY <2>1, <2>2 DEF ForkTyped
<1>11. CASE ReorgAborts
  <2>1. Replacing /\ PoolBounded' /\ ~ AllApply
    BY <1>9, <1>11 DEF ReorgAborts
  <2>2. utxo' \in Seq(Known)
    <3>1. Refused \in SUBSET Nat /\ Refused # {} /\ Refused \subseteq 1..Len(job.to)
      BY <1>8, <2>1 DEF Refused, AllApply
    <3>2. Min(Refused) \in Refused
      <4>1. \E x \in Refused : \A y \in Refused : x <= y
        BY <3>1, LeastNatural
      <4> QED
        BY <4>1 DEF Min
    <3> DEFINE m == Min(Refused) - 1
    <3>3. m \in 0..Len(job.to)
      <4>1. Len(job.to) \in Nat /\ Min(Refused) \in 1..Len(job.to)
        BY <1>8, <2>1, <3>1, <3>2
      <4> QED
        BY <4>1
    <3>4. utxo' = SubSeq(job.to, 1, m)
      BY <1>11 DEF ReorgAborts
    <3> HIDE DEF m
    <3>5. \A i \in 1..m : job.to[i] \in Known
      BY <1>8, <2>1, <3>3
    <3> QED
      BY <1>8, <2>1, <3>3, <3>4, <3>5
  <2>3. TypeOK'
    BY <1>0, <1>11, <1>b, <2>2 DEF ReorgAborts, TypeOK, Jobs
  <2> QED
    BY <2>1, <2>3 DEF ForkTyped
<1>12. CASE BlockWriteFails
  <2>1. Replacing /\ PoolBounded'
    BY <1>9, <1>12 DEF BlockWriteFails
  <2>2. PICK n \in 0..(Len(job.to) - 1) : blockFile' = Saved(blockFile, SubSeq(job.to, 1, n), 0)
    BY <1>12 DEF BlockWriteFails
  <2>3. SubSeq(job.to, 1, n) \in Seq(Known)
    <3>1. \A i \in 1..n : job.to[i] \in Known
      BY <1>8, <2>1
    <3> QED
      BY <1>8, <2>1, <3>1
  <2>4. blockFile' \in [Heights \cup {0} -> Known \cup {NoBlock}]
    BY <1>0, <2>2, <2>3, SavedTyped DEF TypeOK
  <2>5. failures' \in 0..MaxFailures
    BY <1>0, <1>12, LimitsAreTyped DEF BlockWriteFails, TypeOK, LimitsAreTyped
  <2>6. TypeOK'
    BY <1>0, <1>8, <1>12, <1>b, <2>1, <2>4, <2>5 DEF BlockWriteFails, TypeOK, Jobs
  <2> QED
    BY <2>1, <2>6 DEF ForkTyped
<1>13. CASE StateWriteFails
  <2>1. Replacing /\ PoolBounded'
    BY <1>9, <1>13 DEF StateWriteFails
  <2>2. failures' \in 0..MaxFailures
    BY <1>0, <1>13, LimitsAreTyped DEF StateWriteFails, TypeOK, LimitsAreTyped
  <2>3. stateFile' \in Seq(Known)
    BY <1>0, <1>8, <1>13, <2>1 DEF StateWriteFails, TypeOK
  <2>4. TypeOK'
    BY <1>0, <1>8, <1>13, <1>b, <2>1, <2>2, <2>3
       DEF StateWriteFails, TypeOK, Jobs, PoolTyped
  <2> QED
    BY <2>1, <2>4 DEF ForkTyped
<1>14. ASSUME NEW b \in Block, Mine(b)
       PROVE  ForkTyped'
  <2>1. b \in Own /\ b \in Known
    BY <1>14 DEF Mine, Known
  <2>2. checkpoint' \in Known
    BY <1>0, <1>14, <2>1 DEF Mine, TypeOK
  <2>3. TypeOK'
    BY <1>0, <1>14, <2>1, <2>2, AppendBlockTyped DEF Mine, TypeOK
  <2> QED
    BY <1>0, <1>14, <2>3 DEF Mine, ForkTyped, PoolBounded
<1>15. ASSUME NEW b \in Block, Certify(b)
       PROVE  ForkTyped'
  <2>1. TypeOK'
    BY <1>0, <1>15 DEF Certify, TypeOK
  <2> QED
    BY <1>0, <1>15, <2>1 DEF Certify, ForkTyped, PoolBounded
<1>16. CASE UNCHANGED vars
  BY <1>0, <1>16 DEF vars, TypeOK, ForkTyped, PoolBounded
<1> QED
  BY <1>1, <1>2, <1>3, <1>4, <1>5, <1>6, <1>7, <1>10, <1>11, <1>12, <1>13, <1>14, <1>15, <1>16
     DEF Next, Receive, Finish

LEMMA ForkTypedAlways == Spec => []ForkTyped
<1>1. Linkage /\ ForkTyped /\ [Next]_vars => ForkTyped'
  BY ForkTypedNext
<1> QED
  BY <1>1, ForkTypedInit, LinkageAlways, PTL DEF Spec

\* Chain, pool, derived state, files and the reorganisation under way keep their
\* types, for every block tree and bound: in particular the branch _handle_fork
\* builds exists, and counting and replaying a chain yields counts and blocks.
THEOREM ForkTypesHold == Spec => []TypeOK
<1>1. ForkTyped => TypeOK
  BY DEF ForkTyped
<1> QED
  BY <1>1, ForkTypedAlways, PTL

-----------------------------------------------------------------------------
(* The fork choice rule                                                    *)

\* What the rule of replace_chain asks of a chain: it is longer than the one of
\* the node, or as long and no lighter.
NoWorse(c) ==
    \/ Len(c) > Len(chain)
    \/ Len(c) = Len(chain) /\ ChainWork(c) >= ChainWork(chain)

\* The chain a reorganisation is about to switch to was compared with the one
\* the node still has.
Compared == Replacing => NoWorse(job.to)

LEMMA PreferredIsNoWorse ==
    ASSUME Linked(chain), NEW c, Replaceable(c)
    PROVE  NoWorse(c)
<1>1. ChainWork(c) \in Nat /\ ChainWork(chain) \in Nat
  BY TotalTyped, LimitsAreTyped DEF ChainWork, LimitsAreTyped, Replaceable, Linked
<1> QED
  BY <1>1 DEF Replaceable, Preferred, NoWorse

\* A chain that replace_chain accepts has been compared.
LEMMA ProposalCompared ==
    ASSUME Linkage, UNCHANGED chain, NEW kind, NEW c, Replaceable(c), job' = Job(kind, c)
    PROVE  Compared'
<1>1. NoWorse(c)
  BY PreferredIsNoWorse DEF Linkage
<1> QED
  BY <1>1 DEF Compared, NoWorse, Job

LEMMA ComparedNext == Linkage /\ Compared /\ [Next]_vars => Compared'
<1> SUFFICES ASSUME Linkage, Compared, [Next]_vars
             PROVE  Compared'
  OBVIOUS
<1>1. ASSUME NEW b \in Block, Receive(b)
      PROVE  Compared'
  <2>1. CASE ExtendTip(b)
    BY <2>1 DEF ExtendTip, Compared, Replacing, Job
  <2>2. CASE StoreOrphan(b)
    <3>1. PICK c : (Replaceable(c) /\ job' = Job("orphans", c)) \/ job' = NoJob
      BY <2>2 DEF StoreOrphan
    <3>2. UNCHANGED chain
      BY <2>2 DEF StoreOrphan
    <3> QED
      BY <3>1, <3>2, ProposalCompared DEF Compared, Replacing, NoJob
  <2>3. CASE ForkTooDeep(b)
    BY <2>3 DEF ForkTooDeep, Compared, NoWorse, Replacing
  <2>4. CASE HandleFork(b)
    <3>1. PICK kind, c : (Replaceable(c) /\ job' = Job(kind, c)) \/ job' = NoJob
      BY <2>4 DEF HandleFork
    <3>2. UNCHANGED chain
      BY <2>4 DEF HandleFork
    <3> QED
      BY <3>1, <3>2, ProposalCompared DEF Compared, Replacing, NoJob
  <2> QED
    BY <1>1, <2>1, <2>2, <2>3, <2>4 DEF Receive
<1>2. ASSUME NEW b \in Block, Mine(b) \/ Certify(b)
      PROVE  Compared'
  BY <1>2 DEF Mine, Free, NoJob, Certify, Compared, NoWorse, Replacing
<1>3. ASSUME NEW c \in Branches, SyncChain(c)
      PROVE  Compared'
  BY <1>3, ProposalCompared DEF SyncChain
<1>4. CASE Finish
  <2>1. CASE ConnectOrphan
    BY <2>1 DEF ConnectOrphan, Compared, Replacing
  <2>2. CASE StopConnecting \/ CompleteReorg \/ ReorgAborts
    <3>1. job' = NoJob
      BY <2>2 DEF StopConnecting, CompleteReorg, ReorgAborts
    <3> QED
      BY <3>1 DEF Compared, Replacing, NoJob
  <2> QED
    BY <1>4, <2>1, <2>2 DEF Finish
<1>5. CASE BlockWriteFails \/ StateWriteFails
  <2>1. job' = NoJob
    BY <1>5 DEF BlockWriteFails, StateWriteFails
  <2> QED
    BY <2>1 DEF Compared, Replacing, NoJob
<1>6. CASE UNCHANGED vars
  BY <1>6 DEF vars, Compared, NoWorse, Replacing
<1> QED
  BY <1>1, <1>2, <1>3, <1>4, <1>5, <1>6 DEF Next

\* However a branch gets to replace_chain and whatever happens until it switches,
\* the chain is left only for a longer one, or at equal length for one of no
\* less work.
THEOREM NeverWorse == Spec => NeverShorterNorLighter
<1>1. Init => Compared
  BY DEF Init, Compared, Replacing, NoJob
<1>2. ASSUME Linkage, Compared, [Next]_vars
      PROVE  chain' = chain \/ NoWorse(chain')
  <2>1. ASSUME NEW b \in Block, AppendBlock(b)
        PROVE  NoWorse(chain')
    <3>1. chain \in Seq(Known) /\ b \in Known
      BY <1>2 DEF Linkage, Linked, Known
    <3>2. Len(chain') = Len(chain) + 1 /\ Len(chain) \in Nat
      BY <2>1, <3>1 DEF AppendBlock
    <3> QED
      BY <3>2 DEF NoWorse
  <2>2. ASSUME NEW b \in Block, Receive(b) \/ Mine(b) \/ Certify(b)
        PROVE  chain' = chain \/ NoWorse(chain')
    <3>1. CASE ExtendTip(b) \/ Mine(b)
      BY <2>1, <3>1 DEF ExtendTip, Mine
    <3>2. CASE StoreOrphan(b) \/ ForkTooDeep(b) \/ Certify(b)
      BY <3>2 DEF StoreOrphan, ForkTooDeep, Certify
    <3>3. CASE HandleFork(b)
      BY <3>3 DEF HandleFork
    <3> QED
      BY <2>2, <3>1, <3>2, <3>3 DEF Receive
  <2>3. ASSUME NEW c \in Branches, SyncChain(c)
        PROVE  chain' = chain
    BY <2>3 DEF SyncChain
  <2>4. CASE ConnectOrphan
    <3>1. PICK b : b \in Block /\ AppendBlock(b)
      BY <1>2, <2>4, FirstContinuing DEF ConnectOrphan, Linkage
    <3> QED
      BY <2>1, <3>1
  <2>5. CASE StopConnecting \/ ReorgAborts \/ StateWriteFails
    BY <2>5 DEF StopConnecting, ReorgAborts, StateWriteFails
  <2>6. CASE CompleteReorg \/ BlockWriteFails
    BY <1>2, <2>6 DEF CompleteReorg, SwitchTo, BlockWriteFails, Compared
  <2>7. CASE UNCHANGED vars
    BY <2>7 DEF vars
  <2> QED
    BY <1>2, <2>2, <2>3, <2>4, <2>5, <2>6, <2>7 DEF Next, Finish
<1>3. Linkage /\ Compared /\ [Next]_vars =>
          [\/ Len(chain') > Len(chain)
           \/ Len(chain') = Len(chain) /\ ChainWork(chain') >= ChainWork(chain)]_chain
  BY <1>2 DEF NoWorse
<1> QED
  BY <1>1, <1>3, ComparedNext, LinkageAlways, PTL DEF Spec, NeverShorterNorLighter

-----------------------------------------------------------------------------
(* Anchors: certified blocks and the block of the latest checkpoint        *)

Anchor == certified \cup {checkpoint}

\* The strengthening of AnchorsOnChain: the anchors are also on the chain a
\* reorganisation is about to switch to.
Anchored ==
    /\ certified \subseteq Block
    /\ checkpoint \in Known
    /\ Anchor \subseteq ToSet(chain)
    /\ Replacing => Anchor \subseteq ToSet(job.to)

\* The guards of replace_chain put every anchor at or below the fork point.
LEMMA GuardsKeepAnchors ==
    ASSUME Linked(chain), certified \subseteq Block, checkpoint \in Known,
           Anchor \subseteq ToSet(chain), NEW c, Replaceable(c)
    PROVE  Anchor \subseteq ToSet(c)
<1> SUFFICES ASSUME NEW a \in Anchor
             PROVE  a \in ToSet(c)
  OBVIOUS
<1> DEFINE f == ForkPoint(chain, c)
<1>1. Linked(c) /\ RespectsCheckpoint(c) /\ RespectsFinality(c)
  BY DEF Replaceable
<1>2. /\ chain \in Seq(Known) /\ c \in Seq(Known)
      /\ Len(chain) \in Nat /\ Len(c) \in Nat
  BY <1>1 DEF Linked
<1>3. /\ f \in 0..(Len(chain) - 1) /\ f + 1 <= Len(c)
      /\ \A i \in 1..(f + 1) : chain[i] = c[i]
  BY <1>1, AgreeUpToForkPoint
<1>4. PICK k \in 1..Len(chain) : a = chain[k]
  BY <1>2 DEF ToSet
<1>5. Height[a] = k - 1
  BY <1>4, LinkedHeights
<1>6. Height[a] <= f
  <2>1. CASE a = checkpoint /\ checkpoint # Genesis
    BY <2>1, <1>1, <1>3, <1>5 DEF RespectsCheckpoint
  <2>2. CASE a = Genesis
    BY <2>2, <1>3, HeightOfGenesis
  <2>3. CASE a \in certified
    BY <2>3, <1>1, <1>3, <1>5 DEF RespectsFinality, CertifiedHeights
  <2> QED
    BY <2>1, <2>2, <2>3 DEF Anchor
<1>7. k \in 1..Len(c) /\ a = c[k]
  <2> HIDE DEF f
  <2> QED BY <1>2, <1>3, <1>4, <1>5, <1>6
<1> QED
  BY <1>2, <1>7 DEF ToSet

LEMMA ToSetOfAppend ==
    ASSUME NEW c, Linked(c), NEW b \in Block
    PROVE  ToSet(Append(c, b)) = ToSet(c) \cup {b}
<1> DEFINE d == Append(c, b)
<1>1. c \in Seq(Known) /\ Len(c) \in Nat /\ b \in Known
  BY DEF Linked, Known
<1>2. /\ d \in Seq(Known) /\ Len(d) = Len(c) + 1
      /\ d[Len(c) + 1] = b
      /\ \A i \in 1..Len(c) : d[i] = c[i]
  BY <1>1
<1>3. DOMAIN d = DOMAIN c \cup {Len(c) + 1} /\ DOMAIN c = 1..Len(c)
  BY <1>1, <1>2
<1> HIDE DEF d
<1> QED
  BY <1>2, <1>3 DEF ToSet, d

LEMMA AnchoredInit == Init => Anchored
<1>1. ToSet(<<Genesis>>) = {Genesis}
  BY DEF ToSet
<1> QED
  BY <1>1 DEF Init, Anchored, Anchor, Known, Replacing, NoJob

\* A proposal carries the anchors, and so does what is made of it.
LEMMA ProposalAnchored ==
    ASSUME Linkage, Anchored, UNCHANGED <<chain, certified, checkpoint>>,
           NEW kind, NEW c, Replaceable(c), job' = Job(kind, c)
    PROVE  Anchored'
<1>1. Anchor \subseteq ToSet(c)
  BY GuardsKeepAnchors DEF Linkage, Anchored
<1>2. Anchor' = Anchor
  BY DEF Anchor
<1> QED
  BY <1>1, <1>2 DEF Anchored, Job

\* Nothing else a step does to the job brings the anchors into question.
LEMMA IdleAnchored ==
    ASSUME Anchored, UNCHANGED <<chain, certified, checkpoint>>, ~Replacing'
    PROVE  Anchored'
BY DEF Anchored, Anchor

LEMMA AppendAnchored ==
    ASSUME Linkage, Anchored, NEW b \in Block, chain' = Append(chain, b),
           UNCHANGED certified, checkpoint' \in {checkpoint, b}, ~Replacing'
    PROVE  Anchored'
<1>1. ToSet(chain') = ToSet(chain) \cup {b}
  BY ToSetOfAppend DEF Linkage
<1>2. Anchor' \subseteq Anchor \cup {b}
  BY DEF Anchor
<1>3. checkpoint' \in Known
  BY DEF Anchored, Known
<1> QED
  BY <1>1, <1>2, <1>3 DEF Anchored

LEMMA SwitchAnchored ==
    ASSUME Anchored, Replacing, chain' \in {chain, job.to},
           UNCHANGED <<certified, checkpoint>>, ~Replacing'
    PROVE  Anchored'
BY DEF Anchored, Anchor

LEMMA AnchoredNext ==
    ASSUME ~VotesDuringReorg, Linkage, Anchored, [Next]_vars
    PROVE  Anchored'
<1>1. ASSUME NEW b \in Block, ExtendTip(b)
      PROVE  Anchored'
  BY <1>1, AppendAnchored DEF ExtendTip, AppendBlock, Replacing, Job
<1>2. CASE ConnectOrphan
  <2>1. PICK b : b \in Block /\ chain' = Append(chain, b)
    BY <1>2, FirstContinuing DEF ConnectOrphan, AppendBlock, Linkage
  <2> QED
    BY <1>2, <2>1, AppendAnchored DEF ConnectOrphan, Replacing
<1>3. CASE StopConnecting
  BY <1>3, IdleAnchored DEF StopConnecting, Replacing, NoJob
<1>4. ASSUME NEW b \in Block, StoreOrphan(b)
      PROVE  Anchored'
  <2>1. PICK c : \/ Replaceable(c) /\ job' = Job("orphans", c)
                 \/ job' = NoJob
    BY <1>4 DEF StoreOrphan
  <2>2. CASE Replaceable(c) /\ job' = Job("orphans", c)
    BY <1>4, <2>2, ProposalAnchored DEF StoreOrphan
  <2>3. CASE job' = NoJob
    BY <1>4, <2>3, IdleAnchored DEF StoreOrphan, Replacing, NoJob
  <2> QED
    BY <2>1, <2>2, <2>3
<1>5. ASSUME NEW b \in Block, ForkTooDeep(b)
      PROVE  Anchored'
  BY <1>5, IdleAnchored DEF ForkTooDeep, Arrives, Free, Replacing, NoJob
<1>6. ASSUME NEW b \in Block, HandleFork(b)
      PROVE  Anchored'
  <2>1. PICK c, kind : \/ Replaceable(c) /\ job' = Job(kind, c)
                       \/ job' = NoJob
    BY <1>6 DEF HandleFork
  <2>2. CASE Replaceable(c) /\ job' = Job(kind, c)
    BY <1>6, <2>2, ProposalAnchored DEF HandleFork
  <2>3. CASE job' = NoJob
    BY <1>6, <2>3, IdleAnchored DEF HandleFork, Replacing, NoJob
  <2> QED
    BY <2>1, <2>2, <2>3
<1>7. ASSUME NEW c \in Branches, SyncChain(c)
      PROVE  Anchored'
  BY <1>7, ProposalAnchored DEF SyncChain
<1>8. CASE CompleteReorg
  BY <1>8, SwitchAnchored DEF CompleteReorg, SwitchTo, Replacing, NoJob
<1>9. CASE ReorgAborts
  BY <1>9, IdleAnchored DEF ReorgAborts, Replacing, NoJob
<1>10. CASE BlockWriteFails
  BY <1>10, SwitchAnchored DEF BlockWriteFails, Replacing, NoJob
<1>11. CASE StateWriteFails
  BY <1>11, IdleAnchored DEF StateWriteFails, Replacing, NoJob
<1>12. ASSUME NEW b \in Block, Mine(b)
       PROVE  Anchored'
  BY <1>12, AppendAnchored DEF Mine, AppendBlock, Free, Replacing, NoJob
<1>13. ASSUME NEW b \in Block, Certify(b)
       PROVE  Anchored'
  BY <1>13 DEF Certify, OnChain, Anchored, Anchor, Replacing
<1>14. CASE UNCHANGED vars
  BY <1>14 DEF vars, Anchored, Anchor, Replacing
<1> QED
  BY <1>1, <1>2, <1>3, <1>4, <1>5, <1>6, <1>7, <1>8, <1>9, <1>10, <1>11, <1>12, <1>13, <1>14
     DEF Next, Receive, Finish

\* When no quorum of votes completes while replace_chain is under way, nor an
\* own block (the guard of Mine), a block with a finality certificate and the
\* block of the latest checkpoint never leave the chain, whatever forks, syncs,
\* aborted or failed reorganisations the node goes through.
THEOREM AnchorsStay ==
    ASSUME ~VotesDuringReorg
    PROVE  Spec => []AnchorsOnChain
<1>1. Linkage /\ Anchored /\ [Next]_vars => Anchored'
  BY AnchoredNext
<1>2. Anchored => AnchorsOnChain
  BY DEF Anchored, Anchor, AnchorsOnChain
<1> QED
  BY <1>1, <1>2, AnchoredInit, LinkageAlways, PTL DEF Spec

-----------------------------------------------------------------------------
(* The UTXO set                                                            *)

\* Every step of add_block and replace_chain but the one that aborts on an
\* input it cannot apply changes chain and UTXO set together.
THEOREM UtxoStaysWithChain == Spec => UtxoFollowsChain
<1>1. ASSUME [Next]_vars, utxo = chain, ~ReorgAborts
      PROVE  utxo' = chain'
  <2>1. ASSUME NEW b \in Block, Receive(b) \/ Mine(b) \/ Certify(b)
        PROVE  utxo' = chain'
    <3>1. CASE ExtendTip(b) \/ Mine(b)
      BY <1>1, <3>1 DEF ExtendTip, Mine, AppendBlock
    <3>2. CASE StoreOrphan(b)
      BY <1>1, <3>2 DEF StoreOrphan
    <3>3. CASE ForkTooDeep(b) \/ Certify(b)
      BY <1>1, <3>3 DEF ForkTooDeep, Certify
    <3>4. CASE HandleFork(b)
      BY <1>1, <3>4 DEF HandleFork
    <3> QED
      BY <2>1, <3>1, <3>2, <3>3, <3>4 DEF Receive
  <2>2. CASE Finish
    <3>1. CASE ConnectOrphan
      BY <1>1, <3>1 DEF ConnectOrphan, AppendBlock
    <3>2. CASE StopConnecting
      BY <1>1, <3>2 DEF StopConnecting
    <3>3. CASE CompleteReorg
      BY <1>1, <3>3 DEF CompleteReorg, SwitchTo
    <3> QED
      BY <1>1, <2>2, <3>1, <3>2, <3>3 DEF Finish
  <2>3. CASE BlockWriteFails \/ StateWriteFails
    BY <1>1, <2>3 DEF BlockWriteFails, StateWriteFails
  <2>4. ASSUME NEW c \in Branches, SyncChain(c)
        PROVE  utxo' = chain'
    BY <1>1, <2>4 DEF SyncChain
  <2>5. CASE UNCHANGED vars
    BY <1>1, <2>5 DEF vars
  <2> QED
    BY <1>1, <2>1, <2>2, <2>3, <2>4, <2>5 DEF Next
<1>2. [Next]_vars => [utxo = chain /\ ~ReorgAborts => utxo' = chain']_<<chain, utxo>>
  BY <1>1
<1> QED
  BY <1>2, PTL DEF Spec, UtxoFollowsChain

=============================================================================
