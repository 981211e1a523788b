--------------------------- MODULE StorageProofs ---------------------------
(***************************************************************************)
(* Proofs about NodeStorage for every block tree, number of state files,   *)
(* checkpoint interval and number of crashes, write errors, saved forks    *)
(* and restored checkpoints.  The checksum file is the commit record of a  *)
(* save: it is written when every state file has been replaced, and a node *)
(* compares the files with it before it starts.  So what a start finds is  *)
(* decided when the checksum is written, and what has to be shown is that  *)
(* the block files then hold the chain, read back as the loaders read it.  *)
(***************************************************************************)
EXTENDS NodeStorage, FiniteSetTheorems, WellFoundedInduction, NaturalsInduction, TLAPS

-----------------------------------------------------------------------------
(* Natural numbers                                                         *)

\* A set of naturals has a least element.  The inductions below (over heights,
\* over places in a pool) look at the least exception.
LEMMA LeastNatural ==
    ASSUME NEW T \in SUBSET Nat, T # {}
    PROVE  \E x \in T : \A y \in T : x <= y
<1> DEFINE R == OpToRel(<, Nat)
<1>1. IsWellFoundedOn(R, Nat)
  BY NatLessThanWellFounded
<1>2. \A x, y \in Nat : y < x => <<y, x>> \in R
  BY DEF OpToRel
<1>3. PICK x \in T : \A y \in T : ~ (<<y, x>> \in R)
  <2> HIDE DEF R
  <2> QED BY <1>1, WFMin
<1>4. \A y \in T : ~ (y < x)
  <2> HIDE DEF R
  <2> QED BY <1>2, <1>3
<1>5. x \in Nat /\ \A y \in T : y \in Nat
  OBVIOUS
<1>6. \A y \in T : x <= y
  BY <1>4, <1>5
<1> QED
  BY <1>6

\* A set of naturals below a bound has a greatest element.
LEMMA GreatestBelow ==
    ASSUME NEW n \in Nat, NEW T \in SUBSET (0..n), T # {}
    PROVE  \E x \in T : \A y \in T : y <= x
<1> DEFINE D == {n - x : x \in T}
<1>1. D \in SUBSET Nat /\ D # {}
  <2>1. \A x \in T : n - x \in Nat
    OBVIOUS
  <2> QED
    BY <2>1
<1>2. PICK d \in D : \A e \in D : d <= e
  <2> HIDE DEF D
  <2> QED BY <1>1, LeastNatural
<1>3. PICK x \in T : d = n - x
  OBVIOUS
<1>4. \A y \in T : n - x <= n - y
  BY <1>2, <1>3
<1> QED
  BY <1>4

-----------------------------------------------------------------------------
(* Chains in the block tree                                                *)

\* What Linked says of one block.
LEMMA LinkedBlock ==
    ASSUME NEW c, Linked(c), NEW i \in 2..Len(c)
    PROVE  c[i] \in Block /\ c[i - 1] \in Known /\ Parent[c[i]] = c[i - 1]
<1>1. c \in Seq(Known) /\ i - 1 \in 1..Len(c)
  BY DEF Linked
<1> QED
  BY <1>1 DEF Linked

\* A block is one higher than its parent.
LEMMA HeightOfChild ==
    ASSUME NEW b \in Block
    PROVE  /\ Height[b] \in Nat
           /\ Parent[b] \in Known
           /\ Height[Parent[b]] \in Nat
           /\ Height[b] = Height[Parent[b]] + 1
<1>1. Parent[b] \in Known /\ b \in Known
  BY TreeIsWellFormed DEF TreeIsWellFormed, Known
<1>2. Path[Parent[b]] \in Seq(Known) /\ Path[b] = Append(Path[Parent[b]], b)
  BY <1>1, TreeIsWellFormed DEF TreeIsWellFormed
<1>3. Len(Path[b]) = Len(Path[Parent[b]]) + 1 /\ Len(Path[Parent[b]]) \in Nat
  BY <1>1, <1>2
<1>4. Path[Parent[b]] # <<>>
  <2>1. CASE Parent[b] = Genesis
    BY <2>1, TreeIsWellFormed DEF TreeIsWellFormed
  <2>2. CASE Parent[b] \in Block
    <3>1. /\ Parent[Parent[b]] \in Known
          /\ Path[Parent[b]] = Append(Path[Parent[Parent[b]]], Parent[b])
          /\ Path[Parent[Parent[b]]] \in Seq(Known)
      BY <2>2, TreeIsWellFormed DEF TreeIsWellFormed
    <3> QED
      BY <3>1, <1>1
  <2> QED
    BY <1>1, <2>1, <2>2 DEF Known
<1>5. Len(Path[Parent[b]]) >= 1
  BY <1>2, <1>4
<1> QED
  BY <1>1, <1>3, <1>5 DEF Height

LEMMA HeightOfGenesis == Genesis \in Known /\ Height[Genesis] = 0
<1>1. Genesis \in Known
  BY DEF Known
<1>2. Len(Path[Genesis]) = 1
  <2>1. Path[Genesis] = <<Genesis>>
    BY TreeIsWellFormed DEF TreeIsWellFormed
  <2> QED
    BY <2>1
<1> QED
  BY <1>1, <1>2 DEF Height

\* The block at height h of a linked chain has height h.
LEMMA LinkedHeights ==
    ASSUME NEW c, Linked(c)
    PROVE  \A i \in 1..Len(c) : Height[c[i]] = i - 1
<1> DEFINE T == {i \in 1..Len(c) : Height[c[i]] # i - 1}
<1>1. Len(c) \in Nat /\ c[1] = Genesis
  BY DEF Linked
<1>2. SUFFICES ASSUME T # {} PROVE FALSE
  OBVIOUS
<1>3. PICK i \in T : \A j \in T : i <= j
  <2>1. T \in SUBSET Nat
    BY <1>1
  <2> HIDE DEF T
  <2> QED BY <1>2, <2>1, LeastNatural
<1>4. i \in 2..Len(c)
  BY <1>1, HeightOfGenesis
<1>5. i - 1 \in 1..Len(c) /\ i - 1 \notin T
  BY <1>1, <1>3, <1>4
<1>6. Height[c[i - 1]] = i - 2
  BY <1>5, <1>4, <1>1
<1>7. Height[c[i]] = i - 1
  BY <1>1, <1>4, <1>6, LinkedBlock, HeightOfChild
<1> QED
  BY <1>7

\* What it is for c up to height h to be a prefix of d.
LEMMA CommonPrefix ==
    ASSUME NEW c \in Seq(Known), NEW d \in Seq(Known), NEW h \in 0..(Len(c) - 1)
    PROVE  IsPrefix(SubSeq(c, 1, h + 1), d)
               <=> h + 1 <= Len(d) /\ \A i \in 1..(h + 1) : c[i] = d[i]
<1> DEFINE s == SubSeq(c, 1, h + 1)
<1>1. /\ s \in Seq(Known) /\ Len(s) = h + 1
      /\ \A i \in 1..(h + 1) : s[i] = c[i]
  OBVIOUS
<1>2. IsPrefix(s, d) <=> h + 1 <= Len(d) /\ SubSeq(s, 1, h + 1) = SubSeq(d, 1, h + 1)
  <2> HIDE DEF s
  <2> QED BY <1>1 DEF IsPrefix
<1>3. SubSeq(s, 1, h + 1) = s
  <2> HIDE DEF s
  <2> QED BY <1>1
<1>4. ASSUME h + 1 <= Len(d)
      PROVE  s = SubSeq(d, 1, h + 1) <=> \A i \in 1..(h + 1) : c[i] = d[i]
  <2>1. /\ SubSeq(d, 1, h + 1) \in Seq(Known)
        /\ Len(SubSeq(d, 1, h + 1)) = h + 1
        /\ \A i \in 1..(h + 1) : SubSeq(d, 1, h + 1)[i] = d[i]
    BY <1>4
  <2> DEFINE t == SubSeq(d, 1, h + 1)
  <2> HIDE DEF s, t
  <2>2. s = t <=> \A i \in 1..(h + 1) : s[i] = t[i]
    BY <1>1, <2>1 DEF t
  <2> QED
    BY <1>1, <2>1, <2>2 DEF t
<1> QED
  BY <1>2, <1>3, <1>4

\* Two linked chains agree up to their fork point.
LEMMA AgreeUpToForkPoint ==
    ASSUME NEW c, NEW d, Linked(c), Linked(d)
    PROVE  /\ ForkPoint(c, d) \in 0..(Len(c) - 1)
           /\ ForkPoint(c, d) + 1 <= Len(d)
           /\ \A i \in 1..(ForkPoint(c, d) + 1) : c[i] = d[i]
<1> DEFINE common(h) == IsPrefix(SubSeq(c, 1, h + 1), d)
           T == {h \in 0..(Len(c) - 1) : common(h)}
<1>1. /\ c \in Seq(Known) /\ d \in Seq(Known)
      /\ Len(c) \in Nat \ {0} /\ Len(d) \in Nat \ {0}
      /\ c[1] = d[1]
  BY DEF Linked
<1>2. 0 \in T
  BY <1>1, CommonPrefix
<1>3. PICK h \in T : \A k \in T : k <= h
  <2>1. T \in SUBSET (0..(Len(c) - 1)) /\ Len(c) - 1 \in Nat
    BY <1>1
  <2> HIDE DEF T
  <2> QED BY <1>2, <2>1, GreatestBelow
<1>4. /\ h \in 0..(Len(c) - 1) /\ common(h)
      /\ h + 1 < Len(c) /\ h + 1 < Len(d) => c[h + 2] # d[h + 2]
  <2>1. ASSUME h + 1 < Len(c), h + 1 < Len(d), c[h + 2] = d[h + 2]
        PROVE  FALSE
    <3>1. \A i \in 1..(h + 1) : c[i] = d[i]
      BY <1>1, CommonPrefix
    <3>2. h + 1 \in 0..(Len(c) - 1) /\ \A i \in 1..(h + 2) : c[i] = d[i]
      BY <1>1, <2>1, <3>1
    <3>3. common(h + 1)
      BY <1>1, <2>1, <3>2, CommonPrefix
    <3> QED
      BY <1>3, <3>2, <3>3
  <2> QED
    BY <2>1
<1>5. ForkPoint(c, d) \in 0..(Len(c) - 1) /\ common(ForkPoint(c, d))
  BY <1>4 DEF ForkPoint
<1> QED
  BY <1>1, <1>5, CommonPrefix

\* A chain stays linked when a child of its tip is appended.
LEMMA AppendLinked ==
    ASSUME NEW c, Linked(c), NEW b \in Block, Parent[b] = Last(c)
    PROVE  Linked(Append(c, b))
<1> DEFINE d == Append(c, b)
<1>1. c \in Seq(Known) /\ Len(c) \in Nat \ {0} /\ c[1] = Genesis /\ b \in Known
  BY DEF Linked, Known
<1>2. /\ d \in Seq(Known) \ {<<>>} /\ Len(d) = Len(c) + 1
      /\ d[Len(d)] = b
      /\ \A i \in 1..Len(c) : d[i] = c[i]
  BY <1>1
<1>3. \A i \in 2..Len(d) : d[i] \in Block /\ Parent[d[i]] = d[i - 1]
  <2> SUFFICES ASSUME NEW i \in 2..Len(d)
               PROVE  d[i] \in Block /\ Parent[d[i]] = d[i - 1]
    OBVIOUS
  <2> HIDE DEF d
  <2>1. CASE i = Len(d)
    BY <2>1, <1>1, <1>2 DEF Last
  <2>2. CASE i # Len(d)
    <3>1. i \in 2..Len(c) /\ i - 1 \in 1..Len(c)
      BY <2>2, <1>1, <1>2
    <3> QED
      BY <3>1, <1>2, LinkedBlock
  <2> QED
    BY <2>1, <2>2
<1> QED
  BY <1>1, <1>2, <1>3 DEF Linked

\* Every branch of the tree is linked: the blocks on the way from genesis to a
\* block are each the parent of the next.
LEMMA BranchesAreLinked == \A c \in Branches : Linked(c)
<1> DEFINE Bad == {b \in Known : ~ Linked(Path[b])}
           T == {Len(Path[b]) : b \in Bad}
<1>1. \A b \in Known : Path[b] \in Seq(Known) /\ Len(Path[b]) \in Nat
  BY TreeIsWellFormed DEF TreeIsWellFormed
<1>2. SUFFICES ASSUME Bad # {} PROVE FALSE
  BY DEF Branches
<1>3. PICK b \in Bad : \A d \in Bad : Len(Path[b]) <= Len(Path[d])
  <2>1. T \in SUBSET Nat /\ T # {}
    BY <1>1, <1>2
  <2>2. PICK n \in T : \A m \in T : n <= m
    <3> HIDE DEF T
    <3> QED BY <2>1, LeastNatural
  <2> QED
    BY <2>2
<1>4. b # Genesis
  <2>1. Linked(<<Genesis>>)
    BY DEF Linked, Known
  <2> QED
    BY <2>1, TreeIsWellFormed DEF TreeIsWellFormed
<1>5. b \in Block /\ Parent[b] \in Known /\ Path[b] = Append(Path[Parent[b]], b)
  BY <1>4, TreeIsWellFormed DEF TreeIsWellFormed, Known
<1>6. Len(Path[b]) = Len(Path[Parent[b]]) + 1
  BY <1>1, <1>5
<1>7. Linked(Path[Parent[b]])
  <2>1. Parent[b] \notin Bad
    BY <1>1, <1>3, <1>5, <1>6
  <2> QED
    BY <1>5, <2>1
<1>8. Last(Path[Parent[b]]) = Parent[b]
  <2>1. CASE Parent[b] = Genesis
    BY <2>1, TreeIsWellFormed DEF TreeIsWellFormed, Last
  <2>2. CASE Parent[b] \in Block
    <3> DEFINE p == Parent[b]
               s == Path[Parent[p]]
    <3>1. s \in Seq(Known) /\ p \in Known /\ Path[p] = Append(s, p)
      BY <2>2, TreeIsWellFormed DEF TreeIsWellFormed, Known
    <3> HIDE DEF s, p
    <3>2. Last(Path[p]) = p
      BY <3>1 DEF Last
    <3> QED
      BY <3>2 DEF p
  <2> QED
    BY <1>5, <2>1, <2>2 DEF Known
<1>9. Linked(Path[b])
  BY <1>5, <1>7, <1>8, AppendLinked
<1> QED
  BY <1>3, <1>9

-----------------------------------------------------------------------------
(* Reading the block files                                                 *)

Levels == Heights \cup {0}
Lines == Seq(Known \cup {NoBlock})

LEMMA LevelsAreNatural == Levels \subseteq Nat /\ \A b \in Known : Height[b] \in Levels
<1>1. \A b \in Block : Height[b] \in Nat /\ Height[b] \in Heights
  BY HeightOfChild DEF Heights
<1> QED
  BY <1>1, HeightOfGenesis DEF Levels, Heights, Known

\* What LatestAt returns: nothing where no line has the height, else the last
\* of the lines that do.
LEMMA LatestLine ==
    ASSUME NEW l \in Lines, NEW h
    PROVE  \/ LinesAt(l, h) = {} /\ LatestAt(l, h) = NoBlock
           \/ \E i \in LinesAt(l, h) :
                 LatestAt(l, h) = l[i] /\ \A j \in LinesAt(l, h) : j <= i
<1> SUFFICES ASSUME LinesAt(l, h) # {}
             PROVE  \E i \in LinesAt(l, h) :
                        LatestAt(l, h) = l[i] /\ \A j \in LinesAt(l, h) : j <= i
  BY DEF LatestAt
<1> DEFINE at == LinesAt(l, h)
<1>1. at \in SUBSET (0..Len(l)) /\ Len(l) \in Nat
  BY DEF LinesAt, Lines
<1>2. PICK i \in at : \A j \in at : j <= i
  <2> HIDE DEF at
  <2> QED BY <1>1, GreatestBelow DEF at
<1>3. \A i_1 \in at, j \in at : (i_1 >= j) <=> (j <= i_1)
  BY <1>1
<1>4. Max(at) \in at /\ \A j \in at : j <= Max(at)
  <2> HIDE DEF at
  <2>1. \E m \in at : \A j \in at : m >= j
    BY <1>2, <1>3
  <2>2. Max(at) \in at /\ \A j \in at : Max(at) >= j
    BY <2>1 DEF Max
  <2> QED
    BY <2>2, <1>3
<1> QED
  BY <1>4 DEF LatestAt

\* A block that is read at a height has that height.
LEMMA LatestHasHeight ==
    ASSUME NEW l \in Lines, NEW h, LatestAt(l, h) # NoBlock
    PROVE  /\ LatestAt(l, h) \in Known
           /\ Height[LatestAt(l, h)] = h
           /\ h \in Levels
<1>1. PICK i \in LinesAt(l, h) : LatestAt(l, h) = l[i]
  BY LatestLine
<1>2. i \in 1..Len(l) /\ l[i] # NoBlock /\ Height[l[i]] = h
  BY <1>1 DEF LinesAt, Lines
<1>3. l[i] \in Known
  BY <1>2 DEF Lines
<1> QED
  BY <1>1, <1>2, <1>3, LevelsAreNatural

\* A line that is appended is the latest of its height, and of no other.
LEMMA LatestAfterAppend ==
    ASSUME NEW l \in Lines, NEW b \in Known, NEW h
    PROVE  LatestAt(Append(l, b), h) = IF Height[b] = h THEN b ELSE LatestAt(l, h)
<1> DEFINE k == Append(l, b)
           n == Len(l) + 1
<1>1. /\ k \in Lines /\ Len(k) = n /\ Len(l) \in Nat
      /\ k[n] = b /\ \A i \in 1..Len(l) : k[i] = l[i]
  BY DEF Lines
<1>2. b # NoBlock
  BY TreeIsWellFormed DEF TreeIsWellFormed
<1> HIDE DEF k
<1>3. DOMAIN k = 1..n /\ DOMAIN l = 1..Len(l)
  BY <1>1 DEF Lines
<1>4. LinesAt(k, h) = IF Height[b] = h THEN LinesAt(l, h) \cup {n} ELSE LinesAt(l, h)
  <2>1. \A i : i \in LinesAt(k, h) <=> \/ i \in LinesAt(l, h)
                                       \/ i = n /\ Height[b] = h
    BY <1>1, <1>2, <1>3 DEF LinesAt
  <2> QED
    BY <2>1
<1>5. \A i \in LinesAt(l, h) : i \in 1..Len(l)
  BY <1>3 DEF LinesAt
<1>6. CASE Height[b] = h
  <2>1. PICK i \in LinesAt(k, h) : /\ LatestAt(k, h) = k[i]
                                   /\ \A j \in LinesAt(k, h) : j <= i
    BY <1>1, <1>4, <1>6, LatestLine
  <2>2. n \in LinesAt(k, h)
    BY <1>4, <1>6
  <2>3. i = n
    BY <1>1, <1>3, <2>1, <2>2 DEF LinesAt
  <2> QED
    BY <1>1, <1>6, <2>1, <2>3 DEF k
<1>7. CASE Height[b] # h
  <2>1. LinesAt(k, h) = LinesAt(l, h)
    BY <1>4, <1>7
  <2>2. CASE LinesAt(l, h) = {}
    BY <1>7, <2>1, <2>2 DEF LatestAt, k
  <2>3. CASE LinesAt(l, h) # {}
    <3>1. PICK i \in LinesAt(l, h) : /\ LatestAt(l, h) = l[i]
                                     /\ \A j \in LinesAt(l, h) : j <= i
      BY <2>3, LatestLine
    <3>2. PICK j \in LinesAt(k, h) : /\ LatestAt(k, h) = k[j]
                                     /\ \A m \in LinesAt(k, h) : m <= j
      BY <1>1, <2>1, <2>3, LatestLine
    <3>3. i = j
      <4>1. i <= j /\ j <= i
        BY <2>1, <3>1, <3>2
      <4>2. i \in Nat /\ j \in Nat
        BY <1>1, <1>5, <2>1, <3>1, <3>2
      <4> QED
        BY <4>1, <4>2
    <3>4. k[j] = l[i]
      BY <1>1, <1>5, <3>1, <3>3
    <3> QED
      BY <1>7, <3>1, <3>2, <3>4 DEF k
  <2> QED
    BY <2>2, <2>3
<1> QED
  BY <1>6, <1>7

HeightsWithin(l, n, top) == \A i \in 1..n : l[i] # NoBlock => Height[l[i]] <= top
Bounded(l, n) == \E top \in Nat : HeightsWithin(l, n, top)

\* The heights of the lines are bounded, whatever the height of the tree.
LEMMA HeightsAreBounded ==
    ASSUME NEW l \in Lines
    PROVE  \E top \in Nat : \A h \in Levels : LatestAt(l, h) # NoBlock => h <= top
<1> DEFINE T == {n \in 0..Len(l) : ~ Bounded(l, n)}
<1>1. Len(l) \in Nat /\ \A i \in 1..Len(l) : l[i] \in Known \cup {NoBlock}
  BY DEF Lines
<1>2. T = {}
  <2> SUFFICES ASSUME T # {} PROVE FALSE
    OBVIOUS
  <2>1. PICK n \in T : \A m \in T : n <= m
    <3>1. T \in SUBSET Nat
      BY <1>1
    <3> HIDE DEF T
    <3> QED BY <3>1, LeastNatural
  <2>2. n # 0
    <3>1. HeightsWithin(l, 0, 0)
      BY DEF HeightsWithin
    <3> QED
      BY <3>1, <2>1 DEF Bounded
  <2>3. n - 1 \in 0..Len(l) /\ n - 1 \notin T /\ n \in 1..Len(l)
    BY <1>1, <2>1, <2>2
  <2>4. PICK top \in Nat : HeightsWithin(l, n - 1, top)
    BY <2>3 DEF Bounded
  <2>5. PICK higher \in Nat : top <= higher /\ (l[n] # NoBlock => Height[l[n]] <= higher)
    <3> DEFINE higher == IF l[n] = NoBlock \/ Height[l[n]] <= top THEN top ELSE Height[l[n]]
    <3>1. l[n] # NoBlock => Height[l[n]] \in Nat
      BY <1>1, <2>3, LevelsAreNatural
    <3>2. higher \in Nat /\ top <= higher /\ (l[n] # NoBlock => Height[l[n]] <= higher)
      BY <3>1, <2>4
    <3> HIDE DEF higher
    <3> QED
      BY <3>2
  <2>6. HeightsWithin(l, n, higher)
    <3> SUFFICES ASSUME NEW i \in 1..n, l[i] # NoBlock
                 PROVE  Height[l[i]] <= higher
      BY DEF HeightsWithin
    <3> HIDE DEF T
    <3>1. Height[l[i]] \in Nat
      <4>1. i \in 1..Len(l)
        BY <1>1, <2>3
      <4>2. l[i] \in Known
        BY <4>1, <1>1
      <4> QED
        BY <4>2, LevelsAreNatural
    <3>2. CASE i = n
      BY <3>2, <2>5
    <3>3. CASE i # n
      <4>1. i \in 1..(n - 1)
        BY <2>3, <3>3
      <4> QED
        BY <4>1, <3>1, <2>4, <2>5 DEF HeightsWithin
    <3> QED
      BY <3>2, <3>3
  <2> QED
    BY <2>1, <2>6 DEF Bounded
<1>3. PICK top \in Nat : HeightsWithin(l, Len(l), top)
  BY <1>1, <1>2 DEF Bounded
<1>4. ASSUME NEW h \in Levels, LatestAt(l, h) # NoBlock
      PROVE  h <= top
  <2>1. PICK i \in LinesAt(l, h) : LatestAt(l, h) = l[i]
    BY <1>4, LatestLine
  <2>2. i \in 1..Len(l) /\ l[i] # NoBlock /\ Height[l[i]] = h
    BY <2>1, <1>1 DEF LinesAt, Lines
  <2> QED
    BY <2>2, <1>3 DEF HeightsWithin
<1> QED
  BY <1>4

IsListing(f, n, K) ==
    /\ f \in [1..n -> K]
    /\ \A i, j \in 1..n : i < j => f[i] < f[j]
    /\ \A h \in K : \E i \in 1..n : f[i] = h
Listed(K) == \E n \in Nat : \E f : IsListing(f, n, K)

\* The heights of a bounded set can be listed in ascending order, and
\* Ascending is such a list: it names each of them once.
LEMMA BoundedSetIsListed ==
    ASSUME NEW H \in SUBSET Nat, NEW top \in Nat, \A h \in H : h <= top
    PROVE  Listed(H)
<1> DEFINE Below(m) == {h \in H : h < m}
           T == {m \in Nat : ~ Listed(Below(m))}
<1>0. \A h \in H : h \in Nat /\ ~ (h < 0) /\ h < top + 1
  OBVIOUS
<1>1. Below(0) = {}
  BY <1>0
<1>2. Listed({})
  <2>1. [i \in 1..0 |-> 0] \in [1..0 -> {}]
    OBVIOUS
  <2> DEFINE f == [i \in 1..0 |-> 0]
  <2>2. IsListing(f, 0, {})
    BY <2>1 DEF IsListing
  <2> QED
    BY <2>2 DEF Listed
<1>3. ASSUME NEW m \in Nat \ {0}, Listed(Below(m - 1))
      PROVE  Listed(Below(m))
  <2>1. PICK n \in Nat : \E f : IsListing(f, n, Below(m - 1))
    BY <1>3 DEF Listed
  <2>2. PICK f : IsListing(f, n, Below(m - 1))
    BY <2>1
  <2>3. CASE m - 1 \notin H
    <3>1. \A h \in H : h < m <=> h < m - 1
      BY <2>3
    <3>2. Below(m) = Below(m - 1)
      BY <3>1
    <3> QED
      BY <3>2, <1>3
  <2>4. CASE m - 1 \in H
    <3> DEFINE g == [i \in 1..(n + 1) |-> IF i = n + 1 THEN m - 1 ELSE f[i]]
    <3>1. \A h \in H : h < m <=> h < m - 1 \/ h = m - 1
      OBVIOUS
    <3>2. \A h : h \in Below(m) <=> h \in Below(m - 1) \/ h = m - 1
      BY <3>1, <2>4
    <3>3. \A h \in Below(m - 1) : h \in Nat /\ h < m - 1
      OBVIOUS
    <3> HIDE DEF Below
    <3>4. \A i \in 1..n : f[i] \in Below(m - 1)
      BY <2>2 DEF IsListing
    <3>5. \A i \in 1..n : g[i] = f[i]
      BY <2>1
    <3>6. g[n + 1] = m - 1 /\ n + 1 \in 1..(n + 1)
      BY <2>1
    <3>7. \A i \in 1..(n + 1) : g[i] \in Below(m)
      BY <3>2, <3>4, <2>1
    <3>8. g \in [1..(n + 1) -> Below(m)]
      BY <3>7
    <3> HIDE DEF g
    <3>9. \A i, j \in 1..(n + 1) : i < j => g[i] < g[j]
      <4> SUFFICES ASSUME NEW i \in 1..(n + 1), NEW j \in 1..(n + 1), i < j
                   PROVE  g[i] < g[j]
        OBVIOUS
      <4>1. i \in 1..n
        BY <2>1
      <4>2. CASE j = n + 1
        BY <4>1, <4>2, <3>3, <3>4, <3>5, <3>6
      <4>3. CASE j # n + 1
        <5>1. j \in 1..n
          BY <4>3, <2>1
        <5> QED
          BY <5>1, <4>1, <3>5, <2>2 DEF IsListing
      <4> QED
        BY <4>2, <4>3
    <3>10. \A h \in Below(m) : \E i \in 1..(n + 1) : g[i] = h
      <4> SUFFICES ASSUME NEW h \in Below(m)
                   PROVE  \E i \in 1..(n + 1) : g[i] = h
        OBVIOUS
      <4>1. CASE h = m - 1
        BY <4>1, <3>6
      <4>2. CASE h # m - 1
        <5>1. PICK i \in 1..n : f[i] = h
          BY <4>2, <3>2, <2>2 DEF IsListing
        <5>2. i \in 1..(n + 1)
          BY <2>1
        <5> QED
          BY <5>1, <5>2, <3>5
      <4> QED
        BY <4>1, <4>2
    <3>11. IsListing(g, n + 1, Below(m))
      BY <3>8, <3>9, <3>10 DEF IsListing
    <3> QED
      BY <3>11, <2>1 DEF Listed
  <2> QED
    BY <2>3, <2>4
<1>4. H = Below(top + 1)
  BY <1>0
<1> HIDE DEF Below
<1>5. T = {}
  <2> SUFFICES ASSUME T # {} PROVE FALSE
    OBVIOUS
  <2>1. PICK m \in T : \A k \in T : m <= k
    <3>1. T \in SUBSET Nat
      OBVIOUS
    <3> HIDE DEF T
    <3> QED BY <3>1, LeastNatural
  <2>2. m \in Nat \ {0}
    BY <2>1, <1>1, <1>2
  <2>3. m - 1 \in Nat /\ m - 1 \notin T
    BY <2>1, <2>2
  <2> QED
    BY <2>1, <2>2, <2>3, <1>3
<1> QED
  BY <1>4, <1>5

\* A list in ascending order names every member once, so it is as long as the
\* set is large.
LEMMA ListingIsBijection ==
    ASSUME NEW H \in SUBSET Nat, NEW n \in Nat, NEW f, IsListing(f, n, H)
    PROVE  IsFiniteSet(H) /\ Cardinality(H) = n
<1>1. \A i, j \in 1..n : f[i] = f[j] => i = j
  <2> SUFFICES ASSUME NEW i \in 1..n, NEW j \in 1..n, f[i] = f[j], i # j
               PROVE  FALSE
    OBVIOUS
  <2>1. f[i] \in Nat /\ f[j] \in Nat
    BY DEF IsListing
  <2>2. i < j \/ j < i
    OBVIOUS
  <2> QED
    BY <2>1, <2>2 DEF IsListing
<1>2. f \in [1..n -> H] /\ \A h \in H : \E i \in 1..n : f[i] = h
  BY DEF IsListing
<1>3. IsInjective(f)
  BY <1>1, <1>2 DEF IsInjective
<1>4. f \in Bijection(1..n, H)
  BY <1>2, <1>3 DEF Bijection, Injection, Surjection
<1>5. ExistsBijection(1..n, H)
  BY <1>4 DEF ExistsBijection
<1>6. IsFiniteSet(1..n) /\ Cardinality(1..n) = n
  BY FS_Interval
<1> QED
  BY <1>5, <1>6, FS_Bijection

\* The heights of a bounded set can be listed in ascending order, and
\* Ascending is such a list.
LEMMA AscendingLists ==
    ASSUME NEW H \in SUBSET Nat, NEW top \in Nat, \A h \in H : h <= top
    PROVE  \E n \in Nat : IsListing(Ascending(H), n, H)
<1>1. PICK n \in Nat : \E f : IsListing(f, n, H)
  BY BoundedSetIsListed DEF Listed
<1>2. PICK f : IsListing(f, n, H)
  BY <1>1
<1>3. IsFiniteSet(H) /\ Cardinality(H) = n
  BY <1>2, ListingIsBijection
<1> DEFINE a == Ascending(H)
<1>4. a \in [1..n -> H] /\ \A i, j \in 1..n : i < j => a[i] < a[j]
  <2>1. /\ f \in [1..Cardinality(H) -> H]
        /\ \A i, j \in DOMAIN f : i < j => f[i] < f[j]
    BY <1>2, <1>3 DEF IsListing
  <2>2. /\ a \in [1..Cardinality(H) -> H]
        /\ \A i, j \in DOMAIN a : i < j => a[i] < a[j]
    BY <2>1 DEF Ascending
  <2> HIDE DEF a
  <2> QED
    BY <2>2, <1>3
<1> HIDE DEF a
<1>5. \A i, j \in 1..n : a[i] = a[j] => i = j
  <2> SUFFICES ASSUME NEW i \in 1..n, NEW j \in 1..n, a[i] = a[j], i # j
               PROVE  FALSE
    OBVIOUS
  <2>1. a[i] \in Nat /\ a[j] \in Nat
    BY <1>4
  <2>2. i < j \/ j < i
    OBVIOUS
  <2> QED
    BY <2>1, <2>2, <1>4
<1>6. a \in Injection(1..n, H)
  <2>1. IsInjective(a)
    BY <1>4, <1>5 DEF IsInjective
  <2> QED
    BY <2>1, <1>4 DEF Injection
<1>7. Cardinality(1..n) = Cardinality(H)
  BY <1>3, FS_Interval
<1>8. a \in Surjection(1..n, H)
  BY <1>3, <1>6, <1>7, FS_Injection
<1>9. \A h \in H : \E i \in 1..n : a[i] = h
  BY <1>8 DEF Surjection
<1> QED
  BY <1>4, <1>9 DEF IsListing, a

-----------------------------------------------------------------------------
(* What the loaders make of the block files                                *)

Found(l) == {h \in Levels : LatestAt(l, h) # NoBlock}

LEMMA LoadedChainLists ==
    ASSUME NEW l \in Lines, NoBlock \notin ToSet(l)
    PROVE  \E n \in Nat : \E f :
              /\ IsListing(f, n, Found(l))
              /\ LoadedChain(l) = [i \in 1..n |-> LatestAt(l, f[i])]
<1>1. PICK top \in Nat : \A h \in Levels : LatestAt(l, h) # NoBlock => h <= top
  BY HeightsAreBounded
<1>2. Found(l) \in SUBSET Nat /\ \A h \in Found(l) : h <= top
  BY <1>1, LevelsAreNatural DEF Found
<1> DEFINE f == Ascending(Found(l))
<1>3. PICK n \in Nat : IsListing(f, n, Found(l))
  BY <1>2, AscendingLists
<1>4. DOMAIN f = 1..n
  <2> HIDE DEF f
  <2> QED BY <1>3 DEF IsListing
<1>5. LoadedChain(l) = [i \in DOMAIN f |-> LatestAt(l, f[i])]
  BY DEF LoadedChain, Found, Levels
<1> HIDE DEF f
<1> QED
  BY <1>3, <1>4, <1>5

LEMMA LoadedChainTyped ==
    ASSUME NEW l \in Lines
    PROVE  LoadedChain(l) \in Seq(Known)
<1>1. CASE NoBlock \in ToSet(l)
  BY <1>1 DEF LoadedChain
<1>2. CASE NoBlock \notin ToSet(l)
  <2>1. PICK n \in Nat : \E f :
           /\ IsListing(f, n, Found(l))
           /\ LoadedChain(l) = [i \in 1..n |-> LatestAt(l, f[i])]
    BY <1>2, LoadedChainLists
  <2>2. PICK f : /\ IsListing(f, n, Found(l))
                 /\ LoadedChain(l) = [i \in 1..n |-> LatestAt(l, f[i])]
    BY <2>1
  <2>3. \A i \in 1..n : LatestAt(l, f[i]) \in Known
    <3>1. \A i \in 1..n : f[i] \in Found(l)
      BY <2>2 DEF IsListing
    <3> QED
      BY <3>1, LatestHasHeight DEF Found
  <2> QED
    BY <2>2, <2>3
<1> QED
  BY <1>1, <1>2

\* The lines l hold the blocks of c below height n, and none above c.
Written(l, c, n) ==
    /\ l \in Seq(Known)
    /\ \A h \in Levels : /\ h < n => LatestAt(l, h) = c[h + 1]
                         /\ h >= Len(c) => LatestAt(l, h) = NoBlock

LEMMA WrittenLines ==
    ASSUME NEW l, NEW c, NEW n, Written(l, c, n)
    PROVE  l \in Lines /\ NoBlock \notin ToSet(l)
<1>1. l \in Seq(Known) /\ \A i \in 1..Len(l) : l[i] \in Known
  BY DEF Written
<1>2. DOMAIN l = 1..Len(l)
  BY <1>1
<1> QED
  BY <1>1, <1>2, TreeIsWellFormed DEF Lines, ToSet, TreeIsWellFormed

\* If the loader yields a linked chain, the files hold that chain.
LEMMA LoadedIsWritten ==
    ASSUME NEW l \in Lines, NEW c, Linked(c), LoadedChain(l) = c
    PROVE  Written(l, c, Len(c))
<1>1. c \in Seq(Known) \ {<<>>} /\ Len(c) \in Nat
  BY DEF Linked
<1>2. NoBlock \notin ToSet(l)
  BY <1>1 DEF LoadedChain
<1>3. PICK n \in Nat : \E f :
         /\ IsListing(f, n, Found(l))
         /\ LoadedChain(l) = [i \in 1..n |-> LatestAt(l, f[i])]
  BY <1>2, LoadedChainLists
<1>4. PICK f : /\ IsListing(f, n, Found(l))
               /\ LoadedChain(l) = [i \in 1..n |-> LatestAt(l, f[i])]
  BY <1>3
<1>5. Len(c) = n /\ \A i \in 1..n : c[i] = LatestAt(l, f[i])
  BY <1>1, <1>4
<1>6. \A i \in 1..n : f[i] \in Found(l)
  BY <1>4 DEF IsListing
<1>7. \A i \in 1..n : f[i] = i - 1
  BY <1>5, <1>6, LatestHasHeight, LinkedHeights DEF Found
<1>8. l \in Seq(Known)
  <2>1. \A i \in 1..Len(l) : l[i] \in Known
    <3>1. \A i \in 1..Len(l) : l[i] \in Known \cup {NoBlock} /\ i \in DOMAIN l
      BY DEF Lines
    <3> QED
      BY <3>1, <1>2 DEF ToSet
  <2> QED
    BY <2>1 DEF Lines
<1>9. ASSUME NEW h \in Levels, h < Len(c)
      PROVE  LatestAt(l, h) = c[h + 1]
  <2>1. h + 1 \in 1..n /\ (h + 1) - 1 = h
    BY <1>9, <1>5, LevelsAreNatural
  <2> QED
    BY <2>1, <1>5, <1>7
<1>10. ASSUME NEW h \in Levels, h >= Len(c), LatestAt(l, h) # NoBlock
       PROVE  FALSE
  <2>1. PICK i \in 1..n : f[i] = h
    BY <1>10, <1>4 DEF IsListing, Found
  <2> QED
    BY <2>1, <1>5, <1>7, <1>10, LevelsAreNatural
<1> QED
  BY <1>8, <1>9, <1>10 DEF Written

\* A chain below whose tip nothing is missing in the files, and above which
\* there is nothing, is what the loader yields.
LEMMA WrittenIsLoaded ==
    ASSUME NEW l, NEW c, Linked(c), Written(l, c, Len(c))
    PROVE  LoadedChain(l) = c
<1>1. l \in Lines /\ NoBlock \notin ToSet(l)
  BY WrittenLines
<1>2. /\ c \in Seq(Known) /\ Len(c) \in Nat
      /\ c = [i \in 1..Len(c) |-> c[i]]
      /\ \A i \in 1..Len(c) : c[i] \in Known
  BY DEF Linked
<1>3. PICK n \in Nat : \E f :
         /\ IsListing(f, n, Found(l))
         /\ LoadedChain(l) = [i \in 1..n |-> LatestAt(l, f[i])]
  BY <1>1, LoadedChainLists
<1>4. PICK f : /\ IsListing(f, n, Found(l))
               /\ LoadedChain(l) = [i \in 1..n |-> LatestAt(l, f[i])]
  BY <1>3
<1>5. \A h : h \in Found(l) <=> h \in 0..(Len(c) - 1)
  <2>1. ASSUME NEW h \in Found(l)
        PROVE  h \in 0..(Len(c) - 1)
    <3>1. h \in Nat /\ ~ (h >= Len(c))
      BY LevelsAreNatural DEF Found, Written
    <3> QED
      BY <3>1, <1>2
  <2>2. ASSUME NEW h \in 0..(Len(c) - 1)
        PROVE  h \in Found(l)
    <3>1. h + 1 \in 1..Len(c) /\ (h + 1) - 1 = h /\ h < Len(c)
      BY <1>2
    <3>2. Height[c[h + 1]] = h /\ c[h + 1] \in Known
      BY <3>1, <1>2, LinkedHeights
    <3>3. h \in Levels /\ LatestAt(l, h) = c[h + 1]
      BY <3>1, <3>2, LevelsAreNatural DEF Written
    <3> QED
      BY <3>2, <3>3, TreeIsWellFormed DEF Found, TreeIsWellFormed
  <2> QED
    BY <2>1, <2>2
<1>6. \A i \in 1..n : f[i] \in 0..(Len(c) - 1)
  BY <1>4, <1>5 DEF IsListing
<1>7. \A h \in 0..(Len(c) - 1) : \E i \in 1..n : f[i] = h
  BY <1>4, <1>5 DEF IsListing
<1>8. \A i, j \in 1..n : i < j => f[i] < f[j]
  BY <1>4 DEF IsListing
<1>9. \A i \in 1..n : f[i] = i - 1
  <2> DEFINE T == {i \in 1..n : f[i] # i - 1}
  <2> SUFFICES ASSUME T # {} PROVE FALSE
    OBVIOUS
  <2>1. PICK i \in T : \A j \in T : i <= j
    <3>1. T \in SUBSET Nat
      OBVIOUS
    <3> HIDE DEF T
    <3> QED BY <3>1, LeastNatural
  <2>2. i \in 1..n /\ f[i] # i - 1 /\ \A j \in 1..n : j < i => f[j] = j - 1
    BY <2>1
  <2> HIDE DEF T
  <2>3. f[i] > i - 1
    <3>1. CASE i = 1
      BY <3>1, <2>2, <1>6
    <3>2. CASE i # 1
      <4>1. i - 1 \in 1..n /\ i - 1 < i /\ f[i - 1] = i - 2
        BY <3>2, <2>2
      <4>2. i - 2 < f[i]
        BY <4>1, <2>2, <1>8
      <4>3. f[i] \in Int /\ i \in Int
        BY <2>2, <1>6
      <4> QED
        BY <4>2, <4>3, <2>2
    <3> QED
      BY <3>1, <3>2
  <2>4. i - 1 \in 0..(Len(c) - 1)
    BY <2>2, <2>3, <1>2, <1>6
  <2>5. PICK j \in 1..n : f[j] = i - 1
    BY <2>4, <1>7
  <2>6. CASE j < i
    BY <2>6, <2>2, <2>5
  <2>7. CASE j = i
    BY <2>7, <2>2, <2>5
  <2>8. CASE i < j
    <3>1. f[i] < f[j] /\ f[i] \in Int /\ f[j] \in Int
      BY <2>8, <2>2, <1>8, <1>6
    <3> QED
      BY <3>1, <2>3, <2>5, <2>2
  <2> QED
    BY <2>2, <2>6, <2>7, <2>8
<1>10. n = Len(c)
  <2>1. n <= Len(c)
    <3>1. CASE n = 0
      BY <3>1, <1>2
    <3>2. CASE n # 0
      <4>1. n \in 1..n
        BY <3>2
      <4>2. n - 1 \in 0..(Len(c) - 1)
        BY <4>1, <1>6, <1>9
      <4> QED
        BY <4>2, <1>2
    <3> QED
      BY <3>1, <3>2
  <2>2. Len(c) <= n
    <3>1. CASE Len(c) = 0
      BY <3>1
    <3>2. CASE Len(c) # 0
      <4>0. Len(c) - 1 \in 0..(Len(c) - 1)
        BY <3>2, <1>2
      <4>1. PICK i \in 1..n : f[i] = Len(c) - 1
        BY <4>0, <1>7
      <4> QED
        BY <4>1, <1>9, <1>2
    <3> QED
      BY <3>1, <3>2
  <2> QED
    BY <2>1, <2>2, <1>2
<1>11. \A i \in 1..n : LatestAt(l, f[i]) = c[i]
  <2> SUFFICES ASSUME NEW i \in 1..n
               PROVE  LatestAt(l, f[i]) = c[i]
    OBVIOUS
  <2>1. f[i] = i - 1 /\ f[i] < Len(c) /\ f[i] + 1 = i
    BY <1>9, <1>10
  <2>2. f[i] \in Levels
    BY <1>4 DEF IsListing, Found
  <2> QED
    BY <2>1, <2>2 DEF Written
<1> QED
  BY <1>2, <1>4, <1>10, <1>11

\* Whether fast recovery goes on with the block at height i.
Follows(l, i) == LatestAt(l, i) # NoBlock /\ Parent[LatestAt(l, i)] = LatestAt(l, i - 1)

LEMMA FastChainReads ==
    ASSUME NEW l \in Lines, NEW h \in Levels
    PROVE  \E m \in Levels :
              /\ m >= h
              /\ ~ Follows(l, m + 1)
              /\ \A i \in Levels : i >= h /\ i < m => Follows(l, i + 1)
              /\ FastChain(l, h) = BlocksUpTo(l, m)
<1> DEFINE stops == {i \in Levels : i >= h /\ ~ Follows(l, i + 1)}
<1>1. PICK top \in Nat : \A i \in Levels : LatestAt(l, i) # NoBlock => i <= top
  BY HeightsAreBounded
<1>2. stops # {}
  <2> SUFFICES ASSUME \A i \in Levels : i >= h => Follows(l, i + 1)
               PROVE  FALSE
    OBVIOUS
  <2> DEFINE T == {i \in Levels : i >= h /\ i <= top + h}
  <2>0. h \in Nat /\ \A i \in Levels : i \in Nat
    BY LevelsAreNatural
  <2>1. h \in T /\ T \subseteq 0..(top + h) /\ top + h \in Nat
    <3>1. h >= h /\ h <= top + h /\ top + h \in Nat
      BY <2>0
    <3>2. \A i \in T : i \in 0..(top + h)
      BY <2>0
    <3> QED
      BY <3>1, <3>2
  <2>2. PICK i \in T : \A j \in T : j <= i
    <3> HIDE DEF T
    <3> QED BY <2>1, GreatestBelow
  <2>3. i \in Levels /\ i \in Nat /\ i >= h
    BY <2>2, LevelsAreNatural
  <2>4. LatestAt(l, i + 1) # NoBlock
    BY <2>3 DEF Follows
  <2>5. i + 1 \in Levels /\ i + 1 <= top
    BY <2>4, LatestHasHeight, <1>1
  <2>6. i + 1 \in T
    BY <2>0, <2>3, <2>5
  <2> QED
    BY <2>2, <2>3, <2>6
<1>3. Min(stops) \in stops /\ \A i \in stops : Min(stops) <= i
  <2>1. stops \in SUBSET Nat
    BY LevelsAreNatural
  <2> HIDE DEF stops
  <2>2. \E x \in stops : \A y \in stops : x <= y
    BY <1>2, <2>1, LeastNatural
  <2> QED
    BY <2>2 DEF Min
<1>4. FastChain(l, h) = BlocksUpTo(l, Min(stops))
  BY DEF FastChain, Follows, Levels
<1> DEFINE m == Min(stops)
<1>5. m \in Levels /\ m >= h /\ ~ Follows(l, m + 1)
  BY <1>3
<1>6. ASSUME NEW i \in Levels, i >= h, i < m, ~ Follows(l, i + 1)
      PROVE  FALSE
  <2>1. i \in stops
    BY <1>6
  <2>2. m <= i
    BY <2>1, <1>3
  <2>3. i \in Nat /\ m \in Nat
    BY <1>5, LevelsAreNatural
  <2> HIDE DEF m
  <2> QED
    BY <2>2, <2>3, <1>6
<1> HIDE DEF m
<1> QED
  BY <1>4, <1>5, <1>6 DEF m

LEMMA FastChainTyped ==
    ASSUME NEW l \in Lines, NEW h \in Levels, \A i \in 0..h : LatestAt(l, i) # NoBlock
    PROVE  FastChain(l, h) \in Seq(Known) \ {<<>>}
<1>1. PICK m \in Levels :
         /\ m >= h
         /\ \A i \in Levels : i >= h /\ i < m => Follows(l, i + 1)
         /\ FastChain(l, h) = BlocksUpTo(l, m)
  BY FastChainReads
<1>2. h \in Nat /\ m \in Nat
  BY LevelsAreNatural
<1>3. \A i \in 0..m : LatestAt(l, i) # NoBlock
  <2> DEFINE T == {i \in 0..m : LatestAt(l, i) = NoBlock}
  <2> SUFFICES ASSUME T # {} PROVE FALSE
    OBVIOUS
  <2>1. PICK i \in T : \A j \in T : i <= j
    <3>1. T \in SUBSET Nat
      OBVIOUS
    <3> HIDE DEF T
    <3> QED BY <3>1, LeastNatural
  <2>2. i \in 0..m /\ LatestAt(l, i) = NoBlock /\ ~ (i <= h)
    BY <2>1, <1>2
  <2>3. i - 1 \in 0..m /\ i - 1 \notin T
    BY <2>1, <2>2, <1>2
  <2>4. LatestAt(l, i - 1) # NoBlock
    BY <2>3
  <2>5. i - 1 \in Levels
    BY <2>4, LatestHasHeight
  <2>6. Follows(l, (i - 1) + 1)
    BY <2>2, <2>5, <1>1, <1>2
  <2>7. (i - 1) + 1 = i
    BY <2>2
  <2> QED
    BY <2>2, <2>6, <2>7 DEF Follows
<1>4. \A i \in 1..(m + 1) : LatestAt(l, i - 1) \in Known
  <2> SUFFICES ASSUME NEW i \in 1..(m + 1)
               PROVE  LatestAt(l, i - 1) \in Known
    OBVIOUS
  <2>1. i - 1 \in 0..m
    BY <1>2
  <2> QED
    BY <2>1, <1>3, LatestHasHeight
<1>5. BlocksUpTo(l, m) \in Seq(Known) /\ Len(BlocksUpTo(l, m)) = m + 1
  BY <1>2, <1>4 DEF BlocksUpTo
<1> QED
  BY <1>1, <1>2, <1>5

\* Fast recovery yields the same chain as the full load.
LEMMA WrittenIsReadFast ==
    ASSUME NEW l, NEW c, Linked(c), Written(l, c, Len(c)),
           NEW h \in Levels, h < Len(c)
    PROVE  FastChain(l, h) = c
<1>1. l \in Lines
  BY WrittenLines
<1>2. /\ c \in Seq(Known) /\ Len(c) \in Nat
      /\ c = [i \in 1..Len(c) |-> c[i]]
      /\ \A i \in 1..Len(c) : c[i] \in Known
  BY DEF Linked
<1>3. h \in Nat
  BY LevelsAreNatural
<1>4. PICK m \in Levels :
         /\ m >= h
         /\ ~ Follows(l, m + 1)
         /\ \A i \in Levels : i >= h /\ i < m => Follows(l, i + 1)
         /\ FastChain(l, h) = BlocksUpTo(l, m)
  BY <1>1, FastChainReads
<1>5. m \in Nat
  BY LevelsAreNatural
<1>6. \A i \in 0..(Len(c) - 1) : i \in Levels /\ LatestAt(l, i) = c[i + 1]
  <2> SUFFICES ASSUME NEW i \in 0..(Len(c) - 1)
               PROVE  i \in Levels /\ LatestAt(l, i) = c[i + 1]
    OBVIOUS
  <2>1. i + 1 \in 1..Len(c) /\ (i + 1) - 1 = i /\ i < Len(c)
    BY <1>2
  <2>2. Height[c[i + 1]] = i /\ c[i + 1] \in Known
    BY <2>1, <1>2, LinkedHeights
  <2> QED
    BY <2>1, <2>2, LevelsAreNatural DEF Written
<1>7. ~ Follows(l, Len(c))
  <2> SUFFICES ASSUME LatestAt(l, Len(c)) # NoBlock PROVE FALSE
    BY DEF Follows
  <2>1. Len(c) \in Levels /\ Len(c) >= Len(c)
    BY <1>1, <1>2, LatestHasHeight
  <2> QED
    BY <2>1 DEF Written
<1>8. ~ (m > Len(c) - 1)
  <2> SUFFICES ASSUME m > Len(c) - 1 PROVE FALSE
    OBVIOUS
  <2>1. Len(c) - 1 \in Levels /\ Len(c) - 1 >= h /\ Len(c) - 1 < m
    BY <1>2, <1>3, <1>6
  <2>2. Follows(l, (Len(c) - 1) + 1)
    BY <2>1, <1>4
  <2>3. (Len(c) - 1) + 1 = Len(c)
    BY <1>2
  <2> QED
    BY <2>2, <2>3, <1>7
<1>9. ~ (m < Len(c) - 1)
  <2> SUFFICES ASSUME m < Len(c) - 1 PROVE FALSE
    OBVIOUS
  <2>1. /\ m \in 0..(Len(c) - 1) /\ m + 1 \in 0..(Len(c) - 1)
        /\ (m + 1) + 1 \in 2..Len(c) /\ ((m + 1) + 1) - 1 = m + 1 /\ (m + 1) - 1 = m
    BY <1>2, <1>5
  <2>2. LatestAt(l, m + 1) = c[(m + 1) + 1] /\ LatestAt(l, m) = c[m + 1]
    BY <2>1, <1>6
  <2>3. c[(m + 1) + 1] \in Block /\ Parent[c[(m + 1) + 1]] = c[m + 1]
    BY <2>1, LinkedBlock
  <2>4. NoBlock \notin Block
    BY TreeIsWellFormed DEF TreeIsWellFormed, Known
  <2> QED
    BY <2>1, <2>2, <2>3, <2>4, <1>4 DEF Follows
<1>10. m = Len(c) - 1
  BY <1>2, <1>5, <1>8, <1>9
<1>11. \A i \in 1..Len(c) : LatestAt(l, i - 1) = c[i]
  <2> SUFFICES ASSUME NEW i \in 1..Len(c)
               PROVE  LatestAt(l, i - 1) = c[i]
    OBVIOUS
  <2>1. i - 1 \in 0..(Len(c) - 1) /\ (i - 1) + 1 = i
    BY <1>2
  <2> QED
    BY <2>1, <1>6
<1>12. BlocksUpTo(l, m) = [i \in 1..Len(c) |-> LatestAt(l, i - 1)]
  <2>1. m + 1 = Len(c)
    BY <1>2, <1>10
  <2> QED
    BY <2>1 DEF BlocksUpTo
<1> QED
  BY <1>2, <1>4, <1>11, <1>12

\* The files hold one chain at most.
LEMMA OneChainWritten ==
    ASSUME NEW l, NEW c, NEW d, Linked(c), Linked(d),
           Written(l, c, Len(c)), Written(l, d, Len(d))
    PROVE  c = d
BY WrittenIsLoaded

-----------------------------------------------------------------------------
(* Types                                                                   *)

Running == step \notin {"down", "refused"}

\* A running node has a chain, and so has what a failed save goes back to.
SaveKept ==
    /\ Running => chain # <<>>
    /\ step \in {"idle", "down", "refused"} => save = NoSave
    /\ step \in {"files", "logged"} => save.todo = <<>>
    /\ save.kind \in {"mined", "received", "reorg", "restore"} => save.chain # <<>>

\* There are finitely many checkpoint files, so one of them is the latest.
HasLatest == \E top \in Nat : \A c \in checkpoints : Height[c.block] <= top

StorageTyped == TypeOK /\ SaveKept /\ HasLatest

LEMMA LatestCheckpointIsOne ==
    ASSUME TypeOK, HasLatest
    PROVE  \/ checkpoints = {} /\ LatestCheckpoint = NoCheckpoint
           \/ /\ LatestCheckpoint \in checkpoints
              /\ \A c \in checkpoints : Height[c.block] <= Height[LatestCheckpoint.block]
<1> SUFFICES ASSUME checkpoints # {}
             PROVE  /\ LatestCheckpoint \in checkpoints
                    /\ \A c \in checkpoints : Height[c.block] <= Height[LatestCheckpoint.block]
  BY DEF LatestCheckpoint
<1>1. PICK top \in Nat : \A c \in checkpoints : Height[c.block] <= top
  BY DEF HasLatest
<1> DEFINE T == {Height[c.block] : c \in checkpoints}
<1>2. \A c \in checkpoints : Height[c.block] \in Nat
  BY LevelsAreNatural DEF TypeOK
<1>3. T \in SUBSET (0..top) /\ T # {}
  BY <1>1, <1>2
<1>4. PICK h \in T : \A k \in T : k <= h
  <2> HIDE DEF T
  <2> QED BY <1>1, <1>3, GreatestBelow
<1>5. \E c \in checkpoints : \A d \in checkpoints : Height[d.block] <= Height[c.block]
  BY <1>4
<1> QED
  BY <1>5 DEF LatestCheckpoint

LEMMA StoredAnchorTyped ==
    ASSUME TypeOK, HasLatest
    PROVE  StoredAnchor \in Nat
BY LatestCheckpointIsOne, LevelsAreNatural DEF StoredAnchor, TypeOK

LEMMA TornLogTyped ==
    ASSUME log \in Lines, NEW l \in TornLog
    PROVE  l \in Lines /\ (l = log \/ l = Append(log, NoBlock))
BY DEF TornLog, Lines

\* What the block index yields up to a usable checkpoint is a chain.
LEMMA BlocksOfCheckpoint ==
    ASSUME log \in Lines, NEW c, c.block \in Known, Usable(c)
    PROVE  /\ Height[c.block] \in Levels
           /\ BlocksUpTo(log, Height[c.block]) \in Seq(Known) \ {<<>>}
           /\ \A i \in 0..Height[c.block] : LatestAt(log, i) # NoBlock
<1> DEFINE h == Height[c.block]
<1>1. h \in Levels /\ h \in Nat
  BY LevelsAreNatural
<1>2. \A i \in 0..h : LatestAt(log, i) # NoBlock
  BY DEF Usable
<1> HIDE DEF h
<1>3. \A i \in 1..(h + 1) : LatestAt(log, i - 1) \in Known
  <2> SUFFICES ASSUME NEW i \in 1..(h + 1)
               PROVE  LatestAt(log, i - 1) \in Known
    OBVIOUS
  <2>1. i - 1 \in 0..h
    BY <1>1
  <2> QED
    BY <2>1, <1>2, LatestHasHeight
<1>4. BlocksUpTo(log, h) \in Seq(Known) /\ Len(BlocksUpTo(log, h)) = h + 1
  BY <1>1, <1>3 DEF BlocksUpTo
<1> QED
  BY <1>1, <1>2, <1>4 DEF h

LEMMA StorageTypedInit == Init => StorageTyped
<1> SUFFICES ASSUME Init
             PROVE  StorageTyped
  OBVIOUS
<1>1. <<Genesis>> \in Seq(Known) \ {<<>>} /\ <<Genesis>> \in Seq(Known \cup {NoBlock})
  BY DEF Known
<1>2. TypeOK
  <2>1. files \in [File -> Seq(Known)] /\ log \in Seq(Known \cup {NoBlock})
    BY <1>1 DEF Init
  <2>2. seal \in [files : [File -> Seq(Known)], log : Seq(Known \cup {NoBlock})]
    BY <2>1 DEF Init
  <2>3. save \in [kind : {"none", "genesis", "mined", "received", "reorg", "restore"},
                  todo : Seq(Known), chain : Seq(Known), utxo : Seq(Known)]
    BY DEF Init, NoSave
  <2>4. replaced \in 0..NumFiles /\ crashes \in 0..MaxCrashes /\ failures \in 0..MaxFailures
        /\ forks \in 0..MaxForks /\ restores \in 0..MaxRestores
    BY StorageIsTyped DEF Init, StorageIsTyped
  <2> QED
    BY <1>1, <2>1, <2>2, <2>3, <2>4 DEF Init, TypeOK
<1>3. HasLatest
  BY DEF Init, HasLatest
<1> QED
  BY <1>1, <1>2, <1>3 DEF StorageTyped, SaveKept, Init, NoSave

LEMMA StorageTypedNext == StorageTyped /\ [Next]_vars => StorageTyped'
<1> SUFFICES ASSUME StorageTyped, [Next]_vars
             PROVE  StorageTyped'
  OBVIOUS
<1> USE DEF StorageTyped
<1>0. /\ log \in Lines /\ Known \subseteq Known \cup {NoBlock} /\ Block \subseteq Known
      /\ Genesis \in Known /\ <<>> \in Seq(Known)
  BY DEF TypeOK, Lines, Known
<1>1. ASSUME NEW b \in Block, BeginAppend(b)
      PROVE  StorageTyped'
  <2>1. /\ Append(chain, b) \in Seq(Known) \ {<<>>}
        /\ Append(utxo, b) \in Seq(Known) /\ <<b>> \in Seq(Known) /\ chain # <<>>
    <3>1. chain \in Seq(Known) /\ utxo \in Seq(Known) /\ b \in Known
      BY <1>0 DEF TypeOK
    <3>2. chain # <<>>
      BY <1>1 DEF BeginAppend, SaveKept, Running
    <3>3. Len(Append(chain, b)) = Len(chain) + 1 /\ Len(chain) \in Nat
      BY <3>1
    <3> QED
      BY <3>1, <3>2, <3>3
  <2>2. TypeOK'
    BY SMTT(30), <1>1, <2>1, StorageIsTyped DEF BeginAppend, TypeOK, Saving, disk, bounds, StorageIsTyped
  <2>3. SaveKept'
    BY <1>1, <2>1 DEF BeginAppend, SaveKept, Running, Saving
  <2> QED
    BY <1>1, <2>2, <2>3 DEF BeginAppend, HasLatest, disk
<1>2. ASSUME NEW c \in Branches, BeginReorg(c)
      PROVE  StorageTyped'
  <2>1. c \in Seq(Known) \ {<<>>} /\ chain # <<>>
    BY <1>2, BranchesAreLinked DEF Linked, BeginReorg, SaveKept, Running
  <2>2. TypeOK'
    BY <1>2, <2>1, StorageIsTyped DEF BeginReorg, TypeOK, Saving, bounds, StorageIsTyped
  <2>3. SaveKept'
    BY <1>2, <2>1 DEF BeginReorg, SaveKept, Running, Saving
  <2> QED
    BY <1>2, <2>2, <2>3 DEF BeginReorg, HasLatest
<1>3. ASSUME NEW c \in Branches, StoreFork(c)
      PROVE  StorageTyped'
  <2> DEFINE f == ForkPoint(chain, c)
  <2>1. c \in Seq(Known) /\ Linked(c) /\ Linked(chain)
    BY <1>3, BranchesAreLinked DEF Linked, StoreFork
  <2>2. f \in 0..(Len(chain) - 1) /\ Len(chain) \in Nat /\ Len(c) \in Nat
    BY <2>1, AgreeUpToForkPoint DEF Linked
  <2> HIDE DEF f
  <2>3. SubSeq(c, f + 2, Len(c)) \in Lines
    <3>1. \A i \in (f + 2)..Len(c) : c[i] \in Known
      BY <2>1, <2>2
    <3> QED
      BY <2>1, <2>2, <3>1 DEF Lines
  <2>4. log \o SubSeq(c, f + 2, Len(c)) \in Lines
    BY <1>0, <2>3 DEF Lines
  <2>5. log' \in Seq(Known \cup {NoBlock})
    BY <1>3, <2>4 DEF StoreFork, Lines, f
  <2>6. TypeOK'
    BY <1>3, <2>5, StorageIsTyped DEF StoreFork, TypeOK, memory, StorageIsTyped
  <2> QED
    BY <1>3, <2>6 DEF StoreFork, SaveKept, Running, HasLatest, memory, NoSave
<1>4. ASSUME NEW c \in checkpoints, RestoreCheckpoint(c)
      PROVE  StorageTyped'
  <2>1. c.block \in Known /\ c.utxo \in Seq(Known)
    BY DEF TypeOK
  <2>2. /\ BlocksUpTo(log, Height[c.block]) \in Seq(Known) \ {<<>>}
        /\ Height[c.block] \in Nat
    BY <1>0, <1>4, <2>1, BlocksOfCheckpoint, LevelsAreNatural DEF RestoreCheckpoint
  <2>3. chain # <<>>
    BY <1>4 DEF RestoreCheckpoint, SaveKept, Running
  <2>4. TypeOK'
    BY <1>4, <2>1, <2>2, <2>3, StorageIsTyped
       DEF RestoreCheckpoint, TypeOK, Saving, StorageIsTyped
  <2>5. SaveKept'
    BY <1>4, <2>2, <2>3 DEF RestoreCheckpoint, SaveKept, Running, Saving
  <2> QED
    BY <1>4, <2>4, <2>5 DEF RestoreCheckpoint, HasLatest
<1>5. CASE AppendBlock
  <2>1. Head(save.todo) \in Known /\ Tail(save.todo) \in Seq(Known)
    BY SMTT(30), <1>5 DEF AppendBlock, TypeOK
  <2>2. Append(log, Head(save.todo)) \in Seq(Known \cup {NoBlock})
    BY <1>0, <2>1 DEF Lines
  <2>3. /\ save' \in [kind : {"none", "genesis", "mined", "received", "reorg", "restore"},
                      todo : Seq(Known), chain : Seq(Known), utxo : Seq(Known)]
        /\ save'.kind = save.kind /\ save'.chain = save.chain
    BY <1>5, <2>1 DEF AppendBlock, TypeOK
  <2>4. TypeOK'
    BY <1>5, <2>2, <2>3, StorageIsTyped
       DEF AppendBlock, TypeOK, memory, bounds, StorageIsTyped
  <2>5. SaveKept'
    BY <1>5, <2>3 DEF AppendBlock, SaveKept, Running, memory
  <2> QED
    BY <1>5, <2>4, <2>5 DEF AppendBlock, HasLatest
<1>6. CASE BeginFiles
  <2> DEFINE new == [block |-> Last(chain), utxo |-> utxo]
  <2>1. chain # <<>> /\ Last(chain) \in Known /\ Len(chain) - 1 \in Nat
    <3>1. chain # <<>> /\ chain \in Seq(Known)
      BY <1>6 DEF BeginFiles, TypeOK, SaveKept, Running
    <3> QED
      BY <3>1 DEF Last
  <2>2. new \in [block : Known, utxo : Seq(Known)]
    BY <2>1 DEF TypeOK
  <2>3. checkpoints' \subseteq checkpoints \cup {new}
    BY <1>6 DEF BeginFiles
  <2> HIDE DEF new
  <2>4. checkpoints' \subseteq [block : Known, utxo : Seq(Known)]
    BY <2>2, <2>3 DEF TypeOK
  <2>5. anchor' \in Nat
    BY <1>6, <2>1 DEF BeginFiles, TypeOK
  <2>6. TypeOK'
    BY <1>6, <2>4, <2>5, StorageIsTyped DEF BeginFiles, TypeOK, bounds, StorageIsTyped
  <2>7. HasLatest'
    <3>1. PICK top \in Nat : \A c \in checkpoints : Height[c.block] <= top
      BY DEF HasLatest
    <3>2. Height[new.block] \in Nat /\ \A c \in checkpoints : Height[c.block] \in Nat
      BY <2>2, LevelsAreNatural DEF TypeOK
    <3>3. top + Height[new.block] \in Nat
      BY <3>2
    <3>4. \A c \in checkpoints' : Height[c.block] <= top + Height[new.block]
      BY <2>3, <3>1, <3>2
    <3> QED
      BY <3>3, <3>4 DEF HasLatest
  <2>8. SaveKept'
    BY <1>6, <2>1 DEF BeginFiles, SaveKept, Running
  <2> QED
    BY <2>6, <2>7, <2>8
<1>7. CASE ReplaceFile
  <2>1. replaced + 1 \in File /\ replaced + 1 \in 0..NumFiles
    BY <1>7, StorageIsTyped DEF ReplaceFile, TypeOK, File, StorageIsTyped
  <2>2. files' \in [File -> Seq(Known)]
    BY <1>7, <2>1 DEF ReplaceFile, TypeOK
  <2>3. TypeOK'
    BY <1>7, <2>1, <2>2 DEF ReplaceFile, TypeOK, memory, bounds
  <2> QED
    BY <1>7, <2>3 DEF ReplaceFile, SaveKept, Running, HasLatest, memory
<1>8. CASE Seal
  <2>1. TypeOK'
    BY <1>8, <1>0 DEF Seal, TypeOK, memory, bounds, NoSave
  <2>2. SaveKept'
    BY <1>8 DEF Seal, SaveKept, Running, memory, NoSave
  <2> QED
    BY <1>8, <2>1, <2>2 DEF Seal, HasLatest
<1>9. CASE CommitWal
  <2>1. TypeOK'
    BY <1>9, <1>0 DEF CommitWal, TypeOK, memory, bounds, NoSave
  <2> QED
    BY <1>9, <2>1 DEF CommitWal, SaveKept, Running, HasLatest, memory, NoSave
<1>10. ASSUME NEW error \in {"OSError", "RuntimeError"}, SaveFails(error)
       PROVE  StorageTyped'
  <2>1. log' \in Seq(Known \cup {NoBlock})
    BY <1>10, <1>0, TornLogTyped DEF SaveFails, Lines
  <2>2. /\ chain' \in Seq(Known) \ {<<>>} /\ utxo' \in Seq(Known) /\ wal' \in BOOLEAN
    <3>1. step \in {"blocks", "files"}
      BY <1>10 DEF SaveFails
    <3>2. chain # <<>>
      BY <3>1 DEF SaveKept, Running
    <3>3. Undoes(save.kind, error) => save.chain # <<>>
      BY DEF Undoes, SaveKept
    <3> QED
      BY <1>10, <3>2, <3>3 DEF SaveFails, TypeOK
  <2>3. failures' \in 0..MaxFailures /\ stray' \in BOOLEAN
    BY <1>10, StorageIsTyped DEF SaveFails, TypeOK, StorageIsTyped
  <2>4. step' = "idle" /\ save' = NoSave
    BY <1>10 DEF SaveFails
  <2>5. TypeOK'
    BY SMTT(30), <1>10, <1>0, <2>1, <2>2, <2>3, <2>4 DEF SaveFails, TypeOK, NoSave
  <2> QED
    BY <1>10, <2>2, <2>4, <2>5 DEF SaveFails, SaveKept, Running, HasLatest, NoSave
<1>11. CASE Crash
  <2>1. log' \in Seq(Known \cup {NoBlock})
    BY <1>11, <1>0, TornLogTyped DEF Crash, Lines
  <2>2. TypeOK'
    BY <1>11, <1>0, <2>1, StorageIsTyped DEF Crash, TypeOK, NoSave, StorageIsTyped
  <2> QED
    BY <1>11, <2>2 DEF Crash, SaveKept, Running, HasLatest, NoSave
<1>12. CASE RefuseToStart
  <2>1. TypeOK'
    BY <1>12 DEF RefuseToStart, TypeOK, memory, disk, bounds
  <2> QED
    BY <1>12, <2>1 DEF RefuseToStart, SaveKept, Running, HasLatest, memory, disk
<1>13. CASE StartFast
  <2> DEFINE h == Height[LatestCheckpoint.block]
             c == FastChain(log, h)
  <2>1. LatestCheckpoint \in checkpoints
    BY <1>13, LatestCheckpointIsOne DEF StartFast, Usable
  <2>2. LatestCheckpoint.block \in Known /\ LatestCheckpoint.utxo \in Seq(Known)
    BY <2>1 DEF TypeOK
  <2>3. h \in Levels /\ h \in Nat /\ \A i \in 0..h : LatestAt(log, i) # NoBlock
    BY <1>0, <1>13, <2>2, BlocksOfCheckpoint, LevelsAreNatural DEF StartFast
  <2>4. c \in Seq(Known) \ {<<>>}
    <3> HIDE DEF h
    <3> QED BY <1>0, <2>3, FastChainTyped
  <2>5. /\ chain' = c /\ utxo' = LatestCheckpoint.utxo \o SubSeq(c, h + 2, Len(c))
        /\ anchor' = StoredAnchor /\ wal' = FALSE /\ step' = "idle" /\ step = "down"
    BY <1>13 DEF StartFast, StartsFrom
  <2> HIDE DEF h, c
  <2>6. SubSeq(c, h + 2, Len(c)) \in Seq(Known)
    <3>1. \A i \in (h + 2)..Len(c) : c[i] \in Known
      BY <2>3, <2>4
    <3> QED
      BY <2>3, <2>4, <3>1
  <2>7. utxo' \in Seq(Known)
    BY <2>2, <2>5, <2>6
  <2>8. TypeOK'
    BY <1>13, <2>4, <2>5, <2>7, StoredAnchorTyped DEF StartFast, TypeOK, bounds
  <2> QED
    BY <1>13, <2>4, <2>5, <2>8 DEF StartFast, SaveKept, Running, HasLatest, NoSave
<1>14. CASE StartFull
  <2>1. LoadedChain(log) \in Seq(Known) \ {<<>>}
    BY <1>0, <1>14, LoadedChainTyped DEF StartFull
  <2>2. files[1] \in Seq(Known)
    BY StorageIsTyped DEF TypeOK, File, StorageIsTyped
  <2>3. TypeOK'
    BY <1>14, <2>1, <2>2, StoredAnchorTyped DEF StartFull, StartsFrom, TypeOK, bounds
  <2> QED
    BY <1>14, <2>1, <2>3 DEF StartFull, StartsFrom, SaveKept, Running, HasLatest, NoSave
<1>15. CASE StartOver
  <2>1. <<Genesis>> \in Seq(Known) \ {<<>>}
    BY <1>0
  <2>2. Append(files[1], Genesis) \in Seq(Known)
    <3>1. files[1] \in Seq(Known)
      BY StorageIsTyped DEF TypeOK, File, StorageIsTyped
    <3> QED
      BY <3>1, <1>0
  <2>3. /\ save' \in [kind : {"none", "genesis", "mined", "received", "reorg", "restore"},
                      todo : Seq(Known), chain : Seq(Known), utxo : Seq(Known)]
        /\ save'.kind = "genesis"
    BY <1>15, <1>0, <2>1 DEF StartOver, NoSave
  <2>4. TypeOK'
    BY <1>15, <2>1, <2>2, <2>3, StoredAnchorTyped DEF StartOver, StartsFrom, TypeOK, bounds
  <2> QED
    BY <1>15, <2>1, <2>3, <2>4 DEF StartOver, StartsFrom, SaveKept, Running, HasLatest
<1>16. CASE UNCHANGED vars
  <2>1. TypeOK'
    BY <1>16 DEF vars, memory, disk, bounds, TypeOK
  <2> QED
    BY <1>16, <2>1 DEF vars, memory, disk, SaveKept, Running, HasLatest, NoSave
<1> QED
  BY <1>1, <1>2, <1>3, <1>4, <1>5, <1>6, <1>7, <1>8, <1>9, <1>10, <1>11, <1>12, <1>13,
     <1>14, <1>15, <1>16 DEF Next, Start

\* Every variable of the storage model has its type, on whatever files a
\* node starts.
THEOREM StorageIsWellTyped == Spec => []TypeOK
<1>1. Spec => []StorageTyped
  BY StorageTypedInit, StorageTypedNext, PTL DEF Spec
<1>2. StorageTyped => TypeOK
  BY DEF StorageTyped
<1> QED
  BY <1>1, <1>2, PTL

-----------------------------------------------------------------------------
(* One save behind the checksum                                            *)

\* What the files hold while a save replaces them one by one.
OneSaveSealed ==
    /\ files = [i \in File |-> files[i]]
    /\ replaced \in Nat
    /\ step \in {"blocks", "down"} => replaced = 0
    /\ step = "files" => \A i \in File : i <= replaced => files[i] = utxo
    /\ \A i, j \in File : seal.files[i] = seal.files[j]

LEMMA SealedInit == Init => OneSaveSealed
BY DEF Init, OneSaveSealed

LEMMA SealedNext == OneSaveSealed /\ [Next]_vars => OneSaveSealed'
<1> SUFFICES ASSUME OneSaveSealed, [Next]_vars
             PROVE  OneSaveSealed'
  OBVIOUS
<1> USE DEF OneSaveSealed
<1>1. ASSUME NEW b \in Block, BeginAppend(b)
      PROVE  OneSaveSealed'
  BY <1>1 DEF BeginAppend, disk
<1>2. ASSUME NEW c \in Branches, BeginReorg(c)
      PROVE  OneSaveSealed'
  BY <1>2 DEF BeginReorg
<1>3. ASSUME NEW c \in Branches, StoreFork(c)
      PROVE  OneSaveSealed'
  BY <1>3 DEF StoreFork, memory
<1>4. ASSUME NEW c \in checkpoints, RestoreCheckpoint(c)
      PROVE  OneSaveSealed'
  BY <1>4 DEF RestoreCheckpoint
<1>5. CASE AppendBlock
  BY <1>5 DEF AppendBlock, memory
<1>6. CASE BeginFiles
  BY <1>6 DEF BeginFiles
<1>7. CASE ReplaceFile
  <2>1. /\ step = "files" /\ step' = "files"
        /\ utxo' = utxo /\ seal' = seal
        /\ replaced' = replaced + 1
        /\ files' = [files EXCEPT ![replaced + 1] = utxo]
    BY <1>7 DEF ReplaceFile, memory
  <2>2. \A i \in File : i <= replaced + 1 => files'[i] = utxo
    BY <2>1 DEF File
  <2> QED
    BY <2>1, <2>2
<1>8. CASE Seal
  <2>1. \A i \in File : files[i] = utxo
    BY <1>8 DEF Seal, File
  <2>2. seal'.files = files /\ UNCHANGED <<files, replaced>>
    BY <1>8 DEF Seal
  <2>3. step' \in {"logged", "idle"}
    BY <1>8 DEF Seal
  <2> QED
    BY <2>1, <2>2, <2>3
<1>9. CASE CommitWal
  BY <1>9 DEF CommitWal, memory
<1>10. ASSUME NEW error \in {"OSError", "RuntimeError"}, SaveFails(error)
       PROVE  OneSaveSealed'
  BY <1>10 DEF SaveFails
<1>11. CASE Crash
  BY <1>11 DEF Crash
<1>12. CASE RefuseToStart
  BY <1>12 DEF RefuseToStart, memory, disk
<1>13. CASE Start
  BY <1>13 DEF Start, StartFast, StartFull, StartOver, StartsFrom
<1>14. CASE UNCHANGED vars
  BY <1>14 DEF vars, memory, disk
<1> QED
  BY <1>1, <1>2, <1>3, <1>4, <1>5, <1>6, <1>7, <1>8, <1>9, <1>10, <1>11, <1>12, <1>13, <1>14
     DEF Next

\* Whatever step of whatever save a crash or a write error interrupted, the
\* state files a node starts on were all written by one save.
THEOREM StartedOnOneSave == Spec => StartsOnOneSave
<1>1. ASSUME OneSaveSealed, Start, NEW i \in File
      PROVE  files[i] = files[1]
  <2>1. seal.files = files
    BY <1>1 DEF Start, StartFast, StartFull, StartOver, Intact
  <2>2. 1 \in File
    BY StorageIsTyped DEF StorageIsTyped, File
  <2> QED
    BY <1>1, <2>1, <2>2 DEF OneSaveSealed
<1>2. OneSaveSealed => [Start => \A i \in File : files[i] = files[1]]_vars
  BY <1>1
<1> QED
  BY <1>2, SealedInit, SealedNext, PTL DEF Spec, StartsOnOneSave

-----------------------------------------------------------------------------
(* What a start finds                                                      *)

\* The blocks a save has still to write are the last of the chain.
Rest(c, s) ==
    /\ Len(s) <= Len(c)
    /\ \A i \in 1..Len(s) : s[i] = c[(Len(c) - Len(s)) + i]

\* Checkpoint cp was taken when c, or a chain that c extends, was the chain.
TakenFrom(cp, c) ==
    /\ Height[cp.block] < Len(c)
    /\ c[Height[cp.block] + 1] = cp.block
    /\ cp.utxo = SubSeq(c, 1, Height[cp.block] + 1)

\* The block files hold the chain in memory but for what the save under way
\* has still to write, and the UTXO set in memory is the one of that chain.
MemoryOnDisk ==
    Running =>
        /\ Linked(chain)
        /\ utxo = chain
        /\ Rest(chain, save.todo)
        /\ Written(log, chain, Len(chain) - Len(save.todo))
        /\ save.kind \notin {"restore", "genesis"}

\* What a save that fails goes back to is a shorter chain, and while blocks
\* are being written no checkpoint has been taken of the new one.
Undoable ==
    save.kind \in {"mined", "reorg"} =>
        /\ Linked(save.chain)
        /\ save.utxo = save.chain
        /\ Len(save.chain) < Len(chain)
        /\ step = "blocks" => \A c \in checkpoints : TakenFrom(c, save.chain)

\* Every checkpoint was taken on the way to the chain, no higher than anchor.
Checkpointed ==
    Running => \A c \in checkpoints : TakenFrom(c, chain) /\ Height[c.block] <= anchor

\* The checksum was taken of files that hold the chain saved then.  Once
\* another line has been written, the checksum does not match any more; as
\* long as it does, all checkpoints belong to that chain.
Sealed ==
    /\ Linked(saved)
    /\ Written(seal.log, saved, Len(saved))
    /\ \A i \in File : seal.files[i] = saved
    /\ Len(seal.log) <= Len(log)
    /\ log = seal.log => \A c \in checkpoints : TakenFrom(c, saved)

Durable == ~ stray => MemoryOnDisk /\ Undoable /\ Checkpointed /\ Sealed

LEMMA WrittenNext ==
    ASSUME NEW l, NEW c, Linked(c), NEW n \in Nat, n < Len(c), Written(l, c, n)
    PROVE  Written(Append(l, c[n + 1]), c, n + 1)
<1> DEFINE b == c[n + 1]
<1>1. l \in Seq(Known) /\ l \in Lines
  BY WrittenLines DEF Written
<1>2. n + 1 \in 1..Len(c) /\ Len(c) \in Nat /\ b \in Known
  BY DEF Linked
<1>3. Height[b] = n
  BY <1>2, LinkedHeights
<1> HIDE DEF b
<1>4. Append(l, b) \in Seq(Known)
  BY <1>1, <1>2
<1>5. ASSUME NEW h \in Levels
      PROVE  /\ h < n + 1 => LatestAt(Append(l, b), h) = c[h + 1]
             /\ h >= Len(c) => LatestAt(Append(l, b), h) = NoBlock
  <2>1. h \in Nat
    BY LevelsAreNatural
  <2>2. LatestAt(Append(l, b), h) = IF n = h THEN b ELSE LatestAt(l, h)
    BY <1>1, <1>2, <1>3, LatestAfterAppend
  <2>3. CASE h = n
    BY <2>2, <2>3, <1>2 DEF b
  <2>4. CASE h # n
    <3>1. h < n + 1 => h < n
      BY <2>1, <2>4
    <3> QED
      BY <2>2, <2>4, <3>1 DEF Written
  <2> QED
    BY <2>3, <2>4
<1> QED
  BY <1>4, <1>5 DEF Written, b

\* A checkpoint of c is one of every chain that agrees with c that far.
LEMMA TakenFromBoth ==
    ASSUME NEW cp, cp.block \in Known, NEW c \in Seq(Known), NEW d \in Seq(Known),
           TakenFrom(cp, c), Height[cp.block] < Len(d),
           \A i \in 1..(Height[cp.block] + 1) : d[i] = c[i]
    PROVE  TakenFrom(cp, d)
<1> DEFINE n == Height[cp.block] + 1
           s == SubSeq(c, 1, n)
           t == SubSeq(d, 1, n)
<1>1. n \in Nat /\ n <= Len(c) /\ n <= Len(d) /\ n \in 1..n
  <2>1. Height[cp.block] \in Nat
    BY LevelsAreNatural
  <2>2. Len(c) \in Nat /\ Len(d) \in Nat
    OBVIOUS
  <2>3. Height[cp.block] < Len(c)
    BY DEF TakenFrom
  <2> QED
    BY <2>1, <2>2, <2>3
<1> HIDE DEF n
<1>2. /\ s \in Seq(Known) /\ Len(s) = n /\ \A i \in 1..n : s[i] = c[i]
      /\ t \in Seq(Known) /\ Len(t) = n /\ \A i \in 1..n : t[i] = d[i]
  BY <1>1
<1>3. \A i \in 1..n : t[i] = s[i]
  BY <1>2 DEF n
<1> HIDE DEF s, t
<1>4. s = t
  BY <1>2, <1>3
<1> QED
  BY <1>1, <1>4 DEF TakenFrom, n, s, t

\* The UTXO set of a checkpoint and the blocks above it make up the chain.
LEMMA SnapshotAndRest ==
    ASSUME NEW c \in Seq(Known), NEW n \in 0..Len(c)
    PROVE  SubSeq(c, 1, n) \o SubSeq(c, n + 1, Len(c)) = c
<1> DEFINE s == SubSeq(c, 1, n)
           t == SubSeq(c, n + 1, Len(c))
<1>1. Len(c) \in Nat /\ n \in Nat /\ n <= Len(c)
  OBVIOUS
<1>2. s \in Seq(Known) /\ Len(s) = n /\ \A i \in 1..n : s[i] = c[i]
  BY <1>1
<1>3. /\ t \in Seq(Known) /\ Len(t) = Len(c) - n
      /\ \A i \in 1..(Len(c) - n) : t[i] = c[n + i]
  BY <1>1
<1> HIDE DEF s, t
<1>4. s \o t \in Seq(Known) /\ Len(s \o t) = Len(c)
  BY <1>1, <1>2, <1>3
<1>5. ASSUME NEW i \in 1..Len(c)
      PROVE  (s \o t)[i] = c[i]
  <2>1. CASE i <= n
    BY <2>1, <1>1, <1>2, <1>3
  <2>2. CASE i > n
    <3>1. i - n \in 1..(Len(c) - n) /\ n + (i - n) = i
      BY <2>2, <1>1
    <3>2. (s \o t)[i] = t[i - n]
      BY <2>2, <1>1, <1>2, <1>3
    <3> QED
      BY <3>1, <3>2, <1>3
  <2>3. i <= n \/ i > n
    BY <1>1
  <2> QED
    BY <2>1, <2>2, <2>3
<1>6. s \o t = c
  <2> DEFINE u == s \o t
  <2>1. u \in Seq(Known) /\ Len(u) = Len(c) /\ \A i \in 1..Len(c) : u[i] = c[i]
    BY <1>4, <1>5
  <2> HIDE DEF u
  <2>2. u = c
    BY <2>1
  <2> QED
    BY <2>2 DEF u
<1> QED
  BY <1>6 DEF s, t

\* A node that starts on files that match their checksum has the chain of the
\* last save in memory, and the UTXO set of that chain, whichever way it loads.
LEMMA StartFindsSaved ==
    ASSUME StorageTyped, Sealed, Start
    PROVE  /\ chain' = saved /\ utxo' = saved
           /\ \A c \in checkpoints : Height[c.block] <= anchor'
           /\ step = "down" /\ step' = "idle" /\ save' = save
           /\ log = seal.log
<1>1. /\ log \in Lines /\ log = seal.log /\ files = seal.files /\ step = "down"
      /\ Written(log, saved, Len(saved)) /\ Linked(saved)
  BY DEF Start, StartFast, StartFull, StartOver, Intact, Sealed, StorageTyped, TypeOK, Lines
<1>2. saved \in Seq(Known) \ {<<>>} /\ Len(saved) \in Nat
  BY <1>1 DEF Linked
<1>3. LoadedChain(log) = saved
  BY <1>1, WrittenIsLoaded
<1>4. \A c \in checkpoints : Height[c.block] <= StoredAnchor
  BY LatestCheckpointIsOne DEF StoredAnchor, StorageTyped
<1>5. CASE StartFast
  <2> DEFINE cp == LatestCheckpoint
             h == Height[cp.block]
  <2>1. /\ chain' = FastChain(log, h) /\ anchor' = StoredAnchor /\ save' = save
        /\ utxo' = cp.utxo \o SubSeq(FastChain(log, h), h + 2, Len(FastChain(log, h)))
        /\ step' = "idle" /\ Usable(cp)
    BY <1>5 DEF StartFast, StartsFrom
  <2>2. cp \in checkpoints
    BY <2>1, LatestCheckpointIsOne DEF StorageTyped, Usable
  <2> HIDE DEF cp
  <2>3. cp.block \in Known /\ TakenFrom(cp, saved)
    BY <1>1, <2>2 DEF Sealed, StorageTyped, TypeOK
  <2>4. h \in Levels /\ h \in Nat /\ h < Len(saved) /\ cp.utxo = SubSeq(saved, 1, h + 1)
    BY <2>3, LevelsAreNatural DEF TakenFrom
  <2> HIDE DEF h
  <2>5. FastChain(log, h) = saved
    BY <1>1, <2>4, WrittenIsReadFast
  <2>6. utxo' = SubSeq(saved, 1, h + 1) \o SubSeq(saved, h + 2, Len(saved))
    BY <2>1, <2>4, <2>5
  <2>7. h + 1 \in 0..Len(saved) /\ (h + 1) + 1 = h + 2
    BY <2>4, <1>2
  <2>8. utxo' = saved
    BY <2>6, <2>7, <1>2, SnapshotAndRest
  <2> QED
    BY <1>1, <1>4, <2>1, <2>5, <2>8
<1>6. CASE StartFull
  <2>1. 1 \in File
    BY StorageIsTyped DEF StorageIsTyped, File
  <2> QED
    BY <1>1, <1>3, <1>4, <1>6, <2>1 DEF StartFull, StartsFrom, Sealed
<1>7. CASE StartOver
  BY <1>2, <1>3, <1>7 DEF StartOver
<1> QED
  BY <1>5, <1>6, <1>7 DEF Start

LEMMA DurableInit == Init => Durable
<1> SUFFICES ASSUME Init
             PROVE  Durable
  OBVIOUS
<1> DEFINE c == <<Genesis>>
<1>1. Genesis \in Known /\ Height[Genesis] = 0
  BY HeightOfGenesis
<1>2. Linked(c) /\ c \in Seq(Known) /\ Len(c) = 1 /\ c[1] = Genesis
  BY <1>1 DEF Linked
<1>3. Written(c, c, Len(c))
  <2>1. <<>> \in Lines /\ Append(<<>>, Genesis) = c
    BY DEF Lines
  <2>2. \A h : LatestAt(<<>>, h) = NoBlock
    BY DEF LatestAt, LinesAt
  <2>3. \A h : LatestAt(c, h) = IF 0 = h THEN Genesis ELSE NoBlock
    <3> SUFFICES ASSUME NEW h
                 PROVE  LatestAt(c, h) = IF 0 = h THEN Genesis ELSE NoBlock
      OBVIOUS
    <3>1. LatestAt(Append(<<>>, Genesis), h)
              = IF Height[Genesis] = h THEN Genesis ELSE LatestAt(<<>>, h)
      BY ZenonT(30), <1>1, <2>1, LatestAfterAppend
    <3> HIDE DEF c
    <3> QED
      BY <3>1, <1>1, <2>1, <2>2
  <2> HIDE DEF c
  <2>4. \A h \in Levels : /\ h < Len(c) => LatestAt(c, h) = c[h + 1]
                          /\ h >= Len(c) => LatestAt(c, h) = NoBlock
    <3> SUFFICES ASSUME NEW h \in Levels
                 PROVE  /\ h < Len(c) => LatestAt(c, h) = c[h + 1]
                        /\ h >= Len(c) => LatestAt(c, h) = NoBlock
      OBVIOUS
    <3>1. h \in Nat
      BY LevelsAreNatural
    <3>2. CASE h = 0
      BY <3>2, <2>3, <1>2
    <3>3. CASE h # 0
      BY <3>1, <3>3, <2>3, <1>2
    <3> QED
      BY <3>2, <3>3
  <2> QED
    BY <1>2, <2>4 DEF Written
<1>4. /\ chain = c /\ utxo = c /\ log = c /\ saved = c /\ checkpoints = {} /\ step = "idle"
      /\ save.kind = "none" /\ save.todo = <<>> /\ seal.log = c
      /\ \A i \in File : seal.files[i] = c
  BY DEF Init, NoSave
<1> HIDE DEF c
<1>5. Rest(c, <<>>) /\ Len(c) - Len(<<>>) = Len(c)
  BY <1>2 DEF Rest
<1>6. MemoryOnDisk
  BY <1>2, <1>3, <1>4, <1>5 DEF MemoryOnDisk
<1>7. Undoable /\ Checkpointed
  BY <1>4 DEF Undoable, Checkpointed
<1>8. Sealed
  <2>1. Linked(saved) /\ Written(seal.log, saved, Len(saved))
    BY <1>2, <1>3, <1>4
  <2>2. Len(seal.log) <= Len(log)
    BY <1>2, <1>4
  <2>3. \A i \in File : seal.files[i] = saved
    BY <1>4
  <2> QED
    BY <1>4, <2>1, <2>2, <2>3 DEF Sealed
<1> QED
  BY <1>6, <1>7, <1>8 DEF Durable

\* Between saves, and while state files are written, the block files hold the
\* whole chain.
LEMMA WholeChainWritten ==
    ASSUME StorageTyped, MemoryOnDisk, Running, save.todo = <<>>
    PROVE  /\ Linked(chain) /\ utxo = chain
           /\ Written(log, chain, Len(chain))
<1>1. Len(chain) \in Nat /\ Len(chain) - Len(<<>>) = Len(chain)
  BY DEF StorageTyped, TypeOK
<1> QED
  BY <1>1 DEF MemoryOnDisk

LEMMA NothingToWrite ==
    ASSUME NEW c \in Seq(Known)
    PROVE  Rest(c, <<>>) /\ Len(c) - Len(<<>>) = Len(c)
<1>1. Len(c) \in Nat /\ Len(<<>>) = 0
  OBVIOUS
<1> QED
  BY <1>1 DEF Rest

LEMMA AppendIsDurable ==
    ASSUME StorageTyped, Durable, ~ stray, NEW b \in Block, BeginAppend(b)
    PROVE  MemoryOnDisk' /\ Undoable' /\ Checkpointed' /\ Sealed'
<1> DEFINE d == Append(chain, b)
<1>1. /\ step = "idle" /\ Parent[b] = Last(chain)
      /\ chain' = d /\ utxo' = Append(utxo, b)
      /\ save' = Saving(IF b \in Own THEN "mined" ELSE "received", <<b>>)
      /\ UNCHANGED <<anchor, log, files, seal, checkpoints, saved>>
      /\ step' = "blocks"
  BY DEF BeginAppend, disk
<1>2. /\ save.todo = <<>> /\ Running
      /\ MemoryOnDisk /\ Checkpointed /\ Sealed
  BY <1>1 DEF Durable, StorageTyped, SaveKept, NoSave, Running
<1>3. /\ Linked(chain) /\ utxo = chain /\ Written(log, chain, Len(chain))
      /\ chain \in Seq(Known) /\ Len(chain) \in Nat
  BY <1>2, WholeChainWritten DEF Linked
<1>4. Linked(d)
  BY <1>1, <1>3, AppendLinked
<1>5. /\ d \in Seq(Known) /\ Len(d) = Len(chain) + 1 /\ d[Len(d)] = b
      /\ \A i \in 1..Len(chain) : d[i] = chain[i]
  BY <1>3 DEF Known
<1> HIDE DEF d
<1>6. Written(log, d, Len(d) - 1)
  <2> SUFFICES ASSUME NEW h \in Levels
               PROVE  /\ h < Len(d) - 1 => LatestAt(log, h) = d[h + 1]
                      /\ h >= Len(d) => LatestAt(log, h) = NoBlock
    BY <1>3 DEF Written
  <2>1. h \in Nat
    BY LevelsAreNatural
  <2>2. ASSUME h < Len(d) - 1
        PROVE  LatestAt(log, h) = d[h + 1]
    <3>1. h < Len(chain) /\ h + 1 \in 1..Len(chain)
      BY <2>1, <2>2, <1>3, <1>5
    <3> QED
      BY <3>1, <1>3, <1>5 DEF Written
  <2>3. h >= Len(d) => h >= Len(chain)
    BY <2>1, <1>3, <1>5
  <2> QED
    BY <2>2, <2>3, <1>3 DEF Written
<1>7. MemoryOnDisk'
  <2>1. Len(<<b>>) = 1 /\ <<b>>[1] = b
    OBVIOUS
  <2>2. Rest(d, <<b>>)
    <3> SUFFICES ASSUME NEW i \in 1..1
                 PROVE  <<b>>[i] = d[(Len(d) - 1) + i]
      BY <2>1, <1>3, <1>5 DEF Rest
    <3>1. i = 1 /\ (Len(d) - 1) + i = Len(d)
      BY <1>3, <1>5
    <3> QED
      BY <3>1, <2>1, <1>5
  <2> QED
    BY <1>1, <1>3, <1>4, <1>6, <2>1, <2>2 DEF MemoryOnDisk, Saving, d
<1>8. \A c \in checkpoints : TakenFrom(c, chain) /\ TakenFrom(c, d) /\ Height[c.block] <= anchor
  <2> SUFFICES ASSUME NEW c \in checkpoints
               PROVE  TakenFrom(c, chain) /\ TakenFrom(c, d) /\ Height[c.block] <= anchor
    OBVIOUS
  <2>1. TakenFrom(c, chain) /\ Height[c.block] <= anchor /\ c.block \in Known
    BY <1>2 DEF Checkpointed, StorageTyped, TypeOK
  <2>2. Height[c.block] \in Nat /\ Height[c.block] < Len(chain)
    BY <2>1, LevelsAreNatural DEF TakenFrom
  <2>3. Height[c.block] < Len(d) /\ \A i \in 1..(Height[c.block] + 1) : d[i] = chain[i]
    BY <2>2, <1>3, <1>5
  <2> QED
    BY <2>1, <2>3, <1>3, <1>5, TakenFromBoth
<1>9. Undoable'
  BY <1>1, <1>3, <1>5, <1>8 DEF Undoable, Saving
<1>10. Checkpointed'
  BY <1>1, <1>8 DEF Checkpointed
<1>11. Sealed'
  BY <1>1, <1>2 DEF Sealed
<1> QED
  BY <1>7, <1>9, <1>10, <1>11

LEMMA ReorgIsDurable ==
    ASSUME StorageTyped, Durable, ~ stray, NEW c \in Branches, BeginReorg(c)
    PROVE  MemoryOnDisk' /\ Undoable' /\ Checkpointed' /\ Sealed'
<1>1. /\ step = "idle" /\ Len(c) > Len(chain) /\ KeepsCheckpoint(c)
      /\ chain' = c /\ utxo' = c /\ save' = Saving("reorg", c) /\ step' = "blocks"
      /\ UNCHANGED <<anchor, log, files, seal, checkpoints, saved>>
  BY DEF BeginReorg
<1>2. /\ save.todo = <<>> /\ Running
      /\ MemoryOnDisk /\ Checkpointed /\ Sealed
  BY <1>1 DEF Durable, StorageTyped, SaveKept, NoSave, Running
<1>3. /\ Linked(chain) /\ utxo = chain /\ Written(log, chain, Len(chain))
      /\ chain \in Seq(Known) /\ Len(chain) \in Nat
  BY <1>2, WholeChainWritten DEF Linked
<1>4. Linked(c) /\ c \in Seq(Known) /\ Len(c) \in Nat
  BY BranchesAreLinked DEF Linked
<1>5. Written(log, c, 0)
  <2> SUFFICES ASSUME NEW h \in Levels
               PROVE  ~ (h < 0) /\ (h >= Len(c) => LatestAt(log, h) = NoBlock)
    BY <1>3 DEF Written
  <2>1. h \in Nat
    BY LevelsAreNatural
  <2>2. h >= Len(c) => h >= Len(chain)
    BY <2>1, <1>1, <1>3, <1>4
  <2> QED
    BY <2>1, <2>2, <1>3 DEF Written
<1>6. MemoryOnDisk'
  <2>1. Rest(c, c) /\ Len(c) - Len(c) = 0
    <3>1. Len(c) - Len(c) = 0 /\ \A i \in 1..Len(c) : 0 + i = i
      BY <1>4
    <3>2. \A i \in 1..Len(c) : c[i] = c[(Len(c) - Len(c)) + i]
      BY <3>1
    <3> QED
      BY <3>1, <3>2, <1>4 DEF Rest
  <2> QED
    BY <1>1, <1>4, <1>5, <2>1 DEF MemoryOnDisk, Saving
<1>7. \A cp \in checkpoints :
          TakenFrom(cp, chain) /\ TakenFrom(cp, c) /\ Height[cp.block] <= anchor
  <2> SUFFICES ASSUME NEW cp \in checkpoints
               PROVE  TakenFrom(cp, chain) /\ TakenFrom(cp, c) /\ Height[cp.block] <= anchor
    OBVIOUS
  <2> DEFINE f == ForkPoint(chain, c)
             h == Height[cp.block]
  <2>1. TakenFrom(cp, chain) /\ h <= anchor /\ cp.block \in Known
    BY <1>2 DEF Checkpointed, StorageTyped, TypeOK
  <2>2. h \in Nat /\ anchor \in Nat
    BY <2>1, LevelsAreNatural DEF StorageTyped, TypeOK
  <2>3. /\ f \in 0..(Len(chain) - 1) /\ f + 1 <= Len(c)
        /\ \A i \in 1..(f + 1) : chain[i] = c[i]
    BY <1>3, <1>4, AgreeUpToForkPoint
  <2>4. f >= anchor
    BY <1>1 DEF KeepsCheckpoint
  <2> HIDE DEF f
  <2>5. h < Len(c) /\ \A i \in 1..(h + 1) : c[i] = chain[i]
    <3> HIDE DEF h
    <3>1. f \in Nat /\ h <= f
      BY <2>1, <2>2, <2>3, <2>4
    <3>2. \A i \in 1..(h + 1) : i \in 1..(f + 1)
      BY <3>1, <2>2
    <3> QED
      BY <3>1, <3>2, <2>2, <2>3, <1>4
  <2> QED
    BY <2>1, <2>5, <1>3, <1>4, TakenFromBoth
<1>8. Undoable'
  BY <1>1, <1>3, <1>7 DEF Undoable, Saving
<1>9. Checkpointed'
  BY <1>1, <1>7 DEF Checkpointed
<1>10. Sealed'
  BY <1>1, <1>2 DEF Sealed
<1> QED
  BY <1>6, <1>8, <1>9, <1>10

LEMMA WriteIsDurable ==
    ASSUME StorageTyped, Durable, ~ stray, AppendBlock
    PROVE  MemoryOnDisk' /\ Undoable' /\ Checkpointed' /\ Sealed'
<1> DEFINE s == save.todo
           n == Len(chain) - Len(s)
<1>1. /\ step = "blocks" /\ s # <<>> /\ Running
      /\ log' = Append(log, Head(s)) /\ save' = [save EXCEPT !.todo = Tail(s)]
      /\ UNCHANGED <<chain, utxo, anchor, step, files, seal, checkpoints, saved>>
      /\ MemoryOnDisk /\ Undoable /\ Checkpointed /\ Sealed
  BY DEF AppendBlock, memory, Durable, Running
<1>2. /\ Linked(chain) /\ chain \in Seq(Known) /\ Len(chain) \in Nat /\ utxo = chain
      /\ Rest(chain, s) /\ Written(log, chain, n)
  BY <1>1 DEF MemoryOnDisk, Linked
<1>3. s \in Seq(Known) /\ Len(s) \in Nat \ {0} /\ log \in Lines /\ seal.log \in Lines
  BY <1>1 DEF StorageTyped, TypeOK, Lines
<1>4. /\ save'.todo = Tail(s) /\ save'.kind = save.kind
      /\ save'.chain = save.chain /\ save'.utxo = save.utxo
  BY <1>1 DEF StorageTyped, TypeOK
<1> HIDE DEF s
<1>5. /\ n \in Nat /\ n < Len(chain) /\ Len(s) <= Len(chain)
      /\ \A i \in 1..Len(s) : s[i] = chain[n + i]
  BY <1>2, <1>3 DEF Rest
<1> HIDE DEF n
<1>6. Head(s) = chain[n + 1]
  BY <1>3, <1>5
<1>7. Written(log', chain, n + 1)
  BY <1>1, <1>2, <1>5, <1>6, WrittenNext
<1>8. Rest(chain, Tail(s)) /\ Len(chain) - Len(Tail(s)) = n + 1
  <2> DEFINE t == Tail(s)
  <2>1. /\ t \in Seq(Known) /\ Len(t) = Len(s) - 1
        /\ \A i \in 1..(Len(s) - 1) : t[i] = s[i + 1]
    BY <1>3
  <2> HIDE DEF t
  <2>2. Len(chain) - Len(t) = n + 1
    BY <1>2, <1>3, <2>1 DEF n
  <2>3. ASSUME NEW i \in 1..Len(t)
        PROVE  t[i] = chain[(Len(chain) - Len(t)) + i]
    <3>1. i + 1 \in 1..Len(s) /\ n + (i + 1) = (n + 1) + i
      BY <1>3, <1>5, <2>1
    <3>2. t[i] = s[i + 1]
      BY <1>3, <2>1
    <3> QED
      BY <3>1, <3>2, <1>5, <2>2
  <2>4. Len(t) <= Len(chain)
    BY <1>3, <1>5, <2>1, <1>2
  <2> QED
    BY <2>2, <2>3, <2>4 DEF Rest, t
<1>9. MemoryOnDisk'
  BY <1>1, <1>2, <1>4, <1>7, <1>8 DEF MemoryOnDisk
<1>10. Undoable' /\ Checkpointed'
  BY <1>1, <1>4 DEF Undoable, Checkpointed, Running
<1>11. Sealed'
  <2>1. Len(log') = Len(log) + 1 /\ Len(log) \in Nat /\ Len(seal.log) \in Nat
    BY <1>1, <1>3 DEF Lines
  <2>2. Len(seal.log) < Len(log')
    BY <1>1, <2>1 DEF Sealed
  <2> QED
    BY <1>1, <2>1, <2>2 DEF Sealed
<1> QED
  BY <1>9, <1>10, <1>11

LEMMA FilesAreDurable ==
    ASSUME StorageTyped, Durable, ~ stray, BeginFiles
    PROVE  MemoryOnDisk' /\ Undoable' /\ Checkpointed' /\ Sealed'
<1> DEFINE h == Len(chain) - 1
           new == [block |-> Last(chain), utxo |-> utxo]
           due == save.kind = "mined" /\ h % CheckpointEvery = 0
<1>1. /\ step = "blocks" /\ save.todo = <<>> /\ step' = "files" /\ Running
      /\ checkpoints' = IF due THEN {c \in checkpoints : Height[c.block] # h} \cup {new}
                               ELSE checkpoints
      /\ anchor' = IF due THEN h ELSE anchor
      /\ UNCHANGED <<chain, utxo, save, log, files, seal, saved>>
      /\ MemoryOnDisk /\ Undoable /\ Checkpointed /\ Sealed
  BY DEF BeginFiles, Durable, Running
<1>2. /\ Linked(chain) /\ utxo = chain /\ Written(log, chain, Len(chain))
      /\ chain \in Seq(Known) /\ Len(chain) \in Nat \ {0}
  BY <1>1, WholeChainWritten DEF Linked
<1> HIDE DEF due
<1>3. /\ new.block \in Known /\ Height[new.block] = h /\ h \in Nat
      /\ TakenFrom(new, chain)
  <2>1. Last(chain) = chain[Len(chain)] /\ Len(chain) \in 1..Len(chain)
    BY <1>2 DEF Last
  <2>2. Last(chain) \in Known /\ Height[Last(chain)] = h /\ h \in Nat
    BY <1>2, <2>1, LinkedHeights
  <2>3. h + 1 = Len(chain) /\ h < Len(chain)
    BY <1>2
  <2>4. SubSeq(chain, 1, Len(chain)) = chain
    BY <1>2
  <2>5. new.block = Last(chain) /\ new.utxo = chain
    BY <1>2
  <2> HIDE DEF new, h
  <2> QED
    BY <2>1, <2>2, <2>3, <2>4, <2>5 DEF TakenFrom
<1> HIDE DEF new
<1>4. \A c \in checkpoints : TakenFrom(c, chain) /\ Height[c.block] <= anchor
  BY <1>1 DEF Checkpointed
<1>5. \A c \in checkpoints' : TakenFrom(c, chain)
  BY <1>1, <1>3, <1>4
<1>6. \A c \in checkpoints' : Height[c.block] <= anchor'
  <2>1. CASE due
    <3>1. ASSUME NEW c \in checkpoints
          PROVE  Height[c.block] <= h
      <4>1. Height[c.block] \in Nat /\ Height[c.block] < Len(chain)
        BY <1>4, LevelsAreNatural DEF TakenFrom, StorageTyped, TypeOK
      <4> QED
        BY <4>1, <1>2
    <3>2. Height[new.block] <= h
      BY <1>3
    <3> QED
      BY <1>1, <2>1, <3>1, <3>2
  <2>2. CASE ~ due
    BY <1>1, <1>4, <2>2
  <2> QED
    BY <2>1, <2>2
<1>7. MemoryOnDisk'
  BY <1>1 DEF MemoryOnDisk, Running
<1>8. Undoable' /\ Checkpointed'
  BY <1>1, <1>5, <1>6 DEF Undoable, Checkpointed
<1>9. Sealed'
  <2>1. ASSUME log = seal.log
        PROVE  chain = saved
    BY <2>1, <1>1, <1>2, OneChainWritten DEF Sealed
  <2> QED
    BY <1>1, <1>5, <2>1 DEF Sealed
<1> QED
  BY <1>7, <1>8, <1>9

LEMMA SealIsDurable ==
    ASSUME StorageTyped, OneSaveSealed, Durable, ~ stray, Seal
    PROVE  MemoryOnDisk' /\ Undoable' /\ Checkpointed' /\ Sealed'
<1>1. /\ step = "files" /\ replaced = NumFiles /\ Running
      /\ seal' = [files |-> files, log |-> log] /\ saved' = chain
      /\ step' \in {"logged", "idle"} /\ save' \in {save, NoSave}
      /\ UNCHANGED <<chain, utxo, anchor, log, files, checkpoints>>
      /\ MemoryOnDisk /\ Undoable /\ Checkpointed /\ Sealed
  BY DEF Seal, memory, Durable, Running
<1>2. save.todo = <<>> /\ save'.todo = <<>> /\ save'.kind \in {save.kind, "none"}
  BY <1>1 DEF StorageTyped, SaveKept, NoSave
<1>3. /\ Linked(chain) /\ utxo = chain /\ Written(log, chain, Len(chain))
  BY <1>1, <1>2, WholeChainWritten
<1>4. \A i \in File : files[i] = chain
  BY <1>1, <1>3 DEF OneSaveSealed, File
<1>5. MemoryOnDisk'
  BY <1>1, <1>2 DEF MemoryOnDisk, Running
<1>6. Undoable'
  <2>1. CASE save' = NoSave
    BY <2>1 DEF Undoable, NoSave
  <2>2. CASE save' = save
    BY <2>2, <1>1 DEF Undoable
  <2> QED
    BY <1>1, <2>1, <2>2
<1>7. Checkpointed'
  BY <1>1 DEF Checkpointed
<1>8. Sealed'
  <2>1. seal'.files = files /\ seal'.log = log /\ Len(log) \in Nat
    BY <1>1 DEF StorageTyped, TypeOK
  <2>2. \A c \in checkpoints : TakenFrom(c, chain)
    BY <1>1 DEF Checkpointed
  <2>3. Len(seal'.log) <= Len(log')
    BY <1>1, <2>1
  <2>4. Written(seal'.log, saved', Len(saved')) /\ Linked(saved')
    BY <1>1, <1>3, <2>1
  <2>5. \A i \in File : seal'.files[i] = saved'
    BY <1>1, <1>4, <2>1
  <2>6. \A c \in checkpoints' : TakenFrom(c, saved')
    BY <1>1, <2>2
  <2> QED
    BY <2>3, <2>4, <2>5, <2>6 DEF Sealed
<1> QED
  BY <1>5, <1>6, <1>7, <1>8

\* A save that fails and leaves block files and chain together leaves memory
\* with a chain that is on disk, and every checkpoint on it.
LEMMA FailureIsDurable ==
    ASSUME StorageTyped, Durable, ~ stray, ~ stray',
           NEW error \in {"OSError", "RuntimeError"}, SaveFails(error)
    PROVE  MemoryOnDisk' /\ Undoable' /\ Checkpointed' /\ Sealed'
<1> DEFINE undone == Undoes(save.kind, error)
<1>1. /\ step \in {"blocks", "files"} /\ Running /\ save.kind # "none"
      /\ log' \in TornLog /\ LoadedChain(log') = chain'
      /\ undone => chain' = save.chain /\ utxo' = save.utxo
      /\ ~ undone => chain' = chain /\ utxo' = utxo
      /\ step' = "idle" /\ save' = NoSave
      /\ UNCHANGED <<anchor, files, seal, checkpoints, saved>>
      /\ MemoryOnDisk /\ Undoable /\ Checkpointed /\ Sealed
  BY DEF SaveFails, Durable, Running
<1>2. log \in Lines /\ log' \in Lines /\ (log' = log \/ log' = Append(log, NoBlock))
  BY <1>1, TornLogTyped DEF StorageTyped, TypeOK, Lines
<1>3. Linked(chain) /\ utxo = chain
  BY <1>1 DEF MemoryOnDisk
<1>4. undone => save.kind \in {"mined", "reorg"}
  BY <1>1 DEF Undoes, MemoryOnDisk
<1>5. undone => /\ Linked(save.chain) /\ save.utxo = save.chain
                /\ Len(save.chain) < Len(chain)
                /\ step = "blocks" => \A c \in checkpoints : TakenFrom(c, save.chain)
  BY <1>1, <1>4 DEF Undoable
<1> HIDE DEF undone
<1>6. Linked(chain') /\ utxo' = chain'
  BY <1>1, <1>3, <1>5
<1>7. Written(log', chain', Len(chain'))
  <2>1. PICK l \in Lines : l = log'
    BY <1>2
  <2>2. PICK c : c = chain'
    OBVIOUS
  <2>3. Written(l, c, Len(c))
    BY <1>1, <1>6, <2>1, <2>2, LoadedIsWritten
  <2> QED
    BY <2>1, <2>2, <2>3
<1>8. log' = log
  <2> SUFFICES ASSUME log' = Append(log, NoBlock) PROVE FALSE
    BY <1>2
  <2>1. NoBlock \in ToSet(Append(log, NoBlock))
    <3> DEFINE l == Append(log, NoBlock)
    <3>1. l \in Lines /\ Len(l) \in DOMAIN l /\ l[Len(l)] = NoBlock
      BY <1>2 DEF Lines
    <3> HIDE DEF l
    <3>2. NoBlock \in ToSet(l)
      BY <3>1 DEF ToSet
    <3> QED
      BY <3>2 DEF l
  <2>2. chain' = <<>>
    BY <1>1, <2>1 DEF LoadedChain
  <2> QED
    BY <1>6, <2>2 DEF Linked
<1>9. undone => step = "blocks"
  <2> SUFFICES ASSUME undone, step = "files" PROVE FALSE
    BY <1>1
  <2>1. save.todo = <<>>
    BY DEF StorageTyped, SaveKept
  <2>2. Written(log, chain, Len(chain)) /\ chain \in Seq(Known)
    BY <2>1, <1>1, WholeChainWritten DEF Linked
  <2>3. Written(log, save.chain, Len(save.chain)) /\ Linked(save.chain)
    BY <1>1, <1>5, <1>7, <1>8
  <2>4. chain = save.chain
    BY <1>3, <2>2, <2>3, OneChainWritten
  <2>5. Len(chain) \in Nat
    BY <2>2
  <2> QED
    BY <1>5, <2>4, <2>5
<1>10. MemoryOnDisk'
  <2>1. /\ save'.todo = <<>> /\ save'.kind = "none"
    BY <1>1 DEF NoSave
  <2>2. PICK c : c = chain'
    OBVIOUS
  <2>3. Rest(c, <<>>) /\ Len(c) - Len(<<>>) = Len(c)
    BY <1>6, <2>2, NothingToWrite DEF Linked
  <2> QED
    BY <1>6, <1>7, <2>1, <2>2, <2>3 DEF MemoryOnDisk
<1>11. Undoable'
  BY <1>1 DEF Undoable, NoSave
<1>12. Checkpointed'
  <2>1. \A c \in checkpoints : Height[c.block] <= anchor /\ TakenFrom(c, chain)
    BY <1>1 DEF Checkpointed
  <2>2. \A c \in checkpoints : TakenFrom(c, chain')
    BY <1>1, <1>5, <1>9, <2>1
  <2> QED
    BY <1>1, <2>1, <2>2 DEF Checkpointed
<1>13. Sealed'
  BY <1>1, <1>8 DEF Sealed
<1> QED
  BY <1>10, <1>11, <1>12, <1>13

LEMMA CrashIsDurable ==
    ASSUME StorageTyped, Durable, ~ stray, Crash
    PROVE  MemoryOnDisk' /\ Undoable' /\ Checkpointed' /\ Sealed'
<1>1. /\ step' = "down" /\ save' = NoSave /\ log' \in TornLog /\ Sealed
      /\ UNCHANGED <<files, seal, checkpoints, saved>>
  BY DEF Crash, Durable
<1>2. /\ log \in Lines /\ (log' = log \/ log' = Append(log, NoBlock))
      /\ seal.log \in Lines
  BY <1>1, TornLogTyped DEF StorageTyped, TypeOK, Lines
<1>3. MemoryOnDisk' /\ Undoable' /\ Checkpointed'
  BY <1>1 DEF MemoryOnDisk, Undoable, Checkpointed, Running, NoSave
<1>4. Sealed'
  <2>1. CASE log' = log
    BY <1>1, <2>1 DEF Sealed
  <2>2. CASE log' = Append(log, NoBlock)
    <3>1. Len(log') = Len(log) + 1 /\ Len(log) \in Nat /\ Len(seal.log) \in Nat
      BY <1>2, <2>2 DEF Lines
    <3>2. Len(seal.log) < Len(log')
      BY <1>1, <3>1 DEF Sealed
    <3> QED
      BY <1>1, <3>1, <3>2 DEF Sealed
  <2> QED
    BY <1>2, <2>1, <2>2
<1> QED
  BY <1>3, <1>4

LEMMA StartIsDurable ==
    ASSUME StorageTyped, Durable, ~ stray, Start
    PROVE  MemoryOnDisk' /\ Undoable' /\ Checkpointed' /\ Sealed'
<1>1. Sealed /\ UNCHANGED <<files, seal, checkpoints, saved, log>>
  BY DEF Start, StartFast, StartFull, StartOver, Durable
<1>2. /\ chain' = saved /\ utxo' = saved
      /\ \A c \in checkpoints : Height[c.block] <= anchor'
      /\ step = "down" /\ step' = "idle" /\ save' = save
      /\ log = seal.log
  BY <1>1, StartFindsSaved
<1>3. save'.todo = <<>> /\ save'.kind = "none"
  BY <1>2 DEF StorageTyped, SaveKept, NoSave
<1>4. /\ Linked(saved) /\ Written(log, saved, Len(saved))
      /\ \A c \in checkpoints : TakenFrom(c, saved)
      /\ Rest(saved, <<>>) /\ Len(saved) - Len(<<>>) = Len(saved)
  BY <1>1, <1>2, NothingToWrite DEF Sealed, Linked
<1>5. MemoryOnDisk'
  BY <1>1, <1>2, <1>3, <1>4 DEF MemoryOnDisk
<1>6. Undoable'
  BY <1>3 DEF Undoable
<1>7. Checkpointed'
  BY <1>1, <1>2, <1>4 DEF Checkpointed
<1>8. Sealed'
  BY <1>1 DEF Sealed
<1> QED
  BY <1>5, <1>6, <1>7, <1>8

LEMMA DurableNext ==
    StorageTyped /\ OneSaveSealed /\ Durable /\ [Next]_vars => Durable'
<1> SUFFICES ASSUME StorageTyped, OneSaveSealed, Durable, [Next]_vars, ~ stray'
             PROVE  MemoryOnDisk' /\ Undoable' /\ Checkpointed' /\ Sealed'
  BY DEF Durable
<1> DEFINE Goal == MemoryOnDisk' /\ Undoable' /\ Checkpointed' /\ Sealed'
<1>1. ASSUME NEW b \in Block, BeginAppend(b) PROVE Goal
  BY <1>1, AppendIsDurable DEF BeginAppend
<1>2. ASSUME NEW c \in Branches, BeginReorg(c) PROVE Goal
  BY <1>2, ReorgIsDurable DEF BeginReorg
<1>3. ASSUME NEW c \in Branches, StoreFork(c) PROVE Goal
  BY <1>3 DEF StoreFork
<1>4. ASSUME NEW c \in checkpoints, RestoreCheckpoint(c) PROVE Goal
  BY <1>4 DEF RestoreCheckpoint
<1>5. CASE AppendBlock
  BY <1>5, WriteIsDurable DEF AppendBlock
<1>6. CASE BeginFiles
  BY <1>6, FilesAreDurable DEF BeginFiles
<1>7. CASE ReplaceFile
  <2>1. /\ step = "files" /\ ~ stray
        /\ UNCHANGED <<chain, utxo, anchor, save, step, log, seal, checkpoints, saved>>
    BY <1>7 DEF ReplaceFile, memory
  <2> QED
    BY <2>1 DEF Durable, MemoryOnDisk, Undoable, Checkpointed, Sealed, Running
<1>8. CASE Seal
  BY <1>8, SealIsDurable DEF Seal
<1>9. CASE CommitWal
  <2>1. /\ step = "logged" /\ step' = "idle" /\ save' = NoSave /\ ~ stray
        /\ UNCHANGED <<chain, utxo, anchor, log, files, seal, checkpoints, saved>>
    BY <1>9 DEF CommitWal, memory
  <2>2. save.todo = <<>> /\ save'.todo = <<>> /\ save'.kind = "none"
    BY <2>1 DEF StorageTyped, SaveKept, NoSave
  <2> QED
    BY <2>1, <2>2 DEF Durable, MemoryOnDisk, Undoable, Checkpointed, Sealed, Running
<1>10. ASSUME NEW error \in {"OSError", "RuntimeError"}, SaveFails(error) PROVE Goal
  BY <1>10, FailureIsDurable DEF SaveFails
<1>11. CASE Crash
  BY <1>11, CrashIsDurable DEF Crash
<1>12. CASE RefuseToStart
  BY <1>12 DEF RefuseToStart, memory, disk, Durable, MemoryOnDisk, Undoable, Checkpointed,
               Sealed, Running
<1>13. CASE Start
  BY <1>13, StartIsDurable DEF Start, StartFast, StartFull, StartOver
<1>14. CASE UNCHANGED vars
  BY <1>14 DEF vars, memory, disk, Durable, MemoryOnDisk, Undoable, Checkpointed,
               Sealed, Running
<1> QED
  BY <1>1, <1>2, <1>3, <1>4, <1>5, <1>6, <1>7, <1>8, <1>9, <1>10, <1>11, <1>12, <1>13, <1>14
     DEF Next

LEMMA DurableAlways == Spec => [](StorageTyped /\ OneSaveSealed /\ Durable)
<1>1. Init => StorageTyped /\ OneSaveSealed /\ Durable
  BY StorageTypedInit, SealedInit, DurableInit
<1>2. StorageTyped /\ OneSaveSealed /\ Durable /\ [Next]_vars
          => (StorageTyped /\ OneSaveSealed /\ Durable)'
  BY StorageTypedNext, SealedNext, DurableNext
<1> QED
  BY <1>1, <1>2, PTL DEF Spec

\* Crashes between any two steps of any save, and write errors, do not change
\* what a node that starts finds: unless block files and chain had parted, the
\* chain of the last completed save and the UTXO set of that chain.
THEOREM StartedOnLastSave == Spec => StartFindsLastSave
<1>1. ASSUME StorageTyped, Durable, Start, ~ stray
      PROVE  chain' = saved /\ utxo' = saved
  BY <1>1, StartFindsSaved DEF Durable
<1>2. StorageTyped /\ Durable => [Start /\ ~ stray => chain' = saved /\ utxo' = saved]_vars
  BY <1>1
<1> QED
  BY <1>2, DurableAlways, PTL DEF Spec, StartFindsLastSave

\* Reorganisations, restarts and failed saves leave every block a checkpoint
\* was taken of on the chain.
THEOREM CheckpointsStay == Spec => []CheckpointsStayOnChain
<1>1. Durable => CheckpointsStayOnChain
  BY DEF Durable, Checkpointed, TakenFrom, Running, CheckpointsStayOnChain
<1> QED
  BY <1>1, DurableAlways, PTL


=============================================================================
