--------------------------- MODULE FinalityProofs ---------------------------
(***************************************************************************)
(* Proofs about Finality for every validator set, voting power, block tree *)
(* and number of restarts and reorganisations.  The argument is the usual  *)
(* one of intersecting quorums; what has to be shown of this code is that  *)
(* the power it accumulates stays the power of the votes it keeps, and     *)
(* that every vote it keeps was signed.                                    *)
(***************************************************************************)
EXTENDS Finality, TLAPS

-----------------------------------------------------------------------------
(* Voting power                                                            *)

LEMMA PowerInNat ==
    ASSUME NEW S \in SUBSET Validator
    PROVE  Power[S] \in Nat
BY PowerIsMeasure DEF PowerIsMeasure

LEMMA PowerMonotone ==
    ASSUME NEW T \in SUBSET Validator, NEW S \in SUBSET T
    PROVE  Power[S] <= Power[T]
<1>1. S \cap (T \ S) = {} /\ S \cup (T \ S) = T
  OBVIOUS
<1>2. Power[T] = Power[S] + Power[T \ S]
  <2>1. Power[S \cup (T \ S)] = Power[S] + Power[T \ S]
    BY <1>1, PowerIsMeasure DEF PowerIsMeasure
  <2> QED
    BY <1>1, <2>1
<1>3. Power[S] \in Nat /\ Power[T \ S] \in Nat
  BY PowerInNat
<1> QED
  BY <1>2, <1>3

\* Counting a new voter adds exactly that validator's power.
LEMMA PowerOfNewVoter ==
    ASSUME NEW S \in SUBSET Validator, NEW v \in Validator, v \notin S
    PROVE  Power[S \cup {v}] = Power[S] + Power[{v}]
<1>1. {v} \in SUBSET Validator /\ S \cap {v} = {}
  OBVIOUS
<1> QED
  BY <1>1, PowerIsMeasure DEF PowerIsMeasure

\* Two sets of validators have no more power between them than all the
\* validators and the ones they share.
LEMMA PowerOfOverlap ==
    ASSUME NEW S \in SUBSET Validator, NEW T \in SUBSET Validator
    PROVE  Power[S] + Power[T] <= Power[Validator] + Power[S \cap T]
<1>1. Power[S \cup (T \ S)] = Power[S] + Power[T \ S]
  BY PowerIsMeasure DEF PowerIsMeasure
<1>2. Power[T] = Power[T \ S] + Power[S \cap T]
  <2>1. (T \ S) \cap (S \cap T) = {} /\ (T \ S) \cup (S \cap T) = T
    OBVIOUS
  <2>2. Power[(T \ S) \cup (S \cap T)] = Power[T \ S] + Power[S \cap T]
    BY <2>1, PowerIsMeasure DEF PowerIsMeasure
  <2> QED
    BY <2>1, <2>2
<1>3. Power[S \cup (T \ S)] <= Power[Validator]
  BY PowerMonotone, Validator \in SUBSET Validator
<1>4. /\ Power[S] \in Nat /\ Power[T] \in Nat /\ Power[T \ S] \in Nat
      /\ Power[S \cap T] \in Nat /\ Power[Validator] \in Nat
      /\ Power[S \cup (T \ S)] \in Nat
  BY PowerInNat
<1> QED
  BY <1>1, <1>2, <1>3, <1>4

-----------------------------------------------------------------------------
(* Type correctness                                                        *)

LEMMA HeightTyped == \A b \in Block : Height[b] \in Heights
BY ConstantsAreTyped DEF ConstantsAreTyped, Heights

LEMMA NextTypeOK == TypeOK /\ [Next]_vars => TypeOK'
<1> SUFFICES ASSUME TypeOK, [Next]_vars
             PROVE  TypeOK'
  OBVIOUS
<1> USE ConstantsAreTyped, HeightTyped DEF ConstantsAreTyped
<1>1. ASSUME NEW v \in Validator, NEW b \in Block, RecordVote(v, b)
      PROVE  TypeOK'
  <2>1. CASE RejectDoubleSign(v, b)
    BY <2>1 DEF RejectDoubleSign, Slash, TypeOK
  <2>2. CASE LateVote(v, b)
    BY <2>2 DEF LateVote, ReceiveVote, TypeOK
  <2>3. CASE CountVote(v, b)
    <3>1. AddedPower(v, b) \in Nat
      BY PowerInNat DEF AddedPower, TypeOK
    <3> QED
      BY <2>3, <3>1 DEF CountVote, ReceiveVote, TypeOK
  <2>4. CASE CertifyVote(v, b)
    BY <2>4 DEF CertifyVote, ReceiveVote, TypeOK
  <2> QED
    BY <1>1, <2>1, <2>2, <2>3, <2>4 DEF RecordVote
<1>2. CASE PersistCertificates
  BY <1>2 DEF PersistCertificates, FileContents, memory, TypeOK
<1>3. CASE PersistFails
  BY <1>3 DEF PersistFails, memory, TypeOK
<1>4. CASE BeginReorg
  BY <1>4 DEF BeginReorg, Snapshot, memory, TypeOK
<1>5. CASE CommitReorg
  BY <1>5 DEF CommitReorg, NoSnapshot, NoVotes, NoPower, NoSignatures, memory, TypeOK
<1>6. CASE RollbackReorg
  BY <1>6 DEF RollbackReorg, NoSnapshot, NoVotes, NoPower, NoSignatures,
              NothingFinal, TypeOK
<1>7. CASE Restart
  BY <1>7 DEF Restart, NoSnapshot, NoVotes, NoPower, NoSignatures, IndexOf, TypeOK
<1>8. CASE UNCHANGED vars
  BY <1>8 DEF vars, TypeOK
<1> QED
  BY <1>1, <1>2, <1>3, <1>4, <1>5, <1>6, <1>7, <1>8 DEF Next

LEMMA InitTypeOK == Init => TypeOK
BY ConstantsAreTyped DEF ConstantsAreTyped, Init, TypeOK, NoSnapshot, NoVotes, NoPower,
                         NoSignatures, NothingFinal

\* Every reachable state of the gadget is well typed, for every validator set:
\* record_vote, restore and __init__ leave each dictionary with the keys and
\* the kind of values the others expect.
THEOREM TypeCorrect == Spec => []TypeOK
BY InitTypeOK, NextTypeOK, PTL DEF Spec

-----------------------------------------------------------------------------
(* Certificates are backed by a quorum of signatures                       *)

\* A tally: votes that were signed, and exactly their power.
Tallied(votes, power) ==
    \A b \in Block : votes[b] \subseteq SignersOf(b) /\ power[b] = Power[votes[b]]

\* A set of certificates, each signed by a quorum.
Backed(c) ==
    \A b \in Block : c[b] # {} => c[b] \subseteq SignersOf(b) /\ Power[c[b]] >= Quorum

HonestSignOnce ==
    \A v \in Validator \ Byzantine : \A b, c \in Block :
        <<v, b>> \in signed /\ <<v, c>> \in signed /\ Height[b] = Height[c] => b = c

\* CertificatesHaveQuorum is not inductive: it needs the tallies, of the
\* running votes and of the snapshot a failed reorganisation brings back.
QuorumInv ==
    /\ TypeOK
    /\ Tallied(pendingVotes, pendingPower)
    /\ Tallied(snap.votes, snap.power)
    /\ Backed(certs)
    /\ Backed(disk)
    /\ \A c \in issued : c[2] \subseteq SignersOf(c[1]) /\ Power[c[2]] >= Quorum
    /\ HonestSignOnce

LEMMA EmptyTally == Tallied(NoVotes, NoPower) /\ Backed(NoVotes)
BY PowerIsMeasure DEF PowerIsMeasure, Tallied, Backed, NoVotes, NoPower

LEMMA SigningKeepsHonest ==
    ASSUME TypeOK, HonestSignOnce, NEW v \in Validator, NEW b \in Block,
           MaySign(v, b), signed' = signed \cup {<<v, b>>}
    PROVE  HonestSignOnce'
BY DEF HonestSignOnce, MaySign

LEMMA QuorumInvInit == Init => QuorumInv
<1> SUFFICES ASSUME Init
             PROVE  QuorumInv
  OBVIOUS
<1>1. TypeOK
  BY InitTypeOK
<1>2. HonestSignOnce
  BY DEF Init, HonestSignOnce
<1> QED
  BY <1>1, <1>2, EmptyTally DEF Init, QuorumInv, NoSnapshot

LEMMA QuorumInvNext == QuorumInv /\ [Next]_vars => QuorumInv'
<1> SUFFICES ASSUME QuorumInv, [Next]_vars
             PROVE  QuorumInv'
  OBVIOUS
<1>t. TypeOK /\ TypeOK'
  BY NextTypeOK DEF QuorumInv
\* A vote signed, and nothing else but what the vote is counted for.
<1>v. ASSUME NEW v \in Validator, NEW b \in Block,
             MaySign(v, b), signed' = signed \cup {<<v, b>>}
      PROVE  /\ HonestSignOnce'
             /\ \A c \in Block : SignersOf(c) \subseteq SignersOf(c)'
             /\ v \in SignersOf(b)'
  BY <1>v, <1>t, SigningKeepsHonest DEF QuorumInv, SignersOf
<1>1. ASSUME NEW v \in Validator, NEW b \in Block, RejectDoubleSign(v, b)
      PROVE  QuorumInv'
  <2>1. /\ HonestSignOnce'
        /\ \A c \in Block : SignersOf(c) \subseteq SignersOf(c)'
    BY <1>1, <1>v DEF RejectDoubleSign, Slash
  <2> QED
    BY <1>1, <1>t, <2>1 DEF RejectDoubleSign, Slash, QuorumInv, Tallied, Backed, TypeOK
<1>2. ASSUME NEW v \in Validator, NEW b \in Block, LateVote(v, b)
      PROVE  QuorumInv'
  <2>1. /\ HonestSignOnce'
        /\ \A c \in Block : SignersOf(c) \subseteq SignersOf(c)'
    BY <1>2, <1>v DEF LateVote, ReceiveVote
  <2> QED
    BY <1>2, <1>t, <2>1 DEF LateVote, QuorumInv, Tallied, Backed, TypeOK
<1>3. ASSUME NEW v \in Validator, NEW b \in Block, CountVote(v, b)
      PROVE  QuorumInv'
  <2>1. /\ HonestSignOnce'
        /\ \A c \in Block : SignersOf(c) \subseteq SignersOf(c)'
        /\ v \in SignersOf(b)'
    BY <1>3, <1>v DEF CountVote, ReceiveVote
  <2>2. AddedPower(v, b) = Power[pendingVotes[b] \cup {v}]
    <3>1. pendingVotes[b] \in SUBSET Validator /\ v \notin pendingVotes[b]
      BY <1>3, <1>t DEF CountVote, FirstVote, TypeOK
    <3>2. pendingPower[b] = Power[pendingVotes[b]]
      BY DEF QuorumInv, Tallied
    <3> QED
      BY <3>1, <3>2, PowerOfNewVoter DEF AddedPower
  <2>3. Tallied(pendingVotes, pendingPower)'
    BY <1>3, <1>t, <2>1, <2>2 DEF CountVote, QuorumInv, Tallied, TypeOK
  <2> QED
    BY <1>3, <1>t, <2>1, <2>3 DEF CountVote, QuorumInv, Tallied, Backed, TypeOK
<1>4. ASSUME NEW v \in Validator, NEW b \in Block, CertifyVote(v, b)
      PROVE  QuorumInv'
  <2> DEFINE S == pendingVotes[b] \cup {v}
  <2>1. /\ HonestSignOnce'
        /\ \A c \in Block : SignersOf(c) \subseteq SignersOf(c)'
        /\ v \in SignersOf(b)'
    BY <1>4, <1>v DEF CertifyVote, ReceiveVote
  <2>2. AddedPower(v, b) = Power[S]
    <3>1. pendingVotes[b] \in SUBSET Validator /\ v \notin pendingVotes[b]
      BY <1>4, <1>t DEF CertifyVote, FirstVote, TypeOK
    <3>2. pendingPower[b] = Power[pendingVotes[b]]
      BY DEF QuorumInv, Tallied
    <3> QED
      BY <3>1, <3>2, PowerOfNewVoter DEF AddedPower
  <2>3. S \subseteq SignersOf(b)' /\ Power[S] >= Quorum
    BY <1>4, <2>1, <2>2 DEF CertifyVote, ReachesQuorum, QuorumInv, Tallied
  <2>4. Tallied(pendingVotes, pendingPower)'
    BY <1>4, <1>t, <2>1, PowerIsMeasure
       DEF CertifyVote, QuorumInv, Tallied, TypeOK, PowerIsMeasure
  <2>5. Backed(certs)'
    BY <1>4, <1>t, <2>1, <2>3 DEF CertifyVote, QuorumInv, Backed, TypeOK
  <2>6. (\A c \in issued : c[2] \subseteq SignersOf(c[1]) /\ Power[c[2]] >= Quorum)'
    <3> SUFFICES ASSUME NEW c \in issued'
                 PROVE  c[2] \subseteq SignersOf(c[1])' /\ Power[c[2]] >= Quorum
      OBVIOUS
    <3>1. CASE c \in issued
      <4>1. c[1] \in Block
        BY <3>1, <1>t DEF TypeOK
      <4> QED
        BY <3>1, <4>1, <2>1 DEF QuorumInv
    <3>2. CASE c = <<b, S>>
      BY <3>2, <2>3
    <3> QED
      BY <3>1, <3>2, <1>4 DEF CertifyVote
  <2> QED
    BY <1>4, <1>t, <2>1, <2>4, <2>5, <2>6 DEF CertifyVote, QuorumInv, Tallied, Backed, TypeOK
<1>5. CASE PersistCertificates
  BY <1>5, <1>t DEF PersistCertificates, FileContents, memory, QuorumInv, Tallied, Backed, HonestSignOnce, SignersOf
<1>6. CASE PersistFails
  BY <1>6, <1>t DEF PersistFails, memory, QuorumInv, Tallied, Backed, HonestSignOnce, SignersOf
<1>7. CASE BeginReorg
  BY <1>7, <1>t DEF BeginReorg, Snapshot, memory, QuorumInv, Tallied, Backed, HonestSignOnce, SignersOf
<1>8. CASE CommitReorg
  BY <1>8, <1>t, EmptyTally DEF CommitReorg, NoSnapshot, memory, QuorumInv, Tallied, Backed, HonestSignOnce, SignersOf
<1>9. CASE RollbackReorg
  BY <1>9, <1>t, EmptyTally DEF RollbackReorg, NoSnapshot, QuorumInv, Tallied, Backed, HonestSignOnce, SignersOf
<1>10. CASE Restart
  BY <1>10, <1>t, EmptyTally DEF Restart, NoSnapshot, QuorumInv, Tallied, Backed, HonestSignOnce, SignersOf
<1>11. CASE UNCHANGED vars
  BY <1>11, <1>t DEF vars, QuorumInv, Tallied, Backed, HonestSignOnce, SignersOf
<1> QED
  BY <1>1, <1>2, <1>3, <1>4, <1>5, <1>6, <1>7, <1>8, <1>9, <1>10, <1>11 DEF Next, RecordVote

LEMMA QuorumInvAlways == Spec => []QuorumInv
BY QuorumInvInit, QuorumInvNext, PTL DEF Spec

\* A certificate in memory or in the file always carries signatures worth the
\* quorum, for every voting power, restart and rolled-back reorganisation.
THEOREM QuorumTheorem == Spec => []CertificatesHaveQuorum
<1>1. QuorumInv => CertificatesHaveQuorum
  BY DEF QuorumInv, Backed, CertificatesHaveQuorum
<1> QED
  BY <1>1, QuorumInvAlways, PTL

\* Two quorums overlap in more power than the Byzantine validators have.
QuorumsIntersect == 2 * Quorum > Power[Validator] + Power[Byzantine]

LEMMA OnePerHeight ==
    ASSUME QuorumsIntersect, QuorumInv
    PROVE  OneCertificatePerHeight
<1> SUFFICES ASSUME NEW c \in issued, NEW d \in issued,
                    Height[c[1]] = Height[d[1]], c[1] # d[1]
             PROVE  FALSE
  BY DEF OneCertificatePerHeight
<1>1. /\ c[1] \in Block /\ d[1] \in Block
      /\ c[2] \in SUBSET Validator /\ d[2] \in SUBSET Validator
  BY DEF QuorumInv, TypeOK
<1>2. /\ c[2] \subseteq SignersOf(c[1]) /\ Power[c[2]] >= Quorum
      /\ d[2] \subseteq SignersOf(d[1]) /\ Power[d[2]] >= Quorum
  BY DEF QuorumInv
<1>3. c[2] \cap d[2] \subseteq Byzantine
  BY <1>1, <1>2 DEF QuorumInv, HonestSignOnce, SignersOf
<1>4. Power[c[2] \cap d[2]] <= Power[Byzantine]
  BY <1>3, PowerMonotone, ConstantsAreTyped DEF ConstantsAreTyped
<1>5. Power[c[2]] + Power[d[2]] <= Power[Validator] + Power[c[2] \cap d[2]]
  BY <1>1, PowerOfOverlap
<1>6. /\ Power[c[2]] \in Nat /\ Power[d[2]] \in Nat /\ Power[Validator] \in Nat
      /\ Power[c[2] \cap d[2]] \in Nat /\ Power[Byzantine] \in Nat /\ Quorum \in Nat
  BY <1>1, PowerInNat, ConstantsAreTyped DEF ConstantsAreTyped
<1> QED
  BY <1>2, <1>4, <1>5, <1>6 DEF QuorumsIntersect

\* Agreement: when quorums intersect, record_vote never certifies two blocks of
\* one height, in one session or across restarts that lose the votes and the
\* detector.
THEOREM Agreement ==
    ASSUME QuorumsIntersect
    PROVE  Spec => []OneCertificatePerHeight
<1>1. QuorumInv => OneCertificatePerHeight
  BY OnePerHeight
<1> QED
  BY <1>1, QuorumInvAlways, PTL

-----------------------------------------------------------------------------
(* Slashing                                                                *)

\* What a detector remembers was signed, at the height it is remembered for.
RecordsSigned(d) ==
    \A v \in Validator, h \in Heights :
        d[v][h] # NoBlock => <<v, d[v][h]>> \in signed /\ Height[d[v][h]] = h

\* HonestNeverSlashed is not inductive without what the detector holds, now
\* and in the snapshot a failed reorganisation brings back.
SlashInv ==
    /\ RecordsSigned(detector)
    /\ RecordsSigned(snap.signatures)
    /\ slashed \subseteq Byzantine

LEMMA NothingRecorded == RecordsSigned(NoSignatures)
BY DEF RecordsSigned, NoSignatures

LEMMA ReceivedRecorded ==
    ASSUME TypeOK, SlashInv, NEW v \in Validator, NEW b \in Block,
           ReceiveVote(v, b), UNCHANGED <<slashed, snap>>
    PROVE  SlashInv'
<1>1. /\ signed \subseteq signed' /\ <<v, b>> \in signed'
      /\ detector' = [detector EXCEPT ![v][Height[b]] = b]
  BY DEF ReceiveVote
<1>2. Height[b] \in Heights /\ detector \in [Validator -> [Heights -> Block \cup {NoBlock}]]
  BY HeightTyped DEF TypeOK
<1>3. RecordsSigned(detector)'
  <2> SUFFICES ASSUME NEW w \in Validator, NEW h \in Heights, detector'[w][h] # NoBlock
               PROVE  <<w, detector'[w][h]>> \in signed' /\ Height[detector'[w][h]] = h
    BY DEF RecordsSigned
  <2>1. CASE w = v /\ h = Height[b]
    BY <2>1, <1>1, <1>2
  <2>2. CASE ~(w = v /\ h = Height[b])
    <3>1. detector'[w][h] = detector[w][h]
      BY <2>2, <1>1, <1>2
    <3> QED
      BY <3>1, <1>1 DEF SlashInv, RecordsSigned
  <2> QED
    BY <2>1, <2>2
<1>4. RecordsSigned(snap.signatures)'
  BY <1>1 DEF SlashInv, RecordsSigned
<1> QED
  BY <1>3, <1>4 DEF SlashInv

LEMMA SlashInvNext ==
    ASSUME TypeOK, SlashInv, [Next]_vars
    PROVE  SlashInv'
<1>1. ASSUME NEW v \in Validator, NEW b \in Block, RejectDoubleSign(v, b)
      PROVE  SlashInv'
  <2> DEFINE c == detector[v][Height[b]]
  <2>1. c \in Block /\ c # b /\ c # NoBlock /\ Height[b] \in Heights
    BY <1>1, HeightTyped DEF RejectDoubleSign, Equivocates, TypeOK
  <2>2. <<v, c>> \in signed /\ Height[c] = Height[b]
    BY <2>1 DEF SlashInv, RecordsSigned
  <2>3. v \in Byzantine
    BY <1>1, <2>1, <2>2 DEF RejectDoubleSign, MaySign
  <2>4. signed \subseteq signed' /\ slashed' = slashed \cup {v} /\ UNCHANGED <<detector, snap>>
    BY <1>1 DEF RejectDoubleSign, Slash
  <2> QED
    BY <2>3, <2>4 DEF SlashInv, RecordsSigned
<1>2. ASSUME NEW v \in Validator, NEW b \in Block,
             LateVote(v, b) \/ CountVote(v, b) \/ CertifyVote(v, b)
      PROVE  SlashInv'
  BY <1>2, ReceivedRecorded DEF LateVote, CountVote, CertifyVote
<1>3. CASE PersistCertificates \/ PersistFails \/ UNCHANGED vars
  BY <1>3 DEF PersistCertificates, PersistFails, vars, memory, SlashInv, RecordsSigned
<1>4. CASE BeginReorg
  BY <1>4 DEF BeginReorg, Snapshot, memory, SlashInv, RecordsSigned
<1>5. CASE CommitReorg
  BY <1>5, NothingRecorded DEF CommitReorg, NoSnapshot, memory, SlashInv, RecordsSigned
<1>6. CASE RollbackReorg
  BY <1>6, NothingRecorded DEF RollbackReorg, NoSnapshot, SlashInv, RecordsSigned
<1>7. CASE Restart
  BY <1>7, NothingRecorded DEF Restart, NoSnapshot, SlashInv, RecordsSigned
<1> QED
  BY <1>1, <1>2, <1>3, <1>4, <1>5, <1>6, <1>7 DEF Next, RecordVote

\* A validator that signs at most one block per height is never slashed,
\* whatever order and however often its votes arrive, whatever the restarts
\* and rolled-back reorganisations between them.
THEOREM HonestSafe == Spec => []HonestNeverSlashed
<1>1. Init => SlashInv
  BY NothingRecorded DEF Init, SlashInv, NoSnapshot
<1>2. TypeOK /\ SlashInv /\ [Next]_vars => SlashInv'
  BY SlashInvNext
<1>3. SlashInv => HonestNeverSlashed
  BY DEF SlashInv, HonestNeverSlashed
<1> QED
  BY <1>1, <1>2, <1>3, TypeCorrect, PTL DEF Spec

-----------------------------------------------------------------------------
(* Durability: the certificate file is an append-only log                  *)

\* A certificate in force is one that was issued, is the one its height finds,
\* and is the one in the file if the file has any.
InForce ==
    /\ \A b \in Block : certs[b] # {} => <<b, certs[b]>> \in issued /\ certAt[Height[b]] = b
    /\ \A b \in Block : disk[b] # {} => certs[b] = disk[b]

\* Without rolled-back reorganisations no snapshot is ever restored.
NoRollback == MaxReorgs = 0 /\ reorgs = 0 /\ ~snap.taken

LEMMA NoRollbackAlways ==
    ASSUME MaxReorgs = 0
    PROVE  Spec => []NoRollback
<1>1. Init => NoRollback
  BY DEF Init, NoRollback, NoSnapshot
<1>2. NoRollback /\ [Next]_vars => NoRollback'
  BY DEF NoRollback, NoSnapshot, Next, RecordVote, RejectDoubleSign, LateVote, CountVote,
         CertifyVote, PersistCertificates, PersistFails, BeginReorg, CommitReorg,
         RollbackReorg, Restart, vars
<1> QED
  BY <1>1, <1>2, PTL DEF Spec

LEMMA InForceNext ==
    ASSUME TypeOK, InForce, NoRollback, OneCertificatePerHeight,
           OneCertificatePerHeight', [Next]_vars
    PROVE  InForce'
<1> USE DEF InForce, NoRollback
<1>1. ASSUME NEW v \in Validator, NEW b \in Block,
             RejectDoubleSign(v, b) \/ LateVote(v, b) \/ CountVote(v, b)
      PROVE  InForce'
  BY <1>1 DEF RejectDoubleSign, LateVote, CountVote
<1>2. ASSUME NEW v \in Validator, NEW b \in Block, CertifyVote(v, b)
      PROVE  InForce'
  <2> DEFINE S == pendingVotes[b] \cup {v}
  <2>1. /\ certs[b] = {} /\ disk[b] = {}
        /\ certs' = [certs EXCEPT ![b] = S]
        /\ certAt' = [certAt EXCEPT ![Height[b]] = b]
        /\ issued' = issued \cup {<<b, S>>}
        /\ UNCHANGED <<disk, snap, reorgs>>
    BY <1>2 DEF CertifyVote
  <2>2. /\ certs'[b] = S /\ certAt'[Height[b]] = b
        /\ \A c \in Block : c # b => certs'[c] = certs[c]
        /\ \A c \in Block : Height[c] # Height[b] => certAt'[Height[c]] = certAt[Height[c]]
    BY <2>1, HeightTyped DEF TypeOK
  <2>3. ASSUME NEW c \in Block, c # b, certs[c] # {}
        PROVE  Height[c] # Height[b]
    <3>1. <<c, certs[c]>> \in issued' /\ <<b, S>> \in issued'
      BY <2>1, <2>3
    <3>2. \A x, y \in issued' : Height[x[1]] = Height[y[1]] => x[1] = y[1]
      BY DEF OneCertificatePerHeight
    <3>3. Height[c] = Height[b] => c = b
      BY <3>1, <3>2
    <3> QED
      BY <2>3, <3>3
  <2>4. \A c \in Block : certs'[c] # {} => <<c, certs'[c]>> \in issued' /\ certAt'[Height[c]] = c
    BY <2>1, <2>2, <2>3
  <2>5. \A c \in Block : disk'[c] # {} => certs'[c] = disk'[c]
    BY <2>1, <2>2
  <2> QED
    BY <2>1, <2>4, <2>5
<1>3. CASE PersistCertificates
  BY <1>3 DEF PersistCertificates, FileContents, memory
<1>4. CASE PersistFails
  BY <1>4 DEF PersistFails, memory
<1>5. CASE BeginReorg \/ CommitReorg \/ RollbackReorg
  BY <1>5 DEF BeginReorg, CommitReorg, RollbackReorg
<1>6. CASE Restart
  <2>1. /\ certs' = disk /\ certAt' \in IndexOf(disk) /\ snap' = NoSnapshot
        /\ UNCHANGED <<disk, issued, reorgs>>
    BY <1>6 DEF Restart
  <2>2. ASSUME NEW b \in Block, disk[b] # {}
        PROVE  <<b, disk[b]>> \in issued /\ certAt'[Height[b]] = b
    <3> DEFINE here == {c \in Certified(disk) : Height[c] = Height[b]}
    <3>1. b \in here /\ Height[b] \in Heights
      BY <2>2, HeightTyped DEF Certified
    <3>2. certAt'[Height[b]] \in here
      BY <2>1, <3>1 DEF IndexOf
    <3>3. ASSUME NEW c \in here
          PROVE  c = b
      <4>1. c \in Block /\ <<c, disk[c]>> \in issued /\ <<b, disk[b]>> \in issued
        BY <2>2, <3>3 DEF Certified
      <4> QED
        BY <3>3, <4>1 DEF OneCertificatePerHeight
    <3> QED
      BY <2>2, <3>2, <3>3
  <2> QED
    BY <2>1, <2>2
<1>7. CASE UNCHANGED vars
  BY <1>7 DEF vars
<1> QED
  BY <1>1, <1>2, <1>3, <1>4, <1>5, <1>6, <1>7 DEF Next, RecordVote

LEMMA InForceAlways ==
    ASSUME QuorumsIntersect, MaxReorgs = 0
    PROVE  Spec => []InForce
<1>1. TypeOK /\ InForce /\ NoRollback /\ OneCertificatePerHeight
        /\ OneCertificatePerHeight' /\ [Next]_vars => InForce'
  BY InForceNext
<1>2. Init => InForce
  BY DEF Init, InForce, NoVotes
<1>3. Spec => []OneCertificatePerHeight
  BY Agreement
<1>4. Spec => []NoRollback
  BY NoRollbackAlways
<1> QED
  BY <1>1, <1>2, <1>3, <1>4, TypeCorrect, PTL DEF Spec

\* As long as no reorganisation is rolled back, what the certificate file holds
\* is in force in memory, after failed writes and restarts too.
THEOREM Durability ==
    ASSUME QuorumsIntersect, MaxReorgs = 0
    PROVE  Spec => []DurableCertificatesInForce
<1>1. InForce => DurableCertificatesInForce
  BY DEF InForce, DurableCertificatesInForce, Certified
<1> QED
  BY <1>1, InForceAlways, PTL

\* What the file maps to in the abstract log.
FinalAt(c) == [h \in Heights |-> {b \in Certified(c) : Height[b] = h}]

\* Writing the file finalises the blocks it did not hold before.
LEMMA WriteRefines ==
    ASSUME InForce, OneCertificatePerHeight, disk' = certs
    PROVE  \E H \in SUBSET Heights : Log!Finalize(H)
<1> DEFINE before == FinalAt(disk)
           after == FinalAt(certs)
           H == {h \in Heights : before[h] = {} /\ after[h] # {}}
           new == [h \in H |-> CHOOSE b \in Block : b \in after[h]]
<1>1. \A h \in Heights : /\ before[h] \subseteq after[h]
                         /\ \A b, c \in after[h] : b = c
  <2> SUFFICES ASSUME NEW h \in Heights
               PROVE  /\ before[h] \subseteq after[h]
                      /\ \A b, c \in after[h] : b = c
    OBVIOUS
  <2>1. before[h] \subseteq after[h]
    BY DEF InForce, FinalAt, Certified
  <2>2. ASSUME NEW b \in after[h], NEW c \in after[h]
        PROVE  b = c
    <3>1. /\ <<b, certs[b]>> \in issued /\ <<c, certs[c]>> \in issued
          /\ Height[b] = Height[c]
      BY <2>2 DEF InForce, FinalAt, Certified
    <3> QED
      BY <3>1 DEF OneCertificatePerHeight
  <2> QED
    BY <2>1, <2>2
<1>2. \A h \in Heights : after[h] \subseteq {b \in Block : Height[b] = h}
  BY DEF FinalAt, Certified
<1>3. \A h \in H : new[h] \in {b \in Block : Height[b] = h} /\ after[h] = {new[h]}
  <2> SUFFICES ASSUME NEW h \in H
               PROVE  new[h] \in {b \in Block : Height[b] = h} /\ after[h] = {new[h]}
    OBVIOUS
  <2> HIDE DEF after
  <2>1. \E b \in Block : b \in after[h]
    BY <1>2
  <2>2. new[h] \in after[h]
    BY <2>1
  <2> QED
    BY <1>1, <1>2, <2>2
<1>4. \A h \in Heights \ H : after[h] = before[h]
  <2> HIDE DEF before, after
  <2> QED BY <1>1
<1>5. /\ \A h \in H : before[h] = {}
      /\ after = [h \in Heights |-> IF h \in H THEN {new[h]} ELSE before[h]]
  <2>1. after = [h \in Heights |-> after[h]]
    BY DEF FinalAt
  <2> HIDE DEF before, after, new
  <2> QED BY <1>3, <1>4, <2>1
<1> DEFINE final == [h \in Heights |-> {b \in Certified(disk) : Height[b] = h}]
           at == [h \in Heights |-> {b \in Block : Height[b] = h}]
<1>6. before = final /\ after = final'
  BY DEF FinalAt, Certified
<1>7. H \in SUBSET Heights /\ DOMAIN new = H /\ new = [h \in H |-> new[h]]
  OBVIOUS
<1> HIDE DEF before, after, new, H
<1>8. \E f \in [H -> UNION {at[h] : h \in H}] :
         /\ \A h \in H : f[h] \in at[h]
         /\ final' = [h \in Heights |-> IF h \in H THEN {f[h]} ELSE final[h]]
  <2>1. \A h \in H : new[h] \in at[h]
    BY <1>3, <1>7
  <2>2. \A h \in H : new[h] \in UNION {at[k] : k \in H}
    <3> HIDE DEF at
    <3> QED BY <2>1
  <2> HIDE DEF at, final
  <2>3. new \in [H -> UNION {at[h] : h \in H}]
    BY <2>2, <1>7
  <2> QED
    BY <1>5, <1>6, <2>1, <2>3
<1>9. \A h \in H : final[h] = {}
  <2> HIDE DEF final
  <2> QED BY <1>5, <1>6
<1> QED
  BY <1>7, <1>8, <1>9 DEF Log!Finalize

\* As long as no reorganisation is rolled back, the certificate file implements
\* the append-only log of FinalizedLog: every write adds the blocks of heights
\* it had none for, and nothing else changes it.
THEOREM FileIsFinalizedLog ==
    ASSUME QuorumsIntersect, MaxReorgs = 0
    PROVE  Spec => ImplementsFinalizedLog
<1>1. Init => Log!Init
  BY DEF Init, NoVotes, Certified, Log!Init
<1>2. ASSUME InForce, OneCertificatePerHeight, [Next]_vars
      PROVE  Log!Next \/ UNCHANGED [h \in Heights |-> {b \in Certified(disk) : Height[b] = h}]
  <2>1. CASE disk' = disk
    BY <2>1 DEF Certified
  <2>2. CASE PersistCertificates
    BY <1>2, <2>2, WriteRefines DEF PersistCertificates, FileContents, Log!Next
  <2>3. ASSUME disk' # disk
        PROVE  PersistCertificates
    BY <1>2, <2>3 DEF Next, RecordVote, RejectDoubleSign, LateVote, CountVote, CertifyVote,
                      PersistFails, BeginReorg, CommitReorg, RollbackReorg, Restart, vars
  <2> QED
    BY <2>1, <2>2, <2>3
<1>3. InForce /\ OneCertificatePerHeight /\ [Next]_vars
        => [Log!Next]_[h \in Heights |-> {b \in Certified(disk) : Height[b] = h}]
  BY <1>2
<1>4. Spec => []OneCertificatePerHeight
  BY Agreement
<1>5. Spec => []InForce
  BY InForceAlways
<1> QED
  BY <1>1, <1>3, <1>4, <1>5, PTL DEF Spec, ImplementsFinalizedLog, Log!Spec

-----------------------------------------------------------------------------
(* No accepted vote is lost                                                *)

\* While a block has no certificate, every accepted vote for it is counted and
\* together they are worth less than the quorum.
VotesKept ==
    \A b \in Block : certs[b] = {} => /\ AcceptedVotes(b) \subseteq pendingVotes[b]
                                     /\ pendingPower[b] < Quorum

\* A vote that passes the detector is accepted for its block and no other.
LEMMA AcceptedByReceive ==
    ASSUME TypeOK, NEW v \in Validator, NEW b \in Block, ReceiveVote(v, b)
    PROVE  /\ AcceptedVotes(b)' \subseteq AcceptedVotes(b) \cup {v}
           /\ \A c \in Block : c # b => AcceptedVotes(c)' \subseteq AcceptedVotes(c)
<1>1. /\ detector' = [detector EXCEPT ![v][Height[b]] = b]
      /\ detector \in [Validator -> [Heights -> Block \cup {NoBlock}]]
      /\ Height[b] \in Heights
  BY HeightTyped DEF ReceiveVote, TypeOK
<1>2. ASSUME NEW w \in Validator, NEW h \in Heights
      PROVE  detector'[w][h] = IF w = v /\ h = Height[b] THEN b ELSE detector[w][h]
  BY <1>1
<1>3. \A c \in Block : Height[c] \in Heights
  BY HeightTyped
<1> QED
  BY <1>2, <1>3 DEF AcceptedVotes

LEMMA VotesKeptNext ==
    ASSUME TypeOK, VotesKept, NoRollback, [Next]_vars
    PROVE  VotesKept'
<1> USE DEF VotesKept
<1>1. ASSUME NEW v \in Validator, NEW b \in Block, LateVote(v, b)
      PROVE  VotesKept'
  BY <1>1, AcceptedByReceive DEF LateVote
<1>2. ASSUME NEW v \in Validator, NEW b \in Block, CountVote(v, b)
      PROVE  VotesKept'
  <2>1. /\ certs' = certs
        /\ pendingVotes' = [pendingVotes EXCEPT ![b] = @ \cup {v}]
        /\ pendingPower' = [pendingPower EXCEPT ![b] = AddedPower(v, b)]
        /\ ~(AddedPower(v, b) >= Quorum)
    BY <1>2 DEF CountVote, ReachesQuorum
  <2>2. AddedPower(v, b) < Quorum
    BY <2>1, PowerInNat, ConstantsAreTyped DEF ConstantsAreTyped, AddedPower, TypeOK
  <2>3. /\ pendingVotes'[b] = pendingVotes[b] \cup {v} /\ pendingPower'[b] < Quorum
        /\ \A c \in Block : c # b => /\ pendingVotes'[c] = pendingVotes[c]
                                     /\ pendingPower'[c] = pendingPower[c]
    BY <2>1, <2>2 DEF TypeOK
  <2>4. /\ AcceptedVotes(b)' \subseteq AcceptedVotes(b) \cup {v}
        /\ \A c \in Block : c # b => AcceptedVotes(c)' \subseteq AcceptedVotes(c)
    BY <1>2, AcceptedByReceive DEF CountVote
  <2> QED
    BY <2>1, <2>3, <2>4
<1>3. ASSUME NEW v \in Validator, NEW b \in Block, CertifyVote(v, b)
      PROVE  VotesKept'
  <2>1. /\ certs'[b] # {}
        /\ \A c \in Block : c # b => /\ certs'[c] = certs[c]
                                     /\ pendingVotes'[c] = pendingVotes[c]
                                     /\ pendingPower'[c] = pendingPower[c]
    BY <1>3 DEF CertifyVote, TypeOK
  <2>2. \A c \in Block : c # b => AcceptedVotes(c)' \subseteq AcceptedVotes(c)
    BY <1>3, AcceptedByReceive DEF CertifyVote
  <2> QED
    BY <2>1, <2>2
<1>4. CASE Restart
  <2>1. \A b \in Block : AcceptedVotes(b)' = {}
    BY <1>4, HeightTyped, ConstantsAreTyped
       DEF Restart, ConstantsAreTyped, AcceptedVotes, NoSignatures
  <2>2. \A b \in Block : pendingPower'[b] < Quorum
    BY <1>4, ConstantsAreTyped DEF Restart, ConstantsAreTyped, NoPower
  <2> QED
    BY <2>1, <2>2
<1>5. ASSUME UNCHANGED memory
      PROVE  VotesKept'
  BY <1>5 DEF memory, AcceptedVotes
<1>6. CASE BeginReorg \/ CommitReorg \/ RollbackReorg
  BY <1>5, <1>6 DEF BeginReorg, CommitReorg, RollbackReorg, NoRollback
<1>7. CASE PersistCertificates \/ PersistFails \/ UNCHANGED vars
  BY <1>5, <1>7 DEF PersistCertificates, PersistFails, vars, memory
<1>8. ASSUME NEW v \in Validator, NEW b \in Block, RejectDoubleSign(v, b)
      PROVE  VotesKept'
  BY <1>5, <1>8 DEF RejectDoubleSign, memory
<1> QED
  BY <1>1, <1>2, <1>3, <1>4, <1>6, <1>7, <1>8 DEF Next, RecordVote

\* As long as no reorganisation is rolled back, a block is certified as soon as
\* validators worth the quorum have had a vote for it accepted: no order of
\* late, repeated, conflicting or rejected votes loses one that counted.
THEOREM NoVoteLost ==
    ASSUME MaxReorgs = 0
    PROVE  Spec => []AcceptedQuorumCertifies
<1>1. Init => VotesKept
  BY HeightTyped, ConstantsAreTyped
     DEF ConstantsAreTyped, Init, VotesKept, AcceptedVotes, NoSignatures, NoPower
<1>2. TypeOK /\ VotesKept /\ NoRollback /\ [Next]_vars => VotesKept'
  BY VotesKeptNext
<1>3. ASSUME QuorumInv, VotesKept
      PROVE  AcceptedQuorumCertifies
  <2> SUFFICES ASSUME NEW b \in Block, Power[AcceptedVotes(b)] >= Quorum, certs[b] = {}
               PROVE  FALSE
    BY DEF AcceptedQuorumCertifies
  <2>1. AcceptedVotes(b) \subseteq pendingVotes[b] /\ pendingPower[b] < Quorum
    BY <1>3 DEF VotesKept
  <2>2. /\ pendingVotes[b] \in SUBSET Validator
        /\ pendingPower[b] = Power[pendingVotes[b]]
    BY <1>3 DEF QuorumInv, Tallied, TypeOK
  <2>3. AcceptedVotes(b) \in SUBSET pendingVotes[b] /\ AcceptedVotes(b) \in SUBSET Validator
    BY <2>1, <2>2
  <2>4. Power[AcceptedVotes(b)] <= Power[pendingVotes[b]]
    BY <2>2, <2>3, PowerMonotone
  <2>5. Power[AcceptedVotes(b)] \in Nat /\ Power[pendingVotes[b]] \in Nat /\ Quorum \in Nat
    BY <2>2, <2>3, PowerInNat, ConstantsAreTyped DEF ConstantsAreTyped
  <2> QED
    BY <2>1, <2>2, <2>4, <2>5
<1>4. QuorumInv /\ VotesKept => AcceptedQuorumCertifies
  BY <1>3
<1>5. Spec => []NoRollback
  BY NoRollbackAlways
<1> QED
  BY <1>1, <1>2, <1>4, <1>5, TypeCorrect, QuorumInvAlways, PTL DEF Spec

=============================================================================
