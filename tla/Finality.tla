------------------------------ MODULE Finality ------------------------------
(***************************************************************************)
(* The finality gadget of one node: FinalityManager and the in-memory      *)
(* DoubleSignDetector it owns (core/consensus/finality.py,                 *)
(* blockchain/double_sign_detector.py), the slashing a double signature    *)
(* triggers (Blockchain._handle_finality_misbehavior, SlashingManager) and *)
(* the snapshot / restore pair Blockchain.replace_chain calls around a     *)
(* reorganisation.                                                         *)
(*                                                                         *)
(* A vote is a pair <<validator, block>>; votes reach the node in any      *)
(* order, any number of times, or never.  A signature that does not verify *)
(* and an unknown validator raise before anything changes and are left     *)
(* out.  FinalityManager._lock makes record_vote one step, except that a   *)
(* crash or a write error can separate its in-memory half from the file it *)
(* writes: phase "persisting" is that window, in which the lock is held.   *)
(***************************************************************************)
EXTENDS Integers, FiniteSets

CONSTANTS
    Validator,      \* the validator set, fixed for the life of the data directory
    Byzantine,      \* validators that may sign several blocks of one height
    Block,          \* block hashes votes can be cast for
    Height,         \* Height[b] is the index in b's header
    Power,          \* Power[S] is the voting power of the set S of validators
    Quorum,         \* quorum_power
    NoBlock,        \* absence of a block
    MaxRestarts,    \* bound: restarts of the node
    MaxReorgs       \* bound: reorganisations that take a snapshot

Heights == {Height[b] : b \in Block}

(***************************************************************************)
(* Voting power is an additive measure of sets of validators: what summing *)
(* the positive integers voting_power over a set gives.                    *)
(***************************************************************************)
ASSUME PowerIsMeasure ==
    /\ Power \in [SUBSET Validator -> Nat]
    /\ Power[{}] = 0
    /\ \A S, T \in SUBSET Validator :
          S \cap T = {} => Power[S \cup T] = Power[S] + Power[T]

ASSUME ConstantsAreTyped ==
    /\ Byzantine \subseteq Validator
    /\ Height \in [Block -> Nat]
    /\ Quorum \in Nat \ {0}
    /\ NoBlock \notin Block
    /\ MaxRestarts \in Nat
    /\ MaxReorgs \in Nat

VARIABLES
    signed,         \* every vote some validator ever signed
    detector,       \* DoubleSignDetector.validator_signatures
    pendingVotes,   \* pending_votes: who voted for a block not yet certified
    pendingPower,   \* pending_power: the power counted for it so far
    certs,          \* certificates_by_hash: the signers, {} without a certificate
    certAt,         \* certificates_by_height: the certified block, or NoBlock
    disk,           \* finality_certificates.json, as certs
    issued,         \* history: every certificate ever issued, <<block, signers>>
    slashed,        \* validators whose slashed_count is above 0 in the database
    phase,          \* "idle", or "persisting" between the halves of record_vote
    snap,           \* the snapshot a running reorganisation holds, or NoSnapshot
    restarts, reorgs

memory == <<detector, pendingVotes, pendingPower, certs, certAt>>
vars == <<signed, detector, pendingVotes, pendingPower, certs, certAt, disk,
          issued, slashed, phase, snap, restarts, reorgs>>

-----------------------------------------------------------------------------

NoSignatures == [v \in Validator |-> [h \in Heights |-> NoBlock]]
NoVotes == [b \in Block |-> {}]
NoPower == [b \in Block |-> 0]
NothingFinal == [h \in Heights |-> NoBlock]

Certified(c) == {b \in Block : c[b] # {}}

NoIndex(c) == {NothingFinal}   \* seeded bug: loading forgets the height index

\* A height index over certificates c; one of them when a height has several.
IndexOf(c) ==
    {f \in [Heights -> Block \cup {NoBlock}] :
        \A h \in Heights :
            LET here == {b \in Certified(c) : Height[b] = h}
            IN  IF here = {} THEN f[h] = NoBlock ELSE f[h] \in here}

NoSnapshot == [taken |-> FALSE, votes |-> NoVotes, power |-> NoPower,
               empty |-> TRUE, signatures |-> NoSignatures]
Snapshot == [taken |-> TRUE, votes |-> pendingVotes, power |-> pendingPower,
             empty |-> Certified(certs) = {}, signatures |-> detector]

\* Validators outside Byzantine never sign two blocks of one height.
MaySign(v, b) ==
    \/ v \in Byzantine
    \/ \A c \in Block : <<v, c>> \in signed /\ Height[c] = Height[b] => c = b

\* seeded bug: signatures kept per height only, not per validator
EquivocatesAnyone(v, b) == \E w \in Validator : detector[w][Height[b]] \notin {NoBlock, b}

Equivocates(v, b) == detector[v][Height[b]] \notin {NoBlock, b}

Init ==
    /\ signed = {}
    /\ detector = NoSignatures
    /\ pendingVotes = NoVotes
    /\ pendingPower = NoPower
    /\ certs = NoVotes
    /\ certAt = NothingFinal
    /\ disk = NoVotes
    /\ issued = {}
    /\ slashed = {}
    /\ phase = "idle"
    /\ snap = NoSnapshot
    /\ restarts = 0
    /\ reorgs = 0

-----------------------------------------------------------------------------
(* record_vote, by outcome.  A repeated vote for a pending block raises    *)
(* and changes nothing.                                                    *)

\* A valid vote arrives and passes the detector, which remembers it.
ReceiveVote(v, b) ==
    /\ phase = "idle"
    /\ MaySign(v, b)
    /\ ~Equivocates(v, b)
    /\ signed' = signed \cup {<<v, b>>}
    /\ detector' = [detector EXCEPT ![v][Height[b]] = b]

\* report_misbehavior, called back under the lock, takes 10% of the stake.
Slash(v) == slashed' = slashed \cup {v}

\* The detector holds another block for this height: slash and reject.
RejectDoubleSign(v, b) ==
    /\ phase = "idle"
    /\ MaySign(v, b)
    /\ Equivocates(v, b)
    /\ signed' = signed \cup {<<v, b>>}
    /\ Slash(v)
    /\ UNCHANGED <<detector, pendingVotes, pendingPower, certs, certAt, disk,
                   issued, phase, snap, restarts, reorgs>>

\* The block already has its certificate, which is returned as it is.
LateVote(v, b) ==
    /\ ReceiveVote(v, b)
    /\ certs[b] # {}
    /\ UNCHANGED <<pendingVotes, pendingPower, certs, certAt, disk, issued,
                   slashed, phase, snap, restarts, reorgs>>

SubtractedPower(v, b) == pendingPower[b] - Power[{v}]   \* seeded bug: sign error
AddedPower(v, b) == pendingPower[b] + Power[{v}]

AnyVote(v, b) == TRUE                            \* seeded bug: repeated votes count
FirstVote(v, b) == v \notin pendingVotes[b]

AboveQuorum(p) == p > Quorum                     \* seeded bug: off by one
AboveHalf(p) == 2 * p > Power[Validator]         \* seeded bug: majority, not quorum
ReachesQuorum(p) == p >= Quorum

\* The vote counts and the block stays below the quorum.
CountVote(v, b) ==
    /\ ReceiveVote(v, b)
    /\ certs[b] = {}
    /\ FirstVote(v, b)
    /\ ~ReachesQuorum(AddedPower(v, b))
    /\ pendingVotes' = [pendingVotes EXCEPT ![b] = @ \cup {v}]
    /\ pendingPower' = [pendingPower EXCEPT ![b] = AddedPower(v, b)]
    /\ UNCHANGED <<certs, certAt, disk, issued, slashed, phase, snap, restarts, reorgs>>

\* The vote completes the quorum: _finalize_block, before the file is written.
CertifyVote(v, b) ==
    /\ ReceiveVote(v, b)
    /\ certs[b] = {}
    /\ FirstVote(v, b)
    /\ ReachesQuorum(AddedPower(v, b))
    /\ certs' = [certs EXCEPT ![b] = pendingVotes[b] \cup {v}]
    /\ certAt' = [certAt EXCEPT ![Height[b]] = b]
    /\ pendingVotes' = [pendingVotes EXCEPT ![b] = {}]
    /\ pendingPower' = [pendingPower EXCEPT ![b] = 0]
    /\ issued' = issued \cup {<<b, pendingVotes[b] \cup {v}>>}
    /\ phase' = "persisting"
    /\ UNCHANGED <<disk, slashed, snap, restarts, reorgs>>

\* seeded bug: only certificates not yet in the file are written
NewCertificates == [b \in Block |-> IF disk[b] = {} THEN certs[b] ELSE {}]
FileContents == certs

\* _persist_certificates writes every certificate and replaces the file.
PersistCertificates ==
    /\ phase = "persisting"
    /\ disk' = FileContents
    /\ phase' = "idle"
    /\ UNCHANGED <<signed, memory, issued, slashed, snap, restarts, reorgs>>

\* The write raises: record_vote fails with the certificate already in memory.
PersistFails ==
    /\ phase = "persisting"
    /\ phase' = "idle"
    /\ UNCHANGED <<signed, memory, disk, issued, slashed, snap, restarts, reorgs>>

-----------------------------------------------------------------------------
(* The reorganisation that surrounds the gadget, and restarts.             *)

\* replace_chain takes a snapshot before it changes anything.
BeginReorg ==
    /\ phase = "idle"
    /\ ~snap.taken
    /\ reorgs < MaxReorgs
    /\ snap' = Snapshot
    /\ reorgs' = reorgs + 1
    /\ UNCHANGED <<signed, memory, disk, issued, slashed, phase, restarts>>

\* The reorganisation commits and the snapshot is dropped.
CommitReorg ==
    /\ snap.taken
    /\ snap' = NoSnapshot
    /\ UNCHANGED <<signed, memory, disk, issued, slashed, phase, restarts, reorgs>>

\* The reorganisation fails: restore.  The first certificate of the snapshot
\* makes it raise (no "timestamp" in the snapshot), with certificates_by_hash
\* already emptied and the height index and the detector untouched; without
\* one it raises at _save_certificates, after the detector is restored.
RollbackReorg ==
    /\ phase = "idle"
    /\ snap.taken
    /\ pendingVotes' = snap.votes
    /\ pendingPower' = snap.power
    /\ certs' = NoVotes
    /\ IF snap.empty
       THEN certAt' = NothingFinal /\ detector' = snap.signatures
       ELSE UNCHANGED <<certAt, detector>>
    /\ snap' = NoSnapshot
    /\ UNCHANGED <<signed, disk, issued, slashed, phase, restarts, reorgs>>

\* The process stops, possibly inside record_vote, and __init__ runs again:
\* certificates are loaded, pending votes and the detector start empty.
Restart ==
    /\ restarts < MaxRestarts
    /\ restarts' = restarts + 1
    /\ detector' = NoSignatures
    /\ pendingVotes' = NoVotes
    /\ pendingPower' = NoPower
    /\ certs' = disk
    /\ certAt' \in IndexOf(disk)
    /\ phase' = "idle"
    /\ snap' = NoSnapshot
    /\ UNCHANGED <<signed, disk, issued, slashed, reorgs>>

RecordVote(v, b) ==
    \/ RejectDoubleSign(v, b)
    \/ LateVote(v, b)
    \/ CountVote(v, b)
    \/ CertifyVote(v, b)

Next ==
    \/ \E v \in Validator, b \in Block : RecordVote(v, b)
    \/ PersistCertificates
    \/ PersistFails
    \/ BeginReorg
    \/ CommitReorg
    \/ RollbackReorg
    \/ Restart

Spec == Init /\ [][Next]_vars

-----------------------------------------------------------------------------
(* Properties                                                              *)

\* Type correctness.
TypeOK ==
    /\ signed \subseteq Validator \X Block
    /\ detector \in [Validator -> [Heights -> Block \cup {NoBlock}]]
    /\ pendingVotes \in [Block -> SUBSET Validator]
    /\ pendingPower \in [Block -> Nat]
    /\ certs \in [Block -> SUBSET Validator]
    /\ certAt \in [Heights -> Block \cup {NoBlock}]
    /\ disk \in [Block -> SUBSET Validator]
    /\ issued \subseteq Block \X SUBSET Validator
    /\ slashed \subseteq Validator
    /\ phase \in {"idle", "persisting"}
    /\ snap \in [taken : BOOLEAN, votes : [Block -> SUBSET Validator],
                 power : [Block -> Nat], empty : BOOLEAN,
                 signatures : [Validator -> [Heights -> Block \cup {NoBlock}]]]
    /\ restarts \in 0..MaxRestarts
    /\ reorgs \in 0..MaxReorgs

SignersOf(b) == {v \in Validator : <<v, b>> \in signed}

\* Every certificate in force, in memory or in the file, was signed by
\* validators holding the quorum: the power record_vote adds up vote by vote
\* never drifts from the votes it keeps, whatever repeats, restarts and
\* restored snapshots come between them.
CertificatesHaveQuorum ==
    \A b \in Block : \A S \in {certs[b], disk[b]} :
        S # {} => S \subseteq SignersOf(b) /\ Power[S] >= Quorum

\* No two blocks of one height are ever both certified, not even one before
\* and one after a restart that forgot the pending votes and the detector.
OneCertificatePerHeight ==
    \A c, d \in issued : Height[c[1]] = Height[d[1]] => c[1] = d[1]

\* The double-sign detector never has a validator slashed that signed at most
\* one block per height, whatever order and however often votes arrive.
HonestNeverSlashed == slashed \subseteq Byzantine

\* A certificate in the file is in force in memory: what record_vote persisted
\* is never forgotten, so can_reorg_to_height keeps protecting the block.
DurableCertificatesInForce ==
    \A b \in Certified(disk) : certs[b] # {} /\ certAt[Height[b]] = b

\* The file implements the log the rest of the node relies on: one block per
\* height, never withdrawn and never replaced, across restarts and failed or
\* interrupted writes.
Log == INSTANCE FinalizedLog WITH
    Blocks <- [h \in Heights |-> {b \in Block : Height[b] = h}],
    final <- [h \in Heights |-> {b \in Certified(disk) : Height[b] = h}]
ImplementsFinalizedLog == Log!Spec

\* A block is certified as soon as validators holding the quorum have had a
\* vote for it accepted since the node started: no order of late, repeated,
\* conflicting or rejected votes loses one that counted.
AcceptedVotes(b) == {v \in Validator : detector[v][Height[b]] = b}
AcceptedQuorumCertifies ==
    \A b \in Block : Power[AcceptedVotes(b)] >= Quorum => certs[b] # {}

=============================================================================
