----------------------------- MODULE SwapProofs -----------------------------
(***************************************************************************)
(* Proofs about AtomicSwaps for every set of swaps and contracts, every    *)
(* number of restarts and every pattern of refused and torn writes: no     *)
(* swap is settled in two ways, settlements survive restarts as long as    *)
(* the files do, the attempts to claim a swap are bounded, and so are the  *)
(* rounds it waits for.                                                    *)
(*                                                                         *)
(* The argument: a settled state has no successor in STATE_TRANSITIONS, so *)
(* a swap is settled twice only if it goes back in between.  Memory goes   *)
(* back only to the file, and the file follows every change of memory      *)
(* except when a write is refused.  Attempts are counted in memory and     *)
(* file before they are made, so no restart forgets one, and the rounds    *)
(* that a waiting swap loses are attempts of others, which are bounded.    *)
(***************************************************************************)
EXTENDS AtomicSwaps, FiniteSetTheorems, TLAPS

\* The settlements reported for s agree with what memory and file say of it.
Settled(s) ==
  /\ swaps[s] # NoSwap => acked[s] \subseteq {swaps[s].state}
  /\ swapFile[s] \notin {NoSwap, Torn} => acked[s] \subseteq {swapFile[s].state}
  /\ swapFile[s] = NoSwap => acked[s] = {}
  /\ acked[s] # {"claimed", "refunded"}

\* Every file is in memory, unless one that does not parse is not: then it
\* stays as it is.
FilesAreKnown ==
  \/ \E r \in Swap : swapFile[r] = Torn /\ swaps[r] = NoSwap
  \/ \A s \in Swap : swapFile[s] # NoSwap => swaps[s] # NoSwap

\* The swap a round is trying is in memory.
TriedIsKnown == at \in {"check", "verify", "claim", "settle"} => Head(todo) \in Known

SwapInv ==
  /\ SwapTypeOK
  /\ \A s \in Swap \ refusedWrite : Settled(s)
  /\ FilesAreKnown
  /\ TriedIsKnown

LEMMA Records == \A swap \in SwapRecord : swap # NoSwap /\ swap # Torn
BY DEF SwapRecord, NoSwap, Torn, SwapState

LEMMA SwapInvInit == SwapInit => SwapInv
BY SwapAssumption DEF SwapInit, SwapInv, SwapTypeOK, Settled, FilesAreKnown, TriedIsKnown

---------------------------------------------------------------------------
\* The variables that a write of a swap changes, besides acked.
WriteOK ==
  /\ swaps \in [Swap -> SwapRecord \cup {NoSwap}]
  /\ swapFile \in [Swap -> SwapRecord \cup {NoSwap, Torn}]
  /\ faults \in 0 .. MaxFaults
  /\ acked \in [Swap -> SUBSET {"claimed", "refunded"}]
  /\ refusedWrite \subseteq Swap

RestOK ==
  /\ clock \in 0 .. MaxTime /\ restarts \in 0 .. MaxRestarts
  /\ plan \subseteq Swap /\ todo \in Seq(Swap)
  /\ at \in {"idle", "next", "check", "verify", "claim", "settle"}
  /\ at = "idle" <=> todo = <<>>
  /\ attempted \in [Swap -> Nat] /\ waited \in [Swap -> Nat]

SwapCore == WriteOK /\ (\A s \in Swap \ refusedWrite : Settled(s)) /\ FilesAreKnown

LEMMA InvSplits == SwapInv <=> SwapCore /\ RestOK /\ TriedIsKnown
BY DEF SwapInv, SwapTypeOK, SwapCore, WriteOK, RestOK

\* What SetSwap leaves: memory as it was asked to be, and the file written, torn
\* or, if the swap is noted as refused, as it was.
LEMMA WriteOutcome ==
  ASSUME WriteOK, NEW s \in Swap, NEW swap, SetSwap(s, swap)
  PROVE  /\ swaps' = [swaps EXCEPT ![s] = swap]
         /\ swapFile' \in {swapFile, [swapFile EXCEPT ![s] = swap],
                           [swapFile EXCEPT ![s] = Torn]}
         /\ refusedWrite' \in {refusedWrite, refusedWrite \cup {s}}
         /\ swapFile' = swapFile => s \in refusedWrite' \/ swapFile[s] \in {swap, Torn}
         /\ faults' \in 0 .. MaxFaults
<1>1. swapFile \in [Swap -> SwapRecord \cup {NoSwap, Torn}] /\ faults \in 0 .. MaxFaults
  BY DEF WriteOK
<1>2. swaps' = [swaps EXCEPT ![s] = swap] /\ Persist(s, swap)
  BY DEF SetSwap
<1>3. CASE UNCHANGED <<faults, refusedWrite>> /\
           swapFile' = [swapFile EXCEPT ![s] = IF Serializable(swap) THEN swap ELSE Torn]
  BY <1>1, <1>2, <1>3
<1>4. CASE /\ faults < MaxFaults /\ faults' = faults + 1
           /\ swapFile' = [swapFile EXCEPT ![s] = Torn] /\ UNCHANGED refusedWrite
  BY <1>1, <1>2, <1>4, SwapAssumption
<1>5. CASE /\ faults < MaxFaults /\ faults' = faults + 1
           /\ refusedWrite' = refusedWrite \cup {s} /\ UNCHANGED swapFile
  BY <1>1, <1>2, <1>5, SwapAssumption
<1> QED
  BY <1>2, <1>3, <1>4, <1>5 DEF Persist

\* Writing a swap keeps the invariant if what is reported of it from then on
\* is at most the state that is written.
LEMMA WriteKeeps ==
  ASSUME SwapCore, NEW s \in Swap, NEW swap \in SwapRecord, SetSwap(s, swap),
         swaps[s] # NoSwap \/ swapFile[s] = NoSwap,
         NEW now \in SUBSET {"claimed", "refunded"},
         acked' = [acked EXCEPT ![s] = now],
         s \notin refusedWrite => now \subseteq {swap.state}
  PROVE  SwapCore' /\ Known \subseteq Known'
<1>1. /\ swaps' = [swaps EXCEPT ![s] = swap]
      /\ swapFile' \in {swapFile, [swapFile EXCEPT ![s] = swap],
                        [swapFile EXCEPT ![s] = Torn]}
      /\ refusedWrite' \in {refusedWrite, refusedWrite \cup {s}}
      /\ swapFile' = swapFile => s \in refusedWrite' \/ swapFile[s] \in {swap, Torn}
      /\ faults' \in 0 .. MaxFaults
  BY WriteOutcome DEF SwapCore
<1>2. WriteOK'
  BY <1>1 DEF SwapCore, WriteOK
<1>3. ASSUME NEW r \in Swap \ refusedWrite'
      PROVE  Settled(r)'
  <2>1. r \notin refusedWrite
    BY <1>1, <1>3
  <2>2. CASE r = s
    <3>1. swaps'[s] = swap /\ acked'[s] = now
      BY <1>1 DEF SwapCore, WriteOK
    <3>2. swapFile'[s] \in {swap, Torn}
      BY <1>1, <1>3, <2>2 DEF SwapCore, WriteOK
    <3>3. swap # NoSwap /\ swap # Torn /\ Torn # NoSwap
      BY Records DEF Torn, NoSwap
    <3>4. now \subseteq {swap.state}
      BY <2>1, <2>2
    <3>5. now # {"claimed", "refunded"}
      <4>1. CASE "claimed" \notin now
        BY <4>1
      <4>2. CASE "refunded" \notin now
        BY <4>2
      <4> QED
        BY <3>4, <4>1, <4>2
    <3>6. swapFile'[s] # Torn => swapFile'[s] = swap
      BY <3>2
    <3> QED
      BY <2>2, <3>1, <3>2, <3>3, <3>4, <3>5, <3>6 DEF Settled
  <2>3. CASE r # s
    <3>1. swaps'[r] = swaps[r] /\ acked'[r] = acked[r] /\ swapFile'[r] = swapFile[r]
      BY <1>1, <2>3 DEF SwapCore, WriteOK
    <3>2. Settled(r)
      BY <2>1 DEF SwapCore
    <3> QED
      BY <3>1, <3>2 DEF Settled
  <2> QED
    BY <2>2, <2>3
<1>4. FilesAreKnown'
  <2>1. swaps'[s] # NoSwap
    BY <1>1, Records DEF SwapCore, WriteOK
  <2>2. \A r \in Swap : r # s => swaps'[r] = swaps[r] /\ swapFile'[r] = swapFile[r]
    BY <1>1 DEF SwapCore, WriteOK
  <2>3. CASE \A r \in Swap : swapFile[r] # NoSwap => swaps[r] # NoSwap
    BY <2>1, <2>2, <2>3 DEF FilesAreKnown
  <2>4. CASE \E r \in Swap : swapFile[r] = Torn /\ swaps[r] = NoSwap
    <3>1. PICK r \in Swap : swapFile[r] = Torn /\ swaps[r] = NoSwap
      BY <2>4
    <3>2. r # s
      BY <3>1 DEF Torn, NoSwap
    <3> QED
      BY <2>2, <3>1, <3>2 DEF FilesAreKnown
  <2> QED
    BY <2>3, <2>4 DEF SwapCore, FilesAreKnown
<1>5. Known \subseteq Known'
  BY <1>1, Records DEF SwapCore, WriteOK, Known
<1> QED
  BY <1>2, <1>3, <1>4, <1>5 DEF SwapCore

LEMMA CoreStays == SwapCore /\ UNCHANGED swapMachine => SwapCore' /\ Known \subseteq Known'
BY DEF SwapCore, WriteOK, swapMachine, Settled, FilesAreKnown, Known

LEMMA SettledIsFinal ==
  \A state \in {"claimed", "refunded"} : STATE_TRANSITIONS[state] = {}
BY DEF STATE_TRANSITIONS, SwapState

\* A swap that is written with the state it is in stays as well reported.
LEMMA SameStateKeeps ==
  ASSUME SwapCore, NEW s \in Known, NEW swap \in SwapRecord, SetSwap(s, swap),
         swap.state = swaps[s].state, UNCHANGED acked
  PROVE  SwapCore' /\ Known \subseteq Known'
<1>1. s \in Swap /\ swaps[s] # NoSwap
  BY DEF Known
<1>2. acked[s] \in SUBSET {"claimed", "refunded"} /\ acked' = [acked EXCEPT ![s] = acked[s]]
  BY <1>1 DEF SwapCore, WriteOK
<1>3. s \notin refusedWrite => acked[s] \subseteq {swap.state}
  BY <1>1 DEF SwapCore, Settled
<1> QED
  BY <1>1, <1>2, <1>3, WriteKeeps

LEMMA TransitionKeeps ==
  ASSUME SwapCore, NEW s \in Swap, NEW state \in SwapState, NEW by \in Caller,
         Transition(s, state, by)
  PROVE  SwapCore' /\ Known \subseteq Known'
<1>1. CASE ~Allowed(s, state) /\ UNCHANGED swapMachine
  BY <1>1, CoreStays
<1>2. CASE /\ Allowed(s, state)
           /\ SetSwap(s, [swaps[s] EXCEPT !.state = state, !.by = by])
           /\ acked' = [acked EXCEPT ![s] = @ \cup ({state} \cap {"claimed", "refunded"})]
  <2> DEFINE swap == [swaps[s] EXCEPT !.state = state, !.by = by]
             now == acked[s] \cup ({state} \cap {"claimed", "refunded"})
  <2>1. swaps[s] # NoSwap /\ swaps[s] \in SwapRecord
    BY <1>2 DEF Allowed, Known, SwapCore, WriteOK
  <2>2. swap \in SwapRecord /\ swap.state = state
    BY <2>1 DEF SwapRecord
  <2>3. now \in SUBSET {"claimed", "refunded"}
    BY DEF SwapCore, WriteOK
  <2>4. swaps[s].state \notin {"claimed", "refunded"}
    BY <1>2, SettledIsFinal DEF Allowed
  <2>5. s \notin refusedWrite => acked[s] = {}
    BY <2>1, <2>3, <2>4 DEF SwapCore, Settled
  <2>6. s \notin refusedWrite => now \subseteq {swap.state}
    BY <2>2, <2>5
  <2>7. SetSwap(s, swap) /\ acked' = [acked EXCEPT ![s] = now]
    BY <1>2 DEF SwapCore, WriteOK
  <2> HIDE DEF swap, now
  <2> QED
    BY <2>1, <2>2, <2>3, <2>6, <2>7, WriteKeeps
<1> QED
  BY <1>1, <1>2 DEF Transition

\* A restart reads the files: all of them, or any of them if one does not parse.
LEMMA RestartKeeps == SwapCore /\ RestartProcess => SwapCore'
<1> SUFFICES ASSUME SwapCore, RestartProcess
             PROVE  SwapCore'
  OBVIOUS
<1>1. PICK loaded \in LoadOutcomes :
        swaps' = [s \in Swap |-> IF s \in loaded THEN swapFile[s] ELSE NoSwap]
  BY DEF RestartProcess
<1>2. UNCHANGED <<swapFile, faults, acked, refusedWrite>>
  BY DEF RestartProcess
<1>3. \A s \in loaded : s \in Swap /\ swapFile[s] \notin {NoSwap, Torn}
  BY <1>1 DEF LoadOutcomes
<1>4. \A s \in Swap : swaps'[s] \in {swapFile[s], NoSwap} /\ swaps'[s] # Torn
  BY <1>1, <1>3 DEF NoSwap, Torn
<1>5. WriteOK'
  BY <1>1, <1>2, <1>3 DEF SwapCore, WriteOK
<1>6. \A s \in Swap \ refusedWrite' : Settled(s)'
  BY <1>2, <1>4 DEF SwapCore, Settled
<1>7. FilesAreKnown'
  <2>1. CASE \E s \in Swap : swapFile[s] = Torn
    BY <1>1, <1>2, <1>3, <2>1 DEF FilesAreKnown
  <2>2. CASE \A s \in Swap : swapFile[s] # Torn
    <3>1. loaded = {s \in Swap : swapFile[s] \notin {NoSwap, Torn}}
      BY <1>1, <2>2 DEF LoadOutcomes
    <3> QED
      BY <1>1, <1>2, <2>2, <3>1 DEF FilesAreKnown
  <2> QED
    BY <2>1, <2>2
<1> QED
  BY <1>5, <1>6, <1>7 DEF SwapCore

---------------------------------------------------------------------------
LEMMA HeadOfRound ==
  RestOK /\ at # "idle" => Head(todo) \in Swap /\ Tail(todo) \in Seq(Swap)
BY DEF RestOK

LEMMA NextSwapKeeps ==
  ASSUME RestOK, at # "idle", NextSwap,
         UNCHANGED <<clock, plan, restarts, waited>>, attempted' \in [Swap -> Nat]
  PROVE  RestOK' /\ TriedIsKnown'
BY HeadOfRound DEF RestOK, NextSwap, TriedIsKnown

\* The steps of a round that leave Head(todo) in place.
LEMMA StayKeeps ==
  ASSUME RestOK, at # "idle", todo' = todo,
         at' \in {"check", "verify", "claim", "settle"},
         UNCHANGED <<clock, plan, restarts, waited>>, attempted' \in [Swap -> Nat],
         Head(todo) \in Known, Known \subseteq Known'
  PROVE  RestOK' /\ TriedIsKnown'
BY DEF RestOK, TriedIsKnown

\* Steps that are not of a round.
LEMMA BesideKeeps ==
  ASSUME RestOK, TriedIsKnown, UNCHANGED <<todo, at, restarts, waited>>,
         clock' \in 0 .. MaxTime, plan' \subseteq Swap,
         attempted' \in [Swap -> Nat], Known \subseteq Known'
  PROVE  RestOK' /\ TriedIsKnown'
BY DEF RestOK, TriedIsKnown

LEMMA TryKeeps ==
  ASSUME RestOK, NEW s \in Swap, Try(s)
  PROVE  attempted' \in [Swap -> Nat]
BY DEF RestOK, Try

LEMMA BeginRoundKeeps ==
  ASSUME SwapCore, RestOK, BeginRound
  PROVE  RestOK' /\ TriedIsKnown'
<1>1. IsFiniteSet(Known) /\ Known \subseteq Swap
  BY SwapAssumption, FS_Subset DEF Known
<1>2. PICK order \in SetToSeqs(Known) : todo' = order
  BY DEF BeginRound
<1>3. order \in [1 .. Cardinality(Known) -> Known]
  BY DEF SetToSeqs
<1>4. Cardinality(Known) \in Nat
  BY <1>1, FS_CardinalityType
<1>5. order \in Seq(Swap)
  BY <1>1, <1>3, <1>4
<1>6. waited' \in [Swap -> Nat]
  BY DEF BeginRound, RestOK
<1>7. todo' \in Seq(Swap) /\ todo' # <<>> /\ at' = "next"
  BY <1>2, <1>5 DEF BeginRound
<1>8. UNCHANGED <<clock, restarts, plan, attempted>>
  BY DEF BeginRound
<1> QED
  BY <1>6, <1>7, <1>8 DEF RestOK, TriedIsKnown

---------------------------------------------------------------------------
\* The steps of the callers and of the refund planner.
LEMMA CallsKeep ==
  ASSUME SwapCore, RestOK, TriedIsKnown, NEW s \in Swap,
         \/ \E contract \in Contract : CreateSwap(s, contract)
         \/ \E state \in SwapState : TransitionCall(s, state)
         \/ AutoTransitionRefund(s)
  PROVE  SwapCore' /\ RestOK' /\ TriedIsKnown'
<1>1. ASSUME NEW contract \in Contract, CreateSwap(s, contract)
      PROVE  SwapCore' /\ RestOK' /\ TriedIsKnown'
  <2> DEFINE swap == [state |-> "initiated", contract |-> contract,
                      tries |-> 0, by |-> "api"]
  <2>1. swap \in SwapRecord
    BY SwapAssumption DEF SwapRecord, SwapState, Caller
  <2>2. SetSwap(s, swap) /\ acked' = [acked EXCEPT ![s] = {}] /\ swapFile[s] = NoSwap
    BY <1>1 DEF CreateSwap
  <2> HIDE DEF swap
  <2>3. SwapCore' /\ Known \subseteq Known'
    BY <2>1, <2>2, WriteKeeps
  <2>4. attempted' \in [Swap -> Nat]
    BY <1>1 DEF CreateSwap, RestOK
  <2>5. UNCHANGED <<clock, plan, todo, at, restarts, waited>>
    BY <1>1 DEF CreateSwap
  <2>6. clock' \in 0 .. MaxTime /\ plan' \subseteq Swap
    BY <2>5 DEF RestOK
  <2> QED
    BY <2>3, <2>4, <2>5, <2>6, BesideKeeps
<1>2. ASSUME NEW state \in SwapState, TransitionCall(s, state)
      PROVE  SwapCore' /\ RestOK' /\ TriedIsKnown'
  <2>1. SwapCore' /\ Known \subseteq Known'
    BY <1>2, TransitionKeeps DEF TransitionCall, Caller
  <2>2. UNCHANGED <<clock, plan, todo, at, restarts, attempted, waited>>
    BY <1>2 DEF TransitionCall
  <2> QED
    BY <2>1, <2>2, BesideKeeps DEF RestOK
<1>3. CASE AutoTransitionRefund(s)
  <2>1. SwapCore' /\ Known \subseteq Known'
    BY <1>3, TransitionKeeps DEF AutoTransitionRefund, Caller, SwapState
  <2>2. UNCHANGED <<clock, todo, at, restarts, attempted, waited>> /\ plan' = plan \ {s}
    BY <1>3 DEF AutoTransitionRefund
  <2> QED
    BY <2>1, <2>2, BesideKeeps DEF RestOK
<1> QED
  BY <1>1, <1>2, <1>3

LEMMA CountKeeps == SwapCore /\ RestOK /\ CountAttempt =>
                      SwapCore' /\ RestOK' /\ TriedIsKnown'
<1> SUFFICES ASSUME SwapCore, RestOK, CountAttempt
             PROVE  SwapCore' /\ RestOK' /\ TriedIsKnown'
  OBVIOUS
<1> DEFINE s == Head(todo)
           swap == [swaps[s] EXCEPT !.tries = @ + 1]
<1>1. s \in Known /\ s \in Swap /\ swaps[s].tries < MaxAttempts /\ SetSwap(s, swap)
  BY DEF CountAttempt, Failed, Known
<1>2. swaps[s] \in SwapRecord
  BY <1>1 DEF SwapCore, WriteOK, Known
<1>3. swap \in SwapRecord /\ swap.state = swaps[s].state
  BY <1>1, <1>2, SwapAssumption DEF SwapRecord
<1>4. UNCHANGED <<clock, plan, todo, restarts, acked, attempted, waited>> /\ at' = "check"
      /\ at # "idle"
  BY DEF CountAttempt
<1>5. attempted' \in [Swap -> Nat]
  BY <1>4 DEF RestOK
<1> HIDE DEF swap
<1>6. SwapCore' /\ Known \subseteq Known'
  BY <1>1, <1>3, <1>4, SameStateKeeps
<1> QED
  BY <1>1, <1>4, <1>5, <1>6, StayKeeps

\* The swap at the head of a round is written, unchanged, or left alone.
LEMMA HeadKeeps ==
  ASSUME SwapCore, RestOK, TriedIsKnown, at \in {"check", "verify", "claim", "settle"},
         \/ SetSwap(Head(todo), swaps[Head(todo)]) /\ UNCHANGED acked
         \/ Transition(Head(todo), "refunded", "recovery")
         \/ Transition(Head(todo), "claimed", "recovery")
         \/ UNCHANGED swapMachine
  PROVE  SwapCore' /\ Known \subseteq Known' /\ Head(todo) \in Known
<1> DEFINE s == Head(todo)
<1>1. s \in Known /\ s \in Swap
  BY DEF TriedIsKnown, Known
<1>2. swaps[s] \in SwapRecord
  BY <1>1 DEF SwapCore, WriteOK, Known
<1>3. CASE SetSwap(s, swaps[s]) /\ UNCHANGED acked
  BY <1>1, <1>2, <1>3, SameStateKeeps
<1>4. CASE Transition(s, "refunded", "recovery") \/ Transition(s, "claimed", "recovery")
  BY <1>1, <1>4, TransitionKeeps DEF SwapState, Caller
<1>5. CASE UNCHANGED swapMachine
  BY <1>1, <1>5, CoreStays
<1> QED
  BY <1>1, <1>3, <1>4, <1>5

LEMMA RoundKeeps ==
  ASSUME SwapCore, RestOK, TriedIsKnown, RecoverFailedClaims
  PROVE  SwapCore' /\ RestOK' /\ TriedIsKnown'
<1>1. CASE BeginRound
  BY <1>1, BeginRoundKeeps, CoreStays DEF BeginRound
<1>2. CASE SkipSwap
  <2>1. /\ at # "idle" /\ NextSwap /\ UNCHANGED swapMachine
        /\ UNCHANGED <<clock, plan, restarts, waited>> /\ attempted' \in [Swap -> Nat]
    BY <1>2 DEF SkipSwap, RestOK
  <2> QED
    BY <2>1, CoreStays, NextSwapKeeps
<1>3. CASE CountAttempt
  BY <1>3, CountKeeps
<1>4. ASSUME at # "idle" => attempted' \in [Swap -> Nat],
             RefundExpired \/ NoteUnclaimable
      PROVE  SwapCore' /\ RestOK' /\ TriedIsKnown'
  <2>1. /\ at = "check" /\ NextSwap
        /\ UNCHANGED <<clock, plan, restarts, waited>>
    BY <1>4 DEF RefundExpired, NoteUnclaimable
  <2>2. \/ SetSwap(Head(todo), swaps[Head(todo)]) /\ UNCHANGED acked
        \/ Transition(Head(todo), "refunded", "recovery")
    BY <1>4 DEF RefundExpired, NoteUnclaimable
  <2> QED
    BY <1>4, <2>1, <2>2, HeadKeeps, NextSwapKeeps
<1>5. ASSUME Try(Head(todo)), at # "idle"
      PROVE  attempted' \in [Swap -> Nat]
  BY <1>5, HeadOfRound, TryKeeps
<1>6. CASE RefundExpired \/ NoteUnclaimable
  BY <1>4, <1>5, <1>6 DEF RefundExpired, NoteUnclaimable
<1>7. CASE RoundRaises
  <2>1. attempted' \in [Swap -> Nat]
    BY <1>5, <1>7 DEF RoundRaises
  <2>2. /\ todo' = <<>> /\ at' = "idle" /\ UNCHANGED swapMachine
        /\ UNCHANGED <<clock, plan, restarts, waited>>
    BY <1>7 DEF RoundRaises
  <2> QED
    BY <2>1, <2>2, CoreStays DEF RestOK, TriedIsKnown
<1>8. CASE StartClaim
  <2>1. attempted' \in [Swap -> Nat]
    BY <1>5, <1>8 DEF StartClaim
  <2>2. /\ at = "check" /\ at' = "verify" /\ UNCHANGED swapMachine
        /\ UNCHANGED <<clock, plan, todo, restarts, waited>>
    BY <1>8 DEF StartClaim
  <2> QED
    BY <2>1, <2>2, HeadKeeps, StayKeeps
<1>9. CASE VerifyClaim \/ ClaimSwap
  <2>1. /\ at \in {"verify", "claim"}
        /\ UNCHANGED <<clock, plan, restarts, waited>> /\ attempted' \in [Swap -> Nat]
    BY <1>9 DEF VerifyClaim, ClaimSwap, RestOK
  <2>2. \/ /\ at' \in {"claim", "settle"} /\ UNCHANGED swapMachine /\ todo' = todo
        \/ /\ NextSwap
           /\ \/ SetSwap(Head(todo), swaps[Head(todo)]) /\ UNCHANGED acked
              \/ Transition(Head(todo), "refunded", "recovery")
    BY <1>9 DEF VerifyClaim, ClaimSwap
  <2>3. SwapCore' /\ Known \subseteq Known' /\ Head(todo) \in Known
    BY <2>1, <2>2, HeadKeeps
  <2> QED
    BY <2>1, <2>2, <2>3, StayKeeps, NextSwapKeeps
<1>10. CASE SettleClaim
  <2>1. /\ at = "settle" /\ NextSwap /\ Transition(Head(todo), "claimed", "recovery")
        /\ UNCHANGED <<clock, plan, restarts, waited>> /\ attempted' \in [Swap -> Nat]
    BY <1>10 DEF SettleClaim, RestOK
  <2> QED
    BY <2>1, HeadKeeps, NextSwapKeeps
<1> QED
  BY <1>1, <1>2, <1>3, <1>6, <1>7, <1>8, <1>9, <1>10 DEF RecoverFailedClaims

LEMMA SwapInvNext == SwapInv /\ [SwapNext]_swapVars => SwapInv'
<1> SUFFICES ASSUME SwapCore, RestOK, TriedIsKnown, [SwapNext]_swapVars
             PROVE  SwapCore' /\ RestOK' /\ TriedIsKnown'
  BY InvSplits DEF SwapInv, SwapTypeOK, SwapCore, WriteOK, RestOK
<1>1. ASSUME NEW s \in Swap,
             \/ \E contract \in Contract : CreateSwap(s, contract)
             \/ \E state \in SwapState : TransitionCall(s, state)
             \/ AutoTransitionRefund(s)
      PROVE  SwapCore' /\ RestOK' /\ TriedIsKnown'
  BY <1>1, CallsKeep
<1>2. CASE FindRefundableSwaps
  <2>1. UNCHANGED swapMachine /\ UNCHANGED <<clock, todo, at, restarts, attempted, waited>>
        /\ plan' \subseteq Swap
    BY <1>2 DEF FindRefundableSwaps
  <2> QED
    BY <2>1, CoreStays, BesideKeeps DEF RestOK
<1>3. CASE RecoverFailedClaims
  BY <1>3, RoundKeeps
<1>4. CASE Tick
  <2>1. UNCHANGED swapMachine /\ UNCHANGED <<plan, todo, at, restarts, attempted, waited>>
        /\ clock' \in 0 .. MaxTime
    BY <1>4, SwapAssumption DEF Tick, RestOK
  <2> QED
    BY <2>1, CoreStays, BesideKeeps DEF RestOK
<1>5. CASE RestartProcess
  <2>1. /\ restarts' \in 0 .. MaxRestarts /\ plan' = {} /\ todo' = <<>> /\ at' = "idle"
        /\ waited' \in [Swap -> Nat] /\ UNCHANGED <<clock, attempted>>
    BY <1>5, SwapAssumption DEF RestartProcess, RestOK
  <2> QED
    BY <1>5, <2>1, RestartKeeps DEF RestOK, TriedIsKnown
<1>6. CASE UNCHANGED swapVars
  <2>1. UNCHANGED swapMachine /\ UNCHANGED <<clock, plan, todo, at, restarts, attempted, waited>>
    BY <1>6 DEF swapVars, swapMachine
  <2> QED
    BY <2>1, CoreStays, BesideKeeps DEF RestOK
<1> QED
  BY <1>1, <1>2, <1>3, <1>4, <1>5, <1>6 DEF SwapNext

LEMMA SwapInvariance == SwapSpec => []SwapInv
BY SwapInvInit, SwapInvNext, PTL DEF SwapSpec

---------------------------------------------------------------------------
\* Type correctness of the state machine, its files and its services.
THEOREM SwapTypesHold == SwapSpec => []SwapTypeOK
<1>1. SwapInv => SwapTypeOK
  BY DEF SwapInv
<1> QED
  BY <1>1, SwapInvariance, PTL

\* No swap is reported claimed and reported refunded by any interleaving of
\* callers, planner, recovery and restarts, as long as its file missed no write
\* (transition, _persist_swap, _load_swaps).
THEOREM SettledOnce == SwapSpec => []NeverSettledTwice
<1>1. SwapInv => NeverSettledTwice
  BY DEF SwapInv, Settled, NeverSettledTwice
<1> QED
  BY <1>1, SwapInvariance, PTL

\* While every file parses, what was reported settled is in memory in that
\* state, also right after a restart (_load_swaps).
THEOREM SettlementsAreKept == SwapSpec => []SettlementsSurviveRestart
<1>1. SwapInv => SettlementsSurviveRestart
  <2> SUFFICES ASSUME SwapInv, \A r \in Swap : swapFile[r] # Torn,
                      NEW s \in Swap \ refusedWrite, acked[s] # {}
               PROVE  s \in Known /\ swaps[s].state \in acked[s]
    BY DEF SettlementsSurviveRestart
  <2>1. Settled(s)
    BY DEF SwapInv
  <2>2. swaps[s] # NoSwap
    BY <2>1 DEF SwapInv, Settled, FilesAreKnown
  <2> QED
    BY <2>1, <2>2 DEF Settled, Known
<1> QED
  BY <1>1, SwapInvariance, PTL

---------------------------------------------------------------------------
\* Attempts: memory and file count every attempt before it is made, so what was
\* tried never exceeds what either of them says of a swap.  An attempt that is
\* counted and not made yet is part of the sum.

Counted(s) == attempted[s] + (IF at = "check" /\ Head(todo) = s THEN 1 ELSE 0)

TriesBacked(s) ==
  /\ Counted(s) <= MaxAttempts
  /\ swaps[s] # NoSwap => Counted(s) <= swaps[s].tries
  /\ swapFile[s] \notin {NoSwap, Torn} => Counted(s) <= swapFile[s].tries

CountsBacked == \A s \in Swap \ refusedWrite : TriesBacked(s)

LEMMA RecordTries == \A swap \in SwapRecord : swap.tries \in Nat /\ swap.tries <= MaxAttempts
BY SwapAssumption DEF SwapRecord

\* A step that writes no swap and counts no attempt.
LEMMA CountsStay ==
  ASSUME CountsBacked, SwapCore, RestOK, RestOK',
         UNCHANGED <<swaps, swapFile, refusedWrite>>,
         \A s \in Swap : Counted(s)' <= Counted(s)
  PROVE  CountsBacked'
<1> SUFFICES ASSUME NEW s \in Swap \ refusedWrite
             PROVE  TriesBacked(s)'
  BY DEF CountsBacked
<1>1. TriesBacked(s) /\ Counted(s)' <= Counted(s)
  BY DEF CountsBacked
<1>2. Counted(s) \in Nat /\ Counted(s)' \in Nat
  <2>1. attempted \in [Swap -> Nat] /\ attempted' \in [Swap -> Nat]
    BY DEF RestOK
  <2> QED
    BY <2>1 DEF Counted
<1>3. /\ swaps[s] # NoSwap => swaps[s].tries \in Nat
      /\ swapFile[s] \notin {NoSwap, Torn} => swapFile[s].tries \in Nat
  BY RecordTries DEF SwapCore, WriteOK
<1> QED
  BY <1>1, <1>2, <1>3, SwapAssumption DEF TriesBacked

\* A step that writes one swap with a count that covers its attempts.
LEMMA CountsWritten ==
  ASSUME CountsBacked, SwapCore, RestOK, RestOK',
         NEW s \in Swap, NEW swap \in SwapRecord, SetSwap(s, swap),
         s \notin refusedWrite => Counted(s)' <= swap.tries,
         \A r \in Swap : r # s => Counted(r)' <= Counted(r)
  PROVE  CountsBacked'
<1> SUFFICES ASSUME NEW r \in Swap \ refusedWrite'
             PROVE  TriesBacked(r)'
  BY DEF CountsBacked
<1>1. /\ swaps' = [swaps EXCEPT ![s] = swap]
      /\ swapFile' \in {swapFile, [swapFile EXCEPT ![s] = swap],
                        [swapFile EXCEPT ![s] = Torn]}
      /\ refusedWrite' \in {refusedWrite, refusedWrite \cup {s}}
      /\ swapFile' = swapFile => s \in refusedWrite' \/ swapFile[s] \in {swap, Torn}
  BY WriteOutcome DEF SwapCore
<1>2. r \notin refusedWrite
  BY <1>1
<1>3. Counted(r) \in Nat /\ Counted(r)' \in Nat
  <2>1. attempted \in [Swap -> Nat] /\ attempted' \in [Swap -> Nat]
    BY DEF RestOK
  <2> QED
    BY <2>1 DEF Counted
<1>4. CASE r = s
  <2>1. swaps'[s] = swap /\ swapFile'[s] \in {swap, Torn}
    BY <1>1, <1>4 DEF SwapCore, WriteOK
  <2>2. Counted(r)' <= swap.tries
    BY <1>2, <1>4
  <2> QED
    BY <1>3, <1>4, <2>1, <2>2, RecordTries, SwapAssumption DEF TriesBacked
<1>5. CASE r # s
  <2>1. swaps'[r] = swaps[r] /\ swapFile'[r] = swapFile[r]
    BY <1>1, <1>5 DEF SwapCore, WriteOK
  <2>2. TriesBacked(r) /\ Counted(r)' <= Counted(r)
    BY <1>2, <1>5 DEF CountsBacked
  <2>3. /\ swaps[r] # NoSwap => swaps[r].tries \in Nat
        /\ swapFile[r] \notin {NoSwap, Torn} => swapFile[r].tries \in Nat
    BY RecordTries DEF SwapCore, WriteOK
  <2> QED
    BY <1>3, <2>1, <2>2, <2>3, SwapAssumption DEF TriesBacked
<1> QED
  BY <1>4, <1>5

\* A step that writes one swap, or none, and leaves the counts of all as they are.
LEMMA CountsUnderWrite ==
  ASSUME CountsBacked, SwapCore, RestOK, RestOK', NEW s \in Swap,
         \A r \in Swap : Counted(r)' <= Counted(r),
         \/ UNCHANGED <<swaps, swapFile, refusedWrite>>
         \/ s \in Known /\ SetSwap(s, swaps[s])
         \/ \E state \in SwapState, by \in Caller : Transition(s, state, by)
  PROVE  CountsBacked'
<1>1. ASSUME s \in Known, NEW swap \in SwapRecord, SetSwap(s, swap),
             swap.tries = swaps[s].tries
      PROVE  CountsBacked'
  <2>1. ASSUME s \notin refusedWrite
        PROVE  Counted(s)' <= swap.tries
    <3>1. Counted(s) <= swaps[s].tries
      BY <1>1, <2>1 DEF CountsBacked, TriesBacked, Known
    <3>2. attempted \in [Swap -> Nat] /\ attempted' \in [Swap -> Nat]
      BY DEF RestOK
    <3>3. Counted(s) \in Nat /\ Counted(s)' \in Nat
      BY <3>2 DEF Counted
    <3>4. Counted(s)' <= Counted(s) /\ swap.tries \in Nat
      BY RecordTries
    <3> QED
      BY <1>1, <3>1, <3>3, <3>4
  <2> QED
    BY <1>1, <2>1, CountsWritten
<1>2. s \in Known => swaps[s] \in SwapRecord
  BY DEF Known, SwapCore, WriteOK
<1>3. CASE UNCHANGED <<swaps, swapFile, refusedWrite>>
  BY <1>3, CountsStay
<1>4. CASE s \in Known /\ SetSwap(s, swaps[s])
  BY <1>1, <1>2, <1>4
<1>5. ASSUME NEW state \in SwapState, NEW by \in Caller, Transition(s, state, by)
      PROVE  CountsBacked'
  <2>1. CASE ~Allowed(s, state) /\ UNCHANGED swapMachine
    BY <2>1, CountsStay DEF swapMachine
  <2>2. CASE Allowed(s, state) /\ SetSwap(s, [swaps[s] EXCEPT !.state = state, !.by = by])
    <3> DEFINE swap == [swaps[s] EXCEPT !.state = state, !.by = by]
    <3>1. s \in Known
      BY <2>2 DEF Allowed
    <3>2. swap \in SwapRecord /\ swap.tries = swaps[s].tries
      BY <1>2, <3>1 DEF SwapRecord
    <3>3. SetSwap(s, swap)
      BY <2>2
    <3> HIDE DEF swap
    <3> QED
      BY <1>1, <3>1, <3>2, <3>3
  <2> QED
    BY <1>5, <2>1, <2>2 DEF Transition
<1> QED
  BY <1>3, <1>4, <1>5

\* Calls from outside leave the round alone.
LEMMA CallsKeepCounts ==
  ASSUME CountsBacked, SwapCore, RestOK, TriedIsKnown, RestOK', NEW s \in Swap,
         \/ \E contract \in Contract : CreateSwap(s, contract)
         \/ \E state \in SwapState : TransitionCall(s, state)
         \/ AutoTransitionRefund(s)
  PROVE  CountsBacked'
<1>1. UNCHANGED <<at, todo>>
  BY DEF CreateSwap, TransitionCall, AutoTransitionRefund
<1>2. attempted \in [Swap -> Nat]
  BY DEF RestOK
<1>3. ASSUME NEW contract \in Contract, CreateSwap(s, contract)
      PROVE  CountsBacked'
  <2> DEFINE swap == [state |-> "initiated", contract |-> contract,
                      tries |-> 0, by |-> "api"]
  <2>1. swap \in SwapRecord /\ swap.tries = 0
    BY SwapAssumption DEF SwapRecord, SwapState, Caller
  <2>2. SetSwap(s, swap) /\ swaps[s] = NoSwap /\ attempted' = [attempted EXCEPT ![s] = 0]
    BY <1>3 DEF CreateSwap
  <2>3. ~(at = "check" /\ Head(todo) = s)
    BY <2>2 DEF TriedIsKnown, Known
  <2>4. Counted(s)' = 0
    BY <1>1, <1>2, <2>2, <2>3 DEF Counted
  <2>5. ASSUME NEW r \in Swap, r # s
        PROVE  Counted(r)' <= Counted(r)
    <3>1. attempted'[r] = attempted[r] /\ attempted[r] \in Nat
      BY <1>2, <2>2, <2>5
    <3> QED
      BY <1>1, <3>1 DEF Counted
  <2> HIDE DEF swap
  <2> QED
    BY <2>1, <2>2, <2>4, <2>5, CountsWritten
<1>4. ASSUME UNCHANGED attempted
      PROVE  \A r \in Swap : Counted(r)' <= Counted(r)
  <2> SUFFICES ASSUME NEW r \in Swap
               PROVE  Counted(r)' <= Counted(r)
    OBVIOUS
  <2>1. attempted[r] \in Nat
    BY <1>2
  <2> QED
    BY <1>1, <1>4, <2>1 DEF Counted
<1>5. ASSUME NEW state \in SwapState, TransitionCall(s, state)
      PROVE  CountsBacked'
  BY <1>4, <1>5, CountsUnderWrite DEF TransitionCall, Caller
<1>6. CASE AutoTransitionRefund(s)
  BY <1>4, <1>6, CountsUnderWrite DEF AutoTransitionRefund, SwapState, Caller
<1> QED
  BY <1>3, <1>5, <1>6

LEMMA CountKeepsCounts ==
  ASSUME CountsBacked, SwapCore, RestOK, RestOK', CountAttempt
  PROVE  CountsBacked'
<1>0. PICK s \in Swap : s = Head(todo)
  BY DEF CountAttempt, Failed, Known
<1> DEFINE swap == [swaps[s] EXCEPT !.tries = @ + 1]
<1>1. s \in Known /\ swaps[s].tries < MaxAttempts /\ SetSwap(s, swap)
  BY <1>0 DEF CountAttempt, Failed, Known
<1>2. swaps[s] \in SwapRecord
  BY <1>1 DEF SwapCore, WriteOK, Known
<1>3. swap \in SwapRecord /\ swap.tries = swaps[s].tries + 1 /\ swaps[s].tries \in Nat
  BY <1>1, <1>2, SwapAssumption DEF SwapRecord
<1>4. at = "next" /\ at' = "check" /\ UNCHANGED <<todo, attempted>>
  BY DEF CountAttempt
<1>5. attempted \in [Swap -> Nat]
  BY DEF RestOK
<1>6. s \notin refusedWrite => Counted(s)' <= swap.tries
  <2>1. s \notin refusedWrite => Counted(s) <= swaps[s].tries
    BY <1>1 DEF CountsBacked, TriesBacked, Known
  <2>2. Counted(s) = attempted[s] /\ Counted(s)' = attempted[s] + 1 /\ attempted[s] \in Nat
    BY <1>0, <1>4, <1>5 DEF Counted
  <2> QED
    BY <1>3, <2>1, <2>2
<1>7. ASSUME NEW r \in Swap, r # s
      PROVE  Counted(r)' <= Counted(r)
  <2>1. attempted[r] \in Nat
    BY <1>5
  <2> QED
    BY <1>0, <1>4, <1>7, <2>1 DEF Counted
<1> HIDE DEF swap
<1> QED
  BY <1>1, <1>3, <1>6, <1>7, CountsWritten

\* The steps of a round that follow the count: an attempt that was counted is
\* made, or nothing is counted.
LEMMA RoundKeepsCounts ==
  ASSUME CountsBacked, SwapCore, RestOK, TriedIsKnown, RestOK', RecoverFailedClaims
  PROVE  CountsBacked'
<1>1. attempted \in [Swap -> Nat]
  BY DEF RestOK
<1>2. ASSUME at' # "check",
             \/ UNCHANGED attempted
             \/ at = "check" /\ Try(Head(todo))
      PROVE  \A r \in Swap : Counted(r)' <= Counted(r)
  <2> SUFFICES ASSUME NEW r \in Swap
               PROVE  Counted(r)' <= Counted(r)
    OBVIOUS
  <2>1. attempted[r] \in Nat
    BY <1>1
  <2>2. CASE UNCHANGED attempted
    BY <1>2, <2>1, <2>2 DEF Counted
  <2>3. CASE at = "check" /\ Try(Head(todo))
    BY <1>1, <1>2, <2>1, <2>3 DEF Counted, Try
  <2> QED
    BY <1>2, <2>2, <2>3
<1>3. CASE BeginRound \/ SkipSwap \/ RoundRaises \/ StartClaim
  <2>1. UNCHANGED <<swaps, swapFile, refusedWrite>>
    BY <1>3 DEF BeginRound, SkipSwap, RoundRaises, StartClaim, swapMachine
  <2>2. at' # "check" /\ (UNCHANGED attempted \/ (at = "check" /\ Try(Head(todo))))
    BY <1>3 DEF BeginRound, SkipSwap, RoundRaises, StartClaim, NextSwap
  <2> QED
    BY <1>2, <2>1, <2>2, CountsStay
<1>4. CASE CountAttempt
  BY <1>4, CountKeepsCounts
<1>5. CASE RefundExpired \/ NoteUnclaimable \/ VerifyClaim \/ ClaimSwap \/ SettleClaim
  <2>1. at' # "check" /\ (UNCHANGED attempted \/ (at = "check" /\ Try(Head(todo))))
    BY <1>5 DEF RefundExpired, NoteUnclaimable, VerifyClaim, ClaimSwap, SettleClaim, NextSwap
  <2>2. Head(todo) \in Known /\ Head(todo) \in Swap
    BY <1>5 DEF RefundExpired, NoteUnclaimable, VerifyClaim, ClaimSwap, SettleClaim,
                TriedIsKnown, Known
  <2>3. \/ UNCHANGED swapMachine
        \/ SetSwap(Head(todo), swaps[Head(todo)])
        \/ Transition(Head(todo), "refunded", "recovery")
        \/ Transition(Head(todo), "claimed", "recovery")
    BY <1>5 DEF RefundExpired, NoteUnclaimable, VerifyClaim, ClaimSwap, SettleClaim
  <2>4. \A r \in Swap : Counted(r)' <= Counted(r)
    BY <1>2, <2>1
  <2>5. \/ UNCHANGED <<swaps, swapFile, refusedWrite>>
        \/ Head(todo) \in Known /\ SetSwap(Head(todo), swaps[Head(todo)])
        \/ \E state \in SwapState, by \in Caller : Transition(Head(todo), state, by)
    BY <2>2, <2>3 DEF swapMachine, SwapState, Caller
  <2> QED
    BY ONLY <2>2, <2>4, <2>5, CountsUnderWrite, CountsBacked, SwapCore, RestOK, RestOK'
<1> QED
  BY <1>3, <1>4, <1>5 DEF RecoverFailedClaims

LEMMA RestartKeepsCounts ==
  ASSUME CountsBacked, SwapCore, RestOK, RestartProcess
  PROVE  CountsBacked'
<1> SUFFICES ASSUME NEW s \in Swap \ refusedWrite
             PROVE  TriesBacked(s)'
  BY DEF CountsBacked, RestartProcess
<1>1. PICK loaded \in LoadOutcomes :
        swaps' = [r \in Swap |-> IF r \in loaded THEN swapFile[r] ELSE NoSwap]
  BY DEF RestartProcess
<1>2. UNCHANGED <<swapFile, attempted>> /\ at' = "idle"
  BY DEF RestartProcess
<1>3. s \in loaded => swapFile[s] \notin {NoSwap, Torn}
  BY <1>1 DEF LoadOutcomes
<1>4. swaps'[s] # NoSwap => swaps'[s] = swapFile[s] /\ swapFile[s] \notin {NoSwap, Torn}
  BY <1>1, <1>3
<1>5. attempted[s] \in Nat
  BY DEF RestOK
<1>6. Counted(s)' = attempted[s] /\ Counted(s) \in {attempted[s], attempted[s] + 1}
  BY <1>2, <1>5 DEF Counted
<1>7. /\ Counted(s) <= MaxAttempts
      /\ swapFile[s] \notin {NoSwap, Torn} => Counted(s) <= swapFile[s].tries
  BY DEF CountsBacked, TriesBacked
<1>8. swapFile[s] \notin {NoSwap, Torn} => swapFile[s].tries \in Nat
  BY RecordTries DEF SwapCore, WriteOK
<1>9. Counted(s)' \in Nat /\ Counted(s)' <= Counted(s) /\ Counted(s) \in Nat
  BY <1>5, <1>6
<1>10. Counted(s)' <= MaxAttempts
  BY <1>7, <1>9, SwapAssumption
<1>11. swapFile[s] \notin {NoSwap, Torn} => Counted(s)' <= swapFile[s].tries
  BY <1>7, <1>8, <1>9
<1> QED
  BY <1>2, <1>4, <1>10, <1>11 DEF TriesBacked

LEMMA CountsInvariance == SwapSpec => []CountsBacked
<1>1. SwapInit => CountsBacked
  BY SwapAssumption DEF SwapInit, CountsBacked, TriesBacked, Counted
<1>2. SwapInv /\ SwapInv' /\ CountsBacked /\ [SwapNext]_swapVars => CountsBacked'
  <2> SUFFICES ASSUME SwapCore, RestOK, TriedIsKnown, RestOK', CountsBacked,
                      [SwapNext]_swapVars
               PROVE  CountsBacked'
    BY InvSplits DEF SwapInv, SwapTypeOK, RestOK
  <2>1. ASSUME NEW s \in Swap,
               \/ \E contract \in Contract : CreateSwap(s, contract)
               \/ \E state \in SwapState : TransitionCall(s, state)
               \/ AutoTransitionRefund(s)
        PROVE  CountsBacked'
    BY <2>1, CallsKeepCounts
  <2>2. CASE FindRefundableSwaps \/ Tick \/ UNCHANGED swapVars
    <3>1. UNCHANGED <<swaps, swapFile, refusedWrite, attempted, at, todo>>
      BY <2>2 DEF FindRefundableSwaps, Tick, swapVars, swapMachine
    <3>2. ASSUME NEW s \in Swap
          PROVE  Counted(s)' <= Counted(s)
      <4>1. attempted[s] \in Nat
        BY DEF RestOK
      <4> QED
        BY <3>1, <4>1 DEF Counted
    <3> QED
      BY <3>1, <3>2, CountsStay
  <2>3. CASE RecoverFailedClaims
    BY <2>3, RoundKeepsCounts
  <2>4. CASE RestartProcess
    BY <2>4, RestartKeepsCounts
  <2> QED
    BY <2>1, <2>2, <2>3, <2>4 DEF SwapNext
<1> QED
  BY <1>1, <1>2, SwapInvariance, PTL DEF SwapSpec

\* The recovery tries a swap at most MaxAttempts times in its life, whatever is
\* restarted between the count and the attempt (recover_failed_claims), unless
\* its file missed a write.
THEOREM AttemptsAreBounded == SwapSpec => []TriesBounded
<1>1. SwapInv /\ CountsBacked => TriesBounded
  <2> SUFFICES ASSUME SwapInv, CountsBacked, NEW s \in Swap \ refusedWrite
               PROVE  attempted[s] <= MaxAttempts
    BY DEF TriesBounded
  <2>1. attempted[s] \in Nat
    BY DEF SwapInv, SwapTypeOK
  <2>2. Counted(s) <= MaxAttempts
    BY DEF CountsBacked, TriesBacked
  <2> QED
    BY <2>1, <2>2, SwapAssumption DEF Counted
<1> QED
  BY <1>1, SwapInvariance, CountsInvariance, PTL

---------------------------------------------------------------------------
\* Waiting: each round that ends without reaching a waiting swap used up one
\* attempt of a swap whose data raises.  The attempts that are used up are the
\* elements of Spent; beside them a swap waits for the round that is running and
\* for one more if its timelock passed between two looks at the clock.

Raising(s) == s \in Known /\ swaps[s].contract.claim = "raises"

Spent == {p \in Swap \X (1 .. MaxAttempts) : Raising(p[1]) /\ p[2] <= swaps[p[1]].tries}

Late(s) == IF TooLateToClaim(s) THEN 1 ELSE 0

InRound(s) == \E i \in DOMAIN todo : todo[i] = s

HeadRaises == at = "check" /\ Raising(Head(todo))

Claiming(s) == at \in {"verify", "claim", "settle"} /\ Head(todo) = s

WaitBacked(s) ==
  Waiting(s) =>
    /\ waited[s] <= Cardinality(Spent) + Late(s) + 1
    /\ ~InRound(s) \/ HeadRaises => waited[s] <= Cardinality(Spent) + Late(s)
    /\ Claiming(s) => waited[s] <= Cardinality(Spent) + 1

NotFailedYet(s) ==
  swaps[s] # NoSwap => swaps[s].state \in {"initiated", "funded", "counterparty_funded"}

WaitsBacked == \A s \in Swap : WaitBacked(s) /\ (NotFailedYet(s) => waited[s] = 0)

\* What a step other than a restart does to one swap in memory.
Advances(s) ==
  \/ swaps'[s] = swaps[s]
  \/ swaps[s] = NoSwap /\ swaps'[s] # NoSwap /\ swaps'[s].state = "initiated"
                       /\ swaps'[s].tries = 0
  \/ /\ swaps[s] # NoSwap /\ swaps'[s] # NoSwap
     /\ swaps'[s].contract = swaps[s].contract
     /\ swaps'[s].tries >= swaps[s].tries
     /\ \/ swaps'[s].state = swaps[s].state
        \/ swaps'[s].state \in STATE_TRANSITIONS[swaps[s].state]

LEMMA WriteAdvances ==
  ASSUME WriteOK, NEW s \in Known, NEW swap \in SwapRecord, SetSwap(s, swap),
         swap.contract = swaps[s].contract, swap.tries >= swaps[s].tries,
         swap.state = swaps[s].state \/ swap.state \in STATE_TRANSITIONS[swaps[s].state]
  PROVE  \A r \in Swap : Advances(r)
<1>1. s \in Swap /\ swaps[s] # NoSwap /\ swap # NoSwap
  BY Records DEF Known
<1>2. swaps' = [swaps EXCEPT ![s] = swap]
  BY DEF SetSwap
<1>3. swaps \in [Swap -> SwapRecord \cup {NoSwap}]
  BY DEF WriteOK
<1>4. swaps'[s] = swap /\ \A r \in Swap : r # s => swaps'[r] = swaps[r]
  BY <1>1, <1>2, <1>3
<1>5. Advances(s)
  BY <1>1, <1>4 DEF Advances
<1> QED
  BY <1>4, <1>5 DEF Advances

LEMMA TransitionAdvances ==
  ASSUME WriteOK, NEW s \in Swap, NEW state \in SwapState, NEW by \in Caller,
         Transition(s, state, by)
  PROVE  \A r \in Swap : Advances(r)
<1>1. CASE ~Allowed(s, state) /\ UNCHANGED swapMachine
  BY <1>1 DEF swapMachine, Advances
<1>2. CASE Allowed(s, state) /\ SetSwap(s, [swaps[s] EXCEPT !.state = state, !.by = by])
  <2> DEFINE swap == [swaps[s] EXCEPT !.state = state, !.by = by]
  <2>1. s \in Known /\ state \in STATE_TRANSITIONS[swaps[s].state]
    BY <1>2 DEF Allowed
  <2>2. swaps[s] \in SwapRecord
    BY <2>1 DEF Known, WriteOK
  <2>3. /\ swap \in SwapRecord /\ swap.state = state
        /\ swap.contract = swaps[s].contract /\ swap.tries = swaps[s].tries
    BY <2>2 DEF SwapRecord
  <2>4. swaps[s].tries \in Nat
    BY <2>2, RecordTries
  <2>5. SetSwap(s, swap)
    BY <1>2
  <2> HIDE DEF swap
  <2> QED
    BY <2>1, <2>3, <2>4, <2>5, WriteAdvances
<1> QED
  BY <1>1, <1>2 DEF Transition

LEMMA SwapsAdvance ==
  ASSUME SwapCore, RestOK, TriedIsKnown, SwapNext, ~RestartProcess
  PROVE  \A s \in Swap : Advances(s)
<1>1. WriteOK
  BY DEF SwapCore
<1>2. ASSUME UNCHANGED swaps
      PROVE  \A s \in Swap : Advances(s)
  BY <1>2 DEF Advances
<1>3. ASSUME NEW s \in Swap, NEW contract \in Contract, CreateSwap(s, contract)
      PROVE  \A r \in Swap : Advances(r)
  <2> DEFINE swap == [state |-> "initiated", contract |-> contract,
                      tries |-> 0, by |-> "api"]
  <2>1. swap # NoSwap /\ swap.state = "initiated" /\ swap.tries = 0
    <3>1. swap \in SwapRecord
      BY SwapAssumption DEF SwapRecord, SwapState, Caller
    <3> QED
      BY <3>1, Records
  <2>2. swaps' = [swaps EXCEPT ![s] = swap] /\ swaps[s] = NoSwap
    BY <1>3 DEF CreateSwap, SetSwap
  <2>3. swaps \in [Swap -> SwapRecord \cup {NoSwap}]
    BY <1>1 DEF WriteOK
  <2> HIDE DEF swap
  <2>4. swaps'[s] = swap /\ \A r \in Swap : r # s => swaps'[r] = swaps[r]
    BY <2>2, <2>3
  <2>5. Advances(s)
    BY <2>1, <2>2, <2>4 DEF Advances
  <2> QED
    BY <2>4, <2>5 DEF Advances
<1>4. ASSUME NEW s \in Swap,
             (\E state \in SwapState : TransitionCall(s, state)) \/ AutoTransitionRefund(s)
      PROVE  \A r \in Swap : Advances(r)
  BY <1>1, <1>4, TransitionAdvances DEF TransitionCall, AutoTransitionRefund, SwapState, Caller
<1>5. CASE CountAttempt
  <2>0. PICK s \in Swap : s = Head(todo)
    BY <1>5 DEF CountAttempt, Failed, Known
  <2> DEFINE swap == [swaps[s] EXCEPT !.tries = @ + 1]
  <2>1. s \in Known /\ swaps[s].tries < MaxAttempts /\ SetSwap(s, swap)
    BY <1>5, <2>0 DEF CountAttempt, Failed, Known
  <2>2. swaps[s] \in SwapRecord
    BY <1>1, <2>1 DEF WriteOK, Known
  <2>3. /\ swap \in SwapRecord /\ swap.state = swaps[s].state
        /\ swap.contract = swaps[s].contract /\ swap.tries >= swaps[s].tries
    BY <2>1, <2>2, SwapAssumption DEF SwapRecord
  <2> HIDE DEF swap
  <2> QED
    BY <1>1, <2>1, <2>3, WriteAdvances
<1>6. CASE RefundExpired \/ NoteUnclaimable \/ VerifyClaim \/ ClaimSwap \/ SettleClaim
  <2>1. PICK s \in Known : s = Head(todo)
    BY <1>6 DEF RefundExpired, NoteUnclaimable, VerifyClaim, ClaimSwap, SettleClaim,
                TriedIsKnown
  <2>2. s \in Swap /\ swaps[s] \in SwapRecord
    BY <1>1 DEF WriteOK, Known
  <2>3. \/ UNCHANGED swapMachine
        \/ SetSwap(s, swaps[s])
        \/ Transition(s, "refunded", "recovery")
        \/ Transition(s, "claimed", "recovery")
    BY <1>6, <2>1 DEF RefundExpired, NoteUnclaimable, VerifyClaim, ClaimSwap, SettleClaim
  <2>4. CASE UNCHANGED swapMachine
    BY <1>2, <2>4 DEF swapMachine
  <2>5. CASE SetSwap(s, swaps[s])
    BY <1>1, <2>2, <2>5, WriteAdvances, RecordTries
  <2>6. CASE Transition(s, "refunded", "recovery") \/ Transition(s, "claimed", "recovery")
    BY <1>1, <2>2, <2>6, TransitionAdvances DEF SwapState, Caller
  <2> QED
    BY <2>3, <2>4, <2>5, <2>6
<1>7. CASE BeginRound \/ SkipSwap \/ RoundRaises \/ StartClaim \/ FindRefundableSwaps \/ Tick
  BY <1>2, <1>7 DEF BeginRound, SkipSwap, RoundRaises, StartClaim, FindRefundableSwaps,
                    Tick, swapMachine
<1> QED
  BY <1>3, <1>4, <1>5, <1>6, <1>7 DEF SwapNext, RecoverFailedClaims

LEMMA KnownIsTyped ==
  ASSUME WriteOK, NEW s \in Known
  PROVE  /\ swaps[s] \in SwapRecord /\ swaps[s].tries \in Nat
         /\ swaps[s].contract \in Contract /\ swaps[s].contract.timelock \in Nat
<1>1. swaps[s] \in SwapRecord
  BY DEF WriteOK, Known
<1>2. swaps[s].contract \in Contract /\ swaps[s].tries \in Nat
  BY <1>1, RecordTries DEF SwapRecord
<1> QED
  BY <1>1, <1>2, SwapAssumption

LEMMA SpentIsFinite ==
  /\ IsFiniteSet(Spent) /\ Cardinality(Spent) \in Nat
  /\ IsFiniteSet(Swap \X (1 .. MaxAttempts))
<1>1. IsFiniteSet(1 .. MaxAttempts)
  BY SwapAssumption, FS_Interval
<1>2. IsFiniteSet(Swap \X (1 .. MaxAttempts))
  BY <1>1, SwapAssumption, FS_Product
<1>3. Spent \in SUBSET (Swap \X (1 .. MaxAttempts))
  BY DEF Spent
<1>4. IsFiniteSet(Spent)
  BY <1>2, <1>3, FS_Subset
<1> QED
  BY <1>2, <1>4, FS_CardinalityType

LEMMA SpentGrows ==
  ASSUME WriteOK, WriteOK', \A s \in Swap : Advances(s)
  PROVE  /\ Spent \subseteq Spent' /\ Cardinality(Spent) <= Cardinality(Spent')
         /\ Cardinality(Spent') \in Nat /\ IsFiniteSet(Spent')
<1>1. Spent \subseteq Spent'
  <2> SUFFICES ASSUME NEW p \in Spent
               PROVE  p \in Spent'
    OBVIOUS
  <2>1. /\ p \in Swap \X (1 .. MaxAttempts) /\ Raising(p[1])
        /\ p[2] <= swaps[p[1]].tries /\ p[1] \in Swap /\ p[2] \in Nat
    BY SwapAssumption DEF Spent
  <2>2. Advances(p[1]) /\ p[1] \in Known
    BY <2>1 DEF Raising
  <2>3. swaps[p[1]].tries \in Nat
    BY <2>2, KnownIsTyped
  <2>4. Raising(p[1])' /\ swaps'[p[1]].tries >= swaps[p[1]].tries
    BY <2>1, <2>2, <2>3 DEF Advances, Raising, Known
  <2>5. swaps'[p[1]].tries \in Nat
    <3>1. swaps'[p[1]] # NoSwap
      BY <2>4 DEF Raising, Known
    <3>2. swaps'[p[1]] \in SwapRecord
      BY <2>1, <3>1 DEF WriteOK
    <3> QED
      BY <3>2, RecordTries
  <2> QED
    BY <2>1, <2>3, <2>4, <2>5 DEF Spent
<1>2. Spent' \in SUBSET (Swap \X (1 .. MaxAttempts))
  BY DEF Spent
<1>3. IsFiniteSet(Spent')
  BY <1>2, SpentIsFinite, FS_Subset
<1>4. Cardinality(Spent) <= Cardinality(Spent') /\ Cardinality(Spent') \in Nat
  BY <1>1, <1>3, FS_Subset, FS_CardinalityType
<1> QED
  BY <1>1, <1>3, <1>4

\* A swap begins to wait when it fails; it has not waited before.
LEMMA WaitingBegins ==
  ASSUME WriteOK, WriteOK', NEW s \in Swap, Advances(s), clock' >= clock, clock \in Nat,
         clock' \in Nat
  PROVE  /\ Waiting(s)' => (Waiting(s) /\ Late(s)' >= Late(s)) \/ NotFailedYet(s)
         /\ NotFailedYet(s)' => NotFailedYet(s)
<1>1. /\ \A state \in SwapState : STATE_TRANSITIONS[state] \subseteq SwapState
      /\ STATE_TRANSITIONS["claimed"] = {} /\ STATE_TRANSITIONS["refunded"] = {}
      /\ STATE_TRANSITIONS["expired"] = {}
      /\ STATE_TRANSITIONS["failed"] = {"claimed", "refunded"}
      /\ "failed" \notin STATE_TRANSITIONS["counterparty_funded"]
  BY DEF STATE_TRANSITIONS, SwapState
<1>2. CASE swaps'[s] = swaps[s]
  <2>1. Waiting(s)' => Waiting(s)
    BY <1>2 DEF Waiting, Failed, Known
  <2>2. Waiting(s) => Late(s)' >= Late(s)
    <3>1. Waiting(s) => swaps[s].contract.timelock \in Nat
      BY KnownIsTyped DEF Waiting, Failed
    <3> QED
      BY <1>2, <3>1 DEF Late, TooLateToClaim
  <2>3. NotFailedYet(s)' => NotFailedYet(s)
    BY <1>2 DEF NotFailedYet
  <2> QED
    BY <2>1, <2>2, <2>3
<1>3. CASE swaps[s] = NoSwap
  BY <1>3 DEF NotFailedYet
<1>4. CASE /\ swaps[s] # NoSwap /\ swaps'[s] # NoSwap
           /\ swaps'[s].contract = swaps[s].contract
           /\ swaps'[s].tries >= swaps[s].tries
           /\ \/ swaps'[s].state = swaps[s].state
              \/ swaps'[s].state \in STATE_TRANSITIONS[swaps[s].state]
  <2>1. /\ s \in Known /\ swaps[s].tries \in Nat /\ swaps[s].contract.timelock \in Nat
        /\ swaps[s] \in SwapRecord
    <3>1. s \in Known
      BY <1>4 DEF Known
    <3> QED
      BY <3>1, KnownIsTyped
  <2>2. swaps[s].state \in SwapState
    BY <2>1 DEF SwapRecord
  <2>3. swaps'[s].tries \in Nat
    <3>1. swaps'[s] \in SwapRecord
      BY <1>4 DEF WriteOK
    <3> QED
      BY <3>1, RecordTries
  <2>4. swaps'[s].state = "failed" => swaps[s].state = "failed" \/ NotFailedYet(s)
    BY <1>1, <1>4, <2>2 DEF SwapState, NotFailedYet
  <2>5. swaps'[s].tries < MaxAttempts => swaps[s].tries < MaxAttempts
    BY <1>4, <2>1, <2>3, SwapAssumption
  <2>6. Waiting(s)' => Waiting(s) \/ NotFailedYet(s)
    BY <1>4, <2>1, <2>4, <2>5 DEF Waiting, Failed
  <2>7. Late(s)' >= Late(s)
    BY <1>4, <2>1 DEF Late, TooLateToClaim
  <2>8. NotFailedYet(s)' => NotFailedYet(s)
    BY <1>1, <1>4, <2>2 DEF SwapState, NotFailedYet
  <2> QED
    BY <2>6, <2>7, <2>8
<1> QED
  BY <1>2, <1>3, <1>4 DEF Advances

LEMMA NextSwapPasses ==
  ASSUME todo \in Seq(Swap), todo # <<>>, NextSwap, NEW s \in Swap, InRound(s), ~InRound(s)'
  PROVE  s = Head(todo)
<1>1. PICK i \in 1 .. Len(todo) : todo[i] = s
  BY DEF InRound
<1>2. todo' = Tail(todo) /\ Tail(todo) \in Seq(Swap) /\ Len(Tail(todo)) = Len(todo) - 1
  BY DEF NextSwap
<1>3. CASE i = 1
  BY <1>1, <1>3
<1>4. CASE i # 1
  <2>1. i - 1 \in 1 .. Len(Tail(todo)) /\ Tail(todo)[i - 1] = todo[i]
    BY <1>1, <1>2, <1>4
  <2>2. InRound(s)'
    <3>1. DOMAIN todo' = 1 .. Len(Tail(todo))
      BY <1>2
    <3> QED
      BY <1>1, <1>2, <2>1, <3>1 DEF InRound
  <2> QED
    BY <2>2
<1> QED
  BY <1>3, <1>4

LEMMA RoundHasAll == BeginRound => \A s \in Known : InRound(s)'
<1> SUFFICES ASSUME BeginRound, NEW s \in Known
             PROVE  InRound(s)'
  OBVIOUS
<1>1. IsFiniteSet(Known) /\ Cardinality(Known) \in Nat
  BY SwapAssumption, FS_Subset, FS_CardinalityType DEF Known
<1>2. PICK order \in SetToSeqs(Known) : todo' = order
  BY DEF BeginRound
<1>3. order \in Injection(1 .. Cardinality(Known), Known)
  BY <1>2 DEF SetToSeqs, Injection, IsInjective
<1>4. Cardinality(1 .. Cardinality(Known)) = Cardinality(Known)
  BY <1>1, FS_Interval
<1>5. order \in Surjection(1 .. Cardinality(Known), Known)
  BY <1>1, <1>3, <1>4, FS_Injection
<1>6. PICK i \in 1 .. Cardinality(Known) : order[i] = s
  BY <1>5 DEF Surjection
<1>7. DOMAIN order = 1 .. Cardinality(Known)
  BY <1>2 DEF SetToSeqs
<1> QED
  BY <1>2, <1>6, <1>7 DEF InRound

\* What the steps of a round other than its begin and the count do to the bounds
\* of a swap that waits before and after: it is passed by only if a claim was too
\* late, and the round raises only at an attempt that is counted.
LEMMA RoundStepBounds ==
  ASSUME SwapCore, RestOK, TriedIsKnown, NEW s \in Swap, Waiting(s), Waiting(s)',
         \/ SkipSwap \/ RefundExpired \/ NoteUnclaimable \/ RoundRaises
         \/ StartClaim \/ VerifyClaim \/ ClaimSwap \/ SettleClaim
  PROVE  /\ ~HeadRaises'
         /\ ~InRound(s)' => ~InRound(s) \/ HeadRaises \/ (Claiming(s) /\ Late(s) = 1)
         /\ Claiming(s)' => Claiming(s) \/ Late(s) = 0
<1>1. at # "idle" /\ todo \in Seq(Swap) /\ todo # <<>>
  BY DEF RestOK, SkipSwap, RefundExpired, NoteUnclaimable, RoundRaises, StartClaim,
         VerifyClaim, ClaimSwap, SettleClaim
<1>2. at' # "check"
  BY DEF SkipSwap, RefundExpired, NoteUnclaimable, RoundRaises, StartClaim,
         VerifyClaim, ClaimSwap, SettleClaim, NextSwap
<1>3. /\ s \in Known /\ swaps[s] \in SwapRecord /\ swaps[s].tries < MaxAttempts
      /\ swaps[s].contract.claim = "claimable" /\ swaps[s].state = "failed"
      /\ swaps[s].contract.timelock \in Nat /\ swaps[s] # NoSwap
  BY KnownIsTyped DEF Waiting, Failed, SwapCore, Known
<1>4. clock \in Nat
  BY SwapAssumption DEF RestOK
<1>5. ASSUME s = Head(todo)
      PROVE  ~Transition(s, "refunded", "recovery") /\ ~Transition(s, "claimed", "recovery")
  <2> SUFFICES ASSUME NEW state \in {"claimed", "refunded"},
                      Transition(s, state, "recovery")
               PROVE  FALSE
    OBVIOUS
  <2>1. state \in STATE_TRANSITIONS["failed"]
    BY DEF STATE_TRANSITIONS, SwapState
  <2>2. swaps' = [swaps EXCEPT ![s] = [swaps[s] EXCEPT !.state = state, !.by = "recovery"]]
    BY <1>3, <2>1 DEF Transition, Allowed, SetSwap
  <2>3. swaps \in [Swap -> SwapRecord \cup {NoSwap}]
    BY DEF SwapCore, WriteOK
  <2>4. swaps'[s].state = state
    BY <1>3, <2>2, <2>3 DEF SwapRecord
  <2> QED
    BY <2>4 DEF Waiting, Failed
<1>6. CASE SkipSwap
  <2>1. s # Head(todo)
    BY <1>3, <1>6, SwapAssumption, RecordTries DEF SkipSwap, Failed
  <2>2. NextSwap
    BY <1>6 DEF SkipSwap
  <2> QED
    BY <1>1, <1>2, <2>1, <2>2, NextSwapPasses DEF HeadRaises, Claiming, NextSwap
<1>7. CASE RefundExpired \/ SettleClaim
  <2>1. s # Head(todo) /\ NextSwap
    BY <1>5, <1>7 DEF RefundExpired, SettleClaim
  <2> QED
    BY <1>1, <1>2, <2>1, NextSwapPasses DEF HeadRaises, Claiming, NextSwap
<1>8. CASE NoteUnclaimable
  <2>1. s # Head(todo) /\ NextSwap
    BY <1>3, <1>8 DEF NoteUnclaimable
  <2> QED
    BY <1>1, <1>2, <2>1, NextSwapPasses DEF HeadRaises, Claiming, NextSwap
<1>9. CASE RoundRaises
  <2>1. HeadRaises
    BY <1>9 DEF RoundRaises, HeadRaises, Raising, TriedIsKnown
  <2> QED
    BY <1>2, <1>9, <2>1 DEF HeadRaises, Claiming, RoundRaises
<1>10. CASE StartClaim
  <2>1. todo' = todo /\ (s = Head(todo) => Late(s) = 0)
    BY <1>3, <1>4, <1>10 DEF StartClaim, TIMELOCK_EXPIRED, Late, TooLateToClaim
  <2> QED
    BY <1>2, <1>10, <2>1 DEF HeadRaises, Claiming, InRound
<1>11. CASE VerifyClaim
  <2>1. CASE at' = "claim" /\ todo' = todo /\ at = "verify"
    BY <1>2, <2>1 DEF HeadRaises, Claiming, InRound
  <2>2. CASE Transition(Head(todo), "refunded", "recovery") /\ NextSwap
    <3>1. s # Head(todo)
      BY <1>5, <2>2
    <3> QED
      BY <1>1, <1>2, <2>2, <3>1, NextSwapPasses DEF HeadRaises, Claiming, NextSwap
  <2> QED
    BY <1>11, <2>1, <2>2 DEF VerifyClaim
<1>12. CASE ClaimSwap
  <2>1. CASE at' = "settle" /\ todo' = todo /\ at = "claim"
    BY <1>2, <2>1 DEF HeadRaises, Claiming, InRound
  <2>2. CASE TooLateToClaim(Head(todo)) /\ NextSwap /\ at = "claim"
    <3>1. s = Head(todo) => Claiming(s) /\ Late(s) = 1
      BY <2>2 DEF Claiming, Late
    <3> QED
      BY <1>1, <1>2, <2>2, <3>1, NextSwapPasses DEF HeadRaises, Claiming, NextSwap
  <2> QED
    BY <1>12, <2>1, <2>2 DEF ClaimSwap
<1> QED
  BY <1>6, <1>7, <1>8, <1>9, <1>10, <1>11, <1>12

\* Steps that leave the round as it is, and keep its bounds with it.
LEMMA BesideStepBounds ==
  ASSUME TriedIsKnown, \A r \in Swap : Advances(r), UNCHANGED <<at, todo>>, NEW s \in Swap
  PROVE  /\ HeadRaises' => HeadRaises
         /\ ~InRound(s)' => ~InRound(s)
         /\ Claiming(s)' => Claiming(s)
<1>1. HeadRaises' => HeadRaises
  <2> SUFFICES ASSUME HeadRaises'
               PROVE  HeadRaises
    OBVIOUS
  <2>1. PICK h \in Known : h = Head(todo) /\ at = "check"
    BY DEF HeadRaises, TriedIsKnown
  <2>2. h \in Swap /\ swaps[h] # NoSwap /\ Raising(h)'
    BY <2>1 DEF HeadRaises, Known
  <2>3. swaps'[h].contract = swaps[h].contract
    BY <2>2 DEF Advances
  <2> QED
    BY <2>1, <2>2, <2>3 DEF HeadRaises, Raising
<1> QED
  BY <1>1 DEF InRound, Claiming

\* The count of an attempt of a swap whose data raises pays for the round.
LEMMA CountBounds ==
  ASSUME SwapCore, SwapCore', RestOK, CountAttempt, \A r \in Swap : Advances(r), HeadRaises'
  PROVE  Cardinality(Spent') >= Cardinality(Spent) + 1
<1>0. PICK s \in Swap : s = Head(todo)
  BY DEF CountAttempt, Failed, Known
<1> DEFINE new == <<s, swaps[s].tries + 1>>
<1>1. s \in Known /\ swaps[s].tries < MaxAttempts
      /\ swaps' = [swaps EXCEPT ![s] = [swaps[s] EXCEPT !.tries = @ + 1]] /\ todo' = todo
  BY <1>0 DEF CountAttempt, Failed, Known, SetSwap
<1>2. swaps[s] \in SwapRecord /\ swaps[s].tries \in Nat
  BY <1>1, KnownIsTyped DEF SwapCore
<1>3. swaps'[s].tries = swaps[s].tries + 1
  BY <1>1, <1>2 DEF SwapCore, WriteOK, SwapRecord
<1>4. Raising(s)'
  BY <1>0, <1>1 DEF HeadRaises
<1>5. new \in Spent'
  BY <1>1, <1>2, <1>3, <1>4, SwapAssumption DEF Spent
<1>6. new \notin Spent
  BY <1>2 DEF Spent
<1>7. Spent \subseteq Spent' /\ IsFiniteSet(Spent') /\ Cardinality(Spent') \in Nat
  BY SpentGrows DEF SwapCore
<1>8. IsFiniteSet(Spent \cup {new}) /\ Cardinality(Spent \cup {new}) = Cardinality(Spent) + 1
  BY <1>6, SpentIsFinite, FS_AddElement
<1>9. Spent \cup {new} \in SUBSET Spent'
  BY <1>5, <1>7
<1> HIDE DEF new
<1>10. Cardinality(Spent \cup {new}) <= Cardinality(Spent')
  BY <1>7, <1>9, FS_Subset
<1> QED
  BY <1>8, <1>10

LEMMA WaitsKept ==
  ASSUME SwapCore, RestOK, TriedIsKnown, SwapCore', RestOK', WaitsBacked,
         SwapNext, ~RestartProcess, NEW s \in Swap
  PROVE  WaitBacked(s)' /\ (NotFailedYet(s)' => waited'[s] = 0)
<1>1. \A r \in Swap : Advances(r)
  BY SwapsAdvance
<1>2. clock' >= clock /\ clock \in Nat /\ clock' \in Nat
  <2>1. clock' = clock \/ clock' = clock + 1
    BY DEF SwapNext, CreateSwap, TransitionCall, AutoTransitionRefund, FindRefundableSwaps,
           RecoverFailedClaims, BeginRound, SkipSwap, CountAttempt, RefundExpired,
           NoteUnclaimable, RoundRaises, StartClaim, VerifyClaim, ClaimSwap, SettleClaim, Tick
  <2> QED
    BY <2>1, SwapAssumption DEF RestOK
<1>3. WriteOK /\ WriteOK'
  BY DEF SwapCore
<1>4. /\ Waiting(s)' => (Waiting(s) /\ Late(s)' >= Late(s)) \/ NotFailedYet(s)
      /\ NotFailedYet(s)' => NotFailedYet(s)
  BY <1>1, <1>2, <1>3, WaitingBegins
<1>5. /\ Cardinality(Spent) <= Cardinality(Spent')
      /\ Cardinality(Spent) \in Nat /\ Cardinality(Spent') \in Nat
  BY <1>1, <1>3, SpentGrows, SpentIsFinite
<1>6. /\ Late(s) \in {0, 1} /\ Late(s)' \in {0, 1}
      /\ waited[s] \in Nat /\ waited'[s] \in Nat
  BY DEF Late, RestOK
<1>7. WaitBacked(s) /\ (NotFailedYet(s) => waited[s] = 0)
  BY DEF WaitsBacked
<1>8. CASE BeginRound
  <2>1. /\ waited'[s] = IF Waiting(s) THEN waited[s] + 1 ELSE 0
        /\ at = "idle" /\ at' = "next" /\ swaps' = swaps /\ clock' = clock
    BY <1>8 DEF BeginRound, swapMachine
  <2>2. ~InRound(s)
    BY <2>1 DEF InRound, RestOK
  <2>3. Waiting(s)' <=> Waiting(s)
    BY <2>1 DEF Waiting, Failed, Known
  <2>4. Waiting(s) => s \in Known /\ InRound(s)'
    BY <1>8, RoundHasAll DEF Waiting, Failed
  <2>5. ~HeadRaises' /\ ~Claiming(s)'
    BY <2>1 DEF HeadRaises, Claiming
  <2>6. Cardinality(Spent') = Cardinality(Spent) /\ Late(s)' = Late(s)
    BY <2>1 DEF Spent, Raising, Known, Late, TooLateToClaim
  <2>7. Waiting(s) => waited[s] <= Cardinality(Spent) + Late(s)
    BY <1>7, <2>2 DEF WaitBacked
  <2>8. WaitBacked(s)'
    BY <1>5, <1>6, <2>1, <2>3, <2>4, <2>5, <2>6, <2>7 DEF WaitBacked
  <2>9. NotFailedYet(s)' => ~Waiting(s)
    BY <2>1 DEF NotFailedYet, Waiting, Failed, Known
  <2> QED
    BY <2>1, <2>8, <2>9
<1>9. CASE ~BeginRound /\ waited' = waited
  <2>1. NotFailedYet(s)' => waited'[s] = 0
    BY <1>4, <1>7, <1>9
  <2>2. ASSUME Waiting(s)', NotFailedYet(s)
        PROVE  WaitBacked(s)'
    BY <1>5, <1>6, <1>7, <1>9, <2>2 DEF WaitBacked
  <2>3. ASSUME Waiting(s)', Waiting(s), Late(s)' >= Late(s)
        PROVE  WaitBacked(s)'
    <3>1. /\ waited[s] <= Cardinality(Spent) + Late(s) + 1
          /\ ~InRound(s) \/ HeadRaises => waited[s] <= Cardinality(Spent) + Late(s)
          /\ Claiming(s) => waited[s] <= Cardinality(Spent) + 1
      BY <1>7, <2>3 DEF WaitBacked
    <3>2. CASE CountAttempt
      <4>1. at' = "check" /\ todo' = todo
        BY <3>2 DEF CountAttempt
      <4>2. ~Claiming(s)' /\ (~InRound(s)' => ~InRound(s))
        BY <4>1 DEF Claiming, InRound
      <4>3. HeadRaises' => Cardinality(Spent') >= Cardinality(Spent) + 1
        BY <1>1, <3>2, CountBounds
      <4> QED
        BY <1>5, <1>6, <1>9, <2>3, <3>1, <4>2, <4>3 DEF WaitBacked
    <3>3. CASE \/ SkipSwap \/ RefundExpired \/ NoteUnclaimable \/ RoundRaises
               \/ StartClaim \/ VerifyClaim \/ ClaimSwap \/ SettleClaim
      <4>1. /\ ~HeadRaises'
            /\ ~InRound(s)' => ~InRound(s) \/ HeadRaises \/ (Claiming(s) /\ Late(s) = 1)
            /\ Claiming(s)' => Claiming(s) \/ Late(s) = 0
        BY <2>3, <3>3, RoundStepBounds
      <4> QED
        BY <1>5, <1>6, <1>9, <2>3, <3>1, <4>1 DEF WaitBacked
    <3>4. CASE UNCHANGED <<at, todo>>
      <4>1. /\ HeadRaises' => HeadRaises
            /\ ~InRound(s)' => ~InRound(s)
            /\ Claiming(s)' => Claiming(s)
        BY <1>1, <3>4, BesideStepBounds
      <4> QED
        BY <1>5, <1>6, <1>9, <2>3, <3>1, <4>1 DEF WaitBacked
    <3> QED
      BY <1>9, <3>2, <3>3, <3>4
      DEF SwapNext, CreateSwap, TransitionCall, AutoTransitionRefund, FindRefundableSwaps,
          RecoverFailedClaims, Tick
  <2>4. ~Waiting(s)' => WaitBacked(s)'
    BY DEF WaitBacked
  <2> QED
    BY <1>4, <2>1, <2>2, <2>3, <2>4
<1> QED
  BY <1>8, <1>9
  DEF SwapNext, CreateSwap, TransitionCall, AutoTransitionRefund, FindRefundableSwaps,
      RecoverFailedClaims, SkipSwap, CountAttempt, RefundExpired, NoteUnclaimable,
      RoundRaises, StartClaim, VerifyClaim, ClaimSwap, SettleClaim, Tick

LEMMA WaitsInvariance == SwapSpec => []WaitsBacked
<1>1. SwapInit => WaitsBacked
  BY DEF SwapInit, WaitsBacked, WaitBacked, Waiting, Failed, Known
<1>2. SwapInv /\ SwapInv' /\ WaitsBacked /\ [SwapNext]_swapVars => WaitsBacked'
  <2> SUFFICES ASSUME SwapCore, RestOK, TriedIsKnown, SwapCore', RestOK', WaitsBacked,
                      [SwapNext]_swapVars, NEW s \in Swap
               PROVE  WaitBacked(s)' /\ (NotFailedYet(s)' => waited'[s] = 0)
    BY InvSplits DEF SwapInv, SwapTypeOK, SwapCore, WriteOK, RestOK, FilesAreKnown, Settled,
                     WaitsBacked
  <2>1. CASE SwapNext /\ ~RestartProcess
    BY <2>1, WaitsKept
  <2>2. CASE RestartProcess
    <3>1. waited'[s] = 0 /\ todo' = <<>> /\ at' = "idle"
      BY <2>2 DEF RestartProcess
    <3>2. Cardinality(Spent') \in Nat
      <4>1. Spent' \in SUBSET (Swap \X (1 .. MaxAttempts))
        BY DEF Spent
      <4> QED
        BY <4>1, SpentIsFinite, FS_Subset, FS_CardinalityType
    <3>3. Late(s)' \in {0, 1}
      BY DEF Late
    <3> QED
      BY <3>1, <3>2, <3>3 DEF WaitBacked
  <2>3. CASE UNCHANGED swapVars
    BY <2>3 DEF swapVars, WaitsBacked, WaitBacked, Waiting, Failed, Known, NotFailedYet, Spent,
                Raising, Late, TooLateToClaim, InRound, HeadRaises, Claiming
  <2> QED
    BY <2>1, <2>2, <2>3
<1> QED
  BY <1>1, <1>2, SwapInvariance, PTL DEF SwapSpec

\* A swap that failed and can be claimed waits at most two rounds of its own and
\* MaxAttempts for every swap whose data makes a round raise, whichever order the
\* rounds take (recover_failed_claims counts before it tries, also what raises).
THEOREM WaitingIsBounded == SwapSpec => []BrokenSwapsDelayABoundedTime
<1>1. SwapInv /\ WaitsBacked => BrokenSwapsDelayABoundedTime
  <2> SUFFICES ASSUME SwapInv, WaitsBacked, NEW s \in Swap, Waiting(s)
               PROVE  waited[s] <= 2 + MaxAttempts
                        * Cardinality({r \in Known : swaps[r].contract.claim = "raises"})
    BY DEF BrokenSwapsDelayABoundedTime
  <2> DEFINE raisers == {r \in Known : swaps[r].contract.claim = "raises"}
  <2>1. IsFiniteSet(raisers) /\ Cardinality(raisers) \in Nat
    <3>1. raisers \in SUBSET Swap
      BY DEF Known
    <3> QED
      BY <3>1, SwapAssumption, FS_Subset, FS_CardinalityType
  <2>2. IsFiniteSet(1 .. MaxAttempts) /\ Cardinality(1 .. MaxAttempts) = MaxAttempts
    BY SwapAssumption, FS_Interval
  <2>3. Spent \in SUBSET (raisers \X (1 .. MaxAttempts))
    BY DEF Spent, Raising
  <2> HIDE DEF raisers
  <2>4. /\ IsFiniteSet(raisers \X (1 .. MaxAttempts))
        /\ Cardinality(raisers \X (1 .. MaxAttempts)) = Cardinality(raisers) * MaxAttempts
    BY <2>1, <2>2, FS_Product
  <2>5. Cardinality(Spent) <= Cardinality(raisers) * MaxAttempts
    BY <2>3, <2>4, FS_Subset
  <2>6. waited[s] <= Cardinality(Spent) + Late(s) + 1 /\ Late(s) \in {0, 1}
    BY DEF WaitsBacked, WaitBacked, Late
  <2>7. waited[s] \in Nat /\ Cardinality(Spent) \in Nat
    BY SpentIsFinite DEF SwapInv, SwapTypeOK
  <2>8. Cardinality(raisers) * MaxAttempts = MaxAttempts * Cardinality(raisers)
        /\ MaxAttempts * Cardinality(raisers) \in Nat
    BY <2>1, SwapAssumption
  <2>9. waited[s] <= 2 + MaxAttempts * Cardinality(raisers)
    BY <2>5, <2>6, <2>7, <2>8
  <2> QED
    BY <2>9 DEF raisers
<1> QED
  BY <1>1, SwapInvariance, WaitsInvariance, PTL

=============================================================================
