---------------------------- MODULE AtomicSwaps ----------------------------
(***************************************************************************)
(* The life of an atomic swap in SwapStateMachine                          *)
(* (core/aixn_blockchain/atomic_swap_11_coins.py), the JSON file each swap *)
(* is kept in, and the two services that move swaps by themselves:         *)
(* SwapRecoveryService, which refunds what its planner found due, and      *)
(* SwapClaimRecoveryService, which retries failed claims.                  *)
(*                                                                         *)
(* Every method of the state machine holds its lock from the first check   *)
(* to the end of the write, so a call is one step.  The services do not    *)
(* hold it between their calls: each of their calls is a step of its own.  *)
(* A swap lives in memory and in its file; a write may be refused (the     *)
(* file keeps its old content) or torn (the file was truncated and not     *)
(* completed) and neither is reported to the caller.                       *)
(***************************************************************************)
EXTENDS Integers, FiniteSets, Sequences, SequencesExt

CONSTANTS
  Swap,          \* identifiers of swaps; the caller uses each one once
  Contract,      \* contracts: [timelock : Nat, claim : ClaimKind]
  MaxAttempts,   \* max_attempts of the claim recovery
  MaxTime,       \* bound: the last value of the clock
  MaxRestarts,   \* bound: how often the process is restarted
  SwapFault,     \* what can happen to a write: a subset of {"refused", "torn"}
  MaxFaults      \* bound: how many writes go wrong that way

\* What the recovery of a claim meets in the contract: everything it needs;
\* a missing secret, a wrong one or a coin it does not know; a secret that is
\* not hexadecimal, which raises an exception before the clock is looked at.
ClaimKind == {"claimable", "unclaimable", "raises"}

ASSUME SwapAssumption ==
  /\ IsFiniteSet(Swap)
  /\ Contract \subseteq [timelock : Nat, claim : ClaimKind]
  /\ MaxAttempts \in Nat /\ MaxTime \in Nat /\ MaxRestarts \in Nat
  /\ MaxFaults \in Nat /\ SwapFault \subseteq {"refused", "torn"}

SwapState == {"initiated", "funded", "counterparty_funded",
              "claimed", "refunded", "expired", "failed"}

\* Whose call the last entry of the history is: any other code that uses the
\* state machine, the refund planner's service or the claim recovery.
Caller == {"api", "planner", "recovery"}

NoSwap == [state |-> "none"]
Torn == [state |-> "torn"]

SwapRecord == [state : SwapState, contract : Contract,
               tries : 0 .. MaxAttempts, by : Caller]

VARIABLES
  swaps,        \* self.swaps: what the process knows of each swap
  swapFile,     \* the file of each swap
  clock,        \* time.time()
  plan,         \* refunds that were found due and are not executed yet
  todo,         \* the swaps the running round of claim recovery has not reached
  at,           \* the step of the round at Head(todo), or "idle"
  restarts,     \* how often the process was restarted
  faults,       \* how many writes were refused or torn from outside
  acked,        \* history: the settlements reported as done, for each swap
  refusedWrite, \* history: swaps whose file missed a write
  attempted,    \* history: how often the recovery tried each swap
  waited        \* history: rounds begun in this process since a swap failed that
                \* can be claimed and has attempts left

swapMachine == <<swaps, swapFile, faults, acked, refusedWrite>>
swapVars == <<swaps, swapFile, clock, plan, todo, at, restarts, faults,
              acked, refusedWrite, attempted, waited>>

Known == {s \in Swap : swaps[s] # NoSwap}

STATE_TRANSITIONS ==
  [state \in SwapState |->
     CASE state = "initiated" -> {"funded", "failed", "expired"}
       [] state = "funded" -> {"counterparty_funded", "refunded", "expired", "failed"}
       [] state = "counterparty_funded" -> {"claimed", "refunded", "expired"}
       [] state = "failed" -> {"claimed", "refunded"}
       [] OTHER -> {}]

TIMELOCK_EXPIRED(s) == clock >= swaps[s].contract.timelock   \* _timelock_expired, plan_refunds
TooLateToClaim(s) == clock > swaps[s].contract.timelock      \* verify_swap_claim

---------------------------------------------------------------------------
\* SwapStateMachine

\* The refunds of the planner are recorded with the plan they come from, which
\* holds the state as an enumeration: json.dump raises TypeError in the middle
\* of the file.
Serializable(swap) == swap.by # "planner"

\* _persist_swap: open(path, "w"), then json.dump; every exception is logged
\* and none is passed on.
Persist(s, swap) ==
  \/ /\ swapFile' = [swapFile EXCEPT ![s] = IF Serializable(swap) THEN swap ELSE Torn]
     /\ UNCHANGED <<faults, refusedWrite>>
  \/ /\ faults < MaxFaults /\ faults' = faults + 1
     /\ \/ /\ "torn" \in SwapFault
           /\ swapFile' = [swapFile EXCEPT ![s] = Torn]
           /\ UNCHANGED refusedWrite
        \/ /\ "refused" \in SwapFault
           /\ refusedWrite' = refusedWrite \cup {s}
           /\ UNCHANGED swapFile

SetSwap(s, swap) ==
  /\ swaps' = [swaps EXCEPT ![s] = swap]
  /\ Persist(s, swap)

\* create_swap
CreateSwap(s, contract) ==
  /\ swaps[s] = NoSwap /\ swapFile[s] = NoSwap
  /\ SetSwap(s, [state |-> "initiated", contract |-> contract,
                 tries |-> 0, by |-> "api"])
  /\ acked' = [acked EXCEPT ![s] = {}]
  /\ attempted' = [attempted EXCEPT ![s] = 0]
  /\ UNCHANGED <<clock, plan, todo, at, restarts, waited>>

\* seeded bug: what the planner found due is not looked up again.
AllowedWhenDue(s, state) ==
  s \in Known /\ (state \in STATE_TRANSITIONS[swaps[s].state] \/ s \in plan)

Allowed(s, state) == s \in Known /\ state \in STATE_TRANSITIONS[swaps[s].state]

\* seeded bug: the settlement is not written before it is reported.
TransitionUnwritten(s, state, by) ==
  \/ /\ Allowed(s, state)
     /\ swaps' = [swaps EXCEPT ![s] = [@ EXCEPT !.state = state, !.by = by]]
     /\ acked' = [acked EXCEPT ![s] = @ \cup ({state} \cap {"claimed", "refunded"})]
     /\ UNCHANGED <<swapFile, faults, refusedWrite>>
  \/ /\ ~Allowed(s, state)
     /\ UNCHANGED swapMachine

\* transition, called for a swap and a state: done, or refused by the table
Transition(s, state, by) ==
  \/ /\ Allowed(s, state)
     /\ SetSwap(s, [swaps[s] EXCEPT !.state = state, !.by = by])
     /\ acked' = [acked EXCEPT ![s] = @ \cup ({state} \cap {"claimed", "refunded"})]
  \/ /\ ~Allowed(s, state)
     /\ UNCHANGED swapMachine

TransitionCall(s, state) ==
  /\ Allowed(s, state)
  /\ Transition(s, state, "api")
  /\ UNCHANGED <<clock, plan, todo, at, restarts, attempted, waited>>

---------------------------------------------------------------------------
\* SwapRecoveryService

\* plan_refunds: due by the clock and confirmed by the other chain (an answer
\* from outside: any of the due swaps may be confirmed)
Due(s) == /\ s \in Known
          /\ swaps[s].state \in {"funded", "counterparty_funded"}
          /\ TIMELOCK_EXPIRED(s)

\* find_refundable_swaps: the plan is made from a copy of the states
FindRefundableSwaps ==
  /\ plan = {}
  /\ \E due \in SUBSET {s \in Swap : Due(s)} : due # {} /\ plan' = due
  /\ UNCHANGED <<swapMachine, clock, todo, at, restarts, attempted, waited>>

\* auto_transition_refunds: one call of transition for each planned refund
AutoTransitionRefund(s) ==
  /\ s \in plan
  /\ Transition(s, "refunded", "planner")
  /\ plan' = plan \ {s}
  /\ UNCHANGED <<clock, todo, at, restarts, attempted, waited>>

---------------------------------------------------------------------------
\* SwapClaimRecoveryService.recover_failed_claims, one swap after the other

Failed(s) == s \in Known /\ swaps[s].state = "failed"

Waiting(s) == /\ Failed(s)
              /\ swaps[s].contract.claim = "claimable"
              /\ swaps[s].tries < MaxAttempts

BeginRound ==
  /\ at = "idle"
  /\ \E order \in SetToSeqs(Known) : todo' = order
  /\ todo' # <<>>
  /\ at' = "next"
  /\ waited' = [s \in Swap |-> IF Waiting(s) THEN waited[s] + 1 ELSE 0]
  /\ UNCHANGED <<swapMachine, clock, plan, restarts, attempted>>

\* seeded bug: the round does not end with its last swap.
NextOnly == todo' = Tail(todo) /\ at' = "next"

\* on to the next swap of the round
NextSwap == /\ todo' = Tail(todo)
            /\ at' = IF Tail(todo) = <<>> THEN "idle" ELSE "next"

SkipSwap ==
  /\ at = "next"
  /\ ~Failed(Head(todo)) \/ swaps[Head(todo)].tries >= MaxAttempts
  /\ NextSwap
  /\ UNCHANGED <<swapMachine, clock, plan, restarts, attempted, waited>>

\* seeded bug: the attempt is counted in memory only.
CountInMemory ==
  LET s == Head(todo) IN
  /\ at = "next"
  /\ Failed(s) /\ swaps[s].tries < MaxAttempts
  /\ swaps' = [swaps EXCEPT ![s].tries = @ + 1]
  /\ at' = "check"
  /\ UNCHANGED <<swapFile, faults, refusedWrite, clock, plan, todo, restarts,
                 acked, attempted, waited>>

\* seeded bug: the attempt would be counted once it has an outcome.
CountLater ==
  /\ at = "next"
  /\ Failed(Head(todo)) /\ swaps[Head(todo)].tries < MaxAttempts
  /\ at' = "check"
  /\ UNCHANGED <<swapMachine, clock, plan, todo, restarts, attempted, waited>>

\* the attempt is counted, and written, before anything is tried
CountAttempt ==
  LET s == Head(todo) IN
  /\ at = "next"
  /\ Failed(s) /\ swaps[s].tries < MaxAttempts
  /\ SetSwap(s, [swaps[s] EXCEPT !.tries = @ + 1])
  /\ at' = "check"
  /\ UNCHANGED <<clock, plan, todo, restarts, acked, attempted, waited>>

Try(s) == attempted' = [attempted EXCEPT ![s] = @ + 1]

\* the timelock has passed: refund instead of claiming
RefundExpired ==
  /\ at = "check" /\ TIMELOCK_EXPIRED(Head(todo))
  /\ Transition(Head(todo), "refunded", "recovery")
  /\ NextSwap
  /\ Try(Head(todo))
  /\ UNCHANGED <<clock, plan, restarts, waited>>

\* a missing or wrong secret or an unknown coin is noted in the swap's data
NoteUnclaimable ==
  LET s == Head(todo) IN
  /\ at = "check" /\ ~TIMELOCK_EXPIRED(s)
  /\ swaps[s].contract.claim = "unclaimable"
  /\ SetSwap(s, swaps[s])
  /\ NextSwap
  /\ Try(s)
  /\ UNCHANGED <<clock, plan, restarts, acked, waited>>

\* an exception ends the round: the swaps behind this one are not reached
RoundRaises ==
  /\ at = "check" /\ ~TIMELOCK_EXPIRED(Head(todo))
  /\ swaps[Head(todo)].contract.claim = "raises"
  /\ todo' = <<>> /\ at' = "idle"
  /\ Try(Head(todo))
  /\ UNCHANGED <<swapMachine, clock, plan, restarts, waited>>

StartClaim ==
  LET s == Head(todo) IN
  /\ at = "check" /\ ~TIMELOCK_EXPIRED(s)
  /\ swaps[s].contract.claim = "claimable"
  /\ at' = "verify"
  /\ Try(s)
  /\ UNCHANGED <<swapMachine, clock, plan, todo, restarts, waited>>

\* verify_swap_claim, which reads the clock again
VerifyClaim ==
  /\ at = "verify"
  /\ \/ /\ ~TooLateToClaim(Head(todo))
        /\ at' = "claim"
        /\ UNCHANGED <<swapMachine, todo>>
     \/ /\ TooLateToClaim(Head(todo))
        /\ Transition(Head(todo), "refunded", "recovery")
        /\ NextSwap
  /\ UNCHANGED <<clock, plan, restarts, attempted, waited>>

\* claim_swap, which verifies, and so reads the clock, once more
ClaimSwap ==
  LET s == Head(todo) IN
  /\ at = "claim"
  /\ \/ /\ ~TooLateToClaim(s)
        /\ at' = "settle"
        /\ UNCHANGED <<swapMachine, todo>>
     \/ /\ TooLateToClaim(s)
        /\ SetSwap(s, swaps[s])   \* only the error is noted
        /\ NextSwap
        /\ UNCHANGED acked
  /\ UNCHANGED <<clock, plan, restarts, attempted, waited>>

SettleClaim ==
  /\ at = "settle"
  /\ Transition(Head(todo), "claimed", "recovery")
  /\ NextSwap
  /\ UNCHANGED <<clock, plan, restarts, attempted, waited>>

---------------------------------------------------------------------------
Tick == /\ clock < MaxTime
        /\ clock' = clock + 1
        /\ UNCHANGED <<swapMachine, plan, todo, at, restarts, attempted, waited>>

\* _load_swaps: the files are read in the order of os.listdir, which is any
\* order, and the first one that does not parse ends the loop
LoadOutcomes ==
  LET intact == {s \in Swap : swapFile[s] \notin {NoSwap, Torn}}
  IN  IF \E s \in Swap : swapFile[s] = Torn THEN SUBSET intact ELSE {intact}

RestartProcess ==
  /\ restarts < MaxRestarts
  /\ restarts' = restarts + 1
  /\ \E loaded \in LoadOutcomes :
       swaps' = [s \in Swap |-> IF s \in loaded THEN swapFile[s] ELSE NoSwap]
  /\ plan' = {} /\ todo' = <<>> /\ at' = "idle"
  /\ waited' = [s \in Swap |-> 0]
  /\ UNCHANGED <<swapFile, clock, faults, acked, refusedWrite, attempted>>

SwapInit ==
  /\ swaps = [s \in Swap |-> NoSwap] /\ swapFile = [s \in Swap |-> NoSwap]
  /\ clock = 0 /\ restarts = 0 /\ faults = 0
  /\ plan = {} /\ todo = <<>> /\ at = "idle"
  /\ acked = [s \in Swap |-> {}] /\ refusedWrite = {}
  /\ attempted = [s \in Swap |-> 0] /\ waited = [s \in Swap |-> 0]

RecoverFailedClaims ==
  \/ BeginRound \/ SkipSwap \/ CountAttempt \/ RefundExpired \/ NoteUnclaimable
  \/ RoundRaises \/ StartClaim \/ VerifyClaim \/ ClaimSwap \/ SettleClaim

SwapNext ==
  \/ \E s \in Swap : \/ \E contract \in Contract : CreateSwap(s, contract)
                     \/ \E state \in SwapState : TransitionCall(s, state)
                     \/ AutoTransitionRefund(s)
  \/ FindRefundableSwaps
  \/ RecoverFailedClaims
  \/ Tick
  \/ RestartProcess

SwapSpec == SwapInit /\ [][SwapNext]_swapVars

---------------------------------------------------------------------------
\* Types of all variables.
SwapTypeOK ==
  /\ swaps \in [Swap -> SwapRecord \cup {NoSwap}]
  /\ swapFile \in [Swap -> SwapRecord \cup {NoSwap, Torn}]
  /\ clock \in 0 .. MaxTime /\ restarts \in 0 .. MaxRestarts
  /\ faults \in 0 .. MaxFaults
  /\ plan \subseteq Swap /\ todo \in Seq(Swap)
  /\ at \in {"idle", "next", "check", "verify", "claim", "settle"}
  /\ at = "idle" <=> todo = <<>>
  /\ acked \in [Swap -> SUBSET {"claimed", "refunded"}]
  /\ refusedWrite \subseteq Swap
  /\ attempted \in [Swap -> Nat] /\ waited \in [Swap -> Nat]

\* No swap is reported claimed and reported refunded, whatever the planner
\* found due before the claim went through, however a claim on the timelock's
\* edge and a refund interleave, and across restarts that load what torn
\* writes left (transition, _persist_swap, _load_swaps); a file that missed a
\* whole write is the one exception.
NeverSettledTwice ==
  \A s \in Swap : acked[s] = {"claimed", "refunded"} => s \in refusedWrite

\* The recovery tries a swap at most MaxAttempts times, restarts between counting and
\* trying included (recover_failed_claims counts and writes first), unless the
\* file missed the count.
TriesBounded ==
  \A s \in Swap : attempted[s] <= MaxAttempts \/ s \in refusedWrite

\* A failed swap that can be claimed waits for a bounded number of rounds: the
\* swaps whose data makes a round raise use up their attempts by it, so each of
\* them costs those behind it MaxAttempts rounds, then one round claims or
\* finds the timelock passing, and one more refunds.
BrokenSwapsDelayABoundedTime ==
  \A s \in Swap :
    Waiting(s) => waited[s] <= 2 + MaxAttempts
                        * Cardinality({r \in Known : swaps[r].contract.claim = "raises"})

\* A settlement that was reported is still known after a restart, whatever
\* else was interrupted or written in between (_persist_swap, _load_swaps), as
\* long as every file parses and none missed a write: one file that does not
\* hides swaps that have nothing to do with it.
SettlementsSurviveRestart ==
  (\A r \in Swap : swapFile[r] # Torn) =>
    \A s \in Swap \ refusedWrite :
      acked[s] # {} => s \in Known /\ swaps[s].state \in acked[s]

=============================================================================
