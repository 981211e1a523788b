----------------------------- MODULE MCServices -----------------------------
(***************************************************************************)
(* Atomic swaps and the staking pool, two services beside the chain that   *)
(* share no state: a behaviour is one of the first or one of the second,   *)
(* chosen at its start.  The callers of the staking pool either use no     *)
(* negative numbers or, in less of everything, also those the pool takes.  *)
(***************************************************************************)
EXTENDS AtomicSwaps, Staking, TLC

VARIABLE service

\* Every kind of claim data, and a timelock that comes first.
MCContract == {[timelock |-> 1, claim |-> "claimable"],
               [timelock |-> 2, claim |-> "raises"],
               [timelock |-> 2, claim |-> "unclaimable"]}

MCAmount == {-1, 1, 2}
MCCommission == {-1, 1}

\* Bounds on what callers do that may pass negative numbers: one delegator, debts
\* of one token, and one slash or one distribution.
Small ==
  /\ \A d \in Delegator, v \in Validator :
       delegations[d][v].shares \in -3 .. 3 /\ delegations[d][v].unbonding \in -1 .. 1
  /\ Cardinality({d \in Delegator : \E v \in Validator : delegations[d][v] # NoDelegation}) <= 1
  /\ \A v \in Validator : validators[v].status # "jailed"
  /\ rounds + SumFunction([v \in Validator |-> validators[v].slashes]) <= 1
  /\ deposited <= 4

ServiceInit == SwapInit /\ StakingInit /\ service \in {"swaps", "staking", "signed"}

ServiceNext ==
  /\ \/ service = "swaps" /\ SwapNext /\ UNCHANGED stakingVars
     \/ service = "staking" /\ StakingStep({1, 2}, {1}) /\ UNCHANGED swapVars
     \/ service = "signed" /\ StakingStep(MCAmount, {-1}) /\ Small' /\ UNCHANGED swapVars
  /\ UNCHANGED service

ServiceSpec == ServiceInit /\ [][ServiceNext]_<<service, swapVars, stakingVars>>

\* Swaps are alike, and so are validators and delegators.
ServiceSymmetry ==
  Permutations(Swap) \cup Permutations(Validator) \cup Permutations(Delegator)

=============================================================================
