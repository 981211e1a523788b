------------------------------ MODULE Staking ------------------------------
(***************************************************************************)
(* The staking pool (core/defi/staking.py): validators register with a     *)
(* stake of their own, delegators add to it, move it and take it back      *)
(* after an unbonding period, the owner distributes rewards, slashes and   *)
(* jails.  A call runs to its end before the next; every amount is an      *)
(* integer and every division rounds down, and the properties are about    *)
(* what the roundings of many calls add up to.                             *)
(*                                                                         *)
(* The methods with the suffix _secure do the same after another check of  *)
(* the caller, so they are the same steps here.  A call that raises        *)
(* changes nothing, except Compound, which claims before it raises.        *)
(***************************************************************************)
EXTENDS Integers, FiniteSets, Functions

CONSTANTS
  Validator, Delegator,   \* addresses
  MaxValidators,          \* max_validators
  MinSelfStake,           \* min_self_stake
  MinDelegation,          \* min_delegation
  BASIS_POINTS,           \* what commissions and slashes are fractions of
  UnbondingPeriod,        \* unbonding_period
  Amount,                 \* the amounts that are staked, delegated and undelegated
  Commission, Fraction,   \* the rates and slash fractions that callers use
  JailTime,               \* the durations that callers use
  Reward,                 \* the amounts that are distributed
  MaxDeposit,             \* bound: tokens staked or delegated in all
  MaxDebt,                \* bound: how far below zero calls with a negative amount
                          \* take a delegation or an unbonding entry, and
  MaxShares,              \* bound: how many shares, of either sign, they leave
  MaxDistributions,       \* bound: how often rewards are distributed
  MaxSlashes,             \* bound: slashes of each validator
  MaxNow                  \* bound: the last value of the clock

\* Anyone may pass any integer as an amount, and as a commission any integer of
\* at most one.  Rewards, slash fractions and durations are the owner's to pass:
\* nothing checks that they are not negative or that a fraction is at most one,
\* and these are the values it passes.
ASSUME StakingAssumption ==
  /\ IsFiniteSet(Validator) /\ IsFiniteSet(Delegator)
  /\ MaxValidators \in Nat /\ MinSelfStake \in Nat /\ MinDelegation \in Nat
  /\ BASIS_POINTS \in Nat \ {0} /\ UnbondingPeriod \in Nat
  /\ Amount \subseteq Int /\ Commission \subseteq {c \in Int : c <= BASIS_POINTS}
  /\ Fraction \subseteq 0 .. BASIS_POINTS /\ JailTime \subseteq Nat /\ Reward \subseteq Nat
  /\ MaxDeposit \in Nat /\ MaxDebt \in Nat /\ MaxShares \in Nat
  /\ MaxDistributions \in Nat /\ MaxSlashes \in Nat /\ MaxNow \in Nat

VARIABLES
  validators,    \* validators: status "none" for an address that is not registered
  delegations,   \* delegations, all zero where there is none
  totalStaked,   \* total_staked
  totalShares,   \* total_shares
  totalRewards,  \* total_rewards_distributed
  now,           \* time.time()
  rounds,        \* distributions so far
  deposited,     \* history: tokens that came in as stake or delegation
  withdrawn,     \* history: tokens that were handed back
  slashed,       \* history: tokens that were slashed
  claimed,       \* history: rewards that were claimed
  overcommitted  \* history: rewards were distributed while the delegations to a
                 \* validator were worth more than its delegated stake, or
                 \* while the stake of a validator was negative

pool == <<totalStaked, totalShares, totalRewards>>
stakingVars == <<validators, delegations, pool, now, rounds,
                 deposited, withdrawn, slashed, claimed, overcommitted>>

Unregistered == [status |-> "none", self |-> 0, delegated |-> 0, until |-> 0,
                 commission |-> 0, rewards |-> 0, slashes |-> 0]
NoDelegation == [amount |-> 0, shares |-> 0, unbonding |-> 0, completion |-> 0,
                 rewards |-> 0]

Registered == {v \in Validator : validators[v].status # "none"}
TotalStake(v) == validators[v].self + validators[v].delegated
IsActive(v) == validators[v].status = "active"

\* a // b of Python, which rounds down for every sign of b
FloorDiv(a, b) == IF b > 0 THEN a \div b ELSE (-a) \div (-b)

\* _get_validator_total_shares
TotalShares(v) == SumFunction([d \in Delegator |-> delegations[d][v].shares])
Delegated(v) == SumFunction([d \in Delegator |-> delegations[d][v].amount])

\* How much more the delegations to v are worth than v's delegated stake.
Excess(v) == Delegated(v) - validators[v].delegated

---------------------------------------------------------------------------
RegisterValidator(v, commission, stake) ==
  /\ validators[v].status = "none"
  /\ Cardinality(Registered) < MaxValidators
  /\ stake >= MinSelfStake /\ deposited + stake <= MaxDeposit
  /\ validators' = [validators EXCEPT ![v] =
       [Unregistered EXCEPT !.status = "active", !.self = stake, !.commission = commission]]
  /\ totalStaked' = totalStaked + stake
  /\ deposited' = deposited + stake
  /\ UNCHANGED <<delegations, totalShares, totalRewards, now, rounds, withdrawn,
                 slashed, claimed, overcommitted>>

UpdateCommission(v, commission) ==
  /\ v \in Registered
  /\ validators' = [validators EXCEPT ![v].commission = commission]
  /\ UNCHANGED <<delegations, pool, now, rounds, deposited, withdrawn, slashed,
                 claimed, overcommitted>>

\* the shares that a delegation of `amount' gets
SharesFor(v, amount) ==
  IF validators[v].delegated = 0 \/ TotalShares(v) <= 0 THEN amount
  ELSE FloorDiv(amount * TotalShares(v), validators[v].delegated)

CanDelegate(v, amount) == v \in Registered /\ IsActive(v) /\ amount >= MinDelegation

\* seeded bug: the shares are counted in tokens
AddTokens(d, v, amount, rewards) ==
  /\ delegations' = [delegations EXCEPT
       ![d][v] = [delegations[d][v] EXCEPT !.amount = @ + amount,
                                           !.shares = @ + SharesFor(v, amount),
                                           !.rewards = rewards]]
  /\ validators' = [validators EXCEPT ![v].delegated = @ + amount]
  /\ totalStaked' = totalStaked + amount
  /\ totalShares' = totalShares + amount

AddDelegation(d, v, amount, rewards) ==
  /\ delegations' = [delegations EXCEPT
       ![d][v] = [delegations[d][v] EXCEPT !.amount = @ + amount,
                                           !.shares = @ + SharesFor(v, amount),
                                           !.rewards = rewards]]
  /\ validators' = [validators EXCEPT ![v].delegated = @ + amount]
  /\ totalStaked' = totalStaked + amount
  /\ totalShares' = totalShares + SharesFor(v, amount)

Delegate(d, v, amount) ==
  /\ CanDelegate(v, amount) /\ deposited + amount <= MaxDeposit
  /\ AddDelegation(d, v, amount, delegations[d][v].rewards)
  /\ deposited' = deposited + amount
  /\ UNCHANGED <<totalRewards, now, rounds, withdrawn, slashed, claimed, overcommitted>>

\* the shares that leave with `amount' of a delegation
SharesOf(d, v, amount) ==
  FloorDiv(amount * delegations[d][v].shares, delegations[d][v].amount)

\* The delegation has to cover the amount, which may be negative; what is
\* divided by must not be zero.
Undelegate(d, v, amount) ==
  /\ delegations[d][v].amount # 0 /\ amount <= delegations[d][v].amount
  /\ delegations[d][v].unbonding + amount >= -MaxDebt
  /\ delegations[d][v].shares - SharesOf(d, v, amount) \in -MaxShares .. MaxShares
  /\ delegations' = [delegations EXCEPT
       ![d][v] = [delegations[d][v] EXCEPT !.amount = @ - amount,
                                           !.shares = @ - SharesOf(d, v, amount),
                                           !.unbonding = @ + amount,
                                           !.completion = now + UnbondingPeriod]]
  /\ validators' = [validators EXCEPT ![v].delegated = @ - amount]
  /\ totalStaked' = totalStaked - amount
  /\ totalShares' = totalShares - SharesOf(d, v, amount)
  /\ UNCHANGED <<totalRewards, now, rounds, deposited, withdrawn, slashed, claimed,
                 overcommitted>>

WithdrawUnbonded(d, v) ==
  /\ delegations[d][v].unbonding # 0 /\ now >= delegations[d][v].completion
  /\ delegations' = [delegations EXCEPT
       ![d][v] = [delegations[d][v] EXCEPT !.unbonding = 0, !.completion = 0]]
  /\ withdrawn' = withdrawn + delegations[d][v].unbonding
  /\ UNCHANGED <<validators, pool, now, rounds, deposited, slashed, claimed, overcommitted>>

\* The shares move as they are, whatever a share of the destination is worth.
Redelegate(d, src, dst, amount) ==
  /\ src # dst /\ IsActive(dst)
  /\ delegations[d][src].amount # 0 /\ amount <= delegations[d][src].amount
  /\ delegations[d][dst].amount + amount >= -MaxDebt
  /\ delegations[d][src].shares - SharesOf(d, src, amount) \in -MaxShares .. MaxShares
  /\ delegations[d][dst].shares + SharesOf(d, src, amount) \in -MaxShares .. MaxShares
  /\ delegations' = [delegations EXCEPT
       ![d][src] = [delegations[d][src] EXCEPT !.amount = @ - amount,
                                              !.shares = @ - SharesOf(d, src, amount)],
       ![d][dst] = [delegations[d][dst] EXCEPT !.amount = @ + amount,
                                              !.shares = @ + SharesOf(d, src, amount)]]
  /\ validators' = [validators EXCEPT ![src].delegated = @ - amount,
                                      ![dst].delegated = @ + amount]
  /\ UNCHANGED <<pool, now, rounds, deposited, withdrawn, slashed, claimed, overcommitted>>

---------------------------------------------------------------------------
\* distribute_rewards: by stake to the validators, which keep their commission,
\* and the rest by amount to the delegators; the dust is the validator's.

ShareOf(v, amount) ==
  IF v \in Registered /\ TotalStake(v) # 0
  THEN FloorDiv(amount * TotalStake(v), totalStaked) ELSE 0

CommissionOf(v, amount) ==
  FloorDiv(ShareOf(v, amount) * validators[v].commission, BASIS_POINTS)

\* seeded bug: the commission is not taken off what the delegators get
WholeShare(v, amount) == ShareOf(v, amount)

DelegatorsGet(v, amount) == ShareOf(v, amount) - CommissionOf(v, amount)

\* _distribute_delegator_rewards
RewardOf(d, v, amount) ==
  IF DelegatorsGet(v, amount) > 0 /\ validators[v].delegated > 0
  THEN FloorDiv(DelegatorsGet(v, amount) * delegations[d][v].amount,
                validators[v].delegated)
  ELSE 0

Dust(v, amount) ==
  LET credited == SumFunction([d \in Delegator |-> RewardOf(d, v, amount)])
  IN  IF DelegatorsGet(v, amount) > credited /\ validators[v].delegated > 0
      THEN DelegatorsGet(v, amount) - credited ELSE 0

DistributeRewards(amount) ==
  /\ rounds < MaxDistributions /\ totalStaked # 0
  /\ rounds' = rounds + 1
  /\ validators' = [v \in Validator |-> [validators[v] EXCEPT
                      !.rewards = @ + CommissionOf(v, amount) + Dust(v, amount)]]
  /\ delegations' = [d \in Delegator |-> [v \in Validator |->
       [delegations[d][v] EXCEPT !.rewards = @ + RewardOf(d, v, amount)]]]
  /\ totalRewards' = totalRewards + amount
  /\ overcommitted' =
       (overcommitted \/ \E v \in Registered : Excess(v) # 0 \/ TotalStake(v) < 0)
  /\ UNCHANGED <<totalStaked, totalShares, now, deposited, withdrawn, slashed, claimed>>

Claim(d, vs) ==
  /\ \E v \in vs : delegations[d][v].rewards # 0
  /\ delegations' = [delegations EXCEPT ![d] =
       [v \in Validator |-> IF v \in vs THEN [@[v] EXCEPT !.rewards = 0] ELSE @[v]]]
  /\ claimed' = claimed + SumFunction([v \in vs |-> delegations[d][v].rewards])

ClaimRewards(d, v) ==
  /\ Claim(d, {v})
  /\ UNCHANGED <<validators, pool, now, rounds, deposited, withdrawn, slashed, overcommitted>>

ClaimAllRewards(d) ==
  /\ Claim(d, Validator)
  /\ UNCHANGED <<validators, pool, now, rounds, deposited, withdrawn, slashed, overcommitted>>

ClaimValidatorRewards(v) ==
  /\ validators[v].rewards # 0
  /\ validators' = [validators EXCEPT ![v].rewards = 0]
  /\ claimed' = claimed + validators[v].rewards
  /\ UNCHANGED <<delegations, pool, now, rounds, deposited, withdrawn, slashed, overcommitted>>

\* claim_rewards, then delegate with what was claimed: too little is gone, and
\* so is what a validator that is not active cannot take.
CompoundRewards(d, v) ==
  LET rewards == delegations[d][v].rewards IN
  /\ rewards # 0
  /\ claimed' = claimed + rewards
  /\ \/ /\ CanDelegate(v, rewards) /\ deposited + rewards <= MaxDeposit
        /\ AddDelegation(d, v, rewards, 0)
        /\ deposited' = deposited + rewards
     \/ /\ ~CanDelegate(v, rewards)
        /\ delegations' = [delegations EXCEPT ![d][v].rewards = 0]
        /\ UNCHANGED <<validators, totalStaked, totalShares, deposited>>
  /\ UNCHANGED <<totalRewards, now, rounds, withdrawn, slashed, overcommitted>>

---------------------------------------------------------------------------
\* slash_validator: the validator's own stake first, then the delegations in
\* proportion, each rounded down.

SlashAmount(v, fraction) == FloorDiv(TotalStake(v) * fraction, BASIS_POINTS)

\* what the delegations lose when the own stake does not suffice
Remaining(v, fraction) ==
  IF validators[v].self >= SlashAmount(v, fraction) \/ validators[v].delegated <= 0
  THEN 0 ELSE SlashAmount(v, fraction) - validators[v].self

\* seeded bug: the part of a delegation is taken of the whole slash
LostOfAll(d, v, fraction) ==
  IF Remaining(v, fraction) = 0 THEN 0
  ELSE FloorDiv(SlashAmount(v, fraction) * delegations[d][v].amount, validators[v].delegated)

Lost(d, v, fraction) ==
  IF Remaining(v, fraction) = 0 THEN 0
  ELSE FloorDiv(Remaining(v, fraction) * delegations[d][v].amount, validators[v].delegated)

\* seeded bug: the own stake is not kept from falling below zero
Overdrawn(v, fraction) == validators[v].self - SlashAmount(v, fraction)

\* what the slash leaves of the validator's own stake
OwnLeft(v, fraction) ==
  IF validators[v].self >= SlashAmount(v, fraction)
  THEN validators[v].self - SlashAmount(v, fraction) ELSE 0

SlashValidator(v, fraction) ==
  LET amount == SlashAmount(v, fraction) IN
  /\ v \in Registered /\ validators[v].slashes < MaxSlashes
  /\ validators' = [validators EXCEPT ![v] =
       [validators[v] EXCEPT !.self = OwnLeft(v, fraction),
                             !.delegated = @ - Remaining(v, fraction),
                             !.slashes = @ + 1]]
  /\ delegations' = [d \in Delegator |->
       [delegations[d] EXCEPT ![v].amount = @ - Lost(d, v, fraction)]]
  /\ totalStaked' = totalStaked - amount
  /\ slashed' = slashed + amount
  /\ UNCHANGED <<totalShares, totalRewards, now, rounds, deposited, withdrawn,
                 claimed, overcommitted>>

JailValidator(v, duration) ==
  /\ v \in Registered
  /\ validators' = [validators EXCEPT ![v] =
       [validators[v] EXCEPT !.status = "jailed", !.until = now + duration]]
  /\ UNCHANGED <<delegations, pool, now, rounds, deposited, withdrawn, slashed, claimed,
                 overcommitted>>

UnjailValidator(v) ==
  /\ validators[v].status = "jailed" /\ now >= validators[v].until
  /\ validators' = [validators EXCEPT ![v] =
       [validators[v] EXCEPT !.status = "active", !.until = 0]]
  /\ UNCHANGED <<delegations, pool, now, rounds, deposited, withdrawn, slashed, claimed,
                 overcommitted>>

---------------------------------------------------------------------------
TimePasses == /\ now < MaxNow
              /\ now' = now + 1
              /\ UNCHANGED <<validators, delegations, pool, rounds, deposited, withdrawn,
                             slashed, claimed, overcommitted>>

StakingInit ==
  /\ validators = [v \in Validator |-> Unregistered]
  /\ delegations = [d \in Delegator |-> [v \in Validator |-> NoDelegation]]
  /\ totalStaked = 0 /\ totalShares = 0 /\ totalRewards = 0
  /\ now = 0 /\ rounds = 0
  /\ deposited = 0 /\ withdrawn = 0 /\ slashed = 0 /\ claimed = 0
  /\ overcommitted = FALSE

\* A call with one of these amounts and rates, or time passes.
StakingStep(amounts, rates) ==
  \/ \E v \in Validator :
       \/ \E c \in rates : \/ UpdateCommission(v, c)
                           \/ \E stake \in amounts : RegisterValidator(v, c, stake)
       \/ \E f \in Fraction : SlashValidator(v, f)
       \/ \E t \in JailTime : JailValidator(v, t)
       \/ UnjailValidator(v) \/ ClaimValidatorRewards(v)
       \/ \E d \in Delegator :
            \/ \E a \in amounts : Delegate(d, v, a) \/ Undelegate(d, v, a)
                 \/ \E dst \in Validator : Redelegate(d, v, dst, a)
            \/ WithdrawUnbonded(d, v) \/ ClaimRewards(d, v) \/ CompoundRewards(d, v)
  \/ \E d \in Delegator : ClaimAllRewards(d)
  \/ \E amount \in Reward : DistributeRewards(amount)
  \/ TimePasses

StakingNext == StakingStep(Amount, Commission)

StakingSpec == StakingInit /\ [][StakingNext]_stakingVars

---------------------------------------------------------------------------
\* Types.  No call makes a validator's own stake negative, not even a slash that
\* a negative delegation has made negative; a delegation, what is unbonding and
\* what was handed back can be, after calls with negative amounts.
StakingTypeOK ==
  /\ validators \in [Validator -> [status : {"none", "active", "jailed"}, self : Nat,
                                   delegated : Int, until : Nat, commission : Commission \cup {0},
                                   rewards : Int, slashes : Nat]]
  /\ delegations \in [Delegator -> [Validator -> [amount : Int, shares : Int, unbonding : Int,
                                                  completion : Nat, rewards : Int]]]
  /\ totalStaked \in Int /\ totalShares \in Int /\ totalRewards \in Nat
  /\ now \in 0 .. MaxNow /\ rounds \in 0 .. MaxDistributions
  /\ deposited \in 0 .. MaxDeposit /\ withdrawn \in Int
  /\ slashed \in Int /\ claimed \in Int /\ overcommitted \in BOOLEAN

\* The totals of the pool are the sums of what they summarise, after every
\* sequence of delegations, redelegations and slashes (each method updates
\* them by itself), and no token appears or disappears between being staked,
\* unbonding, handed back and slashed.
TokensConserved ==
  /\ totalStaked = SumFunction([v \in Validator |-> TotalStake(v)])
  /\ totalShares = SumFunction([v \in Validator |-> TotalShares(v)])
  /\ deposited = withdrawn + slashed + totalStaked
       + SumFunction([d \in Delegator |->
           SumFunction([v \in Validator |-> delegations[d][v].unbonding])])

\* What the delegators of a validator can take back together is never less
\* than its delegated stake, and more only by what the roundings of slashes
\* left: less than one token for each delegator and slash (slash_validator).
SlashRoundingBounded ==
  \A v \in Validator :
    Excess(v) \in 0 .. validators[v].slashes * Cardinality(Delegator)

\* Rewards claimed and credited are covered by the rewards that were
\* distributed (distribute_rewards), as long as none were distributed while the
\* delegations of a validator were worth more than its delegated stake or its
\* stake was negative, whatever the signs of amounts and commissions.
RewardsBacked ==
  overcommitted \/
    claimed + SumFunction([v \in Validator |-> validators[v].rewards
                + SumFunction([d \in Delegator |-> delegations[d][v].rewards])])
      <= totalRewards

=============================================================================
