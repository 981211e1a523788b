\* Two swaps of any of three contracts, with one restart and one write that goes
\* wrong; two validators and two delegators that share five tokens, or one
\* delegator who may pass negative amounts.
SPECIFICATION ServiceSpec
CONSTANTS
    Swap = {s1, s2}
    Contract <- MCContract
    MaxAttempts = 2
    MaxTime = 2
    MaxRestarts = 1
    SwapFault = {"refused", "torn"}
    MaxFaults = 1
    Validator = {v1, v2}
    Delegator = {d1, d2}
    MaxValidators = 2
    MinSelfStake = 1
    MinDelegation = 2
    BASIS_POINTS = 4
    UnbondingPeriod = 1
    Amount <- MCAmount
    Commission <- MCCommission
    Fraction = {2}
    JailTime = {1}
    Reward = {5}
    MaxDeposit = 5
    MaxDebt = 1
    MaxShares = 100
    MaxDistributions = 1
    MaxSlashes = 2
    MaxNow = 1
SYMMETRY ServiceSymmetry
INVARIANTS
    StakingTypeOK
    SwapTypeOK
    NeverSettledTwice
    TriesBounded
    BrokenSwapsDelayABoundedTime
    SettlementsSurviveRestart
    TokensConserved
    SlashRoundingBounded
    RewardsBacked
CHECK_DEADLOCK FALSE
