\* Two senders, with a replacement, a double spend, a payment with a later
\* nonce and a better fee, and one that spends an output not mined yet.
SPECIFICATION Spec
CONSTANTS
    alice = alice  bob = bob
    g1 = g1  g2 = g2  h1 = h1  c1 = c1
    pay = pay  bump = bump  next = next  buy = buy  chained = chained
    Tx <- AllTx
    NoTx = NoTx
    Sender = {alice, bob}
    Thread = {api}
    Coin = {g1, g2, h1, c1}
    Genesis = {g1, g2, h1}
    From <- MCFrom
    Nonce <- MCNonce
    Inputs <- MCInputs
    Outputs <- MCOutputs
    FeeRate <- MCFeeRate
    Replaces <- MCReplaces
    OptsIn = {pay}
    CanAge = {buy}
    Removable = {buy}
    MaxPool = 2
    MaxPerSender = 2
    MaxOrphanTx = 1
    MaxPerBlock = 5
    BanAfter = 1
    Serial = TRUE
INVARIANTS
    TypeOK
    NoPoolDoubleSpend
    
PROPERTY ReadyNoncesAreMined
