\* One admin: a buy that risks far more than it can gain.
CONSTANTS
    m1 = m1
    m2 = m2
    Members = {m1}
    MinSignatures = 1
    NoInstr = NoInstr
    RateWindow = 3
    RateLimit = 2
    SignatureTimeout = 4
    Epoch = 3
    MaxTime = 4
    MasterAgents = {a1, a2}
    NoMaster = NoMaster
    Orders <- MCOrders
    Prices <- MCPrices
    MaxU64 = 2097151
    MaxTrades = 2
SPECIFICATION Spec
INVARIANTS
    RewardOutweighsRisk
\* The bounded clock and the numbers of trades run out.
CHECK_DEADLOCK FALSE
