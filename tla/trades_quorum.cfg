\* Two admins, quorum of two: the second signer of a trade.
CONSTANTS
    m1 = m1
    m2 = m2
    Members <- Two
    MinSignatures = 2
    NoInstr = NoInstr
    RateWindow = 3
    RateLimit = 2
    SignatureTimeout = 4
    Epoch = 3
    MaxTime = 7
    MasterAgents = {a1, a2}
    NoMaster = NoMaster
    Orders <- Ordinary
    Prices <- MCPrices
    MaxU64 = 2097151
    MaxTrades = 2
SPECIFICATION Spec
INVARIANTS
    NoTradeUnderQuorum
\* The bounded clock and the numbers of trades run out.
CHECK_DEADLOCK FALSE
