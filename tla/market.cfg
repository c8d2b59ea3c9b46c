\* Two users register, with or without a referrer, buy agents, are banned or
\* whitelisted, while agents are minted and trades opened.
CONSTANTS
    m1 = m1
    k1 = k1
    k2 = k2
    k3 = k3
    u1 = u1
    u2 = u2
    Members = {m1}
    MinSignatures = 1
    NoInstr = NoInstr
    Keep = Keep
    KeyByte <- MCKeyByte
    Configs <- MCConfigs
    Users = {u1, u2}
    Nameless = {}
    Mints = {k1, k2, k3}
    Supplies = {1, 2}
    TradeNumbers = {1}
    InitialConfig <- MCConfig
    RateLimiter <- MCRateLimiter
    CircuitBreaker <- MCBreaker
    MaxTaxBound = 3
    Day = 1
    RateWindow = 1
    RateLimit = 2
    SignatureTimeout = 4
    Epoch = 3
    MaxTime = 5
    Price <- MCPrice
    WhiteLists = {k2}
    BuyTax = 250
    TradesPerAgent = 1
    PriceShare = 2
    Protocol = Protocol
    NoOne = NoOne
SPECIFICATION MarketSpec
INVARIANTS
    HoldingsMatch
    WhitelistHolds
    ReferralsGrounded
    ReferralsCounted
PROPERTIES
    SoldOnce
    BannedHoldNoMore
    MarketImplementsGovernance
SYMMETRY MCSymmetry
VIEW Accounts
CHECK_DEADLOCK FALSE
