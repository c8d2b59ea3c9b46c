\* One admin, whose every signature is an execution: config updates and mints
\* under their limits, bans and status updates in any order.
CONSTANTS
    m1 = m1
    m2 = m2
    m3 = m3
    Members = {m1}
    MinSignatures = 1
    NoInstr = NoInstr
    Keep = Keep
    KeyByte <- SameKeyByte
    Configs <- SoloConfigs
    Users = {u1, u2}
    Nameless = {u2}
    Mints = {k1, k2}
    Supplies = {0, 1, 1000001}
    TradeNumbers = {1}
    InitialConfig <- MCConfig
    RateLimiter <- LongRateLimiter
    CircuitBreaker <- NoBreaker
    MaxTaxBound = 3
    Day = 4
    RateWindow = 3
    RateLimit = 2
    SignatureTimeout = 4
    Epoch = 3
    MaxTime = 8
SPECIFICATION Spec
INVARIANTS
    UpdatesLimited
PROPERTIES
    BanIsFinal
\* The bounded clock and the finite set of nonces run out.
CHECK_DEADLOCK FALSE
