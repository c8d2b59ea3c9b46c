\* Three admins, quorum of two, every kind of instruction: pauses, config
\* updates, mints and the ban of a user without a name compete.
CONSTANTS
    m1 = m1
    m2 = m2
    m3 = m3
    Members <- Three
    MinSignatures = 2
    NoInstr = NoInstr
    Keep = Keep
    KeyByte <- MCKeyByte
    Configs <- MCConfigs
    Users = {u1}
    Nameless = {u1}
    Mints = {k1}
    Supplies = {1}
    TradeNumbers = {1}
    InitialConfig <- MCConfig
    RateLimiter <- MCRateLimiter
    CircuitBreaker <- MCBreaker
    MaxTaxBound = 3
    Day = 8
    RateWindow = 3
    RateLimit = 2
    SignatureTimeout = 4
    Epoch = 3
    MaxTime = 7
SPECIFICATION Spec
INVARIANTS
    NamelessNeverBanned
    NothingMintedUnderQuorum
PROPERTIES
    GovernanceIsMultisig
    PauseIsFinal
    OnlyUnpauseAfterUnpause
    ChangesNeedQuorum
\* The bounded clock and the finite set of nonces run out.
CHECK_DEADLOCK FALSE
