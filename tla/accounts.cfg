\* Every public method of the accounts, in any order of four calls, with
\* the clock moving on by a day or by nine and a half.
CONSTANTS
    Epoch = 3
    MaxTime = 28
    Ticks = {2, 19}
    Day = 2
    MaxU64 = 20479
    MaxCalls = 4
    Authority = me
    NoKey = none
    Others = {k1, k2}
    NoName = noname
    NewNames = {n1}
    IdleDays = 1
    Thresholds = {2, 5}
    QuotePrecision = 200
    Amounts = {0, 3, 7, 9000}
    NoReferrer = none
    Referrer = r1
    Referred = u1
    Earnings = {0, 3, 12000}
    NoOwner = none
    o1 = o1
    Owners = {o1, o2}
    Boosters = {0, 1, 2500, 20000}
    NewDays = 1
    MatureDays = 3
    OldDays = 9
    ActiveBonus = 1000
    MatureBonus = 500
    OldPenalty = 2000
    Cooldown = 3
    MinInterval = 2
    MaxUpdates = 1
    LastResetDay = 4
    MaxBalance = 5
    MaxTax = 3
    MaxU32 = 3
    FirstProtocols <- MCFirstProtocols
    Keep = keep
    Balances = {0, 2, 5, 6}
    Fees = {0, 2, 5}
    Taxes = {3, 4}
    MasterAuthority = pda
    Callers = {pda, anyone}
    Bps = 100
    QuoteScale = 50
    UpdateInterval = 3
    PriceAllowance = 2
    MaxTradesPerAgent = 1
    NewPrices = {10, 110, 121}
    NewYields = {20, 52}
    NewTaxes <- MCNewTaxes
    NewSupplies = {0, 1, 3}
    NewAllowed = {0, 120}
    Budgets = {1, 102, 103, 300}
    FirstMasters <- MCFirstMasters
    NoSigner = nobody
    Signers = {s1}
    Points = 400
    MaxPosition = 500
    MaxPrice = 10000
    PnlFactor = 2
    FirstTerms <- MCFirstTerms
    NewTerms <- MCNewTerms
    NewLevels <- MCNewLevels
    Markets <- MCMarkets
    NoUpdater = nobody
    Updaters = {k1, k2}
    OracleBps = 100
    OracleInterval = 3
    MaxDeviation = 40
    MaxAge = 20
    MaxError = 50
    MaxExponent = 1
    NewQuotes <- MCNewQuotes
    Datings <- MCDatings
    Exponents = {0, 2}
    Root = 63
    Wide = 4095
    Wider = 262143
    Samples <- MCSamples
    MaxMantissa = 200
    ScaleDigits = 2
    UsdDecimals = 1
    Finest = 3
    OraclePrices <- MCOraclePrices
SPECIFICATION MCSpec
INVARIANTS
    ProfileConsistent
    LedgerConsistent
    ReferralsConsistent
    AgentConsistent
    ProtocolConsistent
    MasterConsistent
    TradeConsistent
    OracleConsistent
    ArithmeticCorrect
    PricesCorrect
PROPERTIES
    ChangesAreSlow
\* The bounded clock and the number of calls run out.
CHECK_DEADLOCK FALSE
