---------------------------- MODULE TradeAccount ----------------------------
(***************************************************************************)
(* The account of a trade (state/trade.rs) through all its methods: those  *)
(* that ask for its authority, those that write whatever they are told,    *)
(* and the checks of a price against the trade, a configuration and the    *)
(* consensus of several oracles.  Trades models the instructions, which    *)
(* call a few of them; the rest is public.                                 *)
(*                                                                         *)
(* Prices are whole units (scale_to_exponent(0)), except for those of the  *)
(* consensus, which compares what the oracles report as it is.  Nothing    *)
(* reads updated_at, which every method stamps, and it is left out.        *)
(***************************************************************************)
EXTENDS Runtime, FiniteSets, Sequences

CONSTANTS
    NoSigner,       \* Pubkey::default()
    Signers,        \* the keys that call
    Points,         \* PERCENTAGE_PRECISION_U64, 10000 in the code
    MaxPosition,    \* TradeSecurityConfig::default, max_position_size
    MaxPrice,       \* and max_price
    PnlFactor,      \* complete_secure's largest profit, 1000 sizes in the code
    FirstTerms,     \* the terms of the trades that are opened
    NewTerms,       \* the terms an account is initialized with once more
    NewLevels,      \* the levels and sizes update_trade is given
    Markets         \* the prices that are seen

Statuses == {"Active", "Completed", "Cancelled"}
Results == {"Success", "Failed", "Pending"}

TradeTerms ==
    [trade_type : {"Buy", "Sell"}, size : Words, entry_price : Words,
     take_profit : Words, stop_loss : Words]

\* spot is the price a caller hands in, quotes are those of the oracles.
MarketType == [spot : Words, quotes : Seq(Words)]

ASSUME TradeAccountAssumption ==
    /\ NoSigner \notin Signers
    /\ Points \in Nat /\ Points >= 200     \* a distance of half a percent counts
    /\ PnlFactor \in Nat
    /\ {MaxPosition, MaxPrice} \subseteq Words
    /\ FirstTerms \cup NewTerms \subseteq TradeTerms
    /\ \A l \in NewLevels : l \in [size : Words, take_profit : Words, stop_loss : Words]
    /\ Markets \subseteq MarketType

VARIABLES
    trade,      \* the account
    market,     \* external: the prices of the moment
    \* history, read by the properties only:
    closings,   \* how often the trade left Active
    forced      \* a status was written although set_status refuses it

tradeVars == <<now, calls, trade, market, closings, forced>>

TradeAccountType ==
    [terms : TradeTerms, status : Statuses, result : Results,
     authority : Signers \cup {NoSigner}, triggered : BOOLEAN]

-----------------------------------------------------------------------------
(* Terms *)

Buys(t) == t.trade_type = "Buy"
Apart(a, b) == IF a >= b THEN a - b ELSE b - a

\* validate
ValidTerms(t) ==
    /\ t.size # 0
    /\ t.entry_price # 0
    /\ Buys(t) => t.take_profit > t.entry_price /\ t.stop_loss < t.entry_price
    /\ ~Buys(t) => t.take_profit < t.entry_price /\ t.stop_loss > t.entry_price

HitsProfit(t, p) == IF Buys(t) THEN p >= t.take_profit ELSE p <= t.take_profit
HitsStop(t, p) == IF Buys(t) THEN p <= t.stop_loss ELSE p >= t.stop_loss

\* By how much p is better than the entry price.
Advance(t, p) == IF Buys(t) THEN p - t.entry_price ELSE t.entry_price - p

\* The quotient is made of the distance, and its cast gets the sign.
SafePnl(t, p) ==
    LET amount == SignedWord((Apart(p, t.entry_price) * t.size) \div t.entry_price)
    IN  IF Advance(t, p) >= 0 THEN amount ELSE -amount

\* calculate_pnl_safe: the least signed word has no negation
SafePnlDefined(t, p) ==
    /\ p # 0
    /\ t.entry_price # 0
    /\ Fits(Apart(p, t.entry_price) * t.size)
    /\ FitsSigned(SafePnl(t, p))

\* calculate_pnl, where its casts change nothing: signed words throughout, a
\* quotient rounded towards 0.
TowardsZero(x, y) == IF x >= 0 THEN x \div y ELSE -((-x) \div y)
PnlIsDefined(t, p) ==
    /\ t.entry_price # 0
    /\ {p, t.entry_price, t.size} \subseteq 0 .. MaxU64 \div 2
    /\ FitsSigned(Advance(t, p) * t.size)
PlainPnl(t, p) == TowardsZero(Advance(t, p) * t.size, t.entry_price)

\* calculate_pnl_percentage: an error for a loss
PercentageDefined(t, p) ==
    /\ p # 0
    /\ t.entry_price # 0
    /\ Advance(t, p) >= 0
    /\ Fits(Advance(t, p) * Points)
Percentage(t, p) == (Advance(t, p) * Points) \div t.entry_price

\* calculate_risk_reward_ratio, of the largest profit and the largest loss
Magnitude(x) == IF x >= 0 THEN x ELSE -x
Risk(t) == Magnitude(SafePnl(t, t.stop_loss))
Reward(t) == Magnitude(SafePnl(t, t.take_profit))
RatioIsDefined(t) ==
    /\ SafePnlDefined(t, t.take_profit)
    /\ SafePnlDefined(t, t.stop_loss)
    /\ Risk(t) # 0
    /\ Fits(Reward(t) * Points)
RiskReward(t) == (Reward(t) * Points) \div Risk(t)

-----------------------------------------------------------------------------
(* Configurations, whose percentages the code gives in basis points *)

Of(bps) == (bps * Points) \div 10000

PriceConfig(slippage, distance, ratio, deviation, range, spread, buffer) ==
    [slippage |-> Of(slippage), distance |-> Of(distance), ratio |-> Of(ratio),
     deviation |-> Of(deviation), range |-> Of(range), spread |-> Of(spread),
     buffer |-> Of(buffer)]

Default == PriceConfig(500, 100, 150, 200, 50, 50, 25)
Conservative == PriceConfig(200, 200, 200, 100, 25, 25, 10)
Aggressive == PriceConfig(1000, 50, 100, 500, 100, 100, 50)
Presets == {Default, Conservative, Aggressive}

ValidConfig(c) == c.slippage # 0 /\ c.distance # 0 /\ c.slippage >= c.distance

\* TradeSecurityConfig::default
MinConsensus == 2
MaxOracleDeviation == Of(1000)
BreakerThreshold == Of(5000)
EmergencyThreshold == Of(10000)
LargeMove == Of(2000)

-----------------------------------------------------------------------------
(* Checks of a price p against the terms t *)

\* The distance of p from the base in points, an error when it does not fit.
PointsFit(p, base) == base # 0 /\ Fits(Apart(p, base) * Points)
PointsFrom(p, base) == (Apart(p, base) * Points) \div base

Within(p, base, limit) == PointsFit(p, base) /\ PointsFrom(p, base) <= limit
Beyond(p, base, limit) == PointsFit(p, base) /\ PointsFrom(p, base) >= limit

\* validate_price_with_slippage and validate_oracle_price
SlippageOK(t, p, limit) == p # 0 /\ Within(p, t.entry_price, limit)

\* validate_risk_management_levels
DistancesOK(t, least) ==
    /\ Beyond(t.take_profit, t.entry_price, least)
    /\ Beyond(t.stop_loss, t.entry_price, least)

\* validate_risk_reward_ratio
RatioOK(t, least) == RatioIsDefined(t) /\ RiskReward(t) >= least

\* is_price_in_range takes the stop loss for the lower end, whatever the
\* side, and fails when a product or the sum does not fit.
Part(x, points) == (x * points) \div Points
RangeDefined(t, p, buffer) ==
    /\ p # 0
    /\ Fits(t.stop_loss * buffer)
    /\ Fits(t.take_profit * buffer)
    /\ Fits(t.take_profit + Part(t.take_profit, buffer))

WithinRange(t, p, buffer) ==
    /\ p >= t.stop_loss - Part(t.stop_loss, buffer)
    /\ p <= t.take_profit + Part(t.take_profit, buffer)

\* can_execute_with_config: TRUE, FALSE, or an error of the range
CanExecute(t, p, oracle, c) ==
    /\ ValidTerms(t)
    /\ SlippageOK(t, p, c.slippage)
    /\ SlippageOK(t, oracle, c.deviation)
    /\ RangeDefined(t, p, c.range)
    /\ WithinRange(t, p, c.range)

\* validate_with_config (comprehensive_validation)
Accepted(t, p, oracle, c) ==
    /\ ValidConfig(c)
    /\ ValidTerms(t)
    /\ SlippageOK(t, p, c.slippage)
    /\ DistancesOK(t, c.distance)
    /\ RatioOK(t, c.ratio)
    /\ SlippageOK(t, oracle, c.deviation)
    /\ RangeDefined(t, p, c.range)
    /\ WithinRange(t, p, c.range)

\* calculate_entry_price_with_spread: added for a buyer, subtracted for a
\* seller.
Moved(t, p, points) ==
    IF Buys(t) THEN p + Part(p, points) ELSE p - Part(p, points)
\* calculate_optimal_price_with_config: the spread, then the buffer.
OptimalPrice(t, p, c) == Moved(t, Moved(t, p, c.spread), c.buffer)
OptimalDefined(t, p, c) ==
    LET q == Moved(t, p, c.spread) IN
    /\ p # 0
    /\ Fits(p * c.spread) /\ Fits(q)
    /\ Fits(q * c.buffer) /\ Fits(OptimalPrice(t, p, c))
    /\ OptimalPrice(t, p, c) # 0

-----------------------------------------------------------------------------
(* Consensus of several oracles *)

CountedQuotes(quotes) == {i \in DOMAIN quotes : quotes[i] > 0}

\* The k-th of the counted prices in ascending order.
Kth(quotes, k) ==
    CHOOSE v \in {quotes[i] : i \in CountedQuotes(quotes)} :
        /\ Cardinality({i \in CountedQuotes(quotes) : quotes[i] < v}) < k
        /\ Cardinality({i \in CountedQuotes(quotes) : quotes[i] <= v}) >= k

\* Their median.
Consensus(quotes) ==
    LET n == Cardinality(CountedQuotes(quotes))
        mid == n \div 2
    IN  IF n % 2 = 0 THEN (Kth(quotes, mid) + Kth(quotes, mid + 1)) \div 2
        ELSE Kth(quotes, mid + 1)

\* calculate_consensus returns a value
HasConsensus(quotes) ==
    LET n == Cardinality(CountedQuotes(quotes)) IN
    /\ n >= MinConsensus
    /\ n % 2 = 0 => Fits(Kth(quotes, n \div 2) + Kth(quotes, n \div 2 + 1))
    /\ \A i \in CountedQuotes(quotes) :
          Within(quotes[i], Consensus(quotes), MaxOracleDeviation)

\* validate_trade_limits
LimitsOK(t) ==
    /\ t.size \in 1 .. MaxPosition
    /\ t.entry_price \in 1 .. MaxPrice
    /\ t.take_profit \in 1 .. MaxPrice
    /\ t.stop_loss # 0

\* check_circuit_breaker: what exceeds the emergency's threshold exceeds
\* the breaker's.
BreakerOK(tr, p) ==
    /\ ~tr.triggered
    /\ Within(p, tr.terms.entry_price, BreakerThreshold)
    /\ Within(p, tr.terms.entry_price, EmergencyThreshold)

\* Mutated form: the price is not compared with the consensus.
FlashUnprotected(t, m) ==
    /\ m.spot # 0
    /\ ~Within(m.spot, t.entry_price, LargeMove)
       => Cardinality(CountedQuotes(m.quotes)) >= 3

\* validate_price_with_flash_protection
FlashProtected(t, m) ==
    /\ m.spot # 0
    /\ Within(m.spot, Consensus(m.quotes), MaxOracleDeviation)
    /\ PointsFit(m.spot, t.entry_price)
    /\ ~Within(m.spot, t.entry_price, LargeMove)
       => Cardinality(CountedQuotes(m.quotes)) >= 3

\* validate_secure_trade_execution
SecureExecution(tr, m, c) ==
    /\ ValidTerms(tr.terms)
    /\ LimitsOK(tr.terms)
    /\ BreakerOK(tr, m.spot)
    /\ HasConsensus(m.quotes)
    /\ FlashProtected(tr.terms, m)
    /\ SlippageOK(tr.terms, m.spot, c.slippage)
    /\ DistancesOK(tr.terms, c.distance)
    /\ RatioOK(tr.terms, c.ratio)

-----------------------------------------------------------------------------
(* Methods *)

\* The account was made by init_trade, which leaves the zero key for the
\* authority and checks nothing, or by init_trade_secure, as by open_trade,
\* with the key it is given and valid terms.
TradeAccountInit ==
    /\ RuntimeInit
    /\ \E t \in FirstTerms, k \in Signers \cup {NoSigner} :
          /\ k # NoSigner => ValidTerms(t)
          /\ trade = [terms |-> t, status |-> "Active", result |-> "Pending",
                      authority |-> k, triggered |-> FALSE]
    /\ market \in Markets
    /\ closings = 0
    /\ forced = FALSE

\* The statuses set_status accepts.
MayBecome(s) ==
    CASE s = "Active" -> {"Completed", "Cancelled"}
      [] s = "Completed" -> {"Cancelled"}
      [] OTHER -> {}

\* The status becomes s, accepted or not.
StatusBecomes(tr, s) ==
    /\ Call
    /\ trade' = [tr EXCEPT !.status = s]
    /\ closings' = IF trade.status = "Active" /\ s # "Active" THEN closings + 1 ELSE closings
    /\ forced' = (forced \/ s \notin MayBecome(trade.status) \cup {trade.status})
    /\ UNCHANGED market

SetStatus(s, k) ==
    /\ k = trade.authority
    /\ s \in MayBecome(trade.status)
    /\ StatusBecomes(trade, s)

SetResult(r, k) ==
    /\ Call
    /\ k = trade.authority
    /\ trade' = [trade EXCEPT !.result = r]
    /\ UNCHANGED <<market, closings, forced>>

\* complete, cancel and update_trade write the status when set_status
\* refuses it.
CompleteAnyway(r) == StatusBecomes([trade EXCEPT !.result = r], "Completed")
CancelAnyway == StatusBecomes([trade EXCEPT !.result = "Failed"], "Cancelled")

UpdateTradeAnyway(l, s, r) ==
    LET terms == [trade.terms EXCEPT !.size = l.size, !.take_profit = l.take_profit,
                                     !.stop_loss = l.stop_loss]
    IN  StatusBecomes([trade EXCEPT !.terms = terms, !.result = r], s)

\* Both write over whatever the account holds, and any status.
InitTrade(t, s, r) ==
    StatusBecomes([terms |-> t, status |-> s, result |-> r,
                   authority |-> NoSigner, triggered |-> FALSE], s)

InitTradeSecure(t, k, s, r) ==
    /\ ValidTerms(t)
    /\ StatusBecomes([terms |-> t, status |-> s, result |-> r,
                      authority |-> k, triggered |-> FALSE], s)

\* The largest profit or loss complete_secure takes.
PnlPlausible(pnl) ==
    /\ Fits(trade.terms.size * PnlFactor)
    /\ Magnitude(pnl) <= trade.terms.size * PnlFactor

CompleteSecure(r, k, pnl) ==
    /\ k = trade.authority
    /\ trade.status = "Active"
    /\ PnlPlausible(pnl)
    /\ StatusBecomes([trade EXCEPT !.result = r], "Completed")

CancelSecure(k) ==
    /\ k = trade.authority
    /\ trade.status = "Active"
    /\ StatusBecomes([trade EXCEPT !.result = "Failed"], "Cancelled")

TriggerTradeBreaker(k) ==
    /\ Call
    /\ k = trade.authority
    /\ trade' = [trade EXCEPT !.triggered = TRUE]
    /\ UNCHANGED <<market, closings, forced>>

\* The admin's key is not looked at.
ResetTradeBreaker ==
    /\ Call
    /\ trade' = [trade EXCEPT !.triggered = FALSE]
    /\ UNCHANGED <<market, closings, forced>>

\* External: the market moves.
MarketMoves(m) ==
    /\ Call
    /\ market' = m
    /\ UNCHANGED <<trade, closings, forced>>

TradeAccountNext ==
    \/ \E k \in Signers :
        \/ \E s \in Statuses : SetStatus(s, k)
        \/ \E r \in Results : SetResult(r, k)
        \/ \E r \in Results : CompleteSecure(r, k, SafePnl(trade.terms, market.spot))
        \/ CancelSecure(k)
        \/ TriggerTradeBreaker(k)
    \/ \E r \in Results : CompleteAnyway(r)
    \/ CancelAnyway
    \/ \E l \in NewLevels, s \in Statuses, r \in Results : UpdateTradeAnyway(l, s, r)
    \/ \E t \in NewTerms, s \in Statuses, r \in Results :
        \/ InitTrade(t, s, r)
        \/ \E k \in Signers : InitTradeSecure(t, k, s, r)
    \/ ResetTradeBreaker
    \/ \E m \in Markets : MarketMoves(m)

TradeAccountSpec == TradeAccountInit /\ [][TradeAccountNext]_tradeVars

-----------------------------------------------------------------------------
(* Properties *)

\* Types of the account and of the market.
TradeAccountTypeOK ==
    /\ trade \in TradeAccountType
    /\ market \in MarketType
    /\ closings \in Nat
    /\ forced \in BOOLEAN

\* A trade is completed or cancelled once: whoever has its authority cannot
\* take it back to Active with set_status, complete_secure or cancel_secure.
\* What writes a status that set_status refuses is complete, cancel and
\* update_trade, and init_trade and init_trade_secure on an account in use.
ClosedOnceUnlessForced == ~forced => closings <= 1

\* Nobody has the authority of a trade that init_trade made, and both ways to
\* make a trade anew reset the breaker: it is never triggered.  open_trade
\* uses init_trade_secure, so that the trades it opens have an authority.
NoBreakerWithoutAuthority == trade.authority = NoSigner => ~trade.triggered

\* calculate_pnl, on signed words, and calculate_pnl_safe, on unsigned ones
\* with a sign of their own, agree below half of the word, where the casts
\* change nothing, wherever neither of them fails.
PnlsAgree ==
    PnlIsDefined(trade.terms, market.spot) /\ SafePnlDefined(trade.terms, market.spot)
    => PlainPnl(trade.terms, market.spot) = SafePnl(trade.terms, market.spot)

\* The profit in percent, where it is one, is that of the profit of the
\* whole size, each rounded down on its own.
PercentageAgrees ==
    LET t == trade.terms
        pct == Percentage(t, market.spot)
        pnl == PlainPnl(t, market.spot)
    IN  PercentageDefined(t, market.spot) /\ PnlIsDefined(t, market.spot)
        => pct * t.size < (pnl + 1) * Points /\ pnl * Points <= (pct + 1) * t.size

\* No price is both levels of a valid trade.
NeverBothLevels ==
    LET t == trade.terms IN
    ValidTerms(t) => ~(HitsProfit(t, market.spot) /\ HitsStop(t, market.spot))

\* validate_secure_trade_execution compares the oracles with their median,
\* the price with the median and the entry price with the price: under the
\* two stricter presets no oracle that was counted is further from the
\* entry price than a third of it.
EntryNearEveryOracle ==
    \A c \in {Default, Conservative} :
        SecureExecution(trade, market, c)
        => \A i \in CountedQuotes(market.quotes) :
               3 * Apart(market.quotes[i], trade.terms.entry_price)
                   <= trade.terms.entry_price

\* One of three oracles moves the consensus no further than the other two,
\* whatever it reports.
OneOracleCannotMove ==
    LET q == market.quotes IN
    Len(q) = 3 /\ (\A i \in 1 .. 3 : q[i] > 0) =>
    \A i, j, k \in 1 .. 3 :
        {i, j, k} = 1 .. 3 /\ q[j] <= q[k] =>
        \A v \in {1, market.spot, MaxU64} \ {0} :
            LET moved == [q EXCEPT ![i] = v] IN
            HasConsensus(moved) => Consensus(moved) \in q[j] .. q[k]

\* What the conservative preset accepts the default one accepts, and what
\* that accepts the aggressive one does, as long as the wider range fits.
PresetsAreNested ==
    LET t == trade.terms
        seen == {market.spot} \cup {market.quotes[i] : i \in DOMAIN market.quotes}
        KeptBy(c, d, o) ==
            /\ Accepted(t, market.spot, o, c)
            /\ RangeDefined(t, market.spot, d.range)
            => Accepted(t, market.spot, o, d)
    IN  \A o \in seen :
            KeptBy(Conservative, Default, o) /\ KeptBy(Default, Aggressive, o)

\* is_price_in_range takes the stop loss for the lower end: the default and
\* the conservative preset accept no sell trade, at any price.  This is what
\* the code does, and not what its documentation of TradeType says, which
\* describes sells with the stop loss above the entry (trade.rs:216-220).
NoSellByDefault ==
    \A c \in {Default, Conservative} :
        Accepted(trade.terms, market.spot, market.spot, c) => Buys(trade.terms)

\* Spread and buffer are never in favour of the trader, and grow from the
\* conservative preset to the aggressive one.
QuotesAgainstTrader ==
    LET t == trade.terms
        Quote(c) == OptimalPrice(t, market.spot, c)
        Worse(p, q) == IF Buys(t) THEN p >= q ELSE p <= q
    IN  (\A c \in Presets : OptimalDefined(t, market.spot, c)) =>
        /\ \A c \in Presets : Worse(Quote(c), Moved(t, market.spot, c.spread))
        /\ Worse(Quote(Conservative), market.spot)
        /\ Worse(Quote(Default), Quote(Conservative))
        /\ Worse(Quote(Aggressive), Quote(Default))

\* The status moves once, the figures of a trade agree, and its checks are
\* no looser in combination than each of them says.
TradeConsistent ==
    /\ TradeAccountTypeOK
    /\ ClosedOnceUnlessForced
    /\ NoBreakerWithoutAuthority
    /\ PnlsAgree
    /\ PercentageAgrees
    /\ NeverBothLevels
    /\ EntryNearEveryOracle
    /\ OneOracleCannotMove
    /\ PresetsAreNested
    /\ NoSellByDefault
    /\ QuotesAgainstTrader
=============================================================================
