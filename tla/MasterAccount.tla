--------------------------- MODULE MasterAccount ---------------------------
(***************************************************************************)
(* The account of a master agent (state/master_agent.rs): its price, yield *)
(* and taxes with their limits, its supply, its trading mode, and the      *)
(* quotes and figures derived from them.  Any key may call the methods     *)
(* that take an authority; the key that is stored is a PDA, which signs    *)
(* for no instruction, so that through update_price and update_yield every *)
(* caller is a stranger.                                                   *)
(***************************************************************************)
EXTENDS Runtime

CONSTANTS
    MasterAuthority,    \* the stored authority
    Callers,            \* the keys that call
    Bps,                \* PERCENTAGE_PRECISION, 10000 in the code
    QuoteScale,         \* QUOTE_PRECISION, 10^6 in the code
    UpdateInterval,     \* 129600 seconds in the code
    PriceAllowance,     \* price_update_allowance, in days
    MaxTradesPerAgent,  \* 1000 in the code
    NewPrices, NewYields, NewTaxes, NewSupplies, NewAllowed, Budgets,
    FirstMasters        \* the parameters of initialize that are tried

VARIABLES
    master,             \* the account
    \* history, read by the properties only:
    changed,            \* time of the last change of price, yield or taxes
                        \* since the account was created or reset
    used                \* time of the last call, a reset excepted

masterVars == <<now, calls, master, changed, used>>

TaxConfig == [buy : Words, sell : Words, max : Words]
TradingStatus == {"WhiteList", "Public"}

MasterType ==
    [price : Words, w_yield : Words, max_supply : Words, agent_count : Words,
     trade_count : Words, auto_relist : BOOLEAN, trading_status : TradingStatus,
     tax : TaxConfig, created_at : Nat, last_updated : Nat,
     last_price_update : Nat]

\* validate_tax_config of the taxes t
ValidTaxConfig(t) == t.buy <= t.max /\ t.sell <= t.max /\ t.max <= Bps

ASSUME MasterAssumption ==
    /\ {Bps, QuoteScale, UpdateInterval} \subseteq Nat \ {0}
    /\ Bps <= MaxU64
    /\ {PriceAllowance, MaxTradesPerAgent} \subseteq Nat
    /\ NewPrices \cup NewYields \cup NewSupplies \cup NewAllowed \cup Budgets \subseteq Words
    /\ NewTaxes \subseteq TaxConfig
    \* mint_master_agent validates the account it has initialized
    /\ \A m \in FirstMasters :
          /\ m \in [price : 1 .. MaxU64, w_yield : 0 .. Bps,
                    max_supply : 1 .. MaxU64, tax : TaxConfig]
          /\ ValidTaxConfig(m.tax)

\* initialize, for an account made at the clock's time; what it does not
\* write is 0.
Initialized(m) ==
    [price |-> m.price, w_yield |-> m.w_yield, max_supply |-> m.max_supply,
     agent_count |-> 0, trade_count |-> 0, auto_relist |-> FALSE,
     trading_status |-> "WhiteList", tax |-> m.tax, created_at |-> now,
     last_updated |-> now, last_price_update |-> 0]

MasterInit ==
    /\ RuntimeInit
    /\ \E m \in FirstMasters : master = Initialized(m)
    /\ changed = now
    /\ used = now

-----------------------------------------------------------------------------
(* Price, yield and taxes *)

\* Products are checked; the quotient is rounded down.
Share(x, bps) == (x * bps) \div Bps
ShareFits(x, bps) == Fits(x * bps)

Increase(pct) == Bps + (pct * Bps) \div 100

\* The new value exceeds the old one by no more than pct percent.
AtMostIncreased(new, old, pct) ==
    /\ ShareFits(old, Increase(pct))
    /\ new <= Share(old, Increase(pct))

\* Any change of the account counts as an update.
IntervalOver == now - master.last_updated >= UpdateInterval

Touched(m) ==
    /\ Call
    /\ master' = [m EXCEPT !.last_updated = now]
    /\ used' = now

UpdatePrice(p, caller) ==
    /\ caller = MasterAuthority
    /\ p # 0
    /\ p > master.price
    /\ IntervalOver
    /\ AtMostIncreased(p, master.price, 10)
    /\ Touched([master EXCEPT !.price = p, !.last_price_update = now])
    /\ changed' = now

\* can_update_price_secure_with_time: update_price calls it first
CanUpdatePrice(p, allowed, caller) ==
    /\ caller = MasterAuthority
    /\ now - master.last_price_update >= PriceAllowance * Day
    /\ ShareFits(master.price, allowed)
    /\ p <= Share(master.price, allowed)

UpdatePriceSecurely(p, allowed, caller) ==
    CanUpdatePrice(p, allowed, caller) /\ UpdatePrice(p, caller)

\* Mutated form: a new yield does not restart the interval.
UpdateYieldUnstamped(y, caller) ==
    /\ caller = MasterAuthority /\ y \in 1 .. Bps /\ IntervalOver
    /\ AtMostIncreased(y, master.w_yield, 5)
    /\ Call
    /\ master' = [master EXCEPT !.w_yield = y]
    /\ used' = now /\ changed' = now

\* The limit of 50000 after that of Bps refuses nothing.
UpdateYield(y, caller) ==
    /\ caller = MasterAuthority
    /\ y \in 1 .. Bps
    /\ IntervalOver
    /\ AtMostIncreased(y, master.w_yield, 5)
    /\ Touched([master EXCEPT !.w_yield = y])
    /\ changed' = now

DayStart == now - (now % Day)

UpdateTaxConfig(t, caller) ==
    /\ caller = MasterAuthority
    /\ ValidTaxConfig(t)
    /\ master.last_updated < DayStart
    /\ Touched([master EXCEPT !.tax = t])
    /\ changed' = now

-----------------------------------------------------------------------------
(* Supply and trading *)

\* Mutated form: the supply may shrink below the agents that exist.
UpdateMaxSupplyAny(s) ==
    Touched([master EXCEPT !.max_supply = s]) /\ changed' = changed

UpdateMaxSupply(s) ==
    /\ s >= master.agent_count
    /\ Touched([master EXCEPT !.max_supply = s])
    /\ changed' = changed

IsSupplyFull == master.agent_count >= master.max_supply

AddAgentToMaster ==
    /\ ~IsSupplyFull
    /\ Touched([master EXCEPT !.agent_count = @ + 1])
    /\ changed' = changed

RemoveAgentFromMaster ==
    /\ master.agent_count # 0
    /\ Touched([master EXCEPT !.agent_count = @ - 1])
    /\ changed' = changed

IncrementTradeCount ==
    /\ Fits(master.trade_count + 1)
    /\ Touched([master EXCEPT !.trade_count = @ + 1])
    /\ changed' = changed

\* set_auto_relist and toggle_auto_relist
SetAutoRelist(b) ==
    Touched([master EXCEPT !.auto_relist = b]) /\ changed' = changed

SetTradingStatus(s, caller) ==
    /\ caller = MasterAuthority
    /\ Touched([master EXCEPT !.trading_status = s])
    /\ changed' = changed

\* Asks for no authority: it passes the stored one on.
ToggleTradingStatus ==
    \E s \in TradingStatus \ {master.trading_status} :
        SetTradingStatus(s, MasterAuthority)

\* The account is as old as on its first day, and so is its last update.
ResetMaster ==
    /\ Call
    /\ master' = [master EXCEPT !.agent_count = 0, !.trade_count = 0,
                      !.trading_status = "WhiteList",
                      !.last_updated = master.created_at]
    /\ changed' = master.created_at
    /\ UNCHANGED used

MasterTick == \E d \in Ticks : Tick(d) /\ UNCHANGED <<master, changed, used>>

MasterNext ==
    \/ \E caller \in Callers :
        \/ \E p \in NewPrices :
            \/ UpdatePrice(p, caller)
            \/ \E allowed \in NewAllowed : UpdatePriceSecurely(p, allowed, caller)
        \/ \E y \in NewYields : UpdateYield(y, caller)
        \/ \E t \in NewTaxes : UpdateTaxConfig(t, caller)
        \/ \E s \in TradingStatus : SetTradingStatus(s, caller)
    \/ \E s \in NewSupplies : UpdateMaxSupply(s)
    \/ AddAgentToMaster
    \/ RemoveAgentFromMaster
    \/ IncrementTradeCount
    \/ \E b \in BOOLEAN : SetAutoRelist(b)
    \/ ToggleTradingStatus
    \/ ResetMaster
    \/ MasterTick

MasterSpec == MasterInit /\ [][MasterNext]_masterVars

-----------------------------------------------------------------------------
(* Quotes: what a buyer pays and a seller gets, taxes included *)

TaxOf(pct) == Share(master.price, pct)

BuyPrice == master.price + TaxOf(master.tax.buy)
BuyPriceDefined ==
    /\ master.tax.buy <= master.tax.max
    /\ ShareFits(master.price, master.tax.buy)
    /\ Fits(BuyPrice)

SellPrice == master.price - TaxOf(master.tax.sell)
SellPriceDefined ==
    /\ master.tax.sell <= master.tax.max
    /\ ShareFits(master.price, master.tax.sell)
    /\ Fits(SellPrice)

\* calculate_buy_for_usdc_amount: tokens, tax and base amount
TokensFor(usdc) == usdc \div BuyPrice
TaxPaidFor(usdc) == TokensFor(usdc) * TaxOf(master.tax.buy)
BaseFor(usdc) == TokensFor(usdc) * master.price

\* calculate_sell_for_token_amount
UsdcReceived(tokens) == tokens * SellPrice

\* calculate_buy_price_with_slippage and calculate_sell_price_with_slippage
MaxBuyPrice(bps) == BuyPrice + Share(BuyPrice, bps)
MinSellPrice(bps) == SellPrice - Share(SellPrice, bps)

\* get_buy_tax_rate, get_sell_tax_rate, get_tax_summary: whole percents
TaxRate(pct) == Share(pct, 100)

-----------------------------------------------------------------------------
(* Figures *)

YieldAmount == Share(master.price, master.w_yield)

RemainingSupply == IF IsSupplyFull THEN 0 ELSE master.max_supply - master.agent_count

\* Errors of the product and of the quotient are read as 0.
SupplyUtilization ==
    IF master.max_supply = 0 \/ ~Fits(master.agent_count * Bps) THEN 0
    ELSE (master.agent_count * Bps) \div master.max_supply

ValueLocked ==
    IF Fits(master.agent_count * master.price) THEN master.agent_count * master.price
    ELSE 0

YieldGenerated == YieldAmount * master.agent_count

MasterYieldEfficiency ==
    IF ValueLocked = 0 THEN 0 ELSE (YieldGenerated * QuoteScale) \div ValueLocked
MasterYieldDefined ==
    /\ ShareFits(master.price, master.w_yield)
    /\ Fits(YieldGenerated)
    /\ Fits(YieldGenerated * QuoteScale)

MasterAge == DaysFrom(master.created_at, now)

ActivityScore ==
    IF MasterAge = 0 THEN master.trade_count ELSE master.trade_count \div MasterAge

MasterNeedsAttention ==
    \/ DaysFrom(master.last_updated, now) > 7
    \/ SupplyUtilization > (9 * Bps) \div 10
    \/ master.agent_count = 0

-----------------------------------------------------------------------------
(* Validation *)

ValidMaster ==
    /\ master.price # 0
    /\ master.w_yield <= Bps
    /\ master.max_supply # 0
    /\ master.agent_count <= master.max_supply
    /\ master.created_at > 0
    /\ master.last_updated >= master.created_at

\* The price is taken for a change of price, spread over the days since the
\* account was created.
PriceLooksSteady ==
    MasterAge > 0 => master.price \div MasterAge <= master.price \div 10

TradesLookUsual ==
    master.trade_count > 0 /\ master.agent_count > 0
    => master.trade_count \div master.agent_count <= MaxTradesPerAgent

\* detect_suspicious_activity
NothingSuspicious ==
    /\ PriceLooksSteady
    /\ TradesLookUsual
    /\ now >= master.created_at
    /\ now >= master.last_updated

\* validate_security, without its limits on price, yield and supply, which
\* are far above those of the other methods
SecureMaster == ValidMaster /\ ValidTaxConfig(master.tax) /\ NothingSuspicious

-----------------------------------------------------------------------------
(* Properties *)

\* Types of the account.
MasterTypeOK ==
    /\ now \in Nat
    /\ calls \in Nat
    /\ master \in MasterType
    /\ changed \in Nat
    /\ used \in Nat

\* Every order of calls leaves an account that passes validate and
\* validate_tax_config, which every sale asks for last; only a supply of 0,
\* which update_max_supply accepts while there are no agents, does not.
ValidUnlessSupplyTaken ==
    master.max_supply # 0 => ValidMaster /\ ValidTaxConfig(master.tax)

\* Two changes of price or yield are an interval apart, with any other call
\* in between, unless the account was reset.
ChangesAreSpaced ==
    [][<<master.price, master.w_yield>>' # <<master.price, master.w_yield>>
       => now - changed >= UpdateInterval]_masterVars

\* The limit of ten percent is rounded down, so that a price below 10 units
\* never rises, and a yield below 20 never does.
LowValuesAreFrozen ==
    [][/\ master.price < 10 => master.price' = master.price
       /\ master.w_yield < 20 => master.w_yield' <= master.w_yield]_masterVars

\* From its second day to its tenth a master agent whose price is 90 units
\* or more fails validate_security, and with it every sale, although its
\* price never changed; from then on the price is no reason to refuse.
ClosedForNineDays ==
    /\ master.price >= 90 /\ MasterAge \in 1 .. 9 => ~SecureMaster
    /\ MasterAge = 0 \/ MasterAge >= 10 => PriceLooksSteady

\* Whoever buys for an amount never pays more than it, and the token that is
\* not bought any more would exceed it.
NeverOverBudget ==
    \A usdc \in Budgets :
        BuyPriceDefined
        => LET paid == TaxPaidFor(usdc) + BaseFor(usdc)
           IN  paid <= usdc /\ usdc < paid + BuyPrice

\* The efficiency of the yield, computed from the yields of all agents, each
\* rounded down, never exceeds the rate of the yield.
EfficiencyNeverOverstates ==
    MasterYieldDefined => MasterYieldEfficiency * Bps <= master.w_yield * QuoteScale

\* An account that was not used for more than eight days asks for attention,
\* also after a reset, which makes its last update older than it is.
UnusedNeedsAttention == now - used > 8 * Day => MasterNeedsAttention

\* The account stays valid, its quotes and figures are rounded to the side
\* of the one who does not ask, and time opens and closes its sales as said
\* above.
MasterConsistent ==
    /\ MasterTypeOK
    /\ ValidUnlessSupplyTaken
    /\ ClosedForNineDays
    /\ NeverOverBudget
    /\ EfficiencyNeverOverstates
    /\ UnusedNeedsAttention
=============================================================================
