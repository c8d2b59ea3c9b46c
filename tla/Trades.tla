------------------------------- MODULE Trades -------------------------------
(***************************************************************************)
(* The life of a trade (state/trade.rs and the instructions open_trade,    *)
(* update_trade and close_trade): an admin opens it through the multisig,  *)
(* at an address made of a number of the master agent's; anyone completes  *)
(* it, by closing it or by an update that finds its take profit or stop    *)
(* loss hit, and hands in the master agent whose statistics are credited.  *)
(*                                                                         *)
(* Prices are whole units, as scale_to_exponent(0) makes them.  They are   *)
(* Pyth's, which is external and may report any of them at any time: no    *)
(* instruction writes oracle_param, whose type is Pyth by default.         *)
(* Products that do not fit 64 bits are errors (SafeMath), and an error    *)
(* undoes the whole instruction.                                           *)
(***************************************************************************)
EXTENDS Integers, FiniteSets, Sequences

CONSTANTS
    Members, MinSignatures, NoInstr, RateWindow, RateLimit,
    SignatureTimeout, Epoch, MaxTime,   \* as in Multisig
    MasterAgents,       \* the master agents that exist
    NoMaster,           \* the zero key
    Orders,             \* the parameters of open_trade that are tried
    Prices,             \* the prices the oracle may report, in whole units
    MaxU64,             \* 2^64 - 1 in the code
    MaxTrades           \* bound of trade_count

\* As in Multisig; the clock starts within its bound.
ASSUME QuorumAssumption ==
    /\ IsFiniteSet(Members)
    /\ MinSignatures \in 1 .. Cardinality(Members)
ASSUME LimitAssumption ==
    /\ RateWindow \in Nat \ {0}
    /\ RateLimit \in Nat \ {0}
    /\ SignatureTimeout \in Nat \ {0}
ASSUME ClockAssumption ==
    /\ Epoch \in Nat
    /\ Epoch >= RateWindow
    /\ MaxTime \in Nat
    /\ MaxTime >= Epoch

Terms == [trade_type : {"Buy", "Sell"}, size : Nat, entry_price : Nat,
          take_profit : Nat, stop_loss : Nat]

ASSUME OrderAssumption == Orders \subseteq Terms
ASSUME PriceAssumption == Prices \subseteq Nat
ASSUME WidthAssumption == MaxU64 \in Nat
ASSUME TradeAssumption == MaxTrades \in Nat
ASSUME MasterAssumption ==
    /\ NoMaster \notin MasterAgents
    /\ IsFiniteSet(MasterAgents)

VARIABLES
    now, signed, num_signed, instr, nonce, last_signature_time,
    signature_timeout, signature_count, stamps, turn, doneAt, \* of Multisig
    trade_count,        \* of each master agent
    completed_trades,   \* of each master agent
    total_pnl,          \* of each master agent
    created,            \* numbers whose trade account exists
    trades,             \* number -> contents of the trade account
    \* history, read by the properties only:
    exits               \* number -> price at which the trade was completed

multisig == <<signed, num_signed, instr, nonce, last_signature_time,
              signature_timeout, signature_count, stamps, turn, doneAt>>
stats == <<completed_trades, total_pnl>>
vars == <<now, multisig, trade_count, stats, created, trades, exits>>

-----------------------------------------------------------------------------
(* Accounts *)

TradeNumbers == 1 .. MaxTrades

\* The seeds of the trade account are the next number of the master agent,
\* without the master agent's key.
Number(ma) == trade_count[ma] + 1

\* A trade account that was created and never written: all its bytes are 0,
\* which get_status, get_trade_type and get_result read as these.
Zeroed ==
    [trade_type |-> "Buy", size |-> 0, entry_price |-> 0, take_profit |-> 0,
     stop_loss |-> 0, status |-> "Active", result |-> "Pending",
     master_agent |-> NoMaster]

Trade ==
    [trade_type : {"Buy", "Sell"}, size : Nat, entry_price : Nat,
     take_profit : Nat, stop_loss : Nat, status : {"Active", "Completed"},
     result : {"Pending", "Success", "Failed"},
     master_agent : MasterAgents \cup {NoMaster}]

\* What open_trade hashes: all accounts but the signer's, and its parameters.
Open(k, ma, o) == [trade |-> k, master |-> ma, order |-> o]
\* Any other instruction behind the multisig.
Other == [trade |-> 0, master |-> NoMaster, order |-> 0]

Instrs ==
    {Other} \cup
    {Open(k, ma, o) : k \in TradeNumbers, ma \in MasterAgents, o \in Orders}

ASSUME InstrAssumption == NoInstr \notin Instrs

Nonces == Epoch .. MaxTime

MS == INSTANCE Multisig
FS == INSTANCE FiniteSetsExt

-----------------------------------------------------------------------------
(* Profit and loss *)

IsBuy(t) == t.trade_type = "Buy"
Gap(a, b) == IF a >= b THEN a - b ELSE b - a

\* calculate_pnl_safe returns a value
PnlDefined(t, p) ==
    /\ p # 0
    /\ t.entry_price # 0
    /\ Gap(p, t.entry_price) * t.size <= MaxU64

Amount(t, p) == (Gap(p, t.entry_price) * t.size) \div t.entry_price

\* The cast of the amount to i64 wraps around.
AsI64(x) == IF x <= MaxU64 \div 2 THEN x ELSE x - (MaxU64 + 1)

InFavour(t, p) == IF IsBuy(t) THEN p >= t.entry_price ELSE p <= t.entry_price

\* calculate_pnl_safe
Pnl(t, p) == IF InFavour(t, p) THEN AsI64(Amount(t, p)) ELSE 0 - AsI64(Amount(t, p))

\* unsigned_abs
Magnitude(t, p) == Gap(Pnl(t, p), 0)

HitTakeProfit(t, p) == IF IsBuy(t) THEN p >= t.take_profit ELSE p <= t.take_profit
HitStopLoss(t, p) == IF IsBuy(t) THEN p <= t.stop_loss ELSE p >= t.stop_loss

-----------------------------------------------------------------------------
(* What open_trade checks of an order o at the oracle's price p, with the  *)
(* default PriceValidationConfig; o is read like a trade's terms           *)

Scaled(d) == d * 10000
Bps(d, b) == Scaled(d) \div b
AtMostBps(d, b, limit) == Scaled(d) <= MaxU64 /\ Bps(d, b) <= limit
AtLeastBps(d, b, limit) == Scaled(d) <= MaxU64 /\ Bps(d, b) >= limit

\* validate
Valid(o) ==
    /\ o.size > 0
    /\ o.entry_price > 0
    /\ IF IsBuy(o)
       THEN o.take_profit > o.entry_price /\ o.stop_loss < o.entry_price
       ELSE o.take_profit < o.entry_price /\ o.stop_loss > o.entry_price

\* validate_price_with_slippage and validate_oracle_price
NearOracle(o, p) ==
    /\ p # 0
    /\ AtMostBps(Gap(p, o.entry_price), o.entry_price, 500)
    /\ AtMostBps(Gap(p, o.entry_price), o.entry_price, 200)

\* validate_risk_management_levels
LevelsApart(o) ==
    /\ AtLeastBps(Gap(o.take_profit, o.entry_price), o.entry_price, 100)
    /\ AtLeastBps(Gap(o.stop_loss, o.entry_price), o.entry_price, 100)

\* Mutated form: a loss that rounds to nothing makes the ratio unbounded.
RewardsRiskUnlessFree(o) ==
    LET profit == Magnitude(o, o.take_profit)
        loss == Magnitude(o, o.stop_loss)
    IN  /\ PnlDefined(o, o.take_profit)
        /\ PnlDefined(o, o.stop_loss)
        /\ loss = 0 \/ AtLeastBps(profit, loss, 150)

\* Mutated form: the loss is computed at a stop loss of zero, too.
RewardsRiskAtZero(o) ==
    LET profit == Magnitude(o, o.take_profit)
        loss == Magnitude(o, o.stop_loss)
    IN  /\ PnlDefined(o, o.take_profit)
        /\ Gap(o.stop_loss, o.entry_price) * o.size <= MaxU64
        /\ loss # 0
        /\ AtLeastBps(profit, loss, 150)

\* validate_risk_reward_ratio: calculate_risk_reward_ratio fails when the
\* loss at the stop loss rounds to nothing.
RewardsRisk(o) ==
    LET profit == Magnitude(o, o.take_profit)
        loss == Magnitude(o, o.stop_loss)
    IN  /\ PnlDefined(o, o.take_profit)
        /\ PnlDefined(o, o.stop_loss)
        /\ loss # 0
        /\ AtLeastBps(profit, loss, 150)

\* Mutated form: the lower and upper level of a sell are the other way round.
InRangeOfSide(o, p) ==
    LET low == IF IsBuy(o) THEN o.stop_loss ELSE o.take_profit
        high == IF IsBuy(o) THEN o.take_profit ELSE o.stop_loss
    IN  p >= low - (low * 50) \div 10000 /\ p <= high + (high * 50) \div 10000

\* is_price_in_range: the same levels for a buy and for a sell.
InRange(o, p) ==
    /\ p >= o.stop_loss - (o.stop_loss * 50) \div 10000
    /\ p <= o.take_profit + (o.take_profit * 50) \div 10000
    /\ o.stop_loss * 50 <= MaxU64 /\ o.take_profit * 50 <= MaxU64

\* calculate_optimal_entry_price: spread, then slippage buffer, away from p.
Optimal(o, p) ==
    LET side == IF IsBuy(o) THEN 1 ELSE -1
        spread == p + side * ((p * 50) \div 10000)
    IN  spread + side * ((spread * 25) \div 10000)

\* All that open_trade requires of an order.
Acceptable(o, p) ==
    /\ Valid(o)
    /\ NearOracle(o, p)
    /\ LevelsApart(o)
    /\ RewardsRisk(o)
    /\ InRange(o, p)
    /\ p * 50 <= MaxU64
    /\ Optimal(o, p) # 0
    /\ AtMostBps(Gap(o.entry_price, Optimal(o, p)), Optimal(o, p), 500)
    /\ IF IsBuy(o) THEN o.entry_price >= p ELSE o.entry_price <= p

-----------------------------------------------------------------------------

Init ==
    /\ MS!Init
    /\ trade_count = [ma \in MasterAgents |-> 0]
    /\ completed_trades = [ma \in MasterAgents |-> 0]
    /\ total_pnl = [ma \in MasterAgents |-> 0]
    /\ created = {}
    /\ trades = [k \in TradeNumbers |-> Zeroed]
    /\ exits = [k \in TradeNumbers |-> 0]

-----------------------------------------------------------------------------
(* open_trade *)

\* init_trade_secure
Opened(o, ma) ==
    [trade_type |-> o.trade_type, size |-> o.size, entry_price |-> o.entry_price,
     take_profit |-> o.take_profit, stop_loss |-> o.stop_loss,
     status |-> "Active", result |-> "Pending", master_agent |-> ma]

\* Mutated form: the trade account may exist already.
CreateTradeIfNeeded(k) == created' = created \cup {k}

\* #[account(init)], with every signature
CreateTrade(k) ==
    /\ k \notin created
    /\ created' = created \cup {k}

OpenTrade(s, ma, o, p) ==
    LET k == Number(ma) IN
    /\ k \in TradeNumbers
    /\ CreateTrade(k)
    /\ \E left \in 0 .. MinSignatures :
           /\ MS!SignMultisig(s, Open(k, ma, o), now, left)
           /\ IF left > 0
              THEN UNCHANGED <<trades, trade_count>>
              ELSE /\ Acceptable(o, p)
                   /\ trades' = [trades EXCEPT ![k] = Opened(o, ma)]
                   /\ trade_count' = [trade_count EXCEPT ![ma] = @ + 1]
    /\ UNCHANGED <<stats, exits>>

-----------------------------------------------------------------------------
(* update_trade and close_trade: the caller names the trade and the master *)
(* agent                                                                   *)

\* Trade::complete, and the statistics of the master agent handed in.
Complete(k, ma, p, result) ==
    /\ PnlDefined(trades[k], p)
    /\ trades' = [trades EXCEPT ![k].status = "Completed", ![k].result = result]
    /\ completed_trades' = [completed_trades EXCEPT ![ma] = @ + 1]
    /\ total_pnl' = [total_pnl EXCEPT ![ma] = @ + Magnitude(trades[k], p)]
    /\ total_pnl'[ma] <= MaxU64
    /\ exits' = [exits EXCEPT ![k] = p]
    /\ UNCHANGED <<now, multisig, trade_count, created>>

\* The result that close_trade gives a trade at price p.
ManualResult(t, p) == IF Pnl(t, p) >= 0 THEN "Success" ELSE "Failed"

\* Mutated form: any trade may be closed.
CloseTradeAgain(k, ma, p) ==
    /\ k \in created
    /\ Complete(k, ma, p, ManualResult(trades[k], p))

CloseTrade(k, ma, p) ==
    /\ k \in created
    /\ trades[k].status = "Active"
    /\ Complete(k, ma, p, ManualResult(trades[k], p))

\* Mutated form: a stop loss is not counted.
UpdateTradeUncounted(k, ma, p) ==
    /\ k \in created
    /\ trades[k].status = "Active"
    /\ \/ HitTakeProfit(trades[k], p) /\ Complete(k, ma, p, "Success")
       \/ /\ HitStopLoss(trades[k], p)
          /\ PnlDefined(trades[k], p)
          /\ trades' = [trades EXCEPT ![k].status = "Completed", ![k].result = "Failed"]
          /\ exits' = [exits EXCEPT ![k] = p]
          /\ UNCHANGED <<now, multisig, trade_count, stats, created>>

\* Where neither level is hit only a timestamp changes: no step.
UpdateTrade(k, ma, p) ==
    /\ k \in created
    /\ trades[k].status = "Active"
    /\ \/ HitTakeProfit(trades[k], p) /\ Complete(k, ma, p, "Success")
       \/ /\ ~HitTakeProfit(trades[k], p)
          /\ HitStopLoss(trades[k], p)
          /\ Complete(k, ma, p, "Failed")

-----------------------------------------------------------------------------
(* Other instructions on the same accounts *)

\* buy_agent counts a trade of the master agent.
BuyAgent(ma) ==
    /\ trade_count[ma] < MaxTrades
    /\ trade_count' = [trade_count EXCEPT ![ma] = @ + 1]
    /\ UNCHANGED <<now, multisig, stats, created, trades, exits>>

\* Some other instruction is signed.
SignOther(s) ==
    /\ \E left \in 0 .. MinSignatures : MS!SignMultisig(s, Other, now, left)
    /\ UNCHANGED <<trade_count, stats, created, trades, exits>>

Tick ==
    /\ MS!Tick
    /\ UNCHANGED <<trade_count, stats, created, trades, exits>>

Next ==
    \/ Tick
    \/ \E s \in Members : SignOther(s)
    \/ \E s \in Members, ma \in MasterAgents, o \in Orders, p \in Prices :
           OpenTrade(s, ma, o, p)
    \/ \E ma \in MasterAgents : BuyAgent(ma)
    \/ \E k \in TradeNumbers, ma \in MasterAgents, p \in Prices :
           CloseTrade(k, ma, p) \/ UpdateTrade(k, ma, p)

Spec == Init /\ [][Next]_vars

-----------------------------------------------------------------------------
(* Properties *)

\* The types of the accounts.
TypeOK ==
    /\ MS!TypeOK
    /\ trade_count \in [MasterAgents -> 0 .. MaxTrades]
    /\ completed_trades \in [MasterAgents -> Nat]
    /\ total_pnl \in [MasterAgents -> 0 .. MaxU64]
    /\ created \in SUBSET TradeNumbers
    /\ trades \in [TradeNumbers -> Trade]
    /\ exits \in [TradeNumbers -> Nat]

\* is_price_in_range wants the price above the stop loss and below the take
\* profit of a sell, too, where the one is above and the other below the
\* entry price, each by a hundredth at least: no sell is ever opened.  It is
\* what the code does, not what it was written for: open_trade takes "Buy or
\* Sell" (open_trade.rs:17), has a branch for the price of a sell (:220), and
\* TradeType puts a sell's stop loss above its entry (trade.rs:216-220).
NoSellTrade == \A k \in TradeNumbers : IsBuy(trades[k])

\* Anyone may close a trade while anyone may update it: whichever comes
\* first, a trade whose level is hit gets the same result.
OutcomeAgrees ==
    \A k \in TradeNumbers, p \in Prices :
        PnlDefined(trades[k], p) =>
            /\ HitTakeProfit(trades[k], p) => ManualResult(trades[k], p) = "Success"
            /\ HitStopLoss(trades[k], p) => ManualResult(trades[k], p) = "Failed"

\* The cast of calculate_pnl_safe never turns a profit into a loss or a loss
\* into a profit, although an amount may take all 64 bits.
PnlKeepsSign ==
    \A k \in TradeNumbers, p \in Prices :
        PnlDefined(trades[k], p) =>
            /\ Pnl(trades[k], p) < 0 => ~InFavour(trades[k], p)
            /\ Pnl(trades[k], p) > 0 => InFavour(trades[k], p)

\* The sum of f over S.
Total(f, S) == FS!MapThenSumSet(LAMBDA x : f[x], S)

Completed == {k \in TradeNumbers : trades[k].status = "Completed"}

\* Every completed trade is counted once, whoever is credited, with the
\* amount it was completed for.
EveryTradeCountedOnce ==
    /\ Total(completed_trades, MasterAgents) = Cardinality(Completed)
    /\ Total(total_pnl, MasterAgents)
         = Total([k \in Completed |-> Amount(trades[k], exits[k])], Completed)

\* An opened trade keeps its terms and its master agent, and is completed at
\* most once; master agents share the numbers, but no trade replaces another.
TradeIsFinal ==
    [][\A k \in TradeNumbers :
           /\ trades[k].master_agent # NoMaster =>
                \E st \in {"Active", "Completed"}, r \in {"Pending", "Success", "Failed"} :
                    trades'[k] = [trades[k] EXCEPT !.status = st, !.result = r]
           /\ trades[k].status = "Completed" => trades'[k] = trades[k]]_vars

\* The trade account is created with the first signature, so that the second
\* one fails: under a quorum of two or more no trade is ever opened, and the
\* account that was created can never be completed.
NoTradeUnderQuorum ==
    MinSignatures > 1 => \A k \in TradeNumbers : trades[k] = Zeroed

\* update_trade.rs:44 "Master agent account for the trade (mut)": a completed
\* trade is credited to its own master agent.
CreditedToItsMaster ==
    [][\A k \in TradeNumbers, ma \in MasterAgents :
           /\ trades'[k].status # trades[k].status
           /\ completed_trades'[ma] # completed_trades[ma]
           => ma = trades[k].master_agent]_vars

\* trade.rs:557 "1.5:1 minimum risk-reward ratio": the profit at the take
\* profit is one and a half times the loss at the stop loss, or more.
RewardOutweighsRisk ==
    \A k \in TradeNumbers :
        trades[k].entry_price > 0 =>
            2 * Amount(trades[k], trades[k].take_profit)
                >= 3 * Amount(trades[k], trades[k].stop_loss)
=============================================================================
