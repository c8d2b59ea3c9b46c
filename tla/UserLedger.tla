----------------------------- MODULE UserLedger -----------------------------
(***************************************************************************)
(* The amounts of a user's account and of its History (state/user.rs):     *)
(* yield, agents, fees and referral earnings, and the figures derived from *)
(* them.  Every public method that changes them may be called at any time; *)
(* a purchase calls three of them, as buy_agent does.                      *)
(***************************************************************************)
EXTENDS Runtime

CONSTANTS
    QuotePrecision,     \* 10^6 in the code
    Amounts             \* the amounts that are tried

ASSUME LedgerAssumption ==
    /\ QuotePrecision \in Nat \ {0}
    /\ Amounts \subseteq Words

VARIABLES
    owned,              \* total_agents_owned
    purchased,          \* total_agents_purchased
    unclaimed,          \* total_unclaimed_yield
    ever_purchased,     \* History.total_agents_ever_purchased
    fees_spent,         \* History.total_fees_spent
    yield_claimed,      \* History.total_yield_claimed
    referral_earnings,  \* History.total_referral_earnings_ever
    \* history, read by the properties only:
    earned              \* all yield credited since the last reset

agentsOfUser == <<owned, purchased, ever_purchased>>
yieldOfUser == <<unclaimed, yield_claimed, earned>>
ledgerVars ==
    <<now, calls, agentsOfUser, yieldOfUser, fees_spent, referral_earnings>>

LedgerInit ==
    /\ RuntimeInit
    /\ owned = 0 /\ purchased = 0 /\ unclaimed = 0
    /\ ever_purchased = 0 /\ fees_spent = 0
    /\ yield_claimed = 0 /\ referral_earnings = 0
    /\ earned = 0

-----------------------------------------------------------------------------
(* Yield *)

AddUnclaimedYield(a) ==
    /\ Call
    /\ a # 0
    /\ Fits(unclaimed + a)
    /\ unclaimed' = unclaimed + a
    /\ earned' = earned + a
    /\ UNCHANGED <<agentsOfUser, fees_spent, yield_claimed, referral_earnings>>

\* Mutated form: the claimed yield stays claimable.
ClaimYieldAgain(a) ==
    /\ Call
    /\ a # 0 /\ a <= unclaimed /\ Fits(yield_claimed + a)
    /\ yield_claimed' = yield_claimed + a
    /\ UNCHANGED <<agentsOfUser, unclaimed, earned, fees_spent, referral_earnings>>

ClaimYield(a) ==
    /\ Call
    /\ a # 0
    /\ a <= unclaimed
    /\ Fits(yield_claimed + a)
    /\ unclaimed' = unclaimed - a
    /\ yield_claimed' = yield_claimed + a
    /\ UNCHANGED <<agentsOfUser, earned, fees_spent, referral_earnings>>

\* History.add_yield_claimed: claimed without having been claimable.
AddYieldClaimed(a) ==
    /\ Call
    /\ a # 0
    /\ Fits(yield_claimed + a)
    /\ yield_claimed' = yield_claimed + a
    /\ earned' = earned + a
    /\ UNCHANGED <<agentsOfUser, unclaimed, fees_spent, referral_earnings>>

ResetYield ==
    /\ Call
    /\ unclaimed' = 0 /\ yield_claimed' = 0 /\ earned' = 0
    /\ UNCHANGED <<agentsOfUser, fees_spent, referral_earnings>>

-----------------------------------------------------------------------------
(* Agents, fees and referral earnings *)

AddAgent(v) ==
    /\ Call
    /\ v # 0
    /\ Fits(purchased + v)
    /\ Fits(ever_purchased + v)
    /\ owned' = owned + 1
    /\ purchased' = purchased + v
    /\ ever_purchased' = ever_purchased + v
    /\ UNCHANGED <<yieldOfUser, fees_spent, referral_earnings>>

\* The value is ignored: what was paid for the agent stays in the totals.
RemoveAgentOfUser ==
    /\ Call
    /\ owned > 0
    /\ owned' = owned - 1
    /\ UNCHANGED <<purchased, ever_purchased, yieldOfUser, fees_spent, referral_earnings>>

\* History.add_agents_purchased
AddAgentsPurchased(a) ==
    /\ Call
    /\ a # 0
    /\ Fits(ever_purchased + a)
    /\ ever_purchased' = ever_purchased + a
    /\ UNCHANGED <<owned, purchased, yieldOfUser, fees_spent, referral_earnings>>

\* The same in User and in History.
AddFeesSpent(a) ==
    /\ Call
    /\ a # 0
    /\ Fits(fees_spent + a)
    /\ fees_spent' = fees_spent + a
    /\ UNCHANGED <<agentsOfUser, yieldOfUser, referral_earnings>>

\* The same in User and in History.
AddReferralEarnings(a) ==
    /\ Call
    /\ a # 0
    /\ Fits(referral_earnings + a)
    /\ referral_earnings' = referral_earnings + a
    /\ UNCHANGED <<agentsOfUser, yieldOfUser, fees_spent>>

\* buy_agent: add_agent, then add_agents_purchased of the same price again,
\* then add_fees_spent of the tax, which fails when there is none.
Purchase(price, tax) ==
    /\ Call
    /\ price # 0
    /\ tax # 0
    /\ Fits(purchased + price)
    /\ Fits(ever_purchased + 2 * price)
    /\ Fits(fees_spent + tax)
    /\ owned' = owned + 1
    /\ purchased' = purchased + price
    /\ ever_purchased' = ever_purchased + 2 * price
    /\ fees_spent' = fees_spent + tax
    /\ UNCHANGED <<yieldOfUser, referral_earnings>>

ResetAgents ==
    /\ Call
    /\ owned' = 0 /\ purchased' = 0 /\ ever_purchased' = 0
    /\ UNCHANGED <<yieldOfUser, fees_spent, referral_earnings>>

ResetFees ==
    /\ Call
    /\ fees_spent' = 0
    /\ UNCHANGED <<agentsOfUser, yieldOfUser, referral_earnings>>

ResetReferralEarnings ==
    /\ Call
    /\ referral_earnings' = 0
    /\ UNCHANGED <<agentsOfUser, yieldOfUser, fees_spent>>

\* History.reset keeps what User counts beside it.
ResetHistory ==
    /\ Call
    /\ ever_purchased' = 0 /\ fees_spent' = 0
    /\ yield_claimed' = 0 /\ referral_earnings' = 0
    /\ earned' = unclaimed
    /\ UNCHANGED <<owned, purchased, unclaimed>>

LedgerNext ==
    \/ \E a \in Amounts :
        \/ AddUnclaimedYield(a)
        \/ ClaimYield(a)
        \/ AddYieldClaimed(a)
        \/ AddAgent(a)
        \/ AddAgentsPurchased(a)
        \/ AddFeesSpent(a)
        \/ AddReferralEarnings(a)
        \/ \E tax \in Amounts : Purchase(a, tax)
    \/ RemoveAgentOfUser
    \/ ResetYield
    \/ ResetAgents
    \/ ResetFees
    \/ ResetReferralEarnings
    \/ ResetHistory

LedgerSpec == LedgerInit /\ [][LedgerNext]_ledgerVars

-----------------------------------------------------------------------------
(* Figures.  Each is 0 as long as nothing was purchased, and an error when *)
(* a sum or a product does not fit.                                        *)

TotalReturn == yield_claimed + referral_earnings

RatioDefined(x, scale) == Fits(x * scale)
Ratio(x, scale) == IF ever_purchased = 0 THEN 0 ELSE (x * scale) \div ever_purchased

\* get_lifetime_yield_earned, an error when the sum does not fit
LifetimeYield == unclaimed + yield_claimed

YieldEfficiency == Ratio(yield_claimed, QuotePrecision)
ReferralEfficiency == Ratio(referral_earnings, QuotePrecision)
FeeRatio == Ratio(fees_spent, QuotePrecision)

Roi == Ratio(TotalReturn, 100)
RoiDefined == Fits(TotalReturn) /\ RatioDefined(TotalReturn, 100)

IsProfitable == TotalReturn > ever_purchased

\* Both terms are cast to i64, and the difference must fit too.
NetPnl == SignedWord(TotalReturn) - SignedWord(ever_purchased)
NetPnlDefined ==
    /\ Fits(TotalReturn)
    /\ NetPnl \in SignedWord((MaxU64 \div 2) + 1) .. MaxU64 \div 2

ProfitMargin ==
    IF ever_purchased = 0 \/ NetPnl <= 0 THEN 0
    ELSE (NetPnl * 100) \div ever_purchased
ProfitMarginDefined ==
    ever_purchased # 0 => NetPnlDefined /\ (NetPnl > 0 => Fits(NetPnl * 100))

-----------------------------------------------------------------------------
(* Properties *)

\* Every amount is a word.
LedgerTypeOK ==
    /\ now \in Nat
    /\ owned \in Nat
    /\ {purchased, unclaimed, ever_purchased, fees_spent, yield_claimed,
        referral_earnings} \subseteq Words
    /\ earned \in Nat
    /\ calls \in Nat

\* Yield is neither lost nor claimed twice: what was credited is what is
\* unclaimed and what was claimed (get_lifetime_yield_earned).
YieldConserved == LifetimeYield = earned

\* Both words are below half of the range, or neither is.
SameHalf ==
    (TotalReturn <= MaxU64 \div 2) = (ever_purchased <= MaxU64 \div 2)

\* get_net_pnl casts two words to signed ones and is_profitable compares
\* them as they are: they agree when both words are in the same half, that
\* is, up to amounts no u64 of the protocol is meant to reach.
ProfitSignsAgree ==
    /\ NetPnlDefined
    /\ SameHalf
    => (IsProfitable <=> NetPnl > 0)

\* The margin, through the signed profit, is the return on investment,
\* through the unsigned return, less the investment; also where both are in
\* the same half only, since a loss is a profit once one of them wraps.
MarginIsRoiLessInvestment ==
    /\ SameHalf
    /\ RoiDefined
    /\ ProfitMarginDefined
    /\ ProfitMargin > 0
    => Roi = ProfitMargin + 100

\* The two efficiencies, which are rounded separately and finer, add up to
\* the return on investment, to a unit of its precision.
RoiIsSumOfEfficiencies ==
    LET sum == YieldEfficiency + ReferralEfficiency IN
    /\ ever_purchased > 0
    /\ RoiDefined
    /\ RatioDefined(TotalReturn, QuotePrecision)
    => /\ QuotePrecision * Roi < 100 * (sum + 2)
       /\ QuotePrecision * (Roi + 1) > 100 * sum

\* Amounts and figures of a user stay consistent: yield is conserved, and
\* profit, margin, return and efficiencies, each computed on its own, agree.
LedgerConsistent ==
    /\ LedgerTypeOK
    /\ YieldConserved
    /\ ProfitSignsAgree
    /\ MarginIsRoiLessInvestment
    /\ RoiIsSumOfEfficiencies
=============================================================================
