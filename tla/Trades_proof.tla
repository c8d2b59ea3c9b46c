---------------------------- MODULE Trades_proof ----------------------------
(***************************************************************************)
(* Proofs about Trades for every order, price and width of the words.      *)
(***************************************************************************)
EXTENDS Trades, Division, FiniteSetTheorems, TLAPS

USE DEF multisig, stats

-----------------------------------------------------------------------------
(* Arithmetic *)

\* Integer division, by a positive number: the quotient is a number, and how
\* it compares with another.
LEMMA Quotient ==
    ASSUME NEW a \in Nat, NEW b \in Nat, b > 0, NEW c \in Nat
    PROVE  /\ a \div b \in Nat
           /\ b * (a \div b) <= a
           /\ a \div b >= c => a >= b * c
           /\ a >= b * c => a \div b >= c
  OBVIOUS

\* Half a word holds what is divided by two or more.
LEMMA HalfWord ==
    ASSUME NEW a \in Nat, NEW b \in Nat, b >= 2, a <= MaxU64
    PROVE  a \div b <= MaxU64 \div 2
  <1> DEFINE q == a \div b
  <1>1. q \in Nat /\ b * q <= a
    BY Quotient
  <1>2. 2 * q <= b * q
    BY <1>1
  <1>3. 2 * q <= MaxU64
    BY <1>1, <1>2, WidthAssumption
  <1> HIDE DEF q
  <1>4. q <= MaxU64 \div 2
    BY <1>1, <1>3, WidthAssumption
  <1> QED
    BY <1>4 DEF q

\* A distance is a number, the same in both directions.
LEMMA GapFacts ==
    ASSUME NEW a \in Int, NEW b \in Int
    PROVE  /\ Gap(a, b) \in Nat
           /\ a >= b => Gap(a, b) = a - b
           /\ a < b => Gap(a, b) = b - a
           /\ Gap(a, b) = 0 => a = b
  BY DEF Gap

-----------------------------------------------------------------------------
(* What open_trade accepts *)

\* The levels of an order are a hundredth of the entry price away from it.
LEMMA LevelFacts ==
    ASSUME NEW o \in Terms, o.entry_price > 0, LevelsApart(o)
    PROVE  /\ Gap(o.take_profit, o.entry_price) * 10000 >= o.entry_price * 100
           /\ Gap(o.stop_loss, o.entry_price) * 10000 >= o.entry_price * 100
  <1>1. /\ o.entry_price \in Nat
        /\ Gap(o.take_profit, o.entry_price) * 10000 \in Nat
        /\ Gap(o.stop_loss, o.entry_price) * 10000 \in Nat
    BY DEF Terms, Gap
  <1>2. /\ (Gap(o.take_profit, o.entry_price) * 10000) \div o.entry_price >= 100
        /\ (Gap(o.stop_loss, o.entry_price) * 10000) \div o.entry_price >= 100
    BY DEF LevelsApart, AtLeastBps, Bps, Scaled
  <1> QED
    BY <1>1, <1>2, Quotient

\* Only buys are accepted: the range of is_price_in_range is empty for a sell.
LEMMA OnlyBuys ==
    ASSUME NEW o \in Terms, NEW p \in Nat, Acceptable(o, p)
    PROVE  IsBuy(o)
  <1> DEFINE E == o.entry_price
             T == o.take_profit
             S == o.stop_loss
  <1>1. E \in Nat /\ T \in Nat /\ S \in Nat /\ E > 0
    BY DEF Terms, Acceptable, Valid
  <1>2. SUFFICES ASSUME ~IsBuy(o) PROVE FALSE
    OBVIOUS
  <1>3. T < E /\ S > E
    BY <1>2 DEF Acceptable, Valid
  <1>4. Gap(T, E) = E - T /\ Gap(S, E) = S - E
    BY <1>1, <1>3 DEF Gap
  <1>5. (E - T) * 10000 >= E * 100 /\ (S - E) * 10000 >= E * 100
    BY <1>1, <1>4, LevelFacts DEF Acceptable
  <1>6. p >= S - (S * 50) \div 10000 /\ p <= T + (T * 50) \div 10000
    BY DEF Acceptable, InRange
  <1> HIDE DEF E, T, S
  <1>7. 10000 * ((S * 50) \div 10000) <= S * 50 /\ (S * 50) \div 10000 \in Nat
    BY <1>1, Quotient
  <1>8. 10000 * ((T * 50) \div 10000) <= T * 50 /\ (T * 50) \div 10000 \in Nat
    BY <1>1, Quotient
  <1>9. 10000 * p >= 9950 * S /\ 10000 * p <= 10050 * T
    BY <1>1, <1>6, <1>7, <1>8
  <1> QED
    BY <1>1, <1>5, <1>9

\* What holds of the terms of an opened trade: its levels enclose the entry
\* price, and the loss at the stop loss does not round to nothing.
Sound(t) ==
    /\ t.trade_type = "Buy"
    /\ t.size \in Nat /\ t.entry_price \in Nat
    /\ t.take_profit \in Nat /\ t.stop_loss \in Nat
    /\ t.entry_price >= 2
    /\ t.stop_loss < t.entry_price
    /\ t.entry_price < t.take_profit
    /\ (t.entry_price - t.stop_loss) * t.size >= t.entry_price

\* open_trade accepts sound orders only.
LEMMA AcceptableIsSound ==
    ASSUME NEW o \in Terms, NEW p \in Nat, Acceptable(o, p)
    PROVE  Sound(o)
  <1>1. IsBuy(o)
    BY OnlyBuys
  <1>2. /\ o.size \in Nat /\ o.entry_price \in Nat
        /\ o.take_profit \in Nat /\ o.stop_loss \in Nat
        /\ o.stop_loss < o.entry_price /\ o.entry_price < o.take_profit
    BY <1>1 DEF Terms, Acceptable, Valid
  <1>3. o.stop_loss # 0 /\ Magnitude(o, o.stop_loss) # 0
    BY DEF Acceptable, RewardsRisk, PnlDefined
  <1>4. o.entry_price >= 2
    BY <1>2, <1>3
  <1>5. Amount(o, o.stop_loss) # 0
    <2>1. SUFFICES ASSUME Amount(o, o.stop_loss) = 0 PROVE FALSE
      OBVIOUS
    <2>2. 0 <= MaxU64 \div 2
      BY WidthAssumption
    <2>3. AsI64(Amount(o, o.stop_loss)) = 0
      BY <2>1, <2>2 DEF AsI64
    <2>4. Pnl(o, o.stop_loss) = 0
      BY <2>3 DEF Pnl
    <2> QED
      BY <1>3, <2>4 DEF Magnitude, Gap
  <1>6. Gap(o.stop_loss, o.entry_price) = o.entry_price - o.stop_loss
    BY <1>2 DEF Gap
  <1>7. (o.entry_price - o.stop_loss) * o.size \in Nat
    BY <1>2
  <1>8. ((o.entry_price - o.stop_loss) * o.size) \div o.entry_price >= 1
    <2>1. ((o.entry_price - o.stop_loss) * o.size) \div o.entry_price \in Nat
      BY <1>2, <1>4, <1>7, Quotient
    <2> QED
      BY <1>5, <1>6, <2>1 DEF Amount
  <1>9. (o.entry_price - o.stop_loss) * o.size >= o.entry_price * 1
    BY <1>2, <1>4, <1>7, <1>8, Quotient
  <1> QED
    BY <1>1, <1>2, <1>4, <1>9 DEF Sound, IsBuy

-----------------------------------------------------------------------------
(* The accounts *)

\* What the constants are.
LEMMA ConstantFacts ==
    /\ Cardinality(Members) \in Nat
    /\ MinSignatures \in Nat
    /\ MinSignatures >= 1
    /\ Cardinality(Members) >= MinSignatures
    /\ Zeroed \in Trade
    /\ \A k \in TradeNumbers : k \in Nat /\ k >= 1 /\ k <= MaxTrades
  <1>1. Cardinality(Members) \in Nat
    BY QuorumAssumption, FS_CardinalityType
  <1> QED
    BY <1>1, QuorumAssumption, TradeAssumption
       DEF TradeNumbers, Zeroed, Trade

\* A trade account is as it was created, or it holds an accepted order.
TradeInv ==
    \A k \in TradeNumbers :
        \/ trades[k] = Zeroed
        \/ k \in created /\ Sound(trades[k])

AccountInv ==
    /\ trade_count \in [MasterAgents -> 0 .. MaxTrades]
    /\ completed_trades \in [MasterAgents -> Nat]
    /\ total_pnl \in [MasterAgents -> 0 .. MaxU64]
    /\ created \in SUBSET TradeNumbers
    /\ trades \in [TradeNumbers -> Trade]
    /\ exits \in [TradeNumbers -> Nat]

\* The accounts are initialized as declared.
LEMMA AccountInit == Init => AccountInv /\ TradeInv
  BY ConstantFacts, WidthAssumption, TradeAssumption
  DEF Init, AccountInv, TradeInv

\* A trade opened with an accepted order is one, and sound.
LEMMA OpenedFacts ==
    ASSUME NEW o \in Orders, NEW ma \in MasterAgents, NEW p \in Prices,
           Acceptable(o, p)
    PROVE  Opened(o, ma) \in Trade /\ Sound(Opened(o, ma))
  <1>1. o \in Terms /\ p \in Nat
    BY OrderAssumption, PriceAssumption
  <1>2. Sound(o)
    BY <1>1, AcceptableIsSound
  <1> QED
    BY <1>1, <1>2 DEF Opened, Trade, Sound, Terms

\* The price magnitudes that are added to the statistics are numbers.
LEMMA MagnitudeIsNat ==
    ASSUME NEW t \in Trade, NEW p \in Nat, PnlDefined(t, p)
    PROVE  Magnitude(t, p) \in Nat
  <1>1. /\ t.entry_price \in Nat /\ t.entry_price > 0 /\ t.size \in Nat
        /\ Gap(p, t.entry_price) \in Nat
    BY DEF Trade, PnlDefined, Gap
  <1>2. Gap(p, t.entry_price) * t.size \in Nat
    BY <1>1
  <1>3. Amount(t, p) \in Nat
    BY <1>1, <1>2, Quotient DEF Amount
  <1>4. AsI64(Amount(t, p)) \in Int
    BY <1>3, WidthAssumption DEF AsI64
  <1>5. Pnl(t, p) \in Int
    BY <1>4 DEF Pnl
  <1> QED
    BY <1>5 DEF Magnitude, Gap

\* Opening a trade.
LEMMA OpenStep ==
    ASSUME AccountInv, TradeInv,
           NEW s \in Members, NEW ma \in MasterAgents, NEW o \in Orders,
           NEW p \in Prices, OpenTrade(s, ma, o, p)
    PROVE  AccountInv' /\ TradeInv'
  <1> DEFINE k == Number(ma)
  <1>1. /\ k \in TradeNumbers /\ k \notin created
        /\ created' = created \cup {k}
        /\ UNCHANGED <<stats, exits>>
    BY DEF OpenTrade, CreateTrade
  <1>2. \/ UNCHANGED <<trades, trade_count>>
        \/ /\ Acceptable(o, p)
           /\ trades' = [trades EXCEPT ![k] = Opened(o, ma)]
           /\ trade_count' = [trade_count EXCEPT ![ma] = @ + 1]
    BY DEF OpenTrade
  <1>3. trade_count' \in [MasterAgents -> 0 .. MaxTrades]
    BY <1>1, <1>2, ConstantFacts, TradeAssumption DEF AccountInv, Number
  <1> HIDE DEF k
  <1>4. trades' \in [TradeNumbers -> Trade]
    BY <1>1, <1>2, OpenedFacts DEF AccountInv
  <1>5. AccountInv'
    BY <1>1, <1>3, <1>4 DEF AccountInv
  <1>6. TradeInv'
    <2>1. ASSUME NEW j \in TradeNumbers
          PROVE  trades'[j] = Zeroed \/ (j \in created' /\ Sound(trades'[j]))
      BY <1>1, <1>2, OpenedFacts DEF TradeInv, AccountInv
    <2>2. ASSUME NEW t, NEW u, t = u, Sound(t) PROVE Sound(u)
      BY <2>2
    <2> QED
      BY <2>1 DEF TradeInv, Sound
  <1> QED
    BY <1>5, <1>6

\* Completing a trade: only one that holds an order, whose terms are kept.
LEMMA CompleteStep ==
    ASSUME AccountInv, TradeInv,
           NEW k \in TradeNumbers, NEW ma \in MasterAgents, NEW p \in Prices,
           NEW result \in {"Success", "Failed"}, Complete(k, ma, p, result)
    PROVE  AccountInv' /\ TradeInv' /\ trades[k] # Zeroed
  <1>1. /\ p \in Nat /\ PnlDefined(trades[k], p) /\ trades[k] \in Trade
        /\ trades[k] # Zeroed
    BY PriceAssumption DEF Complete, AccountInv, PnlDefined, Zeroed
  <1>2. k \in created /\ Sound(trades[k])
    BY <1>1 DEF TradeInv
  <1>3. Magnitude(trades[k], p) \in Nat
    BY <1>1, MagnitudeIsNat
  <1>4. total_pnl' \in [MasterAgents -> 0 .. MaxU64]
    <2>1. /\ total_pnl' = [total_pnl EXCEPT ![ma] = @ + Magnitude(trades[k], p)]
          /\ total_pnl'[ma] <= MaxU64
      BY DEF Complete
    <2> QED
      BY <2>1, <1>3, WidthAssumption DEF AccountInv
  <1>5. /\ trades' \in [TradeNumbers -> Trade]
        /\ Sound(trades'[k])
        /\ \A j \in TradeNumbers \ {k} : trades'[j] = trades[j]
    <2> DEFINE new == [trades[k] EXCEPT !.status = "Completed", !.result = result]
    <2>1. trades' = [trades EXCEPT ![k] = new]
      BY DEF Complete
    <2>2. new \in Trade
      BY <1>1 DEF Trade
    <2>3. Sound(new)
      BY <1>1, <1>2 DEF Sound, Trade
    <2> HIDE DEF new
    <2> QED
      BY <2>1, <2>2, <2>3 DEF AccountInv
  <1>6. AccountInv'
    BY <1>1, <1>4, <1>5 DEF Complete, AccountInv
  <1>7. TradeInv'
    BY <1>2, <1>5 DEF TradeInv, Complete, Sound
  <1> QED
    BY <1>1, <1>6, <1>7

\* A close or an update completes a trade, with one of the two results.
LEMMA CompletionFacts ==
    ASSUME NEW k \in TradeNumbers, NEW ma \in MasterAgents, NEW p \in Prices,
           CloseTrade(k, ma, p) \/ UpdateTrade(k, ma, p)
    PROVE  /\ trades[k].status = "Active"
           /\ \E result \in {"Success", "Failed"} : Complete(k, ma, p, result)
  BY DEF CloseTrade, UpdateTrade, ManualResult

\* Every step keeps the accounts well formed and the orders sound.
LEMMA AccountStep ==
    ASSUME AccountInv, TradeInv, [Next]_vars
    PROVE  AccountInv' /\ TradeInv'
  <1>1. CASE Tick
    BY <1>1 DEF Tick, AccountInv, TradeInv, Sound
  <1>2. ASSUME NEW s \in Members, SignOther(s) PROVE AccountInv' /\ TradeInv'
    BY <1>2 DEF SignOther, AccountInv, TradeInv, Sound
  <1>3. ASSUME NEW s \in Members, NEW ma \in MasterAgents, NEW o \in Orders,
               NEW p \in Prices, OpenTrade(s, ma, o, p)
        PROVE  AccountInv' /\ TradeInv'
    BY <1>3, OpenStep
  <1>4. ASSUME NEW ma \in MasterAgents, BuyAgent(ma)
        PROVE  AccountInv' /\ TradeInv'
    <2>1. trade_count' \in [MasterAgents -> 0 .. MaxTrades]
      BY <1>4, TradeAssumption DEF BuyAgent, AccountInv
    <2> QED
      BY <1>4, <2>1 DEF BuyAgent, AccountInv, TradeInv, Sound
  <1>5. ASSUME NEW k \in TradeNumbers, NEW ma \in MasterAgents, NEW p \in Prices,
               CloseTrade(k, ma, p) \/ UpdateTrade(k, ma, p)
        PROVE  AccountInv' /\ TradeInv'
    BY <1>5, CompletionFacts, CompleteStep
  <1>6. CASE UNCHANGED vars
    BY <1>6 DEF vars, AccountInv, TradeInv, Sound
  <1> QED
    BY <1>1, <1>2, <1>3, <1>4, <1>5, <1>6 DEF Next

\* The accounts are well formed, and what they hold was accepted.
LEMMA AccountInvariance == Spec => [](AccountInv /\ TradeInv)
  BY AccountInit, AccountStep, PTL DEF Spec

\* No sell is ever opened: the range that is_price_in_range allows is empty
\* for a sell whose levels are apart.
THEOREM NoSell == Spec => []NoSellTrade
  <1>1. TradeInv => NoSellTrade
    BY DEF TradeInv, NoSellTrade, Sound, Zeroed, IsBuy
  <1> QED
    BY <1>1, AccountInvariance, PTL

-----------------------------------------------------------------------------
(* The outcome of a trade *)

\* The profit or loss of a sound trade: the amount fits half a word, because
\* it was divided by an entry price of two or more, and at the stop loss or
\* below it is one at least.
LEMMA PnlFacts ==
    ASSUME NEW t, Sound(t), NEW p \in Nat, PnlDefined(t, p)
    PROVE  /\ Amount(t, p) \in Nat
           /\ p >= t.entry_price => Pnl(t, p) = Amount(t, p)
           /\ p < t.entry_price => Pnl(t, p) = 0 - Amount(t, p)
           /\ p <= t.stop_loss => Amount(t, p) >= 1
  <1> DEFINE E == t.entry_price
             L == t.stop_loss
             n == t.size
             g == Gap(p, t.entry_price)
             a == Amount(t, p)
  <1>1. /\ E \in Nat /\ E >= 2 /\ L \in Nat /\ L < E /\ n \in Nat
        /\ (E - L) * n >= E
    BY DEF Sound
  <1>2. g \in Nat /\ (p < E => g = E - p)
    BY <1>1 DEF Gap
  <1>3. g * n <= MaxU64
    BY DEF PnlDefined
  <1>4. a = (g * n) \div E
    BY DEF Amount
  <1>5. InFavour(t, p) <=> p >= E
    BY DEF InFavour, IsBuy, Sound
  <1>6. Pnl(t, p) = IF InFavour(t, p) THEN AsI64(a) ELSE 0 - AsI64(a)
    BY DEF Pnl
  <1> HIDE DEF E, L, n, g, a
  <1>7. g * n \in Nat
    BY <1>1, <1>2
  <1>8. a \in Nat /\ a <= MaxU64 \div 2
    <2>1. E > 0
      BY <1>1
    <2>2. (g * n) \div E \in Nat
      BY <1>1, <1>7, <2>1, Quotient
    <2>3. (g * n) \div E <= MaxU64 \div 2
      BY <1>1, <1>3, <1>7, HalfWord
    <2> QED
      BY <1>4, <2>2, <2>3
  <1>9. AsI64(a) = a
    BY <1>8 DEF AsI64
  <1>10. ASSUME p <= L PROVE a >= 1
    <2>1. g = E - p /\ g >= E - L
      BY <1>1, <1>2, <1>10
    <2>2. g * n >= (E - L) * n
      BY <1>1, <1>2, <2>1
    <2>3. g * n >= E * 1
      BY <1>1, <1>7, <2>2
    <2> QED
      BY <1>1, <1>4, <1>7, <2>3, Quotient
  <1> QED
    BY <1>1, <1>5, <1>6, <1>8, <1>9, <1>10 DEF a, E, L

\* A trade whose profit or loss is defined holds an accepted order.
LEMMA DefinedIsSound ==
    ASSUME TradeInv, NEW k \in TradeNumbers, NEW p, PnlDefined(trades[k], p)
    PROVE  Sound(trades[k])
  BY DEF TradeInv, PnlDefined, Zeroed

\* A close and an update give a trade whose level is hit the same result.
THEOREM Outcomes == Spec => []OutcomeAgrees
  <1>1. ASSUME TradeInv, NEW k \in TradeNumbers, NEW p \in Prices,
               PnlDefined(trades[k], p)
        PROVE  /\ HitTakeProfit(trades[k], p) => ManualResult(trades[k], p) = "Success"
               /\ HitStopLoss(trades[k], p) => ManualResult(trades[k], p) = "Failed"
    <2> DEFINE t == trades[k]
    <2>1. p \in Nat /\ Sound(t)
      BY <1>1, PriceAssumption, DefinedIsSound
    <2>2. /\ Amount(t, p) \in Nat
          /\ p >= t.entry_price => Pnl(t, p) = Amount(t, p)
          /\ p < t.entry_price => Pnl(t, p) = 0 - Amount(t, p)
          /\ p <= t.stop_loss => Amount(t, p) >= 1
      BY <1>1, <2>1, PnlFacts
    <2>3. /\ t.entry_price \in Nat /\ t.stop_loss \in Nat /\ t.take_profit \in Nat
          /\ t.stop_loss < t.entry_price /\ t.entry_price < t.take_profit
          /\ IsBuy(t)
      BY <2>1 DEF Sound, IsBuy
    <2> HIDE DEF t
    <2>4. HitTakeProfit(t, p) => Pnl(t, p) >= 0
      BY <2>1, <2>2, <2>3 DEF HitTakeProfit
    <2>5. HitStopLoss(t, p) => ~(Pnl(t, p) >= 0)
      BY <2>1, <2>2, <2>3 DEF HitStopLoss
    <2> QED
      BY <2>4, <2>5 DEF ManualResult, t
  <1>2. TradeInv => OutcomeAgrees
    BY <1>1 DEF OutcomeAgrees
  <1> QED
    BY <1>2, AccountInvariance, PTL

\* The cast to a signed word keeps the sign of every profit and loss.
THEOREM SignsKept == Spec => []PnlKeepsSign
  <1>1. ASSUME TradeInv, NEW k \in TradeNumbers, NEW p \in Prices,
               PnlDefined(trades[k], p)
        PROVE  /\ Pnl(trades[k], p) < 0 => ~InFavour(trades[k], p)
               /\ Pnl(trades[k], p) > 0 => InFavour(trades[k], p)
    <2> DEFINE t == trades[k]
    <2>1. p \in Nat /\ Sound(t)
      BY <1>1, PriceAssumption, DefinedIsSound
    <2>2. /\ Amount(t, p) \in Nat
          /\ p >= t.entry_price => Pnl(t, p) = Amount(t, p)
          /\ p < t.entry_price => Pnl(t, p) = 0 - Amount(t, p)
      BY <1>1, <2>1, PnlFacts
    <2>3. t.entry_price \in Nat /\ (InFavour(t, p) <=> p >= t.entry_price)
      BY <2>1 DEF Sound, IsBuy, InFavour
    <2> HIDE DEF t
    <2>4. /\ Pnl(t, p) < 0 => ~InFavour(t, p)
          /\ Pnl(t, p) > 0 => InFavour(t, p)
      BY <2>1, <2>2, <2>3
    <2> QED
      BY <2>4 DEF t
  <1>2. TradeInv => PnlKeepsSign
    BY <1>1 DEF PnlKeepsSign
  <1> QED
    BY <1>2, AccountInvariance, PTL

-----------------------------------------------------------------------------
(* The life of a trade *)

\* A trade account with its own status and result is itself.
LEMMA SameTrade ==
    ASSUME NEW t \in Trade
    PROVE  /\ t = [t EXCEPT !.status = t.status, !.result = t.result]
           /\ t.status \in {"Active", "Completed"}
           /\ t.result \in {"Pending", "Success", "Failed"}
  BY DEF Trade

\* What a step does to one trade.
LEMMA TradeStep ==
    ASSUME AccountInv, TradeInv, NEW k \in TradeNumbers, [Next]_vars
    PROVE  \/ trades'[k] = trades[k]
           \/ trades[k] = Zeroed
           \/ /\ trades[k].status = "Active"
              /\ \E r \in {"Success", "Failed"} :
                     trades'[k] = [trades[k] EXCEPT !.status = "Completed", !.result = r]
  <1>1. CASE UNCHANGED trades
    BY <1>1
  <1>2. ASSUME NEW s \in Members, NEW ma \in MasterAgents, NEW o \in Orders,
               NEW p \in Prices, OpenTrade(s, ma, o, p)
        PROVE  trades'[k] = trades[k] \/ trades[k] = Zeroed
    <2>1. /\ Number(ma) \notin created
          /\ \/ UNCHANGED trades
             \/ trades' = [trades EXCEPT ![Number(ma)] = Opened(o, ma)]
      BY <1>2 DEF OpenTrade, CreateTrade
    <2> QED
      BY <2>1 DEF AccountInv, TradeInv
  <1>3. ASSUME NEW j \in TradeNumbers, NEW ma \in MasterAgents, NEW p \in Prices,
               CloseTrade(j, ma, p) \/ UpdateTrade(j, ma, p)
        PROVE  \/ trades'[k] = trades[k]
               \/ /\ trades[k].status = "Active"
                  /\ \E r \in {"Success", "Failed"} :
                         trades'[k] = [trades[k] EXCEPT !.status = "Completed",
                                                        !.result = r]
    <2>1. PICK r \in {"Success", "Failed"} : Complete(j, ma, p, r)
      BY <1>3, CompletionFacts
    <2>2. trades[j].status = "Active"
      BY <1>3, CompletionFacts
    <2>3. trades' = [trades EXCEPT ![j] =
                        [trades[j] EXCEPT !.status = "Completed", !.result = r]]
      BY <2>1 DEF Complete
    <2>4. CASE j = k
      <3>1. trades'[k] = [trades[k] EXCEPT !.status = "Completed", !.result = r]
        BY <2>3, <2>4, Zenon DEF AccountInv
      <3> QED
        BY <2>2, <2>4, <3>1, Zenon
    <2>5. CASE j # k
      BY <2>3, <2>5 DEF AccountInv
    <2> QED
      BY <2>4, <2>5
  <1>4. CASE Tick \/ (\E s \in Members : SignOther(s))
             \/ (\E ma \in MasterAgents : BuyAgent(ma)) \/ UNCHANGED vars
    BY <1>4 DEF Tick, SignOther, BuyAgent, vars
  <1> QED
    BY <1>2, <1>3, <1>4, Zenon DEF Next

\* A trade keeps its terms and its master agent, and is completed once.
THEOREM TradesAreFinal == Spec => TradeIsFinal
  <1>1. ASSUME AccountInv, TradeInv, [Next]_vars, NEW k \in TradeNumbers
        PROVE  /\ trades[k].master_agent # NoMaster =>
                    \E st \in {"Active", "Completed"},
                       r \in {"Pending", "Success", "Failed"} :
                        trades'[k] = [trades[k] EXCEPT !.status = st, !.result = r]
               /\ trades[k].status = "Completed" => trades'[k] = trades[k]
    <2>1. CASE trades'[k] = trades[k]
      <3>1. trades[k] \in Trade
        BY <1>1 DEF AccountInv
      <3> QED
        BY <2>1, <3>1, SameTrade, Zenon
    <2>2. CASE trades[k] = Zeroed
      BY <2>2 DEF Zeroed
    <2>3. ASSUME trades[k].status = "Active",
                 NEW r \in {"Success", "Failed"},
                 trades'[k] = [trades[k] EXCEPT !.status = "Completed", !.result = r]
          PROVE  /\ \E st \in {"Active", "Completed"},
                       q \in {"Pending", "Success", "Failed"} :
                        trades'[k] = [trades[k] EXCEPT !.status = st, !.result = q]
                 /\ trades[k].status # "Completed"
      BY <2>3, Zenon
    <2> QED
      BY <1>1, <2>1, <2>2, <2>3, TradeStep, Zenon
  <1>2. AccountInv /\ TradeInv /\ [Next]_vars =>
            [\A k \in TradeNumbers :
               /\ trades[k].master_agent # NoMaster =>
                    \E st \in {"Active", "Completed"},
                       r \in {"Pending", "Success", "Failed"} :
                        trades'[k] = [trades[k] EXCEPT !.status = st, !.result = r]
               /\ trades[k].status = "Completed" => trades'[k] = trades[k]]_vars
    BY <1>1, Zenon
  <1> QED
    BY <1>2, AccountInvariance, PTL DEF Spec, TradeIsFinal

-----------------------------------------------------------------------------
(* No trade is opened by two signers *)

\* A collection for a trade was started by creating the trade's account, and
\* no trade account has been written.
UnopenedInv ==
    /\ \A k \in TradeNumbers, ma \in MasterAgents, o \in Orders :
           instr = Open(k, ma, o) => k \in created
    /\ \A k \in TradeNumbers : trades[k] = Zeroed

\* A signature under a quorum of two or more that starts a collection does
\* not complete it.
LEMMA SignFacts ==
    ASSUME MinSignatures > 1, NEW s, NEW i, NEW n,
           NEW left \in 0 .. MinSignatures, MS!SignMultisig(s, i, n, left)
    PROVE  /\ instr' = i
           /\ i # instr => left > 0
  <1>1. Cardinality(Members) > 1
    BY ConstantFacts
  <1>2. MS!Cardinality(Members) = Cardinality(Members)
    BY DEF MS!Cardinality, Cardinality
  <1>3. ~MS!SingleSigner(s, i, n, left)
    <2>1. ~(Cardinality(Members) <= 1)
      BY <1>1, ConstantFacts
    <2> QED
      BY <1>2, <2>1, Zenon DEF MS!SingleSigner
  <1>4. CASE MS!NewInstruction(s, i, n, left)
    BY <1>4, ConstantFacts DEF MS!NewInstruction
  <1>5. CASE MS!AddSignature(s, i, n, left)
    BY <1>5 DEF MS!AddSignature
  <1> QED
    BY <1>3, <1>4, <1>5 DEF MS!SignMultisig

\* No step writes a trade account: the first signer creates it, the second
\* cannot create it again.
LEMMA UnopenedStep ==
    ASSUME MinSignatures > 1, UnopenedInv, AccountInv, TradeInv, [Next]_vars
    PROVE  UnopenedInv'
  <1>1. ASSUME NEW s \in Members, NEW ma \in MasterAgents, NEW o \in Orders,
               NEW p \in Prices, OpenTrade(s, ma, o, p)
        PROVE  UnopenedInv'
    <2> DEFINE k == Number(ma)
    <2>1. /\ k \in TradeNumbers /\ k \notin created
          /\ created' = created \cup {k}
      BY <1>1 DEF OpenTrade, CreateTrade
    <2>2. PICK left \in 0 .. MinSignatures :
              /\ MS!SignMultisig(s, Open(k, ma, o), now, left)
              /\ left > 0 => UNCHANGED trades
      BY <1>1 DEF OpenTrade
    <2>3. Open(k, ma, o) # instr
      BY <2>1 DEF UnopenedInv
    <2>4. instr' = Open(k, ma, o) /\ left > 0
      BY <2>2, <2>3, SignFacts
    <2> HIDE DEF k
    <2> QED
      BY <2>1, <2>2, <2>4 DEF UnopenedInv, Open
  <1>2. ASSUME NEW s \in Members, SignOther(s) PROVE UnopenedInv'
    <2>1. instr' = Other
      BY <1>2, SignFacts DEF SignOther
    <2>2. \A k \in TradeNumbers : k # 0
      BY ConstantFacts
    <2> QED
      BY <1>2, <2>1, <2>2 DEF SignOther, UnopenedInv, Open, Other
  <1>3. ASSUME NEW k \in TradeNumbers, NEW ma \in MasterAgents, NEW p \in Prices,
               CloseTrade(k, ma, p) \/ UpdateTrade(k, ma, p)
        PROVE  FALSE
    BY <1>3, CompletionFacts, CompleteStep DEF UnopenedInv
  <1>4. CASE Tick
    BY <1>4 DEF Tick, MS!Tick, MS!account, UnopenedInv
  <1>5. CASE UNCHANGED vars \/ \E ma \in MasterAgents : BuyAgent(ma)
    BY <1>5 DEF vars, BuyAgent, UnopenedInv
  <1> QED
    BY <1>1, <1>2, <1>3, <1>4, <1>5 DEF Next

\* Under a quorum of two or more no trade is ever opened.
THEOREM NothingOpened == Spec => []NoTradeUnderQuorum
  <1>1. Init => UnopenedInv
    BY InstrAssumption DEF Init, MS!Init, UnopenedInv, Instrs
  <1>2. (MinSignatures > 1 => UnopenedInv) => NoTradeUnderQuorum
    BY DEF UnopenedInv, NoTradeUnderQuorum
  <1>3. AccountInv /\ TradeInv /\ (MinSignatures > 1 => UnopenedInv) /\ [Next]_vars
            => (MinSignatures > 1 => UnopenedInv)'
    BY UnopenedStep
  <1> QED
    BY <1>1, <1>2, <1>3, AccountInvariance, PTL DEF Spec

-----------------------------------------------------------------------------
(* What is proved of Multisig, for the multisig account of Trades *)

MP == INSTANCE Multisig_proof

\* The assumptions of Multisig are those of Trades.
LEMMA MultisigAssumptions ==
    /\ MP!QuorumAssumption /\ MP!InstrAssumption /\ MP!NonceAssumption
    /\ MP!LimitAssumption /\ MP!ClockAssumption
  <1>1. Nonces \subseteq Nat
    BY ClockAssumption DEF Nonces
  <1> QED
    BY <1>1, QuorumAssumption, InstrAssumption, LimitAssumption, ClockAssumption
    DEF MP!QuorumAssumption, MP!InstrAssumption, MP!NonceAssumption,
        MP!LimitAssumption, MP!ClockAssumption, MP!IsFiniteSet, MP!Cardinality,
        IsFiniteSet, Cardinality

\* The instance the proofs are about is the instance Trades calls.
LEMMA SameSignature ==
    ASSUME NEW s, NEW i, NEW n, NEW left, MS!SignMultisig(s, i, n, left)
    PROVE  MP!SignMultisig(s, i, n, left)
  <1>1. MS!Cardinality(Members) = MP!Cardinality(Members)
    BY DEF MS!Cardinality, MP!Cardinality
  <1>2. /\ MS!Deadline = MP!Deadline /\ MS!CountAfter = MP!CountAfter
        /\ MS!RateLimited <=> MP!RateLimited
        /\ MS!LiveSigned = MP!LiveSigned /\ MS!LiveCount = MP!LiveCount
    BY DEF MS!Deadline, MP!Deadline, MS!CountAfter, MP!CountAfter,
       MS!RateLimited, MP!RateLimited, MS!LiveSigned, MP!LiveSigned,
       MS!LiveCount, MP!LiveCount, MS!Expired, MP!Expired
  <1>3. MS!FreshNonce(n) <=> MP!FreshNonce(n)
    BY DEF MS!FreshNonce, MP!FreshNonce
  <1>4. MS!SingleSigner(s, i, n, left) => MP!SingleSigner(s, i, n, left)
    BY <1>1, <1>2, Zenon DEF MS!SingleSigner, MP!SingleSigner
  <1>5. MS!NewInstruction(s, i, n, left) => MP!NewInstruction(s, i, n, left)
    BY <1>1, Zenon DEF MS!NewInstruction, MP!NewInstruction
  <1>6. MS!AddSignature(s, i, n, left) => MP!AddSignature(s, i, n, left)
    BY <1>1, <1>2, Zenon DEF MS!AddSignature, MP!AddSignature
  <1> QED
    BY <1>2, <1>3, <1>4, <1>5, <1>6 DEF MS!SignMultisig, MP!SignMultisig

\* A step of Trades is a step of the multisig account.
LEMMA StepIsMultisig ==
    ASSUME AccountInv, now \in Epoch .. MaxTime, [Next]_vars
    PROVE  [MP!Next]_MP!vars /\ (now \in Epoch .. MaxTime)'
  <1>1. ASSUME NEW s \in Members, NEW i \in Instrs,
               NEW left \in 0 .. MinSignatures, MS!SignMultisig(s, i, now, left)
        PROVE  MP!Next /\ now' = now
    BY <1>1, SameSignature DEF MP!Next, Nonces, MS!SignMultisig
  <1>2. ASSUME NEW s \in Members, SignOther(s) PROVE MP!Next /\ now' = now
    BY <1>1, <1>2 DEF SignOther, Instrs
  <1>3. ASSUME NEW s \in Members, NEW ma \in MasterAgents, NEW o \in Orders,
               NEW p \in Prices, OpenTrade(s, ma, o, p)
        PROVE  MP!Next /\ now' = now
    <2>1. Open(Number(ma), ma, o) \in Instrs
      BY <1>3 DEF OpenTrade, Instrs
    <2> QED
      BY <1>1, <1>3, <2>1 DEF OpenTrade
  <1>4. CASE UNCHANGED <<now, multisig>>
    BY <1>4 DEF MP!vars, MP!account, MP!history
  <1>5. ASSUME NEW k \in TradeNumbers, NEW ma \in MasterAgents, NEW p \in Prices,
               CloseTrade(k, ma, p) \/ UpdateTrade(k, ma, p)
        PROVE  UNCHANGED <<now, multisig>>
    BY <1>5, CompletionFacts DEF Complete
  <1>6. CASE Tick
    <2>1. MP!Tick
      BY <1>6 DEF Tick, MS!Tick, MP!Tick, MS!account, MP!account, MS!history, MP!history
    <2> QED
      BY <1>6, <2>1, ClockAssumption DEF Tick, MS!Tick, MP!Next
  <1>7. CASE UNCHANGED vars \/ \E ma \in MasterAgents : BuyAgent(ma)
    BY <1>4, <1>7 DEF vars, BuyAgent
  <1> QED
    BY <1>2, <1>3, <1>4, <1>5, <1>6, <1>7 DEF Next

\* The inductive invariant of Multisig holds of the account here.
LEMMA MultisigInvariance == Spec => [](MP!IInv /\ AccountInv)
  <1>1. Init => MP!Init /\ now \in Epoch .. MaxTime
    BY ClockAssumption DEF Init, MS!Init, MP!Init
  <1>2. Spec => MP!Spec
    BY <1>1, StepIsMultisig, AccountInvariance, PTL DEF Spec, MP!Spec
  <1> QED
    BY <1>2, MultisigAssumptions, MP!Invariance, AccountInvariance, PTL

\* The types of the accounts.
THEOREM TypeCorrect == Spec => []TypeOK
  <1>1. MP!IInv => MS!TypeOK
    BY DEF MP!IInv, MP!ApiInv, MP!TypeOK, MS!TypeOK
  <1>2. MP!IInv /\ AccountInv => TypeOK
    BY <1>1 DEF TypeOK, AccountInv
  <1> QED
    BY <1>2, MultisigInvariance, PTL
-----------------------------------------------------------------------------
(* Sums over finite sets                                                   *)
(*                                                                         *)
(* A sum is the value of a recursive function on the subsets of its set,   *)
(* which takes out one element at a time.  The facts about it are proved   *)
(* by taking a smallest set they fail of.                                  *)

\* Among sets of elements of a finite set there is a smallest one.
LEMMA SmallestSet ==
    ASSUME NEW S, IsFiniteSet(S), NEW Bad \in SUBSET (SUBSET S), Bad # {}
    PROVE  \E T \in Bad : \A U \in Bad : Cardinality(T) <= Cardinality(U)
  <1> DEFINE Sizes == {Cardinality(T) : T \in Bad}
  <1>1. ASSUME NEW T \in Bad PROVE Cardinality(T) \in Nat
    <2>1. IsFiniteSet(T)
      BY FS_Subset
    <2> QED
      BY <2>1, FS_CardinalityType
  <1>2. Sizes \in SUBSET Nat /\ Sizes # {}
    BY <1>1
  <1>3. \E n \in Sizes : \A m \in Sizes : n <= m
    <2> HIDE DEF Sizes
    <2> QED
      BY <1>2, LeastNumber
  <1> QED
    BY <1>3

\* The size of a set is a number, one less without one of its elements.
LEMMA SizeIs ==
    ASSUME NEW S, IsFiniteSet(S), NEW T \in SUBSET S
    PROVE  /\ Cardinality(T) \in Nat
           /\ Cardinality(T) = 0 <=> T = {}
           /\ \A x \in T : T \ {x} \in SUBSET S /\ Cardinality(T \ {x}) = Cardinality(T) - 1
  <1>1. IsFiniteSet(T)
    BY FS_Subset
  <1>2. Cardinality(T) \in Nat /\ (Cardinality(T) = 0 <=> T = {})
    BY <1>1, FS_CardinalityType, FS_EmptySet
  <1>3. ASSUME NEW x \in T
        PROVE  T \ {x} \in SUBSET S /\ Cardinality(T \ {x}) = Cardinality(T) - 1
    BY <1>1, FS_RemoveElement
  <1> QED
    BY <1>2, <1>3

\* The element that is taken out, and what the recursive function is at s.
Pick(s) == CHOOSE x \in s : TRUE
SumStep(g, f, s) == IF s = {} THEN 0 ELSE f[Pick(s)] + g[s \ {Pick(s)}]
Sums(g, f, S) == g = [s \in SUBSET S |-> SumStep(g, f, s)]

\* A set that is not empty has an element to take out.
LEMMA PickIs == ASSUME NEW s, s # {} PROVE Pick(s) \in s
  BY DEF Pick

\* The sum is the value of the function that is chosen.
LEMMA TotalIs ==
    ASSUME NEW f, NEW S
    PROVE  Total(f, S) = (CHOOSE g : Sums(g, f, S))[S]
  BY DEF Total, FS!MapThenSumSet, FS!MapThenFoldSet, Sums, SumStep, Pick

\* There is such a function: it is built for larger and larger subsets.
LEMMA SumsExist ==
    ASSUME NEW S, IsFiniteSet(S), NEW f \in [S -> Nat]
    PROVE  \E g \in [SUBSET S -> Nat] : Sums(g, f, S)
  <1> DEFINE UpTo(g, n) == \A s \in SUBSET S : Cardinality(s) <= n => g[s] = SumStep(g, f, s)
             Good(n) == \E g \in [SUBSET S -> Nat] : UpTo(g, n)
             Bad == {n \in Nat : ~Good(n)}
  <1>1. Good(0)
    <2> DEFINE g == [s \in SUBSET S |-> 0]
    <2>1. ASSUME NEW s \in SUBSET S, Cardinality(s) <= 0 PROVE g[s] = SumStep(g, f, s)
      <3>1. s = {}
        BY <2>1, SizeIs
      <3> QED
        BY <3>1 DEF SumStep
    <2>2. g \in [SUBSET S -> Nat]
      OBVIOUS
    <2> HIDE DEF g
    <2> QED
      BY <2>1, <2>2
  <1>2. ASSUME NEW n \in Nat, Good(n) PROVE Good(n + 1)
    <2>1. PICK g \in [SUBSET S -> Nat] : UpTo(g, n)
      BY <1>2
    <2> DEFINE h == [s \in SUBSET S |-> IF Cardinality(s) <= n THEN g[s] ELSE SumStep(g, f, s)]
    <2>2. ASSUME NEW s \in SUBSET S, s # {}
          PROVE  /\ Pick(s) \in S /\ s \ {Pick(s)} \in SUBSET S
                 /\ Cardinality(s \ {Pick(s)}) = Cardinality(s) - 1
                 /\ Cardinality(s) \in Nat
      <3>1. Pick(s) \in s
        BY <2>2, PickIs
      <3> QED
        BY <3>1, SizeIs
    <2>3. ASSUME NEW s \in SUBSET S PROVE SumStep(g, f, s) \in Nat
      <3>1. CASE s = {}
        BY <3>1 DEF SumStep
      <3>2. CASE s # {}
        <4>1. f[Pick(s)] \in Nat /\ g[s \ {Pick(s)}] \in Nat
          BY <2>2, <3>2
        <4> QED
          BY <3>2, <4>1 DEF SumStep
      <3> QED
        BY <3>1, <3>2
    <2>4. h \in [SUBSET S -> Nat]
      BY <2>3
    <2>5. ASSUME NEW s \in SUBSET S, Cardinality(s) <= n + 1
          PROVE  h[s] = SumStep(h, f, s)
      <3>1. h[s] = SumStep(g, f, s)
        BY <2>1
      <3>2. SumStep(h, f, s) = SumStep(g, f, s)
        <4>1. CASE s = {}
          BY <4>1 DEF SumStep
        <4>2. CASE s # {}
          <5>1. Cardinality(s \ {Pick(s)}) <= n /\ s \ {Pick(s)} \in SUBSET S
            BY <2>2, <2>5, <4>2
          <5>2. h[s \ {Pick(s)}] = g[s \ {Pick(s)}]
            BY <5>1
          <5> HIDE DEF h
          <5> QED
            BY <5>2 DEF SumStep
        <4> QED
          BY <4>1, <4>2
      <3> QED
        BY <3>1, <3>2
    <2> HIDE DEF h
    <2> QED
      BY <2>4, <2>5
  <1> HIDE DEF Good
  <1>3. \A n \in Nat : Good(n)
    <2> SUFFICES ASSUME NEW x \in Bad PROVE FALSE
      OBVIOUS
    <2>1. PICK m \in Bad : \A n \in Bad : m <= n
      <3>1. Bad \in SUBSET Nat
        OBVIOUS
      <3> HIDE DEF Bad
      <3> QED
        BY <3>1, LeastNumber
    <2>2. m \in Nat /\ ~Good(m)
      BY <2>1
    <2>3. m # 0
      BY <1>1, <2>2
    <2>4. m - 1 \in Nat /\ ~(m <= m - 1)
      BY <2>2, <2>3
    <2>5. Good(m - 1)
      BY <2>1, <2>4
    <2>6. Good((m - 1) + 1)
      BY <1>2, <2>4, <2>5
    <2> QED
      BY <2>2, <2>6
  <1>4. Cardinality(S) \in Nat
    BY FS_CardinalityType
  <1>5. PICK g \in [SUBSET S -> Nat] : UpTo(g, Cardinality(S))
    BY <1>3, <1>4 DEF Good
  <1>6. ASSUME NEW s \in SUBSET S PROVE g[s] = SumStep(g, f, s)
    <2>1. Cardinality(s) <= Cardinality(S)
      BY FS_Subset
    <2> QED
      BY <1>5, <2>1
  <1>7. g = [s \in SUBSET S |-> SumStep(g, f, s)]
    BY <1>6
  <1> QED
    BY <1>7 DEF Sums

\* What such a function is at the elements below its set.
LEMMA SumsAre ==
    ASSUME NEW g, NEW f, NEW S, Sums(g, f, S)
    PROVE  /\ g[{}] = 0
           /\ \A s \in SUBSET S : s # {} =>
                Pick(s) \in s /\ g[s] = f[Pick(s)] + g[s \ {Pick(s)}]
  <1>1. ASSUME NEW s \in SUBSET S PROVE g[s] = SumStep(g, f, s)
    BY DEF Sums
  <1>2. ASSUME NEW s \in SUBSET S, s # {} PROVE Pick(s) \in s
    BY <1>2, PickIs
  <1>3. {} \in SUBSET S
    OBVIOUS
  <1> QED
    BY <1>1, <1>2, <1>3 DEF SumStep

\* Where two summands agree, so do the sums.
LEMMA SumsAgree ==
    ASSUME NEW S, IsFiniteSet(S), NEW R, NEW f, NEW e, NEW g, NEW h,
           Sums(g, f, S), Sums(h, e, R),
           NEW T \in SUBSET S, T \in SUBSET R, \A x \in T : f[x] = e[x]
    PROVE  g[T] = h[T]
  <1> DEFINE Bad == {U \in SUBSET T : g[U] # h[U]}
  <1> SUFFICES ASSUME Bad # {} PROVE FALSE
    OBVIOUS
  <1>1. PICK U \in Bad : \A V \in Bad : Cardinality(U) <= Cardinality(V)
    <2>1. Bad \in SUBSET (SUBSET S)
      OBVIOUS
    <2> HIDE DEF Bad
    <2> QED
      BY <2>1, SmallestSet
  <1>2. U \in SUBSET S /\ U \in SUBSET R /\ U \in SUBSET T /\ g[U] # h[U]
    OBVIOUS
  <1>3. U # {}
    BY <1>2, SumsAre
  <1> DEFINE x == Pick(U)
             V == U \ {x}
  <1>4. /\ x \in U /\ g[U] = f[x] + g[V] /\ h[U] = e[x] + h[V]
    BY <1>2, <1>3, SumsAre
  <1>5. V \in SUBSET T /\ Cardinality(U) \in Nat /\ Cardinality(V) = Cardinality(U) - 1
    BY <1>2, <1>4, SizeIs
  <1>6. V \notin Bad
    <2> SUFFICES ASSUME V \in Bad PROVE FALSE
      OBVIOUS
    <2>1. Cardinality(U) <= Cardinality(V)
      BY <1>1
    <2> HIDE DEF V
    <2> QED
      BY <1>5, <2>1
  <1>7. g[V] = h[V]
    BY <1>5, <1>6
  <1>8. f[x] = e[x]
    BY <1>2, <1>4
  <1> HIDE DEF V, x
  <1> QED
    BY <1>2, <1>4, <1>7, <1>8

\* The sum is the value of a function of numbers.
LEMMA TotalIsSum ==
    ASSUME NEW S, IsFiniteSet(S), NEW f \in [S -> Nat]
    PROVE  \E g \in [SUBSET S -> Nat] : Sums(g, f, S) /\ Total(f, S) = g[S]
  <1>1. PICK g \in [SUBSET S -> Nat] : Sums(g, f, S)
    BY SumsExist
  <1> DEFINE h == CHOOSE i : Sums(i, f, S)
  <1>2. Sums(h, f, S)
    BY <1>1
  <1>3. Total(f, S) = h[S]
    BY TotalIs
  <1> HIDE DEF h
  <1>4. h[S] = g[S]
    BY <1>1, <1>2, SumsAgree
  <1> QED
    BY <1>1, <1>3, <1>4

\* Whichever element is taken out, the rest is the same.
AnyOrder(g, f, S) == \A T \in SUBSET S : \A y \in T : g[T] = f[y] + g[T \ {y}]

LEMMA SumsRemove ==
    ASSUME NEW S, IsFiniteSet(S), NEW f \in [S -> Nat],
           NEW g \in [SUBSET S -> Nat], Sums(g, f, S)
    PROVE  AnyOrder(g, f, S)
  <1> DEFINE Fails(U) == \E z \in U : g[U] # f[z] + g[U \ {z}]
             Bad == {U \in SUBSET S : Fails(U)}
  <1> SUFFICES ASSUME Bad # {} PROVE FALSE
    BY DEF AnyOrder
  <1>1. PICK U \in Bad : \A V \in Bad : Cardinality(U) <= Cardinality(V)
    <2>1. Bad \in SUBSET (SUBSET S)
      OBVIOUS
    <2> HIDE DEF Bad
    <2> QED
      BY <2>1, SmallestSet
  <1>2. PICK z \in U : g[U] # f[z] + g[U \ {z}]
    OBVIOUS
  <1>3. U \in SUBSET S /\ Cardinality(U) \in Nat
    BY SizeIs
  <1> DEFINE x == Pick(U)
  <1>4. x \in U /\ g[U] = f[x] + g[U \ {x}]
    BY <1>2, <1>3, SumsAre
  <1> HIDE DEF x
  <1>5. x # z
    BY <1>2, <1>4
  <1>6. ASSUME NEW v \in U, NEW w \in U \ {v}
        PROVE  g[U \ {v}] = f[w] + g[U \ {v, w}]
    <2>1. U \ {v} \in SUBSET S /\ Cardinality(U \ {v}) = Cardinality(U) - 1
      BY <1>3, SizeIs
    <2>2. U \ {v} \notin Bad
      <3> SUFFICES ASSUME U \ {v} \in Bad PROVE FALSE
        OBVIOUS
      <3>1. Cardinality(U) <= Cardinality(U \ {v})
        BY <1>1
      <3> QED
        BY <1>3, <2>1, <3>1
    <2>3. ~Fails(U \ {v})
      BY <2>1, <2>2
    <2>4. (U \ {v}) \ {w} = U \ {v, w}
      OBVIOUS
    <2> QED
      BY <2>3, <2>4
  <1>7. g[U \ {x}] = f[z] + g[U \ {x, z}] /\ g[U \ {z}] = f[x] + g[U \ {z, x}]
    BY <1>4, <1>5, <1>6
  <1>8. U \ {x, z} = U \ {z, x}
    OBVIOUS
  <1>9. f[x] \in Nat /\ f[z] \in Nat /\ g[U \ {x, z}] \in Nat
    BY <1>3, <1>4
  <1> DEFINE rest == g[U \ {x, z}]
  <1>10. g[U \ {x}] = f[z] + rest /\ g[U \ {z}] = f[x] + rest /\ rest \in Nat
    BY <1>7, <1>8, <1>9
  <1> HIDE DEF rest
  <1> QED
    BY <1>2, <1>4, <1>9, <1>10

\* The sum of nothing but zeros, as that of nothing.
LEMMA TotalOfZeros ==
    ASSUME NEW S, IsFiniteSet(S), NEW f \in [S -> Nat], \A x \in S : f[x] = 0
    PROVE  Total(f, S) = 0
  <1>1. PICK g \in [SUBSET S -> Nat] : Sums(g, f, S) /\ Total(f, S) = g[S]
    BY TotalIsSum
  <1> DEFINE h == [s \in SUBSET S |-> 0]
  <1>2. Sums(h, f, S)
    <2>1. ASSUME NEW s \in SUBSET S PROVE SumStep(h, f, s) = 0
      <3>1. CASE s = {}
        BY <3>1 DEF SumStep
      <3>2. CASE s # {}
        BY <3>2, PickIs DEF SumStep
      <3> QED
        BY <3>1, <3>2
    <2> QED
      BY <2>1 DEF Sums
  <1>3. h[S] = 0
    OBVIOUS
  <1> HIDE DEF h
  <1>4. g[S] = h[S]
    BY <1>1, <1>2, SumsAgree
  <1> QED
    BY <1>1, <1>3, <1>4

\* Raising one summand raises the sum as much.
LEMMA TotalRaised ==
    ASSUME NEW S, IsFiniteSet(S), NEW f \in [S -> Nat], NEW e \in [S -> Nat],
           NEW y \in S, NEW d \in Nat, e[y] = f[y] + d,
           \A x \in S \ {y} : e[x] = f[x]
    PROVE  Total(e, S) = Total(f, S) + d
  <1>1. PICK g \in [SUBSET S -> Nat] : Sums(g, f, S) /\ Total(f, S) = g[S]
    BY TotalIsSum
  <1>2. PICK h \in [SUBSET S -> Nat] : Sums(h, e, S) /\ Total(e, S) = h[S]
    BY TotalIsSum
  <1>3. S \in SUBSET S /\ S \ {y} \in SUBSET S
    OBVIOUS
  <1>4. g[S] = f[y] + g[S \ {y}] /\ h[S] = e[y] + h[S \ {y}]
    <2>1. AnyOrder(g, f, S) /\ AnyOrder(h, e, S)
      BY <1>1, <1>2, SumsRemove
    <2> QED
      BY <1>3, <2>1 DEF AnyOrder
  <1>5. g[S \ {y}] = h[S \ {y}]
    BY <1>1, <1>2, <1>3, SumsAgree
  <1>6. f[y] \in Nat /\ g[S \ {y}] \in Nat
    BY <1>3
  <1> QED
    BY <1>1, <1>2, <1>4, <1>5, <1>6

\* A new element adds its summand.
LEMMA TotalExtended ==
    ASSUME NEW S, IsFiniteSet(S), NEW y, y \notin S, NEW f \in [S -> Nat],
           NEW e \in [S \cup {y} -> Nat], \A x \in S : e[x] = f[x]
    PROVE  Total(e, S \cup {y}) = Total(f, S) + e[y]
  <1> DEFINE R == S \cup {y}
  <1>1. IsFiniteSet(R) /\ R \ {y} = S /\ y \in R /\ S \in SUBSET R
    BY FS_AddElement
  <1> HIDE DEF R
  <1>2. PICK g \in [SUBSET S -> Nat] : Sums(g, f, S) /\ Total(f, S) = g[S]
    BY TotalIsSum
  <1>3. e \in [R -> Nat]
    BY DEF R
  <1>4. PICK h \in [SUBSET R -> Nat] : Sums(h, e, R) /\ Total(e, R) = h[R]
    BY <1>1, <1>3, TotalIsSum
  <1>5. h[R] = e[y] + h[S]
    <2>1. R \in SUBSET R
      OBVIOUS
    <2>2. AnyOrder(h, e, R)
      BY <1>1, <1>3, <1>4, SumsRemove
    <2>3. h[R] = e[y] + h[R \ {y}]
      BY <1>1, <2>1, <2>2 DEF AnyOrder
    <2> QED
      BY <1>1, <2>3
  <1>6. h[S] = g[S]
    BY <1>1, <1>2, <1>4, SumsAgree
  <1>7. e[y] \in Nat /\ h[S] \in Nat
    BY <1>1, <1>3
  <1> QED
    BY <1>2, <1>4, <1>5, <1>6, <1>7 DEF R

-----------------------------------------------------------------------------
(* Every trade is counted once *)

\* What the completed trades were completed for.
Amounts == [k \in Completed |-> Amount(trades[k], exits[k])]

\* Only a trade that holds an order is completed, and its amount is a number.
LEMMA AmountsAre ==
    ASSUME AccountInv, TradeInv
    PROVE  /\ IsFiniteSet(Completed)
           /\ \A k \in Completed : trades[k] # Zeroed /\ Sound(trades[k])
           /\ Amounts \in [Completed -> Nat]
  <1>1. IsFiniteSet(Completed)
    <2>1. Completed \in SUBSET TradeNumbers
      BY DEF Completed
    <2>2. IsFiniteSet(TradeNumbers)
      BY FS_Interval, TradeAssumption DEF TradeNumbers
    <2> QED
      BY <2>1, <2>2, FS_Subset
  <1>2. ASSUME NEW k \in Completed
        PROVE  /\ trades[k] # Zeroed /\ Sound(trades[k])
               /\ Amount(trades[k], exits[k]) \in Nat
    <2>1. trades[k] # Zeroed /\ Sound(trades[k])
      BY DEF Completed, Zeroed, TradeInv
    <2>2. exits[k] \in Nat
      BY DEF AccountInv, Completed
    <2>3. /\ trades[k].entry_price \in Nat /\ trades[k].entry_price > 0
          /\ trades[k].size \in Nat
      BY <2>1 DEF Sound
    <2>4. Gap(exits[k], trades[k].entry_price) \in Nat
      BY <2>2, <2>3 DEF Gap
    <2>5. Gap(exits[k], trades[k].entry_price) * trades[k].size \in Nat
      BY <2>3, <2>4
    <2> QED
      BY <2>1, <2>3, <2>5, Quotient DEF Amount
  <1> QED
    BY <1>1, <1>2 DEF Amounts

\* At the start nothing is counted and nothing completed.
LEMMA CountStarts == ASSUME Init PROVE EveryTradeCountedOnce
  <1>1. /\ completed_trades = [ma \in MasterAgents |-> 0]
        /\ total_pnl = [ma \in MasterAgents |-> 0]
        /\ \A k \in TradeNumbers : trades[k] = Zeroed
    BY DEF Init
  <1>2. Completed = {}
    BY <1>1 DEF Completed, Zeroed
  <1>3. Total(completed_trades, MasterAgents) = 0 /\ Total(total_pnl, MasterAgents) = 0
    <2>1. /\ completed_trades \in [MasterAgents -> Nat] /\ total_pnl \in [MasterAgents -> Nat]
          /\ \A ma \in MasterAgents : completed_trades[ma] = 0 /\ total_pnl[ma] = 0
      BY <1>1
    <2> QED
      BY <2>1, MasterAssumption, TotalOfZeros
  <1>4. IsFiniteSet({}) /\ Cardinality({}) = 0
    BY FS_EmptySet
  <1>5. Total(Amounts, Completed) = 0
    <2>1. Amounts \in [Completed -> Nat] /\ \A k \in Completed : Amounts[k] = 0
      BY <1>2 DEF Amounts
    <2>2. IsFiniteSet(Completed)
      BY <1>2, <1>4
    <2> HIDE DEF Amounts
    <2> QED
      BY <2>1, <2>2, TotalOfZeros
  <1> QED
    BY <1>2, <1>3, <1>4, <1>5 DEF EveryTradeCountedOnce, Amounts

\* A step that completes nothing counts nothing.
LEMMA CountKept ==
    ASSUME AccountInv, TradeInv, EveryTradeCountedOnce,
           UNCHANGED <<completed_trades, total_pnl, exits>>,
           \A k \in TradeNumbers :
               /\ trades'[k].status = "Completed" <=> trades[k].status = "Completed"
               /\ trades[k].status = "Completed" => trades'[k] = trades[k]
    PROVE  EveryTradeCountedOnce'
  <1>1. Completed' = Completed
    BY DEF Completed
  <1>2. \A k \in Completed : trades'[k] = trades[k] /\ exits'[k] = exits[k]
    BY DEF Completed
  <1>3. Amounts' = Amounts
    BY <1>1, <1>2 DEF Amounts, Amount
  <1>4. /\ Total(completed_trades, MasterAgents) = Cardinality(Completed)
        /\ Total(total_pnl, MasterAgents) = Total(Amounts, Completed)
    BY DEF EveryTradeCountedOnce, Amounts
  <1>5. /\ Total(completed_trades', MasterAgents) = Cardinality(Completed')
        /\ Total(total_pnl', MasterAgents) = Total(Amounts', Completed')
    BY <1>1, <1>3, <1>4
  <1> QED
    BY <1>5 DEF EveryTradeCountedOnce, Amounts

\* What is credited is the amount: a sound trade's entry price is two at
\* least, so that the cast to i64 leaves the amount as it is.
LEMMA CreditIsAmount ==
    ASSUME NEW t, Sound(t), NEW p \in Nat, PnlDefined(t, p)
    PROVE  Amount(t, p) \in Nat /\ Magnitude(t, p) = Amount(t, p)
  <1>1. /\ t.entry_price \in Nat /\ t.entry_price >= 2 /\ t.size \in Nat
        /\ Gap(p, t.entry_price) \in Nat
    BY DEF Sound, Gap
  <1> DEFINE all == Gap(p, t.entry_price) * t.size
  <1>2. all \in Nat /\ all <= MaxU64
    BY <1>1 DEF PnlDefined
  <1> HIDE DEF all
  <1>3. all \div t.entry_price \in Nat /\ all \div t.entry_price <= MaxU64 \div 2
    BY <1>1, <1>2, Quotient, HalfWord
  <1>4. Amount(t, p) = all \div t.entry_price
    BY DEF Amount, all
  <1> DEFINE a == Amount(t, p)
  <1>5. a \in Nat /\ AsI64(a) = a
    BY <1>3, <1>4 DEF AsI64
  <1>6. Pnl(t, p) = IF InFavour(t, p) THEN AsI64(a) ELSE 0 - AsI64(a)
    BY DEF Pnl
  <1> HIDE DEF a
  <1>7. Pnl(t, p) = a \/ Pnl(t, p) = 0 - a
    BY <1>5, <1>6
  <1>8. Magnitude(t, p) = a
    BY <1>5, <1>7 DEF Magnitude, Gap
  <1> QED
    BY <1>5, <1>8 DEF a

\* A completion adds one to the number of its master agent and to that of
\* the completed trades, and its amount to both sums.
LEMMA CompletionCounts ==
    ASSUME AccountInv, TradeInv, EveryTradeCountedOnce,
           NEW k \in TradeNumbers, NEW ma \in MasterAgents, NEW p \in Prices,
           NEW result \in {"Success", "Failed"},
           trades[k].status = "Active", Complete(k, ma, p, result)
    PROVE  EveryTradeCountedOnce'
  <1> DEFINE t == trades[k]
             new == [t EXCEPT !.status = "Completed", !.result = result]
             a == Amount(t, p)
  <1>1. /\ p \in Nat /\ t \in Trade /\ PnlDefined(t, p) /\ Sound(t)
    <2>1. t # Zeroed
      BY CompleteStep
    <2> QED
      BY <2>1, PriceAssumption DEF AccountInv, TradeInv, Complete
  <1>2. a \in Nat /\ Magnitude(t, p) = a
    BY <1>1, CreditIsAmount
  <1>3. /\ trades' = [trades EXCEPT ![k] = new]
        /\ completed_trades' = [completed_trades EXCEPT ![ma] = @ + 1]
        /\ total_pnl' = [total_pnl EXCEPT ![ma] = @ + Magnitude(t, p)]
        /\ exits' = [exits EXCEPT ![k] = p]
    BY DEF Complete
  <1>4. /\ new.status = "Completed" /\ new.entry_price = t.entry_price
        /\ new.size = t.size
    BY <1>1 DEF Trade
  <1> HIDE DEF new
  <1>5. /\ trades'[k] = new /\ exits'[k] = p
        /\ \A j \in TradeNumbers \ {k} : trades'[j] = trades[j] /\ exits'[j] = exits[j]
    BY <1>3 DEF AccountInv
  <1>6. k \notin Completed
    BY DEF Completed
  <1>7. Completed' = Completed \cup {k}
    BY <1>4, <1>5, <1>6 DEF Completed
  <1>8. IsFiniteSet(Completed) /\ Amounts \in [Completed -> Nat]
    BY AmountsAre
  <1>9. Cardinality(Completed') = Cardinality(Completed) + 1
    BY <1>6, <1>7, <1>8, FS_AddElement
  <1>10. /\ Amounts'[k] = a
         /\ \A j \in Completed : Amounts'[j] = Amounts[j]
         /\ Amounts' \in [Completed \cup {k} -> Nat]
    <2>1. Amount(new, p) = a
      BY <1>4 DEF Amount
    <2>2. Amounts' = [j \in Completed \cup {k} |-> Amount(trades'[j], exits'[j])]
      BY <1>7 DEF Amounts, Amount
    <2>3. ASSUME NEW j \in Completed PROVE Amounts'[j] = Amounts[j]
      <3>1. trades'[j] = trades[j] /\ exits'[j] = exits[j]
        BY <1>5, <1>6 DEF Completed
      <3>2. Amounts'[j] = Amount(trades'[j], exits'[j])
        BY <2>2
      <3> QED
        BY <3>1, <3>2 DEF Amounts
    <2>4. Amounts'[k] = a
      BY <1>5, <2>1, <2>2
    <2>5. DOMAIN Amounts' = Completed \cup {k} /\ \A j \in Completed : Amounts[j] \in Nat
      BY <1>8, <2>2
    <2> HIDE DEF a
    <2>6. \A j \in Completed \cup {k} : Amounts'[j] \in Nat
      BY <1>2, <2>3, <2>4, <2>5
    <2>7. Amounts' = [j \in Completed \cup {k} |-> Amounts'[j]]
      BY <2>2
    <2> QED
      BY <2>3, <2>4, <2>6, <2>7
  <1>11. Total(Amounts', Completed') = Total(Amounts, Completed) + a
    <2>1. Total(Amounts', Completed \cup {k}) = Total(Amounts, Completed) + Amounts'[k]
      BY <1>6, <1>8, <1>10, TotalExtended
    <2> QED
      BY <1>7, <1>10, <2>1
  <1> HIDE DEF a
  <1>12. /\ completed_trades \in [MasterAgents -> Nat] /\ total_pnl \in [MasterAgents -> Nat]
    BY WidthAssumption DEF AccountInv
  <1>13. Total(completed_trades', MasterAgents) = Total(completed_trades, MasterAgents) + 1
    <2>1. /\ completed_trades' \in [MasterAgents -> Nat]
          /\ completed_trades'[ma] = completed_trades[ma] + 1
          /\ \A m \in MasterAgents \ {ma} : completed_trades'[m] = completed_trades[m]
      BY <1>3, <1>12
    <2> QED
      BY <1>12, <2>1, MasterAssumption, TotalRaised
  <1>14. Total(total_pnl', MasterAgents) = Total(total_pnl, MasterAgents) + a
    <2>1. /\ total_pnl' \in [MasterAgents -> Nat]
          /\ total_pnl'[ma] = total_pnl[ma] + a
          /\ \A m \in MasterAgents \ {ma} : total_pnl'[m] = total_pnl[m]
      BY <1>2, <1>3, <1>12
    <2> QED
      BY <1>2, <1>12, <2>1, MasterAssumption, TotalRaised
  <1>15. /\ Total(completed_trades, MasterAgents) = Cardinality(Completed)
         /\ Total(total_pnl, MasterAgents) = Total(Amounts, Completed)
    BY DEF EveryTradeCountedOnce, Amounts
  <1>16. /\ Total(completed_trades', MasterAgents) = Cardinality(Completed')
         /\ Total(total_pnl', MasterAgents) = Total(Amounts', Completed')
    BY <1>9, <1>11, <1>13, <1>14, <1>15
  <1> QED
    BY <1>16 DEF EveryTradeCountedOnce, Amounts

\* Every step keeps the count.
LEMMA CountStep ==
    ASSUME AccountInv, TradeInv, EveryTradeCountedOnce, [Next]_vars
    PROVE  EveryTradeCountedOnce'
  <1>1. ASSUME NEW s \in Members, NEW ma \in MasterAgents, NEW o \in Orders,
               NEW p \in Prices, OpenTrade(s, ma, o, p)
        PROVE  EveryTradeCountedOnce'
    <2> DEFINE k == Number(ma)
    <2>1. k \in TradeNumbers /\ k \notin created /\ UNCHANGED <<stats, exits>>
      BY <1>1 DEF OpenTrade, CreateTrade
    <2>2. trades' = trades \/ trades' = [trades EXCEPT ![k] = Opened(o, ma)]
      BY <1>1 DEF OpenTrade
    <2> HIDE DEF k
    <2>3. trades[k].status = "Active"
      BY <2>1 DEF TradeInv, Zeroed
    <2>4. Opened(o, ma).status = "Active"
      BY DEF Opened
    <2>5. ASSUME NEW j \in TradeNumbers
          PROVE  /\ trades'[j].status = "Completed" <=> trades[j].status = "Completed"
                 /\ trades[j].status = "Completed" => trades'[j] = trades[j]
      BY <2>1, <2>2, <2>3, <2>4 DEF AccountInv
    <2> QED
      BY <2>1, <2>5, CountKept
  <1>2. ASSUME NEW k \in TradeNumbers, NEW ma \in MasterAgents, NEW p \in Prices,
               CloseTrade(k, ma, p) \/ UpdateTrade(k, ma, p)
        PROVE  EveryTradeCountedOnce'
    BY <1>2, CompletionFacts, CompletionCounts
  <1>3. ASSUME UNCHANGED <<stats, trades, exits>> PROVE EveryTradeCountedOnce'
    BY <1>3, CountKept
  <1>4. ASSUME NEW s \in Members, SignOther(s) PROVE EveryTradeCountedOnce'
    BY <1>3, <1>4 DEF SignOther
  <1>5. ASSUME NEW ma \in MasterAgents, BuyAgent(ma) PROVE EveryTradeCountedOnce'
    BY <1>3, <1>5 DEF BuyAgent
  <1>6. CASE Tick
    BY <1>3, <1>6 DEF Tick
  <1>7. CASE UNCHANGED vars
    BY <1>3, <1>7 DEF vars
  <1> QED
    BY <1>1, <1>2, <1>4, <1>5, <1>6, <1>7 DEF Next

\* Every completed trade is counted once, whoever is credited, and the sum of
\* the credits is the sum of what the trades were completed for: no
\* interleaving of close_trade and update_trade counts a trade twice or
\* loses one, for any number of master agents and trades.
THEOREM EveryTradeIsCounted == Spec => []EveryTradeCountedOnce
  <1>1. Init => EveryTradeCountedOnce
    BY CountStarts
  <1>2. AccountInv /\ TradeInv /\ EveryTradeCountedOnce /\ [Next]_vars => EveryTradeCountedOnce'
    BY CountStep
  <1> QED
    BY <1>1, <1>2, AccountInvariance, PTL DEF Spec
=============================================================================
