------------------------------ MODULE MCTrades ------------------------------
(***************************************************************************)
(* Small instances of Trades for TLC: words of 21 bits, so that amounts at *)
(* the end of the range of a word occur, and orders on both sides of each  *)
(* check of open_trade.                                                    *)
(***************************************************************************)
EXTENDS Trades, TLC

CONSTANTS m1, m2

Two == {m1, m2}

Order(type, size, entry, profit, loss) ==
    [trade_type |-> type, size |-> size, entry_price |-> entry,
     take_profit |-> profit, stop_loss |-> loss]

\* A good buy, one that risks far more than it can gain, one whose loss
\* rounds to nothing, and a good sell.
Ordinary ==
    {Order("Buy", 100, 100, 106, 98), Order("Buy", 100, 101, 103, 90),
     Order("Buy", 20, 100, 110, 96), Order("Sell", 100, 100, 94, 102)}

\* Buys at the smallest prices, where amounts are largest.
Smallest == {Order("Buy", 200, 1, 2, 0), Order("Buy", 200, 2, 3, 1)}

MCOrders == Ordinary \cup Smallest
MCPrices == {0, 1, 2, 90, 96, 100, 107, 8000}
=============================================================================
