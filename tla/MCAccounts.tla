----------------------------- MODULE MCAccounts -----------------------------
(***************************************************************************)
(* Small instances of the account modules for TLC.                         *)
(***************************************************************************)
EXTENDS Accounts

CONSTANT o1

MCFirstMasters ==
    {[price |-> p, w_yield |-> y, max_supply |-> 2,
      tax |-> [buy |-> 2, sell |-> 3, max |-> 10]] : p \in {9, 100}, y \in {19, 50}}

First(paused, trigger, last, updates, buy, sell) ==
    [paused |-> paused, is_triggered |-> trigger # 0, trigger_time |-> trigger,
     last_update_time |-> last, updates |-> updates, buy_tax |-> buy,
     sell_tax |-> sell]

\* As most parameters leave it, and what init accepts besides: each tax beyond
\* the maximum, paused, triggered a moment ago, in the future and longer ago
\* than a word can tell, a last update likewise, a counter at its end, and
\* several of these at once.
NewProtocol == First(FALSE, 0, 0, 0, 0, 0)
MCFirstProtocols ==
    {NewProtocol, First(FALSE, 0, 0, 0, 0, 4), First(FALSE, 0, 0, 0, 5, 1),
     First(TRUE, 0, 0, 0, 3, 0), First(FALSE, 2, 0, 0, 0, 0),
     First(FALSE, 9, 0, 0, 0, 0), First(FALSE, -10240, 0, 0, 0, 0),
     First(FALSE, 0, 12, 0, 0, 0), First(FALSE, 0, -10240, 0, 0, 0),
     First(FALSE, 0, 0, 3, 0, 0), First(TRUE, 9, 12, 2, 4, 4)}

\* Good taxes, a sell tax beyond the maximum, a maximum beyond the whole.
MCNewTaxes ==
    {[buy |-> 0, sell |-> 10, max |-> 10], [buy |-> 3, sell |-> 20, max |-> 15],
     [buy |-> 3, sell |-> 0, max |-> 101]}

Term(type, size, entry, profit, stop) ==
    [trade_type |-> type, size |-> size, entry_price |-> entry,
     take_profit |-> profit, stop_loss |-> stop]

\* A buy, one that risks ten times its profit, a sell, a sell whose levels
\* are near, a sell whose levels are nearer than a preset allows, a buy near
\* the end of the word, and a buy with its levels on the wrong side.
MCFirstTerms ==
    {Term("Buy", 200, 100, 104, 95), Term("Buy", 50, 100, 102, 80),
     Term("Sell", 20, 100, 90, 105), Term("Sell", 400, 400, 398, 402),
     Term("Sell", 400, 400, 399, 401), Term("Buy", 300, 9000, 9050, 8960),
     Term("Buy", 20, 100, 90, 110)}

\* A good buy, and a sell with its levels on the wrong side.
MCNewTerms == {Term("Buy", 50, 100, 102, 80), Term("Sell", 20, 100, 110, 90)}

MCNewLevels ==
    {[size |-> 0, take_profit |-> 0, stop_loss |-> 0],
     [size |-> 20, take_profit |-> 120, stop_loss |-> 90]}

\* Agreeing and disagreeing oracles, too few of them, one that is far off,
\* all of them far off, and a sum beyond the word.
MCMarkets ==
    {[spot |-> p, quotes |-> q] :
        p \in {95, 104, 120},
        q \in {<<100>>, <<0, 104, 100>>, <<104, 0>>, <<110, 94, 103>>,
               <<112, 118, 116>>, <<20479, 20479>>}}
    \cup {[spot |-> 0, quotes |-> <<>>], [spot |-> 103, quotes |-> <<100, 130, 104>>],
          [spot |-> 101, quotes |-> <<100, 101>>],
          [spot |-> 104, quotes |-> <<150, 148>>],
          [spot |-> 400, quotes |-> <<400, 404>>],
          [spot |-> 9030, quotes |-> <<9000, 9040>>]}

\* No price, small and large changes, accurate and vague ones, an average
\* of its own.
MCNewQuotes ==
    {[price |-> p, conf |-> c, ema |-> 30] : p \in {20, 25, 29}, c \in {0, 1, 13}}
    \cup {[price |-> 0, conf |-> 1, ema |-> 30], [price |-> 57, conf |-> 29, ema |-> 0]}

MCDatings == {-10, 0, 10}

\* Around the signs, the square root of a word and its end.
MCSamples == 0 .. 7 \cup {20, 32, 33} \cup 61 .. 64 \cup {2047, 4095}

MCOraclePrices ==
    {P(p, e) : p \in {0, 1, 7, 50, 99, 100, 1000, 1001, 2500, 20479}, e \in -3 .. 2}

\* AccountsInit, but only the account that is used starts in every one of its
\* initial states.
MCInit ==
    /\ focus \in {"profile", "ledger", "referrals", "agent", "protocol",
                  "master", "trade", "oracle", "arithmetic", "prices"}
    /\ ProfileInit /\ (focus = "profile" \/ (referrer = NoKey /\ name = NoName))
    /\ LedgerInit
    /\ ReferralInit
    /\ AgentInit /\ (focus = "agent" \/ (agent.owner = o1 /\ agent.booster = 1))
    /\ ProtocolInit
    /\ focus = "protocol" \/ (~protocol.paused /\ protocol.updates = 0 /\ defects = {} /\ tripped = 0)
    /\ MasterInit /\ (focus = "master" \/ (master.price = 9 /\ master.w_yield = 19))
    /\ TradeAccountInit
    /\ focus = "trade" \/ /\ trade.terms.take_profit = 102
                          /\ trade.authority = NoSigner
                          /\ market.spot = 0
                          /\ market.quotes = <<>>
    /\ OracleInit
    /\ FixedPointInit /\ (focus = "arithmetic" \/ triple = <<0, 0, 0>>)
    /\ PriceMathInit /\ (focus = "prices" \/ pair = <<P(0, 0), P(0, 0)>>)

MCSpec == MCInit /\ [][AccountsNext]_accountsVars
=============================================================================
