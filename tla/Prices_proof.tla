---------------------------- MODULE Prices_proof ----------------------------
(***************************************************************************)
(* Proofs about the custom oracle, the account of a trade, the helpers of  *)
(* the arithmetic and prices with an exponent, for every price, limit and  *)
(* width of a word, and about all the accounts side by side.               *)
(***************************************************************************)
EXTENDS Accounts, Users_proof, Assets_proof, FiniteSetTheorems

-----------------------------------------------------------------------------
(* The oracle *)

\* What the checks of an update leave behind: the confidence is at most half
\* of the price, and from the second update on at least a hundredth of it.
OracleInv ==
    /\ OracleTypeOK
    /\ now \in Nat
    /\ updated <= now
    /\ oracle.count > 0 =>
          /\ oracle.price # 0
          /\ StoredConfidenceOK
    /\ oracle.count > 1 =>
          ConfidenceRatio(oracle.price, oracle.conf) >= OracleBps \div 100

LEMMA OracleStarts == ASSUME OracleInit PROVE OracleInv
  <1>1. oracle = [price |-> 0, conf |-> 0, ema |-> 0, publish_time |-> 0,
                  expo |-> 0, authority |-> NoUpdater, count |-> 0]
    BY DEF OracleInit
  <1>2. now \in Nat /\ updated = 0 /\ hurried = FALSE /\ MaxU64 \in Nat
    BY RuntimeAssumption DEF OracleInit, RuntimeInit
  <1>3. 0 \in Words
    BY <1>2 DEF Words
  <1>4. oracle \in OracleAccountType /\ oracle.count = 0
    BY <1>1, <1>3 DEF OracleAccountType
  <1>5. ~(oracle.count > 0) /\ ~(oracle.count > 1) /\ updated <= now
    BY <1>2, <1>4
  <1>6. OracleTypeOK
    BY <1>2, <1>4 DEF OracleTypeOK
  <1> QED
    BY <1>2, <1>5, <1>6 DEF OracleInv

\* An update stores what it has checked.
LEMMA UpdateKeepsOracle ==
    ASSUME OracleInv, NEW q \in NewQuotes, NEW d \in Datings, NEW e \in Exponents,
           NEW b \in BOOLEAN, NEW k \in Updaters,
           SecureOracleUpdate(q, now + d, e, b, k)
    PROVE  OracleInv'
  <1>1. /\ oracle \in OracleAccountType /\ now \in Nat /\ oracle.count \in Nat
        /\ oracle.price \in Nat
    BY RuntimeAssumption DEF OracleInv, OracleTypeOK, OracleAccountType, Words
  <1>2. /\ q.price \in Words /\ q.conf \in Words /\ q.ema \in Words
        /\ now + d \in Int /\ e \in Int
    BY <1>1, OracleAssumption
  <1>3. oracle' = [price |-> q.price, conf |-> q.conf, ema |-> q.ema,
                   publish_time |-> now + d, expo |-> e, authority |-> k,
                   count |-> oracle.count + 1]
    BY DEF SecureOracleUpdate, SetOracle
  <1>4. /\ oracle'.price = q.price /\ oracle'.conf = q.conf
        /\ oracle'.count = oracle.count + 1
    BY <1>3
  <1>5. /\ q.price # 0
        /\ ConfidenceRatio(q.price, q.conf) <= OracleBps \div 2
    BY DEF SecureOracleUpdate, SetOracle, ValidUpdate, ConfidenceOK
  <1>6. oracle.price > 0 => ConfidenceRatio(q.price, q.conf) >= OracleBps \div 100
    BY DEF SecureOracleUpdate, LooksHonest, ConfidenceRatio
  <1>7. oracle.count > 0 => oracle.price > 0
    BY <1>1 DEF OracleInv
  <1>8. now' = now /\ updated' = now /\ hurried' = b
    BY DEF SecureOracleUpdate, Call
  <1>9. OracleTypeOK'
    <2>1. oracle' \in OracleAccountType
      BY <1>1, <1>2, <1>3 DEF OracleAccountType
    <2> QED
      BY <1>1, <1>8, <2>1 DEF OracleTypeOK
  <1>10. StoredConfidenceOK'
    BY <1>4, <1>5 DEF StoredConfidenceOK, ConfidenceRatio
  <1>11. (oracle.count > 1)' =>
            (ConfidenceRatio(oracle.price, oracle.conf) >= OracleBps \div 100)'
    <2>1. (oracle.count > 1)' => oracle.price > 0
      BY <1>1, <1>4, <1>7
    <2> QED
      BY <1>4, <1>6, <2>1 DEF ConfidenceRatio
  <1>12. (oracle.price # 0)'
    BY <1>4, <1>5
  <1> QED
    BY <1>1, <1>8, <1>9, <1>10, <1>11, <1>12 DEF OracleInv

LEMMA OracleStep ==
    ASSUME OracleInv, [OracleNext]_oracleVars
    PROVE  OracleInv'
  <1>1. CASE UNCHANGED oracleVars
    BY <1>1 DEF oracleVars, OracleInv, OracleTypeOK, StoredConfidenceOK, ConfidenceRatio
  <1>2. CASE OracleTick
    <2>1. PICK d \in Ticks : Tick(d) /\ UNCHANGED <<oracle, updated, hurried>>
      BY <1>2 DEF OracleTick
    <2>2. d \in Nat /\ now \in Nat /\ updated \in Nat /\ updated <= now
      BY RuntimeAssumption DEF OracleInv, OracleTypeOK
    <2>3. now' \in Nat /\ updated' <= now'
      BY <2>1, <2>2 DEF Tick
    <2> QED
      BY <2>1, <2>3 DEF OracleInv, OracleTypeOK, StoredConfidenceOK, ConfidenceRatio
  <1> QED
    BY <1>1, <1>2, UpdateKeepsOracle DEF OracleNext

LEMMA OracleInvSuffices == ASSUME OracleInv PROVE OracleConsistent
  <1>1. /\ oracle \in OracleAccountType /\ updated \in Nat /\ now \in Nat
        /\ oracle.price \in Nat /\ oracle.conf \in Nat
        /\ oracle.publish_time \in Int /\ oracle.count \in Nat
        /\ OracleBps \in Nat \ {0} /\ MaxAge \in Nat
    BY RuntimeAssumption, OracleAssumption
    DEF OracleInv, OracleTypeOK, OracleAccountType, Words
  <1>2. ReadableMeansRecent
    <2>1. ASSUME Fresh, oracle.publish_time <= updated PROVE now - updated <= MaxAge
      BY <1>1, <2>1 DEF Fresh
    <2> QED
      BY <2>1 DEF ReadableMeansRecent, Readable, SecurelyReadable
  <1>3. WrittenIsReadable
    BY DEF OracleInv, WrittenIsReadable, SecurelyReadable
  <1>4. NeverAccurateAgain
    <2> SUFFICES ASSUME oracle.count > 1
                 PROVE  oracle.conf * OracleBps >= oracle.price * (OracleBps \div 100)
      BY DEF NeverAccurateAgain
    <2> DEFINE p == oracle.price
               all == oracle.conf * OracleBps
               least == OracleBps \div 100
    <2>1. p \in Nat \ {0} /\ all \in Nat /\ least \in Int
      BY <1>1 DEF OracleInv
    <2>2. all \div p >= least
      BY DEF OracleInv, ConfidenceRatio
    <2> HIDE DEF p, all, least
    <2>3. all \div p \in Int /\ (all \div p) * p <= all
      BY <2>1, QuotientBounds
    <2>4. least * p <= (all \div p) * p
      BY <2>1, <2>2, <2>3, ProductGrows
    <2>5. p * least <= all
      BY <2>1, <2>3, <2>4
    <2> QED
      BY <2>1, <2>5 DEF p, all, least
  <1> QED
    BY <1>2, <1>3, <1>4 DEF OracleConsistent, OracleInv

\* What an update has written can be read until it is too old, what is read
\* was written within the age unless it was dated ahead, and no update but
\* the first is accurate, for every limit and every price.
THEOREM OracleStaysConsistent == OracleSpec => []OracleConsistent
  <1>1. OracleSpec => []OracleInv
    BY OracleStarts, OracleStep, PTL DEF OracleSpec
  <1> QED
    BY <1>1, OracleInvSuffices, PTL

\* What a step may change of an oracle, and when.
SlowUpdate ==
    /\ oracle.authority # NoUpdater => oracle'.authority = oracle.authority
    /\ /\ oracle'.count # oracle.count
       /\ ~hurried'
       /\ oracle.publish_time >= updated
       => now - updated >= OracleInterval

LEMMA OracleStepIsSlow ==
    ASSUME OracleInv, [OracleNext]_oracleVars
    PROVE  SlowUpdate
  <1>1. CASE UNCHANGED oracleVars
    BY <1>1 DEF SlowUpdate, oracleVars
  <1>2. CASE OracleTick
    BY <1>2 DEF SlowUpdate, OracleTick
  <1>3. ASSUME NEW q \in NewQuotes, NEW d \in Datings, NEW e \in Exponents,
               NEW b \in BOOLEAN, NEW k \in Updaters,
               SecureOracleUpdate(q, now + d, e, b, k)
        PROVE  SlowUpdate
    <2>1. oracle.authority \in {NoUpdater, k} /\ oracle'.authority = k
      BY <1>3 DEF SecureOracleUpdate, SetOracle, Authorized
    <2>2. hurried' = b /\ (b \/ now - oracle.publish_time >= OracleInterval)
      BY <1>3 DEF SecureOracleUpdate, UpdateIsDue
    <2>3. /\ now \in Nat /\ updated \in Nat /\ oracle.publish_time \in Int
          /\ OracleInterval \in Nat
      BY OracleAssumption DEF OracleInv, OracleTypeOK, OracleAccountType
    <2> QED
      BY <2>1, <2>2, <2>3 DEF SlowUpdate
  <1> QED
    BY <1>1, <1>2, <1>3 DEF OracleNext

\* The first updater of an oracle stays its only one, and ordinary updates
\* are an interval apart unless the one before was dated back.
THEOREM OracleIsSlow == OracleSpec => UpdaterStays /\ UpdatesAreSpaced
  <1>1. OracleSpec => []OracleInv
    BY OracleStarts, OracleStep, PTL DEF OracleSpec
  <1>2. ASSUME OracleInv, [OracleNext]_oracleVars
        PROVE  /\ [oracle.authority # NoUpdater => oracle'.authority = oracle.authority]_oracleVars
               /\ [/\ oracle'.count # oracle.count
                   /\ ~hurried'
                   /\ oracle.publish_time >= updated
                   => now - updated >= OracleInterval]_oracleVars
    BY <1>2, OracleStepIsSlow DEF SlowUpdate
  <1> QED
    BY <1>1, <1>2, PTL DEF OracleSpec, UpdaterStays, UpdatesAreSpaced

-----------------------------------------------------------------------------
(* A trade *)

\* A trade whose status was never forced was closed only if it is not
\* active, and its breaker is left alone without an authority.
TradeAccountInv ==
    /\ TradeAccountTypeOK
    /\ ~forced => closings <= 1 /\ (trade.status = "Active" => closings = 0)
    /\ NoBreakerWithoutAuthority

LEMMA TradeAccountStarts == ASSUME TradeAccountInit PROVE TradeAccountInv
  <1>1. PICK t \in FirstTerms, k \in Signers \cup {NoSigner} :
          trade = [terms |-> t, status |-> "Active", result |-> "Pending",
                   authority |-> k, triggered |-> FALSE]
    BY DEF TradeAccountInit
  <1>2. t \in TradeTerms
    BY TradeAccountAssumption
  <1>3. trade \in TradeAccountType
    BY <1>1, <1>2 DEF TradeAccountType, Statuses, Results
  <1>4. market \in MarketType /\ closings = 0 /\ forced = FALSE
    BY TradeAccountAssumption DEF TradeAccountInit
  <1>5. NoBreakerWithoutAuthority
    <2>1. trade.triggered = FALSE
      BY <1>1
    <2> QED
      BY <2>1 DEF NoBreakerWithoutAuthority
  <1>6. TradeAccountTypeOK
    BY <1>3, <1>4 DEF TradeAccountTypeOK
  <1> QED
    BY <1>4, <1>5, <1>6 DEF TradeAccountInv

\* A change of status that set_status accepts leaves Active at most once.
LEMMA StatusKeepsTrade ==
    ASSUME TradeAccountInv, NEW tr \in TradeAccountType, NEW s \in Statuses,
           tr.authority = NoSigner => ~tr.triggered,
           StatusBecomes(tr, s)
    PROVE  TradeAccountInv'
  <1>1. /\ trade' = [tr EXCEPT !.status = s]
        /\ trade' \in TradeAccountType
        /\ trade'.status = s
        /\ trade'.authority = tr.authority
        /\ trade'.triggered = tr.triggered
    BY DEF StatusBecomes, TradeAccountType
  <1>2. /\ closings \in Nat /\ forced \in BOOLEAN /\ market' = market
        /\ trade.status \in Statuses
    BY DEF TradeAccountInv, TradeAccountTypeOK, TradeAccountType, StatusBecomes
  <1>3. closings' = IF trade.status = "Active" /\ s # "Active" THEN closings + 1 ELSE closings
    BY DEF StatusBecomes
  <1>4. forced' \in BOOLEAN /\ (~forced' => ~forced /\ s \in MayBecome(trade.status) \cup {trade.status})
    BY <1>2 DEF StatusBecomes
  <1>5. TradeAccountTypeOK'
    BY <1>1, <1>2, <1>3, <1>4 DEF TradeAccountTypeOK, TradeAccountInv
  <1>6. NoBreakerWithoutAuthority'
    BY <1>1 DEF NoBreakerWithoutAuthority
  <1>7. ASSUME ~forced' PROVE closings' <= 1 /\ (s = "Active" => closings' = 0)
    <2>1. s = "Active" => trade.status = "Active"
      BY <1>2, <1>4, <1>7 DEF MayBecome, Statuses
    <2> QED
      BY <1>2, <1>3, <1>4, <1>7, <2>1 DEF TradeAccountInv
  <1> QED
    BY <1>1, <1>5, <1>6, <1>7 DEF TradeAccountInv

LEMMA TradeAccountStep ==
    ASSUME TradeAccountInv, [TradeAccountNext]_tradeVars
    PROVE  TradeAccountInv'
  <1> USE TradeAccountAssumption
  <1>0. /\ trade \in TradeAccountType /\ NoSigner \notin Signers
        /\ trade.authority = NoSigner => ~trade.triggered
    BY DEF TradeAccountInv, TradeAccountTypeOK, NoBreakerWithoutAuthority
  <1>1. ASSUME NEW k \in Signers, NEW s \in Statuses, SetStatus(s, k)
        PROVE  TradeAccountInv'
    BY <1>0, <1>1, StatusKeepsTrade DEF SetStatus
  <1>2. ASSUME NEW k \in Signers, NEW r \in Results, SetResult(r, k)
        PROVE  TradeAccountInv'
    <2>1. /\ trade' = [trade EXCEPT !.result = r]
          /\ trade' \in TradeAccountType
          /\ trade'.status = trade.status
          /\ trade'.authority = trade.authority
          /\ trade'.triggered = trade.triggered
      BY <1>0, <1>2 DEF SetResult, TradeAccountType
    <2>2. UNCHANGED <<market, closings, forced>>
      BY <1>2 DEF SetResult
    <2> QED
      BY <2>1, <2>2 DEF TradeAccountInv, TradeAccountTypeOK, NoBreakerWithoutAuthority
  <1>3. ASSUME NEW r \in Results, NEW s \in Statuses,
               StatusBecomes([trade EXCEPT !.result = r], s)
        PROVE  TradeAccountInv'
    <2> DEFINE tr == [trade EXCEPT !.result = r]
    <2>1. /\ tr \in TradeAccountType /\ tr.authority = trade.authority
          /\ tr.triggered = trade.triggered
      BY <1>0 DEF TradeAccountType
    <2>2. StatusBecomes(tr, s)
      BY <1>3
    <2>3. tr.authority = NoSigner => ~tr.triggered
      BY <1>0, <2>1, Zenon
    <2> HIDE DEF tr
    <2> QED
      BY <2>1, <2>2, <2>3, StatusKeepsTrade
  <1>4. "Completed" \in Statuses /\ "Cancelled" \in Statuses /\ "Failed" \in Results
    BY DEF Statuses, Results
  <1>5. ASSUME NEW l \in NewLevels, NEW s \in Statuses, NEW r \in Results,
               UpdateTradeAnyway(l, s, r)
        PROVE  TradeAccountInv'
    <2> DEFINE terms == [trade.terms EXCEPT !.size = l.size,
                             !.take_profit = l.take_profit, !.stop_loss = l.stop_loss]
               tr == [trade EXCEPT !.terms = terms, !.result = r]
    <2>1. l.size \in Words /\ l.take_profit \in Words /\ l.stop_loss \in Words
      OBVIOUS
    <2>2. trade.terms \in TradeTerms
      BY <1>0 DEF TradeAccountType
    <2>3. terms \in TradeTerms
      BY <2>1, <2>2 DEF TradeTerms
    <2>4. StatusBecomes(tr, s)
      BY <1>5 DEF UpdateTradeAnyway
    <2> HIDE DEF terms
    <2>5. /\ tr \in TradeAccountType /\ tr.authority = trade.authority
          /\ tr.triggered = trade.triggered
      BY <1>0, <2>3 DEF TradeAccountType
    <2>6. tr.authority = NoSigner => ~tr.triggered
      BY <1>0, <2>5, Zenon
    <2> HIDE DEF tr
    <2> QED
      BY <2>4, <2>5, <2>6, StatusKeepsTrade
  <1>6. ASSUME NEW k \in Signers, TriggerTradeBreaker(k) PROVE TradeAccountInv'
    <2>1. /\ trade' = [trade EXCEPT !.triggered = TRUE]
          /\ trade' \in TradeAccountType
          /\ trade'.status = trade.status
          /\ trade'.authority = k
      BY <1>0, <1>6 DEF TriggerTradeBreaker, TradeAccountType
    <2>2. UNCHANGED <<market, closings, forced>>
      BY <1>6 DEF TriggerTradeBreaker
    <2> QED
      BY <1>0, <2>1, <2>2 DEF TradeAccountInv, TradeAccountTypeOK, NoBreakerWithoutAuthority
  <1>7. CASE ResetTradeBreaker
    <2>1. /\ trade' = [trade EXCEPT !.triggered = FALSE]
          /\ trade' \in TradeAccountType
          /\ trade'.status = trade.status
          /\ trade'.triggered = FALSE
      BY <1>0, <1>7 DEF ResetTradeBreaker, TradeAccountType
    <2>2. UNCHANGED <<market, closings, forced>>
      BY <1>7 DEF ResetTradeBreaker
    <2> QED
      BY <2>1, <2>2 DEF TradeAccountInv, TradeAccountTypeOK, NoBreakerWithoutAuthority
  <1>8. ASSUME NEW m \in Markets, MarketMoves(m) PROVE TradeAccountInv'
    BY <1>8 DEF MarketMoves, TradeAccountInv, TradeAccountTypeOK, NoBreakerWithoutAuthority
  <1>9. ASSUME NEW t \in NewTerms, NEW k \in Signers \cup {NoSigner},
               NEW s \in Statuses, NEW r \in Results,
               StatusBecomes([terms |-> t, status |-> s, result |-> r,
                              authority |-> k, triggered |-> FALSE], s)
        PROVE  TradeAccountInv'
    <2> DEFINE tr == [terms |-> t, status |-> s, result |-> r,
                      authority |-> k, triggered |-> FALSE]
    <2>1. t \in TradeTerms
      OBVIOUS
    <2>2. tr \in TradeAccountType /\ tr.triggered = FALSE
      BY <2>1 DEF TradeAccountType
    <2>3. StatusBecomes(tr, s)
      BY <1>9
    <2> HIDE DEF tr
    <2> QED
      BY <2>2, <2>3, StatusKeepsTrade
  <1>10. ASSUME NEW t \in NewTerms, NEW s \in Statuses, NEW r \in Results,
                \/ InitTrade(t, s, r)
                \/ \E k \in Signers : InitTradeSecure(t, k, s, r)
         PROVE  TradeAccountInv'
    BY <1>9, <1>10 DEF InitTrade, InitTradeSecure
  <1>11. CASE UNCHANGED tradeVars
    BY <1>11 DEF tradeVars, TradeAccountInv, TradeAccountTypeOK, NoBreakerWithoutAuthority
  <1> QED
    BY <1>1, <1>2, <1>3, <1>4, <1>5, <1>6, <1>7, <1>8, <1>10, <1>11
    DEF TradeAccountNext, CompleteSecure, CancelSecure, CompleteAnyway, CancelAnyway

\* Without a forced status a trade leaves Active once, and without an
\* authority its breaker is never triggered.
THEOREM TradesCloseOnce ==
    TradeAccountSpec => [](ClosedOnceUnlessForced /\ NoBreakerWithoutAuthority)
  <1>1. TradeAccountSpec => []TradeAccountInv
    BY TradeAccountStarts, TradeAccountStep, PTL DEF TradeAccountSpec
  <1>2. TradeAccountInv => ClosedOnceUnlessForced /\ NoBreakerWithoutAuthority
    BY DEF TradeAccountInv, ClosedOnceUnlessForced
  <1> QED
    BY <1>1, <1>2, PTL

\* The words of the terms and of the price.
LEMMA TradeNumbers ==
    ASSUME TradeAccountTypeOK
    PROVE  /\ market.spot \in Nat /\ trade.terms.entry_price \in Nat
           /\ trade.terms.size \in Nat /\ trade.terms.take_profit \in Nat
           /\ trade.terms.stop_loss \in Nat
           /\ MaxU64 \in Nat \ {0} /\ Points \in Nat \ {0}
  BY RuntimeAssumption, TradeAccountAssumption
  DEF TradeAccountTypeOK, TradeAccountType, TradeTerms, MarketType, Words

\* The distance is the advance without its sign.
LEMMA AdvanceHasDistance ==
    ASSUME NEW t, NEW p \in Nat, t.entry_price \in Nat
    PROVE  /\ Advance(t, p) \in Int
           /\ Apart(p, t.entry_price) \in Nat
           /\ Advance(t, p) >= 0 => Apart(p, t.entry_price) = Advance(t, p)
           /\ Advance(t, p) < 0 => Apart(p, t.entry_price) = -Advance(t, p)
  BY DEF Advance, Apart

\* A product of signed words that fits leaves the cast of its quotient alone,
\* but for the least word, which has no negation.
LEMMA PnlsAlwaysAgree == ASSUME TradeAccountTypeOK PROVE PnlsAgree
  <1> DEFINE t == trade.terms
             p == market.spot
             E == t.entry_price
             n == t.size
             d == Advance(t, p)
             g == Apart(p, E)
             half == MaxU64 \div 2
             q == (g * n) \div E
  <1> SUFFICES ASSUME PnlIsDefined(t, p), SafePnlDefined(t, p)
               PROVE  PlainPnl(t, p) = SafePnl(t, p)
    BY DEF PnlsAgree
  <1>1. /\ E \in Nat \ {0} /\ n \in Nat /\ p \in Nat /\ MaxU64 \in Nat
        /\ half \in Nat /\ half <= MaxU64
    BY TradeNumbers DEF PnlIsDefined
  <1>2. /\ d \in Int /\ g \in Nat
        /\ (d >= 0 => g = d) /\ (d < 0 => g = -d)
    BY <1>1, AdvanceHasDistance
  <1>3. /\ d * n >= half - MaxU64
        /\ d * n <= half
    <2>1. SignedWord(half + 1) = half - MaxU64
      BY <1>1 DEF SignedWord
    <2>2. FitsSigned(d * n)
      BY DEF PnlIsDefined
    <2> QED
      BY <1>1, <2>1, <2>2 DEF FitsSigned, SignedWords
  <1>4. /\ SafePnl(t, p) = IF d >= 0 THEN SignedWord(q) ELSE -SignedWord(q)
        /\ PlainPnl(t, p) = TowardsZero(d * n, E)
    BY DEF SafePnl, PlainPnl
  <1>5. SafePnl(t, p) <= half
    BY <1>1 DEF SafePnlDefined, FitsSigned, SignedWords
  <1> HIDE DEF t, p, E, n, d, g, half
  <1>6. g * n \in Nat /\ d * n \in Int
    BY <1>1, <1>2
  <1>7. q \in Nat /\ q <= g * n
    <2>1. q \in Nat /\ q * E <= g * n
      BY <1>1, <1>6, QuotientIsNat, QuotientBounds
    <2>2. q * 1 <= q * E
      BY <1>1, <2>1, ProductGrows
    <2>3. q * E \in Int
      BY <1>1, <2>1
    <2> QED
      BY <1>6, <2>1, <2>2, <2>3
  <1>8. SignedWord(q) = IF q <= half THEN q ELSE q - (MaxU64 + 1)
    BY DEF SignedWord, half
  <1>9. CASE d >= 0
    <2>1. g * n = d * n /\ d * n >= 0
      BY <1>1, <1>2, <1>9
    <2>2. TowardsZero(d * n, E) = q
      BY <2>1 DEF TowardsZero
    <2>3. SignedWord(q) = q
      BY <1>1, <1>3, <1>6, <1>7, <1>8, <2>1
    <2> QED
      BY <1>4, <1>9, <2>2, <2>3
  <1>10. CASE d < 0
    <2> HIDE DEF q
    <2>1. g * n = -(d * n)
      BY <1>1, <1>2, <1>10
    <2>2. q <= MaxU64 - half
      BY <1>1, <1>3, <1>6, <1>7, <2>1
    <2>3. SignedWord(q) = q
      <3>1. SUFFICES ASSUME q > half PROVE FALSE
        BY <1>1, <1>7, <1>8
      <3>2. SafePnl(t, p) = MaxU64 + 1 - q
        BY <1>1, <1>4, <1>7, <1>8, <1>2, <1>10, <3>1
      <3> QED
        BY <1>1, <1>5, <1>7, <2>2, <3>2
    <2>4. TowardsZero(d * n, E) = -q
      <3>1. CASE d * n < 0
        BY <1>6, <2>1, <3>1 DEF TowardsZero, q
      <3>2. CASE d * n >= 0
        <4>1. d * n = 0 /\ g * n = 0
          BY <1>6, <2>1, <3>2
        <4>2. 0 \div E = 0
          BY <1>1, QuotientIs
        <4> QED
          BY <4>1, <4>2 DEF TowardsZero, q
      <3> QED
        BY <1>6, <3>1, <3>2
    <2> QED
      BY <1>2, <1>4, <1>10, <2>3, <2>4
  <1> QED
    BY <1>2, <1>9, <1>10

\* Percentage and profit are quotients by the same price.
LEMMA PercentageAlwaysAgrees == ASSUME TradeAccountTypeOK PROVE PercentageAgrees
  <1> DEFINE t == trade.terms
             p == market.spot
             E == t.entry_price
             n == t.size
             d == Advance(t, p)
             pct == Percentage(t, p)
             pnl == PlainPnl(t, p)
  <1> SUFFICES ASSUME PercentageDefined(t, p), PnlIsDefined(t, p)
               PROVE  pct * n < (pnl + 1) * Points /\ pnl * Points <= (pct + 1) * n
    BY DEF PercentageAgrees
  <1>1. /\ E \in Nat \ {0} /\ n \in Nat /\ p \in Nat /\ Points \in Nat \ {0}
    BY TradeNumbers DEF PnlIsDefined
  <1>2. d \in Nat
    BY <1>1, AdvanceHasDistance DEF PercentageDefined
  <1>3. pct = (d * Points) \div E
    BY DEF Percentage
  <1>4. pnl = TowardsZero(d * n, E)
    BY DEF PlainPnl
  <1> HIDE DEF t, p, E, n, d, pct, pnl
  <1>5. d * Points \in Nat /\ d * n \in Nat
    BY <1>1, <1>2
  <1>6. pnl = (d * n) \div E
    BY <1>4, <1>5 DEF TowardsZero
  <1>7. pct \in Nat /\ pct * E <= d * Points /\ d * Points < pct * E + E
    <2> DEFINE a == d * Points
    <2>1. a \in Nat /\ pct = a \div E
      BY <1>3, <1>5
    <2> HIDE DEF a
    <2>2. pct \in Nat /\ pct * E <= a /\ a < pct * E + E
      BY <1>1, <2>1, QuotientIsNat, QuotientBounds
    <2> QED
      BY <2>2 DEF a
  <1>8. pnl \in Nat /\ pnl * E <= d * n /\ d * n < pnl * E + E
    <2> DEFINE a == d * n
    <2>1. a \in Nat /\ pnl = a \div E
      BY <1>6, <1>5
    <2> HIDE DEF a
    <2>2. pnl \in Nat /\ pnl * E <= a /\ a < pnl * E + E
      BY <1>1, <2>1, QuotientIsNat, QuotientBounds
    <2> QED
      BY <2>2 DEF a
  <1>9. /\ pct * E \in Nat /\ pnl * E \in Nat /\ (pct + 1) * E \in Nat
        /\ (pnl + 1) * E \in Nat /\ (pct + 1) * E = pct * E + E
        /\ (pnl + 1) * E = pnl * E + E
    BY <1>1, <1>7, <1>8
  <1>10. pct * n < (pnl + 1) * Points
    <2>1. (pct * E) * n <= (d * Points) * n
      BY <1>1, <1>5, <1>7, <1>9, ProductGrows
    <2>2. (d * n) * Points < ((pnl + 1) * E) * Points
      <3>1. (d * n + 1) * Points <= ((pnl + 1) * E) * Points
        BY <1>1, <1>5, <1>8, <1>9, ProductGrows
      <3>2. (d * n + 1) * Points = (d * n) * Points + Points
        BY <1>1, <1>5
      <3>3. (d * n) * Points \in Nat /\ ((pnl + 1) * E) * Points \in Nat
        BY <1>1, <1>5, <1>9
      <3> QED
        BY <1>1, <3>1, <3>2, <3>3
    <2>3. /\ (pct * E) * n = (pct * n) * E
          /\ (d * Points) * n = (d * n) * Points
          /\ ((pnl + 1) * E) * Points = ((pnl + 1) * Points) * E
      BY <1>1, <1>2, <1>7, <1>8
    <2>4. /\ pct * n \in Int /\ (pnl + 1) * Points \in Int
          /\ (pct * n) * E \in Int /\ (d * n) * Points \in Int
          /\ ((pnl + 1) * Points) * E \in Int
      BY <1>1, <1>2, <1>7, <1>8
    <2>5. (pct * n) * E < ((pnl + 1) * Points) * E
      BY <2>1, <2>2, <2>3, <2>4
    <2> QED
      BY <1>1, <2>4, <2>5, FactorIsLess
  <1>11. pnl * Points <= (pct + 1) * n
    <2>1. (pnl * E) * Points <= (d * n) * Points
      BY <1>1, <1>5, <1>8, <1>9, ProductGrows
    <2>2. (d * Points) * n <= ((pct + 1) * E) * n
      BY <1>1, <1>5, <1>7, <1>9, ProductGrows
    <2>3. /\ (pnl * E) * Points = (pnl * Points) * E
          /\ (d * Points) * n = (d * n) * Points
          /\ ((pct + 1) * E) * n = ((pct + 1) * n) * E
      BY <1>1, <1>2, <1>7, <1>8
    <2>4. /\ pnl * Points \in Int /\ (pct + 1) * n \in Int
          /\ (pnl * Points) * E \in Int /\ (d * n) * Points \in Int
          /\ ((pct + 1) * n) * E \in Int
      BY <1>1, <1>2, <1>7, <1>8
    <2>5. (pnl * Points) * E < ((pct + 1) * n + 1) * E
      <3>1. (pnl * Points) * E <= ((pct + 1) * n) * E
        BY <2>1, <2>2, <2>3, <2>4
      <3>2. ((pct + 1) * n + 1) * E = ((pct + 1) * n) * E + E
        BY <1>1, <2>4
      <3> QED
        BY <1>1, <2>4, <3>1, <3>2
    <2>6. pnl * Points < (pct + 1) * n + 1
      BY <1>1, <2>4, <2>5, FactorIsLess
    <2> QED
      BY <2>4, <2>6
  <1> QED
    BY <1>10, <1>11

LEMMA TradeInvFigures ==
    ASSUME TradeAccountInv
    PROVE  PnlsAgree /\ PercentageAgrees /\ NeverBothLevels
  <1>1. TradeAccountTypeOK
    BY DEF TradeAccountInv
  <1>2. NeverBothLevels
    BY <1>1, TradeNumbers DEF NeverBothLevels, ValidTerms, HitsProfit, HitsStop
  <1> QED
    BY <1>1, <1>2, PnlsAlwaysAgree, PercentageAlwaysAgrees

\* The figures of a trade agree in every state: profit on signed and on
\* unsigned words, profit and percentage; and no price is both levels.
THEOREM TradeFiguresAgree ==
    TradeAccountSpec => [](PnlsAgree /\ PercentageAgrees /\ NeverBothLevels)
  <1>1. TradeAccountSpec => []TradeAccountInv
    BY TradeAccountStarts, TradeAccountStep, PTL DEF TradeAccountSpec
  <1> QED
    BY <1>1, TradeInvFigures, PTL

-----------------------------------------------------------------------------
(* The checks of a trade *)

\* The prices that are counted are finitely many words.
LEMMA CountedPrices ==
    ASSUME NEW quotes \in Seq(Words)
    PROVE  /\ IsFiniteSet(CountedQuotes(quotes))
           /\ Cardinality(CountedQuotes(quotes)) \in Nat
           /\ \A i \in CountedQuotes(quotes) : quotes[i] \in Nat \ {0} /\ quotes[i] <= MaxU64
           /\ MaxU64 \in Nat
  <1>1. Len(quotes) \in Nat /\ DOMAIN quotes = 1 .. Len(quotes)
    OBVIOUS
  <1>2. IsFiniteSet(DOMAIN quotes)
    BY <1>1, FS_Interval
  <1>3. CountedQuotes(quotes) \in SUBSET (DOMAIN quotes)
    BY DEF CountedQuotes
  <1>4. \A i \in CountedQuotes(quotes) : quotes[i] \in Words /\ quotes[i] > 0
    BY DEF CountedQuotes
  <1> QED
    BY <1>2, <1>3, <1>4, FS_Subset, FS_CardinalityType, RuntimeAssumption DEF Words

\* For every k up to their number there is a k-th of them: the least number
\* that k of them do not exceed.
LEMMA KthExists ==
    ASSUME NEW quotes \in Seq(Words), NEW k \in 1 .. Cardinality(CountedQuotes(quotes))
    PROVE  \E v \in {quotes[i] : i \in CountedQuotes(quotes)} :
              /\ Cardinality({i \in CountedQuotes(quotes) : quotes[i] < v}) < k
              /\ Cardinality({i \in CountedQuotes(quotes) : quotes[i] <= v}) >= k
  <1> DEFINE I == CountedQuotes(quotes)
             UpTo(n) == {i \in I : quotes[i] <= n}
             Below(n) == {i \in I : quotes[i] < n}
             S == {n \in Nat : Cardinality(UpTo(n)) >= k}
  <1>1. /\ IsFiniteSet(I) /\ Cardinality(I) \in Nat
        /\ \A i \in I : quotes[i] \in Nat \ {0} /\ quotes[i] <= MaxU64
        /\ MaxU64 \in Nat /\ k \in 1 .. Cardinality(I)
    BY CountedPrices
  <1> HIDE DEF I
  <1>2. ASSUME NEW n \in Nat
        PROVE  Cardinality(UpTo(n)) \in Nat /\ Cardinality(Below(n)) \in Nat
    <2>1. ASSUME NEW T \in SUBSET I PROVE Cardinality(T) \in Nat
      <3>1. IsFiniteSet(T)
        BY <1>1, FS_Subset
      <3> QED
        BY <3>1, FS_CardinalityType
    <2>2. UpTo(n) \in SUBSET I /\ Below(n) \in SUBSET I
      OBVIOUS
    <2> HIDE DEF UpTo, Below
    <2> QED
      BY <2>1, <2>2
  <1>3. MaxU64 \in S
    <2>1. UpTo(MaxU64) = I
      BY <1>1
    <2> HIDE DEF UpTo
    <2> QED
      BY <1>1, <2>1
  <1>4. PICK v \in S : \A n \in S : v <= n
    <2>1. S \in SUBSET Nat
      OBVIOUS
    <2> HIDE DEF S
    <2> QED
      BY <1>3, <2>1, LeastNumber
  <1>5. v \in Nat /\ Cardinality(UpTo(v)) >= k
    BY <1>4
  <1>6. Cardinality(Below(v)) < k
    <2>1. CASE v = 0
      <3>1. Below(v) = {}
        BY <1>1, <2>1
      <3> HIDE DEF Below
      <3> QED
        BY <1>1, <3>1, FS_EmptySet
    <2>2. CASE v # 0
      <3>1. v - 1 \in Nat /\ ~(v <= v - 1)
        BY <1>5, <2>2
      <3>2. Below(v) = UpTo(v - 1)
        BY <1>1, <1>5, <3>1
      <3>3. ~(Cardinality(UpTo(v - 1)) >= k)
        BY <1>4, <3>1
      <3> HIDE DEF Below, UpTo
      <3> QED
        BY <1>1, <1>2, <3>1, <3>2, <3>3
    <2> QED
      BY <2>1, <2>2
  <1>7. \E i \in I : quotes[i] = v
    <2> SUFFICES ASSUME \A i \in I : quotes[i] # v PROVE FALSE
      OBVIOUS
    <2>1. UpTo(v) = Below(v)
      BY <1>1, <1>5
    <2> HIDE DEF Below, UpTo
    <2> QED
      BY <1>1, <1>2, <1>5, <1>6, <2>1
  <1> QED
    BY <1>5, <1>6, <1>7 DEF I

\* What the sorted prices have at a place is counted, and the places below
\* and up to it are where it says.
LEMMA KthIs ==
    ASSUME NEW quotes \in Seq(Words), NEW k \in 1 .. Cardinality(CountedQuotes(quotes))
    PROVE  /\ Kth(quotes, k) \in {quotes[i] : i \in CountedQuotes(quotes)}
           /\ Kth(quotes, k) \in Nat \ {0}
           /\ Cardinality({i \in CountedQuotes(quotes) : quotes[i] < Kth(quotes, k)}) < k
           /\ Cardinality({i \in CountedQuotes(quotes) : quotes[i] <= Kth(quotes, k)}) >= k
  <1> DEFINE IsKth(v) == /\ Cardinality({i \in CountedQuotes(quotes) : quotes[i] < v}) < k
                         /\ Cardinality({i \in CountedQuotes(quotes) : quotes[i] <= v}) >= k
             V == {quotes[i] : i \in CountedQuotes(quotes)}
  <1>1. \E v \in V : IsKth(v)
    BY KthExists
  <1>2. Kth(quotes, k) = CHOOSE v \in V : IsKth(v)
    BY DEF Kth
  <1>3. Kth(quotes, k) \in V /\ IsKth(Kth(quotes, k))
    <2> HIDE DEF IsKth, V
    <2> QED
      BY <1>1, <1>2
  <1>4. Kth(quotes, k) \in Nat \ {0}
    BY <1>3, CountedPrices
  <1> QED
    BY <1>3, <1>4

\* The median that is returned is a number.
LEMMA ConsensusIsNat ==
    ASSUME NEW quotes \in Seq(Words), HasConsensus(quotes)
    PROVE  Consensus(quotes) \in Nat
  <1> DEFINE n == Cardinality(CountedQuotes(quotes))
             mid == n \div 2
  <1>1. n \in Nat /\ n >= 2
    BY CountedPrices DEF HasConsensus, MinConsensus
  <1>2. mid \in 1 .. n /\ mid + 1 \in 1 .. n
    BY <1>1
  <1>3. Consensus(quotes) = IF n % 2 = 0 THEN (Kth(quotes, mid) + Kth(quotes, mid + 1)) \div 2
                            ELSE Kth(quotes, mid + 1)
    BY DEF Consensus
  <1> HIDE DEF mid
  <1>4. Kth(quotes, mid) \in Nat /\ Kth(quotes, mid + 1) \in Nat
    BY <1>2, KthIs
  <1> QED
    BY <1>3, <1>4

\* What lies within a limit: n m-th parts of the base, when the limit and one
\* point more are no more than n m-th parts of the whole.
LEMMA WithinPart ==
    ASSUME NEW p \in Nat, NEW base \in Nat, NEW limit \in Nat,
           NEW m \in Nat \ {0}, NEW n \in Nat,
           m * (limit + 1) <= n * Points,
           Within(p, base, limit)
    PROVE  m * Apart(p, base) < n * base
  <1> DEFINE a == Apart(p, base)
             all == a * Points
  <1>1. a \in Nat /\ base \in Nat \ {0} /\ Points \in Nat \ {0}
    BY TradeAccountAssumption DEF Apart, Within, PointsFit
  <1>2. all \div base <= limit /\ all \in Nat
    BY <1>1 DEF Within, PointsFrom
  <1> HIDE DEF all
  <1>3. all < (limit + 1) * base
    <2>1. all < (all \div base + 1) * base /\ all \div base \in Int
      BY <1>1, <1>2, QuotientBounds
    <2>2. (all \div base + 1) * base <= (limit + 1) * base
      BY <1>1, <1>2, <2>1, ProductGrows
    <2> QED
      BY <1>1, <1>2, <2>1, <2>2
  <1> HIDE DEF a
  <1>4. m * all < m * ((limit + 1) * base)
    <2>1. PICK y \in Nat : y = (limit + 1) * base
      BY <1>1
    <2>2. (all + 1) * m <= y * m
      BY <1>2, <1>3, <2>1, ProductGrows
    <2>3. (all + 1) * m = m * all + m /\ y * m = m * y
      BY <1>2
    <2> QED
      BY <1>2, <2>1, <2>2, <2>3
  <1>5. (m * (limit + 1)) * base <= (n * Points) * base
    BY <1>1, ProductGrows
  <1>6. /\ m * all = (m * a) * Points
        /\ m * ((limit + 1) * base) = (m * (limit + 1)) * base
        /\ (n * Points) * base = (n * base) * Points
    BY <1>1 DEF all
  <1>7. (m * a) * Points < (n * base) * Points
    <2>1. PICK x, y, z \in Nat : x = m * all /\ y = (m * (limit + 1)) * base /\ z = (n * Points) * base
      BY <1>1, <1>2
    <2> QED
      BY <1>4, <1>5, <1>6, <2>1
  <1> QED
    BY <1>1, <1>7, FactorIsLess DEF a

\* A limit in basis points is at most its part of the whole.
LEMMA OfIs ==
    ASSUME NEW bps \in Nat
    PROVE  Of(bps) \in Nat /\ Of(bps) * 10000 <= bps * Points /\ bps * Points < Of(bps) * 10000 + 10000
  <1> DEFINE a == bps * Points
  <1>1. a \in Nat
    BY TradeAccountAssumption
  <1> HIDE DEF a
  <1>2. a \div 10000 \in Nat /\ (a \div 10000) * 10000 <= a /\ a < (a \div 10000) * 10000 + 10000
    BY <1>1
  <1> QED
    BY <1>2 DEF Of, a

\* A limit that is a k-th of the whole.
LEMMA LimitIs ==
    ASSUME NEW bps \in Nat, NEW k \in Nat \ {0}, bps * k = 10000
    PROVE  Of(bps) \in Nat /\ Of(bps) * k <= Points /\ Points < (Of(bps) + 1) * k
  <1> DEFINE o == Of(bps)
  <1>1. o \in Nat /\ o * 10000 <= bps * Points /\ bps * Points < o * 10000 + 10000
    BY OfIs
  <1>2. Points \in Nat /\ bps # 0
    BY TradeAccountAssumption
  <1> HIDE DEF o
  <1>3. /\ o * 10000 = (o * k) * bps
        /\ o * 10000 + 10000 = ((o + 1) * k) * bps
        /\ bps * Points = Points * bps
    BY <1>1, <1>2
  <1>4. PICK x, y \in Nat : x = o * k /\ y = (o + 1) * k
    BY <1>1
  <1>5. x * bps < (Points + 1) * bps /\ Points * bps < y * bps
    BY <1>1, <1>2, <1>3, <1>4
  <1>6. x < Points + 1 /\ Points < y
    BY <1>2, <1>4, <1>5, FactorIsLess
  <1> QED
    BY <1>1, <1>2, <1>4, <1>6 DEF o

\* The limits of the presets that are parts of the whole.
LEMMA LimitsAre ==
    /\ Of(25) \in Nat /\ Of(25) * 400 <= Points
    /\ Of(50) \in Nat /\ Of(50) * 200 <= Points /\ Points < (Of(50) + 1) * 200
    /\ Of(100) \in Nat /\ Of(100) * 100 <= Points /\ Points < (Of(100) + 1) * 100
    /\ Of(200) \in Nat /\ Of(200) * 50 <= Points /\ Points < (Of(200) + 1) * 50
    /\ Of(500) \in Nat /\ Of(500) * 20 <= Points
    /\ Of(1000) \in Nat /\ Of(1000) * 10 <= Points
  <1>1. 25 * 400 = 10000 /\ 50 * 200 = 10000 /\ 100 * 100 = 10000
    OBVIOUS
  <1>2. 200 * 50 = 10000 /\ 500 * 20 = 10000 /\ 1000 * 10 = 10000
    OBVIOUS
  <1> QED
    BY <1>1, <1>2, LimitIs

\* Three quotes.
LEMMA ThreeElements == IsFiniteSet(1 .. 3) /\ Cardinality(1 .. 3) = 3
  <1>1. 1 \in Int /\ 3 \in Int /\ ~(1 > 3) /\ 3 - 1 + 1 = 3
    OBVIOUS
  <1> QED
    BY <1>1, FS_Interval

\* The price is compared with the entry price, the consensus with the price
\* and each counted oracle with the consensus.
LEMMA EntryAlwaysNearEveryOracle == ASSUME TradeAccountTypeOK PROVE EntryNearEveryOracle
  <1> DEFINE quotes == market.quotes
             E == trade.terms.entry_price
             p == market.spot
             M == Consensus(quotes)
  <1> SUFFICES ASSUME NEW c \in {Default, Conservative},
                      SecureExecution(trade, market, c),
                      NEW i \in CountedQuotes(quotes)
               PROVE  3 * Apart(quotes[i], E) <= E
    BY DEF EntryNearEveryOracle
  <1>1. /\ quotes \in Seq(Words) /\ p \in Nat /\ E \in Nat
        /\ Points \in Nat /\ Points >= 200
    BY TradeNumbers, TradeAccountAssumption DEF TradeAccountTypeOK, MarketType
  <1>2. quotes[i] \in Nat
    BY <1>1, CountedPrices
  <1>3. M \in Nat /\ Within(quotes[i], M, MaxOracleDeviation)
    BY <1>1, ConsensusIsNat DEF SecureExecution, HasConsensus
  <1>4. Within(p, M, MaxOracleDeviation) /\ Within(p, E, c.slippage)
    BY DEF SecureExecution, FlashProtected, SlippageOK
  <1>5. MaxOracleDeviation \in Nat /\ 100 * (MaxOracleDeviation + 1) <= 11 * Points
    <2>1. MaxOracleDeviation \in Nat /\ MaxOracleDeviation * 10 <= Points
      BY LimitsAre DEF MaxOracleDeviation
    <2> QED
      BY <1>1, <2>1
  <1>6. c.slippage \in Nat /\ 100 * (c.slippage + 1) <= 6 * Points
    <2>1. c.slippage \in {Of(500), Of(200)}
      BY DEF Default, Conservative, PriceConfig
    <2>2. c.slippage \in Nat /\ c.slippage * 20 <= Points
      <3>1. Of(200) \in Nat /\ Of(200) * 50 <= Points
        BY LimitsAre
      <3>2. Of(200) * 20 <= Points
        BY <1>1, <3>1
      <3>3. Of(500) \in Nat /\ Of(500) * 20 <= Points
        BY LimitsAre
      <3> QED
        BY <2>1, <3>1, <3>2, <3>3
    <2> QED
      BY <1>1, <2>2
  <1> HIDE DEF quotes, E, p, M
  <1>7. /\ 100 * Apart(quotes[i], M) < 11 * M
        /\ 100 * Apart(p, M) < 11 * M
        /\ 100 * Apart(p, E) < 6 * E
    BY <1>1, <1>2, <1>3, <1>4, <1>5, <1>6, WithinPart
  <1> QED
    BY <1>1, <1>2, <1>3, <1>7 DEF Apart

\* Of three prices the second is not below both of the others and not above
\* both of them, whichever of them is replaced.
LEMMA NoOracleMovesConsensus == ASSUME TradeAccountTypeOK PROVE OneOracleCannotMove
  <1> DEFINE q == market.quotes
  <1> SUFFICES ASSUME Len(q) = 3, \A i \in 1 .. 3 : q[i] > 0,
                      NEW i \in 1 .. 3, NEW j \in 1 .. 3, NEW k \in 1 .. 3,
                      {i, j, k} = 1 .. 3, q[j] <= q[k],
                      NEW v \in {1, market.spot, MaxU64} \ {0}
               PROVE  Consensus([q EXCEPT ![i] = v]) \in q[j] .. q[k]
    BY DEF OneOracleCannotMove
  <1> DEFINE moved == [q EXCEPT ![i] = v]
             M == Kth(moved, 2)
  <1>1. q \in Seq(Words) /\ v \in Words \ {0}
    BY TradeNumbers DEF TradeAccountTypeOK, MarketType, Words
  <1>2. DOMAIN q = 1 .. 3
    BY <1>1
  <1>3. q \in [1 .. 3 -> Words]
    BY <1>1, <1>2
  <1>4. moved \in [1 .. 3 -> Words] /\ moved \in Seq(Words)
    <2>1. moved \in [1 .. 3 -> Words]
      BY <1>1, <1>3
    <2>2. moved \in Seq(Words)
      BY <1>1, <1>2
    <2> QED
      BY <2>1, <2>2
  <1>5. j # k /\ i # j /\ i # k
    <2>1. 1 \in {i, j, k} /\ 2 \in {i, j, k} /\ 3 \in {i, j, k}
      OBVIOUS
    <2> QED
      BY <2>1
  <1>6. moved[i] = v /\ moved[j] = q[j] /\ moved[k] = q[k]
    BY <1>3, <1>5
  <1>7. \A x \in 1 .. 3 : moved[x] \in Nat /\ q[x] \in Nat /\ moved[x] > 0
    BY <1>1, <1>3, <1>4, <1>6 DEF Words
  <1> HIDE DEF moved, q
  <1>8. CountedQuotes(moved) = 1 .. 3 /\ Cardinality(CountedQuotes(moved)) = 3
    <2>1. DOMAIN moved = 1 .. 3
      BY <1>4
    <2>2. CountedQuotes(moved) = 1 .. 3
      BY <1>7, <2>1 DEF CountedQuotes
    <2>3. Cardinality(1 .. 3) = 3
      BY ThreeElements
    <2> QED
      BY <2>2, <2>3
  <1>9. Consensus(moved) = M
    <2>1. 3 % 2 # 0 /\ 3 \div 2 + 1 = 2
      OBVIOUS
    <2> QED
      BY <1>8, <2>1 DEF Consensus
  <1> DEFINE Below == {x \in 1 .. 3 : moved[x] < M}
             UpTo == {x \in 1 .. 3 : moved[x] <= M}
  <1>10. M \in Nat /\ Cardinality(Below) < 2 /\ Cardinality(UpTo) >= 2
    <2>1. 2 \in 1 .. Cardinality(CountedQuotes(moved))
      BY <1>8
    <2> HIDE DEF M
    <2>2. /\ Kth(moved, 2) \in Nat \ {0}
          /\ Cardinality({x \in CountedQuotes(moved) : moved[x] < Kth(moved, 2)}) < 2
          /\ Cardinality({x \in CountedQuotes(moved) : moved[x] <= Kth(moved, 2)}) >= 2
      BY <1>4, <2>1, KthIs
    <2> QED
      BY <1>8, <2>2 DEF M
  <1> HIDE DEF M
  <1>11. IsFiniteSet(Below) /\ Cardinality(Below) \in Nat
    <2>1. IsFiniteSet(1 .. 3) /\ Below \in SUBSET (1 .. 3)
      BY ThreeElements
    <2> HIDE DEF Below
    <2>2. IsFiniteSet(Below)
      BY <2>1, FS_Subset
    <2> QED
      BY <2>2, FS_CardinalityType
  <1>12. q[j] <= M
    <2> SUFFICES ASSUME M < q[j] PROVE FALSE
      BY <1>7, <1>10
    <2>1. UpTo \in SUBSET {i}
      BY <1>6, <1>7, <1>10
    <2>2. IsFiniteSet({i}) /\ Cardinality({i}) = 1
      BY FS_Singleton
    <2> HIDE DEF UpTo
    <2>3. Cardinality(UpTo) <= Cardinality({i}) /\ IsFiniteSet(UpTo)
      BY <2>1, <2>2, FS_Subset
    <2>4. Cardinality(UpTo) \in Nat
      BY <2>3, FS_CardinalityType
    <2> QED
      BY <1>10, <2>2, <2>3, <2>4
  <1>13. M <= q[k]
    <2> SUFFICES ASSUME q[k] < M PROVE FALSE
      BY <1>7, <1>10
    <2>1. {j, k} \in SUBSET Below
      BY <1>6, <1>7, <1>10
    <2> HIDE DEF Below
    <2>2. Cardinality({j, k}) <= Cardinality(Below)
      BY <1>11, <2>1, FS_Subset
    <2>3. Cardinality({j, k}) = 2
      <3>1. IsFiniteSet({j}) /\ Cardinality({j}) = 1
        BY FS_Singleton
      <3>2. Cardinality({j} \cup {k}) = 2
        BY <1>5, <3>1, FS_AddElement
      <3>3. {j, k} = {j} \cup {k}
        OBVIOUS
      <3> QED
        BY <3>2, <3>3
    <2> QED
      BY <1>10, <1>11, <2>2, <2>3
  <1> QED
    BY <1>7, <1>9, <1>10, <1>12, <1>13 DEF moved

\* Limits grow with their basis points.
LEMMA OfGrows ==
    ASSUME NEW a \in Nat, NEW b \in Nat, a <= b
    PROVE  Of(a) <= Of(b)
  <1>1. Points \in Nat
    BY TradeAccountAssumption
  <1>2. a * Points <= b * Points
    BY <1>1, ProductGrows
  <1> DEFINE x == a * Points
             y == b * Points
  <1>3. x \in Int /\ y \in Int /\ x <= y
    BY <1>1, <1>2
  <1> HIDE DEF x, y
  <1>4. x \div 10000 <= y \div 10000
    BY <1>3, QuotientGrows
  <1> QED
    BY <1>4 DEF Of, x, y

\* How the limits of the presets compare: every field of one is within the
\* same field of the next, and no margin reaches the whole.
LEMMA PresetsAre ==
    /\ \A b \in {10, 25, 50, 100, 150, 200, 500, 1000} : Of(b) \in Nat /\ Of(b) <= Points
    /\ Of(10) <= Of(25) /\ Of(25) <= Of(50) /\ Of(50) <= Of(100)
    /\ Of(100) <= Of(150) /\ Of(150) <= Of(200)
    /\ Of(100) <= Of(200) /\ Of(200) <= Of(500) /\ Of(500) <= Of(1000)
    /\ Of(50) # 0 /\ Of(50) < Of(100) /\ Of(25) < Of(200)
    /\ Of(100) # 0 /\ Of(500) # 0 /\ Of(1000) # 0
    /\ Of(100) <= Of(500) /\ Of(50) <= Of(1000)
  <1>1. Points \in Nat /\ Points >= 200
    BY TradeAccountAssumption
  <1>2. ASSUME NEW b \in Nat, b <= 10000 PROVE Of(b) \in Nat /\ Of(b) <= Points
    <2>1. Of(b) \in Nat /\ Of(b) * 10000 <= b * Points
      BY OfIs
    <2>2. b * Points <= 10000 * Points
      <3>1. 10000 \in Int
        OBVIOUS
      <3> QED
        BY <1>1, <1>2, <3>1, ProductGrows
    <2>3. PICK x, o \in Nat : x = b * Points /\ o = Of(b)
      BY <1>1, <2>1
    <2>4. o * 10000 <= Points * 10000
      BY <1>1, <2>1, <2>2, <2>3
    <2> QED
      BY <1>1, <2>3, <2>4
  <1>3. /\ 10 \in Nat /\ 25 \in Nat /\ 50 \in Nat /\ 100 \in Nat
        /\ 150 \in Nat /\ 200 \in Nat /\ 500 \in Nat /\ 1000 \in Nat
    OBVIOUS
  <1>4. /\ Of(10) <= Of(25) /\ Of(25) <= Of(50) /\ Of(50) <= Of(100)
        /\ Of(100) <= Of(150) /\ Of(150) <= Of(200)
        /\ Of(200) <= Of(500) /\ Of(500) <= Of(1000)
    <2>1. /\ 10 <= 25 /\ 25 <= 50 /\ 50 <= 100 /\ 100 <= 150
          /\ 150 <= 200 /\ 200 <= 500 /\ 500 <= 1000
      OBVIOUS
    <2> QED
      BY <1>3, <2>1, OfGrows
  <1>5. \A b \in {10, 25, 50, 100, 150, 200, 500, 1000} : Of(b) \in Nat /\ Of(b) <= Points
    <2>1. \A b \in {10, 25, 50, 100, 150, 200, 500, 1000} : b \in Nat /\ b <= 10000
      OBVIOUS
    <2> QED
      BY <1>2, <2>1
  <1>6. PICK o50, o100 \in Nat : o50 = Of(50) /\ o100 = Of(100)
    BY <1>5
  <1>7. o50 * 200 <= Points /\ Points < (o50 + 1) * 200 /\ Points < (o100 + 1) * 100
    BY <1>6, LimitsAre
  <1>8. o50 # 0 /\ o50 < o100
    BY <1>1, <1>6, <1>7
  <1>9. /\ Of(10) \in Nat /\ Of(25) \in Nat /\ Of(50) \in Nat /\ Of(100) \in Nat
        /\ Of(150) \in Nat /\ Of(200) \in Nat /\ Of(500) \in Nat /\ Of(1000) \in Nat
    BY <1>5
  <1> QED
    BY <1>4, <1>5, <1>6, <1>8, <1>9

\* What a part of a price is worth: it grows with the part, and a share of
\* the whole at most grows no faster than the price.
LEMMA PartIs ==
    ASSUME NEW x \in Nat, NEW points \in Nat
    PROVE  /\ Part(x, points) \in Nat
           /\ Part(x, points) * Points <= x * points
           /\ points <= Points => Part(x, points) <= x
  <1> DEFINE all == x * points
  <1>1. Points \in Nat \ {0} /\ all \in Nat
    BY TradeAccountAssumption
  <1> HIDE DEF all
  <1>2. all \div Points \in Nat /\ (all \div Points) * Points <= all
    BY <1>1, QuotientIsNat, QuotientBounds
  <1>3. ASSUME points <= Points PROVE all \div Points <= x
    <2>1. all <= x * Points
      <3>1. points * x <= Points * x
        BY <1>1, <1>3, ProductGrows
      <3> QED
        BY <1>1, <3>1 DEF all
    <2>2. all < (x + 1) * Points
      <3>1. (x + 1) * Points = x * Points + Points /\ x * Points \in Nat
        BY <1>1
      <3> QED
        BY <1>1, <2>1, <3>1
    <2>3. all \div Points < x + 1
      BY <1>1, <2>2, QuotientBelow
    <2> QED
      BY <1>2, <2>3
  <1> QED
    BY <1>2, <1>3 DEF Part, all

\* Parts grow with the price and with the points.
LEMMA PartGrows ==
    ASSUME NEW x \in Nat, NEW y \in Nat, NEW a \in Nat, NEW b \in Nat, x <= y, a <= b
    PROVE  Part(x, a) <= Part(y, b)
  <1> DEFINE xa == x * a
             yb == y * b
  <1>1. Points \in Nat \ {0} /\ xa \in Nat /\ yb \in Nat
    BY TradeAccountAssumption
  <1>2. xa <= yb
    <2>1. x * a <= y * a /\ a * y <= b * y
      BY ProductGrows
    <2>2. /\ a * y = y * a /\ b * y = y * b
          /\ x * a \in Nat /\ y * a \in Nat /\ y * b \in Nat
      OBVIOUS
    <2> QED
      BY <2>1, <2>2
  <1> HIDE DEF xa, yb
  <1>3. xa \div Points <= yb \div Points
    BY <1>1, <1>2, QuotientGrows
  <1> QED
    BY <1>3 DEF Part, xa, yb

\* What a part leaves of a price grows with the price.
LEMMA PartGrowsSlowly ==
    ASSUME NEW x \in Nat, NEW y \in Nat, NEW a \in Nat, x <= y, a <= Points
    PROVE  x - Part(x, a) <= y - Part(y, a)
  <1> DEFINE ya == y * a
             px == Part(x, a)
  <1>1. Points \in Nat \ {0} /\ ya \in Nat
    BY TradeAccountAssumption
  <1>2. px \in Nat /\ x * a < (px + 1) * Points
    <2> DEFINE xa == x * a
    <2>1. xa \in Nat
      OBVIOUS
    <2> HIDE DEF xa
    <2>2. xa < (xa \div Points + 1) * Points
      BY <1>1, <2>1, QuotientBounds
    <2> QED
      BY <2>2, PartIs DEF Part, xa
  <1> HIDE DEF px
  <1>3. ya < (px + 1 + (y - x)) * Points
    <2>1. PICK d \in Nat : y = x + d
      BY y - x \in Nat /\ y = x + (y - x)
    <2>2. a * d <= Points * d
      BY <1>1, <2>1, ProductGrows
    <2>3. /\ ya = x * a + a * d
          /\ (px + 1 + d) * Points = (px + 1) * Points + Points * d
      BY <1>1, <1>2, <2>1
    <2>4. /\ x * a \in Nat /\ a * d \in Nat /\ (px + 1) * Points \in Nat
          /\ Points * d \in Nat
      BY <1>1, <1>2, <2>1
    <2>5. ya < (px + 1 + d) * Points
      BY <1>2, <2>2, <2>3, <2>4
    <2>6. y - x = d
      BY <2>1
    <2> QED
      BY <2>5, <2>6
  <1> HIDE DEF ya
  <1>4. ya \div Points < px + 1 + (y - x) /\ ya \div Points \in Int
    BY <1>1, <1>2, <1>3, QuotientBelow, QuotientBounds
  <1>5. Part(y, a) = ya \div Points
    BY DEF Part, ya
  <1> QED
    BY <1>2, <1>4, <1>5 DEF px

\* Both prices of a trader's quote keep their side.
LEMMA MovedIs ==
    ASSUME NEW t, NEW p \in Nat, NEW a \in Nat, a <= Points
    PROVE  /\ Moved(t, p, a) \in Nat
           /\ Buys(t) => Moved(t, p, a) >= p
           /\ ~Buys(t) => Moved(t, p, a) <= p
  <1> DEFINE o == Part(p, a)
  <1>1. o \in Nat /\ o <= p
    BY PartIs
  <1> HIDE DEF o
  <1>2. Moved(t, p, a) = IF Buys(t) THEN p + o ELSE p - o
    BY DEF Moved, o
  <1> QED
    BY <1>1, <1>2

\* A higher price and a wider spread cost a buyer more, a lower price and a
\* wider spread bring a seller less.
LEMMA MovedGrows ==
    ASSUME NEW t, NEW p \in Nat, NEW q \in Nat, NEW a \in Nat, NEW b \in Nat,
           a <= b, b <= Points
    PROVE  /\ Buys(t) /\ p <= q => Moved(t, p, a) <= Moved(t, q, b)
           /\ ~Buys(t) /\ q <= p => Moved(t, p, a) >= Moved(t, q, b)
  <1>1. ASSUME Buys(t), p <= q PROVE Moved(t, p, a) <= Moved(t, q, b)
    <2>1. Part(p, a) <= Part(q, b) /\ Part(p, a) \in Nat /\ Part(q, b) \in Nat
      BY <1>1, PartGrows, PartIs
    <2> QED
      BY <1>1, <2>1 DEF Moved
  <1>2. ASSUME ~Buys(t), q <= p PROVE Moved(t, p, a) >= Moved(t, q, b)
    <2>1. Points \in Nat
      BY TradeAccountAssumption
    <2>2. q - Part(q, b) <= p - Part(p, b)
      BY <1>2, PartGrowsSlowly
    <2>3. Part(p, a) <= Part(p, b)
      BY PartGrows
    <2>4. Part(p, a) \in Nat /\ Part(p, b) \in Nat /\ Part(q, b) \in Nat
      BY PartIs
    <2> QED
      BY <1>2, <2>2, <2>3, <2>4 DEF Moved
  <1> QED
    BY <1>1, <1>2

\* Spread and buffer are added for a buyer and subtracted for a seller, and
\* each grows from one preset to the next.
LEMMA QuotesAlwaysAgainstTrader == ASSUME TradeAccountTypeOK PROVE QuotesAgainstTrader
  <1> DEFINE t == trade.terms
             p == market.spot
             Quote(c) == OptimalPrice(t, p, c)
             Worse(x, y) == IF Buys(t) THEN x >= y ELSE x <= y
  <1>1. p \in Nat /\ Points \in Nat
    BY TradeNumbers
  <1>2. \A c \in Presets : /\ c.spread \in Nat /\ c.spread <= Points
                          /\ c.buffer \in Nat /\ c.buffer <= Points
    BY PresetsAre DEF Presets, Default, Conservative, Aggressive, PriceConfig
  <1>3. /\ Conservative.spread <= Default.spread /\ Default.spread <= Aggressive.spread
        /\ Conservative.buffer <= Default.buffer /\ Default.buffer <= Aggressive.buffer
    BY PresetsAre DEF Default, Conservative, Aggressive, PriceConfig
  <1>4. Conservative \in Presets /\ Default \in Presets /\ Aggressive \in Presets
    BY DEF Presets
  <1> HIDE DEF t, p
  <1>5. ASSUME NEW c \in Presets
        PROVE  /\ Moved(t, p, c.spread) \in Nat
               /\ Worse(Moved(t, p, c.spread), p)
               /\ Quote(c) \in Nat
               /\ Worse(Quote(c), Moved(t, p, c.spread))
    <2>1. Moved(t, p, c.spread) \in Nat /\ Worse(Moved(t, p, c.spread), p)
      BY <1>1, <1>2, MovedIs
    <2> DEFINE q == Moved(t, p, c.spread)
    <2> HIDE DEF q
    <2>2. q \in Nat
      BY <2>1 DEF q
    <2>3. Moved(t, q, c.buffer) \in Nat /\ Worse(Moved(t, q, c.buffer), q)
      BY <1>2, <2>2, MovedIs
    <2>4. Quote(c) = Moved(t, q, c.buffer)
      BY DEF OptimalPrice, q
    <2> QED
      BY <2>1, <2>3, <2>4 DEF q
  <1>6. ASSUME NEW c \in Presets, NEW d \in Presets,
               c.spread <= d.spread, c.buffer <= d.buffer
        PROVE  Worse(Quote(d), Quote(c))
    <2> DEFINE q == Moved(t, p, c.spread)
               r == Moved(t, p, d.spread)
    <2>1. q \in Nat /\ r \in Nat
      BY <1>5
    <2>2. Worse(r, q)
      BY <1>1, <1>2, <1>6, <2>1, MovedGrows
    <2>3. Quote(c) = Moved(t, q, c.buffer) /\ Quote(d) = Moved(t, r, d.buffer)
      BY DEF OptimalPrice
    <2> HIDE DEF q, r
    <2>4. /\ c.buffer \in Nat /\ d.buffer \in Nat /\ c.buffer <= d.buffer
          /\ d.buffer <= Points
      BY <1>2, <1>6
    <2>5. Quote(c) \in Nat /\ Quote(d) \in Nat
      BY <1>5
    <2> QED
      BY <2>1, <2>2, <2>3, <2>4, <2>5, MovedGrows
  <1>7. \A c \in Presets : Worse(Quote(c), Moved(t, p, c.spread))
    BY <1>5
  <1>8. Worse(Quote(Conservative), p)
    <2>1. /\ Moved(t, p, Conservative.spread) \in Nat /\ Quote(Conservative) \in Nat
          /\ Worse(Moved(t, p, Conservative.spread), p)
          /\ Worse(Quote(Conservative), Moved(t, p, Conservative.spread))
      BY <1>4, <1>5
    <2> QED
      BY <1>1, <2>1
  <1>9. Worse(Quote(Default), Quote(Conservative)) /\ Worse(Quote(Aggressive), Quote(Default))
    BY <1>3, <1>4, <1>6
  <1> HIDE DEF Quote, Worse
  <1>10. /\ \A c \in Presets : Worse(Quote(c), Moved(t, p, c.spread))
         /\ Worse(Quote(Conservative), p)
         /\ Worse(Quote(Default), Quote(Conservative))
         /\ Worse(Quote(Aggressive), Quote(Default))
    BY <1>7, <1>8, <1>9
  <1> QED
    BY <1>10 DEF QuotesAgainstTrader, Quote, Worse, t, p

\* Profit and loss of a trade are whole numbers.
LEMMA PnlIsInt ==
    ASSUME NEW t, NEW p \in Nat, t.entry_price \in Nat \ {0}, t.size \in Nat
    PROVE  SafePnl(t, p) \in Int /\ Magnitude(SafePnl(t, p)) \in Nat
  <1> DEFINE E == t.entry_price
             n == t.size
             all == Apart(p, E) * n
             q == all \div E
  <1>1. all \in Nat
    <2>1. Apart(p, E) \in Nat
      BY DEF Apart
    <2> QED
      BY <2>1
  <1> HIDE DEF all
  <1>2. q \in Nat
    BY <1>1, QuotientIsNat
  <1> HIDE DEF q
  <1>3. SignedWord(q) \in Int
    BY <1>2, RuntimeAssumption DEF SignedWord
  <1>4. SafePnl(t, p) = IF Advance(t, p) >= 0 THEN SignedWord(q) ELSE -SignedWord(q)
    BY DEF SafePnl, q, all
  <1>5. SafePnl(t, p) \in Int
    BY <1>3, <1>4
  <1> QED
    BY <1>5 DEF Magnitude

\* Looser limits accept what stricter ones did.
LEMMA LooserAccepts ==
    ASSUME NEW t \in TradeTerms, NEW p \in Nat, NEW o \in Nat, NEW c, NEW d,
           c.slippage \in Nat, d.slippage \in Nat, c.slippage <= d.slippage,
           c.distance \in Nat, d.distance \in Nat, d.distance <= c.distance,
           c.ratio \in Nat, d.ratio \in Nat, d.ratio <= c.ratio,
           c.deviation \in Nat, d.deviation \in Nat, c.deviation <= d.deviation,
           c.range \in Nat, d.range \in Nat, c.range <= d.range,
           ValidConfig(d), Accepted(t, p, o, c), RangeDefined(t, p, d.range)
    PROVE  Accepted(t, p, o, d)
  <1>1. /\ t.entry_price \in Nat \ {0} /\ t.take_profit \in Nat /\ t.stop_loss \in Nat
        /\ t.size \in Nat /\ Points \in Nat \ {0}
    <2>1. t.entry_price # 0
      BY DEF Accepted, ValidTerms
    <2> QED
      BY <2>1, TradeAccountAssumption, RuntimeAssumption DEF TradeTerms, Words
  <1>2. ASSUME NEW x \in Nat PROVE PointsFrom(x, t.entry_price) \in Int
    <2> DEFINE all == Apart(x, t.entry_price) * Points
    <2>1. all \in Int
      <3>1. Apart(x, t.entry_price) \in Nat
        BY <1>1 DEF Apart
      <3> QED
        BY <1>1, <3>1
    <2> HIDE DEF all
    <2>2. all \div t.entry_price \in Int
      BY <1>1, <2>1, QuotientBounds
    <2> QED
      BY <2>2 DEF PointsFrom, all
  <1>3. SlippageOK(t, p, d.slippage) /\ SlippageOK(t, o, d.deviation)
    <2>1. SlippageOK(t, p, c.slippage) /\ SlippageOK(t, o, c.deviation)
      BY DEF Accepted
    <2> QED
      BY <1>2, <2>1 DEF SlippageOK, Within
  <1>4. DistancesOK(t, d.distance)
    <2>1. DistancesOK(t, c.distance)
      BY DEF Accepted
    <2> QED
      BY <1>1, <1>2, <2>1 DEF DistancesOK, Beyond
  <1>5. RatioOK(t, d.ratio)
    <2>1. RatioIsDefined(t) /\ RiskReward(t) >= c.ratio
      BY DEF Accepted, RatioOK
    <2>2. Risk(t) \in Nat \ {0} /\ Reward(t) \in Nat
      BY <1>1, <2>1, PnlIsInt DEF Risk, Reward, RatioIsDefined
    <2> DEFINE all == Reward(t) * Points
    <2>3. all \in Int
      BY <1>1, <2>2
    <2> HIDE DEF all
    <2>4. all \div Risk(t) \in Int
      BY <2>2, <2>3, QuotientBounds
    <2>5. RiskReward(t) \in Int
      BY <2>4 DEF RiskReward, all
    <2> QED
      BY <2>1, <2>5 DEF RatioOK
  <1>6. WithinRange(t, p, d.range)
    <2>1. WithinRange(t, p, c.range)
      BY DEF Accepted
    <2>2. /\ Part(t.stop_loss, c.range) <= Part(t.stop_loss, d.range)
          /\ Part(t.take_profit, c.range) <= Part(t.take_profit, d.range)
      BY <1>1, PartGrows
    <2>3. /\ Part(t.stop_loss, c.range) \in Nat /\ Part(t.stop_loss, d.range) \in Nat
          /\ Part(t.take_profit, c.range) \in Nat /\ Part(t.take_profit, d.range) \in Nat
      BY <1>1, PartIs
    <2> QED
      BY <1>1, <2>1, <2>2, <2>3 DEF WithinRange
  <1>7. ValidTerms(t)
    BY DEF Accepted
  <1> QED
    BY <1>3, <1>4, <1>5, <1>6, <1>7 DEF Accepted

\* Every limit of a preset is within the same limit of the next.
LEMMA PresetsAlwaysNested == ASSUME TradeAccountTypeOK PROVE PresetsAreNested
  <1> DEFINE t == trade.terms
             p == market.spot
             quotes == market.quotes
             seen == {p} \cup {quotes[i] : i \in DOMAIN quotes}
             KeptBy(c, d, o) == Accepted(t, p, o, c) /\ RangeDefined(t, p, d.range)
                                => Accepted(t, p, o, d)
  <1>1. t \in TradeTerms /\ p \in Nat /\ quotes \in Seq(Words)
    BY TradeNumbers DEF TradeAccountTypeOK, TradeAccountType, MarketType
  <1>2. \A o \in seen : o \in Nat
    <2>1. \A i \in DOMAIN quotes : quotes[i] \in Words
      BY <1>1
    <2> QED
      BY <1>1, <2>1, RuntimeAssumption DEF Words
  <1>3. /\ \A c \in Presets : /\ c.slippage \in Nat /\ c.distance \in Nat /\ c.ratio \in Nat
                              /\ c.deviation \in Nat /\ c.range \in Nat
        /\ ValidConfig(Default) /\ ValidConfig(Aggressive)
    <2>1. \A c \in Presets : /\ c.slippage \in Nat /\ c.distance \in Nat /\ c.ratio \in Nat
                             /\ c.deviation \in Nat /\ c.range \in Nat
      BY PresetsAre DEF Presets, Default, Conservative, Aggressive, PriceConfig
    <2>2. ValidConfig(Default) /\ ValidConfig(Aggressive)
      BY PresetsAre DEF Default, Aggressive, PriceConfig, ValidConfig
    <2> QED
      BY <2>1, <2>2
  <1>4. /\ Conservative.slippage <= Default.slippage /\ Default.slippage <= Aggressive.slippage
        /\ Default.distance <= Conservative.distance /\ Aggressive.distance <= Default.distance
        /\ Default.ratio <= Conservative.ratio /\ Aggressive.ratio <= Default.ratio
        /\ Conservative.deviation <= Default.deviation /\ Default.deviation <= Aggressive.deviation
        /\ Conservative.range <= Default.range /\ Default.range <= Aggressive.range
    BY PresetsAre DEF Default, Conservative, Aggressive, PriceConfig
  <1>5. Conservative \in Presets /\ Default \in Presets /\ Aggressive \in Presets
    BY DEF Presets
  <1> HIDE DEF t, p, quotes, seen
  <1>6. ASSUME NEW o \in seen
        PROVE  KeptBy(Conservative, Default, o) /\ KeptBy(Default, Aggressive, o)
    <2>1. o \in Nat
      BY <1>2
    <2>2. KeptBy(Conservative, Default, o)
      BY <1>1, <1>3, <1>4, <1>5, <2>1, LooserAccepts
    <2>3. KeptBy(Default, Aggressive, o)
      BY <1>1, <1>3, <1>4, <1>5, <2>1, LooserAccepts
    <2> QED
      BY <2>2, <2>3
  <1> QED
    BY <1>6 DEF PresetsAreNested, t, p, quotes, seen

\* A sell keeps both its levels beyond the least distance, and a price that
\* is at least the stop loss and at most the take profit, each less or more
\* the range, would need them nearer.
LEMMA NoSellWithin ==
    ASSUME NEW E \in Nat \ {0}, NEW S \in Nat, NEW T \in Nat, NEW p \in Nat,
           NEW d \in Nat, NEW b \in Nat, b < d, b <= Points,
           T < E, S > E,
           PointsFrom(T, E) >= d, PointsFrom(S, E) >= d,
           p >= S - Part(S, b), p <= T + Part(T, b)
    PROVE  FALSE
  <1>1. Points \in Nat \ {0}
    BY TradeAccountAssumption
  <1>2. ASSUME NEW x \in Nat, PointsFrom(x, E) >= d PROVE d * E <= Apart(x, E) * Points
    <2> DEFINE all == Apart(x, E) * Points
    <2>1. all \in Nat
      <3>1. Apart(x, E) \in Nat
        BY DEF Apart
      <3> QED
        BY <1>1, <3>1
    <2> HIDE DEF all
    <2>2. all \div E \in Int /\ (all \div E) * E <= all /\ all \div E >= d
      BY <1>2, <2>1, QuotientBounds DEF PointsFrom, all
    <2>3. d * E <= (all \div E) * E
      BY <2>2, ProductGrows
    <2>4. d * E \in Int /\ (all \div E) * E \in Int
      BY <2>2
    <2> QED
      BY <2>1, <2>2, <2>3, <2>4 DEF all
  <1>3. d * E <= (E - T) * Points /\ d * E <= (S - E) * Points
    BY <1>2 DEF Apart
  <1>4. PICK ps, pt \in Nat : /\ ps = Part(S, b) /\ ps * Points <= S * b
                              /\ pt = Part(T, b) /\ pt * Points <= T * b
    BY PartIs
  <1>5. PICK g, h, X, Y \in Nat :
            g = S - E /\ h = E - T /\ X = Points - b /\ Y = Points + b
    BY <1>1
  <1>6. g + h <= pt + ps
    BY <1>4, <1>5
  <1>7. g * X + h * Y <= 2 * (E * b)
    <2>1. (g + h) * Points <= (pt + ps) * Points
      BY <1>1, <1>4, <1>5, <1>6, ProductGrows
    <2>2. /\ (g + h) * Points = g * Points + h * Points
          /\ (pt + ps) * Points = pt * Points + ps * Points
      BY <1>1, <1>4, <1>5
    <2>3. /\ g * X = g * Points - g * b
          /\ h * Y = h * Points + h * b
      BY <1>1, <1>5
    <2>4. S * b = E * b + g * b /\ T * b = E * b - h * b
      <3>1. S = E + g /\ T = E - h
        BY <1>5
      <3> QED
        BY <1>5, <3>1
    <2>5. PICK u, v, w, x \in Nat :
              u = g * Points /\ v = h * Points /\ w = pt * Points /\ x = ps * Points
      <3>1. \A n \in Nat : n * Points \in Nat
        BY <1>1
      <3>2. g \in Nat /\ h \in Nat /\ pt \in Nat /\ ps \in Nat
        OBVIOUS
      <3> QED
        BY <3>1, <3>2
    <2>6. PICK y, z, m, n, o \in Nat :
              y = T * b /\ z = S * b /\ m = g * b /\ n = h * b /\ o = E * b
      BY <1>5
    <2> QED
      BY <1>4, <2>1, <2>2, <2>3, <2>4, <2>5, <2>6
  <1>8. PICK e \in Nat : e = d * E
    OBVIOUS
  <1>9. e * X <= (g * Points) * X /\ e * Y <= (h * Points) * Y
    <2>1. e <= g * Points /\ e <= h * Points
      BY <1>3, <1>5, <1>8
    <2>2. g * Points \in Int /\ h * Points \in Int
      BY <1>1, <1>5
    <2> QED
      BY <1>5, <1>8, <2>1, <2>2, ProductGrows
  <1>10. 2 * (e * Points) <= 2 * ((E * b) * Points)
    <2>1. e * X + e * Y = 2 * (e * Points)
      BY <1>1, <1>5, <1>8
    <2>2. (g * Points) * X = (g * X) * Points /\ (h * Points) * Y = (h * Y) * Points
      BY <1>1, <1>5
    <2>3. (g * X + h * Y) * Points <= (2 * (E * b)) * Points
      BY <1>1, <1>5, <1>7, ProductGrows
    <2>4. /\ (g * X + h * Y) * Points = (g * X) * Points + (h * Y) * Points
          /\ (2 * (E * b)) * Points = 2 * ((E * b) * Points)
      BY <1>1, <1>5
    <2>5. PICK u, v, w, x, y, z \in Nat :
              /\ u = e * X /\ v = e * Y /\ w = (g * X) * Points
              /\ x = (h * Y) * Points /\ y = e * Points /\ z = (E * b) * Points
      BY <1>1, <1>5, <1>8
    <2> QED
      BY <1>9, <2>1, <2>2, <2>3, <2>4, <2>5
  <1>11. (E * b) * Points < e * Points
    <2>1. (b + 1) * E <= d * E
      BY ProductGrows
    <2>2. (b + 1) * E = E * b + E
      OBVIOUS
    <2>3. PICK o \in Nat : o = E * b
      OBVIOUS
    <2>4. (o + 1) * Points <= e * Points
      BY <1>1, <1>8, <2>1, <2>2, <2>3, ProductGrows
    <2>5. (o + 1) * Points = o * Points + Points /\ o * Points \in Nat /\ e * Points \in Nat
      BY <1>1, <1>8, <2>3
    <2> QED
      BY <1>1, <2>3, <2>4, <2>5
  <1>12. PICK u, v \in Nat : u = (E * b) * Points /\ v = e * Points
    BY <1>1, <1>8
  <1> QED
    BY <1>10, <1>11, <1>12

\* The range of either preset is narrower than the distance it asks for.
LEMMA NeverSellByDefault == ASSUME TradeAccountTypeOK PROVE NoSellByDefault
  <1> DEFINE t == trade.terms
             p == market.spot
  <1> SUFFICES ASSUME NEW c \in {Default, Conservative}, Accepted(t, p, p, c), ~Buys(t)
               PROVE  FALSE
    BY DEF NoSellByDefault
  <1>1. /\ p \in Nat /\ t.entry_price \in Nat /\ t.take_profit \in Nat /\ t.stop_loss \in Nat
    BY TradeNumbers
  <1>2. c.distance \in Nat /\ c.range \in Nat /\ c.range < c.distance /\ c.range <= Points
    BY PresetsAre DEF Default, Conservative, PriceConfig
  <1> HIDE DEF t, p
  <1>3. t.entry_price # 0 /\ t.take_profit < t.entry_price /\ t.stop_loss > t.entry_price
    BY DEF Accepted, ValidTerms
  <1>4. /\ PointsFrom(t.take_profit, t.entry_price) >= c.distance
        /\ PointsFrom(t.stop_loss, t.entry_price) >= c.distance
    BY DEF Accepted, DistancesOK, Beyond
  <1>5. /\ p >= t.stop_loss - Part(t.stop_loss, c.range)
        /\ p <= t.take_profit + Part(t.take_profit, c.range)
    BY DEF Accepted, WithinRange
  <1> QED
    BY <1>1, <1>2, <1>3, <1>4, <1>5, NoSellWithin

LEMMA TradeAccountInvSuffices == ASSUME TradeAccountInv PROVE TradeConsistent
  <1>1. TradeAccountTypeOK /\ NoBreakerWithoutAuthority /\ ClosedOnceUnlessForced
    BY DEF TradeAccountInv, ClosedOnceUnlessForced
  <1>2. PnlsAgree /\ PercentageAgrees /\ NeverBothLevels
    BY TradeInvFigures
  <1> QED
    BY <1>1, <1>2, EntryAlwaysNearEveryOracle, NoOracleMovesConsensus,
       PresetsAlwaysNested, NeverSellByDefault, QuotesAlwaysAgainstTrader
       DEF TradeConsistent

\* A trade is consistent in every state that its methods reach: its status
\* leaves Active once unless it is forced, its figures agree, and what its
\* checks say together of oracles, presets and quotes holds for every price,
\* every number of oracles and every width of a word (state/trade.rs).
THEOREM TradeStaysConsistent == TradeAccountSpec => []TradeConsistent
  <1>1. TradeAccountSpec => []TradeAccountInv
    BY TradeAccountStarts, TradeAccountStep, PTL DEF TradeAccountSpec
  <1> QED
    BY <1>1, TradeAccountInvSuffices, PTL

-----------------------------------------------------------------------------
(* Arithmetic *)

\* The words of a triple are natural numbers.
LEMMA TripleNumbers ==
    ASSUME FixedPointInit
    PROVE  first \in Nat /\ second \in Nat /\ third \in Nat /\ Root \in Nat /\ Wide \in Nat
  BY FixedPointAssumption DEF FixedPointInit

\* The negation of zero has no sign.
LEMMA NegatedZero ==
    ASSUME NEW x \in Int, x = 0
    PROVE  Sign(-x) = 0
  <1> DEFINE n == -x
  <1>1. n \in Int /\ n + x = 0
    OBVIOUS
  <1> HIDE DEF n
  <1>2. n = 0
    BY <1>1
  <1>3. Sign(n) = 0
    BY <1>2 DEF Sign
  <1> QED
    BY <1>3 DEF n

\* The quotient of the machine by a positive divisor, and its remainder.
LEMMA MachineQuotient ==
    ASSUME NEW x \in Int, NEW y \in Nat \ {0}
    PROVE  /\ x >= 0 => Quotient(x, y) = x \div y
           /\ x <= 0 => Quotient(x, y) = -((-x) \div y)
           /\ Quotient(x, y) \in Int
           /\ Remainder(x, y) = x - y * Quotient(x, y)
  <1>1. Abs(y) = y /\ Sign(y) = 1
    BY DEF Abs, Sign
  <1>2. Remainder(x, y) = x - y * Quotient(x, y)
    BY DEF Remainder
  <1>3. CASE x > 0
    <2>1. Quotient(x, y) = 1 * 1 * (x \div y)
      BY <1>1, <1>3 DEF Quotient, Abs, Sign
    <2>2. x \div y \in Int
      BY QuotientBounds
    <2> QED
      BY <1>2, <1>3, <2>1, <2>2
  <1>4. CASE x = 0
    <2>1. 0 \div y = 0
      BY MultipleDivides
    <2>2. Quotient(x, y) = 0 * 1 * (0 \div y)
      BY <1>1, <1>4 DEF Quotient, Abs, Sign
    <2>3. Quotient(x, y) = 0
      BY <2>1, <2>2
    <2> QED
      BY <1>2, <1>4, <2>1, <2>3
  <1>5. CASE x < 0
    <2>1. Quotient(x, y) = (-1) * 1 * ((-x) \div y)
      BY <1>1, <1>5 DEF Quotient, Abs, Sign
    <2>2. (-x) \div y \in Int
      BY QuotientBounds
    <2> QED
      BY <1>2, <1>5, <2>1, <2>2
  <1> QED
    BY <1>3, <1>4, <1>5

\* For a value and its negation.
LEMMA CeilRoundsUp ==
    ASSUME NEW x \in Int, NEW y \in Nat \ {0}
    PROVE  LET q == CeilDiv(x, y) IN x <= q * y /\ (q - 1) * y < x
  <1> DEFINE c == Quotient(x, y)
             r == Remainder(x, y)
             q == CeilDiv(x, y)
  <1>1. /\ x >= 0 => c = x \div y
        /\ x <= 0 => c = -((-x) \div y)
        /\ c \in Int /\ r = x - y * c
    BY MachineQuotient
  <1>2. q = c + (IF r > 0 THEN 1 ELSE 0)
    BY DEF CeilDiv
  <1> HIDE DEF c, r, q
  <1>3. PICK p \in Int : p = c * y
    BY <1>1
  <1>4. /\ y * c = p
        /\ (c + 1) * y = p + y
        /\ (c - 1) * y = p - y
    BY <1>1, <1>3
  <1>5. r = x - p
    BY <1>1, <1>4
  <1>6. x - p < y /\ (x >= 0 => p <= x) /\ (x <= 0 => x <= p /\ p < x + y)
    <2>1. CASE x >= 0
      <3>1. c * y <= x /\ x < c * y + y
        BY <1>1, <2>1, QuotientBounds
      <3>2. p <= x /\ x < p + y
        BY <1>3, <3>1
      <3>3. x = 0 => p = 0
        <4>1. 0 \div y = 0
          <5>1. 0 * y = 0
            OBVIOUS
          <5> QED
            BY <5>1, MultipleDivides
        <4> QED
          BY <1>1, <1>3, <4>1
      <3> QED
        BY <2>1, <3>2, <3>3
    <2>2. CASE x < 0
      <3> DEFINE h == (-x) \div y
      <3>1. h \in Int /\ h * y <= -x /\ -x < h * y + y
        BY QuotientBounds
      <3>2. c = -h
        BY <1>1, <2>2
      <3> HIDE DEF h
      <3>3. PICK g \in Int : g = h * y
        BY <3>1
      <3>4. p = -g
        BY <1>3, <3>1, <3>2, <3>3
      <3>5. g <= -x /\ -x < g + y
        BY <3>1, <3>3
      <3> QED
        BY <2>2, <3>4, <3>5
    <2> QED
      BY <2>1, <2>2
  <1>7. CASE r > 0
    <2>1. q = c + 1 /\ q - 1 = c
      BY <1>1, <1>2, <1>7
    <2>2. q * y = p + y /\ (q - 1) * y = p
      BY <1>3, <1>4, <2>1
    <2> QED
      BY <1>5, <1>6, <1>7, <2>2 DEF q
  <1>8. CASE ~(r > 0)
    <2>1. q = c
      BY <1>1, <1>2, <1>8
    <2>2. q * y = p /\ (q - 1) * y = p - y
      BY <1>3, <1>4, <2>1
    <2>3. x <= p /\ p - y < x
      BY <1>5, <1>6, <1>8
    <2> QED
      BY <2>2, <2>3 DEF q
  <1> QED
    BY <1>7, <1>8

LEMMA CeilDivAlwaysRoundsUp == ASSUME FixedPointInit PROVE CeilDivRoundsUp
  BY TripleNumbers, CeilRoundsUp DEF CeilDivRoundsUp

\* Value, multiple and remainder.
LEMMA Splits ==
    ASSUME NEW x \in Int, NEW y \in Nat \ {0}
    PROVE  LET m == Standardized(x, y)
               r == StepRemainder(x, y)
           IN  /\ m + r = x
               /\ Abs(m) % y = 0
               /\ Abs(r) < y
               /\ Abs(m) <= Abs(x)
               /\ m \in Int /\ r \in Int
               /\ x >= 0 => r = x % y /\ m = (x \div y) * y
  <1> DEFINE a == Abs(x)
             k == a \div y
             rest == a % y
             m == Standardized(x, y)
             r == StepRemainder(x, y)
  <1>1. a \in Nat /\ (x >= 0 => a = x) /\ (x < 0 => a = -x)
    BY DEF Abs
  <1>2. r = rest * Sign(x) /\ m = x - r
    BY DEF StepRemainder, Standardized
  <1> HIDE DEF a, m, r
  <1>3. /\ k \in Nat /\ rest \in 0 .. y - 1
        /\ a = k * y + rest
    <2>1. k \in Nat
      BY <1>1, QuotientIsNat
    <2>2. a \in Int
      BY <1>1
    <2>3. rest \in 0 .. y - 1 /\ a = k * y + rest
      BY <2>2, RemainderIs
    <2> QED
      BY <2>1, <2>3
  <1> HIDE DEF k, rest
  <1>4. (k * y) % y = 0
    BY <1>3, MultipleDivides
  <1>5. k * y \in Nat
    BY <1>3
  <1>6. PICK p \in Nat : p = k * y
    BY <1>5
  <1>7. a = p + rest /\ p % y = 0 /\ rest \in Nat /\ rest < y
    BY <1>3, <1>4, <1>6
  <1>8. ASSUME x > 0
         PROVE
           /\ m + r = x /\ m \in Int /\ r \in Int
           /\ Abs(m) = p /\ Abs(r) = rest
           /\ x >= 0 => r = rest /\ m = p
    <2>1. Sign(x) = 1
      BY <1>8 DEF Sign
    <2>2. r = rest
      BY <1>2, <1>7, <2>1
    <2>3. m = p
      BY <1>1, <1>2, <1>7, <1>8, <2>2
    <2>4. Abs(m) = p /\ Abs(r) = rest
      BY <1>7, <2>2, <2>3 DEF Abs
    <2> QED
      BY <1>1, <1>7, <1>8, <2>2, <2>3, <2>4
  <1>9. ASSUME x = 0
         PROVE
           /\ m + r = x /\ m \in Int /\ r \in Int
           /\ Abs(m) = p /\ Abs(r) = rest
           /\ x >= 0 => r = rest /\ m = p
    <2>1. Sign(x) = 0 /\ p = 0 /\ rest = 0
      BY <1>1, <1>7, <1>9 DEF Sign
    <2>2. r = 0 /\ m = 0
      BY <1>2, <1>9, <2>1
    <2>3. Abs(m) = p /\ Abs(r) = rest
      BY <2>1, <2>2 DEF Abs
    <2> QED
      BY <1>1, <1>7, <1>9, <2>1, <2>2, <2>3
  <1>10. ASSUME x < 0
         PROVE
           /\ m + r = x /\ m \in Int /\ r \in Int
           /\ Abs(m) = p /\ Abs(r) = rest
           /\ x >= 0 => r = rest /\ m = p
    <2>1. Sign(x) = -1
      BY <1>10 DEF Sign
    <2>2. r = -rest
      BY <1>2, <1>7, <2>1
    <2>3. m = -p
      BY <1>1, <1>2, <1>7, <1>10, <2>2
    <2>4. Abs(m) = p /\ Abs(r) = rest
      BY <1>7, <2>2, <2>3 DEF Abs
    <2> QED
      BY <1>1, <1>7, <1>10, <2>2, <2>3, <2>4
  <1>11. /\ m + r = x /\ m \in Int /\ r \in Int
         /\ Abs(m) = p /\ Abs(r) = rest
         /\ x >= 0 => r = rest /\ m = p
    BY <1>8, <1>9, <1>10
  <1>12. x >= 0 => rest = x % y /\ p = (x \div y) * y
    BY <1>1, <1>6 DEF rest, k
  <1>13. Abs(m) % y = 0 /\ Abs(r) < y /\ Abs(m) <= a
    BY <1>7, <1>11
  <1>14. x >= 0 => r = x % y /\ m = (x \div y) * y
    BY <1>11, <1>12
  <1>15. Abs(m) <= Abs(x)
    BY <1>13 DEF a
  <1> QED
    BY <1>11, <1>13, <1>14, <1>15 DEF m, r

LEMMA StandardizedAlwaysSplits == ASSUME FixedPointInit PROVE StandardizedSplits
  <1> SUFFICES ASSUME second > 0, NEW x \in {first, -first}
               PROVE  LET m == Standardized(x, second)
                          r == StepRemainder(x, second)
                      IN  /\ m + r = x
                          /\ Abs(m) % second = 0
                          /\ Abs(r) < second
                          /\ Abs(m) <= Abs(x)
    BY DEF StandardizedSplits
  <1>1. x \in Int /\ second \in Nat \ {0}
    BY TripleNumbers
  <1> QED
    BY <1>1, Splits

\* The complement, rounded up, is what rounding down leaves.
LEMMA ProportionIs ==
    ASSUME NEW v \in Nat, NEW n \in Nat, NEW d \in Nat \ {0}
    PROVE  Proportion(v, n, d) = (v * n) \div d
  <1>1. CASE n = d
    BY <1>1, MultipleDivides DEF Proportion
  <1>2. CASE n # d /\ ~((v < Root /\ n < Root) /\ Complement(v, n, d))
    BY <1>2 DEF Proportion
  <1>3. CASE n # d /\ (v < Root /\ n < Root) /\ Complement(v, n, d)
    <2> DEFINE rest == v * (d - n)
               k == rest \div d
               r == rest % d
    <2>1. d > n
      BY <1>3 DEF Complement
    <2>2. rest \in Nat
      BY <2>1
    <2>3. rest = v * d - v * n /\ v * d \in Nat /\ v * n \in Nat
      BY <2>1
    <2>4. Proportion(v, n, d)
            = v - Standardized(rest, d) \div d - Sign(StepRemainder(rest, d))
      BY <1>3 DEF Proportion
    <2> HIDE DEF rest
    <2>5. StepRemainder(rest, d) = r /\ Standardized(rest, d) = k * d
      <3>1. rest \in Int /\ rest >= 0
        BY <2>2
      <3>2. rest >= 0 => /\ StepRemainder(rest, d) = rest % d
                         /\ Standardized(rest, d) = (rest \div d) * d
        BY <3>1, Splits
      <3> QED
        BY <3>1, <3>2
    <2>6. k \in Nat /\ r \in 0 .. d - 1 /\ rest = k * d + r
      <3>1. k \in Nat
        BY <2>2, QuotientIsNat
      <3>2. rest \in Int
        BY <2>2
      <3>3. r \in 0 .. d - 1 /\ rest = k * d + r
        BY <3>2, RemainderIs
      <3> QED
        BY <3>1, <3>3
    <2> HIDE DEF k, r
    <2>7. (k * d) \div d = k
      BY <2>6, MultipleDivides
    <2> DEFINE q == v - k - Sign(r)
    <2>8. Proportion(v, n, d) = q
      BY <2>4, <2>5, <2>7
    <2>9. /\ r = 0 => Sign(r) = 0
          /\ r > 0 => Sign(r) = 1
      BY <2>6 DEF Sign
    <2>10. /\ k * d \in Nat
           /\ (v - k) * d = v * d - k * d
           /\ (v - k - 1) * d = v * d - k * d - d
      BY <2>6
    <2>11. q \in Int /\ q * d <= v * n /\ v * n < q * d + d
      <3>1. CASE r = 0
        <4>1. q = v - k
          BY <2>6, <2>9, <3>1
        <4> QED
          BY <2>3, <2>6, <2>10, <3>1, <4>1
      <3>2. CASE r > 0
        <4>1. q = v - k - 1
          BY <2>6, <2>9, <3>2
        <4> QED
          BY <2>3, <2>6, <2>10, <3>2, <4>1
      <3> QED
        BY <2>6, <3>1, <3>2
    <2> HIDE DEF q
    <2>12. (v * n) \div d = q
      BY <2>3, <2>11, QuotientIs
    <2> QED
      BY <2>8, <2>12
  <1> QED
    BY <1>1, <1>2, <1>3

LEMMA ProportionAlwaysExact == ASSUME FixedPointInit PROVE ProportionIsExact
  <1> SUFFICES ASSUME third # 0
               PROVE  /\ Proportion(first, second, third) = (first * second) \div third
                      /\ second <= third => Proportion(first, second, third) <= first
    BY DEF ProportionIsExact
  <1>1. first \in Nat /\ second \in Nat /\ third \in Nat \ {0}
    BY TripleNumbers
  <1>2. Proportion(first, second, third) = (first * second) \div third
    BY <1>1, ProportionIs
  <1>3. ASSUME second <= third PROVE (first * second) \div third <= first
    <2>1. second * first <= third * first
      BY <1>1, <1>3, ProductGrows
    <2>2. first * second <= first * third /\ first * second \in Int /\ first * third \in Int
      BY <1>1, <2>1
    <2>3. (first * second) \div third <= (first * third) \div third
      BY <1>1, <2>2, QuotientGrows
    <2>4. (first * third) \div third = first
      BY <1>1, MultipleDivides
    <2> QED
      BY <2>3, <2>4
  <1> QED
    BY <1>2, <1>3

LEMMA ProportionAlwaysOdd == ASSUME FixedPointInit PROVE ProportionIsOdd
  <1> SUFFICES ASSUME third # 0
               PROVE  SignedProportion(-first, second, third)
                        = -((first * second) \div third)
    BY DEF ProportionIsOdd
  <1>1. first \in Nat /\ second \in Nat /\ third \in Nat \ {0}
    BY TripleNumbers
  <1>2. Abs(-first) = first
    BY <1>1 DEF Abs
  <1> DEFINE q == (first * second) \div third
  <1>3. q \in Int
    <2>1. first * second \in Int
      BY <1>1
    <2> QED
      BY <1>1, <2>1, QuotientBounds
  <1>4. SignedProportion(-first, second, third) = q * Sign(-first)
    BY <1>1, <1>2, ProportionIs DEF SignedProportion
  <1>5. CASE first = 0
    <2>1. first * second = 0 * third
      BY <1>1, <1>5
    <2>2. q = 0
      <3>1. (0 * third) \div third = 0
        BY <1>1, MultipleDivides
      <3> QED
        BY <2>1, <3>1
    <2> HIDE DEF q
    <2>3. Sign(-first) = 0
      BY <1>1, <1>5, NegatedZero
    <2>4. q * Sign(-first) = -q
      BY <2>2, <2>3
    <2> QED
      BY <1>4, <2>4 DEF q
  <1>6. CASE first > 0
    <2> HIDE DEF q
    <2>1. Sign(-first) = -1
      BY <1>1, <1>6 DEF Sign
    <2>2. q * Sign(-first) = -q
      BY <1>3, <2>1
    <2> QED
      BY <1>4, <2>2 DEF q
  <1> QED
    BY <1>1, <1>5, <1>6

\* The quotient and the remainder of a negated number.
LEMMA NegatedQuotient ==
    ASSUME NEW a \in Nat, NEW b \in Nat \ {0}
    PROVE  /\ (-a) \div b = -(a \div b) - (IF a % b # 0 THEN 1 ELSE 0)
           /\ (-a) % b # 0 <=> a % b # 0
  <1> DEFINE k == a \div b
             r == a % b
             n == -a
  <1>1. k \in Nat
    BY QuotientIsNat
  <1>2. r \in 0 .. b - 1 /\ a = k * b + r
    BY RemainderIs
  <1>3. n \in Int /\ n = -a
    OBVIOUS
  <1> HIDE DEF k, r, n
  <1>4. PICK p \in Nat : p = k * b
    BY <1>1
  <1>5. /\ (-k) * b = -p
        /\ (-k - 1) * b = -p - b
    BY <1>1, <1>4
  <1>6. n % b \in 0 .. b - 1 /\ n = (n \div b) * b + (n % b)
    BY <1>3, RemainderIs
  <1>7. CASE r = 0
    <2>1. n = -p
      BY <1>2, <1>3, <1>4, <1>7
    <2>2. -k \in Int /\ (-k) * b <= n /\ n < (-k) * b + b
      BY <1>1, <1>4, <1>5, <2>1
    <2>3. n \div b = -k
      BY <1>3, <2>2, QuotientIs
    <2>4. n % b \in Nat /\ n = -p + (n % b)
      BY <1>1, <1>5, <1>6, <2>3
    <2>5. n % b = 0
      <3>1. PICK o \in Nat : o = n % b
        BY <2>4
      <3>2. n = -p + o
        BY <2>4, <3>1
      <3>3. o = 0
        BY <1>4, <2>1, <3>2
      <3> QED
        BY <3>1, <3>3
    <2>6. n \div b = -k - (IF r # 0 THEN 1 ELSE 0) /\ (n % b # 0 <=> r # 0)
      BY <1>1, <1>7, <2>3, <2>5
    <2> QED
      BY <2>6 DEF k, r, n
  <1>8. CASE r # 0
    <2>1. n = -p - r /\ r \in 1 .. b - 1
      BY <1>2, <1>3, <1>4, <1>8
    <2>2. -k - 1 \in Int /\ (-k - 1) * b <= n /\ n < (-k - 1) * b + b
      BY <1>1, <1>4, <1>5, <2>1
    <2>3. n \div b = -k - 1
      BY <1>3, <2>2, QuotientIs
    <2>4. n = -p - b + (n % b)
      BY <1>5, <1>6, <2>3
    <2>5. n % b # 0
      BY <1>4, <1>6, <2>1, <2>4
    <2>6. n \div b = -k - (IF r # 0 THEN 1 ELSE 0) /\ (n % b # 0 <=> r # 0)
      BY <1>1, <1>8, <2>3, <2>5
    <2> QED
      BY <2>6 DEF k, r, n
  <1> QED
    BY <1>7, <1>8

\* What floor division gives for each pair of signs.
LEMMA FloorIs ==
    ASSUME NEW a \in Nat, NEW b \in Nat \ {0}
    PROVE  LET k == a \div b
               rest == IF a % b # 0 THEN 1 ELSE 0
           IN  /\ FloorDiv(a, b) = k - rest
               /\ FloorDiv(-a, b) = -k - rest
               /\ FloorDiv(a, -b) = -k - rest
               /\ FloorDiv(-a, -b) = k - rest
  <1> DEFINE k == a \div b
             r == a % b
  <1>1. k \in Nat
    BY QuotientIsNat
  <1>2. r \in 0 .. b - 1 /\ a = k * b + r
    BY RemainderIs
  <1>3. a = 0 => k = 0
    <2>1. (0 * b) \div b = 0 /\ 0 * b = 0
      BY MultipleDivides
    <2> QED
      BY <2>1
  <1> HIDE DEF k, r
  <1>4. PICK p \in Nat : p = k * b
    BY <1>1
  <1>5. /\ b * k = p /\ b * (-k) = -p
        /\ (-b) * k = -p /\ (-b) * (-k) = p
    BY <1>1, <1>4
  <1>6. Abs(a) = a /\ Abs(-a) = a /\ Abs(b) = b /\ Abs(-b) = b
    BY DEF Abs
  <1>7. Sign(b) = 1 /\ Sign(-b) = -1
    BY DEF Sign
  <1>8. \/ a = 0 /\ Sign(a) = 0 /\ Sign(-a) = 0
        \/ a > 0 /\ Sign(a) = 1 /\ Sign(-a) = -1
    <2>1. CASE a = 0
      <3>1. Sign(-a) = 0
        BY <2>1, NegatedZero
      <3>2. Sign(a) = 0
        BY <2>1 DEF Sign
      <3> QED
        BY <2>1, <3>1, <3>2
    <2>2. CASE a > 0
      BY <2>2 DEF Sign
    <2> QED
      BY <2>1, <2>2
  <1>9. /\ Quotient(a, b) = Sign(a) * Sign(b) * k
        /\ Quotient(-a, b) = Sign(-a) * Sign(b) * k
        /\ Quotient(a, -b) = Sign(a) * Sign(-b) * k
        /\ Quotient(-a, -b) = Sign(-a) * Sign(-b) * k
    BY <1>6 DEF Quotient, k
  <1>10. /\ Quotient(a, b) = k /\ Quotient(-a, b) = -k
         /\ Quotient(a, -b) = -k /\ Quotient(-a, -b) = k
    <2>1. CASE a = 0
      <3>1. Sign(a) = 0 /\ Sign(-a) = 0 /\ k = 0
        BY <1>3, <1>8, <2>1
      <3> QED
        BY <1>7, <1>9, <3>1
    <2>2. CASE a > 0
      <3>1. Sign(a) = 1 /\ Sign(-a) = -1
        BY <1>8, <2>2
      <3> QED
        BY <1>1, <1>7, <1>9, <3>1
    <2> QED
      BY <2>1, <2>2
  <1>11. /\ Remainder(a, b) = a - p /\ Remainder(-a, b) = -a + p
         /\ Remainder(a, -b) = a - p /\ Remainder(-a, -b) = -a + p
    BY <1>4, <1>5, <1>10 DEF Remainder
  <1>12. a = p + r
    BY <1>2, <1>4
  <1>13. /\ Remainder(a, b) # 0 <=> r # 0
         /\ Remainder(-a, b) # 0 <=> r # 0
         /\ Remainder(a, -b) # 0 <=> r # 0
         /\ Remainder(-a, -b) # 0 <=> r # 0
    BY <1>2, <1>4, <1>11, <1>12
  <1> DEFINE rest == IF r # 0 THEN 1 ELSE 0
  <1>14. /\ FloorDiv(a, b) = k - rest
         /\ FloorDiv(-a, b) = -k - rest
         /\ FloorDiv(a, -b) = -k - rest
         /\ FloorDiv(-a, -b) = k - rest
    BY <1>10, <1>13 DEF FloorDiv
  <1> QED
    BY <1>14 DEF k, r

LEMMA FloorDivAlwaysRoundsTwice == ASSUME FixedPointInit PROVE FloorDivRoundsTwice
  <1> SUFFICES ASSUME second > 0,
                      NEW x \in {first, -first}, NEW y \in {second, -second}
               PROVE  LET q == FloorDiv(x, y)
                          down == IF y > 0 THEN x \div y ELSE (-x) \div (-y)
                      IN  q = IF Sign(x) * Sign(y) > 0 /\ x % Abs(y) # 0
                              THEN down - 1 ELSE down
    BY DEF FloorDivRoundsTwice
  <1> DEFINE a == first
             b == second
             k == a \div b
             r == a % b
             rest == IF r # 0 THEN 1 ELSE 0
  <1>1. a \in Nat /\ b \in Nat \ {0}
    BY TripleNumbers
  <1> HIDE DEF a, b
  <1>2. /\ FloorDiv(a, b) = k - rest /\ FloorDiv(-a, b) = -k - rest
        /\ FloorDiv(a, -b) = -k - rest /\ FloorDiv(-a, -b) = k - rest
    BY <1>1, FloorIs
  <1>3. (-a) \div b = -k - rest /\ ((-a) % b # 0 <=> r # 0)
    BY <1>1, NegatedQuotient
  <1>4. k \in Nat
    BY <1>1, QuotientIsNat
  <1>5. r \in 0 .. b - 1 /\ a = k * b + r
    BY <1>1, RemainderIs
  <1>6. a = 0 => k = 0 /\ r = 0
    <2>1. 0 * b = 0 /\ (0 * b) % b = 0 /\ (0 * b) \div b = 0
      BY <1>1, MultipleDivides
    <2> QED
      BY <2>1
  <1> HIDE DEF k, r
  <1>7. Abs(b) = b /\ Abs(-b) = b /\ Sign(b) = 1 /\ Sign(-b) = -1
    BY <1>1 DEF Abs, Sign
  <1>8. a > 0 => Sign(a) = 1 /\ Sign(-a) = -1
    BY <1>1 DEF Sign
  <1>9. a = 0 => Sign(a) = 0 /\ Sign(-a) = 0
    <2>1. a = 0 => Sign(a) = 0
      BY DEF Sign
    <2>2. a = 0 => Sign(-a) = 0
      BY <1>1, NegatedZero
    <2> QED
      BY <2>1, <2>2
  <1>10. k - rest \in Int /\ -k - rest \in Int /\ rest \in {0, 1} /\ (rest = 1 <=> r # 0)
    BY <1>4
  <1>11. a = 0 => k = 0 /\ rest = 0
    BY <1>6, <1>10
  <1>12. CASE x = a /\ y = b
    <2>1. y > 0 /\ x \div y = k /\ x % Abs(y) = r
      BY <1>1, <1>7, <1>12 DEF k, r
    <2>2. Sign(x) * Sign(y) > 0 <=> a > 0
      BY <1>1, <1>7, <1>8, <1>9, <1>12
    <2> QED
      BY <1>1, <1>2, <1>4, <1>10, <1>11, <1>12, <2>1, <2>2
  <1>13. CASE x = -a /\ y = b
    <2>1. y > 0 /\ x \div y = -k - rest
      BY <1>1, <1>3, <1>13
    <2>2. ~(Sign(x) * Sign(y) > 0)
      BY <1>1, <1>7, <1>8, <1>9, <1>13
    <2> QED
      BY <1>2, <1>13, <2>1, <2>2
  <1>14. CASE x = a /\ y = -b
    <2>1. ~(y > 0) /\ -y = b /\ -x = -a
      BY <1>1, <1>14
    <2>2. ~(Sign(x) * Sign(y) > 0)
      BY <1>1, <1>7, <1>8, <1>9, <1>14
    <2>3. (-x) \div (-y) = -k - rest
      BY <1>3, <2>1
    <2> QED
      BY <1>2, <1>14, <2>1, <2>2, <2>3
  <1>15. CASE x = -a /\ y = -b
    <2>1. ~(y > 0) /\ -y = b /\ -x = a
      BY <1>1, <1>15
    <2>2. (-x) \div (-y) = k
      BY <2>1 DEF k
    <2>3. Sign(x) * Sign(y) > 0 <=> a > 0
      BY <1>1, <1>7, <1>8, <1>9, <1>15
    <2>4. x % Abs(y) # 0 <=> r # 0
      BY <1>3, <1>7, <1>15
    <2> QED
      BY <1>1, <1>2, <1>4, <1>10, <1>11, <1>15, <2>1, <2>2, <2>3, <2>4
  <1> QED
    BY <1>12, <1>13, <1>14, <1>15 DEF a, b

\* The wait ends on a multiple; a third of the period separates the cases.
LEMMA NextUpdateAlwaysOnTheHour == ASSUME FixedPointInit PROVE NextUpdateOnTheHour
  <1> SUFFICES ASSUME third > 1
               PROVE  LET wait == NextWait(first, third) IN
                      /\ (first + wait) % third = 0
                      /\ 3 * wait >= 2 * third
                      /\ 3 * wait <= 5 * third
                      /\ second >= first =>
                           TimeRemaining(second, first, third) \in 0 .. wait
    BY DEF NextUpdateOnTheHour
  <1> DEFINE wait == NextWait(first, third)
             k == first \div third
             delay == first % third
             part == third \div 3
  <1>1. first \in Nat /\ second \in Nat /\ third \in Nat \ {0, 1}
    BY TripleNumbers
  <1>2. delay \in 0 .. third - 1 /\ first = k * third + delay
    BY <1>1, RemainderIs
  <1>3. k \in Nat
    BY <1>1, QuotientIsNat
  <1>4. part \in Int /\ part * 3 <= third /\ third < part * 3 + 3
    BY <1>1, QuotientBounds
  <1>5. wait = IF delay = 0 THEN third
               ELSE IF delay > part THEN 2 * third - delay
               ELSE third - delay
    BY <1>1 DEF NextWait
  <1>6. TimeRemaining(second, first, third)
          = LET left == wait - (second - first) IN IF left > 0 THEN left ELSE 0
    BY DEF TimeRemaining
  <1> HIDE DEF wait, k, delay, part
  <1>7. PICK p \in Nat : p = k * third
    BY <1>1, <1>3
  <1>8. (k + 1) * third = p + third /\ (k + 2) * third = p + 2 * third
    BY <1>1, <1>3, <1>7
  <1>9. (p + third) % third = 0 /\ (p + 2 * third) % third = 0
    <2>1. k + 1 \in Int /\ k + 2 \in Int
      BY <1>3
    <2>2. ((k + 1) * third) % third = 0 /\ ((k + 2) * third) % third = 0
      BY <1>1, <2>1, MultipleDivides
    <2> QED
      BY <1>8, <2>2
  <1>10. /\ first + wait \in {p + third, p + 2 * third}
         /\ wait \in Nat /\ 3 * wait >= 2 * third /\ 3 * wait <= 5 * third
    BY <1>1, <1>2, <1>4, <1>5, <1>7
  <1>11. (first + wait) % third = 0
    BY <1>9, <1>10
  <1>12. second >= first => TimeRemaining(second, first, third) \in 0 .. wait
    BY <1>1, <1>6, <1>10
  <1> QED
    BY <1>10, <1>11, <1>12 DEF wait

\* Every helper of the arithmetic library rounds as its branches promise, for
\* words of any width: the four branches of get_proportion_u128 give the exact
\* proportion rounded down, and the next update falls on a multiple of the
\* period (math/, helpers.rs).
THEOREM ArithmeticIsCorrect == FixedPointInit => ArithmeticCorrect
  BY CeilDivAlwaysRoundsUp, FloorDivAlwaysRoundsTwice, StandardizedAlwaysSplits,
     ProportionAlwaysExact, ProportionAlwaysOdd, NextUpdateAlwaysOnTheHour
     DEF ArithmeticCorrect

-----------------------------------------------------------------------------
(* Powers of ten *)

\* The recursion that defines the powers.
TenStep(g, n) == IF n = 0 THEN 1 ELSE 10 * g[n - 1]

\* There are powers of ten up to any number, and so there are all of them.
LEMMA TenExists == \E g \in [Nat -> Nat] : g = [n \in Nat |-> TenStep(g, n)]
  <1> DEFINE UpTo(g, n) == \A k \in 0 .. n : g[k] = TenStep(g, k)
             Good(n) == \E g \in [Nat -> Nat] : UpTo(g, n)
             Bad == {n \in Nat : ~Good(n)}
  <1>1. Good(0)
    <2> DEFINE g == [n \in Nat |-> 1]
    <2>1. g \in [Nat -> Nat] /\ UpTo(g, 0)
      BY DEF TenStep
    <2> HIDE DEF g
    <2> QED
      BY <2>1
  <1>2. ASSUME NEW n \in Nat, Good(n) PROVE Good(n + 1)
    <2>1. PICK g \in [Nat -> Nat] : UpTo(g, n)
      BY <1>2
    <2> DEFINE h == [k \in Nat |-> IF k <= n THEN g[k] ELSE 10 * g[n]]
    <2>2. h \in [Nat -> Nat]
      OBVIOUS
    <2>3. ASSUME NEW k \in 0 .. n + 1 PROVE h[k] = TenStep(h, k)
      <3>1. CASE k <= n
        BY <2>1, <3>1 DEF TenStep
      <3>2. CASE k = n + 1
        BY <2>1, <3>2 DEF TenStep
      <3> QED
        BY <3>1, <3>2
    <2> HIDE DEF h
    <2> QED
      BY <2>2, <2>3
  <1>3. ASSUME NEW n \in Nat PROVE Good(n)
    <2> SUFFICES ASSUME Bad # {} PROVE FALSE
      OBVIOUS
    <2>1. PICK m \in Bad : \A k \in Bad : m <= k
      <3>1. Bad \in SUBSET Nat
        OBVIOUS
      <3> HIDE DEF Bad
      <3> QED
        BY <3>1, LeastNumber
    <2>2. m \in Nat /\ ~Good(m)
      OBVIOUS
    <2> HIDE DEF Good
    <2>3. m # 0
      BY <1>1, <2>2
    <2>4. m - 1 \in Nat /\ m - 1 \notin Bad
      BY <2>1, <2>2, <2>3
    <2>5. Good(m - 1)
      BY <2>4
    <2>6. Good((m - 1) + 1)
      BY <1>2, <2>4, <2>5
    <2>7. (m - 1) + 1 = m
      BY <2>2
    <2> QED
      BY <2>2, <2>6, <2>7
  <1> DEFINE G(n) == CHOOSE g \in [Nat -> Nat] : UpTo(g, n)
  <1>4. ASSUME NEW n \in Nat PROVE G(n) \in [Nat -> Nat] /\ UpTo(G(n), n)
    <2> HIDE DEF UpTo
    <2> QED
      BY <1>3
  <1> HIDE DEF G
  <1>5. ASSUME NEW n \in Nat, n # 0 PROVE G(n)[n - 1] = G(n - 1)[n - 1]
    <2> DEFINE Off == {k \in 0 .. n - 1 : G(n)[k] # G(n - 1)[k]}
    <2> SUFFICES ASSUME Off # {} PROVE FALSE
      BY <1>5
    <2>1. PICK m \in Off : \A k \in Off : m <= k
      <3>1. Off \in SUBSET Nat
        OBVIOUS
      <3> HIDE DEF Off
      <3> QED
        BY <3>1, LeastNumber
    <2>2. m \in 0 .. n - 1 /\ m \in 0 .. n /\ n - 1 \in Nat /\ m \in Nat
      BY <1>5
    <2>3. G(n)[m] = TenStep(G(n), m) /\ G(n - 1)[m] = TenStep(G(n - 1), m)
      BY <1>4, <2>2
    <2>4. CASE m = 0
      BY <2>3, <2>4 DEF TenStep
    <2>5. CASE m # 0
      <3>1. m - 1 \in 0 .. n - 1 /\ ~(m <= m - 1)
        BY <2>2, <2>5
      <3>2. G(n)[m - 1] = G(n - 1)[m - 1]
        BY <2>1, <3>1
      <3>3. G(n)[m] = G(n - 1)[m]
        BY <2>3, <2>5, <3>2 DEF TenStep
      <3> QED
        BY <2>1, <3>3
    <2> QED
      BY <2>4, <2>5
  <1> DEFINE g == [n \in Nat |-> G(n)[n]]
  <1>6. g \in [Nat -> Nat]
    BY <1>4
  <1>7. ASSUME NEW n \in Nat PROVE g[n] = TenStep(g, n)
    <2>1. g[n] = TenStep(G(n), n)
      BY <1>4
    <2>2. CASE n = 0
      BY <2>1, <2>2 DEF TenStep
    <2>3. CASE n # 0
      <3>1. n - 1 \in Nat /\ G(n)[n - 1] = G(n - 1)[n - 1]
        BY <1>5, <2>3
      <3>2. g[n - 1] = G(n)[n - 1]
        BY <3>1
      <3> HIDE DEF g
      <3> QED
        BY <2>1, <2>3, <3>2 DEF TenStep
    <2> QED
      BY <2>2, <2>3
  <1>8. g = [n \in Nat |-> g[n]]
    OBVIOUS
  <1> HIDE DEF g
  <1>9. g = [n \in Nat |-> TenStep(g, n)]
    BY <1>7, <1>8
  <1> QED
    BY <1>6, <1>9

\* So the definition of Ten defines them.
LEMMA TenIs ==
    /\ Ten[0] = 1
    /\ \A n \in Nat : n # 0 => Ten[n] = 10 * Ten[n - 1]
  <1>1. \E g : g = [n \in Nat |-> IF n = 0 THEN 1 ELSE 10 * g[n - 1]]
    BY TenExists DEF TenStep
  <1>2. Ten = [n \in Nat |-> IF n = 0 THEN 1 ELSE 10 * Ten[n - 1]]
    BY <1>1 DEF Ten
  <1>3. ASSUME NEW n \in Nat PROVE Ten[n] = IF n = 0 THEN 1 ELSE 10 * Ten[n - 1]
    <2> DEFINE T == Ten
    <2>1. T = [k \in Nat |-> IF k = 0 THEN 1 ELSE 10 * T[k - 1]]
      BY <1>2
    <2> HIDE DEF T
    <2>2. T[n] = IF n = 0 THEN 1 ELSE 10 * T[n - 1]
      BY <2>1, Zenon
    <2> QED
      BY <2>2 DEF T
  <1> QED
    BY <1>3

\* They are natural numbers, and beyond their exponents.
LEMMA TenGrows ==
    ASSUME NEW n \in Nat
    PROVE  Ten[n] \in Nat /\ Ten[n] > n
  <1> DEFINE Bad == {k \in Nat : ~(Ten[k] \in Nat /\ Ten[k] > k)}
  <1> SUFFICES ASSUME Bad # {} PROVE FALSE
    OBVIOUS
  <1>1. PICK m \in Bad : \A k \in Bad : m <= k
    <2>1. Bad \in SUBSET Nat
      OBVIOUS
    <2> HIDE DEF Bad
    <2> QED
      BY <2>1, LeastNumber
  <1>2. m # 0
    BY TenIs
  <1>3. m \in Nat /\ m - 1 \in Nat /\ ~(m <= m - 1)
    BY <1>2
  <1>4. Ten[m - 1] \in Nat /\ Ten[m - 1] > m - 1
    BY <1>1, <1>3
  <1>5. Ten[m] = 10 * Ten[m - 1]
    BY <1>2, <1>3, TenIs
  <1>6. Ten[m] \in Nat /\ Ten[m] > m
    BY <1>3, <1>4, <1>5
  <1> QED
    BY <1>6

\* The power of a sum is the product of the powers.
LEMMA TenAdds ==
    ASSUME NEW a \in Nat, NEW b \in Nat
    PROVE  /\ Ten[a + b] = Ten[a] * Ten[b]
           /\ Ten[a] \in Nat \ {0} /\ Ten[b] \in Nat \ {0}
  <1> DEFINE Bad == {k \in Nat : Ten[a + k] # Ten[a] * Ten[k]}
  <1>1. \A k \in Nat : Ten[k] \in Nat /\ Ten[k] > k
    BY TenGrows
  <1>2. Bad = {}
    <2> SUFFICES ASSUME Bad # {} PROVE FALSE
      OBVIOUS
    <2>1. PICK m \in Bad : \A k \in Bad : m <= k
      <3>1. Bad \in SUBSET Nat
        OBVIOUS
      <3> HIDE DEF Bad
      <3> QED
        BY <3>1, LeastNumber
    <2>2. m # 0
      <3>1. Ten[a + 0] = Ten[a] * Ten[0]
        BY <1>1, TenIs
      <3> QED
        BY <3>1
    <2>3. m \in Nat /\ m - 1 \in Nat /\ ~(m <= m - 1)
      BY <2>2
    <2>4. Ten[a + (m - 1)] = Ten[a] * Ten[m - 1]
      BY <2>1, <2>3
    <2>5. Ten[m] = 10 * Ten[m - 1]
      BY <2>2, <2>3, TenIs
    <2>6. Ten[a + m] = 10 * Ten[a + (m - 1)]
      <3>1. a + m \in Nat /\ a + m # 0 /\ (a + m) - 1 = a + (m - 1)
        BY <2>2, <2>3
      <3> QED
        BY <3>1, TenIs
    <2>7. PICK p \in Nat, q \in Nat : p = Ten[a] /\ q = Ten[m - 1]
      BY <1>1, <2>3
    <2>8. Ten[a + m] = Ten[a] * Ten[m]
      <3>1. Ten[a + m] = 10 * (p * q) /\ Ten[a] * Ten[m] = p * (10 * q)
        BY <2>4, <2>5, <2>6, <2>7
      <3>2. 10 * (p * q) = p * (10 * q)
        OBVIOUS
      <3> QED
        BY <3>1, <3>2
    <2> QED
      BY <2>8
  <1>3. Ten[a + b] = Ten[a] * Ten[b]
    BY <1>2
  <1> QED
    BY <1>1, <1>3

-----------------------------------------------------------------------------
(* Prices with an exponent *)

\* The constants and the fields of a price are numbers.
LEMMA PriceNumbers ==
    /\ MaxU64 \in Nat
    /\ MaxMantissa \in Nat /\ MaxMantissa > 8 /\ MaxMantissa <= MaxU64
    /\ ScaleDigits \in Nat /\ UsdDecimals \in Nat /\ Finest \in Nat /\ UsdDecimals <= Finest
    /\ \A p \in OraclePrices : /\ p.price \in Nat /\ p.price <= MaxU64
                               /\ p.exponent \in Int /\ p.exponent + Finest \in Nat
  <1>1. MaxU64 \in Nat
    BY RuntimeAssumption
  <1>2. ASSUME NEW p \in OraclePrices
        PROVE  /\ p.price \in Nat /\ p.price <= MaxU64
               /\ p.exponent \in Int /\ p.exponent + Finest \in Nat
    <2>1. p \in PriceRecord /\ Finest \in Nat /\ -Finest <= p.exponent
      BY PriceMathAssumption
    <2>2. p.price \in Words /\ p.exponent \in Int
      BY <2>1 DEF PriceRecord
    <2> QED
      BY <1>1, <2>1, <2>2 DEF Words
  <1> QED
    BY <1>1, <1>2, PriceMathAssumption DEF Words

\* The pair of prices that is tried.
LEMMA PricesOfPair ==
    ASSUME PriceMathInit PROVE lhs \in OraclePrices /\ rhs \in OraclePrices
  BY DEF PriceMathInit

\* Scaling to a finer exponent keeps the value.
LEMMA FinerKeepsValue ==
    ASSUME NEW p \in OraclePrices, NEW e \in Int, e <= p.exponent, e + Finest \in Nat
    PROVE  /\ Scaled(p, e).price \in Nat
           /\ Ten[e + Finest] \in Nat \ {0}
           /\ Value(p) = Scaled(p, e).price * Ten[e + Finest]
           /\ Value(p) \in Nat
  <1>1. p.price \in Nat /\ p.exponent \in Int /\ Finest \in Nat
    BY PriceNumbers
  <1>2. PICK d \in Nat : d = p.exponent - e
    BY <1>1
  <1>3. PICK a \in Nat : a = e + Finest
    OBVIOUS
  <1>4. Ten[d + a] = Ten[d] * Ten[a] /\ Ten[d] \in Nat \ {0} /\ Ten[a] \in Nat \ {0}
    BY TenAdds
  <1>5. p.exponent + Finest = d + a
    BY <1>1, <1>2, <1>3
  <1>6. Scaled(p, e).price = p.price * Ten[d]
    BY <1>1, <1>2 DEF Scaled, P
  <1>7. PICK x \in Nat, t \in Nat, u \in Nat : x = p.price /\ t = Ten[d] /\ u = Ten[a]
    BY <1>1, <1>4
  <1>8. x * (t * u) = (x * t) * u /\ x * t \in Nat /\ (x * t) * u \in Nat
    OBVIOUS
  <1>9. Value(p) = x * (t * u) /\ Scaled(p, e).price = x * t
    BY <1>4, <1>5, <1>6, <1>7 DEF Value
  <1> QED
    BY <1>3, <1>4, <1>7, <1>8, <1>9

\* Two prices compare as their values do.
LEMMA LessIsByValue ==
    ASSUME NEW p \in OraclePrices, NEW q \in OraclePrices, Comparable(p, q)
    PROVE  Less(p, q) <=> Value(p) < Value(q)
  <1> DEFINE e == Lower(p.exponent, q.exponent)
  <1>1. /\ e \in Int /\ e <= p.exponent /\ e <= q.exponent /\ e + Finest \in Nat
    BY PriceNumbers DEF Lower
  <1>2. Less(p, q) <=> Scaled(p, e).price < Scaled(q, e).price
    BY DEF Less
  <1> HIDE DEF e
  <1>3. /\ Scaled(p, e).price \in Nat
        /\ Ten[e + Finest] \in Nat \ {0}
        /\ Value(p) = Scaled(p, e).price * Ten[e + Finest]
    BY <1>1, FinerKeepsValue
  <1>4. /\ Scaled(q, e).price \in Nat
        /\ Value(q) = Scaled(q, e).price * Ten[e + Finest]
    BY <1>1, FinerKeepsValue
  <1> QED
    BY <1>2, <1>3, <1>4, FactorKeepsOrder

\* partial_cmp orders two prices as their values, and never both ways.
LEMMA OrderAlwaysByValue == ASSUME PriceMathInit PROVE OrderIsByValue
  <1>1. lhs \in OraclePrices /\ rhs \in OraclePrices
    BY PricesOfPair
  <1>2. ASSUME Less(lhs, rhs), Less(rhs, lhs) PROVE FALSE
    <2>1. Value(lhs) < Value(rhs) /\ Value(rhs) < Value(lhs)
      BY <1>1, <1>2, LessIsByValue DEF Less
    <2>2. Value(lhs) \in Nat /\ Value(rhs) \in Nat
      BY <1>1, FinerKeepsValue, PriceNumbers
    <2> QED
      BY <2>1, <2>2
  <1> QED
    BY <1>1, <1>2, LessIsByValue DEF OrderIsByValue

\* What get_min_price makes of the lower price of a stable coin.
Cap(least) ==
    LET dollar == IF least.exponent > 0 THEN P(Ten[UsdDecimals], -UsdDecimals)
                  ELSE P(Ten[-least.exponent], least.exponent)
        capped == IF least.exponent > 0 THEN least.price # 0
                  ELSE least.price > dollar.price
    IN  IF capped THEN dollar ELSE least

\* A price is at most a dollar once it is capped, and no dearer than it was.
LEMMA CapIs ==
    ASSUME NEW least \in OraclePrices, NEW m, m = Cap(least)
    PROVE  /\ Value(m) \in Nat
           /\ Value(m) <= Value(least)
           /\ Value(m) <= Ten[Finest]
  <1>0. PICK x \in Nat : x = least.price
    BY PriceNumbers
  <1>1. /\ x \in Nat /\ least.exponent \in Int /\ least.exponent + Finest \in Nat
        /\ Finest \in Nat /\ UsdDecimals \in Nat /\ UsdDecimals <= Finest
    BY PriceNumbers
  <1>2. /\ Value(least) = x * Ten[least.exponent + Finest]
        /\ Ten[least.exponent + Finest] \in Nat \ {0} /\ Ten[Finest] \in Nat \ {0}
    BY <1>0, <1>1, TenAdds DEF Value
  <1>3. Value(least) \in Nat
    BY <1>1, FinerKeepsValue
  <1>4. CASE least.exponent > 0
    <2>1. CASE x = 0
      <3>1. m = least
        BY <1>0, <1>4, <2>1 DEF Cap
      <3> QED
        BY <1>2, <2>1, <3>1
    <2>2. CASE x # 0
      <3>1. m = P(Ten[UsdDecimals], -UsdDecimals)
        BY <1>0, <1>4, <2>2 DEF Cap
      <3>2. PICK a \in Nat : a = Finest - UsdDecimals
        BY <1>1
      <3>3. Ten[UsdDecimals + a] = Ten[UsdDecimals] * Ten[a]
        BY <1>1, TenAdds
      <3>4. -UsdDecimals + Finest = a /\ UsdDecimals + a = Finest
        BY <1>1, <3>2
      <3>5. Value(m) = Ten[Finest]
        <4>1. m.price = Ten[UsdDecimals] /\ m.exponent + Finest = a
          BY <3>1, <3>4 DEF P
        <4> QED
          BY <3>3, <3>4, <4>1 DEF Value
      <3>6. PICK d \in Nat : d = least.exponent
        BY <1>1, <1>4
      <3>7. Ten[d + Finest] = Ten[d] * Ten[Finest] /\ Ten[d] \in Nat \ {0}
        BY <1>1, TenAdds
      <3>8. Value(least) = x * (Ten[d] * Ten[Finest])
        BY <1>2, <3>6, <3>7
      <3>9. PICK s \in Nat \ {0}, t \in Nat \ {0} : s = Ten[d] /\ t = Ten[Finest]
        BY <1>2, <3>7
      <3>10. x * (s * t) >= t
        <4>1. PICK y \in Nat, z \in Nat : x = y + 1 /\ s = z + 1
          <5>1. x - 1 \in Nat /\ s - 1 \in Nat /\ x = (x - 1) + 1 /\ s = (s - 1) + 1
            BY <1>1, <2>2
          <5> QED
            BY <5>1
        <4>2. x * (s * t) = y * (z * t) + y * t + z * t + t
          BY <4>1
        <4>3. y * t \in Nat /\ z * t \in Nat
          OBVIOUS
        <4>4. y * (z * t) \in Nat
          BY <4>3
        <4> QED
          BY <4>2, <4>3, <4>4
      <3> QED
        BY <1>2, <3>5, <3>8, <3>9, <3>10
    <2> QED
      BY <2>1, <2>2
  <1>5. CASE ~(least.exponent > 0)
    <2>1. PICK n \in Nat : n = -least.exponent
      BY <1>1, <1>5
    <2>2. PICK a \in Nat : a = least.exponent + Finest
      BY <1>1
    <2>3. Ten[n + a] = Ten[n] * Ten[a] /\ Ten[n] \in Nat \ {0} /\ Ten[a] \in Nat \ {0}
      BY TenAdds
    <2>4. n + a = Finest
      BY <1>1, <2>1, <2>2
    <2>5. CASE x > Ten[n]
      <3>1. m = P(Ten[n], least.exponent)
        BY <1>0, <1>5, <2>1, <2>5 DEF Cap, P
      <3>2. Value(m) = Ten[n] * Ten[a] /\ Value(least) = x * Ten[a]
        BY <1>2, <2>2, <3>1 DEF Value, P
      <3>3. Ten[n] * Ten[a] < x * Ten[a]
        BY <1>1, <2>3, <2>5, FactorKeepsOrder
      <3> QED
        BY <1>0, <1>2, <1>3, <2>3, <2>4, <3>2, <3>3
    <2>6. CASE ~(x > Ten[n])
      <3>1. m = least
        BY <1>0, <1>5, <2>1, <2>6 DEF Cap, P
      <3>2. Value(least) = x * Ten[a]
        BY <1>2, <2>2
      <3>3. ~(Ten[n] * Ten[a] < x * Ten[a])
        BY <1>1, <2>3, <2>6, FactorKeepsOrder
      <3> QED
        BY <1>2, <1>3, <2>3, <2>4, <3>1, <3>2, <3>3
    <2> QED
      BY <2>5, <2>6
  <1> QED
    BY <1>4, <1>5

\* get_min_price returns at most either price and at most a dollar.
LEMMA MinPriceAlwaysLowest == ASSUME PriceMathInit PROVE MinPriceIsLowest
  <1> SUFFICES ASSUME Comparable(lhs, rhs)
               PROVE  LET m == MinPrice(lhs, rhs, TRUE) IN
                      /\ Value(m) <= Value(lhs) /\ Value(m) <= Value(rhs)
                      /\ Value(m) <= Ten[Finest]
    BY DEF MinPriceIsLowest
  <1>1. lhs \in OraclePrices /\ rhs \in OraclePrices
    BY PricesOfPair
  <1>2. Value(lhs) \in Nat /\ Value(rhs) \in Nat
    BY <1>1, FinerKeepsValue, PriceNumbers
  <1>3. PICK least \in OraclePrices : least = IF Less(lhs, rhs) THEN lhs ELSE rhs
    BY <1>1
  <1> DEFINE m == MinPrice(lhs, rhs, TRUE)
  <1>7. m = Cap(least)
    BY <1>3 DEF MinPrice, Cap
  <1> HIDE DEF m
  <1>4. Value(m) \in Nat /\ Value(m) <= Value(least) /\ Value(m) <= Ten[Finest]
    BY <1>7, CapIs
  <1>5. Value(least) <= Value(lhs) /\ Value(least) <= Value(rhs)
    <2>1. Less(lhs, rhs) <=> Value(lhs) < Value(rhs)
      BY <1>1, LessIsByValue
    <2>2. CASE Less(lhs, rhs)
      BY <1>2, <1>3, <2>1, <2>2
    <2>3. CASE ~Less(lhs, rhs)
      BY <1>2, <1>3, <2>1, <2>3
    <2> QED
      BY <2>2, <2>3
  <1>6. Ten[Finest] \in Nat /\ Value(least) \in Nat
    BY <1>2, <1>3, PriceNumbers, TenAdds
  <1>8. Value(m) <= Value(lhs) /\ Value(m) <= Value(rhs)
    BY <1>2, <1>4, <1>5, <1>6
  <1> QED
    BY <1>4, <1>8 DEF m

\* scale_to_exponent loses less than a unit and never gains.
LEMMA RescalingAlwaysRoundsDown == ASSUME PriceMathInit PROVE RescalingRoundsDown
  <1> DEFINE e == rhs.exponent
             s == Scaled(lhs, e)
  <1>1. lhs \in OraclePrices /\ rhs \in OraclePrices
    BY PricesOfPair
  <1>2. /\ e \in Int /\ e + Finest \in Nat /\ Finest \in Nat /\ lhs.price \in Nat
        /\ lhs.exponent \in Int /\ lhs.exponent + Finest \in Nat
    BY <1>1, PriceNumbers
  <1>3. /\ s.exponent = e
        /\ e > lhs.exponent => s.price = lhs.price \div Ten[e - lhs.exponent]
    BY DEF Scaled, P
  <1>4. Value(s) = s.price * Ten[e + Finest]
    BY <1>3 DEF Value
  <1> HIDE DEF e, s
  <1>5. Value(s) <= Value(lhs) /\ Value(lhs) < Value(s) + Ten[e + Finest]
    <2>1. CASE e > lhs.exponent
      <3>1. PICK d \in Nat, b \in Nat : d = e - lhs.exponent /\ b = lhs.exponent + Finest
        BY <1>2, <2>1
      <3>2. e + Finest = d + b
        BY <1>2, <3>1
      <3>3. PICK t \in Nat \ {0}, u \in Nat \ {0} : t = Ten[d] /\ u = Ten[b] /\ Ten[d + b] = t * u
        BY TenAdds
      <3>4. PICK x \in Nat : x = lhs.price
        BY <1>2
      <3>5. PICK y \in Nat : y = x \div t
        BY QuotientIsNat
      <3>6. y * t <= x /\ x < y * t + t
        BY <3>5, QuotientBounds
      <3>7. PICK r \in Nat : x = y * t + r /\ r < t
        <4>1. y * t \in Nat /\ x - y * t \in Nat
          BY <3>6
        <4>2. x = y * t + (x - y * t) /\ x - y * t < t
          BY <3>6, <4>1
        <4> QED
          BY <4>1, <4>2
      <3>8. x * u = y * (t * u) + r * u /\ r * u < t * u
        <4>1. r * u < t * u
          BY <3>7, FactorKeepsOrder
        <4>2. x * u = y * (t * u) + r * u
          BY <3>7
        <4> QED
          BY <4>1, <4>2
      <3>9. Value(lhs) = x * u /\ Value(s) = y * (t * u) /\ Ten[e + Finest] = t * u
        BY <1>3, <1>4, <2>1, <3>1, <3>2, <3>3, <3>4, <3>5 DEF Value
      <3>10. y * (t * u) \in Nat /\ r * u \in Nat /\ t * u \in Nat
        <4>1. t * u \in Nat
          OBVIOUS
        <4> QED
          BY <4>1
      <3> QED
        BY <3>8, <3>9, <3>10
    <2>2. CASE e <= lhs.exponent
      <3>1. Value(lhs) = s.price * Ten[e + Finest] /\ Ten[e + Finest] \in Nat \ {0} /\ Value(lhs) \in Nat
        BY <1>1, <1>2, <2>2, FinerKeepsValue DEF s
      <3> QED
        BY <1>4, <3>1
    <2> QED
      BY <1>2, <2>1, <2>2
  <1> QED
    BY <1>5 DEF RescalingRoundsDown, e, s

\* Enough digits are cut, and no more.
CutEnough(p, k) ==
    /\ p.price \div Ten[k] <= MaxMantissa
    /\ \A j \in 0 .. k - 1 : p.price \div Ten[j] > MaxMantissa

\* Some number of digits is enough, and the least one is cut.
LEMMA CutIs ==
    ASSUME NEW p, p.price \in Nat
    PROVE  DigitsCut(p) \in 0 .. p.price /\ CutEnough(p, DigitsCut(p))
  <1> DEFINE Enough == {k \in Nat : p.price \div Ten[k] <= MaxMantissa}
  <1>1. \A k \in Nat : Ten[k] \in Nat /\ Ten[k] > k
    BY TenGrows
  <1>2. p.price \in Enough
    <2>1. p.price \div Ten[p.price] = 0
      <3>1. Ten[p.price] \in Nat \ {0} /\ 0 * Ten[p.price] <= p.price
            /\ p.price < 0 * Ten[p.price] + Ten[p.price]
        BY <1>1
      <3> QED
        BY <3>1, QuotientIs
    <2> QED
      BY <2>1, PriceNumbers
  <1>3. PICK m \in Enough : \A k \in Enough : m <= k
    <2>1. Enough \in SUBSET Nat
      OBVIOUS
    <2> HIDE DEF Enough
    <2> QED
      BY <1>2, <2>1, LeastNumber
  <1>4. m \in 0 .. p.price /\ m \in Nat
    BY <1>2, <1>3
  <1>5. ASSUME NEW j \in 0 .. m - 1 PROVE p.price \div Ten[j] > MaxMantissa
    <2>1. j \in Nat /\ j \notin Enough
      BY <1>3, <1>4
    <2>2. p.price \div Ten[j] \in Nat
      BY <1>1, <2>1, QuotientIsNat
    <2> QED
      BY <2>1, <2>2, PriceNumbers
  <1>6. CutEnough(p, m)
    BY <1>3, <1>5 DEF CutEnough
  <1>7. DigitsCut(p) = CHOOSE k \in 0 .. p.price : CutEnough(p, k)
    BY DEF DigitsCut, CutEnough
  <1> QED
    BY <1>4, <1>6, <1>7

\* Normalization fits the mantissa, and leaves a digit of it.
LEMMA NormalizedIs ==
    ASSUME NEW p, p.price \in Nat
    PROVE  /\ Normalized(p).price \in 0 .. MaxMantissa
           /\ p.price # 0 => Normalized(p).price # 0
  <1>1. PICK k \in Nat : k = DigitsCut(p) /\ CutEnough(p, k)
    BY CutIs
  <1>2. PICK x \in Nat : x = p.price
    OBVIOUS
  <1>3. \A j \in Nat : Ten[j] \in Nat \ {0}
    BY TenGrows
  <1>4. Normalized(p).price = x \div Ten[k]
    BY <1>1, <1>2 DEF Normalized, P
  <1>5. x \div Ten[k] \in Nat /\ x \div Ten[k] <= MaxMantissa
    BY <1>1, <1>2, <1>3, QuotientIsNat DEF CutEnough
  <1>6. ASSUME x # 0 PROVE x \div Ten[k] # 0
    <2>1. x >= 1 * Ten[k]
      <3>1. CASE k = 0
        BY <1>6, <3>1, TenIs
      <3>2. CASE k # 0
        <4>1. k - 1 \in Nat /\ k - 1 \in 0 .. k - 1
          BY <3>2
        <4>2. PICK t \in Nat \ {0} : t = Ten[k - 1]
          BY <1>3, <4>1
        <4>3. PICK y \in Nat : y = x \div t
          BY QuotientIsNat
        <4>4. y > MaxMantissa
          BY <1>1, <1>2, <4>1, <4>2, <4>3 DEF CutEnough
        <4>5. y * t <= x
          BY <4>3, QuotientBounds
        <4>6. Ten[k] = 10 * t
          BY <3>2, <4>2, TenIs
        <4>7. y >= 10
          BY <4>4, PriceNumbers
        <4>8. ~(y * t < 10 * t)
          BY <4>7, FactorKeepsOrder
        <4>9. y * t \in Nat /\ 10 * t \in Nat
          OBVIOUS
        <4> QED
          BY <4>5, <4>6, <4>8, <4>9
      <3> QED
        BY <3>1, <3>2
    <2>2. PICK t \in Nat \ {0} : t = Ten[k]
      BY <1>3
    <2>3. x \div t >= 1
      BY <2>1, <2>2, QuotientReaches
    <2> QED
      BY <2>2, <2>3
  <1> QED
    BY <1>2, <1>4, <1>5, <1>6, PriceNumbers

\* checked_div never fails for a divisor other than 0: the normalized
\* dividend leaves room for the scale.
LEMMA QuotientIsAlwaysDefined == ASSUME PriceMathInit PROVE QuotientAlwaysDefined
  <1> SUFFICES ASSUME rhs.price # 0 PROVE DivDefined(lhs, rhs)
    BY DEF QuotientAlwaysDefined
  <1>1. lhs.price \in Nat /\ rhs.price \in Nat
    BY PricesOfPair, PriceNumbers
  <1>2. Normalized(rhs).price # 0
    BY <1>1, NormalizedIs
  <1>3. PICK x \in Nat : x = Normalized(lhs).price /\ x <= MaxMantissa
    BY <1>1, NormalizedIs, PriceNumbers
  <1>4. PICK t \in Nat \ {0} : t = Ten[ScaleDigits]
    BY PriceNumbers, TenAdds
  <1>5. PICK n \in Nat : n = MaxMantissa
    BY PriceNumbers
  <1>6. ~(n * t < x * t)
    BY <1>3, <1>5, FactorKeepsOrder
  <1>7. n * t <= MaxU64
    BY <1>4, <1>5, PriceMathAssumption
  <1>8. x * t \in Nat /\ n * t \in Nat /\ MaxU64 \in Nat
    BY PriceNumbers
  <1>9. x * t \in Words
    BY <1>6, <1>7, <1>8 DEF Words
  <1> QED
    BY <1>2, <1>3, <1>4, <1>9 DEF DivDefined, Fits

\* What fits the mantissa is not cut.
LEMMA NothingCut ==
    ASSUME NEW p, p.price \in 0 .. MaxMantissa, p.exponent \in Int
    PROVE  Normalized(p).price = p.price /\ Normalized(p).exponent = p.exponent
  <1>1. p.price \in Nat
    BY PriceNumbers
  <1>2. PICK k \in Nat : k = DigitsCut(p) /\ CutEnough(p, k)
    BY <1>1, CutIs
  <1>3. p.price \div Ten[0] = p.price
    <2>1. PICK x \in Nat : x = p.price
      BY <1>1
    <2>2. x \div 1 = x
      OBVIOUS
    <2> QED
      BY <2>1, <2>2, TenIs
  <1>4. k = 0
    <2> SUFFICES ASSUME k # 0 PROVE FALSE
      OBVIOUS
    <2>1. 0 \in 0 .. k - 1
      OBVIOUS
    <2>2. p.price > MaxMantissa
      BY <1>2, <1>3, <2>1 DEF CutEnough
    <2> QED
      BY <2>2, PriceNumbers
  <1>5. DigitsCut(p) = 0
    BY <1>2, <1>4
  <1>6. p.exponent + 0 = p.exponent
    OBVIOUS
  <1>7. Normalized(p) = P(p.price, p.exponent)
    BY <1>3, <1>5, <1>6 DEF Normalized
  <1> QED
    BY <1>7 DEF P

\* checked_div undoes checked_mul where nothing is normalized.
LEMMA QuotientAlwaysUndoesProduct == ASSUME PriceMathInit PROVE QuotientUndoesProduct
  <1> DEFINE p == Mul(lhs, rhs)
             q == Div(p, rhs)
  <1> SUFFICES ASSUME rhs.price # 0, {lhs.price * rhs.price, rhs.price} \subseteq 0 .. MaxMantissa
               PROVE  /\ q.price = lhs.price * Ten[ScaleDigits]
                      /\ q.exponent = lhs.exponent - ScaleDigits
    BY DEF QuotientUndoesProduct
  <1>1. /\ lhs.price \in Nat /\ rhs.price \in Nat
        /\ lhs.exponent \in Int /\ rhs.exponent \in Int /\ ScaleDigits \in Nat
    BY PricesOfPair, PriceNumbers
  <1>2. p.price = lhs.price * rhs.price /\ p.exponent = lhs.exponent + rhs.exponent
    BY DEF Mul, P
  <1>3. /\ q.price = (Normalized(p).price * Ten[ScaleDigits]) \div Normalized(rhs).price
        /\ q.exponent = Normalized(p).exponent - ScaleDigits - Normalized(rhs).exponent
    BY DEF Div, P
  <1> HIDE DEF p, q
  <1>4. Normalized(p).price = p.price /\ Normalized(p).exponent = p.exponent
    BY <1>1, <1>2, NothingCut
  <1>5. Normalized(rhs).price = rhs.price /\ Normalized(rhs).exponent = rhs.exponent
    BY <1>1, NothingCut
  <1>6. PICK x \in Nat, y \in Nat \ {0} : x = lhs.price /\ y = rhs.price
    BY <1>1
  <1>7. PICK t \in Nat : t = Ten[ScaleDigits]
    BY <1>1, TenAdds
  <1>8. (x * y) * t = (x * t) * y /\ x * t \in Int
    OBVIOUS
  <1>9. ((x * t) * y) \div y = x * t
    BY <1>8, MultipleDivides
  <1>10. q.price = x * t
    BY <1>2, <1>3, <1>4, <1>5, <1>6, <1>7, <1>8, <1>9
  <1>11. q.exponent = lhs.exponent - ScaleDigits
    BY <1>1, <1>2, <1>3, <1>4, <1>5
  <1> QED
    BY <1>6, <1>7, <1>10, <1>11

\* get_asset_amount_usd and get_token_amount, one after the other, multiply
\* an amount by the base units of a dollar.
LEMMA AmountsAlwaysGrow == ASSUME PriceMathInit PROVE AmountsGrow
  <1> DEFINE a == rhs.price
             x == lhs.price
             usd == Usd(lhs, a, 0)
  <1> SUFFICES ASSUME lhs.exponent = 0, x # 0
               PROVE  Tokens(lhs, usd, 0) = a * Ten[UsdDecimals]
    BY DEF AmountsGrow
  <1>1. a \in Nat /\ x \in Nat /\ UsdDecimals \in Nat
    BY PricesOfPair, PriceNumbers
  <1>2. Ten[0] = 1 /\ Ten[UsdDecimals] \in Nat \ {0}
    BY <1>1, TenIs, TenAdds
  <1>3. PICK t \in Nat \ {0} : t = Ten[UsdDecimals]
    BY <1>2
  <1>4. CASE a = 0
    <2>1. usd = 0
      BY <1>4 DEF Usd
    <2>2. Tokens(lhs, usd, 0) = 0
      BY <2>1 DEF Tokens
    <2> QED
      BY <1>3, <1>4, <2>2
  <1>5. CASE a # 0
    <2>1. 0 + 0 + UsdDecimals = UsdDecimals /\ UsdDecimals >= 0
      BY <1>1
    <2>2. usd = Shifted(x * a * Ten[0], 0 + 0 + UsdDecimals)
      BY <1>5 DEF Usd
    <2>3. x * a * Ten[0] = x * a
      BY <1>1, <1>2
    <2>4. usd = (x * a) * t
      BY <1>3, <2>1, <2>2, <2>3 DEF Shifted
    <2> HIDE DEF a, x, usd
    <2>5. PICK y \in Nat \ {0} : y = x
      BY <1>1
    <2>6. PICK b \in Nat \ {0} : b = a
      BY <1>1, <1>5
    <2>7. usd = (y * b) * t /\ usd # 0
      <3>1. y * b \in Nat \ {0}
        BY ProductGrows
      <3>2. (y * b) * t # 0
        <4>1. PICK c \in Nat \ {0} : c = y * b
          BY <3>1
        <4>2. c * t # 0
          OBVIOUS
        <4> QED
          BY <4>1, <4>2
      <3> QED
        BY <2>4, <2>5, <2>6, <3>2
    <2>8. (usd * t) \div y = (b * t) * t
      <3>1. usd * t = ((b * t) * t) * y
        BY <2>7
      <3>2. (b * t) * t \in Int
        OBVIOUS
      <3> QED
        BY <3>1, <3>2, MultipleDivides
    <2>9. Tokens(lhs, usd, 0) = Shifted((b * t) * t, 0 - UsdDecimals + 0)
      <3>1. lhs.price = y
        BY <2>5 DEF x
      <3> QED
        BY <1>3, <2>7, <2>8, <3>1 DEF Tokens
    <2>10. Shifted((b * t) * t, 0 - UsdDecimals + 0) = b * t
      <3>1. CASE UsdDecimals = 0
        <4>1. 0 - UsdDecimals + 0 = 0 /\ t = 1
          BY <1>2, <1>3, <3>1
        <4>2. Shifted((b * t) * t, 0) = ((b * t) * t) * Ten[0]
          BY DEF Shifted
        <4>3. ((b * t) * t) * Ten[0] = b * t
          BY <1>2, <4>1
        <4> QED
          BY <4>1, <4>2, <4>3
      <3>2. CASE UsdDecimals # 0
        <4>1. PICK n \in Int : n = 0 - UsdDecimals + 0 /\ ~(n >= 0) /\ -n = UsdDecimals
          BY <1>1, <3>2
        <4>2. Shifted((b * t) * t, n) = ((b * t) * t) \div t
          BY <1>3, <4>1 DEF Shifted
        <4>3. ((b * t) * t) \div t = b * t
          <5>1. b * t \in Int
            OBVIOUS
          <5> QED
            BY <5>1, MultipleDivides
        <4> QED
          BY <4>1, <4>2, <4>3
      <3> QED
        BY <3>1, <3>2
    <2> QED
      BY <1>3, <2>6, <2>9, <2>10
  <1> QED
    BY <1>4, <1>5

\* Every property of prices with an exponent, for every word, mantissa and
\* number of decimals: order, cap, rescaling, quotient, product and amounts.
THEOREM PricesAreCorrect == PriceMathInit => PricesCorrect
  BY OrderAlwaysByValue, MinPriceAlwaysLowest, RescalingAlwaysRoundsDown,
     QuotientIsAlwaysDefined, QuotientAlwaysUndoesProduct, AmountsAlwaysGrow
     DEF PricesCorrect

-----------------------------------------------------------------------------
(* All the accounts together *)

\* What a call of any account does to what the accounts share.
ClockMoves ==
    /\ now' = now \/ \E d \in Ticks : now' = now + d /\ now' <= MaxTime
    /\ calls' = calls \/ calls' = calls + 1

\* The clock moves on or stands still, whichever account is used.
LEMMA ProfileMovesClock == ASSUME ProfileNext PROVE ClockMoves
  BY DEF ClockMoves, Call, Tick, ProfileNext, AddUserStatus, RemoveUserStatus,
         Ban, UnBan, SetReferrer, SetDelegate, ClearDelegate, SetName,
         UpdateLastActivity, CheckIdleStatus, ProfileTick

LEMMA LedgerMovesClock == ASSUME LedgerNext PROVE ClockMoves
  BY DEF ClockMoves, Call, Tick, LedgerNext, AddUnclaimedYield, ClaimYield,
         AddYieldClaimed, AddAgent, AddAgentsPurchased, AddFeesSpent,
         AddReferralEarnings, Purchase, RemoveAgentOfUser, ResetYield,
         ResetAgents, ResetFees, ResetReferralEarnings, ResetHistory

LEMMA ReferralMovesClock == ASSUME ReferralNext PROVE ClockMoves
  BY DEF ClockMoves, Call, Tick, ReferralNext, AddRegistryEarnings,
         AddUnclaimedEarnings, ClaimEarnings, UpdateRegistryTimestamp,
         ResetEarnings, UpdateLinkTimestamp, ResetLink, Register, ReferralTick

LEMMA AgentMovesClock == ASSUME AgentNext PROVE ClockMoves
  BY DEF ClockMoves, Call, Tick, AgentNext, UpdateBooster, List, UnlistAgent,
         ToggleListing, TransferOwnership, ResetAgent, AgentTick, Handled

LEMMA ProtocolMovesClock == ASSUME ProtocolNext PROVE ClockMoves
  BY DEF ClockMoves, Call, Tick, ProtocolNext, UpdateBalance, UpdateFees,
         TriggerBreaker, ResetBreaker, EmergencyPause, SetPaused, UpdateConfig,
         ProtocolTick

LEMMA TradeAccountMovesClock == ASSUME TradeAccountNext PROVE ClockMoves
  BY DEF ClockMoves, Call, Tick, TradeAccountNext, SetStatus, SetResult,
         CompleteSecure, CancelSecure, TriggerTradeBreaker, CompleteAnyway,
         CancelAnyway, UpdateTradeAnyway, InitTrade, InitTradeSecure,
         ResetTradeBreaker, MarketMoves,
         StatusBecomes

LEMMA MasterMovesClock == ASSUME MasterNext PROVE ClockMoves
  BY DEF ClockMoves, Call, Tick, MasterNext, UpdatePrice, UpdatePriceSecurely,
         UpdateYield, UpdateTaxConfig, SetTradingStatus, UpdateMaxSupply,
         AddAgentToMaster, RemoveAgentFromMaster, IncrementTradeCount,
         SetAutoRelist, ToggleTradingStatus, ResetMaster, MasterTick, Touched

LEMMA OracleMovesClock == ASSUME OracleNext PROVE ClockMoves
  BY DEF ClockMoves, Call, Tick, OracleNext, SecureOracleUpdate, SetOracle,
         OracleTick

\* An account that is not used is not disturbed by the time that passes.
LEMMA ProfileRests ==
    ASSUME ProfileInv, UNCHANGED profile, ClockMoves
    PROVE  ProfileInv'
  <1>1. /\ now \in Nat /\ calls \in Nat /\ user_updated \in Nat /\ user_updated <= now
        /\ IdleDays * Day \in Nat
    BY RuntimeAssumption, ProfileAssumption DEF ProfileInv, ProfileTypeOK
  <1>2. now' \in Nat /\ calls' \in Nat /\ now <= now'
    BY <1>1, RuntimeAssumption DEF ClockMoves
  <1>3. /\ status' = status /\ keys' = keys /\ user_created' = user_created
        /\ delegate' = delegate /\ referrer' = referrer /\ name' = name
        /\ idle' = idle /\ user_updated' = user_updated
    BY DEF profile, keys, activity
  <1>4. ProfileTypeOK' /\ NeverBannedAndActive'
    BY <1>2, <1>3 DEF ProfileInv, ProfileTypeOK, NeverBannedAndActive
  <1>5. (now >= user_updated)'
    BY <1>1, <1>2, <1>3
  <1>6. now >= user_updated + IdleDays * Day => now' >= user_updated' + IdleDays * Day
    BY <1>1, <1>2, <1>3
  <1>7. (idle => now >= user_updated + IdleDays * Day)'
    BY <1>3, <1>6 DEF ProfileInv
  <1> QED
    BY <1>3, <1>4, <1>5, <1>7 DEF ProfileInv

LEMMA LedgerRests ==
    ASSUME LedgerInv, UNCHANGED ledgerState, ClockMoves
    PROVE  LedgerInv'
  <1>1. now \in Nat /\ calls \in Nat
    BY DEF LedgerInv, LedgerTypeOK
  <1>2. now' \in Nat /\ calls' \in Nat /\ now <= now'
    BY <1>1, RuntimeAssumption DEF ClockMoves
  <1> QED
    BY <1>1, <1>2
    DEF LedgerInv, LedgerTypeOK, ledgerState, agentsOfUser, yieldOfUser, LifetimeYield, YieldConserved

LEMMA ReferralRests ==
    ASSUME ReferralInv, UNCHANGED referralState, ClockMoves
    PROVE  ReferralInv'
  <1>1. now \in Nat /\ calls \in Nat /\ registry.created_at \in Nat
    BY DEF ReferralInv, ReferralTypeOK, RegistryType
  <1>2. now' \in Nat /\ calls' \in Nat /\ now <= now'
    BY <1>1, RuntimeAssumption DEF ClockMoves
  <1> QED
    BY <1>1, <1>2
    DEF ReferralInv, ReferralTypeOK, referralState, EarningsConserved, AggregateEarnings

LEMMA AgentRests ==
    ASSUME AgentInv, UNCHANGED agentState, ClockMoves
    PROVE  AgentInv'
  <1>1. now \in Nat /\ handled \in Nat
    BY DEF AgentInv, AgentTypeOK
  <1>2. now' \in Nat /\ now <= now'
    BY <1>1, RuntimeAssumption DEF ClockMoves
  <1> QED
    BY <1>1, <1>2
    DEF AgentInv, AgentTypeOK, agentState

LEMMA ProtocolRests ==
    ASSUME ProtocolInv, UNCHANGED protocolState, ClockMoves
    PROVE  ProtocolInv'
  <1>1. now \in 1 .. MaxTime
    BY DEF ProtocolInv
  <1>2. now' \in 1 .. MaxTime /\ now <= now'
    BY <1>1, RuntimeAssumption DEF ClockMoves
  <1> QED
    BY <1>2, TimeKeepsProtocol DEF protocolState

LEMMA MasterRests ==
    ASSUME MasterInv, UNCHANGED masterState, ClockMoves
    PROVE  MasterInv'
  <1>1. now \in Nat /\ calls \in Nat /\ used \in Nat
    BY DEF MasterInv, MasterTypeOK
  <1>2. now' \in Nat /\ calls' \in Nat /\ now <= now'
    BY <1>1, RuntimeAssumption DEF ClockMoves
  <1> QED
    BY <1>1, <1>2
    DEF MasterInv, MasterTypeOK, masterState, ValidTaxConfig

LEMMA TradeAccountRests ==
    ASSUME TradeAccountInv, UNCHANGED tradeState
    PROVE  TradeAccountInv'
  BY DEF TradeAccountInv, tradeState, TradeAccountTypeOK, NoBreakerWithoutAuthority

LEMMA OracleRests ==
    ASSUME OracleInv, UNCHANGED oracleState, ClockMoves
    PROVE  OracleInv'
  <1>1. now \in Nat /\ updated \in Nat
    BY DEF OracleInv, OracleTypeOK
  <1>2. now' \in Nat /\ now <= now'
    BY <1>1, RuntimeAssumption DEF ClockMoves
  <1> QED
    BY <1>1, <1>2
    DEF OracleInv, OracleTypeOK, oracleState, StoredConfidenceOK, ConfidenceRatio

\* Every account is as its own proof found it, and the inputs of the
\* arithmetic are what they were.
AllInv ==
    /\ ProfileInv
    /\ LedgerInv
    /\ ReferralInv
    /\ AgentInv
    /\ ProtocolInv
    /\ MasterInv
    /\ TradeAccountInv
    /\ OracleInv
    /\ FixedPointInit
    /\ PriceMathInit

LEMMA AllStarts == ASSUME AccountsInit PROVE AllInv
  BY ProfileStarts, LedgerStarts, ReferralStarts, AgentStarts, ProtocolStarts,
     MasterStarts, TradeAccountStarts, OracleStarts DEF AccountsInit, AllInv

\* A step is one of a single account, while the others rest.
LEMMA AllStep ==
    ASSUME AllInv, [AccountsNext]_accountsVars
    PROVE  AllInv'
  <1>1. CASE AccountsNext
    <2>1. FixedPointInit' /\ PriceMathInit'
      BY <1>1 DEF AccountsNext, AllInv, FixedPointInit, PriceMathInit, triple, pair
    <2>2. ClockMoves
      BY <1>1, ProfileMovesClock, LedgerMovesClock, ReferralMovesClock,
         AgentMovesClock, ProtocolMovesClock, MasterMovesClock,
         TradeAccountMovesClock, OracleMovesClock
         DEF AccountsNext
    <2>3. ProfileInv'
      BY <1>1, <2>2, ProfileStep, ProfileRests DEF AccountsNext, AllInv
    <2>4. LedgerInv'
      BY <1>1, <2>2, LedgerStep, LedgerRests DEF AccountsNext, AllInv
    <2>5. ReferralInv'
      BY <1>1, <2>2, ReferralStep, ReferralRests DEF AccountsNext, AllInv
    <2>6. AgentInv'
      BY <1>1, <2>2, AgentStep, AgentRests DEF AccountsNext, AllInv
    <2>7. ProtocolInv'
      BY <1>1, <2>2, ProtocolStep, ProtocolRests DEF AccountsNext, AllInv
    <2>8. MasterInv'
      BY <1>1, <2>2, MasterStep, MasterRests DEF AccountsNext, AllInv
    <2>9. TradeAccountInv'
      BY <1>1, <2>2, TradeAccountStep, TradeAccountRests DEF AccountsNext, AllInv
    <2>10. OracleInv'
      BY <1>1, <2>2, OracleStep, OracleRests DEF AccountsNext, AllInv
    <2> QED
      BY <2>1, <2>3, <2>4, <2>5, <2>6, <2>7, <2>8, <2>9, <2>10 DEF AllInv
  <1>2. CASE UNCHANGED accountsVars
    <2>1. /\ UNCHANGED <<profile, ledgerState, referralState, agentState, protocolState,
                         masterState, tradeState, oracleState, triple, pair>>
          /\ ClockMoves
      BY <1>2 DEF accountsVars, ClockMoves
    <2>2. FixedPointInit' /\ PriceMathInit'
      BY <2>1 DEF AllInv, FixedPointInit, PriceMathInit, triple, pair
    <2> QED
      BY <2>1, <2>2, ProfileRests, LedgerRests, ReferralRests, AgentRests,
         ProtocolRests, MasterRests, TradeAccountRests, OracleRests DEF AllInv
  <1> QED
    BY <1>1, <1>2

LEMMA AccountsKeepInv == AccountsSpec => []AllInv
  BY AllStarts, AllStep, PTL DEF AccountsSpec

\* Whichever accounts are used, in any order and as time passes, each of them
\* stays consistent: a call of one never depends on what another one was.
THEOREM AccountsStayConsistent ==
    AccountsSpec => [](/\ ProfileConsistent /\ LedgerConsistent /\ ReferralsConsistent
                       /\ AgentConsistent /\ ProtocolConsistent /\ MasterConsistent
                       /\ TradeConsistent /\ OracleConsistent
                       /\ ArithmeticCorrect /\ PricesCorrect)
  <1>1. ASSUME AllInv
        PROVE  /\ ProfileConsistent /\ LedgerConsistent /\ ReferralsConsistent
               /\ AgentConsistent /\ ProtocolConsistent /\ MasterConsistent
               /\ TradeConsistent /\ OracleConsistent
               /\ ArithmeticCorrect /\ PricesCorrect
    BY <1>1, ProfileInvSuffices, LedgerFigures, ReferralInvSuffices, AgentInvSuffices,
       ProtocolInvSuffices, MasterInvSuffices, TradeAccountInvSuffices,
       OracleInvSuffices, ArithmeticIsCorrect, PricesAreCorrect DEF AllInv
  <1> QED
    BY <1>1, AccountsKeepInv, PTL

\* A step changes prices, yields and oracles as slowly as they may.
LEMMA AccountsStepIsSlow ==
    ASSUME AllInv, [AccountsNext]_accountsVars
    PROVE  SlowChange /\ SlowUpdate
  <1>1. /\ MasterInv /\ OracleInv
        /\ MasterNext \/ UNCHANGED masterState
        /\ OracleNext \/ UNCHANGED oracleState
    BY DEF AllInv, AccountsNext, accountsVars
  <1>2. SlowChange
    <2>1. CASE UNCHANGED masterState
      <3>1. master' = master /\ master.w_yield \in Nat
        BY <1>1, <2>1, MasterNumbers DEF masterState, MasterInv, MasterTypeOK
      <3> QED
        BY <3>1 DEF SlowChange
    <2> QED
      BY <1>1, <2>1, MasterStepIsSlow
  <1>3. SlowUpdate
    <2>1. CASE UNCHANGED oracleState
      BY <2>1 DEF oracleState, SlowUpdate
    <2> QED
      BY <1>1, <2>1, OracleStepIsSlow
  <1> QED
    BY <1>2, <1>3

\* Among all the accounts, in any order of calls: prices and yields of master
\* agents and updates of the oracle keep their intervals and their limits.
THEOREM AccountsChangeSlowly == AccountsSpec => ChangesAreSlow
  <1>1. ASSUME AllInv, [AccountsNext]_accountsVars
        PROVE  /\ [<<master.price, master.w_yield>>' # <<master.price, master.w_yield>>
                    => now - changed >= UpdateInterval]_masterVars
               /\ [/\ master.price < 10 => master.price' = master.price
                   /\ master.w_yield < 20 => master.w_yield' <= master.w_yield]_masterVars
               /\ [/\ oracle'.count # oracle.count
                   /\ ~hurried'
                   /\ oracle.publish_time >= updated
                   => now - updated >= OracleInterval]_oracleVars
               /\ [oracle.authority # NoUpdater => oracle'.authority = oracle.authority]_oracleVars
    BY <1>1, AccountsStepIsSlow DEF SlowChange, SlowUpdate
  <1> QED
    BY <1>1, AccountsKeepInv, PTL
    DEF AccountsSpec, ChangesAreSlow, ChangesAreSpaced, LowValuesAreFrozen,
        UpdatesAreSpaced, UpdaterStays
=============================================================================
