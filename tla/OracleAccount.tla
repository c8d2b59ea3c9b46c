---------------------------- MODULE OracleAccount ----------------------------
(***************************************************************************)
(* A custom oracle (state/oracle.rs) and the instruction that writes it    *)
(* (instructions/secure_oracle_update.rs).  The parameters of an update,   *)
(* its publish time and whether it is an emergency included, are chosen by *)
(* the caller.                                                             *)
(***************************************************************************)
EXTENDS Runtime

CONSTANTS
    NoUpdater,          \* Pubkey::default()
    Updaters,           \* the keys that call
    OracleBps,          \* 10000 in the code
    OracleInterval,     \* MIN_UPDATE_INTERVAL_SEC, 60 in the code
    MaxDeviation,       \* max_allowed_deviation of the oracle
    MaxAge, MaxError,   \* oracle_param: max_price_age_sec, max_price_error
    MaxExponent,        \* 20 in the code
    NewQuotes,          \* prices, confidences and averages that are tried
    Datings,            \* publish times that are tried, relative to the clock
    Exponents           \* exponents that are tried

ASSUME OracleAssumption ==
    /\ NoUpdater \notin Updaters
    /\ OracleBps \in Nat \ {0}
    /\ OracleInterval \in Nat
    /\ {MaxDeviation, MaxAge, MaxError, MaxExponent} \subseteq Nat
    /\ NewQuotes \subseteq [price : Words, conf : Words, ema : Words]
    /\ Datings \subseteq Int
    /\ Exponents \subseteq Int

VARIABLES
    oracle,     \* the account
    \* history, read by the properties only:
    updated,    \* the clock at the last update
    hurried     \* the last update was an emergency

oracleVars == <<now, calls, oracle, updated, hurried>>

OracleAccountType ==
    [price : Words, conf : Words, ema : Words, publish_time : Int, expo : Int,
     authority : Updaters \cup {NoUpdater}, count : Nat]

\* A created account: all bytes 0, but the deviation.
OracleInit ==
    /\ RuntimeInit
    /\ oracle = [price |-> 0, conf |-> 0, ema |-> 0, publish_time |-> 0,
                 expo |-> 0, authority |-> NoUpdater, count |-> 0]
    /\ updated = 0
    /\ hurried = FALSE

-----------------------------------------------------------------------------
(* The checks of an update *)

Distance(a, b) == IF a > b THEN a - b ELSE b - a

\* The first updater is the only one from then on.
Authorized(k) == oracle.authority \in {NoUpdater, k}

\* check_rate_limit counts from the publish time of the update before.
UpdateIsDue(emergency) ==
    emergency \/ now - oracle.publish_time >= OracleInterval

\* The new price p is a change of no more than limit; none of the first.
ChangesAtMost(p, limit) ==
    oracle.price > 0 =>
        /\ Fits(Distance(p, oracle.price) * OracleBps)
        /\ (Distance(p, oracle.price) * OracleBps) \div oracle.price <= limit

\* detect_price_manipulation: no more than tenfold either way, and no more
\* accurate than to one percent.
LooksHonest(p, c) ==
    oracle.price > 0 =>
        /\ IF p > oracle.price THEN Fits(p * 100) /\ (p * 100) \div oracle.price <= 1000
           ELSE p # 0 /\ Fits(oracle.price * 100) /\ (oracle.price * 100) \div p <= 1000
        /\ (c * OracleBps) \div p >= OracleBps \div 100

\* In 128 bits, where the product fits.
ConfidenceRatio(p, c) == (c * OracleBps) \div p
ConfidenceOK(p, c) == p # 0 /\ ConfidenceRatio(p, c) <= OracleBps \div 2

\* validate_price_update, which set repeats
ValidUpdate(q) == ChangesAtMost(q.price, MaxDeviation) /\ ConfidenceOK(q.price, q.conf)

\* CustomOracle::set
SetOracle(q, time, expo, k) ==
    /\ ValidUpdate(q)
    /\ oracle' = [price |-> q.price, conf |-> q.conf, ema |-> q.ema,
                  publish_time |-> time, expo |-> expo, authority |-> k,
                  count |-> oracle.count + 1]

SecureOracleUpdate(q, time, expo, emergency, k) ==
    /\ Call
    /\ Authorized(k)
    /\ UpdateIsDue(emergency)
    /\ ChangesAtMost(q.price, OracleBps \div 2)
    /\ LooksHonest(q.price, q.conf)
    /\ expo \in -MaxExponent .. MaxExponent
    /\ Fits(oracle.count + 2)   \* the logged count is one too many
    /\ SetOracle(q, time, expo, k)
    /\ updated' = now
    /\ hurried' = emergency

OracleTick == \E d \in Ticks : Tick(d) /\ UNCHANGED <<oracle, updated, hurried>>

OracleNext ==
    \/ \E q \in NewQuotes, d \in Datings, e \in Exponents,
          emergency \in BOOLEAN, k \in Updaters :
            SecureOracleUpdate(q, now + d, e, emergency, k)
    \/ OracleTick

OracleSpec == OracleInit /\ [][OracleNext]_oracleVars

-----------------------------------------------------------------------------
(* Reading the price *)

\* Mutated form: the age is the time until the price is published.
FreshAhead == oracle.publish_time - now <= MaxAge

\* A price from the future is never too old.
Fresh == now - oracle.publish_time <= MaxAge

StoredConfidenceOK == ConfidenceRatio(oracle.price, oracle.conf) <= OracleBps \div 2

\* get_secure_price returns the price
SecurelyReadable == Fresh /\ oracle.price # 0 /\ StoredConfidenceOK

\* get_custom_price returns the price, or the average
Readable(use_ema) ==
    LET p == IF use_ema THEN oracle.ema ELSE oracle.price IN
    /\ SecurelyReadable
    /\ p # 0
    /\ ConfidenceRatio(p, oracle.conf) <= MaxError

-----------------------------------------------------------------------------
(* Properties *)

\* Types of the account.
OracleTypeOK ==
    /\ oracle \in OracleAccountType
    /\ updated \in Nat
    /\ hurried \in BOOLEAN

\* Whoever updates an oracle first is its only updater ever after.
UpdaterStays ==
    [][oracle.authority # NoUpdater => oracle'.authority = oracle.authority]_oracleVars

\* An ordinary update comes an interval after the one before, whatever that
\* was, as long as that one was not dated back by its caller.
UpdatesAreSpaced ==
    [][/\ oracle'.count # oracle.count
       /\ ~hurried'
       /\ oracle.publish_time >= updated
       => now - updated >= OracleInterval]_oracleVars

\* A price that is read was updated within the age, in either way of
\* reading it, unless its caller dated it ahead.
ReadableMeansRecent ==
    /\ \E use_ema \in BOOLEAN : Readable(use_ema)
    /\ oracle.publish_time <= updated
    => now - updated <= MaxAge

\* What the update accepts the reader accepts, until it is too old.
WrittenIsReadable == oracle.count > 0 /\ Fresh => SecurelyReadable

\* The check for manipulation refuses accurate prices, not vague ones: from
\* the second update on the confidence is never below one percent.
NeverAccurateAgain ==
    oracle.count > 1 => oracle.conf * OracleBps >= oracle.price * (OracleBps \div 100)

\* What is written can be read, and what is read was written in time.
OracleConsistent ==
    /\ OracleTypeOK
    /\ ReadableMeansRecent
    /\ WrittenIsReadable
    /\ NeverAccurateAgain
=============================================================================
