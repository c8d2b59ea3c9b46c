---------------------------- MODULE Assets_proof ----------------------------
(***************************************************************************)
(* Proofs about the accounts of agents, of master agents and of the        *)
(* protocol, for every choice of their limits, prices and intervals.       *)
(***************************************************************************)
EXTENDS AgentAccount, ProtocolAccount, MasterAccount, Division

-----------------------------------------------------------------------------
(* Agents *)

\* The times of an agent are ordered, a reset included, and it keeps an
\* owner and a booster.
AgentInv ==
    /\ AgentTypeOK
    /\ agent.owner # NoOwner
    /\ agent.booster # 0
    /\ agent.created_at > 0
    /\ agent.created_at <= agent.last_updated
    /\ agent.last_updated <= handled
    /\ handled <= now

LEMMA AgentStarts == ASSUME AgentInit PROVE AgentInv
  <1> USE RuntimeAssumption, AgentAssumption
  <1>1. PICK o \in Owners \ {NoOwner}, b \in Boosters \ {0} :
          agent = [owner |-> o, booster |-> b, is_listed |-> TRUE,
                   created_at |-> now, last_updated |-> now]
    BY DEF AgentInit
  <1>2. now \in Nat /\ now > 0 /\ handled = now /\ b \in Words
    BY DEF AgentInit, RuntimeInit
  <1> QED
    BY <1>1, <1>2 DEF AgentInv, AgentTypeOK, AgentType

\* Every method stores an account made from the old one, with an owner and a
\* booster, and stamps it.
LEMMA HandledKeeps ==
    ASSUME AgentInv, NEW a \in AgentType, Handled(a),
           a.owner # NoOwner, a.booster # 0, a.created_at = agent.created_at
    PROVE  AgentInv'
  <1>1. agent' = [a EXCEPT !.last_updated = now] /\ handled' = now /\ now' = now
    BY DEF Handled, Call
  <1>2. now \in Nat
    BY DEF AgentInv, AgentTypeOK
  <1> QED
    BY <1>1, <1>2 DEF AgentInv, AgentTypeOK, AgentType

LEMMA AgentStep ==
    ASSUME AgentInv, [AgentNext]_agentVars
    PROVE  AgentInv'
  <1> USE AgentAssumption DEF AgentInv, AgentTypeOK, AgentType
  <1>1. ASSUME NEW b \in Boosters, UpdateBooster(b) PROVE AgentInv'
    <2>1. b # 0 /\ Handled([agent EXCEPT !.booster = b]) /\ b \in Words
      BY <1>1 DEF UpdateBooster
    <2> QED
      BY <2>1, HandledKeeps
  <1>2. CASE List
    BY <1>2, HandledKeeps DEF List
  <1>3. CASE UnlistAgent
    BY <1>3, HandledKeeps DEF UnlistAgent
  <1>4. CASE ToggleListing
    BY <1>4, <1>2, <1>3 DEF ToggleListing
  <1>5. ASSUME NEW o \in Owners \cup {NoOwner}, TransferOwnership(o) PROVE AgentInv'
    <2>1. o # NoOwner /\ Handled([agent EXCEPT !.owner = o])
      BY <1>5 DEF TransferOwnership
    <2> QED
      BY <2>1, HandledKeeps
  <1>6. CASE ResetAgent
    <2>1. /\ agent' = [agent EXCEPT !.is_listed = FALSE,
                                    !.last_updated = agent.created_at]
          /\ UNCHANGED <<now, handled>>
      BY <1>6 DEF ResetAgent, Call
    <2>2. /\ agent' \in AgentType
          /\ agent'.owner = agent.owner /\ agent'.booster = agent.booster
          /\ agent'.created_at = agent.created_at
          /\ agent'.last_updated = agent.created_at
      BY <2>1
    <2> QED
      BY <2>1, <2>2
  <1>7. CASE AgentTick
    BY <1>7, RuntimeAssumption DEF AgentTick, Tick
  <1>8. CASE UNCHANGED agentVars
    BY <1>8 DEF agentVars
  <1> QED
    BY <1>1, <1>2, <1>3, <1>4, <1>5, <1>6, <1>7, <1>8 DEF AgentNext

LEMMA AgentInvSuffices == ASSUME AgentInv PROVE AgentConsistent
  <1> USE RuntimeAssumption, AgentAssumption DEF AgentInv, AgentTypeOK, AgentType
  <1>1. AgentStaysValid
    BY DEF AgentStaysValid, ValidAgent, IsActiveAgent
  <1>2. AgeDays \in Int /\ agent.booster \in Nat
    BY QuotientBounds DEF AgeDays, DaysFrom, Words
  <1>3. ScoreFallsWithAge
    <2> DEFINE active == BonusIf(QuietDays <= NewDays /\ now # agent.created_at,
                                 agent.booster, ActiveBonus)
               mature == BonusIf(AgeDays \in MatureDays .. OldDays, active, MatureBonus)
    <2>1. /\ active \in Nat
          /\ active >= agent.booster
          /\ active <= agent.booster + ActiveBonus
      BY <1>2 DEF BonusIf, Plus
    <2>2. mature \in Nat /\ mature >= active /\ (AgeDays > OldDays => mature = active)
      BY <1>2, <2>1 DEF BonusIf, Plus
    <2>3. PerformanceScore = IF AgeDays > OldDays THEN Minus(mature, OldPenalty) ELSE mature
      BY DEF PerformanceScore
    <2> HIDE DEF active, mature
    <2> QED
      BY <1>2, <2>1, <2>2, <2>3 DEF ScoreFallsWithAge, Minus
  <1>4. NoAttentionMeansUsed
    <2>1. (now - handled) \div Day <= (now - agent.last_updated) \div Day
      <3>1. /\ now - handled \in Int /\ now - agent.last_updated \in Int
            /\ now - handled <= now - agent.last_updated
        OBVIOUS
      <3> QED
        BY ONLY <3>1, RuntimeAssumption, QuotientGrows
    <2>2. /\ (now - handled) \div Day \in Int
          /\ (now - agent.last_updated) \div Day \in Int
      BY QuotientBounds
    <2> QED
      BY <1>2, <2>1, <2>2 DEF NoAttentionMeansUsed, NeedsAttention, QuietDays, DaysFrom
  <1> QED
    BY <1>1, <1>3, <1>4 DEF AgentConsistent

\* After any calls an agent passes validate, its score falls below its
\* booster with age, and a reset hides no neglect.
THEOREM AgentsStayConsistent == AgentSpec => []AgentConsistent
  <1>1. AgentSpec => []AgentInv
    BY AgentStarts, AgentStep, PTL DEF AgentSpec
  <1> QED
    BY <1>1, AgentInvSuffices, PTL

-----------------------------------------------------------------------------
(* The protocol *)

\* The breaker is triggered since it was last tripped, unless init stored a
\* trigger of its own making.
TripInv ==
    /\ tripped # 0 => protocol.is_triggered /\ protocol.trigger_time = tripped
    /\ protocol.is_triggered /\ "breaker" \notin defects
       => protocol.trigger_time = tripped
    /\ tripped <= now

\* The taxes that fail the validation are those of init.
TaxInv == "taxes" \in defects <=> ~ValidTaxes(protocol.buy_tax, protocol.sell_tax)

\* So are the times of a last update that have not come.
LimiterInv == "clock" \notin defects => protocol.last_update_time \in 0 .. now

\* No balance that the validation refuses is ever stored.
AmountInv ==
    /\ ValidBalance(protocol.balance)
    /\ protocol.balance <= peak
    /\ protocol.fees <= peak
    /\ peak <= MaxBalance

ProtocolInv ==
    /\ ProtocolTypeOK
    /\ now \in 1 .. MaxTime
    /\ TripInv
    /\ TaxInv
    /\ LimiterInv
    /\ AmountInv

\* The times the clock may show are signed words.
LEMMA TimesAreSigned == 0 .. MaxTime \subseteq SignedWords /\ SignedWords \subseteq Int
  BY RuntimeAssumption, ProtocolAssumption DEF SignedWords, SignedWord

LEMMA TimeFits == ASSUME NEW d \in 0 .. MaxTime PROVE FitsSigned(d)
  BY TimesAreSigned DEF FitsSigned

LEMMA ProtocolStarts == ASSUME ProtocolInit PROVE ProtocolInv
  <1>1. PICK p \in FirstProtocols :
          protocol = [paused |-> p.paused, balance |-> 0, fees |-> 0,
                      is_triggered |-> p.is_triggered,
                      trigger_time |-> p.trigger_time,
                      last_update_time |-> p.last_update_time,
                      updates |-> p.updates, buy_tax |-> p.buy_tax,
                      sell_tax |-> p.sell_tax]
    BY DEF ProtocolInit
  <1>2. p \in FirstType /\ 0 \in Words
    BY RuntimeAssumption, ProtocolAssumption DEF Words
  <1>3. /\ protocol \in ProtocolType
        /\ protocol.balance = 0 /\ protocol.fees = 0 /\ peak = 0
    BY <1>1, <1>2 DEF FirstType, ProtocolType, ProtocolInit
  <1>4. now \in 1 .. MaxTime
    BY RuntimeAssumption DEF ProtocolInit, RuntimeInit
  <1>5. /\ tripped = IF protocol.is_triggered /\ PastTime(protocol.trigger_time)
                    THEN protocol.trigger_time ELSE 0
        /\ defects = FirstDefects
    BY DEF ProtocolInit
  <1>6. /\ defects \subseteq {"taxes", "breaker", "clock"}
        /\ TaxInv
        /\ "breaker" \in defects
           <=> protocol.is_triggered /\ ~PastTime(protocol.trigger_time)
        /\ "clock" \in defects <=> ~PastTime(protocol.last_update_time)
    BY <1>5 DEF FirstDefects, TaxInv
  <1>7. TripInv /\ tripped \in Nat
    BY <1>4, <1>5, <1>6 DEF TripInv, PastTime
  <1>8. AmountInv
    BY <1>3, ProtocolAssumption DEF AmountInv, ValidBalance, Words
  <1>9. LimiterInv
    BY <1>6 DEF LimiterInv, PastTime
  <1>10. ProtocolTypeOK
    BY <1>2, <1>3, <1>4, <1>6, <1>7 DEF ProtocolTypeOK
  <1> QED
    BY <1>4, <1>6, <1>7, <1>8, <1>9, <1>10 DEF ProtocolInv

\* Time alone disturbs nothing.
LEMMA TimeKeepsProtocol ==
    ASSUME ProtocolInv, UNCHANGED <<protocol, tripped, peak, defects>>,
           now' \in 1 .. MaxTime, now <= now'
    PROVE  ProtocolInv'
  <1>1. now \in 1 .. MaxTime /\ tripped \in Nat /\ now' \in Nat
    BY RuntimeAssumption DEF ProtocolInv, ProtocolTypeOK
  <1>2. ProtocolTypeOK'
    BY <1>1 DEF ProtocolInv, ProtocolTypeOK
  <1>3. TripInv'
    BY <1>1 DEF ProtocolInv, TripInv
  <1>4. TaxInv' /\ AmountInv'
    BY DEF ProtocolInv, TaxInv, ValidTaxes, ValidTax, AmountInv, ValidBalance
  <1>5. LimiterInv'
    BY <1>1 DEF ProtocolInv, LimiterInv
  <1> QED
    BY <1>2, <1>3, <1>4, <1>5 DEF ProtocolInv

\* A breaker that is set, now or not at all, with the pause or without it.
LEMMA BreakerKeepsProtocol ==
    ASSUME ProtocolInv, NEW set \in BOOLEAN, NEW b \in BOOLEAN,
           protocol' = [protocol EXCEPT !.paused = b, !.is_triggered = set,
                            !.trigger_time = tripped'],
           tripped' = IF set THEN now ELSE 0,
           defects' = defects \ {"breaker"},
           UNCHANGED <<now, peak>>
    PROVE  ProtocolInv'
  <1>1. /\ protocol \in ProtocolType /\ now \in 1 .. MaxTime
        /\ now \in SignedWords /\ 0 \in SignedWords
    BY RuntimeAssumption, TimesAreSigned DEF ProtocolInv, ProtocolTypeOK
  <1>2. tripped' \in SignedWords /\ tripped' \in 0 .. now
    BY <1>1
  <1>3. /\ protocol' \in ProtocolType
        /\ protocol'.balance = protocol.balance
        /\ protocol'.fees = protocol.fees
        /\ protocol'.is_triggered = set
        /\ protocol'.trigger_time = tripped'
        /\ protocol'.last_update_time = protocol.last_update_time
        /\ protocol'.buy_tax = protocol.buy_tax
        /\ protocol'.sell_tax = protocol.sell_tax
    BY <1>1, <1>2 DEF ProtocolType
  <1>4. TripInv'
    <2>1. tripped' # 0 => set = TRUE
      OBVIOUS
    <2> QED
      BY <1>1, <1>2, <1>3, <2>1 DEF TripInv
  <1>5. TaxInv'
    BY <1>3 DEF ProtocolInv, TaxInv, ValidTaxes, ValidTax
  <1>6. LimiterInv' /\ AmountInv'
    BY <1>3 DEF ProtocolInv, LimiterInv, AmountInv, ValidBalance
  <1>7. ProtocolTypeOK'
    BY <1>1, <1>2, <1>3 DEF ProtocolInv, ProtocolTypeOK
  <1> QED
    BY <1>1, <1>4, <1>5, <1>6, <1>7 DEF ProtocolInv

LEMMA ProtocolStep ==
    ASSUME ProtocolInv, [ProtocolNext]_protocolVars
    PROVE  ProtocolInv'
  <1>0. /\ protocol \in ProtocolType /\ now \in 1 .. MaxTime
        /\ now \in SignedWords /\ 0 \in SignedWords
        /\ Balances \cup Fees \cup Taxes \subseteq Words
        /\ peak \in Words /\ tripped \in Nat
        /\ defects \subseteq {"taxes", "breaker", "clock"}
        /\ {peak, MaxBalance, MaxTax, protocol.balance, protocol.fees} \subseteq Nat
        /\ Words \subseteq Nat
    BY RuntimeAssumption, ProtocolAssumption, TimesAreSigned
    DEF ProtocolInv, ProtocolTypeOK, ProtocolType, Words
  <1>1. ASSUME NEW b \in Balances, UpdateBalance(b) PROVE ProtocolInv'
    <2>1. /\ protocol' = [protocol EXCEPT !.balance = b, !.last_update_time = now]
          /\ b \in Words /\ b <= MaxBalance
          /\ peak' = IF b > peak THEN b ELSE peak
          /\ UNCHANGED <<now, tripped>>
          /\ defects' = defects \ {"clock"}
      BY <1>0, <1>1 DEF UpdateBalance, Call, ValidBalance
    <2>2. /\ protocol' \in ProtocolType
          /\ protocol'.balance = b
          /\ protocol'.fees = protocol.fees
          /\ protocol'.is_triggered = protocol.is_triggered
          /\ protocol'.trigger_time = protocol.trigger_time
          /\ protocol'.last_update_time = now
          /\ protocol'.buy_tax = protocol.buy_tax
          /\ protocol'.sell_tax = protocol.sell_tax
      BY <1>0, <2>1 DEF ProtocolType
    <2>3. TripInv'
      BY <2>1, <2>2 DEF ProtocolInv, TripInv
    <2>4. TaxInv'
      BY <2>1, <2>2 DEF ProtocolInv, TaxInv, ValidTaxes, ValidTax
    <2>5. LimiterInv'
      BY <1>0, <2>1, <2>2 DEF LimiterInv
    <2>6. AmountInv' /\ peak' \in Words
      BY <1>0, <2>1, <2>2 DEF ProtocolInv, AmountInv, ValidBalance
    <2> QED
      BY <1>0, <2>1, <2>2, <2>3, <2>4, <2>5, <2>6 DEF ProtocolInv, ProtocolTypeOK
  <1>2. ASSUME NEW f \in Fees, UpdateFees(f) PROVE ProtocolInv'
    <2>1. /\ protocol' = [protocol EXCEPT !.fees = f, !.last_update_time = now]
          /\ f \in Words /\ f <= protocol.balance
          /\ UNCHANGED <<now, tripped, peak>>
          /\ defects' = defects \ {"clock"}
      BY <1>0, <1>2 DEF UpdateFees, Call
    <2>2. /\ protocol' \in ProtocolType
          /\ protocol'.balance = protocol.balance
          /\ protocol'.fees = f
          /\ protocol'.is_triggered = protocol.is_triggered
          /\ protocol'.trigger_time = protocol.trigger_time
          /\ protocol'.last_update_time = now
          /\ protocol'.buy_tax = protocol.buy_tax
          /\ protocol'.sell_tax = protocol.sell_tax
      BY <1>0, <2>1 DEF ProtocolType
    <2>3. TripInv'
      BY <2>1, <2>2 DEF ProtocolInv, TripInv
    <2>4. TaxInv'
      BY <2>1, <2>2 DEF ProtocolInv, TaxInv, ValidTaxes, ValidTax
    <2>5. LimiterInv'
      BY <1>0, <2>1, <2>2 DEF LimiterInv
    <2>6. AmountInv'
      BY <1>0, <2>1, <2>2 DEF ProtocolInv, AmountInv, ValidBalance
    <2> QED
      BY <1>0, <2>1, <2>2, <2>3, <2>4, <2>5, <2>6 DEF ProtocolInv, ProtocolTypeOK
  <1>3. CASE TriggerBreaker
    <2>1. /\ protocol' = [protocol EXCEPT !.paused = protocol.paused,
                               !.is_triggered = TRUE, !.trigger_time = tripped']
          /\ UNCHANGED <<now, peak>> /\ tripped' = IF TRUE THEN now ELSE 0
          /\ defects' = defects \ {"breaker"}
          /\ protocol.paused \in BOOLEAN
      BY <1>0, <1>3 DEF TriggerBreaker, Call, ProtocolType
    <2> QED
      BY <2>1, BreakerKeepsProtocol
  <1>4. CASE ResetBreaker
    <2>1. /\ protocol' = [protocol EXCEPT !.paused = protocol.paused,
                               !.is_triggered = FALSE, !.trigger_time = tripped']
          /\ UNCHANGED <<now, peak>> /\ tripped' = IF FALSE THEN now ELSE 0
          /\ defects' = defects \ {"breaker"}
          /\ protocol.paused \in BOOLEAN
      BY <1>0, <1>4 DEF ResetBreaker, Call, ProtocolType
    <2> QED
      BY <2>1, BreakerKeepsProtocol
  <1>5. CASE EmergencyPause
    <2>1. /\ protocol' = [protocol EXCEPT !.paused = TRUE, !.is_triggered = TRUE,
                               !.trigger_time = tripped']
          /\ UNCHANGED <<now, peak>> /\ tripped' = IF TRUE THEN now ELSE 0
          /\ defects' = defects \ {"breaker"}
      BY <1>5 DEF EmergencyPause, Call
    <2> QED
      BY <2>1, BreakerKeepsProtocol
  <1>6. ASSUME NEW b \in BOOLEAN, SetPaused(b) PROVE ProtocolInv'
    <2>1. /\ protocol' = [protocol EXCEPT !.paused = b]
          /\ UNCHANGED <<now, tripped, peak, defects>>
      BY <1>6 DEF SetPaused, Call
    <2>2. /\ protocol' \in ProtocolType
          /\ protocol'.balance = protocol.balance
          /\ protocol'.fees = protocol.fees
          /\ protocol'.is_triggered = protocol.is_triggered
          /\ protocol'.trigger_time = protocol.trigger_time
          /\ protocol'.last_update_time = protocol.last_update_time
          /\ protocol'.buy_tax = protocol.buy_tax
          /\ protocol'.sell_tax = protocol.sell_tax
      BY <1>0, <2>1 DEF ProtocolType
    <2>3. TripInv'
      BY <2>1, <2>2 DEF ProtocolInv, TripInv
    <2>4. TaxInv'
      BY <2>1, <2>2 DEF ProtocolInv, TaxInv, ValidTaxes, ValidTax
    <2>5. LimiterInv' /\ AmountInv'
      BY <2>1, <2>2 DEF ProtocolInv, LimiterInv, AmountInv, ValidBalance
    <2> QED
      BY <1>0, <2>1, <2>2, <2>3, <2>4, <2>5 DEF ProtocolInv, ProtocolTypeOK
  <1>7. ASSUME NEW buy \in Taxes \cup {Keep}, NEW sell \in Taxes \cup {Keep},
               UpdateConfig(buy, sell)
        PROVE  ProtocolInv'
    <2> DEFINE b == Chosen(buy, protocol.buy_tax)
               s == Chosen(sell, protocol.sell_tax)
    <2>1. /\ protocol' = [protocol EXCEPT !.buy_tax = b, !.sell_tax = s,
                              !.last_update_time = now,
                              !.updates = protocol.updates + 1]
          /\ protocol.updates + 1 <= MaxU32
          /\ UNCHANGED <<now, tripped, peak>>
      BY <1>7 DEF UpdateConfig, Call
    <2>2. b \in Words /\ s \in Words
      BY <1>0 DEF Chosen, ProtocolType
    <2>3. protocol.updates + 1 \in 0 .. MaxU32
      BY <1>0, <2>1, ProtocolAssumption DEF ProtocolType
    <2>4. /\ "clock" \notin defects' /\ defects' \subseteq defects
          /\ "breaker" \in defects' <=> "breaker" \in defects
          /\ \/ "taxes" \notin defects' /\ ValidTaxes(b, s)
             \/ /\ "taxes" \in defects' <=> "taxes" \in defects
                /\ b = protocol.buy_tax /\ s = protocol.sell_tax
      BY <1>7 DEF UpdateConfig, Chosen
    <2> HIDE DEF b, s
    <2>5. /\ protocol' \in ProtocolType
          /\ protocol'.balance = protocol.balance
          /\ protocol'.fees = protocol.fees
          /\ protocol'.is_triggered = protocol.is_triggered
          /\ protocol'.trigger_time = protocol.trigger_time
          /\ protocol'.last_update_time = now
          /\ protocol'.buy_tax = b
          /\ protocol'.sell_tax = s
      BY <1>0, <2>1, <2>2, <2>3 DEF ProtocolType
    <2>6. TripInv'
      BY <2>1, <2>4, <2>5 DEF ProtocolInv, TripInv
    <2>7. TaxInv'
      BY <2>4, <2>5 DEF ProtocolInv, TaxInv, ValidTaxes, ValidTax
    <2>8. LimiterInv' /\ AmountInv'
      BY <1>0, <2>1, <2>5 DEF ProtocolInv, LimiterInv, AmountInv, ValidBalance
    <2> QED
      BY <1>0, <2>1, <2>4, <2>5, <2>6, <2>7, <2>8 DEF ProtocolInv, ProtocolTypeOK
  <1>8. CASE ProtocolTick
    <2>1. /\ now' \in 1 .. MaxTime /\ now <= now'
          /\ UNCHANGED <<protocol, tripped, peak, defects>>
      BY <1>0, <1>8, RuntimeAssumption DEF ProtocolTick, Tick
    <2> QED
      BY <2>1, TimeKeepsProtocol
  <1>9. CASE UNCHANGED protocolVars
    BY <1>0, <1>9, TimeKeepsProtocol DEF protocolVars
  <1> QED
    BY <1>1, <1>2, <1>3, <1>4, <1>5, <1>6, <1>7, <1>8, <1>9 DEF ProtocolNext

LEMMA ProtocolInvSuffices == ASSUME ProtocolInv PROVE ProtocolConsistent
  <1>0. /\ now \in 1 .. MaxTime /\ tripped \in Nat /\ tripped <= now
        /\ protocol \in ProtocolType /\ Cooldown \in Nat /\ MinInterval \in Nat
    BY ProtocolAssumption DEF ProtocolInv, ProtocolTypeOK, TripInv
  <1>1. TrippedStaysOpen
    <2> SUFFICES ASSUME tripped # 0, now - tripped < Cooldown PROVE ~BreakerClosed
      BY DEF TrippedStaysOpen, SecureState
    <2>1. protocol.is_triggered /\ protocol.trigger_time = tripped
      BY DEF ProtocolInv, TripInv
    <2> QED
      BY <1>0, <2>1 DEF BreakerClosed, Elapsed
  <1>2. RecoversWithTime
    <2> SUFFICES ASSUME defects = {}, ~protocol.paused, now - tripped >= Cooldown,
                        now - protocol.last_update_time >= MinInterval,
                        now - (now % Day) > LastResetDay
                 PROVE  SecureState
      BY DEF RecoversWithTime
    <2>1. BreakerClosed
      <3>1. protocol.is_triggered => protocol.trigger_time = tripped
        BY DEF ProtocolInv, TripInv
      <3>2. now - tripped \in 0 .. MaxTime
        BY <1>0, RuntimeAssumption
      <3>3. FitsSigned(now - tripped)
        BY <3>2, TimeFits
      <3>4. Elapsed(tripped, Cooldown)
        BY <3>3 DEF Elapsed
      <3> QED
        BY <3>1, <3>4 DEF BreakerClosed
    <2>2. ValidTaxes(protocol.buy_tax, protocol.sell_tax)
      BY DEF ProtocolInv, TaxInv
    <2>3. WithinLimit
      <3>1. protocol.last_update_time \in 0 .. now
        BY DEF ProtocolInv, LimiterInv
      <3>2. now - protocol.last_update_time \in 0 .. MaxTime
        BY <1>0, <3>1, RuntimeAssumption
      <3>3. FitsSigned(now - protocol.last_update_time)
        BY <3>2, TimeFits
      <3> QED
        BY <3>3 DEF WithinLimit, Elapsed
    <2> QED
      BY <2>1, <2>2, <2>3 DEF SecureState, ProtocolInv, AmountInv
  <1>3. BadTaxesStay
    BY DEF BadTaxesStay, SecureState, ProtocolInv, TaxInv
  <1> QED
    BY <1>1, <1>2, <1>3 DEF ProtocolConsistent, FeesWithinPeak, ProtocolInv, AmountInv

\* Whatever init stored: the breaker is open for its cooldown after any order
\* of triggers, pauses and unpauses, and once init's unchecked taxes, trigger
\* and last update are overwritten nothing else keeps the protocol from being
\* secure; taxes beyond their bounds do, until a tax is given.
THEOREM ProtocolStaysConsistent == ProtocolSpec => []ProtocolConsistent
  <1>1. ProtocolSpec => []ProtocolInv
    BY ProtocolStarts, ProtocolStep, PTL DEF ProtocolSpec
  <1> QED
    BY <1>1, ProtocolInvSuffices, PTL

-----------------------------------------------------------------------------
(* Master agents *)

\* The last update lies between the creation and the last call, no change of
\* a price is later than it, and the account passes its validation but for a
\* supply of 0.
MasterInv ==
    /\ MasterTypeOK
    /\ master.price # 0
    /\ master.w_yield <= Bps
    /\ master.agent_count <= master.max_supply
    /\ ValidTaxConfig(master.tax)
    /\ master.created_at > 0
    /\ master.created_at <= master.last_updated
    /\ changed <= master.last_updated
    /\ master.last_updated <= used
    /\ used <= now

LEMMA MasterStarts == ASSUME MasterInit PROVE MasterInv
  <1>1. PICK m \in FirstMasters : master = Initialized(m)
    BY DEF MasterInit
  <1>2. /\ now \in Nat /\ now > 0 /\ calls \in Nat
        /\ changed = now /\ used = now
    BY RuntimeAssumption DEF MasterInit, RuntimeInit
  <1>3. /\ m.price \in Words /\ m.price # 0
        /\ m.w_yield \in Words /\ m.w_yield <= Bps
        /\ m.max_supply \in Words
        /\ m.tax \in TaxConfig /\ ValidTaxConfig(m.tax)
        /\ 0 \in Words /\ 0 <= m.max_supply
    BY RuntimeAssumption, MasterAssumption DEF Words
  <1> QED
    BY <1>1, <1>2, <1>3
    DEF Initialized, MasterInv, MasterTypeOK, MasterType, TradingStatus

\* A call that stamps the account m, made from the old one.
LEMMA TouchedKeeps ==
    ASSUME MasterInv, NEW m \in MasterType, Touched(m),
           m.price # 0, m.w_yield <= Bps, m.agent_count <= m.max_supply,
           ValidTaxConfig(m.tax), m.created_at = master.created_at,
           changed' \in {changed, now}
    PROVE  MasterInv'
  <1>1. /\ now \in Nat /\ changed \in Nat /\ used \in Nat /\ calls' \in Nat
        /\ master.last_updated \in Nat /\ master.created_at \in Nat
        /\ now' = now /\ used' = now
        /\ master' = [m EXCEPT !.last_updated = now]
    BY DEF MasterInv, MasterTypeOK, MasterType, Touched, Call
  <1>2. /\ master' \in MasterType
        /\ master'.last_updated = now
        /\ master'.price = m.price /\ master'.w_yield = m.w_yield
        /\ master'.agent_count = m.agent_count /\ master'.max_supply = m.max_supply
        /\ master'.tax = m.tax /\ master'.created_at = m.created_at
    BY <1>1 DEF MasterType
  <1>3. ValidTaxConfig(master.tax)'
    BY <1>2 DEF ValidTaxConfig
  <1> QED
    BY <1>1, <1>2, <1>3 DEF MasterInv, MasterTypeOK

LEMMA MasterStep ==
    ASSUME MasterInv, [MasterNext]_masterVars
    PROVE  MasterInv'
  <1>0. /\ master \in MasterType /\ master.price # 0 /\ master.w_yield <= Bps
        /\ master.agent_count <= master.max_supply /\ ValidTaxConfig(master.tax)
        /\ master.agent_count \in Nat /\ master.max_supply \in Nat
        /\ NewPrices \cup NewYields \cup NewSupplies \subseteq Words
        /\ NewTaxes \subseteq TaxConfig
    BY MasterAssumption DEF MasterInv, MasterTypeOK, MasterType, Words
  <1>1. ASSUME NEW p \in NewPrices, NEW k, UpdatePrice(p, k) PROVE MasterInv'
    <2> DEFINE m == [master EXCEPT !.price = p, !.last_price_update = now]
    <2>1. p # 0 /\ Touched(m) /\ changed' = now /\ now \in Nat
      BY <1>1 DEF UpdatePrice, MasterInv, MasterTypeOK
    <2>2. /\ m \in MasterType /\ m.price = p /\ m.w_yield = master.w_yield
          /\ m.agent_count = master.agent_count /\ m.max_supply = master.max_supply
          /\ m.tax = master.tax /\ m.created_at = master.created_at
      BY <1>0, <2>1 DEF MasterType
    <2> QED
      BY <1>0, <2>1, <2>2, TouchedKeeps
  <1>2. ASSUME NEW y \in NewYields, NEW k, UpdateYield(y, k) PROVE MasterInv'
    <2> DEFINE m == [master EXCEPT !.w_yield = y]
    <2>1. y \in 1 .. Bps /\ Touched(m) /\ changed' = now
      BY <1>2 DEF UpdateYield
    <2>2. /\ m \in MasterType /\ m.w_yield = y /\ m.price = master.price
          /\ m.agent_count = master.agent_count /\ m.max_supply = master.max_supply
          /\ m.tax = master.tax /\ m.created_at = master.created_at
      BY <1>0 DEF MasterType
    <2>3. y <= Bps
      BY <2>1, MasterAssumption
    <2> QED
      BY <1>0, <2>1, <2>2, <2>3, TouchedKeeps
  <1>3. ASSUME NEW t \in NewTaxes, NEW k, UpdateTaxConfig(t, k) PROVE MasterInv'
    <2> DEFINE m == [master EXCEPT !.tax = t]
    <2>1. ValidTaxConfig(t) /\ Touched(m) /\ changed' = now
      BY <1>3 DEF UpdateTaxConfig
    <2>2. /\ m \in MasterType /\ m.tax = t /\ m.price = master.price
          /\ m.agent_count = master.agent_count /\ m.max_supply = master.max_supply
          /\ m.w_yield = master.w_yield /\ m.created_at = master.created_at
      BY <1>0 DEF MasterType
    <2> QED
      BY <1>0, <2>1, <2>2, TouchedKeeps
  <1>4. ASSUME NEW s \in NewSupplies, UpdateMaxSupply(s) PROVE MasterInv'
    <2> DEFINE m == [master EXCEPT !.max_supply = s]
    <2>1. s >= master.agent_count /\ s \in Nat /\ Touched(m) /\ changed' = changed
      BY <1>0, <1>4 DEF UpdateMaxSupply, Words
    <2>2. /\ m \in MasterType /\ m.max_supply = s /\ m.price = master.price
          /\ m.agent_count = master.agent_count /\ m.tax = master.tax
          /\ m.w_yield = master.w_yield /\ m.created_at = master.created_at
      BY <1>0 DEF MasterType
    <2> QED
      BY <1>0, <2>1, <2>2, TouchedKeeps
  <1>5. CASE AddAgentToMaster
    <2> DEFINE m == [master EXCEPT !.agent_count = master.agent_count + 1]
    <2>1. master.agent_count < master.max_supply /\ Touched(m) /\ changed' = changed
      BY <1>0, <1>5 DEF AddAgentToMaster, IsSupplyFull
    <2>2. master.agent_count + 1 \in Words
      BY <1>0, <2>1, RuntimeAssumption DEF MasterType, Words
    <2>3. /\ m \in MasterType /\ m.max_supply = master.max_supply
          /\ m.price = master.price
          /\ m.agent_count = master.agent_count + 1 /\ m.tax = master.tax
          /\ m.w_yield = master.w_yield /\ m.created_at = master.created_at
      BY <1>0, <2>2 DEF MasterType
    <2>4. m.agent_count <= m.max_supply
      BY <1>0, <2>1, <2>3
    <2> HIDE DEF m
    <2> QED
      BY <1>0, <2>1, <2>3, <2>4, TouchedKeeps
  <1>6. CASE RemoveAgentFromMaster
    <2> DEFINE m == [master EXCEPT !.agent_count = master.agent_count - 1]
    <2>1. master.agent_count # 0 /\ Touched(m) /\ changed' = changed
      BY <1>0, <1>6 DEF RemoveAgentFromMaster
    <2>2. master.agent_count - 1 \in Words
      BY <1>0, <2>1, RuntimeAssumption DEF MasterType, Words
    <2>3. /\ m \in MasterType /\ m.max_supply = master.max_supply
          /\ m.price = master.price
          /\ m.agent_count = master.agent_count - 1 /\ m.tax = master.tax
          /\ m.w_yield = master.w_yield /\ m.created_at = master.created_at
      BY <1>0, <2>2 DEF MasterType
    <2>4. m.agent_count <= m.max_supply
      BY <1>0, <2>1, <2>3
    <2> HIDE DEF m
    <2> QED
      BY <1>0, <2>1, <2>3, <2>4, TouchedKeeps
  <1>7. CASE IncrementTradeCount
    <2> DEFINE m == [master EXCEPT !.trade_count = master.trade_count + 1]
    <2>1. master.trade_count + 1 \in Words /\ Touched(m) /\ changed' = changed
      BY <1>7 DEF IncrementTradeCount, Fits
    <2>2. /\ m \in MasterType /\ m.max_supply = master.max_supply
          /\ m.price = master.price
          /\ m.agent_count = master.agent_count /\ m.tax = master.tax
          /\ m.w_yield = master.w_yield /\ m.created_at = master.created_at
      BY <1>0, <2>1 DEF MasterType
    <2> QED
      BY <1>0, <2>1, <2>2, TouchedKeeps
  <1>8. ASSUME NEW b \in BOOLEAN, SetAutoRelist(b) PROVE MasterInv'
    <2> DEFINE m == [master EXCEPT !.auto_relist = b]
    <2>1. Touched(m) /\ changed' = changed
      BY <1>8 DEF SetAutoRelist
    <2>2. /\ m \in MasterType /\ m.max_supply = master.max_supply
          /\ m.price = master.price
          /\ m.agent_count = master.agent_count /\ m.tax = master.tax
          /\ m.w_yield = master.w_yield /\ m.created_at = master.created_at
      BY <1>0 DEF MasterType
    <2> QED
      BY <1>0, <2>1, <2>2, TouchedKeeps
  <1>9. ASSUME NEW s \in TradingStatus, NEW k, SetTradingStatus(s, k) PROVE MasterInv'
    <2> DEFINE m == [master EXCEPT !.trading_status = s]
    <2>1. Touched(m) /\ changed' = changed
      BY <1>9 DEF SetTradingStatus
    <2>2. /\ m \in MasterType /\ m.max_supply = master.max_supply
          /\ m.price = master.price
          /\ m.agent_count = master.agent_count /\ m.tax = master.tax
          /\ m.w_yield = master.w_yield /\ m.created_at = master.created_at
      BY <1>0 DEF MasterType
    <2> QED
      BY <1>0, <2>1, <2>2, TouchedKeeps
  <1>10. CASE ToggleTradingStatus
    BY <1>9, <1>10 DEF ToggleTradingStatus
  <1>11. CASE ResetMaster
    <2>1. /\ master' = [master EXCEPT !.agent_count = 0, !.trade_count = 0,
                           !.trading_status = "WhiteList",
                           !.last_updated = master.created_at]
          /\ changed' = master.created_at /\ UNCHANGED <<now, used>>
          /\ calls' \in Nat
      BY <1>11 DEF ResetMaster, Call, MasterInv, MasterTypeOK
    <2>2. 0 \in Words
      BY RuntimeAssumption DEF Words
    <2>3. /\ master' \in MasterType
          /\ master'.price = master.price /\ master'.w_yield = master.w_yield
          /\ master'.max_supply = master.max_supply /\ master'.agent_count = 0
          /\ master'.tax = master.tax /\ master'.created_at = master.created_at
          /\ master'.last_updated = master.created_at
      BY <1>0, <2>1, <2>2 DEF MasterType, TradingStatus
    <2>4. ValidTaxConfig(master.tax)'
      BY <1>0, <2>3 DEF ValidTaxConfig
    <2>5. master.created_at \in Nat /\ master.last_updated \in Nat /\ used \in Nat
      BY DEF MasterInv, MasterTypeOK, MasterType
    <2> QED
      BY <1>0, <2>1, <2>3, <2>4, <2>5 DEF MasterInv, MasterTypeOK
  <1>12. CASE MasterTick
    BY <1>12, RuntimeAssumption DEF MasterTick, Tick, MasterInv, MasterTypeOK, ValidTaxConfig
  <1>13. CASE UNCHANGED masterVars
    BY <1>13 DEF masterVars, MasterInv, MasterTypeOK, ValidTaxConfig
  <1> QED
    BY <1>1, <1>2, <1>3, <1>4, <1>5, <1>6, <1>7, <1>8, <1>9, <1>10, <1>11, <1>12, <1>13
    DEF MasterNext, UpdatePriceSecurely

\* What the figures of a master agent are in numbers.
LEMMA MasterNumbers ==
    ASSUME MasterInv
    PROVE  /\ master.price \in Nat \ {0} /\ master.w_yield \in Nat
           /\ master.agent_count \in Nat
           /\ Bps \in Nat \ {0} /\ QuoteScale \in Nat \ {0} /\ Day \in Nat \ {0}
           /\ now \in Nat /\ used \in Nat /\ changed \in Nat
           /\ master.created_at \in Nat /\ master.last_updated \in Nat
           /\ master.tax.buy \in Nat
           /\ MasterAge \in Nat
  <1> USE RuntimeAssumption, MasterAssumption
      DEF MasterInv, MasterTypeOK, MasterType, TaxConfig, Words
  <1>1. now - master.created_at \in Nat
    OBVIOUS
  <1>2. MasterAge \in Nat
    BY <1>1, QuotientIsNat DEF MasterAge, DaysFrom
  <1> QED
    BY <1>2

\* A share of the price spread over fewer than ten days exceeds a tenth of it.
LEMMA MasterClosedForNineDays == ASSUME MasterInv PROVE ClosedForNineDays
  <1> DEFINE p == master.price
             age == MasterAge
             tenth == p \div 10
  <1>1. p \in Nat \ {0} /\ age \in Nat /\ tenth \in Nat
    BY MasterNumbers
  <1>2. tenth * 10 <= p /\ p < tenth * 10 + 10
    BY <1>1
  <1>3. ASSUME p >= 90, age \in 1 .. 9 PROVE ~SecureMaster
    <2>1. (tenth + 1) * 9 <= p
      BY <1>1, <1>2, <1>3
    <2>2. tenth + 1 <= p \div 9
      BY <1>1, <2>1, QuotientReaches
    <2>3. p \div 9 <= p \div age
      <3>1. p \in Nat /\ age \in Nat \ {0} /\ 9 \in Nat \ {0} /\ age <= 9
        BY <1>1, <1>3
      <3> HIDE DEF p, age
      <3> QED
        BY <3>1, QuotientShrinks
    <2>4. p \div 9 \in Int /\ p \div age \in Int
      BY <1>1, <1>3, QuotientBounds
    <2>5. p \div age > tenth /\ age > 0
      BY <1>1, <1>3, <2>2, <2>3, <2>4
    <2> QED
      BY <1>1, <2>4, <2>5 DEF SecureMaster, NothingSuspicious, PriceLooksSteady
  <1>4. ASSUME age = 0 \/ age >= 10 PROVE PriceLooksSteady
    <2>1. CASE age = 0
      BY <2>1 DEF PriceLooksSteady
    <2>2. CASE age >= 10
      BY <1>1, <2>2, QuotientShrinks DEF PriceLooksSteady
    <2> QED
      BY <1>4, <2>1, <2>2
  <1> QED
    BY <1>3, <1>4 DEF ClosedForNineDays

\* Tokens are bought whole: their price and taxes are the quotient's multiple.
LEMMA MasterNeverOverBudget == ASSUME MasterInv PROVE NeverOverBudget
  <1> SUFFICES ASSUME NEW usdc \in Budgets, BuyPriceDefined
               PROVE  LET paid == TaxPaidFor(usdc) + BaseFor(usdc)
                      IN  paid <= usdc /\ usdc < paid + BuyPrice
    BY DEF NeverOverBudget
  <1> DEFINE p == master.price
             tax == TaxOf(master.tax.buy)
             n == TokensFor(usdc)
  <1>1. /\ usdc \in Nat /\ p \in Nat \ {0}
        /\ p * master.tax.buy \in Nat /\ Bps \in Nat \ {0}
    BY MasterNumbers, MasterAssumption DEF Words
  <1>2. tax \in Nat
    BY <1>1, QuotientIsNat DEF TaxOf, Share
  <1>3. BuyPrice = p + tax
    BY DEF BuyPrice
  <1> HIDE DEF p, tax
  <1>4. p + tax \in Nat \ {0}
    BY <1>1, <1>2
  <1>5. n \in Int /\ n * (p + tax) <= usdc /\ usdc < n * (p + tax) + (p + tax)
    BY <1>1, <1>3, <1>4, QuotientBounds DEF TokensFor
  <1> HIDE DEF n
  <1>6. n * (p + tax) = n * tax + n * p
    BY <1>1, <1>2, <1>5
  <1>7. TaxPaidFor(usdc) = n * tax /\ BaseFor(usdc) = n * p
    BY DEF TaxPaidFor, BaseFor, n, tax, p
  <1>8. n * tax \in Int /\ n * p \in Int
    BY <1>1, <1>2, <1>5
  <1> QED
    BY <1>1, <1>2, <1>3, <1>5, <1>6, <1>7, <1>8

\* The yield of an agent is rounded down, then multiplied by the agents.
LEMMA MasterEfficiency == ASSUME MasterInv PROVE EfficiencyNeverOverstates
  <1> DEFINE p == master.price
             w == master.w_yield
             n == master.agent_count
             S == QuoteScale
             y == YieldAmount
             e == MasterYieldEfficiency
  <1>1. /\ p \in Nat \ {0} /\ w \in Nat /\ n \in Nat
        /\ S \in Nat \ {0} /\ Bps \in Nat \ {0} /\ p * w \in Nat
    BY MasterNumbers
  <1>2. y \in Nat /\ y * Bps <= p * w
    BY <1>1, QuotientIsNat, QuotientBounds DEF YieldAmount, Share
  <1> SUFFICES e * Bps <= w * S
    BY DEF EfficiencyNeverOverstates
  <1>3. CASE ValueLocked = 0
    <2>1. e = 0 /\ w * S \in Nat
      BY <1>1, <1>3 DEF MasterYieldEfficiency
    <2> QED
      BY <1>1, <2>1
  <1>4. CASE ValueLocked # 0
    <2> DEFINE v == n * p
    <2>1. ValueLocked = v /\ v # 0 /\ v \in Nat
      BY <1>1, <1>4 DEF ValueLocked
    <2>2. e = ((y * n) * S) \div v
      BY <1>4, <2>1 DEF MasterYieldEfficiency, YieldGenerated
    <2> HIDE DEF e, y, p, w, n, S
    <2>3. (y * n) * S \in Nat
      BY <1>1, <1>2
    <2>4. e \in Int /\ e * v <= (y * n) * S
      BY <2>1, <2>2, <2>3, QuotientBounds
    <2>5. (e * v) * Bps <= ((y * n) * S) * Bps
      BY <1>1, <2>1, <2>3, <2>4, ProductGrows
    <2>6. ((y * n) * S) * Bps = (y * Bps) * (n * S)
      BY <1>1, <1>2
    <2>7. n * S \in Nat
      BY <1>1
    <2>8. (y * Bps) * (n * S) <= (p * w) * (n * S)
      BY <1>1, <1>2, <2>7, ProductGrows
    <2>9. (p * w) * (n * S) = (w * S) * v
      BY <1>1
    <2>10. (e * v) * Bps = (e * Bps) * v
      BY <1>1, <2>1, <2>4
    <2>11. (w * S) * v < (w * S + 1) * v
      BY <1>1, <2>1
    <2>12. (e * Bps) * v < (w * S + 1) * v
      <3>1. /\ (e * Bps) * v \in Int /\ (w * S) * v \in Int
            /\ (w * S + 1) * v \in Int /\ (y * Bps) * (n * S) \in Int
        BY <1>1, <1>2, <2>1, <2>4
      <3>2. (e * Bps) * v <= (w * S) * v
        BY <2>5, <2>6, <2>8, <2>9, <2>10, <3>1
      <3> QED
        BY <2>11, <3>1, <3>2
    <2>13. e * Bps \in Int /\ w * S \in Int
      BY <1>1, <2>4
    <2> QED
      BY <2>1, <2>12, <2>13, FactorIsLess
  <1> QED
    BY <1>3, <1>4

\* The last update is no later than the last use.
LEMMA MasterUnused == ASSUME MasterInv PROVE UnusedNeedsAttention
  <1>1. /\ now \in Nat /\ used \in Nat /\ master.last_updated \in Nat
        /\ Day \in Nat \ {0} /\ master.last_updated <= used
    BY MasterNumbers DEF MasterInv
  <1> SUFFICES ASSUME now - used > 8 * Day PROVE DaysFrom(master.last_updated, now) > 7
    BY DEF UnusedNeedsAttention, MasterNeedsAttention
  <1>2. 8 * Day <= now - master.last_updated /\ now - master.last_updated \in Int
    BY <1>1
  <1>3. 8 <= (now - master.last_updated) \div Day
    BY <1>1, <1>2, QuotientReaches
  <1>4. (now - master.last_updated) \div Day \in Int
    BY <1>1, <1>2, QuotientBounds
  <1> QED
    BY <1>3, <1>4 DEF DaysFrom

LEMMA MasterInvSuffices == ASSUME MasterInv PROVE MasterConsistent
  <1>1. ValidUnlessSupplyTaken
    BY DEF MasterInv, ValidUnlessSupplyTaken, ValidMaster
  <1> QED
    BY <1>1, MasterClosedForNineDays, MasterNeverOverBudget, MasterEfficiency,
       MasterUnused
    DEF MasterConsistent, MasterInv

\* The account stays valid through any calls, sales close for nine days, and
\* quotes and figures are rounded as said, for every price, tax and scale.
THEOREM MastersStayConsistent == MasterSpec => []MasterConsistent
  <1>1. MasterSpec => []MasterInv
    BY MasterStarts, MasterStep, PTL DEF MasterSpec
  <1> QED
    BY <1>1, MasterInvSuffices, PTL

-----------------------------------------------------------------------------
(* Slow changes *)

\* A limit of pct percent that adds less than a unit adds nothing.
LEMMA SmallShareIsWhole ==
    ASSUME NEW x \in Nat, NEW pct \in Nat, NEW k \in Nat \ {0}, pct * k = 100, x < k,
           Bps \in Nat \ {0}
    PROVE  Share(x, Increase(pct)) = x
  <1> DEFINE d == (pct * Bps) \div 100
  <1>1. pct * Bps \in Nat
    OBVIOUS
  <1>2. d \in Nat /\ d * 100 <= pct * Bps
    BY <1>1, QuotientIsNat, QuotientBounds
  <1> HIDE DEF d
  <1>3. d * k <= Bps
    <2>1. (d * 100) * k <= (pct * Bps) * k
      BY <1>1, <1>2, ProductGrows
    <2>2. (d * 100) * k = (d * k) * 100
      BY <1>2
    <2>3. (pct * Bps) * k = Bps * 100
      <3>1. (pct * Bps) * k = Bps * (pct * k)
        OBVIOUS
      <3> QED
        BY <3>1
    <2>4. d * k \in Nat
      BY <1>2
    <2> QED
      BY <2>1, <2>2, <2>3, <2>4
  <1>4. x * d < Bps
    <2>1. CASE d = 0
      BY <2>1
    <2>2. CASE d # 0
      <3>1. (x + 1) * d <= k * d
        BY <1>2, ProductGrows
      <3>2. (x + 1) * d = x * d + d /\ k * d = d * k
        BY <1>2
      <3>3. x * d \in Nat /\ d * k \in Nat
        BY <1>2
      <3> QED
        BY <1>2, <1>3, <2>2, <3>1, <3>2, <3>3
    <2> QED
      BY <2>1, <2>2
  <1>5. x * (Bps + d) = x * Bps + x * d
    BY <1>2
  <1>6. x * (Bps + d) \in Int /\ x * d \in Nat /\ x * Bps \in Nat
    BY <1>2
  <1>7. x * Bps <= x * (Bps + d) /\ x * (Bps + d) < x * Bps + Bps
    BY <1>4, <1>5, <1>6
  <1>8. (x * (Bps + d)) \div Bps = x
    BY <1>6, <1>7, QuotientIs
  <1> QED
    BY <1>8 DEF Share, Increase, d

\* What a step may change of price and yield, and when.
SlowChange ==
    /\ master.price' # master.price \/ master.w_yield' # master.w_yield
       => now - changed >= UpdateInterval
    /\ master.price < 10 => master.price' = master.price
    /\ master.w_yield < 20 => master.w_yield' <= master.w_yield

\* The account a call stamps has the price and the yield it was made with.
LEMMA MasterStepIsSlow ==
    ASSUME MasterInv, [MasterNext]_masterVars
    PROVE  SlowChange
  <1>0. /\ master \in MasterType /\ UpdateInterval \in Nat
        /\ master.price \in Nat /\ master.w_yield \in Nat
        /\ now \in Nat /\ changed \in Nat /\ master.last_updated \in Nat
        /\ changed <= master.last_updated /\ Bps \in Nat \ {0}
    BY MasterNumbers, MasterAssumption DEF MasterInv, MasterTypeOK
  <1>1. ASSUME master.price' = master.price, master.w_yield' = master.w_yield
        PROVE  SlowChange
    BY <1>0, <1>1 DEF SlowChange
  <1>2. ASSUME NEW p \in NewPrices, NEW k, UpdatePrice(p, k) PROVE SlowChange
    <2>1. /\ now - master.last_updated >= UpdateInterval
          /\ p > master.price /\ p <= Share(master.price, Increase(10))
          /\ p \in Nat
      BY <1>2, MasterAssumption
      DEF UpdatePrice, IntervalOver, AtMostIncreased, Words
    <2>2. master.w_yield' = master.w_yield
      BY <1>0, <1>2 DEF UpdatePrice, Touched, MasterType
    <2>3. ~(master.price < 10)
      <3> SUFFICES ASSUME master.price < 10 PROVE FALSE
        OBVIOUS
      <3>1. Share(master.price, Increase(10)) = master.price
        BY <1>0, SmallShareIsWhole
      <3> QED
        BY <1>0, <2>1, <3>1
    <2>4. now - changed >= UpdateInterval
      BY <1>0, <2>1
    <2> QED
      BY <1>0, <2>2, <2>3, <2>4 DEF SlowChange
  <1>3. ASSUME NEW y \in NewYields, NEW k, UpdateYield(y, k) PROVE SlowChange
    <2>1. /\ now - master.last_updated >= UpdateInterval
          /\ y <= Share(master.w_yield, Increase(5))
          /\ y \in Nat
      BY <1>3, MasterAssumption
      DEF UpdateYield, IntervalOver, AtMostIncreased, Words
    <2>2. master.price' = master.price /\ master.w_yield' = y
      BY <1>0, <1>3 DEF UpdateYield, Touched, MasterType
    <2>3. ASSUME master.w_yield < 20 PROVE y <= master.w_yield
      <3>1. 5 * 20 = 100
        OBVIOUS
      <3>2. Share(master.w_yield, Increase(5)) = master.w_yield
        BY <1>0, <2>3, <3>1, SmallShareIsWhole
      <3> QED
        BY <1>0, <2>1, <3>2
    <2>4. now - changed >= UpdateInterval
      BY <1>0, <2>1
    <2> QED
      BY <1>0, <2>2, <2>3, <2>4 DEF SlowChange
  <1>4. CASE MasterNext
    <2> USE <1>0 DEF Touched, MasterType
    <2>1. ASSUME NEW k, NEW t \in NewTaxes, UpdateTaxConfig(t, k) PROVE SlowChange
      BY <1>1, <2>1 DEF UpdateTaxConfig
    <2>2. ASSUME NEW k, NEW s \in TradingStatus, SetTradingStatus(s, k) PROVE SlowChange
      BY <1>1, <2>2 DEF SetTradingStatus
    <2>3. ASSUME NEW s \in NewSupplies, UpdateMaxSupply(s) PROVE SlowChange
      BY <1>1, <2>3 DEF UpdateMaxSupply
    <2>4. CASE AddAgentToMaster
      BY <1>1, <2>4 DEF AddAgentToMaster
    <2>5. CASE RemoveAgentFromMaster
      BY <1>1, <2>5 DEF RemoveAgentFromMaster
    <2>6. CASE IncrementTradeCount
      BY <1>1, <2>6 DEF IncrementTradeCount
    <2>7. ASSUME NEW b \in BOOLEAN, SetAutoRelist(b) PROVE SlowChange
      BY <1>1, <2>7 DEF SetAutoRelist
    <2>8. CASE ToggleTradingStatus
      <3>1. PICK s \in TradingStatus : SetTradingStatus(s, MasterAuthority)
        BY <2>8 DEF ToggleTradingStatus
      <3> QED
        BY <2>2, <3>1
    <2>9. CASE ResetMaster
      BY <1>1, <2>9 DEF ResetMaster
    <2>10. CASE MasterTick
      BY <1>1, <2>10 DEF MasterTick
    <2> HIDE DEF Touched, MasterType
    <2> QED
      BY <1>2, <1>3, <1>4, <2>1, <2>2, <2>3, <2>4, <2>5, <2>6, <2>7, <2>8, <2>9, <2>10
      DEF MasterNext, UpdatePriceSecurely
  <1>5. CASE UNCHANGED masterVars
    <2>1. master' = master
      BY <1>5 DEF masterVars
    <2> QED
      BY <1>1, <2>1
  <1> QED
    BY <1>4, <1>5

\* Price and yield change an interval apart, whatever is called in between,
\* and low ones never rise: the limits are rounded down to nothing.
THEOREM MasterChangesAreSlow == MasterSpec => ChangesAreSpaced /\ LowValuesAreFrozen
  <1>1. MasterSpec => []MasterInv
    BY MasterStarts, MasterStep, PTL DEF MasterSpec
  <1>2. ASSUME MasterInv, [MasterNext]_masterVars
        PROVE  /\ [<<master.price, master.w_yield>>' # <<master.price, master.w_yield>>
                    => now - changed >= UpdateInterval]_masterVars
               /\ [/\ master.price < 10 => master.price' = master.price
                   /\ master.w_yield < 20 => master.w_yield' <= master.w_yield]_masterVars
    BY <1>2, MasterStepIsSlow DEF SlowChange
  <1> QED
    BY <1>1, <1>2, PTL DEF MasterSpec, ChangesAreSpaced, LowValuesAreFrozen
=============================================================================
