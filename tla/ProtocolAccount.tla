-------------------------- MODULE ProtocolAccount --------------------------
(***************************************************************************)
(* The protocol's account (state/t_yield.rs) through its methods: balance  *)
(* and fees, the circuit breaker, the emergency pause, and the validation  *)
(* of all of them.  Governance models the instructions of the admins; the  *)
(* methods here are public and called by none of them, except for the      *)
(* config update and the pause, which share the limiter's clock and the    *)
(* flag with them.                                                         *)
(***************************************************************************)
EXTENDS Runtime

CONSTANTS
    Cooldown,           \* circuit_breaker.cooldown_period_sec
    MinInterval,        \* rate_limiter.min_interval_sec
    MaxUpdates,         \* rate_limiter.max_updates_per_day
    LastResetDay,       \* rate_limiter.last_reset_day, which nothing writes
    MaxBalance,         \* parameter_bounds.max_protocol_balance
    MaxTax,             \* parameter_bounds.max_tax_percentage
    MaxU32,             \* 2^32 - 1 in the code
    FirstProtocols,     \* what init stores of its other parameters
    Keep,               \* None: the tax stays
    Balances, Fees, Taxes   \* the parameters that are tried

\* init copies its parameters without looking at them: a time may lie ahead,
\* a tax beyond its bound, a counter at its end.
FirstType ==
    [paused : BOOLEAN, is_triggered : BOOLEAN, trigger_time : SignedWords,
     last_update_time : SignedWords, updates : 0 .. MaxU32,
     buy_tax : Words, sell_tax : Words]

\* The clock is an i64.
ASSUME ProtocolAssumption ==
    /\ MaxU32 \in Nat
    /\ {Cooldown, MinInterval, MaxUpdates} \subseteq 0 .. MaxU32
    /\ LastResetDay \in SignedWords
    /\ MaxTime <= MaxU64 \div 2
    /\ {MaxBalance, MaxTax} \subseteq Words
    /\ FirstProtocols \subseteq FirstType
    /\ Balances \cup Fees \cup Taxes \subseteq Words
    /\ Keep \notin Taxes

VARIABLES
    protocol,       \* the account
    \* history, read by the properties only:
    tripped,        \* time of the last trigger or emergency pause, 0 once
                    \* the breaker was reset
    peak,           \* the highest balance so far
    defects         \* what init stored and no method would have, until a
                    \* method overwrites it

protocolVars == <<now, calls, protocol, tripped, peak, defects>>

ProtocolType ==
    [paused : BOOLEAN, balance : Words, fees : Words, is_triggered : BOOLEAN,
     trigger_time : SignedWords, last_update_time : SignedWords,
     updates : 0 .. MaxU32, buy_tax : Words, sell_tax : Words]

-----------------------------------------------------------------------------
(* Checks *)

\* A safe_sub of times may fail.
Elapsed(time, least) == FitsSigned(now - time) /\ now - time >= least

\* check_circuit_breaker: the trigger stays, and stops nothing any more once
\* the cooldown is over.
BreakerClosed ==
    protocol.is_triggered => Elapsed(protocol.trigger_time, Cooldown)

\* check_rate_limit
WithinLimit ==
    /\ Elapsed(protocol.last_update_time, MinInterval)
    /\ \/ now - (now % Day) > LastResetDay
       \/ protocol.updates < MaxUpdates

ValidTax(t) == t <= MaxTax /\ t <= 10000
ValidTaxes(buy, sell) == ValidTax(buy) /\ ValidTax(sell)
ValidBalance(b) == b <= MaxBalance

\* validate_security_state
SecureState ==
    /\ ~protocol.paused
    /\ BreakerClosed
    /\ ValidTaxes(protocol.buy_tax, protocol.sell_tax)
    /\ ValidBalance(protocol.balance)
    /\ WithinLimit

-----------------------------------------------------------------------------
(* What init leaves *)

PastTime(time) == time \in 0 .. now

\* Taxes that update_protocol_config refuses, a breaker triggered at a time
\* that has not come, a last update likewise.
FirstDefects ==
    {d \in {"taxes", "breaker", "clock"} :
        \/ d = "taxes" /\ ~ValidTaxes(protocol.buy_tax, protocol.sell_tax)
        \/ d = "breaker" /\ protocol.is_triggered /\ ~PastTime(protocol.trigger_time)
        \/ d = "clock" /\ ~PastTime(protocol.last_update_time)}

ProtocolInit ==
    /\ RuntimeInit
    /\ \E p \in FirstProtocols :
          protocol = [paused |-> p.paused, balance |-> 0, fees |-> 0,
                      is_triggered |-> p.is_triggered,
                      trigger_time |-> p.trigger_time,
                      last_update_time |-> p.last_update_time,
                      updates |-> p.updates, buy_tax |-> p.buy_tax,
                      sell_tax |-> p.sell_tax]
    /\ tripped = IF protocol.is_triggered /\ PastTime(protocol.trigger_time)
                 THEN protocol.trigger_time ELSE 0
    /\ peak = 0
    /\ defects = FirstDefects

-----------------------------------------------------------------------------
(* Methods *)

UpdateBalance(b) ==
    /\ Call
    /\ ValidBalance(b)
    /\ protocol' = [protocol EXCEPT !.balance = b, !.last_update_time = now]
    /\ peak' = IF b > peak THEN b ELSE peak
    /\ defects' = defects \ {"clock"}
    /\ UNCHANGED tripped

\* The fees are compared with the balance of this moment; the balance may
\* fall below them afterwards.
UpdateFees(f) ==
    /\ Call
    /\ f <= protocol.balance
    /\ protocol' = [protocol EXCEPT !.fees = f, !.last_update_time = now]
    /\ defects' = defects \ {"clock"}
    /\ UNCHANGED <<tripped, peak>>

TriggerBreaker ==
    /\ Call
    /\ protocol' = [protocol EXCEPT !.is_triggered = TRUE, !.trigger_time = now]
    /\ tripped' = now
    /\ defects' = defects \ {"breaker"}
    /\ UNCHANGED peak

ResetBreaker ==
    /\ Call
    /\ protocol' = [protocol EXCEPT !.is_triggered = FALSE, !.trigger_time = 0]
    /\ tripped' = 0
    /\ defects' = defects \ {"breaker"}
    /\ UNCHANGED peak

\* Mutated form: the time of an earlier trigger is kept.
EmergencyPauseUntimed ==
    /\ Call
    /\ protocol' = [protocol EXCEPT !.paused = TRUE, !.is_triggered = TRUE]
    /\ tripped' = now
    /\ defects' = defects \ {"breaker"}
    /\ UNCHANGED peak

EmergencyPause ==
    /\ Call
    /\ protocol' = [protocol EXCEPT !.paused = TRUE, !.is_triggered = TRUE,
                        !.trigger_time = now]
    /\ tripped' = now
    /\ defects' = defects \ {"breaker"}
    /\ UNCHANGED peak

\* pause_protocol and unpause_protocol refuse what already is.
SetPaused(b) ==
    /\ Call
    /\ protocol.paused # b
    /\ protocol' = [protocol EXCEPT !.paused = b]
    /\ UNCHANGED <<tripped, peak, defects>>

\* A tax that is given, or else the one there is.
Chosen(tax, old) == IF tax = Keep THEN old ELSE tax

\* update_protocol_config: whichever tax is given, both are validated; when
\* none is, neither is.  Its other parameters touch nothing of this module.
UpdateConfig(buy, sell) ==
    LET b == Chosen(buy, protocol.buy_tax)
        s == Chosen(sell, protocol.sell_tax)
        given == buy # Keep \/ sell # Keep
    IN  /\ Call
        /\ BreakerClosed
        /\ WithinLimit
        /\ given => ValidTaxes(b, s)
        /\ protocol.updates + 1 <= MaxU32
        /\ protocol' = [protocol EXCEPT !.buy_tax = b, !.sell_tax = s,
                            !.last_update_time = now, !.updates = @ + 1]
        /\ defects' = defects \ (IF given THEN {"taxes", "clock"} ELSE {"clock"})
        /\ UNCHANGED <<tripped, peak>>

ProtocolTick ==
    \E d \in Ticks : Tick(d) /\ UNCHANGED <<protocol, tripped, peak, defects>>

ProtocolNext ==
    \/ \E b \in Balances : UpdateBalance(b)
    \/ \E f \in Fees : UpdateFees(f)
    \/ TriggerBreaker
    \/ ResetBreaker
    \/ EmergencyPause
    \/ \E b \in BOOLEAN : SetPaused(b)
    \/ \E buy, sell \in Taxes \cup {Keep} : UpdateConfig(buy, sell)
    \/ ProtocolTick

ProtocolSpec == ProtocolInit /\ [][ProtocolNext]_protocolVars

-----------------------------------------------------------------------------
(* Properties *)

\* Types of the account.
ProtocolTypeOK ==
    /\ now \in Nat
    /\ protocol \in ProtocolType
    /\ tripped \in Nat
    /\ peak \in Words
    /\ defects \subseteq {"taxes", "breaker", "clock"}

\* Within the cooldown of the last trigger or emergency pause the protocol
\* is not secure and its breaker, which every config update asks, is open,
\* even when it was unpaused, as long as nobody has reset the breaker.
TrippedStaysOpen ==
    tripped # 0 /\ now - tripped < Cooldown => ~SecureState /\ ~BreakerClosed

\* The fees, compared with the balance only when they are set, stay below
\* the highest balance there was, and the balance below its bound.
FeesWithinPeak == protocol.fees <= peak /\ peak <= MaxBalance

\* Whatever was called, the protocol is secure again once it is unpaused and
\* the cooldown and the interval are over, on a later day: no order of calls
\* leaves taxes, times or a balance that fail the validation for good, and
\* what init stored, which validates nothing, is cured by the first method
\* that overwrites it.
RecoversWithTime ==
    /\ defects = {}
    /\ ~protocol.paused
    /\ now - tripped >= Cooldown
    /\ now - protocol.last_update_time >= MinInterval
    /\ now - (now % Day) > LastResetDay
    => SecureState

\* Nothing else cures the taxes: what init stored beyond their bounds keeps an
\* unpaused protocol insecure through any wait, any trigger and reset of the
\* breaker and any update of the config that gives no tax.
BadTaxesStay == "taxes" \in defects => ~SecureState

\* Pauses, triggers, resets and updates in any order: the breaker opens for
\* its cooldown, and nothing else keeps the protocol from being secure, but
\* for what init stored unchecked.
ProtocolConsistent ==
    /\ ProtocolTypeOK
    /\ TrippedStaysOpen
    /\ FeesWithinPeak
    /\ RecoversWithTime
    /\ BadTaxesStay
=============================================================================
