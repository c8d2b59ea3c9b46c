----------------------------- MODULE Governance -----------------------------
(***************************************************************************)
(* The multisig-guarded instructions over the multisig account, the        *)
(* protocol account (state/t_yield.rs), the status of the registered users *)
(* (state/user.rs) and the master agents that the protocol issues.         *)
(*                                                                         *)
(* Every handler has the same shape: some guards, one signature, and when  *)
(* no signature is left the effect, whose errors roll the signature back   *)
(* too.  What differs, and decides what can ever be executed, is what each *)
(* handler hashes, which nonce it makes of the clock, and which accounts   *)
(* it creates before it signs.                                             *)
(***************************************************************************)
EXTENDS Integers, FiniteSets, Sequences

CONSTANTS
    Members, MinSignatures, NoInstr, RateWindow, RateLimit,
    SignatureTimeout, Epoch, MaxTime,   \* as in Multisig
    KeyByte,            \* member -> first byte of its public key
    Configs,            \* UpdateProtocolConfigParams
    Keep,               \* None in those parameters
    Users,              \* registered users
    Nameless,           \* those registered with an all-zero name
    Mints,              \* keys of mints to be created
    Supplies,           \* the values of max_supply proposed
    TradeNumbers,       \* the numbers of the trades opened
    InitialConfig,      \* the protocol account as init leaves it
    RateLimiter,        \* the constant part of t_yield.rate_limiter
    CircuitBreaker,     \* t_yield.circuit_breaker
    MaxTaxBound,        \* parameter_bounds.max_tax_percentage
    Day                 \* 86400 seconds in the code

\* As in Multisig.
ASSUME QuorumAssumption ==
    /\ IsFiniteSet(Members)
    /\ MinSignatures \in 1 .. Cardinality(Members)
ASSUME LimitAssumption ==
    /\ RateWindow \in Nat \ {0}
    /\ RateLimit \in Nat \ {0}
    /\ SignatureTimeout \in Nat \ {0}
ASSUME ClockAssumption ==
    /\ Epoch \in Nat
    /\ Epoch >= RateWindow
    /\ MaxTime \in Nat
    /\ MaxTime >= Epoch

\* The fields of the protocol account that are read or written here.
Permissions == {"deploy", "buy", "sell", "withdraw"}

TYield ==
    [paused : BOOLEAN, buy_tax : Nat, sell_tax : Nat, max_tax_percentage : Nat,
     permissions : SUBSET Permissions,
     last_update_time : Int, daily_update_count : Nat]

ASSUME ConfigAssumption ==
    /\ InitialConfig \in TYield
    /\ \A c \in Configs :
           /\ {c.buy_tax, c.sell_tax, c.max_tax_percentage} \subseteq Nat \cup {Keep}
           /\ {c.allow, c.forbid} \subseteq SUBSET Permissions

ASSUME RateLimiterAssumption ==
    /\ {RateLimiter.min_interval_sec, RateLimiter.max_updates_per_day} \subseteq Nat
    /\ RateLimiter.last_reset_day \in Int

ASSUME KeyByteAssumption == KeyByte \in [Members -> 0 .. 255]
ASSUME NamelessAssumption == Nameless \subseteq Users
ASSUME SupplyAssumption == Supplies \subseteq Nat
ASSUME DayAssumption == Day \in Nat \ {0}
\* Milliseconds of the first second lie beyond every clock that is checked.
ASSUME HorizonAssumption == MaxTime + 255 < 1000 * Epoch

VARIABLES
    now, signed, num_signed, instr, nonce, last_signature_time,
    signature_timeout, signature_count, stamps, turn, doneAt, \* of Multisig
    t_yield,        \* the protocol account
    status,         \* user -> set of status flags
    created,        \* mints whose account exists
    max_supply,     \* mint -> max_supply of its master agent, 0 if none
    agent_count,    \* mint -> agent_count of its master agent
    \* history, read by the properties only:
    ballot,         \* member -> the instruction it last signed
    updates         \* times of the executed config updates, in order

multisig == <<signed, num_signed, instr, nonce, last_signature_time,
              signature_timeout, signature_count, stamps, turn, doneAt>>
agents == <<max_supply, agent_count>>
vars == <<now, multisig, t_yield, status, created, agents, ballot, updates>>

-----------------------------------------------------------------------------
(* What is hashed: get_account_infos(ctx)[1..] with the parameters and the *)
(* type of the instruction.  The first account is the signer.              *)

Pause == [kind |-> "pause"]
Config(c) == [kind |-> "config", params |-> c]
Ban(u) == [kind |-> "ban", user |-> u]
MintMaster(m, k) == [kind |-> "mint_master", mint |-> m, max_supply |-> k]
Mint(m, ma) == [kind |-> "mint", mint |-> m, master |-> ma]
Trade(ma, k) == [kind |-> "trade", master |-> ma, number |-> k]

\* Mutated form: the signer's account is left out, as the others do.
UnpauseOfAnyone(s) == [kind |-> "unpause"]

\* These two handlers hash all their accounts, the signer's included.
Unpause(s) == [kind |-> "unpause", admin |-> s]
Status(s, u, f) == [kind |-> "status", admin |-> s, user |-> u, flag |-> f]

Flags == {"Active", "Banned", "WithListed"}

Instrs ==
    {Pause}
        \cup {Unpause(s) : s \in Members}
        \cup {Config(c) : c \in Configs}
        \cup {Ban(u) : u \in Users}
        \cup {Status(s, u, f) : s \in Members, u \in Users, f \in Flags}
        \cup {MintMaster(m, k) : m \in Mints, k \in Supplies}
        \cup {Mint(m, ma) : m \in Mints, ma \in Mints}
        \cup {Trade(ma, k) : ma \in Mints, k \in TradeNumbers}

\* The nonces the handlers make of the clock.
PauseNonce(s) == now + KeyByte[s]
MilliNonce(t) == t * 1000 + (t % 1000)
UnpauseNonce == MilliNonce(now)

Nonces ==
    UNION {{t} \cup {t + KeyByte[s] : s \in Members} \cup {MilliNonce(t)}
              : t \in Epoch .. MaxTime}

\* A hash of zeros is no instruction's.
ASSUME InstrAssumption == NoInstr \notin Instrs

MS == INSTANCE Multisig

\* sign_multisig of the signer's account, with the history of who signed what.
Sign(s, i, n, left) ==
    /\ MS!SignMultisig(s, i, n, left)
    /\ ballot' = [ballot EXCEPT ![s] = i]

-----------------------------------------------------------------------------
(* init *)

Init ==
    /\ MS!Init
    /\ \E p \in BOOLEAN : t_yield = [InitialConfig EXCEPT !.paused = p]
    /\ status = [u \in Users |-> {"Active"}]
    /\ created = {}
    /\ max_supply = [m \in Mints |-> 0]
    /\ agent_count = [m \in Mints |-> 0]
    /\ ballot = [s \in Members |-> NoInstr]
    /\ updates = <<>>

-----------------------------------------------------------------------------
(* Guards of the protocol account *)

\* check_circuit_breaker
CircuitClosed ==
    CircuitBreaker.is_triggered =>
        now - CircuitBreaker.trigger_time >= CircuitBreaker.cooldown_period_sec

\* Mutated form: the interval between updates is not looked at.
WithinRateLimitUnspaced ==
    \/ now - (now % Day) > RateLimiter.last_reset_day
    \/ t_yield.daily_update_count < RateLimiter.max_updates_per_day

\* check_rate_limit: from the day after last_reset_day the counter is not
\* looked at any more.
WithinRateLimit ==
    /\ now - t_yield.last_update_time >= RateLimiter.min_interval_sec
    /\ \/ now - (now % Day) > RateLimiter.last_reset_day
       \/ t_yield.daily_update_count < RateLimiter.max_updates_per_day

\* validate_tax_parameters
ValidTaxes(buy, sell) == {buy, sell} \subseteq 0 .. MaxTaxBound
                         /\ {buy, sell} \subseteq 0 .. 10000

-----------------------------------------------------------------------------
(* pause_protocol and unpause_protocol *)

\* Mutated form: one signature is enough.
PauseProtocolAtOnce(s) ==
    /\ ~t_yield.paused
    /\ \E left \in 0 .. MinSignatures : Sign(s, Pause, PauseNonce(s), left)
    /\ t_yield' = [t_yield EXCEPT !.paused = TRUE]
    /\ UNCHANGED <<status, created, agents, updates>>

PauseProtocol(s) ==
    /\ ~t_yield.paused
    /\ \E left \in 0 .. MinSignatures :
           /\ Sign(s, Pause, PauseNonce(s), left)
           /\ t_yield' = [t_yield EXCEPT !.paused = left = 0]
    /\ UNCHANGED <<status, created, agents, updates>>

\* Mutated form: the handler takes the signature back.
UnpauseProtocolUnsigns(s) ==
    /\ t_yield.paused
    /\ MS!UnsignMultisig(s)
    /\ UNCHANGED <<t_yield, status, created, agents, ballot, updates>>

UnpauseProtocol(s) ==
    /\ t_yield.paused
    /\ \E left \in 0 .. MinSignatures :
           /\ Sign(s, Unpause(s), UnpauseNonce, left)
           /\ t_yield' = [t_yield EXCEPT !.paused = left # 0]
    /\ UNCHANGED <<status, created, agents, updates>>

-----------------------------------------------------------------------------
(* update_protocol_config *)

Chosen(new, old) == IF new = Keep THEN old ELSE new

\* The effect, once the quorum is complete: all checks, then the fields.
ApplyConfig(c) ==
    LET buy == Chosen(c.buy_tax, t_yield.buy_tax)
        sell == Chosen(c.sell_tax, t_yield.sell_tax)
    IN  /\ CircuitClosed
        /\ WithinRateLimit
        /\ {c.buy_tax, c.sell_tax} # {Keep} => ValidTaxes(buy, sell)
        /\ c.max_tax_percentage # Keep => c.max_tax_percentage <= 10000
        /\ t_yield' =
             [t_yield EXCEPT
                 !.buy_tax = buy,
                 !.sell_tax = sell,
                 !.max_tax_percentage = Chosen(c.max_tax_percentage, @),
                 !.permissions = (@ \cup c.allow) \ c.forbid,
                 !.last_update_time = now,
                 !.daily_update_count = @ + 1]
        /\ updates' = Append(updates, now)

UpdateProtocolConfig(s, c) ==
    /\ \E left \in 0 .. MinSignatures :
           /\ Sign(s, Config(c), now, left)
           /\ IF left > 0 THEN UNCHANGED <<t_yield, updates>> ELSE ApplyConfig(c)
    /\ UNCHANGED <<status, created, agents>>

-----------------------------------------------------------------------------
(* ban_user and update_status *)

\* Mutated form: a banned user may be activated.
AddUserStatusUnchecked(u, f) ==
    status' = [status EXCEPT ![u] =
                  (IF f = "Banned" THEN @ \ {"Active"} ELSE @) \cup {f}]

\* add_user_status
AddUserStatus(u, f) ==
    /\ f = "Active" => "Banned" \notin status[u]
    /\ status' = [status EXCEPT ![u] =
                     (IF f = "Banned" THEN @ \ {"Active"} ELSE @) \cup {f}]

\* Mutated form: anything is a valid user.
ValidUserAlways(u) == TRUE

\* validate_user: the rest of what it checks register_user sees to, but it
\* takes any name.
ValidUser(u) == u \notin Nameless

\* User::ban_user, then validate_user.
ApplyBan(u) ==
    /\ status' = [status EXCEPT ![u] = (@ \ {"Active"}) \cup {"Banned"}]
    /\ ValidUser(u)

BanUser(s, u) ==
    /\ \E left \in 0 .. MinSignatures :
           /\ Sign(s, Ban(u), now, left)
           /\ IF left > 0 THEN UNCHANGED status ELSE ApplyBan(u)
    /\ UNCHANGED <<t_yield, created, agents, updates>>

UpdateStatus(s, u, f) ==
    /\ \E left \in 0 .. MinSignatures :
           /\ Sign(s, Status(s, u, f), now, left)
           /\ IF left > 0 THEN UNCHANGED status ELSE AddUserStatus(u, f)
    /\ UNCHANGED <<t_yield, created, agents, updates>>

-----------------------------------------------------------------------------
(* mint_master_agent and mint_agent *)

\* Mutated form: the mint's account may exist already.
CreateIfNeeded(m) == created' = created \cup {m}

\* #[account(init)]: the mint is created when the accounts are loaded, with
\* every signature, and creation fails when it exists.
Create(m) ==
    /\ m \notin created
    /\ created' = created \cup {m}

\* initialize, then validate and validate_security; price and yield, which
\* these check in the same way, are left out.
ApplyMintMaster(m, k) ==
    /\ k <= 1000000
    /\ max_supply' = [max_supply EXCEPT ![m] = k]
    /\ agent_count' = [agent_count EXCEPT ![m] = 0]

MintMasterAgent(s, m, k) ==
    /\ Create(m)
    /\ ~t_yield.paused
    /\ CircuitClosed
    /\ WithinRateLimit
    /\ k > 0
    /\ \E left \in 0 .. MinSignatures :
           /\ Sign(s, MintMaster(m, k), now, left)
           /\ IF left > 0 THEN UNCHANGED agents ELSE ApplyMintMaster(m, k)
    /\ UNCHANGED <<t_yield, status, updates>>

\* allow_agent_deploy, is_supply_full, add_agent
ApplyMint(ma) ==
    /\ "deploy" \in t_yield.permissions
    /\ agent_count[ma] < max_supply[ma]
    /\ agent_count' = [agent_count EXCEPT ![ma] = @ + 1]
    /\ UNCHANGED max_supply

\* The master agent's account must be an initialized one (its bump).
MintAgent(s, m, ma) ==
    /\ Create(m)
    /\ max_supply[ma] > 0
    /\ \E left \in 0 .. MinSignatures :
           /\ Sign(s, Mint(m, ma), now, left)
           /\ IF left > 0 THEN UNCHANGED agents ELSE ApplyMint(ma)
    /\ UNCHANGED <<t_yield, status, updates>>

(* open_trade changes nothing else here: the trades are those of Trades.   *)
(* update_price and update_yield take no step at all.  They need a master  *)
(* agent, which exists only where one signature is a quorum, and then fail:*)
(* the authority they compare with the signer is a PDA.                    *)
OpenTrade(s, ma, k) ==
    /\ max_supply[ma] > 0
    /\ \E left \in 0 .. MinSignatures : Sign(s, Trade(ma, k), now, left)
    /\ UNCHANGED <<t_yield, status, created, agents, updates>>

\* remove_agent, in buy_agent: the buyer signs, no admin does.
RemoveAgent(ma) ==
    /\ agent_count[ma] > 0
    /\ agent_count' = [agent_count EXCEPT ![ma] = @ - 1]
    /\ UNCHANGED <<now, multisig, t_yield, status, created, max_supply,
                   ballot, updates>>

-----------------------------------------------------------------------------

Tick ==
    /\ MS!Tick
    /\ UNCHANGED <<t_yield, status, created, agents, ballot, updates>>

Next ==
    \/ Tick
    \/ \E s \in Members :
        \/ PauseProtocol(s)
        \/ UnpauseProtocol(s)
        \/ \E c \in Configs : UpdateProtocolConfig(s, c)
        \/ \E u \in Users : BanUser(s, u)
        \/ \E u \in Users, f \in Flags : UpdateStatus(s, u, f)
        \/ \E m \in Mints, k \in Supplies : MintMasterAgent(s, m, k)
        \/ \E m \in Mints, ma \in Mints : MintAgent(s, m, ma)
        \/ \E ma \in Mints, k \in TradeNumbers : OpenTrade(s, ma, k)
    \/ \E ma \in Mints : RemoveAgent(ma)

Spec == Init /\ [][Next]_vars

-----------------------------------------------------------------------------
(* Properties *)

\* The types of the accounts and of the history.
TypeOK ==
    /\ MS!TypeOK
    /\ t_yield \in TYield
    /\ status \in [Users -> SUBSET Flags]
    /\ created \in SUBSET Mints
    /\ max_supply \in [Mints -> Nat]
    /\ agent_count \in [Mints -> Nat]
    /\ ballot \in [Members -> Instrs \cup {NoInstr}]
    /\ updates \in Seq(Nat)

\* Whatever the handlers do, the multisig account only ever goes through the
\* steps of sign_multisig: all that holds of Multisig holds here.
GovernanceIsMultisig == MS!Spec

\* What the instructions are there to change.  A master agent also loses an
\* agent to a buyer, whom nobody has to approve.
GovernedChange ==
    \/ <<t_yield, status, max_supply>>' # <<t_yield, status, max_supply>>
    \/ \E ma \in Mints : agent_count'[ma] > agent_count[ma]

\* Signature m' of a member counts for instruction i: it is the last the
\* member gave, it came after the previous execution, and it is not too old.
Backs(m, i) ==
    /\ ballot'[m] = i
    /\ turn'[m] > doneAt[i]
    /\ now - stamps'[turn'[m]] <= SignatureTimeout

\* A change of the protocol account, of a user's status or of a master agent,
\* a new agent of it included, is backed by a quorum of distinct members, every one of which signed that
\* very instruction, recently, and not for an earlier execution.
ChangesNeedQuorum ==
    [][GovernedChange =>
           \E i \in Instrs :
               /\ doneAt'[i] # doneAt[i]
               /\ Cardinality({m \in Members : Backs(m, i)}) >= MinSignatures
      ]_vars

\* unpause_protocol hashes the account of the admin who signs, so that two
\* admins never sign the same instruction: a protocol whose quorum is two or
\* more stays paused for ever.
PauseIsFinal ==
    [][MinSignatures > 1 /\ t_yield.paused => t_yield'.paused]_vars

\* update_status hashes the admin too, and ban_user fails in validate_user
\* for a user registered with a name of zeros: under such a quorum this user
\* is never banned.
NamelessNeverBanned ==
    MinSignatures > 1 => \A u \in Nameless : "Banned" \notin status[u]

\* mint_master_agent creates the mint with the first signature, so that the
\* second one fails: under such a quorum no master agent ever comes to be,
\* and no agent either.
NothingMintedUnderQuorum ==
    MinSignatures > 1 =>
        \A m \in Mints : max_supply[m] = 0 /\ agent_count[m] = 0

\* The nonce of unpause_protocol is a thousand times the clock: once it is
\* stored, no other instruction gets past the nonce check any more.
OnlyUnpauseAfterUnpause ==
    [][nonce >= 1000 * Epoch /\ stamps' # stamps =>
           \E s \in Members : turn'[s] # turn[s] /\ ballot'[s] = Unpause(s)
      ]_vars

\* A banned user can do nothing again: no order of bans and status updates,
\* by however many admins, activates or unbans the user.
BanIsFinal ==
    [][\A u \in Users : "Banned" \in status[u] =>
           "Banned" \in status'[u] /\ "Active" \notin status'[u]]_vars

DayOf(t) == t - (t % Day)

\* check_rate_limit: executed updates keep their interval, and until the day
\* of last_reset_day is over there are at most as many as the limit says.
UpdatesLimited ==
    /\ \A k \in 1 .. Len(updates) - 1 :
           updates[k + 1] - updates[k] >= RateLimiter.min_interval_sec
    /\ \A k \in 1 .. Len(updates) :
           DayOf(updates[k]) <= RateLimiter.last_reset_day =>
               InitialConfig.daily_update_count + k
                   <= RateLimiter.max_updates_per_day
=============================================================================
