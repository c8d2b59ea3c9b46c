---------------------------- MODULE AgentMarket ----------------------------
(***************************************************************************)
(* The users, the agents and their sale, over the multisig-guarded         *)
(* instructions of Governance: who registers and with what referrer        *)
(* (register_user), which agents a master agent has (mint_agent), who buys *)
(* them (buy_agent).                                                       *)
(*                                                                         *)
(* An agent is sold once.  sell_agent, withdraw_yield and                  *)
(* claim_referral_rewards move tokens out of an account whose authority is *)
(* a PDA, without its signer seeds (TYield::transfer_tokens), so that the  *)
(* token program refuses them and they change nothing: they have no action *)
(* here.  Neither have add_unclaimed_yield and                             *)
(* add_unclaimed_referral_earnings, which no instruction calls.            *)
(***************************************************************************)
EXTENDS Governance

CONSTANTS
    Price,              \* master agent's mint -> price
    WhiteLists,         \* master agents minted in whitelist mode
    BuyTax,             \* tax_config.buy_tax_percentage, basis points
    TradesPerAgent,     \* 1000 in the code
    PriceShare,         \* 10 in the code: a tenth of the price
    Protocol,           \* the transfer authority
    NoOne               \* the default key

ASSUME PriceAssumption == Price \in [Mints -> Nat \ {0}]
ASSUME FiniteAssumption == IsFiniteSet(Users) /\ IsFiniteSet(Mints)
ASSUME MarketAssumption ==
    /\ WhiteLists \subseteq Mints
    /\ BuyTax \in Nat
    /\ TradesPerAgent \in Nat
    /\ PriceShare \in Nat \ {0}
    /\ Protocol # NoOne
    /\ {Protocol, NoOne} \cap (Users \cup Mints) = {}

VARIABLES
    registered,     \* users whose account exists
    referrer,       \* user -> user.referrer
    referred,       \* user -> total_referred_users of its registry
    linked,         \* the referral links: <<referrer, referred user>>
    owned,          \* user -> total_agents_owned
    master,         \* mint -> agent.master_agent, NoOne if it is no agent's
    owner,          \* mint -> agent.owner
    listed,         \* mints of the agents with is_listed
    trade_count,    \* mint -> trade_count of its master agent
    created_at,     \* mint -> created_at of its master agent
    trades          \* the numbers whose trade account exists

people == <<registered, referrer, referred, linked>>
assets == <<master, owner, listed>>
tallies == <<trade_count, created_at, trades>>
market == <<people, owned, assets, tallies>>
marketVars == <<vars, market>>

MarketInit ==
    /\ Init
    /\ registered = {}
    /\ referrer = [u \in Users |-> NoOne]
    /\ referred = [u \in Users |-> 0]
    /\ linked = {}
    /\ owned = [u \in Users |-> 0]
    /\ master = [m \in Mints |-> NoOne]
    /\ owner = [m \in Mints |-> NoOne]
    /\ listed = {}
    /\ trade_count = [m \in Mints |-> 0]
    /\ created_at = [m \in Mints |-> 0]
    /\ trades = {}

-----------------------------------------------------------------------------
(* register_user.  Both accounts of the referral are optional, each for    *)
(* itself; the user's own account is created and must not exist.           *)

\* Mutated form: any key is a referrer.
ValidReferrerAny(r) == TRUE

ValidReferrer(r) == r # NoOne => r \in registered /\ "Active" \in status[r]

\* Mutated form: the user's account is init_if_needed, and starts anew.
RegisterUserAgain(u, r, registry, link) ==
    /\ r = NoOne => ~registry /\ ~link
    /\ ValidReferrer(r)
    /\ registered' = registered \cup {u}
    /\ status' = [status EXCEPT ![u] = {"Active"}]
    /\ referrer' = [referrer EXCEPT ![u] = r]
    /\ referred' = IF registry THEN [referred EXCEPT ![r] = @ + 1] ELSE referred
    /\ linked' = IF link THEN linked \cup {<<r, u>>} ELSE linked
    /\ UNCHANGED <<now, multisig, t_yield, created, agents, ballot, updates,
                   owned, assets, tallies>>

RegisterUser(u, r, registry, link) ==
    /\ u \notin registered
    /\ r = NoOne => ~registry /\ ~link
    /\ ValidReferrer(r)
    /\ registered' = registered \cup {u}
    /\ referrer' = [referrer EXCEPT ![u] = r]
    /\ referred' = IF registry THEN [referred EXCEPT ![r] = @ + 1] ELSE referred
    /\ linked' = IF link THEN linked \cup {<<r, u>>} ELSE linked
    /\ UNCHANGED <<vars, owned, assets, tallies>>

-----------------------------------------------------------------------------
(* The instructions under signature                                        *)

\* The signature of instruction i was the last one it needed.
Executed(i) == doneAt'[i] # doneAt[i]

\* The accounts of the users must exist.
Moderate(s, u) ==
    /\ u \in registered
    /\ BanUser(s, u) \/ \E f \in Flags : UpdateStatus(s, u, f)
    /\ UNCHANGED market

\* MasterAgent::initialize
IssueMaster(s, m, k) ==
    /\ MintMasterAgent(s, m, k)
    /\ IF Executed(MintMaster(m, k))
       THEN /\ trade_count' = [trade_count EXCEPT ![m] = 0]
            /\ created_at' = [created_at EXCEPT ![m] = now]
       ELSE UNCHANGED <<trade_count, created_at>>
    /\ UNCHANGED <<people, owned, assets, trades>>

\* Agent::initialize: it belongs to the protocol and is listed.
IssueAgent(s, m, ma) ==
    /\ MintAgent(s, m, ma)
    /\ IF Executed(Mint(m, ma))
       THEN /\ master' = [master EXCEPT ![m] = ma]
            /\ owner' = [owner EXCEPT ![m] = Protocol]
            /\ listed' = listed \cup {m}
       ELSE UNCHANGED assets
    /\ UNCHANGED <<people, owned, tallies>>

\* The trade's account is created when the accounts are loaded; its address
\* is the trade count of the master agent, whichever that is, plus one.
NumberTrade(s, ma) ==
    LET k == trade_count[ma] + 1
    IN  /\ k \in TradeNumbers \ trades
        /\ trades' = trades \cup {k}
        /\ OpenTrade(s, ma, k)
        /\ IF Executed(Trade(ma, k))
           THEN trade_count' = [trade_count EXCEPT ![ma] = k]
           ELSE UNCHANGED trade_count
        /\ UNCHANGED <<people, owned, assets, created_at>>

-----------------------------------------------------------------------------
(* buy_agent *)

\* validate_security of the master agent after the sale: its age in days and
\* its trades for every agent left.  What it checks of the price, the taxes
\* and the supply holds since mint_master_agent.
ValidateSecurity(ma) ==
    LET days == (now - created_at[ma]) \div Day
    IN  /\ days > 0 => Price[ma] \div days <= Price[ma] \div PriceShare
        /\ agent_count'[ma] > 0 =>
               trade_count'[ma] \div agent_count'[ma] <= TradesPerAgent

\* Mutated form: banned users act as well.
CanPerformActionsAlways(u) == TRUE

\* can_perform_actions
CanPerformActions(u) == "Active" \in status[u] /\ "Banned" \notin status[u]

\* Mutated form: the mode of the master agent is not looked at.
AdmittedAlways(u, ma) == TRUE

\* is_whitelist_mode, is_whitelisted
Admitted(u, ma) == ma \in WhiteLists => "WithListed" \in status[u]

\* Mutated form: an agent that is not listed is no error.
UnlistIfListed(m) == listed' = listed \ {m}

\* unlist
Unlist(m) == m \in listed /\ listed' = listed \ {m}

\* The agent's account names its master agent, whose account is the one that
\* loses it.  The fee that is noted in the history must not be 0.  t_yield is
\* not mutable: the totals that the handler adds to are not kept.
BuyAgent(u, m) ==
    LET ma == master[m]
    IN  /\ u \in registered
        /\ CanPerformActions(u)
        /\ ma \in Mints
        /\ Admitted(u, ma)
        /\ Unlist(m)
        /\ (Price[ma] * BuyTax) \div 10000 > 0
        /\ ValidUser(u)
        /\ RemoveAgent(ma)
        /\ owned' = [owned EXCEPT ![u] = @ + 1]
        /\ owner' = [owner EXCEPT ![m] = u]
        /\ trade_count' = [trade_count EXCEPT ![ma] = @ + 1]
        /\ ValidateSecurity(ma)
        /\ UNCHANGED <<people, master, created_at, trades>>

-----------------------------------------------------------------------------

MarketNext ==
    \/ Tick /\ UNCHANGED market
    \/ \E u \in Users, r \in Users \cup {NoOne}, registry, link \in BOOLEAN :
           RegisterUser(u, r, registry, link)
    \/ \E u \in Users, m \in Mints : BuyAgent(u, m)
    \/ \E s \in Members :
        \/ (PauseProtocol(s) \/ UnpauseProtocol(s)) /\ UNCHANGED market
        \/ \E c \in Configs : UpdateProtocolConfig(s, c) /\ UNCHANGED market
        \/ \E u \in Users : Moderate(s, u)
        \/ \E m \in Mints, k \in Supplies : IssueMaster(s, m, k)
        \/ \E m \in Mints, ma \in Mints : IssueAgent(s, m, ma)
        \/ \E ma \in Mints : NumberTrade(s, ma)

MarketSpec == MarketInit /\ [][MarketNext]_marketVars

-----------------------------------------------------------------------------
(* Properties *)

\* The types of the accounts.
MarketTypeOK ==
    /\ registered \in SUBSET Users
    /\ referrer \in [Users -> Users \cup {NoOne}]
    /\ referred \in [Users -> Nat]
    /\ linked \in SUBSET (Users \X Users)
    /\ owned \in [Users -> Nat]
    /\ master \in [Mints -> Mints \cup {NoOne}]
    /\ owner \in [Mints -> Users \cup {Protocol, NoOne}]
    /\ listed \in SUBSET Mints
    /\ trade_count \in [Mints -> Nat]
    /\ created_at \in [Mints -> Nat]
    /\ trades \in SUBSET TradeNumbers

\* Sales and mints keep three accounts in step: what a user's account counts
\* is what the agents' accounts name as owner, what a master agent's account
\* counts are its agents not yet sold, and these are the listed ones.
HoldingsMatch ==
    /\ \A u \in Users : owned[u] = Cardinality({m \in Mints : owner[m] = u})
    /\ \A ma \in Mints :
           agent_count[ma] =
               Cardinality({m \in listed : master[m] = ma})
    /\ listed = {m \in Mints : owner[m] = Protocol}

\* An agent that was bought stays its buyer's: no later mint, sale or ban
\* takes it away or sells it again.
SoldOnce ==
    [][\A m \in Mints : owner[m] \in Users =>
           owner'[m] = owner[m] /\ master'[m] = master[m]]_marketVars

\* Whoever has an agent of a master agent in whitelist mode is whitelisted:
\* no later change of status takes that away.
WhitelistHolds ==
    \A m \in Mints :
        master[m] \in WhiteLists /\ owner[m] \in Users
            => "WithListed" \in status[owner[m]]

\* From the ban on, a user's agents stay as they are.
BannedHoldNoMore ==
    [][\A u \in Users : "Banned" \in status[u] => owned'[u] = owned[u]]_marketVars

\* Referrals lead back to a user whom nobody referred, never round in a
\* circle.
ReferralsGrounded ==
    \A S \in SUBSET registered :
        S # {} => \E u \in S : referrer[u] \notin S

\* A registry counts no user that is not its referrer's, and a link joins a
\* user to the referrer of its account.
ReferralsCounted ==
    /\ \A r \in Users :
           referred[r] <= Cardinality({u \in registered : referrer[u] = r})
    /\ \A l \in linked : l[2] \in registered /\ referrer[l[2]] = l[1]

\* The sale of agents is one user of Governance: whatever it does to the
\* master agents' accounts is an instruction of Governance or remove_agent.
MarketImplementsGovernance == Spec

\* mint_master_agent.rs:51 "Maximum supply of agents under this master
\* agent": the agents minted under it, sold or not, are no more than that.
MintedWithinSupply ==
    \A ma \in Mints :
        max_supply[ma] > 0 =>
            Cardinality({m \in Mints : master[m] = ma}) <= max_supply[ma]
=============================================================================
