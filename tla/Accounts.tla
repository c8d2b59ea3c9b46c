------------------------------ MODULE Accounts ------------------------------
(***************************************************************************)
(* The accounts side by side.  They share nothing but the clock and no     *)
(* method calls two of them, so that one of them is picked and used while  *)
(* the others stay as they were created.                                   *)
(***************************************************************************)
EXTENDS UserProfile, UserLedger, Referrals, AgentAccount, ProtocolAccount,
        MasterAccount, TradeAccount, OracleAccount, FixedPoint, PriceMath

VARIABLE focus      \* the account that is used

ledgerState == <<agentsOfUser, yieldOfUser, fees_spent, referral_earnings>>
referralState == <<registry, link, credited>>
agentState == <<agent, handled>>
protocolState == <<protocol, tripped, peak, defects>>
masterState == <<master, changed, used>>
tradeState == <<trade, market, closings, forced>>
oracleState == <<oracle, updated, hurried>>

accountsVars ==
    <<now, calls, focus, profile, ledgerState, referralState, agentState,
      protocolState, masterState, tradeState, oracleState, triple, pair>>

AccountsInit ==
    /\ focus \in {"profile", "ledger", "referrals", "agent", "protocol",
                  "master", "trade", "oracle", "arithmetic", "prices"}
    /\ ProfileInit
    /\ LedgerInit
    /\ ReferralInit
    /\ AgentInit
    /\ ProtocolInit
    /\ MasterInit
    /\ TradeAccountInit
    /\ OracleInit
    /\ FixedPointInit
    /\ PriceMathInit

\* The arithmetic has no steps: its states are its inputs.
AccountsNext ==
    /\ UNCHANGED <<focus, triple, pair>>
    /\ \/ /\ focus = "profile" /\ ProfileNext
          /\ UNCHANGED <<ledgerState, referralState, agentState, protocolState,
                         masterState, tradeState, oracleState>>
       \/ /\ focus = "ledger" /\ LedgerNext
          /\ UNCHANGED <<profile, referralState, agentState, protocolState,
                         masterState, tradeState, oracleState>>
       \/ /\ focus = "referrals" /\ ReferralNext
          /\ UNCHANGED <<profile, ledgerState, agentState, protocolState,
                         masterState, tradeState, oracleState>>
       \/ /\ focus = "agent" /\ AgentNext
          /\ UNCHANGED <<profile, ledgerState, referralState, protocolState,
                         masterState, tradeState, oracleState>>
       \/ /\ focus = "protocol" /\ ProtocolNext
          /\ UNCHANGED <<profile, ledgerState, referralState, agentState,
                         masterState, tradeState, oracleState>>
       \/ /\ focus = "master" /\ MasterNext
          /\ UNCHANGED <<profile, ledgerState, referralState, agentState,
                         protocolState, tradeState, oracleState>>
       \/ /\ focus = "trade" /\ TradeAccountNext
          /\ UNCHANGED <<profile, ledgerState, referralState, agentState,
                         protocolState, masterState, oracleState>>
       \/ /\ focus = "oracle" /\ OracleNext
          /\ UNCHANGED <<profile, ledgerState, referralState, agentState,
                         protocolState, masterState, tradeState>>

AccountsSpec == AccountsInit /\ [][AccountsNext]_accountsVars

\* Prices and yields, of master agents and of oracles, change no faster and
\* no further than their limits say, whatever is called in between.
ChangesAreSlow ==
    /\ ChangesAreSpaced
    /\ LowValuesAreFrozen
    /\ UpdatesAreSpaced
    /\ UpdaterStays
=============================================================================
