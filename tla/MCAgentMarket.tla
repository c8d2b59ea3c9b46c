--------------------------- MODULE MCAgentMarket ---------------------------
(***************************************************************************)
(* Small instances of AgentMarket for TLC: one admin, whose every          *)
(* signature is an execution, since under a larger quorum no master agent  *)
(* exists and nothing is sold (Governance, NothingMintedUnderQuorum).      *)
(***************************************************************************)
EXTENDS AgentMarket, TLC

CONSTANTS m1, k1, k2, k3, u1, u2

MCKeyByte == [m \in Members |-> 1]

MCConfig == [paused |-> FALSE, buy_tax |-> 1, sell_tax |-> 1,
             max_tax_percentage |-> 2, permissions |-> {"deploy"},
             last_update_time |-> 0, daily_update_count |-> 0]
\* One update in the run, which switches deployment off.
MCConfigs == {[buy_tax |-> Keep, sell_tax |-> Keep, max_tax_percentage |-> Keep,
               allow |-> {}, forbid |-> {"deploy"}]}
MCRateLimiter == [min_interval_sec |-> 3, max_updates_per_day |-> 2,
                  last_reset_day |-> 0]
MCBreaker == [is_triggered |-> FALSE, trigger_time |-> 0,
              cooldown_period_sec |-> 0]

\* A fee of 1; of 0 for k3.
MCPrice == [m \in Mints |-> IF m = k3 THEN 39 ELSE 40]

\* What the guards and the assignments of the code read or write: all but
\* the histories, which only properties read.
Accounts == <<now, signed, num_signed, instr, nonce, last_signature_time,
              signature_timeout, signature_count, t_yield, status, created,
              max_supply, agent_count, market>>

\* Users differ in nothing; no liveness is checked.
MCSymmetry == Permutations(Users)
=============================================================================
