---------------------------- MODULE MCGovernance ----------------------------
(***************************************************************************)
(* Small instances of Governance for TLC.  The members are told apart by   *)
(* the first byte of their keys only where a run pauses the protocol.      *)
(***************************************************************************)
EXTENDS Governance, TLC

CONSTANTS m1, m2, m3

Three == {m1, m2, m3}

\* One key starts with 0, the others differ by less than the run is long.
MCKeyByte == [m \in Members |-> IF m = m1 THEN 0 ELSE IF m = m2 THEN 2 ELSE 3]
SameKeyByte == [m \in Members |-> 1]

MCConfig == [paused |-> FALSE, buy_tax |-> 1, sell_tax |-> 1,
             max_tax_percentage |-> 2, permissions |-> {"deploy"},
             last_update_time |-> 0, daily_update_count |-> 0]

\* Parameters with nothing but None.
Change == [buy_tax |-> Keep, sell_tax |-> Keep, max_tax_percentage |-> Keep,
           allow |-> {}, forbid |-> {}]
\* A tax alone, both taxes (4 is beyond MaxTaxBound), a tax and the maximum.
MCConfigs ==
    {[Change EXCEPT !.buy_tax = 3],
     [Change EXCEPT !.buy_tax = 2, !.sell_tax = 4],
     [Change EXCEPT !.sell_tax = 2, !.max_tax_percentage = 3]}
\* Deployment off; on, with a maximum beyond 100% or without.
DeployConfigs ==
    {[Change EXCEPT !.forbid = {"deploy"}],
     [Change EXCEPT !.allow = {"deploy"}, !.max_tax_percentage = 10001],
     [Change EXCEPT !.allow = {"deploy"}]}
\* A tax; deployment off; deployment on with a maximum beyond 100% or without.
SoloConfigs == {[Change EXCEPT !.buy_tax = 2]} \cup DeployConfigs

\* Two seconds between updates, two updates up to the end of the first day.
MCRateLimiter == [min_interval_sec |-> 2, max_updates_per_day |-> 2,
                  last_reset_day |-> 0]
\* One second between updates, and the reset day ends later.
LongRateLimiter == [min_interval_sec |-> 1, max_updates_per_day |-> 2,
                    last_reset_day |-> 4]

\* Triggered at initialization, open for the first seconds of the run.
MCBreaker == [is_triggered |-> TRUE, trigger_time |-> Epoch,
              cooldown_period_sec |-> 1]
NoBreaker == [is_triggered |-> FALSE, trigger_time |-> 0,
              cooldown_period_sec |-> 0]
=============================================================================
