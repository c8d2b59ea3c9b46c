# A specification of the Tubor Yield program

Tubor Yield is a Solana program (Anchor, Rust, `src/programs/tubor_yield`): a
group of admins issues *master agents* and *agents* (NFTs), opens trades for the
master agents and moderates the users; users register, refer one another and
buy agents; anyone may complete a trade whose price is there. This directory
holds TLA+ modules translated from that program, the TLC configurations that
check them on small instances, and theorems proved with TLAPS for every value
of the constants.

Paths below such as `state/multisig.rs` are under
`src/programs/tubor_yield/src/`.

## 1. Inventory

| component | state | operations | interacts with |
|---|---|---|---|
| **multisig account** `state/multisig.rs` | signers, bitmap, number signed, hash and lengths of the instruction, nonce, limiter, deadline | `set_signers`, `sign_multisig`, `unsign_multisig`, and three setters nobody calls | one account serves every admin instruction |
| **initialization** `instructions/init.rs` | creates multisig, protocol account and transfer authority | `init` | leaves the states that the `...Init` describe: taxes, pause, breaker, limiter and bounds as the caller gives them, validated by nothing |
| **protocol account** `state/t_yield.rs` | pause flag, taxes, permissions, rate limiter, circuit breaker, parameter bounds, totals | `pause_protocol`, `unpause_protocol`, `update_protocol_config`; `update_protocol_balance`, `update_protocol_fees`, breaker and emergency methods nobody calls | read by `mint_agent`, `mint_master_agent` |
| **moderation** `state/user.rs` | status bits Active, Banned, WithListed | `ban_user`, `update_status` | read by `buy_agent`, `register_user` |
| **minting** `state/master_agent.rs`, `state/agents.rs` | supply, `agent_count`, owner, listing | `mint_master_agent`, `mint_agent` | creates the mints first, then signs |
| **price and yield of master agents** `state/master_agent.rs` | price, yield, taxes, supply, trading mode, times of the last updates | `update_price`, `update_yield`, the account's setters, quotes and figures | multisig; see section 7 |
| **agent account** `state/agents.rs` | booster, listing, owner, times | its setters, reset, validation, score | agent and master agent are changed by a sale |
| **sale of agents** `instructions/buy_agent.rs` | owner, listing, counters of buyer, agent and master agent | `buy_agent`, `sell_agent`, `transfer_agent` | changes three accounts in a row |
| **users and referrals** `instructions/register_user.rs` | user account, referrer, registry, link | `register_user` | reads the referrer's account |
| **yield and rewards** `state/user.rs` | unclaimed and claimed yield, referral earnings, purchases, fees, and figures of them | `withdraw_yield`, `claim_referral_rewards`, the methods of `User`, `History`, `ReferralRegistry` | token program |
| **trades** `state/trade.rs` | terms, status, result, statistics of the master agent | `open_trade`, `close_trade`, `update_trade` | multisig, oracle, master agent |
| **price oracle** `state/oracle.rs` | price, confidence, average, exponent, publish time, updater | `secure_oracle_update`, `get_pair_price` | trades and `get_pair_price` read Pyth through it |
| **arithmetic** `math/` | none | checked operations, casts, rounding, profit and loss | all of the above |
| **price queries, entry points, errors, events** | none | dispatch | |

### How the program runs, and what is hard about it

* *An instruction is atomic.* Solana runs it in a transaction that writes its
  accounts; an error anywhere undoes everything. A handler is one action, and a
  handler that fails is an action that is not enabled. What interleaves is whole
  instructions of several admins, users and third parties, in any order and as
  often as they like. Nothing schedules them.
* *Only accounts declared `mut` keep their changes.* `buy_agent` adds to the
  totals of the protocol account, which its accounts structure does not declare
  `mut`: those additions are lost, and the model has none.
* *Guards before, between and after a signature.* Each admin handler checks
  some things, signs, returns early while signatures are missing, and then
  checks more; an error after the last signature takes the signature back too.
* *Accounts created by a signature.* `mint_agent`, `mint_master_agent` and
  `open_trade` create an account (`init`) in the transaction of each signature.
  The first one keeps it, so the second one fails.
* *One account collects every signature.* A signature of another instruction
  replaces the collection; the deadline, the limiter and the nonce are shared.
* *Accounts handed in by the caller.* Anyone closes a trade and names the
  master agent that is credited; whoever registers names the referrer, the
  registry and the link.
* *Counters held in several accounts*: agents of a user, agents of a master
  agent, trades of a master agent, referrals of a registry.
* *Methods nobody calls yet.* Much of the accounts' public interface is used by
  no instruction today. The next instruction will call it in an order of its
  own, and what an account promises must then hold without the caller's help.
* *Times that are parameters.* An oracle's publish time is handed in by its
  updater, and both its limits count from it; a reset moves an account's last
  update back.
* *Numeric edges*: widths (`u64` to `i64`), the scale of ratios, the edges of
  time windows.

The hazards of `PROJECT.json` name the line of each.

### What makes each component correct

* multisig: no execution without a quorum of distinct members, each of whom
  signed this very instruction, recently, and after its previous execution;
  bitmap and count agree; the limiter bounds every window.
* administration: governed state changes only with such a quorum; what a pause
  and an unpause leave possible; updates come no faster than the limiter says.
* moderation: a ban cannot be lifted by any order of instructions.
* minting and sale: the counters are those of the agents' accounts; an agent is
  sold once; whitelist and ban bind at every later time, not only at the sale.
* referrals: no circle; registry counts and links are those of users who name
  that referrer.
* trades: completed at most once, counted once, with one result whichever of
  the two instructions completes it, and with the sign of its profit or loss.
* accounts: whatever is called in whatever order, an account still passes the
  validation its instructions end with, amounts are neither lost nor claimed
  twice, prices change no faster than their limits, and figures computed in two
  ways agree.
* oracle: a price that is read was written recently, and how far it may move.
* arithmetic: each helper rounds to the side a reader takes it to.

## 2. Modules

| module | models | composes |
|---|---|---|
| `Approval` | abstract: what a multisig promises (an execution needs a quorum of signatures not used before) | |
| `Multisig` | `state/multisig.rs`, all early returns of `sign_multisig` and `unsign_multisig` | implements `Approval` |
| `Governance` | the admin instructions with their hashes, nonces, created accounts, guards and effects | instantiates `Multisig` |
| `AgentMarket` | registration, referrals, mints of agents, sales; counters of three accounts | extends `Governance` |
| `Trades` | opening, updating and closing trades, profit and loss | instantiates `Multisig` |
| `Runtime` | the clock, checked words, whole days | |
| `UserProfile` | a user's flags, idle mark, name, delegate, referrer and times (`User`) | extends `Runtime` |
| `UserLedger` | a user's agents, yield, fees and earnings, and the figures of `History` | extends `Runtime` |
| `Referrals` | `ReferralRegistry`, `ReferralLink` | extends `Runtime` |
| `AgentAccount` | `state/agents.rs` | extends `Runtime` |
| `ProtocolAccount` | the methods of `TYield` with pause, unpause and config | extends `Runtime` |
| `MasterAccount` | `state/master_agent.rs`: limits, supply, trading mode, quotes, figures, validation | extends `Runtime` |
| `TradeAccount` | `state/trade.rs`: methods, price checks, presets, consensus, breaker | extends `Runtime` |
| `OracleAccount` | `secure_oracle_update` and the readers of `CustomOracle` | extends `Runtime` |
| `PriceMath` | `OraclePrice`: order, scale, quotient, product, amounts | extends `Runtime` |
| `FixedPoint` | `math/`: division, proportions, updates on the hour | |
| `Accounts` | the accounts side by side, one of which (`focus`) is used | extends the ten before |
| `MCMultisig`, `MCGovernance`, `MCTrades`, `MCAgentMarket`, `MCAccounts` | small instances for TLC | extend the module of their name |
| `Multisig_proof`, `Governance_proof`, `Trades_proof`, `AgentMarket_proof` | theorems on the instructions | |
| `Division` | lemmas on quotients and products; a set of numbers has a least one | |
| `Users_proof`, `Assets_proof`, `Prices_proof` | theorems on the accounts, prices and rounding | extend their account modules and `Division`; `Prices_proof` extends `Accounts` and the other two |

There are two layers. The first models the *instructions*: what admins, users
and third parties can bring about today. The second models the *accounts*: every
public method, called by anybody in any order, which is what the next
instruction may do. The chain of implementations is `AgentMarket` => `Governance` => `Multisig` =>
`Approval`, each step checked by TLC and proved; `Trades` uses `Multisig`
beside it.

### Multisig

The variables are the fields of the account; `signed` is the bitmap as a set of
members. `instr` stands for the hash with the two lengths stored beside it, so
that two calls are the same instruction exactly when they name the same
accounts in the same order and carry the same data. The hash is taken to
separate instructions that differ. `SignMultisig(s, i, n, left)` is the whole
function: deadline, nonce, limiter, expiry, limiter reset, the single-signer
shortcut and the three cases of the rest; `left` is what it returns. Three
history variables, which no action reads, number and date the accepted
signatures (`stamps`, `turn`, `doneAt`). A single signer's nonce is not stored,
as in the code. `NextWithUnsign` adds `unsign_multisig`, a public function that
no instruction calls.

### Governance

An instruction is a tuple of the accounts and parameters its handler puts into
the hash, less those that are the same in every call. `Pause` and `BanUser`
leave the signer out (`accounts[1..]`), `Unpause` and `Status` contain it,
because those handlers hash all their accounts. Accounts passed in addition
(`remaining_accounts`) would only make more instructions of each. Nonces are
those of the handlers: the clock, the clock plus the first byte of the key, or
a thousand times the clock. Each action is: guards before the signature, the
signature, and either `left > 0` with nothing else changed, or `left = 0` with
the guards and effects that follow. Accounts a transaction creates are created
in both cases (`created`).

`RemoveAgent` is the call by which a sale changes a master agent: no admin
signs it. In `Governance` it may happen at any time; `AgentMarket` says when.
`ballot` and `updates` are history.

### AgentMarket

`owned`, `agent_count`, `trade_count` are the counters of three accounts;
`master`, `owner`, `listed` are the fields of the agents' accounts they count.
`BuyAgent` follows `buy_agent`: whether the user may act, whitelist mode,
ownership, price and tax, each account's change in turn, and `validate_security`
with the share of the price per day. The money itself is left out but for the
conditions that read it (a fee of zero is an error). `IssueAgent` and
`IssueMaster` add to Governance's mints the fields of the new accounts.
`NumberTrade` is what `open_trade` does to a master agent's count of trades;
the trades themselves are in `Trades`.

### Trades

`trades` maps an address to the account there. The address is made of the
master agent's next number and not of its key, so two master agents meet.
Orders are validated as `open_trade` and `Trade::validate` do. The price is what
Pyth reports for the trade's feed, any value of a set at each step: no
instruction writes the protocol account's oracle parameters, so that their type
stays `Pyth` and a trade never reads the program's own `CustomOracle`. Products that exceed `MaxU64` are errors, and the cast to `i64` wraps.
`exits` remembers the price of completion for the properties.

The master agents of `Trades` are given: they exist when the run begins.

### The accounts

Each account module has the account as its state and a method as an action,
with the method's errors as guards: a caller passes an error on and the
transaction leaves nothing behind, except where the code goes on after one (the
`complete`, `cancel` and `update_trade` of a trade, which write the status that
`set_status` has refused, are `CompleteAnyway`, `CancelAnyway` and
`UpdateTradeAnyway`). `InitTrade` and `InitTradeSecure` are the two
initializations called on an account in use: both are public and write any
status over it. They make a trade as well (`TradeAccountInit`), the first
without an authority, the second, which is what `open_trade` calls, with the
signer's. A checked operation is `Fits`. Time stands still during a
call and moves on between two (`Tick`). Quotes and figures are operators on the
account, each with a `...Defined` counterpart where an operation may fail.

The remaining variables are read by properties only: `earned` and `credited` (all
that was ever credited), `handled` and `used` (the last call, resets excepted),
`changed` (the last change of price, yield or taxes), `tripped` and `peak` (the
last trigger of the breaker, the highest balance), `closings` and `forced`,
`updated` and `hurried`, and `defects`. `market` is external: what a caller and the oracles say
of a price.

`ProtocolInit` takes the protocol's account from `FirstProtocols`, any set of what
the parameters of `init` may hold: each tax up to the end of the word, a pause, a
breaker triggered at any time or not, a last update at any time, a counter of
any value; the breaker's cooldown, the limiter's interval and the bounds are
constants, since nothing writes them afterwards. `defects` says what of this no
method would have stored (taxes beyond the bounds, a trigger or a last update
that is not a past time) until a method overwrites it. A subtraction of times
that does not fit a signed word is an error (`Elapsed`).

`FixedPoint` and `PriceMath` have no steps: their initial states are the inputs,
and the properties compare each helper with a definition in unbounded integers.
The value of a price is its number of units of `10^-Finest`, `Finest` being the
finest exponent of the inputs; a power of ten is the recursive function `Ten`.

`Accounts` puts them side by side: no method calls two of them and they share
only the clock, so that `AccountsNext` is a step of the one that `focus` names.
`ChangesAreSlow`, which is about two of them, is stated there.

## 3. Runs

| run | question | bounds |
|---|---|---|
| `multisig_core` | quorum, freshness, rate, replacement and re-execution; the proof's invariant; implementation of `Approval` | 3 members, quorum 2, 2 instructions |
| `multisig_api` | the same account with `unsign_multisig`; its limiter reopens | 3 members, quorum 3, a fair clock |
| `multisig_expiry` | *violated*: only old signatures expire | |
| `gov_quorum` | every admin instruction under a quorum of 2 of 3 | one user without a name, one mint |
| `gov_solo` | one admin: limits on updates, bans and statuses in any order, mints with deployment on and off | 2 users, 2 mints, 3 days |
| `trades` | life of trades with both directions, boundary prices and amounts | 2 master agents, 2 trade numbers |
| `trades_quorum` | trades under a quorum of 2 | |
| `trades_credit` | *violated*: a trade is credited to its own master agent | |
| `trades_reward` | *violated*: the reward outweighs the risk by 1.5 | |
| `market` | registrations, referrals, mints, sales, bans, whitelists; implementation of `Governance` | 2 users, 3 mints, 3 seconds |
| `market_supply` | *violated*: no more agents are minted than the maximum supply | |
| `accounts` | every method of every account, and the arithmetic | 4 calls, a clock of 25 half days, small words |

### Why the bounds are enough

* *Time.* Windows are shortened in proportion: the limiter's 60 seconds and 3
  signatures become 3 and 2, the hour becomes 4, the day 8, 4 or 1. What counts
  is the order of the limits (window < timeout) and that the clock passes each
  of them at least once with a signature before, at and after the edge:
  `multisig_core` lasts two timeouts and three windows, `gov_solo` covers three
  days. `MaxTime` only ends a run.
* *Members.* Quorum 2 of 3 has a member to spare: two different quorums that
  share a member, a replacement by the third, a single member's repeat. Quorum
  1 has a code path of its own and is a run of its own.
* *Agents.* Three mints are a master agent with two agents, or two master
  agents with one; a supply of 2 and 1 is met, refused and, through a sale, met
  again. Two users make a referrer and a referred user; a circle of two is the
  shortest one that can be attempted, and `NoReferralCircle` proves the rest.
* *Trades.* Two numbers and two master agents are what it takes to meet at one
  address; prices lie on each side of every comparison, and the sizes reach past
  the end of the signed and of the unsigned word (scaled by `MaxU64`).
* *Accounts.* Accounts share nothing but the clock, so that a behaviour of one
  is a behaviour of the program: `focus` picks the account that is used. `MCInit`
  is `AccountsInit` with the others in one initial state each. Four calls between ticks reach what takes
  an opposite pair and a repeat (ban, unban, flag, idle check; trigger, reset,
  pause, update). `MCFirstProtocols` has a clean protocol and one with each defect
alone (either tax, a pause, a trigger a moment ago, ahead, and longer ago than a
word can tell, a last update likewise, a counter at its end) and one with all of
them; taxes are given separately, together or not at all. The clock moves on by a day or by nine and a half, half a day
  being its unit, so that ages fall before, at and after each limit and no limit
  is only met at the start of a day.
* *Words.* `MaxU64` is 20479 for the accounts and 4095 for `FixedPoint`, scales
  are shortened with it (10000 to 100 or 400). Inputs lie at 0, 1, on both sides
  of a multiple, of the square root of a word, of the sign bit and of the end, so
  that every checked operation both fits and fails.

`multisig_core` and the runs of `AgentMarket` use symmetry over members or
users, which nothing distinguishes in these instances; `multisig_api`, which
checks liveness, does not. `market`
also compares states without the history variables (`VIEW Accounts`): no guard
and no assignment to another variable reads them. Of the properties of that run
none reads them but `MarketImplementsGovernance`, and only to say how a step
extends them, which is the same from every history; that property is proved
besides. Deadlock is not checked in any run: the clock and the numbers are bounded, and
the program really rests when nobody calls it.

### Fairness

Only of the clock: `ApiSpec` assumes `WF_vars(Tick)`, since the cluster's time
passes whatever the program does. It is what `LimiterReopens` needs: once the
limiter refuses signatures, it accepts them again, although members go on
signing, being refused and taking signatures back. The clock of a run ends, so
that the property asks it only where the end of the window is still within the
bound.

No instruction has to be called by anybody; an admin may stop signing, a user
may stop buying, and no action of theirs is fair. Where a promise of progress
fails, it fails as safety: `NoQuorumAfterDeadline`, `PauseIsFinal`,
`OnlyUnpauseAfterUnpause`, `NothingMintedUnderQuorum` and `NoTradeUnderQuorum`
say of every step what it can no longer do.

## 4. Properties

Of the multisig: `CountMatchesBitmap`, `AtMostRateLimitPerWindow`, `FreshQuorum`
(no execution counts a signature older than the timeout),
`NoSignatureCountsTwice` (none from before the last execution),
`NoQuorumAfterDeadline`, `ImplementsApproval`, `LimiterReopens`.

Of governance: `ChangesNeedQuorum` (what admins decide changes only when a
quorum of members last signed that very instruction and did so recently),
`BanIsFinal`, `PauseIsFinal`, `NamelessNeverBanned`, `NothingMintedUnderQuorum`,
`OnlyUnpauseAfterUnpause`, `UpdatesLimited`, `GovernanceIsMultisig`.

Of the market: `HoldingsMatch`, `SoldOnce`, `WhitelistHolds`, `BannedHoldNoMore`,
`ReferralsGrounded`, `ReferralsCounted`, `MarketImplementsGovernance`.

Of trades: `TradeIsFinal`, `OutcomeAgrees` (closing and updating agree),
`PnlKeepsSign`, `EveryTradeCountedOnce`, `NoSellTrade`, `NoTradeUnderQuorum`.

Of the accounts, one property each, the conjunction of what its module names:

| property | says, for any order of calls |
|---|---|
| `ProfileConsistent` | never banned and active; idle means quiet for the threshold; once named, valid |
| `LedgerConsistent` | yield is conserved; profit, margin, return on investment and efficiencies agree |
| `ReferralsConsistent` | earnings are conserved; a registry that was used stays valid |
| `AgentConsistent` | always valid; the score falls with age; a reset does not hide neglect |
| `ProtocolConsistent` | whatever `init` stored: a tripped breaker holds for the cooldown; nothing but a defect `init` left holds for good, and taxes beyond the bounds do until a tax is given; fees stay below the highest balance |
| `MasterConsistent` | always valid unless the supply is 0; closed for nine days; a buyer never pays more than the budget; the efficiency never exceeds the yield |
| `TradeConsistent` | closed once unless a status is forced by `complete`, `cancel`, `update_trade` or an initialization; no breaker without an authority; two presets accept no sell; profit computed in two ways agrees; one oracle of three cannot move the consensus; an entry is near every oracle; presets are nested; quotes are against the trader |
| `OracleConsistent` | what is written can be read; what is read is recent unless dated ahead; no accurate price after the first |
| `ChangesAreSlow` | changes of price, yield and oracle are an interval apart; low values are frozen; the first updater stays |
| `ArithmeticCorrect` | each helper of `math/` is the exact result, rounded to a stated side |
| `PricesCorrect` | prices of different exponents are ordered, capped, rescaled and divided by their values |

They state what the code does, also where that is a surprise (section 5): the
nine days, the freeze, the inverted check of accuracy, the amounts that grow, and
the sells that are never opened.

Some of these state a limitation, not a promise. With two or more required
signers the program pauses for good, mints nothing, opens no trade, and after
the first hour completes no collection at all; with one signer all of it works.

## 5. Disagreements between code and documentation

Four are shown by runs that TLC refutes:

* `multisig_expiry`: the deadline is set when it is 0, once in the account's
  life; from an hour after the first signature each signature clears all before
  it (`state/multisig.rs:428`, against `:68`).
* `trades_credit`: the master agent handed in is not the trade's
  (`update_trade.rs:138`, against `:44`).
* `trades_reward`: 150 is compared with a ratio scaled by 10000
  (`state/trade.rs:955`, against `:557`).
* `market_supply`: sales lower the number compared with the maximum supply
  (`state/master_agent.rs:629`, against `mint_master_agent.rs:51`).

Met while reading, and modelled as they are, without a run of their own:

* the signer's key is part of an unpause's hash, so two admins' signatures never
  meet (`unpause_protocol.rs:57`); `PauseIsFinal` says what follows;
* the limiter of signatures resets after a gap of a window and not when a
  window ends, so slow signatures also reach its limit;
* `unsign_multisig` reopens a collection that has been executed;
* the comment of `unpause_protocol` promises distinct nonces within a second,
  and the nonce is a function of the second; stored, it exceeds every other
  instruction's for years (`OnlyUnpauseAfterUnpause`);
* the daily limit on updates stops being looked at after the first day, since
  nothing writes `last_reset_day` (`state/t_yield.rs:285`);
* taxes are compared with the parameter bounds and not with the maximum tax
  that the same instruction sets (`state/t_yield.rs:211`);
* a purchase is counted twice in the user's history (`user.add_agent`, then
  `history.add_agents_purchased`);
* sales of a new master agent fail from its first to its tenth day
  (`detect_suspicious_activity` divides the price by the days), by the rounding
  of a price of 90 or more (`ClosedForNineDays`);
* a price below 10 units and a yield below 20 never rise: their limits of ten
  and five percent are rounded down (`LowValuesAreFrozen`);
* the comments of `update_yield.rs` give other limits and another interval than
  `MasterAgent::update_yield` keeps (129600 seconds);
* `update_max_supply` accepts 0, which no later validation does;
* `checked_floor_div` subtracts one for any remainder, also when the quotient
  was rounded down already: 7 by 3 is 1 (`FloorDivRoundsTwice`);
* an amount is scaled by a token's decimals and by their exponent again
  (`get_asset_amount_usd`, `AmountsGrow`);
* the check for manipulation refuses an oracle update whose confidence interval
  is narrow (`secure_oracle_update.rs:252`, `NeverAccurateAgain`);
* an oracle's price may be dated ahead, and is then fresh for as long as its
  updater likes (`oracle.rs:127`);
* the methods of a trade write a status that `set_status` has refused
  (`state/trade.rs:979`), and `init_trade` and `init_trade_secure` (`:1035`,
  `:1359`) overwrite an account in use with any status: a trade that was closed
  may be active again. No instruction calls them so;
* sells: `open_trade` takes a trade type, "Buy or Sell" (`open_trade.rs:17`), has a
  branch for the entry price of a sell (`:220`), and `TradeType` documents a sell
  as stop loss above entry above take profit (`state/trade.rs:216-220`), as
  `validate` requires. But `is_price_in_range` (`state/trade.rs:1424`) takes the stop
  loss for the lower end of the range and the take profit for the upper one,
  whatever the type. For a sell with the distances that `open_trade` demands the
  range is empty: no sell is ever opened (`NoSellTrade`, `NoSell`), and the
  default and the conservative preset accept none (`NoSellByDefault`). Both
  properties hold of the code and contradict its documentation;
* `init` stores taxes, breaker, limiter and bounds without looking at them
  (`init.rs:199-216`), although every update validates them: a protocol may begin,
  unpaused, with taxes that `validate_security_state` refuses, and is insecure
  after any wait until `update_protocol_config` gives a tax (`BadTaxesStay`); and
  a breaker triggered in the future, or a last update there, refuses that
  update too until the clock is a cooldown or an interval beyond them. Only
  methods that no instruction calls overwrite either of them before (the breaker's
  and `emergency_pause`, the updates of balance and fees);
* `update_price` and `update_yield` compare the signing admin with the master
  agent's authority, a PDA; `sell_agent`, `withdraw_yield` and
  `claim_referral_rewards` move tokens of a PDA without its seeds. All five
  always fail.

## 6. Proofs

All theorems hold for every value of the constants that meets the named
assumptions: a finite set of members, a quorum between 1 and their number,
positive windows and limits, a clock that starts at least a window after 0, a
horizon below which seconds and milliseconds cannot be confused, and the types
of the parameters. The number of master agents is finite, since their accounts
are summed over; the minimum interval and the counters of the limiter are
numbers. A ratio has at least 200 points (`Points`, 10000 in the code): with
fewer, the half percent of a preset would round to nothing. The bound `MaxTime` may
be any number, but for `ProtocolAccount` no more than a signed word. Each
assumption is a check of `set_signers`, the type of a parameter, or a fact about
the Solana clock; `init` checks nothing else, and the theorems on the protocol's
account start from whatever it may store.

* `Multisig_proof`. The inductive invariant is `IInv` (defined in `Multisig`,
  checked by `multisig_core`): besides the types and `CountMatchesBitmap`, the
  stored times lie behind the clock (`ClockInv`), the signature times are
  ordered (`StampInv`), what precedes the current run of signatures is a window
  older than its start (`RunInv`, without which the rate is not inductive), a
  bit stands for a signature no older than a timeout before the deadline
  (`BitmapInv`, from which freshness follows), and an incomplete collection is
  younger than the last execution (`PendingInv`, from which no signature counts
  twice). From it: the type invariant, the four properties of the account, and
  `Refinement`, that it implements `Approval`, where the pending signatures are
  those of `instr` while it is incomplete. `unsign_multisig` keeps all of it but
  `PendingInv`, which is why `IInv` is `ApiInv` and `PendingInv`:
  `ApiKeepsPromises` shows what of the account outlives that method (count,
  rate, freshness, deadline) and what does not, since an executed collection
  that it reopens may be completed again.
* `Governance_proof`. `GovernanceImplementsMultisig` shows each handler to be a
  step of `Multisig` or none of its variables, so that the theorems on `Multisig`
  carry over; `ChangesHaveAQuorum` joins the freshness taken from it with
  `BallotInv` (whose bit is set last signed the stored instruction) and
  `HistoryInv`. What a larger quorum never completes rests on `QuorumInv`: a
  collection whose hash contains its signer, or whose account exists, has at
  most one signature and cannot grow (`StuckInv`).
  `BanForGood` rests on `BanInv`: a banned user is not active.
  `UpdatesAreLimited` needs `UpdatesInv`: the protocol account's counter is the
  number of updates and its last time the last of them.
* `AgentMarket_proof`. `MarketRefines` brings Governance's theorems over.
  `AssetInv` says which accounts exist, and that the listed agents are exactly
  those the protocol owns; with it `CountInv` (each counter is the cardinality of
  the set of agents it counts) is inductive. `PeopleInv` keeps every
  referrer registered, so a new user cannot close a circle.
* `Trades_proof`. `TradeInv`: an account is as created or holds an order that
  passed validation, from which follow the direction, the sign of the profit
  and the agreement of both completions. `NothingOpened` uses `UnopenedInv`, the
  counterpart of `StuckInv`. `EveryTradeIsCounted` is about sums over sets of
  accounts: the first half of its section proves that such a sum exists, does
  not depend on the order in which its elements are taken, changes by what one
  element changes and grows by what joins the set. Then completing a trade raises
  one master agent's figures by what the set of completed trades gains, and no
  other step touches either.

* `Division`. What a quotient is, reaches, grows and shrinks with, and which
  products keep an order. The provers know nothing of a quotient by a variable;
  these lemmas are all that the account proofs use of one. `FactorKeepsOrder`
  lets prices be compared in the units of either. `LeastNumber` stands in for
  induction (below).
* `Users_proof`. `ProfileInv` puts the times behind the clock and keeps the
  authority out of delegate and referrer; `idle` is kept in the form of a time
  that lies behind, which later ticks cannot break. `LedgerInv` is the types with
  the conservation of yield: the relations between figures hold in every state,
  by the bounds on their quotients. `ReferralInv` says that a registry that counts
  somebody was written.
* `Assets_proof`. `AgentInv` orders creation, update, use and clock, which is
  what a reset must not disturb. `ProtocolInv` is about what `init` may have stored
  as well: the breaker is triggered since it was tripped, unless the trigger is
  `init`'s own and not a past time (`TripInv`); the taxes fail the validation
  exactly while they are `init`'s (`TaxInv`); the last update lies behind the clock
  unless it is `init`'s (`LimiterInv`); balance and fees stay below the peak and
  the bound (`AmountInv`). `MasterInv` is
  validity but for the supply, with `changed` behind the last update and that
  behind the last use; the closing for nine days, the budget and the efficiency
  follow from it and `Division` for every price, scale and tax.
  `MasterChangesAreSlow` is the master agent's part of `ChangesAreSlow`.
* `Prices_proof`. `OracleInv` says what updates leave behind: a price that is not
  zero with a confidence of at most half of it, and from the second update on of
  at least a hundredth. `TradeAccountInv` counts the closings: none while the
  status is active and at most one, unless a status was forced, by an
  initialization of the account in use too.
  The profits computed on signed and on unsigned words agree in every state, by
  the bounds on their quotients. The checks of a trade are proved for every
  price, limit and scale: the k-th of the quoted prices exists and is only
  one, so one oracle of three cannot carry the median past both others; the deviations of price, median and entry add up to
  `EntryNearEveryOracle`; what a preset accepts a looser one accepts, since each
  of its limits is at least as wide (`LooserAccepts`); spread and slippage move a
  quote monotonically (`PartGrowsSlowly`), hence against the trader.
  `ArithmeticIsCorrect` needs no invariant: it brings the machine's division,
  which rounds towards zero, back to the quotients of `Division`, sign by sign,
  and shows that the complement of `get_proportion_u128`, rounded up, leaves the
  proportion rounded down. `PricesAreCorrect` rests on three facts about powers of
  ten (they exist, grow, and the power of a sum is the product); with them
  rescaling to a finer exponent keeps the value, so that the order of mantissas
  at the finer exponent is the order of values (`LessIsByValue`), and the digits
  that `normalize` cuts leave room for the scale of a quotient, which is defined
  for every divisor but 0.
  `AccountsStayConsistent` and `AccountsChangeSlowly` put the accounts together:
  `AllInv` is the conjunction of their invariants, and each is kept while another
  account is used and the clock moves (`...Rests`).

The type invariants are proved with the rest and are part of what the runs check
only through the properties that contain them.

*Induction over data.* The library's induction theorems take an operator as a
parameter, which the provers cannot instantiate. Where a proof needs what they
say, it takes the least number, or a smallest finite set, of those a claim fails
of: the set is a constant, and the theorem that every set of numbers has a least
one needs no operator. The powers of ten, the sums of `Trades` and the k-th
price are proved in this way.

Checked by TLC only: `LimiterReopens`, since liveness under fairness is out of
the proof system's reach. Every other property of a run that passes is stated by
a theorem.

## 7. Not modelled, and why

* `update_price`, `update_yield`, `sell_agent`, `withdraw_yield`,
  `claim_referral_rewards` as instructions: no call of them succeeds (section 5).
  The methods they call are in the account modules.
* `transfer_agent` is no entry point; `transfer_ownership`, which it calls, is in
  `AgentAccount`.
* The setters of the multisig that change a weight or a timeout nobody reads.
* `get_multi_oracle_price`: it reads one account both as a custom oracle and as
  a Pyth price, which no account is. `get_pyth_price` and the Pyth client: external,
  any price in `Trades`.
* `log10` of the arithmetic, the conversions of U192 and U256 from and to bytes,
  the unwrapping helpers: no account's method is built on them.
* Anchor's constraints, SPL token balances, Metaplex metadata: external. The
  accounts a handler declares are taken to be those it names, and a constraint
  that names no relation between accounts is no guard. The token accounts of a
  mint created in the same transaction are taken to be creatable.
* Events, logs, error codes, URIs: no property is about them.

## 8. Plan

Done: `Multisig` with `Approval`, `Governance`, `Trades`, `AgentMarket` and their
proofs; the accounts, the oracle and the arithmetic with a run of their own and
the proofs of all that it checks. Left:

1. `Trades` over the master agents that `AgentMarket` issues, so that the numbers
   raised by sales and the addresses of trades meet in one state; a theorem that
   this composition implements both.
2. What can be said of `unsign_multisig` against `Approval`: the weaker abstract
   specification in which a collection may be reopened.
