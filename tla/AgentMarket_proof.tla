------------------------- MODULE AgentMarket_proof -------------------------
(***************************************************************************)
(* Proofs about AgentMarket for every set of users and mints, every price  *)
(* and every quorum.                                                       *)
(***************************************************************************)
EXTENDS AgentMarket, Governance_proof

USE DEF multisig, agents, market, people, assets, tallies

\* Signs to tell users, mints and the two keys apart.
LEMMA Apart ==
    /\ Protocol \notin Users /\ NoOne \notin Users
    /\ Protocol \notin Mints /\ NoOne \notin Mints /\ Protocol # NoOne
  BY MarketAssumption

-----------------------------------------------------------------------------
(* The market implements Governance *)

\* Every step of the market is a step of Governance or leaves it alone.
LEMMA MarketStep ==
    ASSUME [MarketNext]_marketVars
    PROVE  [Next]_vars
  <1>1. CASE UNCHANGED marketVars
    BY <1>1 DEF marketVars
  <1>2. CASE \E u \in Users, r \in Users \cup {NoOne}, registry, link \in BOOLEAN :
                 RegisterUser(u, r, registry, link)
    BY <1>2 DEF RegisterUser
  <1>3. ASSUME NEW u \in Users, NEW m \in Mints, BuyAgent(u, m)
        PROVE  \E ma \in Mints : RemoveAgent(ma)
    BY <1>3 DEF BuyAgent
  <1>4. ASSUME NEW s \in Members, NEW u \in Users, Moderate(s, u)
        PROVE  BanUser(s, u) \/ \E f \in Flags : UpdateStatus(s, u, f)
    BY <1>4 DEF Moderate
  <1>5. ASSUME NEW s \in Members, NEW m \in Mints, NEW k \in Supplies,
               IssueMaster(s, m, k)
        PROVE  MintMasterAgent(s, m, k)
    BY <1>5 DEF IssueMaster
  <1>6. ASSUME NEW s \in Members, NEW m \in Mints, NEW ma \in Mints,
               IssueAgent(s, m, ma)
        PROVE  MintAgent(s, m, ma)
    BY <1>6 DEF IssueAgent
  <1>7. ASSUME NEW s \in Members, NEW ma \in Mints, NumberTrade(s, ma)
        PROVE  \E k \in TradeNumbers : OpenTrade(s, ma, k)
    BY <1>7 DEF NumberTrade
  <1> QED
    BY <1>1, <1>2, <1>3, <1>4, <1>5, <1>6, <1>7 DEF MarketNext, Next

\* Whatever is registered, minted and sold, the master agents, the status of
\* the users and the multisig account follow Governance.
THEOREM MarketRefines == MarketSpec => MarketImplementsGovernance
  <1>1. MarketInit => Init
    BY DEF MarketInit
  <1> QED
    BY <1>1, MarketStep, PTL DEF MarketSpec, Spec, MarketImplementsGovernance

-----------------------------------------------------------------------------
(* What Governance guarantees to the market *)

\* A master agent's mint exists.
SupplyInv == \A m \in Mints : max_supply[m] > 0 => m \in created

\* Mints, master agents and whitelist flags are only ever added.
LEMMA NothingIsTakenBack ==
    ASSUME EffectInv, SupplyInv, [Next]_vars
    PROVE  /\ SupplyInv'
           /\ created \subseteq created'
           /\ \A m \in Mints : max_supply[m] > 0 => max_supply'[m] > 0
           /\ \A u \in Users : "WithListed" \in status[u]
                                  => "WithListed" \in status'[u]
  <1> DEFINE Keeps == \A u \in Users : "WithListed" \in status[u]
                                          => "WithListed" \in status'[u]
             Grows == /\ SupplyInv'
                      /\ created \subseteq created'
                      /\ \A m \in Mints : max_supply[m] > 0 => max_supply'[m] > 0
  <1> USE DEF EffectInv
  <1>1. ASSUME NEW s \in Members, NEW u \in Users, BanUser(s, u) PROVE Keeps
    <2>1. UNCHANGED status \/ ApplyBan(u)
      BY <1>1 DEF BanUser
    <2> QED
      BY <2>1 DEF ApplyBan
  <1>2. ASSUME NEW s \in Members, NEW u \in Users, NEW f \in Flags,
               UpdateStatus(s, u, f)
        PROVE  Keeps
    <2>1. UNCHANGED status \/ AddUserStatus(u, f)
      BY <1>2 DEF UpdateStatus
    <2>2. CASE AddUserStatus(u, f)
      BY <2>2 DEF AddUserStatus, Flags
    <2> QED
      BY <2>1, <2>2
  <1>7. ASSUME UNCHANGED status PROVE Keeps
    BY <1>7
  <1>8. ASSUME UNCHANGED <<created, max_supply>> PROVE Grows
    BY <1>8 DEF SupplyInv
  <1>4. ASSUME NEW s \in Members, NEW m \in Mints, NEW k \in Supplies,
               MintMasterAgent(s, m, k)
        PROVE  Grows
    <2>1. /\ m \notin created /\ created' = created \cup {m} /\ k > 0
          /\ \/ max_supply' = max_supply
             \/ max_supply' = [max_supply EXCEPT ![m] = k]
      BY <1>4 DEF MintMasterAgent, Create, ApplyMintMaster
    <2> QED
      BY <2>1 DEF SupplyInv
  <1>5. ASSUME NEW s \in Members, NEW m \in Mints, NEW ma \in Mints,
               MintAgent(s, m, ma)
        PROVE  Grows
    BY <1>5 DEF MintAgent, Create, ApplyMint, SupplyInv
  <1> HIDE DEF Keeps, Grows
  <1>3. UNCHANGED status \/ Keeps
    BY <1>1, <1>2 DEF Next, Tick, PauseProtocol, UnpauseProtocol, OpenTrade,
       UpdateProtocolConfig, MintMasterAgent, MintAgent, RemoveAgent, vars
  <1>6. UNCHANGED <<created, max_supply>> \/ Grows
    BY <1>4, <1>5 DEF Next, Tick, PauseProtocol, UnpauseProtocol, OpenTrade,
       UpdateProtocolConfig, BanUser, UpdateStatus, RemoveAgent, vars
  <1> QED
    BY <1>3, <1>6, <1>7, <1>8 DEF Keeps, Grows

-----------------------------------------------------------------------------
(* Agents and their owners *)

AssetInv ==
    /\ SupplyInv
    /\ owned \in [Users -> Nat]
    /\ master \in [Mints -> Mints \cup {NoOne}]
    /\ owner \in [Mints -> Users \cup {Protocol, NoOne}]
    /\ listed = {m \in Mints : owner[m] = Protocol}
    /\ \A m \in Mints : owner[m] # NoOne => m \in created
    /\ \A m \in Mints : master[m] \in Mints => max_supply[master[m]] > 0
    /\ WhitelistHolds

\* A sale, a mint of an agent, or no change to any agent.
LEMMA AssetCases ==
    ASSUME [MarketNext]_marketVars
    PROVE  \/ UNCHANGED <<owned, assets>>
           \/ \E u \in Users, m \in Mints : BuyAgent(u, m)
           \/ \E s \in Members, m \in Mints, ma \in Mints : IssueAgent(s, m, ma)
  BY DEF MarketNext, marketVars, RegisterUser, Moderate, IssueMaster, NumberTrade

\* A mint under signature of all it needs concerns a new mint.
LEMMA IssueFacts ==
    ASSUME NEW s \in Members, NEW m \in Mints, NEW ma \in Mints,
           IssueAgent(s, m, ma)
    PROVE  /\ m \notin created /\ m \in created'
           /\ max_supply[ma] > 0
           /\ UNCHANGED owned
           /\ \/ UNCHANGED assets
              \/ /\ master' = [master EXCEPT ![m] = ma]
                 /\ owner' = [owner EXCEPT ![m] = Protocol]
                 /\ listed' = listed \cup {m}
  BY DEF IssueAgent, MintAgent, Create

\* The owners' invariant is inductive.
LEMMA AssetStep ==
    ASSUME EffectInv, AssetInv, [MarketNext]_marketVars
    PROVE  AssetInv'
  <1>1. /\ SupplyInv'
        /\ created \subseteq created'
        /\ \A m \in Mints : max_supply[m] > 0 => max_supply'[m] > 0
        /\ \A u \in Users : "WithListed" \in status[u]
                               => "WithListed" \in status'[u]
    BY MarketStep, NothingIsTakenBack DEF AssetInv
  <1>2. CASE UNCHANGED <<owned, assets>>
    <2>1. WhitelistHolds'
      BY <1>1, <1>2 DEF AssetInv, WhitelistHolds
    <2> QED
      BY <1>1, <1>2, <2>1 DEF AssetInv
  <1>3. ASSUME NEW u \in Users, NEW m \in Mints, BuyAgent(u, m) PROVE AssetInv'
    <2>1. /\ m \in listed /\ listed' = listed \ {m}
          /\ owner' = [owner EXCEPT ![m] = u] /\ UNCHANGED master
          /\ owned' = [owned EXCEPT ![u] = @ + 1]
          /\ master[m] \in WhiteLists => "WithListed" \in status[u]
      BY <1>3 DEF BuyAgent, Unlist, Admitted
    <2>2. WhitelistHolds'
      BY <1>1, <2>1 DEF AssetInv, WhitelistHolds
    <2>3. listed' = {x \in Mints : owner'[x] = Protocol}
      BY <2>1, Apart DEF AssetInv
    <2>4. /\ owned' \in [Users -> Nat]
          /\ owner' \in [Mints -> Users \cup {Protocol, NoOne}]
      BY <2>1 DEF AssetInv
    <2>5. \A x \in Mints : owner'[x] # NoOne => x \in created'
      BY <1>1, <2>1, Apart DEF AssetInv
    <2> QED
      BY <1>1, <2>1, <2>2, <2>3, <2>4, <2>5 DEF AssetInv
  <1>4. ASSUME NEW s \in Members, NEW m \in Mints, NEW ma \in Mints,
               IssueAgent(s, m, ma), ~UNCHANGED assets
        PROVE  AssetInv'
    <2>1. /\ m \notin created /\ m \in created' /\ max_supply[ma] > 0
          /\ UNCHANGED owned
          /\ master' = [master EXCEPT ![m] = ma]
          /\ owner' = [owner EXCEPT ![m] = Protocol]
          /\ listed' = listed \cup {m}
      BY <1>4, IssueFacts
    <2>2. WhitelistHolds'
      BY <1>1, <2>1, Apart DEF AssetInv, WhitelistHolds
    <2>3. listed' = {x \in Mints : owner'[x] = Protocol}
      BY <2>1, Apart DEF AssetInv
    <2>4. /\ master' \in [Mints -> Mints \cup {NoOne}]
          /\ owner' \in [Mints -> Users \cup {Protocol, NoOne}]
      BY <2>1 DEF AssetInv
    <2>5. \A x \in Mints : owner'[x] # NoOne => x \in created'
      BY <1>1, <2>1 DEF AssetInv
    <2>6. \A x \in Mints : master'[x] \in Mints => max_supply'[master'[x]] > 0
      BY <1>1, <2>1 DEF AssetInv
    <2> QED
      BY <1>1, <2>1, <2>2, <2>3, <2>4, <2>5, <2>6 DEF AssetInv
  <1> QED
    BY <1>2, <1>3, <1>4, AssetCases, IssueFacts

\* No agent is there at first.
LEMMA AssetInit == MarketInit => AssetInv
  BY Apart DEF MarketInit, Init, AssetInv, SupplyInv, WhitelistHolds

\* The owners' invariant holds always.
LEMMA AssetInvariance == MarketSpec => [](EffectInv /\ AssetInv)
  <1>1. MarketSpec => []EffectInv
    BY MarketRefines, EffectInvariance, PTL DEF MarketImplementsGovernance
  <1> QED
    BY <1>1, AssetInit, AssetStep, PTL DEF MarketSpec

\* The flag an agent of a whitelisted master agent was bought with stays.
THEOREM WhitelistKept == MarketSpec => []WhitelistHolds
  <1>1. AssetInv => WhitelistHolds
    BY DEF AssetInv
  <1> QED
    BY <1>1, AssetInvariance, PTL

\* An agent that was bought is never sold, minted or given again.
THEOREM SoldForGood == MarketSpec => SoldOnce
  <1>1. ASSUME AssetInv, [MarketNext]_marketVars
        PROVE  [\A m \in Mints : owner[m] \in Users =>
                   owner'[m] = owner[m] /\ master'[m] = master[m]]_marketVars
    <2> SUFFICES ASSUME NEW x \in Mints, owner[x] \in Users
                 PROVE  owner'[x] = owner[x] /\ master'[x] = master[x]
      OBVIOUS
    <2>1. x \notin listed /\ x \in created
      BY <1>1, Apart DEF AssetInv
    <2>2. ASSUME NEW u \in Users, NEW m \in Mints, BuyAgent(u, m)
          PROVE  owner'[x] = owner[x] /\ master'[x] = master[x]
      BY <1>1, <2>1, <2>2 DEF BuyAgent, Unlist, AssetInv
    <2>3. ASSUME NEW s \in Members, NEW m \in Mints, NEW ma \in Mints,
                 IssueAgent(s, m, ma)
          PROVE  owner'[x] = owner[x] /\ master'[x] = master[x]
      BY <1>1, <2>1, <2>3, IssueFacts DEF AssetInv
    <2> QED
      BY <1>1, <2>2, <2>3, AssetCases
  <1> QED
    BY <1>1, AssetInvariance, PTL DEF MarketSpec, SoldOnce

\* A banned user buys nothing.
THEOREM BannedBuyNothing == MarketSpec => BannedHoldNoMore
  <1>1. ASSUME AssetInv, [MarketNext]_marketVars
        PROVE  [\A u \in Users : "Banned" \in status[u]
                                     => owned'[u] = owned[u]]_marketVars
    <2>1. ASSUME NEW u \in Users, NEW m \in Mints, BuyAgent(u, m),
                 NEW x \in Users, "Banned" \in status[x]
          PROVE  owned'[x] = owned[x]
      BY <1>1, <2>1 DEF BuyAgent, CanPerformActions, AssetInv
    <2> QED
      BY <1>1, <2>1, AssetCases, IssueFacts
  <1> QED
    BY <1>1, AssetInvariance, PTL DEF MarketSpec, BannedHoldNoMore

-----------------------------------------------------------------------------
(* What the accounts count *)

\* A signature executes exactly when it returns that none is left.
LEMMA ExecutedFacts ==
    ASSUME MS!TypeOK, NEW s \in Members, NEW i \in Instrs, NEW n,
           NEW left \in 0 .. MinSignatures, Sign(s, i, n, left)
    PROVE  Executed(i) <=> left = 0
  <1>1. /\ doneAt \in [Instrs -> 0 .. Len(stamps)] /\ Len(stamps) \in Nat
        /\ doneAt' = IF left = 0 THEN [doneAt EXCEPT ![i] = Len(stamps) + 1]
                     ELSE doneAt
    BY DEF MS!TypeOK, Sign, MS!SignMultisig
  <1> QED
    BY <1>1 DEF Executed

CountInv ==
    /\ \A u \in Users : owned[u] = Cardinality({m \in Mints : owner[m] = u})
    /\ \A ma \in Mints :
           agent_count[ma] = Cardinality({m \in listed : master[m] = ma})

\* A sale, a new agent, a new master agent, or no change to what is counted.
LEMMA CountCases ==
    ASSUME [MarketNext]_marketVars
    PROVE  \/ UNCHANGED <<owned, assets, agent_count>>
           \/ \E u \in Users, m \in Mints : BuyAgent(u, m)
           \/ \E s \in Members, m \in Mints, ma \in Mints : IssueAgent(s, m, ma)
           \/ \E s \in Members, m \in Mints, k \in Supplies : IssueMaster(s, m, k)
  BY DEF MarketNext, marketVars, vars, RegisterUser, Moderate, NumberTrade, Tick,
     PauseProtocol, UnpauseProtocol, UpdateProtocolConfig, BanUser,
     UpdateStatus, OpenTrade

\* The sale moves one agent from the listed ones to those of the buyer.
LEMMA BuyCounts ==
    ASSUME EffectInv, AssetInv, CountInv,
           NEW u \in Users, NEW m \in Mints, BuyAgent(u, m)
    PROVE  CountInv'
  <1> DEFINE O(q) == {x \in Mints : owner[x] = q}
             L(a) == {x \in listed : master[x] = a}
             ma == master[m]
  <1>1. /\ m \in listed /\ listed' = listed \ {m} /\ ma \in Mints
        /\ owner' = [owner EXCEPT ![m] = u] /\ master' = master
        /\ owned' = [owned EXCEPT ![u] = @ + 1]
        /\ agent_count' = [agent_count EXCEPT ![ma] = @ - 1]
    BY DEF BuyAgent, Unlist, RemoveAgent
  <1>2. owner[m] = Protocol /\ u # Protocol /\ listed \subseteq Mints
    BY <1>1, Apart DEF AssetInv
  <1>4. ASSUME NEW q \in Users
        PROVE  owned'[q] = Cardinality({x \in Mints : owner'[x] = q})
    <2>1. CASE q = u
      <3>1. {x \in Mints : owner'[x] = q} = O(q) \cup {m} /\ m \notin O(q)
        BY <1>1, <1>2, <2>1 DEF AssetInv
      <3>3. IsFiniteSet(O(q))
        BY FiniteAssumption, FS_Subset
      <3>2. Cardinality(O(q) \cup {m}) = Cardinality(O(q)) + 1
        BY <3>1, <3>3, FS_AddElement
      <3> QED
        BY <1>1, <2>1, <3>1, <3>2 DEF AssetInv, CountInv
    <2>2. CASE q # u
      <3>1. {x \in Mints : owner'[x] = q} = O(q)
        BY <1>1, <1>2, <2>2, Apart DEF AssetInv
      <3> QED
        BY <1>1, <2>2, <3>1 DEF AssetInv, CountInv
    <2> QED
      BY <2>1, <2>2
  <1>5. ASSUME NEW a \in Mints
        PROVE  agent_count'[a] = Cardinality({x \in listed' : master'[x] = a})
    <2>1. CASE a = ma
      <3>1. {x \in listed' : master'[x] = a} = L(a) \ {m} /\ m \in L(a)
        BY <1>1, <2>1
      <3>3. IsFiniteSet(L(a))
        BY <1>2, FiniteAssumption, FS_Subset
      <3>2. Cardinality(L(a) \ {m}) = Cardinality(L(a)) - 1
        BY <3>1, <3>3, FS_RemoveElement
      <3> QED
        BY <1>1, <2>1, <3>1, <3>2 DEF EffectInv, CountInv
    <2>2. CASE a # ma
      <3>1. {x \in listed' : master'[x] = a} = L(a)
        BY <1>1, <2>2
      <3> QED
        BY <1>1, <2>2, <3>1 DEF EffectInv, CountInv
    <2> QED
      BY <2>1, <2>2
  <1> QED
    BY <1>4, <1>5 DEF CountInv

\* A new agent is listed and counted, or neither.
LEMMA IssueCounts ==
    ASSUME MS!TypeOK, EffectInv, AssetInv, CountInv,
           NEW s \in Members, NEW m \in Mints, NEW ma \in Mints,
           IssueAgent(s, m, ma)
    PROVE  CountInv'
  <1> DEFINE L(a) == {x \in listed : master[x] = a}
  <1>1. PICK left \in 0 .. MinSignatures :
            /\ Sign(s, Mint(m, ma), now, left)
            /\ IF left > 0 THEN UNCHANGED agents ELSE ApplyMint(ma)
    BY DEF IssueAgent, MintAgent
  <1>2. Executed(Mint(m, ma)) <=> left = 0
    <2>1. Mint(m, ma) \in Instrs
      BY DEF Instrs
    <2> QED
      BY <1>1, <2>1, ExecutedFacts
  <1>3. CASE left # 0
    <2>1. UNCHANGED <<owned, assets, agent_count>>
      BY <1>1, <1>2, <1>3 DEF IssueAgent
    <2> QED
      BY <2>1 DEF CountInv
  <1>4. CASE left = 0
    <2>1. /\ agent_count' = [agent_count EXCEPT ![ma] = @ + 1]
          /\ master' = [master EXCEPT ![m] = ma] /\ UNCHANGED owned
          /\ owner' = [owner EXCEPT ![m] = Protocol]
          /\ listed' = listed \cup {m} /\ m \notin created
      BY <1>1, <1>2, <1>4 DEF IssueAgent, MintAgent, Create, ApplyMint
    <2>2. owner[m] = NoOne /\ m \notin listed /\ listed \subseteq Mints
      BY <2>1, Apart DEF AssetInv
    <2>3. ASSUME NEW q \in Users
          PROVE  owned'[q] = Cardinality({x \in Mints : owner'[x] = q})
      <3>1. {x \in Mints : owner'[x] = q} = {x \in Mints : owner[x] = q}
        BY <2>1, <2>2, Apart DEF AssetInv
      <3> QED
        BY <2>1, <3>1 DEF CountInv
    <2>4. ASSUME NEW a \in Mints
          PROVE  agent_count'[a] = Cardinality({x \in listed' : master'[x] = a})
      <3>1. CASE a = ma
        <4>1. {x \in listed' : master'[x] = a} = L(a) \cup {m} /\ m \notin L(a)
          BY <2>1, <2>2, <3>1 DEF AssetInv
        <4>2. IsFiniteSet(L(a))
          BY <2>2, FiniteAssumption, FS_Subset
        <4>3. Cardinality(L(a) \cup {m}) = Cardinality(L(a)) + 1
          BY <4>1, <4>2, FS_AddElement
        <4> QED
          BY <2>1, <3>1, <4>1, <4>3 DEF EffectInv, CountInv
      <3>2. CASE a # ma
        <4>1. {x \in listed' : master'[x] = a} = L(a)
          BY <2>1, <2>2, <3>2 DEF AssetInv
        <4> QED
          BY <2>1, <3>2, <4>1 DEF EffectInv, CountInv
      <3> QED
        BY <3>1, <3>2
    <2> QED
      BY <2>3, <2>4 DEF CountInv
  <1> QED
    BY <1>3, <1>4

\* A new master agent starts with no agents, and has none.
LEMMA MasterCounts ==
    ASSUME EffectInv, AssetInv, CountInv,
           NEW s \in Members, NEW m \in Mints, NEW k \in Supplies,
           IssueMaster(s, m, k)
    PROVE  CountInv'
  <1>1. /\ UNCHANGED <<owned, assets>> /\ m \notin created
        /\ \/ UNCHANGED agent_count
           \/ agent_count' = [agent_count EXCEPT ![m] = 0]
    BY DEF IssueMaster, MintMasterAgent, Create, ApplyMintMaster
  <1>2. {x \in listed : master[x] = m} = {}
    BY <1>1 DEF AssetInv, SupplyInv
  <1>3. agent_count[m] = 0
    BY <1>2, FS_EmptySet DEF CountInv
  <1> QED
    BY <1>1, <1>3 DEF EffectInv, CountInv

\* No agent, nothing counted; then sales and mints keep the counts.
LEMMA CountInvariance == MarketSpec => []CountInv
  <1>1. MarketInit => CountInv
    <2> SUFFICES ASSUME MarketInit PROVE CountInv
      OBVIOUS
    <2>1. /\ \A u \in Users : {m \in Mints : owner[m] = u} = {}
          /\ \A ma : {m \in listed : master[m] = ma} = {}
      BY Apart DEF MarketInit
    <2> QED
      BY <2>1, FS_EmptySet DEF MarketInit, Init, CountInv
  <1>2. MS!TypeOK /\ EffectInv /\ AssetInv /\ CountInv /\ [MarketNext]_marketVars
            => CountInv'
    BY CountCases, BuyCounts, IssueCounts, MasterCounts DEF CountInv
  <1>3. MarketSpec => []MS!TypeOK
    <2>1. MP!IInv => MS!TypeOK
      BY DEF MP!IInv, MP!ApiInv, MP!TypeOK, MS!TypeOK
    <2> QED
      BY <2>1, MarketRefines, MultisigInvariance, PTL DEF MarketImplementsGovernance
  <1> QED
    BY <1>1, <1>2, <1>3, AssetInvariance, PTL DEF MarketSpec

\* The counters of users and master agents agree with the agents' accounts.
THEOREM CountsMatch == MarketSpec => []HoldingsMatch
  <1>1. AssetInv /\ CountInv => HoldingsMatch
    BY DEF AssetInv, CountInv, HoldingsMatch
  <1> QED
    BY <1>1, AssetInvariance, CountInvariance, PTL

-----------------------------------------------------------------------------
(* Users and their referrers *)

PeopleInv ==
    /\ registered \in SUBSET Users
    /\ referrer \in [Users -> Users \cup {NoOne}]
    /\ referred \in [Users -> Nat]
    /\ linked \in SUBSET (Users \X Users)
    /\ \A u \in registered : referrer[u] \in registered \cup {NoOne}
    /\ ReferralsGrounded
    /\ ReferralsCounted

\* A new user's referrer was there before, which closes no circle, and is
\* counted and linked once at most.
LEMMA RegisterKeeps ==
    ASSUME PeopleInv, NEW u \in Users, NEW r \in Users \cup {NoOne},
           NEW registry \in BOOLEAN, NEW link \in BOOLEAN,
           RegisterUser(u, r, registry, link)
    PROVE  PeopleInv'
  <1> DEFINE R(q) == {x \in registered : referrer[x] = q}
  <1>1. /\ u \notin registered /\ r \in registered \cup {NoOne}
        /\ registry \/ link => r \in registered
        /\ registered' = registered \cup {u}
        /\ referrer' = [referrer EXCEPT ![u] = r]
        /\ referred' = IF registry THEN [referred EXCEPT ![r] = @ + 1]
                       ELSE referred
        /\ linked' = IF link THEN linked \cup {<<r, u>>} ELSE linked
    BY DEF RegisterUser, ValidReferrer
  <1>2. \A x \in registered : referrer'[x] = referrer[x] /\ x # u
    BY <1>1 DEF PeopleInv
  <1>3. referrer'[u] = r /\ r # u
    BY <1>1, Apart DEF PeopleInv
  <1>4. ReferralsGrounded'
    <2> SUFFICES ASSUME NEW S \in SUBSET registered', S # {}
                 PROVE  \E x \in S : referrer'[x] \notin S
      BY DEF ReferralsGrounded
    <2>1. CASE u \notin S
      <3>1. PICK x \in S : referrer[x] \notin S
        BY <1>1, <2>1 DEF PeopleInv, ReferralsGrounded
      <3> QED
        BY <1>1, <1>2, <2>1, <3>1
    <2>2. CASE S = {u}
      BY <1>3, <2>2
    <2>3. CASE u \in S /\ S # {u}
      <3>1. S \ {u} \in SUBSET registered /\ S \ {u} # {}
        BY <1>1, <2>3
      <3>2. PICK x \in S \ {u} : referrer[x] \notin S \ {u}
        BY <3>1 DEF PeopleInv, ReferralsGrounded
      <3>3. referrer[x] # u
        BY <1>1, <3>1, Apart DEF PeopleInv
      <3> QED
        BY <1>2, <3>1, <3>2, <3>3
    <2> QED
      BY <2>1, <2>2, <2>3
  <1>5. ASSUME NEW q \in Users
        PROVE  referred'[q] <= Cardinality({x \in registered' : referrer'[x] = q})
    <2>1. IsFiniteSet(R(q)) /\ u \notin R(q)
      BY <1>1, FiniteAssumption, FS_Subset DEF PeopleInv
    <2>2. Cardinality(R(q)) \in Nat /\ referred[q] <= Cardinality(R(q))
      BY <2>1, FS_CardinalityType DEF PeopleInv, ReferralsCounted
    <2>3. CASE q = r
      <3>1. {x \in registered' : referrer'[x] = q} = R(q) \cup {u}
        BY <1>1, <1>2, <1>3, <2>3
      <3>2. Cardinality(R(q) \cup {u}) = Cardinality(R(q)) + 1
        BY <2>1, FS_AddElement
      <3>3. referred'[q] <= referred[q] + 1
        BY <1>1 DEF PeopleInv
      <3>4. referred[q] \in Nat /\ referred'[q] \in Nat
        BY <1>1 DEF PeopleInv
      <3> HIDE DEF R
      <3> QED
        BY <2>2, <3>1, <3>2, <3>3, <3>4
    <2>4. CASE q # r
      <3>1. {x \in registered' : referrer'[x] = q} = R(q)
        BY <1>1, <1>2, <1>3, <2>4
      <3>2. referred'[q] = referred[q]
        BY <1>1, <2>4 DEF PeopleInv
      <3> QED
        BY <2>2, <3>1, <3>2
    <2> QED
      BY <2>3, <2>4
  <1>6. \A l \in linked' : l[2] \in registered' /\ referrer'[l[2]] = l[1]
    <2>1. \A l \in linked : l[2] \in registered /\ referrer[l[2]] = l[1]
      BY DEF PeopleInv, ReferralsCounted
    <2> QED
      BY <1>1, <1>2, <1>3, <2>1
  <1>7. ReferralsCounted'
    BY <1>5, <1>6 DEF ReferralsCounted
  <1>8. linked' \in SUBSET (Users \X Users)
    BY <1>1 DEF PeopleInv
  <1> QED
    BY <1>1, <1>2, <1>3, <1>4, <1>7, <1>8 DEF PeopleInv

\* Users are only changed by register_user.
LEMMA PeopleInvariance == MarketSpec => []PeopleInv
  <1>1. MarketInit => PeopleInv
    <2> SUFFICES ASSUME MarketInit PROVE PeopleInv
      OBVIOUS
    <2>1. \A q : {x \in registered : referrer[x] = q} = {}
      BY DEF MarketInit
    <2> QED
      BY <2>1, FS_EmptySet
      DEF MarketInit, PeopleInv, ReferralsGrounded, ReferralsCounted
  <1>2. ASSUME PeopleInv, [MarketNext]_marketVars PROVE PeopleInv'
    <2>1. \/ UNCHANGED people
          \/ \E u \in Users, r \in Users \cup {NoOne}, registry, link \in BOOLEAN :
                 RegisterUser(u, r, registry, link)
      BY <1>2 DEF MarketNext, marketVars, BuyAgent, Moderate, IssueMaster,
         IssueAgent, NumberTrade
    <2>2. CASE UNCHANGED people
      BY <1>2, <2>2 DEF PeopleInv, ReferralsGrounded, ReferralsCounted
    <2> QED
      BY <1>2, <2>1, <2>2, RegisterKeeps
  <1> QED
    BY <1>1, <1>2, PTL DEF MarketSpec

\* Referrals never lead round in a circle, whatever the number of users.
THEOREM NoReferralCircle == MarketSpec => []ReferralsGrounded
  <1>1. PeopleInv => ReferralsGrounded
    BY DEF PeopleInv
  <1> QED
    BY <1>1, PeopleInvariance, PTL

\* Registries and links name only users who name their referrer.
THEOREM ReferralsAreReal == MarketSpec => []ReferralsCounted
  <1>1. PeopleInv => ReferralsCounted
    BY DEF PeopleInv
  <1> QED
    BY <1>1, PeopleInvariance, PTL

\* The remaining counters.
TallyInv ==
    /\ now \in Nat
    /\ trade_count \in [Mints -> Nat]
    /\ created_at \in [Mints -> Nat]
    /\ trades \in SUBSET TradeNumbers

\* The accounts of users, agents and master agents keep their types.
THEOREM MarketTypeCorrect == MarketSpec => []MarketTypeOK
  <1>1. MarketSpec => [](now \in Nat)
    <2>1. now \in Epoch .. MaxTime => now \in Nat
      BY ConstantFacts
    <2> QED
      BY <2>1, MarketRefines, Clock, PTL DEF MarketImplementsGovernance
  <1>2. MarketInit /\ now \in Nat => TallyInv
    BY DEF MarketInit, TallyInv
  <1>3. ASSUME TallyInv, (now \in Nat)', [MarketNext]_marketVars PROVE TallyInv'
    <2>1. ASSUME NEW s \in Members, NEW ma \in Mints, NumberTrade(s, ma)
          PROVE  TallyInv'
      BY <1>3, <2>1 DEF NumberTrade, TallyInv
    <2>2. ASSUME NEW u \in Users, NEW m \in Mints, BuyAgent(u, m)
          PROVE  TallyInv'
      BY <1>3, <2>2 DEF BuyAgent, TallyInv
    <2>3. ASSUME NEW s \in Members, NEW m \in Mints, NEW k \in Supplies,
                 IssueMaster(s, m, k)
          PROVE  TallyInv'
      BY <1>3, <2>3 DEF IssueMaster, TallyInv
    <2>4. CASE UNCHANGED tallies
      BY <1>3, <2>4 DEF TallyInv
    <2> QED
      BY <1>3, <2>1, <2>2, <2>3, <2>4
      DEF MarketNext, marketVars, RegisterUser, Moderate, IssueAgent
  <1>4. AssetInv /\ PeopleInv /\ TallyInv => MarketTypeOK
    BY DEF AssetInv, PeopleInv, TallyInv, MarketTypeOK
  <1> QED
    BY <1>1, <1>2, <1>3, <1>4, AssetInvariance, PeopleInvariance, PTL
    DEF MarketSpec
=============================================================================
