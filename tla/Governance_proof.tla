-------------------------- MODULE Governance_proof --------------------------
(***************************************************************************)
(* Proofs about Governance for every set of members, quorum, set of users, *)
(* mints and parameters.                                                   *)
(***************************************************************************)
EXTENDS Governance, FiniteSetTheorems, TLAPS

USE DEF multisig, agents

\* An instruction is recognized by its kind.
LEMMA Kinds ==
    /\ Pause.kind = "pause"
    /\ \A s : Unpause(s).kind = "unpause" /\ Unpause(s).admin = s
    /\ \A c : Config(c).kind = "config"
    /\ \A u : Ban(u).kind = "ban"
    /\ \A s, u, f : Status(s, u, f).kind = "status" /\ Status(s, u, f).admin = s
    /\ \A m, k : MintMaster(m, k).kind = "mint_master" /\ MintMaster(m, k).mint = m
    /\ \A m, ma : Mint(m, ma).kind = "mint"
    /\ \A ma, k : Trade(ma, k).kind = "trade"
  BY DEF Pause, Unpause, Config, Ban, Status, MintMaster, Mint, Trade

\* What the assumptions say of the quorum, the clock and the key bytes.
LEMMA ConstantFacts ==
    /\ Cardinality(Members) \in Nat
    /\ MinSignatures \in Nat \ {0}
    /\ MinSignatures <= Cardinality(Members)
    /\ Epoch \in Nat /\ MaxTime \in Nat /\ Epoch <= MaxTime
    /\ MaxTime + 255 < 1000 * Epoch
    /\ \A s \in Members : KeyByte[s] \in 0 .. 255
  <1>1. Cardinality(Members) \in Nat
    BY FS_CardinalityType, QuorumAssumption
  <1> QED
    BY <1>1, QuorumAssumption, ClockAssumption, HorizonAssumption, KeyByteAssumption

-----------------------------------------------------------------------------
(* Every handler signs one instruction, with a nonce it makes of the clock *)

\* A step is the clock's, a handler's, or no step; what a handler signs.
Handled(s, i, n) ==
    \/ i = Pause /\ n = PauseNonce(s)
    \/ i = Unpause(s) /\ n = UnpauseNonce
    \/ n = now /\ \/ \E c \in Configs : i = Config(c)
                  \/ \E u \in Users : i = Ban(u)
                  \/ \E u \in Users, f \in Flags : i = Status(s, u, f)
                  \/ \E m \in Mints, k \in Supplies :
                         i = MintMaster(m, k) /\ m \in created'
                  \/ \E m \in Mints, ma \in Mints : i = Mint(m, ma)
                  \/ \E ma \in Mints, k \in TradeNumbers : i = Trade(ma, k)

\* Every handler changes the multisig account by one signature: of the
\* instruction it hashes, with the nonce it makes of the clock.
LEMMA HandlersSign ==
    ASSUME Next
    PROVE  \/ Tick
           \/ \E ma \in Mints : RemoveAgent(ma)
           \/ \E s \in Members, i \in Instrs, left \in 0 .. MinSignatures :
                  \E n \in {PauseNonce(s), UnpauseNonce, now} :
                      Handled(s, i, n) /\ Sign(s, i, n, left)
  <1>1. SUFFICES ASSUME NEW s \in Members, ~Tick,
                        ~\E ma \in Mints : RemoveAgent(ma)
                 PROVE  \/ PauseProtocol(s)
                        \/ UnpauseProtocol(s)
                        \/ \E c \in Configs : UpdateProtocolConfig(s, c)
                        \/ \E u \in Users : BanUser(s, u)
                        \/ \E u \in Users, f \in Flags : UpdateStatus(s, u, f)
                        \/ \E m \in Mints, k \in Supplies : MintMasterAgent(s, m, k)
                        \/ \E m \in Mints, ma \in Mints : MintAgent(s, m, ma)
                        \/ \E ma \in Mints, k \in TradeNumbers : OpenTrade(s, ma, k)
                        => \E i \in Instrs, left \in 0 .. MinSignatures :
                             \E n \in {PauseNonce(s), UnpauseNonce, now} :
                                 Handled(s, i, n) /\ Sign(s, i, n, left)
    BY DEF Next
  <1>2. CASE PauseProtocol(s)
    BY <1>2 DEF PauseProtocol, Handled, Instrs
  <1>3. CASE UnpauseProtocol(s)
    <2>1. Unpause(s) \in Instrs /\ Handled(s, Unpause(s), UnpauseNonce)
      BY DEF Handled, Instrs
    <2>2. PICK left \in 0 .. MinSignatures : Sign(s, Unpause(s), UnpauseNonce, left)
      BY <1>3, Zenon DEF UnpauseProtocol
    <2> QED
      BY <2>1, <2>2
  <1>4. ASSUME NEW c \in Configs, UpdateProtocolConfig(s, c)
        PROVE  \E i \in Instrs, left \in 0 .. MinSignatures :
                   Handled(s, i, now) /\ Sign(s, i, now, left)
    BY <1>4 DEF UpdateProtocolConfig, Handled, Instrs
  <1>5. ASSUME NEW u \in Users, BanUser(s, u)
        PROVE  \E i \in Instrs, left \in 0 .. MinSignatures :
                   Handled(s, i, now) /\ Sign(s, i, now, left)
    BY <1>5 DEF BanUser, Handled, Instrs
  <1>6. ASSUME NEW u \in Users, NEW f \in Flags, UpdateStatus(s, u, f)
        PROVE  \E i \in Instrs, left \in 0 .. MinSignatures :
                   Handled(s, i, now) /\ Sign(s, i, now, left)
    BY <1>6 DEF UpdateStatus, Handled, Instrs
  <1>7. ASSUME NEW m \in Mints, NEW k \in Supplies, MintMasterAgent(s, m, k)
        PROVE  \E i \in Instrs, left \in 0 .. MinSignatures :
                   Handled(s, i, now) /\ Sign(s, i, now, left)
    BY <1>7 DEF MintMasterAgent, Create, Handled, Instrs
  <1>8. ASSUME NEW m \in Mints, NEW ma \in Mints, MintAgent(s, m, ma)
        PROVE  \E i \in Instrs, left \in 0 .. MinSignatures :
                   Handled(s, i, now) /\ Sign(s, i, now, left)
    BY <1>8 DEF MintAgent, Handled, Instrs
  <1>9. ASSUME NEW ma \in Mints, NEW k \in TradeNumbers, OpenTrade(s, ma, k)
        PROVE  \E i \in Instrs, left \in 0 .. MinSignatures :
                   Handled(s, i, now) /\ Sign(s, i, now, left)
    BY <1>9 DEF OpenTrade, Handled, Instrs
  <1> QED
    BY <1>2, <1>3, <1>4, <1>5, <1>6, <1>7, <1>8, <1>9

-----------------------------------------------------------------------------
(* Governance is a multisig *)

\* The clock stays within its bounds, so that every nonce is one of Nonces.
LEMMA NonceIsOne ==
    ASSUME now \in Epoch .. MaxTime, NEW s \in Members
    PROVE  {PauseNonce(s), UnpauseNonce, now} \subseteq Nonces
  BY DEF PauseNonce, UnpauseNonce, Nonces

\* The clock is moved by Tick alone, up to its bound.
LEMMA ClockStep ==
    ASSUME now \in Epoch .. MaxTime, [Next]_vars
    PROVE  (now \in Epoch .. MaxTime)'
  <1>1. CASE Tick
    BY <1>1, ConstantFacts DEF Tick, MS!Tick
  <1>2. CASE Next /\ ~Tick
    BY <1>2, HandlersSign DEF RemoveAgent, Sign, MS!SignMultisig
  <1>3. CASE UNCHANGED vars
    BY <1>3 DEF vars
  <1> QED
    BY <1>1, <1>2, <1>3

\* The clock stays between its first value and its bound.
LEMMA Clock == Spec => [](now \in Epoch .. MaxTime)
  <1>1. Init => now \in Epoch .. MaxTime
    BY ConstantFacts DEF Init, MS!Init
  <1> QED
    BY <1>1, ClockStep, PTL DEF Spec

\* What a step does to the multisig account is a step of Multisig.
LEMMA StepIsMultisig ==
    ASSUME now \in Epoch .. MaxTime, [Next]_vars
    PROVE  [MS!Next]_MS!vars
  <1>1. CASE Tick
    BY <1>1 DEF Tick, MS!Next
  <1>2. CASE Next /\ ~Tick
    <2>1. ASSUME NEW ma \in Mints, RemoveAgent(ma) PROVE UNCHANGED MS!vars
      BY <2>1 DEF RemoveAgent, multisig, MS!vars, MS!account, MS!history
    <2> QED
      BY <1>2, <2>1, HandlersSign, NonceIsOne DEF Sign, MS!Next
  <1>3. CASE UNCHANGED vars
    BY <1>3 DEF vars, MS!vars, MS!account, MS!history
  <1> QED
    BY <1>1, <1>2, <1>3

\* The handlers, with their hashes, nonces and effects, implement Multisig.
THEOREM GovernanceImplementsMultisig == Spec => GovernanceIsMultisig
  <1>1. Init => MS!Init
    BY DEF Init
  <1> QED
    BY <1>1, Clock, StepIsMultisig, PTL DEF Spec, GovernanceIsMultisig, MS!Spec

-----------------------------------------------------------------------------
(* What no quorum of two or more ever completes *)

\* The signatures as the multisig keeps them: an empty bitmap has no count.
BitmapInv ==
    /\ signed \in SUBSET Members
    /\ signed = {} => num_signed = 0

\* The collections that cannot grow: those whose hash holds the signer, and
\* those whose accounts exist already.
StuckInv ==
    /\ \A s \in Members : instr = Unpause(s) => signed \subseteq {s}
    /\ \A s \in Members, u \in Users, f \in Flags :
           instr = Status(s, u, f) => signed \subseteq {s}
    /\ \A m \in Mints, k \in Supplies : instr = MintMaster(m, k) => m \in created

\* A signature under a quorum of two or more: it starts a collection of its
\* own, or it joins the one there is; alone, it completes nothing.
LEMMA SignFacts ==
    ASSUME MinSignatures > 1, BitmapInv,
           NEW s \in Members, NEW i \in Instrs, NEW n,
           NEW left \in 0 .. MinSignatures, Sign(s, i, n, left)
    PROVE  /\ instr' = i
           /\ BitmapInv'
           /\ s \in signed'
           /\ signed' \subseteq signed \cup {s}
           /\ i # instr => signed' = {s} /\ left > 0
           /\ i = instr /\ signed \subseteq {s} => left > 0 /\ signed' = {s}
  <1>1. Cardinality(Members) > 1
    BY ConstantFacts
  <1>2. MS!Cardinality(Members) = Cardinality(Members)
    BY DEF MS!Cardinality, Cardinality
  <1>3. ~MS!SingleSigner(s, i, n, left)
    <2>1. ~(Cardinality(Members) <= 1)
      BY <1>1, ConstantFacts
    <2> QED
      BY <1>2, <2>1, Zenon DEF MS!SingleSigner
  <1>4. CASE MS!NewInstruction(s, i, n, left)
    BY <1>4, ConstantFacts DEF MS!NewInstruction, BitmapInv
  <1>5. CASE MS!AddSignature(s, i, n, left)
    <2>1. MS!LiveSigned \subseteq signed
      BY DEF MS!LiveSigned
    <2>2. MS!LiveSigned = {} => MS!LiveCount = 0
      BY DEF MS!LiveSigned, MS!LiveCount, BitmapInv
    <2>3. signed \subseteq {s} => MS!LiveSigned = {}
      BY <1>5, <2>1 DEF MS!AddSignature
    <2> QED
      BY <1>5, <2>1, <2>2, <2>3, ConstantFacts DEF MS!AddSignature, BitmapInv
  <1> QED
    BY <1>3, <1>4, <1>5 DEF Sign, MS!SignMultisig

\* A stuck collection is stuck for good, until it is replaced.
LEMMA StuckStep ==
    ASSUME MinSignatures > 1, BitmapInv, StuckInv, [Next]_vars
    PROVE  BitmapInv' /\ StuckInv'
  <1>1. CASE Tick
    BY <1>1 DEF Tick, MS!Tick, MS!account, BitmapInv, StuckInv
  <1>2. CASE UNCHANGED vars
    BY <1>2 DEF vars, BitmapInv, StuckInv
  <1>4. ASSUME NEW ma \in Mints, RemoveAgent(ma) PROVE BitmapInv' /\ StuckInv'
    BY <1>4 DEF RemoveAgent, multisig, BitmapInv, StuckInv
  <1>3. CASE Next /\ ~Tick /\ ~\E ma \in Mints : RemoveAgent(ma)
    <2>1. PICK s \in Members, i \in Instrs, left \in 0 .. MinSignatures :
              \E n \in {PauseNonce(s), UnpauseNonce, now} :
                  Handled(s, i, n) /\ Sign(s, i, n, left)
      BY <1>3, HandlersSign
    <2>2. /\ instr' = i /\ BitmapInv'
          /\ i # instr => signed' = {s}
          /\ signed' \subseteq signed \cup {s}
      BY <2>1, SignFacts
    <2>3. ASSUME NEW r \in Members, i = Unpause(r) PROVE s = r
      BY <2>1, <2>3, Kinds DEF Handled
    <2>4. ASSUME NEW r \in Members, NEW u \in Users, NEW f \in Flags,
                 i = Status(r, u, f)
          PROVE  s = r
      BY <2>1, <2>4, Kinds DEF Handled
    <2>5. ASSUME NEW m \in Mints, NEW k \in Supplies, i = MintMaster(m, k)
          PROVE  m \in created'
      BY <2>1, <2>5, Kinds DEF Handled
    <2> QED
      BY <2>2, <2>3, <2>4, <2>5 DEF StuckInv
  <1> QED
    BY <1>1, <1>2, <1>3, <1>4

-----------------------------------------------------------------------------
(* The accounts the handlers change *)

EffectInv ==
    /\ t_yield \in TYield
    /\ status \in [Users -> SUBSET Flags]
    /\ created \in SUBSET Mints
    /\ max_supply \in [Mints -> Nat]
    /\ agent_count \in [Mints -> Nat]

\* An executed update keeps the pause and the types of the fields.
LEMMA ConfigFacts ==
    ASSUME t_yield \in TYield, now \in Epoch .. MaxTime,
           NEW c \in Configs, ApplyConfig(c)
    PROVE  t_yield' \in TYield /\ t_yield'.paused = t_yield.paused
  <1> DEFINE buy == Chosen(c.buy_tax, t_yield.buy_tax)
             sell == Chosen(c.sell_tax, t_yield.sell_tax)
             max == Chosen(c.max_tax_percentage, t_yield.max_tax_percentage)
             perms == (t_yield.permissions \cup c.allow) \ c.forbid
             count == t_yield.daily_update_count + 1
  <1>1. /\ c.buy_tax \in Nat \cup {Keep} /\ c.sell_tax \in Nat \cup {Keep}
        /\ c.max_tax_percentage \in Nat \cup {Keep}
        /\ c.allow \in SUBSET Permissions /\ c.forbid \in SUBSET Permissions
    BY ConfigAssumption
  <1>2. /\ t_yield.buy_tax \in Nat /\ t_yield.sell_tax \in Nat
        /\ t_yield.max_tax_percentage \in Nat
        /\ t_yield.permissions \in SUBSET Permissions
        /\ t_yield.daily_update_count \in Nat /\ t_yield.paused \in BOOLEAN
    BY DEF TYield
  <1>3. buy \in Nat /\ sell \in Nat /\ max \in Nat
    BY <1>1, <1>2 DEF Chosen
  <1>4. perms \in SUBSET Permissions /\ count \in Nat /\ now \in Int
    BY <1>1, <1>2, ConstantFacts
  <1>5. t_yield' = [t_yield EXCEPT !.buy_tax = buy, !.sell_tax = sell,
                        !.max_tax_percentage = max, !.permissions = perms,
                        !.last_update_time = now, !.daily_update_count = count]
    BY DEF ApplyConfig
  <1> HIDE DEF buy, sell, max, perms, count
  <1> QED
    BY <1>2, <1>3, <1>4, <1>5 DEF TYield

\* Every handler keeps the types of the accounts it changes.
LEMMA EffectStep ==
    ASSUME EffectInv, now \in Epoch .. MaxTime, [Next]_vars
    PROVE  EffectInv'
  <1> USE DEF EffectInv
  <1>1. CASE Tick
    BY <1>1 DEF Tick
  <1>2. ASSUME NEW s \in Members, PauseProtocol(s) PROVE EffectInv'
    <2>1. \E p \in BOOLEAN : t_yield' = [t_yield EXCEPT !.paused = p]
      BY <1>2, Zenon DEF PauseProtocol
    <2> QED
      BY <1>2, <2>1 DEF PauseProtocol, TYield
  <1>3. ASSUME NEW s \in Members, UnpauseProtocol(s) PROVE EffectInv'
    <2>1. \E p \in BOOLEAN : t_yield' = [t_yield EXCEPT !.paused = p]
      BY <1>3, Zenon DEF UnpauseProtocol
    <2> QED
      BY <1>3, <2>1 DEF UnpauseProtocol, TYield
  <1>4. ASSUME NEW s \in Members, NEW c \in Configs, UpdateProtocolConfig(s, c)
        PROVE  EffectInv'
    <2>1. UNCHANGED t_yield \/ ApplyConfig(c)
      BY <1>4 DEF UpdateProtocolConfig
    <2> QED
      BY <1>4, <2>1, ConfigFacts DEF UpdateProtocolConfig
  <1>5. ASSUME NEW s \in Members, NEW u \in Users, BanUser(s, u)
        PROVE  EffectInv'
    BY <1>5 DEF BanUser, ApplyBan, Flags
  <1>6. ASSUME NEW s \in Members, NEW u \in Users, NEW f \in Flags,
               UpdateStatus(s, u, f)
        PROVE  EffectInv'
    BY <1>6 DEF UpdateStatus, AddUserStatus
  <1>7. ASSUME NEW s \in Members, NEW m \in Mints, NEW k \in Supplies,
               MintMasterAgent(s, m, k)
        PROVE  EffectInv'
    BY <1>7, SupplyAssumption DEF MintMasterAgent, Create, ApplyMintMaster
  <1>8. ASSUME NEW s \in Members, NEW m \in Mints, NEW ma \in Mints,
               MintAgent(s, m, ma)
        PROVE  EffectInv'
    BY <1>8 DEF MintAgent, Create, ApplyMint
  <1>9. CASE UNCHANGED vars
    BY <1>9 DEF vars
  <1>10. ASSUME NEW s \in Members, NEW ma \in Mints, NEW k \in TradeNumbers,
                OpenTrade(s, ma, k)
         PROVE  EffectInv'
    BY <1>10 DEF OpenTrade
  <1>11. ASSUME NEW ma \in Mints, RemoveAgent(ma) PROVE EffectInv'
    BY <1>11 DEF RemoveAgent
  <1> QED
    BY <1>1, <1>2, <1>3, <1>4, <1>5, <1>6, <1>7, <1>8, <1>9, <1>10, <1>11
    DEF Next

\* A quorum of two or more: the invariant behind what it never completes.
QuorumInv ==
    /\ BitmapInv
    /\ StuckInv
    /\ EffectInv
    /\ now \in Epoch .. MaxTime
    /\ NamelessNeverBanned
    /\ NothingMintedUnderQuorum

\* What signs alone executes nothing.
LEMMA NothingLeft ==
    ASSUME MinSignatures > 1, BitmapInv, StuckInv, NEW s \in Members,
           NEW i \in Instrs, NEW n, NEW left \in 0 .. MinSignatures,
           Sign(s, i, n, left)
    PROVE  /\ i = Unpause(s) => left > 0
           /\ \A u \in Users, f \in Flags : i = Status(s, u, f) => left > 0
           /\ \A m \in Mints, k \in Supplies :
                  i = MintMaster(m, k) /\ m \notin created => left > 0
  BY SignFacts DEF StuckInv

\* init leaves no collection, no ban and nothing minted.
LEMMA QuorumInit == Init /\ MinSignatures > 1 => QuorumInv
  <1> SUFFICES ASSUME Init, MinSignatures > 1 PROVE QuorumInv
    OBVIOUS
  <1>1. EffectInv
    <2>1. PICK p \in BOOLEAN : t_yield = [InitialConfig EXCEPT !.paused = p]
      BY DEF Init
    <2> QED
      BY <2>1, ConfigAssumption DEF Init, EffectInv, TYield, Flags
  <1>2. NoInstr \notin Instrs /\ instr = NoInstr /\ signed = {} /\ num_signed = 0
    BY InstrAssumption DEF Init, MS!Init
  <1>3. StuckInv
    BY <1>2 DEF StuckInv, Instrs
  <1>4. now \in Epoch .. MaxTime
    BY ConstantFacts DEF Init, MS!Init
  <1> QED
    BY <1>1, <1>2, <1>3, <1>4, NamelessAssumption DEF Init, QuorumInv, BitmapInv,
       NamelessNeverBanned, NothingMintedUnderQuorum

\* Under a quorum of two or more no step unpauses the protocol.
LEMMA PauseStep ==
    ASSUME QuorumInv, MinSignatures > 1, [Next]_vars, t_yield.paused
    PROVE  t_yield'.paused
  <1> USE DEF QuorumInv, EffectInv
  <1>1. ASSUME NEW s \in Members, UnpauseProtocol(s) PROVE t_yield'.paused
    <2>1. PICK left \in 0 .. MinSignatures :
              /\ Sign(s, Unpause(s), UnpauseNonce, left)
              /\ t_yield' = [t_yield EXCEPT !.paused = left # 0]
      BY <1>1, Zenon DEF UnpauseProtocol
    <2>2. Unpause(s) \in Instrs
      BY DEF Instrs
    <2>3. (left # 0) = TRUE
      BY <2>1, <2>2, NothingLeft
    <2>4. t_yield' = [t_yield EXCEPT !.paused = TRUE]
      BY <2>1, <2>3, Zenon
    <2> QED
      BY <2>4 DEF TYield
  <1>2. ASSUME NEW s \in Members, NEW c \in Configs, UpdateProtocolConfig(s, c)
        PROVE  t_yield'.paused
    <2>1. UNCHANGED t_yield \/ ApplyConfig(c)
      BY <1>2 DEF UpdateProtocolConfig
    <2> QED
      BY <2>1, ConfigFacts
  <1>3. CASE UNCHANGED t_yield
    BY <1>3
  <1> QED
    BY <1>1, <1>2, <1>3 DEF Next, Tick, PauseProtocol, BanUser, UpdateStatus,
       MintMasterAgent, MintAgent, OpenTrade,
       RemoveAgent, vars

\* Under such a quorum no step bans a user without a name.
LEMMA NamelessStep ==
    ASSUME QuorumInv, MinSignatures > 1, [Next]_vars
    PROVE  NamelessNeverBanned'
  <1> USE DEF QuorumInv, EffectInv
  <1> USE NamelessAssumption
  <1>1. ASSUME NEW s \in Members, NEW u \in Users, BanUser(s, u)
        PROVE  NamelessNeverBanned'
    <2>1. UNCHANGED status \/ ApplyBan(u)
      BY <1>1 DEF BanUser
    <2> QED
      BY <2>1 DEF ApplyBan, ValidUser, NamelessNeverBanned
  <1>2. ASSUME NEW s \in Members, NEW u \in Users, NEW f \in Flags,
               UpdateStatus(s, u, f)
        PROVE  NamelessNeverBanned'
    <2>1. Status(s, u, f) \in Instrs
      BY DEF Instrs
    <2>2. UNCHANGED status
      BY <1>2, <2>1, NothingLeft DEF UpdateStatus
    <2> QED
      BY <2>2 DEF NamelessNeverBanned
  <1>3. CASE UNCHANGED status
    BY <1>3 DEF NamelessNeverBanned
  <1> QED
    BY <1>1, <1>2, <1>3 DEF Next, Tick, PauseProtocol, UnpauseProtocol,
       UpdateProtocolConfig, MintMasterAgent, MintAgent, OpenTrade,
       RemoveAgent, vars

\* Under such a quorum no step mints a master agent or an agent.
LEMMA NothingMintedStep ==
    ASSUME QuorumInv, MinSignatures > 1, [Next]_vars
    PROVE  NothingMintedUnderQuorum'
  <1> USE DEF QuorumInv
  <1>1. ASSUME NEW s \in Members, NEW m \in Mints, NEW k \in Supplies,
               MintMasterAgent(s, m, k)
        PROVE  UNCHANGED agents
    <2>1. MintMaster(m, k) \in Instrs /\ m \notin created
      BY <1>1 DEF Instrs, MintMasterAgent, Create
    <2> QED
      BY <1>1, <2>1, NothingLeft DEF MintMasterAgent
  <1>2. ASSUME NEW s \in Members, NEW m \in Mints, NEW ma \in Mints,
               MintAgent(s, m, ma)
        PROVE  FALSE
    BY <1>2 DEF MintAgent, NothingMintedUnderQuorum
  <1>4. ASSUME NEW ma \in Mints, RemoveAgent(ma) PROVE FALSE
    BY <1>4 DEF RemoveAgent, NothingMintedUnderQuorum
  <1>3. UNCHANGED agents
    BY <1>1, <1>2, <1>4 DEF Next, Tick, PauseProtocol, UnpauseProtocol,
       UpdateProtocolConfig, BanUser, UpdateStatus, OpenTrade, vars
  <1> QED
    BY <1>3 DEF NothingMintedUnderQuorum

\* The invariant of such a quorum is inductive.
LEMMA QuorumStep ==
    ASSUME QuorumInv, MinSignatures > 1, [Next]_vars
    PROVE  QuorumInv'
  BY StuckStep, EffectStep, ClockStep, NamelessStep, NothingMintedStep
  DEF QuorumInv

\* The invariant of such a quorum holds in every reachable state.
LEMMA QuorumInvariance == Spec => [](MinSignatures > 1 => QuorumInv)
  <1>1. Init => (MinSignatures > 1 => QuorumInv)
    BY QuorumInit
  <1>2. (MinSignatures > 1 => QuorumInv) /\ [Next]_vars
            => (MinSignatures > 1 => QuorumInv)'
    BY QuorumStep
  <1> QED
    BY <1>1, <1>2, PTL DEF Spec

\* Two admins never sign the same unpause: with a quorum of two or more a
\* paused protocol stays paused.
THEOREM PausedForGood == Spec => PauseIsFinal
  <1>1. (MinSignatures > 1 => QuorumInv) /\ [Next]_vars
            => [MinSignatures > 1 /\ t_yield.paused => t_yield'.paused]_vars
    BY PauseStep
  <1> QED
    BY <1>1, QuorumInvariance, PTL DEF Spec, PauseIsFinal

\* With such a quorum a user without a name cannot be banned: ban_user fails
\* for it, and no update of its status is ever complete.
THEOREM NamelessUnbanned == Spec => []NamelessNeverBanned
  <1>1. (MinSignatures > 1 => QuorumInv) => NamelessNeverBanned
    BY DEF QuorumInv, NamelessNeverBanned
  <1> QED
    BY <1>1, QuorumInvariance, PTL

\* With such a quorum no master agent and no agent is ever issued.
THEOREM NothingMinted == Spec => []NothingMintedUnderQuorum
  <1>1. (MinSignatures > 1 => QuorumInv) => NothingMintedUnderQuorum
    BY DEF QuorumInv, NothingMintedUnderQuorum
  <1> QED
    BY <1>1, QuorumInvariance, PTL

-----------------------------------------------------------------------------
(* Bans, and the nonce of an unpause, whatever the quorum *)

\* No user is both banned and active.
BanInv == \A u \in Users : "Banned" \in status[u] => "Active" \notin status[u]

\* No step activates or unbans a user that is banned.
LEMMA BanStep ==
    ASSUME EffectInv, BanInv, [Next]_vars
    PROVE  /\ BanInv'
           /\ \A u \in Users : "Banned" \in status[u] => "Banned" \in status'[u]
  <1> DEFINE Goal == /\ BanInv'
                     /\ \A u \in Users : "Banned" \in status[u]
                                            => "Banned" \in status'[u]
  <1> USE DEF EffectInv, BanInv
  <1>1. CASE UNCHANGED status
    BY <1>1
  <1>2. ASSUME NEW s \in Members, NEW u \in Users, BanUser(s, u) PROVE Goal
    <2>1. UNCHANGED status \/ ApplyBan(u)
      BY <1>2 DEF BanUser
    <2> QED
      BY <1>1, <2>1 DEF ApplyBan
  <1>3. ASSUME NEW s \in Members, NEW u \in Users, NEW f \in Flags,
               UpdateStatus(s, u, f)
        PROVE  Goal
    <2>1. UNCHANGED status \/ AddUserStatus(u, f)
      BY <1>3 DEF UpdateStatus
    <2>2. CASE AddUserStatus(u, f)
      BY <2>2 DEF AddUserStatus, Flags
    <2> QED
      BY <1>1, <2>1, <2>2
  <1> QED
    BY <1>1, <1>2, <1>3 DEF Next, Tick, PauseProtocol, UnpauseProtocol,
       UpdateProtocolConfig, MintMasterAgent, MintAgent, OpenTrade,
       RemoveAgent, vars

\* The types of the changed accounts and the ban of a user are invariant.
LEMMA EffectInvariance == Spec => [](now \in Epoch .. MaxTime /\ EffectInv /\ BanInv)
  <1>1. Init => EffectInv /\ BanInv
    <2> SUFFICES ASSUME Init PROVE EffectInv /\ BanInv
      OBVIOUS
    <2>1. PICK p \in BOOLEAN : t_yield = [InitialConfig EXCEPT !.paused = p]
      BY DEF Init
    <2> QED
      BY <2>1, ConfigAssumption DEF Init, EffectInv, BanInv, TYield, Flags
  <1>2. now \in Epoch .. MaxTime /\ EffectInv /\ BanInv /\ [Next]_vars
            => (EffectInv /\ BanInv)'
    BY EffectStep, BanStep
  <1> QED
    BY <1>1, <1>2, Clock, PTL DEF Spec

\* No instruction ever lifts a ban or activates a banned user.
THEOREM BanForGood == Spec => BanIsFinal
  <1>1. EffectInv /\ BanInv /\ [Next]_vars
            => [\A u \in Users : "Banned" \in status[u] =>
                   "Banned" \in status'[u] /\ "Active" \notin status'[u]]_vars
    BY BanStep DEF BanInv
  <1> QED
    BY <1>1, EffectInvariance, PTL DEF Spec, BanIsFinal

\* The history of signatures: a member's last one is one of the stamps.
HistoryInv ==
    /\ now \in Epoch .. MaxTime
    /\ nonce \in Nat
    /\ stamps \in Seq(Nat)
    /\ turn \in [Members -> Nat]
    /\ \A m \in Members : turn[m] <= Len(stamps)
    /\ ballot \in [Members -> Instrs \cup {NoInstr}]

\* The nonces are numbers; but for an unpause's they are close to the clock.
LEMMA NonceFacts ==
    ASSUME now \in Epoch .. MaxTime, NEW s \in Members
    PROVE  /\ {PauseNonce(s), UnpauseNonce, now} \subseteq Nat
           /\ now < 1000 * Epoch
           /\ PauseNonce(s) < 1000 * Epoch
  <1>1. now \in Nat /\ now <= MaxTime /\ KeyByte[s] \in 0 .. 255
    BY ConstantFacts
  <1>2. UnpauseNonce \in Nat
    BY <1>1 DEF UnpauseNonce, MilliNonce
  <1> QED
    BY <1>1, <1>2, ConstantFacts DEF PauseNonce

\* A signature keeps the types of the nonce and of who signed what.
LEMMA HistorySign ==
    ASSUME HistoryInv, NEW s \in Members, NEW i \in Instrs, NEW n \in Nat,
           NEW left \in 0 .. MinSignatures, Sign(s, i, n, left)
    PROVE  /\ HistoryInv'
           /\ turn'[s] # turn[s]
           /\ ballot'[s] = i
  <1>1. nonce' \in Nat
    BY DEF HistoryInv, Sign, MS!SignMultisig, MS!SingleSigner,
       MS!NewInstruction, MS!AddSignature
  <1> QED
    BY <1>1, ConstantFacts DEF HistoryInv, Sign, MS!SignMultisig

\* The types of the nonce and of who signed what are invariant.
LEMMA HistoryInvariance == Spec => []HistoryInv
  <1>1. Init => HistoryInv
    BY ConstantFacts DEF Init, MS!Init, HistoryInv
  <1>2. ASSUME HistoryInv, [Next]_vars PROVE HistoryInv'
    <2>1. CASE Tick
      BY <1>2, <2>1, ConstantFacts
      DEF Tick, MS!Tick, MS!account, MS!history, HistoryInv
    <2>4. ASSUME NEW ma \in Mints, RemoveAgent(ma) PROVE HistoryInv'
      BY <1>2, <2>4 DEF RemoveAgent, multisig, HistoryInv
    <2>2. CASE Next /\ ~Tick /\ ~\E ma \in Mints : RemoveAgent(ma)
      <3>1. PICK s \in Members, i \in Instrs, left \in 0 .. MinSignatures :
                \E n \in {PauseNonce(s), UnpauseNonce, now} : Sign(s, i, n, left)
        BY <2>2, HandlersSign
      <3> QED
        BY <1>2, <3>1, NonceFacts, HistorySign DEF HistoryInv
    <2>3. CASE UNCHANGED vars
      BY <1>2, <2>3 DEF vars, HistoryInv
    <2> QED
      BY <1>2, <2>1, <2>2, <2>3, <2>4
  <1> QED
    BY <1>1, <1>2, PTL DEF Spec

\* Clocks, even with the byte of a key added, stay below the nonce that an
\* unpause makes of a clock.
LEMMA OnlyUnpauseSigns ==
    ASSUME HistoryInv, Next, nonce >= 1000 * Epoch, stamps' # stamps
    PROVE  \E s \in Members : turn'[s] # turn[s] /\ ballot'[s] = Unpause(s)
  <1>1. ~Tick /\ ~\E ma \in Mints : RemoveAgent(ma)
    BY DEF Tick, MS!Tick, MS!history, RemoveAgent, multisig
  <1>2. PICK s \in Members, i \in Instrs, left \in 0 .. MinSignatures :
            \E n \in {PauseNonce(s), UnpauseNonce, now} :
                Handled(s, i, n) /\ Sign(s, i, n, left)
    BY <1>1, HandlersSign
  <1>3. PICK n \in {PauseNonce(s), UnpauseNonce, now} :
            Handled(s, i, n) /\ Sign(s, i, n, left)
    BY <1>2
  <1>4. n > nonce
    BY <1>3 DEF Sign, MS!SignMultisig, MS!FreshNonce
  <1>5. n # now /\ n # PauseNonce(s)
    BY <1>4, NonceFacts, ConstantFacts DEF HistoryInv
  <1>6. i = Unpause(s)
    BY <1>3, <1>5 DEF Handled
  <1>7. turn'[s] # turn[s] /\ ballot'[s] = i
    BY <1>3, NonceFacts, HistorySign DEF HistoryInv
  <1> QED
    BY <1>6, <1>7

\* Once an unpause is stored no other instruction is ever accepted again.
THEOREM UnpauseLocksTheRest == Spec => OnlyUnpauseAfterUnpause
  <1>1. HistoryInv /\ [Next]_vars
            => [nonce >= 1000 * Epoch /\ stamps' # stamps =>
                   \E s \in Members :
                       turn'[s] # turn[s] /\ ballot'[s] = Unpause(s)]_vars
    BY OnlyUnpauseSigns DEF vars
  <1> QED
    BY <1>1, HistoryInvariance, PTL DEF Spec, OnlyUnpauseAfterUnpause

-----------------------------------------------------------------------------
(* What is proved of Multisig, for the multisig account of Governance *)

MP == INSTANCE Multisig_proof

\* Every nonce a handler passes is a natural number.
LEMMA NoncesAreNumbers == Nonces \subseteq Nat
  <1>1. \A t \in Epoch .. MaxTime : MilliNonce(t) \in Nat
    BY ConstantFacts DEF MilliNonce
  <1> QED
    BY <1>1, ConstantFacts DEF Nonces

\* The assumptions of Multisig are those of Governance.
LEMMA MultisigAssumptions ==
    /\ MP!QuorumAssumption /\ MP!InstrAssumption /\ MP!NonceAssumption
    /\ MP!LimitAssumption /\ MP!ClockAssumption
  BY QuorumAssumption, InstrAssumption, LimitAssumption, ClockAssumption,
     NoncesAreNumbers
  DEF MP!QuorumAssumption, MP!InstrAssumption, MP!NonceAssumption,
      MP!LimitAssumption, MP!ClockAssumption, MP!IsFiniteSet, MP!Cardinality,
      IsFiniteSet, Cardinality

\* The instance the proofs are about is the instance Governance calls.
LEMMA SameSignature ==
    ASSUME NEW s, NEW i, NEW n, NEW left, MS!SignMultisig(s, i, n, left)
    PROVE  MP!SignMultisig(s, i, n, left)
  <1>1. MS!Cardinality(Members) = MP!Cardinality(Members)
    BY DEF MS!Cardinality, MP!Cardinality
  <1>2. /\ MS!Deadline = MP!Deadline /\ MS!CountAfter = MP!CountAfter
        /\ MS!RateLimited <=> MP!RateLimited
        /\ MS!LiveSigned = MP!LiveSigned /\ MS!LiveCount = MP!LiveCount
    BY DEF MS!Deadline, MP!Deadline, MS!CountAfter, MP!CountAfter,
       MS!RateLimited, MP!RateLimited, MS!LiveSigned, MP!LiveSigned,
       MS!LiveCount, MP!LiveCount, MS!Expired, MP!Expired
  <1>3. MS!FreshNonce(n) <=> MP!FreshNonce(n)
    BY DEF MS!FreshNonce, MP!FreshNonce
  <1>4. MS!SingleSigner(s, i, n, left) => MP!SingleSigner(s, i, n, left)
    BY <1>1, <1>2, Zenon DEF MS!SingleSigner, MP!SingleSigner
  <1>5. MS!NewInstruction(s, i, n, left) => MP!NewInstruction(s, i, n, left)
    BY <1>1, Zenon DEF MS!NewInstruction, MP!NewInstruction
  <1>6. MS!AddSignature(s, i, n, left) => MP!AddSignature(s, i, n, left)
    BY <1>1, <1>2, Zenon DEF MS!AddSignature, MP!AddSignature
  <1> QED
    BY <1>2, <1>3, <1>4, <1>5, <1>6 DEF MS!SignMultisig, MP!SignMultisig

\* Both instances of Multisig start and step alike.
LEMMA SameMultisig ==
    /\ MS!Init => MP!Init
    /\ [MS!Next]_MS!vars => [MP!Next]_MP!vars
  <1>1. MS!Init => MP!Init
    BY DEF MS!Init, MP!Init
  <1>2. /\ UNCHANGED MS!vars => UNCHANGED MP!vars
        /\ MS!Tick => MP!Tick
    BY DEF MS!vars, MP!vars, MS!account, MP!account, MS!history, MP!history,
       MS!Tick, MP!Tick
  <1>3. MS!Next => MP!Next
    BY <1>2, SameSignature DEF MS!Next, MP!Next
  <1> QED
    BY <1>1, <1>2, <1>3

\* The inductive invariant of Multisig holds of the account here.
LEMMA MultisigInvariance == Spec => []MP!IInv
  BY GovernanceImplementsMultisig, SameMultisig, MultisigAssumptions,
     MP!Invariance, PTL DEF GovernanceIsMultisig, MS!Spec, MP!Spec

\* The types of the accounts and of the history.
THEOREM TypeCorrect == Spec => []TypeOK
  <1>1. MP!IInv => MS!TypeOK
    BY DEF MP!IInv, MP!ApiInv, MP!TypeOK, MS!TypeOK
  <1>2. MP!IInv /\ EffectInv /\ HistoryInv /\ updates \in Seq(Nat) => TypeOK
    BY <1>1 DEF TypeOK, EffectInv, HistoryInv
  <1>3. Init => updates \in Seq(Nat)
    BY DEF Init
  <1>4. ASSUME updates \in Seq(Nat), now \in Epoch .. MaxTime, [Next]_vars
        PROVE  (updates \in Seq(Nat))'
    <2>1. UNCHANGED updates \/ updates' = Append(updates, now)
      BY <1>4 DEF Next, Tick, PauseProtocol, UnpauseProtocol, BanUser,
         UpdateProtocolConfig, ApplyConfig, UpdateStatus, MintMasterAgent,
         OpenTrade, MintAgent, RemoveAgent, vars
    <2> QED
      BY <1>4, <2>1, ConstantFacts
  <1> QED
    BY <1>2, <1>3, <1>4, Clock, MultisigInvariance, EffectInvariance,
       HistoryInvariance, PTL DEF Spec

-----------------------------------------------------------------------------
(* Updates of the configuration keep their interval and their number *)

\* The protocol account remembers the number of updates and the last of them.
UpdatesInv ==
    /\ updates \in Seq(Nat)
    /\ t_yield.daily_update_count = InitialConfig.daily_update_count + Len(updates)
    /\ updates # <<>> => t_yield.last_update_time = updates[Len(updates)]
    /\ UpdatesLimited

\* Nothing but an update of the configuration touches what the limit reads.
LEMMA OnlyConfigUpdates ==
    ASSUME t_yield \in TYield, [Next]_vars
    PROVE  \/ \E c \in Configs : ApplyConfig(c)
           \/ /\ UNCHANGED updates
              /\ t_yield'.daily_update_count = t_yield.daily_update_count
              /\ t_yield'.last_update_time = t_yield.last_update_time
  <1> DEFINE Kept == /\ UNCHANGED updates
                     /\ t_yield'.daily_update_count = t_yield.daily_update_count
                     /\ t_yield'.last_update_time = t_yield.last_update_time
  <1>1. ASSUME NEW s \in Members, PauseProtocol(s) PROVE Kept
    <2>1. \E p \in BOOLEAN : t_yield' = [t_yield EXCEPT !.paused = p]
      BY <1>1, Zenon DEF PauseProtocol
    <2> QED
      BY <1>1, <2>1 DEF PauseProtocol, TYield
  <1>2. ASSUME NEW s \in Members, UnpauseProtocol(s) PROVE Kept
    <2>1. \E p \in BOOLEAN : t_yield' = [t_yield EXCEPT !.paused = p]
      BY <1>2, Zenon DEF UnpauseProtocol
    <2> QED
      BY <1>2, <2>1 DEF UnpauseProtocol, TYield
  <1>3. ASSUME NEW s \in Members, NEW c \in Configs, UpdateProtocolConfig(s, c)
        PROVE  Kept \/ ApplyConfig(c)
    BY <1>3 DEF UpdateProtocolConfig
  <1>4. ASSUME UNCHANGED <<t_yield, updates>> PROVE Kept
    BY <1>4
  <1> HIDE DEF Kept
  <1>5. Kept \/ \E c \in Configs : ApplyConfig(c)
    BY <1>1, <1>2, <1>3, <1>4 DEF Next, Tick, BanUser, UpdateStatus,
       MintMasterAgent, OpenTrade, MintAgent, RemoveAgent, vars
  <1> QED
    BY <1>5 DEF Kept

\* A new update passed check_rate_limit, which compares it with the last one
\* and with the count.
LEMMA UpdatesStep ==
    ASSUME UpdatesInv, t_yield \in TYield, now \in Epoch .. MaxTime, [Next]_vars
    PROVE  UpdatesInv'
  <1> DEFINE n == Len(updates)
             first == InitialConfig.daily_update_count
             Spaced(u) == \A k \in 1 .. Len(u) - 1 :
                              u[k + 1] - u[k] >= RateLimiter.min_interval_sec
             Counted(u) == \A k \in 1 .. Len(u) :
                              DayOf(u[k]) <= RateLimiter.last_reset_day =>
                                  first + k <= RateLimiter.max_updates_per_day
  <1>1. /\ updates \in Seq(Nat) /\ n \in Nat /\ now \in Nat
        /\ first \in Nat /\ t_yield.daily_update_count \in Nat
        /\ RateLimiter.max_updates_per_day \in Nat
        /\ RateLimiter.last_reset_day \in Int
    BY ConstantFacts, ConfigAssumption, RateLimiterAssumption DEF UpdatesInv, TYield
  <1>2. Spaced(updates) /\ Counted(updates)
    BY DEF UpdatesInv, UpdatesLimited
  <1>3. CASE \E c \in Configs : ApplyConfig(c)
    <2>1. PICK c \in Configs : ApplyConfig(c)
      BY <1>3
    <2>2. updates' = Append(updates, now)
      BY <2>1 DEF ApplyConfig
    <2>3. /\ now - t_yield.last_update_time >= RateLimiter.min_interval_sec
          /\ \/ DayOf(now) > RateLimiter.last_reset_day
             \/ t_yield.daily_update_count < RateLimiter.max_updates_per_day
      BY <2>1 DEF ApplyConfig, WithinRateLimit, DayOf
    <2>4. /\ t_yield'.last_update_time = now
          /\ t_yield'.daily_update_count = t_yield.daily_update_count + 1
      BY <2>1 DEF ApplyConfig, TYield
    <2>5. /\ updates' \in Seq(Nat) /\ Len(updates') = n + 1
          /\ updates'[n + 1] = now
          /\ \A k \in 1 .. n : updates'[k] = updates[k]
      BY <1>1, <2>2
    <2>6. DayOf(now) \in Int
      BY <1>1, DayAssumption DEF DayOf
    <2> HIDE DEF n, first
    <2>7. ASSUME NEW k \in 1 .. Len(updates') - 1
          PROVE  updates'[k + 1] - updates'[k] >= RateLimiter.min_interval_sec
      <3>1. CASE k < n
        <4>1. k \in 1 .. n - 1 /\ k \in 1 .. n /\ k + 1 \in 1 .. n
          BY <1>1, <2>5, <3>1
        <4> QED
          BY <1>2, <2>5, <4>1 DEF n
      <3>2. CASE k = n
        <4>1. updates # <<>> /\ updates'[k] = updates[n]
          BY <1>1, <2>5, <3>2 DEF n
        <4>2. t_yield.last_update_time = updates[n]
          BY <4>1 DEF UpdatesInv, n
        <4> QED
          BY <2>3, <2>5, <3>2, <4>1, <4>2
      <3> QED
        BY <1>1, <2>5, <3>1, <3>2
    <2>8. ASSUME NEW k \in 1 .. Len(updates'),
                 DayOf(updates'[k]) <= RateLimiter.last_reset_day
          PROVE  first + k <= RateLimiter.max_updates_per_day
      <3>1. CASE k \in 1 .. n
        BY <1>2, <2>5, <2>8, <3>1 DEF n
      <3>2. CASE k = n + 1
        <4>1. t_yield.daily_update_count < RateLimiter.max_updates_per_day
          BY <1>1, <2>3, <2>5, <2>6, <2>8, <3>2
        <4>2. t_yield.daily_update_count = first + n
          BY DEF UpdatesInv, first, n
        <4> QED
          BY <1>1, <3>2, <4>1, <4>2
      <3> QED
        BY <1>1, <2>5, <3>1, <3>2
    <2>9. UpdatesLimited'
      BY <2>7, <2>8 DEF UpdatesLimited, DayOf, first
    <2>10. (t_yield.daily_update_count = InitialConfig.daily_update_count + Len(updates))'
      <3>1. t_yield.daily_update_count = first + n
        BY DEF UpdatesInv, first, n
      <3>2. t_yield'.daily_update_count = first + (n + 1)
        BY <1>1, <2>4, <3>1
      <3>3. Len(updates)' = n + 1
        BY <2>5
      <3> QED
        BY <3>2, <3>3 DEF first
    <2>11. (updates # <<>> => t_yield.last_update_time = updates[Len(updates)])'
      BY <2>4, <2>5
    <2> QED
      BY <2>5, <2>9, <2>10, <2>11 DEF UpdatesInv
  <1>4. CASE /\ UNCHANGED updates
             /\ t_yield'.daily_update_count = t_yield.daily_update_count
             /\ t_yield'.last_update_time = t_yield.last_update_time
    BY <1>4 DEF UpdatesInv, UpdatesLimited, DayOf
  <1> QED
    BY <1>3, <1>4, OnlyConfigUpdates

\* Executed updates of the configuration keep the least interval of the rate
\* limiter, and until the day of last_reset_day is over there are never more
\* of them than it allows, in whatever order admins sign (check_rate_limit).
THEOREM UpdatesAreLimited == Spec => []UpdatesLimited
  <1>1. Init => UpdatesInv
    <2> SUFFICES ASSUME Init PROVE UpdatesInv
      OBVIOUS
    <2>1. PICK p \in BOOLEAN : t_yield = [InitialConfig EXCEPT !.paused = p]
      BY DEF Init
    <2>2. updates = <<>> /\ Len(updates) = 0 /\ updates \in Seq(Nat)
      BY DEF Init
    <2>3. t_yield.daily_update_count = InitialConfig.daily_update_count
          /\ InitialConfig.daily_update_count \in Nat
      BY <2>1, ConfigAssumption DEF TYield
    <2> QED
      BY <2>2, <2>3 DEF UpdatesInv, UpdatesLimited
  <1>2. EffectInv => t_yield \in TYield
    BY DEF EffectInv
  <1>3. UpdatesInv => UpdatesLimited
    BY DEF UpdatesInv
  <1> QED
    BY <1>1, <1>2, <1>3, UpdatesStep, EffectInvariance, PTL DEF Spec

-----------------------------------------------------------------------------
(* A change of anything governed has a quorum behind it *)

\* The members whose signatures are held signed the current instruction.
BallotInv == \A m \in signed : ballot[m] = instr

\* An account changes only with the signature that completes a quorum.
LEMMA ChangeExecutes ==
    ASSUME EffectInv, now \in Epoch .. MaxTime, Next, GovernedChange
    PROVE  \E s \in Members, i \in Instrs, n \in Nonces : Sign(s, i, n, 0)
  <1> DEFINE Executed == \E s \in Members, i \in Instrs, n \in Nonces :
                             Sign(s, i, n, 0)
  <1>0. ~UNCHANGED <<t_yield, status, agents>>
    <2>1. \A ma \in Mints : ~(agent_count[ma] > agent_count[ma])
      BY DEF EffectInv
    <2> QED
      BY <2>1 DEF GovernedChange, agents
  <1>1. ASSUME NEW s \in Members, PauseProtocol(s) PROVE Executed
    <2>1. PICK left \in 0 .. MinSignatures :
              /\ Sign(s, Pause, PauseNonce(s), left)
              /\ t_yield' = [t_yield EXCEPT !.paused = left = 0]
      BY <1>1, Zenon DEF PauseProtocol
    <2>2. CASE left # 0
      <3>1. t_yield' = [t_yield EXCEPT !.paused = FALSE]
        BY <2>1, <2>2, Zenon
      <3>2. t_yield' = t_yield
        BY <1>1, <3>1 DEF PauseProtocol, EffectInv, TYield
      <3> QED
        BY <1>0, <1>1, <3>2 DEF PauseProtocol
    <2>3. CASE left = 0
      <3>1. Pause \in Instrs /\ PauseNonce(s) \in Nonces
        BY NonceIsOne DEF Instrs
      <3>2. Sign(s, Pause, PauseNonce(s), 0)
        BY <2>1, <2>3, Zenon
      <3> QED
        BY <3>1, <3>2
    <2> QED
      BY <2>2, <2>3
  <1>2. ASSUME NEW s \in Members, UnpauseProtocol(s) PROVE Executed
    <2>1. PICK left \in 0 .. MinSignatures :
              /\ Sign(s, Unpause(s), UnpauseNonce, left)
              /\ t_yield' = [t_yield EXCEPT !.paused = left # 0]
      BY <1>2, Zenon DEF UnpauseProtocol
    <2>2. CASE left # 0
      <3>1. (left # 0) = TRUE
        BY <2>2
      <3>2. t_yield' = [t_yield EXCEPT !.paused = TRUE]
        BY <2>1, <3>1, Zenon
      <3>3. t_yield' = t_yield
        BY <1>2, <3>2 DEF UnpauseProtocol, EffectInv, TYield
      <3> QED
        BY <1>0, <1>2, <3>3 DEF UnpauseProtocol
    <2>3. CASE left = 0
      <3>1. Unpause(s) \in Instrs /\ UnpauseNonce \in Nonces
        BY NonceIsOne DEF Instrs
      <3>2. Sign(s, Unpause(s), UnpauseNonce, 0)
        BY <2>1, <2>3, Zenon
      <3> QED
        BY <3>1, <3>2
    <2> QED
      BY <2>2, <2>3
  <1>3. ASSUME NEW s \in Members, NEW c \in Configs, UpdateProtocolConfig(s, c)
        PROVE  Executed
    <2>1. PICK left \in 0 .. MinSignatures :
              /\ Sign(s, Config(c), now, left)
              /\ left > 0 => UNCHANGED <<t_yield, updates>>
      BY <1>3 DEF UpdateProtocolConfig
    <2>2. Config(c) \in Instrs /\ now \in Nonces
      BY NonceIsOne DEF Instrs
    <2>3. left = 0
      BY <1>0, <1>3, <2>1 DEF UpdateProtocolConfig
    <2> QED
      BY <2>1, <2>2, <2>3
  <1>4. ASSUME NEW s \in Members, NEW u \in Users, BanUser(s, u)
        PROVE  Executed
    <2>1. PICK left \in 0 .. MinSignatures :
              /\ Sign(s, Ban(u), now, left)
              /\ left > 0 => UNCHANGED status
      BY <1>4 DEF BanUser
    <2>2. Ban(u) \in Instrs /\ now \in Nonces
      BY NonceIsOne DEF Instrs
    <2>3. left = 0
      BY <1>0, <1>4, <2>1 DEF BanUser
    <2> QED
      BY <2>1, <2>2, <2>3
  <1>5. ASSUME NEW s \in Members, NEW u \in Users, NEW f \in Flags,
               UpdateStatus(s, u, f)
        PROVE  Executed
    <2>1. PICK left \in 0 .. MinSignatures :
              /\ Sign(s, Status(s, u, f), now, left)
              /\ left > 0 => UNCHANGED status
      BY <1>5 DEF UpdateStatus
    <2>2. Status(s, u, f) \in Instrs /\ now \in Nonces
      BY NonceIsOne DEF Instrs
    <2>3. left = 0
      BY <1>0, <1>5, <2>1 DEF UpdateStatus
    <2> QED
      BY <2>1, <2>2, <2>3
  <1>6. ASSUME NEW s \in Members, NEW m \in Mints, NEW k \in Supplies,
               MintMasterAgent(s, m, k)
        PROVE  Executed
    <2>1. PICK left \in 0 .. MinSignatures :
              /\ Sign(s, MintMaster(m, k), now, left)
              /\ left > 0 => UNCHANGED agents
      BY <1>6 DEF MintMasterAgent
    <2>2. MintMaster(m, k) \in Instrs /\ now \in Nonces
      BY NonceIsOne DEF Instrs
    <2>3. left = 0
      BY <1>0, <1>6, <2>1 DEF MintMasterAgent
    <2> QED
      BY <2>1, <2>2, <2>3
  <1>7. ASSUME NEW s \in Members, NEW m \in Mints, NEW ma \in Mints,
               MintAgent(s, m, ma)
        PROVE  Executed
    <2>1. PICK left \in 0 .. MinSignatures :
              /\ Sign(s, Mint(m, ma), now, left)
              /\ left > 0 => UNCHANGED agents
      BY <1>7 DEF MintAgent
    <2>2. Mint(m, ma) \in Instrs /\ now \in Nonces
      BY NonceIsOne DEF Instrs
    <2>3. left = 0
      BY <1>0, <1>7, <2>1 DEF MintAgent
    <2> QED
      BY <2>1, <2>2, <2>3
  <1>8. ~Tick
    BY <1>0 DEF Tick
  <1>9. ASSUME NEW ma \in Mints, RemoveAgent(ma) PROVE FALSE
    BY <1>9 DEF RemoveAgent, EffectInv, GovernedChange
  <1>10. ASSUME NEW s \in Members, NEW ma \in Mints, NEW k \in TradeNumbers,
                OpenTrade(s, ma, k)
         PROVE  FALSE
    BY <1>0, <1>10 DEF OpenTrade
  <1> QED
    BY <1>1, <1>2, <1>3, <1>4, <1>5, <1>6, <1>7, <1>8, <1>9, <1>10 DEF Next

\* Cardinality means the same in the instance.
LEMMA SameCardinality == \A S : MP!Cardinality(S) = Cardinality(S)
  BY DEF MP!Cardinality, Cardinality

\* What a signature leaves in the bitmap are signatures of its instruction.
LEMMA BallotSign ==
    ASSUME MP!IInv, HistoryInv, BallotInv, NEW s \in Members, NEW i \in Instrs,
           NEW n \in Nonces, NEW left \in 0 .. MinSignatures,
           Sign(s, i, n, left)
    PROVE  /\ BallotInv'
           /\ \A m \in signed' : ballot'[m] = i
  <1>1. MP!SignMultisig(s, i, n, left)
    BY SameSignature DEF Sign
  <1>2. /\ signed' \subseteq signed \cup {s}
        /\ Cardinality(Members) <= 1 => signed' = {}
        /\ Cardinality(Members) > 1 =>
               /\ instr' = i
               /\ i # instr => signed' = {s}
    <2>1. MP!LiveSigned \subseteq signed
      BY DEF MP!LiveSigned
    <2> QED
      BY <1>1, <2>1, MP!OutcomeFacts, MultisigAssumptions, SameCardinality
      DEF MP!IInv, MP!ApiInv
  <1>3. ballot' = [ballot EXCEPT ![s] = i] /\ ballot \in [Members -> Instrs \cup {NoInstr}]
    BY DEF Sign, HistoryInv
  <1>4. signed \in SUBSET Members
    BY DEF MP!IInv, MP!ApiInv, MP!TypeOK
  <1>5. CASE Cardinality(Members) <= 1
    BY <1>2, <1>5 DEF BallotInv
  <1>6. CASE Cardinality(Members) > 1
    BY <1>2, <1>3, <1>4, <1>6 DEF BallotInv
  <1> QED
    BY <1>5, <1>6, ConstantFacts

\* The held signatures are those of the current instruction, always.
LEMMA BallotInvariance == Spec => []BallotInv
  <1>1. Init => BallotInv
    BY DEF Init, MS!Init, BallotInv
  <1>2. ASSUME MP!IInv, HistoryInv, BallotInv, [Next]_vars
        PROVE  BallotInv'
    <2>1. CASE Tick
      BY <1>2, <2>1 DEF Tick, MS!Tick, MS!account, BallotInv
    <2>4. ASSUME NEW ma \in Mints, RemoveAgent(ma) PROVE BallotInv'
      BY <1>2, <2>4 DEF RemoveAgent, multisig, BallotInv
    <2>2. CASE Next /\ ~Tick /\ ~\E ma \in Mints : RemoveAgent(ma)
      <3>1. PICK s \in Members, i \in Instrs, left \in 0 .. MinSignatures :
                \E n \in {PauseNonce(s), UnpauseNonce, now} : Sign(s, i, n, left)
        BY <2>2, HandlersSign
      <3>2. {PauseNonce(s), UnpauseNonce, now} \subseteq Nonces
        BY <1>2, NonceIsOne DEF HistoryInv
      <3> QED
        BY <1>2, <3>1, <3>2, BallotSign
    <2>3. CASE UNCHANGED vars
      BY <1>2, <2>3 DEF vars, BallotInv
    <2> QED
      BY <1>2, <2>1, <2>2, <2>3, <2>4
  <1> QED
    BY <1>1, <1>2, HistoryInvariance, MultisigInvariance, PTL DEF Spec

\* A signature that returns 0 has a quorum of members behind it.
LEMMA ExecutionBacked ==
    ASSUME MP!IInv, HistoryInv, BallotInv, [Next]_vars,
           NEW s \in Members, NEW i \in Instrs, NEW n \in Nonces,
           Sign(s, i, n, 0)
    PROVE  /\ doneAt'[i] # doneAt[i]
           /\ Cardinality({m \in Members : Backs(m, i)}) >= MinSignatures
  <1> DEFINE Q == {m \in Members : Backs(m, i)}
             L == Len(stamps)
  <1>1. 0 \in 0 .. MinSignatures
    BY ConstantFacts
  <1>2. MP!SignMultisig(s, i, n, 0) /\ [MP!Next]_MP!vars
    <2>1. [MS!Next]_MS!vars
      BY StepIsMultisig DEF HistoryInv
    <2> QED
      BY <2>1, SameSignature, SameMultisig DEF Sign
  <1>3. /\ L \in Nat /\ stamps \in Seq(Nat) /\ now \in Nat
        /\ stamps' = Append(stamps, now) /\ stamps'[L + 1] = now
        /\ turn' = [turn EXCEPT ![s] = L + 1] /\ turn \in [Members -> Nat]
        /\ doneAt' = [doneAt EXCEPT ![i] = L + 1]
        /\ doneAt \in [Instrs -> 0 .. L]
    BY <1>2, ConstantFacts
    DEF MP!SignMultisig, MP!IInv, MP!ApiInv, MP!TypeOK, HistoryInv
  <1>4. doneAt'[i] # doneAt[i] /\ turn'[s] = L + 1 /\ L + 1 > doneAt[i]
    BY <1>3
  <1>5. ballot'[s] = i
    BY DEF Sign, HistoryInv
  <1>6. s \in Q
    <2>1. stamps'[turn'[s]] = now
      BY <1>3, <1>4
    <2>2. now - now <= SignatureTimeout
      BY <1>3, LimitAssumption
    <2>3. now - stamps'[turn'[s]] <= SignatureTimeout
      BY <2>1, <2>2, Zenon
    <2>4. turn'[s] > doneAt[i]
      BY <1>4
    <2> QED
      BY <1>5, <2>3, <2>4 DEF Backs
  <1>7. IsFiniteSet(Q) /\ Cardinality(Q) \in Nat
    BY QuorumAssumption, FS_Subset, FS_CardinalityType
  <1>8. CASE Cardinality(Members) <= 1
    <2>1. Cardinality({s}) = 1 /\ {s} \subseteq Q
      BY <1>6, FS_Singleton
    <2>2. Cardinality({s}) <= Cardinality(Q)
      BY <1>7, <2>1, FS_Subset
    <2>3. MinSignatures = 1
      BY <1>8, ConstantFacts
    <2>4. Cardinality(Q) >= MinSignatures
      BY <1>7, <2>1, <2>2, <2>3
    <2> QED
      BY <1>4, <2>4
  <1>9. CASE Cardinality(Members) > 1
    <2>1. /\ signed' \in SUBSET Members
          /\ num_signed' \in 0 .. MinSignatures
          /\ num_signed' = Cardinality(signed')
          /\ 0 = MinSignatures - num_signed'
      BY <1>1, <1>2, <1>9, MP!OutcomeFacts, MultisigAssumptions,
         SameCardinality DEF MP!IInv, MP!ApiInv
    <2>2. ASSUME NEW m \in signed' PROVE Backs(m, i)
      <3>1. ballot'[m] = i
        BY <1>1, <2>2, BallotSign
      <3>2. turn'[m] > doneAt[i]
        BY <1>2, <1>4, <2>2, MP!CountsOnceStep, MultisigAssumptions
      <3>3. MP!Executes
        BY <1>4 DEF MP!Executes
      <3>4. now - stamps'[turn'[m]] <= SignatureTimeout
        BY <1>2, <2>2, <3>3, MP!FreshQuorumStep, MultisigAssumptions
        DEF MP!IInv, MP!ApiNext
      <3> QED
        BY <3>1, <3>2, <3>4 DEF Backs
    <2>3. signed' \subseteq Q
      BY <2>1, <2>2
    <2>4. Cardinality(signed') <= Cardinality(Q)
      BY <1>7, <2>3, FS_Subset
    <2>5. Cardinality(signed') = MinSignatures
      BY <2>1, ConstantFacts
    <2>6. Cardinality(Q) >= MinSignatures
      BY <1>7, <2>4, <2>5, ConstantFacts
    <2> QED
      BY <1>4, <2>6
  <1> QED
    BY <1>8, <1>9, ConstantFacts

\* Whatever an instruction changes, a quorum of members asked for it: all of
\* them signed that very instruction, none longer ago than the timeout, none
\* for an execution before.
THEOREM ChangesHaveAQuorum == Spec => ChangesNeedQuorum
  <1>1. EffectInv /\ HistoryInv /\ BallotInv /\ MP!IInv /\ [Next]_vars
            => [GovernedChange =>
                  \E i \in Instrs :
                      /\ doneAt'[i] # doneAt[i]
                      /\ Cardinality({m \in Members : Backs(m, i)})
                             >= MinSignatures]_vars
    <2> SUFFICES ASSUME EffectInv, HistoryInv, BallotInv, MP!IInv, Next,
                        GovernedChange
                 PROVE  \E i \in Instrs :
                            /\ doneAt'[i] # doneAt[i]
                            /\ Cardinality({m \in Members : Backs(m, i)})
                                   >= MinSignatures
      BY DEF vars, agents, GovernedChange, EffectInv
    <2>1. PICK s \in Members, i \in Instrs, n \in Nonces : Sign(s, i, n, 0)
      BY ChangeExecutes DEF HistoryInv
    <2> QED
      BY <2>1, ExecutionBacked
  <1> QED
    BY <1>1, EffectInvariance, HistoryInvariance, BallotInvariance,
       MultisigInvariance, PTL DEF Spec, ChangesNeedQuorum
=============================================================================
