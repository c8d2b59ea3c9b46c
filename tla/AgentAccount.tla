---------------------------- MODULE AgentAccount ----------------------------
(***************************************************************************)
(* The account of one agent (state/agents.rs): its owner, booster and      *)
(* listing, and what its age and its last update are read as.              *)
(***************************************************************************)
EXTENDS Runtime

CONSTANTS
    NoOwner,        \* Pubkey::default()
    Owners,         \* the keys that may own the agent
    Boosters,       \* the boosters that are tried
    NewDays,        \* 7 in the code
    MatureDays,     \* 30 in the code
    OldDays,        \* 365 in the code
    ActiveBonus,    \* 1000 in the code
    MatureBonus,    \* 500 in the code
    OldPenalty      \* 2000 in the code

ASSUME AgentAssumption ==
    /\ Owners # {}
    /\ Boosters \subseteq Words
    /\ \E b \in Boosters : b # 0
    /\ {NewDays, MatureDays, OldDays} \subseteq Nat
    /\ NewDays < MatureDays /\ MatureDays < OldDays
    /\ {ActiveBonus, MatureBonus, OldPenalty} \subseteq Nat
    /\ OldPenalty >= ActiveBonus

VARIABLES
    agent,          \* the account
    handled         \* history: time of the last call, a reset excepted

agentVars == <<now, calls, agent, handled>>

AgentType ==
    [owner : Owners \cup {NoOwner}, booster : Words, is_listed : BOOLEAN,
     created_at : Nat, last_updated : Nat]

\* initialize, for an owner and a booster mint_agent passes it
AgentInit ==
    /\ RuntimeInit
    /\ \E o \in Owners \ {NoOwner}, b \in Boosters \ {0} :
          agent = [owner |-> o, booster |-> b, is_listed |-> TRUE,
                   created_at |-> now, last_updated |-> now]
    /\ handled = now

-----------------------------------------------------------------------------
(* Methods *)

Handled(a) ==
    /\ Call
    /\ agent' = [a EXCEPT !.last_updated = now]
    /\ handled' = now

\* Mutated form: a booster of 0 is stored.
UpdateBoosterAny(b) == Handled([agent EXCEPT !.booster = b])

UpdateBooster(b) == b # 0 /\ Handled([agent EXCEPT !.booster = b])

List == ~agent.is_listed /\ Handled([agent EXCEPT !.is_listed = TRUE])

UnlistAgent == agent.is_listed /\ Handled([agent EXCEPT !.is_listed = FALSE])

ToggleListing == List \/ UnlistAgent

TransferOwnership(o) == o # NoOwner /\ Handled([agent EXCEPT !.owner = o])

ResetAgent ==
    /\ Call
    /\ agent' = [agent EXCEPT !.is_listed = FALSE, !.last_updated = agent.created_at]
    /\ UNCHANGED handled

AgentTick == \E d \in Ticks : Tick(d) /\ UNCHANGED <<agent, handled>>

AgentNext ==
    \/ \E b \in Boosters : UpdateBooster(b)
    \/ List
    \/ UnlistAgent
    \/ ToggleListing
    \/ \E o \in Owners \cup {NoOwner} : TransferOwnership(o)
    \/ ResetAgent
    \/ AgentTick

AgentSpec == AgentInit /\ [][AgentNext]_agentVars

-----------------------------------------------------------------------------
(* Queries *)

ValidAgent ==
    /\ agent.owner # NoOwner
    /\ agent.booster # 0
    /\ agent.created_at > 0
    /\ agent.last_updated >= agent.created_at

IsActiveAgent == agent.created_at > 0 /\ agent.last_updated >= agent.created_at

AgeDays == DaysFrom(agent.created_at, now)
QuietDays == DaysFrom(agent.last_updated, now)

IsIdleAgent(days) == QuietDays > days
IsNew == AgeDays < NewDays
IsMature == AgeDays >= MatureDays

NeedsAttention == QuietDays > MatureDays \/ AgeDays > OldDays \/ ~IsActiveAgent

\* A bonus that does not fit is left out, a score below 0 is 0.
Plus(score, bonus) == IF Fits(score + bonus) THEN score + bonus ELSE score
Minus(score, penalty) == IF score >= penalty THEN score - penalty ELSE 0

BonusIf(cond, score, bonus) == IF cond THEN Plus(score, bonus) ELSE score

PerformanceScore ==
    LET active == BonusIf(QuietDays <= NewDays /\ now # agent.created_at,
                          agent.booster, ActiveBonus)
        mature == BonusIf(AgeDays \in MatureDays .. OldDays, active, MatureBonus)
    IN  IF AgeDays > OldDays THEN Minus(mature, OldPenalty) ELSE mature

-----------------------------------------------------------------------------
(* Properties *)

\* Types of the account.
AgentTypeOK ==
    /\ now \in Nat
    /\ agent \in AgentType
    /\ handled \in Nat

\* Every order of calls, a reset included, leaves an account that passes
\* validate.
AgentStaysValid == ValidAgent /\ IsActiveAgent

\* The score of an agent reaches its booster until it is a year old, and
\* never exceeds it afterwards, whatever it does: the penalty outweighs the
\* bonus, also where a sum would not fit.
ScoreFallsWithAge ==
    IF AgeDays > OldDays THEN PerformanceScore <= agent.booster
    ELSE PerformanceScore >= agent.booster

\* An agent that asks for no attention was used within the last month and
\* is not older than a year: a reset, which makes its last update older than
\* it is, does not hide that.
NoAttentionMeansUsed ==
    ~NeedsAttention => DaysFrom(handled, now) <= MatureDays /\ AgeDays <= OldDays

\* The account stays valid, and neither its score nor its call for attention
\* is fooled by an order of calls, resets included.
AgentConsistent ==
    /\ AgentTypeOK
    /\ AgentStaysValid
    /\ ScoreFallsWithAge
    /\ NoAttentionMeansUsed
=============================================================================
