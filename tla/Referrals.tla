----------------------------- MODULE Referrals -----------------------------
(***************************************************************************)
(* A referrer's registry and the link to one referred user (state/user.rs, *)
(* ReferralRegistry and ReferralLink).  Both are created by the first      *)
(* registration that names them; claim_referral_rewards moves earnings     *)
(* from unclaimed to claimed.                                              *)
(***************************************************************************)
EXTENDS Runtime

CONSTANTS
    NoReferrer,         \* Pubkey::default()
    Referrer,           \* the referrer of the registry's address
    Referred,           \* the user of the link's address
    Earnings            \* the earnings that are tried

ASSUME ReferralAssumption ==
    /\ Referrer # NoReferrer
    /\ Referred # NoReferrer
    /\ Earnings \subseteq Words

VARIABLES
    registry,       \* the registry's account
    link,           \* the link's account
    credited        \* history: all earnings credited since the last reset

referralVars == <<now, calls, registry, link, credited>>

RegistryType ==
    [referrer : {NoReferrer, Referrer}, claimed : Words, uc : Words,
     users : Nat, created_at : Nat, updated_at : Nat]
LinkType ==
    [referrer : {NoReferrer, Referrer}, user : {NoReferrer, Referred},
     created_at : Nat]

\* Created accounts that were not written yet: all their bytes are 0.
ReferralInit ==
    /\ RuntimeInit
    /\ registry = [referrer |-> NoReferrer, claimed |-> 0, uc |-> 0,
                   users |-> 0, created_at |-> 0, updated_at |-> 0]
    /\ link = [referrer |-> NoReferrer, user |-> NoReferrer, created_at |-> 0]
    /\ credited = 0

-----------------------------------------------------------------------------
(* The registry *)

ValidRegistry ==
    /\ registry.referrer # NoReferrer
    /\ registry.created_at > 0
    /\ registry.updated_at >= registry.created_at

AggregateEarnings == registry.claimed + registry.uc
AverageEarnings ==
    IF registry.users = 0 THEN 0 ELSE registry.claimed \div registry.users
AverageUnclaimed ==
    IF registry.users = 0 THEN 0 ELSE registry.uc \div registry.users

AddRegistryEarnings(e) ==
    /\ Call
    /\ e # 0
    /\ Fits(registry.claimed + e)
    /\ registry' = [registry EXCEPT !.claimed = @ + e]
    /\ credited' = credited + e
    /\ UNCHANGED <<link>>

AddUnclaimedEarnings(e) ==
    /\ Call
    /\ e # 0
    /\ Fits(registry.uc + e)
    /\ registry' = [registry EXCEPT !.uc = @ + e]
    /\ credited' = credited + e
    /\ UNCHANGED <<link>>

ClaimEarnings(e) ==
    /\ Call
    /\ e # 0
    /\ e <= registry.uc
    /\ Fits(registry.claimed + e)
    /\ registry' = [registry EXCEPT !.uc = @ - e, !.claimed = @ + e]
    /\ UNCHANGED <<link, credited>>

UpdateRegistryTimestamp ==
    /\ Call
    /\ now > 0
    /\ now >= registry.created_at
    /\ registry' = [registry EXCEPT !.updated_at = now]
    /\ UNCHANGED <<link, credited>>

ResetEarnings ==
    /\ Call
    /\ registry' = [registry EXCEPT !.claimed = 0, !.uc = 0]
    /\ credited' = 0
    /\ UNCHANGED <<link>>

-----------------------------------------------------------------------------
(* The link *)

ValidLink ==
    /\ link.referrer # NoReferrer
    /\ link.user # NoReferrer
    /\ link.created_at > 0

LinkAgeDays == DaysFrom(link.created_at, now)

\* ReferralLink::new
NewLink == [referrer |-> Referrer, user |-> Referred, created_at |-> now]

UpdateLinkTimestamp ==
    /\ Call
    /\ link' = [link EXCEPT !.created_at = now]
    /\ UNCHANGED <<registry, credited>>

ResetLink ==
    /\ Call
    /\ link' = [referrer |-> NoReferrer, user |-> NoReferrer, created_at |-> 0]
    /\ UNCHANGED <<registry, credited>>

-----------------------------------------------------------------------------
(* register_user with a referrer: the registry and, when it is handed in,  *)
(* the link are written                                                    *)

\* Mutated form: a registry that is new gets no creation time.
CountedUndated ==
    [registry EXCEPT !.referrer = Referrer, !.users = @ + 1, !.updated_at = now]

\* The registry once one more user is counted.
Counted ==
    [registry EXCEPT
        !.referrer = Referrer,
        !.created_at = IF registry.referrer = NoReferrer THEN now ELSE @,
        !.users = @ + 1,
        !.updated_at = now]

Register(with_link) ==
    /\ Call
    /\ registry' = Counted
    /\ link' = IF /\ with_link
                  /\ link.referrer = NoReferrer
                  /\ link.user = NoReferrer
               THEN NewLink ELSE link
    /\ UNCHANGED <<credited>>

ReferralTick ==
    \E d \in Ticks : Tick(d) /\ UNCHANGED <<registry, link, credited>>

ReferralNext ==
    \/ \E e \in Earnings :
        \/ AddRegistryEarnings(e)
        \/ AddUnclaimedEarnings(e)
        \/ ClaimEarnings(e)
    \/ UpdateRegistryTimestamp
    \/ ResetEarnings
    \/ UpdateLinkTimestamp
    \/ ResetLink
    \/ \E with_link \in BOOLEAN : Register(with_link)
    \/ ReferralTick

ReferralSpec == ReferralInit /\ [][ReferralNext]_referralVars

-----------------------------------------------------------------------------
(* Properties *)

\* Types of the registry and the link.
ReferralTypeOK ==
    /\ now \in Nat
    /\ calls \in Nat
    /\ registry \in RegistryType
    /\ link \in LinkType
    /\ credited \in Nat

\* Referral earnings are neither lost nor claimed twice: what was credited
\* is what is unclaimed and what was claimed.
EarningsConserved == AggregateEarnings = credited

\* From its first referral on the registry passes validate_registry, after
\* any order of registrations, claims and updates.
RegistryValidOnceUsed == registry.users > 0 => ValidRegistry

\* Registrations, claims and updates in any order keep the registry valid
\* and its earnings complete.
ReferralsConsistent ==
    /\ ReferralTypeOK
    /\ EarningsConserved
    /\ RegistryValidOnceUsed
=============================================================================
