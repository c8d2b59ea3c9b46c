---------------------------- MODULE UserProfile ----------------------------
(***************************************************************************)
(* The profile of a user's account (state/user.rs): its status flags, the  *)
(* keys it names, its display name, and its activity.  Every public method *)
(* that changes them may be called at any time, in any order, with the     *)
(* clock's time; the instructions are a few of those orders.               *)
(***************************************************************************)
EXTENDS Runtime, FiniteSets

CONSTANTS
    Authority,      \* the user's own key
    NoKey,          \* Pubkey::default()
    Others,         \* other keys
    NoName,         \* a name of zero bytes only
    NewNames,       \* other names
    IdleDays,       \* the least threshold of check_idle_status, in days
    Thresholds      \* the thresholds that are tried

ASSUME ProfileAssumption ==
    /\ Authority # NoKey
    /\ NoKey \notin Others
    /\ Authority \notin Others
    /\ NoName \notin NewNames
    /\ IdleDays \in Nat
    /\ Thresholds \subseteq {t \in Nat : t >= IdleDays * Day}

VARIABLES
    status,         \* flags whose bit is set
    delegate,
    referrer,
    name,
    idle,
    user_created,   \* created_at
    user_updated    \* updated_at

keys == <<delegate, referrer, name>>
activity == <<idle, user_updated>>
profile == <<status, keys, activity, user_created>>
profileVars == <<now, calls, profile>>

Keys == {Authority, NoKey} \cup Others
Names == {NoName} \cup NewNames
UserStatus == {"Active", "Banned", "WithListed"}

-----------------------------------------------------------------------------
(* Queries *)

CanPerformActions == "Active" \in status /\ "Banned" \notin status

HasDelegate == delegate # NoKey
HasReferrer == referrer # NoKey

DaysSinceUserCreated == DaysFrom(user_created, now)
DaysSinceUserUpdated == DaysFrom(user_updated, now)

ValidUser ==
    /\ Authority # NoKey
    /\ user_created > 0
    /\ user_updated >= user_created
    /\ ~(HasDelegate /\ delegate = Authority)
    /\ ~(HasReferrer /\ referrer = Authority)
    /\ name # NoName

-----------------------------------------------------------------------------
(* Status flags *)

\* Active is refused to a banned user.
FlagAddable(f, flags) == f = "Active" => "Banned" \notin flags

\* The flags once f is added: a ban takes Active away.
WithFlag(f, flags) ==
    (IF f = "Banned" THEN flags \ {"Active"} ELSE flags) \cup {f}

AddUserStatus(f) ==
    /\ Call
    /\ FlagAddable(f, status)
    /\ status' = WithFlag(f, status)
    /\ UNCHANGED <<keys, activity, user_created>>

RemoveUserStatus(f) ==
    /\ Call
    /\ status' = status \ {f}
    /\ UNCHANGED <<keys, activity, user_created>>

\* ban_user: Active is removed, then Banned is added.
Ban ==
    /\ Call
    /\ status' = WithFlag("Banned", status \ {"Active"})
    /\ UNCHANGED <<keys, activity, user_created>>

\* un_ban_user: Banned is removed, then Active is added.
UnBan ==
    /\ Call
    /\ FlagAddable("Active", status \ {"Banned"})
    /\ status' = WithFlag("Active", status \ {"Banned"})
    /\ UNCHANGED <<keys, activity, user_created>>

-----------------------------------------------------------------------------
(* Keys and name *)

SetReferrer(k) ==
    /\ Call
    /\ k # NoKey
    /\ k # Authority
    /\ ~HasReferrer
    /\ referrer' = k
    /\ UNCHANGED <<status, delegate, name, activity, user_created>>

\* The zero key is not refused: it clears the delegate as well.
SetDelegate(k) ==
    /\ Call
    /\ k # Authority
    /\ delegate' = k
    /\ UNCHANGED <<status, referrer, name, activity, user_created>>

ClearDelegate ==
    /\ Call
    /\ delegate' = NoKey
    /\ UNCHANGED <<status, referrer, name, activity, user_created>>

SetName(n) ==
    /\ Call
    /\ n # NoName
    /\ name' = n
    /\ UNCHANGED <<status, delegate, referrer, activity, user_created>>

-----------------------------------------------------------------------------
(* Activity *)

\* Mutated form: activity leaves the idle mark.
UpdateLastActivityIdle ==
    /\ Call
    /\ now > 0 /\ now >= user_created /\ now >= user_updated
    /\ user_updated' = now
    /\ UNCHANGED <<status, keys, idle, user_created>>

UpdateLastActivity ==
    /\ Call
    /\ now > 0
    /\ now >= user_created
    /\ user_updated > 0 => now >= user_updated
    /\ user_updated' = now
    /\ idle' = FALSE
    /\ UNCHANGED <<status, keys, user_created>>

CheckIdleStatus(threshold) ==
    /\ Call
    /\ now > 0
    /\ threshold >= 0
    /\ idle' = (now - user_updated > threshold)
    /\ UNCHANGED <<status, keys, user_updated, user_created>>

-----------------------------------------------------------------------------
(* A registered user, and its account in use *)

\* register_user stores the name it is given, whatever it is, and the
\* referrer's key, which is that of another user.
ProfileInit ==
    /\ RuntimeInit
    /\ status = {"Active"}
    /\ delegate = NoKey
    /\ referrer \in {NoKey} \cup Others
    /\ name \in Names
    /\ idle = FALSE
    /\ user_created = now
    /\ user_updated = now

ProfileTick == \E d \in Ticks : Tick(d) /\ UNCHANGED profile

ProfileNext ==
    \/ \E f \in UserStatus : AddUserStatus(f)
    \/ \E f \in UserStatus : RemoveUserStatus(f)
    \/ Ban
    \/ UnBan
    \/ \E k \in Keys : SetReferrer(k)
    \/ \E k \in Keys : SetDelegate(k)
    \/ ClearDelegate
    \/ \E n \in Names : SetName(n)
    \/ UpdateLastActivity
    \/ \E t \in Thresholds : CheckIdleStatus(t)
    \/ ProfileTick

ProfileSpec == ProfileInit /\ [][ProfileNext]_profileVars

-----------------------------------------------------------------------------
(* Properties *)

\* Types of the profile.
ProfileTypeOK ==
    /\ now \in Nat
    /\ calls \in Nat
    /\ status \subseteq UserStatus
    /\ delegate \in Keys
    /\ referrer \in Keys
    /\ name \in Names
    /\ idle \in BOOLEAN
    /\ user_created \in Nat
    /\ user_updated \in Nat

\* No order of bans, unbans, additions and removals of flags leaves a user
\* both active and banned, a pair that validate_user lets pass.
NeverBannedAndActive == ~({"Active", "Banned"} \subseteq status)

\* A user who is marked idle has been quiet for the days of the threshold:
\* the mark, which is stored, is never older than the last activity.
IdleMeansQuiet == idle => DaysSinceUserUpdated >= IdleDays

\* Once the account has a name, which register_user does not ask for, it
\* passes validate_user after any order of calls: buy_agent, ban_user and
\* update_status validate it last and would fail from then on.
ValidOnceNamed == name # NoName => ValidUser

\* The flags, the idle mark and the keys stay consistent, whatever is called
\* in whatever order.
ProfileConsistent ==
    /\ ProfileTypeOK
    /\ NeverBannedAndActive
    /\ IdleMeansQuiet
    /\ ValidOnceNamed
=============================================================================
