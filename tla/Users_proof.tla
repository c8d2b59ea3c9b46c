---------------------------- MODULE Users_proof ----------------------------
(***************************************************************************)
(* Proofs about a user's profile and amounts and a referrer's registry,    *)
(* for every choice of keys, amounts and clock.                            *)
(***************************************************************************)
EXTENDS UserProfile, UserLedger, Referrals, Division

-----------------------------------------------------------------------------
(* The profile *)

\* What keeps the profile valid: the times lie behind the clock, the user
\* names neither itself nor a referrer that could be itself, and idleness
\* was found at a time at which the user had been quiet for long enough.
ProfileInv ==
    /\ ProfileTypeOK
    /\ NeverBannedAndActive
    /\ user_created > 0
    /\ user_updated >= user_created
    /\ now >= user_updated
    /\ delegate # Authority
    /\ referrer # Authority
    /\ idle => now >= user_updated + IdleDays * Day

\* A user is registered with a valid profile.
LEMMA ProfileStarts == ASSUME ProfileInit PROVE ProfileInv
  <1> USE RuntimeAssumption, ProfileAssumption DEF ProfileInit, RuntimeInit
  <1>1. NeverBannedAndActive /\ status \subseteq UserStatus
    BY DEF NeverBannedAndActive, UserStatus
  <1>2. delegate \in Keys /\ referrer \in Keys /\ name \in Names
    BY DEF Keys
  <1>3. delegate # Authority /\ referrer # Authority
    OBVIOUS
  <1>4. now \in Nat /\ now > 0 /\ calls \in Nat
    OBVIOUS
  <1>5. idle \in BOOLEAN /\ ~idle
    OBVIOUS
  <1>6. user_created = now /\ user_updated = now
    OBVIOUS
  <1> QED
    BY <1>1, <1>2, <1>3, <1>4, <1>5, <1>6 DEF ProfileInv, ProfileTypeOK

\* Every method keeps the profile valid.
LEMMA ProfileStep ==
    ASSUME ProfileInv, [ProfileNext]_profileVars
    PROVE  ProfileInv'
  <1> USE RuntimeAssumption, ProfileAssumption DEF ProfileInv, ProfileTypeOK
  <1> USE DEF profile, keys, activity, Call
  <1>1. ASSUME NEW f \in UserStatus, AddUserStatus(f) PROVE ProfileInv'
    BY <1>1 DEF AddUserStatus, FlagAddable, WithFlag, NeverBannedAndActive, UserStatus
  <1>2. ASSUME NEW f \in UserStatus, RemoveUserStatus(f) PROVE ProfileInv'
    BY <1>2 DEF RemoveUserStatus, NeverBannedAndActive
  <1>3. CASE Ban
    BY <1>3 DEF Ban, WithFlag, NeverBannedAndActive, UserStatus
  <1>4. CASE UnBan
    BY <1>4 DEF UnBan, WithFlag, NeverBannedAndActive, UserStatus
  <1>5. ASSUME NEW k \in Keys, SetReferrer(k) PROVE ProfileInv'
    BY <1>5 DEF SetReferrer, NeverBannedAndActive
  <1>6. ASSUME NEW k \in Keys, SetDelegate(k) PROVE ProfileInv'
    BY <1>6 DEF SetDelegate, NeverBannedAndActive
  <1>7. CASE ClearDelegate
    BY <1>7 DEF ClearDelegate, NeverBannedAndActive, Keys
  <1>8. ASSUME NEW n \in Names, SetName(n) PROVE ProfileInv'
    BY <1>8 DEF SetName, NeverBannedAndActive
  <1>9. CASE UpdateLastActivity
    <2>1. idle' \in BOOLEAN /\ ~idle'
      BY <1>9 DEF UpdateLastActivity
    <2>2. /\ UNCHANGED <<now, status, keys, user_created>>
          /\ user_updated' = now
          /\ calls' \in Nat
      BY <1>9 DEF UpdateLastActivity
    <2> QED
      BY <2>1, <2>2 DEF NeverBannedAndActive
  <1>10. ASSUME NEW t \in Thresholds, CheckIdleStatus(t) PROVE ProfileInv'
    <2>1. t \in Nat /\ t >= IdleDays * Day
      OBVIOUS
    <2>2. IdleDays * Day \in Nat
      OBVIOUS
    <2>3. idle' => now - user_updated > t
      BY <1>10 DEF CheckIdleStatus
    <2>4. /\ idle' \in BOOLEAN
          /\ UNCHANGED <<now, status, keys, user_updated, user_created>>
          /\ calls' \in Nat
      BY <1>10 DEF CheckIdleStatus
    <2>5. idle' => (now >= user_updated + IdleDays * Day)'
      BY <2>1, <2>2, <2>3, <2>4
    <2> QED
      BY <2>4, <2>5 DEF NeverBannedAndActive
  <1>11. CASE ProfileTick
    <2>1. PICK d \in Ticks : Tick(d) /\ UNCHANGED profile
      BY <1>11 DEF ProfileTick
    <2>2. now' \in Nat /\ now' >= now
      BY <2>1 DEF Tick
    <2>3. IdleDays * Day \in Nat
      OBVIOUS
    <2>4. UNCHANGED <<status, delegate, referrer, name, idle, user_created, user_updated>>
      BY <2>1
    <2>5. idle' => (now >= user_updated + IdleDays * Day)'
      <3>1. PICK limit \in Nat : limit = IdleDays * Day
        BY <2>3
      <3>2. idle' => now >= user_updated + limit
        BY <2>4, <3>1
      <3>3. idle' => now' >= user_updated' + limit
        BY <2>2, <2>4, <3>2
      <3> QED
        BY <3>1, <3>3
    <2>6. calls' \in Nat
      BY <2>1 DEF Tick
    <2>7. ProfileTypeOK'
      BY <2>2, <2>4, <2>6
    <2>8. /\ (user_created > 0)' /\ (user_updated >= user_created)'
          /\ (now >= user_updated)'
      BY <2>2, <2>4
    <2>9. NeverBannedAndActive' /\ (delegate # Authority)' /\ (referrer # Authority)'
      BY <2>4 DEF NeverBannedAndActive
    <2> HIDE DEF ProfileTypeOK
    <2> QED
      BY <2>5, <2>7, <2>8, <2>9
  <1>12. CASE UNCHANGED profileVars
    BY <1>12 DEF profileVars, NeverBannedAndActive
  <1> QED
    BY <1>1, <1>2, <1>3, <1>4, <1>5, <1>6, <1>7, <1>8, <1>9, <1>10, <1>11, <1>12
    DEF ProfileNext

\* A quiet time of whole days has at least as many days.
LEMMA ProfileInvSuffices == ASSUME ProfileInv PROVE ProfileConsistent
  <1> USE RuntimeAssumption, ProfileAssumption DEF ProfileInv, ProfileTypeOK
  <1>1. IdleMeansQuiet
    <2> SUFFICES ASSUME idle PROVE IdleDays <= (now - user_updated) \div Day
      <3>1. (now - user_updated) \div Day \in Int
        BY QuotientBounds
      <3> QED
        BY <3>1 DEF IdleMeansQuiet, DaysSinceUserUpdated, DaysFrom
    <2>1. IdleDays * Day <= now - user_updated
      OBVIOUS
    <2> QED
      BY <2>1, QuotientReaches
  <1>2. ValidOnceNamed
    BY DEF ValidOnceNamed, ValidUser, HasDelegate, HasReferrer
  <1> QED
    BY <1>1, <1>2 DEF ProfileConsistent

\* No order of bans, unbans, keys, names and activity leaves a profile that
\* validate_user refuses, nor a mark of idleness on a user who was active.
THEOREM ProfilesStayConsistent == ProfileSpec => []ProfileConsistent
  <1>1. ProfileSpec => []ProfileInv
    BY ProfileStarts, ProfileStep, PTL DEF ProfileSpec
  <1> QED
    BY <1>1, ProfileInvSuffices, PTL

-----------------------------------------------------------------------------
(* The amounts *)

LedgerInv == LedgerTypeOK /\ YieldConserved

LEMMA LedgerStarts == ASSUME LedgerInit PROVE LedgerInv
  BY RuntimeAssumption
     DEF LedgerInit, RuntimeInit, LedgerInv, LedgerTypeOK, YieldConserved,
         LifetimeYield, Words

\* Every method keeps the amounts words and the yield complete.
LEMMA LedgerStep ==
    ASSUME LedgerInv, [LedgerNext]_ledgerVars
    PROVE  LedgerInv'
  <1> USE RuntimeAssumption, LedgerAssumption
      DEF LedgerInv, LedgerTypeOK, YieldConserved, LifetimeYield, Words, Fits,
          Call, agentsOfUser, yieldOfUser
  <1>1. ASSUME NEW a \in Amounts, AddUnclaimedYield(a) PROVE LedgerInv'
    BY <1>1 DEF AddUnclaimedYield
  <1>2. ASSUME NEW a \in Amounts, ClaimYield(a) PROVE LedgerInv'
    BY <1>2 DEF ClaimYield
  <1>3. ASSUME NEW a \in Amounts, AddYieldClaimed(a) PROVE LedgerInv'
    BY <1>3 DEF AddYieldClaimed
  <1>4. ASSUME NEW a \in Amounts, AddAgent(a) PROVE LedgerInv'
    BY <1>4 DEF AddAgent
  <1>5. ASSUME NEW a \in Amounts, AddAgentsPurchased(a) PROVE LedgerInv'
    BY <1>5 DEF AddAgentsPurchased
  <1>6. ASSUME NEW a \in Amounts, AddFeesSpent(a) PROVE LedgerInv'
    BY <1>6 DEF AddFeesSpent
  <1>7. ASSUME NEW a \in Amounts, AddReferralEarnings(a) PROVE LedgerInv'
    BY <1>7 DEF AddReferralEarnings
  <1>8. ASSUME NEW a \in Amounts, NEW tax \in Amounts, Purchase(a, tax)
        PROVE LedgerInv'
    BY <1>8 DEF Purchase
  <1>9. CASE RemoveAgentOfUser
    BY <1>9 DEF RemoveAgentOfUser
  <1>10. CASE ResetYield
    BY <1>10 DEF ResetYield
  <1>11. CASE ResetAgents
    BY <1>11 DEF ResetAgents
  <1>12. CASE ResetFees
    BY <1>12 DEF ResetFees
  <1>13. CASE ResetReferralEarnings
    BY <1>13 DEF ResetReferralEarnings
  <1>14. CASE ResetHistory
    BY <1>14 DEF ResetHistory
  <1>15. CASE UNCHANGED ledgerVars
    BY <1>15 DEF ledgerVars
  <1> QED
    BY <1>1, <1>2, <1>3, <1>4, <1>5, <1>6, <1>7, <1>8, <1>9, <1>10, <1>11,
       <1>12, <1>13, <1>14, <1>15 DEF LedgerNext

\* Both casts move by the width of a word, or neither does.
LEMMA NetPnlIsDifference ==
    ASSUME LedgerTypeOK, SameHalf
    PROVE  NetPnl = TotalReturn - ever_purchased
  <1>1. ever_purchased \in Nat /\ TotalReturn \in Nat
    BY RuntimeAssumption DEF LedgerTypeOK, Words, TotalReturn
  <1> QED
    BY <1>1, RuntimeAssumption DEF NetPnl, SignedWord, SameHalf

LEMMA LedgerFigures == ASSUME LedgerInv PROVE LedgerConsistent
  <1> DEFINE e == ever_purchased
             r == yield_claimed
             s == referral_earnings
             Q == QuotePrecision
  <1>1. /\ e \in Nat /\ r \in Nat /\ s \in Nat /\ Q \in Nat \ {0}
        /\ TotalReturn = r + s
    BY RuntimeAssumption, LedgerAssumption
    DEF LedgerInv, LedgerTypeOK, Words, TotalReturn
  <1>2. ProfitSignsAgree
    BY <1>1, NetPnlIsDifference DEF ProfitSignsAgree, LedgerInv, IsProfitable
  <1>3. MarginIsRoiLessInvestment
    <2> SUFFICES ASSUME SameHalf, ProfitMargin > 0
                 PROVE  Roi = ProfitMargin + 100
      BY DEF MarginIsRoiLessInvestment
    <2>1. e # 0 /\ ProfitMargin = (NetPnl * 100) \div e
      BY DEF ProfitMargin
    <2>2. NetPnl = (r + s) - e
      BY <1>1, NetPnlIsDifference DEF LedgerInv
    <2> DEFINE q == ProfitMargin
    <2>3. /\ q \in Int
          /\ q * e <= ((r + s) - e) * 100
          /\ ((r + s) - e) * 100 < q * e + e
      BY <1>1, <2>1, <2>2, QuotientBounds
    <2>4. (q + 100) * e = q * e + 100 * e
      BY <1>1, <2>3
    <2>5. PICK j \in Int : j = q + 100
      BY <2>3
    <2>6. PICK y \in Nat : y = (r + s) * 100
      BY <1>1
    <2>7. j * e <= y /\ y < j * e + e
      BY <1>1, <2>3, <2>4, <2>5, <2>6
    <2>8. y \div e = j
      BY ONLY <1>1, <2>1, <2>7, QuotientIs
    <2> QED
      BY <1>1, <2>1, <2>5, <2>6, <2>8 DEF Roi, Ratio
  <1>4. RoiIsSumOfEfficiencies
    <2> DEFINE a == YieldEfficiency
               b == ReferralEfficiency
               c == Roi
    <2> SUFFICES ASSUME e > 0
                 PROVE  Q * c < 100 * (a + b + 2) /\ Q * (c + 1) > 100 * (a + b)
      BY DEF RoiIsSumOfEfficiencies
    <2>1. /\ a = (r * Q) \div e
          /\ b = (s * Q) \div e
          /\ c = ((r + s) * 100) \div e
      BY <1>1 DEF YieldEfficiency, ReferralEfficiency, Roi, Ratio
    <2>2. a \in Int /\ a * e <= r * Q /\ r * Q < a * e + e
      BY <1>1, <2>1, QuotientBounds
    <2>3. b \in Int /\ b * e <= s * Q /\ s * Q < b * e + e
      BY <1>1, <2>1, QuotientBounds
    <2>4. c \in Int /\ c * e <= (r + s) * 100 /\ (r + s) * 100 < (c + 1) * e
      BY <1>1, <2>1, QuotientBounds
    <2> HIDE DEF a, b, c
    <2>5. ((r + s) * 100) * Q = 100 * (r * Q) + 100 * (s * Q)
      BY <1>1
    <2>6. Q * c < 100 * (a + b + 2)
      <3>1. (c * e) * Q <= ((r + s) * 100) * Q
        BY <1>1, <2>4, ProductGrows
      <3>2. (Q * c) * e = (c * e) * Q
        BY <1>1, <2>4
      <3>3. (100 * (a + b + 2)) * e = 100 * (a * e) + 100 * (b * e) + 200 * e
        BY <1>1, <2>2, <2>3
      <3> DEFINE x == r * Q
                 y == s * Q
                 u == a * e
                 v == b * e
      <3>5. /\ x \in Int /\ y \in Int /\ u \in Int /\ v \in Int
            /\ x < u + e /\ y < v + e
            /\ (Q * c) * e <= 100 * x + 100 * y
            /\ (100 * (a + b + 2)) * e = 100 * u + 100 * v + 200 * e
        BY <1>1, <2>2, <2>3, <2>5, <3>1, <3>2, <3>3
      <3> HIDE DEF x, y, u, v
      <3>6. 100 * x + 100 * y < 100 * u + 100 * v + 200 * e
        BY <1>1, <3>5
      <3>7. (Q * c) * e \in Int
        BY <1>1, <2>4
      <3>4. (Q * c) * e < (100 * (a + b + 2)) * e
        BY <1>1, <3>5, <3>6, <3>7
      <3> QED
        BY <1>1, <2>2, <2>3, <2>4, <3>4, FactorIsLess
    <2>7. 100 * (a + b) < Q * (c + 1)
      <3>1. ((r + s) * 100 + 1) * Q <= ((c + 1) * e) * Q
        BY <1>1, <2>4, ProductGrows
      <3>2. (Q * (c + 1)) * e = ((c + 1) * e) * Q
        BY <1>1, <2>4
      <3>3. (100 * (a + b)) * e = 100 * (a * e) + 100 * (b * e)
        BY <1>1, <2>2, <2>3
      <3>4. ((r + s) * 100 + 1) * Q = ((r + s) * 100) * Q + Q
        BY <1>1
      <3> DEFINE x == r * Q
                 y == s * Q
                 u == a * e
                 v == b * e
      <3>6. /\ x \in Int /\ y \in Int /\ u \in Int /\ v \in Int
            /\ u <= x /\ v <= y
            /\ 100 * x + 100 * y + Q <= (Q * (c + 1)) * e
            /\ (100 * (a + b)) * e = 100 * u + 100 * v
        BY <1>1, <2>2, <2>3, <2>5, <3>1, <3>2, <3>3, <3>4
      <3> HIDE DEF x, y, u, v
      <3>7. 100 * u + 100 * v < 100 * x + 100 * y + Q
        BY <1>1, <3>6
      <3>8. (Q * (c + 1)) * e \in Int
        BY <1>1, <2>4
      <3>5. (100 * (a + b)) * e < (Q * (c + 1)) * e
        BY <1>1, <3>6, <3>7, <3>8
      <3> QED
        BY <1>1, <2>2, <2>3, <2>4, <3>5, FactorIsLess
    <2> QED
      BY <1>1, <2>2, <2>3, <2>4, <2>6, <2>7
  <1> QED
    BY <1>2, <1>3, <1>4 DEF LedgerConsistent, LedgerInv

\* Yield is conserved and profit, margin, return and efficiencies agree,
\* after any calls, for every width of the words and every precision.
THEOREM LedgersStayConsistent == LedgerSpec => []LedgerConsistent
  <1>1. LedgerSpec => []LedgerInv
    BY LedgerStarts, LedgerStep, PTL DEF LedgerSpec
  <1> QED
    BY <1>1, LedgerFigures, PTL

-----------------------------------------------------------------------------
(* The registry of a referrer *)

\* What keeps the registry valid: it counts nobody before it is written, its
\* times lie behind the clock, and earnings are complete.
ReferralInv ==
    /\ ReferralTypeOK
    /\ EarningsConserved
    /\ now > 0
    /\ registry.referrer = NoReferrer => registry.users = 0
    /\ registry.referrer # NoReferrer =>
          /\ registry.created_at > 0
          /\ registry.created_at <= registry.updated_at
    /\ registry.created_at <= now

LEMMA ReferralStarts == ASSUME ReferralInit PROVE ReferralInv
  BY RuntimeAssumption
     DEF ReferralInit, RuntimeInit, ReferralInv, ReferralTypeOK, RegistryType,
         LinkType, EarningsConserved, AggregateEarnings, Words

LEMMA ReferralStep ==
    ASSUME ReferralInv, [ReferralNext]_referralVars
    PROVE  ReferralInv'
  <1> USE RuntimeAssumption, ReferralAssumption
      DEF ReferralInv, ReferralTypeOK, RegistryType, EarningsConserved,
          AggregateEarnings, Words, Fits, Call
  <1>1. ASSUME NEW e \in Earnings, AddRegistryEarnings(e) PROVE ReferralInv'
    BY <1>1 DEF AddRegistryEarnings
  <1>2. ASSUME NEW e \in Earnings, AddUnclaimedEarnings(e) PROVE ReferralInv'
    BY <1>2 DEF AddUnclaimedEarnings
  <1>3. ASSUME NEW e \in Earnings, ClaimEarnings(e) PROVE ReferralInv'
    <2>1. /\ e \in Nat /\ e <= registry.uc /\ registry.claimed + e \in Words
          /\ registry.uc - e \in Words
      BY <1>3 DEF ClaimEarnings
    <2>2. /\ registry' \in RegistryType
          /\ registry'.uc = registry.uc - e
          /\ registry'.claimed = registry.claimed + e
          /\ registry'.referrer = registry.referrer
          /\ registry'.users = registry.users
          /\ registry'.created_at = registry.created_at
          /\ registry'.updated_at = registry.updated_at
      BY <1>3, <2>1 DEF ClaimEarnings
    <2>3. UNCHANGED <<now, link, credited>> /\ calls' \in Nat
      BY <1>3 DEF ClaimEarnings
    <2> QED
      BY <2>1, <2>2, <2>3
  <1>4. CASE UpdateRegistryTimestamp
    BY <1>4 DEF UpdateRegistryTimestamp
  <1>5. CASE ResetEarnings
    <2>1. /\ registry' \in RegistryType
          /\ registry'.uc = 0 /\ registry'.claimed = 0 /\ credited' = 0
          /\ registry'.referrer = registry.referrer
          /\ registry'.users = registry.users
          /\ registry'.created_at = registry.created_at
          /\ registry'.updated_at = registry.updated_at
      <3>1. registry' = [registry EXCEPT !.claimed = 0, !.uc = 0] /\ credited' = 0
        BY <1>5 DEF ResetEarnings
      <3>2. 0 \in 0 .. MaxU64
        OBVIOUS
      <3> QED
        BY <3>1, <3>2
    <2>2. UNCHANGED <<now, link>> /\ calls' \in Nat
      BY <1>5 DEF ResetEarnings
    <2> QED
      BY <2>1, <2>2
  <1>6. CASE UpdateLinkTimestamp
    BY <1>6 DEF UpdateLinkTimestamp, LinkType
  <1>7. CASE ResetLink
    BY <1>7 DEF ResetLink, LinkType
  <1>8. ASSUME NEW b \in BOOLEAN, Register(b) PROVE ReferralInv'
    <2>1. /\ registry' \in RegistryType
          /\ registry'.referrer = Referrer
          /\ registry'.updated_at = now
          /\ registry'.created_at = IF registry.referrer = NoReferrer THEN now
                                    ELSE registry.created_at
          /\ registry'.uc = registry.uc /\ registry'.claimed = registry.claimed
      <3>1. PICK c \in Nat : c = IF registry.referrer = NoReferrer THEN now
                               ELSE registry.created_at
        OBVIOUS
      <3>2. registry' = [registry EXCEPT !.referrer = Referrer, !.created_at = c,
                             !.users = registry.users + 1, !.updated_at = now]
        BY <1>8, <3>1 DEF Register, Counted
      <3>3. registry.users + 1 \in Nat
        OBVIOUS
      <3> QED
        BY <3>1, <3>2, <3>3
    <2>2. link' \in LinkType
      BY <1>8 DEF Register, NewLink, LinkType
    <2>3. UNCHANGED <<now, credited>> /\ calls' \in Nat
      BY <1>8 DEF Register
    <2> QED
      BY <2>1, <2>2, <2>3
  <1>9. CASE ReferralTick
    BY <1>9 DEF ReferralTick, Tick
  <1>10. CASE UNCHANGED referralVars
    BY <1>10 DEF referralVars
  <1> QED
    BY <1>1, <1>2, <1>3, <1>4, <1>5, <1>6, <1>7, <1>8, <1>9, <1>10 DEF ReferralNext

LEMMA ReferralInvSuffices == ASSUME ReferralInv PROVE ReferralsConsistent
  BY DEF ReferralInv, ReferralsConsistent, RegistryValidOnceUsed, ValidRegistry,
         ReferralTypeOK, RegistryType

\* Earnings are complete, and the registry passes its validation from the
\* first referral on, after any calls at any times.
THEOREM RegistriesStayConsistent == ReferralSpec => []ReferralsConsistent
  <1>1. ReferralSpec => []ReferralInv
    BY ReferralStarts, ReferralStep, PTL DEF ReferralSpec
  <1> QED
    BY <1>1, ReferralInvSuffices, PTL
=============================================================================
