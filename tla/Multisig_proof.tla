--------------------------- MODULE Multisig_proof ---------------------------
(***************************************************************************)
(* Proofs about Multisig for every set of members, quorum, set of          *)
(* instructions and value of the time constants.                           *)
(***************************************************************************)
EXTENDS Multisig, FiniteSetTheorems, TLAPS

USE DEF account, history

-----------------------------------------------------------------------------
(* Facts about the operators of sign_multisig *)

\* The quorum is a positive number of members, the limits are positive.
LEMMA ConstantFacts ==
    /\ Cardinality(Members) \in Nat
    /\ MinSignatures \in Nat \ {0}
    /\ MinSignatures <= Cardinality(Members)
    /\ RateWindow \in Nat \ {0} /\ RateLimit \in Nat \ {0}
    /\ SignatureTimeout \in Nat \ {0}
    /\ Epoch \in Nat /\ Epoch >= RateWindow
    /\ Nonces \subseteq Nat
    /\ NoInstr \notin Instrs
  <1>1. Cardinality(Members) \in Nat
    BY FS_CardinalityType, QuorumAssumption
  <1> QED
    BY <1>1, QuorumAssumption, LimitAssumption, ClockAssumption,
       NonceAssumption, InstrAssumption

\* A set of members is finite; its count grows by one with a new member.
LEMMA MemberSets ==
    ASSUME NEW S \in SUBSET Members
    PROVE  /\ IsFiniteSet(S)
           /\ Cardinality(S) \in Nat
           /\ \A s \in Members : s \notin S =>
                  Cardinality(S \cup {s}) = Cardinality(S) + 1
  <1>1. IsFiniteSet(S)
    BY QuorumAssumption, FS_Subset
  <1>2. Cardinality(S) \in Nat
    BY <1>1, FS_CardinalityType
  <1>3. \A s : s \notin S => Cardinality(S \cup {s}) = Cardinality(S) + 1
    BY <1>1, FS_AddElement
  <1> QED
    BY <1>1, <1>2, <1>3

\* The deadline in force is positive and at most one timeout ahead.
LEMMA DeadlineFacts ==
    ASSUME TypeOK, ClockInv
    PROVE  /\ Deadline \in Nat
           /\ Deadline > 0
           /\ Deadline <= now + SignatureTimeout
           /\ signature_timeout > 0 => Deadline = signature_timeout
           /\ signature_timeout = 0 => Deadline = now + SignatureTimeout
  BY ConstantFacts DEF Deadline, TypeOK, ClockInv

\* What is left of the collection when a member signs.
LEMMA LiveFacts ==
    ASSUME TypeOK, CountMatchesBitmap
    PROVE  /\ LiveSigned \in SUBSET Members
           /\ LiveSigned \subseteq signed
           /\ LiveCount \in 0 .. MinSignatures
           /\ LiveCount = Cardinality(LiveSigned)
           /\ LiveSigned # {} => ~Expired /\ LiveSigned = signed
  <1>1. Cardinality({}) = 0
    BY FS_EmptySet
  <1> QED
    BY <1>1, ConstantFacts DEF LiveSigned, LiveCount, TypeOK, CountMatchesBitmap

\* The counter after a signature: 1 after a quiet window, else one more.
LEMMA CountFacts ==
    ASSUME TypeOK, ClockInv, RunInv, ~RateLimited
    PROVE  \/ /\ now - last_signature_time >= RateWindow
              /\ CountAfter = 1
           \/ /\ now - last_signature_time < RateWindow
              /\ CountAfter = signature_count + 1
              /\ signature_count < RateLimit
  BY ConstantFacts DEF CountAfter, RateLimited, TypeOK

\* The three ways a signature is accepted leave a bitmap made of what was
\* live, or nothing, and the signer; with one member it stays empty.
LEMMA OutcomeFacts ==
    ASSUME TypeOK, CountMatchesBitmap, BitmapInv,
           NEW s \in Members, NEW i \in Instrs, NEW n \in Nonces,
           NEW left \in 0 .. MinSignatures,
           SignMultisig(s, i, n, left)
    PROVE  /\ signed' \subseteq LiveSigned \cup {s}
           /\ signed' \in SUBSET Members
           /\ num_signed' \in 0 .. MinSignatures
           /\ num_signed' = Cardinality(signed')
           /\ instr' \in Instrs \cup {NoInstr}
           /\ nonce' \in Nat
           /\ Cardinality(Members) <= 1 => signed' = {}
           /\ Cardinality(Members) > 1 =>
                  /\ instr' = i
                  /\ left = MinSignatures - num_signed'
                  /\ i # instr => signed' = {s}
                  /\ i = instr => /\ LiveCount < MinSignatures
                                  /\ s \notin LiveSigned
                                  /\ signed' = LiveSigned \cup {s}
  <1>1. CASE SingleSigner(s, i, n, left)
    <2>1. LiveSigned = {}
      BY <1>1, LiveFacts DEF SingleSigner, BitmapInv
    <2> QED
      BY <1>1, <2>1, LiveFacts, ConstantFacts DEF SingleSigner, TypeOK
  <1>2. CASE NewInstruction(s, i, n, left)
    <2>1. Cardinality({s}) = 1
      BY FS_Singleton
    <2> QED
      BY <1>2, <2>1, ConstantFacts DEF NewInstruction
  <1>3. CASE AddSignature(s, i, n, left)
    <2>1. Cardinality(LiveSigned \cup {s}) = Cardinality(LiveSigned) + 1
      BY <1>3, LiveFacts, MemberSets DEF AddSignature
    <2> QED
      BY <1>3, <2>1, LiveFacts, ConstantFacts DEF AddSignature, TypeOK
  <1> QED
    BY <1>1, <1>2, <1>3 DEF SignMultisig

-----------------------------------------------------------------------------
(* Each conjunct of the invariant through a signature *)

\* A signature keeps the types of the account and of its history.
LEMMA SignTypeOK ==
    ASSUME ApiInv,
           NEW s \in Members, NEW i \in Instrs, NEW n \in Nonces,
           NEW left \in 0 .. MinSignatures,
           SignMultisig(s, i, n, left)
    PROVE  TypeOK' /\ CountMatchesBitmap'
  <1> USE DEF ApiInv
  <1>1. /\ now' = now /\ stamps' = Append(stamps, now)
        /\ Len(stamps') = Len(stamps) + 1
        /\ stamps' \in Seq(Nat) /\ now' \in Nat
    BY DEF SignMultisig, TypeOK
  <1>2. signature_timeout' \in Nat /\ last_signature_time' \in Nat
    BY DeadlineFacts DEF SignMultisig, TypeOK
  <1>3. signature_count' \in 0 .. RateLimit
    <2>1. ~RateLimited /\ signature_count' = CountAfter
      BY DEF SignMultisig
    <2> QED
      BY <2>1, CountFacts, ConstantFacts DEF TypeOK
  <1>4. turn' \in [Members -> 0 .. Len(stamps')]
    BY <1>1 DEF SignMultisig, TypeOK
  <1>5. doneAt' \in [Instrs -> 0 .. Len(stamps')]
    BY <1>1 DEF SignMultisig, TypeOK
  <1>6. /\ signed' \in SUBSET Members
        /\ num_signed' \in 0 .. MinSignatures
        /\ num_signed' = Cardinality(signed')
        /\ instr' \in Instrs \cup {NoInstr}
        /\ nonce' \in Nat
    BY OutcomeFacts
  <1> QED
    BY <1>1, <1>2, <1>3, <1>4, <1>5, <1>6 DEF TypeOK, CountMatchesBitmap

\* A signature stores times the clock has reached, and one deadline.
LEMMA SignClockInv ==
    ASSUME ApiInv,
           NEW s \in Members, NEW i \in Instrs, NEW n \in Nonces,
           NEW left \in 0 .. MinSignatures,
           SignMultisig(s, i, n, left)
    PROVE  ClockInv'
  BY DeadlineFacts, ConstantFacts DEF ApiInv, TypeOK, ClockInv, SignMultisig

\* A signature adds its time at the end of the ordered stamps.
LEMMA SignStampInv ==
    ASSUME ApiInv,
           NEW s \in Members, NEW i \in Instrs, NEW n \in Nonces,
           NEW left \in 0 .. MinSignatures,
           SignMultisig(s, i, n, left)
    PROVE  /\ StampInv'
           /\ \A k \in 1 .. Len(stamps) : stamps[k] <= now
  <1> USE DEF ApiInv
  <1>1. /\ stamps \in Seq(Nat) /\ now \in Nat
        /\ stamps' = Append(stamps, now)
        /\ last_signature_time' = now
    BY DEF SignMultisig, TypeOK
  <1>2. \A k \in 1 .. Len(stamps) : stamps[k] <= now
    <2>1. SUFFICES ASSUME NEW k \in 1 .. Len(stamps)
                   PROVE  stamps[k] <= now
      OBVIOUS
    <2>2. /\ Len(stamps) \in 1 .. Len(stamps) /\ k <= Len(stamps)
          /\ stamps[k] \in Nat
      BY <1>1
    <2>3. stamps[k] <= last_signature_time /\ last_signature_time \in Nat
      BY <2>2 DEF StampInv, TypeOK
    <2> QED
      BY <1>1, <2>2, <2>3 DEF ClockInv
  <1> QED
    BY <1>1, <1>2 DEF StampInv

\* The sliding window: a run never holds more than RateLimit signatures, and
\* a window never reaches back over the gap before the run.
LEMMA SignRunInv ==
    ASSUME ApiInv,
           NEW s \in Members, NEW i \in Instrs, NEW n \in Nonces,
           NEW left \in 0 .. MinSignatures,
           SignMultisig(s, i, n, left)
    PROVE  RunInv' /\ AtMostRateLimitPerWindow'
  <1> USE DEF ApiInv
  <1> DEFINE L == Len(stamps)
             c == signature_count
  <1>1. /\ stamps \in Seq(Nat) /\ now \in Nat /\ L \in Nat /\ c \in 0 .. L
        /\ stamps' = Append(stamps, now) /\ Len(stamps') = L + 1
        /\ stamps'[L + 1] = now
        /\ \A k \in 1 .. L : stamps'[k] = stamps[k] /\ stamps[k] \in Nat
        /\ last_signature_time \in Nat
    BY DEF SignMultisig, TypeOK, RunInv
  <1>2. /\ signature_count' = CountAfter
        /\ ~RateLimited
    BY DEF SignMultisig
  <1>3. \A k \in 1 .. L : stamps[k] <= last_signature_time
    BY <1>1 DEF StampInv
  <1>4. L = 0 => now - last_signature_time >= RateWindow
    BY <1>1, ConstantFacts DEF StampInv, ClockInv
  <1>5. CASE now - last_signature_time >= RateWindow
    <2>1. signature_count' = 1
      BY <1>2, <1>5, CountFacts, ConstantFacts, <1>1
    <2>2. \A k \in 1 .. L : stamps[k] + RateWindow <= now
      BY <1>1, <1>3, <1>5, ConstantFacts
    <2>3. RunInv'
      BY <1>1, <2>1, <2>2 DEF RunInv
    <2>4. AtMostRateLimitPerWindow'
      BY <1>1, <2>2, ConstantFacts DEF AtMostRateLimitPerWindow
    <2> QED
      BY <2>3, <2>4
  <1>6. CASE now - last_signature_time < RateWindow
    <2>1. signature_count' = c + 1 /\ c < RateLimit
      BY <1>2, <1>6, CountFacts, ConstantFacts, <1>1
    <2>2. L > 0 /\ c > 0
      BY <1>1, <1>4, <1>6, ConstantFacts DEF RunInv
    <2>3. \A k \in 1 .. L - c : stamps[k] + RateWindow <= stamps[L - c + 1]
      BY DEF RunInv
    <2>4. L - c + 1 \in 1 .. L
      BY <1>1, <2>2
    <2>5. RunInv'
      BY <1>1, <2>1, <2>2, <2>3, <2>4 DEF RunInv
    <2>6. stamps[L - c + 1] <= now
      BY <1>1, <1>3, <2>4 DEF ClockInv
    <2>7. AtMostRateLimitPerWindow'
      <3>1. SUFFICES ASSUME NEW k \in 1 .. (L + 1) - RateLimit
                     PROVE  stamps'[k + RateLimit] - stamps'[k] >= RateWindow
        BY <1>1 DEF AtMostRateLimitPerWindow
      <3>2. CASE k + RateLimit <= L
        BY <1>1, <3>2, ConstantFacts DEF AtMostRateLimitPerWindow
      <3>3. CASE k + RateLimit = L + 1
        <4>1. k \in 1 .. L - c /\ k \in 1 .. L
          BY <1>1, <2>1, <3>3, ConstantFacts
        <4>2. stamps[k] + RateWindow <= stamps[L - c + 1]
          BY <2>3, <4>1
        <4>3. /\ stamps[k] \in Nat /\ stamps[L - c + 1] \in Nat
              /\ now \in Nat /\ RateWindow \in Nat
          BY <1>1, <2>4, <4>1, ConstantFacts
        <4>4. now - stamps[k] >= RateWindow
          <5> HIDE DEF L, c
          <5> QED
            BY <2>6, <4>2, <4>3
        <4>5. stamps'[k + RateLimit] = now /\ stamps'[k] = stamps[k]
          <5> HIDE DEF L, c
          <5>1. k + RateLimit = L + 1
            BY <3>3
          <5> QED
            BY <1>1, <4>1, <5>1
        <4> QED
          <5>1. stamps'[k + RateLimit] - stamps'[k] = now - stamps[k]
            BY <4>5, Zenon
          <5> QED
            BY <4>4, <5>1, Zenon
      <3>4. k + RateLimit <= L \/ k + RateLimit = L + 1
        <4>1. k \in 1 .. (L + 1) - RateLimit /\ L \in Nat /\ RateLimit \in Nat
          BY <1>1, <3>1, ConstantFacts
        <4> HIDE DEF L
        <4> QED
          BY <4>1
      <3> QED
        BY <3>2, <3>3, <3>4, Zenon
    <2> QED
      BY <2>5, <2>7
  <1> QED
    BY <1>1, <1>5, <1>6, ConstantFacts

\* Every bit a signature leaves set stands for a signature that is not
\* older than the timeout before the deadline.
LEMMA SignBitmapInv ==
    ASSUME ApiInv,
           NEW s \in Members, NEW i \in Instrs, NEW n \in Nonces,
           NEW left \in 0 .. MinSignatures,
           SignMultisig(s, i, n, left)
    PROVE  BitmapInv'
  <1> USE DEF ApiInv
  <1> DEFINE L == Len(stamps)
  <1>1. /\ stamps \in Seq(Nat) /\ now \in Nat /\ L \in Nat
        /\ stamps' = Append(stamps, now)
        /\ stamps'[L + 1] = now
        /\ \A k \in 1 .. L : stamps'[k] = stamps[k] /\ stamps[k] \in Nat
        /\ signature_timeout' = Deadline
        /\ turn' = [turn EXCEPT ![s] = L + 1]
        /\ turn \in [Members -> 0 .. L]
        /\ doneAt \in [Instrs -> 0 .. L]
        /\ signed \in SUBSET Members
    BY DEF SignMultisig, TypeOK
  <1>2. /\ Deadline > 0 /\ Deadline \in Nat
        /\ Deadline <= now + SignatureTimeout
        /\ signature_timeout > 0 => Deadline = signature_timeout
    BY DeadlineFacts
  <1>3. signed' \subseteq signed \cup {s} /\ signed' \subseteq Members
    BY OutcomeFacts, LiveFacts
  <1>4. Cardinality(Members) <= 1 => signed' = {}
    BY OutcomeFacts
  <1>5. SUFFICES ASSUME NEW m \in signed'
                 PROVE  /\ turn'[m] > 0
                        /\ signature_timeout' > 0
                        /\ stamps'[turn'[m]] + SignatureTimeout
                               >= signature_timeout'
    BY <1>4 DEF BitmapInv
  <1>6. CASE m = s
    BY <1>1, <1>2, <1>3, <1>6
  <1>7. CASE m # s
    <2>1. m \in signed /\ m \in Members
      BY <1>3, <1>7
    <2>2. /\ turn'[m] = turn[m] /\ turn[m] \in 1 .. L
          /\ signature_timeout > 0
          /\ stamps[turn[m]] + SignatureTimeout >= signature_timeout
      BY <1>1, <1>7, <2>1 DEF BitmapInv
    <2> QED
      BY <1>1, <1>2, <2>2
  <1> QED
    BY <1>6, <1>7

\* A member whose bit counts towards an incomplete collection has signed
\* since the last execution of the instruction.
LEMMA SignPendingInv ==
    ASSUME IInv,
           NEW s \in Members, NEW i \in Instrs, NEW n \in Nonces,
           NEW left \in 0 .. MinSignatures,
           SignMultisig(s, i, n, left)
    PROVE  PendingInv'
  <1> USE DEF IInv, ApiInv
  <1> DEFINE L == Len(stamps)
  <1>1. /\ stamps \in Seq(Nat) /\ now \in Nat /\ L \in Nat
        /\ stamps' = Append(stamps, now)
        /\ stamps'[L + 1] = now
        /\ \A k \in 1 .. L : stamps'[k] = stamps[k] /\ stamps[k] \in Nat
        /\ turn' = [turn EXCEPT ![s] = L + 1]
        /\ turn \in [Members -> 0 .. L]
        /\ doneAt \in [Instrs -> 0 .. L]
    BY DEF SignMultisig, TypeOK
  <1>2. signed' \subseteq signed \cup {s} /\ signed' \subseteq Members
    BY OutcomeFacts, LiveFacts
  <1>3. SUFFICES ASSUME instr' \in Instrs, num_signed' < MinSignatures,
                        NEW m \in signed'
                 PROVE  turn'[m] > doneAt'[instr']
    BY DEF PendingInv
  <1>4. /\ Cardinality(Members) > 1 /\ instr' = i
        /\ left = MinSignatures - num_signed'
        /\ i # instr => signed' = {s}
        /\ i = instr => LiveCount < MinSignatures
    <2>1. Cardinality(Members) > 1
      BY <1>3, OutcomeFacts, ConstantFacts
    <2> QED
      BY <2>1, OutcomeFacts
  <1>5. doneAt' = doneAt
    <2>1. num_signed' \in 0 .. MinSignatures /\ MinSignatures \in Nat
      BY OutcomeFacts, ConstantFacts
    <2>2. left = MinSignatures - num_signed' /\ num_signed' < MinSignatures
      BY <1>3, <1>4
    <2>3. \A b \in 0 .. MinSignatures :
              b < MinSignatures /\ left = MinSignatures - b => left # 0
      BY <2>1
    <2>4. left # 0
      BY <2>1, <2>2, <2>3, Zenon
    <2> QED
      BY <2>4 DEF SignMultisig
  <1>6. CASE m = s
    BY <1>1, <1>2, <1>4, <1>5, <1>6
  <1>7. CASE m # s
    <2>1. m \in LiveSigned /\ i = instr /\ m \in Members
      BY <1>2, <1>4, <1>7, OutcomeFacts
    <2>2. m \in signed /\ num_signed < MinSignatures
      BY <1>4, <2>1, LiveFacts DEF LiveCount
    <2>3. turn[m] > doneAt[instr]
      BY <2>1, <2>2 DEF PendingInv
    <2> QED
      BY <1>1, <1>4, <1>5, <1>7, <2>1, <2>3
  <1> QED
    BY <1>6, <1>7

-----------------------------------------------------------------------------
(* The invariant *)

\* set_signers leaves an account that satisfies the invariant.
LEMMA InitIInv == Init => IInv
  <1> SUFFICES ASSUME Init PROVE IInv
    OBVIOUS
  <1> USE ConstantFacts DEF Init
  <1>1. TypeOK
    BY DEF TypeOK
  <1>2. CountMatchesBitmap
    BY FS_EmptySet DEF CountMatchesBitmap
  <1>3. ClockInv /\ StampInv /\ RunInv
    BY DEF ClockInv, StampInv, RunInv
  <1>4. AtMostRateLimitPerWindow
    BY DEF AtMostRateLimitPerWindow
  <1>5. BitmapInv /\ PendingInv
    BY DEF BitmapInv, PendingInv
  <1> QED
    BY <1>1, <1>2, <1>3, <1>4, <1>5 DEF IInv, ApiInv

\* Time passes and nothing else: only ClockInv reads the clock.
LEMMA TickApiInv == ApiInv /\ Tick => ApiInv'
  <1> SUFFICES ASSUME ApiInv, Tick PROVE ApiInv'
    OBVIOUS
  <1>1. TypeOK' /\ CountMatchesBitmap'
    BY DEF ApiInv, Tick, TypeOK, CountMatchesBitmap
  <1>2. ClockInv'
    BY ConstantFacts DEF ApiInv, Tick, ClockInv, TypeOK
  <1>3. StampInv' /\ RunInv' /\ AtMostRateLimitPerWindow'
    BY DEF ApiInv, Tick, StampInv, RunInv, AtMostRateLimitPerWindow
  <1>4. BitmapInv'
    BY DEF ApiInv, Tick, BitmapInv
  <1> QED
    BY <1>1, <1>2, <1>3, <1>4 DEF ApiInv

\* A signature that is taken back leaves a bit less and a count one lower;
\* the limiter and the deadline stay as they were.
LEMMA UnsignApiInv ==
    ASSUME ApiInv, NEW s \in Members, UnsignMultisig(s)
    PROVE  ApiInv'
  <1>1. /\ s \in signed /\ signed' = signed \ {s}
        /\ num_signed' = num_signed - 1
        /\ signed \in SUBSET Members
        /\ num_signed \in 0 .. MinSignatures
        /\ num_signed = Cardinality(signed)
    BY DEF ApiInv, UnsignMultisig, TypeOK, CountMatchesBitmap
  <1>2. num_signed' = Cardinality(signed')
    <2>1. Cardinality(signed \ {s}) = Cardinality(signed) - 1
      BY <1>1, MemberSets, FS_RemoveElement
    <2> QED
      BY <1>1, <2>1
  <1>3. num_signed' \in 0 .. MinSignatures
    <2>1. num_signed # 0
      BY <1>1, MemberSets, FS_EmptySet
    <2> QED
      BY <1>1, <2>1, ConstantFacts
  <1>4. TypeOK' /\ CountMatchesBitmap'
    BY <1>1, <1>2, <1>3
    DEF ApiInv, UnsignMultisig, TypeOK, CountMatchesBitmap
  <1>5. ClockInv' /\ StampInv' /\ RunInv' /\ AtMostRateLimitPerWindow'
    BY DEF ApiInv, UnsignMultisig, ClockInv, StampInv, RunInv,
           AtMostRateLimitPerWindow
  <1>6. BitmapInv'
    BY <1>1 DEF ApiInv, UnsignMultisig, BitmapInv
  <1> QED
    BY <1>4, <1>5, <1>6 DEF ApiInv

\* What every call of the account's interface keeps.
LEMMA ApiNextInv == ApiInv /\ [ApiNext]_vars => ApiInv'
  <1> SUFFICES ASSUME ApiInv, [ApiNext]_vars PROVE ApiInv'
    OBVIOUS
  <1>1. CASE Tick
    BY <1>1, TickApiInv
  <1>2. ASSUME NEW s \in Members, NEW i \in Instrs, NEW n \in Nonces,
               NEW left \in 0 .. MinSignatures, SignMultisig(s, i, n, left)
        PROVE  ApiInv'
    BY <1>2, SignTypeOK, SignClockInv, SignStampInv, SignRunInv, SignBitmapInv
    DEF ApiInv
  <1>3. ASSUME NEW s \in Members, UnsignMultisig(s)
        PROVE  ApiInv'
    BY <1>3, UnsignApiInv
  <1>4. CASE UNCHANGED vars
    BY <1>4 DEF ApiInv, vars, TypeOK, CountMatchesBitmap, ClockInv, StampInv,
                RunInv, AtMostRateLimitPerWindow, BitmapInv
  <1> QED
    BY <1>1, <1>2, <1>3, <1>4 DEF ApiNext, Next

\* The invariant is inductive: a tick keeps it, and so does a signature.
LEMMA NextIInv == IInv /\ [Next]_vars => IInv'
  <1> SUFFICES ASSUME IInv, [Next]_vars PROVE IInv'
    OBVIOUS
  <1>1. ApiInv'
    BY ApiNextInv DEF IInv, ApiNext
  <1>2. PendingInv'
    <2>1. CASE Tick
      BY <2>1 DEF IInv, Tick, PendingInv
    <2>2. ASSUME NEW s \in Members, NEW i \in Instrs, NEW n \in Nonces,
                 NEW left \in 0 .. MinSignatures, SignMultisig(s, i, n, left)
          PROVE  PendingInv'
      BY <2>2, SignPendingInv
    <2>3. CASE UNCHANGED vars
      BY <2>3 DEF IInv, vars, PendingInv
    <2> QED
      BY <2>1, <2>2, <2>3 DEF Next
  <1> QED
    BY <1>1, <1>2 DEF IInv

\* The account's invariant holds in every reachable state.
THEOREM Invariance == Spec => []IInv
  BY InitIInv, NextIInv, PTL DEF Spec

\* The fields keep their types: in particular the signature counter stays at
\* or below the rate limit and the count of signatures below the quorum.
THEOREM TypeCorrect == Spec => []TypeOK
  <1>1. IInv => TypeOK
    BY DEF IInv, ApiInv
  <1> QED
    BY <1>1, Invariance, PTL

\* validate_state's first check can never fail: the count of signatures is
\* that of the bits of the bitmap.
THEOREM CountIsBitmap == Spec => []CountMatchesBitmap
  <1>1. IInv => CountMatchesBitmap
    BY DEF IInv, ApiInv
  <1> QED
    BY <1>1, Invariance, PTL

\* No window of RateWindow seconds holds more than RateLimit signatures.
THEOREM RateIsLimited == Spec => []AtMostRateLimitPerWindow
  <1>1. IInv => AtMostRateLimitPerWindow
    BY DEF IInv, ApiInv
  <1> QED
    BY <1>1, Invariance, PTL

-----------------------------------------------------------------------------
(* Action properties *)

\* Only a signature executes anything, and it is the instruction it names.
LEMMA ExecutionFacts ==
    ASSUME ApiInv, [ApiNext]_vars, NEW j \in Instrs, doneAt'[j] # doneAt[j]
    PROVE  \E s \in Members, n \in Nonces : SignMultisig(s, j, n, 0)
  <1>1. CASE Tick
    BY <1>1 DEF Tick
  <1>2. CASE UNCHANGED vars
    BY <1>2 DEF vars
  <1>3. ASSUME NEW s \in Members, NEW i \in Instrs, NEW n \in Nonces,
               NEW left \in 0 .. MinSignatures, SignMultisig(s, i, n, left)
        PROVE  left = 0 /\ i = j
    BY <1>3 DEF SignMultisig, ApiInv, TypeOK
  <1>4. ASSUME NEW s \in Members, UnsignMultisig(s)
        PROVE  FALSE
    BY <1>4 DEF UnsignMultisig
  <1> QED
    BY <1>1, <1>2, <1>3, <1>4 DEF ApiNext, Next

\* Every signature counted in an execution is at most one timeout old: it is
\* live, so the deadline has not passed, and it was made no earlier than one
\* timeout before the deadline.
LEMMA FreshQuorumStep ==
    ASSUME ApiInv, [ApiNext]_vars, Executes, NEW m \in signed'
    PROVE  now - stamps'[turn'[m]] <= SignatureTimeout
  <1>1. PICK j \in Instrs : doneAt'[j] # doneAt[j]
    BY DEF Executes
  <1>2. PICK s \in Members, n \in Nonces : SignMultisig(s, j, n, 0)
    BY <1>1, ExecutionFacts
  <1>3. 0 \in 0 .. MinSignatures
    BY ConstantFacts
  <1> DEFINE L == Len(stamps)
  <1>4. /\ stamps \in Seq(Nat) /\ now \in Nat /\ L \in Nat
        /\ stamps' = Append(stamps, now) /\ stamps'[L + 1] = now
        /\ \A k \in 1 .. L : stamps'[k] = stamps[k] /\ stamps[k] \in Nat
        /\ turn' = [turn EXCEPT ![s] = L + 1] /\ turn \in [Members -> 0 .. L]
        /\ signed \in SUBSET Members
    BY <1>2 DEF SignMultisig, ApiInv, TypeOK
  <1>5. signed' \subseteq LiveSigned \cup {s}
    BY <1>2, <1>3, OutcomeFacts DEF ApiInv
  <1>6. CASE m = s
    <2>1. stamps'[turn'[m]] = now
      BY <1>4, <1>6
    <2>2. now - now <= SignatureTimeout
      BY <1>4, ConstantFacts
    <2> QED
      BY <2>1, <2>2, Zenon
  <1>7. CASE m # s
    <2>1. m \in LiveSigned
      BY <1>5, <1>7
    <2>2. ~Expired /\ m \in signed /\ m \in Members
      BY <1>4, <2>1, LiveFacts DEF ApiInv
    <2>3. turn'[m] = turn[m] /\ turn[m] \in 1 .. L
      BY <1>4, <1>7, <2>2 DEF ApiInv, BitmapInv
    <2>4. stamps'[turn'[m]] = stamps[turn[m]] /\ stamps[turn[m]] \in Nat
      BY <1>4, <2>3
    <2>5. /\ signature_timeout > 0 /\ signature_timeout \in Nat
          /\ stamps[turn[m]] + SignatureTimeout >= signature_timeout
      BY <2>2 DEF ApiInv, BitmapInv, TypeOK
    <2>6. num_signed > 0
      <3>1. Cardinality(signed) # 0
        BY <1>4, <2>2, MemberSets, FS_EmptySet
      <3> QED
        BY <3>1 DEF ApiInv, CountMatchesBitmap, TypeOK
    <2>7. now <= signature_timeout
      BY <1>4, <2>2, <2>5, <2>6 DEF Expired, Deadline
    <2>8. now - stamps[turn[m]] <= SignatureTimeout
      BY <1>4, <2>4, <2>5, <2>7, ConstantFacts
    <2> QED
      BY <2>4, <2>8, Zenon
  <1> QED
    BY <1>6, <1>7

\* No execution counts a signature older than the timeout.
THEOREM QuorumIsFresh == Spec => FreshQuorum
  <1>1. IInv /\ [Next]_vars =>
            [Executes => \A m \in signed' :
                 now - stamps'[turn'[m]] <= SignatureTimeout]_vars
    BY FreshQuorumStep DEF IInv, ApiNext
  <1> QED
    BY <1>1, Invariance, PTL DEF Spec, FreshQuorum

\* A signature counted in an execution was made after the previous execution
\* of the same instruction: a complete collection is never counted again.
LEMMA CountsOnceStep ==
    ASSUME IInv, [Next]_vars, NEW j \in Instrs, doneAt'[j] # doneAt[j],
           NEW m \in signed'
    PROVE  turn'[m] > doneAt[j]
  <1>1. PICK s \in Members, n \in Nonces : SignMultisig(s, j, n, 0)
    BY ExecutionFacts DEF IInv, ApiNext
  <1>2. 0 \in 0 .. MinSignatures
    BY ConstantFacts
  <1> DEFINE L == Len(stamps)
  <1>3. /\ L \in Nat /\ signed \in SUBSET Members
        /\ turn' = [turn EXCEPT ![s] = L + 1] /\ turn \in [Members -> 0 .. L]
        /\ doneAt \in [Instrs -> 0 .. L]
    BY <1>1 DEF SignMultisig, IInv, ApiInv, TypeOK
  <1>4. /\ signed' \subseteq LiveSigned \cup {s}
        /\ Cardinality(Members) <= 1 => signed' = {}
        /\ Cardinality(Members) > 1 =>
               /\ j # instr => signed' = {s}
               /\ j = instr => LiveCount < MinSignatures
    BY <1>1, <1>2, OutcomeFacts DEF IInv, ApiInv
  <1>5. CASE m = s
    BY <1>3, <1>5
  <1>6. CASE m # s
    <2>1. Cardinality(Members) > 1
      BY <1>4, ConstantFacts
    <2>2. j = instr /\ LiveCount < MinSignatures /\ m \in LiveSigned
      BY <1>4, <1>6, <2>1
    <2>3. m \in signed /\ num_signed < MinSignatures
      BY <2>2, LiveFacts DEF LiveCount, IInv, ApiInv
    <2>4. turn[m] > doneAt[instr]
      BY <2>2, <2>3 DEF IInv, PendingInv
    <2> QED
      BY <1>3, <1>6, <2>2, <2>3, <2>4
  <1> QED
    BY <1>5, <1>6

\* No signature counts towards two executions of an instruction.
THEOREM SignatureCountsOnce == Spec => NoSignatureCountsTwice
  <1>1. IInv /\ [Next]_vars =>
            [\A i \in Instrs : doneAt'[i] # doneAt[i] =>
                 \A m \in signed' : turn'[m] > doneAt[i]]_vars
    BY CountsOnceStep
  <1> QED
    BY <1>1, Invariance, PTL DEF Spec, NoSignatureCountsTwice

\* After the deadline a signature finds nothing collected and is the first
\* of its collection again, which is not a quorum of two.
LEMMA DeadlineStep ==
    ASSUME ApiInv, [ApiNext]_vars, Executes, MinSignatures > 1
    PROVE  now <= signature_timeout'
  <1>1. PICK j \in Instrs : doneAt'[j] # doneAt[j]
    BY DEF Executes
  <1>2. PICK s \in Members, n \in Nonces : SignMultisig(s, j, n, 0)
    BY <1>1, ExecutionFacts
  <1>3. Cardinality(Members) > 1
    BY ConstantFacts
  <1>4. AddSignature(s, j, n, 0)
    BY <1>2, <1>3, ConstantFacts DEF SignMultisig, SingleSigner, NewInstruction
  <1>5. LiveCount + 1 = MinSignatures /\ LiveCount \in Nat
    BY <1>4, LiveFacts, ConstantFacts DEF AddSignature, ApiInv
  <1>6. LiveCount > 0
    BY <1>5, ConstantFacts
  <1>7. ~Expired /\ num_signed > 0
    BY <1>6 DEF LiveCount
  <1>8. now <= Deadline
    BY <1>7, DeadlineFacts DEF Expired, ApiInv, TypeOK
  <1> QED
    BY <1>2, <1>8 DEF SignMultisig

\* A quorum of two or more is never completed once the deadline has passed.
THEOREM DeadlineEndsQuorums == Spec => NoQuorumAfterDeadline
  <1>1. IInv /\ [Next]_vars =>
            [Executes /\ MinSignatures > 1 => now <= signature_timeout']_vars
    BY DeadlineStep DEF IInv, ApiNext
  <1> QED
    BY <1>1, Invariance, PTL DEF Spec, NoQuorumAfterDeadline

-----------------------------------------------------------------------------
(* With unsign_multisig *)

\* A caller of the whole interface cannot bring count and bitmap apart, fit
\* another signature into a window, count an old one, or complete a quorum of
\* two after the deadline: taking back a signature takes nothing back of the
\* limiter or of the deadline.
THEOREM ApiKeepsPromises ==
    ApiSpec => /\ [](CountMatchesBitmap /\ AtMostRateLimitPerWindow)
               /\ FreshQuorum
               /\ NoQuorumAfterDeadline
  <1>1. Init => ApiInv
    BY InitIInv DEF IInv
  <1>2. ApiInv => CountMatchesBitmap /\ AtMostRateLimitPerWindow
    BY DEF ApiInv
  <1>3. ApiInv /\ [ApiNext]_vars =>
            [Executes => \A m \in signed' :
                 now - stamps'[turn'[m]] <= SignatureTimeout]_vars
    BY FreshQuorumStep
  <1>4. ApiInv /\ [ApiNext]_vars =>
            [Executes /\ MinSignatures > 1 => now <= signature_timeout']_vars
    BY DeadlineStep
  <1> QED
    BY <1>1, <1>2, <1>3, <1>4, ApiNextInv, PTL
    DEF ApiSpec, FreshQuorum, NoQuorumAfterDeadline

-----------------------------------------------------------------------------
(* Multisig implements Approval *)

\* An accepted signature adds the signer to the pending signatures of the
\* instruction it names, and to nothing else.
LEMMA PendingStep ==
    ASSUME IInv,
           NEW s \in Members, NEW i \in Instrs, NEW n \in Nonces,
           NEW left \in 0 .. MinSignatures,
           SignMultisig(s, i, n, left)
    PROVE  /\ Pending' \in [Instrs -> SUBSET Members]
           /\ A!NothingAdded(s, i)
  <1> USE DEF IInv, ApiInv
  <1>1. /\ signed' \in SUBSET Members
        /\ signed' \subseteq LiveSigned \cup {s}
        /\ Cardinality(Members) <= 1 => signed' = {}
        /\ Cardinality(Members) > 1 =>
               /\ instr' = i
               /\ i # instr => signed' = {s}
               /\ i = instr => LiveCount < MinSignatures
    BY OutcomeFacts
  <1>2. Pending' = [j \in Instrs |->
            IF j = instr' /\ num_signed' < MinSignatures THEN signed' ELSE {}]
    BY DEF Pending
  <1>3. Pending' \in [Instrs -> SUBSET Members]
    BY <1>1, <1>2
  <1>4. ASSUME NEW j \in Instrs
        PROVE  Pending'[j] \subseteq
                   Pending[j] \cup (IF j = i THEN {s} ELSE {})
    <2>1. SUFFICES ASSUME NEW m \in Pending'[j]
                   PROVE  m \in Pending[j] \cup (IF j = i THEN {s} ELSE {})
      OBVIOUS
    <2>2. j = instr' /\ m \in signed'
      BY <1>2, <2>1
    <2>3. Cardinality(Members) > 1
      BY <1>1, <2>2, ConstantFacts
    <2>4. j = i
      BY <1>1, <2>2, <2>3
    <2>5. CASE m = s
      BY <2>4, <2>5
    <2>6. CASE m # s
      <3>1. i = instr /\ LiveCount < MinSignatures /\ m \in LiveSigned
        BY <1>1, <2>2, <2>3, <2>6
      <3>2. m \in signed /\ num_signed < MinSignatures
        BY <3>1, LiveFacts DEF LiveCount
      <3>3. m \in Pending[j]
        BY <2>4, <3>1, <3>2 DEF Pending
      <3> QED
        BY <3>3
    <2> QED
      BY <2>5, <2>6
  <1>5. A!NothingAdded(s, i)
    BY <1>4 DEF A!NothingAdded
  <1> QED
    BY <1>3, <1>5

\* A signature that returns 0 completes a quorum of distinct members.
LEMMA QuorumStep ==
    ASSUME IInv,
           NEW s \in Members, NEW i \in Instrs, NEW n \in Nonces,
           SignMultisig(s, i, n, 0)
    PROVE  /\ Cardinality(Pending[i] \cup {s}) >= MinSignatures
           /\ Pending'[i] = {}
  <1> USE DEF IInv, ApiInv
  <1>0. 0 \in 0 .. MinSignatures
    BY ConstantFacts
  <1>1. /\ Cardinality(Members) <= 1 => signed' = {}
        /\ Cardinality(Members) > 1 =>
               /\ 0 = MinSignatures - num_signed'
               /\ num_signed' = Cardinality(signed')
               /\ i # instr => signed' = {s}
               /\ i = instr => /\ LiveCount < MinSignatures
                               /\ signed' = LiveSigned \cup {s}
        /\ num_signed' \in 0 .. MinSignatures
    BY <1>0, OutcomeFacts
  <1>2. Pending' = [j \in Instrs |->
            IF j = instr' /\ num_signed' < MinSignatures THEN signed' ELSE {}]
    BY DEF Pending
  <1>3. Pending[i] \in SUBSET Members /\ Pending[i] \cup {s} \in SUBSET Members
    BY DEF Pending, TypeOK
  <1>4. IsFiniteSet(Pending[i] \cup {s}) /\ Cardinality(Pending[i] \cup {s}) \in Nat
    BY <1>3, MemberSets
  <1>5. Cardinality({s}) = 1 /\ {s} \subseteq Pending[i] \cup {s}
    BY FS_Singleton
  <1>6. Cardinality(Pending[i] \cup {s}) >= 1
    BY <1>4, <1>5, FS_Subset
  <1>7. CASE Cardinality(Members) <= 1
    <2>1. MinSignatures = 1
      BY <1>7, ConstantFacts
    <2> QED
      BY <1>1, <1>2, <1>6, <1>7, <2>1
  <1>8. CASE Cardinality(Members) > 1
    <2>1. num_signed' = MinSignatures
      <3>1. \A k \in 0 .. MinSignatures : 0 = MinSignatures - k => k = MinSignatures
        BY ConstantFacts
      <3> QED
        BY <1>1, <1>8, <3>1, Zenon
    <2>2. ~(num_signed' < MinSignatures)
      <3>1. ~(MinSignatures < MinSignatures)
        BY ConstantFacts
      <3> QED
        BY <2>1, <3>1, Zenon
    <2>3. Pending'[i] = {}
      BY <1>2, <2>2
    <2>4. Cardinality(signed') = MinSignatures
      BY <1>1, <1>8, <2>1
    <2>5. signed' \subseteq Pending[i] \cup {s}
      <3>1. CASE i # instr
        BY <1>1, <1>8, <3>1
      <3>2. CASE i = instr
        <4>1. LiveCount < MinSignatures /\ signed' = LiveSigned \cup {s}
          BY <1>1, <1>8, <3>2
        <4>2. LiveSigned \subseteq Pending[i]
          BY <3>2, <4>1, LiveFacts DEF LiveCount, Pending
        <4> QED
          BY <4>1, <4>2
      <3> QED
        BY <3>1, <3>2
    <2>6. Cardinality(signed') <= Cardinality(Pending[i] \cup {s})
      BY <1>4, <2>5, FS_Subset
    <2>7. Cardinality(Pending[i] \cup {s}) >= MinSignatures
      <3>1. MinSignatures <= Cardinality(Pending[i] \cup {s})
        BY <2>4, <2>6, Zenon
      <3> QED
        BY <1>4, <3>1, ConstantFacts
    <2> QED
      BY <2>3, <2>7
  <1> QED
    BY <1>7, <1>8, ConstantFacts

\* Every accepted signature is a Sign or an Execute of the abstract approval.
LEMMA SignImplements ==
    ASSUME IInv,
           NEW s \in Members, NEW i \in Instrs, NEW n \in Nonces,
           NEW left \in 0 .. MinSignatures,
           SignMultisig(s, i, n, left)
    PROVE  A!Next
  <1>1. Len(stamps') = Len(stamps) + 1
    BY DEF SignMultisig, IInv, ApiInv, TypeOK
  <1>2. /\ Pending' \in [Instrs -> SUBSET Members]
        /\ A!NothingAdded(s, i)
    BY PendingStep
  <1>a. A!Accept(s, i)
    <2>1. turn' = [turn EXCEPT ![s] = Len(stamps) + 1]
      BY DEF SignMultisig
    <2> QED
      BY <1>1, <1>2, <2>1 DEF A!Accept
  <1>3. CASE left # 0
    <2>1. doneAt' = doneAt
      BY <1>3 DEF SignMultisig
    <2>2. A!Sign(s, i)
      BY <1>a, <2>1 DEF A!Sign
    <2> QED
      BY <2>2 DEF A!Next
  <1>4. CASE left = 0
    <2>1. doneAt' = [doneAt EXCEPT ![i] = Len(stamps) + 1]
      BY <1>4 DEF SignMultisig
    <2>2. /\ Cardinality(Pending[i] \cup {s}) >= MinSignatures
          /\ Pending'[i] = {}
      BY <1>4, QuorumStep
    <2>3. A!Execute(s, i)
      <3>1. A!Cardinality(Pending[i] \cup {s}) = Cardinality(Pending[i] \cup {s})
        BY DEF A!Cardinality, Cardinality
      <3> QED
        BY <1>a, <2>1, <2>2, <3>1 DEF A!Execute
    <2> QED
      BY <2>3 DEF A!Next
  <1> QED
    BY <1>3, <1>4

\* A fresh multisig account is an approval nobody has signed anything of.
LEMMA InitImplements == Init => A!Init
  BY ConstantFacts DEF Init, A!Init, Pending

\* A step of the account is a step of the approval, or changes none of it.
LEMMA StepImplements == IInv /\ [Next]_vars => [A!Next]_A!vars
  <1> SUFFICES ASSUME IInv, [Next]_vars PROVE [A!Next]_A!vars
    OBVIOUS
  <1>1. CASE Tick
    BY <1>1 DEF Tick, A!vars, Pending
  <1>2. ASSUME NEW s \in Members, NEW i \in Instrs, NEW n \in Nonces,
               NEW left \in 0 .. MinSignatures, SignMultisig(s, i, n, left)
        PROVE  A!Next
    BY <1>2, SignImplements
  <1>3. CASE UNCHANGED vars
    BY <1>3 DEF vars, A!vars, Pending
  <1> QED
    BY <1>1, <1>2, <1>3 DEF Next

\* The multisig is an approval: whatever expires or is replaced, an execution
\* always has a quorum of distinct members behind it, collected for that
\* instruction since its previous execution.
THEOREM Refinement == Spec => ImplementsApproval
  BY InitImplements, StepImplements, Invariance, PTL
  DEF Spec, ImplementsApproval, A!Spec
=============================================================================
