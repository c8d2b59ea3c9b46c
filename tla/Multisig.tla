------------------------------ MODULE Multisig ------------------------------
(***************************************************************************)
(* The multisig account of the protocol (state/multisig.rs): the bitmap of *)
(* members that have signed the current instruction, its count, the nonce, *)
(* the rate limiter of signatures and the signature deadline.              *)
(*                                                                         *)
(* An instruction is its hash together with the lengths stored with it     *)
(* (get_instruction_hash): two calls are the same instruction when they    *)
(* name the same accounts and carry the same data.  Every caller passes an *)
(* error of sign_multisig on, and a failed transaction leaves no trace, so *)
(* a refused signature is an action that is not enabled.                   *)
(***************************************************************************)
EXTENDS Integers, FiniteSets, Sequences

CONSTANTS
    Members,            \* signers[0 .. num_signers - 1]
    MinSignatures,      \* min_signatures
    Instrs,             \* instruction identities
    NoInstr,            \* the all-zero hash stored by set_signers
    Nonces,             \* the nonces callers may pass
    RateWindow,         \* 60 seconds in the code
    RateLimit,          \* 3 signatures in the code
    SignatureTimeout,   \* 3600 seconds in the code
    Epoch,              \* the clock when the multisig is initialized
    MaxTime             \* bound of the clock

\* set_signers refuses an empty signer list and a quorum of 0 or beyond the
\* list; the clock of the cluster is far from 0 (get_time refuses <= 0).
ASSUME QuorumAssumption ==
    /\ IsFiniteSet(Members)
    /\ MinSignatures \in 1 .. Cardinality(Members)
ASSUME InstrAssumption == NoInstr \notin Instrs
ASSUME NonceAssumption == Nonces \subseteq Nat
ASSUME LimitAssumption ==
    /\ RateWindow \in Nat \ {0}
    /\ RateLimit \in Nat \ {0}
    /\ SignatureTimeout \in Nat \ {0}
ASSUME ClockAssumption ==
    /\ Epoch \in Nat
    /\ Epoch >= RateWindow
    /\ MaxTime \in Nat

VARIABLES
    now,                  \* Clock::unix_timestamp
    signed,               \* members whose bit is set in the bitmap
    num_signed,
    instr,                \* instruction_hash_bytes and the two lengths
    nonce,
    last_signature_time,
    signature_timeout,    \* the deadline, 0 until the first signature
    signature_count,      \* signatures of the current rate-limit run
    \* history, read by the properties only:
    stamps,               \* times of all accepted signatures, in order
    turn,                 \* member -> number of its last accepted signature
    doneAt                \* instruction -> number of the signature that
                          \* completed its last execution

account == <<signed, num_signed, instr, nonce, last_signature_time,
             signature_timeout, signature_count>>
history == <<stamps, turn, doneAt>>
vars == <<now, account, history>>

-----------------------------------------------------------------------------
(* set_signers *)

Init ==
    /\ now = Epoch
    /\ signed = {}
    /\ num_signed = 0
    /\ instr = NoInstr
    /\ nonce = 0
    /\ last_signature_time = 0
    /\ signature_timeout = 0
    /\ signature_count = 0
    /\ stamps = <<>>
    /\ turn = [m \in Members |-> 0]
    /\ doneAt = [i \in Instrs |-> 0]

-----------------------------------------------------------------------------
(* sign_multisig *)

\* set_default_timeout: only the first signature ever sets the deadline.
Deadline ==
    IF signature_timeout = 0 THEN now + SignatureTimeout ELSE signature_timeout

\* Mutated form: a nonce may be used again.
FreshNonceUnchecked(n) == TRUE

\* A nonce is accepted when it is beyond the stored one (InvalidNonce).
FreshNonce(n) == n > nonce

\* Mutated form: the run of signatures may grow one beyond the limit.
RateLimitedLate ==
    now - last_signature_time < RateWindow /\ signature_count > RateLimit

\* Mutated form: the counter is looked at whatever the time.
RateLimitedForever == signature_count >= RateLimit

RateLimited ==
    now - last_signature_time < RateWindow /\ signature_count >= RateLimit

\* Mutated form: the counter restarts with every signature of a new second.
CountAfterEager == IF now > last_signature_time THEN 1 ELSE signature_count + 1

\* The rate-limit counter once this signature is counted.
CountAfter ==
    IF now - last_signature_time >= RateWindow THEN 1 ELSE signature_count + 1

\* Mutated form: collected signatures never expire.
ExpiredNever == FALSE

\* Mutated form: the deadline is only looked at once a quorum is complete.
ExpiredWhenComplete == num_signed = MinSignatures /\ now > Deadline

Expired == num_signed > 0 /\ now > Deadline /\ Deadline > 0

\* The bitmap and its count once expired signatures are cleared.
LiveSigned == IF Expired THEN {} ELSE signed
LiveCount == IF Expired THEN 0 ELSE num_signed

\* With one member nothing is collected: the caller goes ahead at once, and
\* neither the nonce nor the instruction is stored.
SingleSigner(s, i, n, left) ==
    /\ Cardinality(Members) <= 1
    /\ left = 0
    /\ signed' = LiveSigned
    /\ num_signed' = LiveCount
    /\ UNCHANGED <<instr, nonce>>

\* A different instruction replaces the collection.
NewInstruction(s, i, n, left) ==
    /\ Cardinality(Members) > 1
    /\ i # instr
    /\ instr' = i
    /\ signed' = {s}
    /\ num_signed' = 1
    /\ nonce' = n
    /\ left = MinSignatures - 1

\* Mutated form: a complete collection may still be signed.
AddSignatureAfterQuorum(s, i, n, left) ==
    /\ Cardinality(Members) > 1
    /\ i = instr
    /\ s \notin LiveSigned
    /\ signed' = LiveSigned \cup {s}
    /\ num_signed' = LiveCount + 1
    /\ nonce' = n
    /\ left = IF LiveCount + 1 >= MinSignatures
              THEN 0 ELSE MinSignatures - (LiveCount + 1)
    /\ UNCHANGED instr

\* Mutated form: a member that signed is not recognized.
AddSignatureTwice(s, i, n, left) ==
    /\ Cardinality(Members) > 1
    /\ i = instr
    /\ LiveCount < MinSignatures
    /\ signed' = LiveSigned \cup {s}
    /\ num_signed' = LiveCount + 1
    /\ nonce' = n
    /\ left = MinSignatures - (LiveCount + 1)
    /\ UNCHANGED instr

\* The current instruction gains a signature, of a member that has not
\* signed it (AlreadySigned) and before it is complete (AlreadyExecuted).
AddSignature(s, i, n, left) ==
    /\ Cardinality(Members) > 1
    /\ i = instr
    /\ s \notin LiveSigned
    /\ LiveCount < MinSignatures
    /\ signed' = LiveSigned \cup {s}
    /\ num_signed' = LiveCount + 1
    /\ nonce' = n
    /\ left = MinSignatures - (LiveCount + 1)
    /\ UNCHANGED instr

\* sign_multisig(s, i, n) returns Ok(left); the caller executes i when left
\* is 0.  The history records what was accepted.
SignMultisig(s, i, n, left) ==
    /\ FreshNonce(n)
    /\ ~RateLimited
    /\ signature_timeout' = Deadline
    /\ signature_count' = CountAfter
    /\ last_signature_time' = now
    /\ \/ SingleSigner(s, i, n, left)
       \/ NewInstruction(s, i, n, left)
       \/ AddSignature(s, i, n, left)
    /\ stamps' = Append(stamps, now)
    /\ turn' = [turn EXCEPT ![s] = Len(stamps) + 1]
    /\ doneAt' = IF left = 0
                 THEN [doneAt EXCEPT ![i] = Len(stamps) + 1] ELSE doneAt
    /\ UNCHANGED now

-----------------------------------------------------------------------------
(* unsign_multisig: public, but no instruction of the program calls it *)

\* Mutated form: the count is left as it was.
UnsignForgetsCount(s) ==
    /\ Cardinality(Members) > 1
    /\ s \in signed
    /\ signed' = signed \ {s}
    /\ UNCHANGED <<now, num_signed, instr, nonce, last_signature_time,
                   signature_timeout, signature_count, history>>

UnsignMultisig(s) ==
    /\ Cardinality(Members) > 1
    /\ s \in signed
    /\ num_signed' = num_signed - 1
    /\ signed' = signed \ {s}
    /\ UNCHANGED <<now, instr, nonce, last_signature_time, signature_timeout,
                   signature_count, history>>

-----------------------------------------------------------------------------

\* The cluster's clock advances.
Tick ==
    /\ now < MaxTime
    /\ now' = now + 1
    /\ UNCHANGED <<account, history>>

Next ==
    \/ Tick
    \/ \E s \in Members, i \in Instrs, n \in Nonces, left \in 0 .. MinSignatures :
           SignMultisig(s, i, n, left)

Spec == Init /\ [][Next]_vars

\* The same component with its whole public interface.
ApiNext == Next \/ \E s \in Members : UnsignMultisig(s)

\* Nobody has to sign; only the clock of the cluster does not stop.
ApiSpec == Init /\ [][ApiNext]_vars /\ WF_vars(Tick)

-----------------------------------------------------------------------------
(* Properties *)

\* The types of the account's fields and of the history.
TypeOK ==
    /\ now \in Nat
    /\ signed \in SUBSET Members
    /\ num_signed \in 0 .. MinSignatures
    /\ instr \in Instrs \cup {NoInstr}
    /\ nonce \in Nat
    /\ last_signature_time \in Nat
    /\ signature_timeout \in Nat
    /\ signature_count \in 0 .. RateLimit
    /\ stamps \in Seq(Nat)
    /\ turn \in [Members -> 0 .. Len(stamps)]
    /\ doneAt \in [Instrs -> 0 .. Len(stamps)]

\* validate_state: the count kept beside the bitmap is the number of its
\* bits, through expiry, replacement and completion of a collection.
CountMatchesBitmap == num_signed = Cardinality(signed)

\* "Rate limiting (3 signatures per minute)": the counter restarts after a
\* quiet minute and counts attempts otherwise, and yet no sliding window of
\* RateWindow seconds ever holds more than RateLimit accepted signatures.
AtMostRateLimitPerWindow ==
    \A k \in 1 .. Len(stamps) - RateLimit :
        stamps[k + RateLimit] - stamps[k] >= RateWindow

\* Some instruction is executed in this step.
Executes == \E i \in Instrs : doneAt'[i] # doneAt[i]

\* No signature older than the timeout ever counts towards an execution,
\* although the deadline is fixed once and members sign at any time.
FreshQuorum ==
    [][Executes => \A m \in signed' :
           now - stamps'[turn'[m]] <= SignatureTimeout]_vars

\* A signature is used at most once: every member counted in an execution
\* has signed after the instruction's previous execution.
NoSignatureCountsTwice ==
    [][\A i \in Instrs : doneAt'[i] # doneAt[i] =>
           \A m \in signed' : turn'[m] > doneAt[i]]_vars

\* The deadline is set by the first signature of all and never again, so
\* once it has passed each signature clears the earlier ones and a quorum of
\* two or more is never completed again.
NoQuorumAfterDeadline ==
    [][Executes /\ MinSignatures > 1 => now <= signature_timeout']_vars

\* The multisig implements Approval: a member's signature is pending for the
\* current instruction until that instruction is complete.
Pending ==
    [i \in Instrs |->
        IF i = instr /\ num_signed < MinSignatures THEN signed ELSE {}]

A == INSTANCE Approval WITH accepted <- Len(stamps), pending <- Pending

ImplementsApproval == A!Spec

\* multisig.rs:68 "Signature expiration (default 1 hour)": a signature for
\* the current instruction is dropped for its age only when it is older than
\* the timeout.
OnlyOldSignaturesExpire ==
    [][\A m \in signed \ signed' :
           instr' = instr /\ num_signed < MinSignatures =>
               now - stamps[turn[m]] > SignatureTimeout]_vars

\* The limiter opens again, as far as the bounded clock reaches: the members
\* who are refused, and those who go on to take signatures back, do not put
\* off its end.
LimiterReopens ==
    RateLimited /\ last_signature_time + RateWindow <= MaxTime ~> ~RateLimited

-----------------------------------------------------------------------------
(* The inductive invariant behind the safety properties *)

\* The clock never runs behind what was stored from it.
ClockInv ==
    /\ now >= Epoch
    /\ last_signature_time <= now
    /\ signature_timeout <= now + SignatureTimeout

\* The stamps are ordered, the last of them is last_signature_time, and the
\* rest of the limiter's state is that of set_signers before there is one.
StampInv ==
    /\ \A k, l \in 1 .. Len(stamps) : k <= l => stamps[k] <= stamps[l]
    /\ Len(stamps) > 0 => stamps[Len(stamps)] = last_signature_time
    /\ Len(stamps) = 0 => last_signature_time = 0

\* The counter is the length of the current run of signatures: whatever was
\* accepted before the run is at least a window older than its first one.
RunInv ==
    /\ signature_count \in 0 .. Len(stamps)
    /\ Len(stamps) > 0 => signature_count > 0
    /\ \A k \in 1 .. Len(stamps) - signature_count :
           stamps[k] + RateWindow <= stamps[Len(stamps) - signature_count + 1]

\* A bit that is set stands for a signature of that member, made no earlier
\* than one timeout before the deadline.
BitmapInv ==
    /\ Cardinality(Members) <= 1 => signed = {}
    /\ \A m \in signed :
           /\ turn[m] > 0
           /\ signature_timeout > 0
           /\ stamps[turn[m]] + SignatureTimeout >= signature_timeout

\* An incomplete collection is younger than the instruction's last execution.
PendingInv ==
    instr \in Instrs /\ num_signed < MinSignatures =>
        \A m \in signed : turn[m] > doneAt[instr]

\* Inductive under ApiNext: unsign_multisig clears a bit and its count.
ApiInv ==
    /\ TypeOK
    /\ CountMatchesBitmap
    /\ ClockInv
    /\ StampInv
    /\ RunInv
    /\ AtMostRateLimitPerWindow
    /\ BitmapInv

\* Inductive under Next: it is the argument behind the bounds proved of the
\* account.  unsign_multisig reopens an executed collection and so breaks
\* PendingInv.
IInv ==
    /\ ApiInv
    /\ PendingInv
=============================================================================
