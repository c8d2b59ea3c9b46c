------------------------------ MODULE Approval ------------------------------
(***************************************************************************)
(* What the multisig promises to the instructions it guards, without any   *)
(* of its mechanism: signatures are counted per instruction, an            *)
(* instruction is executed by the signature that completes a quorum of     *)
(* distinct members, and an execution uses its signatures up.  Pending     *)
(* signatures may be forgotten whenever another signature is accepted      *)
(* (they expire, or a different instruction replaces the collection).      *)
(***************************************************************************)
EXTENDS Integers, FiniteSets

CONSTANTS
    Members,          \* the authorized signers
    MinSignatures,    \* the quorum
    Instrs            \* the instructions that can be signed

VARIABLES
    accepted,         \* number of signatures accepted so far
    turn,             \* member -> number of its last accepted signature
    pending,          \* instruction -> members whose signature still counts
    doneAt            \* instruction -> number of the signature that completed
                      \* its last execution, 0 when it was never executed

vars == <<accepted, turn, pending, doneAt>>

Init ==
    /\ accepted = 0
    /\ turn = [m \in Members |-> 0]
    /\ pending = [i \in Instrs |-> {}]
    /\ doneAt = [i \in Instrs |-> 0]

\* No instruction gains a pending signature other than s on i.
NothingAdded(s, i) ==
    \A j \in Instrs :
        pending'[j] \subseteq pending[j] \cup (IF j = i THEN {s} ELSE {})

\* Member s gives the next signature, on i.
Accept(s, i) ==
    /\ accepted' = accepted + 1
    /\ turn' = [turn EXCEPT ![s] = accepted + 1]
    /\ pending' \in [Instrs -> SUBSET Members]
    /\ NothingAdded(s, i)

\* The signature of s on i is accepted and does not complete a quorum.
Sign(s, i) ==
    /\ Accept(s, i)
    /\ UNCHANGED doneAt

\* The signature of s completes the quorum of i, which is executed.
Execute(s, i) ==
    /\ Cardinality(pending[i] \cup {s}) >= MinSignatures
    /\ Accept(s, i)
    /\ pending'[i] = {}
    /\ doneAt' = [doneAt EXCEPT ![i] = accepted + 1]

Next == \E s \in Members, i \in Instrs : Sign(s, i) \/ Execute(s, i)

Spec == Init /\ [][Next]_vars
=============================================================================
