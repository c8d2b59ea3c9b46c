------------------------------ MODULE Runtime ------------------------------
(***************************************************************************)
(* What the methods of every account share: the clock of the cluster,      *)
(* which each of them is handed as current_time, and checked arithmetic on *)
(* unsigned 64-bit words (math/safe_math.rs).                              *)
(*                                                                         *)
(* A checked operation that does not fit is an error, every caller passes  *)
(* it on, and a failed transaction leaves no trace: an amount that does    *)
(* not fit is an action that is not enabled.                               *)
(***************************************************************************)
EXTENDS Integers

CONSTANTS
    Epoch,      \* the clock when the accounts are created
    MaxTime,    \* bound of the clock
    Ticks,      \* how far the clock moves on between two transactions
    Day,        \* 86400 seconds in the code
    MaxU64,     \* 2^64 - 1 in the code
    MaxCalls    \* bound of the number of calls that change an account

\* get_time refuses a clock that is not positive.
ASSUME RuntimeAssumption ==
    /\ Epoch \in Nat \ {0}
    /\ MaxTime \in Nat
    /\ MaxTime >= Epoch
    /\ Ticks \subseteq Nat \ {0}
    /\ Day \in Nat \ {0}
    /\ MaxU64 \in Nat \ {0}
    /\ MaxCalls \in Nat

VARIABLES
    now,    \* Clock::unix_timestamp
    calls   \* history: the number of calls so far, for its bound

RuntimeInit == now = Epoch /\ calls = 0

\* A method is called: time stands still in a transaction.
Call == calls < MaxCalls /\ calls' = calls + 1 /\ now' = now

\* The clock of the cluster moves on between two transactions.
Tick(d) == now + d <= MaxTime /\ now' = now + d /\ calls' = calls

Words == 0 .. MaxU64

\* safe_add, safe_sub and safe_mul return x instead of an error.
Fits(x) == x \in Words

\* An unsigned word read as a signed one (as i64).
SignedWord(x) == IF x <= MaxU64 \div 2 THEN x ELSE x - (MaxU64 + 1)

\* The signed words, and whether a checked operation on them returns x.
SignedWords == SignedWord((MaxU64 \div 2) + 1) .. MaxU64 \div 2
FitsSigned(x) == x \in SignedWords

\* Whole days from time s to time t: get_days_since_created, _updated, ...
DaysFrom(s, t) == (t - s) \div Day
=============================================================================
