----------------------------- MODULE MCMultisig -----------------------------
(***************************************************************************)
(* Small instances of Multisig for TLC: the members and the instructions   *)
(* are interchangeable, the three time constants are scaled down.          *)
(***************************************************************************)
EXTENDS Multisig, TLC

\* Members and instructions are model values no definition tells apart.
Symmetry == Permutations(Members) \cup Permutations(Instrs)
=============================================================================
