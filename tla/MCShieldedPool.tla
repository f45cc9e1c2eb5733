---------------------------- MODULE MCShieldedPool ----------------------------
(***************************************************************************)
(* A small instance of the shielded pool for TLC.                          *)
(***************************************************************************)
EXTENDS ShieldedPool, TLC

\* A transfer of a mint that keeps a unit of each; it makes a note of value two.
Taxed == {[amount |-> 4, received |-> 3]}

\* Which blinding factor is which does not matter.
Symmetry == Permutations(Blind)
===============================================================================
