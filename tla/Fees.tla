-------------------------------- MODULE Fees --------------------------------
(***************************************************************************)
(* The basis-point fee that deposits and exits share (utils/policy.rs).    *)
(***************************************************************************)
EXTENDS Integers

CONSTANT BpsScale   \* 10_000

\* At least one unit when both the amount and the rate are positive.
ComputeBpsFee(amount, bps) ==
  LET fee == (amount * bps) \div BpsScale
  IN  IF fee = 0 /\ amount > 0 /\ bps > 0 THEN 1 ELSE fee
=============================================================================
