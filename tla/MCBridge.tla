------------------------------- MODULE MCBridge -------------------------------
(***************************************************************************)
(* Small instances of the bridge for TLC.                                  *)
(***************************************************************************)
EXTENDS Bridge

Output(tx) == [tx |-> tx, vout |-> 0, of |-> {}]

Deposit(receipt, tx, user, amount) ==
  [receipt |-> receipt, output |-> Output(tx), user |-> user, amount |-> amount]

Payout(nonce, amount, script) == [nonce |-> nonce, amount |-> amount, script |-> script]

\* The token's configuration and its switch.
Standard == [enabled |-> TRUE, min |-> 1, max |-> 9, cap |-> 20]
Switched == {Standard, [Standard EXCEPT !.enabled = FALSE]}

\* Three coins, one of them just the payout and nothing for its miner fee, and two users.
ThreeCoins == {Deposit("d1", "d1", "a", 7), Deposit("d2", "d2", "b", 6),
               Deposit("d3", "d3", "b", 3)}
OnePayout == {Payout(1, 5, "s")}

\* One user with two small coins, both needed for the larger payouts, one too small
\* for its fee, and a payout to the pool's own script.
SmallCoins == {Deposit("d1", "d1", "a", 6), Deposit("d2", "d2", "a", 5),
               Deposit("d3", "d3", "a", 1)}
JointPayout == {Payout(1, 7, "s"), Payout(1, 7, "t"), Payout(1, 3, "s"), Payout(2, 4, "pool")}

\* Transaction s both sends to the pool itself and sweeps the deposit d into it.
BothModes == {Deposit("s", "s", "a", 7), Deposit("d", "s", "a", 7)}
WholePayout == {Payout(1, 5, "s")}
===============================================================================
