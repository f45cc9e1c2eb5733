------------------------------- MODULE MCPolicy -------------------------------
(***************************************************************************)
(* A small permissioned pool for TLC.                                      *)
(***************************************************************************)
EXTENDS Policy

S == [kind |-> "script", key |-> "s"]

Ask(program, r, action, actor) ==
  [program |-> program, request |-> r, nonce |-> 1, action |-> action, actor |-> actor]
Honest(r) == Ask("policy", r, r.action, r.actor)

ToB == Exit("unshield", "a", 1, Wallet("b"))

\* A deposits for herself, or the operator credits a Bitcoin deposit to b; the first
\* note is passed on or paid to b's wallet.  Two applications go wrong: one lands in
\* the other program, one misnames the action.
FewApplications ==
  {Honest(Enter("shield", "a", "a")), Honest(Enter("complete_deposit", Operator, "b")),
   Honest(Transfer("a", 1)), Honest(ToB),
   Ask("asset", ToB, "unshield", "a"), Ask("policy", ToB, "transact", "a")}

\* B has no registered wallet.
FewDestinations == {Wallet("a"), S}
===============================================================================
