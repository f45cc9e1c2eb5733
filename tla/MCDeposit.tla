------------------------------ MODULE MCDeposit ------------------------------
(***************************************************************************)
(* Three pools, two of them with one key, and a Bitcoin chain of three     *)
(* heights with a fork at the second.  The transactions v and w are older. *)
(***************************************************************************)
EXTENDS Deposit, TLC

CONSTANTS A, B, C, n1, n2, x1, x2, x3, y2, y3, v, w, d, s, p, z, q

MCKeyOf == [pl \in {A, B, C} |-> IF pl = B THEN "kb" ELSE "ka"]
Pay(value, script) == [value |-> value, script |-> script]
Elsewhere == [kind |-> "other"]

\* w: a deposit to an address tweaked by n2, after the wallet's change
\* v: a deposit of n2's to the other pool of that key
\* d: a direct deposit for n1 that sweeps v, and a payment by leaf
\* s: the sweep of w, which carries a deposit's OP_RETURN itself
\* p: a payout that spends d, with change
\* z: w's change paid to the pool
\* q: a sweep of w with a second input, and a payment by leaf to the third pool
MCOuts ==
  w :> <<Pay(9, Elsewhere), Pay(5, TweakScript(A, n2)), Pay(0, Memo(A, n2))>>
    @@ v :> <<Pay(12, TweakScript(C, n2)), Pay(0, Memo(C, n2))>>
    @@ d :> <<Pay(0, Memo(A, n1)), Pay(5, PoolScript(A)), Pay(3, LeafScript(A, n1))>>
    @@ s :> <<Pay(4, PoolScript(A)), Pay(0, Memo(A, n1))>>
    @@ p :> <<Pay(3, Elsewhere), Pay(1, PoolScript(A))>>
    @@ z :> <<Pay(8, PoolScript(A))>>
    @@ q :> <<Pay(6, PoolScript(A)), Pay(2, LeafScript(B, n2))>>

MCIns ==
  w :> <<>> @@ v :> <<>>
    @@ d :> << <<v, 1>> >>
    @@ s :> << <<w, 2>> >>
    @@ p :> << <<d, 2>> >>
    @@ z :> << <<w, 1>> >>
    @@ q :> << <<w, 2>>, <<d, 3>> >>

MCTxsOf ==
  x1 :> {d} @@ x2 :> {s, p} @@ y2 :> {z, q} @@ x3 :> {} @@ y3 :> {}

MCViews == { <<x1, x2, NoBlock>>, <<x1, x2, x3>>, <<x1, y2, y3>> }
===============================================================================
