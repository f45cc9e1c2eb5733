----------------------------- MODULE MCPoolAdmin -----------------------------
(***************************************************************************)
(* Model checking PoolAdmin.  Its areas write disjoint variables and read, *)
(* of one another's, only who administers a pool and who holds the upgrade *)
(* authority: a behaviour here works in one area, and the areas together   *)
(* are every interleaving that an area can observe.  Pools meet only over  *)
(* the dWallets they claim: the other areas have one pool.                 *)
(***************************************************************************)
EXTENDS PoolAdmin

CONSTANTS p1, p2

VARIABLE area

TermsValue == {[min |-> 1, max |-> 3, fee |-> 1],
               [min |-> 2, max |-> 3, fee |-> 2],
               [min |-> 3, max |-> 1, fee |-> 0]}
DefaultTermsValue == [min |-> 1, max |-> 2, fee |-> 1]
LimitsValue == {[min |-> 1, max |-> 2, cap |-> 2],
                [min |-> 0, max |-> 1, cap |-> 1]}

MCInit == Init /\ area \in {"terms", "custody", "token", "keys"}

MCNext ==
  /\ UNCHANGED area
  /\ \/ PoolStep /\ (area = "custody" \/ pool'[p2] = None)
     \/ area = "terms" /\ TermsStep
     \/ area = "custody" /\ CustodyStep
     \/ area = "token" /\ TokenStep
     \/ area = "keys" /\ KeyStep

MCSpec == MCInit /\ [][MCNext]_<<vars, area>>
===============================================================================
