---------------------------- MODULE MCLightClient ----------------------------
(***************************************************************************)
(* Small universes of headers for TLC.  A byte has four values and a       *)
(* target seven bytes, so a compact target is exponent * 64 + mantissa.    *)
(* With exponent 5 the mantissas 31 and 15 give a block the work 32 and    *)
(* 67.                                                                     *)
(***************************************************************************)
EXTENDS DifficultyRules

\* A header: <<hash, prev, time, bits>>.
Hashes(u)  == {e[1] : e \in u}
Entry(u, b) == CHOOSE e \in u : e[1] = b
PrevIn(u)  == [b \in Hashes(u) |-> Entry(u, b)[2]]
TimeIn(u)  == [b \in Hashes(u) |-> Entry(u, b)[3]]
BitsIn(u)  == [b \in Hashes(u) |-> Entry(u, b)[4]]

Easy == 5 * 64 + 31   \* work 32
Mid  == 5 * 64 + 15   \* work 67

RegtestAnchor(b, h, p) ==
  [hash |-> b, height |-> h, network |-> "regtest", prev |-> p, time |-> 1,
   epochBits |-> 0, epochStart |-> 0]

\* Regtest, equal work: two blocks of a minority fork, a heavier branch b1..b4 and
\* a sibling of b3.
EqualWork ==
  {<<"g", NoBlock, 1, Easy>>, <<"a1", "g", 1, Easy>>, <<"a2", "a1", 1, Easy>>,
   <<"b1", "g", 1, Easy>>, <<"b2", "b1", 1, Easy>>, <<"b3", "b2", 1, Easy>>,
   <<"b4", "b3", 2, Easy>>, <<"c3", "b2", 1, Easy>>}
EqualBlock == Hashes(EqualWork)
EqualPrev  == PrevIn(EqualWork)
EqualTime  == TimeIn(EqualWork)
EqualBits  == BitsIn(EqualWork)
EqualTxs   == [b \in EqualBlock |-> {"t"}]
EqualAnchors == {RegtestAnchor("g", 0, NoBlock)}

\* Mainnet and testnet4 from an anchor at height 2, epochs of two blocks.  The
\* a branch is early and the b branch late, so they retarget differently at
\* height 4; e3 uses testnet4's minimum difficulty and together with e4 is lighter
\* than a3 alone.  x4 breaks median time past,
\* y4 ignores the retarget at height 4, w5 uses that of height 6 and v4 retargets
\* from the epoch that a4 opens; n4 has no proof of work.
Production ==
  {<<"g", NoBlock, 2, Mid>>,
   <<"a3", "g", 3, Mid>>, <<"a4", "a3", 4, 286>>, <<"a5", "a4", 4, 286>>, <<"a6", "a5", 5, 222>>,
   <<"b3", "g", 4, Mid>>, <<"b4", "b3", 5, 331>>, <<"b5", "b4", 5, 331>>,
   <<"e3", "g", 10, Easy>>, <<"e4", "e3", 11, Easy>>,
   <<"x4", "a3", 1, 286>>, <<"y4", "a3", 4, Mid>>, <<"w5", "a4", 4, 222>>,
   <<"v4", "a3", 4, 222>>, <<"n4", "b3", 5, 331>>}
ProductionBlock == Hashes(Production)
ProductionPrev  == PrevIn(Production)
ProductionTime  == TimeIn(Production)
ProductionBits  == BitsIn(Production)
ProductionTxs   == [b \in ProductionBlock |-> IF b \in {"a3", "b3"} THEN {"t"} ELSE {}]
ProductionAnchor(network) ==
  [hash |-> "g", height |-> 2, network |-> network, prev |-> NoBlock, time |-> 2,
   epochBits |-> Mid, epochStart |-> 1]
ProductionAnchors == {ProductionAnchor("mainnet"), ProductionAnchor("testnet4")}
ProductionPow == ProductionBlock \ {"n4"}

\* Testnet4, where minimum-difficulty blocks make a long branch e3..e6 lighter
\* than the shorter a3, a4.
Testnet ==
  {<<"g", NoBlock, 2, Mid>>, <<"a3", "g", 3, Mid>>, <<"a4", "a3", 4, 286>>,
   <<"e3", "g", 6, Easy>>, <<"e4", "e3", 7, 338>>, <<"e5", "e4", 8, 338>>,
   <<"e6", "e5", 8, 274>>}
TestnetBlock == Hashes(Testnet)
TestnetPrev  == PrevIn(Testnet)
TestnetTime  == TimeIn(Testnet)
TestnetBits  == BitsIn(Testnet)
TestnetTxs   == [b \in TestnetBlock |-> {"t"}]
TestnetAnchors == {ProductionAnchor("testnet4")}
===============================================================================
