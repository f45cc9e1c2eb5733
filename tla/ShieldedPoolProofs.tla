-------------------------- MODULE ShieldedPoolProofs --------------------------
(***************************************************************************)
(* The shielded pool conserves value and never strands a note, for any     *)
(* keys, values, tree sizes and history length.                            *)
(***************************************************************************)
EXTENDS ShieldedPool, SumTheorems, SequenceTheorems, FunctionTheorems, TLAPS

-----------------------------------------------------------------------------
(* Fees *)

\* A fee is no more than what it is taken from (compute_bps_fee).
LEMMA FeeBounded ==
  ASSUME NEW a \in Nat, NEW bps \in Nat, bps <= BpsScale
  PROVE  ComputeBpsFee(a, bps) \in 0..a
  <1> DEFINE q == (a * bps) \div BpsScale
  <1>1. BpsScale \in Nat /\ BpsScale > 0
    BY PoolAssumption DEF PoolAssumption
  <1>2. a * bps \in Nat /\ a * bps <= a * BpsScale
    BY <1>1
  <1>3. q \in Nat /\ q * BpsScale <= a * bps
    BY <1>1, <1>2
  <1>4. q * BpsScale <= a * BpsScale
    BY <1>1, <1>2, <1>3
  <1>5. q <= a
    BY <1>1, <1>3, <1>4
  <1> QED
    BY <1>3, <1>5 DEF ComputeBpsFee

-----------------------------------------------------------------------------
(* Sequences *)

LEMMA SeqOfType ==
  ASSUME NEW S, NEW sizes \in SUBSET Nat, NEW s \in SeqOf(S, sizes)
  PROVE  /\ s \in Seq(S)
         /\ Len(s) \in sizes
         /\ DOMAIN s = 1..Len(s)
         /\ \A i \in DOMAIN s : s[i] \in S
  <1>1. PICK n \in sizes : s \in [1..n -> S]
    BY DEF SeqOf
  <1>2. n \in Nat /\ s \in Seq(S)
    BY <1>1, SeqDef
  <1>3. Len(s) = n
    BY <1>1, <1>2, LenProperties
  <1> QED
    BY <1>1, <1>2, <1>3

\* The image of a sequence with no element twice has its length.
LEMMA ImageOnce ==
  ASSUME NEW n \in Nat, NEW f, Cardinality({f[i] : i \in 1..n}) = n
  PROVE  \A i, j \in 1..n : f[i] = f[j] => i = j
  <1> DEFINE T == {f[i] : i \in 1..n}
             g == [i \in 1..n |-> f[i]]
  <1>1. g \in Surjection(1..n, T)
    BY DEF Surjection
  <1>2. IsFiniteSet(1..n) /\ Cardinality(1..n) = n
    BY FS_Interval
  <1>3. g \in Injection(1..n, T)
    BY <1>1, <1>2, FS_Surjection
  <1> QED
    BY <1>3 DEF Injection, IsInjective

LEMMA ImageFinite ==
  ASSUME NEW n \in Nat, NEW f
  PROVE  IsFiniteSet({f[i] : i \in 1..n})
  <1> DEFINE T == {f[i] : i \in 1..n}
             g == [i \in 1..n |-> f[i]]
  <1>1. g \in Surjection(1..n, T)
    BY DEF Surjection
  <1>2. IsFiniteSet(1..n)
    BY FS_Interval
  <1> QED
    BY <1>1, <1>2, FS_Surjection

Distinct(f, n) == \A i, j \in 1..n : f[i] = f[j] => i = j
FirstOf(f, n) == {f[i] : i \in 1..n}

-----------------------------------------------------------------------------
(* The invariant *)

TreeType ==
  [leaves : Seq(Commitment), history : [0..(RootHistorySize - 1) -> Nat \cup {NoRoot}],
   next : Nat]

\* A recorded root covers a prefix of the tree's leaves.
RootsArePrefixes ==
  \A t \in 0..active : \A i \in 0..(RootHistorySize - 1) :
    trees[t].history[i] = NoRoot \/ trees[t].history[i] <= Len(trees[t].leaves)

\* A tree is frozen when it is full.
FrozenFull == \A t \in 0..active : t # active => Len(trees[t].leaves) = MaxLeaves

NotesInv ==
  /\ TypeOK
  /\ IsFiniteSet(nullifiers)
  /\ IsFiniteSet(DOMAIN queued)
  /\ RootsArePrefixes
  /\ FrozenFull

LEMMA TreeFacts ==
  ASSUME TypeOK
  PROVE  /\ active \in Nat /\ DOMAIN trees = 0..active
         /\ \A t \in 0..active :
              /\ trees[t] \in TreeType
              /\ trees[t].leaves \in Seq(Commitment)
              /\ Len(trees[t].leaves) \in 0..MaxLeaves
              /\ DOMAIN trees[t].leaves = 1..Len(trees[t].leaves)
              /\ \A i \in DOMAIN trees[t].leaves :
                   /\ trees[t].leaves[i] \in Commitment
                   /\ trees[t].leaves[i].value \in Nat
                   /\ trees[t].leaves[i].owner \in Owner
  <1>1. active \in Nat /\ MaxTree \in Nat /\ MaxLeaves \in Nat
    BY PoolAssumption DEF PoolAssumption, TypeOK
  <1>2. trees \in [0..active -> TreeType]
    BY DEF TypeOK, TreeType
  <1> SUFFICES ASSUME NEW t \in 0..active
               PROVE  /\ trees[t] \in TreeType
                      /\ trees[t].leaves \in Seq(Commitment)
                      /\ Len(trees[t].leaves) \in 0..MaxLeaves
                      /\ DOMAIN trees[t].leaves = 1..Len(trees[t].leaves)
                      /\ \A i \in DOMAIN trees[t].leaves :
                           /\ trees[t].leaves[i] \in Commitment
                           /\ trees[t].leaves[i].value \in Nat
                                   /\ trees[t].leaves[i].owner \in Owner
    BY <1>1, <1>2
  <1>3. trees[t] \in TreeType /\ trees[t].leaves \in Seq(Commitment)
    BY <1>2 DEF TreeType
  <1>4. Len(trees[t].leaves) <= MaxLeaves
    BY DEF TypeOK
  <1>5. Len(trees[t].leaves) \in 0..MaxLeaves /\ DOMAIN trees[t].leaves = 1..Len(trees[t].leaves)
    BY <1>1, <1>3, <1>4, LenProperties
  <1>6. \A i \in DOMAIN trees[t].leaves : trees[t].leaves[i] \in Commitment
    BY <1>3, LenProperties
  <1> QED
    BY <1>3, <1>5, <1>6 DEF Commitment

LEMMA PositionFacts ==
  ASSUME TypeOK
  PROVE  /\ IsFiniteSet(Position)
         /\ IsFiniteSet(Unspent)
         /\ \A t, i : <<t, i>> \in Position <=> t \in 0..active /\ i \in DOMAIN trees[t].leaves
         /\ \A p \in Position : /\ p = <<p[1], p[2]>>
                                /\ p[1] \in 0..active
                                /\ p[2] \in DOMAIN trees[p[1]].leaves
                                /\ LeafAt(p) \in Commitment
                                /\ LeafAt(p).value \in Nat
  <1>1. \A t, i : <<t, i>> \in Position <=> t \in 0..active /\ i \in DOMAIN trees[t].leaves
    BY TreeFacts DEF Position
  <1>2. \A p \in Position : /\ p = <<p[1], p[2]>>
                            /\ p[1] \in 0..active
                            /\ p[2] \in DOMAIN trees[p[1]].leaves
    BY TreeFacts DEF Position
  <1>3. \A p \in Position : LeafAt(p) \in Commitment /\ LeafAt(p).value \in Nat
    BY <1>2, TreeFacts DEF LeafAt
  <1>4. Position \subseteq (0..active) \X (1..MaxLeaves)
    <2>1. \A p \in Position : p[2] \in 1..MaxLeaves
      BY <1>2, TreeFacts, PoolAssumption DEF PoolAssumption
    <2> QED
      BY <1>2, <2>1
  <1>5. IsFiniteSet(0..active) /\ IsFiniteSet(1..MaxLeaves)
    BY FS_Interval, TreeFacts, PoolAssumption DEF PoolAssumption
  <1>6. IsFiniteSet((0..active) \X (1..MaxLeaves))
    BY <1>5, FS_Product
  <1>7. IsFiniteSet(Position)
    BY <1>4, <1>6, FS_Subset
  <1>8. IsFiniteSet(Unspent)
    BY <1>7, FS_Subset DEF Unspent
  <1> QED
    BY <1>1, <1>2, <1>3, <1>7, <1>8

-----------------------------------------------------------------------------
(* Spends *)

\* The values of the leaves a spend consumes.
InputValues(sp) == [i \in 1..Len(sp.ins) |-> trees[sp.tree].leaves[sp.ins[i]].value]

\* A verified spend consumes distinct leaves that its key owns and no record names.
Consumes(sp) ==
  /\ sp.tree \in 0..active /\ sp.key \in Owner
  /\ Len(sp.ins) \in Nat /\ DOMAIN sp.ins = 1..Len(sp.ins)
  /\ \A i \in 1..Len(sp.ins) : /\ sp.ins[i] \in DOMAIN trees[sp.tree].leaves
                               /\ trees[sp.tree].leaves[sp.ins[i]].owner = sp.key
  /\ \A i, j \in 1..Len(sp.ins) : sp.ins[i] = sp.ins[j] => i = j
  /\ NewNullifiers(sp) \cap nullifiers = {}
  /\ IsFiniteSet(NewNullifiers(sp))
  /\ Cardinality(NewNullifiers(sp)) = Len(sp.ins)

LEMMA SizesArePrefixes ==
  ASSUME NotesInv, NEW t \in 0..active, NEW n \in ValidSizes(t)
  PROVE  n \in 0..Len(trees[t].leaves)
  <1>1. trees[t] \in TreeType /\ Len(trees[t].leaves) \in Nat
    BY TreeFacts DEF NotesInv
  <1>2. trees[t].history \in [0..(RootHistorySize - 1) -> Nat \cup {NoRoot}]
    BY <1>1 DEF TreeType
  <1>3. n = Len(trees[t].leaves) \/ \E i \in 0..(RootHistorySize - 1) :
          n = trees[t].history[i] /\ n # NoRoot
    BY <1>2 DEF ValidSizes
  <1>4. \A i \in 0..(RootHistorySize - 1) : trees[t].history[i] # NoRoot =>
          trees[t].history[i] \in Nat /\ trees[t].history[i] <= Len(trees[t].leaves)
    BY <1>2 DEF NotesInv, RootsArePrefixes
  <1> QED
    BY <1>1, <1>3, <1>4

LEMMA SpendType ==
  ASSUME NotesInv, NEW sp \in Spend
  PROVE  /\ sp.tree \in 0..active /\ sp.key \in Owner
         /\ sp.size \in 0..Len(trees[sp.tree].leaves)
         /\ Len(sp.ins) \in Nat /\ DOMAIN sp.ins = 1..Len(sp.ins)
         /\ \A i \in 1..Len(sp.ins) : sp.ins[i] \in 1..sp.size
  <1>1. PICK t \in 0..active : \E n \in ValidSizes(t) :
          sp \in [tree : {t}, size : {n}, key : Owner, ins : SeqOf(1..n, 1..(MaxJoinSplit - 1))]
    BY DEF Spend
  <1>n. PICK n \in ValidSizes(t) :
          sp \in [tree : {t}, size : {n}, key : Owner, ins : SeqOf(1..n, 1..(MaxJoinSplit - 1))]
    BY <1>1
  <1>3. n \in 0..Len(trees[t].leaves)
    BY SizesArePrefixes
  <1>4. MaxJoinSplit \in Nat
    BY PoolAssumption DEF PoolAssumption
  <1>5. 1..(MaxJoinSplit - 1) \in SUBSET Nat
    BY <1>4
  <1>6. sp.ins \in SeqOf(1..n, 1..(MaxJoinSplit - 1))
    BY <1>n
  <1>7. /\ Len(sp.ins) \in 1..(MaxJoinSplit - 1)
        /\ DOMAIN sp.ins = 1..Len(sp.ins)
        /\ \A i \in DOMAIN sp.ins : sp.ins[i] \in 1..n
    BY <1>5, <1>6, SeqOfType
  <1> QED
    BY <1>n, <1>3, <1>5, <1>7

LEMMA SpendConsumes ==
  ASSUME NotesInv, NEW sp \in Spend, NEW outs, NEW amounts, Verified(sp, outs, amounts)
  PROVE  /\ Consumes(sp)
         /\ Total(InputValues(sp))
              = Total([i \in DOMAIN outs |-> outs[i].value]) + Total(amounts)
  <1> DEFINE n == Len(sp.ins)
  <1>1. /\ sp.tree \in 0..active /\ sp.key \in Owner
        /\ sp.size \in 0..Len(trees[sp.tree].leaves)
        /\ n \in Nat /\ DOMAIN sp.ins = 1..n
        /\ \A i \in 1..n : sp.ins[i] \in 1..sp.size
    BY SpendType
  <1>2. /\ trees[sp.tree].leaves \in Seq(Commitment)
        /\ Len(trees[sp.tree].leaves) \in Nat
        /\ DOMAIN trees[sp.tree].leaves = 1..Len(trees[sp.tree].leaves)
    BY <1>1, TreeFacts DEF NotesInv
  <1>3. \A k \in 1..sp.size : Root(sp)[k] = trees[sp.tree].leaves[k]
    BY <1>1, <1>2, SubSeqProperties DEF Root, RootAt
  <1>4. \A i \in 1..n : Root(sp)[sp.ins[i]] = trees[sp.tree].leaves[sp.ins[i]]
    BY <1>1, <1>3
  <1>5. \A i \in 1..n : /\ sp.ins[i] \in DOMAIN trees[sp.tree].leaves
                        /\ trees[sp.tree].leaves[sp.ins[i]].owner = sp.key
    <2> SUFFICES ASSUME NEW i \in 1..n
                 PROVE  /\ sp.ins[i] \in DOMAIN trees[sp.tree].leaves
                        /\ trees[sp.tree].leaves[sp.ins[i]].owner = sp.key
      OBVIOUS
    <2>1. Root(sp)[sp.ins[i]].owner = sp.key
      BY <1>1 DEF Verified, ProofHolds
    <2>2. sp.ins[i] \in 1..sp.size
      BY <1>1
    <2>3. sp.ins[i] \in DOMAIN trees[sp.tree].leaves
      BY <1>1, <1>2, <2>2
    <2> QED
      BY <1>4, <2>1, <2>3
  <1>6. [i \in DOMAIN sp.ins |-> Root(sp)[sp.ins[i]].value] = InputValues(sp)
    BY <1>1, <1>4 DEF InputValues
  <1>7. Total(InputValues(sp))
              = Total([i \in DOMAIN outs |-> outs[i].value]) + Total(amounts)
    BY <1>6 DEF Verified, ProofHolds
  <1> DEFINE f == [i \in 1..n |-> NullifierSeeds(sp.tree, sp.key, sp.ins[i])]
  <1>8. NewNullifiers(sp) = {f[i] : i \in 1..n}
    BY <1>1 DEF NewNullifiers
  <1>9. Cardinality(NewNullifiers(sp)) = n /\ NewNullifiers(sp) \cap nullifiers = {}
    BY DEF Verified, Unused
  <1>10. \A i, j \in 1..n : f[i] = f[j] => i = j
    <2> HIDE DEF f
    <2> QED BY <1>1, <1>8, <1>9, ImageOnce
  <1>11. IsFiniteSet(NewNullifiers(sp))
    <2> HIDE DEF f
    <2> QED BY <1>1, <1>8, ImageFinite
  <1>12. \A i, j \in 1..n : sp.ins[i] = sp.ins[j] => i = j
    BY <1>10
  <1> QED
    BY <1>1, <1>5, <1>7, <1>9, <1>11, <1>12 DEF Consumes

\* The records of a spend are those of leaves in the trees.
LEMMA NewRecords ==
  ASSUME TypeOK, NEW sp, Consumes(sp)
  PROVE  \A n \in NewNullifiers(sp) :
           /\ n \in [tree : 0..active, key : Owner, position : 1..MaxLeaves]
           /\ n.position \in DOMAIN trees[n.tree].leaves
           /\ trees[n.tree].leaves[n.position].owner = n.key
  <1> SUFFICES ASSUME NEW i \in 1..Len(sp.ins), NEW n,
                      n = [tree |-> sp.tree, key |-> sp.key, position |-> sp.ins[i]]
               PROVE  /\ n \in [tree : 0..active, key : Owner, position : 1..MaxLeaves]
                      /\ n.position \in DOMAIN trees[n.tree].leaves
                      /\ trees[n.tree].leaves[n.position].owner = n.key
    BY DEF NewNullifiers, NullifierSeeds, Consumes
  <1>1. /\ sp.tree \in 0..active /\ sp.key \in Owner
        /\ sp.ins[i] \in DOMAIN trees[sp.tree].leaves
        /\ trees[sp.tree].leaves[sp.ins[i]].owner = sp.key
    BY DEF Consumes
  <1>2. sp.ins[i] \in 1..MaxLeaves
    <2>1. /\ DOMAIN trees[sp.tree].leaves = 1..Len(trees[sp.tree].leaves)
          /\ Len(trees[sp.tree].leaves) \in 0..MaxLeaves
      BY <1>1, TreeFacts
    <2>2. MaxLeaves \in Nat
      BY PoolAssumption DEF PoolAssumption
    <2> QED
      BY <1>1, <2>1, <2>2
  <1> QED
    BY <1>1, <1>2

-----------------------------------------------------------------------------
(* Placing leaves *)

\* The active tree's leaves are followed by those of cs; no other tree changes.
Grows(cs) ==
  /\ active' = active
  /\ trees' \in [0..active -> TreeType]
  /\ \A t \in 0..active : t # active => trees'[t].leaves = trees[t].leaves
  /\ trees'[active].leaves = trees[active].leaves \o cs
  /\ Len(trees[active].leaves) + Len(cs) <= MaxLeaves

LEMMA InsertType ==
  ASSUME NEW tree \in TreeType, NEW cs \in Seq(Commitment)
  PROVE  InsertLeavesBatch(tree, cs) \in TreeType
  <1>1. /\ tree.leaves \in Seq(Commitment) /\ tree.next \in Nat
        /\ tree.history \in [0..(RootHistorySize - 1) -> Nat \cup {NoRoot}]
    BY DEF TreeType
  <1>2. tree.leaves \o cs \in Seq(Commitment) /\ Len(tree.leaves) \in Nat
    BY <1>1, ConcatProperties, LenProperties
  <1>3. [tree.history EXCEPT ![tree.next % RootHistorySize] = Len(tree.leaves)]
          \in [0..(RootHistorySize - 1) -> Nat \cup {NoRoot}]
    BY <1>1, <1>2
  <1> QED
    BY <1>1, <1>2, <1>3 DEF InsertLeavesBatch, TreeType

LEMMA PlacedGrows ==
  ASSUME TypeOK, NEW cs \in Seq(Commitment), HasRoom(trees[active], Len(cs)),
         trees' = Placed(cs), active' = active
  PROVE  Grows(cs)
  <1>1. active \in 0..active /\ trees[active] \in TreeType /\ trees \in [0..active -> TreeType]
    <2>1. active \in 0..active
      BY TreeFacts
    <2> QED
      BY <2>1, TreeFacts DEF TypeOK, TreeType
  <1>2. trees' = [trees EXCEPT ![active] = InsertLeavesBatch(trees[active], cs)]
    BY DEF Placed
  <1>3. InsertLeavesBatch(trees[active], cs) \in TreeType
    BY <1>1, InsertType
  <1>4. trees' \in [0..active -> TreeType]
    BY <1>1, <1>2, <1>3
  <1>5. trees'[active].leaves = trees[active].leaves \o cs
    BY <1>1, <1>2 DEF InsertLeavesBatch
  <1>6. \A t \in 0..active : t # active => trees'[t] = trees[t]
    BY <1>1, <1>2
  <1> QED
    BY <1>4, <1>5, <1>6 DEF Grows, HasRoom

LEMMA StaysGrows ==
  ASSUME TypeOK, trees' = trees, active' = active
  PROVE  Grows(<<>>)
  <1>1. active \in 0..active /\ trees[active].leaves \in Seq(Commitment)
    <2>1. active \in 0..active
      BY TreeFacts
    <2> QED
      BY <2>1, TreeFacts
  <1>2. trees[active].leaves \o <<>> = trees[active].leaves
    BY <1>1
  <1>3. Len(trees[active].leaves) + Len(<<>>) <= MaxLeaves
    BY <1>1 DEF TypeOK
  <1> QED
    BY <1>2, <1>3 DEF Grows, TypeOK, TreeType

\* What Grows says leaf by leaf.
Extended(cs) ==
  /\ active \in Nat /\ active' = active /\ DOMAIN trees' = 0..active
  /\ Len(cs) \in Nat
  /\ Len(trees[active].leaves) \in Nat
  /\ \A t \in 0..active :
       /\ trees'[t].leaves \in Seq(Commitment)
       /\ DOMAIN trees[t].leaves = 1..Len(trees[t].leaves)
       /\ DOMAIN trees'[t].leaves = 1..Len(trees'[t].leaves)
       /\ Len(trees'[t].leaves) <= MaxLeaves
       /\ Len(trees[t].leaves) \in Nat
       /\ Len(trees'[t].leaves) \in Nat
       /\ Len(trees'[t].leaves) >= Len(trees[t].leaves)
       /\ t = active => Len(trees'[t].leaves) = Len(trees[t].leaves) + Len(cs)
       /\ t # active => Len(trees'[t].leaves) = Len(trees[t].leaves)
       /\ \A i \in DOMAIN trees[t].leaves : trees'[t].leaves[i] = trees[t].leaves[i]
  /\ \A i \in 1..Len(cs) : trees'[active].leaves[Len(trees[active].leaves) + i] = cs[i]

LEMMA GrownLeaves ==
  ASSUME TypeOK, NEW cs \in Seq(Commitment), Grows(cs)
  PROVE  Extended(cs)
  <1>1. active \in Nat /\ active' = active /\ DOMAIN trees' = 0..active /\ Len(cs) \in Nat
    BY TreeFacts, LenProperties DEF Grows
  <1>2. \A t \in 0..active : /\ trees[t].leaves \in Seq(Commitment)
                             /\ Len(trees[t].leaves) \in 0..MaxLeaves
                             /\ DOMAIN trees[t].leaves = 1..Len(trees[t].leaves)
    BY TreeFacts
  <1>3. \A t \in 0..active : trees'[t].leaves \in Seq(Commitment)
    BY DEF Grows, TreeType
  <1>4. \A t \in 0..active : DOMAIN trees'[t].leaves = 1..Len(trees'[t].leaves)
    BY <1>3, LenProperties
  <1>5. active \in 0..active
    BY <1>1
  <1>6. /\ Len(trees'[active].leaves) = Len(trees[active].leaves) + Len(cs)
        /\ \A i \in 1..Len(trees[active].leaves) : trees'[active].leaves[i] = trees[active].leaves[i]
        /\ \A i \in 1..Len(cs) : trees'[active].leaves[Len(trees[active].leaves) + i] = cs[i]
    <2>1. trees[active].leaves \in Seq(Commitment)
      BY <1>2, <1>5
    <2>2. trees'[active].leaves = trees[active].leaves \o cs
      BY DEF Grows
    <2>3. Len(trees[active].leaves) \in Nat
      BY <1>2, <1>5
    <2>4. /\ Len(trees'[active].leaves) = Len(trees[active].leaves) + Len(cs)
          /\ \A i \in 1..(Len(trees[active].leaves) + Len(cs)) :
               trees'[active].leaves[i] = IF i <= Len(trees[active].leaves)
                                          THEN trees[active].leaves[i]
                                          ELSE cs[i - Len(trees[active].leaves)]
      BY <2>1, <2>2, ConcatProperties
    <2> DEFINE L == Len(trees[active].leaves)
    <2>5. \A i \in 1..L : /\ i \in 1..(L + Len(cs)) /\ i <= L
      BY <1>1, <2>3
    <2>6. \A i \in 1..Len(cs) : L + i \in 1..(L + Len(cs)) /\ ~(L + i <= L) /\ (L + i) - L = i
      BY <1>1, <2>3
    <2> QED
      BY <2>4, <2>5, <2>6
  <1>7. \A t \in 0..active : t # active => trees'[t].leaves = trees[t].leaves
    BY DEF Grows
  <1>8. MaxLeaves \in Nat /\ Len(trees[active].leaves) + Len(cs) <= MaxLeaves
    BY PoolAssumption DEF PoolAssumption, Grows
  <1>9. ASSUME NEW t \in 0..active
        PROVE  /\ Len(trees'[t].leaves) <= MaxLeaves
               /\ Len(trees[t].leaves) \in Nat
               /\ Len(trees'[t].leaves) \in Nat
               /\ Len(trees'[t].leaves) >= Len(trees[t].leaves)
               /\ t = active => Len(trees'[t].leaves) = Len(trees[t].leaves) + Len(cs)
               /\ t # active => Len(trees'[t].leaves) = Len(trees[t].leaves)
               /\ \A i \in DOMAIN trees[t].leaves : trees'[t].leaves[i] = trees[t].leaves[i]
    <2>1. CASE t = active
      <3>1. /\ Len(trees[t].leaves) \in Nat
            /\ DOMAIN trees[t].leaves = 1..Len(trees[t].leaves)
        BY <1>2
      <3> QED
        BY <2>1, <3>1, <1>6, <1>8
    <2>2. CASE t # active
      BY <2>2, <1>2, <1>7, <1>8
    <2> QED
      BY <2>1, <2>2
  <1> QED
    BY <1>1, <1>2, <1>3, <1>4, <1>5, <1>6, <1>9 DEF Extended

\* The records T are those of leaves in the trees.
OfLeaves(T) ==
  \A n \in T : /\ n = [tree |-> n.tree, key |-> n.key, position |-> n.position]
               /\ n.tree \in 0..active
               /\ n.position \in DOMAIN trees[n.tree].leaves
               /\ trees[n.tree].leaves[n.position].owner = n.key

\* The positions that a step places, and those that records spend.
Fresh(cs) == {<<active, Len(trees[active].leaves) + i>> : i \in 1..Len(cs)}
Taken(T) == {<<n.tree, n.position>> : n \in T}

LEMMA RecordsOfLeaves ==
  ASSUME TypeOK
  PROVE  OfLeaves(nullifiers)
  <1>1. \A n \in nullifiers : /\ n \in [tree : 0..active, key : Owner, position : 1..MaxLeaves]
                              /\ n.position \in DOMAIN trees[n.tree].leaves
                              /\ trees[n.tree].leaves[n.position].owner = n.key
    BY DEF TypeOK
  <1> QED
    BY <1>1 DEF OfLeaves

LEMMA GrownPositions ==
  ASSUME TypeOK, TypeOK', NEW cs \in Seq(Commitment), Grows(cs)
  PROVE  /\ Position' = Position \cup Fresh(cs)
         /\ Position \cap Fresh(cs) = {}
         /\ \A p \in Position : LeafAt(p)' = LeafAt(p)
         /\ \A p : \A i \in 1..Len(cs) :
              p = <<active, Len(trees[active].leaves) + i>> => LeafAt(p)' = cs[i]
  <1> DEFINE L == Len(trees[active].leaves)
  <1>1. Extended(cs)
    BY GrownLeaves
  <1>2. active' = active /\ active \in 0..active /\ L \in Nat /\ Len(cs) \in Nat
    BY <1>1 DEF Extended
  <1>3. \A t, i : <<t, i>> \in Position <=> t \in 0..active /\ i \in 1..Len(trees[t].leaves)
    BY <1>1, PositionFacts DEF Extended
  <1>4. \A t, i : <<t, i>> \in Position' <=> t \in 0..active /\ i \in 1..Len(trees'[t].leaves)
    <2>1. (\A t, i : <<t, i>> \in Position <=> t \in 0..active /\ i \in DOMAIN trees[t].leaves)'
      BY PositionFacts, PTL
    <2> QED
      BY <2>1, <1>1 DEF Extended
  <1>5. \A p \in Position : p = <<p[1], p[2]>>
    BY PositionFacts
  <1>6. \A p \in Position' : p = <<p[1], p[2]>>
    BY DEF Position
  <1>7. \A t \in 0..active : /\ Len(trees[t].leaves) \in Nat
                             /\ Len(trees'[t].leaves) \in Nat
                             /\ Len(trees'[t].leaves) >= Len(trees[t].leaves)
                             /\ t = active => Len(trees'[t].leaves) = Len(trees[t].leaves) + Len(cs)
                             /\ t # active => Len(trees'[t].leaves) = Len(trees[t].leaves)
    BY <1>1 DEF Extended
  <1>8. \A t, i : <<t, i>> \in Position' <=> <<t, i>> \in Position \/ <<t, i>> \in Fresh(cs)
    <2> SUFFICES ASSUME NEW t \in 0..active, NEW i
                 PROVE  i \in 1..Len(trees'[t].leaves) <=>
                          i \in 1..Len(trees[t].leaves) \/ <<t, i>> \in Fresh(cs)
      BY <1>2, <1>3, <1>4 DEF Fresh
    <2>1. CASE t = active
      <3>1. <<t, i>> \in Fresh(cs) <=> \E j \in 1..Len(cs) : i = L + j
        BY <2>1 DEF Fresh
      <3>2. Len(trees'[t].leaves) = L + Len(cs)
        BY <2>1, <1>7
      <3>3. i \in 1..(L + Len(cs)) <=> i \in 1..L \/ \E j \in 1..Len(cs) : i = L + j
        <4>1. ASSUME i \in 1..(L + Len(cs)), i \notin 1..L
              PROVE  i - L \in 1..Len(cs) /\ i = L + (i - L)
          BY <4>1, <1>2
        <4> HIDE DEF L
        <4> QED
          BY <1>2, <4>1
      <3> QED
        BY <2>1, <3>1, <3>2, <3>3
    <2>2. CASE t # active
      <3>1. <<t, i>> \notin Fresh(cs)
        BY <2>2 DEF Fresh
      <3>2. Len(trees'[t].leaves) = Len(trees[t].leaves)
        BY <2>2 DEF Grows
      <3> QED
        BY <3>1, <3>2
    <2> QED
      BY <2>1, <2>2
  <1>9. Position' = Position \cup Fresh(cs)
    <2>1. \A p \in Fresh(cs) : p = <<p[1], p[2]>>
      BY DEF Fresh
    <2> QED
      BY <2>1, <1>5, <1>6, <1>8
  <1>10. Position \cap Fresh(cs) = {}
    <2>1. ASSUME NEW j \in 1..Len(cs) PROVE <<active, L + j>> \notin Position
      <3>1. L + j \notin 1..L
        BY <1>2
      <3> QED
        BY <3>1, <1>3
    <2> QED
      BY <2>1 DEF Fresh
  <1>11. \A p \in Position : LeafAt(p)' = LeafAt(p)
    <2> SUFFICES ASSUME NEW p \in Position PROVE LeafAt(p)' = LeafAt(p)
      OBVIOUS
    <2>1. p[1] \in 0..active /\ p[2] \in DOMAIN trees[p[1]].leaves
      BY PositionFacts
    <2> QED
      BY <2>1, <1>1 DEF Extended, LeafAt
  <1>12. ASSUME NEW p, NEW i \in 1..Len(cs), p = <<active, L + i>>
         PROVE  LeafAt(p)' = cs[i]
    <2>1. trees'[active].leaves[L + i] = cs[i]
      BY <1>1 DEF Extended
    <2> QED
      BY <1>12, <2>1 DEF LeafAt
  <1> QED
    BY <1>9, <1>10, <1>11, <1>12

\* The unspent leaves after a step: those before it, less what it spends, and what it places.
LEMMA UnspentMoves ==
  ASSUME TypeOK, TypeOK', NEW cs \in Seq(Commitment), Grows(cs), NEW T, OfLeaves(T),
         nullifiers' = nullifiers \cup T, T \cap nullifiers = {}
  PROVE  /\ Taken(T) \subseteq Unspent
         /\ Unspent' = (Unspent \ Taken(T)) \cup Fresh(cs)
  <1>1. /\ Position' = Position \cup Fresh(cs)
        /\ Position \cap Fresh(cs) = {}
        /\ \A p \in Position : LeafAt(p)' = LeafAt(p)
    BY GrownPositions
  <1>2. OfLeaves(nullifiers) /\ OfLeaves(nullifiers')
    BY RecordsOfLeaves DEF OfLeaves
  <1>3. \A n \in nullifiers' : <<n.tree, n.position>> \in Position
    BY <1>2, PositionFacts DEF OfLeaves
  <1>4. \A p \in Fresh(cs) : ~Spent(p)'
    <2> SUFFICES ASSUME NEW p \in Fresh(cs), Spent(p)' PROVE FALSE
      OBVIOUS
    <2>1. PICK n \in nullifiers' : n.tree = p[1] /\ n.position = p[2]
      BY DEF Spent
    <2>2. p = <<p[1], p[2]>>
      BY DEF Fresh
    <2> QED
      BY <1>1, <1>3, <2>1, <2>2
  <1>5. \A p \in Position : Spent(p)' <=> Spent(p) \/ p \in Taken(T)
    <2> SUFFICES ASSUME NEW p \in Position PROVE Spent(p)' <=> Spent(p) \/ p \in Taken(T)
      OBVIOUS
    <2> DEFINE r == [tree |-> p[1], key |-> LeafAt(p).owner, position |-> p[2]]
    <2>1. Spent(p)' <=> r \in nullifiers \cup T
      BY <1>1 DEF Spent
    <2>2. Spent(p) <=> r \in nullifiers
      BY DEF Spent
    <2>3. r \in T => p \in Taken(T)
      <3>1. p = <<p[1], p[2]>> /\ r.tree = p[1] /\ r.position = p[2]
        BY PositionFacts
      <3> QED
        BY <3>1 DEF Taken
    <2>4. p \in Taken(T) => r \in T
      <3> SUFFICES ASSUME NEW n \in T, p = <<n.tree, n.position>> PROVE n = r
        BY DEF Taken
      <3>1. n = [tree |-> n.tree, key |-> n.key, position |-> n.position]
              /\ trees[n.tree].leaves[n.position].owner = n.key
        BY DEF OfLeaves
      <3> QED
        BY <3>1 DEF LeafAt
    <2> QED
      BY <2>1, <2>2, <2>3, <2>4
  <1>6. Taken(T) \subseteq Position
    BY <1>3 DEF Taken
  <1>7. \A p \in Taken(T) : ~Spent(p)
    <2> SUFFICES ASSUME NEW n \in T, Spent(<<n.tree, n.position>>) PROVE FALSE
      BY DEF Taken
    <2>1. n = [tree |-> n.tree, key |-> n.key, position |-> n.position]
            /\ trees[n.tree].leaves[n.position].owner = n.key
      BY DEF OfLeaves
    <2>2. n \in nullifiers
      BY <2>1 DEF Spent, LeafAt
    <2> QED
      BY <2>2
  <1>8. Unspent' = {p \in Position' : ~Spent(p)'}
    BY DEF Unspent
  <1> QED
    BY <1>1, <1>4, <1>5, <1>6, <1>7, <1>8 DEF Unspent

-----------------------------------------------------------------------------
(* The worth of the unspent leaves *)

Values == [p \in Position |-> LeafAt(p).value]
UnspentWorth == SumFunction([p \in Unspent |-> LeafAt(p).value])

LEMMA WorthAsValues ==
  ASSUME TypeOK
  PROVE  /\ UnspentWorth = SumFunctionOnSet(Values, Unspent)
         /\ UnspentWorth \in Nat
         /\ \A p \in Position : Values[p] \in Nat
  <1>1. IsFiniteSet(Unspent) /\ Unspent \subseteq Position
    BY PositionFacts DEF Unspent
  <1>2. \A p \in Position : Values[p] \in Nat
    BY PositionFacts DEF Values
  <1> DEFINE f == [p \in Unspent |-> LeafAt(p).value]
  <1>3. \A p \in Unspent : f[p] = Values[p]
    BY <1>1 DEF Values
  <1>4. UnspentWorth = SumFunctionOnSet(f, Unspent)
    BY DEF UnspentWorth, SumFunction
  <1> HIDE DEF f
  <1>5. SumFunctionOnSet(f, Unspent) = SumFunctionOnSet(Values, Unspent)
    BY <1>1, <1>3, SumCongruent
  <1>6. \A p \in Unspent : Values[p] \in Nat
    BY <1>1, <1>2
  <1>7. SumFunctionOnSet(Values, Unspent) \in Nat
    BY <1>1, <1>6, SumType
  <1> QED
    BY <1>2, <1>4, <1>5, <1>7

\* The values of the positions a spend takes add up to those of its inputs.
LEMMA TakenWorth ==
  ASSUME TypeOK, NEW sp, Consumes(sp)
  PROVE  SumFunctionOnSet(Values, Taken(NewNullifiers(sp))) = Total(InputValues(sp))
  <1> DEFINE n == Len(sp.ins)
             h == [i \in 1..n |-> <<sp.tree, sp.ins[i]>>]
  <1>1. n \in Nat /\ IsFiniteSet(1..n)
    BY FS_Interval DEF Consumes
  <1>2. Taken(NewNullifiers(sp)) = {h[i] : i \in 1..n}
    <2>1. DOMAIN sp.ins = 1..n
      BY DEF Consumes
    <2>2. \A p : p \in Taken(NewNullifiers(sp)) <=> \E r \in NewNullifiers(sp) : p = <<r.tree, r.position>>
      BY DEF Taken
    <2>3. \A r : r \in NewNullifiers(sp) <=> \E i \in 1..n : r = NullifierSeeds(sp.tree, sp.key, sp.ins[i])
      BY <2>1 DEF NewNullifiers
    <2>4. \A i \in 1..n : /\ NullifierSeeds(sp.tree, sp.key, sp.ins[i]).tree = sp.tree
                          /\ NullifierSeeds(sp.tree, sp.key, sp.ins[i]).position = sp.ins[i]
      BY DEF NullifierSeeds
    <2>5. \A p : p \in Taken(NewNullifiers(sp)) <=> \E i \in 1..n : p = <<sp.tree, sp.ins[i]>>
      BY <2>2, <2>3, <2>4
    <2> QED
      BY <2>5
  <1>3. \A i \in 1..n : h[i] \in Position /\ h[i] = <<sp.tree, sp.ins[i]>>
    BY PositionFacts DEF Consumes
  <1>4. \A i \in 1..n : Values[h[i]] = InputValues(sp)[i]
    <2> SUFFICES ASSUME NEW i \in 1..n PROVE Values[h[i]] = InputValues(sp)[i]
      OBVIOUS
    <2>1. h[i] \in Position /\ h[i][1] = sp.tree /\ h[i][2] = sp.ins[i]
      BY <1>3
    <2> HIDE DEF h
    <2> QED
      BY <2>1 DEF Values, InputValues, LeafAt
  <1>5. \A i, j \in 1..n : h[i] = h[j] => i = j
    BY DEF Consumes
  <1>6. \A i \in 1..n : Values[h[i]] \in Int
    <2> HIDE DEF h
    <2> QED
      BY <1>3, WorthAsValues
  <1> HIDE DEF h
  <1>7. SumFunctionOnSet([i \in 1..n |-> Values[h[i]]], 1..n)
          = SumFunctionOnSet(Values, {h[i] : i \in 1..n})
    BY <1>1, <1>5, <1>6, SumReindexed
  <1>8. [i \in 1..n |-> Values[h[i]]] = InputValues(sp)
    BY <1>4 DEF InputValues
  <1>9. DOMAIN InputValues(sp) = 1..n
    BY DEF InputValues
  <1> QED
    BY <1>2, <1>7, <1>8, <1>9 DEF Total, SumFunction

ValuesOf(cs) == [i \in 1..Len(cs) |-> cs[i].value]

LEMMA FreshWorth ==
  ASSUME TypeOK, TypeOK', NEW cs \in Seq(Commitment), Grows(cs)
  PROVE  /\ SumFunctionOnSet(Values', Fresh(cs)) = Total(ValuesOf(cs))
         /\ IsFiniteSet(Fresh(cs))
  <1> DEFINE n == Len(cs)
             L == Len(trees[active].leaves)
             h == [i \in 1..n |-> <<active, L + i>>]
  <1>1. n \in Nat /\ IsFiniteSet(1..n)
    BY LenProperties, FS_Interval
  <1>2. Fresh(cs) = {h[i] : i \in 1..n}
    BY DEF Fresh
  <1>3. L \in Nat
    BY GrownLeaves DEF Extended
  <1>4. \A i, j \in 1..n : h[i] = h[j] => i = j
    BY <1>1, <1>3
  <1>5. \A i \in 1..n : h[i] \in Position' /\ h[i] = <<active, Len(trees[active].leaves) + i>>
    BY <1>2, GrownPositions
  <1>6. \A p \in Position' : Values'[p] = LeafAt(p)'.value /\ Values'[p] \in Int
    <2>1. (\A p \in Position : Values[p] \in Nat)'
      BY WorthAsValues, PTL
    <2> QED
      BY <2>1 DEF Values
  <1> HIDE DEF h
  <1>7. \A p : \A i \in 1..n : p = h[i] => LeafAt(p)' = cs[i]
    BY <1>5, GrownPositions
  <1>8. \A i \in 1..n : Values'[h[i]] = ValuesOf(cs)[i]
    BY <1>5, <1>6, <1>7 DEF ValuesOf
  <1>9. \A i \in 1..n : Values'[h[i]] \in Int
    BY <1>5, <1>6
  <1>10. SumFunctionOnSet([i \in 1..n |-> Values'[h[i]]], 1..n)
          = SumFunctionOnSet(Values', {h[i] : i \in 1..n})
    BY <1>1, <1>4, <1>9, SumReindexed
  <1>11. [i \in 1..n |-> Values'[h[i]]] = ValuesOf(cs) /\ DOMAIN ValuesOf(cs) = 1..n
    BY <1>8 DEF ValuesOf
  <1>12. IsFiniteSet(Fresh(cs))
    BY <1>1, <1>2, ImageFinite
  <1> QED
    BY <1>2, <1>10, <1>11, <1>12 DEF Total, SumFunction

LEMMA WorthMoves ==
  ASSUME TypeOK, TypeOK', NEW cs \in Seq(Commitment), Grows(cs), NEW T, OfLeaves(T),
         nullifiers' = nullifiers \cup T, T \cap nullifiers = {}
  PROVE  UnspentWorth' = (UnspentWorth - SumFunctionOnSet(Values, Taken(T))) + Total(ValuesOf(cs))
  <1> DEFINE V == Values'
             kept == Unspent \ Taken(T)
  <1>1. /\ Taken(T) \subseteq Unspent
        /\ Unspent' = kept \cup Fresh(cs)
    BY UnspentMoves
  <1>2. /\ Position' = Position \cup Fresh(cs)
        /\ Position \cap Fresh(cs) = {}
        /\ \A p \in Position : LeafAt(p)' = LeafAt(p)
    BY GrownPositions
  <1>3. Unspent \subseteq Position /\ IsFiniteSet(Unspent)
    BY PositionFacts DEF Unspent
  <1>4. \A p \in Position' : V[p] \in Nat
    <2>1. (\A p \in Position : Values[p] \in Nat)'
      BY WorthAsValues, PTL
    <2> QED
      BY <2>1
  <1>5. \A p \in Unspent : V[p] = Values[p]
    BY <1>2, <1>3 DEF Values
  <1>6. UnspentWorth' = SumFunctionOnSet(V, Unspent')
    <2>1. (UnspentWorth = SumFunctionOnSet(Values, Unspent))'
      BY WorthAsValues, PTL
    <2> QED
      BY <2>1
  <1>7. UnspentWorth = SumFunctionOnSet(V, Unspent)
    <2> HIDE DEF V
    <2> QED
      BY <1>3, <1>5, SumCongruent, WorthAsValues
  <1>8. SumFunctionOnSet(Values, Taken(T)) = SumFunctionOnSet(V, Taken(T))
    <2>1. IsFiniteSet(Taken(T))
      BY <1>1, <1>3, FS_Subset
    <2>2. \A p \in Taken(T) : V[p] = Values[p]
      BY <1>1, <1>5
    <2> HIDE DEF V
    <2> QED
      BY <2>1, <2>2, SumCongruent
  <1>9. SumFunctionOnSet(V, Fresh(cs)) = Total(ValuesOf(cs)) /\ IsFiniteSet(Fresh(cs))
    BY FreshWorth
  <1>10. IsFiniteSet(kept) /\ kept \cap Fresh(cs) = {}
    BY <1>2, <1>3, FS_Subset
  <1>11. \A p \in Unspent : V[p] \in Int
    BY <1>2, <1>3, <1>4
  <1>12. \A p \in kept \cup Fresh(cs) : V[p] \in Int
    BY <1>2, <1>4, <1>11
  <1> HIDE DEF V
  <1>13. SumFunctionOnSet(V, kept) = SumFunctionOnSet(V, Unspent) - SumFunctionOnSet(V, Taken(T))
    BY <1>1, <1>3, <1>11, SumDifference
  <1> HIDE DEF kept
  <1>14. SumFunctionOnSet(V, kept \cup Fresh(cs))
           = SumFunctionOnSet(V, kept) + SumFunctionOnSet(V, Fresh(cs))
    BY <1>9, <1>10, <1>12, SumUnion
  <1> QED
    BY <1>1, <1>6, <1>7, <1>8, <1>9, <1>13, <1>14

-----------------------------------------------------------------------------
(* Types *)

Records == [tree : 0..active, key : Owner, position : 1..MaxLeaves]

LEMMA GrowthTyped ==
  ASSUME TypeOK, NEW cs \in Seq(Commitment), Grows(cs),
         NEW T \in SUBSET Records, OfLeaves(T), nullifiers' = nullifiers \cup T,
         paused' \in BOOLEAN, counted' \in Nat, DOMAIN queued' \subseteq Commitment,
         queued' \in [DOMAIN queued' -> [tree : 0..active, debt : Nat]],
         ledger' \in [shielded : Nat, fees : Nat, vault : Nat],
         overwritten' \in [value : Nat, debt : Nat]
  PROVE  TypeOK'
  <1>1. Extended(cs) /\ active' = active
    BY GrownLeaves DEF Grows
  <1>2. trees' \in [0..active -> TreeType]
    BY DEF Grows
  <1>3. \A t \in 0..active : Len(trees'[t].leaves) <= MaxLeaves
    BY <1>1 DEF Extended
  <1>4. nullifiers' \subseteq Records
    BY DEF TypeOK, Records
  <1>5. ASSUME NEW n \in nullifiers'
        PROVE  n.position \in DOMAIN trees'[n.tree].leaves
                 /\ trees'[n.tree].leaves[n.position].owner = n.key
    <2>1. /\ n.tree \in 0..active
          /\ n.position \in DOMAIN trees[n.tree].leaves
          /\ trees[n.tree].leaves[n.position].owner = n.key
      BY RecordsOfLeaves DEF OfLeaves
    <2>2. /\ trees'[n.tree].leaves[n.position] = trees[n.tree].leaves[n.position]
          /\ DOMAIN trees[n.tree].leaves = 1..Len(trees[n.tree].leaves)
          /\ DOMAIN trees'[n.tree].leaves = 1..Len(trees'[n.tree].leaves)
          /\ Len(trees[n.tree].leaves) \in Nat /\ Len(cs) \in Nat
          /\ Len(trees'[n.tree].leaves) \in Nat
          /\ Len(trees'[n.tree].leaves) >= Len(trees[n.tree].leaves)
      BY <1>1, <2>1 DEF Extended
    <2> DEFINE L == Len(trees[n.tree].leaves)
               M == Len(trees'[n.tree].leaves)
    <2>3. n.position \in 1..L /\ L \in Nat /\ M \in Nat /\ L <= M
      BY <2>1, <2>2
    <2>4. n.position \in DOMAIN trees'[n.tree].leaves
      <3>1. n.position \in 1..M
        <4> HIDE DEF L, M
        <4> QED
          BY <2>3
      <3> QED
        BY <2>2, <3>1
    <2> QED
      BY <2>1, <2>2, <2>4
  <1>6. active' \in 0..MaxTree
    BY <1>1 DEF TypeOK
  <1>7. /\ 0..active' = 0..active
        /\ nullifiers' \subseteq [tree : 0..active', key : Owner, position : 1..MaxLeaves]
        /\ trees' \in [0..active' -> [leaves : Seq(Commitment),
                                      history : [0..(RootHistorySize - 1) -> Nat \cup {NoRoot}],
                                      next : Nat]]
        /\ queued' \in [DOMAIN queued' -> [tree : 0..active', debt : Nat]]
    BY <1>1, <1>2, <1>4 DEF Records, TreeType
  <1> QED
    BY <1>3, <1>5, <1>6, <1>7 DEF TypeOK

\* The history gains the root that is replaced.
LEMMA RootsGrow ==
  ASSUME TypeOK, RootsArePrefixes, NEW cs \in Seq(Commitment), Grows(cs),
         trees' = Placed(cs) \/ trees' = trees
  PROVE  RootsArePrefixes'
  <1> SUFFICES ASSUME NEW t \in 0..active, NEW i \in 0..(RootHistorySize - 1),
                      trees'[t].history[i] # NoRoot
               PROVE  trees'[t].history[i] <= Len(trees'[t].leaves)
    BY DEF RootsArePrefixes, Grows
  <1>1. Extended(cs)
    BY GrownLeaves
  <1>2. /\ Len(trees[t].leaves) \in Nat /\ Len(cs) \in Nat /\ active \in 0..active
        /\ Len(trees'[t].leaves) \in Nat
        /\ Len(trees'[t].leaves) >= Len(trees[t].leaves)
        /\ t = active => Len(trees'[t].leaves) = Len(trees[t].leaves) + Len(cs)
        /\ t # active => Len(trees'[t].leaves) = Len(trees[t].leaves)
    BY <1>1 DEF Extended
  <1>4. /\ trees \in [0..active -> TreeType]
        /\ trees[t].history \in [0..(RootHistorySize - 1) -> Nat \cup {NoRoot}]
    BY DEF TypeOK, TreeType
  <1>5. \/ trees[t].history[i] = NoRoot
        \/ trees[t].history[i] \in Nat /\ trees[t].history[i] <= Len(trees[t].leaves)
    <2>1. trees[t].history[i] \in Nat \cup {NoRoot}
      BY <1>4
    <2>2. trees[t].history[i] = NoRoot \/ trees[t].history[i] <= Len(trees[t].leaves)
      BY DEF RootsArePrefixes
    <2>3. trees[t].history[i] \in Nat \/ trees[t].history[i] = NoRoot
      BY <2>1
    <2> QED
      BY <2>2, <2>3
  <1>6. CASE trees'[t].history[i] = trees[t].history[i]
    <2> DEFINE h == trees[t].history[i]
               L == Len(trees[t].leaves)
               M == Len(trees'[t].leaves)
    <2>1. h \in Nat /\ h <= L /\ L \in Nat /\ M \in Nat /\ L <= M
      BY <1>2, <1>5, <1>6
    <2>2. h <= M
      <3> HIDE DEF h, L, M
      <3> QED
        BY <2>1
    <2> QED
      BY <1>6, <2>2
  <1>7. CASE trees'[t].history[i] # trees[t].history[i]
    <2>1. trees' = [trees EXCEPT ![active] = InsertLeavesBatch(trees[active], cs)]
      BY <1>7 DEF Placed
    <2>2. t = active
      BY <1>2, <1>4, <1>7, <2>1
    <2>3. trees'[t].history
            = [trees[t].history EXCEPT ![trees[t].next % RootHistorySize] = Len(trees[t].leaves)]
      BY <1>2, <1>4, <2>1, <2>2 DEF InsertLeavesBatch
    <2>4. trees'[t].history[i] = Len(trees[t].leaves)
      BY <1>4, <1>7, <2>3
    <2> QED
      BY <1>2, <2>4
  <1> QED
    BY <1>6, <1>7

LEMMA CommitmentType ==
  ASSUME NEW npk \in NoteKey, NEW v \in Nat
  PROVE  /\ ComputeCommitment(npk, v) \in Commitment
         /\ ComputeCommitment(npk, v).value = v
  BY DEF ComputeCommitment, NoteKey, Commitment

LEMMA OutputsType ==
  ASSUME NEW outs \in Outputs
  PROVE  /\ outs \in Seq(Commitment)
         /\ Len(outs) \in Nat /\ DOMAIN outs = 1..Len(outs)
         /\ ValuesOf(outs) = [i \in DOMAIN outs |-> outs[i].value]
  <1> DEFINE C == {ComputeCommitment(npk, v) : npk \in NoteKey, v \in NoteValues}
  <1>1. MaxJoinSplit \in Nat /\ NoteValues \subseteq Nat
    BY PoolAssumption DEF PoolAssumption
  <1>2. 0..(MaxJoinSplit - 1) \in SUBSET Nat
    BY <1>1
  <1>3. C \subseteq Commitment
    BY <1>1, CommitmentType
  <1>4. outs \in SeqOf(C, 0..(MaxJoinSplit - 1))
    BY DEF Outputs
  <1> HIDE DEF C
  <1>5. /\ Len(outs) \in Nat /\ DOMAIN outs = 1..Len(outs)
        /\ outs \in Seq(C)
    BY <1>2, <1>4, SeqOfType
  <1>6. outs \in [1..Len(outs) -> C]
    BY <1>5, LenProperties
  <1>7. outs \in [1..Len(outs) -> Commitment]
    BY <1>3, <1>6
  <1>8. \E n \in Nat : outs \in [1..n -> Commitment]
    BY <1>5, <1>7
  <1> QED
    BY <1>5, <1>8, SeqDef DEF ValuesOf

-----------------------------------------------------------------------------
(* The steps *)

\* What the queued leaves are worth and owe, those written over included.
QueueWorth == SumFunction([c \in DOMAIN queued |-> c.value]) + overwritten.value
Debt == SumFunction([c \in DOMAIN queued |-> queued[c].debt]) + overwritten.debt

PoolInv == NotesInv /\ NotesBacked /\ NullifiersAccounted

LEMMA QueueFacts ==
  ASSUME TypeOK, IsFiniteSet(DOMAIN queued)
  PROVE  /\ QueueWorth \in Nat /\ Debt \in Nat
         /\ \A c \in DOMAIN queued : /\ c \in Commitment /\ c.value \in Nat
                                     /\ queued[c].tree \in 0..active
                                     /\ queued[c].debt \in Nat
  <1> DEFINE f == [c \in DOMAIN queued |-> c.value]
             g == [c \in DOMAIN queued |-> queued[c].debt]
  <1>1. \A c \in DOMAIN queued : c \in Commitment /\ c.value \in Nat
    BY DEF TypeOK, Commitment
  <1>2. \A c \in DOMAIN queued : queued[c].tree \in 0..active /\ queued[c].debt \in Nat
    BY DEF TypeOK
  <1>3. \A c \in DOMAIN queued : f[c] \in Nat /\ g[c] \in Nat
    BY <1>1, <1>2
  <1>4. /\ QueueWorth = SumFunctionOnSet(f, DOMAIN queued) + overwritten.value
        /\ Debt = SumFunctionOnSet(g, DOMAIN queued) + overwritten.debt
    BY DEF QueueWorth, Debt, SumFunction
  <1> HIDE DEF f, g
  <1>5. SumFunctionOnSet(f, DOMAIN queued) \in Nat /\ SumFunctionOnSet(g, DOMAIN queued) \in Nat
    BY <1>3, SumType
  <1>6. overwritten.value \in Nat /\ overwritten.debt \in Nat
    BY DEF TypeOK
  <1> QED
    BY <1>1, <1>2, <1>4, <1>5, <1>6

\* The sums behind the two.
LEMMA QueueSums ==
  ASSUME TypeOK, IsFiniteSet(DOMAIN queued)
  PROVE  /\ SumFunction([c \in DOMAIN queued |-> c.value]) \in Nat
         /\ SumFunction([c \in DOMAIN queued |-> queued[c].debt]) \in Nat
         /\ overwritten.value \in Nat /\ overwritten.debt \in Nat
  <1> DEFINE f == [c \in DOMAIN queued |-> c.value]
             g == [c \in DOMAIN queued |-> queued[c].debt]
  <1>1. \A c \in DOMAIN queued : f[c] \in Nat /\ g[c] \in Nat
    BY QueueFacts
  <1>2. DOMAIN f = DOMAIN queued /\ DOMAIN g = DOMAIN queued
    OBVIOUS
  <1> HIDE DEF f, g
  <1>3. SumFunctionOnSet(f, DOMAIN queued) \in Nat /\ SumFunctionOnSet(g, DOMAIN queued) \in Nat
    BY <1>1, SumType
  <1>4. SumFunction(f) \in Nat /\ SumFunction(g) \in Nat
    BY <1>2, <1>3 DEF SumFunction
  <1>5. overwritten.value \in Nat /\ overwritten.debt \in Nat
    BY DEF TypeOK
  <1> QED
    BY <1>4, <1>5 DEF f, g

LEMMA InvFacts ==
  ASSUME PoolInv
  PROVE  /\ TypeOK /\ NotesInv
         /\ ledger \in [shielded : Nat, fees : Nat, vault : Nat]
         /\ ledger.shielded = UnspentWorth + QueueWorth
         /\ ledger.vault = ledger.shielded + ledger.fees
         /\ Cardinality(nullifiers) = counted + Debt
         /\ counted \in Nat /\ Cardinality(nullifiers) \in Nat
         /\ UnspentWorth \in Nat /\ QueueWorth \in Nat /\ Debt \in Nat
         /\ IsFiniteSet(nullifiers)
  <1>1. NotesInv /\ TypeOK /\ IsFiniteSet(nullifiers) /\ IsFiniteSet(DOMAIN queued)
    BY DEF PoolInv, NotesInv
  <1>3. UnspentWorth \in Nat /\ QueueWorth \in Nat /\ Debt \in Nat
    BY <1>1, WorthAsValues, QueueFacts
  <1>4. counted \in Nat /\ Cardinality(nullifiers) \in Nat
    BY <1>1, FS_CardinalityType DEF TypeOK
  <1>2. /\ ledger.shielded = UnspentWorth + QueueWorth
        /\ ledger.vault = ledger.shielded + ledger.fees
        /\ Cardinality(nullifiers) = counted + Debt
    <2> DEFINE v == SumFunction([c \in DOMAIN queued |-> c.value])
               d == SumFunction([c \in DOMAIN queued |-> queued[c].debt])
    <2>1. v \in Nat /\ d \in Nat /\ overwritten.value \in Nat /\ overwritten.debt \in Nat
      BY <1>1, QueueSums
    <2>2. /\ ledger.shielded = UnspentWorth + v + overwritten.value
          /\ ledger.vault = ledger.shielded + ledger.fees
          /\ Cardinality(nullifiers) = counted + overwritten.debt + d
      BY DEF PoolInv, NotesBacked, NullifiersAccounted, UnspentWorth
    <2>3. QueueWorth = v + overwritten.value /\ Debt = d + overwritten.debt
      BY DEF QueueWorth, Debt
    <2> HIDE DEF v, d
    <2> QED
      BY <1>3, <1>4, <2>1, <2>2, <2>3
  <1> QED
    BY <1>1, <1>2, <1>3, <1>4 DEF TypeOK

\* What a step must show of the ledger.
LEMMA InvFolds ==
  ASSUME NotesInv', ledger'.shielded = UnspentWorth' + QueueWorth',
         ledger'.vault = ledger'.shielded + ledger'.fees,
         Cardinality(nullifiers') = counted' + Debt'
  PROVE  PoolInv'
  <1> DEFINE v == SumFunction([c \in DOMAIN queued' |-> c.value])
             d == SumFunction([c \in DOMAIN queued' |-> queued'[c].debt])
  <1>1. TypeOK' /\ IsFiniteSet(DOMAIN queued')
    BY DEF NotesInv
  <1>2. v \in Nat /\ d \in Nat /\ overwritten'.value \in Nat /\ overwritten'.debt \in Nat
    <2>1. (TypeOK /\ IsFiniteSet(DOMAIN queued) =>
             /\ SumFunction([c \in DOMAIN queued |-> c.value]) \in Nat
             /\ SumFunction([c \in DOMAIN queued |-> queued[c].debt]) \in Nat
             /\ overwritten.value \in Nat /\ overwritten.debt \in Nat)'
      BY QueueSums, PTL
    <2> QED
      BY <1>1, <2>1
  <1>3. UnspentWorth' \in Nat
    <2>1. (TypeOK => UnspentWorth \in Nat)'
      BY WorthAsValues, PTL
    <2> QED
      BY <1>1, <2>1
  <1>4. counted' \in Nat
    BY <1>1 DEF TypeOK
  <1>5. QueueWorth' = v + overwritten'.value /\ Debt' = d + overwritten'.debt
    BY DEF QueueWorth, Debt
  <1>6. /\ ledger'.shielded = UnspentWorth' + v + overwritten'.value
        /\ Cardinality(nullifiers') = counted' + overwritten'.debt + d
    <2> HIDE DEF v, d
    <2> QED
      BY <1>2, <1>3, <1>4, <1>5
  <1> QED
    BY <1>6 DEF PoolInv, NotesBacked, NullifiersAccounted, UnspentWorth

\* Placing leaves keeps the recorded roots prefixes and the frozen trees full.
LEMMA FreshPlaced ==
  ASSUME NotesInv, NEW cs \in Seq(Commitment), Grows(cs),
         trees' = Placed(cs) \/ trees' = trees,
         TypeOK', IsFiniteSet(nullifiers'), IsFiniteSet(DOMAIN queued')
  PROVE  NotesInv'
  <1>1. TypeOK /\ RootsArePrefixes /\ FrozenFull
    BY DEF NotesInv
  <1>2. RootsArePrefixes'
    BY <1>1, RootsGrow
  <1>3. FrozenFull'
    BY <1>1 DEF FrozenFull, Grows
  <1> QED
    BY <1>2, <1>3 DEF NotesInv

LEMMA TotalOne ==
  ASSUME NEW f, DOMAIN f = 1..1, f[1] \in Int
  PROVE  Total(f) = f[1]
  <1>1. 1..1 = {} \cup {1}
    OBVIOUS
  <1>2. IsFiniteSet({}) /\ SumFunctionOnSet(f, {}) = 0
    BY FS_EmptySet, SumEmpty
  <1>3. \A y \in {} \cup {1} : f[y] \in Int
    OBVIOUS
  <1>4. SumFunctionOnSet(f, {} \cup {1}) = SumFunctionOnSet(f, {}) + f[1]
    BY <1>2, <1>3, SumAdd
  <1> QED
    BY <1>1, <1>2, <1>4 DEF Total, SumFunction

LEMMA EmptyTaken ==
  /\ Taken({}) = {} /\ OfLeaves({}) /\ {} \in SUBSET Records
  /\ SumFunctionOnSet(Values, {}) = 0
  BY SumEmpty DEF Taken, OfLeaves

LEMMA ShieldPreserves ==
  ASSUME PoolInv, NEW npk \in NoteKey, NEW x \in Transfers, Shield(npk, x)
  PROVE  PoolInv'
  <1> DEFINE fee == ComputeBpsFee(x.received, DepositBps)
             value == x.received - fee
             c == ComputeCommitment(npk, value)
             cs == <<c>>
  <1>1. x.received \in Nat /\ fee \in Nat /\ value \in Nat
    <2>1. x.received \in Nat /\ DepositBps \in Nat /\ DepositBps <= BpsScale
      BY PoolAssumption DEF PoolAssumption
    <2>2. fee \in 0..x.received
      BY <2>1, FeeBounded
    <2> HIDE DEF fee
    <2> QED
      BY <2>1, <2>2
  <1>2. /\ TypeOK /\ NotesInv
        /\ ledger \in [shielded : Nat, fees : Nat, vault : Nat]
        /\ ledger.shielded = UnspentWorth + QueueWorth
        /\ ledger.vault = ledger.shielded + ledger.fees
        /\ Cardinality(nullifiers) = counted + Debt
        /\ UnspentWorth \in Nat /\ QueueWorth \in Nat
        /\ IsFiniteSet(nullifiers) /\ IsFiniteSet(DOMAIN queued)
    BY InvFacts DEF NotesInv
  <1>3. /\ trees' = Placed(cs) /\ HasRoom(trees[active], 1)
        /\ ledger' = [shielded |-> ledger.shielded + value, fees |-> ledger.fees + fee,
                      vault |-> ledger.vault + x.received]
        /\ UNCHANGED <<paused, active, nullifiers, counted, queued, overwritten>>
    BY DEF Shield
  <1> HIDE DEF fee
  <1> HIDE DEF value
  <1>4. c \in Commitment /\ c.value = value
    BY <1>1, CommitmentType
  <1> HIDE DEF c
  <1>5. cs \in Seq(Commitment) /\ Len(cs) = 1 /\ cs[1].value = value
    BY <1>4
  <1> HIDE DEF cs
  <1>6. Grows(cs)
    BY <1>2, <1>3, <1>5, PlacedGrows
  <1>7. ledger' \in [shielded : Nat, fees : Nat, vault : Nat]
    BY <1>1, <1>2, <1>3
  <1>8. TypeOK'
    <2>1. /\ paused' \in BOOLEAN /\ counted' \in Nat /\ DOMAIN queued' \subseteq Commitment
          /\ queued' \in [DOMAIN queued' -> [tree : 0..active, debt : Nat]]
          /\ nullifiers' = nullifiers \cup {}
          /\ overwritten' \in [value : Nat, debt : Nat]
      BY <1>2, <1>3 DEF TypeOK
    <2> QED
      BY <2>1, <1>2, <1>5, <1>6, <1>7, EmptyTaken, GrowthTyped
  <1>9. NotesInv'
    BY <1>2, <1>3, <1>5, <1>6, <1>8, FreshPlaced
  <1>10. UnspentWorth' = UnspentWorth + value
    <2>1. UnspentWorth' = (UnspentWorth - SumFunctionOnSet(Values, Taken({}))) + Total(ValuesOf(cs))
      BY <1>2, <1>3, <1>5, <1>6, <1>8, EmptyTaken, WorthMoves
    <2>2. Total(ValuesOf(cs)) = value
      BY <1>1, <1>5, TotalOne DEF ValuesOf
    <2>3. SumFunctionOnSet(Values, Taken({})) = 0
      BY EmptyTaken
    <2> QED
      BY <1>1, <1>2, <2>1, <2>2, <2>3
  <1>11. QueueWorth' = QueueWorth /\ Debt' = Debt
    BY <1>3 DEF QueueWorth, Debt
  <1>12. /\ ledger'.shielded = ledger.shielded + value
         /\ ledger'.fees = ledger.fees + fee
         /\ ledger'.vault = ledger.vault + x.received
         /\ ledger.shielded \in Nat /\ ledger.fees \in Nat /\ ledger.vault \in Nat
         /\ x.received = value + fee
    <2>1. x.received = value + fee
      BY <1>1 DEF value
    <2> QED
      BY <1>2, <1>3, <2>1
  <1>13. ledger'.shielded = UnspentWorth' + QueueWorth'
    BY <1>1, <1>2, <1>10, <1>11, <1>12
  <1>14. ledger'.vault = ledger'.shielded + ledger'.fees
    BY <1>1, <1>2, <1>12
  <1>15. Cardinality(nullifiers') = counted' + Debt'
    BY <1>2, <1>3, <1>11
  <1> QED
    BY <1>9, <1>13, <1>14, <1>15, InvFolds

\* The records that a spend adds to those there are.
LEMMA RecordsAdded ==
  ASSUME TypeOK, IsFiniteSet(nullifiers), NEW sp, Consumes(sp)
  PROVE  /\ NewNullifiers(sp) \in SUBSET Records
         /\ OfLeaves(NewNullifiers(sp))
         /\ NewNullifiers(sp) \cap nullifiers = {}
         /\ Len(sp.ins) \in Nat
         /\ IsFiniteSet(nullifiers \cup NewNullifiers(sp))
         /\ Cardinality(nullifiers \cup NewNullifiers(sp)) = Cardinality(nullifiers) + Len(sp.ins)
  <1> DEFINE T == NewNullifiers(sp)
  <1>1. \A n \in T : /\ n \in Records
                     /\ n.position \in DOMAIN trees[n.tree].leaves
                     /\ trees[n.tree].leaves[n.position].owner = n.key
    BY NewRecords DEF Records
  <1>2. T \in SUBSET Records /\ OfLeaves(T)
    BY <1>1 DEF OfLeaves, Records
  <1>3. T \cap nullifiers = {} /\ IsFiniteSet(T) /\ Cardinality(T) = Len(sp.ins) /\ Len(sp.ins) \in Nat
    BY DEF Consumes
  <1>4. Cardinality(nullifiers \cap T) = 0 /\ Cardinality(nullifiers) \in Nat
    <2>1. nullifiers \cap T = {}
      BY <1>3
    <2> QED
      BY <2>1, FS_EmptySet, FS_CardinalityType
  <1> HIDE DEF T
  <1>5. /\ IsFiniteSet(nullifiers \cup T)
        /\ Cardinality(nullifiers \cup T)
             = Cardinality(nullifiers) + Cardinality(T) - Cardinality(nullifiers \cap T)
    BY <1>3, FS_Union
  <1>6. Cardinality(nullifiers \cup T) = Cardinality(nullifiers) + Len(sp.ins)
    BY <1>3, <1>4, <1>5
  <1> QED
    BY <1>2, <1>3, <1>5, <1>6 DEF T

LEMMA TotalEmpty == Total(<<>>) = 0
  <1>1. DOMAIN <<>> = {}
    OBVIOUS
  <1> QED
    BY <1>1, SumEmpty DEF Total, SumFunction

LEMMA ValuesTotal ==
  ASSUME NEW cs \in Seq(Commitment)
  PROVE  Total(ValuesOf(cs)) \in Nat
  <1> DEFINE n == Len(cs)
             f == ValuesOf(cs)
  <1>1. n \in Nat /\ \A i \in 1..n : cs[i] \in Commitment
    BY LenProperties
  <1>2. DOMAIN f = 1..n /\ \A i \in 1..n : f[i] \in Nat
    BY <1>1 DEF ValuesOf, Commitment
  <1>3. IsFiniteSet(1..n)
    BY <1>1, FS_Interval
  <1> HIDE DEF f
  <1>4. SumFunctionOnSet(f, 1..n) \in Nat
    BY <1>2, <1>3, SumType
  <1> QED
    BY <1>2, <1>4 DEF Total, SumFunction, f

LEMMA TransactPreserves ==
  ASSUME PoolInv, NEW sp \in Spend, NEW cs \in Outputs, Transact(sp, cs)
  PROVE  PoolInv'
  <1> DEFINE T == NewNullifiers(sp)
  <1>1. /\ TypeOK /\ NotesInv
        /\ ledger.shielded = UnspentWorth + QueueWorth
        /\ ledger.vault = ledger.shielded + ledger.fees
        /\ Cardinality(nullifiers) = counted + Debt
        /\ counted \in Nat /\ Debt \in Nat
        /\ UnspentWorth \in Nat /\ IsFiniteSet(nullifiers) /\ IsFiniteSet(DOMAIN queued)
    BY InvFacts DEF NotesInv
  <1>2. /\ Verified(sp, cs, <<>>) /\ HasRoom(trees[active], Len(cs))
        /\ nullifiers' = nullifiers \cup T /\ counted' = counted + Len(sp.ins)
        /\ trees' = Placed(cs)
        /\ UNCHANGED <<paused, active, queued, ledger, overwritten>>
    BY DEF Transact
  <1>3. /\ cs \in Seq(Commitment) /\ Len(cs) \in Nat
        /\ ValuesOf(cs) = [i \in DOMAIN cs |-> cs[i].value]
    BY OutputsType
  <1>4. Consumes(sp) /\ Total(InputValues(sp)) = Total(ValuesOf(cs)) + Total(<<>>)
    <2>1. /\ Consumes(sp)
          /\ Total(InputValues(sp)) = Total([i \in DOMAIN cs |-> cs[i].value]) + Total(<<>>)
      BY <1>1, <1>2, SpendConsumes
    <2> QED
      BY <1>3, <2>1
  <1>5. /\ T \in SUBSET Records /\ OfLeaves(T) /\ T \cap nullifiers = {}
        /\ Len(sp.ins) \in Nat /\ IsFiniteSet(nullifiers')
        /\ Cardinality(nullifiers') = Cardinality(nullifiers) + Len(sp.ins)
    BY <1>1, <1>2, <1>4, RecordsAdded
  <1>6. Grows(cs)
    BY <1>1, <1>2, <1>3, PlacedGrows
  <1>7. TypeOK'
    <2>1. /\ paused' \in BOOLEAN /\ DOMAIN queued' \subseteq Commitment
          /\ queued' \in [DOMAIN queued' -> [tree : 0..active, debt : Nat]]
          /\ ledger' \in [shielded : Nat, fees : Nat, vault : Nat]
          /\ overwritten' \in [value : Nat, debt : Nat]
      BY <1>1, <1>2 DEF TypeOK
    <2>2. counted' \in Nat
      BY <1>1, <1>2, <1>5
    <2> HIDE DEF T
    <2> QED
      BY <2>1, <2>2, <1>1, <1>2, <1>3, <1>5, <1>6, GrowthTyped
  <1>8. NotesInv'
    BY <1>1, <1>2, <1>3, <1>5, <1>6, <1>7, FreshPlaced
  <1>9. UnspentWorth' = UnspentWorth
    <2>1. UnspentWorth' = (UnspentWorth - SumFunctionOnSet(Values, Taken(T))) + Total(ValuesOf(cs))
      <3> HIDE DEF T
      <3> QED
        BY <1>1, <1>2, <1>3, <1>5, <1>6, <1>7, WorthMoves
    <2>2. SumFunctionOnSet(Values, Taken(T)) = Total(ValuesOf(cs))
      BY <1>1, <1>4, TakenWorth, TotalEmpty, ValuesTotal, <1>3
    <2>3. Total(ValuesOf(cs)) \in Nat
      BY <1>3, ValuesTotal
    <2> QED
      BY <1>1, <2>1, <2>2, <2>3
  <1>10. QueueWorth' = QueueWorth /\ Debt' = Debt
    BY <1>2 DEF QueueWorth, Debt
  <1>11. ledger' = ledger
    BY <1>2
  <1>12. Cardinality(nullifiers') = counted' + Debt'
    BY <1>1, <1>2, <1>5, <1>10
  <1> QED
    BY <1>1, <1>8, <1>9, <1>10, <1>11, <1>12, InvFolds

LEMMA AmountsType ==
  ASSUME NEW amounts \in Amounts
  PROVE  /\ Total(amounts) \in Nat
         /\ Total([i \in DOMAIN amounts |-> ComputeBpsFee(amounts[i], WithdrawalBps)]) \in Nat
  <1> DEFINE f == [i \in DOMAIN amounts |-> ComputeBpsFee(amounts[i], WithdrawalBps)]
             S == DOMAIN amounts
  <1>1. /\ MaxPublicOutputs \in Nat /\ NoteValues \subseteq Nat
        /\ WithdrawalBps \in Nat /\ WithdrawalBps <= BpsScale
    BY PoolAssumption DEF PoolAssumption
  <1>2. 1..MaxPublicOutputs \in SUBSET Nat
    BY <1>1
  <1>3. Len(amounts) \in Nat /\ S = 1..Len(amounts) /\ \A i \in S : amounts[i] \in NoteValues
    BY <1>2, SeqOfType DEF Amounts
  <1>4. IsFiniteSet(S)
    BY <1>3, FS_Interval
  <1>5. \A i \in S : amounts[i] \in Nat
    BY <1>1, <1>3
  <1>6. \A i \in S : f[i] \in Nat
    <2> SUFFICES ASSUME NEW i \in S PROVE ComputeBpsFee(amounts[i], WithdrawalBps) \in Nat
      OBVIOUS
    <2>1. ComputeBpsFee(amounts[i], WithdrawalBps) \in 0..amounts[i]
      BY <1>1, <1>5, FeeBounded
    <2> QED
      BY <1>5, <2>1
  <1>7. DOMAIN f = S
    OBVIOUS
  <1> HIDE DEF f, S
  <1>8. SumFunctionOnSet(f, S) \in Nat /\ SumFunctionOnSet(amounts, S) \in Nat
    BY <1>4, <1>5, <1>6, SumType
  <1> QED
    BY <1>7, <1>8 DEF Total, SumFunction, f, S

LEMMA UnshieldPreserves ==
  ASSUME PoolInv, NEW sp \in Spend, NEW outs \in Outputs, NEW amounts \in Amounts,
         Unshield(sp, outs, amounts)
  PROVE  PoolInv'
  <1> DEFINE T == NewNullifiers(sp)
             out == Total(amounts)
             fees == Total([i \in DOMAIN amounts |-> ComputeBpsFee(amounts[i], WithdrawalBps)])
  <1>1. /\ TypeOK /\ NotesInv
        /\ ledger \in [shielded : Nat, fees : Nat, vault : Nat]
        /\ ledger.shielded = UnspentWorth + QueueWorth
        /\ ledger.vault = ledger.shielded + ledger.fees
        /\ Cardinality(nullifiers) = counted + Debt
        /\ counted \in Nat /\ Debt \in Nat
        /\ UnspentWorth \in Nat /\ QueueWorth \in Nat
        /\ IsFiniteSet(nullifiers) /\ IsFiniteSet(DOMAIN queued)
    BY InvFacts DEF NotesInv
  <1>2. /\ Verified(sp, outs, amounts)
        /\ outs = <<>> \/ HasRoom(trees[active], Len(outs))
        /\ out - fees <= ledger.vault /\ out <= ledger.shielded
        /\ nullifiers' = nullifiers \cup T /\ counted' = counted + Len(sp.ins)
        /\ trees' = IF outs = <<>> THEN trees ELSE Placed(outs)
        /\ ledger' = [shielded |-> ledger.shielded - out, fees |-> ledger.fees + fees,
                      vault |-> ledger.vault - (out - fees)]
        /\ UNCHANGED <<paused, active, queued, overwritten>>
    BY DEF Unshield
  <1>3. out \in Nat /\ fees \in Nat
    BY AmountsType
  <1> HIDE DEF fees
  <1>5. /\ outs \in Seq(Commitment) /\ Len(outs) \in Nat
        /\ ValuesOf(outs) = [i \in DOMAIN outs |-> outs[i].value]
        /\ Grows(outs)
        /\ trees' = Placed(outs) \/ trees' = trees
    <2>1. /\ outs \in Seq(Commitment) /\ Len(outs) \in Nat
          /\ ValuesOf(outs) = [i \in DOMAIN outs |-> outs[i].value]
      BY OutputsType
    <2>2. CASE outs = <<>>
      <3>1. Grows(<<>>) /\ trees' = trees
        BY <1>1, <1>2, <2>2, StaysGrows
      <3> QED
        BY <2>1, <2>2, <3>1
    <2>3. CASE outs # <<>>
      <3>1. trees' = Placed(outs) /\ HasRoom(trees[active], Len(outs))
        BY <1>2, <2>3
      <3>2. Grows(outs)
        BY <1>1, <1>2, <2>1, <3>1, PlacedGrows
      <3> QED
        BY <2>1, <3>1, <3>2
    <2> QED
      BY <2>2, <2>3
  <1>6. Consumes(sp) /\ Total(InputValues(sp)) = Total(ValuesOf(outs)) + out
    <2>1. /\ Consumes(sp)
          /\ Total(InputValues(sp))
               = Total([i \in DOMAIN outs |-> outs[i].value]) + Total(amounts)
      BY <1>1, <1>2, SpendConsumes
    <2> QED
      BY <1>5, <2>1
  <1>7. /\ T \in SUBSET Records /\ OfLeaves(T) /\ T \cap nullifiers = {}
        /\ Len(sp.ins) \in Nat /\ IsFiniteSet(nullifiers')
        /\ Cardinality(nullifiers') = Cardinality(nullifiers) + Len(sp.ins)
    BY <1>1, <1>2, <1>6, RecordsAdded
  <1> HIDE DEF out
  <1>8. /\ ledger'.shielded = ledger.shielded - out
        /\ ledger'.fees = ledger.fees + fees
        /\ ledger'.vault = ledger.vault - (out - fees)
        /\ ledger.shielded \in Nat /\ ledger.fees \in Nat /\ ledger.vault \in Nat
    BY <1>1, <1>2
  <1>9. ledger' \in [shielded : Nat, fees : Nat, vault : Nat]
    <2>1. /\ ledger.shielded - out \in Nat /\ ledger.fees + fees \in Nat
          /\ ledger.vault - (out - fees) \in Nat
      BY <1>2, <1>3, <1>8
    <2> QED
      BY <1>2, <2>1
  <1>10. TypeOK'
    <2>1. /\ paused' \in BOOLEAN /\ DOMAIN queued' \subseteq Commitment
          /\ queued' \in [DOMAIN queued' -> [tree : 0..active, debt : Nat]]
          /\ overwritten' \in [value : Nat, debt : Nat]
      BY <1>1, <1>2 DEF TypeOK
    <2>2. counted' \in Nat
      BY <1>1, <1>2, <1>7
    <2> HIDE DEF T
    <2> QED
      BY <2>1, <2>2, <1>1, <1>2, <1>5, <1>7, <1>9, GrowthTyped
  <1>11. NotesInv'
    BY <1>1, <1>2, <1>5, <1>7, <1>10, FreshPlaced
  <1>12. UnspentWorth' = UnspentWorth - out
    <2>1. UnspentWorth' = (UnspentWorth - SumFunctionOnSet(Values, Taken(T))) + Total(ValuesOf(outs))
      <3> HIDE DEF T
      <3> QED
        BY <1>1, <1>2, <1>5, <1>7, <1>10, WorthMoves
    <2>2. SumFunctionOnSet(Values, Taken(T)) = Total(ValuesOf(outs)) + out
      BY <1>1, <1>6, TakenWorth
    <2>3. Total(ValuesOf(outs)) \in Nat
      BY <1>5, ValuesTotal
    <2> QED
      BY <1>1, <1>3, <2>1, <2>2, <2>3
  <1>13. QueueWorth' = QueueWorth /\ Debt' = Debt
    BY <1>2 DEF QueueWorth, Debt
  <1>14. ledger'.shielded = UnspentWorth' + QueueWorth'
    BY <1>1, <1>3, <1>8, <1>12, <1>13
  <1>15. ledger'.vault = ledger'.shielded + ledger'.fees
    BY <1>1, <1>3, <1>8
  <1>16. Cardinality(nullifiers') = counted' + Debt'
    BY <1>1, <1>2, <1>7, <1>13
  <1> QED
    BY <1>11, <1>14, <1>15, <1>16, InvFolds

\* A sum over two parts, of which the first is as it was.
LEMMA SumJoined ==
  ASSUME NEW S, IsFiniteSet(S), NEW I, IsFiniteSet(I), S \cap I = {}, NEW f, NEW g,
         \A x \in S : g[x] = f[x], \A x \in S \cup I : g[x] \in Int
  PROVE  SumFunctionOnSet(g, S \cup I) = SumFunctionOnSet(f, S) + SumFunctionOnSet(g, I)
  <1>1. SumFunctionOnSet(g, S \cup I) = SumFunctionOnSet(g, S) + SumFunctionOnSet(g, I)
    BY SumUnion
  <1>2. SumFunctionOnSet(g, S) = SumFunctionOnSet(f, S)
    BY SumCongruent
  <1> QED
    BY <1>1, <1>2

Listed(f, b, n) == [i \in 1..n |-> f[b[i]]]

\* The places of b whose element is in S or occurs at an earlier place.
Again(S, b, n) == {i \in 1..n : b[i] \in S \/ \E j \in 1..(i - 1) : b[j] = b[i]}

\* What is listed joins a sum, less what is there already.
SumsAgain(S, f, b, n) ==
  /\ SumFunctionOnSet(f, S \cup FirstOf(b, n)) + SumFunctionOnSet(Listed(f, b, n), Again(S, b, n))
       = SumFunctionOnSet(f, S) + SumFunctionOnSet(Listed(f, b, n), 1..n)
  /\ SumFunctionOnSet(Listed(f, b, n), Again(S, b, n)) \in Nat
  /\ SumFunctionOnSet(f, S) \in Nat
  /\ SumFunctionOnSet(f, S \cup FirstOf(b, n)) \in Nat
  /\ SumFunctionOnSet(Listed(f, b, n), 1..n) \in Nat

LEMMA SumAgain ==
  ASSUME NEW S, IsFiniteSet(S), NEW n \in Nat, NEW b, NEW f,
         \A x \in S \cup FirstOf(b, n) : f[x] \in Nat
  PROVE  SumsAgain(S, f, b, n)
  <1> DEFINE I == FirstOf(b, n)
             W == Again(S, b, n)
             F == (1..n) \ W
             g == Listed(f, b, n)
             New == {b[i] : i \in F}
  <1>1. I = {b[i] : i \in 1..n}
    BY DEF FirstOf
  <1>2. IsFiniteSet(1..n) /\ IsFiniteSet(I)
    <2>1. IsFiniteSet(1..n)
      BY FS_Interval
    <2>2. IsFiniteSet({b[i] : i \in 1..n})
      BY ImageFinite
    <2> QED
      BY <1>1, <2>1, <2>2
  <1>3. W \in SUBSET (1..n) /\ IsFiniteSet(F) /\ IsFiniteSet(W)
    <2>1. W \in SUBSET (1..n)
      BY DEF Again
    <2> HIDE DEF W
    <2> QED
      BY <1>2, <2>1, FS_Subset
  <1>4. \A i \in F : i \in 1..n /\ b[i] \notin S /\ \A j \in 1..(i - 1) : b[j] # b[i]
    BY DEF Again
  <1>5. \A i, j \in F : b[i] = b[j] => i = j
    <2> SUFFICES ASSUME NEW i \in F, NEW j \in F, b[i] = b[j], i < j PROVE FALSE
      <3>1. \A i, j \in F : i \in Int /\ j \in Int
        BY <1>4
      <3> HIDE DEF F
      <3> QED
        BY <3>1
    <2>1. i \in 1..(j - 1)
      BY <1>4
    <2> QED
      BY <1>4, <2>1
  <1>6. New = I \ S
    <2>1. New \subseteq I \ S
      BY <1>1, <1>4
    <2>2. ASSUME NEW x \in I \ S PROVE x \in New
      <3> DEFINE T == {i \in 1..n : b[i] = x}
      <3>1. T \in SUBSET Nat /\ T # {}
        BY <1>1
      <3> HIDE DEF T
      <3>2. PICK i \in T : \A m \in T : i <= m
        BY <3>1, LeastNat
      <3>3. i \in 1..n /\ b[i] = x
        BY DEF T
      <3>4. \A j \in 1..(i - 1) : b[j] # b[i]
        <4> SUFFICES ASSUME NEW j \in 1..(i - 1), b[j] = b[i] PROVE FALSE
          OBVIOUS
        <4>1. j \in T
          BY <3>3 DEF T
        <4>2. i <= j
          BY <3>2, <4>1
        <4> QED
          BY <3>3, <4>2
      <3>5. i \in F
        BY <3>3, <3>4 DEF Again
      <3> QED
        BY <3>3, <3>5
    <2> QED
      BY <2>1, <2>2
  <1>7. \A i \in 1..n : g[i] = f[b[i]] /\ g[i] \in Nat
    BY <1>1 DEF Listed
  <1>8. \A x \in S \cup (I \ S) : f[x] \in Nat /\ f[x] \in Int
    OBVIOUS
  <1>9. \A i \in F : f[b[i]] \in Int
    BY <1>3, <1>7
  <1>10. \A i \in 1..n : g[i] \in Int
    BY <1>7
  <1> HIDE DEF F
  <1>11. SumFunctionOnSet([i \in F |-> f[b[i]]], F) = SumFunctionOnSet(f, New)
    BY <1>3, <1>5, <1>9, SumReindexed
  <1> DEFINE h == [i \in F |-> f[b[i]]]
  <1>12. \A i \in F : h[i] = g[i]
    BY <1>7 DEF F
  <1> HIDE DEF h, g, New, I, W
  <1>13. SumFunctionOnSet(h, F) = SumFunctionOnSet(g, F)
    BY <1>3, <1>12, SumCongruent
  <1>14. SumFunctionOnSet(g, F) = SumFunctionOnSet(g, 1..n) - SumFunctionOnSet(g, W)
    BY <1>2, <1>3, <1>10, SumDifference DEF F
  <1>15. IsFiniteSet(I \ S) /\ S \cap (I \ S) = {} /\ S \cup (I \ S) = S \cup I
    BY <1>2, FS_Subset
  <1>16. SumFunctionOnSet(f, S \cup (I \ S)) = SumFunctionOnSet(f, S) + SumFunctionOnSet(f, I \ S)
    <2> DEFINE R == I \ S
    <2>1. IsFiniteSet(R) /\ S \cap R = {} /\ \A x \in S \cup R : f[x] \in Int
      BY <1>8, <1>15
    <2> HIDE DEF R
    <2>2. SumFunctionOnSet(f, S \cup R) = SumFunctionOnSet(f, S) + SumFunctionOnSet(f, R)
      BY <2>1, SumUnion
    <2> QED
      BY <2>2 DEF R
  <1>17. SumFunctionOnSet(g, 1..n) \in Nat /\ SumFunctionOnSet(g, W) \in Nat
    <2>1. \A i \in W : g[i] \in Nat
      BY <1>3, <1>7
    <2> QED
      BY <1>2, <1>3, <1>7, <2>1, SumType
  <1>18. SumFunctionOnSet(f, S) \in Nat /\ SumFunctionOnSet(f, S \cup I) \in Nat
    <2> DEFINE R == S \cup I
    <2>1. IsFiniteSet(R)
      BY <1>2, FS_Union
    <2>2. \A x \in R : f[x] \in Nat
      BY DEF I
    <2> HIDE DEF R
    <2>3. SumFunctionOnSet(f, R) \in Nat
      BY <2>1, <2>2, SumType
    <2>4. SumFunctionOnSet(f, S) \in Nat
      BY SumType
    <2> QED
      BY <2>3, <2>4 DEF R
  <1>19. /\ SumFunctionOnSet(f, S \cup I) = SumFunctionOnSet(f, S) + SumFunctionOnSet(f, I \ S)
         /\ SumFunctionOnSet(f, I \ S) = SumFunctionOnSet(g, 1..n) - SumFunctionOnSet(g, W)
    BY <1>6, <1>11, <1>13, <1>14, <1>15, <1>16 DEF h
  <1> DEFINE a1 == SumFunctionOnSet(f, S \cup I)
             a2 == SumFunctionOnSet(f, S)
             a3 == SumFunctionOnSet(f, I \ S)
             a4 == SumFunctionOnSet(g, 1..n)
             a5 == SumFunctionOnSet(g, W)
  <1>20. a1 = a2 + a3 /\ a3 = a4 - a5 /\ a1 \in Nat /\ a2 \in Nat /\ a4 \in Nat /\ a5 \in Nat
    BY <1>17, <1>18, <1>19
  <1> HIDE DEF a1, a2, a3, a4, a5
  <1>21. a1 + a5 = a2 + a4
    BY <1>20
  <1> QED
    BY <1>17, <1>18, <1>21 DEF a1, a2, a4, a5, SumsAgain, I, W, g

\* A sum over S is carried over, but for the part in I, which is set anew.
SumsOver(S, I, f, g) ==
  /\ SumFunctionOnSet(g, S \cup I) + SumFunctionOnSet(f, S \cap I)
       = SumFunctionOnSet(f, S) + SumFunctionOnSet(g, I)
  /\ SumFunctionOnSet(g, S \cup I) \in Nat
  /\ SumFunctionOnSet(f, S \cap I) \in Nat
  /\ SumFunctionOnSet(f, S) \in Nat
  /\ SumFunctionOnSet(g, I) \in Nat

LEMMA SumOverwritten ==
  ASSUME NEW S, IsFiniteSet(S), NEW I, IsFiniteSet(I), NEW f, \A x \in S : f[x] \in Nat,
         NEW g, \A x \in I : g[x] \in Nat, \A x \in S \ I : g[x] = f[x]
  PROVE  SumsOver(S, I, f, g)
  <1> DEFINE R == S \ I
             C == S \cap I
             U == S \cup I
  <1>1. /\ IsFiniteSet(R) /\ IsFiniteSet(C) /\ R \cap I = {} /\ R \cup I = U
        /\ C \in SUBSET S /\ S \ C = R
    BY FS_Subset
  <1>2. IsFiniteSet(U)
    BY FS_Union
  <1>3. /\ \A x \in R : g[x] = f[x]
        /\ \A x \in U : g[x] \in Nat
        /\ \A x \in C : f[x] \in Nat
        /\ \A x \in S : f[x] \in Int
    OBVIOUS
  <1>4. \A x \in R \cup I : g[x] \in Int
    BY <1>1, <1>3
  <1> HIDE DEF R, C, U
  <1>5. SumFunctionOnSet(g, R \cup I) = SumFunctionOnSet(f, R) + SumFunctionOnSet(g, I)
    BY <1>1, <1>3, <1>4, SumJoined
  <1>6. SumFunctionOnSet(f, S \ C) = SumFunctionOnSet(f, S) - SumFunctionOnSet(f, C)
    BY <1>1, <1>3, SumDifference
  <1>7. /\ SumFunctionOnSet(g, U) \in Nat /\ SumFunctionOnSet(f, C) \in Nat
        /\ SumFunctionOnSet(f, S) \in Nat /\ SumFunctionOnSet(g, I) \in Nat
    BY <1>1, <1>2, <1>3, SumType
  <1>8. SumFunctionOnSet(g, U) + SumFunctionOnSet(f, C)
              = SumFunctionOnSet(f, S) + SumFunctionOnSet(g, I)
    <2> DEFINE a1 == SumFunctionOnSet(g, U)
               a2 == SumFunctionOnSet(f, C)
               a3 == SumFunctionOnSet(f, S)
               a4 == SumFunctionOnSet(g, I)
               a5 == SumFunctionOnSet(f, R)
    <2>1. /\ a1 = a5 + a4 /\ a5 = a3 - a2
          /\ a1 \in Nat /\ a2 \in Nat /\ a3 \in Nat /\ a4 \in Nat
      BY <1>1, <1>5, <1>6, <1>7
    <2> HIDE DEF a1, a2, a3, a4, a5
    <2>2. a1 + a2 = a3 + a4
      BY <2>1
    <2> QED
      BY <2>2 DEF a1, a2, a3, a4
  <1> QED
    BY <1>7, <1>8 DEF C, U, SumsOver

\* Outputs that are queued, over those already there or not: accounted for in worth and in
\* nullifiers, with what they are written over.
LEMMA QueueGrows ==
  ASSUME NotesInv, NEW sp, Len(sp.ins) \in Nat, NEW cs \in Seq(Commitment), Len(cs) > 0,
         queued' = [c \in DOMAIN queued \cup Image(cs) |->
                      IF c \in Image(cs)
                        THEN [tree |-> active, debt |-> NullifierDebt(sp, cs, c)]
                        ELSE queued[c]],
         overwritten' = Overwrite(sp, cs)
  PROVE  /\ IsFiniteSet(DOMAIN queued')
         /\ DOMAIN queued' \subseteq Commitment
         /\ queued' \in [DOMAIN queued' -> [tree : 0..active, debt : Nat]]
         /\ overwritten' \in [value : Nat, debt : Nat]
         /\ QueueWorth' = QueueWorth + Total(ValuesOf(cs))
         /\ Debt' = Debt + Len(sp.ins)
  <1> DEFINE I == Image(cs)
             n == Len(cs)
             S == DOMAIN queued
             U == S \cup I
             k == Len(sp.ins)
             d == NullifierDebt(sp, cs, cs[1])
  <1>1. /\ TypeOK /\ IsFiniteSet(S)
        /\ \A c \in S : /\ c \in Commitment /\ c.value \in Nat
                        /\ queued[c].tree \in 0..active /\ queued[c].debt \in Nat
    BY QueueFacts DEF NotesInv
  <1>2. n \in Nat /\ DOMAIN cs = 1..n /\ 1 \in 1..n
    BY LenProperties
  <1>3. \A i \in 1..n : cs[i] \in Commitment /\ cs[i].value \in Nat
    <2>1. \A i \in 1..n : cs[i] \in Commitment
      BY <1>2, LenProperties
    <2> QED
      BY <2>1 DEF Commitment
  <1>4. I = FirstOf(cs, n) /\ cs[1] \in I
    BY <1>2 DEF Image, FirstOf
  <1>5. IsFiniteSet(I)
    BY <1>2, <1>4, ImageFinite DEF FirstOf
  <1>6. \A c \in I : c \in Commitment /\ c.value \in Nat
    BY <1>3, <1>4 DEF FirstOf
  <1>7. /\ DOMAIN queued' = U
        /\ \A c \in I : queued'[c] = [tree |-> active, debt |-> NullifierDebt(sp, cs, c)]
        /\ \A c \in S \ I : queued'[c] = queued[c]
    OBVIOUS
  <1>8. /\ \A c : NullifierDebt(sp, cs, c) \in Nat
        /\ \A c : c # cs[1] => NullifierDebt(sp, cs, c) = 0
        /\ d \in 0..k
    BY DEF NullifierDebt
  <1>9. /\ overwritten.value \in Nat /\ overwritten.debt \in Nat
        /\ active \in 0..active
    BY <1>1, TreeFacts DEF TypeOK
  <1>10. IsFiniteSet(U) /\ U \subseteq Commitment
    BY <1>1, <1>5, <1>6, FS_Union
  <1>11. queued' \in [U -> [tree : 0..active, debt : Nat]]
    <2>1. \A c \in U : queued'[c] \in [tree : 0..active, debt : Nat]
      <3>1. \A c \in S : queued[c] \in [tree : 0..active, debt : Nat]
        BY <1>1 DEF TypeOK
      <3> HIDE DEF I
      <3> QED
        BY <3>1, <1>7, <1>8, <1>9
    <2> QED
      BY <2>1, <1>7
  <1> DEFINE V == [c \in U |-> c.value]
             W == Rewrites(cs)
             v == SumFunction([i \in W |-> cs[i].value])
             o == SumFunction([c \in S \cap I |-> queued[c].debt])
  <1>12. overwritten' = [value |-> overwritten.value + v, debt |-> overwritten.debt + o + (k - d)]
    BY DEF Overwrite
  <1>13. W = Again(S, cs, n)
    BY <1>2 DEF Rewrites, Again
  <1> HIDE DEF I, S, U, W, v, o, d
  <1>14. /\ QueueWorth' = QueueWorth + Total(ValuesOf(cs))
         /\ v \in Nat
    <2> DEFINE x == [c \in S |-> c.value]
               l == [i \in W |-> cs[i].value]
               m == SumFunctionOnSet(x, S)
    <2>1. \A c \in S \cup FirstOf(cs, n) : V[c] = c.value /\ V[c] \in Nat
      BY <1>1, <1>4, <1>6 DEF U
    <2>2. \A c \in S : x[c] = V[c]
      BY <2>1
    <2>3. QueueWorth = SumFunctionOnSet(x, S) + overwritten.value
      BY DEF QueueWorth, SumFunction, S
    <2>4. QueueWorth' = SumFunctionOnSet(V, U) + overwritten'.value
      BY <1>7 DEF QueueWorth, SumFunction
    <2>5. Listed(V, cs, n) = ValuesOf(cs) /\ DOMAIN ValuesOf(cs) = 1..n
      BY <2>1 DEF Listed, ValuesOf, FirstOf
    <2>6. \A i \in W : l[i] = ValuesOf(cs)[i]
      BY <1>13 DEF Again, ValuesOf
    <2>7. v = SumFunctionOnSet(l, W) /\ IsFiniteSet(W)
      <3>1. W \in SUBSET (1..n) /\ IsFiniteSet(1..n)
        BY <1>2, <1>13, FS_Interval DEF Again
      <3>2. IsFiniteSet(W)
        BY <3>1, FS_Subset
      <3> QED
        BY <3>2 DEF v, SumFunction
    <2> HIDE DEF V, x, l
    <2>8. v = SumFunctionOnSet(ValuesOf(cs), W)
      BY <2>6, <2>7, SumCongruent
    <2>9. SumFunctionOnSet(x, S) = SumFunctionOnSet(V, S)
      BY <1>1, <2>2, SumCongruent
    <2>10. SumsAgain(S, V, cs, n)
      <3>1. \A c \in S \cup FirstOf(cs, n) : V[c] \in Nat
        BY <2>1
      <3>2. IsFiniteSet(S) /\ n \in Nat
        BY <1>1, <1>2
      <3> HIDE DEF n
      <3> QED
        BY <3>1, <3>2, SumAgain
    <2>11. /\ SumFunctionOnSet(V, U) + v = SumFunctionOnSet(V, S) + Total(ValuesOf(cs))
           /\ v \in Nat /\ SumFunctionOnSet(V, S) \in Nat /\ SumFunctionOnSet(V, U) \in Nat
           /\ Total(ValuesOf(cs)) \in Nat
      BY <1>4, <1>13, <2>5, <2>8, <2>10 DEF SumsAgain, Total, SumFunction, U
    <2>12. overwritten'.value = overwritten.value + v
      BY <1>12
    <2> DEFINE b1 == SumFunctionOnSet(V, U)
               b2 == SumFunctionOnSet(V, S)
               b3 == Total(ValuesOf(cs))
    <2>13. /\ b1 + v = b2 + b3 /\ v \in Nat /\ b1 \in Nat /\ b2 \in Nat /\ b3 \in Nat
           /\ QueueWorth = b2 + overwritten.value
           /\ QueueWorth' = b1 + (overwritten.value + v)
      BY <2>3, <2>4, <2>9, <2>11, <2>12
    <2> HIDE DEF b1, b2, b3
    <2>14. QueueWorth' = QueueWorth + b3
      <3>1. \A y1, y2, y3, y4, y5 \in Nat :
              y1 + y4 = y2 + y3 => y1 + (y5 + y4) = (y2 + y5) + y3
        OBVIOUS
      <3>2. b1 + (overwritten.value + v) = (b2 + overwritten.value) + b3
        BY <1>9, <2>13, <3>1
      <3>3. QueueWorth = b2 + overwritten.value
        BY <2>13
      <3>4. QueueWorth' = b1 + (overwritten.value + v)
        BY <2>13
      <3> QED
        BY ONLY <3>2, <3>3, <3>4, Zenon
    <2> QED
      BY <2>13, <2>14 DEF b3
  <1>15. Debt' = Debt + k /\ o \in Nat
    <2> DEFINE f == [c \in S |-> queued[c].debt]
               g == [c \in U |-> queued'[c].debt]
               e == [c \in S \cap I |-> queued[c].debt]
    <2>1. Debt = SumFunctionOnSet(f, S) + overwritten.debt
      BY DEF Debt, SumFunction, S
    <2>2. Debt' = SumFunctionOnSet(g, U) + overwritten'.debt
      BY <1>7 DEF Debt, SumFunction
    <2>3. \A c \in S : f[c] \in Nat
      BY <1>1
    <2>4. \A c \in I : g[c] = NullifierDebt(sp, cs, c) /\ g[c] \in Nat
      <3>1. \A c \in I : c \in U /\ g[c] = queued'[c].debt
        BY DEF U
      <3>2. ASSUME NEW c \in I PROVE queued'[c].debt = NullifierDebt(sp, cs, c)
        <4> DEFINE m == NullifierDebt(sp, cs, c)
        <4>1. queued'[c] = [tree |-> active, debt |-> m]
          BY <1>7
        <4> HIDE DEF m
        <4>2. [tree |-> active, debt |-> m].debt = m
          OBVIOUS
        <4> QED
          BY <4>1, <4>2 DEF m
      <3> QED
        BY <1>8, <3>1, <3>2
    <2>5. \A c \in S \ I : g[c] = f[c]
      <3>1. \A c \in S \ I : c \in U /\ g[c] = queued'[c].debt /\ f[c] = queued[c].debt
        BY DEF U
      <3> QED
        BY <1>7, <3>1
    <2>6. \A c \in S \cap I : e[c] = f[c]
      OBVIOUS
    <2>7. o = SumFunctionOnSet(e, S \cap I)
      BY DEF o, SumFunction
    <2>8. IsFiniteSet(S \cap I)
      BY <1>1, FS_Intersection
    <2>9. g[cs[1]] = d
      BY <1>4, <2>4 DEF d
    <2> HIDE DEF f, g, e
    <2>10. o = SumFunctionOnSet(f, S \cap I)
      <3> DEFINE C == S \cap I
      <3>1. IsFiniteSet(C) /\ \A c \in C : e[c] = f[c]
        BY <2>6, <2>8
      <3> HIDE DEF C
      <3>2. SumFunctionOnSet(e, C) = SumFunctionOnSet(f, C)
        BY <3>1, SumCongruent
      <3> QED
        BY <2>7, <3>2 DEF C
    <2>11. SumFunctionOnSet(g, I) = d
      <3>1. \A c \in I : g[c] \in Int
        BY <2>4
      <3>2. SumFunctionOnSet(g, I) = g[cs[1]] + SumFunctionOnSet(g, I \ {cs[1]})
        BY <1>4, <1>5, <3>1, SumRemove
      <3>3. IsFiniteSet(I \ {cs[1]}) /\ \A c \in I \ {cs[1]} : g[c] = 0
        BY <1>5, <1>8, <2>4, FS_RemoveElement
      <3>4. SumFunctionOnSet(g, I \ {cs[1]}) = 0
        BY <3>3, SumZero
      <3> QED
        BY <1>8, <2>9, <3>2, <3>4
    <2>12. /\ SumFunctionOnSet(g, S \cup I) + SumFunctionOnSet(f, S \cap I)
                = SumFunctionOnSet(f, S) + SumFunctionOnSet(g, I)
           /\ SumFunctionOnSet(g, S \cup I) \in Nat
           /\ SumFunctionOnSet(f, S \cap I) \in Nat
           /\ SumFunctionOnSet(f, S) \in Nat
      <3>1. \A c \in I : g[c] \in Nat
        BY <2>4
      <3>2. SumsOver(S, I, f, g)
        BY <1>1, <1>5, <2>3, <3>1, <2>5, SumOverwritten
      <3> QED
        BY <3>2 DEF SumsOver
    <2> DEFINE b1 == SumFunctionOnSet(g, U)
               b2 == SumFunctionOnSet(f, S)
    <2>13. /\ b1 + o = b2 + d /\ b1 \in Nat /\ o \in Nat /\ b2 \in Nat
           /\ Debt = b2 + overwritten.debt
           /\ Debt' = b1 + (overwritten.debt + o + (k - d))
      BY <1>12, <2>1, <2>2, <2>10, <2>11, <2>12 DEF U
    <2> DEFINE w == overwritten.debt
               q == Debt
               r == Debt'
    <2>14. /\ b1 + o = b2 + d /\ b1 \in Nat /\ o \in Nat /\ b2 \in Nat
           /\ w \in Nat /\ k \in Nat /\ d \in Nat
           /\ q = b2 + w /\ r = b1 + (w + o + (k - d))
      BY <1>8, <1>9, <2>13
    <2> HIDE DEF b1, b2, k, w, q, r
    <2>15. r = q + k
      BY <2>14
    <2> QED
      BY <2>14, <2>15 DEF q, r, k
  <1>16. overwritten' \in [value : Nat, debt : Nat]
    <2>1. overwritten.value + v \in Nat
      BY <1>9, <1>14
    <2>2. overwritten.debt + o + (k - d) \in Nat
      <3> HIDE DEF k
      <3>1. k - d \in Nat
        BY <1>8 DEF k
      <3> QED
        BY <1>9, <1>15, <3>1
    <2> QED
      BY <1>12, <2>1, <2>2
  <1> QED
    BY <1>7, <1>10, <1>11, <1>14, <1>15, <1>16

LEMMA TransactQueuedPreserves ==
  ASSUME PoolInv, NEW sp \in Spend, NEW cs \in Outputs, TransactQueued(sp, cs)
  PROVE  PoolInv'
  <1> DEFINE T == NewNullifiers(sp)
  <1>1. /\ TypeOK /\ NotesInv
        /\ ledger.shielded = UnspentWorth + QueueWorth
        /\ ledger.vault = ledger.shielded + ledger.fees
        /\ Cardinality(nullifiers) = counted + Debt
        /\ counted \in Nat /\ Debt \in Nat /\ QueueWorth \in Nat
        /\ UnspentWorth \in Nat /\ IsFiniteSet(nullifiers)
    BY InvFacts
  <1>2. /\ Verified(sp, cs, <<>>)
        /\ nullifiers' = nullifiers \cup T
        /\ queued' = [c \in DOMAIN queued \cup Image(cs) |->
                        IF c \in Image(cs)
                          THEN [tree |-> active, debt |-> NullifierDebt(sp, cs, c)]
                          ELSE queued[c]]
        /\ overwritten' = Overwrite(sp, cs)
        /\ UNCHANGED <<paused, active, trees, counted, ledger>>
    BY DEF TransactQueued
  <1>3. /\ cs \in Seq(Commitment) /\ Len(cs) \in Nat
        /\ ValuesOf(cs) = [i \in DOMAIN cs |-> cs[i].value]
    BY OutputsType
  <1>4. /\ Consumes(sp)
        /\ Total(InputValues(sp)) = Total(ValuesOf(cs)) + Total(<<>>)
    <2>1. /\ Consumes(sp)
          /\ Total(InputValues(sp)) = Total([i \in DOMAIN cs |-> cs[i].value]) + Total(<<>>)
      BY <1>1, <1>2, SpendConsumes
    <2> QED
      BY <1>3, <2>1
  <1>5. /\ T \in SUBSET Records /\ OfLeaves(T) /\ T \cap nullifiers = {}
        /\ Len(sp.ins) \in Nat /\ IsFiniteSet(nullifiers')
        /\ Cardinality(nullifiers') = Cardinality(nullifiers) + Len(sp.ins)
    BY <1>1, <1>2, <1>4, RecordsAdded
  <1>6. Len(cs) > 0
    <2>1. Len(cs) + Len(<<>>) > 0
      BY <1>2 DEF Verified
    <2> QED
      BY <1>3, <2>1
  <1>7. /\ IsFiniteSet(DOMAIN queued')
        /\ DOMAIN queued' \subseteq Commitment
        /\ queued' \in [DOMAIN queued' -> [tree : 0..active, debt : Nat]]
        /\ overwritten' \in [value : Nat, debt : Nat]
        /\ QueueWorth' = QueueWorth + Total(ValuesOf(cs))
        /\ Debt' = Debt + Len(sp.ins)
    BY <1>1, <1>2, <1>3, <1>5, <1>6, QueueGrows
  <1>8. Grows(<<>>) /\ <<>> \in Seq(Commitment)
    BY <1>1, <1>2, StaysGrows
  <1>9. TypeOK'
    <2>1. /\ paused' \in BOOLEAN /\ counted' \in Nat
          /\ ledger' \in [shielded : Nat, fees : Nat, vault : Nat]
      BY <1>1, <1>2 DEF TypeOK
    <2>2. nullifiers' = nullifiers \cup T
      BY <1>2
    <2> HIDE DEF T
    <2> QED
      BY <2>1, <2>2, <1>1, <1>5, <1>7, <1>8, GrowthTyped
  <1>10. NotesInv'
    BY <1>1, <1>2, <1>5, <1>7, <1>8, <1>9, FreshPlaced
  <1>11. UnspentWorth' = UnspentWorth - Total(ValuesOf(cs)) /\ Total(ValuesOf(cs)) \in Nat
    <2>1. UnspentWorth' = (UnspentWorth - SumFunctionOnSet(Values, Taken(T))) + Total(ValuesOf(<<>>))
      <3> HIDE DEF T
      <3> QED
        BY <1>1, <1>2, <1>5, <1>8, <1>9, WorthMoves
    <2>2. ValuesOf(<<>>) = <<>>
      BY DEF ValuesOf
    <2>3. Total(ValuesOf(cs)) \in Nat
      BY <1>3, ValuesTotal
    <2>4. SumFunctionOnSet(Values, Taken(T)) = Total(ValuesOf(cs))
      BY <1>1, <1>4, <2>3, TakenWorth, TotalEmpty
    <2> QED
      BY <1>1, <2>1, <2>2, <2>3, <2>4, TotalEmpty
  <1>12. ledger' = ledger /\ counted' = counted
    BY <1>2
  <1>13. ledger'.shielded = UnspentWorth' + QueueWorth'
    <2> DEFINE v == Total(ValuesOf(cs))
    <2>1. /\ v \in Nat /\ UnspentWorth' = UnspentWorth - v /\ QueueWorth' = QueueWorth + v
          /\ ledger'.shielded = UnspentWorth + QueueWorth
          /\ UnspentWorth \in Nat /\ QueueWorth \in Nat
      BY <1>1, <1>7, <1>11, <1>12
    <2> HIDE DEF v
    <2> QED
      BY <2>1
  <1>14. Cardinality(nullifiers') = counted' + Debt'
    <2> DEFINE k == Len(sp.ins)
    <2>1. /\ Cardinality(nullifiers') = Cardinality(nullifiers) + k /\ Debt' = Debt + k
          /\ Cardinality(nullifiers) = counted + Debt /\ counted' = counted
          /\ k \in Nat /\ counted \in Nat /\ Debt \in Nat
      BY <1>1, <1>5, <1>7, <1>12
    <2> HIDE DEF k
    <2> QED
      BY <2>1
  <1> QED
    BY <1>1, <1>10, <1>12, <1>13, <1>14, InvFolds

\* What leaves a sum when the listed elements leave its domain.
SumLeft(S, f, b, n) ==
  /\ SumFunctionOnSet(f, S \ FirstOf(b, n))
       = SumFunctionOnSet(f, S) - SumFunctionOnSet(Listed(f, b, n), 1..n)
  /\ SumFunctionOnSet(Listed(f, b, n), 1..n) \in Nat
  /\ SumFunctionOnSet(f, S) \in Nat

LEMMA SumListed ==
  ASSUME NEW S, IsFiniteSet(S), NEW f, \A x \in S : f[x] \in Nat,
         NEW n \in Nat, NEW b, Distinct(b, n), FirstOf(b, n) \in SUBSET S
  PROVE  SumLeft(S, f, b, n)
  <1> DEFINE I == FirstOf(b, n)
  <1>1. I = {b[i] : i \in 1..n}
    BY DEF FirstOf
  <1>2. \A i \in 1..n : f[b[i]] \in Nat
    BY <1>1
  <1>3. \A i, j \in 1..n : b[i] = b[j] => i = j
    BY DEF Distinct
  <1>4. IsFiniteSet(1..n)
    BY FS_Interval
  <1>5. \A i \in 1..n : f[b[i]] \in Int
    BY <1>2
  <1>6. SumFunctionOnSet([i \in 1..n |-> f[b[i]]], 1..n) = SumFunctionOnSet(f, {b[i] : i \in 1..n})
    BY <1>3, <1>4, <1>5, SumReindexed
  <1>7. \A x \in S : f[x] \in Int
    OBVIOUS
  <1>8. I \in SUBSET S
    OBVIOUS
  <1> HIDE DEF I
  <1>9. SumFunctionOnSet(f, S \ I) = SumFunctionOnSet(f, S) - SumFunctionOnSet(f, I)
    BY <1>7, <1>8, SumDifference
  <1>10. SumFunctionOnSet(f, S) \in Nat
    BY SumType
  <1> DEFINE g == [i \in 1..n |-> f[b[i]]]
  <1>11. \A i \in 1..n : g[i] \in Nat
    BY <1>2
  <1>12. SumFunctionOnSet(g, 1..n) \in Nat
    <2> HIDE DEF g
    <2> QED
      BY <1>4, <1>11, SumType
  <1> QED
    BY <1>1, <1>6, <1>9, <1>10, <1>12 DEF I, Listed, SumLeft

LEMMA BatchType ==
  ASSUME NotesInv, NEW batch \in SeqOf(DOMAIN queued, 1..MaxMergeLeaves), ListedOnce(batch)
  PROVE  /\ batch \in Seq(Commitment)
         /\ Len(batch) \in Nat /\ DOMAIN batch = 1..Len(batch)
         /\ \A i \in 1..Len(batch) : batch[i] \in DOMAIN queued
         /\ Distinct(batch, Len(batch))
         /\ Image(batch) = FirstOf(batch, Len(batch))
         /\ Image(batch) \subseteq DOMAIN queued
         /\ Cardinality(FirstOf(batch, Len(batch))) = Len(batch)
  <1> DEFINE n == Len(batch)
  <1>1. MaxMergeLeaves \in Nat
    BY PoolAssumption DEF PoolAssumption
  <1>2. 1..MaxMergeLeaves \in SUBSET Nat
    BY <1>1
  <1>3. /\ batch \in Seq(DOMAIN queued) /\ n \in Nat /\ DOMAIN batch = 1..n
        /\ \A i \in DOMAIN batch : batch[i] \in DOMAIN queued
    BY <1>2, SeqOfType
  <1>4. DOMAIN queued \subseteq Commitment
    BY DEF NotesInv, TypeOK
  <1>5. batch \in [1..n -> DOMAIN queued]
    BY <1>3, LenProperties
  <1>6. batch \in [1..n -> Commitment]
    BY <1>4, <1>5
  <1>7. batch \in Seq(Commitment)
    BY <1>3, <1>6, SeqDef
  <1>8. Image(batch) = {batch[i] : i \in 1..n} /\ Cardinality(Image(batch)) = n
    BY <1>3 DEF Image, ListedOnce
  <1>9. \A i, j \in 1..n : batch[i] = batch[j] => i = j
    BY <1>3, <1>8, ImageOnce
  <1> QED
    BY <1>3, <1>7, <1>8, <1>9 DEF Distinct, FirstOf

LEMMA MergePreserves ==
  ASSUME PoolInv, NEW batch \in SeqOf(DOMAIN queued, 1..MaxMergeLeaves), MergeQueuedLeaves(batch)
  PROVE  PoolInv'
  <1> DEFINE n == Len(batch)
             S == DOMAIN queued
             I == FirstOf(batch, n)
             debts == [i \in 1..n |-> queued[batch[i]].debt]
  <1>1. /\ TypeOK /\ NotesInv
        /\ ledger.shielded = UnspentWorth + QueueWorth
        /\ ledger.vault = ledger.shielded + ledger.fees
        /\ Cardinality(nullifiers) = counted + Debt
        /\ counted \in Nat /\ Debt \in Nat /\ QueueWorth \in Nat
        /\ UnspentWorth \in Nat /\ IsFiniteSet(nullifiers) /\ IsFiniteSet(DOMAIN queued)
    BY InvFacts DEF NotesInv
  <1>2. /\ ListedOnce(batch) /\ HasRoom(trees[active], n)
        /\ trees' = Placed(batch)
        /\ counted' = counted + Total([i \in DOMAIN batch |-> queued[batch[i]].debt])
        /\ queued' = [c \in S \ Image(batch) |-> queued[c]]
        /\ UNCHANGED <<paused, active, nullifiers, ledger, overwritten>>
    BY DEF MergeQueuedLeaves
  <1>3. /\ batch \in Seq(Commitment) /\ n \in Nat /\ DOMAIN batch = 1..n
        /\ \A i \in 1..n : batch[i] \in S
        /\ Distinct(batch, n) /\ Image(batch) = I /\ I \subseteq S /\ Cardinality(I) = n
    BY <1>1, <1>2, BatchType
  <1>4. /\ IsFiniteSet(S)
        /\ \A c \in S : c \in Commitment /\ c.value \in Nat /\ queued[c].debt \in Nat
    BY <1>1, QueueFacts DEF NotesInv
  <1>5. DOMAIN queued' = S \ I /\ \A c \in S \ I : queued'[c] = queued[c]
    BY <1>2, <1>3
  <1>6. counted' = counted + SumFunctionOnSet(debts, 1..n)
    BY <1>2, <1>3 DEF Total, SumFunction
  <1>7. IsFiniteSet(S \ I) /\ Cardinality(S \ I) = Cardinality(S) - n /\ Cardinality(S) \in Nat
    <2>1. IsFiniteSet(I) /\ IsFiniteSet(S \ I) /\ S = (S \ I) \cup I
      BY <1>3, <1>4, FS_Subset
    <2>2. (S \ I) \cap I = {}
      OBVIOUS
    <2> HIDE DEF S, I
    <2>3. Cardinality((S \ I) \cup I) = Cardinality(S \ I) + Cardinality(I) - Cardinality((S \ I) \cap I)
      BY <2>1, FS_Union
    <2>4. Cardinality((S \ I) \cap I) = 0 /\ Cardinality(S \ I) \in Nat /\ Cardinality(S) \in Nat
      BY <2>1, <2>2, <1>4, FS_EmptySet, FS_CardinalityType
    <2>5. Cardinality(S) = Cardinality((S \ I) \cup I) /\ Cardinality(I) = n /\ n \in Nat
      BY <1>3, <2>1
    <2> HIDE DEF n
    <2> QED
      BY <2>1, <2>3, <2>4, <2>5
  <1>8. Grows(batch)
    BY <1>1, <1>2, <1>3, PlacedGrows
  <1>9. QueueWorth' = QueueWorth - Total(ValuesOf(batch)) /\ Total(ValuesOf(batch)) \in Nat
    <2> DEFINE f == [c \in S |-> c.value]
               g == [c \in S \ I |-> c.value]
    <2>1. /\ QueueWorth = SumFunctionOnSet(f, S) + overwritten.value
          /\ QueueWorth' = SumFunctionOnSet(g, S \ I) + overwritten.value
          /\ overwritten.value \in Nat
      BY <1>1, <1>2, <1>5 DEF QueueWorth, SumFunction, TypeOK
    <2>2. /\ \A c \in S : f[c] \in Nat
          /\ \A c \in S \ I : g[c] = f[c]
      BY <1>4
    <2>3. Listed(f, batch, n) = ValuesOf(batch) /\ DOMAIN ValuesOf(batch) = 1..n
      BY <1>3 DEF ValuesOf, Listed
    <2> HIDE DEF f, g, S
    <2>4. SumFunctionOnSet(g, S \ I) = SumFunctionOnSet(f, S \ I)
      BY <1>7, <2>2, SumCongruent
    <2>5. /\ SumFunctionOnSet(f, S \ I)
               = SumFunctionOnSet(f, S) - SumFunctionOnSet(Listed(f, batch, n), 1..n)
          /\ SumFunctionOnSet(Listed(f, batch, n), 1..n) \in Nat
          /\ SumFunctionOnSet(f, S) \in Nat
      <3>1. IsFiniteSet(S) /\ n \in Nat /\ Distinct(batch, n) /\ FirstOf(batch, n) \in SUBSET S
        BY <1>3, <1>4
      <3> HIDE DEF n
      <3>2. SumLeft(S, f, batch, n)
        BY <3>1, <2>2, SumListed
      <3> QED
        BY <3>2 DEF SumLeft
    <2> QED
      BY <2>1, <2>3, <2>4, <2>5 DEF Total, SumFunction
  <1>10. Debt' = Debt - SumFunctionOnSet(debts, 1..n) /\ SumFunctionOnSet(debts, 1..n) \in Nat
    <2> DEFINE f == [c \in S |-> queued[c].debt]
               g == [c \in S \ I |-> queued'[c].debt]
    <2>1. /\ Debt = SumFunctionOnSet(f, S) + overwritten.debt
          /\ Debt' = SumFunctionOnSet(g, S \ I) + overwritten.debt
          /\ overwritten.debt \in Nat
      BY <1>1, <1>2, <1>5 DEF Debt, SumFunction, TypeOK
    <2>2. /\ \A c \in S : f[c] \in Nat
          /\ \A c \in S \ I : g[c] = f[c]
      BY <1>4, <1>5
    <2>3. Listed(f, batch, n) = debts
      BY <1>3 DEF Listed
    <2> HIDE DEF f, g, S
    <2>4. SumFunctionOnSet(g, S \ I) = SumFunctionOnSet(f, S \ I)
      BY <1>7, <2>2, SumCongruent
    <2>5. /\ SumFunctionOnSet(f, S \ I)
               = SumFunctionOnSet(f, S) - SumFunctionOnSet(Listed(f, batch, n), 1..n)
          /\ SumFunctionOnSet(Listed(f, batch, n), 1..n) \in Nat
          /\ SumFunctionOnSet(f, S) \in Nat
      <3>1. IsFiniteSet(S) /\ n \in Nat /\ Distinct(batch, n) /\ FirstOf(batch, n) \in SUBSET S
        BY <1>3, <1>4
      <3> HIDE DEF n
      <3>2. SumLeft(S, f, batch, n)
        BY <3>1, <2>2, SumListed
      <3> QED
        BY <3>2 DEF SumLeft
    <2> QED
      BY <2>1, <2>3, <2>4, <2>5
  <1> HIDE DEF debts
  <1>11. TypeOK'
    <2>1. /\ paused' \in BOOLEAN /\ nullifiers' = nullifiers \cup {}
          /\ ledger' \in [shielded : Nat, fees : Nat, vault : Nat]
          /\ overwritten' \in [value : Nat, debt : Nat]
      BY <1>1, <1>2 DEF TypeOK
    <2>2. counted' \in Nat
      BY <1>1, <1>6, <1>10
    <2>3. /\ DOMAIN queued' \subseteq Commitment
          /\ queued' \in [DOMAIN queued' -> [tree : 0..active, debt : Nat]]
      BY <1>1, <1>2 DEF TypeOK
    <2> QED
      BY <2>1, <2>2, <2>3, <1>1, <1>3, <1>8, EmptyTaken, GrowthTyped
  <1>16. NotesInv'
    <2>1. IsFiniteSet(DOMAIN queued') /\ IsFiniteSet(nullifiers')
      BY <1>1, <1>2, <1>5, <1>7
    <2> QED
      BY <1>1, <1>2, <1>3, <1>8, <1>11, <2>1, FreshPlaced
  <1>17. UnspentWorth' = UnspentWorth + Total(ValuesOf(batch))
    <2>1. UnspentWorth' = (UnspentWorth - SumFunctionOnSet(Values, Taken({}))) + Total(ValuesOf(batch))
      <3>1. nullifiers' = nullifiers \cup {}
        BY <1>2
      <3> QED
        BY <1>1, <3>1, <1>3, <1>8, <1>11, EmptyTaken, WorthMoves
    <2>2. SumFunctionOnSet(Values, Taken({})) = 0
      BY EmptyTaken
    <2> QED
      BY <1>1, <1>9, <2>1, <2>2
  <1>18. ledger' = ledger /\ nullifiers' = nullifiers
    BY <1>2
  <1>19. ledger'.shielded = UnspentWorth' + QueueWorth'
    <2> DEFINE v == Total(ValuesOf(batch))
    <2>1. /\ v \in Nat /\ UnspentWorth' = UnspentWorth + v /\ QueueWorth' = QueueWorth - v
          /\ ledger'.shielded = UnspentWorth + QueueWorth
          /\ UnspentWorth \in Nat /\ QueueWorth \in Nat
      BY <1>1, <1>9, <1>17, <1>18
    <2> HIDE DEF v
    <2> QED
      BY <2>1
  <1>20. Cardinality(nullifiers') = counted' + Debt'
    BY <1>1, <1>6, <1>10, <1>18
  <1> QED
    BY <1>1, <1>16, <1>18, <1>19, <1>20, InvFolds

LEMMA EmptyTreeType ==
  EmptyTree \in TreeType /\ EmptyTree.leaves = <<>> /\ Len(EmptyTree.leaves) = 0
    /\ \A i \in 0..(RootHistorySize - 1) : EmptyTree.history[i] = NoRoot
  <1>1. <<>> \in Seq(Commitment) /\ Len(<<>>) = 0
    OBVIOUS
  <1>2. [i \in 0..(RootHistorySize - 1) |-> NoRoot] \in [0..(RootHistorySize - 1) -> Nat \cup {NoRoot}]
    OBVIOUS
  <1> QED
    BY <1>1, <1>2 DEF EmptyTree, TreeType

LEMMA RotatePreserves ==
  ASSUME PoolInv, RotateTree
  PROVE  PoolInv'
  <1> DEFINE a == active + 1
  <1>1. /\ TypeOK /\ NotesInv
        /\ ledger.shielded = UnspentWorth + QueueWorth
        /\ ledger.vault = ledger.shielded + ledger.fees
        /\ Cardinality(nullifiers) = counted + Debt
    BY InvFacts DEF NotesInv
  <1>2. /\ active' = a /\ active < MaxTree
        /\ trees' = [t \in 0..a |-> IF t = a THEN EmptyTree ELSE trees[t]]
        /\ UNCHANGED <<paused, nullifiers, counted, queued, ledger, overwritten>>
    BY DEF RotateTree
  <1>3. active \in Nat /\ DOMAIN trees = 0..active /\ trees \in [0..active -> TreeType] /\ MaxTree \in Nat
    BY <1>1, TreeFacts, PoolAssumption DEF TypeOK, TreeType, PoolAssumption
  <1>4. a \in Nat /\ a \notin 0..active /\ 0..a = (0..active) \cup {a} /\ a \in 0..MaxTree
    BY <1>2, <1>3
  <1> HIDE DEF a
  <1>5. /\ DOMAIN trees' = 0..a /\ trees'[a] = EmptyTree
        /\ \A t \in 0..active : trees'[t] = trees[t]
    BY <1>2, <1>4
  <1>6. /\ DOMAIN trees'[a].leaves = {} /\ Len(trees'[a].leaves) = 0
        /\ trees'[a] \in TreeType
    BY <1>5, EmptyTreeType
  <1>7. TypeOK'
    <2>1. trees' \in [0..a -> TreeType]
      BY <1>2, <1>3, <1>4, <1>5, <1>6
    <2>2. \A t \in 0..a : Len(trees'[t].leaves) <= MaxLeaves
      <3>1. MaxLeaves \in Nat
        BY PoolAssumption DEF PoolAssumption
      <3>2. \A t \in 0..active : Len(trees[t].leaves) <= MaxLeaves
        BY <1>1 DEF TypeOK
      <3> QED
        BY <1>4, <1>5, <1>6, <3>1, <3>2
    <2>3. nullifiers' \subseteq [tree : 0..a, key : Owner, position : 1..MaxLeaves]
      BY <1>1, <1>2, <1>4 DEF TypeOK
    <2>4. \A n \in nullifiers' : n.position \in DOMAIN trees'[n.tree].leaves
                                 /\ trees'[n.tree].leaves[n.position].owner = n.key
      <3>1. \A n \in nullifiers : n.tree \in 0..active
        BY <1>1 DEF TypeOK
      <3> QED
        BY <1>1, <1>2, <1>5, <3>1 DEF TypeOK
    <2>5. /\ DOMAIN queued' \subseteq Commitment
          /\ queued' \in [DOMAIN queued' -> [tree : 0..a, debt : Nat]]
      BY <1>1, <1>2, <1>4 DEF TypeOK
    <2>6. /\ paused' \in BOOLEAN /\ counted' \in Nat
          /\ ledger' \in [shielded : Nat, fees : Nat, vault : Nat]
          /\ overwritten' \in [value : Nat, debt : Nat]
      BY <1>1, <1>2 DEF TypeOK
    <2> QED
      BY <1>2, <1>4, <2>1, <2>2, <2>3, <2>4, <2>5, <2>6 DEF TypeOK, TreeType
  <1>9. RootsArePrefixes'
    <2>1. \A t \in 0..active : \A i \in 0..(RootHistorySize - 1) :
            trees'[t].history[i] = NoRoot \/ trees'[t].history[i] <= Len(trees'[t].leaves)
      BY <1>1, <1>5 DEF NotesInv, RootsArePrefixes
    <2>2. \A i \in 0..(RootHistorySize - 1) : trees'[a].history[i] = NoRoot
      BY <1>5, EmptyTreeType
    <2> QED
      BY <1>2, <1>4, <2>1, <2>2 DEF RootsArePrefixes
  <1>10. FrozenFull'
    <2>1. \A t \in 0..active : t # active => Len(trees[t].leaves) = MaxLeaves
      BY <1>1 DEF NotesInv, FrozenFull
    <2>2. Len(trees[active].leaves) = MaxLeaves
      <3>1. active \in 0..active /\ MaxLeaves \in Nat /\ Len(trees[active].leaves) >= MaxLeaves
        BY <1>3, PoolAssumption DEF PoolAssumption, RotateTree
      <3>2. Len(trees[active].leaves) \in 0..MaxLeaves
        BY <1>1, <3>1, TreeFacts
      <3> QED
        BY <3>1, <3>2
    <2>3. \A t \in 0..active : Len(trees'[t].leaves) = MaxLeaves
      BY <1>5, <2>1, <2>2
    <2> QED
      BY <1>2, <1>4, <2>3 DEF FrozenFull
  <1>11. NotesInv'
    BY <1>1, <1>2, <1>7, <1>9, <1>10 DEF NotesInv
  <1>12. Position' = Position /\ \A p \in Position : LeafAt(p)' = LeafAt(p)
    <2>1. \A t, i : <<t, i>> \in Position <=> t \in 0..active /\ i \in DOMAIN trees[t].leaves
      BY <1>1, PositionFacts
    <2>2. (\A t, i : <<t, i>> \in Position <=> t \in 0..active /\ i \in DOMAIN trees[t].leaves)'
      BY <1>7, PositionFacts, PTL
    <2>3. \A t, i : <<t, i>> \in Position' <=> t \in 0..a /\ i \in DOMAIN trees'[t].leaves
      BY <1>2, <2>2
    <2>4. \A t, i : <<t, i>> \in Position' <=> <<t, i>> \in Position
      BY <1>4, <1>5, <1>6, <2>1, <2>3
    <2>5. /\ \A p \in Position : p = <<p[1], p[2]>> /\ p[1] \in 0..active
          /\ \A p \in Position' : p = <<p[1], p[2]>>
      BY <1>1, PositionFacts DEF Position
    <2>6. Position' = Position
      BY <2>4, <2>5
    <2> QED
      BY <1>5, <2>5, <2>6 DEF LeafAt
  <1>13. \A p \in Position : Spent(p)' <=> Spent(p)
    BY <1>2, <1>12 DEF Spent
  <1>14. Unspent' = Unspent /\ Unspent \subseteq Position
    BY <1>12, <1>13 DEF Unspent
  <1>15. UnspentWorth' = UnspentWorth
    <2>1. [p \in Unspent' |-> LeafAt(p)'.value] = [p \in Unspent |-> LeafAt(p).value]
      BY <1>12, <1>14
    <2> QED
      BY <2>1 DEF UnspentWorth
  <1>16. QueueWorth' = QueueWorth /\ Debt' = Debt
    BY <1>2 DEF QueueWorth, Debt
  <1>17. ledger' = ledger /\ nullifiers' = nullifiers /\ counted' = counted
    BY <1>2
  <1> QED
    BY <1>1, <1>11, <1>15, <1>16, <1>17, InvFolds

LEMMA StaysPreserves ==
  ASSUME PoolInv, paused' \in BOOLEAN, UNCHANGED <<active, trees, nullifiers, counted, queued, ledger, overwritten>>
  PROVE  PoolInv'
  <1>1. TypeOK'
    BY DEF PoolInv, NotesInv, TypeOK
  <1>2. NotesInv'
    <2>1. RootsArePrefixes' /\ FrozenFull'
      BY DEF PoolInv, NotesInv, RootsArePrefixes, FrozenFull
    <2> QED
      BY <1>1, <2>1 DEF PoolInv, NotesInv
  <1>3. NullifiersAccounted'
    BY DEF PoolInv, NullifiersAccounted
  <1>4. Position' = Position
    BY DEF Position
  <1>5. \A p : LeafAt(p)' = LeafAt(p) /\ (Spent(p)' <=> Spent(p))
    BY DEF LeafAt, Spent
  <1>6. Unspent' = Unspent
    BY <1>4, <1>5 DEF Unspent
  <1>7. [p \in Unspent' |-> LeafAt(p)'.value] = [p \in Unspent |-> LeafAt(p).value]
    BY <1>5, <1>6
  <1>8. NotesBacked'
    BY <1>7 DEF PoolInv, NotesBacked
  <1> QED
    BY <1>2, <1>3, <1>8 DEF PoolInv

LEMMA InitHolds == Init => PoolInv
  <1> SUFFICES ASSUME Init PROVE PoolInv
    OBVIOUS
  <1>1. /\ active = 0 /\ 0..active = {0} /\ DOMAIN trees = {0} /\ trees[0] = EmptyTree
        /\ trees = [t \in {0} |-> EmptyTree]
        /\ nullifiers = {} /\ counted = 0 /\ DOMAIN queued = {} /\ queued = [c \in {} |-> {}]
        /\ paused = FALSE /\ ledger = [shielded |-> 0, fees |-> 0, vault |-> 0]
        /\ overwritten = [value |-> 0, debt |-> 0]
    BY DEF Init
  <1>2. /\ EmptyTree \in TreeType /\ DOMAIN EmptyTree.leaves = {} /\ Len(EmptyTree.leaves) = 0
        /\ \A i \in 0..(RootHistorySize - 1) : EmptyTree.history[i] = NoRoot
    BY EmptyTreeType
  <1>3. TypeOK
    <2>1. MaxTree \in Nat /\ MaxLeaves \in Nat
      BY PoolAssumption DEF PoolAssumption
    <2>2. trees \in [0..active -> TreeType] /\ \A t \in 0..active : Len(trees[t].leaves) <= MaxLeaves
      BY <1>1, <1>2, <2>1
    <2>3. active \in 0..MaxTree
      BY <1>1, <2>1
    <2> QED
      BY <1>1, <2>2, <2>3 DEF TypeOK, TreeType
  <1>4. IsFiniteSet(nullifiers) /\ IsFiniteSet(DOMAIN queued)
    BY <1>1, FS_EmptySet
  <1>5. RootsArePrefixes /\ FrozenFull
    BY <1>1, <1>2 DEF RootsArePrefixes, FrozenFull
  <1>6. Position = {} /\ Unspent = {}
    <2>1. \A p \in Position : FALSE
      BY <1>1, <1>2 DEF Position
    <2> QED
      BY <2>1 DEF Unspent
  <1>7. \A f : DOMAIN f = {} => SumFunction(f) = 0
    BY SumEmpty DEF SumFunction
  <1>8. /\ SumFunction([p \in Unspent |-> LeafAt(p).value]) = 0
        /\ SumFunction([c \in DOMAIN queued |-> c.value]) = 0
        /\ SumFunction([c \in DOMAIN queued |-> queued[c].debt]) = 0
    BY <1>1, <1>6, <1>7
  <1>9. NotesBacked /\ NullifiersAccounted
    <2>1. Cardinality(nullifiers) = 0
      BY <1>1, FS_EmptySet
    <2> QED
      BY <1>1, <1>8, <2>1 DEF NotesBacked, NullifiersAccounted
  <1> QED
    BY <1>3, <1>4, <1>5, <1>9 DEF PoolInv, NotesInv

LEMMA NextPreserves == PoolInv /\ [Next]_vars => PoolInv'
  <1> SUFFICES ASSUME PoolInv, [Next]_vars PROVE PoolInv'
    OBVIOUS
  <1>1. ASSUME NEW npk \in NoteKey, NEW x \in Transfers, Shield(npk, x) PROVE PoolInv'
    BY <1>1, ShieldPreserves
  <1>2. ASSUME NEW sp \in Spend, NEW outs \in Outputs, Transact(sp, outs) PROVE PoolInv'
    BY <1>2, TransactPreserves
  <1>3. ASSUME NEW sp \in Spend, NEW outs \in Outputs, TransactQueued(sp, outs) PROVE PoolInv'
    BY <1>3, TransactQueuedPreserves
  <1>4. ASSUME NEW sp \in Spend, NEW outs \in Outputs, NEW amounts \in Amounts,
               Unshield(sp, outs, amounts)
        PROVE  PoolInv'
    BY <1>4, UnshieldPreserves
  <1>5. ASSUME NEW batch \in SeqOf(DOMAIN queued, 1..MaxMergeLeaves), MergeQueuedLeaves(batch)
        PROVE  PoolInv'
    BY <1>5, MergePreserves
  <1>6. CASE RotateTree
    BY <1>6, RotatePreserves
  <1>7. ASSUME NEW value \in PauseValues, SetPaused(value) PROVE PoolInv'
    <2>1. paused' \in BOOLEAN
      BY <1>7, PoolAssumption DEF PoolAssumption, SetPaused
    <2> QED
      BY <1>7, <2>1, StaysPreserves DEF SetPaused
  <1>8. CASE UNCHANGED vars
    <2>1. paused' \in BOOLEAN
      BY <1>8 DEF vars, PoolInv, NotesInv, TypeOK
    <2> QED
      BY <1>8, <2>1, StaysPreserves DEF vars
  <1> QED
    BY <1>1, <1>2, <1>3, <1>4, <1>5, <1>6, <1>7, <1>8 DEF Next

LEMMA PoolInvHolds == Spec => []PoolInv
  BY InitHolds, NextPreserves, PTL DEF Spec

-----------------------------------------------------------------------------
(* What the invariant gives *)

\* The types of the accounts, room in every tree, and a leaf of its owner for every record.
THEOREM PoolWellTyped == Spec => []TypeOK
  <1>1. PoolInv => TypeOK
    BY DEF PoolInv, NotesInv
  <1> QED
    BY <1>1, PoolInvHolds, PTL

\* Value is conserved through deposits, spends against any accepted root, queues, merges
\* and rotations (shield, transact, unshield, merge_queued_leaves, rotate_tree), whatever
\* commitments the senders choose: only an output queued over an equal one is lost.
THEOREM ValueConserved == Spec => []NotesBacked
  <1>1. PoolInv => NotesBacked
    BY DEF PoolInv
  <1> QED
    BY <1>1, PoolInvHolds, PTL

\* nullifier_count and the debts of the queued leaves are the records there are, short by
\* exactly the debts of the queued leaves that were written over (transact, with
\* create_pda_account accepting an account that exists).  Commitments are the senders'
\* choice: none is assumed fresh.
THEOREM NullifiersCounted == Spec => []NullifiersAccounted
  <1>1. PoolInv => NullifiersAccounted
    BY DEF PoolInv
  <1> QED
    BY <1>1, PoolInvHolds, PTL

LEMMA SpendableHolds == NotesInv => NotesSpendable
  <1> SUFFICES ASSUME NotesInv, NEW p \in Unspent
               PROVE  /\ NullifierSeeds(p[1], LeafAt(p).owner, p[2]) \notin nullifiers
                      /\ ~Copied(p[1]) => \E n \in ValidSizes(p[1]) :
                           n >= p[2] /\ (p[1] = active \/ ~IsValidRoot(active, RootAt(p[1], n)))
    BY DEF NotesSpendable
  <1> DEFINE t == p[1]
             n == Len(trees[t].leaves)
  <1>1. TypeOK /\ p \in Position /\ ~Spent(p)
    BY DEF Unspent, NotesInv
  <1>2. NullifierSeeds(p[1], LeafAt(p).owner, p[2]) \notin nullifiers
    BY <1>1 DEF Spent, NullifierSeeds
  <1>3. t \in 0..active /\ p[2] \in DOMAIN trees[t].leaves /\ active \in 0..active
    BY <1>1, PositionFacts, TreeFacts
  <1>4. /\ trees[t].leaves \in Seq(Commitment) /\ n \in Nat /\ DOMAIN trees[t].leaves = 1..n
        /\ \A i \in 1..n : trees[t].leaves[i] \in Commitment
    BY <1>1, <1>3, TreeFacts
  <1>5. n \in ValidSizes(t) /\ n >= p[2] /\ n >= 1
    BY <1>3, <1>4 DEF ValidSizes
  <1>6. ASSUME t # active, ~Copied(t), IsValidRoot(active, RootAt(t, n)) PROVE FALSE
    <2>1. PICK m \in ValidSizes(active) : RootAt(t, n) = RootAt(active, m)
      BY <1>6 DEF IsValidRoot
    <2> DEFINE M == Len(trees[active].leaves)
    <2>2. /\ M \in Nat /\ DOMAIN trees[active].leaves = 1..M
          /\ \A i \in 1..M : trees[active].leaves[i] \in Commitment
          /\ trees[active] \in TreeType
      BY <1>1, <1>3, TreeFacts
    <2>3. m \in 0..M
      BY <1>3, <2>2, SizesArePrefixes
    <2>4. RootAt(t, n) = trees[t].leaves /\ Len(RootAt(t, n)) = n
      <3>1. Len(RootAt(t, n)) = n /\ RootAt(t, n) \in Seq(Commitment)
              /\ \A i \in 1..n : RootAt(t, n)[i] = trees[t].leaves[i]
        BY <1>4, <1>5, SubSeqProperties DEF RootAt
      <3> QED
        BY <1>4, <3>1, SeqEqual
    <2>5. Len(RootAt(active, m)) = m
      <3>1. \A i \in 1..m : trees[active].leaves[i] \in Commitment
        BY <2>2, <2>3
      <3> QED
        BY <2>2, <2>3, <3>1, SubSeqProperties DEF RootAt
    <2>6. m = n /\ n = MaxLeaves /\ M = MaxLeaves
      <3>1. n = MaxLeaves /\ M <= MaxLeaves /\ MaxLeaves \in Nat
        BY <1>1, <1>3, <1>6, PoolAssumption DEF NotesInv, FrozenFull, TypeOK, PoolAssumption
      <3>2. m = n
        BY <2>1, <2>4, <2>5
      <3> HIDE DEF n, M
      <3> QED
        BY <2>2, <2>3, <3>1, <3>2
    <2>7. RootAt(active, m) = trees[active].leaves
      <3>1. /\ Len(RootAt(active, M)) = M /\ RootAt(active, M) \in Seq(Commitment)
            /\ \A i \in 1..M : RootAt(active, M)[i] = trees[active].leaves[i]
            /\ trees[active].leaves \in Seq(Commitment)
        BY <1>1, <1>3, <2>2, TreeFacts, SubSeqProperties DEF RootAt
      <3>2. RootAt(active, M) = trees[active].leaves
        BY <3>1, SeqEqual
      <3> QED
        BY <2>6, <3>2
    <2> QED
      BY <1>6, <2>1, <2>4, <2>7 DEF Copied
  <1> QED
    BY <1>2, <1>5, <1>6

\* Every unspent note can be spent: no record stands in its way, and a root over it is
\* accepted in its own tree, frozen or active (is_valid_root, create_nullifier_records),
\* but while the active tree copies a frozen one leaf for leaf.
THEOREM NotesNeverStranded == Spec => []NotesSpendable
  <1>1. PoolInv => NotesSpendable
    BY SpendableHolds DEF PoolInv
  <1> QED
    BY <1>1, PoolInvHolds, PTL

-----------------------------------------------------------------------------
(* The ring of old roots *)

\* The slots of a history h whose next write is to s and whose tree has L leaves: written
\* in turn, each with a larger root than the one before, the oldest at s once all are.
Slots == 0..(RootHistorySize - 1)

RingOrdered(h, s, L) ==
  /\ \A i \in Slots : h[i] # NoRoot => h[i] \in Nat /\ h[i] < L
  /\ (\A i \in Slots : h[i] # NoRoot) \/ (\A i \in Slots : h[i] # NoRoot <=> i < s)
  /\ \A i, j \in Slots :
       h[i] # NoRoot /\ h[j] # NoRoot /\ i < j /\ (j < s \/ s <= i) => h[i] < h[j]
  /\ \A i, j \in Slots : h[i] # NoRoot /\ h[j] # NoRoot /\ s <= i /\ j < s => h[i] < h[j]

Turn(tree) == tree.next % RootHistorySize
TreeOrdered(tree) == RingOrdered(tree.history, Turn(tree), Len(tree.leaves))
RingInv == \A t \in 0..active : TreeOrdered(trees[t])

LEMMA RingStep ==
  ASSUME NEW h \in [Slots -> Nat \cup {NoRoot}], NEW s \in Slots, NEW L \in Nat, NEW M \in Nat,
         L < M, RingOrdered(h, s, L)
  PROVE  RingOrdered([h EXCEPT ![s] = L], IF s = RootHistorySize - 1 THEN 0 ELSE s + 1, M)
  <1> DEFINE g == [h EXCEPT ![s] = L]
             z == IF s = RootHistorySize - 1 THEN 0 ELSE s + 1
  <1>1. RootHistorySize \in Nat /\ RootHistorySize > 0 /\ NoRoot \notin Nat
    BY PoolAssumption DEF PoolAssumption
  <1>2. g[s] = L /\ g[s] # NoRoot /\ \A i \in Slots : i # s => g[i] = h[i]
    BY <1>1
  <1>3. s \in Nat /\ s <= RootHistorySize - 1 /\ \A i \in Slots : i \in Nat /\ i <= RootHistorySize - 1
    BY <1>1 DEF Slots
  <1>4. z \in Nat /\ (z = 0 \/ z = s + 1) /\ (z = 0 <=> s = RootHistorySize - 1)
    BY <1>1, <1>3
  <1> HIDE DEF g, z
  <1>5. \A i \in Slots : h[i] # NoRoot => h[i] \in Nat /\ h[i] < L
    BY DEF RingOrdered
  <1>6. \A i \in Slots : g[i] # NoRoot => g[i] \in Nat /\ g[i] < M
    BY <1>2, <1>5
  <1>7. (\A i \in Slots : g[i] # NoRoot) \/ (\A i \in Slots : g[i] # NoRoot <=> i < z)
    <2>1. CASE \A i \in Slots : h[i] # NoRoot
      BY <1>2, <2>1
    <2>2. CASE \A i \in Slots : h[i] # NoRoot <=> i < s
      <3>1. CASE s = RootHistorySize - 1
        BY <1>2, <1>3, <2>2, <3>1
      <3>2. CASE s # RootHistorySize - 1
        BY <1>2, <1>3, <1>4, <2>2, <3>2
      <3> QED
        BY <3>1, <3>2
    <2> QED
      BY <2>1, <2>2 DEF RingOrdered
  <1>8. ASSUME NEW i \in Slots, NEW j \in Slots, g[i] # NoRoot, g[j] # NoRoot, i < j, j < z \/ z <= i
        PROVE  g[i] < g[j]
    <2>1. i # s
      BY <1>3, <1>4, <1>8
    <2>2. CASE j = s
      BY <1>2, <1>5, <1>8, <2>1, <2>2
    <2>3. CASE j # s
      <3>1. h[i] # NoRoot /\ h[j] # NoRoot /\ g[i] = h[i] /\ g[j] = h[j]
        BY <1>2, <1>8, <2>1, <2>3
      <3>2. (j < s \/ s <= i) \/ (s <= j /\ i < s)
        BY <1>3
      <3>3. CASE j < s \/ s <= i
        BY <1>8, <3>1, <3>3 DEF RingOrdered
      <3>4. CASE s <= j /\ i < s
        BY <1>3, <1>4, <1>8, <2>3, <3>4
      <3> QED
        BY <3>2, <3>3, <3>4
    <2> QED
      BY <2>2, <2>3
  <1>9. ASSUME NEW i \in Slots, NEW j \in Slots, g[i] # NoRoot, g[j] # NoRoot, z <= i, j < z
        PROVE  g[i] < g[j]
    <2>1. z = s + 1 /\ j <= s /\ s < i
      BY <1>3, <1>4, <1>9
    <2>2. h[i] # NoRoot /\ g[i] = h[i] /\ i # s
      BY <1>2, <1>3, <1>9, <2>1
    <2>3. CASE j = s
      BY <1>2, <1>5, <2>2, <2>3
    <2>4. CASE j # s
      <3>1. j < s /\ s <= i /\ g[j] = h[j] /\ h[j] # NoRoot
        BY <1>2, <1>3, <1>9, <2>1, <2>4
      <3> QED
        BY <2>2, <3>1 DEF RingOrdered
    <2> QED
      BY <2>3, <2>4
  <1> QED
    BY <1>6, <1>7, <1>8, <1>9 DEF RingOrdered, g, z

\* The sizes that a history and the current leaves make valid.
Sizes(h, L) == {L} \cup ({h[i] : i \in Slots} \ {NoRoot})

LEMMA RingForgets ==
  ASSUME NEW h \in [Slots -> Nat \cup {NoRoot}], NEW s \in Slots, NEW L \in Nat, NEW M \in Nat,
         RingOrdered(h, s, L), NEW n \in Sizes(h, L), n \notin Sizes([h EXCEPT ![s] = L], M)
  PROVE  /\ Cardinality(Sizes(h, L)) > RootHistorySize
         /\ \A m \in Sizes(h, L) \cap Sizes([h EXCEPT ![s] = L], M) : n < m
  <1> DEFINE g == [h EXCEPT ![s] = L]
  <1>1. RootHistorySize \in Nat /\ RootHistorySize > 0 /\ NoRoot \notin Nat
    BY PoolAssumption DEF PoolAssumption
  <1>2. g[s] = L /\ \A i \in Slots : i # s => g[i] = h[i]
    OBVIOUS
  <1>3. L \in Sizes(g, M) /\ \A i \in Slots : i # s /\ h[i] # NoRoot => h[i] \in Sizes(g, M)
    BY <1>1, <1>2 DEF Sizes
  <1>4. n = h[s] /\ n # NoRoot
    BY <1>3 DEF Sizes
  <1>5. \A i \in Slots : h[i] # NoRoot
    BY <1>1, <1>4 DEF RingOrdered, Slots
  <1>6. \A i \in Slots : h[i] \in Nat /\ h[i] < L
    BY <1>5 DEF RingOrdered
  <1>7. \A i, j \in Slots : i < j /\ (j < s \/ s <= i) => h[i] < h[j]
    BY <1>5 DEF RingOrdered
  <1>8. \A i, j \in Slots : s <= i /\ j < s => h[i] < h[j]
    BY <1>5 DEF RingOrdered
  <1>9. s \in Nat /\ \A i \in Slots : i \in Nat /\ i < RootHistorySize
    BY <1>1 DEF Slots
  <1>10. \A i \in Slots : i # s => n < h[i]
    BY <1>4, <1>7, <1>8, <1>9
  <1>11. \A m \in Sizes(h, L) \cap Sizes(g, M) : n < m
    BY <1>4, <1>6, <1>10 DEF Sizes
  <1>12. \A i, j \in Slots : h[i] = h[j] => i = j
    <2> SUFFICES ASSUME NEW i \in Slots, NEW j \in Slots, i < j PROVE h[i] # h[j]
      BY <1>9
    <2>1. (j < s \/ s <= i) \/ (s <= j /\ i < s)
      BY <1>9
    <2>2. h[i] \in Nat /\ h[j] \in Nat
      BY <1>6
    <2>3. h[i] < h[j] \/ h[j] < h[i]
      BY <1>7, <1>8, <2>1
    <2> QED
      BY <2>2, <2>3
  <1>13. Cardinality(Sizes(h, L)) = RootHistorySize + 1
    <2> DEFINE T == 0..RootHistorySize
               e == [i \in T |-> IF i = RootHistorySize THEN L ELSE h[i]]
    <2>1. IsFiniteSet(T) /\ Cardinality(T) = RootHistorySize + 1
      <3>1. 0 \in Int /\ RootHistorySize \in Int /\ ~(0 > RootHistorySize)
        BY <1>1
      <3>2. /\ IsFiniteSet(T)
            /\ Cardinality(T) = IF 0 > RootHistorySize THEN 0 ELSE RootHistorySize - 0 + 1
        BY <3>1, FS_Interval
      <3> QED
        BY <3>1, <3>2
    <2>2. \A i : i \in T <=> i \in Slots \/ i = RootHistorySize
      BY <1>1 DEF Slots
    <2>3. RootHistorySize \notin Slots
      BY <1>1 DEF Slots
    <2>4. \A i \in Slots : e[i] = h[i]
      BY <2>2, <2>3
    <2>5. e[RootHistorySize] = L
      BY <2>2
    <2>6. Sizes(h, L) = {L} \cup {h[i] : i \in Slots}
      BY <1>5 DEF Sizes
    <2>7. \A i \in T : e[i] \in Sizes(h, L)
      BY <2>2, <2>4, <2>5, <2>6
    <2>8. e \in [T -> Sizes(h, L)]
      BY <2>7
    <2>9. \A y \in Sizes(h, L) : \E i \in T : e[i] = y
      BY <2>2, <2>4, <2>5, <2>6
    <2>10. e \in Surjection(T, Sizes(h, L))
      BY <2>8, <2>9 DEF Surjection
    <2>11. \A i, j \in T : e[i] = e[j] => i = j
      <3>1. \A i \in Slots : h[i] # L
        BY <1>6
      <3> HIDE DEF e, T
      <3> QED
        BY <1>12, <2>2, <2>4, <2>5, <3>1
    <2>12. e \in Injection(T, Sizes(h, L))
      BY <2>8, <2>11 DEF Injection, IsInjective
    <2> HIDE DEF e, T
    <2> QED
      BY <2>1, <2>10, <2>12, FS_Surjection
  <1> QED
    <2>1. Cardinality(Sizes(h, L)) > RootHistorySize
      BY <1>1, <1>13
    <2> QED
      BY <2>1, <1>11

\* How a step changes the trees: a batch that is not empty, a rotation, or not at all.
TreesMove ==
  \/ trees' = trees /\ active' = active
  \/ \E cs \in Seq(Commitment) : Len(cs) > 0 /\ trees' = Placed(cs) /\ active' = active
  \/ RotateTree

LEMMA StepsMoveTrees ==
  ASSUME PoolInv, [Next]_vars
  PROVE  TreesMove
  <1>0. NotesInv
    BY InvFacts
  <1>1. ASSUME NEW npk \in NoteKey, NEW x \in Transfers, Shield(npk, x) PROVE TreesMove
    <2> DEFINE value == x.received - ComputeBpsFee(x.received, DepositBps)
               c == ComputeCommitment(npk, value)
    <2>1. value \in Nat
      <3>1. x.received \in Nat /\ DepositBps \in Nat /\ DepositBps <= BpsScale
        BY PoolAssumption DEF PoolAssumption
      <3>2. ComputeBpsFee(x.received, DepositBps) \in 0..x.received
        BY <3>1, FeeBounded
      <3> QED
        BY <3>1, <3>2
    <2>2. trees' = Placed(<<c>>) /\ active' = active
      BY <1>1 DEF Shield
    <2> HIDE DEF value
    <2>3. c \in Commitment
      BY <2>1, CommitmentType
    <2> HIDE DEF c
    <2>4. <<c>> \in Seq(Commitment) /\ Len(<<c>>) > 0
      BY <2>3
    <2> QED
      BY <2>2, <2>4 DEF TreesMove
  <1>2. ASSUME NEW outs \in Outputs, outs # <<>> \/ Len(outs) > 0,
               trees' = Placed(outs), active' = active
        PROVE  TreesMove
    <2>1. outs \in Seq(Commitment) /\ Len(outs) \in Nat
      BY OutputsType
    <2>2. Len(outs) > 0
      BY <1>2, <2>1, EmptySeq
    <2> QED
      BY <1>2, <2>1, <2>2 DEF TreesMove
  <1>3. ASSUME NEW sp \in Spend, NEW outs \in Outputs, Transact(sp, outs) PROVE TreesMove
    <2>1. Len(outs) + Len(<<>>) > 0 /\ Len(outs) \in Nat
      BY <1>3, OutputsType DEF Transact, Verified
    <2>2. Len(outs) > 0
      BY <2>1
    <2> QED
      BY <1>2, <1>3, <2>2 DEF Transact
  <1>4. ASSUME NEW sp \in Spend, NEW outs \in Outputs, TransactQueued(sp, outs) PROVE TreesMove
    BY <1>4 DEF TransactQueued, TreesMove
  <1>5. ASSUME NEW sp \in Spend, NEW outs \in Outputs, NEW amounts \in Amounts,
               Unshield(sp, outs, amounts)
        PROVE  TreesMove
    <2>1. CASE outs = <<>>
      BY <1>5, <2>1 DEF Unshield, TreesMove
    <2>2. CASE outs # <<>>
      BY <1>2, <1>5, <2>2 DEF Unshield
    <2> QED
      BY <2>1, <2>2
  <1>6. ASSUME NEW batch \in SeqOf(DOMAIN queued, 1..MaxMergeLeaves), MergeQueuedLeaves(batch)
        PROVE  TreesMove
    <2>1. batch \in Seq(Commitment)
      BY <1>0, <1>6, BatchType DEF MergeQueuedLeaves
    <2>2. MaxMergeLeaves \in Nat
      BY PoolAssumption DEF PoolAssumption
    <2>3. 1..MaxMergeLeaves \in SUBSET Nat
      BY <2>2
    <2>4. Len(batch) \in 1..MaxMergeLeaves
      BY <2>3, SeqOfType
    <2>5. Len(batch) > 0
      BY <2>2, <2>4
    <2> QED
      BY <1>6, <2>1, <2>5 DEF MergeQueuedLeaves, TreesMove
  <1>7. ASSUME NEW value \in PauseValues, SetPaused(value) PROVE TreesMove
    BY <1>7 DEF SetPaused, TreesMove
  <1>8. CASE UNCHANGED vars
    BY <1>8 DEF vars, TreesMove
  <1> QED
    BY <1>1, <1>3, <1>4, <1>5, <1>6, <1>7, <1>8 DEF Next, TreesMove

LEMMA RingType ==
  ASSUME NEW tree \in TreeType
  PROVE  /\ tree.history \in [Slots -> Nat \cup {NoRoot}] /\ Turn(tree) \in Slots
         /\ tree.next \in Nat /\ tree.leaves \in Seq(Commitment) /\ Len(tree.leaves) \in Nat
  <1>1. /\ tree.history \in [Slots -> Nat \cup {NoRoot}]
        /\ tree.next \in Nat /\ tree.leaves \in Seq(Commitment)
    BY DEF TreeType, Slots
  <1>2. RootHistorySize \in Nat \ {0}
    BY PoolAssumption DEF PoolAssumption
  <1>3. Turn(tree) \in Slots
    BY <1>1, <1>2, ModRange DEF Turn, Slots
  <1> QED
    BY <1>1, <1>3, LenProperties

\* A batch that is not empty keeps the ring in order, and forgets only the oldest root.
LEMMA InsertTurns ==
  ASSUME NEW tree \in TreeType, TreeOrdered(tree), NEW cs \in Seq(Commitment), Len(cs) > 0
  PROVE  LET to == InsertLeavesBatch(tree, cs)
             before == Sizes(tree.history, Len(tree.leaves))
             after == Sizes(to.history, Len(to.leaves))
         IN  /\ TreeOrdered(to)
             /\ \A n \in before \ after :
                  /\ Cardinality(before) > RootHistorySize
                  /\ \A m \in before \cap after : n < m
  <1> DEFINE to == InsertLeavesBatch(tree, cs)
             h == tree.history
             s == Turn(tree)
             L == Len(tree.leaves)
             M == Len(to.leaves)
             g == [h EXCEPT ![s] = L]
  <1>1. h \in [Slots -> Nat \cup {NoRoot}] /\ s \in Slots /\ tree.next \in Nat
          /\ tree.leaves \in Seq(Commitment) /\ L \in Nat
    BY RingType
  <1>2. to.leaves = tree.leaves \o cs /\ to.history = g /\ to.next = tree.next + 1
    BY DEF InsertLeavesBatch, Turn
  <1>3. M = L + Len(cs) /\ Len(cs) \in Nat
    BY <1>1, <1>2, ConcatProperties, LenProperties
  <1>4. M \in Nat /\ L < M
    BY <1>1, <1>3
  <1>5. Turn(to) = IF s = RootHistorySize - 1 THEN 0 ELSE s + 1
    <2>1. RootHistorySize \in Nat \ {0}
      BY PoolAssumption DEF PoolAssumption
    <2>2. Turn(to) = (tree.next + 1) % RootHistorySize
      BY <1>2 DEF Turn
    <2> QED
      BY <1>1, <2>1, <2>2, ModStep DEF Turn
  <1>6. RingOrdered(h, s, L)
    BY DEF TreeOrdered
  <1> HIDE DEF h, s, L, M, to
  <1>7. RingOrdered(g, IF s = RootHistorySize - 1 THEN 0 ELSE s + 1, M)
    BY <1>1, <1>4, <1>6, RingStep
  <1>8. TreeOrdered(to)
    BY <1>2, <1>5, <1>7 DEF TreeOrdered, M
  <1>9. \A n \in Sizes(h, L) \ Sizes(g, M) :
          /\ Cardinality(Sizes(h, L)) > RootHistorySize
          /\ \A m \in Sizes(h, L) \cap Sizes(g, M) : n < m
    BY <1>1, <1>4, <1>6, RingForgets
  <1> QED
    BY <1>2, <1>8, <1>9 DEF h, L, M, to

LEMMA EmptyOrdered == TreeOrdered(EmptyTree)
  <1>1. EmptyTree \in TreeType /\ \A i \in Slots : EmptyTree.history[i] = NoRoot
    BY EmptyTreeType DEF Slots
  <1>2. EmptyTree.next = 0
    BY DEF EmptyTree
  <1>3. RootHistorySize \in Nat \ {0}
    BY PoolAssumption DEF PoolAssumption
  <1>4. Turn(EmptyTree) = 0
    BY <1>2, <1>3 DEF Turn
  <1>5. \A i \in Slots : ~(i < 0)
    BY <1>3 DEF Slots
  <1> QED
    BY <1>1, <1>4, <1>5 DEF TreeOrdered, RingOrdered

LEMMA RingPreserved ==
  ASSUME PoolInv, RingInv, [Next]_vars
  PROVE  RingInv'
  <1>1. /\ TypeOK /\ active \in Nat /\ trees \in [0..active -> TreeType] /\ active \in 0..active
    <2>1. TypeOK
      BY InvFacts DEF NotesInv
    <2>2. active \in Nat
      BY <2>1, TreeFacts
    <2> QED
      BY <2>1, <2>2 DEF TypeOK, TreeType
  <1>2. CASE trees' = trees /\ active' = active
    BY <1>2 DEF RingInv
  <1>3. ASSUME NEW cs \in Seq(Commitment), Len(cs) > 0, trees' = Placed(cs), active' = active
        PROVE  RingInv'
    <2>1. trees' = [trees EXCEPT ![active] = InsertLeavesBatch(trees[active], cs)]
      BY <1>3 DEF Placed
    <2>2. trees'[active] = InsertLeavesBatch(trees[active], cs)
            /\ \A t \in 0..active : t # active => trees'[t] = trees[t]
      BY <1>1, <2>1
    <2>3. trees[active] \in TreeType /\ TreeOrdered(trees[active])
      BY <1>1 DEF RingInv
    <2>4. TreeOrdered(InsertLeavesBatch(trees[active], cs))
      BY <1>3, <2>3, InsertTurns
    <2>5. ASSUME NEW t \in 0..active PROVE TreeOrdered(trees'[t])
      <3>1. CASE t = active
        BY <2>2, <2>4, <3>1
      <3>2. CASE t # active
        BY <2>2, <3>2 DEF RingInv
      <3> QED
        BY <3>1, <3>2
    <2> QED
      BY <1>3, <2>5 DEF RingInv
  <1>4. CASE RotateTree
    <2>1. /\ active' = active + 1
          /\ trees' = [t \in 0..(active + 1) |-> IF t = active + 1 THEN EmptyTree ELSE trees[t]]
      BY <1>4 DEF RotateTree
    <2>2. TreeOrdered(EmptyTree)
      BY EmptyOrdered
    <2>3. ASSUME NEW t \in 0..(active + 1) PROVE TreeOrdered(trees'[t])
      <3>1. CASE t = active + 1
        BY <2>1, <2>2, <3>1
      <3>2. CASE t # active + 1
        <4>1. t \in 0..active
          BY <1>1, <3>2
        <4> QED
          BY <2>1, <3>2, <4>1 DEF RingInv
      <3> QED
        BY <3>1, <3>2
    <2> QED
      BY <2>1, <2>3 DEF RingInv
  <1> QED
    BY <1>2, <1>3, <1>4, StepsMoveTrees DEF TreesMove

RootsKeptStep ==
  \A t \in DOMAIN trees :
    \A n \in ValidSizes(t) \ ValidSizes(t)' :
      /\ Cardinality(ValidSizes(t)) > RootHistorySize
      /\ \A m \in ValidSizes(t) \cap ValidSizes(t)' : n < m

LEMMA StepKeepsRoots ==
  ASSUME PoolInv, RingInv, [Next]_vars
  PROVE  RootsKeptStep
  <1>1. /\ TypeOK /\ active \in Nat /\ trees \in [0..active -> TreeType] /\ active \in 0..active
        /\ DOMAIN trees = 0..active
    <2>1. TypeOK
      BY InvFacts DEF NotesInv
    <2>2. active \in Nat
      BY <2>1, TreeFacts
    <2> QED
      BY <2>1, <2>2 DEF TypeOK, TreeType
  <1>2. \A t : trees'[t] = trees[t] => ValidSizes(t)' = ValidSizes(t)
    BY DEF ValidSizes
  <1>3. CASE trees' = trees /\ active' = active
    BY <1>2, <1>3 DEF RootsKeptStep
  <1>4. ASSUME NEW cs \in Seq(Commitment), Len(cs) > 0, trees' = Placed(cs), active' = active
        PROVE  RootsKeptStep
    <2>1. trees' = [trees EXCEPT ![active] = InsertLeavesBatch(trees[active], cs)]
      BY <1>4 DEF Placed
    <2>2. trees'[active] = InsertLeavesBatch(trees[active], cs)
            /\ \A t \in 0..active : t # active => trees'[t] = trees[t]
      BY <1>1, <2>1
    <2>3. trees[active] \in TreeType /\ TreeOrdered(trees[active])
      BY <1>1 DEF RingInv
    <2>4. InsertLeavesBatch(trees[active], cs) \in TreeType
      BY <2>3, InsertType
    <2>5. ValidSizes(active) = Sizes(trees[active].history, Len(trees[active].leaves))
      BY <2>3, RingType DEF ValidSizes, Sizes
    <2>6. \A t : t = active => ValidSizes(t)' = Sizes(trees'[active].history, Len(trees'[active].leaves))
      <3>1. DOMAIN trees'[active].history = Slots
        BY <2>2, <2>4, RingType
      <3> QED
        BY <3>1 DEF ValidSizes, Sizes
    <2>7. ASSUME NEW t \in 0..active, NEW n \in ValidSizes(t) \ ValidSizes(t)'
          PROVE  /\ Cardinality(ValidSizes(t)) > RootHistorySize
                 /\ \A m \in ValidSizes(t) \cap ValidSizes(t)' : n < m
      <3>1. t = active
        BY <1>2, <2>2, <2>7
      <3>2. LET to == InsertLeavesBatch(trees[active], cs)
                before == Sizes(trees[active].history, Len(trees[active].leaves))
                after == Sizes(to.history, Len(to.leaves))
            IN  \A k \in before \ after :
                  /\ Cardinality(before) > RootHistorySize
                  /\ \A m \in before \cap after : k < m
        BY <1>4, <2>3, InsertTurns
      <3> QED
        BY <2>2, <2>5, <2>6, <2>7, <3>1, <3>2
    <2> QED
      BY <1>1, <2>7 DEF RootsKeptStep
  <1>5. CASE RotateTree
    <2>1. trees' = [t \in 0..(active + 1) |-> IF t = active + 1 THEN EmptyTree ELSE trees[t]]
      BY <1>5 DEF RotateTree
    <2>2. \A t \in 0..active : t \in 0..(active + 1) /\ t # active + 1
      BY <1>1
    <2>3. \A t \in 0..active : trees'[t] = trees[t]
      BY <2>1, <2>2
    <2> QED
      BY <1>1, <1>2, <2>3 DEF RootsKeptStep
  <1> QED
    BY <1>3, <1>4, <1>5, StepsMoveTrees DEF TreesMove

\* A root is forgotten only once RootHistorySize newer ones stand, and the oldest goes
\* first, whatever the size of the ring (CommitmentTree::insert_leaves_batch).
THEOREM OldRootsKept == Spec => RootsKept
  <1>1. Init => RingInv
    <2> SUFFICES ASSUME Init PROVE RingInv
      OBVIOUS
    <2>1. 0..active = {0} /\ trees[0] = EmptyTree
      BY DEF Init
    <2> QED
      BY <2>1, EmptyOrdered DEF RingInv
  <1>2. PoolInv /\ RingInv /\ [Next]_vars => RingInv'
    BY RingPreserved
  <1>3. PoolInv /\ RingInv /\ [Next]_vars => RootsKeptStep
    BY StepKeepsRoots
  <1>4. Spec => [](PoolInv /\ RingInv)
    BY <1>1, <1>2, PoolInvHolds, PTL DEF Spec
  <1>5. Spec => [][RootsKeptStep]_vars
    BY <1>3, <1>4, PTL DEF Spec
  <1>6. RootsKept <=> [][RootsKeptStep]_vars
    BY DEF RootsKept, RootsKeptStep
  <1> QED
    BY <1>5, <1>6, PTL
===============================================================================
