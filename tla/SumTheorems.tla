---------------------------- MODULE SumTheorems ----------------------------
(***************************************************************************)
(* The laws of SumFunctionOnSet (module Functions), from which the         *)
(* conservation of notes, coins and counters follows.  Induction over      *)
(* finite sets is by a smallest counterexample: a set of subsets of a      *)
(* finite set has a minimal member (WFMin), which the provers can apply    *)
(* where an induction rule with a predicate as parameter is beyond them.   *)
(***************************************************************************)
EXTENDS Integers, FiniteSetsExt, FiniteSetTheorems, WellFoundedInduction, TLAPS

\* A set of subsets of a finite set has a member that contains no other.
LEMMA MinimalSubset ==
  ASSUME NEW S, IsFiniteSet(S), NEW Bad \in SUBSET SUBSET S, Bad # {}
  PROVE  \E s \in Bad : \A u \in Bad : u \subseteq s => u = s
  <1>1. IsWellFoundedOn(StrictSubsetOrdering(S), SUBSET S)
    BY FS_StrictSubsetOrderingWellFounded, FS_FiniteSubsetsOfFinite
  <1>2. PICK s \in Bad : \A u \in Bad : ~(<<u, s>> \in StrictSubsetOrdering(S))
    BY <1>1, WFMin
  <1> QED
    BY <1>2 DEF StrictSubsetOrdering

\* The element that a fold takes first.
Chosen(s) == CHOOSE x \in s : TRUE

\* g has the sum of f over every subset of S, computed as the fold does.
Sums(g, f, S) ==
  g = [s \in SUBSET S |-> IF s = {} THEN 0 ELSE f[Chosen(s)] + g[s \ {Chosen(s)}]]

\* The library's definition, spelled out.
LEMMA SumIsSums ==
  ASSUME NEW f, NEW S
  PROVE  SumFunctionOnSet(f, S) = (CHOOSE g : Sums(g, f, S))[S]
  BY DEF SumFunctionOnSet, FoldFunctionOnSet, MapThenFoldSet, Sums, Chosen

LEMMA ChosenIn == \A s : s # {} => Chosen(s) \in s
  BY DEF Chosen

\* Two such functions agree where both are defined.
LEMMA SumsAgree ==
  ASSUME NEW f, NEW S, IsFiniteSet(S), NEW T \in SUBSET S,
         NEW g, Sums(g, f, S), NEW h, Sums(h, f, T)
  PROVE  \A u \in SUBSET T : g[u] = h[u]
  <1> DEFINE Bad == {u \in SUBSET T : g[u] # h[u]}
  <1> SUFFICES ASSUME Bad # {} PROVE FALSE
    OBVIOUS
  <1>1. PICK s \in Bad : \A u \in Bad : u \subseteq s => u = s
    <2>1. Bad \in SUBSET SUBSET S
      OBVIOUS
    <2> HIDE DEF Bad
    <2> QED
      BY <2>1, MinimalSubset
  <1>2. /\ g[s] = IF s = {} THEN 0 ELSE f[Chosen(s)] + g[s \ {Chosen(s)}]
        /\ h[s] = IF s = {} THEN 0 ELSE f[Chosen(s)] + h[s \ {Chosen(s)}]
    <2>1. s \in SUBSET S /\ s \in SUBSET T
      OBVIOUS
    <2> HIDE DEF Bad
    <2> QED
      BY <2>1 DEF Sums
  <1>3. s # {}
    BY <1>2
  <1>4. Chosen(s) \in s
    BY <1>3, ChosenIn
  <1>5. s \ {Chosen(s)} \notin Bad
    BY <1>1, <1>4
  <1> QED
    BY <1>2, <1>3, <1>5

\* There is one: the recursion is well founded.
LEMMA SumsExist ==
  ASSUME NEW f, NEW S, IsFiniteSet(S)
  PROVE  \E g : Sums(g, f, S)
  <1> DEFINE Bad == {u \in SUBSET S : ~\E g : Sums(g, f, u)}
             Own(u) == CHOOSE g : Sums(g, f, u)
  <1> SUFFICES ASSUME Bad # {} PROVE FALSE
    OBVIOUS
  <1>1. PICK s \in Bad : \A u \in Bad : u \subseteq s => u = s
    <2>1. Bad \in SUBSET SUBSET S
      OBVIOUS
    <2> HIDE DEF Bad
    <2> QED
      BY <2>1, MinimalSubset
  <1>2. s \in SUBSET S /\ ~\E g : Sums(g, f, s)
    OBVIOUS
  <1>3. \A u \in SUBSET s : u # s => Sums(Own(u), f, u)
    BY <1>1
  <1>4. \A u \in SUBSET S : IsFiniteSet(u)
    BY FS_Subset
  <1> HIDE DEF Bad, Own
  <1>5. ASSUME NEW u \in SUBSET s, u # s, NEW v \in SUBSET u
        PROVE  Own(u)[v] = Own(v)[v]
    <2>1. Sums(Own(u), f, u) /\ Sums(Own(v), f, v)
      BY <1>3, <1>5
    <2> QED
      BY <1>2, <1>4, <1>5, <2>1, SumsAgree
  <1> DEFINE value(u) == IF u = {} THEN 0
                         ELSE f[Chosen(u)] + Own(u \ {Chosen(u)})[u \ {Chosen(u)}]
             g == [u \in SUBSET s |-> value(u)]
  <1>6. ASSUME NEW u \in SUBSET s, u # s PROVE g[u] = Own(u)[u]
    <2>1. Own(u)[u] = IF u = {} THEN 0 ELSE f[Chosen(u)] + Own(u)[u \ {Chosen(u)}]
      BY <1>3, <1>6 DEF Sums
    <2>2. u # {} => Own(u)[u \ {Chosen(u)}] = Own(u \ {Chosen(u)})[u \ {Chosen(u)}]
      BY <1>5, <1>6
    <2> QED
      BY <2>1, <2>2
  <1>7. ASSUME NEW u \in SUBSET s, u # {}
        PROVE  g[u \ {Chosen(u)}] = Own(u \ {Chosen(u)})[u \ {Chosen(u)}]
    <2>1. u \ {Chosen(u)} \in SUBSET s /\ u \ {Chosen(u)} # s
      BY <1>7, ChosenIn
    <2> HIDE DEF g
    <2> QED
      BY <1>6, <2>1
  <1>8. \A u \in SUBSET s :
          value(u) = IF u = {} THEN 0 ELSE f[Chosen(u)] + g[u \ {Chosen(u)}]
    <2> HIDE DEF g
    <2> QED
      BY <1>7
  <1>9. Sums(g, f, s)
    <2>1. g = [u \in SUBSET s |-> IF u = {} THEN 0 ELSE f[Chosen(u)] + g[u \ {Chosen(u)}]]
      <3> HIDE DEF value
      <3> QED BY <1>8
    <2> HIDE DEF g
    <2> QED
      BY <2>1 DEF Sums
  <1> QED
    BY <1>2, <1>9

\* The sum over the empty set, and over a set by its chosen element.
LEMMA SumUnfold ==
  ASSUME NEW f, NEW S, IsFiniteSet(S)
  PROVE  SumFunctionOnSet(f, S)
           = IF S = {} THEN 0
             ELSE f[Chosen(S)] + SumFunctionOnSet(f, S \ {Chosen(S)})
  <1> DEFINE Own(u) == CHOOSE g : Sums(g, f, u)
             rest == S \ {Chosen(S)}
  <1>1. IsFiniteSet(rest)
    BY FS_Subset
  <1>2. Sums(Own(S), f, S) /\ Sums(Own(rest), f, rest)
    BY <1>1, SumsExist
  <1>3. Own(S)[S] = IF S = {} THEN 0 ELSE f[Chosen(S)] + Own(S)[rest]
    <2> HIDE DEF Own
    <2> QED BY <1>2 DEF Sums
  <1>4. Own(S)[rest] = Own(rest)[rest]
    <2> HIDE DEF Own
    <2> QED BY <1>2, SumsAgree
  <1> QED
    BY <1>3, <1>4, SumIsSums

-----------------------------------------------------------------------------
\* The sum over the empty set.
THEOREM SumEmpty == \A f : SumFunctionOnSet(f, {}) = 0
  BY SumUnfold, FS_EmptySet

\* Functions that agree on a set have the same sum over it.
THEOREM SumCongruent ==
  ASSUME NEW S, IsFiniteSet(S), NEW f, NEW g, \A x \in S : f[x] = g[x]
  PROVE  SumFunctionOnSet(f, S) = SumFunctionOnSet(g, S)
  <1> DEFINE Bad == {u \in SUBSET S : SumFunctionOnSet(f, u) # SumFunctionOnSet(g, u)}
  <1> SUFFICES ASSUME Bad # {} PROVE FALSE
    OBVIOUS
  <1>1. PICK s \in Bad : \A u \in Bad : u \subseteq s => u = s
    <2>1. Bad \in SUBSET SUBSET S
      OBVIOUS
    <2> HIDE DEF Bad
    <2> QED
      BY <2>1, MinimalSubset
  <1>2. s \in SUBSET S /\ IsFiniteSet(s)
    BY FS_Subset
  <1>3. s # {}
    BY SumEmpty
  <1>4. Chosen(s) \in s /\ s \ {Chosen(s)} \notin Bad
    BY <1>1, <1>3, ChosenIn
  <1>5. SumFunctionOnSet(f, s \ {Chosen(s)}) = SumFunctionOnSet(g, s \ {Chosen(s)})
    BY <1>2, <1>4
  <1>6. f[Chosen(s)] = g[Chosen(s)]
    BY <1>2, <1>4
  <1> QED
    BY <1>2, <1>3, <1>5, <1>6, SumUnfold

\* A sum of nothing but zeros.
THEOREM SumZero ==
  ASSUME NEW S, IsFiniteSet(S), NEW f, \A x \in S : f[x] = 0
  PROVE  SumFunctionOnSet(f, S) = 0
  <1> DEFINE Bad == {u \in SUBSET S : SumFunctionOnSet(f, u) # 0}
  <1> SUFFICES ASSUME Bad # {} PROVE FALSE
    OBVIOUS
  <1>1. PICK s \in Bad : \A u \in Bad : u \subseteq s => u = s
    <2>1. Bad \in SUBSET SUBSET S
      OBVIOUS
    <2> HIDE DEF Bad
    <2> QED
      BY <2>1, MinimalSubset
  <1>2. s \in SUBSET S /\ IsFiniteSet(s)
    BY FS_Subset
  <1>3. s # {}
    BY SumEmpty
  <1>4. Chosen(s) \in s /\ s \ {Chosen(s)} \notin Bad
    BY <1>1, <1>3, ChosenIn
  <1>5. SumFunctionOnSet(f, s \ {Chosen(s)}) = 0 /\ f[Chosen(s)] = 0
    BY <1>2, <1>4
  <1>6. SumFunctionOnSet(f, s) = f[Chosen(s)] + SumFunctionOnSet(f, s \ {Chosen(s)})
    BY <1>2, <1>3, SumUnfold
  <1> QED
    BY <1>5, <1>6

\* A sum of integers is an integer, and a sum of naturals a natural number.
THEOREM SumType ==
  ASSUME NEW S, IsFiniteSet(S), NEW T \in {Nat, Int}, NEW f, \A x \in S : f[x] \in T
  PROVE  SumFunctionOnSet(f, S) \in T
  <1> DEFINE Bad == {u \in SUBSET S : SumFunctionOnSet(f, u) \notin T}
  <1> SUFFICES ASSUME Bad # {} PROVE FALSE
    OBVIOUS
  <1>1. PICK s \in Bad : \A u \in Bad : u \subseteq s => u = s
    <2>1. Bad \in SUBSET SUBSET S
      OBVIOUS
    <2> HIDE DEF Bad
    <2> QED
      BY <2>1, MinimalSubset
  <1>2. s \in SUBSET S /\ IsFiniteSet(s)
    BY FS_Subset
  <1>3. s # {}
    BY SumEmpty
  <1>4. Chosen(s) \in s /\ s \ {Chosen(s)} \notin Bad
    BY <1>1, <1>3, ChosenIn
  <1>5. SumFunctionOnSet(f, s \ {Chosen(s)}) \in T /\ f[Chosen(s)] \in T
    BY <1>2, <1>4
  <1>6. SumFunctionOnSet(f, s) \in T
    <2>1. SumFunctionOnSet(f, s) = f[Chosen(s)] + SumFunctionOnSet(f, s \ {Chosen(s)})
      BY <1>2, <1>3, SumUnfold
    <2> QED
      BY <1>5, <2>1
  <1> QED
    BY <1>6

\* Any element may be taken out first: the order of summation does not matter.
THEOREM SumRemove ==
  ASSUME NEW S, IsFiniteSet(S), NEW f, \A x \in S : f[x] \in Int, NEW x \in S
  PROVE  SumFunctionOnSet(f, S) = f[x] + SumFunctionOnSet(f, S \ {x})
  <1> DEFINE Bad == {u \in SUBSET S :
                       \E y \in u : SumFunctionOnSet(f, u) # f[y] + SumFunctionOnSet(f, u \ {y})}
  <1> SUFFICES ASSUME Bad # {} PROVE FALSE
    OBVIOUS
  <1>1. PICK s \in Bad : \A u \in Bad : u \subseteq s => u = s
    <2>1. Bad \in SUBSET SUBSET S
      OBVIOUS
    <2> HIDE DEF Bad
    <2> QED
      BY <2>1, MinimalSubset
  <1>2. PICK y \in s : SumFunctionOnSet(f, s) # f[y] + SumFunctionOnSet(f, s \ {y})
    OBVIOUS
  <1> DEFINE c == Chosen(s)
             rest == s \ {c, y}
  <1>3. s \in SUBSET S /\ IsFiniteSet(s) /\ IsFiniteSet(s \ {c}) /\ IsFiniteSet(rest)
    BY FS_Subset
  <1>4. c \in s /\ SumFunctionOnSet(f, s) = f[c] + SumFunctionOnSet(f, s \ {c})
    BY <1>2, <1>3, ChosenIn, SumUnfold
  <1>5. y # c
    BY <1>2, <1>4
  <1>6. SumFunctionOnSet(f, s \ {c}) = f[y] + SumFunctionOnSet(f, (s \ {c}) \ {y})
    <2>1. s \ {c} \notin Bad /\ y \in s \ {c} /\ s \ {c} \in SUBSET S
      BY <1>1, <1>3, <1>4, <1>5
    <2> QED
      BY <2>1
  <1>7. SumFunctionOnSet(f, s \ {y}) = f[c] + SumFunctionOnSet(f, (s \ {y}) \ {c})
    <2>1. s \ {y} \notin Bad /\ c \in s \ {y} /\ s \ {y} \in SUBSET S
      BY <1>1, <1>2, <1>3, <1>4, <1>5
    <2> QED
      BY <2>1
  <1>8. (s \ {c}) \ {y} = rest /\ (s \ {y}) \ {c} = rest
    OBVIOUS
  <1>9. SumFunctionOnSet(f, rest) \in Int /\ f[c] \in Int /\ f[y] \in Int
    BY <1>2, <1>3, <1>4, SumType
  <1> HIDE DEF Bad, c, rest
  <1> QED
    BY <1>2, <1>4, <1>6, <1>7, <1>8, <1>9

\* One element more.
THEOREM SumAdd ==
  ASSUME NEW S, IsFiniteSet(S), NEW x, x \notin S, NEW f, \A y \in S \cup {x} : f[y] \in Int
  PROVE  SumFunctionOnSet(f, S \cup {x}) = SumFunctionOnSet(f, S) + f[x]
  <1>1. IsFiniteSet(S \cup {x}) /\ (S \cup {x}) \ {x} = S
    BY FS_AddElement
  <1>2. SumFunctionOnSet(f, S) \in Int /\ f[x] \in Int
    BY SumType
  <1>3. SumFunctionOnSet(f, S \cup {x}) = f[x] + SumFunctionOnSet(f, (S \cup {x}) \ {x})
    BY <1>1, SumRemove
  <1>4. SumFunctionOnSet(f, S \cup {x}) = f[x] + SumFunctionOnSet(f, S)
    BY <1>1, <1>3, Zenon
  <1> QED
    BY <1>2, <1>4

\* The sum over a disjoint union.
THEOREM SumUnion ==
  ASSUME NEW S, IsFiniteSet(S), NEW T, IsFiniteSet(T), S \cap T = {},
         NEW f, \A x \in S \cup T : f[x] \in Int
  PROVE  SumFunctionOnSet(f, S \cup T) = SumFunctionOnSet(f, S) + SumFunctionOnSet(f, T)
  <1> DEFINE Bad == {u \in SUBSET T : SumFunctionOnSet(f, S \cup u)
                                        # SumFunctionOnSet(f, S) + SumFunctionOnSet(f, u)}
  <1> SUFFICES ASSUME Bad # {} PROVE FALSE
    OBVIOUS
  <1>1. PICK s \in Bad : \A u \in Bad : u \subseteq s => u = s
    <2>1. Bad \in SUBSET SUBSET T
      OBVIOUS
    <2> HIDE DEF Bad
    <2> QED
      BY <2>1, MinimalSubset
  <1>2. s \in SUBSET T /\ IsFiniteSet(s) /\ IsFiniteSet(S \cup s)
    BY FS_Subset, FS_Union
  <1>3. SumFunctionOnSet(f, S) \in Int
    BY SumType
  <1>4. s # {}
    <2>1. S \cup {} = S
      OBVIOUS
    <2> QED
      BY <1>3, <2>1, SumEmpty
  <1>5. PICK x \in s : TRUE
    BY <1>4
  <1> DEFINE rest == s \ {x}
  <1>6. SumFunctionOnSet(f, s) = f[x] + SumFunctionOnSet(f, rest)
    BY <1>2, SumRemove
  <1>7. SumFunctionOnSet(f, S \cup s) = f[x] + SumFunctionOnSet(f, S \cup rest)
    <2>1. (S \cup s) \ {x} = S \cup rest /\ x \in S \cup s
      BY <1>2
    <2>2. \A y \in S \cup s : f[y] \in Int
      BY <1>2
    <2> HIDE DEF rest
    <2> QED
      BY <1>2, <2>1, <2>2, SumRemove
  <1>8. SumFunctionOnSet(f, S \cup rest) = SumFunctionOnSet(f, S) + SumFunctionOnSet(f, rest)
    <2>1. rest \notin Bad /\ rest \in SUBSET T
      BY <1>1, <1>2
    <2> QED
      BY <2>1
  <1>9. f[x] \in Int /\ SumFunctionOnSet(f, rest) \in Int
    <2>1. IsFiniteSet(rest) /\ \A y \in rest : f[y] \in Int
      BY <1>2, FS_Subset
    <2> QED
      BY <1>2, <2>1, SumType
  <1>10. SumFunctionOnSet(f, S \cup s) # SumFunctionOnSet(f, S) + SumFunctionOnSet(f, s)
    BY <1>1
  <1> HIDE DEF Bad, rest
  <1> QED
    BY <1>3, <1>6, <1>7, <1>8, <1>9, <1>10

\* Taking a part out.
THEOREM SumDifference ==
  ASSUME NEW S, IsFiniteSet(S), NEW T \in SUBSET S, NEW f, \A x \in S : f[x] \in Int
  PROVE  SumFunctionOnSet(f, S \ T) = SumFunctionOnSet(f, S) - SumFunctionOnSet(f, T)
  <1>1. IsFiniteSet(T) /\ IsFiniteSet(S \ T)
    BY FS_Subset
  <1>2. (S \ T) \cup T = S /\ (S \ T) \cap T = {}
    OBVIOUS
  <1>3. SumFunctionOnSet(f, S) = SumFunctionOnSet(f, S \ T) + SumFunctionOnSet(f, T)
    BY <1>1, <1>2, SumUnion
  <1>4. SumFunctionOnSet(f, S \ T) \in Int /\ SumFunctionOnSet(f, T) \in Int
    BY <1>1, SumType
  <1> QED
    BY <1>3, <1>4

\* A sum may be taken over other names of the same things.
THEOREM SumReindexed ==
  ASSUME NEW S, IsFiniteSet(S), NEW h, NEW f, \A x \in S : f[h[x]] \in Int,
         \A x, y \in S : h[x] = h[y] => x = y
  PROVE  SumFunctionOnSet([x \in S |-> f[h[x]]], S) = SumFunctionOnSet(f, {h[x] : x \in S})
  <1> DEFINE g == [x \in S |-> f[h[x]]]
             Image(u) == {h[x] : x \in u}
             Bad == {u \in SUBSET S : SumFunctionOnSet(g, u) # SumFunctionOnSet(f, Image(u))}
  <1> SUFFICES ASSUME Bad # {} PROVE FALSE
    OBVIOUS
  <1>1. PICK s \in Bad : \A u \in Bad : u \subseteq s => u = s
    <2>1. Bad \in SUBSET SUBSET S
      OBVIOUS
    <2> HIDE DEF Bad
    <2> QED
      BY <2>1, MinimalSubset
  <1>2. s \in SUBSET S /\ IsFiniteSet(s)
    BY FS_Subset
  <1>3. s # {}
    <2>1. Image({}) = {}
      OBVIOUS
    <2> QED
      BY <2>1, SumEmpty
  <1>4. PICK x \in s : TRUE
    BY <1>3
  <1> DEFINE rest == s \ {x}
  <1>5. IsFiniteSet(rest) /\ IsFiniteSet(Image(s))
    <2>1. [y \in s |-> h[y]] \in Surjection(s, Image(s))
      BY DEF Surjection
    <2> QED
      BY <1>2, <2>1, FS_Subset, FS_Surjection
  <1>6. h[x] \in Image(s) /\ Image(s) \ {h[x]} = Image(rest)
    BY <1>2
  <1>7. SumFunctionOnSet(g, s) = g[x] + SumFunctionOnSet(g, rest)
    BY <1>2, SumRemove
  <1>8. SumFunctionOnSet(f, Image(s)) = f[h[x]] + SumFunctionOnSet(f, Image(rest))
    <2>1. \A y \in Image(s) : f[y] \in Int
      BY <1>2
    <2> HIDE DEF Image, rest
    <2> QED
      BY <1>5, <1>6, <2>1, SumRemove
  <1>9. SumFunctionOnSet(g, rest) = SumFunctionOnSet(f, Image(rest))
    <2>1. rest \notin Bad /\ rest \in SUBSET S
      BY <1>1, <1>2
    <2> QED
      BY <2>1
  <1>10. g[x] = f[h[x]] /\ SumFunctionOnSet(g, s) # SumFunctionOnSet(f, Image(s))
    BY <1>1, <1>2
  <1> HIDE DEF Bad, rest, g, Image
  <1> QED
    BY <1>7, <1>8, <1>9, <1>10

\* One value of the function changed.
THEOREM SumUpdate ==
  ASSUME NEW S, IsFiniteSet(S), NEW x \in S, NEW f, NEW g, \A y \in S : f[y] \in Int,
         g[x] \in Int, \A y \in S \ {x} : g[y] = f[y]
  PROVE  SumFunctionOnSet(g, S) = SumFunctionOnSet(f, S) - f[x] + g[x]
  <1>1. IsFiniteSet(S \ {x})
    BY FS_RemoveElement
  <1>2. SumFunctionOnSet(g, S \ {x}) = SumFunctionOnSet(f, S \ {x})
    BY <1>1, SumCongruent
  <1>3. SumFunctionOnSet(f, S \ {x}) \in Int /\ f[x] \in Int
    BY <1>1, SumType
  <1>4. SumFunctionOnSet(f, S) = f[x] + SumFunctionOnSet(f, S \ {x})
    BY SumRemove
  <1>5. SumFunctionOnSet(g, S) = g[x] + SumFunctionOnSet(g, S \ {x})
    <2>1. \A y \in S : g[y] \in Int
      OBVIOUS
    <2> QED
      BY <2>1, SumRemove
  <1> QED
    BY <1>2, <1>3, <1>4, <1>5

\* A part of a sum of naturals is at most the whole.
THEOREM SumPart ==
  ASSUME NEW S, IsFiniteSet(S), NEW T \in SUBSET S, NEW f, \A x \in S : f[x] \in Nat
  PROVE  SumFunctionOnSet(f, T) <= SumFunctionOnSet(f, S)
  <1>1. IsFiniteSet(T) /\ IsFiniteSet(S \ T)
    BY FS_Subset
  <1>2. SumFunctionOnSet(f, S \ T) \in Nat /\ SumFunctionOnSet(f, T) \in Nat
        /\ SumFunctionOnSet(f, S) \in Nat
    BY <1>1, SumType
  <1>3. SumFunctionOnSet(f, S \ T) = SumFunctionOnSet(f, S) - SumFunctionOnSet(f, T)
    BY SumDifference
  <1> QED
    BY <1>2, <1>3

-----------------------------------------------------------------------------
(* Natural numbers *)

\* A set of natural numbers has a least member.
LEMMA LeastNat ==
  ASSUME NEW T \in SUBSET Nat, T # {}
  PROVE  \E n \in T : \A m \in T : n <= m
  <1> DEFINE Less == OpToRel(<, Nat)
  <1>1. IsWellFoundedOn(Less, Nat)
    BY NatLessThanWellFounded
  <1>2. \A m, n \in Nat : m < n => <<m, n>> \in Less
    BY DEF OpToRel
  <1> HIDE DEF Less
  <1>3. PICK n \in T : \A m \in T : <<m, n>> \notin Less
    BY <1>1, WFMin
  <1>4. ASSUME NEW m \in T PROVE n <= m
    <2>1. m \in Nat /\ n \in Nat /\ ~(m < n)
      BY <1>2, <1>3
    <2> QED
      BY <2>1
  <1> QED
    BY <1>4

\* Induction over an initial segment of the naturals, for a property given as a set.
LEMMA UpTo ==
  ASSUME NEW n \in Nat, NEW S, 0 \in S,
         \A i \in 1..n : i - 1 \in S => i \in S
  PROVE  0..n \subseteq S
  <1> DEFINE Bad == (0..n) \ S
  <1> SUFFICES ASSUME Bad # {} PROVE FALSE
    OBVIOUS
  <1>1. Bad \in SUBSET Nat
    OBVIOUS
  <1>2. PICK i \in Bad : \A j \in Bad : i <= j
    <2> HIDE DEF Bad
    <2> QED
      BY <1>1, LeastNat
  <1>3. i \in 1..n /\ i - 1 \in 0..n /\ ~(i <= i - 1)
    OBVIOUS
  <1> QED
    BY <1>2, <1>3

\* Quotient and remainder.
LEMMA ModRange ==
  ASSUME NEW H \in Nat \ {0}, NEW n \in Nat
  PROVE  n % H \in 0..(H - 1) /\ n \div H \in Nat /\ n = H * (n \div H) + (n % H)
  <1>1. n % H \in 0..(H - 1)
    OBVIOUS
  <1>2. n \div H \in Nat
    OBVIOUS
  <1>3. n = H * (n \div H) + (n % H)
    OBVIOUS
  <1> QED
    BY <1>1, <1>2, <1>3

\* The remainder counts up and wraps.
LEMMA ModStep ==
  ASSUME NEW H \in Nat \ {0}, NEW n \in Nat
  PROVE  (n + 1) % H = IF n % H = H - 1 THEN 0 ELSE (n % H) + 1
  <1> DEFINE k == n + 1
             q == n \div H
             r == n % H
             u == k \div H
             s == k % H
  <1>1. q \in Nat /\ r \in 0..(H - 1) /\ n = H * q + r
    BY ModRange
  <1>2. u \in Nat /\ s \in 0..(H - 1) /\ n + 1 = H * u + s
    <2>1. k \in Nat
      OBVIOUS
    <2>2. k % H \in 0..(H - 1) /\ k \div H \in Nat /\ k = H * (k \div H) + (k % H)
      <3> HIDE DEF k
      <3> QED
        BY <2>1, ModRange
    <2> QED
      BY <2>2
  <1> HIDE DEF q, r, u, s
  <1>3. H * u - H * q = r + 1 - s
    BY <1>1, <1>2
  <1>4. H * (u - q) = H * u - H * q
    BY <1>1, <1>2
  <1>5. H * (u - q) = r + 1 - s
    BY <1>3, <1>4
  <1>6. r + 1 - s \in -(H - 2) .. H
    BY <1>1, <1>2
  <1>7. u - q \in {0, 1}
    <2>1. u - q >= 2 => H * (u - q) > H
      BY <1>1, <1>2
    <2>2. u - q <= -1 => H * (u - q) <= -H
      BY <1>1, <1>2
    <2> QED
      BY <1>1, <1>2, <1>5, <1>6, <2>1, <2>2
  <1>8. CASE u - q = 0
    <2>1. s = r + 1 /\ r # H - 1
      BY <1>1, <1>2, <1>5, <1>8
    <2> QED
      BY <2>1 DEF r, s
  <1>9. CASE u - q = 1
    <2>1. H * (u - q) = H
      BY <1>9
    <2>2. r = H - 1 /\ s = 0
      BY <1>1, <1>2, <1>5, <2>1
    <2> QED
      BY <2>2 DEF r, s
  <1> QED
    BY <1>7, <1>8, <1>9
============================================================================
