--------------------------- MODULE ConsensusProofs ---------------------------
(***************************************************************************)
(* Proofs that the canonical chain of the light client obeys Bitcoin's     *)
(* rules on timestamps and difficulty, for every universe of headers and   *)
(* any width of the median window and length of an epoch.  The rules are   *)
(* about the chain; extend_blockchain checks them on locals it carries     *)
(* from account to account, so the proofs show that the locals are the     *)
(* chain's.  Then that the arithmetic of compact targets is exact, for     *)
(* every size of a byte and of a target.                                   *)
(***************************************************************************)
EXTENDS LightClientProofs, DifficultyRules

-----------------------------------------------------------------------------
(* Median time past *)

\* How many timestamps of a window are at most, and how many are below, v.
AtMost(w, v) == Cardinality({i \in DOMAIN w : w[i] <= v})
Under(w, v)  == Cardinality({i \in DOMAIN w : w[i] < v})

\* A window of timestamps.
Windows == Seq(Nat) \ {<<>>}

LEMMA WindowShape ==
  ASSUME NEW w \in Windows
  PROVE  /\ w \in Seq(Nat) /\ Len(w) \in Nat \ {0} /\ DOMAIN w = 1..Len(w)
         /\ IsFiniteSet(DOMAIN w) /\ Cardinality(DOMAIN w) = Len(w)
         /\ \A i \in DOMAIN w : w[i] \in Nat
  <1>1. w \in Seq(Nat) /\ w # <<>>
    BY DEF Windows
  <1>2. Len(w) \in Nat /\ DOMAIN w = 1..Len(w) /\ w \in [1..Len(w) -> Nat]
    BY <1>1, LenProperties
  <1>3. Len(w) # 0
    BY <1>1, EmptySeq
  <1>4. IsFiniteSet(1..Len(w)) /\ Cardinality(1..Len(w)) = Len(w)
    <2> DEFINE n == Len(w)
    <2>1. n \in Int /\ 1 \in Int /\ ~(1 > n)
      BY <1>2, <1>3
    <2>2. IsFiniteSet(1..n) /\ Cardinality(1..n) = IF 1 > n THEN 0 ELSE n - 1 + 1
      <3> HIDE DEF n
      <3> QED
        BY <2>1, FS_Interval
    <2> HIDE DEF n
    <2>3. n - 1 + 1 = n
      BY <2>1
    <2> QED
      BY <2>1, <2>2, <2>3 DEF n
  <1> QED
    BY <1>1, <1>2, <1>3, <1>4

LEMMA CountsNat ==
  ASSUME NEW w \in Windows, NEW v
  PROVE  AtMost(w, v) \in Nat /\ Under(w, v) \in Nat
  BY WindowShape, FS_Subset, FS_CardinalityType DEF AtMost, Under

\* A window's timestamps have a bound.
LEMMA WindowBound ==
  ASSUME NEW w \in Windows
  PROVE  \E c \in Nat : \A i \in DOMAIN w : w[i] <= c
  <1> DEFINE n == Len(w)
             Good == {k \in 0..n : \E c \in Nat : \A i \in 1..k : w[i] <= c}
  <1>1. n \in Nat /\ DOMAIN w = 1..n /\ \A i \in 1..n : w[i] \in Nat
    BY WindowShape
  <1>2. 0 \in Good
    BY <1>1
  <1>3. ASSUME NEW k \in 1..n, k - 1 \in Good PROVE k \in Good
    <2>1. PICK c \in Nat : \A i \in 1..(k - 1) : w[i] <= c
      BY <1>3
    <2> DEFINE d == IF c < w[k] THEN w[k] ELSE c
    <2>2. w[k] \in Nat
      BY <1>1
    <2>3. d \in Nat /\ w[k] <= d /\ c <= d
      BY <2>2
    <2> HIDE DEF d
    <2>4. ASSUME NEW i \in 1..k PROVE w[i] <= d
      <3>1. CASE i = k
        BY <2>3, <3>1
      <3>2. CASE i # k
        <4>1. i \in 1..(k - 1) /\ i \in 1..n
          BY <1>1, <3>2
        <4>2. w[i] <= c /\ w[i] \in Nat
          BY <1>1, <2>1, <4>1
        <4> QED
          BY <2>3, <4>2
      <3> QED
        BY <3>1, <3>2
    <2>5. \E e \in Nat : \A i \in 1..k : w[i] <= e
      BY <2>3, <2>4
    <2>6. k \in 0..n
      BY <1>1
    <2> QED
      BY <2>5, <2>6
  <1>4. 0..n \subseteq Good
    <2> HIDE DEF Good, n
    <2> QED
      BY <1>1, <1>2, <1>3, UpTo
  <1>5. n \in Good
    <2>1. n \in 0..n
      BY <1>1
    <2> HIDE DEF Good, n
    <2> QED
      BY <1>4, <2>1
  <1> QED
    BY <1>1, <1>5

\* The element of index n/2 of the sorted window exists: the least value that more
\* than n/2 timestamps do not exceed.
LEMMA MedianExists ==
  ASSUME NEW w \in Windows
  PROVE  \E v \in {w[i] : i \in DOMAIN w} :
           Under(w, v) <= Len(w) \div 2 /\ Len(w) \div 2 < AtMost(w, v)
  <1> DEFINE m == Len(w) \div 2
             T == {v \in Nat : m < AtMost(w, v)}
  <1>1. /\ Len(w) \in Nat \ {0} /\ Cardinality(DOMAIN w) = Len(w)
        /\ \A i \in DOMAIN w : w[i] \in Nat
    BY WindowShape
  <1>2. m \in Nat /\ m < Len(w)
    BY <1>1
  <1>3. T # {}
    <2>1. PICK c \in Nat : \A i \in DOMAIN w : w[i] <= c
      BY WindowBound
    <2>2. {i \in DOMAIN w : w[i] <= c} = DOMAIN w
      BY <2>1
    <2>3. AtMost(w, c) = Len(w)
      BY <1>1, <2>2 DEF AtMost
    <2> QED
      BY <1>2, <2>3
  <1>4. PICK v \in T : \A u \in T : v <= u
    <2>1. T \in SUBSET Nat
      OBVIOUS
    <2> HIDE DEF T
    <2> QED
      BY <1>3, <2>1, LeastNat
  <1>5. v \in Nat /\ m < AtMost(w, v)
    OBVIOUS
  <1>6. Under(w, v) <= m
    <2>1. CASE v = 0
      <3>1. {i \in DOMAIN w : w[i] < v} = {}
        BY <1>1, <2>1
      <3>2. Under(w, v) = 0
        BY <3>1, FS_EmptySet DEF Under
      <3> QED
        BY <1>2, <3>2
    <2>2. CASE v # 0
      <3>1. v - 1 \in Nat /\ ~(v <= v - 1)
        BY <1>5, <2>2
      <3>2. ~(m < AtMost(w, v - 1))
        BY <1>4, <3>1
      <3>3. {i \in DOMAIN w : w[i] < v} = {i \in DOMAIN w : w[i] <= v - 1}
        BY <1>1, <1>5
      <3>4. Under(w, v) = AtMost(w, v - 1)
        BY <3>3 DEF Under, AtMost
      <3>5. AtMost(w, v - 1) \in Nat
        BY CountsNat
      <3> HIDE DEF m
      <3> QED
        BY <1>2, <3>2, <3>4, <3>5
    <2> QED
      BY <2>1, <2>2
  <1>7. v \in {w[i] : i \in DOMAIN w}
    <2> SUFFICES ASSUME \A i \in DOMAIN w : w[i] # v PROVE FALSE
      OBVIOUS
    <2>1. {i \in DOMAIN w : w[i] <= v} = {i \in DOMAIN w : w[i] < v}
      BY <1>1, <1>5
    <2>2. AtMost(w, v) = Under(w, v)
      BY <2>1 DEF Under, AtMost
    <2>3. AtMost(w, v) \in Nat
      BY CountsNat
    <2> HIDE DEF m
    <2> QED
      BY <1>2, <1>5, <1>6, <2>2, <2>3
  <1> QED
    BY <1>5, <1>6, <1>7

\* What MedianTimestamp returns.
LEMMA MedianIs ==
  ASSUME NEW w \in Windows
  PROVE  /\ MedianTimestamp(w) \in Nat
         /\ Under(w, MedianTimestamp(w)) <= Len(w) \div 2
         /\ Len(w) \div 2 < AtMost(w, MedianTimestamp(w))
  <1> DEFINE Is(v) == Under(w, v) <= Len(w) \div 2 /\ Len(w) \div 2 < AtMost(w, v)
  <1>1. MedianTimestamp(w) = CHOOSE v \in {w[i] : i \in DOMAIN w} : Is(v)
    BY DEF MedianTimestamp, Under, AtMost
  <1>2. \E v \in {w[i] : i \in DOMAIN w} : Is(v)
    BY MedianExists
  <1> HIDE DEF Is
  <1>3. MedianTimestamp(w) \in {w[i] : i \in DOMAIN w} /\ Is(MedianTimestamp(w))
    BY <1>1, <1>2
  <1>4. MedianTimestamp(w) \in Nat
    BY <1>3, WindowShape
  <1> QED
    BY <1>3, <1>4 DEF Is

\* The window after one more timestamp.
LEMMA SlideShape ==
  ASSUME NEW w \in Windows, NEW t \in Nat, NEW width \in Nat \ {0}
  PROVE  LET s == Slide(w, t, width)
             n == Len(w)
         IN  /\ s \in Windows
             /\ n < width =>
                  /\ Len(s) = n + 1 /\ s[n + 1] = t
                  /\ \A i \in 1..n : s[i] = w[i]
             /\ n >= width =>
                  /\ Len(s) = n /\ s[n] = t
                  /\ \A i \in 1..(n - 1) : s[i] = w[i + 1]
  <1> DEFINE n == Len(w)
             s == Slide(w, t, width)
             u == Tail(w)
  <1>1. w \in Seq(Nat) /\ w # <<>> /\ n \in Nat \ {0}
    BY WindowShape DEF Windows
  <1>2. CASE n < width
    <2>1. s = Append(w, t)
      BY <1>2 DEF Slide
    <2>2. /\ s \in Seq(Nat) /\ s # <<>> /\ Len(s) = n + 1 /\ s[n + 1] = t
          /\ \A i \in 1..n : s[i] = w[i]
      BY <1>1, <2>1, AppendProperties
    <2>3. ~(n >= width)
      BY <1>1, <1>2
    <2> HIDE DEF s, n
    <2>4. s \in Windows
      BY <2>2 DEF Windows
    <2> QED
      BY <2>2, <2>3, <2>4 DEF s, n
  <1>3. CASE ~(n < width)
    <2>1. s = Append(u, t)
      BY <1>3 DEF Slide
    <2>2. /\ u \in Seq(Nat) /\ Len(u) = n - 1
          /\ \A i \in 1..(n - 1) : u[i] = w[i + 1]
      BY <1>1, HeadTailProperties
    <2> HIDE DEF u
    <2>3. /\ s \in Seq(Nat) /\ s # <<>> /\ Len(s) = (n - 1) + 1 /\ s[(n - 1) + 1] = t
          /\ \A i \in 1..(n - 1) : s[i] = u[i]
      BY <2>1, <2>2, AppendProperties
    <2>4. (n - 1) + 1 = n
      BY <1>1
    <2> HIDE DEF s, n
    <2>5. s \in Windows
      BY <2>3 DEF Windows
    <2> QED
      BY <1>3, <2>2, <2>3, <2>4, <2>5 DEF s, n
  <1> QED
    BY <1>2, <1>3

\* A timestamp past the median never lowers the median, whether or not the oldest one
\* leaves the window.
LEMMA MedianClimbs ==
  ASSUME NEW w \in Windows, NEW t \in Nat, NEW width \in Nat \ {0},
         t > MedianTimestamp(w)
  PROVE  MedianTimestamp(Slide(w, t, width)) >= MedianTimestamp(w)
  <1> DEFINE s == Slide(w, t, width)
             n == Len(w)
             m == MedianTimestamp(w)
             k == MedianTimestamp(s)
             F(x, v) == {i \in DOMAIN x : x[i] < v}
  <1>1. /\ s \in Windows
        /\ n < width => Len(s) = n + 1 /\ s[n + 1] = t /\ \A i \in 1..n : s[i] = w[i]
        /\ n >= width => Len(s) = n /\ s[n] = t /\ \A i \in 1..(n - 1) : s[i] = w[i + 1]
    BY SlideShape
  <1> HIDE DEF s
  <1>2. /\ m \in Nat /\ Under(w, m) <= n \div 2
        /\ k \in Nat /\ Len(s) \div 2 < AtMost(s, k)
    BY <1>1, MedianIs
  <1>3. /\ n \in Nat \ {0} /\ DOMAIN w = 1..n /\ IsFiniteSet(DOMAIN w)
        /\ \A i \in 1..n : w[i] \in Nat
    BY WindowShape
  <1>4. /\ Len(s) \in Nat /\ DOMAIN s = 1..Len(s) /\ IsFiniteSet(DOMAIN s)
        /\ \A i \in DOMAIN s : s[i] \in Nat
    BY <1>1, WindowShape
  <1>5. n < width \/ n >= width
    BY <1>3
  <1>6. Len(s) \in {n, n + 1}
    BY <1>1, <1>5
  <1>7. t \in Int /\ ~(t < m)
    BY <1>2
  <1>8. IsFiniteSet(F(w, m)) /\ IsFiniteSet(F(s, m))
    BY <1>3, <1>4, FS_Subset
  <1>9. Cardinality(F(s, m)) <= Cardinality(F(w, m))
    <2>1. CASE n < width
      <3>1. F(s, m) \subseteq F(w, m)
        <4> SUFFICES ASSUME NEW i \in DOMAIN s, s[i] < m PROVE i \in DOMAIN w /\ w[i] < m
          OBVIOUS
        <4>1. i \in 1..(n + 1)
          BY <1>1, <1>4, <2>1
        <4>2. i # n + 1
          BY <1>1, <1>7, <2>1
        <4>3. i \in 1..n
          BY <1>3, <4>1, <4>2
        <4> QED
          BY <1>1, <1>3, <2>1, <4>3
      <3> HIDE DEF F
      <3> QED
        BY <1>8, <3>1, FS_Subset
    <2>2. CASE n >= width
      <3> DEFINE f == [i \in F(s, m) |-> i + 1]
      <3>1. ASSUME NEW i \in F(s, m) PROVE i \in Int /\ i + 1 \in F(w, m)
        <4>1. i \in 1..n /\ s[i] < m
          BY <1>1, <1>4, <2>2
        <4>2. i # n
          BY <1>1, <1>7, <2>2, <4>1
        <4>3. i \in 1..(n - 1) /\ i + 1 \in 1..n
          BY <1>3, <4>1, <4>2
        <4>4. s[i] = w[i + 1]
          BY <1>1, <2>2, <4>3
        <4> QED
          BY <1>3, <4>1, <4>3, <4>4
      <3>2. f \in Injection(F(s, m), F(w, m))
        <4>1. f \in [F(s, m) -> F(w, m)]
          BY <3>1
        <4>2. \A i, j \in F(s, m) : f[i] = f[j] => i = j
          <5>1. \A i, j \in Int : i + 1 = j + 1 => i = j
            OBVIOUS
          <5> HIDE DEF F
          <5> QED
            BY <3>1, <5>1
        <4> HIDE DEF f, F
        <4> QED
          BY <4>1, <4>2 DEF Injection, IsInjective
      <3> HIDE DEF f, F
      <3> QED
        BY <1>8, <3>2, FS_Injection
    <2> QED
      BY <1>5, <2>1, <2>2
  <1> SUFFICES ASSUME ~(k >= m) PROVE FALSE
    BY DEF s
  <1>10. AtMost(s, k) <= Cardinality(F(s, m))
    <2>1. {i \in DOMAIN s : s[i] <= k} \subseteq F(s, m)
      BY <1>2, <1>4
    <2> QED
      BY <1>8, <2>1, FS_Subset DEF AtMost
  <1>11. Under(w, m) = Cardinality(F(w, m)) /\ Under(w, m) \in Nat /\ AtMost(s, k) \in Nat
    BY <1>1, CountsNat DEF Under
  <1>12. Cardinality(F(s, m)) \in Nat
    BY <1>8, FS_CardinalityType
  <1>13. n \div 2 <= Len(s) \div 2 /\ n \div 2 \in Int /\ Len(s) \div 2 \in Int
    <2> HIDE DEF n
    <2> QED
      BY <1>3, <1>6
  <1> DEFINE a == n \div 2
             b == Len(s) \div 2
             c == Cardinality(F(s, m))
             d == Under(w, m)
             e == AtMost(s, k)
  <1>14. /\ a \in Int /\ b \in Int /\ c \in Int /\ d \in Int /\ e \in Int
         /\ a <= b /\ b < e /\ e <= c /\ c <= d /\ d <= a
    BY <1>2, <1>9, <1>10, <1>11, <1>12, <1>13
  <1> HIDE DEF a, b, c, d, e
  <1> QED
    BY <1>14

\* The window of the last MtpWidth of the timestamps T[start..h].
Low(start, h) == Larger(start, h - MtpWidth + 1)
Span(T, start, h) == [i \in 1..(h - Low(start, h) + 1) |-> T[Low(start, h) + i - 1]]

LEMMA SpanShape ==
  ASSUME NEW T, NEW start \in Nat, NEW h \in Nat, start <= h,
         \A k \in start..h : T[k] \in Nat
  PROVE  /\ Low(start, h) \in start..h
         /\ Span(T, start, h) \in Windows
         /\ Len(Span(T, start, h)) = h - Low(start, h) + 1
  <1> DEFINE low == Low(start, h)
             n == h - low + 1
             s == Span(T, start, h)
  <1>1. MtpWidth \in Nat \ {0}
    BY LightClientAssumption DEF LightClientAssumption
  <1>2. low \in start..h
    BY <1>1 DEF Low, Larger
  <1> HIDE DEF low
  <1>3. n \in Nat \ {0}
    BY <1>2
  <1>4. s = [i \in 1..n |-> T[low + i - 1]]
    BY DEF Span, low
  <1>5. \A i \in 1..n : T[low + i - 1] \in Nat
    <2>1. \A i \in 1..n : low + i - 1 \in start..h
      BY <1>2
    <2> QED
      BY <2>1
  <1> HIDE DEF n, s
  <1>6. s \in [1..n -> Nat]
    BY <1>4, <1>5
  <1>7. s \in Seq(Nat)
    BY <1>3, <1>6, SeqDef
  <1>8. Len(s) = n
    BY <1>3, <1>6, <1>7, LenProperties
  <1>9. s # <<>>
    BY <1>3, <1>8, EmptySeq
  <1> QED
    BY <1>2, <1>7, <1>8, <1>9 DEF Windows, n, s, low

\* Windows over the same timestamps are the same.
LEMMA SpanAgree ==
  ASSUME NEW T, NEW U, NEW start \in Nat, NEW h \in Nat, start <= h,
         \A k \in start..h : T[k] = U[k]
  PROVE  Span(T, start, h) = Span(U, start, h)
  <1> DEFINE low == Low(start, h)
             n == h - low + 1
  <1>1. MtpWidth \in Nat \ {0}
    BY LightClientAssumption DEF LightClientAssumption
  <1>2. low \in start..h
    BY <1>1 DEF Low, Larger
  <1>3. Span(T, start, h) = [i \in 1..n |-> T[low + i - 1]]
    BY DEF Span
  <1>4. Span(U, start, h) = [i \in 1..n |-> U[low + i - 1]]
    BY DEF Span
  <1> HIDE DEF low
  <1>5. \A i \in 1..n : low + i - 1 \in start..h
    BY <1>2
  <1>6. \A i \in 1..n : T[low + i - 1] = U[low + i - 1]
    BY <1>5
  <1> HIDE DEF n
  <1> QED
    BY <1>3, <1>4, <1>6

\* One block further the window slides by one timestamp.
LEMMA SpanSlides ==
  ASSUME NEW T, NEW start \in Nat, NEW h \in Nat, start < h,
         \A k \in start..h : T[k] \in Nat
  PROVE  Span(T, start, h) = Slide(Span(T, start, h - 1), T[h], MtpWidth)
  <1> DEFINE w == Span(T, start, h - 1)
             x == Span(T, start, h)
             s == Slide(w, T[h], MtpWidth)
             low == Low(start, h - 1)
             top == Low(start, h)
             n == Len(w)
  <1>0. MtpWidth \in Nat \ {0}
    BY LightClientAssumption DEF LightClientAssumption
  <1>1. h - 1 \in Nat /\ start <= h - 1 /\ T[h] \in Nat /\ \A k \in start..(h - 1) : T[k] \in Nat
    OBVIOUS
  <1>2. low \in start..(h - 1) /\ w \in Windows /\ n = (h - 1) - low + 1
    <2> DEFINE g == h - 1
    <2>1. g \in Nat /\ start <= g /\ \A k \in start..g : T[k] \in Nat
      BY <1>1
    <2> HIDE DEF g
    <2>2. Low(start, g) \in start..g /\ Span(T, start, g) \in Windows
          /\ Len(Span(T, start, g)) = g - Low(start, g) + 1
      BY <2>1, SpanShape
    <2> QED
      BY <2>2 DEF g
  <1>3. top \in start..h /\ x \in Windows /\ Len(x) = h - top + 1
    BY SpanShape
  <1>4. \A i \in 1..(h - top + 1) : x[i] = T[top + i - 1]
    BY DEF Span
  <1>5. \A i \in 1..((h - 1) - low + 1) : w[i] = T[low + i - 1]
    BY DEF Span
  <1>6. /\ s \in Windows
        /\ n < MtpWidth => Len(s) = n + 1 /\ s[n + 1] = T[h] /\ \A i \in 1..n : s[i] = w[i]
        /\ n >= MtpWidth => Len(s) = n /\ s[n] = T[h] /\ \A i \in 1..(n - 1) : s[i] = w[i + 1]
    <2> HIDE DEF w
    <2> QED
      BY <1>0, <1>1, <1>2, SlideShape
  <1>7. \/ n < MtpWidth /\ top = low
        \/ n >= MtpWidth /\ top = low + 1
    <2>1. low = IF start < (h - 1) - MtpWidth + 1 THEN (h - 1) - MtpWidth + 1 ELSE start
      BY DEF Low, Larger
    <2>2. top = IF start < h - MtpWidth + 1 THEN h - MtpWidth + 1 ELSE start
      BY DEF Low, Larger
    <2> HIDE DEF low, top, n
    <2> QED
      BY <1>0, <1>2, <2>1, <2>2
  <1> HIDE DEF w, x, s, low, top, n
  <1>8. Len(s) = Len(x)
    BY <1>2, <1>3, <1>6, <1>7
  <1>9. ASSUME NEW i \in 1..Len(x) PROVE s[i] = x[i]
    <2>1. i \in 1..(h - top + 1) /\ x[i] = T[top + i - 1]
      BY <1>3, <1>4
    <2>2. CASE n < MtpWidth /\ top = low
      <3>1. i \in 1..(n + 1) /\ n + 1 = h - top + 1 /\ n \in Int
        BY <1>2, <1>3, <2>1, <2>2
      <3>2. CASE i = n + 1
        <4>1. top + i - 1 = h
          BY <1>3, <3>1, <3>2
        <4> QED
          BY <1>6, <2>1, <2>2, <3>2, <4>1
      <3>3. CASE i # n + 1
        <4>1. i \in 1..n /\ i \in 1..((h - 1) - low + 1)
          BY <1>2, <3>1, <3>3
        <4> QED
          BY <1>5, <1>6, <2>1, <2>2, <4>1
      <3> QED
        BY <3>2, <3>3
    <2>3. CASE n >= MtpWidth /\ top = low + 1
      <3>1. i \in 1..n /\ n = h - top + 1 /\ n \in Int
        BY <1>2, <1>3, <2>1, <2>3
      <3>2. CASE i = n
        <4>1. top + i - 1 = h
          BY <1>3, <3>1, <3>2
        <4> QED
          BY <1>6, <2>1, <2>3, <3>2, <4>1
      <3>3. CASE i # n
        <4>1. i \in 1..(n - 1) /\ i + 1 \in 1..((h - 1) - low + 1)
          BY <1>2, <3>1, <3>3
        <4>2. low + (i + 1) - 1 = top + i - 1
          BY <1>2, <2>3, <4>1
        <4>3. w[i + 1] = T[low + (i + 1) - 1]
          BY <1>5, <4>1
        <4> QED
          BY <1>6, <2>1, <2>3, <4>1, <4>2, <4>3
      <3> QED
        BY <3>2, <3>3
    <2> QED
      BY <1>7, <2>2, <2>3
  <1>10. s = x
    <2>1. s \in Seq(Nat) /\ x \in Seq(Nat)
      BY <1>3, <1>6 DEF Windows
    <2>2. s \in [1..Len(s) -> Nat] /\ x \in [1..Len(x) -> Nat]
      BY <2>1, LenProperties
    <2> QED
      BY <1>8, <1>9, <2>2
  <1> QED
    BY <1>10 DEF s, x, w

\* A new chain instance starts without a stored ancestor: initialize stores none with the
\* anchor and reinitialize is given none.
AnchorsRooted == \A a \in Anchors : a.prev = NoBlock
RootedInv == lc # NoClient => headers[lc.genesis].prev = NoBlock

\* The timestamps the index names.
CanonTimes == [h \in Height |-> headers[heightIndex[h]].time]

\* The canonical block at a height, as extend_blockchain's window walks over it.
LEMMA CanonicalStep ==
  ASSUME ChainInv, lc # NoClient, NEW h \in Start..lc.height
  PROVE  /\ h \in Height /\ Start \in Height /\ lc.height \in Height
         /\ heightIndex[h] \in Block /\ Stored(heightIndex[h]) /\ Live(heightIndex[h])
         /\ headers[heightIndex[h]].height = h
         /\ headers[heightIndex[h]].time \in Nat
         /\ heightIndex[h] = lc.genesis <=> h = Start
         /\ h > Start =>
              /\ headers[heightIndex[h]].prev = heightIndex[h - 1]
              /\ headers[heightIndex[h]].time = Time[heightIndex[h]]
  <1>1. /\ InstanceInv /\ lc \in Client /\ heightIndex[Start] = lc.genesis
        /\ \A k \in (Start + 1)..lc.height : Prev[heightIndex[k]] = heightIndex[k - 1]
    BY DEF ChainInv, TypeOK, IndexIsAncestry, Start
  <1>2. Live(heightIndex[h]) /\ headers[heightIndex[h]].height = h
    BY <1>1 DEF InstanceInv, CanonLive
  <1>3. heightIndex[h] \in Block /\ Stored(heightIndex[h]) /\ headers[heightIndex[h]] \in Header
    BY <1>2 DEF Live, Stored, ChainInv, TypeOK
  <1>4. h \in Height /\ headers[heightIndex[h]].time \in Nat
    BY <1>2, <1>3 DEF Header
  <1>5. lc.height \in Height /\ Start \in Height
    <2>1. headers[lc.genesis] \in Header
      BY <1>1 DEF InstanceInv, Live, ChainInv, TypeOK
    <2> QED
      BY <1>1, <2>1 DEF Client, Header, Start
  <1>6. heightIndex[h] = lc.genesis <=> h = Start
    BY <1>1, <1>2 DEF Start
  <1>7. ASSUME h > Start
        PROVE  /\ headers[heightIndex[h]].prev = heightIndex[h - 1]
               /\ headers[heightIndex[h]].time = Time[heightIndex[h]]
    <2>1. h \in (Start + 1)..lc.height /\ h # Start
      BY <1>4, <1>5, <1>7 DEF Height
    <2>2. /\ headers[heightIndex[h]].prev = Prev[heightIndex[h]]
          /\ headers[heightIndex[h]].time = Time[heightIndex[h]]
      BY <1>1, <1>2, <1>3, <1>6, <2>1 DEF InstanceInv, LiveWell
    <2> QED
      BY <1>1, <2>1, <2>2
  <1> QED
    BY <1>2, <1>3, <1>4, <1>5, <1>6, <1>7

\* The ancestors of a canonical block are the canonical blocks below it.
UpChain(p, f) ==
  f = [k \in 0..(MtpWidth - 1) |->
         IF k = 0 THEN p
         ELSE IF Stored(f[k - 1]) THEN headers[f[k - 1]].prev ELSE NoBlock]

LEMMA AncestorsAre ==
  ASSUME ChainInv, RootedInv, lc # NoClient, NEW p, NEW hp \in Start..lc.height,
         heightIndex[hp] = p
  PROVE  \A k \in 0..(MtpWidth - 1) :
           AncestorsOf(p)[k] = IF k <= hp - Start THEN heightIndex[hp - k] ELSE NoBlock
  <1> DEFINE up == AncestorsOf(p)
             f == [k \in 0..(MtpWidth - 1) |->
                     IF k <= hp - Start THEN heightIndex[hp - k] ELSE NoBlock]
  <1>1. MtpWidth \in Nat \ {0} /\ NoBlock \notin Block
    BY LightClientAssumption DEF LightClientAssumption
  <1>2. hp \in Nat /\ Start \in Nat /\ lc.height \in Nat
    BY CanonicalStep DEF Height
  <1>3. ASSUME NEW k \in 1..(MtpWidth - 1)
        PROVE  f[k] = IF Stored(f[k - 1]) THEN headers[f[k - 1]].prev ELSE NoBlock
    <2>1. k - 1 \in 0..(MtpWidth - 1) /\ k \in 0..(MtpWidth - 1) /\ k \in Nat
      BY <1>1
    <2>2. CASE k <= hp - Start
      <3> DEFINE h == hp - (k - 1)
      <3>1. h \in Start..lc.height /\ h > Start /\ h - 1 = hp - k /\ k - 1 <= hp - Start
        BY <1>2, <2>1, <2>2
      <3>2. f[k] = heightIndex[hp - k] /\ f[k - 1] = heightIndex[h]
        BY <2>1, <2>2, <3>1
      <3> HIDE DEF h, f
      <3>3. Stored(heightIndex[h]) /\ headers[heightIndex[h]].prev = heightIndex[h - 1]
        BY <3>1, CanonicalStep
      <3> QED
        BY <3>1, <3>2, <3>3
    <2>3. CASE ~(k <= hp - Start) /\ k - 1 <= hp - Start
      <3>1. k - 1 = hp - Start /\ hp - (k - 1) = Start
        BY <1>2, <2>1, <2>3
      <3>2. f[k] = NoBlock /\ f[k - 1] = heightIndex[Start]
        BY <2>1, <2>3, <3>1
      <3>3. heightIndex[Start] = lc.genesis
        BY DEF ChainInv, IndexIsAncestry, Start
      <3> HIDE DEF f
      <3> QED
        BY <3>2, <3>3 DEF RootedInv
    <2>4. CASE ~(k <= hp - Start) /\ ~(k - 1 <= hp - Start)
      <3>1. f[k] = NoBlock /\ f[k - 1] = NoBlock
        BY <2>1, <2>4
      <3>2. ~Stored(NoBlock)
        BY <1>1 DEF Stored
      <3> HIDE DEF f
      <3> QED
        BY <3>1, <3>2
    <2> QED
      BY <2>2, <2>3, <2>4
  <1>4. f[0] = p /\ 0 \in 0..(MtpWidth - 1)
    BY <1>1, <1>2
  <1>5. UpChain(p, f)
    <2>1. f = [k \in 0..(MtpWidth - 1) |-> f[k]]
      OBVIOUS
    <2>2. \A k \in 0..(MtpWidth - 1) : k = 0 \/ k \in 1..(MtpWidth - 1)
      BY <1>1
    <2> HIDE DEF f
    <2> QED
      BY <1>3, <1>4, <2>1, <2>2 DEF UpChain
  <1>6. up = CHOOSE g : UpChain(p, g)
    BY DEF AncestorsOf, UpChain
  <1> HIDE DEF up
  <1>7. UpChain(p, up)
    BY <1>5, <1>6
  <1>8. up[0] = p /\ \A k \in 1..(MtpWidth - 1) :
          up[k] = IF Stored(up[k - 1]) THEN headers[up[k - 1]].prev ELSE NoBlock
    BY <1>1, <1>7 DEF UpChain
  <1> DEFINE Good == {k \in 0..(MtpWidth - 1) : up[k] = f[k]}
  <1>9. 0..(MtpWidth - 1) \subseteq Good
    <2>1. 0 \in Good
      BY <1>4, <1>8
    <2>2. ASSUME NEW k \in 1..(MtpWidth - 1), k - 1 \in Good PROVE k \in Good
      <3>1. up[k - 1] = f[k - 1] /\ k \in 0..(MtpWidth - 1)
        BY <1>1, <2>2
      <3> HIDE DEF f
      <3> QED
        BY <1>3, <1>8, <3>1
    <2>3. MtpWidth - 1 \in Nat
      BY <1>1
    <2> HIDE DEF Good
    <2> QED
      BY <2>1, <2>2, <2>3, UpTo
  <1> QED
    BY <1>9 DEF up

\* The window a submitter supplies for a canonical parent is the canonical one, full or
\* ending at the anchor.
LEMMA ParentWindow ==
  ASSUME ChainInv, RootedInv, lc # NoClient, Enforced(lc.network),
         NEW p, NEW hp \in Start..lc.height, heightIndex[hp] = p,
         NEW window \in MtpWindows(p)
  PROVE  window = Span(CanonTimes, Start, hp)
  <1> DEFINE up == AncestorsOf(p)
             W == MtpWidth - 1
  <1>1. MtpWidth \in Nat \ {0} /\ NoBlock \notin Block
    BY LightClientAssumption DEF LightClientAssumption
  <1>2. hp \in Nat /\ Start \in Nat /\ lc.height \in Nat /\ Start <= hp /\ hp <= lc.height
    BY CanonicalStep DEF Height
  <1>3. PICK k \in 0..W :
          /\ \A j \in 0..k : Stored(up[j])
          /\ k = W \/ up[k] = lc.genesis
          /\ window = [i \in 1..(k + 1) |-> headers[up[k + 1 - i]].time]
    BY DEF MtpWindows
  <1>4. \A j \in 0..W : up[j] = IF j <= hp - Start THEN heightIndex[hp - j] ELSE NoBlock
    BY AncestorsAre
  <1> HIDE DEF up
  <1>5. k \in Nat /\ k <= hp - Start
    <2>1. ~Stored(NoBlock)
      BY <1>1 DEF Stored
    <2>2. k \in 0..k /\ k \in Nat
      BY <1>1
    <2>3. Stored(up[k])
      BY <1>3, <2>2
    <2> QED
      BY <1>4, <2>1, <2>2, <2>3
  <1>6. hp - k = Low(Start, hp)
    <2>1. up[k] = heightIndex[hp - k]
      BY <1>4, <1>5
    <2>2. hp - k \in Start..lc.height
      BY <1>2, <1>5
    <2>3. k = W \/ hp - k = Start
      <3> DEFINE h == hp - k
      <3>1. h \in Start..lc.height /\ (k = W \/ heightIndex[h] = lc.genesis)
        BY <1>3, <2>1, <2>2
      <3> HIDE DEF h
      <3>2. heightIndex[h] = lc.genesis => h = Start
        BY <3>1, CanonicalStep
      <3> QED
        BY <3>1, <3>2 DEF h
    <2>4. k <= W
      BY <1>1
    <2>5. Low(Start, hp) = IF Start < hp - MtpWidth + 1 THEN hp - MtpWidth + 1 ELSE Start
      BY DEF Low, Larger
    <2> QED
      BY <1>1, <1>2, <1>5, <2>3, <2>4, <2>5
  <1> DEFINE low == Low(Start, hp)
  <1>7. hp - low + 1 = k + 1 /\ low \in Int
    BY <1>2, <1>5, <1>6
  <1>8. Span(CanonTimes, Start, hp) = [i \in 1..(hp - low + 1) |-> CanonTimes[low + i - 1]]
    BY DEF Span
  <1>9. ASSUME NEW i \in 1..(k + 1)
        PROVE  headers[up[k + 1 - i]].time = CanonTimes[low + i - 1]
    <2>1. k + 1 - i \in 0..W /\ k + 1 - i <= hp - Start /\ hp - (k + 1 - i) = low + i - 1
      BY <1>1, <1>2, <1>5, <1>6
    <2>2. up[k + 1 - i] = heightIndex[low + i - 1]
      BY <1>4, <2>1
    <2>3. low + i - 1 \in Start..lc.height
      BY <1>2, <1>5, <1>6
    <2>4. low + i - 1 \in Height
      <3> DEFINE h == low + i - 1
      <3>1. h \in Start..lc.height
        BY <2>3
      <3> HIDE DEF h
      <3>2. h \in Height
        BY <3>1, CanonicalStep
      <3> QED
        BY <3>2 DEF h
    <2> QED
      BY <2>2, <2>4 DEF CanonTimes
  <1> HIDE DEF low
  <1> QED
    BY <1>3, <1>7, <1>8, <1>9

\* The locals of the loop, as far as median time past is concerned.
LEMMA RunWindows ==
  ASSUME TypeOK, lc # NoClient, Enforced(lc.network), NEW p, NEW batch \in Batches,
         NEW window \in Windows
  PROVE  \A i \in 0..Len(batch) : RunOf(p, batch, window)[i].window \in Windows
  <1> DEFINE run == RunOf(p, batch, window)
             n == Len(batch)
             Good == {i \in 0..n : run[i].window \in Windows}
  <1>1. n \in Nat /\ \A i \in 1..n : batch[i] \in Block
    BY BatchShape
  <1>2. /\ run[0] = StartRun(p, window)
        /\ \A i \in 1..n : run[i] = Advance(run[i - 1], batch[i], headers[p].height + i)
    BY RunSteps
  <1> HIDE DEF run, n
  <1>3. 0 \in Good
    <2>1. run[0].window = window
      BY <1>2 DEF StartRun
    <2> QED
      BY <1>1, <2>1
  <1>4. ASSUME NEW i \in 1..n, i - 1 \in Good PROVE i \in Good
    <2> DEFINE old == run[i - 1]
               new == run[i]
               win == old.window
               t == Time[batch[i]]
    <2>1. new = Advance(old, batch[i], headers[p].height + i)
      BY <1>2
    <2>2. win \in Windows /\ t \in Nat /\ MtpWidth \in Nat \ {0}
      BY <1>1, <1>4, LightClientAssumption DEF LightClientAssumption
    <2>3. new.window \in Windows
      <3> HIDE DEF old, new
      <3>1. new.window = Slide(win, t, MtpWidth)
        BY <2>1 DEF Advance
      <3> HIDE DEF win, t
      <3>2. Slide(win, t, MtpWidth) \in Windows
        BY <2>2, SlideShape
      <3> QED
        BY <3>1, <3>2
    <2>4. i \in 0..n
      BY <1>1
    <2> QED
      BY <2>3, <2>4
  <1>5. 0..n \subseteq Good
    <2> HIDE DEF Good
    <2> QED
      BY <1>1, <1>3, <1>4, UpTo
  <1> QED
    BY <1>5 DEF run, n

LEMMA WindowsOffered ==
  ASSUME TypeOK, lc # NoClient, Enforced(lc.network), NEW p, NEW window \in MtpWindows(p)
  PROVE  window \in Windows
  <1> DEFINE up == AncestorsOf(p)
  <1>1. PICK k \in 0..(MtpWidth - 1) :
          /\ \A j \in 0..k : Stored(up[j])
          /\ window = [i \in 1..(k + 1) |-> headers[up[k + 1 - i]].time]
    BY DEF MtpWindows
  <1> HIDE DEF up
  <1>2. k \in Nat
    BY LightClientAssumption DEF LightClientAssumption
  <1>3. ASSUME NEW i \in 1..(k + 1) PROVE headers[up[k + 1 - i]].time \in Nat
    <2>1. Stored(up[k + 1 - i])
      BY <1>1, <1>2
    <2>2. headers[up[k + 1 - i]] \in Header
      BY <2>1 DEF Stored, TypeOK
    <2> QED
      BY <2>2 DEF Header
  <1>4. window \in [1..(k + 1) -> Nat] /\ k + 1 \in Nat \ {0}
    BY <1>1, <1>2, <1>3
  <1>5. window \in Seq(Nat)
    BY <1>4, SeqDef
  <1>6. Len(window) = k + 1
    BY <1>4, <1>5, LenProperties
  <1>7. window # <<>>
    BY <1>4, <1>6, EmptySeq
  <1> QED
    BY <1>5, <1>7 DEF Windows

\* The window of MedianAt, over any headers D and index X.
LEMMA MedianSpan ==
  ASSUME NEW D, NEW X, NEW start \in Height, NEW h \in Height, start <= h
  PROVE  [i \in 1..(h - Low(start, h) + 1) |-> D[X[Low(start, h) + i - 1]].time]
           = Span([k \in Height |-> D[X[k]].time], start, h)
  <1> DEFINE low == Low(start, h)
             T == [k \in Height |-> D[X[k]].time]
  <1>1. MtpWidth \in Nat \ {0} /\ MaxHeight \in Nat
    BY LightClientAssumption DEF LightClientAssumption
  <1>2. low \in start..h /\ start \in Nat /\ h \in Nat
    BY <1>1 DEF Low, Larger, Height
  <1>3. Span(T, start, h) = [i \in 1..(h - low + 1) |-> T[low + i - 1]]
    BY DEF Span
  <1> HIDE DEF low
  <1>4. \A i \in 1..(h - low + 1) : low + i - 1 \in Height
    BY <1>1, <1>2 DEF Height
  <1>5. \A i \in 1..(h - low + 1) : T[low + i - 1] = D[X[low + i - 1]].time
    BY <1>4
  <1> HIDE DEF T
  <1> QED
    BY <1>3, <1>5 DEF low, T

\* Medians, and how a promoted batch changes the timestamps that the index names.
MediansAre(T, start, tip) ==
  \A h \in (start + 1)..tip :
    MedianTimestamp(Span(T, start, h)) >= MedianTimestamp(Span(T, start, h - 1))

PromotedTimes(T, p, batch) ==
  LET hp == headers[p].height
  IN  /\ \A h \in Start..hp : T[h] = CanonTimes[h]
      /\ \A i \in 1..Len(batch) : T[hp + i] = Time[batch[i]]
      /\ \A h \in Start..(hp + Len(batch)) : T[h] \in Nat

LEMMA TimesPromoted ==
  ASSUME ChainInv, HashChain, RegtestOnce, NEW p, NEW batch, NEW window,
         Extends(p, batch, window), HeadersKept(p, batch),
         headers[p].height <= lc.height, headers[p].height + Len(batch) \in Height,
         heightIndex' = IndexAfter(p, batch)
  PROVE  PromotedTimes(CanonTimes', p, batch)
  <1> DEFINE n == Len(batch)
             hp == headers[p].height
             T == CanonTimes'
  <1>1. /\ p \in Block /\ batch \in Batches /\ lc # NoClient /\ InstanceInv
        /\ hp \in Height /\ Start \in Height /\ Start <= hp
    BY ParentLemma
  <1>2. n \in Nat \ {0} /\ MaxHeight \in Nat /\ \A i \in 1..n : batch[i] \in Block
    BY <1>1, BatchShape, LightClientAssumption DEF LightClientAssumption
  <1>3. \A h \in Height : T[h] = headers'[heightIndex'[h]].time
    BY DEF CanonTimes
  <1> HIDE DEF T
  <1>4. ASSUME NEW h \in Start..hp PROVE T[h] = CanonTimes[h] /\ T[h] \in Nat
    <2>1. h \in Start..lc.height
      <3>1. lc.height \in Int /\ hp \in Int /\ Start \in Int
        BY <1>1 DEF ChainInv, TypeOK, Client, Height
      <3> HIDE DEF hp
      <3> QED
        BY <3>1 DEF hp
    <2>2. h \in Height /\ Live(heightIndex[h]) /\ heightIndex[h] \in Block
          /\ headers[heightIndex[h]].time \in Nat
      BY <1>1, <2>1, CanonicalStep
    <2>3. heightIndex'[h] = heightIndex[h]
      <3>1. heightIndex'[h] = IF h \in (hp + 1)..(hp + n) THEN batch[h - hp] ELSE heightIndex[h]
        BY <2>2 DEF IndexAfter
      <3>2. h \notin (hp + 1)..(hp + n)
        <4>1. hp \in Int /\ h \in Int /\ h <= hp
          BY <1>1, <2>2 DEF Height
        <4> HIDE DEF hp, n
        <4> QED
          BY <1>2, <4>1
      <3> HIDE DEF hp, n
      <3> QED
        BY <3>1, <3>2
    <2>4. headers'[heightIndex[h]].time = headers[heightIndex[h]].time
      BY <2>2 DEF HeadersKept
    <2> QED
      BY <1>3, <2>2, <2>3, <2>4 DEF CanonTimes
  <1>5. ASSUME NEW i \in 1..n PROVE T[hp + i] = Time[batch[i]] /\ T[hp + i] \in Nat
    <2> DEFINE h == hp + i
    <2>1. h \in Height /\ h \in (hp + 1)..(hp + n) /\ h - hp = i
      <3>1. hp \in Int /\ hp \in 0..MaxHeight /\ hp + n \in 0..MaxHeight
        BY <1>1 DEF Height
      <3> HIDE DEF hp, n
      <3> QED
        BY <1>2, <3>1 DEF Height
    <2>2. heightIndex'[h] = IF h \in (hp + 1)..(hp + n) THEN batch[h - hp] ELSE heightIndex[h]
      BY <2>1 DEF IndexAfter
    <2> HIDE DEF h
    <2>3. heightIndex'[h] = batch[i]
      BY <2>1, <2>2
    <2>4. headers'[batch[i]].time = Time[batch[i]]
      BY DEF HeadersKept
    <2>5. Time[batch[i]] \in Nat
      BY <1>2, LightClientAssumption DEF LightClientAssumption
    <2>6. T[h] = Time[batch[i]]
      BY <1>3, <2>1, <2>3, <2>4
    <2> QED
      BY <2>5, <2>6 DEF h
  <1>6. ASSUME NEW h \in Start..(hp + n) PROVE T[h] \in Nat
    <2>0. hp \in Int /\ Start \in Int
      BY <1>1 DEF Height
    <2>1. CASE h <= hp
      <3> HIDE DEF hp, n
      <3>1. h \in Start..hp
        BY <2>0, <2>1
      <3> QED
        BY <1>4, <3>1
    <2>2. CASE h > hp
      <3> HIDE DEF hp, n
      <3>1. h - hp \in 1..n /\ hp + (h - hp) = h
        BY <1>2, <2>0, <2>2
      <3> QED
        BY <1>5, <3>1
    <2> QED
      BY <2>0, <2>1, <2>2
  <1> QED
    BY <1>4, <1>5, <1>6 DEF PromotedTimes, T

\* The window that the loop carries is the canonical one of the chain it builds.
LEMMA RunSpans ==
  ASSUME ChainInv, RootedInv, HashChain, RegtestOnce, NEW p, NEW batch, NEW window,
         Extends(p, batch, window), Enforced(lc.network),
         headers[p].height <= lc.height,
         NEW T, PromotedTimes(T, p, batch)
  PROVE  \A i \in 0..Len(batch) :
           RunOf(p, batch, window)[i].window = Span(T, Start, headers[p].height + i)
  <1> DEFINE n == Len(batch)
             hp == headers[p].height
             run == RunOf(p, batch, window)
             Good == {i \in 0..n : run[i].window = Span(T, Start, hp + i)}
  <1>1. /\ p \in Block /\ batch \in Batches /\ lc # NoClient
        /\ hp \in Height /\ Start \in Height /\ Start <= hp /\ heightIndex[hp] = p
        /\ lc \in Client
    BY ParentLemma
  <1>2. n \in Nat \ {0} /\ \A i \in 1..n : batch[i] \in Block
    BY <1>1, BatchShape
  <1>3. /\ run[0] = StartRun(p, window)
        /\ \A i \in 1..n : run[i] = Advance(run[i - 1], batch[i], hp + i)
    BY <1>1, RunSteps
  <1>4. hp \in Nat /\ Start \in Nat /\ lc.height \in Nat
    BY <1>1 DEF Client, Height
  <1>5. window = Span(CanonTimes, Start, hp)
    <2>1. hp \in Start..lc.height
      <3>1. hp <= lc.height
        OBVIOUS
      <3> HIDE DEF hp
      <3> QED
        BY <1>1, <1>4, <3>1
    <2>2. window \in MtpWindows(p)
      BY DEF Extends
    <2> HIDE DEF hp
    <2> QED
      BY <1>1, <2>1, <2>2, ParentWindow
  <1>6. /\ \A h \in Start..hp : T[h] = CanonTimes[h]
        /\ \A i \in 1..n : T[hp + i] = Time[batch[i]]
        /\ \A h \in Start..(hp + n) : T[h] \in Nat
    BY DEF PromotedTimes
  <1> HIDE DEF n, hp, run
  <1>7. 0 \in Good
    <2>1. run[0].window = window
      BY <1>3 DEF StartRun
    <2>2. Span(T, Start, hp) = Span(CanonTimes, Start, hp)
      BY <1>1, <1>4, <1>6, SpanAgree
    <2>3. hp + 0 = hp /\ 0 \in 0..n
      BY <1>2, <1>4
    <2> QED
      BY <1>5, <2>1, <2>2, <2>3
  <1>8. ASSUME NEW i \in 1..n, i - 1 \in Good PROVE i \in Good
    <2> DEFINE old == run[i - 1]
               new == run[i]
               h == hp + i
    <2>1. new = Advance(old, batch[i], hp + i) /\ old.window = Span(T, Start, hp + (i - 1))
      BY <1>3, <1>8
    <2>2. /\ h \in Nat /\ Start < h /\ h - 1 = hp + (i - 1)
          /\ T[h] = Time[batch[i]] /\ \A k \in Start..h : T[k] \in Nat
      BY <1>1, <1>2, <1>4, <1>6
    <2>3. i \in 0..n
      BY <1>2
    <2> HIDE DEF old, new
    <2>4. new.window = Slide(old.window, Time[batch[i]], MtpWidth)
      BY <2>1 DEF Advance
    <2>5. new.window = Slide(Span(T, Start, h - 1), T[h], MtpWidth)
      BY <2>1, <2>2, <2>4
    <2> HIDE DEF h
    <2>6. new.window = Span(T, Start, h)
      BY <1>4, <2>2, <2>5, SpanSlides
    <2> QED
      BY <2>3, <2>6 DEF new, h
  <1>9. 0..n \subseteq Good
    <2> HIDE DEF Good
    <2> QED
      BY <1>2, <1>7, <1>8, UpTo
  <1> QED
    BY <1>9 DEF n, hp, run

LEMMA PromotionKeepsMedians ==
  ASSUME ChainInv, RootedInv, HashChain, RegtestOnce, NEW p, NEW batch, NEW window,
         Extends(p, batch, window), Enforced(lc.network),
         headers[p].height <= lc.height,
         BatchOk(p, batch, RunOf(p, batch, window)),
         NEW T, PromotedTimes(T, p, batch),
         MediansAre(CanonTimes, Start, lc.height)
  PROVE  MediansAre(T, Start, headers[p].height + Len(batch))
  <1> DEFINE n == Len(batch)
             hp == headers[p].height
             run == RunOf(p, batch, window)
             S(h) == Span(T, Start, h)
  <1>1. /\ p \in Block /\ batch \in Batches /\ lc # NoClient /\ lc \in Client
        /\ hp \in Height /\ Start \in Height /\ Start <= hp
    BY ParentLemma
  <1>2. n \in Nat \ {0} /\ \A i \in 1..n : batch[i] \in Block
    BY <1>1, BatchShape
  <1>3. \A i \in 0..n : run[i].window = S(hp + i)
    BY RunSpans
  <1>4. hp \in Nat /\ Start \in Nat /\ lc.height \in Nat /\ hp <= lc.height
    BY <1>1 DEF Client, Height
  <1>5. \A i \in 1..n : Time[batch[i]] > MedianTimestamp(run[i - 1].window)
    BY DEF BatchOk, HeaderOk, TimeOk
  <1>6. /\ \A h \in Start..hp : T[h] = CanonTimes[h]
        /\ \A i \in 1..n : T[hp + i] = Time[batch[i]]
        /\ \A h \in Start..(hp + n) : T[h] \in Nat
    BY DEF PromotedTimes
  <1>7. \A h \in (Start + 1)..lc.height :
          MedianTimestamp(Span(CanonTimes, Start, h)) >= MedianTimestamp(Span(CanonTimes, Start, h - 1))
    BY DEF MediansAre
  <1> HIDE DEF n, hp, run
  <1>8. ASSUME NEW h \in (Start + 1)..(hp + n)
        PROVE  MedianTimestamp(S(h)) >= MedianTimestamp(S(h - 1))
    <2>1. CASE h <= hp
      <3> DEFINE g == h - 1
      <3>1. /\ h \in (Start + 1)..lc.height /\ h \in Nat /\ Start <= h
            /\ g \in Nat /\ Start <= g
            /\ \A k \in Start..h : T[k] = CanonTimes[k]
            /\ \A k \in Start..g : T[k] = CanonTimes[k]
        BY <1>4, <1>6, <2>1
      <3>2. S(h) = Span(CanonTimes, Start, h)
        BY <1>4, <3>1, SpanAgree
      <3>3. S(g) = Span(CanonTimes, Start, g)
        <4> HIDE DEF g
        <4> QED
          BY <1>4, <3>1, SpanAgree
      <3> QED
        BY <1>7, <3>1, <3>2, <3>3
    <2>2. CASE h > hp
      <3> DEFINE i == h - hp
                 g == h - 1
                 w == S(g)
      <3>1. i \in 1..n /\ i - 1 \in 0..n /\ hp + (i - 1) = g /\ hp + i = h
        BY <1>2, <1>4, <2>2
      <3>2. T[h] > MedianTimestamp(w)
        <4>1. run[i - 1].window = w
          <5>1. run[i - 1].window = S(hp + (i - 1))
            <6> HIDE DEF i
            <6> QED
              BY <1>3, <3>1
          <5> QED
            BY <3>1, <5>1
        <4>2. T[h] = Time[batch[i]]
          <5>1. T[hp + i] = Time[batch[i]]
            <6> HIDE DEF i
            <6> QED
              BY <1>6, <3>1
          <5> QED
            BY <3>1, <5>1
        <4> HIDE DEF i, w
        <4> QED
          BY <1>5, <3>1, <4>1, <4>2
      <3>3. /\ h \in Nat /\ Start < h /\ g \in Nat /\ Start <= g
            /\ \A k \in Start..h : T[k] \in Nat
            /\ \A k \in Start..g : T[k] \in Nat
            /\ T[h] \in Nat
        BY <1>1, <1>2, <1>4, <1>6, <2>2
      <3>4. S(h) = Slide(w, T[h], MtpWidth)
        BY <1>4, <3>3, SpanSlides
      <3>5. w \in Windows
        <4> HIDE DEF g
        <4> QED
          BY <1>4, <3>3, SpanShape
      <3>6. MtpWidth \in Nat \ {0}
        BY LightClientAssumption DEF LightClientAssumption
      <3> HIDE DEF w
      <3>7. MedianTimestamp(S(h)) >= MedianTimestamp(w)
        BY <3>2, <3>3, <3>4, <3>5, <3>6, MedianClimbs
      <3> QED
        BY <3>7 DEF w
    <2> QED
      BY <1>4, <2>1, <2>2
  <1> QED
    BY <1>8 DEF MediansAre, n, hp

LEMMA MediansAgree ==
  ASSUME NEW T, NEW U, NEW start \in Nat, NEW tip \in Nat,
         \A k \in start..tip : T[k] = U[k], MediansAre(T, start, tip)
  PROVE  MediansAre(U, start, tip)
  <1>1. ASSUME NEW h \in start..tip PROVE Span(T, start, h) = Span(U, start, h)
    <2>1. h \in Nat /\ start <= h /\ \A k \in start..h : T[k] = U[k]
      OBVIOUS
    <2> QED
      BY <2>1, SpanAgree
  <1>2. \A h \in (start + 1)..tip : h \in start..tip /\ h - 1 \in start..tip
    OBVIOUS
  <1> QED
    BY <1>1, <1>2 DEF MediansAre

\* MedianMonotone speaks of the windows over CanonTimes.
MedianIn(D, X, start, h) ==
  MedianTimestamp([i \in 1..(h - Low(start, h) + 1) |-> D[X[Low(start, h) + i - 1]].time])

LEMMA MediansIn ==
  ASSUME NEW D, NEW X, NEW start \in Height, NEW tip \in Height
  PROVE  (\A h \in (start + 1)..tip : MedianIn(D, X, start, h) >= MedianIn(D, X, start, h - 1))
           <=> MediansAre([k \in Height |-> D[X[k]].time], start, tip)
  <1> DEFINE T == [k \in Height |-> D[X[k]].time]
  <1>1. ASSUME NEW h \in start..tip
        PROVE  MedianIn(D, X, start, h) = MedianTimestamp(Span(T, start, h))
    <2>1. h \in Height /\ start <= h
      BY LightClientAssumption DEF Height, LightClientAssumption
    <2> QED
      BY <2>1, MedianSpan DEF MedianIn
  <1>2. \A h \in (start + 1)..tip : h \in start..tip /\ h - 1 \in start..tip
    BY DEF Height
  <1> HIDE DEF T
  <1>3. (\A h \in (start + 1)..tip : MedianIn(D, X, start, h) >= MedianIn(D, X, start, h - 1))
           <=> MediansAre(T, start, tip)
    BY <1>1, <1>2 DEF MediansAre
  <1> QED
    BY <1>3 DEF T

LEMMA MonotoneSpans ==
  ASSUME lc # NoClient, Enforced(lc.network), Start \in Height, lc.height \in Height
  PROVE  MedianMonotone <=> MediansAre(CanonTimes, Start, lc.height)
  <1>1. \A h : MedianAt(h) = MedianIn(headers, heightIndex, Start, h)
    BY DEF MedianAt, MedianIn, Low, Start
  <1>2. MedianMonotone <=>
          \A h \in (Start + 1)..lc.height :
            MedianIn(headers, heightIndex, Start, h) >= MedianIn(headers, heightIndex, Start, h - 1)
    BY <1>1 DEF MedianMonotone, CanonicalHeights, Start
  <1> QED
    BY <1>2, MediansIn DEF CanonTimes

LEMMA MonotoneSpansNext ==
  ASSUME lc' # NoClient, Enforced(lc'.network), Start' \in Height, lc'.height \in Height
  PROVE  MedianMonotone' <=> MediansAre(CanonTimes', Start', lc'.height)
  <1> DEFINE D == headers'
             X == heightIndex'
             s == Start'
             t == lc'.height
  <1>1. \A h : MedianAt(h)' = MedianIn(D, X, s, h)
    BY DEF MedianAt, MedianIn, Low, Start
  <1>2. MedianMonotone' <=>
          \A h \in (s + 1)..t : MedianIn(D, X, s, h) >= MedianIn(D, X, s, h - 1)
    BY <1>1 DEF MedianMonotone, CanonicalHeights, Start
  <1>3. CanonTimes' = [k \in Height |-> D[X[k]].time]
    BY DEF CanonTimes
  <1>4. s \in Height /\ t \in Height
    OBVIOUS
  <1>5. (\A h \in (s + 1)..t : MedianIn(D, X, s, h) >= MedianIn(D, X, s, h - 1))
           <=> MediansAre([k \in Height |-> D[X[k]].time], s, t)
    <2> HIDE DEF D, X, s, t
    <2> QED
      BY <1>4, MediansIn
  <1> QED
    BY <1>2, <1>3, <1>5

\* What the canonical blocks keep when they stay canonical and keep their timestamps.
LEMMA MediansStay ==
  ASSUME ChainInv, ChainInv', MedianMonotone, lc # NoClient, UNCHANGED <<lc, heightIndex>>,
         headers'[lc.genesis] = headers[lc.genesis],
         \A b \in Block : Live(b) /\ heightIndex[headers[b].height] = b =>
                            headers'[b].time = headers[b].time
  PROVE  MedianMonotone'
  <1> SUFFICES ASSUME Enforced(lc.network) PROVE MedianMonotone'
    BY DEF MedianMonotone
  <1>1. Start' = Start
    BY DEF Start
  <1>2. Start \in Height /\ lc.height \in Height /\ Start <= lc.height
    BY DEF ChainInv, TypeOK, Client, InstanceInv, Live, Header, Start
  <1>3. MediansAre(CanonTimes, Start, lc.height)
    BY <1>2, MonotoneSpans
  <1>4. ASSUME NEW h \in Start..lc.height PROVE CanonTimes[h] = CanonTimes'[h]
    <2>1. h \in Height /\ Live(heightIndex[h]) /\ headers[heightIndex[h]].height = h
          /\ heightIndex[h] \in Block
      BY CanonicalStep
    <2> QED
      BY <2>1 DEF CanonTimes
  <1>5. MediansAre(CanonTimes', Start, lc.height)
    <2> DEFINE U == CanonTimes'
    <2>1. Start \in Nat /\ lc.height \in Nat /\ \A k \in Start..lc.height : CanonTimes[k] = U[k]
      BY <1>2, <1>4 DEF Height
    <2> HIDE DEF U
    <2>2. MediansAre(U, Start, lc.height)
      BY <1>3, <2>1, MediansAgree
    <2> QED
      BY <2>2 DEF U
  <1> QED
    BY <1>1, <1>2, <1>5, MonotoneSpansNext

LEMMA ExtendKeepsMedians ==
  ASSUME ChainInv, ChainInv', RootedInv, MedianMonotone, HashChain, RegtestOnce,
         ExtendBlockchain, ~StalePromotion
  PROVE  RootedInv' /\ MedianMonotone'
  <1>0. TypeOK /\ TypeOK'
    BY DEF ChainInv
  <1>1. PICK batch \in Batches : \E window \in MtpWindows(Prev[batch[1]]) :
          LET p == Prev[batch[1]]
              run == RunOf(p, batch, window)
          IN  /\ Extends(p, batch, window)
              /\ BatchOk(p, batch, run)
              /\ headers' = HeadersAfter(p, batch, run)
              /\ headers[p].height + Len(batch) \in Height
              /\ lc \in Client
              /\ \/ ExtendFork(p, batch, window)
                 \/ ExtendCanonical(p, batch, window)
    BY <1>0, ExtendUnpacked
  <1> DEFINE p == Prev[batch[1]]
  <1>2. PICK window \in MtpWindows(p) :
          /\ Extends(p, batch, window)
          /\ BatchOk(p, batch, RunOf(p, batch, window))
          /\ headers' = HeadersAfter(p, batch, RunOf(p, batch, window))
          /\ headers[p].height + Len(batch) \in Height
          /\ lc \in Client
          /\ \/ ExtendFork(p, batch, window)
             \/ ExtendCanonical(p, batch, window)
    BY <1>1
  <1>3. HeadersKept(p, batch) /\ lc # NoClient
    <2> HIDE DEF p
    <2> QED
      BY <1>2, KeptLemma, ParentLemma
  <1>4. CASE ExtendFork(p, batch, window)
    <2>1. UNCHANGED <<lc, heightIndex>>
      BY <1>4 DEF ExtendFork
    <2>2. /\ headers'[lc.genesis] = headers[lc.genesis]
          /\ \A b \in Block : Live(b) => headers'[b].time = headers[b].time
      BY <1>3 DEF HeadersKept
    <2> HIDE DEF p
    <2>3. RootedInv'
      BY <1>3, <2>1, <2>2 DEF RootedInv
    <2> QED
      BY <1>3, <2>1, <2>2, <2>3, MediansStay
  <1>5. CASE ExtendCanonical(p, batch, window)
    <2>1. headers[p].height <= lc.height
      <3>1. ~(headers[p].height > lc.height)
        BY <1>2, <1>5 DEF StalePromotion
      <3>2. headers[p].height \in Height /\ lc.height \in Height
        <4> HIDE DEF p
        <4> QED
          BY <1>2, ParentLemma DEF Client
      <3> HIDE DEF p
      <3> QED
        BY <3>1, <3>2 DEF Height
    <2>2. /\ heightIndex' = IndexAfter(p, batch)
          /\ lc'.genesis = lc.genesis /\ lc'.network = lc.network
          /\ lc'.height = headers[p].height + Len(batch)
      <3> HIDE DEF p
      <3> QED
        BY <1>2, <1>5 DEF ExtendCanonical, Client
    <2> HIDE DEF p
    <2>3. headers'[lc.genesis] = headers[lc.genesis]
      BY <1>3 DEF HeadersKept
    <2>4. RootedInv' /\ Start' = Start
      BY <1>3, <2>2, <2>3 DEF RootedInv, Start
    <2>5. MedianMonotone'
      <3> SUFFICES ASSUME lc' # NoClient, Enforced(lc'.network) PROVE MedianMonotone'
        BY DEF MedianMonotone
      <3>1. Start \in Height /\ lc.height \in Height /\ lc'.height \in Height
        BY <1>2, <2>2, ParentLemma DEF Client
      <3>2. MediansAre(CanonTimes, Start, lc.height)
        BY <1>3, <2>2, <3>1, MonotoneSpans
      <3> DEFINE T == CanonTimes'
      <3>3. PromotedTimes(T, p, batch)
        BY <1>2, <1>3, <2>1, <2>2, TimesPromoted
      <3> HIDE DEF T
      <3>4. MediansAre(T, Start, headers[p].height + Len(batch))
        BY <1>2, <2>1, <2>2, <3>2, <3>3, PromotionKeepsMedians
      <3> QED
        BY <2>2, <2>4, <3>1, <3>4, MonotoneSpansNext DEF T
    <2> QED
      BY <2>4, <2>5
  <1> QED
    BY <1>2, <1>4, <1>5

LEMMA NextKeepsMedians ==
  ASSUME HashChain, RegtestOnce, AnchorsRooted
  PROVE  ChainInv /\ ChainInv' /\ RootedInv /\ MedianMonotone /\ [Next]_vars /\ [~StalePromotion]_vars
           => RootedInv' /\ MedianMonotone'
  <1> SUFFICES ASSUME ChainInv, ChainInv', RootedInv, MedianMonotone, [Next]_vars,
                      [~StalePromotion]_vars
               PROVE  RootedInv' /\ MedianMonotone'
    OBVIOUS
  <1>u. ASSUME UNCHANGED <<lc, headers, heightIndex>> PROVE RootedInv' /\ MedianMonotone'
    <2>1. RootedInv'
      BY <1>u DEF RootedInv
    <2>2. MedianMonotone'
      BY <1>u DEF MedianMonotone, CanonicalHeights, MedianAt
    <2> QED
      BY <2>1, <2>2
  <1>f. ASSUME NEW a \in Anchors, NEW e, NEW q, q = NoBlock \/ q = a.prev,
               lc' = FreshClient(a, e),
               headers' = [headers EXCEPT ![a.hash] = AnchorHeader(a, q, e)]
        PROVE  RootedInv' /\ MedianMonotone'
    <2>1. a.hash \in Block /\ a.height \in Height /\ headers \in [Block -> Header \cup {NoHeader}]
      BY LightClientAssumption DEF LightClientAssumption, Anchor, ChainInv, TypeOK
    <2>2. lc'.genesis = a.hash /\ lc'.height = a.height
      BY <1>f DEF FreshClient
    <2>3. headers'[a.hash] = AnchorHeader(a, q, e)
      BY <1>f, <2>1
    <2>4. headers'[a.hash].prev = NoBlock /\ headers'[a.hash].height = a.height
      <3> DEFINE new == headers'[a.hash]
      <3>1. new = AnchorHeader(a, q, e)
        BY <2>3
      <3> HIDE DEF new
      <3>2. new.prev = q /\ new.height = a.height
        BY <3>1 DEF AnchorHeader
      <3> QED
        BY <1>f, <3>2 DEF new, AnchorsRooted
    <2>5. CanonicalHeights' = {}
      <3>1. (a.height + 1)..a.height = {}
        BY <2>1 DEF Height
      <3> QED
        BY <2>2, <2>4, <3>1 DEF CanonicalHeights
    <2> QED
      BY <2>2, <2>4, <2>5 DEF RootedInv, MedianMonotone
  <1>1. ASSUME NEW a \in Anchors, Initialize(a) PROVE RootedInv' /\ MedianMonotone'
    BY <1>1, <1>f DEF Initialize
  <1>2. ASSUME NEW a \in Anchors, Reinitialize(a) PROVE RootedInv' /\ MedianMonotone'
    BY <1>2, <1>f DEF Reinitialize
  <1>3. ASSUME NEW b \in Block, NEW tx \in Tx, VerifyTransaction(b, tx)
        PROVE  RootedInv' /\ MedianMonotone'
    BY <1>3, <1>u DEF VerifyTransaction
  <1>4. ASSUME NEW c \in Block, PruneObsoleteBlock(c) PROVE RootedInv' /\ MedianMonotone'
    <2>1. /\ lc # NoClient /\ heightIndex[headers[c].height] # c
          /\ \A b \in Block \ {c} : headers'[b] = headers[b]
          /\ UNCHANGED <<lc, heightIndex>>
      BY <1>4 DEF PruneObsoleteBlock, ChainInv, TypeOK
    <2>2. lc.genesis \in Block /\ heightIndex[headers[lc.genesis].height] = lc.genesis
      BY <2>1 DEF ChainInv, InstanceInv, Live, IndexIsAncestry
    <2>3. headers'[lc.genesis] = headers[lc.genesis]
      BY <2>1, <2>2
    <2>4. \A b \in Block : Live(b) /\ heightIndex[headers[b].height] = b =>
                             headers'[b].time = headers[b].time
      BY <2>1
    <2>5. RootedInv'
      BY <2>1, <2>3 DEF RootedInv
    <2> QED
      BY <2>1, <2>3, <2>4, <2>5, MediansStay
  <1>5. CASE Tick
    BY <1>5, <1>u DEF Tick
  <1>6. CASE UNCHANGED vars
    BY <1>6, <1>u DEF vars
  <1>7. CASE ExtendBlockchain /\ ~StalePromotion
    BY <1>7, ExtendKeepsMedians
  <1> QED
    BY <1>1, <1>2, <1>3, <1>4, <1>5, <1>6, <1>7 DEF Next

\* Median time past never runs backwards along the canonical chain: extend_blockchain
\* rebuilds the window from accounts for every batch and slides it within one, and both
\* are the canonical window, so that a header past the median of the one it is checked
\* against cannot lower the next median.
THEOREM MedianNeverFalls ==
  ASSUME HashChain, RegtestOnce, AnchorsRooted
  PROVE  Spec /\ [][~StalePromotion]_vars => []MedianMonotone
  <1> DEFINE Inv == ChainInv /\ RootedInv /\ MedianMonotone
  <1>1. Init => Inv
    BY LightClientAssumption
    DEF Init, ChainInv, RootedInv, MedianMonotone, TypeOK, Height, IndexIsAncestry,
        LightClientAssumption
  <1>2. Inv /\ [Next]_vars /\ [~StalePromotion]_vars => Inv'
    BY NextKeepsChain, NextKeepsMedians
  <1>3. Inv => MedianMonotone
    OBVIOUS
  <1> QED
    BY <1>1, <1>2, <1>3, PTL DEF Spec

-----------------------------------------------------------------------------
(* Difficulty *)

\* A hash meets the target zero only if it is zero, which no block is; and a client that
\* enforces difficulty starts from the parameters of its epoch, as initialize checks.
PowMeansTarget == \A b \in Pow : Bits[b] # 0
AnchorsSeeded ==
  \A a \in Anchors : Enforced(a.network) => a.epochBits # 0 /\ a.epochStart # 0

\* The difficulty epoch that the block at height h belongs to, along an index X from
\* height s with the seed z: its first block where the chain has it.
EraFirst(h) == h - (h % BlocksPerEpoch)
EraBits(X, s, z, h)  == IF EraFirst(h) > s THEN Bits[X[EraFirst(h)]] ELSE z.epochBits
EraStart(X, s, z, h) == IF EraFirst(h) > s THEN Time[X[EraFirst(h)]] ELSE z.epochStart

\* A header carries the parameters of its era.
InEra(r, X, s, z, h) == r.epochBits = EraBits(X, s, z, h) /\ r.epochStart = EraStart(X, s, z, h)

LEMMA EraRange ==
  ASSUME NEW h \in Nat
  PROVE  EraFirst(h) \in 0..h /\ (h % BlocksPerEpoch = 0 => EraFirst(h) = h)
  <1>1. BlocksPerEpoch \in Nat \ {0}
    BY DifficultyAssumption DEF DifficultyAssumption
  <1> DEFINE r == h % BlocksPerEpoch
             q == h \div BlocksPerEpoch
             B == BlocksPerEpoch
  <1>2. r \in 0..(B - 1) /\ q \in Nat /\ h = B * q + r
    BY <1>1, ModRange
  <1>3. EraFirst(h) = h - r
    BY DEF EraFirst
  <1>4. B * q \in Nat
    BY <1>1, <1>2
  <1> HIDE DEF r, q, B
  <1>5. h - r \in 0..h /\ (r = 0 => h - r = h)
    BY <1>1, <1>2, <1>4 DEF B
  <1> QED
    BY <1>3, <1>5 DEF r

\* Within an era the first block stays the same.
LEMMA EraKeeps ==
  ASSUME NEW h \in Nat \ {0}, h % BlocksPerEpoch # 0
  PROVE  EraFirst(h) = EraFirst(h - 1)
  <1> DEFINE g == h - 1
             B == BlocksPerEpoch
  <1>1. B \in Nat \ {0} /\ g \in Nat /\ h = g + 1
    BY DifficultyAssumption DEF DifficultyAssumption
  <1>2. (g + 1) % B = IF g % B = B - 1 THEN 0 ELSE (g % B) + 1
    <2> HIDE DEF g, B
    <2> QED
      BY <1>1, ModStep
  <1>3. h % B = (g % B) + 1
    BY <1>1, <1>2
  <1> DEFINE r == g % B
             t == h % B
  <1>4. r \in Int
    BY <1>1
  <1>5. t = r + 1
    BY <1>3
  <1> HIDE DEF r, t
  <1>6. h - t = (h - 1) - r
    BY <1>4, <1>5
  <1> QED
    BY <1>6 DEF EraFirst, r, t

\* The loop's update of the epoch parameters, height by height.
LEMMA EraStep ==
  ASSUME NEW X, NEW s \in Nat, NEW z, NEW h \in Nat, h > s
  PROVE  /\ h % BlocksPerEpoch = 0 =>
              EraBits(X, s, z, h) = Bits[X[h]] /\ EraStart(X, s, z, h) = Time[X[h]]
         /\ h % BlocksPerEpoch # 0 =>
              /\ EraBits(X, s, z, h) = EraBits(X, s, z, h - 1)
              /\ EraStart(X, s, z, h) = EraStart(X, s, z, h - 1)
  <1>1. CASE h % BlocksPerEpoch = 0
    <2>1. EraFirst(h) = h
      BY <1>1, EraRange
    <2> QED
      BY <1>1, <2>1 DEF EraBits, EraStart
  <1>2. CASE h % BlocksPerEpoch # 0
    <2>1. EraFirst(h) = EraFirst(h - 1)
      BY <1>2, EraKeeps
    <2> QED
      BY <1>2, <2>1 DEF EraBits, EraStart
  <1> QED
    BY <1>1, <1>2

LEMMA EraAgree ==
  ASSUME NEW X, NEW Y, NEW s \in Nat, NEW z, NEW h \in Nat, s <= h,
         \A k \in s..h : X[k] = Y[k]
  PROVE  EraBits(X, s, z, h) = EraBits(Y, s, z, h) /\ EraStart(X, s, z, h) = EraStart(Y, s, z, h)
  <1>1. EraFirst(h) \in 0..h
    BY EraRange
  <1>2. EraFirst(h) > s => EraFirst(h) \in s..h
    BY <1>1
  <1> QED
    BY <1>2 DEF EraBits, EraStart

\* Every canonical header carries the parameters of its era, and they are set.
Seeded(r) == r.epochBits # 0 /\ r.epochStart # 0

ErasAre(D, X, s, z, tip) ==
  \A h \in s..tip : Seeded(D[X[h]]) /\ InEra(D[X[h]], X, s, z, h)

EraInv ==
  lc # NoClient /\ Enforced(lc.network) =>
    ErasAre(headers, heightIndex, Start, headers[lc.genesis], lc.height)

\* The index that a promoted batch gives.
LEMMA IndexPromoted ==
  ASSUME NEW p, NEW batch \in Batches, headers[p].height \in Height,
         headers[p].height + Len(batch) \in Height
  PROVE  LET X == IndexAfter(p, batch)
             hp == headers[p].height
         IN  /\ \A h \in 0..hp : X[h] = heightIndex[h]
             /\ \A i \in 1..Len(batch) : hp + i \in Height /\ X[hp + i] = batch[i]
  <1> DEFINE n == Len(batch)
             hp == headers[p].height
             X == IndexAfter(p, batch)
  <1>1. n \in Nat \ {0} /\ MaxHeight \in Nat /\ hp \in 0..MaxHeight /\ hp + n \in 0..MaxHeight
    BY BatchShape, LightClientAssumption DEF Height, LightClientAssumption
  <1>2. \A h \in Height : X[h] = IF h \in (hp + 1)..(hp + n) THEN batch[h - hp] ELSE heightIndex[h]
    BY DEF IndexAfter
  <1> HIDE DEF n, hp, X
  <1>3. ASSUME NEW h \in 0..hp PROVE X[h] = heightIndex[h]
    <2>1. h \in Height /\ h \notin (hp + 1)..(hp + n)
      BY <1>1 DEF Height
    <2> QED
      BY <1>2, <2>1
  <1>4. ASSUME NEW i \in 1..n PROVE hp + i \in Height /\ X[hp + i] = batch[i]
    <2> DEFINE h == hp + i
    <2>1. h \in Height /\ h \in (hp + 1)..(hp + n) /\ h - hp = i
      BY <1>1 DEF Height
    <2> HIDE DEF h
    <2>2. X[h] = batch[i]
      BY <1>2, <2>1
    <2> QED
      BY <2>1, <2>2 DEF h
  <1> QED
    BY <1>3, <1>4 DEF n, hp, X

\* The parameters that the loop carries are those of the chain it builds.
RunInEra(p, batch, run) ==
  \A i \in 0..Len(batch) :
    /\ Seeded(run[i])
    /\ InEra(run[i], IndexAfter(p, batch), Start, headers[lc.genesis], headers[p].height + i)

LEMMA RunEras ==
  ASSUME ChainInv, EraInv, HashChain, RegtestOnce, PowMeansTarget,
         NEW p, NEW batch, NEW window, Extends(p, batch, window), Enforced(lc.network),
         headers[p].height <= lc.height, headers[p].height + Len(batch) \in Height,
         BatchOk(p, batch, RunOf(p, batch, window))
  PROVE  RunInEra(p, batch, RunOf(p, batch, window))
  <1> DEFINE n == Len(batch)
             hp == headers[p].height
             run == RunOf(p, batch, window)
             X == IndexAfter(p, batch)
             z == headers[lc.genesis]
             Good == {i \in 0..n : Seeded(run[i]) /\ InEra(run[i], X, Start, z, hp + i)}
  <1>1. /\ p \in Block /\ batch \in Batches /\ lc # NoClient /\ lc \in Client /\ TypeOK
        /\ hp \in Height /\ Start \in Height /\ Start <= hp /\ heightIndex[hp] = p
    BY ParentLemma DEF ChainInv
  <1>2. n \in Nat \ {0} /\ \A i \in 1..n : batch[i] \in Block
    BY <1>1, BatchShape
  <1>3. /\ run[0] = StartRun(p, window)
        /\ \A i \in 1..n : run[i] = Advance(run[i - 1], batch[i], hp + i)
    BY <1>1, RunSteps
  <1>4. hp \in Nat /\ Start \in Nat /\ lc.height \in Nat /\ hp <= lc.height
    BY <1>1 DEF Client, Height
  <1>5. /\ \A h \in 0..hp : X[h] = heightIndex[h]
        /\ \A i \in 1..n : X[hp + i] = batch[i]
    BY <1>1, IndexPromoted
  <1>6. Seeded(headers[p]) /\ InEra(headers[p], heightIndex, Start, z, hp)
    <2>1. ErasAre(headers, heightIndex, Start, z, lc.height)
      BY <1>1 DEF EraInv
    <2> HIDE DEF hp, z
    <2>2. hp \in Start..lc.height
      BY <1>1, <1>4
    <2> QED
      BY <1>1, <2>1, <2>2 DEF ErasAre
  <1>7. ASSUME NEW i \in 1..n PROVE Bits[batch[i]] # 0 /\ Time[batch[i]] # 0
    <2> DEFINE w == run[i - 1].window
    <2>1. batch[i] \in Pow /\ Time[batch[i]] > MedianTimestamp(w)
      BY DEF BatchOk, HeaderOk, TimeOk
    <2>2. window \in Windows
      BY <1>1, WindowsOffered DEF Extends
    <2>3. w \in Windows
      <3>1. i - 1 \in 0..n
        BY <1>2
      <3> QED
        BY <1>1, <2>2, <3>1, RunWindows
    <2> HIDE DEF w
    <2>4. MedianTimestamp(w) \in Nat /\ Time[batch[i]] \in Nat
      BY <1>2, <2>3, MedianIs, LightClientAssumption DEF LightClientAssumption
    <2> QED
      BY <2>1, <2>4 DEF PowMeansTarget
  <1> HIDE DEF n, hp, run, X, z
  <1>8. 0 \in Good
    <2> DEFINE r == run[0]
    <2>1. r = StartRun(p, window)
      BY <1>3
    <2> HIDE DEF r
    <2>2. r.epochBits = headers[p].epochBits /\ r.epochStart = headers[p].epochStart
      BY <1>6, <2>1 DEF StartRun, Seeded
    <2>3. /\ EraBits(heightIndex, Start, z, hp) = EraBits(X, Start, z, hp)
          /\ EraStart(heightIndex, Start, z, hp) = EraStart(X, Start, z, hp)
      BY <1>1, <1>4, <1>5, EraAgree
    <2>4. hp + 0 = hp /\ 0 \in 0..n
      BY <1>2, <1>4
    <2>5. Seeded(r) /\ InEra(r, X, Start, z, hp)
      BY <1>6, <2>2, <2>3 DEF Seeded, InEra
    <2> QED
      BY <2>4, <2>5 DEF r
  <1>9. ASSUME NEW i \in 1..n, i - 1 \in Good PROVE i \in Good
    <2> DEFINE old == run[i - 1]
               new == run[i]
               h == hp + i
    <2>1. new = Advance(old, batch[i], h)
      BY <1>3
    <2>2. /\ h \in Nat /\ h > Start /\ h - 1 = hp + (i - 1)
          /\ X[h] = batch[i] /\ i \in 0..n
      BY <1>1, <1>2, <1>4, <1>5
    <2>3. Seeded(old) /\ InEra(old, X, Start, z, h - 1)
      BY <1>9, <2>2
    <2> HIDE DEF old, new, h
    <2>4. /\ new.epochBits = IF h % BlocksPerEpoch = 0 THEN Bits[batch[i]] ELSE old.epochBits
          /\ new.epochStart = IF h % BlocksPerEpoch = 0 THEN Time[batch[i]] ELSE old.epochStart
      BY <2>1 DEF Advance
    <2>5. /\ h % BlocksPerEpoch = 0 =>
              EraBits(X, Start, z, h) = Bits[X[h]] /\ EraStart(X, Start, z, h) = Time[X[h]]
          /\ h % BlocksPerEpoch # 0 =>
              /\ EraBits(X, Start, z, h) = EraBits(X, Start, z, h - 1)
              /\ EraStart(X, Start, z, h) = EraStart(X, Start, z, h - 1)
      <3>1. Start \in Nat /\ h \in Nat /\ h > Start
        BY <1>4, <2>2
      <3> QED
        BY <3>1, EraStep, Zenon
    <2>6. Seeded(new) /\ InEra(new, X, Start, z, h)
      <3>1. CASE h % BlocksPerEpoch = 0
        BY <1>7, <2>2, <2>4, <2>5, <3>1 DEF Seeded, InEra
      <3>2. CASE h % BlocksPerEpoch # 0
        BY <2>3, <2>4, <2>5, <3>2 DEF Seeded, InEra
      <3> QED
        BY <3>1, <3>2
    <2> QED
      BY <2>2, <2>6 DEF new, h
  <1>10. 0..n \subseteq Good
    <2> HIDE DEF Good
    <2> QED
      BY <1>2, <1>8, <1>9, UpTo
  <1> QED
    BY <1>10 DEF RunInEra, n, hp, run, X, z

\* The bits that Bitcoin's rule asks for, over any headers D and index X.
BitsFor(D, X, s, z, test, h) ==
  RequiredBitsForNextBlock(test, h, Time[X[h]], D[X[h - 1]].time,
                           EraBits(X, s, z, h - 1), EraStart(X, s, z, h - 1))

BitsAre(D, X, s, z, test, tip) ==
  \A h \in (s + 1)..tip : Bits[X[h]] = BitsFor(D, X, s, z, test, h)

\* CanonicalDifficulty speaks of the eras of the index.
LEMMA ConsensusEras ==
  ASSUME NEW X, NEW D, NEW s, NEW z, NEW test, NEW h
  PROVE  LET first == (h - 1) - ((h - 1) % BlocksPerEpoch)
             epoch == IF first > s
                        THEN [bits |-> Bits[X[first]], time |-> Time[X[first]]]
                        ELSE [bits |-> z.epochBits, time |-> z.epochStart]
         IN  RequiredBitsForNextBlock(test, h, Time[X[h]], D[X[h - 1]].time,
               epoch.bits, epoch.time) = BitsFor(D, X, s, z, test, h)
  <1> DEFINE first == (h - 1) - ((h - 1) % BlocksPerEpoch)
             epoch == IF first > s
                        THEN [bits |-> Bits[X[first]], time |-> Time[X[first]]]
                        ELSE [bits |-> z.epochBits, time |-> z.epochStart]
  <1>1. first = EraFirst(h - 1)
    BY DEF EraFirst
  <1> HIDE DEF first
  <1>2. /\ epoch.bits = IF first > s THEN Bits[X[first]] ELSE z.epochBits
        /\ epoch.time = IF first > s THEN Time[X[first]] ELSE z.epochStart
    <2>1. CASE first > s
      BY <2>1
    <2>2. CASE ~(first > s)
      BY <2>2
    <2> QED
      BY <2>1, <2>2
  <1> HIDE DEF epoch
  <1>3. epoch.bits = EraBits(X, s, z, h - 1) /\ epoch.time = EraStart(X, s, z, h - 1)
    BY <1>1, <1>2 DEF EraBits, EraStart
  <1> QED
    BY <1>3 DEF BitsFor, epoch, first

LEMMA DifficultyForm ==
  ASSUME lc # NoClient, Enforced(lc.network)
  PROVE  CanonicalDifficulty <=>
           BitsAre(headers, heightIndex, Start, headers[lc.genesis],
                   lc.network = "testnet4", lc.height)
  <1>1. \A h : ConsensusBits(h) =
          BitsFor(headers, heightIndex, Start, headers[lc.genesis], lc.network = "testnet4", h)
    BY ConsensusEras DEF ConsensusBits, Start
  <1> QED
    BY <1>1 DEF CanonicalDifficulty, CanonicalHeights, BitsAre, Start

LEMMA DifficultyFormNext ==
  ASSUME lc' # NoClient, Enforced(lc'.network)
  PROVE  CanonicalDifficulty' <=>
           BitsAre(headers', heightIndex', Start', headers'[lc'.genesis],
                   lc'.network = "testnet4", lc'.height)
  <1> DEFINE D == headers'
             X == heightIndex'
             s == Start'
             z == headers'[lc'.genesis]
             test == lc'.network = "testnet4"
  <1>1. ASSUME NEW h PROVE ConsensusBits(h)' = BitsFor(D, X, s, z, test, h)
    <2> DEFINE first == (h - 1) - ((h - 1) % BlocksPerEpoch)
               epoch == IF first > s
                          THEN [bits |-> Bits[X[first]], time |-> Time[X[first]]]
                          ELSE [bits |-> z.epochBits, time |-> z.epochStart]
    <2>1. ConsensusBits(h)' = RequiredBitsForNextBlock(test, h, Time[X[h]], D[X[h - 1]].time,
                                epoch.bits, epoch.time)
      BY DEF ConsensusBits, Start
    <2>2. RequiredBitsForNextBlock(test, h, Time[X[h]], D[X[h - 1]].time,
            epoch.bits, epoch.time) = BitsFor(D, X, s, z, test, h)
      <3> HIDE DEF D, X, s, z, test
      <3> QED
        BY ConsensusEras
    <2> QED
      BY <2>1, <2>2
  <1>2. CanonicalHeights' = (s + 1)..lc'.height
    BY DEF CanonicalHeights, Start
  <1> HIDE DEF D, s, z, test
  <1>3. CanonicalDifficulty' <=> \A h \in (s + 1)..lc'.height : Bits[X[h]] = ConsensusBits(h)'
    BY <1>2 DEF CanonicalDifficulty
  <1> QED
    BY <1>1, <1>3 DEF BitsAre, D, X, s, z, test

\* A block that the index names and the batch contains: so is every one before it.
LEMMA PrefixCanonical ==
  ASSUME ChainInv, HashChain, RegtestOnce, NEW p, NEW batch, NEW window,
         Extends(p, batch, window), NEW i \in 1..Len(batch),
         headers[p].height + i <= lc.height,
         heightIndex[headers[p].height + i] = batch[i]
  PROVE  \A j \in 1..i : heightIndex[headers[p].height + j] = batch[j]
  <1> DEFINE n == Len(batch)
             hp == headers[p].height
             Good == {k \in 0..(i - 1) : heightIndex[hp + (i - k)] = batch[i - k]}
  <1>1. /\ batch \in Batches /\ lc # NoClient /\ lc \in Client
        /\ hp \in Height /\ Start \in Height /\ Start <= hp
    BY ParentLemma
  <1>2. n \in Nat \ {0} /\ i \in Nat /\ hp \in Nat /\ Start \in Nat /\ lc.height \in Nat
    BY <1>1, BatchShape DEF Height, Client
  <1>3. \A j \in 1..n : j > 1 => Prev[batch[j]] = batch[j - 1]
    <2>1. DOMAIN batch = 1..n
      BY <1>1, BatchShape
    <2> QED
      BY <1>1, <2>1 DEF Batches
  <1>4. \A h \in (Start + 1)..lc.height : Prev[heightIndex[h]] = heightIndex[h - 1]
    BY <1>1 DEF ChainInv, IndexIsAncestry, Start
  <1>5. hp + i <= lc.height /\ heightIndex[hp + i] = batch[i]
    OBVIOUS
  <1> HIDE DEF n, hp
  <1>6. 0 \in Good
    <2>1. i - 0 = i /\ 0 \in 0..(i - 1)
      BY <1>2
    <2> QED
      BY <1>5, <2>1
  <1>7. ASSUME NEW k \in 1..(i - 1), k - 1 \in Good PROVE k \in Good
    <2> DEFINE j == i - (k - 1)
    <2>1. j \in 1..n /\ j > 1 /\ j - 1 = i - k /\ k \in 0..(i - 1)
      BY <1>2 DEF n
    <2>2. hp + j \in (Start + 1)..lc.height /\ (hp + j) - 1 = hp + (i - k)
      BY <1>1, <1>2, <1>5, <2>1
    <2>3. heightIndex[hp + j] = batch[j]
      BY <1>7
    <2> HIDE DEF j
    <2>4. heightIndex[(hp + j) - 1] = batch[j - 1]
      BY <1>3, <1>4, <2>1, <2>2, <2>3
    <2> QED
      BY <2>1, <2>2, <2>4
  <1>8. 0..(i - 1) \subseteq Good
    <2>1. i - 1 \in Nat
      BY <1>2
    <2> HIDE DEF Good
    <2> QED
      BY <1>6, <1>7, <2>1, UpTo
  <1>9. ASSUME NEW j \in 1..i PROVE heightIndex[hp + j] = batch[j]
    <2> DEFINE k == i - j
    <2>1. k \in 0..(i - 1) /\ i - k = j
      BY <1>2
    <2> HIDE DEF k
    <2>2. k \in Good
      BY <1>8, <2>1
    <2> QED
      BY <2>1, <2>2
  <1> QED
    BY <1>9 DEF hp

\* What the headers that a batch leaves canonical carry afterwards.
LEMMA WrittenEra ==
  ASSUME ChainInv, EraInv, HashChain, RegtestOnce, PowMeansTarget,
         NEW p, NEW batch, NEW window, Extends(p, batch, window), Enforced(lc.network),
         headers[p].height <= lc.height, headers[p].height + Len(batch) \in Height,
         BatchOk(p, batch, RunOf(p, batch, window)),
         headers' = HeadersAfter(p, batch, RunOf(p, batch, window)),
         NEW i \in 1..Len(batch)
  PROVE  /\ Seeded(headers'[batch[i]])
         /\ InEra(headers'[batch[i]], IndexAfter(p, batch), Start, headers[lc.genesis],
                  headers[p].height + i)
  <1> DEFINE run == RunOf(p, batch, window)
             new == headers'[batch[i]]
             r == run[i]
  <1>1. p \in Block /\ batch \in Batches /\ p = Prev[batch[1]]
    BY ParentLemma
  <1>2. Writes(p, batch, run)
    BY <1>1, WritesLemma
  <1>3. new = EntryOf(p, batch[i], r, i)
    <2> HIDE DEF run
    <2> QED
      BY <1>2 DEF Writes
  <1>4. /\ Seeded(r)
        /\ InEra(r, IndexAfter(p, batch), Start, headers[lc.genesis], headers[p].height + i)
    <2>1. RunInEra(p, batch, run)
      BY RunEras
    <2>2. i \in 0..Len(batch)
      BY <1>1, BatchShape
    <2> HIDE DEF run
    <2> QED
      BY <2>1, <2>2 DEF RunInEra
  <1> HIDE DEF new, r
  <1>5. new.epochBits = r.epochBits /\ new.epochStart = r.epochStart
    BY <1>3 DEF EntryOf
  <1>6. /\ Seeded(new)
        /\ InEra(new, IndexAfter(p, batch), Start, headers[lc.genesis], headers[p].height + i)
    BY <1>4, <1>5 DEF Seeded, InEra
  <1> QED
    BY <1>6 DEF new

\* A promoted batch extends the eras of the chain below its parent.
LEMMA PromotionKeepsEras ==
  ASSUME ChainInv, EraInv, HashChain, RegtestOnce, PowMeansTarget,
         NEW p, NEW batch, NEW window, Extends(p, batch, window), Enforced(lc.network),
         headers[p].height <= lc.height, headers[p].height + Len(batch) \in Height,
         BatchOk(p, batch, RunOf(p, batch, window)),
         headers' = HeadersAfter(p, batch, RunOf(p, batch, window)),
         HeadersKept(p, batch)
  PROVE  ErasAre(headers', IndexAfter(p, batch), Start, headers[lc.genesis],
                 headers[p].height + Len(batch))
  <1> DEFINE n == Len(batch)
             hp == headers[p].height
             X == IndexAfter(p, batch)
             z == headers[lc.genesis]
             D == headers'
  <1>1. /\ batch \in Batches /\ lc # NoClient /\ lc \in Client
        /\ hp \in Height /\ Start \in Height /\ Start <= hp
    BY ParentLemma
  <1>2. n \in Nat \ {0} /\ hp \in Nat /\ Start \in Nat /\ lc.height \in Nat /\ hp <= lc.height
    BY <1>1, BatchShape DEF Height, Client
  <1>3. /\ \A h \in 0..hp : X[h] = heightIndex[h]
        /\ \A i \in 1..n : X[hp + i] = batch[i]
    BY <1>1, IndexPromoted
  <1>4. ASSUME NEW i \in 1..n PROVE Seeded(D[batch[i]]) /\ InEra(D[batch[i]], X, Start, z, hp + i)
    BY WrittenEra
  <1>5. ErasAre(headers, heightIndex, Start, z, lc.height)
    BY <1>1 DEF EraInv
  <1>6. ASSUME NEW h \in Start..hp PROVE D[heightIndex[h]] = headers[heightIndex[h]]
    <2>1. h \in Start..lc.height /\ h \in Nat /\ h <= hp
      <3> HIDE DEF hp
      <3> QED
        BY <1>2
    <2>2. heightIndex[h] \in Block /\ Live(heightIndex[h]) /\ headers[heightIndex[h]].height = h
      BY <1>1, <2>1, CanonicalStep
    <2>3. ASSUME NEW i \in 1..n PROVE heightIndex[h] # batch[i]
      <3>1. D[heightIndex[h]].height = h /\ D[batch[i]].height = hp + i
        BY <2>2 DEF HeadersKept
      <3>2. hp + i # h
        <4> HIDE DEF hp, n
        <4> QED
          BY <1>2, <2>1
      <3> QED
        BY <3>1, <3>2
    <2> QED
      BY <2>2, <2>3 DEF HeadersKept
  <1> HIDE DEF n, hp, X, z, D
  <1>7. ASSUME NEW h \in Start..(hp + n) PROVE Seeded(D[X[h]]) /\ InEra(D[X[h]], X, Start, z, h)
    <2>1. CASE h <= hp
      <3>1. h \in Start..hp /\ h \in Start..lc.height /\ h \in Nat /\ Start <= h
            /\ X[h] = heightIndex[h] /\ \A k \in Start..h : heightIndex[k] = X[k]
        BY <1>2, <1>3, <2>1
      <3>2. D[X[h]] = headers[heightIndex[h]]
        BY <1>6, <3>1
      <3>3. Seeded(headers[heightIndex[h]]) /\ InEra(headers[heightIndex[h]], heightIndex, Start, z, h)
        BY <1>5, <3>1 DEF ErasAre
      <3>4. /\ EraBits(heightIndex, Start, z, h) = EraBits(X, Start, z, h)
            /\ EraStart(heightIndex, Start, z, h) = EraStart(X, Start, z, h)
        BY <1>2, <3>1, EraAgree
      <3> QED
        BY <3>2, <3>3, <3>4 DEF InEra
    <2>2. CASE h > hp
      <3> DEFINE i == h - hp
      <3>1. i \in 1..n /\ hp + i = h
        BY <1>2, <2>2
      <3> HIDE DEF i
      <3> QED
        BY <1>3, <1>4, <3>1
    <2> QED
      BY <1>2, <2>1, <2>2
  <1> QED
    BY <1>7 DEF ErasAre, n, hp, X, z, D

\* A batch that is only stored writes canonical headers again with what they carry.
LEMMA ForkKeepsEras ==
  ASSUME ChainInv, EraInv, HashChain, RegtestOnce, PowMeansTarget,
         NEW p, NEW batch, NEW window, Extends(p, batch, window), Enforced(lc.network),
         headers[p].height + Len(batch) \in Height,
         BatchOk(p, batch, RunOf(p, batch, window)),
         headers' = HeadersAfter(p, batch, RunOf(p, batch, window)),
         HeadersKept(p, batch)
  PROVE  ErasAre(headers', heightIndex, Start, headers[lc.genesis], lc.height)
  <1> DEFINE n == Len(batch)
             hp == headers[p].height
             X == IndexAfter(p, batch)
             z == headers[lc.genesis]
             D == headers'
  <1>1. /\ batch \in Batches /\ lc # NoClient /\ lc \in Client
        /\ hp \in Height /\ Start \in Height /\ Start <= hp
    BY ParentLemma
  <1>2. n \in Nat \ {0} /\ hp \in Nat /\ Start \in Nat /\ lc.height \in Nat
    BY <1>1, BatchShape DEF Height, Client
  <1>3. /\ \A h \in 0..hp : X[h] = heightIndex[h]
        /\ \A i \in 1..n : X[hp + i] = batch[i]
    BY <1>1, IndexPromoted
  <1>4. ErasAre(headers, heightIndex, Start, z, lc.height)
    BY <1>1 DEF EraInv
  <1>5. ASSUME NEW h \in Start..lc.height
        PROVE  Seeded(D[heightIndex[h]]) /\ InEra(D[heightIndex[h]], heightIndex, Start, z, h)
    <2>1. heightIndex[h] \in Block /\ Live(heightIndex[h]) /\ headers[heightIndex[h]].height = h
          /\ h \in Nat
      BY <1>1, CanonicalStep DEF Height
    <2>2. CASE \A i \in 1..n : heightIndex[h] # batch[i]
      <3>1. D[heightIndex[h]] = headers[heightIndex[h]]
        BY <2>1, <2>2 DEF HeadersKept
      <3> HIDE DEF D, z
      <3> QED
        BY <1>4, <3>1 DEF ErasAre
    <2>3. CASE \E i \in 1..n : heightIndex[h] = batch[i]
      <3>1. PICK i \in 1..n : heightIndex[h] = batch[i]
        BY <2>3
      <3>2. D[heightIndex[h]].height = h /\ D[batch[i]].height = hp + i
        BY <2>1 DEF HeadersKept
      <3>3. h = hp + i
        BY <3>1, <3>2
      <3>4. hp <= lc.height /\ hp + i <= lc.height
        <4> HIDE DEF hp, n
        <4> QED
          BY <1>2, <2>1, <3>3
      <3>5. Seeded(D[batch[i]]) /\ InEra(D[batch[i]], X, Start, z, hp + i)
        BY <3>4, WrittenEra
      <3>6. \A j \in 1..i : heightIndex[hp + j] = batch[j]
        BY <3>1, <3>3, <3>4, PrefixCanonical
      <3> HIDE DEF n, hp, X, z, D
      <3>7. ASSUME NEW k \in Start..h PROVE X[k] = heightIndex[k]
        <4>1. CASE k <= hp
          BY <1>2, <1>3, <4>1
        <4>2. CASE k > hp
          <5> DEFINE j == k - hp
          <5>1. j \in 1..i /\ j \in 1..n /\ hp + j = k
            BY <1>2, <3>3, <4>2
          <5> HIDE DEF j
          <5> QED
            BY <1>3, <3>6, <5>1
        <4> QED
          BY <1>2, <4>1, <4>2
      <3>8. /\ EraBits(X, Start, z, h) = EraBits(heightIndex, Start, z, h)
            /\ EraStart(X, Start, z, h) = EraStart(heightIndex, Start, z, h)
        <4>1. Start <= h
          BY <1>2
        <4> QED
          BY <1>2, <2>1, <3>7, <4>1, EraAgree
      <3> QED
        BY <3>1, <3>3, <3>5, <3>8 DEF InEra
    <2> QED
      BY <2>2, <2>3
  <1> HIDE DEF D, z
  <1>6. ErasAre(D, heightIndex, Start, z, lc.height)
    BY <1>5 DEF ErasAre
  <1> QED
    BY <1>6 DEF D, z

\* The bits stay those required where index, timestamps and seed stay.
LEMMA BitsAgree ==
  ASSUME NEW D, NEW E, NEW X, NEW Y, NEW s \in Nat, NEW z, NEW test, NEW h \in Nat, h > s,
         \A k \in s..h : X[k] = Y[k], D[X[h - 1]].time = E[Y[h - 1]].time
  PROVE  BitsFor(D, X, s, z, test, h) = BitsFor(E, Y, s, z, test, h)
  <1> DEFINE g == h - 1
  <1>1. g \in Nat /\ s <= g /\ h \in s..h /\ \A k \in s..g : X[k] = Y[k]
    OBVIOUS
  <1> HIDE DEF g
  <1>2. EraBits(X, s, z, g) = EraBits(Y, s, z, g) /\ EraStart(X, s, z, g) = EraStart(Y, s, z, g)
    BY <1>1, EraAgree
  <1> QED
    BY <1>1, <1>2 DEF BitsFor, g

LEMMA PromotionKeepsBits ==
  ASSUME ChainInv, EraInv, HashChain, RegtestOnce, PowMeansTarget,
         NEW p, NEW batch, NEW window, Extends(p, batch, window), Enforced(lc.network),
         headers[p].height <= lc.height, headers[p].height + Len(batch) \in Height,
         BatchOk(p, batch, RunOf(p, batch, window)), HeadersKept(p, batch),
         BitsAre(headers, heightIndex, Start, headers[lc.genesis], lc.network = "testnet4", lc.height)
  PROVE  BitsAre(headers', IndexAfter(p, batch), Start, headers[lc.genesis],
                 lc.network = "testnet4", headers[p].height + Len(batch))
  <1> DEFINE n == Len(batch)
             hp == headers[p].height
             run == RunOf(p, batch, window)
             X == IndexAfter(p, batch)
             z == headers[lc.genesis]
             D == headers'
             test == lc.network = "testnet4"
  <1>1. /\ batch \in Batches /\ lc # NoClient /\ lc \in Client /\ p \in Block
        /\ hp \in Height /\ Start \in Height /\ Start <= hp /\ heightIndex[hp] = p
    BY ParentLemma
  <1>2. n \in Nat \ {0} /\ hp \in Nat /\ Start \in Nat /\ lc.height \in Nat /\ hp <= lc.height
    BY <1>1, BatchShape DEF Height, Client
  <1>3. /\ \A h \in 0..hp : X[h] = heightIndex[h]
        /\ \A i \in 1..n : X[hp + i] = batch[i]
    BY <1>1, IndexPromoted
  <1>4. \A i \in 0..n : InEra(run[i], X, Start, z, hp + i)
    BY RunEras DEF RunInEra
  <1>5. \A i \in 1..n : Bits[batch[i]] =
          RequiredBitsForNextBlock(test, hp + i, Time[batch[i]], run[i - 1].time,
                                   run[i - 1].epochBits, run[i - 1].epochStart)
    BY DEF BatchOk, HeaderOk, BitsOk
  <1>6. ASSUME NEW i \in 1..n PROVE D[X[hp + (i - 1)]].time = run[i - 1].time
    <2>0. /\ run[0] = StartRun(p, window)
          /\ \A j \in 1..n : run[j] = Advance(run[j - 1], batch[j], hp + j)
      BY <1>1, RunSteps
    <2>1. CASE i = 1
      <3>1. i - 1 = 0 /\ hp + (i - 1) = hp /\ hp \in 0..hp
        <4> HIDE DEF hp
        <4> QED
          BY <1>2, <2>1
      <3>2. X[hp] = p /\ D[p] = headers[p]
        BY <1>1, <1>3, <3>1 DEF HeadersKept
      <3> DEFINE r == run[0]
      <3>3. r = StartRun(p, window)
        BY <2>0
      <3> HIDE DEF r
      <3>4. r.time = headers[p].time
        BY <3>3 DEF StartRun
      <3> QED
        BY <3>1, <3>2, <3>4 DEF r
    <2>2. CASE i # 1
      <3> DEFINE j == i - 1
      <3>1. j \in 1..n
        <4> HIDE DEF n
        <4> QED
          BY <1>2, <2>2
      <3> HIDE DEF j
      <3>2. X[hp + j] = batch[j] /\ D[batch[j]].time = Time[batch[j]]
        BY <1>3, <3>1 DEF HeadersKept
      <3> DEFINE r == run[j]
      <3>3. r = Advance(run[j - 1], batch[j], hp + j)
        BY <2>0, <3>1
      <3> HIDE DEF r
      <3>4. r.time = Time[batch[j]]
        BY <3>3 DEF Advance
      <3> QED
        BY <3>2, <3>4 DEF r, j
    <2> QED
      BY <2>1, <2>2
  <1>7. BitsAre(headers, heightIndex, Start, z, test, lc.height)
    OBVIOUS
  <1>8. ASSUME NEW h \in Start..hp PROVE D[heightIndex[h]].time = headers[heightIndex[h]].time
    <2>1. h \in Start..lc.height
      <3> HIDE DEF hp
      <3> QED
        BY <1>2
    <2>2. heightIndex[h] \in Block /\ Live(heightIndex[h])
      BY <1>1, <2>1, CanonicalStep
    <2> QED
      BY <2>2 DEF HeadersKept
  <1> HIDE DEF n, hp, run, X, z, D, test
  <1>9. ASSUME NEW h \in (Start + 1)..(hp + n)
        PROVE  Bits[X[h]] = BitsFor(D, X, Start, z, test, h)
    <2>1. CASE h <= hp
      <3>1. /\ h \in (Start + 1)..lc.height /\ h \in Nat /\ h > Start
            /\ X[h] = heightIndex[h] /\ X[h - 1] = heightIndex[h - 1] /\ h - 1 \in Start..hp
            /\ \A k \in Start..h : heightIndex[k] = X[k]
        BY <1>2, <1>3, <2>1
      <3>2. headers[heightIndex[h - 1]].time = D[X[h - 1]].time
        BY <1>8, <3>1
      <3>3. BitsFor(headers, heightIndex, Start, z, test, h) = BitsFor(D, X, Start, z, test, h)
        <4> DEFINE hd == headers
                   ix == heightIndex
                   s == Start
        <4>1. /\ s \in Nat /\ h \in Nat /\ h > s /\ \A k \in s..h : ix[k] = X[k]
              /\ hd[ix[h - 1]].time = D[X[h - 1]].time
          BY <1>2, <3>1, <3>2
        <4> HIDE DEF hd, ix, s
        <4>2. BitsFor(hd, ix, s, z, test, h) = BitsFor(D, X, s, z, test, h)
          BY <4>1, BitsAgree
        <4> QED
          BY <4>2 DEF hd, ix, s
      <3> QED
        BY <1>7, <3>1, <3>3 DEF BitsAre
    <2>2. CASE h > hp
      <3> DEFINE i == h - hp
                 r == run[i - 1]
      <3>1. i \in 1..n /\ i - 1 \in 0..n /\ hp + i = h /\ hp + (i - 1) = h - 1
        BY <1>2, <2>2
      <3> HIDE DEF i
      <3>2. X[h] = batch[i]
        BY <1>3, <3>1
      <3>3. D[X[h - 1]].time = r.time
        BY <1>6, <3>1
      <3>4. r.epochBits = EraBits(X, Start, z, h - 1) /\ r.epochStart = EraStart(X, Start, z, h - 1)
        BY <1>4, <3>1 DEF InEra
      <3>5. Bits[batch[i]] = RequiredBitsForNextBlock(test, h, Time[batch[i]], r.time,
                                                      r.epochBits, r.epochStart)
        BY <1>5, <3>1
      <3> HIDE DEF r
      <3> QED
        BY <3>2, <3>3, <3>4, <3>5 DEF BitsFor
    <2> QED
      BY <1>2, <2>1, <2>2
  <1> QED
    BY <1>9 DEF BitsAre, n, hp, X, z, D, test

\* Difficulty where the canonical blocks stay and keep what they carry.
LEMMA DifficultyStays ==
  ASSUME ChainInv, CanonicalDifficulty, lc # NoClient, UNCHANGED <<lc, heightIndex>>,
         headers'[lc.genesis] = headers[lc.genesis],
         \A b \in Block : Live(b) /\ heightIndex[headers[b].height] = b =>
                            headers'[b].time = headers[b].time
  PROVE  CanonicalDifficulty'
  <1> SUFFICES ASSUME Enforced(lc.network) PROVE CanonicalDifficulty'
    BY DEF CanonicalDifficulty
  <1> DEFINE z == headers[lc.genesis]
             test == lc.network = "testnet4"
             D == headers'
  <1>1. Start' = Start
    BY DEF Start
  <1>2. Start \in Nat /\ lc.height \in Nat
    BY DEF ChainInv, TypeOK, Client, InstanceInv, Live, Header, Start, Height
  <1>3. BitsAre(headers, heightIndex, Start, z, test, lc.height)
    BY DifficultyForm
  <1>4. ASSUME NEW h \in Start..lc.height PROVE D[heightIndex[h]].time = headers[heightIndex[h]].time
    <2>1. Live(heightIndex[h]) /\ headers[heightIndex[h]].height = h /\ heightIndex[h] \in Block
      BY CanonicalStep
    <2> QED
      BY <2>1
  <1> HIDE DEF z, test, D
  <1>5. ASSUME NEW h \in (Start + 1)..lc.height
        PROVE  Bits[heightIndex[h]] = BitsFor(D, heightIndex, Start, z, test, h)
    <2>1. h \in Nat /\ h > Start /\ h - 1 \in Start..lc.height
      BY <1>2
    <2>2. D[heightIndex[h - 1]].time = headers[heightIndex[h - 1]].time
      BY <1>4, <2>1
    <2>3. BitsFor(headers, heightIndex, Start, z, test, h) = BitsFor(D, heightIndex, Start, z, test, h)
      <3> DEFINE hd == headers
                 ix == heightIndex
                 s == Start
      <3>1. /\ s \in Nat /\ h \in Nat /\ h > s /\ \A k \in s..h : ix[k] = ix[k]
            /\ hd[ix[h - 1]].time = D[ix[h - 1]].time
        BY <1>2, <2>1, <2>2
      <3> HIDE DEF hd, ix, s
      <3>2. BitsFor(hd, ix, s, z, test, h) = BitsFor(D, ix, s, z, test, h)
        BY <3>1, BitsAgree
      <3> QED
        BY <3>2 DEF hd, ix, s
    <2> QED
      BY <1>3, <2>3 DEF BitsAre
  <1>6. BitsAre(D, heightIndex, Start, z, test, lc.height)
    BY <1>5 DEF BitsAre
  <1> QED
    BY <1>1, <1>6, DifficultyFormNext DEF z, test, D

LEMMA ExtendKeepsDifficulty ==
  ASSUME ChainInv, EraInv, CanonicalDifficulty, HashChain, RegtestOnce, PowMeansTarget,
         ExtendBlockchain, ~StalePromotion
  PROVE  EraInv' /\ CanonicalDifficulty'
  <1>0. TypeOK
    BY DEF ChainInv
  <1>1. PICK batch \in Batches : \E window \in MtpWindows(Prev[batch[1]]) :
          LET p == Prev[batch[1]]
              run == RunOf(p, batch, window)
          IN  /\ Extends(p, batch, window)
              /\ BatchOk(p, batch, run)
              /\ headers' = HeadersAfter(p, batch, run)
              /\ headers[p].height + Len(batch) \in Height
              /\ lc \in Client
              /\ \/ ExtendFork(p, batch, window)
                 \/ ExtendCanonical(p, batch, window)
    BY <1>0, ExtendUnpacked
  <1> DEFINE p == Prev[batch[1]]
  <1>2. PICK window \in MtpWindows(p) :
          /\ Extends(p, batch, window)
          /\ BatchOk(p, batch, RunOf(p, batch, window))
          /\ headers' = HeadersAfter(p, batch, RunOf(p, batch, window))
          /\ headers[p].height + Len(batch) \in Height
          /\ lc \in Client
          /\ \/ ExtendFork(p, batch, window)
             \/ ExtendCanonical(p, batch, window)
    BY <1>1
  <1>3. HeadersKept(p, batch) /\ lc # NoClient
    <2> HIDE DEF p
    <2> QED
      BY <1>2, KeptLemma, ParentLemma
  <1>4. CASE ExtendFork(p, batch, window)
    <2>1. UNCHANGED <<lc, heightIndex>>
      BY <1>4 DEF ExtendFork
    <2>2. /\ headers'[lc.genesis] = headers[lc.genesis]
          /\ \A b \in Block : Live(b) => headers'[b].time = headers[b].time
      BY <1>3 DEF HeadersKept
    <2> HIDE DEF p
    <2>3. EraInv'
      <3> SUFFICES ASSUME Enforced(lc.network) PROVE EraInv'
        BY <2>1 DEF EraInv
      <3>1. ErasAre(headers', heightIndex, Start, headers[lc.genesis], lc.height)
        BY <1>2, <1>3, ForkKeepsEras
      <3>2. Start' = Start
        BY <2>1, <2>2 DEF Start
      <3> QED
        BY <2>1, <2>2, <3>1, <3>2 DEF EraInv
    <2> QED
      BY <1>3, <2>1, <2>2, <2>3, DifficultyStays
  <1>5. CASE ExtendCanonical(p, batch, window)
    <2>1. headers[p].height <= lc.height
      <3>1. ~(headers[p].height > lc.height)
        BY <1>2, <1>5 DEF StalePromotion
      <3>2. headers[p].height \in Height /\ lc.height \in Height
        <4> HIDE DEF p
        <4> QED
          BY <1>2, ParentLemma DEF Client
      <3> HIDE DEF p
      <3> QED
        BY <3>1, <3>2 DEF Height
    <2>2. /\ heightIndex' = IndexAfter(p, batch)
          /\ lc'.genesis = lc.genesis /\ lc'.network = lc.network
          /\ lc'.height = headers[p].height + Len(batch)
      <3> HIDE DEF p
      <3> QED
        BY <1>2, <1>5 DEF ExtendCanonical, Client
    <2> HIDE DEF p
    <2>3. headers'[lc.genesis] = headers[lc.genesis] /\ Start' = Start
      BY <1>3, <2>2 DEF HeadersKept, Start
    <2> SUFFICES ASSUME lc' # NoClient, Enforced(lc'.network)
                 PROVE  EraInv' /\ CanonicalDifficulty'
      BY DEF EraInv, CanonicalDifficulty
    <2>4. Enforced(lc.network)
      BY <2>2
    <2>5. ErasAre(headers', IndexAfter(p, batch), Start, headers[lc.genesis],
                  headers[p].height + Len(batch))
      BY <1>2, <1>3, <2>1, <2>4, PromotionKeepsEras
    <2>6. EraInv'
      BY <2>2, <2>3, <2>5 DEF EraInv
    <2>7. BitsAre(headers, heightIndex, Start, headers[lc.genesis], lc.network = "testnet4", lc.height)
      BY <1>3, <2>4, DifficultyForm
    <2>8. BitsAre(headers', IndexAfter(p, batch), Start, headers[lc.genesis],
                  lc.network = "testnet4", headers[p].height + Len(batch))
      BY <1>2, <1>3, <2>1, <2>4, <2>7, PromotionKeepsBits
    <2>9. CanonicalDifficulty'
      BY <2>2, <2>3, <2>8, DifficultyFormNext
    <2> QED
      BY <2>6, <2>9
  <1> QED
    BY <1>2, <1>4, <1>5

LEMMA NextKeepsDifficulty ==
  ASSUME HashChain, RegtestOnce, PowMeansTarget, AnchorsSeeded
  PROVE  ChainInv /\ EraInv /\ CanonicalDifficulty /\ [Next]_vars /\ [~StalePromotion]_vars
           => EraInv' /\ CanonicalDifficulty'
  <1> SUFFICES ASSUME ChainInv, EraInv, CanonicalDifficulty, [Next]_vars, [~StalePromotion]_vars
               PROVE  EraInv' /\ CanonicalDifficulty'
    OBVIOUS
  <1>u. ASSUME UNCHANGED <<lc, headers, heightIndex>> PROVE EraInv' /\ CanonicalDifficulty'
    <2>1. EraInv'
      BY <1>u DEF EraInv, Start
    <2>2. CanonicalDifficulty'
      BY <1>u DEF CanonicalDifficulty, CanonicalHeights, ConsensusBits
    <2> QED
      BY <2>1, <2>2
  <1>f. ASSUME NEW a \in Anchors, NEW e, NEW q,
               lc' = FreshClient(a, e),
               headers' = [headers EXCEPT ![a.hash] = AnchorHeader(a, q, e)],
               heightIndex' = [heightIndex EXCEPT ![a.height] = a.hash]
        PROVE  EraInv' /\ CanonicalDifficulty'
    <2>1. /\ a.hash \in Block /\ a.height \in Height
          /\ headers \in [Block -> Header \cup {NoHeader}]
          /\ heightIndex \in [Height -> Block \cup {NoBlock}]
      BY LightClientAssumption DEF LightClientAssumption, Anchor, ChainInv, TypeOK
    <2>2. lc'.genesis = a.hash /\ lc'.height = a.height /\ lc'.network = a.network
      BY <1>f DEF FreshClient
    <2> DEFINE z == headers'[a.hash]
               X == heightIndex'
    <2>3. z = AnchorHeader(a, q, e) /\ X[a.height] = a.hash
      BY <1>f, <2>1
    <2>4. z.epochBits = a.epochBits /\ z.epochStart = a.epochStart /\ z.height = a.height
      <3> HIDE DEF z
      <3> QED
        BY <2>3 DEF AnchorHeader
    <2>5. Start' = a.height
      BY <2>2, <2>4 DEF Start
    <2>6. CanonicalDifficulty'
      <3>1. (a.height + 1)..a.height = {}
        BY <2>1 DEF Height
      <3>2. CanonicalHeights' = {}
        BY <2>2, <2>4, <3>1 DEF CanonicalHeights
      <3> QED
        BY <3>2 DEF CanonicalDifficulty
    <2>7. EraInv'
      <3> SUFFICES ASSUME Enforced(a.network) PROVE EraInv'
        BY <2>2 DEF EraInv
      <3>1. Seeded(z)
        BY <2>4 DEF AnchorsSeeded, Seeded
      <3>2. InEra(z, X, a.height, z, a.height)
        <4>1. EraFirst(a.height) \in 0..a.height /\ a.height \in Nat
          BY <2>1, EraRange DEF Height
        <4>2. ~(EraFirst(a.height) > a.height)
          BY <4>1
        <4> HIDE DEF z, X
        <4> QED
          BY <4>2 DEF InEra, EraBits, EraStart
      <3>3. \A h \in a.height..a.height : h = a.height
        BY <2>1 DEF Height
      <3> DEFINE D == headers'
      <3>4. ErasAre(D, X, a.height, z, a.height)
        <4>1. D[X[a.height]] = z
          BY <2>3
        <4> HIDE DEF z, X, D
        <4> QED
          BY <3>1, <3>2, <3>3, <4>1 DEF ErasAre
      <3> QED
        BY <2>2, <2>5, <3>4 DEF EraInv
    <2> QED
      BY <2>6, <2>7
  <1>1. ASSUME NEW a \in Anchors, Initialize(a) PROVE EraInv' /\ CanonicalDifficulty'
    BY <1>1, <1>f DEF Initialize
  <1>2. ASSUME NEW a \in Anchors, Reinitialize(a) PROVE EraInv' /\ CanonicalDifficulty'
    BY <1>2, <1>f DEF Reinitialize
  <1>3. ASSUME NEW b \in Block, NEW tx \in Tx, VerifyTransaction(b, tx)
        PROVE  EraInv' /\ CanonicalDifficulty'
    BY <1>3, <1>u DEF VerifyTransaction
  <1>4. ASSUME NEW c \in Block, PruneObsoleteBlock(c) PROVE EraInv' /\ CanonicalDifficulty'
    <2>1. /\ lc # NoClient /\ heightIndex[headers[c].height] # c
          /\ \A b \in Block \ {c} : headers'[b] = headers[b]
          /\ UNCHANGED <<lc, heightIndex>>
      BY <1>4 DEF PruneObsoleteBlock, ChainInv, TypeOK
    <2>2. lc.genesis \in Block /\ heightIndex[headers[lc.genesis].height] = lc.genesis
      BY <2>1 DEF ChainInv, InstanceInv, Live, IndexIsAncestry
    <2>3. headers'[lc.genesis] = headers[lc.genesis] /\ Start' = Start
      BY <2>1, <2>2 DEF Start
    <2>4. ASSUME NEW h \in Start..lc.height PROVE headers'[heightIndex[h]] = headers[heightIndex[h]]
      <3>1. heightIndex[h] \in Block /\ headers[heightIndex[h]].height = h
        BY <2>1, CanonicalStep
      <3> QED
        BY <2>1, <3>1
    <2>5. EraInv'
      <3> SUFFICES ASSUME Enforced(lc.network) PROVE EraInv'
        BY <2>1 DEF EraInv
      <3>1. ErasAre(headers, heightIndex, Start, headers[lc.genesis], lc.height)
        BY <2>1 DEF EraInv
      <3>2. ErasAre(headers', heightIndex, Start, headers[lc.genesis], lc.height)
        BY <2>4, <3>1 DEF ErasAre
      <3> QED
        BY <2>1, <2>3, <3>2 DEF EraInv
    <2>6. \A b \in Block : Live(b) /\ heightIndex[headers[b].height] = b =>
                             headers'[b].time = headers[b].time
      BY <2>1
    <2> QED
      BY <2>1, <2>3, <2>5, <2>6, DifficultyStays
  <1>5. CASE Tick
    BY <1>5, <1>u DEF Tick
  <1>6. CASE UNCHANGED vars
    BY <1>6, <1>u DEF vars
  <1>7. CASE ExtendBlockchain /\ ~StalePromotion
    BY <1>7, ExtendKeepsDifficulty
  <1> QED
    BY <1>1, <1>2, <1>3, <1>4, <1>5, <1>6, <1>7 DEF Next

\* The difficulty of the canonical chain is Bitcoin's: the epoch parameters that
\* extend_blockchain takes from the parent's account and carries through the batch are
\* those of the chain the batch extends, across forks, retargets and headers that are
\* written again, so that every canonical block has the bits the chain itself requires.
THEOREM DifficultyFollowsChain ==
  ASSUME HashChain, RegtestOnce, PowMeansTarget, AnchorsSeeded
  PROVE  Spec /\ [][~StalePromotion]_vars => []CanonicalDifficulty
  <1> DEFINE Inv == ChainInv /\ EraInv /\ CanonicalDifficulty
  <1>1. Init => Inv
    BY LightClientAssumption
    DEF Init, ChainInv, EraInv, CanonicalDifficulty, TypeOK, Height, IndexIsAncestry,
        LightClientAssumption
  <1>2. Inv /\ [Next]_vars /\ [~StalePromotion]_vars => Inv'
    BY NextKeepsChain, NextKeepsDifficulty
  <1>3. Inv => CanonicalDifficulty
    OBVIOUS
  <1> QED
    BY <1>1, <1>2, <1>3, PTL DEF Spec

-----------------------------------------------------------------------------
(* Compact targets *)

\* Multiplication and division of natural numbers, as far as the proofs below use them.
LEMMA ProductOrder ==
  ASSUME NEW a \in Nat, NEW b \in Nat, NEW c \in Nat
  PROVE  /\ a * b \in Nat /\ a * b = b * a
         /\ a <= b => a * c <= b * c
         /\ a < b => a * c + c <= b * c
         /\ a < b /\ c > 0 => a * c < b * c
  <1>1. a * b \in Nat /\ a * b = b * a
    OBVIOUS
  <1>2. a <= b => a * c <= b * c
    OBVIOUS
  <1>3. a < b => a * c + c <= b * c
    <2> SUFFICES ASSUME a < b PROVE a * c + c <= b * c
      OBVIOUS
    <2>1. a * c + c = (a + 1) * c
      OBVIOUS
    <2>2. (a + 1) * c <= b * c
      OBVIOUS
    <2> QED
      BY <2>1, <2>2
  <1> QED
    BY <1>1, <1>2, <1>3

LEMMA QuotientIs ==
  ASSUME NEW n \in Nat, NEW H \in Nat \ {0}, NEW q \in Nat, q * H <= n, n < q * H + H
  PROVE  n \div H = q
  <1> DEFINE d == n \div H
             r == n % H
  <1>1. d \in Nat /\ r \in 0..(H - 1) /\ n = H * d + r
    BY ModRange
  <1> HIDE DEF d, r
  <1>2. d * H <= n /\ n < d * H + H /\ d * H \in Nat /\ q * H \in Nat
    BY <1>1
  <1>3. ~(d < q)
    BY <1>1, <1>2, ProductOrder
  <1>4. ~(q < d)
    BY <1>1, <1>2, ProductOrder
  <1> QED
    BY <1>1, <1>3, <1>4 DEF d

\* What a quotient says of the dividend.
LEMMA QuotientBounds ==
  ASSUME NEW n \in Nat, NEW H \in Nat \ {0}
  PROVE  /\ n \div H \in Nat
         /\ (n \div H) * H \in Nat
         /\ (n \div H) * H <= n /\ n < (n \div H) * H + H
         /\ \A q \in Nat : q * H <= n => q <= n \div H
         /\ \A q \in Nat : n < q * H => n \div H < q
  <1> DEFINE d == n \div H
             r == n % H
  <1>1. d \in Nat /\ r \in 0..(H - 1) /\ n = H * d + r
    BY ModRange
  <1> HIDE DEF d, r
  <1>2. d * H <= n /\ n < d * H + H /\ d * H \in Nat
    BY <1>1
  <1>3. ASSUME NEW q \in Nat, q * H <= n PROVE q <= d
    <2>1. ~(d < q)
      BY <1>1, <1>2, <1>3, ProductOrder
    <2> QED
      BY <1>1, <2>1
  <1>4. ASSUME NEW q \in Nat, n < q * H PROVE d < q
    <2>1. ~(q <= d)
      BY <1>1, <1>2, <1>4, ProductOrder
    <2> QED
      BY <1>1, <2>1
  <1> QED
    BY <1>1, <1>2, <1>3, <1>4 DEF d

\* The powers of the byte size.
P(n) == Byte^n

LEMMA PowerStep ==
  /\ Byte \in Nat /\ Byte >= 2 /\ TargetBytes \in Nat /\ TargetBytes > 3
  /\ P(0) = 1
  /\ \A n \in 0..TargetBytes : P(n + 1) = Byte * P(n)
  BY DifficultyAssumption, PowerAssumption DEF DifficultyAssumption, PowerAssumption, P

LEMMA PowerType == \A n \in 0..(TargetBytes + 1) : P(n) \in Nat \ {0}
  <1> DEFINE S == {n \in Nat : P(n) \in Nat \ {0}}
  <1>1. 0 \in S
    BY PowerStep
  <1>2. ASSUME NEW i \in 1..(TargetBytes + 1), i - 1 \in S PROVE i \in S
    <2>1. i - 1 \in 0..TargetBytes /\ (i - 1) + 1 = i
      BY PowerStep
    <2>2. P(i) = Byte * P(i - 1)
      BY <2>1, PowerStep
    <2>3. P(i - 1) \in Nat \ {0}
      BY <1>2
    <2> DEFINE x == P(i - 1)
    <2> HIDE DEF x
    <2>4. Byte * x \in Nat \ {0}
      BY <2>3, PowerStep DEF x
    <2> QED
      BY <2>1, <2>2, <2>4 DEF x
  <1>3. TargetBytes + 1 \in Nat
    BY PowerStep
  <1> HIDE DEF S
  <1>4. 0..(TargetBytes + 1) \subseteq S
    BY <1>1, <1>2, <1>3, UpTo
  <1> QED
    BY <1>4 DEF S

LEMMA PowerSum ==
  ASSUME NEW i \in Nat, NEW j \in Nat, i + j <= TargetBytes + 1
  PROVE  P(i + j) = P(i) * P(j)
  <1> DEFINE S == {k \in Nat : P(i + k) = P(i) * P(k)}
  <1>0. P(i) \in Nat
    BY PowerType, PowerStep
  <1>1. 0 \in S
    BY <1>0, PowerStep
  <1>2. ASSUME NEW k \in 1..j, k - 1 \in S PROVE k \in S
    <2>1. /\ k - 1 \in 0..TargetBytes /\ (k - 1) + 1 = k
          /\ i + (k - 1) \in 0..TargetBytes /\ (i + (k - 1)) + 1 = i + k
      BY PowerStep
    <2>2. P(k) = Byte * P(k - 1) /\ P(i + k) = Byte * P(i + (k - 1))
      BY <2>1, PowerStep
    <2>3. P(i + (k - 1)) = P(i) * P(k - 1)
      BY <1>2
    <2>4. P(k - 1) \in Nat
      BY <2>1, PowerType, PowerStep
    <2> DEFINE x == P(k - 1)
               y == P(i)
    <2> HIDE DEF x, y
    <2>5. Byte * (y * x) = y * (Byte * x)
      BY <1>0, <2>4, PowerStep DEF x, y
    <2> QED
      BY <2>1, <2>2, <2>3, <2>5 DEF x, y
  <1> HIDE DEF S
  <1>3. 0..j \subseteq S
    BY <1>1, <1>2, UpTo
  <1> QED
    BY <1>3 DEF S

LEMMA PowerOrder ==
  ASSUME NEW i \in Nat, NEW j \in Nat, i <= j, j <= TargetBytes + 1
  PROVE  P(i) <= P(j)
  <1>1. P(i + (j - i)) = P(i) * P(j - i) /\ i + (j - i) = j /\ j - i \in Nat
    BY PowerSum
  <1>2. P(i) \in Nat \ {0} /\ P(j - i) \in Nat \ {0}
    BY <1>1, PowerType, PowerStep
  <1> DEFINE x == P(i)
             y == P(j - i)
  <1> HIDE DEF x, y
  <1>3. x <= x * y
    BY <1>2 DEF x, y
  <1> QED
    BY <1>1, <1>3 DEF x, y

\* The size of a target is the one number of bytes that hold it and no fewer.
LEMMA SizeFacts ==
  ASSUME NEW t \in Nat, t < P(TargetBytes)
  PROVE  /\ SizeOf(t) \in 0..TargetBytes
         /\ t < P(SizeOf(t))
         /\ SizeOf(t) = 0 \/ t >= P(SizeOf(t) - 1)
  <1> DEFINE Holds(n) == n \in 0..TargetBytes /\ t < P(n)
             S == {n \in Nat : Holds(n)}
  <1>1. TargetBytes \in S
    BY PowerStep
  <1>2. PICK n \in S : \A m \in S : n <= m
    <2>1. S \in SUBSET Nat /\ S # {}
      BY <1>1
    <2> HIDE DEF S
    <2> QED
      BY <2>1, LeastNat
  <1>3. n \in 0..TargetBytes /\ t < P(n)
    OBVIOUS
  <1>4. n = 0 \/ t >= P(n - 1)
    <2> SUFFICES ASSUME n # 0 PROVE t >= P(n - 1)
      OBVIOUS
    <2>1. n - 1 \in 0..TargetBytes /\ n - 1 \in Nat /\ ~(n <= n - 1)
      BY <1>3, PowerStep
    <2>2. n - 1 \notin S
      BY <1>2, <2>1
    <2>3. P(n - 1) \in Nat
      BY <2>1, PowerType, PowerStep
    <2> QED
      BY <2>1, <2>2, <2>3
  <1> QED
    BY <1>3, <1>4 DEF SizeOf, P

LEMMA SizeIs ==
  ASSUME NEW t \in Nat, t < P(TargetBytes), NEW n \in 1..TargetBytes,
         t < P(n), t >= P(n - 1)
  PROVE  SizeOf(t) = n
  <1> DEFINE s == SizeOf(t)
  <1>1. s \in 0..TargetBytes /\ t < P(s) /\ (s = 0 \/ t >= P(s - 1))
    BY SizeFacts
  <1> HIDE DEF s
  <1>2. /\ P(s) \in Nat /\ P(n) \in Nat /\ P(n - 1) \in Nat
        /\ s > 0 => P(s - 1) \in Nat
    BY <1>1, PowerType, PowerStep
  <1>3. ~(s < n)
    <2> SUFFICES ASSUME s <= n - 1 PROVE FALSE
      BY <1>1
    <2>1. P(s) <= P(n - 1)
      BY <1>1, PowerOrder, PowerStep
    <2> QED
      BY <1>1, <1>2, <2>1
  <1>4. ~(n < s)
    <2> SUFFICES ASSUME n <= s - 1, s > 0 PROVE FALSE
      BY <1>1
    <2>1. P(n) <= P(s - 1)
      BY <1>1, PowerOrder, PowerStep
    <2> QED
      BY <1>1, <1>2, <2>1
  <1> QED
    BY <1>1, <1>3, <1>4 DEF s

LEMMA SizeZero ==
  ASSUME NEW t \in Nat, t < P(TargetBytes)
  PROVE  SizeOf(t) = 0 <=> t = 0
  <1>1. /\ SizeOf(t) \in 0..TargetBytes /\ t < P(SizeOf(t))
        /\ SizeOf(t) = 0 \/ t >= P(SizeOf(t) - 1)
    BY SizeFacts
  <1> DEFINE s == SizeOf(t)
  <1> HIDE DEF s
  <1>2. s > 0 => P(s - 1) \in Nat \ {0}
    BY <1>1, PowerType, PowerStep DEF s
  <1>3. P(0) = 1
    BY PowerStep
  <1> QED
    BY <1>1, <1>2, <1>3 DEF s

\* The sign bit is half of the mantissas and a multiple of the byte.
LEMMA SignFacts ==
  /\ Mantissas = P(3) /\ Modulus = P(TargetBytes)
  /\ SignBit \in Nat \ {0} /\ P(3) = 2 * SignBit
  /\ P(1) = Byte /\ P(2) = Byte * Byte /\ P(2) <= SignBit
  /\ \E h \in Nat : SignBit = h * Byte
  <1>1. Mantissas = P(3) /\ Modulus = P(TargetBytes)
    BY DEF Mantissas, Modulus, P
  <1>2. P(1) = Byte /\ P(2) = Byte * P(1) /\ P(3) = Byte * P(2)
    <2>1. /\ 0 \in 0..TargetBytes /\ 1 \in 0..TargetBytes /\ 2 \in 0..TargetBytes
          /\ 0 + 1 = 1 /\ 1 + 1 = 2 /\ 2 + 1 = 3
      BY PowerStep
    <2>2. P(0 + 1) = Byte * P(0) /\ P(1 + 1) = Byte * P(1) /\ P(2 + 1) = Byte * P(2)
      BY <2>1, PowerStep
    <2> QED
      BY <2>1, <2>2, PowerStep
  <1> DEFINE h == Byte \div 2
  <1>3. h \in Nat \ {0} /\ Byte = 2 * h
    BY DifficultyAssumption DEF DifficultyAssumption
  <1> HIDE DEF h
  <1>4. P(3) = 2 * (h * (Byte * Byte))
    BY <1>2, <1>3
  <1>5. h * (Byte * Byte) \in Nat \ {0} /\ Byte * Byte <= h * (Byte * Byte)
    BY <1>3, PowerStep
  <1>6. SignBit = h * (Byte * Byte)
    BY <1>1, <1>4, <1>5 DEF SignBit
  <1>7. h * (Byte * Byte) = (h * Byte) * Byte /\ h * Byte \in Nat
    BY <1>3, PowerStep
  <1> QED
    BY <1>1, <1>2, <1>4, <1>5, <1>6, <1>7

\* The parts of bits_from_target: the three leading bytes, whether their sign bit is set,
\* and the exponent and mantissa that result.
TopOf(t) == IF SizeOf(t) <= 3 THEN t * P(3 - SizeOf(t)) ELSE t \div P(SizeOf(t) - 3)
Grows(t) == TopOf(t) >= SignBit
ExponentOf(t) == IF Grows(t) THEN SizeOf(t) + 1 ELSE SizeOf(t)
MantissaOf(t) == IF Grows(t) THEN TopOf(t) \div Byte ELSE TopOf(t)

LEMMA TopRange ==
  ASSUME NEW t \in Nat \ {0}, t < P(TargetBytes)
  PROVE  TopOf(t) \in Nat /\ P(2) <= TopOf(t) /\ TopOf(t) < P(3)
  <1> DEFINE s == SizeOf(t)
  <1>1. s \in 1..TargetBytes /\ t < P(s) /\ t >= P(s - 1)
    <2>1. s # 0
      BY SizeZero
    <2> QED
      BY <2>1, SizeFacts
  <1>2. TopOf(t) = IF s <= 3 THEN t * P(3 - s) ELSE t \div P(s - 3)
    BY DEF TopOf
  <1> HIDE DEF s
  <1>3. P(s) \in Nat /\ P(s - 1) \in Nat /\ P(2) \in Nat /\ P(3) \in Nat
    BY <1>1, PowerType, PowerStep
  <1>4. CASE s <= 3
    <2>1. /\ 3 - s \in Nat /\ s \in Nat /\ s - 1 \in Nat /\ s + (3 - s) = 3 /\ (s - 1) + (3 - s) = 2
          /\ 3 <= TargetBytes + 1
      BY <1>1, <1>4, PowerStep
    <2>2. P(s + (3 - s)) = P(s) * P(3 - s)
      BY <2>1, PowerSum
    <2>3. P((s - 1) + (3 - s)) = P(s - 1) * P(3 - s)
      <3> DEFINE i == s - 1
                 j == 3 - s
      <3>1. i \in Nat /\ j \in Nat /\ i + j <= TargetBytes + 1
        BY <2>1, PowerStep
      <3> HIDE DEF i, j
      <3>2. P(i + j) = P(i) * P(j)
        BY <3>1, PowerSum
      <3> QED
        BY <3>2 DEF i, j
    <2>4. P(3 - s) \in Nat \ {0}
      BY <2>1, <1>1, PowerType, PowerStep
    <2> DEFINE x == P(3 - s)
               lo == P(s - 1)
               hi == P(s)
    <2>5. lo * x = P(2) /\ hi * x = P(3) /\ TopOf(t) = t * x /\ lo <= t /\ t < hi
      BY <1>1, <1>2, <1>4, <2>1, <2>2, <2>3
    <2>6. x \in Nat \ {0} /\ lo \in Nat /\ hi \in Nat
      BY <1>3, <2>4
    <2> HIDE DEF x, lo, hi
    <2>7. lo * x <= t * x
      BY <2>5, <2>6, ProductOrder
    <2>8. t * x < hi * x
      BY <2>5, <2>6, ProductOrder
    <2>9. t * x \in Nat
      BY <2>6, ProductOrder
    <2> QED
      BY <2>5, <2>7, <2>8, <2>9
  <1>5. CASE s > 3
    <2>1. /\ s - 3 \in Nat /\ 3 + (s - 3) = s /\ 2 + (s - 3) = s - 1 /\ s <= TargetBytes + 1
          /\ s - 1 <= TargetBytes + 1
      BY <1>1, <1>5, PowerStep
    <2>2. P(3 + (s - 3)) = P(3) * P(s - 3)
      BY <2>1, PowerSum
    <2>3. P(2 + (s - 3)) = P(2) * P(s - 3)
      BY <2>1, PowerSum
    <2>4. P(s - 3) \in Nat \ {0}
      BY <2>1, <1>1, PowerType, PowerStep
    <2> DEFINE x == P(s - 3)
               lo == P(2)
               hi == P(3)
    <2>5. lo * x <= t /\ t < hi * x /\ TopOf(t) = t \div x
      BY <1>1, <1>2, <1>5, <2>1, <2>2, <2>3
    <2>6. x \in Nat \ {0} /\ lo \in Nat /\ hi \in Nat
      BY <1>3, <2>4
    <2> HIDE DEF x
    <2>7. t \div x \in Nat /\ lo <= t \div x /\ t \div x < hi
      <3> HIDE DEF lo, hi
      <3> QED
        BY <2>5, <2>6, QuotientBounds
    <2> QED
      BY <2>5, <2>7
  <1> QED
    BY <1>1, <1>4, <1>5

\* The mantissa fits below the sign bit, so masking it changes nothing.
LEMMA BitsParts ==
  ASSUME NEW t \in Nat \ {0}, t < P(TargetBytes)
  PROVE  /\ MantissaOf(t) \in 0..(SignBit - 1)
         /\ ExponentOf(t) \in Nat \ {0}
         /\ BitsFromTarget(t) = ExponentOf(t) * P(3) + MantissaOf(t)
  <1>1. SizeOf(t) \in Nat \ {0}
    BY SizeZero, SizeFacts, PowerStep
  <1>2. TopOf(t) \in Nat /\ P(2) <= TopOf(t) /\ TopOf(t) < P(3)
    BY TopRange
  <1>3. MantissaOf(t) \in 0..(SignBit - 1)
    <2>1. CASE ~Grows(t)
      BY <1>2, <2>1, SignFacts DEF Grows, MantissaOf
    <2>2. CASE Grows(t)
      <3> DEFINE x == TopOf(t)
                 sq == P(2)
      <3>1. x \in Nat /\ x < Byte * sq /\ sq \in Nat /\ sq <= SignBit
        <4>1. P(2 + 1) = Byte * P(2) /\ 2 + 1 = 3
          BY PowerStep
        <4> QED
          BY <1>2, <4>1, SignFacts, PowerType, PowerStep
      <3> HIDE DEF x, sq
      <3>2. x < sq * Byte /\ Byte \in Nat \ {0}
        BY <3>1, PowerStep
      <3>3. x \div Byte \in Nat /\ x \div Byte < sq
        BY <3>1, <3>2, QuotientBounds
      <3>4. MantissaOf(t) = x \div Byte
        BY <2>2 DEF MantissaOf, x
      <3> QED
        BY <3>1, <3>3, <3>4, SignFacts
    <2> QED
      BY <2>1, <2>2
  <1>4. MantissaOf(t) % SignBit = MantissaOf(t)
    <2> DEFINE m == MantissaOf(t)
    <2> HIDE DEF m
    <2> QED
      BY <1>3, SignFacts DEF m
  <1>5. BitsFromTarget(t) = ExponentOf(t) * P(3) + (MantissaOf(t) % SignBit)
    BY <1>1, SignFacts DEF BitsFromTarget, ExponentOf, MantissaOf, Grows, TopOf, P
  <1> QED
    BY <1>1, <1>3, <1>4, <1>5 DEF ExponentOf

\* What target_from_bits makes of an exponent and a mantissa.
Expand(e, m) ==
  IF e <= 3 THEN m \div P(3 - e) ELSE IF e <= TargetBytes THEN m * P(e - 3) ELSE 0

LEMMA TargetParts ==
  ASSUME NEW e \in Nat, NEW m \in 0..(SignBit - 1)
  PROVE  TargetFromBits(e * P(3) + m) = Expand(e, m)
  <1> DEFINE M == P(3)
             b == e * M + m
             c == (2 * e) * SignBit + m
  <1>1. M \in Nat \ {0} /\ M = 2 * SignBit /\ SignBit \in Nat \ {0} /\ m \in Nat /\ m < M
    BY SignFacts
  <1>2. Mantissas = M
    BY SignFacts
  <1> HIDE DEF M
  <1>3. e * M \in Nat /\ b \in Nat /\ b = c
    BY <1>1
  <1>4. b \div M = e
    <2> HIDE DEF b
    <2>1. e * M <= b /\ b < e * M + M
      BY <1>1, <1>3 DEF b
    <2> QED
      BY <1>1, <1>3, <2>1, QuotientIs
  <1>5. b \div SignBit = 2 * e
    <2> HIDE DEF b
    <2>1. (2 * e) * SignBit <= b /\ b < (2 * e) * SignBit + SignBit /\ 2 * e \in Nat
      BY <1>1, <1>3 DEF b
    <2> DEFINE k == 2 * e
    <2> HIDE DEF k
    <2>2. k * SignBit <= b /\ b < k * SignBit + SignBit /\ k \in Nat
      BY <2>1 DEF k
    <2>3. b \div SignBit = k
      BY <1>1, <1>3, <2>2, QuotientIs
    <2> QED
      BY <2>3 DEF k
  <1>6. b % SignBit = m
    <2> HIDE DEF b
    <2>1. b = SignBit * (b \div SignBit) + (b % SignBit) /\ b % SignBit \in 0..(SignBit - 1)
      BY <1>1, <1>3, ModRange
    <2>2. b = SignBit * (2 * e) + (b % SignBit)
      BY <1>5, <2>1
    <2>3. b = SignBit * (2 * e) + m
      BY <1>1, <1>3
    <2> DEFINE u == SignBit * (2 * e)
               v == b % SignBit
    <2>4. u \in Nat /\ v \in Nat /\ b = u + v /\ b = u + m
      BY <1>1, <2>1, <2>2, <2>3
    <2> HIDE DEF u, v
    <2>5. v = m
      BY <1>1, <2>4
    <2> QED
      BY <2>5 DEF v
  <1>7. TargetFromBits(b) = Expand(e, m)
    <2> HIDE DEF b
    <2> QED
      BY <1>2, <1>4, <1>6 DEF TargetFromBits, Expand, P
  <1> QED
    BY <1>7 DEF b, M

LEMMA QuotientTwice ==
  ASSUME NEW n \in Nat, NEW a \in Nat \ {0}, NEW b \in Nat \ {0}
  PROVE  (n \div a) \div b = n \div (b * a)
  <1> DEFINE q == n \div a
             r == q \div b
             c == b * a
  <1>1. q \in Nat /\ q * a <= n /\ n < q * a + a /\ q * a \in Nat
    BY QuotientBounds
  <1> HIDE DEF q
  <1>2. r \in Nat /\ r * b <= q /\ q < r * b + b /\ r * b \in Nat
    BY <1>1, QuotientBounds
  <1> HIDE DEF r
  <1>3. c \in Nat \ {0} /\ r * c = (r * b) * a /\ r * c + c = (r * b + b) * a
    BY <1>2
  <1> HIDE DEF c
  <1> DEFINE u == r * b
             v == r * b + b
  <1>4. u \in Nat /\ v \in Nat /\ u <= q /\ q < v /\ r * c = u * a /\ r * c + c = v * a
    BY <1>2, <1>3
  <1> HIDE DEF u, v
  <1>5. u * a <= q * a
    BY <1>1, <1>4, ProductOrder
  <1>6. q * a + a <= v * a
    BY <1>1, <1>4, ProductOrder
  <1>7. u * a \in Nat /\ v * a \in Nat
    BY <1>4, ProductOrder
  <1>8. r * c <= n /\ n < r * c + c
    BY <1>1, <1>4, <1>5, <1>6, <1>7
  <1>9. n \div c = r
    BY <1>2, <1>3, <1>8, QuotientIs
  <1> QED
    BY <1>9 DEF c, r, q

LEMMA QuotientOfProduct ==
  ASSUME NEW n \in Nat, NEW a \in Nat \ {0}
  PROVE  (n * a) \div a = n
  <1> DEFINE p == n * a
  <1>1. p \in Nat /\ n * a <= p /\ p < n * a + a
    OBVIOUS
  <1> HIDE DEF p
  <1>2. p \div a = n
    BY <1>1, QuotientIs
  <1> QED
    BY <1>2 DEF p

\* A target below the sign bit of its highest byte, as every target of a compact form is.
Fits(t) == t \in Nat /\ t < SignBit * P(TargetBytes - 3)

LEMMA FitsInBytes ==
  ASSUME NEW t, Fits(t)
  PROVE  /\ t \in Nat /\ t < P(TargetBytes) /\ 2 * t < P(TargetBytes)
         /\ t # 0 /\ SizeOf(t) = TargetBytes => ~Grows(t)
  <1> DEFINE x == P(TargetBytes - 3)
             n == TargetBytes - 3
  <1>1. n \in Nat /\ n + 3 <= TargetBytes + 1 /\ n + 3 = TargetBytes
    BY PowerStep
  <1>2. P(n + 3) = P(n) * P(3)
    <2> HIDE DEF n
    <2> QED
      BY <1>1, PowerSum
  <1>3. x \in Nat \ {0} /\ P(TargetBytes) = x * P(3)
    BY <1>1, <1>2, PowerType, PowerStep
  <1>4. t \in Nat /\ t < SignBit * x
    BY DEF Fits
  <1>5. TargetBytes > 3 => TopOf(t) = t \div x \/ SizeOf(t) # TargetBytes
    BY PowerStep DEF TopOf
  <1> HIDE DEF x
  <1>6. x * P(3) = 2 * (SignBit * x) /\ SignBit * x \in Nat
    BY <1>3, SignFacts
  <1>7. t < P(TargetBytes) /\ 2 * t < P(TargetBytes)
    BY <1>3, <1>4, <1>6
  <1>8. t \div x \in Nat /\ t \div x < SignBit
    BY <1>3, <1>4, SignFacts, QuotientBounds
  <1> QED
    BY <1>4, <1>5, <1>7, <1>8, SignFacts, PowerStep DEF Grows

\* The unit of the compact form of a target, and what is left of the target in it.
Unit(t) == IF SizeOf(t) < 3 THEN 0 ELSE IF Grows(t) THEN SizeOf(t) - 2 ELSE SizeOf(t) - 3
Trunc(t) == TargetFromBits(BitsFromTarget(t))

LEMMA TruncExpands ==
  ASSUME NEW t \in Nat \ {0}, Fits(t)
  PROVE  Trunc(t) = Expand(ExponentOf(t), MantissaOf(t))
  BY FitsInBytes, BitsParts, TargetParts DEF Trunc

LEMMA Truncated ==
  ASSUME NEW t \in Nat \ {0}, Fits(t)
  PROVE  Unit(t) \in 0..TargetBytes /\ Trunc(t) = (t \div P(Unit(t))) * P(Unit(t))
  <1> DEFINE s == SizeOf(t)
             g == Grows(t)
  <1>1. s \in 1..TargetBytes /\ (s = TargetBytes => ~g)
    BY FitsInBytes, SizeFacts, SizeZero, PowerStep
  <1>2. /\ TopOf(t) = IF s <= 3 THEN t * P(3 - s) ELSE t \div P(s - 3)
        /\ ExponentOf(t) = IF g THEN s + 1 ELSE s
        /\ MantissaOf(t) = IF g THEN TopOf(t) \div Byte ELSE TopOf(t)
        /\ Unit(t) = IF s < 3 THEN 0 ELSE IF g THEN s - 2 ELSE s - 3
    BY DEF TopOf, ExponentOf, MantissaOf, Unit
  <1>3. Trunc(t) = Expand(ExponentOf(t), MantissaOf(t))
    BY TruncExpands
  <1>4. g \in BOOLEAN
    BY DEF Grows
  <1> HIDE DEF s, g
  <1>5. Unit(t) \in 0..TargetBytes
    BY <1>1, <1>2, PowerStep
  <1>6. P(0) = 1 /\ P(1) = Byte /\ Byte \in Nat \ {0} /\ (t \div 1) * 1 = t
    BY SignFacts, PowerStep
  <1>7. CASE s < 3
    <2> DEFINE x == P(3 - s)
               y == P(2 - s)
    <2>1. s \in Nat /\ 2 - s \in 0..TargetBytes /\ (2 - s) + 1 = 3 - s /\ 3 - s \in 0..TargetBytes
      BY <1>1, <1>7, PowerStep
    <2>2. P((2 - s) + 1) = Byte * P(2 - s)
      BY <2>1, PowerStep
    <2>3. x = Byte * y
      BY <2>1, <2>2
    <2>4. x \in Nat \ {0} /\ y \in Nat \ {0}
      BY <2>1, PowerType, PowerStep
    <2>5. TopOf(t) = t * x
      BY <1>2, <1>7, <2>1
    <2> HIDE DEF x, y
    <2>6. CASE ~g
      <3>1. Trunc(t) = (t * x) \div x
        BY <1>2, <1>3, <1>7, <2>1, <2>5, <2>6 DEF Expand, x
      <3>2. (t * x) \div x = t
        BY <2>4, QuotientOfProduct
      <3> QED
        BY <1>2, <1>5, <1>6, <1>7, <3>1, <3>2
    <2>7. CASE g
      <3>1. MantissaOf(t) = ((t * y) * Byte) \div Byte
        <4>1. t * x = (t * y) * Byte
          BY <2>3, <2>4, <1>6
        <4> QED
          BY <1>2, <2>5, <2>7, <4>1
      <3>2. t * y \in Nat
        BY <2>4
      <3>3. MantissaOf(t) = t * y
        <4> DEFINE p == t * y
        <4> HIDE DEF p
        <4>1. (p * Byte) \div Byte = p
          BY <1>6, <3>2, QuotientOfProduct DEF p
        <4> QED
          BY <3>1, <4>1 DEF p
      <3>4. Trunc(t) = (t * y) \div y
        <4>1. ExponentOf(t) = s + 1 /\ s + 1 <= 3 /\ 3 - (s + 1) = 2 - s
          BY <1>2, <2>1, <2>7
        <4>2. Trunc(t) = (t * y) \div P(3 - (s + 1))
          BY <1>3, <3>3, <4>1 DEF Expand
        <4> QED
          BY <4>1, <4>2 DEF y
      <3>5. (t * y) \div y = t
        BY <2>4, QuotientOfProduct
      <3> QED
        BY <1>2, <1>5, <1>6, <1>7, <3>4, <3>5
    <2> QED
      BY <2>6, <2>7
  <1>8. CASE s = 3
    <2>1. TopOf(t) = t
      BY <1>2, <1>6, <1>8
    <2>2. CASE ~g
      BY <1>2, <1>3, <1>5, <1>6, <1>8, <2>1, <2>2 DEF Expand
    <2>3. CASE g
      <3>1. ExponentOf(t) = 4 /\ MantissaOf(t) = t \div Byte /\ Unit(t) = 1
        BY <1>2, <1>8, <2>1, <2>3
      <3> QED
        BY <1>3, <1>5, <1>6, <3>1, PowerStep DEF Expand
    <2> QED
      BY <2>2, <2>3
  <1>9. CASE s > 3
    <2> DEFINE x == P(s - 3)
    <2>1. TopOf(t) = t \div x
      BY <1>1, <1>2, <1>9
    <2>2. CASE ~g
      BY <1>1, <1>2, <1>3, <1>5, <1>9, <2>1, <2>2 DEF Expand
    <2>3. CASE g
      <3>1. /\ s - 3 \in 0..TargetBytes /\ (s - 3) + 1 = s - 2 /\ (s + 1) - 3 = s - 2
            /\ s + 1 <= TargetBytes /\ ~(s + 1 <= 3) /\ ~(s < 3)
        BY <1>1, <1>9, <2>3, PowerStep
      <3>2. P((s - 3) + 1) = Byte * P(s - 3)
        BY <3>1, PowerStep
      <3>3. P(s - 2) = Byte * x /\ x \in Nat \ {0}
        BY <3>1, <3>2, PowerType, PowerStep
      <3>4. ExponentOf(t) = s + 1 /\ MantissaOf(t) = (t \div x) \div Byte /\ Unit(t) = s - 2
        BY <1>2, <2>1, <2>3, <3>1
      <3> HIDE DEF x
      <3>5. (t \div x) \div Byte = t \div (Byte * x)
        BY <1>6, <3>3, QuotientTwice
      <3>6. Trunc(t) = MantissaOf(t) * P((s + 1) - 3)
        BY <1>3, <3>1, <3>4 DEF Expand
      <3> QED
        BY <1>5, <3>1, <3>3, <3>4, <3>5, <3>6
    <2> QED
      BY <2>2, <2>3
  <1> QED
    BY <1>1, <1>5, <1>7, <1>8, <1>9

LEMMA ZeroTarget == BitsFromTarget(0) = 0 /\ Trunc(0) = 0 /\ SizeOf(0) = 0 /\ Fits(0)
  <1>1. 0 < P(TargetBytes) /\ P(TargetBytes - 3) \in Nat \ {0} /\ P(3) \in Nat \ {0}
    BY PowerType, PowerStep
  <1>2. SizeOf(0) = 0
    BY <1>1, SizeZero
  <1>3. BitsFromTarget(0) = 0
    BY <1>2 DEF BitsFromTarget
  <1>4. 0 * P(3) + 0 = 0 /\ 0 \in 0..(SignBit - 1)
    BY <1>1, SignFacts
  <1>5. TargetFromBits(0 * P(3) + 0) = Expand(0, 0)
    BY <1>4, TargetParts
  <1>6. Expand(0, 0) = 0
    <2>1. 0 \div P(3) = 0
      BY <1>1
    <2> QED
      BY <2>1 DEF Expand
  <1>7. Fits(0)
    <2> DEFINE x == P(TargetBytes - 3)
    <2> HIDE DEF x
    <2>1. 0 < SignBit * x
      BY <1>1, SignFacts DEF x
    <2> QED
      BY <2>1 DEF Fits, x
  <1> QED
    BY <1>2, <1>3, <1>4, <1>5, <1>6, <1>7 DEF Trunc

\* The compact form drops less than one unit of its last digit and keeps the size.
LEMMA TruncRange ==
  ASSUME NEW t \in Nat \ {0}, Fits(t)
  PROVE  /\ Trunc(t) \in Nat /\ Trunc(t) <= t /\ t < Trunc(t) + Ulp(t)
         /\ P(SizeOf(t) - 1) <= Trunc(t)
         /\ SizeOf(Trunc(t)) = SizeOf(t)
  <1> DEFINE s == SizeOf(t)
             k == Unit(t)
             u == P(k)
             x == Trunc(t)
  <1>1. s \in 1..TargetBytes /\ P(s - 1) <= t /\ t < P(s) /\ t < P(TargetBytes)
    BY FitsInBytes, SizeFacts, SizeZero, PowerStep
  <1>2. k \in 0..TargetBytes /\ x = (t \div u) * u
    BY Truncated
  <1>3. u \in Nat \ {0}
    BY <1>2, PowerType, PowerStep
  <1>4. k = (IF s < 3 THEN 0 ELSE IF Grows(t) THEN s - 2 ELSE s - 3)
    BY DEF Unit
  <1>5. Ulp(t) = IF s <= 2 THEN 1 ELSE P(s - 2)
    BY DEF Ulp, P
  <1> HIDE DEF s, k
  <1>6. k <= s - 1 /\ k \in Nat /\ s - 1 \in Nat /\ s - 1 <= TargetBytes + 1
    BY <1>1, <1>4, PowerStep
  <1>7. u <= Ulp(t)
    <2>1. CASE s <= 2
      BY <1>1, <1>4, <1>5, <2>1, PowerStep
    <2>2. CASE s > 2
      <3>1. k <= s - 2 /\ s - 2 \in Nat /\ s - 2 <= TargetBytes + 1
        BY <1>1, <1>4, <2>2, PowerStep
      <3>2. P(k) <= P(s - 2)
        <4> DEFINE j == s - 2
        <4> HIDE DEF j
        <4>1. P(k) <= P(j)
          BY <1>6, <3>1, PowerOrder DEF j
        <4> QED
          BY <4>1 DEF j
      <3> QED
        BY <1>1, <1>5, <2>2, <3>2
    <2> QED
      BY <1>1, <2>1, <2>2
  <1>8. PICK d \in Nat : P(s - 1) = d * u
    <2> DEFINE j == (s - 1) - k
    <2>1. j \in Nat /\ j + k = s - 1 /\ j + k <= TargetBytes + 1 /\ j <= TargetBytes + 1
      BY <1>6, PowerStep
    <2> HIDE DEF j
    <2>2. P(j + k) = P(j) * P(k)
      BY <1>6, <2>1, PowerSum
    <2>3. P(j) \in Nat
      BY <2>1, PowerType, PowerStep
    <2> QED
      BY <2>1, <2>2, <2>3
  <1> HIDE DEF u
  <1>9. t \div u \in Nat /\ (t \div u) * u \in Nat /\ (t \div u) * u <= t /\ t < (t \div u) * u + u
    BY <1>3, QuotientBounds
  <1>10. d <= t \div u
    BY <1>1, <1>3, <1>8, QuotientBounds
  <1>11. d * u <= (t \div u) * u
    <2> DEFINE q == t \div u
    <2> HIDE DEF q
    <2>1. q \in Nat /\ d <= q
      BY <1>9, <1>10 DEF q
    <2>2. d * u <= q * u
      BY <1>3, <2>1, ProductOrder
    <2> QED
      BY <2>2 DEF q
  <1>12. P(s - 1) \in Nat /\ P(s) \in Nat /\ P(TargetBytes) \in Nat
    BY <1>1, <1>6, PowerType, PowerStep
  <1>13. Ulp(t) \in Nat
    <2>1. s > 2 => P(s - 2) \in Nat
      BY <1>1, PowerType, PowerStep
    <2> QED
      BY <1>1, <1>5, <2>1
  <1>14. x \in Nat /\ x <= t /\ t < x + Ulp(t) /\ P(s - 1) <= x
    BY <1>2, <1>3, <1>7, <1>8, <1>9, <1>11, <1>12, <1>13
  <1> HIDE DEF x
  <1>15. SizeOf(x) = s
    <2>1. x < P(s) /\ x < P(TargetBytes) /\ x \in Nat
      BY <1>1, <1>12, <1>14
    <2> QED
      BY <1>1, <1>14, <2>1, SizeIs
  <1> QED
    BY <1>14, <1>15 DEF x, s

\* A compact target is the canonical form of itself.
LEMMA BitsCanonical ==
  ASSUME NEW t \in Nat \ {0}, Fits(t)
  PROVE  BitsFromTarget(Trunc(t)) = BitsFromTarget(t)
  <1> DEFINE s == SizeOf(t)
             x == Trunc(t)
  <1>1. s \in 1..TargetBytes /\ t < P(TargetBytes)
    BY FitsInBytes, SizeFacts, SizeZero, PowerStep
  <1>2. x \in Nat /\ x <= t /\ SizeOf(x) = s /\ P(s - 1) <= x
    BY TruncRange
  <1>3. x = (t \div P(Unit(t))) * P(Unit(t))
    BY Truncated
  <1>4. /\ TopOf(t) = IF s <= 3 THEN t * P(3 - s) ELSE t \div P(s - 3)
        /\ Unit(t) = IF s < 3 THEN 0 ELSE IF Grows(t) THEN s - 2 ELSE s - 3
    BY DEF TopOf, Unit
  <1>5. TopOf(x) = IF s <= 3 THEN x * P(3 - s) ELSE x \div P(s - 3)
    BY <1>2 DEF TopOf
  <1> HIDE DEF s, x
  <1>6. P(0) = 1 /\ P(1) = Byte /\ Byte \in Nat \ {0} /\ (t \div 1) * 1 = t /\ t * 1 = t /\ x * 1 = x
    BY <1>2, SignFacts, PowerStep
  <1>7. x \in Nat \ {0} /\ x < P(TargetBytes)
    <2>1. P(s - 1) \in Nat \ {0} /\ P(TargetBytes) \in Nat
      BY <1>1, PowerType, PowerStep
    <2> QED
      BY <1>1, <1>2, <2>1
  <1>8. TopOf(t) \in Nat
    BY <1>1, TopRange
  <1> SUFFICES Grows(x) = Grows(t) /\ MantissaOf(x) = MantissaOf(t)
    BY <1>1, <1>2, <1>7, BitsParts DEF ExponentOf, s, x
  <1>9. CASE x = t
    BY <1>9
  <1>10. CASE s >= 3 /\ ~Grows(t)
    <2>1. CASE s = 3
      <3>1. x = t
        BY <1>3, <1>4, <1>6, <1>10, <2>1
      <3> QED
        BY <1>9, <3>1
    <2>2. CASE s > 3
      <3> DEFINE u == P(s - 3)
                 q == t \div u
      <3>1. u \in Nat \ {0} /\ x = q * u /\ TopOf(t) = q /\ TopOf(x) = x \div u
        BY <1>1, <1>3, <1>4, <1>5, <1>10, <2>2, PowerType, PowerStep
      <3> HIDE DEF u
      <3>2. q \in Nat
        BY <3>1, QuotientBounds
      <3> HIDE DEF q
      <3>3. TopOf(x) = TopOf(t)
        BY <3>1, <3>2, QuotientOfProduct
      <3> QED
        BY <3>3 DEF Grows, MantissaOf
    <2> QED
      BY <1>1, <1>10, <2>1, <2>2
  <1>11. CASE s >= 3 /\ Grows(t)
    <2> DEFINE T == TopOf(t)
               q == T \div Byte
    <2>1. T \in Nat /\ T >= SignBit
      BY <1>8, <1>11 DEF Grows
    <2>2. TopOf(x) = q * Byte
      <3>1. CASE s = 3
        BY <1>3, <1>4, <1>5, <1>6, <1>11, <3>1
      <3>2. CASE s > 3
        <4> DEFINE u == P(s - 3)
        <4>1. s - 3 \in 0..TargetBytes /\ (s - 3) + 1 = s - 2
          BY <1>1, <3>2, PowerStep
        <4>2. P((s - 3) + 1) = Byte * P(s - 3)
          BY <4>1, PowerStep
        <4>3. u \in Nat \ {0} /\ P(s - 2) = Byte * u
          BY <4>1, <4>2, PowerType, PowerStep
        <4>4. Unit(t) = s - 2 /\ T = t \div u /\ TopOf(x) = x \div u
          BY <1>1, <1>4, <1>5, <1>11, <3>2
        <4> HIDE DEF u
        <4>5. (t \div u) \div Byte = t \div (Byte * u)
          BY <1>6, <4>3, QuotientTwice
        <4>6. x = q * (Byte * u)
          BY <1>3, <4>3, <4>4, <4>5
        <4> HIDE DEF T
        <4>7. q \in Nat
          BY <1>6, <2>1, QuotientBounds
        <4> HIDE DEF q
        <4>8. x = (q * Byte) * u /\ q * Byte \in Nat
          BY <1>6, <4>3, <4>6, <4>7
        <4> DEFINE p == q * Byte
        <4> HIDE DEF p
        <4>9. x \div u = p
          BY <4>3, <4>8, QuotientOfProduct DEF p
        <4> QED
          BY <4>4, <4>9 DEF p
      <3> QED
        BY <1>1, <1>11, <3>1, <3>2
    <2> HIDE DEF T
    <2>3. q \in Nat
      BY <1>6, <2>1, QuotientBounds
    <2>4. PICK h \in Nat : SignBit = h * Byte
      BY SignFacts
    <2>5. h <= q
      BY <1>6, <2>1, <2>4, QuotientBounds
    <2> HIDE DEF q
    <2>6. h * Byte <= q * Byte
      BY <1>6, <2>3, <2>5, ProductOrder
    <2>7. Grows(x)
      BY <2>2, <2>4, <2>6 DEF Grows
    <2>8. MantissaOf(x) = (q * Byte) \div Byte
      BY <2>2, <2>7 DEF MantissaOf
    <2>9. (q * Byte) \div Byte = q
      BY <1>6, <2>3, QuotientOfProduct
    <2>10. MantissaOf(t) = q
      BY <1>11 DEF MantissaOf, q, T
    <2>11. Grows(t) = TRUE /\ Grows(x) = TRUE
      BY <1>11, <2>7 DEF Grows
    <2> QED
      BY <2>8, <2>9, <2>10, <2>11
  <1>12. s < 3 => x = t
    BY <1>3, <1>4, <1>6
  <1> QED
    BY <1>1, <1>9, <1>10, <1>11, <1>12

\* Every compact form stands for a target that fits, the easiest one included.
LEMMA MaxTargetFits ==
  /\ Fits(TargetFromBits(MaxTargetBits))
  /\ \A t \in 0..TargetFromBits(MaxTargetBits) : Fits(t)
  <1> DEFINE e == MaxTargetBits \div Mantissas
             m == MaxTargetBits % SignBit
             x == TargetFromBits(MaxTargetBits)
             top == P(TargetBytes - 3)
  <1>1. MaxTargetBits \in Nat /\ Mantissas \in Nat \ {0} /\ SignBit \in Nat \ {0}
    BY DifficultyAssumption, SignFacts, PowerType, PowerStep DEF DifficultyAssumption
  <1>2. e \in Nat /\ m \in 0..(SignBit - 1)
    BY <1>1, ModRange
  <1>3. x = Expand(e, m)
    BY DEF TargetFromBits, Expand, P
  <1>4. top \in Nat \ {0}
    BY PowerType, PowerStep
  <1> HIDE DEF e, m, x
  <1>5. SignBit * top \in Nat /\ SignBit <= SignBit * top
    <2> HIDE DEF top
    <2> QED
      BY <1>1, <1>4
  <1>6. x \in Nat /\ x < SignBit * top
    <2>1. CASE e <= 3
      <3> DEFINE y == P(3 - e)
      <3>1. y \in Nat \ {0} /\ x = m \div y
        BY <1>2, <1>3, <2>1, PowerType, PowerStep DEF Expand
      <3> HIDE DEF y
      <3>2. m \div y \in Nat /\ (m \div y) * y <= m /\ m \in Nat
        BY <1>2, <3>1, QuotientBounds
      <3> DEFINE q == m \div y
      <3> HIDE DEF q
      <3>3. q <= q * y
        BY <3>1, <3>2 DEF q
      <3>4. q <= m
        BY <3>2, <3>3, <3>1 DEF q
      <3> QED
        BY <1>1, <1>2, <1>5, <3>1, <3>2, <3>4 DEF q
    <2>2. CASE e > 3 /\ e <= TargetBytes
      <3> DEFINE y == P(e - 3)
      <3>1. y \in Nat \ {0} /\ x = m * y
        BY <1>2, <1>3, <2>2, PowerType, PowerStep DEF Expand
      <3>2. y <= top
        <4> DEFINE i == e - 3
                   j == TargetBytes - 3
        <4>1. i \in Nat /\ j \in Nat /\ i <= j /\ j <= TargetBytes + 1
          BY <1>2, <2>2, PowerStep
        <4> HIDE DEF i, j
        <4>2. P(i) <= P(j)
          BY <4>1, PowerOrder
        <4> QED
          BY <4>2 DEF i, j
      <3> HIDE DEF y, top
      <3>3. m * y <= m * top
        BY <1>2, <1>4, <3>1, <3>2, ProductOrder
      <3>4. m \in Nat /\ m < SignBit /\ m * top < SignBit * top
        BY <1>1, <1>2, <1>4, ProductOrder
      <3>5. m * y \in Nat /\ m * top \in Nat
        BY <1>2, <1>4, <3>1, ProductOrder
      <3> QED
        BY <1>5, <3>1, <3>3, <3>4, <3>5
    <2>3. CASE e > TargetBytes
      <3>1. x = 0
        BY <1>2, <1>3, <2>3, PowerStep DEF Expand
      <3> QED
        BY <1>1, <1>5, <3>1
    <2> QED
      BY <1>2, <2>1, <2>2, <2>3, PowerStep
  <1> HIDE DEF top
  <1>7. \A t \in 0..x : t \in Nat /\ t < SignBit * top
    BY <1>5, <1>6
  <1> QED
    BY <1>6, <1>7 DEF Fits, x, top

\* What the chainwork formula computes within 256 bits.
LEMMA WorkQuotient ==
  ASSUME NEW M \in Nat, NEW x \in Nat \ {0}, x + 1 < M
  PROVE  ((M - 1 - x) \div (x + 1) + 1) % M = M \div (x + 1)
  <1> DEFINE H == x + 1
             n == M - 1 - x
             q == n \div H
  <1>1. H \in Nat \ {0} /\ H >= 2 /\ n \in Nat /\ M = n + H
    OBVIOUS
  <1> HIDE DEF H, n
  <1>2. q \in Nat /\ q * H <= n /\ n < q * H + H /\ q * H \in Nat
    BY <1>1, QuotientBounds
  <1> HIDE DEF q
  <1>3. q + 1 \in Nat /\ (q + 1) * H = q * H + H
    BY <1>1, <1>2
  <1> DEFINE r == q + 1
  <1>4. r \in Nat /\ r >= 1 /\ r * H <= M /\ M < r * H + H
    BY <1>1, <1>2, <1>3
  <1> HIDE DEF r
  <1>5. M \div H = r
    BY <1>1, <1>4, QuotientIs
  <1>6. r < M
    <2>1. r * 2 <= r * H
      BY <1>1, <1>4
    <2> QED
      BY <1>1, <1>4, <2>1
  <1>7. r % M = r
    BY <1>4, <1>6
  <1> QED
    BY <1>5, <1>7 DEF r, q, n, H

LEMMA CompactForms ==
  ASSUME NEW t \in 0..TargetFromBits(MaxTargetBits)
  PROVE  LET bits == BitsFromTarget(t)
             target == TargetFromBits(bits)
         IN  /\ BitsFromTarget(target) = bits
             /\ target > 0 => CalculateChainwork(bits) = Modulus \div (target + 1)
  <1> DEFINE bits == BitsFromTarget(t)
             x == Trunc(t)
  <1>1. Fits(t) /\ t \in Nat
    BY MaxTargetFits DEF Fits
  <1>2. x = TargetFromBits(bits)
    BY DEF Trunc
  <1>3. BitsFromTarget(x) = bits
    <2>1. CASE t = 0
      BY <2>1, ZeroTarget
    <2>2. CASE t # 0
      BY <1>1, <2>2, BitsCanonical
    <2> QED
      BY <2>1, <2>2
  <1>4. ASSUME x > 0 PROVE CalculateChainwork(bits) = Modulus \div (x + 1)
    <2>1. t # 0
      BY <1>4, ZeroTarget
    <2>2. x \in Nat /\ x <= t
      BY <1>1, <2>1, TruncRange
    <2>3. 2 * t < P(TargetBytes) /\ P(TargetBytes) \in Nat /\ Modulus = P(TargetBytes)
      BY <1>1, FitsInBytes, SignFacts, PowerType, PowerStep
    <2>4. P(4) <= P(TargetBytes) /\ P(4) >= 4
      <3>1. P(4) <= P(TargetBytes)
        BY PowerOrder, PowerStep
      <3>2. P(3 + 1) = Byte * P(3) /\ 3 + 1 = 4
        BY PowerStep
      <3>3. P(3) \in Nat /\ P(3) >= 2
        BY SignFacts, PowerType, PowerStep
      <3> DEFINE y == P(3)
      <3> HIDE DEF y
      <3>4. Byte * y >= 4
        BY <3>3, PowerStep DEF y
      <3> QED
        BY <3>1, <3>2, <3>4 DEF y
    <2>5. x \in Nat \ {0} /\ x + 1 < Modulus /\ Modulus \in Nat
      <3>1. P(4) \in Nat
        BY PowerType, PowerStep
      <3> QED
        BY <1>1, <1>4, <2>2, <2>3, <2>4, <3>1
    <2> HIDE DEF x, bits
    <2>6. x + 1 # Modulus
      BY <2>5
    <2>7. ((Modulus - 1 - x) \div (x + 1) + 1) % Modulus = Modulus \div (x + 1)
      BY <2>5, WorkQuotient
    <2> QED
      BY <1>2, <2>6, <2>7 DEF CalculateChainwork
  <1> QED
    BY <1>2, <1>3, <1>4

\* Compact targets lose nothing, for every size of a byte and of a target: the bits of an
\* epoch are the canonical encoding of their target, so that comparing bits
\* (bits_from_target, target_from_bits) compares targets, and a block's work is exactly
\* 2^256 / (target + 1) (calculate_chainwork).
THEOREM CompactIsExact == Spec => []CompactExact
  <1>1. CompactExact
    BY CompactForms DEF CompactExact, EpochBits
  <1> QED
    BY <1>1, PTL

LEMMA UlpOrder ==
  ASSUME NEW x, NEW y, Fits(x), Fits(y)
  PROVE  /\ Ulp(y) \in Nat \ {0}
         /\ SizeOf(x) <= SizeOf(y) => Ulp(x) <= Ulp(y)
  <1> DEFINE i == SizeOf(x)
             j == SizeOf(y)
  <1>1. i \in 0..TargetBytes /\ j \in 0..TargetBytes
    BY FitsInBytes, SizeFacts
  <1>2. /\ Ulp(x) = IF i <= 2 THEN 1 ELSE P(i - 2)
        /\ Ulp(y) = IF j <= 2 THEN 1 ELSE P(j - 2)
    BY DEF Ulp, P
  <1> HIDE DEF i, j
  <1>3. (i > 2 => P(i - 2) \in Nat \ {0}) /\ (j > 2 => P(j - 2) \in Nat \ {0})
    BY <1>1, PowerType, PowerStep
  <1>4. ASSUME i > 2, i <= j PROVE P(i - 2) <= P(j - 2)
    <2> DEFINE a == i - 2
               b == j - 2
    <2>1. a \in Nat /\ b \in Nat /\ a <= b /\ b <= TargetBytes + 1
      BY <1>1, <1>4, PowerStep
    <2> HIDE DEF a, b
    <2>2. P(a) <= P(b)
      BY <2>1, PowerOrder
    <2> QED
      BY <2>2 DEF a, b
  <1>5. Ulp(y) \in Nat \ {0}
    BY <1>1, <1>2, <1>3
  <1>6. i <= j => Ulp(x) <= Ulp(y)
    BY <1>1, <1>2, <1>3, <1>4
  <1> QED
    BY <1>5, <1>6 DEF i, j

\* A target of at least a quarter of old loses less than a unit of old by truncation.
LEMMA QuarterKept ==
  ASSUME NEW old \in Nat \ {0}, NEW y \in Nat, Fits(old), Fits(y), old <= 4 * y + 3
  PROVE  4 * (Trunc(y) + Ulp(old)) > old
  <1>1. Ulp(old) \in Nat \ {0}
    BY UlpOrder
  <1>2. CASE y = 0
    BY <1>1, <1>2, ZeroTarget
  <1>3. CASE y # 0
    <2>1. /\ Trunc(y) \in Nat /\ y < Trunc(y) + Ulp(y) /\ P(SizeOf(y) - 1) <= Trunc(y)
      BY <1>3, TruncRange
    <2>2. CASE SizeOf(y) <= SizeOf(old)
      <3>1. Ulp(y) <= Ulp(old) /\ Ulp(y) \in Nat
        BY <2>2, UlpOrder
      <3> QED
        BY <1>1, <2>1, <3>1
    <2>3. CASE SizeOf(y) > SizeOf(old)
      <3> DEFINE i == SizeOf(old)
                 j == SizeOf(y) - 1
      <3>1. i \in Nat /\ j \in Nat /\ i <= j /\ j <= TargetBytes + 1 /\ i <= TargetBytes + 1 /\ old < P(i)
        BY <2>3, FitsInBytes, SizeFacts, PowerStep
      <3> HIDE DEF i
      <3>2. P(j) <= Trunc(y)
        BY <2>1
      <3> HIDE DEF j
      <3>3. P(i) <= P(j) /\ P(i) \in Nat /\ P(j) \in Nat
        BY <3>1, PowerOrder, PowerType, PowerStep
      <3> QED
        BY <1>1, <2>1, <3>1, <3>2, <3>3
    <2> QED
      <3>1. SizeOf(y) \in Nat /\ SizeOf(old) \in Nat
        BY FitsInBytes, SizeFacts, PowerStep
      <3> QED
        BY <2>2, <2>3, <3>1
  <1> QED
    BY <1>2, <1>3

\* The new target before it is made compact, without overflow and within the clamps.
LEMMA ScaledRange ==
  ASSUME NEW old \in 1..TargetFromBits(MaxTargetBits), NEW span \in Nat,
         TargetFromBits(MaxTargetBits) \in Nat
  PROVE  LET clamped == Larger(TargetTimespan \div 4, Smaller(span, TargetTimespan * 4))
             scaled  == ((old * clamped) % Modulus) \div TargetTimespan
         IN  scaled \in Nat /\ scaled <= 4 * old /\ old <= 4 * scaled + 3
  <1> DEFINE TT == TargetTimespan
             h == TT \div 4
             c == Larger(h, Smaller(span, TT * 4))
             max == TargetFromBits(MaxTargetBits)
             n == old * c
             y == n \div TT
             z == old \div 4
  <1>1. TT \in Nat \ {0} /\ h \in Nat \ {0} /\ TT = 4 * h
    BY DifficultyAssumption, RetargetAssumption DEF DifficultyAssumption, RetargetAssumption
  <1>2. max \in Nat /\ max * (TT * 4) < Modulus /\ Modulus \in Nat /\ old \in Nat /\ 1 <= old /\ old <= max
    BY RetargetAssumption, SignFacts, PowerType, PowerStep DEF RetargetAssumption
  <1> HIDE DEF TT, h, max
  <1>3. c \in Nat /\ h <= c /\ c <= TT * 4
    BY <1>1 DEF Larger, Smaller
  <1> HIDE DEF c
  <1>4. n \in Nat /\ old * h <= n /\ n <= old * (TT * 4) /\ old * h \in Nat
    <2>1. h * old <= c * old
      BY <1>1, <1>2, <1>3, ProductOrder
    <2> DEFINE f == TT * 4
    <2>2. f \in Nat /\ c <= f
      BY <1>1, <1>3
    <2> HIDE DEF f
    <2>3. c * old <= f * old
      BY <1>2, <1>3, <2>2, ProductOrder
    <2>4. /\ h * old = old * h /\ c * old = old * c /\ f * old = old * f
          /\ old * c \in Nat /\ old * h \in Nat
      BY <1>1, <1>2, <1>3, <2>2, ProductOrder
    <2> QED
      BY <2>1, <2>3, <2>4 DEF f
  <1>5. n < Modulus
    <2> DEFINE f == TT * 4
    <2>1. f \in Nat /\ n <= old * f /\ max * f < Modulus
      BY <1>1, <1>2, <1>4
    <2> HIDE DEF f, n
    <2>2. old * f <= max * f /\ old * f \in Nat /\ max * f \in Nat
      BY <1>2, <2>1, ProductOrder
    <2> QED
      BY <1>2, <1>4, <2>1, <2>2
  <1> HIDE DEF n
  <1>6. n % Modulus = n
    BY <1>2, <1>4, <1>5
  <1>7. y \in Nat /\ y <= 4 * old
    <2> DEFINE q == 4 * old + 1
    <2>1. q \in Nat /\ q * TT = old * (TT * 4) + TT
      BY <1>1, <1>2
    <2>2. n < q * TT
      BY <1>1, <1>2, <1>4, <2>1
    <2> HIDE DEF q
    <2>3. y \in Nat /\ y < q
      BY <1>1, <1>4, <2>1, <2>2, QuotientBounds
    <2> QED
      BY <1>2, <2>1, <2>3 DEF q
  <1>8. z \in Nat /\ z * 4 <= old /\ old < z * 4 + 4
    BY <1>2
  <1> HIDE DEF z
  <1>9. z <= y
    <2>1. (z * 4) * h <= old * h
      <3> DEFINE a == z * 4
      <3>1. a \in Nat /\ a <= old
        BY <1>2, <1>8
      <3> HIDE DEF a
      <3>2. a * h <= old * h
        BY <1>1, <1>2, <3>1, ProductOrder
      <3> QED
        BY <3>2 DEF a
    <2>2. z * TT = (z * 4) * h /\ z * TT \in Nat
      BY <1>1, <1>8
    <2>3. z * TT <= n
      BY <1>4, <2>1, <2>2
    <2> QED
      BY <1>1, <1>4, <1>8, <2>3, QuotientBounds
  <1>10. old <= 4 * y + 3
    BY <1>2, <1>7, <1>8, <1>9
  <1> QED
    BY <1>6, <1>7, <1>10 DEF n, c, h, TT

LEMMA Retargets ==
  ASSUME NEW t \in 0..TargetFromBits(MaxTargetBits), NEW span \in Nat, BitsFromTarget(t) # 0
  PROVE  LET old == TargetFromBits(BitsFromTarget(t))
             new == TargetFromBits(CalculateNewBits(BitsFromTarget(t), span))
         IN  /\ new <= 4 * old
             /\ new <= TargetFromBits(MaxTargetBits)
             /\ 4 * (new + Ulp(old)) > old
  <1> DEFINE max == TargetFromBits(MaxTargetBits)
             old == Trunc(t)
             clamped == Larger(TargetTimespan \div 4, Smaller(span, TargetTimespan * 4))
             scaled == ((old * clamped) % Modulus) \div TargetTimespan
             y == Smaller(scaled, max)
             new == Trunc(y)
  <1>1. max \in Nat /\ t \in Nat /\ t # 0 /\ t <= max /\ Fits(t)
    BY MaxTargetFits, ZeroTarget DEF Fits
  <1>2. old = TargetFromBits(BitsFromTarget(t))
    BY DEF Trunc
  <1>3. new = TargetFromBits(CalculateNewBits(BitsFromTarget(t), span))
    BY <1>2 DEF CalculateNewBits, Trunc
  <1>4. old \in Nat /\ old <= t /\ old # 0
    <2>1. Trunc(t) \in Nat /\ Trunc(t) <= t /\ P(SizeOf(t) - 1) <= Trunc(t)
      BY <1>1, TruncRange
    <2>2. SizeOf(t) \in 1..TargetBytes
      BY <1>1, FitsInBytes, SizeFacts, SizeZero, PowerStep
    <2>3. P(SizeOf(t) - 1) \in Nat \ {0}
      BY <2>2, PowerType, PowerStep
    <2> QED
      BY <2>1, <2>3
  <1> HIDE DEF old, max
  <1>5. scaled \in Nat /\ scaled <= 4 * old /\ old <= 4 * scaled + 3
    <2>1. old \in 1..max
      BY <1>1, <1>4
    <2> QED
      BY <1>1, <2>1, ScaledRange DEF max
  <1> HIDE DEF clamped, scaled
  <1>6. y \in Nat /\ y <= max /\ y <= 4 * old /\ old <= 4 * y + 3
    BY <1>1, <1>4, <1>5 DEF Smaller
  <1> HIDE DEF y
  <1>7. Fits(y) /\ Fits(old)
    BY <1>1, <1>4, <1>6, MaxTargetFits DEF max
  <1>8. new \in Nat /\ new <= y
    <2>1. CASE y = 0
      BY <2>1, ZeroTarget
    <2>2. CASE y # 0
      BY <1>6, <1>7, <2>2, TruncRange
    <2> QED
      BY <2>1, <2>2
  <1>9. 4 * (new + Ulp(old)) > old
    BY <1>4, <1>6, <1>7, QuarterKept
  <1> HIDE DEF new
  <1>10. new <= 4 * old /\ new <= max
    BY <1>1, <1>4, <1>6, <1>8
  <1> QED
    BY <1>2, <1>3, <1>9, <1>10 DEF max

\* A retarget stays within a factor of four either way, up to one unit of the compact form,
\* and never passes the easiest target, for every size of a byte and of a target and any
\* measured timespan (calculate_new_bits): no product wraps.
THEOREM RetargetsBounded == Spec => []RetargetBounded
  <1>1. \A span \in Timespans : span \in Nat
    BY DifficultyAssumption DEF DifficultyAssumption, Timespans
  <1>2. RetargetBounded
    BY <1>1, Retargets DEF RetargetBounded, EpochBits
  <1> QED
    BY <1>2, PTL
===============================================================================
