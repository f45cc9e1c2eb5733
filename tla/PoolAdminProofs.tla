--------------------------- MODULE PoolAdminProofs ---------------------------
(***************************************************************************)
(* Theorems about PoolAdmin, for any sets of pools, accounts, dWallets,    *)
(* terms and limits, and any delay.                                        *)
(***************************************************************************)
EXTENDS PoolAdmin, TLAPS

-----------------------------------------------------------------------------
(* Types *)

LEMMA TypeInit == Init => TypeOK
BY PoolAdminAssumption DEF Init, TypeOK, Exists

LEMMA NoTermsOrderly == NoTerms \in TermsType /\ Orderly(NoTerms)
BY PoolAdminAssumption DEF NoTerms, TermsType, Orderly

\* A step that writes one account of a kind.
LEMMA PoolWritten ==
  ASSUME TypeOK, NEW p \in Pool, NEW r \in PoolType, Orderly(r.terms), Orderly(r.pending),
         pool' = [pool EXCEPT ![p] = r],
         UNCHANGED <<now, config, binding, token, registry, upgrade, sent, shielded, closed>>
  PROVE  TypeOK'
<1>1. pool' \in [Pool -> PoolType \cup {None}]
  BY DEF TypeOK
<1>2. \A q \in Pool : pool'[q] # None => Orderly(pool'[q].terms) /\ Orderly(pool'[q].pending)
  <2> SUFFICES ASSUME NEW q \in Pool, pool'[q] # None
               PROVE  Orderly(pool'[q].terms) /\ Orderly(pool'[q].pending)
    OBVIOUS
  <2>1. CASE q = p
    BY <2>1 DEF TypeOK
  <2>2. CASE q # p
    BY <2>2 DEF TypeOK, Exists
  <2> QED BY <2>1, <2>2
<1> QED BY <1>1, <1>2 DEF TypeOK, Exists

LEMMA TokenWritten ==
  ASSUME TypeOK, NEW p \in Pool, NEW r \in TokenType,
         token' = [token EXCEPT ![p] = r],
         shielded' \in [Pool -> Int],
         UNCHANGED <<now, pool, config, binding, registry, upgrade, sent, closed>>
  PROVE  TypeOK'
<1>1. token' \in [Pool -> TokenType \cup {None}]
  BY DEF TypeOK
<1> QED BY <1>1 DEF TypeOK, Exists

LEMMA RegistryWritten ==
  ASSUME TypeOK, NEW x \in Variant, NEW r \in RegistryType,
         registry' = [registry EXCEPT ![x] = r],
         UNCHANGED <<now, pool, config, binding, token, upgrade, sent, shielded, closed>>
  PROVE  TypeOK'
<1>1. registry' \in [Variant -> RegistryType \cup {None}]
  BY DEF TypeOK
<1> QED BY <1>1 DEF TypeOK, Exists

\* The steps that write pool accounts.
LEMMA TypePool ==
  ASSUME TypeOK, PoolStep \/ TermsStep
  PROVE  TypeOK'
<1> USE PoolAdminAssumption
<1>1. ASSUME NEW p \in Pool, NEW a \in Account, NEW bps \in Bps, Initialize(p, a, bps)
      PROVE  TypeOK'
  <2> DEFINE r == [authority |-> a, terms |-> DefaultTerms, pending |-> NoTerms,
                   after |-> 0, bps |-> bps]
  <2>1. r \in PoolType /\ Orderly(r.terms) /\ Orderly(r.pending)
    BY DEF PoolType, TermsType, NoTerms, Orderly
  <2>2. pool' = [pool EXCEPT ![p] = r]
    BY <1>1 DEF Initialize
  <2> HIDE DEF r
  <2> QED BY <1>1, <2>1, <2>2, PoolWritten DEF Initialize
<1>2. ASSUME NEW p \in Pool, NEW a \in Account, NEW t \in Terms, ProposePoolUpdate(p, a, t)
      PROVE  TypeOK'
  <2>1. pool[p] \in PoolType /\ Orderly(pool[p].terms) /\ Orderly(pool[p].pending)
    BY <1>2 DEF ProposePoolUpdate, MayAdminister, TypeOK, Exists
  <2> DEFINE r == [pool[p] EXCEPT !.pending = t, !.after = now + Delay]
  <2>2. t \in TermsType /\ Orderly(t) /\ now + Delay \in Nat
    BY <1>2 DEF ProposePoolUpdate, ValidTerms, Orderly, TypeOK
  <2>3. r \in PoolType /\ r.terms = pool[p].terms /\ r.pending = t
    BY <2>1, <2>2 DEF PoolType
  <2>4. pool' = [pool EXCEPT ![p] = r]
    BY <1>2 DEF ProposePoolUpdate, ExecuteAfter
  <2> HIDE DEF r
  <2> QED BY <1>2, <2>1, <2>2, <2>3, <2>4, PoolWritten DEF ProposePoolUpdate
<1>3. ASSUME NEW p \in Pool, NEW a \in Account, ExecutePoolUpdate(p, a)
      PROVE  TypeOK'
  <2>1. pool[p] \in PoolType /\ Orderly(pool[p].terms) /\ Orderly(pool[p].pending)
    BY <1>3 DEF ExecutePoolUpdate, MayAdminister, TypeOK, Exists
  <2> DEFINE r == [pool[p] EXCEPT !.terms = pool[p].pending, !.pending = NoTerms, !.after = 0]
  <2>2. NoTerms \in TermsType /\ Orderly(NoTerms)
    BY NoTermsOrderly
  <2>3. r \in PoolType /\ r.terms = pool[p].pending /\ r.pending = NoTerms
    BY <2>1, <2>2 DEF PoolType
  <2>4. pool' = [pool EXCEPT ![p] = r]
    BY <1>3 DEF ExecutePoolUpdate
  <2> HIDE DEF r
  <2> QED BY <1>3, <2>1, <2>2, <2>3, <2>4, PoolWritten DEF ExecutePoolUpdate
<1>4. ASSUME NEW p \in Pool, NEW a \in Account, CancelPoolUpdate(p, a)
      PROVE  TypeOK'
  <2>1. pool[p] \in PoolType /\ Orderly(pool[p].terms) /\ Orderly(pool[p].pending)
    BY <1>4 DEF CancelPoolUpdate, MayAdminister, TypeOK, Exists
  <2> DEFINE r == [pool[p] EXCEPT !.pending = NoTerms, !.after = 0]
  <2>2. NoTerms \in TermsType /\ Orderly(NoTerms)
    BY NoTermsOrderly
  <2>3. r \in PoolType /\ r.terms = pool[p].terms /\ r.pending = NoTerms
    BY <2>1, <2>2 DEF PoolType
  <2>4. pool' = [pool EXCEPT ![p] = r]
    BY <1>4 DEF CancelPoolUpdate
  <2> HIDE DEF r
  <2> QED BY <1>4, <2>1, <2>2, <2>3, <2>4, PoolWritten DEF CancelPoolUpdate
<1>5. ASSUME NEW p \in Pool, NEW a \in Account, NEW bps \in Bps, SetDepositFeeBps(p, a, bps)
      PROVE  TypeOK'
  <2>1. pool[p] \in PoolType /\ Orderly(pool[p].terms) /\ Orderly(pool[p].pending)
    BY <1>5 DEF SetDepositFeeBps, MayAdminister, TypeOK, Exists
  <2> DEFINE r == [pool[p] EXCEPT !.bps = bps]
  <2>2. r \in PoolType /\ Orderly(r.terms) /\ Orderly(r.pending)
    BY <2>1 DEF PoolType, TermsType, Orderly
  <2>3. pool' = [pool EXCEPT ![p] = r]
    BY <1>5 DEF SetDepositFeeBps
  <2> HIDE DEF r
  <2> QED BY <1>5, <2>2, <2>3, PoolWritten DEF SetDepositFeeBps
<1>6. ASSUME NEW p \in Pool, NEW amount \in Amount, Send(p, amount)
      PROVE  TypeOK'
  <2> DEFINE s == [pool |-> p, amount |-> amount, at |-> now, bps |-> pool[p].bps,
                   fees |-> {pool[p].terms.fee} \cup
                              (IF HasPendingProposal(p) THEN {pool[p].pending.fee} ELSE {})]
  <2>1. pool[p] \in PoolType
    BY <1>6 DEF Send, TypeOK, Exists
  <2>2. s \in [pool : Pool, amount : Amount, at : Nat, bps : Nat, fees : SUBSET Nat]
    BY <2>1 DEF PoolType, TermsType, TypeOK
  <2>3. sent' = sent \cup {s}
    BY <1>6 DEF Send
  <2> HIDE DEF s
  <2> QED BY <1>6, <2>2, <2>3 DEF Send, TypeOK, Exists
<1>7. CASE Tick
  BY <1>7 DEF Tick, TypeOK, Exists
<1>8. ASSUME NEW p \in Pool, ClosePool(p)
      PROVE  TypeOK'
  BY <1>8 DEF ClosePool, TypeOK, Exists
<1> QED BY <1>1, <1>2, <1>3, <1>4, <1>5, <1>6, <1>7, <1>8 DEF PoolStep, TermsStep

\* The steps that write the other accounts.
LEMMA TypeOthers ==
  ASSUME TypeOK, CustodyStep \/ TokenStep \/ KeyStep
  PROVE  TypeOK'
<1> USE PoolAdminAssumption
<1>1. ASSUME NEW p \in Pool, NEW a \in Account, NEW d \in Dwallet, NEW k \in Key,
             SetPoolConfig(p, a, d, k)
      PROVE  TypeOK'
  BY <1>1 DEF SetPoolConfig, TypeOK, Exists
<1>2. ASSUME NEW p \in Pool, NEW a \in Account, NEW l \in Limits, RegisterToken(p, a, l)
      PROVE  TypeOK'
  BY <1>2 DEF RegisterToken, TypeOK, TokenType, Exists
<1>3. ASSUME NEW p \in Pool, NEW a \in Account, NEW flags \in SUBSET {"min", "max", "cap"},
             NEW l \in Limits, NEW e \in BOOLEAN, UpdateTokenConfig(p, a, flags, l, e)
      PROVE  TypeOK'
  <2> DEFINE m == [min |-> IF "min" \in flags THEN l.min ELSE token[p].limits.min,
                   max |-> IF "max" \in flags THEN l.max ELSE token[p].limits.max,
                   cap |-> IF "cap" \in flags THEN l.cap ELSE token[p].limits.cap]
             r == [token[p] EXCEPT !.limits = m, !.enabled = e]
  <2>1. token[p] \in TokenType
    BY <1>3 DEF UpdateTokenConfig, TypeOK
  <2>2. m \in [min : Nat, max : Nat, cap : Nat]
    BY <2>1 DEF TokenType
  <2>3. token' = [token EXCEPT ![p] = r]
    BY <1>3 DEF UpdateTokenConfig
  <2> HIDE DEF m
  <2>4. r \in TokenType
    BY <2>1, <2>2 DEF TokenType
  <2> HIDE DEF r
  <2>5. shielded' \in [Pool -> Int]
    BY <1>3 DEF UpdateTokenConfig, TypeOK
  <2> QED BY <1>3, <2>3, <2>4, <2>5, TokenWritten DEF UpdateTokenConfig
<1>4. ASSUME NEW p \in Pool, NEW amount \in Amount, AddShielded(p, amount)
      PROVE  TypeOK'
  <2> DEFINE r == [token[p] EXCEPT !.shielded = token[p].shielded + amount]
  <2>1. token[p] \in TokenType
    BY <1>4 DEF AddShielded, TypeOK
  <2>2. r \in TokenType
    BY <2>1 DEF TokenType
  <2>3. token' = [token EXCEPT ![p] = r]
    BY <1>4 DEF AddShielded
  <2>4. shielded' \in [Pool -> Int]
    BY <1>4 DEF AddShielded, TypeOK
  <2> HIDE DEF r
  <2> QED BY <1>4, <2>2, <2>3, <2>4, TokenWritten DEF AddShielded
<1>5. ASSUME NEW p \in Pool, NEW amount \in Amount, SubShielded(p, amount)
      PROVE  TypeOK'
  <2> DEFINE r == [token[p] EXCEPT !.shielded = token[p].shielded - amount]
  <2>1. token[p] \in TokenType
    BY <1>5 DEF SubShielded, TypeOK
  <2>2. r \in TokenType
    BY <1>5, <2>1 DEF SubShielded, TokenType
  <2>3. token' = [token EXCEPT ![p] = r]
    BY <1>5 DEF SubShielded
  <2>4. shielded' \in [Pool -> Int]
    BY <1>5 DEF SubShielded, TypeOK
  <2> HIDE DEF r
  <2> QED BY <1>5, <2>2, <2>3, <2>4, TokenWritten DEF SubShielded
<1>6. ASSUME NEW x \in Variant, NEW a \in Account, NEW vk \in Vk, InitVkRegistry(x, a, vk)
      PROVE  TypeOK'
  BY <1>6 DEF InitVkRegistry, TypeOK, RegistryType, Exists
<1>7. ASSUME NEW x \in Variant, NEW a \in Account, NEW vk \in Vk, UpdateVkRegistry(x, a, vk)
      PROVE  TypeOK'
  <2> DEFINE r == [registry[x] EXCEPT !.vk = vk]
  <2>1. registry[x] \in RegistryType
    BY <1>7 DEF UpdateVkRegistry, IsRegistryAuthority, TypeOK
  <2>2. r \in RegistryType
    BY <2>1 DEF RegistryType
  <2>3. registry' = [registry EXCEPT ![x] = r]
    BY <1>7 DEF UpdateVkRegistry
  <2> HIDE DEF r
  <2> QED BY <1>7, <2>2, <2>3, RegistryWritten DEF UpdateVkRegistry
<1>8. ASSUME NEW x \in Variant, NEW a \in Account, FreezeVkRegistry(x, a)
      PROVE  TypeOK'
  <2> DEFINE r == [registry[x] EXCEPT !.frozen = TRUE]
  <2>1. registry[x] \in RegistryType
    BY <1>8 DEF FreezeVkRegistry, IsRegistryAuthority, TypeOK
  <2>2. r \in RegistryType
    BY <2>1 DEF RegistryType
  <2>3. registry' = [registry EXCEPT ![x] = r]
    BY <1>8 DEF FreezeVkRegistry
  <2> HIDE DEF r
  <2> QED BY <1>8, <2>2, <2>3, RegistryWritten DEF FreezeVkRegistry
<1>9. ASSUME NEW b \in Account \cup {NoOne}, SetUpgradeAuthority(b)
      PROVE  TypeOK'
  BY <1>9 DEF SetUpgradeAuthority, TypeOK, Exists
<1>10. ASSUME NEW p \in Pool, ClosePoolConfig(p)
       PROVE  TypeOK'
  BY <1>10 DEF ClosePoolConfig, TypeOK, Exists
<1>11. ASSUME NEW d \in Dwallet, CloseBinding(d)
       PROVE  TypeOK'
  BY <1>11 DEF CloseBinding, TypeOK, Exists
<1>12. ASSUME NEW p \in Pool, CloseToken(p)
       PROVE  TypeOK'
  BY <1>12 DEF CloseToken, TypeOK, Exists
<1>13. ASSUME NEW x \in Variant, CloseRegistry(x)
       PROVE  TypeOK'
  BY <1>13 DEF CloseRegistry, TypeOK, Exists
<1> QED
  BY <1>1, <1>2, <1>3, <1>4, <1>5, <1>6, <1>7, <1>8, <1>9, <1>10, <1>11, <1>12, <1>13
  DEF CustodyStep, TokenStep, KeyStep

LEMMA TypeStep == TypeOK /\ [Next]_vars => TypeOK'
BY TypePool, TypeOthers DEF Next, vars, TypeOK, Exists

\* For any constants: every account is well typed and the limits of every pool are orderly,
\* through any sequence of administration (TypeOK).
THEOREM TypeCorrect == Spec => []TypeOK
BY TypeInit, TypeStep, PTL DEF Spec

-----------------------------------------------------------------------------
(* What each area leaves alone *)

LEMMA PoolFrame ==
  PoolStep \/ TermsStep =>
    UNCHANGED <<config, binding, token, registry, upgrade, shielded, closed>>
<1>1. PoolStep => UNCHANGED <<config, binding, token, registry, upgrade, shielded, closed>>
  BY DEF PoolStep, Initialize, ClosePool
<1>2. TermsStep => UNCHANGED <<config, binding, token, registry, upgrade, shielded, closed>>
  BY DEF TermsStep, ProposePoolUpdate, ExecutePoolUpdate, CancelPoolUpdate,
         SetDepositFeeBps, Send, Tick
<1> QED BY <1>1, <1>2

LEMMA CustodyFrame ==
  CustodyStep => UNCHANGED <<now, pool, token, registry, upgrade, sent, shielded>>
BY DEF CustodyStep, SetPoolConfig, ClosePoolConfig, CloseBinding

LEMMA TokenFrame ==
  TokenStep => /\ UNCHANGED <<now, pool, config, binding, registry, upgrade, sent>>
               /\ closed \subseteq closed'
<1> DEFINE Frame == /\ UNCHANGED <<now, pool, config, binding, registry, upgrade, sent>>
                    /\ closed \subseteq closed'
<1>1. ASSUME NEW p \in Pool, NEW a \in Account, NEW l \in Limits, RegisterToken(p, a, l)
      PROVE  Frame
  BY <1>1 DEF RegisterToken
<1>2. ASSUME NEW p \in Pool, NEW a \in Account, NEW flags \in SUBSET {"min", "max", "cap"},
             NEW l \in Limits, NEW e \in BOOLEAN, UpdateTokenConfig(p, a, flags, l, e)
      PROVE  Frame
  BY <1>2 DEF UpdateTokenConfig
<1>3. ASSUME NEW p \in Pool, NEW amount \in Amount, AddShielded(p, amount)
      PROVE  Frame
  BY <1>3 DEF AddShielded
<1>4. ASSUME NEW p \in Pool, NEW amount \in Amount, SubShielded(p, amount)
      PROVE  Frame
  BY <1>4 DEF SubShielded
<1>5. ASSUME NEW p \in Pool, CloseToken(p)
      PROVE  Frame
  BY <1>5 DEF CloseToken
<1> HIDE DEF Frame
<1>6. TokenStep => Frame
  BY <1>1, <1>2, <1>3, <1>4, <1>5 DEF TokenStep
<1> QED BY <1>6 DEF Frame

LEMMA KeyFrame ==
  KeyStep => UNCHANGED <<now, pool, config, binding, token, sent, shielded, closed>>
BY DEF KeyStep, InitVkRegistry, UpdateVkRegistry, FreezeVkRegistry, CloseRegistry,
       SetUpgradeAuthority

-----------------------------------------------------------------------------
(* The timelock *)

\* What a deposit under way may rely on: the pool still exists and has not raised its fee;
\* and what is pending serves the deposit too, or cannot be executed in time to harm it.
Relied(s) ==
  /\ Exists(s.pool)
  /\ s.at <= now
  /\ pool[s.pool].bps <= s.bps
  /\ now < s.at + Delay =>
       Admits(pool[s.pool].terms, s.amount) /\ pool[s.pool].terms.fee \in s.fees
  /\ HasPendingProposal(s.pool) =>
       \/ pool[s.pool].after >= s.at + Delay
       \/ Admits(pool[s.pool].pending, s.amount) /\ pool[s.pool].pending.fee \in s.fees

TermsInv == \A s \in sent : Relied(s)

LEMMA TermsInvInit == Init => TermsInv
BY DEF Init, TermsInv

\* A deposit of another pool relies on what the step leaves alone.
LEMMA OtherPool ==
  ASSUME NEW p \in Pool, NEW r, NEW s \in sent, s.pool \in Pool, s.pool # p, Relied(s),
         TypeOK, pool' = [pool EXCEPT ![p] = r], now' = now
  PROVE  Relied(s)'
<1>1. pool'[s.pool] = pool[s.pool]
  BY DEF TypeOK
<1> QED BY <1>1 DEF Relied, Exists, Admits, HasPendingProposal

LEMMA TermsInvStep == TypeOK /\ TermsInv /\ [Next]_vars => TermsInv'
<1> SUFFICES ASSUME TypeOK, TermsInv, [Next]_vars
             PROVE  TermsInv'
  OBVIOUS
<1> USE PoolAdminAssumption
<1>a. \A s \in sent : s.pool \in Pool /\ s.at \in Nat /\ s.amount \in Nat /\ s.bps \in Nat
  BY DEF TypeOK
<1>b. \A p \in Pool : Exists(p) => pool[p] \in PoolType
  BY DEF TypeOK, Exists
<1>1. ASSUME NEW p \in Pool, NEW a \in Account, NEW bps \in Bps, Initialize(p, a, bps)
      PROVE  TermsInv'
  <2> SUFFICES ASSUME NEW s \in sent
               PROVE  Relied(s)'
    BY <1>1 DEF Initialize, TermsInv
  <2>1. s.pool # p /\ s.pool \in Pool
    BY <1>1, <1>a DEF Initialize, TermsInv, Relied
  <2> QED BY <1>1, <2>1, OtherPool DEF Initialize, TermsInv
<1>2. ASSUME NEW p \in Pool, NEW a \in Account, NEW t \in Terms, ProposePoolUpdate(p, a, t)
      PROVE  TermsInv'
  <2> SUFFICES ASSUME NEW s \in sent
               PROVE  Relied(s)'
    BY <1>2 DEF ProposePoolUpdate, TermsInv
  <2> DEFINE r == [pool[p] EXCEPT !.pending = t, !.after = now + Delay]
  <2>1. pool' = [pool EXCEPT ![p] = r] /\ now' = now
    BY <1>2 DEF ProposePoolUpdate, ExecuteAfter
  <2>2. pool[p] \in PoolType /\ now \in Nat /\ now + Delay \in Nat /\ t \in TermsType
    BY <1>2, <1>b DEF ProposePoolUpdate, MayAdminister, TypeOK
  <2>3. r \in PoolType /\ r.terms = pool[p].terms /\ r.bps = pool[p].bps /\ r.after = now + Delay
    BY <2>2 DEF PoolType
  <2> HIDE DEF r
  <2>4. CASE s.pool # p
    BY <1>a, <2>1, <2>4, OtherPool DEF TermsInv
  <2>5. CASE s.pool = p
    <3>1. pool'[s.pool] = r
      BY <2>1, <2>5 DEF TypeOK
    <3>2. r # None
      BY <2>3
    <3>3. Relied(s)
      BY DEF TermsInv
    <3>4. now + Delay >= s.at + Delay
      BY <2>2, <3>3, <1>a DEF Relied
    <3> QED BY <2>1, <2>3, <2>5, <3>1, <3>2, <3>3, <3>4
            DEF Relied, Exists, Admits, HasPendingProposal
  <2> QED BY <2>4, <2>5
<1>3. ASSUME NEW p \in Pool, NEW a \in Account, ExecutePoolUpdate(p, a)
      PROVE  TermsInv'
  <2> SUFFICES ASSUME NEW s \in sent
               PROVE  Relied(s)'
    BY <1>3 DEF ExecutePoolUpdate, TermsInv
  <2> DEFINE r == [pool[p] EXCEPT !.terms = pool[p].pending, !.pending = NoTerms, !.after = 0]
  <2>1. pool' = [pool EXCEPT ![p] = r] /\ now' = now
    BY <1>3 DEF ExecutePoolUpdate
  <2>2. pool[p] \in PoolType /\ now \in Nat
    BY <1>3, <1>b DEF ExecutePoolUpdate, MayAdminister, TypeOK
  <2>3. r \in PoolType /\ r.terms = pool[p].pending /\ r.bps = pool[p].bps /\ r.after = 0
    BY <2>2, NoTermsOrderly DEF PoolType
  <2> HIDE DEF r
  <2>4. CASE s.pool # p
    BY <1>a, <2>1, <2>4, OtherPool DEF TermsInv
  <2>5. CASE s.pool = p
    <3>1. pool'[s.pool] = r
      BY <2>1, <2>5 DEF TypeOK
    <3>2. r # None
      BY <2>3
    <3>3. Relied(s)
      BY DEF TermsInv
    <3>4. now < s.at + Delay => ~(pool[p].after >= s.at + Delay)
      BY <1>3, <1>a, <2>2 DEF ExecutePoolUpdate, PoolType
    <3> QED BY <1>3, <2>1, <2>3, <2>5, <3>1, <3>2, <3>3, <3>4
            DEF Relied, Exists, Admits, HasPendingProposal, ExecutePoolUpdate
  <2> QED BY <2>4, <2>5
<1>4. ASSUME NEW p \in Pool, NEW a \in Account, CancelPoolUpdate(p, a)
      PROVE  TermsInv'
  <2> SUFFICES ASSUME NEW s \in sent
               PROVE  Relied(s)'
    BY <1>4 DEF CancelPoolUpdate, TermsInv
  <2> DEFINE r == [pool[p] EXCEPT !.pending = NoTerms, !.after = 0]
  <2>1. pool' = [pool EXCEPT ![p] = r] /\ now' = now
    BY <1>4 DEF CancelPoolUpdate
  <2>2. pool[p] \in PoolType
    BY <1>4, <1>b DEF CancelPoolUpdate, MayAdminister
  <2>3. r \in PoolType /\ r.terms = pool[p].terms /\ r.bps = pool[p].bps /\ r.after = 0
    BY <2>2, NoTermsOrderly DEF PoolType
  <2> HIDE DEF r
  <2>4. CASE s.pool # p
    BY <1>a, <2>1, <2>4, OtherPool DEF TermsInv
  <2>5. CASE s.pool = p
    <3>1. pool'[s.pool] = r
      BY <2>1, <2>5 DEF TypeOK
    <3>2. r # None
      BY <2>3
    <3>3. Relied(s)
      BY DEF TermsInv
    <3> QED BY <2>1, <2>3, <2>5, <3>1, <3>2, <3>3
            DEF Relied, Exists, Admits, HasPendingProposal
  <2> QED BY <2>4, <2>5
<1>5. ASSUME NEW p \in Pool, NEW a \in Account, NEW bps \in Bps, SetDepositFeeBps(p, a, bps)
      PROVE  TermsInv'
  <2> SUFFICES ASSUME NEW s \in sent
               PROVE  Relied(s)'
    BY <1>5 DEF SetDepositFeeBps, TermsInv
  <2> DEFINE r == [pool[p] EXCEPT !.bps = bps]
  <2>1. pool' = [pool EXCEPT ![p] = r] /\ now' = now
    BY <1>5 DEF SetDepositFeeBps
  <2>2. pool[p] \in PoolType
    BY <1>5, <1>b DEF SetDepositFeeBps, MayAdminister
  <2>3. /\ r \in PoolType /\ r.terms = pool[p].terms /\ r.pending = pool[p].pending
        /\ r.after = pool[p].after /\ r.bps = bps
    BY <2>2 DEF PoolType
  <2> HIDE DEF r
  <2>4. CASE s.pool # p
    BY <1>a, <2>1, <2>4, OtherPool DEF TermsInv
  <2>5. CASE s.pool = p
    <3>1. pool'[s.pool] = r
      BY <2>1, <2>5 DEF TypeOK
    <3>2. r # None
      BY <2>3
    <3>3. Relied(s)
      BY DEF TermsInv
    <3>4. bps <= s.bps
      BY <1>5, <1>a, <2>2, <2>5, <3>3 DEF SetDepositFeeBps, LowersFee, Relied, PoolType
    <3> QED BY <2>1, <2>3, <2>5, <3>1, <3>2, <3>3, <3>4
            DEF Relied, Exists, Admits, HasPendingProposal
  <2> QED BY <2>4, <2>5
<1>6. ASSUME NEW p \in Pool, NEW amount \in Amount, Send(p, amount)
      PROVE  TermsInv'
  <2> DEFINE n == [pool |-> p, amount |-> amount, at |-> now, bps |-> pool[p].bps,
                   fees |-> {pool[p].terms.fee} \cup
                              (IF HasPendingProposal(p) THEN {pool[p].pending.fee} ELSE {})]
  <2>1. sent' = sent \cup {n} /\ pool' = pool /\ now' = now
    BY <1>6 DEF Send
  <2>2. pool[p] \in PoolType /\ now \in Nat
    BY <1>6, <1>b DEF Send, TypeOK
  <2>3. Relied(n)
    BY <1>6, <2>2 DEF Send, Relied, Admits, HasPendingProposal, PoolType, TermsType
  <2> HIDE DEF n
  <2>4. ASSUME NEW s \in sent'
        PROVE  Relied(s)'
    <3>1. Relied(s)
      BY <2>1, <2>3, <2>4 DEF TermsInv
    <3> QED BY <2>1, <3>1 DEF Relied, Exists, Admits, HasPendingProposal
  <2> QED BY <2>4 DEF TermsInv
<1>7. CASE Tick
  <2> SUFFICES ASSUME NEW s \in sent
               PROVE  Relied(s)'
    BY <1>7 DEF Tick, TermsInv
  <2>1. Relied(s) /\ now \in Nat /\ s.at \in Nat /\ pool' = pool /\ now' = now + 1
    BY <1>7, <1>a DEF Tick, TermsInv, TypeOK
  <2> QED BY <2>1 DEF Relied, Exists, Admits, HasPendingProposal
<1>8. ASSUME NEW p \in Pool, ClosePool(p)
      PROVE  TermsInv'
  <2> SUFFICES ASSUME NEW s \in sent, s.pool # p
               PROVE  Relied(s)'
    BY <1>8 DEF ClosePool, TermsInv
  <2> QED BY <1>8, <1>a, OtherPool DEF ClosePool, TermsInv
<1>9. CASE CustodyStep \/ TokenStep \/ KeyStep
  <2>1. sent' = sent /\ pool' = pool /\ now' = now
    BY <1>9, CustodyFrame, TokenFrame, KeyFrame
  <2> QED BY <2>1 DEF TermsInv, Relied, Exists, Admits, HasPendingProposal
<1>10. CASE UNCHANGED vars
  BY <1>10 DEF vars, TermsInv, Relied, Exists, Admits, HasPendingProposal
<1> QED
  BY <1>1, <1>2, <1>3, <1>4, <1>5, <1>6, <1>7, <1>8, <1>9, <1>10
  DEF Next, PoolStep, TermsStep

\* For any delay and any terms: a deposit under way is served by the terms it relied on for
\* the whole delay, whatever the pool's authority proposes meanwhile (SentHonoured).
THEOREM DepositsHonoured == Spec => []SentHonoured
<1>1. TermsInv => SentHonoured
  BY DEF TermsInv, Relied, SentHonoured, Serves
<1> QED BY <1>1, TypeInit, TypeStep, TermsInvInit, TermsInvStep, PTL DEF Spec

-----------------------------------------------------------------------------
(* Custody *)

\* A configured dWallet is bound to the pool that configured it, unless its binding was closed.
CustodyInv ==
  \A p \in Pool : config[p] # None =>
    config[p].dwallet \in closed \/ binding[config[p].dwallet] = p

LEMMA CustodyInvInit == Init => CustodyInv
BY DEF Init, CustodyInv

LEMMA CustodyInvStep == TypeOK /\ CustodyInv /\ [Next]_vars => CustodyInv'
<1> SUFFICES ASSUME TypeOK, CustodyInv, [Next]_vars
             PROVE  CustodyInv'
  OBVIOUS
<1> USE PoolAdminAssumption
<1>1. ASSUME NEW p \in Pool, NEW a \in Account, NEW d \in Dwallet, NEW k \in Key,
             SetPoolConfig(p, a, d, k)
      PROVE  CustodyInv'
  <2> SUFFICES ASSUME NEW q \in Pool, config'[q] # None
               PROVE  config'[q].dwallet \in closed \/ binding'[config'[q].dwallet] = q
    BY <1>1 DEF SetPoolConfig, CustodyInv
  <2>1. binding' = [binding EXCEPT ![d] = p] /\ binding[d] \in {None, p}
    BY <1>1 DEF SetPoolConfig, MayClaim
  <2>2. CASE q = p
    <3>1. config'[q].dwallet = d
      BY <1>1, <2>2 DEF SetPoolConfig, TypeOK
    <3> QED BY <2>1, <2>2, <3>1 DEF TypeOK
  <2>3. CASE q # p
    <3>1. config'[q] = config[q] /\ config[q].dwallet \in Dwallet
      BY <1>1, <2>3 DEF SetPoolConfig, TypeOK
    <3>2. CASE config[q].dwallet = d
      <4>1. binding[d] # q
        BY <2>1, <2>3
      <4> QED BY <3>1, <3>2, <4>1 DEF CustodyInv
    <3>3. CASE config[q].dwallet # d
      BY <2>1, <3>1, <3>3 DEF CustodyInv, TypeOK
    <3> QED BY <3>2, <3>3
  <2> QED BY <2>2, <2>3
<1>2. ASSUME NEW p \in Pool, ClosePoolConfig(p)
      PROVE  CustodyInv'
  BY <1>2 DEF ClosePoolConfig, CustodyInv, TypeOK
<1>3. ASSUME NEW d \in Dwallet, CloseBinding(d)
      PROVE  CustodyInv'
  BY <1>3 DEF CloseBinding, CustodyInv, TypeOK
<1>4. CASE PoolStep \/ TermsStep \/ TokenStep \/ KeyStep
  <2>1. config' = config /\ binding' = binding /\ closed \subseteq closed'
    BY <1>4, PoolFrame, TokenFrame, KeyFrame
  <2> QED BY <2>1 DEF CustodyInv
<1>5. CASE UNCHANGED vars
  BY <1>5 DEF vars, CustodyInv
<1> QED BY <1>1, <1>2, <1>3, <1>4, <1>5 DEF Next, CustodyStep

\* For any pools and dWallets: no two pools hold one dWallet, unless a development build
\* closed its binding (OnePoolPerDwallet).
THEOREM DwalletsHeldOnce == Spec => []OnePoolPerDwallet
<1>1. CustodyInv => OnePoolPerDwallet
  BY DEF CustodyInv, OnePoolPerDwallet
<1> QED BY <1>1, TypeInit, TypeStep, CustodyInvInit, CustodyInvStep, PTL DEF Spec

-----------------------------------------------------------------------------
(* The token's ledger *)

\* A token that was never registered has nothing shielded.
LedgerInv ==
  \A p \in Pool : p \notin closed =>
    shielded[p] = IF token[p] = None THEN 0 ELSE token[p].shielded

LEMMA LedgerInvInit == Init => LedgerInv
BY DEF Init, LedgerInv

LEMMA LedgerInvStep == TypeOK /\ LedgerInv /\ [Next]_vars => LedgerInv'
<1> SUFFICES ASSUME TypeOK, LedgerInv, [Next]_vars
             PROVE  LedgerInv'
  OBVIOUS
<1> USE PoolAdminAssumption
<1> DEFINE Ledger(q) == IF token[q] = None THEN 0 ELSE token[q].shielded
<1>1. ASSUME NEW p \in Pool, NEW a \in Account, NEW l \in Limits, RegisterToken(p, a, l)
      PROVE  LedgerInv'
  BY <1>1 DEF RegisterToken, Unregistered, LedgerInv, TypeOK
<1>2. ASSUME NEW p \in Pool, NEW a \in Account, NEW flags \in SUBSET {"min", "max", "cap"},
             NEW l \in Limits, NEW e \in BOOLEAN, UpdateTokenConfig(p, a, flags, l, e)
      PROVE  LedgerInv'
  <2> DEFINE m == [min |-> IF "min" \in flags THEN l.min ELSE token[p].limits.min,
                   max |-> IF "max" \in flags THEN l.max ELSE token[p].limits.max,
                   cap |-> IF "cap" \in flags THEN l.cap ELSE token[p].limits.cap]
             r == [token[p] EXCEPT !.limits = m, !.enabled = e]
  <2>1. \A q \in Pool : Ledger(q)' = Ledger(q)
    <3>1. token[p] \in TokenType
      BY <1>2 DEF UpdateTokenConfig, TypeOK
    <3>2. m \in [min : Nat, max : Nat, cap : Nat]
      BY <3>1 DEF TokenType
    <3>3. token' = [token EXCEPT ![p] = r]
      BY <1>2 DEF UpdateTokenConfig
    <3> HIDE DEF m
    <3>4. r \in TokenType /\ r.shielded = token[p].shielded
      BY <3>1, <3>2 DEF TokenType
    <3> HIDE DEF r
    <3>5. r # None /\ token[p] # None
      BY <3>1, <3>4
    <3> QED BY <3>3, <3>4, <3>5 DEF TypeOK
  <2> QED BY <1>2, <2>1 DEF UpdateTokenConfig, LedgerInv
<1>3. ASSUME NEW p \in Pool, NEW amount \in Amount, AddShielded(p, amount)
      PROVE  LedgerInv'
  <2>1. token[p] \in TokenType
    BY <1>3 DEF AddShielded, TypeOK
  <2> DEFINE r == [token[p] EXCEPT !.shielded = token[p].shielded + amount]
  <2>2. r \in TokenType /\ r.shielded = token[p].shielded + amount
    BY <1>3, <2>1 DEF AddShielded, TokenType
  <2>3. token' = [token EXCEPT ![p] = r] /\ closed' = closed
    BY <1>3 DEF AddShielded
  <2> HIDE DEF r
  <2>4. r # None /\ token[p] # None
    BY <2>1, <2>2
  <2>5. shielded' = [shielded EXCEPT ![p] = shielded[p] + amount]
    BY <1>3 DEF AddShielded
  <2> SUFFICES ASSUME NEW q \in Pool, q \notin closed
               PROVE  shielded'[q] = Ledger(q)'
    BY <2>3 DEF LedgerInv
  <2>6. shielded[q] = Ledger(q)
    BY DEF LedgerInv
  <2>7. CASE q = p
    BY <2>2, <2>3, <2>4, <2>5, <2>6, <2>7 DEF TypeOK
  <2>8. CASE q # p
    BY <2>3, <2>5, <2>6, <2>8 DEF TypeOK
  <2> QED BY <2>7, <2>8
<1>4. ASSUME NEW p \in Pool, NEW amount \in Amount, SubShielded(p, amount)
      PROVE  LedgerInv'
  <2>1. token[p] \in TokenType
    BY <1>4 DEF SubShielded, TypeOK
  <2> DEFINE r == [token[p] EXCEPT !.shielded = token[p].shielded - amount]
  <2>2. r \in TokenType /\ r.shielded = token[p].shielded - amount
    BY <1>4, <2>1 DEF SubShielded, TokenType
  <2>3. token' = [token EXCEPT ![p] = r] /\ closed' = closed
    BY <1>4 DEF SubShielded
  <2> HIDE DEF r
  <2>4. r # None /\ token[p] # None
    BY <2>1, <2>2
  <2>5. shielded' = [shielded EXCEPT ![p] = shielded[p] - amount]
    BY <1>4 DEF SubShielded
  <2> SUFFICES ASSUME NEW q \in Pool, q \notin closed
               PROVE  shielded'[q] = Ledger(q)'
    BY <2>3 DEF LedgerInv
  <2>6. shielded[q] = Ledger(q)
    BY DEF LedgerInv
  <2>7. CASE q = p
    BY <2>2, <2>3, <2>4, <2>5, <2>6, <2>7 DEF TypeOK
  <2>8. CASE q # p
    BY <2>3, <2>5, <2>6, <2>8 DEF TypeOK
  <2> QED BY <2>7, <2>8
<1>5. ASSUME NEW p \in Pool, CloseToken(p)
      PROVE  LedgerInv'
  BY <1>5 DEF CloseToken, LedgerInv, TypeOK
<1>6. CASE PoolStep \/ TermsStep \/ KeyStep
  BY <1>6, PoolFrame, KeyFrame DEF LedgerInv
<1>7. CASE CustodyStep
  <2>1. closed \subseteq closed'
    BY <1>7 DEF CustodyStep, SetPoolConfig, ClosePoolConfig, CloseBinding
  <2> QED BY <1>7, <2>1, CustodyFrame DEF LedgerInv
<1>8. CASE UNCHANGED vars
  BY <1>8 DEF vars, LedgerInv
<1> QED
  BY <1>1, <1>2, <1>3, <1>4, <1>5, <1>6, <1>7, <1>8 DEF Next, TokenStep

\* For any limits and any order of registration, update, deposit and withdrawal: a token's
\* total is what was shielded and not withdrawn, unless a development build closed its
\* account (LedgerKept).
THEOREM LedgersKept == Spec => []LedgerKept
<1>1. LedgerInv => LedgerKept
  BY DEF LedgerInv, LedgerKept
<1> QED BY <1>1, TypeInit, TypeStep, LedgerInvInit, LedgerInvStep, PTL DEF Spec

-----------------------------------------------------------------------------
(* Verification keys *)

LEMMA KeysStep == TypeOK /\ [Next]_vars => KeysFrozenStep
<1> SUFFICES ASSUME TypeOK, [Next]_vars
             PROVE  KeysFrozenStep
  OBVIOUS
<1> USE PoolAdminAssumption
<1>1. ASSUME NEW x \in Variant, NEW a \in Account, NEW vk \in Vk, InitVkRegistry(x, a, vk)
      PROVE  KeysFrozenStep
  BY <1>1 DEF InitVkRegistry, IsUpgradeAuthority, KeysFrozenStep, TypeOK
<1>2. ASSUME NEW x \in Variant, NEW a \in Account, NEW vk \in Vk, UpdateVkRegistry(x, a, vk)
      PROVE  KeysFrozenStep
  BY <1>2 DEF UpdateVkRegistry, IsUpgradeAuthority, IsFrozen, KeysFrozenStep, TypeOK
<1>3. ASSUME NEW x \in Variant, NEW a \in Account, FreezeVkRegistry(x, a)
      PROVE  KeysFrozenStep
  <2>1. upgrade # NoOne
    BY <1>3 DEF FreezeVkRegistry, IsUpgradeAuthority
  <2>2. ASSUME NEW y \in Variant, registry[y] # None, registry[y].frozen
        PROVE  registry'[y] = registry[y]
    <3>1. registry' = [registry EXCEPT ![x] = [registry[x] EXCEPT !.frozen = TRUE]]
      BY <1>3 DEF FreezeVkRegistry
    <3>2. CASE y = x
      <4>1. registry[x] \in RegistryType /\ registry[x].frozen = TRUE
        BY <2>2, <3>2 DEF TypeOK, RegistryType
      <4>2. [registry[x] EXCEPT !.frozen = TRUE] = registry[x]
        BY <4>1 DEF RegistryType
      <4> QED BY <3>1, <3>2, <4>2 DEF TypeOK
    <3>3. CASE y # x
      BY <3>1, <3>3 DEF TypeOK
    <3> QED BY <3>2, <3>3
  <2> QED BY <2>1, <2>2 DEF KeysFrozenStep
<1>4. ASSUME NEW b \in Account \cup {NoOne}, SetUpgradeAuthority(b)
      PROVE  KeysFrozenStep
  BY <1>4 DEF SetUpgradeAuthority, KeysFrozenStep
<1>5. ASSUME NEW x \in Variant, CloseRegistry(x)
      PROVE  KeysFrozenStep
  BY <1>5 DEF CloseRegistry, DevnetClose, KeysFrozenStep, TypeOK
<1>6. CASE PoolStep \/ TermsStep \/ CustodyStep \/ TokenStep
  BY <1>6, PoolFrame, CustodyFrame, TokenFrame DEF KeysFrozenStep
<1>7. CASE UNCHANGED vars
  BY <1>7 DEF vars, KeysFrozenStep
<1> QED BY <1>1, <1>2, <1>3, <1>4, <1>5, <1>6, <1>7 DEF Next, KeyStep

\* For any variants and accounts: a frozen key is never replaced, and no key changes once the
\* program is final, development builds excepted (KeysFrozen).
THEOREM FrozenKeysStay == Spec => KeysFrozen
BY TypeInit, TypeStep, KeysStep, PTL DEF Spec, KeysFrozen
===============================================================================
