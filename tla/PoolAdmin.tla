------------------------------ MODULE PoolAdmin ------------------------------
(***************************************************************************)
(* The administration of pools: their creation, the timelock on deposit    *)
(* limits and service fee, the deposit fee, the custody configuration with *)
(* the binding of dWallets, the token's configuration, and the registry of *)
(* verification keys with the program's upgrade authority.  Development    *)
(* builds can also close accounts.  Each pool's own token is its only one. *)
(***************************************************************************)
EXTENDS Integers, FiniteSets

CONSTANTS
  Pool, Dwallet, Key, Variant, Vk,
  Account, NoOne,   \* signers, and the absence of one
  None,             \* an account that does not exist
  Terms,            \* what authorities propose: [min, max, fee]
  DefaultTerms,     \* MIN_DEPOSIT_SATS, MAX_DEPOSIT_SATS and the service fee of 2000
  Limits,           \* what authorities configure for a token: [min, max, cap]
  Bps,              \* deposit fees
  MaxFeeBps,        \* MAX_FEE_BPS
  MaxSats,          \* 21 million bitcoin
  Amount,           \* amounts that depositors send
  Delay,            \* TIMELOCK_DELAY_SECS
  DevBuild,         \* feature devnet-regtest
  MaxTime, MaxSent, MaxShielded   \* bounds

TermsType == [min : Nat, max : Nat, fee : Nat]
PoolType == [authority : Account, terms : TermsType, pending : TermsType, after : Nat, bps : Nat]
TokenType == [limits : [min : Nat, max : Nat, cap : Nat], enabled : BOOLEAN, shielded : Nat]

\* The pending terms of a pool without a proposal.
NoTerms == [min |-> 0, max |-> 0, fee |-> 0]

ASSUME PoolAdminAssumption ==
  /\ NoOne \notin Account
  /\ None \notin Pool \cup PoolType \cup TokenType
  /\ Terms \subseteq TermsType
  /\ DefaultTerms \in TermsType
  /\ DefaultTerms.min <= DefaultTerms.max /\ DefaultTerms.max <= MaxSats
  /\ Limits \subseteq [min : Nat, max : Nat, cap : Nat]
  /\ Bps \subseteq Nat /\ Amount \subseteq Nat
  /\ MaxSats \in Nat /\ MaxFeeBps \in Nat
  /\ Delay \in Nat \ {0}
  /\ DevBuild \in BOOLEAN
  /\ {MaxTime, MaxSent, MaxShielded} \subseteq Nat

VARIABLES
  now,        \* Clock::unix_timestamp
  pool,       \* PoolState accounts: [authority, terms, pending, after, bps]
  config,     \* PoolConfig accounts: [dwallet, key]
  binding,    \* DwalletBinding accounts: the pool that owns the dWallet
  token,      \* TokenConfig accounts: [limits, enabled, shielded]
  registry,   \* VkRegistry accounts: [authority, vk, frozen]
  upgrade,    \* the program's upgrade authority, NoOne once final
  sent,       \* history: deposits on their way, with the terms their senders saw
  shielded,   \* history: what was shielded in each pool and not withdrawn
  closed      \* history: dWallets and pools whose binding or token configuration was closed

vars == <<now, pool, config, binding, token, registry, upgrade, sent, shielded, closed>>

Exists(p) == pool[p] # None
MayAdminister(p, a) == Exists(p) /\ pool[p].authority = a

\* The signer holds the upgrade authority.
IsUpgradeAuthority(a) == upgrade = a

-----------------------------------------------------------------------------
(* Creation, permissionless *)

Initialize(p, a, bps) ==
  /\ ~Exists(p)
  /\ bps < MaxFeeBps
  /\ pool' = [pool EXCEPT ![p] = [authority |-> a, terms |-> DefaultTerms,
                                  pending |-> NoTerms, after |-> 0, bps |-> bps]]
  /\ UNCHANGED <<now, config, binding, token, registry, upgrade, sent, shielded, closed>>

-----------------------------------------------------------------------------
(* The timelock.  after = 0 is the absence of a proposal. *)

\* Fault: the limits are not compared.
AnyTerms(t) == TRUE

ValidTerms(t) == t.min <= t.max /\ t.max <= MaxSats

\* Fault: a proposal that replaces another keeps its deadline.
KeepDeadline(p) == IF pool[p].after # 0 THEN pool[p].after ELSE now + Delay

ExecuteAfter(p) == now + Delay

ProposePoolUpdate(p, a, t) ==
  /\ ValidTerms(t)
  /\ MayAdminister(p, a)
  /\ pool' = [pool EXCEPT ![p] = [@ EXCEPT !.pending = t, !.after = ExecuteAfter(p)]]
  /\ UNCHANGED <<now, config, binding, token, registry, upgrade, sent, shielded, closed>>

HasPendingProposal(p) == pool[p].after # 0

ExecutePoolUpdate(p, a) ==
  /\ MayAdminister(p, a)
  /\ HasPendingProposal(p)
  /\ now >= pool[p].after
  /\ pool' = [pool EXCEPT ![p] = [@ EXCEPT !.terms = pool[p].pending,
                                         !.pending = NoTerms, !.after = 0]]
  /\ UNCHANGED <<now, config, binding, token, registry, upgrade, sent, shielded, closed>>

CancelPoolUpdate(p, a) ==
  /\ MayAdminister(p, a)
  /\ HasPendingProposal(p)
  /\ pool' = [pool EXCEPT ![p] = [@ EXCEPT !.pending = NoTerms, !.after = 0]]
  /\ UNCHANGED <<now, config, binding, token, registry, upgrade, sent, shielded, closed>>

\* The fee may only be lowered.
LowersFee(p, bps) == bps <= pool[p].bps

SetDepositFeeBps(p, a, bps) ==
  /\ MayAdminister(p, a)
  /\ LowersFee(p, bps)
  /\ pool' = [pool EXCEPT ![p].bps = bps]
  /\ UNCHANGED <<now, config, binding, token, registry, upgrade, sent, shielded, closed>>

Admits(t, amount) == t.min <= amount /\ amount <= t.max

\* A depositor broadcasts what the terms in force and the announced ones admit, and notes
\* the deposit fee and the service fees of a later redemption, in force or announced.
Send(p, amount) ==
  /\ Cardinality(sent) < MaxSent
  /\ Exists(p)
  /\ Admits(pool[p].terms, amount)
  /\ HasPendingProposal(p) => Admits(pool[p].pending, amount)
  /\ sent' = sent \cup
       {[pool |-> p, amount |-> amount, at |-> now, bps |-> pool[p].bps,
         fees |-> {pool[p].terms.fee} \cup
                    (IF HasPendingProposal(p) THEN {pool[p].pending.fee} ELSE {})]}
  /\ UNCHANGED <<now, pool, config, binding, token, registry, upgrade, shielded, closed>>

Tick ==
  /\ now < MaxTime
  /\ now' = now + 1
  /\ UNCHANGED <<pool, config, binding, token, registry, upgrade, sent, shielded, closed>>

-----------------------------------------------------------------------------
(* Custody *)

\* Fault: an existing binding is not read.
AnyClaim(p, d) == TRUE

\* The dWallet is free or already this pool's.
MayClaim(p, d) == binding[d] \in {None, p}

\* The script is the key's own Taproot output, and the key is the caller's word: it is
\* not compared with the dWallet.
SetPoolConfig(p, a, d, k) ==
  /\ MayAdminister(p, a)
  /\ MayClaim(p, d)
  /\ config[p] = None
  /\ binding' = [binding EXCEPT ![d] = p]
  /\ config' = [config EXCEPT ![p] = [dwallet |-> d, key |-> k]]
  /\ UNCHANGED <<now, pool, token, registry, upgrade, sent, shielded, closed>>

-----------------------------------------------------------------------------
(* The token *)

\* Fault: a registered token may be registered again.
AlwaysUnregistered(p) == TRUE

Unregistered(p) == token[p] = None

RegisterToken(p, a, l) ==
  /\ MayAdminister(p, a)
  /\ Unregistered(p)
  /\ 0 < l.min /\ l.min <= l.max /\ l.max <= l.cap
  /\ token' = [token EXCEPT ![p] = [limits |-> l, enabled |-> TRUE, shielded |-> 0]]
  /\ UNCHANGED <<now, pool, config, binding, registry, upgrade, sent, shielded, closed>>

\* The fields that the flags name, unvalidated and at once.
UpdateTokenConfig(p, a, flags, l, enabled) ==
  /\ MayAdminister(p, a)
  /\ token[p] # None
  /\ token' = [token EXCEPT
       ![p].limits = [min |-> IF "min" \in flags THEN l.min ELSE @.min,
                      max |-> IF "max" \in flags THEN l.max ELSE @.max,
                      cap |-> IF "cap" \in flags THEN l.cap ELSE @.cap],
       ![p].enabled = enabled]
  /\ UNCHANGED <<now, pool, config, binding, registry, upgrade, sent, shielded, closed>>

\* What every deposit does to the token's ledger, its fees left out.
AddShielded(p, amount) ==
  /\ Exists(p) /\ token[p] # None
  /\ token[p].enabled
  /\ token[p].limits.min <= amount /\ amount <= token[p].limits.max
  /\ token[p].shielded + amount <= token[p].limits.cap
  /\ shielded[p] + amount <= MaxShielded
  /\ token' = [token EXCEPT ![p].shielded = @ + amount]
  /\ shielded' = [shielded EXCEPT ![p] = @ + amount]
  /\ UNCHANGED <<now, pool, config, binding, registry, upgrade, sent, closed>>

\* What every withdrawal does to it.
SubShielded(p, amount) ==
  /\ Exists(p) /\ token[p] # None
  /\ amount <= token[p].shielded
  /\ token' = [token EXCEPT ![p].shielded = @ - amount]
  /\ shielded' = [shielded EXCEPT ![p] = @ - amount]
  /\ UNCHANGED <<now, pool, config, binding, registry, upgrade, sent, closed>>

-----------------------------------------------------------------------------
(* Verification keys *)

InitVkRegistry(x, a, vk) ==
  /\ IsUpgradeAuthority(a)
  /\ registry[x] = None
  /\ registry' = [registry EXCEPT ![x] = [authority |-> a, vk |-> vk, frozen |-> FALSE]]
  /\ UNCHANGED <<now, pool, config, binding, token, upgrade, sent, shielded, closed>>

\* The registry's authority is the one that initialized it.
IsRegistryAuthority(x, a) == registry[x] # None /\ registry[x].authority = a

\* Fault: the freeze is not looked at.
NeverFrozen(x) == FALSE

IsFrozen(x) == registry[x].frozen

UpdateVkRegistry(x, a, vk) ==
  /\ IsUpgradeAuthority(a)
  /\ IsRegistryAuthority(x, a)
  /\ ~IsFrozen(x)
  /\ registry' = [registry EXCEPT ![x].vk = vk]
  /\ UNCHANGED <<now, pool, config, binding, token, upgrade, sent, shielded, closed>>

FreezeVkRegistry(x, a) ==
  /\ IsUpgradeAuthority(a)
  /\ IsRegistryAuthority(x, a)
  /\ registry' = [registry EXCEPT ![x].frozen = TRUE]
  /\ UNCHANGED <<now, pool, config, binding, token, upgrade, sent, shielded, closed>>

\* The loader hands the authority on, or makes the program final.
SetUpgradeAuthority(b) ==
  /\ upgrade # NoOne
  /\ upgrade' = b
  /\ UNCHANGED <<now, pool, config, binding, token, registry, sent, shielded, closed>>

-----------------------------------------------------------------------------
(* Development builds: the upgrade authority closes accounts of any kind *)

DevnetClose == DevBuild /\ upgrade # NoOne

ClosePool(p) ==
  /\ DevnetClose
  /\ Exists(p)
  /\ pool' = [pool EXCEPT ![p] = None]
  /\ sent' = {s \in sent : s.pool # p}
  /\ UNCHANGED <<now, config, binding, token, registry, upgrade, shielded, closed>>

ClosePoolConfig(p) ==
  /\ DevnetClose
  /\ config[p] # None
  /\ config' = [config EXCEPT ![p] = None]
  /\ UNCHANGED <<now, pool, binding, token, registry, upgrade, sent, shielded, closed>>

CloseBinding(d) ==
  /\ DevnetClose
  /\ binding[d] # None
  /\ binding' = [binding EXCEPT ![d] = None]
  /\ closed' = closed \cup {d}
  /\ UNCHANGED <<now, pool, config, token, registry, upgrade, sent, shielded>>

CloseToken(p) ==
  /\ DevnetClose
  /\ token[p] # None
  /\ token' = [token EXCEPT ![p] = None]
  /\ closed' = closed \cup {p}
  /\ UNCHANGED <<now, pool, config, binding, registry, upgrade, sent, shielded>>

CloseRegistry(x) ==
  /\ DevnetClose
  /\ registry[x] # None
  /\ registry' = [registry EXCEPT ![x] = None]
  /\ UNCHANGED <<now, pool, config, binding, token, upgrade, sent, shielded, closed>>

-----------------------------------------------------------------------------

Init ==
  /\ now = 0
  /\ pool = [p \in Pool |-> None]
  /\ config = [p \in Pool |-> None]
  /\ binding = [d \in Dwallet |-> None]
  /\ token = [p \in Pool |-> None]
  /\ registry = [x \in Variant |-> None]
  /\ upgrade \in Account
  /\ sent = {}
  /\ shielded = [p \in Pool |-> 0]
  /\ closed = {}

PoolStep ==
  \E p \in Pool :
    \/ \E a \in Account, bps \in Bps : Initialize(p, a, bps)
    \/ ClosePool(p)

TermsStep ==
  \/ Tick
  \/ \E p \in Pool, a \in Account :
       \/ \E t \in Terms : ProposePoolUpdate(p, a, t)
       \/ ExecutePoolUpdate(p, a)
       \/ CancelPoolUpdate(p, a)
       \/ \E bps \in Bps : SetDepositFeeBps(p, a, bps)
  \/ \E p \in Pool, amount \in Amount : Send(p, amount)

CustodyStep ==
  \/ \E p \in Pool, a \in Account, d \in Dwallet, k \in Key : SetPoolConfig(p, a, d, k)
  \/ \E p \in Pool : ClosePoolConfig(p)
  \/ \E d \in Dwallet : CloseBinding(d)

TokenStep ==
  \E p \in Pool :
    \/ \E a \in Account, l \in Limits : RegisterToken(p, a, l)
    \/ \E a \in Account, flags \in SUBSET {"min", "max", "cap"}, l \in Limits, e \in BOOLEAN :
         UpdateTokenConfig(p, a, flags, l, e)
    \/ \E amount \in Amount : AddShielded(p, amount) \/ SubShielded(p, amount)
    \/ CloseToken(p)

KeyStep ==
  \/ \E x \in Variant, a \in Account :
       \/ \E vk \in Vk : InitVkRegistry(x, a, vk)
       \/ \E vk \in Vk : UpdateVkRegistry(x, a, vk)
       \/ FreezeVkRegistry(x, a)
  \/ \E x \in Variant : CloseRegistry(x)
  \/ \E b \in Account \cup {NoOne} : SetUpgradeAuthority(b)

Next == PoolStep \/ TermsStep \/ CustodyStep \/ TokenStep \/ KeyStep

Spec == Init /\ [][Next]_vars

-----------------------------------------------------------------------------
(* Properties *)

RegistryType == [authority : Account, vk : Vk, frozen : BOOLEAN]
Orderly(t) == t.min <= t.max /\ t.max <= MaxSats

\* The type of every account; and through any sequence of proposals, executions and
\* cancellations the limits of a pool stay orderly (admin_update_pool.rs:56-62), so that
\* some deposit is always possible and none exceeds the supply of bitcoin.
TypeOK ==
  /\ now \in Nat
  /\ pool \in [Pool -> PoolType \cup {None}]
  /\ \A p \in Pool : Exists(p) => Orderly(pool[p].terms) /\ Orderly(pool[p].pending)
  /\ config \in [Pool -> [dwallet : Dwallet, key : Key] \cup {None}]
  /\ binding \in [Dwallet -> Pool \cup {None}]
  /\ token \in [Pool -> TokenType \cup {None}]
  /\ registry \in [Variant -> RegistryType \cup {None}]
  /\ upgrade \in Account \cup {NoOne}
  /\ sent \subseteq [pool : Pool, amount : Amount, at : Nat, bps : Nat, fees : SUBSET Nat]
  /\ shielded \in [Pool -> Int]
  /\ closed \subseteq Pool \cup Dwallet

\* The terms that a sender relied on still serve it: they admit the amount, ask no higher
\* deposit fee, and the service fee is one that was in force or announced.
Serves(s) ==
  /\ Admits(pool[s.pool].terms, s.amount)
  /\ pool[s.pool].terms.fee \in s.fees
  /\ pool[s.pool].bps <= s.bps

\* The timelock of 48 hours (TIMELOCK_DELAY_SECS) covers the bitcoin confirmation time: a
\* deposit that the terms in force and the announced ones admit when it is sent is served
\* by those terms until the delay has passed, whatever proposals, replacements,
\* cancellations and executions the authority interleaves (admin_update_pool.rs:29-215).
SentHonoured == \A s \in sent : now < s.at + Delay => Serves(s)

\* Two pools never hold the same dWallet, in particular after a configuration was closed
\* and set again (set_pool_config.rs:113-150, dwallet_binding.rs), unless a development
\* build closed the dWallet's binding.
OnePoolPerDwallet ==
  \A p, q \in Pool :
    /\ p # q
    /\ config[p] # None /\ config[q] # None
    /\ config[p].dwallet = config[q].dwallet
    => config[p].dwallet \in closed

\* A token's ledger survives every later administration of the token, registration
\* included: its total is what was shielded and not withdrawn (register_token.rs:115-125),
\* unless a development build closed the account.
LedgerKept ==
  \A p \in Pool : token[p] # None /\ p \notin closed => token[p].shielded = shielded[p]

\* A frozen registry keeps its key and its freeze for good, and a final program keeps every
\* registry as it is (init_vk_registry.rs:14-17, 274-279): only a development build may
\* close one.
KeysFrozenStep ==
  /\ \A x \in Variant : registry[x] # None /\ registry[x].frozen =>
       registry'[x] = registry[x] \/ (DevBuild /\ registry'[x] = None)
  /\ upgrade = NoOne => registry' = registry /\ upgrade' = NoOne

KeysFrozen == [][KeysFrozenStep]_vars
===============================================================================
