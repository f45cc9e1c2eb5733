-------------------------------- MODULE Policy --------------------------------
(***************************************************************************)
(* Authorization in a permissioned pool: policy approvals, which both      *)
(* programs can create and only programs/utxopia-policy's are spent, the   *)
(* auditor, the registry of exit destinations, and the handlers of         *)
(* programs/utxopia that consume an approval or leave without one.         *)
(*                                                                         *)
(* A request hash is the request it commits to.  Notes have no amounts     *)
(* here and are spent as a whole (ShieldedPool and Bridge have the         *)
(* amounts); the proof a spend carries is the owner's, the account named   *)
(* as its user need not be.  A delegated approval lives in the rollup,     *)
(* which has a clock of its own, until it is committed back.               *)
(***************************************************************************)
EXTENDS Integers, Sequences, FiniteSets

CONSTANTS
  Actor,          \* participants
  Operator,       \* the pool's authority, who signs Bitcoin deposits
  Auditor,        \* keys an auditor may have
  NoKey,          \* the all-zero key
  Script,         \* Bitcoin scripts
  Applications,   \* what approvals are asked for: a request, and what is claimed of it
  Registrable,    \* destinations the auditor may register
  \* Bounds of a run:
  MaxSlot,        \* last slot of either clock
  MaxNotes,       \* notes ever made
  MaxApprovals    \* approvals ever created

Program == {"asset", "policy"}
Entry   == {"shield", "complete_deposit", "verify_deposit"}
Action  == Entry \cup {"transact", "unshield", "redeem"}   \* is_permissioned_action

\* What can be registered: an owner of token accounts, or a script by its hash.
Destination == [kind : {"wallet"}, key : Actor] \cup [kind : {"script"}, key : Script]
Wallet(u)   == [kind |-> "wallet", key |-> u]

\* What the authority decides: who does what.  An entry names the new note's owner,
\* a spend the notes it spends, an exit also where it goes.
Enter(action, actor, to)   == [action |-> action, actor |-> actor, to |-> to]
Transfer(actor, n)         == [action |-> "transact", actor |-> actor, note |-> n]
Exit(action, actor, n, d)  == [action |-> action, actor |-> actor, note |-> n, dest |-> d]

ExitAction(d) == IF d.kind = "wallet" THEN "unshield" ELSE "redeem"

ASSUME PolicyAssumption ==
  /\ NoKey \notin Auditor
  /\ {MaxSlot, MaxNotes, MaxApprovals} \subseteq Nat
  /\ Registrable \subseteq Destination
  /\ \A app \in Applications : app.action \in Action /\ app.actor \in Actor \cup {Operator}

VARIABLES
  pool,       \* PoolState: auditor, auditor_frozen, paused
  slot,       \* Clock::slot on Solana and in the rollup
  approvals,  \* PolicyApproval accounts by program, request hash and nonce
  registry,   \* ExitDestination accounts
  notes,      \* owners of the notes made, in order
  spent,      \* notes with a nullifier record
  paid        \* exits: a note and where its value went

vars == <<pool, slot, approvals, registry, notes, spent, paid>>

-----------------------------------------------------------------------------
(* The life of an approval *)

\* An approval binds the auditor of the moment it is created.
NewApproval(action, actor, expires) ==
  [status |-> "pending", action |-> action, actor |-> actor, expires |-> expires,
   authority |-> pool.auditor, layer |-> "base"]

MayInitialize(k, expires) ==
  /\ k \notin DOMAIN approvals
  /\ expires > slot.base
  /\ ~pool.frozen

\* By anyone, who also claims the action and the actor, which the hash hides.
InitializePolicyApproval(k, action, actor, expires) ==
  /\ MayInitialize(k, expires)
  /\ Cardinality(DOMAIN approvals) < MaxApprovals
  /\ approvals' = [j \in DOMAIN approvals \cup {k} |->
                     IF j = k THEN NewApproval(action, actor, expires) ELSE approvals[j]]
  /\ UNCHANGED <<pool, slot, registry, notes, spent, paid>>

\* The policy program does not delegate while the auditor is frozen.
MayDelegate(k) == approvals[k].layer = "base" /\ (k.program = "policy" => ~pool.frozen)

\* By the pool's authority: the account moves to the rollup.
Delegate(k) ==
  /\ MayDelegate(k)
  /\ approvals' = [approvals EXCEPT ![k].layer = "rollup"]
  /\ UNCHANGED <<pool, slot, registry, notes, spent, paid>>

Undecided(k) ==
  /\ approvals[k].status = "pending"
  /\ slot[approvals[k].layer] <= approvals[k].expires

\* By the auditor the approval names, wherever the account is.
PolicyApprovalDecision(k, verdict) ==
  /\ Undecided(k)
  /\ approvals' = [approvals EXCEPT ![k].status = verdict]
  /\ UNCHANGED <<pool, slot, registry, notes, spent, paid>>

\* By anyone: a decided approval comes back to Solana.
PolicyApprovalCommit(k) ==
  /\ approvals[k].layer = "rollup"
  /\ approvals[k].status \in {"approved", "rejected"}
  /\ approvals' = [approvals EXCEPT ![k].layer = "base"]
  /\ UNCHANGED <<pool, slot, registry, notes, spent, paid>>

-----------------------------------------------------------------------------
(* Consuming an approval: both programs decide, the second in a CPI *)

SpendIsAllowed(a) == a.status = "approved" /\ slot.base <= a.expires

\* consume_policy_approval, with the freeze check its callers make.
AssetAccepts(k, r) ==
  LET a == approvals[k]
  IN  /\ ~pool.frozen
      /\ k.program = "policy" /\ a.layer = "base"
      /\ a.action = r.action /\ a.actor = r.actor
      /\ a.authority = pool.auditor
      /\ k.request = r
      /\ SpendIsAllowed(a)

\* Fault: the last slot of an approval is not accepted.
PolicyAcceptsBefore(k, r) ==
  /\ ~pool.frozen
  /\ approvals[k].status = "approved" /\ slot.base < approvals[k].expires
  /\ approvals[k].action = r.action
  /\ approvals[k].authority = pool.auditor
  /\ k.request = r

\* The policy program's own copy of the rule.
PolicyAccepts(k, r) ==
  /\ ~pool.frozen
  /\ approvals[k].status = "approved" /\ slot.base <= approvals[k].expires
  /\ approvals[k].action = r.action
  /\ approvals[k].authority = pool.auditor
  /\ k.request = r

\* Fault: the approval stays approved.
NotConsumed(k) == approvals

Consumed(k) == [approvals EXCEPT ![k].status = "consumed"]

ConsumePolicyApproval(k, r) ==
  /\ AssetAccepts(k, r)
  /\ PolicyAccepts(k, r)
  /\ approvals' = Consumed(k)

-----------------------------------------------------------------------------
(* Value entering, moving and leaving *)

\* Fault: some entry is enough, whoever it belongs to.
SomeExit(u) == registry # {}

\* "No value enters without a way back out": the depositor's own entry.
HasOwnExit(u) == Wallet(u) \in registry

NewNote(to) == Len(notes) < MaxNotes /\ notes' = Append(notes, to)

ShieldPermissioned(k, u, to) ==
  /\ ~pool.paused
  /\ HasOwnExit(u)
  /\ ConsumePolicyApproval(k, Enter("shield", u, to))
  /\ NewNote(to)
  /\ UNCHANGED <<pool, slot, registry, spent, paid>>

\* complete_deposit_permissioned and verify_deposit_permissioned.
DepositPermissioned(k, action, to) ==
  /\ ~pool.paused
  /\ ConsumePolicyApproval(k, Enter(action, Operator, to))
  /\ NewNote(to)
  /\ UNCHANGED <<pool, slot, registry, spent, paid>>

Unspent(n) == n \in DOMAIN notes /\ n \notin spent

\* Circulation always needs the auditor.
Transact(k, u, n, to) ==
  /\ ~pool.paused
  /\ Unspent(n)
  /\ ConsumePolicyApproval(k, Transfer(u, n))
  /\ spent' = spent \cup {n}
  /\ NewNote(to)
  /\ UNCHANGED <<pool, slot, registry, paid>>

PayOut(n, d) ==
  /\ ~pool.paused
  /\ Unspent(n)
  /\ spent' = spent \cup {n}
  /\ paid' = paid \cup {[note |-> n, dest |-> d]}
  /\ UNCHANGED <<pool, slot, registry, notes>>

\* Fault: the approval does not commit to the destination.
ApprovedExitAnywhere(u, n, d, e) == Exit(ExitAction(d), u, n, e)

\* The request a verified exit needs: this note to this destination.
ApprovedExit(u, n, d, e) == Exit(ExitAction(d), u, n, d)

\* unshield and redeem on the verified path, and on the ragequit path.
ExitVerified(k, u, n, d) ==
  /\ PayOut(n, d)
  /\ \E e \in Destination : ConsumePolicyApproval(k, ApprovedExit(u, n, d, e))

\* Fault: a freeze stops every exit.
RagequitUnlessFrozen(d) == d \in registry /\ ~pool.frozen

MayRagequit(d) == d \in registry

ExitRagequit(n, d) ==
  /\ PayOut(n, d)
  /\ MayRagequit(d)
  /\ UNCHANGED approvals

-----------------------------------------------------------------------------
(* Administration *)

\* By the auditor, frozen or not.  There is no way to remove an entry.
RegisterExitDestination(d) ==
  /\ registry' = registry \cup {d}
  /\ UNCHANGED <<pool, slot, approvals, notes, spent, paid>>

SetAuditorFrozen(value) ==
  /\ pool' = [pool EXCEPT !.frozen = value]
  /\ UNCHANGED <<slot, approvals, registry, notes, spent, paid>>

\* Fault: the zero key is accepted.
AnyKey(x) == TRUE

ValidKey(x) == x # NoKey

\* By the pool's authority.
RotateAuditor(x) ==
  /\ ValidKey(x)
  /\ pool' = [pool EXCEPT !.auditor = x, !.frozen = FALSE]
  /\ UNCHANGED <<slot, approvals, registry, notes, spent, paid>>

SetPaused(value) ==
  /\ pool' = [pool EXCEPT !.paused = value]
  /\ UNCHANGED <<slot, approvals, registry, notes, spent, paid>>

\* The clocks (external).
NextSlot(layer) ==
  /\ slot[layer] < MaxSlot
  /\ slot' = [slot EXCEPT ![layer] = @ + 1]
  /\ UNCHANGED <<pool, approvals, registry, notes, spent, paid>>

-----------------------------------------------------------------------------
Init ==
  /\ pool \in [auditor : Auditor, frozen : {FALSE}, paused : {FALSE}]
  /\ slot = [base |-> 0, rollup |-> 0]
  /\ approvals = [k \in {} |-> {}]
  /\ registry = {}
  /\ notes = <<>>
  /\ spent = {}
  /\ paid = {}

Key(app) == [program |-> app.program, request |-> app.request, nonce |-> app.nonce]

Approving ==
  \/ \E app \in Applications, expires \in 1..MaxSlot :
       InitializePolicyApproval(Key(app), app.action, app.actor, expires)
  \/ \E k \in DOMAIN approvals : Delegate(k)
  \/ \E k \in DOMAIN approvals, verdict \in {"approved", "rejected"} :
       PolicyApprovalDecision(k, verdict)
  \/ \E k \in DOMAIN approvals : PolicyApprovalCommit(k)

Moving ==
  \/ \E k \in DOMAIN approvals, u \in Actor, to \in Actor : ShieldPermissioned(k, u, to)
  \/ \E k \in DOMAIN approvals, action \in Entry \ {"shield"}, to \in Actor :
       DepositPermissioned(k, action, to)
  \/ \E k \in DOMAIN approvals, u \in Actor, n \in DOMAIN notes, to \in Actor :
       Transact(k, u, n, to)
  \/ \E k \in DOMAIN approvals, u \in Actor, n \in DOMAIN notes, d \in Destination :
       ExitVerified(k, u, n, d)
  \/ \E n \in DOMAIN notes, d \in Destination : ExitRagequit(n, d)

Administering ==
  \/ \E d \in Registrable : RegisterExitDestination(d)
  \/ \E value \in BOOLEAN : SetAuditorFrozen(value)
  \/ \E x \in Auditor \cup {NoKey} : RotateAuditor(x)
  \/ \E value \in BOOLEAN : SetPaused(value)
  \/ \E layer \in {"base", "rollup"} : NextSlot(layer)

Next == Approving \/ Moving \/ Administering

Spec == Init /\ [][Next]_vars

\* A pause is lifted some time, and holders who want to leave try again and again.
\* Nothing is assumed of the auditor.
FairSpec ==
  /\ Spec
  /\ WF_vars(pool.paused /\ SetPaused(FALSE))
  /\ \A n \in 1..MaxNotes : SF_vars(n \in DOMAIN notes /\ \E d \in Destination : ExitRagequit(n, d))

-----------------------------------------------------------------------------
(* Properties *)

Approval ==
  [status : {"pending", "approved", "rejected", "consumed"},
   action : Action, actor : Actor \cup {Operator},
   expires : 1..MaxSlot, authority : Auditor, layer : {"base", "rollup"}]

\* The accounts of both programs have their types; the auditor is never the zero key
\* (process_rotate_auditor) and only spent notes were paid out.
TypeOK ==
  /\ pool \in [auditor : Auditor, frozen : BOOLEAN, paused : BOOLEAN]
  /\ slot \in [base : 0..MaxSlot, rollup : 0..MaxSlot]
  /\ DOMAIN approvals \subseteq {Key(app) : app \in Applications}
  /\ approvals \in [DOMAIN approvals -> Approval]
  /\ registry \subseteq Registrable
  /\ notes \in Seq(Actor)
  /\ spent \subseteq DOMAIN notes
  /\ paid \subseteq [note : spent, dest : Destination]

ConsumedFor(actions) ==
  {k \in DOMAIN approvals : approvals[k].status = "consumed" /\ k.request.action \in actions}

\* Value leaves only to a registered destination, or to the one that an approval of
\* exactly this exit names, whatever was approved, rotated or frozen in between.
ExitsVetted ==
  \A e \in paid :
    \/ e.dest \in registry
    \/ \E k \in ConsumedFor({ExitAction(e.dest)}), u \in Actor :
         k.request = Exit(ExitAction(e.dest), u, e.note, e.dest)

\* An approval admits one note, and no note enters or moves without one.
ApprovalsUsedOnce ==
  /\ Len(notes) = Cardinality(ConsumedFor(Entry \cup {"transact"}))
  /\ Cardinality(spent) = Cardinality(paid) + Cardinality(ConsumedFor({"transact"}))

\* Whoever deposited tokens has an exit to their own wallet for good ("nobody can be
\* trapped" is "an on-chain invariant instead of an operational promise").
DepositorsHaveExits ==
  \A k \in ConsumedFor({"shield"}) : Wallet(k.request.actor) \in registry

\* What the asset program accepts the policy program accepts too ("a rule that drifts
\* from the asset program's stalls every approved spend in the CPI").
RulesAgree ==
  \A k \in DOMAIN approvals : AssetAccepts(k, k.request) => PolicyAccepts(k, k.request)

\* Whoever has a registered wallet can get a note out, though the auditor stays silent,
\* refuses, freezes or is replaced ("the auditor therefore controls where an unapproved
\* exit can land, never whether it can happen").
HoldersCanLeave ==
  \A n \in 1..MaxNotes :
    (n \in DOMAIN notes /\ Wallet(notes[n]) \in registry) ~> n \in spent
===============================================================================
