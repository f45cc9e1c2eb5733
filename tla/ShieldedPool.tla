----------------------------- MODULE ShieldedPool -----------------------------
(***************************************************************************)
(* The notes of a public pool, for one token: commitment trees with their  *)
(* root histories and rotation, nullifier records, the queue of leaves     *)
(* that wait for a merge, and the token's ledger (programs/utxopia:        *)
(* shield, transact, unshield, merge_queued_leaves, rotate_tree).          *)
(*                                                                         *)
(* A commitment is its preimage [owner, value, blind], a Merkle root the   *)
(* sequence of leaves under it, a nullifier the spender's key and the      *)
(* position of the leaf.  A zero-knowledge proof is what the circuit       *)
(* proves: the inputs are leaves under the root that one key owns, and     *)
(* values balance.  Relayers, stealth data and rent are left out.  The     *)
(* token is enabled (its switch is Bridge's UpdateTokenConfig), and        *)
(* redeem, whose spend is unshield's, is an action of Bridge.              *)
(***************************************************************************)
EXTENDS Fees, Sequences, FiniteSetsExt

CONSTANTS
  Owner,              \* spending keys
  Blind,              \* blinding factors of note keys, chosen by the sender
  Transfers,          \* what a deposit may be: [amount, received] of an SPL transfer
  MinDeposit, MaxDeposit, DepositCap,   \* TokenConfig
  DepositBps, WithdrawalBps,            \* PoolState
  MaxLeaves,          \* 2^TREE_DEPTH
  RootHistorySize,    \* ROOT_HISTORY_SIZE (256)
  MaxJoinSplit,       \* MAX_SAFE_JOINSPLIT_SIZE (10), inputs and outputs together
  MaxPublicOutputs,   \* MAX_PUBLIC_OUTPUTS (3)
  MaxMergeLeaves,     \* MAX_MERGE_LEAVES (24)
  MaxTree,            \* bound: rotations explored
  NoteValues,         \* bound: values of outputs explored
  PauseValues,        \* values set_paused is called with
  NoRoot              \* a root-history slot that was never written

ASSUME PoolAssumption ==
  /\ \A x \in Transfers : x.amount \in Nat /\ x.received \in 0..x.amount
  /\ {MinDeposit, MaxDeposit, DepositCap, DepositBps, WithdrawalBps, MaxTree} \cup NoteValues
       \subseteq Nat
  /\ DepositBps <= BpsScale /\ WithdrawalBps <= BpsScale
  /\ {BpsScale, MaxLeaves, RootHistorySize, MaxJoinSplit, MaxPublicOutputs,
      MaxMergeLeaves} \subseteq Nat \ {0}
  /\ PauseValues \subseteq BOOLEAN
  /\ NoRoot \notin Nat

VARIABLES
  paused,       \* PoolState.paused
  active,       \* PoolState.active_tree_index
  trees,        \* CommitmentTree accounts by index
  nullifiers,   \* NullifierRecord accounts
  counted,      \* PoolState.nullifier_count
  queued,       \* QueuedLeaf accounts by commitment
  ledger,       \* TokenConfig's total_shielded and accumulated_fees, and the vault
  overwritten   \* history: worth and nullifier debt of the queued leaves written over

vars == <<paused, active, trees, nullifiers, counted, queued, ledger, overwritten>>

Total(seq) == SumFunction(seq)
Image(seq) == {seq[i] : i \in DOMAIN seq}
SeqOf(S, sizes) == UNION {[1..n -> S] : n \in sizes}

-----------------------------------------------------------------------------
(* The commitment tree *)

\* A root is named by its tree and the number of leaves it covers.
EmptyTree ==
  [leaves |-> <<>>, history |-> [i \in 0..(RootHistorySize - 1) |-> NoRoot], next |-> 0]

RootAt(t, n) == SubSeq(trees[t].leaves, 1, n)

\* Current or in the history; an unused slot is no root.
ValidSizes(t) ==
  {Len(trees[t].leaves)} \cup ({trees[t].history[i] : i \in DOMAIN trees[t].history} \ {NoRoot})

IsValidRoot(t, root) == \E n \in ValidSizes(t) : root = RootAt(t, n)

\* Fault: room for one leaf is enough for a batch.
HasRoomForOne(tree, n) == Len(tree.leaves) < MaxLeaves

HasRoom(tree, n) == Len(tree.leaves) + n <= MaxLeaves

\* Fault: the ring's index is not advanced.
InsertLeavesStuck(tree, commitments) ==
  [leaves |-> tree.leaves \o commitments,
   history |-> [tree.history EXCEPT ![tree.next % RootHistorySize] = Len(tree.leaves)],
   next |-> tree.next]

\* Append all leaves, then push the replaced root: one history slot a batch.
InsertLeavesBatch(tree, commitments) ==
  [leaves |-> tree.leaves \o commitments,
   history |-> [tree.history EXCEPT ![tree.next % RootHistorySize] = Len(tree.leaves)],
   next |-> tree.next + 1]

Placed(commitments) == [trees EXCEPT ![active] = InsertLeavesBatch(@, commitments)]

\* A commitment binds the note's key, which its maker chooses, and its value.
ComputeCommitment(npk, value) == [owner |-> npk.owner, value |-> value, blind |-> npk.blind]

-----------------------------------------------------------------------------
(* Deposits *)

\* What is credited is the measured change of the vault's balance.
Shield(npk, x) ==
  LET fee == ComputeBpsFee(x.received, DepositBps)
      value == x.received - fee
  IN  /\ ~paused
      /\ x.amount \in MinDeposit..MaxDeposit
      /\ value > 0
      /\ ledger.shielded + value <= DepositCap
      /\ HasRoom(trees[active], 1)
      /\ trees' = Placed(<<ComputeCommitment(npk, value)>>)
      /\ ledger' = [shielded |-> ledger.shielded + value, fees |-> ledger.fees + fee,
                    vault |-> ledger.vault + x.received]
      /\ UNCHANGED <<paused, active, nullifiers, counted, queued, overwritten>>

-----------------------------------------------------------------------------
(* Spends.  A spend names a root, by tree and size, and leaves under it. *)

Spend ==
  UNION {UNION {[tree : {t}, size : {n}, key : Owner, ins : SeqOf(1..n, 1..(MaxJoinSplit - 1))]
                : n \in ValidSizes(t)} : t \in 0..active}

Root(sp) == RootAt(sp.tree, sp.size)

\* The active tree is tried first; only then a frozen tree the caller supplies.
AcceptsRoot(sp) == sp.tree = active \/ ~IsValidRoot(active, Root(sp))

\* What the circuit proves (external): the key owns the inputs, values balance.
ProofHolds(sp, outs, amounts) ==
  /\ \A i \in DOMAIN sp.ins : Root(sp)[sp.ins[i]].owner = sp.key
  /\ Total([i \in DOMAIN sp.ins |-> Root(sp)[sp.ins[i]].value])
       = Total([i \in DOMAIN outs |-> outs[i].value]) + Total(amounts)

\* Fault: the seeds leave the tree out, as they once did.
NullifierSeedsUnscoped(tree, key, position) ==
  [tree |-> 0, key |-> key, position |-> position]

\* The nullifier is the key and the position; the account is scoped to the tree.
NullifierSeeds(tree, key, position) ==
  [tree |-> tree, key |-> key, position |-> position]

NewNullifiers(sp) == {NullifierSeeds(sp.tree, sp.key, sp.ins[i]) : i \in DOMAIN sp.ins}

\* No record exists, and none is created twice by this spend.
Unused(sp) ==
  /\ NewNullifiers(sp) \cap nullifiers = {}
  /\ Cardinality(NewNullifiers(sp)) = Len(sp.ins)

Verified(sp, outs, amounts) ==
  /\ Len(outs) + Len(amounts) > 0
  /\ Len(sp.ins) + Len(outs) + Len(amounts) <= MaxJoinSplit
  /\ AcceptsRoot(sp)
  /\ Unused(sp)
  /\ ProofHolds(sp, outs, amounts)

\* A private transfer whose outputs go into the tree at once.
Transact(sp, outs) ==
  /\ ~paused
  /\ Verified(sp, outs, <<>>)
  /\ HasRoom(trees[active], Len(outs))
  /\ nullifiers' = nullifiers \cup NewNullifiers(sp)
  /\ counted' = counted + Len(sp.ins)
  /\ trees' = Placed(outs)
  /\ UNCHANGED <<paused, active, queued, ledger, overwritten>>

\* Fault: every leaf of the spend carries its nullifiers.
DebtOnEach(sp, outs, c) == Len(sp.ins)

\* The first leaf carries the count; a later leaf of the same commitment is written over
\* it and carries none.
NullifierDebt(sp, outs, c) ==
  IF c = outs[1] /\ \A i \in 2..Len(outs) : outs[i] # c THEN Len(sp.ins) ELSE 0

\* The outputs whose account exists when they are written: queued before, or by this spend.
Rewrites(outs) ==
  {i \in DOMAIN outs : outs[i] \in DOMAIN queued \/ \E j \in 1..(i - 1) : outs[j] = outs[i]}

\* Worth and nullifier debt of the leaves that are written over.
Overwrite(sp, outs) ==
  [value |-> overwritten.value + SumFunction([i \in Rewrites(outs) |-> outs[i].value]),
   debt |-> overwritten.debt
            + SumFunction([c \in DOMAIN queued \cap Image(outs) |-> queued[c].debt])
            + (Len(sp.ins) - NullifierDebt(sp, outs, outs[1]))]

\* A private transfer whose outputs wait in accounts of their own.  An account that exists
\* is no obstacle: create_pda_account finds it funded and leaves it to be initialized again.
TransactQueued(sp, outs) ==
  /\ ~paused
  /\ Verified(sp, outs, <<>>)
  /\ nullifiers' = nullifiers \cup NewNullifiers(sp)
  /\ queued' = [c \in DOMAIN queued \cup Image(outs) |->
                  IF c \in Image(outs)
                    THEN [tree |-> active, debt |-> NullifierDebt(sp, outs, c)]
                    ELSE queued[c]]
  /\ overwritten' = Overwrite(sp, outs)
  /\ UNCHANGED <<paused, active, trees, counted, ledger>>

\* Pay out the public outputs, less their fee; the rest goes back into the tree.
Unshield(sp, outs, amounts) ==
  LET fees == Total([i \in DOMAIN amounts |-> ComputeBpsFee(amounts[i], WithdrawalBps)])
      payout == Total(amounts) - fees
  IN  /\ ~paused
      /\ Len(amounts) \in 1..MaxPublicOutputs
      /\ Verified(sp, outs, amounts)
      /\ outs = <<>> \/ HasRoom(trees[active], Len(outs))
      /\ payout <= ledger.vault
      /\ Total(amounts) <= ledger.shielded
      /\ nullifiers' = nullifiers \cup NewNullifiers(sp)
      /\ counted' = counted + Len(sp.ins)
      /\ trees' = IF outs = <<>> THEN trees ELSE Placed(outs)
      /\ ledger' = [shielded |-> ledger.shielded - Total(amounts),
                    fees |-> ledger.fees + fees, vault |-> ledger.vault - payout]
      /\ UNCHANGED <<paused, active, queued, overwritten>>

-----------------------------------------------------------------------------
(* Maintenance, by anyone *)

\* Fault: one account may be listed twice.
ListedAnyhow(batch) == TRUE

\* No account is listed twice.
ListedOnce(batch) == Cardinality(Image(batch)) = Len(batch)

\* Place queued leaves in the listed order, settle their nullifier count, close them.
MergeQueuedLeaves(batch) ==
  /\ ~paused
  /\ \A i \in DOMAIN batch : queued[batch[i]].tree = active
  /\ ListedOnce(batch)
  /\ HasRoom(trees[active], Len(batch))
  /\ trees' = Placed(batch)
  /\ counted' = counted + Total([i \in DOMAIN batch |-> queued[batch[i]].debt])
  /\ queued' = [c \in DOMAIN queued \ Image(batch) |-> queued[c]]
  /\ UNCHANGED <<paused, active, nullifiers, ledger, overwritten>>

\* A full tree is frozen and an empty one becomes active.
RotateTree ==
  /\ Len(trees[active].leaves) >= MaxLeaves
  /\ active < MaxTree
  /\ active' = active + 1
  /\ trees' = [t \in 0..(active + 1) |-> IF t = active + 1 THEN EmptyTree ELSE trees[t]]
  /\ UNCHANGED <<paused, nullifiers, counted, queued, ledger, overwritten>>

SetPaused(value) ==
  /\ paused' = value
  /\ UNCHANGED <<active, trees, nullifiers, counted, queued, ledger, overwritten>>

-----------------------------------------------------------------------------
NoteKey == [owner : Owner, blind : Blind]
Commitment == [owner : Owner, value : Nat, blind : Blind]
Outputs ==
  SeqOf({ComputeCommitment(npk, v) : npk \in NoteKey, v \in NoteValues}, 0..(MaxJoinSplit - 1))
Amounts == SeqOf(NoteValues, 1..MaxPublicOutputs)

Init ==
  /\ paused = FALSE
  /\ active = 0
  /\ trees = [t \in {0} |-> EmptyTree]
  /\ nullifiers = {}
  /\ counted = 0
  /\ queued = [c \in {} |-> {}]
  /\ ledger = [shielded |-> 0, fees |-> 0, vault |-> 0]
  /\ overwritten = [value |-> 0, debt |-> 0]

Next ==
  \/ \E npk \in NoteKey, x \in Transfers : Shield(npk, x)
  \/ \E sp \in Spend, outs \in Outputs : Transact(sp, outs)
  \/ \E sp \in Spend, outs \in Outputs : TransactQueued(sp, outs)
  \/ \E sp \in Spend, outs \in Outputs, amounts \in Amounts : Unshield(sp, outs, amounts)
  \/ \E batch \in SeqOf(DOMAIN queued, 1..MaxMergeLeaves) : MergeQueuedLeaves(batch)
  \/ RotateTree
  \/ \E value \in PauseValues : SetPaused(value)

Spec == Init /\ [][Next]_vars

-----------------------------------------------------------------------------
(* Properties *)

\* Accounts have their types, no tree holds more leaves than it has room for
\* (CommitmentTree::insert_leaves_batch), and every nullifier record is that of a leaf in the
\* tree it names, owned by the key that spent it (create_nullifier_records).
TypeOK ==
  /\ paused \in BOOLEAN
  /\ active \in 0..MaxTree
  /\ trees \in [0..active -> [leaves : Seq(Commitment),
                              history : [0..(RootHistorySize - 1) -> Nat \cup {NoRoot}],
                              next : Nat]]
  /\ \A t \in 0..active : Len(trees[t].leaves) <= MaxLeaves
  /\ nullifiers \subseteq [tree : 0..active, key : Owner, position : 1..MaxLeaves]
  /\ \A n \in nullifiers : n.position \in DOMAIN trees[n.tree].leaves
                           /\ trees[n.tree].leaves[n.position].owner = n.key
  /\ counted \in Nat
  /\ DOMAIN queued \subseteq Commitment
  /\ queued \in [DOMAIN queued -> [tree : 0..active, debt : Nat]]
  /\ ledger \in [shielded : Nat, fees : Nat, vault : Nat]
  /\ overwritten \in [value : Nat, debt : Nat]

Position == UNION {{<<t, i>> : i \in DOMAIN trees[t].leaves} : t \in DOMAIN trees}
LeafAt(p) == trees[p[1]].leaves[p[2]]
Spent(p) == [tree |-> p[1], key |-> LeafAt(p).owner, position |-> p[2]] \in nullifiers
Unspent == {p \in Position : ~Spent(p)}

\* No note is spent twice, lost or made of nothing, through any sequence of deposits,
\* spends against old or frozen roots, queued outputs, merges and rotations: what the
\* ledger owes is the worth of the unspent leaves and of the queued ones, and of the
\* outputs that were queued over an equal one, which nobody can spend; the vault holds it
\* with the fees.
NotesBacked ==
  /\ ledger.shielded = SumFunction([p \in Unspent |-> LeafAt(p).value])
                       + SumFunction([c \in DOMAIN queued |-> c.value]) + overwritten.value
  /\ ledger.vault = ledger.shielded + ledger.fees

\* The active tree is an exact copy of tree t, leaf for leaf.
Copied(t) == t # active /\ trees[t].leaves = trees[active].leaves

\* Every unspent leaf can be spent: a root over it is accepted, in its own tree, and
\* the record its spend creates does not exist ("unscoped, spending either would
\* permanently strand the other").  While the active tree is an exact copy of a frozen
\* one, whose root then names the active tree, the frozen leaves wait.
NotesSpendable ==
  \A p \in Unspent :
    /\ NullifierSeeds(p[1], LeafAt(p).owner, p[2]) \notin nullifiers
    /\ ~Copied(p[1]) =>
         \E n \in ValidSizes(p[1]) :
           n >= p[2] /\ (p[1] = active \/ ~IsValidRoot(active, RootAt(p[1], n)))

\* nullifier_count never runs ahead, and the queued leaves owe the rest, but for the debts
\* of leaves that were written over, which are never settled: only there does the code
\* depart from "the counter stays exact; only its timing moves".
NullifiersAccounted ==
  Cardinality(nullifiers) = counted + overwritten.debt
                            + SumFunction([c \in DOMAIN queued |-> queued[c].debt])

\* A root is forgotten only when RootHistorySize newer ones have replaced it, and the
\* oldest goes first: a prover has that many batches of headroom.
RootsKept ==
  [][\A t \in DOMAIN trees :
       \A n \in ValidSizes(t) \ ValidSizes(t)' :
         /\ Cardinality(ValidSizes(t)) > RootHistorySize
         /\ \A m \in ValidSizes(t) \cap ValidSizes(t)' : n < m]_vars

\* A queued leaf can be placed by its holder at any time the pool is not paused ("no
\* operator can strand an output note by declining to merge it, because the holder
\* can merge it themselves").
QueuedCanBePlaced ==
  \A c \in DOMAIN queued : queued[c].tree = active /\ HasRoom(trees[active], 1)
===============================================================================
