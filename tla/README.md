# A TLA+ model of the UTXOpia Solana programs

UTXOpia holds bitcoin in a threshold-signed wallet and accounts for it on Solana
in notes that only their owner can spend. Two programs carry the logic:
`programs/btc-light-client`, an SPV client that decides which Bitcoin
transactions are final, and `programs/utxopia`, which credits deposits, keeps the
shielded notes and pays out redemptions. A small third program,
`programs/utxopia-policy`, holds the approvals of permissioned pools.

Solana runs an instruction atomically: a handler that fails changes nothing. What
is hard is therefore never a half-executed handler but the *order* of whole ones.
Nearly every instruction may be sent by anyone, at any time, again, and in an order
no test was written for; between two of them a Bitcoin reorganization, a
signature by the external signer or a passing slot may change the world. The
project is about these orders.

## 1. Inventory

### Bitcoin light client (`btc-light-client`)

*State.* One client account (network, anchor, tip, chainwork, finalized height,
difficulty epoch, reinitialization epoch), a `BlockHeader` account per stored
block, a `HeightIndex` account per height that names the canonical block, and a
`VerifiedTransaction` account per attested (block, transaction).

*Operations.* `initialize` and `reinitialize` (authority), `extend_blockchain`,
`verify_transaction` and `prune_obsolete_blocks` (anyone).

*Hard.* Forks of different work and length in any batching; the finality gate;
state carried from header to header (difficulty epoch, median-time window) that
must belong to the parent's branch and not to the client's; index entries left by
an earlier branch or an earlier chain instance; 256-bit arithmetic on compact
targets.

*Correct if* what was attested as final is never contradicted, the height index
is the tip's ancestry, the difficulty of the canonical chain is the one Bitcoin's
rule asks for, and the heaviest branch is adopted in the end.

### Bitcoin custody (`utxopia`: deposits and redemptions)

*State.* `PoolState` and `TokenConfig` (switches, limits, counters), the zkBTC
vault, `DepositReceipt`, `UtxoRecord`, `RedemptionRequest` and
`CompletionReceipt` accounts; outside Solana, the approvals given to the Ika
dWallet network and the payouts confirmed on Bitcoin.

*Operations.* `complete_deposit`, `redeem`, `mark_processing`,
`approve_redemption_signing`, `complete_redemption`, `cancel_redemption`,
`claim_fees`, `set_paused`, `update_token_config`.

*Hard.* An approval cannot be taken back, and inputs are approved one call at a
time; a coin that is being paid out can be refunded after a timeout; slots are
kept modulo 2^32; two requests race for the same coins; the fee is fixed at three
different places; the account that prevents a second credit is closed by the
payout.

*Correct if* the coins on record back the tokens in existence to the unit, a coin
serves one request, a payout and a refund of one redemption never both happen,
what Bitcoin confirmed can be settled, and every redemption ends.

### Shielded notes (`utxopia`: trees, nullifiers, queue)

*State.* `CommitmentTree` accounts with a ring of historical roots, the index of
the active tree, `NullifierRecord` accounts, `QueuedLeaf` accounts, the token's
ledger.

*Operations.* `shield`, `transact` (placed at once or queued), `unshield`, the
spend part of `redeem`, `merge_queued_leaves`, `rotate_tree`.

*Hard.* A spend is proved against a root that others replace meanwhile; leaf
positions, and with them nullifiers, start again in every tree; queued leaves are
bound to the tree that was active; one spend's accounting is split over later
merges in any grouping.

*Correct if* no note is spent twice, lost or created from nothing, every unspent
note stays spendable, a queued note can always be placed, and every nullifier is
counted once its spend's outputs are placed.

### Permissioned pools (`policy_approval`, `exit_destination`, `utxopia-policy`)

*State.* `PolicyApproval` accounts (pending, approved, rejected, consumed; expiry
slot; the auditor at creation), `ExitDestination` accounts, the auditor and its
frozen flag in `PoolState`.

*Operations.* initialize, delegate, decide, commit and consume an approval;
register an exit destination; freeze and rotate the auditor.

*Hard.* Decision and consumption happen in different programs and rollups, with
an expiry and an auditor rotation between them; two implementations of one rule
"must stay in lockstep". *Correct if* an approval authorizes one spend, and a
refusal never traps value that has a registered exit.

### Administration

*State.* The pool's authority, terms and pending proposal, `PoolConfig` and
`DwalletBinding`, `TokenConfig`, the VK registry, the program's upgrade authority.

*Operations.* Timelocked pool updates (propose, execute, cancel), deposit-fee cuts,
the VK registry and its freeze, `set_pool_config` with the dWallet binding,
`register_token` and `update_token_config`, `initialize` and
`initialize_permissioned`, and in development builds `devnet_close`.

*Hard.* A bitcoin deposit is under way for hours while proposals are made, replaced,
cancelled and executed; accounts are closed and created again; the upgrade authority
changes hands.

*Correct if* no term gets worse for a deposit under way, no key material changes after
a freeze, no dWallet serves two pools and no administration touches a token's ledger.

### The rest

MagicBlock delegation (`magicblock.rs`), the Ika CPI (`cpi/ika.rs`), byte-level
parsing and cryptography (`utils/`), the Equihash benchmark, scripts and tests.

### How the parts meet

```
 Bitcoin --headers--> light client --VerifiedTransaction--> complete_deposit --note--> tree
                           |                                      |                     |
                           |                                 UtxoRecord        transact / merge
                           |                                      |                     |
                           +--VerifiedTransaction--> complete_redemption <-- approve <-- mark <-- redeem
                                                                                |
 Ika <------------------------------ one approval per input --------------------+
 permissioned pools: every entry and exit also consumes a PolicyApproval, or takes
 a registered ExitDestination
```

## 2. Modules

| module | models | extends |
|---|---|---|
| `Difficulty` | compact targets, retarget, chainwork, median time (`utils/difficulty.rs`, `pow.rs`, `u256.rs`) | |
| `Finality` | abstract: what the light client promises to those who read it | |
| `LightClient` | the five instructions of the light client, an implementation of `Finality` | `Difficulty` |
| `DifficultyRules` | what the arithmetic promises, against its mathematical definition | `LightClient` |
| `MCLightClient` | three small universes of headers | `DifficultyRules` |
| `LightClientProofs` | types, finality, refinement, ancestry | `LightClient`, `SumTheorems` |
| `ConsensusProofs` | timestamps and difficulty of the canonical chain, arithmetic of targets | `LightClientProofs`, `DifficultyRules` |
| `Fees` | the basis-point fee both sides use | |
| `Bridge` | custody, deposits and redemptions | `Fees` |
| `MCBridge` | coins, payouts and configurations | `Bridge` |
| `BridgeProofs` | reservations, ledger, counters, payouts | `Bridge`, `SumTheorems` |
| `Deposit` | `complete_deposit` in its three modes on top of the light client's promise | instantiates `Finality` |
| `MCDeposit` | transactions, blocks and three pools, two of one key | `Deposit` |
| `DepositProofs` | finality and uniqueness of credits | `Deposit` |
| `ShieldedPool` | trees, nullifiers, queue, ledger | `Fees` |
| `MCShieldedPool` | transfers | `ShieldedPool` |
| `ShieldedPoolProofs` | value, nullifiers, roots | `ShieldedPool`, `SumTheorems` |
| `Policy` | approvals in both programs, auditor, exit registry, permissioned entries and exits | |
| `MCPolicy` | applications and destinations | `Policy` |
| `PolicyProofs` | exits, approvals, the two programs | `Policy` |
| `PoolAdmin` | creation, timelock, fee cuts, custody configuration, token, VK registry, development closes | |
| `MCPoolAdmin` | two pools, one area of administration at a time | `PoolAdmin` |
| `PoolAdminProofs` | terms, bindings, ledgers, keys | `PoolAdmin` |
| `SumTheorems` | sums over finite sets, least numbers, remainders | |

Operators keep the source's names in TLA+ spelling (`mark_processing` is
`MarkProcessing`). An operator whose comment starts with "Fault:" is a deliberately
wrong variant of the operator after it; no specification uses it. It records
which mistake in the code the property named in `PROJECT.json` would reveal.

### LightClient

`lc` is the client account, `headers`, `heightIndex` and `verified` the other
accounts by their seeds, `now` the Solana clock. A block is its hash and the
constants fix the header behind it (`Prev`, `Time`, `Bits`, `Pow`, `TxsOf`): the
universe of headers that somebody could mine and submit. `ExtendBlockchain` takes
any linked batch over a stored, live and canonical parent with any median-time
window the code accepts; `RunOf` is the loop over the batch with its locals.
`ExtendCanonical` and `ExtendFork` are the two ends of the handler. A header that
exists is written again, as in the code. Merkle proofs are membership in `TxsOf`;
the anchor's zero merkle root admits nothing. `header_count` and `last_update` are
left out, since nothing reads them.

### Finality

The light client as its readers see it: an index from heights to blocks, a finalized
height, attestations. `Advance` may move the tip back and replace the index above the
finalized height, never at or below it; `Restart` promises nothing about the new
instance and leaves the attestations of the old one where they are. `LightClient`
implements it under the mapping of its `ImplementsFinality` (the account's fields, `-1`
for a client that does not exist); `Deposit` uses it.

### Bridge

`utxos`, `requests`, `receipts` and `completed` are the accounts, `pool`, `config`
and `tokens` the counters, `approvals` what Ika has been asked to sign and
`confirmed` what Bitcoin has accepted. A Bitcoin transaction is a record of its
contents, so that a change output (`ChangeOutput`) has an outpoint that depends on
everything in the transaction, as a txid does. `ConfirmPayout`, `NextSlot` and the
signature itself are external: Ika signs exactly what was approved, Bitcoin accepts
a transaction whose inputs are all signed and unspent. Notes are totals per owner
(`ShieldedPool` has them one by one) and an SPV proof is "the transaction is
confirmed" (`LightClient` has the rest). A payout of several inputs is approved by
several `ApproveSigning` steps, as in the code.

### Deposit

`Bridge` asks of a deposit only that it is confirmed; `Deposit` has what
`complete_deposit` reads to believe that. The variables of the light client are those
of `Finality`. `ProofAccepted` is the reader of attestations (`verified_tx_reader.rs`)
with the checks both handlers make after it. A transaction is its inputs and outputs,
and a script is a record of what it hashes, so that different records are different
addresses. The three modes are `DirectOk` (the deposit pays the pool and names its note
in an OP_RETURN), `SweepOk` (another transaction spends the one output that is tweaked
by the note) and `TweakOk` (the output's own leaf names the note). `receipts` and
`records` are the accounts that exclude a second credit; `complete_redemption` is
present as what it does to records. `credits` and `instances` are history. Fees,
pauses, caps and limits are `Bridge`'s, and are here the set `Creditable`.

### ShieldedPool

A commitment is its preimage, a root the sequence of leaves under it; a root
history slot stores the number of leaves, which names the same root within a tree.
A nullifier is the spender's key and the leaf's position, as in the circuit, and the record
is scoped by tree. The Groth16 proof is `ProofHolds`: inputs are leaves under the
named root owned by one key, and values balance. The sender of a note chooses its key,
the blinding factor in it included (`Blind`), so equal commitments may occur: placed at
once they are leaves of their own, and a queued output whose account exists is written
over it (`Rewrites`, `Overwrite`), since `create_pda_account` accepts an account of the
program's own. `overwritten` is the history of the value and the nullifier debt that go
with the account's earlier contents.

### Policy

`approvals` are the `PolicyApproval` accounts of both programs by their seeds,
`pool` the auditor, the frozen flag and the pause switch, `registry` the
`ExitDestination` accounts, `notes`, `spent` and `paid` what entered, was spent and
left. A request hash is the request: who does what, for a spend with which note,
for an exit to which destination; as in the code, an internal transfer does not
name its recipient. Whoever creates an approval also claims an action and an actor,
which the hash hides, so `Applications` may contain false claims. A delegated
approval is on the `rollup` layer, where nothing consumes it and another clock
decides about its expiry. `AssetAccepts` and `PolicyAccepts` are the two copies of
the spend rule, and an entry, transfer or verified exit passes both. Notes have no
amounts and change here.

### PoolAdmin

`pool`, `config`, `binding`, `token` and `registry` are the accounts, `upgrade` the
loader's upgrade authority, `now` the clock. `Send` is a depositor who broadcasts an
amount that the terms in force and the announced ones admit, and remembers them in
`sent`; `shielded` is what went through a token's ledger, fees left out, and `closed`
what a development build has closed. Each pool's own token is its only one.
`initialize_permissioned` creates the same state as `initialize` with an auditor, which
is `Policy`'s. `Next` is grouped by areas (`TermsStep`, `CustodyStep`, `TokenStep`,
`KeyStep`) that share nothing but who may administer a pool.

## 3. Runs

Passing runs:

| run | question | bounds and why they are enough |
|---|---|---|
| `light_client_forks` | Does what is final stay final, as `Finality` promises, do difficulty and median time follow the branch, and is the arithmetic exact? | Fifteen headers, epochs of two blocks on mainnet and testnet4, an anchor in the middle of an epoch, an early and a late branch that retarget differently, headers that break one rule each, one reinitialization, three confirmations: heavier but shorter branches replace longer ones and the tip moves back. Targets have seven digits of base four: sign-bit shifts, the maximum target and both clamps are reached; `CompactExact` and `RetargetBounded` quantify over all of them. |
| `light_client_equal` | Is the index the tip's ancestry and does the client adopt the heaviest branch? | Eight headers of one work, three confirmations, batches of up to three: a fork of two is abandoned for a branch of four. |
| `bridge_joint` | Do ledger, counters and reservations agree, and does what Bitcoin confirmed settle? | Two coins that the larger payouts need together, a third below its fee; payouts of two coins to two recipients, of one coin, and one to the pool's own script with change; pauses, fee claims, slots modulo two. Each of the three exceptions that `ConfirmedSettles` names occurs: without it the invariant is violated in this run. |
| `bridge_users` | Does the coin of a signed payout stay reserved, can what is reserved be signed for, does every redemption end? | Two users with the same nonce, one input per payout, a third coin worth the payout and nothing for its miner fee, slots modulo three so that the counter wraps, the token switched off and on. |
| `shielded_pool` | Is no note lost, doubled or unspendable? | Trees of three leaves, one rotation, a history of two roots, so that the ring wraps around, the older of two roots is the one to go, and spends use current, historical and frozen roots; two blinding factors, which are symmetric, so that a sender repeats a commitment or does not, and queued outputs write over each other; a transfer fee makes the received amount differ. |
| `policy` | Does value enter, move and leave only as approved or registered, and can its holders always leave? | Two participants, one without a registered wallet; two auditors, so that approvals go stale by rotation; one slot of expiry on each clock; two approvals, which is a deposit and a spend; one application in the wrong program and one with a false claim. |
| `deposit` | Is a deposit credited from a final block, once, within what was paid, and in the end? | Three heights with a fork, two confirmations, one reinitialization on another network, three pools of which two have one key, seven transactions: a deposit in each mode, a direct deposit that also sweeps a deposit to the other pool of its key, a sweep that itself looks like a direct deposit, a sweep with a second input and a payment to the third pool, the change of a depositor's wallet paid to the pool, and a payout with change. An output is credited at both pools of its key. Blocks run out, so deadlock is not checked. |
| `pool_admin` | Do deposits under way keep their terms, does a dWallet stay with one pool, do ledger and frozen keys survive administration? | A delay of two and five units of time, so that a proposal is replaced, cancelled and executed within the life of a deposit; two deposits under way; two accounts, dWallets, keys, variants and verification keys; terms that admit less, cost more and are out of order. A behaviour stays in one area: areas write disjoint variables and read of each other only who administers a pool and who may upgrade, so together they are every interleaving an area can observe. Only custody has two pools, since pools meet only over dWallets. A final program with all pools created has no step left in the area of keys, so deadlock is not checked. |

Runs that show the code to differ from what its own comments say (each quoted in
`PROJECT.json` under `findings`):

| run | what TLC shows |
|---|---|
| `light_client_reorg` | On testnet4 a branch that is heavier but shorter rewrites the index up to its tip and leaves the entries above it. A later batch that extends such an entry passes the canonical-parent check; the index is then no chain. |
| `bridge_partial` | A request with some inputs approved is cancelled after the timeout; the approvals stay. A second request for the same payout reserves the same coins and approves the other input: the transaction is now fully signed while each request alone looks unsigned and can be cancelled. |
| `bridge_modes` | A transaction that pays the pool with an OP_RETURN of its own and spends another deposit can be presented as a direct deposit, whose receipt is keyed by its own txid, and as the sweep of the other deposit, whose receipt is keyed by that deposit's txid. Both credit the same pool output. The record that excludes the second credit is closed when the coin is paid out. |
| `queue_rotation` | A spend may be queued for a tree without room. Only leaves of the active tree merge, so its output can never be placed. |

`IndexIsAncestry` has a passing and a violating run: it holds with blocks of one work
and fails outside. What `cancel_redemption` keeps of `SignedCoinsStayReserved`, which
`bridge_partial` violates, is `SingleInputStaysReserved`, checked in `bridge_users`.

Smaller disagreements seen while reading, without a run of their own:

- `complete_redemption` goes through `check_redemption_signing` and is refused
  while the pool is paused (`complete_redemption.rs:575`), although the comment at
  line 246 says it is "Deliberately NOT pause-gated" and why it must not be.
  `ConfirmedSettles` is checked with pauses and excepts them by name.
- A redemption whose recipient is the pool's own script can be signed, and never
  settled if it has change (`complete_redemption.rs:543`). `ConfirmedSettles` is
  checked with such a recipient and excepts exactly the payouts with change.
- A transaction of several inputs can be fully signed by approvals of two requests (see
  `bridge_partial`); confirmed, it settles only the one it was signed for, and a live
  request for another payout that reserves the same coins stays unsettled. This is the
  third exception of `ConfirmedSettles`.
- `cancel_redemption` mints the note again without looking at the deposit cap.
- `mark_processing` refuses coins that cover the payout with a smaller fee, which
  `approve_redemption_signing` would accept (`mark_processing.rs:196`).
- `HeightIndex` has no reinitialization epoch, so an entry of the previous instance
  can be attested under the new one; and an attestation of an old epoch is never
  refreshed (`verify_transaction.rs:210`).
- `create_pda_account` succeeds for an account the program already owns at full
  size, so a commitment that is queued twice overwrites its `QueuedLeaf`
  (`transact.rs:325`), with the value of the first output and the nullifier debt it
  carried. `queued_leaf.rs` says otherwise three times: "Queued, the second is refused at
  account creation" (line 37), "the spend fails cleanly and retries — nothing is lost"
  (line 51) and of the nullifier count "The counter stays exact; only its timing moves"
  (line 24). `commitments_out` is the sender's data, so whoever spends can make it happen.
  The model does what the code does: `NotesBacked` and `NullifiersAccounted` hold with
  what was overwritten as a term of their own (`overwritten`), so they say exactly what is
  lost, and fail in `shielded_pool` without that term.
- Approvals created with `initialize_policy_approval` of `utxopia` belong to that
  program, and `consume_policy_approval` accepts only those of `utxopia-policy`
  (`policy_approval.rs:298`): they can be decided and never used.
- An approval can be decided on Solana itself, although `magicblock.rs:76` says it
  "is only ever evaluated inside a Private Ephemeral Rollup".
- `magicblock_commit` derives nullifier accounts without the tree index, which
  `create_nullifier_records` puts into the seeds.
- The header of `admin_update_pool.rs` says anyone executes an update; the handler
  asks for the authority.
- A dWallet is bound to one pool by its address (`set_pool_config.rs:118`), and the
  x-only key is the caller's word. Two pools with two dWallets can name one key and so
  share one Taproot script, although the comment at lines 25-28 says the binding
  prevents that; an output to this script can then be credited in both. `CreditedOnce`
  names this exception, and the pools of the run `deposit` meet it.
- The VK registry remembers the upgrade authority that created it
  (`init_vk_registry.rs:15`). After a transfer of the upgrade authority neither the old
  nor the new holder can update or freeze it.
- `update_token_config` changes the token's limits and cap at once and without
  comparing them, while the pool's limits go through the timelock
  (`admin_update_pool.rs:173`). `SentHonoured` is about the pool's.
- The comment of `verify_transaction` puts the finalized height at the tip minus the
  required confirmations; the code keeps one block less, which is the usual count.

### Fairness

`LightClient!FairSpec`: the client is initialized, time passes, and as long as some
batch would move the tip one is submitted. Submission is permissionless and
relayers follow the heaviest chain, so one honest relayer is enough.
`Bridge!FairSpec`: slots pass, Bitcoin confirms what is fully signed, a confirmed
payout is settled and the requester, who may drive every leg, cancels. Cancellation is strongly
fair, because with slots modulo 2^32 the window in which the program accepts it
closes and opens again; a requester who keeps trying meets it. Nothing is assumed
of the operator: neither reservation nor approval is fair. There is no pause in
the run of `EveryRequestResolves`, as a pool that stays paused resolves nothing.
`Policy!FairSpec`: a pause is lifted in the end, and holders who want to leave
retry; their exit is strongly fair because pauses come and go. Nothing is assumed
of the auditor, who may never decide anything.
`Deposit!FairSpec`: attesting is permissionless and the pools' authorities complete what
they can: as long as there is something to attest or to credit, one or the other goes on.
Nothing is assumed of the
light client, which may stop or be reinitialized. `DepositsComplete` says that again and
again all deposits that can be credited are, at one time. It leaves out
transactions attested in the same block under an earlier instance, which the code never
accepts (see above).

## 4. Proofs

`SumTheorems` is the library of the others: what `SumFunctionOnSet` of the community
modules is for the empty set, for a set with one more or one fewer element, for a union,
for a function that changes at one point or is reindexed. The provers cannot instantiate an
induction theorem, whose parameter is an operator. Where induction is needed, the set of
counterexamples is shown to be empty instead, since it would have a smallest element
(`LeastNat`, `UpTo`, from `WFMin` of the library); sums over finite sets are handled in
the same way, by cardinality.

`LightClientProofs`, for every universe of headers and every value of the
parameters, from `LightClientAssumption`, `NoClientAssumption` and `NoHeaderAssumption`
(the values for "no account" are no account):

- `TypeCorrect`: `TypeOK` is inductive by itself. The work is in `ExtendTypes`: the
  headers and index a batch writes have their types.
- `FinalIsFrozen`: no step within a chain instance lowers the finalized height or
  changes the index at or below it. The fork point of a promoted batch is at or
  above the finalized height, and only heights above the fork point are written.
- `AttestationsAnchored`, `AttestationsUnique`: uniqueness is not inductive, since
  it says nothing of the index. `AttestInv` adds that every attestation of the live
  epoch is named by the index at or below the finalized height; freezing keeps that
  true, and a function of the height cannot name two blocks.

- `ClientImplementsFinality`: `LightClient` implements `Finality`, by step simulation.
  `RefinementInv` adds to the types that a stored header commits to its own block's
  transactions, or as an anchor to none, and that the finalized height is never above
  the tip, although the tip may move back; every instruction then is a step of the abstract client or
  leaves its variables alone. The promise that `Advance` keeps what is final is
  `FinalIsFrozen` again.
- `AncestryUnlessStale`: the run `light_client_reorg` shows that the height index can
  cease to be a chain. The theorem shows that its way is the only one: unless a batch is
  promoted over a parent above the tip (`StalePromotion`), the index from anchor to tip
  always is the tip's ancestry. The invariant `ChainInv` has it together with the shape of
  the live instance: a live header stands at the height its depth below the anchor gives,
  with its own parent and time, and the index names live headers. Two facts
  about the world are needed: `HashChain`, a hash commits to its parent, so that links
  have no cycle; and `RegtestOnce`, since a regtest client takes headers of epoch zero as
  live for ever and can be led astray if it is reinitialized.
- `AncestryOfEqualWork`: among blocks of one work (`WorkEach`), as within a difficulty
  period, no promotion is stale, so `IndexIsAncestry` holds without a condition.
  `WorkInv` adds that a header's work counts the blocks above the anchor and that none
  has more than the tip; an index entry above the tip would.

`ConsensusProofs`, for every universe of headers, any window width and epoch length.
Bitcoin's rules are about the chain; `extend_blockchain` checks them on values it
carries from account to account and from header to header. The first two proofs show that what is
carried equals the chain's own value in closed form, and so need `ChainInv` and its
condition that no promotion is stale:

- `MedianNeverFalls` (`MedianMonotone`). The accounts a batch passes for the window are,
  by the code's checks, the last canonical timestamps, and sliding the window through the
  batch keeps that; a window slides to one whose median is not lower if the new timestamp
  is above the median (`MedianClimbs`). Needs `AnchorsRooted`: an anchor has
  no stored parent, as `initialize` makes it; `reinitialize` takes one from its caller.
- `DifficultyFollowsChain` (`CanonicalDifficulty`). `EraInv`: the epoch bits and start in
  every canonical header are those of the last boundary below it, or the anchor's.
  A batch may start in one epoch and end in a later one, and a header that exists is
  written again, so the proof is about every header the loop writes (`RunInEra`). Needs
  `AnchorsSeeded`, which `initialize` checks and `reinitialize` does not, and
  `PowMeansTarget`: no block meets the target zero, since zero bits turn the check off.
- `CompactIsExact` (`CompactExact`) and `RetargetsBounded` (`RetargetBounded`), for every
  size of a byte and of a target, so for 256 and 32 as in the code. Encoding a target and decoding it
  again rounds it down to a multiple of a power of the byte (`Truncated`) that is at most
  `Ulp`, and keeps its size and its sign-bit shift (`TruncRange`, `BitsCanonical`). The
  provers have no law for powers, so `PowerAssumption` states the one that is used,
  `Byte^(n+1) = Byte * Byte^n`. `RetargetAssumption` is about the code's constants: a
  quarter of the timespan is exact, and the easiest target times the longest timespan is
  below 2^256. TLC evaluates both on the instance.

`BridgeProofs`, for any finite sets of users, nonces and payouts and any coins, amounts,
fees and configurations, from `BridgeAssumption`:

- `CoinsReservedExactly`: a coin is reserved exactly when one live request lists it.
- `SignedCanBeBroadcast`: a request that can no longer be cancelled because it is
  signed has a single transaction with all its inputs approved.
- `CoveredIsSignable`: coins that `mark_processing` accepts can be approved at a
  fee within dust of the largest admissible one, if the service fee and the fee limit reach the dust threshold. This is the
  weakest condition we know of; the code does not enforce it on `service_fee_base`.

The inductive invariant is `CustodyInv`: accounts have their shapes; a pending
request reserves nothing; change outputs on record belong to completed payouts
(without it a change output could overwrite a reserved coin); `ReservationExact`;
and the approvals of a request are for the one transaction at its pinned fee.

On top of `CustodyInv`:

- `AccountsWellTyped` (`TypeOK`), with `AccountsInv`: the coins on record are finitely
  many, a request's amounts fit the coins it reserves, and what was approved or confirmed
  is a payout of the amounts some request had. The guards of the checked subtractions do
  the rest.
- `CustodyConserved` (`FullyBacked`) and `CountersNeverDrift` (`CountersExact`). The two
  are inductive together (`LedgerInv`): each step changes the sum over the accounts and
  the counter by the same amount. The payout is the step that matters, where coins of
  one total go, a change output comes, and the miner's fee and the
  service fee are what is left.
- `ReservationsSignable`, if the base fee and the miner fee limit reach the dust
  threshold, by `CoveredIsSignable`.
- `SinglePayoutOrRefund` (`SingleInputStaysReserved`), for reservations of any size:
  `SignedTracked` relates every approved input to the live request that reserves it. For
  transactions of several inputs the run `bridge_partial` shows the opposite.
- `ConfirmedPayoutsSettle` (`ConfirmedSettles`), without a condition on pauses, on
  recipients or on the number of inputs: the refusals are in the property.
  `RequestsAllowed` keeps that the amounts and the pinned fee of a request with an approval
  are still ones that signing allows, so that `check_redemption_signing` stops its settlement
  only by the pause; a confirmed transaction of one input is the live request's own
  (`SingleIsOwn`).

`ShieldedPoolProofs`, for any tree capacity, any length of the root history, any number of
trees, keys and amounts, from `PoolAssumption`:

- `PoolWellTyped` (`TypeOK`), `ValueConserved` (`NotesBacked`: the ledger is the sum of
  unspent and queued notes), `NullifiersCounted` (`NullifiersAccounted`) and
  `NotesNeverStranded` (`NotesSpendable`). The invariant is `NotesInv` in `PoolInv`. A root that the
  pool still accepts names a prefix of its tree (`RootsArePrefixes`), so a spend's inputs are leaves
  whatever happened since it was proved; a tree is frozen when it is full (`FrozenFull`).
  Nothing is assumed of the commitments, which may be equal in a tree, in the queue or
  across them; an output that is written over moves its value and its debt from the queue's
  sums to `overwritten`. `NotesSpendable` has one exception, which the proof brought to
  light: while the active tree is an exact copy of a frozen one (`Copied`), the frozen
  tree's root is found in the active tree first.
- `OldRootsKept` (`RootsKept`), an action property. `RingInv`: slots are written in turn,
  each with a larger root than the one before, and once all are written the oldest is
  the one that the next write replaces.

`PolicyProofs`, for any participants, destinations, applications and clocks, from
`PolicyAssumption`:

- `PolicyTypes`: `TypeOK` is inductive by itself.
- `EveryExitVetted`: every payout went to a registered destination or to the one
  the consumed approval names.
- `NobodyTrapped`: whoever shielded tokens has an exit to their own wallet.
- `EveryApprovalUsedOnce` (`ApprovalsUsedOnce`): `UseInv` adds that approvals and
  payouts are finitely many; a step that consumes an approval changes one other
  cardinality by one as well.
- `ProgramsAgree` (`RulesAgree`): what the asset program accepts the policy program
  accepts, so the CPI cannot fail for a reason the first did not see.

The inductive invariant `PolicyInv` is the conjunction of the first three. The argument is
monotony: registry entries are never removed and a consumed approval never changes
again (`ConsumedStays`), so what was vetted stays vetted; a step either consumes
nothing (`NoneConsumed`) or exactly the approval whose request it carries out.

`DepositProofs`, for any transactions, blocks, pools and any client that keeps
`Finality`, from `DepositAssumption`:

- `TypeCorrect` and `CreditsAreFinal`. `FinalInv` adds to the two that the network of
  each instance is known, that attestations of the live instance are final and
  canonical, and that no credit rests on a future instance. A credit needs an
  attestation of the live instance and the expected network at that moment, and what is
  final then stays final for as long as the instance lives.
- `OutputsCreditedOnce` (`CreditedOnce`), for pools with any keys. `OnceInv` adds
  `CreditsRecorded`: a credited output has its receipt, is in the custody of the pool that
  credited it, and has its record there unless a settled payout has spent it.
- `CreditsWithinDeposits`, from `ValueConserved`, which is Bitcoin's own rule for
  transactions of one input. The direct and tweak modes credit an output of the deposit
  itself; a sweep has one input, and that is the output bound to the note.

`PoolAdminProofs`, for any pools, accounts, terms and delay, from
`PoolAdminAssumption`:

- `TypeCorrect`, with the order of every pool's limits.
- `DepositsHonoured`. The invariant is `Relied` (in `TermsInv`): for every deposit still
  within the delay the terms in force serve it, and what is pending either serves it as
  well or cannot be executed before the delay is over.
- `DwalletsHeldOnce`: a configured dWallet is bound to its pool, and a binding is only
  given up by a development close.
- `LedgersKept`, and `FrozenKeysStay` as an action property.

Only model-checked: liveness (`AdoptsHeaviest`, `EveryRequestResolves`,
`HoldersCanLeave`, `DepositsComplete`), which is beyond the prover. Every invariant and
every safety property of the passing runs is proved, some of them under the conditions
named above.

## 5. Not modelled

- Byte layouts, account ownership and PDA checks: an account is there or it is not.
- Cryptography: signatures, sighashes, Poseidon, Groth16, the curve arithmetic of
  Taproot tweaks. A hash is its preimage and a proof is the statement it proves.
- The bytes and varints of Bitcoin transactions and the upload of transactions in
  pieces (`utils/chadbuffer.rs`); what the programs look for in a transaction is in
  `Deposit`.
- Calls into the token program, rent, events and logging: a transfer either happens
  with the instruction or the instruction fails.
- MagicBlock beyond approvals: `magicblock_commit` writes state that a validator of the
  rollup reports, and how a rollup arrives at it is not in this repository.
- The Equihash benchmark, which no other part calls; scripts and tests.

## 6. What could follow

1. `Ledger`: an abstract specification of a pool (credit, transfer, debit of exact
   amounts) that `Bridge` and `ShieldedPool` are shown to implement, by TLC on small
   instances and step by step in a proof.
2. `magicblock_commit`, with a rollup that reports an arbitrary successor of the state
   it was given.
3. Ancestry with blocks of different work, if the program comes to clear the index
   entries above a shorter tip: `AncestryUnlessStale` then loses its condition.
