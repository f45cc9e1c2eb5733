----------------------------- MODULE LightClient -----------------------------
(***************************************************************************)
(* The Bitcoin SPV light client (programs/btc-light-client): the client    *)
(* account, one BlockHeader account per stored block, one HeightIndex      *)
(* account per height (the canonicality oracle) and one                    *)
(* VerifiedTransaction account per attested (block, transaction).          *)
(*                                                                         *)
(* The universe of mineable headers is given by constants: a block is its  *)
(* hash, and a hash fixes the header's fields.  Anyone may submit any      *)
(* batch at any time, in any order and again; only the anchor of an        *)
(* initialization is the authority's choice.  Every action is one Solana   *)
(* transaction: a handler that fails changes nothing.  header_count and    *)
(* last_update are statistics no handler reads and are left out.           *)
(***************************************************************************)
EXTENDS Difficulty

CONSTANTS
  Block,        \* hashes of headers that could be submitted
  NoBlock,      \* the all-zero hash
  Prev,         \* [Block -> Block \cup {NoBlock}], prev_block_hash of a header
  Time,         \* [Block -> Nat], timestamp of a header
  Bits,         \* [Block -> Nat], claimed compact target of a header
  Pow,          \* the blocks whose hash meets the target they claim
  Tx,           \* transaction ids
  TxsOf,        \* [Block -> SUBSET Tx], the transactions a merkle root commits to
  Anchors,      \* what the authority may (re)initialize the client with
  NoHeader, NoClient,
  ReqConf,      \* REQUIRED_CONFIRMATIONS (6)
  MaxBatch,     \* MAX_BATCH_SIZE (10)
  MtpWidth,     \* timestamps in the median-time-past window (11)
  MaxDrift,     \* MAX_FUTURE_DRIFT_SECS (2 h)
  MainnetBuild, \* the program is built with the feature "mainnet"
  \* Bounds of a run, not of the program:
  MaxHeight,    \* highest block height represented
  MaxWork,      \* largest accumulated chainwork represented (below 2^256)
  MaxEpoch,     \* reinitializations represented (below the u32 wrap)
  MaxTime       \* last value of the Solana clock

Network == {"mainnet", "testnet4", "regtest"}
Height  == 0..MaxHeight

Anchor == [hash : Block, height : Height, network : Network, prev : Block \cup {NoBlock},
           time : Nat, epochBits : Nat, epochStart : Nat]

ASSUME LightClientAssumption ==
  /\ NoBlock \notin Block
  /\ Prev \in [Block -> Block \cup {NoBlock}]
  /\ Time \in [Block -> Nat]
  /\ Bits \in [Block -> Nat]
  /\ Pow \subseteq Block
  /\ TxsOf \in [Block -> SUBSET Tx]
  /\ Anchors \subseteq Anchor
  /\ ReqConf \in Nat \ {0}
  /\ MaxBatch \in Nat \ {0}
  /\ MtpWidth \in Nat \ {0}
  /\ {MaxDrift, MaxHeight, MaxWork, MaxEpoch, MaxTime} \subseteq Nat
  /\ MainnetBuild \in BOOLEAN

VARIABLES
  lc,          \* the BitcoinLightClient account
  headers,     \* BlockHeader accounts by hash
  heightIndex, \* HeightIndex accounts by height
  verified,    \* VerifiedTransaction accounts
  now          \* Clock::unix_timestamp

vars == <<lc, headers, heightIndex, verified, now>>

Client ==
  [network : Network, genesis : Block, tip : Block, work : 0..MaxWork, height : Height,
   finalized : Height, epochBits : Nat, epochStart : Nat, epoch : 0..MaxEpoch]

Header ==
  [prev : Block \cup {NoBlock}, time : Nat, work : 0..MaxWork, height : Height,
   epochBits : Nat, epochStart : Nat, epoch : 0..MaxEpoch, root : Block \cup {NoBlock}]

\* An account that does not exist differs from every account that does.
ASSUME NoClientAssumption == NoClient \notin Client
ASSUME NoHeaderAssumption == NoHeader \notin Header

Verified == [block : Block, tx : Tx, height : Height, epoch : 0..MaxEpoch]

\* The accounts of the light client have their types: heights, work and epochs stay in range
\* and the index names blocks (state/light_client.rs, block_header.rs).
TypeOK ==
  /\ lc \in Client \cup {NoClient}
  /\ headers \in [Block -> Header \cup {NoHeader}]
  /\ heightIndex \in [Height -> Block \cup {NoBlock}]
  /\ verified \subseteq Verified
  /\ now \in 0..MaxTime

-----------------------------------------------------------------------------
(* Initialization *)

NetworkAllowedInBuild(network) == network = "regtest" => ~MainnetBuild

\* Mainnet and testnet4 enforce difficulty and median time past.
Enforced(network) == network \in {"mainnet", "testnet4"}

Stored(b) == b \in Block /\ headers[b] # NoHeader

\* Fault: the tip does not count as a confirmation and the subtraction does not saturate.
FinalizedAtUnsaturated(tipHeight) == tipHeight - ReqConf

\* The deepest height with at least ReqConf confirmations, saturating at zero.
FinalizedAt(tipHeight) == Larger(0, tipHeight - (ReqConf - 1))

\* The client, anchor header and anchor index that both handlers write.
FreshClient(a, epoch) ==
  [network |-> a.network, genesis |-> a.hash, tip |-> a.hash, work |-> 0,
   height |-> a.height, finalized |-> FinalizedAt(a.height),
   epochBits |-> a.epochBits, epochStart |-> a.epochStart, epoch |-> epoch]

\* The anchor's merkle root stays zero: nothing can be verified in it.
AnchorHeader(a, prev, epoch) ==
  [prev |-> prev, time |-> a.time, work |-> 0, height |-> a.height,
   epochBits |-> a.epochBits, epochStart |-> a.epochStart, epoch |-> epoch,
   root |-> NoBlock]

Initialize(a) ==
  /\ lc = NoClient
  /\ NetworkAllowedInBuild(a.network)
  /\ Enforced(a.network) => a.epochBits # 0 /\ a.epochStart # 0
  /\ lc' = FreshClient(a, 0)
  /\ headers' = [headers EXCEPT ![a.hash] = AnchorHeader(a, NoBlock, 0)]
  /\ heightIndex' = [heightIndex EXCEPT ![a.height] = a.hash]
  /\ UNCHANGED <<verified, now>>

\* Only the authority, and never in a mainnet build.  The other HeightIndex and
\* BlockHeader accounts of the previous instance stay as they are.
Reinitialize(a) ==
  /\ ~MainnetBuild
  /\ lc # NoClient
  /\ NetworkAllowedInBuild(a.network)
  /\ lc.epoch < MaxEpoch
  /\ lc' = FreshClient(a, lc.epoch + 1)
  /\ headers' = [headers EXCEPT ![a.hash] = AnchorHeader(a, a.prev, lc.epoch + 1)]
  /\ heightIndex' = [heightIndex EXCEPT ![a.height] = a.hash]
  /\ UNCHANGED <<verified, now>>

-----------------------------------------------------------------------------
(* extend_blockchain *)

\* Fault: one header fewer than MAX_BATCH_SIZE.
BatchesOneShort ==
  {s \in UNION {[1..n -> Block] : n \in 1..(MaxBatch - 1)} :
     \A i \in DOMAIN s : i > 1 => Prev[s[i]] = s[i - 1]}

\* The header batches a submitter can form: 1..MaxBatch headers, each linked to
\* the one before.
Batches ==
  {s \in UNION {[1..n -> Block] : n \in 1..MaxBatch} :
     \A i \in DOMAIN s : i > 1 => Prev[s[i]] = s[i - 1]}

\* The parent must belong to the live chain instance (regtest keeps accepting
\* headers of epoch zero) and be the canonical block at its height.
LiveParent(p) ==
  \/ headers[p].epoch = lc.epoch
  \/ lc.network = "regtest" /\ headers[p].epoch = 0

\* Fault: the parent's HeightIndex account is optional.
AnyParent(p) == TRUE

CanonicalParent(p) == heightIndex[headers[p].height] = p

\* The k-th ancestor of p along stored headers.
AncestorsOf(p) ==
  LET up[k \in 0..(MtpWidth - 1)] ==
        IF k = 0 THEN p
        ELSE IF Stored(up[k - 1]) THEN headers[up[k - 1]].prev ELSE NoBlock
  IN  up

\* The median-time-past windows a submitter can supply for parent p, oldest
\* first: a full window, or a shorter one that ends at the anchor.
MtpWindows(p) ==
  LET up == AncestorsOf(p)
      depths == {k \in 0..(MtpWidth - 1) :
                   /\ \A j \in 0..k : Stored(up[j])
                   /\ k = MtpWidth - 1 \/ up[k] = lc.genesis}
  IN  IF Enforced(lc.network)
        THEN {[i \in 1..(k + 1) |-> headers[up[k + 1 - i]].time] : k \in depths}
        ELSE {<<>>}

\* Fault: the difficulty parameters are taken from the client, not from the parent.
StartRunFromClient(p, window) ==
  [work |-> headers[p].work, time |-> headers[p].time, window |-> window,
   epochBits |-> lc.epochBits, epochStart |-> lc.epochStart]

\* The loop's locals: before the first header, and after one more.
StartRun(p, window) ==
  LET h == headers[p]
  IN  [work |-> h.work, time |-> h.time, window |-> window,
       epochBits  |-> IF h.epochBits # 0 THEN h.epochBits ELSE lc.epochBits,
       epochStart |-> IF h.epochStart # 0 THEN h.epochStart ELSE lc.epochStart]

Advance(r, b, height) ==
  LET boundary == Enforced(lc.network) /\ height % BlocksPerEpoch = 0
  IN  [work |-> r.work + CalculateChainwork(Bits[b]),
       time |-> Time[b],
       window |-> IF Enforced(lc.network) THEN Slide(r.window, Time[b], MtpWidth) ELSE <<>>,
       epochBits  |-> IF boundary THEN Bits[b] ELSE r.epochBits,
       epochStart |-> IF boundary THEN Time[b] ELSE r.epochStart]

\* run[i] holds the locals after i headers of the batch.
RunOf(p, batch, window) ==
  LET run[i \in 0..Len(batch)] ==
        IF i = 0 THEN StartRun(p, window)
        ELSE Advance(run[i - 1], batch[i], headers[p].height + i)
  IN  run

\* Fault: no median time past.
DriftOnly(r, b) == Time[b] <= now + MaxDrift

\* The checks on one header, against the locals before it: not too far in the
\* future, past the median of the window, the work it claims, the bits required.
TimeOk(r, b) ==
  /\ Time[b] <= now + MaxDrift
  /\ Enforced(lc.network) => Time[b] > MedianTimestamp(r.window)

BitsOk(r, b, height) ==
  Enforced(lc.network) =>
    /\ r.epochBits # 0
    /\ Bits[b] = RequiredBitsForNextBlock(lc.network = "testnet4", height,
                   Time[b], r.time, r.epochBits, r.epochStart)

HeaderOk(r, b, height) == TimeOk(r, b) /\ b \in Pow /\ BitsOk(r, b, height)

\* The locals the handler writes have their widths (the bound MaxWork).
RunInRange(run, batch) ==
  \A i \in 1..Len(batch) :
    /\ run[i].work \in 0..MaxWork
    /\ run[i].epochBits \in Nat
    /\ run[i].epochStart \in Nat

BatchOk(p, batch, run) ==
  /\ Prev[batch[1]] = p
  /\ headers[p].height + Len(batch) <= MaxHeight
  /\ RunInRange(run, batch)
  /\ \A i \in 1..Len(batch) : HeaderOk(run[i - 1], batch[i], headers[p].height + i)

\* Every header of the batch is written, over an account that exists too, and
\* stamped with the live epoch.
HeadersAfter(p, batch, run) ==
  LET written == {batch[i] : i \in 1..Len(batch)}
      at(b) == CHOOSE i \in 1..Len(batch) : batch[i] = b
  IN  [b \in Block |->
         IF b \in written
           THEN [prev |-> Prev[b], time |-> Time[b], work |-> run[at(b)].work,
                 height |-> headers[p].height + at(b),
                 epochBits |-> run[at(b)].epochBits, epochStart |-> run[at(b)].epochStart,
                 epoch |-> lc.epoch, root |-> b]
           ELSE headers[b]]

\* The index entries of the batch's heights, and no others.
IndexAfter(p, batch) ==
  [h \in Height |->
     IF h \in (headers[p].height + 1)..(headers[p].height + Len(batch))
       THEN batch[h - headers[p].height]
       ELSE heightIndex[h]]

\* Fault: no finality gate.
AnyForkPoint(p) == TRUE

\* The finality gate: a reorganization may not fork off below the finalized height.
ForkPointOk(p) == headers[p].height >= lc.finalized

\* Fault: the finalized height follows the tip back.
FinalizedFollowsTip(tipHeight) == FinalizedAt(tipHeight)

\* The finalized height never moves back, whatever the new tip's height is.
FinalizedAfter(tipHeight) == Larger(lc.finalized, FinalizedAt(tipHeight))

\* The batch has strictly more work than the tip: it becomes canonical, unless it
\* forks off below the finalized height (the whole transaction then fails).
ExtendCanonical(p, batch, window) ==
  LET run == RunOf(p, batch, window)
      last == run[Len(batch)]
      tipHeight == headers[p].height + Len(batch)
  IN  /\ BatchOk(p, batch, run)
      /\ last.work > lc.work
      /\ ForkPointOk(p)
      /\ headers' = HeadersAfter(p, batch, run)
      /\ heightIndex' = IndexAfter(p, batch)
      /\ lc' = [lc EXCEPT
                  !.tip = batch[Len(batch)],
                  !.height = tipHeight,
                  !.work = last.work,
                  !.finalized = FinalizedAfter(tipHeight),
                  !.epochBits = IF Enforced(lc.network) THEN last.epochBits ELSE @,
                  !.epochStart = IF Enforced(lc.network) THEN last.epochStart ELSE @]
      /\ UNCHANGED <<verified, now>>

\* The batch does not beat the tip: its headers are stored, nothing else changes.
ExtendFork(p, batch, window) ==
  LET run == RunOf(p, batch, window)
  IN  /\ BatchOk(p, batch, run)
      /\ run[Len(batch)].work <= lc.work
      /\ headers' = HeadersAfter(p, batch, run)
      /\ UNCHANGED <<lc, heightIndex, verified, now>>

ExtendBlockchain ==
  /\ lc # NoClient
  /\ \E batch \in Batches :
       LET p == Prev[batch[1]]
       IN  /\ Stored(p) /\ LiveParent(p) /\ CanonicalParent(p)
           /\ \E window \in MtpWindows(p) :
                \/ ExtendCanonical(p, batch, window)
                \/ ExtendFork(p, batch, window)

-----------------------------------------------------------------------------
(* verify_transaction and prune_obsolete_blocks *)

\* Attest tx in block b: b is stored, canonical at its height and finalized, and
\* its merkle root commits to tx.  An attestation that exists is left as it is.
VerifyTransaction(b, tx) ==
  /\ lc # NoClient
  /\ Stored(b)
  /\ heightIndex[headers[b].height] = b
  /\ headers[b].height <= lc.finalized
  /\ headers[b].root # NoBlock
  /\ tx \in TxsOf[headers[b].root]
  /\ verified' =
       IF \E v \in verified : v.block = b /\ v.tx = tx
         THEN verified
         ELSE verified \cup
                {[block |-> b, tx |-> tx, height |-> headers[b].height, epoch |-> lc.epoch]}
  /\ UNCHANGED <<lc, headers, heightIndex, now>>

\* Close the header of a finalized height that the index does not name.
PruneObsoleteBlock(b) ==
  /\ lc # NoClient
  /\ Stored(b)
  /\ heightIndex[headers[b].height] \notin {NoBlock, b}
  /\ headers[b].height <= lc.finalized
  /\ headers' = [headers EXCEPT ![b] = NoHeader]
  /\ UNCHANGED <<lc, heightIndex, verified, now>>

\* The Solana clock (external).
Tick == now < MaxTime /\ now' = now + 1 /\ UNCHANGED <<lc, headers, heightIndex, verified>>

-----------------------------------------------------------------------------
Init ==
  /\ lc = NoClient
  /\ headers = [b \in Block |-> NoHeader]
  /\ heightIndex = [h \in Height |-> NoBlock]
  /\ verified = {}
  /\ now = 0

Next ==
  \/ \E a \in Anchors : Initialize(a)
  \/ \E a \in Anchors : Reinitialize(a)
  \/ ExtendBlockchain
  \/ \E b \in Block, tx \in Tx : VerifyTransaction(b, tx)
  \/ \E b \in Block : PruneObsoleteBlock(b)
  \/ Tick

Spec == Init /\ [][Next]_vars

\* Submitting headers is permissionless and a relayer follows the heaviest chain:
\* as long as some batch would move the tip, one that does is submitted.
FairSpec ==
  /\ Spec
  /\ WF_vars(\E a \in Anchors : Initialize(a))
  /\ WF_vars(ExtendBlockchain /\ lc' # lc)
  /\ WF_vars(Tick)

-----------------------------------------------------------------------------
(* Properties *)

\* Two attestations of one chain instance never name different blocks of one
\* height: what verify_transaction once called final is never contradicted by a
\* later reorganization (extend_blockchain's finality gate, the monotonic
\* finalized height, the index as canonicality oracle).
AttestationUnique ==
  \A v, w \in verified :
    v.epoch = w.epoch /\ v.height = w.height => v.block = w.block

\* Why it holds: every attestation of the live instance is at or below the
\* finalized height and still named by the index (verify_transaction's two
\* guards, kept by every later extend_blockchain), and no attestation is ahead
\* of the client's epoch.
AttestationAnchored ==
  /\ lc = NoClient => verified = {}
  /\ lc # NoClient =>
       \A v \in verified :
         /\ v.epoch <= lc.epoch
         /\ v.epoch = lc.epoch => v.height <= lc.finalized /\ heightIndex[v.height] = v.block

\* Within one chain instance no step moves the finalized height back or rewrites
\* the index at or below it ("already-finalized blocks can never be rewritten").
FinalizedFrozen ==
  [][lc # NoClient /\ lc'.epoch = lc.epoch =>
       /\ lc'.finalized >= lc.finalized
       /\ \A h \in 0..lc.finalized : heightIndex'[h] = heightIndex[h]]_vars

\* What the readers of the client see of it.  Before the client exists its network is
\* any: initialize chooses it.
Final == INSTANCE Finality WITH
  network   <- IF lc = NoClient THEN "mainnet" ELSE lc.network,
  epoch     <- IF lc = NoClient THEN 0 ELSE lc.epoch,
  tip       <- IF lc = NoClient THEN -1 ELSE lc.height,
  finalized <- IF lc = NoClient THEN -1 ELSE lc.finalized,
  index     <- heightIndex,
  attested  <- verified,
  Views     <- [Height -> Block \cup {NoBlock}]

\* The client implements Finality: whatever batches, forks, reinitializations and
\* prunes it is sent, its readers see an index that is frozen up to a finalized
\* height at or below the tip, and attestations of blocks in the frozen part only.
ImplementsFinality == Final!Spec

\* The index from the anchor to the tip is exactly the tip's ancestry, so that
\* verify_transaction's oracle agrees with the heaviest chain ("the per-batch
\* reindex below is complete").
IndexIsAncestry ==
  lc # NoClient =>
    LET start == headers[lc.genesis].height
    IN  /\ heightIndex[start] = lc.genesis
        /\ heightIndex[lc.height] = lc.tip
        /\ \A h \in (start + 1)..lc.height :
             heightIndex[h] # NoBlock /\ Prev[heightIndex[h]] = heightIndex[h - 1]

\* The canonical heights above the anchor.
CanonicalHeights ==
  IF lc = NoClient THEN {} ELSE (headers[lc.genesis].height + 1)..lc.height

\* The bits Bitcoin's rule asks of the block at height h, from the canonical chain
\* alone: the epoch's first block where the chain has it, else the anchor's seed.
ConsensusBits(h) ==
  LET start == headers[lc.genesis].height
      first == (h - 1) - ((h - 1) % BlocksPerEpoch)
      epoch == IF first > start
                 THEN [bits |-> Bits[heightIndex[first]], time |-> Time[heightIndex[first]]]
                 ELSE [bits |-> headers[lc.genesis].epochBits,
                       time |-> headers[lc.genesis].epochStart]
  IN  RequiredBitsForNextBlock(lc.network = "testnet4", h, Time[heightIndex[h]],
        headers[heightIndex[h - 1]].time, epoch.bits, epoch.time)

\* The difficulty the handler carries from header to header, across batches and
\* reorganizations, is the one the canonical chain itself requires.
CanonicalDifficulty ==
  lc # NoClient /\ Enforced(lc.network) =>
    \A h \in CanonicalHeights : Bits[heightIndex[h]] = ConsensusBits(h)

\* The median time past of the canonical chain at height h.
MedianAt(h) ==
  LET start == headers[lc.genesis].height
      low   == Larger(start, h - MtpWidth + 1)
  IN  MedianTimestamp([i \in 1..(h - low + 1) |-> headers[heightIndex[low + i - 1]].time])

\* Median time past never runs backwards along the canonical chain, although
\* timestamps may (the window is rebuilt from accounts for every batch).
MedianMonotone ==
  lc # NoClient /\ Enforced(lc.network) =>
    \A h \in CanonicalHeights : MedianAt(h) >= MedianAt(h - 1)

\* Work of a header's whole branch in the universe of headers.
BranchWork ==
  LET work[b \in Block] ==
        IF Prev[b] = NoBlock THEN 0 ELSE work[Prev[b]] + CalculateChainwork(Bits[b])
  IN  work

\* However forks, batches and prunes interleave, the client ends on the heaviest
\* branch: a reorganization fits into one batch from a canonical ancestor.
AdoptsHeaviest ==
  <>[](lc # NoClient /\ \A b \in Block : BranchWork[b] <= BranchWork[lc.tip])
===============================================================================
