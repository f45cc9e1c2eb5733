-------------------------- MODULE LightClientProofs --------------------------
(***************************************************************************)
(* Proofs about the light client, for every universe of headers and every  *)
(* value of the parameters: types, the uniqueness of attestations, the     *)
(* immutability of what is final, and the canonical chain as the tip's     *)
(* ancestry.                                                               *)
(***************************************************************************)
EXTENDS LightClient, SumTheorems, SequenceTheorems, TLAPS

\* A batch is a nonempty sequence of blocks.
LEMMA BatchShape ==
  ASSUME NEW batch \in Batches
  PROVE  /\ batch \in Seq(Block)
         /\ Len(batch) \in Nat \ {0}
         /\ \A i \in 1..Len(batch) : batch[i] \in Block
  <1>1. PICK n \in 1..MaxBatch : batch \in [1..n -> Block]
    BY DEF Batches
  <1>2. n \in Nat \ {0}
    BY LightClientAssumption DEF LightClientAssumption
  <1>3. batch \in Seq(Block)
    BY <1>1, <1>2, SeqDef
  <1>4. Len(batch) = n
    BY <1>1, <1>2, <1>3, LenProperties
  <1> QED
    BY <1>1, <1>2, <1>3, <1>4

\* The finalized height of a tip never exceeds the tip's height.
LEMMA FinalizedAtRange ==
  ASSUME NEW h \in Height
  PROVE  FinalizedAt(h) \in 0..h
  BY LightClientAssumption DEF FinalizedAt, Larger, Height, LightClientAssumption

LEMMA FreshTypes ==
  ASSUME NEW a \in Anchors, NEW e \in 0..MaxEpoch, NEW p \in Block \cup {NoBlock}
  PROVE  /\ FreshClient(a, e) \in Client
         /\ AnchorHeader(a, p, e) \in Header
         /\ a.hash \in Block
         /\ a.height \in Height
         /\ a.prev \in Block \cup {NoBlock}
  <1>1. /\ a \in Anchor
        /\ MaxHeight \in Nat
        /\ MaxWork \in Nat
    BY LightClientAssumption DEF LightClientAssumption
  <1>2. FinalizedAt(a.height) \in Height
    BY <1>1, FinalizedAtRange DEF Anchor, Height
  <1> QED
    BY <1>1, <1>2 DEF FreshClient, AnchorHeader, Client, Header, Anchor

\* What a stored header and an accepted batch give: the new headers and the new
\* index have their types.
LEMMA ExtendTypes ==
  ASSUME TypeOK, lc # NoClient, NEW batch \in Batches, NEW p, Stored(p), NEW run,
         BatchOk(p, batch, run)
  PROVE  /\ headers[p].height \in Height
         /\ headers[p].height + Len(batch) \in Height
         /\ HeadersAfter(p, batch, run) \in [Block -> Header \cup {NoHeader}]
         /\ IndexAfter(p, batch) \in [Height -> Block \cup {NoBlock}]
  <1> DEFINE n == Len(batch)
  <1>1. /\ n \in Nat \ {0}
        /\ \A i \in 1..n : batch[i] \in Block
    BY BatchShape
  <1>2. p \in Block /\ headers[p] \in Header
    BY DEF TypeOK, Stored
  <1>3. headers[p].height \in Height /\ MaxHeight \in Nat
    BY <1>2, LightClientAssumption DEF Header, LightClientAssumption
  <1>4. headers[p].height + n \in Height
    BY <1>1, <1>3 DEF BatchOk, Height
  <1>5. HeadersAfter(p, batch, run) \in [Block -> Header \cup {NoHeader}]
    <2> DEFINE at(b) == CHOOSE i \in 1..n : batch[i] = b
               entry(b) == [prev |-> Prev[b], time |-> Time[b], work |-> run[at(b)].work,
                            height |-> headers[p].height + at(b),
                            epochBits |-> run[at(b)].epochBits,
                            epochStart |-> run[at(b)].epochStart,
                            epoch |-> lc.epoch, root |-> b]
    <2>1. ASSUME NEW b \in {batch[i] : i \in 1..n}
          PROVE  entry(b) \in Header
      <3>1. at(b) \in 1..n
        OBVIOUS
      <3>2. headers[p].height + at(b) \in Height
        BY <1>1, <1>3, <1>4, <3>1 DEF Height
      <3>3. b \in Block
        BY <1>1
      <3>4. /\ run[at(b)].work \in 0..MaxWork
            /\ run[at(b)].epochBits \in Nat
            /\ run[at(b)].epochStart \in Nat
        BY <3>1 DEF BatchOk, RunInRange
      <3>5. Prev[b] \in Block \cup {NoBlock} /\ Time[b] \in Nat
        BY <3>3, LightClientAssumption DEF LightClientAssumption
      <3>6. lc.epoch \in 0..MaxEpoch
        BY DEF TypeOK, Client
      <3> HIDE DEF at
      <3> QED
        BY <3>2, <3>3, <3>4, <3>5, <3>6 DEF Header
    <2>2. HeadersAfter(p, batch, run) =
            [b \in Block |-> IF b \in {batch[i] : i \in 1..n} THEN entry(b) ELSE headers[b]]
      BY DEF HeadersAfter
    <2> HIDE DEF entry
    <2> QED
      BY <2>1, <2>2 DEF TypeOK
  <1>6. IndexAfter(p, batch) \in [Height -> Block \cup {NoBlock}]
    <2>1. ASSUME NEW h \in Height, h \in (headers[p].height + 1)..(headers[p].height + n)
          PROVE  batch[h - headers[p].height] \in Block
      BY <1>1, <1>3, <2>1 DEF Height
    <2> QED
      BY <2>1 DEF IndexAfter, TypeOK
  <1> QED
    BY <1>3, <1>4, <1>5, <1>6

\* Whatever a submitter sends, the client account keeps its type: the heights,
\* work and finalized height that extend_blockchain writes are in range.
LEMMA ExtendKeepsTypes ==
  ASSUME TypeOK, ExtendBlockchain
  PROVE  TypeOK' /\ lc' \in Client
  <1>1. PICK batch \in Batches :
          /\ Stored(Prev[batch[1]])
          /\ \E window \in MtpWindows(Prev[batch[1]]) :
               \/ ExtendCanonical(Prev[batch[1]], batch, window)
               \/ ExtendFork(Prev[batch[1]], batch, window)
    BY DEF ExtendBlockchain
  <1> DEFINE p == Prev[batch[1]]
  <1>2. PICK window : ExtendCanonical(p, batch, window) \/ ExtendFork(p, batch, window)
    BY <1>1
  <1> DEFINE run == RunOf(p, batch, window)
  <1> HIDE DEF run
  <1>3. BatchOk(p, batch, run)
    BY <1>2 DEF ExtendCanonical, ExtendFork, run
  <1>4. lc # NoClient
    BY DEF ExtendBlockchain
  <1>5. /\ headers[p].height + Len(batch) \in Height
        /\ HeadersAfter(p, batch, run) \in [Block -> Header \cup {NoHeader}]
        /\ IndexAfter(p, batch) \in [Height -> Block \cup {NoBlock}]
    BY <1>1, <1>3, <1>4, ExtendTypes
  <1>6. CASE ExtendFork(p, batch, window)
    BY <1>4, <1>5, <1>6 DEF ExtendFork, TypeOK, run
  <1>7. CASE ExtendCanonical(p, batch, window)
    <2> DEFINE n == Len(batch)
    <2>1. n \in 1..n /\ batch[n] \in Block
      BY BatchShape
    <2>2. /\ run[n].work \in 0..MaxWork
          /\ run[n].epochBits \in Nat
          /\ run[n].epochStart \in Nat
      BY <1>3, <2>1 DEF BatchOk, RunInRange
    <2>3. lc \in Client
      BY <1>4 DEF TypeOK
    <2>4. FinalizedAfter(headers[p].height + n) \in Height
      <3>1. lc.finalized \in Height
        BY <2>3 DEF Client
      <3>2. FinalizedAt(headers[p].height + n) \in Height
        BY <1>5, FinalizedAtRange, LightClientAssumption DEF Height, LightClientAssumption
      <3> QED
        BY <3>1, <3>2 DEF FinalizedAfter, Larger
    <2>5. lc' \in Client
      <3>1. lc' = [lc EXCEPT
                  !.tip = batch[n],
                  !.height = headers[p].height + n,
                  !.work = run[n].work,
                  !.finalized = FinalizedAfter(headers[p].height + n),
                  !.epochBits = IF Enforced(lc.network) THEN run[n].epochBits ELSE @,
                  !.epochStart = IF Enforced(lc.network) THEN run[n].epochStart ELSE @]
        BY <1>7 DEF ExtendCanonical, run
      <3> QED
        BY <1>5, <2>1, <2>2, <2>3, <2>4, <3>1 DEF Client
    <2> QED
      BY <1>5, <1>7, <2>5 DEF ExtendCanonical, TypeOK, run
  <1> QED
    BY <1>2, <1>6, <1>7

LEMMA NextKeepsTypes == TypeOK /\ [Next]_vars => TypeOK'
  <1> SUFFICES ASSUME TypeOK, [Next]_vars PROVE TypeOK'
    OBVIOUS
  <1>1. ASSUME NEW a \in Anchors, Initialize(a) PROVE TypeOK'
    <2>1. 0 \in 0..MaxEpoch
      BY LightClientAssumption DEF LightClientAssumption
    <2> QED
      BY <1>1, <2>1, FreshTypes DEF Initialize, TypeOK
  <1>2. ASSUME NEW a \in Anchors, Reinitialize(a) PROVE TypeOK'
    <2>1. lc.epoch + 1 \in 0..MaxEpoch
      BY <1>2, LightClientAssumption DEF Reinitialize, TypeOK, Client, LightClientAssumption
    <2> QED
      BY <1>2, <2>1, FreshTypes DEF Reinitialize, TypeOK
  <1>3. ASSUME NEW b \in Block, NEW tx \in Tx, VerifyTransaction(b, tx) PROVE TypeOK'
    <2>1. headers[b].height \in Height /\ lc.epoch \in 0..MaxEpoch
      BY <1>3 DEF VerifyTransaction, TypeOK, Stored, Header, Client
    <2> QED
      BY <1>3, <2>1 DEF VerifyTransaction, TypeOK, Verified
  <1>4. ASSUME NEW b \in Block, PruneObsoleteBlock(b) PROVE TypeOK'
    BY <1>4 DEF PruneObsoleteBlock, TypeOK
  <1>5. ASSUME Tick PROVE TypeOK'
    BY <1>5, LightClientAssumption DEF Tick, TypeOK, LightClientAssumption
  <1>6. CASE UNCHANGED vars
    BY <1>6 DEF vars, TypeOK
  <1> QED
    BY <1>1, <1>2, <1>3, <1>4, <1>5, <1>6, ExtendKeepsTypes DEF Next

\* Every account of the light client keeps its type, for every universe of
\* headers and every order of submissions, reinitializations and prunes.
THEOREM TypeCorrect == Spec => []TypeOK
  <1>1. Init => TypeOK
    BY LightClientAssumption DEF Init, TypeOK, Height, LightClientAssumption
  <1> QED
    BY <1>1, NextKeepsTypes, PTL DEF Spec

-----------------------------------------------------------------------------
\* A batch that is accepted leaves the finalized part of the index alone and
\* does not lower the finalized height: the finality gate and the monotonic
\* finalized height of extend_blockchain.
LEMMA ExtendKeepsFinal ==
  ASSUME TypeOK, ExtendBlockchain
  PROVE  /\ lc' # NoClient
         /\ lc'.epoch = lc.epoch
         /\ lc'.finalized >= lc.finalized
         /\ \A h \in 0..lc.finalized : heightIndex'[h] = heightIndex[h]
         /\ verified' = verified
  <1>1. PICK batch \in Batches :
          /\ Stored(Prev[batch[1]])
          /\ \E window \in MtpWindows(Prev[batch[1]]) :
               \/ ExtendCanonical(Prev[batch[1]], batch, window)
               \/ ExtendFork(Prev[batch[1]], batch, window)
    BY DEF ExtendBlockchain
  <1> DEFINE p == Prev[batch[1]]
  <1>2. PICK window : ExtendCanonical(p, batch, window) \/ ExtendFork(p, batch, window)
    BY <1>1
  <1>3. lc \in Client /\ lc # NoClient
    BY DEF ExtendBlockchain, TypeOK
  <1>4. lc.finalized \in Height /\ MaxHeight \in Nat
    BY <1>3, LightClientAssumption DEF Client, LightClientAssumption
  <1>5. CASE ExtendFork(p, batch, window)
    BY <1>3, <1>4, <1>5 DEF ExtendFork, Height
  <1>6. CASE ExtendCanonical(p, batch, window)
    <2>1. lc' # NoClient
      BY ExtendKeepsTypes, NoClientAssumption
    <2>2. headers[p].height \in Height /\ headers[p].height + Len(batch) \in Height
      BY <1>1, <1>3, <1>6, ExtendTypes DEF ExtendCanonical
    <2>3. lc'.epoch = lc.epoch /\ lc'.finalized = FinalizedAfter(headers[p].height + Len(batch))
      BY <1>3, <1>6 DEF ExtendCanonical, Client
    <2>4. lc'.finalized >= lc.finalized
      <3>1. FinalizedAt(headers[p].height + Len(batch)) \in Int
        BY <2>2, FinalizedAtRange
      <3>2. lc.finalized \in Int
        BY <1>4 DEF Height
      <3> QED
        BY <2>3, <3>1, <3>2 DEF FinalizedAfter, Larger
    <2>5. ASSUME NEW h \in 0..lc.finalized PROVE heightIndex'[h] = heightIndex[h]
      <3>1. headers[p].height >= lc.finalized
        BY <1>6 DEF ExtendCanonical, ForkPointOk
      <3>2. h \in Height /\ h \notin (headers[p].height + 1)..(headers[p].height + Len(batch))
        BY <1>4, <2>2, <2>5, <3>1 DEF Height
      <3> QED
        BY <1>6, <3>2 DEF ExtendCanonical, IndexAfter
    <2> QED
      BY <1>6, <2>1, <2>3, <2>4, <2>5 DEF ExtendCanonical
  <1> QED
    BY <1>2, <1>5, <1>6

\* What final means: within one chain instance no step, of any submitter, moves
\* the finalized height back or rewrites the index at or below it.
THEOREM FinalIsFrozen == Spec => FinalizedFrozen
  <1> DEFINE Frozen ==
        lc # NoClient /\ lc'.epoch = lc.epoch =>
          /\ lc'.finalized >= lc.finalized
          /\ \A h \in 0..lc.finalized : heightIndex'[h] = heightIndex[h]
  <1>1. ASSUME TypeOK, [Next]_vars PROVE [Frozen]_vars
    <2> SUFFICES ASSUME lc # NoClient, lc'.epoch = lc.epoch, Next
                 PROVE  Frozen
      BY <1>1 DEF vars
    <2>1. lc.finalized \in Int /\ lc.epoch \in Int
      BY <1>1 DEF TypeOK, Client, Height
    <2>2. ASSUME NEW a \in Anchors, Initialize(a) PROVE Frozen
      BY <2>2 DEF Initialize
    <2>3. ASSUME NEW a \in Anchors, Reinitialize(a) PROVE Frozen
      <3>1. lc'.epoch = lc.epoch + 1
        BY <2>3 DEF Reinitialize, FreshClient
      <3> QED
        BY <2>1, <3>1
    <2>4. CASE ExtendBlockchain
      BY <1>1, <2>4, ExtendKeepsFinal
    <2>5. ASSUME NEW b \in Block, NEW tx \in Tx, VerifyTransaction(b, tx) PROVE Frozen
      BY <2>1, <2>5 DEF VerifyTransaction
    <2>6. ASSUME NEW b \in Block, PruneObsoleteBlock(b) PROVE Frozen
      BY <2>1, <2>6 DEF PruneObsoleteBlock
    <2>7. CASE Tick
      BY <2>1, <2>7 DEF Tick
    <2> QED
      BY <2>2, <2>3, <2>4, <2>5, <2>6, <2>7 DEF Next
  <1> QED
    BY <1>1, TypeCorrect, PTL DEF Spec, FinalizedFrozen

\* The inductive invariant: the attestations of the live instance stay named by
\* the finalized part of the index.
AttestInv == TypeOK /\ AttestationAnchored /\ AttestationUnique

LEMMA NextKeepsAttestations == AttestInv /\ [Next]_vars => AttestInv'
  <1> SUFFICES ASSUME AttestInv, [Next]_vars
               PROVE  AttestationAnchored' /\ AttestationUnique'
    BY NextKeepsTypes DEF AttestInv
  <1> USE DEF AttestInv
  <1>0. \A v \in verified : v.epoch \in Int /\ v.height \in Height
    BY DEF TypeOK, Verified
  <1>1. ASSUME NEW a \in Anchors, Initialize(a)
        PROVE  AttestationAnchored' /\ AttestationUnique'
    BY <1>1 DEF Initialize, AttestationAnchored, AttestationUnique
  <1>2. ASSUME NEW a \in Anchors, Reinitialize(a)
        PROVE  AttestationAnchored' /\ AttestationUnique'
    <2>1. lc'.epoch = lc.epoch + 1 /\ lc.epoch \in Int /\ lc # NoClient
      BY <1>2 DEF Reinitialize, FreshClient, TypeOK, Client
    <2>2. lc.epoch + 1 \in 0..MaxEpoch
      BY <1>2, LightClientAssumption DEF Reinitialize, TypeOK, Client, LightClientAssumption
    <2>3. lc' # NoClient
      BY <1>2, <2>2, FreshTypes, NoClientAssumption DEF Reinitialize
    <2>4. verified' = verified
      BY <1>2 DEF Reinitialize
    <2>5. \A v \in verified' : v.epoch < lc'.epoch
      BY <1>0, <2>1, <2>4 DEF AttestationAnchored
    <2> QED
      BY <1>0, <2>1, <2>3, <2>4, <2>5 DEF AttestationAnchored, AttestationUnique
  <1>3. ASSUME ExtendBlockchain
        PROVE  AttestationAnchored' /\ AttestationUnique'
    <2>1. lc # NoClient /\ lc.finalized \in Int
      BY <1>3 DEF ExtendBlockchain, TypeOK, Client, Height
    <2>2. /\ lc' # NoClient /\ lc'.epoch = lc.epoch
          /\ lc'.finalized >= lc.finalized
          /\ \A h \in 0..lc.finalized : heightIndex'[h] = heightIndex[h]
          /\ verified' = verified
      BY <1>3, ExtendKeepsFinal
    <2>3. lc'.finalized \in Int
      BY <1>3, ExtendKeepsTypes DEF Client, Height
    <2>4. ASSUME NEW v \in verified, v.epoch = lc.epoch
          PROVE  v.height <= lc'.finalized /\ heightIndex'[v.height] = v.block
      <3>1. v.height <= lc.finalized /\ heightIndex[v.height] = v.block
        BY <2>1, <2>4 DEF AttestationAnchored
      <3>2. v.height \in 0..lc.finalized
        BY <1>0, <2>1, <3>1 DEF Height
      <3> QED
        BY <2>1, <2>2, <2>3, <3>1, <3>2
    <2> QED
      BY <2>1, <2>2, <2>4 DEF AttestationAnchored, AttestationUnique
  <1>4. ASSUME NEW b \in Block, NEW tx \in Tx, VerifyTransaction(b, tx)
        PROVE  AttestationAnchored' /\ AttestationUnique'
    <2> DEFINE new == [block |-> b, tx |-> tx, height |-> headers[b].height, epoch |-> lc.epoch]
    <2>1. /\ lc # NoClient /\ lc' = lc /\ heightIndex' = heightIndex
          /\ heightIndex[headers[b].height] = b
          /\ headers[b].height <= lc.finalized
          /\ lc.epoch \in Int
      BY <1>4 DEF VerifyTransaction, TypeOK, Client
    <2>2. verified' \subseteq verified \cup {new}
      BY <1>4 DEF VerifyTransaction
    <2>3. \A v \in verified' :
            /\ v.epoch <= lc.epoch
            /\ v.epoch = lc.epoch => v.height <= lc.finalized /\ heightIndex[v.height] = v.block
      BY <2>1, <2>2 DEF AttestationAnchored
    <2>4. ASSUME NEW v \in verified', NEW w \in verified',
                 v.epoch = w.epoch, v.height = w.height
          PROVE  v.block = w.block
      <3>1. CASE v \in verified /\ w \in verified
        BY <2>4, <3>1 DEF AttestationUnique
      <3>2. CASE v = new \/ w = new
        BY <2>3, <2>4, <3>2
      <3> QED
        BY <2>2, <3>1, <3>2
    <2> QED
      BY <2>1, <2>3, <2>4 DEF AttestationAnchored, AttestationUnique
  <1>5. ASSUME NEW b \in Block, PruneObsoleteBlock(b)
        PROVE  AttestationAnchored' /\ AttestationUnique'
    BY <1>5 DEF PruneObsoleteBlock, AttestationAnchored, AttestationUnique
  <1>6. ASSUME Tick
        PROVE  AttestationAnchored' /\ AttestationUnique'
    BY <1>6 DEF Tick, AttestationAnchored, AttestationUnique
  <1>7. CASE UNCHANGED vars
    BY <1>7 DEF vars, AttestationAnchored, AttestationUnique
  <1> QED
    BY <1>1, <1>2, <1>3, <1>4, <1>5, <1>6, <1>7 DEF Next

LEMMA AttestInvHolds == Spec => []AttestInv
  <1>1. Init => AttestInv
    BY LightClientAssumption
    DEF Init, AttestInv, TypeOK, Height, AttestationAnchored, AttestationUnique,
        LightClientAssumption
  <1> QED
    BY <1>1, NextKeepsAttestations, PTL DEF Spec

\* Every attestation of the live instance names a block of the finalized index.
THEOREM AttestationsAnchored == Spec => []AttestationAnchored
  BY AttestInvHolds, PTL DEF AttestInv

\* No two attestations of one chain instance contradict each other, whatever
\* forks and reorganizations were submitted between them.
THEOREM AttestationsUnique == Spec => []AttestationUnique
  BY AttestInvHolds, PTL DEF AttestInv
-----------------------------------------------------------------------------
\* A stored header commits to its own block's transactions, or, as an anchor, to none.
RootsOwn == \A b \in Block : headers[b] # NoHeader => headers[b].root \in {NoBlock, b}

\* The finalized height is never above the tip, although the tip may move back.
FinalBelowTip == lc # NoClient => lc.finalized <= lc.height

RefinementInv == TypeOK /\ RootsOwn /\ FinalBelowTip

\* What an accepted batch does, as the readers of the client see it.
LEMMA ExtendStep ==
  ASSUME RefinementInv, ExtendBlockchain
  PROVE  /\ RootsOwn' /\ FinalBelowTip'
         /\ lc \in Client /\ lc' \in Client /\ lc'.network = lc.network
  <1>1. PICK batch \in Batches :
          /\ Stored(Prev[batch[1]])
          /\ \E window \in MtpWindows(Prev[batch[1]]) :
               \/ ExtendCanonical(Prev[batch[1]], batch, window)
               \/ ExtendFork(Prev[batch[1]], batch, window)
    BY DEF ExtendBlockchain
  <1> DEFINE p == Prev[batch[1]]
  <1>2. PICK window : ExtendCanonical(p, batch, window) \/ ExtendFork(p, batch, window)
    BY <1>1
  <1> DEFINE run == RunOf(p, batch, window)
  <1> HIDE DEF run
  <1>3. /\ lc \in Client /\ lc # NoClient
        /\ BatchOk(p, batch, run)
        /\ headers' = HeadersAfter(p, batch, run)
    BY <1>2 DEF ExtendBlockchain, RefinementInv, TypeOK, ExtendCanonical, ExtendFork, run
  <1>4. lc' \in Client
    BY ExtendKeepsTypes DEF RefinementInv
  <1>5. RootsOwn'
    <2>1. ASSUME NEW b \in Block, headers'[b] # NoHeader
          PROVE  headers'[b].root \in {NoBlock, b}
      <3>1. CASE b \in {batch[i] : i \in 1..Len(batch)}
        BY <1>3, <3>1 DEF HeadersAfter
      <3>2. CASE b \notin {batch[i] : i \in 1..Len(batch)}
        BY <1>3, <2>1, <3>2 DEF HeadersAfter, RefinementInv, RootsOwn
      <3> QED
        BY <3>1, <3>2
    <2> QED
      BY <2>1 DEF RootsOwn
  <1>6. CASE ExtendFork(p, batch, window)
    BY <1>3, <1>4, <1>5, <1>6 DEF ExtendFork, RefinementInv, FinalBelowTip
  <1>7. CASE ExtendCanonical(p, batch, window)
    <2>1. headers[p].height \in Height /\ headers[p].height + Len(batch) \in Height
      BY <1>1, <1>3, ExtendTypes DEF RefinementInv
    <2>2. Len(batch) \in Nat \ {0}
      BY BatchShape
    <2>3. /\ lc'.network = lc.network
          /\ lc'.height = headers[p].height + Len(batch)
          /\ lc'.finalized = FinalizedAfter(headers[p].height + Len(batch))
      BY <1>3, <1>7 DEF ExtendCanonical, Client
    <2>4. FinalizedAt(headers[p].height + Len(batch)) \in 0..(headers[p].height + Len(batch))
      BY <2>1, FinalizedAtRange
    <2>5. lc.finalized <= headers[p].height /\ lc.finalized \in Int
      BY <1>3, <1>7 DEF ExtendCanonical, ForkPointOk, Client, Height
    <2>6. lc'.finalized <= lc'.height
      BY <2>1, <2>2, <2>3, <2>4, <2>5 DEF FinalizedAfter, Larger, Height
    <2> QED
      BY <1>3, <1>4, <1>5, <2>3, <2>6 DEF FinalBelowTip
  <1> QED
    BY <1>2, <1>6, <1>7

LEMMA NextKeepsRefinementInv == RefinementInv /\ [Next]_vars => RefinementInv'
  <1> SUFFICES ASSUME RefinementInv, [Next]_vars
               PROVE  RootsOwn' /\ FinalBelowTip'
    BY NextKeepsTypes DEF RefinementInv
  <1> USE DEF RefinementInv
  <1>1. ASSUME NEW a \in Anchors, NEW e, NEW p,
               headers' = [headers EXCEPT ![a.hash] = AnchorHeader(a, p, e)],
               lc' = FreshClient(a, e)
        PROVE  RootsOwn' /\ FinalBelowTip'
    <2>1. a.height \in Height
      BY LightClientAssumption DEF LightClientAssumption, Anchor
    <2>2. FinalizedAt(a.height) <= a.height
      BY <2>1, FinalizedAtRange DEF Height
    <2>3. FinalBelowTip'
      BY <1>1, <2>2 DEF FinalBelowTip, FreshClient
    <2>4. RootsOwn'
      BY <1>1 DEF RootsOwn, AnchorHeader, TypeOK
    <2> QED
      BY <2>3, <2>4
  <1>2. ASSUME NEW a \in Anchors, Initialize(a) PROVE RootsOwn' /\ FinalBelowTip'
    BY <1>1, <1>2 DEF Initialize
  <1>3. ASSUME NEW a \in Anchors, Reinitialize(a) PROVE RootsOwn' /\ FinalBelowTip'
    BY <1>1, <1>3 DEF Reinitialize
  <1>4. ASSUME ExtendBlockchain PROVE RootsOwn' /\ FinalBelowTip'
    BY <1>4, ExtendStep
  <1>5. ASSUME NEW b \in Block, NEW tx \in Tx, VerifyTransaction(b, tx)
        PROVE  RootsOwn' /\ FinalBelowTip'
    BY <1>5 DEF VerifyTransaction, RootsOwn, FinalBelowTip
  <1>6. ASSUME NEW b \in Block, PruneObsoleteBlock(b) PROVE RootsOwn' /\ FinalBelowTip'
    BY <1>6 DEF PruneObsoleteBlock, RootsOwn, FinalBelowTip, TypeOK
  <1>7. CASE Tick
    BY <1>7 DEF Tick, RootsOwn, FinalBelowTip
  <1>8. CASE UNCHANGED vars
    BY <1>8 DEF vars, RootsOwn, FinalBelowTip
  <1> QED
    BY <1>2, <1>3, <1>4, <1>5, <1>6, <1>7, <1>8 DEF Next

\* Every step of the client is a step, or a stutter, of Finality.
LEMMA StepRefines == RefinementInv /\ RefinementInv' /\ [Next]_vars => [Final!Next]_(Final!vars)
  <1> SUFFICES ASSUME RefinementInv, RefinementInv', [Next]_vars
               PROVE  [Final!Next]_(Final!vars)
    OBVIOUS
  <1> USE DEF RefinementInv
  <1>1. ASSUME NEW a \in Anchors, Initialize(a) PROVE Final!Start
    <2>1. lc = NoClient /\ lc' = FreshClient(a, 0) /\ verified' = verified
      BY <1>1 DEF Initialize
    <2>2. lc' \in Client /\ lc' # NoClient
      <3>1. 0 \in 0..MaxEpoch
        BY LightClientAssumption DEF LightClientAssumption
      <3> QED
        BY <2>1, <3>1, FreshTypes, NoClientAssumption
    <2>3. /\ lc'.epoch = 0 /\ lc'.network \in Network
          /\ lc'.height \in Height /\ lc'.finalized \in Height
          /\ lc'.finalized <= lc'.height
          /\ heightIndex' \in [Height -> Block \cup {NoBlock}]
      BY <2>1, <2>2 DEF FreshClient, Client, FinalBelowTip, TypeOK
    <2> QED
      BY <2>1, <2>2, <2>3 DEF Final!Start, Final!Position
  <1>2. ASSUME NEW a \in Anchors, Reinitialize(a) PROVE Final!Restart
    <2>1. /\ lc # NoClient /\ lc \in Client /\ lc.epoch < MaxEpoch
          /\ lc' = FreshClient(a, lc.epoch + 1) /\ verified' = verified
      BY <1>2 DEF Reinitialize, TypeOK
    <2>2. lc.epoch + 1 \in 0..MaxEpoch
      BY <2>1, LightClientAssumption DEF Client, LightClientAssumption
    <2>3. lc' \in Client /\ lc' # NoClient
      BY <2>1, <2>2, FreshTypes, NoClientAssumption
    <2>4. /\ lc'.epoch = lc.epoch + 1 /\ lc'.network \in Network
          /\ lc'.height \in Height /\ lc'.finalized \in Height
          /\ lc'.finalized <= lc'.height
          /\ heightIndex' \in [Height -> Block \cup {NoBlock}]
          /\ lc.finalized # -1
      BY <2>1, <2>3 DEF FreshClient, Client, FinalBelowTip, TypeOK, Height
    <2> QED
      BY <2>1, <2>3, <2>4 DEF Final!Restart, Final!Position
  <1>3. ASSUME ExtendBlockchain PROVE Final!Advance
    <2>1. /\ lc # NoClient /\ lc' # NoClient
          /\ lc'.epoch = lc.epoch
          /\ lc'.finalized >= lc.finalized
          /\ \A h \in 0..lc.finalized : heightIndex'[h] = heightIndex[h]
          /\ verified' = verified
      BY <1>3, ExtendKeepsFinal DEF ExtendBlockchain
    <2>2. lc \in Client /\ lc' \in Client /\ lc'.network = lc.network
      BY <1>3, ExtendStep
    <2>3. /\ lc.finalized \in Height /\ lc'.finalized \in Height /\ lc'.height \in Height
          /\ lc'.finalized <= lc'.height
          /\ heightIndex' \in [Height -> Block \cup {NoBlock}]
      BY <2>1, <2>2 DEF Client, FinalBelowTip, TypeOK
    <2>4. lc.finalized # -1 /\ \A h \in Height : h <= lc.finalized => h \in 0..lc.finalized
      BY <2>3 DEF Height
    <2> QED
      BY <2>1, <2>2, <2>3, <2>4 DEF Final!Advance, Final!Position
  <1>4. ASSUME NEW b \in Block, NEW tx \in Tx, VerifyTransaction(b, tx)
        PROVE  [Final!Next]_(Final!vars)
    <2>1. /\ lc # NoClient /\ headers[b] # NoHeader
          /\ heightIndex[headers[b].height] = b
          /\ headers[b].height <= lc.finalized
          /\ headers[b].root # NoBlock
          /\ tx \in TxsOf[headers[b].root]
          /\ UNCHANGED <<lc, heightIndex>>
      BY <1>4 DEF VerifyTransaction, Stored
    <2>2. headers[b].root = b /\ headers[b].height \in Height /\ b # NoBlock
      BY <2>1, LightClientAssumption DEF RootsOwn, TypeOK, Header, LightClientAssumption
    <2>3. CASE \E v \in verified : v.block = b /\ v.tx = tx
      <3>1. verified' = verified
        BY <1>4, <2>3 DEF VerifyTransaction
      <3> QED
        BY <2>1, <3>1 DEF Final!vars
    <2>4. CASE ~\E v \in verified : v.block = b /\ v.tx = tx
      <3>1. verified' = verified \cup
              {[block |-> b, tx |-> tx, height |-> headers[b].height, epoch |-> lc.epoch]}
        BY <1>4, <2>4 DEF VerifyTransaction
      <3>2. Final!Attest(headers[b].height, tx)
        BY <2>1, <2>2, <2>4, <3>1 DEF Final!Attest
      <3> QED
        BY <2>2, <3>2 DEF Final!Next
    <2> QED
      BY <2>3, <2>4
  <1>5. ASSUME NEW b \in Block, PruneObsoleteBlock(b) PROVE UNCHANGED Final!vars
    BY <1>5 DEF PruneObsoleteBlock, Final!vars
  <1>6. CASE Tick
    BY <1>6 DEF Tick, Final!vars
  <1>7. CASE UNCHANGED vars
    BY <1>7 DEF vars, Final!vars
  <1> QED
    BY <1>1, <1>2, <1>3, <1>4, <1>5, <1>6, <1>7 DEF Next, Final!Next

\* The light client implements Finality, for every universe of headers: the programs
\* that read its accounts may rely on the abstract specification alone.
THEOREM ClientImplementsFinality == Spec => ImplementsFinality
  <1>1. Init => RefinementInv
    BY LightClientAssumption
    DEF Init, RefinementInv, TypeOK, Height, RootsOwn, FinalBelowTip, LightClientAssumption
  <1>2. Init => Final!Init
    BY DEF Init, Final!Init, Network
  <1> QED
    BY <1>1, <1>2, NextKeepsRefinementInv, StepRefines, PTL
    DEF Spec, ImplementsFinality, Final!Spec

-----------------------------------------------------------------------------
(* The loop of extend_blockchain *)

\* The locals of extend_blockchain's loop after each of the first n headers.
RunTo(f, p, batch, window, n) ==
  f = [i \in 0..n |-> IF i = 0 THEN StartRun(p, window)
                      ELSE Advance(f[i - 1], batch[i], headers[p].height + i)]

LEMMA RunExists ==
  ASSUME NEW p, NEW batch, NEW window, NEW n \in Nat
  PROVE  \E f : RunTo(f, p, batch, window, n)
  <1> DEFINE Good == {i \in 0..n : \E f : RunTo(f, p, batch, window, i)}
  <1>1. 0 \in Good
    <2> DEFINE f == [i \in 0..0 |-> StartRun(p, window)]
    <2>1. RunTo(f, p, batch, window, 0)
      <3>1. \A i \in 0..0 : i = 0
        OBVIOUS
      <3> QED
        BY <3>1 DEF RunTo
    <2> QED
      BY <2>1
  <1>2. ASSUME NEW i \in 1..n, i - 1 \in Good PROVE i \in Good
    <2>1. PICK f : RunTo(f, p, batch, window, i - 1)
      BY <1>2
    <2> DEFINE last == Advance(f[i - 1], batch[i], headers[p].height + i)
               g == [j \in 0..i |-> IF j = i THEN last ELSE f[j]]
    <2>2. \A j \in 0..(i - 1) : f[j] = IF j = 0 THEN StartRun(p, window)
                                       ELSE Advance(f[j - 1], batch[j], headers[p].height + j)
      BY <2>1 DEF RunTo
    <2>3. g[i] = last /\ \A j \in 0..(i - 1) : g[j] = f[j]
      OBVIOUS
    <2>4. \A j \in 0..i : g[j] = IF j = 0 THEN StartRun(p, window)
                                 ELSE Advance(g[j - 1], batch[j], headers[p].height + j)
      <3> TAKE j \in 0..i
      <3>1. CASE j = i
        <4>1. g[i - 1] = f[i - 1] /\ i # 0
          BY <2>3
        <4> HIDE DEF g
        <4> QED
          BY <3>1, <4>1, <2>3
      <3>2. CASE j # i
        <4>1. j \in 0..(i - 1) /\ (j # 0 => j - 1 \in 0..(i - 1))
          BY <3>2
        <4> HIDE DEF g
        <4> QED
          BY <4>1, <2>2, <2>3
      <3> QED
        BY <3>1, <3>2
    <2>5. RunTo(g, p, batch, window, i)
      <3>1. g = [j \in 0..i |-> g[j]]
        OBVIOUS
      <3> HIDE DEF g
      <3> QED
        BY <2>4, <3>1 DEF RunTo
    <2> QED
      BY <2>5
  <1>3. 0..n \subseteq Good
    <2> HIDE DEF Good
    <2> QED
      BY <1>1, <1>2, UpTo
  <1> QED
    BY <1>3

\* The loop's locals, one header after the other.
LEMMA RunSteps ==
  ASSUME NEW p, NEW batch \in Batches, NEW window
  PROVE  /\ RunOf(p, batch, window)[0] = StartRun(p, window)
         /\ \A i \in 1..Len(batch) :
              RunOf(p, batch, window)[i] =
                Advance(RunOf(p, batch, window)[i - 1], batch[i], headers[p].height + i)
  <1> DEFINE run == RunOf(p, batch, window)
  <1>1. Len(batch) \in Nat
    BY BatchShape
  <1>2. run = CHOOSE f : RunTo(f, p, batch, window, Len(batch))
    BY DEF RunOf, RunTo
  <1> HIDE DEF run
  <1>3. RunTo(run, p, batch, window, Len(batch))
    BY <1>1, <1>2, RunExists
  <1> QED
    BY <1>1, <1>3 DEF RunTo, run

-----------------------------------------------------------------------------
(* The canonical chain *)

\* A hash commits to its parent's hash, so headers form chains: every header is one
\* step further from where its chain starts.
Deeper(d) ==
  /\ d \in [Block -> Nat]
  /\ \A b \in Block : Prev[b] # NoBlock => d[b] = d[Prev[b]] + 1

HashChain == \E d : Deeper(d)
Depth == CHOOSE d : Deeper(d)

LEMMA DepthOfChain == HashChain => Deeper(Depth)
  BY DEF HashChain, Depth

\* A regtest client, which takes parents of epoch zero in every later one, is not
\* initialized again.
RegtestOnce == \A a \in Anchors : a.network = "regtest" => MaxEpoch = 0

\* A header of the live chain instance, and the height where the instance starts.
Live(b) == b \in Block /\ headers[b] # NoHeader /\ headers[b].epoch = lc.epoch
Start   == headers[lc.genesis].height

\* Live headers are stored at the height their depth gives and with their own fields.
LiveWell ==
  \A b \in Block : Live(b) =>
    /\ headers[b].height - Start = Depth[b] - Depth[lc.genesis]
    /\ b # lc.genesis =>
         /\ Depth[b] > Depth[lc.genesis]
         /\ headers[b].time = Time[b]
         /\ headers[b].prev = Prev[b]

\* The blocks that the index names up to the tip are live.
CanonLive ==
  \A h \in Start..lc.height :
    /\ Live(heightIndex[h])
    /\ headers[heightIndex[h]].height = h

InstanceInv ==
  /\ \A b \in Block : headers[b] # NoHeader => headers[b].epoch <= lc.epoch
  /\ \E a \in Anchors : a.network = lc.network
  /\ Live(lc.genesis)
  /\ Start <= lc.height
  /\ LiveWell
  /\ CanonLive

ChainInv ==
  /\ TypeOK
  /\ lc = NoClient => \A b \in Block : headers[b] = NoHeader
  /\ lc # NoClient => InstanceInv
  /\ IndexIsAncestry

\* What extend_blockchain has checked of the batch's parent.
Extends(p, batch, window) ==
  /\ lc # NoClient
  /\ batch \in Batches
  /\ p = Prev[batch[1]]
  /\ Stored(p) /\ LiveParent(p) /\ CanonicalParent(p)
  /\ window \in MtpWindows(p)

\* A batch is promoted whose parent lies above the tip: the index still names it, from
\* a branch that a heavier and shorter one has replaced.
StalePromotion ==
  \E batch \in Batches :
    \E window \in MtpWindows(Prev[batch[1]]) :
      /\ Extends(Prev[batch[1]], batch, window)
      /\ headers[Prev[batch[1]]].height > lc.height
      /\ ExtendCanonical(Prev[batch[1]], batch, window)

\* The headers a batch writes.
EntryOf(p, b, r, i) ==
  [prev |-> Prev[b], time |-> Time[b], work |-> r.work, height |-> headers[p].height + i,
   epochBits |-> r.epochBits, epochStart |-> r.epochStart, epoch |-> lc.epoch, root |-> b]

Writes(p, batch, run) ==
  /\ \A i \in 1..Len(batch) : headers'[batch[i]] = EntryOf(p, batch[i], run[i], i)
  /\ \A b \in Block : (\A i \in 1..Len(batch) : b # batch[i]) => headers'[b] = headers[b]

\* Depths along a batch.
BatchClimbs(p, batch) ==
  \A i \in 1..Len(batch) :
    /\ batch[i] \in Block
    /\ Depth[batch[i]] = Depth[p] + i

LEMMA ClimbLemma ==
  ASSUME HashChain, NEW batch \in Batches, NEW p \in Block, p = Prev[batch[1]]
  PROVE  BatchClimbs(p, batch)
  <1> DEFINE n == Len(batch)
             Good == {i \in 0..n : i = 0 \/ Depth[batch[i]] = Depth[p] + i}
  <1>1. n \in Nat \ {0} /\ \A i \in 1..n : batch[i] \in Block
    BY BatchShape
  <1>2. Deeper(Depth) /\ p # NoBlock /\ NoBlock \notin Block
    BY DepthOfChain, LightClientAssumption DEF LightClientAssumption
  <1>3. Depth[p] \in Nat
    BY <1>2 DEF Deeper
  <1>4. \A i \in 1..n : i > 1 => Prev[batch[i]] = batch[i - 1]
    <2>1. DOMAIN batch = 1..n
      BY BatchShape
    <2> QED
      BY <2>1 DEF Batches
  <1>5. 0 \in Good
    BY <1>1
  <1>6. ASSUME NEW i \in 1..n, i - 1 \in Good PROVE i \in Good
    <2>1. CASE i = 1
      <3>1. Depth[batch[1]] = Depth[p] + 1
        BY <1>1, <1>2 DEF Deeper
      <3> QED
        BY <1>1, <2>1, <3>1
    <2>2. CASE i > 1
      <3>1. i - 1 \in 1..n /\ Prev[batch[i]] = batch[i - 1] /\ batch[i - 1] \in Block
        BY <1>1, <1>4, <2>2
      <3>2. Depth[batch[i]] = Depth[batch[i - 1]] + 1
        BY <1>1, <1>2, <3>1 DEF Deeper
      <3>3. Depth[batch[i - 1]] = Depth[p] + (i - 1)
        BY <1>6, <3>1
      <3>4. Depth[batch[i]] = Depth[p] + i
        <4>1. i \in Int
          BY <1>1
        <4>2. \A d \in Nat, k \in Int : \A e, f : e = d + (k - 1) /\ f = e + 1 => f = d + k
          OBVIOUS
        <4> QED
          BY <1>3, <3>2, <3>3, <4>1, <4>2, Zenon
      <3> QED
        BY <3>4
    <2> QED
      BY <2>1, <2>2
  <1>7. 0..n \subseteq Good
    <2> HIDE DEF Good
    <2> QED
      BY <1>1, <1>5, <1>6, UpTo
  <1>8. ASSUME NEW i \in 1..n PROVE Depth[batch[i]] = Depth[p] + i
    <2>1. i \in Good /\ i # 0
      BY <1>7
    <2> QED
      BY <2>1
  <1> QED
    BY <1>1, <1>8 DEF BatchClimbs

LEMMA WritesLemma ==
  ASSUME HashChain, NEW batch \in Batches, NEW p \in Block, p = Prev[batch[1]], NEW run,
         headers' = HeadersAfter(p, batch, run)
  PROVE  Writes(p, batch, run)
  <1> DEFINE n == Len(batch)
             at(b) == CHOOSE i \in 1..n : batch[i] = b
  <1>1. n \in Nat \ {0} /\ BatchClimbs(p, batch)
    BY ClimbLemma, BatchShape
  <1>2. Depth[p] \in Nat
    BY DepthOfChain DEF Deeper
  <1>3. ASSUME NEW i \in 1..n PROVE at(batch[i]) = i
    <2>1. at(batch[i]) \in 1..n /\ batch[at(batch[i])] = batch[i]
      OBVIOUS
    <2> HIDE DEF at
    <2>2. Depth[p] + at(batch[i]) = Depth[p] + i
      BY <1>1, <2>1 DEF BatchClimbs
    <2> QED
      BY <1>2, <2>1, <2>2
  <1>4. headers' = [b \in Block |-> IF b \in {batch[i] : i \in 1..n}
                                      THEN EntryOf(p, b, run[at(b)], at(b)) ELSE headers[b]]
    BY DEF HeadersAfter, EntryOf
  <1> HIDE DEF at
  <1>5. ASSUME NEW i \in 1..n PROVE headers'[batch[i]] = EntryOf(p, batch[i], run[i], i)
    <2>1. batch[i] \in Block /\ batch[i] \in {batch[j] : j \in 1..n}
      BY <1>1 DEF BatchClimbs
    <2> QED
      BY <1>3, <1>4, <2>1
  <1>6. ASSUME NEW b \in Block, \A i \in 1..n : b # batch[i] PROVE headers'[b] = headers[b]
    BY <1>4, <1>6
  <1> QED
    BY <1>5, <1>6 DEF Writes

LEMMA ParentLemma ==
  ASSUME ChainInv, HashChain, RegtestOnce, NEW p, NEW batch, NEW window,
         Extends(p, batch, window)
  PROVE  /\ p \in Block /\ batch \in Batches /\ p = Prev[batch[1]]
         /\ lc # NoClient /\ lc \in Client /\ InstanceInv
         /\ Live(p)
         /\ headers[p] \in Header /\ headers[p].height \in Height
         /\ heightIndex[headers[p].height] = p
         /\ Start \in Height /\ Start <= headers[p].height
         /\ lc.genesis \in Block
         /\ Depth[p] \in Nat /\ Depth[lc.genesis] \in Nat
         /\ Depth[p] >= Depth[lc.genesis]
  <1>1. /\ p \in Block /\ headers[p] # NoHeader
        /\ batch \in Batches /\ p = Prev[batch[1]]
        /\ lc # NoClient /\ LiveParent(p) /\ heightIndex[headers[p].height] = p
    BY DEF Extends, Stored, CanonicalParent
  <1>2. lc \in Client /\ InstanceInv /\ headers[p] \in Header
    BY <1>1 DEF ChainInv, TypeOK
  <1>3. Live(p)
    <2>1. CASE lc.network = "regtest"
      <3>1. MaxEpoch = 0
        BY <1>2, <2>1 DEF RegtestOnce, InstanceInv
      <3>2. lc.epoch = 0 /\ headers[p].epoch = 0
        BY <1>2, <3>1 DEF Client, Header
      <3> QED
        BY <1>1, <3>2 DEF Live
    <2>2. CASE lc.network # "regtest"
      BY <1>1, <2>2 DEF Live, LiveParent
    <2> QED
      BY <2>1, <2>2
  <1>4. lc.genesis \in Block /\ headers[lc.genesis] \in Header
    BY <1>2 DEF InstanceInv, Live, ChainInv, TypeOK
  <1>5. headers[p].height \in Height /\ Start \in Height
    BY <1>2, <1>4 DEF Header, Start
  <1>6. Depth[p] \in Nat /\ Depth[lc.genesis] \in Nat
    BY <1>1, <1>4, DepthOfChain DEF Deeper
  <1>7. /\ headers[p].height - Start = Depth[p] - Depth[lc.genesis]
        /\ p # lc.genesis => Depth[p] > Depth[lc.genesis]
    BY <1>1, <1>2, <1>3 DEF InstanceInv, LiveWell
  <1>8. Depth[p] >= Depth[lc.genesis]
    BY <1>6, <1>7
  <1>9. Start <= headers[p].height
    <2>1. headers[p].height \in Int /\ Start \in Int
      BY <1>5 DEF Height
    <2> QED
      BY <1>6, <1>7, <1>8, <2>1
  <1> QED
    BY <1>1, <1>2, <1>3, <1>4, <1>5, <1>6, <1>8, <1>9

LEMMA EntryTypes ==
  ASSUME TypeOK, lc # NoClient, NEW batch \in Batches, NEW p, Stored(p), NEW run,
         BatchOk(p, batch, run), NEW i \in 1..Len(batch)
  PROVE  EntryOf(p, batch[i], run[i], i) \in Header
  <1>1. Len(batch) \in Nat \ {0} /\ batch[i] \in Block
    BY BatchShape
  <1>2. headers[p].height \in Height /\ headers[p].height + Len(batch) \in Height
    BY ExtendTypes
  <1>3. headers[p].height + i \in Height
    <2> DEFINE n == Len(batch)
               h == headers[p].height
    <2>1. n \in Nat /\ i \in 1..n /\ h \in 0..MaxHeight /\ h + n \in 0..MaxHeight
      BY <1>1, <1>2 DEF Height
    <2>2. MaxHeight \in Nat
      BY LightClientAssumption DEF LightClientAssumption
    <2> HIDE DEF n, h
    <2>3. h + i \in 0..MaxHeight
      BY <2>1, <2>2
    <2> QED
      BY <2>3 DEF h, Height
  <1>4. /\ run[i].work \in 0..MaxWork
        /\ run[i].epochBits \in Nat
        /\ run[i].epochStart \in Nat
    BY DEF BatchOk, RunInRange
  <1>5. Prev[batch[i]] \in Block \cup {NoBlock} /\ Time[batch[i]] \in Nat
    BY <1>1, LightClientAssumption DEF LightClientAssumption
  <1>6. lc.epoch \in 0..MaxEpoch
    BY DEF TypeOK, Client
  <1> QED
    BY <1>1, <1>3, <1>4, <1>5, <1>6 DEF EntryOf, Header

\* What a batch does to the headers of the live instance: old ones keep height, time and
\* parent, even where they are written again, and the new ones are in their place.
HeadersKept(p, batch) ==
  /\ headers'[lc.genesis] = headers[lc.genesis]
  /\ headers'[p] = headers[p]
  /\ \A b \in Block : headers'[b] # NoHeader => headers'[b].epoch <= lc.epoch
  /\ \A b \in Block : Live(b) =>
       /\ headers'[b] # NoHeader
       /\ headers'[b].epoch = lc.epoch
       /\ headers'[b].height = headers[b].height
       /\ headers'[b].time = headers[b].time
  /\ \A i \in 1..Len(batch) :
       /\ batch[i] # lc.genesis
       /\ headers'[batch[i]] # NoHeader
       /\ headers'[batch[i]].epoch = lc.epoch
       /\ headers'[batch[i]].height = headers[p].height + i
       /\ headers'[batch[i]].time = Time[batch[i]]
       /\ headers'[batch[i]].prev = Prev[batch[i]]
  /\ \A b \in Block : (\A i \in 1..Len(batch) : b # batch[i]) => headers'[b] = headers[b]

LEMMA KeptLemma ==
  ASSUME ChainInv, HashChain, RegtestOnce, NEW p, NEW batch, NEW window,
         Extends(p, batch, window), NEW run, BatchOk(p, batch, run),
         headers' = HeadersAfter(p, batch, run)
  PROVE  HeadersKept(p, batch)
  <1> DEFINE n == Len(batch)
  <1>1. /\ p \in Block /\ batch \in Batches /\ p = Prev[batch[1]]
        /\ lc # NoClient /\ lc \in Client /\ InstanceInv
        /\ Live(p)
        /\ headers[p] \in Header /\ headers[p].height \in Height
        /\ Start \in Height
        /\ lc.genesis \in Block
        /\ Depth[p] \in Nat /\ Depth[lc.genesis] \in Nat
        /\ Depth[p] >= Depth[lc.genesis]
    BY ParentLemma
  <1>2. BatchClimbs(p, batch) /\ Writes(p, batch, run)
    BY <1>1, ClimbLemma, WritesLemma
  <1>3. n \in Nat \ {0}
    BY <1>1, BatchShape
  <1>4. ASSUME NEW i \in 1..n
        PROVE  /\ batch[i] \in Block /\ batch[i] # lc.genesis /\ batch[i] # p
               /\ Depth[batch[i]] = Depth[p] + i
    BY <1>1, <1>2, <1>3 DEF BatchClimbs
  <1>5. ASSUME NEW i \in 1..n
        PROVE  /\ headers'[batch[i]].epoch = lc.epoch
               /\ headers'[batch[i]].height = headers[p].height + i
               /\ headers'[batch[i]].time = Time[batch[i]]
               /\ headers'[batch[i]].prev = Prev[batch[i]]
    <2> DEFINE new == headers'[batch[i]]
    <2>1. new = EntryOf(p, batch[i], run[i], i)
      BY <1>2 DEF Writes
    <2> HIDE DEF new
    <2>2. /\ new.epoch = lc.epoch
          /\ new.height = headers[p].height + i
          /\ new.time = Time[batch[i]]
          /\ new.prev = Prev[batch[i]]
      BY <2>1 DEF EntryOf
    <2> QED
      BY <2>2 DEF new
  <1>6. ASSUME NEW i \in 1..n PROVE headers'[batch[i]] # NoHeader
    <2>1. headers'[batch[i]] = EntryOf(p, batch[i], run[i], i)
      BY <1>2 DEF Writes
    <2>2. headers'[batch[i]] \in Header
      BY <2>1, <1>1, EntryTypes DEF ChainInv, Live, Stored
    <2> QED
      BY <2>2, NoHeaderAssumption
  <1>7. ASSUME NEW b \in Block, Live(b)
        PROVE  /\ headers'[b] # NoHeader
               /\ headers'[b].epoch = lc.epoch
               /\ headers'[b].height = headers[b].height
               /\ headers'[b].time = headers[b].time
    <2>1. CASE \E i \in 1..n : b = batch[i]
      <3>1. PICK i \in 1..n : b = batch[i]
        BY <2>1
      <3>2. /\ headers[b].height - Start = Depth[b] - Depth[lc.genesis]
            /\ headers[b].time = Time[b]
        BY <1>1, <1>4, <1>7, <3>1 DEF InstanceInv, LiveWell
      <3>3. headers[p].height - Start = Depth[p] - Depth[lc.genesis]
        BY <1>1 DEF InstanceInv, LiveWell
      <3>4. headers[b].height = headers[p].height + i
        <4>1. /\ headers[b].height \in Int /\ headers[p].height \in Int /\ Start \in Int
              /\ i \in Int
          BY <1>1, <1>3, <1>7 DEF Live, ChainInv, TypeOK, Header, Height
        <4>2. Depth[b] = Depth[p] + i
          BY <1>4, <3>1
        <4> DEFINE hb == headers[b].height
                   hp == headers[p].height
                   db == Depth[b]
                   dp == Depth[p]
                   dg == Depth[lc.genesis]
        <4>3. /\ hb \in Int /\ hp \in Int /\ Start \in Int /\ dp \in Int /\ dg \in Int
              /\ i \in Int /\ db = dp + i /\ hb - Start = db - dg /\ hp - Start = dp - dg
          BY <1>1, <3>2, <3>3, <4>1, <4>2
        <4> HIDE DEF hb, hp, db, dp, dg
        <4>4. hb = hp + i
          BY <4>3
        <4> QED
          BY <4>4 DEF hb, hp
      <3> QED
        BY <1>5, <1>6, <3>1, <3>2, <3>4
    <2>2. CASE \A i \in 1..n : b # batch[i]
      BY <1>2, <1>7, <2>2 DEF Writes, Live
    <2> QED
      BY <2>1, <2>2
  <1>8. ASSUME NEW b \in Block, headers'[b] # NoHeader PROVE headers'[b].epoch <= lc.epoch
    <2>1. lc.epoch \in Int
      BY <1>1 DEF Client
    <2>2. CASE \E i \in 1..n : b = batch[i]
      BY <1>5, <2>1, <2>2
    <2>3. CASE \A i \in 1..n : b # batch[i]
      BY <1>1, <1>2, <1>8, <2>3 DEF Writes, InstanceInv
    <2> QED
      BY <2>2, <2>3
  <1>9. headers'[lc.genesis] = headers[lc.genesis] /\ headers'[p] = headers[p]
    BY <1>1, <1>2, <1>4 DEF Writes
  <1>10. \A b \in Block : (\A i \in 1..n : b # batch[i]) => headers'[b] = headers[b]
    BY <1>2 DEF Writes
  <1> QED
    BY <1>4, <1>5, <1>6, <1>7, <1>8, <1>9, <1>10 DEF HeadersKept

LEMMA LiveWellKept ==
  ASSUME ChainInv, HashChain, RegtestOnce, NEW p, NEW batch, NEW window,
         Extends(p, batch, window), HeadersKept(p, batch),
         lc'.genesis = lc.genesis, lc'.epoch = lc.epoch
  PROVE  Start' = Start /\ LiveWell'
  <1> DEFINE n == Len(batch)
             g == lc.genesis
  <1>1. /\ p \in Block /\ batch \in Batches /\ p = Prev[batch[1]]
        /\ InstanceInv /\ Live(p)
        /\ headers[p].height \in Height /\ Start \in Height
        /\ Depth[p] \in Nat /\ Depth[g] \in Nat /\ Depth[p] >= Depth[g]
    BY ParentLemma
  <1>2. BatchClimbs(p, batch) /\ n \in Nat
    BY <1>1, ClimbLemma, BatchShape
  <1>3. Start' = Start
    BY DEF HeadersKept, Start
  <1>4. ASSUME NEW b \in Block, Live(b)'
        PROVE  /\ headers'[b].height - Start = Depth[b] - Depth[g]
               /\ b # g =>
                    /\ Depth[b] > Depth[g]
                    /\ headers'[b].time = Time[b]
                    /\ headers'[b].prev = Prev[b]
    <2>1. CASE \E i \in 1..n : b = batch[i]
      <3>1. PICK i \in 1..n : b = batch[i]
        BY <2>1
      <3>2. /\ Depth[b] = Depth[p] + i
            /\ headers'[b].height = headers[p].height + i
            /\ headers'[b].time = Time[b] /\ headers'[b].prev = Prev[b]
        BY <1>2, <3>1 DEF BatchClimbs, HeadersKept
      <3>3. headers[p].height - Start = Depth[p] - Depth[g]
        BY <1>1 DEF InstanceInv, LiveWell
      <3> DEFINE hb == headers'[b].height
                 hp == headers[p].height
                 db == Depth[b]
                 dp == Depth[p]
                 dg == Depth[g]
      <3>4. /\ hp \in Int /\ Start \in Int /\ dp \in Int /\ dg \in Int /\ dp >= dg
            /\ i \in Int /\ i > 0 /\ db = dp + i /\ hb = hp + i /\ hp - Start = dp - dg
        BY <1>1, <1>2, <3>2, <3>3 DEF Height
      <3> HIDE DEF hb, hp, db, dp, dg
      <3>5. hb - Start = db - dg /\ db > dg
        BY <3>4
      <3> QED
        BY <3>2, <3>5 DEF hb, db, dg
    <2>2. CASE \A i \in 1..n : b # batch[i]
      <3>1. headers'[b] = headers[b]
        BY <2>2 DEF HeadersKept
      <3>2. Live(b)
        BY <1>4, <3>1 DEF Live
      <3> QED
        BY <1>1, <3>1, <3>2 DEF InstanceInv, LiveWell
    <2> QED
      BY <2>1, <2>2
  <1> QED
    BY <1>3, <1>4 DEF LiveWell

\* A batch that is only stored leaves the chain as it is.
LEMMA ForkKeepsChain ==
  ASSUME ChainInv, TypeOK', HashChain, RegtestOnce, NEW p, NEW batch, NEW window,
         Extends(p, batch, window), HeadersKept(p, batch), UNCHANGED <<lc, heightIndex>>
  PROVE  ChainInv'
  <1>1. lc # NoClient /\ InstanceInv /\ Live(lc.genesis) /\ lc.genesis \in Block
    BY ParentLemma DEF InstanceInv
  <1>2. Start' = Start /\ LiveWell'
    BY LiveWellKept
  <1>3. CanonLive'
    <2>1. ASSUME NEW h \in Start..lc.height
          PROVE  /\ Live(heightIndex[h])'
                 /\ headers'[heightIndex[h]].height = h
      <3>1. Live(heightIndex[h]) /\ headers[heightIndex[h]].height = h
        BY <1>1 DEF InstanceInv, CanonLive
      <3> QED
        BY <3>1 DEF HeadersKept, Live
    <2> QED
      BY <1>2, <2>1 DEF CanonLive
  <1>4. InstanceInv'
    BY <1>1, <1>2, <1>3 DEF InstanceInv, HeadersKept, Live
  <1>5. IndexIsAncestry'
    <2>1. headers'[lc'.genesis].height = headers[lc.genesis].height
      BY <1>2 DEF Start
    <2> QED
      BY <2>1 DEF ChainInv, IndexIsAncestry
  <1> QED
    BY <1>1, <1>4, <1>5 DEF ChainInv

\* A promoted batch whose parent is not above the tip replaces the chain from its
\* parent on.
LEMMA PromotionKeepsChain ==
  ASSUME ChainInv, TypeOK', HashChain, RegtestOnce, NEW p, NEW batch, NEW window,
         Extends(p, batch, window), HeadersKept(p, batch),
         headers[p].height <= lc.height, headers[p].height + Len(batch) \in Height,
         heightIndex' = IndexAfter(p, batch),
         lc' \in Client,
         lc'.genesis = lc.genesis, lc'.epoch = lc.epoch, lc'.network = lc.network,
         lc'.height = headers[p].height + Len(batch), lc'.tip = batch[Len(batch)]
  PROVE  ChainInv'
  <1> DEFINE n == Len(batch)
             hp == headers[p].height
  <1>1. /\ p \in Block /\ batch \in Batches /\ p = Prev[batch[1]]
        /\ lc # NoClient /\ InstanceInv /\ Live(p)
        /\ hp \in Height /\ Start \in Height /\ Start <= hp
        /\ heightIndex[hp] = p /\ lc.genesis \in Block
    BY ParentLemma
  <1>2. n \in Nat \ {0} /\ MaxHeight \in Nat /\ \A i \in 1..n : batch[i] \in Block
    BY <1>1, BatchShape, LightClientAssumption DEF LightClientAssumption
  <1>3. Start' = Start /\ LiveWell'
    BY LiveWellKept
  <1>4. lc.height \in Height /\ hp + n \in Height
    BY <1>1 DEF ChainInv, TypeOK, Client
  <1>5. ASSUME NEW h \in Height
        PROVE  /\ h <= hp => heightIndex'[h] = heightIndex[h]
               /\ h > hp /\ h <= hp + n => heightIndex'[h] = batch[h - hp] /\ h - hp \in 1..n
    <2>1. hp \in Int /\ h \in Int
      BY <1>1 DEF Height
    <2>2. heightIndex'[h] = IF h \in (hp + 1)..(hp + n) THEN batch[h - hp] ELSE heightIndex[h]
      BY DEF IndexAfter
    <2> HIDE DEF hp, n
    <2> QED
      BY <1>2, <2>1, <2>2
  <1>6. CanonLive'
    <2>1. ASSUME NEW h \in Start..(hp + n)
          PROVE  Live(heightIndex[h])' /\ headers'[heightIndex'[h]].height = h
      <3>1. h \in Height /\ h \in Int /\ hp \in Int /\ lc.height \in Int /\ Start \in Int
        BY <1>1, <1>2, <1>4, <2>1 DEF Height
      <3>2. CASE h <= hp
        <4>1. h \in Start..lc.height
          <5> HIDE DEF hp, n
          <5> QED
            BY <2>1, <3>1, <3>2 DEF hp
        <4>2. Live(heightIndex[h]) /\ headers[heightIndex[h]].height = h
          BY <1>1, <4>1 DEF InstanceInv, CanonLive
        <4>3. heightIndex'[h] = heightIndex[h]
          BY <1>5, <3>1, <3>2
        <4> QED
          BY <4>2, <4>3 DEF HeadersKept, Live
      <3>3. CASE h > hp
        <4>1. h <= hp + n
          <5> HIDE DEF hp, n
          <5> QED
            BY <1>2, <2>1, <3>1
        <4>2. heightIndex'[h] = batch[h - hp] /\ h - hp \in 1..n
          BY <1>5, <3>1, <3>3, <4>1
        <4>3. hp + (h - hp) = h
          <5> HIDE DEF hp
          <5> QED
            BY <3>1
        <4>4. /\ headers'[batch[h - hp]].height = h
              /\ headers'[batch[h - hp]] # NoHeader
              /\ headers'[batch[h - hp]].epoch = lc.epoch
              /\ batch[h - hp] \in Block
          BY <1>2, <4>2, <4>3 DEF HeadersKept
        <4> HIDE DEF hp, n
        <4> QED
          BY <4>2, <4>4 DEF Live
      <3> QED
        BY <3>1, <3>2, <3>3
    <2> QED
      BY <1>3, <2>1 DEF CanonLive
  <1>7. Start' <= lc'.height
    <2>1. hp \in Int /\ Start \in Int
      BY <1>1 DEF Height
    <2>2. lc'.height = hp + n
      OBVIOUS
    <2> HIDE DEF hp, n
    <2> QED
      BY <1>1, <1>2, <1>3, <2>1, <2>2
  <1>8. InstanceInv'
    BY <1>1, <1>3, <1>6, <1>7 DEF InstanceInv, HeadersKept, Live
  <1>9. IndexIsAncestry'
    <2>1. hp \in Int /\ Start \in Int /\ lc.height \in Int /\ hp <= lc.height
      BY <1>1, <1>4 DEF Height
    <2>2. /\ heightIndex[Start] = lc.genesis
          /\ \A h \in (Start + 1)..lc.height :
               heightIndex[h] # NoBlock /\ Prev[heightIndex[h]] = heightIndex[h - 1]
      BY <1>1 DEF ChainInv, IndexIsAncestry, Start
    <2>3. heightIndex'[Start] = lc.genesis
      BY <1>1, <1>5, <2>2
    <2>4. heightIndex'[hp + n] = batch[n]
      <3>1. hp + n > hp /\ hp + n <= hp + n /\ (hp + n) - hp = n
        <4> HIDE DEF hp, n
        <4> QED
          BY <1>2, <2>1
      <3> QED
        BY <1>4, <1>5, <3>1
    <2>5. ASSUME NEW h \in (Start + 1)..(hp + n)
          PROVE  heightIndex'[h] # NoBlock /\ Prev[heightIndex'[h]] = heightIndex'[h - 1]
      <3>1. h \in Height /\ h - 1 \in Height /\ h \in Int
        <4>1. Start \in 0..MaxHeight /\ hp + n \in 0..MaxHeight
          BY <1>1, <1>4 DEF Height
        <4>2. h \in 0..MaxHeight /\ h - 1 \in 0..MaxHeight
          <5> HIDE DEF hp, n
          <5> QED
            BY <1>2, <2>5, <4>1
        <4> QED
          BY <1>2, <4>2 DEF Height
      <3>2. CASE h <= hp
        <4>1. h \in (Start + 1)..lc.height /\ h - 1 <= hp
          <5> HIDE DEF hp, n
          <5> QED
            BY <2>1, <2>5, <3>1, <3>2
        <4> QED
          BY <1>5, <2>2, <3>1, <3>2, <4>1
      <3>3. CASE h = hp + 1
        <4>1. h > hp /\ h <= hp + n /\ h - hp = 1 /\ h - 1 <= hp /\ h - 1 = hp
          <5> HIDE DEF hp, n
          <5> QED
            BY <1>2, <2>1, <3>3
        <4>2. heightIndex'[h] = batch[1] /\ 1 \in 1..n
          BY <1>5, <3>1, <4>1
        <4>3. heightIndex'[h - 1] = p
          BY <1>1, <1>5, <3>1, <4>1
        <4>4. batch[1] # NoBlock
          BY <1>2, <4>2, LightClientAssumption DEF LightClientAssumption
        <4> QED
          BY <1>1, <4>2, <4>3, <4>4
      <3>4. CASE h > hp + 1
        <4> DEFINE i == h - hp
        <4>1. /\ h > hp /\ h <= hp + n /\ h - 1 > hp /\ h - 1 <= hp + n
              /\ (h - 1) - hp = i - 1 /\ i > 1
          <5> HIDE DEF hp, n
          <5> QED
            BY <1>2, <2>1, <2>5, <3>1, <3>4
        <4>2. heightIndex'[h] = batch[i] /\ i \in 1..n
          BY <1>5, <3>1, <4>1
        <4>3. heightIndex'[h - 1] = batch[i - 1]
          BY <1>5, <3>1, <4>1
        <4>4. batch[i] # NoBlock
          BY <1>2, <4>2, LightClientAssumption DEF LightClientAssumption
        <4>5. Prev[batch[i]] = batch[i - 1]
          <5>1. DOMAIN batch = 1..n
            BY <1>1, BatchShape
          <5> HIDE DEF i, hp
          <5> QED
            BY <1>1, <4>1, <4>2, <5>1 DEF Batches
        <4> QED
          BY <4>2, <4>3, <4>4, <4>5
      <3> QED
        <4> HIDE DEF hp, n
        <4> QED
          BY <2>1, <3>1, <3>2, <3>3, <3>4
    <2> QED
      BY <1>3, <2>3, <2>4, <2>5 DEF IndexIsAncestry, Start
  <1> QED
    BY <1>8, <1>9, NoClientAssumption DEF ChainInv

\* An accepted batch, with its parent and the locals of the loop.
LEMMA ExtendUnpacked ==
  ASSUME TypeOK, ExtendBlockchain
  PROVE  \E batch \in Batches : \E window \in MtpWindows(Prev[batch[1]]) :
           LET p == Prev[batch[1]]
               run == RunOf(p, batch, window)
           IN  /\ Extends(p, batch, window)
               /\ BatchOk(p, batch, run)
               /\ headers' = HeadersAfter(p, batch, run)
               /\ headers[p].height + Len(batch) \in Height
               /\ lc \in Client
               /\ \/ ExtendFork(p, batch, window)
                  \/ ExtendCanonical(p, batch, window)
  <1>1. PICK batch \in Batches :
          LET p == Prev[batch[1]]
          IN  /\ Stored(p) /\ LiveParent(p) /\ CanonicalParent(p)
              /\ \E window \in MtpWindows(p) :
                   \/ ExtendCanonical(p, batch, window)
                   \/ ExtendFork(p, batch, window)
    BY DEF ExtendBlockchain
  <1> DEFINE p == Prev[batch[1]]
  <1>2. PICK window \in MtpWindows(p) :
          ExtendCanonical(p, batch, window) \/ ExtendFork(p, batch, window)
    BY <1>1
  <1> DEFINE run == RunOf(p, batch, window)
  <1>3. lc # NoClient /\ lc \in Client
    BY DEF ExtendBlockchain, TypeOK
  <1>4. Extends(p, batch, window)
    BY <1>1, <1>2, <1>3 DEF Extends
  <1>5. BatchOk(p, batch, run) /\ headers' = HeadersAfter(p, batch, run)
    <2> HIDE DEF p
    <2> QED
      BY <1>2 DEF ExtendCanonical, ExtendFork
  <1> HIDE DEF run
  <1>6. headers[p].height + Len(batch) \in Height
    BY <1>1, <1>3, <1>5, ExtendTypes
  <1> QED
    BY <1>2, <1>3, <1>4, <1>5, <1>6 DEF run

LEMMA ExtendKeepsChain ==
  ASSUME ChainInv, HashChain, RegtestOnce, ExtendBlockchain, ~StalePromotion
  PROVE  ChainInv'
  <1>0. TypeOK /\ TypeOK' /\ lc' \in Client
    BY ExtendKeepsTypes DEF ChainInv
  <1>1. PICK batch \in Batches : \E window \in MtpWindows(Prev[batch[1]]) :
          LET p == Prev[batch[1]]
              run == RunOf(p, batch, window)
          IN  /\ Extends(p, batch, window)
              /\ BatchOk(p, batch, run)
              /\ headers' = HeadersAfter(p, batch, run)
              /\ headers[p].height + Len(batch) \in Height
              /\ lc \in Client
              /\ \/ ExtendFork(p, batch, window)
                 \/ ExtendCanonical(p, batch, window)
    BY <1>0, ExtendUnpacked
  <1> DEFINE p == Prev[batch[1]]
  <1>2. PICK window \in MtpWindows(p) :
          /\ Extends(p, batch, window)
          /\ BatchOk(p, batch, RunOf(p, batch, window))
          /\ headers' = HeadersAfter(p, batch, RunOf(p, batch, window))
          /\ headers[p].height + Len(batch) \in Height
          /\ lc \in Client
          /\ \/ ExtendFork(p, batch, window)
             \/ ExtendCanonical(p, batch, window)
    BY <1>1
  <1> DEFINE run == RunOf(p, batch, window)
  <1>3. HeadersKept(p, batch)
    <2> HIDE DEF p
    <2> QED
      BY <1>2, KeptLemma
  <1>4. CASE ExtendFork(p, batch, window)
    <2>1. UNCHANGED <<lc, heightIndex>>
      BY <1>4 DEF ExtendFork
    <2> HIDE DEF p
    <2> QED
      BY <1>0, <1>2, <1>3, <2>1, ForkKeepsChain
  <1>5. CASE ExtendCanonical(p, batch, window)
    <2>1. headers[p].height <= lc.height
      <3>1. ~(headers[p].height > lc.height)
        BY <1>2, <1>5 DEF StalePromotion
      <3>2. headers[p].height \in Height /\ lc.height \in Height
        <4> HIDE DEF p
        <4> QED
          BY <1>2, ParentLemma DEF Client
      <3> HIDE DEF p
      <3> QED
        BY <3>1, <3>2 DEF Height
    <2>2. /\ heightIndex' = IndexAfter(p, batch)
          /\ lc'.genesis = lc.genesis /\ lc'.epoch = lc.epoch /\ lc'.network = lc.network
          /\ lc'.height = headers[p].height + Len(batch) /\ lc'.tip = batch[Len(batch)]
      <3> HIDE DEF p
      <3> QED
        BY <1>2, <1>5 DEF ExtendCanonical, Client
    <2> HIDE DEF p
    <2> QED
      BY <1>0, <1>2, <1>3, <2>1, <2>2, PromotionKeepsChain
  <1> QED
    BY <1>2, <1>4, <1>5

\* A chain instance starts with its anchor alone.
LEMMA FreshChain ==
  ASSUME TypeOK, TypeOK', HashChain, NEW a \in Anchors, NEW e \in 0..MaxEpoch,
         NEW q \in Block \cup {NoBlock},
         lc' = FreshClient(a, e),
         headers' = [headers EXCEPT ![a.hash] = AnchorHeader(a, q, e)],
         heightIndex' = [heightIndex EXCEPT ![a.height] = a.hash],
         \A b \in Block : headers[b] # NoHeader => headers[b].epoch < e
  PROVE  ChainInv'
  <1>1. /\ lc' \in Client /\ lc' # NoClient
        /\ AnchorHeader(a, q, e) \in Header /\ AnchorHeader(a, q, e) # NoHeader
        /\ a.hash \in Block /\ a.height \in Height
    BY FreshTypes, NoClientAssumption, NoHeaderAssumption
  <1>2. /\ lc'.genesis = a.hash /\ lc'.tip = a.hash /\ lc'.height = a.height
        /\ lc'.epoch = e /\ lc'.network = a.network
    BY DEF FreshClient
  <1>3. /\ headers'[a.hash] # NoHeader /\ headers'[a.hash].epoch = e
        /\ headers'[a.hash].height = a.height
        /\ \A b \in Block \ {a.hash} : headers'[b] = headers[b]
    BY <1>1 DEF AnchorHeader, TypeOK
  <1>4. heightIndex'[a.height] = a.hash
    BY <1>1 DEF TypeOK
  <1>5. Start' = a.height
    BY <1>2, <1>3 DEF Start
  <1>6. e \in Int /\ \A b \in Block : headers[b] # NoHeader => headers[b].epoch \in Int
    BY DEF TypeOK, Header
  <1>7. \A b \in Block : headers'[b] # NoHeader => headers'[b].epoch <= e
    BY <1>3, <1>6
  <1>8. ASSUME NEW b \in Block, Live(b)' PROVE b = a.hash
    BY <1>2, <1>3, <1>6, <1>8 DEF Live
  <1>9. LiveWell'
    <2>1. a.height \in Int /\ Depth[a.hash] \in Int
      BY <1>1, DepthOfChain DEF Height, Deeper
    <2> QED
      BY <1>2, <1>3, <1>5, <1>8, <2>1 DEF LiveWell
  <1>10. \A h \in a.height..a.height : h = a.height
    BY <1>1 DEF Height
  <1>11. CanonLive'
    BY <1>1, <1>2, <1>3, <1>4, <1>5, <1>10 DEF CanonLive, Live
  <1>12. InstanceInv'
    BY <1>1, <1>2, <1>3, <1>5, <1>7, <1>9, <1>11 DEF InstanceInv, Live, Height
  <1>13. IndexIsAncestry'
    <2>1. (a.height + 1)..a.height = {}
      BY <1>1 DEF Height
    <2> QED
      BY <1>2, <1>3, <1>4, <2>1 DEF IndexIsAncestry
  <1> QED
    BY <1>1, <1>12, <1>13 DEF ChainInv

LEMMA PruneKeepsChain ==
  ASSUME ChainInv, TypeOK', NEW c \in Block, PruneObsoleteBlock(c)
  PROVE  ChainInv'
  <1>1. /\ lc # NoClient /\ InstanceInv /\ lc \in Client
        /\ heightIndex[headers[c].height] # c
        /\ headers'[c] = NoHeader
        /\ \A b \in Block \ {c} : headers'[b] = headers[b]
        /\ UNCHANGED <<lc, heightIndex>>
    BY DEF PruneObsoleteBlock, ChainInv, TypeOK
  <1>2. /\ heightIndex[Start] = lc.genesis
        /\ Live(lc.genesis)
    BY <1>1 DEF ChainInv, IndexIsAncestry, InstanceInv, Start
  <1>3. lc.genesis # c /\ lc.genesis \in Block
    BY <1>1, <1>2 DEF Start, Live
  <1>4. Start' = Start /\ headers'[lc.genesis] = headers[lc.genesis]
    BY <1>1, <1>3 DEF Start
  <1>5. ASSUME NEW b \in Block, Live(b)' PROVE Live(b) /\ headers'[b] = headers[b]
    BY <1>1, <1>5 DEF Live
  <1>6. LiveWell'
    BY <1>1, <1>4, <1>5 DEF LiveWell, InstanceInv
  <1>7. CanonLive'
    <2>1. ASSUME NEW h \in Start..lc.height
          PROVE  Live(heightIndex[h])' /\ headers'[heightIndex[h]].height = h
      <3>1. Live(heightIndex[h]) /\ headers[heightIndex[h]].height = h
        BY <1>1 DEF InstanceInv, CanonLive
      <3>2. heightIndex[h] # c /\ heightIndex[h] \in Block
        BY <1>1, <3>1 DEF Live
      <3> QED
        BY <1>1, <3>1, <3>2 DEF Live
    <2> QED
      BY <1>1, <1>4, <2>1 DEF CanonLive
  <1>8. InstanceInv'
    <2>1. \A b \in Block : headers'[b] # NoHeader => headers'[b].epoch <= lc.epoch
      BY <1>1 DEF InstanceInv
    <2> QED
      BY <1>1, <1>2, <1>3, <1>4, <1>6, <1>7, <2>1 DEF InstanceInv, Live
  <1>9. IndexIsAncestry'
    BY <1>1, <1>4 DEF ChainInv, IndexIsAncestry
  <1> QED
    BY <1>1, <1>8, <1>9 DEF ChainInv

LEMMA NextKeepsChain ==
  ASSUME HashChain, RegtestOnce
  PROVE  ChainInv /\ [Next]_vars /\ [~StalePromotion]_vars => ChainInv'
  <1> SUFFICES ASSUME ChainInv, [Next]_vars, [~StalePromotion]_vars PROVE ChainInv'
    OBVIOUS
  <1>0. TypeOK /\ TypeOK'
    BY NextKeepsTypes DEF ChainInv
  <1>u. ASSUME UNCHANGED <<lc, headers, heightIndex>> PROVE ChainInv'
    BY <1>0, <1>u
    DEF ChainInv, InstanceInv, LiveWell, CanonLive, Live, Start, IndexIsAncestry
  <1>1. ASSUME NEW a \in Anchors, Initialize(a) PROVE ChainInv'
    <2>1. \A b \in Block : headers[b] = NoHeader
      BY <1>1 DEF Initialize, ChainInv
    <2>2. 0 \in 0..MaxEpoch
      BY LightClientAssumption DEF LightClientAssumption
    <2> QED
      BY <1>0, <1>1, <2>1, <2>2, FreshChain DEF Initialize
  <1>2. ASSUME NEW a \in Anchors, Reinitialize(a) PROVE ChainInv'
    <2>1. lc # NoClient /\ lc \in Client /\ InstanceInv /\ lc.epoch < MaxEpoch
      BY <1>2 DEF Reinitialize, ChainInv, TypeOK
    <2>2. lc.epoch + 1 \in 0..MaxEpoch /\ lc.epoch \in Int
      BY <2>1, LightClientAssumption DEF Client, LightClientAssumption
    <2>3. \A b \in Block : headers[b] # NoHeader => headers[b].epoch < lc.epoch + 1
      <3>1. \A b \in Block : headers[b] # NoHeader => headers[b].epoch \in Int
        BY <1>0 DEF TypeOK, Header
      <3> QED
        BY <2>1, <2>2, <3>1 DEF InstanceInv
    <2>4. a.prev \in Block \cup {NoBlock}
      BY <2>2, FreshTypes
    <2> DEFINE e == lc.epoch + 1
    <2>5. /\ e \in 0..MaxEpoch
          /\ lc' = FreshClient(a, e)
          /\ headers' = [headers EXCEPT ![a.hash] = AnchorHeader(a, a.prev, e)]
          /\ heightIndex' = [heightIndex EXCEPT ![a.height] = a.hash]
          /\ \A b \in Block : headers[b] # NoHeader => headers[b].epoch < e
      BY <1>2, <2>2, <2>3 DEF Reinitialize
    <2> HIDE DEF e
    <2> QED
      BY <1>0, <2>4, <2>5, FreshChain
  <1>3. ASSUME NEW b \in Block, NEW tx \in Tx, VerifyTransaction(b, tx) PROVE ChainInv'
    BY <1>3, <1>u DEF VerifyTransaction
  <1>4. ASSUME NEW b \in Block, PruneObsoleteBlock(b) PROVE ChainInv'
    BY <1>0, <1>4, PruneKeepsChain
  <1>5. CASE Tick
    BY <1>5, <1>u DEF Tick
  <1>6. CASE UNCHANGED vars
    BY <1>6, <1>u DEF vars
  <1>7. CASE ExtendBlockchain /\ ~StalePromotion
    BY <1>7, ExtendKeepsChain
  <1> QED
    BY <1>1, <1>2, <1>3, <1>4, <1>5, <1>6, <1>7 DEF Next

\* The canonical chain breaks in one way only: as long as no batch is promoted whose
\* parent lies above the tip, the index from anchor to tip is the tip's ancestry,
\* whatever forks, reorganizations, prunes and reinitializations happen
\* (extend_blockchain's canonical-parent rule and its reindexing of the batch).
THEOREM AncestryUnlessStale ==
  ASSUME HashChain, RegtestOnce
  PROVE  Spec /\ [][~StalePromotion]_vars => []IndexIsAncestry
  <1>1. Init => ChainInv
    BY LightClientAssumption
    DEF Init, ChainInv, TypeOK, Height, IndexIsAncestry, LightClientAssumption
  <1>2. ChainInv => IndexIsAncestry
    BY DEF ChainInv
  <1> QED
    BY <1>1, <1>2, NextKeepsChain, PTL DEF Spec

-----------------------------------------------------------------------------
(* Blocks of one work *)

\* Within a difficulty period every block is worth the same.
WorkEach(w) == w \in Nat \ {0} /\ \A b \in Block : CalculateChainwork(Bits[b]) = w

\* A live header's work counts the blocks below it, and none has more than the tip.
WorkInv(w) ==
  lc # NoClient =>
    /\ lc.work = (lc.height - Start) * w
    /\ \A b \in Block : Live(b) =>
         headers[b].work = (headers[b].height - Start) * w /\ headers[b].work <= lc.work

LEMMA MoreBlocksMoreWork ==
  ASSUME NEW w \in Nat \ {0}, NEW j \in Int, NEW k \in Int
  PROVE  /\ j * w \in Int
         /\ (j + k) * w = j * w + k * w
         /\ j * w <= k * w => j <= k
         /\ j <= k => j * w <= k * w
  <1>1. j > k => (j - k) * w > 0
    OBVIOUS
  <1>2. j <= k => (k - j) * w >= 0
    OBVIOUS
  <1>3. (j - k) * w = j * w - k * w /\ (k - j) * w = k * w - j * w
    OBVIOUS
  <1> QED
    BY <1>1, <1>2, <1>3

\* No live header lies above the tip, so no parent does.
LEMMA NoneStale ==
  ASSUME NEW w, WorkEach(w), HashChain, RegtestOnce, ChainInv, WorkInv(w)
  PROVE  ~StalePromotion
  <1> SUFFICES ASSUME NEW batch \in Batches, NEW window \in MtpWindows(Prev[batch[1]]),
                      Extends(Prev[batch[1]], batch, window),
                      headers[Prev[batch[1]]].height > lc.height
               PROVE  FALSE
    BY DEF StalePromotion
  <1> DEFINE p == Prev[batch[1]]
             hp == headers[p].height
  <1>1. /\ lc # NoClient /\ lc \in Client /\ Live(p) /\ p \in Block
        /\ hp \in Height /\ Start \in Height
    <2> HIDE DEF p
    <2> QED
      BY ParentLemma DEF p
  <1>2. (hp - Start) * w <= (lc.height - Start) * w
    <2> HIDE DEF p
    <2> QED
      BY <1>1 DEF WorkInv
  <1>3. hp \in Int /\ Start \in Int /\ lc.height \in Int /\ hp > lc.height
    BY <1>1 DEF Height, Client
  <1>4. hp - Start <= lc.height - Start
    <2>1. hp - Start \in Int /\ lc.height - Start \in Int /\ w \in Nat \ {0}
      BY <1>3 DEF WorkEach
    <2> HIDE DEF hp
    <2> QED
      BY <1>2, <2>1, MoreBlocksMoreWork
  <1> HIDE DEF hp
  <1> QED
    BY <1>3, <1>4

\* The fields of the locals after one more header.
LEMMA AdvanceFields ==
  ASSUME NEW r, NEW b, NEW height
  PROVE  /\ Advance(r, b, height).work = r.work + CalculateChainwork(Bits[b])
         /\ Advance(r, b, height).time = Time[b]
         /\ Advance(r, b, height).window =
              IF Enforced(lc.network) THEN Slide(r.window, Time[b], MtpWidth) ELSE <<>>
         /\ Advance(r, b, height).epochBits =
              IF Enforced(lc.network) /\ height % BlocksPerEpoch = 0
                THEN Bits[b] ELSE r.epochBits
         /\ Advance(r, b, height).epochStart =
              IF Enforced(lc.network) /\ height % BlocksPerEpoch = 0
                THEN Time[b] ELSE r.epochStart
  BY DEF Advance

\* The loop adds the same work for every header.
LEMMA RunWork ==
  ASSUME NEW w, WorkEach(w), NEW p, NEW batch \in Batches, NEW window,
         headers[p].work \in Int
  PROVE  \A i \in 0..Len(batch) :
           RunOf(p, batch, window)[i].work = headers[p].work + i * w
  <1> DEFINE n == Len(batch)
             run == RunOf(p, batch, window)
             base == headers[p].work
             Good == {i \in 0..n : run[i].work = base + i * w}
  <1>1. n \in Nat /\ \A i \in 1..n : batch[i] \in Block
    BY BatchShape
  <1>2. /\ run[0] = StartRun(p, window)
        /\ \A i \in 1..n : run[i] = Advance(run[i - 1], batch[i], headers[p].height + i)
    BY RunSteps
  <1> HIDE DEF run
  <1>3. run[0].work = base
    BY <1>2 DEF StartRun
  <1>4. \A i \in 1..n : run[i].work = run[i - 1].work + w
    BY <1>1, <1>2, AdvanceFields DEF WorkEach
  <1>5. w \in Nat /\ base \in Int
    BY DEF WorkEach
  <1> HIDE DEF base, n
  <1>6. 0 \in Good
    <2>1. base + 0 * w = base /\ 0 \in 0..n
      BY <1>1, <1>5
    <2> QED
      BY <1>3, <2>1
  <1>7. ASSUME NEW i \in 1..n, i - 1 \in Good PROVE i \in Good
    <2>1. run[i - 1].work = base + (i - 1) * w
      BY <1>7
    <2>2. (base + (i - 1) * w) + w = base + i * w
      BY <1>1, <1>5
    <2> QED
      BY <1>1, <1>4, <2>1, <2>2
  <1>8. 0..n \subseteq Good
    <2> HIDE DEF Good
    <2> QED
      BY <1>1, <1>6, <1>7, UpTo
  <1> QED
    BY <1>8 DEF run, base, n

LEMMA ExtendKeepsWork ==
  ASSUME NEW w, WorkEach(w), HashChain, RegtestOnce, ChainInv, ChainInv', WorkInv(w),
         ExtendBlockchain
  PROVE  WorkInv(w)'
  <1>0. TypeOK /\ TypeOK' /\ lc' \in Client
    BY ExtendKeepsTypes DEF ChainInv
  <1>1. PICK batch \in Batches : \E window \in MtpWindows(Prev[batch[1]]) :
          LET p == Prev[batch[1]]
              run == RunOf(p, batch, window)
          IN  /\ Extends(p, batch, window)
              /\ BatchOk(p, batch, run)
              /\ headers' = HeadersAfter(p, batch, run)
              /\ headers[p].height + Len(batch) \in Height
              /\ lc \in Client
              /\ \/ ExtendFork(p, batch, window)
                 \/ ExtendCanonical(p, batch, window)
    BY <1>0, ExtendUnpacked
  <1> DEFINE p == Prev[batch[1]]
  <1>2. PICK window \in MtpWindows(p) :
          /\ Extends(p, batch, window)
          /\ BatchOk(p, batch, RunOf(p, batch, window))
          /\ headers' = HeadersAfter(p, batch, RunOf(p, batch, window))
          /\ headers[p].height + Len(batch) \in Height
          /\ lc \in Client
          /\ \/ ExtendFork(p, batch, window)
             \/ ExtendCanonical(p, batch, window)
    BY <1>1
  <1> DEFINE run == RunOf(p, batch, window)
             n == Len(batch)
             hp == headers[p].height
  <1> HIDE DEF p
  <1>3. HeadersKept(p, batch)
    BY <1>2, KeptLemma
  <1>4. /\ p \in Block /\ p = Prev[batch[1]] /\ lc # NoClient /\ Live(p)
        /\ headers[p] \in Header /\ hp \in Height /\ Start \in Height /\ InstanceInv
    BY <1>2, ParentLemma
  <1>5. n \in Nat \ {0} /\ \A i \in 1..n : batch[i] \in Block
    BY BatchShape
  <1>6. headers[p].work = (hp - Start) * w /\ headers[p].work \in Int
    BY <1>4 DEF WorkInv, Header
  <1>7. \A i \in 0..n : run[i].work = headers[p].work + i * w
    BY <1>6, RunWork
  <1>8. Writes(p, batch, run)
    BY <1>2, <1>4, WritesLemma
  <1>9. w \in Nat \ {0} /\ hp \in Int /\ Start \in Int /\ lc.work \in Int /\ lc.height \in Int
    BY <1>2, <1>4 DEF WorkEach, Height, Client
  <1>10. ASSUME NEW i \in 1..n
         PROVE  /\ headers'[batch[i]].work = run[i].work
                /\ headers'[batch[i]].height = hp + i
                /\ run[i].work = ((hp + i) - Start) * w
                /\ run[i].work \in Int
                /\ run[i].work <= run[n].work
    <2>1. headers'[batch[i]].work = run[i].work
      <3> DEFINE new == headers'[batch[i]]
      <3>1. new = EntryOf(p, batch[i], run[i], i)
        BY <1>8 DEF Writes
      <3> HIDE DEF new, run
      <3>2. new.work = run[i].work
        BY <3>1 DEF EntryOf
      <3> QED
        BY <3>2 DEF new
    <2>2. headers'[batch[i]].height = hp + i
      BY <1>3 DEF HeadersKept
    <2>3. run[i].work = (hp - Start) * w + i * w /\ run[n].work = (hp - Start) * w + n * w
      <3>1. i \in 0..n /\ n \in 0..n
        BY <1>5
      <3> HIDE DEF run, hp, n
      <3> QED
        BY <1>6, <1>7, <3>1
    <2>4. i \in Int /\ n \in Int /\ i <= n
      BY <1>5
    <2> HIDE DEF run, hp, n
    <2>5. (hp - Start) \in Int
      BY <1>9
    <2>6. /\ ((hp - Start) + i) * w = (hp - Start) * w + i * w
          /\ i * w <= n * w
          /\ (hp - Start) * w \in Int /\ i * w \in Int /\ n * w \in Int
      BY <1>9, <2>4, <2>5, MoreBlocksMoreWork
    <2>7. (hp - Start) + i = (hp + i) - Start
      BY <1>9, <2>4
    <2> QED
      BY <2>1, <2>2, <2>3, <2>6, <2>7
  <1>11. ASSUME lc'.genesis = lc.genesis, lc'.epoch = lc.epoch,
                lc'.work \in Int, lc.work <= lc'.work, run[n].work <= lc'.work
         PROVE  \A b \in Block : Live(b)' =>
                  /\ headers'[b].work = (headers'[b].height - Start) * w
                  /\ headers'[b].work <= lc'.work
    <2> SUFFICES ASSUME NEW b \in Block, Live(b)'
                 PROVE  /\ headers'[b].work = (headers'[b].height - Start) * w
                        /\ headers'[b].work <= lc'.work
      OBVIOUS
    <2>1. CASE \E i \in 1..n : b = batch[i]
      <3>1. PICK i \in 1..n : b = batch[i]
        BY <2>1
      <3>2. /\ headers'[b].work = run[i].work /\ headers'[b].height = hp + i
            /\ run[i].work = ((hp + i) - Start) * w
            /\ run[i].work \in Int /\ run[n].work \in Int
            /\ run[i].work <= run[n].work
        <4>1. n \in 1..n
          BY <1>5
        <4> QED
          BY <1>10, <3>1, <4>1
      <3> HIDE DEF run, hp, n
      <3> QED
        BY <1>11, <3>2
    <2>2. CASE \A i \in 1..n : b # batch[i]
      <3>1. headers'[b] = headers[b]
        BY <1>3, <2>2 DEF HeadersKept
      <3>2. Live(b)
        BY <1>11, <3>1 DEF Live
      <3>3. headers[b].work = (headers[b].height - Start) * w /\ headers[b].work <= lc.work
        BY <1>4, <3>2 DEF WorkInv
      <3>4. headers[b].work \in Int
        BY <1>0, <3>2 DEF TypeOK, Live, Header
      <3> HIDE DEF run
      <3> QED
        BY <1>9, <1>11, <3>1, <3>3, <3>4
    <2> QED
      BY <2>1, <2>2
  <1>12. CASE ExtendFork(p, batch, window)
    <2>1. lc' = lc /\ run[n].work <= lc.work
      BY <1>12 DEF ExtendFork
    <2>2. Start' = Start
      BY <1>3, <2>1 DEF HeadersKept, Start
    <2>3. lc.work <= lc.work
      BY <1>9
    <2> HIDE DEF run, n
    <2> QED
      BY <1>4, <1>9, <1>11, <2>1, <2>2, <2>3 DEF WorkInv
  <1>13. CASE ExtendCanonical(p, batch, window)
    <2>1. /\ lc'.genesis = lc.genesis /\ lc'.epoch = lc.epoch
          /\ lc'.height = hp + n
          /\ lc'.work = run[n].work
      BY <1>2, <1>13 DEF ExtendCanonical, Client
    <2>2. run[n].work > lc.work
      BY <1>13 DEF ExtendCanonical
    <2>3. Start' = Start
      BY <1>3, <2>1 DEF HeadersKept, Start
    <2>4. run[n].work = ((hp + n) - Start) * w /\ run[n].work \in Int
      <3>1. n \in 1..n
        BY <1>5
      <3> QED
        BY <1>10, <3>1
    <2> HIDE DEF run, n, hp
    <2>5. lc'.work \in Int /\ lc.work <= lc'.work /\ run[n].work <= lc'.work
      BY <1>9, <2>1, <2>2, <2>4
    <2> QED
      BY <1>11, <2>1, <2>3, <2>4, <2>5 DEF WorkInv
  <1> QED
    BY <1>2, <1>12, <1>13

LEMMA NextKeepsWork ==
  ASSUME NEW w, WorkEach(w), HashChain, RegtestOnce
  PROVE  ChainInv /\ ChainInv' /\ WorkInv(w) /\ [Next]_vars => WorkInv(w)'
  <1> SUFFICES ASSUME ChainInv, ChainInv', WorkInv(w), [Next]_vars PROVE WorkInv(w)'
    OBVIOUS
  <1>u. ASSUME UNCHANGED <<lc, headers>> PROVE WorkInv(w)'
    BY <1>u DEF WorkInv, Live, Start
  <1>1. ASSUME NEW a \in Anchors, NEW e, NEW q,
               lc' = FreshClient(a, e),
               headers' = [headers EXCEPT ![a.hash] = AnchorHeader(a, q, e)],
               \A b \in Block : headers[b] # NoHeader => headers[b].epoch # e
        PROVE  WorkInv(w)'
    <2>1. lc'.work = 0 /\ lc'.height = a.height /\ lc'.genesis = a.hash /\ lc'.epoch = e
      BY <1>1 DEF FreshClient
    <2>2. a.hash \in Block /\ a.height \in Int
      BY LightClientAssumption DEF LightClientAssumption, Anchor, Height
    <2>3. headers'[a.hash].work = 0 /\ headers'[a.hash].height = a.height
      BY <1>1, <2>2 DEF AnchorHeader, ChainInv, TypeOK
    <2>4. \A b \in Block : Live(b)' => b = a.hash
      BY <1>1, <2>1 DEF Live, ChainInv, TypeOK
    <2>5. (a.height - a.height) * w = 0
      BY <2>2 DEF WorkEach
    <2> QED
      BY <2>1, <2>2, <2>3, <2>4, <2>5 DEF WorkInv, Start
  <1>2. ASSUME NEW a \in Anchors, Initialize(a) PROVE WorkInv(w)'
    <2>1. \A b \in Block : headers[b] = NoHeader
      BY <1>2 DEF Initialize, ChainInv
    <2> QED
      BY <1>1, <1>2, <2>1 DEF Initialize
  <1>3. ASSUME NEW a \in Anchors, Reinitialize(a) PROVE WorkInv(w)'
    <2> DEFINE e == lc.epoch + 1
    <2>1. lc # NoClient /\ lc.epoch \in Int
      BY <1>3 DEF Reinitialize, ChainInv, TypeOK, Client
    <2>2. \A b \in Block : headers[b] # NoHeader => headers[b].epoch # e
      <3>1. \A b \in Block : headers[b] # NoHeader =>
              headers[b].epoch \in Int /\ headers[b].epoch <= lc.epoch
        BY <2>1 DEF ChainInv, TypeOK, Header, InstanceInv
      <3> QED
        BY <2>1, <3>1
    <2>3. /\ lc' = FreshClient(a, e)
          /\ headers' = [headers EXCEPT ![a.hash] = AnchorHeader(a, a.prev, e)]
      BY <1>3 DEF Reinitialize
    <2> HIDE DEF e
    <2> QED
      BY <1>1, <2>2, <2>3
  <1>4. CASE ExtendBlockchain
    BY <1>4, ExtendKeepsWork
  <1>5. ASSUME NEW b \in Block, NEW tx \in Tx, VerifyTransaction(b, tx) PROVE WorkInv(w)'
    BY <1>5, <1>u DEF VerifyTransaction
  <1>6. ASSUME NEW c \in Block, PruneObsoleteBlock(c) PROVE WorkInv(w)'
    <2>1. /\ lc # NoClient /\ lc' = lc /\ headers'[c] = NoHeader
          /\ \A b \in Block \ {c} : headers'[b] = headers[b]
      BY <1>6 DEF PruneObsoleteBlock, ChainInv, TypeOK
    <2>2. lc.genesis \in Block /\ headers'[lc.genesis] # NoHeader
      BY <2>1 DEF ChainInv, InstanceInv, Live
    <2>3. Start' = Start
      BY <2>1, <2>2 DEF Start
    <2> QED
      BY <2>1, <2>3 DEF WorkInv, Live
  <1>7. CASE Tick
    BY <1>7, <1>u DEF Tick
  <1>8. CASE UNCHANGED vars
    BY <1>8, <1>u DEF vars
  <1> QED
    BY <1>2, <1>3, <1>4, <1>5, <1>6, <1>7, <1>8 DEF Next

\* Where every block is worth the same, as within a difficulty period, the longer branch
\* is the heavier one, no entry is left above the tip, and the index is always the tip's
\* ancestry (extend_blockchain).
THEOREM AncestryOfEqualWork ==
  ASSUME NEW w, WorkEach(w), HashChain, RegtestOnce
  PROVE  Spec => []IndexIsAncestry
  <1> DEFINE Inv == ChainInv /\ WorkInv(w)
  <1>1. Init => Inv
    BY LightClientAssumption
    DEF Init, ChainInv, WorkInv, TypeOK, Height, IndexIsAncestry, LightClientAssumption
  <1>2. Inv /\ [Next]_vars => Inv'
    <2> SUFFICES ASSUME ChainInv, WorkInv(w), [Next]_vars PROVE ChainInv' /\ WorkInv(w)'
      OBVIOUS
    <2>1. ~StalePromotion
      BY NoneStale
    <2>2. ChainInv'
      BY <2>1, NextKeepsChain
    <2> QED
      BY <2>2, NextKeepsWork
  <1>3. Inv => IndexIsAncestry
    BY DEF ChainInv
  <1> QED
    BY <1>1, <1>2, <1>3, PTL DEF Spec
==============================================================================
