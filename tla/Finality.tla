------------------------------- MODULE Finality -------------------------------
(***************************************************************************)
(* What the Bitcoin light client promises to the programs that read it:    *)
(* an index from heights to blocks whose part at or below the finalized    *)
(* height never changes within a chain instance, and attestations of       *)
(* transactions in that part.  How headers are validated and forks chosen  *)
(* is left open: LightClient implements this module, Deposit uses it.      *)
(***************************************************************************)
EXTENDS Integers

CONSTANTS
  Block, NoBlock,
  Height,       \* the heights that have an index account
  Network,      \* networks a client can track
  Tx, TxsOf,    \* transactions, and those each block contains
  Views,        \* the indices that can arise, as functions on Height
  MaxEpoch      \* reinitializations represented

VARIABLES
  network,    \* BitcoinLightClient.network
  epoch,      \* BitcoinLightClient.reinit_epoch
  tip,        \* height of the tip, -1 before the client exists
  finalized,  \* BitcoinLightClient.finalized_height, -1 before the client exists
  index,      \* HeightIndex accounts
  attested    \* VerifiedTransaction accounts

vars == <<network, epoch, tip, finalized, index, attested>>

Init ==
  /\ network \in Network
  /\ epoch = 0
  /\ tip = -1 /\ finalized = -1
  /\ index = [h \in Height |-> NoBlock]
  /\ attested = {}

\* A tip with its finalized height and an index for it.
Position ==
  /\ tip' \in Height
  /\ finalized' \in Height
  /\ finalized' <= tip'
  /\ index' \in Views

\* The client is created.
Start ==
  /\ finalized = -1
  /\ Position
  /\ network' \in Network
  /\ UNCHANGED <<epoch, attested>>

\* Blocks are added or reorganized away.  The tip may move back; what is final is kept.
Advance ==
  /\ finalized # -1
  /\ Position
  /\ finalized' >= finalized
  /\ \A h \in Height : h <= finalized => index'[h] = index[h]
  /\ UNCHANGED <<network, epoch, attested>>

\* A new chain instance, of which nothing is known; the attestations stay.
Restart ==
  /\ finalized # -1
  /\ epoch < MaxEpoch
  /\ epoch' = epoch + 1
  /\ Position
  /\ network' \in Network
  /\ UNCHANGED attested

\* Attest tx in the final block of height h.  One account per block and transaction:
\* an attestation of an earlier instance is not replaced.
Attest(h, tx) ==
  /\ h <= finalized
  /\ index[h] # NoBlock
  /\ tx \in TxsOf[index[h]]
  /\ ~\E v \in attested : v.block = index[h] /\ v.tx = tx
  /\ attested' = attested \cup
                   {[block |-> index[h], tx |-> tx, height |-> h, epoch |-> epoch]}
  /\ UNCHANGED <<network, epoch, tip, finalized, index>>

Next == Start \/ Advance \/ Restart \/ \E h \in Height, tx \in Tx : Attest(h, tx)

Spec == Init /\ [][Next]_vars
===============================================================================
