------------------------------- MODULE Deposit -------------------------------
(***************************************************************************)
(* What complete_deposit and verify_deposit read from Bitcoin: the         *)
(* attestation of the transaction and its standing with the light client,  *)
(* which output is credited, in which mode, to which note, and the         *)
(* accounts that exclude a second credit.  The light client is Finality,   *)
(* which LightClient implements.  Fees, pauses, caps and the life of a     *)
(* redemption are Bridge's; here complete_redemption only closes the       *)
(* records of the coins a confirmed payout spent and records its change.   *)
(*                                                                         *)
(* A Bitcoin transaction is its contents: its inputs, as outpoints, and    *)
(* its outputs.  A script is a record: the pool's own output, an address   *)
(* tweaked by a note, an address whose leaf names a note, or an OP_RETURN  *)
(* with a pool tag and a note.  Scripts hash their parts, so different     *)
(* records are different addresses.                                        *)
(***************************************************************************)
EXTENDS Integers, Sequences, FiniteSets

CONSTANTS
  Block, NoBlock, Height, Network, Tx, TxsOf, Views, MaxEpoch,   \* see Finality
  Pool,
  KeyOf,            \* [Pool -> keys], the x-only key of the pool's dWallet
  Note,             \* what a depositor is credited to: note key and ephemeral key
  Ins, Outs,        \* inputs and outputs of a transaction, as sequences
  Payouts,          \* the transactions that pools sign to pay redemptions
  Creditable,       \* amounts that the limits and the fee admit (Bridge!AmountOk)
  ExpectedNetwork,  \* EXPECTED_NETWORK of the build
  DepositConf,      \* DEMO_REQUIRED_CONFIRMATIONS (6; 1 on devnet)
  RedemptionConf    \* REQUIRED_CONFIRMATIONS (6)

PoolScript(p)    == [kind |-> "pool", key |-> KeyOf[p]]
TweakScript(p, n) == [kind |-> "tweak", key |-> KeyOf[p], note |-> n]
LeafScript(p, n) == [kind |-> "leaf", key |-> KeyOf[p], note |-> n]
Memo(p, n)       == [kind |-> "memo", pool |-> p, note |-> n]

Script ==
  {PoolScript(p) : p \in Pool} \cup {TweakScript(p, n) : p \in Pool, n \in Note}
    \cup {LeafScript(p, n) : p \in Pool, n \in Note} \cup {Memo(p, n) : p \in Pool, n \in Note}
    \cup {[kind |-> "other"]}

ASSUME DepositAssumption ==
  /\ Height \subseteq Nat
  /\ NoBlock \notin Block
  /\ TxsOf \in [Block -> SUBSET Tx]
  /\ Views \subseteq [Height -> Block \cup {NoBlock}]
  /\ MaxEpoch \in Nat
  /\ Ins \in [Tx -> Seq(Tx \X Nat)]
  /\ Outs \in [Tx -> Seq([value : Nat, script : Script])]
  /\ Payouts \subseteq Tx
  /\ Creditable \subseteq Nat \ {0}
  /\ ExpectedNetwork \in Network
  /\ {DepositConf, RedemptionConf} \subseteq Nat \ {0}

\* Bitcoin's own rule, for the transactions whose one input is known: no output is worth
\* more than what is spent.
ASSUME ValueConserved ==
  \A t, u \in Tx : \A i \in DOMAIN Outs[u], j \in DOMAIN Outs[t] :
    Ins[t] = << <<u, i>> >> => Outs[t][j].value <= Outs[u][i].value

VARIABLES
  network, epoch, tip, finalized, index, attested,   \* the light client
  instances,  \* history: the network of each chain instance
  receipts,   \* DepositReceipt accounts by what they are keyed on
  records,    \* UtxoRecord accounts: [pool, out, amount]
  completed,  \* CompletionReceipt accounts, by transaction
  credits     \* history: what was credited, and on which attestation

client == <<network, epoch, tip, finalized, index, attested>>
vars == <<network, epoch, tip, finalized, index, attested, instances, receipts, records,
          completed, credits>>

Client == INSTANCE Finality

-----------------------------------------------------------------------------
(* Reading the light client *)

\* Fault: a proof of any chain instance is accepted.
AnyInstance(v) == TRUE

\* The proof was minted under the client's present instance.
CurrentInstance(v) == v.epoch = epoch

\* Its block is still the canonical one of its height.
StillCanonical(v) == index[v.height] = v.block

NetworkExpected == network = ExpectedNetwork

Confirmations(v) == IF v.height > tip THEN 0 ELSE tip - v.height + 1

\* What complete_deposit and complete_redemption ask of the proof v of tx.
ProofAccepted(v, tx, confirmations) ==
  /\ v.tx = tx
  /\ StillCanonical(v)
  /\ NetworkExpected
  /\ CurrentInstance(v)
  /\ Confirmations(v) >= confirmations

-----------------------------------------------------------------------------
(* Reading a transaction.  Outputs are counted from one. *)

Vouts(tx) == DOMAIN Outs[tx]
First(S) == CHOOSE i \in S : \A j \in S : i <= j

PositiveOutputsByScript(tx, script) ==
  {i \in Vouts(tx) : Outs[tx][i].value > 0 /\ Outs[tx][i].script = script}

OutputsByScript(tx, script) == {i \in Vouts(tx) : Outs[tx][i].script = script}

MemosOf(tx) == {i \in Vouts(tx) : Outs[tx][i].script.kind = "memo"}

\* The first OP_RETURN that has the shape of a deposit's: its pool tag and its note.
FindDepositOpReturn(tx) == Outs[tx][First(MemosOf(tx))].script

NamesPool(tx, p) == MemosOf(tx) # {} /\ FindDepositOpReturn(tx).pool = p

\* Fault: any output of the deposit transaction may be what the sweep spends.
SpendsTransaction(tx, out) == \E i \in DOMAIN Ins[tx] : Ins[tx][i][1] = out[1]

SpendsOutpoint(tx, out) == \E i \in DOMAIN Ins[tx] : Ins[tx][i] = out

OneInput(tx) == Len(Ins[tx]) = 1

\* The outputs of a deposit transaction that are bound to the note by the tweak.
BoundOutputs(p, tx, n) == PositiveOutputsByScript(tx, TweakScript(p, n))

-----------------------------------------------------------------------------
(* The three modes.  A request names the pool, the proven transaction tx, the      *)
(* deposit transaction, and for a tweak deposit the output and the note.           *)

Request ==
  {[mode |-> m, pool |-> p, tx |-> t, deposit |-> u] :
     m \in {"direct", "sweep"}, p \in Pool, t \in Tx, u \in Tx}
    \cup {[mode |-> "tweak", pool |-> p, tx |-> out[1], deposit |-> out[1], vout |-> out[2],
           note |-> n] : p \in Pool, out \in UNION {{t} \X Vouts(t) : t \in Tx}, n \in Note}

\* The note keys: from the deposit's OP_RETURN, or from the instruction.
NoteOf(r) == IF r.mode = "tweak" THEN r.note ELSE FindDepositOpReturn(r.deposit).note

\* Exactly one output of value pays the pool.
PaysPoolOnce(r) == Cardinality(PositiveOutputsByScript(r.tx, PoolScript(r.pool))) = 1

\* Direct: the proven transaction is the deposit.
DirectOk(r) ==
  /\ r.deposit = r.tx
  /\ NamesPool(r.deposit, r.pool)
  /\ PaysPoolOnce(r)

\* Sweep: the proven transaction spends the one output bound to the note.
SweepOk(r) ==
  /\ NamesPool(r.deposit, r.pool)
  /\ OneInput(r.tx)
  /\ LET bound == BoundOutputs(r.pool, r.deposit, NoteOf(r))
     IN  /\ Cardinality(bound) = 1
         /\ SpendsOutpoint(r.tx, <<r.deposit, First(bound)>>)
  /\ PaysPoolOnce(r)

\* Tweak: the named output's leaf names the note and the pool's key.
TweakOk(r) ==
  /\ r.deposit = r.tx
  /\ Outs[r.tx][r.vout].value > 0
  /\ Outs[r.tx][r.vout].script = LeafScript(r.pool, r.note)

WellFormed(r) ==
  \/ r.mode = "direct" /\ DirectOk(r)
  \/ r.mode = "sweep" /\ SweepOk(r)
  \/ r.mode = "tweak" /\ TweakOk(r)

\* The credited output: the named one, or the first that pays the pool, whatever its
\* value.
CreditedOut(r) ==
  <<r.tx, IF r.mode = "tweak" THEN r.vout ELSE First(OutputsByScript(r.tx, PoolScript(r.pool)))>>

ValueOf(out) == Outs[out[1]][out[2]].value

\* The requests that the transactions, the limits and the fee admit.
Acceptable == {r \in Request : WellFormed(r) /\ ValueOf(CreditedOut(r)) \in Creditable}

\* Fault: one receipt a transaction, whatever the mode.
ReceiptPerTransaction(r) == <<r.deposit>>

\* Fault: a receipt for each pool.
ReceiptPerPool(r) == <<r.deposit, r.pool>>

\* What the receipt is keyed on: the deposit's txid, or its outpoint for a tweak
\* deposit.  The pool is not part of it.
ReceiptKey(r) == IF r.mode = "tweak" THEN <<r.deposit, r.vout>> ELSE <<r.deposit>>

\* Fault: the record of the output is not looked at.
NeverRecorded(p, out) == TRUE

Unrecorded(p, out) == ~\E u \in records : u.pool = p /\ u.out = out

Credit(r, v) ==
  [pool |-> r.pool, mode |-> r.mode, deposit |-> r.deposit, out |-> CreditedOut(r),
   note |-> NoteOf(r), amount |-> ValueOf(CreditedOut(r)),
   height |-> v.height, block |-> v.block, proven |-> v.epoch, epoch |-> epoch]

CompleteDeposit(r, v) ==
  /\ ReceiptKey(r) \notin receipts
  /\ ProofAccepted(v, r.tx, DepositConf)
  /\ r \in Acceptable
  /\ Unrecorded(r.pool, CreditedOut(r))
  /\ receipts' = receipts \cup {ReceiptKey(r)}
  /\ records' = records \cup
       {[pool |-> r.pool, out |-> CreditedOut(r), amount |-> ValueOf(CreditedOut(r))]}
  /\ credits' = credits \cup {Credit(r, v)}
  /\ UNCHANGED <<client, instances, completed>>

-----------------------------------------------------------------------------
(* complete_redemption, as far as records are concerned *)

InputsOf(tx) == {Ins[tx][i] : i \in DOMAIN Ins[tx]}

\* The change output, if any.
ChangeOf(p, tx) ==
  {[pool |-> p, out |-> <<tx, i>>, amount |-> Outs[tx][i].value] :
     i \in OutputsByScript(tx, PoolScript(p))}

CompleteRedemption(p, tx, v) ==
  /\ tx \in Payouts /\ tx \notin completed
  /\ ProofAccepted(v, tx, RedemptionConf)
  /\ \A out \in InputsOf(tx) : ~Unrecorded(p, out)
  /\ \A u \in ChangeOf(p, tx) : Unrecorded(p, u.out)
  /\ completed' = completed \cup {tx}
  /\ records' = {u \in records : ~(u.pool = p /\ u.out \in InputsOf(tx))} \cup ChangeOf(p, tx)
  /\ UNCHANGED <<client, instances, receipts, credits>>

-----------------------------------------------------------------------------
(* The light client's own steps *)

Follow ==
  /\ \/ Client!Start /\ instances' = [e \in {0} |-> network']
     \/ Client!Advance /\ UNCHANGED instances
  /\ UNCHANGED <<receipts, records, completed, credits>>

Reinitialize ==
  /\ Client!Restart
  /\ instances' = [e \in 0..epoch' |-> IF e = epoch' THEN network' ELSE instances[e]]
  /\ UNCHANGED <<receipts, records, completed, credits>>

VerifyTransaction(h, tx) ==
  /\ Client!Attest(h, tx)
  /\ UNCHANGED <<instances, receipts, records, completed, credits>>

Init ==
  /\ Client!Init
  /\ instances = [e \in {} |-> ExpectedNetwork]
  /\ receipts = {}
  /\ records = {}
  /\ completed = {}
  /\ credits = {}

Next ==
  \/ Follow
  \/ Reinitialize
  \/ \E h \in Height, tx \in Tx : VerifyTransaction(h, tx)
  \/ \E r \in Acceptable, v \in attested : CompleteDeposit(r, v)
  \/ \E p \in Pool, tx \in Payouts, v \in attested : CompleteRedemption(p, tx, v)

Spec == Init /\ [][Next]_vars

\* Attesting is permissionless, and the pools' authorities complete what they can: one
\* or the other goes on as long as there is something to attest or to credit.
FairSpec ==
  /\ Spec
  /\ WF_vars(\/ \E h \in Height, tx \in Tx : VerifyTransaction(h, tx)
             \/ \E r \in Acceptable, v \in attested : CompleteDeposit(r, v))

-----------------------------------------------------------------------------
(* Properties *)

Outpoint == Tx \X Nat

\* The client's variables have the types Finality gives them; receipts, records and
\* completions are of existing transactions.
TypeOK ==
  /\ network \in Network /\ epoch \in Nat
  /\ tip \in Height \cup {-1} /\ finalized \in Height \cup {-1}
  /\ index \in [Height -> Block \cup {NoBlock}]
  /\ attested \subseteq [block : Block, tx : Tx, height : Height, epoch : Nat]
  /\ receipts \subseteq {<<tx>> : tx \in Tx} \cup Outpoint
  /\ records \subseteq [pool : Pool, out : Outpoint, amount : Nat]
  /\ completed \subseteq Payouts

\* What complete_deposit credited under the present chain instance lies in a block that
\* is final and canonical now, whatever was reorganized since; and every credit, of any
\* instance, rests on a proof made by a client of the build's own network, never by one
\* that was reinitialized on or away from a network without proof of work.
CreditsFinal ==
  \A c \in credits :
    /\ instances[c.proven] = ExpectedNetwork
    /\ c.epoch = epoch =>
         /\ c.height <= finalized
         /\ index[c.height] = c.block
         /\ c.out[1] \in TxsOf[c.block]

\* A payout that complete_redemption settled spends the output.
SpentBySettlement(out) == \E tx \in completed : out \in InputsOf(tx)

\* One deposit transaction credits an output at most once, at whichever pools and in
\* whichever modes it is presented.  Two deposits may name one output (a direct one and
\* a sweep): their receipts do not exclude each other, the output's UtxoRecord does, so
\* both are credited only where a settled payout has closed the record, or at two pools
\* that were configured with one key, each of which keeps a record of its own.
CreditedOnce ==
  \A c, d \in credits :
    c.out = d.out /\ c # d =>
      /\ c.deposit # d.deposit
      /\ IF c.pool = d.pool THEN SpentBySettlement(c.out) ELSE KeyOf[c.pool] = KeyOf[d.pool]

\* What the outputs of the deposit transaction give to the note at the pool.
GivenTo(c) ==
  {i \in Vouts(c.deposit) :
     \/ Outs[c.deposit][i].script \in {TweakScript(c.pool, c.note), LeafScript(c.pool, c.note)}
     \/ /\ Outs[c.deposit][i].script = PoolScript(c.pool)
        /\ \E j \in MemosOf(c.deposit) : Outs[c.deposit][j].script = Memo(c.pool, c.note)}

\* No note is credited more than one output of the depositor's own transaction gave to
\* that note at that pool: neither the wallet's change nor another deposit that a sweep
\* consolidates is ever counted.
CreditWithinDeposit ==
  \A c \in credits : \E i \in GivenTo(c) : c.amount <= Outs[c.deposit][i].value

\* The transaction is final and deep enough, and its attestation, if any, is of the
\* present instance.
Final(r) ==
  \E h \in Height :
    /\ h <= finalized
    /\ index[h] # NoBlock
    /\ r.tx \in TxsOf[index[h]]
    /\ tip - h + 1 >= DepositConf
    /\ ~\E v \in attested : v.tx = r.tx /\ v.block = index[h] /\ v.epoch # epoch

\* The output is credited, or the transaction's one OP_RETURN deposit is.
Credited(r) ==
  \E c \in credits :
    c.out = CreditedOut(r) \/ (c.deposit = r.deposit /\ "tweak" \notin {c.mode, r.mode})

\* Time and again nothing is owed: every well-formed deposit whose transaction is final,
\* deep enough and on the expected network is credited, all of them at once, so one that
\* stays so is credited.  The exception is a transaction that was attested in the same
\* block under an earlier chain instance: verify_transaction leaves that attestation as
\* it is and complete_deposit never accepts it.
DepositsComplete ==
  []<>(\A r \in Acceptable : NetworkExpected /\ Final(r) => Credited(r))
===============================================================================
