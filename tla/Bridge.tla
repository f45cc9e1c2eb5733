-------------------------------- MODULE Bridge --------------------------------
(***************************************************************************)
(* The Bitcoin custody of a pool (programs/utxopia): deposits credited by  *)
(* complete_deposit, and the life of a redemption through redeem,          *)
(* mark_processing, approve_redemption_signing, complete_redemption and    *)
(* cancel_redemption, with claim_fees and the pause switch.                *)
(*                                                                         *)
(* A Bitcoin transaction is its contents, as a txid is their hash.  Notes  *)
(* are abstracted to each owner's total, the zero-knowledge proof to "the  *)
(* owner has that much", an SPV proof to "the transaction is confirmed".   *)
(* Every action is one Solana transaction, except the three marked         *)
(* external.  Statistics (total_minted, total_burned, fee_pool,            *)
(* deposit_count) are left out: no handler reads them.  PoolState keeps a  *)
(* copy of TokenConfig's total_shielded that every handler refreshes.      *)
(***************************************************************************)
EXTENDS Fees, Integers, FiniteSetsExt

CONSTANTS
  User,
  Nonce,          \* request nonces a user may choose
  Payouts,        \* what a redemption may ask for: [nonce, amount, script]
  Deposits,       \* Bitcoin outputs that complete_deposit accepts as deposits
  PoolScript,     \* the pool's own output script
  NoRequest,      \* the reservation key of a coin nobody reserved
  MinDeposit, MaxDeposit,            \* PoolState's limits
  InitialConfig,  \* TokenConfig as registered: [enabled, min, max, cap]
  TokenConfigs,   \* what update_token_config may set it to
  DepositBps, DepositServiceFee,     \* deposit fee
  WithdrawalBps, ServiceFeeBase,     \* redemption service fee
  MaxPublicOutputs,   \* MAX_PUBLIC_OUTPUTS (3)
  MaxUtxosPerMark,    \* MAX_UTXOS_PER_MARK (20)
  MaxRedemption,      \* MAX_REDEMPTION_AMOUNT_SATS
  MaxMinerFee,        \* MAX_MINER_FEE_SATS = MAX_FEE_SATS (50_000)
  Dust,               \* BTC_DUST_THRESHOLD_SATS (330)
  PayoutTolerance,    \* a payout may fall short by 1/PayoutTolerance (100)
  SlotMod,            \* slots are kept modulo 2^32
  Timeout,            \* REDEMPTION_TIMEOUT_SLOTS
  ClaimAmounts,       \* amounts claim_fees is called with
  PauseValues         \* values set_paused is called with

ReqId == User \X Nonce

\* A deposit names the receipt that complete_deposit creates (the deposit's txid,
\* or its outpoint for a tweak deposit), the pool output it credits and its owner.
ASSUME BridgeAssumption ==
  /\ \A p \in Payouts : p.nonce \in Nonce /\ p.amount \in Nat
  /\ \A d \in Deposits : /\ d.user \in User /\ d.amount \in Nat
                         /\ d.output.of = {}   \* it is not the change of a payout
  /\ {MinDeposit, MaxDeposit, DepositBps, DepositServiceFee, WithdrawalBps,
      ServiceFeeBase, MaxPublicOutputs, MaxUtxosPerMark, MaxRedemption, MaxMinerFee,
      Dust} \subseteq Nat
  /\ {BpsScale, PayoutTolerance, SlotMod} \subseteq Nat \ {0}
  /\ Timeout \in 1..(SlotMod - 1)
  /\ ClaimAmounts \subseteq Nat
  /\ NoRequest \notin ReqId
  /\ TokenConfigs \cup {InitialConfig} \subseteq
       [enabled : BOOLEAN, min : Nat, max : Nat, cap : Nat]
  /\ PauseValues \subseteq BOOLEAN
  /\ IsFiniteSet(User) /\ IsFiniteSet(Nonce) /\ IsFiniteSet(Payouts)

VARIABLES
  paused,     \* PoolState.paused
  config,     \* TokenConfig's switch, limits and deposit cap
  pool,       \* PoolState and TokenConfig counters
  tokens,     \* zkBTC in the pool vault and outside it
  notes,      \* unspent notes by owner, as totals
  receipts,   \* DepositReceipt accounts, as the deposits they stand for
  utxos,      \* UtxoRecord accounts by outpoint
  requests,   \* RedemptionRequest accounts by id
  completed,  \* CompletionReceipt accounts, by transaction
  approvals,  \* what Ika was asked to sign: a transaction and one of its inputs
  confirmed,  \* payout transactions confirmed on Bitcoin
  slot        \* Clock::slot as u32

vars == <<paused, config, pool, tokens, notes, receipts, utxos, requests, completed, approvals,
          confirmed, slot>>

Live(r) == r \in DOMAIN requests
Processing(r) == Live(r) /\ requests[r].status = "Processing"

-----------------------------------------------------------------------------
(* Fees *)

DepositFee(amount) == ComputeBpsFee(amount, DepositBps) + DepositServiceFee

ComputeServiceFee(amount) == (amount * WithdrawalBps) \div BpsScale + ServiceFeeBase

-----------------------------------------------------------------------------
(* Deposits *)

\* Fault: a deposit that does not cover its fee.
AmountWithinLimits(amount) ==
  amount \in MinDeposit..MaxDeposit /\ amount \in config.min..config.max

AmountOk(amount) ==
  /\ amount \in MinDeposit..MaxDeposit /\ amount \in config.min..config.max
  /\ amount > DepositFee(amount)

\* A receipt of the same transaction (or outpoint) exists.
Receipted(d) == \E e \in receipts : e.receipt = d.receipt

\* A record is created unspent and unreserved.
NewCoin(amount) == [amount |-> amount, status |-> "Unspent", by |-> NoRequest]

Unrecorded(d) == d.output \notin DOMAIN utxos

CompleteDeposit(d) ==
  LET fee == DepositFee(d.amount)
      shielded == d.amount - fee
  IN  /\ ~paused /\ config.enabled
      /\ ~Receipted(d)
      /\ AmountOk(d.amount)
      /\ Unrecorded(d)
      /\ pool.shielded + shielded <= config.cap
      /\ receipts' = receipts \cup {d}
      /\ notes' = [notes EXCEPT ![d.user] = @ + shielded]
      /\ utxos' = [o \in DOMAIN utxos \cup {d.output} |->
                     IF o = d.output THEN NewCoin(d.amount) ELSE utxos[o]]
      /\ tokens' = [tokens EXCEPT !.vault = @ + d.amount]
      /\ pool' = [pool EXCEPT !.shielded = @ + shielded, !.fees = @ + fee,
                              !.held = @ + d.amount, !.count = @ + 1]
      /\ UNCHANGED <<paused, config, requests, completed, approvals, confirmed, slot>>

ClaimFees(amount) ==
  /\ amount <= pool.fees
  /\ amount <= tokens.vault
  /\ tokens' = [vault |-> tokens.vault - amount, outside |-> tokens.outside + amount]
  /\ pool' = [pool EXCEPT !.fees = @ - amount]
  /\ UNCHANGED <<paused, config, notes, receipts, utxos, requests, completed, approvals,
                 confirmed, slot>>

SetPaused(value) ==
  /\ paused' = value
  /\ UNCHANGED <<config, pool, tokens, notes, receipts, utxos, requests, completed, approvals,
                 confirmed, slot>>

UpdateTokenConfig(c) ==
  /\ config' = c
  /\ UNCHANGED <<paused, pool, tokens, notes, receipts, utxos, requests, completed,
                 approvals, confirmed, slot>>

-----------------------------------------------------------------------------
(* Redemptions *)

PendingRequest(p) ==
  [amount |-> p.amount, fee |-> ComputeServiceFee(p.amount), script |-> p.script,
   status |-> "Pending", slot |-> 0, total |-> 0, reserved |-> {},
   minerFee |-> 0, approved |-> {}]

\* One request per public output; the service fee is locked here.
Redeem(u, outs) ==
  LET total == SumFunction([p \in outs |-> p.amount])
  IN  /\ ~paused /\ config.enabled
      /\ outs # {} /\ Cardinality(outs) <= MaxPublicOutputs
      /\ \A p, q \in outs : p.nonce = q.nonce => p = q
      /\ \A p \in outs : /\ ComputeServiceFee(p.amount) < p.amount
                         /\ ~Live(<<u, p.nonce>>)
      /\ total <= pool.shielded
      /\ total <= notes[u]
      /\ notes' = [notes EXCEPT ![u] = @ - total]
      /\ requests' =
           [r \in DOMAIN requests \cup {<<u, p.nonce>> : p \in outs} |->
              IF Live(r) THEN requests[r]
                         ELSE PendingRequest(CHOOSE p \in outs : p.nonce = r[2])]
      /\ pool' = [pool EXCEPT !.shielded = @ - total, !.pending = @ + Cardinality(outs)]
      /\ UNCHANGED <<paused, config, tokens, receipts, utxos, completed, approvals, confirmed, slot>>

Amount(o) == utxos[o].amount
Worth(S) == SumFunction([o \in S |-> Amount(o)])
SmallerOf(a, b) == IF a < b THEN a ELSE b
LargerOf(a, b)  == IF a < b THEN b ELSE a

Send(q) == q.amount - q.fee

\* Fault: only the payout has to be covered.
RequiredSendOnly(q) == Send(q)

\* What a reservation must cover: the payout and the largest admissible miner fee.
Required(q) == Send(q) + SmallerOf(MaxMinerFee, q.fee)

\* The reservation covers it and no input is superfluous.
CoversMinimally(q, S) ==
  /\ Worth(S) >= Required(q)
  /\ \A o \in S : Worth(S) - Amount(o) < Required(q)

\* Fault: a coin is taken whatever its status.
AvailableAlways(o) == TRUE

Available(o) == utxos[o].status = "Unspent"

\* By the pool's authority or the requester.
MarkProcessing(r, S) ==
  LET q == requests[r]
      total == Worth(S)
  IN  /\ ~paused
      /\ Live(r) /\ q.status = "Pending"
      /\ S # {} /\ Cardinality(S) <= MaxUtxosPerMark
      /\ \A o \in S : Available(o)
      /\ CoversMinimally(q, S)
      /\ total <= pool.held /\ Cardinality(S) <= pool.count
      /\ utxos' = [o \in DOMAIN utxos |->
                     IF o \in S THEN [utxos[o] EXCEPT !.status = "Reserved", !.by = r]
                                ELSE utxos[o]]
      /\ requests' = [requests EXCEPT ![r] =
                        [q EXCEPT !.status = "Processing", !.slot = slot,
                                  !.total = total, !.reserved = S]]
      /\ pool' = [pool EXCEPT !.held = @ - total, !.count = @ - Cardinality(S)]
      /\ UNCHANGED <<paused, config, tokens, notes, receipts, completed, approvals, confirmed, slot>>

\* The reserved records are still there and still this request's.
HoldsReservation(r) ==
  \A o \in requests[r].reserved :
    o \in DOMAIN utxos /\ utxos[o].status = "Reserved" /\ utxos[o].by = r

CheckRedemptionSigning(amount, minerFee) ==
  ~paused /\ amount <= MaxRedemption /\ minerFee <= MaxMinerFee

\* The transaction rebuilt from the request: change at or below dust is left out
\* and becomes miner fee.
PayoutTx(q, minerFee) ==
  LET change == q.total - Send(q) - minerFee
  IN  [id |-> "payout", inputs |-> q.reserved, to |-> q.script, send |-> Send(q),
       change |-> IF change > Dust THEN change ELSE 0]

EffectiveFee(q, t) == q.total - t.send - t.change

\* Fault: every input is approved at its own fee.
FeeNotPinned(q, minerFee) == TRUE

\* The first approval pins the miner fee.
FeePinned(q, minerFee) == q.approved # {} => minerFee = q.minerFee

\* Fault: the nominal fee is checked, not the effective one.
NominalFeeAdmissible(q, minerFee) ==
  /\ q.total >= Send(q) + minerFee
  /\ minerFee <= SmallerOf(MaxMinerFee, q.fee)

FeeAdmissible(q, minerFee) ==
  /\ q.total >= Send(q) + minerFee
  /\ EffectiveFee(q, PayoutTx(q, minerFee)) <= SmallerOf(MaxMinerFee, q.fee)

\* Ask Ika for a signature over input o of the rebuilt transaction.
ApproveSigning(r, o, minerFee) ==
  LET q == requests[r]
  IN  /\ Processing(r)
      /\ q.total > 0
      /\ CheckRedemptionSigning(q.amount, minerFee)
      /\ FeePinned(q, minerFee)
      /\ o \in q.reserved \ q.approved
      /\ HoldsReservation(r)
      /\ FeeAdmissible(q, minerFee)
      /\ approvals' = approvals \cup {[tx |-> PayoutTx(q, minerFee), input |-> o]}
      /\ requests' = [requests EXCEPT ![r] =
                        [q EXCEPT !.approved = @ \cup {o}, !.minerFee = minerFee]]
      /\ UNCHANGED <<paused, config, pool, tokens, notes, receipts, utxos, completed, confirmed, slot>>

ChangeOutput(t) == [tx |-> t.id, vout |-> 1, of |-> {t}]

Spent(o) == \E t \in confirmed : o \in t.inputs

\* Ika signs what was approved and Bitcoin confirms a transaction whose inputs are
\* all signed and unspent (external).
ConfirmPayout(t) ==
  /\ t \notin confirmed
  /\ \A o \in t.inputs : [tx |-> t, input |-> o] \in approvals /\ ~Spent(o)
  /\ confirmed' = confirmed \cup {t}
  /\ UNCHANGED <<paused, config, pool, tokens, notes, receipts, utxos, requests, completed,
                 approvals, slot>>

MinPayout(send) ==
  LargerOf(LargerOf(0, send - MaxMinerFee), send - send \div PayoutTolerance)

\* What complete_redemption asks of the request and of the confirmed transaction.
\* Without change the caller may leave the pool script out, and the check that the
\* recipient is not the pool with it.
Settles(r, t) ==
  LET q == requests[r]
      minerFee == EffectiveFee(q, t)
  IN  /\ Processing(r)
      /\ t \in confirmed /\ t \notin completed
      /\ t.to = q.script
      /\ q.script = PoolScript => t.change = 0
      /\ t.send \in MinPayout(Send(q))..Send(q)
      /\ q.total > 0
      /\ minerFee \in 0..MaxMinerFee
      /\ CheckRedemptionSigning(q.amount, minerFee)
      /\ t.send + minerFee <= q.amount
      /\ t.send + minerFee <= tokens.vault
      /\ t.inputs = q.reserved /\ HoldsReservation(r)

\* Fault: only the locked service fee is credited, not what was left of it.
RevenueServiceFee(q, burned) == q.fee

\* Of the redeemed amount, what did not leave custody.
ProtocolRevenue(q, burned) == q.amount - burned

\* Burn what left custody, record the change, close the inputs and the request.
CompleteRedemption(r, t) ==
  LET q == requests[r]
      burned == t.send + EffectiveFee(q, t)
      change == IF t.change > 0 THEN {ChangeOutput(t)} ELSE {}
  IN  /\ Settles(r, t)
      /\ completed' = completed \cup {t}
      /\ tokens' = [tokens EXCEPT !.vault = @ - burned]
      /\ utxos' = [o \in (DOMAIN utxos \ q.reserved) \cup change |->
                     IF o \in change THEN NewCoin(t.change) ELSE utxos[o]]
      /\ requests' = [s \in DOMAIN requests \ {r} |-> requests[s]]
      /\ pool' = [pool EXCEPT !.fees = @ + ProtocolRevenue(q, burned),
                              !.held = @ + t.change,
                              !.count = @ + Cardinality(change),
                              !.pending = LargerOf(0, @ - 1)]
      /\ UNCHANGED <<paused, config, notes, receipts, approvals, confirmed, slot>>

\* Fault: the subtraction does not wrap.
TimedOutUnwrapped(q) == slot - q.slot >= Timeout

TimedOut(q) == (slot - q.slot) % SlotMod >= Timeout

\* Fault: approval is not looked at.
NeverSigned(q) == FALSE

SigningApproved(q) == q.status = "Processing" /\ q.approved = q.reserved

\* Fault: one coin is counted, however many return.
RestoredOne(q) == SmallerOf(1, Cardinality(q.reserved))

\* The number of coins that go back to the pool's counters.
Restored(q) == Cardinality(q.reserved)

\* By the requester: release the reservation, mint the note again, close.
CancelRedemption(r) ==
  LET q == requests[r]
  IN  /\ ~paused
      /\ Live(r)
      /\ ~SigningApproved(q)
      /\ q.status = "Pending" \/ TimedOut(q)
      /\ HoldsReservation(r)
      /\ utxos' = [o \in DOMAIN utxos |->
                     IF o \in q.reserved
                       THEN [utxos[o] EXCEPT !.status = "Unspent", !.by = NoRequest]
                       ELSE utxos[o]]
      /\ notes' = [notes EXCEPT ![r[1]] = @ + q.amount]
      /\ pool' = [pool EXCEPT !.shielded = @ + q.amount,
                              !.held = @ + q.total,
                              !.count = @ + Restored(q),
                              !.pending = LargerOf(0, @ - 1)]
      /\ requests' = [s \in DOMAIN requests \ {r} |-> requests[s]]
      /\ UNCHANGED <<paused, config, tokens, receipts, completed, approvals, confirmed, slot>>

\* The Solana clock (external).
NextSlot ==
  /\ slot' = (slot + 1) % SlotMod
  /\ UNCHANGED <<paused, config, pool, tokens, notes, receipts, utxos, requests, completed,
                 approvals, confirmed>>

-----------------------------------------------------------------------------
Init ==
  /\ paused = FALSE
  /\ config = InitialConfig
  /\ pool = [shielded |-> 0, fees |-> 0, held |-> 0, count |-> 0, pending |-> 0]
  /\ tokens = [vault |-> 0, outside |-> 0]
  /\ notes = [u \in User |-> 0]
  /\ receipts = {}
  /\ utxos = [o \in {} |-> {}]
  /\ requests = [r \in {} |-> {}]
  /\ completed = {}
  /\ approvals = {}
  /\ confirmed = {}
  /\ slot = 0

Next ==
  \/ \E d \in Deposits : CompleteDeposit(d)
  \/ \E amount \in ClaimAmounts : ClaimFees(amount)
  \/ \E value \in PauseValues : SetPaused(value)
  \/ \E c \in TokenConfigs : UpdateTokenConfig(c)
  \/ \E u \in User, outs \in SUBSET Payouts : Redeem(u, outs)
  \/ \E r \in ReqId, S \in SUBSET DOMAIN utxos : MarkProcessing(r, S)
  \/ \E r \in ReqId, o \in DOMAIN utxos, f \in 0..MaxMinerFee : ApproveSigning(r, o, f)
  \/ \E a \in approvals : ConfirmPayout(a.tx)
  \/ \E r \in ReqId, t \in confirmed : CompleteRedemption(r, t)
  \/ \E r \in ReqId : CancelRedemption(r)
  \/ NextSlot

Spec == Init /\ [][Next]_vars

\* Slots pass; Bitcoin confirms what is fully signed; the requester, who may drive
\* every leg, settles a confirmed payout and cancels whenever the program lets them
\* (strong fairness: with slots modulo SlotMod the window closes and opens again).
FairSpec ==
  /\ Spec
  /\ WF_vars(NextSlot)
  /\ WF_vars(\E a \in approvals : ConfirmPayout(a.tx))
  /\ \A r \in ReqId : /\ WF_vars(\E t \in confirmed : CompleteRedemption(r, t))
                      /\ SF_vars(CancelRedemption(r))

-----------------------------------------------------------------------------
(* Properties *)

Request ==
  [amount : Nat, fee : Nat, script : {p.script : p \in Payouts},
   status : {"Pending", "Processing"}, slot : 0..(SlotMod - 1), total : Nat,
   reserved : SUBSET DOMAIN utxos, minerFee : 0..MaxMinerFee,
   approved : SUBSET DOMAIN utxos]

\* The accounts of custody have their types; in particular no checked subtraction of the
\* counters in PoolState and TokenConfig ever goes below zero.
TypeOK ==
  /\ paused \in BOOLEAN
  /\ config \in TokenConfigs \cup {InitialConfig}
  /\ pool \in [shielded : Nat, fees : Nat, held : Nat, count : Nat, pending : Nat]
  /\ tokens \in [vault : Nat, outside : Nat]
  /\ notes \in [User -> Nat]
  /\ receipts \subseteq Deposits
  /\ utxos \in [DOMAIN utxos -> [amount : Nat, status : {"Unspent", "Reserved"},
                                 by : ReqId \cup {NoRequest}]]
  /\ DOMAIN requests \subseteq ReqId
  /\ requests \in [DOMAIN requests -> Request]
  /\ slot \in 0..(SlotMod - 1)

UnspentCoins == {o \in DOMAIN utxos : utxos[o].status = "Unspent"}

\* Conservation across deposits, fees, payouts, refunds and change: the coins on
\* record are exactly the zkBTC in existence, and the vault exactly covers the
\* notes, the claimable fees and the redemptions in flight ("keeps the vault fully
\* backed").
FullyBacked ==
  /\ Worth(DOMAIN utxos) = tokens.vault + tokens.outside
  /\ tokens.vault = pool.shielded + pool.fees
                    + SumFunction([r \in DOMAIN requests |-> requests[r].amount])
  /\ pool.shielded = SumFunction(notes)

\* The pool's counters are what the accounts say, so that no checked subtraction
\* of a later mark_processing fails ("eventually underflow remove_utxo, bricking
\* withdrawals").
CountersExact ==
  /\ pool.held = Worth(UnspentCoins)
  /\ pool.count = Cardinality(UnspentCoins)
  /\ pool.pending = Cardinality(DOMAIN requests)

\* A coin is reserved exactly when one live request lists it, and only that one: no
\* coin is stranded by a closed request and none is promised twice.
ReservationExact ==
  /\ \A r \in DOMAIN requests : HoldsReservation(r)
  /\ \A o \in DOMAIN utxos :
       utxos[o].status = "Reserved" =>
         utxos[o].by \in DOMAIN requests /\ o \in requests[utxos[o].by].reserved

\* Once a request can no longer be cancelled because it is signed, one single
\* transaction has all its inputs approved (the miner fee is pinned).
SignedIsBroadcastable ==
  \A r \in DOMAIN requests :
    SigningApproved(requests[r]) =>
      \E f \in 0..MaxMinerFee :
        \A o \in requests[r].reserved :
          [tx |-> PayoutTx(requests[r], f), input |-> o] \in approvals

\* The miner fees at which a request can be signed that use its whole allowance, but
\* for a remainder the size of dust.
FullFees(q) ==
  {f \in 0..MaxMinerFee : FeeAdmissible(q, f) /\ f + Dust >= SmallerOf(MaxMinerFee, q.fee)}

\* What mark_processing reserves can be signed at a fee near the largest admissible one,
\* so a request never waits for the timeout with coins nobody can approve or with a
\* payout nobody would mine (the service fee being at least the dust threshold).
ReservationSignable == \A r \in DOMAIN requests : Processing(r) => FullFees(requests[r]) # {}

FullySigned(t) == \A o \in t.inputs : [tx |-> t, input |-> o] \in approvals

\* The coins of a transaction that could be broadcast stay reserved until it is
\* settled: a payout and a refund of the same redemption never both happen.
SignedCoinsStayReserved ==
  \A a \in approvals :
    FullySigned(a.tx) =>
      \/ a.tx \in completed
      \/ \A o \in a.tx.inputs : o \in DOMAIN utxos /\ utxos[o].status = "Reserved"

\* What cancel_redemption keeps of that for any sizes of reservations: the coin of a
\* transaction with a single input stays reserved from its approval to its settlement.
SingleInputStaysReserved ==
  \A a \in approvals :
    a.tx.inputs = {a.input} =>
      \/ a.tx \in completed
      \/ a.input \in DOMAIN utxos /\ utxos[a.input].status = "Reserved"

\* The transaction that the approvals of request q are for.
OwnPayout(q, t) == q.approved # {} /\ t = PayoutTx(q, q.minerFee)

\* A confirmed transaction that spends a live request's reservation settles it at once
\* ("refusing to settle would strand the accounting rather than prevent anything"),
\* except in the three cases where complete_redemption refuses: while the pool is
\* paused (check_redemption_signing looks at the pause, although the handler is
\* "Deliberately NOT pause-gated"), when a payout with change pays the pool's own
\* script, and when the transaction, of several inputs, was signed for another request.
ConfirmedSettles ==
  \A r \in DOMAIN requests, t \in confirmed \ completed :
    LET q == requests[r]
    IN  /\ ~paused
        /\ Processing(r) /\ t.inputs = q.reserved
        /\ q.script = PoolScript => t.change = 0
        /\ Cardinality(t.inputs) = 1 \/ OwnPayout(q, t)
        => Settles(r, t)

\* No pool output is credited by two deposits ("a pool output may be credited
\* exactly once, whichever mode names it").
CreditedOnce == \A d, e \in receipts : d.output = e.output => d = e

\* Every redemption ends: it is paid or refunded.
EveryRequestResolves == \A r \in ReqId : Live(r) ~> ~Live(r)
===============================================================================
