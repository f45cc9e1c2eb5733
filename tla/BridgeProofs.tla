----------------------------- MODULE BridgeProofs -----------------------------
(***************************************************************************)
(* Proofs about the bridge, for any number of users, coins and requests:   *)
(* coins are reserved for exactly one live request, a request that is      *)
(* signed has a transaction to broadcast, a reservation that               *)
(* mark_processing accepts can be signed and a confirmed payout settled;   *)
(* and the ledger: the coins on record are the tokens in existence, the    *)
(* vault covers notes, fees and redemptions, and the pool's counters are   *)
(* exact.                                                                  *)
(***************************************************************************)
EXTENDS Bridge, SumTheorems, TLAPS

\* The fields of the accounts; their amounts are left open.
CoinShape(c) == DOMAIN c = {"amount", "status", "by"}

RequestShape(q) ==
  DOMAIN q = {"amount", "fee", "script", "status", "slot", "total", "reserved",
              "minerFee", "approved"}

Shapes ==
  /\ utxos = [o \in DOMAIN utxos |-> utxos[o]]
  /\ \A o \in DOMAIN utxos : CoinShape(utxos[o])
  /\ requests = [r \in DOMAIN requests |-> requests[r]]
  /\ \A r \in DOMAIN requests : RequestShape(requests[r])

\* A request that is still pending has reserved nothing.
PendingIsFree ==
  \A r \in DOMAIN requests :
    requests[r].status # "Processing" =>
      requests[r].reserved = {} /\ requests[r].approved = {}

\* The change outputs on record belong to payouts that were completed.
ChangeOfCompleted == \A o \in DOMAIN utxos : o.of \subseteq completed

\* All approvals of a request are for inputs of the one transaction at its pinned fee.
ApprovedTogether ==
  \A r \in DOMAIN requests :
    LET q == requests[r]
    IN  /\ q.approved \subseteq q.reserved
        /\ q.approved # {} => q.minerFee \in 0..MaxMinerFee
        /\ \A o \in q.approved : [tx |-> PayoutTx(q, q.minerFee), input |-> o] \in approvals

\* The inductive invariant.
CustodyInv ==
  /\ Shapes
  /\ PendingIsFree
  /\ ChangeOfCompleted
  /\ ReservationExact
  /\ ApprovedTogether

LEMMA InitCustody == Init => CustodyInv
  BY DEF Init, CustodyInv, Shapes, CoinShape, RequestShape, PendingIsFree,
         ChangeOfCompleted, ReservationExact, HoldsReservation, ApprovedTogether

\* Steps that touch neither coins nor requests nor approvals.
LEMMA FrameCustody ==
  ASSUME CustodyInv, UNCHANGED <<utxos, requests, completed, approvals>>
  PROVE  CustodyInv'
  BY DEF CustodyInv, Shapes, CoinShape, RequestShape, PendingIsFree,
         ChangeOfCompleted, ReservationExact, HoldsReservation, ApprovedTogether, PayoutTx, Send

LEMMA DepositKeepsCustody ==
  ASSUME CustodyInv, NEW d \in Deposits, CompleteDeposit(d)
  PROVE  CustodyInv'
  <1> USE DEF CustodyInv
  <1>1. /\ d.output \notin DOMAIN utxos
        /\ utxos' = [o \in DOMAIN utxos \cup {d.output} |->
                     IF o = d.output THEN NewCoin(d.amount) ELSE utxos[o]]
        /\ UNCHANGED <<requests, completed, approvals>>
    BY DEF CompleteDeposit, Unrecorded
  <1>2. Shapes'
    BY <1>1 DEF Shapes, CoinShape, RequestShape, NewCoin
  <1>3. PendingIsFree' /\ ApprovedTogether'
    BY <1>1 DEF PendingIsFree, ApprovedTogether, PayoutTx, Send
  <1>4. ChangeOfCompleted'
    BY <1>1, BridgeAssumption DEF ChangeOfCompleted, BridgeAssumption
  <1>5. ReservationExact'
    BY <1>1 DEF ReservationExact, HoldsReservation, NewCoin
  <1> QED
    BY <1>2, <1>3, <1>4, <1>5

LEMMA RedeemKeepsCustody ==
  ASSUME CustodyInv, NEW u \in User, NEW outs \in SUBSET Payouts, Redeem(u, outs)
  PROVE  CustodyInv'
  <1> USE DEF CustodyInv
  <1> DEFINE new == {<<u, p.nonce>> : p \in outs}
             pending(r) == PendingRequest(CHOOSE p \in outs : p.nonce = r[2])
  <1>1. /\ requests' = [r \in DOMAIN requests \cup new |->
                          IF Live(r) THEN requests[r] ELSE pending(r)]
        /\ UNCHANGED <<utxos, completed, approvals>>
    BY DEF Redeem
  <1>2. \A r : /\ RequestShape(pending(r))
               /\ pending(r).reserved = {} /\ pending(r).approved = {}
    BY DEF RequestShape, PendingRequest
  <1> HIDE DEF pending, new
  <1>3. \A r \in DOMAIN requests : r \in DOMAIN requests' /\ requests'[r] = requests[r]
    BY <1>1 DEF Live
  <1>4. \A r \in DOMAIN requests' : r \notin DOMAIN requests => requests'[r] = pending(r)
    BY <1>1 DEF Live
  <1>5. Shapes'
    <2>1. requests' = [r \in DOMAIN requests' |-> requests'[r]]
      BY <1>1
    <2>2. \A r \in DOMAIN requests' : RequestShape(requests'[r])
      BY <1>2, <1>3, <1>4 DEF Shapes
    <2> QED
      BY <1>1, <2>1, <2>2 DEF Shapes, CoinShape, RequestShape
  <1>6. PendingIsFree' /\ ApprovedTogether'
    <2>1. PendingIsFree'
      BY <1>2, <1>3, <1>4 DEF PendingIsFree
    <2>4. ASSUME NEW r \in DOMAIN requests'
          PROVE  LET q == requests'[r]
                 IN  /\ q.approved \subseteq q.reserved
                     /\ q.approved # {} => q.minerFee \in 0..MaxMinerFee
                     /\ \A o \in q.approved :
                          [tx |-> PayoutTx(q, q.minerFee), input |-> o] \in approvals
      <3>1. CASE r \in DOMAIN requests
        BY <1>3, <3>1 DEF ApprovedTogether
      <3>2. CASE r \notin DOMAIN requests
        BY <1>2, <1>4, <3>2
      <3> QED
        BY <3>1, <3>2
    <2>5. ApprovedTogether'
      BY <1>1, <2>4 DEF ApprovedTogether
    <2> QED
      BY <2>1, <2>5
  <1>7. ReservationExact'
    <2>1. ASSUME NEW r \in DOMAIN requests' PROVE HoldsReservation(r)'
      <3>1. CASE r \in DOMAIN requests
        BY <1>1, <1>3, <3>1 DEF ReservationExact, HoldsReservation
      <3>2. CASE r \notin DOMAIN requests
        BY <1>2, <1>4, <2>1, <3>2 DEF HoldsReservation
      <3> QED
        BY <3>1, <3>2
    <2> QED
      BY <1>1, <1>3, <2>1 DEF ReservationExact
  <1> QED
    BY <1>1, <1>5, <1>6, <1>7 DEF ChangeOfCompleted

LEMMA MarkKeepsCustody ==
  ASSUME CustodyInv, NEW r \in ReqId, NEW S \in SUBSET DOMAIN utxos, MarkProcessing(r, S)
  PROVE  CustodyInv'
  <1> USE DEF CustodyInv
  <1> DEFINE q == requests[r]
  <1>1. /\ r \in DOMAIN requests /\ q.status = "Pending"
        /\ \A o \in S : utxos[o].status = "Unspent"
        /\ utxos' = [o \in DOMAIN utxos |->
                       IF o \in S THEN [utxos[o] EXCEPT !.status = "Reserved", !.by = r]
                                  ELSE utxos[o]]
        /\ UNCHANGED <<completed, approvals>>
    BY DEF MarkProcessing, Live, Available
  <1>2. PICK total :
          requests' = [requests EXCEPT ![r] =
                        [q EXCEPT !.status = "Processing", !.slot = slot,
                                  !.total = total, !.reserved = S]]
    BY DEF MarkProcessing
  <1>3. DOMAIN requests' = DOMAIN requests /\ DOMAIN utxos' = DOMAIN utxos
    BY <1>1, <1>2 DEF Shapes
  <1>4. \A s \in DOMAIN requests : s # r => requests'[s] = requests[s]
    BY <1>2 DEF Shapes
  <1>5. /\ requests'[r].status = "Processing"
        /\ requests'[r].reserved = S
        /\ requests'[r].approved = {}
        /\ RequestShape(requests'[r])
    <2>1. requests'[r] = [q EXCEPT !.status = "Processing", !.slot = slot,
                                   !.total = total, !.reserved = S]
      BY <1>1, <1>2 DEF Shapes
    <2>2. q.approved = {}
      BY <1>1 DEF PendingIsFree
    <2>3. RequestShape(q)
      BY <1>1 DEF Shapes
    <2> HIDE DEF q
    <2> QED
      BY <2>1, <2>2, <2>3 DEF RequestShape
  <1>6. \A o \in S : /\ utxos'[o].status = "Reserved"
                     /\ utxos'[o].by = r
                     /\ CoinShape(utxos'[o])
    <2> SUFFICES ASSUME NEW o \in S
                 PROVE  /\ utxos'[o].status = "Reserved"
                        /\ utxos'[o].by = r
                        /\ CoinShape(utxos'[o])
      OBVIOUS
    <2>1. utxos'[o] = [utxos[o] EXCEPT !.status = "Reserved", !.by = r]
      BY <1>1
    <2>2. CoinShape(utxos[o])
      BY DEF Shapes
    <2> QED
      BY <2>1, <2>2 DEF CoinShape
  <1>7. \A o \in DOMAIN utxos : o \notin S => utxos'[o] = utxos[o]
    BY <1>1
  <1>8. Shapes'
    <2>1. utxos' = [o \in DOMAIN utxos' |-> utxos'[o]]
      BY <1>1
    <2>2. requests' = [s \in DOMAIN requests' |-> requests'[s]]
      BY <1>2 DEF Shapes
    <2>3. \A s \in DOMAIN requests' : RequestShape(requests'[s])
      BY <1>3, <1>4, <1>5 DEF Shapes
    <2>4. \A o \in DOMAIN utxos' : CoinShape(utxos'[o])
      BY <1>3, <1>6, <1>7 DEF Shapes
    <2> QED
      BY <2>1, <2>2, <2>3, <2>4 DEF Shapes, CoinShape, RequestShape
  <1>9. PendingIsFree' /\ ChangeOfCompleted'
    BY <1>1, <1>3, <1>4, <1>5 DEF PendingIsFree, ChangeOfCompleted
  <1>10. ApprovedTogether'
    BY <1>1, <1>3, <1>4, <1>5 DEF ApprovedTogether, PayoutTx, Send
  <1>11. ReservationExact'
    <2>1. ASSUME NEW s \in DOMAIN requests' PROVE HoldsReservation(s)'
      <3>1. CASE s = r
        BY <1>3, <1>5, <1>6, <3>1 DEF HoldsReservation
      <3>2. CASE s # r
        <4>1. \A o \in requests[s].reserved : o \in DOMAIN utxos /\ o \notin S
                /\ utxos[o].status = "Reserved" /\ utxos[o].by = s
          BY <1>1, <1>3, <2>1 DEF ReservationExact, HoldsReservation
        <4> QED
          BY <1>3, <1>4, <1>7, <2>1, <3>2, <4>1 DEF HoldsReservation
      <3> QED
        BY <3>1, <3>2
    <2>2. ASSUME NEW o \in DOMAIN utxos', utxos'[o].status = "Reserved"
          PROVE  utxos'[o].by \in DOMAIN requests' /\ o \in requests'[utxos'[o].by].reserved
      <3>1. CASE o \in S
        BY <1>1, <1>3, <1>5, <1>6, <3>1
      <3>2. CASE o \notin S
        BY <1>1, <1>3, <1>4, <1>7, <2>2, <3>2 DEF ReservationExact, PendingIsFree
      <3> QED
        BY <3>1, <3>2
    <2> QED
      BY <2>1, <2>2 DEF ReservationExact
  <1> QED
    BY <1>8, <1>9, <1>10, <1>11

LEMMA ApproveKeepsCustody ==
  ASSUME CustodyInv, NEW r \in ReqId, NEW o \in DOMAIN utxos, NEW f \in 0..MaxMinerFee,
         ApproveSigning(r, o, f)
  PROVE  CustodyInv'
  <1> USE DEF CustodyInv
  <1> DEFINE q == requests[r]
             p == requests'[r]
  <1>1. /\ r \in DOMAIN requests /\ q.status = "Processing"
        /\ q.approved # {} => f = q.minerFee
        /\ o \in q.reserved
        /\ approvals' = approvals \cup {[tx |-> PayoutTx(q, f), input |-> o]}
        /\ requests' = [requests EXCEPT ![r] =
                          [q EXCEPT !.approved = @ \cup {o}, !.minerFee = f]]
        /\ UNCHANGED <<utxos, completed>>
    BY DEF ApproveSigning, Processing, Live, FeePinned
  <1>2. DOMAIN requests' = DOMAIN requests
    BY <1>1 DEF Shapes
  <1>3. \A s \in DOMAIN requests : s # r => requests'[s] = requests[s]
    BY <1>1 DEF Shapes
  <1>4. /\ RequestShape(p)
        /\ p.approved = q.approved \cup {o} /\ p.minerFee = f
        /\ p.status = q.status /\ p.reserved = q.reserved
        /\ PayoutTx(p, f) = PayoutTx(q, f)
    <2>1. p = [q EXCEPT !.approved = @ \cup {o}, !.minerFee = f]
      BY <1>1 DEF Shapes
    <2>2. RequestShape(q)
      BY <1>1 DEF Shapes
    <2> HIDE DEF p, q
    <2> QED
      BY <2>1, <2>2 DEF RequestShape, PayoutTx, Send
  <1>5. Shapes'
    <2>1. requests' = [s \in DOMAIN requests' |-> requests'[s]]
      BY <1>1 DEF Shapes
    <2>2. \A s \in DOMAIN requests' : RequestShape(requests'[s])
      BY <1>2, <1>3, <1>4 DEF Shapes
    <2> QED
      BY <1>1, <2>1, <2>2 DEF Shapes, CoinShape, RequestShape
  <1>6. PendingIsFree' /\ ChangeOfCompleted'
    BY <1>1, <1>2, <1>3, <1>4 DEF PendingIsFree, ChangeOfCompleted
  <1>7. ReservationExact'
    <2>1. \A s \in DOMAIN requests : requests'[s].reserved = requests[s].reserved
      BY <1>3, <1>4
    <2> QED
      BY <1>1, <1>2, <2>1 DEF ReservationExact, HoldsReservation
  <1>8. ApprovedTogether'
    <2> SUFFICES ASSUME NEW s \in DOMAIN requests'
                 PROVE  LET c == requests'[s]
                        IN  /\ c.approved \subseteq c.reserved
                            /\ c.approved # {} => c.minerFee \in 0..MaxMinerFee
                            /\ \A i \in c.approved :
                                 [tx |-> PayoutTx(c, c.minerFee), input |-> i] \in approvals'
      BY DEF ApprovedTogether, PayoutTx, Send
    <2>1. CASE s # r
      <3>1. requests'[s] = requests[s]
        BY <1>2, <1>3, <2>1
      <3> QED
        BY <1>1, <1>2, <3>1 DEF ApprovedTogether
    <2>2. CASE s = r
      <3>1. \A i \in q.approved : [tx |-> PayoutTx(q, f), input |-> i] \in approvals
        BY <1>1 DEF ApprovedTogether
      <3>2. q.approved \subseteq q.reserved
        BY <1>1 DEF ApprovedTogether
      <3> HIDE DEF q
      <3> QED
        BY <1>1, <1>4, <2>2, <3>1, <3>2
    <2> QED
      BY <2>1, <2>2
  <1> QED
    BY <1>5, <1>6, <1>7, <1>8

LEMMA CompleteKeepsCustody ==
  ASSUME CustodyInv, NEW r \in ReqId, NEW t \in confirmed, CompleteRedemption(r, t)
  PROVE  CustodyInv'
  <1> USE DEF CustodyInv
  <1> DEFINE q == requests[r]
             change == IF t.change > 0 THEN {ChangeOutput(t)} ELSE {}
  <1>1. /\ r \in DOMAIN requests
        /\ t \notin completed
        /\ HoldsReservation(r)
        /\ completed' = completed \cup {t}
        /\ utxos' = [o \in (DOMAIN utxos \ q.reserved) \cup change |->
                     IF o \in change THEN NewCoin(t.change) ELSE utxos[o]]
        /\ requests' = [s \in DOMAIN requests \ {r} |-> requests[s]]
        /\ UNCHANGED approvals
    BY DEF CompleteRedemption, Settles, Processing, Live
  <1>2. \A o \in change : o.of = {t} /\ o \notin DOMAIN utxos
    BY <1>1 DEF ChangeOfCompleted, ChangeOutput
  <1> HIDE DEF change
  <1>3. /\ DOMAIN utxos' = (DOMAIN utxos \ q.reserved) \cup change
        /\ \A o \in change : utxos'[o] = NewCoin(t.change)
        /\ \A o \in DOMAIN utxos : o \notin q.reserved => utxos'[o] = utxos[o]
    BY <1>1, <1>2
  <1>4. /\ DOMAIN requests' = DOMAIN requests \ {r}
        /\ \A s \in DOMAIN requests' : requests'[s] = requests[s]
    BY <1>1
  <1>5. Shapes'
    <2>1. utxos' = [o \in DOMAIN utxos' |-> utxos'[o]]
      BY <1>1
    <2>2. requests' = [s \in DOMAIN requests' |-> requests'[s]]
      BY <1>1
    <2>3. \A o \in DOMAIN utxos' : CoinShape(utxos'[o])
      BY <1>3 DEF Shapes, CoinShape, NewCoin
    <2>4. \A s \in DOMAIN requests' : RequestShape(requests'[s])
      BY <1>4 DEF Shapes
    <2> QED
      BY <2>1, <2>2, <2>3, <2>4 DEF Shapes, CoinShape, RequestShape
  <1>6. PendingIsFree'
    BY <1>4 DEF PendingIsFree
  <1>7. ApprovedTogether'
    BY <1>1, <1>4 DEF ApprovedTogether, PayoutTx, Send
  <1>8. ChangeOfCompleted'
    BY <1>1, <1>2, <1>3 DEF ChangeOfCompleted
  <1>9. ReservationExact'
    <2>1. ASSUME NEW s \in DOMAIN requests' PROVE HoldsReservation(s)'
      <3>1. s \in DOMAIN requests /\ s # r /\ requests'[s] = requests[s]
        BY <1>4
      <3>2. \A o \in requests[s].reserved :
              /\ o \in DOMAIN utxos /\ o \notin q.reserved
              /\ utxos[o].status = "Reserved" /\ utxos[o].by = s
        BY <1>1, <3>1 DEF ReservationExact, HoldsReservation
      <3> QED
        BY <1>3, <3>1, <3>2 DEF HoldsReservation
    <2>2. ASSUME NEW o \in DOMAIN utxos', utxos'[o].status = "Reserved"
          PROVE  utxos'[o].by \in DOMAIN requests' /\ o \in requests'[utxos'[o].by].reserved
      <3>1. o \in DOMAIN utxos /\ o \notin q.reserved /\ utxos'[o] = utxos[o]
        BY <1>2, <1>3, <2>2 DEF NewCoin
      <3>2. utxos[o].by \in DOMAIN requests /\ o \in requests[utxos[o].by].reserved
        BY <2>2, <3>1 DEF ReservationExact
      <3>3. utxos[o].by # r
        BY <3>1, <3>2
      <3> QED
        BY <1>4, <3>1, <3>2, <3>3
    <2> QED
      BY <2>1, <2>2 DEF ReservationExact
  <1> QED
    BY <1>5, <1>6, <1>7, <1>8, <1>9

LEMMA CancelKeepsCustody ==
  ASSUME CustodyInv, NEW r \in ReqId, CancelRedemption(r)
  PROVE  CustodyInv'
  <1> USE DEF CustodyInv
  <1> DEFINE q == requests[r]
  <1>1. /\ r \in DOMAIN requests
        /\ HoldsReservation(r)
        /\ utxos' = [o \in DOMAIN utxos |->
                     IF o \in q.reserved
                       THEN [utxos[o] EXCEPT !.status = "Unspent", !.by = NoRequest]
                       ELSE utxos[o]]
        /\ requests' = [s \in DOMAIN requests \ {r} |-> requests[s]]
        /\ UNCHANGED <<completed, approvals>>
    BY DEF CancelRedemption, Live
  <1>2. /\ DOMAIN utxos' = DOMAIN utxos
        /\ \A o \in DOMAIN utxos : o \notin q.reserved => utxos'[o] = utxos[o]
    BY <1>1
  <1>3. ASSUME NEW o \in DOMAIN utxos, o \in q.reserved
        PROVE  CoinShape(utxos'[o]) /\ utxos'[o].status = "Unspent"
    <2>1. utxos'[o] = [utxos[o] EXCEPT !.status = "Unspent", !.by = NoRequest]
      BY <1>1, <1>3
    <2>2. CoinShape(utxos[o])
      BY DEF Shapes
    <2> QED
      BY <2>1, <2>2 DEF CoinShape
  <1>4. /\ DOMAIN requests' = DOMAIN requests \ {r}
        /\ \A s \in DOMAIN requests' : requests'[s] = requests[s]
    BY <1>1
  <1>5. Shapes'
    <2>1. utxos' = [o \in DOMAIN utxos' |-> utxos'[o]]
      BY <1>1
    <2>2. requests' = [s \in DOMAIN requests' |-> requests'[s]]
      BY <1>1
    <2>3. \A o \in DOMAIN utxos' : CoinShape(utxos'[o])
      BY <1>2, <1>3 DEF Shapes
    <2>4. \A s \in DOMAIN requests' : RequestShape(requests'[s])
      BY <1>4 DEF Shapes
    <2> QED
      BY <2>1, <2>2, <2>3, <2>4 DEF Shapes, CoinShape, RequestShape
  <1>6. PendingIsFree' /\ ChangeOfCompleted'
    BY <1>1, <1>2, <1>4 DEF PendingIsFree, ChangeOfCompleted
  <1>7. ApprovedTogether'
    BY <1>1, <1>4 DEF ApprovedTogether, PayoutTx, Send
  <1>8. ReservationExact'
    <2>1. ASSUME NEW s \in DOMAIN requests' PROVE HoldsReservation(s)'
      <3>1. s \in DOMAIN requests /\ s # r /\ requests'[s] = requests[s]
        BY <1>4
      <3>2. \A o \in requests[s].reserved :
              /\ o \in DOMAIN utxos /\ o \notin q.reserved
              /\ utxos[o].status = "Reserved" /\ utxos[o].by = s
        <4>1. /\ \A o \in requests[s].reserved :
                   o \in DOMAIN utxos /\ utxos[o].status = "Reserved" /\ utxos[o].by = s
              /\ \A o \in q.reserved : utxos[o].by = r
          BY <1>1, <3>1 DEF ReservationExact, HoldsReservation
        <4> QED
          BY <3>1, <4>1
      <3> QED
        BY <1>2, <3>1, <3>2 DEF HoldsReservation
    <2>2. ASSUME NEW o \in DOMAIN utxos', utxos'[o].status = "Reserved"
          PROVE  utxos'[o].by \in DOMAIN requests' /\ o \in requests'[utxos'[o].by].reserved
      <3>1. o \in DOMAIN utxos /\ o \notin q.reserved /\ utxos'[o] = utxos[o]
        BY <1>2, <1>3, <2>2
      <3>2. utxos[o].by \in DOMAIN requests /\ o \in requests[utxos[o].by].reserved
        BY <2>2, <3>1 DEF ReservationExact
      <3> QED
        BY <1>4, <3>1, <3>2
    <2> QED
      BY <2>1, <2>2 DEF ReservationExact
  <1> QED
    BY <1>5, <1>6, <1>7, <1>8

LEMMA NextKeepsCustody == CustodyInv /\ [Next]_vars => CustodyInv'
  <1> SUFFICES ASSUME CustodyInv, [Next]_vars PROVE CustodyInv'
    OBVIOUS
  <1>1. ASSUME NEW amount \in ClaimAmounts, ClaimFees(amount) PROVE CustodyInv'
    BY <1>1, FrameCustody DEF ClaimFees
  <1>2. ASSUME NEW value \in PauseValues, SetPaused(value) PROVE CustodyInv'
    BY <1>2, FrameCustody DEF SetPaused
  <1>3. ASSUME NEW c \in TokenConfigs, UpdateTokenConfig(c) PROVE CustodyInv'
    BY <1>3, FrameCustody DEF UpdateTokenConfig
  <1>4. ASSUME NEW a \in approvals, ConfirmPayout(a.tx) PROVE CustodyInv'
    BY <1>4, FrameCustody DEF ConfirmPayout
  <1>5. ASSUME NextSlot PROVE CustodyInv'
    BY <1>5, FrameCustody DEF NextSlot
  <1>6. CASE UNCHANGED vars
    BY <1>6, FrameCustody DEF vars
  <1> QED
    BY <1>1, <1>2, <1>3, <1>4, <1>5, <1>6, DepositKeepsCustody, RedeemKeepsCustody,
       MarkKeepsCustody, ApproveKeepsCustody, CompleteKeepsCustody, CancelKeepsCustody
    DEF Next

LEMMA CustodyInvHolds == Spec => []CustodyInv
  BY InitCustody, NextKeepsCustody, PTL DEF Spec

\* However deposits, reservations, approvals, settlements and cancellations of any
\* number of requests interleave, a coin is reserved exactly when one live request
\* lists it.
THEOREM CoinsReservedExactly == Spec => []ReservationExact
  BY CustodyInvHolds, PTL DEF CustodyInv

\* A request that cancel_redemption refuses because it is signed always has one
\* transaction whose inputs are all approved.
THEOREM SignedCanBeBroadcast == Spec => []SignedIsBroadcastable
  <1>1. CustodyInv => SignedIsBroadcastable
    <2> SUFFICES ASSUME CustodyInv, NEW r \in DOMAIN requests, SigningApproved(requests[r])
                 PROVE  \E f \in 0..MaxMinerFee :
                          \A o \in requests[r].reserved :
                            [tx |-> PayoutTx(requests[r], f), input |-> o] \in approvals
      BY DEF SignedIsBroadcastable
    <2> DEFINE q == requests[r]
    <2>1. q.approved = q.reserved
      BY DEF SigningApproved
    <2>2. CASE q.reserved # {}
      <3>1. q.minerFee \in 0..MaxMinerFee
        BY <2>1, <2>2 DEF CustodyInv, ApprovedTogether
      <3>2. \A o \in q.reserved : [tx |-> PayoutTx(q, q.minerFee), input |-> o] \in approvals
        BY <2>1 DEF CustodyInv, ApprovedTogether
      <3> QED
        BY <3>1, <3>2
    <2>3. CASE q.reserved = {}
      <3>1. 0 \in 0..MaxMinerFee
        BY BridgeAssumption DEF BridgeAssumption
      <3> QED
        BY <2>3, <3>1
    <2> QED
      BY <2>2, <2>3
  <1> QED
    BY <1>1, CustodyInvHolds, PTL

-----------------------------------------------------------------------------
\* What mark_processing accepts, approve_redemption_signing can sign: a total that
\* covers the payout and the largest admissible fee leaves an admissible fee within
\* dust of that one, as soon as service fee and fee limit reach the dust threshold.
THEOREM CoveredIsSignable ==
  ASSUME NEW q, q.amount \in Nat, q.fee \in Nat, q.total \in Nat,
         Dust <= q.fee, Dust <= MaxMinerFee, Required(q) <= q.total
  PROVE  FullFees(q) # {}
  <1> DEFINE limit == SmallerOf(MaxMinerFee, q.fee)
             spare == q.total - Send(q)
             fee == IF spare - limit \in 1..Dust THEN spare - Dust - 1 ELSE limit
  <1>1. Dust \in Nat /\ MaxMinerFee \in Nat
    BY BridgeAssumption DEF BridgeAssumption
  <1>2. /\ limit \in Dust..MaxMinerFee /\ limit <= q.fee
        /\ Send(q) \in Int /\ spare \in Int /\ spare >= limit
    BY <1>1 DEF Required, SmallerOf, Send
  <1>3. fee \in 0..limit /\ fee + Dust >= limit /\ (spare - fee = 0 \/ spare - fee > Dust)
    BY <1>1, <1>2
  <1>4. EffectiveFee(q, PayoutTx(q, fee)) = fee
    <2>1. q.total - Send(q) - fee = spare - fee
      BY <1>2, <1>3
    <2>2. /\ PayoutTx(q, fee).send = Send(q)
          /\ PayoutTx(q, fee).change = IF spare - fee > Dust THEN spare - fee ELSE 0
      BY <2>1 DEF PayoutTx
    <2> HIDE DEF fee, spare
    <2> QED
      BY <1>1, <1>2, <1>3, <2>1, <2>2 DEF EffectiveFee
  <1>5. fee \in 0..MaxMinerFee /\ q.total >= Send(q) + fee
    BY <1>1, <1>2, <1>3
  <1> QED
    <2>1. FeeAdmissible(q, fee)
      BY <1>2, <1>3, <1>4, <1>5 DEF FeeAdmissible
    <2>2. fee + Dust >= SmallerOf(MaxMinerFee, q.fee)
      BY <1>3
    <2> HIDE DEF fee, limit, spare
    <2> QED
      BY <1>5, <2>1, <2>2 DEF FullFees

-----------------------------------------------------------------------------
(* Payouts from a single coin *)

\* Request q is signed, and t is what was signed.
Pays(q, t) ==
  /\ q.status = "Processing" /\ q.approved = q.reserved /\ q.reserved = t.inputs
  /\ PayoutTx(q, q.minerFee) = t

\* A transaction with one input is signed by one approval.  From then on it is settled,
\* or the payout of a live request, which cannot be cancelled any more.
SignedTracked ==
  /\ \A a \in approvals : a.input \in a.tx.inputs
  /\ \A t \in confirmed : \E a \in approvals : a.tx = t
  /\ \A a \in approvals :
       a.tx.inputs = {a.input} =>
         a.tx \in completed \/ \E r \in DOMAIN requests : Pays(requests[r], a.tx)

LEMMA InitTracked == Init => SignedTracked
  BY DEF Init, SignedTracked

\* Steps that leave the approvals alone, and each request that pays as it is.
LEMMA FrameTracked ==
  ASSUME SignedTracked, approvals' = approvals, completed' = completed,
         \A t \in confirmed' : t \in confirmed \/ \E a \in approvals : a.tx = t,
         \A r \in DOMAIN requests :
           requests[r].status = "Processing" /\ requests[r].approved = requests[r].reserved =>
             r \in DOMAIN requests' /\ requests'[r] = requests[r]
  PROVE  SignedTracked'
  <1>1. \A t \in confirmed' : \E a \in approvals' : a.tx = t
    BY DEF SignedTracked
  <1>2. ASSUME NEW a \in approvals', a.tx.inputs = {a.input}
        PROVE  a.tx \in completed' \/ \E r \in DOMAIN requests' : Pays(requests'[r], a.tx)
    <2>1. CASE a.tx \in completed
      BY <2>1
    <2>2. CASE \E r \in DOMAIN requests : Pays(requests[r], a.tx)
      <3>1. PICK r \in DOMAIN requests : Pays(requests[r], a.tx)
        BY <2>2
      <3>2. r \in DOMAIN requests' /\ requests'[r] = requests[r]
        BY <3>1 DEF Pays
      <3> QED
        BY <3>1, <3>2
    <2> QED
      BY <1>2, <2>1, <2>2 DEF SignedTracked
  <1> QED
    BY <1>1, <1>2 DEF SignedTracked, Pays, PayoutTx, Send

LEMMA ApproveKeepsTracked ==
  ASSUME CustodyInv, SignedTracked, NEW r \in ReqId, NEW o \in DOMAIN utxos,
         NEW f \in 0..MaxMinerFee, ApproveSigning(r, o, f)
  PROVE  SignedTracked'
  <1> DEFINE q == requests[r]
             p == requests'[r]
             new == [tx |-> PayoutTx(q, f), input |-> o]
  <1>1. /\ r \in DOMAIN requests /\ q.status = "Processing"
        /\ o \in q.reserved \ q.approved
        /\ approvals' = approvals \cup {new}
        /\ requests' = [requests EXCEPT ![r] =
                          [q EXCEPT !.approved = @ \cup {o}, !.minerFee = f]]
        /\ completed' = completed /\ confirmed' = confirmed
    BY DEF ApproveSigning, Processing, Live
  <1>2. /\ DOMAIN requests' = DOMAIN requests
        /\ \A s \in DOMAIN requests : s # r => requests'[s] = requests[s]
    BY <1>1 DEF CustodyInv, Shapes
  <1>3. /\ p.approved = q.approved \cup {o} /\ p.minerFee = f
        /\ p.status = q.status /\ p.reserved = q.reserved
        /\ PayoutTx(p, f) = PayoutTx(q, f)
    <2>1. p = [q EXCEPT !.approved = @ \cup {o}, !.minerFee = f]
      BY <1>1 DEF CustodyInv, Shapes
    <2>2. RequestShape(q)
      BY <1>1 DEF CustodyInv, Shapes
    <2> HIDE DEF p, q
    <2> QED
      BY <2>1, <2>2 DEF RequestShape, PayoutTx, Send
  <1>4. new.input = o /\ new.tx = PayoutTx(q, f) /\ new.tx.inputs = q.reserved
    BY DEF PayoutTx
  <1> HIDE DEF q, p, new
  <1>5. \A a \in approvals' : a.input \in a.tx.inputs
    BY <1>1, <1>4 DEF SignedTracked
  <1>6. \A t \in confirmed' : \E a \in approvals' : a.tx = t
    BY <1>1 DEF SignedTracked
  <1>7. ASSUME NEW a \in approvals', a.tx.inputs = {a.input}
        PROVE  a.tx \in completed' \/ \E s \in DOMAIN requests' : Pays(requests'[s], a.tx)
    <2>1. CASE a = new
      <3>1. q.reserved = {o} /\ p.approved = p.reserved
        <4>1. q.approved \subseteq q.reserved
          BY <1>1 DEF CustodyInv, ApprovedTogether, q
        <4> QED
          BY <1>3, <1>4, <1>7, <2>1, <4>1
      <3>2. Pays(p, a.tx)
        BY <1>1, <1>3, <1>4, <2>1, <3>1 DEF Pays
      <3> QED
        BY <1>1, <1>2, <3>2 DEF p
    <2>2. CASE a \in approvals /\ a.tx \in completed
      BY <1>1, <2>2
    <2>3. CASE a \in approvals /\ \E s \in DOMAIN requests : Pays(requests[s], a.tx)
      <3>1. PICK s \in DOMAIN requests : Pays(requests[s], a.tx)
        BY <2>3
      <3>2. s # r
        BY <1>1, <3>1 DEF Pays, q
      <3> QED
        BY <1>2, <3>1, <3>2
    <2> QED
      BY <1>1, <1>7, <2>1, <2>2, <2>3 DEF SignedTracked
  <1> QED
    BY <1>5, <1>6, <1>7 DEF SignedTracked, Pays, PayoutTx, Send

LEMMA SettleKeepsTracked ==
  ASSUME CustodyInv, SignedTracked, NEW r \in ReqId, NEW t \in confirmed, CompleteRedemption(r, t)
  PROVE  SignedTracked'
  <1> DEFINE q == requests[r]
  <1>1. /\ r \in DOMAIN requests
        /\ t \notin completed /\ t.inputs = q.reserved
        /\ completed' = completed \cup {t}
        /\ requests' = [s \in DOMAIN requests \ {r} |-> requests[s]]
        /\ approvals' = approvals /\ confirmed' = confirmed
    BY DEF CompleteRedemption, Settles, Processing, Live
  <1>2. ASSUME NEW a \in approvals, a.tx.inputs = {a.input}
        PROVE  a.tx \in completed' \/ \E s \in DOMAIN requests' : Pays(requests'[s], a.tx)
    <2>1. CASE a.tx \in completed
      BY <1>1, <2>1
    <2>2. CASE \E s \in DOMAIN requests : s # r /\ Pays(requests[s], a.tx)
      <3>1. PICK s \in DOMAIN requests : s # r /\ Pays(requests[s], a.tx)
        BY <2>2
      <3>2. s \in DOMAIN requests' /\ requests'[s] = requests[s]
        BY <1>1, <3>1
      <3> QED
        BY <3>1, <3>2
    <2>3. CASE Pays(q, a.tx)
      <3>1. PICK b \in approvals : b.tx = t
        BY DEF SignedTracked
      <3>2. q.reserved = {a.input} /\ b.tx.inputs = {b.input}
        BY <1>1, <1>2, <2>3, <3>1 DEF SignedTracked, Pays
      <3>3. PICK s \in DOMAIN requests : Pays(requests[s], t)
        BY <1>1, <3>1, <3>2 DEF SignedTracked
      <3>4. s = r
        <4>1. a.input \in requests[s].reserved /\ a.input \in q.reserved
          BY <1>1, <3>2, <3>3 DEF Pays
        <4> QED
          BY <1>1, <4>1 DEF CustodyInv, ReservationExact, HoldsReservation
      <3>5. a.tx = t
        BY <2>3, <3>3, <3>4 DEF Pays
      <3> QED
        BY <1>1, <3>5
    <2> QED
      BY <1>2, <2>1, <2>2, <2>3 DEF SignedTracked
  <1> QED
    BY <1>1, <1>2 DEF SignedTracked, Pays, PayoutTx, Send

LEMMA NextKeepsTracked == CustodyInv /\ SignedTracked /\ [Next]_vars => SignedTracked'
  <1> SUFFICES ASSUME CustodyInv, SignedTracked, [Next]_vars PROVE SignedTracked'
    OBVIOUS
  <1>1. ASSUME \/ \E d \in Deposits : CompleteDeposit(d)
               \/ \E amount \in ClaimAmounts : ClaimFees(amount)
               \/ \E value \in PauseValues : SetPaused(value)
               \/ \E c \in TokenConfigs : UpdateTokenConfig(c)
               \/ \E a \in approvals : ConfirmPayout(a.tx)
               \/ NextSlot
               \/ UNCHANGED vars
        PROVE  SignedTracked'
    <2>1. /\ UNCHANGED <<requests, approvals, completed>>
          /\ \A t \in confirmed' : t \in confirmed \/ \E a \in approvals : a.tx = t
      BY <1>1 DEF CompleteDeposit, ClaimFees, SetPaused, UpdateTokenConfig, ConfirmPayout,
                  NextSlot, vars
    <2> QED
      BY <2>1, FrameTracked
  <1>2. ASSUME NEW u \in User, NEW outs \in SUBSET Payouts, Redeem(u, outs)
        PROVE  SignedTracked'
    <2>1. /\ UNCHANGED <<approvals, completed, confirmed>>
          /\ \A r \in DOMAIN requests : r \in DOMAIN requests' /\ requests'[r] = requests[r]
      BY <1>2 DEF Redeem, Live
    <2> QED
      BY <2>1, FrameTracked
  <1>3. ASSUME NEW r \in ReqId, NEW S \in SUBSET DOMAIN utxos, MarkProcessing(r, S)
        PROVE  SignedTracked'
    <2>1. /\ UNCHANGED <<approvals, completed, confirmed>>
          /\ requests[r].status = "Pending"
      BY <1>3 DEF MarkProcessing
    <2>2. PICK p : requests' = [requests EXCEPT ![r] = p]
      BY <1>3 DEF MarkProcessing
    <2>3. \A s \in DOMAIN requests :
            s # r => s \in DOMAIN requests' /\ requests'[s] = requests[s]
      BY <2>2 DEF CustodyInv, Shapes
    <2> QED
      BY <2>1, <2>3, FrameTracked
  <1>4. ASSUME NEW r \in ReqId, CancelRedemption(r) PROVE SignedTracked'
    <2>1. /\ UNCHANGED <<approvals, completed, confirmed>>
          /\ ~(requests[r].status = "Processing" /\ requests[r].approved = requests[r].reserved)
          /\ \A s \in DOMAIN requests :
               s # r => s \in DOMAIN requests' /\ requests'[s] = requests[s]
      BY <1>4 DEF CancelRedemption, SigningApproved
    <2> QED
      BY <2>1, FrameTracked
  <1> QED
    BY <1>1, <1>2, <1>3, <1>4, ApproveKeepsTracked, SettleKeepsTracked DEF Next

LEMMA TrackedHolds == Spec => []SignedTracked
  BY InitTracked, NextKeepsTracked, CustodyInvHolds, PTL DEF Spec

\* cancel_redemption never releases the coin of a payout that was signed from one coin:
\* such a payout and its refund exclude each other.
THEOREM SinglePayoutOrRefund == Spec => []SingleInputStaysReserved
  <1>1. CustodyInv /\ SignedTracked => SingleInputStaysReserved
    BY DEF CustodyInv, ReservationExact, HoldsReservation, SignedTracked, Pays,
           SingleInputStaysReserved
  <1> QED
    BY <1>1, CustodyInvHolds, TrackedHolds, PTL

-----------------------------------------------------------------------------
(* Fees *)

LEMMA QuotientType == \A a \in Nat, b \in Nat \ {0} : a \div b \in Nat
  OBVIOUS

LEMMA ProductType == \A a, b \in Nat : a * b \in Nat
  OBVIOUS

LEMMA DepositFeeType == \A amount \in Nat : DepositFee(amount) \in Nat
  <1> SUFFICES ASSUME NEW amount \in Nat PROVE DepositFee(amount) \in Nat
    OBVIOUS
  <1>1. DepositBps \in Nat /\ DepositServiceFee \in Nat /\ BpsScale \in Nat \ {0}
    BY BridgeAssumption DEF BridgeAssumption
  <1>2. (amount * DepositBps) \div BpsScale \in Nat
    BY <1>1, ProductType, QuotientType
  <1> QED
    BY <1>1, <1>2 DEF DepositFee, ComputeBpsFee

LEMMA ServiceFeeType ==
  \A amount \in Nat : ComputeServiceFee(amount) \in Nat /\ ComputeServiceFee(amount) >= ServiceFeeBase
  <1> SUFFICES ASSUME NEW amount \in Nat
               PROVE  ComputeServiceFee(amount) \in Nat /\ ComputeServiceFee(amount) >= ServiceFeeBase
    OBVIOUS
  <1>1. WithdrawalBps \in Nat /\ ServiceFeeBase \in Nat /\ BpsScale \in Nat \ {0}
    BY BridgeAssumption DEF BridgeAssumption
  <1>2. (amount * WithdrawalBps) \div BpsScale \in Nat
    BY <1>1, ProductType, QuotientType
  <1> QED
    BY <1>1, <1>2 DEF ComputeServiceFee

-----------------------------------------------------------------------------
(* The worth of coins *)

\* The worth of the coins S of the records c.
WorthIn(c, S) == SumFunction([o \in S |-> c[o].amount])

LEMMA WorthIsWorthIn == \A S : Worth(S) = WorthIn(utxos, S)
  BY DEF Worth, WorthIn, Amount

LEMMA WorthAsSum ==
  ASSUME NEW c, NEW S, IsFiniteSet(S), NEW T \in SUBSET S
  PROVE  WorthIn(c, T) = SumFunctionOnSet([o \in S |-> c[o].amount], T)
  <1>1. IsFiniteSet(T)
    BY FS_Subset
  <1>2. \A o \in T : [p \in T |-> c[p].amount][o] = [p \in S |-> c[p].amount][o]
    OBVIOUS
  <1> QED
    BY <1>1, <1>2, SumCongruent DEF WorthIn, SumFunction

LEMMA WorthEmpty == \A c : WorthIn(c, {}) = 0
  BY SumEmpty DEF WorthIn, SumFunction

LEMMA WorthType ==
  ASSUME NEW c, NEW S, IsFiniteSet(S), \A o \in S : c[o].amount \in Nat
  PROVE  WorthIn(c, S) \in Nat
  BY SumType DEF WorthIn, SumFunction

LEMMA WorthSame ==
  ASSUME NEW c, NEW e, NEW S, IsFiniteSet(S), \A o \in S : c[o].amount = e[o].amount
  PROVE  WorthIn(c, S) = WorthIn(e, S)
  BY SumCongruent DEF WorthIn, SumFunction

LEMMA WorthUnion ==
  ASSUME NEW c, NEW S, IsFiniteSet(S), NEW T, IsFiniteSet(T), S \cap T = {},
         \A o \in S \cup T : c[o].amount \in Nat
  PROVE  WorthIn(c, S \cup T) = WorthIn(c, S) + WorthIn(c, T)
  <1> DEFINE f == [o \in S \cup T |-> c[o].amount]
  <1>1. IsFiniteSet(S \cup T)
    BY FS_Union
  <1>2. WorthIn(c, S) = SumFunctionOnSet(f, S) /\ WorthIn(c, T) = SumFunctionOnSet(f, T)
        /\ WorthIn(c, S \cup T) = SumFunctionOnSet(f, S \cup T)
    BY <1>1, WorthAsSum
  <1>3. \A o \in S \cup T : f[o] \in Int
    OBVIOUS
  <1> HIDE DEF f
  <1> QED
    BY <1>2, <1>3, SumUnion

LEMMA WorthDifference ==
  ASSUME NEW c, NEW S, IsFiniteSet(S), NEW T \in SUBSET S, \A o \in S : c[o].amount \in Nat
  PROVE  WorthIn(c, S \ T) = WorthIn(c, S) - WorthIn(c, T)
  <1>1. IsFiniteSet(T) /\ IsFiniteSet(S \ T) /\ (S \ T) \cup T = S /\ (S \ T) \cap T = {}
    BY FS_Subset
  <1>2. WorthIn(c, S) = WorthIn(c, S \ T) + WorthIn(c, T)
    BY <1>1, WorthUnion
  <1>3. WorthIn(c, S \ T) \in Nat /\ WorthIn(c, T) \in Nat
    BY <1>1, WorthType
  <1> QED
    BY <1>2, <1>3

LEMMA WorthOne ==
  ASSUME NEW c, NEW o, c[o].amount \in Nat
  PROVE  WorthIn(c, {o}) = c[o].amount
  <1> DEFINE f == [p \in {o} |-> c[p].amount]
  <1>1. IsFiniteSet({o}) /\ {o} \ {o} = {} /\ f[o] = c[o].amount
    BY FS_Singleton
  <1>2. SumFunctionOnSet(f, {o}) = f[o] + SumFunctionOnSet(f, {o} \ {o})
    BY <1>1, SumRemove
  <1>3. SumFunctionOnSet(f, {o} \ {o}) = 0
    BY <1>1, SumEmpty
  <1> QED
    BY <1>1, <1>2, <1>3 DEF WorthIn, SumFunction

-----------------------------------------------------------------------------
(* Types *)

\* What a request promises was checked when it was made: its fee leaves something to
\* pay, what it reserved is worth its total, and once it is processing that total
\* covers the payout and the largest admissible fee.
RequestSound(c, q) ==
  /\ q.fee = ComputeServiceFee(q.amount) /\ q.fee < q.amount
  /\ q.total = WorthIn(c, q.reserved)
  /\ q.status = "Processing" => Required(q) <= q.total

\* The amounts of a transaction.
PayoutSound(t) == t.send \in Nat /\ t.change \in Nat

\* The accounts and Bitcoin's transactions.
AccountsInv ==
  /\ TypeOK
  /\ IsFiniteSet(DOMAIN utxos)
  /\ \A r \in DOMAIN requests : RequestSound(utxos, requests[r])
  /\ \A a \in approvals : PayoutSound(a.tx)
  /\ \A t \in confirmed : PayoutSound(t)

\* The types that the steps have to restore, given a request's type over the coins D.
RequestOver(D) ==
  [amount : Nat, fee : Nat, script : {p.script : p \in Payouts},
   status : {"Pending", "Processing"}, slot : 0..(SlotMod - 1), total : Nat,
   reserved : SUBSET D, minerFee : 0..MaxMinerFee, approved : SUBSET D]

Coin == [amount : Nat, status : {"Unspent", "Reserved"}, by : ReqId \cup {NoRequest}]

PoolCounters == [shielded : Nat, fees : Nat, held : Nat, count : Nat, pending : Nat]

LEMMA TypeForm ==
  /\ TypeOK <=>
       /\ paused \in BOOLEAN
       /\ config \in TokenConfigs \cup {InitialConfig}
       /\ pool \in PoolCounters
       /\ tokens \in [vault : Nat, outside : Nat]
       /\ notes \in [User -> Nat]
       /\ receipts \subseteq Deposits
       /\ utxos \in [DOMAIN utxos -> Coin]
       /\ DOMAIN requests \subseteq ReqId
       /\ requests \in [DOMAIN requests -> RequestOver(DOMAIN utxos)]
       /\ slot \in 0..(SlotMod - 1)
  /\ TypeOK' <=>
       /\ paused' \in BOOLEAN
       /\ config' \in TokenConfigs \cup {InitialConfig}
       /\ pool' \in PoolCounters
       /\ tokens' \in [vault : Nat, outside : Nat]
       /\ notes' \in [User -> Nat]
       /\ receipts' \subseteq Deposits
       /\ utxos' \in [DOMAIN utxos' -> Coin]
       /\ DOMAIN requests' \subseteq ReqId
       /\ requests' \in [DOMAIN requests' -> RequestOver(DOMAIN utxos')]
       /\ slot' \in 0..(SlotMod - 1)
  BY DEF TypeOK, Request, Coin, RequestOver, PoolCounters

LEMMA InitAccounts == Init => AccountsInv
  <1> SUFFICES ASSUME Init PROVE AccountsInv
    OBVIOUS
  <1>1. DOMAIN utxos = {} /\ DOMAIN requests = {} /\ approvals = {} /\ confirmed = {}
    BY DEF Init
  <1>2. TypeOK
    <2>1. 0 \in 0..(SlotMod - 1)
      BY BridgeAssumption DEF BridgeAssumption
    <2>2. utxos \in [DOMAIN utxos -> Coin] /\ requests \in [DOMAIN requests -> RequestOver(DOMAIN utxos)]
      BY DEF Init
    <2> QED
      BY <2>1, <2>2, TypeForm DEF Init, PoolCounters
  <1> QED
    BY <1>1, <1>2, FS_EmptySet DEF AccountsInv

\* Steps that touch neither coins nor requests nor transactions.
LEMMA FrameAccounts ==
  ASSUME AccountsInv, UNCHANGED <<utxos, requests>>,
         approvals' = approvals, confirmed' = confirmed,
         paused' \in BOOLEAN, config' \in TokenConfigs \cup {InitialConfig},
         pool' \in PoolCounters,
         tokens' \in [vault : Nat, outside : Nat], notes' \in [User -> Nat],
         receipts' \subseteq Deposits, slot' \in 0..(SlotMod - 1)
  PROVE  AccountsInv'
  <1>1. TypeOK'
    BY TypeForm DEF AccountsInv
  <1> QED
    BY <1>1 DEF AccountsInv, RequestSound, PayoutSound, Required, Send, WorthIn, ComputeServiceFee

LEMMA SoundStays ==
  ASSUME NEW c, NEW e, NEW q, RequestSound(c, q), IsFiniteSet(q.reserved),
         \A o \in q.reserved : c[o].amount = e[o].amount
  PROVE  RequestSound(e, q)
  <1>1. WorthIn(c, q.reserved) = WorthIn(e, q.reserved)
    BY WorthSame
  <1> QED
    BY <1>1 DEF RequestSound

\* The facts about the accounts that the steps start from.
LEMMA PoolFacts ==
  ASSUME AccountsInv
  PROVE  /\ pool.shielded \in Nat /\ pool.fees \in Nat /\ pool.held \in Nat
         /\ pool.count \in Nat /\ pool.pending \in Nat
         /\ pool \in PoolCounters
         /\ tokens.vault \in Nat /\ tokens.outside \in Nat
         /\ tokens \in [vault : Nat, outside : Nat]
         /\ notes \in [User -> Nat]
  BY TypeForm DEF AccountsInv, PoolCounters

LEMMA CoinFacts ==
  ASSUME AccountsInv
  PROVE  \A o \in DOMAIN utxos : utxos[o] \in Coin /\ utxos[o].amount \in Nat
  BY TypeForm DEF AccountsInv, Coin

LEMMA FiniteFacts ==
  ASSUME AccountsInv
  PROVE  /\ IsFiniteSet(DOMAIN utxos) /\ IsFiniteSet(DOMAIN requests)
         /\ DOMAIN requests \subseteq ReqId
  <1>1. IsFiniteSet(ReqId)
    BY BridgeAssumption, FS_Product DEF BridgeAssumption, ReqId
  <1>2. DOMAIN requests \subseteq ReqId
    BY TypeForm DEF AccountsInv
  <1> QED
    BY <1>1, <1>2, FS_Subset DEF AccountsInv

LEMMA RequestFacts ==
  ASSUME AccountsInv, NEW r \in DOMAIN requests
  PROVE  /\ requests[r] \in RequestOver(DOMAIN utxos)
         /\ RequestSound(utxos, requests[r])
         /\ requests[r].amount \in Nat /\ requests[r].fee \in Nat
         /\ requests[r].total \in Nat
         /\ requests[r].reserved \subseteq DOMAIN utxos
         /\ IsFiniteSet(requests[r].reserved)
         /\ Send(requests[r]) \in Nat
  <1>1. requests[r] \in RequestOver(DOMAIN utxos)
    BY TypeForm DEF AccountsInv
  <1>2. /\ requests[r].amount \in Nat /\ requests[r].fee \in Nat
        /\ requests[r].total \in Nat
        /\ requests[r].reserved \subseteq DOMAIN utxos
    BY <1>1 DEF RequestOver
  <1>3. RequestSound(utxos, requests[r]) /\ requests[r].fee < requests[r].amount
    BY DEF AccountsInv, RequestSound
  <1>4. IsFiniteSet(requests[r].reserved)
    BY <1>2, FS_Subset DEF AccountsInv
  <1> QED
    BY <1>1, <1>2, <1>3, <1>4 DEF Send

\* The largest admissible fee of a request.
LEMMA RequiredType ==
  ASSUME NEW q, q.fee \in Nat, Send(q) \in Nat
  PROVE  Required(q) \in Nat /\ Required(q) >= Send(q)
  BY BridgeAssumption DEF BridgeAssumption, Required, SmallerOf

LEMMA ClaimFacts ==
  ASSUME AccountsInv, NEW amount \in ClaimAmounts, ClaimFees(amount)
  PROVE  /\ amount \in Nat /\ amount <= pool.fees
         /\ pool' \in PoolCounters
         /\ pool'.shielded = pool.shielded /\ pool'.fees = pool.fees - amount
         /\ pool'.held = pool.held /\ pool'.count = pool.count /\ pool'.pending = pool.pending
         /\ tokens' \in [vault : Nat, outside : Nat]
         /\ tokens'.vault = tokens.vault - amount /\ tokens'.outside = tokens.outside + amount
         /\ UNCHANGED <<paused, config, notes, receipts, utxos, requests, approvals, confirmed, slot>>
  <1>1. amount \in Nat
    BY BridgeAssumption DEF BridgeAssumption
  <1>2. /\ amount <= pool.fees /\ amount <= tokens.vault
        /\ tokens' = [vault |-> tokens.vault - amount, outside |-> tokens.outside + amount]
        /\ pool' = [pool EXCEPT !.fees = @ - amount]
        /\ UNCHANGED <<paused, config, notes, receipts, utxos, requests, approvals, confirmed, slot>>
    BY DEF ClaimFees
  <1>3. pool' = [pool EXCEPT !.shielded = pool.shielded, !.fees = pool.fees - amount,
                             !.held = pool.held, !.count = pool.count, !.pending = pool.pending]
    BY <1>2, PoolFacts DEF PoolCounters
  <1>4. pool.fees - amount \in Nat /\ tokens.vault - amount \in Nat /\ tokens.outside + amount \in Nat
    BY <1>1, <1>2, PoolFacts
  <1>5. /\ pool' \in PoolCounters
        /\ pool'.shielded = pool.shielded /\ pool'.fees = pool.fees - amount
        /\ pool'.held = pool.held /\ pool'.count = pool.count /\ pool'.pending = pool.pending
    BY <1>3, <1>4, PoolFacts DEF PoolCounters
  <1> QED
    BY <1>1, <1>2, <1>4, <1>5

LEMMA ClaimKeepsAccounts ==
  ASSUME AccountsInv, NEW amount \in ClaimAmounts, ClaimFees(amount)
  PROVE  AccountsInv'
  BY ClaimFacts, FrameAccounts, TypeForm DEF AccountsInv

LEMMA SettingKeepsAccounts ==
  ASSUME AccountsInv, \/ \E value \in PauseValues : SetPaused(value)
                      \/ \E c \in TokenConfigs : UpdateTokenConfig(c)
                      \/ NextSlot
                      \/ UNCHANGED vars
  PROVE  AccountsInv'
  <1>1. paused' \in BOOLEAN /\ config' \in TokenConfigs \cup {InitialConfig}
    BY BridgeAssumption, TypeForm
    DEF SetPaused, UpdateTokenConfig, NextSlot, vars, BridgeAssumption, AccountsInv
  <1>2. slot' \in 0..(SlotMod - 1)
    <2>1. SlotMod \in Nat \ {0} /\ slot \in 0..(SlotMod - 1)
      BY BridgeAssumption, TypeForm DEF BridgeAssumption, AccountsInv
    <2>2. (slot + 1) % SlotMod \in 0..(SlotMod - 1)
      BY <2>1
    <2> QED
      BY <2>1, <2>2 DEF SetPaused, UpdateTokenConfig, NextSlot, vars
  <1>3. UNCHANGED <<pool, tokens, notes, receipts, utxos, requests, approvals, confirmed>>
    BY DEF SetPaused, UpdateTokenConfig, NextSlot, vars
  <1> QED
    BY <1>1, <1>2, <1>3, FrameAccounts, TypeForm DEF AccountsInv

LEMMA ConfirmKeepsAccounts ==
  ASSUME AccountsInv, NEW a \in approvals, ConfirmPayout(a.tx)
  PROVE  AccountsInv'
  <1>1. /\ confirmed' = confirmed \cup {a.tx}
        /\ UNCHANGED <<paused, config, pool, tokens, notes, receipts, utxos, requests,
                       completed, approvals, slot>>
    BY DEF ConfirmPayout
  <1>2. TypeOK'
    BY <1>1, TypeForm DEF AccountsInv
  <1>3. \A t \in confirmed' : PayoutSound(t)
    BY <1>1 DEF AccountsInv
  <1> QED
    BY <1>1, <1>2, <1>3
    DEF AccountsInv, RequestSound, PayoutSound, Required, Send, WorthIn, ComputeServiceFee

LEMMA DepositFacts ==
  ASSUME AccountsInv, NEW d \in Deposits, CompleteDeposit(d)
  PROVE  LET fee == DepositFee(d.amount)
         IN  /\ d.user \in User /\ d.amount \in Nat /\ fee \in Nat /\ d.amount - fee \in Nat
             /\ pool' \in PoolCounters
             /\ pool'.shielded = pool.shielded + (d.amount - fee) /\ pool'.fees = pool.fees + fee
             /\ pool'.held = pool.held + d.amount /\ pool'.count = pool.count + 1
             /\ pool'.pending = pool.pending
             /\ tokens' \in [vault : Nat, outside : Nat]
             /\ tokens'.vault = tokens.vault + d.amount /\ tokens'.outside = tokens.outside
             /\ notes' = [notes EXCEPT ![d.user] = notes[d.user] + (d.amount - fee)]
             /\ d.output \notin DOMAIN utxos
             /\ DOMAIN utxos' = DOMAIN utxos \cup {d.output}
             /\ utxos' = [o \in DOMAIN utxos' |-> utxos'[o]]
             /\ \A o \in DOMAIN utxos : utxos'[o] = utxos[o]
             /\ utxos'[d.output] = NewCoin(d.amount)
             /\ receipts' = receipts \cup {d}
             /\ UNCHANGED <<paused, config, requests, approvals, confirmed, slot>>
  <1> DEFINE fee == DepositFee(d.amount)
             gain == d.amount - fee
  <1>1. d.user \in User /\ d.amount \in Nat /\ fee \in Nat /\ gain \in Nat
    <2>1. d.user \in User /\ d.amount \in Nat
      BY BridgeAssumption DEF BridgeAssumption
    <2>2. fee \in Nat /\ d.amount > fee
      BY <2>1, DepositFeeType DEF CompleteDeposit, AmountOk
    <2> HIDE DEF fee
    <2> QED
      BY <2>1, <2>2
  <1>2. /\ d.output \notin DOMAIN utxos
        /\ receipts' = receipts \cup {d}
        /\ notes' = [notes EXCEPT ![d.user] = notes[d.user] + gain]
        /\ utxos' = [o \in DOMAIN utxos \cup {d.output} |->
                       IF o = d.output THEN NewCoin(d.amount) ELSE utxos[o]]
        /\ tokens' = [tokens EXCEPT !.vault = @ + d.amount]
        /\ pool' = [pool EXCEPT !.shielded = @ + gain, !.fees = @ + fee,
                                !.held = @ + d.amount, !.count = @ + 1]
        /\ UNCHANGED <<paused, config, requests, approvals, confirmed, slot>>
    BY DEF CompleteDeposit, Unrecorded
  <1> HIDE DEF fee, gain
  <1>3. pool' = [pool EXCEPT !.shielded = pool.shielded + gain, !.fees = pool.fees + fee,
                             !.held = pool.held + d.amount, !.count = pool.count + 1,
                             !.pending = pool.pending]
    BY <1>2, PoolFacts DEF PoolCounters
  <1>4. /\ pool' \in PoolCounters
        /\ pool'.shielded = pool.shielded + gain /\ pool'.fees = pool.fees + fee
        /\ pool'.held = pool.held + d.amount /\ pool'.count = pool.count + 1
        /\ pool'.pending = pool.pending
    <2>1. /\ pool.shielded + gain \in Nat /\ pool.fees + fee \in Nat
          /\ pool.held + d.amount \in Nat /\ pool.count + 1 \in Nat
      BY <1>1, PoolFacts
    <2> QED
      BY <1>3, <2>1, PoolFacts DEF PoolCounters
  <1>5. /\ tokens' \in [vault : Nat, outside : Nat]
        /\ tokens'.vault = tokens.vault + d.amount /\ tokens'.outside = tokens.outside
    BY <1>1, <1>2, PoolFacts
  <1>6. /\ DOMAIN utxos' = DOMAIN utxos \cup {d.output}
        /\ utxos' = [o \in DOMAIN utxos' |-> utxos'[o]]
        /\ \A o \in DOMAIN utxos : utxos'[o] = utxos[o]
        /\ utxos'[d.output] = NewCoin(d.amount)
    BY <1>2
  <1> QED
    BY <1>1, <1>2, <1>4, <1>5, <1>6 DEF fee, gain

LEMMA DepositKeepsAccounts ==
  ASSUME AccountsInv, NEW d \in Deposits, CompleteDeposit(d)
  PROVE  AccountsInv'
  <1>1. d.amount \in Nat /\ UNCHANGED <<paused, config, requests, approvals, confirmed, slot>>
        /\ receipts' = receipts \cup {d}
    BY DepositFacts
  <1>2. pool' \in PoolCounters /\ tokens' \in [vault : Nat, outside : Nat]
    BY DepositFacts
  <1>3. notes' \in [User -> Nat]
    <2> DEFINE gain == d.amount - DepositFee(d.amount)
    <2>1. d.user \in User /\ gain \in Nat /\ notes' = [notes EXCEPT ![d.user] = notes[d.user] + gain]
      BY DepositFacts
    <2> HIDE DEF gain
    <2>2. notes \in [User -> Nat] /\ notes[d.user] + gain \in Nat
      BY <2>1, PoolFacts
    <2> QED
      BY <2>1, <2>2
  <1>4. /\ DOMAIN utxos' = DOMAIN utxos \cup {d.output}
        /\ \A o \in DOMAIN utxos : utxos'[o] = utxos[o]
        /\ utxos' \in [DOMAIN utxos' -> Coin]
    <2>1. NewCoin(d.amount) \in Coin
      BY <1>1 DEF NewCoin, Coin
    <2> QED
      BY <2>1, DepositFacts, CoinFacts
  <1>5. requests' \in [DOMAIN requests' -> RequestOver(DOMAIN utxos')]
    <2>1. requests \in [DOMAIN requests -> RequestOver(DOMAIN utxos)]
      BY TypeForm DEF AccountsInv
    <2>2. RequestOver(DOMAIN utxos) \subseteq RequestOver(DOMAIN utxos')
      BY <1>4 DEF RequestOver
    <2> QED
      BY <1>1, <2>1, <2>2
  <1>6. TypeOK'
    BY <1>1, <1>2, <1>3, <1>4, <1>5, TypeForm DEF AccountsInv
  <1>7. \A r \in DOMAIN requests' : RequestSound(utxos', requests'[r])
    <2> SUFFICES ASSUME NEW r \in DOMAIN requests PROVE RequestSound(utxos', requests[r])
      BY <1>1
    <2>1. RequestSound(utxos, requests[r]) /\ IsFiniteSet(requests[r].reserved)
          /\ requests[r].reserved \subseteq DOMAIN utxos
      BY RequestFacts
    <2> QED
      BY <1>4, <2>1, SoundStays
  <1>8. IsFiniteSet(DOMAIN utxos')
    BY <1>4, FiniteFacts, FS_AddElement
  <1> QED
    BY <1>1, <1>6, <1>7, <1>8
    DEF AccountsInv, RequestSound, PayoutSound, Required, Send, WorthIn, ComputeServiceFee

\* What a redemption asks for, and the requests it makes.
Asked(outs) == SumFunction([p \in outs |-> p.amount])
Ids(u, outs) == [p \in outs |-> <<u, p.nonce>>]
Made(u, outs) == {Ids(u, outs)[p] : p \in outs}

RedeemPays(u, outs) ==
  /\ Asked(outs) <= pool.shielded /\ Asked(outs) <= notes[u]
  /\ notes' = [notes EXCEPT ![u] = @ - Asked(outs)]
  /\ pool' = [pool EXCEPT !.shielded = @ - Asked(outs), !.pending = @ + Cardinality(outs)]
  /\ UNCHANGED <<paused, config, tokens, receipts, utxos, completed, approvals, confirmed, slot>>

RedeemRequests(u, outs) ==
  /\ \A p, q \in outs : Ids(u, outs)[p] = Ids(u, outs)[q] => p = q
  /\ Made(u, outs) \subseteq ReqId
  /\ Made(u, outs) \cap DOMAIN requests = {}
  /\ DOMAIN requests' = DOMAIN requests \cup Made(u, outs)
  /\ \A r \in DOMAIN requests : requests'[r] = requests[r]
  /\ \A p \in outs : /\ requests'[Ids(u, outs)[p]] = PendingRequest(p)
                     /\ ComputeServiceFee(p.amount) < p.amount

LEMMA AskedType ==
  ASSUME NEW outs, outs \subseteq Payouts
  PROVE  /\ IsFiniteSet(outs) /\ Cardinality(outs) \in Nat
         /\ Asked(outs) \in Nat
         /\ \A p \in outs : p.nonce \in Nonce /\ p.amount \in Nat
  <1>1. \A p \in outs : p.nonce \in Nonce /\ p.amount \in Nat
    BY BridgeAssumption DEF BridgeAssumption
  <1>2. IsFiniteSet(outs) /\ Cardinality(outs) \in Nat
    BY BridgeAssumption, FS_Subset, FS_CardinalityType DEF BridgeAssumption
  <1>3. Asked(outs) \in Nat
    BY <1>1, <1>2, SumType DEF SumFunction, Asked
  <1> QED
    BY <1>1, <1>2, <1>3

LEMMA RedeemEffect ==
  ASSUME NEW u \in User, NEW outs \in SUBSET Payouts, Redeem(u, outs)
  PROVE  RedeemPays(u, outs) /\ RedeemRequests(u, outs)
  <1>pays. RedeemPays(u, outs)
    BY DEF Redeem, Asked, RedeemPays
  <1> DEFINE id == [p \in outs |-> <<u, p.nonce>>]
             new == {id[p] : p \in outs}
  <1>1. /\ \A p, q \in outs : p.nonce = q.nonce => p = q
        /\ \A p \in outs : /\ ComputeServiceFee(p.amount) < p.amount
                           /\ <<u, p.nonce>> \notin DOMAIN requests
        /\ requests' = [r \in DOMAIN requests \cup {<<u, p.nonce>> : p \in outs} |->
                          IF r \in DOMAIN requests THEN requests[r]
                          ELSE PendingRequest(CHOOSE p \in outs : p.nonce = r[2])]
    BY DEF Redeem, Live
  <1>2. \A p, q \in outs : id[p] = id[q] => p = q
    BY <1>1
  <1>3. new = {<<u, p.nonce>> : p \in outs}
    OBVIOUS
  <1>4. new \subseteq ReqId /\ new \cap DOMAIN requests = {}
    BY <1>1, <1>3, AskedType DEF ReqId
  <1>5. /\ DOMAIN requests' = DOMAIN requests \cup new
        /\ \A r \in DOMAIN requests : requests'[r] = requests[r]
    BY <1>1, <1>3
  <1>6. ASSUME NEW p \in outs PROVE requests'[id[p]] = PendingRequest(p)
    <2>1. (CHOOSE q \in outs : q.nonce = p.nonce) = p
      BY <1>1
    <2>2. id[p] = <<u, p.nonce>> /\ id[p][2] = p.nonce /\ id[p] \notin DOMAIN requests
      BY <1>1
    <2>3. id[p] \in {<<u, q.nonce>> : q \in outs}
      BY <2>2
    <2> HIDE DEF id
    <2>4. requests'[id[p]] = PendingRequest(CHOOSE q \in outs : q.nonce = p.nonce)
      BY <1>1, <2>2, <2>3
    <2> QED
      BY <2>1, <2>4
  <1>7. id = Ids(u, outs) /\ new = Made(u, outs)
    BY DEF Ids, Made
  <1> HIDE DEF id, new
  <1> QED
    BY <1>pays, <1>1, <1>2, <1>4, <1>5, <1>6, <1>7 DEF RedeemRequests

\* A function whose values are all in T.
LEMMA FunctionInto ==
  ASSUME NEW f, NEW T, f = [x \in DOMAIN f |-> f[x]], \A x \in DOMAIN f : f[x] \in T
  PROVE  f \in [DOMAIN f -> T]
  OBVIOUS

LEMMA RedeemKeepsAccounts ==
  ASSUME CustodyInv', AccountsInv, NEW u \in User, NEW outs \in SUBSET Payouts, Redeem(u, outs)
  PROVE  AccountsInv'
  <1>pays. RedeemPays(u, outs)
    BY RedeemEffect
  <1>made. RedeemRequests(u, outs)
    BY RedeemEffect
  <1>1. ASSUME NEW p \in outs, ComputeServiceFee(p.amount) < p.amount
        PROVE  /\ PendingRequest(p) \in RequestOver(DOMAIN utxos)
               /\ RequestSound(utxos, PendingRequest(p))
    <2>1. p.amount \in Nat /\ ComputeServiceFee(p.amount) \in Nat
      BY AskedType, ServiceFeeType
    <2>2. SlotMod \in Nat \ {0} /\ MaxMinerFee \in Nat /\ p \in Payouts
      BY BridgeAssumption DEF BridgeAssumption
    <2>3. PendingRequest(p) \in RequestOver(DOMAIN utxos)
      BY <2>1, <2>2 DEF PendingRequest, RequestOver
    <2>4. RequestSound(utxos, PendingRequest(p))
      BY <1>1, WorthEmpty DEF PendingRequest, RequestSound
    <2> QED
      BY <2>3, <2>4
  <1>2. \A r \in DOMAIN requests' :
          requests'[r] \in RequestOver(DOMAIN utxos) /\ RequestSound(utxos, requests'[r])
    <2>1. \A r \in DOMAIN requests :
            requests'[r] \in RequestOver(DOMAIN utxos) /\ RequestSound(utxos, requests'[r])
      BY <1>made, RequestFacts DEF RedeemRequests
    <2>2. \A r \in Made(u, outs) :
            requests'[r] \in RequestOver(DOMAIN utxos) /\ RequestSound(utxos, requests'[r])
      <3>1. \A r \in Made(u, outs) : \E p \in outs : r = Ids(u, outs)[p]
        BY DEF Made
      <3> QED
        BY <1>1, <1>made, <3>1 DEF RedeemRequests
    <2> QED
      BY <1>made, <2>1, <2>2 DEF RedeemRequests
  <1>3. pool' \in PoolCounters
    <2>1. pool.shielded - Asked(outs) \in Nat /\ pool.pending + Cardinality(outs) \in Nat
      BY <1>pays, AskedType, PoolFacts DEF RedeemPays
    <2> QED
      BY <1>pays, <2>1, PoolFacts DEF PoolCounters, RedeemPays
  <1>4. notes' \in [User -> Nat]
    <2>1. notes \in [User -> Nat] /\ notes[u] - Asked(outs) \in Nat
      BY <1>pays, AskedType, PoolFacts DEF RedeemPays
    <2> QED
      BY <1>pays, <2>1 DEF RedeemPays
  <1>5. UNCHANGED <<paused, config, tokens, receipts, utxos, completed, approvals, confirmed, slot>>
    BY <1>pays DEF RedeemPays
  <1>6. TypeOK'
    <2>1. DOMAIN requests' \subseteq ReqId
      BY <1>made, FiniteFacts DEF RedeemRequests
    <2>2. requests' \in [DOMAIN requests' -> RequestOver(DOMAIN utxos)]
      BY <1>2, FunctionInto DEF CustodyInv, Shapes
    <2> QED
      BY <1>3, <1>4, <1>5, <2>1, <2>2, TypeForm DEF AccountsInv
  <1> QED
    BY <1>2, <1>5, <1>6
    DEF AccountsInv, RequestSound, PayoutSound, Required, Send, WorthIn, ComputeServiceFee

-----------------------------------------------------------------------------
\* A reservation: the coins S, all unspent, become request r's.
LEMMA MarkGuard ==
  ASSUME AccountsInv, NEW r \in ReqId, NEW S \in SUBSET DOMAIN utxos, MarkProcessing(r, S)
  PROVE  /\ r \in DOMAIN requests /\ requests[r].status = "Pending"
         /\ IsFiniteSet(S) /\ Cardinality(S) \in Nat /\ Cardinality(S) <= pool.count
         /\ WorthIn(utxos, S) \in Nat /\ WorthIn(utxos, S) <= pool.held
         /\ Required(requests[r]) <= WorthIn(utxos, S)
         /\ \A o \in S : utxos[o].status = "Unspent"
  <1>1. /\ r \in DOMAIN requests /\ requests[r].status = "Pending"
        /\ \A o \in S : utxos[o].status = "Unspent"
        /\ WorthIn(utxos, S) >= Required(requests[r])
        /\ WorthIn(utxos, S) <= pool.held /\ Cardinality(S) <= pool.count
    BY WorthIsWorthIn DEF MarkProcessing, Live, Available, CoversMinimally
  <1>2. IsFiniteSet(S) /\ Cardinality(S) \in Nat
    BY FiniteFacts, FS_Subset, FS_CardinalityType
  <1>3. WorthIn(utxos, S) \in Nat
    BY <1>2, CoinFacts, WorthType
  <1>4. Required(requests[r]) \in Nat
    BY <1>1, RequestFacts, RequiredType
  <1> QED
    BY <1>1, <1>2, <1>3, <1>4

LEMMA MarkPool ==
  ASSUME AccountsInv, NEW r \in ReqId, NEW S \in SUBSET DOMAIN utxos, MarkProcessing(r, S)
  PROVE  /\ pool' \in PoolCounters
         /\ pool'.shielded = pool.shielded /\ pool'.fees = pool.fees
         /\ pool'.held = pool.held - WorthIn(utxos, S)
         /\ pool'.count = pool.count - Cardinality(S)
         /\ pool'.pending = pool.pending
         /\ UNCHANGED <<paused, config, tokens, notes, receipts, completed, approvals,
                        confirmed, slot>>
  <1>1. /\ pool' = [pool EXCEPT !.held = @ - WorthIn(utxos, S), !.count = @ - Cardinality(S)]
        /\ UNCHANGED <<paused, config, tokens, notes, receipts, completed, approvals,
                       confirmed, slot>>
    BY WorthIsWorthIn DEF MarkProcessing
  <1>2. pool.held - WorthIn(utxos, S) \in Nat /\ pool.count - Cardinality(S) \in Nat
    <2>1. pool.held \in Nat /\ pool.count \in Nat
      BY PoolFacts
    <2> QED
      BY <2>1, MarkGuard
  <1> QED
    BY <1>1, <1>2, PoolFacts DEF PoolCounters

LEMMA MarkCoins ==
  ASSUME AccountsInv, NEW r \in ReqId, NEW S \in SUBSET DOMAIN utxos, MarkProcessing(r, S)
  PROVE  /\ DOMAIN utxos' = DOMAIN utxos
         /\ \A o \in DOMAIN utxos : /\ utxos'[o] \in Coin
                                    /\ utxos'[o].amount = utxos[o].amount
                                    /\ o \in S => utxos'[o].status = "Reserved"
                                    /\ o \notin S => utxos'[o].status = utxos[o].status
  <1>1. utxos' = [o \in DOMAIN utxos |->
                    IF o \in S THEN [utxos[o] EXCEPT !.status = "Reserved", !.by = r]
                               ELSE utxos[o]]
    BY DEF MarkProcessing
  <1>2. ASSUME NEW o \in DOMAIN utxos
        PROVE  /\ utxos'[o] \in Coin
               /\ utxos'[o].amount = utxos[o].amount
               /\ o \in S => utxos'[o].status = "Reserved"
               /\ o \notin S => utxos'[o].status = utxos[o].status
    <2>1. utxos[o] \in Coin
      BY CoinFacts
    <2>2. utxos'[o] = IF o \in S THEN [utxos[o] EXCEPT !.status = "Reserved", !.by = r]
                                 ELSE utxos[o]
      BY <1>1
    <2> QED
      BY <2>1, <2>2 DEF Coin
  <1> QED
    BY <1>1, <1>2

LEMMA MarkRequests ==
  ASSUME CustodyInv, AccountsInv, NEW r \in ReqId, NEW S \in SUBSET DOMAIN utxos,
         MarkProcessing(r, S)
  PROVE  /\ DOMAIN requests' = DOMAIN requests
         /\ \A s \in DOMAIN requests : s # r => requests'[s] = requests[s]
         /\ requests'[r] = [requests[r] EXCEPT !.status = "Processing", !.slot = slot,
                                               !.total = WorthIn(utxos, S), !.reserved = S]
  <1>1. requests' = [requests EXCEPT ![r] =
                       [requests[r] EXCEPT !.status = "Processing", !.slot = slot,
                                           !.total = WorthIn(utxos, S), !.reserved = S]]
    BY WorthIsWorthIn DEF MarkProcessing
  <1>2. r \in DOMAIN requests
    BY MarkGuard
  <1> QED
    BY <1>1, <1>2 DEF CustodyInv, Shapes

LEMMA MarkKeepsAccounts ==
  ASSUME CustodyInv, CustodyInv', AccountsInv,
         NEW r \in ReqId, NEW S \in SUBSET DOMAIN utxos, MarkProcessing(r, S)
  PROVE  AccountsInv'
  <1>1. /\ requests'[r] \in RequestOver(DOMAIN utxos)
        /\ RequestSound(utxos, requests'[r])
    <2> DEFINE q == requests[r]
               p == requests'[r]
    <2>1. q \in RequestOver(DOMAIN utxos) /\ RequestSound(utxos, q)
      BY MarkGuard, RequestFacts
    <2>2. slot \in 0..(SlotMod - 1)
      BY TypeForm DEF AccountsInv
    <2>3. p = [q EXCEPT !.status = "Processing", !.slot = slot,
                        !.total = WorthIn(utxos, S), !.reserved = S]
      BY MarkRequests
    <2>4. WorthIn(utxos, S) \in Nat /\ Required(q) <= WorthIn(utxos, S)
      BY MarkGuard
    <2> HIDE DEF q, p
    <2>5. p \in RequestOver(DOMAIN utxos)
      BY <2>1, <2>2, <2>3, <2>4 DEF RequestOver
    <2>6. p.fee = q.fee /\ p.amount = q.amount /\ p.total = WorthIn(utxos, S) /\ p.reserved = S
      BY <2>1, <2>3 DEF RequestOver
    <2>7. Required(p) = Required(q)
      BY <2>6 DEF Required, Send
    <2>8. RequestSound(utxos, p)
      BY <2>1, <2>4, <2>6, <2>7 DEF RequestSound
    <2> QED
      BY <2>5, <2>8 DEF p
  <1>2. \A s \in DOMAIN requests :
          requests'[s] \in RequestOver(DOMAIN utxos) /\ RequestSound(utxos, requests'[s])
    <2> SUFFICES ASSUME NEW s \in DOMAIN requests
                 PROVE  requests'[s] \in RequestOver(DOMAIN utxos) /\ RequestSound(utxos, requests'[s])
      OBVIOUS
    <2>1. CASE s = r
      BY <1>1, <2>1
    <2>2. CASE s # r
      BY <2>2, MarkRequests, RequestFacts
    <2> QED
      BY <2>1, <2>2
  <1>3. DOMAIN requests' = DOMAIN requests /\ DOMAIN utxos' = DOMAIN utxos
    BY MarkRequests, MarkCoins
  <1>4. \A s \in DOMAIN requests' : RequestSound(utxos', requests'[s])
    <2> SUFFICES ASSUME NEW s \in DOMAIN requests PROVE RequestSound(utxos', requests'[s])
      BY <1>3
    <2>1. requests'[s].reserved \subseteq DOMAIN utxos
      BY <1>2 DEF RequestOver
    <2>2. IsFiniteSet(requests'[s].reserved)
      BY <2>1, FiniteFacts, FS_Subset
    <2>3. \A o \in requests'[s].reserved : utxos[o].amount = utxos'[o].amount
      BY <2>1, MarkCoins
    <2> QED
      BY <1>2, <2>2, <2>3, SoundStays
  <1>5. TypeOK'
    <2>1. requests' \in [DOMAIN requests' -> RequestOver(DOMAIN utxos')]
      BY <1>2, <1>3, FunctionInto DEF CustodyInv, Shapes
    <2>2. utxos' \in [DOMAIN utxos' -> Coin]
      BY <1>3, MarkCoins, FunctionInto DEF CustodyInv, Shapes
    <2> QED
      BY <1>3, <2>1, <2>2, MarkPool, FiniteFacts, TypeForm DEF AccountsInv
  <1>6. UNCHANGED <<approvals, confirmed>>
    BY MarkPool
  <1> QED
    BY <1>3, <1>4, <1>5, <1>6
    DEF AccountsInv, RequestSound, PayoutSound, Required, Send, WorthIn, ComputeServiceFee

-----------------------------------------------------------------------------
\* The amounts of the transaction that a request in order is paid with.
LEMMA PayoutTxSound ==
  ASSUME NEW q, Send(q) \in Nat, q.total \in Nat, NEW f \in Nat
  PROVE  PayoutSound(PayoutTx(q, f))
  <1>1. Dust \in Nat
    BY BridgeAssumption DEF BridgeAssumption
  <1>2. /\ PayoutTx(q, f).send = Send(q)
        /\ PayoutTx(q, f).change = IF q.total - Send(q) - f > Dust
                                     THEN q.total - Send(q) - f ELSE 0
    BY DEF PayoutTx
  <1> QED
    BY <1>1, <1>2 DEF PayoutSound

ApproveEffect(r, o, f) ==
  /\ r \in DOMAIN requests /\ o \in requests[r].reserved
  /\ approvals' = approvals \cup {[tx |-> PayoutTx(requests[r], f), input |-> o]}
  /\ DOMAIN requests' = DOMAIN requests
  /\ \A s \in DOMAIN requests : s # r => requests'[s] = requests[s]
  /\ requests'[r] = [requests[r] EXCEPT !.approved = requests[r].approved \cup {o}, !.minerFee = f]
  /\ UNCHANGED <<paused, config, pool, tokens, notes, receipts, utxos, completed, confirmed, slot>>

LEMMA ApproveDone ==
  ASSUME CustodyInv, NEW r \in ReqId, NEW o \in DOMAIN utxos, NEW f \in 0..MaxMinerFee,
         ApproveSigning(r, o, f)
  PROVE  ApproveEffect(r, o, f)
  <1>1. /\ r \in DOMAIN requests /\ o \in requests[r].reserved
        /\ approvals' = approvals \cup {[tx |-> PayoutTx(requests[r], f), input |-> o]}
        /\ requests' = [requests EXCEPT ![r] =
             [requests[r] EXCEPT !.approved = requests[r].approved \cup {o}, !.minerFee = f]]
        /\ UNCHANGED <<paused, config, pool, tokens, notes, receipts, utxos, completed,
                       confirmed, slot>>
    BY DEF ApproveSigning, Processing, Live
  <1>2. /\ DOMAIN requests' = DOMAIN requests
        /\ \A s \in DOMAIN requests : s # r => requests'[s] = requests[s]
        /\ requests'[r] = [requests[r] EXCEPT !.approved = requests[r].approved \cup {o},
                                              !.minerFee = f]
    BY <1>1 DEF CustodyInv, Shapes
  <1> QED
    BY <1>1, <1>2 DEF ApproveEffect

LEMMA ApproveKeepsAccounts ==
  ASSUME CustodyInv, CustodyInv', AccountsInv, NEW r \in ReqId, NEW o \in DOMAIN utxos,
         NEW f \in 0..MaxMinerFee, ApproveSigning(r, o, f)
  PROVE  AccountsInv'
  <1> DEFINE q == requests[r]
             p == requests'[r]
  <1>1. ApproveEffect(r, o, f)
    BY ApproveDone
  <1>2. r \in DOMAIN requests
    BY <1>1 DEF ApproveEffect
  <1>3. p \in RequestOver(DOMAIN utxos) /\ RequestSound(utxos, p)
    <2>1. q \in RequestOver(DOMAIN utxos) /\ RequestSound(utxos, q)
      BY <1>2, RequestFacts
    <2>2. p = [q EXCEPT !.approved = q.approved \cup {o}, !.minerFee = f]
      BY <1>1 DEF ApproveEffect
    <2> HIDE DEF q, p
    <2>3. p \in RequestOver(DOMAIN utxos)
      BY <2>1, <2>2 DEF RequestOver
    <2>4. /\ p.fee = q.fee /\ p.amount = q.amount /\ p.total = q.total /\ p.reserved = q.reserved
          /\ p.status = q.status
      BY <2>1, <2>2 DEF RequestOver
    <2>5. Required(p) = Required(q)
      BY <2>4 DEF Required, Send
    <2> QED
      BY <2>1, <2>3, <2>4, <2>5 DEF RequestSound
  <1>4. \A s \in DOMAIN requests' :
          requests'[s] \in RequestOver(DOMAIN utxos) /\ RequestSound(utxos, requests'[s])
    <2> SUFFICES ASSUME NEW s \in DOMAIN requests
                 PROVE  requests'[s] \in RequestOver(DOMAIN utxos) /\ RequestSound(utxos, requests'[s])
      BY <1>1 DEF ApproveEffect
    <2>1. CASE s = r
      BY <1>3, <2>1
    <2>2. CASE s # r
      BY <1>1, <2>2, RequestFacts DEF ApproveEffect
    <2> QED
      BY <2>1, <2>2
  <1>5. \A a \in approvals' : PayoutSound(a.tx)
    <2>1. PayoutSound(PayoutTx(q, f))
      <3>1. Send(q) \in Nat /\ q.total \in Nat
        BY <1>2, RequestFacts
      <3>2. f \in Nat
        BY BridgeAssumption DEF BridgeAssumption
      <3> QED
        BY <3>1, <3>2, PayoutTxSound
    <2> QED
      BY <1>1, <2>1 DEF ApproveEffect, AccountsInv
  <1>6. /\ UNCHANGED <<paused, config, pool, tokens, notes, receipts, utxos, completed,
                       confirmed, slot>>
        /\ DOMAIN requests' = DOMAIN requests
    BY <1>1 DEF ApproveEffect
  <1>7. TypeOK'
    <2>1. requests' \in [DOMAIN requests' -> RequestOver(DOMAIN utxos)]
      BY <1>4, FunctionInto DEF CustodyInv, Shapes
    <2> QED
      BY <1>6, <2>1, FiniteFacts, TypeForm DEF AccountsInv
  <1> QED
    BY <1>4, <1>5, <1>6, <1>7
    DEF AccountsInv, RequestSound, PayoutSound, Required, Send, WorthIn, ComputeServiceFee

-----------------------------------------------------------------------------
\* What is burned when the payout t settles request q: all that left custody.
LEMMA BurnedAmount ==
  ASSUME NEW q, q.total \in Nat, NEW t, PayoutSound(t)
  PROVE  t.send + EffectiveFee(q, t) = q.total - t.change
  BY DEF PayoutSound, EffectiveFee

ChangeOf(t) == IF t.change > 0 THEN {ChangeOutput(t)} ELSE {}

SettleEffect(r, t) ==
  LET q == requests[r]
      burned == q.total - t.change
  IN  /\ r \in DOMAIN requests /\ q.status = "Processing"
      /\ burned \in 0..q.amount /\ burned <= tokens.vault
      /\ tokens' = [tokens EXCEPT !.vault = @ - burned]
      /\ pool' = [pool EXCEPT !.fees = @ + (q.amount - burned), !.held = @ + t.change,
                              !.count = @ + Cardinality(ChangeOf(t)),
                              !.pending = LargerOf(0, @ - 1)]
      /\ UNCHANGED <<paused, config, notes, receipts, approvals, confirmed, slot>>

SettleCoins(r, t) ==
  /\ ChangeOf(t) \cap DOMAIN utxos = {}
  /\ DOMAIN utxos' = (DOMAIN utxos \ requests[r].reserved) \cup ChangeOf(t)
  /\ \A o \in DOMAIN utxos \ requests[r].reserved : utxos'[o] = utxos[o]
  /\ \A o \in ChangeOf(t) : utxos'[o] = NewCoin(t.change)

\* A request is closed, by settlement or by cancellation.
Closes(r) ==
  /\ DOMAIN requests' = DOMAIN requests \ {r}
  /\ \A s \in DOMAIN requests' : requests'[s] = requests[s]

LEMMA SettleDone ==
  ASSUME CustodyInv, AccountsInv, NEW r \in ReqId, NEW t \in confirmed, CompleteRedemption(r, t)
  PROVE  SettleEffect(r, t) /\ SettleCoins(r, t) /\ Closes(r)
  <1> DEFINE q == requests[r]
             burned == t.send + EffectiveFee(q, t)
  <1>1. /\ r \in DOMAIN requests /\ q.status = "Processing" /\ t \notin completed
        /\ EffectiveFee(q, t) \in 0..MaxMinerFee
        /\ burned <= q.amount /\ burned <= tokens.vault
    BY DEF CompleteRedemption, Settles, Processing, Live
  <1>2. /\ tokens' = [tokens EXCEPT !.vault = @ - burned]
        /\ pool' = [pool EXCEPT !.fees = @ + (q.amount - burned), !.held = @ + t.change,
                                !.count = @ + Cardinality(ChangeOf(t)),
                                !.pending = LargerOf(0, @ - 1)]
        /\ UNCHANGED <<paused, config, notes, receipts, approvals, confirmed, slot>>
    BY DEF CompleteRedemption, ProtocolRevenue, ChangeOf
  <1>3. /\ utxos' = [o \in (DOMAIN utxos \ q.reserved) \cup ChangeOf(t) |->
                       IF o \in ChangeOf(t) THEN NewCoin(t.change) ELSE utxos[o]]
        /\ requests' = [s \in DOMAIN requests \ {r} |-> requests[s]]
    BY DEF CompleteRedemption, ChangeOf
  <1>4. PayoutSound(t)
    BY DEF AccountsInv
  <1>5. q.total \in Nat /\ q.amount \in Nat
    BY <1>1, RequestFacts
  <1>6. burned = q.total - t.change
    BY <1>4, <1>5, BurnedAmount
  <1>7. burned \in 0..q.amount
    <2>1. MaxMinerFee \in Nat
      BY BridgeAssumption DEF BridgeAssumption
    <2>2. t.send \in Nat
      BY <1>4 DEF PayoutSound
    <2> QED
      BY <1>1, <1>5, <2>1, <2>2
  <1>8. ChangeOf(t) \cap DOMAIN utxos = {}
    BY <1>1 DEF CustodyInv, ChangeOfCompleted, ChangeOutput, ChangeOf
  <1>9. SettleCoins(r, t) /\ Closes(r)
    BY <1>3, <1>8 DEF SettleCoins, Closes
  <1> HIDE DEF burned
  <1>10. SettleEffect(r, t)
    BY <1>1, <1>2, <1>6, <1>7 DEF SettleEffect
  <1> QED
    BY <1>9, <1>10

LEMMA LargerType == \A n \in Nat : LargerOf(0, n - 1) \in Nat
  BY DEF LargerOf

LEMMA ChangeOfType ==
  ASSUME NEW t, PayoutSound(t)
  PROVE  /\ IsFiniteSet(ChangeOf(t)) /\ Cardinality(ChangeOf(t)) \in Nat
         /\ t.change = 0 => ChangeOf(t) = {}
         /\ t.change # 0 => ChangeOf(t) = {ChangeOutput(t)}
  <1>1. \/ t.change = 0 /\ ChangeOf(t) = {}
        \/ t.change # 0 /\ ChangeOf(t) = {ChangeOutput(t)}
    BY DEF PayoutSound, ChangeOf
  <1>2. /\ IsFiniteSet({}) /\ Cardinality({}) = 0
        /\ IsFiniteSet({ChangeOutput(t)}) /\ Cardinality({ChangeOutput(t)}) = 1
    BY FS_EmptySet, FS_Singleton, Zenon
  <1> QED
    BY <1>1, <1>2

\* The requests that stay when one is closed, over the coins that stay.
LEMMA ClosesKeepsRequests ==
  ASSUME CustodyInv', AccountsInv, NEW r, Closes(r),
         \A s \in DOMAIN requests' : \A o \in requests[s].reserved :
           utxos'[o].amount = utxos[o].amount
  PROVE  \A s \in DOMAIN requests' :
           /\ requests'[s] \in RequestOver(DOMAIN utxos')
           /\ RequestSound(utxos', requests'[s])
  <1> SUFFICES ASSUME NEW s \in DOMAIN requests'
               PROVE  /\ requests'[s] \in RequestOver(DOMAIN utxos')
                      /\ RequestSound(utxos', requests'[s])
    OBVIOUS
  <1>1. s \in DOMAIN requests /\ requests'[s] = requests[s]
    BY DEF Closes
  <1>2. requests[s] \in RequestOver(DOMAIN utxos) /\ RequestSound(utxos, requests[s])
        /\ IsFiniteSet(requests[s].reserved)
    BY <1>1, RequestFacts
  <1>3. requests[s].reserved \subseteq DOMAIN utxos'
    BY <1>1 DEF CustodyInv, ReservationExact, HoldsReservation
  <1>4. requests[s].approved \subseteq DOMAIN utxos'
    BY <1>1, <1>3 DEF CustodyInv, ApprovedTogether
  <1>5. requests'[s] \in RequestOver(DOMAIN utxos')
    BY <1>1, <1>2, <1>3, <1>4 DEF RequestOver
  <1>6. RequestSound(utxos', requests[s])
    BY <1>1, <1>2, SoundStays
  <1> QED
    BY <1>1, <1>5, <1>6

LEMMA SettleKeepsAccounts ==
  ASSUME CustodyInv, CustodyInv', AccountsInv,
         NEW r \in ReqId, NEW t \in confirmed, CompleteRedemption(r, t)
  PROVE  AccountsInv'
  <1> DEFINE q == requests[r]
             burned == q.total - t.change
  <1>1. SettleEffect(r, t) /\ SettleCoins(r, t) /\ Closes(r)
    BY SettleDone
  <1>2. PayoutSound(t) /\ t.change \in Nat
    BY DEF AccountsInv, PayoutSound
  <1>3. r \in DOMAIN requests /\ q.amount \in Nat /\ q.total \in Nat
    BY <1>1, RequestFacts DEF SettleEffect
  <1>4. pool' \in PoolCounters
    <2>1. /\ burned \in 0..q.amount
          /\ pool' = [pool EXCEPT !.fees = @ + (q.amount - burned), !.held = @ + t.change,
                                  !.count = @ + Cardinality(ChangeOf(t)),
                                  !.pending = LargerOf(0, @ - 1)]
      BY <1>1 DEF SettleEffect
    <2>2. /\ pool.fees + (q.amount - burned) \in Nat /\ pool.held + t.change \in Nat
          /\ pool.count + Cardinality(ChangeOf(t)) \in Nat /\ LargerOf(0, pool.pending - 1) \in Nat
      <3> HIDE DEF burned, q
      <3> QED
        BY <1>2, <1>3, <2>1, PoolFacts, ChangeOfType, LargerType
    <2> HIDE DEF burned, q
    <2> QED
      BY <2>1, <2>2, PoolFacts DEF PoolCounters
  <1>5. tokens' \in [vault : Nat, outside : Nat]
    <2>1. /\ burned \in 0..q.amount /\ burned <= tokens.vault
          /\ tokens' = [tokens EXCEPT !.vault = @ - burned]
      BY <1>1 DEF SettleEffect
    <2> HIDE DEF burned, q
    <2> QED
      BY <1>3, <2>1, PoolFacts
  <1>6. UNCHANGED <<paused, config, notes, receipts, approvals, confirmed, slot>>
    BY <1>1 DEF SettleEffect
  <1>7. utxos' \in [DOMAIN utxos' -> Coin] /\ IsFiniteSet(DOMAIN utxos')
    <2>1. NewCoin(t.change) \in Coin
      BY <1>2 DEF NewCoin, Coin
    <2>2. \A o \in DOMAIN utxos' : utxos'[o] \in Coin
      BY <1>1, <2>1, CoinFacts DEF SettleCoins
    <2>3. utxos' \in [DOMAIN utxos' -> Coin]
      BY <2>2, FunctionInto DEF CustodyInv, Shapes
    <2>4. IsFiniteSet(DOMAIN utxos \ q.reserved) /\ IsFiniteSet(ChangeOf(t))
      BY <1>2, FiniteFacts, FS_Subset, ChangeOfType
    <2>5. DOMAIN utxos' = (DOMAIN utxos \ q.reserved) \cup ChangeOf(t)
      BY <1>1 DEF SettleCoins
    <2>6. IsFiniteSet(DOMAIN utxos')
      BY <2>4, <2>5, FS_Union
    <2> QED
      BY <2>3, <2>6
  <1>8. \A s \in DOMAIN requests' :
          /\ requests'[s] \in RequestOver(DOMAIN utxos')
          /\ RequestSound(utxos', requests'[s])
    <2>1. ASSUME NEW s \in DOMAIN requests', NEW o \in requests[s].reserved
          PROVE  utxos'[o].amount = utxos[o].amount
      <3>1. s \in DOMAIN requests /\ requests'[s] = requests[s]
        BY <1>1 DEF Closes
      <3>2. o \in DOMAIN utxos' /\ o \in DOMAIN utxos
        BY <3>1, RequestFacts DEF CustodyInv, ReservationExact, HoldsReservation
      <3> QED
        BY <1>1, <3>2 DEF SettleCoins
    <2> QED
      BY <1>1, <2>1, ClosesKeepsRequests
  <1>9. TypeOK'
    <2>1. requests' \in [DOMAIN requests' -> RequestOver(DOMAIN utxos')]
      BY <1>8, FunctionInto DEF CustodyInv, Shapes
    <2>2. DOMAIN requests' \subseteq ReqId
      BY <1>1, FiniteFacts DEF Closes
    <2> QED
      BY <1>4, <1>5, <1>6, <1>7, <2>1, <2>2, TypeForm DEF AccountsInv
  <1> QED
    BY <1>6, <1>7, <1>8, <1>9
    DEF AccountsInv, RequestSound, PayoutSound, Required, Send, WorthIn, ComputeServiceFee

-----------------------------------------------------------------------------
CancelEffect(r) ==
  LET q == requests[r]
  IN  /\ r \in DOMAIN requests
      /\ notes' = [notes EXCEPT ![r[1]] = @ + q.amount]
      /\ pool' = [pool EXCEPT !.shielded = @ + q.amount, !.held = @ + q.total,
                              !.count = @ + Cardinality(q.reserved),
                              !.pending = LargerOf(0, @ - 1)]
      /\ UNCHANGED <<paused, config, tokens, receipts, approvals, confirmed, slot>>

CancelCoins(r) ==
  /\ DOMAIN utxos' = DOMAIN utxos
  /\ \A o \in DOMAIN utxos :
       /\ utxos'[o] \in Coin
       /\ utxos'[o].amount = utxos[o].amount
       /\ o \in requests[r].reserved => utxos'[o].status = "Unspent"
       /\ o \notin requests[r].reserved => utxos'[o].status = utxos[o].status

LEMMA CancelDone ==
  ASSUME AccountsInv, NEW r \in ReqId, CancelRedemption(r)
  PROVE  CancelEffect(r) /\ CancelCoins(r) /\ Closes(r)
  <1> DEFINE q == requests[r]
  <1>1. /\ r \in DOMAIN requests
        /\ notes' = [notes EXCEPT ![r[1]] = @ + q.amount]
        /\ pool' = [pool EXCEPT !.shielded = @ + q.amount, !.held = @ + q.total,
                                !.count = @ + Cardinality(q.reserved),
                                !.pending = LargerOf(0, @ - 1)]
        /\ UNCHANGED <<paused, config, tokens, receipts, approvals, confirmed, slot>>
    BY DEF CancelRedemption, Live, Restored
  <1>2. /\ utxos' = [o \in DOMAIN utxos |->
                       IF o \in q.reserved
                         THEN [utxos[o] EXCEPT !.status = "Unspent", !.by = NoRequest]
                         ELSE utxos[o]]
        /\ requests' = [s \in DOMAIN requests \ {r} |-> requests[s]]
    BY DEF CancelRedemption
  <1>3. ASSUME NEW o \in DOMAIN utxos
        PROVE  /\ utxos'[o] \in Coin
               /\ utxos'[o].amount = utxos[o].amount
               /\ o \in q.reserved => utxos'[o].status = "Unspent"
               /\ o \notin q.reserved => utxos'[o].status = utxos[o].status
    <2>1. utxos[o] \in Coin
      BY CoinFacts
    <2>2. utxos'[o] = IF o \in q.reserved
                        THEN [utxos[o] EXCEPT !.status = "Unspent", !.by = NoRequest]
                        ELSE utxos[o]
      BY <1>2
    <2> QED
      BY <2>1, <2>2 DEF Coin
  <1>4. CancelCoins(r)
    BY <1>2, <1>3 DEF CancelCoins
  <1> QED
    BY <1>1, <1>2, <1>4 DEF CancelEffect, Closes

LEMMA CancelKeepsAccounts ==
  ASSUME CustodyInv', AccountsInv, NEW r \in ReqId, CancelRedemption(r)
  PROVE  AccountsInv'
  <1> DEFINE q == requests[r]
  <1>1. CancelEffect(r) /\ CancelCoins(r) /\ Closes(r)
    BY CancelDone
  <1>2. /\ r \in DOMAIN requests /\ q.amount \in Nat /\ q.total \in Nat
        /\ Cardinality(q.reserved) \in Nat
    BY <1>1, RequestFacts, FS_CardinalityType DEF CancelEffect
  <1>3. pool' \in PoolCounters
    <2>1. pool' = [pool EXCEPT !.shielded = @ + q.amount, !.held = @ + q.total,
                               !.count = @ + Cardinality(q.reserved),
                               !.pending = LargerOf(0, @ - 1)]
      BY <1>1 DEF CancelEffect
    <2>2. /\ pool.shielded + q.amount \in Nat /\ pool.held + q.total \in Nat
          /\ pool.count + Cardinality(q.reserved) \in Nat
          /\ LargerOf(0, pool.pending - 1) \in Nat
      <3> HIDE DEF q
      <3> QED
        BY <1>2, PoolFacts, LargerType
    <2> HIDE DEF q
    <2> QED
      BY <2>1, <2>2, PoolFacts DEF PoolCounters
  <1>4. notes' \in [User -> Nat]
    <2>1. r[1] \in User
      BY DEF ReqId
    <2>2. notes' = [notes EXCEPT ![r[1]] = @ + q.amount]
      BY <1>1 DEF CancelEffect
    <2> HIDE DEF q
    <2>3. notes \in [User -> Nat] /\ notes[r[1]] + q.amount \in Nat
      BY <1>2, <2>1, PoolFacts
    <2> QED
      BY <2>2, <2>3
  <1>5. UNCHANGED <<paused, config, tokens, receipts, approvals, confirmed, slot>>
    BY <1>1 DEF CancelEffect
  <1>6. utxos' \in [DOMAIN utxos' -> Coin] /\ IsFiniteSet(DOMAIN utxos')
    <2>1. \A o \in DOMAIN utxos' : utxos'[o] \in Coin
      BY <1>1 DEF CancelCoins
    <2>2. utxos' \in [DOMAIN utxos' -> Coin]
      BY <2>1, FunctionInto DEF CustodyInv, Shapes
    <2> QED
      BY <1>1, <2>2, FiniteFacts DEF CancelCoins
  <1>7. \A s \in DOMAIN requests' :
          /\ requests'[s] \in RequestOver(DOMAIN utxos')
          /\ RequestSound(utxos', requests'[s])
    <2>1. ASSUME NEW s \in DOMAIN requests', NEW o \in requests[s].reserved
          PROVE  utxos'[o].amount = utxos[o].amount
      <3>1. o \in DOMAIN utxos
        BY <1>1, RequestFacts DEF Closes
      <3> QED
        BY <1>1, <3>1 DEF CancelCoins
    <2> QED
      BY <1>1, <2>1, ClosesKeepsRequests
  <1>8. TypeOK'
    <2>1. requests' \in [DOMAIN requests' -> RequestOver(DOMAIN utxos')]
      BY <1>7, FunctionInto DEF CustodyInv, Shapes
    <2>2. DOMAIN requests' \subseteq ReqId
      BY <1>1, FiniteFacts DEF Closes
    <2> QED
      BY <1>3, <1>4, <1>5, <1>6, <2>1, <2>2, TypeForm DEF AccountsInv
  <1> QED
    BY <1>5, <1>6, <1>7, <1>8
    DEF AccountsInv, RequestSound, PayoutSound, Required, Send, WorthIn, ComputeServiceFee

LEMMA NextKeepsAccounts == CustodyInv /\ AccountsInv /\ [Next]_vars => AccountsInv'
  <1> SUFFICES ASSUME CustodyInv, AccountsInv, [Next]_vars PROVE AccountsInv'
    OBVIOUS
  <1>1. CustodyInv'
    BY NextKeepsCustody
  <1> QED
    BY <1>1, ClaimKeepsAccounts, SettingKeepsAccounts, ConfirmKeepsAccounts,
       DepositKeepsAccounts, RedeemKeepsAccounts, MarkKeepsAccounts, ApproveKeepsAccounts,
       SettleKeepsAccounts, CancelKeepsAccounts
    DEF Next

LEMMA AccountsHold == Spec => []AccountsInv
  BY InitAccounts, NextKeepsAccounts, CustodyInvHolds, PTL DEF Spec

\* In every reachable state the accounts have their types: none of the checked
\* subtractions in mark_processing, complete_redemption, claim_fees or redeem, and no
\* saturating one, ever leaves a counter below zero.
THEOREM AccountsWellTyped == Spec => []TypeOK
  BY AccountsHold, PTL DEF AccountsInv

-----------------------------------------------------------------------------
(* Conservation *)

\* What the requests q have locked, and the coins of c that nobody reserved.
Locked(q) == SumFunction([r \in DOMAIN q |-> q[r].amount])
UnspentIn(c) == {o \in DOMAIN c : c[o].status = "Unspent"}

\* The conservation laws of a state, in its parts.
Backed(c, k, p, q, n) ==
  /\ WorthIn(c, DOMAIN c) = k.vault + k.outside
  /\ k.vault = p.shielded + p.fees + Locked(q)
  /\ p.shielded = SumFunction(n)

Counted(c, p, q) ==
  /\ p.held = WorthIn(c, UnspentIn(c))
  /\ p.count = Cardinality(UnspentIn(c))
  /\ p.pending = Cardinality(DOMAIN q)

LEMMA LedgerForm ==
  /\ FullyBacked <=> Backed(utxos, tokens, pool, requests, notes)
  /\ FullyBacked' <=> Backed(utxos', tokens', pool', requests', notes')
  /\ CountersExact <=> Counted(utxos, pool, requests)
  /\ CountersExact' <=> Counted(utxos', pool', requests')
  BY DEF FullyBacked, CountersExact, Backed, Counted, Worth, WorthIn, Amount, Locked,
         UnspentCoins, UnspentIn

LedgerInv == FullyBacked /\ CountersExact

LEMMA InitLedger == Init => LedgerInv
  <1> SUFFICES ASSUME Init PROVE LedgerInv
    OBVIOUS
  <1>1. DOMAIN utxos = {} /\ DOMAIN requests = {} /\ UnspentIn(utxos) = {}
    BY DEF Init, UnspentIn
  <1>2. WorthIn(utxos, {}) = 0
    BY WorthEmpty
  <1>3. Locked(requests) = 0
    <2>1. DOMAIN [r \in DOMAIN requests |-> requests[r].amount] = {}
      BY <1>1
    <2> QED
      BY <2>1, SumEmpty DEF Locked, SumFunction
  <1>4. SumFunction(notes) = 0
    <2>1. \A u \in User : notes[u] = 0
      BY DEF Init
    <2>2. DOMAIN notes = User /\ IsFiniteSet(User)
      BY BridgeAssumption DEF Init, BridgeAssumption
    <2>3. SumFunctionOnSet(notes, User) = 0
      BY <2>1, <2>2, SumZero
    <2> QED
      BY <2>2, <2>3 DEF SumFunction
  <1>5. pool.shielded = 0 /\ pool.fees = 0 /\ pool.held = 0 /\ pool.count = 0 /\ pool.pending = 0
        /\ tokens.vault = 0 /\ tokens.outside = 0
    BY DEF Init
  <1>6. Cardinality({}) = 0
    BY FS_EmptySet
  <1> QED
    BY <1>1, <1>2, <1>3, <1>4, <1>5, <1>6, LedgerForm DEF LedgerInv, Backed, Counted

LEMMA NotesType ==
  ASSUME AccountsInv
  PROVE  SumFunction(notes) \in Nat
  <1>1. DOMAIN notes = User /\ \A u \in User : notes[u] \in Nat
    BY PoolFacts
  <1>2. IsFiniteSet(User)
    BY BridgeAssumption DEF BridgeAssumption
  <1> QED
    BY <1>1, <1>2, SumType DEF SumFunction

LEMMA NotesUpdate ==
  ASSUME AccountsInv, NEW u \in User, NEW v \in Nat, notes' = [notes EXCEPT ![u] = v]
  PROVE  SumFunction(notes') = SumFunction(notes) - notes[u] + v
  <1>1. /\ DOMAIN notes = User /\ DOMAIN notes' = User
        /\ \A w \in User : notes[w] \in Int
        /\ notes'[u] = v /\ \A w \in User \ {u} : notes'[w] = notes[w]
    BY PoolFacts
  <1>2. IsFiniteSet(User)
    BY BridgeAssumption DEF BridgeAssumption
  <1>3. SumFunctionOnSet(notes', User) = SumFunctionOnSet(notes, User) - notes[u] + notes'[u]
    <2> DEFINE f == notes
               g == notes'
    <2>1. \A y \in User : f[y] \in Int
      BY <1>1
    <2>2. g[u] \in Int
      BY <1>1
    <2>3. \A y \in User \ {u} : g[y] = f[y]
      BY <1>1
    <2> HIDE DEF f, g
    <2>4. SumFunctionOnSet(g, User) = SumFunctionOnSet(f, User) - f[u] + g[u]
      BY <1>2, <2>1, <2>2, <2>3, SumUpdate
    <2> QED
      BY <2>4 DEF f, g
  <1> QED
    BY <1>1, <1>3 DEF SumFunction

LEMMA LockedType ==
  ASSUME AccountsInv
  PROVE  Locked(requests) \in Nat
  <1> DEFINE f == [r \in DOMAIN requests |-> requests[r].amount]
  <1>1. \A r \in DOMAIN requests : f[r] \in Nat
    BY RequestFacts
  <1>2. DOMAIN f = DOMAIN requests
    OBVIOUS
  <1> HIDE DEF f
  <1>3. SumFunctionOnSet(f, DOMAIN requests) \in Nat
    BY <1>1, FiniteFacts, SumType
  <1> QED
    BY <1>2, <1>3 DEF Locked, SumFunction, f

\* Requests over the same ids that ask for the same.
LEMMA LockedSame ==
  ASSUME AccountsInv, DOMAIN requests' = DOMAIN requests,
         \A r \in DOMAIN requests : requests'[r].amount = requests[r].amount
  PROVE  Locked(requests') = Locked(requests)
  <1> DEFINE f == [r \in DOMAIN requests |-> requests[r].amount]
             g == [r \in DOMAIN requests' |-> requests'[r].amount]
  <1>1. DOMAIN f = DOMAIN requests /\ DOMAIN g = DOMAIN requests /\ f = g
    OBVIOUS
  <1> QED
    BY <1>1 DEF Locked

\* A request less.
LEMMA LockedLess ==
  ASSUME AccountsInv, NEW r \in DOMAIN requests, Closes(r)
  PROVE  /\ Locked(requests') = Locked(requests) - requests[r].amount
         /\ Cardinality(DOMAIN requests') = Cardinality(DOMAIN requests) - 1
         /\ Cardinality(DOMAIN requests) \in Nat \ {0}
  <1> DEFINE D == DOMAIN requests
             f == [s \in D |-> requests[s].amount]
             g == [s \in DOMAIN requests' |-> requests'[s].amount]
  <1>1. DOMAIN f = D /\ DOMAIN g = D \ {r} /\ f[r] = requests[r].amount
        /\ \A s \in D \ {r} : g[s] = f[s]
    BY DEF Closes
  <1>2. \A s \in D : f[s] \in Int
    BY RequestFacts
  <1>3. IsFiniteSet(D) /\ IsFiniteSet(D \ {r})
    BY FiniteFacts, FS_RemoveElement
  <1>4. Locked(requests) = SumFunctionOnSet(f, D) /\ Locked(requests') = SumFunctionOnSet(g, D \ {r})
    BY <1>1 DEF Locked, SumFunction
  <1> HIDE DEF f, g
  <1>5. SumFunctionOnSet(f, D) = f[r] + SumFunctionOnSet(f, D \ {r})
    BY <1>2, <1>3, SumRemove
  <1>6. SumFunctionOnSet(g, D \ {r}) = SumFunctionOnSet(f, D \ {r})
    BY <1>1, <1>3, SumCongruent
  <1>7. SumFunctionOnSet(f, D \ {r}) \in Int /\ f[r] \in Int
    BY <1>2, <1>3, SumType
  <1>8. Locked(requests') = Locked(requests) - requests[r].amount
    BY <1>1, <1>4, <1>5, <1>6, <1>7
  <1>9. Cardinality(D) \in Nat \ {0} /\ Cardinality(D \ {r}) = Cardinality(D) - 1
    <2>1. r \in D /\ D # {}
      OBVIOUS
    <2> HIDE DEF D
    <2>2. Cardinality(D) \in Nat /\ Cardinality(D) # 0
      BY <1>3, <2>1, FS_CardinalityType, FS_EmptySet
    <2>3. Cardinality(D \ {r}) = Cardinality(D) - 1
      BY <1>3, <2>1, FS_RemoveElement
    <2> QED
      BY <2>2, <2>3
  <1> QED
    BY <1>8, <1>9 DEF Closes

\* One coin more.
LEMMA CoinAdded ==
  ASSUME NEW c, NEW e, NEW D, IsFiniteSet(D), NEW x, x \notin D, e[x].amount \in Nat,
         \A o \in D : c[o].amount \in Nat /\ e[o].amount = c[o].amount
  PROVE  WorthIn(e, D \cup {x}) = WorthIn(c, D) + e[x].amount
  <1>1. IsFiniteSet({x}) /\ D \cap {x} = {} /\ \A o \in D \cup {x} : e[o].amount \in Nat
    BY FS_Singleton
  <1>2. WorthIn(e, D \cup {x}) = WorthIn(e, D) + WorthIn(e, {x})
    BY <1>1, WorthUnion
  <1>3. WorthIn(e, D) = WorthIn(c, D)
    BY WorthSame
  <1>4. WorthIn(e, {x}) = e[x].amount
    BY WorthOne
  <1> QED
    BY <1>2, <1>3, <1>4

LEMMA UnspentFacts ==
  ASSUME AccountsInv
  PROVE  /\ UnspentIn(utxos) \subseteq DOMAIN utxos
         /\ IsFiniteSet(UnspentIn(utxos)) /\ Cardinality(UnspentIn(utxos)) \in Nat
         /\ WorthIn(utxos, UnspentIn(utxos)) \in Nat
         /\ WorthIn(utxos, DOMAIN utxos) \in Nat
  <1>1. UnspentIn(utxos) \subseteq DOMAIN utxos
    BY DEF UnspentIn
  <1>2. IsFiniteSet(UnspentIn(utxos)) /\ Cardinality(UnspentIn(utxos)) \in Nat
    BY <1>1, FiniteFacts, FS_Subset, FS_CardinalityType
  <1> QED
    BY <1>1, <1>2, FiniteFacts, CoinFacts, WorthType

LEMMA DepositKeepsLedger ==
  ASSUME AccountsInv, LedgerInv, NEW d \in Deposits, CompleteDeposit(d)
  PROVE  LedgerInv'
  <1> DEFINE fee == DepositFee(d.amount)
             x == d.output
             U == UnspentIn(utxos)
  <1>1. d.user \in User /\ d.amount \in Nat /\ fee \in Nat /\ d.amount - fee \in Nat
    BY DepositFacts
  <1>2. /\ pool'.shielded = pool.shielded + (d.amount - fee) /\ pool'.fees = pool.fees + fee
        /\ pool'.held = pool.held + d.amount /\ pool'.count = pool.count + 1
        /\ pool'.pending = pool.pending
        /\ tokens'.vault = tokens.vault + d.amount /\ tokens'.outside = tokens.outside
        /\ requests' = requests
    BY DepositFacts
  <1>3. notes' = [notes EXCEPT ![d.user] = notes[d.user] + (d.amount - fee)]
    BY DepositFacts
  <1>4. /\ x \notin DOMAIN utxos /\ DOMAIN utxos' = DOMAIN utxos \cup {x}
        /\ \A o \in DOMAIN utxos : utxos'[o] = utxos[o]
        /\ utxos'[x] = NewCoin(d.amount)
    BY DepositFacts
  <1>5. utxos'[x].amount = d.amount /\ utxos'[x].status = "Unspent"
    BY <1>4 DEF NewCoin
  <1>6. UnspentIn(utxos') = U \cup {x} /\ x \notin U
    BY <1>4, <1>5 DEF UnspentIn
  <1>7. /\ Backed(utxos, tokens, pool, requests, notes)
        /\ Counted(utxos, pool, requests)
    BY LedgerForm DEF LedgerInv
  <1>8. /\ \A o \in DOMAIN utxos :
             utxos[o].amount \in Nat /\ utxos'[o].amount = utxos[o].amount
        /\ \A o \in U : utxos[o].amount \in Nat /\ utxos'[o].amount = utxos[o].amount
    BY <1>4, CoinFacts DEF UnspentIn
  <1> HIDE DEF fee, x, U
  <1>9. WorthIn(utxos', DOMAIN utxos') = WorthIn(utxos, DOMAIN utxos) + d.amount
    BY <1>1, <1>4, <1>5, <1>8, FiniteFacts, CoinAdded
  <1>10. WorthIn(utxos', UnspentIn(utxos')) = WorthIn(utxos, U) + d.amount
    BY <1>1, <1>5, <1>6, <1>8, UnspentFacts, CoinAdded DEF U
  <1>11. Cardinality(UnspentIn(utxos')) = Cardinality(U) + 1
    BY <1>6, UnspentFacts, FS_AddElement DEF U
  <1>12. SumFunction(notes') = SumFunction(notes) + (d.amount - fee)
    <2> DEFINE v == notes[d.user] + (d.amount - fee)
    <2>1. notes[d.user] \in Nat /\ v \in Nat
      BY <1>1, PoolFacts
    <2>2. SumFunction(notes') = SumFunction(notes) - notes[d.user] + v
      <3> HIDE DEF v
      <3> QED
        BY <1>1, <1>3, <2>1, NotesUpdate DEF v
    <2>3. SumFunction(notes) \in Nat
      BY NotesType
    <2> QED
      BY <1>1, <2>1, <2>2, <2>3
  <1>13. /\ Locked(requests) \in Nat /\ pool.shielded \in Nat /\ pool.fees \in Nat
         /\ tokens.vault \in Nat /\ tokens.outside \in Nat
    BY LockedType, PoolFacts
  <1>14. Backed(utxos', tokens', pool', requests', notes')
    BY <1>1, <1>2, <1>7, <1>9, <1>12, <1>13 DEF Backed
  <1>15. Counted(utxos', pool', requests')
    BY <1>2, <1>7, <1>10, <1>11 DEF Counted, U
  <1> QED
    BY <1>14, <1>15, LedgerForm DEF LedgerInv

LEMMA ClaimKeepsLedger ==
  ASSUME AccountsInv, LedgerInv, NEW amount \in ClaimAmounts, ClaimFees(amount)
  PROVE  LedgerInv'
  <1>1. /\ Backed(utxos, tokens, pool, requests, notes)
        /\ Counted(utxos, pool, requests)
    BY LedgerForm DEF LedgerInv
  <1>2. /\ amount \in Nat
        /\ pool'.shielded = pool.shielded /\ pool'.fees = pool.fees - amount
        /\ pool'.held = pool.held /\ pool'.count = pool.count /\ pool'.pending = pool.pending
        /\ tokens'.vault = tokens.vault - amount /\ tokens'.outside = tokens.outside + amount
        /\ utxos' = utxos /\ requests' = requests /\ notes' = notes
    BY ClaimFacts
  <1>3. /\ Locked(requests) \in Nat /\ pool.shielded \in Nat /\ pool.fees \in Nat
        /\ tokens.vault \in Nat /\ tokens.outside \in Nat
    BY LockedType, PoolFacts
  <1>4. Backed(utxos', tokens', pool', requests', notes')
    BY <1>1, <1>2, <1>3 DEF Backed
  <1>5. Counted(utxos', pool', requests')
    BY <1>1, <1>2 DEF Counted
  <1> QED
    BY <1>4, <1>5, LedgerForm DEF LedgerInv

\* Steps that move nothing.
LEMMA FrameLedger ==
  ASSUME LedgerInv, UNCHANGED <<utxos, tokens, pool, notes>>,
         DOMAIN requests' = DOMAIN requests, Locked(requests') = Locked(requests)
  PROVE  LedgerInv'
  <1>1. /\ Backed(utxos, tokens, pool, requests, notes)
        /\ Counted(utxos, pool, requests)
    BY LedgerForm DEF LedgerInv
  <1>2. Backed(utxos', tokens', pool', requests', notes') /\ Counted(utxos', pool', requests')
    BY <1>1 DEF Backed, Counted
  <1> QED
    BY <1>2, LedgerForm DEF LedgerInv

LEMMA ApproveKeepsLedger ==
  ASSUME CustodyInv, AccountsInv, LedgerInv, NEW r \in ReqId, NEW o \in DOMAIN utxos,
         NEW f \in 0..MaxMinerFee, ApproveSigning(r, o, f)
  PROVE  LedgerInv'
  <1>1. ApproveEffect(r, o, f)
    BY ApproveDone
  <1>2. requests'[r].amount = requests[r].amount
    <2>1. RequestShape(requests[r])
      BY <1>1 DEF ApproveEffect, CustodyInv, Shapes
    <2> QED
      BY <1>1, <2>1 DEF ApproveEffect, RequestShape
  <1>3. DOMAIN requests' = DOMAIN requests /\ UNCHANGED <<utxos, tokens, pool, notes>>
        /\ \A s \in DOMAIN requests : requests'[s].amount = requests[s].amount
    BY <1>1, <1>2 DEF ApproveEffect
  <1> QED
    BY <1>3, LockedSame, FrameLedger

\* The requests a redemption makes lock what it asked for.
LEMMA LockedMore ==
  ASSUME AccountsInv, NEW u \in User, NEW outs \in SUBSET Payouts, RedeemRequests(u, outs)
  PROVE  /\ Locked(requests') = Locked(requests) + Asked(outs)
         /\ Cardinality(DOMAIN requests') = Cardinality(DOMAIN requests) + Cardinality(outs)
  <1> DEFINE D == DOMAIN requests
             h == Ids(u, outs)
             M == Made(u, outs)
             f == [s \in DOMAIN requests' |-> requests'[s].amount]
             g == [s \in D |-> requests[s].amount]
             a == [p \in outs |-> p.amount]
             k == [p \in outs |-> f[h[p]]]
  <1>1. /\ \A p, q \in outs : h[p] = h[q] => p = q
        /\ M = {h[p] : p \in outs}
        /\ M \cap D = {}
        /\ DOMAIN requests' = D \cup M
        /\ \A r \in D : requests'[r] = requests[r]
        /\ \A p \in outs : requests'[h[p]] = PendingRequest(p)
    BY DEF RedeemRequests, Made
  <1>2. /\ \A p \in outs : f[h[p]] = p.amount
        /\ \A r \in D : f[r] = g[r]
    <2>1. \A p \in outs : h[p] \in DOMAIN requests'
      BY <1>1
    <2>2. \A p \in outs : PendingRequest(p).amount = p.amount
      BY DEF PendingRequest
    <2> HIDE DEF h, M
    <2> QED
      BY <1>1, <2>1, <2>2
  <1>3. /\ \A p \in outs : p.amount \in Nat
        /\ IsFiniteSet(outs) /\ IsFiniteSet(D)
    BY AskedType, FiniteFacts
  <1>4. \A r \in D : g[r] \in Nat
    BY RequestFacts
  <1>5. IsFiniteSet(M) /\ Cardinality(M) = Cardinality(outs)
    <2>1. ExistsBijection(outs, M)
      <3>1. h \in Injection(outs, M)
        BY <1>1 DEF Ids, Injection, IsInjective
      <3>2. h \in Surjection(outs, M)
        BY <1>1 DEF Ids, Surjection
      <3> QED
        BY <3>1, <3>2 DEF ExistsBijection, Bijection
    <2> HIDE DEF M
    <2> QED
      BY <1>3, <2>1, FS_Bijection
  <1>6. Locked(requests') = SumFunctionOnSet(f, D \cup M)
        /\ Locked(requests) = SumFunctionOnSet(g, D)
        /\ Asked(outs) = SumFunctionOnSet(a, outs)
    <2>1. DOMAIN f = D \cup M /\ DOMAIN g = D /\ DOMAIN a = outs
      BY <1>1
    <2> QED
      BY <2>1 DEF Locked, Asked, SumFunction
  <1>7. SumFunctionOnSet(k, outs) = SumFunctionOnSet(f, M)
    <2>1. \A p \in outs : f[h[p]] \in Int
      BY <1>2, <1>3
    <2> HIDE DEF f, h, M
    <2> QED
      BY <1>1, <1>3, <2>1, SumReindexed
  <1>8. SumFunctionOnSet(k, outs) = SumFunctionOnSet(a, outs)
    <2>1. \A p \in outs : k[p] = a[p]
      BY <1>2
    <2> HIDE DEF k, a
    <2> QED
      BY <1>3, <2>1, SumCongruent
  <1>9. \A r \in D \cup M : f[r] \in Int
    <2> HIDE DEF f, h, M, D
    <2> QED
      BY <1>1, <1>2, <1>3, <1>4
  <1>10. SumFunctionOnSet(f, D) = SumFunctionOnSet(g, D)
    <2> HIDE DEF f, g, D
    <2> QED
      BY <1>2, <1>3, SumCongruent
  <1> HIDE DEF f, g, a, k, D, M, h
  <1>11. SumFunctionOnSet(f, D \cup M) = SumFunctionOnSet(f, D) + SumFunctionOnSet(f, M)
    BY <1>1, <1>3, <1>5, <1>9, SumUnion
  <1>12. Cardinality(D \cup M) = Cardinality(D) + Cardinality(outs)
    <2>1. D \cap M = {}
      BY <1>1
    <2>2. Cardinality(D) \in Nat /\ Cardinality(M) \in Nat
      BY <1>3, <1>5, FS_CardinalityType
    <2>3. Cardinality(D \cup M) = Cardinality(D) + Cardinality(M) - Cardinality(D \cap M)
      BY <1>3, <1>5, FS_Union
    <2>4. Cardinality(D \cap M) = 0
      BY <2>1, FS_EmptySet
    <2> QED
      BY <1>5, <2>2, <2>3, <2>4
  <1> QED
    BY <1>1, <1>6, <1>7, <1>8, <1>10, <1>11, <1>12 DEF D

LEMMA RedeemKeepsLedger ==
  ASSUME AccountsInv, LedgerInv, NEW u \in User, NEW outs \in SUBSET Payouts, Redeem(u, outs)
  PROVE  LedgerInv'
  <1>1. RedeemPays(u, outs) /\ RedeemRequests(u, outs)
    BY RedeemEffect
  <1>2. /\ Backed(utxos, tokens, pool, requests, notes)
        /\ Counted(utxos, pool, requests)
    BY LedgerForm DEF LedgerInv
  <1>3. Asked(outs) \in Nat /\ Cardinality(outs) \in Nat
    BY AskedType
  <1>4. /\ pool'.shielded = pool.shielded - Asked(outs) /\ pool'.fees = pool.fees
        /\ pool'.held = pool.held /\ pool'.count = pool.count
        /\ pool'.pending = pool.pending + Cardinality(outs)
    <2>1. pool' = [pool EXCEPT !.shielded = @ - Asked(outs), !.pending = @ + Cardinality(outs)]
      BY <1>1 DEF RedeemPays
    <2> QED
      BY <2>1, PoolFacts DEF PoolCounters
  <1>5. SumFunction(notes') = SumFunction(notes) - Asked(outs)
    <2> DEFINE v == notes[u] - Asked(outs)
    <2>1. notes[u] \in Nat /\ v \in Nat
      BY <1>1, <1>3, PoolFacts DEF RedeemPays
    <2>2. notes' = [notes EXCEPT ![u] = v]
      BY <1>1 DEF RedeemPays
    <2>3. SumFunction(notes') = SumFunction(notes) - notes[u] + v
      <3> HIDE DEF v
      <3> QED
        BY <2>1, <2>2, NotesUpdate
    <2>4. SumFunction(notes) \in Nat
      BY NotesType
    <2> QED
      BY <1>3, <2>1, <2>3, <2>4
  <1>6. utxos' = utxos /\ tokens' = tokens
    BY <1>1 DEF RedeemPays
  <1>7. /\ Locked(requests') = Locked(requests) + Asked(outs)
        /\ Cardinality(DOMAIN requests') = Cardinality(DOMAIN requests) + Cardinality(outs)
    BY <1>1, LockedMore
  <1>8. /\ Locked(requests) \in Nat /\ pool.shielded \in Nat /\ pool.fees \in Nat
        /\ tokens.vault \in Nat
    BY LockedType, PoolFacts
  <1>9. Backed(utxos', tokens', pool', requests', notes')
    BY <1>2, <1>3, <1>4, <1>5, <1>6, <1>7, <1>8 DEF Backed
  <1>10. Counted(utxos', pool', requests')
    BY <1>2, <1>4, <1>6, <1>7 DEF Counted
  <1> QED
    BY <1>9, <1>10, LedgerForm DEF LedgerInv

LEMMA MarkKeepsLedger ==
  ASSUME CustodyInv, AccountsInv, LedgerInv, NEW r \in ReqId, NEW S \in SUBSET DOMAIN utxos,
         MarkProcessing(r, S)
  PROVE  LedgerInv'
  <1> DEFINE U == UnspentIn(utxos)
  <1>1. /\ Backed(utxos, tokens, pool, requests, notes)
        /\ Counted(utxos, pool, requests)
    BY LedgerForm DEF LedgerInv
  <1>2. /\ pool'.shielded = pool.shielded /\ pool'.fees = pool.fees
        /\ pool'.held = pool.held - WorthIn(utxos, S)
        /\ pool'.count = pool.count - Cardinality(S)
        /\ pool'.pending = pool.pending
        /\ tokens' = tokens /\ notes' = notes
    BY MarkPool
  <1>3. /\ DOMAIN utxos' = DOMAIN utxos
        /\ \A o \in DOMAIN utxos : utxos'[o].amount = utxos[o].amount
    BY MarkCoins
  <1>4. UnspentIn(utxos') = U \ S /\ S \subseteq U
    BY MarkGuard, MarkCoins DEF UnspentIn
  <1>5. DOMAIN requests' = DOMAIN requests /\ Locked(requests') = Locked(requests)
    <2>1. requests'[r].amount = requests[r].amount
      <3>1. RequestShape(requests[r])
        BY MarkGuard DEF CustodyInv, Shapes
      <3>2. requests'[r] = [requests[r] EXCEPT !.status = "Processing", !.slot = slot,
                                               !.total = WorthIn(utxos, S), !.reserved = S]
        BY MarkRequests
      <3> QED
        BY <3>1, <3>2 DEF RequestShape
    <2>2. /\ DOMAIN requests' = DOMAIN requests
          /\ \A s \in DOMAIN requests : requests'[s].amount = requests[s].amount
      BY <2>1, MarkRequests
    <2> QED
      BY <2>2, LockedSame
  <1>6. WorthIn(utxos', DOMAIN utxos') = WorthIn(utxos, DOMAIN utxos)
    <2>1. WorthIn(utxos, DOMAIN utxos) = WorthIn(utxos', DOMAIN utxos)
      BY <1>3, FiniteFacts, WorthSame
    <2> QED
      BY <1>3, <2>1
  <1>7. U \subseteq DOMAIN utxos /\ IsFiniteSet(U) /\ IsFiniteSet(U \ S)
        /\ \A o \in U : utxos[o].amount \in Nat
    BY UnspentFacts, CoinFacts, FS_Subset
  <1> HIDE DEF U
  <1>8. WorthIn(utxos', U \ S) = WorthIn(utxos, U) - WorthIn(utxos, S)
    <2>1. WorthIn(utxos, U \ S) = WorthIn(utxos', U \ S)
      BY <1>3, <1>7, WorthSame
    <2>2. WorthIn(utxos, U \ S) = WorthIn(utxos, U) - WorthIn(utxos, S)
      BY <1>4, <1>7, WorthDifference
    <2> QED
      BY <2>1, <2>2
  <1>9. Cardinality(U \ S) = Cardinality(U) - Cardinality(S)
    <2>1. U \cap S = S
      BY <1>4
    <2> QED
      BY <1>7, <2>1, FS_Difference
  <1>10. Backed(utxos', tokens', pool', requests', notes')
    BY <1>1, <1>2, <1>5, <1>6 DEF Backed
  <1>11. Counted(utxos', pool', requests')
    BY <1>1, <1>2, <1>4, <1>5, <1>8, <1>9 DEF Counted, U
  <1> QED
    BY <1>10, <1>11, LedgerForm DEF LedgerInv

\* The coins that a live request reserved are on record and not unspent.
LEMMA ReservedNotUnspent ==
  ASSUME CustodyInv, NEW r \in DOMAIN requests
  PROVE  /\ requests[r].reserved \subseteq DOMAIN utxos
         /\ requests[r].reserved \cap UnspentIn(utxos) = {}
  BY DEF CustodyInv, ReservationExact, HoldsReservation, UnspentIn

LEMMA SettleKeepsLedger ==
  ASSUME CustodyInv, AccountsInv, LedgerInv, NEW r \in ReqId, NEW t \in confirmed,
         CompleteRedemption(r, t)
  PROVE  LedgerInv'
  <1> DEFINE q == requests[r]
             R == q.reserved
             D == DOMAIN utxos
             U == UnspentIn(utxos)
             C == ChangeOf(t)
             burned == q.total - t.change
  <1>1. SettleEffect(r, t) /\ SettleCoins(r, t) /\ Closes(r)
    BY SettleDone
  <1>2. /\ Backed(utxos, tokens, pool, requests, notes)
        /\ Counted(utxos, pool, requests)
    BY LedgerForm DEF LedgerInv
  <1>3. PayoutSound(t) /\ t.change \in Nat
    BY DEF AccountsInv, PayoutSound
  <1>4. /\ r \in DOMAIN requests /\ q.amount \in Nat /\ q.total \in Nat
        /\ IsFiniteSet(R) /\ q.total = WorthIn(utxos, R)
    <2>1. r \in DOMAIN requests
      BY <1>1 DEF SettleEffect
    <2> QED
      BY <2>1, RequestFacts DEF RequestSound
  <1>5. R \subseteq D /\ R \cap U = {} /\ U \subseteq D /\ IsFiniteSet(D) /\ IsFiniteSet(U)
    BY <1>4, ReservedNotUnspent, UnspentFacts, FiniteFacts
  <1>6. /\ C \cap D = {} /\ DOMAIN utxos' = (D \ R) \cup C
        /\ \A o \in D \ R : utxos'[o] = utxos[o]
        /\ \A o \in C : utxos'[o].amount = t.change /\ utxos'[o].status = "Unspent"
    BY <1>1 DEF SettleCoins, NewCoin
  <1>7. UnspentIn(utxos') = U \cup C
    BY <1>5, <1>6 DEF UnspentIn
  <1>8. burned \in Int /\ tokens'.vault = tokens.vault - burned /\ tokens'.outside = tokens.outside
    <2>1. burned \in Int /\ tokens' = [tokens EXCEPT !.vault = @ - burned]
      BY <1>1, <1>3, <1>4 DEF SettleEffect
    <2> HIDE DEF burned
    <2> QED
      BY <2>1, PoolFacts
  <1>9. /\ pool'.shielded = pool.shielded /\ pool'.fees = pool.fees + (q.amount - burned)
        /\ pool'.held = pool.held + t.change
        /\ pool'.count = pool.count + Cardinality(C)
        /\ pool'.pending = LargerOf(0, pool.pending - 1)
        /\ notes' = notes
    <2>1. /\ pool' = [pool EXCEPT !.fees = @ + (q.amount - burned), !.held = @ + t.change,
                                  !.count = @ + Cardinality(C),
                                  !.pending = LargerOf(0, @ - 1)]
          /\ notes' = notes
      BY <1>1 DEF SettleEffect
    <2> HIDE DEF burned, q, C
    <2> QED
      BY <2>1, PoolFacts DEF PoolCounters
  <1>10. \A E \in SUBSET (D \ R) :
           IsFiniteSet(E) => WorthIn(utxos', E \cup C) = WorthIn(utxos, E) + t.change
    <2> SUFFICES ASSUME NEW E \in SUBSET (D \ R), IsFiniteSet(E)
                 PROVE  WorthIn(utxos', E \cup C) = WorthIn(utxos, E) + t.change
      OBVIOUS
    <2>1. \A o \in E : utxos[o].amount \in Nat /\ utxos'[o].amount = utxos[o].amount
      BY <1>6, CoinFacts
    <2>2. CASE t.change = 0
      <3>1. E \cup C = E
        BY <1>3, <2>2, ChangeOfType
      <3>2. WorthIn(utxos, E) = WorthIn(utxos', E) /\ WorthIn(utxos, E) \in Nat
        BY <2>1, WorthSame, WorthType
      <3> HIDE DEF C
      <3> QED
        BY <2>2, <3>1, <3>2
    <2>3. CASE t.change # 0
      <3> DEFINE x == ChangeOutput(t)
      <3>1. C = {x}
        BY <1>3, <2>3, ChangeOfType
      <3> HIDE DEF C, x
      <3>2. x \notin E /\ utxos'[x].amount = t.change
        BY <1>6, <3>1
      <3>3. WorthIn(utxos', E \cup {x}) = WorthIn(utxos, E) + utxos'[x].amount
        BY <1>3, <2>1, <3>2, CoinAdded
      <3> QED
        BY <3>1, <3>2, <3>3
    <2> QED
      BY <2>2, <2>3
  <1>11. WorthIn(utxos', DOMAIN utxos') = WorthIn(utxos, D) - burned
    <2>1. IsFiniteSet(D \ R)
      BY <1>5, FS_Subset
    <2>2. WorthIn(utxos', (D \ R) \cup C) = WorthIn(utxos, D \ R) + t.change
      <3> HIDE DEF D, R, C
      <3> QED
        BY <1>10, <2>1
    <2>3. WorthIn(utxos, D \ R) = WorthIn(utxos, D) - WorthIn(utxos, R)
      <3>1. \A o \in D : utxos[o].amount \in Nat
        BY CoinFacts
      <3> HIDE DEF D, R
      <3> QED
        BY <1>5, <3>1, WorthDifference
    <2>4. WorthIn(utxos, D) \in Nat
      BY UnspentFacts
    <2> HIDE DEF D, R, C, q
    <2> QED
      BY <1>3, <1>4, <1>6, <2>2, <2>3, <2>4
  <1>12. WorthIn(utxos', UnspentIn(utxos')) = WorthIn(utxos, U) + t.change
    <2>1. U \in SUBSET (D \ R)
      BY <1>5
    <2> HIDE DEF D, R, C, U
    <2> QED
      BY <1>5, <1>7, <1>10, <2>1
  <1>13. Cardinality(UnspentIn(utxos')) = Cardinality(U) + Cardinality(C)
    <2>1. U \cap C = {}
      BY <1>5, <1>6
    <2>2. IsFiniteSet(C) /\ Cardinality(C) \in Nat
      BY <1>3, ChangeOfType
    <2>3. Cardinality(U) \in Nat
      BY UnspentFacts
    <2> HIDE DEF U, C
    <2>4. Cardinality(U \cup C) = Cardinality(U) + Cardinality(C) - Cardinality(U \cap C)
      BY <1>5, <2>2, FS_Union
    <2>5. Cardinality(U \cap C) = 0
      BY <2>1, FS_EmptySet
    <2> QED
      BY <1>7, <2>2, <2>3, <2>4, <2>5
  <1>14. /\ Locked(requests') = Locked(requests) - q.amount
         /\ Cardinality(DOMAIN requests') = Cardinality(DOMAIN requests) - 1
         /\ Cardinality(DOMAIN requests) \in Nat \ {0}
    BY <1>1, <1>4, LockedLess
  <1>15. /\ Locked(requests) \in Nat /\ pool.shielded \in Nat /\ pool.fees \in Nat
         /\ tokens.vault \in Nat /\ tokens.outside \in Nat
    BY LockedType, PoolFacts
  <1> HIDE DEF q, R, D, U, C, burned
  <1>16. Backed(utxos', tokens', pool', requests', notes')
    BY <1>2, <1>4, <1>8, <1>9, <1>11, <1>14, <1>15 DEF Backed, D
  <1>17. Counted(utxos', pool', requests')
    BY <1>2, <1>9, <1>12, <1>13, <1>14 DEF Counted, U, LargerOf
  <1> QED
    BY <1>16, <1>17, LedgerForm DEF LedgerInv

LEMMA CancelKeepsLedger ==
  ASSUME CustodyInv, AccountsInv, LedgerInv, NEW r \in ReqId, CancelRedemption(r)
  PROVE  LedgerInv'
  <1> DEFINE q == requests[r]
             R == q.reserved
             U == UnspentIn(utxos)
  <1>1. CancelEffect(r) /\ CancelCoins(r) /\ Closes(r)
    BY CancelDone
  <1>2. /\ Backed(utxos, tokens, pool, requests, notes)
        /\ Counted(utxos, pool, requests)
    BY LedgerForm DEF LedgerInv
  <1>3. /\ r \in DOMAIN requests /\ q.amount \in Nat /\ q.total \in Nat
        /\ IsFiniteSet(R) /\ q.total = WorthIn(utxos, R)
    <2>1. r \in DOMAIN requests
      BY <1>1 DEF CancelEffect
    <2> QED
      BY <2>1, RequestFacts DEF RequestSound
  <1>4. R \subseteq DOMAIN utxos /\ U \cap R = {} /\ U \subseteq DOMAIN utxos /\ IsFiniteSet(U)
    BY <1>3, ReservedNotUnspent, UnspentFacts
  <1>5. /\ DOMAIN utxos' = DOMAIN utxos
        /\ \A o \in DOMAIN utxos : utxos'[o].amount = utxos[o].amount
    BY <1>1 DEF CancelCoins
  <1>6. UnspentIn(utxos') = U \cup R
    BY <1>1, <1>4 DEF UnspentIn, CancelCoins
  <1>7. /\ pool'.shielded = pool.shielded + q.amount /\ pool'.fees = pool.fees
        /\ pool'.held = pool.held + q.total
        /\ pool'.count = pool.count + Cardinality(R)
        /\ pool'.pending = LargerOf(0, pool.pending - 1)
        /\ tokens' = tokens
    <2>1. /\ pool' = [pool EXCEPT !.shielded = @ + q.amount, !.held = @ + q.total,
                                  !.count = @ + Cardinality(R),
                                  !.pending = LargerOf(0, @ - 1)]
          /\ tokens' = tokens
      BY <1>1 DEF CancelEffect
    <2> HIDE DEF q, R
    <2> QED
      BY <2>1, PoolFacts DEF PoolCounters
  <1>8. SumFunction(notes') = SumFunction(notes) + q.amount
    <2> DEFINE u == r[1]
               v == notes[u] + q.amount
    <2>1. u \in User
      BY DEF ReqId
    <2>2. notes[u] \in Nat /\ v \in Nat
      BY <1>3, <2>1, PoolFacts
    <2>3. notes' = [notes EXCEPT ![u] = v]
      BY <1>1 DEF CancelEffect
    <2>4. SumFunction(notes') = SumFunction(notes) - notes[u] + v
      <3> HIDE DEF u, v
      <3> QED
        BY <2>1, <2>2, <2>3, NotesUpdate
    <2>5. SumFunction(notes) \in Nat
      BY NotesType
    <2> HIDE DEF u
    <2> QED
      BY <1>3, <2>2, <2>4, <2>5
  <1>9. WorthIn(utxos', DOMAIN utxos') = WorthIn(utxos, DOMAIN utxos)
    <2>1. WorthIn(utxos, DOMAIN utxos) = WorthIn(utxos', DOMAIN utxos)
      BY <1>5, FiniteFacts, WorthSame
    <2> QED
      BY <1>5, <2>1
  <1>10. WorthIn(utxos', UnspentIn(utxos')) = WorthIn(utxos, U) + q.total
    <2>1. IsFiniteSet(U \cup R) /\ U \cup R \subseteq DOMAIN utxos
      BY <1>3, <1>4, FS_Union
    <2>2. \A o \in U \cup R : utxos[o].amount \in Nat /\ utxos[o].amount = utxos'[o].amount
      BY <1>5, <2>1, CoinFacts
    <2> HIDE DEF U, R, q
    <2>3. WorthIn(utxos, U \cup R) = WorthIn(utxos', U \cup R)
      BY <2>1, <2>2, WorthSame
    <2>4. WorthIn(utxos, U \cup R) = WorthIn(utxos, U) + WorthIn(utxos, R)
      BY <1>3, <1>4, <2>2, WorthUnion
    <2> QED
      BY <1>3, <1>6, <2>3, <2>4
  <1>11. Cardinality(UnspentIn(utxos')) = Cardinality(U) + Cardinality(R)
    <2>1. Cardinality(U) \in Nat /\ Cardinality(R) \in Nat
      BY <1>3, UnspentFacts, FS_CardinalityType
    <2> HIDE DEF U, R
    <2>2. Cardinality(U \cup R) = Cardinality(U) + Cardinality(R) - Cardinality(U \cap R)
      BY <1>3, <1>4, FS_Union
    <2>3. Cardinality(U \cap R) = 0
      BY <1>4, FS_EmptySet
    <2> QED
      BY <1>6, <2>1, <2>2, <2>3
  <1>12. /\ Locked(requests') = Locked(requests) - q.amount
         /\ Cardinality(DOMAIN requests') = Cardinality(DOMAIN requests) - 1
         /\ Cardinality(DOMAIN requests) \in Nat \ {0}
    BY <1>1, <1>3, LockedLess
  <1>13. /\ Locked(requests) \in Nat /\ pool.shielded \in Nat /\ pool.fees \in Nat
         /\ tokens.vault \in Nat
    BY LockedType, PoolFacts
  <1> HIDE DEF q, R, U
  <1>14. Backed(utxos', tokens', pool', requests', notes')
    BY <1>2, <1>3, <1>7, <1>8, <1>9, <1>12, <1>13 DEF Backed
  <1>15. Counted(utxos', pool', requests')
    BY <1>2, <1>7, <1>10, <1>11, <1>12 DEF Counted, U, LargerOf
  <1> QED
    BY <1>14, <1>15, LedgerForm DEF LedgerInv

LEMMA NextKeepsLedger == CustodyInv /\ AccountsInv /\ LedgerInv /\ [Next]_vars => LedgerInv'
  <1> SUFFICES ASSUME CustodyInv, AccountsInv, LedgerInv, [Next]_vars PROVE LedgerInv'
    OBVIOUS
  <1>1. ASSUME \/ \E value \in PauseValues : SetPaused(value)
               \/ \E c \in TokenConfigs : UpdateTokenConfig(c)
               \/ \E a \in approvals : ConfirmPayout(a.tx)
               \/ NextSlot
               \/ UNCHANGED vars
        PROVE  LedgerInv'
    <2>1. UNCHANGED <<utxos, tokens, pool, notes, requests>>
      BY <1>1 DEF SetPaused, UpdateTokenConfig, ConfirmPayout, NextSlot, vars
    <2> QED
      BY <2>1, FrameLedger
  <1> QED
    BY <1>1, ClaimKeepsLedger, DepositKeepsLedger, RedeemKeepsLedger, MarkKeepsLedger,
       ApproveKeepsLedger, SettleKeepsLedger, CancelKeepsLedger
    DEF Next

LEMMA LedgerHolds == Spec => []LedgerInv
  BY InitLedger, NextKeepsLedger, AccountsHold, CustodyInvHolds, PTL DEF Spec

\* Whatever deposits, redemptions, refunds, payouts with or without change and fee claims
\* happen, for every fee schedule: the coins on record are the zkBTC in existence, and
\* the vault holds what notes, claimable fees and open redemptions add up to.
THEOREM CustodyConserved == Spec => []FullyBacked
  BY LedgerHolds, PTL DEF LedgerInv

\* The pool's own counters never drift from the accounts they summarise, so the checked
\* subtractions of mark_processing cannot fail for coins that are there.
THEOREM CountersNeverDrift == Spec => []CountersExact
  BY LedgerHolds, PTL DEF LedgerInv

\* Under any fee schedule whose base fee and whose miner fee limit reach the dust
\* threshold, every reservation that mark_processing ever made can be signed.
THEOREM ReservationsSignable ==
  ASSUME Dust <= ServiceFeeBase, Dust <= MaxMinerFee
  PROVE  Spec => []ReservationSignable
  <1>1. AccountsInv => ReservationSignable
    <2> SUFFICES ASSUME AccountsInv, NEW r \in DOMAIN requests, Processing(r)
                 PROVE  FullFees(requests[r]) # {}
      BY DEF ReservationSignable
    <2> DEFINE q == requests[r]
    <2>1. q.amount \in Nat /\ q.fee \in Nat /\ q.total \in Nat /\ RequestSound(utxos, q)
      BY RequestFacts
    <2>2. Required(q) <= q.total /\ q.fee = ComputeServiceFee(q.amount)
      BY <2>1 DEF RequestSound, Processing
    <2>3. Dust <= q.fee
      <3>1. Dust \in Nat /\ ServiceFeeBase \in Nat
        BY BridgeAssumption DEF BridgeAssumption
      <3> HIDE DEF q
      <3> QED
        BY <2>1, <2>2, <3>1, ServiceFeeType
    <2> HIDE DEF q
    <2>4. FullFees(q) # {}
      BY <2>1, <2>2, <2>3, CoveredIsSignable
    <2> QED
      BY <2>4 DEF q
  <1> QED
    BY <1>1, AccountsHold, PTL

-----------------------------------------------------------------------------
(* Settlement of confirmed payouts *)

\* What was approved for signing was within the limits, and still is.
RequestAllowed(q) ==
  q.approved # {} => q.amount <= MaxRedemption /\ q.total > 0 /\ FeeAdmissible(q, q.minerFee)

RequestsAllowed == \A r \in DOMAIN requests : RequestAllowed(requests[r])

LEMMA InitAllowed == Init => RequestsAllowed
  BY DEF Init, RequestsAllowed

LEMMA AllowedStays ==
  ASSUME RequestsAllowed,
         \A r \in DOMAIN requests' : r \in DOMAIN requests /\ requests'[r] = requests[r]
  PROVE  RequestsAllowed'
  <1>1. \A r \in DOMAIN requests' : RequestAllowed(requests'[r])
    BY DEF RequestsAllowed
  <1> QED
    BY <1>1 DEF RequestsAllowed, RequestAllowed, FeeAdmissible, EffectiveFee, PayoutTx, Send

LEMMA NextKeepsAllowed ==
  ASSUME CustodyInv, AccountsInv, RequestsAllowed, [Next]_vars
  PROVE  RequestsAllowed'
  <1>1. ASSUME UNCHANGED requests PROVE RequestsAllowed'
    BY <1>1, AllowedStays
  <1>2. ASSUME NEW u \in User, NEW outs \in SUBSET Payouts, Redeem(u, outs)
        PROVE  RequestsAllowed'
    <2>1. RedeemPays(u, outs) /\ RedeemRequests(u, outs)
      BY <1>2, RedeemEffect
    <2>2. \A p \in outs : RequestAllowed(PendingRequest(p))
      BY DEF RequestAllowed, PendingRequest
    <2>3. \A r \in Made(u, outs) : \E p \in outs : r = Ids(u, outs)[p]
      BY DEF Made
    <2>4. \A r \in DOMAIN requests' : RequestAllowed(requests'[r])
      BY <2>1, <2>2, <2>3 DEF RedeemRequests, RequestsAllowed
    <2> QED
      BY <2>4 DEF RequestsAllowed, RequestAllowed, FeeAdmissible, EffectiveFee, PayoutTx, Send
  <1>3. ASSUME NEW r \in ReqId, NEW S \in SUBSET DOMAIN utxos, MarkProcessing(r, S)
        PROVE  RequestsAllowed'
    <2> DEFINE q == requests[r]
               p == requests'[r]
    <2>1. r \in DOMAIN requests /\ RequestShape(q) /\ q.approved = {}
      BY <1>3, MarkGuard DEF CustodyInv, Shapes, PendingIsFree
    <2>2. p = [q EXCEPT !.status = "Processing", !.slot = slot,
                        !.total = WorthIn(utxos, S), !.reserved = S]
      BY <1>3, MarkRequests
    <2> HIDE DEF p, q
    <2>3. p.approved = {}
      BY <2>1, <2>2 DEF RequestShape
    <2>4. \A s \in DOMAIN requests' : RequestAllowed(requests'[s])
      BY <1>3, <2>3, MarkRequests DEF RequestsAllowed, RequestAllowed, p
    <2> QED
      BY <2>4 DEF RequestsAllowed, RequestAllowed, FeeAdmissible, EffectiveFee, PayoutTx, Send
  <1>4. ASSUME NEW r \in ReqId, NEW o \in DOMAIN utxos, NEW f \in 0..MaxMinerFee,
               ApproveSigning(r, o, f)
        PROVE  RequestsAllowed'
    <2> DEFINE q == requests[r]
               p == requests'[r]
    <2>1. ApproveEffect(r, o, f)
      BY <1>4, ApproveDone
    <2>2. r \in DOMAIN requests /\ RequestShape(q)
      BY <2>1 DEF ApproveEffect, CustodyInv, Shapes
    <2>3. q.total > 0 /\ FeeAdmissible(q, f) /\ q.amount <= MaxRedemption
      BY <1>4 DEF ApproveSigning, CheckRedemptionSigning
    <2>4. p = [q EXCEPT !.approved = q.approved \cup {o}, !.minerFee = f]
      BY <2>1 DEF ApproveEffect
    <2> HIDE DEF p, q
    <2>5. /\ p.script = q.script /\ p.amount = q.amount /\ p.fee = q.fee /\ p.total = q.total
          /\ p.reserved = q.reserved /\ p.minerFee = f
      BY <2>2, <2>4 DEF RequestShape
    <2>6. FeeAdmissible(p, f)
      BY <2>3, <2>5 DEF FeeAdmissible, EffectiveFee, PayoutTx, Send
    <2>7. RequestAllowed(p)
      BY <2>3, <2>5, <2>6 DEF RequestAllowed
    <2>8. \A s \in DOMAIN requests' : RequestAllowed(requests'[s])
      BY <2>1, <2>7 DEF ApproveEffect, RequestsAllowed, p
    <2> QED
      BY <2>8 DEF RequestsAllowed, RequestAllowed, FeeAdmissible, EffectiveFee, PayoutTx, Send
  <1>5. ASSUME NEW r \in ReqId, NEW t \in confirmed, CompleteRedemption(r, t)
        PROVE  RequestsAllowed'
    BY <1>5, SettleDone, AllowedStays DEF Closes
  <1>6. ASSUME NEW r \in ReqId, CancelRedemption(r) PROVE RequestsAllowed'
    BY <1>6, CancelDone, AllowedStays DEF Closes
  <1> QED
    BY <1>1, <1>2, <1>3, <1>4, <1>5, <1>6
    DEF Next, CompleteDeposit, ClaimFees, SetPaused, UpdateTokenConfig, ConfirmPayout,
        NextSlot, vars

\* The fee that a signed transaction pays is within both limits.
LEMMA AdmissibleFee ==
  ASSUME NEW q, q.amount \in Nat, q.fee \in Nat, q.total \in Nat, Send(q) \in Nat,
         NEW f \in 0..MaxMinerFee, FeeAdmissible(q, f)
  PROVE  LET t == PayoutTx(q, f)
         IN  /\ t.send = Send(q) /\ t.to = q.script /\ t.inputs = q.reserved
             /\ EffectiveFee(q, t) \in 0..MaxMinerFee
             /\ t.send + EffectiveFee(q, t) <= q.amount
  <1> DEFINE t == PayoutTx(q, f)
             spare == q.total - Send(q)
             e == EffectiveFee(q, t)
  <1>1. Dust \in Nat /\ MaxMinerFee \in Nat
    BY BridgeAssumption DEF BridgeAssumption
  <1>2. /\ t.send = Send(q) /\ t.to = q.script /\ t.inputs = q.reserved
        /\ t.change = IF spare - f > Dust THEN spare - f ELSE 0
    BY DEF PayoutTx
  <1>3. spare \in Int /\ spare >= f /\ f \in Nat
    BY <1>1 DEF FeeAdmissible
  <1> HIDE DEF t, spare
  <1>4. e = spare - t.change /\ e \in Nat
    BY <1>1, <1>2, <1>3 DEF EffectiveFee, spare
  <1>5. e <= SmallerOf(MaxMinerFee, q.fee)
    BY DEF FeeAdmissible, t
  <1>6. e <= MaxMinerFee /\ e <= q.fee
    BY <1>1, <1>4, <1>5 DEF SmallerOf
  <1> HIDE DEF e
  <1>7. Send(q) + e <= q.amount
    BY <1>4, <1>6 DEF Send
  <1> QED
    BY <1>1, <1>2, <1>4, <1>6, <1>7 DEF e, t

LEMMA PayoutInRange == \A send \in Nat : send \in MinPayout(send)..send
  <1> SUFFICES ASSUME NEW send \in Nat PROVE send \in MinPayout(send)..send
    OBVIOUS
  <1>1. PayoutTolerance \in Nat \ {0} /\ MaxMinerFee \in Nat
    BY BridgeAssumption DEF BridgeAssumption
  <1>2. send \div PayoutTolerance \in Nat
    BY <1>1, QuotientType
  <1> DEFINE d == send \div PayoutTolerance
  <1>3. d \in Nat
    BY <1>2
  <1> HIDE DEF d
  <1>4. LargerOf(LargerOf(0, send - MaxMinerFee), send - d) \in Int
        /\ LargerOf(LargerOf(0, send - MaxMinerFee), send - d) <= send
    BY <1>1, <1>3 DEF LargerOf
  <1> QED
    BY <1>4 DEF MinPayout, d

\* The vault can always pay for a live request.
LEMMA VaultCovers ==
  ASSUME AccountsInv, LedgerInv, NEW r \in DOMAIN requests
  PROVE  requests[r].amount <= tokens.vault
  <1> DEFINE f == [s \in DOMAIN requests |-> requests[s].amount]
  <1>1. \A s \in DOMAIN requests : f[s] \in Nat
    BY RequestFacts
  <1>2. Locked(requests) = SumFunctionOnSet(f, DOMAIN requests)
    BY DEF Locked, SumFunction
  <1>3. f[r] = requests[r].amount
    OBVIOUS
  <1> HIDE DEF f
  <1>4. IsFiniteSet(DOMAIN requests) /\ IsFiniteSet(DOMAIN requests \ {r})
    BY FiniteFacts, FS_RemoveElement
  <1>5. SumFunctionOnSet(f, DOMAIN requests) = f[r] + SumFunctionOnSet(f, DOMAIN requests \ {r})
    <2>1. \A s \in DOMAIN requests : f[s] \in Int
      BY <1>1
    <2> QED
      BY <1>4, <2>1, SumRemove
  <1>6. SumFunctionOnSet(f, DOMAIN requests \ {r}) \in Nat
    BY <1>1, <1>4, SumType
  <1>7. tokens.vault = pool.shielded + pool.fees + Locked(requests)
    BY LedgerForm DEF LedgerInv, Backed
  <1> QED
    BY <1>1, <1>2, <1>3, <1>5, <1>6, <1>7, PoolFacts

\* A transaction with a single input that spends a live request's coin is that
\* request's payout: the request can not have been cancelled since the approval.
LEMMA SingleIsOwn ==
  ASSUME CustodyInv, AccountsInv, SignedTracked, NEW r \in DOMAIN requests,
         NEW t \in confirmed, t \notin completed, t.inputs = requests[r].reserved,
         Cardinality(t.inputs) = 1
  PROVE  OwnPayout(requests[r], t)
  <1>1. PICK a \in approvals : a.tx = t
    BY DEF SignedTracked
  <1>2. t.inputs = {a.input}
    <2>1. IsFiniteSet(t.inputs)
      BY RequestFacts
    <2>2. \E x : t.inputs = {x}
      BY <2>1, FS_Singleton, Zenon
    <2>3. a.input \in t.inputs
      BY <1>1 DEF SignedTracked
    <2> QED
      BY <2>2, <2>3
  <1>3. PICK s \in DOMAIN requests : Pays(requests[s], t)
    BY <1>1, <1>2 DEF SignedTracked
  <1>4. a.input \in requests[s].reserved /\ a.input \in requests[r].reserved
    BY <1>2, <1>3 DEF Pays
  <1>5. s = r
    BY <1>4 DEF CustodyInv, ReservationExact, HoldsReservation
  <1> QED
    BY <1>2, <1>3, <1>5 DEF Pays, OwnPayout

LEMMA SignedSettles ==
  ASSUME CustodyInv, AccountsInv, LedgerInv, SignedTracked, RequestsAllowed
  PROVE  ConfirmedSettles
  <1> SUFFICES ASSUME NEW r \in DOMAIN requests, NEW t \in confirmed, t \notin completed,
                      ~paused, Processing(r), t.inputs = requests[r].reserved,
                      requests[r].script = PoolScript => t.change = 0,
                      Cardinality(t.inputs) = 1 \/ OwnPayout(requests[r], t)
               PROVE  Settles(r, t)
    BY DEF ConfirmedSettles
  <1> DEFINE q == requests[r]
  <1>1. OwnPayout(q, t)
    BY SingleIsOwn
  <1>2. HoldsReservation(r)
    BY DEF CustodyInv, ReservationExact
  <1>3. q.approved # {} /\ t = PayoutTx(q, q.minerFee) /\ q.minerFee \in 0..MaxMinerFee
    BY <1>1, RequestFacts DEF OwnPayout, CustodyInv, ApprovedTogether
  <1>4. q.amount <= MaxRedemption /\ q.total > 0 /\ FeeAdmissible(q, q.minerFee)
    BY <1>3 DEF RequestsAllowed, RequestAllowed
  <1>5. q.amount \in Nat /\ q.fee \in Nat /\ q.total \in Nat /\ Send(q) \in Nat
    BY RequestFacts
  <1>6. q.amount <= tokens.vault /\ tokens.vault \in Nat
    BY VaultCovers, PoolFacts
  <1>7. q.script = PoolScript => t.change = 0
    OBVIOUS
  <1> HIDE DEF q
  <1>8. /\ t.send = Send(q) /\ t.to = q.script /\ t.inputs = q.reserved
        /\ EffectiveFee(q, t) \in 0..MaxMinerFee
        /\ t.send + EffectiveFee(q, t) <= q.amount
    BY <1>3, <1>4, <1>5, AdmissibleFee
  <1>9. MaxMinerFee \in Nat
    BY BridgeAssumption DEF BridgeAssumption
  <1>10. t.send + EffectiveFee(q, t) <= tokens.vault
    <2>1. t.send + EffectiveFee(q, t) \in Int
      BY <1>5, <1>8, <1>9
    <2> QED
      BY <1>5, <1>6, <1>8, <2>1
  <1>11. t.send \in MinPayout(Send(q))..Send(q)
    BY <1>5, <1>8, PayoutInRange
  <1>12. CheckRedemptionSigning(q.amount, EffectiveFee(q, t))
    BY <1>4, <1>8, <1>9 DEF CheckRedemptionSigning
  <1> QED
    BY <1>2, <1>4, <1>7, <1>8, <1>10, <1>11, <1>12 DEF Settles, q

\* complete_redemption accepts every confirmed transaction that spends a live request's
\* reservation, of any number of coins, as soon as the pool is not paused: neither its
\* fee nor its amount, the signing limits, the vault or the reservation stands in the
\* way.  Left out are exactly the refusals that ConfirmedSettles names.
THEOREM ConfirmedPayoutsSettle == Spec => []ConfirmedSettles
  <1>1. CustodyInv /\ AccountsInv /\ RequestsAllowed /\ [Next]_vars => RequestsAllowed'
    BY NextKeepsAllowed
  <1>2. CustodyInv /\ AccountsInv /\ LedgerInv /\ SignedTracked /\ RequestsAllowed
          => ConfirmedSettles
    BY SignedSettles
  <1> QED
    BY <1>1, <1>2, InitAllowed, CustodyInvHolds, AccountsHold, LedgerHolds, TrackedHolds, PTL
    DEF Spec
===============================================================================
