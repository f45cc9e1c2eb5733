---------------------------- MODULE DepositProofs ----------------------------
(***************************************************************************)
(* For any chain, any transactions and any pools: what is credited lies in *)
(* final blocks of the expected network, and an output is credited once    *)
(* until a settled payout has spent it.                                    *)
(***************************************************************************)
EXTENDS Deposit, TLAPS, WellFoundedInduction, FiniteSetTheorems

\* A nonempty set of output numbers has a first.
LEMMA FirstIn == ASSUME NEW S \in SUBSET Nat, S # {} PROVE First(S) \in S
<1> DEFINE R == {ss \in Nat \X Nat : ss[1] < ss[2]}
<1>1. IsWellFoundedOn(R, Nat)
  BY NatLessThanWellFounded DEF OpToRel
<1>2. \E x \in S : \A y \in S : ~(<<y, x>> \in R)
  <2> HIDE DEF R
  <2> QED BY <1>1, WFMin
<1>3. PICK x \in S : \A y \in S : ~(<<y, x>> \in R)
  BY <1>2
<1>4. \A y \in S : ~(y < x)
  BY <1>3
<1>5. \A y \in S : x <= y
  BY <1>4
<1> QED BY <1>5 DEF First

\* Outputs are numbered by naturals and have a value.
LEMMA VoutsNat ==
  ASSUME NEW tx \in Tx
  PROVE  /\ Vouts(tx) \subseteq Nat
         /\ \A i \in Vouts(tx) : Outs[tx][i].value \in Nat /\ Outs[tx][i].script \in Script
<1> DEFINE Output == [value : Nat, script : Script]
<1>1. Outs[tx] \in Seq(Output)
  BY DepositAssumption
<1>2. /\ DOMAIN Outs[tx] = 1..Len(Outs[tx]) /\ Len(Outs[tx]) \in Nat
      /\ \A i \in 1..Len(Outs[tx]) : Outs[tx][i] \in Output
  <2> HIDE DEF Output
  <2> DEFINE outs == Outs[tx]
  <2>1. outs \in Seq(Output)
    BY <1>1
  <2> HIDE DEF outs
  <2>2. /\ DOMAIN outs = 1..Len(outs) /\ Len(outs) \in Nat
        /\ \A i \in 1..Len(outs) : outs[i] \in Output
    BY <2>1
  <2> QED BY <2>2 DEF outs
<1>3. \A i \in 1..Len(Outs[tx]) : Outs[tx][i].value \in Nat /\ Outs[tx][i].script \in Script
  BY <1>2
<1> QED BY <1>2, <1>3 DEF Vouts

\* The scripts that a pool's key controls.
Custody(p, script) == script = PoolScript(p) \/ \E n \in Note : script = LeafScript(p, n)

\* The shape of an accepted request: the output it credits is one of the proven
\* transaction's, is in the pool's custody, and has a positive value.
LEMMA AcceptableShape ==
  ASSUME NEW r \in Acceptable
  PROVE  /\ r.pool \in Pool /\ r.tx \in Tx /\ r.deposit \in Tx
         /\ CreditedOut(r) \in Outpoint
         /\ CreditedOut(r)[1] = r.tx
         /\ ValueOf(CreditedOut(r)) \in Nat
         /\ Custody(r.pool, Outs[CreditedOut(r)[1]][CreditedOut(r)[2]].script)
         /\ ReceiptKey(r) \in {<<tx>> : tx \in Tx} \cup Outpoint
<1>0. r \in Request /\ WellFormed(r) /\ ValueOf(CreditedOut(r)) \in Creditable
  BY DEF Acceptable
<1>1. ValueOf(CreditedOut(r)) \in Nat
  BY <1>0, DepositAssumption
<1>2. CASE r.mode = "tweak"
  <2>1. PICK p \in Pool, out \in UNION {{t} \X Vouts(t) : t \in Tx}, n \in Note :
          r = [mode |-> "tweak", pool |-> p, tx |-> out[1], deposit |-> out[1],
               vout |-> out[2], note |-> n]
    BY <1>0, <1>2 DEF Request
  <2>2. PICK t \in Tx : out \in {t} \X Vouts(t)
    BY <2>1
  <2>3. out[1] = t /\ out[2] \in Vouts(t) /\ out[2] \in Nat
    BY <2>2, VoutsNat
  <2>4. r.pool = p /\ r.tx = t /\ r.deposit = t /\ r.vout = out[2] /\ r.note = n
    BY <2>1, <2>3
  <2>5. CreditedOut(r) = <<t, out[2]>> /\ ReceiptKey(r) = <<t, out[2]>>
    BY <1>2, <2>4 DEF CreditedOut, ReceiptKey
  <2>6. TweakOk(r)
    BY <1>0, <1>2 DEF WellFormed
  <2>7. Outs[t][out[2]].script = LeafScript(p, n)
    BY <2>4, <2>6 DEF TweakOk
  <2> QED BY <1>1, <2>3, <2>4, <2>5, <2>7 DEF Outpoint, Custody
<1>3. CASE r.mode # "tweak"
  <2>1. PICK mo \in {"direct", "sweep"}, p \in Pool, t \in Tx, u \in Tx :
          r = [mode |-> mo, pool |-> p, tx |-> t, deposit |-> u]
    BY <1>0, <1>3 DEF Request
  <2>2. r.pool = p /\ r.tx = t /\ r.deposit = u
    BY <2>1
  <2> DEFINE S == OutputsByScript(t, PoolScript(p))
  <2>3. PaysPoolOnce(r)
    BY <1>0, <1>3 DEF WellFormed, DirectOk, SweepOk
  <2>4. PositiveOutputsByScript(t, PoolScript(p)) # {}
    BY <2>2, <2>3, FS_EmptySet DEF PaysPoolOnce
  <2>5. S # {} /\ S \subseteq Vouts(t) /\ S \subseteq Nat
    BY <2>4, VoutsNat DEF PositiveOutputsByScript, OutputsByScript
  <2>6. First(S) \in S
    <3> HIDE DEF S
    <3> QED BY <2>5, FirstIn
  <2>7. Outs[t][First(S)].script = PoolScript(p) /\ First(S) \in Nat
    BY <2>5, <2>6 DEF OutputsByScript
  <2>8. CreditedOut(r) = <<t, First(S)>> /\ ReceiptKey(r) = <<u>>
    BY <1>3, <2>2 DEF CreditedOut, ReceiptKey
  <2> HIDE DEF S
  <2> QED BY <1>1, <2>2, <2>7, <2>8 DEF Outpoint, Custody
<1> QED BY <1>2, <1>3

\* Different keys, different scripts.
LEMMA CustodyUnique ==
  ASSUME NEW p \in Pool, NEW q \in Pool, NEW script, Custody(p, script), Custody(q, script)
  PROVE  KeyOf[p] = KeyOf[q]
<1>1. script.key = KeyOf[p]
  BY DEF Custody, PoolScript, LeafScript
<1>2. script.key = KeyOf[q]
  BY DEF Custody, PoolScript, LeafScript
<1> QED BY <1>1, <1>2

-----------------------------------------------------------------------------
(* Types *)

LEMMA TypeInit == Init => TypeOK
BY DepositAssumption DEF Init, Client!Init, TypeOK

LEMMA TypeStep == TypeOK /\ [Next]_vars => TypeOK'
<1> SUFFICES ASSUME TypeOK, [Next]_vars PROVE TypeOK'
  OBVIOUS
<1>1. ASSUME Follow PROVE TypeOK'
  BY <1>1, DepositAssumption
  DEF TypeOK, Follow, Client!Start, Client!Advance, Client!Position
<1>2. ASSUME Reinitialize PROVE TypeOK'
  BY <1>2, DepositAssumption DEF TypeOK, Reinitialize, Client!Restart, Client!Position
<1>3. ASSUME NEW h \in Height, NEW tx \in Tx, VerifyTransaction(h, tx) PROVE TypeOK'
  BY <1>3 DEF TypeOK, VerifyTransaction, Client!Attest
<1>4. ASSUME NEW r \in Acceptable, NEW v \in attested, CompleteDeposit(r, v) PROVE TypeOK'
  BY <1>4, AcceptableShape DEF TypeOK, CompleteDeposit, client
<1>5. ASSUME NEW p \in Pool, NEW tx \in Payouts, NEW v \in attested,
             CompleteRedemption(p, tx, v)
      PROVE  TypeOK'
  <2>1. tx \in Tx
    BY DepositAssumption
  <2>2. ChangeOf(p, tx) \subseteq [pool : Pool, out : Outpoint, amount : Nat]
    BY <2>1, VoutsNat DEF ChangeOf, OutputsByScript, Outpoint
  <2>3. records' \subseteq [pool : Pool, out : Outpoint, amount : Nat]
    BY <1>5, <2>2 DEF CompleteRedemption, TypeOK
  <2> QED BY <1>5, <2>3 DEF CompleteRedemption, TypeOK, client
<1>6. ASSUME UNCHANGED vars PROVE TypeOK'
  BY <1>6 DEF vars, TypeOK
<1> QED BY <1>1, <1>2, <1>3, <1>4, <1>5, <1>6 DEF Next

\* Whatever the chain does, the accounts that the deposits read and write keep their
\* types: receipts by transaction or outpoint, records of outputs of transactions.
THEOREM TypeCorrect == Spec => []TypeOK
BY TypeInit, TypeStep, PTL DEF Spec

-----------------------------------------------------------------------------
(* Finality of what is credited *)

\* Before the client exists there is nothing to read; afterwards the history of
\* instances reaches to the present one.
InstancesKnown ==
  /\ finalized = -1 => epoch = 0 /\ attested = {} /\ credits = {}
  /\ finalized # -1 => DOMAIN instances = 0..epoch /\ instances[epoch] = network

\* An attestation of the present instance is of a block that is final now.
AttestedFinal ==
  \A v \in attested :
    /\ v.epoch <= epoch
    /\ v.epoch = epoch =>
         v.height <= finalized /\ index[v.height] = v.block /\ v.tx \in TxsOf[v.block]

\* Credits name heights and instances that have been.
CreditsPast ==
  \A c \in credits : c.height \in Height /\ c.proven \in 0..epoch /\ c.epoch \in 0..epoch

FinalInv == TypeOK /\ InstancesKnown /\ AttestedFinal /\ CreditsPast /\ CreditsFinal

LEMMA FinalInit == Init => FinalInv
BY TypeInit
DEF Init, Client!Init, FinalInv, InstancesKnown, AttestedFinal, CreditsPast, CreditsFinal

LEMMA FinalStep == FinalInv /\ [Next]_vars => FinalInv'
<1> SUFFICES ASSUME FinalInv, [Next]_vars PROVE FinalInv'
  OBVIOUS
<1> USE DEF FinalInv
<1>0. TypeOK'
  BY TypeStep
<1>1. ASSUME Follow PROVE FinalInv'
  <2>1. CASE Client!Start /\ instances' = [e \in {0} |-> network']
    BY <1>0, <1>1, <2>1, DepositAssumption
    DEF Follow, Client!Start, Client!Position, InstancesKnown, AttestedFinal, CreditsPast,
        CreditsFinal, TypeOK
  <2>2. CASE Client!Advance /\ UNCHANGED instances
    <3>1. /\ UNCHANGED <<network, epoch, attested, instances, credits>>
          /\ finalized # -1 /\ finalized' # -1
          /\ \A h \in Height : h <= finalized => h <= finalized' /\ index'[h] = index[h]
      BY <1>0, <1>1, <2>2, DepositAssumption
      DEF Follow, Client!Advance, Client!Position, TypeOK
    <3>2. InstancesKnown' /\ CreditsPast'
      BY <3>1 DEF InstancesKnown, CreditsPast
    <3>3. AttestedFinal'
      BY <3>1 DEF AttestedFinal, TypeOK
    <3>4. CreditsFinal'
      BY <3>1 DEF CreditsFinal, CreditsPast
    <3> QED BY <1>0, <3>2, <3>3, <3>4
  <2> QED BY <1>1, <2>1, <2>2 DEF Follow
<1>2. ASSUME Reinitialize PROVE FinalInv'
  <2>1. /\ epoch' = epoch + 1 /\ epoch \in Nat
        /\ finalized # -1 /\ finalized' # -1
        /\ UNCHANGED <<attested, credits>>
        /\ instances' = [e \in 0..epoch' |-> IF e = epoch' THEN network' ELSE instances[e]]
    BY <1>2, DepositAssumption
    DEF Reinitialize, Client!Restart, Client!Position, TypeOK
  <2>2. InstancesKnown'
    BY <2>1 DEF InstancesKnown
  <2>3. AttestedFinal'
    BY <2>1 DEF AttestedFinal, TypeOK
  <2>4. CreditsPast'
    BY <2>1 DEF CreditsPast
  <2>5. CreditsFinal'
    BY <2>1 DEF CreditsFinal, CreditsPast
  <2> QED BY <1>0, <2>2, <2>3, <2>4, <2>5
<1>3. ASSUME NEW h \in Height, NEW tx \in Tx, VerifyTransaction(h, tx) PROVE FinalInv'
  <2>1. /\ UNCHANGED <<network, epoch, finalized, index, instances, credits>>
        /\ h <= finalized /\ tx \in TxsOf[index[h]]
        /\ attested' = attested \cup
             {[block |-> index[h], tx |-> tx, height |-> h, epoch |-> epoch]}
    BY <1>3 DEF VerifyTransaction, Client!Attest
  <2>2. finalized # -1
    BY <2>1, DepositAssumption
  <2>3. AttestedFinal'
    BY <2>1 DEF AttestedFinal, TypeOK
  <2> QED BY <1>0, <2>1, <2>2, <2>3 DEF InstancesKnown, CreditsPast, CreditsFinal
<1>4. ASSUME NEW r \in Acceptable, NEW v \in attested, CompleteDeposit(r, v)
      PROVE  FinalInv'
  <2>1. /\ UNCHANGED <<network, epoch, finalized, index, attested, instances>>
        /\ v.tx = r.tx /\ v.epoch = epoch /\ network = ExpectedNetwork
        /\ credits' = credits \cup {Credit(r, v)}
    BY <1>4 DEF CompleteDeposit, client, ProofAccepted, CurrentInstance, NetworkExpected
  <2>2. finalized # -1
    BY DEF InstancesKnown
  <2>3. /\ Credit(r, v).height = v.height /\ Credit(r, v).block = v.block
        /\ Credit(r, v).proven = epoch /\ Credit(r, v).epoch = epoch
        /\ Credit(r, v).out[1] = v.tx
    BY <2>1, AcceptableShape DEF Credit
  <2>4. v.height \in Height /\ epoch \in Nat
    BY DEF TypeOK
  <2>5. CreditsPast'
    BY <2>1, <2>3, <2>4 DEF CreditsPast
  <2>6. /\ v.height <= finalized /\ index[v.height] = v.block /\ v.tx \in TxsOf[v.block]
        /\ instances[epoch] = ExpectedNetwork
    BY <2>1, <2>2 DEF AttestedFinal, InstancesKnown
  <2>7. CreditsFinal'
    BY <2>1, <2>3, <2>6 DEF CreditsFinal
  <2> QED BY <1>0, <2>1, <2>2, <2>5, <2>7 DEF InstancesKnown, AttestedFinal
<1>5. ASSUME NEW p \in Pool, NEW tx \in Payouts, NEW v \in attested,
             CompleteRedemption(p, tx, v)
      PROVE  FinalInv'
  BY <1>0, <1>5
  DEF CompleteRedemption, client, InstancesKnown, AttestedFinal, CreditsPast, CreditsFinal
<1>6. ASSUME UNCHANGED vars PROVE FinalInv'
  BY <1>0, <1>6 DEF vars, InstancesKnown, AttestedFinal, CreditsPast, CreditsFinal
<1> QED BY <1>1, <1>2, <1>3, <1>4, <1>5, <1>6 DEF Next

\* For any chain, forks, reinitializations and confirmation counts, a credited deposit
\* lies in a block that is final and canonical in its instance, proven under the
\* network the build expects.
THEOREM CreditsAreFinal == Spec => []CreditsFinal
<1>1. FinalInv => CreditsFinal
  BY DEF FinalInv
<1> QED BY <1>1, FinalInit, FinalStep, PTL DEF Spec
-----------------------------------------------------------------------------
(* One credit an output *)

\* The account that stands for a credit: its outpoint for an output with a leaf, the
\* deposit's txid otherwise.
ScriptAt(out) == Outs[out[1]][out[2]].script
CreditKey(c) == IF ScriptAt(c.out).kind = "leaf" THEN c.out ELSE <<c.deposit>>

LEMMA KeyOfCredit ==
  ASSUME NEW r \in Acceptable, NEW v
  PROVE  CreditKey(Credit(r, v)) = ReceiptKey(r)
<1>0. r \in Request /\ WellFormed(r)
  BY DEF Acceptable
<1>1. /\ Credit(r, v).out = CreditedOut(r) /\ Credit(r, v).deposit = r.deposit
      /\ CreditedOut(r)[1] = r.tx
  BY AcceptableShape DEF Credit
<1>2. CASE r.mode = "tweak"
  <2>1. r.deposit = r.tx /\ Outs[r.tx][r.vout].script = LeafScript(r.pool, r.note)
    BY <1>0, <1>2 DEF WellFormed, TweakOk
  <2>2. CreditedOut(r) = <<r.tx, r.vout>> /\ ReceiptKey(r) = <<r.deposit, r.vout>>
    BY <1>2 DEF CreditedOut, ReceiptKey
  <2>3. ScriptAt(CreditedOut(r)).kind = "leaf"
    BY <2>1, <2>2 DEF ScriptAt, LeafScript
  <2> QED BY <1>1, <2>1, <2>2, <2>3 DEF CreditKey
<1>3. CASE r.mode # "tweak"
  <2>1. ReceiptKey(r) = <<r.deposit>>
    BY <1>3 DEF ReceiptKey
  <2> DEFINE S == OutputsByScript(r.tx, PoolScript(r.pool))
  <2>2. PaysPoolOnce(r)
    BY <1>0, <1>3 DEF WellFormed, DirectOk, SweepOk
  <2>3. PositiveOutputsByScript(r.tx, PoolScript(r.pool)) # {}
    BY <2>2, FS_EmptySet DEF PaysPoolOnce
  <2>4. r.tx \in Tx
    BY AcceptableShape
  <2>5. S # {} /\ S \subseteq Nat
    BY <2>3, <2>4, VoutsNat DEF PositiveOutputsByScript, OutputsByScript
  <2>6. First(S) \in S
    <3> HIDE DEF S
    <3> QED BY <2>5, FirstIn
  <2>7. CreditedOut(r) = <<r.tx, First(S)>>
    BY <1>3 DEF CreditedOut
  <2>8. Outs[r.tx][First(S)].script = PoolScript(r.pool)
    BY <2>6 DEF OutputsByScript
  <2> HIDE DEF S
  <2>9. ScriptAt(CreditedOut(r)).kind # "leaf"
    BY <2>7, <2>8 DEF ScriptAt, PoolScript
  <2> QED BY <1>1, <2>1, <2>9 DEF CreditKey
<1> QED BY <1>2, <1>3

\* A credited output is in the custody of its pool, has its receipt, and is recorded
\* until it is spent.
CreditsRecorded ==
  \A c \in credits :
    /\ c.pool \in Pool
    /\ Custody(c.pool, ScriptAt(c.out))
    /\ CreditKey(c) \in receipts
    /\ (\E u \in records : u.pool = c.pool /\ u.out = c.out) \/ SpentBySettlement(c.out)

OnceInv == CreditsRecorded /\ CreditedOnce

LEMMA OnceInit == Init => OnceInv
BY DEF Init, OnceInv, CreditsRecorded, CreditedOnce

LEMMA OnceStep == OnceInv /\ [Next]_vars => OnceInv'
<1> SUFFICES ASSUME OnceInv, [Next]_vars PROVE OnceInv'
  OBVIOUS
<1> USE DEF OnceInv
<1>1. ASSUME UNCHANGED <<receipts, records, completed, credits>> PROVE OnceInv'
  BY <1>1 DEF CreditsRecorded, CreditedOnce, SpentBySettlement
<1>2. ASSUME NEW r \in Acceptable, NEW v \in attested, CompleteDeposit(r, v) PROVE OnceInv'
  <2> DEFINE new == Credit(r, v)
  <2>1. /\ new.pool = r.pool /\ new.out = CreditedOut(r)
        /\ r.pool \in Pool
        /\ Custody(r.pool, ScriptAt(new.out))
    BY AcceptableShape DEF Credit, ScriptAt
  <2>2. CreditKey(new) = ReceiptKey(r)
    BY KeyOfCredit
  <2> HIDE DEF new
  <2>3. /\ credits' = credits \cup {new}
        /\ completed' = completed
        /\ CreditKey(new) \notin receipts /\ receipts' = receipts \cup {CreditKey(new)}
        /\ records \subseteq records'
        /\ \E u \in records' : u.pool = new.pool /\ u.out = new.out
        /\ ~\E u \in records : u.pool = new.pool /\ u.out = new.out
    <3>1. credits' = credits \cup {new} /\ completed' = completed
      BY <1>2 DEF CompleteDeposit, new
    <3>2. records' = records \cup {[pool |-> r.pool, out |-> CreditedOut(r),
                                    amount |-> ValueOf(CreditedOut(r))]}
      BY <1>2 DEF CompleteDeposit
    <3>3. ~\E u \in records : u.pool = r.pool /\ u.out = CreditedOut(r)
      BY <1>2 DEF CompleteDeposit, Unrecorded
    <3> DEFINE u == [pool |-> r.pool, out |-> CreditedOut(r),
                     amount |-> ValueOf(CreditedOut(r))]
    <3>4. u \in records' /\ u.pool = new.pool /\ u.out = new.out
      BY <2>1, <3>2
    <3>5. CreditKey(new) \notin receipts /\ receipts' = receipts \cup {CreditKey(new)}
      BY <1>2, <2>2 DEF CompleteDeposit
    <3> QED BY <2>1, <3>1, <3>2, <3>3, <3>4, <3>5
  <2>4. \A out : SpentBySettlement(out) => SpentBySettlement(out)'
    BY <2>3 DEF SpentBySettlement
  <2>5. CreditsRecorded'
    BY <2>1, <2>3, <2>4 DEF CreditsRecorded
  <2>6. ASSUME NEW c \in credits, c.out = new.out
        PROVE  /\ c.deposit # new.deposit /\ KeyOf[c.pool] = KeyOf[new.pool]
               /\ c.pool = new.pool => SpentBySettlement(c.out)'
    <3>1. CreditKey(c) # CreditKey(new)
      BY <2>3 DEF CreditsRecorded
    <3>2. c.deposit # new.deposit
      BY <2>6, <3>1 DEF CreditKey
    <3>3. KeyOf[c.pool] = KeyOf[new.pool]
      BY <2>1, <2>6, CustodyUnique DEF CreditsRecorded
    <3> QED BY <2>3, <2>4, <2>6, <3>2, <3>3 DEF CreditsRecorded
  <2>7. ASSUME NEW c \in credits', NEW d \in credits', c.out = d.out, c # d
        PROVE  /\ c.deposit # d.deposit
               /\ IF c.pool = d.pool THEN SpentBySettlement(c.out)'
                                     ELSE KeyOf[c.pool] = KeyOf[d.pool]
    <3>1. CASE c \in credits /\ d \in credits
      BY <2>4, <2>7, <3>1 DEF CreditedOnce
    <3>2. CASE c = new
      BY <2>3, <2>6, <2>7, <3>2
    <3>3. CASE d = new
      BY <2>3, <2>6, <2>7, <3>3
    <3> QED BY <2>3, <3>1, <3>2, <3>3
  <2>8. CreditedOnce'
    BY <2>7 DEF CreditedOnce
  <2> QED BY <2>5, <2>8
<1>3. ASSUME NEW p \in Pool, NEW tx \in Payouts, NEW v \in attested,
             CompleteRedemption(p, tx, v)
      PROVE  OnceInv'
  <2>1. /\ credits' = credits /\ receipts' = receipts
        /\ completed' = completed \cup {tx}
        /\ \A u \in records : u \in records' \/ u.out \in InputsOf(tx)
    BY <1>3 DEF CompleteRedemption
  <2>2. \A out : SpentBySettlement(out) \/ out \in InputsOf(tx) => SpentBySettlement(out)'
    BY <2>1 DEF SpentBySettlement
  <2>3. CreditsRecorded'
    BY <2>1, <2>2 DEF CreditsRecorded
  <2>4. CreditedOnce'
    BY <2>1, <2>2 DEF CreditedOnce
  <2> QED BY <2>3, <2>4
<1> QED
  BY <1>1, <1>2, <1>3 DEF Next, Follow, Reinitialize, VerifyTransaction, vars

\* For any pools, also ones that anybody configured with another pool's key, and any
\* modes and order of presentation: complete_deposit credits an output once for one
\* deposit transaction, and again for another one only after a settled payout has spent
\* it or at another pool of the same key.
THEOREM OutputsCreditedOnce == Spec => []CreditedOnce
<1>1. OnceInv => CreditedOnce
  BY DEF OnceInv
<1> QED BY <1>1, OnceInit, OnceStep, PTL DEF Spec

-----------------------------------------------------------------------------
(* What is credited was given *)

\* The OP_RETURN that names the pool is an output of the deposit, with the note's keys.
LEMMA MemoFound ==
  ASSUME NEW tx \in Tx, NEW p \in Pool, NamesPool(tx, p)
  PROVE  \E j \in MemosOf(tx) : Outs[tx][j].script = Memo(p, FindDepositOpReturn(tx).note)
<1> DEFINE j == First(MemosOf(tx))
<1>1. MemosOf(tx) \subseteq Nat /\ MemosOf(tx) # {}
  BY VoutsNat DEF MemosOf, NamesPool
<1>2. j \in MemosOf(tx)
  BY <1>1, FirstIn
<1>3. j \in Vouts(tx) /\ Outs[tx][j].script.kind = "memo"
  BY <1>2 DEF MemosOf
<1>4. Outs[tx][j].script \in Script
  BY <1>3, VoutsNat
<1>5. PICK q \in Pool, n \in Note : Outs[tx][j].script = Memo(q, n)
  <2> DEFINE script == Outs[tx][j].script
  <2>1. script \in Script /\ script.kind = "memo"
    BY <1>3, <1>4
  <2> HIDE DEF script
  <2>2. \E q \in Pool, n \in Note : script = Memo(q, n)
    BY <2>1 DEF Script, PoolScript, TweakScript, LeafScript
  <2> QED BY <2>2 DEF script
<1>6. FindDepositOpReturn(tx) = Memo(q, n)
  BY <1>5 DEF FindDepositOpReturn
<1>7. q = p /\ FindDepositOpReturn(tx).note = n
  BY <1>6 DEF NamesPool, Memo
<1> QED BY <1>2, <1>5, <1>7

\* Every accepted request credits at most one output that was given to its note.
LEMMA CreditGiven ==
  ASSUME NEW r \in Acceptable, NEW v
  PROVE  \E i \in GivenTo(Credit(r, v)) :
           Credit(r, v).amount <= Outs[Credit(r, v).deposit][i].value
<1> DEFINE c == Credit(r, v)
           out == CreditedOut(r)
<1>1. /\ c.pool = r.pool /\ c.deposit = r.deposit /\ c.note = NoteOf(r)
      /\ c.amount = Outs[out[1]][out[2]].value
      /\ r.pool \in Pool /\ r.tx \in Tx /\ r.deposit \in Tx
      /\ c.amount \in Nat
  BY AcceptableShape DEF Credit, ValueOf
<1>2. WellFormed(r) /\ out[1] = r.tx
  BY AcceptableShape DEF Acceptable
<1>3. ASSUME r.mode # "tweak"
      PROVE  /\ PaysPoolOnce(r) /\ NamesPool(r.deposit, r.pool)
             /\ out[2] \in Vouts(r.tx) /\ Outs[r.tx][out[2]].script = PoolScript(r.pool)
             /\ NoteOf(r) = FindDepositOpReturn(r.deposit).note
  <2> DEFINE S == OutputsByScript(r.tx, PoolScript(r.pool))
  <2>1. PaysPoolOnce(r) /\ NamesPool(r.deposit, r.pool)
    BY <1>2, <1>3 DEF WellFormed, DirectOk, SweepOk
  <2>2. PositiveOutputsByScript(r.tx, PoolScript(r.pool)) # {}
    BY <2>1, FS_EmptySet DEF PaysPoolOnce
  <2>3. S # {} /\ S \subseteq Nat
    BY <1>1, <2>2, VoutsNat DEF PositiveOutputsByScript, OutputsByScript
  <2>4. First(S) \in S
    <3> HIDE DEF S
    <3> QED BY <2>3, FirstIn
  <2>5. out[2] = First(S)
    BY <1>3 DEF CreditedOut
  <2> QED BY <1>3, <2>1, <2>4, <2>5 DEF OutputsByScript, NoteOf
<1>4. CASE r.mode = "direct"
  <2>1. r.deposit = r.tx
    BY <1>2, <1>4 DEF WellFormed, DirectOk
  <2>2. out[2] \in GivenTo(c)
    BY <1>1, <1>3, <1>4, <2>1, MemoFound DEF GivenTo
  <2> QED BY <1>1, <1>2, <2>1, <2>2
<1>5. CASE r.mode = "sweep"
  <2> DEFINE bound == BoundOutputs(r.pool, r.deposit, NoteOf(r))
             i == First(bound)
  <2>1. OneInput(r.tx) /\ Cardinality(bound) = 1 /\ SpendsOutpoint(r.tx, <<r.deposit, i>>)
    BY <1>2, <1>5 DEF WellFormed, SweepOk
  <2>2. bound # {} /\ bound \subseteq Nat
    <3>1. bound \subseteq Nat
      BY <1>1, VoutsNat DEF BoundOutputs, PositiveOutputsByScript
    <3> HIDE DEF bound
    <3> QED BY <2>1, <3>1, FS_EmptySet
  <2>3. i \in bound
    <3> HIDE DEF bound
    <3> QED BY <2>2, FirstIn
  <2>4. i \in Vouts(r.deposit) /\ Outs[r.deposit][i].script = TweakScript(r.pool, NoteOf(r))
    BY <2>3 DEF BoundOutputs, PositiveOutputsByScript
  <2> HIDE DEF i
  <2>5. i \in GivenTo(c)
    BY <1>1, <2>4 DEF GivenTo
  <2>6. Ins[r.tx] = << <<r.deposit, i>> >>
    <3>1. Ins[r.tx] \in Seq(Tx \X Nat)
      BY <1>1, DepositAssumption
    <3>2. Len(Ins[r.tx]) = 1
      BY <2>1 DEF OneInput
    <3>3. \E k \in DOMAIN Ins[r.tx] : Ins[r.tx][k] = <<r.deposit, i>>
      BY <2>1 DEF SpendsOutpoint
    <3>4. Ins[r.tx][1] = <<r.deposit, i>>
      BY <3>1, <3>2, <3>3
    <3> QED BY <3>1, <3>2, <3>4
  <2>7. Outs[r.tx][out[2]].value <= Outs[r.deposit][i].value
    BY <1>1, <1>3, <1>5, <2>4, <2>6, ValueConserved DEF Vouts
  <2> QED BY <1>1, <1>2, <2>5, <2>7
<1>6. CASE r.mode = "tweak"
  <2>1. /\ r.deposit = r.tx /\ out[2] = r.vout /\ NoteOf(r) = r.note
        /\ Outs[r.tx][r.vout].script = LeafScript(r.pool, r.note)
    BY <1>2, <1>6 DEF WellFormed, TweakOk, CreditedOut, NoteOf
  <2>2. r.vout \in Vouts(r.tx)
    <3>1. PICK p \in Pool, o \in UNION {{t} \X Vouts(t) : t \in Tx}, n \in Note :
            r = [mode |-> "tweak", pool |-> p, tx |-> o[1], deposit |-> o[1],
                 vout |-> o[2], note |-> n]
      BY <1>6 DEF Acceptable, Request
    <3>2. PICK t \in Tx : o \in {t} \X Vouts(t)
      BY <3>1
    <3>3. o[1] = t /\ o[2] \in Vouts(t)
      BY <3>2
    <3> QED BY <3>1, <3>3
  <2>3. r.vout \in GivenTo(c)
    BY <1>1, <2>1, <2>2 DEF GivenTo
  <2> QED BY <1>1, <1>2, <2>1, <2>3
<1> QED BY <1>2, <1>4, <1>5, <1>6 DEF WellFormed

\* For any transactions that conserve value, in any mode, no note is credited more than
\* one output of its depositor's own transaction gave to it.
THEOREM CreditsWithinDeposits == Spec => []CreditWithinDeposit
<1>1. Init => CreditWithinDeposit
  BY DEF Init, CreditWithinDeposit
<1>2. CreditWithinDeposit /\ [Next]_vars => CreditWithinDeposit'
  <2> SUFFICES ASSUME CreditWithinDeposit, [Next]_vars PROVE CreditWithinDeposit'
    OBVIOUS
  <2>1. ASSUME UNCHANGED credits PROVE CreditWithinDeposit'
    BY <2>1 DEF CreditWithinDeposit
  <2>2. ASSUME NEW r \in Acceptable, NEW v \in attested, CompleteDeposit(r, v)
        PROVE  CreditWithinDeposit'
    BY <2>2, CreditGiven DEF CreditWithinDeposit, CompleteDeposit
  <2> QED
    BY <2>1, <2>2
    DEF Next, Follow, Reinitialize, VerifyTransaction, CompleteRedemption, vars
<1> QED BY <1>1, <1>2, PTL DEF Spec
===============================================================================
