----------------------------- MODULE PolicyProofs -----------------------------
(***************************************************************************)
(* Theorems about Policy: where value may go does not depend on how often  *)
(* the auditor is frozen or replaced, on expiry, or on the two layers an   *)
(* approval lives on.                                                      *)
(***************************************************************************)
EXTENDS Policy, FiniteSetTheorems, TLAPS

\* The inductive invariant: types, where value went, and who can take it back.
PolicyInv == TypeOK /\ ExitsVetted /\ DepositorsHaveExits

\* Only one approval is written.
OnlyWritten(k) ==
  /\ DOMAIN approvals' = DOMAIN approvals
  /\ \A j \in DOMAIN approvals : j # k => approvals'[j] = approvals[j]

-----------------------------------------------------------------------------
(* Types *)

LEMMA InitTypes == Init => TypeOK
<1> SUFFICES ASSUME Init PROVE TypeOK
  OBVIOUS
<1>1. notes \in Seq(Actor) /\ DOMAIN notes = {}
  BY DEF Init
<1>2. DOMAIN approvals = {} /\ approvals \in [DOMAIN approvals -> Approval]
  BY DEF Init
<1>3. pool \in [auditor : Auditor, frozen : BOOLEAN, paused : BOOLEAN]
  BY DEF Init
<1>4. slot \in [base : 0..MaxSlot, rollup : 0..MaxSlot]
  BY PolicyAssumption DEF Init
<1> QED
  BY <1>1, <1>2, <1>3, <1>4 DEF Init, TypeOK

\* A status or a layer is replaced by another one.
LEMMA StatusTypes ==
  ASSUME TypeOK, NEW k \in DOMAIN approvals,
         NEW x \in {"pending", "approved", "rejected", "consumed"}
  PROVE  /\ [approvals EXCEPT ![k].status = x] \in [DOMAIN approvals -> Approval]
         /\ DOMAIN [approvals EXCEPT ![k].status = x] = DOMAIN approvals
<1>1. approvals \in [DOMAIN approvals -> Approval]
  BY DEF TypeOK
<1>2. approvals[k] \in Approval
  BY <1>1
<1>3. [approvals[k] EXCEPT !.status = x] \in Approval
  BY <1>2 DEF Approval
<1>4. \A S : k \in S /\ approvals \in [S -> Approval]
              => [approvals EXCEPT ![k].status = x] \in [S -> Approval]
  BY <1>3
<1> QED
  BY <1>1, <1>4

LEMMA LayerTypes ==
  ASSUME TypeOK, NEW k \in DOMAIN approvals, NEW x \in {"base", "rollup"}
  PROVE  /\ [approvals EXCEPT ![k].layer = x] \in [DOMAIN approvals -> Approval]
         /\ DOMAIN [approvals EXCEPT ![k].layer = x] = DOMAIN approvals
<1>1. approvals \in [DOMAIN approvals -> Approval]
  BY DEF TypeOK
<1>2. approvals[k] \in Approval
  BY <1>1
<1>3. [approvals[k] EXCEPT !.layer = x] \in Approval
  BY <1>2 DEF Approval
<1>4. \A S : k \in S /\ approvals \in [S -> Approval]
              => [approvals EXCEPT ![k].layer = x] \in [S -> Approval]
  BY <1>3
<1> QED
  BY <1>1, <1>4

LEMMA ConsumeTypes ==
  ASSUME TypeOK, NEW k \in DOMAIN approvals, NEW r, ConsumePolicyApproval(k, r)
  PROVE  /\ approvals' \in [DOMAIN approvals -> Approval]
         /\ DOMAIN approvals' = DOMAIN approvals
         /\ OnlyWritten(k)
         /\ approvals[k].status = "approved"
         /\ approvals'[k].status = "consumed"
         /\ k.request = r
<1>1. approvals' = [approvals EXCEPT ![k].status = "consumed"]
  BY DEF ConsumePolicyApproval, Consumed
<1>2. PolicyAccepts(k, r)
  BY DEF ConsumePolicyApproval
<1>3. approvals \in [DOMAIN approvals -> Approval]
  BY DEF TypeOK
<1>4. approvals[k] \in Approval
  BY <1>3
<1> QED
  BY <1>1, <1>2, <1>3, <1>4, StatusTypes DEF OnlyWritten, PolicyAccepts, Approval

LEMMA NoteTypes ==
  ASSUME TypeOK, NEW to \in Actor, NewNote(to)
  PROVE  /\ notes' \in Seq(Actor)
         /\ DOMAIN notes \subseteq DOMAIN notes'
         /\ \A n \in DOMAIN notes : notes'[n] = notes[n]
BY DEF TypeOK, NewNote

\* Every action keeps the types.
LEMMA NextTypes == TypeOK /\ [Next]_vars => TypeOK'
<1> SUFFICES ASSUME TypeOK, [Next]_vars PROVE TypeOK'
  OBVIOUS
<1> USE DEF TypeOK
<1>0. approvals \in [DOMAIN approvals -> Approval]
  OBVIOUS
<1>1. ASSUME NEW app \in Applications, NEW expires \in 1..MaxSlot,
             InitializePolicyApproval(Key(app), app.action, app.actor, expires)
      PROVE  TypeOK'
  <2> DEFINE k == Key(app)
             new == NewApproval(app.action, app.actor, expires)
  <2>1. new \in Approval
    BY PolicyAssumption DEF NewApproval, Approval
  <2>2. approvals' = [j \in DOMAIN approvals \cup {k} |-> IF j = k THEN new ELSE approvals[j]]
    BY <1>1 DEF InitializePolicyApproval
  <2> HIDE DEF new
  <2>3. approvals' \in [DOMAIN approvals' -> Approval]
    BY <2>1, <2>2, <1>0
  <2>4. (DOMAIN approvals') \subseteq {Key(a) : a \in Applications}
    BY <2>2
  <2> QED
    BY <2>3, <2>4, <1>1 DEF InitializePolicyApproval
<1>2. ASSUME NEW k \in DOMAIN approvals, Delegate(k) PROVE TypeOK'
  BY <1>2, LayerTypes DEF Delegate
<1>3. ASSUME NEW k \in DOMAIN approvals, NEW verdict \in {"approved", "rejected"},
             PolicyApprovalDecision(k, verdict)
      PROVE  TypeOK'
  BY <1>3, StatusTypes DEF PolicyApprovalDecision
<1>4. ASSUME NEW k \in DOMAIN approvals, PolicyApprovalCommit(k) PROVE TypeOK'
  BY <1>4, LayerTypes DEF PolicyApprovalCommit
<1>5. ASSUME NEW k \in DOMAIN approvals, NEW u \in Actor, NEW to \in Actor,
             ShieldPermissioned(k, u, to)
      PROVE  TypeOK'
  BY <1>5, ConsumeTypes, NoteTypes DEF ShieldPermissioned
<1>6. ASSUME NEW k \in DOMAIN approvals, NEW action \in Entry \ {"shield"}, NEW to \in Actor,
             DepositPermissioned(k, action, to)
      PROVE  TypeOK'
  BY <1>6, ConsumeTypes, NoteTypes DEF DepositPermissioned
<1>7. ASSUME NEW k \in DOMAIN approvals, NEW u \in Actor, NEW n \in DOMAIN notes, NEW to \in Actor,
             Transact(k, u, n, to)
      PROVE  TypeOK'
  BY <1>7, ConsumeTypes, NoteTypes DEF Transact
<1>8. ASSUME NEW n \in DOMAIN notes, NEW d \in Destination, PayOut(n, d),
             DOMAIN approvals' = DOMAIN approvals,
             approvals' \in [DOMAIN approvals -> Approval]
      PROVE  TypeOK'
  <2>1. paid' \subseteq [note : spent', dest : Destination]
    BY <1>8 DEF PayOut
  <2> QED
    BY <1>8, <2>1 DEF PayOut
<1>9. ASSUME NEW k \in DOMAIN approvals, NEW u \in Actor, NEW n \in DOMAIN notes,
             NEW d \in Destination, ExitVerified(k, u, n, d)
      PROVE  TypeOK'
  BY <1>9, <1>8, ConsumeTypes DEF ExitVerified
<1>10. ASSUME NEW n \in DOMAIN notes, NEW d \in Destination, ExitRagequit(n, d) PROVE TypeOK'
  BY <1>10, <1>8, <1>0 DEF ExitRagequit
<1>11. ASSUME NEW d \in Registrable, RegisterExitDestination(d) PROVE TypeOK'
  BY <1>11 DEF RegisterExitDestination
<1>12. ASSUME NEW value \in BOOLEAN, SetAuditorFrozen(value) PROVE TypeOK'
  BY <1>12 DEF SetAuditorFrozen
<1>13. ASSUME NEW x \in Auditor \cup {NoKey}, RotateAuditor(x) PROVE TypeOK'
  BY <1>13 DEF RotateAuditor, ValidKey
<1>14. ASSUME NEW value \in BOOLEAN, SetPaused(value) PROVE TypeOK'
  BY <1>14 DEF SetPaused
<1>15. ASSUME NEW layer \in {"base", "rollup"}, NextSlot(layer) PROVE TypeOK'
  BY <1>15, PolicyAssumption DEF NextSlot
<1>16. CASE UNCHANGED vars
  BY <1>16 DEF vars
<1> HIDE DEF TypeOK
<1> QED
  BY <1>1, <1>2, <1>3, <1>4, <1>5, <1>6, <1>7, <1>9, <1>10, <1>11, <1>12, <1>13, <1>14,
     <1>15, <1>16
     DEF Next, Approving, Moving, Administering

-----------------------------------------------------------------------------
(* Where value goes *)

\* Nothing consumed is ever taken back.
ConsumedStays ==
  \A k \in DOMAIN approvals :
    /\ k \in DOMAIN approvals'
    /\ approvals[k].status = "consumed" => approvals'[k].status = "consumed"

\* The step consumes nothing.
NoneConsumed ==
  \A k \in DOMAIN approvals' :
    approvals'[k].status = "consumed" => k \in DOMAIN approvals /\ approvals[k].status = "consumed"

\* The registry only grows and consumed approvals stay: old exits remain vetted.
LEMMA VettedStay ==
  ASSUME TypeOK, ExitsVetted, ConsumedStays, registry \subseteq registry', NEW e \in paid
  PROVE  \/ e.dest \in registry'
         \/ \E k \in ConsumedFor({ExitAction(e.dest)})', u \in Actor :
              k.request = Exit(ExitAction(e.dest), u, e.note, e.dest)
BY DEF ExitsVetted, ConsumedStays, ConsumedFor

LEMMA VettedUnpaid ==
  ASSUME TypeOK, ExitsVetted, ConsumedStays, registry \subseteq registry', paid' = paid
  PROVE  ExitsVetted'
BY VettedStay DEF ExitsVetted

LEMMA ExitsStay ==
  ASSUME DepositorsHaveExits, registry \subseteq registry', NoneConsumed
  PROVE  DepositorsHaveExits'
BY DEF DepositorsHaveExits, ConsumedFor, NoneConsumed

\* What consuming one approval does to both.
LEMMA ConsumeStays ==
  ASSUME TypeOK, NEW k \in DOMAIN approvals, NEW r, ConsumePolicyApproval(k, r)
  PROVE  /\ ConsumedStays
         /\ ConsumedFor({"shield"})' \subseteq ConsumedFor({"shield"}) \cup {k}
BY ConsumeTypes DEF OnlyWritten, ConsumedStays, ConsumedFor

\* An approval of anything but a deposit of tokens adds no depositor.
LEMMA ConsumeOther ==
  ASSUME TypeOK, DepositorsHaveExits, registry' = registry,
         NEW k \in DOMAIN approvals, NEW r, ConsumePolicyApproval(k, r), r.action # "shield"
  PROVE  DepositorsHaveExits'
<1>1. k.request.action # "shield"
  BY ConsumeTypes
<1>2. k \notin ConsumedFor({"shield"})'
  BY <1>1 DEF ConsumedFor
<1> QED
  BY <1>2, ConsumeStays DEF DepositorsHaveExits

LEMMA NextInv == PolicyInv /\ [Next]_vars => PolicyInv'
<1> SUFFICES ASSUME PolicyInv, [Next]_vars PROVE ExitsVetted' /\ DepositorsHaveExits'
  BY NextTypes DEF PolicyInv
<1> USE DEF PolicyInv
<1>0. approvals \in [DOMAIN approvals -> Approval]
  BY DEF TypeOK
<1>s. ASSUME ConsumedStays, NoneConsumed, registry \subseteq registry', paid' = paid
      PROVE  ExitsVetted' /\ DepositorsHaveExits'
  BY <1>s, VettedUnpaid, ExitsStay
<1>u. ASSUME UNCHANGED approvals PROVE ConsumedStays /\ NoneConsumed
  BY <1>u DEF ConsumedStays, NoneConsumed
<1>1. ASSUME NEW app \in Applications, NEW expires \in 1..MaxSlot,
             InitializePolicyApproval(Key(app), app.action, app.actor, expires)
      PROVE  ExitsVetted' /\ DepositorsHaveExits'
  <2> DEFINE k == Key(app)
  <2>1. /\ k \notin DOMAIN approvals
        /\ DOMAIN approvals' = DOMAIN approvals \cup {k}
        /\ approvals'[k].status = "pending"
        /\ \A j \in DOMAIN approvals : approvals'[j] = approvals[j]
    BY <1>1 DEF InitializePolicyApproval, MayInitialize, NewApproval
  <2> HIDE DEF k
  <2>2. ConsumedStays /\ NoneConsumed
    BY <2>1 DEF ConsumedStays, NoneConsumed
  <2> QED
    BY <1>1, <1>s, <2>2 DEF InitializePolicyApproval
<1>2. ASSUME NEW k \in DOMAIN approvals, Delegate(k)
      PROVE  ExitsVetted' /\ DepositorsHaveExits'
  <2>1. ConsumedStays /\ NoneConsumed
    BY <1>2, <1>0 DEF Delegate, ConsumedStays, NoneConsumed, Approval
  <2> QED
    BY <1>2, <1>s, <2>1 DEF Delegate
<1>3. ASSUME NEW k \in DOMAIN approvals, NEW verdict \in {"approved", "rejected"},
             PolicyApprovalDecision(k, verdict)
      PROVE  ExitsVetted' /\ DepositorsHaveExits'
  <2>1. ConsumedStays /\ NoneConsumed
    BY <1>3, <1>0 DEF PolicyApprovalDecision, Undecided, ConsumedStays, NoneConsumed, Approval
  <2> QED
    BY <1>3, <1>s, <2>1 DEF PolicyApprovalDecision
<1>4. ASSUME NEW k \in DOMAIN approvals, PolicyApprovalCommit(k)
      PROVE  ExitsVetted' /\ DepositorsHaveExits'
  <2>1. ConsumedStays /\ NoneConsumed
    BY <1>4, <1>0 DEF PolicyApprovalCommit, ConsumedStays, NoneConsumed, Approval
  <2> QED
    BY <1>4, <1>s, <2>1 DEF PolicyApprovalCommit
<1>5. ASSUME NEW k \in DOMAIN approvals, NEW u \in Actor, NEW to \in Actor,
             ShieldPermissioned(k, u, to)
      PROVE  ExitsVetted' /\ DepositorsHaveExits'
  <2>1. k.request = Enter("shield", u, to)
    BY <1>5, ConsumeTypes DEF ShieldPermissioned
  <2>2. k.request.actor = u /\ Wallet(u) \in registry
    BY <1>5, <2>1 DEF ShieldPermissioned, HasOwnExit, Enter
  <2>3. ConsumedStays /\ ConsumedFor({"shield"})' \subseteq ConsumedFor({"shield"}) \cup {k}
    BY <1>5, ConsumeStays DEF ShieldPermissioned
  <2>4. DepositorsHaveExits'
    BY <1>5, <2>2, <2>3 DEF DepositorsHaveExits, ShieldPermissioned, Wallet
  <2> QED
    BY <1>5, <2>3, <2>4, VettedUnpaid DEF ShieldPermissioned
<1>6. ASSUME NEW k \in DOMAIN approvals, NEW action \in Entry \ {"shield"}, NEW to \in Actor,
             DepositPermissioned(k, action, to)
      PROVE  ExitsVetted' /\ DepositorsHaveExits'
  <2>1. Enter(action, Operator, to).action # "shield"
    BY DEF Enter
  <2> QED
    BY <1>6, <2>1, ConsumeOther, ConsumeStays, VettedUnpaid DEF DepositPermissioned
<1>7. ASSUME NEW k \in DOMAIN approvals, NEW u \in Actor, NEW n \in DOMAIN notes, NEW to \in Actor,
             Transact(k, u, n, to)
      PROVE  ExitsVetted' /\ DepositorsHaveExits'
  <2>1. Transfer(u, n).action # "shield"
    BY DEF Transfer
  <2> QED
    BY <1>7, <2>1, ConsumeOther, ConsumeStays, VettedUnpaid DEF Transact
<1>9. ASSUME NEW k \in DOMAIN approvals, NEW u \in Actor, NEW n \in DOMAIN notes,
             NEW d \in Destination, ExitVerified(k, u, n, d)
      PROVE  ExitsVetted' /\ DepositorsHaveExits'
  <2> DEFINE r == Exit(ExitAction(d), u, n, d)
  <2>1. ConsumePolicyApproval(k, r)
    BY <1>9 DEF ExitVerified, ApprovedExit
  <2>2. r.action = ExitAction(d) /\ r.action # "shield"
    BY DEF Exit, ExitAction
  <2>3. registry' = registry /\ paid' = paid \cup {[note |-> n, dest |-> d]}
    BY <1>9 DEF ExitVerified, PayOut
  <2> HIDE DEF r
  <2>4. DepositorsHaveExits'
    BY <2>1, <2>2, <2>3, ConsumeOther
  <2>5. k.request = r /\ k \in ConsumedFor({ExitAction(d)})'
    BY <2>1, <2>2, ConsumeTypes DEF ConsumedFor
  <2>6. ConsumedStays
    BY <2>1, ConsumeStays
  <2>7. ASSUME NEW e \in paid'
        PROVE  \/ e.dest \in registry'
               \/ \E j \in ConsumedFor({ExitAction(e.dest)})', v \in Actor :
                    j.request = Exit(ExitAction(e.dest), v, e.note, e.dest)
    <3>1. CASE e \in paid
      BY <3>1, <2>3, <2>6, VettedStay
    <3>2. CASE e = [note |-> n, dest |-> d]
      BY <3>2, <2>5 DEF r
    <3> QED
      BY <3>1, <3>2, <2>3
  <2> QED
    BY <2>4, <2>7 DEF ExitsVetted
<1>10. ASSUME NEW n \in DOMAIN notes, NEW d \in Destination, ExitRagequit(n, d)
       PROVE  ExitsVetted' /\ DepositorsHaveExits'
  <2>1. /\ UNCHANGED <<approvals, registry>>
        /\ d \in registry'
        /\ paid' = paid \cup {[note |-> n, dest |-> d]}
    BY <1>10 DEF ExitRagequit, PayOut, MayRagequit
  <2>2. ConsumedStays /\ NoneConsumed
    BY <2>1, <1>u
  <2>3. ASSUME NEW e \in paid'
        PROVE  \/ e.dest \in registry'
               \/ \E j \in ConsumedFor({ExitAction(e.dest)})', v \in Actor :
                    j.request = Exit(ExitAction(e.dest), v, e.note, e.dest)
    <3>1. CASE e \in paid
      BY <3>1, <2>1, <2>2, VettedStay
    <3>2. CASE e = [note |-> n, dest |-> d]
      BY <3>2, <2>1
    <3> QED
      BY <3>1, <3>2, <2>1
  <2>4. DepositorsHaveExits'
    BY <2>1, <2>2, ExitsStay
  <2> QED
    BY <2>3, <2>4 DEF ExitsVetted
<1>11. ASSUME NEW d \in Registrable, RegisterExitDestination(d)
       PROVE  ExitsVetted' /\ DepositorsHaveExits'
  BY <1>11, <1>s, <1>u DEF RegisterExitDestination
<1>12. ASSUME NEW value \in BOOLEAN, SetAuditorFrozen(value)
       PROVE  ExitsVetted' /\ DepositorsHaveExits'
  BY <1>12, <1>s, <1>u DEF SetAuditorFrozen
<1>13. ASSUME NEW x \in Auditor \cup {NoKey}, RotateAuditor(x)
       PROVE  ExitsVetted' /\ DepositorsHaveExits'
  BY <1>13, <1>s, <1>u DEF RotateAuditor
<1>14. ASSUME NEW value \in BOOLEAN, SetPaused(value)
       PROVE  ExitsVetted' /\ DepositorsHaveExits'
  BY <1>14, <1>s, <1>u DEF SetPaused
<1>15. ASSUME NEW layer \in {"base", "rollup"}, NextSlot(layer)
       PROVE  ExitsVetted' /\ DepositorsHaveExits'
  BY <1>15, <1>s, <1>u DEF NextSlot
<1>16. CASE UNCHANGED vars
  BY <1>16, <1>s, <1>u DEF vars
<1> QED
  BY <1>1, <1>2, <1>3, <1>4, <1>5, <1>6, <1>7, <1>9, <1>10, <1>11, <1>12, <1>13, <1>14,
     <1>15, <1>16
     DEF Next, Approving, Moving, Administering

LEMMA InitInv == Init => PolicyInv
<1> SUFFICES ASSUME Init PROVE ExitsVetted /\ DepositorsHaveExits
  BY InitTypes DEF PolicyInv
<1>1. paid = {} /\ DOMAIN approvals = {}
  BY DEF Init
<1> QED
  BY <1>1 DEF ExitsVetted, DepositorsHaveExits, ConsumedFor

-----------------------------------------------------------------------------
(* The theorems *)

\* Every reachable state is well typed; in particular the auditor is never the zero
\* key (rotate_auditor) and what was paid out has been spent (unshield, redeem).
THEOREM PolicyTypes == Spec => []TypeOK
<1>1. PolicyInv => TypeOK
  BY DEF PolicyInv
<1> QED
  BY <1>1, InitInv, NextInv, PTL DEF Spec

\* For any actors, destinations, applications and clocks: value leaves only to a
\* registered destination or to the one its consumed approval names (unshield, redeem).
THEOREM EveryExitVetted == Spec => []ExitsVetted
<1>1. PolicyInv => ExitsVetted
  BY DEF PolicyInv
<1> QED
  BY <1>1, InitInv, NextInv, PTL DEF Spec

\* For any actors, destinations, applications and clocks: whoever shielded tokens has
\* an exit to their own wallet for good (shield_permissioned).
THEOREM NobodyTrapped == Spec => []DepositorsHaveExits
<1>1. PolicyInv => DepositorsHaveExits
  BY DEF PolicyInv
<1> QED
  BY <1>1, InitInv, NextInv, PTL DEF Spec

-----------------------------------------------------------------------------
(* Approvals are used up *)

\* How many notes there are, spent and paid out, counted against consumed approvals:
\* what a step has to keep, with the finiteness that counting needs.
UseInv ==
  /\ PolicyInv
  /\ IsFiniteSet(DOMAIN approvals)
  /\ IsFiniteSet(paid)
  /\ ApprovalsUsedOnce

LEMMA ConsumedFinite ==
  ASSUME UseInv, NEW actions
  PROVE  /\ IsFiniteSet(ConsumedFor(actions))
         /\ Cardinality(ConsumedFor(actions)) \in Nat
BY FS_Subset, FS_CardinalityType DEF UseInv, ConsumedFor

LEMMA SpentFinite ==
  ASSUME UseInv
  PROVE  /\ IsFiniteSet(spent)
         /\ Cardinality(spent) \in Nat
         /\ Cardinality(paid) \in Nat
<1>1. DOMAIN notes = 1..Len(notes) /\ Len(notes) \in Nat
  BY DEF UseInv, PolicyInv, TypeOK
<1>2. IsFiniteSet(DOMAIN notes)
  BY <1>1, FS_Interval
<1>3. IsFiniteSet(spent)
  BY <1>2, FS_Subset DEF UseInv, PolicyInv, TypeOK
<1> QED
  BY <1>3, FS_CardinalityType DEF UseInv

\* Consuming an approval adds it to the consumed ones of its action, where it was not
\* before, and to no others.
LEMMA ConsumedGrow ==
  ASSUME TypeOK, NEW k \in DOMAIN approvals, NEW r, ConsumePolicyApproval(k, r), NEW actions
  PROVE  /\ k \notin ConsumedFor(actions)
         /\ r.action \in actions => ConsumedFor(actions)' = ConsumedFor(actions) \cup {k}
         /\ r.action \notin actions => ConsumedFor(actions)' = ConsumedFor(actions)
<1>1. /\ DOMAIN approvals' = DOMAIN approvals
      /\ \A j \in DOMAIN approvals : j # k => approvals'[j] = approvals[j]
      /\ approvals[k].status = "approved"
      /\ approvals'[k].status = "consumed"
      /\ k.request.action = r.action
  BY ConsumeTypes DEF OnlyWritten
<1> QED
  BY <1>1 DEF ConsumedFor

\* The same in numbers.
LEMMA ConsumedCount ==
  ASSUME UseInv, NEW k \in DOMAIN approvals, NEW r, ConsumePolicyApproval(k, r), NEW actions
  PROVE  /\ IsFiniteSet(DOMAIN approvals')
         /\ r.action \in actions =>
              Cardinality(ConsumedFor(actions)') = Cardinality(ConsumedFor(actions)) + 1
         /\ r.action \notin actions =>
              Cardinality(ConsumedFor(actions)') = Cardinality(ConsumedFor(actions))
<1>1. TypeOK /\ IsFiniteSet(ConsumedFor(actions)) /\ IsFiniteSet(DOMAIN approvals)
  BY ConsumedFinite DEF UseInv, PolicyInv
<1>2. DOMAIN approvals' = DOMAIN approvals
  BY <1>1, ConsumeTypes
<1>3. /\ k \notin ConsumedFor(actions)
      /\ r.action \in actions => ConsumedFor(actions)' = ConsumedFor(actions) \cup {k}
      /\ r.action \notin actions => ConsumedFor(actions)' = ConsumedFor(actions)
  BY <1>1, ConsumedGrow
<1>4. Cardinality(ConsumedFor(actions) \cup {k}) = Cardinality(ConsumedFor(actions)) + 1
  BY <1>1, <1>3, FS_AddElement
<1> QED
  BY <1>1, <1>2, <1>3, <1>4

\* A step that decides or moves approvals, or none at all, changes no count.
LEMMA UseStays ==
  ASSUME UseInv, PolicyInv', ConsumedStays, NoneConsumed, IsFiniteSet(DOMAIN approvals'),
         UNCHANGED <<notes, spent, paid>>
  PROVE  UseInv'
<1>1. ASSUME NEW actions PROVE ConsumedFor(actions)' = ConsumedFor(actions)
  BY DEF ConsumedStays, NoneConsumed, ConsumedFor
<1>2. ApprovalsUsedOnce'
  <2>1. /\ ConsumedFor(Entry \cup {"transact"})' = ConsumedFor(Entry \cup {"transact"})
        /\ ConsumedFor({"transact"})' = ConsumedFor({"transact"})
    BY <1>1
  <2> QED
    BY <2>1 DEF UseInv, ApprovalsUsedOnce
<1> QED
  BY <1>2 DEF UseInv

\* A note is made with an approval that does not also spend one.
LEMMA UseEntry ==
  ASSUME UseInv, PolicyInv', NEW k \in DOMAIN approvals, NEW r, ConsumePolicyApproval(k, r),
         r.action \in Entry, Len(notes') = Len(notes) + 1, UNCHANGED <<spent, paid>>
  PROVE  UseInv'
<1>1. /\ r.action \in Entry \cup {"transact"}
      /\ r.action \notin {"transact"}
  BY DEF Entry
<1>2. /\ IsFiniteSet(DOMAIN approvals')
      /\ Cardinality(ConsumedFor(Entry \cup {"transact"})')
           = Cardinality(ConsumedFor(Entry \cup {"transact"})) + 1
      /\ Cardinality(ConsumedFor({"transact"})') = Cardinality(ConsumedFor({"transact"}))
  BY <1>1, ConsumedCount
<1>3. ApprovalsUsedOnce'
  BY <1>2 DEF UseInv, ApprovalsUsedOnce
<1> QED
  BY <1>2, <1>3 DEF UseInv

\* A note that is paid out was not paid out before.
LEMMA PaidCount ==
  ASSUME UseInv, NEW n \in DOMAIN notes, NEW d \in Destination, PayOut(n, d)
  PROVE  /\ Cardinality(spent') = Cardinality(spent) + 1
         /\ Cardinality(paid') = Cardinality(paid) + 1
         /\ IsFiniteSet(paid')
<1> DEFINE e == [note |-> n, dest |-> d]
<1>1. /\ spent' = spent \cup {n} /\ n \notin spent
      /\ paid' = paid \cup {e}
  BY DEF PayOut, Unspent
<1>2. e \notin paid
  <2>1. \A x \in paid : x.note \in spent
    BY DEF UseInv, PolicyInv, TypeOK
  <2> QED
    BY <1>1, <2>1
<1> HIDE DEF e
<1>3. IsFiniteSet(spent) /\ IsFiniteSet(paid)
  BY SpentFinite DEF UseInv
<1> QED
  BY <1>1, <1>2, <1>3, FS_AddElement

LEMMA NextUse == UseInv /\ [Next]_vars => UseInv'
<1> SUFFICES ASSUME UseInv, [Next]_vars PROVE UseInv'
  OBVIOUS
<1>i. PolicyInv /\ PolicyInv'
  BY NextInv DEF UseInv
<1>t. TypeOK /\ IsFiniteSet(DOMAIN approvals)
  BY <1>i DEF UseInv, PolicyInv
<1>0. approvals \in [DOMAIN approvals -> Approval]
  BY <1>t DEF TypeOK
<1>u. ASSUME UNCHANGED <<approvals, notes, spent, paid>> PROVE UseInv'
  <2>1. ConsumedStays /\ NoneConsumed
    BY <1>u DEF ConsumedStays, NoneConsumed
  <2> QED
    BY <1>u, <1>i, <1>t, <2>1, UseStays
<1>n. \A to \in Actor : NewNote(to) => Len(notes') = Len(notes) + 1
  BY <1>t DEF NewNote, TypeOK
<1>1. ASSUME NEW app \in Applications, NEW expires \in 1..MaxSlot,
             InitializePolicyApproval(Key(app), app.action, app.actor, expires)
      PROVE  UseInv'
  <2> DEFINE k == Key(app)
  <2>1. /\ k \notin DOMAIN approvals
        /\ DOMAIN approvals' = DOMAIN approvals \cup {k}
        /\ approvals'[k].status = "pending"
        /\ \A j \in DOMAIN approvals : approvals'[j] = approvals[j]
    BY <1>1 DEF InitializePolicyApproval, MayInitialize, NewApproval
  <2> HIDE DEF k
  <2>2. ConsumedStays /\ NoneConsumed
    BY <2>1 DEF ConsumedStays, NoneConsumed
  <2>3. IsFiniteSet(DOMAIN approvals')
    BY <2>1, <1>t, FS_AddElement
  <2> QED
    BY <1>1, <1>i, <2>2, <2>3, UseStays DEF InitializePolicyApproval
<1>2. ASSUME NEW k \in DOMAIN approvals, Delegate(k) PROVE UseInv'
  <2>1. ConsumedStays /\ NoneConsumed /\ DOMAIN approvals' = DOMAIN approvals
    BY <1>2, <1>0 DEF Delegate, ConsumedStays, NoneConsumed, Approval
  <2> QED
    BY <1>2, <1>i, <1>t, <2>1, UseStays DEF Delegate
<1>3. ASSUME NEW k \in DOMAIN approvals, NEW verdict \in {"approved", "rejected"},
             PolicyApprovalDecision(k, verdict)
      PROVE  UseInv'
  <2>1. ConsumedStays /\ NoneConsumed /\ DOMAIN approvals' = DOMAIN approvals
    BY <1>3, <1>0 DEF PolicyApprovalDecision, Undecided, ConsumedStays, NoneConsumed, Approval
  <2> QED
    BY <1>3, <1>i, <1>t, <2>1, UseStays DEF PolicyApprovalDecision
<1>4. ASSUME NEW k \in DOMAIN approvals, PolicyApprovalCommit(k) PROVE UseInv'
  <2>1. ConsumedStays /\ NoneConsumed /\ DOMAIN approvals' = DOMAIN approvals
    BY <1>4, <1>0 DEF PolicyApprovalCommit, ConsumedStays, NoneConsumed, Approval
  <2> QED
    BY <1>4, <1>i, <1>t, <2>1, UseStays DEF PolicyApprovalCommit
<1>5. ASSUME NEW k \in DOMAIN approvals, NEW u \in Actor, NEW to \in Actor,
             ShieldPermissioned(k, u, to)
      PROVE  UseInv'
  <2>1. Enter("shield", u, to).action \in Entry
    BY DEF Enter, Entry
  <2> QED
    BY <1>5, <1>i, <1>n, <2>1, UseEntry DEF ShieldPermissioned
<1>6. ASSUME NEW k \in DOMAIN approvals, NEW action \in Entry \ {"shield"}, NEW to \in Actor,
             DepositPermissioned(k, action, to)
      PROVE  UseInv'
  <2>1. Enter(action, Operator, to).action \in Entry
    BY DEF Enter
  <2> QED
    BY <1>6, <1>i, <1>n, <2>1, UseEntry DEF DepositPermissioned
<1>7. ASSUME NEW k \in DOMAIN approvals, NEW u \in Actor, NEW n \in DOMAIN notes, NEW to \in Actor,
             Transact(k, u, n, to)
      PROVE  UseInv'
  <2> DEFINE r == Transfer(u, n)
             all == Entry \cup {"transact"}
  <2>1. ConsumePolicyApproval(k, r) /\ r.action \in all /\ r.action \in {"transact"}
    BY <1>7 DEF Transact, Transfer
  <2>2. /\ spent' = spent \cup {n} /\ n \notin spent
        /\ paid' = paid /\ Len(notes') = Len(notes) + 1
    BY <1>7, <1>n DEF Transact, Unspent
  <2> HIDE DEF r, all
  <2>3. /\ IsFiniteSet(DOMAIN approvals')
        /\ Cardinality(ConsumedFor(all)') = Cardinality(ConsumedFor(all)) + 1
        /\ Cardinality(ConsumedFor({"transact"})') = Cardinality(ConsumedFor({"transact"})) + 1
    BY <2>1, ConsumedCount
  <2>4. Cardinality(spent') = Cardinality(spent) + 1
    BY <2>2, SpentFinite, FS_AddElement
  <2>5. /\ Cardinality(ConsumedFor({"transact"})) \in Nat
        /\ Cardinality(paid) \in Nat
        /\ Cardinality(paid') = Cardinality(paid)
    BY <2>2, ConsumedFinite, SpentFinite
  <2>6. ApprovalsUsedOnce'
    BY <2>2, <2>3, <2>4, <2>5 DEF UseInv, ApprovalsUsedOnce, all
  <2> QED
    BY <1>i, <2>2, <2>3, <2>6 DEF UseInv
<1>9. ASSUME NEW k \in DOMAIN approvals, NEW u \in Actor, NEW n \in DOMAIN notes,
             NEW d \in Destination, ExitVerified(k, u, n, d)
      PROVE  UseInv'
  <2> DEFINE r == Exit(ExitAction(d), u, n, d)
             all == Entry \cup {"transact"}
  <2>1. ConsumePolicyApproval(k, r) /\ r.action \notin all /\ r.action \notin {"transact"}
    BY <1>9 DEF ExitVerified, ApprovedExit, Exit, ExitAction, Entry
  <2> HIDE DEF r, all
  <2>2. /\ IsFiniteSet(DOMAIN approvals')
        /\ Cardinality(ConsumedFor(all)') = Cardinality(ConsumedFor(all))
        /\ Cardinality(ConsumedFor({"transact"})') = Cardinality(ConsumedFor({"transact"}))
    BY <2>1, ConsumedCount
  <2>3. PayOut(n, d) /\ notes' = notes
    BY <1>9 DEF ExitVerified, PayOut
  <2>4. /\ Cardinality(spent') = Cardinality(spent) + 1
        /\ Cardinality(paid') = Cardinality(paid) + 1
        /\ IsFiniteSet(paid')
    BY <2>3, PaidCount
  <2>5. Cardinality(ConsumedFor({"transact"})) \in Nat /\ Cardinality(paid) \in Nat
    BY ConsumedFinite, SpentFinite
  <2>6. ApprovalsUsedOnce'
    BY <2>2, <2>3, <2>4, <2>5 DEF UseInv, ApprovalsUsedOnce, all
  <2> QED
    BY <1>i, <2>2, <2>4, <2>6 DEF UseInv
<1>10. ASSUME NEW n \in DOMAIN notes, NEW d \in Destination, ExitRagequit(n, d) PROVE UseInv'
  <2>1. PayOut(n, d) /\ UNCHANGED <<approvals, notes>>
    BY <1>10 DEF ExitRagequit, PayOut
  <2>2. /\ Cardinality(spent') = Cardinality(spent) + 1
        /\ Cardinality(paid') = Cardinality(paid) + 1
        /\ IsFiniteSet(paid')
    BY <2>1, PaidCount
  <2>3. Cardinality(ConsumedFor({"transact"})) \in Nat /\ Cardinality(paid) \in Nat
    BY ConsumedFinite, SpentFinite
  <2>4. ASSUME NEW actions PROVE ConsumedFor(actions)' = ConsumedFor(actions)
    BY <2>1 DEF ConsumedFor
  <2>5. /\ ConsumedFor(Entry \cup {"transact"})' = ConsumedFor(Entry \cup {"transact"})
        /\ ConsumedFor({"transact"})' = ConsumedFor({"transact"})
    BY <2>4
  <2>6. ApprovalsUsedOnce'
    BY <2>1, <2>2, <2>3, <2>5 DEF UseInv, ApprovalsUsedOnce
  <2> QED
    BY <1>i, <1>t, <2>1, <2>2, <2>6 DEF UseInv
<1>11. ASSUME NEW d \in Registrable, RegisterExitDestination(d) PROVE UseInv'
  BY <1>11, <1>u DEF RegisterExitDestination
<1>12. ASSUME NEW value \in BOOLEAN, SetAuditorFrozen(value) PROVE UseInv'
  BY <1>12, <1>u DEF SetAuditorFrozen
<1>13. ASSUME NEW x \in Auditor \cup {NoKey}, RotateAuditor(x) PROVE UseInv'
  BY <1>13, <1>u DEF RotateAuditor
<1>14. ASSUME NEW value \in BOOLEAN, SetPaused(value) PROVE UseInv'
  BY <1>14, <1>u DEF SetPaused
<1>15. ASSUME NEW layer \in {"base", "rollup"}, NextSlot(layer) PROVE UseInv'
  BY <1>15, <1>u DEF NextSlot
<1>16. CASE UNCHANGED vars
  BY <1>16, <1>u DEF vars
<1> QED
  BY <1>1, <1>2, <1>3, <1>4, <1>5, <1>6, <1>7, <1>9, <1>10, <1>11, <1>12, <1>13, <1>14,
     <1>15, <1>16
     DEF Next, Approving, Moving, Administering

LEMMA InitUse == Init => UseInv
<1> SUFFICES ASSUME Init PROVE UseInv
  OBVIOUS
<1>1. paid = {} /\ spent = {} /\ Len(notes) = 0 /\ DOMAIN approvals = {}
  BY DEF Init
<1>2. ConsumedFor(Entry \cup {"transact"}) = {} /\ ConsumedFor({"transact"}) = {}
  BY <1>1 DEF ConsumedFor
<1>3. IsFiniteSet({}) /\ Cardinality({}) = 0
  BY FS_EmptySet
<1>4. ApprovalsUsedOnce
  <2>1. /\ Cardinality(paid) = 0 /\ Cardinality(spent) = 0
        /\ Cardinality(ConsumedFor(Entry \cup {"transact"})) = 0
        /\ Cardinality(ConsumedFor({"transact"})) = 0
    BY <1>1, <1>2, <1>3, Zenon
  <2> QED
    BY <1>1, <2>1 DEF ApprovalsUsedOnce
<1> QED
  BY <1>1, <1>3, <1>4, InitInv DEF UseInv

\* For any actors, applications and clocks: as many notes exist as entry and transfer
\* approvals were consumed, and every spent note was paid out once or passed on with an
\* approval of its own (consume_policy_approval, the nullifier records).
THEOREM EveryApprovalUsedOnce == Spec => []ApprovalsUsedOnce
<1>1. UseInv => ApprovalsUsedOnce
  BY DEF UseInv
<1> QED
  BY <1>1, InitUse, NextUse, PTL DEF Spec

\* In every state the two programs' copies of the rule agree: an approval that
\* consume_policy_approval accepts is not refused in the CPI it makes.
THEOREM ProgramsAgree == Spec => []RulesAgree
<1>1. RulesAgree
  BY DEF RulesAgree, AssetAccepts, PolicyAccepts, SpendIsAllowed
<1> QED
  BY <1>1, PTL
===============================================================================
