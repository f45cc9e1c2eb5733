\* Two participants, two auditors, a deposit and a spend, each with its approval.
CONSTANTS
  Actor = {"a", "b"}
  Operator = "op"
  Auditor = {"x", "y"}
  NoKey = NoKey
  Script = {"s"}
  Applications <- FewApplications
  Registrable <- FewDestinations
  MaxSlot = 1
  MaxNotes = 2
  MaxApprovals = 2
SPECIFICATION FairSpec
INVARIANTS TypeOK ExitsVetted ApprovalsUsedOnce DepositorsHaveExits RulesAgree
PROPERTY HoldersCanLeave
