\* A queued leaf and the end of its tree.
CONSTANTS
  Owner = {"a"}
  Blind = {b1, b2}
  b1 = b1
  b2 = b2
  Transfers <- Taxed
  MinDeposit = 1
  MaxDeposit = 4
  DepositCap = 2
  BpsScale = 10
  DepositBps = 1
  WithdrawalBps = 1
  MaxLeaves = 2
  RootHistorySize = 2
  MaxJoinSplit = 3
  MaxPublicOutputs = 1
  MaxMergeLeaves = 2
  MaxTree = 1
  NoteValues = {1}
  PauseValues = {TRUE, FALSE}
  NoRoot = NoRoot
SPECIFICATION Spec
INVARIANT QueuedCanBePlaced
