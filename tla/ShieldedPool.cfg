\* Trees of three leaves, one rotation, a history of two roots; two blinding factors, so that
\* a sender may repeat a commitment or not.
CONSTANTS
  Owner = {"a"}
  Blind = {b1, b2}
  b1 = b1
  b2 = b2
  Transfers <- Taxed
  MinDeposit = 1
  MaxDeposit = 4
  DepositCap = 2
  BpsScale = 10
  DepositBps = 1
  WithdrawalBps = 1
  MaxLeaves = 3
  RootHistorySize = 2
  MaxJoinSplit = 4
  MaxPublicOutputs = 1
  MaxMergeLeaves = 2
  MaxTree = 1
  NoteValues = {1}
  PauseValues = {TRUE, FALSE}
  NoRoot = NoRoot
SYMMETRY Symmetry
SPECIFICATION Spec
INVARIANTS TypeOK NotesBacked NotesSpendable NullifiersAccounted
PROPERTY RootsKept
