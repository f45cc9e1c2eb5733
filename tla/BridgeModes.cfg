\* One pool output, named by two deposit modes.
CONSTANTS
  User = {"a"}
  Nonce = {1}
  Payouts <- WholePayout
  Deposits <- BothModes
  PoolScript = "pool"
  NoRequest = NoRequest
  MinDeposit = 1
  MaxDeposit = 9
  InitialConfig <- Standard
  TokenConfigs = {}
  BpsScale = 10
  DepositBps = 1
  DepositServiceFee = 1
  WithdrawalBps = 0
  ServiceFeeBase = 2
  MaxPublicOutputs = 2
  MaxUtxosPerMark = 1
  MaxRedemption = 9
  MaxMinerFee = 3
  Dust = 1
  PayoutTolerance = 2
  SlotMod = 3
  Timeout = 2
  ClaimAmounts = {}
  PauseValues = {}
SPECIFICATION Spec
INVARIANT CreditedOnce
