\* Two users, the same nonce, one coin a payout.
CONSTANTS
  User = {"a", "b"}
  Nonce = {1}
  Payouts <- OnePayout
  Deposits <- ThreeCoins
  PoolScript = "pool"
  NoRequest = NoRequest
  MinDeposit = 1
  MaxDeposit = 9
  InitialConfig <- Standard
  TokenConfigs <- Switched
  BpsScale = 10
  DepositBps = 1
  DepositServiceFee = 1
  WithdrawalBps = 0
  ServiceFeeBase = 2
  MaxPublicOutputs = 2
  MaxUtxosPerMark = 1
  MaxRedemption = 9
  MaxMinerFee = 3
  Dust = 1
  PayoutTolerance = 2
  SlotMod = 3
  Timeout = 2
  ClaimAmounts = {}
  PauseValues = {}
SPECIFICATION FairSpec
INVARIANTS SingleInputStaysReserved ReservationSignable
PROPERTY EveryRequestResolves
