\* One user; payouts of two coins, of one, and to the pool itself.
CONSTANTS
  User = {"a"}
  Nonce = {1, 2}
  Payouts <- JointPayout
  Deposits <- SmallCoins
  PoolScript = "pool"
  NoRequest = NoRequest
  MinDeposit = 1
  MaxDeposit = 9
  InitialConfig <- Standard
  TokenConfigs = {}
  BpsScale = 10
  DepositBps = 1
  DepositServiceFee = 1
  WithdrawalBps = 0
  ServiceFeeBase = 1
  MaxPublicOutputs = 2
  MaxUtxosPerMark = 2
  MaxRedemption = 9
  MaxMinerFee = 3
  Dust = 1
  PayoutTolerance = 2
  SlotMod = 2
  Timeout = 1
  ClaimAmounts = {4}
  PauseValues = {TRUE, FALSE}
SPECIFICATION Spec
INVARIANTS TypeOK FullyBacked CountersExact ReservationExact SignedIsBroadcastable
           ConfirmedSettles
