SPECIFICATION FairSpec
CONSTANTS
  A = A
  B = B
  C = C
  n1 = n1
  n2 = n2
  x1 = x1
  x2 = x2
  x3 = x3
  y2 = y2
  y3 = y3
  v = v
  w = w
  d = d
  s = s
  p = p
  z = z
  q = q
  NoBlock = NoBlock
  Block = {x1, x2, x3, y2, y3}
  Height = {1, 2, 3}
  Network = {"testnet4", "regtest"}
  Tx = {v, w, d, s, p, z, q}
  Pool = {A, B, C}
  Note = {n1, n2}
  Payouts = {p}
  Creditable = {2, 3, 4, 5, 6, 7, 8, 9}
  ExpectedNetwork = "testnet4"
  DepositConf = 2
  RedemptionConf = 2
  MaxEpoch = 1
  KeyOf <- MCKeyOf
  Outs <- MCOuts
  Ins <- MCIns
  TxsOf <- MCTxsOf
  Views <- MCViews
INVARIANTS
  TypeOK
  CreditsFinal
  CreditedOnce
  CreditWithinDeposit
PROPERTIES
  DepositsComplete
CHECK_DEADLOCK FALSE
