\* Regtest, forks of equal work; the relayer follows the heaviest chain.
CONSTANTS
  Byte = 4
  TargetBytes = 7
  TargetTimespan = 4
  BlocksPerEpoch = 100
  MaxTargetBits = 351
  MinDiffGap = 2
  Block <- EqualBlock
  Prev <- EqualPrev
  Time <- EqualTime
  Bits <- EqualBits
  Pow <- EqualBlock
  Tx = {"t"}
  TxsOf <- EqualTxs
  Anchors <- EqualAnchors
  NoBlock = NoBlock
  NoHeader = NoHeader
  NoClient = NoClient
  ReqConf = 3
  MaxBatch = 3
  MtpWidth = 3
  MaxDrift = 0
  MainnetBuild = FALSE
  MaxHeight = 4
  MaxWork = 1000
  MaxEpoch = 0
  MaxTime = 2
SPECIFICATION FairSpec
INVARIANT IndexIsAncestry
PROPERTY AdoptsHeaviest
