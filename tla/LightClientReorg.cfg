\* Testnet4: a branch that is heavier but shorter replaces a longer one.
CONSTANTS
  Byte = 4
  TargetBytes = 7
  TargetTimespan = 4
  BlocksPerEpoch = 2
  MaxTargetBits = 351
  MinDiffGap = 2
  Block <- TestnetBlock
  Prev <- TestnetPrev
  Time <- TestnetTime
  Bits <- TestnetBits
  Pow <- TestnetBlock
  Tx = {"t"}
  TxsOf <- TestnetTxs
  Anchors <- TestnetAnchors
  NoBlock = NoBlock
  NoHeader = NoHeader
  NoClient = NoClient
  ReqConf = 4
  MaxBatch = 3
  MtpWidth = 3
  MaxDrift = 6
  MainnetBuild = FALSE
  MaxHeight = 6
  MaxWork = 1000
  MaxEpoch = 0
  MaxTime = 2
SPECIFICATION Spec
INVARIANT IndexIsAncestry
