\* Mainnet and testnet4 consensus rules across a retarget; forks of different work and
\* length, one reinitialization, and the arithmetic itself.
CONSTANTS
  Byte = 4
  TargetBytes = 7
  TargetTimespan = 4
  BlocksPerEpoch = 2
  MaxTargetBits = 351
  MinDiffGap = 2
  Block <- ProductionBlock
  Prev <- ProductionPrev
  Time <- ProductionTime
  Bits <- ProductionBits
  Pow <- ProductionPow
  Tx = {"t"}
  TxsOf <- ProductionTxs
  Anchors <- ProductionAnchors
  NoBlock = NoBlock
  NoHeader = NoHeader
  NoClient = NoClient
  ReqConf = 3
  MaxBatch = 3
  MtpWidth = 3
  MaxDrift = 11
  MainnetBuild = FALSE
  MaxHeight = 6
  MaxWork = 1000
  MaxEpoch = 1
  MaxTime = 0
SPECIFICATION Spec
INVARIANTS
  TypeOK CompactExact RetargetBounded
  AttestationAnchored CanonicalDifficulty MedianMonotone
PROPERTIES FinalizedFrozen ImplementsFinality
