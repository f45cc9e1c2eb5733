\* Administration of two pools by two accounts, with development closes.
CONSTANTS
  p1 = p1
  p2 = p2
  Pool = {p1, p2}
  Dwallet = {d1, d2}
  Key = {k1, k2}
  Variant = {x1, x2}
  Vk = {v1, v2}
  Account = {a1, a2}
  NoOne = NoOne
  None = None
  Terms <- TermsValue
  DefaultTerms <- DefaultTermsValue
  Limits <- LimitsValue
  Bps = {0, 1}
  MaxFeeBps = 2
  MaxSats = 3
  Amount = {1, 2, 3}
  Delay = 2
  DevBuild = TRUE
  MaxTime = 5
  MaxSent = 2
  MaxShielded = 3
SPECIFICATION MCSpec
INVARIANTS TypeOK SentHonoured OnePoolPerDwallet LedgerKept
PROPERTY KeysFrozen
\* A final program whose pools exist has no administration left in the area of keys.
CHECK_DEADLOCK FALSE
