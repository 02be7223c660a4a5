\* Two requests over a super and a heavy token, two attempts each.
SPECIFICATION Spec
CONSTANTS
  NoToken = NoToken
  m1 = m1
  m2 = m2
  r1 = r1
  r2 = r2
  t1 = t1
  t2 = t2
  Requests = {r1, r2}
  Tokens = {t1, t2}
  Modes = {m1}
  PoolLevel <- TwoPools
  Priority <- FlatPriority
  DefaultQuota <- QuotaTwo
  MaxInflight = 2
  FailThreshold = 2
  RecentUsePenalty = TRUE
  Algorithm = "high_quota_first"
  ModeOf <- OneMode
  Floor <- FromSuper
  MaxTokens = 1
  PerTokenRetries = 2
  RefreshAnswers <- NoRefresh
  ResumeTimes = {0}
SYMMETRY RequestSymmetry
INVARIANTS
  TypeOK
  InflightCoversHolders
  QuotaConserved
  ThresholdDisables
PROPERTIES
  ReleasedByHolder
