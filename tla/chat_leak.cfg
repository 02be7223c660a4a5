\* Violated: the exit of the retry loop keeps a token counted.
SPECIFICATION Spec
CONSTANTS
  NoToken = NoToken
  m1 = m1
  m2 = m2
  r1 = r1
  t1 = t1
  t2 = t2
  Requests = {r1}
  Tokens = {t1, t2}
  Modes = {m1}
  PoolLevel <- OnePool
  Priority <- TwoTiers
  DefaultQuota <- QuotaThree
  MaxInflight = 2
  FailThreshold = 2
  RecentUsePenalty = TRUE
  Algorithm = "high_quota_first"
  ModeOf <- OneMode
  Floor <- FromHeavy
  MaxTokens = 1
  PerTokenRetries = 2
  RefreshAnswers <- NoRefresh
  ResumeTimes = {0}
SYMMETRY RequestSymmetry
INVARIANTS
  InflightIsActiveRequests
