\* Every request ends, two requests over one token that is never disabled.
SPECIFICATION FairSpec
CONSTANTS
  NoToken = NoToken
  m1 = m1
  m2 = m2
  r1 = r1
  r2 = r2
  t1 = t1
  Requests = {r1, r2}
  Tokens = {t1}
  Modes = {m1}
  PoolLevel <- OnePool
  Priority <- FlatPriority
  DefaultQuota <- QuotaOne
  MaxInflight = 1
  FailThreshold = 0
  RecentUsePenalty = TRUE
  Algorithm = "high_quota_first"
  ModeOf <- OneMode
  Floor <- FromSuper
  MaxTokens = 2
  PerTokenRetries = 2
  RefreshAnswers <- FullOrEmpty
  ResumeTimes = {0}
INVARIANTS
 QuotaWithinLimit
PROPERTIES
  RequestTerminates
  ImplementsLease
