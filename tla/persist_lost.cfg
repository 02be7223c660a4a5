\* Violated: a change during a flush is neither saved nor dirty.
SPECIFICATION PersistSpec
CONSTANTS
  Flushers = {f1}
  Tokens = {t1}
  Modes = {m1}
  PoolLevel <- OnePool
  Priority <- FlatPriority
  DefaultQuota <- QuotaOne
  MaxInflight = 1
  FailThreshold = 1
  RecentUsePenalty = FALSE
  Algorithm = "high_quota_first"
  RefreshAnswers <- Empty
  ResumeTimes = {}
  PrimedAt = 1
INVARIANTS
  CleanIsPersisted
