\* The persister and an administrator's refresh flush two tokens.
SPECIFICATION PersistSpec
CONSTANTS
  Flushers = {f1, f2}
  Tokens = {t1, t2}
  Modes = {m1}
  PoolLevel <- OnePool
  Priority <- FlatPriority
  DefaultQuota <- QuotaOne
  MaxInflight = 1
  FailThreshold = 0
  RecentUsePenalty = FALSE
  Algorithm = "high_quota_first"
  RefreshAnswers <- Empty
  ResumeTimes = {}
  PrimedAt = 1
SYMMETRY FlusherSymmetry
INVARIANTS
  PersistTypeOK
  OnlyLateChangesAreLost
