\* A token with a local or with an upstream mode, two refreshes at once.
SPECIFICATION OneTokenSpec
CONSTANTS
  local = local
  remote = remote
  t1 = t1
  t2 = t2
  Tokens = {t1, t2}
  Modes = {local, remote}
  LocalModes = {local}
  PoolLevel <- OneSuper
  Priority <- Flat
  DefaultQuota <- OneMode
  MaxInflight = 0
  FailThreshold = 0
  RecentUsePenalty = FALSE
  Algorithm = "random"
  Jobs = {1, 2}
  MaxConcurrent = 2
  Window <- Windows
  Debounce = 1
  Answers <- SomeAnswers
  Now = 2
  MaxUse = 1
INVARIANTS
  RefreshInv
PROPERTIES
  ExhaustedModeReturns
