\* A token is imported; two more operations, requests and a flush follow.
SPECIFICATION Spec
CONSTANTS
  a1 = a1
  a2 = a2
  a3 = a3
  f = f
  m = m
  t1 = t1
  Admins = {a1, a2, a3}
  Flushers = {f}
  Modes = {m}
  Tokens = {t1}
  Stored = {}
  PoolLevel <- OnePool
  Priority <- Flat
  DefaultQuota <- QuotaOne
  MaxInflight = 1
  FailThreshold = 0
  RecentUsePenalty = FALSE
  Algorithm = "random"
  RefreshAnswers <- Reported
  ResumeTimes = {}
  PrimedAt = 1
  Updates <- SomeUpdates
  MaxUse = 2
SYMMETRY AdminSymmetry
INVARIANTS
  AdminInv
  PoolMatchesRows
  CleanMatchesRow
  OnlyRemovalOvercommits
PROPERTIES
  AdminChangeHolds
CHECK_DEADLOCK FALSE
