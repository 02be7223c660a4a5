\* Two media requests of any kinds, with recovery.
SPECIFICATION Spec
CONSTANTS
  NoToken = NoToken
  r1 = r1
  r2 = r2
  t1 = t1
  t2 = t2
  t3 = t3
  m1 = m1
  Reqs = {r1, r2}
  Tokens = {t1, t2, t3}
  Modes = {m1}
  Mode = m1
  PoolLevel <- OnePool
  Priority <- FlatPriority
  DefaultQuota <- QuotaOne
  MaxInflight = 2
  FailThreshold = 0
  RecentUsePenalty = FALSE
  Algorithm = "random"
  KindsOf <- AnyKind
  Floor = 2
  N = 2
  MaxLegs = 2
  RecoveryOn = TRUE
  Cooldown = TRUE
SYMMETRY FlowSymmetry
INVARIANTS
  MediaInv
  NothingStaysLent
  UnblockedAreCounted
PROPERTIES
  BlameIsOwn
