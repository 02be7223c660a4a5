\* Two requests or writers on each part; a limit of two in a window of one tick.
SPECIFICATION Spec
CONSTANTS
  p1 = p1
  p2 = p2
  Requests = {p1, p2}
  RateLimit = 2
  Window = 1
  MaxClock = 2
  MaxCount = 4
  Entries = {1, 2}
  Callers = {p1, p2}
  DailyLimit = 2
  TTL = 1
  MaxTime = 3
  MaxServed = 4
  Secrets = {1, 2}
  Admins = {p1}
  Generated = {"k1", "k2"}
  MaxPuts = 2
  MaxUsageBuffer = 2
  MaxRecords = 5
INVARIANTS
  ServerInv
  WindowHolds
  CountedUsesStay
PROPERTIES
  RestartKeepsSettings
  NoEarlyRefusal
  OnlyOldestDropped
  ServerProgress
CHECK_DEADLOCK FALSE
