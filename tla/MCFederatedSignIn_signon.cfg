CONSTANTS
  b1 = b1
  b2 = b2
  None = None
  Browsers = {b1, b2}
  Envs <- MCEnvs
  Lower <- MCLower
  SigningKey <- MCSigningKey
  MaxLogins = 2
  MaxCalls = 2
  MaxFaults = 2
  CacheMax = 1
SPECIFICATION Spec
SYMMETRY Symmetry
CHECK_DEADLOCK FALSE
INVARIANTS
  TypeOK
  CompletesOwnLogin
  ReplayRefused
  RecentLoginsRemembered
  RefusedOnlyIfDisturbed
  HintMatchesSession
  OnlyVettedProvidersUsed
