CONSTANTS
  t1 = t1
  t2 = t2
  k0 = k0
  k1 = k1
  k2 = k2
  v = v
  sqlite = sqlite
  redis = redis
  persona = persona
  http = http
  admin = admin
  old = old
  new = new
  Thread = {t1, t2}
  Value = {v}
  DatabasePlugin = {redis}
  AgentPlugin = {}
  Check = {}
  Password = {admin, old, new}
  DefaultPass = admin
  Secret = {k0, k1, k2}
  Unset = Unset
  REDACTED = REDACTED
  Keep = 1
  MayFail = FALSE
  BreakWhen = "quiet"
  Initial <- InUse
  Requests <- BrokenRequests
SPECIFICATION Spec
PROPERTY BrokenFileIsKept
