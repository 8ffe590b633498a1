SPECIFICATION Spec
CONSTANTS
  a1 = a1
  Agents = {a1}
  Servers = {as1}
  Apis = {api1}
  Requests = {r1, r2}
  RevokeCalls = {c1}
  Expiry = 5
  ExpiresAt <- OneLifetime
  Handle = 1
  Cache = 2
  Grant = 2
  GrantLeeway = 0
  Token = 1
  Leeway = 1
  Skew = 0
  MaxTime = 8
SYMMETRY Symmetry
VIEW View
INVARIANTS RevokedIsRefused StoppedRunsOut ExpiredRunsOut
CHECK_DEADLOCK FALSE
