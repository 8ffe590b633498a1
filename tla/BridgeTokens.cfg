SPECIFICATION Spec
CONSTANTS
  a1 = a1
  a2 = a2
  read = read
  send = send
  Agents <- Both
  Scopes = {read, send}
  Needs <- OneScopeEach
  Requests = {r1, r2}
  Calls = {c1, c2}
  Rotations <- Either
  MaxFaults = 1
SYMMETRY Symmetry
INVARIANTS ActiveConnectionWorks RevokedConnectionIsDead
PROPERTY RevivedByConsentOnly
CHECK_DEADLOCK FALSE
