SPECIFICATION SSpec
CONSTANTS
  Grants = {a}
  Offline <- Everyone
  DpopBound <- Nobody
  Requests = {r1, r2, r3, r4}
  MaxFaults = 1
  Consents = {b1, b2}
  Subjects = {s1, s2}
  Cleanups = {c1}
INVARIANTS SerialRotationKeepsWorking QuietCleanupEndsGrant
PROPERTIES RevokedStaysRevoked
CHECK_DEADLOCK FALSE
SYMMETRY Symmetry
