SPECIFICATION Spec
CONSTANTS
  a = a
  b = b
  Capabilities = {a, b}
  Works = {1}
  Handlers = {h1, h2}
  Proposes <- Everything
  Allowed = {a, b}
  Initially = {{}, {a}, {b}, {a, b}}
  MaxChanges = 2
  MaxFaults = 1
SYMMETRY Symmetry
INVARIANTS RevocationReaches NarrowingNarrows
PROPERTIES OneAgentAtATime
CHECK_DEADLOCK FALSE
