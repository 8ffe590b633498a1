SPECIFICATION Spec
CONSTANTS
  Agents = {a1, a2}
  Full <- Everyone
  Bridged <- Nobody
  Capacity = 1
  First = first
  Resumes = {r1}
  Callbacks = {c1}
  MaxStarts = 0
  MaxFaults = 1
INVARIANT ListedResourcesHoldASlot
CHECK_DEADLOCK FALSE
