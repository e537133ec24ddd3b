SPECIFICATION Spec
CONSTANTS
  a1 = a1
  a2 = a2
  p1 = p1
  p2 = p2
  p3 = p3
  other = other
  h1 = h1
  Accounts = {a1, a2}
  Hashes = {h1}
  NoHash = NoHash
  Events = {p1, p2, other}
  NoEvent = NoEvent
  EventBody <- MCBody
  Tolerance = 300
  Ages <- MCAges
  MaxFaults = 2
INVARIANT DuplicateWasCredited
