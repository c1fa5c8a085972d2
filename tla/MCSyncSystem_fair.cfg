CONSTANTS
  Devices = {d1, d2}
  Movies = {m1}
  Vals = {v1}
  Requests = {q1}
  MaxTime = 3
  Skew <- NoSkew
  Seeded = {}
  Faults = {}
  None = None
SPECIFICATION FairSpec
PROPERTIES Convergence MarksDrain
