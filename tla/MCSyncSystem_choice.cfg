CONSTANTS
  Devices = {d1}
  Movies = {m1}
  Vals = {v1, v2}
  Requests = {q1}
  MaxTime = 3
  Skew <- NoSkew
  Seeded <- AllSeeded
  Faults = {}
  None = None
SPECIFICATION Spec
PROPERTY ChoiceIsApplied
