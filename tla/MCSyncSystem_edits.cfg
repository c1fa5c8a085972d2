CONSTANTS
  Devices = {d1}
  Movies = {m1}
  Vals = {v1}
  Requests = {q1}
  MaxTime = 3
  Skew <- NoSkew
  Seeded <- AllSeeded
  Faults = {}
  None = None
SPECIFICATION Spec
INVARIANT EditsArePushed
