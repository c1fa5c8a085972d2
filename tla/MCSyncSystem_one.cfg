CONSTANTS
  Devices = {d1}
  Movies = {m1}
  Vals = {v1, v2}
  Requests = {q1, q2}
  MaxTime = 3
  Skew <- NoSkew
  Seeded <- MoviesSeeded
  Faults = {"error", "crash", "abort"}
  None = None
SPECIFICATION Spec
SYMMETRY Symmetry
INVARIANTS TypeOK NoEditForgotten LocalEntryHasMovie OneOpenConflict
PROPERTY PullOlderNeedsRace
