CONSTANTS
  Devices = {d1, d2}
  Movies = {m1}
  Vals = {v1, v2}
  Requests = {q1}
  MaxTime = 3
  Skew <- NoSkew
  Seeded <- MoviesSeeded
  Faults = {}
  None = None
SPECIFICATION HistorySpec
CONSTRAINT OneAtATime
SYMMETRY SymmetryDevices
INVARIANTS PulledIsKept QuietDevicesAgree DeletedIsGone OneVersionPerTime
PROPERTIES ConflictShieldsRow NothingInvented
