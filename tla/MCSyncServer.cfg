CONSTANTS
  Movies = {m1}
  Vals = {v1, v2}
  Requests = {q1, q2}
  MaxTime = 3
  None = None
SPECIFICATION ServerSpec
SYMMETRY ServerSymmetry
INVARIANTS ServerTypeOK EntryHasMovie DoneMeansReceived
PROPERTIES OlderNeedsRace ImportsMerge RetriesAreHarmless
CHECK_DEADLOCK FALSE
