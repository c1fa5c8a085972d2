SPECIFICATION Spec
CONSTANTS
  Cycles = {c1, c2}
  MaxAttempts = 2
  MaxConflicts = 2
  MaxTriggers = 1
  None = None
INVARIANTS TuiSyncTypeOK OverlapBound TickAccount AutoSyncEndsOffline SelectionIsOpen
PROPERTIES SyncingEnds AutoSyncGoesOn RunsAreSerial
