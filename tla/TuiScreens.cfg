SPECIFICATION Spec
CONSTANTS
  MaxSnapshots = 2
  MaxLogins = 2
  None = None
INVARIANTS TuiScreensTypeOK SpinnersAreHonest FormDataIsFresh OwnEntryKept AckedBackupIsStored
