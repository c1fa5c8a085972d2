SPECIFICATION Spec
CONSTANTS
  Users = {alice, bob}
  None = None
  Local = Local
  Movies = {m1}
  MaxPairs = 3
SYMMETRY Symmetry
INVARIANTS AccountsTypeOK SessionsBelong CleanSwitchIsSafe LocalRowsAreStray

