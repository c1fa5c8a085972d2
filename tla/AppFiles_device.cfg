SPECIFICATION Spec
CONSTANTS
  Accounts = {alice}
  Prefs = {midnight}
  DefaultPrefs = midnight
  Unset = Unset
  Views = {menu}
  DefaultView = menu
  None = None
  Absent = Absent
  Torn = Torn
  MaxDevices = 2
INVARIANT DeviceIdIsPersistent
