\* A filter whose name is abbreviated
SPECIFICATION Spec
CONSTANTS
  Registered <- MCRegistered
  Lines <- MCLines
  Beginnings <- MCBeginnings
  Text <- MCText
  BadPatterns <- MCBadPatterns
  MaxSettings = 5
  Cancel <- MCCancel
  Execute <- MCExecute
  Show <- MCShow
  Unset <- MCUnset
  Setting <- MCSetting
INVARIANTS
  AbbreviatedFilters
CHECK_DEADLOCK FALSE
