\* Lines of a small application in every mode, pipelines and buildmodes
SPECIFICATION Spec
CONSTANTS
  Registered <- MCRegistered
  Lines <- MCLines
  Beginnings <- MCBeginnings
  Text <- MCText
  BadPatterns <- MCBadPatterns
  MaxSettings = 5
  Cancel <- MCCancel
  Execute <- MCExecute
  Show <- MCShow
  Unset <- MCUnset
  Setting <- MCSetting
INVARIANTS
  AbbreviationNamesOne
  BuildmodeContained
  ExecutesWhatWasBuilt
  CompletionIsTaken
  ReturnMeansComplete
  OutputFiltered
CHECK_DEADLOCK FALSE
