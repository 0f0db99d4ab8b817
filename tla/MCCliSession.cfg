SPECIFICATION Spec
CONSTANTS
  Letters <- MCLetters
  MaxLine = 4
  MaxHistory = 3
  Recorded <- MCRecorded
  Completions <- MCCompletions
  Accounts <- MCAccounts
  EnableWords <- MCEnableWords
  AuthRequired = TRUE
  EnableFree = FALSE
  MaxMode = 1
  MaxIndex = 4
  MaxCommands = 4
  MaxCalls = 4
INVARIANTS
  TypeOK
  ScreenShowsLine
  RecallsInTurn
PROPERTIES
  EditsLine
  PasswordUnseen
CHECK_DEADLOCK FALSE
