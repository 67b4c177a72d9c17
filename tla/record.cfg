SPECIFICATION RecordSpec
CONSTANTS
  Width = 3
  Height = 3
  Modes = {"Infiltration"}
  Layout <- MCDuels
  InitialTime = 2
  Increment = 1
  TimeExtension = 2
  MaxMs = 4
  QuietPlyLimit = 3
  NoDrawOffers = FALSE
  NoTimeExtensions = FALSE
  ClockStartsOnFirstMove = TRUE
  HoldSpans = {1}
  MaxLag = 2
  MaxEvents = 3
INVARIANTS InProgressIsPlayable RecordReplays ElapsedAccountsForTheClocks LogReadsRight
PROPERTIES FinishedIsFinal OnlyTheMoverPays
