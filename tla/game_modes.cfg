SPECIFICATION FairSpec
CONSTANTS
  Width = 3
  Height = 3
  Modes = {"Infiltration", "Intransitive", "TotalWar"}
  Layout <- MCEachMode
  InitialTime = 2
  Increment = 1
  TimeExtension = 0
  MaxMs = 2
  QuietPlyLimit = 3
  NoDrawOffers = TRUE
  NoTimeExtensions = TRUE
  ClockStartsOnFirstMove = FALSE
  HoldSpans = {}
  MaxLag = 1
INVARIANTS SymmetriesPlayTheSameGame
PROPERTIES EveryGameEnds
