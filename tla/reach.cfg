SPECIFICATION RaceSpec
CONSTANTS
  Width = 3
  Height = 4
  Modes = {"Infiltration", "Intransitive", "TotalWar"}
  Layout <- MCLayout
  QuietPlyLimit = 2
  Starts <- MCStarts
  RunChoices <- MCRunChoices
  MaxMoves <- MCMaxMoves
CHECK_DEADLOCK FALSE
INVARIANTS ClientPlaysTheServersRules OlderEraIsTheBoardTurnedOver OneWalkFindsTheRun VerdictIsTheFirstHome QuietRunIsNeverCaught RacerSeesTheEndOfTheRace
