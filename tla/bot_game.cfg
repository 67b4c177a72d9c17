SPECIFICATION BotSpec
CONSTANTS
  Moves = {"quiet", "mate"}
  Winning = {"mate"}
  MaxPlies = 3
  MaxJobs = 3
  None = None
INVARIANTS TurnIsOfThisPosition SpinnersAreBacked HintIsOfTheLinePlayed
PROPERTIES DrawWasOfferedInThisGame TheBotPlays
