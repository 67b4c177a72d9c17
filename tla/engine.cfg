SPECIFICATION LaneSpec
CONSTANTS
  board = board
  bot = bot
  review1 = review1
  review2 = review2
  a = a
  b = b
  c = c
  None = None
  Requests <- MCRequests
  Lanes = {"interactive", "review"}
  LaneOf <- MCLaneOf
  Exclusive = {bot, review1, review2}
  Positions = {a, b, c}
  Walk <- MCWalk
  Platforms = {"browser", "phone"}
  MaxWorkers = 3
  MaxAsked = 3
CHECK_DEADLOCK FALSE
INVARIANTS EngineStandsWhereItSearches TableIsOfOneLine PendingIsOnTheWorker
PROPERTIES LanesServeTheirCallers EveryQuestionIsSettled
