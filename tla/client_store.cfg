SPECIFICATION StoreSpec
CONSTANTS
  Modes = {"blitz", "rapid"}
  OwnGames = {"g1"}
  OtherGames = {"other"}
  MaxInFlight = 2
  None = None
INVARIANTS ShownSearchIsHeld SeatIsOnTheBoard WatchingIsOfThePage
PROPERTIES RejoiningIsAnswered HeldSearchIsShown
