CONSTANTS
  Configs = {0, 1, 2}
  RequireMatching = TRUE
  DailyReset = TRUE
  PersistEvery = 2
  MaxEvents = 3
  MaxSequence = 5
  MaxLives = 1
SPECIFICATION PaperSpec
CHECK_DEADLOCK FALSE
PROPERTIES
  PausedSendsNoOrders
