CONSTANTS
  MaxLog = 3
  MaxId = 1
  Lots = 2
  MaxOrders = 2
  PersistEvery = 1
  ReconcileEvery = 1
  MaxEvents = 2
  MaxLives = 2
  MaxSaves = 2
  MaxNews = 1
  Ahead = {FALSE}
SPECIFICATION LiveSpec
CHECK_DEADLOCK FALSE
INVARIANTS
  LiveOrdersRemembered
PROPERTIES
  FillsBookedOnce
  SilentVenueNoticed
  NotBookedAcrossRestart
