SPECIFICATION FairSpec
CONSTANTS
  open = open
  partial = partial
  complete = complete
  NoUpdate = NoUpdate
  Updates <- UpdatesMC
  History <- HistoryMC
  StatusOf <- StatusOfMC
  Setups <- SetupsMC
  CacheLimit = 2
INVARIANTS TypeOK OwnExitBookedOnce OnlyLateOrphansAreMissed
PROPERTIES FillIsBooked
CHECK_DEADLOCK FALSE
