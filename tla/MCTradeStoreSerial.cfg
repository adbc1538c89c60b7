SPECIFICATION Spec
CONSTANTS
  a = a
  b = b
  d = d
  e1 = e1
  e2 = e2
  s1 = s1
  s2 = s2
  NoField = NoField
  NoCommand = NoCommand
  NoTrade = NoTrade
  Commands = {a, b, d}
  Direct <- LoneB
  Detached <- Nobody
  DatabaseFails = TRUE
  Statuses = {"LIVE", "CLOSED"}
  Patches <- CloseOrAnchor
  EntryFacts = {e1}
  Stops = {s1, s2}
  MaxWrites <- TwoWrites
PROPERTIES WritesWhatItRead StrategyStopFixed
CHECK_DEADLOCK FALSE
