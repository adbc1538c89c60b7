SPECIFICATION Spec
CONSTANTS
  a = a
  b = b
  d = d
  e1 = e1
  e2 = e2
  s1 = s1
  s2 = s2
  NoField = NoField
  NoCommand = NoCommand
  NoTrade = NoTrade
  Commands = {a, d}
  Direct <- Nobody
  Detached <- TimerD
  DatabaseFails = TRUE
  Statuses = {"ENTRY_OPEN", "ENTRY_FILLED", "LIVE", "CLOSED"}
  Patches <- FillAndClose
  EntryFacts = {e1, e2}
  Stops = {}
  MaxWrites <- WritesMC
INVARIANTS TypeOK CopiesAreSnapshots ResultsAreTrue
PROPERTIES LegalTransitions TerminalFactsFrozen
CHECK_DEADLOCK FALSE
