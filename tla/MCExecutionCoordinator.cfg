SPECIFICATION FairSpec
CONSTANTS
  c1 = c1
  c2 = c2
  c3 = c3
  c4 = c4
  ka = ka
  kb = kb
  NoCall = NoCall
  Calls <- CallsMC
  Keys = {ka, kb}
  KeyOf <- KeyOfMC
  Detached <- DetachedMC
INVARIANTS TypeOK
PROPERTIES ImplementsSerial
