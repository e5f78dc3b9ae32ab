\* Two loops and every kind of fault.
CONSTANTS
  loop = loop  drain = drain
  Consumers = {loop, drain}
  Trials <- AllTrials  Event <- Events
  StartPrice = 1  EndAt = 9  OpeningStatus = "ACTIVE"
  MaxAttempts = 2  ReadCount = 3  MaxEvents = 3
SPECIFICATION FairSpec
INVARIANTS NothingIsDropped ProjectionIsReplay
 
