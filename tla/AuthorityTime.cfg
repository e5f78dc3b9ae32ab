\* Time: a late start, anti-sniping, a request one tick old, a rate window, a running clock.
CONSTANTS
  k1 = k1  k2 = k2
  Users = {1, 2, 3}  Seller = 3  Admins = {}
  Amounts = {2, 3}
  Keys = {k1, k2}
  StartPrice = 1  Step = 1  BuyNow <- NoBuyNow
  StartAt = 1  EndAt = 2
  AutoExtend = TRUE  Window = 1  Extension = 1
  RateLimit = 1  MaxMoney = 3  MaxSequence = 3
  MaxUserEvents = 2  MaxLag = 1  MaxTime = 4
SPECIFICATION FairSpec
INVARIANTS AnsweredOnce
PROPERTIES OverIsOver NeverClosedEarly ArmedAuctionEnds
CHECK_DEADLOCK FALSE
