\* Money and ranking: three bidders, one key that expires, a short clock.
CONSTANTS
  k1 = k1  k2 = k2
  Users = {1, 2, 3, 4}  Seller = 4  Admins = {}
  Amounts = {2, 3, 4}
  Keys = {k1}
  StartPrice = 1  Step = 1  BuyNow = 3
  StartAt = 0  EndAt = 1
  AutoExtend = FALSE  Window = 0  Extension = 0
  RateLimit = 1  MaxMoney = 4  MaxSequence = 5
  MaxUserEvents = 4  MaxLag = 0  MaxTime = 1
SPECIFICATION Spec
INVARIANTS TypeOK LeaderStands PriceIsCovered ProxyIsMinimal RankingMirrorsMaxima EndsOnce
PROPERTIES ImplementsContract
CHECK_DEADLOCK FALSE
