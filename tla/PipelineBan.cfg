\* One auction from its first bid to its end, and the loop that projects it.
CONSTANTS
  k1 = k1  loop = loop
  Users = {1, 2, 3}  Seller = 3  Admins = {}
  Amounts = {2, 3}
  Keys = {k1}
  StartPrice = 1  Step = 1  BuyNow = 3
  StartAt = 0  EndAt = 1
  AutoExtend = TRUE  Window = 1  Extension = 1
  RateLimit = 2  MaxMoney = 3  MaxSequence = 4
  MaxUserEvents = 3  MaxLag = 0  MaxTime = 2
  Consumers = {loop}
  MaxAttempts = 2  ReadCount = 4
SPECIFICATION PipelineSpec
CHECK_DEADLOCK FALSE
INVARIANTS Converges
