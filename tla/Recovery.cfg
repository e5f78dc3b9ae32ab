\* Losses, failures, crashes, a creation and a takeover. The bound on the epochs lets the
\* model stop.
CONSTANTS
  p1 = p1  p2 = p2  w1 = w1  w2 = w2
  Workers = {w1, w2}  Products = {p1, p2}
  Trials <- AllTrials
SPECIFICATION FairSpec
INVARIANTS OpenAuthorityCovers TotalLossIsExtended ExtendedOncePerLoss
PROPERTIES  AuctionsReopenAtLast
CHECK_DEADLOCK FALSE
