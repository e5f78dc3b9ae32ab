\* A partial recovery fails, and the other auction ends.
CONSTANTS
  p1 = p1  p2 = p2  w1 = w1  w2 = w2
  Workers = {w1, w2}  Products = {p1, p2}
  Trials <- FenceTrial
SPECIFICATION Spec
INVARIANTS ExtensionsAreIdempotent
CHECK_DEADLOCK FALSE
