\* A page with up to two faults; a user with two requests at once and one fault.
CONSTANTS
  q1 = q1  loop = loop  drain = drain  a1 = a1  a2 = a2  l1 = l1  l2 = l2  c1 = c1  c2 = c2
  s1 = s1  s2 = s2  s3 = s3
  Pages = {q1}  Consumers = {loop, drain}  LastSequence = 3
  Processes = {a1, a2}  Lookups = {l1, l2}  Changes = {c1, c2}  LastVersion = 3
  SocketProcess = a1  Requests = {s1, s2, s3}
  Trials <- EachPart
SPECIFICATION FairSpec
INVARIANTS StalenessHasACause SalesAreSettled
PROPERTIES BehindOnlyByLoss CopiesCatchUp DecidedOrderIsFinal
CHECK_DEADLOCK FALSE
