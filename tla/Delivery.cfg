\* Each part with two faults, and the end of an auction through all of them.
CONSTANTS
  closed = closed  recovery = recovery  question = question  gone = gone  again = again
  decision = decision  bid = bid  recovered = recovered
  r1 = r1  r2 = r2  m1 = m1  m2 = m2
  Events <- AllEvents  Malformed <- WithoutVersion
  Relays = {r1, r2}  BatchSize = 2
  Wanted <- Notifiable  Unresolvable <- NoRecipients
  Closing <- OfClosing  Recovery <- OfRecovery  Retried <- Replayed
  RetryLimit = 2
  Undeliverable <- Refused  Mailers = {m1, m2}  MaxAttempts = 2  DashboardRetryLimit = 2
  Trials <- EachPart
SPECIFICATION FairSpec
INVARIANTS  TwiceOnlyIfInterrupted
PROPERTIES SnapshotCatchesUp ImplementsChannel EveryClosingIsAnnounced 
CHECK_DEADLOCK FALSE
