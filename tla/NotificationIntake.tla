------------------------- MODULE NotificationIntake -------------------------
(***************************************************************************)
(* The notification consumer (notification-consumer.worker.ts,             *)
(* notification.service.ts): it reads the log in batches, writes a receipt *)
(* and the deliveries of each event, and commits the offset of the batch.  *)
(*                                                                         *)
(* A batch is worked on by trial.width concurrent workers                  *)
(* (NOTIFICATION_BATCH_CONCURRENCY), each of which takes the next message  *)
(* when it has finished one.  When a handler throws, the batch fails and   *)
(* is delivered again, while the other workers of the failed pass still    *)
(* run: the two passes are told apart by their parity.                     *)
(* The deliveries of one event to several recipients are inserted in one   *)
(* statement and stand for one; the product of the closing event is one.   *)
(***************************************************************************)
EXTENDS Integers, Sequences, FiniteSets, SequencesExt

CONSTANTS
  Events,
  Wanted,          \* events of a type that requires a notification
  Unresolvable,    \* wanted events whose recipients are gone
  Closing,         \* the end of the auction
  Recovery,        \* the event the scheduled recovery makes up for it
  Retried,         \* the event a retry from the dead letters makes of another
  RetryLimit       \* NOTIFICATION_RETRY_LIMIT

VARIABLES
  log, offset,     \* the messages, and how many are committed
  open,            \* the pass of the batch being worked on, or none
  pass,            \* how far each pass has got
  handlers,        \* the messages being handled
  stopping, stops,
  receipts, deliveries,
  announced,       \* products.auction_notification_enqueued_at is set
  reported,        \* events with a row on the dead-letter topic
  skipped,         \* history: messages a stopping consumer passed over
  outbox,
  trial, faults, replays   \* see OutboxRelay

consumer == <<offset, open, pass, handlers, stopping, stops, skipped>>
tables == <<receipts, deliveries, announced, reported>>
intakeVars == <<log, consumer, tables, outbox, trial, faults, replays>>

NoPass == [next |-> 1, last |-> 0, workers |-> 0]
None == 2                          \* no pass is open
NoReceipt == [status |-> "none", attempts |-> 0]
NoDelivery == [status |-> "none", due |-> FALSE, sent |-> FALSE, terminal |-> FALSE, attempts |-> 0]
NewDelivery == [NoDelivery EXCEPT !.status = "pending", !.due = TRUE]

IntakeInit ==
  /\ offset = 0 /\ open = None /\ pass = [g \in {0, 1} |-> NoPass] /\ handlers = {}
  /\ stopping = FALSE /\ stops = 0 /\ skipped = {}
  /\ receipts = [e \in Events |-> NoReceipt]
  /\ deliveries = [e \in Events |-> NoDelivery]
  /\ announced = FALSE /\ reported = {}

Fault(kind) ==
  kind \in trial.faults /\ faults < trial.most /\ faults' = faults + 1 /\ UNCHANGED <<trial, replays>>
NoFault == UNCHANGED <<trial, faults, replays>>

Of(g) == {h \in handlers : h.pass = g}
Throw(h) ==
  /\ handlers' = handlers \ {h}
  /\ pass' = [pass EXCEPT ![h.pass].workers = @ - 1]
  /\ open' = IF open = h.pass THEN None ELSE open
Return(h) == handlers' = handlers \ {h} /\ UNCHANGED <<pass, open>>
Goto(h, s) == handlers' = (handlers \ {h}) \cup {[h EXCEPT !.step = s]} /\ UNCHANGED <<pass, open>>

-----------------------------------------------------------------------------
Started(g, S) == {[pass |-> g, at |-> i, step |-> "enqueue"] : i \in {j \in S : log[j] \in Wanted}}

\* The messages from the committed offset on are delivered as a batch, and the
\* first are taken at once.  A pass that failed may still be running; one before
\* it may not (a bound).
EachBatch(g) ==
  LET first == offset + 1
      taken == {i \in first..Len(log) : i < first + trial.width}
  IN  /\ "intake" \in trial.workers /\ open = None /\ ~stopping /\ taken # {}
      /\ Of(g) = {} /\ (pass[g].next > pass[g].last \/ pass[g].workers = 0)
      /\ pass' = [pass EXCEPT ![g] = [next |-> first + Cardinality(taken), last |-> Len(log),
                                      workers |-> trial.width]]
      /\ open' = g
      /\ handlers' = handlers \cup Started(g, taken)
      /\ UNCHANGED <<log, offset, stopping, stops, skipped, tables, outbox>> /\ NoFault

\* A worker that is free takes the next message, or passes it over if the
\* consumer is stopping.
TakeMessage(g) ==
  LET at == pass[g].next IN
  /\ at <= pass[g].last /\ Cardinality(Of(g)) < pass[g].workers
  /\ pass' = [pass EXCEPT ![g].next = @ + 1]
  /\ handlers' = IF stopping THEN handlers ELSE handlers \cup Started(g, {at})
  /\ skipped' = IF stopping THEN skipped \cup {at} ELSE skipped
  /\ UNCHANGED <<log, offset, open, stopping, stops, tables, outbox>> /\ NoFault

\* Fault: any receipt counts.
ReceiptFound(e) == receipts[e].status # "none"
Handled(e) == receipts[e].status \in {"processed", "terminal"}
\* attempts is only ever compared with the limit.
Attempted(e) == IF receipts[e].attempts < RetryLimit THEN receipts[e].attempts + 1 ELSE RetryLimit

\* The receipt, the deliveries and the product row are written in one transaction.
Enqueue(e) ==
  /\ receipts' = [receipts EXCEPT ![e] = [status |-> "processed", attempts |-> Attempted(e)]]
  /\ deliveries' = IF deliveries[e].status = "none" THEN [deliveries EXCEPT ![e] = NewDelivery] ELSE deliveries
  /\ announced' = (announced \/ e \in {Closing, Recovery})

\* enqueueNotificationEvent.  The receipt is read before and again inside of the
\* transaction, with the same consequences, and a receipt that is neither
\* processed nor terminal is written over: one step.
EnqueueNotificationEvent(h) ==
  LET e == log[h.at] IN
  /\ h.step = "enqueue"
  /\ \/ Handled(e) /\ Return(h) /\ UNCHANGED tables
     \/ ~Handled(e) /\ e \notin Unresolvable /\ Enqueue(e) /\ Return(h) /\ UNCHANGED reported
     \/ ~Handled(e) /\ e \in Unresolvable /\ Goto(h, "retry") /\ UNCHANGED tables
  /\ UNCHANGED <<log, offset, stopping, stops, skipped, outbox>> /\ NoFault

EnqueueFails(h) ==
  /\ h.step = "enqueue" /\ Fault("database")
  /\ Goto(h, "retry")
  /\ UNCHANGED <<log, offset, stopping, stops, skipped, tables, outbox>>

\* Fault: the error ends with the receipt.
RetryWithoutThrow(h) ==
  LET e == log[h.at] IN
  /\ h.step = "retry"
  /\ receipts' = [receipts EXCEPT ![e] = [status |-> "retrying", attempts |-> Attempted(e)]]
  /\ IF Attempted(e) = RetryLimit THEN Goto(h, "terminal") ELSE Return(h)
  /\ UNCHANGED <<log, offset, stopping, stops, skipped, deliveries, announced, reported, outbox>> /\ NoFault
\* The error is counted on the receipt, whatever its status has become, and
\* thrown again below the limit.
RecordRetry(h) ==
  LET e == log[h.at] IN
  /\ h.step = "retry"
  /\ receipts' = [receipts EXCEPT ![e] = [status |-> "retrying", attempts |-> Attempted(e)]]
  /\ IF Attempted(e) = RetryLimit THEN Goto(h, "terminal") ELSE Throw(h)
  /\ UNCHANGED <<log, offset, stopping, stops, skipped, deliveries, announced, reported, outbox>> /\ NoFault

\* Fault: the receipt without the event for the dead letters.
TerminalUnreported(h) ==
  LET e == log[h.at] IN
  /\ h.step = "terminal"
  /\ receipts' = [receipts EXCEPT ![e].status = "terminal"]
  /\ Return(h)
  /\ UNCHANGED <<log, offset, stopping, stops, skipped, deliveries, announced, reported, outbox>> /\ NoFault
\* The terminal receipt and the event for the dead letters, in one transaction.
TerminalReceipt(h) ==
  LET e == log[h.at] IN
  /\ h.step = "terminal"
  /\ receipts' = [receipts EXCEPT ![e].status = "terminal"]
  /\ reported' = reported \cup {e}
  /\ Return(h)
  /\ UNCHANGED <<log, offset, stopping, stops, skipped, deliveries, announced, outbox>> /\ NoFault

\* The database fails again while the failure is being recorded.
RecordingFails(h) ==
  /\ h.step \in {"retry", "terminal"} /\ Fault("database")
  /\ Throw(h)
  /\ UNCHANGED <<log, offset, stopping, stops, skipped, tables, outbox>>

\* Every message of the batch has returned: its last offset is committed.
CommitOffsets(g) ==
  /\ open = g /\ Of(g) = {} /\ pass[g].next > pass[g].last
  /\ offset' = pass[g].last
  /\ open' = None
  /\ UNCHANGED <<log, pass, handlers, stopping, stops, skipped, tables, outbox>> /\ NoFault

CommitFails(g) ==
  /\ open = g /\ Of(g) = {} /\ pass[g].next > pass[g].last
  /\ Fault("kafka")
  /\ open' = None
  /\ UNCHANGED <<log, offset, pass, handlers, stopping, stops, skipped, tables, outbox>>

\* stopNotificationConsumer, and an isStale batch of a rebalance.
Stop ==
  /\ "intake" \in trial.workers /\ ~stopping /\ stops < trial.stops
  /\ stopping' = TRUE /\ stops' = stops + 1
  /\ UNCHANGED <<log, offset, open, pass, handlers, skipped, tables, outbox>> /\ NoFault

Forget ==
  /\ open' = None /\ pass' = [g \in {0, 1} |-> NoPass] /\ handlers' = {} /\ stopping' = FALSE
  /\ UNCHANGED <<log, offset, stops, skipped, tables, outbox>>
\* kafkajs waits for the batch it runs; then the process ends, and another starts.
Restart == stopping /\ open = None /\ Forget /\ NoFault
Crash == Fault("crash") /\ (open # None \/ handlers # {} \/ stopping) /\ Forget

\* An administrator retries a terminal receipt (retryDlq): the event is recorded
\* again under another id.
RetryNotification(e) ==
  /\ receipts[e].status = "terminal" /\ replays < trial.replays /\ e \in DOMAIN Retried
  /\ outbox' = Append(outbox, [event |-> Retried[e], state |-> "waiting", due |-> TRUE])
  /\ receipts' = [receipts EXCEPT ![e].status = "retrying"]
  /\ replays' = replays + 1
  /\ UNCHANGED <<log, consumer, deliveries, announced, reported, trial, faults>>

-----------------------------------------------------------------------------
Handle(h) == EnqueueNotificationEvent(h) \/ RecordRetry(h) \/ TerminalReceipt(h)
IntakeStep ==
  \/ \E g \in {0, 1} : EachBatch(g) \/ TakeMessage(g) \/ CommitOffsets(g)
  \/ \E h \in handlers : Handle(h)
  \/ Restart
IntakeFault ==
  \/ \E h \in handlers : EnqueueFails(h) \/ RecordingFails(h)
  \/ \E g \in {0, 1} : CommitFails(g)
  \/ Stop \/ Crash
IntakeNext == IntakeStep \/ IntakeFault \/ \E e \in Events : RetryNotification(e)
=============================================================================
