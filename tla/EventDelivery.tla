--------------------------- MODULE EventDelivery ---------------------------
(***************************************************************************)
(* From a change in PostgreSQL to the mails about it: the outbox and its   *)
(* relays, the notification consumer and the mailers, on one database; and *)
(* the dashboard consumer, a consumer group of its own on the same log.    *)
(***************************************************************************)
EXTENDS OutboxRelay

CONSTANTS
  Trials,          \* see OutboxRelay
  Wanted, Unresolvable, Closing, Recovery, Retried, RetryLimit,
  Undeliverable, Mailers, MaxAttempts, DashboardRetryLimit

ASSUME DeliveryAssumption ==
  /\ Wanted \subseteq Events /\ Unresolvable \subseteq Wanted
  /\ Undeliverable \subseteq Events /\ {Closing, Recovery} \subseteq Events /\ IsFiniteSet(Mailers)
  /\ \A e \in DOMAIN Retried : Retried[e] \in Events
  /\ RetryLimit \in Nat \ {0} /\ MaxAttempts \in Nat \ {0} /\ DashboardRetryLimit \in Nat \ {0}

\* What is on the log at first are valid events of other changes, and a replay has
\* an id of its own.
ASSUME TrialAssumption ==
  \A t \in Trials :
    /\ t.changes \in Seq(Events \ {Recovery}) /\ t.backlog \in Seq(Events \ {Recovery})
    /\ Range(t.backlog) \cap (Malformed \cup Range(t.changes)) = {}
    /\ \A e \in DOMAIN Retried : Retried[e] \notin Range(t.changes)
    /\ t.width \in Nat

VARIABLES
  made,            \* how many of the changes have been made
  offset, open, pass, handlers, stopping, stops, skipped,
  receipts, deliveries, announced, reported,
  mailer, mails,
  scan,            \* the recovery has read the closed auction as unannounced
  ended,           \* the products row says ENDED or SOLD
  counted, flight, board, boardReceipts, boardReported

Intake == INSTANCE NotificationIntake
Mail == INSTANCE EmailDelivery
Dashboard == INSTANCE DashboardWorker

consumerVars == <<offset, open, pass, handlers, stopping, stops, skipped>>
tableVars == <<receipts, deliveries, announced, reported>>
mailerVars == <<mailer, mails>>
domain == <<made, ended, scan>>
boardVars == <<counted, flight, board, boardReceipts, boardReported>>
notification == <<consumerVars, tableVars, mailerVars>>
vars == <<relayVars, notification, domain, boardVars>>

Init ==
  /\ trial \in Trials
  /\ RelayInit /\ Intake!IntakeInit /\ Mail!MailInit /\ Dashboard!BoardInit
  /\ made = 0 /\ ended = FALSE /\ scan = FALSE

\* The domain commits its next change; the end of the auction with its status.
Change ==
  /\ made < Len(trial.changes) /\ made' = made + 1
  /\ Record(trial.changes[made'])
  /\ ended' = (ended \/ trial.changes[made'] = Closing)
  /\ UNCHANGED <<notification, scan, boardVars>>

(* recoverLegacyAuctionNotifications, once a minute in the process of the mailers. *)

ReadUnannounced ==
  /\ ~scan /\ ended /\ ~announced
  /\ scan' = TRUE
  /\ UNCHANGED <<relayVars, notification, made, ended, boardVars>>

\* Fault: it marks the auction without making up its event.
RecoverWithoutEvent ==
  /\ scan /\ scan' = FALSE
  /\ UNCHANGED <<relayVars, notification, made, ended, boardVars>>
\* An event of its own id goes through enqueueNotificationEvent: its receipt
\* decides, not the product row, which may have been announced since.
EnqueueRecovery ==
  /\ scan /\ scan' = FALSE
  /\ IF Intake!Handled(Recovery) THEN UNCHANGED tableVars
     ELSE Intake!Enqueue(Recovery) /\ UNCHANGED reported
  /\ UNCHANGED <<relayVars, consumerVars, mailerVars, made, ended, boardVars>>

\* Nothing is recorded of an error, which ends the scan.
RecoveryFails ==
  /\ scan /\ scan' = FALSE /\ Fault("database")
  /\ UNCHANGED <<outbox, log, relay, replays, notification, made, ended, boardVars>>

RecoverLegacy == ReadUnannounced \/ EnqueueRecovery

Beside == UNCHANGED <<notification, domain, boardVars>>
BesideConsumer == UNCHANGED <<relay, mailerVars, domain, boardVars>>
BesideMailers == UNCHANGED <<outbox, log, relay, consumerVars, receipts, announced, domain, boardVars>>
BesideDashboard == UNCHANGED <<relay, notification, domain>>

Next ==
  \/ Change
  \/ RelayNext /\ Beside
  \/ Intake!IntakeNext /\ BesideConsumer
  \/ Mail!MailNext /\ BesideMailers
  \/ RecoverLegacy \/ RecoveryFails
  \/ Dashboard!BoardNext /\ BesideDashboard
Spec == Init /\ [][Next]_vars

\* Every loop works while it has something to do, no wait lasts for ever, and the
\* timer of the recovery goes on.  The domain need not change anything, nobody
\* need replay anything, and nothing need fail.
Work ==
  \/ RelayWork /\ Beside
  \/ Intake!IntakeStep /\ BesideConsumer
  \/ Mail!MailWork /\ BesideMailers
  \/ RecoverLegacy
  \/ Dashboard!BoardWork /\ BesideDashboard
FairSpec == Spec /\ WF_vars(Work)

-----------------------------------------------------------------------------
TypeOK ==
  /\ \A i \in Rows : outbox[i] \in [event : Events, state : {"waiting", "delivered", "terminal"}, due : BOOLEAN]
  /\ log \in Seq(Events) /\ offset \in 0..Len(log)
  /\ \A r \in Relays : relay[r].batch \subseteq Rows
                       /\ relay[r].step \in {"idle", "validate", "mark", "retry"}
  /\ open \in {0, 1, Intake!None}
  /\ handlers \subseteq [pass : {0, 1}, at : 1..Len(log), step : {"enqueue", "retry", "terminal"}]
  /\ receipts \in [Events -> [status : {"none", "retrying", "processed", "terminal"}, attempts : 0..RetryLimit]]
  /\ deliveries \in [Events -> [status : {"none", "pending", "leased", "sent", "terminal"}, due : BOOLEAN,
                                sent : BOOLEAN, terminal : BOOLEAN, attempts : 0..MaxAttempts]]
  /\ \A m \in Mailers : mailer[m] \in [step : {"idle", "send", "mark", "failed"}, event : Events, attempt : 0..MaxAttempts]
  /\ \A f \in Dashboard!Refreshers : flight[f] \in [step : {"none", "read", "write"}, seen : SUBSET Events]
  /\ board.step \in {"starting", "idle", "work", "await", "commit"} /\ board.offset \in 0..Len(log)
  /\ skipped \subseteq 1..Len(log) /\ reported \subseteq Events /\ Recorded \subseteq Events

\* The outbox is an at-least-once channel (docs/architecture/worker-processes.md,
\* relayOutboxBatch): what is on the log was committed with a change, and a row
\* is marked only when its event is on the log or malformed.  Every row is marked in
\* the end.
ImplementsChannel == Channel!Spec /\ Channel!NoneForgotten

\* A copy too many on the log takes a publication that was interrupted: an error
\* after the brokers stored the batch, a crash before delivered_at, or a relay
\* that outlived its lease.  Two relays alone never publish a row twice
\* (claimOutboxRows).
CopiesAreInterruptions == \A e \in Range(trial.changes) : Copies(e) <= 1 + faults

Answered(e) == deliveries[e].status # "none" \/ receipts[e].status = "terminal" \/ e \in reported
\* The offset is committed over a notifiable event only when its deliveries exist
\* or it was given up and reported, except where a stopping consumer passed it
\* over (eachBatch).
CommittedIsHandledOrSkipped ==
  \A i \in 1..offset : log[i] \in Wanted => Answered(log[i]) \/ i \in skipped

\* A receipt still says `retrying' only while its message will be read again, its
\* handler is at work, its deliveries exist, it was replayed from the dead letters
\* or passed over: the status alone is no sign of a lost event (processKafkaMessage).
RetryingIsNotLost ==
  \A e \in Events : receipts[e].status = "retrying" =>
    \/ \E i \in DOMAIN log : log[i] = e /\ i > offset
    \/ \E h \in handlers : log[h.at] = e
    \/ deliveries[e].status # "none"
    \/ e \in reported
    \/ \E i \in skipped : log[i] = e

\* What is given up is reported on the dead-letter topic in the same transaction,
\* receipts by the consumer and deliveries by the mailers.
GivenUpIsReported ==
  \A e \in Events : (receipts[e].status = "terminal" \/ deliveries[e].terminal) => e \in reported

\* Between the log and the mails nothing is dropped unrecorded.
NothingIsLost == TypeOK /\ CommittedIsHandledOrSkipped /\ RetryingIsNotLost /\ GivenUpIsReported

\* A recipient gets a mail twice only after an interruption: a crash or an error
\* between the acceptance of the mail and sent_at, or a mailer that outlived its
\* lease (deliverOne).
SecondMailIsInterruption == \A e \in Events : mails[e] <= 1 + faults

(* With the finitely many changes of a behaviour, "again and again all are" says *)
(* of each one that it eventually is.                                            *)

\* An event that the dashboard consumer gives up is reported once, although two
\* copies of it may fail at the same time (recordDashboardTerminal).
BoardReportsOnce == \A e \in Events : boardReported[e] <= 1

\* Nothing is done twice without an interruption, and reported once in any case.
TwiceOnlyIfInterrupted == CopiesAreInterruptions /\ SecondMailIsInterruption /\ BoardReportsOnce

\* An auction that ends is announced, even if its event was passed over or is
\* never published: by the consumer or by the scheduled recovery.
EveryClosingIsAnnounced == []<>(ended => announced)

\* Where a mailer runs, every delivery ends: sent or given up (runEmailDeliveryBatch).
EveryDeliveryEnds ==
  []<>(\A e \in Events : trial.workers \cap Mailers = {} \/ deliveries[e].status = "none" \/ deliveries[e].sent \/ deliveries[e].terminal)

\* Where the consumer runs, every notifiable event is answered, unless the relay
\* finds it malformed or a stopping consumer passes over a copy of it; and what is
\* answered by a mail is sent or given up.
EveryEventIsAnswered ==
  /\ EveryDeliveryEnds
  /\ []<>(\A e \in Recorded \cap Wanted :
            "intake" \in trial.workers => e \in Malformed \/ Answered(e) \/ \E i \in skipped : log[i] = e)

\* Where the dashboard worker runs, its snapshot counts every change in the end,
\* although the refresh of a batch may be one that read the tables before it: the
\* timer makes up for that.
SnapshotCatchesUp == []<>("board" \in trial.workers => Recorded \subseteq counted)

\* docs/architecture/system-overview.md:109: the outbox prevents a committed change
\* from being lost between PostgreSQL and Kafka.  The rows of a recovery carry a
\* type without a version, so the relay gives them up, and again after each retry.
EveryChangeIsPublished == []<>(\A e \in Recorded : Copies(e) > 0)
=============================================================================
