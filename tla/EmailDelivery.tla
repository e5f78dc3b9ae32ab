--------------------------- MODULE EmailDelivery ---------------------------
(***************************************************************************)
(* The delivery of mails (email-delivery.worker.ts): mailers claim rows of *)
(* email_deliveries under a lease, hand them to the SMTP server and mark   *)
(* them by their id alone, whoever holds the lease by then.                *)
(*                                                                         *)
(* A mailer is one of the rows a process works on at a time.               *)
(***************************************************************************)
EXTENDS Integers, FiniteSets

CONSTANTS
  Events,
  Undeliverable,   \* events whose recipient the SMTP server refuses
  Mailers,
  MaxAttempts      \* EMAIL_DELIVERY_MAX_ATTEMPTS

VARIABLES
  deliveries,
  mailer,          \* what each mailer is doing
  mails,           \* the mails the server has accepted for each delivery
  reported,        \* deliveries with a row on the dead-letter topic
  trial, faults, replays   \* see OutboxRelay

mailVars == <<deliveries, mailer, mails, reported, trial, faults, replays>>

Resting == [step |-> "idle", event |-> CHOOSE e \in Events : TRUE, attempt |-> 0]

MailInit ==
  /\ mailer = [m \in Mailers |-> Resting]
  /\ mails = [e \in Events |-> 0]

At(m, s) == mailer[m].step = s
Row(m) == mailer[m].event
Becomes(m, s) == mailer' = [mailer EXCEPT ![m].step = s]
Rest(m) == mailer' = [mailer EXCEPT ![m] = Resting]
Fault(kind) ==
  kind \in trial.faults /\ faults < trial.most /\ faults' = faults + 1 /\ UNCHANGED <<trial, replays>>
NoFault == UNCHANGED <<trial, faults, replays>>

-----------------------------------------------------------------------------
Claimable(e) ==
  /\ ~deliveries[e].terminal /\ ~deliveries[e].sent
  /\ deliveries[e].status \in {"pending", "leased"} /\ deliveries[e].due

\* Fault: the claim sets no lease.
ClaimWithoutLease(m, e) ==
  /\ At(m, "idle") /\ m \in trial.workers /\ Claimable(e)
  /\ deliveries' = [deliveries EXCEPT ![e].status = "leased",
                                      ![e].attempts = IF @ < MaxAttempts THEN @ + 1 ELSE @]
  /\ mailer' = [mailer EXCEPT ![m] = [step |-> "send", event |-> e, attempt |-> deliveries'[e].attempts]]
  /\ UNCHANGED <<mails, reported>> /\ NoFault
\* The lease is the time at which a leased row can be claimed again.
ClaimDelivery(m, e) ==
  /\ At(m, "idle") /\ m \in trial.workers /\ Claimable(e)
  /\ deliveries' = [deliveries EXCEPT ![e].status = "leased", ![e].due = FALSE,
                                      ![e].attempts = IF @ < MaxAttempts THEN @ + 1 ELSE @]
  /\ mailer' = [mailer EXCEPT ![m] = [step |-> "send", event |-> e, attempt |-> deliveries'[e].attempts]]
  /\ UNCHANGED <<mails, reported>> /\ NoFault

\* deliverMail.
Send(m) ==
  /\ At(m, "send")
  /\ IF Row(m) \in Undeliverable
     THEN Becomes(m, "failed") /\ UNCHANGED mails
     ELSE Becomes(m, "mark") /\ mails' = [mails EXCEPT ![Row(m)] = @ + 1]
  /\ UNCHANGED <<deliveries, reported>> /\ NoFault

\* The connection breaks before or after the server has accepted the mail.
SendFails(m) ==
  /\ At(m, "send") /\ Fault("smtp")
  /\ \E accepted \in {0, 1} : mails' = [mails EXCEPT ![Row(m)] = @ + accepted]
  /\ Becomes(m, "failed")
  /\ UNCHANGED <<deliveries, reported>>

MarkSent(m) ==
  /\ At(m, "mark")
  /\ deliveries' = [deliveries EXCEPT ![Row(m)].status = "sent", ![Row(m)].sent = TRUE]
  /\ Rest(m)
  /\ UNCHANGED <<mails, reported>> /\ NoFault

\* The mark is inside of the same try.
MarkFails(m) ==
  /\ At(m, "mark") /\ Fault("database")
  /\ Becomes(m, "failed")
  /\ UNCHANGED <<deliveries, mails, reported>>

\* markDeliveryFailure: the row is given up and reported, or waits for its retry.
MarkDeliveryFailure(m) ==
  /\ At(m, "failed")
  /\ IF mailer[m].attempt >= MaxAttempts
     THEN /\ deliveries' = [deliveries EXCEPT ![Row(m)].status = "terminal", ![Row(m)].terminal = TRUE]
          /\ reported' = reported \cup {Row(m)}
     ELSE /\ deliveries' = [deliveries EXCEPT ![Row(m)].status = "pending", ![Row(m)].due = FALSE]
          /\ UNCHANGED reported
  /\ Rest(m)
  /\ UNCHANGED <<mails>> /\ NoFault

\* The process ends, or the failure cannot be recorded: the row stays leased.
MailerCrash(m) ==
  /\ ~At(m, "idle") /\ Fault("crash")
  /\ Rest(m)
  /\ UNCHANGED <<deliveries, mails, reported>>

Held(e) == \E m \in Mailers : ~At(m, "idle") /\ Row(m) = e

\* available_at or lease_until passes; under a mailer at work only if it is slow.
DeliveryDue(e) ==
  /\ deliveries[e].status \in {"pending", "leased"} /\ ~deliveries[e].due
  /\ ~deliveries[e].sent /\ ~deliveries[e].terminal
  /\ IF Held(e) THEN Fault("slow") ELSE NoFault
  /\ deliveries' = [deliveries EXCEPT ![e].due = TRUE]
  /\ UNCHANGED <<mailer, mails, reported>>

MailerStep(m) ==
  \/ \E e \in Events : ClaimDelivery(m, e)
  \/ Send(m) \/ MarkSent(m) \/ MarkDeliveryFailure(m)
MailerFault(m) == SendFails(m) \/ MarkFails(m) \/ MailerCrash(m)
MailNext ==
  \/ \E m \in Mailers : MailerStep(m) \/ MailerFault(m)
  \/ \E e \in Events : DeliveryDue(e)

\* What the loops and the clock do by themselves.
MailWork == (\E m \in Mailers : MailerStep(m)) \/ \E e \in Events : ~Held(e) /\ DeliveryDue(e)
=============================================================================
