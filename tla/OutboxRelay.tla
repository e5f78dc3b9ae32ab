---------------------------- MODULE OutboxRelay ----------------------------
(***************************************************************************)
(* The transactional outbox and the processes that relay it to Kafka       *)
(* (outbox.repository.ts, outbox-relay.worker.ts).                         *)
(*                                                                         *)
(* A transaction that changes something adds its event to auction_outbox.  *)
(* A relay claims the oldest rows that are due by moving their available_at*)
(* to the end of a lease, which names no owner; publishes those that       *)
(* validate; and marks them.  Rows stand in the order of their commits:    *)
(* nothing depends on gaps or on the order of ids beyond the LIMIT.  The   *)
(* topics are one log; rows of the dead-letter topic, which nobody reads,  *)
(* are the set `reported' of the modules that write them.                  *)
(***************************************************************************)
EXTENDS Integers, Sequences, FiniteSets, SequencesExt, Ascending

CONSTANTS
  Events,
  Malformed,       \* events whose row does not pass validateRelayRow
  Relays,
  BatchSize        \* OUTBOX_BATCH_SIZE

ASSUME RelayAssumption ==
  /\ Malformed \subseteq Events /\ IsFiniteSet(Relays)
  /\ BatchSize \in Nat \ {0}

VARIABLES
  outbox,          \* the rows of auction_outbox
  log,             \* what Kafka has acknowledged or at least stored
  relay,           \* what each relay is doing
  \* The bounds of a behaviour, not of the code: the kinds of faults that happen
  \* in it, the numbers of faults, stops and replays, the relays and mailers that
  \* take part, the width of the consumer, what is on the log in the beginning, and
  \* the changes that the domain makes, in order.  It never changes.
  trial,
  faults, replays  \* how many there have been

relayVars == <<outbox, log, relay, trial, faults, replays>>

Rows == DOMAIN outbox
Recorded == {outbox[i].event : i \in Rows}
NewRow(e) == [event |-> e, state |-> "waiting", due |-> TRUE]
AddOutboxEvent(e) == outbox' = Append(outbox, NewRow(e))

Waiting(i) == outbox[i].state = "waiting"
\* available_at of the rows S is moved into the future.
Postponed(S) ==
  [i \in Rows |-> IF i \in S /\ Waiting(i) THEN [outbox[i] EXCEPT !.due = FALSE] ELSE outbox[i]]
Marked(S, state) ==
  [i \in Rows |-> IF i \in S /\ Waiting(i) THEN [outbox[i] EXCEPT !.state = state, !.due = FALSE] ELSE outbox[i]]

Claimable == {i \in Rows : Waiting(i) /\ outbox[i].due}
Invalid(S) == {i \in S : outbox[i].event \in Malformed}
Messages(S) == [n \in 1..Cardinality(S) |-> outbox[InOrder(S)[n]].event]

Free == [step |-> "idle", batch |-> {}]
At(r, s) == relay[r].step = s
Becomes(r, s, S) == relay' = [relay EXCEPT ![r] = [step |-> s, batch |-> S]]
Fault(kind) ==
  kind \in trial.faults /\ faults < trial.most /\ faults' = faults + 1 /\ UNCHANGED trial
NoFault == UNCHANGED <<trial, faults, replays>>

-----------------------------------------------------------------------------
RelayInit ==
  /\ log = trial.backlog
  /\ outbox = [i \in DOMAIN log |-> [NewRow(log[i]) EXCEPT !.state = "delivered", !.due = FALSE]]
  /\ faults = 0 /\ replays = 0
  /\ relay = [r \in Relays |-> Free]

\* The transaction of a change commits, its event with it.
Record(e) ==
  /\ e \notin Recorded
  /\ AddOutboxEvent(e)
  /\ UNCHANGED <<log, relay>> /\ NoFault

\* SKIP LOCKED: two claims never hold the same row, so each is one step.
ClaimOutboxRows(r) ==
  /\ At(r, "idle") /\ r \in trial.workers /\ Claimable # {}
  /\ LET batch == {i \in Claimable : Cardinality({j \in Claimable : j < i}) < BatchSize}
     IN  /\ outbox' = Postponed(batch)
         /\ Becomes(r, "validate", batch)
  /\ UNCHANGED log /\ NoFault

\* One statement for each invalid row, before anything is published.
MarkTerminal(r) ==
  /\ At(r, "validate")
  /\ \E i \in Invalid(relay[r].batch) :
       /\ outbox' = Marked({i}, "terminal")
       /\ Becomes(r, "validate", relay[r].batch \ {i})
  /\ UNCHANGED log /\ NoFault

\* sendBatch, acknowledged by every in-sync replica.
Publish(r) ==
  /\ At(r, "validate") /\ Invalid(relay[r].batch) = {}
  /\ IF relay[r].batch = {}
     THEN Becomes(r, "idle", {}) /\ UNCHANGED log
     ELSE /\ log' = log \o Messages(relay[r].batch)
          /\ Becomes(r, "mark", relay[r].batch)
  /\ UNCHANGED outbox /\ NoFault

\* An error of sendBatch says nothing of what the brokers stored.
PublishFails(r) ==
  /\ At(r, "validate") /\ Invalid(relay[r].batch) = {} /\ relay[r].batch # {}
  /\ Fault("kafka")
  /\ \E stored \in SUBSET relay[r].batch : log' = log \o Messages(stored)
  /\ Becomes(r, "retry", relay[r].batch)
  /\ UNCHANGED <<outbox, replays>>

\* delivered_at, where the row is neither delivered nor terminal.
MarkDelivered(r) ==
  /\ At(r, "mark")
  /\ outbox' = Marked(relay[r].batch, "delivered")
  /\ Becomes(r, "idle", {})
  /\ UNCHANGED log /\ NoFault

\* The statement that marks the rows fails, so they are retried.
MarkFails(r) ==
  /\ At(r, "mark") /\ Fault("database")
  /\ Becomes(r, "retry", relay[r].batch)
  /\ UNCHANGED <<outbox, log, replays>>

\* Fault: the rows of a failed batch are marked like those of the others.
RetryMarksDelivered(r) ==
  /\ At(r, "retry")
  /\ outbox' = Marked(relay[r].batch, "delivered")
  /\ Becomes(r, "idle", {})
  /\ UNCHANGED log /\ NoFault
\* Back-off, also of a row whose lease has passed to another relay.
MarkRetry(r) ==
  /\ At(r, "retry")
  /\ outbox' = Postponed(relay[r].batch)
  /\ Becomes(r, "idle", {})
  /\ UNCHANGED log /\ NoFault

\* The process ends, or an error that relayOutboxBatch does not catch.
RelayCrash(r) ==
  /\ ~At(r, "idle") /\ Fault("crash")
  /\ Becomes(r, "idle", {})
  /\ UNCHANGED <<outbox, log, replays>>

Held(i) == \E r \in Relays : i \in relay[r].batch

\* available_at passes; under a relay that still works on the row only if it is slow.
Due(i) ==
  /\ Waiting(i) /\ ~outbox[i].due
  /\ IF Held(i) THEN Fault("slow") ELSE UNCHANGED <<trial, faults>>
  /\ outbox' = [outbox EXCEPT ![i].due = TRUE]
  /\ UNCHANGED <<log, relay, replays>>

\* An administrator retries a terminal row (retryDlq).
RetryOutbox(i) ==
  /\ outbox[i].state = "terminal" /\ replays < trial.replays
  /\ outbox' = [outbox EXCEPT ![i] = NewRow(outbox[i].event)]
  /\ replays' = replays + 1
  /\ UNCHANGED <<log, relay, trial, faults>>

RelayStep(r) ==
  ClaimOutboxRows(r) \/ MarkTerminal(r) \/ Publish(r) \/ MarkDelivered(r) \/ MarkRetry(r)
RelayFault(r) == PublishFails(r) \/ MarkFails(r) \/ RelayCrash(r)
RelayNext ==
  \/ \E r \in Relays : RelayStep(r) \/ RelayFault(r)
  \/ \E i \in Rows : Due(i) \/ RetryOutbox(i)

\* What the loops and the clock do by themselves.
RelayWork == (\E r \in Relays : RelayStep(r)) \/ \E i \in Rows : ~Held(i) /\ Due(i)

-----------------------------------------------------------------------------
Settled == {outbox[i].event : i \in {j \in Rows : ~Waiting(j)}}
Channel == INSTANCE EventChannel WITH recorded <- Recorded, published <- log, settled <- Settled

Copies(e) == Cardinality({i \in DOMAIN log : log[i] = e})
=============================================================================
