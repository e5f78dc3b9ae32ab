------------------------- MODULE StreamProjection -------------------------
(***************************************************************************)
(* The projection of one auction's results stream into PostgreSQL          *)
(* (redis-stream.projector.ts).                                            *)
(*                                                                         *)
(* The stream is read through a Redis consumer group: an entry is pending  *)
(* from its delivery to its acknowledgement, may be claimed again once it  *)
(* has been idle for 30 seconds, and is deleted after its acknowledgement. *)
(* The consumers are the projector loop and the drain of a recovery, two   *)
(* loops of the same worker process.  A batch of one auction is projected  *)
(* in one transaction; if that fails, entry by entry.                      *)
(*                                                                         *)
(* Entry i is the i-th event of the auction and has sequence (and version) *)
(* i.  A transaction is one step: the unique keys on event and sequence    *)
(* make two that overlap abort.  The entries of other auctions are handled *)
(* in lanes of their own and share no state with this one.                 *)
(***************************************************************************)
EXTENDS Integers, Sequences, FiniteSets, SequencesExt, Ascending

CONSTANTS
  Event,           \* what the authority may append
  Consumers,
  Trials,          \* what may happen: the events appended, and the faults
  StartPrice, EndAt, OpeningStatus,   \* the products row at its creation
  MaxAttempts,     \* BID_PROJECTOR_MAX_ATTEMPTS
  ReadCount,       \* BID_PROJECTOR_READ_COUNT
  \* Bounds of the model, not of the code:
  MaxEvents        \* events of one auction

\* The faults still to come: how many, and of which kinds.
FaultPlan == [kinds : SUBSET {"answer", "redis", "restart", "database"}, left : Nat]

NobodyLeads == 0
TerminalStatus == {"SOLD", "ENDED", "CANCELLED"}
Status == {"PENDING", "ACTIVE"} \cup TerminalStatus

\* What the projector reads of an event.
IsEvent(e) ==
  /\ e.op \in {"BID", "BUY_NOW", "BAN", "CLOSE", "CANCEL"} /\ e.status \in Status /\ e.order \in BOOLEAN
  /\ {e.actor, e.amount, e.target, e.price, e.leader, e.endAt} \subseteq Int

\* Nothing follows the event that ends an auction (OverIsOver of AuctionAuthority).
ASSUME ProjectorAssumption ==
  /\ MaxAttempts \in Nat \ {0} /\ ReadCount \in Nat \ {0} /\ MaxEvents \in Nat
  /\ StartPrice \in Int /\ EndAt \in Int /\ OpeningStatus \in Status
  /\ \A e \in Event : IsEvent(e)
  /\ \A t \in Trials :
       /\ t.script \in Seq(Event) /\ Len(t.script) <= MaxEvents /\ t.faults \in FaultPlan
       /\ \A i \in DOMAIN t.script : t.script[i].status \in TerminalStatus => i = Len(t.script)

VARIABLES
  script,          \* what the authority is going to append
  stream,          \* every event appended so far
  delivered,       \* last-delivered-id of the group
  pending,         \* entries delivered and not acknowledged
  idle,            \* pending entries idle long enough to be claimed
  deleted,         \* entries deleted or trimmed from the stream
  retries,         \* the projector:retries hash
  dlq,             \* entries copied to the dead-letter stream
  expiring,        \* the auction's Redis keys have been given a time to live
  worker,          \* what each consumer is doing
  db,              \* the rows of the auction in PostgreSQL
  dbUp, faults

redis == <<delivered, pending, idle, deleted, retries, dlq, expiring>>
environment == <<script, stream>>
vars == <<environment, redis, worker, db, dbUp, faults>>

Entries == DOMAIN stream
Unread == {i \in Entries : i > delivered}

-----------------------------------------------------------------------------
(* The rows of one auction. *)

EmptyDb == [seq |-> 0, price |-> StartPrice, leader |-> NobodyLeads, endAt |-> EndAt,
            status |-> OpeningStatus, history |-> {}, bans |-> {}, orders |-> {},
            receipts |-> {}, outbox |-> <<>>]

HistoryRow(i, banned) ==
  [seq |-> i, user |-> stream[i].actor, max |-> stream[i].amount, banned |-> banned]
OrderRow(i) == [seq |-> i, buyer |-> stream[i].leader]
CreatesOrder(i) == stream[i].order /\ stream[i].leader # NobodyLeads
BannedBy(S) == {stream[i].target : i \in {j \in S : stream[j].op = "BAN"}}

\* Fault: the products row keeps its end time.
SnapshotKeepsEnd(d, i) ==
  [d EXCEPT !.seq = i, !.price = stream[i].price, !.leader = stream[i].leader,
            !.status = stream[i].status]
\* The products row takes over what the event says.
Snapshot(d, i) ==
  [d EXCEPT !.seq = i, !.price = stream[i].price, !.leader = stream[i].leader,
            !.endAt = stream[i].endAt, !.status = stream[i].status]

\* The rows written for one entry (projectAuctionEntry).
WithEntry(d, i) ==
  [Snapshot(d, i) EXCEPT
     !.history = {[h EXCEPT !.banned = @ \/ h.user \in BannedBy({i})] : h \in d.history}
                   \cup {HistoryRow(j, FALSE) : j \in {i} \cap {j \in Entries : stream[j].op = "BID"}},
     !.bans = @ \cup BannedBy({i}),
     !.orders = @ \cup {OrderRow(j) : j \in {i} \cap {j \in Entries : CreatesOrder(j)}},
     !.receipts = @ \cup {i},
     !.outbox = Append(@, i)]

\* The rows written for a batch (projectAuctionLane): bulk inserts, in which a
\* ban also marks the history rows collected before it, and the snapshot of the
\* last event.
WithLane(d, batch) ==
  LET S == Range(batch)
      bids == {i \in S : stream[i].op = "BID"}
      later(i) == {j \in S : j > i}
  IN  IF batch = <<>> THEN d ELSE
      [Snapshot(d, Last(batch)) EXCEPT
         !.history = {[h EXCEPT !.banned = @ \/ h.user \in BannedBy(S)] : h \in d.history}
                       \cup {HistoryRow(i, stream[i].actor \in BannedBy(later(i))) : i \in bids},
         !.bans = @ \cup BannedBy(S),
         !.orders = @ \cup {OrderRow(i) : i \in {j \in S : CreatesOrder(j)}},
         !.receipts = @ \cup S,
         !.outbox = @ \o batch]

-----------------------------------------------------------------------------
(* The consumers. *)

Resting == [step |-> "idle", lane |-> <<>>, pos |-> 0, isolated |-> FALSE]

At(c, s) == worker[c].step = s
Entry(c) == worker[c].lane[worker[c].pos]
Goto(c, s) == worker' = [worker EXCEPT ![c].step = s]
Isolate(c) == worker' = [worker EXCEPT ![c].step = "project", ![c].pos = 1, ![c].isolated = TRUE]
Abandon(c) == worker' = [worker EXCEPT ![c] = Resting]

\* To the next entry of the batch, or to the next batch.
Advance(c) ==
  IF worker[c].pos = Len(worker[c].lane) THEN Abandon(c)
  ELSE worker' = [worker EXCEPT ![c].pos = @ + 1,
                                ![c].step = IF worker[c].isolated THEN "project" ELSE "ack"]

\* A fault of the surroundings.
Fault(kind) == kind \in faults.kinds /\ faults.left > 0 /\ faults' = [faults EXCEPT !.left = @ - 1]

FirstOf(S, n) == {i \in S : Cardinality({j \in S : j < i}) < n}

\* XAUTOCLAIM.  The 30 seconds between two reclaims only delay it further.
Claim(c) ==
  /\ At(c, "idle")
  /\ LET claimed == FirstOf(idle, ReadCount)
     IN  /\ idle' = idle \ claimed
         /\ worker' = [worker EXCEPT ![c].step = "read", ![c].lane = InOrder(claimed)]
  /\ UNCHANGED <<environment, delivered, pending, deleted, retries, dlq, expiring, db, dbUp, faults>>

\* XREADGROUP of new entries, after the claimed ones in the batch.  If its answer
\* is lost they stay pending and nobody has them.
Read(c) ==
  /\ At(c, "read")
  /\ LET fresh == FirstOf(Unread, ReadCount)
         batch == worker[c].lane \o InOrder(fresh)
     IN  /\ delivered' = delivered + Cardinality(fresh)
         /\ pending' = pending \cup fresh
         /\ \/ /\ IF batch = <<>> THEN Abandon(c)
                  ELSE worker' = [worker EXCEPT ![c].step = "lane", ![c].lane = batch, ![c].pos = 1]
               /\ UNCHANGED faults
            \/ batch # <<>> /\ Abandon(c) /\ Fault("answer")
  /\ UNCHANGED <<environment, idle, deleted, retries, dlq, expiring, db, dbUp>>

\* Fault: a duplicate is noticed, the order of the rest is not.
FollowsUnordered(batch) == TRUE
\* The rolling fence: the new entries continue the projected sequence.
Follows(batch) == \A k \in DOMAIN batch : batch[k] = db.seq + k

\* The transaction over those of the batch that have no receipt, in its order, which
\* is ascending (TypeOK).  The answer to a commit may be lost.
ProjectLane(c) ==
  /\ At(c, "lane")
  /\ LET new == InOrder(Range(worker[c].lane) \ db.receipts)
     IN  \/ /\ dbUp /\ Follows(new)
            /\ db' = WithLane(db, new)
            /\ \/ Goto(c, "ack") /\ UNCHANGED faults
               \/ Isolate(c) /\ Fault("answer")
         \/ /\ ~dbUp \/ ~Follows(new)
            /\ Isolate(c)
            /\ UNCHANGED <<db, faults>>
  /\ UNCHANGED <<environment, redis, dbUp>>

Received(i) == i \in db.receipts

\* The transaction of one entry of a batch that failed.
ProjectEntry(c) ==
  /\ At(c, "project")
  /\ \/ /\ dbUp /\ Received(Entry(c))
        /\ Goto(c, "ack")
        /\ UNCHANGED <<db, faults>>
     \/ /\ dbUp /\ ~Received(Entry(c)) /\ Follows(<<Entry(c)>>)
        /\ db' = WithEntry(db, Entry(c))
        /\ \/ Goto(c, "ack") /\ UNCHANGED faults
           \/ Goto(c, "fail") /\ Fault("answer")
     \/ /\ ~dbUp \/ (~Received(Entry(c)) /\ ~Follows(<<Entry(c)>>))
        /\ Goto(c, "fail")
        /\ UNCHANGED <<db, faults>>
  /\ UNCHANGED <<environment, redis, dbUp>>

\* Fault: the first failure is the last.
GivesUpAtOnce(attempts) == TRUE
GivesUp(attempts) == attempts >= MaxAttempts

Buried(e) == dlq \cup {e}

\* recordProjectionFailure, up to the acknowledgement of a dead letter.
RecordFailure(c) ==
  /\ At(c, "fail")
  /\ LET attempts == retries[Entry(c)] + 1
     IN  /\ retries' = [retries EXCEPT ![Entry(c)] = attempts]
         /\ IF GivesUp(attempts)
            THEN dlq' = Buried(Entry(c)) /\ Goto(c, "bury")
            ELSE Advance(c) /\ UNCHANGED dlq
  /\ UNCHANGED <<environment, delivered, pending, idle, deleted, expiring, db, dbUp, faults>>

\* Whatever deletes an entry also resets its retry counter.
Forget(e) == retries' = [retries EXCEPT ![e] = 0]

\* Fault: a terminal event expires the keys although it was buried.
ExpiresAnyway(c) == stream[Entry(c)].status \in TerminalStatus
Expires(c) == At(c, "ack") /\ stream[Entry(c)].status \in TerminalStatus

\* XACK; an event that ended the auction has its keys expire first.  An entry
\* somebody else has acknowledged meanwhile is not deleted again.
Acknowledge(c) ==
  /\ At(c, "ack") \/ At(c, "bury")
  /\ pending' = pending \ {Entry(c)}
  /\ idle' = idle \ {Entry(c)}
  /\ expiring' = (expiring \/ Expires(c))
  /\ IF Entry(c) \in pending
     THEN /\ Goto(c, IF At(c, "ack") THEN "delete" ELSE "burn")
          /\ UNCHANGED retries
     ELSE Advance(c) /\ Forget(Entry(c))
  /\ UNCHANGED <<environment, delivered, deleted, dlq, db, dbUp, faults>>

\* XDEL.
Delete(c) ==
  /\ At(c, "delete") \/ At(c, "burn")
  /\ deleted' = deleted \cup {Entry(c)}
  /\ Forget(Entry(c))
  /\ Advance(c)
  /\ UNCHANGED <<environment, delivered, pending, idle, dlq, expiring, db, dbUp, faults>>

\* A Redis error while an entry is finalized fails the batch, or the entry; one
\* while a dead letter is acknowledged, or a failure recorded, ends the batch.
\* The call before the one that failed has had its effect.
RedisError(c) ==
  /\ Fault("redis")
  /\ worker[c].step \in {"ack", "delete", "bury", "burn", "fail"}
  /\ IF At(c, "ack") \/ At(c, "delete")
     THEN IF worker[c].isolated THEN Goto(c, "fail") ELSE Isolate(c)
     ELSE Abandon(c)
  /\ expiring' \in {expiring, expiring \/ Expires(c)}
  /\ deleted' \in {deleted} \cup IF At(c, "delete") \/ At(c, "burn") THEN {deleted \cup {Entry(c)}} ELSE {}
  /\ UNCHANGED <<environment, delivered, pending, idle, retries, dlq, db, dbUp>>

-----------------------------------------------------------------------------
(* The worker process and its surroundings. *)

\* Fault: compaction looks at the deliveries alone.
CompactionThresholdDelivered == delivered
\* The lowest entry compaction keeps.
CompactionThreshold ==
  IF pending = {} THEN delivered ELSE CHOOSE i \in pending : \A j \in pending : i <= j

\* The worker stops at any point and starts again, compacting the stream first.
Restart ==
  /\ Fault("restart")
  /\ worker' = [c \in Consumers |-> Resting]
  /\ deleted' = deleted \cup {i \in Entries : i < CompactionThreshold}
  /\ UNCHANGED <<environment, delivered, pending, idle, retries, dlq, expiring, db, dbUp>>

\* 30 seconds pass.
Age ==
  /\ idle # pending
  /\ idle' = pending
  /\ UNCHANGED <<environment, delivered, pending, deleted, retries, dlq, expiring, worker, db, dbUp, faults>>

Outage ==
  /\ dbUp /\ Fault("database")
  /\ dbUp' = FALSE
  /\ UNCHANGED <<environment, redis, worker, db>>

OutageEnds ==
  /\ ~dbUp
  /\ dbUp' = TRUE
  /\ UNCHANGED <<environment, redis, worker, db, faults>>

\* The authority appends the next event.
Publish ==
  /\ Len(stream) < Len(script)
  /\ stream' = Append(stream, script[Len(stream) + 1])
  /\ UNCHANGED <<script, redis, worker, db, dbUp, faults>>

-----------------------------------------------------------------------------
InitProjection ==
  /\ delivered = 0 /\ pending = {} /\ idle = {} /\ deleted = {}
  /\ retries = [i \in 1..MaxEvents |-> 0]
  /\ dlq = {} /\ expiring = FALSE
  /\ worker = [c \in Consumers |-> Resting]
  /\ db = EmptyDb
  /\ dbUp = TRUE

Init ==
  /\ \E t \in Trials : script = t.script /\ faults = t.faults
  /\ stream = <<>>
  /\ InitProjection

Work(c) ==
  \/ Claim(c)
  \/ Read(c)
  \/ ProjectLane(c)
  \/ ProjectEntry(c)
  \/ RecordFailure(c)
  \/ Acknowledge(c)
  \/ Delete(c)

Project ==
  \/ \E c \in Consumers : Work(c)
  \/ \E c \in Consumers : RedisError(c)
  \/ Restart
  \/ Age
  \/ Outage
  \/ OutageEnds

Next == Project \/ Publish

Spec == Init /\ [][Next]_vars

\* The projector loop never rests (bid-projector.worker.ts:15), idle entries
\* become claimable, and the database comes back.
Fairness ==
  /\ \A c \in Consumers : WF_vars(Work(c))
  /\ WF_vars(Age)
  /\ WF_vars(OutageEnds)

FairSpec == Spec /\ Fairness

-----------------------------------------------------------------------------
(* Properties. *)

Steps == {"idle", "read", "lane", "project", "ack", "delete", "fail", "bury", "burn"}

\* The consumer group, the workers and the rows of the auction are well formed.
TypeOK ==
  /\ delivered \in 0..Len(stream)
  /\ pending \subseteq 1..delivered /\ idle \subseteq pending
  /\ deleted \subseteq Entries /\ dlq \subseteq Entries
  /\ retries \in [1..MaxEvents -> Nat]
  /\ expiring \in BOOLEAN /\ dbUp \in BOOLEAN
  /\ \A c \in Consumers :
       worker[c].step \in Steps /\ Range(worker[c].lane) \subseteq 1..delivered /\ Ascends(worker[c].lane)
  /\ db.receipts \subseteq Entries /\ faults \in FaultPlan

Acknowledged == 1..delivered \ pending

\* Whatever the consumers, their overlaps and the faults, an entry leaves the
\* pending list only once PostgreSQL holds its receipt or the dead-letter
\* stream holds the entry.  (Commit before XACK.)
AcknowledgedIsSettled == Acknowledged \subseteq db.receipts \cup dlq

\* Neither XDEL nor the compaction at a start loses an entry that somebody has
\* yet to project.
UnsettledIsKept == deleted \cap (pending \cup Unread) = {}

\* The rows after the first n events, projected one by one.
Replayed ==
  LET rows[n \in 0..Len(stream)] == IF n = 0 THEN EmptyDb ELSE WithEntry(rows[n - 1], n)
  IN  rows

\* PostgreSQL holds each event of a prefix of the stream once, in order: the
\* product, history, bans, orders, receipts and outbox are those of a replay of
\* the prefix entry by entry, however it was batched, retried and overlapped.
ProjectionIsReplay == db = Replayed[db.seq]

\* The Redis keys of an auction expire only after PostgreSQL knows its end.
ExpiresOnlyProjected == expiring => db.status \in TerminalStatus

\* What Redis may forget: an acknowledged entry, a deleted one, the auction itself,
\* whichever of the loops forgets it, and after any faults.
NothingIsDropped == TypeOK /\ AcknowledgedIsSettled /\ UnsettledIsKept /\ ExpiresOnlyProjected

\* Every event ends up in PostgreSQL, in spite of lost answers, Redis errors,
\* restarts and the overlap of the two loops; where the database goes away it may
\* end up in the dead-letter stream instead, and nowhere else.
EveryEventIsProjected ==
  []<>(Entries \subseteq db.receipts \cup IF "database" \in faults.kinds THEN dlq ELSE {})

=============================================================================
