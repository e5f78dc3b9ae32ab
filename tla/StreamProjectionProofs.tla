----------------------- MODULE StreamProjectionProofs -----------------------
(***************************************************************************)
(* Theorems about the projection of a results stream, for any number of    *)
(* consumers, any script of events, and any faults: that nothing is        *)
(* dropped on the way, and that the rows are those of a replay.            *)
(***************************************************************************)
EXTENDS StreamProjection, AscendingProofs, SequenceTheorems

-----------------------------------------------------------------------------
(* The types, and what a consumer carries from call to call. *)

EventsInv ==
  /\ script \in Seq(Event) /\ Len(script) <= MaxEvents
  /\ \A i \in DOMAIN script : script[i].status \in TerminalStatus => i = Len(script)
  /\ stream \in Seq(Event) /\ Len(stream) <= Len(script)
  /\ \A i \in DOMAIN stream : stream[i] = script[i]

GroupTypes ==
  /\ delivered \in 0..Len(stream)
  /\ pending \subseteq 1..delivered /\ idle \subseteq pending
  /\ deleted \subseteq (1..delivered) \ pending /\ dlq \subseteq 1..delivered
  /\ retries \in [1..MaxEvents -> Nat]
  /\ expiring \in BOOLEAN /\ dbUp \in BOOLEAN /\ faults \in FaultPlan

WorkerRecord == [step : Steps, lane : Seq(Nat), pos : Nat, isolated : BOOLEAN]
WorkerTypes == worker \in [Consumers -> WorkerRecord]

HistoryRecord == [seq : Nat, user : Int, max : Int, banned : BOOLEAN]
OrderRecord == [seq : Nat, buyer : Int]
DbRecord ==
  [seq : Nat, price : Int, leader : Int, endAt : Int, status : Status,
   history : SUBSET HistoryRecord, bans : SUBSET Int, orders : SUBSET OrderRecord,
   receipts : SUBSET Nat, outbox : Seq(Nat)]

\* The rows are those of a prefix of what has been delivered, and the keys expire
\* only behind the last event there can be.
DbInv ==
  /\ db \in DbRecord
  /\ db.seq <= delivered /\ db.receipts = 1..db.seq
  /\ db.seq > 0 => db.status = stream[db.seq].status
  /\ expiring => db.seq > 0 /\ stream[db.seq].status \in TerminalStatus

\* An entry is acknowledged with its receipt or its dead letter in place, and
\* deleted once it is no longer pending.  A batch in which that is not known of
\* every entry is worked off one entry at a time.
Carries(c) ==
  /\ Range(worker[c].lane) \subseteq 1..delivered /\ Ascends(worker[c].lane)
  /\ worker[c].step \notin {"idle", "read"} => worker[c].pos \in 1..Len(worker[c].lane)
  /\ worker[c].step \in {"idle", "read", "lane"} => ~worker[c].isolated
  /\ worker[c].step \in {"project", "fail", "bury", "burn"} => worker[c].isolated
  /\ worker[c].step \in {"ack", "delete"} =>
       Entry(c) \in db.receipts /\ (worker[c].isolated \/ Range(worker[c].lane) \subseteq db.receipts)
  /\ worker[c].step \in {"bury", "burn"} => Entry(c) \in dlq
  /\ worker[c].step \in {"delete", "burn"} => Entry(c) \notin pending

WorkersInv == WorkerTypes /\ \A c \in Consumers : Carries(c)

GroupInv == GroupTypes /\ AcknowledgedIsSettled
ProjectionInv == EventsInv /\ GroupInv /\ DbInv /\ WorkersInv

\* Nothing has been delivered of a stream without an event.
LEMMA GroupStarts ==
  ASSUME EventsInv, InitProjection, faults \in FaultPlan, stream = <<>>
  PROVE  ProjectionInv
<1>1. GroupInv
  <2>1. MaxEvents \in Nat /\ Len(<<>>) = 0
    BY ProjectorAssumption
  <2>2. GroupTypes
    <3>1. delivered = 0 /\ delivered \in 0..Len(stream)
      BY <2>1 DEF InitProjection
    <3>2. pending = {} /\ idle = {} /\ deleted = {} /\ dlq = {}
      BY DEF InitProjection
    <3>3. retries \in [1..MaxEvents -> Nat]
      BY DEF InitProjection
    <3>4. expiring = FALSE /\ dbUp = TRUE
      BY DEF InitProjection
    <3> QED BY <3>1, <3>2, <3>3, <3>4 DEF GroupTypes
  <2>3. AcknowledgedIsSettled
    BY DEF InitProjection, AcknowledgedIsSettled, Acknowledged
  <2> QED BY <2>2, <2>3 DEF GroupInv
<1>2. DbInv
  BY ProjectorAssumption DEF InitProjection, DbInv, DbRecord, EmptyDb, NobodyLeads
<1>3. WorkersInv
  BY DEF InitProjection, WorkersInv, WorkerTypes, WorkerRecord, Resting, Carries, Steps, Range, Ascends
<1> QED BY <1>1, <1>2, <1>3 DEF ProjectionInv

LEMMA ProjectionStarts == Init => ProjectionInv
<1> SUFFICES ASSUME Init PROVE ProjectionInv
  OBVIOUS
<1>1. EventsInv
  BY ProjectorAssumption DEF Init, EventsInv
<1>2. PICK t \in Trials : faults = t.faults
  BY DEF Init
<1>3. faults \in FaultPlan
  BY <1>2, ProjectorAssumption
<1> QED BY <1>1, <1>3, GroupStarts DEF Init

-----------------------------------------------------------------------------
(* The worker's moves. *)

LEMMA Went ==
  ASSUME WorkerTypes, NEW c \in Consumers, NEW s \in Steps, Goto(c, s)
  PROVE  /\ WorkerTypes' /\ \A d \in Consumers \ {c} : worker'[d] = worker[d]
         /\ worker'[c].step = s /\ worker'[c].lane = worker[c].lane
         /\ worker'[c].pos = worker[c].pos /\ worker'[c].isolated = worker[c].isolated
BY DEF WorkerTypes, WorkerRecord, Goto

LEMMA IsolatedIt ==
  ASSUME WorkerTypes, NEW c \in Consumers, Isolate(c)
  PROVE  /\ WorkerTypes' /\ \A d \in Consumers \ {c} : worker'[d] = worker[d]
         /\ worker'[c].step = "project" /\ worker'[c].lane = worker[c].lane
         /\ worker'[c].pos = 1 /\ worker'[c].isolated = TRUE
BY DEF WorkerTypes, WorkerRecord, Isolate, Steps

LEMMA RestingIsRight ==
  ASSUME NEW c \in Consumers, worker'[c] = Resting
  PROVE  Carries(c)'
BY DEF Resting, Carries, Range, Ascends

LEMMA Abandoned ==
  ASSUME WorkerTypes, NEW c \in Consumers, Abandon(c)
  PROVE  /\ WorkerTypes' /\ \A d \in Consumers \ {c} : worker'[d] = worker[d]
         /\ worker'[c] = Resting
<1>1. Resting \in WorkerRecord
  BY DEF Resting, WorkerRecord, Steps
<1> QED BY <1>1 DEF WorkerTypes, Abandon

\* What a consumer carries stays right while the group and the rows move on.
GroupMovesOn ==
  /\ 1..delivered \subseteq 1..delivered' /\ db.receipts \subseteq db'.receipts /\ dlq \subseteq dlq'
  /\ \A i \in 1..delivered : i \in pending' => i \in pending

LEMMA StaysRight ==
  ASSUME WorkerTypes, NEW c \in Consumers, Carries(c), worker'[c] = worker[c], GroupMovesOn
  PROVE  Carries(c)'
<1>1. worker[c] \in WorkerRecord
  BY DEF WorkerTypes
<1>2. worker[c].step \notin {"idle", "read"} => Entry(c) \in 1..delivered
  BY <1>1 DEF Carries, Range, WorkerRecord, Entry
<1>3. Entry(c)' = Entry(c)
  BY DEF Entry
<1> QED BY <1>2, <1>3 DEF Carries, GroupMovesOn

LEMMA EntryIsDelivered ==
  ASSUME WorkerTypes, NEW c \in Consumers, Carries(c), worker[c].step \notin {"idle", "read"}
  PROVE  Entry(c) \in 1..delivered /\ Entry(c) \in Range(worker[c].lane)
<1>1. worker[c] \in WorkerRecord
  BY DEF WorkerTypes
<1> QED BY <1>1 DEF Carries, Range, WorkerRecord, Entry

\* To the next entry, of a batch of which nothing has been projected in one piece,
\* or all of it.
LEMMA Advanced ==
  ASSUME WorkerTypes, NEW c \in Consumers, Carries(c), worker[c].step \notin {"idle", "read", "lane"},
         Advance(c), GroupMovesOn
  PROVE  /\ WorkerTypes' /\ \A d \in Consumers \ {c} : worker'[d] = worker[d]
         /\ Carries(c)'
<1>1. worker[c] \in WorkerRecord
  BY DEF WorkerTypes
<1>2. CASE worker[c].pos = Len(worker[c].lane)
  <2>1. Abandon(c)
    BY <1>2 DEF Advance
  <2> QED BY <2>1, Abandoned, RestingIsRight
<1>3. CASE worker[c].pos # Len(worker[c].lane)
  <2> DEFINE s == IF worker[c].isolated THEN "project" ELSE "ack"
  <2>1. worker' = [worker EXCEPT ![c].pos = @ + 1, ![c].step = s]
    BY <1>3 DEF Advance
  <2>2. /\ WorkerTypes' /\ \A d \in Consumers \ {c} : worker'[d] = worker[d]
        /\ worker'[c].step = s /\ worker'[c].lane = worker[c].lane
        /\ worker'[c].pos = worker[c].pos + 1 /\ worker'[c].isolated = worker[c].isolated
    <3>1. s \in Steps
      BY DEF Steps
    <3> HIDE DEF s
    <3>2. worker'[c] = [worker[c] EXCEPT !.pos = @ + 1, !.step = s]
      BY <2>1 DEF WorkerTypes
    <3>3. \A d \in Consumers \ {c} : worker'[d] = worker[d]
      BY <2>1 DEF WorkerTypes
    <3>4. worker'[c] \in WorkerRecord
      <4>1. worker[c].pos + 1 \in Nat
        BY <1>1 DEF WorkerRecord
      <4>2. [worker[c] EXCEPT !.pos = @ + 1] \in WorkerRecord
        BY <1>1, <4>1 DEF WorkerRecord
      <4> QED BY <1>1, <3>1, <3>2, <4>1, <4>2 DEF WorkerRecord
    <3>5. WorkerTypes'
      BY <2>1, <3>3, <3>4 DEF WorkerTypes
    <3> QED BY <1>1, <3>2, <3>3, <3>5 DEF WorkerRecord
  <2>3. worker'[c].pos \in 1..Len(worker'[c].lane)
    <3>1. worker[c].pos \in 1..Len(worker[c].lane)
      BY DEF Carries
    <3>2. Len(worker[c].lane) \in Nat
      BY <1>1 DEF WorkerRecord
    <3> QED BY <1>3, <2>2, <3>1, <3>2
  <2>4. ~worker[c].isolated => Range(worker[c].lane) \subseteq db.receipts
    BY <1>1 DEF Carries, Steps, WorkerRecord
  <2>5. Entry(c)' \in Range(worker[c].lane)
    BY <1>1, <2>2, <2>3 DEF Entry, Range, WorkerRecord
  <2> QED BY <1>1, <2>2, <2>3, <2>4, <2>5 DEF Carries, GroupMovesOn, WorkerRecord
<1> QED BY <1>2, <1>3

-----------------------------------------------------------------------------
(* What is read, and what compaction keeps. *)

\* A read delivers the next entries, without a gap.
LEMMA FreshIs ==
  ASSUME EventsInv, GroupTypes, NEW fresh, fresh = FirstOf(Unread, ReadCount)
  PROVE  /\ Cardinality(fresh) \in Nat
         /\ delivered + Cardinality(fresh) <= Len(stream)
         /\ fresh = (delivered + 1)..(delivered + Cardinality(fresh))
<1>1. Len(stream) \in Nat /\ delivered \in Nat /\ delivered <= Len(stream) /\ ReadCount \in Nat \ {0}
  BY ProjectorAssumption DEF EventsInv, GroupTypes
<1>2. Unread = (delivered + 1)..Len(stream)
  BY <1>1 DEF Unread, Entries, EventsInv
<1> DEFINE m == IF ReadCount <= Len(stream) - delivered THEN ReadCount ELSE Len(stream) - delivered
<1>3. m \in Nat /\ delivered + m <= Len(stream)
  BY <1>1
<1>4. \A i \in Unread : Cardinality({j \in Unread : j < i}) = i - 1 - delivered
  <2> SUFFICES ASSUME NEW i \in Unread PROVE Cardinality({j \in Unread : j < i}) = i - 1 - delivered
    OBVIOUS
  <2>1. i \in Int /\ delivered + 1 <= i /\ i <= Len(stream)
    BY <1>1, <1>2
  <2>2. {j \in Unread : j < i} = (delivered + 1)..(i - 1)
    BY <1>1, <1>2, <2>1
  <2>3. delivered + 1 \in Int /\ i - 1 \in Int
    BY <1>1, <2>1
  <2>4. Cardinality((delivered + 1)..(i - 1)) =
          IF delivered + 1 > i - 1 THEN 0 ELSE (i - 1) - (delivered + 1) + 1
    BY <2>3, FS_Interval
  <2>5. (IF delivered + 1 > i - 1 THEN 0 ELSE (i - 1) - (delivered + 1) + 1) = i - 1 - delivered
    BY <1>1, <2>1
  <2> QED BY <2>2, <2>4, <2>5
<1>5. fresh = (delivered + 1)..(delivered + m)
  <2>1. fresh = {i \in Unread : i - 1 - delivered < ReadCount}
    BY <1>4 DEF FirstOf
  <2>2. \A i : i \in fresh <=> i \in (delivered + 1)..Len(stream) /\ i - 1 - delivered < ReadCount
    BY <1>2, <2>1
  <2>3. \A i : i \in fresh <=> i \in (delivered + 1)..(delivered + m)
    BY <1>1, <2>2
  <2> QED BY <2>3
<1>6. delivered + 1 \in Int /\ delivered + m \in Int
  BY <1>1, <1>3
<1>7. Cardinality(fresh) = IF delivered + 1 > delivered + m THEN 0 ELSE (delivered + m) - (delivered + 1) + 1
  BY <1>5, <1>6, FS_Interval
<1> HIDE DEF m
<1>8. Cardinality(fresh) = m
  <2>1. CASE m = 0
    BY <1>1, <1>7, <2>1
  <2>2. CASE m > 0
    <3>1. ~(delivered + 1 > delivered + m) /\ (delivered + m) - (delivered + 1) + 1 = m
      BY <1>1, <1>3, <2>2
    <3> QED BY <1>7, <3>1
  <2> QED BY <1>3, <2>1, <2>2
<1> QED BY <1>3, <1>5, <1>8

LEMMA ThresholdIs ==
  ASSUME EventsInv, GroupTypes, NEW i \in Entries, i < CompactionThreshold
  PROVE  i \in (1..delivered) \ pending
<1>1. delivered \in Nat /\ i \in Nat \ {0}
  BY DEF EventsInv, GroupTypes, Entries
<1>2. CASE pending = {}
  BY <1>1, <1>2 DEF CompactionThreshold
<1>3. CASE pending # {}
  <2>1. pending \subseteq Nat
    BY <1>1 DEF GroupTypes
  <2>2. \E n \in pending : \A m \in pending : n <= m
    BY <1>3, <2>1, Least
  <2>3. CompactionThreshold \in pending /\ \A j \in pending : CompactionThreshold <= j
    BY <1>3, <2>2 DEF CompactionThreshold
  <2>4. CompactionThreshold \in 1..delivered
    BY <2>3 DEF GroupTypes
  <2> QED BY <1>1, <2>1, <2>3, <2>4
<1> QED BY <1>2, <1>3

-----------------------------------------------------------------------------
(* The rows of one entry, and those of a batch. *)

LEMMA EventIs ==
  ASSUME EventsInv, NEW i \in Entries
  PROVE  i \in Nat \ {0} /\ i <= Len(stream) /\ stream[i] \in Event /\ IsEvent(stream[i])
BY ProjectorAssumption DEF EventsInv, Entries

LEMMA SnapshotIs ==
  ASSUME EventsInv, NEW d \in DbRecord, NEW i \in Entries
  PROVE  /\ Snapshot(d, i) \in DbRecord
         /\ Snapshot(d, i).seq = i /\ Snapshot(d, i).price = stream[i].price
         /\ Snapshot(d, i).leader = stream[i].leader /\ Snapshot(d, i).endAt = stream[i].endAt
         /\ Snapshot(d, i).status = stream[i].status /\ Snapshot(d, i).history = d.history
         /\ Snapshot(d, i).bans = d.bans /\ Snapshot(d, i).orders = d.orders
         /\ Snapshot(d, i).receipts = d.receipts /\ Snapshot(d, i).outbox = d.outbox
<1>1. i \in Nat /\ IsEvent(stream[i])
  BY EventIs
<1> QED BY <1>1 DEF Snapshot, DbRecord, IsEvent

\* A ban among the entries of S marks the history rows that are there already, and
\* of those of S the ones before it.
Marked(h, users) == [h EXCEPT !.banned = @ \/ h.user \in users]
Banned(d, S) == {Marked(h, BannedBy(S)) : h \in d.history}
BidsOf(S) == {i \in S : stream[i].op = "BID"}
RowOf(i, S) == HistoryRow(i, stream[i].actor \in BannedBy({j \in S : j > i}))

LEMMA BannedByIs ==
  ASSUME EventsInv, NEW S \in SUBSET Entries
  PROVE  BannedBy(S) \in SUBSET Int
BY EventIs DEF BannedBy, IsEvent

LEMMA MarkedIs ==
  ASSUME NEW h \in HistoryRecord, NEW users
  PROVE  Marked(h, users) \in HistoryRecord
<1> DEFINE b == h.banned \/ h.user \in users
<1>1. b \in BOOLEAN
  OBVIOUS
<1>2. Marked(h, users) = [h EXCEPT !.banned = b]
  BY DEF Marked
<1> HIDE DEF b
<1> QED BY <1>1, <1>2 DEF HistoryRecord

LEMMA BannedIs ==
  ASSUME NEW d \in DbRecord, NEW S
  PROVE  Banned(d, S) \in SUBSET HistoryRecord
BY MarkedIs DEF Banned, DbRecord

LEMMA HistoryRowIs ==
  ASSUME EventsInv, NEW i \in Entries, NEW b \in BOOLEAN
  PROVE  HistoryRow(i, b) \in HistoryRecord
BY EventIs DEF HistoryRow, HistoryRecord, IsEvent

LEMMA OrderRowIs ==
  ASSUME EventsInv, NEW i \in Entries
  PROVE  OrderRow(i) \in OrderRecord
BY EventIs DEF OrderRow, OrderRecord, IsEvent

LEMMA RowsIn ==
  ASSUME NEW x \in DbRecord, NEW h \in SUBSET HistoryRecord, NEW b \in SUBSET Int,
         NEW o \in SUBSET OrderRecord, NEW r \in SUBSET Nat, NEW q \in Seq(Nat)
  PROVE  [x EXCEPT !.history = h, !.bans = b, !.orders = o, !.receipts = r, !.outbox = q] \in DbRecord
BY DEF DbRecord

\* e is d with the rows of entry i.
HasEntry(e, d, i) ==
  /\ e \in DbRecord
  /\ e.seq = i /\ e.price = stream[i].price /\ e.leader = stream[i].leader
  /\ e.endAt = stream[i].endAt /\ e.status = stream[i].status
  /\ e.history = Banned(d, {i}) \cup {HistoryRow(j, FALSE) : j \in {i} \cap {j \in Entries : stream[j].op = "BID"}}
  /\ e.bans = d.bans \cup BannedBy({i})
  /\ e.orders = d.orders \cup {OrderRow(j) : j \in {i} \cap {j \in Entries : CreatesOrder(j)}}
  /\ e.receipts = d.receipts \cup {i} /\ e.outbox = Append(d.outbox, i)

LEMMA EntryIs ==
  ASSUME EventsInv, NEW d \in DbRecord, NEW i \in Entries
  PROVE  HasEntry(WithEntry(d, i), d, i)
<1> SUFFICES ASSUME NEW e, e = WithEntry(d, i) PROVE HasEntry(e, d, i)
  OBVIOUS
<1> DEFINE x == Snapshot(d, i)
           H == Banned(d, {i}) \cup {HistoryRow(j, FALSE) : j \in {i} \cap {j \in Entries : stream[j].op = "BID"}}
           O == {OrderRow(j) : j \in {i} \cap {j \in Entries : CreatesOrder(j)}}
           B == BannedBy({i})
<1>1. /\ x \in DbRecord /\ x.seq = i /\ x.price = stream[i].price
      /\ x.leader = stream[i].leader /\ x.endAt = stream[i].endAt
      /\ x.status = stream[i].status
      /\ x.bans = d.bans /\ x.orders = d.orders
      /\ x.receipts = d.receipts /\ x.outbox = d.outbox
  BY SnapshotIs
<1>2. e = [x EXCEPT !.history = H, !.bans = @ \cup B, !.orders = @ \cup O,
                    !.receipts = @ \cup {i}, !.outbox = Append(@, i)]
  BY DEF WithEntry, Banned, Marked
<1>3. H \in SUBSET HistoryRecord /\ B \in SUBSET Int /\ O \in SUBSET OrderRecord
  <2>1. Banned(d, {i}) \in SUBSET HistoryRecord /\ B \in SUBSET Int
    BY BannedIs, BannedByIs
  <2> QED BY <2>1, HistoryRowIs, OrderRowIs
<1>4. i \in Nat
  BY EventIs
<1>5. /\ d.bans \cup B \in SUBSET Int /\ d.orders \cup O \in SUBSET OrderRecord
      /\ d.receipts \cup {i} \in SUBSET Nat /\ Append(d.outbox, i) \in Seq(Nat)
  <2>1. /\ d.bans \in SUBSET Int /\ d.orders \in SUBSET OrderRecord
        /\ d.receipts \in SUBSET Nat /\ d.outbox \in Seq(Nat)
    BY DEF DbRecord
  <2> HIDE DEF H, O, B
  <2>2. Append(d.outbox, i) \in Seq(Nat)
    BY <1>4, <2>1
  <2> QED BY <1>3, <1>4, <2>1, <2>2
<1>6. H = Banned(d, {i}) \cup {HistoryRow(j, FALSE) : j \in {i} \cap {j \in Entries : stream[j].op = "BID"}}
  OBVIOUS
<1>7. /\ B = BannedBy({i})
      /\ O = {OrderRow(j) : j \in {i} \cap {j \in Entries : CreatesOrder(j)}}
  OBVIOUS
<1> HIDE DEF x, H, O, B
<1>8. /\ e.seq = x.seq /\ e.price = x.price /\ e.leader = x.leader
      /\ e.endAt = x.endAt /\ e.status = x.status
      /\ e.history = H /\ e.bans = x.bans \cup B /\ e.orders = x.orders \cup O
      /\ e.receipts = x.receipts \cup {i} /\ e.outbox = Append(x.outbox, i)
  BY <1>1, <1>2 DEF DbRecord
<1>9. e \in DbRecord
  <2>1. /\ x.bans \cup B \in SUBSET Int /\ x.orders \cup O \in SUBSET OrderRecord
        /\ x.receipts \cup {i} \in SUBSET Nat /\ Append(x.outbox, i) \in Seq(Nat)
    BY <1>1, <1>5
  <2>2. e = [x EXCEPT !.history = H, !.bans = x.bans \cup B, !.orders = x.orders \cup O,
                      !.receipts = x.receipts \cup {i}, !.outbox = Append(x.outbox, i)]
    BY <1>2
  <2>3. [x EXCEPT !.history = H, !.bans = x.bans \cup B, !.orders = x.orders \cup O,
                  !.receipts = x.receipts \cup {i}, !.outbox = Append(x.outbox, i)] \in DbRecord
    <3>1. x \in DbRecord
      BY <1>1
    <3> QED BY <3>1, <1>3, <2>1, RowsIn, Zenon
  <2> QED BY <2>2, <2>3
<1> QED BY <1>1, <1>6, <1>7, <1>8, <1>9 DEF HasEntry

\* e has the rows of d and those of the entries of S, which are those of batch.
HasRows(e, d, batch, S) ==
  /\ e.history = Banned(d, S) \cup {RowOf(i, S) : i \in BidsOf(S)}
  /\ e.bans = d.bans \cup BannedBy(S)
  /\ e.orders = d.orders \cup {OrderRow(i) : i \in {j \in S : CreatesOrder(j)}}
  /\ e.receipts = d.receipts \cup S /\ e.outbox = d.outbox \o batch

\* e is d with the rows of the n entries after those d has.
HasLane(e, d, batch, n, S) ==
  /\ e \in DbRecord /\ HasRows(e, d, batch, S)
  /\ e.seq = d.seq + n /\ e.price = stream[d.seq + n].price /\ e.leader = stream[d.seq + n].leader
  /\ e.endAt = stream[d.seq + n].endAt /\ e.status = stream[d.seq + n].status

LEMMA LaneIs ==
  ASSUME EventsInv, NEW d \in DbRecord, NEW batch \in Seq(Nat), NEW n \in Nat \ {0}, n = Len(batch),
         \A k \in 1..n : batch[k] = d.seq + k, d.seq + n <= Len(stream)
  PROVE  HasLane(WithLane(d, batch), d, batch, n, (d.seq + 1)..(d.seq + n))
<1> SUFFICES ASSUME NEW e, e = WithLane(d, batch), NEW S, S = (d.seq + 1)..(d.seq + n)
             PROVE  HasLane(e, d, batch, n, S)
  OBVIOUS
<1>1. d.seq \in Nat /\ Len(stream) \in Nat /\ Entries = 1..Len(stream)
  BY DEF DbRecord, EventsInv, Entries
<1>2. S \in SUBSET Entries /\ d.seq + n \in Entries
  BY <1>1
<1>3. Range(batch) = S
  <2>1. DOMAIN batch = 1..n
    BY LenProperties
  <2>2. \A k \in 1..n : batch[k] \in S
    BY <1>1
  <2>3. \A i \in S : i - d.seq \in 1..n /\ batch[i - d.seq] = i
    BY <1>1
  <2> QED BY <2>1, <2>2, <2>3 DEF Range
<1>4. batch # <<>> /\ Last(batch) = d.seq + n
  BY <1>1, EmptySeq DEF Last
<1> DEFINE m == d.seq + n
           x == Snapshot(d, m)
           H == Banned(d, S) \cup {RowOf(i, S) : i \in BidsOf(S)}
           O == {OrderRow(i) : i \in {j \in S : CreatesOrder(j)}}
           B == BannedBy(S)
<1>5. /\ x \in DbRecord /\ x.seq = m /\ x.price = stream[m].price
      /\ x.leader = stream[m].leader /\ x.endAt = stream[m].endAt
      /\ x.status = stream[m].status
      /\ x.bans = d.bans /\ x.orders = d.orders
      /\ x.receipts = d.receipts /\ x.outbox = d.outbox
  BY <1>2, SnapshotIs
<1>6. e = [x EXCEPT !.history = H, !.bans = @ \cup B, !.orders = @ \cup O,
                    !.receipts = @ \cup S, !.outbox = @ \o batch]
  BY <1>3, <1>4 DEF WithLane, Banned, Marked, RowOf, BidsOf
<1>7. H \in SUBSET HistoryRecord /\ B \in SUBSET Int /\ O \in SUBSET OrderRecord
  <2>1. Banned(d, S) \in SUBSET HistoryRecord /\ B \in SUBSET Int
    BY <1>2, BannedIs, BannedByIs
  <2>2. \A i \in BidsOf(S) : RowOf(i, S) \in HistoryRecord
    <3> SUFFICES ASSUME NEW i \in S, NEW b, b = (stream[i].actor \in BannedBy({j \in S : j > i}))
                 PROVE  HistoryRow(i, b) \in HistoryRecord
      BY DEF RowOf, BidsOf
    <3>1. b \in BOOLEAN /\ i \in Entries
      BY <1>2
    <3> QED BY <3>1, HistoryRowIs
  <2>3. \A i \in S : OrderRow(i) \in OrderRecord
    BY <1>2, OrderRowIs
  <2> QED BY <2>1, <2>2, <2>3
<1>8. /\ d.bans \cup B \in SUBSET Int /\ d.orders \cup O \in SUBSET OrderRecord
      /\ d.receipts \cup S \in SUBSET Nat /\ d.outbox \o batch \in Seq(Nat)
  <2>1. /\ d.bans \in SUBSET Int /\ d.orders \in SUBSET OrderRecord
        /\ d.receipts \in SUBSET Nat /\ d.outbox \in Seq(Nat)
    BY DEF DbRecord
  <2> HIDE DEF H, O, B
  <2>2. d.outbox \o batch \in Seq(Nat)
    BY <2>1, ConcatProperties
  <2>3. S \in SUBSET Nat
    BY <1>1, <1>2
  <2> QED BY <1>7, <2>1, <2>2, <2>3
<1>9. /\ m = d.seq + n
      /\ H = Banned(d, S) \cup {RowOf(i, S) : i \in BidsOf(S)}
  OBVIOUS
<1>10. B = BannedBy(S) /\ O = {OrderRow(i) : i \in {j \in S : CreatesOrder(j)}}
  OBVIOUS
<1> HIDE DEF m, x, H, O, B
<1>11. /\ e.seq = x.seq /\ e.price = x.price /\ e.leader = x.leader
      /\ e.endAt = x.endAt /\ e.status = x.status
      /\ e.history = H /\ e.bans = x.bans \cup B /\ e.orders = x.orders \cup O
      /\ e.receipts = x.receipts \cup S /\ e.outbox = x.outbox \o batch
  BY <1>5, <1>6 DEF DbRecord
<1>12. e \in DbRecord
  <2>1. /\ x.bans \cup B \in SUBSET Int /\ x.orders \cup O \in SUBSET OrderRecord
        /\ x.receipts \cup S \in SUBSET Nat /\ x.outbox \o batch \in Seq(Nat)
    BY <1>5, <1>8
  <2>2. e = [x EXCEPT !.history = H, !.bans = x.bans \cup B, !.orders = x.orders \cup O,
                      !.receipts = x.receipts \cup S, !.outbox = x.outbox \o batch]
    BY <1>6
  <2>3. [x EXCEPT !.history = H, !.bans = x.bans \cup B, !.orders = x.orders \cup O,
                  !.receipts = x.receipts \cup S, !.outbox = x.outbox \o batch] \in DbRecord
    <3>1. x \in DbRecord
      BY <1>5
    <3> QED BY <3>1, <1>7, <2>1, RowsIn, Zenon
  <2> QED BY <2>2, <2>3
<1> QED BY <1>5, <1>9, <1>10, <1>11, <1>12 DEF HasLane, HasRows

\* The transaction over a batch: the rows go on without a gap, and every entry of
\* the batch has its receipt.
LEMMA LaneStep ==
  ASSUME EventsInv, GroupTypes, DbInv, WorkerTypes, NEW c \in Consumers, Carries(c),
         NEW new, new = InOrder(Range(worker[c].lane) \ db.receipts), Follows(new),
         db' = WithLane(db, new), UNCHANGED <<environment, redis>>
  PROVE  /\ DbInv' /\ db.receipts \subseteq db'.receipts /\ Range(worker[c].lane) \subseteq db'.receipts
         /\ EventsInv' /\ Len(new) \in Nat /\ db.seq + Len(new) <= delivered
         /\ new \in Seq(Nat) /\ \A k \in 1..Len(new) : new[k] = db.seq + k
<1> DEFINE R == Range(worker[c].lane) \ db.receipts
<1>1. delivered \in Nat /\ delivered <= Len(stream) /\ R \in SUBSET (1..delivered)
  BY DEF GroupTypes, EventsInv, Carries
<1>2. new \in Seq(R) /\ Range(new) = R
  <2> HIDE DEF R
  <2>1. InOrder(R) \in Seq(R) /\ Range(InOrder(R)) = R
    BY <1>1, InOrderIs
  <2> QED BY <2>1 DEF R
<1>3. PICK n \in Nat : n = Len(new) /\ DOMAIN new = 1..n /\ \A k \in 1..n : new[k] \in R /\ new[k] = db.seq + k
  <2>1. Len(new) \in Nat /\ DOMAIN new = 1..Len(new)
    BY <1>2, LenProperties
  <2>2. \A k \in 1..Len(new) : new[k] \in R
    BY <1>2, ElementOfSeq
  <2> QED BY <2>1, <2>2 DEF Follows
<1>4. EventsInv'
  BY DEF EventsInv, environment
<1>5. new \in Seq(Nat)
  BY <1>1, <1>2
<1>6. db \in DbRecord /\ db.seq \in Nat /\ db.seq <= delivered
  BY DEF DbInv, DbRecord
<1>7. CASE n = 0
  <2>1. new = <<>> /\ R = {}
    BY <1>2, <1>3, <1>5, <1>7, EmptySeq DEF Range
  <2>2. db' = db
    BY <2>1 DEF WithLane
  <2>3. DbInv'
    BY <2>2 DEF DbInv, environment, redis
  <2>4. Range(worker[c].lane) \subseteq db.receipts
    BY <2>1
  <2>5. db.seq + Len(new) <= delivered
    BY <1>3, <1>6, <1>7
  <2> QED BY <1>3, <1>4, <1>5, <2>2, <2>3, <2>4, <2>5
<1>8. CASE n # 0
  <2>1. n \in 1..n /\ db.seq + n <= delivered
    <3> HIDE DEF R
    <3>1. n \in 1..n
      BY <1>8
    <3>2. new[n] \in 1..delivered /\ new[n] = db.seq + n
      BY <1>1, <1>3, <3>1
    <3> QED BY <1>1, <3>1, <3>2
  <2> DEFINE S == (db.seq + 1)..(db.seq + n)
  <2>2. /\ db' \in DbRecord /\ db'.seq = db.seq + n /\ db'.status = stream[db.seq + n].status
        /\ db'.receipts = db.receipts \cup S
    <3>1. n \in Nat \ {0} /\ db.seq + n <= Len(stream)
      BY <1>1, <1>6, <1>8, <2>1 DEF EventsInv
    <3>2. n = Len(new) /\ \A k \in 1..n : new[k] = db.seq + k
      BY <1>3
    <3>3. HasLane(WithLane(db, new), db, new, n, S)
      BY <1>5, <1>6, <3>1, <3>2, LaneIs
    <3> QED BY <3>3 DEF HasLane, HasRows
  <2>3. R = S
    <3>1. \A i : i \in R => \E k \in 1..n : i = db.seq + k
      BY <1>2, <1>3 DEF Range
    <3>2. \A i \in S : i - db.seq \in 1..n /\ i = db.seq + (i - db.seq)
      BY <1>6
    <3>3. \A i \in S : i \in R
      <4> HIDE DEF R, S
      <4> SUFFICES ASSUME NEW i \in S PROVE i \in R
        OBVIOUS
      <4>1. PICK k \in 1..n : i = db.seq + k
        BY <3>2
      <4> QED BY <1>3, <4>1
    <3>4. \A k \in 1..n : db.seq + k \in S
      BY <1>6
    <3> HIDE DEF R, S
    <3> QED BY <3>1, <3>3, <3>4
  <2>4. db'.receipts = 1..db'.seq /\ Range(worker[c].lane) \subseteq db'.receipts
    <3>1. db.receipts = 1..db.seq
      BY DEF DbInv
    <3>2. (1..db.seq) \cup S = 1..(db.seq + n)
      BY <1>6, <1>8
    <3> QED BY <2>2, <2>3, <3>1, <3>2
  <2>5. ~expiring
    <3> SUFFICES ASSUME expiring PROVE FALSE
      OBVIOUS
    <3>1. db.seq > 0 /\ stream[db.seq].status \in TerminalStatus
      BY DEF DbInv
    <3>2. db.seq \in DOMAIN stream /\ db.seq \in DOMAIN script /\ Len(script) \in Nat /\ Len(stream) \in Nat
      BY <1>1, <1>6, <3>1 DEF EventsInv
    <3>3. db.seq = Len(script)
      BY <3>1, <3>2 DEF EventsInv
    <3> QED BY <1>1, <1>6, <1>8, <2>1, <3>2, <3>3 DEF EventsInv
  <2>6. DbInv'
    <3>1. stream' = stream /\ delivered' = delivered /\ expiring' = expiring
      BY DEF environment, redis
    <3> QED BY <1>6, <2>1, <2>2, <2>4, <2>5, <3>1 DEF DbInv
  <2> QED BY <1>3, <1>4, <1>5, <2>1, <2>2, <2>4, <2>6
<1> QED BY <1>7, <1>8

\* The transaction of one entry.
LEMMA EntryStep ==
  ASSUME EventsInv, GroupTypes, DbInv, NEW i \in 1..delivered, i = db.seq + 1,
         db' = WithEntry(db, i), UNCHANGED <<environment, redis>>
  PROVE  DbInv' /\ EventsInv' /\ db.receipts \subseteq db'.receipts /\ i \in db'.receipts
<1>1. delivered \in Nat /\ delivered <= Len(stream) /\ Len(stream) \in Nat /\ Len(script) \in Nat /\ i \in Entries
  BY DEF GroupTypes, EventsInv, Entries
<1>2. db \in DbRecord /\ db.seq \in Nat
  BY DEF DbInv, DbRecord
<1>3. /\ db' \in DbRecord /\ db'.seq = i /\ db'.status = stream[i].status
      /\ db'.receipts = db.receipts \cup {i}
  <2>1. HasEntry(db', db, i)
    BY <1>1, <1>2, EntryIs
  <2> QED BY <2>1 DEF HasEntry
<1>4. db'.receipts = 1..db'.seq
  <2>1. db.receipts = 1..db.seq
    BY DEF DbInv
  <2>2. (1..db.seq) \cup {i} = 1..i
    BY <1>2
  <2> QED BY <1>3, <2>1, <2>2
<1>5. ~expiring
  <2> SUFFICES ASSUME expiring PROVE FALSE
    OBVIOUS
  <2>1. db.seq > 0 /\ stream[db.seq].status \in TerminalStatus
    BY DEF DbInv
  <2>2. db.seq \in DOMAIN stream /\ db.seq \in DOMAIN script
    BY <1>1, <1>2, <2>1 DEF EventsInv
  <2>3. db.seq = Len(script)
    BY <2>1, <2>2 DEF EventsInv
  <2> QED BY <1>1, <1>2, <2>3 DEF EventsInv
<1>6. stream' = stream /\ script' = script /\ delivered' = delivered /\ expiring' = expiring
  BY DEF environment, redis
<1>7. EventsInv'
  BY <1>6 DEF EventsInv
<1>8. DbInv'
  BY <1>1, <1>3, <1>4, <1>5, <1>6 DEF DbInv
<1> QED BY <1>3, <1>7, <1>8

-----------------------------------------------------------------------------
(* The steps of the consumers. *)

LEMMA OthersStay ==
  ASSUME WorkersInv, NEW c \in Consumers, WorkerTypes', \A d \in Consumers \ {c} : worker'[d] = worker[d],
         GroupMovesOn, Carries(c)'
  PROVE  WorkersInv'
<1>1. \A d \in Consumers \ {c} : Carries(d)'
  BY StaysRight DEF WorkersInv
<1> QED BY <1>1 DEF WorkersInv

LEMMA EventsStay ==
  ASSUME EventsInv, UNCHANGED environment
  PROVE  EventsInv'
BY DEF EventsInv, environment

LEMMA GroupStays ==
  ASSUME GroupTypes, UNCHANGED <<environment, redis>>, dbUp' = dbUp, faults' \in FaultPlan,
         AcknowledgedIsSettled, db.receipts \subseteq db'.receipts
  PROVE  GroupInv'
<1>1. GroupTypes'
  BY DEF GroupTypes, environment, redis
<1>2. AcknowledgedIsSettled'
  BY DEF AcknowledgedIsSettled, Acknowledged, redis
<1> QED BY <1>1, <1>2 DEF GroupInv

LEMMA FaultIs ==
  ASSUME faults \in FaultPlan, NEW kind, Fault(kind)
  PROVE  faults' \in FaultPlan
BY DEF FaultPlan, Fault

LEMMA ClaimStep ==
  ASSUME ProjectionInv, NEW c \in Consumers, Claim(c)
  PROVE  ProjectionInv'
<1> DEFINE claimed == FirstOf(idle, ReadCount)
           lane == InOrder(claimed)
<1>1. EventsInv /\ GroupTypes /\ AcknowledgedIsSettled /\ DbInv /\ WorkersInv /\ WorkerTypes /\ Carries(c)
  BY DEF ProjectionInv, GroupInv, WorkersInv
<1>2. /\ worker[c].step = "idle" /\ idle' = idle \ claimed
      /\ worker' = [worker EXCEPT ![c].step = "read", ![c].lane = lane]
      /\ UNCHANGED <<environment, delivered, pending, deleted, retries, dlq, expiring, db, dbUp, faults>>
  BY DEF Claim, At
<1>3. delivered \in Nat /\ claimed \in SUBSET (1..delivered)
  <2>1. delivered \in Nat /\ idle \subseteq 1..delivered
    BY <1>1 DEF GroupTypes, EventsInv
  <2>2. claimed \subseteq idle
    BY DEF FirstOf
  <2> QED BY <2>1, <2>2
<1>4. lane \in Seq(claimed) /\ Range(lane) = claimed /\ Ascends(lane)
  <2> HIDE DEF claimed
  <2>1. lane \in Seq(claimed) /\ Range(lane) = claimed /\ DOMAIN lane = 1..Cardinality(claimed)
    BY <1>3, InOrderIs, LenProperties
  <2>2. \A i, j \in 1..Cardinality(claimed) : i < j => lane[i] < lane[j]
    BY <1>3, InOrderIs
  <2> QED BY <2>1, <2>2 DEF Ascends
<1>5. lane \in Seq(Nat)
  BY <1>3, <1>4
<1> HIDE DEF claimed, lane
<1>6. EventsInv'
  BY <1>1, <1>2, EventsStay
<1>7. GroupInv'
  <2>1. GroupTypes'
    BY <1>1, <1>2 DEF GroupTypes, environment
  <2>2. AcknowledgedIsSettled'
    BY <1>1, <1>2 DEF AcknowledgedIsSettled, Acknowledged
  <2> QED BY <2>1, <2>2 DEF GroupInv
<1>8. DbInv'
  BY <1>1, <1>2 DEF DbInv, environment
<1>9. worker[c] \in WorkerRecord
  BY <1>1 DEF WorkerTypes
<1>10. /\ worker'[c] \in WorkerRecord /\ worker'[c].step = "read" /\ worker'[c].lane = lane
       /\ worker'[c].isolated = worker[c].isolated
       /\ WorkerTypes' /\ \A d \in Consumers \ {c} : worker'[d] = worker[d]
  BY <1>1, <1>2, <1>5, <1>9 DEF WorkerTypes, WorkerRecord, Steps
<1>11. GroupMovesOn
  BY <1>2 DEF GroupMovesOn
<1>12. Carries(c)'
  BY <1>1, <1>2, <1>3, <1>4, <1>10 DEF Carries
<1>13. WorkersInv'
  BY <1>1, <1>10, <1>11, <1>12, OthersStay
<1> QED BY <1>6, <1>7, <1>8, <1>13 DEF ProjectionInv

LEMMA ReadStep ==
  ASSUME ProjectionInv, NEW c \in Consumers, Read(c)
  PROVE  ProjectionInv'
<1> DEFINE fresh == FirstOf(Unread, ReadCount)
           more == InOrder(fresh)
           batch == worker[c].lane \o more
           n == Cardinality(fresh)
<1>1. EventsInv /\ GroupTypes /\ AcknowledgedIsSettled /\ DbInv /\ WorkersInv /\ WorkerTypes /\ Carries(c)
  BY DEF ProjectionInv, GroupInv, WorkersInv
<1>2. /\ worker[c].step = "read" /\ delivered' = delivered + n /\ pending' = pending \cup fresh
      /\ \/ /\ IF batch = <<>> THEN Abandon(c)
               ELSE worker' = [worker EXCEPT ![c].step = "lane", ![c].lane = batch, ![c].pos = 1]
            /\ faults' = faults
         \/ Abandon(c) /\ Fault("answer")
      /\ UNCHANGED <<environment, idle, deleted, retries, dlq, expiring, db, dbUp>>
  BY DEF Read, At
<1>3. n \in Nat /\ delivered + n <= Len(stream) /\ fresh = (delivered + 1)..(delivered + n)
  BY <1>1, FreshIs
<1>4. delivered \in Nat /\ Len(stream) \in Nat
  BY <1>1 DEF GroupTypes, EventsInv
<1> HIDE DEF n
<1>5. fresh \in SUBSET (1..(delivered + n))
  BY <1>3, <1>4
<1>6. more \in Seq(fresh) /\ Range(more) = fresh /\ Ascends(more)
  <2> HIDE DEF fresh
  <2>1. delivered + n \in Nat
    BY <1>3, <1>4
  <2>2. more \in Seq(fresh) /\ Range(more) = fresh /\ DOMAIN more = 1..Cardinality(fresh)
    BY <1>5, <2>1, InOrderIs, LenProperties
  <2>3. \A i, j \in 1..Cardinality(fresh) : i < j => more[i] < more[j]
    BY <1>5, <2>1, InOrderIs
  <2> QED BY <2>2, <2>3 DEF Ascends
<1>7. worker[c] \in WorkerRecord
  BY <1>1 DEF WorkerTypes
<1>8. batch \in Seq(Nat) /\ Range(batch) \subseteq 1..(delivered + n) /\ Ascends(batch)
  <2> HIDE DEF fresh, more
  <2>1. worker[c].lane \in Seq(Nat) /\ Range(worker[c].lane) \subseteq 1..delivered
    BY <1>1, <1>7 DEF WorkerRecord, Carries
  <2>2. more \in Seq(Nat)
    BY <1>3, <1>4, <1>5, <1>6
  <2>3. batch \in Seq(Nat) /\ Len(batch) = Len(worker[c].lane) + Len(more)
    BY <2>1, <2>2, ConcatProperties
  <2>4. Range(batch) \subseteq Range(worker[c].lane) \cup Range(more)
    <3> SUFFICES ASSUME NEW i \in 1..Len(batch) PROVE batch[i] \in Range(worker[c].lane) \cup Range(more)
      BY <2>3 DEF Range
    <3>1. batch[i] = IF i <= Len(worker[c].lane) THEN worker[c].lane[i] ELSE more[i - Len(worker[c].lane)]
      BY <2>1, <2>2, <2>3, ConcatProperties
    <3>2. Len(worker[c].lane) \in Nat /\ Len(more) \in Nat
      BY <2>1, <2>2
    <3>3. CASE i <= Len(worker[c].lane)
      BY <2>1, <3>1, <3>2, <3>3 DEF Range
    <3>4. CASE ~(i <= Len(worker[c].lane))
      <4>1. i - Len(worker[c].lane) \in DOMAIN more
        BY <2>2, <2>3, <3>2, <3>4
      <4> QED BY <3>1, <3>4, <4>1 DEF Range
    <3> QED BY <3>3, <3>4
  <2>5. Range(batch) \subseteq 1..(delivered + n)
    BY <1>3, <1>4, <1>5, <1>6, <2>1, <2>4
  <2>6. Ascends(batch)
    <3> DEFINE k == Len(worker[c].lane)
    <3>1. k \in Nat /\ Len(more) \in Nat /\ DOMAIN batch = 1..(k + Len(more))
      BY <2>1, <2>2, <2>3, LenProperties
    <3>2. \A i \in 1..k : i \in DOMAIN worker[c].lane /\ batch[i] = worker[c].lane[i] /\ batch[i] \in 1..delivered
      BY <2>1, <2>2, <2>3, <3>1, ConcatProperties DEF Range
    <3>3. \A i \in (k + 1)..(k + Len(more)) :
            i - k \in DOMAIN more /\ batch[i] = more[i - k] /\ batch[i] \in fresh
      <4> SUFFICES ASSUME NEW i \in (k + 1)..(k + Len(more))
                   PROVE  i - k \in DOMAIN more /\ batch[i] = more[i - k] /\ batch[i] \in fresh
        OBVIOUS
      <4>1. i \in 1..(k + Len(more)) /\ ~(i <= k) /\ i - k \in 1..Len(more)
        BY <3>1
      <4>2. batch[i] = more[i - k]
        BY <2>1, <2>2, <4>1, ConcatProperties
      <4>3. i - k \in DOMAIN more
        BY <2>2, <4>1, LenProperties
      <4> QED BY <1>6, <4>2, <4>3 DEF Range
    <3> SUFFICES ASSUME NEW i \in DOMAIN batch, NEW j \in DOMAIN batch, i < j PROVE batch[i] < batch[j]
      BY DEF Ascends
    <3> HIDE DEF k
    <3>4. i \in Int /\ j \in Int /\ 1 <= i /\ j <= k + Len(more)
      BY <3>1
    <3>5. CASE j <= k
      <4>1. i \in 1..k /\ j \in 1..k
        BY <3>1, <3>4, <3>5
      <4> QED BY <1>1, <3>2, <4>1 DEF Carries, Ascends
    <3>6. CASE i <= k /\ k < j
      <4>1. i \in 1..k /\ j \in (k + 1)..(k + Len(more))
        BY <3>1, <3>4, <3>6
      <4>2. batch[i] \in 1..delivered /\ batch[j] \in fresh
        BY <3>2, <3>3, <4>1
      <4> HIDE DEF fresh, more, batch
      <4>3. batch[j] \in (delivered + 1)..(delivered + n)
        BY <1>3, <4>2
      <4> DEFINE x == batch[i]
                 y == batch[j]
      <4>4. x \in 1..delivered /\ y \in (delivered + 1)..(delivered + n)
        BY <4>2, <4>3
      <4> HIDE DEF x, y
      <4>5. x < y
        BY <1>3, <1>4, <4>4
      <4> QED BY <4>5 DEF x, y
    <3>7. CASE k < i
      <4>1. i \in (k + 1)..(k + Len(more)) /\ j \in (k + 1)..(k + Len(more)) /\ i - k < j - k
        BY <3>1, <3>4, <3>7
      <4> QED BY <1>6, <3>3, <4>1 DEF Ascends
    <3> QED BY <3>1, <3>4, <3>5, <3>6, <3>7
  <2> QED BY <2>3, <2>5, <2>6
<1> HIDE DEF fresh, more, batch
<1>9. EventsInv'
  BY <1>1, <1>2, EventsStay
<1>10. GroupInv'
  <2>1. faults' \in FaultPlan
    BY <1>1, <1>2, FaultIs DEF GroupTypes
  <2>2. /\ delivered' \in 0..Len(stream') /\ pending' \subseteq 1..delivered' /\ idle' \subseteq pending'
        /\ deleted' \subseteq (1..delivered') \ pending' /\ dlq' \subseteq 1..delivered'
    BY <1>1, <1>2, <1>3, <1>4 DEF GroupTypes, environment
  <2>3. GroupTypes'
    BY <1>1, <1>2, <2>1, <2>2 DEF GroupTypes
  <2>4. AcknowledgedIsSettled'
    BY <1>1, <1>2, <1>3, <1>4 DEF AcknowledgedIsSettled, Acknowledged
  <2> QED BY <2>3, <2>4 DEF GroupInv
<1>11. DbInv'
  BY <1>1, <1>2, <1>3, <1>4 DEF DbInv, DbRecord, environment
<1>12. GroupMovesOn
  BY <1>1, <1>2, <1>3, <1>4 DEF GroupMovesOn, GroupTypes
<1>13. WorkersInv'
  <2>1. CASE Abandon(c)
    BY <1>1, <1>12, <2>1, Abandoned, RestingIsRight, OthersStay
  <2>2. CASE batch # <<>> /\ worker' = [worker EXCEPT ![c].step = "lane", ![c].lane = batch, ![c].pos = 1]
    <3>1. /\ worker'[c].step = "lane" /\ worker'[c].lane = batch /\ worker'[c].pos = 1
          /\ worker'[c].isolated = worker[c].isolated
          /\ WorkerTypes' /\ \A d \in Consumers \ {c} : worker'[d] = worker[d]
      BY <1>1, <1>7, <1>8, <2>2 DEF WorkerTypes, WorkerRecord, Steps
    <3>2. 1 \in 1..Len(batch)
      BY <1>8, <2>2, EmptySeq
    <3>3. ~worker[c].isolated
      BY <1>1, <1>2 DEF Carries
    <3>4. Carries(c)'
      BY <1>2, <1>8, <3>1, <3>2, <3>3 DEF Carries
    <3> QED BY <1>1, <1>12, <3>1, <3>4, OthersStay
  <2> QED BY <1>2, <2>1, <2>2
<1> QED BY <1>9, <1>10, <1>11, <1>13 DEF ProjectionInv

LEMMA ProjectLaneStep ==
  ASSUME ProjectionInv, NEW c \in Consumers, ProjectLane(c)
  PROVE  ProjectionInv'
<1> DEFINE new == InOrder(Range(worker[c].lane) \ db.receipts)
<1>1. EventsInv /\ GroupTypes /\ AcknowledgedIsSettled /\ DbInv /\ WorkersInv /\ WorkerTypes /\ Carries(c)
  BY DEF ProjectionInv, GroupInv, WorkersInv
<1>2. /\ worker[c].step = "lane"
      /\ \/ /\ Follows(new) /\ db' = WithLane(db, new)
            /\ \/ Goto(c, "ack") /\ UNCHANGED faults
               \/ Isolate(c) /\ Fault("answer")
         \/ Isolate(c) /\ UNCHANGED <<db, faults>>
      /\ UNCHANGED <<environment, redis, dbUp>>
  BY DEF ProjectLane, At
<1> HIDE DEF new
<1>3. worker[c] \in WorkerRecord
  BY <1>1 DEF WorkerTypes
<1>4. faults' \in FaultPlan
  BY <1>1, <1>2, FaultIs DEF GroupTypes
<1>5. EventsInv'
  BY <1>1, <1>2, EventsStay
<1>6. /\ DbInv' /\ db.receipts \subseteq db'.receipts
      /\ Follows(new) /\ db' = WithLane(db, new) => Range(worker[c].lane) \subseteq db'.receipts
  <2>1. CASE Follows(new) /\ db' = WithLane(db, new)
    BY <1>1, <1>2, <2>1, LaneStep DEF new
  <2>2. CASE db' = db
    <3>1. UNCHANGED <<environment, redis>> => DbInv'
      BY <1>1, <2>2 DEF DbInv, environment, redis
    <3> QED BY <1>1, <1>2, <2>1, <2>2, <3>1
  <2> QED BY <1>2, <2>1, <2>2
<1>7. GroupInv'
  BY <1>1, <1>2, <1>4, <1>6, GroupStays
<1>8. GroupMovesOn
  BY <1>2, <1>6 DEF GroupMovesOn, redis
<1>9. CASE Isolate(c)
  <2>1. /\ WorkerTypes' /\ \A d \in Consumers \ {c} : worker'[d] = worker[d]
        /\ worker'[c].step = "project" /\ worker'[c].lane = worker[c].lane
        /\ worker'[c].pos = 1 /\ worker'[c].isolated = TRUE
    BY <1>1, <1>9, IsolatedIt
  <2>2. delivered' = delivered /\ 1 \in 1..Len(worker[c].lane)
    BY <1>1, <1>2, <1>3 DEF redis, Carries, WorkerRecord
  <2>3. Carries(c)'
    BY <1>1, <2>1, <2>2 DEF Carries
  <2> QED BY <1>1, <1>5, <1>6, <1>7, <1>8, <2>1, <2>3, OthersStay DEF ProjectionInv
<1>10. CASE Goto(c, "ack") /\ Follows(new) /\ db' = WithLane(db, new)
  <2>1. /\ WorkerTypes' /\ \A d \in Consumers \ {c} : worker'[d] = worker[d]
        /\ worker'[c].step = "ack" /\ worker'[c].lane = worker[c].lane
        /\ worker'[c].pos = worker[c].pos /\ worker'[c].isolated = worker[c].isolated
    BY <1>1, <1>10, Went DEF Steps
  <2>2. delivered' = delivered /\ Entry(c)' = Entry(c) /\ Entry(c) \in Range(worker[c].lane)
    BY <1>1, <1>2, <2>1, EntryIsDelivered DEF redis, Entry
  <2>3. Carries(c)'
    BY <1>1, <1>2, <1>6, <1>10, <2>1, <2>2 DEF Carries
  <2> QED BY <1>1, <1>5, <1>6, <1>7, <1>8, <2>1, <2>3, OthersStay DEF ProjectionInv
<1> QED BY <1>2, <1>9, <1>10

LEMMA ProjectEntryStep ==
  ASSUME ProjectionInv, NEW c \in Consumers, ProjectEntry(c)
  PROVE  ProjectionInv'
<1>1. EventsInv /\ GroupTypes /\ AcknowledgedIsSettled /\ DbInv /\ WorkersInv /\ WorkerTypes /\ Carries(c)
  BY DEF ProjectionInv, GroupInv, WorkersInv
<1>2. /\ worker[c].step = "project" /\ UNCHANGED <<environment, redis, dbUp>>
      /\ \/ Entry(c) \in db.receipts /\ Goto(c, "ack") /\ UNCHANGED <<db, faults>>
         \/ /\ Follows(<<Entry(c)>>) /\ db' = WithEntry(db, Entry(c))
            /\ \/ Goto(c, "ack") /\ UNCHANGED faults
               \/ Goto(c, "fail") /\ Fault("answer")
         \/ Goto(c, "fail") /\ UNCHANGED <<db, faults>>
  BY DEF ProjectEntry, At, Received
<1>3. Entry(c) \in 1..delivered /\ Entry(c) \in Range(worker[c].lane)
  BY <1>1, <1>2, EntryIsDelivered
<1>4. faults' \in FaultPlan
  BY <1>1, <1>2, FaultIs DEF GroupTypes
<1>5. EventsInv'
  BY <1>1, <1>2, EventsStay
<1>6. /\ DbInv' /\ db.receipts \subseteq db'.receipts
      /\ Follows(<<Entry(c)>>) /\ db' = WithEntry(db, Entry(c)) => Entry(c) \in db'.receipts
  <2>1. CASE Follows(<<Entry(c)>>) /\ db' = WithEntry(db, Entry(c))
    <3>1. Entry(c) = db.seq + 1
      BY <2>1 DEF Follows
    <3> QED BY <1>1, <1>2, <1>3, <2>1, <3>1, EntryStep
  <2>2. CASE db' = db
    <3>1. UNCHANGED <<environment, redis>> => DbInv'
      BY <1>1, <2>2 DEF DbInv, environment, redis
    <3> QED BY <1>2, <2>1, <2>2, <3>1
  <2> QED BY <1>2, <2>1, <2>2
<1>7. GroupInv'
  BY <1>1, <1>2, <1>4, <1>6, GroupStays
<1>8. GroupMovesOn
  BY <1>2, <1>6 DEF GroupMovesOn, redis
<1>9. PICK s \in {"ack", "fail"} : Goto(c, s) /\ (s = "ack" => Entry(c) \in db'.receipts)
  BY <1>2, <1>6
<1>10. /\ WorkerTypes' /\ \A d \in Consumers \ {c} : worker'[d] = worker[d]
       /\ worker'[c].step = s /\ worker'[c].lane = worker[c].lane
       /\ worker'[c].pos = worker[c].pos /\ worker'[c].isolated = worker[c].isolated
  BY <1>1, <1>9, Went DEF Steps
<1>11. delivered' = delivered /\ Entry(c)' = Entry(c)
  BY <1>2, <1>10 DEF redis, Entry
<1>12. Carries(c)'
  BY <1>1, <1>2, <1>6, <1>9, <1>10, <1>11 DEF Carries
<1> QED BY <1>1, <1>5, <1>6, <1>7, <1>8, <1>10, <1>12, OthersStay DEF ProjectionInv

LEMMA RecordFailureStep ==
  ASSUME ProjectionInv, NEW c \in Consumers, RecordFailure(c)
  PROVE  ProjectionInv'
<1>1. EventsInv /\ GroupTypes /\ AcknowledgedIsSettled /\ DbInv /\ WorkersInv /\ WorkerTypes /\ Carries(c)
  BY DEF ProjectionInv, GroupInv, WorkersInv
<1> DEFINE attempts == retries[Entry(c)] + 1
<1>2. /\ worker[c].step = "fail" /\ retries' = [retries EXCEPT ![Entry(c)] = attempts]
      /\ \/ dlq' = dlq \cup {Entry(c)} /\ Goto(c, "bury")
         \/ Advance(c) /\ UNCHANGED dlq
      /\ UNCHANGED <<environment, delivered, pending, idle, deleted, expiring, db, dbUp, faults>>
  BY DEF RecordFailure, At, Buried
<1>3. Entry(c) \in 1..delivered /\ Entry(c) \in Range(worker[c].lane)
  BY <1>1, <1>2, EntryIsDelivered
<1>4. retries' \in [1..MaxEvents -> Nat]
  <2>1. retries \in [1..MaxEvents -> Nat] /\ Entry(c) \in 1..MaxEvents
    BY <1>1, <1>3, ProjectorAssumption DEF GroupTypes, EventsInv
  <2> QED BY <1>2, <2>1
<1> HIDE DEF attempts
<1>5. EventsInv'
  BY <1>1, <1>2, EventsStay
<1>6. DbInv'
  BY <1>1, <1>2 DEF DbInv, environment
<1>7. GroupInv'
  <2>1. GroupTypes'
    BY <1>1, <1>2, <1>3, <1>4 DEF GroupTypes, environment
  <2>2. AcknowledgedIsSettled'
    BY <1>1, <1>2 DEF AcknowledgedIsSettled, Acknowledged
  <2> QED BY <2>1, <2>2 DEF GroupInv
<1>8. GroupMovesOn
  BY <1>2 DEF GroupMovesOn
<1>9. CASE Advance(c)
  BY <1>1, <1>2, <1>5, <1>6, <1>7, <1>8, <1>9, Advanced, OthersStay DEF ProjectionInv
<1>10. CASE dlq' = dlq \cup {Entry(c)} /\ Goto(c, "bury")
  <2>1. /\ WorkerTypes' /\ \A d \in Consumers \ {c} : worker'[d] = worker[d]
        /\ worker'[c].step = "bury" /\ worker'[c].lane = worker[c].lane
        /\ worker'[c].pos = worker[c].pos /\ worker'[c].isolated = worker[c].isolated
    BY <1>1, <1>10, Went DEF Steps
  <2>2. Entry(c)' = Entry(c)
    BY <2>1 DEF Entry
  <2>3. Carries(c)'
    BY <1>1, <1>2, <1>10, <2>1, <2>2 DEF Carries
  <2> QED BY <1>1, <1>5, <1>6, <1>7, <1>8, <2>1, <2>3, OthersStay DEF ProjectionInv
<1> QED BY <1>2, <1>9, <1>10

LEMMA ForgotIt ==
  ASSUME EventsInv, GroupTypes, NEW i \in 1..delivered, Forget(i)
  PROVE  retries' \in [1..MaxEvents -> Nat]
<1>1. i \in 1..MaxEvents
  BY ProjectorAssumption DEF EventsInv, GroupTypes
<1> QED BY <1>1 DEF GroupTypes, Forget

\* Keys expire with a receipt of the event that ended the auction, and that is
\* then the last event of all.
LEMMA ExpiresAtTheEnd ==
  ASSUME ProjectionInv, NEW c \in Consumers, Expires(c)
  PROVE  db.seq > 0 /\ stream[db.seq].status \in TerminalStatus
<1>1. EventsInv /\ GroupTypes /\ DbInv /\ WorkerTypes /\ Carries(c)
  BY DEF ProjectionInv, GroupInv, WorkersInv
<1>2. worker[c].step = "ack" /\ stream[Entry(c)].status \in TerminalStatus
  BY DEF Expires, At
<1>3. Entry(c) \in 1..delivered /\ Entry(c) \in 1..db.seq
  BY <1>1, <1>2, EntryIsDelivered DEF Carries, DbInv
<1>4. /\ delivered \in Nat /\ delivered <= Len(stream) /\ Len(stream) <= Len(script)
      /\ Len(stream) \in Nat /\ Len(script) \in Nat /\ db.seq \in Nat /\ db.seq <= delivered
  BY <1>1 DEF GroupTypes, EventsInv, DbInv, DbRecord
<1>5. Entry(c) \in DOMAIN stream /\ Entry(c) \in DOMAIN script
  BY <1>1, <1>3, <1>4 DEF EventsInv
<1>6. Entry(c) = Len(script)
  BY <1>1, <1>2, <1>5 DEF EventsInv
<1>7. db.seq = Entry(c) /\ db.seq > 0
  BY <1>3, <1>4, <1>6
<1> QED BY <1>2, <1>7

LEMMA AcknowledgeStep ==
  ASSUME ProjectionInv, NEW c \in Consumers, Acknowledge(c)
  PROVE  ProjectionInv'
<1>1. EventsInv /\ GroupTypes /\ AcknowledgedIsSettled /\ DbInv /\ WorkersInv /\ WorkerTypes /\ Carries(c)
  BY DEF ProjectionInv, GroupInv, WorkersInv
<1> DEFINE e == Entry(c)
<1>2. /\ worker[c].step \in {"ack", "bury"}
      /\ pending' = pending \ {e} /\ idle' = idle \ {e}
      /\ expiring' = (expiring \/ Expires(c))
      /\ \/ worker[c].step = "ack" /\ Goto(c, "delete") /\ UNCHANGED retries
         \/ worker[c].step = "bury" /\ Goto(c, "burn") /\ UNCHANGED retries
         \/ Advance(c) /\ Forget(e)
      /\ UNCHANGED <<environment, delivered, deleted, dlq, db, dbUp, faults>>
  BY DEF Acknowledge, At
<1>3. e \in 1..delivered /\ e \in Range(worker[c].lane) /\ e \in db.receipts \cup dlq
  BY <1>1, <1>2, EntryIsDelivered DEF Carries
<1>4. retries' \in [1..MaxEvents -> Nat]
  <2>1. Forget(e) => retries' \in [1..MaxEvents -> Nat]
    BY <1>1, <1>3, ForgotIt
  <2> QED BY <1>1, <1>2, <2>1 DEF GroupTypes
<1>5. EventsInv'
  BY <1>1, <1>2, EventsStay
<1>6. DbInv'
  BY <1>1, <1>2, ExpiresAtTheEnd DEF DbInv, environment
<1>7. GroupInv'
  <2>1. expiring' \in BOOLEAN
    BY <1>2
  <2>2. GroupTypes'
    BY <1>1, <1>2, <1>3, <1>4, <2>1 DEF GroupTypes, environment
  <2>3. AcknowledgedIsSettled'
    BY <1>1, <1>2, <1>3 DEF AcknowledgedIsSettled, Acknowledged
  <2> QED BY <2>2, <2>3 DEF GroupInv
<1>8. GroupMovesOn
  BY <1>2 DEF GroupMovesOn
<1>9. CASE Advance(c)
  BY <1>1, <1>2, <1>5, <1>6, <1>7, <1>8, <1>9, Advanced, OthersStay DEF ProjectionInv
<1>10. CASE ~Advance(c)
  <2>1. PICK s \in {"delete", "burn"} :
          Goto(c, s) /\ worker[c].step = IF s = "delete" THEN "ack" ELSE "bury"
    BY <1>2, <1>10
  <2>2. /\ WorkerTypes' /\ \A d \in Consumers \ {c} : worker'[d] = worker[d]
        /\ worker'[c].step = s /\ worker'[c].lane = worker[c].lane
        /\ worker'[c].pos = worker[c].pos /\ worker'[c].isolated = worker[c].isolated
    BY <1>1, <2>1, Went DEF Steps
  <2>3. Entry(c)' = Entry(c)
    BY <2>2 DEF Entry
  <2>4. Entry(c)' \notin pending'
    BY <1>2, <2>3
  <2>5. Carries(c)'
    <3>1. CASE s = "delete"
      BY <1>1, <1>2, <2>1, <2>2, <2>3, <2>4, <3>1 DEF Carries
    <3>2. CASE s = "burn"
      BY <1>1, <1>2, <2>1, <2>2, <2>3, <2>4, <3>2 DEF Carries
    <3> QED BY <3>1, <3>2
  <2> QED BY <1>1, <1>5, <1>6, <1>7, <1>8, <2>2, <2>5, OthersStay DEF ProjectionInv
<1> QED BY <1>9, <1>10

LEMMA DeleteStep ==
  ASSUME ProjectionInv, NEW c \in Consumers, Delete(c)
  PROVE  ProjectionInv'
<1>1. EventsInv /\ GroupTypes /\ AcknowledgedIsSettled /\ DbInv /\ WorkersInv /\ WorkerTypes /\ Carries(c)
  BY DEF ProjectionInv, GroupInv, WorkersInv
<1>2. /\ worker[c].step \in {"delete", "burn"} /\ deleted' = deleted \cup {Entry(c)}
      /\ Forget(Entry(c)) /\ Advance(c)
      /\ UNCHANGED <<environment, delivered, pending, idle, dlq, expiring, db, dbUp, faults>>
  BY DEF Delete, At
<1>3. Entry(c) \in 1..delivered /\ Entry(c) \notin pending
  BY <1>1, <1>2, EntryIsDelivered DEF Carries
<1>4. retries' \in [1..MaxEvents -> Nat]
  BY <1>1, <1>2, <1>3, ForgotIt
<1>5. EventsInv'
  BY <1>1, <1>2, EventsStay
<1>6. DbInv'
  BY <1>1, <1>2 DEF DbInv, environment
<1>7. GroupInv'
  <2>1. GroupTypes'
    BY <1>1, <1>2, <1>3, <1>4 DEF GroupTypes, environment
  <2>2. AcknowledgedIsSettled'
    BY <1>1, <1>2 DEF AcknowledgedIsSettled, Acknowledged
  <2> QED BY <2>1, <2>2 DEF GroupInv
<1>8. GroupMovesOn
  BY <1>2 DEF GroupMovesOn
<1> QED BY <1>1, <1>2, <1>5, <1>6, <1>7, <1>8, Advanced, OthersStay DEF ProjectionInv

LEMMA RedisErrorStep ==
  ASSUME ProjectionInv, NEW c \in Consumers, RedisError(c)
  PROVE  ProjectionInv'
<1>1. EventsInv /\ GroupTypes /\ AcknowledgedIsSettled /\ DbInv /\ WorkersInv /\ WorkerTypes /\ Carries(c)
  BY DEF ProjectionInv, GroupInv, WorkersInv
<1>2. /\ Fault("redis") /\ worker[c].step \in {"ack", "delete", "bury", "burn", "fail"}
      /\ \/ worker[c].isolated /\ Goto(c, "fail")
         \/ Isolate(c)
         \/ Abandon(c)
      /\ expiring' \in {expiring, expiring \/ Expires(c)}
      /\ \/ deleted' = deleted
         \/ worker[c].step \in {"delete", "burn"} /\ deleted' = deleted \cup {Entry(c)}
      /\ UNCHANGED <<environment, delivered, pending, idle, retries, dlq, db, dbUp>>
  BY DEF RedisError, At
<1>3. Entry(c) \in 1..delivered /\ (worker[c].step \in {"delete", "burn"} => Entry(c) \notin pending)
  BY <1>1, <1>2, EntryIsDelivered DEF Carries
<1>4. faults' \in FaultPlan
  BY <1>1, <1>2, FaultIs DEF GroupTypes
<1>5. EventsInv'
  BY <1>1, <1>2, EventsStay
<1>6. DbInv'
  BY <1>1, <1>2, ExpiresAtTheEnd DEF DbInv, environment
<1>7. GroupInv'
  <2>1. expiring' \in BOOLEAN
    BY <1>1, <1>2 DEF GroupTypes
  <2>2. GroupTypes'
    BY <1>1, <1>2, <1>3, <1>4, <2>1 DEF GroupTypes, environment
  <2>3. AcknowledgedIsSettled'
    BY <1>1, <1>2 DEF AcknowledgedIsSettled, Acknowledged
  <2> QED BY <2>2, <2>3 DEF GroupInv
<1>8. GroupMovesOn
  BY <1>2 DEF GroupMovesOn
<1>9. worker[c] \in WorkerRecord
  BY <1>1 DEF WorkerTypes
<1>10. CASE Abandon(c)
  BY <1>1, <1>5, <1>6, <1>7, <1>8, <1>10, Abandoned, RestingIsRight, OthersStay DEF ProjectionInv
<1>11. CASE Isolate(c)
  <2>1. /\ WorkerTypes' /\ \A d \in Consumers \ {c} : worker'[d] = worker[d]
        /\ worker'[c].step = "project" /\ worker'[c].lane = worker[c].lane
        /\ worker'[c].pos = 1 /\ worker'[c].isolated = TRUE
    BY <1>1, <1>11, IsolatedIt
  <2>2. delivered' = delivered /\ 1 \in 1..Len(worker[c].lane)
    BY <1>1, <1>2, <1>9 DEF Carries, WorkerRecord
  <2>3. Carries(c)'
    BY <1>1, <2>1, <2>2 DEF Carries
  <2> QED BY <1>1, <1>5, <1>6, <1>7, <1>8, <2>1, <2>3, OthersStay DEF ProjectionInv
<1>12. CASE worker[c].isolated /\ Goto(c, "fail")
  <2>1. /\ WorkerTypes' /\ \A d \in Consumers \ {c} : worker'[d] = worker[d]
        /\ worker'[c].step = "fail" /\ worker'[c].lane = worker[c].lane
        /\ worker'[c].pos = worker[c].pos /\ worker'[c].isolated = worker[c].isolated
    BY <1>1, <1>12, Went DEF Steps
  <2>2. Carries(c)'
    BY <1>1, <1>2, <1>12, <2>1 DEF Carries
  <2> QED BY <1>1, <1>5, <1>6, <1>7, <1>8, <2>1, <2>2, OthersStay DEF ProjectionInv
<1> QED BY <1>2, <1>10, <1>11, <1>12

-----------------------------------------------------------------------------
(* The steps of the surroundings. *)

LEMMA RestartStep ==
  ASSUME ProjectionInv, Restart
  PROVE  ProjectionInv'
<1>1. EventsInv /\ GroupTypes /\ AcknowledgedIsSettled /\ DbInv
  BY DEF ProjectionInv, GroupInv
<1>2. /\ Fault("restart") /\ worker' = [c \in Consumers |-> Resting]
      /\ deleted' = deleted \cup {i \in Entries : i < CompactionThreshold}
      /\ UNCHANGED <<environment, delivered, pending, idle, retries, dlq, expiring, db, dbUp>>
  BY DEF Restart
<1>3. {i \in Entries : i < CompactionThreshold} \subseteq (1..delivered) \ pending
  BY <1>1, ThresholdIs
<1>4. faults' \in FaultPlan
  BY <1>1, <1>2, FaultIs DEF GroupTypes
<1>5. EventsInv'
  BY <1>1, <1>2, EventsStay
<1>6. GroupInv'
  <2>1. GroupTypes'
    BY <1>1, <1>2, <1>3, <1>4 DEF GroupTypes, environment
  <2>2. AcknowledgedIsSettled'
    BY <1>1, <1>2 DEF AcknowledgedIsSettled, Acknowledged
  <2> QED BY <2>1, <2>2 DEF GroupInv
<1>7. DbInv'
  BY <1>1, <1>2 DEF DbInv, environment
<1>8. WorkersInv'
  <2>1. Resting \in WorkerRecord
    BY DEF Resting, WorkerRecord, Steps
  <2>2. WorkerTypes'
    BY <1>2, <2>1 DEF WorkerTypes
  <2>3. \A c \in Consumers : worker'[c] = Resting
    BY <1>2
  <2> QED BY <2>2, <2>3, RestingIsRight DEF WorkersInv
<1> QED BY <1>5, <1>6, <1>7, <1>8 DEF ProjectionInv

\* A step that leaves the workers, the rows and the stream alone.
LEMMA QuietStep ==
  ASSUME ProjectionInv, idle' \subseteq pending', dbUp' \in BOOLEAN, faults' \in FaultPlan,
         UNCHANGED <<environment, delivered, pending, deleted, retries, dlq, expiring, worker, db>>
  PROVE  ProjectionInv'
<1>1. EventsInv /\ GroupTypes /\ AcknowledgedIsSettled /\ DbInv /\ WorkersInv
  BY DEF ProjectionInv, GroupInv
<1>2. EventsInv'
  BY <1>1, EventsStay
<1>3. GroupInv'
  <2>1. GroupTypes'
    BY <1>1 DEF GroupTypes, environment
  <2>2. AcknowledgedIsSettled'
    BY <1>1 DEF AcknowledgedIsSettled, Acknowledged
  <2> QED BY <2>1, <2>2 DEF GroupInv
<1>4. DbInv'
  BY <1>1 DEF DbInv, environment
<1>5. WorkersInv'
  BY <1>1 DEF WorkersInv, WorkerTypes, Carries, Entry
<1> QED BY <1>2, <1>3, <1>4, <1>5 DEF ProjectionInv

\* Events are appended, and none is changed.
StreamGrows == Len(stream) <= Len(stream') /\ \A i \in DOMAIN stream : i \in DOMAIN stream' /\ stream'[i] = stream[i]

\* A step that appends events and leaves all else alone.
LEMMA GrowthStep ==
  ASSUME ProjectionInv, EventsInv', StreamGrows, UNCHANGED <<redis, worker, db, dbUp, faults>>
  PROVE  ProjectionInv'
<1>1. EventsInv /\ GroupTypes /\ AcknowledgedIsSettled /\ DbInv /\ WorkersInv
  BY DEF ProjectionInv, GroupInv
<1>2. Len(stream) \in Nat /\ Len(stream') \in Nat /\ Len(stream) <= Len(stream') /\ DOMAIN stream = 1..Len(stream)
  BY <1>1 DEF EventsInv, StreamGrows
<1>3. GroupInv'
  <2>1. delivered' \in 0..Len(stream')
    BY <1>1, <1>2 DEF GroupTypes, redis
  <2>2. GroupTypes'
    BY <1>1, <2>1 DEF GroupTypes, redis
  <2>3. AcknowledgedIsSettled'
    BY <1>1 DEF AcknowledgedIsSettled, Acknowledged, redis
  <2> QED BY <2>2, <2>3 DEF GroupInv
<1>4. DbInv'
  <2>1. db.seq > 0 => db.seq \in DOMAIN stream
    BY <1>1, <1>2 DEF DbInv, DbRecord, GroupTypes
  <2>2. db.seq > 0 => stream'[db.seq] = stream[db.seq]
    BY <2>1 DEF StreamGrows
  <2>3. db' = db /\ delivered' = delivered /\ expiring' = expiring
    BY DEF redis
  <2> QED BY <1>1, <2>2, <2>3 DEF DbInv
<1>5. WorkersInv'
  BY <1>1 DEF WorkersInv, WorkerTypes, Carries, Entry, redis
<1> QED BY <1>3, <1>4, <1>5 DEF ProjectionInv

LEMMA PublishStep ==
  ASSUME ProjectionInv, Publish
  PROVE  ProjectionInv' /\ EventsInv' /\ StreamGrows /\ UNCHANGED <<redis, worker, db, dbUp, faults>>
<1>1. EventsInv
  BY DEF ProjectionInv
<1> DEFINE n == Len(stream)
<1>2. /\ n < Len(script) /\ stream' = Append(stream, script[n + 1]) /\ script' = script
      /\ UNCHANGED <<redis, worker, db, dbUp, faults>>
  BY DEF Publish
<1>3. n \in Nat /\ Len(script) \in Nat /\ n + 1 \in 1..Len(script) /\ n + 1 \in DOMAIN script
  BY <1>1, <1>2 DEF EventsInv
<1>4. script[n + 1] \in Event /\ stream \in Seq(Event)
  BY <1>1, <1>3 DEF EventsInv
<1>5. /\ stream' \in Seq(Event) /\ Len(stream') = n + 1 /\ DOMAIN stream' = 1..(n + 1)
      /\ \A i \in 1..n : stream'[i] = stream[i]
      /\ stream'[n + 1] = script[n + 1] /\ DOMAIN stream = 1..n
  BY <1>2, <1>4, AppendProperties, LenProperties
<1>6. StreamGrows
  BY <1>3, <1>5 DEF StreamGrows
<1> HIDE DEF n
<1>7. EventsInv'
  <2>1. \A i \in 1..n : stream[i] = script[i]
    BY <1>1, <1>5 DEF EventsInv
  <2>2. \A i \in 1..(n + 1) : stream'[i] = script[i]
    BY <1>3, <1>5, <2>1
  <2> QED BY <1>1, <1>2, <1>3, <1>5, <2>2 DEF EventsInv
<1> QED BY <1>2, <1>6, <1>7, GrowthStep

LEMMA AgeStep ==
  ASSUME ProjectionInv, Age
  PROVE  ProjectionInv'
BY QuietStep DEF Age, ProjectionInv, GroupInv, GroupTypes

LEMMA OutageStep ==
  ASSUME ProjectionInv, Outage \/ OutageEnds
  PROVE  ProjectionInv'
<1>1. GroupTypes
  BY DEF ProjectionInv, GroupInv
<1>2. faults' \in FaultPlan /\ dbUp' \in BOOLEAN
  BY <1>1, FaultIs DEF Outage, OutageEnds, GroupTypes
<1> QED BY <1>1, <1>2, QuietStep DEF Outage, OutageEnds, redis, GroupTypes

LEMMA ProjectionSteps == ProjectionInv /\ [Next]_vars => ProjectionInv'
<1> SUFFICES ASSUME ProjectionInv, [Next]_vars PROVE ProjectionInv'
  OBVIOUS
<1>1. CASE UNCHANGED vars
  <2>1. GroupTypes
    BY DEF ProjectionInv, GroupInv
  <2> QED BY <1>1, <2>1, QuietStep DEF vars, redis, GroupTypes
<1>2. ASSUME NEW c \in Consumers, Work(c) PROVE ProjectionInv'
  BY <1>2, ClaimStep, ReadStep, ProjectLaneStep, ProjectEntryStep, RecordFailureStep, AcknowledgeStep,
     DeleteStep DEF Work
<1>3. ASSUME NEW c \in Consumers, RedisError(c) PROVE ProjectionInv'
  BY <1>3, RedisErrorStep
<1> QED BY <1>1, <1>2, <1>3, RestartStep, AgeStep, OutageStep, PublishStep DEF Next, Project

\* Whatever the consumers, the batches, the overlaps and the faults: an entry leaves
\* the pending list only with its receipt or its dead letter, no deletion takes an
\* unsettled one, and keys expire only behind the end of the auction in PostgreSQL
\* (redis-stream.projector.ts).
THEOREM NothingIsEverDropped == Spec => []NothingIsDropped
<1>1. ProjectionInv => NothingIsDropped
  <2> SUFFICES ASSUME ProjectionInv PROVE NothingIsDropped
    OBVIOUS
  <2>1. EventsInv /\ GroupTypes /\ AcknowledgedIsSettled /\ DbInv /\ WorkersInv
    BY DEF ProjectionInv, GroupInv
  <2>2. /\ delivered \in Nat /\ Len(stream) \in Nat /\ delivered <= Len(stream) /\ Entries = 1..Len(stream)
        /\ db.seq \in Nat /\ db.seq <= delivered
    BY <2>1 DEF EventsInv, GroupTypes, Entries, DbInv, DbRecord
  <2>3. 1..delivered \subseteq Entries /\ db.receipts \subseteq Entries
    BY <2>1, <2>2 DEF DbInv
  <2>4. \A c \in Consumers :
          worker[c].step \in Steps /\ Range(worker[c].lane) \subseteq 1..delivered /\ Ascends(worker[c].lane)
    BY <2>1 DEF WorkersInv, WorkerTypes, WorkerRecord, Carries
  <2>5. TypeOK
    BY <2>1, <2>3, <2>4 DEF TypeOK, GroupTypes
  <2>6. UnsettledIsKept
    <3>1. \A i \in deleted : i \in 1..delivered /\ i \notin pending
      BY <2>1 DEF GroupTypes
    <3>2. \A i \in 1..delivered : ~(i > delivered)
      BY <2>2
    <3> QED BY <3>1, <3>2 DEF UnsettledIsKept, Unread
  <2>7. ExpiresOnlyProjected
    BY <2>1 DEF ExpiresOnlyProjected, DbInv
  <2> QED BY <2>1, <2>5, <2>6, <2>7 DEF NothingIsDropped
<1> QED BY <1>1, ProjectionStarts, ProjectionSteps, PTL DEF Spec

-----------------------------------------------------------------------------
(* The replay, and that a longer stream leaves what has been replayed alone. *)

\* The recursion that Replayed chooses a solution of has one.
LEMMA ReplayedIs ==
  ASSUME EventsInv
  PROVE  Replayed = [n \in 0..Len(stream) |-> IF n = 0 THEN EmptyDb ELSE WithEntry(Replayed[n - 1], n)]
<1>1. \E r : r = [n \in 0..Len(stream) |-> IF n = 0 THEN EmptyDb ELSE WithEntry(r[n - 1], n)]
  <2> DEFINE Fine == {k \in Nat : \E r : r = [n \in 0..k |-> IF n = 0 THEN EmptyDb ELSE WithEntry(r[n - 1], n)]}
  <2>1. 0 \in Fine
    <3> DEFINE r == [n \in 0..0 |-> EmptyDb]
    <3>1. r = [n \in 0..0 |-> IF n = 0 THEN EmptyDb ELSE WithEntry(r[n - 1], n)]
      OBVIOUS
    <3> QED BY <3>1
  <2>2. ASSUME NEW k \in Nat, k \in Fine PROVE k + 1 \in Fine
    <3>1. PICK r : r = [n \in 0..k |-> IF n = 0 THEN EmptyDb ELSE WithEntry(r[n - 1], n)]
      BY <2>2
    <3> DEFINE s == [n \in 0..(k + 1) |-> IF n = k + 1 THEN WithEntry(r[k], k + 1) ELSE r[n]]
    <3>2. \A n \in 0..(k + 1) : s[n] = IF n = 0 THEN EmptyDb ELSE WithEntry(s[n - 1], n)
      <4> SUFFICES ASSUME NEW n \in 0..(k + 1) PROVE s[n] = IF n = 0 THEN EmptyDb ELSE WithEntry(s[n - 1], n)
        OBVIOUS
      <4>1. CASE n = k + 1
        <5>1. n - 1 = k /\ n # 0 /\ k \in 0..(k + 1) /\ k # k + 1
          BY <4>1
        <5> QED BY <4>1, <5>1
      <4>2. CASE n \in 0..k
        <5>1. s[n] = r[n] /\ r[n] = IF n = 0 THEN EmptyDb ELSE WithEntry(r[n - 1], n)
          BY <3>1, <4>2
        <5>2. n # 0 => s[n - 1] = r[n - 1]
          BY <4>2
        <5> QED BY <5>1, <5>2
      <4> QED BY <4>1, <4>2
    <3>3. s = [n \in 0..(k + 1) |-> IF n = 0 THEN EmptyDb ELSE WithEntry(s[n - 1], n)]
      BY <3>2
    <3> HIDE DEF s
    <3> QED BY <3>3
  <2>3. Len(stream) \in Fine
    <3>1. Len(stream) \in Nat
      BY DEF EventsInv
    <3> HIDE DEF Fine
    <3> QED BY <2>1, <2>2, <3>1, Induct
  <2> QED BY <2>3
<1> QED BY <1>1, Zenon DEF Replayed

\* The rows of an entry do not depend on what follows it.
LEMMA SameEntry ==
  ASSUME StreamGrows, NEW d, NEW i \in DOMAIN stream
  PROVE  WithEntry(d, i)' = WithEntry(d, i)
<1>1. stream'[i] = stream[i] /\ i \in DOMAIN stream'
  BY DEF StreamGrows
<1>2. BannedBy({i})' = BannedBy({i})
  BY <1>1 DEF BannedBy
<1>3. Snapshot(d, i)' = Snapshot(d, i)
  BY <1>1 DEF Snapshot
<1>4. HistoryRow(i, FALSE)' = HistoryRow(i, FALSE)
  BY <1>1 DEF HistoryRow
<1>5. ({i} \cap {j \in Entries : stream[j].op = "BID"})' = {i} \cap {j \in Entries : stream[j].op = "BID"}
  BY <1>1 DEF Entries
<1>6. ({i} \cap {j \in Entries : CreatesOrder(j)})' = {i} \cap {j \in Entries : CreatesOrder(j)}
  BY <1>1 DEF Entries, CreatesOrder
<1>7. ({HistoryRow(j, FALSE) : j \in {i} \cap {j \in Entries : stream[j].op = "BID"}})' =
        {HistoryRow(j, FALSE) : j \in {i} \cap {j \in Entries : stream[j].op = "BID"}}
  BY <1>1, <1>5 DEF HistoryRow
<1>8. ({OrderRow(j) : j \in {i} \cap {j \in Entries : CreatesOrder(j)}})' =
        {OrderRow(j) : j \in {i} \cap {j \in Entries : CreatesOrder(j)}}
  BY <1>1, <1>6 DEF OrderRow
<1>9. Banned(d, {i})' = Banned(d, {i})
  BY <1>2 DEF Banned, Marked
<1> DEFINE Rows == {HistoryRow(j, FALSE) : j \in {i} \cap {j \in Entries : stream[j].op = "BID"}}
           Orders == {OrderRow(j) : j \in {i} \cap {j \in Entries : CreatesOrder(j)}}
<1>10. WithEntry(d, i) =
         [Snapshot(d, i) EXCEPT !.history = Banned(d, {i}) \cup Rows, !.bans = @ \cup BannedBy({i}),
            !.orders = @ \cup Orders, !.receipts = @ \cup {i}, !.outbox = Append(@, i)]
  BY DEF WithEntry, Banned, Marked
<1>11. WithEntry(d, i)' =
         [Snapshot(d, i)' EXCEPT !.history = Banned(d, {i})' \cup Rows', !.bans = @ \cup BannedBy({i})',
            !.orders = @ \cup Orders', !.receipts = @ \cup {i}, !.outbox = Append(@, i)]
  BY DEF WithEntry, Banned, Marked
<1> HIDE DEF Rows, Orders
<1> QED BY <1>2, <1>3, <1>7, <1>8, <1>9, <1>10, <1>11 DEF Rows, Orders


LEMMA ReplayedNext ==
  (EventsInv => Replayed = [n \in 0..Len(stream) |-> IF n = 0 THEN EmptyDb ELSE WithEntry(Replayed[n - 1], n)])'
<1>1. EventsInv => Replayed = [n \in 0..Len(stream) |-> IF n = 0 THEN EmptyDb ELSE WithEntry(Replayed[n - 1], n)]
  BY ReplayedIs
<1> QED BY <1>1, PTL

\* What has been replayed stays so when the stream grows.
LEMMA ReplayGrows ==
  ASSUME EventsInv, EventsInv', StreamGrows
  PROVE  \A n \in 0..Len(stream) : Replayed'[n] = Replayed[n]
<1>1. /\ Len(stream) \in Nat /\ Len(stream') \in Nat /\ Len(stream) <= Len(stream')
      /\ DOMAIN stream = 1..Len(stream)
  BY DEF EventsInv, StreamGrows
<1> DEFINE Same == {n \in Nat : n <= Len(stream) => Replayed'[n] = Replayed[n]}
<1>2. 0 \in Same
  <2>1. Replayed[0] = EmptyDb
    BY <1>1, ReplayedIs
  <2>2. Replayed'[0] = EmptyDb
    BY <1>1, ReplayedNext DEF EmptyDb
  <2> QED BY <2>1, <2>2
<1>3. ASSUME NEW n \in Nat, n \in Same PROVE n + 1 \in Same
  <2> SUFFICES ASSUME n + 1 <= Len(stream) PROVE Replayed'[n + 1] = Replayed[n + 1]
    OBVIOUS
  <2>1. PICK v : v = Replayed[n]
    OBVIOUS
  <2>2. v = Replayed'[n]
    BY <1>1, <1>3, <2>1
  <2>3. Replayed[n + 1] = WithEntry(v, n + 1)
    <3>1. n + 1 \in 0..Len(stream) /\ n + 1 # 0 /\ (n + 1) - 1 = n
      BY <1>1
    <3> QED BY <2>1, <3>1, ReplayedIs
  <2>4. Replayed'[n + 1] = WithEntry(v, n + 1)'
    <3>1. n + 1 \in 0..Len(stream') /\ n + 1 # 0 /\ (n + 1) - 1 = n
      BY <1>1
    <3> QED BY <2>2, <3>1, ReplayedNext
  <2>5. WithEntry(v, n + 1)' = WithEntry(v, n + 1)
    BY <1>1, SameEntry
  <2> QED BY <2>3, <2>4, <2>5
<1> HIDE DEF Same
<1>4. Nat \subseteq Same
  BY <1>2, <1>3, Induct
<1> QED BY <1>1, <1>4 DEF Same

-----------------------------------------------------------------------------
(* What one more event adds to a replay, in terms of the event. *)

BannedIn(event) == IF event.op = "BAN" THEN {event.target} ELSE {}
BidIn(event, i) ==
  IF event.op = "BID"
  THEN {[seq |-> i, user |-> event.actor, max |-> event.amount, banned |-> FALSE]} ELSE {}
OrderIn(event, i) ==
  IF event.order /\ event.leader # NobodyLeads THEN {[seq |-> i, buyer |-> event.leader]} ELSE {}

\* e is d with the rows of event i.
HasEvent(e, d, event, i) ==
  /\ e \in DbRecord
  /\ e.seq = i /\ e.price = event.price /\ e.leader = event.leader
  /\ e.endAt = event.endAt /\ e.status = event.status
  /\ e.history = {Marked(h, BannedIn(event)) : h \in d.history} \cup BidIn(event, i)
  /\ e.bans = d.bans \cup BannedIn(event)
  /\ e.orders = d.orders \cup OrderIn(event, i)

LEMMA EventEntry ==
  ASSUME EventsInv, NEW d \in DbRecord, NEW i \in Entries
  PROVE  HasEvent(WithEntry(d, i), d, stream[i], i)
<1>1. HasEntry(WithEntry(d, i), d, i)
  BY EntryIs
<1>2. BannedBy({i}) = BannedIn(stream[i])
  BY DEF BannedBy, BannedIn
<1>3. Banned(d, {i}) = {Marked(h, BannedIn(stream[i])) : h \in d.history}
  BY <1>2 DEF Banned
<1>4. {HistoryRow(j, FALSE) : j \in {i} \cap {j \in Entries : stream[j].op = "BID"}} = BidIn(stream[i], i)
  <2>1. CASE stream[i].op = "BID"
    <3>1. {i} \cap {j \in Entries : stream[j].op = "BID"} = {i}
      BY <2>1
    <3> QED BY <2>1, <3>1 DEF BidIn, HistoryRow
  <2>2. CASE stream[i].op # "BID"
    <3>1. {i} \cap {j \in Entries : stream[j].op = "BID"} = {}
      BY <2>2
    <3> QED BY <2>2, <3>1 DEF BidIn
  <2> QED BY <2>1, <2>2
<1>5. {OrderRow(j) : j \in {i} \cap {j \in Entries : CreatesOrder(j)}} = OrderIn(stream[i], i)
  <2>1. CASE CreatesOrder(i)
    <3>1. {i} \cap {j \in Entries : CreatesOrder(j)} = {i}
      BY <2>1
    <3> QED BY <2>1, <3>1 DEF OrderIn, OrderRow, CreatesOrder
  <2>2. CASE ~CreatesOrder(i)
    <3>1. {i} \cap {j \in Entries : CreatesOrder(j)} = {}
      BY <2>2
    <3> QED BY <2>2, <3>1 DEF OrderIn, CreatesOrder
  <2> QED BY <2>1, <2>2
<1> QED BY <1>1, <1>2, <1>3, <1>4, <1>5 DEF HasEntry, HasEvent

LEMMA EventEntryNext ==
  (EventsInv => \A d \in DbRecord : \A i \in Entries : HasEvent(WithEntry(d, i), d, stream[i], i))'
<1>1. EventsInv => \A d \in DbRecord : \A i \in Entries : HasEvent(WithEntry(d, i), d, stream[i], i)
  BY EventEntry
<1> QED BY <1>1, PTL

\* The replay of a stream that has grown by an event.
LEMMA OneEventMore ==
  ASSUME EventsInv, EventsInv', StreamGrows, NEW n \in Nat, n = Len(stream), Len(stream') = n + 1,
         NEW d \in DbRecord, d = Replayed[n]
  PROVE  HasEvent(Replayed'[n + 1], d, stream'[n + 1], n + 1)
<1>1. Replayed'[n] = d
  BY ReplayGrows
<1>2. Replayed'[n + 1] = WithEntry(d, n + 1)'
  <2>1. n + 1 \in 0..Len(stream') /\ n + 1 # 0 /\ (n + 1) - 1 = n
    OBVIOUS
  <2> QED BY <1>1, <2>1, ReplayedNext
<1>3. n + 1 \in Entries'
  BY DEF Entries, EventsInv
<1>4. HasEvent(WithEntry(d, n + 1)', d, stream'[n + 1], n + 1)
  BY <1>3, EventEntryNext
<1> QED BY <1>2, <1>4

-----------------------------------------------------------------------------
(* A batch is projected as its entries would be, one by one. *)

\* Users are banned by the entries together whom they ban apart.
LEMMA BansOfAll ==
  ASSUME EventsInv, NEW S \in SUBSET Entries, NEW T \in SUBSET Entries
  PROVE  BannedBy(S \cup T) = BannedBy(S) \cup BannedBy(T)
BY DEF BannedBy

\* A mark after another marks what the two of them do.
LEMMA MarkedTwice ==
  ASSUME NEW h \in HistoryRecord, NEW A, NEW B
  PROVE  Marked(Marked(h, A), B) = Marked(h, A \cup B)
BY DEF Marked, HistoryRecord

LEMMA MarkedRow ==
  ASSUME NEW j, NEW A, NEW B
  PROVE  Marked(HistoryRow(j, stream[j].actor \in A), B) = HistoryRow(j, stream[j].actor \in A \cup B)
<1> DEFINE b == (stream[j].actor \in A)
           c == (stream[j].actor \in A \cup B)
<1>1. b \in BOOLEAN /\ c = (b \/ stream[j].actor \in B)
  OBVIOUS
<1> HIDE DEF b, c
<1>2. Marked(HistoryRow(j, b), B) = HistoryRow(j, b \/ stream[j].actor \in B)
  BY <1>1 DEF Marked, HistoryRow
<1> QED BY <1>1, <1>2 DEF b, c

\* The rows of one more entry.
LEMMA OneMore ==
  ASSUME EventsInv, NEW d \in DbRecord, NEW e \in DbRecord, NEW f, NEW q \in Seq(Nat),
         NEW S \in SUBSET Entries, NEW i \in Entries, \A j \in S : j < i,
         HasRows(e, d, q, S), HasEntry(f, e, i)
  PROVE  HasRows(f, d, q \o <<i>>, S \cup {i})
<1> DEFINE T == S \cup {i}
<1>1. T \in SUBSET Entries /\ i \in Nat /\ \A j \in Entries : j \in Nat
  BY EventIs
<1>2. BannedBy(T) = BannedBy(S) \cup BannedBy({i})
  BY BansOfAll
<1>3. \A j \in S : {m \in T : m > j} = {m \in S : m > j} \cup {i}
  BY <1>1
<1>4. {m \in T : m > i} = {}
  <2>1. \A m \in S : m \in Nat /\ m < i
    BY <1>1
  <2>2. \A m \in T : ~(m > i)
    BY <1>1, <2>1
  <2> QED BY <2>2
<1>5. BannedBy({m \in T : m > i}) = {}
  BY <1>4 DEF BannedBy
<1>6. \A h \in d.history : Marked(Marked(h, BannedBy(S)), BannedBy({i})) = Marked(h, BannedBy(T))
  <2>1. \A h \in d.history : h \in HistoryRecord
    BY DEF DbRecord
  <2>2. \A h \in d.history : Marked(Marked(h, BannedBy(S)), BannedBy({i})) =
                              Marked(h, BannedBy(S) \cup BannedBy({i}))
    <3> SUFFICES ASSUME NEW h \in d.history
                 PROVE  Marked(Marked(h, BannedBy(S)), BannedBy({i})) =
                          Marked(h, BannedBy(S) \cup BannedBy({i}))
      OBVIOUS
    <3>1. h \in HistoryRecord
      BY <2>1
    <3>2. \A A, B : Marked(Marked(h, A), B) = Marked(h, A \cup B)
      BY <3>1, MarkedTwice
    <3> HIDE DEF T
    <3> QED BY <3>2, Zenon
  <2> QED BY <1>2, <2>2
<1>7. \A j \in S : Marked(RowOf(j, S), BannedBy({i})) = RowOf(j, T)
  <2> SUFFICES ASSUME NEW j \in S PROVE Marked(RowOf(j, S), BannedBy({i})) = RowOf(j, T)
    OBVIOUS
  <2>1. BannedBy({m \in T : m > j}) = BannedBy({m \in S : m > j}) \cup BannedBy({i})
    BY <1>3, BansOfAll
  <2>2. Marked(RowOf(j, S), BannedBy({i})) =
          HistoryRow(j, stream[j].actor \in BannedBy({m \in S : m > j}) \cup BannedBy({i}))
    BY MarkedRow, Zenon DEF RowOf
  <2>3. RowOf(j, T) = HistoryRow(j, stream[j].actor \in BannedBy({m \in T : m > j}))
    BY DEF RowOf
  <2> QED BY <2>1, <2>2, <2>3
<1>8. RowOf(i, T) = HistoryRow(i, FALSE)
  <2>1. (stream[i].actor \in BannedBy({m \in T : m > i})) = FALSE
    BY <1>5
  <2> QED BY <2>1, Zenon DEF RowOf
<1>9. BidsOf(T) = BidsOf(S) \cup BidsOf({i})
  BY DEF BidsOf
<1>10. f.history = Banned(e, {i}) \cup {RowOf(j, T) : j \in BidsOf({i})}
  <2>1. BidsOf({i}) = {i} \cap {j \in Entries : stream[j].op = "BID"}
    BY DEF BidsOf
  <2>2. \A j \in BidsOf({i}) : j = i
    BY <2>1
  <2>3. {RowOf(j, T) : j \in BidsOf({i})} = {HistoryRow(j, FALSE) : j \in BidsOf({i})}
    <3> HIDE DEF T
    <3> QED BY <1>8, <2>2
  <2> QED BY <2>1, <2>3 DEF HasEntry
<1>11. Banned(e, {i}) = Banned(d, T) \cup {RowOf(j, T) : j \in BidsOf(S)}
  <2>1. e.history = {Marked(h, BannedBy(S)) : h \in d.history} \cup {RowOf(j, S) : j \in BidsOf(S)}
    BY DEF HasRows, Banned
  <2>2. \A j \in BidsOf(S) : j \in S
    BY DEF BidsOf
  <2>3. Banned(e, {i}) = {Marked(g, BannedBy({i})) : g \in e.history}
    BY DEF Banned
  <2>4. Banned(d, T) = {Marked(h, BannedBy(T)) : h \in d.history}
    BY DEF Banned
  <2> DEFINE D == d.history
             E == e.history
             A == BannedBy(S)
             B == BannedBy({i})
             C == BannedBy(T)
             Old == BidsOf(S)
  <2>5. /\ E = {Marked(h, A) : h \in D} \cup {RowOf(j, S) : j \in Old}
        /\ \A h \in D : Marked(Marked(h, A), B) = Marked(h, C)
        /\ \A j \in Old : Marked(RowOf(j, S), B) = RowOf(j, T)
    BY <1>6, <1>7, <2>1, <2>2
  <2> HIDE DEF T, D, E, A, B, C, Old
  <2>6. \A g \in E : Marked(g, B) \in {Marked(h, C) : h \in D} \cup {RowOf(j, T) : j \in Old}
    BY <2>5
  <2>7. \A h \in D : Marked(h, C) \in {Marked(g, B) : g \in E}
    BY <2>5
  <2>8. \A j \in Old : RowOf(j, T) \in {Marked(g, B) : g \in E}
    BY <2>5
  <2>9. {Marked(g, B) : g \in E} = {Marked(h, C) : h \in D} \cup {RowOf(j, T) : j \in Old}
    BY <2>6, <2>7, <2>8
  <2> QED BY <2>3, <2>4, <2>9 DEF D, E, A, B, C, Old
<1>12. f.history = Banned(d, T) \cup {RowOf(j, T) : j \in BidsOf(T)}
  <2> HIDE DEF T
  <2> QED BY <1>9, <1>10, <1>11
<1>13. f.bans = d.bans \cup BannedBy(T) /\ f.receipts = d.receipts \cup T
  BY <1>2 DEF HasRows, HasEntry
<1>14. f.orders = d.orders \cup {OrderRow(j) : j \in {j \in T : CreatesOrder(j)}}
  BY DEF HasRows, HasEntry
<1>15. f.outbox = d.outbox \o (q \o <<i>>)
  <2>1. d.outbox \in Seq(Nat) /\ e.outbox = d.outbox \o q /\ <<i>> \in Seq(Nat)
    BY <1>1 DEF HasRows, DbRecord
  <2>2. e.outbox \in Seq(Nat) /\ f.outbox = Append(e.outbox, i)
    BY DEF HasEntry, DbRecord
  <2>3. f.outbox = e.outbox \o <<i>>
    BY <1>1, <2>2, AppendIsConcat
  <2>4. (d.outbox \o q) \o <<i>> = d.outbox \o (q \o <<i>>)
    <3> DEFINE r == <<i>>
    <3>1. d.outbox \in Seq(Nat) /\ q \in Seq(Nat) /\ r \in Seq(Nat)
      BY <2>1
    <3> HIDE DEF r
    <3>2. (d.outbox \o q) \o r = d.outbox \o (q \o r)
      <4> DEFINE o == d.outbox
      <4> HIDE DEF o
      <4>1. o \in Seq(Nat)
        BY <3>1 DEF o
      <4>2. \A a, b, c \in Seq(Nat) : (a \o b) \o c = a \o (b \o c)
        BY ConcatAssociative
      <4>3. (o \o q) \o r = o \o (q \o r)
        BY <3>1, <4>1, <4>2
      <4> QED BY <4>3 DEF o
    <3> QED BY <3>2 DEF r
  <2> QED BY <2>1, <2>3, <2>4
<1> QED BY <1>12, <1>13, <1>14, <1>15 DEF HasRows

LEMMA SameDb ==
  ASSUME NEW a \in DbRecord, NEW b \in DbRecord,
         a.seq = b.seq, a.price = b.price, a.leader = b.leader, a.endAt = b.endAt, a.status = b.status,
         a.history = b.history, a.bans = b.bans, a.orders = b.orders, a.receipts = b.receipts,
         a.outbox = b.outbox
  PROVE  a = b
BY DEF DbRecord

LEMMA ReplayedNextEntry ==
  ASSUME EventsInv, NEW n \in Nat, n + 1 <= Len(stream)
  PROVE  Replayed[n + 1] = WithEntry(Replayed[n], n + 1)
<1>1. Len(stream) \in Nat
  BY DEF EventsInv
<1>2. n + 1 \in 0..Len(stream) /\ n + 1 # 0 /\ (n + 1) - 1 = n
  BY <1>1
<1> QED BY <1>2, ReplayedIs

\* What a replay has added to the rows of d after k more entries.
LEMMA ReplayRows ==
  ASSUME EventsInv, NEW d \in DbRecord, d = Replayed[d.seq], NEW n \in Nat, d.seq + n <= Len(stream)
  PROVE  /\ Replayed[d.seq + n] \in DbRecord
         /\ HasRows(Replayed[d.seq + n], d, [j \in 1..n |-> d.seq + j], (d.seq + 1)..(d.seq + n))
<1>1. Len(stream) \in Nat /\ d.seq \in Nat /\ Entries = 1..Len(stream)
  BY DEF EventsInv, DbRecord, Entries
<1> DEFINE s == d.seq
           First(k) == [j \in 1..k |-> s + j]
           After(k) == (s + 1)..(s + k)
           Fine == {k \in Nat : s + k <= Len(stream) =>
                      /\ Replayed[s + k] \in DbRecord
                      /\ HasRows(Replayed[s + k], d, First(k), After(k))}
<1>2. 0 \in Fine
  <2>1. After(0) = {} /\ First(0) = <<>> /\ s + 0 = s
    BY <1>1
  <2>2. BannedBy({}) = {} /\ BidsOf({}) = {}
    BY DEF BannedBy, BidsOf
  <2>3. \A h \in d.history : Marked(h, {}) = h
    BY DEF DbRecord, HistoryRecord, Marked
  <2>4. Banned(d, {}) = d.history
    BY <2>2, <2>3 DEF Banned
  <2>5. d.outbox \o <<>> = d.outbox
    BY ConcatEmptySeq DEF DbRecord
  <2>6. HasRows(d, d, <<>>, {})
    BY <2>2, <2>4, <2>5 DEF HasRows
  <2> QED BY <2>1, <2>6
<1>3. ASSUME NEW k \in Nat, k \in Fine PROVE k + 1 \in Fine
  <2> DEFINE i == s + k + 1
  <2> SUFFICES ASSUME i <= Len(stream)
               PROVE  Replayed[i] \in DbRecord /\ HasRows(Replayed[i], d, First(k + 1), After(k + 1))
    BY <1>1
  <2>1. s \in Nat /\ s + k \in Nat /\ i \in Entries /\ s + k <= Len(stream)
    BY <1>1
  <2>2. PICK e : e = Replayed[s + k]
    OBVIOUS
  <2>3. e \in DbRecord /\ HasRows(e, d, First(k), After(k))
    BY <1>3, <2>1, <2>2
  <2>4. Replayed[i] = WithEntry(e, i)
    BY <2>1, <2>2, ReplayedNextEntry
  <2>5. PICK f : f = Replayed[i]
    OBVIOUS
  <2>6. HasEntry(f, e, i)
    BY <2>1, <2>3, <2>4, <2>5, EntryIs
  <2>7. First(k) \in Seq(Nat) /\ First(k + 1) = First(k) \o <<i>>
    <3>1. First(k) \in Seq(Nat) /\ Len(First(k)) = k /\ DOMAIN First(k) = 1..k
      BY <2>1
    <3>2. First(k + 1) \in Seq(Nat) /\ Len(First(k + 1)) = k + 1
      BY <2>1
    <3>3. i \in Nat /\ <<i>> \in Seq(Nat) /\ Len(<<i>>) = 1 /\ <<i>>[1] = i
      BY <2>1
    <3>4. /\ First(k) \o <<i>> \in Seq(Nat) /\ Len(First(k) \o <<i>>) = k + 1
          /\ \A j \in 1..(k + 1) : (First(k) \o <<i>>)[j] = IF j <= k THEN First(k)[j] ELSE <<i>>[j - k]
      BY <3>1, <3>3, ConcatProperties
    <3>5. \A j \in 1..(k + 1) : First(k + 1)[j] = (First(k) \o <<i>>)[j]
      <4> SUFFICES ASSUME NEW j \in 1..(k + 1) PROVE First(k + 1)[j] = (First(k) \o <<i>>)[j]
        OBVIOUS
      <4>1. CASE j <= k
        BY <3>4, <4>1
      <4>2. CASE j = k + 1
        <5>1. ~(j <= k) /\ j - k = 1 /\ s + j = i
          BY <2>1, <4>2
        <5>2. (First(k) \o <<i>>)[j] = i
          BY <3>3, <3>4, <5>1
        <5> QED BY <5>1, <5>2
      <4> QED BY <4>1, <4>2
    <3> HIDE DEF First
    <3> QED BY <3>1, <3>2, <3>4, <3>5, SeqEqual
  <2>8. After(k + 1) = After(k) \cup {i} /\ After(k) \in SUBSET Entries /\ \A j \in After(k) : j < i
    BY <1>1, <2>1
  <2> HIDE DEF First, After, i
  <2>9. HasRows(f, d, First(k) \o <<i>>, After(k) \cup {i})
    BY <2>1, <2>3, <2>6, <2>7, <2>8, OneMore
  <2> QED BY <2>5, <2>6, <2>7, <2>8, <2>9 DEF HasEntry
<1> HIDE DEF Fine
<1>4. Nat \subseteq Fine
  BY <1>2, <1>3, Induct
<1> QED BY <1>4 DEF Fine

\* A batch leaves the rows a replay of its entries leaves.
LEMMA LaneIsReplay ==
  ASSUME EventsInv, NEW d \in DbRecord, d = Replayed[d.seq], NEW new \in Seq(Nat), NEW n \in Nat,
         n = Len(new), \A k \in 1..n : new[k] = d.seq + k, d.seq + n <= Len(stream)
  PROVE  WithLane(d, new) = Replayed[d.seq + n]
<1>1. d.seq \in Nat /\ Len(stream) \in Nat
  BY DEF DbRecord, EventsInv
<1>2. CASE n = 0
  <2>1. new = <<>> /\ d.seq + n = d.seq
    <3>1. d.seq + n = d.seq
      BY <1>1, <1>2
    <3>2. new # <<>> => Len(new) \in Nat \ {0}
      BY EmptySeq
    <3> QED BY <1>2, <3>1, <3>2
  <2> QED BY <2>1 DEF WithLane
<1>3. CASE n # 0
  <2> DEFINE S == (d.seq + 1)..(d.seq + n)
             m == n - 1
             i == d.seq + n
  <2>1. m \in Nat /\ d.seq + m \in Nat /\ d.seq + m <= Len(stream) /\ (d.seq + m) + 1 = i /\ i \in Entries
    <3>1. n >= 1 /\ m \in Nat /\ m + 1 = n
      BY <1>3
    <3> HIDE DEF m
    <3>2. d.seq + m \in Nat /\ d.seq + m <= Len(stream) /\ (d.seq + m) + 1 = i
      BY <1>1, <3>1
    <3>3. i \in 1..Len(stream)
      BY <1>1, <3>1
    <3>4. Entries = 1..Len(stream)
      BY DEF Entries, EventsInv
    <3> QED BY <3>1, <3>2, <3>3, <3>4
  <2>2. PICK e : e = Replayed[d.seq + m]
    OBVIOUS
  <2>3. PICK f : f = Replayed[i]
    OBVIOUS
  <2>4. e \in DbRecord
    BY <2>1, <2>2, ReplayRows
  <2>5. f = WithEntry(e, i)
    BY <2>1, <2>2, <2>3, ReplayedNextEntry
  <2>6. HasEntry(f, e, i)
    BY <2>1, <2>4, <2>5, EntryIs
  <2>7. [j \in 1..n |-> d.seq + j] = new
    <3>1. DOMAIN new = 1..n
      BY LenProperties
    <3> QED BY <3>1
  <2>8. f \in DbRecord /\ HasRows(f, d, new, S)
    BY <2>3, <2>7, ReplayRows
  <2>9. HasLane(WithLane(d, new), d, new, n, S)
    BY <1>1, <1>3, LaneIs
  <2>10. PICK g : g = WithLane(d, new)
    OBVIOUS
  <2> HIDE DEF S
  <2>11. g \in DbRecord /\ HasRows(g, d, new, S)
    BY <2>9, <2>10 DEF HasLane
  <2>12. /\ g.seq = f.seq /\ g.price = f.price /\ g.leader = f.leader /\ g.endAt = f.endAt
         /\ g.status = f.status
    BY <2>6, <2>9, <2>10 DEF HasLane, HasEntry
  <2>13. /\ g.history = f.history /\ g.bans = f.bans /\ g.orders = f.orders
         /\ g.receipts = f.receipts /\ g.outbox = f.outbox
    BY <2>8, <2>11 DEF HasRows
  <2>14. g = f
    BY <2>8, <2>11, <2>12, <2>13, SameDb
  <2> QED BY <2>3, <2>10, <2>14
<1> QED BY <1>2, <1>3

-----------------------------------------------------------------------------
(* The rows are those of a replay. *)

ReplayInv == ProjectionInv /\ ProjectionIsReplay

\* The rows of a new auction are those of an empty replay.
LEMMA RowsStart ==
  ASSUME ProjectionInv, InitProjection
  PROVE  ReplayInv
<1>1. EventsInv /\ db = EmptyDb /\ db.seq = 0 /\ Len(stream) \in Nat
  BY DEF ProjectionInv, InitProjection, EmptyDb, EventsInv
<1>2. Replayed[0] = EmptyDb
  BY <1>1, ReplayedIs
<1> QED BY <1>1, <1>2 DEF ReplayInv, ProjectionIsReplay

LEMMA ReplayStarts == Init => ReplayInv
BY ProjectionStarts, RowsStart DEF Init

\* Rows that are those of a replay are so of a longer stream.
LEMMA StaysReplayed ==
  ASSUME EventsInv, EventsInv', StreamGrows,
         NEW n \in 0..Len(stream), db' = Replayed[n], db'.seq = n
  PROVE  ProjectionIsReplay'
<1>1. Replayed'[n] = Replayed[n]
  BY ReplayGrows
<1> QED BY <1>1 DEF ProjectionIsReplay

\* A step that appends events and leaves all else alone.
LEMMA ReplayGrowth ==
  ASSUME ReplayInv, EventsInv', StreamGrows, UNCHANGED <<redis, worker, db, dbUp, faults>>
  PROVE  ReplayInv'
<1>1. ProjectionInv' /\ EventsInv
  BY GrowthStep DEF ReplayInv, ProjectionInv
<1>2. db' = db /\ db = Replayed[db.seq] /\ db.seq \in 0..Len(stream)
  BY DEF ReplayInv, ProjectionInv, GroupInv, GroupTypes, ProjectionIsReplay, DbInv, DbRecord, EventsInv
<1>3. ProjectionIsReplay'
  BY <1>1, <1>2, StaysReplayed
<1> QED BY <1>1, <1>3 DEF ReplayInv

\* The rows once the whole stream is projected.
LEMMA WholeReplay ==
  ASSUME ReplayInv
  PROVE  /\ Replayed[Len(stream)] \in DbRecord
         /\ db.seq = Len(stream) => db = Replayed[Len(stream)]
<1>1. /\ EventsInv /\ db \in DbRecord /\ db = Replayed[db.seq]
      /\ db.seq \in 0..Len(stream) /\ Len(stream) \in Nat
  BY DEF ReplayInv, ProjectionInv, GroupInv, GroupTypes, DbInv, DbRecord, ProjectionIsReplay, EventsInv
<1>2. PICK n \in Nat : db.seq + n = Len(stream)
  <2>1. Len(stream) - db.seq \in Nat /\ db.seq + (Len(stream) - db.seq) = Len(stream)
    BY <1>1
  <2> QED BY <2>1
<1>3. PICK d \in DbRecord : d = db
  BY <1>1
<1>4. d = Replayed[d.seq] /\ d.seq + n = Len(stream) /\ d.seq + n <= Len(stream)
  BY <1>1, <1>2, <1>3
<1>5. Replayed[d.seq + n] \in DbRecord
  BY <1>1, <1>4, ReplayRows
<1> QED BY <1>1, <1>4, <1>5

LEMMA ReplaySteps == ReplayInv /\ [Next]_vars => ReplayInv'
<1> SUFFICES ASSUME ReplayInv, [Next]_vars PROVE ReplayInv'
  OBVIOUS
<1>1. ProjectionInv /\ ProjectionInv'
  BY ProjectionSteps DEF ReplayInv
<1>2. EventsInv /\ GroupTypes /\ DbInv /\ WorkerTypes /\ (\A c \in Consumers : Carries(c)) /\ EventsInv'
  BY <1>1 DEF ProjectionInv, GroupInv, WorkersInv
<1>3. db \in DbRecord /\ db = Replayed[db.seq] /\ db.seq \in 0..Len(stream) /\ Len(stream) \in Nat
  BY <1>2 DEF ReplayInv, ProjectionIsReplay, DbInv, DbRecord, GroupTypes, EventsInv
<1>4. ASSUME UNCHANGED environment PROVE StreamGrows
  BY <1>3, <1>4 DEF StreamGrows, environment
<1>5. ASSUME UNCHANGED <<environment, db>> PROVE ProjectionIsReplay'
  BY <1>2, <1>3, <1>4, <1>5, StaysReplayed
<1>6. ASSUME NEW c \in Consumers, ProjectLane(c) PROVE ProjectionIsReplay'
  <2>1. UNCHANGED <<environment, redis>>
    BY <1>6 DEF ProjectLane
  <2>2. PICK new : new = InOrder(Range(worker[c].lane) \ db.receipts)
    OBVIOUS
  <2>3. CASE Follows(new) /\ db' = WithLane(db, new)
    <3>1. /\ Len(new) \in Nat /\ db.seq + Len(new) <= delivered /\ new \in Seq(Nat)
          /\ \A k \in 1..Len(new) : new[k] = db.seq + k
      BY <1>2, <2>1, <2>2, <2>3, LaneStep
    <3>2. PICK n \in Nat : n = Len(new)
      BY <3>1
    <3>3. db.seq + n <= Len(stream) /\ db.seq + n \in 0..Len(stream)
      BY <1>2, <1>3, <3>1, <3>2 DEF GroupTypes
    <3>4. WithLane(db, new) = Replayed[db.seq + n]
      BY <1>2, <1>3, <3>1, <3>2, <3>3, LaneIsReplay
    <3>5. Replayed[db.seq + n].seq = db.seq + n
      <4>1. CASE n = 0
        BY <1>3, <4>1
      <4>2. CASE n # 0
        <5>1. HasLane(WithLane(db, new), db, new, n, (db.seq + 1)..(db.seq + n))
          BY <1>2, <1>3, <3>1, <3>2, <3>3, <4>2, LaneIs
        <5> QED BY <3>4, <5>1 DEF HasLane
      <4> QED BY <4>1, <4>2
    <3> QED BY <1>2, <1>4, <2>1, <2>3, <3>3, <3>4, <3>5, StaysReplayed
  <2>4. CASE db' = db
    BY <1>5, <2>1, <2>4
  <2> QED BY <1>6, <2>2, <2>3, <2>4 DEF ProjectLane
<1>7. ASSUME NEW c \in Consumers, ProjectEntry(c) PROVE ProjectionIsReplay'
  <2>1. UNCHANGED <<environment, redis>>
    BY <1>7 DEF ProjectEntry
  <2>2. CASE Follows(<<Entry(c)>>) /\ db' = WithEntry(db, Entry(c))
    <3>1. Entry(c) = db.seq + 1 /\ Entry(c) \in 1..delivered
      BY <1>2, <1>7, <2>2, EntryIsDelivered DEF Follows, ProjectEntry, At
    <3>2. db.seq + 1 \in 0..Len(stream) /\ db.seq + 1 <= Len(stream) /\ db.seq \in Nat /\ db.seq + 1 \in Entries
      BY <1>2, <1>3, <3>1 DEF GroupTypes, Entries, EventsInv
    <3>3. db' = Replayed[db.seq + 1]
      BY <1>2, <1>3, <2>2, <3>1, <3>2, ReplayedNextEntry
    <3>4. HasEntry(db', db, db.seq + 1)
      BY <1>2, <1>3, <2>2, <3>1, <3>2, EntryIs
    <3> QED BY <1>2, <1>4, <2>1, <3>2, <3>3, <3>4, StaysReplayed DEF HasEntry
  <2>3. CASE db' = db
    BY <1>5, <2>1, <2>3
  <2> QED BY <1>7, <2>2, <2>3 DEF ProjectEntry
<1>8. ASSUME Publish PROVE ProjectionIsReplay'
  BY <1>1, <1>8, PublishStep, ReplayGrowth DEF ReplayInv
<1>9. ASSUME UNCHANGED vars PROVE ProjectionIsReplay'
  BY <1>5, <1>9 DEF vars
<1>10. ASSUME NEW c \in Consumers, Work(c) \/ RedisError(c) PROVE ProjectionIsReplay'
  BY <1>5, <1>6, <1>7, <1>10 DEF Work, Claim, Read, RecordFailure, Acknowledge, Delete, RedisError
<1>11. ASSUME Restart \/ Age \/ Outage \/ OutageEnds PROVE ProjectionIsReplay'
  BY <1>5, <1>11 DEF Restart, Age, Outage, OutageEnds
<1>12. ProjectionIsReplay'
  BY <1>8, <1>9, <1>10, <1>11 DEF Next, Project
<1> QED BY <1>1, <1>12 DEF ReplayInv

\* However the entries are batched, retried and overlapped, the rows in PostgreSQL
\* are those of a replay of a prefix of the stream, entry by entry: each event once,
\* in order, bans and orders included (projectAuctionLane and projectAuctionEntry).
THEOREM RowsAreAlwaysAReplay == Spec => []ProjectionIsReplay
<1>1. ReplayInv => ProjectionIsReplay
  BY DEF ReplayInv
<1> QED BY <1>1, ReplayStarts, ReplaySteps, PTL DEF Spec
=============================================================================
