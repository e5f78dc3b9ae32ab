------------------------ MODULE EventDeliveryProofs ------------------------
(***************************************************************************)
(* Theorems about the way from a change to the mails about it, for any     *)
(* number of events, relays, mailers, stops, replays and faults: what the  *)
(* outbox promises, that nothing is lost between the log and the mails,    *)
(* and what is done twice.                                                 *)
(***************************************************************************)
EXTENDS EventDelivery, AscendingProofs, SequenceTheorems

-----------------------------------------------------------------------------
(* The outbox and its relays. *)

RowRecord == [event : Events, state : {"waiting", "delivered", "terminal"}, due : BOOLEAN]
RelayRecord == {Free} \cup [step : {"validate", "mark", "retry"}, batch : SUBSET Nat]

RelayTypes ==
  /\ outbox \in Seq(RowRecord) /\ log \in Seq(Events)
  /\ relay \in [Relays -> RelayRecord] /\ \A r \in Relays : relay[r].batch \subseteq Rows
  /\ trial \in Trials /\ faults \in Nat /\ replays \in Nat

\* What is on the log was recorded and is well-formed, and what is marked, or about
\* to be marked, is on the log or malformed.
ChannelInv ==
  /\ Range(log) \subseteq Recorded \ Malformed
  /\ \A i \in Rows : /\ outbox[i].state = "delivered" => outbox[i].event \in Range(log)
                     /\ outbox[i].state = "terminal" => outbox[i].event \in Malformed
  /\ \A r \in Relays : relay[r].step = "mark" => \A i \in relay[r].batch : outbox[i].event \in Range(log)

\* The relays that may still publish the row, after a claim or an error, and
\* whether another may claim it without a fault in between.
Publishing(i) == {r \in Relays : relay[r].step \in {"validate", "retry"} /\ i \in relay[r].batch}
Obtainable(i) == Waiting(i) /\ (outbox[i].due \/ ~Held(i))

\* A change has one row, and each copy of it on the log but one, there already or
\* still to come, is accounted for by a fault.
Single(i) == \A j \in Rows : outbox[j].event = outbox[i].event => j = i
Publications(i) == Cardinality(Publishing(i)) + (IF Obtainable(i) THEN 1 ELSE 0)
Counted(i) == Copies(outbox[i].event) + Publications(i) <= 1 + faults
CopiesInv ==
  \A i \in Rows : outbox[i].event \in Range(trial.changes) \ Malformed => Single(i) /\ Counted(i)

RelayInv == RelayTypes /\ ChannelInv /\ CopiesInv

-----------------------------------------------------------------------------
(* The consumer. *)

ReceiptRecord == [status : {"none", "retrying", "processed", "terminal"}, attempts : 0..RetryLimit]
DeliveryRecord ==
  [status : {"none", "pending", "leased", "sent", "terminal"}, due : BOOLEAN,
   sent : BOOLEAN, terminal : BOOLEAN, attempts : 0..MaxAttempts]
PassRecord == [next : Nat \ {0}, last : Nat, workers : Int]
HandlerRecord == [pass : {0, 1}, at : Nat, step : {"enqueue", "retry", "terminal"}]

ConsumerTypes ==
  /\ offset \in 0..Len(log) /\ open \in {0, 1, Intake!None}
  /\ pass \in [{0, 1} -> PassRecord]
  /\ \A g \in {0, 1} : pass[g].last <= Len(log) /\ pass[g].next <= Len(log) + 1
  /\ handlers \subseteq HandlerRecord /\ skipped \subseteq 1..Len(log)
  /\ \A h \in handlers : h.at \in 1..Len(log) /\ log[h.at] \in Wanted
TableTypes ==
  /\ receipts \in [Events -> ReceiptRecord] /\ deliveries \in [Events -> DeliveryRecord]
  /\ reported \subseteq Events

\* What a receipt says of the deliveries and of the dead letters.
ReceiptsInv ==
  \A e \in Events :
    /\ receipts[e].status = "processed" => deliveries[e].status # "none"
    /\ receipts[e].status = "retrying" =>
         \/ e \in Wanted \cap Range(log) \/ deliveries[e].status # "none" \/ e \in reported
    /\ deliveries[e].status = "none" => deliveries[e] = Intake!NoDelivery

\* Of the messages an open pass has taken, each is handled, passed over or at work.
TakenCareOf(g, i) ==
  log[i] \in Wanted =>
    Answered(log[i]) \/ i \in skipped \/ \E h \in handlers : h.pass = g /\ h.at = i
PassInv ==
  open # Intake!None =>
    /\ offset <= pass[open].last
    /\ \A i \in (offset + 1) .. (pass[open].next - 1) : TakenCareOf(open, i)

ConsumerInv ==
  /\ ConsumerTypes /\ TableTypes /\ ReceiptsInv /\ PassInv
  /\ CommittedIsHandledOrSkipped /\ GivenUpIsReported

-----------------------------------------------------------------------------
(* The mailers. *)

MailerRecord ==
  {Mail!Resting} \cup [step : {"send", "mark", "failed"}, event : Events, attempt : 0..MaxAttempts]
MailTypes == mailer \in [Mailers -> MailerRecord] /\ mails \in [Events -> Nat]

\* The mailers that may still send the mail, or make it possible to send it again,
\* and whether another may claim it without a fault in between.
Sending(e) == {m \in Mailers : mailer[m].step \in {"send", "failed"} /\ mailer[m].event = e}
Sendable(e) ==
  /\ ~deliveries[e].sent /\ ~deliveries[e].terminal
  /\ deliveries[e].due \/ ~Mail!Held(e)
MailsInv ==
  \A e \in Events :
    mails[e] + Cardinality(Sending(e)) + (IF Sendable(e) THEN 1 ELSE 0) <= 1 + faults
MailerWorks == \A m \in Mailers : mailer[m].step # "idle" => deliveries[mailer[m].event].status # "none"

MailInv == MailTypes /\ MailsInv /\ MailerWorks

-----------------------------------------------------------------------------
(* The dashboard. *)

BoardRecord ==
  [offset : Nat, last : Nat, todo : SUBSET Nat, working : SUBSET Nat,
   step : {"starting", "idle", "work", "await", "commit"}, stopping : BOOLEAN, stops : Nat]
BoardInv ==
  /\ board \in BoardRecord /\ board.offset <= Len(log) /\ board.last <= Len(log)
  /\ board.todo \cup board.working \subseteq 1..Len(log)
  /\ flight \in [Dashboard!Refreshers -> [step : {"none", "read", "write"}, seen : SUBSET Events]]
  /\ boardReported \in [Events -> {0, 1}]

DeliveryInv == RelayInv /\ ConsumerInv /\ MailInv /\ BoardInv /\ made \in Nat

-----------------------------------------------------------------------------
(* Rows and messages. *)

LEMMA RowsAre ==
  ASSUME outbox \in Seq(RowRecord)
  PROVE  /\ Len(outbox) \in Nat /\ Rows = 1..Len(outbox)
         /\ \A i \in Rows : outbox[i] \in RowRecord
BY DEF Rows

LEMMA NewRowTyped ==
  ASSUME NEW e \in Events
  PROVE  NewRow(e) \in RowRecord
BY Zenon DEF NewRow, RowRecord

LEMMA RowWith ==
  ASSUME NEW row \in RowRecord, NEW s \in {"waiting", "delivered", "terminal"}, NEW d \in BOOLEAN
  PROVE  /\ [row EXCEPT !.due = d] \in RowRecord
         /\ [row EXCEPT !.state = s, !.due = d] \in RowRecord
         /\ [row EXCEPT !.due = d].event = row.event
         /\ [row EXCEPT !.state = s, !.due = d].event = row.event
         /\ [row EXCEPT !.due = d].state = row.state
         /\ [row EXCEPT !.state = s, !.due = d].state = s
BY DEF RowRecord

\* Rows that are changed one by one, and keep their events.
SameEvents == Len(outbox') = Len(outbox) /\ \A i \in Rows : outbox'[i].event = outbox[i].event

LEMMA PostponedRows ==
  ASSUME outbox \in Seq(RowRecord), NEW S, outbox' = Postponed(S)
  PROVE  /\ outbox' \in Seq(RowRecord) /\ SameEvents
         /\ \A i \in Rows : outbox'[i].state = outbox[i].state
<1>1. Len(outbox) \in Nat /\ Rows = 1..Len(outbox) /\ \A i \in Rows : outbox[i] \in RowRecord
  BY RowsAre
<1>2. \A i \in Rows : Postponed(S)[i] \in RowRecord /\ Postponed(S)[i].event = outbox[i].event
                      /\ Postponed(S)[i].state = outbox[i].state
  BY <1>1, RowWith DEF Postponed
<1>3. Postponed(S) \in [1..Len(outbox) -> RowRecord]
  BY <1>1, <1>2 DEF Postponed
<1>4. outbox' \in Seq(RowRecord) /\ Len(outbox') = Len(outbox)
  BY <1>1, <1>3
<1> QED BY <1>2, <1>4 DEF SameEvents

LEMMA MarkedRows ==
  ASSUME outbox \in Seq(RowRecord), NEW S, NEW s \in {"delivered", "terminal"}, outbox' = Marked(S, s)
  PROVE  /\ outbox' \in Seq(RowRecord) /\ SameEvents
         /\ \A i \in Rows : IF i \in S /\ Waiting(i) THEN outbox'[i].state = s ELSE outbox'[i] = outbox[i]
<1>1. Len(outbox) \in Nat /\ Rows = 1..Len(outbox) /\ \A i \in Rows : outbox[i] \in RowRecord
  BY RowsAre
<1>2. \A i \in Rows :
        /\ Marked(S, s)[i] \in RowRecord /\ Marked(S, s)[i].event = outbox[i].event
        /\ IF i \in S /\ Waiting(i) THEN Marked(S, s)[i].state = s ELSE Marked(S, s)[i] = outbox[i]
  <2> SUFFICES ASSUME NEW i \in Rows
               PROVE /\ Marked(S, s)[i] \in RowRecord /\ Marked(S, s)[i].event = outbox[i].event
                     /\ IF i \in S /\ Waiting(i) THEN Marked(S, s)[i].state = s ELSE Marked(S, s)[i] = outbox[i]
    OBVIOUS
  <2>1. outbox[i] \in RowRecord
    BY <1>1
  <2>9. s \in {"waiting", "delivered", "terminal"} /\ FALSE \in BOOLEAN
    OBVIOUS
  <2>2. /\ [outbox[i] EXCEPT !.state = s, !.due = FALSE] \in RowRecord
        /\ [outbox[i] EXCEPT !.state = s, !.due = FALSE].event = outbox[i].event
        /\ [outbox[i] EXCEPT !.state = s, !.due = FALSE].state = s
    BY <2>1, <2>9 DEF RowRecord
  <2>3. CASE i \in S /\ Waiting(i)
    BY <2>2, <2>3 DEF Marked
  <2>4. CASE ~(i \in S /\ Waiting(i))
    BY <2>1, <2>4 DEF Marked
  <2> QED BY <2>3, <2>4
<1>3. Marked(S, s) \in [1..Len(outbox) -> RowRecord]
  BY <1>1, <1>2 DEF Marked
<1>4. outbox' \in Seq(RowRecord) /\ Len(outbox') = Len(outbox)
  BY <1>1, <1>3
<1> QED BY <1>2, <1>4 DEF SameEvents

\* The messages of a batch are the events of its rows, one for each row.
LEMMA MessagesAre ==
  ASSUME outbox \in Seq(RowRecord), NEW S \in SUBSET Rows
  PROVE  /\ Messages(S) \in Seq(Events)
         /\ Len(Messages(S)) \in Nat /\ DOMAIN Messages(S) = 1 .. Len(Messages(S))
         /\ Range(Messages(S)) = {outbox[i].event : i \in S}
         /\ \A i \in Rows : Single(i) =>
              IF i \in S
              THEN \E n \in DOMAIN Messages(S) : {m \in DOMAIN Messages(S) : Messages(S)[m] = outbox[i].event} = {n}
              ELSE {m \in DOMAIN Messages(S) : Messages(S)[m] = outbox[i].event} = {}
<1> DEFINE n == Cardinality(S)  q == InOrder(S)  t == Messages(S)
<1>1. Len(outbox) \in Nat /\ Rows = 1..Len(outbox) /\ \A i \in Rows : outbox[i] \in RowRecord
  BY RowsAre
<1>2. n \in Nat
  BY <1>1, BoundedIsFinite
<1>3. /\ q \in Seq(S) /\ Len(q) = n
      /\ \A i, j \in 1..n : i < j => q[i] < q[j]
      /\ Range(q) = S
  BY <1>1, InOrderIs
<1>4. DOMAIN q = 1..n /\ \A m \in 1..n : q[m] \in S
  BY <1>2, <1>3
<1>5. \A i, j \in 1..n : q[i] = q[j] => i = j
  <2> SUFFICES ASSUME NEW i \in 1..n, NEW j \in 1..n, q[i] = q[j], i # j PROVE FALSE
    OBVIOUS
  <2>0. S \subseteq Nat
    BY <1>1
  <2>1. q[i] \in Nat /\ q[j] \in Nat
    BY <1>4, <2>0
  <2>2. i < j \/ j < i
    BY <1>2
  <2>3. q[i] < q[j] \/ q[j] < q[i]
    BY <1>3, <2>2
  <2> QED BY <2>1, <2>3
<1>6. t = [m \in 1..n |-> outbox[q[m]].event]
  BY DEF Messages
<1> HIDE DEF n, q, t
<1>7. \A m \in 1..n : t[m] = outbox[q[m]].event /\ t[m] \in Events
  BY <1>1, <1>4, <1>6 DEF RowRecord
<1>8. t \in [1..n -> Events]
  BY <1>6, <1>7
<1>9. t \in Seq(Events) /\ Len(t) = n /\ DOMAIN t = 1..n
  BY <1>2, <1>8
<1>10. Range(t) = {outbox[i].event : i \in S}
  <2>1. \A m \in 1..n : t[m] \in {outbox[i].event : i \in S}
    BY <1>4, <1>7
  <2>2. \A i \in S : \E m \in 1..n : q[m] = i
    BY <1>3, <1>4 DEF Range
  <2>3. \A i \in S : \E m \in 1..n : t[m] = outbox[i].event
    BY <1>7, <2>2
  <2> QED BY <1>9, <2>1, <2>3 DEF Range
<1>11. ASSUME NEW i \in Rows, Single(i)
       PROVE IF i \in S
             THEN \E m \in DOMAIN t : {k \in DOMAIN t : t[k] = outbox[i].event} = {m}
             ELSE {k \in DOMAIN t : t[k] = outbox[i].event} = {}
  <2>1. \A k \in 1..n : t[k] = outbox[i].event <=> q[k] = i
    BY <1>4, <1>7, <1>11 DEF Single
  <2>2. CASE i \in S
    <3>1. PICK m \in 1..n : q[m] = i
      BY <1>3, <1>4, <2>2 DEF Range
    <3>2. \A k \in 1..n : t[k] = outbox[i].event <=> k = m
      BY <1>5, <2>1, <3>1
    <3> QED BY <1>9, <2>2, <3>2
  <2>3. CASE i \notin S
    BY <1>4, <1>9, <2>1, <2>3
  <2> QED BY <2>2, <2>3
<1> QED BY <1>2, <1>9, <1>10, <1>11 DEF t

-----------------------------------------------------------------------------
(* Counting copies. *)

LEMMA OneMoreOrLess ==
  ASSUME NEW S, IsFiniteSet(S), NEW x
  PROVE  /\ Cardinality(S) \in Nat /\ Cardinality(S \cup {x}) \in Nat /\ Cardinality(S \ {x}) \in Nat
         /\ Cardinality(S \cup {x}) = Cardinality(S) + (IF x \in S THEN 0 ELSE 1)
         /\ Cardinality(S \ {x}) = Cardinality(S) - (IF x \in S THEN 1 ELSE 0)
<1>1. Cardinality(S) \in Nat
  BY FS_CardinalityType
<1>2. IsFiniteSet(S \cup {x}) /\ Cardinality(S \cup {x}) = IF x \in S THEN Cardinality(S) ELSE Cardinality(S) + 1
  BY FS_AddElement
<1>3. IsFiniteSet(S \ {x}) /\ Cardinality(S \ {x}) = IF x \in S THEN Cardinality(S) - 1 ELSE Cardinality(S)
  BY FS_RemoveElement
<1>4. Cardinality(S \cup {x}) \in Nat /\ Cardinality(S \ {x}) \in Nat
  BY <1>2, <1>3, FS_CardinalityType
<1> QED BY <1>1, <1>2, <1>3, <1>4

CopiesOn(l, e) == Cardinality({i \in DOMAIN l : l[i] = e})

LEMMA CopiesIsNat ==
  ASSUME NEW l \in Seq(Events), NEW e
  PROVE  CopiesOn(l, e) \in Nat
<1>1. Len(l) \in Nat /\ DOMAIN l = 1 .. Len(l)
  OBVIOUS
<1> QED BY <1>1, BoundedIsFinite DEF CopiesOn

LEMMA CopiesAppended ==
  ASSUME NEW l \in Seq(Events), NEW t \in Seq(Events), NEW e
  PROVE  /\ {m \in DOMAIN t : t[m] = e} = {} => CopiesOn(l \o t, e) = CopiesOn(l, e)
         /\ (\E n \in DOMAIN t : {m \in DOMAIN t : t[m] = e} = {n}) => CopiesOn(l \o t, e) = CopiesOn(l, e) + 1
<1> DEFINE k == Len(l)  u == l \o t  C == {i \in DOMAIN l : l[i] = e}  D == {i \in DOMAIN u : u[i] = e}
<1>1. /\ k \in Nat /\ DOMAIN l = 1..k /\ Len(t) \in Nat /\ DOMAIN t = 1..Len(t)
      /\ DOMAIN u = 1..(k + Len(t))
      /\ \A i \in 1..k : u[i] = l[i]
      /\ \A m \in 1..Len(t) : u[k + m] = t[m]
  OBVIOUS
<1>2. IsFiniteSet(C)
  BY <1>1, BoundedIsFinite
<1> HIDE DEF u, k
<1>3. \A i \in DOMAIN u : i \in 1..k \/ (i - k \in DOMAIN t /\ i = k + (i - k))
  BY <1>1
<1>4. ASSUME {m \in DOMAIN t : t[m] = e} = {} PROVE D = C
  <2>1. \A i \in D : i \in C
    BY <1>1, <1>3, <1>4
  <2>2. \A i \in C : i \in D
    BY <1>1
  <2> QED BY <2>1, <2>2
<1>5. ASSUME NEW n \in DOMAIN t, {m \in DOMAIN t : t[m] = e} = {n}
      PROVE  D = C \cup {k + n} /\ k + n \notin C
  <2>1. \A i \in D : i \in C \/ i = k + n
    BY <1>1, <1>3, <1>5
  <2>2. \A i \in C : i \in D
    BY <1>1
  <2>3. t[n] = e /\ k + n \in DOMAIN u /\ u[k + n] = e
    BY <1>1, <1>5
  <2> QED BY <1>1, <2>1, <2>2, <2>3
<1>6. ASSUME NEW n \in DOMAIN t, {m \in DOMAIN t : t[m] = e} = {n}
      PROVE  Cardinality(D) = Cardinality(C) + 1
  BY <1>2, <1>5, <1>6, OneMoreOrLess
<1> QED BY <1>4, <1>6 DEF CopiesOn, u

\* A relay that goes on to another step, in the count of those that may publish.
LEMMA PublishingBecomes ==
  ASSUME RelayTypes, NEW r \in Relays, NEW s, NEW B, Becomes(r, s, B), NEW i
  PROVE  /\ Cardinality(Publishing(i)) \in Nat /\ Cardinality(Publishing(i)') \in Nat
         /\ s \in {"validate", "retry"} /\ i \in B =>
              Cardinality(Publishing(i)') = Cardinality(Publishing(i)) + (IF r \in Publishing(i) THEN 0 ELSE 1)
         /\ ~(s \in {"validate", "retry"} /\ i \in B) =>
              Cardinality(Publishing(i)') = Cardinality(Publishing(i)) - (IF r \in Publishing(i) THEN 1 ELSE 0)
<1>1. IsFiniteSet(Publishing(i))
  <2>1. Publishing(i) \subseteq Relays
    BY DEF Publishing
  <2> QED BY <2>1, RelayAssumption, FS_Subset
<1>2. relay'[r] = [step |-> s, batch |-> B] /\ \A q \in Relays \ {r} : relay'[q] = relay[q]
  BY DEF RelayTypes, Becomes
<1>3. Cardinality(Publishing(i)) \in Nat
  BY <1>1, FS_CardinalityType
<1>4. CASE s \in {"validate", "retry"} /\ i \in B
  <2>1. Publishing(i)' = Publishing(i) \cup {r}
    BY <1>2, <1>4 DEF Publishing
  <2>2. Cardinality(Publishing(i) \cup {r}) = Cardinality(Publishing(i)) + (IF r \in Publishing(i) THEN 0 ELSE 1)
    BY <1>1, OneMoreOrLess
  <2> QED BY <1>3, <1>4, <2>1, <2>2
<1>5. CASE ~(s \in {"validate", "retry"} /\ i \in B)
  <2>1. Publishing(i)' = Publishing(i) \ {r}
    BY <1>2, <1>5 DEF Publishing
  <2>2. Cardinality(Publishing(i) \ {r}) = Cardinality(Publishing(i)) - (IF r \in Publishing(i) THEN 1 ELSE 0)
    BY <1>1, OneMoreOrLess
  <2>3. Cardinality(Publishing(i) \ {r}) \in Nat
    BY <1>1, OneMoreOrLess
  <2> QED BY <1>3, <1>5, <2>1, <2>2, <2>3
<1> QED BY <1>4, <1>5

-----------------------------------------------------------------------------
(* The steps of a relay. *)

LEMMA BecomesIs ==
  ASSUME RelayTypes, NEW r \in Relays, NEW s, NEW B, Becomes(r, s, B)
  PROVE  /\ relay'[r] = [step |-> s, batch |-> B] /\ relay'[r].step = s /\ relay'[r].batch = B
         /\ \A q \in Relays \ {r} : relay'[q] = relay[q]
         /\ relay' = [relay EXCEPT ![r] = [step |-> s, batch |-> B]]
         /\ At(r, "idle") => relay[r].batch = {}
BY DEF RelayTypes, RelayRecord, Free, At, Becomes

LEMMA BecomesTyped ==
  ASSUME RelayTypes, NEW r \in Relays, NEW s, NEW B, Becomes(r, s, B),
         (s = "idle" /\ B = {}) \/ (s \in {"validate", "mark", "retry"} /\ B \subseteq Rows),
         outbox' \in Seq(RowRecord), Len(outbox') = Len(outbox), log' \in Seq(Events),
         trial' = trial, faults' \in Nat, replays' = replays
  PROVE  RelayTypes'
<1>1. Rows' = Rows /\ Rows \subseteq Nat
  BY DEF RelayTypes, Rows
<1>2. [step |-> s, batch |-> B] \in RelayRecord
  BY <1>1 DEF RelayRecord, Free
<1>3. relay' \in [Relays -> RelayRecord]
  BY <1>2 DEF RelayTypes, Becomes
<1>4. ASSUME NEW q \in Relays PROVE relay'[q].batch \subseteq Rows
  <2>1. relay'[r].batch = B /\ B \subseteq Rows
    BY BecomesIs
  <2>2. q # r => relay'[q] = relay[q]
    BY BecomesIs
  <2> QED BY <2>1, <2>2 DEF RelayTypes
<1> QED BY <1>1, <1>3, <1>4 DEF RelayTypes

LEMMA ChannelKept ==
  ASSUME RelayTypes, ChannelInv, SameEvents, RelayTypes',
         Range(log) \subseteq Range(log'), Range(log') \subseteq Recorded \ Malformed,
         \A i \in Rows :
           \/ outbox'[i].state \in {outbox[i].state, "waiting"}
           \/ outbox'[i].state = "delivered" /\ outbox[i].event \in Range(log)
           \/ outbox'[i].state = "terminal" /\ outbox[i].event \in Malformed,
         \A r \in Relays :
           \/ relay'[r].step # "mark" \/ relay'[r] = relay[r]
           \/ \A i \in relay'[r].batch : outbox[i].event \in Range(log')
  PROVE  ChannelInv' /\ Recorded' = Recorded
<1>1. Rows' = Rows
  BY DEF RelayTypes, SameEvents, Rows
<1>2. Recorded' = Recorded
  BY <1>1 DEF SameEvents, Recorded
<1>3. ASSUME NEW i \in Rows
      PROVE /\ outbox'[i].state = "delivered" => outbox'[i].event \in Range(log')
            /\ outbox'[i].state = "terminal" => outbox'[i].event \in Malformed
  BY DEF ChannelInv, SameEvents
<1>4. ASSUME NEW r \in Relays, relay'[r].step = "mark", NEW i \in relay'[r].batch
      PROVE  outbox'[i].event \in Range(log')
  <2>1. i \in Rows
    BY <1>1, <1>4 DEF RelayTypes
  <2> QED BY <1>4, <2>1 DEF ChannelInv, SameEvents
<1> QED BY <1>1, <1>2, <1>3, <1>4 DEF ChannelInv

LEMMA CopiesKept ==
  ASSUME RelayTypes, CopiesInv, SameEvents, RelayTypes', trial' = trial,
         \A i \in Rows : outbox[i].event \notin Malformed /\ Single(i) /\ Counted(i) => Counted(i)'
  PROVE  CopiesInv'
<1>1. Rows' = Rows
  BY DEF RelayTypes, SameEvents, Rows
<1>2. \A i \in Rows : outbox'[i].event = outbox[i].event
  BY DEF SameEvents
<1>3. ASSUME NEW i \in Rows, outbox'[i].event \in Range(trial.changes) \ Malformed
      PROVE  Single(i)' /\ Counted(i)'
  <2>1. Single(i) /\ Counted(i)
    BY <1>2, <1>3 DEF CopiesInv
  <2>2. Single(i)'
    BY <1>1, <1>2, <2>1 DEF Single
  <2> QED BY <1>2, <1>3, <2>1, <2>2
<1> QED BY <1>1, <1>3 DEF CopiesInv

\* A step that adds so many copies of a row, so many relays that may still publish
\* it, and so many faults; and a row that stays counted.
CountsMove(i, a, c, f) ==
  /\ a \in Nat /\ c \in Int /\ f \in Nat
  /\ CopiesOn(log', outbox[i].event) = CopiesOn(log, outbox[i].event) + a
  /\ Cardinality(Publishing(i)') = Cardinality(Publishing(i)) + c
  /\ faults' = faults + f
  /\ Obtainable(i)' => a + c + (IF Obtainable(i) THEN 0 ELSE 1) <= f
  /\ ~Obtainable(i)' => a + c - (IF Obtainable(i) THEN 1 ELSE 0) <= f

LEMMA CountedStays ==
  ASSUME NEW i \in Rows, log \in Seq(Events), log' \in Seq(Events), faults \in Nat,
         outbox'[i].event = outbox[i].event, Counted(i), Cardinality(Publishing(i)) \in Nat,
         NEW a, NEW c, NEW f, CountsMove(i, a, c, f)
  PROVE  Counted(i)'
<1>0. /\ a \in Nat /\ c \in Int /\ f \in Nat
      /\ CopiesOn(log', outbox[i].event) = CopiesOn(log, outbox[i].event) + a
      /\ Cardinality(Publishing(i)') = Cardinality(Publishing(i)) + c
      /\ faults' = faults + f
      /\ Obtainable(i)' => a + c + (IF Obtainable(i) THEN 0 ELSE 1) <= f
      /\ ~Obtainable(i)' => a + c - (IF Obtainable(i) THEN 1 ELSE 0) <= f
  BY DEF CountsMove
<1>1. CopiesOn(log, outbox[i].event) \in Nat
  BY CopiesIsNat
<1>2. Copies(outbox[i].event) = CopiesOn(log, outbox[i].event)
  BY DEF Copies, CopiesOn
<1>3. Copies(outbox[i].event)' = CopiesOn(log', outbox[i].event)
  BY DEF Copies, CopiesOn
<1> DEFINE o == IF Obtainable(i) THEN 1 ELSE 0  n == IF Obtainable(i)' THEN 1 ELSE 0
<1>4. CopiesOn(log, outbox[i].event) + (Cardinality(Publishing(i)) + o) <= 1 + faults
  BY <1>2 DEF Counted, Publications
<1>5. o \in {0, 1} /\ n \in {0, 1} /\ a + c + n - o <= f
  <2>1. CASE Obtainable(i)' /\ Obtainable(i)
    BY <1>0, <2>1
  <2>2. CASE Obtainable(i)' /\ ~Obtainable(i)
    BY <1>0, <2>2
  <2>3. CASE ~Obtainable(i)' /\ Obtainable(i)
    BY <1>0, <2>3
  <2>4. CASE ~Obtainable(i)' /\ ~Obtainable(i)
    BY <1>0, <2>4
  <2> QED BY <2>1, <2>2, <2>3, <2>4
<1> HIDE DEF o, n
<1>6. CopiesOn(log', outbox[i].event) + (Cardinality(Publishing(i)') + n) <= 1 + faults'
  <2>1. PICK x \in Nat, p \in Nat, u \in Nat :
               x = CopiesOn(log, outbox[i].event) /\ p = Cardinality(Publishing(i)) /\ u = faults
    BY <1>1
  <2>2. PICK y \in Int, m \in Int : y = o /\ m = n
    BY <1>5
  <2>3. PICK b \in Nat, d \in Int, g \in Nat : b = a /\ d = c /\ g = f
    BY <1>0
  <2>4. x + (p + y) <= 1 + u /\ b + d + m - y <= g
    BY <1>4, <1>5, <2>1, <2>2, <2>3
  <2>5. (x + b) + ((p + d) + m) <= 1 + (u + g)
    BY <2>4
  <2> QED BY <1>0, <2>1, <2>2, <2>3, <2>5
<1> QED BY <1>3, <1>6 DEF Counted, Publications, o, n

\* What a step of a relay does to the promise of the outbox.
Settles ==
  /\ log' = log /\ SameEvents
  /\ \A i \in Rows : ~Waiting(i) => outbox'[i].state = outbox[i].state
Publishes == outbox' = outbox /\ \E t \in Seq(Events) : log' = log \o t
Reopens ==
  /\ log' = log /\ SameEvents
  /\ \A i \in Rows : outbox'[i].state = outbox[i].state \/ (outbox[i].event \in Malformed /\ outbox'[i].state = "waiting")
RelayMoves ==
  /\ RelayInv' /\ Recorded' = Recorded
  /\ faults <= faults' /\ trial' = trial
  /\ Settles \/ Publishes \/ Reopens

LEMMA ClaimKeeps ==
  ASSUME RelayInv, NEW r \in Relays, ClaimOutboxRows(r)
  PROVE  RelayMoves
<1>1. PICK B \in SUBSET Claimable : outbox' = Postponed(B) /\ Becomes(r, "validate", B)
  <2> DEFINE D == {i \in Claimable : Cardinality({j \in Claimable : j < i}) < BatchSize}
  <2>1. D \in SUBSET Claimable /\ outbox' = Postponed(D) /\ Becomes(r, "validate", D)
    BY DEF ClaimOutboxRows
  <2> HIDE DEF D
  <2> QED BY <2>1
<1>2. At(r, "idle") /\ log' = log /\ UNCHANGED <<trial, faults, replays>> /\ RelayTypes
  BY DEF ClaimOutboxRows, NoFault, RelayInv
<1>3. outbox \in Seq(RowRecord) /\ log \in Seq(Events) /\ faults \in Nat /\ B \subseteq Rows
  BY <1>2 DEF RelayTypes, Claimable
<1>4. /\ outbox' \in Seq(RowRecord) /\ SameEvents
      /\ \A i \in Rows : outbox'[i].state = outbox[i].state
  BY <1>1, <1>3, PostponedRows
<1>5. RelayTypes'
  BY <1>1, <1>2, <1>3, <1>4, BecomesTyped DEF SameEvents
<1>6. /\ relay'[r].step = "validate" /\ relay'[r].batch = B /\ relay[r].batch = {}
      /\ relay' = [relay EXCEPT ![r] = [step |-> "validate", batch |-> B]]
      /\ \A q \in Relays \ {r} : relay'[q] = relay[q]
  BY <1>1, <1>2, BecomesIs
<1>7. ChannelInv' /\ Recorded' = Recorded
  <2>1. \A q \in Relays : relay'[q].step # "mark" \/ relay'[q] = relay[q]
    BY <1>6
  <2> QED BY <1>2, <1>4, <1>5, <2>1, ChannelKept DEF RelayInv, ChannelInv
<1>8. ASSUME NEW i \in Rows, Counted(i) PROVE Counted(i)'
  <2>1. r \notin Publishing(i)
    BY <1>6 DEF Publishing
  <2>2. /\ Cardinality(Publishing(i)) \in Nat /\ Cardinality(Publishing(i)') \in Nat
        /\ i \in B => Cardinality(Publishing(i)') = Cardinality(Publishing(i)) + 1
        /\ i \notin B => Cardinality(Publishing(i)') = Cardinality(Publishing(i)) + 0
    <3>1. Cardinality(Publishing(i)) \in Nat /\ Cardinality(Publishing(i)') \in Nat
      BY <1>1, <1>2, PublishingBecomes
    <3>2. CASE i \in B
      BY <1>1, <1>2, <2>1, <3>1, <3>2, PublishingBecomes
    <3>3. CASE i \notin B
      BY <1>1, <1>2, <2>1, <3>1, <3>3, PublishingBecomes
    <3> QED BY <3>1, <3>2, <3>3
  <2>3. CopiesOn(log', outbox[i].event) = CopiesOn(log, outbox[i].event) + 0
    BY <1>2, <1>3, CopiesIsNat
  <2>4. faults' = faults + 0 /\ faults' \in Nat /\ log' \in Seq(Events) /\ outbox'[i].event = outbox[i].event
    BY <1>2, <1>3, <1>4 DEF SameEvents
  <2>5. CASE i \in B
    <3>1. Obtainable(i)
      BY <1>1, <2>5 DEF Obtainable, Claimable
    <3>2. ~Obtainable(i)'
      <4>1. Held(i)'
        BY <1>6, <2>5 DEF Held
      <4>2. outbox'[i] = [outbox[i] EXCEPT !.due = FALSE]
        BY <1>1, <2>5 DEF Postponed, Claimable
      <4>3. outbox[i] \in RowRecord
        BY <1>3, RowsAre
      <4>4. ~outbox'[i].due
        BY <4>2, <4>3 DEF RowRecord
      <4> QED BY <4>1, <4>4 DEF Obtainable
    <3>3. Cardinality(Publishing(i)') = Cardinality(Publishing(i)) + 1
      BY <2>2, <2>5
    <3>4. /\ Obtainable(i)' => 0 + 1 + (IF Obtainable(i) THEN 0 ELSE 1) <= 0
          /\ ~Obtainable(i)' => 0 + 1 - (IF Obtainable(i) THEN 1 ELSE 0) <= 0
      BY <3>1, <3>2
    <3>5. Cardinality(Publishing(i)) \in Nat /\ Cardinality(Publishing(i)') \in Nat
      BY <2>2
    <3>6. CountsMove(i, 0, 1, 0)
      BY <2>3, <2>4, <3>3, <3>4 DEF CountsMove
    <3> QED BY <1>3, <2>4, <3>5, <3>6, <1>8, CountedStays
  <2>6. CASE i \notin B
    <3>1. outbox'[i] = outbox[i]
      BY <1>1, <2>6 DEF Postponed
    <3>2. Held(i)' <=> Held(i)
      BY <1>6, <2>6 DEF Held
    <3>3. Obtainable(i)' <=> Obtainable(i)
      BY <3>1, <3>2 DEF Obtainable, Waiting
    <3>4. CountsMove(i, 0, 0, 0)
      BY <2>2, <2>3, <2>4, <2>6, <3>3 DEF CountsMove
    <3> QED BY <1>3, <2>2, <2>4, <3>4, <1>8, CountedStays
  <2> QED BY <2>5, <2>6
<1>9. CopiesInv'
  BY <1>2, <1>4, <1>5, <1>8, CopiesKept DEF RelayInv
<1>10. Settles
  BY <1>2, <1>4 DEF Settles
<1> QED BY <1>2, <1>3, <1>5, <1>7, <1>9, <1>10 DEF RelayMoves, RelayInv

LEMMA CountedBecomes ==
  ASSUME RelayTypes, NEW r \in Relays, NEW s, NEW B, Becomes(r, s, B),
         NEW i \in Rows, Counted(i), outbox'[i].event = outbox[i].event,
         log' \in Seq(Events), faults' \in Nat, NEW a \in Nat, NEW f \in Nat,
         CopiesOn(log', outbox[i].event) = CopiesOn(log, outbox[i].event) + a, faults' = faults + f,
         NEW d \in {0, 1}, NEW w \in {0, 1},
         d = 1 <=> r \in Publishing(i), w = 1 <=> s \in {"validate", "retry"} /\ i \in B,
         Obtainable(i)' => a + w - d + (IF Obtainable(i) THEN 0 ELSE 1) <= f,
         ~Obtainable(i)' => a + w - d - (IF Obtainable(i) THEN 1 ELSE 0) <= f
  PROVE  Counted(i)'
<1>1. Cardinality(Publishing(i)) \in Nat /\ Cardinality(Publishing(i)') \in Nat
  BY PublishingBecomes
<1>2. Cardinality(Publishing(i)') = Cardinality(Publishing(i)) + (w - d)
  <2>1. CASE w = 1
    <3>1. Cardinality(Publishing(i)') = Cardinality(Publishing(i)) + (IF r \in Publishing(i) THEN 0 ELSE 1)
      BY <2>1, PublishingBecomes
    <3> QED BY <1>1, <2>1, <3>1
  <2>2. CASE w = 0
    <3>1. Cardinality(Publishing(i)') = Cardinality(Publishing(i)) - (IF r \in Publishing(i) THEN 1 ELSE 0)
      BY <2>2, PublishingBecomes
    <3> QED BY <1>1, <2>2, <3>1
  <2> QED BY <2>1, <2>2
<1>3. w - d \in Int /\ log \in Seq(Events) /\ faults \in Nat
  BY DEF RelayTypes
<1>4. /\ Obtainable(i)' => a + (w - d) + (IF Obtainable(i) THEN 0 ELSE 1) <= f
      /\ ~Obtainable(i)' => a + (w - d) - (IF Obtainable(i) THEN 1 ELSE 0) <= f
  <2>1. a + (w - d) = a + w - d
    OBVIOUS
  <2> QED BY <2>1
<1>5. CountsMove(i, a, w - d, f)
  BY <1>2, <1>3, <1>4 DEF CountsMove
<1> QED BY <1>1, <1>3, <1>5, CountedStays

LEMMA LogAppended ==
  ASSUME RelayTypes, NEW S \in SUBSET Rows, log' = log \o Messages(S)
  PROVE  /\ log' \in Seq(Events) /\ Messages(S) \in Seq(Events)
         /\ Range(log') = Range(log) \cup {outbox[i].event : i \in S}
         /\ \A i \in Rows : Single(i) =>
              CopiesOn(log', outbox[i].event) = CopiesOn(log, outbox[i].event) + (IF i \in S THEN 1 ELSE 0)
<1> DEFINE t == Messages(S)
<1>1. outbox \in Seq(RowRecord) /\ log \in Seq(Events)
  BY DEF RelayTypes
<1>2. /\ t \in Seq(Events) /\ Range(t) = {outbox[i].event : i \in S}
  BY <1>1, MessagesAre
<1>3. ASSUME NEW i \in Rows, Single(i)
      PROVE  CopiesOn(log', outbox[i].event) = CopiesOn(log, outbox[i].event) + (IF i \in S THEN 1 ELSE 0)
  <2>1. /\ i \in S => \E n \in DOMAIN t : {m \in DOMAIN t : t[m] = outbox[i].event} = {n}
        /\ i \notin S => {m \in DOMAIN t : t[m] = outbox[i].event} = {}
    BY <1>1, <1>3, MessagesAre
  <2>2. CopiesOn(log, outbox[i].event) \in Nat
    BY <1>1, CopiesIsNat
  <2> HIDE DEF t
  <2>3. log' = log \o t
    BY DEF t
  <2>4. CASE i \in S
    <3>1. \E n \in DOMAIN t : {m \in DOMAIN t : t[m] = outbox[i].event} = {n}
      BY <2>1, <2>4
    <3>2. CopiesOn(log \o t, outbox[i].event) = CopiesOn(log, outbox[i].event) + 1
      BY <1>1, <1>2, <3>1, CopiesAppended
    <3> QED BY <2>3, <2>4, <3>2
  <2>5. CASE i \notin S
    <3>1. CopiesOn(log \o t, outbox[i].event) = CopiesOn(log, outbox[i].event)
      BY <1>1, <1>2, <2>1, <2>5, CopiesAppended
    <3> QED BY <2>2, <2>3, <2>5, <3>1
  <2> QED BY <2>4, <2>5
<1> HIDE DEF t
<1>4. log' = log \o t
  BY DEF t
<1>5. log' \in Seq(Events)
  BY <1>1, <1>2, <1>4
<1>6. Range(log') = Range(log) \cup Range(t)
  BY <1>1, <1>2, <1>4, RangeConcatenation
<1> QED BY <1>2, <1>3, <1>5, <1>6 DEF t

\* A row that is left as it is, in the same hands.
LEMMA ObtainableStays ==
  ASSUME RelayTypes, NEW r \in Relays, NEW s, NEW B, Becomes(r, s, B),
         NEW i \in Rows, outbox'[i] = outbox[i], i \in B <=> i \in relay[r].batch
  PROVE  Obtainable(i)' <=> Obtainable(i)
<1>1. Held(i)' <=> Held(i)
  <2>1. relay'[r].batch = B /\ \A q \in Relays \ {r} : relay'[q] = relay[q]
    BY DEF RelayTypes, Becomes
  <2> QED BY <2>1 DEF Held
<1> QED BY <1>1 DEF Obtainable, Waiting

LEMMA CountedAside ==
  ASSUME RelayTypes, NEW r \in Relays, NEW s, NEW B, Becomes(r, s, B),
         NEW i \in Rows, Counted(i), outbox'[i] = outbox[i], i \in B <=> i \in relay[r].batch,
         log' \in Seq(Events), faults' \in Nat, NEW a \in Nat, NEW f \in Nat,
         CopiesOn(log', outbox[i].event) = CopiesOn(log, outbox[i].event) + a, faults' = faults + f,
         NEW d \in {0, 1}, NEW w \in {0, 1}, a + w - d <= f,
         d = 1 <=> r \in Publishing(i), w = 1 <=> s \in {"validate", "retry"} /\ i \in B
  PROVE  Counted(i)'
<1>1. Obtainable(i)' <=> Obtainable(i)
  BY ObtainableStays
<1>2. /\ Obtainable(i)' => a + w - d + (IF Obtainable(i) THEN 0 ELSE 1) <= f
      /\ ~Obtainable(i)' => a + w - d - (IF Obtainable(i) THEN 1 ELSE 0) <= f
  BY <1>1
<1> QED BY <1>2, CountedBecomes

\* A relay that is done with its batch.
LEMMA CountedAtRest ==
  ASSUME RelayTypes, NEW r \in Relays, Becomes(r, "idle", {}), log' = log,
         NEW i \in Rows, Counted(i), outbox'[i].event = outbox[i].event,
         \/ faults' = faults /\ outbox'[i] = outbox[i] /\ i \notin relay[r].batch
         \/ faults' = faults /\ ~Obtainable(i)'
         \/ faults' = faults /\ r \in Publishing(i)
         \/ faults' = faults + 1
  PROVE  Counted(i)'
<1>1. log \in Seq(Events) /\ faults \in Nat /\ faults' \in Nat
  BY DEF RelayTypes
<1>2. CopiesOn(log', outbox[i].event) = CopiesOn(log, outbox[i].event) + 0
  BY <1>1, CopiesIsNat
<1>3. /\ Cardinality(Publishing(i)) \in Nat /\ Cardinality(Publishing(i)') \in Nat
      /\ Cardinality(Publishing(i)') = Cardinality(Publishing(i)) - (IF r \in Publishing(i) THEN 1 ELSE 0)
  BY PublishingBecomes
<1>4. PICK c \in Int : /\ Cardinality(Publishing(i)') = Cardinality(Publishing(i)) + c
                       /\ c <= 0 /\ (r \in Publishing(i) => c = -1)
  <2>1. CASE r \in Publishing(i)
    <3>1. Cardinality(Publishing(i)') = Cardinality(Publishing(i)) + (-1)
      BY <1>3, <2>1
    <3> QED BY <3>1
  <2>2. CASE r \notin Publishing(i)
    <3>1. Cardinality(Publishing(i)') = Cardinality(Publishing(i)) + 0
      BY <1>3, <2>2
    <3> QED BY <2>2, <3>1
  <2> QED BY <2>1, <2>2
<1>5. PICK f \in {0, 1} :
        /\ faults' = faults + f
        /\ \/ f = 1 \/ ~Obtainable(i)' \/ c = -1
           \/ outbox'[i] = outbox[i] /\ i \notin relay[r].batch
  <2>1. CASE faults' = faults
    <3>1. faults' = faults + 0
      BY <1>1, <2>1
    <3> QED BY <1>1, <1>4, <2>1, <3>1
  <2>2. CASE faults' = faults + 1
    BY <2>2
  <2> QED BY <2>1, <2>2
<1>6. \/ f = 1 \/ ~Obtainable(i)' \/ c = -1 \/ (Obtainable(i)' <=> Obtainable(i))
  <2>1. outbox'[i] = outbox[i] /\ i \notin relay[r].batch => (Obtainable(i)' <=> Obtainable(i))
    BY ObtainableStays
  <2> QED BY <1>5, <2>1
<1>7. Obtainable(i)' => 0 + c + (IF Obtainable(i) THEN 0 ELSE 1) <= f
  BY <1>4, <1>5, <1>6
<1>8. ~Obtainable(i)' => 0 + c - (IF Obtainable(i) THEN 1 ELSE 0) <= f
  BY <1>4, <1>5
<1>9. 0 \in Nat /\ f \in Nat
  OBVIOUS
<1>10. CountsMove(i, 0, c, f)
  BY <1>2, <1>4, <1>5, <1>7, <1>8, <1>9 DEF CountsMove
<1> QED BY <1>1, <1>3, <1>10, CountedStays

LEMMA MarkTerminalKeeps ==
  ASSUME RelayInv, NEW r \in Relays, MarkTerminal(r)
  PROVE  RelayMoves
<1>1. PICK k \in Invalid(relay[r].batch) :
        outbox' = Marked({k}, "terminal") /\ Becomes(r, "validate", relay[r].batch \ {k})
  BY DEF MarkTerminal
<1> DEFINE B == relay[r].batch \ {k}
<1>2. At(r, "validate") /\ log' = log /\ UNCHANGED <<trial, faults, replays>> /\ RelayTypes
  BY DEF MarkTerminal, NoFault, RelayInv
<1>3. /\ outbox \in Seq(RowRecord) /\ log \in Seq(Events) /\ faults \in Nat
      /\ relay[r].batch \subseteq Rows /\ B \subseteq Rows /\ k \in Rows /\ outbox[k].event \in Malformed
  BY <1>1, <1>2 DEF RelayTypes, Invalid
<1>4. /\ outbox' \in Seq(RowRecord) /\ SameEvents
      /\ \A i \in Rows : IF i \in {k} /\ Waiting(i) THEN outbox'[i].state = "terminal" ELSE outbox'[i] = outbox[i]
  BY <1>1, <1>3, MarkedRows
<1>5. RelayTypes'
  BY <1>1, <1>2, <1>3, <1>4, BecomesTyped DEF SameEvents
<1>6. relay'[r].step = "validate" /\ \A q \in Relays \ {r} : relay'[q] = relay[q]
  BY <1>1, <1>2, BecomesIs
<1>7. ChannelInv' /\ Recorded' = Recorded
  <2>1. \A q \in Relays : relay'[q].step # "mark" \/ relay'[q] = relay[q]
    BY <1>6
  <2> QED BY <1>2, <1>3, <1>4, <1>5, <2>1, ChannelKept DEF RelayInv, ChannelInv
<1>8. ASSUME NEW i \in Rows, outbox[i].event \notin Malformed, Counted(i) PROVE Counted(i)'
  <2>1. i # k /\ outbox'[i] = outbox[i]
    BY <1>3, <1>4, <1>8
  <2>2. CopiesOn(log', outbox[i].event) = CopiesOn(log, outbox[i].event) + 0
    BY <1>2, <1>3, CopiesIsNat
  <2>3. faults' = faults + 0 /\ faults' \in Nat /\ log' \in Seq(Events)
    BY <1>2, <1>3
  <2>4. r \in Publishing(i) <=> i \in B
    BY <1>2, <2>1 DEF Publishing, At
  <2>5. PICK d \in {0, 1} : d = 1 <=> i \in B
    <3>1. CASE i \in B
      BY <3>1
    <3>2. CASE i \notin B
      BY <3>2
    <3> QED BY <3>1, <3>2
  <2>6. 0 + d - d <= 0
    OBVIOUS
  <2> HIDE DEF B
  <2>7. Becomes(r, "validate", B)
    BY <1>1 DEF B
  <2>8. i \in B <=> i \in relay[r].batch
    BY <2>1 DEF B
  <2> QED BY <1>2, <1>8, <2>1, <2>2, <2>3, <2>4, <2>5, <2>6, <2>7, <2>8, CountedAside
<1>9. CopiesInv'
  BY <1>2, <1>4, <1>5, <1>8, CopiesKept DEF RelayInv
<1>10. Settles
  BY <1>2, <1>4 DEF Settles
<1> QED BY <1>2, <1>3, <1>5, <1>7, <1>9, <1>10 DEF RelayMoves, RelayInv

LEMMA PublishKeeps ==
  ASSUME RelayInv, NEW r \in Relays, Publish(r)
  PROVE  RelayMoves
<1> DEFINE S == relay[r].batch
<1>1. /\ At(r, "validate") /\ Invalid(S) = {} /\ outbox' = outbox /\ UNCHANGED <<trial, faults, replays>>
      /\ RelayTypes
  BY DEF Publish, NoFault, RelayInv
<1>2. /\ outbox \in Seq(RowRecord) /\ log \in Seq(Events) /\ faults \in Nat /\ S \in SUBSET Rows
      /\ \A i \in S : outbox[i].event \in Recorded \ Malformed
  BY <1>1 DEF RelayTypes, Invalid, Recorded
<1>3. SameEvents
  BY <1>1 DEF SameEvents
<1>4. CASE S = {}
  <2>1. Becomes(r, "idle", {}) /\ log' = log
    BY <1>4 DEF Publish
  <2>2. RelayTypes'
    BY <1>1, <1>2, <2>1, BecomesTyped
  <2>3. relay'[r].step = "idle" /\ \A q \in Relays \ {r} : relay'[q] = relay[q]
    BY <1>1, <2>1, BecomesIs
  <2>4. ChannelInv' /\ Recorded' = Recorded
    <3>1. \A q \in Relays : relay'[q].step # "mark" \/ relay'[q] = relay[q]
      BY <2>3
    <3> QED BY <1>1, <1>3, <2>1, <2>2, <3>1, ChannelKept DEF RelayInv, ChannelInv
  <2>5. ASSUME NEW i \in Rows, Counted(i) PROVE Counted(i)'
    <3>1. faults' = faults /\ outbox'[i] = outbox[i] /\ i \notin relay[r].batch
      BY <1>1, <1>4
    <3> QED BY <1>1, <2>1, <2>5, <3>1, CountedAtRest
  <2>6. CopiesInv'
    BY <1>1, <1>3, <2>2, <2>5, CopiesKept DEF RelayInv
  <2>7. Settles
    BY <1>1, <1>3, <2>1 DEF Settles
  <2> QED BY <1>1, <1>2, <2>2, <2>4, <2>6, <2>7 DEF RelayMoves, RelayInv
<1>5. CASE S # {}
  <2>1. Becomes(r, "mark", S) /\ log' = log \o Messages(S)
    BY <1>5 DEF Publish
  <2>2. /\ log' \in Seq(Events) /\ Messages(S) \in Seq(Events)
        /\ Range(log') = Range(log) \cup {outbox[i].event : i \in S}
        /\ \A i \in Rows : Single(i) =>
             CopiesOn(log', outbox[i].event) = CopiesOn(log, outbox[i].event) + (IF i \in S THEN 1 ELSE 0)
    BY <1>1, <1>2, <2>1, LogAppended
  <2>3. RelayTypes'
    BY <1>1, <1>2, <2>1, <2>2, BecomesTyped
  <2>4. relay'[r].batch = S /\ \A q \in Relays \ {r} : relay'[q] = relay[q]
    BY <1>1, <2>1 DEF RelayTypes, Becomes
  <2>5. ChannelInv' /\ Recorded' = Recorded
    <3>1. \A q \in Relays : relay'[q] = relay[q] \/ \A i \in relay'[q].batch : outbox[i].event \in Range(log')
      BY <2>2, <2>4
    <3>2. Range(log') \subseteq Recorded \ Malformed /\ Range(log) \subseteq Range(log')
      BY <1>2, <2>2 DEF RelayInv, ChannelInv
    <3> QED BY <1>1, <1>3, <2>3, <3>1, <3>2, ChannelKept DEF RelayInv
  <2>6. ASSUME NEW i \in Rows, Single(i), Counted(i) PROVE Counted(i)'
    <3>1. r \in Publishing(i) <=> i \in S
      BY <1>1 DEF Publishing, At
    <3>2. faults' = faults + 0 /\ faults' \in Nat /\ outbox'[i] = outbox[i]
      BY <1>1, <1>2
    <3> HIDE DEF S
    <3>3. i \in S <=> i \in relay[r].batch
      BY DEF S
    <3>4. CASE i \in S
      <4>1. CopiesOn(log', outbox[i].event) = CopiesOn(log, outbox[i].event) + 1
        BY <2>2, <2>6, <3>4
      <4>2. 1 + 0 - 1 <= 0 /\ 0 \in Nat /\ 1 \in Nat /\ 0 \in {0, 1} /\ 1 \in {0, 1}
        OBVIOUS
      <4>3. /\ 1 = 1 <=> r \in Publishing(i)
            /\ 0 = 1 <=> "mark" \in {"validate", "retry"} /\ i \in S
        BY <3>1, <3>4
      <4> QED BY <1>1, <2>1, <2>2, <2>6, <3>2, <3>3, <4>1, <4>2, <4>3, CountedAside
    <3>5. CASE i \notin S
      <4>1. CopiesOn(log', outbox[i].event) = CopiesOn(log, outbox[i].event) + 0
        BY <2>2, <2>6, <3>5
      <4>2. 0 + 0 - 0 <= 0 /\ 0 \in Nat /\ 0 \in {0, 1}
        OBVIOUS
      <4>3. /\ 0 = 1 <=> r \in Publishing(i)
            /\ 0 = 1 <=> "mark" \in {"validate", "retry"} /\ i \in S
        BY <3>1, <3>5
      <4> QED BY <1>1, <2>1, <2>2, <2>6, <3>2, <3>3, <4>1, <4>2, <4>3, CountedAside
    <3> QED BY <3>4, <3>5
  <2>7. CopiesInv'
    BY <1>1, <1>3, <2>3, <2>6, CopiesKept DEF RelayInv
  <2>8. Publishes
    BY <1>1, <2>1, <2>2 DEF Publishes
  <2> QED BY <1>1, <1>2, <2>3, <2>5, <2>7, <2>8 DEF RelayMoves, RelayInv
<1> QED BY <1>4, <1>5

LEMMA PublishFailsKeeps ==
  ASSUME RelayInv, NEW r \in Relays, PublishFails(r)
  PROVE  RelayMoves
<1> DEFINE B == relay[r].batch
<1>1. /\ At(r, "validate") /\ Invalid(B) = {} /\ outbox' = outbox /\ UNCHANGED <<trial, replays>>
      /\ RelayTypes /\ faults' = faults + 1 /\ Becomes(r, "retry", B)
  BY DEF PublishFails, Fault, RelayInv
<1>2. /\ outbox \in Seq(RowRecord) /\ log \in Seq(Events) /\ faults \in Nat /\ faults' \in Nat /\ B \in SUBSET Rows
      /\ \A i \in B : outbox[i].event \in Recorded \ Malformed
  BY <1>1 DEF RelayTypes, Invalid, Recorded
<1>3. PICK S \in SUBSET B : log' = log \o Messages(S)
  BY DEF PublishFails
<1>4. SameEvents
  BY <1>1 DEF SameEvents
<1>5. /\ log' \in Seq(Events) /\ Messages(S) \in Seq(Events)
      /\ Range(log') = Range(log) \cup {outbox[i].event : i \in S}
      /\ \A i \in Rows : Single(i) =>
           CopiesOn(log', outbox[i].event) = CopiesOn(log, outbox[i].event) + (IF i \in S THEN 1 ELSE 0)
  BY <1>1, <1>2, <1>3, LogAppended
<1>6. RelayTypes'
  BY <1>1, <1>2, <1>5, BecomesTyped
<1>7. relay'[r].step = "retry" /\ \A q \in Relays \ {r} : relay'[q] = relay[q]
  BY <1>1 DEF RelayTypes, Becomes
<1>8. ChannelInv' /\ Recorded' = Recorded
  <2>1. \A q \in Relays : relay'[q].step # "mark" \/ relay'[q] = relay[q]
    BY <1>7
  <2>2. Range(log') \subseteq Recorded \ Malformed /\ Range(log) \subseteq Range(log')
    BY <1>2, <1>5 DEF RelayInv, ChannelInv
  <2> QED BY <1>1, <1>4, <1>6, <2>1, <2>2, ChannelKept DEF RelayInv
<1>9. ASSUME NEW i \in Rows, Single(i), Counted(i) PROVE Counted(i)'
  <2>1. r \in Publishing(i) <=> i \in B
    BY <1>1 DEF Publishing, At
  <2>2. faults' = faults + 1 /\ outbox'[i] = outbox[i]
    BY <1>1
  <2>3. PICK d \in {0, 1} : d = 1 <=> i \in B
    <3>1. CASE i \in B
      BY <3>1
    <3>2. CASE i \notin B
      BY <3>2
    <3> QED BY <3>1, <3>2
  <2>4. PICK a \in {0, 1} : CopiesOn(log', outbox[i].event) = CopiesOn(log, outbox[i].event) + a
    <3>1. CASE i \in S
      BY <1>5, <1>9, <3>1
    <3>2. CASE i \notin S
      BY <1>5, <1>9, <3>2
    <3> QED BY <3>1, <3>2
  <2>5. a + d - d <= 1 /\ a \in Nat
    OBVIOUS
  <2> HIDE DEF B
  <2>6. i \in B <=> i \in relay[r].batch
    BY DEF B
  <2> QED BY <1>1, <1>2, <1>5, <1>9, <2>1, <2>2, <2>3, <2>4, <2>5, <2>6, CountedAside
<1>10. CopiesInv'
  BY <1>1, <1>4, <1>6, <1>9, CopiesKept DEF RelayInv
<1>11. Publishes
  BY <1>1, <1>3, <1>5 DEF Publishes
<1> QED BY <1>1, <1>2, <1>6, <1>8, <1>10, <1>11 DEF RelayMoves, RelayInv

LEMMA MarkDeliveredKeeps ==
  ASSUME RelayInv, NEW r \in Relays, MarkDelivered(r)
  PROVE  RelayMoves
<1> DEFINE S == relay[r].batch
<1>1. /\ At(r, "mark") /\ outbox' = Marked(S, "delivered") /\ Becomes(r, "idle", {}) /\ log' = log
      /\ UNCHANGED <<trial, faults, replays>> /\ RelayTypes
  BY DEF MarkDelivered, NoFault, RelayInv
<1>2. outbox \in Seq(RowRecord) /\ log \in Seq(Events) /\ faults \in Nat /\ S \subseteq Rows
  BY <1>1 DEF RelayTypes
<1>3. /\ outbox' \in Seq(RowRecord) /\ SameEvents
      /\ \A i \in Rows : IF i \in S /\ Waiting(i) THEN outbox'[i].state = "delivered" ELSE outbox'[i] = outbox[i]
  BY <1>1, <1>2, MarkedRows
<1>4. RelayTypes'
  BY <1>1, <1>2, <1>3, BecomesTyped DEF SameEvents
<1>5. relay'[r].step = "idle" /\ \A q \in Relays \ {r} : relay'[q] = relay[q]
  BY <1>1 DEF RelayTypes, Becomes
<1>6. ChannelInv' /\ Recorded' = Recorded
  <2>1. \A q \in Relays : relay'[q].step # "mark" \/ relay'[q] = relay[q]
    BY <1>5
  <2>2. \A i \in S : outbox[i].event \in Range(log)
    BY <1>1 DEF RelayInv, ChannelInv, At
  <2> QED BY <1>1, <1>3, <1>4, <2>1, <2>2, ChannelKept DEF RelayInv, ChannelInv
<1>7. ASSUME NEW i \in Rows, Counted(i) PROVE Counted(i)'
  <2>1. faults' = faults /\ outbox'[i].event = outbox[i].event
    BY <1>1, <1>3 DEF SameEvents
  <2>2. i \in S => ~Obtainable(i)'
    BY <1>3 DEF Obtainable, Waiting
  <2>3. i \notin S => outbox'[i] = outbox[i]
    BY <1>3
  <2> QED BY <1>1, <1>7, <2>1, <2>2, <2>3, CountedAtRest
<1>8. CopiesInv'
  BY <1>1, <1>3, <1>4, <1>7, CopiesKept DEF RelayInv
<1>9. Settles
  BY <1>1, <1>3 DEF Settles
<1> QED BY <1>1, <1>2, <1>4, <1>6, <1>8, <1>9 DEF RelayMoves, RelayInv

LEMMA MarkFailsKeeps ==
  ASSUME RelayInv, NEW r \in Relays, MarkFails(r)
  PROVE  RelayMoves
<1> DEFINE B == relay[r].batch
<1>1. /\ At(r, "mark") /\ outbox' = outbox /\ log' = log /\ UNCHANGED <<trial, replays>>
      /\ RelayTypes /\ faults' = faults + 1 /\ Becomes(r, "retry", B)
  BY DEF MarkFails, Fault, RelayInv
<1>2. outbox \in Seq(RowRecord) /\ log \in Seq(Events) /\ faults \in Nat /\ faults' \in Nat /\ B \subseteq Rows
  BY <1>1 DEF RelayTypes
<1>3. SameEvents
  BY <1>1 DEF SameEvents
<1>4. RelayTypes'
  BY <1>1, <1>2, BecomesTyped
<1>5. relay'[r].step = "retry" /\ \A q \in Relays \ {r} : relay'[q] = relay[q]
  BY <1>1 DEF RelayTypes, Becomes
<1>6. ChannelInv' /\ Recorded' = Recorded
  <2>1. \A q \in Relays : relay'[q].step # "mark" \/ relay'[q] = relay[q]
    BY <1>5
  <2> QED BY <1>1, <1>3, <1>4, <2>1, ChannelKept DEF RelayInv, ChannelInv
<1>7. ASSUME NEW i \in Rows, Counted(i) PROVE Counted(i)'
  <2>1. CopiesOn(log', outbox[i].event) = CopiesOn(log, outbox[i].event) + 0
    BY <1>1, <1>2, CopiesIsNat
  <2>2. outbox'[i] = outbox[i] /\ log' \in Seq(Events) /\ (i \in B <=> i \in relay[r].batch)
    BY <1>1, <1>2
  <2>3. 0 = 1 <=> r \in Publishing(i)
    BY <1>1 DEF Publishing, At
  <2>4. PICK w \in {0, 1} : w = 1 <=> i \in B
    <3>1. CASE i \in B
      BY <3>1
    <3>2. CASE i \notin B
      BY <3>2
    <3> QED BY <3>1, <3>2
  <2>5. 0 + w - 0 <= 1 /\ 0 \in Nat /\ 1 \in Nat /\ 0 \in {0, 1}
    OBVIOUS
  <2> HIDE DEF B
  <2> QED BY <1>1, <1>2, <1>7, <2>1, <2>2, <2>3, <2>4, <2>5, CountedAside
<1>8. CopiesInv'
  BY <1>1, <1>3, <1>4, <1>7, CopiesKept DEF RelayInv
<1>9. Settles
  BY <1>1, <1>3 DEF Settles
<1> QED BY <1>1, <1>2, <1>4, <1>6, <1>8, <1>9 DEF RelayMoves, RelayInv

LEMMA MarkRetryKeeps ==
  ASSUME RelayInv, NEW r \in Relays, MarkRetry(r)
  PROVE  RelayMoves
<1> DEFINE S == relay[r].batch
<1>1. /\ At(r, "retry") /\ outbox' = Postponed(S) /\ Becomes(r, "idle", {}) /\ log' = log
      /\ UNCHANGED <<trial, faults, replays>> /\ RelayTypes
  BY DEF MarkRetry, NoFault, RelayInv
<1>2. outbox \in Seq(RowRecord) /\ log \in Seq(Events) /\ faults \in Nat /\ S \subseteq Rows
  BY <1>1 DEF RelayTypes
<1>3. /\ outbox' \in Seq(RowRecord) /\ SameEvents
      /\ \A i \in Rows : outbox'[i].state = outbox[i].state
  BY <1>1, <1>2, PostponedRows
<1>4. RelayTypes'
  BY <1>1, <1>2, <1>3, BecomesTyped DEF SameEvents
<1>5. relay'[r].step = "idle" /\ \A q \in Relays \ {r} : relay'[q] = relay[q]
  BY <1>1 DEF RelayTypes, Becomes
<1>6. ChannelInv' /\ Recorded' = Recorded
  <2>1. \A q \in Relays : relay'[q].step # "mark" \/ relay'[q] = relay[q]
    BY <1>5
  <2> QED BY <1>1, <1>3, <1>4, <2>1, ChannelKept DEF RelayInv, ChannelInv
<1>7. ASSUME NEW i \in Rows, Counted(i) PROVE Counted(i)'
  <2>1. faults' = faults /\ outbox'[i].event = outbox[i].event
    BY <1>1, <1>3 DEF SameEvents
  <2>2. i \in S => r \in Publishing(i)
    BY <1>1 DEF Publishing, At
  <2>3. i \notin S => outbox'[i] = outbox[i]
    BY <1>1 DEF Postponed
  <2> QED BY <1>1, <1>7, <2>1, <2>2, <2>3, CountedAtRest
<1>8. CopiesInv'
  BY <1>1, <1>3, <1>4, <1>7, CopiesKept DEF RelayInv
<1>9. Settles
  BY <1>1, <1>3 DEF Settles
<1> QED BY <1>1, <1>2, <1>4, <1>6, <1>8, <1>9 DEF RelayMoves, RelayInv

LEMMA RelayCrashKeeps ==
  ASSUME RelayInv, NEW r \in Relays, RelayCrash(r)
  PROVE  RelayMoves
<1>1. /\ outbox' = outbox /\ log' = log /\ UNCHANGED <<trial, replays>>
      /\ RelayTypes /\ faults' = faults + 1 /\ Becomes(r, "idle", {})
  BY DEF RelayCrash, Fault, RelayInv
<1>2. outbox \in Seq(RowRecord) /\ log \in Seq(Events) /\ faults \in Nat /\ faults' \in Nat
  BY <1>1 DEF RelayTypes
<1>3. SameEvents
  BY <1>1 DEF SameEvents
<1>4. RelayTypes'
  BY <1>1, <1>2, BecomesTyped
<1>5. relay'[r].step = "idle" /\ \A q \in Relays \ {r} : relay'[q] = relay[q]
  BY <1>1 DEF RelayTypes, Becomes
<1>6. ChannelInv' /\ Recorded' = Recorded
  <2>1. \A q \in Relays : relay'[q].step # "mark" \/ relay'[q] = relay[q]
    BY <1>5
  <2> QED BY <1>1, <1>3, <1>4, <2>1, ChannelKept DEF RelayInv, ChannelInv
<1>7. ASSUME NEW i \in Rows, Counted(i) PROVE Counted(i)'
  <2>1. outbox'[i].event = outbox[i].event
    BY <1>1
  <2> QED BY <1>1, <1>7, <2>1, CountedAtRest
<1>8. CopiesInv'
  BY <1>1, <1>3, <1>4, <1>7, CopiesKept DEF RelayInv
<1>9. Settles
  BY <1>1, <1>3 DEF Settles
<1> QED BY <1>1, <1>2, <1>4, <1>6, <1>8, <1>9 DEF RelayMoves, RelayInv

\* One row is replaced, and no relay goes on.
LEMMA RowReplaced ==
  ASSUME RelayTypes, NEW k \in Rows, NEW row \in RowRecord, outbox' = [outbox EXCEPT ![k] = row],
         row.event = outbox[k].event, UNCHANGED <<log, relay, trial>>, faults' \in Nat, replays' \in Nat
  PROVE  /\ RelayTypes' /\ SameEvents /\ Rows' = Rows
         /\ outbox'[k] = row /\ \A i \in Rows \ {k} : outbox'[i] = outbox[i]
<1>1. /\ Len(outbox) \in Nat /\ Rows = 1..Len(outbox) /\ outbox \in Seq(RowRecord)
      /\ \A i \in Rows : outbox[i] \in RowRecord
  BY RowsAre DEF RelayTypes
<1>2. outbox \in [1..Len(outbox) -> RowRecord]
  BY <1>1
<1>3. outbox' \in [1..Len(outbox) -> RowRecord]
  BY <1>1, <1>2
<1>4. outbox' \in Seq(RowRecord) /\ Len(outbox') = Len(outbox)
  BY <1>1, <1>3
<1>5. outbox'[k] = row /\ \A i \in Rows \ {k} : outbox'[i] = outbox[i]
  BY <1>1, <1>2
<1>6. SameEvents
  <2>1. \A i \in Rows : i = k \/ i \in Rows \ {k}
    OBVIOUS
  <2> QED BY <1>4, <1>5, <2>1 DEF SameEvents
<1>7. Rows' = Rows
  BY <1>1, <1>4 DEF Rows
<1> QED BY <1>4, <1>5, <1>6, <1>7 DEF RelayTypes

LEMMA DueKeeps ==
  ASSUME RelayInv, NEW k \in Rows, Due(k)
  PROVE  RelayMoves
<1>1. /\ RelayTypes /\ UNCHANGED <<log, relay, trial, replays>> /\ Waiting(k)
      /\ outbox' = [outbox EXCEPT ![k] = [outbox[k] EXCEPT !.due = TRUE]]
  BY DEF Due, Fault, RelayInv
<1>2. IF Held(k) THEN faults' = faults + 1 ELSE faults' = faults
  BY DEF Due, Fault
<1>3. outbox[k] \in RowRecord /\ log \in Seq(Events) /\ faults \in Nat /\ replays \in Nat
  BY RowsAre DEF RelayInv, RelayTypes
<1> DEFINE row == [outbox[k] EXCEPT !.due = TRUE]
<1>4. row \in RowRecord /\ row.event = outbox[k].event /\ row.state = outbox[k].state
  BY <1>3 DEF RowRecord
<1>5. PICK f \in {0, 1} : faults' = faults + f /\ (f = 1 \/ ~Held(k)) /\ faults' \in Nat
  <2>1. CASE Held(k)
    BY <1>2, <1>3, <2>1
  <2>2. CASE ~Held(k)
    <3>1. faults' = faults + 0
      BY <1>2, <1>3, <2>2
    <3> QED BY <1>2, <1>3, <2>2, <3>1
  <2> QED BY <2>1, <2>2
<1> HIDE DEF row
<1>6. /\ RelayTypes' /\ SameEvents /\ Rows' = Rows
      /\ outbox'[k] = row /\ \A i \in Rows \ {k} : outbox'[i] = outbox[i]
  <2>1. outbox' = [outbox EXCEPT ![k] = row]
    BY <1>1 DEF row
  <2> QED BY <1>1, <1>3, <1>4, <1>5, <2>1, RowReplaced
<1>7. \A i \in Rows : outbox'[i].state = outbox[i].state
  BY <1>4, <1>6
<1>8. ChannelInv' /\ Recorded' = Recorded
  BY <1>1, <1>6, <1>7, ChannelKept DEF RelayInv, ChannelInv
<1>9. ASSUME NEW i \in Rows, Counted(i) PROVE Counted(i)'
  <2>1. CopiesOn(log', outbox[i].event) = CopiesOn(log, outbox[i].event) + 0
    BY <1>1, <1>3, CopiesIsNat
  <2>2. Publishing(i)' = Publishing(i) /\ (Held(i)' <=> Held(i))
    BY <1>1 DEF Publishing, Held
  <2>3. Cardinality(Publishing(i)) \in Nat
    <3>1. Publishing(i) \subseteq Relays
      BY DEF Publishing
    <3> QED BY <3>1, RelayAssumption, FS_Subset, FS_CardinalityType
  <2>4. /\ Cardinality(Publishing(i)') = Cardinality(Publishing(i)) + 0
        /\ Cardinality(Publishing(i)') \in Nat
    BY <2>2, <2>3
  <2>5. f = 1 \/ (Obtainable(i)' => Obtainable(i))
    <3>1. CASE i = k
      BY <1>1, <1>5, <3>1 DEF Obtainable
    <3>2. CASE i # k
      BY <1>6, <2>2, <3>2 DEF Obtainable, Waiting
    <3> QED BY <3>1, <3>2
  <2>6. /\ Obtainable(i)' => 0 + 0 + (IF Obtainable(i) THEN 0 ELSE 1) <= f
        /\ ~Obtainable(i)' => 0 + 0 - (IF Obtainable(i) THEN 1 ELSE 0) <= f
        /\ 0 \in Nat /\ 0 \in Int /\ f \in Nat
    BY <2>5
  <2>7. outbox'[i].event = outbox[i].event /\ log' \in Seq(Events)
    BY <1>1, <1>3, <1>6 DEF SameEvents
  <2>8. CountsMove(i, 0, 0, f)
    BY <1>5, <2>1, <2>4, <2>6 DEF CountsMove
  <2> QED BY <1>3, <1>9, <2>3, <2>7, <2>8, CountedStays
<1>10. CopiesInv'
  BY <1>1, <1>6, <1>9, CopiesKept DEF RelayInv
<1>11. Settles
  BY <1>1, <1>6, <1>7 DEF Settles
<1> QED BY <1>1, <1>3, <1>5, <1>6, <1>8, <1>10, <1>11 DEF RelayMoves, RelayInv

LEMMA RetryOutboxKeeps ==
  ASSUME RelayInv, NEW k \in Rows, RetryOutbox(k)
  PROVE  RelayMoves
<1>1. /\ RelayTypes /\ UNCHANGED <<log, relay, trial, faults>> /\ outbox[k].state = "terminal"
      /\ outbox' = [outbox EXCEPT ![k] = NewRow(outbox[k].event)] /\ replays' = replays + 1
  BY DEF RetryOutbox, RelayInv
<1>2. outbox[k] \in RowRecord /\ log \in Seq(Events) /\ faults \in Nat /\ replays' \in Nat
  BY <1>1, RowsAre DEF RelayTypes
<1>3. outbox[k].event \in Events /\ outbox[k].event \in Malformed
  BY <1>1, <1>2 DEF RelayInv, ChannelInv, RowRecord
<1> DEFINE row == NewRow(outbox[k].event)
<1>4. row \in RowRecord /\ row.event = outbox[k].event /\ row.state = "waiting"
  BY <1>3, NewRowTyped DEF NewRow
<1> HIDE DEF row
<1>5. /\ RelayTypes' /\ SameEvents /\ Rows' = Rows
      /\ outbox'[k] = row /\ \A i \in Rows \ {k} : outbox'[i] = outbox[i]
  <2>1. outbox' = [outbox EXCEPT ![k] = row]
    BY <1>1 DEF row
  <2> QED BY <1>1, <1>2, <1>4, <2>1, RowReplaced
<1>6. \A i \in Rows : outbox'[i].state = outbox[i].state \/ (i = k /\ outbox'[i].state = "waiting")
  BY <1>4, <1>5
<1>7. ChannelInv' /\ Recorded' = Recorded
  BY <1>1, <1>5, <1>6, ChannelKept DEF RelayInv, ChannelInv
<1>8. ASSUME NEW i \in Rows, outbox[i].event \notin Malformed, Counted(i) PROVE Counted(i)'
  <2>1. outbox'[i] = outbox[i]
    BY <1>3, <1>5, <1>8
  <2> QED BY <1>1, <1>8, <2>1 DEF Counted, Publications, Publishing, Copies, Obtainable, Waiting, Held
<1>9. CopiesInv'
  BY <1>1, <1>5, <1>8, CopiesKept DEF RelayInv
<1>10. Reopens
  BY <1>1, <1>3, <1>5, <1>6 DEF Reopens
<1> QED BY <1>1, <1>2, <1>5, <1>7, <1>9, <1>10 DEF RelayMoves, RelayInv

LEMMA RelayNextKeeps ==
  ASSUME RelayInv, RelayNext
  PROVE  RelayMoves
<1>1. ASSUME NEW r \in Relays, RelayStep(r) \/ RelayFault(r) PROVE RelayMoves
  BY <1>1, ClaimKeeps, MarkTerminalKeeps, PublishKeeps, PublishFailsKeeps, MarkDeliveredKeeps,
     MarkFailsKeeps, MarkRetryKeeps, RelayCrashKeeps, Zenon DEF RelayStep, RelayFault
<1> QED BY <1>1, DueKeeps, RetryOutboxKeeps, Zenon DEF RelayNext

-----------------------------------------------------------------------------
(* What the other components do to the outbox. *)

LEMMA OutboxStays ==
  ASSUME RelayInv, UNCHANGED <<outbox, log, relay, trial>>, faults' \in Nat, replays' \in Nat, faults <= faults'
  PROVE  RelayInv' /\ Recorded' = Recorded
<1>1. RelayTypes' /\ ChannelInv' /\ Recorded' = Recorded /\ Rows' = Rows
  BY DEF RelayInv, RelayTypes, ChannelInv, Recorded, Rows
<1>2. ASSUME NEW i \in Rows, Counted(i) PROVE Counted(i)'
  <2>1. Publishing(i)' = Publishing(i) /\ (Obtainable(i)' <=> Obtainable(i)) /\ outbox'[i].event = outbox[i].event
    BY DEF Publishing, Obtainable, Held, Waiting
  <2>2. Publications(i)' = Publications(i)
    BY <2>1 DEF Publications
  <2>3. Copies(outbox[i].event)' = Copies(outbox[i].event)
    BY DEF Copies
  <2>4. Cardinality(Publishing(i)) \in Nat
    <3>1. Publishing(i) \subseteq Relays
      BY DEF Publishing
    <3> QED BY <3>1, RelayAssumption, FS_Subset, FS_CardinalityType
  <2>5. Publications(i) \in Nat
    BY <2>4 DEF Publications
  <2>6. Copies(outbox[i].event) \in Nat
    BY CopiesIsNat DEF Copies, CopiesOn, RelayInv, RelayTypes
  <2>7. faults \in Nat
    BY DEF RelayInv, RelayTypes
  <2> QED BY <1>2, <2>2, <2>3, <2>5, <2>6, <2>7 DEF Counted
<1>3. SameEvents
  BY DEF SameEvents
<1> QED BY <1>1, <1>2, <1>3, CopiesKept DEF RelayInv

LEMMA OutboxGrows ==
  ASSUME RelayInv, NEW e \in Events, outbox' = Append(outbox, NewRow(e)),
         UNCHANGED <<log, relay, trial, faults>>, replays' \in Nat,
         e \notin Range(trial.changes) \/ e \notin Recorded
  PROVE  /\ RelayInv' /\ Recorded' = Recorded \cup {e}
         /\ Rows' = Rows \cup {Len(outbox) + 1} /\ Len(outbox) + 1 \notin Rows
         /\ outbox'[Len(outbox) + 1] = NewRow(e) /\ \A i \in Rows : outbox'[i] = outbox[i]
<1> DEFINE n == Len(outbox)  k == Len(outbox) + 1
<1>1. /\ RelayTypes /\ outbox \in Seq(RowRecord) /\ n \in Nat /\ Rows = 1..n
      /\ \A i \in Rows : outbox[i] \in RowRecord
  BY RowsAre DEF RelayInv, RelayTypes
<1>2. NewRow(e) \in RowRecord /\ NewRow(e).event = e /\ NewRow(e).state = "waiting"
  BY NewRowTyped DEF NewRow
<1>3. /\ outbox' \in Seq(RowRecord) /\ Len(outbox') = k
      /\ \A i \in Rows : outbox'[i] = outbox[i]
      /\ outbox'[k] = NewRow(e)
  BY <1>1, <1>2
<1>4. Rows' = Rows \cup {k} /\ k \notin Rows
  <2>1. Rows' = 1..k
    BY <1>1, <1>3 DEF Rows
  <2> QED BY <1>1, <2>1
<1> HIDE DEF k, n
<1>5. RelayTypes'
  BY <1>3, <1>4 DEF RelayInv, RelayTypes
<1>6. Recorded' = Recorded \cup {e}
  <2>1. Recorded' = {outbox'[i].event : i \in Rows} \cup {outbox'[k].event}
    BY <1>4 DEF Recorded
  <2>2. {outbox'[i].event : i \in Rows} = {outbox[i].event : i \in Rows}
    BY <1>3
  <2>3. outbox'[k].event = e
    BY <1>2, <1>3
  <2> QED BY <2>1, <2>2, <2>3, Zenon DEF Recorded
<1>7. ChannelInv'
  <2>1. Range(log)' \subseteq (Recorded \ Malformed)'
    BY <1>6 DEF RelayInv, ChannelInv
  <2>2. ASSUME NEW i \in Rows'
        PROVE  /\ outbox'[i].state = "delivered" => outbox'[i].event \in Range(log')
               /\ outbox'[i].state = "terminal" => outbox'[i].event \in Malformed
    <3>1. CASE i \in Rows
      BY <1>3, <3>1 DEF RelayInv, ChannelInv
    <3>2. CASE i = k
      BY <1>2, <1>3, <3>2
    <3> QED BY <1>4, <3>1, <3>2
  <2>3. ASSUME NEW r \in Relays, relay'[r].step = "mark", NEW i \in relay'[r].batch
        PROVE  outbox'[i].event \in Range(log')
    <3>1. i \in Rows
      BY <1>1, <2>3 DEF RelayTypes
    <3> QED BY <1>3, <2>3, <3>1 DEF RelayInv, ChannelInv
  <2> QED BY <2>1, <2>2, <2>3 DEF ChannelInv
<1>8. ASSUME NEW i \in Rows', outbox'[i].event \in Range(trial'.changes) \ Malformed
      PROVE  Single(i)' /\ Counted(i)'
  <2>1. CASE i \in Rows
    <3>1. /\ outbox'[i] = outbox[i] /\ Single(i) /\ Counted(i)
          /\ outbox[i].event \in Range(trial.changes) /\ outbox[i].event \in Recorded
      BY <1>3, <1>8, <2>1 DEF RelayInv, CopiesInv, Recorded
    <3>2. e # outbox[i].event
      BY <3>1
    <3>3. Single(i)'
      BY <1>2, <1>3, <1>4, <3>1, <3>2 DEF Single
    <3>4. Counted(i)'
      BY <3>1 DEF Counted, Publications, Publishing, Copies, Obtainable, Waiting, Held
    <3> QED BY <3>3, <3>4
  <2>2. CASE i = k
    <3>1. outbox'[i] = NewRow(e) /\ outbox'[i].event = e /\ e \notin Recorded
      BY <1>2, <1>3, <1>8, <2>2
    <3>2. \A j \in Rows : outbox'[j].event # e
      BY <1>3, <3>1 DEF Recorded
    <3>3. Single(i)'
      BY <1>4, <2>2, <3>1, <3>2 DEF Single
    <3>4. Copies(outbox[i].event)' = 0
      <4>1. {m \in DOMAIN log' : log'[m] = outbox'[i].event} = {}
        BY <3>1 DEF RelayInv, ChannelInv, Range
      <4> QED BY <4>1, FS_EmptySet DEF Copies
    <3>5. Cardinality(Publishing(i)') = 0
      <4>1. Publishing(i)' = {}
        BY <1>1, <1>4, <2>2 DEF Publishing, RelayTypes
      <4> QED BY <4>1, FS_EmptySet
    <3>6. Publications(i)' \in {0, 1}
      BY <3>5 DEF Publications
    <3>7. faults' \in Nat
      BY <1>5 DEF RelayTypes
    <3> QED BY <3>3, <3>4, <3>6, <3>7 DEF Counted
  <2> QED BY <1>4, <2>1, <2>2
<1>9. CopiesInv'
  BY <1>8 DEF CopiesInv
<1> QED BY <1>3, <1>4, <1>5, <1>6, <1>7, <1>9 DEF RelayInv, k

LEMMA RelayBegins ==
  ASSUME trial \in Trials, RelayInit
  PROVE  RelayInv
<1> DEFINE n == Len(log)
<1>1. /\ log = trial.backlog /\ faults = 0 /\ replays = 0 /\ relay = [r \in Relays |-> Free]
      /\ outbox = [i \in DOMAIN log |-> [NewRow(log[i]) EXCEPT !.state = "delivered", !.due = FALSE]]
  BY DEF RelayInit
<1>2. /\ log \in Seq(Events)
      /\ Range(log) \cap (Malformed \cup Range(trial.changes)) = {}
  <2>1. /\ trial.backlog \in Seq(Events \ {Recovery})
        /\ Range(trial.backlog) \cap (Malformed \cup Range(trial.changes)) = {}
    BY TrialAssumption, Zenon
  <2>2. trial.backlog \in Seq(Events)
    BY <2>1
  <2> QED BY <1>1, <2>1, <2>2
<1>3. n \in Nat /\ DOMAIN log = 1..n /\ \A i \in 1..n : log[i] \in Events /\ log[i] \in Range(log)
  BY <1>2 DEF Range
<1> HIDE DEF n
<1>4. \A i \in 1..n : outbox[i] \in RowRecord /\ outbox[i].event = log[i] /\ outbox[i].state = "delivered"
  BY <1>1, <1>3 DEF NewRow, RowRecord
<1>5. outbox \in [1..n -> RowRecord]
  BY <1>1, <1>3, <1>4
<1>6. outbox \in Seq(RowRecord) /\ Len(outbox) = n /\ Rows = 1..n
  BY <1>3, <1>5 DEF Rows
<1>7. RelayTypes
  BY <1>1, <1>2, <1>6 DEF RelayTypes, RelayRecord, Free
<1>8. \A m \in Range(log) : m \in Recorded \ Malformed
  <2>1. \A m \in Range(log) : \E i \in 1..n : m = log[i]
    BY <1>3 DEF Range
  <2> QED BY <1>2, <1>4, <1>6, <2>1 DEF Recorded
<1>9. ChannelInv
  BY <1>1, <1>3, <1>4, <1>6, <1>8 DEF ChannelInv, Free
<1>10. CopiesInv
  BY <1>2, <1>3, <1>4, <1>6 DEF CopiesInv
<1> QED BY <1>7, <1>9, <1>10 DEF RelayInv

-----------------------------------------------------------------------------
(* Receipts and deliveries. *)

\* What a step may do to them: whatever is answered stays answered.
TablesInv == TableTypes /\ ReceiptsInv /\ GivenUpIsReported
DeliveriesMove ==
  \A e \in Events :
    \/ deliveries'[e] = deliveries[e]
    \/ deliveries[e].status = "none" /\ deliveries'[e] = Intake!NewDelivery
AnswersStay == \A e \in Events : Answered(e) => Answered(e)'
TablesMove == TablesInv' /\ AnswersStay /\ DeliveriesMove

LEMMA TablesStay ==
  ASSUME TablesInv, UNCHANGED <<receipts, deliveries, reported>>, Range(log) \subseteq Range(log')
  PROVE  TablesMove
<1>1. TableTypes' /\ GivenUpIsReported' /\ AnswersStay /\ DeliveriesMove
  BY DEF TablesInv, TableTypes, GivenUpIsReported, AnswersStay, Answered, DeliveriesMove
<1>2. ReceiptsInv'
  BY DEF TablesInv, ReceiptsInv
<1> QED BY <1>1, <1>2 DEF TablesMove, TablesInv

\* A receipt says that its event is tried again or given up.
LEMMA ReceiptBecomes ==
  ASSUME TablesInv, NEW e \in Events, NEW receipt \in ReceiptRecord,
         receipts' = [receipts EXCEPT ![e] = receipt],
         log' = log, deliveries' = deliveries, reported \subseteq reported', reported' \subseteq Events,
         \/ receipt.status = "terminal" /\ e \in reported'
         \/ receipt.status = "retrying" /\ (e \in Wanted \cap Range(log) \/ e \in reported)
  PROVE  TablesMove
<1>1. /\ receipts'[e] = receipt /\ \A d \in Events \ {e} : receipts'[d] = receipts[d]
      /\ receipts' \in [Events -> ReceiptRecord]
  BY DEF TablesInv, TableTypes
<1>2. TableTypes'
  BY <1>1 DEF TablesInv, TableTypes
<1>3. GivenUpIsReported'
  BY <1>1 DEF TablesInv, GivenUpIsReported
<1>4. AnswersStay
  BY <1>1 DEF TablesInv, GivenUpIsReported, AnswersStay, Answered
<1>5. ReceiptsInv'
  BY <1>1 DEF TablesInv, ReceiptsInv
<1>6. DeliveriesMove
  BY DEF DeliveriesMove
<1> QED BY <1>2, <1>3, <1>4, <1>5, <1>6 DEF TablesMove, TablesInv

LEMMA AttemptedIs ==
  ASSUME TablesInv, NEW e \in Events
  PROVE  Intake!Attempted(e) \in 0..RetryLimit /\ receipts[e].status \in {"none", "retrying", "processed", "terminal"}
<1>1. receipts[e].attempts \in 0..RetryLimit /\ receipts[e].status \in {"none", "retrying", "processed", "terminal"}
  BY DEF TablesInv, TableTypes, ReceiptRecord
<1> QED BY <1>1, DeliveryAssumption DEF Intake!Attempted

\* The receipt, and the deliveries unless they exist.
LEMMA EnqueueMoves ==
  ASSUME TablesInv, NEW e \in Events, Intake!Enqueue(e), ~Intake!Handled(e), log' = log, reported' = reported
  PROVE  TablesMove /\ Answered(e)'
<1> DEFINE receipt == [status |-> "processed", attempts |-> Intake!Attempted(e)]
<1>1. receipt \in ReceiptRecord /\ receipt.status = "processed"
  BY AttemptedIs DEF ReceiptRecord
<1>2. receipts' = [receipts EXCEPT ![e] = receipt]
  BY DEF Intake!Enqueue
<1> HIDE DEF receipt
<1>3. /\ receipts'[e] = receipt /\ \A d \in Events \ {e} : receipts'[d] = receipts[d]
      /\ receipts' \in [Events -> ReceiptRecord]
  BY <1>1, <1>2 DEF TablesInv, TableTypes
<1>4. Intake!NewDelivery \in DeliveryRecord /\ Intake!NewDelivery.status = "pending" /\ ~Intake!NewDelivery.terminal
  <2>1. 0 \in 0..MaxAttempts
    BY DeliveryAssumption
  <2>2. Intake!NoDelivery \in DeliveryRecord /\ ~Intake!NoDelivery.terminal
    BY <2>1 DEF Intake!NoDelivery, DeliveryRecord
  <2>3. \A d \in DeliveryRecord :
          LET n == [d EXCEPT !.status = "pending", !.due = TRUE]
          IN  n \in DeliveryRecord /\ n.status = "pending" /\ n.terminal = d.terminal
    BY DEF DeliveryRecord
  <2> QED BY <2>2, <2>3 DEF Intake!NewDelivery
<1>5. /\ deliveries' \in [Events -> DeliveryRecord] /\ deliveries'[e].status # "none"
      /\ \A d \in Events \ {e} : deliveries'[d] = deliveries[d]
      /\ deliveries'[e] = deliveries[e] \/ (deliveries[e].status = "none" /\ deliveries'[e] = Intake!NewDelivery)
  <2>1. CASE deliveries[e].status = "none"
    <3>1. deliveries' = [deliveries EXCEPT ![e] = Intake!NewDelivery]
      BY <2>1 DEF Intake!Enqueue
    <3> QED BY <1>4, <2>1, <3>1 DEF TablesInv, TableTypes
  <2>2. CASE deliveries[e].status # "none"
    <3>1. deliveries' = deliveries
      BY <2>2 DEF Intake!Enqueue
    <3> QED BY <2>2, <3>1 DEF TablesInv, TableTypes
  <2> QED BY <2>1, <2>2
<1>6. TableTypes'
  BY <1>3, <1>5 DEF TablesInv, TableTypes
<1>7. GivenUpIsReported'
  BY <1>1, <1>3, <1>4, <1>5 DEF TablesInv, GivenUpIsReported
<1>8. AnswersStay
  BY <1>1, <1>3, <1>5 DEF AnswersStay, Answered
<1>9. ReceiptsInv'
  BY <1>1, <1>3, <1>4, <1>5 DEF TablesInv, ReceiptsInv
<1>10. DeliveriesMove
  BY <1>5 DEF DeliveriesMove
<1>11. Answered(e)'
  BY <1>5 DEF Answered
<1> QED BY <1>6, <1>7, <1>8, <1>9, <1>10, <1>11 DEF TablesMove, TablesInv

-----------------------------------------------------------------------------
(* The batches of the consumer. *)

\* The log keeps what it has.
LogExtended ==
  log' \in Seq(Events) /\ Len(log) <= Len(log') /\ \A i \in 1..Len(log) : log'[i] = log[i]
\* A step that is not the consumer's begin or end of a batch: no message that the
\* open pass has taken goes without an answer or a handler.
PassMoves ==
  /\ offset' = offset /\ skipped \subseteq skipped'
  /\ \/ open' = Intake!None
     \/ /\ open' = open /\ open \in {0, 1}
        /\ pass'[open].last = pass[open].last /\ pass'[open].next = pass[open].next
        /\ \A h \in handlers : h.pass = open =>
             Answered(log[h.at])' \/ \E k \in handlers' : k.pass = h.pass /\ k.at = h.at
CommittedInv == PassInv /\ CommittedIsHandledOrSkipped
ConsumerMoves == ConsumerInv' /\ DeliveriesMove

LEMMA Consumers ==
  ConsumerInv <=> ConsumerTypes /\ TablesInv /\ CommittedInv
BY DEF ConsumerInv, TablesInv, CommittedInv

LEMMA LogIs ==
  ASSUME log \in Seq(Events), ConsumerTypes
  PROVE  /\ Len(log) \in Nat /\ DOMAIN log = 1..Len(log) /\ offset \in Nat /\ offset <= Len(log)
         /\ \A i \in 1..Len(log) : log[i] \in Events /\ log[i] \in Range(log)
         /\ \A g \in {0, 1} : /\ pass[g] \in PassRecord /\ pass[g].next \in Nat \ {0} /\ pass[g].last \in Nat
                              /\ pass[g].last <= Len(log) /\ pass[g].next <= Len(log) + 1
<1>1. Len(log) \in Nat /\ DOMAIN log = 1..Len(log)
  OBVIOUS
<1>2. \A i \in 1..Len(log) : log[i] \in Events /\ log[i] \in Range(log)
  BY <1>1 DEF Range
<1> QED BY <1>1, <1>2 DEF ConsumerTypes, PassRecord

LEMMA PassKept ==
  ASSUME log \in Seq(Events), ConsumerTypes, CommittedInv, LogExtended, AnswersStay, PassMoves
  PROVE  CommittedInv'
<1>1. /\ Len(log) \in Nat /\ offset \in Nat /\ offset <= Len(log)
      /\ \A i \in 1..Len(log) : log[i] \in Events /\ log'[i] = log[i]
  BY LogIs DEF LogExtended
<1>2. \A i \in 1..Len(log) : Answered(log[i]) => Answered(log[i])'
  BY <1>1 DEF AnswersStay, Answered
<1>3. CommittedIsHandledOrSkipped'
  BY <1>1, <1>2 DEF CommittedInv, CommittedIsHandledOrSkipped, PassMoves
<1>4. ASSUME open' # Intake!None
      PROVE  /\ offset' <= pass'[open'].last
             /\ \A i \in (offset' + 1) .. (pass'[open'].next - 1) : TakenCareOf(open, i)'
  <2>1. /\ open' = open /\ open \in {0, 1} /\ open # Intake!None
        /\ pass'[open].last = pass[open].last /\ pass'[open].next = pass[open].next
        /\ \A h \in handlers : h.pass = open =>
             Answered(log[h.at])' \/ \E k \in handlers' : k.pass = h.pass /\ k.at = h.at
    BY <1>4 DEF PassMoves
  <2>2. offset' = offset /\ skipped \subseteq skipped'
    BY DEF PassMoves
  <2>3. ASSUME NEW i \in (offset + 1) .. (pass[open].next - 1) PROVE TakenCareOf(open, i)'
    <3>1. TakenCareOf(open, i)
      BY <2>1, <2>3 DEF CommittedInv, PassInv
    <3>2. i \in 1..Len(log) /\ log'[i] = log[i]
      BY <1>1, <2>1, <2>3, LogIs
    <3>3. CASE \E h \in handlers : h.pass = open /\ h.at = i
      BY <2>1, <2>2, <3>2, <3>3 DEF TakenCareOf
    <3> QED BY <1>2, <2>1, <2>2, <3>1, <3>2, <3>3 DEF TakenCareOf
  <2> QED BY <2>1, <2>2, <2>3 DEF CommittedInv, PassInv
<1> QED BY <1>3, <1>4 DEF CommittedInv, PassInv

\* The steps of the other components.
LEMMA ConsumerStays ==
  ASSUME log \in Seq(Events), ConsumerInv, UNCHANGED consumerVars, LogExtended, TablesInv', AnswersStay
  PROVE  ConsumerInv'
<1>1. ConsumerTypes /\ CommittedInv
  BY Consumers
<1>2. /\ UNCHANGED <<offset, open, pass, handlers, skipped>> /\ Len(log) \in Nat /\ Len(log') \in Nat
      /\ Len(log) <= Len(log') /\ \A i \in 1..Len(log) : log'[i] = log[i]
  BY DEF consumerVars, LogExtended
<1>3. ConsumerTypes'
  <2>1. ASSUME NEW h \in handlers PROVE h.at \in 1..Len(log') /\ log'[h.at] \in Wanted
    <3>1. h.at \in 1..Len(log) /\ log[h.at] \in Wanted
      BY <1>1 DEF ConsumerTypes
    <3> QED BY <1>2, <3>1
  <2>2. ASSUME NEW g \in {0, 1} PROVE pass[g].last <= Len(log') /\ pass[g].next <= Len(log') + 1
    BY <1>1, <1>2, LogIs
  <2>3. skipped \subseteq 1..Len(log') /\ offset \in 0..Len(log')
    BY <1>1, <1>2 DEF ConsumerTypes
  <2> QED BY <1>1, <1>2, <2>1, <2>2, <2>3 DEF ConsumerTypes
<1>4. PassMoves
  <2>1. open \in {0, 1, Intake!None}
    BY <1>1 DEF ConsumerTypes
  <2> QED BY <1>2, <2>1 DEF PassMoves
<1>5. CommittedInv'
  BY <1>1, <1>4, PassKept
<1>6. (ConsumerInv <=> ConsumerTypes /\ TablesInv /\ CommittedInv)'
  BY Consumers, PTL
<1> QED BY <1>3, <1>5, <1>6

-----------------------------------------------------------------------------
(* The steps of the handlers. *)

LEMMA HandlerIs ==
  ASSUME log \in Seq(Events), ConsumerTypes, NEW h \in handlers
  PROVE  /\ h \in HandlerRecord /\ h.pass \in {0, 1} /\ h.at \in 1..Len(log) /\ log[h.at] \in Wanted
         /\ log[h.at] \in Events /\ log[h.at] \in Wanted \cap Range(log)
<1>1. h \in HandlerRecord /\ h.at \in 1..Len(log) /\ log[h.at] \in Wanted
  BY DEF ConsumerTypes
<1> QED BY <1>1, LogIs DEF HandlerRecord

LEMMA ReturnKeeps ==
  ASSUME log \in Seq(Events), ConsumerTypes, NEW h \in handlers, Intake!Return(h), Answered(log[h.at])',
         UNCHANGED <<log, offset, skipped>>
  PROVE  ConsumerTypes' /\ PassMoves
<1>1. handlers' = handlers \ {h} /\ pass' = pass /\ open' = open
  BY DEF Intake!Return
<1>2. ConsumerTypes'
  BY <1>1 DEF ConsumerTypes
<1>3. open \in {0, 1, Intake!None}
  BY DEF ConsumerTypes
<1> QED BY <1>1, <1>2, <1>3 DEF PassMoves

LEMMA GotoKeeps ==
  ASSUME log \in Seq(Events), ConsumerTypes, NEW h \in handlers, NEW s \in {"retry", "terminal"}, Intake!Goto(h, s),
         UNCHANGED <<log, offset, skipped>>
  PROVE  ConsumerTypes' /\ PassMoves
<1> DEFINE k == [h EXCEPT !.step = s]
<1>1. handlers' = (handlers \ {h}) \cup {k} /\ pass' = pass /\ open' = open
  BY DEF Intake!Goto
<1>2. h \in HandlerRecord /\ h.at \in 1..Len(log) /\ log[h.at] \in Wanted
  BY HandlerIs
<1>3. k \in HandlerRecord /\ k.pass = h.pass /\ k.at = h.at
  BY <1>2 DEF HandlerRecord
<1> HIDE DEF k
<1>4. ConsumerTypes'
  BY <1>1, <1>2, <1>3 DEF ConsumerTypes
<1>5. open \in {0, 1, Intake!None}
  BY DEF ConsumerTypes
<1> QED BY <1>1, <1>3, <1>4, <1>5 DEF PassMoves

LEMMA ThrowKeeps ==
  ASSUME log \in Seq(Events), ConsumerTypes, NEW h \in handlers, Intake!Throw(h),
         UNCHANGED <<log, offset, skipped>>
  PROVE  ConsumerTypes' /\ PassMoves
<1>1. h.pass \in {0, 1}
  BY HandlerIs
<1>2. /\ handlers' = handlers \ {h}
      /\ pass' = [pass EXCEPT ![h.pass].workers = @ - 1]
      /\ open' = IF open = h.pass THEN Intake!None ELSE open
  BY DEF Intake!Throw
<1>3. open \in {0, 1, Intake!None}
  BY DEF ConsumerTypes
<1>4. /\ pass' \in [{0, 1} -> PassRecord]
      /\ \A g \in {0, 1} : pass'[g].last = pass[g].last /\ pass'[g].next = pass[g].next
  <2> DEFINE p == [pass[h.pass] EXCEPT !.workers = @ - 1]
  <2>1. pass[h.pass] \in PassRecord /\ pass \in [{0, 1} -> PassRecord]
    BY <1>1 DEF ConsumerTypes
  <2>2. p \in PassRecord /\ p.last = pass[h.pass].last /\ p.next = pass[h.pass].next
    BY <2>1 DEF PassRecord
  <2>3. pass' = [pass EXCEPT ![h.pass] = p]
    BY <1>2
  <2> HIDE DEF p
  <2> QED BY <1>1, <2>1, <2>2, <2>3
<1>5. ConsumerTypes'
  BY <1>2, <1>3, <1>4 DEF ConsumerTypes
<1>6. PassMoves
  <2>1. CASE open = h.pass
    BY <1>2, <2>1 DEF PassMoves
  <2>2. CASE open = Intake!None
    BY <1>2, <2>2 DEF PassMoves
  <2>3. CASE open # h.pass /\ open \in {0, 1}
    <3>1. \A x \in handlers : x.pass = open => x \in handlers'
      BY <1>2, <2>3
    <3> QED BY <1>2, <1>4, <2>3, <3>1 DEF PassMoves
  <2> QED BY <1>3, <2>1, <2>2, <2>3
<1> QED BY <1>5, <1>6

LEMMA HandlerKeeps ==
  ASSUME log \in Seq(Events), ConsumerInv, log' = log, TablesMove, ConsumerTypes' /\ PassMoves
  PROVE  ConsumerMoves
<1>1. ConsumerTypes /\ CommittedInv
  BY Consumers
<1>2. LogExtended
  BY LogIs, <1>1 DEF LogExtended
<1>3. CommittedInv'
  BY <1>1, <1>2, PassKept DEF TablesMove
<1>4. (ConsumerInv <=> ConsumerTypes /\ TablesInv /\ CommittedInv)'
  BY Consumers, PTL
<1> QED BY <1>3, <1>4 DEF TablesMove, ConsumerMoves

LEMMA EnqueueEventKeeps ==
  ASSUME log \in Seq(Events), ConsumerInv, NEW h \in handlers, Intake!EnqueueNotificationEvent(h)
  PROVE  ConsumerMoves
<1> DEFINE e == log[h.at]
<1>1. ConsumerTypes /\ TablesInv
  BY Consumers
<1>2. e \in Events
  BY <1>1, HandlerIs
<1>3. UNCHANGED <<log, offset, skipped>>
  BY DEF Intake!EnqueueNotificationEvent
<1>4. CASE Intake!Handled(e) /\ Intake!Return(h) /\ UNCHANGED tableVars
  <2>1. UNCHANGED <<receipts, deliveries, reported>>
    BY <1>4 DEF tableVars
  <2>2. TablesMove
    BY <1>1, <1>3, <2>1, TablesStay
  <2>3. Answered(e)
    BY <1>1, <1>2, <1>4 DEF Intake!Handled, TablesInv, ReceiptsInv, Answered
  <2>4. Answered(e)'
    BY <1>3, <2>1, <2>3 DEF Answered
  <2> QED BY <1>1, <1>3, <1>4, <2>2, <2>4, ReturnKeeps, HandlerKeeps
<1>5. CASE ~Intake!Handled(e) /\ Intake!Enqueue(e) /\ Intake!Return(h) /\ reported' = reported
  <2>1. TablesMove /\ Answered(e)'
    BY <1>1, <1>2, <1>3, <1>5, EnqueueMoves
  <2> QED BY <1>1, <1>3, <1>5, <2>1, ReturnKeeps, HandlerKeeps
<1>6. CASE Intake!Goto(h, "retry") /\ UNCHANGED tableVars
  <2>1. TablesMove
    BY <1>1, <1>3, <1>6, TablesStay DEF tableVars
  <2>2. "retry" \in {"retry", "terminal"}
    OBVIOUS
  <2> QED BY <1>1, <1>3, <1>6, <2>1, <2>2, GotoKeeps, HandlerKeeps
<1> QED BY <1>4, <1>5, <1>6 DEF Intake!EnqueueNotificationEvent, Intake!tables, tableVars

LEMMA EnqueueFailsKeeps ==
  ASSUME log \in Seq(Events), ConsumerInv, NEW h \in handlers, Intake!EnqueueFails(h)
  PROVE  ConsumerMoves
<1>1. ConsumerTypes /\ TablesInv
  BY Consumers
<1>2. UNCHANGED <<log, offset, skipped, receipts, deliveries, reported>> /\ Intake!Goto(h, "retry")
  BY DEF Intake!EnqueueFails, Intake!tables
<1>3. TablesMove
  BY <1>1, <1>2, TablesStay
<1>4. "retry" \in {"retry", "terminal"}
  OBVIOUS
<1> QED BY <1>1, <1>2, <1>3, <1>4, GotoKeeps, HandlerKeeps

LEMMA RecordRetryKeeps ==
  ASSUME log \in Seq(Events), ConsumerInv, NEW h \in handlers, Intake!RecordRetry(h)
  PROVE  ConsumerMoves
<1> DEFINE e == log[h.at]  receipt == [status |-> "retrying", attempts |-> Intake!Attempted(e)]
<1>1. ConsumerTypes /\ TablesInv
  BY Consumers
<1>2. e \in Events /\ e \in Wanted \cap Range(log)
  BY <1>1, HandlerIs
<1>3. /\ UNCHANGED <<log, offset, skipped, deliveries, reported>> /\ receipts' = [receipts EXCEPT ![e] = receipt]
      /\ Intake!Goto(h, "terminal") \/ Intake!Throw(h)
  BY DEF Intake!RecordRetry
<1>4. receipt \in ReceiptRecord /\ receipt.status = "retrying"
  BY <1>1, <1>2, AttemptedIs DEF ReceiptRecord
<1> HIDE DEF e, receipt
<1>5. reported' \subseteq Events /\ reported \subseteq reported'
  BY <1>1, <1>3 DEF TablesInv, TableTypes
<1>6. TablesMove
  BY <1>1, <1>2, <1>3, <1>4, <1>5, ReceiptBecomes
<1>7. "terminal" \in {"retry", "terminal"}
  OBVIOUS
<1>8. ConsumerTypes' /\ PassMoves
  BY <1>1, <1>3, <1>7, GotoKeeps, ThrowKeeps
<1> QED BY <1>3, <1>6, <1>8, HandlerKeeps

LEMMA TerminalReceiptKeeps ==
  ASSUME log \in Seq(Events), ConsumerInv, NEW h \in handlers, Intake!TerminalReceipt(h)
  PROVE  ConsumerMoves
<1> DEFINE e == log[h.at]  receipt == [receipts[e] EXCEPT !.status = "terminal"]
<1>1. ConsumerTypes /\ TablesInv
  BY Consumers
<1>2. e \in Events
  BY <1>1, HandlerIs
<1>3. /\ UNCHANGED <<log, offset, skipped, deliveries>> /\ receipts' = [receipts EXCEPT ![e] = receipt]
      /\ reported' = reported \cup {e} /\ Intake!Return(h)
  BY DEF Intake!TerminalReceipt
<1>4. receipt \in ReceiptRecord /\ receipt.status = "terminal"
  BY <1>1, <1>2 DEF ReceiptRecord, TablesInv, TableTypes
<1>5. Answered(log[h.at])'
  BY <1>3 DEF Answered
<1> HIDE DEF e, receipt
<1>6. reported' \subseteq Events /\ reported \subseteq reported' /\ e \in reported'
  BY <1>1, <1>2, <1>3 DEF TablesInv, TableTypes
<1>7. TablesMove
  BY <1>1, <1>2, <1>3, <1>4, <1>6, ReceiptBecomes
<1> QED BY <1>1, <1>3, <1>5, <1>7, ReturnKeeps, HandlerKeeps

LEMMA RecordingFailsKeeps ==
  ASSUME log \in Seq(Events), ConsumerInv, NEW h \in handlers, Intake!RecordingFails(h)
  PROVE  ConsumerMoves
<1>1. ConsumerTypes /\ TablesInv
  BY Consumers
<1>2. UNCHANGED <<log, offset, skipped, receipts, deliveries, reported>> /\ Intake!Throw(h)
  BY DEF Intake!RecordingFails, Intake!tables
<1>3. TablesMove
  BY <1>1, <1>2, TablesStay
<1> QED BY <1>1, <1>2, <1>3, ThrowKeeps, HandlerKeeps

-----------------------------------------------------------------------------
(* The steps of the consumer. *)

LEMMA StartedAre ==
  ASSUME log \in Seq(Events), NEW g \in {0, 1}, NEW S \in SUBSET (1..Len(log))
  PROVE  /\ \A k \in Intake!Started(g, S) : k \in HandlerRecord /\ k.at \in 1..Len(log) /\ log[k.at] \in Wanted
         /\ \A i \in S : log[i] \in Wanted => \E k \in Intake!Started(g, S) : k.pass = g /\ k.at = i
<1>1. Len(log) \in Nat
  OBVIOUS
<1>2. ASSUME NEW i \in S
      PROVE  LET k == [pass |-> g, at |-> i, step |-> "enqueue"]
             IN  k \in HandlerRecord /\ k.pass = g /\ k.at = i /\ i \in 1..Len(log)
  BY <1>1 DEF HandlerRecord
<1>3. \A k \in Intake!Started(g, S) : k \in HandlerRecord /\ k.at \in 1..Len(log) /\ log[k.at] \in Wanted
  BY <1>2 DEF Intake!Started
<1>4. \A i \in S : log[i] \in Wanted => \E k \in Intake!Started(g, S) : k.pass = g /\ k.at = i
  BY <1>2 DEF Intake!Started
<1> QED BY <1>3, <1>4

\* A batch takes no more messages than there are, and not more than its width.
LEMMA TakenAre ==
  ASSUME NEW first \in Nat \ {0}, NEW n \in Nat, first <= n, NEW width \in Nat
  PROVE  LET taken == {i \in first..n : i < first + width}
             next == first + Cardinality(taken)
         IN  /\ taken \subseteq 1..n /\ next \in Nat \ {0} /\ next <= n + 1
             /\ \A i \in first..(next - 1) : i \in taken
<1> DEFINE taken == {i \in first..n : i < first + width}  c == Cardinality(taken)
<1>1. IsFiniteSet(first..n) /\ Cardinality(first..n) = n - first + 1
  BY FS_Interval
<1>2. IsFiniteSet(taken) /\ c <= n - first + 1
  <2>1. taken \subseteq first..n
    OBVIOUS
  <2> QED BY <1>1, <2>1, FS_Subset
<1>3. c <= width
  <2>1. CASE width = 0
    <3>1. taken = {}
      BY <2>1
    <3> QED BY <2>1, <3>1, FS_EmptySet
  <2>2. CASE width # 0
    <3>1. first + width - 1 \in Int /\ first <= first + width - 1
      BY <2>2
    <3>2. IsFiniteSet(first..(first + width - 1)) /\ Cardinality(first..(first + width - 1)) = (first + width - 1) - first + 1
      BY <3>1, FS_Interval
    <3>3. taken \subseteq first..(first + width - 1)
      OBVIOUS
    <3>4. c <= (first + width - 1) - first + 1
      BY <3>2, <3>3, FS_Subset
    <3>5. c \in Nat
      BY <1>2, FS_CardinalityType
    <3> QED BY <3>4, <3>5
  <2> QED BY <2>1, <2>2
<1>4. c \in Nat
  BY <1>2, FS_CardinalityType
<1>5. taken \subseteq 1..n
  OBVIOUS
<1>6. first + c \in Nat \ {0} /\ first + c <= n + 1 /\ \A i \in first..((first + c) - 1) : i \in first..n /\ i < first + width
  <2> HIDE DEF taken, c
  <2> QED BY <1>2, <1>3, <1>4
<1>7. \A i \in first..((first + c) - 1) : i \in taken
  BY <1>6
<1> QED BY <1>5, <1>6, <1>7

LEMMA EachBatchKeeps ==
  ASSUME log \in Seq(Events), trial \in Trials, ConsumerInv, NEW g \in {0, 1}, Intake!EachBatch(g)
  PROVE  ConsumerMoves
<1> DEFINE first == offset + 1
           taken == {i \in first..Len(log) : i < first + trial.width}
           next == first + Cardinality(taken)
<1>1. ConsumerTypes /\ TablesInv /\ CommittedInv
  BY Consumers
<1>2. /\ UNCHANGED <<log, offset, skipped, receipts, deliveries, reported>>
      /\ open' = g /\ handlers' = handlers \cup Intake!Started(g, taken)
      /\ pass' = [pass EXCEPT ![g] = [next |-> next, last |-> Len(log), workers |-> trial.width]]
      /\ taken # {}
  BY DEF Intake!EachBatch, Intake!tables, Intake!Cardinality, Cardinality
<1>3. trial.width \in Nat
  BY TrialAssumption
<1>4. Len(log) \in Nat /\ offset \in Nat /\ first \in Nat \ {0} /\ first <= Len(log)
  <2>1. Len(log) \in Nat /\ offset \in Nat
    BY <1>1, LogIs
  <2> QED BY <1>2, <2>1
<1>5. /\ taken \subseteq 1..Len(log) /\ next \in Nat \ {0} /\ next <= Len(log) + 1
      /\ \A i \in first..(next - 1) : i \in taken
  BY <1>3, <1>4, TakenAre
<1> HIDE DEF next, taken
<1>6. pass' \in [{0, 1} -> PassRecord] /\ pass'[g].next = next /\ pass'[g].last = Len(log)
      /\ \A f \in {0, 1} \ {g} : pass'[f] = pass[f]
  <2> DEFINE p == [next |-> next, last |-> Len(log), workers |-> trial.width]
  <2>1. p \in PassRecord /\ p.next = next /\ p.last = Len(log)
    BY <1>3, <1>4, <1>5 DEF PassRecord
  <2>2. pass' = [pass EXCEPT ![g] = p] /\ pass \in [{0, 1} -> PassRecord]
    BY <1>1, <1>2 DEF ConsumerTypes
  <2> HIDE DEF p
  <2> QED BY <2>1, <2>2
<1>7. ConsumerTypes'
  <2>1. handlers' \subseteq HandlerRecord /\ \A h \in handlers' : h.at \in 1..Len(log) /\ log[h.at] \in Wanted
    BY <1>1, <1>2, <1>5, StartedAre DEF ConsumerTypes
  <2>2. \A f \in {0, 1} : pass'[f].last <= Len(log) /\ pass'[f].next <= Len(log) + 1
    BY <1>1, <1>4, <1>5, <1>6 DEF ConsumerTypes
  <2> QED BY <1>1, <1>2, <1>6, <2>1, <2>2 DEF ConsumerTypes
<1>8. TablesMove
  BY <1>1, <1>2, TablesStay
<1>9. PassInv'
  <2>1. ASSUME NEW i \in (offset + 1) .. (next - 1) PROVE TakenCareOf(g, i)'
    <3>1. i \in taken
      BY <1>5
    <3> QED BY <1>2, <1>5, <3>1, StartedAre DEF TakenCareOf
  <2>2. offset <= Len(log)
    BY <1>1, LogIs
  <2> QED BY <1>2, <1>6, <2>1, <2>2 DEF PassInv
<1>10. CommittedIsHandledOrSkipped'
  BY <1>1, <1>2 DEF CommittedInv, CommittedIsHandledOrSkipped, Answered
<1>11. (ConsumerInv <=> ConsumerTypes /\ TablesInv /\ CommittedInv)'
  BY Consumers, PTL
<1> QED BY <1>7, <1>8, <1>9, <1>10, <1>11 DEF TablesMove, ConsumerMoves, CommittedInv

LEMMA TakeMessageKeeps ==
  ASSUME log \in Seq(Events), ConsumerInv, NEW g \in {0, 1}, Intake!TakeMessage(g)
  PROVE  ConsumerMoves
<1>0. PICK at : at = pass[g].next
  OBVIOUS
<1>1. ConsumerTypes /\ TablesInv /\ CommittedInv
  BY Consumers
<1>2. /\ UNCHANGED <<log, offset, open, receipts, deliveries, reported>>
      /\ pass' = [pass EXCEPT ![g].next = @ + 1] /\ at <= pass[g].last
      /\ handlers' = IF stopping THEN handlers ELSE handlers \cup Intake!Started(g, {at})
      /\ skipped' = IF stopping THEN skipped \cup {at} ELSE skipped
  BY <1>0 DEF Intake!TakeMessage, Intake!tables
<1>3. /\ Len(log) \in Nat /\ offset \in Nat /\ at \in Nat \ {0} /\ at <= Len(log) /\ pass[g] \in PassRecord
      /\ at \in 1..Len(log) /\ {at} \in SUBSET (1..Len(log))
  BY <1>0, <1>1, <1>2, LogIs
<1>4. pass' \in [{0, 1} -> PassRecord] /\ pass'[g].next = at + 1 /\ pass'[g].last = pass[g].last
      /\ \A f \in {0, 1} \ {g} : pass'[f] = pass[f]
  <2> DEFINE p == [pass[g] EXCEPT !.next = @ + 1]
  <2>1. p \in PassRecord /\ p.next = at + 1 /\ p.last = pass[g].last
    BY <1>0, <1>3 DEF PassRecord
  <2>2. pass' = [pass EXCEPT ![g] = p] /\ pass \in [{0, 1} -> PassRecord]
    BY <1>1, <1>2 DEF ConsumerTypes
  <2> HIDE DEF p
  <2> QED BY <2>1, <2>2
<1>5. handlers \subseteq handlers' /\ skipped \subseteq skipped' /\ handlers' \subseteq handlers \cup Intake!Started(g, {at})
      /\ skipped' \subseteq skipped \cup {at}
  BY <1>2
<1>6. ConsumerTypes'
  <2>1. handlers' \subseteq HandlerRecord /\ \A h \in handlers' : h.at \in 1..Len(log) /\ log[h.at] \in Wanted
    BY <1>1, <1>3, <1>5, StartedAre DEF ConsumerTypes
  <2>2. \A f \in {0, 1} : pass'[f].last <= Len(log) /\ pass'[f].next <= Len(log) + 1
    BY <1>1, <1>3, <1>4 DEF ConsumerTypes
  <2>3. skipped' \subseteq 1..Len(log)
    BY <1>1, <1>3, <1>5 DEF ConsumerTypes
  <2> QED BY <1>1, <1>2, <1>4, <2>1, <2>2, <2>3 DEF ConsumerTypes
<1>7. TablesMove
  BY <1>1, <1>2, TablesStay
<1>8. ASSUME open # Intake!None
      PROVE  /\ offset <= pass'[open].last
             /\ \A i \in (offset + 1) .. (pass'[open].next - 1) : TakenCareOf(open, i)'
  <2>1. open \in {0, 1} /\ offset <= pass[open].last /\ pass'[open].last = pass[open].last
    BY <1>1, <1>4, <1>8 DEF ConsumerTypes, CommittedInv, PassInv
  <2>2. ASSUME NEW i \in (offset + 1) .. (pass[open].next - 1) PROVE TakenCareOf(open, i)'
    <3>1. TakenCareOf(open, i)
      BY <1>1, <1>8 DEF CommittedInv, PassInv
    <3> QED BY <1>2, <1>5, <3>1 DEF TakenCareOf, Answered
  <2>3. CASE open # g
    BY <1>4, <2>1, <2>2, <2>3
  <2>4. CASE open = g
    <3>1. TakenCareOf(open, at)'
      <4>1. CASE stopping
        BY <1>2, <4>1 DEF TakenCareOf
      <4>2. CASE ~stopping
        <5>1. \A i \in {at} : log[i] \in Wanted => \E k \in Intake!Started(g, {at}) : k.pass = g /\ k.at = i
          BY <1>3, StartedAre
        <5> QED BY <1>2, <2>4, <4>2, <5>1 DEF TakenCareOf
      <4> QED BY <4>1, <4>2
    <3>2. \A i \in (offset + 1) .. (pass'[open].next - 1) : i \in (offset + 1) .. (pass[open].next - 1) \/ i = at
      <4>1. pass'[open].next = at + 1 /\ pass[open].next = at
        BY <1>0, <1>4, <2>4
      <4> QED BY <1>3, <4>1
    <3> QED BY <2>1, <2>2, <3>1, <3>2
  <2> QED BY <2>3, <2>4
<1>9. PassInv'
  BY <1>2, <1>8 DEF PassInv
<1>10. CommittedIsHandledOrSkipped'
  BY <1>1, <1>2, <1>5 DEF CommittedInv, CommittedIsHandledOrSkipped, Answered
<1>11. (ConsumerInv <=> ConsumerTypes /\ TablesInv /\ CommittedInv)'
  BY Consumers, PTL
<1> QED BY <1>6, <1>7, <1>9, <1>10, <1>11 DEF TablesMove, ConsumerMoves, CommittedInv

LEMMA CommitOffsetsKeeps ==
  ASSUME log \in Seq(Events), ConsumerInv, NEW g \in {0, 1}, Intake!CommitOffsets(g)
  PROVE  ConsumerMoves
<1>1. ConsumerTypes /\ TablesInv /\ CommittedInv
  BY Consumers
<1>2. /\ UNCHANGED <<log, pass, handlers, skipped, receipts, deliveries, reported>>
      /\ open = g /\ Intake!Of(g) = {} /\ pass[g].next > pass[g].last
      /\ offset' = pass[g].last /\ open' = Intake!None
  BY DEF Intake!CommitOffsets, Intake!tables
<1>3. /\ Len(log) \in Nat /\ offset \in Nat /\ pass[g].last \in Nat /\ pass[g].last <= Len(log)
      /\ pass[g].next \in Nat
  BY <1>1, LogIs
<1>4. ConsumerTypes'
  BY <1>1, <1>2, <1>3 DEF ConsumerTypes
<1>5. TablesMove
  BY <1>1, <1>2, TablesStay
<1>6. CommittedIsHandledOrSkipped'
  <2>1. ASSUME NEW i \in 1..pass[g].last, log[i] \in Wanted PROVE Answered(log[i]) \/ i \in skipped
    <3>1. CASE i <= offset
      BY <1>1, <1>3, <2>1, <3>1 DEF CommittedInv, CommittedIsHandledOrSkipped
    <3>2. CASE i > offset
      <4>1. g # Intake!None
        BY DEF Intake!None
      <4>2. i \in (offset + 1) .. (pass[g].next - 1)
        BY <1>2, <1>3, <2>1, <3>2
      <4>3. TakenCareOf(g, i)
        BY <1>1, <1>2, <4>1, <4>2 DEF CommittedInv, PassInv
      <4> QED BY <1>2, <2>1, <4>3 DEF TakenCareOf, Intake!Of
    <3> QED BY <1>3, <3>1, <3>2
  <2> QED BY <1>2, <2>1 DEF CommittedIsHandledOrSkipped, Answered
<1>7. PassInv'
  BY <1>2 DEF PassInv
<1>8. (ConsumerInv <=> ConsumerTypes /\ TablesInv /\ CommittedInv)'
  BY Consumers, PTL
<1> QED BY <1>4, <1>5, <1>6, <1>7, <1>8 DEF TablesMove, ConsumerMoves, CommittedInv

\* The pass ends without a commit, or the process does: the batch is read again.
LEMMA PassAbandoned ==
  ASSUME log \in Seq(Events), ConsumerInv, UNCHANGED <<log, offset, skipped, receipts, deliveries, reported>>,
         open' = Intake!None,
         \/ pass' = pass /\ handlers' = handlers
         \/ pass' = [g \in {0, 1} |-> Intake!NoPass] /\ handlers' = {}
  PROVE  ConsumerMoves
<1>1. ConsumerTypes /\ TablesInv /\ CommittedInv
  BY Consumers
<1>2. Len(log) \in Nat
  BY <1>1, LogIs
<1>3. Intake!NoPass \in PassRecord /\ Intake!NoPass.last <= Len(log) /\ Intake!NoPass.next <= Len(log) + 1
  BY <1>2 DEF Intake!NoPass, PassRecord
<1>4. ConsumerTypes'
  BY <1>1, <1>3 DEF ConsumerTypes
<1>5. TablesMove
  BY <1>1, TablesStay
<1>6. PassMoves
  BY DEF PassMoves
<1> QED BY <1>4, <1>5, <1>6, HandlerKeeps

LEMMA CommitFailsKeeps ==
  ASSUME log \in Seq(Events), ConsumerInv, NEW g \in {0, 1}, Intake!CommitFails(g)
  PROVE  ConsumerMoves
BY PassAbandoned DEF Intake!CommitFails, Intake!tables

LEMMA ForgetKeeps ==
  ASSUME log \in Seq(Events), ConsumerInv, Intake!Forget
  PROVE  ConsumerMoves
BY PassAbandoned DEF Intake!Forget, Intake!tables

LEMMA StopKeeps ==
  ASSUME log \in Seq(Events), ConsumerInv, Intake!Stop
  PROVE  ConsumerMoves
<1>1. ConsumerTypes /\ TablesInv
  BY Consumers
<1>2. UNCHANGED <<log, offset, open, pass, handlers, skipped, receipts, deliveries, reported>>
  BY DEF Intake!Stop, Intake!tables
<1>3. ConsumerTypes'
  BY <1>1, <1>2 DEF ConsumerTypes
<1>4. TablesMove
  BY <1>1, <1>2, TablesStay
<1>5. PassMoves
  BY <1>1, <1>2 DEF PassMoves, ConsumerTypes
<1> QED BY <1>2, <1>3, <1>4, <1>5, HandlerKeeps

LEMMA RetryNotificationKeeps ==
  ASSUME log \in Seq(Events), ConsumerInv, NEW e \in Events, Intake!RetryNotification(e)
  PROVE  ConsumerMoves
<1> DEFINE receipt == [receipts[e] EXCEPT !.status = "retrying"]
<1>1. ConsumerTypes /\ TablesInv
  BY Consumers
<1>2. /\ UNCHANGED <<log, offset, open, pass, handlers, skipped, deliveries, reported>>
      /\ receipts' = [receipts EXCEPT ![e] = receipt] /\ receipts[e].status = "terminal"
  BY DEF Intake!RetryNotification, Intake!consumer
<1>3. receipt \in ReceiptRecord /\ receipt.status = "retrying"
  BY <1>1 DEF ReceiptRecord, TablesInv, TableTypes
<1> HIDE DEF receipt
<1>4. e \in reported /\ reported' \subseteq Events /\ reported \subseteq reported'
  BY <1>1, <1>2 DEF TablesInv, TableTypes, GivenUpIsReported
<1>5. TablesMove
  BY <1>1, <1>2, <1>3, <1>4, ReceiptBecomes
<1>6. ConsumerTypes'
  BY <1>1, <1>2 DEF ConsumerTypes
<1>7. PassMoves
  BY <1>1, <1>2 DEF PassMoves, ConsumerTypes
<1> QED BY <1>2, <1>5, <1>6, <1>7, HandlerKeeps

\* The scheduled recovery writes to the same tables.
LEMMA EnqueueRecoveryKeeps ==
  ASSUME log \in Seq(Events), ConsumerInv, EnqueueRecovery
  PROVE  ConsumerMoves
<1>1. ConsumerTypes /\ TablesInv /\ Recovery \in Events
  BY Consumers, DeliveryAssumption
<1>2. UNCHANGED <<log, offset, open, pass, handlers, skipped>>
  BY DEF EnqueueRecovery, relayVars, consumerVars
<1>3. TablesMove
  <2>1. CASE Intake!Handled(Recovery)
    BY <1>1, <1>2, <2>1, TablesStay DEF EnqueueRecovery, tableVars
  <2>2. CASE ~Intake!Handled(Recovery)
    BY <1>1, <1>2, <2>2, EnqueueMoves DEF EnqueueRecovery
  <2> QED BY <2>1, <2>2
<1>4. ConsumerTypes'
  BY <1>1, <1>2 DEF ConsumerTypes
<1>5. PassMoves
  BY <1>1, <1>2 DEF PassMoves, ConsumerTypes
<1> QED BY <1>2, <1>3, <1>4, <1>5, HandlerKeeps

LEMMA IntakeNextKeeps ==
  ASSUME log \in Seq(Events), trial \in Trials, ConsumerInv, Intake!IntakeNext
  PROVE  ConsumerMoves
<1>1. ASSUME NEW g \in {0, 1}, \/ Intake!EachBatch(g) \/ Intake!TakeMessage(g)
                               \/ Intake!CommitOffsets(g) \/ Intake!CommitFails(g)
      PROVE  ConsumerMoves
  BY <1>1, EachBatchKeeps, TakeMessageKeeps, CommitOffsetsKeeps, CommitFailsKeeps, Zenon
<1>2. ASSUME NEW h \in handlers, Intake!Handle(h) \/ Intake!EnqueueFails(h) \/ Intake!RecordingFails(h)
      PROVE  ConsumerMoves
  BY <1>2, EnqueueEventKeeps, RecordRetryKeeps, TerminalReceiptKeeps, EnqueueFailsKeeps, RecordingFailsKeeps,
     Zenon DEF Intake!Handle
<1>3. ASSUME Intake!Restart \/ Intake!Stop \/ Intake!Crash PROVE ConsumerMoves
  BY <1>3, ForgetKeeps, StopKeeps DEF Intake!Restart, Intake!Crash
<1>4. ASSUME NEW e \in Events, Intake!RetryNotification(e) PROVE ConsumerMoves
  BY <1>4, RetryNotificationKeeps
<1> QED BY <1>1, <1>2, <1>3, <1>4, Zenon DEF Intake!IntakeNext, Intake!IntakeStep, Intake!IntakeFault

LEMMA ConsumerBegins ==
  ASSUME log \in Seq(Events), Intake!IntakeInit
  PROVE  ConsumerInv
<1>1. /\ offset = 0 /\ open = Intake!None /\ pass = [g \in {0, 1} |-> Intake!NoPass] /\ handlers = {}
      /\ skipped = {} /\ receipts = [e \in Events |-> Intake!NoReceipt]
      /\ deliveries = [e \in Events |-> Intake!NoDelivery] /\ reported = {}
  BY DEF Intake!IntakeInit
<1>2. Len(log) \in Nat
  OBVIOUS
<1>3. Intake!NoPass \in PassRecord /\ Intake!NoPass.last <= Len(log) /\ Intake!NoPass.next <= Len(log) + 1
  BY <1>2 DEF Intake!NoPass, PassRecord
<1>4. ConsumerTypes
  BY <1>1, <1>2, <1>3 DEF ConsumerTypes
<1>5. Intake!NoReceipt \in ReceiptRecord /\ Intake!NoReceipt.status = "none"
  BY DeliveryAssumption DEF Intake!NoReceipt, ReceiptRecord
<1>6. Intake!NoDelivery \in DeliveryRecord /\ ~Intake!NoDelivery.terminal
  BY DeliveryAssumption DEF Intake!NoDelivery, DeliveryRecord
<1>7. TableTypes /\ ReceiptsInv /\ GivenUpIsReported
  BY <1>1, <1>5, <1>6 DEF TableTypes, ReceiptsInv, GivenUpIsReported
<1>8. PassInv /\ CommittedIsHandledOrSkipped
  BY <1>1 DEF PassInv, CommittedIsHandledOrSkipped
<1> QED BY <1>4, <1>7, <1>8 DEF ConsumerInv

\* A receipt is never left at `retrying' without a sign of its event.
LEMMA RetryingIsNeverLost ==
  ASSUME log \in Seq(Events), ConsumerInv
  PROVE  RetryingIsNotLost
<1>1. ConsumerTypes /\ TablesInv /\ CommittedInv
  BY Consumers
<1> SUFFICES ASSUME NEW e \in Events, receipts[e].status = "retrying"
             PROVE  \/ \E i \in DOMAIN log : log[i] = e /\ i > offset
                    \/ deliveries[e].status # "none"
                    \/ e \in reported
                    \/ \E i \in skipped : log[i] = e
  BY DEF RetryingIsNotLost
<1>2. CASE deliveries[e].status # "none" \/ e \in reported
  BY <1>2
<1>3. CASE e \in Wanted /\ e \in Range(log)
  <2>1. PICK i \in DOMAIN log : log[i] = e
    BY <1>3 DEF Range
  <2>2. Len(log) \in Nat /\ DOMAIN log = 1..Len(log) /\ offset \in Nat
    BY <1>1, LogIs
  <2>3. CASE i > offset
    BY <2>1, <2>3
  <2>4. CASE i <= offset
    <3>1. i \in 1..offset
      BY <2>2, <2>4
    <3>2. Answered(e) \/ i \in skipped
      BY <1>1, <1>3, <2>1, <3>1 DEF CommittedInv, CommittedIsHandledOrSkipped
    <3> QED BY <2>1, <3>2 DEF Answered
  <2> QED BY <2>2, <2>3, <2>4
<1> QED BY <1>1, <1>2, <1>3 DEF TablesInv, ReceiptsInv

-----------------------------------------------------------------------------
(* Counting mails. *)

MailCounted(e) ==
  mails[e] + (Cardinality(Sending(e)) + (IF Sendable(e) THEN 1 ELSE 0)) <= 1 + faults

LEMMA SendingIsFinite ==
  ASSUME NEW e
  PROVE  IsFiniteSet(Sending(e)) /\ Cardinality(Sending(e)) \in Nat
<1>1. Sending(e) \subseteq Mailers
  BY DEF Sending
<1>2. IsFiniteSet(Sending(e))
  BY <1>1, DeliveryAssumption, FS_Subset
<1> QED BY <1>2, FS_CardinalityType

LEMMA MailsCounted ==
  MailTypes /\ faults \in Nat => (MailsInv <=> \A e \in Events : MailCounted(e))
<1> SUFFICES ASSUME MailTypes, faults \in Nat, NEW e \in Events
             PROVE  mails[e] + Cardinality(Sending(e)) + (IF Sendable(e) THEN 1 ELSE 0) <= 1 + faults <=> MailCounted(e)
  BY DEF MailsInv
<1>1. mails[e] \in Nat /\ Cardinality(Sending(e)) \in Nat
  BY SendingIsFinite DEF MailTypes
<1> QED BY <1>1 DEF MailCounted

LEMMA MailerIs ==
  ASSUME MailTypes, NEW m \in Mailers
  PROVE  /\ mailer[m] \in MailerRecord
         /\ mailer[m].step # "idle" => mailer[m].event \in Events /\ mailer[m].attempt \in 0..MaxAttempts
BY DEF MailTypes, MailerRecord, Mail!Resting

\* A mailer that goes on, in the count of those that may send.
MailerBecomes(m, worker) == mailer' = [mailer EXCEPT ![m] = worker]

LEMMA SendingBecomes ==
  ASSUME MailTypes, NEW m \in Mailers, NEW worker, MailerBecomes(m, worker), NEW e,
         NEW w \in {0, 1}, w = 1 <=> worker.step \in {"send", "failed"} /\ worker.event = e,
         NEW v \in {0, 1}, v = 1 <=> m \in Sending(e)
  PROVE  Cardinality(Sending(e)') = Cardinality(Sending(e)) + (w - v)
<1>1. IsFiniteSet(Sending(e)) /\ Cardinality(Sending(e)) \in Nat
  BY SendingIsFinite
<1>2. mailer'[m] = worker /\ \A q \in Mailers \ {m} : mailer'[q] = mailer[q]
  BY DEF MailTypes, MailerBecomes
<1>3. CASE w = 1
  <2>1. Sending(e)' = Sending(e) \cup {m}
    BY <1>2, <1>3 DEF Sending
  <2>2. Cardinality(Sending(e) \cup {m}) = Cardinality(Sending(e)) + (IF m \in Sending(e) THEN 0 ELSE 1)
    BY <1>1, OneMoreOrLess
  <2> QED BY <1>1, <1>3, <2>1, <2>2
<1>4. CASE w = 0
  <2>1. Sending(e)' = Sending(e) \ {m}
    BY <1>2, <1>4 DEF Sending
  <2>2. Cardinality(Sending(e) \ {m}) = Cardinality(Sending(e)) - (IF m \in Sending(e) THEN 1 ELSE 0)
    BY <1>1, OneMoreOrLess
  <2> QED BY <1>1, <1>4, <2>1, <2>2
<1> QED BY <1>3, <1>4

\* A step that adds so many mails of an event, so many mailers that may still send
\* one, and so many faults; and an event whose mails stay counted.
MailsMove(e, a, c, f) ==
  /\ a \in Nat /\ c \in Int /\ f \in Nat
  /\ mails'[e] = mails[e] + a /\ Cardinality(Sending(e)') = Cardinality(Sending(e)) + c /\ faults' = faults + f
  /\ Sendable(e)' => a + c + (IF Sendable(e) THEN 0 ELSE 1) <= f
  /\ ~Sendable(e)' => a + c - (IF Sendable(e) THEN 1 ELSE 0) <= f

LEMMA MailCountedStays ==
  ASSUME NEW e \in Events, mails[e] \in Nat, faults \in Nat, MailCounted(e),
         NEW a, NEW c, NEW f, MailsMove(e, a, c, f)
  PROVE  MailCounted(e)'
<1>0. /\ a \in Nat /\ c \in Int /\ f \in Nat
      /\ mails'[e] = mails[e] + a /\ Cardinality(Sending(e)') = Cardinality(Sending(e)) + c /\ faults' = faults + f
      /\ Sendable(e)' => a + c + (IF Sendable(e) THEN 0 ELSE 1) <= f
      /\ ~Sendable(e)' => a + c - (IF Sendable(e) THEN 1 ELSE 0) <= f
  BY DEF MailsMove
<1> DEFINE o == IF Sendable(e) THEN 1 ELSE 0  n == IF Sendable(e)' THEN 1 ELSE 0
<1>1. Cardinality(Sending(e)) \in Nat
  BY SendingIsFinite
<1>2. mails[e] + (Cardinality(Sending(e)) + o) <= 1 + faults
  BY DEF MailCounted
<1>3. o \in {0, 1} /\ n \in {0, 1} /\ a + c + n - o <= f
  <2>1. CASE Sendable(e)' /\ Sendable(e)
    BY <1>0, <2>1
  <2>2. CASE Sendable(e)' /\ ~Sendable(e)
    BY <1>0, <2>2
  <2>3. CASE ~Sendable(e)' /\ Sendable(e)
    BY <1>0, <2>3
  <2>4. CASE ~Sendable(e)' /\ ~Sendable(e)
    BY <1>0, <2>4
  <2> QED BY <2>1, <2>2, <2>3, <2>4
<1> HIDE DEF o, n
<1>4. mails'[e] + (Cardinality(Sending(e)') + n) <= 1 + faults'
  <2>1. PICK x \in Nat, p \in Nat, u \in Nat :
               x = mails[e] /\ p = Cardinality(Sending(e)) /\ u = faults
    BY <1>1
  <2>2. PICK y \in Int, m \in Int : y = o /\ m = n
    BY <1>3
  <2>3. PICK b \in Nat, d \in Int, g \in Nat : b = a /\ d = c /\ g = f
    BY <1>0
  <2>4. x + (p + y) <= 1 + u /\ b + d + m - y <= g
    BY <1>2, <1>3, <2>1, <2>2, <2>3
  <2>5. (x + b) + ((p + d) + m) <= 1 + (u + g)
    BY <2>4
  <2> QED BY <1>0, <2>1, <2>2, <2>3, <2>5
<1> QED BY <1>4 DEF MailCounted, n

-----------------------------------------------------------------------------
(* The steps of a mailer. *)

DeliveriesTyped == deliveries \in [Events -> DeliveryRecord]
MailMoves ==
  /\ MailInv' /\ TablesInv' /\ AnswersStay
  /\ faults' \in Nat /\ faults <= faults' /\ UNCHANGED <<trial, replays>>

\* One row is written, and no event goes without an answer.
LEMMA RowWritten ==
  ASSUME TablesInv, NEW d \in Events, DeliveriesTyped', \A e \in Events \ {d} : deliveries'[e] = deliveries[e],
         deliveries[d].status # "none", deliveries'[d].status # "none",
         deliveries'[d].terminal => deliveries[d].terminal \/ d \in reported',
         reported \subseteq reported', reported' \subseteq Events, UNCHANGED <<log, receipts>>
  PROVE  TablesInv' /\ AnswersStay
<1>1. TableTypes'
  BY DEF TablesInv, TableTypes, DeliveriesTyped
<1>2. ReceiptsInv'
  BY DEF TablesInv, ReceiptsInv
<1>3. GivenUpIsReported'
  BY DEF TablesInv, GivenUpIsReported
<1>4. AnswersStay
  BY DEF AnswersStay, Answered
<1> QED BY <1>1, <1>2, <1>3, <1>4 DEF TablesInv

\* A mailer goes on with the row d, and with no other.
WorksOn(m, d, worker) ==
  /\ MailerBecomes(m, worker)
  /\ mailer[m].step = "idle" \/ mailer[m].event = d
  /\ worker.step = "idle" \/ worker.event = d
  /\ DeliveriesTyped' /\ deliveries'[d].status # "none"
  /\ \A e \in Events \ {d} : deliveries'[e] = deliveries[e]
  /\ mails' \in [Events -> Nat] /\ \A e \in Events \ {d} : mails'[e] = mails[e]

\* The mails and the faults of the step, and whether the mailer may send after it
\* and before it.
Accounts(m, d, worker, a, f, w, v) ==
  /\ a \in Nat /\ mails'[d] = mails[d] + a
  /\ f \in Nat /\ faults' = faults + f
  /\ w \in {0, 1} /\ (w = 1 <=> worker.step \in {"send", "failed"})
  /\ v \in {0, 1} /\ (v = 1 <=> mailer[m].step \in {"send", "failed"})
  /\ Sendable(d)' => a + (w - v) + (IF Sendable(d) THEN 0 ELSE 1) <= f
  /\ ~Sendable(d)' => a + (w - v) - (IF Sendable(d) THEN 1 ELSE 0) <= f

LEMMA MailerKeeps ==
  ASSUME MailInv, faults \in Nat, NEW m \in Mailers, NEW d \in Events, NEW worker \in MailerRecord,
         WorksOn(m, d, worker), NEW a, NEW f, NEW w, NEW v, Accounts(m, d, worker, a, f, w, v)
  PROVE  MailInv'
<1>1. MailTypes' /\ MailTypes
  BY DEF MailInv, MailTypes, MailerBecomes, WorksOn
<1>2. mailer'[m] = worker /\ \A q \in Mailers \ {m} : mailer'[q] = mailer[q]
  BY <1>1 DEF MailTypes, MailerBecomes, WorksOn
<1>3. MailerWorks'
  <2>1. ASSUME NEW q \in Mailers, mailer'[q].step # "idle" PROVE deliveries'[mailer'[q].event].status # "none"
    <3>1. CASE q = m
      BY <1>2, <2>1, <3>1 DEF WorksOn
    <3>2. CASE q # m
      <4>1. mailer'[q] = mailer[q] /\ deliveries[mailer[q].event].status # "none" /\ mailer[q].event \in Events
        BY <1>1, <1>2, <2>1, <3>2, MailerIs DEF MailInv, MailerWorks
      <4> QED BY <4>1 DEF WorksOn
    <3> QED BY <3>1, <3>2
  <2> QED BY <2>1 DEF MailerWorks
<1>4. \A e \in Events : MailCounted(e) /\ mails[e] \in Nat
  BY <1>1, MailsCounted DEF MailInv, MailTypes
<1>5. MailCounted(d)'
  <2>1. v \in {0, 1} /\ (v = 1 <=> m \in Sending(d))
    BY DEF Sending, WorksOn, Accounts
  <2>2. w \in {0, 1} /\ (w = 1 <=> worker.step \in {"send", "failed"} /\ worker.event = d) /\ MailerBecomes(m, worker)
    BY DEF WorksOn, Accounts
  <2>3. Cardinality(Sending(d)') = Cardinality(Sending(d)) + (w - v)
    BY <1>1, <2>1, <2>2, SendingBecomes
  <2>4. w - v \in Int
    BY <2>1, <2>2
  <2>5. MailCounted(d) /\ mails[d] \in Nat
    BY <1>4
  <2>6. /\ a \in Nat /\ f \in Nat /\ mails'[d] = mails[d] + a /\ faults' = faults + f
        /\ Sendable(d)' => a + (w - v) + (IF Sendable(d) THEN 0 ELSE 1) <= f
        /\ ~Sendable(d)' => a + (w - v) - (IF Sendable(d) THEN 1 ELSE 0) <= f
    BY DEF Accounts
  <2>7. MailsMove(d, a, w - v, f)
    BY <2>3, <2>4, <2>6 DEF MailsMove
  <2> QED BY <2>5, <2>7, MailCountedStays
<1>6. ASSUME NEW e \in Events, e # d PROVE MailCounted(e)'
  <2>1. Sending(e)' = Sending(e)
    BY <1>2, <1>6 DEF Sending, WorksOn
  <2>2. Mail!Held(e)' <=> Mail!Held(e)
    BY <1>2, <1>6 DEF Mail!Held, Mail!At, Mail!Row, WorksOn
  <2>3. Sendable(e)' <=> Sendable(e)
    BY <1>6, <2>2 DEF Sendable, WorksOn
  <2>4. mails'[e] = mails[e] /\ MailCounted(e) /\ mails[e] \in Nat
    BY <1>4, <1>6 DEF WorksOn
  <2>5. Cardinality(Sending(e)) \in Nat
    BY SendingIsFinite
  <2>6. f \in Nat /\ faults' = faults + f
    BY DEF Accounts
  <2> QED BY <2>1, <2>3, <2>4, <2>5, <2>6 DEF MailCounted
<1>7. \A e \in Events : MailCounted(e)'
  BY <1>5, <1>6
<1>8. faults' \in Nat
  BY DEF Accounts
<1>9. (MailTypes /\ faults \in Nat => (MailsInv <=> \A e \in Events : MailCounted(e)))'
  BY MailsCounted, PTL
<1> QED BY <1>1, <1>3, <1>7, <1>8, <1>9 DEF MailInv

LEMMA RowIs ==
  ASSUME MailInv, TablesInv, NEW m \in Mailers, mailer[m].step # "idle"
  PROVE  /\ Mail!Row(m) \in Events /\ Mail!Row(m) = mailer[m].event /\ mailer[m] \in MailerRecord
         /\ mailer[m].attempt \in 0..MaxAttempts /\ mails[Mail!Row(m)] \in Nat
         /\ deliveries[Mail!Row(m)] \in DeliveryRecord /\ deliveries[Mail!Row(m)].status # "none"
<1>1. /\ mailer[m].event \in Events /\ mailer[m] \in MailerRecord /\ mailer[m].attempt \in 0..MaxAttempts
  BY MailerIs DEF MailInv
<1> QED BY <1>1 DEF MailInv, MailTypes, MailerWorks, TablesInv, TableTypes, Mail!Row

LEMMA WorkerIs ==
  ASSUME NEW s \in {"send", "mark", "failed"}, NEW d \in Events, NEW n \in 0..MaxAttempts
  PROVE  LET worker == [step |-> s, event |-> d, attempt |-> n]
         IN  worker \in MailerRecord /\ worker.step = s /\ worker.event = d
BY DEF MailerRecord

LEMMA StepBecomes ==
  ASSUME NEW worker \in MailerRecord, worker.step # "idle", NEW s \in {"send", "mark", "failed"}
  PROVE  /\ [worker EXCEPT !.step = s] \in MailerRecord
         /\ [worker EXCEPT !.step = s].step = s /\ [worker EXCEPT !.step = s].event = worker.event
<1>1. worker \in [step : {"send", "mark", "failed"}, event : Events, attempt : 0..MaxAttempts]
  BY DEF MailerRecord, Mail!Resting
<1> QED BY <1>1 DEF MailerRecord

LEMMA RestingIs ==
  Mail!Resting \in MailerRecord /\ Mail!Resting.step = "idle"
BY DEF MailerRecord, Mail!Resting

LEMMA ClaimDeliveryKeeps ==
  ASSUME MailInv, TablesInv, faults \in Nat, NEW m \in Mailers, NEW e \in Events, Mail!ClaimDelivery(m, e),
         UNCHANGED <<log, receipts>>
  PROVE  MailMoves
<1> DEFINE n == IF deliveries[e].attempts < MaxAttempts THEN deliveries[e].attempts + 1 ELSE deliveries[e].attempts
           row == [deliveries[e] EXCEPT !.status = "leased", !.due = FALSE, !.attempts = n]
           worker == [step |-> "send", event |-> e, attempt |-> deliveries'[e].attempts]
<1>1. /\ mailer[m].step = "idle" /\ deliveries' = [deliveries EXCEPT ![e] = row] /\ MailerBecomes(m, worker)
      /\ ~deliveries[e].terminal /\ ~deliveries[e].sent /\ deliveries[e].status \in {"pending", "leased"} /\ deliveries[e].due
      /\ UNCHANGED <<mails, reported, trial, faults, replays>>
  BY DEF Mail!ClaimDelivery, Mail!At, Mail!Claimable, Mail!NoFault, MailerBecomes
<1>2. deliveries[e] \in DeliveryRecord /\ deliveries \in [Events -> DeliveryRecord] /\ reported \subseteq Events
  BY DEF TablesInv, TableTypes
<1>3. n \in 0..MaxAttempts
  BY <1>2, DeliveryAssumption DEF DeliveryRecord
<1> HIDE DEF n
<1>4. row \in DeliveryRecord /\ row.status = "leased" /\ ~row.due /\ row.terminal = deliveries[e].terminal
  BY <1>2, <1>3 DEF DeliveryRecord
<1> HIDE DEF row
<1>5. /\ deliveries'[e] = row /\ DeliveriesTyped' /\ \A d \in Events \ {e} : deliveries'[d] = deliveries[d]
      /\ deliveries'[e].attempts \in 0..MaxAttempts
  <2>1. deliveries'[e] = row /\ DeliveriesTyped' /\ \A d \in Events \ {e} : deliveries'[d] = deliveries[d]
    BY <1>1, <1>2, <1>4 DEF DeliveriesTyped
  <2> QED BY <1>4, <2>1 DEF DeliveryRecord
<1>6. worker \in MailerRecord /\ worker.step = "send" /\ worker.event = e
  BY <1>5, WorkerIs
<1> HIDE DEF worker
<1>7. mails \in [Events -> Nat] /\ mails[e] \in Nat /\ mailer \in [Mailers -> MailerRecord]
  BY DEF MailInv, MailTypes
<1>8. WorksOn(m, e, worker)
  BY <1>1, <1>4, <1>5, <1>6, <1>7 DEF WorksOn
<1>9. Sendable(e)
  BY <1>1 DEF Sendable
<1>10. ~Sendable(e)'
  <2>1. mailer'[m] = worker
    BY <1>1, <1>7 DEF MailerBecomes
  <2>2. Mail!Held(e)'
    BY <1>6, <2>1 DEF Mail!Held, Mail!At, Mail!Row
  <2> QED BY <1>4, <1>5, <2>2 DEF Sendable
<1>11. Accounts(m, e, worker, 0, 0, 1, 0)
  BY <1>1, <1>6, <1>7, <1>9, <1>10 DEF Accounts
<1>12. MailInv'
  BY <1>6, <1>8, <1>11, MailerKeeps
<1>13. TablesInv' /\ AnswersStay
  BY <1>1, <1>2, <1>4, <1>5, RowWritten
<1> QED BY <1>1, <1>12, <1>13 DEF MailMoves

\* A mailer goes on and writes no row.
LEMMA MailerGoesOn ==
  ASSUME MailInv, TablesInv, faults \in Nat, NEW m \in Mailers, mailer[m].step # "idle",
         NEW d \in Events, d = mailer[m].event,
         NEW worker \in MailerRecord, MailerBecomes(m, worker), worker.step = "idle" \/ worker.event = d,
         UNCHANGED <<log, receipts, deliveries, reported, trial, replays>>,
         mails' \in [Events -> Nat], \A e \in Events \ {d} : mails'[e] = mails[e],
         NEW a, NEW f, NEW w, NEW v, Accounts(m, d, worker, a, f, w, v)
  PROVE  MailMoves
<1>1. d \in Events /\ deliveries[d].status # "none" /\ deliveries \in [Events -> DeliveryRecord]
  BY RowIs DEF TablesInv, TableTypes, MailInv, MailerWorks
<1>2. \A e \in Events \ {d} : deliveries'[e] = deliveries[e] /\ mails'[e] = mails[e]
  OBVIOUS
<1>3. DeliveriesTyped' /\ deliveries'[d].status # "none"
  BY <1>1 DEF DeliveriesTyped
<1>4. WorksOn(m, d, worker)
  BY <1>2, <1>3 DEF WorksOn
<1>5. f \in Nat /\ faults' = faults + f /\ Accounts(m, d, worker, a, f, w, v)
  BY DEF Accounts
<1>6. MailInv'
  BY <1>1, <1>4, <1>5, MailerKeeps
<1>7. TablesInv' /\ AnswersStay
  BY TablesStay DEF TablesMove
<1> QED BY <1>5, <1>6, <1>7 DEF MailMoves

\* A mailer that goes on with its row does not make it possible to send it.
LEMMA StillHeld ==
  ASSUME MailInv, TablesInv, NEW m \in Mailers, mailer[m].step # "idle", deliveries' = deliveries,
         NEW d \in Events, d = mailer[m].event, NEW s \in {"mark", "failed"},
         MailerBecomes(m, [mailer[m] EXCEPT !.step = s])
  PROVE  Sendable(d)' <=> Sendable(d)
<1>1. mailer[m] \in MailerRecord /\ mailer \in [Mailers -> MailerRecord]
  BY RowIs DEF MailInv, MailTypes
<1>2. mailer'[m].step = s /\ mailer'[m].event = d
  BY <1>1, StepBecomes DEF MailerBecomes
<1>3. Mail!Held(d) /\ Mail!Held(d)'
  BY <1>2 DEF Mail!Held, Mail!At, Mail!Row
<1> QED BY <1>3 DEF Sendable

LEMMA SendKeeps ==
  ASSUME MailInv, TablesInv, faults \in Nat, NEW m \in Mailers, Mail!Send(m), UNCHANGED <<log, receipts>>
  PROVE  MailMoves
<1>0. PICK d : d = mailer[m].event
  OBVIOUS
<1>1. /\ mailer[m].step = "send" /\ UNCHANGED <<deliveries, reported, trial, faults, replays>>
      /\ \/ MailerBecomes(m, [mailer[m] EXCEPT !.step = "failed"]) /\ mails' = mails
         \/ MailerBecomes(m, [mailer[m] EXCEPT !.step = "mark"]) /\ mails' = [mails EXCEPT ![d] = @ + 1]
  BY <1>0 DEF Mail!Send, Mail!At, Mail!Row, Mail!NoFault, Mail!Becomes, MailerBecomes
<1>2. d \in Events /\ mailer[m] \in MailerRecord /\ mails[d] \in Nat /\ mails \in [Events -> Nat]
      /\ mailer \in [Mailers -> MailerRecord]
  BY <1>0, <1>1, RowIs DEF MailInv, MailTypes, Mail!Row
<1>3. \A s \in {"mark", "failed"} :
        MailerBecomes(m, [mailer[m] EXCEPT !.step = s]) => (Sendable(d)' <=> Sendable(d))
  BY <1>0, <1>1, <1>2, StillHeld
<1>4. CASE MailerBecomes(m, [mailer[m] EXCEPT !.step = "failed"]) /\ mails' = mails
  <2> DEFINE worker == [mailer[m] EXCEPT !.step = "failed"]
  <2>1. worker \in MailerRecord /\ worker.step = "failed" /\ worker.event = d
    BY <1>0, <1>1, <1>2, StepBecomes
  <2>2. (Sendable(d)' <=> Sendable(d)) /\ MailerBecomes(m, worker)
    BY <1>3, <1>4
  <2> HIDE DEF worker
  <2>3. Accounts(m, d, worker, 0, 0, 1, 1)
    BY <1>1, <1>2, <1>4, <2>1, <2>2 DEF Accounts
  <2>4. mailer[m].step # "idle"
    BY <1>1
  <2> QED BY <1>0, <1>1, <1>2, <1>4, <2>1, <2>2, <2>3, <2>4, MailerGoesOn
<1>5. CASE MailerBecomes(m, [mailer[m] EXCEPT !.step = "mark"]) /\ mails' = [mails EXCEPT ![d] = @ + 1]
  <2> DEFINE worker == [mailer[m] EXCEPT !.step = "mark"]
  <2>1. worker \in MailerRecord /\ worker.step = "mark" /\ worker.event = d
    BY <1>0, <1>1, <1>2, StepBecomes
  <2>2. (Sendable(d)' <=> Sendable(d)) /\ MailerBecomes(m, worker)
    BY <1>3, <1>5
  <2> HIDE DEF worker
  <2>3. mails' \in [Events -> Nat] /\ mails'[d] = mails[d] + 1 /\ \A e \in Events \ {d} : mails'[e] = mails[e]
    BY <1>2, <1>5
  <2>4. Accounts(m, d, worker, 1, 0, 0, 1)
    BY <1>1, <1>2, <2>1, <2>2, <2>3 DEF Accounts
  <2>5. mailer[m].step # "idle"
    BY <1>1
  <2> QED BY <1>0, <1>1, <1>2, <2>1, <2>2, <2>3, <2>4, <2>5, MailerGoesOn
<1> QED BY <1>1, <1>4, <1>5

LEMMA SendFailsKeeps ==
  ASSUME MailInv, TablesInv, faults \in Nat, NEW m \in Mailers, Mail!SendFails(m), UNCHANGED <<log, receipts>>
  PROVE  MailMoves
<1>0. PICK d : d = mailer[m].event
  OBVIOUS
<1>1. /\ mailer[m].step = "send" /\ UNCHANGED <<deliveries, reported, trial, replays>> /\ faults' = faults + 1
      /\ MailerBecomes(m, [mailer[m] EXCEPT !.step = "failed"])
      /\ \E accepted \in {0, 1} : mails' = [mails EXCEPT ![d] = @ + accepted]
  BY <1>0 DEF Mail!SendFails, Mail!At, Mail!Row, Mail!Fault, Mail!Becomes, MailerBecomes
<1>2. d \in Events /\ mailer[m] \in MailerRecord /\ mails[d] \in Nat /\ mails \in [Events -> Nat]
  BY <1>0, <1>1, RowIs DEF MailInv, MailTypes, Mail!Row
<1>3. PICK a \in {0, 1} : mails' = [mails EXCEPT ![d] = @ + a]
  BY <1>1
<1> DEFINE worker == [mailer[m] EXCEPT !.step = "failed"]
<1>4. worker \in MailerRecord /\ worker.step = "failed" /\ worker.event = d
  BY <1>0, <1>1, <1>2, StepBecomes
<1>5. (Sendable(d)' <=> Sendable(d)) /\ MailerBecomes(m, worker)
  BY <1>0, <1>1, <1>2, StillHeld
<1> HIDE DEF worker
<1>6. mails' \in [Events -> Nat] /\ mails'[d] = mails[d] + a /\ \A e \in Events \ {d} : mails'[e] = mails[e]
  BY <1>2, <1>3
<1>7. Accounts(m, d, worker, a, 1, 1, 1)
  BY <1>1, <1>4, <1>5, <1>6 DEF Accounts
<1>8. mailer[m].step # "idle"
  BY <1>1
<1> QED BY <1>0, <1>1, <1>2, <1>4, <1>5, <1>6, <1>7, <1>8, MailerGoesOn

LEMMA MailMarkFailsKeeps ==
  ASSUME MailInv, TablesInv, faults \in Nat, NEW m \in Mailers, Mail!MarkFails(m), UNCHANGED <<log, receipts>>
  PROVE  MailMoves
<1>0. PICK d : d = mailer[m].event
  OBVIOUS
<1>1. /\ mailer[m].step = "mark" /\ UNCHANGED <<deliveries, mails, reported, trial, replays>> /\ faults' = faults + 1
      /\ MailerBecomes(m, [mailer[m] EXCEPT !.step = "failed"])
  BY DEF Mail!MarkFails, Mail!At, Mail!Fault, Mail!Becomes, MailerBecomes
<1>2. d \in Events /\ mailer[m] \in MailerRecord /\ mails[d] \in Nat /\ mails \in [Events -> Nat]
  BY <1>0, <1>1, RowIs DEF MailInv, MailTypes, Mail!Row
<1> DEFINE worker == [mailer[m] EXCEPT !.step = "failed"]
<1>4. worker \in MailerRecord /\ worker.step = "failed" /\ worker.event = d
  BY <1>0, <1>1, <1>2, StepBecomes
<1>5. (Sendable(d)' <=> Sendable(d)) /\ MailerBecomes(m, worker)
  BY <1>0, <1>1, <1>2, StillHeld
<1> HIDE DEF worker
<1>7. Accounts(m, d, worker, 0, 1, 1, 0)
  BY <1>1, <1>2, <1>4, <1>5 DEF Accounts
<1>8. mailer[m].step # "idle"
  BY <1>1
<1> QED BY <1>0, <1>1, <1>2, <1>4, <1>5, <1>7, <1>8, MailerGoesOn

LEMMA MailerCrashKeeps ==
  ASSUME MailInv, TablesInv, faults \in Nat, NEW m \in Mailers, Mail!MailerCrash(m), UNCHANGED <<log, receipts>>
  PROVE  MailMoves
<1>0. PICK d : d = mailer[m].event
  OBVIOUS
<1>1. /\ mailer[m].step # "idle" /\ UNCHANGED <<deliveries, mails, reported, trial, replays>> /\ faults' = faults + 1
      /\ MailerBecomes(m, Mail!Resting)
  BY DEF Mail!MailerCrash, Mail!At, Mail!Fault, Mail!Rest, MailerBecomes
<1>2. d \in Events /\ mails[d] \in Nat /\ mails \in [Events -> Nat]
  BY <1>0, <1>1, RowIs DEF MailInv, MailTypes, Mail!Row
<1>3. PICK v \in {0, 1} : v = 1 <=> mailer[m].step \in {"send", "failed"}
  <2>1. CASE mailer[m].step \in {"send", "failed"}
    BY <2>1
  <2>2. CASE mailer[m].step \notin {"send", "failed"}
    BY <2>2
  <2> QED BY <2>1, <2>2
<1>4. Accounts(m, d, Mail!Resting, 0, 1, 0, v)
  BY <1>1, <1>2, <1>3, RestingIs DEF Accounts
<1> QED BY <1>0, <1>1, <1>2, <1>4, RestingIs, MailerGoesOn

\* A mailer writes its row and rests.
LEMMA MailerWrites ==
  ASSUME MailInv, TablesInv, faults \in Nat, NEW m \in Mailers, mailer[m].step \in {"mark", "failed"},
         NEW d \in Events, d = mailer[m].event, NEW row \in DeliveryRecord, row.status # "none",
         deliveries' = [deliveries EXCEPT ![d] = row], MailerBecomes(m, Mail!Resting),
         mailer[m].step = "mark" => row.sent, row.terminal => deliveries[d].terminal \/ d \in reported',
         reported \subseteq reported', reported' \subseteq Events,
         UNCHANGED <<log, receipts, mails, trial, faults, replays>>
  PROVE  MailMoves
<1>1. /\ deliveries \in [Events -> DeliveryRecord] /\ deliveries[d].status # "none"
      /\ mails \in [Events -> Nat] /\ mails[d] \in Nat
  BY RowIs DEF MailInv, MailTypes, TablesInv, TableTypes, Mail!Row
<1>2. deliveries'[d] = row /\ DeliveriesTyped' /\ \A e \in Events \ {d} : deliveries'[e] = deliveries[e]
  BY <1>1 DEF DeliveriesTyped
<1>3. WorksOn(m, d, Mail!Resting)
  BY <1>1, <1>2, RestingIs DEF WorksOn
<1>4. PICK v \in {0, 1} : v = 1 <=> mailer[m].step \in {"send", "failed"}
  <2>1. CASE mailer[m].step \in {"send", "failed"}
    BY <2>1
  <2>2. CASE mailer[m].step \notin {"send", "failed"}
    BY <2>2
  <2> QED BY <2>1, <2>2
<1>5. Sendable(d)' => v = 1
  BY <1>2, <1>4 DEF Sendable
<1>6. Accounts(m, d, Mail!Resting, 0, 0, 0, v)
  BY <1>1, <1>4, <1>5, RestingIs DEF Accounts
<1>7. MailInv'
  BY <1>3, <1>6, RestingIs, MailerKeeps
<1>8. TablesInv' /\ AnswersStay
  BY <1>1, <1>2, RowWritten
<1> QED BY <1>7, <1>8 DEF MailMoves

LEMMA MarkSentKeeps ==
  ASSUME MailInv, TablesInv, faults \in Nat, NEW m \in Mailers, Mail!MarkSent(m), UNCHANGED <<log, receipts>>
  PROVE  MailMoves
<1>0. PICK d : d = mailer[m].event
  OBVIOUS
<1> DEFINE row == [deliveries[d] EXCEPT !.status = "sent", !.sent = TRUE]
<1>1. /\ mailer[m].step = "mark" /\ UNCHANGED <<mails, reported, trial, faults, replays>>
      /\ MailerBecomes(m, Mail!Resting) /\ deliveries' = [deliveries EXCEPT ![d] = row]
  BY <1>0 DEF Mail!MarkSent, Mail!At, Mail!Row, Mail!NoFault, Mail!Rest, MailerBecomes
<1>2. d \in Events /\ deliveries[d] \in DeliveryRecord
  BY <1>0, <1>1, RowIs DEF Mail!Row
<1>3. row \in DeliveryRecord /\ row.status # "none" /\ row.sent /\ row.terminal = deliveries[d].terminal
  BY <1>2 DEF DeliveryRecord
<1>4. reported \subseteq Events
  BY DEF TablesInv, TableTypes
<1> HIDE DEF row
<1> QED BY <1>0, <1>1, <1>2, <1>3, <1>4, MailerWrites

LEMMA MarkDeliveryFailureKeeps ==
  ASSUME MailInv, TablesInv, faults \in Nat, NEW m \in Mailers, Mail!MarkDeliveryFailure(m), UNCHANGED <<log, receipts>>
  PROVE  MailMoves
<1>0. PICK d : d = mailer[m].event
  OBVIOUS
<1> DEFINE final == [deliveries[d] EXCEPT !.status = "terminal", !.terminal = TRUE]
           later == [deliveries[d] EXCEPT !.status = "pending", !.due = FALSE]
<1>1. /\ mailer[m].step = "failed" /\ UNCHANGED <<mails, trial, faults, replays>>
      /\ MailerBecomes(m, Mail!Resting)
      /\ \/ deliveries' = [deliveries EXCEPT ![d] = final] /\ reported' = reported \cup {d}
         \/ deliveries' = [deliveries EXCEPT ![d] = later] /\ reported' = reported
  BY <1>0 DEF Mail!MarkDeliveryFailure, Mail!At, Mail!Row, Mail!NoFault, Mail!Rest, MailerBecomes
<1>2. d \in Events /\ deliveries[d] \in DeliveryRecord
  BY <1>0, <1>1, RowIs DEF Mail!Row
<1>3. /\ final \in DeliveryRecord /\ final.status # "none"
      /\ later \in DeliveryRecord /\ later.status # "none" /\ later.terminal = deliveries[d].terminal
  BY <1>2 DEF DeliveryRecord
<1>4. reported \subseteq Events
  BY DEF TablesInv, TableTypes
<1> HIDE DEF final, later
<1>5. reported \subseteq reported' /\ reported' \subseteq Events
  BY <1>1, <1>2, <1>4
<1>6. CASE deliveries' = [deliveries EXCEPT ![d] = final] /\ reported' = reported \cup {d}
  BY <1>0, <1>1, <1>2, <1>3, <1>5, <1>6, MailerWrites
<1>7. CASE deliveries' = [deliveries EXCEPT ![d] = later] /\ reported' = reported
  BY <1>0, <1>1, <1>2, <1>3, <1>5, <1>7, MailerWrites
<1> QED BY <1>1, <1>6, <1>7

LEMMA DeliveryDueKeeps ==
  ASSUME MailInv, TablesInv, faults \in Nat, NEW d \in Events, Mail!DeliveryDue(d), UNCHANGED <<log, receipts>>
  PROVE  MailMoves
<1> DEFINE row == [deliveries[d] EXCEPT !.due = TRUE]
<1>1. /\ deliveries[d].status \in {"pending", "leased"} /\ ~deliveries[d].sent /\ ~deliveries[d].terminal
      /\ deliveries' = [deliveries EXCEPT ![d] = row] /\ UNCHANGED <<mailer, mails, reported, trial, replays>>
      /\ IF Mail!Held(d) THEN faults' = faults + 1 ELSE faults' = faults
  BY DEF Mail!DeliveryDue, Mail!Fault, Mail!NoFault
<1>2. /\ deliveries[d] \in DeliveryRecord /\ deliveries \in [Events -> DeliveryRecord] /\ reported \subseteq Events
      /\ mails \in [Events -> Nat]
  BY DEF TablesInv, TableTypes, MailInv, MailTypes
<1>3. row \in DeliveryRecord /\ row.status = deliveries[d].status /\ row.terminal = deliveries[d].terminal
  BY <1>2 DEF DeliveryRecord
<1> HIDE DEF row
<1>4. deliveries'[d] = row /\ DeliveriesTyped' /\ \A e \in Events \ {d} : deliveries'[e] = deliveries[e]
  BY <1>1, <1>2, <1>3 DEF DeliveriesTyped
<1>5. TablesInv' /\ AnswersStay
  BY <1>1, <1>2, <1>3, <1>4, RowWritten
<1>6. MailTypes'
  BY <1>1 DEF MailInv, MailTypes
<1>7. MailerWorks'
  <2>1. ASSUME NEW q \in Mailers, mailer[q].step # "idle" PROVE deliveries'[mailer[q].event].status # "none"
    <3>1. mailer[q].event \in Events /\ deliveries[mailer[q].event].status # "none"
      BY <2>1, MailerIs DEF MailInv, MailerWorks
    <3> QED BY <1>1, <1>3, <1>4, <3>1
  <2> QED BY <1>1, <2>1 DEF MailerWorks
<1>8. PICK f \in {0, 1} : faults' = faults + f /\ (f = 1 <=> Mail!Held(d))
  <2>1. CASE Mail!Held(d)
    BY <1>1, <2>1
  <2>2. CASE ~Mail!Held(d)
    BY <1>1, <2>2
  <2> QED BY <2>1, <2>2
<1>9. \A e \in Events : Sending(e)' = Sending(e) /\ (Mail!Held(e)' <=> Mail!Held(e))
  BY <1>1 DEF Sending, Mail!Held, Mail!At, Mail!Row
<1>10. ASSUME NEW e \in Events PROVE MailCounted(e)'
  <2>1. MailCounted(e) /\ mails[e] \in Nat /\ mails'[e] = mails[e]
    BY <1>1, <1>2, MailsCounted DEF MailInv
  <2>2. Cardinality(Sending(e)) \in Nat /\ Cardinality(Sending(e)') = Cardinality(Sending(e))
    BY <1>9, SendingIsFinite
  <2>3. f = 1 \/ (Sendable(e)' => Sendable(e))
    <3>1. CASE e = d
      BY <1>1, <1>8, <3>1 DEF Sendable
    <3>2. CASE e # d
      BY <1>4, <1>9, <3>2 DEF Sendable
    <3> QED BY <3>1, <3>2
  <2>4. CASE Sendable(e)' => Sendable(e)
    BY <1>8, <2>1, <2>2, <2>4 DEF MailCounted
  <2>5. CASE f = 1
    BY <1>8, <2>1, <2>2, <2>5 DEF MailCounted
  <2> QED BY <2>3, <2>4, <2>5
<1>11. faults' \in Nat /\ faults <= faults'
  BY <1>8
<1>12. (MailTypes /\ faults \in Nat => (MailsInv <=> \A e \in Events : MailCounted(e)))'
  BY MailsCounted, PTL
<1>13. MailInv'
  BY <1>6, <1>7, <1>10, <1>11, <1>12 DEF MailInv
<1> QED BY <1>1, <1>5, <1>11, <1>13 DEF MailMoves

LEMMA MailNextKeeps ==
  ASSUME MailInv, TablesInv, faults \in Nat, Mail!MailNext, UNCHANGED <<log, receipts>>
  PROVE  MailMoves
<1>1. ASSUME NEW m \in Mailers, Mail!MailerStep(m) \/ Mail!MailerFault(m) PROVE MailMoves
  BY <1>1, ClaimDeliveryKeeps, SendKeeps, SendFailsKeeps, MarkSentKeeps, MailMarkFailsKeeps, MarkDeliveryFailureKeeps,
     MailerCrashKeeps, Zenon DEF Mail!MailerStep, Mail!MailerFault
<1> QED BY <1>1, DeliveryDueKeeps, Zenon DEF Mail!MailNext

\* The steps of the other components.
LEMMA MailStays ==
  ASSUME MailInv, TablesInv, faults \in Nat, faults' \in Nat, faults <= faults', UNCHANGED mailerVars, DeliveriesMove
  PROVE  MailInv'
<1>1. mailer' = mailer /\ mails' = mails
  BY DEF mailerVars
<1>2. Intake!NewDelivery.status = "pending"
  BY DEF Intake!NewDelivery, Intake!NoDelivery
<1>3. MailTypes' /\ MailTypes
  BY <1>1 DEF MailInv, MailTypes
<1>4. \A q \in Mailers : mailer[q].step # "idle" => mailer[q].event \in Events /\ deliveries[mailer[q].event].status # "none"
  BY <1>3, MailerIs DEF MailInv, MailerWorks
<1>5. MailerWorks'
  BY <1>1, <1>2, <1>4 DEF MailerWorks, DeliveriesMove
<1>6. ASSUME NEW e \in Events PROVE MailCounted(e)'
  <2>1. Sending(e)' = Sending(e) /\ (Mail!Held(e)' <=> Mail!Held(e))
    BY <1>1 DEF Sending, Mail!Held, Mail!At, Mail!Row
  <2>2. Sendable(e)' => Sendable(e)
    <3>1. CASE deliveries'[e] = deliveries[e]
      BY <2>1, <3>1 DEF Sendable
    <3>2. CASE deliveries[e].status = "none"
      <4>1. deliveries[e] = Intake!NoDelivery
        BY <3>2 DEF TablesInv, ReceiptsInv
      <4>2. ~deliveries[e].sent /\ ~deliveries[e].terminal
        BY <4>1 DEF Intake!NoDelivery
      <4>3. ~Mail!Held(e)
        BY <1>4, <3>2 DEF Mail!Held, Mail!At, Mail!Row
      <4> QED BY <4>2, <4>3 DEF Sendable
    <3> QED BY <3>1, <3>2 DEF DeliveriesMove
  <2>3. MailCounted(e) /\ mails[e] \in Nat /\ mails'[e] = mails[e]
    BY <1>1, <1>3, MailsCounted DEF MailInv, MailTypes
  <2>4. Cardinality(Sending(e)) \in Nat /\ Cardinality(Sending(e)') = Cardinality(Sending(e))
    BY <2>1, SendingIsFinite
  <2> QED BY <2>2, <2>3, <2>4 DEF MailCounted
<1>7. (MailTypes /\ faults \in Nat => (MailsInv <=> \A e \in Events : MailCounted(e)))'
  BY MailsCounted, PTL
<1> QED BY <1>3, <1>5, <1>6, <1>7 DEF MailInv

LEMMA MailBegins ==
  ASSUME Mail!MailInit, faults = 0
  PROVE  MailInv
<1>1. mailer = [m \in Mailers |-> Mail!Resting] /\ mails = [e \in Events |-> 0]
  BY DEF Mail!MailInit
<1>2. MailTypes /\ MailerWorks
  BY <1>1, RestingIs DEF MailTypes, MailerWorks
<1>3. ASSUME NEW e \in Events PROVE MailCounted(e)
  <2>1. Sending(e) = {}
    BY <1>1, RestingIs DEF Sending
  <2>2. Cardinality(Sending(e)) = 0
    BY <2>1, FS_EmptySet
  <2> QED BY <1>1, <2>2 DEF MailCounted
<1> QED BY <1>2, <1>3, MailsCounted DEF MailInv

-----------------------------------------------------------------------------
(* The dashboard. *)

FlightRecord == [step : {"none", "read", "write"}, seen : SUBSET Events]
BoardMoves ==
  /\ BoardInv' /\ faults' \in Nat /\ faults <= faults' /\ UNCHANGED <<outbox, log, trial, replays>>

\* A flight that begins, reads or lands.
LEMMA FlightBecomes ==
  ASSUME BoardInv, NEW f \in Dashboard!Refreshers, NEW s \in {"none", "read", "write"}, NEW S \in SUBSET Events,
         flight' = [flight EXCEPT ![f] = [step |-> s, seen |-> S]]
  PROVE  flight' \in [Dashboard!Refreshers -> FlightRecord]
<1>1. [step |-> s, seen |-> S] \in FlightRecord
  BY DEF FlightRecord
<1>2. flight \in [Dashboard!Refreshers -> FlightRecord]
  BY DEF BoardInv, FlightRecord
<1> QED BY <1>1, <1>2

\* The consumer's record.
BoardTyped ==
  /\ board \in BoardRecord /\ board.offset <= Len(log) /\ board.last <= Len(log)
  /\ board.todo \cup board.working \subseteq 1..Len(log)

LEMMA BoardTypes ==
  BoardInv <=> /\ BoardTyped /\ flight \in [Dashboard!Refreshers -> FlightRecord]
               /\ boardReported \in [Events -> {0, 1}]
BY DEF BoardInv, BoardTyped, FlightRecord

\* A message leaves what is to do, or what is at work, and the step changes.
LEMMA BoardBecomes ==
  ASSUME BoardTyped, log' = log, NEW s \in {"starting", "idle", "work", "await", "commit"},
         NEW T, NEW W, T \cup W \subseteq board.todo \cup board.working
  PROVE  /\ board' = board => BoardTyped'
         /\ board' = [board EXCEPT !.step = s] => BoardTyped'
         /\ board' = [board EXCEPT !.working = W] /\ T = board.todo => BoardTyped'
         /\ board' = [board EXCEPT !.todo = T, !.working = W] => BoardTyped'
         /\ board' = [board EXCEPT !.step = s, !.todo = T, !.working = W] => BoardTyped'
<1>1. T \in SUBSET Nat /\ W \in SUBSET Nat
  BY DEF BoardTyped, BoardRecord
<1> QED BY <1>1 DEF BoardTyped, BoardRecord

LEMMA BoardResumed ==
  ASSUME BoardTyped, log' = log, NEW ok \in BOOLEAN, Dashboard!Resumed(ok)
  PROVE  BoardTyped'
<1>1. \/ board' = board
      \/ \E s \in {"starting", "idle", "work", "await", "commit"} : board' = [board EXCEPT !.step = s]
  BY DEF Dashboard!Resumed
<1>2. board.todo \cup board.working \subseteq board.todo \cup board.working
  OBVIOUS
<1> QED BY <1>1, <1>2, BoardBecomes

LEMMA BoardReborn ==
  ASSUME BoardInv, log' = log, Dashboard!Reborn
  PROVE  BoardTyped' /\ flight' \in [Dashboard!Refreshers -> FlightRecord]
<1>1. board' = [Dashboard!Quiet(board.offset) EXCEPT !.stops = board.stops, !.step = "starting"]
  BY DEF Dashboard!Reborn
<1>2. board.offset \in Nat /\ board.stops \in Nat /\ board.offset <= Len(log)
  BY DEF BoardInv, BoardRecord
<1>3. Dashboard!Quiet(board.offset) \in BoardRecord
  BY <1>2 DEF Dashboard!Quiet, BoardRecord
<1>4. \A q \in BoardRecord : \A n \in Nat :
        LET b == [q EXCEPT !.stops = n, !.step = "starting"]
        IN  b \in BoardRecord /\ b.offset = q.offset /\ b.last = q.last /\ b.todo = q.todo /\ b.working = q.working
  BY DEF BoardRecord
<1>5. /\ Dashboard!Quiet(board.offset).offset = board.offset /\ Dashboard!Quiet(board.offset).last = board.offset
      /\ Dashboard!Quiet(board.offset).todo = {} /\ Dashboard!Quiet(board.offset).working = {}
  BY DEF Dashboard!Quiet
<1>6. BoardTyped'
  BY <1>1, <1>2, <1>3, <1>4, <1>5 DEF BoardTyped
<1>7. flight \in [Dashboard!Refreshers -> FlightRecord]
  BY BoardTypes
<1>8. Dashboard!Landed \in FlightRecord /\ [step |-> "read", seen |-> {}] \in FlightRecord
  BY DEF Dashboard!Landed, FlightRecord
<1>9. flight' \in [Dashboard!Refreshers -> FlightRecord]
  BY <1>7, <1>8 DEF Dashboard!Reborn
<1> QED BY <1>6, <1>9

LEMMA FaultsGrow ==
  ASSUME faults \in Nat, \/ Dashboard!NoFault
                         \/ \E kind \in {"kafka", "database", "crash", "smtp", "slow"} : Dashboard!Fault(kind)
  PROVE  faults' \in Nat /\ faults <= faults' /\ UNCHANGED <<trial, replays>>
BY DEF Dashboard!NoFault, Dashboard!Fault

LEMMA FactsAre ==
  ASSUME outbox \in Seq(RowRecord)
  PROVE  Dashboard!Facts \in SUBSET Events
BY RowsAre DEF Dashboard!Facts, Rows, RowRecord

\* The refreshes.
LEMMA RefreshKeeps ==
  ASSUME BoardInv, faults \in Nat, outbox \in Seq(RowRecord),
         \/ Dashboard!BatchRefresh \/ Dashboard!TimerRefresh \/ Dashboard!LiveFallback
         \/ \E f \in Dashboard!Refreshers :
              Dashboard!CalculateSnapshot(f) \/ Dashboard!WriteSnapshot(f) \/ Dashboard!RefreshFails(f)
  PROVE  BoardMoves
<1>1. /\ BoardTyped /\ flight \in [Dashboard!Refreshers -> FlightRecord]
      /\ boardReported \in [Events -> {0, 1}]
  BY BoardTypes
<1>2. /\ UNCHANGED <<outbox, log, boardReported>>
      /\ faults' \in Nat /\ faults <= faults' /\ UNCHANGED <<trial, replays>>
  BY FaultsGrow DEF Dashboard!BatchRefresh, Dashboard!TimerRefresh, Dashboard!LiveFallback,
     Dashboard!CalculateSnapshot, Dashboard!WriteSnapshot, Dashboard!RefreshFails,
     Dashboard!Elsewhere, Dashboard!SameReceipts
<1>3. board.todo \cup board.working \subseteq board.todo \cup board.working
  OBVIOUS
<1>4. \/ flight' = flight
      \/ \E f \in Dashboard!Refreshers, s \in {"none", "read", "write"}, S \in SUBSET Events :
           flight' = [flight EXCEPT ![f] = [step |-> s, seen |-> S]]
  <2>1. Dashboard!Facts \in SUBSET Events /\ {} \in SUBSET Events
    BY FactsAre
  <2>2. {"batch", "timer", "api"} = Dashboard!Refreshers
    BY DEF Dashboard!Refreshers
  <2>3. CASE Dashboard!BatchRefresh \/ Dashboard!TimerRefresh \/ Dashboard!LiveFallback
    <3>1. flight' = flight \/ \E f \in Dashboard!Refreshers : flight' = [flight EXCEPT ![f] = [step |-> "read", seen |-> {}]]
      BY <2>2, <2>3 DEF Dashboard!BatchRefresh, Dashboard!TimerRefresh, Dashboard!LiveFallback, Dashboard!Begin
    <3> QED BY <2>1, <3>1
  <2>4. ASSUME NEW f \in Dashboard!Refreshers, Dashboard!CalculateSnapshot(f)
        PROVE  flight' = [flight EXCEPT ![f] = [step |-> "write", seen |-> Dashboard!Facts]]
    BY <2>4 DEF Dashboard!CalculateSnapshot
  <2>5. ASSUME NEW f \in Dashboard!Refreshers, Dashboard!WriteSnapshot(f) \/ Dashboard!RefreshFails(f)
        PROVE  flight' = [flight EXCEPT ![f] = [step |-> "none", seen |-> {}]]
    BY <2>5 DEF Dashboard!WriteSnapshot, Dashboard!RefreshFails, Dashboard!Landed
  <2> HIDE DEF Dashboard!Facts
  <2> QED BY <2>1, <2>3, <2>4, <2>5
<1>5. flight' \in [Dashboard!Refreshers -> FlightRecord]
  BY <1>1, <1>4, FlightBecomes
<1>6. BoardTyped'
  <2>1. CASE Dashboard!BatchRefresh
    <3>1. board' = [board EXCEPT !.step = "await"]
      BY <2>1 DEF Dashboard!BatchRefresh
    <3> QED BY <1>1, <1>2, <1>3, <3>1, BoardBecomes
  <2>2. CASE board' = board
    BY <1>1, <1>2, <1>3, <2>2, BoardBecomes
  <2>3. CASE Dashboard!Resumed(TRUE) \/ Dashboard!Resumed(FALSE)
    <3>1. TRUE \in BOOLEAN /\ FALSE \in BOOLEAN
      OBVIOUS
    <3> QED BY <1>1, <1>2, <2>3, <3>1, BoardResumed
  <2> QED BY <2>1, <2>2, <2>3 DEF Dashboard!TimerRefresh, Dashboard!LiveFallback,
          Dashboard!CalculateSnapshot, Dashboard!WriteSnapshot, Dashboard!RefreshFails
<1>7. (BoardInv <=> /\ BoardTyped /\ flight \in [Dashboard!Refreshers -> FlightRecord]
                    /\ boardReported \in [Events -> {0, 1}])'
  BY BoardTypes, PTL
<1>8. boardReported' \in [Events -> {0, 1}]
  BY <1>1, <1>2
<1> QED BY <1>2, <1>5, <1>6, <1>7, <1>8 DEF BoardMoves

\* The messages of a batch.
LEMMA MessageKeeps ==
  ASSUME BoardInv, faults \in Nat, log \in Seq(Events),
         \/ \E i \in board.todo : Dashboard!BeginMessage(i)
         \/ \E i \in board.working : Dashboard!CompleteReceipt(i) \/ Dashboard!FailReceipt(i) \/ Dashboard!ThrowReceipt(i)
  PROVE  BoardMoves
<1>1. /\ BoardTyped /\ flight \in [Dashboard!Refreshers -> FlightRecord]
      /\ boardReported \in [Events -> {0, 1}]
  BY BoardTypes
<1>2. /\ UNCHANGED <<outbox, log, flight>>
      /\ faults' \in Nat /\ faults <= faults' /\ UNCHANGED <<trial, replays>>
  BY FaultsGrow DEF Dashboard!BeginMessage, Dashboard!CompleteReceipt, Dashboard!FailReceipt, Dashboard!ThrowReceipt,
     Dashboard!Elsewhere, Dashboard!SameReceipts
<1>3. \A i \in board.todo \cup board.working : i \in 1..Len(log) /\ log[i] \in Events
  BY <1>1 DEF BoardTyped
<1>4. boardReported' \in [Events -> {0, 1}]
  <2>1. \/ boardReported' = boardReported
        \/ \E i \in board.working : boardReported' = [boardReported EXCEPT ![log[i]] = 1]
    BY DEF Dashboard!BeginMessage, Dashboard!CompleteReceipt, Dashboard!FailReceipt, Dashboard!ThrowReceipt,
       Dashboard!SameReceipts
  <2> QED BY <1>1, <1>3, <2>1
<1>5. BoardTyped'
  <2>1. ASSUME NEW i \in board.todo, Dashboard!BeginMessage(i) PROVE BoardTyped'
    <3>1. PICK W \in {board.working, board.working \cup {i}} :
            board' = [board EXCEPT !.todo = @ \ {i}, !.working = W]
      BY <2>1 DEF Dashboard!BeginMessage
    <3>2. (board.todo \ {i}) \cup W \subseteq board.todo \cup board.working
      BY <2>1
    <3>3. board' = [board EXCEPT !.todo = board.todo \ {i}, !.working = W]
      BY <3>1
    <3>4. "idle" \in {"starting", "idle", "work", "await", "commit"}
      OBVIOUS
    <3> QED BY <1>1, <1>2, <3>2, <3>3, <3>4, BoardBecomes
  <2>2. CASE \/ board' = [board EXCEPT !.step = "idle", !.todo = {}, !.working = {}]
             \/ board' = board
    <3>1. {} \cup {} \subseteq board.todo \cup board.working
      OBVIOUS
    <3> QED BY <1>1, <1>2, <2>2, <3>1, BoardBecomes
  <2>3. ASSUME NEW i \in board.working, board' = [board EXCEPT !.working = @ \ {i}] PROVE BoardTyped'
    <3>1. board.todo \cup (board.working \ {i}) \subseteq board.todo \cup board.working
      OBVIOUS
    <3>2. board' = [board EXCEPT !.working = board.working \ {i}]
      BY <2>3
    <3>3. "idle" \in {"starting", "idle", "work", "await", "commit"}
      OBVIOUS
    <3> QED BY <1>1, <1>2, <3>1, <3>2, <3>3, BoardBecomes
  <2>4. ASSUME NEW i \in board.working,
               Dashboard!CompleteReceipt(i) \/ Dashboard!FailReceipt(i) \/ Dashboard!ThrowReceipt(i)
        PROVE  \/ board' = [board EXCEPT !.step = "idle", !.todo = {}, !.working = {}]
               \/ board' = board
               \/ board' = [board EXCEPT !.working = @ \ {i}]
    BY <2>4 DEF Dashboard!CompleteReceipt, Dashboard!FailReceipt, Dashboard!ThrowReceipt, Dashboard!Abandoned
  <2> QED BY <2>1, <2>2, <2>3, <2>4
<1>6. (BoardInv <=> /\ BoardTyped /\ flight \in [Dashboard!Refreshers -> FlightRecord]
                    /\ boardReported \in [Events -> {0, 1}])'
  BY BoardTypes, PTL
<1> QED BY <1>1, <1>2, <1>4, <1>5, <1>6 DEF BoardMoves

\* The batches and the process.
LEMMA ProcessKeeps ==
  ASSUME BoardInv, faults \in Nat, log \in Seq(Events),
         \/ Dashboard!BoardBatch \/ Dashboard!BoardCommit \/ Dashboard!BoardStop
         \/ Dashboard!BoardRestart \/ Dashboard!BoardCrash
  PROVE  BoardMoves
<1>1. /\ BoardTyped /\ flight \in [Dashboard!Refreshers -> FlightRecord]
      /\ boardReported \in [Events -> {0, 1}]
  BY BoardTypes
<1>2. /\ UNCHANGED <<outbox, log, boardReported>>
      /\ faults' \in Nat /\ faults <= faults' /\ UNCHANGED <<trial, replays>>
  BY FaultsGrow DEF Dashboard!BoardBatch, Dashboard!BoardCommit, Dashboard!BoardStop, Dashboard!BoardRestart,
     Dashboard!BoardCrash, Dashboard!Elsewhere, Dashboard!SameReceipts
<1>3. board \in BoardRecord /\ board.offset <= Len(log) /\ board.last <= Len(log) /\ Len(log) \in Nat
      /\ board.offset \in Nat /\ board.last \in Nat /\ board.stops \in Nat
      /\ board.todo \cup board.working \subseteq 1..Len(log)
  BY <1>1 DEF BoardTyped, BoardRecord
<1>4. BoardTyped' /\ flight' \in [Dashboard!Refreshers -> FlightRecord]
  <2>1. CASE Dashboard!BoardBatch
    <3> DEFINE T == (board.offset + 1)..Len(log)
    <3>1. board' = [board EXCEPT !.step = "work", !.last = Len(log), !.todo = T, !.working = {}] /\ flight' = flight
      BY <2>1 DEF Dashboard!BoardBatch
    <3>2. T \in SUBSET Nat /\ T \subseteq 1..Len(log)
      BY <1>3
    <3> HIDE DEF T
    <3> DEFINE b == [board EXCEPT !.step = "work", !.last = Len(log), !.todo = T, !.working = {}]
    <3>3. b \in BoardRecord /\ b.offset = board.offset /\ b.last = Len(log) /\ b.todo = T /\ b.working = {}
      BY <1>3, <3>2 DEF BoardRecord
    <3> HIDE DEF b
    <3>4. board' \in BoardRecord /\ board'.offset = board.offset /\ board'.last = Len(log)
          /\ board'.todo = T /\ board'.working = {}
      <4>1. board' = b
        BY <3>1 DEF b
      <4> QED BY <3>3, <4>1
    <3>5. board'.offset <= Len(log') /\ board'.last <= Len(log') /\ board'.todo \cup board'.working \subseteq 1..Len(log')
      BY <1>2, <1>3, <3>2, <3>4
    <3> QED BY <1>1, <3>1, <3>4, <3>5 DEF BoardTyped
  <2>2. CASE Dashboard!BoardCommit
    <3>1. board' = [board EXCEPT !.offset = board.last, !.step = "idle"] /\ flight' = flight
      BY <2>2 DEF Dashboard!BoardCommit
    <3> QED BY <1>1, <1>2, <1>3, <3>1 DEF BoardTyped, BoardRecord
  <2>3. CASE Dashboard!BoardStop
    <3>1. board' = [board EXCEPT !.stopping = TRUE, !.stops = board.stops + 1] /\ flight' = flight
      BY <2>3 DEF Dashboard!BoardStop
    <3>2. board.stops + 1 \in Nat
      BY <1>3
    <3> QED BY <1>1, <1>2, <1>3, <3>1, <3>2 DEF BoardTyped, BoardRecord
  <2>4. CASE Dashboard!BoardRestart \/ Dashboard!BoardCrash
    BY <1>2, <2>4, BoardReborn DEF Dashboard!BoardRestart, Dashboard!BoardCrash
  <2> QED BY <2>1, <2>2, <2>3, <2>4
<1>5. (BoardInv <=> /\ BoardTyped /\ flight \in [Dashboard!Refreshers -> FlightRecord]
                    /\ boardReported \in [Events -> {0, 1}])'
  BY BoardTypes, PTL
<1> QED BY <1>1, <1>2, <1>4, <1>5 DEF BoardMoves

LEMMA BoardNextKeeps ==
  ASSUME BoardInv, faults \in Nat, log \in Seq(Events), outbox \in Seq(RowRecord), Dashboard!BoardNext
  PROVE  BoardMoves
BY RefreshKeeps, MessageKeeps, ProcessKeeps, Zenon DEF Dashboard!BoardNext, Dashboard!BoardWork

LEMMA BoardStays ==
  ASSUME BoardInv, log \in Seq(Events), log' \in Seq(Events), Len(log) <= Len(log'), UNCHANGED boardVars
  PROVE  BoardInv'
<1>1. UNCHANGED <<flight, board, boardReported>>
  BY DEF boardVars
<1>2. board.offset \in Nat /\ board.last \in Nat /\ Len(log) \in Nat /\ Len(log') \in Nat
  BY DEF BoardInv, BoardRecord
<1>3. 1..Len(log) \subseteq 1..Len(log')
  BY <1>2
<1> QED BY <1>1, <1>2, <1>3 DEF BoardInv

LEMMA BoardBegins ==
  ASSUME log \in Seq(Events), Dashboard!BoardInit
  PROVE  BoardInv
<1>1. /\ flight = [f \in Dashboard!Refreshers |-> Dashboard!Landed] /\ board = Dashboard!Quiet(0)
      /\ boardReported = [e \in Events |-> 0]
  BY DEF Dashboard!BoardInit
<1>2. Dashboard!Landed \in FlightRecord
  BY DEF Dashboard!Landed, FlightRecord
<1>3. Dashboard!Quiet(0) \in BoardRecord
  BY DEF Dashboard!Quiet, BoardRecord
<1>4. Len(log) \in Nat
  OBVIOUS
<1>5. BoardTyped
  BY <1>1, <1>3, <1>4 DEF BoardTyped, Dashboard!Quiet
<1> QED BY <1>1, <1>2, <1>5, BoardTypes

-----------------------------------------------------------------------------
(* The steps of the whole. *)

\* What a step does to the promise of the outbox.
Records ==
  /\ log' = log /\ Recorded \subseteq Recorded'
  /\ \A i \in Rows : i \in Rows' /\ outbox'[i] = outbox[i]
  /\ \A i \in Rows' \ Rows : outbox'[i].state = "waiting"
ChannelMoves ==
  \/ Records
  \/ Recorded' = Recorded /\ (Settles \/ Publishes \/ Reopens)
Moves == DeliveryInv' /\ ChannelMoves

LEMMA DeliveryTypes ==
  ASSUME DeliveryInv
  PROVE  /\ RelayInv /\ ConsumerInv /\ MailInv /\ BoardInv /\ TablesInv /\ made \in Nat
         /\ outbox \in Seq(RowRecord) /\ log \in Seq(Events) /\ trial \in Trials
         /\ faults \in Nat /\ replays \in Nat
BY Consumers DEF DeliveryInv, RelayInv, RelayTypes

LEMMA LogGrows ==
  ASSUME log \in Seq(Events), log' = log \/ \E t \in Seq(Events) : log' = log \o t
  PROVE  LogExtended /\ Range(log) \subseteq Range(log')
<1>1. Len(log) \in Nat /\ DOMAIN log = 1..Len(log)
  OBVIOUS
<1>2. CASE log' = log
  BY <1>1, <1>2 DEF LogExtended
<1>3. ASSUME NEW t \in Seq(Events), log' = log \o t PROVE LogExtended /\ Range(log) \subseteq Range(log')
  <2>1. /\ log' \in Seq(Events) /\ Len(t) \in Nat /\ Len(log') = Len(log) + Len(t)
        /\ \A i \in 1..Len(log) : log'[i] = log[i]
    BY <1>3
  <2>2. Range(log') = Range(log) \cup Range(t)
    BY <1>3, RangeConcatenation
  <2> QED BY <1>1, <2>1, <2>2 DEF LogExtended
<1> QED BY <1>2, <1>3

LEMMA OutboxUntouched ==
  ASSUME DeliveryInv, UNCHANGED <<outbox, log, relay, trial, replays>>, faults' \in Nat, faults <= faults'
  PROVE  RelayInv' /\ ChannelMoves
<1>1. RelayInv' /\ Recorded' = Recorded
  BY DeliveryTypes, OutboxStays
<1>2. Settles
  BY DEF Settles, SameEvents
<1> QED BY <1>1, <1>2 DEF ChannelMoves

LEMMA OutboxRecords ==
  ASSUME DeliveryInv, NEW e \in Events, outbox' = Append(outbox, NewRow(e)),
         UNCHANGED <<log, relay, trial, faults>>, replays' \in Nat,
         e \notin Range(trial.changes) \/ e \notin Recorded
  PROVE  RelayInv' /\ ChannelMoves
<1>1. /\ RelayInv' /\ Recorded' = Recorded \cup {e}
      /\ Rows' = Rows \cup {Len(outbox) + 1} /\ Len(outbox) + 1 \notin Rows
      /\ outbox'[Len(outbox) + 1] = NewRow(e) /\ \A i \in Rows : outbox'[i] = outbox[i]
  BY DeliveryTypes, OutboxGrows
<1>2. NewRow(e).state = "waiting"
  BY DEF NewRow
<1>3. Records
  BY <1>1, <1>2 DEF Records
<1> QED BY <1>1, <1>3 DEF ChannelMoves

LEMMA ConsumerUntouched ==
  ASSUME DeliveryInv, UNCHANGED <<consumerVars, tableVars>>, LogExtended, Range(log) \subseteq Range(log')
  PROVE  ConsumerInv' /\ DeliveriesMove
<1>1. TablesMove
  BY DeliveryTypes, TablesStay DEF tableVars
<1> QED BY <1>1, DeliveryTypes, ConsumerStays DEF TablesMove

LEMMA SameLog ==
  ASSUME DeliveryInv, log' = log
  PROVE  LogExtended /\ Range(log) \subseteq Range(log') /\ log' \in Seq(Events) /\ Len(log) <= Len(log')
<1>1. LogExtended /\ Range(log) \subseteq Range(log')
  BY DeliveryTypes, LogGrows
<1> QED BY <1>1 DEF LogExtended

LEMMA ChangeKeeps ==
  ASSUME DeliveryInv, Change
  PROVE  Moves
<1>1. /\ made < Len(trial.changes) /\ made' = made + 1 /\ UNCHANGED <<notification, boardVars, log, relay, trial, faults, replays>>
      /\ trial.changes[made'] \notin Recorded /\ outbox' = Append(outbox, NewRow(trial.changes[made']))
  BY DEF Change, Record, AddOutboxEvent, NoFault
<1>2. trial.changes \in Seq(Events)
  BY DeliveryTypes, TrialAssumption
<1>3. made' \in Nat /\ made' \in 1..Len(trial.changes)
  BY <1>1, <1>2, DeliveryTypes
<1>4. PICK e \in Events : e = trial.changes[made']
  BY <1>2, <1>3
<1>5. RelayInv' /\ ChannelMoves
  BY <1>1, <1>4, DeliveryTypes, OutboxRecords
<1>6. UNCHANGED <<consumerVars, tableVars>> /\ UNCHANGED mailerVars
  BY <1>1 DEF notification
<1>7. ConsumerInv' /\ DeliveriesMove
  BY <1>1, <1>6, SameLog, ConsumerUntouched
<1>8. MailInv'
  BY <1>1, <1>6, <1>7, DeliveryTypes, MailStays
<1>9. BoardInv'
  BY <1>1, SameLog, DeliveryTypes, BoardStays
<1> QED BY <1>3, <1>5, <1>7, <1>8, <1>9 DEF Moves, DeliveryInv

LEMMA RelayStepKeeps ==
  ASSUME DeliveryInv, RelayNext /\ Beside
  PROVE  Moves
<1>1. RelayMoves
  BY DeliveryTypes, RelayNextKeeps
<1>2. UNCHANGED <<consumerVars, tableVars>> /\ UNCHANGED mailerVars /\ UNCHANGED boardVars /\ made' = made
  BY DEF Beside, notification, domain
<1>3. RelayInv' /\ faults' \in Nat /\ faults <= faults' /\ log' \in Seq(Events)
  BY <1>1 DEF RelayMoves, RelayInv, RelayTypes
<1>4. LogExtended /\ Range(log) \subseteq Range(log')
  BY <1>1, DeliveryTypes, LogGrows DEF RelayMoves, Settles, Publishes, Reopens
<1>5. ConsumerInv' /\ DeliveriesMove
  BY <1>2, <1>4, ConsumerUntouched
<1>6. MailInv'
  BY <1>2, <1>3, <1>5, DeliveryTypes, MailStays
<1>7. BoardInv'
  BY <1>2, <1>3, <1>4, DeliveryTypes, BoardStays DEF LogExtended
<1> QED BY <1>1, <1>2, <1>3, <1>5, <1>6, <1>7, DeliveryTypes DEF Moves, DeliveryInv, ChannelMoves, RelayMoves

\* What the consumer does to the outbox and to the faults.
LEMMA IntakeOutbox ==
  ASSUME DeliveryInv, Intake!IntakeNext, relay' = relay
  PROVE  RelayInv' /\ ChannelMoves /\ log' = log /\ faults' \in Nat /\ faults <= faults'
<1>1. faults \in Nat /\ replays \in Nat /\ trial \in Trials
  BY DeliveryTypes
<1>2. CASE Intake!IntakeStep \/ Intake!IntakeFault
  <2>1. UNCHANGED <<outbox, log, trial, replays>> /\ (faults' = faults \/ faults' = faults + 1)
    <3>1. ASSUME NEW g, \/ Intake!EachBatch(g) \/ Intake!TakeMessage(g) \/ Intake!CommitOffsets(g) \/ Intake!CommitFails(g)
          PROVE  UNCHANGED <<outbox, log, trial, replays>> /\ (faults' = faults \/ faults' = faults + 1)
      BY <3>1 DEF Intake!EachBatch, Intake!TakeMessage, Intake!CommitOffsets, Intake!CommitFails,
         Intake!NoFault, Intake!Fault
    <3>2. ASSUME NEW h, Intake!Handle(h) \/ Intake!EnqueueFails(h) \/ Intake!RecordingFails(h)
          PROVE  UNCHANGED <<outbox, log, trial, replays>> /\ (faults' = faults \/ faults' = faults + 1)
      BY <3>2 DEF Intake!Handle, Intake!EnqueueNotificationEvent, Intake!RecordRetry, Intake!TerminalReceipt,
         Intake!EnqueueFails, Intake!RecordingFails, Intake!NoFault, Intake!Fault
    <3>3. ASSUME Intake!Restart \/ Intake!Stop \/ Intake!Crash
          PROVE  UNCHANGED <<outbox, log, trial, replays>> /\ (faults' = faults \/ faults' = faults + 1)
      BY <3>3 DEF Intake!Restart, Intake!Stop, Intake!Crash, Intake!Forget, Intake!NoFault, Intake!Fault
    <3> QED BY <1>2, <3>1, <3>2, <3>3, Zenon DEF Intake!IntakeStep, Intake!IntakeFault
  <2>2. faults' \in Nat /\ faults <= faults'
    BY <1>1, <2>1
  <2> QED BY <2>1, <2>2, OutboxUntouched
<1>3. ASSUME NEW e \in Events, Intake!RetryNotification(e)
      PROVE  RelayInv' /\ ChannelMoves /\ log' = log /\ faults' \in Nat /\ faults <= faults'
  <2>1. /\ e \in DOMAIN Retried /\ UNCHANGED <<log, trial, faults>> /\ replays' = replays + 1
        /\ outbox' = Append(outbox, NewRow(Retried[e]))
    BY <1>3 DEF Intake!RetryNotification, NewRow
  <2>2. Retried[e] \in Events /\ Retried[e] \notin Range(trial.changes)
    BY <1>1, <2>1, DeliveryAssumption, TrialAssumption
  <2>3. RelayInv' /\ ChannelMoves
    BY <1>1, <2>1, <2>2, OutboxRecords
  <2> QED BY <1>1, <2>1, <2>3
<1> QED BY <1>2, <1>3, Zenon DEF Intake!IntakeNext

LEMMA IntakeStepKeeps ==
  ASSUME DeliveryInv, Intake!IntakeNext /\ BesideConsumer
  PROVE  Moves
<1>1. relay' = relay /\ UNCHANGED mailerVars /\ UNCHANGED boardVars /\ made' = made
  BY DEF BesideConsumer, domain
<1>2. RelayInv' /\ ChannelMoves /\ log' = log /\ faults' \in Nat /\ faults <= faults'
  BY <1>1, IntakeOutbox
<1>3. ConsumerInv' /\ DeliveriesMove
  BY DeliveryTypes, IntakeNextKeeps DEF ConsumerMoves
<1>4. MailInv'
  BY <1>1, <1>2, <1>3, DeliveryTypes, MailStays
<1>5. BoardInv'
  BY <1>1, <1>2, SameLog, DeliveryTypes, BoardStays
<1> QED BY <1>1, <1>2, <1>3, <1>4, <1>5, DeliveryTypes DEF Moves, DeliveryInv

LEMMA MailStepKeeps ==
  ASSUME DeliveryInv, Mail!MailNext /\ BesideMailers
  PROVE  Moves
<1>1. UNCHANGED <<outbox, log, relay, receipts>> /\ UNCHANGED consumerVars /\ UNCHANGED boardVars /\ made' = made
  BY DEF BesideMailers, domain
<1>2. MailMoves
  BY <1>1, DeliveryTypes, MailNextKeeps
<1>3. /\ MailInv' /\ TablesInv' /\ AnswersStay
      /\ faults' \in Nat /\ faults <= faults' /\ UNCHANGED <<trial, replays>>
  BY <1>2 DEF MailMoves
<1>4. RelayInv' /\ ChannelMoves
  BY <1>1, <1>3, OutboxUntouched
<1>5. ConsumerInv'
  BY <1>1, <1>3, DeliveryTypes, SameLog, ConsumerStays
<1>6. BoardInv'
  BY <1>1, SameLog, DeliveryTypes, BoardStays
<1> QED BY <1>1, <1>3, <1>4, <1>5, <1>6, DeliveryTypes DEF Moves, DeliveryInv

LEMMA RecoveryStepKeeps ==
  ASSUME DeliveryInv, RecoverLegacy \/ RecoveryFails
  PROVE  Moves
<1>1. /\ UNCHANGED <<outbox, log, relay, trial, replays>> /\ UNCHANGED boardVars /\ UNCHANGED mailerVars /\ made' = made
      /\ faults' = faults \/ faults' = faults + 1
  BY DEF RecoverLegacy, RecoveryFails, ReadUnannounced, EnqueueRecovery, Fault, relayVars, notification
<1>2. faults' \in Nat /\ faults <= faults'
  BY <1>1, DeliveryTypes
<1>3. RelayInv' /\ ChannelMoves
  BY <1>1, <1>2, OutboxUntouched
<1>4. ConsumerInv' /\ DeliveriesMove
  <2>1. CASE EnqueueRecovery
    BY <2>1, DeliveryTypes, EnqueueRecoveryKeeps DEF ConsumerMoves
  <2>2. CASE UNCHANGED notification
    BY <1>1, <2>2, SameLog, ConsumerUntouched DEF notification
  <2> QED BY <2>1, <2>2 DEF RecoverLegacy, RecoveryFails, ReadUnannounced
<1>5. MailInv'
  BY <1>1, <1>2, <1>4, DeliveryTypes, MailStays
<1>6. BoardInv'
  BY <1>1, SameLog, DeliveryTypes, BoardStays
<1> QED BY <1>1, <1>3, <1>4, <1>5, <1>6, DeliveryTypes DEF Moves, DeliveryInv

LEMMA BoardStepKeeps ==
  ASSUME DeliveryInv, Dashboard!BoardNext /\ BesideDashboard
  PROVE  Moves
<1>1. relay' = relay /\ UNCHANGED <<consumerVars, tableVars>> /\ UNCHANGED mailerVars /\ made' = made
  BY DEF BesideDashboard, notification, domain
<1>2. BoardInv' /\ faults' \in Nat /\ faults <= faults' /\ UNCHANGED <<outbox, log, trial, replays>>
  BY DeliveryTypes, BoardNextKeeps DEF BoardMoves
<1>3. RelayInv' /\ ChannelMoves
  BY <1>1, <1>2, OutboxUntouched
<1>4. ConsumerInv' /\ DeliveriesMove
  BY <1>1, <1>2, SameLog, ConsumerUntouched
<1>5. MailInv'
  BY <1>1, <1>2, <1>4, DeliveryTypes, MailStays
<1> QED BY <1>1, <1>2, <1>3, <1>4, <1>5, DeliveryTypes DEF Moves, DeliveryInv

LEMMA StepKeeps ==
  ASSUME DeliveryInv, [Next]_vars
  PROVE  Moves
<1>1. CASE UNCHANGED vars
  <2>1. /\ UNCHANGED <<outbox, log, relay, trial, faults, replays>> /\ UNCHANGED boardVars /\ UNCHANGED mailerVars
        /\ UNCHANGED <<consumerVars, tableVars>> /\ made' = made
    BY <1>1 DEF vars, relayVars, notification, domain
  <2>2. faults' \in Nat /\ faults <= faults'
    BY <2>1, DeliveryTypes
  <2>3. RelayInv' /\ ChannelMoves
    BY <2>1, <2>2, OutboxUntouched
  <2>4. ConsumerInv' /\ DeliveriesMove
    BY <2>1, SameLog, ConsumerUntouched
  <2>5. MailInv'
    BY <2>1, <2>2, <2>4, DeliveryTypes, MailStays
  <2>6. BoardInv'
    BY <2>1, SameLog, DeliveryTypes, BoardStays
  <2> QED BY <2>1, <2>3, <2>4, <2>5, <2>6, DeliveryTypes DEF Moves, DeliveryInv
<1> QED BY <1>1, ChangeKeeps, RelayStepKeeps, IntakeStepKeeps, MailStepKeeps, RecoveryStepKeeps, BoardStepKeeps,
        Zenon DEF Next

LEMMA DeliveryBegins ==
  ASSUME Init
  PROVE  DeliveryInv
<1>1. RelayInv /\ faults = 0 /\ made = 0
  BY RelayBegins DEF Init, RelayInit
<1>2. log \in Seq(Events)
  BY <1>1 DEF RelayInv, RelayTypes
<1>3. ConsumerInv /\ MailInv /\ BoardInv
  BY <1>1, <1>2, ConsumerBegins, MailBegins, BoardBegins DEF Init
<1> QED BY <1>1, <1>3 DEF DeliveryInv

-----------------------------------------------------------------------------
(* The theorems. *)

LEMMA TypesHold ==
  ASSUME DeliveryInv
  PROVE  TypeOK
<1>1. /\ RelayTypes /\ ConsumerTypes /\ TableTypes /\ MailTypes /\ BoardInv /\ log \in Seq(Events)
  BY DeliveryTypes DEF RelayInv, ConsumerInv, MailInv
<1>2. \A i \in Rows : outbox[i] \in RowRecord
  BY <1>1, RowsAre DEF RelayTypes
<1>3. \A r \in Relays : relay[r].batch \subseteq Rows /\ relay[r].step \in {"idle", "validate", "mark", "retry"}
  BY <1>1 DEF RelayTypes, RelayRecord, Free
<1>4. handlers \subseteq [pass : {0, 1}, at : 1..Len(log), step : {"enqueue", "retry", "terminal"}]
  <2>1. ASSUME NEW h \in handlers PROVE h \in [pass : {0, 1}, at : 1..Len(log), step : {"enqueue", "retry", "terminal"}]
    BY <1>1 DEF ConsumerTypes, HandlerRecord
  <2> QED BY <2>1
<1>5. \A m \in Mailers :
        mailer[m] \in [step : {"idle", "send", "mark", "failed"}, event : Events, attempt : 0..MaxAttempts]
  <2>1. (CHOOSE e \in Events : TRUE) \in Events
    BY DeliveryAssumption
  <2>2. 0 \in 0..MaxAttempts
    BY DeliveryAssumption
  <2>3. Mail!Resting \in [step : {"idle", "send", "mark", "failed"}, event : Events, attempt : 0..MaxAttempts]
    BY <2>1, <2>2 DEF Mail!Resting
  <2> QED BY <1>1, <2>3 DEF MailTypes, MailerRecord
<1>6. \A f \in Dashboard!Refreshers : flight[f] \in [step : {"none", "read", "write"}, seen : SUBSET Events]
  BY <1>1 DEF BoardInv
<1>7. board.step \in {"starting", "idle", "work", "await", "commit"} /\ board.offset \in 0..Len(log)
  <2>1. board.offset \in Nat /\ board.offset <= Len(log) /\ Len(log) \in Nat
    BY <1>1 DEF BoardInv, BoardRecord
  <2> QED BY <1>1, <2>1 DEF BoardInv, BoardRecord
<1>8. Recorded \subseteq Events
  BY <1>2 DEF Recorded, RowRecord
<1> QED BY <1>1, <1>2, <1>3, <1>4, <1>5, <1>6, <1>7, <1>8
        DEF TypeOK, RowRecord, ConsumerTypes, TableTypes, ReceiptRecord, DeliveryRecord

LEMMA CopiesAreCounted ==
  ASSUME DeliveryInv
  PROVE  CopiesAreInterruptions
<1>1. RelayInv /\ log \in Seq(Events) /\ faults \in Nat
  BY DeliveryTypes
<1> SUFFICES ASSUME NEW e \in Range(trial.changes) PROVE Copies(e) <= 1 + faults
  BY DEF CopiesAreInterruptions
<1>2. Copies(e) \in Nat
  BY <1>1, CopiesIsNat DEF Copies, CopiesOn
<1>3. CASE e \in Range(log)
  <2>1. e \in Recorded /\ e \notin Malformed
    BY <1>1, <1>3 DEF RelayInv, ChannelInv
  <2>2. PICK i \in Rows : outbox[i].event = e
    BY <2>1 DEF Recorded
  <2>3. Counted(i)
    BY <1>1, <2>1, <2>2 DEF RelayInv, CopiesInv
  <2>4. Publications(i) \in Nat
    <3>1. Publishing(i) \subseteq Relays
      BY DEF Publishing
    <3>2. Cardinality(Publishing(i)) \in Nat
      BY <3>1, RelayAssumption, FS_Subset, FS_CardinalityType
    <3> QED BY <3>2 DEF Publications
  <2> QED BY <1>1, <1>2, <2>2, <2>3, <2>4 DEF Counted
<1>4. CASE e \notin Range(log)
  <2>1. {i \in DOMAIN log : log[i] = e} = {}
    BY <1>4 DEF Range
  <2>2. Copies(e) = 0
    BY <2>1, FS_EmptySet DEF Copies
  <2> QED BY <1>1, <2>2
<1> QED BY <1>3, <1>4

LEMMA MailsAreCounted ==
  ASSUME DeliveryInv
  PROVE  SecondMailIsInterruption
<1>1. MailInv /\ faults \in Nat
  BY DeliveryTypes
<1> SUFFICES ASSUME NEW e \in Events PROVE mails[e] <= 1 + faults
  BY DEF SecondMailIsInterruption
<1>2. MailCounted(e) /\ mails[e] \in Nat
  BY <1>1, MailsCounted DEF MailInv, MailTypes
<1>3. Cardinality(Sending(e)) \in Nat
  BY SendingIsFinite
<1> QED BY <1>1, <1>2, <1>3 DEF MailCounted

\* From the outbox to the mails, whatever fails and whenever: every state is of its
\* type, a committed message is answered or was passed over by a stopping consumer,
\* a receipt at `retrying' has a sign of its event elsewhere, and what is given up is
\* on the dead-letter topic (eachBatch, processKafkaMessage, markDeliveryFailure).
THEOREM NothingIsEverLost ==
  Spec => []NothingIsLost
<1>1. Init => DeliveryInv
  BY DeliveryBegins
<1>2. DeliveryInv /\ [Next]_vars => DeliveryInv'
  BY StepKeeps DEF Moves
<1>3. DeliveryInv => NothingIsLost
  <2> SUFFICES ASSUME DeliveryInv PROVE NothingIsLost
    OBVIOUS
  <2>1. ConsumerInv /\ log \in Seq(Events)
    BY DeliveryTypes
  <2> QED BY <2>1, TypesHold, RetryingIsNeverLost DEF NothingIsLost, ConsumerInv
<1> QED BY <1>1, <1>2, <1>3, PTL DEF Spec

\* The log holds at most one copy of a change, and a recipient gets at most one mail,
\* more than the number of faults, with any number of relays and mailers; and the
\* dashboard consumer reports an event once (claimOutboxRows, claimDeliveries,
\* recordDashboardTerminal).
THEOREM OnlyInterruptionsRepeat ==
  Spec => []TwiceOnlyIfInterrupted
<1>1. Init => DeliveryInv
  BY DeliveryBegins
<1>2. DeliveryInv /\ [Next]_vars => DeliveryInv'
  BY StepKeeps DEF Moves
<1>3. DeliveryInv => TwiceOnlyIfInterrupted
  <2> SUFFICES ASSUME DeliveryInv PROVE TwiceOnlyIfInterrupted
    OBVIOUS
  <2>1. boardReported \in [Events -> {0, 1}]
    BY DeliveryTypes DEF BoardInv
  <2>2. BoardReportsOnce
    BY <2>1 DEF BoardReportsOnce
  <2> QED BY <2>2, CopiesAreCounted, MailsAreCounted DEF TwiceOnlyIfInterrupted
<1> QED BY <1>1, <1>2, <1>3, PTL DEF Spec

LEMMA SettledAre ==
  ASSUME RelayInv
  PROVE  /\ Recorded \subseteq Events
         /\ Range(log) \subseteq Recorded \ Malformed
         /\ Settled \subseteq Recorded \cap (Range(log) \cup Malformed)
<1>1. \A i \in Rows : outbox[i] \in RowRecord
  BY RowsAre DEF RelayInv, RelayTypes
<1>2. Recorded \subseteq Events /\ Range(log) \subseteq Recorded \ Malformed
  BY <1>1 DEF Recorded, RowRecord, RelayInv, ChannelInv
<1>3. ASSUME NEW i \in Rows, ~Waiting(i)
      PROVE  outbox[i].event \in Recorded \cap (Range(log) \cup Malformed)
  <2>1. outbox[i].state \in {"delivered", "terminal"}
    BY <1>1, <1>3 DEF RowRecord, Waiting
  <2> QED BY <2>1 DEF RelayInv, ChannelInv, Recorded
<1> QED BY <1>2, <1>3 DEF Settled

LEMMA ChannelStep ==
  ASSUME DeliveryInv, [Next]_vars
  PROVE  Channel!Next \/ UNCHANGED Channel!channel
<1>1. RelayInv /\ RelayInv' /\ ChannelMoves /\ outbox \in Seq(RowRecord) /\ outbox' \in Seq(RowRecord)
      /\ log \in Seq(Events)
  BY DeliveryTypes, StepKeeps DEF Moves, DeliveryInv, RelayInv, RelayTypes
<1>2. /\ Recorded' \subseteq Events /\ Range(log') \subseteq Recorded' \ Malformed
      /\ Settled' \subseteq Recorded' \cap (Range(log') \cup Malformed)
  <2>1. (RelayInv => /\ Recorded \subseteq Events
                     /\ Range(log) \subseteq Recorded \ Malformed
                     /\ Settled \subseteq Recorded \cap (Range(log) \cup Malformed))'
    BY SettledAre, PTL
  <2> QED BY <1>1, <2>1 DEF Range
<1>3. CASE Records
  <2>1. Settled' = Settled
    BY <1>3 DEF Records, Settled, Waiting
  <2> QED BY <1>2, <1>3, <2>1 DEF Records, Channel!Next, Channel!Record
<1>4. CASE Recorded' = Recorded /\ Settles
  <2>1. Rows' = Rows
    BY <1>1, <1>4 DEF Settles, SameEvents, Rows
  <2>2. Settled \subseteq Settled'
    BY <1>4, <2>1 DEF Settles, SameEvents, Settled, Waiting
  <2>3. Range(log) = Range(log')
    BY <1>4 DEF Settles
  <2>4. Channel!Settle
    BY <1>2, <1>4, <2>2, <2>3 DEF Settles, Channel!Settle, Channel!Logged, Channel!Range, Range
  <2> QED BY <2>4 DEF Channel!Next
<1>5. CASE Recorded' = Recorded /\ Publishes
  <2>1. PICK t \in Seq(Events) : log' = log \o t
    BY <1>5 DEF Publishes
  <2>2. Channel!IsPrefix(log, log')
    <3>1. Len(log) \in Nat /\ Len(log') \in Nat /\ Len(log) <= Len(log') /\ \A i \in 1..Len(log) : log'[i] = log[i]
      BY <1>1, <2>1
    <3>2. SubSeq(log, 1, Len(log)) = SubSeq(log', 1, Len(log))
      BY <1>1, <2>1, <3>1
    <3> QED BY <3>1, <3>2 DEF Channel!IsPrefix
  <2>3. Settled' = Settled
    BY <1>5 DEF Publishes, Settled, Rows, Waiting
  <2>4. Channel!Publish
    BY <1>2, <1>5, <2>2, <2>3 DEF Channel!Publish, Channel!Range, Range
  <2> QED BY <2>4 DEF Channel!Next
<1>6. CASE Recorded' = Recorded /\ Reopens
  <2>1. Rows' = Rows
    BY <1>1, <1>6 DEF Reopens, SameEvents, Rows
  <2>2. Settled' \subseteq Settled /\ Settled \ Settled' \subseteq Malformed
    BY <1>6, <2>1 DEF Reopens, SameEvents, Settled, Waiting
  <2>3. Channel!Reopen
    BY <1>6, <2>2 DEF Reopens, Channel!Reopen
  <2> QED BY <2>3 DEF Channel!Next
<1> QED BY <1>1, <1>3, <1>4, <1>5, <1>6 DEF ChannelMoves

\* The outbox and its relays implement an at-least-once channel: nothing that was not
\* committed with a change reaches the log, and a row is marked only when its event
\* is on the log or malformed (relayOutboxBatch).  That none is forgotten, the
\* liveness of ImplementsChannel, is not part of this theorem.
THEOREM OutboxImplementsChannel ==
  Spec => Channel!Spec
<1>1. Init => DeliveryInv
  BY DeliveryBegins
<1>2. DeliveryInv /\ [Next]_vars => DeliveryInv'
  BY StepKeeps DEF Moves
<1>3. Init => Channel!Init
  BY <1>1, DeliveryTypes, SettledAre DEF Channel!Init, Channel!Logged, Channel!Range, Range
<1>4. DeliveryInv /\ [Next]_vars => [Channel!Next]_(Channel!channel)
  BY ChannelStep
<1> QED BY <1>1, <1>2, <1>3, <1>4, PTL DEF Spec, Channel!Spec
=============================================================================
