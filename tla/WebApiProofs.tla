---------------------------- MODULE WebApiProofs ----------------------------
(***************************************************************************)
(* Theorems about what the API holds in memory and leaves in the tables,   *)
(* for any number of processes, pages, requests and faults.                *)
(***************************************************************************)
EXTENDS WebApi, SequenceTheorems, FiniteSetTheorems, TLAPS

-----------------------------------------------------------------------------
(* The end of a sale. *)

Counts == 0 .. Cardinality(Requests)
RequestRecord ==
  [kind : Sale!Decided \cup {"checkout", "rate", "none"}, at : Processes \cup {Sale!Nobody},
   step : {"new", "begun", "uploaded", "read", "counted", "rated", "done"},
   count : Counts, positive : Counts]
OrderRecord ==
  [status : Sale!Decided \cup {"pending"}, proof : Requests \cup {Sale!Nobody},
   label : Requests \cup {Sale!Nobody}]

SaleTypes ==
  /\ order \in OrderRecord /\ announced \in Seq(Sale!Decided)
  /\ ratings \subseteq Requests /\ rated \in [count : Counts, positive : Counts]
  /\ request \in [Requests -> RequestRecord]

\* Unless two ratings have overlapped, one that has counted has counted right.
CountedRight ==
  \A r \in Requests :
    request[r].step \in {"counted", "rated"} =>
      /\ request[r].count = Sale!Count(r)
      /\ request[r].step = "rated" => request[r].positive = Sale!Count(r)

SaleInv ==
  /\ SaleTypes /\ DecisionIsAnnounced /\ RatingIsOfRatings
  /\ overlapped \/ CountedRight

LEMMA CountOfAll ==
  ASSUME NEW r
  PROVE  Sale!Count(r) = Cardinality(ratings \cup {r})
BY DEF Sale!Count, Sale!Cardinality, Cardinality

LEMMA CountBounded ==
  ASSUME SaleTypes, NEW r \in Requests
  PROVE  Sale!Count(r) \in Counts /\ Cardinality(ratings) \in Counts
<1>1. IsFiniteSet(Requests)
  BY WebAssumption
<1>2. ASSUME NEW S \in SUBSET Requests PROVE Cardinality(S) \in Counts
  BY <1>1, FS_Subset, FS_CardinalityType DEF Counts
<1>3. ratings \in SUBSET Requests /\ ratings \cup {r} \in SUBSET Requests
  BY DEF SaleTypes
<1> QED BY <1>2, <1>3, CountOfAll

\* A request that begins, reads, or ends with nothing done.
LEMMA RequestGoesOn ==
  ASSUME SaleInv, NEW r \in Requests, NEW x \in RequestRecord,
         request' = [request EXCEPT ![r] = x],
         x.step \in {"counted", "rated"} => overlapped \/ x.count = Sale!Count(r),
         x.step = "rated" => overlapped \/ x.positive = Sale!Count(r),
         UNCHANGED <<order, announced, ratings, rated, overlapped>>
  PROVE  SaleInv'
<1>1. SaleTypes'
  BY DEF SaleInv, SaleTypes
<1>2. DecisionIsAnnounced' /\ RatingIsOfRatings'
  BY DEF SaleInv, DecisionIsAnnounced, RatingIsOfRatings
<1>3. ASSUME ~overlapped PROVE CountedRight'
  BY <1>3 DEF SaleInv, CountedRight, SaleTypes, Sale!Count
<1> QED BY <1>1, <1>2, <1>3 DEF SaleInv

LEMMA SaleReads ==
  ASSUME SaleInv, NEW r \in Requests, NEW kind \in Sale!Decided \cup {"checkout", "rate"},
         NEW p \in Processes,
         \/ Sale!Request(r, kind, p) \/ Sale!FindWinnerOrder(r) \/ Sale!ReadOrder(r)
         \/ Sale!CountRatings(r) \/ Sale!CountPositive(r) \/ Sale!RequestFails(r)
  PROVE  SaleInv'
<1>0. /\ UNCHANGED <<order, announced, ratings, rated, overlapped>>
      /\ request \in [Requests -> RequestRecord] /\ request[r] \in RequestRecord
  BY DEF Sale!Request, Sale!FindWinnerOrder, Sale!ReadOrder, Sale!CountRatings, Sale!CountPositive,
         Sale!RequestFails, Sale!orderVars, Sale!ratingVars, SaleInv, SaleTypes
<1>1. CASE Sale!Request(r, kind, p)
  <2> DEFINE x == [Sale!Fresh EXCEPT !.kind = kind, !.at = p, !.step = "begun"]
  <2>1. request' = [request EXCEPT ![r] = x] /\ x.step = "begun"
    BY <1>1 DEF Sale!Request, Sale!Fresh
  <2>2. x \in RequestRecord
    <3>1. 0 \in Counts
      BY WebAssumption, FS_CardinalityType DEF Counts
    <3> QED BY <3>1 DEF Sale!Fresh, RequestRecord
  <2> QED BY <1>0, <2>1, <2>2, RequestGoesOn
<1>2. ASSUME NEW step \in {"uploaded", "read", "done"}, Sale!Goes(r, step)
      PROVE  SaleInv'
  <2> DEFINE x == [request[r] EXCEPT !.step = step]
  <2>1. request' = [request EXCEPT ![r] = x] /\ x.step = step
    BY <1>0, <1>2 DEF Sale!Goes, RequestRecord
  <2>2. x \in RequestRecord
    BY <1>0 DEF RequestRecord
  <2> HIDE DEF x
  <2> QED BY <1>0, <2>1, <2>2, RequestGoesOn
<1>3. CASE Sale!CountRatings(r)
  <2> DEFINE x == [request[r] EXCEPT !.step = "counted", !.count = Sale!Count(r)]
  <2>1. request' = [request EXCEPT ![r] = x] /\ x.step = "counted" /\ x.count = Sale!Count(r)
    BY <1>0, <1>3 DEF Sale!CountRatings, RequestRecord
  <2>2. x \in RequestRecord
    BY <1>0, CountBounded DEF RequestRecord, SaleInv
  <2> HIDE DEF x
  <2> QED BY <1>0, <2>1, <2>2, RequestGoesOn
<1>4. CASE Sale!CountPositive(r)
  <2> DEFINE x == [request[r] EXCEPT !.step = "rated", !.positive = Sale!Count(r)]
  <2>1. /\ request' = [request EXCEPT ![r] = x] /\ x.step = "rated"
        /\ x.positive = Sale!Count(r) /\ x.count = request[r].count
    BY <1>0, <1>4 DEF Sale!CountPositive, RequestRecord
  <2>2. x \in RequestRecord
    BY <1>0, CountBounded DEF RequestRecord, SaleInv
  <2>3. overlapped \/ request[r].count = Sale!Count(r)
    BY <1>4 DEF Sale!CountPositive, Sale!Is, SaleInv, CountedRight
  <2> HIDE DEF x
  <2> QED BY <1>0, <2>1, <2>2, <2>3, RequestGoesOn
<1> QED BY <1>1, <1>2, <1>3, <1>4
        DEF Sale!FindWinnerOrder, Sale!ReadOrder, Sale!RequestFails

\* The guarded updates of the order.
LEMMA OrderStep ==
  ASSUME SaleInv, NEW r \in Requests, Sale!UpdateWinnerOrder(r) \/ Sale!DecideOrder(r)
  PROVE  SaleInv' /\ (order.status \in Sale!Decided => order' = order)
<1> DEFINE x == [request[r] EXCEPT !.step = "done"]
<1>1. /\ request' = [request EXCEPT ![r] = x] /\ x \in RequestRecord /\ x.step = "done"
      /\ UNCHANGED <<ratings, rated, overlapped>>
  BY DEF Sale!UpdateWinnerOrder, Sale!DecideOrder, Sale!Goes, Sale!ratingVars, SaleInv, SaleTypes,
         RequestRecord
<1> HIDE DEF x
<1>2. /\ order' \in OrderRecord /\ announced' \in Seq(Sale!Decided) /\ DecisionIsAnnounced'
      /\ order.status \in Sale!Decided => order' = order
  <2>0. /\ order \in OrderRecord /\ announced \in Seq(Sale!Decided) /\ DecisionIsAnnounced
        /\ "pending" \notin Sale!Decided
    BY DEF SaleInv, SaleTypes, Sale!Decided
  <2>1. CASE Sale!UpdateWinnerOrder(r) /\ order.status = "pending"
    <3>1. order' = [order EXCEPT !.proof = r] /\ announced' = announced
      BY <2>1 DEF Sale!UpdateWinnerOrder
    <3>2. order' \in OrderRecord /\ order'.status = order.status
      BY <2>0, <3>1 DEF OrderRecord
    <3> QED BY <2>0, <2>1, <3>1, <3>2 DEF DecisionIsAnnounced
  <2>2. CASE Sale!UpdateWinnerOrder(r) /\ order.status # "pending"
    BY <2>0, <2>2 DEF Sale!UpdateWinnerOrder, DecisionIsAnnounced
  <2>3. CASE Sale!DecideOrder(r) /\ order.status = "pending"
    <3> DEFINE kind == request[r].kind
    <3>1. kind \in Sale!Decided
      BY <2>3 DEF Sale!DecideOrder
    <3>2. /\ order' = [order EXCEPT !.status = kind, !.label = IF kind = "payment_verified" THEN r ELSE @]
          /\ announced' = Append(announced, kind)
      BY <2>3 DEF Sale!DecideOrder, Sale!Pending
    <3>3. order' \in OrderRecord /\ order'.status = kind
      BY <2>0, <3>1, <3>2 DEF OrderRecord
    <3>4. announced = <<>>
      BY <2>0, <2>3 DEF DecisionIsAnnounced
    <3>5. announced' = <<kind>>
      BY <3>2, <3>4
    <3> QED BY <2>0, <2>3, <3>1, <3>3, <3>5 DEF DecisionIsAnnounced
  <2>4. CASE Sale!DecideOrder(r) /\ order.status # "pending"
    BY <2>0, <2>4 DEF Sale!DecideOrder, Sale!Pending, Sale!orderVars, DecisionIsAnnounced
  <2> QED BY <2>1, <2>2, <2>3, <2>4
<1>3. SaleTypes'
  BY <1>1, <1>2 DEF SaleInv, SaleTypes
<1>4. RatingIsOfRatings' /\ (overlapped' \/ CountedRight')
  BY <1>1 DEF SaleInv, SaleTypes, RatingIsOfRatings, CountedRight, Sale!Count
<1> QED BY <1>2, <1>3, <1>4 DEF SaleInv

\* The commit of a rating: those that have counted without it are overlapped.
LEMMA RatingStep ==
  ASSUME SaleInv, NEW r \in Requests, Sale!UpdateRating(r)
  PROVE  SaleInv'
<1> DEFINE x == [request[r] EXCEPT !.step = "done"]
<1>1. /\ request' = [request EXCEPT ![r] = x] /\ x \in RequestRecord /\ x.step = "done"
      /\ ratings' = ratings \cup {r}
      /\ rated' = [count |-> request[r].count, positive |-> request[r].positive]
      /\ overlapped' = (overlapped \/ \E s \in Requests \ {r} : request[s].step \in {"counted", "rated"})
      /\ UNCHANGED <<order, announced>> /\ request[r].step = "rated"
      /\ request[r].count \in Counts /\ request[r].positive \in Counts
  BY DEF Sale!UpdateRating, Sale!Is, Sale!Goes, Sale!orderVars, SaleInv, SaleTypes, RequestRecord
<1> HIDE DEF x
<1>2. SaleTypes' /\ DecisionIsAnnounced'
  BY <1>1 DEF SaleInv, SaleTypes, DecisionIsAnnounced
<1>3. ASSUME ~overlapped' PROVE RatingIsOfRatings' /\ CountedRight'
  <2>1. request[r].count = Sale!Count(r) /\ request[r].positive = Sale!Count(r)
    BY <1>1, <1>3 DEF SaleInv, CountedRight
  <2>2. RatingIsOfRatings'
    BY <1>1, <2>1, CountOfAll DEF RatingIsOfRatings
  <2>3. CountedRight'
    BY <1>1, <1>3 DEF CountedRight, SaleInv, SaleTypes
  <2> QED BY <2>2, <2>3
<1> QED BY <1>2, <1>3 DEF SaleInv, RatingIsOfRatings

LEMMA SaleStep ==
  ASSUME SaleInv, Sale!SaleNext
  PROVE  SaleInv' /\ (order.status \in Sale!Decided => order' = order)
<1>1. PICK r \in Requests :
        \/ \E kind \in Sale!Decided \cup {"checkout", "rate"}, p \in Processes : Sale!Request(r, kind, p)
        \/ Sale!FindWinnerOrder(r) \/ Sale!UpdateWinnerOrder(r) \/ Sale!ReadOrder(r) \/ Sale!DecideOrder(r)
        \/ Sale!CountRatings(r) \/ Sale!CountPositive(r) \/ Sale!UpdateRating(r) \/ Sale!RequestFails(r)
  BY DEF Sale!SaleNext
<1>2. CASE Sale!UpdateWinnerOrder(r) \/ Sale!DecideOrder(r)
  BY <1>2, OrderStep
<1>3. CASE ~(Sale!UpdateWinnerOrder(r) \/ Sale!DecideOrder(r))
  <2>1. SocketProcess \in Processes /\ "rate" \in Sale!Decided \cup {"checkout", "rate"}
    BY WebAssumption
  <2>2. SaleInv'
    BY <1>1, <1>3, <2>1, SaleReads, RatingStep
  <2>3. order' = order
    BY <1>1, <1>3 DEF Sale!Request, Sale!FindWinnerOrder, Sale!ReadOrder, Sale!CountRatings,
       Sale!CountPositive, Sale!UpdateRating, Sale!RequestFails, Sale!orderVars
  <2> QED BY <2>2, <2>3
<1> QED BY <1>2, <1>3

LEMMA SaleRestarts ==
  ASSUME SaleInv, NEW p \in Processes, Sale!SaleRestart(p)
  PROVE  SaleInv' /\ order' = order
<1>1. /\ request' = [r \in Requests |-> IF request[r].at = p THEN [request[r] EXCEPT !.step = "done"] ELSE request[r]]
      /\ UNCHANGED <<order, announced, ratings, rated, overlapped>>
  BY DEF Sale!SaleRestart
<1>2. request' \in [Requests -> RequestRecord]
  BY <1>1 DEF SaleInv, SaleTypes, RequestRecord
<1>3. SaleTypes' /\ DecisionIsAnnounced' /\ RatingIsOfRatings'
  BY <1>1, <1>2 DEF SaleInv, SaleTypes, DecisionIsAnnounced, RatingIsOfRatings
<1>4. \A r \in Requests : request'[r] = request[r] \/ request'[r].step = "done"
  BY <1>1 DEF SaleInv, SaleTypes, RequestRecord
<1>5. overlapped' \/ CountedRight'
  BY <1>1, <1>4 DEF SaleInv, CountedRight, Sale!Count
<1> QED BY <1>1, <1>3, <1>5 DEF SaleInv

-----------------------------------------------------------------------------
(* The copies of a user's access. *)

Seen == 0 .. version
LookupRecord ==
  {Access!Idle} \cup [step : {"missed", "asking", "loaded", "found"}, at : Processes, read : Seen]
ChangeRecord ==
  {Access!Idle} \cup [step : {"changed", "known", "dropped", "written"}, at : Processes, read : Seen]
Copies == Processes \cup {Access!Shared}

\* Nothing that was read is newer than the row.
AccessTypes ==
  /\ version \in 1 .. LastVersion /\ shared \in Seen /\ local \in [Processes -> Seen]
  /\ notices \in [Processes -> Nat] /\ subscriber \in [Processes -> {"on", "broken", "off"}]
  /\ lookup \in [Lookups -> LookupRecord] /\ change \in [Changes -> ChangeRecord]
  /\ neglected \subseteq Copies /\ late \subseteq Copies

\* The change that has yet to write the copy in Redis has, or will have, read the
\* current row: one that has read an older row leaves the copy as it is.
WillWrite(c) ==
  \/ change[c].step = "changed"
  \/ change[c].step \in {"known", "dropped"} /\ change[c].read = version
SharedCause ==
  \/ shared \in {Access!None, version} \/ Access!Shared \in neglected \cup late
  \/ \E c \in Changes : WillWrite(c)

AccessInv == AccessTypes /\ SharedCause /\ LocalIsCurrent

LEMMA AccessStarts ==
  ASSUME Access!AccessInit
  PROVE  AccessInv
<1>1. AccessTypes
  BY WebAssumption DEF Access!AccessInit, Access!None, AccessTypes, Seen, LookupRecord, ChangeRecord
<1> QED BY <1>1 DEF Access!AccessInit, AccessInv, SharedCause, LocalIsCurrent

LEMMA LookupRecords ==
  ASSUME AccessTypes, NEW l \in Lookups
  PROVE  /\ lookup[l].step \in {"idle", "missed", "asking", "loaded", "found"}
         /\ lookup[l].read \in Seen
         /\ lookup[l].step # "idle" =>
              lookup[l] \in [step : {"missed", "asking", "loaded", "found"}, at : Processes, read : Seen]
<1>1. lookup[l] \in LookupRecord /\ 0 \in Seen
  BY DEF AccessTypes, Seen
<1> QED BY <1>1 DEF LookupRecord, Access!Idle, Access!None

LEMMA ChangeRecords ==
  ASSUME AccessTypes, NEW c \in Changes
  PROVE  /\ change[c].step \in {"idle", "changed", "known", "dropped", "written"}
         /\ change[c].read \in Seen
         /\ change[c].step # "idle" =>
              change[c] \in [step : {"changed", "known", "dropped", "written"}, at : Processes, read : Seen]
<1>1. change[c] \in ChangeRecord /\ 0 \in Seen
  BY DEF AccessTypes, Seen
<1> QED BY <1>1 DEF ChangeRecord, Access!Idle, Access!None

\* A lookup that begins, or reads one of the copies or the row.
LEMMA LookupReads ==
  ASSUME AccessInv, NEW l \in Lookups, NEW p \in Processes,
         \/ Access!Resolve(l, p) \/ Access!ReadAuthSnapshot(l) \/ Access!ReadFails(l)
         \/ Access!FindPrincipal(l) \/ Access!WriteLoadedFails(l)
  PROVE  AccessInv'
<1>1. /\ UNCHANGED <<version, shared, local, notices, subscriber, change, neglected, late>>
      /\ AccessTypes
  BY DEF Access!Resolve, Access!ReadAuthSnapshot, Access!ReadFails, Access!FindPrincipal,
         Access!WriteLoadedFails, Access!copies, AccessInv
<1>2. \E x \in LookupRecord : lookup' = [lookup EXCEPT ![l] = x]
  <2>1. CASE Access!Resolve(l, p)
    <3> DEFINE x == [step |-> "missed", at |-> p, read |-> Access!None]
    <3>1. x \in LookupRecord
      BY <1>1 DEF LookupRecord, Access!None, Seen, AccessTypes
    <3> QED BY <2>1, <3>1 DEF Access!Resolve, Access!Looking
  <2>2. CASE ~Access!Resolve(l, p)
    <3>1. /\ lookup[l] \in [step : {"missed", "asking", "loaded", "found"}, at : Processes, read : Seen]
          /\ shared \in Seen /\ version \in Seen
      BY <1>1, <2>2, LookupRecords DEF Access!ReadAuthSnapshot, Access!ReadFails,
         Access!FindPrincipal, Access!WriteLoadedFails, AccessTypes, Seen
    <3>2. PICK step \in {"missed", "asking", "loaded", "found"}, read \in Seen :
            lookup' = [lookup EXCEPT ![l] = [lookup[l] EXCEPT !.step = step, !.read = read]]
      <4> DEFINE R(step, read) == [lookup[l] EXCEPT !.step = step, !.read = read]
      <4>1. \A step : [lookup[l] EXCEPT !.step = step] = R(step, lookup[l].read)
        BY <3>1
      <4>2. \/ lookup' = [lookup EXCEPT ![l] = R("asking", lookup[l].read)]
            \/ lookup' = [lookup EXCEPT ![l] = R("found", shared)]
            \/ lookup' = [lookup EXCEPT ![l] = R("loaded", version)]
            \/ lookup' = [lookup EXCEPT ![l] = R("found", lookup[l].read)]
        BY <2>2, <4>1 DEF Access!ReadAuthSnapshot, Access!ReadFails,
           Access!FindPrincipal, Access!WriteLoadedFails, Access!Looking
      <4>3. lookup[l].read \in Seen
        BY <3>1
      <4> HIDE DEF R
      <4>4. \E step \in {"missed", "asking", "loaded", "found"}, read \in Seen :
              lookup' = [lookup EXCEPT ![l] = R(step, read)]
        BY <3>1, <4>2, <4>3
      <4> QED BY <4>4 DEF R
    <3> QED BY <3>1, <3>2 DEF LookupRecord
  <2> QED BY <2>1, <2>2
<1>3. AccessTypes'
  BY <1>1, <1>2 DEF AccessTypes, LookupRecord, ChangeRecord, Seen
<1> QED BY <1>1, <1>3 DEF AccessInv, SharedCause, WillWrite, LocalIsCurrent

\* What the script leaves in Redis: nothing newer than the row, the row's own version
\* if that is what it was given, and no stale copy that has no cause.
LEMMA ScriptWrites ==
  ASSUME AccessTypes, NEW v \in Seen, Access!Write(v)
  PROVE  /\ shared' \in Seen /\ (v = version => shared' = version)
         /\ neglected' \subseteq Copies /\ late' \subseteq Copies
         /\ \A p \in Processes : (p \in neglected \cup late) <=> (p \in neglected' \cup late')
         /\ (shared \in {Access!None, version} \/ Access!Shared \in neglected \cup late) =>
              (shared' \in {Access!None, version} \/ Access!Shared \in neglected' \cup late')
<1> DEFINE S == Access!Shared  w == IF shared > v THEN shared ELSE v
<1>1. /\ shared' = w
      /\ w = version => neglected' = neglected \ {S} /\ late' = late \ {S}
      /\ w # version => neglected' = neglected
      /\ w # version /\ shared = 0 => late' = late \cup {S}
      /\ w # version /\ shared # 0 => late' = late
  <2>1. /\ shared' = w
        /\ neglected' = IF shared' = version THEN neglected \ {S} ELSE neglected
        /\ late' = IF shared' = version THEN late \ {S}
                   ELSE IF shared = 0 THEN late \cup {S} ELSE late
    BY DEF Access!Write, Access!WriteIfCurrent, Access!None
  <2>2. CASE w = version
    <3>1. shared' = version
      BY <2>1, <2>2
    <3> HIDE DEF w
    <3> QED BY <2>1, <2>2, <3>1
  <2>3. CASE w # version
    <3>1. shared' # version
      BY <2>1, <2>3
    <3> HIDE DEF w
    <3> QED BY <2>1, <2>3, <3>1
  <2> QED BY <2>2, <2>3
<1>2. /\ w \in Seen /\ (v = version => w = version) /\ shared \in 0 .. version /\ version \in Nat
      /\ shared = version => w = version
      /\ shared # 0 => w # 0
  BY DEF AccessTypes, Seen
<1>3. /\ neglected \subseteq Copies /\ late \subseteq Copies /\ S \in Copies
      /\ \A p \in Processes : p # S
  BY CopyAssumption DEF AccessTypes, Copies
<1> HIDE DEF w, S
<1>4. CASE w = version
  <2>1. shared' = version /\ neglected' = neglected \ {S} /\ late' = late \ {S}
    BY <1>1, <1>4
  <2> QED BY <1>2, <1>3, <1>4, <2>1
<1>5. CASE w # version /\ shared = 0
  <2>1. shared' = w /\ neglected' = neglected /\ late' = late \cup {S}
    BY <1>1, <1>5
  <2> QED BY <1>2, <1>3, <1>5, <2>1 DEF S
<1>6. CASE w # version /\ shared # 0
  <2>1. shared' = w /\ neglected' = neglected /\ late' = late
    BY <1>1, <1>6
  <2> QED BY <1>2, <1>3, <1>6, <2>1 DEF Access!None
<1> QED BY <1>4, <1>5, <1>6

LEMMA LoadedWritten ==
  ASSUME AccessInv, NEW l \in Lookups, Access!WriteLoaded(l)
  PROVE  AccessInv'
<1> DEFINE x == [lookup[l] EXCEPT !.step = "found"]
<1>1. /\ AccessTypes /\ lookup[l].read \in Seen /\ Access!Write(lookup[l].read)
      /\ lookup' = [lookup EXCEPT ![l] = x]
      /\ UNCHANGED <<version, local, notices, subscriber, change>>
  BY LookupRecords DEF AccessInv, Access!WriteLoaded, Access!Looking
<1>2. x \in LookupRecord
  BY <1>1, LookupRecords DEF Access!WriteLoaded, LookupRecord
<1> HIDE DEF x
<1>3. AccessTypes'
  BY <1>1, <1>2, ScriptWrites DEF AccessTypes, LookupRecord, ChangeRecord, Seen, Copies
<1>4. SharedCause'
  BY <1>1, ScriptWrites DEF AccessInv, SharedCause, WillWrite
<1>5. LocalIsCurrent'
  BY <1>1, ScriptWrites DEF AccessInv, LocalIsCurrent
<1> QED BY <1>3, <1>4, <1>5 DEF AccessInv

LEMMA ChangeWritten ==
  ASSUME AccessInv, NEW c \in Changes, Access!WriteChanged(c)
  PROVE  AccessInv'
<1> DEFINE x == [change[c] EXCEPT !.step = "written"]
<1>1. /\ AccessTypes /\ change[c].read \in Seen /\ Access!Write(change[c].read)
      /\ change' = [change EXCEPT ![c] = x] /\ change[c].step = "dropped"
      /\ UNCHANGED <<version, local, notices, subscriber, lookup>>
  BY ChangeRecords DEF AccessInv, Access!WriteChanged, Access!Changing, Access!AfterWrite
<1>2. x \in ChangeRecord /\ x.step = "written"
  BY <1>1, ChangeRecords DEF ChangeRecord
<1> HIDE DEF x
<1>3. /\ \A d \in Changes \ {c} : change'[d] = change[d]
      /\ change'[c].step = "written"
  BY <1>1, <1>2 DEF AccessTypes
<1>4. AccessTypes'
  BY <1>1, <1>2, ScriptWrites DEF AccessTypes, LookupRecord, ChangeRecord, Seen, Copies
<1>5. SharedCause'
  <2>1. CASE change[c].read = version
    BY <1>1, <2>1, ScriptWrites DEF SharedCause
  <2>2. CASE change[c].read # version /\ \E d \in Changes : WillWrite(d)
    <3>1. PICK d \in Changes : WillWrite(d)
      BY <2>2
    <3>2. d # c
      BY <1>1, <2>2, <3>1 DEF WillWrite
    <3> QED BY <1>1, <1>3, <3>1, <3>2 DEF SharedCause, WillWrite
  <2>3. CASE ~ \E d \in Changes : WillWrite(d)
    BY <1>1, <2>3, ScriptWrites DEF AccessInv, SharedCause
  <2> QED BY <2>1, <2>2, <2>3
<1>6. LocalIsCurrent'
  <2>1. change'[c].step # "idle" /\ c \in Changes
    BY <1>3
  <2> QED BY <2>1 DEF LocalIsCurrent
<1> QED BY <1>4, <1>5, <1>6 DEF AccessInv

\* What a process drops or takes in: its own copy, and no other.
LEMMA LocalChanges ==
  ASSUME AccessInv, NEW p \in Processes, NEW v \in Seen,
         local' = [local EXCEPT ![p] = v],
         v \in {0, version} \/ p \in late',
         neglected' \in {neglected, neglected \ {p}}, late' \in {late \cup {p}, late \ {p}},
         \A q \in Processes \ {p} : notices'[q] = notices[q],
         \A c \in Changes :
           (change[c].step # "idle" => change'[c].step # "idle") /\ (WillWrite(c) => WillWrite(c)'),
         UNCHANGED <<version, shared>>
  PROVE  SharedCause' /\ LocalIsCurrent' /\ local' \in [Processes -> Seen]
         /\ neglected' \subseteq Copies /\ late' \subseteq Copies
<1>1. /\ local \in [Processes -> Seen] /\ neglected \subseteq Copies /\ late \subseteq Copies
      /\ p \in Copies /\ p # Access!Shared
  BY CopyAssumption DEF AccessInv, AccessTypes, Copies
<1>2. local' \in [Processes -> Seen] /\ neglected' \subseteq Copies /\ late' \subseteq Copies
  BY <1>1
<1>3. \A q \in (Processes \cup {Access!Shared}) \ {p} : q \in neglected \cup late => q \in neglected' \cup late'
  OBVIOUS
<1>4. SharedCause'
  BY <1>1, <1>3 DEF AccessInv, SharedCause
<1>5. LocalIsCurrent'
  <2> SUFFICES ASSUME NEW q \in Processes
               PROVE  (\/ local[q] \in {Access!None, version} \/ q \in neglected \cup late
                       \/ notices[q] > 0 \/ \E c \in Changes : change[c].step # "idle")'
    BY DEF LocalIsCurrent
  <2>1. CASE q = p
    BY <1>1, <2>1 DEF Access!None
  <2>2. CASE q # p
    BY <1>1, <1>3, <2>2 DEF AccessInv, LocalIsCurrent
  <2> QED BY <2>1, <2>2
<1> QED BY <1>2, <1>4, <1>5

\* The end of a lookup: the process keeps what was read.
LEMMA LookupEnds ==
  ASSUME AccessInv, NEW l \in Lookups, Access!RememberLocal(l)
  PROVE  AccessInv'
<1> DEFINE q == lookup[l].at  v == lookup[l].read
<1>1. AccessTypes /\ q \in Processes /\ v \in Seen
  BY LookupRecords DEF AccessInv, Access!RememberLocal
<1>2. /\ local' = [local EXCEPT ![q] = v]
      /\ late' = IF v < version THEN late \cup {q} ELSE late \ {q}
      /\ neglected' = neglected \ {q} /\ lookup' = [lookup EXCEPT ![l] = Access!Idle]
      /\ UNCHANGED <<version, shared, notices, subscriber, change>>
  BY DEF Access!RememberLocal, Access!Looking
<1>3. v \in {0, version} \/ q \in late'
  BY <1>1, <1>2 DEF Seen, AccessTypes
<1> HIDE DEF q, v
<1>4. /\ SharedCause' /\ LocalIsCurrent' /\ local' \in [Processes -> Seen]
      /\ neglected' \subseteq Copies /\ late' \subseteq Copies
  BY <1>1, <1>2, <1>3, LocalChanges DEF WillWrite
<1>5. AccessTypes'
  BY <1>1, <1>2, <1>4 DEF AccessTypes, LookupRecord, ChangeRecord, Seen, Copies
<1> QED BY <1>4, <1>5 DEF AccessInv

\* The end of a copy in a process.
LEMMA LocalEnds ==
  ASSUME AccessInv, NEW p \in Processes, Access!ReceiveInvalidation(p) \/ Access!ExpireLocal(p)
  PROVE  AccessInv'
<1>1. AccessTypes /\ 0 \in Seen
  BY DEF AccessInv, AccessTypes, Seen
<1>2. /\ local' = [local EXCEPT ![p] = 0] /\ late' = late \ {p} /\ neglected' = neglected \ {p}
      /\ notices' = notices \/ (notices[p] > 0 /\ notices' = [notices EXCEPT ![p] = @ - 1])
      /\ UNCHANGED <<version, shared, subscriber, lookup, change>>
  BY DEF Access!ReceiveInvalidation, Access!ForgetOnNotice, Access!ExpireLocal, Access!Forget, Access!None
<1>3. notices' \in [Processes -> Nat] /\ \A q \in Processes \ {p} : notices'[q] = notices[q]
  BY <1>1, <1>2 DEF AccessTypes
<1>4. /\ SharedCause' /\ LocalIsCurrent' /\ local' \in [Processes -> Seen]
      /\ neglected' \subseteq Copies /\ late' \subseteq Copies
  BY <1>1, <1>2, <1>3, LocalChanges DEF WillWrite
<1>5. AccessTypes'
  BY <1>1, <1>2, <1>3, <1>4 DEF AccessTypes, LookupRecord, ChangeRecord, Seen, Copies
<1> QED BY <1>4, <1>5 DEF AccessInv

LEMMA SharedExpires ==
  ASSUME AccessInv, Access!ExpireShared
  PROVE  AccessInv'
<1>1. /\ shared' = 0 /\ neglected' = neglected \ {Access!Shared} /\ late' = late \ {Access!Shared}
      /\ UNCHANGED <<version, local, notices, subscriber, lookup, change>>
      /\ AccessTypes /\ 0 \in Seen
  BY DEF Access!ExpireShared, Access!None, AccessInv, AccessTypes, Seen
<1>2. AccessTypes'
  BY <1>1 DEF AccessTypes, LookupRecord, ChangeRecord, Seen, Copies
<1>3. \A q \in Processes : q \in neglected \cup late => q \in neglected' \cup late'
  BY <1>1, CopyAssumption
<1>4. LocalIsCurrent'
  BY <1>1, <1>3 DEF AccessInv, LocalIsCurrent
<1>5. SharedCause'
  BY <1>1 DEF SharedCause, Access!None
<1> QED BY <1>2, <1>4, <1>5 DEF AccessInv

\* The commit of a change: the row is newer than every copy, and the change has begun.
LEMMA AccessChanged ==
  ASSUME AccessInv, trial \in Trials, NEW c \in Changes, NEW p \in Processes,
         Access!ChangeAccess(c, p)
  PROVE  AccessInv'
<1>1. PICK step \in {"changed", "known"} :
        change' = [change EXCEPT ![c] =
          [step |-> step, at |-> p, read |-> IF step = "known" THEN version' ELSE 0]]
  BY DEF Access!ChangeAccess, Access!Changing, Access!None
<1>2. /\ version < trial.last /\ version' = version + 1 /\ AccessTypes
      /\ UNCHANGED <<shared, local, notices, subscriber, lookup, neglected, late>>
  BY DEF Access!ChangeAccess, Access!copies, AccessInv
<1>3. /\ version' \in 1 .. LastVersion /\ Seen' = 0 .. (version + 1) /\ Seen \subseteq Seen'
      /\ 0 \in Seen' /\ version' \in Seen'
  BY <1>2, TrialAssumption, WebAssumption DEF AccessTypes, Seen
<1> DEFINE x == [step |-> step, at |-> p, read |-> IF step = "known" THEN version' ELSE 0]
<1>4. x \in ChangeRecord' /\ x.step = step /\ (step = "known" => x.read = version')
  BY <1>3 DEF ChangeRecord
<1>5. change' = [change EXCEPT ![c] = x]
  BY <1>1
<1> HIDE DEF x
<1>6. ChangeRecord \subseteq ChangeRecord' /\ LookupRecord \subseteq LookupRecord'
  BY <1>3 DEF ChangeRecord, LookupRecord, Access!Idle
<1>7. /\ change' \in [Changes -> ChangeRecord'] /\ change'[c] = x
      /\ lookup' \in [Lookups -> LookupRecord'] /\ local' \in [Processes -> Seen']
  BY <1>2, <1>3, <1>4, <1>5, <1>6 DEF AccessTypes
<1>8. AccessTypes'
  BY <1>2, <1>3, <1>7 DEF AccessTypes, Copies
<1>9. SharedCause'
  BY <1>4, <1>7 DEF SharedCause, WillWrite
<1>10. LocalIsCurrent'
  BY <1>4, <1>7 DEF LocalIsCurrent
<1> QED BY <1>8, <1>9, <1>10 DEF AccessInv

\* The change reads its row, and drops the copy of its own process.
LEMMA ChangeReads ==
  ASSUME AccessInv, NEW c \in Changes, Access!ReadChanged(c) \/ Access!InvalidateLocal(c)
  PROVE  AccessInv'
<1>0. /\ AccessTypes /\ 0 \in Seen /\ version \in Seen
      /\ change[c] \in [step : {"changed", "known", "dropped", "written"}, at : Processes, read : Seen]
  BY ChangeRecords DEF AccessInv, AccessTypes, Seen, Access!ReadChanged, Access!InvalidateLocal
<1>1. CASE Access!ReadChanged(c)
  <2> DEFINE x == [change[c] EXCEPT !.step = "known", !.read = version]
  <2>1. /\ change' = [change EXCEPT ![c] = x] /\ x \in ChangeRecord /\ x.step = "known" /\ x.read = version
        /\ UNCHANGED <<version, shared, local, notices, subscriber, lookup, neglected, late>>
    BY <1>0, <1>1 DEF Access!ReadChanged, Access!Changing, Access!copies, ChangeRecord
  <2> HIDE DEF x
  <2>2. change' \in [Changes -> ChangeRecord] /\ change'[c] = x
    BY <1>0, <2>1 DEF AccessTypes
  <2>3. AccessTypes'
    BY <1>0, <2>1, <2>2 DEF AccessTypes, LookupRecord, ChangeRecord, Seen, Copies
  <2>4. SharedCause' /\ LocalIsCurrent'
    BY <2>1, <2>2 DEF SharedCause, WillWrite, LocalIsCurrent
  <2> QED BY <2>3, <2>4 DEF AccessInv
<1>2. CASE Access!InvalidateLocal(c)
  <2> DEFINE x == [change[c] EXCEPT !.step = "dropped"]  p == change[c].at
  <2>1. /\ change' = [change EXCEPT ![c] = x] /\ x \in ChangeRecord
        /\ x.step = "dropped" /\ x.read = change[c].read /\ change[c].step = "known"
        /\ local' = [local EXCEPT ![p] = 0] /\ late' = late \ {p} /\ p \in Processes
        /\ UNCHANGED <<version, shared, notices, subscriber, lookup, neglected>>
    BY <1>0, <1>2 DEF Access!InvalidateLocal, Access!Changing, Access!Forget, Access!None, ChangeRecord
  <2> HIDE DEF x, p
  <2>2. change' \in [Changes -> ChangeRecord] /\ change'[c] = x /\ \A d \in Changes \ {c} : change'[d] = change[d]
    BY <1>0, <2>1 DEF AccessTypes
  <2>3. \A d \in Changes :
          (change[d].step # "idle" => change'[d].step # "idle") /\ (WillWrite(d) => WillWrite(d)')
    BY <2>1, <2>2 DEF WillWrite
  <2>4. /\ SharedCause' /\ LocalIsCurrent' /\ local' \in [Processes -> Seen]
        /\ neglected' \subseteq Copies /\ late' \subseteq Copies
    BY <1>0, <2>1, <2>3, LocalChanges
  <2>5. AccessTypes'
    BY <1>0, <2>1, <2>2, <2>4 DEF AccessTypes, LookupRecord, ChangeRecord, Seen, Copies
  <2> QED BY <2>4, <2>5 DEF AccessInv
<1> QED BY <1>1, <1>2

\* The write of the change fails: the copy in Redis, if there is one, is left as it was.
LEMMA ChangeWriteFails ==
  ASSUME AccessInv, NEW c \in Changes, Access!WriteChangedFails(c)
  PROVE  AccessInv'
<1> DEFINE x == [change[c] EXCEPT !.step = "written"]
<1>1. /\ change' = [change EXCEPT ![c] = x] /\ AccessTypes
      /\ change[c] \in [step : {"changed", "known", "dropped", "written"}, at : Processes, read : Seen]
      /\ neglected' = neglected \cup Access!KeptShared
      /\ UNCHANGED <<version, shared, local, notices, subscriber, lookup, late>>
  BY ChangeRecords DEF Access!WriteChangedFails, Access!Changing, Access!AfterWrite, Access!copies, AccessInv
<1>2. x \in ChangeRecord /\ x.step = "written"
  BY <1>1 DEF ChangeRecord
<1> HIDE DEF x
<1>3. /\ Access!KeptShared \subseteq Copies
      /\ shared = Access!None \/ Access!Shared \in Access!KeptShared
  BY DEF Access!KeptShared, Copies
<1>4. change' \in [Changes -> ChangeRecord] /\ change'[c].step = "written"
  BY <1>1, <1>2 DEF AccessTypes
<1>5. AccessTypes'
  BY <1>1, <1>3, <1>4 DEF AccessTypes, LookupRecord, ChangeRecord, Seen, Copies
<1>6. SharedCause'
  BY <1>1, <1>3 DEF SharedCause
<1>7. LocalIsCurrent'
  BY <1>4 DEF LocalIsCurrent
<1> QED BY <1>5, <1>6, <1>7 DEF AccessInv

\* The announcement, heard by the processes that listen, or by none.
LEMMA Published ==
  ASSUME AccessInv, NEW c \in Changes,
         Access!PublishInvalidation(c) \/ Access!PublishInvalidationFails(c)
  PROVE  AccessInv'
<1>1. /\ change' = [change EXCEPT ![c] = Access!Idle] /\ change[c].step = "written" /\ AccessTypes
      /\ UNCHANGED <<version, shared, local, subscriber, lookup, late>>
      /\ local \in [Processes -> Seen] /\ notices \in [Processes -> Nat]
  BY DEF Access!PublishInvalidation, Access!PublishInvalidationFails, Access!Changing,
         Access!copies, AccessInv, AccessTypes
<1>2. /\ notices' \in [Processes -> Nat] /\ neglected \subseteq neglected' /\ neglected' \subseteq Copies
      /\ \A p \in Processes : local[p] = 0 \/ p \in neglected' \/ notices'[p] > 0
  <2>1. neglected \subseteq Copies /\ Processes \subseteq Copies
    BY <1>1 DEF AccessTypes, Copies
  <2>2. CASE Access!PublishInvalidation(c)
    <3>1. /\ notices' = [p \in Processes |-> notices[p] + IF subscriber[p] = "on" THEN 1 ELSE 0]
          /\ neglected' = neglected \cup {p \in Processes : subscriber[p] # "on" /\ local[p] # 0}
      BY <2>2 DEF Access!PublishInvalidation, Access!Kept, Access!None
    <3>2. \A p \in Processes : notices'[p] \in Nat /\ (subscriber[p] = "on" => notices'[p] > 0)
      BY <1>1, <3>1
    <3> QED BY <2>1, <3>1, <3>2
  <2>3. CASE Access!PublishInvalidationFails(c)
    <3>1. notices' = notices /\ neglected' = neglected \cup {p \in Processes : local[p] # 0}
      BY <2>3 DEF Access!PublishInvalidationFails, Access!Kept, Access!None
    <3> QED BY <1>1, <2>1, <3>1
  <2> QED BY <2>2, <2>3
<1>3. change' \in [Changes -> ChangeRecord] /\ \A d \in Changes \ {c} : change'[d] = change[d]
  BY <1>1 DEF AccessTypes, ChangeRecord
<1>4. AccessTypes'
  BY <1>1, <1>2, <1>3 DEF AccessTypes, LookupRecord, ChangeRecord, Seen, Copies
<1>5. SharedCause'
  <2>1. \A d \in Changes : WillWrite(d) => d # c /\ WillWrite(d)'
    BY <1>1, <1>3 DEF WillWrite
  <2> QED BY <1>1, <1>2, <2>1 DEF AccessInv, SharedCause
<1>6. LocalIsCurrent'
  BY <1>1, <1>2 DEF LocalIsCurrent, Access!None
<1> QED BY <1>4, <1>5, <1>6 DEF AccessInv

\* The subscriber of a process stops, with the announcements on their way, or listens again.
LEMMA SubscriberSteps ==
  ASSUME AccessInv, NEW p \in Processes, Access!StopListening(p) \/ Access!Listen(p)
  PROVE  AccessInv'
<1>0. AccessTypes /\ notices \in [Processes -> Nat] /\ neglected \subseteq Copies /\ p \in Copies
  BY DEF AccessInv, AccessTypes, Copies
<1>1. /\ subscriber' \in [Processes -> {"on", "broken", "off"}]
      /\ UNCHANGED <<version, shared, local, lookup, change, late>>
  BY <1>0 DEF Access!StopListening, Access!Listen, Access!copies, AccessTypes
<1>2. /\ notices' \in [Processes -> Nat] /\ neglected \subseteq neglected' /\ neglected' \subseteq Copies
      /\ \A q \in Processes : notices[q] > 0 => notices'[q] > 0 \/ local[q] = 0 \/ q \in neglected'
  <2>1. CASE Access!StopListening(p)
    <3>1. /\ notices' = [notices EXCEPT ![p] = 0]
          /\ neglected' = IF notices[p] > 0 THEN neglected \cup {q \in {p} : local[q] # 0} ELSE neglected
      BY <2>1 DEF Access!StopListening, Access!Kept, Access!None
    <3> QED BY <1>0, <3>1
  <2>2. CASE Access!Listen(p)
    BY <1>0, <2>2 DEF Access!Listen
  <2> QED BY <2>1, <2>2
<1>3. AccessTypes'
  BY <1>0, <1>1, <1>2 DEF AccessTypes, LookupRecord, ChangeRecord, Seen, Copies
<1>4. SharedCause'
  BY <1>1, <1>2 DEF AccessInv, SharedCause, WillWrite
<1>5. LocalIsCurrent'
  BY <1>1, <1>2 DEF AccessInv, LocalIsCurrent, Access!None
<1> QED BY <1>3, <1>4, <1>5 DEF AccessInv

\* A process ends: what its changes have yet to write or announce is never told.
LEMMA AccessRestarts ==
  ASSUME AccessInv, NEW p \in Processes, Access!AccessRestart(p)
  PROVE  AccessInv'
<1> DEFINE U == UNION {Access!Unannounced(c, p) : c \in Changes}
<1>1. /\ local' = [local EXCEPT ![p] = 0]
      /\ lookup' = [l \in Lookups |-> IF lookup[l].at = p THEN Access!Idle ELSE lookup[l]]
      /\ change' = [c \in Changes |-> IF change[c].at = p THEN Access!Idle ELSE change[c]]
      /\ notices' = [notices EXCEPT ![p] = 0]
      /\ \E outcome \in {"on", "off"} : subscriber' = [subscriber EXCEPT ![p] = outcome]
      /\ late' = late \ {p} /\ neglected' = (neglected \ {p}) \cup U
      /\ UNCHANGED <<version, shared>>
  BY DEF Access!AccessRestart, Access!None
<1>2. AccessTypes /\ 0 \in Seen /\ p \in Copies /\ p # Access!Shared
  BY CopyAssumption DEF AccessInv, AccessTypes, Seen, Copies
<1>3. \A c \in Changes : Access!Unannounced(c, p) \subseteq Copies
  BY DEF Access!Unannounced, Access!Kept, Access!KeptShared, Copies
<1>4. \A c \in Changes : change[c].at = p /\ change[c].step # "idle" =>
        /\ \A q \in Processes \ {p} : local[q] = 0 \/ q \in U
        /\ change[c].step # "written" => shared = 0 \/ Access!Shared \in U
  BY DEF Access!Unannounced, Access!Kept, Access!KeptShared, Access!None
<1>5. U \subseteq Copies
  BY <1>3
<1> HIDE DEF U
<1>6. /\ lookup' \in [Lookups -> LookupRecord] /\ change' \in [Changes -> ChangeRecord]
      /\ \A c \in Changes : change[c].at # p => change'[c] = change[c]
  BY <1>1, <1>2 DEF AccessTypes, LookupRecord, ChangeRecord
<1>7. AccessTypes'
  BY <1>1, <1>2, <1>5, <1>6 DEF AccessTypes, LookupRecord, ChangeRecord, Seen, Copies
<1>8. SharedCause'
  <2>1. CASE \E c \in Changes : WillWrite(c) /\ change[c].at = p
    BY <1>1, <1>4, <2>1 DEF WillWrite, SharedCause, Access!None
  <2>2. CASE \E c \in Changes : WillWrite(c) /\ change[c].at # p
    BY <1>1, <1>6, <2>2 DEF WillWrite, SharedCause
  <2>3. CASE ~ \E c \in Changes : WillWrite(c)
    BY <1>1, <1>2, <2>3 DEF AccessInv, SharedCause
  <2> QED BY <2>1, <2>2, <2>3
<1>9. LocalIsCurrent'
  <2> SUFFICES ASSUME NEW q \in Processes
               PROVE  (\/ local[q] \in {Access!None, version} \/ q \in neglected \cup late
                       \/ notices[q] > 0 \/ \E c \in Changes : change[c].step # "idle")'
    BY DEF LocalIsCurrent
  <2>1. CASE q = p
    BY <1>1, <1>2, <2>1 DEF Access!None, AccessTypes
  <2>2. CASE q # p /\ \E c \in Changes : change[c].step # "idle" /\ change[c].at = p
    BY <1>1, <1>2, <1>4, <2>2 DEF Access!None, AccessTypes
  <2>3. CASE q # p /\ \E c \in Changes : change[c].step # "idle" /\ change[c].at # p
    BY <1>6, <2>3
  <2>4. CASE q # p /\ ~ \E c \in Changes : change[c].step # "idle"
    BY <1>1, <1>2, <2>4 DEF AccessInv, LocalIsCurrent, AccessTypes
  <2> QED BY <2>1, <2>2, <2>3, <2>4
<1> QED BY <1>7, <1>8, <1>9 DEF AccessInv

LEMMA AccessStep ==
  ASSUME AccessInv, trial \in Trials, Access!AccessNext
  PROVE  AccessInv'
<1>1. SocketProcess \in Processes
  BY WebAssumption
<1>2. ASSUME NEW l \in Lookups,
        \/ Access!LookupStep(l) \/ Access!ReadFails(l) \/ Access!WriteLoadedFails(l)
        \/ \E p \in Processes : Access!Resolve(l, p)
      PROVE AccessInv'
  <2>1. PICK p \in Processes :
          \/ Access!ReadAuthSnapshot(l) \/ Access!FindPrincipal(l) \/ Access!WriteLoaded(l)
          \/ Access!RememberLocal(l) \/ Access!ReadFails(l) \/ Access!WriteLoadedFails(l)
          \/ Access!Resolve(l, p)
    BY <1>1, <1>2 DEF Access!LookupStep
  <2> QED BY <2>1, LookupReads, LoadedWritten, LookupEnds
<1>3. ASSUME NEW c \in Changes,
        \/ Access!ChangeStep(c) \/ Access!WriteChangedFails(c) \/ Access!PublishInvalidationFails(c)
        \/ \E p \in Processes : Access!ChangeAccess(c, p)
      PROVE AccessInv'
  BY <1>3, ChangeReads, ChangeWritten, Published, ChangeWriteFails, AccessChanged DEF Access!ChangeStep
<1>4. ASSUME NEW p \in Processes, Access!ReceiveInvalidation(p) \/ Access!ExpireLocal(p)
      PROVE AccessInv'
  BY <1>4, LocalEnds
<1> QED BY <1>2, <1>3, <1>4, SharedExpires, SubscriberSteps DEF Access!AccessNext

-----------------------------------------------------------------------------
(* The pages. *)

PageRecord ==
  [shown : Numbers, armed : Numbers, latest : Numbers, again : BOOLEAN,
   socket : {"opening", "open", "joined", "away"}, inbox : Seq(Numbers)]
LiveTypes ==
  /\ decided \in Numbers /\ row \in Numbers
  /\ outgoing \in [Consumers -> Seq(Numbers)] /\ subscribed \in BOOLEAN
  /\ page \in [Pages -> PageRecord] /\ gets \in [Pages -> Seq(Numbers)]
  /\ bids \in [Pages -> SUBSET Numbers]
  /\ missed \subseteq Pages /\ newest \in [Pages -> Numbers]
  /\ trial.pages \subseteq Pages

LEMMA NumbersAre == Numbers = 0 .. LastSequence /\ 0 \in Numbers /\ 1 \in Numbers /\ LastSequence \in Nat
BY WebAssumption DEF Numbers, Nothing

LEMMA LiveStarts ==
  ASSUME LiveInit, trial \in Trials
  PROVE  LiveTypes
<1>1. Blank \in PageRecord /\ <<Nothing>> \in Seq(Numbers) /\ <<>> \in Seq(Numbers)
  BY NumbersAre DEF Blank, Nothing, PageRecord
<1> QED BY <1>1, NumbersAre, TrialAssumption DEF LiveInit, First, Nothing, LiveTypes

\* The sequences that the pages and the consumers keep.
LEMMA OfNumbers ==
  ASSUME NEW s \in Seq(Numbers)
  PROVE  /\ \A n \in Numbers : Append(s, n) \in Seq(Numbers)
         /\ s # <<>> => Head(s) \in Numbers /\ Tail(s) \in Seq(Numbers)
         /\ \A n \in 1 .. Len(s) : SubSeq(s, n + 1, Len(s)) \in Seq(Numbers)
         /\ \A i \in DOMAIN s :
              /\ s[i] \in Numbers /\ RemoveAt(s, i) \in Seq(Numbers)
              /\ \A n \in Numbers : [s EXCEPT ![i] = n] \in Seq(Numbers)
<1>1. \A n \in Numbers : Append(s, n) \in Seq(Numbers)
  OBVIOUS
<1>2. ASSUME s # <<>> PROVE Head(s) \in Numbers /\ Tail(s) \in Seq(Numbers)
  BY <1>2
<1>3. ASSUME NEW n \in 1 .. Len(s) PROVE SubSeq(s, n + 1, Len(s)) \in Seq(Numbers)
  <2>1. \A i \in n + 1 .. Len(s) : s[i] \in Numbers
    BY <1>3
  <2> QED BY <1>3, <2>1, SubSeqProperties
<1>4. ASSUME NEW i \in DOMAIN s
      PROVE  /\ s[i] \in Numbers /\ RemoveAt(s, i) \in Seq(Numbers)
             /\ \A n \in Numbers : [s EXCEPT ![i] = n] \in Seq(Numbers)
  <2>1. i \in 1 .. Len(s) /\ s[i] \in Numbers
    BY <1>4
  <2>2. SubSeq(s, 1, i - 1) \in Seq(Numbers) /\ SubSeq(s, i + 1, Len(s)) \in Seq(Numbers)
    BY <2>1, SubSeqProperties
  <2>3. RemoveAt(s, i) \in Seq(Numbers)
    BY <2>2 DEF RemoveAt
  <2>4. \A n \in Numbers : [s EXCEPT ![i] = n] \in Seq(Numbers)
    BY <2>1
  <2> QED BY <2>1, <2>3, <2>4
<1> QED BY <1>1, <1>2, <1>3, <1>4

LEMMA ConsumerSteps ==
  ASSUME LiveTypes, trial' = trial, NEW c \in Consumers,
         ProjectAuctionLane(c) \/ PublishCommittedEvent(c) \/ PublishFails(c)
  PROVE  LiveTypes'
<1>0. outgoing[c] \in Seq(Numbers) /\ decided \in 0 .. LastSequence /\ row \in 0 .. LastSequence
  BY NumbersAre DEF LiveTypes
<1>1. CASE ProjectAuctionLane(c)
  <2>1. PICK n \in (row + 1) .. decided :
          /\ row' = n /\ outgoing' = [outgoing EXCEPT ![c] = [i \in 1 .. (n - row) |-> row + i]]
    BY <1>1 DEF ProjectAuctionLane
  <2>2. n \in Numbers /\ [i \in 1 .. (n - row) |-> row + i] \in Seq(Numbers)
    <3>1. n - row \in Nat /\ \A i \in 1 .. (n - row) : row + i \in Numbers
      BY <1>0, <2>1, NumbersAre
    <3> QED BY <1>0, <2>1, <3>1, NumbersAre
  <2> QED BY <1>1, <2>1, <2>2 DEF ProjectAuctionLane, LiveTypes, history
<1>2. CASE PublishCommittedEvent(c)
  <2> DEFINE n == Head(outgoing[c])
  <2>1. n \in Numbers /\ Tail(outgoing[c]) \in Seq(Numbers)
    BY <1>0, <1>2, OfNumbers DEF PublishCommittedEvent
  <2>2. outgoing' = [outgoing EXCEPT ![c] = Tail(outgoing[c])]
    BY <1>2 DEF PublishCommittedEvent
  <2>3. page' = [q \in Pages |-> IF Receives(q) THEN [page[q] EXCEPT !.inbox = Append(@, n)] ELSE page[q]]
    BY <1>2 DEF PublishCommittedEvent
  <2>4. outgoing' \in [Consumers -> Seq(Numbers)]
    BY <2>1, <2>2 DEF LiveTypes
  <2> HIDE DEF n
  <2>5. page' \in [Pages -> PageRecord]
    <3>1. ASSUME NEW q \in Pages PROVE [page[q] EXCEPT !.inbox = Append(@, n)] \in PageRecord
      <4>1. page[q] \in PageRecord /\ page[q].inbox \in Seq(Numbers)
        BY DEF LiveTypes, PageRecord
      <4>2. Append(page[q].inbox, n) \in Seq(Numbers)
        BY <2>1, <4>1, OfNumbers
      <4> QED BY <4>1, <4>2 DEF PageRecord
    <3> QED BY <2>3, <3>1 DEF LiveTypes
  <2>6. missed' \subseteq Pages
    BY <1>2 DEF PublishCommittedEvent, Miss, LiveTypes
  <2> QED BY <1>2, <2>4, <2>5, <2>6 DEF PublishCommittedEvent, LiveTypes, auction
<1>3. CASE PublishFails(c)
  <2>1. PICK n \in 1 .. Len(outgoing[c]) :
          outgoing' = [outgoing EXCEPT ![c] = SubSeq(outgoing[c], n + 1, Len(outgoing[c]))]
    BY <1>3 DEF PublishFails
  <2>2. outgoing' \in [Consumers -> Seq(Numbers)]
    BY <1>0, <2>1, OfNumbers DEF LiveTypes
  <2> QED BY <1>3, <2>2 DEF PublishFails, LiveTypes, auction
<1> QED BY <1>1, <1>2, <1>3

LEMMA AuctionSteps ==
  ASSUME LiveTypes, trial' = trial, Decide \/ Unsubscribe \/ Subscribe
  PROVE  LiveTypes'
<1>1. decided \in 0 .. LastSequence
  BY NumbersAre DEF LiveTypes
<1>2. CASE Decide
  BY <1>1, <1>2, NumbersAre DEF Decide, LiveTypes, server, history
<1>3. CASE Unsubscribe \/ Subscribe
  BY <1>3 DEF Unsubscribe, Subscribe, LiveTypes, auction, history
<1> QED BY <1>2, <1>3

\* What a page shows, and how it is connected.
LEMMA PageChanges ==
  ASSUME LiveTypes, trial' = trial, NEW q \in Pages, NEW r \in PageRecord,
         Set(q, r), UNCHANGED newest \/ newest' = [newest EXCEPT ![q] = IF r.shown > @ THEN r.shown ELSE @],
         gets' \in [Pages -> Seq(Numbers)], bids' \in [Pages -> SUBSET Numbers],
         missed' \subseteq Pages, UNCHANGED <<auction, server>>
  PROVE  LiveTypes'
<1>1. page' \in [Pages -> PageRecord]
  BY DEF Set, LiveTypes
<1>2. newest' \in [Pages -> Numbers]
  BY DEF LiveTypes, PageRecord
<1> QED BY <1>1, <1>2 DEF LiveTypes, auction, server

LEMMA Fetches ==
  ASSUME LiveTypes, NEW q \in Pages, Fetch(q)
  PROVE  gets' \in [Pages -> Seq(Numbers)]
<1>1. gets[q] \in Seq(Numbers) /\ Append(gets[q], 0) \in Seq(Numbers)
  BY NumbersAre, OfNumbers DEF LiveTypes
<1> QED BY <1>1 DEF Fetch, Nothing, LiveTypes

LEMMA PageRecords ==
  ASSUME LiveTypes, NEW q \in Pages
  PROVE  /\ page[q] \in PageRecord /\ page[q].inbox \in Seq(Numbers) /\ page[q].shown \in Numbers
         /\ gets[q] \in Seq(Numbers) /\ bids[q] \subseteq Numbers
BY DEF LiveTypes, PageRecord

LEMMA FetchSteps ==
  ASSUME LiveTypes, trial' = trial, NEW q \in Pages,
         ReadProduct(q) \/ ShowProduct(q) \/ FetchFails(q) \/ PlaceBid(q) \/ HandleMutationSuccess(q)
  PROVE  LiveTypes'
<1>0. PICK s \in Seq(Numbers) : s = gets[q]
  BY PageRecords
<1>1. CASE ReadProduct(q)
  <2>1. PICK i \in DOMAIN s : gets' = [gets EXCEPT ![q] = [s EXCEPT ![i] = row]]
    BY <1>0, <1>1 DEF ReadProduct
  <2>2. [s EXCEPT ![i] = row] \in Seq(Numbers)
    BY OfNumbers DEF LiveTypes
  <2> QED BY <1>1, <2>1, <2>2 DEF ReadProduct, LiveTypes, auction, server
<1>2. CASE ShowProduct(q)
  <2>1. PICK i \in DOMAIN s :
          /\ Show(q, [page[q] EXCEPT !.shown = s[i]]) /\ gets' = [gets EXCEPT ![q] = RemoveAt(s, i)]
    BY <1>0, <1>2 DEF ShowProduct
  <2>2. s[i] \in Numbers /\ RemoveAt(s, i) \in Seq(Numbers)
    BY OfNumbers
  <2> DEFINE r == [page[q] EXCEPT !.shown = s[i]]
  <2>3. r \in PageRecord
    BY <2>2, PageRecords DEF PageRecord
  <2>4. Set(q, r) /\ newest' = [newest EXCEPT ![q] = IF r.shown > @ THEN r.shown ELSE @]
    BY <2>1 DEF Show
  <2>5. /\ gets' \in [Pages -> Seq(Numbers)] /\ bids' \in [Pages -> SUBSET Numbers]
        /\ missed' \subseteq Pages /\ UNCHANGED <<auction, server>>
    BY <1>2, <2>1, <2>2 DEF ShowProduct, LiveTypes
  <2> HIDE DEF r
  <2> QED BY <2>3, <2>4, <2>5, PageChanges
<1>3. CASE FetchFails(q)
  <2>1. PICK i \in DOMAIN s : gets' = [gets EXCEPT ![q] = RemoveAt(s, i)]
    BY <1>0, <1>3 DEF FetchFails
  <2>2. RemoveAt(s, i) \in Seq(Numbers)
    BY OfNumbers
  <2> QED BY <1>3, <2>1, <2>2 DEF FetchFails, LiveTypes, auction, server
<1>4. CASE PlaceBid(q)
  <2>1. decided' \in Numbers /\ bids' = [bids EXCEPT ![q] = {decided'}]
    BY <1>4, NumbersAre DEF PlaceBid, LiveTypes
  <2> QED BY <1>4, <2>1 DEF PlaceBid, LiveTypes, server, history
<1>5. CASE HandleMutationSuccess(q)
  <2>1. PICK n \in bids[q] : Show(q, [page[q] EXCEPT !.shown = n])
    BY <1>5 DEF HandleMutationSuccess
  <2> DEFINE r == [page[q] EXCEPT !.shown = n]
  <2>2. r \in PageRecord
    BY <2>1, PageRecords DEF PageRecord
  <2>3. Set(q, r) /\ newest' = [newest EXCEPT ![q] = IF r.shown > @ THEN r.shown ELSE @]
    BY <2>1 DEF Show
  <2>4. /\ gets' \in [Pages -> Seq(Numbers)] /\ bids' \in [Pages -> SUBSET Numbers]
        /\ missed' \subseteq Pages /\ UNCHANGED <<auction, server>>
    BY <1>5, Fetches DEF HandleMutationSuccess, LiveTypes
  <2> HIDE DEF r
  <2> QED BY <2>2, <2>3, <2>4, PageChanges
<1> QED BY <1>1, <1>2, <1>3, <1>4, <1>5

LEMMA BidHandled ==
  ASSUME LiveTypes, trial' = trial, NEW q \in Pages, HandleBid(q)
  PROVE  LiveTypes'
<1>1. PICK s \in Seq(Numbers) : s = page[q].inbox /\ s # <<>>
  BY PageRecords DEF HandleBid
<1>2. PICK n \in Numbers : n = Head(s)
  BY <1>1, OfNumbers
<1>3. PICK t \in Seq(Numbers) : t = Tail(s)
  BY <1>1, OfNumbers
<1>4. /\ bids' \in [Pages -> SUBSET Numbers] /\ missed' \subseteq Pages /\ UNCHANGED <<auction, server>>
  BY DEF HandleBid, LiveTypes
<1>5. CASE IsNewer(q, n)
  <2> DEFINE r == [page[q] EXCEPT !.inbox = t, !.latest = n, !.shown = IF @ = 0 THEN @ ELSE n]
  <2>1. Show(q, r) /\ Fetch(q)
    BY <1>1, <1>2, <1>3, <1>5 DEF HandleBid, Nothing
  <2>2. r \in PageRecord
    BY PageRecords DEF PageRecord
  <2> HIDE DEF r
  <2> QED BY <1>4, <2>1, <2>2, Fetches, PageChanges DEF Show
<1>6. CASE ~IsNewer(q, n)
  <2> DEFINE r == [page[q] EXCEPT !.inbox = t]
  <2>1. Set(q, r) /\ UNCHANGED <<gets, newest>>
    BY <1>1, <1>2, <1>3, <1>6 DEF HandleBid
  <2>2. r \in PageRecord /\ gets' \in [Pages -> Seq(Numbers)]
    BY <2>1, PageRecords DEF PageRecord, LiveTypes
  <2> HIDE DEF r
  <2> QED BY <1>4, <2>1, <2>2, PageChanges
<1> QED BY <1>5, <1>6

LEMMA SocketSteps ==
  ASSUME LiveTypes, trial' = trial, NEW q \in Pages,
         \/ RunEffect(q) \/ HandleConnect(q) \/ JoinBiddingChannel(q) \/ Disconnect(q)
         \/ Recover(q) \/ Expire(q)
  PROVE  LiveTypes'
<1>1. /\ bids' \in [Pages -> SUBSET Numbers] /\ UNCHANGED <<newest, auction, server>>
      /\ missed' \subseteq Pages
  BY DEF RunEffect, HandleConnect, JoinBiddingChannel, Disconnect, Recover, Expire, history, LiveTypes
<1>2. gets' \in [Pages -> Seq(Numbers)]
  BY Fetches DEF RunEffect, HandleConnect, JoinBiddingChannel, Disconnect, Recover, Expire, LiveTypes
<1>3. \E r \in PageRecord : Set(q, r)
  <2>1. CASE RunEffect(q)
    <3> DEFINE n == page[q].shown  r == [Blank EXCEPT !.shown = n, !.armed = n, !.latest = n]
    <3>1. n \in Numbers /\ <<>> \in Seq(Numbers)
      BY PageRecords
    <3> HIDE DEF n
    <3>2. r \in PageRecord
      BY <3>1 DEF PageRecord, Blank
    <3> QED BY <2>1, <3>2 DEF RunEffect, n
  <2>2. CASE ~RunEffect(q)
    <3>1. \/ Set(q, [page[q] EXCEPT !.socket = "open", !.again = TRUE])
          \/ Set(q, [page[q] EXCEPT !.socket = "joined"])
          \/ Set(q, [page[q] EXCEPT !.socket = "away"])
          \/ Set(q, [page[q] EXCEPT !.socket = "opening", !.inbox = <<>>])
      BY <2>2 DEF HandleConnect, JoinBiddingChannel, Disconnect, Recover, Expire
    <3>2. <<>> \in Seq(Numbers)
      OBVIOUS
    <3>3. /\ [page[q] EXCEPT !.socket = "open", !.again = TRUE] \in PageRecord
          /\ [page[q] EXCEPT !.socket = "joined"] \in PageRecord
          /\ [page[q] EXCEPT !.socket = "away"] \in PageRecord
          /\ [page[q] EXCEPT !.socket = "opening", !.inbox = <<>>] \in PageRecord
      BY <3>2, PageRecords DEF PageRecord
    <3> QED BY <3>1, <3>3
  <2> QED BY <2>1, <2>2
<1> QED BY <1>1, <1>2, <1>3, PageChanges

LEMMA LiveStepTypes ==
  ASSUME LiveTypes, trial' = trial, LiveNext
  PROVE  LiveTypes'
<1>1. CASE \E q \in Pages : PageStep(q) \/ FetchFails(q) \/ Disconnect(q) \/ Expire(q) \/ PlaceBid(q)
  BY <1>1, FetchSteps, BidHandled, SocketSteps DEF PageStep
<1>2. CASE \E c \in Consumers : ProjectAuctionLane(c) \/ PublishCommittedEvent(c) \/ PublishFails(c)
  BY <1>2, ConsumerSteps
<1>3. CASE Decide \/ Unsubscribe \/ Subscribe
  BY <1>3, AuctionSteps
<1> QED BY <1>1, <1>2, <1>3 DEF LiveNext, LiveStep

LEMMA LiveRestarts ==
  ASSUME LiveTypes, trial' = trial, LiveRestart
  PROVE  LiveTypes'
<1>1. page' \in [Pages -> PageRecord]
  <2>1. <<>> \in Seq(Numbers)
    OBVIOUS
  <2>2. \A q \in Pages : Reconnecting(q) \in PageRecord
    BY <2>1, PageRecords DEF Reconnecting, PageRecord
  <2> QED BY <2>2 DEF LiveRestart
<1>2. gets' \in [Pages -> Seq(Numbers)] /\ missed' \subseteq Pages
  BY DEF LiveRestart, LiveTypes
<1> QED BY <1>1, <1>2 DEF LiveRestart, LiveTypes, auction

-----------------------------------------------------------------------------
(* The three together. *)

WebInv == trial \in Trials /\ faults \in Nat /\ LiveTypes /\ AccessInv /\ SaleInv

LEMMA SaleStarts ==
  ASSUME Sale!SaleInit
  PROVE  SaleInv
<1>1. 0 \in Counts /\ Cardinality({}) = 0
  BY WebAssumption, FS_CardinalityType, FS_EmptySet DEF Counts
<1>2. Sale!Fresh \in RequestRecord
  BY <1>1 DEF Sale!Fresh, RequestRecord
<1>3. SaleTypes
  BY <1>1, <1>2 DEF Sale!SaleInit, SaleTypes, OrderRecord
<1>4. DecisionIsAnnounced /\ RatingIsOfRatings
  BY <1>1 DEF Sale!SaleInit, DecisionIsAnnounced, RatingIsOfRatings, Sale!Decided
<1>5. CountedRight
  BY DEF Sale!SaleInit, CountedRight, Sale!Fresh
<1> QED BY <1>3, <1>4, <1>5 DEF SaleInv

\* Every step keeps the trial and counts the faults.
LEMMA FaultsCount ==
  ASSUME faults \in Nat, Next
  PROVE  trial' = trial /\ faults' \in Nat
<1>1. trial' = trial /\ faults' \in {faults, faults + 1}
  <2>1. CASE LiveNext
    BY <2>1 DEF LiveNext, LiveStep, PageStep, Decide, ProjectAuctionLane, PublishCommittedEvent,
       PublishFails, Unsubscribe, Subscribe, ReadProduct, ShowProduct, FetchFails, HandleBid,
       RunEffect, HandleConnect, JoinBiddingChannel, Disconnect, Recover, Expire, PlaceBid,
       HandleMutationSuccess, Fault, NoFault
  <2>2. CASE Access!AccessNext
    BY <2>2 DEF Access!AccessNext, Access!LookupStep, Access!ChangeStep, Access!Resolve,
       Access!ReadAuthSnapshot, Access!ReadFails, Access!FindPrincipal, Access!WriteLoaded,
       Access!WriteLoadedFails, Access!RememberLocal, Access!ChangeAccess, Access!ReadChanged,
       Access!InvalidateLocal, Access!WriteChanged, Access!WriteChangedFails,
       Access!PublishInvalidation, Access!PublishInvalidationFails, Access!ReceiveInvalidation,
       Access!ExpireShared, Access!ExpireLocal, Access!StopListening, Access!Listen,
       Access!Fault, Access!NoFault
  <2>3. CASE Sale!SaleNext
    BY <2>3 DEF Sale!SaleNext, Sale!Request, Sale!FindWinnerOrder, Sale!UpdateWinnerOrder,
       Sale!ReadOrder, Sale!DecideOrder, Sale!CountRatings, Sale!CountPositive, Sale!UpdateRating,
       Sale!RequestFails, Sale!NoFault
  <2>4. CASE \E p \in Processes : ApiRestart(p)
    BY <2>4 DEF ApiRestart
  <2> QED BY <2>1, <2>2, <2>3, <2>4 DEF Next
<1> QED BY <1>1

\* A component that does not take the step stays as it is.
LEMMA OthersStay ==
  ASSUME WebInv, trial' = trial
  PROVE  /\ UNCHANGED liveOnly => LiveTypes'
         /\ UNCHANGED accessOnly => AccessInv'
         /\ UNCHANGED saleOnly => SaleInv' /\ order' = order
<1>1. UNCHANGED liveOnly => LiveTypes'
  BY DEF WebInv, LiveTypes, liveOnly, auction, server, history
<1>2. UNCHANGED accessOnly => AccessInv'
  BY DEF WebInv, AccessInv, AccessTypes, SharedCause, WillWrite, LocalIsCurrent, accessOnly,
         LookupRecord, ChangeRecord, Seen, Copies
<1>3. UNCHANGED saleOnly => SaleInv' /\ order' = order
  BY DEF WebInv, SaleInv, SaleTypes, DecisionIsAnnounced, RatingIsOfRatings, CountedRight,
         Sale!Count, saleOnly
<1> QED BY <1>1, <1>2, <1>3

LEMMA WebStep ==
  ASSUME WebInv, [Next]_vars
  PROVE  WebInv' /\ (order.status \in Sale!Decided => order' = order)
<1>1. CASE UNCHANGED vars
  BY <1>1, OthersStay DEF vars, WebInv
<1>2. CASE Next
  <2>1. trial' = trial /\ faults' \in Nat
    BY <1>2, FaultsCount DEF WebInv
  <2>2. CASE LiveNext /\ UNCHANGED <<accessOnly, saleOnly>>
    BY <2>1, <2>2, LiveStepTypes, OthersStay DEF WebInv
  <2>3. CASE Access!AccessNext /\ UNCHANGED <<liveOnly, saleOnly>>
    BY <2>1, <2>3, AccessStep, OthersStay DEF WebInv
  <2>4. CASE Sale!SaleNext /\ UNCHANGED <<liveOnly, accessOnly>>
    BY <2>1, <2>4, SaleStep, OthersStay DEF WebInv
  <2>5. CASE \E p \in Processes : ApiRestart(p)
    <3>1. PICK p \in Processes : ApiRestart(p)
      BY <2>5
    <3>2. AccessInv' /\ SaleInv' /\ order' = order
      BY <3>1, AccessRestarts, SaleRestarts DEF ApiRestart, WebInv
    <3>3. LiveTypes'
      BY <2>1, <3>1, LiveRestarts, OthersStay DEF ApiRestart, WebInv
    <3> QED BY <2>1, <3>2, <3>3 DEF WebInv
  <2> QED BY <1>2, <2>2, <2>3, <2>4, <2>5 DEF Next
<1> QED BY <1>1, <1>2

LEMMA WebInvSound ==
  ASSUME WebInv
  PROVE  StalenessHasACause /\ SalesAreSettled
<1>1. 0 \in Versions /\ Seen \subseteq Versions /\ version \in Versions
  BY WebAssumption DEF WebInv, AccessInv, AccessTypes, Seen, Versions, Access!None
<1>2. lookup \in [Lookups -> Request({"idle", "missed", "asking", "loaded", "found"})]
  <2>1. LookupRecord \subseteq Request({"idle", "missed", "asking", "loaded", "found"})
    BY <1>1 DEF LookupRecord, Request, Access!Idle, Access!None
  <2> QED BY <2>1 DEF WebInv, AccessInv, AccessTypes
<1>3. change \in [Changes -> Request({"idle", "changed", "known", "dropped", "written"})]
  <2>1. ChangeRecord \subseteq Request({"idle", "changed", "known", "dropped", "written"})
    BY <1>1 DEF ChangeRecord, Request, Access!Idle, Access!None
  <2> QED BY <2>1 DEF WebInv, AccessInv, AccessTypes
<1>4. /\ shared \in Versions /\ local \in [Processes -> Versions]
      /\ notices \in [Processes -> Nat] /\ subscriber \in [Processes -> {"on", "broken", "off"}]
      /\ neglected \subseteq Copies /\ late \subseteq Copies
  BY <1>1 DEF WebInv, AccessInv, AccessTypes
<1>5. /\ order.status \in Sale!Decided \cup {"pending"} /\ {order.proof, order.label} \subseteq Requests \cup {Sale!Nobody}
      /\ announced \in Seq(Sale!Decided) /\ ratings \subseteq Requests
      /\ rated.count \in 0 .. Cardinality(Requests) /\ rated.positive \in 0 .. Cardinality(Requests)
  BY DEF WebInv, SaleInv, SaleTypes, OrderRecord, Counts
<1>6. /\ decided \in Numbers /\ row \in Numbers
      /\ outgoing \in [Consumers -> Seq(Numbers)] /\ subscribed \in BOOLEAN
      /\ page \in [Pages -> PageRecord] /\ gets \in [Pages -> Seq(Numbers)]
      /\ \A q \in Pages : bids[q] \subseteq Numbers
      /\ missed \subseteq Pages /\ newest \in [Pages -> Numbers]
  BY DEF WebInv, LiveTypes
<1>7. TypeOK
  BY <1>1, <1>2, <1>3, <1>4, <1>5, <1>6 DEF WebInv, TypeOK, PageRecord, Copies
<1>8. SharedIsCurrent
  BY DEF WebInv, AccessInv, SharedCause, WillWrite, SharedIsCurrent
<1> QED BY <1>7, <1>8 DEF WebInv, AccessInv, SaleInv, StalenessHasACause, SalesAreSettled

LEMMA WebInvInductive == Spec => []WebInv
<1>1. Init => WebInv
  BY LiveStarts, AccessStarts, SaleStarts DEF Init, WebInv
<1>2. WebInv /\ [Next]_vars => WebInv'
  BY WebStep
<1> QED BY <1>1, <1>2, PTL DEF Spec

\* No copy of a user's access is older than the row without a cause: a write, notice or
\* request under way, one that was lost, or one that had read before the change.
THEOREM StalenessAlwaysHasACause == Spec => []StalenessHasACause
<1>1. WebInv => StalenessHasACause
  BY WebInvSound
<1> QED BY <1>1, WebInvInductive, PTL

\* The outbox tells of exactly the decision of the seller, and the rating of a user is
\* that of the rows unless two were counted side by side.
THEOREM SalesAlwaysSettled == Spec => []SalesAreSettled
<1>1. WebInv => SalesAreSettled
  BY WebInvSound
<1> QED BY <1>1, WebInvInductive, PTL

\* No checkout and no second decision changes an order that is decided.
THEOREM DecidedOrderStays == Spec => DecidedOrderIsFinal
<1>1. WebInv /\ [Next]_vars => [order.status \in Sale!Decided => order' = order]_vars
  BY WebStep
<1> QED BY <1>1, WebInvInductive, PTL DEF Spec, DecidedOrderIsFinal
=============================================================================
