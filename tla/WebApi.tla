------------------------------- MODULE WebApi -------------------------------
(***************************************************************************)
(* What the processes of the API hold in memory, and lose with a restart:  *)
(* the sockets and fetches of the pages (LiveUpdates), which are those of  *)
(* one process, the access snapshots (AccessSnapshots), and the requests   *)
(* that end a sale (SaleRequests).                                         *)
(***************************************************************************)
EXTENDS LiveUpdates, FiniteSets

CONSTANTS
  Processes, Lookups, Changes,
  LastVersion,     \* bound: the versions of the user in any trial
  Requests,        \* that end a sale
  SocketProcess,   \* the process the pages are connected to
  \* What is looked at together: pages and whether they bid, the lookups and changes of
  \* the user up to a last version, the requests that end a sale, and the faults with
  \* the most there may be (bound).
  Trials

ASSUME WebAssumption ==
  /\ LastSequence \in Nat \ {0} /\ LastVersion \in Nat \ {0}
  /\ SocketProcess \in Processes /\ IsFiniteSet(Requests)

FaultKinds == {"publish", "subscriber", "http", "network", "redis", "restart"}
ASSUME TrialAssumption ==
  \A t \in Trials :
    /\ t.pages \subseteq Pages /\ t.bids \in BOOLEAN
    /\ t.lookups \subseteq Lookups /\ t.changes \subseteq Changes /\ t.last \in 1..LastVersion
    /\ t.requests \subseteq Requests
    /\ t.faults \subseteq FaultKinds /\ t.most \in Nat

VARIABLES
  version, shared, local, notices, subscriber, lookup, change, neglected, late,
  order, announced, ratings, rated, request, overlapped

Access == INSTANCE AccessSnapshots
Sale == INSTANCE SaleRequests

ASSUME CopyAssumption == Access!Shared \notin Processes

liveOnly == <<auction, server, page, gets, bids, history>>
accessOnly == <<version, shared, local, notices, subscriber, lookup, change, neglected, late>>
saleOnly == <<order, announced, ratings, rated, request, overlapped>>
vars == <<liveOnly, accessOnly, saleOnly, trial, faults>>

Init ==
  /\ trial \in Trials /\ faults = 0
  /\ LiveInit /\ Access!AccessInit /\ Sale!SaleInit

\* server.ts ends and is started again.
ApiRestart(p) ==
  /\ "restart" \in trial.faults /\ faults < trial.most /\ faults' = faults + 1
  /\ Access!AccessRestart(p) /\ Sale!SaleRestart(p)
  /\ IF p = SocketProcess THEN LiveRestart ELSE UNCHANGED liveOnly
  /\ UNCHANGED trial

Next ==
  \/ LiveNext /\ UNCHANGED <<accessOnly, saleOnly>>
  \/ Access!AccessNext /\ UNCHANGED <<liveOnly, saleOnly>>
  \/ Sale!SaleNext /\ UNCHANGED <<liveOnly, accessOnly>>
  \/ \E p \in Processes : ApiRestart(p)
Spec == Init /\ [][Next]_vars

\* Timers run out, messages and answers arrive, and a broken connection comes back.
FairSpec ==
  /\ Spec /\ WF_vars(LiveStep /\ UNCHANGED <<accessOnly, saleOnly>>)
  /\ WF_vars(Access!ExpireShared /\ UNCHANGED <<liveOnly, saleOnly>>)
  /\ \A p \in Processes : WF_vars(Access!ExpireLocal(p) /\ UNCHANGED <<liveOnly, saleOnly>>)
  /\ \A l \in Lookups : WF_vars(Access!LookupStep(l) /\ UNCHANGED <<liveOnly, saleOnly>>)
  /\ \A c \in Changes : WF_vars(Access!ChangeStep(c) /\ UNCHANGED <<liveOnly, saleOnly>>)

-----------------------------------------------------------------------------
Numbers == Nothing..LastSequence
Versions == Access!None..LastVersion
Request(steps) == [step : steps, at : Processes \cup {Access!None}, read : Versions]

TypeOK ==
  /\ decided \in Numbers /\ row \in Numbers
  /\ outgoing \in [Consumers -> Seq(Numbers)] /\ subscribed \in BOOLEAN
  /\ page \in [Pages -> [shown : Numbers, armed : Numbers, latest : Numbers, again : BOOLEAN,
                         socket : {"opening", "open", "joined", "away"}, inbox : Seq(Numbers)]]
  /\ gets \in [Pages -> Seq(Numbers)] /\ \A q \in Pages : bids[q] \subseteq Numbers
  /\ missed \subseteq Pages /\ newest \in [Pages -> Numbers]
  /\ version \in Versions /\ shared \in Versions /\ local \in [Processes -> Versions]
  /\ notices \in [Processes -> Nat] /\ subscriber \in [Processes -> {"on", "broken", "off"}]
  /\ lookup \in [Lookups -> Request({"idle", "missed", "asking", "loaded", "found"})]
  /\ change \in [Changes -> Request({"idle", "changed", "known", "dropped", "written"})]
  /\ neglected \subseteq Processes \cup {Access!Shared} /\ late \subseteq Processes \cup {Access!Shared}
  /\ order.status \in Sale!Decided \cup {"pending"} /\ {order.proof, order.label} \subseteq Requests \cup {Sale!Nobody}
  /\ announced \in Seq(Sale!Decided) /\ ratings \subseteq Requests
  /\ rated.count \in 0..Cardinality(Requests) /\ rated.positive \in 0..Cardinality(Requests)
  /\ trial \in Trials /\ faults \in Nat

\* A page stays behind the products row only if an event has passed it by, or an
\* answer to an earlier fetch has put it back, which nothing corrects.
BehindOnlyByLoss ==
  []<>(\A q \in trial.pages : page[q].shown >= row \/ q \in missed \/ page[q].shown < newest[q])

\* The version fence of the script: the copy in Redis is older than the row only
\* while a change has yet to write it, when that write failed or never came, or when
\* there was no copy that an old answer could be compared with.
SharedIsCurrent ==
  shared \in {Access!None, version} \/ Access!Shared \in neglected \cup late
    \/ \E c \in Changes : change[c].step \in {"changed", "known", "dropped"}

\* A process answers with an older version than the row's only while the invalidation
\* is on its way, when it was lost, or when a request had read before it.
LocalIsCurrent ==
  \A p \in Processes :
    \/ local[p] \in {Access!None, version} \/ p \in neglected \cup late
    \/ notices[p] > 0
    \/ \E c \in Changes : change[c].step # "idle"

\* No copy is stale without a cause, whatever was lost and whoever was restarted.
StalenessHasACause == TypeOK /\ SharedIsCurrent /\ LocalIsCurrent

\* Whatever was lost, the copies expire: again and again none is older than the row
\* (of a user who is not changed any more: from some time on).
CopiesCatchUp ==
  []<>(shared \in {Access!None, version} /\ \A p \in Processes : local[p] \in {Access!None, version})

\* What the seller decided stays as it was decided, proof and label included: neither
\* a checkout that found the order pending nor another decision changes it any more.
DecidedOrderIsFinal == [][order.status \in Sale!Decided => order' = order]_vars

\* The outbox tells of exactly the decision there is, of two that race as well
\* (transitionSellerOrder).
DecisionIsAnnounced == announced = IF order.status \in Sale!Decided THEN <<order.status>> ELSE <<>>

\* The rating of a user is that of the ratings, unless two were ever counted side by
\* side: neither sees the other, and the later commit stays (rateUser).
RatingIsOfRatings ==
  rated = [count |-> Cardinality(ratings), positive |-> Cardinality(ratings)] \/ overlapped

\* What the requests leave behind, however they overlap and whichever are cut short.
SalesAreSettled == DecisionIsAnnounced /\ RatingIsOfRatings
=============================================================================
