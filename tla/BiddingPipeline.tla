-------------------------- MODULE BiddingPipeline --------------------------
(***************************************************************************)
(* The authority and the projection of its stream together: what           *)
(* PostgreSQL knows of an auction compared with what Redis knows.          *)
(*                                                                         *)
(* The authority (AuctionAuthority) appends to the stream, the projection  *)
(* (StreamProjection) reads it; they share nothing else, so a step of one  *)
(* leaves the variables of the other alone.  PostgreSQL is compared where  *)
(* the code compares it: by reconcileAuctionProjection, and by             *)
(* bootstrapRedisAuction, which rebuilds an auction from its rows.         *)
(***************************************************************************)
EXTENDS AuctionAuthority, FiniteSets

CONSTANTS Consumers, MaxAttempts, ReadCount

ASSUME PipelineAssumption == MaxAttempts \in Nat \ {0} /\ ReadCount \in Nat \ {0}

VARIABLES delivered, pending, idle, deleted, retries, dlq, expiring, worker, db, dbUp, faults

projection == <<delivered, pending, idle, deleted, retries, dlq, expiring, worker, db, dbUp, faults>>

\* The stream is the authority's own: the projection publishes nothing, and there
\* is one event more than the users are allowed, the close.
Projection == INSTANCE StreamProjection
  WITH script <- stream, Trials <- {}, MaxEvents <- MaxUserEvents + 1,
       OpeningStatus <- IF StartAt = 0 THEN "ACTIVE" ELSE "PENDING"

\* No call fails here.
PipelineInit ==
  Init /\ Projection!InitProjection /\ faults = [kinds |-> {}, left |-> 0]

PipelineNext ==
  \/ Next /\ UNCHANGED projection
  \/ Projection!Project /\ UNCHANGED vars

PipelineSpec == PipelineInit /\ [][PipelineNext]_<<vars, projection>>

-----------------------------------------------------------------------------
(* Comparing the two. *)

\* Every event of the auction has reached PostgreSQL.
CaughtUp == db.seq = sequence

\* The comparison of reconcileAuctionProjection between equal sequences.
ExpectedOrders == IF status = "SOLD" \/ (status = "ENDED" /\ leaderId # NoUser) THEN 1 ELSE 0
SameSnapshot ==
  /\ db.price = currentPrice
  /\ db.endAt = endAt
  /\ db.status = status
  /\ db.leader = leaderId
  /\ Cardinality(db.orders) = ExpectedOrders

\* The highest maximum among history rows.
HighestOf(rows) ==
  IF rows = {} THEN Absent
  ELSE CHOOSE m \in {h.max : h \in rows} : \A h \in rows : h.max <= m

\* Fault: a bid that a ban took back counts.
SeedMaximaAll(u) == HighestOf({h \in db.history : h.user = u})
\* The standing maximum bootstrapRedisAuction reads for a bidder.
SeedMaxima(u) == HighestOf({h \in db.history : h.user = u /\ ~h.banned})

-----------------------------------------------------------------------------
(* Properties. *)

\* Redis and PostgreSQL agree once every event is projected
\* (the invariant "Redis/PostgreSQL convergence" of check-bidding-invariants.ts).
Converges == CaughtUp => SameSnapshot

\* They disagree only while the last event is a ban of the bidder who led: the
\* event says who led before the ban.  The next event heals the difference.
DivergesOnlyAfterBan ==
  (CaughtUp /\ ~SameSnapshot) =>
    /\ stream # <<>>
    /\ LET last == stream[Len(stream)]
       IN  last.op = "BAN" /\ last.target = last.leader /\ leaderId # last.leader

\* The standing maxima and bans that a rebuild would read from PostgreSQL are
\* those Redis holds, also after bans, counter-bids and raises of one's own bid.
RebuildKeepsStanding ==
  CaughtUp => /\ \A u \in Users : SeedMaxima(u) = maxima[u]
              /\ db.bans = bans

=============================================================================
