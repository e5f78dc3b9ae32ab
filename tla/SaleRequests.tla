---------------------------- MODULE SaleRequests ----------------------------
(***************************************************************************)
(* What is left of a sale: the buyer completes the order, the seller       *)
(* decides it (order.use-case.ts), and users rate one of them              *)
(* (user.repository.ts).  Each request reads before it writes; the last    *)
(* step of one is its locked update and its commit.  Transactions read     *)
(* committed rows.                                                         *)
(***************************************************************************)
EXTENDS Integers, Sequences, FiniteSets

CONSTANTS
  Requests,        \* bound: each is made once, with one proof, label or rating
  Processes        \* of the API

VARIABLES
  order,           \* order_status, the proof of the buyer, the label of the seller
  announced,       \* the outbox rows of the order
  ratings,         \* the user_rating rows, of scores that are all positive
  rated,           \* rating_count of the users row, and the positive ones in rating
  request,
  overlapped,      \* history: a rating was committed while another one counted
  trial, faults    \* see WebApi

orderVars == <<order, announced>>
ratingVars == <<ratings, rated, overlapped>>

Nobody == "nobody"
Fresh == [kind |-> "none", at |-> Nobody, step |-> "new", count |-> 0, positive |-> 0]
Decided == {"rejected", "payment_verified"}

SaleInit ==
  /\ order = [status |-> "pending", proof |-> Nobody, label |-> Nobody] /\ announced = <<>>
  /\ ratings = {} /\ rated = [count |-> 0, positive |-> 0] /\ overlapped = FALSE
  /\ request = [r \in Requests |-> Fresh]

NoFault == UNCHANGED <<trial, faults>>
Goes(r, to) == request' = [request EXCEPT ![r].step = to]
Is(r, kind, step) == request[r].kind = kind /\ request[r].step = step

Request(r, kind, p) ==
  /\ r \in trial.requests /\ request[r] = Fresh
  /\ request' = [request EXCEPT ![r] = [Fresh EXCEPT !.kind = kind, !.at = p, !.step = "begun"]]
  /\ UNCHANGED <<orderVars, ratingVars>> /\ NoFault

\* getPendingWinnerOrder, and the upload of the proof.
FindWinnerOrder(r) ==
  /\ Is(r, "checkout", "begun")
  /\ Goes(r, IF order.status = "pending" THEN "uploaded" ELSE "done")
  /\ UNCHANGED <<orderVars, ratingVars>> /\ NoFault

\* Fault: the order is taken to be pending still.
UpdateAnyOrder(r) ==
  /\ Is(r, "checkout", "uploaded") /\ Goes(r, "done")
  /\ order' = [order EXCEPT !.proof = r]
  /\ UNCHANGED <<announced, ratingVars>> /\ NoFault
UpdateWinnerOrder(r) ==
  /\ Is(r, "checkout", "uploaded") /\ Goes(r, "done")
  /\ order' = IF order.status = "pending" THEN [order EXCEPT !.proof = r] ELSE order
  /\ UNCHANGED <<announced, ratingVars>> /\ NoFault

\* transitionSellerOrder; the label is uploaded before.
ReadOrder(r) ==
  /\ request[r].kind \in Decided /\ request[r].step = "begun"
  /\ Goes(r, IF order.status = "pending" THEN "read" ELSE "done")
  /\ UNCHANGED <<orderVars, ratingVars>> /\ NoFault

\* Fault: the update does not ask for the status that was read.
PendingWhenRead == TRUE
Pending == order.status = "pending"
DecideOrder(r) ==
  /\ request[r].kind \in Decided /\ request[r].step = "read" /\ Goes(r, "done")
  /\ IF Pending
     THEN /\ order' = [order EXCEPT !.status = request[r].kind,
                                    !.label = IF request[r].kind = "payment_verified" THEN r ELSE @]
          /\ announced' = Append(announced, request[r].kind)
     ELSE UNCHANGED orderVars
  /\ UNCHANGED ratingVars /\ NoFault

\* rateUser: the row of the rating is there for its own counts only until the commit.
Count(r) == Cardinality(ratings \cup {r})
CountRatings(r) ==
  /\ Is(r, "rate", "begun")
  /\ request' = [request EXCEPT ![r].step = "counted", ![r].count = Count(r)]
  /\ UNCHANGED <<orderVars, ratingVars>> /\ NoFault
CountPositive(r) ==
  /\ Is(r, "rate", "counted")
  /\ request' = [request EXCEPT ![r].step = "rated", ![r].positive = Count(r)]
  /\ UNCHANGED <<orderVars, ratingVars>> /\ NoFault
UpdateRating(r) ==
  /\ Is(r, "rate", "rated") /\ Goes(r, "done")
  /\ ratings' = ratings \cup {r}
  /\ rated' = [count |-> request[r].count, positive |-> request[r].positive]
  /\ overlapped' = (overlapped \/ \E s \in Requests \ {r} : request[s].step \in {"counted", "rated"})
  /\ UNCHANGED orderVars /\ NoFault

\* An error, and the end of the process, leave nothing of a transaction; a proof or a
\* label that was uploaded is not heard of again.
RequestFails(r) ==
  /\ request[r].step \notin {"new", "done"} /\ Goes(r, "done")
  /\ UNCHANGED <<orderVars, ratingVars>> /\ NoFault
SaleRestart(p) ==
  /\ request' = [r \in Requests |-> IF request[r].at = p THEN [request[r] EXCEPT !.step = "done"] ELSE request[r]]
  /\ UNCHANGED <<order, announced, ratings, rated, overlapped>>

SaleNext ==
  \E r \in Requests :
    \/ \E kind \in Decided \cup {"checkout", "rate"}, p \in Processes : Request(r, kind, p)
    \/ FindWinnerOrder(r) \/ UpdateWinnerOrder(r) \/ ReadOrder(r) \/ DecideOrder(r)
    \/ CountRatings(r) \/ CountPositive(r) \/ UpdateRating(r) \/ RequestFails(r)
=============================================================================
