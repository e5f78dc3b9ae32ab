---------------------------- MODULE LiveUpdates ----------------------------
(***************************************************************************)
(* What the page of an auction shows (DetailProductPage.tsx,               *)
(* useSocketBidding.ts): it fetches the products row, listens for the      *)
(* events that the projector publishes after its commits                   *)
(* (redis-stream.projector.ts, socket.ts), fetches again after each, and   *)
(* shows the answers to its own bids.                                      *)
(*                                                                         *)
(* A state of the auction is its sequence number.  The effect of the hook  *)
(* depends on the number on the page, so the page opens a new socket each  *)
(* time the number has changed.  Pub/Sub and the room of the socket server *)
(* are one step: what is in flight between them is as if not yet published.*)
(***************************************************************************)
EXTENDS Integers, Sequences, SequencesExt

CONSTANTS
  Pages,
  Consumers,       \* of the projection: the worker's loop, and the drain of a recovery
  LastSequence     \* bound: the events of the auction

VARIABLES
  decided,         \* the sequence of the auction in Redis
  row,             \* auction_sequence of the products row
  outgoing,        \* committed by each consumer, and still to be published
  subscribed,      \* the subscriber of the API is connected to Redis
  page,            \* what each page shows, and its socket
  gets,            \* the fetches of each page under way, and what they have read
  bids,            \* the answers to the page's own bids that are under way
  \* History: the pages that have not received a published event, and have not read the
  \* row since; the newest state each page has shown.
  missed, newest,
  trial, faults    \* see WebApi

auction == <<decided, row>>
server == <<outgoing, subscribed>>
history == <<missed, newest>>

Nothing == 0                       \* of a number: undefined
First == 1                         \* the sequence of the row when the page is opened
Blank ==
  [shown |-> Nothing, armed |-> Nothing, latest |-> Nothing, socket |-> "opening", again |-> FALSE, inbox |-> <<>>]

LiveInit ==
  /\ decided = First /\ row = First
  /\ outgoing = [c \in Consumers |-> <<>>] /\ subscribed = TRUE
  /\ page = [q \in Pages |-> Blank]
  /\ gets = [q \in Pages |-> IF q \in trial.pages THEN <<Nothing>> ELSE <<>>]
  /\ bids = [q \in Pages |-> {}]
  /\ missed = {} /\ newest = [q \in Pages |-> Nothing]

Fault(kind) == kind \in trial.faults /\ faults < trial.most /\ faults' = faults + 1 /\ UNCHANGED trial
NoFault == UNCHANGED <<trial, faults>>
Set(q, r) == page' = [page EXCEPT ![q] = r]
Show(q, r) ==
  /\ Set(q, r)
  /\ newest' = [newest EXCEPT ![q] = IF r.shown > @ THEN r.shown ELSE @]
Fetch(q) == gets' = [gets EXCEPT ![q] = Append(@, Nothing)]

-----------------------------------------------------------------------------
(* The auction. *)

\* Somebody else's bid.
Decide ==
  /\ trial.pages # {} /\ decided < LastSequence
  /\ decided' = decided + 1
  /\ UNCHANGED <<row, server, page, gets, bids, history>> /\ NoFault

\* A lane is committed; one consumer publishes its events one after the other.
ProjectAuctionLane(c) ==
  /\ outgoing[c] = <<>>
  /\ \E n \in (row + 1)..decided :
       /\ row' = n
       /\ outgoing' = [outgoing EXCEPT ![c] = [i \in 1..(n - row) |-> row + i]]
  /\ UNCHANGED <<decided, subscribed, page, gets, bids, history>> /\ NoFault

Receives(q) == subscribed /\ page[q].socket \in {"joined", "away"}
\* A socket that is opened again will be followed by a fetch.
WillFetch(q) == page[q].socket = "opening" /\ page[q].again
Miss(S) == missed' = missed \cup {q \in S \cap trial.pages : ~WillFetch(q)}

\* publishCommittedEvent, the subscriber, and emitBidUpdate to the room.
PublishCommittedEvent(c) ==
  /\ outgoing[c] # <<>>
  /\ outgoing' = [outgoing EXCEPT ![c] = Tail(@)]
  /\ page' = [q \in Pages |-> IF Receives(q) THEN [page[q] EXCEPT !.inbox = Append(@, Head(outgoing[c]))] ELSE page[q]]
  /\ Miss({q \in Pages : ~Receives(q)})
  /\ UNCHANGED <<auction, subscribed, gets, bids, newest>> /\ NoFault

\* Redis does not take the message, or the worker ends before.
PublishFails(c) ==
  /\ outgoing[c] # <<>> /\ Fault("publish")
  /\ \E n \in 1..Len(outgoing[c]) : outgoing' = [outgoing EXCEPT ![c] = SubSeq(@, n + 1, Len(@))]
  /\ missed' = missed \cup trial.pages
  /\ UNCHANGED <<auction, subscribed, page, gets, bids, newest>>

\* The connection of the subscriber breaks, or comes back.
Unsubscribe ==
  /\ subscribed /\ Fault("subscriber")
  /\ subscribed' = FALSE
  /\ UNCHANGED <<auction, outgoing, page, gets, bids, history>>
Subscribe ==
  /\ ~subscribed /\ subscribed' = TRUE
  /\ UNCHANGED <<auction, outgoing, page, gets, bids, history>> /\ NoFault

-----------------------------------------------------------------------------
(* The page. *)

\* The API reads the row for a fetch; whatever was missed before is in it.
ReadProduct(q) ==
  /\ \E i \in DOMAIN gets[q] : gets[q][i] = Nothing /\ gets' = [gets EXCEPT ![q][i] = row]
  /\ missed' = missed \ {q}
  /\ UNCHANGED <<auction, server, page, bids, newest>> /\ NoFault

\* The answers arrive in any order, and each is shown.
ShowProduct(q) ==
  /\ \E i \in DOMAIN gets[q] :
       /\ gets[q][i] # Nothing
       /\ Show(q, [page[q] EXCEPT !.shown = gets[q][i]])
       /\ gets' = [gets EXCEPT ![q] = RemoveAt(@, i)]
  /\ UNCHANGED <<auction, server, bids, missed>> /\ NoFault

\* A fetch that fails leaves the page as it is.
FetchFails(q) ==
  /\ gets[q] # <<>> /\ Fault("http")
  /\ \E i \in DOMAIN gets[q] : gets' = [gets EXCEPT ![q] = RemoveAt(@, i)]
  /\ missed' = missed \cup {q}
  /\ UNCHANGED <<auction, server, page, bids, newest>>

IsNewer(q, n) == n > page[q].latest

\* handleBid.  A page without a product shows nothing yet.
HandleBid(q) ==
  LET p == page[q]  n == Head(p.inbox) IN
  /\ p.socket = "joined" /\ p.inbox # <<>>
  /\ IF IsNewer(q, n)
     THEN /\ Show(q, [p EXCEPT !.inbox = Tail(@), !.latest = n, !.shown = IF @ = Nothing THEN @ ELSE n])
          /\ Fetch(q)
     ELSE Set(q, [p EXCEPT !.inbox = Tail(@)]) /\ UNCHANGED <<gets, newest>>
  /\ UNCHANGED <<auction, server, bids, missed>> /\ NoFault

\* The cleanup of the effect and its next run: another socket, which has never been
\* connected, and a listener that starts from the number on the page.
RunEffect(q) ==
  /\ page[q].armed # page[q].shown
  /\ Set(q, [Blank EXCEPT !.shown = page[q].shown, !.armed = page[q].shown, !.latest = page[q].shown])
  /\ missed' = IF page[q].inbox # <<>> \/ WillFetch(q) THEN missed \cup {q} ELSE missed
  /\ UNCHANGED <<auction, server, gets, bids, newest>> /\ NoFault

\* Fault: nothing is fetched when the socket is connected again.
ConnectQuietly(q) ==
  /\ q \in trial.pages /\ page[q].socket = "opening"
  /\ Set(q, [page[q] EXCEPT !.socket = "open", !.again = TRUE])
  /\ UNCHANGED <<auction, server, gets, bids, history>> /\ NoFault
\* handleConnect; the message to join is on its way.
HandleConnect(q) ==
  /\ q \in trial.pages /\ page[q].socket = "opening"
  /\ Set(q, [page[q] EXCEPT !.socket = "open", !.again = TRUE])
  /\ IF page[q].again THEN Fetch(q) ELSE UNCHANGED gets
  /\ UNCHANGED <<auction, server, bids, history>> /\ NoFault

JoinBiddingChannel(q) ==
  /\ page[q].socket = "open"
  /\ Set(q, [page[q] EXCEPT !.socket = "joined"])
  /\ UNCHANGED <<auction, server, gets, bids, history>> /\ NoFault

\* The connection of the page breaks.  The server keeps its room and its events for
\* two minutes (connectionStateRecovery).
Disconnect(q) ==
  /\ page[q].socket = "joined" /\ Fault("network")
  /\ Set(q, [page[q] EXCEPT !.socket = "away"])
  /\ UNCHANGED <<auction, server, gets, bids, history>>

Recover(q) ==
  /\ page[q].socket = "away"
  /\ Set(q, [page[q] EXCEPT !.socket = "joined"])
  /\ Fetch(q)
  /\ UNCHANGED <<auction, server, bids, history>> /\ NoFault

Expire(q) ==
  /\ page[q].socket = "away"
  /\ Set(q, [page[q] EXCEPT !.socket = "opening", !.inbox = <<>>])
  /\ UNCHANGED <<auction, server, gets, bids, history>> /\ NoFault

\* A bid of the page's own, and its answer (handleMutationSuccess).
PlaceBid(q) ==
  /\ page[q].shown # Nothing /\ trial.bids /\ bids[q] = {} /\ decided < LastSequence
  /\ decided' = decided + 1
  /\ bids' = [bids EXCEPT ![q] = {decided'}]
  /\ UNCHANGED <<row, server, page, gets, history>> /\ NoFault

HandleMutationSuccess(q) ==
  \* It may show what is yet to be committed; the fetch may read what was before.
  /\ \E n \in bids[q] : Show(q, [page[q] EXCEPT !.shown = n])
  /\ bids' = [bids EXCEPT ![q] = {}]
  /\ Fetch(q)
  /\ UNCHANGED <<auction, server, missed>> /\ NoFault

-----------------------------------------------------------------------------
\* What the process of the API takes along: the sockets, what they have yet to
\* receive, and the requests.
Reconnecting(q) ==
  [page[q] EXCEPT !.socket = "opening", !.inbox = <<>>]
LiveRestart ==
  /\ page' = [q \in Pages |-> Reconnecting(q)]
  /\ gets' = [q \in Pages |-> <<>>]
  /\ missed' = missed \cup {q \in trial.pages : gets[q] # <<>>}
  /\ subscribed' = TRUE
  /\ UNCHANGED <<auction, outgoing, bids, newest>>

PageStep(q) ==
  \/ ReadProduct(q) \/ ShowProduct(q) \/ HandleBid(q) \/ RunEffect(q)
  \/ HandleConnect(q) \/ JoinBiddingChannel(q) \/ Recover(q) \/ HandleMutationSuccess(q)
LiveStep ==
  \/ \E c \in Consumers : ProjectAuctionLane(c) \/ PublishCommittedEvent(c)
  \/ Subscribe
  \/ \E q \in Pages : PageStep(q)
LiveNext ==
  \/ LiveStep \/ Decide \/ Unsubscribe
  \/ \E c \in Consumers : PublishFails(c)
  \/ \E q \in Pages : FetchFails(q) \/ Disconnect(q) \/ Expire(q) \/ PlaceBid(q)
=============================================================================
