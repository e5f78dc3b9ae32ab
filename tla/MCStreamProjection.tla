------------------------ MODULE MCStreamProjection ------------------------
(* Small instances of StreamProjection for TLC. *)
EXTENDS StreamProjection, TLC

CONSTANTS loop, drain

LOCAL Ev(op, actor, amount, target, price, leader, status, order) ==
  [op |-> op, actor |-> actor, amount |-> amount, target |-> target, price |-> price,
   leader |-> leader, endAt |-> 9, status |-> status, order |-> order]

Bid1 == Ev("BID", 1, 3, 0, 1, 1, "ACTIVE", FALSE)
Bid2 == Ev("BID", 2, 2, 0, 3, 1, "ACTIVE", FALSE)
Ban2 == Ev("BAN", 9, -1, 2, 3, 1, "ACTIVE", FALSE)
Ban1 == Ev("BAN", 9, -1, 1, 1, 1, "ACTIVE", FALSE)
Sale == Ev("BUY_NOW", 2, 4, 0, 4, 2, "SOLD", TRUE)
Close == Ev("CLOSE", 0, -1, 0, 3, 1, "ENDED", TRUE)
Events == {Bid1, Bid2, Ban2, Ban1, Sale, Close}

\* n faults of some kinds while the events of a script come in.
LOCAL Trial(events, n, kinds) == [script |-> events, faults |-> [kinds |-> kinds, left |-> n]]
Calls == {"answer", "redis", "restart"}
Everything == Calls \cup {"database"}

\* Two bids and a ban of the bidder who does not lead, and a sale after a ban of
\* the leader, with one fault; a bid and a sale with two; and a closing without
\* an outage of the database.
AllTrials ==
  { Trial(<<Bid1, Bid2, Ban2>>, 1, Everything), Trial(<<Bid1, Ban1, Sale>>, 1, Everything),
    Trial(<<Bid1, Sale>>, 2, Everything), Trial(<<Bid1, Bid2, Close>>, 1, Calls) }
=============================================================================
