------------------------ MODULE MCAuthorityRecovery ------------------------
(* Small instances of AuthorityRecovery for TLC. *)
EXTENDS AuthorityRecovery

CONSTANTS p1, p2, w1, w2

\* One worker and two auctions that take a bid or end, with two faults of any kind.
TwoAuctions ==
  [workers |-> {w1}, existing |-> {p1, p2}, created |-> {}, pending |-> {},
   kinds |-> {"BID", "CLOSE"}, events |-> 2,
   faults |-> {"all", "state", "structure", "crash", "error"}, left |-> 2, epochs |-> 4]
\* One auction, with three faults.
OneAuction == [TwoAuctions EXCEPT !.existing = {p1}, !.events = 3, !.left = 3]
\* An auction is created while the worker watches.
Creation ==
  [TwoAuctions EXCEPT !.existing = {p1}, !.created = {p2}, !.pending = {p1}, !.kinds = {"BID"},
                       !.faults = {"crash", "error"}]
\* Two workers, one of which may stall until the other takes over.
Takeover ==
  [OneAuction EXCEPT !.workers = {w1, w2}, !.kinds = {"BID"}, !.events = 1, !.faults = {"all", "stall"},
                     !.epochs = 3]
AllTrials == {TwoAuctions, OneAuction, Creation, Takeover}

\* An auction loses its state, a call fails, and the other auction ends.
FenceTrial == {[TwoAuctions EXCEPT !.kinds = {"CLOSE"}, !.events = 1, !.faults = {"state", "error"}]}
=============================================================================
