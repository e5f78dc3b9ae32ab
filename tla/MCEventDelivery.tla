-------------------------- MODULE MCEventDelivery --------------------------
(* Small instances of EventDelivery for TLC. *)
EXTENDS EventDelivery, TLC

CONSTANTS
  closed,      \* auction.closed.v1
  recovery,    \* the event of the scheduled recovery for the same auction
  question,    \* product.question_created.v1
  gone,        \* a question that is deleted before it is announced
  again,       \* its replay
  decision,    \* seller.approved.v1, to an address that is refused
  bid,         \* bid.accepted.v1, which notifies nobody
  recovered,   \* auction.authority_recovered, which has no version
  r1, r2, m1, m2

AllEvents == {closed, recovery, question, gone, again, decision, bid, recovered}
Notifiable == {closed, recovery, question, gone, again, decision}
NoRecipients == {gone, again}
OfClosing == closed
OfRecovery == recovery
Replayed == (gone :> again)
Refused == {decision}
WithoutVersion == {recovered}

LOCAL Trial(published, changes, kinds, most, breaks, retries, width, workers) ==
  [backlog |-> published, changes |-> changes, faults |-> kinds, most |-> most,
   stops |-> breaks, replays |-> retries, width |-> width, workers |-> workers]

\* Each looks at one part with more faults than the whole could be given.
EachPart ==
  { \* two relays on a batch that is partly malformed
    Trial(<<>>, <<recovered, bid>>, {"kafka", "database", "crash", "slow"}, 2, 0, 1, 1, {r1, r2}),
    \* the consumer with two handlers at once, on a batch with a copy
    Trial(<<question, question, gone>>, <<>>, {"database", "kafka"}, 2, 0, 0, 2, {"intake"}),
    \* the consumer with a stop in a batch
    Trial(<<gone, bid, question>>, <<>>, {"database", "crash"}, 2, 1, 0, 1, {"intake"}),
    \* two mailers
    Trial(<<decision>>, <<>>, {"database", "crash", "slow"}, 2, 0, 0, 1, {"intake", m1, m2}),
    Trial(<<question>>, <<>>, {"database", "crash", "slow", "smtp"}, 2, 0, 0, 1, {"intake", m1, m2}),
    \* a replay from the dead letters
    Trial(<<gone>>, <<>>, {"crash"}, 1, 0, 1, 1, {r1, "intake", m1}),
    \* the dashboard: changes while refreshes are under way; copies that fail
    Trial(<<>>, <<bid, question>>, {"crash"}, 1, 1, 0, 1, {r1, "board"}),
    Trial(<<bid>>, <<question>>, {"database"}, 1, 0, 0, 1, {r1, "board", "api"}),
    Trial(<<bid, bid>>, <<>>, {"database"}, 3, 1, 0, 1, {"board"}),
    \* an auction ends, with an error anywhere
    Trial(<<>>, <<closed>>, {"database"}, 1, 1, 0, 1, {r1, "intake"}),
    \* an auction ends, with a stop and whatever else
    Trial(<<>>, <<bid, closed>>, {"kafka", "crash", "smtp"}, 1, 1, 0, 1, {r1, "intake", m1}) }

\* A recovery and a bid; the dead letters are retried once.
OneRecovery == { Trial(<<>>, <<recovered, bid>>, {}, 0, 0, 1, 1, {r1}) }
=============================================================================
