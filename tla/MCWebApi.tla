------------------------------ MODULE MCWebApi ------------------------------
(* Small instances of WebApi for TLC. *)
EXTENDS WebApi, TLC

CONSTANTS q1, loop, drain, a1, a2, l1, l2, c1, c2, s1, s2, s3

LOCAL Trial(watching, bidding, reads, writes, latest, sale, kinds, most) ==
  [pages |-> watching, bids |-> bidding, lookups |-> reads, changes |-> writes, last |-> latest,
   requests |-> sale, faults |-> kinds, most |-> most]

EachPart ==
  { \* a page, with bids of its own
    Trial({q1}, TRUE, {}, {}, 1, {}, {"http", "network", "restart"}, 1),
    \* a page whose events come from two consumers
    Trial({q1}, FALSE, {}, {}, 1, {}, {"publish", "subscriber", "network"}, 2),
    \* two changes of the user at once, and two lookups at once
    Trial({}, FALSE, {l1}, {c1, c2}, 3, {}, {"redis"}, 1),
    Trial({}, FALSE, {l1, l2}, {c1}, 2, {}, {"subscriber", "restart", "redis"}, 1),
    \* an order, and ratings
    Trial({}, FALSE, {}, {}, 1, {s1, s2, s3}, {"restart"}, 1) }
=============================================================================
