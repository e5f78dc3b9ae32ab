--------------------------- MODULE MCMutationPool ---------------------------
(***************************************************************************)
(* Instances of MutationPool.                                              *)
(***************************************************************************)
EXTENDS MutationPool

CONSTANTS k1, k2, r1, r2

Trial(keys, entries, most, failures) ==
  [keys |-> keys, entries |-> entries, most |-> most, faults |-> failures]

EachPart ==
  { \* retries on two connections while the primary fails
    Trial({k1}, {1, 2}, 2, {"primary", "reply", "command"}),
    \* two mutations, a failover, and the projector
    Trial({k1, k2}, {1}, 1, {"primary"}),
    \* three calls for one connection, and a replica that is lost
    Trial({k1, k2}, {1}, 2, {"command", "replica"}) }
=============================================================================
