-------------------------- MODULE MCAgentApproval --------------------------
(***************************************************************************)
(* Instances of AgentApproval.  Each behaviour is one of these trials.     *)
(***************************************************************************)
EXTENDS AgentApproval

CONSTANTS r1, r2, w1, w2

Trial(late, runs, workers, limit, cancelled, approvers, failures, most) ==
  [late |-> late, runs |-> runs, workers |-> workers, maxIterations |-> limit, cancels |-> cancelled,
   calls |-> approvers, faults |-> failures, most |-> most]

EachPart ==
  { \* two workers and a run that is still being created
    Trial({"create"}, {r1}, {w1, w2}, 1, 0, 0, {}, 0),
    \* the hooks of the commands at any time
    Trial({"start", "finish"}, {r1}, {w1}, 1, 0, 1, {}, 0),
    \* a run is cancelled, and its worker fails or dies
    Trial({}, {r1}, {w1}, 4, 1, 1, {"command", "crash"}, 1),
    \* two runs are approved while the worker is at work
    Trial({}, {r1, r2}, {w1}, 1, 0, 3, {}, 0) }
=============================================================================
