---------------------------- MODULE MutationPool ----------------------------
(***************************************************************************)
(* A mutation between the API and a replica (redis-auction.authority.ts):  *)
(* its wait for a pooled connection, the script, the probe and the WAIT on *)
(* the same connection, and the retry of what was not confirmed; with the  *)
(* primary, its replicas and their failover, and the projector that reads  *)
(* the primary.                                                            *)
(*                                                                         *)
(* A write is an element of the log of the primary, and a replica has a    *)
(* prefix of it.  The connections are to one shard, the mutations to one   *)
(* auction; what they do is AuctionAuthority's business.                   *)
(***************************************************************************)
EXTENDS Integers, Sequences, FiniteSets, FiniteSetsExt, SequencesExt

CONSTANTS
  Calls,       \* calls of mutate, numbered as they arrive
  Keys,        \* their idempotency keys; a call with the key of another one is a retry
  Entries,     \* mutationPools, in the order of the pool
  Replicas,
  Required,    \* BID_DURABILITY_REPLICAS
  Trials       \* the bounds of the behaviours: keys, entries of the pool, faults, most

ASSUME PoolAssumption ==
  /\ Calls \subseteq Nat \ {0} /\ Entries \subseteq Nat \ {0} /\ Required \in Nat \ {0} /\ IsFiniteSet(Replicas)
  /\ \A t \in Trials : t.keys \subseteq Keys /\ t.entries \subseteq Entries /\ t.entries # {} /\ t.most \in Nat

VARIABLES
  call,        \* where each call is
  busy,        \* the entries that are leased
  waiters,     \* mutationWaiters
  log,         \* the writes on the primary: mutations and probes
  copied,      \* how many of them each replica has
  attached,    \* the replicas of the primary
  seen,        \* the last write each connection has made, for WAIT
  table,       \* auction_processed_events: the mutations in PostgreSQL, by sequence
  dead,        \* the mutations in the dead-letter stream
  sure,        \* history: the keys told a success by a call that lived through no failover
  across,      \* history: the calls that had run their script before a failover
  lost,        \* history: the mutations that a failover has lost
  trial, faults

callVars == <<call, busy, waiters>>
redisVars == <<log, copied, attached, seen>>
projectionVars == <<table, dead>>
history == <<sure, across, lost>>
vars == <<callVars, redisVars, projectionVars, history, trial, faults>>

NoEvent == 0
\* The sequence field of the state hash: what the last write has left.
Sequence == IF log = <<>> THEN 0 ELSE log[Len(log)].sequence
Probe == [key |-> "probe", event |-> NoEvent, sequence |-> Sequence]
Has(key) == \E i \in DOMAIN log : log[i].key = key
NoEntry == 0
New == [at |-> "none", key |-> "none", entry |-> NoEntry]

Init ==
  /\ call = [c \in Calls |-> New] /\ busy = {} /\ waiters = <<>>
  /\ log = <<>> /\ copied = [r \in Replicas |-> 0] /\ attached = Replicas
  /\ seen = [e \in Entries |-> 0]
  /\ table = <<>> /\ dead = {}
  /\ sure = {} /\ across = {} /\ lost = {}
  /\ trial \in Trials /\ faults = 0

Fault(kind) == kind \in trial.faults /\ faults < trial.most /\ faults' = faults + 1 /\ UNCHANGED trial
NoFault == UNCHANGED <<trial, faults>>
SameRedis == UNCHANGED redisVars
SameHistory == UNCHANGED history
Elsewhere == UNCHANGED projectionVars

-----------------------------------------------------------------------------
(* The pool: acquireMutationClient and the release of a lease. *)

Leased(key, e) == [at |-> "leased", key |-> key, entry |-> e]

\* A call takes a free entry, or waits behind the others.
Acquire(c, key) ==
  /\ call[c].at = "none" /\ key \in trial.keys
  /\ \A d \in Calls : d < c => call[d].at # "none"
  /\ IF busy # trial.entries
       THEN LET e == Min(trial.entries \ busy)
            IN  /\ busy' = busy \union {e}
                /\ call' = [call EXCEPT ![c] = Leased(key, e)]
                /\ UNCHANGED waiters
       ELSE /\ waiters' = Append(waiters, c)
            /\ call' = [call EXCEPT ![c] = [at |-> "waiting", key |-> key, entry |-> NoEntry]]
            /\ UNCHANGED busy
  /\ SameRedis /\ Elsewhere /\ SameHistory /\ NoFault

\* Fault: the entry is marked free although the first waiter has it.
ReleaseTwice(c) ==
  LET e == call[c].entry
      over == [call EXCEPT ![c].at = "done", ![c].entry = NoEntry]
  IN  /\ busy' = busy \ {e}
      /\ IF waiters = <<>> THEN call' = over /\ UNCHANGED waiters
         ELSE /\ call' = [over EXCEPT ![Head(waiters)] = Leased(call[Head(waiters)].key, e)]
              /\ waiters' = Tail(waiters)
\* The first waiter gets the entry, which stays busy.
Release(c) ==
  LET e == call[c].entry
      over == [call EXCEPT ![c].at = "done", ![c].entry = NoEntry]
  IN  IF waiters = <<>>
        THEN busy' = busy \ {e} /\ call' = over /\ UNCHANGED waiters
        ELSE /\ call' = [over EXCEPT ![Head(waiters)] = Leased(call[Head(waiters)].key, e)]
             /\ waiters' = Tail(waiters)
             /\ UNCHANGED busy

-----------------------------------------------------------------------------
(* mutate: the script, the probe, WAIT. *)

Goes(c, at) == call' = [call EXCEPT ![c].at = at] /\ UNCHANGED <<busy, waiters>>
Writes(c, w) ==
  /\ log' = Append(log, w)
  /\ seen' = [seen EXCEPT ![call[c].entry] = Len(log) + 1]
  /\ UNCHANGED <<copied, attached>>
Mutation(c) == [key |-> call[c].key, event |-> c, sequence |-> Sequence + 1]

\* The script replays the answer of a key it knows, and writes nothing.
Script(c) == IF Has(call[c].key) THEN SameRedis ELSE Writes(c, Mutation(c))

Evaluate(c) ==
  /\ call[c].at = "leased"
  /\ Script(c) /\ Goes(c, "evaluated")
  /\ Elsewhere /\ SameHistory /\ NoFault
\* Fault: a refusal leaves the lease as it is.
RefuseAndKeep(c) ==
  /\ call[c].at = "leased" /\ ~Has(call[c].key)
  /\ Goes(c, "done")
  /\ SameRedis /\ Elsewhere /\ SameHistory /\ NoFault
\* The script refuses the mutation; a refusal is not confirmed by a replica.
Refuse(c) ==
  /\ call[c].at = "leased" /\ ~Has(call[c].key)
  /\ Release(c)
  /\ SameRedis /\ Elsewhere /\ SameHistory /\ NoFault
\* The connection breaks before the answer arrives: the client sends the same
\* command again on the next one ...
EvaluateUnanswered(c) ==
  /\ call[c].at = "leased" /\ Fault("reply")
  /\ Script(c)
  /\ UNCHANGED callVars /\ Elsewhere /\ SameHistory
\* ... and after some attempts it gives up, whatever has become of the command.
CommandFails(c) ==
  /\ call[c].at \in {"leased", "evaluated", "probed"} /\ Fault("command")
  /\ Release(c)
  /\ SameRedis /\ Elsewhere /\ SameHistory

\* Fault: nothing is written before WAIT.
SkipProbe(c) ==
  /\ call[c].at = "evaluated" /\ Goes(c, "probed")
  /\ SameRedis /\ Elsewhere /\ SameHistory /\ NoFault
\* A replayed answer has written nothing on this connection: the probe is what makes
\* WAIT wait for everything before it.
SetProbe(c) ==
  /\ call[c].at = "evaluated"
  /\ Writes(c, Probe) /\ Goes(c, "probed")
  /\ Elsewhere /\ SameHistory /\ NoFault

\* What WAIT counts; on a connection without a write, every replica.
Acknowledging(e) == {r \in attached : copied[r] >= seen[e]}
Acknowledged(c) == Cardinality(Acknowledging(call[c].entry)) >= Required

Confirm(c) ==
  /\ call[c].at = "probed" /\ Acknowledged(c)
  /\ Release(c)
  /\ sure' = IF c \in across THEN sure ELSE sure \union {call[c].key}
  /\ UNCHANGED <<across, lost>>
  /\ SameRedis /\ Elsewhere /\ NoFault
\* BID_DURABILITY_UNCONFIRMED
Unconfirmed(c) ==
  /\ call[c].at = "probed" /\ ~Acknowledged(c)
  /\ Release(c)
  /\ SameRedis /\ Elsewhere /\ SameHistory /\ NoFault

-----------------------------------------------------------------------------
(* Redis: asynchronous replication, and Sentinel, which promotes a replica  *)
(* that has the most.  A primary that has failed does not come back, and     *)
(* it fails with all its replicas there: WAIT promises nothing of two       *)
(* failures.                                                                *)

Replicate(r) ==
  /\ r \in attached /\ copied[r] < Len(log)
  /\ copied' = [copied EXCEPT ![r] = @ + 1]
  /\ UNCHANGED callVars /\ UNCHANGED <<log, attached, seen>>
  /\ Elsewhere /\ SameHistory /\ NoFault
Detach(r) ==
  /\ r \in attached /\ Fault("replica")
  /\ attached' = attached \ {r}
  /\ UNCHANGED callVars /\ UNCHANGED <<log, copied, seen>> /\ Elsewhere /\ SameHistory
Failover(r) ==
  /\ attached = Replicas /\ Fault("primary")
  /\ \A s \in attached : copied[s] <= copied[r]
  /\ log' = SubSeq(log, 1, copied[r])
  /\ attached' = attached \ {r}
  /\ seen' = [e \in Entries |-> 0]
  /\ across' = across \union {c \in Calls : call[c].at \in {"evaluated", "probed"}}
  /\ lost' = lost \union ({log[i].event : i \in copied[r] + 1 .. Len(log)} \ {NoEvent})
  /\ UNCHANGED <<copied, sure>> /\ UNCHANGED callVars /\ Elsewhere

-----------------------------------------------------------------------------
(* The projector: the next event of the stream, by its sequence.  One whose *)
(* sequence is another event's, or leaves a gap, ends as a dead letter      *)
(* (StreamProjection).                                                      *)

Unsettled ==
  {i \in DOMAIN log :
     /\ log[i].event \notin dead \union {NoEvent}
     /\ \A j \in DOMAIN table : table[j] # log[i].event}
\* Fault: an event is projected whatever its sequence is.
ProjectWithoutFence ==
  /\ \E i \in Unsettled : table' = Append(table, log[i].event)
  /\ UNCHANGED dead
  /\ UNCHANGED callVars /\ SameRedis /\ SameHistory /\ NoFault
Project ==
  /\ Unsettled # {}
  /\ LET i == CHOOSE i \in Unsettled : \A j \in Unsettled : i <= j
     IN  IF log[i].sequence = Len(table) + 1
           THEN table' = Append(table, log[i].event) /\ UNCHANGED dead
           ELSE dead' = dead \union {log[i].event} /\ UNCHANGED table
  /\ UNCHANGED callVars /\ SameRedis /\ SameHistory /\ NoFault

-----------------------------------------------------------------------------

Step(c) ==
  Evaluate(c) \/ Refuse(c) \/ SetProbe(c) \/ Confirm(c) \/ Unconfirmed(c)
Next ==
  \/ \E c \in Calls :
       \/ \E key \in Keys : Acquire(c, key)
       \/ Step(c)
       \/ EvaluateUnanswered(c) \/ CommandFails(c)
  \/ \E r \in Replicas : Replicate(r) \/ Detach(r) \/ Failover(r)
  \/ Project

\* Every command of a call is answered or fails, WAIT within its timeout.
Work == \E c \in Calls : Step(c)

Spec == Init /\ [][Next]_vars
FairSpec == Spec /\ WF_vars(Work)

-----------------------------------------------------------------------------
(* Properties. *)

Holders(e) == {c \in Calls : call[c].entry = e}

\* The type of every variable.
TypeOK ==
  /\ call \in [Calls -> [at : {"none", "waiting", "leased", "evaluated", "probed", "done"},
                         key : Keys \union {"none"}, entry : Entries \union {NoEntry}]]
  /\ busy \subseteq Entries /\ waiters \in Seq(Calls)
  /\ log \in Seq([key : Keys \union {"probe"}, event : Calls \union {NoEvent}, sequence : Nat])
  /\ copied \in [Replicas -> Nat]
  /\ \A r \in attached : copied[r] <= Len(log)
  /\ seen \in [Entries -> 0..Len(log)]
  /\ table \in Seq(Calls) /\ dead \subseteq Calls
  /\ sure \subseteq Keys /\ across \subseteq Calls /\ lost \subseteq Calls
  /\ trial \in Trials /\ faults \in Nat

\* The pool never lends a connection twice, never forgets one, and nobody waits
\* while one is free: a released entry goes to the first waiter without becoming
\* free in between.
PoolIsSound ==
  /\ TypeOK
  /\ \A e \in Entries : Cardinality(Holders(e)) = IF e \in busy THEN 1 ELSE 0
  /\ waiters # <<>> => busy = trial.entries
  /\ ToSet(waiters) = {c \in Calls : call[c].at = "waiting"} /\ IsInjective(waiters)

\* A success that is told survives the loss of the primary, the success of a retry
\* included, whose script has replayed the answer on another connection than the
\* one that wrote the mutation; but for calls that lived through a failover between
\* their script and WAIT.
ConfirmedSurvives == \A key \in sure : Has(key)

\* The projection refuses an event only because an earlier failover has lost one
\* that was already projected, and had its sequence.
RefusedOnlyAfterLoss ==
  dead # {} => \E j \in DOMAIN table : table[j] \in lost

\* What PostgreSQL has is what the primary has, under the same sequence, or was
\* lost by it.
ProjectionIsPrefix ==
  \A j \in DOMAIN table :
    \/ table[j] \in lost
    \/ \E i \in DOMAIN log : log[i].event = table[j] /\ log[i].sequence = j

\* The projector and the failover together.
ProjectedInOrder == RefusedOnlyAfterLoss /\ ProjectionIsPrefix

\* Every call is answered: every way out of mutate hands its connection on.
EveryCallIsAnswered == []<>(\A c \in Calls : call[c].at \in {"none", "done"})
=============================================================================
