------------------------- MODULE AuthorityRecovery -------------------------
(***************************************************************************)
(* The recovery of a Redis authority that lost state                       *)
(* (redis-authority.recovery.ts), with the rebuild of one auction          *)
(* (redis-auction.bootstrap.ts, auction-bootstrap.lua) and its             *)
(* reconciliation.                                                         *)
(*                                                                         *)
(* A worker inspects Redis every few seconds.  If an auction's state is    *)
(* missing or the manifest does not match, it claims the control row of    *)
(* PostgreSQL under a lease, fences Redis, waits until the stream is       *)
(* projected, extends the auctions after a total loss, rebuilds them one   *)
(* by one from the projected rows, reopens the control row and removes the *)
(* fence.  Every await of that is a step here: the API, the projector, a   *)
(* second loss, a crash or another worker may come between any two.        *)
(*                                                                         *)
(* What an auction has decided is its log of events; price, leader and     *)
(* maxima are functions of it.  A log in Redis and the projected log       *)
(* differ when events are not projected yet, or have been lost.  Redis is  *)
(* one instance, and the projection of an event is one transaction (its    *)
(* retries and consumer group are StreamProjection's).                     *)
(***************************************************************************)
EXTENDS Integers, Sequences, SequencesExt

CONSTANTS
  Workers, Products,
  Trials           \* what may happen

\* Which workers run, which auctions exist at first or may be created, which of
\* them open PENDING, the kinds of events and of faults, and how many there can be,
\* and bound on the epochs (a bound of the model, not of the code).
Trial == [workers : SUBSET Workers, existing : SUBSET Products, created : SUBSET Products,
          pending : SUBSET Products, kinds : SUBSET {"BID", "CLOSE"}, events : Nat,
          faults : SUBSET {"all", "state", "structure", "crash", "error", "inflight", "stall"},
          left : Nat, epochs : Nat]

Nobody == "nobody"
Gone == "gone"           \* an owner or lock holder that has stopped
Api == "api"             \* the lock holder that creates an auction

ASSUME RecoveryAssumption ==
  Trials \subseteq Trial /\ Workers \cap {Nobody, Gone, Api} = {}

NoManifest == -1
NoEvent == [at |-> 0, id |-> 0, kind |-> "NONE"]
NoState == [keys |-> "none", log |-> <<>>, status |-> "NONE"]

VARIABLES
  trial,           \* what happens in this behaviour
  auth,            \* the Redis structures of each auction
  stream,          \* the entries of each auction that the stream still holds
  fence, auctionFence, locks, manifest,
  rows,            \* auctions with a row in products
  log,             \* the projected events of each auction
  lastEpoch,       \* last_authority_recovery_epoch
  begun,           \* auctions whose start_time has passed
  control,         \* the row of auction_authority_recovery
  worker,          \* what each worker's recovery cycle is doing
  inflight,        \* the entry each worker's projector holds, by auction
  creating,        \* auctions whose bootstrap by the API is still to come
  seeds,           \* what a bootstrap by the API has read and is about to install
  events, faults,  \* counts
  lost,            \* auctions that lost state and were not extended since
  needless,        \* the extensions of auctions that had lost nothing
  owed             \* auctions a total loss hit while everything was healthy

redis == <<auth, stream, fence, auctionFence, locks, manifest>>
postgres == <<rows, log, lastEpoch, control>>
history == <<trial, lost, needless, owed>>
vars == <<redis, postgres, history, begun, worker, inflight, creating, seeds, events, faults>>

\* auction_status of a new row.
OpeningStatus(p) == IF p \in trial.pending THEN "PENDING" ELSE "ACTIVE"
Ended(l) == l # <<>> /\ Last(l).kind = "CLOSE"
\* products.auction_status follows the last projected event.
RowStatus(p) ==
  IF log[p] = <<>> THEN OpeningStatus(p) ELSE IF Ended(log[p]) THEN "ENDED" ELSE "ACTIVE"
activeProductIds == {p \in rows : RowStatus(p) \in {"PENDING", "ACTIVE"}}

\* Fault: the fence of the auction is not looked at.
UnfencedGlobally(p) == ~fence
\* Neither fence stops a mutation of the auction.
Unfenced(p) == ~fence /\ p \notin auctionFence
Writable(p) == auth[p].keys # "none" /\ Unfenced(p)

Fault(kind) == kind \in trial.faults /\ faults < trial.left /\ faults' = faults + 1

-----------------------------------------------------------------------------
(* The API and the close job: mutations, which the fences stop, and the    *)
(* creation of an auction with its bootstrap.                              *)

Mutate(p, kind) ==
  LET event == [at |-> Len(auth[p].log) + 1, id |-> events + 1, kind |-> kind]
  IN  /\ kind \in trial.kinds /\ Writable(p) /\ p \in begun /\ auth[p].status \in {"PENDING", "ACTIVE"}
      /\ events < trial.events
      /\ events' = events + 1
      /\ auth' = [auth EXCEPT ![p].log = Append(@, event),
                              ![p].status = IF kind = "CLOSE" THEN "ENDED" ELSE "ACTIVE"]
      /\ stream' = [stream EXCEPT ![p] = Append(@, event)]
      /\ UNCHANGED <<fence, auctionFence, locks, manifest, postgres, history, begun, worker,
                     inflight, creating, seeds, faults>>

\* The start of an auction comes: no row is written for it.
Begin(p) ==
  /\ p \in rows \ begun
  /\ begun' = begun \cup {p}
  /\ UNCHANGED <<redis, postgres, history, worker, inflight, creating, seeds, events, faults>>

CreateRow(p) ==
  /\ p \in trial.created \ rows
  /\ rows' = rows \cup {p} /\ creating' = creating \cup {p}
  /\ begun' = begun \cup ({p} \ trial.pending)
  /\ UNCHANGED <<redis, log, lastEpoch, control, history, worker, inflight, seeds, events, faults>>

\* What a rebuild or a first bootstrap writes: the projected state, ACTIVE once
\* the auction has begun.
Seed(p) ==
  [keys |-> "whole", log |-> log[p],
   status |-> IF RowStatus(p) = "PENDING" /\ p \in begun THEN "ACTIVE" ELSE RowStatus(p)]

\* bootstrapRedisAuction in the create flow: the lock, then the rows.  Nothing to
\* do if the lock is taken or the state is there.
ReadBootstrap(p) ==
  /\ p \in creating
  /\ creating' = creating \ {p}
  /\ \/ /\ locks[p] = Nobody /\ auth[p].keys = "none"
        /\ locks' = [locks EXCEPT ![p] = Api] /\ seeds' = [seeds EXCEPT ![p] = Seed(p)]
     \/ (locks[p] # Nobody \/ auth[p].keys # "none") /\ UNCHANGED <<locks, seeds>>
  /\ UNCHANGED <<auth, stream, fence, auctionFence, manifest, postgres, history, begun,
                 worker, inflight, events, faults>>

\* The script refuses under a fence and leaves a state that exists alone.
MayBootstrap(p) == Unfenced(p) /\ auth[p].keys = "none"

Bootstrap(p) ==
  /\ seeds[p] # NoState
  /\ auth' = IF MayBootstrap(p) THEN [auth EXCEPT ![p] = seeds[p]] ELSE auth
  /\ locks' = [locks EXCEPT ![p] = IF @ = Api THEN Nobody ELSE @]
  /\ seeds' = [seeds EXCEPT ![p] = NoState]
  /\ UNCHANGED <<stream, fence, auctionFence, manifest, postgres, history, begun,
                 worker, inflight, creating, events, faults>>

-----------------------------------------------------------------------------
(* The projector, as far as the recovery depends on it.                    *)

Fetch(w, p) ==
  /\ w \in trial.workers /\ inflight[w][p] = NoEvent /\ stream[p] # <<>>
  /\ inflight' = [inflight EXCEPT ![w][p] = Head(stream[p])]
  /\ UNCHANGED <<redis, postgres, history, begun, worker, creating, seeds, events, faults>>

\* XACK and XDEL of an entry, by its id.
Without(s, e) ==
  IF \E i \in DOMAIN s : s[i] = e THEN RemoveAt(s, CHOOSE i \in DOMAIN s : s[i] = e) ELSE s

\* The transaction, then XACK and XDEL.  It is refused if the sequence is not
\* the next one; the entry then stays.
Project(w, p) ==
  LET e == inflight[w][p]
      duplicate == e \in Range(log[p])
      next == e.at = Len(log[p]) + 1
  IN  /\ e # NoEvent
      /\ log' = IF ~duplicate /\ next THEN [log EXCEPT ![p] = Append(@, e)] ELSE log
      /\ stream' = IF duplicate \/ next
                   THEN [stream EXCEPT ![p] = Without(@, e)] ELSE stream
      /\ inflight' = [inflight EXCEPT ![w][p] = NoEvent]
      /\ UNCHANGED <<auth, fence, auctionFence, locks, manifest, rows, lastEpoch, control,
                     history, begun, worker, creating, seeds, events, faults>>

-----------------------------------------------------------------------------
(* A recovery cycle. *)

Resting == [step |-> "idle", ready |-> FALSE, trigger |-> "NONE", epoch |-> 0, todo |-> {}, targets |-> {},
            product |-> {}, seed |-> NoState]

At(w, s) == worker[w].step = s
Goto(w, s) == worker' = [worker EXCEPT ![w].step = s]
Global(w) == worker[w].trigger # "PARTIAL_STATE_LOSS"
environment == <<begun, inflight, creating, seeds, events>>

\* The row without an owner, in state s.
Released(s) == [control EXCEPT !.state = s, !.owner = Nobody, !.leased = FALSE]

\* catch: the failure is recorded if the row is still this worker's, and the
\* record may fail as well.  The fences stay.
GiveUp(w, recorded) ==
  /\ worker' = [worker EXCEPT ![w] = Resting]
  /\ control' = IF recorded /\ control.owner = w /\ control.epoch = worker[w].epoch
                THEN Released("FAILED_RETRYING") ELSE control
  /\ UNCHANGED <<rows, log, lastEpoch>>

\* Fault: an auction under a fence counts as present.
MissingUnfenced(p) == auth[p].keys # "whole"
\* Missing, incomplete or under a fence of its own.
Missing(p) == auth[p].keys # "whole" \/ p \in auctionFence

Trigger(known) ==
  IF known # {} /\ \A p \in known : Missing(p) THEN "FULL_DATA_LOSS"
  ELSE IF \E p \in known : Missing(p) THEN "PARTIAL_STATE_LOSS" ELSE "MANIFEST_MISMATCH"

\* cycle: the control row and the active auctions are read first,
Observe(w) ==
  /\ w \in trial.workers /\ At(w, "idle")
  /\ worker' = [worker EXCEPT ![w].step = "inspect", ![w].todo = activeProductIds,
                  ![w].epoch = control.epoch, ![w].ready = control.state = "READY"]
  /\ UNCHANGED <<redis, postgres, history, environment, faults>>

\* then Redis is inspected: nothing to do, a lost manifest is written again, or a
\* recovery of what was found.
Inspect(w) ==
  LET known == worker[w].todo
      missing == {p \in known : Missing(p)}
      healthy == worker[w].ready /\ ~fence /\ missing = {}
  IN  /\ At(w, "inspect")
      /\ \/ /\ healthy /\ manifest \in {NoManifest, worker[w].epoch}
            /\ manifest' = worker[w].epoch
            /\ worker' = [worker EXCEPT ![w] = Resting]
         \/ /\ ~healthy \/ manifest \notin {NoManifest, worker[w].epoch}
            /\ worker' = [worker EXCEPT ![w] = [Resting EXCEPT
                 !.step = "claim", !.trigger = Trigger(known),
                 !.targets = IF Trigger(known) = "PARTIAL_STATE_LOSS" THEN missing ELSE {}]]
            /\ UNCHANGED manifest
      /\ UNCHANGED <<auth, stream, fence, auctionFence, locks, postgres, history, environment, faults>>

\* Fault: a new recovery keeps the epoch of the last one.
ClaimedEpochKept == control.epoch
\* An unfinished recovery keeps its epoch.
ClaimedEpoch == IF control.state = "READY" THEN control.epoch + 1 ELSE control.epoch

\* claimRecovery.
Claim(w) ==
  /\ At(w, "claim") /\ control.epoch < trial.epochs
  /\ IF control.leased /\ control.owner # w
     THEN worker' = [worker EXCEPT ![w] = Resting] /\ UNCHANGED control
     ELSE /\ control' = [state |-> "RECOVERING", owner |-> w, leased |-> TRUE,
                         epoch |-> ClaimedEpoch]
          /\ worker' = [worker EXCEPT ![w].step = "fence", ![w].epoch = control'.epoch]
  /\ UNCHANGED <<redis, rows, log, lastEpoch, history, environment, faults>>

Fence(w) ==
  /\ At(w, "fence")
  /\ fence' = (fence \/ Global(w))
  /\ auctionFence' = auctionFence \cup worker[w].targets
  /\ Goto(w, "drain")
  /\ UNCHANGED <<auth, stream, locks, manifest, postgres, history, environment, faults>>

\* renewLease: only the owner of this very recovery may go on.
Renewed(w) ==
  /\ control.owner = w /\ control.epoch = worker[w].epoch /\ control.state = "RECOVERING"
  /\ control' = [control EXCEPT !.leased = TRUE]
  /\ UNCHANGED <<rows, log, lastEpoch>>
LeaseLost(w) ==
  /\ ~(control.owner = w /\ control.epoch = worker[w].epoch /\ control.state = "RECOVERING")
  /\ GiveUp(w, TRUE)

\* Fault: the drain is skipped.
DrainNothing(w) ==
  /\ At(w, "drain")
  /\ Goto(w, "extend")
  /\ UNCHANGED <<redis, postgres, history, environment, faults>>
\* The drain ends when the stream holds no entry of the auctions concerned, and
\* renews the lease until then.  Its own batches are the projector's steps.
Drain(w) ==
  LET drained == \A p \in Products : Global(w) \/ p \in worker[w].targets => stream[p] = <<>>
  IN  /\ At(w, "drain")
      /\ \/ drained /\ Goto(w, "extend") /\ UNCHANGED postgres
         \/ ~drained /\ Renewed(w) /\ UNCHANGED worker
         \/ ~drained /\ LeaseLost(w)
      /\ UNCHANGED <<redis, history, environment, faults>>

\* Fault: a resumed recovery extends again.
InterruptedAnyEpoch(w) == {p \in activeProductIds : worker[w].trigger = "FULL_DATA_LOSS"}
\* The auctions that a total loss interrupted and this recovery has not extended.
Interrupted(w) ==
  {p \in activeProductIds : worker[w].trigger = "FULL_DATA_LOSS" /\ lastEpoch[p] < worker[w].epoch}

\* extendInterruptedAuctions.
Extend(w) ==
  /\ At(w, "extend")
  /\ lastEpoch' = [p \in Products |-> IF p \in Interrupted(w) THEN worker[w].epoch ELSE lastEpoch[p]]
  /\ needless' = needless \cup {[product |-> p, fenced |-> p \in auctionFence] : p \in Interrupted(w) \ lost}
  /\ lost' = lost \ Interrupted(w) /\ owed' = owed \ Interrupted(w)
  /\ Goto(w, "list")
  /\ UNCHANGED <<redis, rows, log, control, trial, environment, faults>>

\* After the first renewal the auctions to rebuild are read.
List(w) ==
  /\ At(w, "list")
  /\ \/ /\ Renewed(w)
        /\ worker' = [worker EXCEPT ![w].step = "next",
                        ![w].todo = IF Global(w) THEN activeProductIds ELSE worker[w].targets]
     \/ LeaseLost(w)
  /\ UNCHANGED <<redis, history, environment, faults>>

\* bootstrapRedisAuction with force: the lock and the rows.  Without the lock
\* nothing is rebuilt, and the reconciliation follows all the same.
ReadSeed(w, p) ==
  /\ At(w, "next") /\ p \in worker[w].todo
  /\ locks' = [locks EXCEPT ![p] = IF @ = Nobody THEN w ELSE @]
  /\ worker' = [worker EXCEPT ![w].step = IF locks[p] = Nobody THEN "delete" ELSE "reconcile",
                              ![w].product = {p},
                              ![w].seed = IF locks[p] = Nobody THEN Seed(p) ELSE NoState]
  /\ UNCHANGED <<auth, stream, fence, auctionFence, manifest, postgres, history, environment, faults>>

Delete(w) ==
  /\ At(w, "delete")
  /\ auth' = [p \in Products |-> IF p \in worker[w].product THEN NoState ELSE auth[p]]
  /\ Goto(w, "install")
  /\ UNCHANGED <<stream, fence, auctionFence, locks, manifest, postgres, history, environment, faults>>

\* The script leaves a state that exists alone.  The lock is given back.
Install(w) ==
  /\ At(w, "install")
  /\ auth' = [p \in Products |-> IF p \in worker[w].product /\ auth[p].keys = "none"
                                 THEN worker[w].seed ELSE auth[p]]
  /\ locks' = [p \in Products |-> IF p \in worker[w].product /\ locks[p] = w THEN Nobody ELSE locks[p]]
  /\ Goto(w, "reconcile")
  /\ UNCHANGED <<stream, fence, auctionFence, manifest, postgres, history, environment, faults>>

\* reconcileAuctionProjection: sequence, last event and status agree.
Converged(p) == auth[p].keys # "none" /\ auth[p].log = log[p] /\ auth[p].status = RowStatus(p)

Reconcile(w) ==
  /\ At(w, "reconcile")
  /\ IF \A p \in worker[w].product : Converged(p)
     THEN Goto(w, "renew") /\ UNCHANGED postgres
     ELSE GiveUp(w, TRUE)
  /\ UNCHANGED <<redis, history, environment, faults>>

Renew(w) ==
  /\ At(w, "renew")
  /\ \/ /\ Renewed(w)
        /\ worker' = [worker EXCEPT ![w].step = "next", ![w].todo = @ \ worker[w].product,
                                    ![w].product = {}, ![w].seed = NoState]
     \/ LeaseLost(w)
  /\ UNCHANGED <<redis, history, environment, faults>>

WriteManifest(w) ==
  /\ At(w, "next") /\ worker[w].todo = {}
  /\ manifest' = worker[w].epoch
  /\ Goto(w, "ready")
  /\ UNCHANGED <<auth, stream, fence, auctionFence, locks, postgres, history, environment, faults>>

\* The control row is reopened whoever owns it.
Ready(w) ==
  /\ At(w, "ready")
  /\ control' = Released("READY")
  /\ Goto(w, "unfence")
  /\ UNCHANGED <<redis, rows, log, lastEpoch, history, environment, faults>>

Unfence(w) ==
  /\ At(w, "unfence")
  /\ fence' = (fence /\ ~Global(w))
  /\ auctionFence' = auctionFence \ worker[w].targets
  /\ worker' = [worker EXCEPT ![w] = Resting]
  /\ UNCHANGED <<auth, stream, locks, manifest, postgres, history, environment, faults>>

Cycle(w) ==
  \/ Observe(w) \/ Inspect(w) \/ Claim(w) \/ Fence(w) \/ Drain(w) \/ Extend(w) \/ List(w)
  \/ \E p \in Products : ReadSeed(w, p)
  \/ Delete(w) \/ Install(w) \/ Reconcile(w) \/ Renew(w)
  \/ WriteManifest(w) \/ Ready(w) \/ Unfence(w)

-----------------------------------------------------------------------------
(* Time and faults. *)

\* The lease of a worker that stopped ends, after the locks it held: it lasts 60
\* seconds by default, they 30.  A live worker renews it in time.
LeaseEnds ==
  /\ control.leased /\ control.owner = Gone /\ \A p \in Products : locks[p] # Gone
  /\ control' = [control EXCEPT !.leased = FALSE]
  /\ UNCHANGED <<redis, rows, log, lastEpoch, history, worker, environment, faults>>

\* A live worker stalls longer than its lease lasts.
Stall ==
  /\ control.leased /\ control.owner \in trial.workers /\ Fault("stall")
  /\ control' = [control EXCEPT !.leased = FALSE]
  /\ UNCHANGED <<redis, rows, log, lastEpoch, history, worker, environment>>

\* The lock of a bootstrap has a time to live of 30 seconds.
LockEnds(p) ==
  /\ locks[p] # Nobody /\ locks' = [locks EXCEPT ![p] = Nobody]
  /\ UNCHANGED <<auth, stream, fence, auctionFence, manifest, postgres, history, worker, environment, faults>>

\* A rebuild that stops after its deletion loses the state as well.
HalfRebuilt(w) ==
  lost' = lost \cup {p \in worker[w].product : At(w, "install")}

\* A call of the cycle fails.
Error(w) ==
  /\ Fault("error") /\ worker[w].step \notin {"idle", "inspect", "claim"}
  /\ \E recorded \in BOOLEAN : GiveUp(w, recorded)
  /\ locks' = [p \in Products |-> IF locks[p] = w THEN Nobody ELSE locks[p]]
  /\ HalfRebuilt(w)
  /\ UNCHANGED <<auth, stream, fence, auctionFence, manifest, trial, needless, owed, environment>>

\* The process stops and another takes its place, with an owner id of its own.
Crash(w) ==
  /\ w \in trial.workers /\ Fault("crash")
  /\ worker' = [worker EXCEPT ![w] = Resting]
  /\ inflight' = [inflight EXCEPT ![w] = [p \in Products |-> NoEvent]]
  /\ control' = [control EXCEPT !.owner = IF @ = w THEN Gone ELSE @]
  /\ locks' = [p \in Products |-> IF locks[p] = w THEN Gone ELSE locks[p]]
  /\ HalfRebuilt(w)
  /\ UNCHANGED <<auth, stream, fence, auctionFence, manifest, rows, log, lastEpoch, trial, needless, owed, begun,
                 creating, seeds, events>>

\* Open for business, and no recovery on its way.
Healthy ==
  /\ control.state = "READY" /\ ~fence /\ \A p \in activeProductIds : ~Missing(p)
  /\ \A w \in Workers : At(w, "idle") \/ At(w, "inspect")

\* Redis comes back empty.  The entries a projector holds in memory survive.
LoseAll ==
  /\ Fault("all")
  /\ auth' = [p \in Products |-> NoState]
  /\ stream' = [p \in Products |-> <<>>]
  /\ fence' = FALSE /\ auctionFence' = {} /\ locks' = [p \in Products |-> Nobody]
  /\ manifest' = NoManifest
  /\ inflight' = IF "inflight" \in trial.faults THEN inflight
                 ELSE [w \in Workers |-> [p \in Products |-> NoEvent]]
  /\ lost' = Products
  /\ owed' = owed \cup {p \in activeProductIds : Healthy}
  /\ UNCHANGED <<postgres, trial, needless, begun, worker, creating, seeds, events>>

\* The state of one auction is lost, or one of its other structures.
LoseState(p) ==
  /\ auth[p].keys # "none" /\ Fault("state")
  /\ auth' = [auth EXCEPT ![p] = NoState]
  /\ lost' = lost \cup {p}
  /\ UNCHANGED <<stream, fence, auctionFence, locks, manifest, postgres, trial, needless, owed, worker, environment>>
LoseStructure(p) ==
  /\ auth[p].keys = "whole" /\ Fault("structure")
  /\ auth' = [auth EXCEPT ![p].keys = "broken"]
  /\ lost' = lost \cup {p}
  /\ UNCHANGED <<stream, fence, auctionFence, locks, manifest, postgres, trial, needless, owed, worker, environment>>

-----------------------------------------------------------------------------
Init ==
  /\ trial \in Trials
  /\ rows = trial.existing /\ log = [p \in Products |-> <<>>] /\ lastEpoch = [p \in Products |-> 0]
  /\ begun = trial.existing \ trial.pending
  /\ auth = [p \in Products |-> IF p \in trial.existing
                                THEN [keys |-> "whole", log |-> <<>>, status |-> OpeningStatus(p)]
                                ELSE NoState]
  /\ stream = [p \in Products |-> <<>>]
  /\ fence = FALSE /\ auctionFence = {} /\ locks = [p \in Products |-> Nobody]
  /\ manifest = NoManifest
  /\ control = [state |-> "READY", epoch |-> 0, owner |-> Nobody, leased |-> FALSE]
  /\ worker = [w \in Workers |-> Resting]
  /\ inflight = [w \in Workers |-> [p \in Products |-> NoEvent]]
  /\ creating = {} /\ seeds = [p \in Products |-> NoState] /\ events = 0 /\ faults = 0
  /\ lost = {} /\ needless = {} /\ owed = {}

Next ==
  \/ \E p \in Products : \/ \E kind \in {"BID", "CLOSE"} : Mutate(p, kind)
                         \/ Begin(p) \/ CreateRow(p) \/ ReadBootstrap(p) \/ Bootstrap(p)
                         \/ LockEnds(p) \/ LoseState(p) \/ LoseStructure(p)
  \/ \E w \in Workers : \/ Cycle(w) \/ Error(w) \/ Crash(w)
                        \/ \E p \in Products : Fetch(w, p) \/ Project(w, p)
  \/ LeaseEnds \/ Stall \/ LoseAll

Spec == Init /\ [][Next]_vars

\* The cycle runs on a timer and the projector in a loop; leases and locks end.
\* A fault, an event or the start of an auction need not happen.
Fairness ==
  /\ WF_vars(LeaseEnds)
  /\ \A w \in Workers : WF_vars(Cycle(w))
  /\ \A p \in Products : WF_vars(LockEnds(p))
  /\ \A w \in Workers, p \in Products : WF_vars(Fetch(w, p)) /\ WF_vars(Project(w, p))
FairSpec == Spec /\ Fairness

-----------------------------------------------------------------------------
(* Properties. *)

\* One auction worker runs, as docs/architecture/bidding.md:35 demands.
Alone == \E w \in Workers : trial.workers = {w}

\* No auction is created while Redis loses state: its bootstrap by the API may
\* install what it read before the loss.
Unraced == trial.created = {} \/ trial.faults \cap {"all", "state"} = {}

Event == [at : 1..trial.events, id : 1..trial.events, kind : {"BID", "CLOSE"}]
\* The type of the state, after every operation of the recovery.
TypeOK ==
  /\ auth \in [Products -> [keys : {"none", "whole", "broken"}, log : Seq(Event),
                          status : {"NONE", "PENDING", "ACTIVE", "ENDED"}]]
  /\ stream \in [Products -> Seq(Event)] /\ log \in [Products -> Seq(Event)]
  /\ fence \in BOOLEAN /\ auctionFence \subseteq Products
  /\ locks \in [Products -> Workers \cup {Nobody, Gone, Api}] /\ manifest \in Nat \cup {NoManifest}
  /\ rows \subseteq Products /\ begun \subseteq rows /\ creating \subseteq rows
  /\ control \in [state : {"READY", "RECOVERING", "FAILED_RETRYING"}, epoch : Nat,
                  owner : Workers \cup {Nobody, Gone}, leased : BOOLEAN]
  /\ control.owner = Nobody => ~control.leased
  /\ \A w \in Workers : /\ worker[w].todo \cup worker[w].targets \cup worker[w].product \subseteq Products
                        /\ inflight[w] \in [Products -> Event \cup {NoEvent}]
  /\ lastEpoch \in [Products -> Nat] /\ events \in 0..trial.events /\ faults \in 0..trial.left
  /\ lost \subseteq Products /\ owed \subseteq Products /\ needless \subseteq [product : Products, fenced : BOOLEAN]

\* An auction that accepts bids knows every event PostgreSQL has of it: nothing
\* that was projected is decided a second time (fences, drain and rebuild).  Not so
\* with two workers: one removes the fence of the other; nor if a projector holds an
\* entry while Redis loses everything.
OpenAuthorityCovers ==
  /\ TypeOK
  /\ Alone /\ Unraced /\ "inflight" \notin trial.faults =>
       \A p \in Products : Writable(p) => IsPrefix(log[p], auth[p].log)

\* Only a loss forgets an event Redis had accepted and PostgreSQL does not have:
\* whatever a rebuild deletes has been projected (fence before drain, drain
\* before the rows are read).
RebuildDiscardsNothing ==
  [][faults' = faults /\ Alone /\ Unraced =>
       \A p \in Products : Range(auth[p].log) \subseteq Range(auth'[p].log) \cup Range(log[p])]_vars

\* Once all is healthy again after a total loss, every auction that the loss
\* interrupted has been extended, or is over, however often the recovery
\* failed, stopped or changed its trigger in between.
TotalLossIsExtended == Healthy /\ Unraced => owed \cap activeProductIds = {}

\* An auction is extended once for each time it lost its state, however often the
\* recovery is retried ("deadline extensions are idempotent",
\* docs/architecture/redis-authority.md:15).
ExtensionsAreIdempotent == needless = {}

\* An auction is extended at most once for each time it lost its state, to Redis
\* or to a rebuild that was interrupted, however often the recovery is retried
\* (last_authority_recovery_epoch), unless a fence left behind made it count as
\* lost.  Not so with two workers, after a stall, or for an auction created meanwhile.
ExtendedOncePerLoss ==
  Alone /\ trial.created = {} /\ "stall" \notin trial.faults =>
    \A e \in needless : e.fenced

\* An auction that Redis has lost or fenced accepts bids again, or is over.
Reopened == \A p \in rows : Writable(p) \/ Ended(log[p])

\* The fences of auctions that a failed partial recovery left behind when every
\* auction is missing: global recoveries follow, and none of them removes one.
Refenced == \A p \in activeProductIds : Missing(p)

\* It does, unless an auction begins while PostgreSQL still says PENDING, or
\* fences were left behind (or the bound on the epochs is reached).
AuctionsReopenAtLast ==
  []<>(\/ Reopened \/ control.epoch = trial.epochs
       \/ \E p \in begun : RowStatus(p) = "PENDING"
       \/ auctionFence # {} /\ Refenced)
=============================================================================
